------------------------------ MODULE MCUpdates ------------------------------
(* Instances of Updates for TLC. *)
EXTENDS Updates

\* "v1.9", "1.10.0-rc1" and "1.10.2".
ThreeTags == << << <<Other, 1>>, <<9>> >>,
                << <<1>>, <<1, 0>>, <<0, Other, Other, Other, 1>> >>,
                << <<1>>, <<1, 0>>, <<2>> >> >>

ASSUME InstanceAscends == ReleasesAscend
=============================================================================
