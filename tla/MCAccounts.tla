----------------------------- MODULE MCAccounts -----------------------------
(* Instances of Accounts for TLC. *)
EXTENDS Accounts

\* Another name (which keeps both fields), disable and enable, a demotion.
PageChanges == [role: {"keep"}, active: {"on", "off", "keep"}]
                 \cup {[role |-> "USER", active |-> "keep"]}
=============================================================================
