------------------------------ MODULE SetLemmas ------------------------------
(***************************************************************************)
(* Facts about maxima and minima of sets of natural numbers that the       *)
(* proofs about queue positions rest on.                                   *)
(***************************************************************************)
EXTENDS Naturals, FiniteSets, FiniteSetsExt, FiniteSetTheorems, TLAPS

(* Every non-empty set of natural numbers has a least element.             *)
LEMMA LeastElement ==
  ASSUME NEW T, T \subseteq Nat, T # {}
  PROVE  \E x \in T : \A y \in T : x <= y
<1> DEFINE R == OpToRel(<, Nat)
<1>1. IsWellFoundedOn(R, Nat)
  BY NatLessThanWellFounded
<1>2. PICK x \in T : \A y \in T : ~(<<y, x>> \in R)
  <2> HIDE DEF R
  <2> QED BY <1>1, WFMin
<1>3. \A y \in T : ~(y < x)
  BY <1>2 DEF OpToRel
<1> QED BY <1>3

(* A finite set of natural numbers has an upper bound: otherwise, among    *)
(* the prefixes of an enumeration of the set, a shortest unbounded one     *)
(* would exceed a bounded one by a single element.                         *)
LEMMA FiniteSetsAreBounded ==
  ASSUME NEW S, S \subseteq Nat, IsFiniteSet(S)
  PROVE  \E b \in Nat : \A x \in S : x <= b
<1> DEFINE n == Cardinality(S)
<1>1. /\ n \in Nat
      /\ ExistsBijection(1..n, S)
  BY FS_CardinalityType
<1>2. PICK f \in [1..n -> S] : \A x \in S : \E i \in 1..n : f[i] = x
  BY <1>1 DEF ExistsBijection, Bijection, Surjection
<1> DEFINE Bounded(k) == \E b \in Nat : \A i \in 1..k : f[i] <= b
           Unbounded == {k \in 0..n : ~Bounded(k)}
<1>3. Unbounded = {}
  <2> SUFFICES ASSUME Unbounded # {}
               PROVE  FALSE
    OBVIOUS
  <2>1. PICK k \in Unbounded : \A j \in Unbounded : k <= j
    <3> Unbounded \subseteq Nat
      BY <1>1
    <3> HIDE DEF Unbounded
    <3> QED BY LeastElement
  <2>2. k \in 0..n /\ ~Bounded(k)
    OBVIOUS
  <2>3. k # 0
    BY <2>2, 0 \in Nat
  <2>4. k \in 1..n /\ k - 1 \in 0..n /\ ~(k <= k - 1)
    <3> HIDE DEF Bounded, n
    <3> QED BY <2>2, <2>3, <1>1
  <2>5. Bounded(k - 1)
    <3> k - 1 \notin Unbounded
      BY <2>1, <2>4
    <3> HIDE DEF Bounded
    <3> QED BY <2>4
  <2>6. PICK b \in Nat : \A i \in 1..(k - 1) : f[i] <= b
    BY <2>5
  <2>7. f[k] \in Nat
    BY <2>4, <1>2
  <2> HIDE DEF Bounded, Unbounded, n
  <2>8. PICK c \in Nat : f[k] <= c /\ b <= c
    <3>1. CASE f[k] <= b
      BY <3>1
    <3>2. CASE ~(f[k] <= b)
      <4>1. b <= f[k] /\ f[k] <= f[k]
        BY <3>2, <2>7
      <4> QED BY <4>1, <2>7
    <3> QED BY <3>1, <3>2
  <2>9. \A i \in 1..k : f[i] <= c
    <3> TAKE i \in 1..k
    <3>1. CASE i = k
      BY <3>1, <2>8
    <3>2. CASE i # k
      <4>1. i \in 1..(k - 1) /\ i \in 1..n
        BY <3>2, <2>4, <1>1
      <4>2. f[i] <= b /\ f[i] \in Nat
        BY <4>1, <2>6, <1>2
      <4>3. \A x, y, z \in Nat : x <= y /\ y <= z => x <= z
        OBVIOUS
      <4> QED BY <4>2, <4>3, <2>8
    <3> QED BY <3>1, <3>2
  <2>10. Bounded(k)
    BY <2>9 DEF Bounded
  <2> QED BY <2>2, <2>10
<1>4. Bounded(n)
  <2>1. n \in 0..n /\ n \notin Unbounded
    BY <1>1, <1>3
  <2> HIDE DEF Bounded, n
  <2> QED BY <2>1
<1>5. PICK b \in Nat : \A i \in 1..n : f[i] <= b
  BY <1>4
<1> QED BY <1>5, <1>2

(* The maximum of a bounded non-empty set of naturals is its largest       *)
(* element.                                                                *)
LEMMA MaxOfBounded ==
  ASSUME NEW S, S \subseteq Nat, S # {}, NEW b \in Nat, \A x \in S : x <= b
  PROVE  Max(S) \in S /\ \A x \in S : x <= Max(S)
<1> DEFINE U == {u \in Nat : \A x \in S : x <= u}
<1>1. PICK u \in U : \A v \in U : u <= v
  <2> U \subseteq Nat /\ U # {}
    OBVIOUS
  <2> HIDE DEF U
  <2> QED BY LeastElement
<1>2. u \in S
  <2> SUFFICES ASSUME u \notin S
               PROVE  FALSE
    OBVIOUS
  <2>1. \A x \in S : x <= u - 1
    BY <1>1
  <2>2. u # 0
    <3>1. PICK x \in S : x \in Nat /\ x <= u /\ x # u
      BY <1>1
    <3>2. u \in Nat
      BY <1>1
    <3> QED BY <3>1, <3>2
  <2>3. u - 1 \in U
    BY <1>1, <2>1, <2>2
  <2> QED BY <1>1, <2>3
<1>3. \E x \in S : \A y \in S : x >= y
  BY <1>1, <1>2
<1> QED BY <1>3 DEF Max

(* The same for finite sets, which are bounded.                            *)
LEMMA MaxOfFinite ==
  ASSUME NEW S, S \subseteq Nat, S # {}, IsFiniteSet(S)
  PROVE  Max(S) \in S /\ \A x \in S : x <= Max(S)
BY FiniteSetsAreBounded, MaxOfBounded
=============================================================================
