--------------------------- MODULE FiniteMaximum ---------------------------
(* Sets of indexes have a maximum: for the proofs about logs and snapshots. *)
EXTENDS Naturals, FiniteSetsExt, TLAPS, WellFoundedInduction

\* Of the indexes of a log, or of some of them, Max is the largest: one whose distance from the
\* end of the log is minimal.
LEMMA MaxOfSome ==
  ASSUME NEW n \in Nat, NEW S \in SUBSET (0..n), S # {}
  PROVE  /\ Max(S) \in S /\ Max(S) \in 0..n
         /\ \A y \in S : y <= Max(S)
<1> DEFINE Far == {d \in Nat : n - d \in S}
<1>1. Far \subseteq Nat /\ \A y \in S : n - y \in Far
  OBVIOUS
<1>2. Far # {}
  BY Zenon, <1>1
<1>3. \E d \in Far : \A e \in Far : ~(<<e, d>> \in OpToRel(<, Nat))
  <2> HIDE DEF Far
  <2> QED BY Zenon, <1>1, <1>2, NatLessThanWellFounded, WFMin
<1>4. PICK d \in Far : \A e \in Far : ~(e < d)
  BY Zenon, <1>3 DEF OpToRel
<1>5. n - d \in S /\ \A y \in S : n - d >= y
  BY <1>1, <1>4
<1>6. Max(S) \in S /\ \A y \in S : Max(S) >= y
  BY <1>5, Zenon DEF Max
<1>7. \A y \in S : y <= Max(S)
  BY <1>6
<1> QED BY Zenon, <1>6, <1>7
=============================================================================
