----------------------------- MODULE WaterMark -----------------------------
(***************************************************************************)
(* Badger's y.WaterMark, the external type behind TSO.readMark and         *)
(* TSO.txnMark, as tso.go uses it.  A mark counts the Begin(i) and Done(i) *)
(* calls of every index and publishes doneUntil, the largest index below   *)
(* which everything begun is done.                                         *)
(*                                                                         *)
(* The library handles a call in the mark's own goroutine, which stops the *)
(* process when it is handed an index that doneUntil has already passed.   *)
(* Here a call takes effect when it is made, and a mark that met such an   *)
(* index is "dead": it handles no further call, while the goroutines of    *)
(* the process may still take steps before the process is gone.            *)
(***************************************************************************)
EXTENDS Integers, FiniteSetsExt

\* A mark on which nothing is begun, after SetDoneUntil(index).
MarkAt(index) ==
  [doneUntil |-> index, pending |-> [i \in {} |-> 0], dead |-> FALSE]

\* The counters after one call for index: +1 for Begin, -1 for Done.
Counted(pending, index, delta) ==
  [i \in DOMAIN pending \cup {index} |->
     (IF i \in DOMAIN pending THEN pending[i] ELSE 0)
       + (IF i = index THEN delta ELSE 0)]

\* The indices popped from the heap: each is done, and so is every smaller one.
Finished(pending) ==
  {i \in DOMAIN pending : \A j \in DOMAIN pending : j <= i => pending[j] <= 0}

\* processOne of the mark's goroutine.
ProcessOne(mark, index, delta) ==
  LET pending == Counted(mark.pending, index, delta)
      popped  == Finished(pending)
  IN  IF mark.dead THEN mark
      ELSE IF mark.doneUntil > index THEN [mark EXCEPT !.dead = TRUE]
      ELSE [mark EXCEPT
              !.doneUntil = IF popped = {} THEN @ ELSE Max(popped),
              !.pending   = [i \in DOMAIN pending \ popped |-> pending[i]]]

\* Begin(index) and Done(index).
Begin(mark, index) == ProcessOne(mark, index, 1)
Done(mark, index)  == ProcessOne(mark, index, -1)

\* How often index is begun and not done.
Count(mark, index) ==
  IF index \in DOMAIN mark.pending THEN mark.pending[index] ELSE 0

\* What is begun is not below doneUntil.
Ordered(mark) == \A i \in DOMAIN mark.pending : mark.doneUntil <= i

\* m is a mark: doneUntil, a finite map of counters and the dead flag.
IsMark(m) ==
  /\ m = [doneUntil |-> m.doneUntil, pending |-> m.pending, dead |-> m.dead]
  /\ m.doneUntil \in Nat
  /\ m.dead \in BOOLEAN
  /\ DOMAIN m.pending \in SUBSET Nat /\ IsFiniteSet(DOMAIN m.pending)
  /\ m.pending \in [DOMAIN m.pending -> Int]
=============================================================================
