------------------------ MODULE TSOIsolationProofs ------------------------
(***************************************************************************)
(* The isolation that the timestamp oracle gives to transactions, as long  *)
(* as the clock is not set back: from the facts of TSOProofs about its     *)
(* types, its clock and the commits it keeps.                              *)
(***************************************************************************)
EXTENDS TSOProofs

\* A leaf that names no prover goes to the SMT solver, which has 30 seconds for it.
USE SMTT(30)

(* The readers that readMark counts. *)

\* The processes that read and commit are finitely many.
LEMMA ProcsFinite == IsFiniteSet(Procs)
BY Zenon, ConstantsAssumption, FS_AddElement DEF Procs

\* CountInv speaks of every timestamp: the others are neither counted nor held.
LEMMA CountEvery ==
  ASSUME Base, CountInv, NEW ts \in Nat
  PROVE  Count(readMark, ts) >= Cardinality(Holders(ts))
<1>1. CASE ts \in DOMAIN readMark.pending \cup {readTs[p] : p \in Procs}
  BY Zenon, <1>1 DEF CountInv
<1>2. CASE ts \notin DOMAIN readMark.pending \cup {readTs[p] : p \in Procs}
  <2>1. Holders(ts) = {} /\ Count(readMark, ts) = 0
    BY Zenon, <1>2 DEF Holders, Reading, Count
  <2> QED BY <2>1, FS_EmptySet
<1> QED BY Zenon, <1>1, <1>2

\* One call on readMark together with the goroutine's own move in or out of
\* Reading keeps the count.
LEMMA CountStep ==
  ASSUME Base, Base', CountInv, ~readMark'.dead, readTs' = readTs, NEW p \in Procs,
         \/ Reading' = Reading /\ readMark' = readMark
         \/ Reading' = Reading \cup {p} /\ readMark' = Begin(readMark, readTs[p])
         \/ /\ p \in Reading /\ Reading' = Reading \ {p}
            /\ readMark' = readMark \/ readMark' = Done(readMark, readTs[p])
  PROVE  CountInv'
<1> SUFFICES ASSUME NEW ts \in Nat
             PROVE  Count(readMark', ts) >= Cardinality(Holders(ts)')
  BY Zenon DEF CountInv, Base, TypeOK, TypeData, IsMark
<1> DEFINE c == Count(readMark, ts)   n == Cardinality(Holders(ts))
           d == Count(readMark', ts)  m == Cardinality(Holders(ts)')
<1>1. IsFiniteSet(Holders(ts)) /\ n \in Nat /\ m \in Nat
  <2>1. Holders(ts) \in SUBSET Procs /\ Holders(ts)' \in SUBSET Procs
    BY Zenon DEF Holders, Reading
  <2> QED BY Zenon, <2>1, ProcsFinite, FS_Subset, FS_CardinalityType
<1>2. /\ IsMark(readMark) /\ Ordered(readMark) /\ IsMark(readMark') /\ readTs[p] \in Nat
  BY Zenon DEF Base, TypeOK, TypeData
<1>a. c >= n /\ c \in Int /\ d \in Int
  BY <1>2, CountEvery DEF Count, IsMark
<1>3. CASE Reading' = Reading /\ readMark' = readMark
  BY Zenon, <1>a, <1>3 DEF Holders
<1>4. CASE Reading' = Reading \cup {p} /\ readMark' = Begin(readMark, readTs[p])
  <2>1. d >= c + (IF ts = readTs[p] THEN 1 ELSE 0)
    BY Zenon, <1>2, <1>4, ProcessOneStep DEF Begin
  <2>2. CASE ts = readTs[p]
    <3>1. Holders(ts)' = Holders(ts) \cup {p}
      BY Zenon, <1>4, <2>2 DEF Holders
    <3>2. m = n \/ m = n + 1
      BY Zenon, <1>1, <3>1, FS_AddElement
    <3>3. d >= c + 1
      BY Zenon, <2>1, <2>2
    <3> HIDE DEF c, d, n, m
    <3>4. d >= m
      BY <1>1, <1>a, <3>2, <3>3
    <3> QED BY Zenon, <3>4 DEF d, m
  <2>3. CASE ts # readTs[p]
    <3>1. Holders(ts)' = Holders(ts)
      BY Zenon, <1>4, <2>3 DEF Holders
    <3>2. m = n /\ d >= c + 0
      BY Zenon, <2>1, <2>3, <3>1
    <3> HIDE DEF c, d, n, m
    <3>3. d >= m
      BY <1>1, <1>a, <3>2
    <3> QED BY <3>3 DEF d, m
  <2> QED BY Zenon, <2>2, <2>3
<1>5. CASE /\ p \in Reading /\ Reading' = Reading \ {p}
           /\ readMark' = readMark \/ readMark' = Done(readMark, readTs[p])
  <2>1. d >= c + (IF ts = readTs[p] THEN -1 ELSE 0)
    <3>1. CASE readMark' = readMark
      BY <1>a, <3>1
    <3>2. CASE readMark' = ProcessOne(readMark, readTs[p], -1)
      BY Zenon, <1>2, <3>2, ProcessOneStep
    <3> QED BY Zenon, <1>5, <3>1, <3>2 DEF Done
  <2>2. CASE ts = readTs[p]
    <3>1. Holders(ts)' = Holders(ts) \ {p} /\ p \in Holders(ts)
      BY Zenon, <1>5, <2>2 DEF Holders
    <3>2. m = n - 1
      BY ZenonT(60), <1>1, <3>1, FS_RemoveElement
    <3>3. d >= c - 1
      BY Zenon, <1>a, <2>1, <2>2
    <3> HIDE DEF c, d, n, m
    <3>4. d >= m
      BY <1>1, <1>a, <3>2, <3>3
    <3> QED BY <3>4 DEF d, m
  <2>3. CASE ts # readTs[p]
    <3>1. Holders(ts)' = Holders(ts)
      BY Zenon, <1>5, <2>3 DEF Holders
    <3>2. m = n /\ d >= c + 0
      BY Zenon, <2>1, <2>3, <3>1
    <3> HIDE DEF c, d, n, m
    <3>3. d >= m
      BY <1>1, <1>a, <3>2
    <3> QED BY <3>3 DEF d, m
  <2> QED BY <2>2, <2>3
<1> QED BY Zenon, <1>3, <1>4, <1>5

\* The process does not recover from a dead mark or an overflowed commit.
LEMMA HealthyBack ==
  ASSUME Ordering, [Next]_vars, ~ClockStepsBack, Healthy'
  PROVE  Healthy /\ ~readMark'.dead
<1>1. ~readMark.dead /\ ~readMark'.dead
  BY Zenon, ReadMarkStep DEF Ordering, Healthy
<1>2. \A h \in history : h.logical <= MaxLogical
  <2>1. history \subseteq history'
    BY Zenon, IssueStep DEF Ordering, Issues
  <2> QED BY Zenon, <2>1 DEF Healthy
<1>3. ~txnMark.dead
  <2>1. \/ txnMark' = txnMark
        \/ \E i \in Nat : txnMark' = Begin(txnMark, i) \/ txnMark' = Done(txnMark, i)
    <3>1. \A p \in Procs : commitTs[p] \in Nat
      BY Zenon DEF Ordering, Base, TypeOK, TypeData
    <3>2. Compose(current') \in Nat
      BY Zenon, OrderingStep, CeilingOrder DEF Ordering, Base, TypeOK, TypeData
    <3>3. ASSUME NEW p \in Procs, Step(p)
          PROVE  \/ txnMark' = txnMark \/ txnMark' = Done(txnMark, commitTs[p])
                 \/ txnMark' = Begin(txnMark, Compose(current'))
      BY Zenon, <3>3 DEF Step, ReadTs, ReadMarkBegin, WaitForMark, WaitCancelled, CommitConflict,
                  Commit, BoundPassed, LogicalPassed, Stamp, DoneCommit, Discard, markVars
    <3>4. CASE UpdateWindow \/ WindowProposed \/ WindowFailed \/ Tick \/ StepBack \/ UNCHANGED vars
      BY Zenon, <3>4 DEF UpdateWindow, WindowProposed, WindowFailed, Tick, StepBack, vars, markVars
    <3> QED BY Zenon, <3>1, <3>2, <3>3, <3>4 DEF Next
  <2> QED BY Zenon, <2>1, BeginDone DEF Healthy, Ordering, Base, TypeOK
<1> QED BY Zenon, <1>1, <1>2, <1>3 DEF Healthy

\* A step of p that takes no new read timestamp keeps PastReadInv if p itself
\* deregisters before it moves on.
LEMMA PastReadStep ==
  ASSUME Ordering, Ordering', PastReadInv, NEW p \in Procs, NEW label \in Labels,
         pc' = [pc EXCEPT ![p] = label], readTs' = readTs, readers' \subseteq readers,
         Ceiling(current) <= Ceiling(current'),
         label \in {"bound", "logical", "stamped", "discarding"} =>
           pc[p] \in {"bound", "logical", "stamped", "discarding"} \/ readTs[p] \notin readers',
         label \in {"stamped", "discarding"} =>
           pc[p] \in {"stamped", "discarding"} \/ Ceiling(current) < Ceiling(current')
  PROVE  PastReadInv'
<1>1. /\ pc \in [Procs -> Labels] /\ \A q \in Procs : readTs[q] \in Nat
      /\ Ceiling(current) \in Nat /\ Ceiling(current') \in Nat
      /\ \A q \in Procs : readTs[q] <= Ceiling(current)
  BY Zenon, CeilingOrder DEF Ordering, IssuedInv, Base, TypeOK, TypeData
<1> SUFFICES ASSUME NEW q \in Procs
             PROVE  /\ pc'[q] \in {"bound", "logical", "stamped", "discarding"} =>
                         readTs'[q] \notin readers'
                    /\ pc'[q] \in {"stamped", "discarding"} => readTs'[q] < Ceiling(current')
  BY Zenon DEF PastReadInv, Ceiling
<1>2. CASE q = p
  BY <1>1, <1>2 DEF PastReadInv
<1>3. CASE q # p
  BY <1>1, <1>3 DEF PastReadInv
<1> QED BY Zenon, <1>2, <1>3

\* While the clock is not set back nobody leaves the spin of step 2, and while the
\* counter fits nobody is in the spin of step 3.
LEMMA SpinsStay ==
  ASSUME Ordering, current.logical <= MaxLogical, NEW p \in Procs
  PROVE  pc[p] # "logical" /\ ~BoundPassed(p) /\ ~LogicalPassed(p)
<1>1. /\ current.logical \in Int /\ current.physical \in Int
      /\ now \in Int /\ saved \in Int /\ MaxLogical \in Int
  BY ConstantsAssumption DEF Ordering, Base, TypeOK, TypeData
<1>2. /\ current.physical <= now
      /\ pc[p] = "bound" => saved <= current.physical
      /\ pc[p] = "logical" => ExceedLogicalMax(current)
  BY Zenon DEF Ordering, ClockInv
<1>3. pc[p] # "logical"
  BY <1>1, <1>2 DEF ExceedLogicalMax
<1>4. ~BoundPassed(p)
  BY <1>1, <1>2 DEF BoundPassed
<1> QED BY Zenon, <1>3, <1>4 DEF LogicalPassed

\* While the oracle is healthy, every step keeps readMark's count of each timestamp's readers.
LEMMA TrackingStep ==
  ASSUME ~ClockStepsBack, Ordering, Tracking, [Next]_vars
  PROVE  Tracking'
<1> SUFFICES ASSUME Healthy'
             PROVE  current'.logical <= MaxLogical /\ PastReadInv' /\ CountInv'
  BY Zenon DEF Tracking
<1>1. /\ Healthy /\ ~readMark'.dead /\ Ordering'
      /\ current.logical <= MaxLogical /\ PastReadInv /\ CountInv
  BY Zenon, HealthyBack, OrderingStep DEF Tracking
<1>2. /\ pc \in [Procs -> Labels] /\ readTs \in [Procs -> Nat]
      /\ current \in [physical : Nat, logical : 0 .. MaxLogical + 1]
      /\ Ceiling(current) \in Nat /\ Ceiling(current') \in Nat
      /\ Compose(current) = Ceiling(current) /\ Base /\ Base'
  BY Zenon, <1>1, CeilingOrder DEF Ordering, Base, TypeOK, TypeData
<1>3. Ceiling(current) <= Ceiling(current')
  BY <1>2, IssueStep DEF Ordering, Issues
<1>4. current'.logical <= MaxLogical
  <2>1. Advanced.logical <= MaxLogical
    BY <1>1, ConstantsAssumption DEF Advanced, Reset
  <2>2. ASSUME NEW p \in Procs, NEW op \in Op, Issues(p, op) PROVE current'.logical <= MaxLogical
    <3> DEFINE h == [ts |-> Compose(current'), logical |-> current'.logical, readTs |-> readTs[p],
                     reads |-> op.reads, conflictKeys |-> op.conflictKeys]
    <3>1. h \in history'
      BY Zenon, <2>2 DEF Issues
    <3>2. h.logical = current'.logical
      BY Zenon
    <3> HIDE DEF h
    <3> QED BY Zenon, <3>1, <3>2 DEF Healthy
  <2> QED BY Zenon, <1>1, <2>1, <2>2, IssueStep DEF Ordering
<1>5. ASSUME NEW p \in Procs, ReadTs(p)
      PROVE  PastReadInv' /\ CountInv'
  <2>1. /\ readTs' = [readTs EXCEPT ![p] = Ceiling(current)]
        /\ readers' = readers \cup {Ceiling(current)}
        /\ pc[p] = "begin" /\ MuFree /\ pc' = [pc EXCEPT ![p] = "assigned"]
        /\ UNCHANGED <<current, readMark>>
    BY Zenon, <1>2, <1>5 DEF ReadTs, Goto, clockVars
  <2>2. PastReadInv'
    <3> SUFFICES ASSUME NEW q \in Procs
                 PROVE  /\ pc'[q] \in {"bound", "logical", "stamped", "discarding"} =>
                             readTs'[q] \notin readers'
                        /\ pc'[q] \in {"stamped", "discarding"} => readTs'[q] < Ceiling(current')
      BY Zenon DEF PastReadInv, Ceiling
    <3>1. CASE q = p
      BY Zenon, <1>2, <2>1, <3>1
    <3>2. CASE q # p
      <4>1. pc'[q] = pc[q] /\ readTs'[q] = readTs[q] /\ pc[q] \notin {"bound", "logical"}
        BY Zenon, <1>2, <2>1, <3>2 DEF MuFree
      <4>2. Ceiling(current') = Ceiling(current)
        BY Zenon, <2>1 DEF Ceiling
      <4> QED BY <1>1, <1>2, <2>1, <4>1, <4>2 DEF PastReadInv
    <3> QED BY Zenon, <3>1, <3>2
  <2>3. \A ts : Holders(ts)' = Holders(ts)
    BY Zenon, <1>2, <2>1 DEF Holders, Reading
  <2>4. CountInv'
    <3>1. \A ts \in Nat : Count(readMark', ts) >= Cardinality(Holders(ts)')
      BY Zenon, <1>1, <1>2, <2>1, <2>3, CountEvery DEF Count
    <3> QED BY Zenon, <1>2, <3>1 DEF CountInv, Base, TypeOK, TypeData, IsMark
  <2> QED BY Zenon, <2>2, <2>4
<1>6. ASSUME NEW p \in Procs, NEW label \in Labels, pc' = [pc EXCEPT ![p] = label]
      PROVE  Reading' = IF label \in {"parked", "open", "aborting"} THEN Reading \cup {p} ELSE Reading \ {p}
  BY Zenon, <1>2, <1>6 DEF Reading
<1>7. ASSUME NEW p \in Procs, ReadMarkBegin(p)
      PROVE  PastReadInv' /\ CountInv'
  <2>1. /\ \E label \in {"open", "parked"} : pc' = [pc EXCEPT ![p] = label]
        /\ UNCHANGED <<readTs, readers>> /\ readMark' = Begin(readMark, readTs[p])
    BY Zenon, <1>7 DEF ReadMarkBegin, Goto
  <2>2. Reading' = Reading \cup {p}
    BY Zenon, <1>6, <2>1 DEF Labels
  <2> QED BY Zenon, <1>1, <1>2, <1>3, <2>1, <2>2, PastReadStep, CountStep DEF Labels
<1>8. ASSUME NEW p \in Procs, WaitForMark(p) \/ \E op \in Ops(p) : CommitConflict(p, op)
      PROVE  PastReadInv' /\ CountInv'
  <2>1. /\ \E label \in {"open", "aborting"} : pc' = [pc EXCEPT ![p] = label]
        /\ UNCHANGED <<readTs, readers, readMark>> /\ p \in Reading
    BY Zenon, <1>8 DEF WaitForMark, CommitConflict, Goto, markVars, Reading
  <2>2. Reading' = Reading
    <3>1. Reading' = Reading \cup {p}
      BY Zenon, <1>6, <2>1 DEF Labels
    <3> QED BY Zenon, <2>1, <3>1
  <2> QED BY Zenon, <1>1, <1>2, <1>3, <2>1, <2>2, PastReadStep, CountStep DEF Labels
<1>9. ASSUME NEW p \in Procs, WaitCancelled(p)
      PROVE  PastReadInv' /\ CountInv'
  <2>1. /\ \E label \in {"idle", "done"} : pc' = [pc EXCEPT ![p] = label]
        /\ UNCHANGED <<readTs, readers>> /\ readMark' = Done(readMark, readTs[p]) /\ p \in Reading
    BY Zenon, <1>9 DEF WaitCancelled, Goto, Reading
  <2>2. Reading' = Reading \ {p}
    BY Zenon, <1>6, <2>1 DEF Labels
  <2> QED BY Zenon, <1>1, <1>2, <1>3, <2>1, <2>2, PastReadStep, CountStep DEF Labels
<1>10. ASSUME NEW p \in Procs, NEW op \in Ops(p), Commit(p, op)
       PROVE  PastReadInv' /\ CountInv'
  <2>1. /\ UNCHANGED readTs /\ readers' = readers \ {readTs[p]} /\ p \in Reading
        /\ readMark' = readMark \/ readMark' = Done(readMark, readTs[p])
    BY Zenon, <1>10 DEF Commit, DoneRead, Reading
  <2>2. PICK label \in {"bound", "logical", "stamped"} :
          /\ pc' = [pc EXCEPT ![p] = label]
          /\ label = "stamped" => Ceiling(current) < Ceiling(current')
    BY Zenon, <1>2, <1>10, CommitIssues DEF Issues
  <2>3. Reading' = Reading \ {p}
    BY Zenon, <1>6, <2>2 DEF Labels
  <2>4. PastReadInv'
    BY Zenon, <1>1, <1>2, <1>3, <2>1, <2>2, PastReadStep DEF Labels
  <2> QED BY Zenon, <1>1, <1>2, <2>1, <2>3, <2>4, CountStep
<1>11. ASSUME NEW p \in Procs, BoundPassed(p) \/ LogicalPassed(p)
       PROVE  FALSE
  BY Zenon, <1>1, <1>11, SpinsStay
<1>12. ASSUME NEW p \in Procs, DoneCommit(p)
       PROVE  PastReadInv' /\ CountInv'
  <2>1. /\ pc' = [pc EXCEPT ![p] = "discarding"] /\ pc[p] = "stamped"
        /\ UNCHANGED <<readTs, readers, readMark>>
    BY Zenon, <1>12 DEF DoneCommit, Goto
  <2>2. Reading' = Reading
    BY ZenonT(60), <1>6, <2>1 DEF Labels, Reading
  <2> QED BY ZenonT(60), <1>1, <1>2, <1>3, <2>1, <2>2, PastReadStep, CountStep DEF Labels
<1>13. ASSUME NEW p \in Procs, Discard(p)
       PROVE  PastReadInv' /\ CountInv'
  <2>1. /\ \E label \in {"proposing", "done"} : pc' = [pc EXCEPT ![p] = label]
        /\ pc[p] \in {"open", "aborting", "discarding"}
        /\ UNCHANGED readTs /\ readers' = readers \ {readTs[p]} /\ readMark' = DoneRead(readTs[p])
    BY Zenon, <1>13 DEF Discard, Goto
  <2>2. Reading' = Reading \ {p}
    BY Zenon, <1>6, <2>1 DEF Labels
  <2>3. PastReadInv'
    BY Zenon, <1>1, <1>2, <1>3, <2>1, PastReadStep DEF Labels
  <2>4. CASE pc[p] = "discarding"
    <3>1. readMark' = readMark /\ Reading' = Reading
      BY Zenon, <1>1, <2>1, <2>2, <2>4 DEF DoneRead, PastReadInv, Reading
    <3> QED BY Zenon, <1>1, <1>2, <2>1, <2>3, <3>1, CountStep
  <2>5. CASE pc[p] \in {"open", "aborting"}
    <3>1. p \in Reading /\ (readMark' = readMark \/ readMark' = Done(readMark, readTs[p]))
      BY Zenon, <2>1, <2>5 DEF DoneRead, Reading
    <3> QED BY Zenon, <1>1, <1>2, <2>1, <2>2, <2>3, <3>1, CountStep
  <2> QED BY Zenon, <2>1, <2>4, <2>5
<1>14. CASE UpdateWindow \/ WindowProposed \/ WindowFailed
  <2>1. /\ \E label \in {"begin", "idle"} : pc' = [pc EXCEPT ![Updater] = label]
        /\ pc[Updater] \in {"idle", "proposing"} /\ UNCHANGED <<readTs, readers, readMark>>
    BY Zenon, <1>14 DEF UpdateWindow, WindowProposed, WindowFailed, Goto, markVars
  <2>2. Updater \in Procs
    BY Zenon DEF Procs
  <2>3. Reading' = Reading
    BY Zenon, <1>6, <2>1, <2>2 DEF Labels, Reading
  <2>4. PastReadInv'
    BY Zenon, <1>1, <1>2, <1>3, <2>1, <2>2, PastReadStep DEF Labels
  <2>5. CountInv'
    BY Zenon, <1>1, <1>2, <2>1, <2>2, <2>3, CountStep
  <2> QED BY Zenon, <1>4, <2>4, <2>5
<1>15. CASE Tick \/ UNCHANGED vars
  BY Zenon, <1>1, <1>15 DEF Tick, vars, clockVars, markVars, procVars, PastReadInv, CountInv,
                     Ceiling, Count, Holders, Reading
<1> QED BY Zenon, <1>4, <1>5, <1>7, <1>8, <1>9, <1>10, <1>11, <1>12, <1>13, <1>14, <1>15
    DEF Next, Step, StepBack

\* readMark has not passed a transaction that is reading.
LEMMA TrackingProtects ==
  ASSUME Ordering, Tracking
  PROVE  ReadersProtected
<1> SUFFICES ASSUME Healthy, NEW p \in Reading
             PROVE  readMark.doneUntil <= readTs[p]
  BY Zenon DEF ReadersProtected
<1> DEFINE ts == readTs[p]
<1>1. ts \in Nat /\ p \in Procs /\ p \in Holders(ts)
  BY Zenon DEF Reading, Holders, Ordering, Base, TypeOK, TypeData
<1>2. Cardinality(Holders(ts)) \in Nat \ {0}
  <2>1. Holders(ts) \in SUBSET Procs
    BY Zenon DEF Holders, Reading
  <2> QED BY Zenon, <1>1, <2>1, ProcsFinite, FS_Subset, FS_CardinalityType, FS_EmptySet
<1>3. Count(readMark, ts) >= Cardinality(Holders(ts))
  BY Zenon, <1>1, CountEvery DEF Tracking, Ordering
<1>4. ts \in DOMAIN readMark.pending
  BY <1>2, <1>3 DEF Count
<1> QED BY Zenon, <1>4 DEF Ordered, Ordering, Base

\* hasConflict sees every commit that the transaction could have missed.
LEMMA ConflictStep ==
  ASSUME ~ClockStepsBack, Ordering, Tracking, NoMissedConflict, [Next]_vars
  PROVE  NoMissedConflict'
<1> SUFFICES ASSUME Healthy', NEW a \in history', NEW b \in history',
                    b.readTs < a.ts, a.ts < b.ts
             PROVE  a.conflictKeys \cap b.reads = {}
  BY Zenon DEF NoMissedConflict
<1>1. Healthy /\ Ordering'
  BY Zenon, HealthyBack, OrderingStep
<1>2. CASE a \in history /\ b \in history
  BY Zenon, <1>1, <1>2 DEF NoMissedConflict
<1>3. ASSUME NEW p \in Procs, NEW op \in Op, Issues(p, op), ~(a \in history /\ b \in history)
      PROVE  a.conflictKeys \cap b.reads = {}
  <2> DEFINE new == [ts |-> Compose(current'), logical |-> current'.logical, readTs |-> readTs[p],
                     reads |-> op.reads, conflictKeys |-> op.conflictKeys]
  <2>1. a \in history \cup {new} /\ b \in history \cup {new}
    BY Zenon, <1>3 DEF Issues
  <2>2. /\ Ceiling(current) \in Nat /\ Ceiling(current') \in Nat
        /\ Ceiling(current) < Ceiling(current')
    BY ZenonT(60), <1>1, <1>3, CeilingOrder DEF Issues, Ordering, Base, TypeOK, TypeData
  <2>3. Compose(current') = Ceiling(current')
    <3>1. Tracking'
      BY Zenon, TrackingStep
    <3>2. current'.logical <= MaxLogical
      BY Zenon, <3>1 DEF Tracking
    <3> QED BY Zenon, <1>1, <3>2, CeilingOrder DEF Ordering, Base, TypeOK, TypeData
  <2>4. \A h \in history : h.ts \in Nat /\ h.ts <= Ceiling(current)
    BY Zenon DEF Ordering, IssuedInv, Base, TypeOK, TypeData, CommitRecord
  <2>5. new.ts = Ceiling(current') /\ new.readTs = readTs[p] /\ new.reads = op.reads
    BY Zenon, <2>3
  <2> HIDE DEF new
  <2>a. \A h \in history : h.ts < new.ts
    BY <2>2, <2>4, <2>5
  <2>6. b = new /\ a \in history
    <3>1. a.ts < b.ts /\ ~(a \in history /\ b \in history)
      BY Zenon, <1>3
    <3>2. new.ts \in Nat
      BY Zenon, <2>2, <2>5
    <3>3. a # new
      BY <2>1, <2>4, <2>a, <3>1, <3>2
    <3> QED BY Zenon, <2>1, <3>1, <3>3
  <2>7. current.logical <= MaxLogical /\ pc[p] # "logical"
    BY Zenon, <1>1, SpinsStay DEF Tracking
  <2>8. pc[p] = "open" /\ ~HasConflict(readTs[p], op.reads)
    BY Zenon, <1>3, <2>7 DEF Issues
  <2>9. readMark.doneUntil <= readTs[p]
    BY Zenon, <1>1, <2>8, TrackingProtects DEF ReadersProtected, Reading
  <2>10. [ts |-> a.ts, conflictKeys |-> a.conflictKeys] \in committedTxns
    <3>1. readMark.doneUntil \in Nat /\ readTs[p] \in Nat /\ a.ts \in Nat
      BY Zenon, <2>4, <2>6 DEF Ordering, Base, TypeOK, TypeData, IsMark
    <3>2. a.ts > readMark.doneUntil
      BY <2>5, <2>6, <2>9, <3>1
    <3>3. CommitsRetained
      BY Zenon DEF Ordering
    <3> QED BY Zenon, <2>6, <3>2, <3>3 DEF CommitsRetained
  <2> QED BY Zenon, <2>5, <2>6, <2>8, <2>10 DEF HasConflict
<1> QED BY Zenon, <1>2, <1>3, IssueStep DEF Ordering

\* txnMark follows the one commit that is in flight.
LEMMA VisibilityStep ==
  ASSUME ~ClockStepsBack, Ordering, Tracking, Visibility, [Next]_vars
  PROVE  Visibility'
<1> SUFFICES ASSUME Healthy' PROVE TxnMarkInv'
  BY Zenon DEF Visibility
<1>1. /\ Healthy /\ Ordering' /\ current.logical <= MaxLogical /\ TxnMarkInv
      /\ current'.logical <= MaxLogical /\ ~txnMark.dead
  <2>1. Healthy /\ Ordering' /\ Tracking'
    BY Zenon, HealthyBack, OrderingStep, TrackingStep
  <2> QED BY Zenon, <2>1 DEF Tracking, Visibility, Healthy
<1>2. /\ pc \in [Procs -> Labels] /\ readTs \in [Procs -> Nat] /\ commitTs \in [Procs -> Nat]
      /\ OneWriter /\ IsMark(txnMark) /\ txnMark.doneUntil \in Nat /\ txnMark'.doneUntil \in Nat
      /\ Ceiling(current) \in Nat /\ Ceiling(current') \in Nat
      /\ Compose(current') = Ceiling(current')
  BY Zenon, <1>1, CeilingOrder DEF Ordering, Base, TypeOK, TypeData, IsMark
<1>a. txnMark.doneUntil <= Ceiling(current)
  BY ZenonT(60), <1>1 DEF TxnMarkInv
<1>b. \A i \in DOMAIN txnMark.pending : \E q \in Procs : pc[q] = "stamped" /\ commitTs[q] = i
  BY Zenon, <1>1 DEF TxnMarkInv
<1>c. \A q \in Procs : pc[q] = "stamped" =>
        /\ txnMark.doneUntil < commitTs[q] /\ commitTs[q] = Ceiling(current)
        /\ Count(txnMark, commitTs[q]) = 1
  BY Zenon, <1>1 DEF TxnMarkInv
<1>d. \A q \in Procs : pc[q] = "open" => readTs[q] <= txnMark.doneUntil
  BY Zenon, <1>1 DEF TxnMarkInv
<1>3. ASSUME NEW p \in Procs, NEW label \in Labels, pc' = [pc EXCEPT ![p] = label],
             label # "stamped", pc[p] # "stamped", UNCHANGED <<txnMark, commitTs>>,
             label = "open" => readTs'[p] <= txnMark.doneUntil,
             \A q \in Procs : q # p => readTs'[q] = readTs[q],
             current' = current \/ (WriteChFree /\ Ceiling(current) <= Ceiling(current'))
      PROVE  TxnMarkInv'
  <2>1. \A q \in Procs : pc'[q] = "stamped" <=> pc[q] = "stamped"
    BY Zenon, <1>2, <1>3
  <2>2. \A q \in Procs : pc[q] = "stamped" => current' = current
    BY Zenon, <1>3 DEF WriteChFree
  <2>3. \A q \in Procs : pc'[q] = "open" => readTs'[q] <= txnMark'.doneUntil
    BY Zenon, <1>2, <1>3, <1>d
  <2>4. txnMark'.doneUntil <= Ceiling(current')
    BY <1>2, <1>3, <1>a DEF Ceiling
  <2>5. \A i \in DOMAIN txnMark'.pending : \E q \in Procs : pc'[q] = "stamped" /\ commitTs'[q] = i
    BY Zenon, <1>3, <1>b, <2>1
  <2>6. \A q \in Procs : pc'[q] = "stamped" =>
          /\ txnMark'.doneUntil < commitTs'[q] /\ commitTs'[q] = Ceiling(current')
          /\ Count(txnMark', commitTs'[q]) = 1
    BY Zenon, <1>3, <1>c, <2>1, <2>2 DEF Ceiling, Count
  <2> QED BY Zenon, <2>3, <2>4, <2>5, <2>6 DEF TxnMarkInv, Ceiling, Count
<1>4. ASSUME NEW p \in Procs, NEW op \in Op, Issues(p, op)
      PROVE  TxnMarkInv'
  <2>1. WriteChFree
    BY Zenon, <1>1, <1>4, SpinsStay DEF Issues
  <2>2. DOMAIN txnMark.pending = {} /\ txnMark.doneUntil < Ceiling(current')
    <3>1. \A q \in Procs : pc[q] # "stamped"
      BY Zenon, <2>1 DEF WriteChFree
    <3>2. Ceiling(current) < Ceiling(current')
      BY Zenon, <1>4 DEF Issues
    <3>3. DOMAIN txnMark.pending = {}
      BY Zenon, <1>b, <3>1
    <3> QED BY <1>2, <1>a, <3>2, <3>3
  <2>3. /\ DOMAIN txnMark'.pending = {Ceiling(current')} /\ txnMark'.pending[Ceiling(current')] = 1
        /\ txnMark'.doneUntil = txnMark.doneUntil
    <3>1. txnMark' = Begin(txnMark, Ceiling(current'))
      BY Zenon, <1>2, <1>4 DEF Issues
    <3> QED BY Zenon, <1>1, <1>2, <2>2, <3>1, BeginFirst
  <2>4. /\ commitTs'[p] = Ceiling(current') /\ pc'[p] = "stamped" /\ readTs' = readTs
        /\ \A q \in Procs : q # p => pc'[q] = pc[q] /\ pc'[q] # "stamped"
    BY Zenon, <1>2, <1>4, <2>1 DEF Issues, WriteChFree
  <2>5. \A q \in Procs : pc'[q] = "open" => readTs'[q] <= txnMark'.doneUntil
    BY ZenonT(60), <1>d, <2>3, <2>4
  <2>6. txnMark'.doneUntil <= Ceiling(current')
    BY <1>2, <2>2, <2>3
  <2>7. \A q \in Procs : pc'[q] = "stamped" =>
          /\ txnMark'.doneUntil < commitTs'[q] /\ commitTs'[q] = Ceiling(current')
          /\ Count(txnMark', commitTs'[q]) = 1
    BY Zenon, <2>2, <2>3, <2>4 DEF Count
  <2>8. \A i \in DOMAIN txnMark'.pending : \E q \in Procs : pc'[q] = "stamped" /\ commitTs'[q] = i
    BY Zenon, <2>3, <2>4
  <2> QED BY Zenon, <2>5, <2>6, <2>7, <2>8 DEF TxnMarkInv, Ceiling, Count
<1>5. ASSUME NEW p \in Procs, DoneCommit(p)
      PROVE  TxnMarkInv'
  <2>1. /\ pc[p] = "stamped" /\ pc' = [pc EXCEPT ![p] = "discarding"]
        /\ txnMark' = Done(txnMark, commitTs[p]) /\ UNCHANGED <<current, readTs, commitTs>>
    BY Zenon, <1>5 DEF DoneCommit, Goto, clockVars
  <2>2. /\ txnMark.doneUntil < commitTs[p] /\ commitTs[p] = Ceiling(current)
        /\ Count(txnMark, commitTs[p]) = 1 /\ commitTs[p] \in Nat
    BY Zenon, <1>2, <1>c, <2>1
  <2>3. \A q \in Procs : pc[q] = "stamped" => q = p
    BY Zenon, <1>2, <2>1 DEF OneWriter
  <2>4. DOMAIN txnMark.pending = {commitTs[p]} /\ txnMark.pending[commitTs[p]] = 1
    <3>1. \A i \in DOMAIN txnMark.pending : i = commitTs[p]
      BY Zenon, <1>b, <2>3
    <3> QED BY <2>2, <3>1 DEF Count
  <2>5. DOMAIN txnMark'.pending = {} /\ txnMark'.doneUntil = commitTs[p]
    BY <1>1, <1>2, <2>1, <2>2, <2>4, DoneLast
  <2>6. \A q \in Procs : pc'[q] # "stamped" /\ (pc'[q] = "open" => pc[q] = "open")
    BY Zenon, <1>2, <2>1, <2>3
  <2>7. \A q \in Procs : pc'[q] = "open" => readTs'[q] <= txnMark'.doneUntil
    <3> SUFFICES ASSUME NEW q \in Procs, pc[q] = "open"
                 PROVE  readTs[q] <= commitTs[p]
      BY Zenon, <2>1, <2>5, <2>6
    <3>1. /\ readTs[q] \in Nat /\ readTs[q] <= txnMark.doneUntil
          /\ txnMark.doneUntil \in Nat
      BY Zenon, <1>2, <1>d
    <3> QED BY <2>2, <3>1
  <2>8. txnMark'.doneUntil <= Ceiling(current')
    BY <1>2, <2>1, <2>2, <2>5 DEF Ceiling
  <2> QED BY Zenon, <2>5, <2>6, <2>7, <2>8 DEF TxnMarkInv, Ceiling, Count
<1>6. ASSUME NEW p \in Procs, ReadTs(p) \/ WaitCancelled(p) \/ Discard(p)
      PROVE  TxnMarkInv'
  <2>1. /\ \E label \in {"assigned", "idle", "proposing", "done"} : pc' = [pc EXCEPT ![p] = label]
        /\ pc[p] # "stamped" /\ UNCHANGED <<txnMark, commitTs, current>>
        /\ \A q \in Procs : q # p => readTs'[q] = readTs[q]
    BY Zenon, <1>2, <1>6 DEF ReadTs, WaitCancelled, Discard, Goto, clockVars
  <2> QED BY Zenon, <1>3, <2>1 DEF Labels
<1>7. ASSUME NEW p \in Procs,
             ReadMarkBegin(p) \/ WaitForMark(p) \/ \E op \in Ops(p) : CommitConflict(p, op)
      PROVE  TxnMarkInv'
  <2>1. /\ \E label \in {"open", "parked", "aborting"} :
             /\ pc' = [pc EXCEPT ![p] = label]
             /\ label = "open" => readTs[p] <= txnMark.doneUntil
        /\ pc[p] # "stamped" /\ UNCHANGED <<txnMark, commitTs, current, readTs>>
    BY Zenon, <1>2, <1>7 DEF ReadMarkBegin, WaitForMark, CommitConflict, Goto, clockVars, markVars
  <2> QED BY Zenon, <1>3, <2>1 DEF Labels
<1>8. ASSUME NEW p \in Procs, NEW op \in Ops(p), Commit(p, op)
      PROVE  TxnMarkInv'
  <2>1. CASE /\ UNCHANGED <<history, commitTs, txnMark>>
             /\ \E label \in {"bound", "logical"} : pc' = [pc EXCEPT ![p] = label]
             /\ Ceiling(current) <= Ceiling(current')
    <3>1. WriteChFree /\ pc[p] # "stamped" /\ UNCHANGED readTs
      BY Zenon, <1>8 DEF Commit
    <3> QED BY Zenon, <1>3, <2>1, <3>1 DEF Labels
  <2> QED BY Zenon, <1>4, <1>8, <2>1, CommitIssues DEF Ordering
<1>9. ASSUME NEW p \in Procs, BoundPassed(p) \/ LogicalPassed(p)
      PROVE  FALSE
  BY Zenon, <1>1, <1>9, SpinsStay
<1>10. CASE UpdateWindow \/ WindowProposed \/ WindowFailed
  <2>1. /\ \E label \in {"begin", "idle"} : pc' = [pc EXCEPT ![Updater] = label]
        /\ pc[Updater] # "stamped" /\ UNCHANGED <<txnMark, commitTs, current, readTs>>
    BY Zenon, <1>10 DEF UpdateWindow, WindowProposed, WindowFailed, Goto, clockVars, markVars
  <2>2. Updater \in Procs
    BY Zenon DEF Procs
  <2> QED BY ZenonT(60), <1>3, <2>1, <2>2 DEF Labels
<1>11. CASE Tick \/ UNCHANGED vars
  BY Zenon, <1>1, <1>11 DEF Tick, vars, clockVars, markVars, procVars, TxnMarkInv, Ceiling, Count
<1> QED BY Zenon, <1>5, <1>6, <1>7, <1>8, <1>9, <1>10, <1>11 DEF Next, Step, StepBack

\* The invariant holds of a started oracle, and every step preserves it unless the
\* clock is set back.
LEMMA IsolationInit ==
  ASSUME Init
  PROVE  IInv
<1>1. Ordering /\ NoMissedConflict
  BY Zenon, OrderingInit DEF Init, NoMissedConflict
<1>2. PastReadInv /\ Reading = {}
  BY Zenon DEF Init, PastReadInv, Reading
<1>3. DOMAIN readMark.pending = {} /\ DOMAIN txnMark.pending = {}
      /\ txnMark.doneUntil = Compose(current)
  BY Zenon DEF Init, MarkAt
<1>4. CountInv
  <2>1. \A ts : Holders(ts) = {}
    BY Zenon, <1>2 DEF Holders
  <2>2. \A ts : Count(readMark, ts) = 0
    BY Zenon, <1>3 DEF Count
  <2>3. Cardinality({}) = 0
    BY Zenon, FS_EmptySet
  <2> QED BY <2>1, <2>2, <2>3 DEF CountInv
<1>5. current.logical <= MaxLogical
  BY ConstantsAssumption DEF Init, Incr, Reset
<1>6. TxnMarkInv
  <2>1. Compose(current) = Ceiling(current) /\ Ceiling(current) \in Nat
    BY Zenon, <1>1, <1>5, CeilingOrder DEF Ordering, Base, TypeOK, TypeData
  <2>2. \A p \in Procs : pc[p] \notin {"stamped", "open"}
    BY Zenon DEF Init
  <2> QED BY <1>3, <2>1, <2>2 DEF TxnMarkInv
<1> QED BY Zenon, <1>1, <1>2, <1>4, <1>5, <1>6 DEF IInv, Tracking, Visibility

\* One step: each conjunct has its own lemma above.
LEMMA IsolationStep ==
  ASSUME ~ClockStepsBack, IInv, [Next]_vars
  PROVE  IInv'
BY Zenon, OrderingStep, TrackingStep, VisibilityStep, ConflictStep DEF IInv

\* No commit is given a timestamp, as long as the clock is not set back, although a
\* commit before it, above its read timestamp, wrote a key that it has read.
THEOREM Isolation ==
  ASSUME ~ClockStepsBack
  PROVE  Spec => []NoMissedConflict
<1>1. IInv => NoMissedConflict
  BY Zenon DEF IInv
<1> QED BY <1>1, IsolationInit, IsolationStep, PTL DEF Spec

\* readMark does not pass a reading transaction, as long as the clock is not set back:
\* one doneRead too few may happen, never one too many.
THEOREM Protection ==
  ASSUME ~ClockStepsBack
  PROVE  Spec => []ReadersProtected
<1>1. IInv => ReadersProtected
  BY Zenon, TrackingProtects DEF IInv
<1> QED BY <1>1, IsolationInit, IsolationStep, PTL DEF Spec

\* No transaction is open while a commit at or below its read timestamp is in
\* flight, as long as the clock is not set back.
THEOREM OpensLate ==
  ASSUME ~ClockStepsBack
  PROVE  Spec => []OpenAfterCommits
<1>1. IInv => OpenAfterCommits
  <2> SUFFICES ASSUME IInv, Healthy, NEW p \in Procs, NEW q \in Procs,
                      pc[p] = "open", pc[q] = "stamped"
               PROVE  commitTs[q] > readTs[p]
    BY Zenon DEF OpenAfterCommits
  <2>1. readTs[p] <= txnMark.doneUntil /\ txnMark.doneUntil < commitTs[q]
    BY Zenon DEF IInv, Visibility, TxnMarkInv
  <2>2. readTs[p] \in Nat /\ commitTs[q] \in Nat /\ txnMark.doneUntil \in Nat
    BY Zenon DEF IInv, Ordering, Base, TypeOK, TypeData, IsMark
  <2> QED BY <2>1, <2>2
<1> QED BY <1>1, IsolationInit, IsolationStep, PTL DEF Spec

-----------------------------------------------------------------------------
(* The timestamp oracle implements its abstract specification: every step of
   TSO that keeps the oracle healthy is a step of Oracle under the mapping of
   TSO. *)

Entry(p) == [proc |-> p, ts |-> readTs[p]]
InTxn    == {"open", "bound", "logical"}

\* Where p goes decides whether it is one of the open transactions.
LEMMA OpenMove ==
  ASSUME Base, NEW p \in Procs, NEW label, pc' = [pc EXCEPT ![p] = label], readTs' = readTs
  PROVE  /\ label \in InTxn => OpenTxns' = OpenTxns \cup {Entry(p)}
         /\ label \notin InTxn => OpenTxns' = OpenTxns \ {Entry(p)}
         /\ pc[p] \in InTxn <=> Entry(p) \in OpenTxns
<1>1. /\ pc'[p] = label /\ \A q \in Procs : q # p => pc'[q] = pc[q]
  BY Zenon DEF Base, TypeOK, TypeData
<1>2. \A r : r \in OpenTxns <=> \E q \in Procs : pc[q] \in InTxn /\ r = Entry(q)
  BY Zenon DEF OpenTxns, InTxn, Entry
<1>3. \A r : r \in OpenTxns' <=> \E q \in Procs : pc'[q] \in InTxn /\ r = Entry(q)
  BY Zenon DEF OpenTxns, InTxn, Entry
<1>4. \A q \in Procs : Entry(q) = Entry(p) => q = p
  BY Zenon DEF Entry
<1>5. ASSUME label \in InTxn, NEW r PROVE r \in OpenTxns' <=> r \in OpenTxns \cup {Entry(p)}
  BY Zenon, <1>1, <1>2, <1>3, <1>4, <1>5
<1>6. ASSUME label \notin InTxn, NEW r PROVE r \in OpenTxns' <=> r \in OpenTxns \ {Entry(p)}
  <2>1. ASSUME r \in OpenTxns' PROVE r \in OpenTxns /\ r # Entry(p)
    <3>1. PICK q \in Procs : pc'[q] \in InTxn /\ r = Entry(q)
      BY Zenon, <1>3, <2>1
    <3>2. q # p
      BY Zenon, <1>1, <1>6, <3>1
    <3> QED BY Zenon, <1>1, <1>2, <1>4, <3>1, <3>2
  <2>2. ASSUME r \in OpenTxns, r # Entry(p) PROVE r \in OpenTxns'
    <3>1. PICK q \in Procs : pc[q] \in InTxn /\ r = Entry(q)
      BY Zenon, <1>2, <2>2
    <3> QED BY Zenon, <1>1, <1>3, <2>2, <3>1
  <2> QED BY Zenon, <2>1, <2>2
<1>7. pc[p] \in InTxn <=> Entry(p) \in OpenTxns
  BY Zenon, <1>2, <1>4
<1> QED BY Zenon, <1>5, <1>6, <1>7

\* Steps that leave the transactions alone, an updater's or a timestamp drawn.
LEMMA MapAdvance ==
  ASSUME Healthy, Healthy', Compose(current) <= Compose(current'), OpenTxns' = OpenTxns,
         history' = history
  PROVE  Promise!Next
BY Zenon DEF Promise!Next, Promise!Advance, Committed

\* Discard, or a commit refused, ends the transaction.
LEMMA MapEnd ==
  ASSUME Healthy, Healthy', NEW p \in Procs, Entry(p) \in OpenTxns,
         OpenTxns' = OpenTxns \ {Entry(p)}, UNCHANGED <<current, history>>
  PROVE  Promise!Next
<1>1. Promise!End(Entry(p))
  BY Zenon DEF Promise!End, Committed, Compose
<1> QED BY Zenon, <1>1 DEF Promise!Next

\* ReadTs has returned: the transaction is open at its read timestamp.
LEMMA MapBegin ==
  ASSUME Healthy, Healthy', NEW p \in Procs, readTs[p] \in 0 .. Compose(current),
         OpenTxns' = OpenTxns \cup {Entry(p)}, UNCHANGED <<current, history>>
  PROVE  Promise!Next
<1>1. Promise!Begin(p, readTs[p])
  <2>1. readTs[p] <= Compose(current)
    OBVIOUS
  <2> QED BY Zenon, <2>1 DEF Promise!Begin, Committed, Compose, Entry
<1> QED BY Zenon, <1>1 DEF Promise!Next

\* Below a healthy oracle Compose is Ceiling, and nothing was handed out above it.
LEMMA HealthyCompose ==
  ASSUME IInv, Healthy
  PROVE  /\ Compose(current) = Ceiling(current) /\ Compose(current) \in Nat
         /\ \A p \in Procs : readTs[p] \in 0 .. Compose(current)
         /\ \A h \in history : h.ts \in Nat /\ h.ts <= Compose(current)
<1>1. /\ current.logical <= MaxLogical
      /\ current \in [physical : Nat, logical : 0 .. MaxLogical + 1]
      /\ \A p \in Procs : readTs[p] \in Nat /\ readTs[p] <= Ceiling(current)
      /\ \A h \in history : h.ts \in Nat /\ h.ts <= Ceiling(current)
  BY Zenon DEF IInv, Tracking, Ordering, IssuedInv, Base, TypeOK, TypeData, CommitRecord
<1>2. Compose(current) = Ceiling(current) /\ Compose(current) \in Nat
  BY Zenon, <1>1, CeilingOrder
<1> QED BY <1>1, <1>2

\* A commit that is given its timestamp: what it read was not overwritten, because the
\* new history misses no conflict.
LEMMA MapCommit ==
  ASSUME IInv, IInv', Healthy, Healthy', NEW p \in Procs, NEW op \in Op, Issues(p, op),
         pc[p] = "open"
  PROVE  Promise!Next
<1> DEFINE new == [ts |-> Compose(current'), logical |-> current'.logical,
                   readTs |-> readTs[p], reads |-> op.reads, conflictKeys |-> op.conflictKeys]
<1>1. /\ pc' = [pc EXCEPT ![p] = "stamped"] /\ readTs' = readTs
      /\ history' = history \cup {new} /\ Ceiling(current) < Ceiling(current')
  BY Zenon DEF Issues
<1>2. Compose(current) < Compose(current') /\ Compose(current) \in Nat /\ Compose(current') \in Nat
      /\ \A h \in history : h.ts \in Nat /\ h.ts <= Compose(current)
  <2>1. /\ Compose(current') = Ceiling(current') /\ Compose(current') \in Nat
    <3>1. /\ current'.logical <= MaxLogical
          /\ current' \in [physical : Nat, logical : 0 .. MaxLogical + 1]
      BY Zenon DEF IInv, Tracking, Ordering, Base, TypeOK, TypeData
    <3> QED BY Zenon, <3>1, CeilingOrder
  <2> QED BY Zenon, <1>1, <2>1, HealthyCompose
<1>3. OpenTxns' = OpenTxns \ {Entry(p)} /\ Entry(p) \in OpenTxns
  <2>1. Base /\ "stamped" \notin InTxn /\ pc[p] \in InTxn
    BY Zenon DEF InTxn, IInv, Ordering
  <2> QED BY Zenon, <1>1, <2>1, OpenMove
<1>4. Committed' = Committed \cup {[ts |-> Compose(current'), readTs |-> readTs[p],
                                    reads |-> op.reads, keys |-> op.conflictKeys]}
  <2> DEFINE Row(h) == [ts |-> h.ts, readTs |-> h.readTs, reads |-> h.reads,
                        keys |-> h.conflictKeys]
  <2>1. Row(new) = [ts |-> Compose(current'), readTs |-> readTs[p],
                    reads |-> op.reads, keys |-> op.conflictKeys]
    BY Zenon
  <2>2. Committed = {Row(h) : h \in history} /\ Committed' = {Row(h) : h \in history'}
    BY Zenon DEF Committed
  <2> HIDE DEF Row, new
  <2> QED BY Zenon, <1>1, <2>1, <2>2
<1>5. \A h \in history : h.ts > readTs[p] => h.conflictKeys \cap op.reads = {}
  <2> SUFFICES ASSUME NEW h \in history, h.ts > readTs[p]
               PROVE  h.conflictKeys \cap op.reads = {}
    BY Zenon
  <2>1. h \in history' /\ new \in history'
    BY Zenon, <1>1
  <2>2. new.readTs < h.ts /\ h.ts < new.ts /\ new.reads = op.reads
    <3>1. readTs[p] \in Nat
      BY Zenon DEF IInv, Ordering, Base, TypeOK, TypeData
    <3> QED BY <1>2, <3>1
  <2> QED BY Zenon, <2>1, <2>2 DEF IInv, NoMissedConflict
<1>6. Promise!Unchanged(Entry(p), op.reads)
  BY <1>5 DEF Promise!Unchanged, Committed, Entry
<1>7. Promise!Commit(Entry(p), op.reads, op.conflictKeys)
  BY Zenon, <1>2, <1>3, <1>4, <1>6 DEF Promise!Commit, Entry
<1>8. op.reads \in SUBSET AllKeys /\ op.conflictKeys \in SUBSET AllKeys
  BY Zenon DEF Op
<1> QED BY Zenon, <1>3, <1>7, <1>8 DEF Promise!Next

\* Every step of TSO that keeps the oracle healthy is one of Oracle.
LEMMA MapStep ==
  ASSUME ~ClockStepsBack, IInv, IInv', [Next]_vars, Healthy, Healthy'
  PROVE  Promise!Next
<1>0. /\ Base /\ Ordering /\ current.logical <= MaxLogical
      /\ Compose(current) = Ceiling(current) /\ Compose(current) \in Nat
      /\ \A p \in Procs : readTs[p] \in 0 .. Compose(current)
      /\ pc \in [Procs -> Labels]
  BY Zenon, HealthyCompose DEF IInv, Tracking, Ordering, Base, TypeOK, TypeData
<1>1. ASSUME NEW p \in Procs, NEW label, pc' = [pc EXCEPT ![p] = label], pc[p] \notin InTxn,
             label \notin InTxn, readTs' = readTs, UNCHANGED <<current, history>>
      PROVE  Promise!Next
  <2>1. OpenTxns' = OpenTxns
    BY Zenon, <1>0, <1>1, OpenMove
  <2>2. Compose(current) <= Compose(current')
    BY <1>0, <1>1
  <2> QED BY Zenon, <1>1, <2>1, <2>2, MapAdvance
<1>2. ASSUME NEW p \in Procs, NEW label, pc' = [pc EXCEPT ![p] = label], pc[p] \in InTxn,
             label \notin InTxn, readTs' = readTs, UNCHANGED <<current, history>>
      PROVE  Promise!Next
  BY Zenon, <1>0, <1>2, OpenMove, MapEnd
<1>3. ASSUME NEW p \in Procs, pc' = [pc EXCEPT ![p] = "open"], readTs' = readTs,
             UNCHANGED <<current, history>>
      PROVE  Promise!Next
  <2>1. "open" \in InTxn
    BY Zenon DEF InTxn
  <2> QED BY Zenon, <1>0, <1>3, <2>1, OpenMove, MapBegin
<1>4. ASSUME NEW p \in Procs, ReadTs(p)
      PROVE  Promise!Next
  <2>1. /\ pc[p] = "begin" /\ pc' = [pc EXCEPT ![p] = "assigned"]
        /\ \A q \in Procs : q # p => readTs'[q] = readTs[q]
        /\ UNCHANGED <<current, history>>
    <3>1. readTs \in [Procs -> Nat]
      BY Zenon, <1>0 DEF Base, TypeOK, TypeData
    <3> QED BY Zenon, <1>4, <3>1 DEF ReadTs, Goto, clockVars
  <2>2. /\ pc[p] \notin {"open", "bound", "logical"} /\ pc'[p] \notin {"open", "bound", "logical"}
        /\ \A q \in Procs : q # p => pc'[q] = pc[q]
    BY Zenon, <1>0, <2>1
  <2>3. OpenTxns' = OpenTxns
    <3>1. readTs \in [Procs -> Nat] /\ pc'[p] \notin InTxn /\ pc[p] \notin InTxn
      BY Zenon, <1>0, <2>2 DEF InTxn, Base, TypeOK, TypeData
    <3>2. \A r : r \in OpenTxns <=> \E q \in Procs : pc[q] \in InTxn /\ r = Entry(q)
      BY Zenon DEF OpenTxns, InTxn, Entry
    <3>3. \A r : r \in OpenTxns' <=> \E q \in Procs : pc'[q] \in InTxn /\ r = Entry(q)'
      BY Zenon DEF OpenTxns, InTxn, Entry
    <3>4. \A q \in Procs : q # p => Entry(q)' = Entry(q)
      BY Zenon, <2>1 DEF Entry
    <3>5. ASSUME NEW r PROVE r \in OpenTxns' <=> r \in OpenTxns
      <4>1. ASSUME NEW q \in Procs
            PROVE  pc'[q] \in InTxn /\ r = Entry(q)' <=> pc[q] \in InTxn /\ r = Entry(q)
        <5>1. CASE q = p
          BY Zenon, <3>1, <5>1
        <5>2. CASE q # p
          BY Zenon, <2>2, <3>4, <5>2
        <5> QED BY Zenon, <5>1, <5>2
      <4> QED BY Zenon, <3>2, <3>3, <4>1
    <3> QED BY Zenon, <3>5
  <2>4. Compose(current) <= Compose(current')
    BY <1>0, <2>1
  <2> QED BY Zenon, <2>1, <2>3, <2>4, MapAdvance
<1>5. ASSUME NEW p \in Procs, ReadMarkBegin(p) \/ WaitForMark(p) \/ WaitCancelled(p) \/ DoneCommit(p)
      PROVE  Promise!Next
  <2>1. /\ readTs' = readTs /\ UNCHANGED <<current, history>>
        /\ pc[p] \in {"assigned", "parked", "stamped"}
        /\ \E label \in {"open", "parked", "idle", "done", "discarding"} : pc' = [pc EXCEPT ![p] = label]
    BY Zenon, <1>5 DEF ReadMarkBegin, WaitForMark, WaitCancelled, DoneCommit, Goto, clockVars, markVars
  <2>2. pc[p] \notin InTxn /\ \A label \in {"parked", "idle", "done", "discarding"} : label \notin InTxn
    BY Zenon, <2>1 DEF InTxn
  <2> QED BY ZenonT(60), <1>1, <1>3, <2>1, <2>2
<1>6. ASSUME NEW p \in Procs, Discard(p) \/ \E op \in Ops(p) : CommitConflict(p, op)
      PROVE  Promise!Next
  <2>1. /\ readTs' = readTs /\ UNCHANGED <<current, history>>
        /\ \E label \in {"proposing", "done", "aborting"} : pc' = [pc EXCEPT ![p] = label]
    BY Zenon, <1>6 DEF Discard, CommitConflict, Goto, clockVars
  <2>2. \A label \in {"proposing", "done", "aborting"} : label \notin InTxn
    BY Zenon DEF InTxn
  <2> QED BY ZenonT(60), <1>1, <1>2, <2>1, <2>2
<1>7. ASSUME NEW p \in Procs, NEW op \in Ops(p), Commit(p, op)
      PROVE  Promise!Next
  <2>1. pc[p] = "open" /\ readTs' = readTs
    BY Zenon, <1>7 DEF Commit
  <2>2. CASE /\ UNCHANGED <<history, commitTs, txnMark>>
             /\ \E label \in {"bound", "logical"} : pc' = [pc EXCEPT ![p] = label]
             /\ Ceiling(current) <= Ceiling(current')
    <3>1. /\ pc[p] \in InTxn /\ \A label \in {"bound", "logical"} : label \in InTxn
      BY Zenon, <2>1 DEF InTxn
    <3>2. OpenTxns' = OpenTxns
      <4>1. OpenTxns' = OpenTxns \cup {Entry(p)} /\ Entry(p) \in OpenTxns
        BY Zenon, <1>0, <2>1, <2>2, <3>1, OpenMove
      <4> QED BY Zenon, <4>1
    <3>3. Compose(current') = Ceiling(current')
      <4>1. /\ current'.logical <= MaxLogical
            /\ current' \in [physical : Nat, logical : 0 .. MaxLogical + 1]
        BY Zenon DEF IInv, Tracking, Ordering, Base, TypeOK, TypeData
      <4> QED BY Zenon, <4>1, CeilingOrder
    <3>4. Compose(current) <= Compose(current')
      BY Zenon, <1>0, <2>2, <3>3
    <3> QED BY Zenon, <2>2, <3>2, <3>4, MapAdvance
  <2>3. CASE op \in Op /\ Issues(p, op)
    BY Zenon, <2>1, <2>3, MapCommit
  <2> QED BY ZenonT(60), <1>0, <1>7, <2>2, <2>3, CommitIssues
<1>8. ASSUME NEW p \in Procs, BoundPassed(p) \/ LogicalPassed(p)
      PROVE  FALSE
  BY Zenon, <1>0, <1>8, SpinsStay
<1>9. CASE UpdateWindow \/ WindowProposed \/ WindowFailed
  <2>1. /\ \E label \in {"begin", "idle"} : pc' = [pc EXCEPT ![Updater] = label]
        /\ pc[Updater] \in {"idle", "proposing"} /\ UNCHANGED <<current, readTs, history>>
    BY Zenon, <1>9 DEF UpdateWindow, WindowProposed, WindowFailed, Goto, clockVars
  <2>2. /\ Updater \in Procs /\ pc[Updater] \notin InTxn
        /\ \A label \in {"begin", "idle"} : label \notin InTxn
    BY Zenon, <2>1 DEF Procs, InTxn
  <2> QED BY Zenon, <1>1, <2>1, <2>2
<1>10. CASE Tick \/ UNCHANGED vars
  <2>1. UNCHANGED <<pc, readTs, current, history>>
    BY Zenon, <1>10 DEF Tick, vars, clockVars, procVars
  <2>2. OpenTxns' = OpenTxns
    BY Zenon, <2>1 DEF OpenTxns
  <2>3. Compose(current) <= Compose(current')
    BY <1>0, <2>1
  <2> QED BY Zenon, <2>1, <2>2, <2>3, MapAdvance
<1> QED BY ZenonT(60), <1>4, <1>5, <1>6, <1>7, <1>8, <1>9, <1>10 DEF Next, Step, StepBack

\* As long as the clock is not set back, the oracle with its locks, spins, watermarks
\* and cleanup is an implementation of the abstract one: transactions open below all
\* later commits, commit above everything handed out with nothing they read
\* overwritten, or end.
THEOREM Refinement ==
  ASSUME ~ClockStepsBack
  PROVE  Spec => ImplementsOracle
<1>1. Init => IInv
  BY Zenon, IsolationInit
<1>2. IInv /\ [Next]_vars => IInv'
  BY Zenon, IsolationStep
<1>3. Init => Promise!Init
  <2> SUFFICES ASSUME Init PROVE Promise!Init
    BY Zenon
  <2>1. history = {} /\ ~readMark.dead /\ ~txnMark.dead
    BY Zenon DEF Init, MarkAt
  <2>2. Healthy
    BY Zenon, <2>1 DEF Healthy
  <2>3. OpenTxns = {} /\ Committed = {}
    BY Zenon, <2>1 DEF OpenTxns, Committed, Init
  <2>4. Compose(current) \in Nat
    BY Zenon, <1>1, <2>2, HealthyCompose
  <2> QED BY Zenon, <2>2, <2>3, <2>4 DEF Promise!Init
<1>4. IInv /\ IInv' /\ [Next]_vars => [Promise!Next]_(Promise!oracleVars)
  <2> SUFFICES ASSUME IInv, IInv', [Next]_vars PROVE Promise!Next
    BY Zenon
  <2>1. CASE ~Healthy'
    BY Zenon, <2>1 DEF Promise!Next, Promise!Fail
  <2>2. CASE Healthy'
    BY Zenon, <2>2, HealthyBack, MapStep DEF IInv
  <2> QED BY Zenon, <2>1, <2>2
<1> QED BY <1>1, <1>2, <1>3, <1>4, PTL DEF Spec, ImplementsOracle, Promise!Spec
=============================================================================
