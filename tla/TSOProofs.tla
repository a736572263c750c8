----------------------------- MODULE TSOProofs -----------------------------
(***************************************************************************)
(* Theorems about the timestamp oracle, for every number of clients, every *)
(* set of keys, every width of the logical counter and every window; and   *)
(* the lemmas about the watermarks it is built from.                       *)
(***************************************************************************)
EXTENDS TSO, TLAPS, FiniteSetTheorems

\* A leaf that names no prover goes to the SMT solver, which has 30 seconds for it.
USE SMTT(30)

(* Finite sets of timestamps have a maximum. *)

HasMax(S) == \E x \in S : \A y \in S : x >= y

\* A finite nonempty set of indices has a maximum.  Were there a subset without
\* one, a minimal such subset would contradict itself when an element is removed.
LEMMA FiniteMax ==
  ASSUME NEW S \in SUBSET Nat, IsFiniteSet(S), S # {}
  PROVE  HasMax(S)
<1> DEFINE Bad == {A \in SUBSET S : A # {} /\ ~HasMax(A)}
<1>1. Bad \subseteq FiniteSubsetsOf(S)
  BY Zenon, FS_Subset DEF FiniteSubsetsOf
<1>2. SUFFICES ASSUME Bad # {} PROVE FALSE
  BY Zenon
<1>3. PICK A \in Bad : \A B \in Bad : ~(<<B, A>> \in StrictSubsetOrdering(S))
  <2> HIDE DEF Bad
  <2> QED BY Zenon, <1>1, <1>2, FS_StrictSubsetOrderingWellFounded, WFMin
<1>4. PICK x \in A : TRUE
  BY Zenon
<1> DEFINE B == A \ {x}
<1>5. B \notin Bad
  BY <1>3, Zenon DEF StrictSubsetOrdering
<1>6. CASE B = {}
  <2>1. A = {x}
    BY <1>6, Zenon
  <2> QED BY <2>1, <1>4 DEF HasMax
<1>7. CASE HasMax(B)
  <2>1. PICK m \in B : \A y \in B : m >= y
    BY Zenon, <1>7 DEF HasMax
  <2>2. \A y \in A : y = x \/ m >= y
    BY Zenon, <2>1
  <2> QED BY <2>1, <2>2 DEF HasMax
<1> QED BY Zenon, <1>5, <1>6, <1>7

\* So Max, of a set of indexes, is the largest of them.
LEMMA MaxIs ==
  ASSUME NEW S \in SUBSET Nat, IsFiniteSet(S), S # {}
  PROVE  Max(S) \in S /\ \A y \in S : Max(S) >= y
<1>1. \E x \in S : \A y \in S : x >= y
  BY Zenon, FiniteMax DEF HasMax
<1> QED BY <1>1, Zenon DEF Max

-----------------------------------------------------------------------------
(* What one Begin or Done call does to a watermark, for every mark and index. *)

\* A fresh mark is a mark.
LEMMA MarkAtIsMark ==
  ASSUME NEW i \in Nat
  PROVE  /\ IsMark(MarkAt(i)) /\ Ordered(MarkAt(i))
         /\ MarkAt(i).doneUntil = i /\ ~MarkAt(i).dead
         /\ DOMAIN MarkAt(i).pending = {}
BY Zenon, FS_EmptySet DEF MarkAt, IsMark, Ordered

\* processOne keeps a mark a mark, never lowers doneUntil and never lets it pass
\* an index that is still pending; on a live mark no count is lower than the
\* calls make it.
LEMMA ProcessOneStep ==
  ASSUME NEW m, IsMark(m), Ordered(m), NEW i \in Nat, NEW d \in {1, -1},
         NEW n, n = ProcessOne(m, i, d)
  PROVE  /\ IsMark(n) /\ Ordered(n)
         /\ m.doneUntil <= n.doneUntil
         /\ ~n.dead => ~m.dead
         /\ ~n.dead => \A j \in Nat :
              Count(n, j) >= Count(m, j) + (IF j = i THEN d ELSE 0)
<1> DEFINE pending == Counted(m.pending, i, d)
           popped  == Finished(pending)
<1>1. /\ DOMAIN pending = DOMAIN m.pending \cup {i}
      /\ pending \in [DOMAIN pending -> Int]
      /\ DOMAIN pending \in SUBSET Nat /\ IsFiniteSet(DOMAIN pending)
      /\ popped \in SUBSET DOMAIN pending /\ IsFiniteSet(popped)
      /\ IsFiniteSet(DOMAIN pending \ popped)
  <2>1. DOMAIN pending = DOMAIN m.pending \cup {i} /\ pending \in [DOMAIN pending -> Int]
    BY DEF Counted, IsMark
  <2>2. DOMAIN pending \in SUBSET Nat /\ IsFiniteSet(DOMAIN pending)
    BY <2>1, FS_AddElement DEF IsMark
  <2>3. popped \in SUBSET DOMAIN pending
    BY Zenon DEF Finished
  <2> QED BY Zenon, <2>1, <2>2, <2>3, FS_Subset
<1>2. CASE m.dead
  <2>1. n = m
    BY Zenon, <1>2 DEF ProcessOne
  <2>2. m.doneUntil \in Nat
    BY Zenon DEF IsMark
  <2> QED BY <1>2, <2>1, <2>2
<1>3. CASE ~m.dead /\ m.doneUntil > i
  <2>1. n = [m EXCEPT !.dead = TRUE]
    BY Zenon, <1>3 DEF ProcessOne
  <2>2. n = [doneUntil |-> m.doneUntil, pending |-> m.pending, dead |-> TRUE]
    BY Zenon, <2>1 DEF IsMark
  <2> QED BY <2>2 DEF IsMark, Ordered
<1>4. CASE ~m.dead /\ m.doneUntil <= i
  <2> DEFINE until == IF popped = {} THEN m.doneUntil ELSE Max(popped)
             rest  == [j \in DOMAIN pending \ popped |-> pending[j]]
  <2>1. n = [doneUntil |-> until, pending |-> rest, dead |-> FALSE]
    <3>1. n = [m EXCEPT !.doneUntil = until, !.pending = rest]
      BY <1>4 DEF ProcessOne, IsMark
    <3> QED BY Zenon, <3>1, <1>4 DEF IsMark
  <2>2. \A j \in DOMAIN pending : m.doneUntil <= j
    BY Zenon, <1>1, <1>4 DEF Ordered
  <2>3. until \in Nat /\ m.doneUntil <= until /\ \A j \in DOMAIN rest : until <= j
    <3>1. CASE popped = {}
      BY <3>1, <1>1, <2>2 DEF IsMark
    <3>2. CASE popped # {}
      <4>1. Max(popped) \in popped
        BY Zenon, <3>2, <1>1, MaxIs
      <4>2. ASSUME NEW j \in DOMAIN rest PROVE Max(popped) <= j
        BY <4>1, <4>2, <1>1 DEF Finished
      <4> QED BY Zenon, <3>2, <4>1, <4>2, <1>1, <2>2
    <3> QED BY Zenon, <3>1, <3>2
  <2>4. IsMark(n) /\ Ordered(n)
    BY <2>1, <2>3, <1>1 DEF IsMark, Ordered
  <2>5. ASSUME NEW j \in Nat
        PROVE  Count(n, j) >= Count(m, j) + (IF j = i THEN d ELSE 0)
    <3>1. CASE j \in popped
      <4>1. pending[j] <= 0 /\ pending[j] \in Int /\ j \in DOMAIN pending
        BY <3>1, <1>1 DEF Finished
      <4>2. pending[j] = Count(m, j) + (IF j = i THEN d ELSE 0)
        BY Zenon, <4>1, <1>1 DEF Counted, Count
      <4>3. Count(n, j) = 0
        BY <2>1, <3>1 DEF Count
      <4> QED BY Zenon, <4>1, <4>2, <4>3
    <3>2. CASE j \in DOMAIN pending \ popped
      <4>1. Count(n, j) = pending[j]
        BY <2>1, <3>2 DEF Count
      <4>2. pending[j] = Count(m, j) + (IF j = i THEN d ELSE 0) /\ pending[j] \in Int
        BY Zenon, <3>2, <1>1 DEF Counted, Count
      <4> QED BY <4>1, <4>2
    <3>3. CASE j \notin DOMAIN pending
      BY <3>3, <1>1, <2>1 DEF Count
    <3> QED BY Zenon, <3>1, <3>2, <3>3
  <2>6. m.doneUntil <= n.doneUntil /\ ~m.dead
    BY <2>1, <2>3, <1>4
  <2> QED BY Zenon, <2>4, <2>5, <2>6
<1> QED BY <1>2, <1>3, <1>4 DEF IsMark

\* Begin on a mark with nothing begun.
LEMMA BeginFirst ==
  ASSUME NEW m, IsMark(m), DOMAIN m.pending = {}, NEW i \in Nat, m.doneUntil < i, ~m.dead
  PROVE  /\ DOMAIN Begin(m, i).pending = {i} /\ Begin(m, i).pending[i] = 1
         /\ Begin(m, i).doneUntil = m.doneUntil
<1> DEFINE pending == Counted(m.pending, i, 1)
<1>1. DOMAIN pending = {i} /\ pending[i] = 1
  BY DEF Counted
<1>2. Finished(pending) = {}
  BY <1>1 DEF Finished
<1>3. Begin(m, i) = [m EXCEPT !.doneUntil = m.doneUntil,
                              !.pending = [j \in {i} |-> pending[j]]]
  <2>1. ~(m.doneUntil > i) /\ {i} \ {} = {i}
    BY DEF IsMark
  <2> HIDE DEF pending
  <2> QED BY Zenon, <1>1, <1>2, <2>1 DEF Begin, ProcessOne, pending
<1> HIDE DEF pending
<1> QED BY <1>1, <1>3 DEF IsMark

\* Done for the only index that is begun, once.
LEMMA DoneLast ==
  ASSUME NEW m, IsMark(m), NEW i \in Nat, DOMAIN m.pending = {i}, m.pending[i] = 1,
         m.doneUntil <= i, ~m.dead
  PROVE  DOMAIN Done(m, i).pending = {} /\ Done(m, i).doneUntil = i
<1> DEFINE pending == Counted(m.pending, i, -1)
<1>1. DOMAIN pending = {i} /\ pending[i] = 0
  BY DEF Counted
<1>2. Finished(pending) = {i}
  BY <1>1 DEF Finished
<1>3. Max({i}) = i
  BY DEF Max
<1>4. Done(m, i) = [m EXCEPT !.doneUntil = i, !.pending = [j \in {} |-> pending[j]]]
  <2>1. ~(m.doneUntil > i) /\ {i} \ {i} = {} /\ {i} # {}
    BY DEF IsMark
  <2> HIDE DEF pending
  <2> QED BY Zenon, <1>1, <1>2, <1>3, <2>1 DEF Done, ProcessOne, pending
<1> HIDE DEF pending
<1> QED BY Zenon, <1>4 DEF IsMark

-----------------------------------------------------------------------------
(* Timestamps. *)

\* Composed timestamps are natural numbers.
LEMMA ComposeNat ==
  ASSUME NEW ts \in [physical : Nat, logical : Nat]
  PROVE  Compose(ts) \in Nat
<1>1. \A a, b \in Nat : a * b \in Nat
  OBVIOUS
<1>2. ts.physical \in Nat /\ ts.logical \in Nat /\ MaxLogical + 1 \in Nat /\ ts.physical + 1 \in Nat
  BY ConstantsAssumption
<1> QED BY <1>1, <1>2 DEF Compose

-----------------------------------------------------------------------------
(* The marks. *)

\* Begin and Done keep a mark's shape and never lower doneUntil.
LEMMA BeginDone ==
  ASSUME NEW m, IsMark(m), Ordered(m), NEW i \in Nat, NEW n,
         n = Begin(m, i) \/ n = Done(m, i)
  PROVE  /\ IsMark(n) /\ Ordered(n)
         /\ m.doneUntil <= n.doneUntil
         /\ ~n.dead => ~m.dead
BY Zenon, ProcessOneStep DEF Begin, Done

\* Every step leaves readMark alone or makes one call with some read timestamp.
LEMMA ReadMarkCalls ==
  ASSUME Base, [Next]_vars
  PROVE  \/ readMark' = readMark
         \/ \E p \in Procs : readMark' = Begin(readMark, readTs[p]) \/ readMark' = Done(readMark, readTs[p])
<1>1. CASE UNCHANGED vars
  BY Zenon, <1>1 DEF vars, markVars
<1>2. ASSUME NEW p \in Procs, Step(p)
      PROVE  \/ readMark' = readMark
             \/ readMark' = Begin(readMark, readTs[p]) \/ readMark' = Done(readMark, readTs[p])
  <2>1. CASE \E op \in Ops(p) : CommitConflict(p, op) \/ Commit(p, op)
    BY Zenon, <2>1 DEF CommitConflict, Commit, DoneRead, markVars
  <2> QED BY Zenon, <1>2, <2>1 DEF Step, ReadTs, ReadMarkBegin, WaitForMark, WaitCancelled,
       BoundPassed, LogicalPassed, DoneCommit, Discard, DoneRead, markVars
<1>3. CASE UpdateWindow \/ WindowProposed \/ WindowFailed \/ Tick \/ StepBack
  BY Zenon, <1>3 DEF UpdateWindow, WindowProposed, WindowFailed, Tick, StepBack, markVars
<1> QED BY Zenon, <1>1, <1>2, <1>3 DEF Next

\* readMark keeps its shape and never moves back.
LEMMA ReadMarkStep ==
  ASSUME Base, [Next]_vars
  PROVE  /\ IsMark(readMark') /\ Ordered(readMark')
         /\ readMark.doneUntil <= readMark'.doneUntil
         /\ ~readMark'.dead => ~readMark.dead
<1>1. IsMark(readMark) /\ Ordered(readMark) /\ readMark.doneUntil \in Nat
  BY Zenon DEF Base, TypeOK, TypeData, IsMark
<1>2. \A p \in Procs : readTs[p] \in Nat
  BY Zenon DEF Base, TypeOK, TypeData
<1>3. ASSUME NEW p \in Procs,
             readMark' = Begin(readMark, readTs[p]) \/ readMark' = Done(readMark, readTs[p])
      PROVE  /\ IsMark(readMark') /\ Ordered(readMark')
             /\ readMark.doneUntil <= readMark'.doneUntil
             /\ ~readMark'.dead => ~readMark.dead
  BY Zenon, <1>1, <1>2, <1>3, BeginDone
<1> QED BY <1>1, <1>3, ReadMarkCalls

-----------------------------------------------------------------------------
(* Type correctness. *)

\* A transaction's reads and writes are sets of keys.
LEMMA OpsType ==
  ASSUME NEW p \in Procs, NEW op \in Ops(p)
  PROVE  op \in Op /\ op.reads \in SUBSET AllKeys /\ op.conflictKeys \in SUBSET AllKeys
BY DEF Ops, Op, AllKeys

\* What a commit writes has its type, and txnMark keeps its shape.
LEMMA StampType ==
  ASSUME Base, NEW p \in Procs, NEW from \in [physical : Nat, logical : 0 .. MaxLogical],
         NEW kept \in SUBSET [ts : Nat, conflictKeys : SUBSET AllKeys],
         NEW op \in Op, Stamp(p, from, kept, op)
  PROVE  /\ current' = Incr(from)
         /\ current' \in [physical : Nat, logical : 0 .. MaxLogical + 1]
         /\ Compose(current') \in Nat
         /\ commitTs' = [commitTs EXCEPT ![p] = Compose(current')]
         /\ commitTs' \in [Procs -> Nat]
         /\ committedTxns' = kept \cup {[ts |-> Compose(current'), conflictKeys |-> op.conflictKeys]}
         /\ committedTxns' \in SUBSET [ts : Nat, conflictKeys : SUBSET AllKeys]
         /\ history' \in SUBSET CommitRecord
         /\ IsMark(txnMark') /\ Ordered(txnMark')
         /\ ~txnMark'.dead => ~txnMark.dead
<1>1. /\ current' = Incr(from)
      /\ current' \in [physical : Nat, logical : 0 .. MaxLogical + 1]
      /\ current' \in [physical : Nat, logical : Nat]
  BY ConstantsAssumption DEF Stamp, Incr
<1>2. Compose(current') \in Nat
  BY Zenon, <1>1, ComposeNat
<1>3. /\ commitTs' = [commitTs EXCEPT ![p] = Compose(current')]
      /\ committedTxns' = kept \cup {[ts |-> Compose(current'), conflictKeys |-> op.conflictKeys]}
      /\ txnMark' = Begin(txnMark, Compose(current'))
  BY Zenon DEF Stamp
<1>4. commitTs' \in [Procs -> Nat]
  BY Zenon, <1>2, <1>3 DEF Base, TypeOK, TypeData
<1>5. committedTxns' \in SUBSET [ts : Nat, conflictKeys : SUBSET AllKeys]
  BY <1>2, <1>3 DEF Op
<1>6. history' \in SUBSET CommitRecord
  <2>1. readTs[p] \in Nat /\ saved \in Nat /\ history \in SUBSET CommitRecord
    BY Zenon DEF Base, TypeOK, TypeData
  <2>2. current'.physical \in Nat /\ current'.logical \in Nat
    BY Zenon, <1>1
  <2>3. history' = history \cup
           {[ts |-> Compose(current'), logical |-> current'.logical, readTs |-> readTs[p],
             reads |-> op.reads, conflictKeys |-> op.conflictKeys]}
    BY Zenon DEF Stamp
  <2> QED BY <2>1, <2>2, <2>3, <1>2 DEF CommitRecord, Op
<1>7. IsMark(txnMark') /\ Ordered(txnMark') /\ (~txnMark'.dead => ~txnMark.dead)
  BY Zenon, <1>2, <1>3, BeginDone DEF Base, TypeOK, TypeData
<1> QED BY Zenon, <1>1, <1>2, <1>3, <1>4, <1>5, <1>6, <1>7

\* allocate's step 1 and cleanup keep their types.
LEMMA AdvancedType ==
  ASSUME Base
  PROVE  /\ Advanced \in [physical : Nat, logical : 0 .. MaxLogical + 1]
         /\ ~ExceedLogicalMax(Advanced) => Advanced \in [physical : Nat, logical : 0 .. MaxLogical]
         /\ Reset(now) \in [physical : Nat, logical : 0 .. MaxLogical]
         /\ \A i : Cleanup(i) \in SUBSET committedTxns
<1>1. current \in [physical : Nat, logical : 0 .. MaxLogical + 1] /\ now \in Nat
  BY Zenon DEF Base, TypeOK, TypeData
<1>2. Reset(now) \in [physical : Nat, logical : 0 .. MaxLogical]
  BY <1>1, ConstantsAssumption DEF Reset
<1>3. Advanced \in [physical : Nat, logical : 0 .. MaxLogical + 1]
  BY <1>1, <1>2, ConstantsAssumption DEF Advanced
<1>4. ~ExceedLogicalMax(Advanced) => Advanced \in [physical : Nat, logical : 0 .. MaxLogical]
  BY <1>3, ConstantsAssumption DEF ExceedLogicalMax
<1> QED BY Zenon, <1>2, <1>3, <1>4 DEF Cleanup

\* Every action keeps the types.
LEMMA TypeStep ==
  ASSUME Base, NEW p \in Procs, Step(p)
  PROVE  TypeData' /\ IsMark(txnMark') /\ Ordered(txnMark')
<1> USE DEF Base, TypeOK, TypeData
<1>0. current \in [physical : Nat, logical : Nat]
  BY ConstantsAssumption
<1>1. CASE ReadTs(p)
  BY Zenon, <1>0, <1>1, ComposeNat DEF ReadTs, Goto, Labels, clockVars
<1>2. CASE ReadMarkBegin(p)
  BY Zenon, <1>2 DEF ReadMarkBegin, Goto, Labels, clockVars
<1>3. CASE WaitForMark(p)
  BY Zenon, <1>3 DEF WaitForMark, Goto, Labels, clockVars, markVars
<1>4. CASE WaitCancelled(p)
  BY Zenon, <1>4 DEF WaitCancelled, Goto, Labels, clockVars
<1>5. ASSUME NEW op \in Ops(p), CommitConflict(p, op)
      PROVE  TypeData' /\ IsMark(txnMark') /\ Ordered(txnMark')
  BY Zenon, <1>5, OpsType DEF CommitConflict, Goto, Labels, clockVars, markVars
<1>6. ASSUME NEW op \in Ops(p), Commit(p, op)
      PROVE  TypeData' /\ IsMark(txnMark') /\ Ordered(txnMark')
  <2> DEFINE mark == DoneRead(readTs[p])
             kept == Cleanup(mark.doneUntil)
  <2>1. op \in Op /\ Advanced \in [physical : Nat, logical : 0 .. MaxLogical + 1]
        /\ kept \in SUBSET committedTxns
    BY Zenon, OpsType, AdvancedType
  <2>2. mark.doneUntil \in Nat
    <3>1. IsMark(mark)
      BY Zenon, BeginDone DEF DoneRead
    <3> QED BY Zenon, <3>1 DEF IsMark
  <2>3. /\ ops' = [ops EXCEPT ![p] = op] /\ readers' = readers \ {readTs[p]}
        /\ lastCleanupTs' = mark.doneUntil
        /\ UNCHANGED <<now, saved, readTs, upperBound>>
    BY Zenon, <1>6 DEF Commit
  <2>4. CASE /\ pc' = [pc EXCEPT ![p] = "bound"] \/ pc' = [pc EXCEPT ![p] = "logical"]
             /\ current' = Advanced /\ committedTxns' = kept
             /\ UNCHANGED <<txnMark, commitTs, history>>
    <3> HIDE DEF mark, kept
    <3> QED BY Zenon, <2>1, <2>2, <2>3, <2>4 DEF Labels
  <2>5. CASE ~ExceedLogicalMax(Advanced) /\ Stamp(p, Advanced, kept, op)
    <3>1. pc' = [pc EXCEPT ![p] = "stamped"]
      BY Zenon, <2>5 DEF Stamp, Goto
    <3>2. kept \in SUBSET [ts : Nat, conflictKeys : SUBSET AllKeys]
      BY Zenon, <2>1
    <3>3. Advanced \in [physical : Nat, logical : 0 .. MaxLogical]
      BY Zenon, <2>5, AdvancedType
    <3> HIDE DEF mark, kept
    <3> QED BY ZenonT(60), <2>1, <2>2, <2>3, <2>5, <3>1, <3>2, <3>3, StampType DEF Labels
  <2> QED BY Zenon, <1>6, <2>4, <2>5 DEF Commit, Goto
<1>7. CASE BoundPassed(p) \/ LogicalPassed(p)
  <2>1. /\ Stamp(p, Reset(now), committedTxns, ops[p])
        /\ UNCHANGED <<now, saved, readers, readMark, lastCleanupTs, readTs, ops, upperBound>>
    BY Zenon, <1>7 DEF BoundPassed, LogicalPassed
  <2>2. pc' = [pc EXCEPT ![p] = "stamped"]
    BY Zenon, <2>1 DEF Stamp, Goto
  <2>3. ops[p] \in Op /\ Reset(now) \in [physical : Nat, logical : 0 .. MaxLogical]
    BY Zenon, AdvancedType
  <2> QED BY Zenon, <2>1, <2>2, <2>3, StampType DEF Labels
<1>8. CASE DoneCommit(p)
  BY Zenon, <1>8, BeginDone DEF DoneCommit, Goto, Labels, clockVars
<1>9. CASE Discard(p)
  BY Zenon, <1>9 DEF Discard, Goto, Labels, clockVars
<1> QED BY Zenon, <1>1, <1>2, <1>3, <1>4, <1>5, <1>6, <1>7, <1>8, <1>9 DEF Step

\* Only a goroutine that finds writeChLock free takes it.
LEMMA OneWriterStep ==
  ASSUME Base, [Next]_vars
  PROVE  OneWriter'
<1> DEFINE Writing == {"bound", "logical", "stamped"}
<1>1. CASE UNCHANGED pc
  BY Zenon, <1>1 DEF OneWriter, Base, TypeOK
<1>2. ASSUME NEW p \in Procs, NEW label \in Labels, pc' = [pc EXCEPT ![p] = label],
             label \in Writing => WriteChFree \/ pc[p] \in Writing
      PROVE  OneWriter'
  <2> SUFFICES ASSUME NEW q \in Procs, NEW r \in Procs, pc'[q] \in Writing, pc'[r] \in Writing
               PROVE  q = r
    BY Zenon DEF OneWriter
  <2>1. pc \in [Procs -> Labels] /\ OneWriter
    BY Zenon DEF Base, TypeOK, TypeData
  <2>2. \A x \in Procs : x # p => pc'[x] = pc[x]
    BY Zenon, <1>2, <2>1
  <2>3. pc'[p] = label
    BY Zenon, <1>2, <2>1
  <2> QED BY <1>2, <2>1, <2>2, <2>3 DEF OneWriter, WriteChFree
<1>3. ASSUME NEW p \in Procs, Step(p)
      PROVE  \E label \in Labels : /\ pc' = [pc EXCEPT ![p] = label]
                                   /\ label \in Writing => WriteChFree \/ pc[p] \in Writing
  <2>1. CASE \E op \in Ops(p) : CommitConflict(p, op) \/ Commit(p, op)
    BY Zenon, <2>1 DEF CommitConflict, Commit, Stamp, Goto, Labels
  <2> QED BY Zenon, <1>3, <2>1 DEF Step, ReadTs, ReadMarkBegin, WaitForMark, WaitCancelled,
       BoundPassed, LogicalPassed, DoneCommit, Discard, Stamp, Goto, Labels
<1>4. CASE UpdateWindow \/ WindowProposed \/ WindowFailed
  <2>1. \E label \in Labels : /\ pc' = [pc EXCEPT ![Updater] = label] /\ label \notin Writing
    BY Zenon, <1>4 DEF UpdateWindow, WindowProposed, WindowFailed, Goto, Labels
  <2> QED BY Zenon, <1>2, <2>1 DEF Procs
<1>5. CASE Tick \/ StepBack \/ UNCHANGED vars
  BY Zenon, <1>1, <1>5 DEF Tick, StepBack, vars, procVars
<1> QED BY Zenon, <1>2, <1>3, <1>4, <1>5 DEF Next

\* The initial state is well typed and its marks agree with the processes.
LEMMA BaseInit ==
  ASSUME Init
  PROVE  Base
<1>1. PICK t \in StartTimes : now = t /\ current = Incr(Reset(t)) /\ saved = t + Window
  BY Zenon DEF Init
<1>2. /\ current = [physical |-> t, logical |-> 1] /\ t \in Nat
      /\ current \in [physical : Nat, logical : Nat]
      /\ current \in [physical : Nat, logical : 0 .. MaxLogical + 1]
  BY <1>1, ConstantsAssumption DEF Incr, Reset
<1>3. IsMark(readMark) /\ Ordered(readMark) /\ IsMark(txnMark) /\ Ordered(txnMark)
  BY Zenon, <1>2, ComposeNat, MarkAtIsMark DEF Init
<1>4. TypeData
  BY <1>1, <1>2, ConstantsAssumption DEF Init, TypeData, Labels, Op
<1>5. OneWriter
  BY Zenon DEF Init, OneWriter
<1> QED BY Zenon, <1>3, <1>4, <1>5 DEF Base, TypeOK

\* Every step keeps the types and the marks.
LEMMA BaseStep ==
  ASSUME Base, [Next]_vars
  PROVE  Base'
<1>1. IsMark(readMark') /\ Ordered(readMark') /\ OneWriter'
  BY Zenon, ReadMarkStep, OneWriterStep
<1>2. TypeData' /\ IsMark(txnMark') /\ Ordered(txnMark')
  <2> USE DEF Base, TypeOK, TypeData
  <2>1. CASE \E p \in Procs : Step(p)
    BY Zenon, <2>1, TypeStep
  <2>2. CASE UpdateWindow
    <3>1. /\ upperBound' = current.physical + Window
          /\ pc' = [pc EXCEPT ![Updater] = "begin"]
          /\ UNCHANGED <<clockVars, markVars, readTs, ops, commitTs, history>>
      BY Zenon, <2>2 DEF UpdateWindow, Goto
    <3>2. upperBound' \in Nat
      BY <3>1, ConstantsAssumption
    <3> QED BY Zenon, <3>1, <3>2 DEF Labels, clockVars, markVars
  <2>3. CASE WindowProposed
    BY Zenon, <2>3 DEF WindowProposed, Goto, Labels, clockVars, markVars
  <2>4. CASE WindowFailed
    BY Zenon, <2>4 DEF WindowFailed, Goto, Labels, clockVars, markVars
  <2>5. CASE Tick
    BY <2>5 DEF Tick, clockVars, markVars, procVars
  <2>6. CASE StepBack
    BY <2>6 DEF StepBack, clockVars, markVars, procVars
  <2>7. CASE UNCHANGED vars
    BY Zenon, <2>7 DEF vars, clockVars, markVars, procVars
  <2> QED BY Zenon, <2>1, <2>2, <2>3, <2>4, <2>5, <2>6, <2>7 DEF Next
<1> QED BY Zenon, <1>1, <1>2 DEF Base, TypeOK

\* Every state of the oracle has its type: in particular the logical counter
\* never passes MAX_LOGICAL + 1, so that the one-bit carry of Compose is all that
\* an overflow can do, and two goroutines never hold writeChLock.
THEOREM TypeCorrect == Spec => []TypeOK
<1>1. Init => Base
  BY Zenon, BaseInit
<1>2. Base /\ [Next]_vars => Base'
  BY Zenon, BaseStep
<1>3. Base => TypeOK
  BY Zenon DEF Base
<1> QED BY <1>1, <1>2, <1>3, PTL DEF Spec

-----------------------------------------------------------------------------
(* cleanupCommittedTransactions. *)

\* What cleanup keeps.
LEMMA CleanupKeeps ==
  ASSUME Base, NEW i \in Nat, NEW c \in committedTxns, c.ts > i
  PROVE  c \in Cleanup(i)
BY Zenon DEF Cleanup

\* A commit joins both history and committedTxns.
LEMMA StampHistory ==
  ASSUME NEW p, NEW from, NEW kept, NEW op, Stamp(p, from, kept, op),
         NEW h \in history' \ history
  PROVE  /\ h = [ts |-> Compose(current'), logical |-> current'.logical, readTs |-> readTs[p],
                 reads |-> op.reads, conflictKeys |-> op.conflictKeys]
         /\ [ts |-> h.ts, conflictKeys |-> h.conflictKeys] \in committedTxns'
BY DEF Stamp

\* A commit record leaves committedTxns only once readMark is past its timestamp.
LEMMA RetainedStep ==
  ASSUME Base, CommitsRetained, [Next]_vars
  PROVE  CommitsRetained'
<1> SUFFICES ASSUME NEW h \in history', h.ts > readMark'.doneUntil
             PROVE  [ts |-> h.ts, conflictKeys |-> h.conflictKeys] \in committedTxns'
  BY Zenon DEF CommitsRetained
<1> DEFINE c == [ts |-> h.ts, conflictKeys |-> h.conflictKeys]
<1>1. readMark.doneUntil \in Nat /\ readMark'.doneUntil \in Nat
      /\ readMark.doneUntil <= readMark'.doneUntil
  BY Zenon, ReadMarkStep DEF Base, TypeOK, IsMark
<1>2. ASSUME h \in history PROVE c \in committedTxns
  <2>1. h.ts \in Nat
    BY Zenon, <1>2 DEF Base, TypeOK, TypeData, CommitRecord
  <2> QED BY <1>1, <1>2, <2>1 DEF CommitsRetained
<1>3. CASE UNCHANGED <<history, committedTxns>>
  BY Zenon, <1>2, <1>3
<1>4. ASSUME NEW p \in Procs, NEW op \in Ops(p), Commit(p, op)
      PROVE  c \in committedTxns'
  <2>1. readMark' = DoneRead(readTs[p])
    BY Zenon, <1>4 DEF Commit
  <2>2. h \in history => c \in Cleanup(readMark'.doneUntil)
    BY Zenon, <1>1, <1>2, CleanupKeeps
  <2>3. CASE UNCHANGED history
    <3>1. committedTxns' = Cleanup(readMark'.doneUntil) \/
          Cleanup(readMark'.doneUntil) \subseteq committedTxns'
      BY Zenon, <1>4, <2>1 DEF Commit, Stamp
    <3> QED BY Zenon, <2>2, <2>3, <3>1
  <2>4. CASE Stamp(p, Advanced, Cleanup(readMark'.doneUntil), op)
    <3>1. Cleanup(readMark'.doneUntil) \subseteq committedTxns'
      BY Zenon, <2>4 DEF Stamp
    <3> QED BY Zenon, <2>2, <2>4, <3>1, StampHistory
  <2> QED BY Zenon, <1>4, <2>1, <2>3, <2>4 DEF Commit
<1>5. ASSUME NEW p \in Procs, BoundPassed(p) \/ LogicalPassed(p)
      PROVE  c \in committedTxns'
  <2>1. Stamp(p, Reset(now), committedTxns, ops[p])
    BY Zenon, <1>5 DEF BoundPassed, LogicalPassed
  <2>2. committedTxns \subseteq committedTxns'
    BY Zenon, <2>1 DEF Stamp
  <2> QED BY Zenon, <1>2, <2>1, <2>2, StampHistory
<1>6. ASSUME NEW p \in Procs, Step(p)
      PROVE  c \in committedTxns'
  <2>1. CASE \E op \in Ops(p) : CommitConflict(p, op)
    BY Zenon, <1>3, <2>1 DEF CommitConflict, markVars
  <2> QED BY Zenon, <1>3, <1>4, <1>5, <1>6, <2>1 DEF Step, ReadTs, ReadMarkBegin, WaitForMark,
       WaitCancelled, DoneCommit, Discard, markVars
<1>7. CASE UpdateWindow \/ WindowProposed \/ WindowFailed \/ Tick \/ StepBack \/ UNCHANGED vars
  BY Zenon, <1>3, <1>7 DEF UpdateWindow, WindowProposed, WindowFailed, Tick, StepBack, vars, markVars
<1> QED BY Zenon, <1>6, <1>7 DEF Next

\* cleanupCommittedTransactions never forgets a commit above readMark.DoneUntil(),
\* with any clock, with overflowing counters and with any interleaving.
THEOREM Retention == Spec => []CommitsRetained
<1>1. Init => Base /\ CommitsRetained
  BY Zenon, BaseInit DEF Init, CommitsRetained
<1>2. Base /\ CommitsRetained /\ [Next]_vars => (Base /\ CommitsRetained)'
  BY Zenon, BaseStep, RetainedStep
<1> QED BY <1>1, <1>2, PTL DEF Spec

-----------------------------------------------------------------------------
(* The clock and the order of timestamps, when the clock is not set back. *)

\* Ceiling follows the lexicographic order, and Compose never exceeds it.
LEMMA CeilingOrder ==
  ASSUME NEW a \in [physical : Nat, logical : 0 .. MaxLogical + 1],
         NEW b \in [physical : Nat, logical : 0 .. MaxLogical + 1]
  PROVE  /\ Ceiling(a) \in Nat /\ Compose(a) \in Nat
         /\ Compose(a) <= Ceiling(a)
         /\ a.logical <= MaxLogical => Compose(a) = Ceiling(a)
         /\ a.physical < b.physical => Ceiling(a) <= Ceiling(b)
         /\ a.physical < b.physical /\ b.logical > 0 => Ceiling(a) < Ceiling(b)
<1> DEFINE s == MaxLogical + 1
<1>1. s \in Nat /\ MaxLogical \in Nat
  BY ConstantsAssumption
<1>2. \A x, y \in Nat : x * y \in Nat
  OBVIOUS
<1>3. \A x \in Nat : (x + 1) * s = x * s + s
  BY <1>1
<1>4. \A x, y \in Nat : x < y => x * s + s <= y * s
  BY <1>1, <1>2
<1>5. /\ a.physical \in Nat /\ a.logical \in 0 .. MaxLogical + 1
      /\ b.physical \in Nat /\ b.logical \in 0 .. MaxLogical + 1
      /\ a.physical * s \in Nat /\ b.physical * s \in Nat
      /\ a.physical + 1 \in Nat /\ (a.physical + 1) * s \in Nat
  BY <1>1, <1>2
<1>6. Ceiling(a) = a.physical * s + a.logical /\ Ceiling(b) = b.physical * s + b.logical
  BY Zenon DEF Ceiling
<1>7. /\ a.logical <= MaxLogical => Compose(a) = a.physical * s + a.logical
      /\ a.logical > MaxLogical =>
           Compose(a) = (a.physical + 1) * s \/ Compose(a) = a.physical * s
  BY <1>1, <1>5 DEF Compose
<1>8. (a.physical + 1) * s = a.physical * s + s
  BY Zenon, <1>3, <1>5
<1>9. a.physical < b.physical => a.physical * s + s <= b.physical * s
  BY Zenon, <1>4, <1>5
<1> HIDE DEF s
<1>10. a.logical <= s /\ a.logical \in Nat /\ b.logical \in Nat /\ (a.logical > MaxLogical => a.logical = s)
  BY <1>1, <1>5 DEF s
<1> QED BY <1>1, <1>5, <1>6, <1>7, <1>8, <1>9, <1>10

\* What a step does to the clock, to current and to the bound.
LEMMA ClockStep ==
  ASSUME ~ClockStepsBack, Base, ClockInv, [Next]_vars
  PROVE  ClockInv' /\ now <= now' /\ current.physical <= current'.physical
<1>0. /\ now \in Nat /\ saved \in Nat /\ pc \in [Procs -> Labels] /\ OneWriter
      /\ current \in [physical : Nat, logical : 0 .. MaxLogical + 1]
  BY Zenon DEF Base, TypeOK, TypeData
<1>1. ASSUME NEW p \in Procs, NEW label, pc' = [pc EXCEPT ![p] = label], label \notin {"bound", "logical"},
             UNCHANGED <<now, current>>, saved' = saved \/ MuFree
      PROVE  ClockInv' /\ now <= now' /\ current.physical <= current'.physical
  <2>1. \A q \in Procs : pc'[q] \in {"bound", "logical"} => pc[q] = pc'[q] /\ saved' = saved
    BY Zenon, <1>0, <1>1 DEF MuFree
  <2> QED BY <1>0, <1>1, <2>1 DEF ClockInv, ExceedLogicalMax
<1>2. CASE Tick \/ UNCHANGED vars
  BY <1>0, <1>2 DEF Tick, ClockInv, ExceedLogicalMax, vars, clockVars, procVars
<1>3. CASE UpdateWindow \/ WindowProposed \/ WindowFailed
  <2>1. /\ pc' = [pc EXCEPT ![Updater] = "begin"] \/ pc' = [pc EXCEPT ![Updater] = "idle"]
        /\ UNCHANGED <<now, current>> /\ (saved' = saved \/ MuFree)
    BY Zenon, <1>3 DEF UpdateWindow, WindowProposed, WindowFailed, Goto, clockVars
  <2> QED BY <1>1, <2>1 DEF Procs
<1>4. ASSUME NEW p \in Procs, NEW op \in Ops(p), Commit(p, op)
      PROVE  ClockInv' /\ now <= now' /\ current.physical <= current'.physical
  <2>1. /\ Advanced.physical <= now /\ current.physical <= Advanced.physical
        /\ Incr(Advanced).physical = Advanced.physical
    BY <1>0, AdvancedType DEF Advanced, Reset, Incr, ClockInv
  <2>2. /\ UNCHANGED <<now, saved>>
        /\ current' = Advanced \/ current' = Incr(Advanced)
        /\ \/ pc' = [pc EXCEPT ![p] = "bound"] /\ saved <= current'.physical
           \/ pc' = [pc EXCEPT ![p] = "logical"] /\ ExceedLogicalMax(current')
           \/ pc' = [pc EXCEPT ![p] = "stamped"]
    <3>1. Advanced.physical \in Nat
      BY Zenon, AdvancedType
    <3> QED BY Zenon, <1>0, <1>4, <2>1, <3>1 DEF Commit, Stamp, Goto
  <2>3. \A q \in Procs : q # p => pc'[q] \notin {"bound", "logical"}
    BY Zenon, <1>0, <1>4, <2>2 DEF Commit, WriteChFree
  <2>4. current'.physical <= now' /\ now <= now' /\ current.physical <= current'.physical
    BY <1>0, <2>1, <2>2
  <2>5. \A q \in Procs : /\ pc'[q] = "bound" => saved' <= current'.physical
                         /\ pc'[q] = "logical" => ExceedLogicalMax(current')
    BY Zenon, <1>0, <2>2, <2>3
  <2> QED BY Zenon, <2>4, <2>5 DEF ClockInv, ExceedLogicalMax
<1>5. ASSUME NEW p \in Procs, BoundPassed(p) \/ LogicalPassed(p)
      PROVE  ClockInv' /\ now <= now' /\ current.physical <= current'.physical
  <2>1. LogicalPassed(p)
    <3>1. pc[p] = "bound" => saved <= current.physical
      BY Zenon DEF ClockInv
    <3>2. current.physical <= now
      BY Zenon DEF ClockInv
    <3>3. BoundPassed(p) => pc[p] = "bound" /\ now < saved
      BY Zenon DEF BoundPassed
    <3> QED BY <1>0, <1>5, <3>1, <3>2, <3>3
  <2>2. /\ current' = Incr(Reset(now)) /\ now > current.physical /\ UNCHANGED <<now, saved>>
        /\ pc' = [pc EXCEPT ![p] = "stamped"] /\ pc[p] = "logical"
    BY Zenon, <2>1 DEF LogicalPassed, Stamp, Goto
  <2>3. current'.physical = now
    BY Zenon, <2>2 DEF Incr, Reset
  <2>4. \A q \in Procs : pc'[q] \notin {"bound", "logical"}
    BY Zenon, <1>0, <2>2 DEF OneWriter
  <2> QED BY <1>0, <2>2, <2>3, <2>4 DEF ClockInv
<1>6. ASSUME NEW p \in Procs, Step(p)
      PROVE  ClockInv' /\ now <= now' /\ current.physical <= current'.physical
  <2>1. CASE \E op \in Ops(p) : CommitConflict(p, op)
    <3>1. pc' = [pc EXCEPT ![p] = "aborting"] /\ UNCHANGED <<now, current, saved>>
      BY Zenon, <2>1 DEF CommitConflict, Goto, clockVars
    <3> QED BY Zenon, <1>1, <3>1
  <2>2. CASE ReadTs(p) \/ ReadMarkBegin(p) \/ WaitForMark(p) \/ WaitCancelled(p) \/ DoneCommit(p) \/ Discard(p)
    <3>1. /\ \E label \in Labels : pc' = [pc EXCEPT ![p] = label] /\ label \notin {"bound", "logical"}
          /\ UNCHANGED <<now, current, saved>>
      BY Zenon, <2>2 DEF ReadTs, ReadMarkBegin, WaitForMark, WaitCancelled, DoneCommit, Discard,
                  Goto, clockVars, Labels
    <3> QED BY ZenonT(60), <1>1, <3>1
  <2> QED BY Zenon, <1>4, <1>5, <1>6, <2>1, <2>2 DEF Step
<1> QED BY Zenon, <1>2, <1>3, <1>6 DEF Next, StepBack

\* p is given the commit timestamp Compose(current'), which is new.
Issues(p, op) ==
  /\ \/ pc[p] = "open" /\ WriteChFree /\ ~HasConflict(readTs[p], op.reads)
     \/ pc[p] = "logical"
  /\ pc' = [pc EXCEPT ![p] = "stamped"]
  /\ commitTs' = [commitTs EXCEPT ![p] = Compose(current')]
  /\ txnMark' = Begin(txnMark, Compose(current'))
  /\ history' = history \cup
       {[ts |-> Compose(current'), logical |-> current'.logical, readTs |-> readTs[p],
         reads |-> op.reads, conflictKeys |-> op.conflictKeys]}
  /\ readTs' = readTs /\ readers' \subseteq readers
  /\ current'.logical > 0
  /\ Ceiling(current) < Ceiling(current')

\* A timestamp allocated after step 1 or after a spin is above current.
LEMMA IncrAbove ==
  ASSUME Base, NEW from \in [physical : Nat, logical : 0 .. MaxLogical],
         from = current \/ (from = Reset(now) /\ current.physical < now),
         current' = Incr(from)
  PROVE  Ceiling(current) < Ceiling(current') /\ current'.logical > 0
<1>0. /\ now \in Nat /\ current \in [physical : Nat, logical : 0 .. MaxLogical + 1]
      /\ Reset(now) = [physical |-> now, logical |-> 0]
      /\ Ceiling(current) \in Nat
  BY Zenon, CeilingOrder DEF Base, TypeOK, TypeData, Reset
<1>1. /\ current'.physical = from.physical /\ current'.logical = from.logical + 1
      /\ current' \in [physical : Nat, logical : 0 .. MaxLogical + 1]
  BY ConstantsAssumption DEF Incr
<1>2. CASE from = current
  <2>1. current.physical * (MaxLogical + 1) \in Nat /\ current.logical \in Nat
    BY <1>0, ConstantsAssumption
  <2>2. Ceiling(current') = Ceiling(current) + 1
    BY <1>1, <1>2, <2>1 DEF Ceiling
  <2> QED BY <1>0, <1>1, <2>2
<1>3. CASE from = Reset(now) /\ current.physical < now
  <2>1. current.physical < current'.physical /\ current'.logical > 0
    BY <1>0, <1>1, <1>3
  <2> QED BY Zenon, <1>0, <1>1, <2>1, CeilingOrder
<1> QED BY Zenon, <1>2, <1>3

\* Commit either starts to spin or issues a timestamp.
LEMMA CommitIssues ==
  ASSUME Base, NEW p \in Procs, NEW op \in Ops(p), Commit(p, op)
  PROVE  \/ /\ UNCHANGED <<history, commitTs, txnMark>> /\ current' = Advanced
            /\ \E label \in {"bound", "logical"} : pc' = [pc EXCEPT ![p] = label]
            /\ Ceiling(current) <= Ceiling(current')
         \/ op \in Op /\ Issues(p, op)
<1>0. /\ now \in Nat /\ current \in [physical : Nat, logical : 0 .. MaxLogical + 1]
      /\ Reset(now) \in [physical : Nat, logical : 0 .. MaxLogical + 1]
      /\ Reset(now) = [physical |-> now, logical |-> 0]
      /\ Ceiling(current) \in Nat
  BY AdvancedType, CeilingOrder, ConstantsAssumption DEF Base, TypeOK, TypeData, Reset
<1>1. Advanced = current \/ (Advanced = Reset(now) /\ current.physical < now)
  BY Zenon, <1>0 DEF Advanced
<1>2. CASE /\ current' = Advanced /\ UNCHANGED <<history, commitTs, txnMark>>
           /\ \E label \in {"bound", "logical"} : pc' = [pc EXCEPT ![p] = label]
  <2>1. Ceiling(current) <= Ceiling(Advanced)
    BY <1>0, <1>1, CeilingOrder
  <2>2. Ceiling(current') = Ceiling(Advanced)
    BY Zenon, <1>2 DEF Ceiling
  <2> QED BY Zenon, <1>2, <2>1, <2>2
<1>3. ASSUME NEW kept, Stamp(p, Advanced, kept, op), ~ExceedLogicalMax(Advanced)
      PROVE  op \in Op /\ Issues(p, op)
  <2>1. Ceiling(current) < Ceiling(current') /\ current'.logical > 0
    BY Zenon, <1>1, <1>3, AdvancedType, IncrAbove DEF Stamp
  <2>2. pc[p] = "open" /\ WriteChFree /\ ~HasConflict(readTs[p], op.reads)
        /\ readTs' = readTs /\ readers' \subseteq readers
    BY Zenon DEF Commit
  <2> QED BY Zenon, <1>3, <2>1, <2>2, OpsType DEF Stamp, Goto, Issues
<1> QED BY Zenon, <1>2, <1>3 DEF Commit, Goto

\* Every step either issues nothing and does not lower current, or issues a
\* commit timestamp above everything that current stood for.
LEMMA IssueStep ==
  ASSUME ~ClockStepsBack, Base, ClockInv, [Next]_vars
  PROVE  \/ /\ UNCHANGED <<history, commitTs>>
            /\ current' = current \/ current' = Advanced
            /\ Ceiling(current) <= Ceiling(current')
         \/ \E p \in Procs, op \in Op : Issues(p, op)
<1>0. /\ now \in Nat /\ current \in [physical : Nat, logical : 0 .. MaxLogical + 1]
      /\ Ceiling(current) \in Nat
  BY Zenon, CeilingOrder DEF Base, TypeOK, TypeData
<1>1. CASE UNCHANGED <<history, commitTs, current>>
  <2>1. Ceiling(current) <= Ceiling(current)
    BY <1>0
  <2> QED BY ZenonT(60), <1>1, <2>1
<1>4. ASSUME NEW p \in Procs, BoundPassed(p) \/ LogicalPassed(p)
      PROVE  ops[p] \in Op /\ Issues(p, ops[p])
  <2>1. LogicalPassed(p) /\ ops[p] \in Op
    BY <1>0, <1>4 DEF BoundPassed, ClockInv, Base, TypeOK, TypeData
  <2>2. /\ pc[p] = "logical" /\ now > current.physical
        /\ Stamp(p, Reset(now), committedTxns, ops[p]) /\ UNCHANGED <<readTs, readers>>
    BY Zenon, <2>1 DEF LogicalPassed
  <2>3. Ceiling(current) < Ceiling(current') /\ current'.logical > 0
    BY Zenon, <1>0, <2>2, AdvancedType, IncrAbove DEF Stamp
  <2> QED BY Zenon, <2>1, <2>2, <2>3 DEF Stamp, Goto, Issues
<1>5. ASSUME NEW p \in Procs, Step(p)
      PROVE  \/ UNCHANGED <<history, commitTs, current>>
             \/ \E op \in Ops(p) : Commit(p, op)
             \/ BoundPassed(p) \/ LogicalPassed(p)
  BY Zenon, <1>5 DEF Step, ReadTs, ReadMarkBegin, WaitForMark, WaitCancelled, CommitConflict,
              DoneCommit, Discard, clockVars
<1>6. CASE UpdateWindow \/ WindowProposed \/ WindowFailed \/ Tick \/ StepBack \/ UNCHANGED vars
  BY Zenon, <1>1, <1>6 DEF UpdateWindow, WindowProposed, WindowFailed, Tick, StepBack,
                    vars, clockVars, procVars
<1> QED BY Zenon, <1>1, <1>4, <1>5, <1>6, CommitIssues DEF Next

\* A read timestamp changes only in ReadTs, and then to Compose(current).
LEMMA ReadTsStep ==
  ASSUME Base, [Next]_vars
  PROVE  readTs' = readTs \/ \E p \in Procs : ReadTs(p)
<1>1. ASSUME NEW p \in Procs, Step(p) PROVE readTs' = readTs \/ ReadTs(p)
  BY ZenonT(60), <1>1 DEF Step, ReadMarkBegin, WaitForMark, WaitCancelled, CommitConflict, Commit,
              BoundPassed, LogicalPassed, DoneCommit, Discard
<1>2. CASE UpdateWindow \/ WindowProposed \/ WindowFailed \/ Tick \/ StepBack \/ UNCHANGED vars
  BY Zenon, <1>2 DEF UpdateWindow, WindowProposed, WindowFailed, Tick, StepBack, vars, procVars
<1> QED BY Zenon, <1>1, <1>2 DEF Next

\* No timestamp issued so far, to a reader or a commit, exceeds the clock.
LEMMA IssuedStep ==
  ASSUME ~ClockStepsBack, Base, ClockInv, IssuedInv, [Next]_vars
  PROVE  IssuedInv'
<1>0. /\ Ceiling(current) \in Nat /\ Ceiling(current') \in Nat
      /\ Compose(current) \in Nat /\ Compose(current') \in Nat
      /\ Compose(current) <= Ceiling(current) /\ Compose(current') <= Ceiling(current')
  <2>1. /\ current \in [physical : Nat, logical : 0 .. MaxLogical + 1]
        /\ current' \in [physical : Nat, logical : 0 .. MaxLogical + 1]
    BY Zenon, BaseStep DEF Base, TypeOK, TypeData
  <2> QED BY Zenon, <2>1, CeilingOrder
<1>a. ASSUME NEW p \in Procs, NEW op \in Op, Issues(p, op)
      PROVE  /\ Ceiling(current) < Ceiling(current')
             /\ \A h \in history' : h \in history \/ h.ts = Compose(current')
  BY <1>a DEF Issues
<1>1. Ceiling(current) <= Ceiling(current')
  BY <1>0, <1>a, IssueStep
<1>2. \A h \in history' : h \in history \/ h.ts = Compose(current')
  BY Zenon, <1>a, IssueStep
<1>3. \A h \in history : h.ts \in Nat
  BY Zenon DEF Base, TypeOK, TypeData, CommitRecord
<1>4. \A p \in Procs : readTs'[p] = readTs[p] \/ readTs'[p] = Compose(current)
  BY Zenon, ReadTsStep DEF ReadTs, Base, TypeOK, TypeData
<1>5. \A p \in Procs : readTs[p] \in Nat
  BY Zenon DEF Base, TypeOK, TypeData
<1>6. \A h \in history' : h.ts <= Ceiling(current')
  <2>1. ASSUME NEW h \in history' PROVE h.ts <= Ceiling(current')
    <3>1. CASE h \in history
      <4>1. h.ts \in Nat /\ h.ts <= Ceiling(current)
        BY Zenon, <1>3, <3>1 DEF IssuedInv
      <4> QED BY <1>0, <1>1, <4>1
    <3>2. CASE h.ts = Compose(current')
      BY Zenon, <1>0, <3>2
    <3> QED BY Zenon, <1>2, <3>1, <3>2
  <2> QED BY Zenon, <2>1
<1>7. \A p \in Procs : readTs'[p] <= Ceiling(current')
  BY <1>0, <1>1, <1>4, <1>5 DEF IssuedInv
<1> QED BY Zenon, <1>6, <1>7 DEF IssuedInv, Ceiling

\* The initial state has issued nothing.
LEMMA OrderingInit ==
  ASSUME Init
  PROVE  Ordering
<1>1. Base /\ CommitsRetained
  BY Zenon, BaseInit DEF Init, CommitsRetained
<1>2. PICK t \in StartTimes : now = t /\ current = Incr(Reset(t)) /\ saved = t + Window
  BY DEF Init
<1>3. current = [physical |-> t, logical |-> 1] /\ t \in Nat
  BY <1>2, ConstantsAssumption DEF Incr, Reset
<1>4. ClockInv
  BY <1>2, <1>3 DEF Init, ClockInv
<1>5. Ceiling(current) \in Nat
  BY Zenon, <1>1, CeilingOrder DEF Base, TypeOK, TypeData
<1>6. history = {} /\ \A p \in Procs : readTs[p] = 0
  BY Zenon DEF Init
<1>7. IssuedInv
  BY <1>5, <1>6 DEF IssuedInv
<1> QED BY Zenon, <1>1, <1>4, <1>7 DEF Ordering

\* Every step keeps the order of the timestamps.
LEMMA OrderingStep ==
  ASSUME ~ClockStepsBack, Ordering, [Next]_vars
  PROVE  Ordering'
BY Zenon, BaseStep, RetainedStep, ClockStep, IssuedStep DEF Ordering

\* Unless the clock is set back, a commit timestamp is above every timestamp
\* handed out before it, as long as the logical counter fits its bits.
THEOREM Monotonic ==
  ASSUME ~ClockStepsBack
  PROVE  Spec => TimestampsIncrease
<1> DEFINE Increase ==
      \A p \in Procs :
        commitTs'[p] # commitTs[p] /\ current'.logical <= MaxLogical =>
          /\ \A h \in history : h.ts < commitTs'[p]
          /\ \A q \in Procs : readTs[q] < commitTs'[p]
<1>1. Init => Ordering
  BY Zenon, OrderingInit
<1>2. Ordering /\ [Next]_vars => Ordering'
  BY Zenon, OrderingStep
<1>3. Ordering /\ [Next]_vars => [Increase]_vars
  <2> SUFFICES ASSUME Ordering, [Next]_vars, NEW p \in Procs,
                      commitTs'[p] # commitTs[p], current'.logical <= MaxLogical
               PROVE  /\ \A h \in history : h.ts < commitTs'[p]
                      /\ \A q \in Procs : readTs[q] < commitTs'[p]
    BY Zenon
  <2>1. /\ Ceiling(current) \in Nat /\ Ceiling(current') \in Nat
        /\ Compose(current') = Ceiling(current')
    BY Zenon, OrderingStep, CeilingOrder DEF Ordering, Base, TypeOK, TypeData
  <2>2. PICK r \in Procs, op \in Op : Issues(r, op)
    BY Zenon, IssueStep DEF Ordering
  <2>3. commitTs'[p] = Ceiling(current') /\ Ceiling(current) < Ceiling(current')
    BY Zenon, <2>1, <2>2 DEF Issues, Ordering, Base, TypeOK, TypeData
  <2>4. \A h \in history : h.ts \in Nat /\ h.ts <= Ceiling(current)
    BY Zenon DEF Ordering, IssuedInv, Base, TypeOK, TypeData, CommitRecord
  <2>5. \A q \in Procs : readTs[q] \in Nat /\ readTs[q] <= Ceiling(current)
    BY Zenon DEF Ordering, IssuedInv, Base, TypeOK, TypeData
  <2> QED BY <2>1, <2>3, <2>4, <2>5
<1> QED BY <1>1, <1>2, <1>3, PTL DEF Spec, TimestampsIncrease
=============================================================================
