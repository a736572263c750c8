-------------------------------- MODULE TSO --------------------------------
(***************************************************************************)
(* The timestamp oracle of tso.go and the life of the transactions of      *)
(* txn.go that use it, during one leadership term: every state after       *)
(* StartServing has returned and before Close.                             *)
(*                                                                         *)
(* A process is a goroutine running one transaction: the clients of        *)
(* NewTransaction, and the goroutine of windowUpdator, whose UpdateWindow  *)
(* is itself a transaction.  One action is what a goroutine does without   *)
(* giving another one the chance to run: a section under tso.mu, or a call *)
(* on a watermark.                                                         *)
(*                                                                         *)
(*   pc         where the goroutine is                                     *)
(*   begin      in ReadTs, before tso.mu                                   *)
(*   assigned   ReadTs has released tso.mu, readMark.Begin not yet called  *)
(*   parked     in txnMark.WaitForMark                                     *)
(*   open       BeginTxn has returned, performOps runs                     *)
(*   bound      in allocate, step 2: spinning for the window, holds tso.mu *)
(*   logical    in allocate, step 3: spinning for the clock, holds tso.mu  *)
(*   stamped    newCommitTs has returned, DoneCommit not yet called        *)
(*   discarding Commit has a timestamp, its deferred Discard is left       *)
(*   aborting   Commit met a conflict, its deferred Discard is left        *)
(*   proposing  (window updater) the new bound is being proposed           *)
(*   idle       (window updater) waiting for the ticker                    *)
(*   done       the transaction is over                                    *)
(***************************************************************************)
EXTENDS WaterMark, Timestamps

CONSTANTS
  Clients,        \* goroutines that run a client's transaction
  Updater,        \* the goroutine of windowUpdator
  Keys,           \* the keys clients read and write
  PersistentKey,  \* the key "_tso_last_timestamp"
  Window,         \* defaultUpperBoundWindow, in milliseconds of the clock
  StartTimes,     \* what the clock may show when StartServing sets current
  MaxTime,        \* bound: the clock stops here
  MaxUpdates,     \* bound: how often UpdateWindow may commit a new bound
  ClockStepsBack  \* whether the wall clock may be set back

ASSUME ConstantsAssumption ==
  /\ Updater \notin Clients /\ IsFiniteSet(Clients)
  /\ PersistentKey \notin Keys
  /\ MaxLogical \in Nat \ {0}
  /\ Window \in Nat \ {0}
  /\ StartTimes \subseteq Nat
  /\ MaxTime \in Nat /\ MaxUpdates \in Nat
  /\ ClockStepsBack \in BOOLEAN

Procs == Clients \cup {Updater}

VARIABLES
  now,            \* time.Now().UnixMilli()
  current,        \* tso.current
  saved,          \* tso.saved.physical (its logical part is always 0)
  readers,        \* tso.readers
  readMark,       \* tso.readMark
  txnMark,        \* tso.txnMark
  committedTxns,  \* tso.committedTxns
  lastCleanupTs,  \* tso.lastCleanupTs
  pc,             \* where each goroutine is
  readTs,         \* txn.readTs
  ops,            \* txn.reads and txn.conflictKeys at Commit
  commitTs,       \* txn.commitTs, 0 before it is assigned
  upperBound,     \* UpdateWindow's local upperBound
  history         \* every commit timestamp issued and what it was issued for

clockVars == <<now, current, saved>>
markVars  == <<readers, readMark, txnMark, committedTxns, lastCleanupTs>>
procVars  == <<pc, readTs, ops, commitTs, upperBound>>
vars      == <<clockVars, markVars, procVars, history>>

-----------------------------------------------------------------------------
(* Locks.  tso.mu is held between actions only by a goroutine that spins in *)
(* allocate; writeChLock is held from there until DoneCommit.               *)

MuFree == \A p \in Procs : pc[p] \notin {"bound", "logical"}
WriteChFree == \A p \in Procs : pc[p] \notin {"bound", "logical", "stamped"}

Goto(p, label) == pc' = [pc EXCEPT ![p] = label]

-----------------------------------------------------------------------------
(* ReadTs *)

\* ReadTs under tso.mu: take the current timestamp and register the reader.
ReadTs(p) ==
  LET ts == Compose(current)
  IN  /\ pc[p] = "begin" /\ MuFree
      /\ readTs' = [readTs EXCEPT ![p] = ts]
      /\ readers' = readers \cup {ts}
      /\ Goto(p, "assigned")
      /\ UNCHANGED <<clockVars, readMark, txnMark, committedTxns, lastCleanupTs,
                     ops, commitTs, upperBound, history>>

\* A mutant: the transaction is opened without waiting for the commits before it.
ReadMarkBeginOnly(p) ==
  /\ pc[p] = "assigned"
  /\ readMark' = Begin(readMark, readTs[p])
  /\ Goto(p, "open")
  /\ UNCHANGED <<clockVars, readers, txnMark, committedTxns, lastCleanupTs,
                 readTs, ops, commitTs, upperBound, history>>

\* ReadTs after tso.mu: readMark.Begin, and WaitForMark's immediate return when
\* every commit up to readTs is done.
ReadMarkBegin(p) ==
  /\ pc[p] = "assigned"
  /\ readMark' = Begin(readMark, readTs[p])
  /\ Goto(p, IF txnMark.doneUntil >= readTs[p] THEN "open" ELSE "parked")
  /\ UNCHANGED <<clockVars, readers, txnMark, committedTxns, lastCleanupTs,
                 readTs, ops, commitTs, upperBound, history>>

\* WaitForMark's waiter is released.
WaitForMark(p) ==
  /\ pc[p] = "parked" /\ txnMark.doneUntil >= readTs[p]
  /\ Goto(p, "open")
  /\ UNCHANGED <<clockVars, markVars, readTs, ops, commitTs, upperBound, history>>

\* The context ends first: readMark.Done, and the reader stays registered.
WaitCancelled(p) ==
  /\ pc[p] = "parked"
  /\ readMark' = Done(readMark, readTs[p])
  /\ Goto(p, IF p = Updater THEN "idle" ELSE "done")
  /\ UNCHANGED <<clockVars, readers, txnMark, committedTxns, lastCleanupTs,
                 readTs, ops, commitTs, upperBound, history>>

-----------------------------------------------------------------------------
(* newCommitTs, in the order of its steps under tso.mu *)

\* hasConflict: a commit after ts wrote a key of reads.
HasConflict(ts, reads) ==
  \E c \in committedTxns : c.ts > ts /\ c.conflictKeys \cap reads # {}

\* readMark after doneRead(ts), which also deletes ts from readers.  (Unchecked is a
\* mutant: Done is called whether or not ts is registered.)
DoneReadUnchecked(ts) == Done(readMark, ts)
DoneRead(ts) == IF ts \in readers THEN Done(readMark, ts) ELSE readMark

\* committedTxns after cleanupCommittedTransactions, doneUntil being what
\* readMark.DoneUntil() returned.  (CleanupToNewest is a mutant: it cleans up to the
\* newest reader instead of the oldest.)
CleanupToNewest(doneUntil) ==
  {c \in committedTxns : c.ts > Max(readers \cup {doneUntil})}
Cleanup(doneUntil) ==
  IF doneUntil = lastCleanupTs THEN committedTxns
  ELSE {c \in committedTxns : c.ts > doneUntil}

\* allocate, step 1: follow the clock.  (AdvancedAgain is a mutant: it also resets
\* the counter within the same millisecond.)
AdvancedAgain == IF now >= current.physical THEN Reset(now) ELSE current
Advanced == IF now > current.physical THEN Reset(now) ELSE current

\* allocate, step 4, and the rest of newCommitTs: p gets the timestamp after
\* from, and the commit joins the retained ones.
Stamp(p, from, retained, op) ==
  LET ts == Incr(from)
  IN  /\ current' = ts
      /\ commitTs' = [commitTs EXCEPT ![p] = Compose(ts)]
      /\ txnMark' = Begin(txnMark, Compose(ts))
      /\ committedTxns' = retained \cup
           {[ts |-> Compose(ts), conflictKeys |-> op.conflictKeys]}
      /\ history' = history \cup
           {[ts |-> Compose(ts), logical |-> ts.logical,
             readTs |-> readTs[p], reads |-> op.reads,
             conflictKeys |-> op.conflictKeys]}
      /\ Goto(p, "stamped")

\* What a transaction has read and written when it calls Commit.
Ops(p) == IF p = Updater THEN {[reads |-> {}, conflictKeys |-> {PersistentKey}]}
          ELSE [reads : SUBSET Keys, conflictKeys : SUBSET Keys]

\* Commit meets a conflict and returns ErrConflict.  (Late is a mutant: the conflict
\* is looked for after allocate.)
CommitConflictLate(p, op) ==
  /\ pc[p] = "open" /\ WriteChFree
  /\ HasConflict(readTs[p], op.reads)
  /\ ops' = [ops EXCEPT ![p] = op]
  /\ current' = Incr(Advanced)
  /\ Goto(p, "aborting")
  /\ UNCHANGED <<now, saved, markVars, readTs, commitTs, upperBound, history>>
CommitConflict(p, op) ==
  /\ pc[p] = "open" /\ WriteChFree
  /\ HasConflict(readTs[p], op.reads)
  /\ ops' = [ops EXCEPT ![p] = op]
  /\ Goto(p, "aborting")
  /\ UNCHANGED <<clockVars, markVars, readTs, commitTs, upperBound, history>>

\* Commit without a conflict: doneRead, cleanup, and allocate up to its first
\* spin or to its end.
Commit(p, op) ==
  LET mark == DoneRead(readTs[p])
      kept == Cleanup(mark.doneUntil)
  IN  /\ pc[p] = "open" /\ WriteChFree
      /\ ~HasConflict(readTs[p], op.reads)
      /\ ops' = [ops EXCEPT ![p] = op]
      /\ readMark' = mark
      /\ readers' = readers \ {readTs[p]}
      /\ lastCleanupTs' = mark.doneUntil
      /\ \/ /\ Advanced.physical >= saved
            /\ Goto(p, "bound")
            /\ current' = Advanced /\ committedTxns' = kept
            /\ UNCHANGED <<txnMark, commitTs, history>>
         \/ /\ Advanced.physical < saved /\ ExceedLogicalMax(Advanced)
            /\ Goto(p, "logical")
            /\ current' = Advanced /\ committedTxns' = kept
            /\ UNCHANGED <<txnMark, commitTs, history>>
         \/ /\ Advanced.physical < saved /\ ~ExceedLogicalMax(Advanced)
            /\ Stamp(p, Advanced, kept, op)
      /\ UNCHANGED <<now, saved, readTs, upperBound>>

\* The spin of step 2 ends: the clock is below the persisted bound.
BoundPassed(p) ==
  /\ pc[p] = "bound" /\ now < saved
  /\ Stamp(p, Reset(now), committedTxns, ops[p])
  /\ UNCHANGED <<now, saved, readers, readMark, lastCleanupTs, readTs, ops, upperBound>>

\* The spin of step 3 ends: the clock has moved on.
LogicalPassed(p) ==
  /\ pc[p] = "logical" /\ now > current.physical
  /\ Stamp(p, Reset(now), committedTxns, ops[p])
  /\ UNCHANGED <<now, saved, readers, readMark, lastCleanupTs, readTs, ops, upperBound>>

\* TSO.Commit's deferred DoneCommit; then writeChLock is released.
DoneCommit(p) ==
  /\ pc[p] = "stamped"
  /\ txnMark' = Done(txnMark, commitTs[p])
  /\ Goto(p, "discarding")
  /\ UNCHANGED <<clockVars, readers, readMark, committedTxns, lastCleanupTs,
                 readTs, ops, commitTs, upperBound, history>>

\* Discard: deferred by Commit, or called when a client's performOps fails, its
\* batch is too big or it wrote nothing.
Discard(p) ==
  /\ \/ pc[p] \in {"aborting", "discarding"}
     \/ pc[p] = "open" /\ p # Updater
  /\ MuFree
  /\ readMark' = DoneRead(readTs[p])
  /\ readers' = readers \ {readTs[p]}
  /\ Goto(p, IF p = Updater THEN "proposing" ELSE "done")
  /\ UNCHANGED <<clockVars, txnMark, committedTxns, lastCleanupTs,
                 readTs, ops, commitTs, upperBound, history>>

-----------------------------------------------------------------------------
(* windowUpdator and the clock *)

\* The ticker fires and UpdateWindow finds the bound too close.  (When the bound
\* is still sufficient UpdateWindow returns and nothing changes.)
UpdateWindow ==
  /\ pc[Updater] = "idle" /\ MuFree
  /\ saved = 0 \/ current.physical + Window > saved
  /\ Cardinality({h \in history : PersistentKey \in h.conflictKeys}) < MaxUpdates
  /\ upperBound' = current.physical + Window
  /\ Goto(Updater, "begin")
  /\ UNCHANGED <<clockVars, markVars, readTs, ops, commitTs, history>>

\* proposeAndWait returned: the bound is raised.
WindowProposed ==
  /\ pc[Updater] = "proposing" /\ MuFree
  /\ saved' = upperBound
  /\ Goto(Updater, "idle")
  /\ UNCHANGED <<now, current, markVars, readTs, ops, commitTs, upperBound, history>>

\* proposeAndWait failed: UpdateWindow returns the error, the next tick retries.
WindowFailed ==
  /\ pc[Updater] = "proposing"
  /\ Goto(Updater, "idle")
  /\ UNCHANGED <<clockVars, markVars, readTs, ops, commitTs, upperBound, history>>

Tick ==
  /\ now < MaxTime /\ now' = now + 1
  /\ UNCHANGED <<current, saved, markVars, procVars, history>>

StepBack ==
  /\ ClockStepsBack
  /\ \E t \in 0 .. now - 1 : now' = t
  /\ UNCHANGED <<current, saved, markVars, procVars, history>>

-----------------------------------------------------------------------------
\* What StartServing leaves behind: current is the timestamp its first proposal
\* took, the bound is a window ahead, calibrate has let the clock catch up, and
\* both marks are set to current.
Init ==
  /\ \E t \in StartTimes :
       /\ now = t
       /\ current = Incr(Reset(t))
       /\ saved = t + Window
  /\ readers = {}
  /\ readMark = MarkAt(Compose(current))
  /\ txnMark = MarkAt(Compose(current))
  /\ committedTxns = {} /\ lastCleanupTs = 0
  /\ pc = [p \in Procs |-> IF p = Updater THEN "idle" ELSE "begin"]
  /\ readTs = [p \in Procs |-> 0]
  /\ ops = [p \in Procs |-> [reads |-> {}, conflictKeys |-> {}]]
  /\ commitTs = [p \in Procs |-> 0]
  /\ upperBound = 0
  /\ history = {}

Step(p) ==
  \/ ReadTs(p) \/ ReadMarkBegin(p) \/ WaitForMark(p) \/ WaitCancelled(p)
  \/ \E op \in Ops(p) : CommitConflict(p, op) \/ Commit(p, op)
  \/ BoundPassed(p) \/ LogicalPassed(p) \/ DoneCommit(p) \/ Discard(p)

Next ==
  \/ \E p \in Procs : Step(p)
  \/ UpdateWindow \/ WindowProposed \/ WindowFailed
  \/ Tick \/ StepBack

Spec == Init /\ [][Next]_vars

-----------------------------------------------------------------------------
(* Properties *)

Labels == {"begin", "assigned", "parked", "open", "bound", "logical", "stamped",
           "discarding", "aborting", "proposing", "idle", "done"}

AllKeys == Keys \cup {PersistentKey}
Op      == [reads : SUBSET AllKeys, conflictKeys : SUBSET AllKeys]
CommitRecord == [ts : Nat, logical : Nat,
                 readTs : Nat, reads : SUBSET AllKeys, conflictKeys : SUBSET AllKeys]

TypeData ==
  /\ now \in Nat /\ saved \in Nat /\ lastCleanupTs \in Nat /\ upperBound \in Nat
  /\ current \in [physical : Nat, logical : 0 .. MaxLogical + 1]
  /\ readers \in SUBSET Nat
  /\ committedTxns \in SUBSET [ts : Nat, conflictKeys : SUBSET AllKeys]
  /\ pc \in [Procs -> Labels]
  /\ readTs \in [Procs -> Nat] /\ commitTs \in [Procs -> Nat]
  /\ ops \in [Procs -> Op]
  /\ history \in SUBSET CommitRecord

OneWriter ==
  \A p, q \in Procs :
    {pc[p], pc[q]} \subseteq {"bound", "logical", "stamped"} => p = q

\* Type invariant.  The logical counter stays within one of MAX_LOGICAL, which is
\* what makes the carry case of Compose the only one (tso.go, allocate step 3),
\* and writeChLock has one holder.
TypeOK == TypeData /\ IsMark(readMark) /\ IsMark(txnMark) /\ OneWriter

\* Neither has the process met a watermark's assertion nor has a commit overflowed
\* the logical counter: the two known ways out of the oracle's guarantees.
Healthy ==
  /\ ~readMark.dead /\ ~txnMark.dead
  /\ \A h \in history : h.logical <= MaxLogical

\* cleanupCommittedTransactions never forgets a commit that a reader not yet
\* passed by readMark could conflict with: whatever was committed above
\* readMark.DoneUntil() is still in committedTxns.
CommitsRetained ==
  \A h \in history : h.ts > readMark.doneUntil =>
    [ts |-> h.ts, conflictKeys |-> h.conflictKeys] \in committedTxns

\* readMark does not pass a transaction that holds a read timestamp (its
\* readMark.Begin was accepted and its doneRead has not happened), even though
\* readers is a set and one doneRead ends the registration of every transaction
\* with the same timestamp.
Reading == {p \in Procs : pc[p] \in {"parked", "open", "aborting"}}
ReadersProtected ==
  Healthy => \A p \in Reading : readMark.doneUntil <= readTs[p]

\* Optimistic concurrency control is complete: of two committed transactions, the
\* later never read a key that the earlier wrote between the later one's read and
\* commit timestamps (hasConflict over the commits that cleanup has kept).
NoMissedConflict ==
  Healthy => \A a, b \in history :
    b.readTs < a.ts /\ a.ts < b.ts => a.conflictKeys \cap b.reads = {}

\* A transaction is opened only when no commit timestamp at or below its read
\* timestamp is between newCommitTs and DoneCommit (ReadTs waits on txnMark).
OpenAfterCommits ==
  Healthy => \A p, q \in Procs :
    pc[p] = "open" /\ pc[q] = "stamped" => commitTs[q] > readTs[p]

\* allocate never hands out a commit timestamp at or below an earlier one, or at
\* or below a read timestamp handed out, as long as the logical counter fits its bits.
TimestampsIncrease ==
  [][\A p \in Procs :
       commitTs'[p] # commitTs[p] /\ current'.logical <= MaxLogical =>
         /\ \A h \in history : h.ts < commitTs'[p]
         /\ \A q \in Procs : readTs[q] < commitTs'[p]]_vars

-----------------------------------------------------------------------------
(* What the oracle promises, with everything it does to keep it left out. *)

\* A transaction reads from the moment BeginTxn returns until its commit has a
\* timestamp or it is discarded.
OpenTxns == {[proc |-> p, ts |-> readTs[p]] :
               p \in {q \in Procs : pc[q] \in {"open", "bound", "logical"}}}
Committed == {[ts |-> h.ts, readTs |-> h.readTs, reads |-> h.reads,
               keys |-> h.conflictKeys] : h \in history}

Promise == INSTANCE Oracle WITH
  sound <- Healthy, last <- Compose(current), reading <- OpenTxns, commits <- Committed

\* The oracle implements its abstract specification: through locks, spins,
\* watermarks and cleanup, every step of tso.go and txn.go is one of a transaction
\* opening below all later commits, committing above everything handed out with no
\* key it read overwritten, or ending.
ImplementsOracle == Promise!Spec

-----------------------------------------------------------------------------
(* What a comment of tso.go promises and the code does not keep. *)

\* Goroutines run, the ticker fires and time passes.
Fairness ==
  /\ \A p \in Procs : WF_vars(Step(p))
  /\ WF_vars(UpdateWindow) /\ WF_vars(WindowProposed \/ WindowFailed) /\ WF_vars(Tick)
FairSpec == Spec /\ Fairness

\* tso.go:278 "wait for window to be updated": a commit that waits for the window
\* gets past the wait.
WindowWaitEnds == \A p \in Procs : pc[p] = "bound" ~> pc[p] # "bound"

-----------------------------------------------------------------------------
(* The inductive invariant behind the theorems of TSOProofs. *)

\* The timestamp that allocate would hand out at ts with a wider counter.
Ceiling(ts) == ts.physical * (MaxLogical + 1) + ts.logical

\* The clock is at or past current; whoever spins for the window does so because
\* current reached the bound, whoever spins for the clock because the counter is
\* used up.
ClockInv ==
  /\ current.physical <= now
  /\ \A p \in Procs : /\ pc[p] = "bound" => saved <= current.physical
                      /\ pc[p] = "logical" => ExceedLogicalMax(current)

\* Nothing issued is above current.
IssuedInv ==
  /\ \A h \in history : h.ts <= Ceiling(current)
  /\ \A p \in Procs : readTs[p] <= Ceiling(current)

\* A transaction that has called doneRead cannot find its read timestamp
\* registered again by another one.
PastReadInv ==
  \A p \in Procs :
    /\ pc[p] \in {"bound", "logical", "stamped", "discarding"} =>
         readTs[p] \notin readers
    /\ pc[p] \in {"stamped", "discarding"} => readTs[p] < Ceiling(current)

\* readMark counts at least the transactions that are reading.
Holders(ts) == {p \in Reading : readTs[p] = ts}
CountInv ==
  \A ts \in DOMAIN readMark.pending \cup {readTs[p] : p \in Procs} :
    Count(readMark, ts) >= Cardinality(Holders(ts))

\* txnMark holds exactly the commit that is between newCommitTs and DoneCommit,
\* and a transaction is open only at or below what txnMark has reached.
TxnMarkInv ==
  /\ txnMark.doneUntil <= Ceiling(current)
  /\ \A i \in DOMAIN txnMark.pending :
       \E p \in Procs : pc[p] = "stamped" /\ commitTs[p] = i
  /\ \A p \in Procs : pc[p] = "stamped" =>
       /\ txnMark.doneUntil < commitTs[p]
       /\ commitTs[p] = Ceiling(current)
       /\ Count(txnMark, commitTs[p]) = 1
  /\ \A p \in Procs : pc[p] = "open" => readTs[p] <= txnMark.doneUntil

\* The parts of the invariant: what holds whatever the clock does, what holds when
\* it is never set back, and what holds then as long as the oracle is healthy.
Base       == TypeOK /\ Ordered(readMark) /\ Ordered(txnMark)
Ordering   == Base /\ CommitsRetained /\ ClockInv /\ IssuedInv
Tracking   == Healthy => current.logical <= MaxLogical /\ PastReadInv /\ CountInv
Visibility == Healthy => TxnMarkInv

\* The inductive invariant of the oracle with a clock that is never set back.
IInv == Ordering /\ Tracking /\ Visibility /\ NoMissedConflict
=============================================================================
