---------------------------- MODULE ReadsProofs ----------------------------
(***************************************************************************)
(* What the reads of one node promise, for any number of readers, keys and *)
(* entries: the states in readStatesNotifier are covered and in order, and *)
(* a read that no other overlaps is linearizable.                          *)
(*                                                                         *)
(* The argument follows a read index through its pipeline: noted by the    *)
(* leader (queue), answered (states), in a Ready (rd.states), delivered    *)
(* (channel).  The indexes never decrease along it (OrderInv), and there   *)
(* are no more requests and answers in it than readers still waiting or    *)
(* timed out (CountInv).  A reader that begins alone therefore finds the   *)
(* pipeline empty, and what reaches it was noted after it began (SoloInv). *)
(***************************************************************************)
EXTENDS Reads, FiniteMaximum, FiniteSetTheorems

\* A leaf that names no prover goes to the SMT solver, which has 30 seconds for it.
USE SMTT(30)

\* States in the order of their indexes; all of s before all of t; bounds.
Sorted(s)    == \A i, j \in DOMAIN s : i < j => s[i].index <= s[j].index
Before(s, t) == \A i \in DOMAIN s, j \in DOMAIN t : s[i].index <= t[j].index
UpTo(s, n)   == \A i \in DOMAIN s : s[i].index <= n
From(s, n)   == \A i \in DOMAIN s : n <= s[i].index

\* The types, in three groups: the pipeline, the ready loop, and the readers.
PipeTypes ==
  /\ queue \in Seq(State) /\ states \in Seq(State) /\ channel \in Seq(State)
  /\ Len(channel) <= Cap /\ rd \in [states : Seq(State), hi : 0..MaxIndex]
LoopTypes ==
  /\ commit \in 0..MaxIndex /\ data \in 0..MaxIndex /\ applied \in 0..MaxIndex
  /\ loop \in {"select", "before", "apply", "after", "advance"}
ReaderTypes ==
  /\ sent \subseteq Readers /\ mixed \subseteq Readers
  /\ pc \in [Readers -> {"idle", "wait", "serve", "failed", "done", "scanned"}]
  /\ key \in [Readers -> Keys]
  /\ start \in [Readers -> 0..MaxIndex] /\ got \in [Readers -> 0..MaxIndex]
TypeInv == PipeTypes /\ LoopTypes /\ ReaderTypes

\* Where the ready loop is, against what is applied and committed.
LoopInv ==
  /\ applied <= data /\ applied <= commit
  /\ loop # "apply" => data = applied
  /\ loop \in {"before", "apply"} => data <= rd.hi /\ rd.hi <= commit
  /\ loop = "select" => rd.states = <<>>

OrderInv ==
  /\ Sorted(channel) /\ Sorted(rd.states) /\ Sorted(states) /\ Sorted(queue)
  /\ Before(channel, rd.states) /\ Before(channel, states) /\ Before(channel, queue)
  /\ Before(rd.states, states) /\ Before(rd.states, queue) /\ Before(states, queue)
  /\ UpTo(channel, applied)
  /\ UpTo(rd.states, commit) /\ UpTo(states, commit) /\ UpTo(queue, commit)

\* The readers for which a request or an answer may still be on its way.
Asking == {r \in Readers : pc[r] \in {"wait", "failed"}}

\* How many requests and answers there are in the pipeline.
Sent      == Cardinality(sent)
Queued    == Len(queue)
Answered  == Len(states)
Held      == Len(rd.states)
Delivered == Len(channel)
UnderWayCount == Sent + Queued + Answered + Held + Delivered

CountInv ==
  /\ \A r \in sent : pc[r] # "idle"
  /\ IsFiniteSet(sent) /\ IsFiniteSet(Asking)
  /\ UnderWayCount <= Cardinality(Asking)

\* Everything in the pipeline was noted at n or later.
Noted(n) == From(channel, n) /\ From(rd.states, n) /\ From(states, n) /\ From(queue, n)

SoloInv ==
  \A r \in Readers :
    /\ start[r] <= commit
    /\ r \notin mixed /\ pc[r] = "wait" => Noted(start[r])
    /\ r \notin mixed /\ pc[r] = "serve" => start[r] <= data
    /\ r \notin mixed /\ pc[r] = "done" => start[r] <= got[r]

IInv == TypeInv /\ LoopInv /\ OrderInv /\ CountInv /\ SoloInv

-----------------------------------------------------------------------------
(* Sequences of read states. *)

\* The index of a read state is a number.
LEMMA StateIndex == \A e \in State : e.index \in Nat
BY ReadsAssumption DEF State

\* t is what is left of s after its first n states.
Rest(t, s, n) ==
  /\ t \in Seq(State) /\ n \in 0..Len(s) /\ Len(t) = Len(s) - n
  /\ \A i \in DOMAIN t : i + n \in DOMAIN s /\ t[i] = s[i + n]

\* Tail drops the first state.
LEMMA TailRest ==
  ASSUME NEW s \in Seq(State), s # <<>>
  PROVE  /\ Rest(Tail(s), s, 1) /\ Head(s) = s[1] /\ Head(s) \in State
         /\ 1 \in DOMAIN s /\ Len(s) \in Nat \ {0}
BY DEF Rest

\* respondToReadStates keeps the states after the one it delivers.
LEMMA DropRest ==
  ASSUME NEW s \in Seq(State), NEW m \in DOMAIN s
  PROVE  Rest(SubSeq(s, m + 1, Len(s)), s, m) /\ s[m] \in State
<1>1. m \in 1..Len(s) /\ s[m] \in State
  OBVIOUS
<1>2. /\ SubSeq(s, m + 1, Len(s)) \in Seq(State)
      /\ Len(SubSeq(s, m + 1, Len(s))) = Len(s) - m
      /\ \A i \in 1..Len(s) - m : SubSeq(s, m + 1, Len(s))[i] = s[m + 1 + i - 1]
  BY <1>1
<1>3. \A i \in 1..Len(s) - m : i + m \in 1..Len(s) /\ m + 1 + i - 1 = i + m
  BY <1>1
<1> QED BY <1>1, <1>2, <1>3 DEF Rest

\* What remains is ordered and bounded as the whole was.
LEMMA RestKeeps ==
  ASSUME NEW s \in Seq(State), NEW t, NEW n, Rest(t, s, n)
  PROVE  /\ Sorted(s) => Sorted(t)
         /\ \A u \in Seq(State) : Before(s, u) => Before(t, u)
         /\ \A u \in Seq(State) : Before(u, s) => Before(u, t)
         /\ \A x \in Nat : UpTo(s, x) => UpTo(t, x)
         /\ \A x \in Nat : From(s, x) => From(t, x)
<1>1. n \in Nat /\ DOMAIN t \subseteq Nat /\ \A i \in DOMAIN t : i + n \in DOMAIN s /\ t[i] = s[i + n]
  BY DEF Rest
<1>2. Sorted(s) => Sorted(t)
  BY <1>1 DEF Sorted
<1> QED BY Zenon, <1>1, <1>2 DEF Before, UpTo, From

\* After a state is appended.
LEMMA AppendKeeps ==
  ASSUME NEW s \in Seq(State), NEW e \in State
  PROVE  /\ Append(s, e) \in Seq(State) /\ Len(Append(s, e)) = Len(s) + 1
         /\ Sorted(s) /\ UpTo(s, e.index) => Sorted(Append(s, e))
         /\ \A u \in Seq(State) : Before(s, u) /\ From(u, e.index) => Before(Append(s, e), u)
         /\ \A u \in Seq(State) : Before(u, s) /\ UpTo(u, e.index) => Before(u, Append(s, e))
         /\ \A x \in Nat : UpTo(s, x) /\ e.index <= x => UpTo(Append(s, e), x)
         /\ \A x \in Nat : From(s, x) /\ x <= e.index => From(Append(s, e), x)
<1> DEFINE a == Append(s, e)
<1>1. /\ a \in Seq(State) /\ Len(a) = Len(s) + 1 /\ DOMAIN s = 1..Len(s) /\ Len(s) \in Nat
      /\ DOMAIN a = 1..Len(s) + 1 /\ a[Len(s) + 1] = e
      /\ \A i \in DOMAIN s : a[i] = s[i]
  OBVIOUS
<1>2. \A i \in DOMAIN a : (i \in DOMAIN s /\ a[i] = s[i]) \/ (i = Len(s) + 1 /\ a[i] = e)
  BY <1>1
<1> HIDE DEF a
<1>3. ASSUME Sorted(s), UpTo(s, e.index) PROVE Sorted(a)
  BY <1>1, <1>2, <1>3 DEF Sorted, UpTo
<1>4. ASSUME NEW u \in Seq(State), Before(s, u), From(u, e.index) PROVE Before(a, u)
  BY Zenon, <1>2, <1>4 DEF Before, From
<1>5. ASSUME NEW u \in Seq(State), Before(u, s), UpTo(u, e.index) PROVE Before(u, a)
  BY Zenon, <1>2, <1>5 DEF Before, UpTo
<1>6. ASSUME NEW x \in Nat, UpTo(s, x), e.index <= x PROVE UpTo(a, x)
  BY Zenon, <1>2, <1>6 DEF UpTo
<1>7. ASSUME NEW x \in Nat, From(s, x), x <= e.index PROVE From(a, x)
  BY Zenon, <1>2, <1>7 DEF From
<1> QED BY Zenon, <1>1, <1>3, <1>4, <1>5, <1>6, <1>7 DEF a

\* No states at all are in order and within every bound.
LEMMA NoneKept ==
  /\ <<>> \in Seq(State) /\ Len(<<>>) = 0 /\ Sorted(<<>>)
  /\ \A u : Before(<<>>, u) /\ Before(u, <<>>)
  /\ \A x : UpTo(<<>>, x) /\ From(<<>>, x)
BY DEF Sorted, Before, UpTo, From

\* A bound may be raised.
LEMMA UpToRises ==
  ASSUME NEW s \in Seq(State), NEW m \in Nat, NEW n \in Nat, m <= n, UpTo(s, m)
  PROVE  UpTo(s, n)
<1>1. \A i \in DOMAIN s : s[i].index \in Nat
  BY StateIndex
<1> QED BY <1>1 DEF UpTo

\* The state at i lies between what is before and after its sequence.
LEMMA AtIndex ==
  ASSUME NEW s \in Seq(State), NEW i \in DOMAIN s
  PROVE  /\ s[i] \in State /\ s[i].index \in Nat
         /\ \A u \in Seq(State) : Before(u, s) => UpTo(u, s[i].index)
         /\ \A u \in Seq(State) : Before(s, u) => From(u, s[i].index)
         /\ \A x \in Nat : UpTo(s, x) => s[i].index <= x
         /\ \A x \in Nat : From(s, x) => x <= s[i].index
         /\ \A t : Sorted(s) /\ Rest(t, s, i) => From(t, s[i].index)
<1>1. s[i] \in State /\ s[i].index \in Nat /\ i \in Nat
  BY StateIndex
<1>2. ASSUME NEW t, Sorted(s), Rest(t, s, i) PROVE From(t, s[i].index)
  <2>1. \A j \in DOMAIN t : j \in Nat \ {0} /\ j + i \in DOMAIN s /\ t[j] = s[j + i] /\ i < j + i
    BY <1>1, <1>2 DEF Rest
  <2> QED BY Zenon, <1>2, <2>1 DEF Sorted, From
<1> QED BY Zenon, <1>1, <1>2 DEF Before, UpTo, From

-----------------------------------------------------------------------------
(* The steps of the specification. *)

\* The m-th state of the Ready is sent on readStatesNotifier.
Deliver(m) ==
  /\ rd.states[m].index <= applied /\ Len(channel) < Cap
  /\ channel' = Append(channel, rd.states[m])
  /\ rd' = [rd EXCEPT !.states = SubSeq(rd.states, m + 1, Len(rd.states))]

\* It and those before it leave the Ready.
LEMMA DeliverTo ==
  ASSUME TypeInv, NEW m, Deliver(m)
  PROVE  rd'.states = SubSeq(rd.states, m + 1, Len(rd.states)) /\ rd'.hi = rd.hi
<1>1. \A t : [rd EXCEPT !.states = t].states = t /\ [rd EXCEPT !.states = t].hi = rd.hi
  BY Zenon DEF TypeInv, PipeTypes
<1> QED BY Zenon, <1>1 DEF Deliver

\* respondToReadStates delivers nothing, or one state that is satisfied.
LEMMA Responds ==
  ASSUME TypeInv, NEW next, RespondToReadStates(next)
  PROVE  /\ loop' = next
         /\ UNCHANGED <<channel, rd>> \/ \E m \in DOMAIN rd.states : Deliver(m)
<1>1. CASE Satisfied = {}
  BY Zenon, <1>1 DEF RespondToReadStates
<1>2. CASE Satisfied # {}
  <2>0. rd.states \in Seq(State)
    BY Zenon DEF TypeInv, PipeTypes
  <2>1. Satisfied \in SUBSET (0..Len(rd.states)) /\ Len(rd.states) \in Nat
    BY <2>0 DEF Satisfied
  <2>3. Max(Satisfied) \in Satisfied
    BY Zenon, <1>2, <2>1, MaxOfSome
  <2> DEFINE m == Max(Satisfied)
  <2>4. m \in DOMAIN rd.states /\ rd.states[m].index <= applied
    BY <2>3, Zenon DEF Satisfied
  <2>5. Deliver(m) /\ loop' = next
    BY Zenon, <1>2, <2>4 DEF RespondToReadStates, Deliver
  <2> QED BY Zenon, <2>4, <2>5
<1> QED BY Zenon, <1>1, <1>2

\* The steps that move nothing along the pipeline.
Still == UNCHANGED <<sent, queue, states, rd, channel>>

\* The ways in which requests and answers move.
Moves ==
  \/ Still
  \/ \E r \in Readers : Receive(r) \/ LoseRequest(r) \/ ReadIndex(r) \/ WaitForReadState(r)
  \/ Confirm \/ LoseAnswer \/ Ready \/ Advance
  \/ /\ \E m \in DOMAIN rd.states : Deliver(m)
     /\ UNCHANGED <<raftVars, data, applied, readerVars>>

\* Every step is one of the moves above.
LEMMA Moving ==
  ASSUME TypeInv, [Next]_vars
  PROVE  Moves
<1>1. CASE Commit \/ Confirm \/ LoseAnswer
  BY Zenon, <1>1 DEF Moves, Commit, Still, nodeVars
<1>2. CASE LoopStep
  <2>1. CASE Ready \/ ApplyEntry \/ ApplyDone \/ Advance
    BY Zenon, <2>1 DEF Moves, Still, ApplyEntry, ApplyDone, raftVars
  <2>2. CASE RespondBefore \/ RespondAfter
    <3>1. PICK next : RespondToReadStates(next)
      BY Zenon, <2>2 DEF RespondBefore, RespondAfter
    <3>2. UNCHANGED <<raftVars, data, applied, readerVars>>
      BY Zenon, <2>2 DEF RespondBefore, RespondAfter
    <3>3. UNCHANGED <<channel, rd>> \/ \E m \in DOMAIN rd.states : Deliver(m)
      BY Zenon, <3>1, Responds
    <3> QED BY Zenon, <3>2, <3>3 DEF Moves, Still, raftVars
  <2> QED BY Zenon, <1>2, <2>1, <2>2 DEF LoopStep
<1>3. ASSUME NEW r \in Readers,
             Receive(r) \/ LoseRequest(r) \/ ReadIndex(r) \/ ReaderStep(r)
               \/ ReadTimeout(r) \/ Scan(r)
      PROVE  Moves
  BY Zenon, <1>3 DEF Moves, ReaderStep, Serve, ReadTimeout, Scan, Still, raftVars, nodeVars
<1>4. CASE UNCHANGED vars
  BY Zenon, <1>4 DEF vars, Moves, Still, raftVars, nodeVars
<1> QED BY Zenon, <1>1, <1>2, <1>3, <1>4 DEF Next

-----------------------------------------------------------------------------
(* Each part of the invariant is kept by every step. *)

\* The states in the pipeline have their type, and the channel its capacity.
LEMMA PipeTypeStep ==
  ASSUME TypeInv, [Next]_vars
  PROVE  PipeTypes'
<1>0. /\ queue \in Seq(State) /\ states \in Seq(State) /\ channel \in Seq(State)
      /\ Len(channel) <= Cap /\ rd \in [states : Seq(State), hi : 0..MaxIndex]
      /\ rd.states \in Seq(State) /\ rd.hi \in 0..MaxIndex
      /\ commit \in 0..MaxIndex /\ applied \in 0..MaxIndex
  BY Zenon DEF TypeInv, PipeTypes, LoopTypes
<1>1. CASE Still
  BY <1>0, <1>1, Zenon DEF Still, PipeTypes
<1>2. CASE Confirm \/ LoseAnswer
  <2>1. Head(queue) \in State /\ Tail(queue) \in Seq(State)
    <3>1. queue # <<>>
      BY Zenon, <1>2 DEF Confirm, LoseAnswer
    <3> QED BY <1>0, <3>1, TailRest, Zenon DEF Rest
  <2>2. queue' \in Seq(State) /\ states' \in Seq(State)
    <3>1. Append(states, Head(queue)) \in Seq(State)
      BY <1>0, <2>1, AppendKeeps, Zenon
    <3> QED BY Zenon, <1>0, <1>2, <2>1, <3>1 DEF Confirm, LoseAnswer
  <2>3. UNCHANGED <<channel, rd>>
    BY Zenon, <1>2 DEF Confirm, LoseAnswer, nodeVars
  <2> QED BY <1>0, <2>2, <2>3, Zenon DEF PipeTypes
<1>3. CASE Ready
  <2>1. PICK hi \in applied..commit : rd' = [states |-> states, hi |-> hi]
    BY Zenon, <1>3 DEF Ready
  <2>2. hi \in 0..MaxIndex
    BY <1>0, ReadsAssumption
  <2>3. rd' \in [states : Seq(State), hi : 0..MaxIndex]
    BY Zenon, <1>0, <2>1, <2>2
  <2>4. states' \in Seq(State) /\ UNCHANGED <<queue, channel>>
    BY <1>3 DEF Ready
  <2> QED BY <1>0, <2>3, <2>4, Zenon DEF PipeTypes
<1>4. ASSUME NEW m \in DOMAIN rd.states, Deliver(m), UNCHANGED raftVars PROVE PipeTypes'
  <2>1. rd.states[m] \in State /\ SubSeq(rd.states, m + 1, Len(rd.states)) \in Seq(State)
    BY <1>0, DropRest, Zenon DEF Rest
  <2>2. channel' \in Seq(State) /\ Len(channel') = Len(channel) + 1
    BY <1>0, <1>4, <2>1 DEF Deliver
  <2>3. Len(channel') <= Cap
    BY <1>0, <1>4, <2>2 DEF Deliver, Cap
  <2>4. rd' \in [states : Seq(State), hi : 0..MaxIndex]
    BY Zenon, <1>0, <1>4, <2>1 DEF Deliver
  <2>5. UNCHANGED <<queue, states>>
    BY Zenon, <1>4 DEF raftVars
  <2> QED BY <1>0, <2>2, <2>3, <2>4, <2>5, Zenon DEF PipeTypes
<1>5. CASE Advance
  <2>1. rd' \in [states : Seq(State), hi : 0..MaxIndex]
    BY <1>5, ReadsAssumption DEF Advance, NoReady
  <2>2. UNCHANGED <<queue, states, channel>>
    BY Zenon, <1>5 DEF Advance, raftVars
  <2> QED BY <1>0, <2>1, <2>2, Zenon DEF PipeTypes
<1>6. ASSUME NEW r \in Readers, Receive(r) PROVE PipeTypes'
  <2>1. [key |-> key[r], index |-> commit] \in State
    BY Zenon, <1>0 DEF State, TypeInv, ReaderTypes
  <2>2. queue' \in Seq(State)
    BY <1>0, <1>6, <2>1 DEF Receive
  <2>3. UNCHANGED <<states, channel, rd>>
    BY Zenon, <1>6 DEF Receive, nodeVars
  <2> QED BY <1>0, <2>2, <2>3, Zenon DEF PipeTypes
<1>7. ASSUME NEW r \in Readers, LoseRequest(r) \/ ReadIndex(r) PROVE PipeTypes'
  <2>1. UNCHANGED <<queue, states, channel, rd>>
    BY Zenon, <1>7 DEF LoseRequest, ReadIndex, nodeVars
  <2> QED BY <1>0, <2>1, Zenon DEF PipeTypes
<1>8. ASSUME NEW r \in Readers, WaitForReadState(r) PROVE PipeTypes'
  <2>1. channel' \in Seq(State) /\ Len(channel') = Len(channel) - 1 /\ Len(channel) \in Nat
    BY <1>0, <1>8 DEF WaitForReadState
  <2>2. Len(channel') <= Cap
    BY <1>0, <2>1 DEF Cap
  <2>3. UNCHANGED <<queue, states, rd>>
    BY Zenon, <1>8 DEF WaitForReadState, raftVars, nodeVars
  <2> QED BY <1>0, <2>1, <2>2, <2>3, Zenon DEF PipeTypes
<1>9. Moves
  BY Zenon, Moving
<1> QED BY Zenon, <1>1, <1>2, <1>3, <1>4, <1>5, <1>6, <1>7, <1>8, <1>9 DEF Moves

\* So have what the ready loop and the readers keep.
LEMMA TypeStep ==
  ASSUME TypeInv, [Next]_vars
  PROVE  TypeInv'
<1>1. LoopTypes'
  <2>0. /\ commit \in 0..MaxIndex /\ data \in 0..MaxIndex /\ applied \in 0..MaxIndex
        /\ loop \in {"select", "before", "apply", "after", "advance"} /\ rd.hi \in 0..MaxIndex
    BY Zenon DEF TypeInv, LoopTypes, PipeTypes
  <2>1. CASE Commit \/ Confirm \/ LoseAnswer
    BY <2>0, <2>1, ReadsAssumption DEF LoopTypes, Commit, Confirm, LoseAnswer, nodeVars
  <2>2. CASE LoopStep
    BY <2>0, <2>2, ReadsAssumption
       DEF LoopTypes, LoopStep, Ready, RespondBefore, RespondAfter, RespondToReadStates, ApplyEntry, ApplyDone,
           Advance, raftVars
  <2>3. ASSUME NEW r \in Readers,
               Receive(r) \/ LoseRequest(r) \/ ReadIndex(r) \/ ReaderStep(r)
                 \/ ReadTimeout(r) \/ Scan(r)
        PROVE  LoopTypes'
    <3>1. UNCHANGED <<commit, nodeVars>>
      BY Zenon, <2>3 DEF Receive, LoseRequest, ReadIndex, ReaderStep, WaitForReadState, Serve, ReadTimeout, Scan, raftVars
    <3> QED BY Zenon, <2>0, <3>1 DEF LoopTypes, nodeVars
  <2>4. CASE UNCHANGED vars
    BY Zenon, <2>0, <2>4 DEF LoopTypes, vars, raftVars, nodeVars
  <2> QED BY Zenon, <2>1, <2>2, <2>3, <2>4 DEF Next
<1>2. ReaderTypes'
  <2>0. ReaderTypes /\ data \in 0..MaxIndex /\ commit \in 0..MaxIndex
    BY Zenon DEF TypeInv, LoopTypes
  <2>1. CASE UNCHANGED <<sent, readerVars>>
    BY Zenon, <2>0, <2>1 DEF ReaderTypes, readerVars
  <2>2. ASSUME NEW r \in Readers, Receive(r) \/ LoseRequest(r) PROVE ReaderTypes'
    <3>1. sent' = sent \ {r} /\ UNCHANGED readerVars
      BY Zenon, <2>2 DEF Receive, LoseRequest
    <3> QED BY Zenon, <2>0, <3>1 DEF ReaderTypes, readerVars
  <2>3. ASSUME NEW r \in Readers, ReadIndex(r) PROVE ReaderTypes'
    <3>1. mixed' \subseteq Readers /\ sent' \subseteq Readers
      BY Zenon, <2>0, <2>3 DEF ReadIndex, UnderWay, ReaderTypes
    <3>2. /\ start' = [start EXCEPT ![r] = commit] /\ pc' = [pc EXCEPT ![r] = "wait"]
          /\ UNCHANGED <<key, got>>
      BY Zenon, <2>3 DEF ReadIndex
    <3> QED BY Zenon, <2>0, <3>1, <3>2 DEF ReaderTypes
  <2>4. ASSUME NEW r \in Readers, ReaderStep(r) \/ ReadTimeout(r) \/ Scan(r) PROVE ReaderTypes'
    <3>1. UNCHANGED <<sent, key, start, mixed>>
      BY Zenon, <2>4 DEF ReaderStep, WaitForReadState, Serve, ReadTimeout, Scan, raftVars
    <3>2. got' = [got EXCEPT ![r] = data] \/ got' = got
      BY Zenon, <2>4 DEF ReaderStep, WaitForReadState, Serve, ReadTimeout, Scan
    <3>3. \E l \in {"serve", "failed", "done", "scanned"} : pc' = [pc EXCEPT ![r] = l]
      BY Zenon, <2>4 DEF ReaderStep, WaitForReadState, Serve, ReadTimeout, Scan
    <3>4. pc' \in [Readers -> {"idle", "wait", "serve", "failed", "done", "scanned"}]
      BY Zenon, <2>0, <3>3 DEF ReaderTypes
    <3>5. got' \in [Readers -> 0..MaxIndex]
      BY Zenon, <2>0, <3>2 DEF ReaderTypes
    <3> QED BY Zenon, <2>0, <3>1, <3>4, <3>5 DEF ReaderTypes
  <2>5. CASE Commit \/ Confirm \/ LoseAnswer \/ LoopStep \/ UNCHANGED vars
    <3>1. UNCHANGED <<sent, readerVars>>
      BY Zenon, <2>5 DEF Commit, Confirm, LoseAnswer, LoopStep, Ready, RespondBefore, ApplyEntry, ApplyDone, RespondAfter,
                  Advance, vars, raftVars
    <3> QED BY Zenon, <2>1, <3>1
  <2> QED BY Zenon, <2>2, <2>3, <2>4, <2>5 DEF Next
<1> QED BY Zenon, <1>1, <1>2, PipeTypeStep DEF TypeInv

\* The applied index trails the database, and the database the commits of the cluster.
LEMMA LoopInvStep ==
  ASSUME TypeInv, LoopInv, [Next]_vars
  PROVE  LoopInv'
<1>0. /\ commit \in Nat /\ data \in Nat /\ applied \in Nat /\ rd.hi \in Nat
      /\ loop \in {"select", "before", "apply", "after", "advance"}
      /\ rd \in [states : Seq(State), hi : 0..MaxIndex]
  BY ReadsAssumption DEF TypeInv, LoopTypes, PipeTypes
<1>1. CASE Commit
  BY <1>0, <1>1 DEF LoopInv, Commit, nodeVars
<1>2. CASE Ready
  <2>1. PICK hi \in applied..commit : rd' = [states |-> states, hi |-> hi]
    BY Zenon, <1>2 DEF Ready
  <2>2. rd'.hi = hi /\ loop = "select" /\ loop' = "before" /\ UNCHANGED <<commit, data, applied>>
    BY Zenon, <1>2, <2>1 DEF Ready
  <2> QED BY <1>0, <2>1, <2>2 DEF LoopInv
<1>3. CASE RespondBefore \/ RespondAfter
  <2>1. /\ UNCHANGED <<commit, data, applied>>
        /\ \/ loop = "before" /\ loop' = "apply"
           \/ loop = "after" /\ loop' = "advance"
    BY Zenon, <1>3 DEF RespondBefore, RespondAfter, RespondToReadStates, raftVars
  <2>2. UNCHANGED rd \/ \E m \in DOMAIN rd.states : Deliver(m)
    BY Zenon, <1>3, Responds DEF RespondBefore, RespondAfter
  <2>3. rd'.hi = rd.hi
    BY Zenon, <2>2, DeliverTo
  <2> QED BY Zenon, <1>0, <2>1, <2>3 DEF LoopInv
<1>4. CASE ApplyEntry \/ ApplyDone
  BY <1>0, <1>4 DEF LoopInv, ApplyEntry, ApplyDone, raftVars
<1>5. CASE Advance
  BY Zenon, <1>0, <1>5 DEF LoopInv, Advance, NoReady, raftVars
<1>6. CASE UNCHANGED <<commit, nodeVars>>
  BY Zenon, <1>6 DEF LoopInv, nodeVars
<1>7. ASSUME NEW r \in Readers,
             Receive(r) \/ LoseRequest(r) \/ ReadIndex(r) \/ ReaderStep(r)
               \/ ReadTimeout(r) \/ Scan(r)
      PROVE  LoopInv'
  <2>1. UNCHANGED <<commit, nodeVars>>
    BY Zenon, <1>7 DEF Receive, LoseRequest, ReadIndex, ReaderStep, WaitForReadState, Serve, ReadTimeout, Scan, raftVars
  <2> QED BY Zenon, <1>6, <2>1
<1>8. CASE Confirm \/ LoseAnswer \/ UNCHANGED vars
  <2>1. UNCHANGED <<commit, nodeVars>>
    BY Zenon, <1>8 DEF Confirm, LoseAnswer, vars, raftVars
  <2> QED BY Zenon, <1>6, <2>1
<1> QED BY Zenon, <1>1, <1>2, <1>3, <1>4, <1>5, <1>7, <1>8 DEF Next, LoopStep

\* The commit index and the applied index only grow.
LEMMA Growing ==
  ASSUME TypeInv, LoopInv, [Next]_vars
  PROVE  /\ commit <= commit' /\ applied <= applied' /\ data <= data'
         /\ commit' \in Nat /\ applied' \in Nat /\ data' \in Nat
         /\ commit \in Nat /\ applied \in Nat /\ data \in Nat
<1>0. /\ commit \in Nat /\ data \in Nat /\ applied \in Nat /\ rd.hi \in Nat
  BY ReadsAssumption DEF TypeInv, LoopTypes, PipeTypes
<1>1. CASE Commit
  BY <1>0, <1>1 DEF Commit, nodeVars
<1>2. CASE Ready \/ RespondBefore \/ RespondAfter \/ Advance \/ Confirm \/ LoseAnswer \/ UNCHANGED vars
  <2>1. UNCHANGED <<commit, data, applied>>
    BY Zenon, <1>2 DEF Ready, RespondBefore, RespondAfter, Advance, Confirm, LoseAnswer, vars, raftVars, nodeVars
  <2> QED BY <1>0, <2>1
<1>3. CASE ApplyEntry \/ ApplyDone
  BY <1>0, <1>3 DEF LoopInv, ApplyEntry, ApplyDone, raftVars
<1>4. ASSUME NEW r \in Readers,
             Receive(r) \/ LoseRequest(r) \/ ReadIndex(r) \/ ReaderStep(r)
               \/ ReadTimeout(r) \/ Scan(r)
      PROVE  UNCHANGED <<commit, nodeVars>>
  BY <1>4 DEF Receive, LoseRequest, ReadIndex, ReaderStep, WaitForReadState, Serve, ReadTimeout, Scan, raftVars
<1>5. CASE UNCHANGED <<commit, nodeVars>>
  BY <1>0, <1>5 DEF nodeVars
<1> QED BY Zenon, <1>1, <1>2, <1>3, <1>4, <1>5 DEF Next, LoopStep

\* Indexes never decrease along the pipeline, and what is in it was committed.
LEMMA OrderStep ==
  ASSUME TypeInv, LoopInv, OrderInv, [Next]_vars
  PROVE  OrderInv'
<1>0. /\ queue \in Seq(State) /\ states \in Seq(State) /\ channel \in Seq(State)
      /\ rd.states \in Seq(State) /\ rd \in [states : Seq(State), hi : 0..MaxIndex]
  BY Zenon DEF TypeInv, PipeTypes
<1>1. /\ commit \in Nat /\ applied \in Nat /\ commit' \in Nat /\ applied' \in Nat
      /\ commit <= commit' /\ applied <= applied'
  BY Zenon, Growing
<1>2. /\ UpTo(channel, applied') /\ UpTo(rd.states, commit')
      /\ UpTo(states, commit') /\ UpTo(queue, commit')
  BY Zenon, <1>0, <1>1, UpToRises DEF OrderInv
<1>3. CASE UNCHANGED <<queue, states, rd, channel>>
  BY Zenon, <1>2, <1>3 DEF OrderInv
<1>4. ASSUME NEW r \in Readers, Receive(r) PROVE OrderInv'
  <2> DEFINE e == [key |-> key[r], index |-> commit]
  <2>1. e \in State /\ e.index = commit
    BY Zenon DEF State, TypeInv, ReaderTypes, LoopTypes
  <2>2. UNCHANGED <<states, rd, channel>> /\ (queue' = queue \/ queue' = Append(queue, e))
    BY Zenon, <1>4 DEF Receive, nodeVars
  <2>3. UpTo(channel, commit)
    <3>1. applied <= commit
      BY Zenon DEF LoopInv
    <3> QED BY Zenon, <1>0, <1>1, <3>1, UpToRises DEF OrderInv
  <2>4. CASE queue' = Append(queue, e)
    <3> HIDE DEF e
    <3>1. commit <= commit'
      BY Zenon, <1>1
    <3>2. Sorted(queue') /\ UpTo(queue', commit')
      BY Zenon, <1>0, <1>1, <1>2, <2>1, <2>4, AppendKeeps DEF OrderInv
    <3>3. Before(channel, queue') /\ Before(rd.states, queue') /\ Before(states, queue')
      BY Zenon, <1>0, <1>1, <2>1, <2>3, <2>4, AppendKeeps DEF OrderInv
    <3> QED BY Zenon, <1>2, <2>2, <3>2, <3>3 DEF OrderInv
  <2> QED BY Zenon, <1>3, <2>2, <2>4
<1>5. CASE Confirm
  <2>1. /\ queue # <<>> /\ queue' = Tail(queue) /\ states' = Append(states, Head(queue))
        /\ UNCHANGED <<rd, channel>>
    BY Zenon, <1>5 DEF Confirm, nodeVars
  <2>2. /\ Rest(queue', queue, 1) /\ Head(queue) = queue[1] /\ 1 \in DOMAIN queue
        /\ queue[1] \in State
    BY Zenon, <1>0, <2>1, TailRest
  <2> DEFINE e == queue[1]
  <2>3. /\ e.index \in Nat /\ e.index <= commit' /\ From(queue', e.index)
        /\ UpTo(states, e.index) /\ UpTo(rd.states, e.index) /\ UpTo(channel, e.index)
    BY Zenon, <1>0, <1>1, <1>2, <2>2, AtIndex DEF OrderInv
  <2>4. /\ Sorted(queue') /\ UpTo(queue', commit') /\ Before(channel, queue')
        /\ Before(rd.states, queue') /\ Before(states, queue')
    BY Zenon, <1>0, <1>1, <1>2, <2>2, RestKeeps DEF OrderInv
  <2>5. queue' \in Seq(State) /\ states' = Append(states, e) /\ e \in State
    BY Zenon, <2>1, <2>2 DEF Rest
  <2> HIDE DEF e
  <2>6. /\ Sorted(states') /\ UpTo(states', commit') /\ Before(channel, states')
        /\ Before(rd.states, states') /\ Before(states', queue')
    BY Zenon, <1>0, <1>1, <1>2, <2>3, <2>4, <2>5, AppendKeeps DEF OrderInv
  <2> QED BY Zenon, <1>2, <2>1, <2>4, <2>6 DEF OrderInv
<1>6. CASE LoseAnswer
  <2>1. queue # <<>> /\ queue' = Tail(queue) /\ UNCHANGED <<states, rd, channel>>
    BY Zenon, <1>6 DEF LoseAnswer, nodeVars
  <2>2. Rest(queue', queue, 1)
    BY Zenon, <1>0, <2>1, TailRest
  <2>3. /\ Sorted(queue') /\ UpTo(queue', commit') /\ Before(channel, queue')
        /\ Before(rd.states, queue') /\ Before(states, queue')
    BY Zenon, <1>0, <1>1, <1>2, <2>2, RestKeeps DEF OrderInv
  <2> QED BY Zenon, <1>2, <2>1, <2>3 DEF OrderInv
<1>7. CASE Ready
  <2>1. rd'.states = states /\ states' = <<>> /\ UNCHANGED <<queue, channel>>
    BY <1>7 DEF Ready
  <2> QED BY Zenon, <1>2, <2>1, NoneKept DEF OrderInv
<1>8. ASSUME NEW m \in DOMAIN rd.states, Deliver(m), UNCHANGED raftVars PROVE OrderInv'
  <2> DEFINE e == rd.states[m]
  <2>1. /\ channel' = Append(channel, e) /\ e.index <= applied /\ UNCHANGED <<states, queue>>
        /\ rd'.states = SubSeq(rd.states, m + 1, Len(rd.states))
    BY Zenon, <1>0, <1>8, DeliverTo DEF Deliver, raftVars
  <2>2. Rest(rd'.states, rd.states, m) /\ e \in State
    BY Zenon, <1>0, <2>1, DropRest
  <2>3. /\ e.index \in Nat /\ UpTo(channel, e.index) /\ From(rd'.states, e.index)
        /\ From(states, e.index) /\ From(queue, e.index)
    BY Zenon, <1>0, <2>2, AtIndex DEF OrderInv
  <2>4. /\ Sorted(rd'.states) /\ UpTo(rd'.states, commit') /\ Before(channel, rd'.states)
        /\ Before(rd'.states, states) /\ Before(rd'.states, queue)
    BY Zenon, <1>0, <1>1, <1>2, <2>2, RestKeeps DEF OrderInv
  <2>5. e.index <= applied'
    BY <1>1, <2>1, <2>3
  <2>6. rd'.states \in Seq(State)
    BY Zenon, <2>2 DEF Rest
  <2> HIDE DEF e
  <2>7. /\ Sorted(channel') /\ UpTo(channel', applied') /\ Before(channel', rd'.states)
        /\ Before(channel', states) /\ Before(channel', queue)
    BY Zenon, <1>0, <1>1, <1>2, <2>1, <2>2, <2>3, <2>4, <2>5, <2>6, AppendKeeps DEF OrderInv
  <2> QED BY Zenon, <1>2, <2>1, <2>4, <2>7 DEF OrderInv
<1>9. CASE Advance
  <2>1. rd'.states = <<>> /\ UNCHANGED <<queue, states, channel>>
    BY Zenon, <1>9 DEF Advance, NoReady, raftVars
  <2> QED BY Zenon, <1>2, <2>1, NoneKept DEF OrderInv
<1>10. ASSUME NEW r \in Readers, WaitForReadState(r) PROVE OrderInv'
  <2>1. channel # <<>> /\ channel' = Tail(channel) /\ UNCHANGED <<queue, states, rd>>
    BY Zenon, <1>10 DEF WaitForReadState, raftVars, nodeVars
  <2>2. Rest(channel', channel, 1)
    BY Zenon, <1>0, <2>1, TailRest
  <2>3. /\ Sorted(channel') /\ UpTo(channel', applied') /\ Before(channel', rd.states)
        /\ Before(channel', states) /\ Before(channel', queue)
    BY Zenon, <1>0, <1>1, <1>2, <2>2, RestKeeps DEF OrderInv
  <2> QED BY Zenon, <1>2, <2>1, <2>3 DEF OrderInv
<1>11. ASSUME NEW r \in Readers, LoseRequest(r) \/ ReadIndex(r) PROVE OrderInv'
  <2>1. UNCHANGED <<queue, states, rd, channel>>
    BY Zenon, <1>11 DEF LoseRequest, ReadIndex, nodeVars
  <2> QED BY Zenon, <1>3, <2>1
<1>12. CASE Still
  BY Zenon, <1>3, <1>12 DEF Still
<1> QED BY Zenon, Moving, <1>4, <1>5, <1>6, <1>7, <1>8, <1>9, <1>10, <1>11, <1>12 DEF Moves

\* Whether a reader's answer may still come changes when it asks and when it is given one.
LEMMA AskingMoves ==
  ASSUME TypeInv, NEW r \in Readers
  PROVE  /\ ReadIndex(r) => r \notin Asking /\ Asking' = Asking \cup {r}
         /\ WaitForReadState(r) => r \in Asking /\ Asking' = Asking \ {r}
         /\ ReadTimeout(r) \/ Serve(r) \/ Scan(r) => Asking' = Asking
<1>0. pc \in [Readers -> {"idle", "wait", "serve", "failed", "done", "scanned"}]
  BY Zenon DEF TypeInv, ReaderTypes
<1>1. CASE ReadIndex(r)
  BY Zenon, <1>0, <1>1 DEF ReadIndex, Asking, WaitForReadState, ReadTimeout, Serve, Scan
<1>2. CASE WaitForReadState(r)
  BY Zenon, <1>0, <1>2 DEF ReadIndex, Asking, WaitForReadState, Serve, Scan, ReadTimeout
<1>3. CASE ReadTimeout(r)
  BY Zenon, <1>0, <1>3 DEF Asking, ReadTimeout, ReadIndex, WaitForReadState
<1>4. CASE Serve(r)
  BY Zenon, <1>0, <1>4 DEF Asking, Serve, ReadIndex, WaitForReadState
<1>5. CASE Scan(r)
  BY Zenon, <1>0, <1>5 DEF Asking, Scan, ReadIndex, WaitForReadState
<1> QED BY Zenon, <1>1, <1>2, <1>3, <1>4, <1>5

\* No more requests and answers are under way than readers wait or have timed out.
LEMMA CountStep ==
  ASSUME TypeInv, LoopInv, CountInv, [Next]_vars
  PROVE  CountInv'
<1>0. /\ queue \in Seq(State) /\ states \in Seq(State) /\ channel \in Seq(State)
      /\ rd.states \in Seq(State) /\ rd \in [states : Seq(State), hi : 0..MaxIndex]
  BY DEF TypeInv, PipeTypes
<1>1. /\ pc \in [Readers -> {"idle", "wait", "serve", "failed", "done", "scanned"}]
      /\ sent \subseteq Readers
  BY Zenon DEF TypeInv, ReaderTypes
<1>2. /\ IsFiniteSet(sent) /\ IsFiniteSet(Asking)
      /\ Cardinality(sent) \in Nat /\ Cardinality(Asking) \in Nat
  BY Zenon, FS_CardinalityType DEF CountInv
<1>3. Sent \in Nat /\ Queued \in Nat /\ Answered \in Nat /\ Held \in Nat /\ Delivered \in Nat
  BY <1>0, <1>2 DEF Sent, Queued, Answered, Held, Delivered
<1>4. UnderWayCount <= Cardinality(Asking)
  BY Zenon DEF CountInv
<1>5. ASSUME NEW r \in Readers, sent' = sent \ {r}, pc' = pc
      PROVE  /\ IsFiniteSet(sent') /\ IsFiniteSet(Asking') /\ \A q \in sent' : pc'[q] # "idle"
             /\ Cardinality(sent') \in Nat /\ Cardinality(Asking') = Cardinality(Asking)
             /\ r \in sent => Cardinality(sent') = Cardinality(sent) - 1
  <2>1. Asking' = Asking
    BY <1>5, Zenon DEF Asking
  <2>2. \A q \in sent' : pc'[q] # "idle"
    BY <1>5, Zenon DEF CountInv
  <2> QED BY Zenon, <1>2, <1>5, <2>1, <2>2, FS_RemoveElement, FS_CardinalityType
<1>6. ASSUME UNCHANGED <<sent, pc>>
      PROVE  /\ IsFiniteSet(sent') /\ IsFiniteSet(Asking') /\ \A q \in sent' : pc'[q] # "idle"
             /\ Cardinality(sent') = Cardinality(sent) /\ Cardinality(Asking') = Cardinality(Asking)
  <2>1. Asking' = Asking
    BY <1>6, Zenon DEF Asking
  <2> QED BY Zenon, <1>2, <1>6, <2>1 DEF CountInv
<1>7. ASSUME NEW r \in Readers, Receive(r) PROVE CountInv'
  <2>1. /\ r \in sent /\ sent' = sent \ {r} /\ UNCHANGED <<states, rd, channel, pc>>
        /\ Len(queue') = Len(queue) \/ Len(queue') = Len(queue) + 1
    BY <1>0, <1>7 DEF Receive, nodeVars, readerVars
  <2>8. /\ IsFiniteSet(sent') /\ IsFiniteSet(Asking') /\ \A q \in sent' : pc'[q] # "idle"
        /\ Cardinality(sent') = Cardinality(sent) - 1 /\ Cardinality(Asking') = Cardinality(Asking)
    BY Zenon, <1>5, <2>1
  <2>7. /\ Sent' = Sent - 1 /\ (Queued' = Queued \/ Queued' = Queued + 1)
        /\ UNCHANGED <<Answered, Held, Delivered>>
    BY Zenon, <1>0, <2>1, <2>8 DEF Sent, Queued, Answered, Held, Delivered
  <2>9. UnderWayCount' <= Cardinality(Asking')
    BY <1>2, <1>3, <1>4, <2>7, <2>8 DEF UnderWayCount
  <2> QED BY Zenon, <2>8, <2>9 DEF CountInv
<1>8. ASSUME NEW r \in Readers, LoseRequest(r) PROVE CountInv'
  <2>1. r \in sent /\ sent' = sent \ {r} /\ UNCHANGED <<queue, states, rd, channel, pc>>
    BY Zenon, <1>8 DEF LoseRequest, nodeVars, readerVars
  <2>8. /\ IsFiniteSet(sent') /\ IsFiniteSet(Asking') /\ \A q \in sent' : pc'[q] # "idle"
        /\ Cardinality(sent') = Cardinality(sent) - 1 /\ Cardinality(Asking') = Cardinality(Asking)
    BY Zenon, <1>5, <2>1
  <2>7. /\ Sent' = Sent - 1
        /\ UNCHANGED <<Queued, Answered, Held, Delivered>>
    BY Zenon, <1>0, <2>1, <2>8 DEF Sent, Queued, Answered, Held, Delivered
  <2>9. UnderWayCount' <= Cardinality(Asking')
    BY <1>2, <1>3, <1>4, <2>7, <2>8 DEF UnderWayCount
  <2> QED BY Zenon, <2>8, <2>9 DEF CountInv
<1>9. CASE Confirm
  <2>1. queue # <<>> /\ queue' = Tail(queue) /\ states' = Append(states, Head(queue))
    BY Zenon, <1>9 DEF Confirm
  <2>2. Len(queue') = Len(queue) - 1 /\ Head(queue) \in State
    BY Zenon, <1>0, <2>1, TailRest DEF Rest
  <2>3. Len(states') = Len(states) + 1
    BY Zenon, <1>0, <2>1, <2>2, AppendKeeps
  <2>4. UNCHANGED <<sent, pc, rd, channel>>
    BY Zenon, <1>9 DEF Confirm, nodeVars, readerVars
  <2>8. /\ IsFiniteSet(sent') /\ IsFiniteSet(Asking') /\ \A q \in sent' : pc'[q] # "idle"
        /\ Cardinality(sent') = Cardinality(sent) /\ Cardinality(Asking') = Cardinality(Asking)
    BY Zenon, <1>6, <2>2, <2>3, <2>4
  <2>7. /\ Queued' = Queued - 1 /\ Answered' = Answered + 1
        /\ UNCHANGED <<Sent, Held, Delivered>>
    BY Zenon, <1>0, <2>1, <2>2, <2>3, <2>4, <2>8 DEF Sent, Queued, Answered, Held, Delivered
  <2>9. UnderWayCount' <= Cardinality(Asking')
    BY <1>2, <1>3, <1>4, <2>7, <2>8 DEF UnderWayCount
  <2> QED BY Zenon, <2>8, <2>9 DEF CountInv
<1>10. CASE LoseAnswer
  <2>1. queue # <<>> /\ queue' = Tail(queue) /\ UNCHANGED <<sent, pc, states, rd, channel>>
    BY Zenon, <1>10 DEF LoseAnswer, nodeVars, readerVars
  <2>2. Len(queue') = Len(queue) - 1
    BY Zenon, <1>0, <2>1, TailRest DEF Rest
  <2>8. /\ IsFiniteSet(sent') /\ IsFiniteSet(Asking') /\ \A q \in sent' : pc'[q] # "idle"
        /\ Cardinality(sent') = Cardinality(sent) /\ Cardinality(Asking') = Cardinality(Asking)
    BY Zenon, <1>6, <2>1, <2>2
  <2>7. /\ Queued' = Queued - 1
        /\ UNCHANGED <<Sent, Answered, Held, Delivered>>
    BY Zenon, <1>0, <2>1, <2>2, <2>8 DEF Sent, Queued, Answered, Held, Delivered
  <2>9. UnderWayCount' <= Cardinality(Asking')
    BY <1>2, <1>3, <1>4, <2>7, <2>8 DEF UnderWayCount
  <2> QED BY Zenon, <2>8, <2>9 DEF CountInv
<1>11. CASE Ready
  <2>1. /\ loop = "select" /\ rd'.states = states /\ states' = <<>>
        /\ UNCHANGED <<sent, pc, queue, channel>>
    BY <1>11 DEF Ready, readerVars
  <2>2. Len(rd.states) = 0 /\ Len(states') = 0
    BY Zenon, <2>1, NoneKept DEF LoopInv
  <2>8. /\ IsFiniteSet(sent') /\ IsFiniteSet(Asking') /\ \A q \in sent' : pc'[q] # "idle"
        /\ Cardinality(sent') = Cardinality(sent) /\ Cardinality(Asking') = Cardinality(Asking)
    BY Zenon, <1>6, <2>1, <2>2
  <2>7. /\ Held = 0 /\ Held' = Answered /\ Answered' = 0
        /\ UNCHANGED <<Sent, Queued, Delivered>>
    BY Zenon, <1>0, <2>1, <2>2, <2>8 DEF Sent, Queued, Answered, Held, Delivered
  <2>9. UnderWayCount' <= Cardinality(Asking')
    BY <1>2, <1>3, <1>4, <2>7, <2>8 DEF UnderWayCount
  <2> QED BY Zenon, <2>8, <2>9 DEF CountInv
<1>12. ASSUME NEW m \in DOMAIN rd.states, Deliver(m), UNCHANGED <<raftVars, readerVars>>
       PROVE  CountInv'
  <2>1. /\ channel' = Append(channel, rd.states[m]) /\ UNCHANGED <<sent, pc, states, queue>>
        /\ rd'.states = SubSeq(rd.states, m + 1, Len(rd.states))
    BY Zenon, <1>12, DeliverTo DEF Deliver, raftVars, readerVars
  <2>2. Rest(rd'.states, rd.states, m) /\ rd.states[m] \in State
    BY Zenon, <1>0, <2>1, DropRest
  <2>3. Len(rd'.states) = Len(rd.states) - m /\ m \in Nat \ {0} /\ m <= Len(rd.states)
    BY <1>0, <2>2 DEF Rest
  <2>4. Len(channel') = Len(channel) + 1
    BY Zenon, <1>0, <2>1, <2>2, AppendKeeps
  <2>8. /\ IsFiniteSet(sent') /\ IsFiniteSet(Asking') /\ \A q \in sent' : pc'[q] # "idle"
        /\ Cardinality(sent') = Cardinality(sent) /\ Cardinality(Asking') = Cardinality(Asking)
    BY Zenon, <1>6, <2>1, <2>3, <2>4
  <2>5. Held' = Held - m /\ m \in Nat \ {0} /\ m <= Held /\ Delivered' = Delivered + 1
    BY Zenon, <2>3, <2>4 DEF Held, Delivered
  <2>6. UNCHANGED <<Sent, Queued, Answered>>
    BY Zenon, <2>1 DEF Sent, Queued, Answered
  <2>7. /\ Held' <= Held - 1 /\ Held' \in Nat /\ Delivered' = Delivered + 1
        /\ UNCHANGED <<Sent, Queued, Answered>>
    BY <1>3, <2>5, <2>6
  <2>9. UnderWayCount' <= Cardinality(Asking')
    BY <1>2, <1>3, <1>4, <2>7, <2>8 DEF UnderWayCount
  <2> QED BY Zenon, <2>8, <2>9 DEF CountInv
<1>13. CASE Advance
  <2>1. rd'.states = <<>> /\ UNCHANGED <<sent, pc, queue, states, channel>>
    BY Zenon, <1>13 DEF Advance, NoReady, raftVars, readerVars
  <2>2. Len(rd'.states) = 0
    BY <2>1
  <2>8. /\ IsFiniteSet(sent') /\ IsFiniteSet(Asking') /\ \A q \in sent' : pc'[q] # "idle"
        /\ Cardinality(sent') = Cardinality(sent) /\ Cardinality(Asking') = Cardinality(Asking)
    BY Zenon, <1>6, <2>1, <2>2
  <2>7. /\ Held' = 0
        /\ UNCHANGED <<Sent, Queued, Answered, Delivered>>
    BY Zenon, <1>0, <2>1, <2>2, <2>8 DEF Sent, Queued, Answered, Held, Delivered
  <2>9. UnderWayCount' <= Cardinality(Asking')
    BY <1>2, <1>3, <1>4, <2>7, <2>8 DEF UnderWayCount
  <2> QED BY Zenon, <2>8, <2>9 DEF CountInv
<1>14. ASSUME NEW r \in Readers, ReadIndex(r) PROVE CountInv'
  <2>1. /\ pc[r] = "idle" /\ sent' = sent \cup {r} /\ pc' = [pc EXCEPT ![r] = "wait"]
        /\ UNCHANGED <<queue, states, rd, channel>>
    BY Zenon, <1>14 DEF ReadIndex, nodeVars
  <2>2. r \notin sent /\ r \notin Asking /\ Asking' = Asking \cup {r}
    BY Zenon, <1>14, <2>1, AskingMoves DEF CountInv
  <2>3. /\ IsFiniteSet(sent') /\ Cardinality(sent') = Cardinality(sent) + 1
        /\ IsFiniteSet(Asking') /\ Cardinality(Asking') = Cardinality(Asking) + 1
    BY Zenon, <1>2, <2>1, <2>2, FS_AddElement
  <2>4. \A q \in sent' : pc'[q] # "idle"
    BY Zenon, <1>1, <2>1 DEF CountInv
  <2>7. /\ Sent' = Sent + 1
        /\ UNCHANGED <<Queued, Answered, Held, Delivered>>
    BY Zenon, <1>0, <2>1, <2>2, <2>3, <2>4 DEF Sent, Queued, Answered, Held, Delivered
  <2>9. UnderWayCount' <= Cardinality(Asking')
    BY <1>2, <1>3, <1>4, <2>7, <2>3 DEF UnderWayCount
  <2> QED BY Zenon, <1>2, <2>1, <2>3, <2>4, <2>9 DEF CountInv
<1>15. ASSUME NEW r \in Readers, WaitForReadState(r) PROVE CountInv'
  <2>1. /\ channel # <<>> /\ channel' = Tail(channel) /\ pc' = [pc EXCEPT ![r] = "serve"]
        /\ UNCHANGED <<sent, queue, states, rd>>
    BY Zenon, <1>15 DEF WaitForReadState, raftVars, nodeVars
  <2>2. Len(channel') = Len(channel) - 1
    BY Zenon, <1>0, <2>1, TailRest DEF Rest
  <2>3. r \in Asking /\ Asking' = Asking \ {r}
    BY Zenon, <1>15, AskingMoves
  <2>4. IsFiniteSet(Asking') /\ Cardinality(Asking') = Cardinality(Asking) - 1
    BY Zenon, <1>2, <2>3, FS_RemoveElement
  <2>5. \A q \in sent' : pc'[q] # "idle"
    BY Zenon, <1>1, <2>1 DEF CountInv
  <2>7. /\ Delivered' = Delivered - 1
        /\ UNCHANGED <<Sent, Queued, Answered, Held>>
    BY Zenon, <1>0, <2>1, <2>2, <2>3, <2>4, <2>5 DEF Sent, Queued, Answered, Held, Delivered
  <2>9. UnderWayCount' <= Cardinality(Asking')
    BY <1>2, <1>3, <1>4, <2>7, <2>4 DEF UnderWayCount
  <2> QED BY Zenon, <1>2, <2>1, <2>2, <2>4, <2>5, <2>9 DEF CountInv
<1>16. ASSUME NEW r \in Readers, ReadTimeout(r) \/ Serve(r) \/ Scan(r) PROVE CountInv'
  <2>1. Asking' = Asking
    BY Zenon, <1>16, AskingMoves
  <2>2. UNCHANGED <<sent, queue, states, rd, channel>>
    BY Zenon, <1>16 DEF ReadTimeout, Serve, Scan, raftVars, nodeVars
  <2>3. \A q \in sent' : pc'[q] # "idle"
    BY Zenon, <1>1, <1>16, <2>2 DEF CountInv, ReadTimeout, Serve, Scan
  <2> QED BY Zenon, <1>2, <1>4, <2>1, <2>2, <2>3 DEF CountInv, UnderWayCount, Sent, Queued, Answered, Held, Delivered
<1>17. CASE UNCHANGED <<sent, queue, states, rd, channel, pc>>
  BY Zenon, <1>2, <1>4, <1>6, <1>17 DEF CountInv, UnderWayCount, Sent, Queued, Answered, Held, Delivered
<1>18. CASE Commit \/ ApplyEntry \/ ApplyDone \/ UNCHANGED vars
  BY Zenon, <1>17, <1>18 DEF Commit, ApplyEntry, ApplyDone, vars, raftVars, nodeVars, readerVars
<1>19. CASE RespondBefore \/ RespondAfter
  <2>1. UNCHANGED <<raftVars, readerVars>>
    BY Zenon, <1>19 DEF RespondBefore, RespondAfter
  <2>2. UNCHANGED <<channel, rd>> \/ \E m \in DOMAIN rd.states : Deliver(m)
    BY Zenon, <1>19, Responds DEF RespondBefore, RespondAfter
  <2> QED BY Zenon, <1>12, <1>17, <2>1, <2>2 DEF raftVars, readerVars
<1> QED
  BY Zenon, <1>7, <1>8, <1>9, <1>10, <1>11, <1>13, <1>14, <1>15, <1>16, <1>18, <1>19
     DEF Next, LoopStep, ReaderStep

\* What enters the pipeline once n is committed was noted at n or later.
LEMMA NotedStep ==
  ASSUME TypeInv, LoopInv, [Next]_vars, NEW n \in Nat, n <= commit, Noted(n)
  PROVE  Noted(n)'
<1>0. /\ queue \in Seq(State) /\ states \in Seq(State) /\ channel \in Seq(State)
      /\ rd.states \in Seq(State)
  BY Zenon DEF TypeInv, PipeTypes
<1>1. CASE UNCHANGED <<queue, states, rd, channel>>
  BY Zenon, <1>1 DEF Noted
<1>2. ASSUME NEW r \in Readers, Receive(r) PROVE Noted(n)'
  <2> DEFINE e == [key |-> key[r], index |-> commit]
  <2>1. e \in State /\ n <= e.index
    BY Zenon DEF State, TypeInv, ReaderTypes, LoopTypes
  <2>2. UNCHANGED <<states, rd, channel>> /\ (queue' = queue \/ queue' = Append(queue, e))
    BY Zenon, <1>2 DEF Receive, nodeVars
  <2> HIDE DEF e
  <2> QED BY Zenon, <1>0, <2>1, <2>2, AppendKeeps DEF Noted
<1>3. CASE Confirm
  <2>1. /\ queue # <<>> /\ queue' = Tail(queue) /\ states' = Append(states, Head(queue))
        /\ UNCHANGED <<rd, channel>>
    BY Zenon, <1>3 DEF Confirm, nodeVars
  <2>2. /\ Rest(queue', queue, 1) /\ Head(queue) = queue[1] /\ 1 \in DOMAIN queue
        /\ queue[1] \in State
    BY Zenon, <1>0, <2>1, TailRest
  <2>3. n <= queue[1].index /\ From(queue', n)
    BY Zenon, <1>0, <2>2, AtIndex, RestKeeps DEF Noted
  <2> QED BY Zenon, <1>0, <2>1, <2>2, <2>3, AppendKeeps DEF Noted
<1>4. CASE LoseAnswer
  <2>1. queue # <<>> /\ queue' = Tail(queue) /\ UNCHANGED <<states, rd, channel>>
    BY Zenon, <1>4 DEF LoseAnswer, nodeVars
  <2>2. Rest(queue', queue, 1)
    BY Zenon, <1>0, <2>1, TailRest
  <2> QED BY Zenon, <1>0, <2>1, <2>2, RestKeeps DEF Noted
<1>5. CASE Ready
  <2>1. rd'.states = states /\ states' = <<>> /\ UNCHANGED <<queue, channel>>
    BY <1>5 DEF Ready
  <2> QED BY Zenon, <2>1, NoneKept DEF Noted
<1>6. ASSUME NEW m \in DOMAIN rd.states, Deliver(m), UNCHANGED raftVars PROVE Noted(n)'
  <2>1. /\ channel' = Append(channel, rd.states[m]) /\ UNCHANGED <<states, queue>>
        /\ rd'.states = SubSeq(rd.states, m + 1, Len(rd.states))
    BY Zenon, <1>6, DeliverTo DEF Deliver, raftVars
  <2>2. Rest(rd'.states, rd.states, m) /\ rd.states[m] \in State
    BY Zenon, <1>0, <2>1, DropRest
  <2>3. n <= rd.states[m].index /\ From(rd'.states, n)
    BY Zenon, <1>0, <2>2, AtIndex, RestKeeps DEF Noted
  <2> QED BY Zenon, <1>0, <2>1, <2>2, <2>3, AppendKeeps DEF Noted
<1>7. CASE Advance
  <2>1. rd'.states = <<>> /\ UNCHANGED <<queue, states, channel>>
    BY Zenon, <1>7 DEF Advance, NoReady, raftVars
  <2> QED BY Zenon, <2>1, NoneKept DEF Noted
<1>8. ASSUME NEW r \in Readers, WaitForReadState(r) PROVE Noted(n)'
  <2>1. channel # <<>> /\ channel' = Tail(channel) /\ UNCHANGED <<queue, states, rd>>
    BY Zenon, <1>8 DEF WaitForReadState, raftVars, nodeVars
  <2>2. Rest(channel', channel, 1)
    BY Zenon, <1>0, <2>1, TailRest
  <2> QED BY Zenon, <1>0, <2>1, <2>2, RestKeeps DEF Noted
<1>9. ASSUME NEW r \in Readers, LoseRequest(r) \/ ReadIndex(r) PROVE Noted(n)'
  <2>1. UNCHANGED <<queue, states, rd, channel>>
    BY Zenon, <1>9 DEF LoseRequest, ReadIndex, nodeVars
  <2> QED BY Zenon, <1>1, <2>1
<1>10. CASE Still
  BY Zenon, <1>1, <1>10 DEF Still
<1> QED BY Zenon, Moving, <1>2, <1>3, <1>4, <1>5, <1>6, <1>7, <1>8, <1>9, <1>10 DEF Moves

\* While nobody asks, nothing is in the pipeline.
LEMMA Empty ==
  ASSUME TypeInv, CountInv, Asking = {}
  PROVE  \A n : Noted(n)
<1>0. /\ queue \in Seq(State) /\ states \in Seq(State) /\ channel \in Seq(State)
      /\ rd.states \in Seq(State)
  BY Zenon DEF TypeInv, PipeTypes
<1>1. Cardinality(Asking) = 0 /\ Sent \in Nat
  BY Zenon, FS_EmptySet, FS_CardinalityType DEF CountInv, Sent
<1>2. Queued \in Nat /\ Answered \in Nat /\ Held \in Nat /\ Delivered \in Nat
  BY <1>0 DEF Queued, Answered, Held, Delivered
<1>3. Queued = 0 /\ Answered = 0 /\ Held = 0 /\ Delivered = 0
  BY <1>1, <1>2 DEF CountInv, UnderWayCount
<1>4. queue = <<>> /\ states = <<>> /\ channel = <<>> /\ rd.states = <<>>
  BY <1>0, <1>3 DEF Queued, Answered, Held, Delivered
<1> QED BY Zenon, <1>4, NoneKept DEF Noted

-----------------------------------------------------------------------------
(* A read on its own. *)

\* What a step does to a reader q.
Begins(q)   == /\ pc'[q] = "wait" /\ start'[q] = commit /\ commit' = commit
               /\ UNCHANGED <<queue, states, rd, channel>>
               /\ q \notin mixed' => Asking = {}
Takes(q)    == pc[q] = "wait" /\ pc'[q] = "serve" /\ start'[q] = start[q]
               /\ channel # <<>> /\ data' = data
Answers(q)  == pc[q] = "serve" /\ pc'[q] = "done" /\ start'[q] = start[q] /\ got'[q] = data
Stays(q)    == pc'[q] = pc[q] /\ start'[q] = start[q] /\ got'[q] = got[q]
GivesUp(q)  == pc'[q] \in {"failed", "scanned"} /\ start'[q] = start[q]

\* There is nothing else that a step may do.
LEMMA ReaderMoves ==
  ASSUME TypeInv, [Next]_vars, NEW q \in Readers
  PROVE  /\ mixed \subseteq mixed'
         /\ Begins(q) \/ Takes(q) \/ Answers(q) \/ Stays(q) \/ GivesUp(q)
<1>0. /\ pc \in [Readers -> {"idle", "wait", "serve", "failed", "done", "scanned"}]
      /\ start \in [Readers -> 0..MaxIndex] /\ got \in [Readers -> 0..MaxIndex]
  BY Zenon DEF TypeInv, ReaderTypes
<1>1. CASE UNCHANGED readerVars
  BY Zenon, <1>1 DEF readerVars, Stays
<1>2. ASSUME NEW r \in Readers, ReadIndex(r)
      PROVE  mixed \subseteq mixed' /\ (Begins(q) \/ Stays(q))
  <2>1. mixed \subseteq mixed'
    BY Zenon, <1>2 DEF ReadIndex
  <2>2. CASE q = r
    <3>1. pc'[q] = "wait" /\ start'[q] = commit
      BY Zenon, <1>0, <1>2, <2>2 DEF ReadIndex
    <3>2. commit' = commit /\ UNCHANGED <<queue, states, rd, channel>>
      BY Zenon, <1>2 DEF ReadIndex, nodeVars
    <3>3. q \notin mixed' => Asking = {}
      BY Zenon, <1>2, <2>2 DEF ReadIndex, UnderWay, Asking
    <3> QED BY Zenon, <2>1, <3>1, <3>2, <3>3 DEF Begins
  <2>3. CASE q # r
    BY Zenon, <1>0, <1>2, <2>1, <2>3 DEF ReadIndex, Stays
  <2> QED BY Zenon, <2>2, <2>3
<1>3. ASSUME NEW r \in Readers, WaitForReadState(r)
      PROVE  mixed \subseteq mixed' /\ (Takes(q) \/ Stays(q))
  BY Zenon, <1>0, <1>3 DEF WaitForReadState, nodeVars, Takes, Stays
<1>4. ASSUME NEW r \in Readers, ReadTimeout(r)
      PROVE  mixed \subseteq mixed' /\ (GivesUp(q) \/ Stays(q))
  BY Zenon, <1>0, <1>4 DEF ReadTimeout, GivesUp, Stays
<1>5. ASSUME NEW r \in Readers, Serve(r)
      PROVE  mixed \subseteq mixed' /\ (Answers(q) \/ Stays(q))
  BY Zenon, <1>0, <1>5 DEF Serve, Answers, Stays
<1>6. ASSUME NEW r \in Readers, Scan(r)
      PROVE  mixed \subseteq mixed' /\ (GivesUp(q) \/ Stays(q))
  BY Zenon, <1>0, <1>6 DEF Scan, GivesUp, Stays
<1>7. CASE Commit \/ Confirm \/ LoseAnswer \/ LoopStep \/ UNCHANGED vars
  BY Zenon, <1>1, <1>7 DEF Commit, Confirm, LoseAnswer, LoopStep, Ready, RespondBefore, ApplyEntry,
     ApplyDone, RespondAfter, Advance, vars
<1>8. ASSUME NEW r \in Readers, Receive(r) \/ LoseRequest(r) PROVE UNCHANGED readerVars
  BY Zenon, <1>8 DEF Receive, LoseRequest
<1> QED BY Zenon, <1>1, <1>2, <1>3, <1>4, <1>5, <1>6, <1>7, <1>8 DEF Next, ReaderStep

\* A reader on its own is given a state noted after it began.
LEMMA SoloStep ==
  ASSUME TypeInv, LoopInv, OrderInv, CountInv, SoloInv, [Next]_vars
  PROVE  SoloInv'
<1>0. SUFFICES ASSUME NEW q \in Readers
      PROVE  (/\ start[q] <= commit
              /\ q \notin mixed /\ pc[q] = "wait" => Noted(start[q])
              /\ q \notin mixed /\ pc[q] = "serve" => start[q] <= data
              /\ q \notin mixed /\ pc[q] = "done" => start[q] <= got[q])'
  BY Zenon DEF SoloInv
<1>1. /\ start[q] \in Nat /\ got[q] \in Nat /\ channel \in Seq(State)
  BY ReadsAssumption DEF TypeInv, ReaderTypes, PipeTypes
<1>2. /\ commit \in Nat /\ data \in Nat /\ commit' \in Nat /\ data' \in Nat /\ applied \in Nat
      /\ commit <= commit' /\ data <= data' /\ applied <= data
  BY Zenon, Growing DEF LoopInv
<1>3. start[q] <= commit /\ start[q] <= commit'
  BY <1>1, <1>2 DEF SoloInv
<1>4. mixed \subseteq mixed'
  BY Zenon, ReaderMoves
<1>5. CASE Stays(q)
  <2>1. q \notin mixed /\ pc[q] = "wait" => Noted(start[q])'
    <3> DEFINE n == start[q]
    <3>1. ASSUME q \notin mixed, pc[q] = "wait" PROVE Noted(start[q])
      BY Zenon, <3>1 DEF SoloInv
    <3>2. \A k \in Nat : k <= commit /\ Noted(k) => Noted(k)'
      BY Zenon, NotedStep
    <3>3. start'[q] = start[q]
      BY Zenon, <1>5 DEF Stays
    <3> QED BY Zenon, <1>1, <1>3, <3>1, <3>2, <3>3 DEF Noted
  <2>2. q \notin mixed /\ pc[q] = "serve" => start[q] <= data'
    BY <1>1, <1>2 DEF SoloInv
  <2> QED BY Zenon, <1>3, <1>4, <1>5, <2>1, <2>2 DEF Stays, SoloInv
<1>6. CASE Begins(q)
  <2>1. start'[q] <= commit'
    BY Zenon, <1>2, <1>6 DEF Begins
  <2>2. q \notin mixed' => Noted(start[q])'
    BY Zenon, <1>6, Empty DEF Begins, Noted
  <2> QED BY Zenon, <1>6, <2>1, <2>2 DEF Begins
<1>7. CASE Takes(q)
  <2>1. q \notin mixed => start[q] <= channel[1].index /\ channel[1].index <= applied
        /\ channel[1].index \in Nat
    <3>1. 1 \in DOMAIN channel
      BY Zenon, <1>1, <1>7, TailRest DEF Takes
    <3> QED BY Zenon, <1>1, <1>2, <1>7, <3>1, AtIndex DEF Takes, SoloInv, Noted, OrderInv
  <2>2. q \notin mixed => start[q] <= data'
    BY <1>1, <1>2, <2>1
  <2> QED BY Zenon, <1>3, <1>4, <1>7, <2>2 DEF Takes
<1>8. CASE Answers(q)
  BY Zenon, <1>3, <1>4, <1>8 DEF Answers, SoloInv
<1>9. CASE GivesUp(q)
  BY Zenon, <1>3, <1>9 DEF GivesUp
<1> QED BY Zenon, ReaderMoves, <1>5, <1>6, <1>7, <1>8, <1>9

-----------------------------------------------------------------------------
(* The invariant, and what follows from it. *)

\* It holds in the initial state.
LEMMA InitInv == Init => IInv
<1> SUFFICES ASSUME Init PROVE IInv
  BY Zenon
<1>1. /\ rd.states = <<>> /\ queue = <<>> /\ states = <<>> /\ channel = <<>>
      /\ rd \in [states : Seq(State), hi : 0..MaxIndex]
  BY ReadsAssumption, NoneKept DEF Init, NoReady
<1>2. PipeTypes
  BY <1>1, NoneKept DEF PipeTypes, Cap
<1>3. LoopTypes /\ LoopInv
  BY <1>1, ReadsAssumption DEF LoopTypes, LoopInv, Init
<1>4. ReaderTypes
  BY ReadsAssumption DEF ReaderTypes, Init
<1>5. OrderInv
  BY Zenon, <1>1, NoneKept DEF OrderInv
<1>6. sent = {} /\ Asking = {} /\ Sent = 0 /\ Cardinality(Asking) = 0 /\ IsFiniteSet(sent)
      /\ IsFiniteSet(Asking)
  <2>1. sent = {} /\ Asking = {}
    BY Zenon DEF Asking, Init
  <2> QED BY Zenon, <2>1, FS_EmptySet DEF Sent
<1>7. Queued = 0 /\ Answered = 0 /\ Held = 0 /\ Delivered = 0
  BY Zenon, <1>1, NoneKept DEF Queued, Answered, Held, Delivered
<1>8. CountInv
  BY <1>6, <1>7 DEF CountInv, UnderWayCount
<1>9. SoloInv
  BY ReadsAssumption DEF SoloInv, Init
<1> QED BY Zenon, <1>2, <1>3, <1>4, <1>5, <1>8, <1>9 DEF IInv, TypeInv

\* Every step keeps it.
LEMMA StepInv == IInv /\ [Next]_vars => IInv'
BY Zenon, TypeStep, LoopInvStep, OrderStep, CountStep, SoloStep DEF IInv

\* It therefore always holds.
LEMMA AlwaysInv == Spec => []IInv
BY InitInv, StepInv, PTL DEF Spec

\* Type correctness: in particular readStatesNotifier never exceeds its capacity,
\* because respondToReadStates waits for room.
THEOREM ReadsTypeCorrect == Spec => []TypeOK
<1>1. IInv => TypeOK
  BY Zenon DEF IInv, TypeInv, PipeTypes, LoopTypes, ReaderTypes, TypeOK
<1> QED BY <1>1, AlwaysInv, PTL

\* The states in readStatesNotifier are applied, and in the order of their indexes,
\* for any number of readers and any length of the log.
THEOREM StatesStayCovered == Spec => []StatesCovered
<1>1. IInv => StatesCovered
  BY Zenon DEF IInv, OrderInv, Sorted, UpTo, StatesCovered
<1> QED BY <1>1, AlwaysInv, PTL

\* A read that no other overlaps, and before which none has timed out, is
\* linearizable, whatever is lost or delayed.
THEOREM SoloReadsLinearizable == Spec => []SoloLinearizable
<1>1. IInv => SoloLinearizable
  BY Zenon, ReadsAssumption DEF IInv, TypeInv, ReaderTypes, SoloInv, SoloLinearizable
<1> QED BY <1>1, AlwaysInv, PTL
=============================================================================
