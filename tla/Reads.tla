------------------------------- MODULE Reads -------------------------------
(***************************************************************************)
(* Reads on one node: waitForReadState of distributed.go, ReadIndex and    *)
(* WaitForReadState of node.go, and the part of processReady that hands    *)
(* out read states.                                                        *)
(*                                                                         *)
(* The writes are the indexes 1, 2, ... of the log.  A read returns the    *)
(* last index whose effect the local database holds.  It is linearizable   *)
(* when that is no less than the last index the cluster had committed as   *)
(* the read began.                                                         *)
(*                                                                         *)
(* The read states that reach this node come, through the leader, from     *)
(* raft: the leader notes its commit index for a request, has a quorum     *)
(* confirm it and answers.  Requests and answers may be lost.              *)
(***************************************************************************)
EXTENDS Integers, Sequences, FiniteSetsExt

CONSTANTS
  Readers,   \* goroutines that read once each
  Keys,      \* the keys they read, which are also the contexts of their requests
  MaxIndex   \* bound: the last index of the log

ASSUME ReadsAssumption == MaxIndex \in Nat

Cap == 2  \* the capacity of readStatesNotifier

VARIABLES
  commit,   \* raft: the last index that the cluster has committed
  sent,     \* raft: readers whose MsgReadIndex is on its way to the leader
  queue,    \* raft: the leader's unconfirmed requests, with the index noted
  states,   \* raft: read states of this node not yet in a Ready
  rd,       \* the Ready being processed: read states, and the last entry to apply
  loop,     \* where processReady is
  data,     \* the last index whose effect the database holds
  applied,  \* node.appliedIndex
  channel,  \* node.readStatesNotifier
  pc,       \* where each reader is
  key,      \* what it reads
  start,    \* history: commit when it asked for a read index
  got,      \* what it returned
  mixed     \* history: readers that overlapped another or began after a timeout

raftVars   == <<commit, sent, queue, states>>
nodeVars   == <<rd, loop, data, applied>>
readerVars == <<pc, key, start, got, mixed>>
vars       == <<raftVars, nodeVars, channel, readerVars>>

NoReady == [states |-> <<>>, hi |-> 0]

-----------------------------------------------------------------------------
(* raft *)

Commit ==
  /\ commit < MaxIndex /\ commit' = commit + 1
  /\ UNCHANGED <<sent, queue, states, nodeVars, channel, readerVars>>

\* The leader receives a request and notes its commit index.  It takes a request
\* with the context of one that is unconfirmed for a repetition.
Receive(r) ==
  /\ r \in sent /\ sent' = sent \ {r}
  /\ queue' = IF \E i \in DOMAIN queue : queue[i].key = key[r] THEN queue
              ELSE Append(queue, [key |-> key[r], index |-> commit])
  /\ UNCHANGED <<commit, states, nodeVars, channel, readerVars>>

\* A quorum confirms the oldest request, and the answer reaches this node.
Confirm ==
  /\ queue # <<>> /\ queue' = Tail(queue)
  /\ states' = Append(states, Head(queue))
  /\ UNCHANGED <<commit, sent, nodeVars, channel, readerVars>>

\* A request is lost, or there is no leader to send it to.
LoseRequest(r) ==
  /\ r \in sent /\ sent' = sent \ {r}
  /\ UNCHANGED <<commit, queue, states, nodeVars, channel, readerVars>>

\* An answer is lost, or the leader is deposed before it can answer.
LoseAnswer ==
  /\ queue # <<>> /\ queue' = Tail(queue)
  /\ UNCHANGED <<commit, sent, states, nodeVars, channel, readerVars>>

-----------------------------------------------------------------------------
(* processReady *)

\* A Ready with the read states that have come, committed entries, or both.
Ready ==
  /\ loop = "select"
  /\ \E hi \in applied..commit :
       /\ states # <<>> \/ hi > applied
       /\ rd' = [states |-> states, hi |-> hi]
  /\ states' = <<>>
  /\ loop' = "before"
  /\ UNCHANGED <<commit, sent, queue, data, applied, channel, readerVars>>

\* The read states that the applied index has reached.
Satisfied == {i \in DOMAIN rd.states : rd.states[i].index <= applied}

\* MUTANT: the newest state is delivered as soon as any is satisfied.
RespondNewest(next) ==
  /\ IF Satisfied = {} THEN UNCHANGED <<channel, rd>>
     ELSE /\ Len(channel) < Cap
          /\ channel' = Append(channel, rd.states[Len(rd.states)])
          /\ rd' = [rd EXCEPT !.states = <<>>]
  /\ loop' = next

\* MUTANT: the send does not wait for room.
RespondUnbounded(next) ==
  /\ IF Satisfied = {} THEN UNCHANGED <<channel, rd>>
     ELSE /\ channel' = Append(channel, rd.states[Max(Satisfied)])
          /\ rd' = [rd EXCEPT !.states = SubSeq(@, Max(Satisfied) + 1, Len(@))]
  /\ loop' = next

\* respondToReadStates: the newest satisfied state stands for those before it; the
\* send waits for room in the channel.
RespondToReadStates(next) ==
  /\ IF Satisfied = {} THEN UNCHANGED <<channel, rd>>
     ELSE /\ Len(channel) < Cap
          /\ channel' = Append(channel, rd.states[Max(Satisfied)])
          /\ rd' = [rd EXCEPT !.states = SubSeq(@, Max(Satisfied) + 1, Len(@))]
  /\ loop' = next

RespondBefore ==
  /\ loop = "before" /\ RespondToReadStates("apply")
  /\ UNCHANGED <<raftVars, data, applied, readerVars>>

\* applyEntries, one entry at a time; the applied index moves at the end.
ApplyEntry ==
  /\ loop = "apply" /\ data < rd.hi /\ data' = data + 1
  /\ UNCHANGED <<raftVars, rd, loop, applied, channel, readerVars>>

\* MUTANT: the applied index moves while entries are still to be applied.
ApplyDoneEarly ==
  /\ loop = "apply"
  /\ applied' = rd.hi /\ loop' = "after"
  /\ UNCHANGED <<raftVars, rd, data, channel, readerVars>>

ApplyDone ==
  /\ loop = "apply" /\ data = rd.hi
  /\ applied' = rd.hi /\ loop' = "after"
  /\ UNCHANGED <<raftVars, rd, data, channel, readerVars>>

RespondAfter ==
  /\ loop = "after" /\ RespondToReadStates("advance")
  /\ UNCHANGED <<raftVars, data, applied, readerVars>>

\* What is still not satisfied is forgotten with a warning.
Advance ==
  /\ loop = "advance" /\ loop' = "select" /\ rd' = NoReady
  /\ UNCHANGED <<raftVars, data, applied, channel, readerVars>>

-----------------------------------------------------------------------------
(* Readers *)

UnderWay == {r \in Readers : pc[r] \in {"wait", "serve"}}

\* Get, Exists and GetWithTxn: waitForReadState asks with the key as the context.
ReadIndex(r) ==
  /\ pc[r] = "idle"
  /\ start' = [start EXCEPT ![r] = commit]
  /\ mixed' = IF UnderWay = {} /\ \A q \in Readers : pc[q] # "failed" THEN mixed
              ELSE mixed \cup UnderWay \cup {r}
  /\ sent' = sent \cup {r}
  /\ pc' = [pc EXCEPT ![r] = "wait"]
  /\ UNCHANGED <<commit, queue, states, nodeVars, channel, key, got>>

\* WaitForReadState takes whatever state comes first.
WaitForReadState(r) ==
  /\ pc[r] = "wait" /\ channel # <<>>
  /\ channel' = Tail(channel)
  /\ pc' = [pc EXCEPT ![r] = "serve"]
  /\ UNCHANGED <<raftVars, nodeVars, key, start, got, mixed>>

ReadTimeout(r) ==
  /\ pc[r] = "wait"
  /\ pc' = [pc EXCEPT ![r] = "failed"]
  /\ UNCHANGED <<raftVars, nodeVars, channel, key, start, got, mixed>>

Serve(r) ==
  /\ pc[r] = "serve"
  /\ got' = [got EXCEPT ![r] = data]
  /\ pc' = [pc EXCEPT ![r] = "done"]
  /\ UNCHANGED <<raftVars, nodeVars, channel, key, start, mixed>>

\* Count, HasChild, GetByPrefix, GetKeysByPrefix, BulkGet and IterateByPrefix go
\* to the database at once.
Scan(r) ==
  /\ pc[r] = "idle"
  /\ got' = [got EXCEPT ![r] = data]
  /\ pc' = [pc EXCEPT ![r] = "scanned"]
  /\ UNCHANGED <<raftVars, nodeVars, channel, key, start, mixed>>

-----------------------------------------------------------------------------
Init ==
  /\ commit = 0 /\ sent = {} /\ queue = <<>> /\ states = <<>>
  /\ rd = NoReady /\ loop = "select" /\ data = 0 /\ applied = 0
  /\ channel = <<>>
  /\ pc = [r \in Readers |-> "idle"]
  /\ key \in [Readers -> Keys]
  /\ start = [r \in Readers |-> 0] /\ got = [r \in Readers |-> 0]
  /\ mixed = {}

LoopStep ==
  Ready \/ RespondBefore \/ ApplyEntry \/ ApplyDone \/ RespondAfter \/ Advance

ReaderStep(r) == WaitForReadState(r) \/ Serve(r)

Next ==
  \/ Commit \/ Confirm \/ LoseAnswer \/ LoopStep
  \/ \E r \in Readers :
       Receive(r) \/ LoseRequest(r) \/ ReadIndex(r) \/ ReaderStep(r)
         \/ ReadTimeout(r) \/ Scan(r)

Spec == Init /\ [][Next]_vars

-----------------------------------------------------------------------------
(* Properties *)

State == [key : Keys, index : 0..MaxIndex]

\* The variables hold values of their types, and the channel never more than
\* its capacity.
TypeOK ==
  /\ commit \in 0..MaxIndex /\ data \in 0..MaxIndex /\ applied \in 0..MaxIndex
  /\ sent \subseteq Readers
  /\ queue \in Seq(State) /\ states \in Seq(State) /\ channel \in Seq(State)
  /\ rd.states \in Seq(State) /\ rd.hi \in 0..MaxIndex
  /\ Len(channel) <= Cap
  /\ loop \in {"select", "before", "apply", "after", "advance"}
  /\ pc \in [Readers -> {"idle", "wait", "serve", "failed", "done", "scanned"}]
  /\ key \in [Readers -> Keys]
  /\ start \in [Readers -> 0..MaxIndex] /\ got \in [Readers -> 0..MaxIndex]
  /\ mixed \subseteq Readers

\* Whatever the order in which requests, answers, entries and timeouts come, a
\* state waits in the channel only when its index is applied, and the channel
\* holds the states in the order of their indexes: respondToReadStates does not
\* hand out one that the node has not reached, nor an older one after a newer.
StatesCovered ==
  /\ \A i \in DOMAIN channel : channel[i].index <= applied
  /\ \A i, j \in DOMAIN channel : i < j => channel[i].index <= channel[j].index

\* A read by Get, Exists or GetWithTxn that no other read overlaps, and before
\* which none has timed out, returns what was committed when it began, although
\* requests are lost, and the database runs ahead of the applied index: the state it takes
\* from readStatesNotifier is its own.
SoloLinearizable ==
  \A r \in Readers \ mixed : pc[r] = "done" => got[r] >= start[r]
=============================================================================
