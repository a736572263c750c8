------------------------------ MODULE Failover ------------------------------
(***************************************************************************)
(* The timestamp oracles of several leaders, one after the other: the      *)
(* bound that StartServing and UpdateWindow persist through Raft so that   *)
(* the next leader starts above every timestamp its predecessors used.     *)
(*                                                                         *)
(* Raft is the log of the leader of the term: what has been committed, and *)
(* what the leader has accepted since it was elected, of which the next    *)
(* election keeps some first part.  A node that leads no more learns it    *)
(* late, or not at all.                                                    *)
(*                                                                         *)
(*   phase       the oracle of a node                                      *)
(*   off         not started                                               *)
(*   starting    the node leads, StartServing has yet to read the bound    *)
(*   loaded      current is set, calibrate may sleep                       *)
(*   serving     StartServing has returned                                 *)
(*   closed      the node has learnt that it leads no more                 *)
(***************************************************************************)
EXTENDS Timestamps, Sequences, FiniteSets

CONSTANTS
  Nodes,       \* the members
  Window,      \* defaultUpperBoundWindow
  MaxTime,     \* bound: the clocks stop here
  MaxTerm,     \* bound: how many terms
  MaxCommits   \* bound: how many commit timestamps the leaders hand out

ASSUME FailoverAssumption ==
  /\ MaxLogical \in Nat \ {0} /\ Window \in Nat \ {0}
  /\ MaxTime \in Nat /\ MaxTerm \in Nat \ {0} /\ MaxCommits \in Nat

VARIABLES
  clock,    \* each node's wall clock
  term,     \* the Raft term
  log,      \* the entries of its leader's log
  base,     \* how many of them are from before its election
  applied,  \* how many of them a node had applied when it read the bound
  lead,     \* the term in which a node knows it leads, 0 if none
  phase,    \* each node's oracle
  current,  \* tso.current
  saved,    \* tso.saved.physical
  spin,     \* what allocate waits for, holding tso.mu
  window,   \* each node's windowUpdator
  outbox,   \* commands that have a commit timestamp and are not proposed
  fresh,    \* the terms whose StartServing read the highest bound of the log
  early,    \* the terms in which a commit did not wait for StartServing
  escaped,  \* the terms in which step 3 of allocate passed the bound
  commits   \* how many commit timestamps were handed out

raftVars   == <<term, log, base, applied>>
oracleVars == <<lead, phase, current, saved, spin>>
ghosts     == <<fresh, early, escaped>>
vars == <<clock, raftVars, oracleVars, window, outbox, ghosts, commits>>

Unheld  == [step |-> "no", bound |-> 0]
Free(n) == spin[n] = Unheld
NoWindow == [at |-> "idle", bound |-> 0]

-----------------------------------------------------------------------------
(* Elections, StartServing and Close *)

\* An election: what the old leader has accepted is kept up to some point.  In
\* handleLeaderChange isLeader becomes true, then onLeaderChange calls StartServing.
Elect(n) ==
  /\ term < MaxTerm /\ lead[n] = 0
  /\ term' = term + 1
  /\ \E k \in base .. Len(log) : log' = SubSeq(log, 1, k) /\ base' = k
  /\ lead' = [lead EXCEPT ![n] = term']
  /\ phase' = [phase EXCEPT ![n] = "starting"]
  /\ UNCHANGED <<clock, applied, current, saved, spin, window, outbox, ghosts, commits>>

\* time.Now(): the clock of n shows now.
Now(n, now) == now \in clock[n] .. MaxTime /\ clock' = [clock EXCEPT ![n] = now]

\* The value of persistentKey after the first k entries: that of the highest timestamp.
BoundAt(k) ==
  LET newest == {i \in 1 .. k : /\ log[i].bound > 0
                                /\ \A j \in 1 .. k : log[j].bound > 0 => log[j].ts <= log[i].ts}
  IN  IF newest = {} THEN 0 ELSE log[CHOOSE i \in newest : TRUE].bound

\* Where the oracle starts.  (Now is a mutant: with the clock.)
StartAtNow(last, now) == now
StartAt(last, now) == IF now <= last THEN last + 1 ELSE now

\* StartServing reads the bound from the local database, where k entries are applied,
\* and starts above it.
LoadBound(n, now, k) ==
  LET last == BoundAt(k)
  IN  /\ phase[n] = "starting" /\ Now(n, now)
      /\ k \in applied[n] .. base /\ applied' = [applied EXCEPT ![n] = k]
      /\ saved' = IF last = 0 THEN saved ELSE [saved EXCEPT ![n] = last]
      /\ current' = [current EXCEPT ![n] = Reset(StartAt(last, now))]
      /\ fresh' = IF \A i \in 1 .. base : log[i].bound <= last
                  THEN fresh \cup {lead[n]} ELSE fresh
      /\ phase' = [phase EXCEPT ![n] = "loaded"]
      /\ UNCHANGED <<term, log, base, lead, spin, window, outbox, early, escaped, commits>>

\* What raft takes.  A command from an earlier term is late: its node has been elected
\* again, or forwards it to the leader.
Entry(t, ts, bound) ==
  [ts |-> Compose(ts), physical |-> ts.physical, bound |-> bound, term |-> t,
   prompt |-> t = term]

\* calibrate has slept until the clock is there; persistUpperboundOnStartup proposes
\* the bound, which counts once raft has accepted it, and StartServing returns.
PersistUpperbound(n, now) ==
  LET ts == Incr(current[n])
      bound == current[n].physical + Window
  IN  /\ phase[n] = "loaded" /\ Now(n, now) /\ now >= current[n].physical /\ Free(n)
      /\ current' = [current EXCEPT ![n] = ts]
      /\ log' = Append(log, Entry(lead[n], ts, bound))
      /\ saved' = [saved EXCEPT ![n] = bound]
      /\ phase' = [phase EXCEPT ![n] = "serving"]
      /\ UNCHANGED <<term, base, applied, lead, spin, window, outbox, ghosts, commits>>

\* The leader learns that it leads no more: TSO.Close stops the updater if it is idle.
Lose(n) ==
  /\ lead[n] # 0 /\ lead[n] # term /\ phase[n] = "serving"
  /\ lead' = [lead EXCEPT ![n] = 0]
  /\ phase' = [phase EXCEPT ![n] = "closed"]
  /\ UNCHANGED <<clock, raftVars, current, saved, spin, window, outbox, ghosts, commits>>

\* The process of n dies, for whatever reason or because StartServing has failed, and
\* comes up again: what it had not proposed is lost, its database is not.
Crash(n) ==
  /\ lead[n] # 0
  /\ lead' = [lead EXCEPT ![n] = 0] /\ phase' = [phase EXCEPT ![n] = "off"]
  /\ current' = [current EXCEPT ![n] = Reset(0)] /\ saved' = [saved EXCEPT ![n] = 0]
  /\ spin' = [spin EXCEPT ![n] = Unheld] /\ window' = [window EXCEPT ![n] = NoWindow]
  /\ outbox' = {c \in outbox : c.node # n}
  /\ UNCHANGED <<clock, raftVars, ghosts, commits>>

-----------------------------------------------------------------------------
(* allocate, for a client (bound = 0) or for UpdateWindow.  A client that passed *)
(* isLeader may call it in any phase.                                        *)

Advanced(n, now) == IF now > current[n].physical THEN Reset(now) ELSE current[n]

\* Step 4: the timestamp after from.
Stamp(n, from, bound) ==
  /\ current' = [current EXCEPT ![n] = Incr(from)]
  /\ outbox' = outbox \cup {[node |-> n, term |-> lead[n], ts |-> Incr(from), bound |-> bound]}
  /\ early' = IF phase[n] # "serving" THEN early \cup {lead[n]} ELSE early
  /\ escaped' = IF from.physical >= saved[n] THEN escaped \cup {lead[n]} ELSE escaped
  /\ spin' = [spin EXCEPT ![n] = Unheld]

\* Steps 2 and 3 begin to spin.
Spin(n, from, step, bound) ==
  /\ spin' = [spin EXCEPT ![n] = [step |-> step, bound |-> bound]]
  /\ current' = [current EXCEPT ![n] = from]
  /\ UNCHANGED <<outbox, early, escaped>>

\* Steps 1 to 4 up to the first spin or to the end.
Allocate(n, now, bound) ==
  LET from == Advanced(n, now)
  IN  /\ lead[n] # 0 /\ Free(n) /\ Now(n, now)
      /\ \/ from.physical >= saved[n] /\ Spin(n, from, "bound", bound)
         \/ /\ from.physical < saved[n] /\ ExceedLogicalMax(from)
            /\ Spin(n, from, "logical", bound)
         \/ /\ from.physical < saved[n] /\ ~ExceedLogicalMax(from)
            /\ Stamp(n, from, bound)
      /\ UNCHANGED <<raftVars, lead, phase, saved, fresh>>

\* A client's Commit.
ClientCommit(n, now) ==
  /\ commits < MaxCommits /\ commits' = commits + 1
  /\ Allocate(n, now, 0) /\ UNCHANGED window

\* Step 2 ends: the clock is below the bound.  Step 3 ends: the clock has moved on.
SpinEnds(n, now) ==
  /\ Now(n, now)
  /\ \/ spin[n].step = "bound" /\ now < saved[n]
     \/ spin[n].step = "logical" /\ now > current[n].physical
  /\ Stamp(n, Reset(now), spin[n].bound)
  /\ UNCHANGED <<raftVars, lead, phase, saved, fresh, window, commits>>

\* proposeHandler hands a command to raft.
Propose(c) ==
  /\ c \in outbox /\ outbox' = outbox \ {c}
  /\ log' = Append(log, Entry(c.term, c.ts, c.bound))
  /\ window' = IF c.bound = 0 THEN window
               ELSE [window EXCEPT ![c.node].at = "proposed"]
  /\ UNCHANGED <<clock, term, base, applied, oracleVars, ghosts, commits>>

-----------------------------------------------------------------------------
(* windowUpdator *)

\* UpdateWindow finds the bound too close.
UpdateWindow(n) ==
  /\ phase[n] = "serving" /\ window[n] = NoWindow /\ Free(n)
  /\ saved[n] = 0 \/ current[n].physical + Window > saved[n]
  /\ window' = [window EXCEPT ![n] = [at |-> "begun", bound |-> current[n].physical + Window]]
  /\ UNCHANGED <<clock, raftVars, oracleVars, outbox, ghosts, commits>>

\* Its transaction commits.
WindowCommit(n, now) ==
  /\ window[n].at = "begun"
  /\ commits < MaxCommits /\ commits' = commits + 1
  /\ Allocate(n, now, window[n].bound)
  /\ window' = [window EXCEPT ![n].at = "stamped"]

\* Raft has accepted the command: the bound counts.  (Early is a mutant: it counts when
\* the command has its timestamp.)
WindowProposedEarly(n) ==
  /\ window[n].at = "stamped" /\ Free(n)
  /\ saved' = [saved EXCEPT ![n] = window[n].bound]
  /\ window' = [window EXCEPT ![n] = NoWindow]
  /\ UNCHANGED <<clock, raftVars, lead, phase, current, spin, outbox, ghosts, commits>>
WindowProposed(n) ==
  /\ window[n].at = "proposed" /\ Free(n)
  /\ saved' = [saved EXCEPT ![n] = window[n].bound]
  /\ window' = [window EXCEPT ![n] = NoWindow]
  /\ UNCHANGED <<clock, raftVars, lead, phase, current, spin, outbox, ghosts, commits>>

\* NewTransaction failed: not the leader any more, or no answer in time.
WindowFailed(n) ==
  /\ window[n].at \in {"begun", "proposed"}
  /\ window' = [window EXCEPT ![n] = NoWindow]
  /\ UNCHANGED <<clock, raftVars, oracleVars, outbox, ghosts, commits>>

-----------------------------------------------------------------------------
Init ==
  /\ clock = [n \in Nodes |-> 1]
  /\ term = 0 /\ log = <<>> /\ base = 0
  /\ applied = [n \in Nodes |-> 0]
  /\ lead = [n \in Nodes |-> 0] /\ phase = [n \in Nodes |-> "off"]
  /\ current = [n \in Nodes |-> Reset(0)] /\ saved = [n \in Nodes |-> 0]
  /\ spin = [n \in Nodes |-> Unheld]
  /\ window = [n \in Nodes |-> NoWindow] /\ outbox = {}
  /\ fresh = {} /\ early = {} /\ escaped = {} /\ commits = 0

Next ==
  \/ \E n \in Nodes, now \in 1 .. MaxTime :
       \/ (\E k \in 0 .. base : LoadBound(n, now, k)) \/ PersistUpperbound(n, now)
       \/ ClientCommit(n, now) \/ WindowCommit(n, now) \/ SpinEnds(n, now)
  \/ \E n \in Nodes :
       \/ Elect(n) \/ Lose(n) \/ Crash(n)
       \/ UpdateWindow(n) \/ WindowProposed(n) \/ WindowFailed(n)
  \/ \E c \in outbox : Propose(c)

Spec == Init /\ [][Next]_vars

-----------------------------------------------------------------------------
(* Properties *)

\* The entries that were proposed in the term their timestamp is from, by a leader
\* whose timestamps all came after StartServing and stayed below its bound.
Sound(e) == e.prompt /\ e.term \notin early \cup escaped

\* Although a bound counts as saved as soon as raft has accepted it, and the commands
\* of many goroutines reach the log in any order, every committed timestamp lies below
\* a bound committed before it (tso.go:119).
BoundCovers ==
  \A i \in DOMAIN log : Sound(log[i]) =>
    \E j \in 1 .. i : log[j].bound > log[i].physical

\* Timestamps go up from leader to leader, whatever their clocks show, if the later one
\* read the highest bound of the log when it started (tso.go:109 "unique, monotonically
\* increasing timestamps").
TermsOrdered ==
  \A i, j \in DOMAIN log :
    /\ Sound(log[i]) /\ Sound(log[j]) /\ log[i].term < log[j].term
    /\ log[j].term \in fresh
    => log[i].ts < log[j].ts
=============================================================================
