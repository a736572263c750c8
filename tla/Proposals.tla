----------------------------- MODULE Proposals -----------------------------
(***************************************************************************)
(* How a write travels through one node: proposeAndWait in distributed.go, *)
(* proposeHandler in node.go, listenProposeResponses, and what a change of *)
(* leadership does to them.                                                *)
(*                                                                         *)
(*    caller --reqCh--> proposeHandler --respCh--> listener --errCh--> caller *)
(*                           |                                             *)
(*                           +--> raft                                     *)
(*                                                                         *)
(* A command is its caller: a client, or the term whose StartServing       *)
(* persists the oracle's first upper bound.  The caller of the latter is   *)
(* the ready loop itself.  The timestamp a command carries is the subject  *)
(* of module TSO.                                                          *)
(***************************************************************************)
EXTENDS Integers, Sequences, FiniteSets

CONSTANTS
  Clients,   \* goroutines that write
  MaxTerms,  \* bound: how often this node may become the leader
  Drops,     \* whether raft may refuse a proposal (ErrProposalDropped)
  Removal    \* whether this node may be removed from the cluster

ASSUME ProposalsAssumption ==
  /\ MaxTerms \in Nat /\ Clients \cap Nat = {}
  /\ Drops \in BOOLEAN /\ Removal \in BOOLEAN

Terms    == 1..MaxTerms
Commands == Clients \cup Terms
Cap      == 1  \* the capacity of proposeReqNotifier and of proposeRespNotifier

VARIABLES
  pc,        \* where proposeAndWait is, for each command
  pending,   \* s.proposals: the commands whose errCh is registered
  closed,    \* the commands whose errCh is closed
  reqCh,     \* node.proposeReqNotifier
  respCh,    \* node.proposeRespNotifier
  handler,   \* proposeHandler: where it is, and its command
  listener,  \* listenProposeResponses of each term
  notifier,  \* s.leaderChangeNotifier, named by its term; 0 is nil
  ended,     \* the notifiers that are closed
  lead,      \* whether node.lead is this node
  term,      \* how often it has been
  removed,   \* node.selfRemoved
  loop,      \* where the ready loop is
  role,      \* raft: this member's role; "none" is a follower without a leader
  log,       \* raft: commands it accepted and has not lost
  applied,   \* raft: commands committed and applied
  dead       \* why the process has panicked

callerVars == <<pc, pending, closed>>
leadVars   == <<notifier, ended, lead, term, removed>>
raftVars   == <<role, log, applied>>
vars       == <<callerVars, reqCh, respCh, handler, listener, leadVars, loop, raftVars, dead>>

-----------------------------------------------------------------------------
(* proposeAndWait. *)

\* A client that found this node the leader, with its command stamped: errCh is
\* made and registered.
Store(c) ==
  /\ pc[c] = "idle" /\ lead
  /\ pc' = [pc EXCEPT ![c] = "push"]
  /\ pending' = pending \cup {c}
  /\ UNCHANGED <<closed, reqCh, respCh, handler, listener, leadVars, loop, raftVars, dead>>

\* MUTANT: the send on reqCh does not wait for room.
PushUnbounded(c) ==
  /\ pc[c] = "push"
  /\ reqCh' = Append(reqCh, c)
  /\ pc' = [pc EXCEPT ![c] = "wait"]
  /\ UNCHANGED <<pending, closed, respCh, handler, listener, leadVars, loop, raftVars, dead>>

\* The send on reqCh comes before the timer is started.
Push(c) ==
  /\ pc[c] = "push" /\ Len(reqCh) < Cap
  /\ reqCh' = Append(reqCh, c)
  /\ pc' = [pc EXCEPT ![c] = "wait"]
  /\ UNCHANGED <<pending, closed, respCh, handler, listener, leadVars, loop, raftVars, dead>>

\* Delete and close, then the caller returns.
Return(c, result) ==
  /\ pc' = [pc EXCEPT ![c] = result]
  /\ pending' = pending \ {c}
  /\ closed' = closed \cup {c}

Timeout(c) ==
  /\ pc[c] = "wait"
  /\ Return(c, "timeout")
  /\ UNCHANGED <<reqCh, respCh, handler, listener, leadVars, loop, raftVars, dead>>

-----------------------------------------------------------------------------
(* proposeHandler. *)

\* A proposal is taken; once the node is removed it is answered with an error.
HandlerTake ==
  /\ handler.pc = "select" /\ reqCh # <<>>
  /\ reqCh' = Tail(reqCh)
  /\ handler' = IF removed THEN [pc |-> "respond", cmd |-> Head(reqCh), ok |-> FALSE]
                ELSE [pc |-> "propose", cmd |-> Head(reqCh)]
  /\ UNCHANGED <<callerVars, respCh, listener, leadVars, loop, raftVars, dead>>

\* Propose waits while no leader is known.  The leader's raft appends the
\* command, a follower's forwards it, and the message may be lost.
HandlerPropose ==
  /\ handler.pc = "propose" /\ role # "none" /\ loop # "stopped"
  /\ \/ log' = log \cup {handler.cmd}
     \/ role = "follower" /\ UNCHANGED log
  /\ handler' = [pc |-> "respond", cmd |-> handler.cmd, ok |-> TRUE]
  /\ UNCHANGED <<callerVars, reqCh, respCh, listener, leadVars, loop, role, applied, dead>>

\* raft refuses the proposal, or is stopped: the handler ends with an error for
\* the ready loop.
HandlerRefused ==
  /\ handler.pc = "propose" /\ (Drops \/ loop = "stopped")
  /\ handler' = [pc |-> "error"]
  /\ UNCHANGED <<callerVars, reqCh, respCh, listener, leadVars, loop, raftVars, dead>>

\* MUTANT: the handler waits for the command to be applied before it answers.
HandlerRespondApplied ==
  /\ handler.pc = "respond" /\ Len(respCh) < Cap
  /\ handler.cmd \in applied
  /\ respCh' = Append(respCh, [cmd |-> handler.cmd, ok |-> handler.ok])
  /\ handler' = [pc |-> "select"]
  /\ UNCHANGED <<callerVars, reqCh, listener, leadVars, loop, raftVars, dead>>

HandlerRespond ==
  /\ handler.pc = "respond" /\ Len(respCh) < Cap
  /\ respCh' = Append(respCh, [cmd |-> handler.cmd, ok |-> handler.ok])
  /\ handler' = [pc |-> "select"]
  /\ UNCHANGED <<callerVars, reqCh, listener, leadVars, loop, raftVars, dead>>

-----------------------------------------------------------------------------
(* listenProposeResponses of term t. *)

\* The notifier is read when the goroutine first runs.
ListenerStart(t) ==
  /\ listener[t].pc = "starting"
  /\ listener' = [listener EXCEPT ![t] = [pc |-> "select", watch |-> notifier]]
  /\ UNCHANGED <<callerVars, reqCh, respCh, handler, leadVars, loop, raftVars, dead>>

\* A response is taken and its errCh looked up; without one it is dropped.
ListenerTake(t) ==
  /\ listener[t].pc = "select" /\ respCh # <<>>
  /\ respCh' = Tail(respCh)
  /\ listener' = IF Head(respCh).cmd \in pending
                 THEN [listener EXCEPT ![t] = [pc |-> "send", watch |-> @.watch, resp |-> Head(respCh)]]
                 ELSE listener
  /\ UNCHANGED <<callerVars, reqCh, handler, leadVars, loop, raftVars, dead>>

\* errCh has no buffer: caller and listener meet.
ListenerSend(t) ==
  /\ listener[t].pc = "send"
  /\ LET r == listener[t].resp
     IN  pc[r.cmd] = "wait" /\ Return(r.cmd, IF r.ok THEN "ok" ELSE "failed")
  /\ listener' = [listener EXCEPT ![t] = [pc |-> "select", watch |-> @.watch]]
  /\ UNCHANGED <<reqCh, respCh, handler, leadVars, loop, raftVars, dead>>

\* A send on a closed channel panics, also one that was already blocked.
ListenerPanic(t) ==
  /\ listener[t].pc = "send" /\ listener[t].resp.cmd \in closed
  /\ dead' = "send on closed channel"
  /\ UNCHANGED <<callerVars, reqCh, respCh, handler, listener, leadVars, loop, raftVars>>

\* MUTANT: the end of the term also interrupts a listener that holds a response.
ListenerExitHolding(t) ==
  /\ listener[t].pc \in {"select", "send"} /\ listener[t].watch \in ended
  /\ listener' = [listener EXCEPT ![t] = [pc |-> "exited"]]
  /\ UNCHANGED <<callerVars, reqCh, respCh, handler, leadVars, loop, raftVars, dead>>

ListenerExit(t) ==
  /\ listener[t].pc = "select" /\ listener[t].watch \in ended
  /\ listener' = [listener EXCEPT ![t] = [pc |-> "exited"]]
  /\ UNCHANGED <<callerVars, reqCh, respCh, handler, leadVars, loop, raftVars, dead>>

-----------------------------------------------------------------------------
(* The ready loop.  Once this node is removed it processes no Ready. *)

\* MUTANT: the listener of the new term is started only after StartServing.
GainListenerLate ==
  /\ loop = "select" /\ ~removed /\ role = "leader" /\ ~lead /\ term < MaxTerms
  /\ lead' = TRUE /\ term' = term + 1 /\ notifier' = term'
  /\ pc' = [pc EXCEPT ![term'] = "push"] /\ pending' = pending \cup {term'}
  /\ loop' = "serving"
  /\ UNCHANGED <<closed, reqCh, respCh, handler, listener, ended, removed, raftVars, dead>>

\* onLeaderChange, leadership gained: a notifier, a listener, and StartServing,
\* which proposes the oracle's upper bound from within the loop.
Gain ==
  /\ loop = "select" /\ ~removed /\ role = "leader" /\ ~lead /\ term < MaxTerms
  /\ lead' = TRUE /\ term' = term + 1 /\ notifier' = term'
  /\ listener' = [listener EXCEPT ![term'] = [pc |-> "starting"]]
  /\ pc' = [pc EXCEPT ![term'] = "push"] /\ pending' = pending \cup {term'}
  /\ loop' = "serving"
  /\ UNCHANGED <<closed, reqCh, respCh, handler, ended, removed, raftVars, dead>>

\* StartServing has returned; an error of it makes onLeaderChange panic.
Served ==
  /\ loop = "serving" /\ pc[term] \in {"ok", "failed", "timeout"}
  /\ IF pc[term] = "ok" THEN loop' = "select" /\ UNCHANGED dead
     ELSE dead' = "failed to start TSO" /\ UNCHANGED loop
  /\ UNCHANGED <<callerVars, reqCh, respCh, handler, listener, leadVars, raftVars>>

\* onLeaderChange, leadership lost.
Lose ==
  /\ loop = "select" /\ ~removed /\ role # "leader" /\ lead
  /\ lead' = FALSE
  /\ notifier' = 0 /\ ended' = ended \cup ({notifier} \ {0})
  /\ UNCHANGED <<callerVars, reqCh, respCh, handler, listener, term, removed, loop, raftVars, dead>>

\* applyEntries: a command of the log is committed and applied.
Apply(c) ==
  /\ loop = "select" /\ ~removed /\ c \in log \ applied
  /\ applied' = applied \cup {c}
  /\ UNCHANGED <<callerVars, reqCh, respCh, handler, listener, leadVars, loop, role, log, dead>>

\* scheduleSelfRemoval sends on stopNotifier from within the loop ...
RemoveSelf ==
  /\ Removal /\ loop = "select" /\ ~removed
  /\ removed' = TRUE /\ loop' = "stopping"
  /\ UNCHANGED <<callerVars, reqCh, respCh, handler, listener, notifier, ended, lead, term,
                 raftVars, dead>>

\* ... so that only proposeHandler can receive it, and the loop goes on.
HandlerStop ==
  /\ loop = "stopping" /\ handler.pc = "select"
  /\ handler' = [pc |-> "exited"] /\ loop' = "select"
  /\ UNCHANGED <<callerVars, reqCh, respCh, listener, leadVars, raftVars, dead>>

\* The loop receives the handler's error and stops the node.
LoopError ==
  /\ loop = "select" /\ handler.pc = "error"
  /\ handler' = [pc |-> "exited"] /\ loop' = "stopped"
  /\ UNCHANGED <<callerVars, reqCh, respCh, listener, leadVars, raftVars, dead>>

-----------------------------------------------------------------------------
(* raft: elections, and entries lost with a deposed leader. *)

Election ==
  /\ loop # "stopped"
  /\ \E r \in {"leader", "follower", "none"} \ {role} :
       /\ r = "leader" => term < MaxTerms \/ lead
       /\ role' = r
  /\ UNCHANGED <<callerVars, reqCh, respCh, handler, listener, leadVars, loop, log, applied, dead>>

LoseEntry(c) ==
  /\ c \in log \ applied /\ role # "leader"
  /\ log' = log \ {c}
  /\ UNCHANGED <<callerVars, reqCh, respCh, handler, listener, leadVars, loop, role, applied, dead>>

-----------------------------------------------------------------------------
Init ==
  /\ pc = [c \in Commands |-> "idle"] /\ pending = {} /\ closed = {}
  /\ reqCh = <<>> /\ respCh = <<>>
  /\ handler = [pc |-> "select"]
  /\ listener = [t \in Terms |-> [pc |-> "none"]]
  /\ notifier = 0 /\ ended = {} /\ lead = FALSE /\ term = 0 /\ removed = FALSE
  /\ loop = "select" /\ role = "none" /\ log = {} /\ applied = {} /\ dead = ""

HandlerStep == HandlerTake \/ HandlerPropose \/ HandlerRefused \/ HandlerRespond \/ HandlerStop

ListenerStep(t) ==
  \/ ListenerStart(t) \/ ListenerTake(t) \/ ListenerSend(t)
  \/ ListenerPanic(t) \/ ListenerExit(t)

LoopStep == Gain \/ Served \/ Lose \/ LoopError

Next ==
  /\ dead = ""
  /\ \/ \E c \in Clients : Store(c)
     \/ \E c \in Commands : Push(c) \/ Timeout(c) \/ Apply(c) \/ LoseEntry(c)
     \/ HandlerStep
     \/ \E t \in Terms : ListenerStep(t)
     \/ LoopStep \/ RemoveSelf \/ Election

Spec == Init /\ [][Next]_vars

\* Every goroutine that can run does, and a timer fires.  Nothing is assumed of
\* elections, of the network, or of when a command is committed.
Fairness ==
  /\ \A c \in Commands : WF_vars(dead = "" /\ Push(c)) /\ WF_vars(dead = "" /\ Timeout(c))
  /\ WF_vars(dead = "" /\ HandlerStep)
  /\ \A t \in Terms : WF_vars(dead = "" /\ ListenerStep(t))
  /\ WF_vars(dead = "" /\ LoopStep)

FairSpec == Spec /\ Fairness

-----------------------------------------------------------------------------
(* Properties. *)

\* The variables hold values of their types and no channel exceeds its capacity.
TypeOK ==
  /\ pc \in [Commands -> {"idle", "push", "wait", "ok", "failed", "timeout"}]
  /\ {pending, closed, log, applied} \subseteq SUBSET Commands
  /\ Len(reqCh) <= Cap /\ Len(respCh) <= Cap
  /\ handler.pc \in {"select", "propose", "respond", "error", "exited"}
  /\ \A t \in Terms : listener[t].pc \in {"none", "starting", "select", "send", "exited"}
  /\ notifier \in 0..MaxTerms /\ ended \subseteq Terms /\ term \in 0..MaxTerms
  /\ {lead, removed} \subseteq BOOLEAN
  /\ loop \in {"select", "serving", "stopping", "stopped"}

\* How many hold command c on its way from reqCh to its caller.
One(b) == IF b THEN 1 ELSE 0
Holders(c) ==
  One(\E i \in DOMAIN reqCh : reqCh[i] = c)
    + One(handler.pc \in {"propose", "respond"} /\ handler.cmd = c)
    + One(\E i \in DOMAIN respCh : respCh[i].cmd = c)
    + Cardinality({t \in Terms : listener[t].pc = "send" /\ listener[t].resp.cmd = c})

\* A caller never waits for an answer that cannot come: its command is with
\* exactly one of reqCh, proposeHandler, respCh and a listener, whatever changes
\* of leadership happen meanwhile, unless proposeHandler has ended.
NothingLost ==
  \A c \in Commands : pc[c] = "wait" =>
    \/ Holders(c) = 1
    \/ Holders(c) = 0 /\ handler.pc \in {"error", "exited"}

\* While this node leads, a listener serves it or is about to: StartServing,
\* which runs inside the ready loop, does not wait for an answer nobody delivers.
LeaderListens ==
  lead => listener[term].pc \in {"starting", "select", "send"}

\* Once the node leads for good and its handler is well, every caller returns.
StableLeaderAnswers ==
  \A c \in Commands :
    pc[c] = "push" ~>
      \/ pc[c] \in {"ok", "failed", "timeout"} \/ dead # ""
      \/ ~lead \/ role # "leader" \/ handler.pc \in {"error", "exited"}
=============================================================================
