--------------------------- MODULE ProposalsProofs ---------------------------
(***************************************************************************)
(* Proofs about Proposals, for any clients and any number of terms: that   *)
(* a caller in proposeAndWait never waits for an answer that has been lost *)
(* on the way through the two channels and the two goroutines, and that a  *)
(* leader's responses always have a listener.                              *)
(***************************************************************************)
EXTENDS Proposals, FiniteSetTheorems, TLAPS

\* A leaf that names no prover goes to the SMT solver, which has 30 seconds for it.
USE SMTT(30)

-----------------------------------------------------------------------------
(* The inductive invariant. *)

Responses == [cmd : Commands, ok : BOOLEAN]

CallerTypes ==
  /\ pc \in [Commands -> {"idle", "push", "wait", "ok", "failed", "timeout"}]
  /\ pending \in SUBSET Commands /\ closed \in SUBSET Commands
  /\ log \in SUBSET Commands /\ applied \in SUBSET Commands

ChannelTypes ==
  /\ reqCh = <<>> \/ \E c \in Commands : reqCh = <<c>>
  /\ respCh = <<>> \/ \E r \in Responses : respCh = <<r>>

HandlerTypes ==
  /\ handler.pc \in {"select", "propose", "respond", "error", "exited"}
  /\ handler.pc \in {"propose", "respond"} => handler.cmd \in Commands
  /\ handler.pc = "respond" => handler.ok \in BOOLEAN

ListenerTypes ==
  /\ listener = [t \in Terms |-> listener[t]]
  /\ \A t \in Terms :
       /\ listener[t].pc \in {"none", "starting", "select", "send", "exited"}
       /\ listener[t].pc = "send" => listener[t].resp \in Responses

LeadTypes ==
  /\ notifier \in 0..MaxTerms /\ ended \in SUBSET Terms /\ term \in 0..MaxTerms
  /\ lead \in BOOLEAN /\ removed \in BOOLEAN
  /\ loop \in {"select", "serving", "stopping", "stopped"}

TypeInv == CallerTypes /\ ChannelTypes /\ HandlerTypes /\ ListenerTypes /\ LeadTypes

\* Who may hold a command on its way.
InReq(c)         == reqCh = <<c>>
InHandler(c)     == handler.pc \in {"propose", "respond"} /\ handler.cmd = c
InResp(c)        == \E b \in BOOLEAN : respCh = <<[cmd |-> c, ok |-> b]>>
InListener(t, c) == listener[t].pc = "send" /\ listener[t].resp.cmd = c

InService(c) == \E t \in Terms : InListener(t, c)
Travels(c)   == InReq(c) \/ InHandler(c) \/ InResp(c) \/ InService(c)

\* A command is with one holder at a time.
Single(c) ==
  /\ InReq(c) => ~InHandler(c) /\ ~InResp(c) /\ ~InService(c)
  /\ InHandler(c) => ~InResp(c) /\ ~InService(c)
  /\ InResp(c) => ~InService(c)
  /\ \A t, u \in Terms : InListener(t, c) /\ InListener(u, c) => t = u

\* It is with nobody before its caller has sent it, and while the caller waits it is with
\* someone, unless proposeHandler has ended.
Kept(c) ==
  /\ pc[c] \in {"idle", "push"} => ~Travels(c)
  /\ pc[c] = "wait" => Travels(c) \/ handler.pc \in {"error", "exited"}

TravelInv == \A c \in Commands : Single(c) /\ Kept(c)

\* errCh is registered exactly from Store to Return: a listener drops no awaited answer.
Registered == \A c \in Commands : c \in pending <=> pc[c] \in {"push", "wait"}

\* The terms to come are untouched, and the leader's listener watches the open notifier.
Tenure ==
  /\ \A t \in Terms : t > term => pc[t] = "idle" /\ listener[t].pc = "none"
  /\ \A t \in ended : t <= term
  /\ lead =>
       /\ term \in Terms /\ notifier = term /\ term \notin ended
       /\ listener[term].pc \in {"starting", "select", "send"}
       /\ listener[term].pc # "starting" => listener[term].watch = term

IInv == TypeInv /\ TravelInv /\ Registered /\ Tenure

-----------------------------------------------------------------------------
(* Lemmas. *)

\* What the channels of capacity one do.
LEMMA Singletons ==
  ASSUME NEW x
  PROVE  /\ Len(<<x>>) = 1 /\ Head(<<x>>) = x /\ Tail(<<x>>) = <<>>
         /\ Append(<<>>, x) = <<x>> /\ <<x>> # <<>>
         /\ DOMAIN <<x>> = {1} /\ <<x>>[1] = x
OBVIOUS

\* The empty channel.
LEMMA Empty == Len(<<>>) = 0 /\ DOMAIN <<>> = {}
OBVIOUS

\* A send finds the request channel empty and leaves what was sent in it.
LEMMA Room ==
  ASSUME NEW q, NEW S, q = <<>> \/ \E c \in S : q = <<c>>, Len(q) < Cap
  PROVE  q = <<>> /\ Cap = 1
BY Singletons, Empty DEF Cap

\* The initial state: nothing is under way and nobody leads.
LEMMA InitHolds ==
  ASSUME Init
  PROVE  IInv
<1>0. MaxTerms \in Nat
  BY Zenon, ProposalsAssumption
<1>1. CallerTypes /\ ChannelTypes /\ HandlerTypes /\ Registered
  BY Zenon DEF Init, CallerTypes, ChannelTypes, HandlerTypes, Registered
<1>2. ListenerTypes /\ LeadTypes
  <2>1. listener = [t \in Terms |-> [pc |-> "none"]]
    BY Zenon DEF Init
  <2>2. \A t \in Terms : listener[t] = [pc |-> "none"]
    BY Zenon, <2>1
  <2>3. listener = [t \in Terms |-> listener[t]]
    BY Zenon, <2>1
  <2>4. ListenerTypes
    BY <2>2, <2>3 DEF ListenerTypes
  <2>5. LeadTypes
    <3>1. 0 \in 0..MaxTerms
      BY <1>0
    <3>2. lead \in BOOLEAN /\ removed \in BOOLEAN
      BY Zenon DEF Init
    <3> QED BY Zenon, <3>1, <3>2 DEF Init, LeadTypes
  <2> QED BY Zenon, <2>4, <2>5
<1>3. Tenure
  BY Zenon, <1>0 DEF Init, Tenure, Commands, Terms
<1>4. ASSUME NEW c \in Commands
      PROVE  ~Travels(c) /\ \A t \in Terms : ~InListener(t, c)
  <2>1. ~InReq(c) /\ ~InResp(c)
    BY Zenon, Singletons DEF Init, InReq, InResp
  <2>2. ~InHandler(c) /\ \A t \in Terms : ~InListener(t, c)
    BY Zenon DEF Init, InHandler, InListener
  <2> QED BY Zenon, <2>1, <2>2 DEF Travels, InService
<1>5. TravelInv
  <2>1. \A c \in Commands : pc[c] = "idle"
    BY Zenon DEF Init
  <2> QED BY Zenon, <1>4, <2>1 DEF TravelInv, Single, Kept, Travels, InService
<1> QED BY Zenon, <1>1, <1>2, <1>3, <1>5 DEF IInv, TypeInv

-----------------------------------------------------------------------------
(* Types. *)

\* The callers' steps and raft's keep the types.
LEMMA CallersTyped ==
  ASSUME TypeInv, NEW c \in Commands,
         Store(c) \/ Push(c) \/ Timeout(c) \/ Apply(c) \/ LoseEntry(c)
  PROVE  TypeInv'
<1>1. UNCHANGED <<handler, listener, notifier, ended, lead, term, removed, loop>>
  BY Zenon DEF Store, Push, Timeout, Apply, LoseEntry, leadVars
<1>2. HandlerTypes' /\ ListenerTypes' /\ LeadTypes'
  BY Zenon, <1>1 DEF TypeInv, HandlerTypes, ListenerTypes, LeadTypes
<1>3. CallerTypes'
  <2>0. /\ pc \in [Commands -> {"idle", "push", "wait", "ok", "failed", "timeout"}]
        /\ pending \in SUBSET Commands /\ closed \in SUBSET Commands
        /\ log \in SUBSET Commands /\ applied \in SUBSET Commands
    BY Zenon DEF TypeInv, CallerTypes
  <2>1. CASE Store(c)
    BY Zenon, <2>0, <2>1 DEF CallerTypes, Store, raftVars
  <2>2. CASE Push(c)
    BY Zenon, <2>0, <2>2 DEF CallerTypes, Push, raftVars
  <2>3. CASE Timeout(c)
    BY Zenon, <2>0, <2>3 DEF CallerTypes, Timeout, Return, raftVars
  <2>4. CASE Apply(c) \/ LoseEntry(c)
    <3>1. log' \in SUBSET Commands /\ applied' \in SUBSET Commands
      BY Zenon, <2>0, <2>4 DEF Apply, LoseEntry
    <3> QED BY Zenon, <2>0, <2>4, <3>1 DEF CallerTypes, Apply, LoseEntry, callerVars
  <2> QED BY Zenon, <2>1, <2>2, <2>3, <2>4
<1>4. ChannelTypes'
  <2>1. CASE Push(c)
    <3>1. reqCh = <<>> /\ reqCh' = Append(reqCh, c) /\ respCh' = respCh
      BY Zenon, <2>1, Room DEF Push, TypeInv, ChannelTypes
    <3>2. reqCh' = <<c>>
      BY Zenon, <3>1, Singletons
    <3> QED BY Zenon, <3>1, <3>2 DEF TypeInv, ChannelTypes
  <2>2. CASE UNCHANGED <<reqCh, respCh>>
    BY Zenon, <2>2 DEF TypeInv, ChannelTypes
  <2> QED BY Zenon, <2>1, <2>2 DEF Store, Timeout, Apply, LoseEntry
<1> QED BY Zenon, <1>2, <1>3, <1>4 DEF TypeInv

\* The steps of proposeHandler keep the types.
LEMMA HandlerTyped ==
  ASSUME TypeInv, HandlerStep \/ LoopError
  PROVE  TypeInv'
<1>1. UNCHANGED <<pc, pending, closed, applied, listener, notifier, ended, lead, term, removed>>
  BY Zenon DEF HandlerStep, HandlerTake, HandlerPropose, HandlerRefused, HandlerRespond,
               HandlerStop, LoopError, callerVars, leadVars, raftVars
<1>2. ListenerTypes'
  BY Zenon, <1>1 DEF TypeInv, ListenerTypes
<1>3. LeadTypes'
  BY Zenon, <1>1 DEF TypeInv, LeadTypes, HandlerStep, HandlerTake, HandlerPropose, HandlerRefused,
              HandlerRespond, HandlerStop, LoopError
<1>4. CallerTypes'
  <2>1. log' \in SUBSET Commands
    BY Zenon DEF TypeInv, CallerTypes, HandlerTypes, HandlerStep, HandlerTake, HandlerPropose,
           HandlerRefused, HandlerRespond, HandlerStop, LoopError, raftVars
  <2> QED BY Zenon, <1>1, <2>1 DEF TypeInv, CallerTypes
<1>5. ChannelTypes' /\ HandlerTypes'
  <2>1. CASE HandlerTake
    <3>1. PICK d \in Commands : reqCh = <<d>>
      BY Zenon, <2>1 DEF HandlerTake, TypeInv, ChannelTypes
    <3>2. reqCh' = <<>> /\ Head(reqCh) = d /\ respCh' = respCh
      BY Zenon, <2>1, <3>1, Singletons DEF HandlerTake
    <3>3. ChannelTypes'
      BY Zenon, <3>2 DEF TypeInv, ChannelTypes
    <3> QED BY Zenon, <2>1, <3>2, <3>3 DEF HandlerTake, HandlerTypes
  <2>2. CASE HandlerRespond
    <3>1. handler.pc = "respond" /\ [cmd |-> handler.cmd, ok |-> handler.ok] \in Responses
      BY Zenon, <2>2 DEF HandlerRespond, TypeInv, HandlerTypes, Responses
    <3>2. respCh = <<>>
      BY Zenon, <2>2, Room DEF HandlerRespond, TypeInv, ChannelTypes
    <3>3. respCh' = <<[cmd |-> handler.cmd, ok |-> handler.ok]>> /\ reqCh' = reqCh
      BY Zenon, <2>2, <3>2, Singletons DEF HandlerRespond
    <3>4. ChannelTypes'
      BY Zenon, <3>1, <3>3 DEF TypeInv, ChannelTypes
    <3> QED BY Zenon, <2>2, <3>4 DEF HandlerRespond, HandlerTypes
  <2>3. CASE HandlerPropose \/ HandlerRefused \/ HandlerStop \/ LoopError
    <3>1. UNCHANGED <<reqCh, respCh>>
      BY Zenon, <2>3 DEF HandlerPropose, HandlerRefused, HandlerStop, LoopError
    <3>2. ChannelTypes'
      BY Zenon, <3>1 DEF TypeInv, ChannelTypes
    <3>3. HandlerTypes'
      <4>1. CASE HandlerPropose
        <5>1. handler.cmd \in Commands
          BY Zenon, <4>1 DEF HandlerPropose, TypeInv, HandlerTypes
        <5> QED BY Zenon, <4>1, <5>1 DEF HandlerPropose, HandlerTypes
      <4>2. CASE HandlerRefused \/ HandlerStop \/ LoopError
        <5>1. handler'.pc \in {"error", "exited"}
          BY <4>2 DEF HandlerRefused, HandlerStop, LoopError
        <5> QED BY Zenon, <5>1 DEF HandlerTypes
      <4> QED BY Zenon, <2>3, <4>1, <4>2
    <3> QED BY Zenon, <3>2, <3>3
  <2> QED BY Zenon, <2>1, <2>2, <2>3 DEF HandlerStep
<1> QED BY Zenon, <1>2, <1>3, <1>4, <1>5 DEF TypeInv

\* The listeners' steps keep the types.
LEMMA ListenersTyped ==
  ASSUME TypeInv, NEW t \in Terms, ListenerStep(t)
  PROVE  TypeInv'
<1>1. UNCHANGED <<log, applied, reqCh, handler, notifier, ended, lead, term, removed, loop>>
  BY Zenon DEF ListenerStep, ListenerStart, ListenerTake, ListenerSend, ListenerPanic,
               ListenerExit, leadVars, raftVars
<1>2. HandlerTypes' /\ LeadTypes'
  BY Zenon, <1>1 DEF TypeInv, HandlerTypes, LeadTypes
<1>a. ASSUME NEW new, listener' = [listener EXCEPT ![t] = new],
             new.pc \in {"none", "starting", "select", "send", "exited"},
             new.pc = "send" => new.resp \in Responses
      PROVE  ListenerTypes'
  BY Zenon, <1>a DEF TypeInv, ListenerTypes
<1>3. CASE ListenerStart(t) \/ ListenerExit(t)
  <2>1. CallerTypes' /\ ChannelTypes'
    BY Zenon, <1>1, <1>3 DEF ListenerStart, ListenerExit, callerVars, TypeInv, CallerTypes, ChannelTypes
  <2>2. ListenerTypes'
    BY Zenon, <1>3, <1>a DEF ListenerStart, ListenerExit
  <2> QED BY Zenon, <1>2, <2>1, <2>2 DEF TypeInv
<1>4. CASE ListenerTake(t)
  <2>1. PICK r \in Responses : respCh = <<r>>
    BY Zenon, <1>4 DEF ListenerTake, TypeInv, ChannelTypes
  <2>2. respCh' = <<>> /\ Head(respCh) = r
    BY Zenon, <1>4, <2>1, Singletons DEF ListenerTake
  <2>3. CallerTypes' /\ ChannelTypes'
    BY Zenon, <1>1, <1>4, <2>2 DEF ListenerTake, callerVars, TypeInv, CallerTypes, ChannelTypes
  <2>4. \/ listener' = listener
        \/ listener' = [listener EXCEPT ![t] = [pc |-> "send", watch |-> listener[t].watch, resp |-> r]]
    BY Zenon, <1>4, <2>2 DEF ListenerTake, TypeInv, ListenerTypes
  <2>5. ListenerTypes'
    <3>1. CASE listener' = listener
      BY Zenon, <3>1 DEF TypeInv, ListenerTypes
    <3> QED BY Zenon, <1>a, <2>1, <2>4, <3>1
  <2> QED BY Zenon, <1>2, <2>3, <2>5 DEF TypeInv
<1>5. CASE ListenerSend(t)
  <2>1. CallerTypes'
    BY <1>1, <1>5 DEF ListenerSend, Return, TypeInv, CallerTypes, ListenerTypes, Responses
  <2>2. ChannelTypes'
    BY Zenon, <1>1, <1>5 DEF ListenerSend, TypeInv, ChannelTypes
  <2>3. listener' = [listener EXCEPT ![t] = [pc |-> "select", watch |-> listener[t].watch]]
    BY Zenon, <1>5 DEF ListenerSend, TypeInv, ListenerTypes
  <2>4. ListenerTypes'
    BY Zenon, <1>a, <2>3
  <2> QED BY Zenon, <1>2, <2>1, <2>2, <2>4 DEF TypeInv
<1>6. CASE ListenerPanic(t)
  BY Zenon, <1>1, <1>6 DEF ListenerPanic, callerVars, TypeInv, CallerTypes, ChannelTypes,
                           HandlerTypes, ListenerTypes, LeadTypes
<1> QED BY Zenon, <1>3, <1>4, <1>5, <1>6 DEF ListenerStep

\* The steps of the ready loop, a removal and an election keep the types.
LEMMA LoopTyped ==
  ASSUME TypeInv, Gain \/ Served \/ Lose \/ RemoveSelf \/ Election
  PROVE  TypeInv'
<1>0. MaxTerms \in Nat
  BY Zenon, ProposalsAssumption
<1>1. UNCHANGED <<log, applied, reqCh, respCh, handler, closed>>
  BY Zenon DEF Gain, Served, Lose, RemoveSelf, Election, callerVars, raftVars
<1>2. HandlerTypes' /\ ChannelTypes'
  BY Zenon, <1>1 DEF TypeInv, HandlerTypes, ChannelTypes
<1>3. CASE Gain
  <2>1. term + 1 \in Terms /\ term' = term + 1
    BY <1>0, <1>3 DEF Gain, TypeInv, LeadTypes, Terms
  <2>2. CallerTypes'
    BY Zenon, <1>1, <1>3, <2>1 DEF Gain, TypeInv, CallerTypes, Commands
  <2>3. ListenerTypes'
    BY Zenon, <1>3, <2>1 DEF Gain, TypeInv, ListenerTypes
  <2>4. LeadTypes'
    BY <1>3, <2>1 DEF Gain, TypeInv, LeadTypes, Terms
  <2> QED BY Zenon, <1>2, <2>2, <2>3, <2>4 DEF TypeInv
<1>4. CASE Served \/ Lose \/ RemoveSelf \/ Election
  <2>1. CallerTypes' /\ ListenerTypes'
    BY Zenon, <1>1, <1>4 DEF Served, Lose, RemoveSelf, Election, callerVars, TypeInv, CallerTypes,
                             ListenerTypes
  <2>2. LeadTypes'
    <3>0. /\ notifier \in 0..MaxTerms /\ ended \in SUBSET Terms /\ term \in 0..MaxTerms
          /\ lead \in BOOLEAN /\ removed \in BOOLEAN
          /\ loop \in {"select", "serving", "stopping", "stopped"}
      BY Zenon DEF TypeInv, LeadTypes
    <3>1. CASE Served
      <4>1. loop' = loop \/ loop' = "select"
        BY Zenon, <3>1 DEF Served
      <4> QED BY Zenon, <3>0, <3>1, <4>1 DEF Served, leadVars, LeadTypes
    <3>2. CASE Lose
      <4>1. {notifier} \ {0} \subseteq Terms /\ 0 \in 0..MaxTerms
        BY <1>0, <3>0 DEF Terms
      <4>2. ended' \in SUBSET Terms
        BY Zenon, <3>0, <3>2, <4>1 DEF Lose
      <4>3. lead' \in BOOLEAN
        BY Zenon, <3>2 DEF Lose
      <4> QED BY Zenon, <3>0, <3>2, <4>1, <4>2, <4>3 DEF Lose, LeadTypes
    <3>3. CASE RemoveSelf
      BY Zenon, <3>0, <3>3 DEF RemoveSelf, LeadTypes
    <3>4. CASE Election
      BY Zenon, <3>0, <3>4 DEF Election, leadVars, LeadTypes
    <3> QED BY Zenon, <1>4, <3>1, <3>2, <3>3, <3>4
  <2> QED BY Zenon, <1>2, <2>1, <2>2 DEF TypeInv
<1> QED BY Zenon, <1>3, <1>4

\* Every step keeps the types.
LEMMA TypesStep ==
  ASSUME TypeInv, [Next]_vars
  PROVE  TypeInv'
<1>1. CASE UNCHANGED vars
  BY Zenon, <1>1 DEF vars, callerVars, leadVars, raftVars, TypeInv, CallerTypes, ChannelTypes,
                     HandlerTypes, ListenerTypes, LeadTypes
<1>2. Clients \subseteq Commands
  BY Zenon DEF Commands
<1> QED BY Zenon, <1>1, <1>2, CallersTyped, HandlerTyped, ListenersTyped, LoopTyped
           DEF Next, LoopStep

-----------------------------------------------------------------------------
(* Where a command is. *)

Done == {"ok", "failed", "timeout"}
Over == {"error", "exited"}

\* A command that stays where it is keeps its one holder, also when its caller returns or is
\* about to send it.
LEMMA Undisturbed ==
  ASSUME NEW c \in Commands, Single(c), Kept(c),
         InReq(c)' <=> InReq(c), InHandler(c)' <=> InHandler(c), InResp(c)' <=> InResp(c),
         \A t \in Terms : InListener(t, c)' <=> InListener(t, c),
         handler.pc \in Over => handler'.pc \in Over,
         \/ pc'[c] = pc[c]
         \/ pc[c] = "idle" /\ pc'[c] = "push"
         \/ pc'[c] \in Done
  PROVE  Single(c)' /\ Kept(c)'
<1>1. InService(c)' <=> InService(c)
  BY Zenon DEF InService
<1>2. Travels(c)' <=> Travels(c)
  BY Zenon, <1>1 DEF Travels
<1>3. Single(c)'
  BY Zenon, <1>1 DEF Single
<1>4. /\ pc'[c] \in {"idle", "push"} => ~Travels(c)
      /\ pc'[c] = "wait" => Travels(c) \/ handler'.pc \in {"error", "exited"}
  BY Zenon DEF Kept, Done, Over
<1> QED BY Zenon, <1>2, <1>3, <1>4 DEF Kept

\* What does not touch a holder leaves its command there.
LEMMA Holding ==
  ASSUME NEW c
  PROVE  /\ reqCh' = reqCh => (InReq(c)' <=> InReq(c))
         /\ handler' = handler => (InHandler(c)' <=> InHandler(c))
         /\ respCh' = respCh => (InResp(c)' <=> InResp(c))
         /\ listener' = listener => \A t \in Terms : InListener(t, c)' <=> InListener(t, c)
BY Zenon DEF InReq, InHandler, InResp, InListener

\* The caller's send puts a command into reqCh that nobody held.
LEMMA PushTravels ==
  ASSUME TypeInv, TravelInv, NEW d \in Commands, Push(d)
  PROVE  TravelInv'
<1>1. reqCh = <<>> /\ reqCh' = <<d>>
  BY Zenon, Room, Singletons DEF Push, TypeInv, ChannelTypes
<1>2. /\ respCh' = respCh /\ handler' = handler /\ listener' = listener
      /\ pc[d] = "push" /\ pc'[d] = "wait" /\ \A c \in Commands \ {d} : pc'[c] = pc[c]
  BY Zenon DEF Push, TypeInv, CallerTypes
<1>3. ASSUME NEW c \in Commands
      PROVE  Single(c)' /\ Kept(c)'
  <2>1. Single(c) /\ Kept(c)
    BY Zenon DEF TravelInv
  <2>2. /\ InHandler(c)' <=> InHandler(c)
        /\ InResp(c)' <=> InResp(c)
        /\ \A t \in Terms : InListener(t, c)' <=> InListener(t, c)
    BY Zenon, <1>2, Holding
  <2>3. InReq(c)' <=> c = d
    BY Zenon, <1>1, Singletons DEF InReq
  <2>4. CASE c = d
    <3>1. ~Travels(c)
      BY Zenon, <1>2, <2>1, <2>4 DEF Kept
    <3>2. /\ InReq(c)' /\ ~InHandler(c)' /\ ~InResp(c)' /\ ~InService(c)'
          /\ \A t \in Terms : ~InListener(t, c)'
      BY Zenon, <2>2, <2>3, <2>4, <3>1 DEF Travels, InService
    <3>3. Single(c)' /\ Travels(c)'
      BY Zenon, <3>2 DEF Single, Travels
    <3>4. pc'[c] \notin {"idle", "push"}
      BY Zenon, <1>2, <2>4
    <3> QED BY Zenon, <3>3, <3>4 DEF Kept
  <2>5. CASE c # d
    <3>1. ~InReq(c)
      BY Zenon, <1>1, Singletons DEF InReq
    <3> QED BY Zenon, <1>2, <2>1, <2>2, <2>3, <2>5, <3>1, Undisturbed
  <2> QED BY Zenon, <2>4, <2>5
<1> QED BY Zenon, <1>3 DEF TravelInv

\* proposeHandler takes the command out of reqCh and then holds it itself.
LEMMA TakeTravels ==
  ASSUME TypeInv, TravelInv, HandlerTake
  PROVE  TravelInv'
<1>0. PICK d \in Commands : reqCh = <<d>>
  BY Zenon DEF HandlerTake, TypeInv, ChannelTypes
<1>1. reqCh' = <<>> /\ Head(reqCh) = d
  BY Zenon, <1>0, Singletons DEF HandlerTake
<1>2. /\ handler.pc = "select" /\ handler'.pc \in {"propose", "respond"} /\ handler'.cmd = d
  BY Zenon, <1>1 DEF HandlerTake
<1>3. respCh' = respCh /\ listener' = listener /\ pc' = pc
  BY Zenon DEF HandlerTake, callerVars
<1>4. ASSUME NEW c \in Commands
      PROVE  Single(c)' /\ Kept(c)'
  <2>1. Single(c) /\ Kept(c)
    BY Zenon DEF TravelInv
  <2>2. /\ InResp(c)' <=> InResp(c)
        /\ \A t \in Terms : InListener(t, c)' <=> InListener(t, c)
        /\ InService(c)' <=> InService(c)
    BY Zenon, <1>3, Holding DEF InService
  <2>3. ~InReq(c)' /\ ~InHandler(c) /\ (InReq(c) <=> c = d) /\ (InHandler(c)' <=> c = d)
    BY Zenon, <1>0, <1>1, <1>2, Singletons DEF InReq, InHandler
  <2>4. CASE c = d
    <3>1. Single(c)' /\ Travels(c)'
      BY Zenon, <2>1, <2>2, <2>3, <2>4 DEF Single, Travels
    <3>2. pc'[c] \notin {"idle", "push"}
      BY Zenon, <1>3, <2>1, <2>3, <2>4 DEF Kept, Travels
    <3> QED BY Zenon, <3>1, <3>2 DEF Kept
  <2>5. CASE c # d
    <3>1. handler.pc \notin Over
      BY Zenon, <1>2 DEF Over
    <3> QED BY Zenon, <1>3, <2>1, <2>2, <2>3, <2>5, <3>1, Undisturbed
  <2> QED BY Zenon, <2>4, <2>5
<1> QED BY Zenon, <1>4 DEF TravelInv

\* Propose leaves the command with the handler.
LEMMA ProposeTravels ==
  ASSUME TypeInv, TravelInv, HandlerPropose
  PROVE  TravelInv'
<1>1. /\ handler.pc = "propose" /\ handler'.pc = "respond" /\ handler'.cmd = handler.cmd
      /\ handler.pc \notin Over
  BY Zenon DEF HandlerPropose, Over
<1>2. reqCh' = reqCh /\ respCh' = respCh /\ listener' = listener /\ pc' = pc
  BY Zenon DEF HandlerPropose, callerVars
<1>3. ASSUME NEW c \in Commands
      PROVE  Single(c)' /\ Kept(c)'
  <2>1. InHandler(c)' <=> InHandler(c)
    BY Zenon, <1>1 DEF InHandler
  <2> QED BY Zenon, <1>1, <1>2, <1>3, <2>1, Holding, Undisturbed DEF TravelInv
<1> QED BY Zenon, <1>3 DEF TravelInv

\* A refused proposal is lost, and the handler with it.
LEMMA RefusedTravels ==
  ASSUME TypeInv, TravelInv, HandlerRefused
  PROVE  TravelInv'
<1>1. handler'.pc \in Over /\ ~(handler'.pc \in {"propose", "respond"})
  BY Zenon DEF HandlerRefused, Over
<1>2. reqCh' = reqCh /\ respCh' = respCh /\ listener' = listener /\ pc' = pc
  BY Zenon DEF HandlerRefused, callerVars
<1>3. ASSUME NEW c \in Commands
      PROVE  Single(c)' /\ Kept(c)'
  <2>1. Single(c) /\ Kept(c)
    BY Zenon, <1>3 DEF TravelInv
  <2>2. /\ InReq(c)' <=> InReq(c)
        /\ InResp(c)' <=> InResp(c)
        /\ \A t \in Terms : InListener(t, c)' <=> InListener(t, c)
        /\ InService(c)' <=> InService(c)
    BY Zenon, <1>2, Holding DEF InService
  <2>3. ~InHandler(c)'
    BY Zenon, <1>1 DEF InHandler
  <2>4. Single(c)'
    BY Zenon, <2>1, <2>2, <2>3 DEF Single
  <2>5. Travels(c)' => Travels(c)
    BY Zenon, <2>2, <2>3 DEF Travels
  <2> QED BY Zenon, <1>1, <1>2, <2>1, <2>4, <2>5 DEF Kept, Over
<1> QED BY Zenon, <1>3 DEF TravelInv

\* The handler's answer carries its command into respCh.
LEMMA RespondTravels ==
  ASSUME TypeInv, TravelInv, HandlerRespond
  PROVE  TravelInv'
<1> DEFINE d == handler.cmd
<1>1. /\ handler.pc = "respond" /\ d \in Commands /\ handler.ok \in BOOLEAN
      /\ handler' = [pc |-> "select"]
  BY Zenon DEF HandlerRespond, TypeInv, HandlerTypes
<1>2. respCh = <<>>
  BY Zenon, Room DEF HandlerRespond, TypeInv, ChannelTypes
<1>3. respCh' = <<[cmd |-> d, ok |-> handler.ok]>>
  BY Zenon, <1>2, Singletons DEF HandlerRespond
<1>4. reqCh' = reqCh /\ listener' = listener /\ pc' = pc
  BY Zenon DEF HandlerRespond, callerVars
<1>5. ASSUME NEW c \in Commands
      PROVE  Single(c)' /\ Kept(c)'
  <2>1. Single(c) /\ Kept(c)
    BY Zenon DEF TravelInv
  <2>2. /\ InReq(c)' <=> InReq(c)
        /\ \A t \in Terms : InListener(t, c)' <=> InListener(t, c)
        /\ InService(c)' <=> InService(c)
    BY Zenon, <1>4, Holding DEF InService
  <2>3. ~InHandler(c)' /\ (InHandler(c) <=> c = d)
    BY Zenon, <1>1 DEF InHandler
  <2>4. ~InResp(c)
    BY Zenon, <1>2 DEF InResp
  <2>5. InResp(c)' <=> c = d
    <3>1. ASSUME NEW b \in BOOLEAN, [cmd |-> d, ok |-> handler.ok] = [cmd |-> c, ok |-> b]
          PROVE  c = d
      BY Zenon, <3>1
    <3>2. ASSUME NEW b \in BOOLEAN, respCh' = <<[cmd |-> c, ok |-> b]>>
          PROVE  c = d
      <4> HIDE DEF d
      <4>1. Head(respCh') = [cmd |-> d, ok |-> handler.ok] /\ Head(respCh') = [cmd |-> c, ok |-> b]
        BY Zenon, <1>3, <3>2, Singletons
      <4> QED BY Zenon, <3>1, <4>1
    <3>3. c = d => InResp(c)'
      BY Zenon, <1>1, <1>3 DEF InResp
    <3> QED BY Zenon, <3>2, <3>3 DEF InResp
  <2>6. CASE c = d
    <3>1. Single(c)' /\ Travels(c)'
      BY Zenon, <2>1, <2>2, <2>3, <2>5, <2>6 DEF Single, Travels
    <3>2. pc'[c] \notin {"idle", "push"}
      BY Zenon, <1>4, <2>1, <2>3, <2>6 DEF Kept, Travels
    <3> QED BY Zenon, <3>1, <3>2 DEF Kept
  <2>7. CASE c # d
    <3>1. handler.pc \notin Over
      BY Zenon, <1>1 DEF Over
    <3> QED BY Zenon, <1>4, <2>1, <2>2, <2>3, <2>4, <2>5, <2>7, <3>1, Undisturbed
  <2> QED BY Zenon, <2>6, <2>7
<1> QED BY Zenon, <1>5 DEF TravelInv

\* The listener takes an answer to hand it over, and drops it only when its caller has returned.
LEMMA ServeTravels ==
  ASSUME TypeInv, TravelInv, Registered, NEW t \in Terms, ListenerTake(t)
  PROVE  TravelInv'
<1>0. PICK r \in Responses : respCh = <<r>>
  BY Zenon DEF ListenerTake, TypeInv, ChannelTypes
<1>1. /\ respCh' = <<>> /\ Head(respCh) = r /\ listener[t].pc = "select"
  BY Zenon, <1>0, Singletons DEF ListenerTake
<1> DEFINE d == r.cmd
<1>2. d \in Commands /\ r.ok \in BOOLEAN /\ r = [cmd |-> d, ok |-> r.ok]
  BY Zenon DEF Responses
<1>3. reqCh' = reqCh /\ handler' = handler /\ pc' = pc
  BY Zenon DEF ListenerTake, callerVars
<1>4. ASSUME NEW c \in Commands
      PROVE  Single(c)' /\ Kept(c)'
  <2>1. Single(c) /\ Kept(c)
    BY Zenon DEF TravelInv
  <2>2. /\ InReq(c)' <=> InReq(c)
        /\ InHandler(c)' <=> InHandler(c)
    BY Zenon, <1>3, Holding
  <2>3. ~InResp(c)'
    BY Zenon, <1>1 DEF InResp
  <2>4. InResp(c) <=> c = d
    <3>1. ASSUME NEW b \in BOOLEAN, respCh = <<[cmd |-> c, ok |-> b]>>
          PROVE  c = d
      <4>1. r = [cmd |-> c, ok |-> b]
        BY Zenon, <1>1, <3>1, Singletons
      <4> QED BY Zenon, <4>1
    <3>2. c = d => InResp(c)
      BY Zenon, <1>0, <1>2 DEF InResp
    <3> QED BY Zenon, <3>1, <3>2 DEF InResp
  <2>5. CASE d \in pending
    <3>1. listener' = [listener EXCEPT ![t] = [pc |-> "send", watch |-> listener[t].watch, resp |-> r]]
      BY Zenon, <1>1, <2>5 DEF ListenerTake, TypeInv, ListenerTypes
    <3>2. \A u \in Terms : InListener(u, c)' <=> InListener(u, c) \/ (u = t /\ c = d)
      BY Zenon, <1>1, <3>1 DEF InListener, TypeInv, ListenerTypes
    <3>3. CASE c = d
      <4>1. ~InReq(c)' /\ ~InHandler(c)' /\ InService(c)'
        BY Zenon, <2>1, <2>2, <2>4, <3>2, <3>3 DEF Single, InService
      <4>2. \A u \in Terms : InListener(u, c)' => u = t
        BY Zenon, <2>1, <2>4, <3>2, <3>3 DEF Single, InService
      <4>3. Single(c)' /\ Travels(c)'
        BY Zenon, <2>3, <4>1, <4>2 DEF Single, Travels
      <4>4. pc'[c] \notin {"idle", "push"}
        BY Zenon, <1>3, <2>1, <2>4, <3>3 DEF Kept, Travels
      <4> QED BY Zenon, <4>3, <4>4 DEF Kept
    <3>4. CASE c # d
      BY Zenon, <1>3, <2>1, <2>2, <2>3, <2>4, <3>2, <3>4, Undisturbed
    <3> QED BY Zenon, <3>3, <3>4
  <2>6. CASE d \notin pending
    <3>1. listener' = listener
      BY Zenon, <1>1, <2>6 DEF ListenerTake
    <3>2. /\ \A u \in Terms : InListener(u, c)' <=> InListener(u, c)
          /\ InService(c)' <=> InService(c)
      BY Zenon, <3>1, Holding DEF InService
    <3>3. CASE c = d
      <4>1. pc[c] \notin {"push", "wait"}
        BY Zenon, <2>6, <3>3 DEF Registered
      <4>2. pc[c] \notin {"idle", "push"}
        BY Zenon, <2>1, <2>4, <3>3 DEF Kept, Travels
      <4>3. pc'[c] \notin {"idle", "push"} /\ pc'[c] # "wait"
        BY Zenon, <1>3, <4>1, <4>2
      <4>4. Single(c)'
        BY Zenon, <2>1, <2>2, <2>3, <3>2 DEF Single
      <4> QED BY Zenon, <4>3, <4>4 DEF Kept
    <3>4. CASE c # d
      BY Zenon, <1>3, <2>1, <2>2, <2>3, <2>4, <3>2, <3>4, Undisturbed
    <3> QED BY Zenon, <3>3, <3>4
  <2> QED BY Zenon, <2>5, <2>6
<1> QED BY Zenon, <1>4 DEF TravelInv

\* Caller and listener meet: the command is with nobody, and its caller has returned.
LEMMA SendTravels ==
  ASSUME TypeInv, TravelInv, NEW t \in Terms, ListenerSend(t)
  PROVE  TravelInv'
<1> DEFINE d == listener[t].resp.cmd
<1>1. d \in Commands /\ listener[t].pc = "send"
  BY Zenon DEF ListenerSend, TypeInv, ListenerTypes, Responses
<1>2. pc'[d] \in Done /\ \A c \in Commands \ {d} : pc'[c] = pc[c]
  BY Zenon, <1>1 DEF ListenerSend, Return, TypeInv, CallerTypes, Done
<1>3. reqCh' = reqCh /\ handler' = handler /\ respCh' = respCh
  BY Zenon DEF ListenerSend
<1>4. listener' = [listener EXCEPT ![t] = [pc |-> "select", watch |-> listener[t].watch]]
  BY Zenon DEF ListenerSend, TypeInv, ListenerTypes
<1>5. ASSUME NEW c \in Commands
      PROVE  Single(c)' /\ Kept(c)'
  <2>1. Single(c) /\ Kept(c)
    BY Zenon DEF TravelInv
  <2>2. /\ InReq(c)' <=> InReq(c)
        /\ InHandler(c)' <=> InHandler(c)
        /\ InResp(c)' <=> InResp(c)
    BY Zenon, <1>3, Holding
  <2>3. \A u \in Terms : InListener(u, c)' <=> InListener(u, c) /\ u # t
    BY Zenon, <1>4 DEF InListener, TypeInv, ListenerTypes
  <2>4. CASE c = d
    <3>1. InService(c)' => InService(c)
      BY Zenon, <2>3 DEF InService
    <3>2. Single(c)'
      BY Zenon, <2>1, <2>2, <2>3, <3>1 DEF Single
    <3>3. pc'[c] \notin {"idle", "push"} /\ pc'[c] # "wait"
      BY Zenon, <1>2, <2>4 DEF Done
    <3> QED BY Zenon, <3>2, <3>3 DEF Kept
  <2>5. CASE c # d
    <3>1. \A u \in Terms : InListener(u, c)' <=> InListener(u, c)
      BY Zenon, <2>3, <2>5 DEF InListener
    <3>2. pc'[c] = pc[c]
      BY Zenon, <1>2, <2>5
    <3> QED BY Zenon, <1>3, <2>1, <2>2, <3>1, <3>2, Undisturbed
  <2> QED BY Zenon, <2>4, <2>5
<1> QED BY Zenon, <1>5 DEF TravelInv

\* Every other step leaves every command where it is.
LEMMA QuietTravels ==
  ASSUME TypeInv, TravelInv, UNCHANGED <<reqCh, respCh>>,
         \A c \in Commands : InHandler(c)' <=> InHandler(c),
         \A t \in Terms, c \in Commands : InListener(t, c)' <=> InListener(t, c),
         handler.pc \in Over => handler'.pc \in Over,
         \A c \in Commands :
           \/ pc'[c] = pc[c]
           \/ pc[c] = "idle" /\ pc'[c] = "push"
           \/ pc'[c] \in Done
  PROVE  TravelInv'
<1>1. \A c \in Commands : (InReq(c)' <=> InReq(c)) /\ (InResp(c)' <=> InResp(c))
  BY Zenon, Holding
<1> QED BY Zenon, <1>1, Undisturbed DEF TravelInv

\* The callers' steps other than the send, and raft's.
LEMMA CallersTravel ==
  ASSUME TypeInv, TravelInv, NEW d \in Commands,
         Store(d) \/ Timeout(d) \/ Apply(d) \/ LoseEntry(d)
  PROVE  TravelInv'
<1>1. UNCHANGED <<reqCh, respCh, handler, listener>>
  BY Zenon DEF Store, Timeout, Apply, LoseEntry
<1>2. \A c \in Commands :
        \/ pc'[c] = pc[c]
        \/ pc[c] = "idle" /\ pc'[c] = "push"
        \/ pc'[c] \in Done
  BY Zenon DEF Store, Timeout, Apply, LoseEntry, Return, callerVars, TypeInv, CallerTypes, Done
<1> QED BY Zenon, <1>1, <1>2, Holding, QuietTravels

\* A handler that holds nothing stops.
LEMMA StopsTravel ==
  ASSUME TypeInv, TravelInv, HandlerStop \/ LoopError
  PROVE  TravelInv'
<1>1. UNCHANGED <<reqCh, respCh, listener, pc>>
  BY Zenon DEF HandlerStop, LoopError, callerVars
<1>2. handler'.pc \in Over /\ \A c \in Commands : ~InHandler(c) /\ ~InHandler(c)'
  BY DEF HandlerStop, LoopError, InHandler, Over
<1> QED BY Zenon, <1>1, <1>2, Holding, QuietTravels

\* A listener that starts, exits or panics holds nothing, or keeps it.
LEMMA ListenersTravel ==
  ASSUME TypeInv, TravelInv, NEW t \in Terms,
         ListenerStart(t) \/ ListenerExit(t) \/ ListenerPanic(t)
  PROVE  TravelInv'
<1>1. UNCHANGED <<reqCh, respCh, handler, pc>>
  BY Zenon DEF ListenerStart, ListenerExit, ListenerPanic, callerVars
<1>2. \A u \in Terms, c \in Commands : InListener(u, c)' <=> InListener(u, c)
  <2>1. CASE ListenerStart(t) \/ ListenerExit(t)
    <3>1. /\ listener[t].pc # "send" /\ listener'[t].pc # "send"
          /\ \A u \in Terms \ {t} : listener'[u] = listener[u]
      BY <2>1 DEF ListenerStart, ListenerExit, TypeInv, ListenerTypes
    <3> QED BY Zenon, <3>1 DEF InListener
  <2>2. CASE ListenerPanic(t)
    BY Zenon, <2>2 DEF ListenerPanic, InListener
  <2> QED BY Zenon, <2>1, <2>2
<1> QED BY Zenon, <1>1, <1>2, Holding, QuietTravels

\* The ready loop moves no command: what it starts, the listener of a new term and the
\* proposal of the upper bound, was idle.
LEMMA LoopTravels ==
  ASSUME TypeInv, TravelInv, Tenure, Gain \/ Served \/ Lose \/ RemoveSelf \/ Election
  PROVE  TravelInv'
<1>0. MaxTerms \in Nat
  BY Zenon, ProposalsAssumption
<1>1. UNCHANGED <<reqCh, respCh, handler>>
  BY Zenon DEF Gain, Served, Lose, RemoveSelf, Election
<1>2. CASE Gain
  <2>1. /\ term' = term + 1 /\ term' \in Terms /\ term' \in Commands
        /\ pc[term'] = "idle" /\ listener[term'].pc = "none"
    BY <1>0, <1>2 DEF Gain, TypeInv, LeadTypes, Terms, Commands, Tenure
  <2>2. \A u \in Terms, c \in Commands : InListener(u, c)' <=> InListener(u, c)
    BY Zenon, <1>2, <2>1 DEF Gain, InListener, TypeInv, ListenerTypes
  <2>3. \A c \in Commands : pc'[c] = pc[c] \/ (pc[c] = "idle" /\ pc'[c] = "push")
    BY Zenon, <1>2, <2>1 DEF Gain, TypeInv, CallerTypes
  <2> QED BY Zenon, <1>1, <2>2, <2>3, Holding, QuietTravels
<1>3. CASE Served \/ Lose \/ RemoveSelf \/ Election
  <2>1. UNCHANGED <<listener, pc>>
    BY Zenon, <1>3 DEF Served, Lose, RemoveSelf, Election, callerVars
  <2> QED BY Zenon, <1>1, <2>1, Holding, QuietTravels
<1> QED BY Zenon, <1>2, <1>3

\* Every step keeps each command with one holder, and with one while its caller waits.
LEMMA TravelStep ==
  ASSUME IInv, [Next]_vars
  PROVE  TravelInv'
<1>0. TypeInv /\ TravelInv /\ Registered /\ Tenure
  BY Zenon DEF IInv
<1>1. CASE UNCHANGED vars
  <2>1. UNCHANGED <<reqCh, respCh, handler, listener, pc>>
    BY Zenon, <1>1 DEF vars, callerVars
  <2> QED BY Zenon, <1>0, <2>1, Holding, QuietTravels
<1>2. Clients \subseteq Commands
  BY DEF Commands
<1>3. CASE Next
  BY Zenon, <1>0, <1>2, <1>3, PushTravels, TakeTravels, ProposeTravels, RefusedTravels,
     RespondTravels, ServeTravels, SendTravels, CallersTravel, StopsTravel, ListenersTravel,
     LoopTravels DEF Next, HandlerStep, ListenerStep, LoopStep
<1> QED BY Zenon, <1>1, <1>3

-----------------------------------------------------------------------------
(* Registrations and terms. *)

\* A command is registered from Store to Return and at no other time.
LEMMA RegisteredStep ==
  ASSUME IInv, [Next]_vars
  PROVE  Registered'
<1>0. /\ pc \in [Commands -> {"idle", "push", "wait", "ok", "failed", "timeout"}]
      /\ \A c \in Commands : c \in pending <=> pc[c] \in {"push", "wait"}
  BY Zenon DEF IInv, TypeInv, CallerTypes, Registered
<1>1. CASE UNCHANGED <<pc, pending>>
  BY Zenon, <1>0, <1>1 DEF Registered
<1>2. ASSUME NEW d \in Commands, NEW v \in {"push", "wait"},
             pc' = [pc EXCEPT ![d] = v], pending' = pending \cup {d}
      PROVE  Registered'
  BY Zenon, <1>0, <1>2 DEF Registered
<1>3. ASSUME NEW d \in Commands, NEW v \in Done, Return(d, v)
      PROVE  Registered'
  BY Zenon, <1>0, <1>3 DEF Registered, Return, Done
<1>4. ASSUME NEW d \in Clients, Store(d)
      PROVE  Registered'
  <2>1. pc' = [pc EXCEPT ![d] = "push"] /\ pending' = pending \cup {d} /\ d \in Commands
    BY Zenon, <1>4 DEF Store, Commands
  <2> QED BY Zenon, <1>2, <2>1
<1>5. ASSUME NEW d \in Commands, Push(d)
      PROVE  Registered'
  <2>1. pc' = [pc EXCEPT ![d] = "wait"] /\ pending' = pending \cup {d}
    BY Zenon, <1>0, <1>5 DEF Push
  <2> QED BY Zenon, <1>2, <2>1
<1>6. ASSUME NEW d \in Commands, Timeout(d)
      PROVE  Registered'
  BY Zenon, <1>3, <1>6 DEF Timeout, Done
<1>7. ASSUME NEW t \in Terms, ListenerSend(t)
      PROVE  Registered'
  <2>1. listener[t].resp.cmd \in Commands
    BY Zenon, <1>7 DEF ListenerSend, IInv, TypeInv, ListenerTypes, Responses
  <2>2. \E v \in Done : Return(listener[t].resp.cmd, v)
    BY Zenon, <1>7 DEF ListenerSend, Done
  <2> QED BY Zenon, <1>3, <2>1, <2>2
<1>8. ASSUME Gain
      PROVE  Registered'
  <2>1. /\ pc' = [pc EXCEPT ![term'] = "push"] /\ pending' = pending \cup {term'}
        /\ term' \in Commands
    BY <1>8, ProposalsAssumption DEF Gain, Commands, Terms, IInv, TypeInv, LeadTypes
  <2> QED BY Zenon, <1>2, <2>1
<1>9. CASE \/ HandlerStep \/ Served \/ Lose \/ LoopError \/ RemoveSelf \/ Election
           \/ \E c \in Commands : Apply(c) \/ LoseEntry(c)
           \/ \E t \in Terms : ListenerStart(t) \/ ListenerTake(t) \/ ListenerPanic(t) \/ ListenerExit(t)
  <2>1. UNCHANGED <<pc, pending>>
    BY Zenon, <1>9 DEF HandlerStep, HandlerTake, HandlerPropose, HandlerRefused, HandlerRespond,
         HandlerStop, Served, Lose, LoopError, RemoveSelf, Election, Apply, LoseEntry,
         ListenerStart, ListenerTake, ListenerPanic, ListenerExit, callerVars
  <2> QED BY Zenon, <1>1, <2>1
<1>10. CASE UNCHANGED vars
  BY Zenon, <1>1, <1>10 DEF vars, callerVars
<1> QED BY Zenon, <1>4, <1>5, <1>6, <1>7, <1>8, <1>9, <1>10 DEF Next, ListenerStep, LoopStep

\* What leaves the terms alone, and touches no caller of a term to come.
LEMMA TenureFrame ==
  ASSUME Tenure, UNCHANGED <<listener, notifier, ended, lead, term>>,
         \A t \in Terms : pc[t] = "idle" => pc'[t] = "idle"
  PROVE  Tenure'
BY Zenon DEF Tenure

\* The callers' and the handler's steps do not start the command of a term.
LEMMA CallersTenure ==
  ASSUME TypeInv, Tenure,
         \/ \E c \in Clients : Store(c)
         \/ \E c \in Commands : Push(c) \/ Timeout(c) \/ Apply(c) \/ LoseEntry(c)
         \/ HandlerStep \/ Served \/ LoopError \/ RemoveSelf \/ Election
  PROVE  Tenure'
<1>1. UNCHANGED <<listener, notifier, ended, lead, term>>
  BY Zenon DEF Store, Push, Timeout, Apply, LoseEntry, HandlerStep, HandlerTake, HandlerPropose,
       HandlerRefused, HandlerRespond, HandlerStop, Served, LoopError, RemoveSelf, Election, leadVars
<1>2. CASE \E c \in Clients : Store(c)
  <2>1. \A c \in Clients, t \in Terms : t # c
    BY ProposalsAssumption DEF Terms
  <2>2. \A t \in Terms : pc'[t] = pc[t]
    BY Zenon, <1>2, <2>1 DEF Store, TypeInv, CallerTypes, Commands
  <2> QED BY Zenon, <1>1, <2>2, TenureFrame
<1>3. CASE \E c \in Commands : Push(c) \/ Timeout(c)
  <2>1. \A t \in Terms : pc[t] = "idle" => pc'[t] = "idle"
    BY Zenon, <1>3 DEF Push, Timeout, Return, TypeInv, CallerTypes, Commands
  <2> QED BY Zenon, <1>1, <2>1, TenureFrame
<1>4. CASE \/ \E c \in Commands : Apply(c) \/ LoseEntry(c)
           \/ HandlerStep \/ Served \/ LoopError \/ RemoveSelf \/ Election
  <2>1. pc' = pc
    BY Zenon, <1>4 DEF Apply, LoseEntry, HandlerStep, HandlerTake, HandlerPropose,
         HandlerRefused, HandlerRespond, HandlerStop, Served, LoopError, RemoveSelf, Election,
         callerVars
  <2> QED BY Zenon, <1>1, <2>1, TenureFrame
<1> QED BY Zenon, <1>2, <1>3, <1>4

\* Of the listeners, the leader's watches the leader's notifier, which is open: it does not exit.
LEMMA ListenersTenure ==
  ASSUME TypeInv, Tenure, NEW t \in Terms, ListenerStep(t)
  PROVE  Tenure'
<1>0. term \in 0..MaxTerms /\ MaxTerms \in Nat
  BY Zenon, ProposalsAssumption DEF TypeInv, LeadTypes
<1>1. UNCHANGED <<notifier, ended, lead, term>>
  BY Zenon DEF ListenerStep, ListenerStart, ListenerTake, ListenerSend, ListenerPanic,
               ListenerExit, leadVars
<1>2. \A u \in Terms : pc[u] = "idle" => pc'[u] = "idle"
  <2>1. CASE ListenerSend(t)
    BY Zenon, <2>1 DEF ListenerSend, Return, TypeInv, CallerTypes, Commands
  <2>2. CASE pc' = pc
    BY Zenon, <2>2
  <2> QED BY Zenon, <2>1, <2>2 DEF ListenerStep, ListenerStart, ListenerTake, ListenerPanic,
               ListenerExit, callerVars
<1>3. ASSUME NEW new, listener' = [listener EXCEPT ![t] = new], listener[t].pc # "none",
             lead /\ t = term => new.pc \in {"select", "send"} /\ new.watch = term
      PROVE  Tenure'
  <2>1. listener'[t] = new /\ \A u \in Terms \ {t} : listener'[u] = listener[u]
    BY Zenon, <1>3 DEF TypeInv, ListenerTypes
  <2>2. \A u \in Terms : u > term => pc'[u] = "idle" /\ listener'[u].pc = "none"
    BY Zenon, <1>2, <1>3, <2>1 DEF Tenure
  <2>3. ASSUME lead
        PROVE  /\ listener'[term].pc \in {"starting", "select", "send"}
               /\ listener'[term].pc # "starting" => listener'[term].watch = term
    BY Zenon, <1>3, <2>1, <2>3 DEF Tenure
  <2> QED BY Zenon, <1>1, <2>2, <2>3 DEF Tenure
<1>4. CASE listener' = listener
  BY Zenon, <1>1, <1>2, <1>4, TenureFrame
<1>5. CASE ListenerStart(t)
  <2>1. /\ listener' = [listener EXCEPT ![t] = [pc |-> "select", watch |-> notifier]]
        /\ listener[t].pc # "none" /\ (lead => notifier = term)
    BY Zenon, <1>5 DEF ListenerStart, Tenure
  <2> QED BY Zenon, <1>3, <2>1
<1>6. CASE ListenerTake(t)
  <2>1. /\ listener[t].pc # "none"
        /\ lead /\ t = term => listener[t].watch = term
    BY Zenon, <1>6 DEF ListenerTake, Tenure
  <2>2. \/ listener' = listener
        \/ listener' = [listener EXCEPT ![t] = [pc |-> "send", watch |-> listener[t].watch,
                                                resp |-> Head(respCh)]]
    BY Zenon, <1>6 DEF ListenerTake, TypeInv, ListenerTypes
  <2> QED BY Zenon, <1>3, <1>4, <2>1, <2>2
<1>7. CASE ListenerSend(t)
  <2>1. /\ listener[t].pc # "none"
        /\ lead /\ t = term => listener[t].watch = term
    BY Zenon, <1>7 DEF ListenerSend, Tenure
  <2>2. listener' = [listener EXCEPT ![t] = [pc |-> "select", watch |-> listener[t].watch]]
    BY Zenon, <1>7 DEF ListenerSend, TypeInv, ListenerTypes
  <2> QED BY Zenon, <1>3, <2>1, <2>2
<1>8. CASE ListenerExit(t)
  <2>1. /\ listener[t].pc # "none" /\ ~(lead /\ t = term)
        /\ listener' = [listener EXCEPT ![t] = [pc |-> "exited"]]
    BY Zenon, <1>8 DEF ListenerExit, Tenure
  <2> QED BY Zenon, <1>3, <2>1
<1>9. CASE ListenerPanic(t)
  BY Zenon, <1>4, <1>9 DEF ListenerPanic
<1> QED BY Zenon, <1>5, <1>6, <1>7, <1>8, <1>9 DEF ListenerStep

\* A term begins with a notifier of its own and a listener, and ends with its notifier.
LEMMA GainLoseTenure ==
  ASSUME TypeInv, Tenure, Gain \/ Lose
  PROVE  Tenure'
<1>0. /\ term \in 0..MaxTerms /\ MaxTerms \in Nat
      /\ ended \in SUBSET Terms /\ Terms = 1..MaxTerms
  BY Zenon, ProposalsAssumption DEF TypeInv, LeadTypes, Terms
<1>1. CASE Gain
  <2>1. /\ term' = term + 1 /\ term' \in Terms /\ lead' /\ notifier' = term' /\ ended' = ended
        /\ \A t \in ended : t <= term
    BY <1>0, <1>1 DEF Gain, Tenure
  <2>2. /\ listener'[term'] = [pc |-> "starting"]
        /\ \A t \in Terms \ {term'} : listener'[t] = listener[t] /\ pc'[t] = pc[t]
    BY Zenon, <1>1, <2>1 DEF Gain, TypeInv, ListenerTypes, CallerTypes, Commands
  <2>3. \A t \in Terms : t > term' => pc'[t] = "idle" /\ listener'[t].pc = "none"
    BY <1>0, <2>1, <2>2 DEF Tenure
  <2>4. term' \notin ended' /\ \A t \in ended' : t <= term'
    BY <1>0, <2>1
  <2>5. listener'[term'].pc = "starting"
    BY <2>2
  <2> QED BY Zenon, <2>1, <2>3, <2>4, <2>5 DEF Tenure
<1>2. CASE Lose
  <2>1. /\ ~lead' /\ notifier = term /\ ended' = ended \cup ({notifier} \ {0})
        /\ UNCHANGED <<term, listener, pc>>
    BY Zenon, <1>2 DEF Lose, Tenure, callerVars
  <2>2. \A t \in ended' : t <= term
    <3>1. term <= term
      BY <1>0
    <3>2. \A t \in ended : t <= term
      BY Zenon DEF Tenure
    <3> QED BY Zenon, <2>1, <3>1, <3>2
  <2> QED BY Zenon, <2>1, <2>2 DEF Tenure
<1> QED BY Zenon, <1>1, <1>2

\* Every step leaves the terms to come untouched and the leader with its listener.
LEMMA TenureStep ==
  ASSUME TypeInv, Tenure, [Next]_vars
  PROVE  Tenure'
<1>1. CASE UNCHANGED vars
  BY Zenon, <1>1, TenureFrame DEF vars, callerVars, leadVars
<1>2. CASE Next
  BY Zenon, <1>2, CallersTenure, ListenersTenure, GainLoseTenure DEF Next, LoopStep
<1> QED BY Zenon, <1>1, <1>2

-----------------------------------------------------------------------------
(* Theorems. *)

\* The invariant holds throughout.
LEMMA Invariance == Spec => []IInv
<1>1. Init => IInv
  BY Zenon, InitHolds
<1>2. IInv /\ [Next]_vars => IInv'
  <2> SUFFICES ASSUME IInv, [Next]_vars PROVE IInv'
    BY Zenon
  <2> QED BY Zenon, TypesStep, TravelStep, RegisteredStep, TenureStep DEF IInv
<1> QED BY <1>1, <1>2, PTL DEF Spec

\* The variables of proposeAndWait, of the channels and of the goroutines hold values of their
\* types, and neither proposeReqNotifier nor proposeRespNotifier exceeds its capacity.
THEOREM ProposalsTypeCorrect == Spec => []TypeOK
<1>1. IInv => TypeOK
  <2> SUFFICES ASSUME TypeInv PROVE TypeOK
    BY Zenon DEF IInv
  <2>1. Len(reqCh) <= Cap /\ Len(respCh) <= Cap
    <3>1. Len(reqCh) \in {0, 1} /\ Len(respCh) \in {0, 1}
      BY Zenon, Singletons, Empty DEF TypeInv, ChannelTypes
    <3>2. \A n \in {0, 1} : n <= 1
      OBVIOUS
    <3> QED BY Zenon, <3>1, <3>2 DEF Cap
  <2>2. {pending, closed, log, applied} \subseteq SUBSET Commands
    BY Zenon DEF TypeInv, CallerTypes
  <2>3. {lead, removed} \subseteq BOOLEAN
    BY Zenon DEF TypeInv, LeadTypes
  <2> QED BY Zenon, <2>1, <2>2, <2>3 DEF TypeOK, TypeInv, CallerTypes, HandlerTypes,
                                         ListenerTypes, LeadTypes
<1> QED BY <1>1, Invariance, PTL

\* Whoever waits in proposeAndWait can still be answered: its command is with exactly one of
\* the request channel, proposeHandler, the response channel and one listener, however the
\* leadership moves, unless proposeHandler has ended.
THEOREM AnswersNotLost == Spec => []NothingLost
<1>1. IInv => NothingLost
  <2> SUFFICES ASSUME IInv, NEW c \in Commands, pc[c] = "wait"
               PROVE  \/ Holders(c) = 1
                      \/ Holders(c) = 0 /\ handler.pc \in {"error", "exited"}
    BY Zenon DEF NothingLost
  <2> DEFINE L == {t \in Terms : listener[t].pc = "send" /\ listener[t].resp.cmd = c}
  <2>0. /\ Single(c)
        /\ Travels(c) \/ handler.pc \in {"error", "exited"}
    BY Zenon DEF IInv, TravelInv, Kept
  <2>1. (\E i \in DOMAIN reqCh : reqCh[i] = c) <=> InReq(c)
    BY Singletons, Empty DEF IInv, TypeInv, ChannelTypes, InReq
  <2>2. (\E i \in DOMAIN respCh : respCh[i].cmd = c) <=> InResp(c)
    <3>1. CASE respCh = <<>>
      BY Zenon, <3>1, Singletons, Empty DEF InResp
    <3>2. CASE \E r \in Responses : respCh = <<r>>
      <4>1. PICK r \in Responses : respCh = <<r>>
        BY Zenon, <3>2
      <4>2. r.ok \in BOOLEAN /\ r = [cmd |-> r.cmd, ok |-> r.ok]
        BY Zenon DEF Responses
      <4>3. (\E i \in DOMAIN respCh : respCh[i].cmd = c) <=> r.cmd = c
        BY <4>1, Singletons
      <4>4. r.cmd = c => InResp(c)
        BY Zenon, <4>1, <4>2 DEF InResp
      <4>5. ASSUME NEW b \in BOOLEAN, respCh = <<[cmd |-> c, ok |-> b]>>
            PROVE  r.cmd = c
        <5>1. Head(respCh) = r /\ Head(respCh) = [cmd |-> c, ok |-> b]
          BY Zenon, <4>1, <4>5, Singletons
        <5> QED BY <5>1
      <4> QED BY Zenon, <4>3, <4>4, <4>5 DEF InResp
    <3> QED BY Zenon, <3>1, <3>2 DEF IInv, TypeInv, ChannelTypes
  <2>3. /\ InService(c) => Cardinality(L) = 1
        /\ ~InService(c) => Cardinality(L) = 0
    <3>1. ASSUME NEW t \in Terms, InListener(t, c)
          PROVE  Cardinality(L) = 1
      <4>1. L = {t}
        BY Zenon, <2>0, <3>1 DEF Single, InListener
      <4> QED BY Zenon, <4>1, FS_Singleton
    <3>2. ASSUME ~InService(c)
          PROVE  Cardinality(L) = 0
      <4>1. L = {}
        BY Zenon, <3>2 DEF InService, InListener
      <4> QED BY Zenon, <4>1, FS_EmptySet
    <3> QED BY Zenon, <3>1, <3>2 DEF InService
  <2>4. Holders(c) = One(InReq(c)) + One(InHandler(c)) + One(InResp(c)) + Cardinality(L)
    BY Zenon, <2>1, <2>2 DEF Holders, InHandler, One
  <2> HIDE DEF L
  <2>5. CASE Travels(c)
    <3>1. /\ InReq(c) => ~InHandler(c) /\ ~InResp(c) /\ ~InService(c)
          /\ InHandler(c) => ~InResp(c) /\ ~InService(c)
          /\ InResp(c) => ~InService(c)
          /\ InReq(c) \/ InHandler(c) \/ InResp(c) \/ InService(c)
      BY Zenon, <2>0, <2>5 DEF Single, Travels
    <3> QED BY <2>3, <2>4, <3>1 DEF One
  <2>6. CASE ~Travels(c)
    <3>1. ~InReq(c) /\ ~InHandler(c) /\ ~InResp(c) /\ ~InService(c)
      BY Zenon, <2>6 DEF Travels
    <3>2. Holders(c) = 0
      BY <2>3, <2>4, <3>1 DEF One
    <3> QED BY Zenon, <2>0, <2>6, <3>2
  <2> QED BY Zenon, <2>5, <2>6
<1> QED BY <1>1, Invariance, PTL

\* While this node leads, the listener of its term is there to deliver what proposeHandler
\* answers, also the answer that StartServing waits for inside the ready loop.
THEOREM LeadersListen == Spec => []LeaderListens
<1>1. IInv => LeaderListens
  BY Zenon DEF IInv, Tenure, LeaderListens
<1> QED BY <1>1, Invariance, PTL
=============================================================================
