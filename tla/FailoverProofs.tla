--------------------------- MODULE FailoverProofs ---------------------------
(***************************************************************************)
(* The timestamps of successive leaders: every committed one lies below a  *)
(* bound committed before it, and a leader that has read the highest bound *)
(* of its log hands out higher ones than its predecessors.  The inductive  *)
(* invariant comes first, then one lemma for each of its parts.            *)
(***************************************************************************)
EXTENDS Failover, TLAPS

\* A leaf that names no prover goes to the SMT solver, which has 30 seconds for it.
USE SMTT(30)

Phases == {"off", "starting", "loaded", "serving", "closed"}
Stamps == [physical : Nat, logical : Nat]

EntryType  == [ts : Nat, physical : Nat, bound : Nat, term : Nat, prompt : BOOLEAN]
OutboxType == [node : Nodes, term : Nat, ts : Stamps, bound : Nat]

\* The state is well formed.
TypeInv ==
  /\ clock \in [Nodes -> Nat] /\ term \in Nat /\ base \in Nat /\ base <= Len(log)
  /\ log \in Seq(EntryType)
  /\ lead \in [Nodes -> Nat] /\ phase \in [Nodes -> Phases]
  /\ current \in [Nodes -> Stamps] /\ saved \in [Nodes -> Nat]
  /\ spin \in [Nodes -> [step : {"no", "bound", "logical"}, bound : Nat]]
  /\ window \in [Nodes -> [at : {"idle", "begun", "stamped", "proposed"}, bound : Nat]]
  /\ outbox \subseteq OutboxType

\* Who leads when.  A term has one leader, and nothing bears its number before; a
\* prompt entry beyond base is of this term.
TermInv ==
  /\ \A n \in Nodes : lead[n] <= term /\ (lead[n] = 0 <=> phase[n] \in {"off", "closed"})
  /\ \A n, m \in Nodes : lead[n] = lead[m] /\ lead[n] # 0 => n = m
  /\ \A c \in outbox : c.term <= term
  /\ \A i \in DOMAIN log : log[i].term <= term
  /\ \A i \in DOMAIN log : i > base /\ log[i].prompt => log[i].term = term
  /\ \A t \in fresh : t \in 0 .. term

\* Before StartServing returns, the term has no timestamps that count.
StartInv ==
  \A n \in Nodes :
    /\ phase[n] = "starting" => lead[n] \notin fresh
    /\ phase[n] \in {"starting", "loaded"} /\ lead[n] \notin early =>
         /\ \A i \in DOMAIN log : log[i].term # lead[n]
         /\ \A c \in outbox : c.term # lead[n]

\* Only an oracle whose calibrate has not finished is ahead of its clock.
ClockInv ==
  \A n \in Nodes :
    /\ phase[n] # "loaded" => current[n].physical <= clock[n]
    /\ phase[n] = "loaded" /\ lead[n] \notin early =>
         current[n].physical >= clock[n] /\ current[n].logical = 0
    /\ window[n].bound <= clock[n] + Window

\* The window updater's command is the one it waits for.
WindowInv ==
  /\ \A c \in outbox : c.bound # 0 =>
       /\ window[c.node].at = "stamped" /\ window[c.node].bound = c.bound
       /\ spin[c.node].bound = 0
  /\ \A c, d \in outbox : c.node = d.node /\ c.bound # 0 /\ d.bound # 0 => c = d
  /\ \A n \in Nodes : spin[n].bound # 0 =>
       window[n].at = "stamped" /\ window[n].bound = spin[n].bound

\* Some entry of the log raises the bound to b.
Raises(l, b) == \E j \in DOMAIN l : l[j].bound >= b

\* What the leader of the term takes for saved is in the log, and its timestamps
\* lie below it.
Leads(n) == phase[n] = "serving" /\ lead[n] = term /\ term \notin early
CoverInv ==
  /\ \A n \in Nodes : Leads(n) => Raises(log, saved[n])
  /\ \A n \in Nodes : Leads(n) /\ window[n].at = "proposed" => Raises(log, window[n].bound)
  /\ \A c \in outbox : c.term = term /\ term \notin early \cup escaped =>
       Raises(log, c.ts.physical + 1)

\* The leader of a fresh term is above all bounds from before its election.
Above(p) == \A i \in 1 .. base : log[i].bound < p
AheadInv ==
  term \in fresh \ early =>
    /\ \A n \in Nodes : lead[n] = term /\ phase[n] \in {"loaded", "serving"} =>
         Above(current[n].physical)
    /\ \A c \in outbox : c.term = term => Above(c.ts.physical)

\* An entry's timestamp is near its milliseconds.
Span == MaxLogical + 1
Near(ts, p) == p * Span <= ts /\ ts <= (p + 1) * Span
NearInv ==
  /\ \A i \in DOMAIN log : log[i].term \notin early => Near(log[i].ts, log[i].physical)
  /\ \A c \in outbox : c.ts.logical <= MaxLogical + 1

\* The milliseconds of two leaders are ordered, with room for the bound in between.
OrderInv ==
  \A i, j \in DOMAIN log :
    /\ Sound(log[i]) /\ Sound(log[j]) /\ log[i].term < log[j].term
    /\ log[j].term \in fresh
    => log[i].physical + 2 <= log[j].physical

IInv ==
  /\ TypeInv /\ TermInv /\ StartInv /\ ClockInv /\ WindowInv /\ CoverInv
  /\ AheadInv /\ NearInv /\ OrderInv /\ BoundCovers

-----------------------------------------------------------------------------
(* The steps *)

\* allocate in one view for its three callers: n draws now from its clock, and goes on
\* from there for a client, for the updater, or after a spin.
Asks(n, b) ==
  \/ b = 0 /\ Free(n) /\ window' = window
  \/ /\ b = window[n].bound /\ Free(n) /\ window[n].at = "begun"
     /\ window' = [window EXCEPT ![n].at = "stamped"]
  \/ b = spin[n].bound /\ window' = window

AllocFrame(n, now) ==
  /\ now \in Nat /\ clock[n] <= now /\ clock' = [clock EXCEPT ![n] = now]
  /\ UNCHANGED <<raftVars, lead, phase, saved, fresh>>

Stamping(n, now, from, b) ==
  /\ AllocFrame(n, now) /\ Asks(n, b) /\ Stamp(n, from, b)
  /\ from \in Stamps /\ b \in Nat /\ from.logical <= MaxLogical /\ now <= from.physical
  /\ from.physical = now \/ from.physical = current[n].physical

Spinning(n, now, from, step, b) ==
  /\ AllocFrame(n, now) /\ Asks(n, b) /\ Spin(n, from, step, b)
  /\ from \in Stamps /\ b \in Nat /\ step \in {"bound", "logical"} /\ lead[n] # 0
  /\ now <= from.physical /\ current[n].physical <= from.physical
  /\ from = Reset(now) \/ from = current[n]

\* The three callers of allocate are of these two kinds.
LEMMA AllocSteps ==
  ASSUME TypeInv, NEW n \in Nodes, NEW now \in 1 .. MaxTime,
         ClientCommit(n, now) \/ WindowCommit(n, now) \/ SpinEnds(n, now)
  PROVE  \/ \E from, b : Stamping(n, now, from, b)
         \/ \E from, step, b : Spinning(n, now, from, step, b)
<1>1. /\ now \in Nat /\ clock[n] \in Nat /\ current[n] \in Stamps /\ window[n].bound \in Nat
      /\ spin[n].bound \in Nat
  BY FailoverAssumption DEF TypeInv
<1>2. Reset(now) \in Stamps /\ Reset(now).physical = now /\ Reset(now).logical = 0
  BY Zenon, <1>1 DEF Reset, Stamps
<1>3. ASSUME NEW b \in Nat, Allocate(n, now, b), Free(n) => Asks(n, b)
      PROVE  \/ \E from : Stamping(n, now, from, b)
             \/ \E from, step : Spinning(n, now, from, step, b)
  <2> DEFINE from == Advanced(n, now)
  <2>1. /\ from \in Stamps /\ now <= from.physical /\ current[n].physical <= from.physical
        /\ from = Reset(now) \/ from = current[n]
    BY <1>1, <1>2 DEF Advanced, Stamps
  <2>2. from.physical = now \/ from.physical = current[n].physical
    BY Zenon, <2>1, <1>2
  <2>3. AllocFrame(n, now) /\ Asks(n, b) /\ lead[n] # 0
    BY <1>1, <1>3 DEF Allocate, AllocFrame, Now
  <2>4. \/ \E step \in {"bound", "logical"} : Spin(n, from, step, b)
        \/ ~ExceedLogicalMax(from) /\ Stamp(n, from, b)
    BY Zenon, <1>3 DEF Allocate
  <2>5. ~ExceedLogicalMax(from) => from.logical <= MaxLogical
    BY <2>1, FailoverAssumption DEF ExceedLogicalMax, Stamps
  <2> QED BY Zenon, <2>1, <2>2, <2>3, <2>4, <2>5 DEF Stamping, Spinning
<1>4. CASE ClientCommit(n, now)
  <2>1. Allocate(n, now, 0) /\ window' = window
    BY Zenon, <1>4 DEF ClientCommit
  <2>2. Free(n) => Asks(n, 0)
    BY Zenon, <2>1 DEF Asks
  <2> QED BY Zenon, <1>3, <2>1, <2>2
<1>5. CASE WindowCommit(n, now)
  <2>1. Allocate(n, now, window[n].bound) /\ Free(n) => Asks(n, window[n].bound)
    BY Zenon, <1>5 DEF WindowCommit, Asks
  <2>2. Allocate(n, now, window[n].bound)
    BY Zenon, <1>5 DEF WindowCommit
  <2> QED BY Zenon, <1>1, <1>3, <2>1, <2>2
<1>6. CASE SpinEnds(n, now)
  <2>1. AllocFrame(n, now) /\ Asks(n, spin[n].bound)
    BY <1>1, <1>6 DEF SpinEnds, AllocFrame, Asks, Now
  <2>2. Stamp(n, Reset(now), spin[n].bound)
    BY Zenon, <1>6 DEF SpinEnds
  <2>3. Reset(now).logical <= MaxLogical /\ now <= Reset(now).physical
    BY <1>1, <1>2, FailoverAssumption
  <2> QED BY Zenon, <1>1, <1>2, <2>1, <2>2, <2>3 DEF Stamping
<1> QED BY Zenon, <1>4, <1>5, <1>6

\* The entries of the log.
LEMMA LogTyped ==
  ASSUME TypeInv
  PROVE  /\ DOMAIN log = 1 .. Len(log) /\ Len(log) \in Nat
         /\ \A i \in 1 .. Len(log) :
              /\ log[i] \in EntryType /\ log[i].ts \in Nat /\ log[i].physical \in Nat
              /\ log[i].bound \in Nat /\ log[i].term \in Nat /\ log[i].prompt \in BOOLEAN
<1>1. log \in Seq(EntryType)
  BY Zenon DEF TypeInv
<1>2. DOMAIN log = 1 .. Len(log) /\ Len(log) \in Nat /\ \A i \in 1 .. Len(log) : log[i] \in EntryType
  BY <1>1
<1> QED BY Zenon, <1>2 DEF EntryType

\* The timestamp and the bound that StartServing proposes.
LEMMA IncrType ==
  ASSUME TypeInv, NEW n \in Nodes
  PROVE  /\ Incr(current[n]) \in Stamps /\ current[n].physical + Window \in Nat
         /\ Incr(current[n]).physical = current[n].physical
         /\ Incr(current[n]).logical = current[n].logical + 1
         /\ current[n].physical \in Nat /\ current[n].logical \in Nat /\ Window \in Nat \ {0}
<1>1. current[n] \in Stamps /\ Window \in Nat \ {0}
  BY Zenon, FailoverAssumption DEF TypeInv
<1> QED BY <1>1 DEF Incr, Stamps

\* An entry joins the log, or an election cuts its end.
LEMMA LogAppend ==
  ASSUME TypeInv, NEW e \in EntryType, log' = Append(log, e)
  PROVE  /\ log' \in Seq(EntryType) /\ Len(log') = Len(log) + 1 /\ log'[Len(log) + 1] = e
         /\ DOMAIN log = 1 .. Len(log) /\ DOMAIN log' = 1 .. (Len(log) + 1)
         /\ \A i \in 1 .. Len(log) : log'[i] = log[i]
         /\ Len(log) \in Nat
BY DEF TypeInv

\* An election cuts the log somewhere between base and its end.
LEMMA LogCut ==
  ASSUME TypeInv, NEW n \in Nodes, Elect(n)
  PROVE  /\ log' \in Seq(EntryType) /\ base' \in Nat /\ base <= base' /\ base' <= Len(log)
         /\ base' = Len(log') /\ Len(log) \in Nat
         /\ DOMAIN log = 1 .. Len(log) /\ DOMAIN log' = 1 .. base'
         /\ \A i \in 1 .. base' : log'[i] = log[i]
<1>1. PICK k \in base .. Len(log) : log' = SubSeq(log, 1, k) /\ base' = k
  BY Zenon DEF Elect
<1>2. log \in Seq(EntryType) /\ Len(log) \in Nat /\ base \in Nat
  BY DEF TypeInv
<1>3. k \in Nat /\ base <= k /\ k <= Len(log)
  BY <1>1, <1>2
<1>4. Len(log') = k /\ DOMAIN log' = 1 .. k /\ DOMAIN log = 1 .. Len(log)
      /\ \A i \in 1 .. k : log'[i] = log[i]
  BY <1>1, <1>2, <1>3
<1>5. \A i \in 1 .. k : log[i] \in EntryType
  BY <1>2, <1>3
<1>6. log' \in Seq(EntryType)
  BY <1>1, <1>2, <1>3, <1>4, <1>5
<1> QED BY Zenon, <1>1, <1>2, <1>3, <1>4, <1>6

\* What raft takes is an entry.
LEMMA ComposeType ==
  ASSUME NEW ts \in Stamps
  PROVE  Compose(ts) \in Nat
<1>1. ts.physical \in Nat /\ ts.logical \in Nat /\ MaxLogical \in Nat
  BY Zenon, FailoverAssumption DEF Stamps
<1>2. \A a, b, c \in Nat : a * b + c \in Nat
  OBVIOUS
<1> QED BY <1>1, <1>2 DEF Compose

\* The entry of a well-formed command is well formed.
LEMMA EntryOK ==
  ASSUME TypeInv, NEW t \in Nat, NEW ts \in Stamps, NEW b \in Nat
  PROVE  /\ Entry(t, ts, b) \in EntryType
         /\ Entry(t, ts, b).ts = Compose(ts) /\ Entry(t, ts, b).physical = ts.physical
         /\ Entry(t, ts, b).bound = b /\ Entry(t, ts, b).term = t
         /\ Entry(t, ts, b).prompt = (t = term)
<1>1. Compose(ts) \in Nat /\ ts.physical \in Nat
  BY Zenon, ComposeType DEF Stamps
<1> QED BY Zenon, <1>1 DEF Entry, EntryType

\* BoundAt is the bound of one of the first k entries, or 0.
LEMMA BoundType ==
  ASSUME TypeInv, NEW k \in 0 .. base
  PROVE  BoundAt(k) \in Nat
<1>1. k \in Nat /\ k <= Len(log) /\ Len(log) \in Nat
  BY DEF TypeInv
<1>2. \A i \in 1 .. k : log[i].bound \in Nat
  BY <1>1, LogTyped
<1> QED BY Zenon, <1>2 DEF BoundAt

-----------------------------------------------------------------------------
(* One lemma for each part of the invariant. *)

\* Every step keeps the state well formed.
LEMMA TypeStep ==
  ASSUME TypeInv, [Next]_vars
  PROVE  TypeInv'
<1> USE FailoverAssumption
<1>1. ASSUME NEW n \in Nodes, NEW now \in 1 .. MaxTime, NEW k \in 0 .. base, LoadBound(n, now, k)
      PROVE  TypeInv'
  <2>1. now \in Nat /\ BoundAt(k) \in Nat
    BY BoundType
  <2>2. Reset(StartAt(BoundAt(k), now)) \in Stamps
    BY <2>1 DEF StartAt, Reset, Stamps
  <2>3. clock' \in [Nodes -> Nat] /\ saved' \in [Nodes -> Nat] /\ current' \in [Nodes -> Stamps]
        /\ phase' \in [Nodes -> Phases]
    BY Zenon, <1>1, <2>1, <2>2 DEF LoadBound, Now, TypeInv, Phases
  <2>4. UNCHANGED <<term, base, log, lead, spin, window, outbox>>
    BY Zenon, <1>1 DEF LoadBound
  <2> QED BY Zenon, <2>3, <2>4 DEF TypeInv
<1>2. ASSUME NEW n \in Nodes, NEW now \in 1 .. MaxTime, PersistUpperbound(n, now)
      PROVE  TypeInv'
  <2>1. now \in Nat /\ current[n] \in Stamps /\ lead[n] \in Nat /\ current[n].physical \in Nat
    BY DEF TypeInv, Stamps
  <2>2. Incr(current[n]) \in Stamps /\ current[n].physical + Window \in Nat
    BY <2>1 DEF Incr, Stamps
  <2>3. Entry(lead[n], Incr(current[n]), current[n].physical + Window) \in EntryType
    BY Zenon, <2>1, <2>2, EntryOK
  <2>4. log' \in Seq(EntryType) /\ Len(log') = Len(log) + 1 /\ Len(log) \in Nat
    BY Zenon, <1>2, <2>3, LogAppend DEF PersistUpperbound
  <2>5. clock' \in [Nodes -> Nat] /\ saved' \in [Nodes -> Nat] /\ current' \in [Nodes -> Stamps]
        /\ phase' \in [Nodes -> Phases]
    <3>1. clock' \in [Nodes -> Nat]
      BY Zenon, <1>2, <2>1, <2>2 DEF PersistUpperbound, Now, TypeInv
    <3>2. saved' \in [Nodes -> Nat] /\ current' \in [Nodes -> Stamps]
      BY Zenon, <1>2, <2>1, <2>2 DEF PersistUpperbound, TypeInv
    <3>3. phase' \in [Nodes -> Phases]
      BY Zenon, <1>2 DEF PersistUpperbound, TypeInv, Phases
    <3> QED BY Zenon, <3>1, <3>2, <3>3
  <2>6. UNCHANGED <<term, base, lead, spin, window, outbox>>
    BY Zenon, <1>2 DEF PersistUpperbound
  <2>7. base <= Len(log')
    BY <2>4 DEF TypeInv
  <2> QED BY Zenon, <2>4, <2>5, <2>6, <2>7 DEF TypeInv
<1>3. ASSUME NEW n \in Nodes, NEW now, NEW b, Asks(n, b), b \in Nat
      PROVE  window' \in [Nodes -> [at : {"idle", "begun", "stamped", "proposed"}, bound : Nat]]
  <2>1. /\ window \in [Nodes -> [at : {"idle", "begun", "stamped", "proposed"}, bound : Nat]]
        /\ window' = window \/ window' = [window EXCEPT ![n].at = "stamped"]
    BY Zenon, <1>3 DEF Asks, TypeInv
  <2>2. CASE window' = window
    BY Zenon, <2>1, <2>2
  <2>3. CASE window' = [window EXCEPT ![n].at = "stamped"]
    BY <2>1, <2>3
  <2> QED BY Zenon, <2>1, <2>2, <2>3
<1>4. ASSUME NEW n \in Nodes, NEW now, NEW from, NEW b, Stamping(n, now, from, b)
      PROVE  TypeInv'
  <2>1. Incr(from) \in Stamps /\ b \in Nat /\ Asks(n, b) /\ lead[n] \in Nat
    <3>1. from \in Stamps /\ b \in Nat /\ Asks(n, b) /\ lead[n] \in Nat
      BY Zenon, <1>4 DEF Stamping, TypeInv
    <3>2. Incr(from) \in Stamps
      BY <3>1 DEF Incr, Stamps
    <3> QED BY Zenon, <3>1, <3>2
  <2>2. [node |-> n, term |-> lead[n], ts |-> Incr(from), bound |-> b] \in OutboxType
    BY Zenon, <2>1 DEF OutboxType
  <2>3. clock' \in [Nodes -> Nat] /\ current' \in [Nodes -> Stamps] /\ outbox' \subseteq OutboxType
        /\ spin' \in [Nodes -> [step : {"no", "bound", "logical"}, bound : Nat]]
    BY Zenon, <1>4, <2>1, <2>2 DEF Stamping, AllocFrame, Stamp, TypeInv, Unheld
  <2>4. UNCHANGED <<term, base, log, lead, phase, saved>>
    BY Zenon, <1>4 DEF Stamping, AllocFrame, raftVars
  <2> QED BY Zenon, <1>3, <2>1, <2>3, <2>4 DEF TypeInv
<1>5. ASSUME NEW n \in Nodes, NEW now, NEW from, NEW step, NEW b, Spinning(n, now, from, step, b)
      PROVE  TypeInv'
  <2>1. b \in Nat /\ Asks(n, b)
    BY Zenon, <1>5 DEF Spinning
  <2>3. clock' \in [Nodes -> Nat] /\ current' \in [Nodes -> Stamps]
        /\ spin' \in [Nodes -> [step : {"no", "bound", "logical"}, bound : Nat]]
    BY Zenon, <1>5 DEF Spinning, AllocFrame, Spin, TypeInv
  <2>4. UNCHANGED <<term, base, log, lead, phase, saved, outbox>>
    BY Zenon, <1>5 DEF Spinning, Spin, AllocFrame, raftVars
  <2> QED BY Zenon, <1>3, <2>1, <2>3, <2>4 DEF TypeInv
<1>6. ASSUME NEW n \in Nodes, Elect(n)
      PROVE  TypeInv'
  <2>1. log' \in Seq(EntryType) /\ base' \in Nat /\ base' <= Len(log')
    BY <1>6, LogCut
  <2>2. term' \in Nat /\ lead' \in [Nodes -> Nat] /\ phase' \in [Nodes -> Phases]
    BY <1>6 DEF Elect, TypeInv, Phases
  <2>3. UNCHANGED <<clock, current, saved, spin, window, outbox>>
    BY Zenon, <1>6 DEF Elect
  <2> QED BY Zenon, <2>1, <2>2, <2>3 DEF TypeInv
<1>7. ASSUME NEW n \in Nodes, Lose(n)
      PROVE  TypeInv'
  BY Zenon, <1>7 DEF Lose, TypeInv, raftVars, Phases
<1>8. ASSUME NEW n \in Nodes, Crash(n)
      PROVE  TypeInv'
  <2>1. /\ Reset(0) \in Stamps /\ Unheld \in [step : {"no", "bound", "logical"}, bound : Nat]
        /\ NoWindow \in [at : {"idle", "begun", "stamped", "proposed"}, bound : Nat]
        /\ "off" \in Phases
    BY Zenon DEF Reset, Stamps, Unheld, NoWindow, Phases
  <2> QED BY Zenon, <1>8, <2>1 DEF Crash, TypeInv, raftVars
<1>9. ASSUME NEW n \in Nodes, UpdateWindow(n) \/ WindowProposed(n) \/ WindowFailed(n)
      PROVE  TypeInv'
  <2>1. current[n].physical \in Nat /\ window[n].bound \in Nat
    BY Zenon DEF TypeInv, Stamps
  <2>2. /\ window' \in [Nodes -> [at : {"idle", "begun", "stamped", "proposed"}, bound : Nat]]
        /\ saved' \in [Nodes -> Nat]
    <3>1. CASE UpdateWindow(n)
      BY <3>1, <2>1 DEF UpdateWindow, TypeInv, oracleVars
    <3>2. CASE WindowProposed(n)
      BY Zenon, <3>2, <2>1 DEF WindowProposed, TypeInv, NoWindow
    <3>3. CASE WindowFailed(n)
      BY Zenon, <3>3 DEF WindowFailed, TypeInv, NoWindow, oracleVars
    <3> QED BY Zenon, <1>9, <3>1, <3>2, <3>3
  <2>3. UNCHANGED <<clock, term, log, base, lead, phase, current, spin, outbox>>
    BY Zenon, <1>9 DEF UpdateWindow, WindowProposed, WindowFailed, raftVars, oracleVars
  <2> QED BY Zenon, <2>2, <2>3 DEF TypeInv
<1>10. ASSUME NEW c \in outbox, Propose(c)
       PROVE  TypeInv'
  <2>1. c \in OutboxType /\ c.node \in Nodes /\ c.term \in Nat /\ c.ts \in Stamps /\ c.bound \in Nat
    BY Zenon DEF TypeInv, OutboxType
  <2>2. log' \in Seq(EntryType) /\ Len(log') = Len(log) + 1 /\ Len(log) \in Nat
    BY Zenon, <1>10, <2>1, EntryOK, LogAppend DEF Propose
  <2>3. /\ window' \in [Nodes -> [at : {"idle", "begun", "stamped", "proposed"}, bound : Nat]]
        /\ outbox' \subseteq OutboxType
    <3>1. outbox \subseteq OutboxType /\ outbox' = outbox \ {c}
      BY Zenon, <1>10 DEF Propose, TypeInv
    <3>2. window' \in [Nodes -> [at : {"idle", "begun", "stamped", "proposed"}, bound : Nat]]
      BY Zenon, <1>10, <2>1 DEF Propose, TypeInv
    <3> QED BY Zenon, <3>1, <3>2
  <2>4. UNCHANGED <<clock, term, base, lead, phase, current, saved, spin>>
    BY Zenon, <1>10 DEF Propose, oracleVars
  <2>5. base <= Len(log')
    BY <2>2 DEF TypeInv
  <2> QED BY Zenon, <2>2, <2>3, <2>4, <2>5 DEF TypeInv
<1>11. CASE UNCHANGED vars
  BY Zenon, <1>11 DEF TypeInv, vars, raftVars, oracleVars
<1> QED BY Zenon, AllocSteps, <1>1, <1>2, <1>4, <1>5, <1>6, <1>7, <1>8, <1>9, <1>10, <1>11 DEF Next

-----------------------------------------------------------------------------
(* Terms, phases, clocks and the window updater: what needs no log. *)

\* Only an election makes a leader, with a new term; only the leader of the term adds prompt
\* entries.
LEMMA TermStep ==
  ASSUME TypeInv, TermInv, [Next]_vars
  PROVE  TermInv'
<1>0. /\ lead \in [Nodes -> Nat] /\ phase \in [Nodes -> Phases] /\ term \in Nat /\ base \in Nat
      /\ base <= Len(log) /\ DOMAIN log = 1 .. Len(log) /\ Len(log) \in Nat
      /\ \A i \in 1 .. Len(log) : log[i].term \in Nat
      /\ \A c \in outbox : c.term \in Nat
  BY Zenon, LogTyped DEF TypeInv, OutboxType
<1>1. ASSUME UNCHANGED <<term, log, base, lead, phase, fresh>>, outbox' \subseteq outbox
      PROVE  TermInv'
  BY Zenon, <1>1 DEF TermInv
<1>2. ASSUME NEW n \in Nodes, NEW now \in 1 .. MaxTime, NEW k \in 0 .. base, LoadBound(n, now, k)
      PROVE  TermInv'
  BY <1>0, <1>2 DEF TermInv, LoadBound
<1>3. ASSUME NEW e \in EntryType, log' = Append(log, e), e.term <= term, e.prompt => e.term = term,
             UNCHANGED <<term, base, lead, fresh>>, outbox' \subseteq outbox,
             \A m \in Nodes : phase'[m] \in {"off", "closed"} <=> phase[m] \in {"off", "closed"}
      PROVE  TermInv'
  BY <1>0, <1>3, LogAppend DEF TermInv
<1>4. ASSUME NEW n \in Nodes, NEW now \in 1 .. MaxTime, PersistUpperbound(n, now)
      PROVE  TermInv'
  <2> DEFINE e == Entry(lead[n], Incr(current[n]), current[n].physical + Window)
  <2>1. Incr(current[n]) \in Stamps /\ current[n].physical + Window \in Nat
    BY Zenon, IncrType
  <2>2. e \in EntryType /\ e.term = lead[n] /\ e.prompt = (lead[n] = term)
    BY <1>0, <2>1, EntryOK
  <2>3. log' = Append(log, e) /\ UNCHANGED <<term, base, lead, fresh, outbox>>
        /\ \A m \in Nodes : phase'[m] \in {"off", "closed"} <=> phase[m] \in {"off", "closed"}
    BY Zenon, <1>0, <1>4 DEF PersistUpperbound, ghosts
  <2> HIDE DEF e
  <2> QED BY Zenon, <1>3, <2>2, <2>3 DEF TermInv
<1>5. ASSUME NEW n \in Nodes, NEW now, NEW from, NEW b, Stamping(n, now, from, b)
      PROVE  TermInv'
  BY <1>0, <1>5 DEF TermInv, Stamping, Stamp, AllocFrame, raftVars
<1>6. ASSUME NEW n \in Nodes, Elect(n)
      PROVE  TermInv'
  <2>1. /\ DOMAIN log' = 1 .. base' /\ base' <= Len(log) /\ base' \in Nat
        /\ \A i \in 1 .. base' : log'[i] = log[i]
    BY Zenon, <1>6, LogCut
  <2>2. /\ term' = term + 1 /\ lead' = [lead EXCEPT ![n] = term + 1] /\ lead[n] = 0
        /\ phase' = [phase EXCEPT ![n] = "starting"] /\ UNCHANGED <<outbox, fresh>>
    BY Zenon, <1>6 DEF Elect, ghosts
  <2>3. /\ \A m \in Nodes : lead'[m] <= term' /\ (lead'[m] = 0 <=> phase'[m] \in {"off", "closed"})
        /\ \A l, m \in Nodes : lead'[l] = lead'[m] /\ lead'[l] # 0 => l = m
    BY <1>0, <2>2 DEF TermInv
  <2>4. /\ \A c \in outbox' : c.term <= term'
        /\ \A t \in fresh' : t \in 0 .. term'
    BY <1>0, <2>2 DEF TermInv
  <2>5. /\ \A i \in DOMAIN log' : log'[i].term <= term'
        /\ \A i \in DOMAIN log' : i > base' /\ log'[i].prompt => log'[i].term = term'
    BY <1>0, <2>1, <2>2 DEF TermInv
  <2> QED BY Zenon, <2>3, <2>4, <2>5 DEF TermInv
<1>7. ASSUME NEW n \in Nodes, Lose(n) \/ Crash(n)
      PROVE  TermInv'
  <2>1. /\ UNCHANGED <<term, log, base, fresh>> /\ outbox' \subseteq outbox
        /\ lead' = [lead EXCEPT ![n] = 0]
        /\ \E p \in {"off", "closed"} : phase' = [phase EXCEPT ![n] = p]
    BY Zenon, <1>7 DEF Lose, Crash, raftVars, ghosts
  <2> QED BY <1>0, <2>1 DEF TermInv
<1>8. ASSUME NEW c \in outbox, Propose(c)
      PROVE  TermInv'
  <2> DEFINE e == Entry(c.term, c.ts, c.bound)
  <2>1. c.term \in Nat /\ c.ts \in Stamps /\ c.bound \in Nat
    BY Zenon DEF TypeInv, OutboxType
  <2>2. e \in EntryType /\ e.term = c.term /\ e.prompt = (c.term = term)
    BY <2>1, EntryOK
  <2>3. log' = Append(log, e) /\ UNCHANGED <<term, base, lead, phase, fresh>> /\ outbox' \subseteq outbox
    BY Zenon, <1>8 DEF Propose, oracleVars, ghosts
  <2> HIDE DEF e
  <2> QED BY Zenon, <1>3, <2>2, <2>3 DEF TermInv
<1>9. ASSUME NEW n \in Nodes,
             UpdateWindow(n) \/ WindowProposed(n) \/ WindowFailed(n)
               \/ \E now, from, step, b : Spinning(n, now, from, step, b)
      PROVE  TermInv'
  <2>1. UNCHANGED <<term, log, base, lead, phase, fresh, outbox>>
    BY <1>9 DEF UpdateWindow, WindowProposed, WindowFailed, Spinning, Spin, AllocFrame,
                raftVars, oracleVars, ghosts
  <2> QED BY Zenon, <1>1, <2>1
<1>10. CASE UNCHANGED vars
  BY Zenon, <1>1, <1>10 DEF vars, raftVars, oracleVars, ghosts
<1> QED BY Zenon, AllocSteps, <1>2, <1>4, <1>5, <1>6, <1>7, <1>8, <1>9, <1>10 DEF Next

\* A term has no entries and no commands until StartServing has returned, unless a client
\* came early.
LEMMA StartStep ==
  ASSUME TypeInv, TermInv, StartInv, [Next]_vars
  PROVE  StartInv'
<1>0. /\ lead \in [Nodes -> Nat] /\ phase \in [Nodes -> Phases] /\ term \in Nat
      /\ DOMAIN log = 1 .. Len(log) /\ Len(log) \in Nat
      /\ \A i \in 1 .. Len(log) : log[i].term \in Nat
      /\ \A c \in outbox : c.term \in Nat
  BY Zenon, LogTyped DEF TypeInv, OutboxType
<1>1. ASSUME UNCHANGED <<log, lead, phase, fresh, early>>, outbox' \subseteq outbox
      PROVE  StartInv'
  BY Zenon, <1>1 DEF StartInv
<1>2. ASSUME NEW n \in Nodes, NEW now \in 1 .. MaxTime, NEW k \in 0 .. base, LoadBound(n, now, k)
      PROVE  StartInv'
  <2>1. /\ phase[n] = "starting" /\ phase' = [phase EXCEPT ![n] = "loaded"]
        /\ fresh' \subseteq fresh \cup {lead[n]} /\ UNCHANGED <<log, lead, outbox, early>>
    BY Zenon, <1>2 DEF LoadBound
  <2>2. \A m \in Nodes : phase[m] = "starting" /\ m # n => lead[m] # lead[n]
    BY Zenon, <2>1 DEF TermInv
  <2> QED BY Zenon, <1>0, <2>1, <2>2 DEF StartInv
<1>3. ASSUME NEW n \in Nodes, NEW now \in 1 .. MaxTime, PersistUpperbound(n, now)
      PROVE  StartInv'
  <2> DEFINE e == Entry(lead[n], Incr(current[n]), current[n].physical + Window)
  <2>1. Incr(current[n]) \in Stamps /\ current[n].physical + Window \in Nat
    BY Zenon, IncrType
  <2>2. e \in EntryType /\ e.term = lead[n]
    BY <1>0, <2>1, EntryOK
  <2>3. /\ log' = Append(log, e) /\ UNCHANGED <<lead, fresh, early, outbox>>
        /\ phase[n] = "loaded" /\ phase' = [phase EXCEPT ![n] = "serving"]
    BY Zenon, <1>3 DEF PersistUpperbound, ghosts
  <2>4. \A m \in Nodes : phase[m] \in {"starting", "loaded"} /\ m # n => lead[m] # lead[n]
    BY Zenon, <2>3 DEF TermInv
  <2> HIDE DEF e
  <2> QED BY <1>0, <2>2, <2>3, <2>4, LogAppend DEF StartInv
<1>4. ASSUME NEW n \in Nodes, NEW now, NEW from, NEW b, Stamping(n, now, from, b)
      PROVE  StartInv'
  <2>1. /\ UNCHANGED <<log, lead, phase, fresh>>
        /\ outbox' = outbox \cup {[node |-> n, term |-> lead[n], ts |-> Incr(from), bound |-> b]}
        /\ early \subseteq early' /\ (phase[n] # "serving" => lead[n] \in early')
    BY Zenon, <1>4 DEF Stamping, Stamp, AllocFrame, raftVars
  <2>2. \A m \in Nodes : phase[m] \in {"starting", "loaded"} /\ lead[m] = lead[n] => m = n
    BY Zenon DEF TermInv
  <2> QED BY <2>1, <2>2 DEF StartInv
<1>5. ASSUME NEW n \in Nodes, Elect(n)
      PROVE  StartInv'
  <2>1. /\ DOMAIN log' = 1 .. base' /\ base' <= Len(log) /\ base' \in Nat
        /\ \A i \in 1 .. base' : log'[i] = log[i]
    BY Zenon, <1>5, LogCut
  <2>2. /\ lead' = [lead EXCEPT ![n] = term + 1]
        /\ phase' = [phase EXCEPT ![n] = "starting"] /\ UNCHANGED <<outbox, fresh, early>>
    BY Zenon, <1>5 DEF Elect, ghosts
  <2>3. /\ \A t \in fresh : t # term + 1
        /\ \A c \in outbox : c.term # term + 1
        /\ \A i \in 1 .. Len(log) : log[i].term # term + 1
    <3>1. \A t \in fresh : t \in 0 .. term
      BY Zenon DEF TermInv
    <3>2. \A c \in outbox : c.term <= term /\ c.term \in Nat
      BY Zenon, <1>0 DEF TermInv
    <3>3. \A i \in 1 .. Len(log) : log[i].term <= term /\ log[i].term \in Nat
      BY Zenon, <1>0 DEF TermInv
    <3>4. \A t \in 0 .. term : t # term + 1
      BY <1>0
    <3>5. \A t \in Nat : t <= term => t # term + 1
      BY <1>0
    <3> QED BY Zenon, <3>1, <3>2, <3>3, <3>4, <3>5
  <2>4. \A i \in DOMAIN log' : i \in 1 .. Len(log) /\ log'[i] = log[i]
    BY <1>0, <2>1
  <2> QED BY <1>0, <2>2, <2>3, <2>4 DEF StartInv
<1>6. ASSUME NEW n \in Nodes, Lose(n) \/ Crash(n)
      PROVE  StartInv'
  <2>1. /\ UNCHANGED <<log, fresh, early>> /\ outbox' \subseteq outbox
        /\ lead' = [lead EXCEPT ![n] = 0]
        /\ \E p \in {"off", "closed"} : phase' = [phase EXCEPT ![n] = p]
    BY Zenon, <1>6 DEF Lose, Crash, raftVars, ghosts
  <2> QED BY Zenon, <1>0, <2>1 DEF StartInv
<1>7. ASSUME NEW c \in outbox, Propose(c)
      PROVE  StartInv'
  <2> DEFINE e == Entry(c.term, c.ts, c.bound)
  <2>1. c.term \in Nat /\ c.ts \in Stamps /\ c.bound \in Nat
    BY Zenon DEF TypeInv, OutboxType
  <2>2. e \in EntryType /\ e.term = c.term
    BY <2>1, EntryOK
  <2>3. log' = Append(log, e) /\ UNCHANGED <<lead, phase, fresh, early>> /\ outbox' \subseteq outbox
    BY Zenon, <1>7 DEF Propose, oracleVars, ghosts
  <2> HIDE DEF e
  <2> QED BY <1>0, <2>2, <2>3, LogAppend DEF StartInv
<1>8. ASSUME NEW n \in Nodes,
             UpdateWindow(n) \/ WindowProposed(n) \/ WindowFailed(n)
               \/ \E now, from, step, b : Spinning(n, now, from, step, b)
      PROVE  StartInv'
  <2>1. UNCHANGED <<log, lead, phase, fresh, early, outbox>>
    BY <1>8 DEF UpdateWindow, WindowProposed, WindowFailed, Spinning, Spin, AllocFrame,
                raftVars, oracleVars, ghosts
  <2> QED BY Zenon, <1>1, <2>1
<1>9. CASE UNCHANGED vars
  BY Zenon, <1>1, <1>9 DEF vars, raftVars, oracleVars, ghosts
<1> QED BY ZenonT(60), AllocSteps, <1>2, <1>3, <1>4, <1>5, <1>6, <1>7, <1>8, <1>9 DEF Next

\* An oracle follows its clock, except while calibrate sleeps.
LEMMA ClockStep ==
  ASSUME TypeInv, TermInv, ClockInv, [Next]_vars
  PROVE  ClockInv'
<1>0. /\ lead \in [Nodes -> Nat] /\ phase \in [Nodes -> Phases] /\ clock \in [Nodes -> Nat]
      /\ current \in [Nodes -> Stamps] /\ Window \in Nat
      /\ window \in [Nodes -> [at : {"idle", "begun", "stamped", "proposed"}, bound : Nat]]
      /\ \A n \in Nodes : current[n].physical \in Nat /\ window[n].bound \in Nat
  BY Zenon, FailoverAssumption DEF TypeInv, Stamps
<1>1. ASSUME UNCHANGED <<clock, current, lead, early>>,
             \A n \in Nodes : window'[n].bound = window[n].bound,
             \A n \in Nodes : phase'[n] = "loaded" <=> phase[n] = "loaded"
      PROVE  ClockInv'
  BY Zenon, <1>1 DEF ClockInv
<1>2. ASSUME NEW n \in Nodes, NEW now \in 1 .. MaxTime, NEW k \in 0 .. base, LoadBound(n, now, k)
      PROVE  ClockInv'
  <2>1. /\ clock' = [clock EXCEPT ![n] = now] /\ clock[n] <= now /\ now \in Nat
        /\ phase' = [phase EXCEPT ![n] = "loaded"]
        /\ current' = [current EXCEPT ![n] = Reset(StartAt(BoundAt(k), now))]
        /\ UNCHANGED <<lead, window, early>>
    BY <1>0, <1>2 DEF LoadBound, Now
  <2>2. /\ Reset(StartAt(BoundAt(k), now)).physical >= now
        /\ Reset(StartAt(BoundAt(k), now)).logical = 0
    BY <2>1, BoundType DEF StartAt, Reset
  <2>3. current'[n].physical >= now /\ current'[n].logical = 0
        /\ clock'[n] = now /\ phase'[n] = "loaded" /\ window'[n].bound <= now + Window
        /\ \A m \in Nodes : m # n => current'[m] = current[m] /\ clock'[m] = clock[m]
                                     /\ phase'[m] = phase[m]
    BY <1>0, <2>1, <2>2 DEF ClockInv
  <2> QED BY <2>1, <2>3 DEF ClockInv
<1>3. ASSUME NEW n \in Nodes, NEW now \in 1 .. MaxTime, PersistUpperbound(n, now)
      PROVE  ClockInv'
  <2>1. /\ clock' = [clock EXCEPT ![n] = now] /\ clock[n] <= now /\ now \in Nat
        /\ phase' = [phase EXCEPT ![n] = "serving"] /\ current[n].physical <= now
        /\ current' = [current EXCEPT ![n] = Incr(current[n])]
        /\ UNCHANGED <<lead, window, early>>
    BY <1>0, <1>3 DEF PersistUpperbound, Now, ghosts
  <2>2. current'[n].physical <= now
        /\ clock'[n] = now /\ phase'[n] = "serving" /\ window'[n].bound <= now + Window
        /\ \A m \in Nodes : m # n => current'[m] = current[m] /\ clock'[m] = clock[m]
                                     /\ phase'[m] = phase[m]
    BY <1>0, <2>1, IncrType DEF ClockInv
  <2> QED BY <2>1, <2>2 DEF ClockInv
<1>4. ASSUME NEW n \in Nodes, NEW b, Asks(n, b)
      PROVE  \A m \in Nodes : window'[m].bound = window[m].bound
  BY <1>0, <1>4 DEF Asks
<1>5. ASSUME NEW n \in Nodes, NEW now, NEW from, NEW b, Stamping(n, now, from, b)
      PROVE  ClockInv'
  <2>1. /\ clock' = [clock EXCEPT ![n] = now] /\ clock[n] <= now /\ now \in Nat
        /\ UNCHANGED <<lead, phase>> /\ current' = [current EXCEPT ![n] = Incr(from)]
        /\ early \subseteq early' /\ (phase[n] # "serving" => lead[n] \in early')
        /\ Asks(n, b) /\ from \in Stamps
        /\ from.physical = now \/ from.physical = current[n].physical
    BY Zenon, <1>5 DEF Stamping, Stamp, AllocFrame
  <2>2. Incr(from).physical = from.physical
    BY Zenon, <2>1 DEF Incr, Stamps
  <2>3. \A m \in Nodes : window'[m].bound = window[m].bound
    BY Zenon, <1>4, <2>1
  <2>4. /\ current'[n].physical = from.physical /\ clock'[n] = now
        /\ phase[n] # "loaded" => from.physical <= now
        /\ window'[n].bound <= now + Window
        /\ \A m \in Nodes : m # n => current'[m] = current[m] /\ clock'[m] = clock[m]
    BY <1>0, <2>1, <2>2, <2>3 DEF ClockInv
  <2> QED BY <2>1, <2>3, <2>4 DEF ClockInv
<1>6. ASSUME NEW n \in Nodes, NEW now, NEW from, NEW step, NEW b, Spinning(n, now, from, step, b)
      PROVE  ClockInv'
  <2>1. /\ clock' = [clock EXCEPT ![n] = now] /\ clock[n] <= now /\ now \in Nat
        /\ UNCHANGED <<lead, phase, early>> /\ current' = [current EXCEPT ![n] = from]
        /\ Asks(n, b) /\ from \in Stamps /\ from.physical >= now
        /\ from = Reset(now) \/ from = current[n]
    BY Zenon, <1>6 DEF Spinning, Spin, AllocFrame
  <2>2. Reset(now).physical = now /\ Reset(now).logical = 0
    BY Zenon DEF Reset
  <2>3. \A m \in Nodes : window'[m].bound = window[m].bound
    BY Zenon, <1>4, <2>1
  <2>4. /\ current'[n] = from /\ clock'[n] = now
        /\ phase[n] # "loaded" => from.physical <= now
        /\ phase[n] = "loaded" /\ lead[n] \notin early => from.logical = 0
        /\ window'[n].bound <= now + Window
        /\ \A m \in Nodes : m # n => current'[m] = current[m] /\ clock'[m] = clock[m]
    BY <1>0, <2>1, <2>2, <2>3 DEF ClockInv
  <2> QED BY <2>1, <2>3, <2>4 DEF ClockInv
<1>7. ASSUME NEW n \in Nodes, Elect(n) \/ Lose(n)
      PROVE  ClockInv'
  <2>1. /\ UNCHANGED <<clock, current, window, early>>
        /\ \E p \in {"starting", "closed"} : phase' = [phase EXCEPT ![n] = p]
        /\ phase[n] # "loaded"
        /\ \A m \in Nodes : m # n => lead'[m] = lead[m]
    BY Zenon, <1>0, <1>7 DEF Elect, Lose, ghosts, raftVars, TermInv
  <2> QED BY Zenon, <1>0, <2>1 DEF ClockInv
<1>8. ASSUME NEW n \in Nodes, Crash(n)
      PROVE  ClockInv'
  <2>1. /\ UNCHANGED <<clock, early>> /\ phase' = [phase EXCEPT ![n] = "off"]
        /\ current' = [current EXCEPT ![n] = Reset(0)] /\ Reset(0).physical = 0
        /\ window' = [window EXCEPT ![n] = NoWindow] /\ NoWindow.bound = 0
        /\ lead' = [lead EXCEPT ![n] = 0]
    BY Zenon, <1>8 DEF Crash, ghosts, Reset, NoWindow
  <2> QED BY <1>0, <2>1 DEF ClockInv
<1>9. ASSUME NEW n \in Nodes, UpdateWindow(n) \/ WindowProposed(n) \/ WindowFailed(n)
      PROVE  ClockInv'
  <2>1. UNCHANGED <<clock, current, lead, phase, early>>
    BY Zenon, <1>9 DEF UpdateWindow, WindowProposed, WindowFailed, raftVars, oracleVars, ghosts
  <2>2. /\ \A m \in Nodes : m # n => window'[m] = window[m]
        /\ \/ window'[n].bound = 0
           \/ phase[n] = "serving" /\ window'[n].bound = current[n].physical + Window
    <3>1. CASE UpdateWindow(n)
      <4>1. /\ phase[n] = "serving"
            /\ window' = [window EXCEPT ![n] = [at |-> "begun", bound |-> current[n].physical + Window]]
        BY Zenon, <3>1 DEF UpdateWindow
      <4>2. window'[n] = [at |-> "begun", bound |-> current[n].physical + Window]
            /\ \A m \in Nodes : m # n => window'[m] = window[m]
        BY Zenon, <1>0, <4>1
      <4> QED BY <4>1, <4>2
    <3>2. CASE WindowProposed(n) \/ WindowFailed(n)
      <4>1. window' = [window EXCEPT ![n] = NoWindow] /\ NoWindow.bound = 0
        BY Zenon, <3>2 DEF WindowProposed, WindowFailed, NoWindow
      <4>2. window'[n] = NoWindow /\ \A m \in Nodes : m # n => window'[m] = window[m]
        BY Zenon, <1>0, <4>1
      <4> QED BY Zenon, <4>1, <4>2
    <3> QED BY Zenon, <1>9, <3>1, <3>2
  <2>3. window'[n].bound <= clock[n] + Window
    BY <1>0, <2>2 DEF ClockInv
  <2> QED BY Zenon, <2>1, <2>2, <2>3 DEF ClockInv
<1>10. ASSUME NEW c \in outbox, Propose(c)
       PROVE  ClockInv'
  <2>1. /\ UNCHANGED <<clock, current, lead, phase, early>>
        /\ \A n \in Nodes : window'[n].bound = window[n].bound
    BY <1>0, <1>10 DEF Propose, oracleVars, ghosts
  <2> QED BY Zenon, <1>1, <2>1
<1>11. CASE UNCHANGED vars
  BY Zenon, <1>1, <1>11 DEF vars, raftVars, oracleVars, ghosts
<1> QED BY ZenonT(60), AllocSteps, <1>2, <1>3, <1>5, <1>6, <1>7, <1>8, <1>9, <1>10, <1>11 DEF Next

\* The updater has one command at a time.
LEMMA WindowStep ==
  ASSUME TypeInv, WindowInv, [Next]_vars
  PROVE  WindowInv'
<1>0. /\ window \in [Nodes -> [at : {"idle", "begun", "stamped", "proposed"}, bound : Nat]]
      /\ spin \in [Nodes -> [step : {"no", "bound", "logical"}, bound : Nat]]
      /\ \A c \in outbox : c.node \in Nodes
  BY Zenon DEF TypeInv, OutboxType
<1>1. ASSUME UNCHANGED <<window, spin>>, outbox' \subseteq outbox
      PROVE  WindowInv'
  BY Zenon, <1>1 DEF WindowInv
<1>2. ASSUME NEW n \in Nodes, NEW now, NEW from, NEW b, Stamping(n, now, from, b)
      PROVE  WindowInv'
  <2> DEFINE c == [node |-> n, term |-> lead[n], ts |-> Incr(from), bound |-> b]
  <2>1. /\ outbox' = outbox \cup {c} /\ spin' = [spin EXCEPT ![n] = Unheld] /\ Asks(n, b)
    BY Zenon, <1>2 DEF Stamping, Stamp
  <2>2. c.node = n /\ c.bound = b /\ Unheld.bound = 0
    BY Zenon DEF Unheld
  <2>3. b # 0 => window'[n].at = "stamped" /\ window'[n].bound = b
    BY <1>0, <2>1 DEF Asks, WindowInv
  <2>4. b # 0 => \A d \in outbox : d.node = n => d.bound = 0
    BY Zenon, <1>0, <2>1 DEF Asks, WindowInv
  <2>5. \A m \in Nodes : window[m].at = "stamped" => window'[m] = window[m]
    BY Zenon, <1>0, <2>1 DEF Asks
  <2>6. spin'[n].bound = 0 /\ \A m \in Nodes : m # n => spin'[m] = spin[m]
    BY Zenon, <1>0, <2>1, <2>2
  <2> HIDE DEF c
  <2>7. \A d \in outbox' : d.bound # 0 =>
          /\ window'[d.node].at = "stamped" /\ window'[d.node].bound = d.bound
          /\ spin'[d.node].bound = 0
    BY <1>0, <2>1, <2>2, <2>3, <2>5, <2>6 DEF WindowInv
  <2>8. \A d, e \in outbox' : d.node = e.node /\ d.bound # 0 /\ e.bound # 0 => d = e
    BY Zenon, <2>1, <2>2, <2>4 DEF WindowInv
  <2>9. \A m \in Nodes : spin'[m].bound # 0 =>
          window'[m].at = "stamped" /\ window'[m].bound = spin'[m].bound
    BY <2>5, <2>6 DEF WindowInv
  <2> QED BY ZenonT(60), <2>7, <2>8, <2>9 DEF WindowInv
<1>3. ASSUME NEW n \in Nodes, NEW now, NEW from, NEW step, NEW b, Spinning(n, now, from, step, b)
      PROVE  WindowInv'
  <2>1. /\ outbox' = outbox /\ spin' = [spin EXCEPT ![n] = [step |-> step, bound |-> b]]
        /\ Asks(n, b)
    BY Zenon, <1>3 DEF Spinning, Spin
  <2>2. spin'[n].bound = b /\ \A m \in Nodes : m # n => spin'[m] = spin[m]
    BY Zenon, <1>0, <2>1
  <2>3. b # 0 => window'[n].at = "stamped" /\ window'[n].bound = b
    BY <1>0, <2>1 DEF Asks, WindowInv
  <2>4. b # 0 => \A d \in outbox : d.node = n => d.bound = 0
    BY Zenon, <1>0, <2>1 DEF Asks, WindowInv
  <2>5. \A m \in Nodes : window[m].at = "stamped" => window'[m] = window[m]
    BY Zenon, <1>0, <2>1 DEF Asks
  <2>7. \A d \in outbox' : d.bound # 0 =>
          /\ window'[d.node].at = "stamped" /\ window'[d.node].bound = d.bound
          /\ spin'[d.node].bound = 0
    BY <1>0, <2>1, <2>2, <2>4, <2>5 DEF WindowInv
  <2>9. \A m \in Nodes : spin'[m].bound # 0 =>
          window'[m].at = "stamped" /\ window'[m].bound = spin'[m].bound
    BY <2>2, <2>3, <2>5 DEF WindowInv
  <2> QED BY Zenon, <2>1, <2>7, <2>9 DEF WindowInv
<1>4. ASSUME NEW n \in Nodes, Crash(n)
      PROVE  WindowInv'
  <2>1. /\ outbox' = {c \in outbox : c.node # n} /\ spin' = [spin EXCEPT ![n] = Unheld]
        /\ window' = [window EXCEPT ![n] = NoWindow] /\ Unheld.bound = 0
    BY Zenon, <1>4 DEF Crash, Unheld
  <2> QED BY <1>0, <2>1 DEF WindowInv
<1>5. ASSUME NEW n \in Nodes, UpdateWindow(n) \/ WindowProposed(n) \/ WindowFailed(n)
      PROVE  WindowInv'
  <2>1. /\ UNCHANGED <<outbox, spin>> /\ window[n].at # "stamped"
        /\ \A m \in Nodes : m # n => window'[m] = window[m]
    BY <1>0, <1>5 DEF UpdateWindow, WindowProposed, WindowFailed, oracleVars, NoWindow
  <2> QED BY <1>0, <2>1 DEF WindowInv
<1>6. ASSUME NEW c \in outbox, Propose(c)
      PROVE  WindowInv'
  <2>1. /\ outbox' = outbox \ {c} /\ spin' = spin
        /\ \A m \in Nodes : m # c.node \/ c.bound = 0 => window'[m] = window[m]
    BY Zenon, <1>0, <1>6 DEF Propose, oracleVars
  <2>2. c.bound # 0 => spin[c.node].bound = 0 /\ \A d \in outbox' : d.node = c.node => d.bound = 0
    BY Zenon, <2>1 DEF WindowInv
  <2> QED BY <1>0, <2>1, <2>2 DEF WindowInv
<1>7. ASSUME NEW n \in Nodes,
             \/ Elect(n) \/ Lose(n)
             \/ \E now, k : LoadBound(n, now, k)
             \/ \E now : PersistUpperbound(n, now)
      PROVE  WindowInv'
  <2>1. UNCHANGED <<outbox, spin, window>>
    BY Zenon, <1>7 DEF Elect, Lose, LoadBound, PersistUpperbound
  <2> QED BY Zenon, <1>1, <2>1
<1>8. CASE UNCHANGED vars
  BY Zenon, <1>1, <1>8 DEF vars, oracleVars
<1> QED BY Zenon, AllocSteps, <1>2, <1>3, <1>4, <1>5, <1>6, <1>7, <1>8 DEF Next

\* A bound stays in the log while the term lasts.
LEMMA RaisesStays ==
  ASSUME TypeInv, log' = log \/ \E e \in EntryType : log' = Append(log, e)
  PROVE  \A b : Raises(log, b) => Raises(log', b)
<1> SUFFICES ASSUME NEW b, Raises(log, b) PROVE Raises(log', b)
  BY Zenon
<1>1. PICK j \in DOMAIN log : log[j].bound >= b
  BY Zenon DEF Raises
<1>2. j \in DOMAIN log' /\ log'[j] = log[j]
  <2>1. CASE log' = log
    BY Zenon, <2>1
  <2>2. CASE \E e \in EntryType : log' = Append(log, e)
    <3>1. PICK e \in EntryType : log' = Append(log, e)
      BY Zenon, <2>2
    <3> QED BY <1>1, <3>1, LogAppend
  <2> QED BY Zenon, <2>1, <2>2
<1> QED BY Zenon, <1>1, <1>2 DEF Raises

\* It raises the bound to b when it joins the log.
LEMMA RaisesNow ==
  ASSUME TypeInv, NEW e \in EntryType, log' = Append(log, e), NEW b, e.bound >= b
  PROVE  Raises(log', b)
<1>1. Len(log) + 1 \in DOMAIN log' /\ log'[Len(log) + 1] = e
  BY LogAppend
<1> QED BY Zenon, <1>1 DEF Raises

\* A bound becomes saved only when it is in the log.
LEMMA CoverStep ==
  ASSUME TypeInv, TermInv, ClockInv, WindowInv, CoverInv, [Next]_vars
  PROVE  CoverInv'
<1>0. /\ lead \in [Nodes -> Nat] /\ phase \in [Nodes -> Phases] /\ clock \in [Nodes -> Nat]
      /\ current \in [Nodes -> Stamps] /\ saved \in [Nodes -> Nat] /\ Window \in Nat
      /\ window \in [Nodes -> [at : {"idle", "begun", "stamped", "proposed"}, bound : Nat]]
      /\ term \in Nat
      /\ \A n \in Nodes : current[n].physical \in Nat /\ window[n].bound \in Nat
      /\ \A c \in outbox : /\ c.node \in Nodes /\ c.term \in Nat
                           /\ c.ts \in Stamps /\ c.bound \in Nat /\ c.ts.physical \in Nat
  BY Zenon, FailoverAssumption DEF TypeInv, Stamps, OutboxType
<1>1. ASSUME log' = log \/ \E e \in EntryType : log' = Append(log, e),
             early \subseteq early', escaped \subseteq escaped', term' = term,
             \A n \in Nodes : Leads(n)' =>
               (Leads(n) /\ saved'[n] = saved[n]) \/ Raises(log', saved'[n]),
             \A n \in Nodes : Leads(n)' /\ window'[n].at = "proposed" =>
               (Leads(n) /\ window'[n] = window[n]) \/ Raises(log', window'[n].bound),
             \A c \in outbox' : c.term = term /\ term \notin early' \cup escaped' =>
               c \in outbox \/ Raises(log, c.ts.physical + 1)
      PROVE  CoverInv'
  <2>1. \A b : Raises(log, b) => Raises(log', b)
    BY Zenon, <1>1, RaisesStays
  <2>2. ASSUME NEW n \in Nodes, Leads(n)'
        PROVE  Raises(log', saved'[n])
    BY Zenon, <1>1, <2>1, <2>2 DEF CoverInv
  <2>3. ASSUME NEW n \in Nodes, Leads(n)', window'[n].at = "proposed"
        PROVE  Raises(log', window'[n].bound)
    BY Zenon, <1>1, <2>1, <2>3 DEF CoverInv
  <2>4. ASSUME NEW c \in outbox', c.term = term', term' \notin early' \cup escaped'
        PROVE  Raises(log', c.ts.physical + 1)
    BY Zenon, <1>1, <2>1, <2>4 DEF CoverInv
  <2> QED BY Zenon, <2>2, <2>3, <2>4 DEF CoverInv
<1>2. ASSUME NEW n \in Nodes, NEW now \in 1 .. MaxTime, NEW k \in 0 .. base, LoadBound(n, now, k)
      PROVE  CoverInv'
  <2>1. /\ UNCHANGED <<log, term, lead, window, outbox, early, escaped>>
        /\ phase' = [phase EXCEPT ![n] = "loaded"]
        /\ \A m \in Nodes : m # n => saved'[m] = saved[m]
    BY Zenon, <1>0, <1>2 DEF LoadBound
  <2>2. \A m \in Nodes : Leads(m)' => Leads(m) /\ m # n
    BY Zenon, <1>0, <2>1 DEF Leads
  <2> QED BY Zenon, <1>1, <2>1, <2>2
<1>3. ASSUME NEW n \in Nodes, NEW now \in 1 .. MaxTime, PersistUpperbound(n, now)
      PROVE  CoverInv'
  <2> DEFINE b == current[n].physical + Window
             e == Entry(lead[n], Incr(current[n]), b)
  <2>1. e \in EntryType /\ e.bound = b /\ b \in Nat
    BY <1>0, IncrType, EntryOK
  <2>2. /\ log' = Append(log, e) /\ UNCHANGED <<term, lead, window, outbox, early, escaped>>
        /\ phase' = [phase EXCEPT ![n] = "serving"] /\ phase[n] = "loaded"
        /\ saved' = [saved EXCEPT ![n] = b]
    BY Zenon, <1>3 DEF PersistUpperbound, ghosts
  <2>3. \A m \in Nodes : m # n => saved'[m] = saved[m] /\ (Leads(m)' => Leads(m))
    BY Zenon, <1>0, <2>2 DEF Leads
  <2>4. saved'[n] = b
    BY Zenon, <1>0, <2>2
  <2>5. Leads(n)' => window[n].bound <= b
    <3>1. Leads(n)' => lead[n] \notin early
      BY Zenon, <2>2 DEF Leads
    <3>2. lead[n] \notin early => clock[n] <= current[n].physical
      BY Zenon, <2>2 DEF ClockInv
    <3>3. window[n].bound <= clock[n] + Window /\ clock[n] \in Nat
      BY Zenon, <1>0 DEF ClockInv
    <3> QED BY <1>0, <3>1, <3>2, <3>3
  <2>6. e.bound >= b
    BY <2>1
  <2> HIDE DEF e, b
  <2>7. Raises(log', b)
    BY Zenon, <2>1, <2>2, <2>6, RaisesNow
  <2>8. Leads(n)' => Raises(log', window[n].bound)
    <3>1. Leads(n)' => e.bound >= window[n].bound
      BY Zenon, <1>0, <2>1, <2>5
    <3> QED BY Zenon, <2>1, <2>2, <3>1, RaisesNow
  <2> QED BY ZenonT(60), <1>1, <2>1, <2>2, <2>3, <2>4, <2>7, <2>8
<1>4. ASSUME NEW n \in Nodes, NEW b, Asks(n, b)
      PROVE  \A m \in Nodes : window'[m].at = "proposed" => window'[m] = window[m]
  BY <1>0, <1>4 DEF Asks
<1>5. ASSUME NEW n \in Nodes, NEW now, NEW from, NEW b, Stamping(n, now, from, b)
      PROVE  CoverInv'
  <2> DEFINE new == [node |-> n, term |-> lead[n], ts |-> Incr(from), bound |-> b]
  <2>1. /\ UNCHANGED <<log, term, lead, phase, saved>> /\ outbox' = outbox \cup {new}
        /\ early \subseteq early' /\ escaped \subseteq escaped'
        /\ phase[n] # "serving" => lead[n] \in early'
        /\ from.physical >= saved[n] => lead[n] \in escaped'
        /\ Asks(n, b) /\ from \in Stamps
    BY Zenon, <1>5 DEF Stamping, Stamp, AllocFrame, raftVars
  <2>2. new.term = lead[n] /\ new.ts.physical = from.physical /\ from.physical \in Nat
    BY Zenon, <2>1 DEF Incr, Stamps
  <2> HIDE DEF new
  <2>3. \A m \in Nodes : Leads(m)' => Leads(m)
    BY Zenon, <2>1 DEF Leads
  <2>4. ASSUME lead[n] = term, term \notin early' \cup escaped'
        PROVE  Raises(log, from.physical + 1)
    <3>1. Leads(n) /\ ~(from.physical >= saved[n])
      BY Zenon, <2>1, <2>4 DEF Leads
    <3>2. PICK j \in DOMAIN log : log[j].bound >= saved[n]
      BY Zenon, <3>1 DEF CoverInv, Raises
    <3>3. log[j].bound \in Nat /\ saved[n] \in Nat
      BY Zenon, <1>0, <3>2, LogTyped
    <3>4. log[j].bound >= from.physical + 1
      BY <2>2, <3>1, <3>2, <3>3
    <3> QED BY Zenon, <3>2, <3>4 DEF Raises
  <2>5. \A c \in outbox' : c.term = term /\ term \notin early' \cup escaped' =>
          c \in outbox \/ Raises(log, c.ts.physical + 1)
    BY Zenon, <2>1, <2>2, <2>4
  <2> QED BY Zenon, <1>1, <1>4, <2>1, <2>3, <2>5
<1>6. ASSUME NEW n \in Nodes, NEW now, NEW from, NEW step, NEW b, Spinning(n, now, from, step, b)
      PROVE  CoverInv'
  <2>1. /\ UNCHANGED <<log, term, lead, phase, saved, outbox, early, escaped>> /\ Asks(n, b)
    BY Zenon, <1>6 DEF Spinning, Spin, AllocFrame, raftVars
  <2>2. \A m \in Nodes : Leads(m)' => Leads(m)
    BY Zenon, <2>1 DEF Leads
  <2> QED BY Zenon, <1>1, <1>4, <2>1, <2>2
<1>7. ASSUME NEW n \in Nodes, Elect(n)
      PROVE  CoverInv'
  <2>1. /\ term' = term + 1 /\ lead' = [lead EXCEPT ![n] = term + 1]
        /\ phase' = [phase EXCEPT ![n] = "starting"] /\ outbox' = outbox
    BY Zenon, <1>7 DEF Elect
  <2>2. \A m \in Nodes : ~Leads(m)'
    BY <1>0, <2>1 DEF Leads, TermInv
  <2>3. \A c \in outbox' : c.term # term'
    BY <1>0, <2>1 DEF TermInv
  <2> QED BY Zenon, <2>2, <2>3 DEF CoverInv
<1>8. ASSUME NEW n \in Nodes, Lose(n) \/ Crash(n)
      PROVE  CoverInv'
  <2>1. /\ UNCHANGED <<log, term, early, escaped>> /\ outbox' \subseteq outbox
        /\ \E p \in {"off", "closed"} : phase' = [phase EXCEPT ![n] = p]
        /\ lead' = [lead EXCEPT ![n] = 0]
        /\ \A m \in Nodes : m # n => saved'[m] = saved[m] /\ window'[m] = window[m]
    BY <1>0, <1>8 DEF Lose, Crash, raftVars, ghosts
  <2>2. \A m \in Nodes : Leads(m)' => Leads(m) /\ m # n
    BY Zenon, <1>0, <2>1 DEF Leads
  <2> QED BY Zenon, <1>1, <2>1, <2>2
<1>9. ASSUME NEW n \in Nodes, UpdateWindow(n) \/ WindowFailed(n)
      PROVE  CoverInv'
  <2>1. /\ UNCHANGED <<log, term, lead, phase, saved, outbox, early, escaped>>
        /\ \E w : window' = [window EXCEPT ![n] = w] /\ w.at # "proposed"
    BY <1>9 DEF UpdateWindow, WindowFailed, NoWindow, raftVars, oracleVars, ghosts
  <2>2. \A m \in Nodes : Leads(m)' => Leads(m)
    BY Zenon, <2>1 DEF Leads
  <2>3. \A m \in Nodes : window'[m].at = "proposed" => window'[m] = window[m]
    BY Zenon, <1>0, <2>1
  <2> QED BY Zenon, <1>1, <2>1, <2>2, <2>3
<1>10. ASSUME NEW n \in Nodes, WindowProposed(n)
       PROVE  CoverInv'
  <2>1. /\ UNCHANGED <<log, term, lead, phase, outbox, early, escaped>>
        /\ saved' = [saved EXCEPT ![n] = window[n].bound] /\ window[n].at = "proposed"
        /\ window' = [window EXCEPT ![n] = NoWindow] /\ NoWindow.at # "proposed"
    BY Zenon, <1>10 DEF WindowProposed, NoWindow, raftVars, ghosts
  <2>2. \A m \in Nodes : Leads(m)' => Leads(m)
    BY Zenon, <2>1 DEF Leads
  <2>3. \A m \in Nodes : window'[m].at = "proposed" => window'[m] = window[m]
    BY Zenon, <1>0, <2>1
  <2>4. saved'[n] = window[n].bound /\ \A m \in Nodes : m # n => saved'[m] = saved[m]
    BY Zenon, <1>0, <2>1
  <2>5. Leads(n) => Raises(log', window[n].bound)
    BY Zenon, <2>1 DEF CoverInv
  <2> QED BY Zenon, <1>1, <2>1, <2>2, <2>3, <2>4, <2>5
<1>11. ASSUME NEW c \in outbox, Propose(c)
       PROVE  CoverInv'
  <2> DEFINE e == Entry(c.term, c.ts, c.bound)
  <2>1. e \in EntryType /\ e.bound = c.bound
    BY <1>0, EntryOK
  <2>2. /\ log' = Append(log, e) /\ UNCHANGED <<term, lead, phase, saved, early, escaped>>
        /\ outbox' \subseteq outbox
        /\ \A m \in Nodes : m # c.node \/ c.bound = 0 => window'[m] = window[m]
        /\ window'[c.node].bound = window[c.node].bound
    BY <1>0, <1>11 DEF Propose, oracleVars, ghosts
  <2>3. \A m \in Nodes : Leads(m)' => Leads(m)
    BY Zenon, <2>2 DEF Leads
  <2>4. c.bound # 0 => window'[c.node].bound = e.bound /\ e.bound >= window'[c.node].bound
    <3>1. c.bound # 0 => window[c.node].bound = c.bound
      BY Zenon DEF WindowInv
    <3> QED BY <1>0, <2>1, <2>2, <3>1
  <2> HIDE DEF e
  <2>5. c.bound # 0 => Raises(log', window'[c.node].bound)
    BY Zenon, <2>1, <2>2, <2>4, RaisesNow
  <2> QED BY Zenon, <1>1, <2>1, <2>2, <2>3, <2>5
<1>12. CASE UNCHANGED vars
  <2>1. UNCHANGED <<log, term, lead, phase, saved, window, outbox, early, escaped>>
    BY Zenon, <1>12 DEF vars, raftVars, oracleVars, ghosts
  <2>2. \A m \in Nodes : Leads(m)' => Leads(m)
    BY Zenon, <2>1 DEF Leads
  <2> QED BY Zenon, <1>1, <2>1, <2>2
<1> QED BY ZenonT(60), AllocSteps, <1>2, <1>3, <1>5, <1>6, <1>7, <1>8, <1>9, <1>10, <1>11, <1>12 DEF Next

\* The entries up to base stay while the term lasts.
LEMMA AboveStays ==
  ASSUME TypeInv, base' = base, log' = log \/ \E e \in EntryType : log' = Append(log, e),
         NEW p, Above(p)
  PROVE  Above(p)'
<1>1. \A i \in 1 .. base : log'[i] = log[i]
  <2>1. CASE log' = log
    BY Zenon, <2>1
  <2>2. CASE \E e \in EntryType : log' = Append(log, e)
    <3>1. PICK e \in EntryType : log' = Append(log, e)
      BY Zenon, <2>2
    <3>2. \A i \in 1 .. base : i \in 1 .. Len(log)
      BY LogTyped DEF TypeInv
    <3> QED BY Zenon, <3>1, <3>2, LogAppend
  <2> QED BY Zenon, <2>1, <2>2
<1> QED BY Zenon, <1>1 DEF Above

\* The leader of a fresh term starts above the old bounds, and its clock only goes forward.
LEMMA AheadStep ==
  ASSUME TypeInv, TermInv, StartInv, ClockInv, AheadInv, [Next]_vars
  PROVE  AheadInv'
<1>0. /\ lead \in [Nodes -> Nat] /\ phase \in [Nodes -> Phases] /\ clock \in [Nodes -> Nat]
      /\ current \in [Nodes -> Stamps] /\ term \in Nat /\ base \in Nat
      /\ \A n \in Nodes : current[n].physical \in Nat
      /\ \A c \in outbox : c.term \in Nat /\ c.ts \in Stamps /\ c.bound \in Nat
      /\ \A i \in 1 .. base : log[i].bound \in Nat
  <2>1. \A i \in 1 .. base : i \in 1 .. Len(log)
    BY LogTyped DEF TypeInv
  <2> QED BY Zenon, <2>1, LogTyped DEF TypeInv, Stamps, OutboxType
<1>1. ASSUME log' = log \/ \E e \in EntryType : log' = Append(log, e), base' = base,
             early \subseteq early', fresh' = fresh, term' = term, outbox' \subseteq outbox,
             \A n \in Nodes : lead'[n] = term /\ phase'[n] \in {"loaded", "serving"} =>
               /\ lead[n] = term /\ phase[n] \in {"loaded", "serving"}
               /\ current'[n].physical = current[n].physical
      PROVE  AheadInv'
  <2>1. \A p : Above(p) => Above(p)'
    BY Zenon, <1>1, AboveStays
  <2>2. ASSUME term' \in fresh' \ early', NEW n \in Nodes, lead'[n] = term',
               phase'[n] \in {"loaded", "serving"}
        PROVE  Above(current[n].physical)'
    <3>1. Above(current[n].physical)
      BY Zenon, <1>1, <2>2 DEF AheadInv
    <3>2. Above(current[n].physical) => \A i \in 1 .. base' : log'[i].bound < current[n].physical
      BY Zenon, <2>1 DEF Above
    <3>3. current'[n].physical = current[n].physical
      BY Zenon, <1>1, <2>2
    <3> QED BY Zenon, <3>1, <3>2, <3>3 DEF Above
  <2>3. ASSUME term' \in fresh' \ early', NEW c \in outbox', c.term = term'
        PROVE  Above(c.ts.physical)'
    BY Zenon, <1>1, <2>1, <2>3 DEF AheadInv
  <2> QED BY Zenon, <2>2, <2>3 DEF AheadInv
<1>2. ASSUME UNCHANGED <<log, base, term>>, fresh' \ {term} = fresh \ {term}, early \subseteq early',
             \A n \in Nodes : term \in fresh' \ early' /\ lead'[n] = term
                              /\ phase'[n] \in {"loaded", "serving"} =>
               \A i \in 1 .. base : log[i].bound < current'[n].physical,
             \A c \in outbox' : term \in fresh' \ early' /\ c.term = term =>
               \A i \in 1 .. base : log[i].bound < c.ts.physical
      PROVE  AheadInv'
  BY Zenon, <1>2 DEF AheadInv, Above
<1>3. ASSUME NEW n \in Nodes, NEW now \in 1 .. MaxTime, NEW k \in 0 .. base, LoadBound(n, now, k)
      PROVE  AheadInv'
  <2> DEFINE last == BoundAt(k)
  <2>1. /\ phase[n] = "starting" /\ phase' = [phase EXCEPT ![n] = "loaded"]
        /\ current' = [current EXCEPT ![n] = Reset(StartAt(last, now))]
        /\ fresh' = IF \A i \in 1 .. base : log[i].bound <= last
                    THEN fresh \cup {lead[n]} ELSE fresh
        /\ UNCHANGED <<log, base, term, lead, outbox, early>>
    BY Zenon, <1>3 DEF LoadBound
  <2>2. current'[n].physical > last /\ last \in Nat /\ current'[n].physical \in Nat
    BY <1>0, <2>1, BoundType, FailoverAssumption DEF StartAt, Reset
  <2> HIDE DEF last
  <2>3. lead[n] \notin fresh /\ lead[n] # 0
    BY Zenon, <2>1 DEF StartInv, TermInv
  <2>4. CASE lead[n] = term
    <3>1. \A m \in Nodes : lead[m] = term => m = n
      BY Zenon, <2>3, <2>4 DEF TermInv
    <3>2. term \in fresh' => \A i \in 1 .. base : log[i].bound < current'[n].physical
      BY <1>0, <2>1, <2>2, <2>3, <2>4
    <3>3. term \notin early' => \A c \in outbox' : c.term # term
      BY Zenon, <2>1, <2>4 DEF StartInv
    <3>4. fresh' \ {term} = fresh \ {term}
      BY Zenon, <2>1, <2>4
    <3> QED BY Zenon, <1>2, <2>1, <3>1, <3>2, <3>3, <3>4
  <2>5. CASE lead[n] # term
    <3>1. term \in fresh' <=> term \in fresh
      BY Zenon, <2>1, <2>5
    <3>2. \A m \in Nodes : m # n => current'[m] = current[m] /\ phase'[m] = phase[m]
      BY Zenon, <1>0, <2>1
    <3>3. ASSUME term' \in fresh' \ early'
          PROVE  /\ \A m \in Nodes : lead'[m] = term' /\ phase'[m] \in {"loaded", "serving"} =>
                      \A i \in 1 .. base' : log'[i].bound < current'[m].physical
                 /\ \A c \in outbox' : c.term = term' =>
                      \A i \in 1 .. base' : log'[i].bound < c.ts.physical
      BY Zenon, <2>1, <2>5, <3>1, <3>2, <3>3 DEF AheadInv, Above
    <3> QED BY Zenon, <3>3 DEF AheadInv, Above
  <2> QED BY Zenon, <2>4, <2>5
<1>4. ASSUME NEW n \in Nodes, NEW now \in 1 .. MaxTime, PersistUpperbound(n, now)
      PROVE  AheadInv'
  <2> DEFINE e == Entry(lead[n], Incr(current[n]), current[n].physical + Window)
  <2>1. e \in EntryType
    BY Zenon, <1>0, IncrType, EntryOK
  <2>2. /\ log' = Append(log, e) /\ UNCHANGED <<term, base, lead, outbox, early, fresh>>
        /\ phase' = [phase EXCEPT ![n] = "serving"] /\ phase[n] = "loaded"
        /\ current' = [current EXCEPT ![n] = Incr(current[n])]
    BY Zenon, <1>4 DEF PersistUpperbound, ghosts
  <2> HIDE DEF e
  <2>3. \A m \in Nodes : /\ current'[m].physical = current[m].physical
                         /\ phase'[m] \in {"loaded", "serving"} => phase[m] \in {"loaded", "serving"}
    BY Zenon, <1>0, <2>2, IncrType
  <2> QED BY Zenon, <1>1, <2>1, <2>2, <2>3
<1>5. ASSUME NEW n \in Nodes, NEW now, NEW from, NEW b, Stamping(n, now, from, b)
      PROVE  AheadInv'
  <2> DEFINE new == [node |-> n, term |-> lead[n], ts |-> Incr(from), bound |-> b]
  <2>1. /\ UNCHANGED <<log, base, term, lead, phase, fresh>> /\ outbox' = outbox \cup {new}
        /\ early \subseteq early' /\ clock[n] <= now /\ now \in Nat
        /\ phase[n] # "serving" => lead[n] \in early'
        /\ from \in Stamps /\ current' = [current EXCEPT ![n] = Incr(from)]
        /\ from.physical = now \/ from.physical = current[n].physical
    BY Zenon, <1>5 DEF Stamping, Stamp, AllocFrame, raftVars
  <2>2. /\ new.term = lead[n] /\ new.ts.physical = from.physical /\ from.physical \in Nat
        /\ Incr(from).physical = from.physical
    BY Zenon, <2>1 DEF Incr, Stamps
  <2> HIDE DEF new
  <2>3. /\ current'[n].physical = from.physical
        /\ \A m \in Nodes : m # n => current'[m] = current[m]
    BY Zenon, <1>0, <2>1, <2>2
  <2>4. ASSUME term \in fresh' \ early', lead[n] = term
        PROVE  \A i \in 1 .. base : log[i].bound < from.physical
    <3>1. phase[n] = "serving" /\ term \in fresh \ early
      BY Zenon, <2>1, <2>4
    <3>2. current[n].physical <= from.physical
      BY <1>0, <2>1, <3>1 DEF ClockInv
    <3>3. \A i \in 1 .. base : log[i].bound < current[n].physical
      BY Zenon, <2>4, <3>1 DEF AheadInv, Above
    <3>4. /\ current[n].physical \in Nat /\ from.physical \in Nat
          /\ \A i \in 1 .. base : log[i].bound \in Nat
      BY Zenon, <1>0, <2>2
    <3>5. \A x, y, z \in Nat : x < y /\ y <= z => x < z
      OBVIOUS
    <3> QED BY ZenonT(60), <3>2, <3>3, <3>4, <3>5
  <2>5. \A m \in Nodes : term \in fresh' \ early' /\ lead'[m] = term
                         /\ phase'[m] \in {"loaded", "serving"} =>
          \A i \in 1 .. base : log[i].bound < current'[m].physical
    <3> SUFFICES ASSUME NEW m \in Nodes, term \in fresh' \ early', lead'[m] = term,
                        phase'[m] \in {"loaded", "serving"}, NEW i \in 1 .. base
                 PROVE  log[i].bound < current'[m].physical
      BY Zenon
    <3>1. CASE m = n
      BY Zenon, <2>1, <2>3, <2>4, <3>1
    <3>2. CASE m # n
      <4>1. term \in fresh \ early /\ lead[m] = term /\ phase[m] \in {"loaded", "serving"}
        BY ZenonT(60), <2>1
      <4> QED BY Zenon, <2>3, <3>2, <4>1 DEF AheadInv, Above
    <3> QED BY Zenon, <3>1, <3>2
  <2>6. \A c \in outbox' : term \in fresh' \ early' /\ c.term = term =>
          \A i \in 1 .. base : log[i].bound < c.ts.physical
    <3> SUFFICES ASSUME NEW c \in outbox', term \in fresh' \ early', c.term = term, NEW i \in 1 .. base
                 PROVE  log[i].bound < c.ts.physical
      BY Zenon
    <3>1. CASE c = new
      BY Zenon, <2>2, <2>4, <3>1
    <3>2. CASE c \in outbox
      <4>1. term \in fresh \ early
        BY Zenon, <2>1
      <4> QED BY Zenon, <3>2, <4>1 DEF AheadInv, Above
    <3> QED BY Zenon, <2>1, <3>1, <3>2
  <2> QED BY ZenonT(60), <1>2, <2>1, <2>5, <2>6
<1>6. ASSUME NEW n \in Nodes, NEW now, NEW from, NEW step, NEW b, Spinning(n, now, from, step, b)
      PROVE  AheadInv'
  <2>1. /\ UNCHANGED <<log, base, term, lead, phase, fresh, outbox, early>>
        /\ from \in Stamps /\ current' = [current EXCEPT ![n] = from]
        /\ current[n].physical <= from.physical
    BY Zenon, <1>6 DEF Spinning, Spin, AllocFrame, raftVars
  <2>2. \A m \in Nodes : current[m].physical <= current'[m].physical /\ current'[m].physical \in Nat
    BY <1>0, <2>1 DEF Stamps
  <2>3. \A m \in Nodes : term \in fresh' \ early' /\ lead'[m] = term
                         /\ phase'[m] \in {"loaded", "serving"} =>
          \A i \in 1 .. base : log[i].bound < current'[m].physical
    <3> SUFFICES ASSUME NEW m \in Nodes, term \in fresh' \ early', lead'[m] = term,
                        phase'[m] \in {"loaded", "serving"}, NEW i \in 1 .. base
                 PROVE  log[i].bound < current'[m].physical
      BY Zenon
    <3>1. log[i].bound < current[m].physical
      BY Zenon, <2>1 DEF AheadInv, Above
    <3> QED BY <1>0, <2>2, <3>1
  <2>4. \A c \in outbox' : term \in fresh' \ early' /\ c.term = term =>
          \A i \in 1 .. base : log[i].bound < c.ts.physical
    BY Zenon, <2>1 DEF AheadInv, Above
  <2> QED BY Zenon, <1>2, <2>1, <2>3, <2>4
<1>7. ASSUME NEW n \in Nodes, Elect(n)
      PROVE  AheadInv'
  <2>1. term' = term + 1 /\ fresh' = fresh
    BY Zenon, <1>7 DEF Elect, ghosts
  <2>2. term' \notin fresh'
    BY <1>0, <2>1 DEF TermInv
  <2> QED BY Zenon, <2>2 DEF AheadInv
<1>8. ASSUME NEW n \in Nodes, Lose(n) \/ Crash(n)
      PROVE  AheadInv'
  <2>1. /\ UNCHANGED <<log, base, term, early, fresh>> /\ outbox' \subseteq outbox
        /\ \E p \in {"off", "closed"} : phase' = [phase EXCEPT ![n] = p]
        /\ \A m \in Nodes : m # n => current'[m] = current[m] /\ lead'[m] = lead[m]
    BY Zenon, <1>0, <1>8 DEF Lose, Crash, raftVars, ghosts
  <2>2. \A m \in Nodes : phase'[m] \in {"loaded", "serving"} => m # n /\ phase'[m] = phase[m]
    BY Zenon, <1>0, <2>1
  <2> QED BY ZenonT(60), <1>1, <2>1, <2>2
<1>9. ASSUME NEW n \in Nodes, UpdateWindow(n) \/ WindowProposed(n) \/ WindowFailed(n)
      PROVE  AheadInv'
  <2>1. UNCHANGED <<log, base, term, lead, phase, current, outbox, early, fresh>>
    BY Zenon, <1>9 DEF UpdateWindow, WindowProposed, WindowFailed, raftVars, oracleVars, ghosts
  <2> QED BY Zenon, <1>1, <2>1
<1>10. ASSUME NEW c \in outbox, Propose(c)
       PROVE  AheadInv'
  <2>1. /\ \E e \in EntryType : log' = Append(log, e)
        /\ UNCHANGED <<base, term, lead, phase, current, early, fresh>> /\ outbox' \subseteq outbox
    BY Zenon, <1>0, <1>10, EntryOK DEF Propose, oracleVars, ghosts
  <2> QED BY Zenon, <1>1, <2>1
<1>11. CASE UNCHANGED vars
  <2>1. UNCHANGED <<log, base, term, lead, phase, current, outbox, early, fresh>>
    BY Zenon, <1>11 DEF vars, raftVars, oracleVars, ghosts
  <2> QED BY Zenon, <1>1, <2>1
<1> QED BY ZenonT(60), AllocSteps, <1>3, <1>4, <1>5, <1>6, <1>7, <1>8, <1>9, <1>10, <1>11 DEF Next

\* The log grows when a bound or a command is proposed and is cut by an election; the
\* history variables only grow.
LEMMA LogMoves ==
  ASSUME TypeInv, [Next]_vars
  PROVE  \/ \E n \in Nodes, now \in 1 .. MaxTime : PersistUpperbound(n, now)
         \/ \E n \in Nodes : Elect(n)
         \/ \E c \in outbox : Propose(c)
         \/ /\ UNCHANGED <<log, base>> /\ early \subseteq early' /\ escaped \subseteq escaped'
            /\ \/ fresh' = fresh
               \/ \E n \in Nodes : /\ phase[n] = "starting" /\ fresh' = fresh \cup {lead[n]}
                                   /\ early' = early
            /\ \A c \in outbox' : c \in outbox \/ c.ts.logical <= MaxLogical + 1
<1> DEFINE Quiet ==
      /\ UNCHANGED <<log, base>> /\ early \subseteq early' /\ escaped \subseteq escaped'
      /\ \/ fresh' = fresh
         \/ \E n \in Nodes : /\ phase[n] = "starting" /\ fresh' = fresh \cup {lead[n]}
                             /\ early' = early
      /\ \A c \in outbox' : c \in outbox \/ c.ts.logical <= MaxLogical + 1
<1>1. ASSUME NEW n \in Nodes, NEW now \in 1 .. MaxTime, NEW k \in 0 .. base, LoadBound(n, now, k)
      PROVE  Quiet
  BY Zenon, <1>1 DEF LoadBound
<1>2. ASSUME NEW n \in Nodes, NEW now, NEW from, NEW b, Stamping(n, now, from, b)
      PROVE  Quiet
  <2>1. /\ UNCHANGED <<log, base, fresh>> /\ early \subseteq early' /\ escaped \subseteq escaped'
        /\ outbox' = outbox \cup
             {[node |-> n, term |-> lead[n], ts |-> Incr(from), bound |-> b]}
    BY Zenon, <1>2 DEF Stamping, Stamp, AllocFrame, raftVars
  <2>2. Incr(from).logical <= MaxLogical + 1
    BY <1>2, FailoverAssumption DEF Stamping, Stamps, Incr
  <2> QED BY <2>1, <2>2
<1>3. ASSUME NEW n \in Nodes, NEW now, NEW from, NEW step, NEW b, Spinning(n, now, from, step, b)
      PROVE  Quiet
  BY ZenonT(60), <1>3 DEF Spinning, Spin, AllocFrame, raftVars
<1>4. ASSUME NEW n \in Nodes, Lose(n) \/ Crash(n)
      PROVE  Quiet
  BY Zenon, <1>4 DEF Lose, Crash, raftVars, ghosts
<1>5. ASSUME NEW n \in Nodes, UpdateWindow(n) \/ WindowProposed(n) \/ WindowFailed(n)
      PROVE  Quiet
  BY Zenon, <1>5 DEF UpdateWindow, WindowProposed, WindowFailed, raftVars, ghosts
<1>6. CASE UNCHANGED vars
  BY Zenon, <1>6 DEF vars, raftVars, ghosts
<1> HIDE DEF Quiet
<1>7. ASSUME NEW n \in Nodes, NEW now \in 1 .. MaxTime,
             \/ (\E k \in 0 .. base : LoadBound(n, now, k)) \/ PersistUpperbound(n, now)
             \/ ClientCommit(n, now) \/ WindowCommit(n, now) \/ SpinEnds(n, now)
      PROVE  PersistUpperbound(n, now) \/ Quiet
  BY Zenon, AllocSteps, <1>1, <1>2, <1>3, <1>7
<1>8. ASSUME NEW n \in Nodes,
             \/ Elect(n) \/ Lose(n) \/ Crash(n)
             \/ UpdateWindow(n) \/ WindowProposed(n) \/ WindowFailed(n)
      PROVE  Elect(n) \/ Quiet
  BY Zenon, <1>4, <1>5, <1>8
<1>9. CASE \E n \in Nodes, now \in 1 .. MaxTime :
             \/ (\E k \in 0 .. base : LoadBound(n, now, k)) \/ PersistUpperbound(n, now)
             \/ ClientCommit(n, now) \/ WindowCommit(n, now) \/ SpinEnds(n, now)
  <2>1. (\E n \in Nodes, now \in 1 .. MaxTime : PersistUpperbound(n, now)) \/ Quiet
    BY Zenon, <1>7, <1>9
  <2> QED BY Zenon, <2>1 DEF Quiet
<1>10. CASE \E n \in Nodes :
              \/ Elect(n) \/ Lose(n) \/ Crash(n)
              \/ UpdateWindow(n) \/ WindowProposed(n) \/ WindowFailed(n)
  <2>1. (\E n \in Nodes : Elect(n)) \/ Quiet
    BY Zenon, <1>8, <1>10
  <2> QED BY Zenon, <2>1 DEF Quiet
<1>11. CASE \E c \in outbox : Propose(c)
  BY Zenon, <1>11
<1>12. CASE UNCHANGED vars
  BY Zenon, <1>6, <1>12 DEF Quiet
<1> QED BY ZenonT(60), <1>9, <1>10, <1>11, <1>12 DEF Next

\* Compose moves a timestamp by less than a millisecond, the carry included.
LEMMA ComposeNear ==
  ASSUME NEW ts \in Stamps, ts.logical <= MaxLogical + 1
  PROVE  Near(Compose(ts), ts.physical)
<1>1. ts.physical \in Nat /\ ts.logical \in Nat /\ MaxLogical \in Nat /\ Span \in Nat
  BY FailoverAssumption DEF Stamps, Span
<1>2. \A p, s \in Nat : p * s \in Nat /\ (p + 1) * s = p * s + s
  OBVIOUS
<1>3. CASE ts.logical <= MaxLogical
  BY <1>1, <1>2, <1>3 DEF Compose, Near, Span
<1>4. CASE ts.logical = MaxLogical + 1
  <2>1. ts.logical - Span = 0
    BY <1>1, <1>4 DEF Span
  <2>2. Compose(ts) = ts.physical * Span + 0 \/ Compose(ts) = (ts.physical + 1) * Span + 0
    BY <1>1, <1>4, <2>1 DEF Compose, Span
  <2>3. ts.physical * Span \in Nat /\ (ts.physical + 1) * Span = ts.physical * Span + Span
    BY Zenon, <1>1, <1>2
  <2> QED BY <1>1, <2>2, <2>3 DEF Near
<1> QED BY <1>1, <1>3, <1>4

\* An appended entry is near its milliseconds if its timestamp was composed from them.
LEMMA NearStep ==
  ASSUME TypeInv, ClockInv, NearInv, [Next]_vars
  PROVE  NearInv'
<1>0. /\ current \in [Nodes -> Stamps] /\ lead \in [Nodes -> Nat] /\ DOMAIN log = 1 .. Len(log)
      /\ \A c \in outbox : c.term \in Nat /\ c.ts \in Stamps /\ c.bound \in Nat
      /\ MaxLogical \in Nat \ {0}
  BY Zenon, LogTyped, FailoverAssumption DEF TypeInv, OutboxType
<1>1. ASSUME NEW e \in EntryType, log' = Append(log, e), early' = early, outbox' \subseteq outbox,
             e.term \notin early => Near(e.ts, e.physical)
      PROVE  NearInv'
  <2>1. ASSUME NEW i \in DOMAIN log', log'[i].term \notin early'
        PROVE  Near(log'[i].ts, log'[i].physical)
    <3>1. CASE i \in DOMAIN log
      <4>1. log'[i] = log[i]
        BY Zenon, <1>0, <1>1, <3>1, LogAppend
      <4> QED BY Zenon, <1>1, <2>1, <3>1, <4>1 DEF NearInv
    <3>2. CASE i \notin DOMAIN log
      <4>1. log'[i] = e
        BY <1>0, <1>1, <2>1, <3>2, LogAppend
      <4> QED BY Zenon, <1>1, <2>1, <4>1
    <3> QED BY Zenon, <3>1, <3>2
  <2> QED BY Zenon, <1>1, <2>1 DEF NearInv, Near, Span
<1>2. ASSUME NEW n \in Nodes, NEW now \in 1 .. MaxTime, PersistUpperbound(n, now)
      PROVE  NearInv'
  <2> DEFINE e == Entry(lead[n], Incr(current[n]), current[n].physical + Window)
  <2>1. e \in EntryType /\ Incr(current[n]) \in Stamps
    BY Zenon, <1>0, IncrType, EntryOK
  <2>2. log' = Append(log, e) /\ UNCHANGED <<outbox, early>> /\ phase[n] = "loaded"
    BY Zenon, <1>2 DEF PersistUpperbound, ghosts
  <2>3. ASSUME lead[n] \notin early
        PROVE  Incr(current[n]).logical <= MaxLogical + 1
    <3>1. current[n].logical = 0
      BY Zenon, <2>2, <2>3 DEF ClockInv
    <3> QED BY <1>0, <3>1 DEF Incr, Stamps
  <2>4. e.term = lead[n] /\ e.ts = Compose(Incr(current[n])) /\ e.physical = Incr(current[n]).physical
    BY Zenon DEF Entry
  <2> HIDE DEF e
  <2>5. e.term \notin early => Near(e.ts, e.physical)
    BY Zenon, <2>1, <2>3, <2>4, ComposeNear
  <2> QED BY ZenonT(60), <1>1, <2>1, <2>2, <2>5
<1>3. ASSUME NEW n \in Nodes, Elect(n)
      PROVE  NearInv'
  <2>1. /\ \A i \in DOMAIN log' : i \in DOMAIN log /\ log'[i] = log[i]
        /\ UNCHANGED <<outbox, early>>
    BY <1>3, LogCut DEF Elect, ghosts
  <2> QED BY ZenonT(60), <2>1 DEF NearInv, Near, Span
<1>4. ASSUME NEW c \in outbox, Propose(c)
      PROVE  NearInv'
  <2> DEFINE e == Entry(c.term, c.ts, c.bound)
  <2>1. e \in EntryType
    BY Zenon, <1>0, EntryOK
  <2>2. log' = Append(log, e) /\ early' = early /\ outbox' \subseteq outbox
    BY Zenon, <1>4 DEF Propose, ghosts
  <2>3. e.ts = Compose(c.ts) /\ e.physical = c.ts.physical
    BY Zenon DEF Entry
  <2> HIDE DEF e
  <2>4. Near(e.ts, e.physical)
    BY Zenon, <1>0, <2>3, ComposeNear DEF NearInv
  <2> QED BY Zenon, <1>1, <2>1, <2>2, <2>4
<1>5. ASSUME UNCHANGED log, early \subseteq early',
             \A c \in outbox' : c \in outbox \/ c.ts.logical <= MaxLogical + 1
      PROVE  NearInv'
  BY Zenon, <1>5 DEF NearInv, Near, Span
<1> QED BY ZenonT(60), LogMoves, <1>2, <1>3, <1>4, <1>5

\* The entries of earlier leaders lie below a bound that the leader of a fresh term is
\* above, so what it proposes is later by two milliseconds.
LEMMA OrderStep ==
  ASSUME TypeInv, TermInv, StartInv, AheadInv, BoundCovers, OrderInv, [Next]_vars
  PROVE  OrderInv'
<1>0. /\ current \in [Nodes -> Stamps] /\ lead \in [Nodes -> Nat] /\ DOMAIN log = 1 .. Len(log)
      /\ \A c \in outbox : c.term \in Nat /\ c.ts \in Stamps /\ c.bound \in Nat
      /\ \A i \in DOMAIN log : log[i] \in EntryType
      /\ \A i \in DOMAIN log : /\ log[i].term \in Nat /\ log[i].physical \in Nat
                               /\ log[i].bound \in Nat
      /\ Len(log) \in Nat /\ base \in Nat /\ base <= Len(log) /\ term \in Nat
  BY Zenon, LogTyped DEF TypeInv, OutboxType, EntryType
<1>1. ASSUME NEW p \in Nat, Above(p), NEW i \in DOMAIN log, Sound(log[i]), log[i].term < term
      PROVE  log[i].physical + 2 <= p
  <2>1. i \in 1 .. base
    BY <1>0, <1>1 DEF TermInv, Sound
  <2>2. PICK k \in 1 .. i : log[k].bound > log[i].physical
    BY Zenon, <1>1 DEF BoundCovers
  <2>3. k \in 1 .. base /\ k \in DOMAIN log
    BY <1>0, <2>1
  <2>4. log[k].bound < p
    BY Zenon, <1>1, <2>3 DEF Above
  <2> QED BY <1>0, <1>1, <2>2, <2>3, <2>4
<1>2. ASSUME NEW e \in EntryType, log' = Append(log, e), UNCHANGED ghosts,
             e.prompt => e.term = term,
             e.prompt /\ term \in fresh \ early => Above(e.physical)
      PROVE  OrderInv'
  <2> SUFFICES ASSUME NEW i \in DOMAIN log', NEW j \in DOMAIN log',
                      Sound(log'[i]), Sound(log'[j]), log'[i].term < log'[j].term,
                      log'[j].term \in fresh
               PROVE  log'[i].physical + 2 <= log'[j].physical
    BY Zenon, <1>2 DEF OrderInv, Sound, ghosts
  <2>1. \A k \in DOMAIN log' : (k \in DOMAIN log /\ log'[k] = log[k]) \/ log'[k] = e
    BY <1>0, <1>2, LogAppend
  <2>2. e.term \in Nat /\ e.physical \in Nat
    BY Zenon DEF EntryType
  <2>3. CASE i \in DOMAIN log /\ log'[i] = log[i] /\ j \in DOMAIN log /\ log'[j] = log[j]
    BY Zenon, <2>3 DEF OrderInv
  <2>4. CASE i \in DOMAIN log /\ log'[i] = log[i] /\ log'[j] = e
    <3>1. e.prompt /\ e.term = term /\ term \in fresh \ early
      BY Zenon, <1>2, <2>4 DEF Sound
    <3>2. Sound(log[i]) /\ log[i].term < term /\ Above(e.physical)
      BY Zenon, <1>2, <2>4, <3>1
    <3> QED BY Zenon, <1>1, <2>2, <2>4, <3>2
  <2>5. CASE log'[i] = e /\ j \in DOMAIN log /\ log'[j] = log[j]
    <3>1. term < log[j].term /\ log[j].term <= term
      BY Zenon, <1>2, <2>5 DEF Sound, TermInv
    <3> QED BY <1>0, <2>5, <3>1
  <2>6. CASE log'[i] = e /\ log'[j] = e
    BY <2>2, <2>6
  <2> QED BY Zenon, <2>1, <2>3, <2>4, <2>5, <2>6
<1>3. ASSUME NEW n \in Nodes, NEW now \in 1 .. MaxTime, PersistUpperbound(n, now)
      PROVE  OrderInv'
  <2> DEFINE e == Entry(lead[n], Incr(current[n]), current[n].physical + Window)
  <2>1. e \in EntryType /\ Incr(current[n]).physical = current[n].physical
    BY Zenon, <1>0, IncrType, EntryOK
  <2>2. log' = Append(log, e) /\ UNCHANGED ghosts /\ phase[n] = "loaded"
    BY Zenon, <1>3 DEF PersistUpperbound
  <2>3. /\ e.term = lead[n] /\ e.physical = current[n].physical
        /\ e.prompt <=> lead[n] = term
    BY Zenon, <2>1 DEF Entry
  <2> HIDE DEF e
  <2>4. lead[n] = term /\ term \in fresh \ early => Above(current[n].physical)
    BY Zenon, <2>2 DEF AheadInv
  <2>5. Above(current[n].physical) => Above(e.physical)
    BY Zenon, <2>3 DEF Above
  <2> QED BY ZenonT(60), <1>2, <2>1, <2>2, <2>3, <2>4, <2>5
<1>4. ASSUME NEW n \in Nodes, Elect(n)
      PROVE  OrderInv'
  <2>1. (\A i \in DOMAIN log' : i \in DOMAIN log /\ log'[i] = log[i]) /\ UNCHANGED ghosts
    BY <1>4, LogCut DEF Elect
  <2> QED BY Zenon, <2>1 DEF OrderInv, Sound, ghosts
<1>5. ASSUME NEW c \in outbox, Propose(c)
      PROVE  OrderInv'
  <2> DEFINE e == Entry(c.term, c.ts, c.bound)
  <2>1. e \in EntryType
    BY Zenon, <1>0, EntryOK
  <2>2. log' = Append(log, e) /\ UNCHANGED ghosts
    BY Zenon, <1>5 DEF Propose
  <2>3. /\ e.term = c.term /\ e.physical = c.ts.physical
        /\ e.prompt <=> c.term = term
    BY Zenon DEF Entry
  <2> HIDE DEF e
  <2>4. c.term = term /\ term \in fresh \ early => Above(c.ts.physical)
    BY Zenon DEF AheadInv
  <2>5. Above(c.ts.physical) => Above(e.physical)
    BY Zenon, <2>3 DEF Above
  <2> QED BY ZenonT(60), <1>2, <2>1, <2>2, <2>3, <2>4, <2>5
<1>6. ASSUME UNCHANGED log, early \subseteq early', escaped \subseteq escaped',
             \/ fresh' = fresh
             \/ \E n \in Nodes : /\ phase[n] = "starting" /\ fresh' = fresh \cup {lead[n]}
                                 /\ early' = early
      PROVE  OrderInv'
  <2> SUFFICES ASSUME NEW i \in DOMAIN log, NEW j \in DOMAIN log,
                      Sound(log[i])', Sound(log[j])', log[i].term < log[j].term,
                      log[j].term \in fresh'
               PROVE  log[i].physical + 2 <= log[j].physical
    BY Zenon, <1>6 DEF OrderInv, Sound
  <2>1. Sound(log[i]) /\ Sound(log[j]) /\ log[j].term \notin early'
    BY Zenon, <1>6 DEF Sound
  <2>2. log[j].term \in fresh
    BY <1>6, <2>1 DEF StartInv
  <2> QED BY Zenon, <2>1, <2>2 DEF OrderInv
<1> QED BY Zenon, LogMoves, <1>3, <1>4, <1>5, <1>6

\* The bound of StartServing covers its own entry, and CoverInv has a bound ready for
\* every command.
LEMMA BoundStep ==
  ASSUME TypeInv, CoverInv, BoundCovers, [Next]_vars
  PROVE  BoundCovers'
<1>0. /\ current \in [Nodes -> Stamps] /\ lead \in [Nodes -> Nat] /\ DOMAIN log = 1 .. Len(log)
      /\ \A c \in outbox : c.term \in Nat /\ c.ts \in Stamps /\ c.bound \in Nat
      /\ \A i \in DOMAIN log : log[i].bound \in Nat
      /\ Len(log) \in Nat /\ Window \in Nat \ {0}
      /\ \A n \in Nodes : current[n].physical \in Nat
      /\ \A c \in outbox : c.ts.physical \in Nat
  BY Zenon, LogTyped, FailoverAssumption DEF TypeInv, OutboxType, EntryType, Stamps
<1>1. ASSUME NEW e \in EntryType, log' = Append(log, e), UNCHANGED ghosts,
             Sound(e) => \/ e.bound > e.physical
                         \/ \E k \in DOMAIN log : log[k].bound > e.physical
      PROVE  BoundCovers'
  <2> DEFINE l == Len(log) + 1
  <2>1. /\ DOMAIN log' = 1 .. l /\ log'[l] = e /\ l \in 1 .. l
        /\ \A i \in 1 .. l : i # l => i \in DOMAIN log
        /\ \A i \in DOMAIN log : log'[i] = log[i] /\ i \in 1 .. l
        /\ \A i \in DOMAIN log : \A k \in 1 .. i : k \in DOMAIN log
    BY <1>0, <1>1, LogAppend
  <2> HIDE DEF l
  <2> SUFFICES ASSUME NEW i \in DOMAIN log', Sound(log'[i])
               PROVE  \E k \in 1 .. i : log'[k].bound > log'[i].physical
    BY Zenon, <1>1 DEF BoundCovers, Sound, ghosts
  <2>2. CASE i = l
    BY Zenon, <1>1, <2>1, <2>2
  <2>3. CASE i # l
    <3>1. i \in DOMAIN log /\ log'[i] = log[i]
      BY Zenon, <2>1, <2>3
    <3>2. PICK k \in 1 .. i : log[k].bound > log[i].physical
      BY Zenon, <3>1 DEF BoundCovers
    <3> QED BY Zenon, <2>1, <3>1, <3>2
  <2> QED BY Zenon, <2>2, <2>3
<1>2. ASSUME NEW n \in Nodes, NEW now \in 1 .. MaxTime, PersistUpperbound(n, now)
      PROVE  BoundCovers'
  <2> DEFINE e == Entry(lead[n], Incr(current[n]), current[n].physical + Window)
  <2>1. e \in EntryType /\ Incr(current[n]).physical = current[n].physical
    BY Zenon, <1>0, IncrType, EntryOK
  <2>2. log' = Append(log, e) /\ UNCHANGED ghosts
    BY Zenon, <1>2 DEF PersistUpperbound
  <2>3. e.bound = current[n].physical + Window /\ e.physical = current[n].physical
    BY Zenon, <2>1 DEF Entry
  <2> HIDE DEF e
  <2>4. e.bound > e.physical
    BY <1>0, <2>3
  <2> QED BY ZenonT(60), <1>1, <2>1, <2>2, <2>4
<1>3. ASSUME NEW n \in Nodes, Elect(n)
      PROVE  BoundCovers'
  <2>1. /\ \A i \in DOMAIN log' : i \in DOMAIN log /\ log'[i] = log[i]
        /\ \A i \in DOMAIN log' : \A k \in 1 .. i : k \in DOMAIN log'
        /\ UNCHANGED ghosts
    <3>1. /\ base' \in Nat /\ base' <= Len(log) /\ Len(log) \in Nat
          /\ DOMAIN log = 1 .. Len(log) /\ DOMAIN log' = 1 .. base'
          /\ \A i \in 1 .. base' : log'[i] = log[i]
      BY Zenon, <1>3, LogCut
    <3>2. \A i \in 1 .. base' : i \in 1 .. Len(log) /\ \A k \in 1 .. i : k \in 1 .. base'
      BY <3>1
    <3>3. UNCHANGED ghosts
      BY Zenon, <1>3 DEF Elect
    <3> QED BY Zenon, <3>1, <3>2, <3>3
  <2> SUFFICES ASSUME NEW i \in DOMAIN log', Sound(log'[i])
               PROVE  \E k \in 1 .. i : log'[k].bound > log'[i].physical
    BY Zenon, <2>1 DEF BoundCovers, Sound, ghosts
  <2>2. PICK k \in 1 .. i : log[k].bound > log[i].physical
    BY Zenon, <2>1 DEF BoundCovers
  <2> QED BY Zenon, <2>1, <2>2
<1>4. ASSUME NEW c \in outbox, Propose(c)
      PROVE  BoundCovers'
  <2> DEFINE e == Entry(c.term, c.ts, c.bound)
  <2>1. e \in EntryType
    BY Zenon, <1>0, EntryOK
  <2>2. log' = Append(log, e) /\ UNCHANGED ghosts
    BY Zenon, <1>4 DEF Propose
  <2>3. /\ e.term = c.term /\ e.physical = c.ts.physical
        /\ e.prompt <=> c.term = term
    BY Zenon DEF Entry
  <2> HIDE DEF e
  <2>4. ASSUME Sound(e)
        PROVE  \E k \in DOMAIN log : log[k].bound > e.physical
    <3>1. Raises(log, c.ts.physical + 1)
      BY Zenon, <2>3, <2>4 DEF Sound, CoverInv
    <3>2. PICK k \in DOMAIN log : log[k].bound >= c.ts.physical + 1
      BY Zenon, <3>1 DEF Raises
    <3> QED BY <1>0, <2>3, <3>2
  <2> QED BY ZenonT(60), <1>1, <2>1, <2>2, <2>4
<1>5. ASSUME UNCHANGED log, early \subseteq early', escaped \subseteq escaped'
      PROVE  BoundCovers'
  <2>1. \A i \in DOMAIN log' : Sound(log[i])' => Sound(log[i])
    BY Zenon, <1>5 DEF Sound
  <2> QED BY Zenon, <1>5, <2>1 DEF BoundCovers
<1> QED BY Zenon, LogMoves, <1>2, <1>3, <1>4, <1>5

-----------------------------------------------------------------------------
(* The invariant and the theorems *)

\* Nothing has happened yet.
LEMMA FailoverInit == Init => IInv
<1> SUFFICES ASSUME Init PROVE IInv
  BY Zenon
<1>1. /\ Len(log) = 0 /\ DOMAIN log = {} /\ log \in Seq(EntryType) /\ log = <<>>
      /\ outbox = {} /\ fresh = {} /\ term = 0 /\ base = 0
      /\ \A n \in Nodes : /\ lead[n] = 0 /\ phase[n] = "off" /\ clock[n] = 1
                          /\ current[n] = Reset(0) /\ spin[n] = Unheld /\ window[n] = NoWindow
  BY DEF Init
<1>2. Reset(0) \in Stamps /\ Reset(0).physical = 0
  BY Zenon DEF Reset, Stamps
<1>3. TypeInv
  <2>1. Unheld \in [step : {"no", "bound", "logical"}, bound : Nat]
    BY Zenon DEF Unheld
  <2>2. NoWindow \in [at : {"idle", "begun", "stamped", "proposed"}, bound : Nat]
    BY Zenon DEF NoWindow
  <2>3. /\ spin \in [Nodes -> [step : {"no", "bound", "logical"}, bound : Nat]]
        /\ window \in [Nodes -> [at : {"idle", "begun", "stamped", "proposed"}, bound : Nat]]
    BY Zenon, <2>1, <2>2 DEF Init
  <2>4. /\ clock \in [Nodes -> Nat] /\ lead \in [Nodes -> Nat] /\ phase \in [Nodes -> Phases]
        /\ saved \in [Nodes -> Nat]
    BY Zenon DEF Init, Phases
  <2>5. current \in [Nodes -> Stamps]
    BY Zenon, <1>2 DEF Init
  <2>6. term \in Nat /\ base \in Nat /\ base <= Len(log) /\ outbox \subseteq OutboxType
    BY <1>1
  <2> QED BY Zenon, <1>1, <2>3, <2>4, <2>5, <2>6 DEF TypeInv
<1>4. TermInv /\ StartInv /\ WindowInv
  <2>1. \A n \in Nodes : spin[n].bound = 0
    BY <1>1 DEF Unheld
  <2> QED BY <1>1, <2>1 DEF TermInv, StartInv, WindowInv
<1>7. AheadInv /\ NearInv /\ OrderInv /\ BoundCovers
  BY Zenon, <1>1 DEF AheadInv, NearInv, OrderInv, BoundCovers
<1>5. ClockInv
  BY <1>1, <1>2, FailoverAssumption DEF ClockInv, NoWindow
<1>6. CoverInv
  BY Zenon, <1>1 DEF CoverInv, Leads
<1> QED BY Zenon, <1>3, <1>4, <1>5, <1>6, <1>7 DEF IInv

\* Every step of a node, and every election, preserves the invariant.
LEMMA FailoverStep == IInv /\ [Next]_vars => IInv'
BY ZenonT(60), TypeStep, TermStep, StartStep, ClockStep, WindowStep, CoverStep, AheadStep,
   NearStep, OrderStep, BoundStep DEF IInv

\* The invariant holds throughout, for any number of nodes, terms and commits.
LEMMA FailoverInvariant == Spec => []IInv
BY FailoverInit, FailoverStep, PTL DEF Spec

\* For any number of nodes, terms, goroutines and commits and any clocks: every
\* committed timestamp lies below a bound committed before it, although the bound
\* counts as saved when raft has accepted it (persistUpperboundOnStartup, UpdateWindow).
THEOREM Covering == Spec => []BoundCovers
<1>1. IInv => BoundCovers
  BY Zenon DEF IInv
<1> QED BY <1>1, FailoverInvariant, PTL

\* For any number of nodes and terms and any clocks: a leader whose StartServing has
\* read the highest bound of the log hands out higher timestamps than every leader
\* before it.
THEOREM Succession == Spec => []TermsOrdered
<1>1. ASSUME IInv PROVE TermsOrdered
  <2> SUFFICES ASSUME NEW i \in DOMAIN log, NEW j \in DOMAIN log,
                      Sound(log[i]), Sound(log[j]), log[i].term < log[j].term,
                      log[j].term \in fresh
               PROVE  log[i].ts < log[j].ts
    BY Zenon DEF TermsOrdered
  <2>1. log[i].physical + 2 <= log[j].physical
    BY Zenon, <1>1 DEF IInv, OrderInv
  <2>2. Near(log[i].ts, log[i].physical) /\ Near(log[j].ts, log[j].physical)
    BY Zenon, <1>1 DEF IInv, NearInv, Sound
  <2>3. /\ log[i].ts \in Nat /\ log[j].ts \in Nat
        /\ log[i].physical \in Nat /\ log[j].physical \in Nat /\ Span \in Nat \ {0}
    <3>1. TypeInv
      BY Zenon, <1>1 DEF IInv
    <3>2. log[i] \in EntryType /\ log[j] \in EntryType
      BY <3>1 DEF TypeInv
    <3> QED BY <3>2, FailoverAssumption DEF EntryType, Span
  <2>4. \A p, q, s \in Nat : p + 2 <= q /\ s # 0 => (p + 1) * s < q * s
    OBVIOUS
  <2>5. (log[i].physical + 1) * Span < log[j].physical * Span
    BY Zenon, <2>1, <2>3, <2>4
  <2> QED BY <2>2, <2>3, <2>5 DEF Near
<1> QED BY <1>1, FailoverInvariant, PTL
=============================================================================
