------------------------------- MODULE Store -------------------------------
(***************************************************************************)
(* The distributed store of distributed.go: transactions and single writes *)
(* of the leader's clients, the timestamp oracle (through its abstract     *)
(* specification), the committed Raft log and the replicas that apply it.  *)
(*                                                                         *)
(* The oracle fixes the order of commit timestamps; the order in the log   *)
(* is that of the proposals, which Txn.Commit leaves to its caller, after  *)
(* writeChLock is released.                                                *)
(*                                                                         *)
(*   pc         where a client's goroutine is                              *)
(*   idle       no call yet                                                *)
(*   open       BeginTxn has returned; performOps runs, then Commit        *)
(*   proposing  Commit has returned the command, proposeAndWait is left    *)
(*   done       the call is over                                           *)
(***************************************************************************)
EXTENDS FSM

CONSTANTS
  Clients,       \* goroutines that call the leader's store, once each
  Plans,         \* what the clients' calls do: the combinations to look at
  Replicas,      \* the nodes
  Leader,        \* the node that leads
  MaxBatchSize,  \* MaxBatchSize
  DetectConflicts, \* BadgerOptions.DetectConflicts, TRUE by default
  MaxRestarts    \* bound: how many replicas may be restarted

\* The calls of a client as programs: what they look at, then the commands they
\* propose.  DeleteByPrefix also looks up its keys; the other write methods only write.
WriteCall(cmd) ==
  [kind |-> "SINGLE", cmds |-> <<cmd>>,
   looks |-> IF cmd.type # "DELETE_BY_PREFIX" THEN <<>>
             ELSE <<[how |-> "delete", prefix |-> cmd.prefix]>>]
NewTransaction(looks, cmds) == [kind |-> "TRANSACTION", looks |-> looks, cmds |-> cmds]

IsLook(l) ==
  \/ l.how = "get" /\ l.key \in Keys
  \/ l.how \in {"scan", "delete"} /\ l.prefix \in Prefixes \cup Keys
IsProgram(p) ==
  /\ \/ p.kind = "SINGLE" /\ p = WriteCall(p.cmds[1])
     \/ p.kind = "TRANSACTION"
  /\ Len(p.looks) \in Nat /\ DOMAIN p.looks = 1 .. Len(p.looks)
  /\ Len(p.cmds) \in Nat /\ DOMAIN p.cmds = 1 .. Len(p.cmds)
  /\ \A i \in DOMAIN p.looks : IsLook(p.looks[i])
  /\ \A i \in DOMAIN p.cmds : IsCommand(p.cmds[i])

ASSUME StoreAssumption ==
  /\ Leader \in Replicas
  /\ MaxBatchSize \in Nat \ {0} /\ MaxRestarts \in Nat /\ DetectConflicts \in BOOLEAN
  /\ \A p \in Plans : \A c \in Clients : IsProgram(p[c])

VARIABLES
  last, reading, commits,  \* the oracle
  plan,       \* what each client's call does
  txn,        \* the clients' transactions
  log,        \* the commands of the committed entries
  applied,    \* each node's applied index
  reached,    \* the highest index each node has applied
  db,         \* each node's database
  stopped,    \* why a node applies no more: "no", "error" or "panic"
  discarded,  \* the leader's discard timestamp
  restarted,  \* the nodes that have been restarted
  seen        \* what transactional reads have returned

oracle   == <<last, reading, commits>>
nodes    == <<applied, reached, db, stopped, discarded, restarted>>
vars     == <<oracle, plan, txn, log, nodes, seen>>

Orc == INSTANCE Oracle WITH Procs <- Clients, AllKeys <- Keys, sound <- TRUE

Idle == [pc |-> "idle"]
Over == [pc |-> "done"]

\* The transaction of c, which the oracle knows as its reader.
Reader(c) == [proc |-> c, ts |-> txn[c].readTs]

\* The next look of performOps at the database: a read, or Txn.DeleteByPrefix.
Current(c) == plan[c].looks[txn[c].at]
Looking(c, how) ==
  txn[c].pc = "open" /\ txn[c].at <= Len(plan[c].looks) /\ Current(c).how = how

-----------------------------------------------------------------------------
(* Inside a transaction.  Buffering a write on one key touches the           *)
(* transaction alone, so that the writes of performOps are taken together,   *)
(* at Commit; what it reads from the database is a step of its own.          *)

\* NewTransaction and proposeTxnSubCommand begin alike: BeginTxn takes the oracle's
\* timestamp.  (A transaction that the oracle makes wait has the timestamp of the
\* commit it waits for: it begins when that commit is done.)
BeginTxn(c) ==
  /\ txn[c].pc = "idle"
  /\ Orc!Begin(c, last)
  /\ txn' = [txn EXCEPT ![c] =
       [pc |-> "open", at |-> 1, readTs |-> last, reads |-> {},
        keys |-> {}, index |-> 0, clean |-> TRUE, sure |-> TRUE]]
  /\ UNCHANGED <<plan, log, nodes, seen>>

\* No command with a commit timestamp up to ts is between Commit and the log.
NoneUnderway(ts) ==
  \A c \in Clients : txn[c].pc = "proposing" => txn[c].commitTs > ts

\* Nor is one in the log that the leader has yet to apply.
AllApplied(ts) ==
  NoneUnderway(ts) /\ \A i \in applied[Leader] + 1 .. Len(log) : log[i].commitTs > ts

\* GetWithTxn: waitForReadState asks for the read index.
ReadIndex(c) ==
  /\ Looking(c, "get") /\ txn[c].index = 0
  /\ txn' = [txn EXCEPT ![c].index = Len(log) + 1,
                        ![c].clean = NoneUnderway(txn[c].readTs)]
  /\ UNCHANGED <<oracle, plan, log, nodes, seen>>

\* What a read of the keys ks returns.
Returned(c, ks, clean) ==
  {[by |-> c, key |-> k, ts |-> txn[c].readTs, clean |-> clean,
    val |-> At(db[Leader].versions, k, txn[c].readTs)] : k \in ks}
\* Those of the keys that were found.  (None is a mutant: reads are not registered.)
FoundNone(returned) == {}
Found(returned) == {s.key : s \in {r \in returned : r.val # Missing}}

\* waitForReadState: the node has applied up to the read index.  (Early is a mutant:
\* the read does not wait.)
CaughtUpEarly(c) == TRUE
CaughtUp(c) == applied[Leader] >= txn[c].index - 1

\* GetWithTxn then reads.  The key is registered only if it was found.
GetWithTxn(c) ==
  LET got == Returned(c, {Current(c).key}, txn[c].clean)
  IN  /\ Looking(c, "get") /\ txn[c].index > 0
      /\ CaughtUp(c)
      /\ seen' = seen \cup got
      /\ txn' = [txn EXCEPT ![c].reads = @ \cup Found(got), ![c].at = @ + 1,
                            ![c].index = 0]
      /\ UNCHANGED <<oracle, plan, log, nodes>>

\* GetByPrefixWithTxn: from the local database, without a read index.
GetByPrefixWithTxn(c) ==
  LET got == Returned(c, Under[Current(c).prefix], AllApplied(txn[c].readTs))
  IN  /\ Looking(c, "scan")
      /\ seen' = seen \cup got
      /\ txn' = [txn EXCEPT ![c].reads = @ \cup Found(got), ![c].at = @ + 1]
      /\ UNCHANGED <<oracle, plan, log, nodes>>

\* Txn.DeleteByPrefix: the matching keys are looked up now, in the local database,
\* and registered as read and written.
DeleteByPrefix(c) ==
  LET ks == Found(Returned(c, Under[Current(c).prefix], FALSE))
  IN  /\ Looking(c, "delete")
      /\ txn' = [txn EXCEPT ![c].keys = @ \cup ks, ![c].reads = @ \cup ks,
                            ![c].sure = @ /\ AllApplied(txn[c].readTs),
                            ![c].at = @ + 1]
      /\ UNCHANGED <<oracle, plan, log, nodes, seen>>

-----------------------------------------------------------------------------
(* The end of a transaction *)

\* Where a new process begins to apply: newNode takes no applied index from disk.
\* (Past is a mutant: it leaves out the entry that stopped the last process.)
ResumePast(r) == IF stopped[r] = "no" THEN 0 ELSE applied[r] + 1
Resume(r) == 0

\* A process that dies loses the commits BadgerDB remembers and its place in the
\* log: it applies from the start again, over the database it has.  The leader's loses
\* its clients; the oracle of the next term starts above everything handed out.
Killed(r) ==
  /\ applied' = [applied EXCEPT ![r] = Resume(r)]
  /\ db' = [db EXCEPT ![r].committed = {}]
  /\ stopped' = [stopped EXCEPT ![r] = "no"]
  /\ restarted' = restarted \cup {r}
  /\ UNCHANGED <<commits, plan, log, reached, discarded, seen>>
ClientsGone ==
  /\ txn' = [c \in Clients |-> IF txn[c].pc = "idle" THEN Idle ELSE Over]
  /\ last' = last + 1 /\ reading' = {}

Restart(r) ==
  /\ r \notin restarted /\ Cardinality(restarted) < MaxRestarts
  /\ Killed(r)
  /\ IF r = Leader THEN ClientsGone ELSE UNCHANGED <<txn, last, reading>>

Finished(c) == txn[c].pc = "open" /\ txn[c].at = Len(plan[c].looks) + 1

\* validate registers the key of every write on one key.
Written(cmds) ==
  {cmds[i].key : i \in {n \in DOMAIN cmds : cmds[n].type # "DELETE_BY_PREFIX"}}

\* Commit returns no command when nothing was written, and NewTransaction reads
\* its Id all the same: the process dies of a nil dereference.
CommitEmpty(c) ==
  /\ Finished(c) /\ plan[c].cmds = <<>>
  /\ Leader \notin restarted /\ Cardinality(restarted) < MaxRestarts
  /\ Killed(Leader) /\ ClientsGone

\* performOps fails, or the batch is too big, or a key read was overwritten: the
\* transaction is discarded.
Discard(c) ==
  /\ \/ txn[c].pc = "open" /\ ~Finished(c)
     \/ /\ Finished(c) /\ plan[c].cmds # <<>>
        /\ \/ Len(plan[c].cmds) > MaxBatchSize
           \/ ~Orc!Unchanged(Reader(c), txn[c].reads)
  /\ Orc!End(Reader(c))
  /\ txn' = [txn EXCEPT ![c] = Over]
  /\ UNCHANGED <<plan, log, nodes, seen>>

\* Commit: the oracle stamps the command.
Commit(c) ==
  /\ Finished(c) /\ Len(plan[c].cmds) \in 1 .. MaxBatchSize
  /\ last' = last + 1
  /\ Orc!Commit(Reader(c), txn[c].reads, txn[c].keys \cup Written(plan[c].cmds))
  /\ txn' = [txn EXCEPT ![c] =
       [pc |-> "proposing", readTs |-> @.readTs, commitTs |-> last',
        sure |-> @.sure]]
  /\ UNCHANGED <<plan, log, nodes, seen>>

\* proposeAndWait: the command is committed to the log, as a TRANSACTION or, from
\* proposeTxnSubCommand, as its first sub-command.  (For a proposal that is dropped
\* the action is never taken, and the timestamp is used for nothing.)
Propose(c) ==
  LET t == txn[c]
  IN  /\ t.pc = "proposing" /\ stopped[Leader] = "no"
      /\ log' = Append(log, [by |-> c, type |-> plan[c].kind, subs |-> plan[c].cmds, sure |-> t.sure,
                             readTs |-> t.readTs, commitTs |-> t.commitTs])
      /\ txn' = [txn EXCEPT ![c] = Over]
      /\ UNCHANGED <<oracle, plan, nodes, seen>>

-----------------------------------------------------------------------------
(* The replicas *)

\* applyNormalEntry: an error ends the Ready loop, a panic the process.
ApplyNext(r) ==
  LET res == Apply(db[r], log[applied[r] + 1], DetectConflicts)
  IN  /\ stopped[r] = "no" /\ applied[r] < Len(log)
      /\ db' = [db EXCEPT ![r] = res.db]
      /\ IF res.err = "none"
         THEN /\ applied' = [applied EXCEPT ![r] = @ + 1]
              /\ reached' = [reached EXCEPT ![r] =
                               IF applied[r] + 1 > @ THEN applied[r] + 1 ELSE @]
              /\ UNCHANGED stopped
         ELSE stopped' = [stopped EXCEPT ![r] = res.err] /\ UNCHANGED <<applied, reached>>
      /\ UNCHANGED <<oracle, txn, plan, log, discarded, restarted, seen>>

\* A TTL runs out, on this replica, after the time it was applied there.
Expire(r) ==
  \E v \in db[r].versions :
    /\ v.ttl
    /\ db' = [db EXCEPT ![r].versions =
                (@ \ {v}) \cup {[v EXCEPT !.val = Missing, !.ttl = FALSE]}]
    /\ UNCHANGED <<oracle, txn, plan, log, applied, reached, stopped, discarded, restarted, seen>>

\* DiscardAt: the discard timestamp, at most that of every open transaction.  (Last is
\* a mutant: open transactions do not count.)
DiscardAtLast == {last}
DiscardAt ==
  {ts \in {last} \cup {r.ts : r \in reading} : \A r \in reading : ts <= r.ts}

\* runVlogGC on the leader.
RunVlogGC ==
  \E ts \in DiscardAt :
    /\ ts >= discarded
    /\ discarded' = ts
    /\ db' = [db EXCEPT ![Leader] =
                [versions  |-> Compact(@.versions, ts),
                 committed |-> {m \in @.committed : m.ts > ts}]]
    /\ UNCHANGED <<oracle, txn, plan, log, applied, reached, stopped, restarted, seen>>

-----------------------------------------------------------------------------
Init ==
  /\ last = 1 /\ reading = {} /\ commits = {}
  /\ plan \in Plans
  /\ txn = [c \in Clients |-> Idle]
  /\ log = <<>>
  /\ applied = [r \in Replicas |-> 0]
  /\ reached = [r \in Replicas |-> 0]
  /\ db = [r \in Replicas |-> [versions |-> {}, committed |-> {}]]
  /\ stopped = [r \in Replicas |-> "no"]
  /\ discarded = 0 /\ restarted = {}
  /\ seen = {}

Next ==
  \/ \E c \in Clients :
       \/ BeginTxn(c) \/ ReadIndex(c) \/ GetWithTxn(c) \/ GetByPrefixWithTxn(c)
       \/ DeleteByPrefix(c)
       \/ CommitEmpty(c) \/ Discard(c) \/ Commit(c) \/ Propose(c)
  \/ \E r \in Replicas : ApplyNext(r) \/ Expire(r) \/ Restart(r)
  \/ RunVlogGC

Spec == Init /\ [][Next]_vars

-----------------------------------------------------------------------------
(* Properties *)

Open == [pc : {"open"}, at : Nat, readTs : Nat, reads : SUBSET Keys,
         keys : SUBSET Keys, index : Nat, clean : BOOLEAN, sure : BOOLEAN]

\* Type invariant.  A node never counts an entry as applied that the log does not
\* hold, the oracle knows exactly the open transactions as readers, and none of them
\* reads below the discard timestamp.
TypeOK ==
  /\ last \in Nat /\ discarded \in 0 .. last
  /\ \A c \in Clients : txn[c].pc \in {"idle", "open", "proposing", "done"}
  /\ \A c \in Clients : txn[c].pc = "open" => txn[c] \in Open
  /\ reading = {Reader(c) : c \in {d \in Clients : txn[d].pc = "open"}}
  /\ \A r \in reading : discarded <= r.ts
  /\ \A r \in Replicas : applied[r] <= Len(log) /\ reached[r] <= Len(log)
  /\ \A r \in Replicas : stopped[r] \in {"no", "error", "panic"}

\* Of two commands on a common key, the one earlier in the log has its commit
\* timestamp at or below the other's read timestamp.
Serial ==
  \A i, j \in DOMAIN log :
    i < j /\ Touched(log[i]) \cap Touched(log[j]) # {} => log[i].commitTs <= log[j].readTs

\* No command sets a TTL on k.
Lasting(k) ==
  \A i \in DOMAIN log : \A n \in DOMAIN log[i].subs :
    LET c == log[i].subs[n]
    IN  c.type \in {"SET", "UPDATE"} /\ c.key = k => ~c.ttl

\* Nothing that a command of the log reads has been discarded.
Uncollected == \A i \in DOMAIN log : discarded <= log[i].readTs

\* The replicas that hold what the log says: those never restarted, and the
\* restarted ones too when the commands on each key follow one another.
Repeatable == IF ~Uncollected THEN {} ELSE IF Serial THEN Replicas ELSE Replicas \ restarted

\* Replicas that have applied the same entries hold the same values, although each
\* command reads before it writes, concurrent commands come in any order, and a
\* restarted replica applies entries a second time over the database that has them
\* (fsm.go applies at ReadTs and CommitTs).  Beyond the named conditions they do not.
ReplicasAgree ==
  LET firm == Repeatable
  IN  \A r, s \in firm : reached[r] = reached[s] =>
        \A k \in Keys : Lasting(k) =>
          At(db[r].versions, k, last) = At(db[s].versions, k, last)

\* An entry that stops one replica's Ready loop stops every replica there: none
\* applies past it, with or without a restart (fsm.go returns the same error, or
\* panics alike, for the same entry).
StopsTogether ==
  \A r, s \in Replicas :
    /\ stopped[r] # "no" /\ reached[s] > applied[r]
    /\ \A k \in Keys : Lasting(k)
    => ~({r, s} \subseteq Repeatable)

\* What a transaction read stays what the leader's database holds at its read
\* timestamp: later applies, replays and garbage collection do not reach below it,
\* provided no command up to that timestamp was still unproposed when GetWithTxn
\* asked for the read index, or unapplied when a prefix was read (txn.go lets a
\* commit count as done before it is proposed).
SnapshotReads ==
  Leader \notin restarted \/ Leader \in Repeatable => \A s \in seen :
    s.clean /\ Lasting(s.key) /\ (discarded <= s.ts \/ txn[s.by].pc = "open") =>
      At(db[Leader].versions, s.key, s.ts) = s.val

\* A committed transaction's reads are still current just below its commit
\* timestamp: for every key it found, through GetWithTxn or a prefix, no command
\* between its two timestamps changed the value, whatever order the commands were
\* applied in.  (A DeleteByPrefix must have looked up its keys in a database that
\* had everything up to its read timestamp.)
FoundReadsCurrent ==
  Leader \in Repeatable /\ (\A i \in DOMAIN log : log[i].sure) =>
    \A i \in DOMAIN log : \A s \in seen :
      s.by = log[i].by /\ s.clean /\ s.val # Missing /\ Lasting(s.key) =>
        At(db[Leader].versions, s.key, log[i].commitTs - 1) = s.val

-----------------------------------------------------------------------------
(* What a test case of the repository expects and the code does not keep. *)

\* The INCR_BY commands of the log on k.
Increments(k) ==
  {i \in DOMAIN log : log[i].subs[1].type = "INCR_BY" /\ log[i].subs[1].key = k}

\* integration_test_cases.md:132 "Concurrent `IncrBy` produces consistent total": once
\* a replica has dealt with the log, a counter that only IncrBy calls by one have
\* touched is their number.
CountersExact ==
  \A k \in Keys : \A r \in Replicas :
    /\ applied[r] = Len(log) \/ stopped[r] # "no"
    /\ Increments(k) # {} /\ Increments(k) = {i \in DOMAIN log : k \in Touched(log[i])}
    => At(db[r].versions, k, last) = Number(Cardinality(Increments(k)) % Wrap)
=============================================================================
