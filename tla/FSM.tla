-------------------------------- MODULE FSM --------------------------------
(***************************************************************************)
(* The commands of types/methods.go and what FSM.Apply makes of one: a     *)
(* managed BadgerDB transaction that reads at the command's ReadTs and is  *)
(* stored at its CommitTs.                                                 *)
(***************************************************************************)
EXTENDS Badger

\* The constructors of a command.  (A delta is a function on the fields it sets.)
NewSetCommand(k, val, ttl)     == [type |-> "SET", key |-> k, val |-> val, ttl |-> ttl]
NewUpdateCommand(k, delta, as, ttl) ==
  [type |-> "UPDATE", key |-> k, delta |-> delta, as |-> as, ttl |-> ttl]
NewDeleteCommand(k)            == [type |-> "DELETE", key |-> k]
NewDeleteByPrefixCommand(p)    == [type |-> "DELETE_BY_PREFIX", prefix |-> p]
NewIncrByCommand(k, delta)     == [type |-> "INCR_BY", key |-> k, delta |-> delta]
NewDecrByCommand(k, delta)     == [type |-> "DECR_BY", key |-> k, delta |-> delta]

\* What a command consists of: it is on one key or on the keys under a prefix.
IsCommand(c) ==
  \/ /\ c.type \in {"SET", "UPDATE", "DELETE", "INCR_BY", "DECR_BY"} /\ c.key \in Keys
     /\ c.type \in {"SET", "UPDATE"} => c.ttl \in BOOLEAN
     /\ c.type = "UPDATE" => c.as \in {"json", "proto"}
  \/ c.type = "DELETE_BY_PREFIX" /\ c.prefix \in Prefixes \cup Keys

\* The keys that an entry of the log may touch.
Touched(cmd) ==
  UNION {IF cmd.subs[i].type = "DELETE_BY_PREFIX" THEN Under[cmd.subs[i].prefix]
         ELSE {cmd.subs[i].key} : i \in DOMAIN cmd.subs}

\* applyUpdate: the delta is unmarshalled and merged as its type says.
ApplyUpdate(t, c) ==
  CASE c.as = "json"  -> UpdateJsonWithTxn(t, c.key, c.delta, c.ttl)
    [] c.as = "proto" -> UpdateProtobufWithTxn(t, c.key, c.delta, c.ttl)

\* The cases that Apply and applyTransaction share.
ApplyOne(t, c) ==
  CASE c.type = "SET"     -> SetWithTxn(t, c.key, c.val, c.ttl)
    [] c.type = "UPDATE"  -> ApplyUpdate(t, c)
    [] c.type = "DELETE"  -> DeleteWithTxn(t, c.key)
    [] c.type = "INCR_BY" -> IncrByWithTxn(t, c.key, c.delta)
    [] c.type = "DECR_BY" -> DecrByWithTxn(t, c.key, c.delta)
    [] OTHER              -> Fail(t, "error")

\* Apply's case for a single operation: only here is DELETE_BY_PREFIX known.
ApplySingle(t, c) ==
  IF c.type = "DELETE_BY_PREFIX"
  THEN DeleteByPrefixWithTxn(t, c.prefix, Cardinality(Keys))
  ELSE ApplyOne(t, c)

\* applyTransaction: the sub-commands in order, until one fails.
ApplyTransaction(t, subs) ==
  LET after[i \in 0 .. Len(subs)] ==
        IF i = 0 THEN t
        ELSE IF after[i - 1].err # "none" THEN after[i - 1]
        ELSE ApplyOne(after[i - 1], subs[i])
  IN  after[Len(subs)]

\* The timestamp the command reads at.  (AtCommit is a mutant: its commit timestamp.)
ReadAtCommit(cmd) == cmd.commitTs
ReadAt(cmd) == cmd.readTs

\* What the command does inside its transaction.
Run(versions, cmd) ==
  LET t == NewTxn(versions, ReadAt(cmd))
  IN  IF cmd.type = "TRANSACTION" THEN ApplyTransaction(t, cmd.subs)
      ELSE ApplySingle(t, cmd.subs[1])

\* newTransactionAt, as Apply calls it: the outcome and the database after it.
\* BadgerDB refuses a commit that conflicts when it detects conflicts, which a
\* transaction without writes does not get to.
Apply(db, cmd, detect) ==
  LET t == Run(db.versions, cmd)
  IN  IF t.err # "none" THEN [db |-> db, err |-> t.err]
      ELSE IF DOMAIN t.writes = {} THEN [db |-> db, err |-> "none"]
      ELSE IF detect /\ Conflicts(db.committed, t) THEN [db |-> db, err |-> "error"]
      ELSE [db  |-> [versions  |-> CommitAt(db.versions, t, cmd.commitTs),
                     committed |-> db.committed \cup
                       {[ts |-> cmd.commitTs, keys |-> DOMAIN t.writes]}],
            err |-> "none"]
=============================================================================
