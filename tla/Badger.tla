------------------------------- MODULE Badger -------------------------------
(***************************************************************************)
(* The operations of badger.go inside one BadgerDB transaction, and the    *)
(* parts of BadgerDB they rest on.                                         *)
(*                                                                         *)
(* A database is a set of versions: key, timestamp, value, and whether the *)
(* entry was written with a TTL.  A deleted or expired entry is a version  *)
(* whose value is Missing.                                                 *)
(*                                                                         *)
(* Keys are numbered in byte order.  A prefix is known by the keys that    *)
(* begin with it, a run of neighbours in that order; a key is a prefix of  *)
(* itself and of the keys that extend it.                                  *)
(*                                                                         *)
(* Values are counters (8 bytes), JSON objects and Protobuf messages as    *)
(* functions from their set fields (8 bytes or more), and Null, the four   *)
(* bytes of a JSON null.                                                   *)
(***************************************************************************)
EXTENDS Naturals, Sequences, FiniteSets

CONSTANTS
  Keys,      \* keys, numbered in byte order
  Prefixes,  \* the prefixes that calls use, numbered apart from the keys
  Under,     \* the keys that begin with a given prefix or key
  Wrap       \* 2^64, the first number that a counter cannot hold

ASSUME KeysAssumption ==
  /\ Keys \subseteq Nat \ {0} /\ IsFiniteSet(Keys)
  /\ Under \in [Prefixes \cup Keys -> SUBSET Keys]
  /\ \A k \in Keys : k \in Under[k] /\ \A j \in Under[k] : j >= k
  /\ \A p \in Prefixes \cup Keys : \A i, j \in Under[p] :
       \A k \in Keys : i <= k /\ k <= j => k \in Under[p]
  /\ Wrap \in Nat \ {0, 1}

Missing       == [kind |-> "missing"]
Null          == [kind |-> "null"]
Number(n)     == [kind |-> "number", n |-> n]
Object(k, fs) == [kind |-> k, fields |-> fs]

-----------------------------------------------------------------------------
(* BadgerDB: multi-version reads, transactions, commit. *)

\* The value of k at timestamp ts.
At(versions, k, ts) ==
  LET seen == {v \in versions : v.key = k /\ v.ts <= ts}
  IN  IF seen = {} THEN Missing
      ELSE (CHOOSE v \in seen : \A w \in seen : w.ts <= v.ts).val

\* An update transaction: its snapshot, what it has read and written, and how
\* its operations have fared.
NewTxn(versions, ts) ==
  [versions |-> versions, readTs |-> ts, reads |-> {}, writes |-> <<>>, err |-> "none"]

\* What the transaction sees at k: its own write, or the snapshot.
Sees(t, k) == IF k \in DOMAIN t.writes THEN t.writes[k].val
              ELSE At(t.versions, k, t.readTs)

\* BadgerDB remembers the keys an update transaction reads from its snapshot.
Read(t, ks) == [t EXCEPT !.reads = @ \cup (ks \ DOMAIN t.writes)]

\* txn.SetEntry and txn.Delete.
Write(t, ks, val, ttl) ==
  [t EXCEPT !.writes = [k \in ks \cup DOMAIN @ |->
                          IF k \in ks THEN [val |-> val, ttl |-> ttl] ELSE @[k]]]

Fail(t, how) == [t EXCEPT !.err = how]

\* A commit after the transaction's read timestamp wrote a key it has read.
Conflicts(committed, t) ==
  \E c \in committed : c.ts > t.readTs /\ c.keys \cap t.reads # {}

\* CommitAt: the versions after the writes are stored at ts.
CommitAt(versions, t, ts) ==
  {v \in versions : ~(v.ts = ts /\ v.key \in DOMAIN t.writes)} \cup
  {[key |-> k, ts |-> ts, val |-> t.writes[k].val, ttl |-> t.writes[k].ttl] :
     k \in DOMAIN t.writes}

\* Compaction below the discard timestamp keeps the newest version of a key.
Compact(versions, ts) ==
  {v \in versions : ~\E w \in versions : w.key = v.key /\ v.ts < w.ts /\ w.ts <= ts}

-----------------------------------------------------------------------------
(* The *WithTxn methods of badger.go. *)

\* GetKeysByPrefixWithTxn: the keys under a prefix that have a value.
GetKeysByPrefixWithTxn(t, p) == {k \in Under[p] : Sees(t, k) # Missing}

SetWithTxn(t, k, val, ttl) == Write(t, {k}, val, ttl)

DeleteWithTxn(t, k) == Write(t, {k}, Missing, FALSE)

\* A value of the key is read and the value computed from it written, unless the
\* stored bytes do not allow it.  (Unread is a mutant: the read is not the
\* transaction's.)
ModifyUnread(t, k, val, ttl) == SetWithTxn(t, k, val, ttl)
Modify(t, k, val, ttl) == SetWithTxn(Read(t, {k}), k, val, ttl)

\* BytesToUint64 panics on fewer than 8 bytes, and takes the first 8 of an object for
\* a number.
BytesToUint64(v) == IF v.kind = "number" THEN v.n ELSE Wrap \div 2

IncrByWithTxn(t, k, delta) ==
  LET old == Sees(t, k)
  IN  CASE old = Missing -> Modify(t, k, Number(delta), FALSE)
        [] old = Null -> Fail(t, "panic")
        [] OTHER -> Modify(t, k, Number((BytesToUint64(old) + delta) % Wrap), FALSE)

\* DecrByWithTxn: the counter stops at zero.
DecrByWithTxn(t, k, delta) ==
  LET old == Sees(t, k)
      n   == BytesToUint64(old)
  IN  CASE old = Missing -> Modify(t, k, Number(0), FALSE)
        [] old = Null -> Fail(t, "panic")
        [] OTHER -> Modify(t, k, Number(IF n < delta THEN 0 ELSE n - delta), FALSE)

\* MergeProtobufMessages and maps.Copy: the fields set in delta replace the stored
\* ones, lists included.
Merge(fields, delta) ==
  [f \in DOMAIN fields \cup DOMAIN delta |->
     IF f \in DOMAIN delta THEN delta[f] ELSE fields[f]]

\* UpdateJsonWithTxn: a JSON null unmarshals to a nil map, which maps.Copy cannot
\* fill; anything else that is not an object is an error.
UpdateJsonWithTxn(t, k, delta, ttl) ==
  LET old == Sees(t, k)
  IN  CASE old = Missing -> Modify(t, k, Object("json", delta), ttl)
        [] old.kind = "json" ->
             Modify(t, k, Object("json", Merge(old.fields, delta)), ttl)
        [] old = Null -> Fail(t, "panic")
        [] OTHER -> Fail(t, "error")

\* UpdateProtobufWithTxn, with MergeProtoDelta.
UpdateProtobufWithTxn(t, k, delta, ttl) ==
  LET old == Sees(t, k)
  IN  CASE old = Missing -> Modify(t, k, Object("proto", delta), ttl)
        [] old.kind = "proto" ->
             Modify(t, k, Object("proto", Merge(old.fields, delta)), ttl)
        [] OTHER -> Fail(t, "error")

\* The n smallest members of a set of keys.
Smallest(ks, n) == {k \in ks : Cardinality({j \in ks : j <= k}) <= n}

\* DeleteByPrefixWithTxn: the keys under the prefix, in order, until the context
\* is done; then it returns nil.  (n is how many keys it gets to.)
DeleteByPrefixWithTxn(t, p, n) ==
  LET ks == Smallest(GetKeysByPrefixWithTxn(t, p), n)
  IN  Write(Read(t, ks), ks, Missing, FALSE)
=============================================================================
