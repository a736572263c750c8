----------------------------- MODULE LocalStore -----------------------------
(***************************************************************************)
(* The single-node store of badger.go: BadgerDB in unmanaged mode, which   *)
(* gives transactions their timestamps itself.  Clients call the write     *)
(* methods and NewTransaction; a reader pages through a prefix with        *)
(* IterateByPrefix while they do.                                          *)
(*                                                                         *)
(* A transaction reads its snapshot, which does not change, and its own    *)
(* writes: what it does is computed at its commit.                         *)
(***************************************************************************)
EXTENDS Badger

CONSTANTS
  Clients,     \* goroutines that call the store, once each
  Plans,       \* what the clients' calls do: the combinations to look at
  Stored,      \* what the database holds at first: values of some keys
  ScanPrefix,  \* the prefix the reader pages through
  Limit,       \* its limit
  Wanted       \* the keys for which its process function returns true

\* A call is on one key or on the keys under a prefix.
KeyCalls == {"Set", "IncrBy", "DecrBy", "UpdateJson", "UpdateProtobuf", "Delete"}
IsCall(c) ==
  \/ c.call \in KeyCalls /\ c.key \in Keys
  \/ c.call = "DeleteByPrefix" /\ c.prefix \in Prefixes \cup Keys

ASSUME LocalAssumption ==
  /\ ScanPrefix \in Prefixes /\ Limit \in Nat \ {0}
  /\ Wanted \subseteq Keys /\ DOMAIN Stored \subseteq Keys
  /\ \A p \in Plans : \A c \in Clients :
       /\ Len(p[c]) \in Nat /\ DOMAIN p[c] = 1 .. Len(p[c])
       /\ \A i \in DOMAIN p[c] : IsCall(p[c][i])

VARIABLES
  versions,   \* the database
  last,       \* the last commit timestamp
  committed,  \* the commits BadgerDB checks a transaction against
  plan,       \* what each client's call does
  pc,         \* "idle", "open", "ok", "conflict", "error" or "panic"
  readTs,     \* the read timestamp of a client's transaction
  page,       \* the reader: "idle", "more", "end", "lost" or "cancelled"
  cursor,     \* the key at which its page starts, 0 for the first page
  visited,    \* the keys it has been given, in order
  steady      \* the keys that have had a value ever since it began

store  == <<versions, last, committed>>
reader == <<page, cursor, visited, steady>>
vars   == <<store, plan, pc, readTs, reader>>

-----------------------------------------------------------------------------
(* The methods of Badger *)

\* What a call does inside its transaction; n is how many keys DeleteByPrefix gets
\* to before its context is done.
Set(t, c)            == SetWithTxn(t, c.key, c.val, FALSE)
IncrBy(t, c)         == IncrByWithTxn(t, c.key, c.delta)
DecrBy(t, c)         == DecrByWithTxn(t, c.key, c.delta)
UpdateJson(t, c)     == UpdateJsonWithTxn(t, c.key, c.delta, FALSE)
UpdateProtobuf(t, c) == UpdateProtobufWithTxn(t, c.key, c.delta, FALSE)
Delete(t, c)         == DeleteWithTxn(t, c.key)
DeleteByPrefix(t, c, n) == DeleteByPrefixWithTxn(t, c.prefix, n)

Perform(t, c, n) ==
  IF t.err # "none" THEN t ELSE
  CASE c.call = "Set"            -> Set(t, c)
    [] c.call = "IncrBy"         -> IncrBy(t, c)
    [] c.call = "DecrBy"         -> DecrBy(t, c)
    [] c.call = "UpdateJson"     -> UpdateJson(t, c)
    [] c.call = "UpdateProtobuf" -> UpdateProtobuf(t, c)
    [] c.call = "Delete"         -> Delete(t, c)
    [] c.call = "DeleteByPrefix" -> DeleteByPrefix(t, c, n)

\* performOps of NewTransaction: the calls in order, in one transaction.
PerformOps(t, ops, n) ==
  LET after[i \in 0 .. Len(ops)] ==
        IF i = 0 THEN t ELSE Perform(after[i - 1], ops[i], n[i])
  IN  after[Len(ops)]

\* How far the calls of a client get before their contexts are done.
Reach(c) == [DOMAIN plan[c] -> 0 .. Cardinality(Keys)]

\* The read methods, each in a View of its own: the values now.
Get(k)             == At(versions, k, last)
Exists(k)          == Get(k) # Missing
GetByPrefix(p)     == [k \in {j \in Under[p] : Exists(j)} |-> Get(k)]
GetKeysByPrefix(p) == DOMAIN GetByPrefix(p)
Count(p)           == Cardinality(GetKeysByPrefix(p))
HasChild(p)        == Count(p) > 0

-----------------------------------------------------------------------------
(* Writers *)

\* The transaction begins, at the last commit.  (Ahead is a mutant: at the next one.)
BeginAhead(c) ==
  /\ pc[c] = "idle"
  /\ pc' = [pc EXCEPT ![c] = "open"]
  /\ readTs' = [readTs EXCEPT ![c] = last + 1]
  /\ UNCHANGED <<store, plan, reader>>
Begin(c) ==
  /\ pc[c] = "idle"
  /\ pc' = [pc EXCEPT ![c] = "open"]
  /\ readTs' = [readTs EXCEPT ![c] = last]
  /\ UNCHANGED <<store, plan, reader>>

\* The keys that have had a value all along, after a commit of t.
StillSteady(t) == {k \in steady : k \in DOMAIN t.writes => t.writes[k].val # Missing}

\* NewTransaction, from performOps to the end of Commit.
NewTransaction(c, n) ==
  LET t == PerformOps(NewTxn(versions, readTs[c]), plan[c], n)
      End(outcome) == pc' = [pc EXCEPT ![c] = outcome]
  IN  /\ pc[c] = "open"
      /\ \/ t.err # "none" /\ End(t.err) /\ UNCHANGED <<store, steady>>
         \/ /\ t.err = "none" /\ DOMAIN t.writes = {}
            /\ End("ok") /\ UNCHANGED <<store, steady>>
         \/ /\ t.err = "none" /\ DOMAIN t.writes # {} /\ Conflicts(committed, t)
            /\ End("conflict") /\ UNCHANGED <<store, steady>>
         \/ /\ t.err = "none" /\ DOMAIN t.writes # {} /\ ~Conflicts(committed, t)
            /\ End("ok")
            /\ last' = last + 1
            /\ versions' = CommitAt(versions, t, last')
            /\ committed' = committed \cup {[ts |-> last', keys |-> DOMAIN t.writes]}
            /\ steady' = StillSteady(t)
      /\ UNCHANGED <<plan, readTs, page, cursor, visited>>

-----------------------------------------------------------------------------
(* The reader *)

\* The pages' keys in order.
InOrder(ks) ==
  [i \in 1 .. Cardinality(ks) |-> CHOOSE k \in ks : Cardinality({j \in ks : j <= k}) = i]

\* Where a page starts, and what its loop runs over: Seek finds the first key at or
\* after the start, the loop is entered only if that key begins with the start, and
\* then goes on through the prefix.  (Stuck is a mutant: the loop does not go back to
\* the prefix.)
Start == IF cursor = 0 THEN ScanPrefix ELSE cursor
ItemsStuck == GetKeysByPrefix(Start)
Items ==
  IF HasChild(Start) THEN {k \in GetKeysByPrefix(ScanPrefix) : k >= cursor} ELSE {}

\* One call of IterateByPrefix.  A full page returns the next key as the cursor.  An
\* empty cursor comes back at the end of the prefix and also, "lost", when the loop
\* was not entered.
IterateByPrefix ==
  LET rest == {k \in Items : Cardinality({j \in Items \cap Wanted : j < k}) >= Limit}
  IN  /\ page \in {"idle", "more"}
      /\ steady' = IF page = "idle" THEN GetKeysByPrefix(ScanPrefix) ELSE steady
      /\ visited' = visited \o InOrder(Items \ rest)
      /\ \/ /\ rest = {} /\ UNCHANGED cursor
            /\ page' = IF cursor # 0 /\ Items = {} THEN "lost" ELSE "end"
         \/ /\ rest # {} /\ page' = "more"
            /\ cursor' = CHOOSE k \in rest : \A j \in rest : k <= j
      /\ UNCHANGED <<store, plan, pc, readTs>>

\* The context is done: the call returns no cursor but an error.
IterateCancelled ==
  /\ page \in {"idle", "more"} /\ page' = "cancelled"
  /\ UNCHANGED <<store, plan, pc, readTs, cursor, visited, steady>>

-----------------------------------------------------------------------------
Init ==
  /\ versions = {[key |-> k, ts |-> 1, val |-> Stored[k], ttl |-> FALSE] :
                   k \in DOMAIN Stored}
  /\ last = 1 /\ committed = {}
  /\ plan \in Plans
  /\ pc = [c \in Clients |-> "idle"]
  /\ readTs = [c \in Clients |-> 0]
  /\ page = "idle" /\ cursor = 0 /\ visited = <<>> /\ steady = {}

Next ==
  \/ \E c \in Clients : Begin(c) \/ \E n \in Reach(c) : NewTransaction(c, n)
  \/ IterateByPrefix \/ IterateCancelled

Spec == Init /\ [][Next]_vars

-----------------------------------------------------------------------------
(* Properties *)

\* Type invariant.  An open transaction reads at a timestamp already handed out, and
\* the reader has a cursor exactly while it is beyond its first page.
TypeOK ==
  /\ last \in Nat /\ \A v \in versions : v.key \in Keys /\ v.ts \in 1 .. last
  /\ pc \in [Clients -> {"idle", "open", "ok", "conflict", "error", "panic"}]
  /\ readTs \in [Clients -> 0 .. last]
  /\ page \in {"idle", "more", "end", "lost", "cancelled"}
  /\ cursor \in Keys \cup {0} /\ (page = "more" => cursor # 0)
  /\ visited \in Seq(Keys) /\ steady \subseteq Under[ScanPrefix]

\* What the call of c does if nothing has happened since it began.
Alone(c, n) == PerformOps(NewTxn(versions, last), plan[c], n)

\* k appeared after c began, and c deletes by a prefix of it.
Spared(c, k) ==
  /\ \E i \in DOMAIN plan[c] :
       plan[c][i].call = "DeleteByPrefix" /\ k \in Under[plan[c][i].prefix]
  /\ At(versions, k, readTs[c]) = Missing
  /\ At(versions', k, last') = Get(k)

\* A call that returns nil has done to every key what it does when it runs alone at
\* the moment of its commit, however many others began and committed since it began:
\* no increment, update or transaction is lost or half done (badger.go:417 "IncrBy
\* atomically increments").  DeleteByPrefix may spare the keys that appeared since it
\* began, and a cancelled one deletes the first so many keys and still returns nil.
OneAtATime ==
  [][\A c \in Clients : pc[c] = "open" /\ pc'[c] = "ok" =>
       \E n \in Reach(c) : \A k \in Keys :
         At(versions', k, last') = Sees(Alone(c, n), k) \/ Spared(c, k)]_vars

\* Paging through a prefix while others write gives every key at most once, in order,
\* and when the cursor comes back empty every key that had a value throughout has been
\* given, unless the key of the last cursor was deleted between the two pages
\* (badger.go:309 "An empty return cursor means the prefix range is exhausted").
PagesComplete ==
  /\ \A i, j \in DOMAIN visited : i < j => visited[i] < visited[j]
  /\ page = "end" => \A k \in steady : \E i \in DOMAIN visited : visited[i] = k
  /\ page = "lost" => cursor \notin steady
=============================================================================
