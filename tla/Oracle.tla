------------------------------- MODULE Oracle -------------------------------
(***************************************************************************)
(* What the timestamp oracle promises the rest of the store, without       *)
(* clocks, windows, watermarks and locks: a transaction reads at a         *)
(* timestamp that no later commit can fall below, and it gets a commit     *)
(* timestamp only if nothing it read has been overwritten since.           *)
(*                                                                         *)
(* TSO implements this specification.  Store is built on it.               *)
(***************************************************************************)
EXTENDS Naturals

CONSTANTS
  Procs,    \* the goroutines that run transactions
  AllKeys   \* the keys they read and write

VARIABLES
  sound,    \* the oracle still keeps its promises
  last,     \* no timestamp above it has been handed out
  reading,  \* the open transactions: who, and at which timestamp it reads
  commits   \* the commits so far: their two timestamps, what they read and wrote

oracleVars == <<sound, last, reading, commits>>

\* A transaction opens at a timestamp that has been reached.
Begin(p, ts) ==
  /\ ts <= last
  /\ reading' = reading \cup {[proc |-> p, ts |-> ts]}
  /\ UNCHANGED <<last, commits>>

\* No commit after r's read timestamp wrote a key of reads.
Unchanged(r, reads) == \A c \in commits : c.ts > r.ts => c.keys \cap reads = {}

\* A transaction commits above everything handed out so far.
Commit(r, reads, keys) ==
  /\ r \in reading /\ last < last'
  /\ commits' = commits \cup
       {[ts |-> last', readTs |-> r.ts, reads |-> reads, keys |-> keys]}
  /\ Unchanged(r, reads)
  /\ reading' = reading \ {r}

\* A transaction ends without a commit: discarded, or refused for a conflict.
End(r) ==
  /\ r \in reading
  /\ reading' = reading \ {r}
  /\ UNCHANGED <<last, commits>>

\* The clock moves on between two commits.
Advance == last <= last' /\ UNCHANGED <<reading, commits>>

Init == sound = TRUE /\ last \in Nat /\ reading = {} /\ commits = {}

\* The promises end when a commit has overflowed the logical counter or a
\* watermark's assertion has failed.
Fail == ~sound'

Next ==
  \/ Fail
  \/ /\ sound /\ sound'
     /\ \/ Advance
        \/ \E r \in reading : End(r)
        \/ \E p \in Procs, ts \in 0 .. last : Begin(p, ts)
        \/ \E r \in reading, reads, keys \in SUBSET AllKeys : Commit(r, reads, keys)

Spec == Init /\ [][Next]_oracleVars
=============================================================================
