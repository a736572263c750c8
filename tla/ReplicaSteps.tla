---------------------------- MODULE ReplicaSteps ----------------------------
(***************************************************************************)
(* The invariant that a member of the cluster keeps, in memory and on      *)
(* disk, for any log, any faults and any number of background snapshots;   *)
(* and that every step keeps the types, s.mu and what is known of the      *)
(* Ready being processed.  ReplicaProofs has the other parts.              *)
(*                                                                         *)
(* The argument rests on three facts.  SaveState writes entries beyond all *)
(* that is committed or acknowledged, each next to one that a restart      *)
(* would read (WalInv).  A snapshot record beyond the hard state is that   *)
(* of a received snapshot, and the history variable restoring holds it     *)
(* until the database has caught up (DbInv).  A snapshot taken of a        *)
(* database that is being restored has an index below the one that         *)
(* memStorage has by then, and Storage.CreateSnapshot refuses it           *)
(* (TakenInv).                                                             *)
(***************************************************************************)
EXTENDS Replica, FiniteMaximum

\* A leaf that names no prover goes to the SMT solver, which has 30 seconds for it.
USE SMTT(30)

Index     == 0..MaxIndex
Snapshots == [data : SUBSET (1..MaxIndex), conf : Index]

\* A Ready without and with a snapshot; a goroutine of takeSnapshotIfNeeded.
Plain == [snap : {0}, from : Nat, next : Nat, last : Index, commit : Index,
          lo : Nat, hi : Index, removed : BOOLEAN]
Given == [snap : 1..MaxIndex, file : Snapshots, from : Nat, next : Nat, last : Index,
          commit : Index, lo : Nat, hi : Index, removed : BOOLEAN]
Snapper ==
  [pc : {"idle", "start"}] \cup [pc : {"snap"}, conf : Index]
    \cup [pc : {"applied"}, conf : Index, snap : Index]
    \cup [pc : {"backup"}, conf : Index, index : Index]
    \cup [pc : {"create", "file"}, index : Index, snap : Snapshots]
    \cup [pc : {"record", "install"}, index : Index]

\* Where the ready loop is: before the hard state of its Ready is saved, before its
\* entries are applied, with a Ready at all; with a snapshot in memory but not in the
\* database.  Where a goroutine has read the index of its snapshot.
BeforeHard  == {"save", "file", "record", "entries"}
BeforeApply == {"save", "file", "record", "entries", "memory", "send", "restore", "load"}
Busy        == {"save", "file", "record", "entries", "memory", "send", "restore", "load",
                "apply", "advance"}
Ahead       == {"send", "restore", "load"}
Indexed     == {"backup", "create", "file", "record", "install"}

WalType(w) == DOMAIN w \subseteq 1..MaxIndex /\ \A i \in DOMAIN w : w[i] \in Nat /\ w[i] < i

DiskTypes ==
  /\ records \subseteq Index /\ 0 \in records
  /\ DOMAIN files \subseteq Index /\ 0 \in DOMAIN files
  /\ \A i \in DOMAIN files : files[i] \in Snapshots
  /\ WalType(wal) /\ db \subseteq 1..MaxIndex /\ hard \in Index /\ released \in Index
NodeTypes ==
  /\ mem \in [snap : Index, last : Index] /\ mem.snap <= mem.last
  /\ raft \in [commit : Index, applied : Index]
  /\ applied \in Index /\ conf \in Index
  /\ pc \in Busy \cup {"down", "select", "removed", "stopped"}
  /\ pc \in Busy => rd \in Plain \cup Given
PastTypes ==
  /\ acked \in Index /\ restoring \subseteq Index /\ unloaded \in BOOLEAN
  /\ faults \in 0..MaxFaults
SnTypes == sn \in [Snappers -> Snapper]
TypeInv == DiskTypes /\ NodeTypes /\ PastTypes /\ SnTypes

\* s.mu.
Mutex ==
  /\ ~(LoopSaving /\ SnapperSaving)
  /\ \A s, t \in Snappers : Saving(s) /\ Saving(t) => s = t

\* The Ready, against what is committed, applied and in memory.
ReadyInv ==
  /\ pc # "down" => hard <= raft.commit
  /\ pc \in BeforeApply \cup {"select"} => raft.applied = applied
  /\ pc \in Busy => /\ rd.commit = raft.commit /\ rd.hi <= rd.commit /\ rd.commit <= rd.last
                    /\ applied <= rd.hi
  /\ pc \in Busy \ BeforeHard => hard = rd.commit
  /\ pc \in Busy /\ rd.snap # 0 =>
       /\ rd.last = rd.snap /\ rd.hi = rd.snap /\ rd.commit = rd.snap /\ rd.lo = rd.snap + 1
       /\ rd.from = rd.snap + 1 /\ rd.next = rd.snap + 1
       /\ DataAt(rd.snap) \subseteq rd.file.data
  /\ pc \in BeforeApply /\ rd.snap # 0 => applied < rd.snap
  /\ pc \in BeforeHard => hard < rd.from /\ (rd.snap # 0 => hard < rd.snap)
  /\ pc \in BeforeHard \cup {"memory"} =>
       mem.last < rd.from /\ (rd.snap # 0 => mem.last < rd.snap)
  /\ pc \in BeforeApply /\ rd.snap = 0 => rd.lo = applied + 1
  /\ pc = "apply" => applied < rd.lo /\ rd.lo <= rd.hi + 1
  /\ pc = "advance" => applied = rd.hi
  /\ pc \in {"file", "record", "restore", "load"} => rd.snap # 0

\* The goroutines that take snapshots, against what is applied and in memory.
SnapperInv ==
  \A s \in Snappers :
    /\ sn[s].pc \in Indexed => sn[s].index <= applied
    /\ sn[s].pc = "applied" => sn[s].snap <= mem.snap
    /\ sn[s].pc \in {"backup", "create"} => sn[s].index > 0 \/ mem.snap > 0
    /\ Saving(s) => sn[s].index > 0
    /\ sn[s].pc = "install" => sn[s].index \in records
OrderInv ==
  /\ applied <= hard
  /\ pc = "down" => applied = 0 /\ mem.snap = 0
  /\ pc # "stopped" /\ ~(pc \in Ahead /\ rd.snap # 0) => mem.snap <= applied
  /\ pc \in Ahead /\ rd.snap # 0 => ~SnapperSaving /\ mem.snap = rd.snap

\* The record that a restart would begin with, were all files there; the entries it
\* would then read.
CoveredBy(R, h) == Max({i \in R : i <= h})
Covered == CoveredBy(records, hard)
Reads(w, k, n) == n <= k \/ (n \in DOMAIN w /\ w[n] <= k)

\* No entry is read without all between it and the snapshot.
Gapless(w, k) ==
  \A i \in DOMAIN w : \A j \in (k + 1)..(i - 1) :
    j > w[i] => j \in DOMAIN w /\ (w[j] <= w[i] \/ w[j] <= k)

Replays(n) == Reads(wal, Covered, n)
WalInv ==
  /\ Gapless(wal, Covered) /\ released <= Covered
  /\ Replays(hard) /\ Replays(acked) /\ Replays(mem.last)
  /\ pc \in BeforeHard /\ rd.snap = 0 =>
       /\ rd.from <= rd.next /\ rd.next <= rd.last + 1
       /\ Replays(rd.next - 1)
       /\ rd.next <= rd.last => acked < rd.next
  /\ pc \in {"memory", "send"} => Replays(rd.last)

\* The database holds what is applied and what the records stand for.
DbInv ==
  /\ \A i \in records : i > hard => i \in restoring
  /\ ~unloaded => /\ DataAt(applied) \subseteq db
                  /\ \A i \in records \ restoring : DataAt(i) \subseteq db
                  /\ pc = "apply" => DataAt(rd.lo - 1) \subseteq db

\* The files, and the snapshots on their way to one, hold what their index says.
Complete(i) == DataAt(i) \subseteq files[i].data
FilesInv ==
  /\ \A i \in DOMAIN files : i > hard => Complete(i)
  /\ ~unloaded /\ Covered \in DOMAIN files => Complete(Covered)
  /\ pc \in BeforeApply \ {"save", "file", "record"} /\ rd.snap # 0 => rd.snap \in records
  /\ pc \in {"memory", "send", "restore", "load"} /\ rd.snap # 0 /\ rd.snap \in DOMAIN files =>
       Complete(rd.snap)
TakenInv ==
  \A s \in Snappers :
    /\ sn[s].pc = "create" => \/ unloaded \/ sn[s].index < mem.snap
                              \/ DataAt(sn[s].index) \subseteq sn[s].snap.data
    /\ sn[s].pc = "file" /\ ~unloaded => DataAt(sn[s].index) \subseteq sn[s].snap.data
    /\ sn[s].pc = "record" =>
         sn[s].index \in DOMAIN files /\ (~unloaded => Complete(sn[s].index))

IInv ==
  /\ TypeInv /\ Mutex /\ ReadyInv /\ SnapperInv /\ OrderInv /\ WalInv /\ DbInv
  /\ FilesInv /\ TakenInv

-----------------------------------------------------------------------------
(* The operators of the model. *)

\* The larger of two numbers.
LEMMA MaxPair ==
  ASSUME NEW a \in Nat, NEW b \in Nat
  PROVE  Max({a, b}) \in {a, b} /\ a <= Max({a, b}) /\ b <= Max({a, b})
<1>1. \E x \in {a, b} : \A y \in {a, b} : x >= y
  OBVIOUS
<1>2. Max({a, b}) \in {a, b} /\ \A y \in {a, b} : Max({a, b}) >= y
  BY <1>1, Zenon DEF Max
<1> QED BY Zenon, <1>2

\* The smaller of two numbers.
LEMMA MinPair ==
  ASSUME NEW a \in Nat, NEW b \in Nat
  PROVE  Min({a, b}) \in {a, b} /\ Min({a, b}) <= a /\ Min({a, b}) <= b
<1>1. \E x \in {a, b} : \A y \in {a, b} : x =< y
  OBVIOUS
<1>2. Min({a, b}) \in {a, b} /\ \A y \in {a, b} : Min({a, b}) =< y
  BY <1>1, Zenon DEF Min
<1> QED BY Zenon, <1>2

\* The constants.
LEMMA Constants ==
  /\ MaxIndex \in Nat /\ SnapshotCount \in Nat \ {0} /\ WordSize \in Nat \ {0} /\ MaxFaults \in Nat
  /\ ConfChanges \subseteq 0..MaxIndex /\ Installs \subseteq 1..MaxIndex
BY ReplicaAssumption

\* The configuration after an entry is an index.
LEMMA ConfIndex == \A i \in Nat : ConfAt(i) \in Index
<1> SUFFICES ASSUME NEW i \in Nat PROVE ConfAt(i) \in Index
  BY Zenon
<1> DEFINE S == {0} \cup {c \in ConfChanges : c <= i}
<1>1. MaxIndex \in Nat /\ ConfChanges \subseteq 0..MaxIndex /\ 0 \in 0..MaxIndex
  BY Constants
<1>2. S \in SUBSET (0..MaxIndex) /\ S # {}
  BY Zenon, <1>1
<1> HIDE DEF S
<1>3. Max(S) \in 0..MaxIndex
  BY Zenon, <1>1, <1>2, MaxOfSome
<1> QED BY Zenon, <1>3 DEF ConfAt, Index, S

\* What a snapshot holds grows with its index.
LEMMA DataGrows ==
  ASSUME NEW i \in Nat, NEW j \in Nat, i <= j
  PROVE  DataAt(i) \subseteq DataAt(j)
BY DEF DataAt

\* The record a restart begins with.
LEMMA CoveredByIs ==
  ASSUME NEW R, R \subseteq Index, 0 \in R, NEW h \in Index
  PROVE  /\ CoveredBy(R, h) \in R /\ CoveredBy(R, h) \in Index /\ CoveredBy(R, h) \in Nat
         /\ CoveredBy(R, h) <= h /\ \A i \in R : i <= h => i <= CoveredBy(R, h)
<1> DEFINE S == {i \in R : i <= h}
<1>0. MaxIndex \in Nat /\ 0 <= h
  BY Constants DEF Index
<1>1. MaxIndex \in Nat /\ S \in SUBSET (0..MaxIndex) /\ 0 \in S
  BY Zenon, <1>0 DEF Index
<1>2. Max(S) \in S /\ Max(S) \in 0..MaxIndex /\ \A y \in S : y <= Max(S)
  <2> HIDE DEF S
  <2> QED BY Zenon, <1>1, MaxOfSome
<1>3. CoveredBy(R, h) \in S /\ CoveredBy(R, h) \in 0..MaxIndex /\ \A y \in S : y <= CoveredBy(R, h)
  BY Zenon, <1>2 DEF CoveredBy
<1> QED BY <1>1, <1>3 DEF Index

\* The same, of the present records and hard state.
LEMMA CoveredIs ==
  ASSUME DiskTypes
  PROVE  /\ Covered \in records /\ Covered \in Index /\ Covered \in Nat /\ Covered <= hard
         /\ \A i \in records : i <= hard => i <= Covered
BY Zenon, CoveredByIs DEF DiskTypes, Covered

\* The same with the files that are there.
LEMMA NewestIs ==
  ASSUME DiskTypes
  PROVE  /\ Newest \in records /\ Newest \in DOMAIN files /\ Newest \in Index /\ Newest \in Nat
         /\ Newest <= hard /\ Newest <= Covered
         /\ records \subseteq DOMAIN files => Newest = Covered
<1> DEFINE S == {i \in records \cap DOMAIN files : i <= hard}
<1>0. MaxIndex \in Nat /\ 0 <= hard
  BY Constants DEF DiskTypes, Index
<1>1. MaxIndex \in Nat /\ S \in SUBSET (0..MaxIndex) /\ 0 \in S
  BY Zenon, <1>0 DEF DiskTypes, Index
<1>2. Max(S) \in S /\ Max(S) \in 0..MaxIndex
  <2> HIDE DEF S
  <2> QED BY Zenon, <1>1, MaxOfSome
<1>3. ASSUME records \subseteq DOMAIN files PROVE Newest = Covered
  <2>1. S = {i \in records : i <= hard}
    BY Zenon, <1>3
  <2> QED BY <2>1, Zenon DEF Newest, Covered, CoveredBy
<1>4. Newest \in records /\ Newest \in DOMAIN files /\ Newest <= hard /\ Newest \in 0..MaxIndex
  BY Zenon, <1>2 DEF Newest
<1> QED BY <1>1, <1>3, <1>4, CoveredIs DEF Index

\* A later snapshot needs no more of the WAL than an earlier one.
LEMMA ReadsMore ==
  ASSUME NEW w, WalType(w), NEW k \in Nat, NEW m \in Nat, k <= m
  PROVE  /\ \A n \in Int : Reads(w, k, n) => Reads(w, m, n)
         /\ Gapless(w, k) => Gapless(w, m)
<1>1. \A n \in Int : Reads(w, k, n) => Reads(w, m, n)
  BY DEF Reads, WalType
<1>2. ASSUME Gapless(w, k), NEW i \in DOMAIN w, NEW j \in (m + 1)..(i - 1), j > w[i]
      PROVE  j \in DOMAIN w /\ (w[j] <= w[i] \/ w[j] <= m)
  <2>1. i \in Nat /\ j \in (k + 1)..(i - 1)
    BY DEF WalType
  <2>2. j \in DOMAIN w /\ (w[j] <= w[i] \/ w[j] <= k)
    BY Zenon, <1>2, <2>1 DEF Gapless
  <2> QED BY <2>2 DEF WalType
<1> QED BY Zenon, <1>1, <1>2 DEF Gapless

\* With an entry, all before it are read.
LEMMA ReadsBelow ==
  ASSUME NEW w, WalType(w), NEW k \in Nat, Gapless(w, k), NEW n \in Nat, Reads(w, k, n), NEW m \in Nat, m <= n
  PROVE  Reads(w, k, m)
<1>1. CASE m <= k \/ m = n
  BY Zenon, <1>1 DEF Reads
<1>2. CASE k < m /\ m < n
  <2>1. n \in DOMAIN w /\ w[n] <= k /\ w[n] \in Nat /\ m \in (k + 1)..(n - 1)
    BY <1>2 DEF Reads, WalType
  <2>2. m > w[n]
    BY <1>2, <2>1
  <2>3. m \in DOMAIN w /\ (w[m] <= w[n] \/ w[m] <= k)
    BY Zenon, <2>1, <2>2 DEF Gapless
  <2> QED BY <2>1, <2>3 DEF Reads, WalType
<1> QED BY <1>1, <1>2

\* The WAL after an entry is written.
Written(w, n) ==
  [i \in DOMAIN w \cup {n} |-> IF i = n THEN 0 ELSE IF i > n THEN Max({w[i], n}) ELSE w[i]]

\* An entry written after one that is read is read, and leaves no gap.
LEMMA WrittenReads ==
  ASSUME NEW w, WalType(w), NEW n \in 1..MaxIndex, NEW k \in Nat, k < n,
         Gapless(w, k), Reads(w, k, n - 1)
  PROVE  /\ WalType(Written(w, n)) /\ Gapless(Written(w, n), k) /\ Reads(Written(w, n), k, n)
         /\ \A x \in Int : x < n /\ Reads(w, k, x) => Reads(Written(w, n), k, x)
<1> DEFINE v == Written(w, n)
<1>0. n \in Nat /\ MaxIndex \in Nat
  BY Constants
<1>1. DOMAIN v = DOMAIN w \cup {n} /\ v[n] = 0 /\ DOMAIN w \subseteq Nat
  BY DEF Written, WalType
<1>2. \A i \in DOMAIN w : i < n => v[i] = w[i]
  BY <1>0 DEF Written, WalType
<1>3. \A i \in DOMAIN w : i > n => v[i] \in Nat /\ v[i] >= n /\ v[i] >= w[i] /\ v[i] \in {w[i], n}
  <2> SUFFICES ASSUME NEW i \in DOMAIN w, i > n
               PROVE  v[i] \in Nat /\ v[i] >= n /\ v[i] >= w[i] /\ v[i] \in {w[i], n}
    BY Zenon
  <2>1. i \in Nat /\ w[i] \in Nat
    BY DEF WalType
  <2>2. v[i] = Max({w[i], n})
    BY <1>0, <2>1 DEF Written
  <2> QED BY <1>0, <2>1, <2>2, MaxPair
<1> HIDE DEF v
<1>4. WalType(v)
  BY <1>0, <1>1, <1>2, <1>3 DEF WalType
<1>5. \A j \in (k + 1)..(n - 1) : j \in DOMAIN w /\ w[j] <= k
  <2> SUFFICES ASSUME NEW j \in (k + 1)..(n - 1) PROVE j \in DOMAIN w /\ w[j] <= k
    BY Zenon
  <2>1. n - 1 \in DOMAIN w /\ w[n - 1] <= k /\ w[n - 1] \in Nat
    BY <1>0 DEF Reads, WalType
  <2>2. CASE j = n - 1
    BY Zenon, <2>1, <2>2
  <2>3. CASE j # n - 1
    <3>1. j \in (k + 1)..((n - 1) - 1) /\ j > w[n - 1]
      BY <1>0, <2>1, <2>3
    <3>2. j \in DOMAIN w /\ (w[j] <= w[n - 1] \/ w[j] <= k)
      BY Zenon, <2>1, <3>1 DEF Gapless
    <3> QED BY <2>1, <3>2 DEF WalType
  <2> QED BY Zenon, <2>2, <2>3
<1>6. Gapless(v, k)
  <2> SUFFICES ASSUME NEW i \in DOMAIN v, NEW j \in (k + 1)..(i - 1), j > v[i]
               PROVE  j \in DOMAIN v /\ (v[j] <= v[i] \/ v[j] <= k)
    BY Zenon DEF Gapless
  <2>0. i \in Nat /\ j \in Nat
    BY <1>0, <1>1
  <2>1. CASE i = n
    <3>1. j \in DOMAIN w /\ w[j] <= k /\ j < n
      BY <1>0, <1>5, <2>1
    <3> QED BY Zenon, <1>1, <1>2, <3>1
  <2>2. CASE i < n
    <3>1. i \in DOMAIN w /\ v[i] = w[i] /\ j < n
      BY <1>0, <1>1, <1>2, <2>0, <2>2
    <3>2. j \in DOMAIN w /\ (w[j] <= w[i] \/ w[j] <= k)
      BY Zenon, <3>1 DEF Gapless
    <3>3. v[j] = w[j]
      BY Zenon, <1>2, <3>1, <3>2
    <3> QED BY Zenon, <1>1, <3>1, <3>2, <3>3
  <2>3. CASE i > n
    <3>1. i \in DOMAIN w /\ w[i] \in Nat /\ v[i] \in Nat /\ v[i] >= n /\ v[i] >= w[i]
      BY <1>0, <1>1, <1>3, <2>3 DEF WalType
    <3>2. j > w[i] /\ j > n
      BY <1>0, <2>0, <3>1
    <3>3. j \in DOMAIN w /\ (w[j] <= w[i] \/ w[j] <= k) /\ w[j] \in Nat
      BY Zenon, <3>1, <3>2 DEF Gapless, WalType
    <3>4. v[j] \in {w[j], n} /\ j \in DOMAIN v
      BY Zenon, <1>1, <1>3, <3>2, <3>3
    <3> QED BY <1>0, <3>1, <3>3, <3>4
  <2> QED BY <1>0, <2>0, <2>1, <2>2, <2>3
<1>7. Reads(v, k, n)
  BY <1>1 DEF Reads
<1>8. ASSUME NEW x \in Int, x < n, Reads(w, k, x) PROVE Reads(v, k, x)
  BY Zenon, <1>1, <1>2, <1>8 DEF Reads
<1> QED BY Zenon, <1>4, <1>6, <1>7, <1>8 DEF v

\* What ReadAll returns is then without a gap and ends no earlier than any of it.
LEMMA ReplayIs ==
  ASSUME DiskTypes
  PROVE  /\ LastReplayed \in Index /\ LastReplayed \in Nat /\ Newest <= LastReplayed
         /\ Reads(wal, Newest, LastReplayed)
         /\ \A n \in Nat : Reads(wal, Newest, n) => n <= LastReplayed
         /\ Gapless(wal, Newest) => Replayed = (Newest + 1)..LastReplayed
<1> DEFINE S == {Newest} \cup Replayed
<1>0. MaxIndex \in Nat /\ Newest \in Nat /\ Newest \in Index /\ WalType(wal)
  BY Zenon, NewestIs, Constants DEF DiskTypes
<1>1. S \in SUBSET (0..MaxIndex) /\ Newest \in S
  BY <1>0 DEF Replayed, WalType, Index
<1>2. LastReplayed \in S /\ LastReplayed \in 0..MaxIndex /\ \A y \in S : y <= LastReplayed
  BY Zenon, <1>0, <1>1, MaxOfSome DEF LastReplayed
<1>3. \A n \in Nat : Reads(wal, Newest, n) => n <= LastReplayed
  BY <1>0, <1>1, <1>2 DEF Reads, Replayed
<1>4. Reads(wal, Newest, LastReplayed)
  BY Zenon, <1>0, <1>2 DEF Reads, Replayed
<1>5. ASSUME Gapless(wal, Newest), NEW n
      PROVE  n \in Replayed <=> n \in (Newest + 1)..LastReplayed
  <2>1. ASSUME n \in Replayed PROVE n \in (Newest + 1)..LastReplayed
    BY <1>0, <1>2, <2>1 DEF Replayed, WalType
  <2>2. ASSUME n \in (Newest + 1)..LastReplayed PROVE n \in Replayed
    <3>1. LastReplayed \in DOMAIN wal /\ wal[LastReplayed] <= Newest /\ wal[LastReplayed] \in Nat
      BY <1>0, <1>2, <2>2 DEF Replayed, WalType
    <3>2. CASE n = LastReplayed
      BY <1>0, <2>2, <3>1, <3>2 DEF Replayed
    <3>3. CASE n # LastReplayed
      <4>0. LastReplayed \in Nat
        BY <1>0, <1>2
      <4>1. n \in (Newest + 1)..(LastReplayed - 1) /\ n > wal[LastReplayed]
        BY <1>0, <2>2, <3>1, <3>3, <4>0
      <4>2. n \in DOMAIN wal /\ (wal[n] <= wal[LastReplayed] \/ wal[n] <= Newest)
        BY Zenon, <1>5, <3>1, <4>1 DEF Gapless
      <4> QED BY <1>0, <3>1, <4>1, <4>2 DEF Replayed, WalType
    <3> QED BY Zenon, <3>2, <3>3
  <2> QED BY Zenon, <2>1, <2>2
<1>6. Gapless(wal, Newest) => Replayed = (Newest + 1)..LastReplayed
  BY Zenon, <1>5
<1>7. LastReplayed \in Index /\ LastReplayed \in Nat /\ Newest <= LastReplayed
  BY <1>0, <1>2 DEF Index
<1> QED BY Zenon, <1>3, <1>4, <1>6, <1>7

-----------------------------------------------------------------------------
(* Types. *)

\* The fields of a Ready.
LEMMA RdFields ==
  ASSUME NodeTypes, pc \in Busy
  PROVE  /\ rd.snap \in Index /\ rd.snap \in Nat /\ rd.from \in Nat /\ rd.next \in Nat
         /\ rd.last \in Index /\ rd.last \in Nat /\ rd.commit \in Index /\ rd.commit \in Nat
         /\ rd.lo \in Nat /\ rd.hi \in Index /\ rd.hi \in Nat /\ rd.removed \in BOOLEAN
         /\ rd.snap # 0 => rd.file \in Snapshots /\ rd.snap \in 1..MaxIndex
<1>1. MaxIndex \in Nat /\ rd \in Plain \cup Given
  BY Zenon, Constants DEF NodeTypes
<1>2. CASE rd \in Plain
  BY <1>1, <1>2 DEF Plain, Index
<1>3. CASE rd \in Given
  BY <1>1, <1>3 DEF Given, Index
<1> QED BY Zenon, <1>1, <1>2, <1>3

\* What wal.Save does to the Ready as it writes an entry.
LEMMA RdNext ==
  ASSUME NodeTypes, pc \in Busy, NEW r, r = [rd EXCEPT !.next = @ + 1]
  PROVE  /\ r \in Plain \cup Given /\ r.next = rd.next + 1 /\ r.snap = rd.snap
         /\ r.from = rd.from /\ r.last = rd.last /\ r.commit = rd.commit /\ r.lo = rd.lo
         /\ r.hi = rd.hi /\ (rd.snap # 0 => r.file = rd.file)
<1>1. MaxIndex \in Nat /\ rd \in Plain \cup Given
  BY Zenon, Constants DEF NodeTypes
<1>2. CASE rd \in Plain
  BY <1>1, <1>2 DEF Plain, Index
<1>3. CASE rd \in Given
  BY <1>1, <1>3 DEF Given, Index
<1> QED BY Zenon, <1>1, <1>2, <1>3

\* What applyEntries does to it with an entry.
LEMMA RdLo ==
  ASSUME NodeTypes, pc \in Busy, NEW b \in BOOLEAN, NEW r,
         r = [rd EXCEPT !.lo = @ + 1, !.removed = b]
  PROVE  /\ r \in Plain \cup Given /\ r.lo = rd.lo + 1 /\ r.snap = rd.snap
         /\ r.from = rd.from /\ r.last = rd.last /\ r.commit = rd.commit /\ r.next = rd.next
         /\ r.hi = rd.hi /\ (rd.snap # 0 => r.file = rd.file)
<1>1. MaxIndex \in Nat /\ rd \in Plain \cup Given
  BY Zenon, Constants DEF NodeTypes
<1> DEFINE q == [rd EXCEPT !.lo = @ + 1]
<1>2. CASE rd \in Plain
  <2>1. /\ q \in Plain /\ q.lo = rd.lo + 1 /\ q.snap = rd.snap /\ q.from = rd.from /\ q.last = rd.last
        /\ q.commit = rd.commit /\ q.next = rd.next /\ q.hi = rd.hi
    BY <1>1, <1>2 DEF Plain, Index
  <2>2. r = [q EXCEPT !.removed = b]
    BY Zenon
  <2>3. rd.snap = 0
    BY Zenon, <1>2 DEF Plain
  <2> HIDE DEF q
  <2> QED BY <2>1, <2>2, <2>3 DEF Plain
<1>3. CASE rd \in Given
  <2>1. /\ q \in Given /\ q.lo = rd.lo + 1 /\ q.snap = rd.snap /\ q.from = rd.from /\ q.last = rd.last
        /\ q.commit = rd.commit /\ q.next = rd.next /\ q.hi = rd.hi /\ q.file = rd.file
    BY <1>1, <1>3 DEF Given, Index
  <2>2. r = [q EXCEPT !.removed = b]
    OBVIOUS
  <2> HIDE DEF q
  <2> QED BY <2>1, <2>2 DEF Given
<1> QED BY Zenon, <1>1, <1>2, <1>3

\* The fields of a goroutine that takes a snapshot.
LEMMA SnFields ==
  ASSUME SnTypes, NEW s \in Snappers
  PROVE  /\ sn[s].pc \in Indexed => sn[s].index \in Index /\ sn[s].index \in Nat
         /\ sn[s].pc = "applied" => sn[s].snap \in Index /\ sn[s].snap \in Nat
         /\ sn[s].pc \in {"create", "file"} => sn[s].snap \in Snapshots
         /\ sn[s].pc \in {"snap", "applied", "backup"} => sn[s].conf \in Index
<1>1. sn[s] \in Snapper /\ MaxIndex \in Nat
  BY Zenon, Constants DEF SnTypes
<1> QED BY <1>1 DEF Snapper, Index, Indexed

\* What an entry is written to.
LEMMA WrittenType ==
  ASSUME NEW w, WalType(w), NEW n \in 1..MaxIndex
  PROVE  WalType(Written(w, n))
<1> DEFINE v == Written(w, n)
<1>0. n \in Nat /\ MaxIndex \in Nat
  BY Constants
<1>1. DOMAIN v = DOMAIN w \cup {n} /\ v[n] = 0
  BY Zenon DEF Written
<1>2. ASSUME NEW i \in DOMAIN w, i # n PROVE v[i] \in Nat /\ v[i] < i
  <2>1. i \in Nat /\ w[i] \in Nat /\ w[i] < i
    BY <1>2 DEF WalType
  <2>2. v[i] = IF i > n THEN Max({w[i], n}) ELSE w[i]
    BY Zenon, <1>2 DEF Written
  <2> QED BY <1>0, <1>2, <2>1, <2>2, MaxPair
<1> HIDE DEF v
<1> QED BY <1>0, <1>1, <1>2 DEF WalType, v

\* The steps that write to disk.
DiskMoves ==
  \/ UNCHANGED diskVars
  \/ SaveSnapFile \/ WriteSnapFile \/ SaveSnapRecord \/ SaveEntry \/ SaveHardState
  \/ DropAll \/ Load \/ ApplyEntry
  \/ \E s \in Snappers : CreateSnapshot(s) \/ CreateFile(s) \/ CreateRecord(s) \/ InstallSnapshot(s)

\* Every step is one of these, or leaves the disk alone.
LEMMA DiskMoving ==
  ASSUME [Next]_vars
  PROVE  DiskMoves
<1>1. CASE UNCHANGED vars
  BY Zenon, <1>1 DEF vars, DiskMoves
<1>2. CASE Start \/ RaftPanic \/ ReadyEntries \/ ReadySnapshot \/ SaveMemory \/ AppendPanic \/ Send
           \/ ApplyDone \/ Advance \/ Crash \/ StorageError
  BY Zenon, <1>2 DEF DiskMoves, Start, RaftPanic, ReadyEntries, ReadySnapshot, SaveMemory, AppendPanic,
     Send, ApplyDone, Advance, Crash, StorageError
<1>3. ASSUME NEW s \in Snappers,
             ReadConfState(s) \/ ReadSnapshotIndex(s) \/ ReadApplied(s) \/ Backup(s) \/ CreateError(s)
      PROVE  DiskMoves
  BY Zenon, <1>3 DEF DiskMoves, ReadConfState, ReadSnapshotIndex, ReadApplied, Backup, CreateError
<1> QED BY Zenon, <1>1, <1>2, <1>3 DEF Next, LoopStep, SnapperStep, DiskMoves

\* The files after SaveSnap has truncated or written one.
LEMMA FilesMove ==
  ASSUME DiskTypes, NEW i \in Index
  PROVE  /\ Truncate(i) => /\ DOMAIN files' = DOMAIN files \ {i}
                           /\ \A j \in DOMAIN files' : files'[j] = files[j]
         /\ \A x : SaveFile(i, x) => /\ DOMAIN files' = DOMAIN files \cup {i} /\ files'[i] = x
                                     /\ \A j \in DOMAIN files : j # i => files'[j] = files[j]
BY Zenon DEF Truncate, SaveFile, Restrict

\* What is on disk stays well formed; index 0 always stands for the empty state.
LEMMA DiskTypesStep ==
  ASSUME IInv, [Next]_vars
  PROVE  DiskTypes'
<1>0. DiskTypes /\ NodeTypes /\ SnTypes /\ MaxIndex \in Nat
  BY Zenon, Constants DEF IInv, TypeInv
<1>1. CASE UNCHANGED diskVars
  BY Zenon, <1>0, <1>1 DEF DiskTypes, diskVars
<1>2. CASE SaveSnapFile
  <2>1. CASE rd.snap = 0
    BY Zenon, <1>0, <1>2, <2>1 DEF SaveSnapFile, DiskTypes
  <2>2. CASE rd.snap # 0
    <3>1. /\ rd.snap \in Index /\ Truncate(rd.snap)
          /\ UNCHANGED <<records, wal, hard, released, db>>
      BY Zenon, <1>0, <1>2, <2>2, RdFields DEF SaveSnapFile, Busy
    <3>2. DOMAIN files' = DOMAIN files \ {rd.snap} /\ \A j \in DOMAIN files' : files'[j] = files[j]
      BY Zenon, <1>0, <3>1, FilesMove
    <3> QED BY Zenon, <1>0, <2>2, <3>1, <3>2 DEF DiskTypes
  <2> QED BY Zenon, <2>1, <2>2
<1>3. CASE WriteSnapFile
  <2>1. /\ rd.snap \in Index /\ rd.file \in Snapshots /\ SaveFile(rd.snap, rd.file)
        /\ UNCHANGED <<records, wal, hard, released, db>>
    BY Zenon, <1>0, <1>3, RdFields DEF WriteSnapFile, Busy, IInv, ReadyInv
  <2>2. /\ DOMAIN files' = DOMAIN files \cup {rd.snap} /\ files'[rd.snap] = rd.file
        /\ \A j \in DOMAIN files : j # rd.snap => files'[j] = files[j]
    BY Zenon, <1>0, <2>1, FilesMove
  <2> QED BY Zenon, <1>0, <2>1, <2>2 DEF DiskTypes
<1>4. CASE SaveSnapRecord
  BY Zenon, <1>0, <1>4, RdFields DEF SaveSnapRecord, Busy, DiskTypes
<1>5. CASE SaveEntry
  <2>1. /\ wal' = Written(wal, rd.next) /\ UNCHANGED <<files, records, hard, released, db>>
    BY Zenon, <1>5 DEF SaveEntry, Written
  <2>2. rd.next \in 1..MaxIndex
    <3>1. /\ pc = "entries" /\ rd.next <= rd.last /\ rd.next \in Nat /\ rd.last \in Index /\ hard \in Nat
          /\ rd.from \in Nat
      BY <1>0, <1>5, RdFields DEF SaveEntry, Busy, DiskTypes, Index
    <3>2. rd.snap # 0 => rd.next = rd.last + 1
      BY Zenon, <1>0, <3>1 DEF IInv, ReadyInv, Busy
    <3>3. rd.snap = 0 => hard < rd.from /\ rd.from <= rd.next
      BY Zenon, <3>1 DEF IInv, ReadyInv, WalInv, BeforeHard
    <3> QED BY <1>0, <3>1, <3>2, <3>3 DEF Index
  <2>3. WalType(wal')
    BY Zenon, <1>0, <2>1, <2>2, WrittenType DEF DiskTypes
  <2> QED BY Zenon, <1>0, <2>1, <2>3 DEF DiskTypes
<1>6. CASE SaveHardState
  <2>1. /\ rd.commit \in Index /\ rd.snap \in Index /\ released \in Index
        /\ hard' = rd.commit /\ released' = Max({released, rd.snap})
        /\ UNCHANGED <<files, records, wal, db>>
    BY Zenon, <1>0, <1>6, RdFields DEF SaveHardState, Busy, DiskTypes
  <2>2. released \in Nat /\ rd.snap \in Nat
    BY <2>1, Constants DEF Index
  <2>3. released' \in Index
    BY Zenon, <2>1, <2>2, MaxPair
  <2> QED BY Zenon, <1>0, <2>1, <2>3 DEF DiskTypes
<1>7. CASE DropAll
  <2>1. db' \subseteq db /\ UNCHANGED <<files, records, wal, hard, released>>
    BY Zenon, <1>7 DEF DropAll
  <2> QED BY Zenon, <1>0, <2>1 DEF DiskTypes
<1>8. CASE Load
  <2>1. rd.file \in Snapshots /\ db' = db \cup rd.file.data /\ UNCHANGED <<files, records, wal, hard, released>>
    BY Zenon, <1>0, <1>8, RdFields DEF Load, Busy, IInv, ReadyInv
  <2>2. rd.file.data \subseteq 1..MaxIndex
    BY Zenon, <2>1 DEF Snapshots
  <2> QED BY Zenon, <1>0, <2>1, <2>2 DEF DiskTypes
<1>9. CASE ApplyEntry
  <2>1. /\ rd.lo \in Nat /\ rd.lo <= rd.hi /\ rd.hi \in Index /\ applied < rd.lo /\ applied \in Nat
        /\ UNCHANGED <<files, records, wal, hard, released>>
    BY <1>0, <1>9, RdFields DEF ApplyEntry, Busy, NodeTypes, IInv, ReadyInv, Index
  <2>2. db' \subseteq db \cup {rd.lo}
    BY Zenon, <1>9 DEF ApplyEntry
  <2>3. rd.lo \in 1..MaxIndex
    BY <1>0, <2>1 DEF Index
  <2> QED BY Zenon, <1>0, <2>1, <2>2, <2>3 DEF DiskTypes
<1>10. ASSUME NEW s \in Snappers, CreateSnapshot(s) PROVE DiskTypes'
  <2>1. CASE UNCHANGED files
    BY Zenon, <1>0, <1>10, <2>1 DEF CreateSnapshot, DiskTypes
  <2>2. CASE ~UNCHANGED files
    <3>1. /\ sn[s].pc = "create" /\ sn[s].index \in mem.snap..mem.last /\ Truncate(sn[s].index)
          /\ UNCHANGED <<records, wal, hard, released, db>>
      BY Zenon, <1>10, <2>2 DEF CreateSnapshot
    <3>2. sn[s].index \in Index /\ sn[s].index \in Nat /\ mem.snap \in Nat
      BY <1>0, <3>1, SnFields DEF Indexed, NodeTypes, Index
    <3>3. sn[s].index > 0
      BY <3>1, <3>2 DEF IInv, SnapperInv
    <3>4. DOMAIN files' = DOMAIN files \ {sn[s].index} /\ \A j \in DOMAIN files' : files'[j] = files[j]
      BY Zenon, <1>0, <3>1, <3>2, FilesMove
    <3>5. sn[s].index # 0
      BY <3>2, <3>3
    <3> QED BY Zenon, <1>0, <3>1, <3>4, <3>5 DEF DiskTypes
  <2> QED BY Zenon, <2>1, <2>2
<1>11. ASSUME NEW s \in Snappers, CreateFile(s) PROVE DiskTypes'
  <2>1. /\ sn[s].index \in Index /\ sn[s].snap \in Snapshots /\ SaveFile(sn[s].index, sn[s].snap)
        /\ UNCHANGED <<records, wal, hard, released, db>>
    BY Zenon, <1>0, <1>11, SnFields DEF CreateFile, Indexed
  <2>2. /\ DOMAIN files' = DOMAIN files \cup {sn[s].index} /\ files'[sn[s].index] = sn[s].snap
        /\ \A j \in DOMAIN files : j # sn[s].index => files'[j] = files[j]
    BY Zenon, <1>0, <2>1, FilesMove
  <2> QED BY Zenon, <1>0, <2>1, <2>2 DEF DiskTypes
<1>12. ASSUME NEW s \in Snappers, CreateRecord(s) PROVE DiskTypes'
  BY <1>0, <1>12, SnFields DEF CreateRecord, Indexed, DiskTypes
<1>13. ASSUME NEW s \in Snappers, InstallSnapshot(s) PROVE DiskTypes'
  <2>1. /\ sn[s].index \in Index /\ released \in Index /\ released' = Max({released, sn[s].index})
        /\ UNCHANGED <<files, records, wal, hard, db>>
    BY Zenon, <1>0, <1>13, SnFields DEF InstallSnapshot, Indexed, DiskTypes
  <2>2. released \in Nat /\ sn[s].index \in Nat
    BY <2>1, Constants DEF Index
  <2>3. released' \in Index
    BY Zenon, <2>1, <2>2, MaxPair
  <2> QED BY Zenon, <1>0, <2>1, <2>3 DEF DiskTypes
<1> QED BY Zenon, DiskMoving, <1>1, <1>2, <1>3, <1>4, <1>5, <1>6, <1>7, <1>8, <1>9, <1>10, <1>11, <1>12, <1>13
        DEF DiskMoves

\* memStorage.ApplySnapshot.
LEMMA SnapApplied ==
  ASSUME NodeTypes, NEW i \in Index, NEW m, m = ApplySnapshot(mem, i)
  PROVE  /\ m \in [snap : Index, last : Index] /\ m.snap <= m.last /\ mem.snap <= m.snap
         /\ i <= mem.snap => m = mem
         /\ i > mem.snap => m.snap = i /\ m.last = i
<1>1. /\ MaxIndex \in Nat /\ i \in Nat /\ mem \in [snap : Index, last : Index] /\ mem.snap <= mem.last
      /\ mem.snap \in Nat
  BY Constants DEF NodeTypes, Index
<1>2. CASE i > mem.snap
  BY <1>1, <1>2 DEF ApplySnapshot
<1>3. CASE ~(i > mem.snap)
  BY <1>1, <1>3 DEF ApplySnapshot
<1> QED BY Zenon, <1>2, <1>3

\* The steps that change what the process keeps in memory.
Quiet == UNCHANGED nodeVars /\ UNCHANGED <<wal, hard, released, db, acked, restoring, unloaded>>
NodeMoves ==
  \/ Quiet
  \/ LoopStep \/ Crash \/ StorageError
  \/ \E s \in Snappers : InstallSnapshot(s)

\* Every step is one of these, or leaves memory and most of the disk alone.
LEMMA NodeMoving ==
  ASSUME [Next]_vars
  PROVE  NodeMoves
<1>1. CASE UNCHANGED vars
  BY Zenon, <1>1 DEF vars, NodeMoves, Quiet, diskVars, pastVars
<1>2. ASSUME NEW s \in Snappers, SnapperStep(s) \/ CreateError(s)
      PROVE  NodeMoves
  BY Zenon, <1>2 DEF NodeMoves, SnapperStep, ReadConfState, ReadSnapshotIndex, ReadApplied, Backup,
     CreateSnapshot, CreateFile, CreateRecord, CreateError, Quiet, diskVars, pastVars
<1> QED BY Zenon, <1>1, <1>2 DEF Next, NodeMoves

\* The process ends, in three ways.
LEMMA Dying ==
  ASSUME Crash \/ RaftPanic \/ AppendPanic
  PROVE  Die /\ UNCHANGED <<diskVars, acked, restoring, unloaded>>
BY Zenon DEF Crash, RaftPanic, AppendPanic, pastVars

\* What the process keeps in memory stays well formed.
LEMMA NodeTypesStep ==
  ASSUME IInv, [Next]_vars
  PROVE  NodeTypes'
<1> DEFINE All == Busy \cup {"down", "select", "removed", "stopped"}
<1>0. DiskTypes /\ NodeTypes /\ SnTypes /\ MaxIndex \in Nat /\ 0 \in Index
  BY Constants DEF IInv, TypeInv, Index
<1>1. ASSUME UNCHANGED <<mem, raft, applied, conf>>, pc' \in All, pc' \in Busy => rd' \in Plain \cup Given
      PROVE  NodeTypes'
  BY Zenon, <1>0, <1>1 DEF NodeTypes
<1>2. CASE UNCHANGED nodeVars
  BY Zenon, <1>0, <1>2 DEF NodeTypes, nodeVars
<1>3. CASE Start
  <2>1. /\ mem' = [snap |-> Newest, last |-> LastReplayed] /\ raft' = [commit |-> hard, applied |-> Newest]
        /\ applied' = Newest /\ conf' = files[Newest].conf /\ pc' = "select"
    BY Zenon, <1>3 DEF Start
  <2>2. Newest \in Index /\ LastReplayed \in Index /\ Newest <= LastReplayed /\ hard \in Index
        /\ files[Newest] \in Snapshots
    BY Zenon, <1>0, NewestIs, ReplayIs DEF DiskTypes
  <2>3. files[Newest].conf \in Index
    BY Zenon, <2>2 DEF Snapshots
  <2> QED BY Zenon, <2>1, <2>2, <2>3 DEF NodeTypes, Busy
<1>4. CASE Crash \/ RaftPanic \/ AppendPanic
  <2>1. Die
    BY Zenon, <1>4, Dying
  <2> QED BY <1>0, <2>1 DEF Die, NodeTypes, Busy
<1>5. CASE StorageError
  BY Zenon, <1>1, <1>5 DEF StorageError, Stopped, Busy
<1>6. CASE ReadyEntries
  <2>1. PICK last \in mem.last..MaxIndex, commit \in raft.commit..MaxIndex, hi \in 0..MaxIndex :
          /\ rd' = [snap |-> 0, from |-> mem.last + 1, next |-> mem.last + 1,
                    last |-> last, commit |-> commit,
                    lo |-> raft.applied + 1, hi |-> hi, removed |-> FALSE]
          /\ raft' = [raft EXCEPT !.commit = commit]
    BY Zenon, <1>6 DEF ReadyEntries
  <2>2. mem.last \in Nat /\ raft \in [commit : Index, applied : Index] /\ raft.commit \in Nat
        /\ raft.applied \in Nat
    BY <1>0 DEF NodeTypes, Index
  <2>3. last \in Index /\ commit \in Index
    BY <1>0, <2>2 DEF Index
  <2>4. rd' \in Plain
    BY <2>1, <2>2, <2>3 DEF Plain, Index
  <2>5. raft' \in [commit : Index, applied : Index]
    BY Zenon, <2>1, <2>2, <2>3
  <2>6. pc' = "save" /\ UNCHANGED <<mem, applied, conf>>
    BY Zenon, <1>6 DEF ReadyEntries
  <2>7. pc' \in All
    BY Zenon, <2>6 DEF Busy
  <2> QED BY Zenon, <1>0, <2>4, <2>5, <2>6, <2>7 DEF NodeTypes
<1>7. CASE ReadySnapshot
  <2>1. PICK i \in Installs, d, c \in 1..MaxIndex :
          /\ rd' = [snap |-> i, file |-> Snap(DataAt(d), ConfAt(c)),
                    from |-> i + 1, next |-> i + 1, last |-> i, commit |-> i,
                    lo |-> i + 1, hi |-> i, removed |-> FALSE]
          /\ raft' = [raft EXCEPT !.commit = i]
    BY Zenon, <1>7 DEF ReadySnapshot
  <2>2. raft \in [commit : Index, applied : Index] /\ i \in 1..MaxIndex /\ i \in Index /\ i + 1 \in Nat
    BY <1>0, Constants DEF NodeTypes, Index
  <2>3. Snap(DataAt(d), ConfAt(c)) \in Snapshots
    <3>1. DataAt(d) \subseteq 1..MaxIndex /\ ConfAt(c) \in Index
      BY <1>0, ConfIndex DEF DataAt
    <3> QED BY Zenon, <3>1 DEF Snap, Snapshots
  <2>4. rd' \in Given
    BY Zenon, <2>1, <2>2, <2>3 DEF Given
  <2>5. raft' \in [commit : Index, applied : Index]
    BY Zenon, <2>1, <2>2
  <2>6. pc' = "save" /\ UNCHANGED <<mem, applied, conf>>
    BY Zenon, <1>7 DEF ReadySnapshot
  <2>7. pc' \in All
    BY Zenon, <2>6 DEF Busy
  <2> QED BY Zenon, <1>0, <2>4, <2>5, <2>6, <2>7 DEF NodeTypes
<1>8. CASE SaveSnapFile \/ WriteSnapFile \/ SaveSnapRecord \/ SaveHardState \/ Send
  <2>1. pc \in Busy /\ pc' \in Busy /\ UNCHANGED <<mem, raft, applied, conf, rd>>
    BY Zenon, <1>8 DEF SaveSnapFile, WriteSnapFile, SaveSnapRecord, SaveHardState, Send, Busy
  <2> QED BY Zenon, <1>0, <1>1, <2>1 DEF NodeTypes
<1>9. CASE SaveEntry
  <2>1. pc = "entries" /\ UNCHANGED <<mem, raft, applied, conf, pc>> /\ rd' = [rd EXCEPT !.next = @ + 1]
    BY Zenon, <1>9 DEF SaveEntry
  <2>2. pc \in Busy
    BY Zenon, <2>1 DEF Busy
  <2>3. rd' \in Plain \cup Given
    BY Zenon, <1>0, <2>1, <2>2, RdNext
  <2> QED BY Zenon, <1>1, <2>1, <2>2, <2>3
<1>10. CASE SaveMemory
  <2> DEFINE m == ApplySnapshot(mem, rd.snap)
  <2>1. pc = "memory" /\ pc' = "send" /\ UNCHANGED <<raft, applied, conf, rd>>
        /\ mem' = IF rd.last < rd.from THEN m ELSE [m EXCEPT !.last = rd.last]
    BY Zenon, <1>10 DEF SaveMemory
  <2>2. pc \in Busy /\ pc' \in Busy
    BY Zenon, <2>1 DEF Busy
  <2>3. rd.snap \in Index /\ rd.last \in Index /\ rd.last \in Nat /\ rd.from \in Nat /\ rd.snap \in Nat
    BY Zenon, <1>0, <2>2, RdFields
  <2>4. m \in [snap : Index, last : Index] /\ m.snap <= m.last
    BY Zenon, <1>0, <2>3, SnapApplied
  <2>5. ASSUME rd.last >= rd.from PROVE m.snap <= rd.last
    <3>1. rd.snap = 0
      BY <2>2, <2>3, <2>5 DEF IInv, ReadyInv
    <3>2. m = mem
      BY <1>0, <2>3, <3>1, SnapApplied DEF NodeTypes, Index
    <3>3. mem.last < rd.from
      BY Zenon, <2>1 DEF IInv, ReadyInv
    <3> QED BY <1>0, <2>3, <2>4, <2>5, <3>2, <3>3 DEF Index
  <2> HIDE DEF m
  <2>6. mem' \in [snap : Index, last : Index] /\ mem'.snap <= mem'.last
    BY <2>1, <2>3, <2>4, <2>5
  <2> QED BY Zenon, <1>0, <2>1, <2>2, <2>6 DEF NodeTypes
<1>11. CASE DropAll
  <2>1. /\ pc \in Busy /\ UNCHANGED <<mem, raft, applied, conf>>
        /\ pc' = "stopped" \/ (pc' = "load" /\ rd' = rd)
    BY Zenon, <1>11 DEF DropAll, Stopped, Busy
  <2>2. "stopped" \in All /\ "load" \in All /\ "stopped" \notin Busy
    BY Zenon DEF Busy
  <2> QED BY Zenon, <1>0, <1>1, <2>1, <2>2 DEF NodeTypes
<1>12. CASE Load
  <2>1. /\ pc = "load" /\ applied' = rd.snap /\ conf' = rd.file.conf /\ pc' = "apply"
        /\ UNCHANGED <<mem, raft, rd>>
    BY Zenon, <1>12 DEF Load
  <2>2. pc \in Busy /\ pc' \in Busy /\ rd.snap # 0
    BY Zenon, <2>1 DEF Busy, IInv, ReadyInv
  <2>3. rd.snap \in Index /\ rd.file \in Snapshots
    BY Zenon, <1>0, <2>2, RdFields
  <2>4. rd.file.conf \in Index
    BY Zenon, <2>3 DEF Snapshots
  <2> QED BY Zenon, <1>0, <2>1, <2>2, <2>3, <2>4 DEF NodeTypes
<1>13. CASE ApplyEntry
  <2>1. /\ pc = "apply" /\ rd.lo <= rd.hi /\ UNCHANGED <<mem, raft, applied>>
        /\ \/ pc' = "stopped" /\ conf' = conf
           \/ /\ pc' = pc /\ conf' \in {conf, rd.lo}
              /\ rd' = [rd EXCEPT !.lo = @ + 1,
                           !.removed = IF rd.lo \in ConfChanges THEN rd.lo = SelfRemoval ELSE @]
    BY Zenon, <1>13 DEF ApplyEntry, Stopped
  <2>2. pc \in Busy /\ "stopped" \in All /\ "stopped" \notin Busy
    BY Zenon, <2>1 DEF Busy
  <2>3. rd.lo \in Nat /\ rd.hi \in Index /\ rd.removed \in BOOLEAN
    BY Zenon, <1>0, <2>2, RdFields
  <2>4. rd.lo \in Index
    BY <1>0, <2>1, <2>3 DEF Index
  <2>5. CASE pc' = "stopped" /\ conf' = conf
    BY Zenon, <1>1, <2>1, <2>2, <2>5
  <2>6. CASE /\ pc' = pc /\ conf' \in {conf, rd.lo}
             /\ rd' = [rd EXCEPT !.lo = @ + 1,
                           !.removed = IF rd.lo \in ConfChanges THEN rd.lo = SelfRemoval ELSE @]
    <3> DEFINE b == IF rd.lo \in ConfChanges THEN rd.lo = SelfRemoval ELSE rd.removed
    <3>1. b \in BOOLEAN /\ rd' = [rd EXCEPT !.lo = @ + 1, !.removed = b]
      BY Zenon, <2>3, <2>6
    <3> HIDE DEF b
    <3>2. rd' \in Plain \cup Given
      BY Zenon, <1>0, <2>2, <3>1, RdLo
    <3>3. conf' \in Index
      BY Zenon, <1>0, <2>4, <2>6 DEF NodeTypes
    <3> QED BY Zenon, <1>0, <2>1, <2>6, <3>2, <3>3 DEF NodeTypes
  <2> QED BY Zenon, <2>1, <2>5, <2>6
<1>14. CASE ApplyDone
  <2>1. /\ pc = "apply" /\ applied' = rd.hi /\ pc' \in {"removed", "advance"} /\ UNCHANGED <<mem, raft, conf, rd>>
    BY Zenon, <1>14 DEF ApplyDone
  <2>2. pc \in Busy /\ pc' \in All
    BY Zenon, <2>1 DEF Busy
  <2>3. rd.hi \in Index
    BY Zenon, <1>0, <2>2, RdFields
  <2> QED BY Zenon, <1>0, <2>1, <2>2, <2>3 DEF NodeTypes
<1>15. CASE Advance
  <2>1. /\ pc = "advance" /\ raft' = [raft EXCEPT !.applied = rd.hi] /\ pc' = "select"
        /\ UNCHANGED <<mem, applied, conf>>
    BY Zenon, <1>15 DEF Advance
  <2>2. pc \in Busy /\ pc' \in All /\ pc' \notin Busy
    BY Zenon, <2>1 DEF Busy
  <2>3. rd.hi \in Index
    BY Zenon, <1>0, <2>2, RdFields
  <2>4. raft' \in [commit : Index, applied : Index]
    BY Zenon, <1>0, <2>1, <2>3 DEF NodeTypes
  <2> QED BY Zenon, <1>0, <2>1, <2>2, <2>4 DEF NodeTypes
<1>16. ASSUME NEW s \in Snappers, InstallSnapshot(s) PROVE NodeTypes'
  <2>1. /\ sn[s].pc = "install" /\ mem' = ApplySnapshot(mem, sn[s].index)
        /\ UNCHANGED <<raft, applied, conf, pc, rd>>
    BY Zenon, <1>16 DEF InstallSnapshot
  <2>2. sn[s].index \in Index
    BY Zenon, <1>0, <2>1, SnFields DEF Indexed
  <2>3. mem' \in [snap : Index, last : Index] /\ mem'.snap <= mem'.last
    BY Zenon, <1>0, <2>1, <2>2, SnapApplied
  <2> QED BY Zenon, <1>0, <2>1, <2>3 DEF NodeTypes
<1> QED BY Zenon, NodeMoving, <1>2, <1>3, <1>4, <1>5, <1>6, <1>7, <1>8, <1>9, <1>10, <1>11, <1>12, <1>13,
          <1>14, <1>15, <1>16 DEF NodeMoves, LoopStep, Quiet

\* What one step makes of goroutine q.
QRests(q)   == sn'[q] \in {Asleep, [pc |-> "start"]}
QConf(q)    == sn'[q] = [pc |-> "snap", conf |-> conf] /\ UNCHANGED <<diskVars, nodeVars, pastVars>>
QLooks(q)   == /\ sn[q].pc = "snap" /\ sn'[q] = [pc |-> "applied", conf |-> sn[q].conf, snap |-> mem.snap]
               /\ UNCHANGED <<diskVars, nodeVars, pastVars>>
QDecides(q) == /\ sn[q].pc = "applied" /\ ~(Minus(applied, sn[q].snap) < SnapshotCount)
               /\ sn'[q] = [pc |-> "backup", conf |-> sn[q].conf, index |-> applied]
               /\ UNCHANGED <<diskVars, nodeVars, pastVars>>
QBacks(q)   == /\ sn[q].pc = "backup"
               /\ sn'[q] = [pc |-> "create", index |-> sn[q].index, snap |-> Snap(db, sn[q].conf)]
               /\ UNCHANGED <<diskVars, nodeVars, pastVars>>
QCreates(q) == /\ sn[q].pc = "create" /\ ~LoopSaving /\ ~SnapperSaving
               /\ sn[q].index \in mem.snap..mem.last /\ Truncate(sn[q].index)
               /\ sn'[q] = [sn[q] EXCEPT !.pc = "file"]
               /\ UNCHANGED <<records, wal, hard, released, db, nodeVars, pastVars>>
QWrites(q)  == /\ sn[q].pc = "file" /\ SaveFile(sn[q].index, sn[q].snap)
               /\ sn'[q] = [pc |-> "record", index |-> sn[q].index]
               /\ UNCHANGED <<records, wal, hard, released, db, nodeVars, pastVars>>
QRecords(q) == /\ sn[q].pc = "record" /\ pc # "stopped" /\ records' = records \cup {sn[q].index}
               /\ sn'[q] = [pc |-> "install", index |-> sn[q].index]
               /\ UNCHANGED <<files, wal, hard, released, db, nodeVars, pastVars>>
QSteps(q)   == \/ QConf(q) \/ QLooks(q) \/ QDecides(q) \/ QBacks(q) \/ QCreates(q) \/ QWrites(q)
               \/ QRecords(q)
SnQuiet     == \A q \in Snappers : sn'[q] = sn[q] \/ QRests(q)
SnMoves     == SnQuiet \/ \E s \in Snappers : QSteps(s) /\ \A q \in Snappers : q # s => sn'[q] = sn[q]

\* Every step moves at most one goroutine on, and lets others rest.
LEMMA SnMoving ==
  ASSUME SnTypes, [Next]_vars
  PROVE  SnMoves /\ sn' = [q \in Snappers |-> sn'[q]]
<1>0. sn = [q \in Snappers |-> sn[q]] /\ \A q \in Snappers : sn[q] \in Snapper
  BY Zenon DEF SnTypes
<1>1. CASE sn' = sn
  BY Zenon, <1>0, <1>1 DEF SnMoves, SnQuiet
<1>2. CASE sn' = [s \in Snappers |-> Asleep]
  BY Zenon, <1>2 DEF SnMoves, SnQuiet, QRests
<1>3. ASSUME NEW s \in Snappers, NEW v, sn' = [sn EXCEPT ![s] = v]
      PROVE  /\ sn' = [q \in Snappers |-> sn'[q]] /\ sn'[s] = v
             /\ \A q \in Snappers : q # s => sn'[q] = sn[q]
  BY Zenon, <1>0, <1>3
<1>4. ASSUME NEW s \in Snappers, NEW v, sn' = [sn EXCEPT ![s] = v], v \in {Asleep, [pc |-> "start"]}
      PROVE  SnMoves /\ sn' = [q \in Snappers |-> sn'[q]]
  <2>1. /\ sn' = [q \in Snappers |-> sn'[q]] /\ sn'[s] = v
        /\ \A q \in Snappers : q # s => sn'[q] = sn[q]
    BY Zenon, <1>3, <1>4
  <2> QED BY Zenon, <1>4, <2>1 DEF SnMoves, SnQuiet, QRests
<1>5. ASSUME NEW s \in Snappers, NEW v, sn' = [sn EXCEPT ![s] = v], sn'[s] = v => QSteps(s)
      PROVE  SnMoves /\ sn' = [q \in Snappers |-> sn'[q]]
  <2>1. /\ sn' = [q \in Snappers |-> sn'[q]] /\ sn'[s] = v
        /\ \A q \in Snappers : q # s => sn'[q] = sn[q]
    BY Zenon, <1>3, <1>5
  <2> QED BY Zenon, <1>5, <2>1 DEF SnMoves
<1>6. CASE Crash \/ RaftPanic \/ AppendPanic
  BY Zenon, <1>2, <1>6, Dying DEF Die
<1>7. CASE Advance
  BY Zenon, <1>1, <1>4, <1>7 DEF Advance
<1>8. ASSUME NEW s \in Snappers, ReadConfState(s) PROVE SnMoves /\ sn' = [q \in Snappers |-> sn'[q]]
  BY Zenon, <1>5, <1>8 DEF ReadConfState, QSteps, QConf
<1>9. ASSUME NEW s \in Snappers, ReadSnapshotIndex(s) PROVE SnMoves /\ sn' = [q \in Snappers |-> sn'[q]]
  <2> DEFINE v == [pc |-> "applied", conf |-> sn[s].conf, snap |-> mem.snap]
  <2>1. sn' = [sn EXCEPT ![s] = v]
    BY Zenon, <1>9 DEF ReadSnapshotIndex
  <2>2. ASSUME sn'[s] = v PROVE QSteps(s)
    BY Zenon, <1>9, <2>2 DEF ReadSnapshotIndex, QSteps, QLooks
  <2> QED BY Zenon, <1>5, <2>1, <2>2
<1>10. ASSUME NEW s \in Snappers, ReadApplied(s) PROVE SnMoves /\ sn' = [q \in Snappers |-> sn'[q]]
  <2> DEFINE v == [pc |-> "backup", conf |-> sn[s].conf, index |-> applied]
             low == Minus(applied, sn[s].snap) < SnapshotCount
  <2>1. sn' = [sn EXCEPT ![s] = IF low THEN Asleep ELSE v]
    BY Zenon, <1>10 DEF ReadApplied
  <2>2. ASSUME sn'[s] = v, ~low PROVE QSteps(s)
    BY Zenon, <1>10, <2>2 DEF ReadApplied, QSteps, QDecides
  <2> HIDE DEF low, v
  <2>3. CASE low
    BY Zenon, <1>4, <2>1, <2>3
  <2>4. CASE ~low
    BY Zenon, <1>5, <2>1, <2>2, <2>4
  <2> QED BY Zenon, <2>3, <2>4
<1>11. ASSUME NEW s \in Snappers, Backup(s) PROVE SnMoves /\ sn' = [q \in Snappers |-> sn'[q]]
  <2> DEFINE v == [pc |-> "create", index |-> sn[s].index, snap |-> Snap(db, sn[s].conf)]
  <2>1. sn' = [sn EXCEPT ![s] = v]
    BY Zenon, <1>11 DEF Backup
  <2>2. ASSUME sn'[s] = v PROVE QSteps(s)
    BY Zenon, <1>11, <2>2 DEF Backup, QSteps, QBacks
  <2> QED BY Zenon, <1>5, <2>1, <2>2
<1>12. ASSUME NEW s \in Snappers, CreateSnapshot(s) PROVE SnMoves /\ sn' = [q \in Snappers |-> sn'[q]]
  <2> DEFINE v == [sn[s] EXCEPT !.pc = "file"]
             ok == sn[s].index \in mem.snap..mem.last
  <2>1. CASE ok
    <3>1. sn' = [sn EXCEPT ![s] = v] /\ Truncate(sn[s].index)
      BY Zenon, <1>12, <2>1 DEF CreateSnapshot
    <3>2. ASSUME sn'[s] = v PROVE QSteps(s)
      BY Zenon, <1>12, <2>1, <3>1, <3>2 DEF CreateSnapshot, QSteps, QCreates
    <3> QED BY Zenon, <1>5, <3>1, <3>2
  <2>2. CASE ~ok
    BY Zenon, <1>4, <1>12, <2>2 DEF CreateSnapshot
  <2> QED BY Zenon, <2>1, <2>2
<1>13. ASSUME NEW s \in Snappers, CreateFile(s) PROVE SnMoves /\ sn' = [q \in Snappers |-> sn'[q]]
  <2> DEFINE v == [pc |-> "record", index |-> sn[s].index]
  <2>1. sn' = [sn EXCEPT ![s] = v]
    BY Zenon, <1>13 DEF CreateFile
  <2>2. ASSUME sn'[s] = v PROVE QSteps(s)
    BY Zenon, <1>13, <2>2 DEF CreateFile, QSteps, QWrites
  <2> QED BY Zenon, <1>5, <2>1, <2>2
<1>14. ASSUME NEW s \in Snappers, CreateRecord(s) PROVE SnMoves /\ sn' = [q \in Snappers |-> sn'[q]]
  <2> DEFINE v == [pc |-> "install", index |-> sn[s].index]
  <2>1. CASE pc = "stopped"
    BY Zenon, <1>4, <1>14, <2>1 DEF CreateRecord
  <2>2. CASE pc # "stopped"
    <3>1. sn' = [sn EXCEPT ![s] = v] /\ records' = records \cup {sn[s].index}
      BY Zenon, <1>14, <2>2 DEF CreateRecord
    <3>2. ASSUME sn'[s] = v PROVE QSteps(s)
      BY Zenon, <1>14, <2>2, <3>1, <3>2 DEF CreateRecord, QSteps, QRecords
    <3> QED BY Zenon, <1>5, <3>1, <3>2
  <2> QED BY Zenon, <2>1, <2>2
<1>15. ASSUME NEW s \in Snappers, InstallSnapshot(s) \/ CreateError(s)
       PROVE  SnMoves /\ sn' = [q \in Snappers |-> sn'[q]]
  BY Zenon, <1>4, <1>15 DEF InstallSnapshot, CreateError
<1>16. CASE \/ Start \/ ReadyEntries \/ ReadySnapshot \/ SaveSnapFile \/ WriteSnapFile \/ SaveSnapRecord
            \/ SaveEntry \/ SaveHardState \/ SaveMemory \/ Send \/ DropAll \/ Load \/ ApplyEntry
            \/ ApplyDone \/ StorageError \/ UNCHANGED vars
  <2>1. sn' = sn
    BY Zenon, <1>16 DEF Start, ReadyEntries, ReadySnapshot, SaveSnapFile, WriteSnapFile, SaveSnapRecord,
       SaveEntry, SaveHardState, SaveMemory, Send, DropAll, Load, ApplyEntry, ApplyDone, StorageError, vars
  <2> QED BY Zenon, <1>1, <2>1
<1> QED BY Zenon, <1>6, <1>7, <1>8, <1>9, <1>10, <1>11, <1>12, <1>13, <1>14, <1>15, <1>16
        DEF Next, LoopStep, SnapperStep

\* The goroutines stay well formed.
LEMMA SnTypesStep ==
  ASSUME IInv, [Next]_vars
  PROVE  SnTypes'
<1>0. SnTypes /\ DiskTypes /\ NodeTypes
  BY Zenon DEF IInv, TypeInv
<1>1. SnMoves /\ sn' = [q \in Snappers |-> sn'[q]]
  BY Zenon, <1>0, SnMoving
<1>2. SUFFICES ASSUME NEW q \in Snappers PROVE sn'[q] \in Snapper
  BY Zenon, <1>1 DEF SnTypes
<1>3. sn[q] \in Snapper
  BY Zenon, <1>0 DEF SnTypes
<1>4. CASE QRests(q)
  BY <1>4 DEF QRests, Snapper, Asleep
<1>5. CASE QSteps(q)
  <2>1. /\ conf \in Index /\ mem.snap \in Index /\ applied \in Index /\ db \subseteq 1..MaxIndex
    BY Zenon, <1>0 DEF NodeTypes, DiskTypes
  <2>2. CASE QConf(q)
    BY <2>1, <2>2 DEF QConf, Snapper
  <2>3. CASE QLooks(q)
    <3>1. sn[q].conf \in Index
      BY Zenon, <1>0, <2>3, SnFields DEF QLooks
    <3> QED BY <2>1, <2>3, <3>1 DEF QLooks, Snapper
  <2>4. CASE QDecides(q)
    <3>1. sn[q].conf \in Index
      BY Zenon, <1>0, <2>4, SnFields DEF QDecides
    <3> QED BY <2>1, <2>4, <3>1 DEF QDecides, Snapper
  <2>5. CASE QBacks(q)
    <3>1. sn[q].conf \in Index /\ sn[q].index \in Index
      BY Zenon, <1>0, <2>5, SnFields DEF QBacks, Indexed
    <3>2. Snap(db, sn[q].conf) \in Snapshots
      BY Zenon, <2>1, <3>1 DEF Snap, Snapshots
    <3> QED BY <2>5, <3>1, <3>2 DEF QBacks, Snapper
  <2>6. CASE QCreates(q)
    <3>1. sn[q] \in [pc : {"create", "file"}, index : Index, snap : Snapshots]
      BY Zenon, <1>3, <2>6 DEF QCreates, Snapper
    <3>2. sn'[q] \in [pc : {"create", "file"}, index : Index, snap : Snapshots]
      BY Zenon, <2>6, <3>1 DEF QCreates
    <3> QED BY Zenon, <3>2 DEF Snapper
  <2>7. CASE QWrites(q)
    <3>1. sn[q].index \in Index
      BY Zenon, <1>0, <2>7, SnFields DEF QWrites, Indexed
    <3> QED BY <2>7, <3>1 DEF QWrites, Snapper
  <2>8. CASE QRecords(q)
    <3>1. sn[q].index \in Index
      BY Zenon, <1>0, <2>8, SnFields DEF QRecords, Indexed
    <3> QED BY <2>8, <3>1 DEF QRecords, Snapper
  <2> QED BY Zenon, <1>5, <2>2, <2>3, <2>4, <2>5, <2>6, <2>7, <2>8 DEF QSteps
<1> QED BY Zenon, <1>1, <1>3, <1>4, <1>5 DEF SnMoves, SnQuiet

\* So do the history variables.
LEMMA PastTypesStep ==
  ASSUME IInv, [Next]_vars
  PROVE  PastTypes'
<1>0. PastTypes /\ NodeTypes /\ MaxIndex \in Nat /\ MaxFaults \in Nat
  BY Zenon, Constants DEF IInv, TypeInv
<1>1. CASE UNCHANGED pastVars
  BY Zenon, <1>0, <1>1 DEF PastTypes, pastVars
<1>2. ASSUME UNCHANGED <<acked, restoring, unloaded>>, faults < MaxFaults, faults' = faults + 1
      PROVE  PastTypes'
  <2>1. faults' \in 0..MaxFaults
    BY <1>0, <1>2 DEF PastTypes
  <2> QED BY Zenon, <1>0, <1>2, <2>1 DEF PastTypes
<1>3. ASSUME NEW s \in Snappers, CreateError(s) PROVE PastTypes'
  BY Zenon, <1>2, <1>3 DEF CreateError
<1>4. CASE Crash \/ StorageError
  BY Zenon, <1>2, <1>4 DEF Crash, StorageError
<1>5. CASE Start
  BY Zenon, <1>0, <1>5 DEF Start, PastTypes
<1>6. CASE ReadyEntries
  <2>1. /\ acked' \in {acked, Min({acked, mem.last})} /\ UNCHANGED <<restoring, unloaded, faults>>
    BY Zenon, <1>6 DEF ReadyEntries
  <2>2. acked \in Index /\ mem.last \in Index
    BY Zenon, <1>0 DEF PastTypes, NodeTypes
  <2>3. acked' \in Index
    BY <2>1, <2>2, MinPair DEF Index
  <2> QED BY Zenon, <1>0, <2>1, <2>3 DEF PastTypes
<1>7. CASE Send
  <2>1. acked' = Max({acked, rd.last}) /\ UNCHANGED <<restoring, unloaded, faults>> /\ pc \in Busy
    BY Zenon, <1>7 DEF Send, Busy
  <2>2. acked \in Index /\ rd.last \in Index
    BY Zenon, <1>0, <2>1, RdFields DEF PastTypes
  <2>3. acked' \in Index
    BY <2>1, <2>2, MaxPair DEF Index
  <2> QED BY Zenon, <1>0, <2>1, <2>3 DEF PastTypes
<1>8. CASE SaveSnapRecord
  <2>1. restoring' = restoring \cup {rd.snap} /\ UNCHANGED <<acked, unloaded, faults>> /\ pc \in Busy
    BY Zenon, <1>8 DEF SaveSnapRecord, Busy
  <2> QED BY Zenon, <1>0, <2>1, RdFields DEF PastTypes
<1>9. CASE DropAll
  BY Zenon, <1>0, <1>9 DEF DropAll, PastTypes
<1>10. CASE Load \/ ApplyDone
  <2>1. restoring' \subseteq restoring /\ unloaded' \in {unloaded, FALSE} /\ UNCHANGED <<acked, faults>>
    BY Zenon, <1>10 DEF Load, ApplyDone
  <2> QED BY Zenon, <1>0, <2>1 DEF PastTypes
<1>11. ASSUME NEW s \in Snappers, SnapperStep(s) PROVE PastTypes'
  BY Zenon, <1>1, <1>11 DEF SnapperStep, ReadConfState, ReadSnapshotIndex, ReadApplied, Backup, CreateSnapshot,
     CreateFile, CreateRecord, InstallSnapshot, pastVars
<1>12. CASE \/ RaftPanic \/ ReadySnapshot \/ SaveSnapFile \/ WriteSnapFile \/ SaveEntry
            \/ SaveHardState \/ SaveMemory \/ AppendPanic \/ ApplyEntry \/ Advance \/ UNCHANGED vars
  BY Zenon, <1>1, <1>12 DEF RaftPanic, ReadySnapshot, SaveSnapFile, WriteSnapFile, SaveEntry,
     SaveHardState, SaveMemory, AppendPanic, ApplyEntry, Advance, vars
<1> QED BY Zenon, <1>3, <1>4, <1>5, <1>6, <1>7, <1>8, <1>9, <1>10, <1>11, <1>12 DEF Next, LoopStep

\* A goroutine is inside s.mu only if it was, or enters it with this step.
LEMMA SavingMoves ==
  ASSUME SnTypes, [Next]_vars, NEW q \in Snappers, Saving(q)'
  PROVE  Saving(q) \/ QCreates(q)
<1>1. SnMoves
  BY Zenon, SnMoving
<1>2. sn'[q] = sn[q] \/ QRests(q) => Saving(q)
  BY DEF Saving, QRests, Asleep
<1>3. QSteps(q) /\ ~QCreates(q) => Saving(q)
  BY DEF Saving, QSteps, QConf, QLooks, QDecides, QBacks, QWrites, QRecords
<1> QED BY Zenon, <1>1, <1>2, <1>3 DEF SnMoves, SnQuiet

\* s.mu excludes: SaveState and CreateSnapshot enter only when nobody is inside.
LEMMA MutexStep ==
  ASSUME IInv, [Next]_vars
  PROVE  Mutex'
<1>0. SnTypes /\ Mutex
  BY Zenon DEF IInv, TypeInv
<1>1. SnMoves
  BY Zenon, <1>0, SnMoving
<1>2. \A q \in Snappers : sn'[q] = sn[q] \/ QRests(q) => (Saving(q)' => Saving(q))
  BY DEF Saving, QRests, Asleep
<1>3. \A q \in Snappers : QSteps(q) /\ ~QCreates(q) => (Saving(q)' => Saving(q))
  BY DEF Saving, QSteps, QConf, QLooks, QDecides, QBacks, QWrites, QRecords
<1>4. ASSUME LoopSaving' PROVE LoopSaving \/ (~SnapperSaving /\ sn' = sn)
  <2>1. CASE UNCHANGED nodeVars
    BY Zenon, <1>4, <2>1 DEF nodeVars, LoopSaving
  <2>2. CASE SaveSnapFile
    BY Zenon, <2>2 DEF SaveSnapFile
  <2>3. ASSUME NEW s \in Snappers, InstallSnapshot(s) PROVE LoopSaving
    BY Zenon, <1>4, <2>3 DEF InstallSnapshot, LoopSaving
  <2>4. CASE Crash \/ RaftPanic \/ AppendPanic
    BY Zenon, <1>4, <2>4, Dying DEF Die, LoopSaving
  <2>5. CASE Start \/ ReadyEntries \/ ReadySnapshot \/ SaveMemory \/ Send \/ Load \/ ApplyDone \/ Advance
             \/ StorageError \/ DropAll \/ ApplyEntry
    BY Zenon, <1>4, <2>5 DEF LoopSaving, Start, ReadyEntries, ReadySnapshot, SaveMemory, Send, Load, ApplyDone,
       Advance, StorageError, Stopped, DropAll, ApplyEntry
  <2>6. CASE WriteSnapFile \/ SaveSnapRecord \/ SaveEntry \/ SaveHardState
    BY Zenon, <2>6 DEF LoopSaving, WriteSnapFile, SaveSnapRecord, SaveEntry, SaveHardState
  <2> QED BY Zenon, NodeMoving, <2>1, <2>2, <2>3, <2>4, <2>5, <2>6 DEF NodeMoves, LoopStep, Quiet
<1>5. CASE \A q \in Snappers : Saving(q)' => Saving(q)
  BY Zenon, <1>0, <1>4, <1>5 DEF Mutex, SnapperSaving
<1>6. ASSUME NEW s \in Snappers, QCreates(s), \A q \in Snappers : q # s => sn'[q] = sn[q]
      PROVE  Mutex'
  <2>1. ~LoopSaving /\ ~SnapperSaving /\ pc' = pc
    BY Zenon, <1>6 DEF QCreates, nodeVars
  <2>2. ~LoopSaving'
    BY Zenon, <2>1 DEF LoopSaving
  <2>3. \A q \in Snappers : Saving(q)' => q = s
    BY Zenon, <1>6, <2>1 DEF SnapperSaving, Saving
  <2> QED BY Zenon, <2>2, <2>3 DEF Mutex
<1> QED BY Zenon, <1>1, <1>2, <1>3, <1>5, <1>6 DEF SnMoves, SnQuiet

-----------------------------------------------------------------------------
(* The Ready and what is committed, applied and in memory. *)

\* The numbers the invariants compare.
LEMMA Numbers ==
  ASSUME DiskTypes, NodeTypes
  PROVE  /\ hard \in Nat /\ released \in Nat /\ applied \in Nat /\ mem.snap \in Nat /\ mem.last \in Nat
         /\ raft.commit \in Nat /\ raft.applied \in Nat /\ MaxIndex \in Nat
BY Constants DEF DiskTypes, NodeTypes, Index

\* memStorage only gives way to a snapshot of what is applied while SaveState is not
\* inside s.mu.
LEMMA InstallLow ==
  ASSUME IInv, NEW s \in Snappers, InstallSnapshot(s)
  PROVE  /\ sn[s].index \in Nat /\ sn[s].index <= applied /\ sn[s].index \in records /\ ~LoopSaving
         /\ mem' = mem \/ (mem'.snap = sn[s].index /\ mem'.last = sn[s].index)
         /\ mem'.snap \in Nat /\ mem'.last \in Nat /\ mem.snap <= mem'.snap
         /\ ~(pc \in Ahead /\ rd.snap # 0)
<1>1. sn[s].pc = "install" /\ mem' = ApplySnapshot(mem, sn[s].index) /\ Saving(s) /\ SnapperSaving
  BY Zenon DEF InstallSnapshot, Saving, SnapperSaving
<1>2. sn[s].index \in Index /\ sn[s].index \in Nat /\ sn[s].index <= applied /\ sn[s].index \in records
  BY Zenon, <1>1, SnFields DEF IInv, TypeInv, SnapperInv, Indexed
<1>3. mem.snap \in Nat /\ mem.last \in Nat /\ NodeTypes
  BY Zenon, Numbers DEF IInv, TypeInv
<1>4. mem' = mem \/ (mem'.snap = sn[s].index /\ mem'.last = sn[s].index)
  BY <1>1, <1>2, <1>3, SnapApplied
<1>5. mem'.snap \in Nat /\ mem'.last \in Nat
  BY Zenon, <1>2, <1>3, <1>4
<1>6. mem.snap <= mem'.snap
  BY Zenon, <1>1, <1>2, <1>3, SnapApplied
<1>7. ~LoopSaving /\ ~(pc \in Ahead /\ rd.snap # 0)
  BY Zenon, <1>1 DEF IInv, Mutex, OrderInv
<1> QED BY Zenon, <1>2, <1>4, <1>5, <1>6, <1>7

\* Nothing the Ready is compared with moves.
LEMMA ReadyQuiet ==
  ASSUME ReadyInv, UNCHANGED <<hard, mem, raft, applied, pc, rd>>
  PROVE  ReadyInv'
BY DEF ReadyInv

\* The Ready stays in step with raft, the hard state and memStorage.
LEMMA ReadyStep ==
  ASSUME IInv, [Next]_vars
  PROVE  ReadyInv'
<1> USE DEF BeforeHard, BeforeApply, Busy
<1>0. DiskTypes /\ NodeTypes /\ SnTypes /\ ReadyInv /\ OrderInv
  BY Zenon DEF IInv, TypeInv
<1>1. /\ hard \in Nat /\ applied \in Nat /\ mem.snap \in Nat /\ mem.last \in Nat
      /\ raft.commit \in Nat /\ raft.applied \in Nat /\ MaxIndex \in Nat /\ applied <= hard
  BY Zenon, <1>0, Numbers DEF OrderInv
<1>2. CASE Quiet
  <2>1. UNCHANGED <<hard, mem, raft, applied, pc, rd>>
    BY Zenon, <1>2 DEF nodeVars, Quiet
  <2> QED BY Zenon, <1>0, <2>1, ReadyQuiet
<1>3. CASE Start
  <2>1. pc' = "select" /\ raft' = [commit |-> hard, applied |-> Newest] /\ applied' = Newest /\ hard' = hard
    BY Zenon, <1>3 DEF Start, diskVars
  <2> QED BY <1>1, <2>1 DEF ReadyInv
<1>4. CASE pc' \in {"down"}
  BY Zenon, <1>4 DEF ReadyInv
<1>5. ASSUME pc \notin {"down"}, pc' \in {"stopped", "removed"}, UNCHANGED <<hard, raft>> PROVE ReadyInv'
  BY Zenon, <1>0, <1>5 DEF ReadyInv
<1>6. CASE ReadyEntries
  <2>1. /\ pc = "select" /\ raft.commit <= mem.last /\ pc' = "save" /\ UNCHANGED <<hard, mem, applied>>
    BY Zenon, <1>6 DEF ReadyEntries, diskVars
  <2>2. PICK last \in mem.last..MaxIndex, commit \in raft.commit..MaxIndex, hi \in 0..MaxIndex :
          /\ commit <= last /\ hi <= commit
          /\ IF commit > raft.applied THEN hi > raft.applied ELSE hi = raft.applied
          /\ rd' = [snap |-> 0, from |-> mem.last + 1, next |-> mem.last + 1,
                    last |-> last, commit |-> commit,
                    lo |-> raft.applied + 1, hi |-> hi, removed |-> FALSE]
          /\ raft' = [raft EXCEPT !.commit = commit]
    BY Zenon, <1>6 DEF ReadyEntries
  <2>3. raft'.commit = commit /\ raft'.applied = raft.applied
    BY Zenon, <1>0, <2>2 DEF NodeTypes
  <2>4. /\ rd'.snap = 0 /\ rd'.from = mem.last + 1 /\ rd'.last = last /\ rd'.commit = commit
        /\ rd'.lo = raft.applied + 1 /\ rd'.hi = hi
    BY Zenon, <2>2
  <2>5. hard <= raft.commit /\ raft.applied = applied
    BY Zenon, <1>0, <2>1 DEF ReadyInv
  <2>6. last \in Nat /\ commit \in Nat /\ hi \in Nat /\ raft.commit <= commit
    BY <1>1, <2>2
  <2>7. hi >= applied /\ hard < mem.last + 1 /\ hard <= commit /\ mem.last < mem.last + 1
    BY <1>1, <2>1, <2>2, <2>5, <2>6
  <2> QED BY Zenon, <2>1, <2>2, <2>3, <2>4, <2>5, <2>7 DEF ReadyInv
<1>7. CASE ReadySnapshot
  <2>1. /\ pc = "select" /\ raft.commit <= mem.last /\ pc' = "save" /\ UNCHANGED <<hard, mem, applied>>
    BY Zenon, <1>7 DEF ReadySnapshot, diskVars
  <2>2. PICK i \in Installs, d, c \in 1..MaxIndex :
          /\ i > mem.last /\ d >= i
          /\ rd' = [snap |-> i, file |-> Snap(DataAt(d), ConfAt(c)),
                    from |-> i + 1, next |-> i + 1, last |-> i, commit |-> i,
                    lo |-> i + 1, hi |-> i, removed |-> FALSE]
          /\ raft' = [raft EXCEPT !.commit = i]
    BY Zenon, <1>7 DEF ReadySnapshot
  <2>3. raft'.commit = i /\ raft'.applied = raft.applied
    BY Zenon, <1>0, <2>2 DEF NodeTypes
  <2>4. /\ rd'.snap = i /\ rd'.from = i + 1 /\ rd'.next = i + 1 /\ rd'.last = i /\ rd'.commit = i
        /\ rd'.lo = i + 1 /\ rd'.hi = i /\ rd'.file.data = DataAt(d)
    BY Zenon, <2>2 DEF Snap
  <2>5. hard <= raft.commit /\ raft.applied = applied
    BY Zenon, <1>0, <2>1 DEF ReadyInv
  <2>6. i \in Nat /\ i # 0 /\ d \in Nat
    BY <1>1, Constants
  <2>7. DataAt(i) \subseteq DataAt(d)
    BY Zenon, <2>2, <2>6, DataGrows
  <2>8. hard < i /\ applied < i /\ mem.last < i /\ mem.last < i + 1 /\ hard < i + 1 /\ hard <= i /\ applied <= i
    BY <1>1, <2>1, <2>2, <2>5, <2>6
  <2>9. i <= i
    BY <2>6
  <2> QED BY Zenon, <2>1, <2>3, <2>4, <2>5, <2>6, <2>7, <2>8, <2>9 DEF ReadyInv
<1>8. CASE SaveSnapFile \/ WriteSnapFile \/ SaveSnapRecord
  <2>1. /\ pc \in {"save", "file", "record"} /\ pc' \in {"file", "record", "entries"}
        /\ pc' = "file" => rd.snap # 0
        /\ pc = "save" => pc' # "record"
        /\ pc = "file" => pc' = "record"
        /\ pc = "record" => pc' = "entries"
        /\ UNCHANGED <<hard, mem, raft, applied, rd>>
    BY Zenon, <1>8 DEF SaveSnapFile, WriteSnapFile, SaveSnapRecord
  <2>2. pc' = "record" => rd.snap # 0
    BY Zenon, <1>0, <2>1 DEF ReadyInv
  <2> QED BY Zenon, <1>0, <2>1, <2>2 DEF ReadyInv
<1>9. CASE SaveEntry
  <2>1. pc = "entries" /\ UNCHANGED <<hard, mem, raft, applied, pc>> /\ rd' = [rd EXCEPT !.next = @ + 1]
        /\ rd.next <= rd.last
    BY Zenon, <1>9 DEF SaveEntry
  <2>2. /\ rd'.snap = rd.snap /\ rd'.from = rd.from /\ rd'.last = rd.last /\ rd'.commit = rd.commit
        /\ rd'.lo = rd.lo /\ rd'.hi = rd.hi
    BY Zenon, <1>0, <2>1, RdNext
  <2>3. rd.snap = 0
    BY <1>0, <2>1, RdFields DEF ReadyInv
  <2> QED BY Zenon, <1>0, <2>1, <2>2, <2>3 DEF ReadyInv
<1>10. CASE SaveHardState
  <2>1. pc = "entries" /\ pc' = "memory" /\ hard' = rd.commit /\ UNCHANGED <<mem, raft, applied, rd>>
    BY Zenon, <1>10 DEF SaveHardState
  <2>2. rd.commit <= raft.commit
    BY <1>0, <1>1, <2>1 DEF ReadyInv
  <2> QED BY Zenon, <1>0, <2>1, <2>2 DEF ReadyInv
<1>11. CASE SaveMemory \/ Send
  <2>1. /\ pc \in {"memory", "send"} /\ pc' \in {"send", "apply", "restore"}
        /\ pc = "memory" => pc' = "send"
        /\ pc = "send" => pc' = IF rd.snap = 0 THEN "apply" ELSE "restore"
        /\ UNCHANGED <<hard, raft, applied, rd>>
    BY Zenon, <1>11 DEF SaveMemory, Send, diskVars
  <2>2. rd.snap = 0 => applied < rd.lo /\ rd.lo <= rd.hi + 1
    <3>1. rd.lo \in Nat /\ rd.hi \in Nat
      BY Zenon, <1>0, <2>1, RdFields
    <3>2. rd.snap = 0 => rd.lo = applied + 1 /\ applied <= rd.hi
      BY Zenon, <1>0, <2>1 DEF ReadyInv
    <3> QED BY <1>1, <3>1, <3>2
  <2> QED BY Zenon, <1>0, <2>1, <2>2 DEF ReadyInv
<1>12. CASE DropAll
  <2>1. /\ pc = "restore" /\ UNCHANGED <<hard, raft, applied, mem>>
        /\ pc' = "stopped" \/ (pc' = "load" /\ rd' = rd)
    BY Zenon, <1>12 DEF DropAll, Stopped
  <2> QED BY Zenon, <1>0, <2>1 DEF ReadyInv
<1>13. CASE Load
  <2>1. pc = "load" /\ pc' = "apply" /\ applied' = rd.snap /\ UNCHANGED <<hard, mem, raft, rd>>
    BY Zenon, <1>13 DEF Load
  <2>2. rd.snap # 0 /\ rd.snap \in Nat
    BY Zenon, <1>0, <2>1, RdFields DEF ReadyInv
  <2>3. rd.snap < rd.snap + 1 /\ rd.snap <= rd.snap /\ rd.snap + 1 <= rd.snap + 1
    BY <2>2
  <2> QED BY Zenon, <1>0, <2>1, <2>2, <2>3 DEF ReadyInv
<1>14. CASE ApplyEntry
  <2>1. /\ pc = "apply" /\ rd.lo <= rd.hi /\ UNCHANGED <<hard, mem, raft, applied>>
        /\ \/ pc' = "stopped"
           \/ /\ pc' = pc
              /\ rd' = [rd EXCEPT !.lo = @ + 1,
                           !.removed = IF rd.lo \in ConfChanges THEN rd.lo = SelfRemoval ELSE @]
    BY Zenon, <1>14 DEF ApplyEntry, Stopped
  <2>2. CASE pc' = "stopped"
    BY Zenon, <1>5, <2>1, <2>2
  <2>3. CASE /\ pc' = pc
             /\ rd' = [rd EXCEPT !.lo = @ + 1,
                           !.removed = IF rd.lo \in ConfChanges THEN rd.lo = SelfRemoval ELSE @]
    <3> DEFINE b == IF rd.lo \in ConfChanges THEN rd.lo = SelfRemoval ELSE rd.removed
    <3>0. rd.lo \in Nat /\ rd.hi \in Nat /\ rd.removed \in BOOLEAN /\ rd.snap \in Nat /\ applied < rd.lo
      BY Zenon, <1>0, <2>1, RdFields DEF ReadyInv
    <3>1. b \in BOOLEAN /\ rd' = [rd EXCEPT !.lo = @ + 1, !.removed = b]
      BY Zenon, <2>3, <3>0
    <3> HIDE DEF b
    <3>2. /\ rd'.snap = rd.snap /\ rd'.lo = rd.lo + 1 /\ rd'.hi = rd.hi /\ rd'.commit = rd.commit
          /\ rd'.last = rd.last /\ rd'.from = rd.from
      BY Zenon, <1>0, <2>1, <3>1, RdLo
    <3>3. rd.snap = 0
      BY <1>0, <2>1, <3>0 DEF ReadyInv
    <3>4. applied < rd.lo + 1 /\ rd.lo + 1 <= rd.hi + 1
      BY <1>1, <2>1, <3>0
    <3> QED BY Zenon, <1>0, <2>1, <2>3, <3>2, <3>3, <3>4 DEF ReadyInv
  <2> QED BY Zenon, <2>1, <2>2, <2>3
<1>15. CASE ApplyDone
  <2>1. pc = "apply" /\ pc' \in {"removed", "advance"} /\ applied' = rd.hi /\ UNCHANGED <<hard, mem, raft, rd>>
    BY Zenon, <1>15 DEF ApplyDone, diskVars
  <2>2. rd.hi <= rd.hi
    BY <1>0, <2>1, RdFields
  <2> QED BY Zenon, <1>0, <2>1, <2>2 DEF ReadyInv
<1>16. CASE Advance
  <2>1. pc = "advance" /\ pc' = "select" /\ raft' = [raft EXCEPT !.applied = rd.hi] /\ UNCHANGED <<hard, applied>>
    BY Zenon, <1>16 DEF Advance, diskVars
  <2>2. raft'.commit = raft.commit /\ raft'.applied = rd.hi
    BY Zenon, <1>0, <2>1 DEF NodeTypes
  <2> QED BY Zenon, <1>0, <2>1, <2>2 DEF ReadyInv
<1>17. ASSUME NEW s \in Snappers, InstallSnapshot(s) PROVE ReadyInv'
  <2>1. UNCHANGED <<hard, raft, applied, pc, rd>>
    BY Zenon, <1>17 DEF InstallSnapshot
  <2>2. /\ mem' = mem \/ mem'.last = sn[s].index
        /\ sn[s].index <= applied /\ sn[s].index \in Nat /\ ~LoopSaving
    BY Zenon, <1>17, InstallLow
  <2>3. ASSUME pc = "save" PROVE mem'.last < rd.from /\ (rd.snap # 0 => mem'.last < rd.snap)
    <3>1. rd.from \in Nat /\ rd.snap \in Nat
      BY Zenon, <1>0, <2>3, RdFields
    <3>2. /\ mem.last < rd.from /\ (rd.snap # 0 => mem.last < rd.snap)
          /\ hard < rd.from /\ (rd.snap # 0 => hard < rd.snap)
      BY Zenon, <1>0, <2>3 DEF ReadyInv
    <3> QED BY <1>1, <2>2, <3>1, <3>2
  <2>4. pc \notin {"file", "record", "entries", "memory"}
    BY Zenon, <2>2 DEF LoopSaving
  <2> QED BY <1>0, <2>1, <2>3, <2>4 DEF ReadyInv
<1>18. CASE Crash \/ RaftPanic \/ AppendPanic
  BY Zenon, <1>4, <1>18, Dying DEF Die
<1>19. CASE StorageError
  BY Zenon, <1>5, <1>19 DEF StorageError, Stopped, diskVars
<1> QED BY Zenon, NodeMoving, <1>2, <1>3, <1>6, <1>7, <1>8, <1>9, <1>10, <1>11, <1>12, <1>13,
          <1>14, <1>15, <1>16, <1>17, <1>18, <1>19 DEF NodeMoves, LoopStep, Quiet
=============================================================================
