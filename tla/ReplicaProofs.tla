--------------------------- MODULE ReplicaProofs ---------------------------
(***************************************************************************)
(* Every step keeps the parts of the invariant of ReplicaSteps that are    *)
(* about the applied index and the background snapshots, and about the     *)
(* disk: the WAL, the database and the snapshot files.  So a restart finds *)
(* a log without a gap that loses nothing acknowledged, the database holds *)
(* what is applied, and the snapshot a restart begins with is complete.    *)
(***************************************************************************)
EXTENDS ReplicaSteps

\* A leaf that names no prover goes to the SMT solver, which has 30 seconds for it.
USE SMTT(30)

-----------------------------------------------------------------------------
(* What is applied, and the goroutines that take snapshots. *)

\* The hard state and the records only grow.  So do the applied index and memStorage's
\* snapshot, as long as the process lives.
LEMMA Grows ==
  ASSUME IInv, [Next]_vars
  PROVE  /\ hard <= hard' /\ records \subseteq records'
         /\ \/ \A s \in Snappers : sn'[s] = Asleep
            \/ applied <= applied' /\ mem.snap <= mem'.snap
<1>0. DiskTypes /\ NodeTypes /\ SnTypes /\ ReadyInv /\ OrderInv
  BY Zenon DEF IInv, TypeInv
<1>1. hard \in Nat /\ applied \in Nat /\ mem.snap \in Nat /\ mem.last \in Nat
  BY Zenon, <1>0, Numbers
<1>2. hard <= hard'
  <2>1. CASE SaveHardState
    BY Zenon, <1>0, <1>1, <2>1 DEF SaveHardState, ReadyInv, Busy
  <2>2. CASE UNCHANGED hard
    BY <1>1, <2>2
  <2> QED BY Zenon, DiskMoving, <2>1, <2>2 DEF DiskMoves, diskVars, SaveSnapFile, WriteSnapFile, SaveSnapRecord,
        SaveEntry, DropAll, Load, ApplyEntry, CreateSnapshot, CreateFile, CreateRecord, InstallSnapshot
<1>3. records \subseteq records'
  BY Zenon, DiskMoving DEF DiskMoves, diskVars, SaveSnapFile, WriteSnapFile, SaveSnapRecord, SaveHardState,
     SaveEntry, DropAll, Load, ApplyEntry, CreateSnapshot, CreateFile, CreateRecord, InstallSnapshot
<1>4. CASE UNCHANGED <<applied, mem>>
  BY <1>1, <1>2, <1>3, <1>4
<1>5. CASE Crash \/ RaftPanic \/ AppendPanic
  BY Zenon, <1>2, <1>3, <1>5, Dying DEF Die
<1>6. CASE Start
  <2>1. pc = "down" /\ applied' = Newest /\ mem' = [snap |-> Newest, last |-> LastReplayed]
    BY Zenon, <1>6 DEF Start
  <2>2. Newest \in Nat /\ applied = 0 /\ mem.snap = 0
    BY Zenon, <1>0, <2>1, NewestIs DEF OrderInv
  <2> QED BY <1>2, <1>3, <2>1, <2>2
<1>7. CASE SaveMemory
  <2> DEFINE m == ApplySnapshot(mem, rd.snap)
  <2>1. pc = "memory" /\ applied' = applied
        /\ mem' = IF rd.last < rd.from THEN m ELSE [m EXCEPT !.last = rd.last]
    BY Zenon, <1>7 DEF SaveMemory
  <2>2. rd.snap \in Index
    BY Zenon, <1>0, <2>1, RdFields DEF Busy
  <2>3. m \in [snap : Index, last : Index] /\ mem.snap <= m.snap
    BY Zenon, <1>0, <2>2, SnapApplied
  <2> HIDE DEF m
  <2>4. mem'.snap = m.snap
    BY Zenon, <2>1, <2>3
  <2> QED BY <1>1, <1>2, <1>3, <2>1, <2>3, <2>4
<1>8. CASE Load
  <2>1. pc = "load" /\ applied' = rd.snap /\ mem' = mem
    BY Zenon, <1>8 DEF Load
  <2>2. rd.snap \in Nat /\ applied < rd.snap
    BY Zenon, <1>0, <2>1, RdFields DEF Busy, ReadyInv, BeforeApply
  <2> QED BY <1>1, <1>2, <1>3, <2>1, <2>2
<1>9. CASE ApplyDone
  <2>1. pc = "apply" /\ applied' = rd.hi /\ mem' = mem
    BY Zenon, <1>9 DEF ApplyDone
  <2>2. applied <= rd.hi
    BY Zenon, <1>0, <2>1 DEF Busy, ReadyInv
  <2> QED BY <1>1, <1>2, <1>3, <2>1, <2>2
<1>10. ASSUME NEW s \in Snappers, InstallSnapshot(s) PROVE applied <= applied' /\ mem.snap <= mem'.snap
  <2>1. applied' = applied /\ mem.snap <= mem'.snap
    BY Zenon, <1>10, InstallLow DEF InstallSnapshot
  <2> QED BY <1>1, <2>1
<1>11. CASE \/ UNCHANGED nodeVars \/ ReadyEntries \/ ReadySnapshot \/ SaveSnapFile \/ WriteSnapFile
            \/ SaveSnapRecord \/ SaveEntry \/ SaveHardState \/ Send \/ DropAll \/ ApplyEntry \/ Advance
            \/ StorageError
  BY Zenon, <1>4, <1>11 DEF nodeVars, ReadyEntries, ReadySnapshot, SaveSnapFile, WriteSnapFile, SaveSnapRecord,
     SaveEntry, SaveHardState, Send, DropAll, ApplyEntry, Advance, StorageError
<1> QED BY Zenon, NodeMoving, <1>2, <1>3, <1>5, <1>6, <1>7, <1>8, <1>9, <1>10, <1>11 DEF NodeMoves, LoopStep, Quiet

\* A snapshot is taken of an applied index, and a record written before it is installed.
LEMMA SnapperInvStep ==
  ASSUME IInv, [Next]_vars
  PROVE  SnapperInv'
<1>0. DiskTypes /\ NodeTypes /\ SnTypes /\ SnapperInv /\ DiskTypes' /\ NodeTypes' /\ SnTypes'
  BY Zenon, DiskTypesStep, NodeTypesStep, SnTypesStep DEF IInv, TypeInv
<1>1. /\ applied \in Nat /\ mem.snap \in Nat /\ mem.last \in Nat /\ applied' \in Nat /\ mem'.snap \in Nat
  BY <1>0, Numbers, Constants DEF NodeTypes, Index
<1> SUFFICES ASSUME NEW q \in Snappers
             PROVE  /\ sn'[q].pc \in Indexed => sn'[q].index <= applied'
                    /\ sn'[q].pc = "applied" => sn'[q].snap <= mem'.snap
                    /\ sn'[q].pc \in {"backup", "create"} => sn'[q].index > 0 \/ mem'.snap > 0
                    /\ sn'[q].pc \in {"file", "record", "install"} => sn'[q].index > 0
                    /\ sn'[q].pc = "install" => sn'[q].index \in records'
  BY Zenon DEF SnapperInv, Saving
<1>2. SnMoves
  BY Zenon, <1>0, SnMoving
<1>3. /\ sn[q].pc \in Indexed => sn[q].index <= applied
      /\ sn[q].pc = "applied" => sn[q].snap <= mem.snap
      /\ sn[q].pc \in {"backup", "create"} => sn[q].index > 0 \/ mem.snap > 0
      /\ sn[q].pc \in {"file", "record", "install"} => sn[q].index > 0
      /\ sn[q].pc = "install" => sn[q].index \in records
      /\ sn[q].pc \in Indexed => sn[q].index \in Nat
      /\ sn[q].pc = "applied" => sn[q].snap \in Nat
  BY Zenon, <1>0, SnFields DEF SnapperInv, Saving
<1>4. CASE QRests(q)
  BY <1>4 DEF QRests, Asleep, Indexed
<1>5. CASE sn'[q] = sn[q] /\ ~QRests(q)
  <2>1. applied <= applied' /\ mem.snap <= mem'.snap /\ records \subseteq records'
    BY Zenon, <1>5, Grows DEF QRests
  <2> QED BY <1>1, <1>3, <1>5, <2>1
<1>6. CASE QSteps(q)
  <2>1. CASE QConf(q)
    BY <2>1 DEF QConf, Indexed
  <2>2. CASE QLooks(q)
    <3>1. sn'[q].pc = "applied" /\ sn'[q].snap = mem.snap /\ mem' = mem
      BY <2>2 DEF QLooks, nodeVars
    <3> QED BY <1>1, <3>1 DEF Indexed
  <2>3. CASE QDecides(q)
    <3>1. sn[q].snap <= mem.snap /\ sn[q].snap \in Nat
      BY Zenon, <1>3, <2>3 DEF QDecides
    <3>2. ASSUME applied = 0, sn[q].snap = 0 PROVE FALSE
      <4>1. Minus(applied, sn[q].snap) = 0
        BY <3>2, Constants DEF Minus
      <4> QED BY <2>3, <4>1, Constants DEF QDecides
    <3>3. applied > 0 \/ mem.snap > 0
      BY <1>1, <3>1, <3>2
    <3> QED BY <1>1, <2>3, <3>3 DEF QDecides, nodeVars, Indexed
  <2>4. CASE QBacks(q)
    <3>1. /\ sn[q].pc = "backup" /\ sn'[q].pc = "create" /\ sn'[q].index = sn[q].index
          /\ applied' = applied /\ mem' = mem
      BY <2>4 DEF QBacks, nodeVars
    <3>2. sn[q].index <= applied /\ (sn[q].index > 0 \/ mem.snap > 0)
      BY Zenon, <1>3, <3>1 DEF Indexed
    <3> QED BY Zenon, <3>1, <3>2
  <2>5. CASE QCreates(q)
    <3>1. sn[q] \in [pc : {"create", "file"}, index : Index, snap : Snapshots]
      BY Zenon, <1>0, <2>5 DEF QCreates, SnTypes, Snapper
    <3>2. sn'[q].pc = "file" /\ sn'[q].index = sn[q].index
      BY Zenon, <2>5, <3>1 DEF QCreates
    <3>3. sn[q].index <= applied /\ sn[q].index > 0
      BY <1>1, <1>3, <2>5 DEF QCreates, Indexed
    <3>4. applied' = applied
      BY Zenon, <2>5 DEF QCreates, nodeVars
    <3> QED BY Zenon, <3>2, <3>3, <3>4
  <2>6. CASE QWrites(q)
    <3>1. /\ sn[q].pc = "file" /\ sn'[q].pc = "record" /\ sn'[q].index = sn[q].index
          /\ applied' = applied
      BY <2>6 DEF QWrites, nodeVars
    <3>2. sn[q].index <= applied /\ sn[q].index > 0
      BY Zenon, <1>3, <3>1 DEF Indexed
    <3> QED BY Zenon, <3>1, <3>2
  <2>7. CASE QRecords(q)
    <3>1. /\ sn[q].pc = "record" /\ sn'[q].pc = "install" /\ sn'[q].index = sn[q].index
          /\ applied' = applied /\ sn[q].index \in records'
      BY <2>7 DEF QRecords, nodeVars
    <3>2. sn[q].index <= applied /\ sn[q].index > 0
      BY Zenon, <1>3, <3>1 DEF Indexed
    <3> QED BY Zenon, <3>1, <3>2
  <2> QED BY Zenon, <1>6, <2>1, <2>2, <2>3, <2>4, <2>5, <2>6, <2>7 DEF QSteps
<1> QED BY Zenon, <1>2, <1>4, <1>5, <1>6 DEF SnMoves, SnQuiet

\* What is applied is committed; memStorage's snapshot is ahead of it only while a received
\* one is restored, and then no goroutine is inside CreateSnapshot.
LEMMA OrderStep ==
  ASSUME IInv, [Next]_vars
  PROVE  OrderInv'
<1> USE DEF Ahead
<1>0. DiskTypes /\ NodeTypes /\ SnTypes /\ ReadyInv /\ OrderInv /\ SnapperInv /\ Mutex
  BY Zenon DEF IInv, TypeInv
<1>1. /\ hard \in Nat /\ applied \in Nat /\ mem.snap \in Nat /\ mem.last \in Nat /\ mem.snap <= mem.last
  BY Zenon, <1>0, Numbers DEF NodeTypes
<1>2. hard <= hard' /\ hard' \in Nat
  BY Constants, Grows, DiskTypesStep DEF DiskTypes, Index
<1>3. CASE UNCHANGED nodeVars
  <2>1. ASSUME pc \in Ahead, rd.snap # 0, NEW q \in Snappers, Saving(q)' PROVE FALSE
    <3>1. QCreates(q)
      BY Zenon, <1>0, <2>1, SavingMoves DEF OrderInv, SnapperSaving
    <3>2. sn[q].pc = "create" /\ sn[q].index \in mem.snap..mem.last
      BY Zenon, <3>1 DEF QCreates
    <3>3. sn[q].index <= applied /\ sn[q].index \in Nat
      BY Zenon, <1>0, <3>2, SnFields DEF SnapperInv, Indexed
    <3>4. mem.snap = rd.snap /\ applied < rd.snap
      BY Zenon, <1>0, <2>1 DEF OrderInv, ReadyInv, BeforeApply
    <3> QED BY <1>1, <3>2, <3>3, <3>4
  <2>2. pc \in Ahead /\ rd.snap # 0 => ~SnapperSaving'
    BY Zenon, <2>1 DEF SnapperSaving
  <2>3. applied <= hard'
    BY <1>0, <1>1, <1>2 DEF OrderInv
  <2>4. UNCHANGED <<mem, applied, pc, rd>>
    BY Zenon, <1>3 DEF nodeVars
  <2> HIDE DEF Ahead
  <2> QED BY Zenon, <1>0, <2>2, <2>3, <2>4 DEF OrderInv
<1>4. CASE Start
  <2>1. pc' = "select" /\ applied' = Newest /\ mem' = [snap |-> Newest, last |-> LastReplayed]
    BY Zenon, <1>4 DEF Start
  <2>2. Newest \in Nat /\ Newest <= hard
    BY Zenon, <1>0, NewestIs
  <2> QED BY <1>1, <1>2, <2>1, <2>2 DEF OrderInv
<1>5. CASE Crash \/ RaftPanic \/ AppendPanic
  <2>1. pc' = "down" /\ applied' = 0 /\ mem' = [snap |-> 0, last |-> 0]
    BY Zenon, <1>5, Dying DEF Die
  <2> QED BY <1>2, <2>1 DEF OrderInv
<1>6. CASE StorageError
  <2>1. pc' = "stopped" /\ applied' = applied
    BY Zenon, <1>6 DEF StorageError, Stopped
  <2> QED BY <1>0, <1>1, <1>2, <2>1 DEF OrderInv
<1>7. CASE \/ ReadyEntries \/ ReadySnapshot \/ SaveSnapFile \/ WriteSnapFile \/ SaveSnapRecord \/ SaveEntry
           \/ SaveHardState
  <2>1. /\ pc \in {"select", "save", "file", "record", "entries"}
        /\ pc' \in {"save", "file", "record", "entries", "memory"} /\ UNCHANGED <<mem, applied>>
    BY Zenon, <1>7 DEF ReadyEntries, ReadySnapshot, SaveSnapFile, WriteSnapFile, SaveSnapRecord, SaveEntry, SaveHardState
  <2> QED BY <1>0, <1>1, <1>2, <2>1 DEF OrderInv
<1>8. CASE SaveMemory
  <2> DEFINE m == ApplySnapshot(mem, rd.snap)
  <2>1. /\ pc = "memory" /\ pc' = "send" /\ UNCHANGED <<applied, rd, sn>>
        /\ mem' = IF rd.last < rd.from THEN m ELSE [m EXCEPT !.last = rd.last]
    BY Zenon, <1>8 DEF SaveMemory
  <2>2. rd.snap \in Index /\ rd.snap \in Nat
    BY Zenon, <1>0, <2>1, RdFields DEF Busy
  <2>3. /\ m \in [snap : Index, last : Index]
        /\ rd.snap <= mem.snap => m = mem
        /\ rd.snap > mem.snap => m.snap = rd.snap
    BY Zenon, <1>0, <2>2, SnapApplied
  <2> HIDE DEF m
  <2>4. mem'.snap = m.snap
    BY Zenon, <2>1, <2>3
  <2>5. ~SnapperSaving'
    BY Zenon, <1>0, <2>1 DEF Mutex, LoopSaving, SnapperSaving, Saving
  <2>6. rd.snap # 0 => mem.last < rd.snap
    BY Zenon, <1>0, <2>1 DEF ReadyInv
  <2>7. rd.snap # 0 => mem'.snap = rd.snap
    BY <1>1, <2>2, <2>3, <2>4, <2>6
  <2>8. rd.snap = 0 => mem'.snap <= applied
    BY <1>0, <1>1, <2>1, <2>2, <2>3, <2>4 DEF OrderInv
  <2> QED BY <1>0, <1>1, <1>2, <2>1, <2>5, <2>7, <2>8 DEF OrderInv
<1>9. CASE Send
  <2>1. pc = "send" /\ pc' = (IF rd.snap = 0 THEN "apply" ELSE "restore") /\ UNCHANGED <<mem, applied, rd, sn>>
    BY Zenon, <1>9 DEF Send
  <2> QED BY <1>0, <1>1, <1>2, <2>1 DEF OrderInv, SnapperSaving, Saving
<1>10. CASE DropAll
  <2>1. /\ pc = "restore" /\ UNCHANGED <<mem, applied, sn>>
        /\ pc' = "stopped" \/ (pc' = "load" /\ rd' = rd)
    BY Zenon, <1>10 DEF DropAll, Stopped
  <2> QED BY <1>0, <1>1, <1>2, <2>1 DEF OrderInv, SnapperSaving, Saving
<1>11. CASE Load
  <2>1. pc = "load" /\ pc' = "apply" /\ applied' = rd.snap /\ mem' = mem
    BY Zenon, <1>11 DEF Load
  <2>2. rd.snap # 0 /\ rd.snap \in Nat /\ hard = rd.snap
    BY Zenon, <1>0, <2>1, RdFields DEF ReadyInv, Busy, BeforeHard
  <2> QED BY <1>0, <1>1, <1>2, <2>1, <2>2 DEF OrderInv
<1>12. CASE ApplyEntry
  <2>1. /\ pc = "apply" /\ UNCHANGED <<mem, applied>> /\ pc' \in {"stopped", "apply"}
    BY Zenon, <1>12 DEF ApplyEntry, Stopped
  <2> QED BY <1>0, <1>1, <1>2, <2>1 DEF OrderInv
<1>13. CASE ApplyDone
  <2>1. pc = "apply" /\ pc' \in {"removed", "advance"} /\ applied' = rd.hi /\ mem' = mem
    BY Zenon, <1>13 DEF ApplyDone
  <2>2. rd.hi \in Nat /\ rd.hi <= hard /\ applied <= rd.hi
    BY Zenon, <1>0, <2>1, RdFields DEF ReadyInv, Busy, BeforeHard
  <2> QED BY <1>0, <1>1, <1>2, <2>1, <2>2 DEF OrderInv
<1>14. CASE Advance
  <2>1. pc = "advance" /\ pc' = "select" /\ UNCHANGED <<mem, applied>>
    BY Zenon, <1>14 DEF Advance
  <2> QED BY <1>0, <1>1, <1>2, <2>1 DEF OrderInv
<1>15. ASSUME NEW s \in Snappers, InstallSnapshot(s) PROVE OrderInv'
  <2>1. UNCHANGED <<applied, pc, rd>>
    BY Zenon, <1>15 DEF InstallSnapshot
  <2>2. /\ mem' = mem \/ mem'.snap = sn[s].index
        /\ sn[s].index <= applied /\ sn[s].index \in Nat /\ ~(pc \in Ahead /\ rd.snap # 0)
    BY Zenon, <1>15, InstallLow
  <2>3. applied <= hard'
    BY <1>0, <1>1, <1>2 DEF OrderInv
  <2> QED BY <1>0, <1>1, <2>1, <2>2, <2>3 DEF OrderInv
<1> QED BY Zenon, NodeMoving, <1>3, <1>4, <1>5, <1>6, <1>7, <1>8, <1>9, <1>10, <1>11, <1>12, <1>13, <1>14, <1>15
        DEF NodeMoves, LoopStep, Quiet

-----------------------------------------------------------------------------
(* The WAL. *)

\* The record a restart begins with only moves up, to any record the hard state covers.
LEMMA CoveredMoves ==
  ASSUME IInv, [Next]_vars
  PROVE  /\ Covered \in Nat /\ Covered <= hard /\ Covered' \in Nat /\ Covered <= Covered'
         /\ Covered' \in records' /\ Covered' <= hard'
         /\ \A i \in records' : i <= hard' => i <= Covered'
         /\ records' = records /\ hard' = hard => Covered' = Covered
<1>1. DiskTypes /\ DiskTypes'
  BY Zenon, DiskTypesStep DEF IInv, TypeInv
<1>2. Covered \in records /\ Covered \in Nat /\ Covered <= hard
  BY Zenon, <1>1, CoveredIs
<1>3. /\ Covered' \in records' /\ Covered' \in Nat /\ Covered' <= hard'
      /\ \A i \in records' : i <= hard' => i <= Covered'
  BY Zenon, <1>1, CoveredByIs DEF DiskTypes, Covered
<1>4. hard <= hard' /\ records \subseteq records' /\ hard \in Nat /\ hard' \in Nat
  BY <1>1, Grows, Constants DEF DiskTypes, Index
<1>5. Covered <= hard' /\ Covered \in records'
  BY <1>2, <1>4
<1>6. records' = records /\ hard' = hard => Covered' = Covered
  BY Zenon DEF Covered
<1> QED BY Zenon, <1>2, <1>3, <1>5, <1>6

\* Without a write to the WAL, all that is read stays so.
LEMMA WalKept ==
  ASSUME IInv, [Next]_vars, wal' = wal
  PROVE  /\ Gapless(wal', Covered') /\ released <= Covered'
         /\ \A n \in Int : Replays(n) => Reads(wal', Covered', n)
         /\ \A n \in Int : n <= Covered' => Reads(wal', Covered', n)
<1>1. WalType(wal) /\ Gapless(wal, Covered) /\ released <= Covered /\ released \in Nat
  BY Constants DEF IInv, TypeInv, DiskTypes, WalInv, Index
<1>2. Covered \in Nat /\ Covered' \in Nat /\ Covered <= Covered'
  BY Zenon, CoveredMoves
<1>3. Gapless(wal, Covered') /\ \A n \in Int : Replays(n) => Reads(wal, Covered', n)
  BY Zenon, <1>1, <1>2, ReadsMore DEF Replays
<1>4. released <= Covered'
  BY <1>1, <1>2
<1>5. \A n \in Int : n <= Covered' => Reads(wal, Covered', n)
  BY Zenon DEF Reads
<1> QED BY Zenon, <1>3, <1>4, <1>5

\* A restart would find the log without a gap, up to the hard state, to what is acknowledged
\* and to what memStorage has.
LEMMA WalStep ==
  ASSUME IInv, [Next]_vars
  PROVE  WalInv'
<1> USE DEF BeforeHard
<1> DEFINE Now(n) == Reads(wal', Covered', n)
<1>0. DiskTypes /\ NodeTypes /\ SnTypes /\ PastTypes /\ ReadyInv /\ OrderInv /\ WalInv /\ FilesInv
  BY Zenon DEF IInv, TypeInv
<1>1. /\ hard \in Nat /\ hard' \in Nat /\ released \in Nat /\ applied \in Nat /\ mem.last \in Nat /\ mem'.last \in Nat
      /\ acked \in Nat /\ Covered \in Nat /\ Covered' \in Nat /\ MaxIndex \in Nat
  BY <1>0, Numbers, Constants, DiskTypesStep, NodeTypesStep, CoveredMoves DEF DiskTypes, NodeTypes, PastTypes, Index
<1>2. /\ Gapless(wal, Covered) /\ Replays(hard) /\ Replays(acked) /\ Replays(mem.last) /\ WalType(wal)
      /\ pc \in BeforeHard /\ rd.snap = 0 =>
           /\ rd.from <= rd.next /\ rd.next <= rd.last + 1 /\ Replays(rd.next - 1)
           /\ rd.next <= rd.last => acked < rd.next
      /\ pc \in {"memory", "send"} => Replays(rd.last)
  BY Zenon, <1>0 DEF WalInv, DiskTypes
<1> DEFINE Good ==
      /\ Gapless(wal', Covered') /\ released' <= Covered'
      /\ Now(hard') /\ Now(acked') /\ Now(mem'.last)
      /\ pc' \in BeforeHard /\ rd'.snap = 0 =>
           /\ rd'.from <= rd'.next /\ rd'.next <= rd'.last + 1 /\ Now(rd'.next - 1)
           /\ rd'.next <= rd'.last => acked' < rd'.next
      /\ pc' \in {"memory", "send"} => Now(rd'.last)
<1>3. SUFFICES Good
  BY Zenon DEF WalInv, Replays
<1>4. ASSUME wal' = wal
      PROVE  /\ Gapless(wal', Covered') /\ released <= Covered' /\ Now(hard) /\ Now(acked) /\ Now(mem.last)
             /\ \A n \in Int : Replays(n) => Now(n)
             /\ \A n \in Int : n <= Covered' => Now(n)
  <2>1. /\ Gapless(wal', Covered') /\ released <= Covered'
        /\ \A n \in Int : Replays(n) => Now(n)
        /\ \A n \in Int : n <= Covered' => Now(n)
    BY Zenon, <1>4, WalKept
  <2> HIDE DEF Now
  <2> QED BY <1>1, <1>2, <2>1
<1>5. ASSUME pc \in BeforeHard, wal' = wal, rd.snap = 0
      PROVE  /\ rd.from <= rd.next /\ rd.next <= rd.last + 1 /\ Now(rd.next - 1)
             /\ rd.next <= rd.last => acked < rd.next
  <2>1. rd.next - 1 \in Int
    BY <1>0, <1>5, RdFields DEF Busy
  <2> HIDE DEF Now
  <2> QED BY Zenon, <1>2, <1>4, <1>5, <2>1
<1>6. ASSUME pc \in {"memory", "send"}, wal' = wal
      PROVE  Now(rd.last)
  <2>1. rd.last \in Int
    BY <1>0, <1>6, RdFields DEF Busy
  <2> HIDE DEF Now
  <2> QED BY Zenon, <1>2, <1>4, <1>6, <2>1
<1>7. CASE UNCHANGED <<wal, hard, released, acked, mem, pc, rd>>
  <2> HIDE DEF Now
  <2> QED BY Zenon, <1>4, <1>5, <1>6, <1>7
<1>8. ASSUME UNCHANGED <<wal, hard, released, acked>>, Now(mem'.last), pc' \notin BeforeHard \cup {"memory", "send"}
      PROVE  Good
  <2> HIDE DEF Now
  <2> QED BY Zenon, <1>4, <1>8
<1>9. CASE Start
  <2>1. UNCHANGED <<wal, hard, released, acked>> /\ pc' = "select" /\ mem' = [snap |-> Newest, last |-> LastReplayed]
    BY Zenon, <1>9 DEF Start, diskVars
  <2>2. Reads(wal, Newest, LastReplayed) /\ LastReplayed \in Int /\ Newest \in Nat /\ Newest <= Covered
    BY <1>0, ReplayIs, NewestIs
  <2>3. Replays(LastReplayed)
    BY Zenon, <1>1, <1>2, <2>2, ReadsMore DEF Replays
  <2> HIDE DEF Now
  <2>4. Now(mem'.last)
    BY Zenon, <1>4, <2>1, <2>2, <2>3
  <2> QED BY Zenon, <1>8, <2>1, <2>4
<1>10. CASE Crash \/ RaftPanic \/ AppendPanic
  <2>1. UNCHANGED <<wal, hard, released, acked>> /\ pc' = "down" /\ mem' = [snap |-> 0, last |-> 0]
    BY Zenon, <1>10, Dying DEF Die, diskVars
  <2> HIDE DEF Now
  <2>2. Now(mem'.last)
    BY <1>1, <1>4, <2>1
  <2> QED BY Zenon, <1>8, <2>1, <2>2
<1>11. CASE StorageError \/ DropAll \/ Load \/ ApplyEntry \/ ApplyDone \/ Advance
  <2>1. /\ UNCHANGED <<wal, hard, released, acked, mem>>
        /\ pc' \in {"stopped", "load", "apply", "removed", "advance", "select"}
    BY Zenon, <1>11 DEF StorageError, DropAll, Load, ApplyEntry, ApplyDone, Advance, Stopped, diskVars, pastVars
  <2> HIDE DEF Now
  <2> QED BY Zenon, <1>4, <1>8, <2>1
<1>12. CASE ReadyEntries
  <2>1. UNCHANGED <<wal, hard, released, mem>> /\ pc' = "save"
    BY Zenon, <1>12 DEF ReadyEntries, diskVars
  <2>2. PICK last \in mem.last..MaxIndex, commit \in raft.commit..MaxIndex, hi \in 0..MaxIndex :
          /\ rd' = [snap |-> 0, from |-> mem.last + 1, next |-> mem.last + 1,
                    last |-> last, commit |-> commit,
                    lo |-> raft.applied + 1, hi |-> hi, removed |-> FALSE]
          /\ acked' = IF last > mem.last THEN Min({acked, mem.last}) ELSE acked
    BY Zenon, <1>12 DEF ReadyEntries
  <2>3. rd'.from = mem.last + 1 /\ rd'.next = mem.last + 1 /\ rd'.last = last
    BY Zenon, <2>2
  <2>4. Min({acked, mem.last}) \in {acked, mem.last} /\ Min({acked, mem.last}) <= mem.last
    BY Zenon, <1>1, MinPair
  <2>5. acked' \in {acked, mem.last} /\ (last > mem.last => acked' <= mem.last)
    BY Zenon, <2>2, <2>4
  <2> HIDE DEF Now
  <2>6. Now(acked') /\ Now(mem'.last) /\ Now(hard')
    BY Zenon, <1>4, <2>1, <2>5
  <2>7. rd'.next - 1 = mem.last /\ rd'.from <= rd'.next /\ rd'.next <= rd'.last + 1
    BY <1>1, <2>3
  <2>8. rd'.next <= rd'.last => acked' < rd'.next
    BY <1>1, <2>3, <2>5
  <2>9. Now(rd'.next - 1)
    BY Zenon, <1>4, <2>1, <2>7
  <2> QED BY Zenon, <1>4, <2>1, <2>6, <2>7, <2>8, <2>9
<1>13. CASE ReadySnapshot
  <2>1. UNCHANGED <<wal, hard, released, mem, acked>> /\ pc' = "save"
    BY Zenon, <1>13 DEF ReadySnapshot, diskVars, pastVars
  <2>2. rd'.snap # 0
    <3>1. PICK i \in Installs : rd'.snap = i
      BY <1>13 DEF ReadySnapshot
    <3> QED BY <3>1, Constants
  <2> HIDE DEF Now
  <2> QED BY Zenon, <1>4, <2>1, <2>2
<1>14. CASE SaveSnapFile \/ WriteSnapFile \/ SaveSnapRecord
  <2>1. /\ UNCHANGED <<wal, hard, released, mem, acked, rd>> /\ pc \in BeforeHard
        /\ pc' \in BeforeHard
    BY Zenon, <1>14 DEF SaveSnapFile, WriteSnapFile, SaveSnapRecord, pastVars
  <2>2. pc' \notin {"memory", "send"}
    BY Zenon, <2>1
  <2> HIDE DEF Now, BeforeHard
  <2> QED BY Zenon, <1>4, <1>5, <2>1, <2>2
<1>15. CASE SaveEntry
  <2>1. /\ pc = "entries" /\ pc' = "entries" /\ rd.next <= rd.last
        /\ UNCHANGED <<records, hard, released, mem, acked>> /\ rd' = [rd EXCEPT !.next = @ + 1]
    BY Zenon, <1>15 DEF SaveEntry, pastVars
  <2>2. wal' = Written(wal, rd.next)
    BY Zenon, <1>15 DEF SaveEntry, Written
  <2>3. /\ rd'.snap = rd.snap /\ rd'.from = rd.from /\ rd'.last = rd.last /\ rd'.next = rd.next + 1
        /\ rd.next \in Nat /\ rd.last \in Nat /\ rd.from \in Nat /\ rd.snap \in Nat /\ rd.last <= MaxIndex
    BY <1>0, <1>1, <2>1, RdNext, RdFields DEF Busy, Index
  <2>4. rd.snap = 0
    BY <1>0, <2>1, <2>3 DEF ReadyInv, Busy
  <2>5. rd.from <= rd.next /\ Replays(rd.next - 1) /\ acked < rd.next /\ hard < rd.from /\ mem.last < rd.from
    BY Zenon, <1>0, <1>2, <2>1, <2>4 DEF ReadyInv
  <2>6. Covered' = Covered /\ Covered <= hard
    BY Zenon, <2>1, CoveredMoves
  <2>7. rd.next \in 1..MaxIndex /\ Covered < rd.next /\ hard < rd.next /\ mem.last < rd.next
    BY <1>1, <2>1, <2>3, <2>5, <2>6
  <2>8. /\ Gapless(wal', Covered') /\ Now(rd.next)
        /\ \A x \in Int : x < rd.next /\ Replays(x) => Now(x)
    BY Zenon, <1>1, <1>2, <2>2, <2>5, <2>6, <2>7, WrittenReads DEF Replays
  <2> HIDE DEF Now
  <2>9. Now(hard) /\ Now(acked) /\ Now(mem.last)
    BY <1>1, <1>2, <2>5, <2>7, <2>8
  <2>10. released' <= Covered'
    BY Zenon, <1>0, <2>1, <2>6 DEF WalInv
  <2>11. rd'.next - 1 = rd.next /\ rd'.from <= rd'.next /\ rd'.next <= rd'.last + 1 /\ acked < rd'.next
    BY <1>1, <2>1, <2>3, <2>5
  <2> QED BY Zenon, <2>1, <2>8, <2>9, <2>10, <2>11
<1>16. CASE SaveHardState
  <2>1. /\ pc = "entries" /\ pc' = "memory" /\ rd.next > rd.last /\ hard' = rd.commit
        /\ released' = Max({released, rd.snap}) /\ UNCHANGED <<records, wal, mem, acked, rd>>
    BY Zenon, <1>16 DEF SaveHardState, pastVars
  <2>2. /\ rd.next \in Nat /\ rd.last \in Nat /\ rd.commit \in Nat /\ rd.snap \in Nat /\ rd.commit <= rd.last
    BY Zenon, <1>0, <2>1, RdFields DEF Busy, ReadyInv
  <2>3. released' \in {released, rd.snap}
    BY Zenon, <1>1, <2>1, <2>2, MaxPair
  <2> HIDE DEF Now
  <2>4. CASE rd.snap = 0
    <3>1. rd.next - 1 = rd.last
      BY <1>2, <2>1, <2>2, <2>4
    <3>2. Now(rd.last)
      BY Zenon, <1>5, <2>1, <2>4, <3>1
    <3>3. Now(rd.commit)
      BY Zenon, <1>1, <1>2, <1>4, <2>1, <2>2, <3>2, ReadsBelow DEF Now
    <3>4. released' <= Covered'
      BY <1>1, <1>4, <2>1, <2>3, <2>4
    <3> QED BY Zenon, <1>4, <2>1, <3>2, <3>3, <3>4
  <2>5. CASE rd.snap # 0
    <3>1. rd.last = rd.snap /\ rd.commit = rd.snap /\ rd.snap \in records
      BY Zenon, <1>0, <2>1, <2>5 DEF ReadyInv, Busy, FilesInv, BeforeApply
    <3>2. rd.snap <= Covered'
      <4>1. rd.snap \in records' /\ rd.snap <= hard'
        BY Zenon, <2>1, <2>2, <3>1
      <4> QED BY Zenon, <4>1, CoveredMoves
    <3>3. Now(rd.snap)
      BY <1>4, <2>1, <2>2, <3>2
    <3>4. released' <= Covered'
      BY Zenon, <1>4, <2>1, <2>3, <3>2
    <3> QED BY Zenon, <1>4, <2>1, <3>1, <3>3, <3>4
  <2> QED BY Zenon, <2>4, <2>5
<1>17. CASE SaveMemory
  <2> DEFINE m == ApplySnapshot(mem, rd.snap)
  <2>1. /\ pc = "memory" /\ pc' = "send" /\ UNCHANGED <<wal, hard, released, acked, rd>>
        /\ mem' = IF rd.last < rd.from THEN m ELSE [m EXCEPT !.last = rd.last]
    BY Zenon, <1>17 DEF SaveMemory, diskVars, pastVars
  <2>2. rd.snap \in Index /\ rd.snap \in Nat
    BY Zenon, <1>0, <2>1, RdFields DEF Busy
  <2>3. /\ m \in [snap : Index, last : Index]
        /\ rd.snap <= mem.snap => m = mem
        /\ rd.snap > mem.snap => m.last = rd.snap
    BY Zenon, <1>0, <2>2, SnapApplied
  <2>4. rd.snap # 0 => rd.last = rd.snap
    BY Zenon, <1>0, <2>1 DEF ReadyInv, Busy
  <2> HIDE DEF m, Now
  <2>5. m.last \in {mem.last, rd.last}
    <3>1. mem.snap \in Nat
      BY Zenon, <1>0, Numbers
    <3> QED BY <2>2, <2>3, <2>4, <3>1
  <2>6. mem'.last \in {mem.last, rd.last}
    BY Zenon, <2>1, <2>3, <2>5
  <2>7. Now(mem'.last)
    BY Zenon, <1>4, <1>6, <2>1, <2>6
  <2> QED BY Zenon, <1>4, <1>6, <2>1, <2>7
<1>18. CASE Send
  <2>1. /\ pc = "send" /\ pc' \in {"apply", "restore"} /\ acked' = Max({acked, rd.last})
        /\ UNCHANGED <<wal, hard, released, mem>>
    BY Zenon, <1>18 DEF Send, diskVars
  <2>2. rd.last \in Nat
    BY Zenon, <1>0, <2>1, RdFields DEF Busy
  <2>3. acked' \in {acked, rd.last}
    BY Zenon, <1>1, <2>1, <2>2, MaxPair
  <2> HIDE DEF Now
  <2>4. Now(acked')
    BY Zenon, <1>4, <1>6, <2>1, <2>3
  <2> QED BY Zenon, <1>4, <2>1, <2>4
<1>19. ASSUME NEW s \in Snappers, InstallSnapshot(s) PROVE Good
  <2>1. released' = Max({released, sn[s].index}) /\ UNCHANGED <<records, wal, hard, acked, pc, rd>>
    BY Zenon, <1>19 DEF InstallSnapshot
  <2>2. /\ mem' = mem \/ mem'.last = sn[s].index
        /\ sn[s].index \in Nat /\ sn[s].index <= applied /\ sn[s].index \in records
    BY Zenon, <1>19, InstallLow
  <2>3. sn[s].index <= Covered'
    <3>1. sn[s].index <= hard' /\ sn[s].index \in records'
      BY <1>0, <1>1, <2>1, <2>2 DEF OrderInv
    <3> QED BY Zenon, <3>1, CoveredMoves
  <2>4. released' <= Covered'
    BY Zenon, <1>1, <1>4, <2>1, <2>2, <2>3, MaxPair
  <2> HIDE DEF Now
  <2>5. Now(mem'.last)
    BY <1>4, <2>1, <2>2, <2>3
  <2> QED BY Zenon, <1>4, <1>5, <1>6, <2>1, <2>4, <2>5
<1>20. CASE Quiet
  BY Zenon, <1>7, <1>20 DEF Quiet, nodeVars
<1> HIDE DEF Good
<1> QED BY Zenon, NodeMoving, <1>9, <1>10, <1>11, <1>12, <1>13, <1>14, <1>15, <1>16, <1>17, <1>18, <1>19, <1>20
        DEF NodeMoves, LoopStep

-----------------------------------------------------------------------------
(* The database and the snapshots. *)

\* New records: that of a received snapshot, or of one taken at an applied index.
LEMMA RecordsMove ==
  ASSUME IInv, [Next]_vars
  PROVE  \/ SaveSnapRecord
         \/ records' = records
         \/ \E s \in Snappers : QRecords(s) /\ sn[s].index \in Nat /\ sn[s].index <= applied
<1>1. SnTypes /\ SnapperInv
  BY Zenon DEF IInv, TypeInv
<1>2. ASSUME NEW s \in Snappers, CreateRecord(s), records' # records PROVE QRecords(s)
  <2>1. /\ sn[s].pc = "record" /\ pc # "stopped" /\ records' = records \cup {sn[s].index}
        /\ sn' = [sn EXCEPT ![s] = [pc |-> "install", index |-> sn[s].index]]
        /\ UNCHANGED <<files, wal, hard, released, db, nodeVars, pastVars>>
    BY Zenon, <1>2 DEF CreateRecord
  <2>2. sn'[s] = [pc |-> "install", index |-> sn[s].index]
    BY Zenon, <1>1, <2>1 DEF SnTypes
  <2> QED BY Zenon, <2>1, <2>2 DEF QRecords
<1>3. ASSUME NEW s \in Snappers, QRecords(s) PROVE sn[s].index \in Nat /\ sn[s].index <= applied
  BY Zenon, <1>1, <1>3, SnFields DEF QRecords, SnapperInv, Indexed
<1> QED BY Zenon, <1>2, <1>3, DiskMoving DEF DiskMoves, diskVars, SaveSnapFile, WriteSnapFile, SaveHardState,
      SaveEntry, DropAll, Load, ApplyEntry, CreateSnapshot, CreateFile, InstallSnapshot

\* Only loading a snapshot makes up for what a restore dropped.
LEMMA Unloading ==
  ASSUME [Next]_vars
  PROVE  Load \/ (unloaded => unloaded')
<1>1. ASSUME NEW s \in Snappers, SnapperStep(s) \/ CreateError(s) PROVE unloaded => unloaded'
  BY Zenon, <1>1 DEF SnapperStep, ReadConfState, ReadSnapshotIndex, ReadApplied, Backup, CreateSnapshot,
     CreateFile, CreateRecord, InstallSnapshot, CreateError, pastVars
<1>2. LoopStep => Load \/ (unloaded => unloaded')
  BY Zenon DEF LoopStep, Start, RaftPanic, ReadyEntries, ReadySnapshot, SaveSnapFile, WriteSnapFile,
     SaveSnapRecord, SaveEntry, SaveHardState, SaveMemory, AppendPanic, Send, DropAll, ApplyEntry, ApplyDone,
     Advance, pastVars
<1>3. Crash \/ StorageError \/ UNCHANGED vars => (unloaded => unloaded')
  BY Zenon DEF Crash, StorageError, vars, pastVars
<1> QED BY Zenon, <1>1, <1>2, <1>3 DEF Next

\* The database holds what is applied and what the records stand for, unless a restore was cut
\* short; records beyond the hard state are those of snapshots not yet loaded.
LEMMA DbStep ==
  ASSUME IInv, [Next]_vars
  PROVE  DbInv'
<1>0. DiskTypes /\ NodeTypes /\ ReadyInv /\ OrderInv /\ DbInv
  BY Zenon DEF IInv, TypeInv
<1>1. /\ hard \in Nat /\ hard' \in Nat /\ hard <= hard' /\ applied \in Nat /\ records \subseteq Nat /\ applied <= hard
  <2>1. DiskTypes' /\ hard <= hard' /\ MaxIndex \in Nat
    BY Zenon, Grows, DiskTypesStep, Constants
  <2> QED BY <1>0, <2>1 DEF DiskTypes, NodeTypes, Index, OrderInv
<1>2. /\ \A i \in records : i > hard => i \in restoring
      /\ ~unloaded => /\ DataAt(applied) \subseteq db
                      /\ \A i \in records \ restoring : DataAt(i) \subseteq db
                      /\ pc = "apply" => DataAt(rd.lo - 1) \subseteq db
  BY Zenon, <1>0 DEF DbInv
<1>3. ASSUME records' = records, restoring' = restoring
      PROVE  /\ \A i \in records' : i > hard' => i \in restoring'
             /\ ~unloaded /\ db \subseteq db' => \A i \in records' \ restoring' : DataAt(i) \subseteq db'
  BY <1>1, <1>2, <1>3
<1>4. ASSUME UNCHANGED <<records, restoring, db, applied>>, unloaded => unloaded', pc' # "apply"
      PROVE  DbInv'
  BY Zenon, <1>2, <1>3, <1>4 DEF DbInv
<1>5. CASE Quiet
  <2>1. UNCHANGED <<hard, db, restoring, unloaded, applied, pc, rd>>
    BY Zenon, <1>5 DEF Quiet, nodeVars
  <2>2. CASE records' = records
    BY Zenon, <1>2, <2>1, <2>2 DEF DbInv
  <2>3. ASSUME NEW s \in Snappers, QRecords(s), sn[s].index \in Nat, sn[s].index <= applied PROVE DbInv'
    <3>1. records' = records \cup {sn[s].index}
      BY Zenon, <2>3 DEF QRecords
    <3>2. DataAt(sn[s].index) \subseteq DataAt(applied) /\ ~(sn[s].index > hard)
      BY <1>1, <2>3, DataGrows
    <3> QED BY Zenon, <1>2, <2>1, <3>1, <3>2 DEF DbInv
  <2>4. ~SaveSnapRecord
    BY Zenon, <2>1 DEF SaveSnapRecord
  <2> QED BY Zenon, RecordsMove, <2>2, <2>3, <2>4
<1>6. CASE Start
  <2>1. /\ UNCHANGED <<records, hard, db, restoring>> /\ unloaded' = (unloaded \/ Newest \in restoring)
        /\ applied' = Newest /\ pc' = "select"
    BY Zenon, <1>6 DEF Start, diskVars
  <2>2. Newest \in records
    BY Zenon, <1>0, NewestIs
  <2>3. pc' # "apply"
    BY Zenon, <2>1
  <2> QED BY Zenon, <1>2, <2>1, <2>2, <2>3 DEF DbInv
<1>7. CASE Crash \/ RaftPanic \/ AppendPanic
  <2>1. UNCHANGED <<records, hard, db, restoring, unloaded>> /\ applied' = 0 /\ pc' = "down"
    BY Zenon, <1>7, Dying DEF Die, diskVars
  <2>2. DataAt(0) = {} /\ pc' # "apply"
    BY <2>1 DEF DataAt
  <2> QED BY Zenon, <1>2, <2>1, <2>2 DEF DbInv
<1>8. CASE ReadyEntries \/ ReadySnapshot \/ SaveSnapFile \/ WriteSnapFile \/ SaveEntry \/ SaveHardState
           \/ SaveMemory \/ StorageError \/ Advance
  <2>1. /\ UNCHANGED <<records, restoring, db, applied, unloaded>>
        /\ pc' \in {"save", "file", "record", "entries", "memory", "send", "stopped", "select"}
    BY Zenon, <1>8 DEF ReadyEntries, ReadySnapshot, SaveSnapFile, WriteSnapFile, SaveEntry, SaveHardState,
       SaveMemory, StorageError, Advance, Stopped, diskVars, pastVars
  <2> QED BY Zenon, <1>4, <2>1
<1>9. CASE SaveSnapRecord
  <2>1. /\ records' = records \cup {rd.snap} /\ restoring' = restoring \cup {rd.snap} /\ pc' = "entries"
        /\ UNCHANGED <<db, applied, unloaded, hard>>
    BY Zenon, <1>9 DEF SaveSnapRecord
  <2>2. pc' # "apply"
    BY Zenon, <2>1
  <2> QED BY Zenon, <1>2, <2>1, <2>2 DEF DbInv
<1>10. CASE Send
  <2>1. /\ UNCHANGED <<records, restoring, db, applied, unloaded, rd>> /\ pc = "send"
        /\ pc' = IF rd.snap = 0 THEN "apply" ELSE "restore"
    BY Zenon, <1>10 DEF Send, diskVars
  <2>2. rd.snap = 0 => rd.lo - 1 = applied
    BY <1>0, <1>1, <2>1 DEF ReadyInv, BeforeApply
  <2>3. pc' = "apply" => rd'.lo - 1 = applied
    BY Zenon, <2>1, <2>2
  <2> QED BY Zenon, <1>2, <1>3, <2>1, <2>3 DEF DbInv
<1>11. CASE DropAll
  <2>1. /\ UNCHANGED <<records, restoring, applied>> /\ pc' # "apply"
        /\ unloaded' \/ (db' = db /\ (unloaded => unloaded'))
    BY Zenon, <1>11 DEF DropAll, Stopped
  <2> QED BY Zenon, <1>3, <1>4, <2>1 DEF DbInv
<1>12. CASE Load
  <2>1. /\ pc = "load" /\ db' = db \cup rd.file.data /\ applied' = rd.snap
        /\ restoring' = {i \in restoring : i > rd.snap} /\ unloaded' = FALSE
        /\ UNCHANGED <<records, hard, rd>>
    BY Zenon, <1>12 DEF Load
  <2>2. /\ rd.snap \in Nat /\ hard = rd.snap /\ rd.lo - 1 = rd.snap /\ DataAt(rd.snap) \subseteq rd.file.data
    BY <1>0, <2>1, RdFields DEF ReadyInv, Busy, BeforeHard
  <2>3. \A i \in records : i > rd.snap \/ i <= rd.snap
    BY <1>1, <2>2
  <2>4. \A i \in records : i <= rd.snap => DataAt(i) \subseteq rd.file.data
    BY Zenon, <1>1, <2>2, DataGrows
  <2>5. DataAt(rd.snap) \subseteq db'
    BY Zenon, <2>1, <2>2
  <2>6. \A i \in records \ restoring' : DataAt(i) \subseteq db'
    BY Zenon, <1>2, <2>1, <2>2, <2>3, <2>4
  <2>7. \A i \in records : i > hard => i \in restoring'
    BY Zenon, <1>2, <2>1, <2>2
  <2> QED BY Zenon, <2>1, <2>2, <2>5, <2>6, <2>7 DEF DbInv
<1>13. CASE ApplyEntry
  <2>1. /\ pc = "apply" /\ UNCHANGED <<records, restoring, applied, unloaded, hard>> /\ rd.lo <= rd.hi
        /\ \/ pc' = "stopped" /\ db' = db
           \/ /\ db' = IF rd.lo <= applied THEN db ELSE db \cup ({rd.lo} \ ConfChanges)
              /\ rd' = [rd EXCEPT !.lo = @ + 1,
                           !.removed = IF rd.lo \in ConfChanges THEN rd.lo = SelfRemoval ELSE @]
    BY Zenon, <1>13 DEF ApplyEntry, Stopped, pastVars
  <2>2. CASE pc' = "stopped" /\ db' = db
    BY Zenon, <1>4, <2>1, <2>2
  <2>3. CASE /\ db' = IF rd.lo <= applied THEN db ELSE db \cup ({rd.lo} \ ConfChanges)
             /\ rd' = [rd EXCEPT !.lo = @ + 1,
                           !.removed = IF rd.lo \in ConfChanges THEN rd.lo = SelfRemoval ELSE @]
    <3> DEFINE b == IF rd.lo \in ConfChanges THEN rd.lo = SelfRemoval ELSE rd.removed
    <3>0. rd.lo \in Nat /\ rd.removed \in BOOLEAN /\ applied < rd.lo
      BY Zenon, <1>0, <2>1, RdFields DEF ReadyInv, Busy
    <3>1. b \in BOOLEAN /\ rd' = [rd EXCEPT !.lo = @ + 1, !.removed = b]
      BY Zenon, <2>3, <3>0
    <3> HIDE DEF b
    <3>2. pc \in Busy
      BY Zenon, <2>1 DEF Busy
    <3>3. rd'.lo = rd.lo + 1
      BY Zenon, <1>0, <3>1, <3>2, RdLo
    <3>4. db' = db \cup ({rd.lo} \ ConfChanges) /\ rd'.lo - 1 = rd.lo
      BY <1>1, <2>3, <3>0, <3>3
    <3>5. DataAt(rd.lo) \subseteq DataAt(rd.lo - 1) \cup ({rd.lo} \ ConfChanges)
      BY <3>0 DEF DataAt
    <3>6. ~unloaded => DataAt(rd'.lo - 1) \subseteq db'
      BY Zenon, <1>2, <2>1, <3>4, <3>5
    <3>7. db \subseteq db'
      BY Zenon, <3>4
    <3> QED BY Zenon, <1>2, <1>3, <2>1, <3>6, <3>7 DEF DbInv
  <2> QED BY Zenon, <2>1, <2>2, <2>3
<1>14. CASE ApplyDone
  <2>1. /\ pc = "apply" /\ rd.lo > rd.hi /\ applied' = rd.hi /\ pc' # "apply"
        /\ restoring' = {i \in restoring : i > rd.hi} /\ UNCHANGED <<records, hard, db, unloaded>>
    BY Zenon, <1>14 DEF ApplyDone, diskVars
  <2>2. /\ rd.lo \in Nat /\ rd.hi \in Nat /\ rd.lo <= rd.hi + 1 /\ rd.hi <= hard
    BY Zenon, <1>0, <2>1, RdFields DEF ReadyInv, Busy, BeforeHard
  <2>3. rd.lo - 1 = rd.hi
    BY <2>1, <2>2
  <2>4. \A i \in records : (i > hard => i > rd.hi) /\ (i > rd.hi \/ i <= rd.hi)
    BY <1>1, <2>2
  <2>5. \A i \in records : i <= rd.hi => DataAt(i) \subseteq DataAt(rd.hi)
    BY Zenon, <1>1, <2>2, DataGrows
  <2>6. ~unloaded => DataAt(rd.hi) \subseteq db
    BY Zenon, <1>2, <2>1, <2>3
  <2>7. \A i \in records : i > hard => i \in restoring'
    BY Zenon, <1>2, <2>1, <2>4
  <2>8. ~unloaded => \A i \in records \ restoring' : DataAt(i) \subseteq db
    BY Zenon, <1>2, <2>1, <2>4, <2>5, <2>6
  <2> QED BY Zenon, <2>1, <2>6, <2>7, <2>8 DEF DbInv
<1>15. ASSUME NEW s \in Snappers, InstallSnapshot(s) PROVE DbInv'
  <2>1. UNCHANGED <<records, hard, db, applied, pc, rd, restoring, unloaded>>
    BY Zenon, <1>15 DEF InstallSnapshot
  <2> QED BY Zenon, <1>2, <2>1 DEF DbInv
<1> QED BY Zenon, NodeMoving, <1>5, <1>6, <1>7, <1>8, <1>9, <1>10, <1>11, <1>12, <1>13, <1>14, <1>15
        DEF NodeMoves, LoopStep

\* Nobody else writes a snapshot file while a goroutine is inside CreateSnapshot.
LEMMA FilesHeld ==
  ASSUME IInv, [Next]_vars, NEW q \in Snappers, Saving(q), sn'[q] = sn[q]
  PROVE  files' = files
<1>1. SnTypes /\ Mutex /\ SnapperSaving /\ ~LoopSaving
  BY Zenon DEF IInv, TypeInv, Mutex, SnapperSaving
<1>2. ASSUME NEW s \in Snappers, CreateFile(s) PROVE FALSE
  <2>1. sn[s].pc = "file" /\ sn' = [sn EXCEPT ![s] = [pc |-> "record", index |-> sn[s].index]]
    BY Zenon, <1>2 DEF CreateFile
  <2>2. s = q
    BY Zenon, <1>1, <2>1 DEF Mutex, Saving
  <2>3. sn'[q].pc = "record"
    BY Zenon, <1>1, <2>1, <2>2 DEF SnTypes
  <2> QED BY Zenon, <2>1, <2>2, <2>3
<1>3. ~WriteSnapFile
  BY Zenon, <1>1 DEF WriteSnapFile, LoopSaving
<1> QED BY Zenon, <1>1, <1>2, <1>3, DiskMoving DEF DiskMoves, diskVars, SaveSnapFile, SaveSnapRecord,
      SaveHardState, SaveEntry, DropAll, Load, ApplyEntry, CreateSnapshot, CreateRecord, InstallSnapshot

\* A file beyond the hard state, and the one a restart would begin with, hold what their
\* index says.
LEMMA FilesStep ==
  ASSUME IInv, [Next]_vars
  PROVE  FilesInv'
<1> DEFINE Whole(i) == DataAt(i) \subseteq files'[i].data
           Late == {"entries", "memory", "send", "restore", "load"}
           Given4 == {"memory", "send", "restore", "load"}
<1>0. /\ DiskTypes /\ NodeTypes /\ SnTypes /\ Mutex /\ ReadyInv /\ OrderInv /\ SnapperInv /\ FilesInv /\ TakenInv
      /\ DiskTypes'
  BY Zenon, DiskTypesStep DEF IInv, TypeInv
<1>1. /\ hard \in Nat /\ hard' \in Nat /\ hard <= hard' /\ applied \in Nat /\ applied <= hard
      /\ DOMAIN files \subseteq Nat /\ DOMAIN files' \subseteq Nat /\ records \subseteq Nat
  BY <1>0, Constants, Grows DEF DiskTypes, NodeTypes, Index, OrderInv
<1>2. /\ Covered \in Nat /\ Covered' \in Nat /\ Covered <= hard /\ Covered <= Covered' /\ Covered' <= hard'
      /\ Covered' \in records' /\ \A i \in records : i <= hard => i <= Covered
      /\ records' = records /\ hard' = hard => Covered' = Covered
  BY Zenon, <1>0, CoveredMoves, CoveredIs
<1>3. /\ \A i \in DOMAIN files : i > hard => Complete(i)
      /\ ~unloaded /\ Covered \in DOMAIN files => Complete(Covered)
      /\ pc \in Late /\ rd.snap # 0 => rd.snap \in records
      /\ pc \in Given4 /\ rd.snap # 0 /\ rd.snap \in DOMAIN files => Complete(rd.snap)
  <2>1. BeforeApply \ {"save", "file", "record"} = Late
    BY Zenon DEF BeforeApply
  <2> QED BY Zenon, <1>0, <2>1 DEF FilesInv
<1> DEFINE Good ==
      /\ \A i \in DOMAIN files' : i > hard' => Whole(i)
      /\ ~unloaded' /\ Covered' \in DOMAIN files' => Whole(Covered')
      /\ pc' \in Late /\ rd'.snap # 0 => rd'.snap \in records'
      /\ pc' \in Given4 /\ rd'.snap # 0 /\ rd'.snap \in DOMAIN files' => Whole(rd'.snap)
<1>4. SUFFICES Good
  <2>1. BeforeApply \ {"save", "file", "record"} = Late
    BY Zenon DEF BeforeApply
  <2> QED BY Zenon, <2>1 DEF FilesInv, Complete
<1>5. ASSUME UNCHANGED <<records, hard>>, \A j \in DOMAIN files' : j \in DOMAIN files /\ files'[j] = files[j],
             unloaded => unloaded'
      PROVE  /\ \A i \in DOMAIN files' : i > hard' => Whole(i)
             /\ ~unloaded' /\ Covered' \in DOMAIN files' => Whole(Covered')
             /\ \A i \in DOMAIN files' : Complete(i) => Whole(i)
  BY Zenon, <1>2, <1>3, <1>5 DEF Complete
<1>6. ASSUME UNCHANGED <<records, hard, files>>, unloaded => unloaded', pc' \notin Late
      PROVE  Good
  <2>1. pc' \notin Given4
    BY Zenon, <1>6
  <2> HIDE DEF Late, Given4
  <2> QED BY Zenon, <1>5, <1>6, <2>1
<1>7. ASSUME UNCHANGED <<records, hard, files, rd>>, unloaded => unloaded', pc \in Late,
             pc' \in Given4 => pc \in Given4
      PROVE  Good
  <2> HIDE DEF Late, Given4
  <2> QED BY Zenon, <1>3, <1>5, <1>7
<1>8. CASE Quiet
  <2>1. UNCHANGED <<hard, unloaded, pc, rd>>
    BY Zenon, <1>8 DEF Quiet, nodeVars
  <2>2. CASE UNCHANGED <<records, files>>
    <3> HIDE DEF Late, Given4
    <3> QED BY Zenon, <1>3, <1>5, <2>1, <2>2
  <2>3. ASSUME NEW s \in Snappers, CreateSnapshot(s) PROVE Good
    <3>1. CASE UNCHANGED files
      BY Zenon, <2>2, <2>3, <3>1 DEF CreateSnapshot
    <3>2. CASE ~UNCHANGED files
      <4>1. sn[s].pc = "create" /\ Truncate(sn[s].index) /\ records' = records
        BY Zenon, <2>3, <3>2 DEF CreateSnapshot
      <4>2. sn[s].index \in Index
        BY Zenon, <1>0, <4>1, SnFields DEF Indexed
      <4>3. \A j \in DOMAIN files' : j \in DOMAIN files /\ files'[j] = files[j]
        BY Zenon, <1>0, <4>1, <4>2, FilesMove
      <4> HIDE DEF Late, Given4
      <4> QED BY Zenon, <1>3, <1>5, <2>1, <4>1, <4>3
    <3> QED BY Zenon, <3>1, <3>2
  <2>4. ASSUME NEW s \in Snappers, CreateFile(s) PROVE Good
    <3> DEFINE i == sn[s].index
    <3>1. sn[s].pc = "file" /\ SaveFile(i, sn[s].snap) /\ records' = records
      BY Zenon, <2>4 DEF CreateFile
    <3>2. i \in Index /\ i \in Nat /\ i <= applied /\ (~unloaded => DataAt(i) \subseteq sn[s].snap.data)
      BY Zenon, <1>0, <3>1, SnFields DEF Indexed, SnapperInv, TakenInv
    <3>3. /\ DOMAIN files' = DOMAIN files \cup {i} /\ files'[i] = sn[s].snap
          /\ \A j \in DOMAIN files : j # i => files'[j] = files[j]
      BY Zenon, <1>0, <3>1, <3>2, FilesMove
    <3>4. SnapperSaving
      BY Zenon, <3>1 DEF SnapperSaving, Saving
    <3>5. ~(pc \in Given4 /\ rd.snap # 0)
      BY Zenon, <1>0, <3>4 DEF Mutex, LoopSaving, OrderInv, Ahead
    <3>6. ~(i > hard)
      BY <1>1, <3>2
    <3> HIDE DEF Late, Given4, i
    <3>7. \A j \in DOMAIN files' : j > hard' => Whole(j)
      BY Zenon, <1>3, <2>1, <3>3, <3>6 DEF Complete
    <3>8. ~unloaded' /\ Covered' \in DOMAIN files' => Whole(Covered')
      BY Zenon, <1>2, <1>3, <2>1, <3>1, <3>2, <3>3 DEF Complete
    <3> QED BY Zenon, <1>3, <2>1, <3>1, <3>5, <3>7, <3>8
  <2>5. ASSUME NEW s \in Snappers, QRecords(s) PROVE Good
    <3> DEFINE i == sn[s].index
    <3>1. sn[s].pc = "record" /\ records' = records \cup {i} /\ files' = files
      BY Zenon, <2>5 DEF QRecords
    <3>2. i \in DOMAIN files /\ (~unloaded => Complete(i))
      BY Zenon, <1>0, <3>1 DEF TakenInv
    <3> HIDE DEF i
    <3>3. Covered' = Covered \/ Covered' = i
      <4>1. Covered' \in records => Covered' <= Covered
        BY Zenon, <1>2, <2>1
      <4> QED BY <1>2, <3>1, <4>1
    <3> HIDE DEF Late, Given4
    <3> QED BY Zenon, <1>3, <2>1, <3>1, <3>2, <3>3 DEF Complete
  <2>6. files' = files \/ \E s \in Snappers : CreateSnapshot(s) \/ CreateFile(s)
    <3>1. ~SaveSnapFile /\ ~WriteSnapFile
      BY Zenon, <2>1 DEF SaveSnapFile, WriteSnapFile
    <3> QED BY Zenon, <3>1, DiskMoving DEF DiskMoves, diskVars, SaveSnapRecord,
          SaveHardState, SaveEntry, DropAll, Load, ApplyEntry, CreateRecord, InstallSnapshot
  <2>7. ~SaveSnapRecord
    BY Zenon, <2>1 DEF SaveSnapRecord
  <2> HIDE DEF Good
  <2> QED BY Zenon, <2>2, <2>3, <2>4, <2>5, <2>6, <2>7, RecordsMove
<1>9. CASE Start
  <2>1. UNCHANGED <<records, hard, files>> /\ (unloaded => unloaded') /\ pc' = "select"
    BY Zenon, <1>9 DEF Start, diskVars
  <2>2. pc' \notin Late
    BY Zenon, <2>1
  <2> QED BY Zenon, <1>6, <2>1, <2>2
<1>10. CASE Crash \/ RaftPanic \/ AppendPanic
  <2>1. UNCHANGED <<records, hard, files, unloaded>> /\ pc' = "down"
    BY Zenon, <1>10, Dying DEF Die, diskVars
  <2> QED BY Zenon, <1>6, <2>1
<1>11. CASE StorageError \/ ReadyEntries \/ ReadySnapshot \/ ApplyEntry \/ ApplyDone \/ Advance
  <2>1. /\ UNCHANGED <<records, hard, files, unloaded>>
        /\ pc' \in {"stopped", "save", "apply", "removed", "advance", "select"}
    BY Zenon, <1>11 DEF StorageError, ReadyEntries, ReadySnapshot, ApplyEntry, ApplyDone, Advance, Stopped,
       diskVars, pastVars
  <2> QED BY Zenon, <1>6, <2>1
<1>12. CASE SaveSnapFile
  <2>1. /\ UNCHANGED <<records, hard, unloaded, rd>> /\ pc = "save"
        /\ \/ pc' = "entries" /\ files' = files /\ rd.snap = 0
           \/ pc' = "file" /\ Truncate(rd.snap)
    BY Zenon, <1>12 DEF SaveSnapFile, pastVars
  <2>2. rd.snap \in Index
    BY Zenon, <1>0, <2>1, RdFields DEF Busy
  <2>3. \A j \in DOMAIN files' : j \in DOMAIN files /\ files'[j] = files[j]
    BY Zenon, <1>0, <2>1, <2>2, FilesMove
  <2>4. pc' \notin Given4 /\ (pc' \in Late => rd.snap = 0)
    BY Zenon, <2>1
  <2> HIDE DEF Late, Given4
  <2> QED BY Zenon, <1>5, <2>1, <2>3, <2>4
<1>13. CASE WriteSnapFile
  <2>1. UNCHANGED <<records, hard, unloaded, rd>> /\ pc = "file" /\ pc' = "record" /\ SaveFile(rd.snap, rd.file)
    BY Zenon, <1>13 DEF WriteSnapFile, pastVars
  <2>2. rd.snap \in Index /\ rd.snap \in Nat /\ hard < rd.snap /\ DataAt(rd.snap) \subseteq rd.file.data
    BY Zenon, <1>0, <2>1, RdFields DEF Busy, ReadyInv, BeforeHard
  <2>3. /\ DOMAIN files' = DOMAIN files \cup {rd.snap} /\ files'[rd.snap] = rd.file
        /\ \A j \in DOMAIN files : j # rd.snap => files'[j] = files[j]
    BY Zenon, <1>0, <2>1, <2>2, FilesMove
  <2>4. Covered' = Covered /\ Covered # rd.snap
    BY <1>1, <1>2, <2>1, <2>2
  <2>5. pc' \notin Late /\ pc' \notin Given4
    BY Zenon, <2>1
  <2> HIDE DEF Late, Given4
  <2> QED BY Zenon, <1>3, <2>1, <2>2, <2>3, <2>4, <2>5 DEF Complete
<1>14. CASE SaveSnapRecord
  <2>1. /\ UNCHANGED <<files, hard, unloaded, rd>> /\ pc = "record" /\ pc' = "entries"
        /\ records' = records \cup {rd.snap}
    BY Zenon, <1>14 DEF SaveSnapRecord
  <2>2. rd.snap \in Nat /\ (rd.snap # 0 => hard < rd.snap) /\ rd.snap # 0
    BY Zenon, <1>0, <2>1, RdFields DEF Busy, ReadyInv, BeforeHard
  <2>3. Covered' = Covered
    <3>1. Covered' \in records
      BY <1>1, <1>2, <2>1, <2>2
    <3>2. Covered' <= Covered
      BY Zenon, <1>2, <2>1, <3>1
    <3> QED BY <1>2, <3>2
  <2>4. pc' \notin Given4
    BY Zenon, <2>1
  <2> HIDE DEF Late, Given4
  <2> QED BY Zenon, <1>3, <2>1, <2>3, <2>4 DEF Complete
<1>15. CASE SaveEntry
  <2>1. /\ UNCHANGED <<files, records, hard, unloaded, pc>> /\ pc = "entries" /\ rd' = [rd EXCEPT !.next = @ + 1]
    BY Zenon, <1>15 DEF SaveEntry, pastVars
  <2>2. pc \in Busy /\ pc \in Late /\ pc \notin Given4
    BY Zenon, <2>1 DEF Busy
  <2>3. rd'.snap = rd.snap
    BY Zenon, <1>0, <2>1, <2>2, RdNext
  <2>4. pc' \notin Given4 /\ (rd'.snap # 0 => rd'.snap \in records')
    BY <1>3, <2>1, <2>2, <2>3
  <2> HIDE DEF Late, Given4
  <2> QED BY Zenon, <1>5, <2>1, <2>4
<1>16. CASE SaveHardState
  <2>1. UNCHANGED <<files, records, unloaded, rd>> /\ pc = "entries" /\ pc' = "memory"
    BY Zenon, <1>16 DEF SaveHardState, pastVars
  <2>2. rd.snap # 0 => rd.snap > hard
    BY Zenon, <1>0, <1>1, <2>1, RdFields DEF ReadyInv, BeforeHard, Busy
  <2>3. \A i \in DOMAIN files : i > hard' => i > hard
    BY <1>1
  <2>4. Covered' = Covered \/ Covered' > hard
    <3>1. CASE Covered' > hard
      BY Zenon, <3>1
    <3>2. CASE Covered' <= hard
      <4>1. Covered' <= Covered
        BY Zenon, <1>2, <2>1, <3>2
      <4> QED BY <1>2, <4>1
    <3> QED BY <1>1, <1>2, <3>1, <3>2
  <2>5. pc \in Late /\ pc' \in Late
    BY Zenon, <2>1
  <2> HIDE DEF Late, Given4
  <2> QED BY Zenon, <1>3, <2>1, <2>2, <2>3, <2>4, <2>5 DEF Complete
<1>17. CASE SaveMemory \/ Send
  <2>1. /\ UNCHANGED <<files, records, hard, unloaded, rd>> /\ pc \in {"memory", "send"}
    BY Zenon, <1>17 DEF SaveMemory, Send, diskVars, pastVars
  <2>2. pc \in Late /\ pc \in Given4
    BY Zenon, <2>1
  <2> QED BY Zenon, <1>7, <2>1, <2>2
<1>18. CASE DropAll
  <2>1. /\ UNCHANGED <<files, records, hard>> /\ pc = "restore" /\ (unloaded => unloaded')
        /\ pc' = "stopped" \/ rd' = rd
    BY Zenon, <1>18 DEF DropAll, Stopped
  <2>2. pc \in Late /\ pc \in Given4
    BY Zenon, <2>1
  <2>3. CASE pc' = "stopped"
    BY Zenon, <1>6, <2>1, <2>3
  <2>4. CASE rd' = rd
    BY Zenon, <1>7, <2>1, <2>2, <2>4
  <2> QED BY Zenon, <2>1, <2>3, <2>4
<1>19. CASE Load
  <2>1. UNCHANGED <<files, records, hard, rd>> /\ pc = "load" /\ pc' = "apply"
    BY Zenon, <1>19 DEF Load
  <2>2. rd.snap # 0 /\ rd.snap \in Nat /\ hard = rd.snap
    BY Zenon, <1>0, <2>1, RdFields DEF ReadyInv, Busy, BeforeHard
  <2>3. rd.snap \in records /\ (rd.snap \in DOMAIN files => Complete(rd.snap))
    BY Zenon, <1>3, <2>1, <2>2
  <2>4. Covered' = rd.snap
    <3>1. rd.snap <= rd.snap
      BY <2>2
    <3>2. rd.snap <= Covered /\ Covered' = Covered
      BY Zenon, <1>2, <2>1, <2>2, <2>3, <3>1
    <3> QED BY <1>2, <2>2, <3>2
  <2>5. pc' \notin Late /\ pc' \notin Given4
    BY Zenon, <2>1
  <2> HIDE DEF Late, Given4
  <2> QED BY Zenon, <1>3, <2>1, <2>3, <2>4, <2>5 DEF Complete
<1>20. ASSUME NEW s \in Snappers, InstallSnapshot(s) PROVE Good
  <2>1. UNCHANGED <<files, records, hard, pc, rd, unloaded>>
    BY Zenon, <1>20 DEF InstallSnapshot
  <2> HIDE DEF Late, Given4
  <2> QED BY Zenon, <1>3, <1>5, <2>1
<1> HIDE DEF Good
<1> QED BY Zenon, NodeMoving, <1>8, <1>9, <1>10, <1>11, <1>12, <1>13, <1>14, <1>15, <1>16, <1>17, <1>18, <1>19, <1>20
        DEF NodeMoves, LoopStep

\* A snapshot that CreateSnapshot accepts is complete: one taken while the database was being
\* restored has an index below memStorage's.
LEMMA TakenStep ==
  ASSUME IInv, [Next]_vars
  PROVE  TakenInv'
<1> DEFINE Good(q) ==
      /\ sn'[q].pc = "create" => \/ unloaded' \/ sn'[q].index < mem'.snap
                                 \/ DataAt(sn'[q].index) \subseteq sn'[q].snap.data
      /\ sn'[q].pc = "file" /\ ~unloaded' => DataAt(sn'[q].index) \subseteq sn'[q].snap.data
      /\ sn'[q].pc = "record" =>
           /\ sn'[q].index \in DOMAIN files'
           /\ ~unloaded' => DataAt(sn'[q].index) \subseteq files'[sn'[q].index].data
<1> SUFFICES ASSUME NEW q \in Snappers PROVE Good(q)
  BY Zenon DEF TakenInv, Complete
<1>0. /\ DiskTypes /\ NodeTypes /\ SnTypes /\ Mutex /\ ReadyInv /\ OrderInv /\ SnapperInv /\ DbInv
  BY Zenon DEF IInv, TypeInv
<1>1. applied \in Nat /\ mem.snap \in Nat /\ mem.last \in Nat /\ mem'.snap \in Nat
  BY <1>0, Numbers, Constants, NodeTypesStep DEF NodeTypes, Index
<1>2. /\ sn[q].pc = "create" => \/ unloaded \/ sn[q].index < mem.snap
                                \/ DataAt(sn[q].index) \subseteq sn[q].snap.data
      /\ sn[q].pc = "file" /\ ~unloaded => DataAt(sn[q].index) \subseteq sn[q].snap.data
      /\ sn[q].pc = "record" =>
           /\ sn[q].index \in DOMAIN files
           /\ ~unloaded => DataAt(sn[q].index) \subseteq files[sn[q].index].data
  BY Zenon DEF IInv, TakenInv, Complete
<1>3. sn[q].pc \in Indexed => sn[q].index \in Nat /\ sn[q].index \in Index /\ sn[q].index <= applied
  BY Zenon, <1>0, SnFields DEF SnapperInv
<1>4. CASE QRests(q)
  BY <1>4 DEF QRests, Asleep
<1>5. CASE sn'[q] = sn[q] /\ ~QRests(q)
  <2>1. mem.snap <= mem'.snap
    BY Zenon, <1>5, Grows DEF QRests
  <2>2. CASE Load
    <3>1. pc = "load" /\ mem' = mem
      BY Zenon, <2>2 DEF Load
    <3>2. rd.snap # 0 /\ applied < rd.snap
      BY Zenon, <1>0, <3>1 DEF ReadyInv, BeforeApply
    <3>3. ~SnapperSaving /\ mem.snap = rd.snap
      BY Zenon, <1>0, <3>1, <3>2 DEF OrderInv, Ahead
    <3>4. ~Saving(q)
      BY Zenon, <3>3 DEF SnapperSaving
    <3>5. sn[q].pc \notin {"file", "record"}
      BY Zenon, <3>4 DEF Saving
    <3>6. sn[q].pc = "create" => sn[q].index < mem'.snap
      BY <1>1, <1>3, <3>1, <3>2, <3>3 DEF Indexed
    <3> QED BY Zenon, <1>5, <3>5, <3>6
  <2>3. CASE unloaded => unloaded'
    <3>1. sn[q].pc = "record" => files' = files
      BY Zenon, <1>5, FilesHeld DEF Saving
    <3>2. sn[q].pc = "create" /\ sn[q].index < mem.snap => sn[q].index < mem'.snap
      BY <1>1, <1>3, <2>1 DEF Indexed
    <3> QED BY Zenon, <1>2, <1>5, <2>3, <3>1, <3>2
  <2> QED BY Zenon, <2>2, <2>3, Unloading
<1>6. CASE QSteps(q)
  <2>1. CASE QConf(q) \/ QLooks(q) \/ QDecides(q) \/ QRecords(q)
    <3>1. QConf(q) => sn'[q].pc = "snap"
      BY DEF QConf
    <3>2. QLooks(q) => sn'[q].pc = "applied"
      BY DEF QLooks
    <3>3. QDecides(q) => sn'[q].pc = "backup"
      BY DEF QDecides
    <3>4. QRecords(q) => sn'[q].pc = "install"
      BY DEF QRecords
    <3> QED BY Zenon, <2>1, <3>1, <3>2, <3>3, <3>4
  <2>2. CASE QBacks(q)
    <3>1. /\ sn[q].pc = "backup" /\ unloaded' = unloaded
          /\ sn'[q] = [pc |-> "create", index |-> sn[q].index, snap |-> Snap(db, sn[q].conf)]
      BY Zenon, <2>2 DEF QBacks, pastVars
    <3>2. sn'[q].pc = "create" /\ sn'[q].index = sn[q].index /\ sn'[q].snap.data = db
      BY <3>1 DEF Snap
    <3>3. DataAt(sn[q].index) \subseteq DataAt(applied)
      BY Zenon, <1>1, <1>3, <3>1, DataGrows DEF Indexed
    <3>4. ~unloaded => DataAt(sn[q].index) \subseteq db
      BY Zenon, <1>0, <3>3 DEF DbInv
    <3> QED BY Zenon, <3>1, <3>2, <3>4
  <2>3. CASE QCreates(q)
    <3>1. sn[q] \in [pc : {"create", "file"}, index : Index, snap : Snapshots]
      BY Zenon, <1>0, <2>3 DEF QCreates, SnTypes, Snapper
    <3>2. /\ sn'[q].pc = "file" /\ sn'[q].index = sn[q].index /\ sn'[q].snap = sn[q].snap
          /\ sn[q].pc = "create" /\ sn[q].index \in mem.snap..mem.last
      BY Zenon, <2>3, <3>1 DEF QCreates
    <3>3. unloaded' = unloaded
      BY Zenon, <2>3 DEF QCreates, pastVars
    <3>4. ~(sn[q].index < mem.snap)
      BY <1>1, <3>2
    <3> QED BY Zenon, <1>2, <3>2, <3>3, <3>4
  <2>4. CASE QWrites(q)
    <3>1. /\ sn[q].pc = "file" /\ SaveFile(sn[q].index, sn[q].snap) /\ unloaded' = unloaded
          /\ sn'[q] = [pc |-> "record", index |-> sn[q].index]
      BY Zenon, <2>4 DEF QWrites, pastVars
    <3>2. sn[q].index \in Index
      BY Zenon, <1>3, <3>1 DEF Indexed
    <3>3. DOMAIN files' = DOMAIN files \cup {sn[q].index} /\ files'[sn[q].index] = sn[q].snap
      BY Zenon, <1>0, <3>1, <3>2, FilesMove
    <3>4. sn'[q].pc = "record" /\ sn'[q].index = sn[q].index
      BY <3>1
    <3> QED BY Zenon, <1>2, <3>1, <3>3, <3>4
  <2> QED BY Zenon, <1>6, <2>1, <2>2, <2>3, <2>4 DEF QSteps
<1>7. SnMoves
  BY Zenon, <1>0, SnMoving
<1> QED BY Zenon, <1>4, <1>5, <1>6, <1>7 DEF SnMoves, SnQuiet

-----------------------------------------------------------------------------
(* The theorems. *)

\* The invariant holds of a member that has never run.
LEMMA InitInv == Init => IInv
<1> SUFFICES ASSUME Init PROVE IInv
  BY Zenon
<1>0. MaxIndex \in Nat /\ 0 \in Index /\ MaxFaults \in Nat /\ 0 \in 0..MaxFaults
  BY Constants DEF Index
<1>1. /\ records = {0} /\ wal = [i \in {} |-> 0] /\ hard = 0 /\ released = 0 /\ db = {}
      /\ mem = [snap |-> 0, last |-> 0] /\ applied = 0 /\ pc = "down" /\ acked = 0 /\ restoring = {}
      /\ sn = [s \in Snappers |-> Asleep]
  BY Zenon DEF Init
<1>2. DOMAIN files = {0} /\ files[0] = Snap({}, 0) /\ DOMAIN wal = {}
  BY Zenon DEF Init
<1>3. DiskTypes
  <2>1. files[0] \in Snapshots
    BY <1>0, <1>2 DEF Snap, Snapshots
  <2> QED BY Zenon, <1>0, <1>1, <1>2, <2>1 DEF DiskTypes, WalType
<1>4. NodeTypes
  BY <1>0 DEF Init, NodeTypes, Busy
<1>5. PastTypes
  BY Zenon, <1>0 DEF Init, PastTypes
<1>6. \A s \in Snappers : sn[s] = [pc |-> "idle"]
  BY Zenon, <1>1 DEF Asleep
<1>7. SnTypes
  BY Zenon, <1>1 DEF SnTypes, Snapper, Asleep
<1>8. Mutex
  BY <1>1, <1>6 DEF Mutex, LoopSaving, SnapperSaving, Saving
<1>9. ReadyInv /\ OrderInv
  BY <1>1 DEF ReadyInv, OrderInv, BeforeHard, BeforeApply, Busy, Ahead
<1>10. SnapperInv /\ TakenInv
  BY <1>6 DEF SnapperInv, TakenInv, Saving, Indexed
<1>11. Covered = 0
  BY Zenon, <1>1, <1>3, CoveredIs
<1>12. WalInv
  BY <1>1, <1>2, <1>11 DEF WalInv, Gapless, Replays, Reads, BeforeHard
<1>13. DataAt(0) = {}
  BY DEF DataAt
<1>14. DbInv
  BY <1>1, <1>13 DEF DbInv
<1>15. FilesInv
  BY Zenon, <1>1, <1>2, <1>11, <1>13 DEF FilesInv, Complete, BeforeApply
<1> QED BY Zenon, <1>3, <1>4, <1>5, <1>7, <1>8, <1>9, <1>10, <1>12, <1>14, <1>15 DEF IInv, TypeInv

\* Every step keeps the invariant, and so it always holds.
LEMMA AlwaysInv == Spec => []IInv
<1>1. IInv /\ [Next]_vars => IInv'
  BY Zenon, DiskTypesStep, NodeTypesStep, PastTypesStep, SnTypesStep, MutexStep, ReadyStep, SnapperInvStep,
     OrderStep, WalStep, DbStep, FilesStep, TakenStep DEF IInv, TypeInv
<1> QED BY <1>1, InitInv, PTL DEF Spec

\* The variables hold values of their types, and SaveState and the goroutines that run
\* Storage.CreateSnapshot exclude each other.
THEOREM ReplicaTypeCorrect == Spec => []TypeOK
<1>1. IInv => TypeOK
  <2> SUFFICES ASSUME IInv PROVE TypeOK
    BY Zenon
  <2>1. DiskTypes /\ NodeTypes /\ PastTypes /\ Mutex
    BY Zenon DEF IInv, TypeInv
  <2>2. /\ records \subseteq 0..MaxIndex /\ DOMAIN files \subseteq 0..MaxIndex
        /\ \A i \in DOMAIN files : files[i] \in [data : SUBSET (1..MaxIndex), conf : 0..MaxIndex]
        /\ DOMAIN wal \subseteq 1..MaxIndex /\ \A i \in DOMAIN wal : wal[i] < i
    BY Zenon, <2>1 DEF DiskTypes, WalType, Snapshots, Index
  <2>3. {hard, released, applied, conf, acked} \cup restoring \subseteq 0..MaxIndex
    BY Zenon, <2>1 DEF DiskTypes, NodeTypes, PastTypes, Index
  <2> QED BY Zenon, <2>1, <2>2, <2>3 DEF TypeOK, DiskTypes, NodeTypes, PastTypes, Mutex, Index
<1> QED BY <1>1, AlwaysInv, PTL

\* Wherever the process dies, Initialize finds a log without a gap that reaches the hard state
\* and everything acknowledged, and that Release has not given up.
THEOREM RestartsSoundly == Spec => []RestartSound
<1>1. IInv => RestartSound
  <2> SUFFICES ASSUME IInv, records \subseteq DOMAIN files
               PROVE  Openable /\ released <= Newest /\ acked <= LastReplayed
    BY Zenon DEF RestartSound
  <2>1. DiskTypes /\ PastTypes /\ WalInv /\ hard \in Nat /\ acked \in Nat
    BY Constants DEF IInv, TypeInv, DiskTypes, PastTypes, Index
  <2>2. Newest = Covered
    BY Zenon, <2>1, NewestIs
  <2>3. Gapless(wal, Newest) /\ released <= Newest /\ Reads(wal, Newest, hard) /\ Reads(wal, Newest, acked)
    BY Zenon, <2>1, <2>2 DEF WalInv, Replays
  <2> QED BY Zenon, <2>1, <2>3, ReplayIs DEF Openable
<1> QED BY <1>1, AlwaysInv, PTL

\* The database holds the effect of every entry up to the applied index, unless a restore was
\* cut short.
THEOREM DatabaseHoldsApplied == Spec => []DbHoldsApplied
<1>1. IInv => DbHoldsApplied
  BY Zenon DEF IInv, DbInv, DbHoldsApplied
<1> QED BY <1>1, AlwaysInv, PTL

\* The snapshot a restart begins with holds everything up to its index, although it was taken
\* beside a loop that applies, restores and stops.
THEOREM SnapshotsComplete == Spec => []SnapshotComplete
<1>1. IInv => SnapshotComplete
  <2> SUFFICES ASSUME IInv, ~unloaded, records \subseteq DOMAIN files
               PROVE  DataAt(Newest) \subseteq files[Newest].data
    BY Zenon DEF SnapshotComplete
  <2>1. Newest = Covered /\ Newest \in DOMAIN files
    BY Zenon, NewestIs DEF IInv, TypeInv
  <2> QED BY Zenon, <2>1 DEF IInv, FilesInv, Complete
<1> QED BY <1>1, AlwaysInv, PTL

\* The entries of a Ready follow the applied index, and none of them is in memStorage's
\* snapshot: getEntriesToApply neither panics nor skips.
THEOREM AppliedInOrder == Spec => []AppliesInOrder
<1>1. IInv => AppliesInOrder
  <2> SUFFICES ASSUME IInv, pc = "send", rd.lo <= rd.hi
               PROVE  rd.lo = applied + 1 /\ rd.lo > mem.snap
    BY Zenon DEF AppliesInOrder
  <2>1. DiskTypes /\ NodeTypes /\ ReadyInv /\ OrderInv
    BY Zenon DEF IInv, TypeInv
  <2>2. rd.lo \in Nat /\ rd.hi \in Nat /\ rd.snap \in Nat /\ applied \in Nat /\ mem.snap \in Nat
    BY Zenon, <2>1, RdFields, Numbers DEF Busy
  <2>3. rd.snap = 0
    BY <2>1, <2>2 DEF ReadyInv, Busy
  <2>4. rd.lo = applied + 1 /\ mem.snap <= applied
    BY Zenon, <2>1, <2>3 DEF ReadyInv, OrderInv, BeforeApply
  <2> QED BY <2>2, <2>4
<1> QED BY <1>1, AlwaysInv, PTL
=============================================================================
