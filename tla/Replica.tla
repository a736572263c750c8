------------------------------ MODULE Replica ------------------------------
(***************************************************************************)
(* What one member of the cluster keeps on disk and how it comes back      *)
(* after a crash: the ready loop of node.go, the Storage of storage.go     *)
(* over the Wal of wal.go, the background snapshots of                     *)
(* takeSnapshotIfNeeded, and the restore of replication.go.                *)
(*                                                                         *)
(* The raft library decides which entries there are.  An entry is its      *)
(* index: what the members agree on is not the subject here.  The database *)
(* is the set of the entries whose effect it holds.  A configuration is    *)
(* the index of the last membership change it includes.                    *)
(*                                                                         *)
(*   pc         where the ready loop is                                    *)
(*   down       the process is not running                                 *)
(*   select     in the select of readyHandler                              *)
(*   save       processReady holds a Ready, SaveState not yet entered      *)
(*   file       SaveState has truncated the snapshot file it writes        *)
(*   record     SaveState has written the snapshot file                    *)
(*   entries    SaveState is writing entries and hard state to the WAL     *)
(*   memory     SaveState has the WAL synced, memStorage is behind         *)
(*   send       SaveState has returned, messages not yet sent              *)
(*   restore    applySnapshotToFSM is about to drop the database           *)
(*   load       the database is dropped, the snapshot not yet loaded       *)
(*   apply      applyEntries runs                                          *)
(*   advance    everything is applied, Advance not yet called              *)
(*   removed    this member applied its own removal                        *)
(*   stopped    the loop returned on an error and Stop closed the storage  *)
(***************************************************************************)
EXTENDS Integers, FiniteSetsExt, Functions

CONSTANTS
  MaxIndex,       \* bound: the last index of the log
  ConfChanges,    \* the entries that change the membership
  SelfRemoval,    \* the one that removes this member, 0 if there is none
  Poison,         \* the entries on which FSM.Apply returns an error
  Installs,       \* the indexes at which the leader may send a snapshot
  SnapshotCount,  \* defaultSnapshotCount
  WordSize,       \* indexes are unsigned words: arithmetic is modulo this
  Snappers,       \* bound: goroutines that may run takeSnapshotIfNeeded at once
  MaxFaults       \* bound: crashes and failed system calls

ASSUME ReplicaAssumption ==
  /\ MaxIndex \in Nat \ {0} /\ SnapshotCount \in Nat \ {0}
  /\ ConfChanges \subseteq 1..MaxIndex /\ SelfRemoval \in ConfChanges \cup {0}
  /\ Poison \subseteq (1..MaxIndex) \ ConfChanges
  /\ Installs \subseteq 1..MaxIndex
  /\ WordSize \in Nat /\ WordSize > MaxIndex + SnapshotCount
  /\ MaxFaults \in Nat

VARIABLES
  files,      \* disk: the snapshot files that can be read, by index
  records,    \* disk: the snapshot records of the WAL
  wal,        \* disk: the entries of the WAL, each with the highest index that a
              \* later record has overridden below it, or 0
  hard,       \* disk: the commit index of the last hard state in the WAL
  released,   \* disk: the index up to which the WAL may be purged
  db,         \* disk: the database
  mem,        \* memStorage: its snapshot's index and its last index
  raft,       \* raft.Node: the commit index, and what Advance said is applied
  applied,    \* node.appliedIndex
  conf,       \* node.confState
  pc,         \* where the ready loop is
  rd,         \* the Ready being processed
  sn,         \* the goroutines of takeSnapshotIfNeeded
  acked,      \* history: the highest index this member told its present leader it has
  restoring,  \* history: received snapshots with a record, neither loaded nor overtaken
  unloaded,   \* history: the database was dropped, or passed over, and not loaded
  faults      \* how many crashes and errors there have been

diskVars == <<files, records, wal, hard, released, db>>
nodeVars == <<mem, raft, applied, conf, pc, rd>>
pastVars == <<acked, restoring, unloaded, faults>>
vars     == <<diskVars, nodeVars, sn, pastVars>>

-----------------------------------------------------------------------------
(* Snapshots. *)

\* A snapshot's data and the ConfState of its metadata.
Snap(data, confState) == [data |-> data, conf |-> confState]

\* What the database holds, and the configuration, once 1..i are applied.
DataAt(i) == (1..i) \ ConfChanges
ConfAt(i) == Max({0} \cup {c \in ConfChanges : c <= i})

\* snapshotter.SaveSnap: a file is named after its index.  WriteAndSyncFile
\* first truncates a file of that name, which no longer passes its checksum until
\* all is written; after an error it is removed.
Truncate(i) == files' = Restrict(files, DOMAIN files \ {i})
SaveFile(i, snap) ==
  files' = [j \in DOMAIN files \cup {i} |-> IF j = i THEN snap ELSE files[j]]

\* ValidSnapshotEntries and LoadNewestAvailable: the newest snapshot record
\* that the hard state covers and that has a file.  Index 0 stands for none.
Newest == Max({i \in records \cap DOMAIN files : i <= hard})

\* ReadAll from that snapshot on.  An entry drops those read before it from its
\* index on; one at or below the snapshot is skipped and drops nothing.
Replayed == {i \in DOMAIN wal : i > Newest /\ wal[i] <= Newest}
LastReplayed == Max({Newest} \cup Replayed)

\* ReadAll refuses a log with a gap; newRaft panics on a commit index
\* beyond the log.
Openable == Replayed = (Newest + 1)..LastReplayed /\ hard <= LastReplayed

\* memStorage.ApplySnapshot replaces whatever entries the storage holds; it
\* refuses a snapshot that is not newer than its own (ErrSnapOutOfDate).
ApplySnapshot(m, i) == IF i > m.snap THEN [snap |-> i, last |-> i] ELSE m

-----------------------------------------------------------------------------
(* Starting and dying. *)

NoReady == [snap |-> 0]
Asleep  == [pc |-> "idle"]

\* newWal, Initialize, RestartNode and the head of readyHandler.
Start ==
  /\ pc = "down" /\ Openable
  /\ mem' = [snap |-> Newest, last |-> LastReplayed]
  /\ raft' = [commit |-> hard, applied |-> Newest]
  /\ applied' = Newest
  /\ conf' = files[Newest].conf
  /\ pc' = "select"
  /\ unloaded' = (unloaded \/ Newest \in restoring)
  /\ UNCHANGED <<diskVars, rd, sn, acked, restoring, faults>>

\* The process ends, and with it all that is not on disk.
Die ==
  /\ pc' = "down"
  /\ mem' = [snap |-> 0, last |-> 0] /\ raft' = [commit |-> 0, applied |-> 0]
  /\ applied' = 0 /\ conf' = 0 /\ rd' = NoReady
  /\ sn' = [s \in Snappers |-> Asleep]

Crash ==
  /\ pc # "down" /\ faults < MaxFaults
  /\ faults' = faults + 1
  /\ Die
  /\ UNCHANGED <<diskVars, acked, restoring, unloaded>>

\* raft panics when its storage has lost entries it relies on: on a commit
\* index of its own, or of its leader's, that lies beyond the storage.
RaftPanic ==
  /\ pc = "select"
  /\ Max({raft.commit, acked}) > mem.last
  /\ Die
  /\ UNCHANGED <<diskVars, pastVars>>

\* The deferred Stop of readyHandler, after processReady returned an error.
Stopped == pc' = "stopped" /\ rd' = NoReady

\* A system call of SaveState, or of Restore, fails.
StorageError ==
  /\ pc \in {"file", "record", "entries", "restore", "load"}
  /\ faults < MaxFaults
  /\ faults' = faults + 1
  /\ Stopped
  /\ UNCHANGED <<diskVars, mem, raft, applied, conf, sn, acked, restoring, unloaded>>

-----------------------------------------------------------------------------
(* processReady: SaveState. *)

\* CreateSnapshot and SaveState exclude each other with s.mu.
Saving(s)     == sn[s].pc \in {"file", "record", "install"}
SnapperSaving == \E s \in Snappers : Saving(s)
LoopSaving    == pc \in {"file", "record", "entries", "memory"}

\* A Ready with new entries, a new commit index, or entries to apply.  Entries
\* follow the last one of memStorage: after it has lost some, only a new leader,
\* which knows nothing of earlier answers, sends them.
ReadyEntries ==
  /\ pc = "select" /\ raft.commit <= mem.last
  /\ \E last \in mem.last..MaxIndex, commit \in raft.commit..MaxIndex, hi \in 0..MaxIndex :
       /\ commit <= last /\ hi <= commit
       /\ IF commit > raft.applied THEN hi > raft.applied ELSE hi = raft.applied
       /\ last > mem.last \/ commit > raft.commit \/ hi > raft.applied
       /\ rd' = [snap |-> 0, from |-> mem.last + 1, next |-> mem.last + 1,
                 last |-> last, commit |-> commit,
                 lo |-> raft.applied + 1, hi |-> hi, removed |-> FALSE]
       /\ raft' = [raft EXCEPT !.commit = commit]
       /\ acked' = IF last > mem.last THEN Min({acked, mem.last}) ELSE acked
  /\ pc' = "save"
  /\ UNCHANGED <<diskVars, mem, applied, conf, sn, restoring, unloaded, faults>>

\* A Ready with a snapshot of the leader's, which raft accepts only when it is
\* beyond the log.  The leader's backup may hold later entries too, and
\* getMessagesToPublish gave it the leader's current ConfState.
ReadySnapshot ==
  /\ pc = "select" /\ raft.commit <= mem.last
  /\ \E i \in Installs, d, c \in 1..MaxIndex :
       /\ i > mem.last /\ d >= i /\ c >= i
       /\ rd' = [snap |-> i, file |-> Snap(DataAt(d), ConfAt(c)),
                 from |-> i + 1, next |-> i + 1, last |-> i, commit |-> i,
                 lo |-> i + 1, hi |-> i, removed |-> FALSE]
       /\ raft' = [raft EXCEPT !.commit = i]
  /\ pc' = "save"
  /\ UNCHANGED <<diskVars, mem, applied, conf, sn, pastVars>>

\* SaveState takes s.mu; with a snapshot, SaveSnap first writes its file ...
SaveSnapFile ==
  /\ pc = "save" /\ ~SnapperSaving
  /\ IF rd.snap = 0 THEN pc' = "entries" /\ UNCHANGED files
     ELSE pc' = "file" /\ Truncate(rd.snap)
  /\ UNCHANGED <<records, wal, hard, released, db, mem, raft, applied, conf, rd, sn, pastVars>>

WriteSnapFile ==
  /\ pc = "file"
  /\ SaveFile(rd.snap, rd.file)
  /\ pc' = "record"
  /\ UNCHANGED <<records, wal, hard, released, db, mem, raft, applied, conf, rd, sn, pastVars>>

\* ... and then its record.
SaveSnapRecord ==
  /\ pc = "record"
  /\ records' = records \cup {rd.snap}
  /\ restoring' = restoring \cup {rd.snap}
  /\ pc' = "entries"
  /\ UNCHANGED <<files, wal, hard, released, db, mem, raft, applied, conf, rd, sn,
                 acked, unloaded, faults>>

\* wal.Save writes the entries one by one: a crash leaves the first of them.
\* An entry overrides the one with its index and all after it.
SaveEntry ==
  /\ pc = "entries" /\ rd.next <= rd.last
  /\ wal' = [i \in DOMAIN wal \cup {rd.next} |->
               IF i = rd.next THEN 0 ELSE IF i > rd.next THEN Max({wal[i], rd.next}) ELSE wal[i]]
  /\ rd' = [rd EXCEPT !.next = @ + 1]
  /\ UNCHANGED <<files, records, hard, released, db, mem, raft, applied, conf, pc, sn, pastVars>>

\* MUTANT: the hard state reaches the WAL before the entries it commits.
SaveHardStateFirst ==
  /\ pc = "entries"
  /\ hard' = rd.commit
  /\ released' = Max({released, rd.snap})
  /\ pc' = IF rd.next > rd.last THEN "memory" ELSE "entries"
  /\ UNCHANGED <<files, records, wal, db, mem, raft, applied, conf, rd, sn, pastVars>>

\* The hard state follows the entries, then Sync and Release.
SaveHardState ==
  /\ pc = "entries" /\ rd.next > rd.last
  /\ hard' = rd.commit
  /\ released' = Max({released, rd.snap})
  /\ pc' = "memory"
  /\ UNCHANGED <<files, records, wal, db, mem, raft, applied, conf, rd, sn, pastVars>>

\* memStorage follows the WAL: ApplySnapshot, SetHardState, Append.
SaveMemory ==
  /\ pc = "memory"
  /\ LET m == ApplySnapshot(mem, rd.snap)
     IN  /\ rd.last < rd.from \/ rd.from <= m.last + 1
         /\ mem' = IF rd.last < rd.from THEN m ELSE [m EXCEPT !.last = rd.last]
  /\ pc' = "send"
  /\ UNCHANGED <<diskVars, raft, applied, conf, rd, sn, pastVars>>

\* memStorage.Append panics when the first entry does not follow its last.
AppendPanic ==
  /\ pc = "memory"
  /\ rd.from <= rd.last /\ rd.from > ApplySnapshot(mem, rd.snap).last + 1
  /\ Die
  /\ UNCHANGED <<diskVars, pastVars>>

\* transport.Send: among the messages, the answer that this member has the log.
Send ==
  /\ pc = "send"
  /\ acked' = Max({acked, rd.last})
  /\ pc' = IF rd.snap = 0 THEN "apply" ELSE "restore"
  /\ UNCHANGED <<diskVars, mem, raft, applied, conf, rd, sn, restoring, unloaded, faults>>

-----------------------------------------------------------------------------
(* processReady: the state machine. *)

\* applySnapshotToFSM refuses a snapshot that is not ahead; Restore drops the
\* database ...
DropAll ==
  /\ pc = "restore"
  /\ IF rd.snap <= applied THEN Stopped /\ UNCHANGED <<db, unloaded>>
     ELSE db' = {} /\ unloaded' = TRUE /\ pc' = "load" /\ UNCHANGED rd
  /\ UNCHANGED <<files, records, wal, hard, released, mem, raft, applied, conf, sn,
                 acked, restoring, faults>>

\* ... and loads the snapshot.
Load ==
  /\ pc = "load"
  /\ db' = db \cup rd.file.data
  /\ applied' = rd.snap
  /\ conf' = rd.file.conf
  /\ restoring' = {i \in restoring : i > rd.snap} /\ unloaded' = FALSE
  /\ pc' = "apply"
  /\ UNCHANGED <<files, records, wal, hard, released, mem, raft, rd, sn, acked, faults>>

\* MUTANT: the applied index moves with the first entry of a batch.
ApplyEntryEarly ==
  /\ pc = "apply" /\ rd.lo <= rd.hi
  /\ db' = IF rd.lo <= applied THEN db ELSE db \cup ({rd.lo} \ ConfChanges)
  /\ rd' = [rd EXCEPT !.lo = @ + 1]
  /\ applied' = rd.hi
  /\ UNCHANGED <<files, records, wal, hard, released, mem, raft, conf, pc, sn, pastVars>>

\* applyEntries, one entry: FSM.Apply, or applyConfChange.  What is already
\* applied is left out (getEntriesToApply, applyNormalEntry).  An error ends
\* the loop with the batch half applied.
ApplyEntry ==
  /\ pc = "apply" /\ rd.lo <= rd.hi
  /\ \/ /\ rd.lo \in Poison /\ rd.lo > applied
        /\ Stopped /\ UNCHANGED <<db, conf>>
     \/ /\ rd.lo \notin Poison \/ rd.lo <= applied
        /\ db' = IF rd.lo <= applied THEN db ELSE db \cup ({rd.lo} \ ConfChanges)
        /\ conf' = IF rd.lo > applied /\ rd.lo \in ConfChanges THEN rd.lo ELSE conf
        /\ rd' = [rd EXCEPT !.lo = @ + 1,
                            !.removed = IF rd.lo \in ConfChanges THEN rd.lo = SelfRemoval ELSE @]
        /\ UNCHANGED pc
  /\ UNCHANGED <<files, records, wal, hard, released, mem, raft, applied, sn, pastVars>>

\* The end of applyEntries, and scheduleSelfRemoval if the last membership
\* change of the batch removed this member.
ApplyDone ==
  /\ pc = "apply" /\ rd.lo > rd.hi
  /\ applied' = rd.hi
  /\ pc' = IF rd.removed THEN "removed" ELSE "advance"
  /\ restoring' = {i \in restoring : i > rd.hi}
  /\ UNCHANGED <<diskVars, mem, raft, conf, rd, sn, acked, unloaded, faults>>

\* MUTANT: raft is not told what is applied.
AdvanceForgotten ==
  /\ pc = "advance"
  /\ pc' = "select" /\ rd' = NoReady
  /\ UNCHANGED <<diskVars, mem, raft, applied, conf, sn, pastVars>>

\* go takeSnapshotIfNeeded, and Advance.
Advance ==
  /\ pc = "advance"
  /\ \/ \E s \in Snappers : sn[s] = Asleep /\ sn' = [sn EXCEPT ![s] = [pc |-> "start"]]
     \/ (\A s \in Snappers : sn[s] # Asleep) /\ UNCHANGED sn
  /\ raft' = [raft EXCEPT !.applied = rd.hi]
  /\ pc' = "select" /\ rd' = NoReady
  /\ UNCHANGED <<diskVars, mem, applied, conf, pastVars>>

-----------------------------------------------------------------------------
(* takeSnapshotIfNeeded, in a goroutine of its own. *)

Minus(a, b) == (a - b) % WordSize

ReadConfState(s) ==
  /\ sn[s].pc = "start"
  /\ sn' = [sn EXCEPT ![s] = [pc |-> "snap", conf |-> conf]]
  /\ UNCHANGED <<diskVars, nodeVars, pastVars>>

\* LastSnapshotIndex does not wait for s.mu.
ReadSnapshotIndex(s) ==
  /\ sn[s].pc = "snap"
  /\ sn' = [sn EXCEPT ![s] = [pc |-> "applied", conf |-> @.conf, snap |-> mem.snap]]
  /\ UNCHANGED <<diskVars, nodeVars, pastVars>>

\* The difference of two indexes is unsigned.
ReadApplied(s) ==
  /\ sn[s].pc = "applied"
  /\ sn' = [sn EXCEPT ![s] = IF Minus(applied, @.snap) < SnapshotCount THEN Asleep
                             ELSE [pc |-> "backup", conf |-> @.conf, index |-> applied]]
  /\ UNCHANGED <<diskVars, nodeVars, pastVars>>

\* FSM.CreateSnapshot: a backup of the database as it is now.
Backup(s) ==
  /\ sn[s].pc = "backup"
  /\ sn' = [sn EXCEPT ![s] = [pc |-> "create", index |-> @.index, snap |-> Snap(db, @.conf)]]
  /\ UNCHANGED <<diskVars, nodeVars, pastVars>>

\* MUTANT: a snapshot is written while SaveState holds s.mu.
CreateSnapshotUnlocked(s) ==
  /\ sn[s].pc = "create" /\ ~SnapperSaving
  /\ Truncate(sn[s].index)
  /\ sn' = [sn EXCEPT ![s].pc = "file"]
  /\ UNCHANGED <<records, wal, hard, released, db, nodeVars, pastVars>>

\* MUTANT: the snapshot gets the index applied by now, not before the backup.
CreateSnapshotReread(s) ==
  /\ sn[s].pc = "create" /\ ~LoopSaving /\ ~SnapperSaving
  /\ applied \in mem.snap..mem.last
  /\ Truncate(applied)
  /\ sn' = [sn EXCEPT ![s].pc = "file", ![s].index = applied]
  /\ UNCHANGED <<records, wal, hard, released, db, nodeVars, pastVars>>

\* Storage.CreateSnapshot takes s.mu and asks for the term of the index, which
\* memStorage has only from its snapshot to its last entry; then SaveSnap.
CreateSnapshot(s) ==
  /\ sn[s].pc = "create" /\ ~LoopSaving /\ ~SnapperSaving
  /\ IF sn[s].index \in mem.snap..mem.last
     THEN Truncate(sn[s].index) /\ sn' = [sn EXCEPT ![s].pc = "file"]
     ELSE sn' = [sn EXCEPT ![s] = Asleep] /\ UNCHANGED files
  /\ UNCHANGED <<records, wal, hard, released, db, nodeVars, pastVars>>

CreateFile(s) ==
  /\ sn[s].pc = "file"
  /\ SaveFile(sn[s].index, sn[s].snap)
  /\ sn' = [sn EXCEPT ![s] = [pc |-> "record", index |-> @.index]]
  /\ UNCHANGED <<records, wal, hard, released, db, nodeVars, pastVars>>

\* A write of SaveSnap fails: takeSnapshotIfNeeded logs it and gives up.
CreateError(s) ==
  /\ sn[s].pc \in {"file", "record"} /\ faults < MaxFaults
  /\ faults' = faults + 1
  /\ sn' = [sn EXCEPT ![s] = Asleep]
  /\ UNCHANGED <<diskVars, nodeVars, acked, restoring, unloaded>>

\* After Stop has closed the WAL the record cannot be written.
CreateRecord(s) ==
  /\ sn[s].pc = "record"
  /\ IF pc = "stopped"
     THEN sn' = [sn EXCEPT ![s] = Asleep] /\ UNCHANGED records
     ELSE /\ records' = records \cup {sn[s].index}
          /\ sn' = [sn EXCEPT ![s] = [pc |-> "install", index |-> @.index]]
  /\ UNCHANGED <<files, wal, hard, released, db, nodeVars, pastVars>>

\* ApplySnapshot, Sync, Release, and compact, which finds nothing left to do:
\* ApplySnapshot has already taken every entry.
InstallSnapshot(s) ==
  /\ sn[s].pc = "install"
  /\ mem' = ApplySnapshot(mem, sn[s].index)
  /\ released' = Max({released, sn[s].index})
  /\ sn' = [sn EXCEPT ![s] = Asleep]
  /\ UNCHANGED <<files, records, wal, hard, db, raft, applied, conf, pc, rd,
                 acked, restoring, unloaded, faults>>

-----------------------------------------------------------------------------
Init ==
  /\ files = [i \in {0} |-> Snap({}, 0)] /\ records = {0} /\ wal = [i \in {} |-> 0]
  /\ hard = 0 /\ released = 0 /\ db = {}
  /\ mem = [snap |-> 0, last |-> 0] /\ raft = [commit |-> 0, applied |-> 0]
  /\ applied = 0 /\ conf = 0 /\ pc = "down" /\ rd = NoReady
  /\ sn = [s \in Snappers |-> Asleep]
  /\ acked = 0 /\ restoring = {} /\ unloaded = FALSE /\ faults = 0

LoopStep ==
  \/ Start \/ RaftPanic \/ ReadyEntries \/ ReadySnapshot
  \/ SaveSnapFile \/ WriteSnapFile \/ SaveSnapRecord \/ SaveEntry \/ SaveHardState
  \/ SaveMemory \/ AppendPanic \/ Send
  \/ DropAll \/ Load \/ ApplyEntry \/ ApplyDone \/ Advance

SnapperStep(s) ==
  \/ ReadConfState(s) \/ ReadSnapshotIndex(s) \/ ReadApplied(s) \/ Backup(s)
  \/ CreateSnapshot(s) \/ CreateFile(s) \/ CreateRecord(s) \/ InstallSnapshot(s)

Next ==
  \/ LoopStep
  \/ \E s \in Snappers : SnapperStep(s) \/ CreateError(s)
  \/ Crash \/ StorageError

Spec == Init /\ [][Next]_vars

\* The runtime schedules every goroutine that can run, and whoever operates the
\* member starts it again after it died.
FairSpec ==
  /\ Spec
  /\ WF_vars(LoopStep)
  /\ \A s \in Snappers : WF_vars(SnapperStep(s))

-----------------------------------------------------------------------------
(* Properties. *)

\* The variables hold values of their types, and no goroutine is inside
\* Storage's mutex together with another one.
TypeOK ==
  /\ records \subseteq 0..MaxIndex /\ DOMAIN files \subseteq 0..MaxIndex
  /\ \A i \in DOMAIN files : files[i] \in [data : SUBSET (1..MaxIndex), conf : 0..MaxIndex]
  /\ DOMAIN wal \subseteq 1..MaxIndex /\ \A i \in DOMAIN wal : wal[i] < i
  /\ db \subseteq 1..MaxIndex
  /\ {hard, released, applied, conf, acked} \cup restoring \subseteq 0..MaxIndex
  /\ mem \in [snap : 0..MaxIndex, last : 0..MaxIndex] /\ mem.snap <= mem.last
  /\ raft \in [commit : 0..MaxIndex, applied : 0..MaxIndex]
  /\ unloaded \in BOOLEAN /\ faults \in 0..MaxFaults
  /\ ~(LoopSaving /\ SnapperSaving)
  /\ \A s, t \in Snappers : Saving(s) /\ Saving(t) => s = t

\* Were the process to die in this very state, Initialize would succeed: the
\* newest usable snapshot is followed in the WAL by entries without a gap, up to
\* the commit index at least; it needs nothing that Release gave up; and the log
\* ends no earlier than this member told its leader.  The one exception: SaveSnap
\* writes again, in place, the file of a snapshot that is already recorded.
RestartSound ==
  records \subseteq DOMAIN files =>
    /\ Openable
    /\ released <= Newest
    /\ acked <= LastReplayed

\* The database holds the effect of every entry up to the applied index, no
\* matter where crashes interrupted the ready loop, unless a restore was cut short:
\* the database dropped, or a received snapshot taken as applied by a restart,
\* and nothing loaded since.
DbHoldsApplied == ~unloaded => DataAt(applied) \subseteq db

\* The snapshot a restart would begin with holds everything up to its index,
\* although it was taken beside a loop that goes on applying, restoring and
\* stopping; with the exceptions of the two properties above.
SnapshotComplete ==
  ~unloaded /\ records \subseteq DOMAIN files => DataAt(Newest) \subseteq files[Newest].data

\* getEntriesToApply neither panics on a gap nor finds an entry applied before,
\* and no entry that the newest snapshot in memory covers is applied again.
AppliesInOrder == pc = "send" /\ rd.lo <= rd.hi => rd.lo = applied + 1 /\ rd.lo > mem.snap

\* Every entry that this member knows to be committed is applied in the end,
\* as long as it is a member, its loop has not stopped on an error and it can be
\* started (RestartSound): crashes, panics and failed snapshots only delay it.
CommittedApplied ==
  \A i \in 1..MaxIndex : hard >= i ~>
    (applied >= i \/ pc \in {"removed", "stopped"} \/ (pc = "down" /\ ~Openable))
=============================================================================
