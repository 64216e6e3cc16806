------------------------------- MODULE Journal -------------------------------
(***************************************************************************)
(* The journal of one pair (pkg/matching/wal.go) as the matching service   *)
(* uses it (cmd/matching-engine/service.go): a write-ahead log of commands *)
(* and a snapshot file, from which a restarted leader rebuilds the engine. *)
(*                                                                         *)
(* The engine is deterministic, so its state is represented by the         *)
(* sequence of commands it has executed; that a snapshot of the book       *)
(* restores the same book is MatchingEngine's RestoreRebuilds. A command   *)
(* (place or cancel) is a model value.                                     *)
(*                                                                         *)
(* The process may stop between any two system calls. The file system      *)
(* keeps, of the lines written since the last fsync, any prefix; and in    *)
(* the instances whose CrashForms says so, a fragment of the next line.    *)
(* Renaming the snapshot is taken to be atomic and durable.                *)
(*                                                                         *)
(* Operators named Wrong... are seeded faults, used only to test that the  *)
(* properties notice them.                                                 *)
(***************************************************************************)
EXTENDS Integers, Sequences

CONSTANTS Commands,
          MaxCommands,    \* bound on how many the engine executes
          SnapshotEvery,  \* MatchingService.snapshotEvery; 0 disables snapshots
          CrashForms,     \* what a crash may leave of the first line it loses,
                          \* and a write that fails of its own
          SyncResults     \* what fsync may return

\* "line": nothing of it; "torn": a part of it; "bare": all but the newline.
ASSUME FormsAssumption == "line" \in CrashForms /\ CrashForms \subseteq {"line", "torn", "bare"}
ASSUME SyncAssumption == "ok" \in SyncResults /\ SyncResults \subseteq {"ok", "error"}
ASSUME BoundsAssumption == MaxCommands \in Nat /\ SnapshotEvery \in Nat

VARIABLES
  \* on disk
  wal,       \* the lines of the log file
  synced,    \* how many of them fsync has made durable
  snap,      \* the snapshot file; sequence 0 and no commands if there is none
  \* in the process
  pc,        \* where the holder of the pair's lock is
  handle,    \* Journal.f and Journal.enc: open, failed (encoder error), closed
  engine,    \* the commands executed by pairEngine.engine
  lastSeq,   \* pairEngine.lastSeq, and OpenJournal's while it replays
  cursor,    \* OpenJournal: the next line to replay
  sinceSnapshot,  \* pairEngine.sinceSnapshot
  leaving,   \* the snapshot in progress is Deactivate's
  \* history variables
  history,   \* the commands accepted so far, as DurableLog sees them
  confirmed  \* the commands executed by a running engine and answered

disk == <<wal, synced, snap>>
vars == <<disk, pc, handle, engine, lastSeq, cursor, sinceSnapshot, leaving,
          history, confirmed>>

\* Between ReplayEnd and the crash or Deactivate that ends it, the engine
\* answers commands.
Running == pc \notin {"down", "replay"}

Init ==
  /\ wal = <<>> /\ synced = 0
  /\ snap = [seq |-> 0, state |-> <<>>]
  /\ pc = "down" /\ handle = "closed"
  /\ engine = <<>> /\ lastSeq = 0 /\ cursor = 1
  /\ sinceSnapshot = 0 /\ leaving = FALSE
  /\ history = <<>> /\ confirmed = <<>>

-----------------------------------------------------------------------------
(* OpenJournal, called by Activate. *)

WrongOpen ==
  /\ pc = "down"
  /\ pc' = "replay"
  /\ engine' = snap.state
  /\ lastSeq' = 0
  /\ UNCHANGED <<disk, cursor, handle, sinceSnapshot, leaving, history, confirmed>>

\* Engine.Restore of the snapshot, if there is one.
Open ==
  /\ pc = "down"
  /\ pc' = "replay"
  /\ engine' = snap.state
  /\ lastSeq' = snap.seq
  /\ UNCHANGED <<disk, cursor, handle, sinceSnapshot, leaving, history, confirmed>>

\* readWAL gives up at the first line that is not a JSON command.
Parses(line) == line.form \in {"line", "bare"}

MoreLines == cursor <= Len(wal) /\ Parses(wal[cursor])

WrongReplayLine ==
  /\ pc = "replay"
  /\ MoreLines
  /\ cursor' = cursor + 1
  /\ IF wal[cursor].seq < lastSeq
     THEN UNCHANGED <<engine, lastSeq>>
     ELSE /\ engine' = Append(engine, wal[cursor].cmd)
          /\ lastSeq' = wal[cursor].seq
  /\ UNCHANGED <<disk, pc, handle, sinceSnapshot, leaving, history, confirmed>>

\* One line: commands the snapshot already covers are skipped.
ReplayLine ==
  /\ pc = "replay"
  /\ MoreLines
  /\ cursor' = cursor + 1
  /\ IF wal[cursor].seq <= lastSeq
     THEN UNCHANGED <<engine, lastSeq>>
     ELSE /\ engine' = Append(engine, wal[cursor].cmd)
          /\ lastSeq' = wal[cursor].seq
  /\ UNCHANGED <<disk, pc, handle, sinceSnapshot, leaving, history, confirmed>>

\* The log is opened for append, as it is: what follows the last line that
\* was read is left there.
ReplayEnd ==
  /\ pc = "replay"
  /\ ~MoreLines
  /\ pc' = "idle"
  /\ handle' = "open"
  /\ cursor' = 1
  /\ history' = engine
  /\ UNCHANGED <<disk, engine, lastSeq, sinceSnapshot, leaving, confirmed>>

-----------------------------------------------------------------------------
(* handlePlace and handleCancel: Append, then Process or Cancel. *)

\* The encoder writes one line at the end of the file. After a line without
\* its newline the two become one line that is not JSON.
Unterminated == wal # <<>> /\ wal[Len(wal)].form \in {"torn", "bare"}

Written(line) ==
  IF Unterminated THEN [wal EXCEPT ![Len(wal)].form = "junk"] ELSE Append(wal, line)

Write(c) ==
  /\ pc = "idle" /\ handle = "open"
  /\ Len(engine) < MaxCommands
  /\ pc' = "written"
  /\ lastSeq' = lastSeq + 1
  /\ wal' = Written([seq |-> lastSeq', cmd |-> c, form |-> "line"])
  /\ history' = Append(engine, c)
  /\ UNCHANGED <<synced, snap, handle, engine, cursor, sinceSnapshot, leaving, confirmed>>

\* Seeded: the number that was taken back is taken back once more.
WrongWriteFails ==
  /\ pc = "idle" /\ handle = "open"
  /\ handle' = "failed"
  /\ lastSeq' = lastSeq - 1
  /\ UNCHANGED <<disk, pc, engine, cursor, sinceSnapshot, leaving, history, confirmed>>

\* The write fails: the sequence number is taken back, and the encoder returns
\* the same error from now on. The file keeps nothing of the line or, where the
\* instance has such lines, a part of it.
WriteFails ==
  /\ pc = "idle" /\ handle = "open"
  /\ handle' = "failed"
  /\ \/ UNCHANGED wal
     \/ \E c \in Commands :
          /\ "torn" \in CrashForms
          /\ wal' = Written([seq |-> lastSeq + 1, cmd |-> c, form |-> "torn"])
  /\ UNCHANGED <<synced, snap, pc, engine, lastSeq, cursor, sinceSnapshot, leaving, history,
                 confirmed>>

\* After a failed fsync the handler gives the sequence number back, although
\* the line is in the file.
Sync ==
  /\ pc = "written"
  /\ \E result \in SyncResults :
       /\ pc' = IF result = "ok" THEN "synced" ELSE "idle"
       /\ synced' = IF result = "ok" THEN Len(wal) ELSE synced
       /\ lastSeq' = IF result = "ok" THEN lastSeq ELSE lastSeq - 1
  /\ UNCHANGED <<wal, snap, handle, engine, cursor, sinceSnapshot, leaving, history,
                 confirmed>>

\* The command the handler holds is the last one accepted. maybeSnapshot
\* counts it.
Apply ==
  /\ pc = "synced"
  /\ engine' = Append(engine, history[Len(history)])
  /\ confirmed' = engine'
  /\ sinceSnapshot' = sinceSnapshot + 1
  /\ pc' = IF SnapshotEvery > 0 /\ sinceSnapshot' >= SnapshotEvery THEN "snapshot" ELSE "idle"
  /\ UNCHANGED <<disk, handle, lastSeq, cursor, leaving, history>>

-----------------------------------------------------------------------------
(* Journal.Snapshot, from maybeSnapshot or Deactivate. *)

\* The process, or Deactivate, gives up its memory of the pair.
Gone ==
  /\ pc' = "down" /\ handle' = "closed"
  /\ engine' = <<>> /\ lastSeq' = 0 /\ sinceSnapshot' = 0 /\ leaving' = FALSE

\* What follows a snapshot, complete or not: the handler returns, or
\* Deactivate closes the journal and drops the engine.
SnapshotReturns(h, since) ==
  \/ leaving /\ Gone
  \/ /\ ~leaving
     /\ pc' = "idle" /\ handle' = h /\ sinceSnapshot' = since
     /\ UNCHANGED <<engine, lastSeq, leaving>>

Deactivate ==
  /\ pc = "idle"
  /\ pc' = "snapshot"
  /\ leaving' = TRUE
  /\ UNCHANGED <<disk, handle, engine, lastSeq, cursor, sinceSnapshot, history, confirmed>>

\* The file is written beside the old one and renamed over it.
WrongRenameSnapshot ==
  /\ pc = "snapshot"
  /\ snap' = [seq |-> lastSeq + 1, state |-> engine]
  /\ pc' = "renamed"
  /\ confirmed' = engine
  /\ UNCHANGED <<wal, synced, handle, engine, lastSeq, cursor, sinceSnapshot, leaving,
                 history>>

RenameSnapshot ==
  /\ pc = "snapshot"
  /\ snap' = [seq |-> lastSeq, state |-> engine]
  /\ pc' = "renamed"
  /\ confirmed' = engine
  /\ UNCHANGED <<wal, synced, handle, engine, lastSeq, cursor, sinceSnapshot, leaving,
                 history>>

WrongSnapshotFails ==
  /\ pc = "snapshot"
  /\ pc' = "renamed"
  /\ UNCHANGED <<disk, handle, engine, lastSeq, cursor, sinceSnapshot, leaving, history,
                 confirmed>>

SnapshotFails ==
  /\ pc = "snapshot"
  /\ SnapshotReturns(handle, sinceSnapshot)
  /\ UNCHANGED <<disk, cursor, history, confirmed>>

\* The log is closed, truncated and reopened, with a new encoder.
Truncate ==
  /\ pc = "renamed" /\ handle # "closed"
  /\ wal' = <<>> /\ synced' = 0
  /\ SnapshotReturns("open", 0)
  /\ UNCHANGED <<snap, cursor, history, confirmed>>

\* An error after the log was closed leaves it closed, truncated or not. If it
\* was closed before, closing it again is the error.
TruncateFails ==
  /\ pc = "renamed"
  /\ \/ UNCHANGED <<wal, synced>>
     \/ handle # "closed" /\ wal' = <<>> /\ synced' = 0
  /\ SnapshotReturns("closed", sinceSnapshot)
  /\ UNCHANGED <<snap, cursor, history, confirmed>>

-----------------------------------------------------------------------------

\* What the disk may hold after a crash: the durable lines, then some of the
\* others in order, then perhaps a fragment.
Fragment(k, f) == Append(SubSeq(wal, 1, k), [wal[k + 1] EXCEPT !.form = f])

Survivors ==
  {SubSeq(wal, 1, k) : k \in synced..Len(wal)}
  \cup {Fragment(k, f) : k \in synced..(Len(wal) - 1), f \in CrashForms \ {"line"}}

Crash ==
  /\ pc # "down"
  /\ wal' \in Survivors
  /\ Gone
  /\ cursor' = 1
  /\ UNCHANGED <<synced, snap, history, confirmed>>

Next ==
  \/ Open \/ ReplayLine \/ ReplayEnd
  \/ \E c \in Commands : Write(c)
  \/ WriteFails \/ Sync \/ Apply
  \/ Deactivate \/ RenameSnapshot \/ SnapshotFails \/ Truncate \/ TruncateFails
  \/ Crash

Spec == Init /\ [][Next]_vars
-----------------------------------------------------------------------------
(* Properties. *)

Line == [seq : Nat, cmd : Commands, form : {"line", "torn", "bare", "junk"}]

\* The shape of the state, fsync's watermark and the replay cursor included:
\* neither ever points past the end of the file.
TypeOK ==
  /\ wal \in Seq(Line)
  /\ synced \in 0..Len(wal)
  /\ snap \in [seq : Nat, state : Seq(Commands)]
  /\ pc \in {"down", "replay", "idle", "written", "synced", "snapshot", "renamed"}
  /\ handle \in {"open", "failed", "closed"}
  /\ engine \in Seq(Commands)
  /\ lastSeq \in Nat
  /\ cursor \in 1..(IF pc = "replay" THEN Len(wal) + 1 ELSE 1)
  /\ sinceSnapshot \in Nat
  /\ leaving \in BOOLEAN
  /\ history \in Seq(Commands) /\ confirmed \in Seq(Commands)
  /\ pc = "synced" => history # <<>>

\* The number the sequencer is at is the number of commands the engine has
\* executed, the one being logged aside: numbers are neither skipped nor given
\* twice, whatever failed and however often the engine was rebuilt.
SequenceMatchesEngine ==
  Running => lastSeq = Len(engine) + (IF pc \in {"written", "synced"} THEN 1 ELSE 0)

\* The last command number that lines 1..k of the log and the snapshot know.
KnownUpTo(k) == IF k > 0 /\ wal[k].seq > snap.seq THEN wal[k].seq ELSE snap.seq

\* Snapshot and log fit together at every instant, between the rename and the
\* truncation as well: both hold the history's commands under the history's
\* numbers, the log's numbers ascend, and none is missing that the snapshot
\* does not cover.
DiskIsHistory ==
  /\ snap.seq = Len(snap.state)
  /\ snap.seq <= Len(history)
  /\ \A i \in 1..snap.seq : snap.state[i] = history[i]
  /\ \A i \in DOMAIN wal :
       /\ wal[i].seq \in 1..Len(history)
       /\ wal[i].cmd = history[wal[i].seq]
       /\ wal[i].seq <= KnownUpTo(i - 1) + 1
  /\ \A i, j \in DOMAIN wal : i < j => wal[i].seq < wal[j].seq

\* "Each event is written to the WAL before it is confirmed" (wal.go): the part
\* of the disk that fsync or the rename has made durable holds everything that
\* was confirmed.
ConfirmedIsDurable == Len(confirmed) <= KnownUpTo(synced)

\* "Recovery without loss of confirmed trades" (wal.go): a running engine, a
\* recovered one in particular, has executed all that was ever confirmed, in
\* the same order.
ConfirmedSurvive ==
  Running => /\ Len(confirmed) <= Len(engine)
             /\ \A i \in 1..Len(confirmed) : confirmed[i] = engine[i]

\* The journal implements DurableLog: recovery returns the confirmed history
\* and perhaps the commands that were being executed, and nothing else.
Log == INSTANCE DurableLog WITH
  up <- Running,
  view <- IF Running THEN engine ELSE <<>>

ImplementsDurableLog == Log!Spec
=============================================================================
