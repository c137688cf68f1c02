----------------------------- MODULE Snapshots -----------------------------
(***************************************************************************)
(* The handlers of ForkState that copy the fork away and bring it back     *)
(* (src/src/serve.rs): take_snapshot, revert, reset, dump_to, load_from,   *)
(* and the restart of the server.                                          *)
(***************************************************************************)
EXTENDS ForkState

\* take_snapshot: the overlay, then epoch, start and mode, each by itself;
\* then an id is drawn and the snapshot filed under it.
TakeSnapshot(p) ==
    /\ Arrive(p, "snapshot", [IdleCall EXCEPT
                !.pc = "snap_epoch", !.overlay = state, !.fork = Fork])
    /\ UNCHANGED <<memory, file, crashes, now, captured, dumped>>

\* Mutation: the snapshot keeps the epoch the fork started at.
SnapshotReads_InitialEpoch(p) ==
    /\ \/ /\ At(p, "snap_epoch")
          /\ Becomes(p, [call[p] EXCEPT
                 !.epoch = InitialEpoch,
                 !.pc = "snap_start"])
       \/ /\ At(p, "snap_start")
          /\ Becomes(p, [call[p] EXCEPT !.start = start, !.pc = "snap_mode"])
       \/ /\ At(p, "snap_mode")
          /\ Becomes(p, [call[p] EXCEPT !.mode = mode, !.pc = "snap_id"])
    /\ Private /\ UNCHANGED <<memory, file, captured, dumped>>

SnapshotReads(p) ==
    /\ \/ /\ At(p, "snap_epoch")
          /\ Becomes(p, [call[p] EXCEPT !.epoch = epoch, !.pc = "snap_start"])
       \/ /\ At(p, "snap_start")
          /\ Becomes(p, [call[p] EXCEPT !.start = start, !.pc = "snap_mode"])
       \/ /\ At(p, "snap_mode")
          /\ Becomes(p, [call[p] EXCEPT !.mode = mode, !.pc = "snap_id"])
    /\ Private /\ UNCHANGED <<memory, file, captured, dumped>>

\* Mutation: the id is read and the counter left alone.
DrawSnapshotId_Unclaimed(p) ==
    /\ At(p, "snap_id")
    /\ Becomes(p, [call[p] EXCEPT !.id = next_snapshot, !.pc = "snap_insert"])
    /\ Private
    /\ UNCHANGED <<memory, file, captured, dumped>>

DrawSnapshotId(p) ==
    /\ At(p, "snap_id")
    /\ next_snapshot' = next_snapshot + 1
    /\ Becomes(p, [call[p] EXCEPT !.id = next_snapshot, !.pc = "snap_insert"])
    /\ Private
    /\ UNCHANGED <<state, epoch, start, mode, snapshots, lock,
                   file, captured, dumped>>

\* An id keeps the meaning it was first given: `captured` is written once.
SnapshotInsert(p) ==
    /\ At(p, "snap_insert")
    /\ snapshots' = [snapshots EXCEPT ![call[p].id] =
          [overlay |-> call[p].overlay, epoch |-> call[p].epoch,
           start |-> call[p].start, mode |-> call[p].mode]]
    /\ captured' = [captured EXCEPT ![call[p].id] =
          IF @ = None THEN call[p].fork ELSE @]
    /\ Return(p)
    /\ Private
    /\ UNCHANGED <<state, epoch, start, mode, next_snapshot, lock, file, dumped>>

-----------------------------------------------------------------------------
(* revert: an unknown id is an error; the snapshot itself is kept. *)

Revert(p) ==
    /\ \E id \in SnapshotId :
          /\ snapshots[id] # None
          /\ Arrive(p, "revert", [IdleCall EXCEPT
                !.pc = "rev_overlay", !.id = id,
                !.overlay = snapshots[id].overlay, !.epoch = snapshots[id].epoch,
                !.start = snapshots[id].start, !.mode = snapshots[id].mode])
    /\ UNCHANGED <<memory, file, crashes, now, captured, dumped>>

RevertRefused(p) ==
    /\ \E id \in SnapshotId : snapshots[id] = None
    /\ Arrive(p, "revert", IdleCall)
    /\ UNCHANGED <<memory, file, crashes, now, captured, dumped>>

\* restore_epoch stores the epoch first, then the start.
RestoreEpoch(p, pc, next) ==
    /\ At(p, pc)
    /\ epoch' = call[p].epoch
    /\ Goto(p, next)
    /\ Private
    /\ UNCHANGED <<state, start, mode, snapshots, next_snapshot, lock,
                   file, captured, dumped>>

RestoreStart(p, pc, next) ==
    /\ At(p, pc)
    /\ start' = call[p].start
    /\ Goto(p, next)
    /\ Private
    /\ UNCHANGED <<state, epoch, mode, snapshots, next_snapshot, lock,
                   file, captured, dumped>>

ReplaceOverlay(p, pc, overlay, next) ==
    /\ At(p, pc)
    /\ state' = overlay
    /\ Goto(p, next)
    /\ Private
    /\ UNCHANGED <<epoch, start, mode, snapshots, next_snapshot, lock,
                   file, captured, dumped>>

RevertMode(p) ==
    /\ At(p, "rev_mode")
    /\ mode' = call[p].mode
    /\ Return(p)
    /\ Private
    /\ UNCHANGED <<state, epoch, start, snapshots, next_snapshot, lock,
                   file, captured, dumped>>

RevertSteps(p) ==
    \/ ReplaceOverlay(p, "rev_overlay", call[p].overlay, "rev_epoch")
    \/ RestoreEpoch(p, "rev_epoch", "rev_start")
    \/ RestoreStart(p, "rev_start", "rev_mode")
    \/ RevertMode(p)

-----------------------------------------------------------------------------
(* reset: everything back to the fork point, auto-drift anchored there     *)
(* (at 0 when 0x6 cannot be read); snapshot ids are not reused.            *)

Reset(p) ==
    /\ Arrive(p, "reset", [IdleCall EXCEPT
                !.pc = "reset_epoch", !.epoch = InitialEpoch, !.start = InitialStart])
    /\ state' = Default
    /\ UNCHANGED <<epoch, start, mode, snapshots, next_snapshot, lock,
                   file, crashes, now, captured, dumped>>

\* Mutation: reset starts snapshot ids from 0 again.
ClearSnapshots_ReusesIds(p) ==
    /\ At(p, "reset_snapshots")
    /\ snapshots' = NoSnapshots
    /\ next_snapshot' = 0
    /\ Goto(p, "reset_anchor")
    /\ Private
    /\ UNCHANGED <<state, epoch, start, mode, lock, file, captured, dumped>>

ClearSnapshots(p) ==
    /\ At(p, "reset_snapshots")
    /\ snapshots' = NoSnapshots
    /\ Goto(p, "reset_anchor")
    /\ Private
    /\ UNCHANGED <<state, epoch, start, mode, next_snapshot, lock,
                   file, captured, dumped>>

ReadAnchor(p) ==
    /\ At(p, "reset_anchor")
    /\ \E ms \in {clock_timestamp_ms} \cup (IF ReadFails(Clock) THEN {0} ELSE {}) :
          Becomes(p, [call[p] EXCEPT !.ms = ms, !.pc = "reset_mode"])
    /\ Private /\ UNCHANGED <<memory, file, captured, dumped>>

ResetMode(p) ==
    /\ At(p, "reset_mode")
    /\ mode' = AutoMode(call[p].ms)
    /\ Return(p)
    /\ Private
    /\ UNCHANGED <<state, epoch, start, snapshots, next_snapshot, lock,
                   file, captured, dumped>>

ResetSteps(p) ==
    \/ RestoreEpoch(p, "reset_epoch", "reset_start")
    \/ RestoreStart(p, "reset_start", "reset_snapshots")
    \/ ClearSnapshots(p)
    \/ ReadAnchor(p)
    \/ ResetMode(p)

-----------------------------------------------------------------------------
(* dump_to: epoch, start, clock and overlay, each by itself; fs::write     *)
(* truncates the file before it fills it.                                  *)

Dump(p) ==
    /\ Arrive(p, "state_dump", [IdleCall EXCEPT
                !.pc = "dump_start", !.epoch = epoch, !.fork = Fork])
    /\ UNCHANGED <<memory, file, crashes, now, captured, dumped>>

\* Mutation: export takes the overlay lock once for the objects and once more
\* for the transactions.
DumpReads_TwoLocks(p) ==
    /\ \/ /\ At(p, "dump_start")
          /\ Becomes(p, [call[p] EXCEPT
                 !.start = start,
                 !.pc = "dump_clock",
                 !.overlay = export(state)])
       \/ /\ At(p, "dump_clock")
          /\ Becomes(p, [call[p] EXCEPT
                 !.ms = clock_timestamp_ms,
                 !.pc = "dump_overlay"])
       \/ /\ At(p, "dump_overlay")
          /\ Becomes(p, [call[p] EXCEPT
                 !.overlay.transactions = export(state).transactions,
                 !.pc = "dump_open"])
    /\ Private /\ UNCHANGED <<memory, file, captured, dumped>>

DumpReads(p) ==
    /\ \/ /\ At(p, "dump_start")
          /\ Becomes(p, [call[p] EXCEPT !.start = start, !.pc = "dump_clock"])
       \/ /\ At(p, "dump_clock")
          /\ \E ms \in {clock_timestamp_ms}
                       \cup (IF ReadFails(Clock) THEN {0} ELSE {}) :
                Becomes(p, [call[p] EXCEPT !.ms = ms, !.pc = "dump_overlay"])
       \/ /\ At(p, "dump_overlay")
          /\ Becomes(p, [call[p] EXCEPT
                 !.overlay = export(state),
                 !.pc = "dump_open"])
    /\ Private /\ UNCHANGED <<memory, file, captured, dumped>>

DumpTruncates(p) ==
    /\ At(p, "dump_open")
    /\ file' = Torn
    /\ Goto(p, "dump_write")
    /\ Private /\ UNCHANGED <<memory, captured, dumped>>

DumpWrites(p) ==
    /\ At(p, "dump_write")
    /\ file' = [kind |-> "dump", epoch |-> call[p].epoch,
                start |-> call[p].start, ms |-> call[p].ms, overlay |-> call[p].overlay]
    /\ dumped' = call[p].fork
    /\ Return(p)
    /\ Private /\ UNCHANGED <<memory, captured>>

\* fs::write fails: the file cannot be opened, or is left cut off.
DumpFails(p) ==
    /\ call[p].pc \in {"dump_open", "dump_write"}
    /\ Return(p)
    /\ Private /\ UNCHANGED <<memory, file, captured, dumped>>

DumpSteps(p) ==
    DumpReads(p) \/ DumpTruncates(p) \/ DumpWrites(p) \/ DumpFails(p)

-----------------------------------------------------------------------------
(* load_from: a missing, foreign or unreadable file is refused before      *)
(* anything is changed; then overlay, epoch, start, clock and mode.        *)

Load(p) ==
    /\ FileIsDump
    /\ Arrive(p, "state_load", [IdleCall EXCEPT
                !.pc = "load_overlay", !.epoch = file.epoch, !.start = file.start,
                !.ms = file.ms, !.overlay = file.overlay, !.fork = dumped])
    /\ UNCHANGED <<memory, file, crashes, now, captured, dumped>>

LoadRefused(p) ==
    /\ ~FileIsDump
    /\ Arrive(p, "state_load", IdleCall)
    /\ UNCHANGED <<memory, file, crashes, now, captured, dumped>>

\* Mutation: the start of the epoch is not brought back.
LoadSteps_NoStart(p) ==
    \/ ReplaceOverlay(p, "load_overlay", import(call[p].overlay), "load_epoch")
    \/ RestoreEpoch(p, "load_epoch", "clock_read")

LoadSteps(p) ==
    \/ ReplaceOverlay(p, "load_overlay", import(call[p].overlay), "load_epoch")
    \/ RestoreEpoch(p, "load_epoch", "load_start")
    \/ RestoreStart(p, "load_start", "clock_read")

-----------------------------------------------------------------------------

\* The server stops at any point and is started again; the file remains.
Restart ==
    /\ crashes < MaxCrashes
    /\ crashes' = crashes + 1
    /\ state' = Default
    /\ epoch' = InitialEpoch
    /\ start' = InitialStart
    /\ \E ms \in StartupAnchors : mode' = AutoMode(ms)
    /\ snapshots' = NoSnapshots
    /\ next_snapshot' = 0
    /\ lock' = None
    /\ call' = [p \in Client |-> IdleCall]
    /\ captured' = NoSnapshots
    /\ UNCHANGED <<file, requests, now, dumped>>

SnapshotHandlers(p) ==
    \/ TakeSnapshot(p) \/ SnapshotReads(p)
    \/ DrawSnapshotId(p) \/ SnapshotInsert(p)
    \/ Revert(p) \/ RevertRefused(p) \/ RevertSteps(p)
    \/ Reset(p) \/ ResetSteps(p)
    \/ Dump(p) \/ DumpSteps(p)
    \/ Load(p) \/ LoadRefused(p) \/ LoadSteps(p)
=============================================================================
