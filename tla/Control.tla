------------------------------ MODULE Control ------------------------------
(***************************************************************************)
(* The handlers of the control API that change the clock, the epoch or an  *)
(* object (src/src/control.rs, src/src/cheats.rs).  None of them takes     *)
(* execution_lock: each is a sequence of reads and writes of the overlay,  *)
(* the VM's epoch and the clock mode.                                      *)
(***************************************************************************)
EXTENDS ForkState

CONSTANTS
    Jumps,      \* how far ahead of the clock a request may point
    Counts,     \* how many epochs a request may advance by
    EPOCH_MS,   \* the nominal length of an epoch, in ticks
    Override,   \* the object set_contents overwrites
    Bump,       \* the values of bump_version requests give (default TRUE)
    Coins       \* ids ObjectID::random() may draw for a funded coin

ASSUME ControlAssumption ==
    /\ Coins \subseteq ObjectID
    /\ Override \in ObjectID /\ Mainnet[Override][AtFork] # None
    /\ Jumps \subseteq Nat /\ Counts \subseteq Nat /\ EPOCH_MS \in Nat

\* clock_set gives a timestamp, clock_advance a distance from the clock it
\* reads; both then set the clock and make the mode Fixed.
ClockSet(p) ==
    /\ \E op \in {"clock_set", "clock_advance"}, j \in Jumps :
          Arrive(p, op, [IdleCall EXCEPT
              !.pc = "clock_read", !.ms = clock_timestamp_ms + j])
    /\ UNCHANGED <<memory, file, crashes, now, captured, dumped>>

\* Mutation: drift is anchored at the clock of the fork point.
ClockAuto_ForkPoint(p) ==
    /\ Arrive(p, "clock_auto", [IdleCall EXCEPT
          !.pc = "set_auto", !.ms = Mainnet[Clock][AtFork].data[1]])
    /\ UNCHANGED <<memory, file, crashes, now, captured, dumped>>

\* clock_auto: read the clock, then anchor drift there.
ClockAuto(p) ==
    /\ Arrive(p, "clock_auto", [IdleCall EXCEPT
          !.pc = "set_auto", !.ms = clock_timestamp_ms])
    /\ UNCHANGED <<memory, file, crashes, now, captured, dumped>>

\* clock_freeze: read the clock for the reply, then stop drift.
ClockFreeze(p) ==
    /\ Arrive(p, "clock_freeze", [IdleCall EXCEPT !.pc = "set_frozen"])
    /\ UNCHANGED <<memory, file, crashes, now, captured, dumped>>

\* The end of clock_auto, clock_freeze and epoch_advance.
SetMode(p) ==
    /\ \/ At(p, "set_auto") /\ mode' = AutoMode(call[p].ms)
       \/ At(p, "set_frozen") /\ mode' = FrozenMode
    /\ Return(p)
    /\ Private
    /\ UNCHANGED <<state, epoch, start, snapshots, next_snapshot, lock,
                   file, captured, dumped>>

-----------------------------------------------------------------------------
(* epoch_advance: read the clock; move the VM's start, then its epoch; set *)
(* the clock (an error ends the request here); move the system state's     *)
(* epoch, best-effort; let the clock drift from the new epoch's start.     *)

EpochAdvance(p) ==
    /\ \E count \in Counts :
       \E ms \in {clock_timestamp_ms + count * EPOCH_MS}
                 \cup {clock_timestamp_ms + j : j \in Jumps} :
          Arrive(p, "epoch_advance", [IdleCall EXCEPT
              !.pc = "advance_start", !.ms = ms, !.id = count])
    /\ UNCHANGED <<memory, file, crashes, now, captured, dumped>>

AdvanceStart(p) ==
    /\ At(p, "advance_start")
    /\ start' = call[p].ms
    /\ Goto(p, "advance_epoch")
    /\ Private
    /\ UNCHANGED <<state, epoch, mode, snapshots, next_snapshot, lock,
                   file, captured, dumped>>

\* Mutation: the clock is not moved to the new epoch's start.
AdvanceEpoch_NoClock(p) ==
    /\ At(p, "advance_epoch")
    /\ epoch' = epoch + call[p].id
    /\ Becomes(p, [call[p] EXCEPT !.epoch = epoch', !.pc = "sync_load"])
    /\ Private
    /\ UNCHANGED <<state, start, mode, snapshots, next_snapshot, lock,
                   file, captured, dumped>>

AdvanceEpoch(p) ==
    /\ At(p, "advance_epoch")
    /\ epoch' = epoch + call[p].id
    /\ Becomes(p, [call[p] EXCEPT !.epoch = epoch', !.pc = "clock_read"])
    /\ Private
    /\ UNCHANGED <<state, start, mode, snapshots, next_snapshot, lock,
                   file, captured, dumped>>

\* sync_system_state_epoch: load_system_state_inner finds and decodes the
\* inner object, set_object_contents reads it again for its version.
SyncLoads(p) ==
    /\ \/ At(p, "sync_load") /\ Goto(p, "sync_read")
       \/ /\ At(p, "sync_read")
          /\ Becomes(p, [call[p] EXCEPT
                 !.obj = Current(state, SystemInner),
                 !.pc = "sync_write"])
       \/ /\ call[p].pc \in {"sync_load", "sync_read"}
          /\ ReadFails(SystemInner)
          /\ Goto(p, "set_auto")
    /\ Private /\ UNCHANGED <<memory, file, captured, dumped>>

\* Mutation: the system state keeps its old start timestamp.
SyncWrites_StaleStart(p) ==
    /\ At(p, "sync_write")
    /\ state' = set_object(state,
          Bumped(call[p].obj, <<call[p].epoch, call[p].obj.data[2]>>))
    /\ Goto(p, "set_auto")
    /\ Private
    /\ UNCHANGED <<epoch, start, mode, snapshots, next_snapshot, lock,
                   file, captured, dumped>>

SyncWrites(p) ==
    /\ At(p, "sync_write")
    /\ state' = set_object(state,
          Bumped(call[p].obj, <<call[p].epoch, call[p].ms>>))
    /\ Goto(p, "set_auto")
    /\ Private
    /\ UNCHANGED <<epoch, start, mode, snapshots, next_snapshot, lock,
                   file, captured, dumped>>

-----------------------------------------------------------------------------
(* object/set_contents and fund *)

\* set_object_contents: read the object, then write it back with the caller's
\* contents, one version up unless the request says otherwise.
SetContents(p) ==
    /\ \E bump \in Bump, obj \in {Current(state, Override)} :
          Arrive(p, "set_contents", [IdleCall EXCEPT
              !.pc = "contents_write",
              !.obj = IF bump THEN Bumped(obj, <<0>>) ELSE [obj EXCEPT !.data = <<0>>]])
    /\ UNCHANGED <<memory, file, crashes, now, captured, dumped>>

WriteContents(p) ==
    /\ At(p, "contents_write")
    /\ state' = set_object(state, call[p].obj)
    /\ Return(p)
    /\ Private
    /\ UNCHANGED <<epoch, start, mode, snapshots, next_snapshot, lock,
                   file, captured, dumped>>

\* fund: a coin at a fresh random id, at version 1.
Fund(p) ==
    /\ \E id \in Coins :
          /\ Current(state, id) = None
          /\ state' = set_object(state, [id |-> id, version |-> 1, data |-> <<1>>])
    /\ Arrive(p, "fund", IdleCall)
    /\ UNCHANGED <<epoch, start, mode, snapshots, next_snapshot, lock,
                   file, crashes, now, captured, dumped>>

\* A request refused before it changes anything: the clock cannot be read, or
\* the contents given do not fit the object.
Refused(p) ==
    /\ \/ ReadFails(Clock) /\ \E op \in {"clock_advance", "clock_auto",
                                       "clock_freeze", "epoch_advance"} :
             Arrive(p, op, IdleCall)
       \/ Arrive(p, "set_contents", IdleCall)
    /\ UNCHANGED <<memory, file, crashes, now, captured, dumped>>

ControlHandlers(p) ==
    \/ ClockSet(p) \/ ClockAuto(p) \/ ClockFreeze(p)
    \/ SetMode(p)
    \/ EpochAdvance(p) \/ AdvanceStart(p) \/ AdvanceEpoch(p)
    \/ SyncLoads(p) \/ SyncWrites(p)
    \/ SetContents(p) \/ WriteContents(p)
    \/ Fund(p)
    \/ Refused(p)
=============================================================================
