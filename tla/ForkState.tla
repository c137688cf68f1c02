----------------------------- MODULE ForkState -----------------------------
(***************************************************************************)
(* ForkState of src/src/serve.rs: the state all handlers share - overlay,  *)
(* VM epoch, clock mode, snapshots - and the handlers that copy it: the    *)
(* snapshot, revert, reset, dump and load of the control API, with the     *)
(* clock stamping they share with the others (src/src/cheats.rs).          *)
(*                                                                         *)
(* Handlers run concurrently on the blocking pool.  Each access to shared  *)
(* state is a step of its own: the overlay lock, the two epoch atomics,    *)
(* the clock mutex and the snapshot mutex are taken and left one at a      *)
(* time, never nested.  A handler's first access is its request's arrival. *)
(***************************************************************************)
EXTENDS Overlay

CONSTANTS
    Client,         \* threads serving requests
    Handlers,       \* the requests clients make in an instance
    MaxRequests,    \* bound on requests
    MaxNow,         \* bound on the wall clock, in ticks
    MaxCrashes,     \* bound on restarts of the server
    FailingReads,   \* whether network reads may fail past their retries
    Disconnects,    \* whether clients may go away before they are answered
    InitialEpoch,   \* the VM's epoch at the fork point
    InitialStart,   \* and its start timestamp
    Clock,          \* the id of 0x6
    SystemInner     \* the id of the inner state object of 0x5

ASSUME ClientAssumption == None \notin Client

\* A request's number stands for the digest of the transaction it brings.
ASSUME RequestsAssumption == MaxRequests \in Nat /\ 1 .. MaxRequests \subseteq Digest

ASSUME NumbersAssumption ==
    {MaxNow, MaxCrashes, InitialEpoch, InitialStart} \subseteq Nat

\* The Clock and the system state exist at the fork point.
ASSUME SystemObjectsAssumption ==
    /\ {Clock, SystemInner} \subseteq ObjectID /\ Clock # SystemInner
    /\ \A id \in {Clock, SystemInner} : Mainnet[id][AtFork] # None

VARIABLES
    state,          \* OverlayStore::state
    epoch,          \* Vm::epoch
    start,          \* Vm::epoch_start_timestamp_ms
    mode,           \* ForkState::clock
    snapshots,      \* ForkState::snapshots
    next_snapshot,  \* ForkState::next_snapshot
    lock,           \* Fork::execution_lock: who holds it
    file,           \* the dump file on disk
    call,           \* what each client's thread is doing: pc and locals
    requests,       \* requests made so far
    crashes,        \* restarts so far
    now,            \* the wall clock (Instant)
    captured,       \* history: what each snapshot id stood for when taken
    dumped          \* history: the fork when the dump on disk was begun

memory == <<state, epoch, start, mode, snapshots, next_snapshot, lock>>
vars == <<memory, file, call, requests, crashes, now, captured, dumped>>

\* The whole of the fork, as one value.
Fork == [overlay |-> state, epoch |-> epoch, start |-> start, mode |-> mode]

SnapshotId == 0 .. MaxRequests

AutoMode(ms) == [kind |-> "Auto", ms |-> ms, at |-> now]
FixedMode(ms) == [kind |-> "Fixed", ms |-> ms, at |-> 0]
FrozenMode == [kind |-> "Frozen", ms |-> 0, at |-> 0]

\* The contents of a Move object are a tuple of its fields.
clock_timestamp_ms == Current(state, Clock).data[1]

IdleCall ==
    [pc |-> "idle", op |-> "none", ms |-> 0, id |-> 0, obj |-> None,
     epoch |-> 0, start |-> 0, overlay |-> None, mode |-> None, fork |-> None]

\* What is on disk: nothing that load_from accepts (no file, or a dump of another
\* chain), a file cut off in the middle of a write, or a dump of this fork.
NoFile == [kind |-> "none"]
Torn == [kind |-> "torn"]
FileIsDump == file.kind = "dump"

\* The clock as read at start-up, which falls back to 0 when it fails.
StartupAnchors == {Mainnet[Clock][AtFork].data[1]}
                  \cup (IF FailingReads THEN {0} ELSE {})

NoSnapshots == [i \in SnapshotId |-> None]

\* serve::run
Init ==
    /\ now = 0
    /\ state = Default
    /\ epoch = InitialEpoch
    /\ start = InitialStart
    /\ \E ms \in StartupAnchors : mode = AutoMode(ms)
    /\ snapshots = NoSnapshots
    /\ next_snapshot = 0
    /\ lock = None
    /\ call = [p \in Client |-> IdleCall]
    /\ file = NoFile
    /\ requests = 0
    /\ crashes = 0
    /\ captured = NoSnapshots
    /\ dumped = None

-----------------------------------------------------------------------------
(* Control flow of a request. *)

At(p, pc) == call[p].pc = pc

Goto(p, pc) == call' = [call EXCEPT ![p].pc = pc]

\* The thread of p goes on with the locals it has now set.
Becomes(p, locals) == call' = [call EXCEPT ![p] = locals]

Return(p) == call' = [call EXCEPT ![p] = IdleCall]

\* A request for handler op arrives; its first step moves on to pc with the
\* locals it has set in `locals`.
Arrive(p, op, locals) ==
    /\ At(p, "idle")
    /\ op \in Handlers
    /\ requests < MaxRequests
    /\ requests' = requests + 1
    /\ call' = [call EXCEPT ![p] = [locals EXCEPT !.op = op]]

\* An object missing from the overlay is read from the network.
ReadFails(id) == FailingReads /\ id \notin overlay_touched_ids(state)

\* A step of a request that is under way touches nothing but what it says.
Private == UNCHANGED <<requests, crashes, now>>

-----------------------------------------------------------------------------
(* set_clock_timestamp_ms: read 0x6, write it back one version up.  ms is  *)
(* the timestamp; then the caller goes on.                                 *)

AfterClock ==
    [execute |-> "lock", clock_set |-> "fix_mode", clock_advance |-> "fix_mode",
     state_load |-> "fix_mode", epoch_advance |-> "sync_load"]

ReadClockObject(p) ==
    /\ At(p, "clock_read")
    /\ LET obj == Current(state, Clock)
       IN  Becomes(p, [call[p] EXCEPT
               !.obj = obj,
               !.pc = IF obj.data = <<call[p].ms>>
                        THEN AfterClock[call[p].op] ELSE "clock_write"])
    /\ Private /\ UNCHANGED <<memory, file, captured, dumped>>

\* prepare_clock ignores the error; every other caller returns it.
ReadClockObjectFails(p) ==
    /\ At(p, "clock_read")
    /\ ReadFails(Clock)
    /\ IF call[p].op = "execute" THEN Goto(p, "lock") ELSE Return(p)
    /\ Private /\ UNCHANGED <<memory, file, captured, dumped>>

\* Mutation: the new contents are written at the version read.
Bumped_SameVersion(obj, contents) == [obj EXCEPT !.data = contents]

Bumped(obj, contents) ==
    [obj EXCEPT !.version = @ + 1, !.data = contents]

WriteClockObject(p) ==
    /\ At(p, "clock_write")
    /\ state' = set_object(state, Bumped(call[p].obj, <<call[p].ms>>))
    /\ Goto(p, AfterClock[call[p].op])
    /\ Private
    /\ UNCHANGED <<epoch, start, mode, snapshots, next_snapshot, lock,
                   file, captured, dumped>>

\* The end of clock_set, clock_advance and load_from.
FixMode(p) ==
    /\ At(p, "fix_mode")
    /\ mode' = FixedMode(call[p].ms)
    /\ Return(p)
    /\ Private
    /\ UNCHANGED <<state, epoch, start, snapshots, next_snapshot, lock,
                   file, captured, dumped>>

\* The control API's async handlers set the mode after the await, outside of
\* what runs on the blocking pool.  When the client goes away the handler is
\* dropped there, and the mode stays what it was.
Dropped(p) ==
    /\ Disconnects
    /\ \/ At(p, "fix_mode") /\ call[p].op # "state_load"
       \/ call[p].pc \in {"set_auto", "set_frozen"}
    /\ Return(p)
    /\ Private /\ UNCHANGED <<memory, file, captured, dumped>>

SetClock(p) ==
    \/ ReadClockObject(p)
    \/ ReadClockObjectFails(p)
    \/ WriteClockObject(p)
    \/ FixMode(p)
    \/ Dropped(p)
=============================================================================
