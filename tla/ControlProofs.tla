--------------------------- MODULE ControlProofs ---------------------------
(***************************************************************************)
(* One request at a time, with a network that answers: clock, epoch and    *)
(* system state tell one story, versions grow, and snapshots, dumps,       *)
(* reverts and loads are about one state and the same one.  Proofs.        *)
(***************************************************************************)
EXTENDS ServerTypes

\* The limits of the run `control`; without any of them TLC refutes one of the
\* theorems.
OneAtATime ==
    /\ \E p : Client = {p}
    /\ ~FailingReads /\ ~Disconnects
    /\ Override \notin {Clock, SystemInner}

\* The fork branched off a chain whose clock, epoch and system state agree.
ForkPointAgrees ==
    /\ \E ms \in Nat : InitialStart =< ms /\ Mainnet[Clock][AtFork].data = <<ms>>
    /\ Mainnet[SystemInner][AtFork].data = <<InitialEpoch, InitialStart>>

-----------------------------------------------------------------------------
(* The inductive invariant. *)

\* The on-chain clock of an overlay.
Clk(s) == Current(s, Clock).data[1]

\* No transaction ran before its epoch began.
RecordsOK(s) ==
    \A d \in Digest : s.transactions[d] # None =>
        s.transactions[d].start =< s.transactions[d].ms

\* The Clock holds nothing but a timestamp, which is not behind ms.
ClockIs(s, ms) == Current(s, Clock).data = <<ms>>

\* An overlay and the VM's epoch and start tell one story.
Story(s, e, st) ==
    /\ ClockIs(s, Clk(s)) /\ st =< Clk(s)
    /\ Current(s, SystemInner).data = <<e, st>>

\* What the mode makes of the time t: never a step back.
Target(m, t) == IF m.kind = "Auto" THEN m.ms + (t - m.at) ELSE m.ms
Ahead(m, s, t) == m.kind # "Frozen" => Clk(s) =< Target(m, t)

\* A fork nobody is changing.
Settled(f, t) ==
    /\ RecordsOK(f.overlay)
    /\ Story(f.overlay, f.epoch, f.start)
    /\ Ahead(f.mode, f.overlay, t)

\* The copy of the fork that a thread carries.
Carried(c) == [overlay |-> c.overlay, epoch |-> c.epoch, start |-> c.start, mode |-> c.mode]

SnapPcs == DrawPcs \cup {"snap_insert"}
WritePcs == {"dump_start", "dump_clock", "dump_overlay", "dump_open", "dump_write"}
RevertPcs == {"rev_overlay", "rev_epoch", "rev_start", "rev_mode"}
ResetPcs == {"reset_epoch", "reset_start", "reset_snapshots", "reset_anchor", "reset_mode"}
LoadPcs == {"load_overlay", "load_epoch", "load_start"}
SyncPcs == {"sync_load", "sync_read", "sync_write"}
RestPcs == {"idle", "set_frozen", "contents_write"} \cup ExecutePcs \cup SnapPcs \cup WritePcs

\* A thread that only reads, or is done, and what it has read.
Reading(c) ==
    /\ c.pc \in RestPcs => Settled(Fork, now)
    /\ c.pc \in InputPcs => c.obj = Current(state, Shared)
    /\ c.pc \in {"read_epoch", "read_start", "commit"} => c.ms = Clk(state)
    /\ c.pc = "commit" => c.start = start
    /\ c.pc = "contents_write" =>
          /\ c.obj.id = Override
          /\ c.obj.version >= Current(state, Override).version

\* A thread that copies the fork: what it has of it is the fork.
Copying(c) ==
    /\ c.pc \in SnapPcs \cup WritePcs => c.fork = Fork
    /\ c.pc \in SnapPcs => c.overlay = state
    /\ c.pc \in {"snap_start", "snap_mode", "snap_id", "snap_insert"} \cup WritePcs
          => c.epoch = epoch
    /\ c.pc \in {"snap_mode", "snap_id", "snap_insert"} \cup (WritePcs \ {"dump_start"})
          => c.start = start
    /\ c.pc \in {"snap_id", "snap_insert"} => c.mode = mode
    /\ c.pc = "snap_insert" => c.id = next_snapshot - 1 /\ captured[c.id] = None
    /\ c.pc \in {"dump_overlay", "dump_open", "dump_write"} => c.ms = Clk(state)
    /\ c.pc \in {"dump_open", "dump_write"} => c.overlay = export(state)

\* A thread that sets the clock, to a time not behind it.
Setting(c) ==
    /\ c.pc \in {"clock_read", "clock_write"} => Clk(state) =< c.ms /\ c.op # "none"
    /\ c.pc = "clock_write" => c.obj = Current(state, Clock) /\ c.op # "state_load"
    /\ c.pc \in {"clock_read", "clock_write"} /\ c.op = "execute" =>
          Settled(Fork, now) /\ mode.kind # "Frozen" /\ c.ms =< Target(mode, now)
    /\ c.pc \in {"clock_read", "clock_write"} /\ c.op \in {"clock_set", "clock_advance"} =>
          Story(state, epoch, start)
    /\ c.pc = "clock_read" /\ c.op = "state_load" => Story(state, epoch, start)
    /\ c.pc \in {"fix_mode", "set_auto"} => Story(state, epoch, start) /\ c.ms = Clk(state)
    /\ c.pc \in {"clock_read", "fix_mode"} /\ c.op = "state_load" =>
          /\ c.ms = Clk(state)
          /\ Fork = [dumped EXCEPT !.mode = mode]

\* A thread that moves the epoch: the start first, then the epoch, the clock and
\* at last the system state.
Moving(c) ==
    /\ c.pc \in {"advance_start", "advance_epoch"} => c.op = "epoch_advance"
    /\ c.pc \in {"advance_start", "advance_epoch"} \cup SyncPcs
          => ClockIs(state, Clk(state)) /\ Clk(state) =< c.ms
    /\ c.pc \in {"clock_read", "clock_write"} /\ c.op = "epoch_advance" =>
          ClockIs(state, Clk(state)) /\ start = c.ms /\ epoch = c.epoch
    /\ c.pc = "advance_epoch" => start = c.ms
    /\ c.pc \in SyncPcs => c.ms = Clk(state) /\ start = c.ms /\ epoch = c.epoch
    /\ c.pc = "sync_write" => c.obj = Current(state, SystemInner)

\* A thread that brings a snapshot, the fork point or a dump back, and how far it
\* is.
RollingBack(c) ==
    /\ c.pc \in RevertPcs =>
          /\ c.id \in SnapshotId /\ captured[c.id] = Carried(c)
          /\ Settled(Carried(c), now)
    /\ c.pc \in RevertPcs \ {"rev_overlay"} => state = c.overlay
    /\ c.pc \in {"rev_start", "rev_mode"} => epoch = c.epoch
    /\ c.pc = "rev_mode" => start = c.start
    /\ c.pc \in ResetPcs =>
          state = Default /\ c.epoch = InitialEpoch /\ c.start = InitialStart
    /\ c.pc \in ResetPcs \ {"reset_epoch"} => epoch = InitialEpoch
    /\ c.pc \in ResetPcs \ {"reset_epoch", "reset_start"} => start = InitialStart
    /\ c.pc = "reset_mode" => c.ms = Clk(state)
    /\ c.pc \in LoadPcs =>
          /\ c.op = "state_load" /\ FileIsDump
          /\ c.epoch = dumped.epoch /\ c.start = dumped.start
          /\ c.ms = Clk(dumped.overlay) /\ import(c.overlay) = dumped.overlay
    /\ c.pc \in LoadPcs \ {"load_overlay"} => state = dumped.overlay
    /\ c.pc = "load_start" => epoch = dumped.epoch

\* Every place there is.
Somewhere(c) ==
    c.pc \in RestPcs \cup RevertPcs \cup ResetPcs \cup LoadPcs \cup SyncPcs \cup
             {"clock_read", "clock_write", "fix_mode", "set_auto", "advance_start",
              "advance_epoch"}

\* The snapshots and the dump on disk are settled copies of the fork.
CopiesAreTrue ==
    /\ DOMAIN captured = SnapshotId
    /\ \A i \in SnapshotId : captured[i] # None => i < next_snapshot
    /\ \A i \in SnapshotId : snapshots[i] # None =>
          snapshots[i] = captured[i] /\ Settled(snapshots[i], now)

DumpIsTrue ==
    FileIsDump =>
        /\ dumped \in Copies(now) /\ Settled(dumped, now)
        /\ file.epoch = dumped.epoch /\ file.start = dumped.start
        /\ file.ms = Clk(dumped.overlay) /\ import(file.overlay) = dumped.overlay

Place(c) ==
    /\ Somewhere(c)
    /\ Reading(c) /\ Copying(c) /\ Setting(c) /\ Moving(c) /\ RollingBack(c)

Inv ==
    /\ RecordsOK(state)
    /\ \A p \in Client : Place(call[p])
    /\ CopiesAreTrue
    /\ DumpIsTrue

-----------------------------------------------------------------------------
(* Overlays. *)

\* What a read of the current value returns after a cheat's write, and after a
\* transaction.
LEMMA WrittenIs ==
    ASSUME NEW s \in Overlays, NEW object \in Object, NEW id \in ObjectID
    PROVE  /\ Current(set_object(s, object), id)
                = IF id = object.id THEN object ELSE Current(s, id)
           /\ set_object(s, object).transactions = s.transactions
<1>. DEFINE w == set_object(s, object)
<1>1. /\ w.objects = [s.objects EXCEPT ![object.id] = object]
      /\ w.tombstones = {} /\ s.tombstones = {}
      /\ w.transactions = s.transactions
      /\ s.objects \in [ObjectID -> Maybe(Object)]
  BY DEF set_object, Overlays, OverlayState
<1>2. object # None /\ object.id \in ObjectID
  BY MainnetAssumption DEF Object
<1>. HIDE DEF w
<1>3. Current(w, id) = IF id = object.id THEN object ELSE Current(s, id)
  BY <1>1, <1>2, CurrentIs
<1>. QED BY <1>1, <1>3 DEF w

\* An object the effects do not write stays as it was.
LEMMA CommittedLeaves ==
    ASSUME NEW s \in Overlays, NEW e, e.deleted = {}, NEW d \in Digest, NEW info \in Info,
           NEW id \in ObjectID, e.written[id] = None
    PROVE  Current(commit(s, e, d, info), id) = Current(s, id)
<1>. DEFINE t == commit(s, e, d, info)
<1>1. id \notin WrittenIds(e)
  BY DEF WrittenIds
<1>2. t.objects[id] = s.objects[id] /\ t.tombstones = {} /\ s.tombstones = {}
  BY <1>1 DEF commit, Overlays
<1>. HIDE DEF t
<1>. QED BY <1>2, CurrentIs DEF t

\* An object the effects write becomes what they wrote.
LEMMA CommittedGives ==
    ASSUME NEW s \in Overlays, NEW e, e.deleted = {}, NEW d \in Digest, NEW info \in Info,
           NEW id \in ObjectID, e.written[id] # None
    PROVE  Current(commit(s, e, d, info), id) = e.written[id]
<1>. DEFINE t == commit(s, e, d, info)
<1>1. id \in WrittenIds(e)
  BY DEF WrittenIds
<1>2. t.objects[id] = e.written[id]
  BY <1>1 DEF commit
<1>. HIDE DEF t
<1>. QED BY <1>2, CurrentIs DEF t

\* The clock as it is after it has been set.
LEMMA ClockSetTo ==
    ASSUME Unbounded, NEW s \in Overlays, NEW ms \in Nat, RecordsOK(s)
    PROVE  LET t == set_object(s, Bumped(Current(s, Clock), <<ms>>))
           IN  /\ ClockIs(t, ms) /\ Clk(t) = ms
               /\ Current(t, SystemInner) = Current(s, SystemInner)
               /\ RecordsOK(t)
<1>1. Current(s, Clock) \in Object /\ Current(s, Clock).id = Clock
  BY ReadTyped, SystemObjectsAssumption
<1>. DEFINE object == Bumped(Current(s, Clock), <<ms>>)
            t == set_object(s, object)
<1>2. object \in Object /\ object.id = Clock /\ object.data = <<ms>>
  BY <1>1, BumpedTyped DEF Unbounded
<1>. HIDE DEF object
<1>3. /\ Current(t, Clock) = object /\ Current(t, SystemInner) = Current(s, SystemInner)
      /\ t.transactions = s.transactions
  BY <1>2, WrittenIs, SystemObjectsAssumption
<1>. HIDE DEF t
<1>4. ClockIs(t, ms) /\ Clk(t) = ms /\ RecordsOK(t)
  BY <1>2, <1>3 DEF ClockIs, Clk, RecordsOK
<1>. QED BY <1>3, <1>4 DEF t, object

\* A write elsewhere leaves the story alone.
LEMMA StoryKept ==
    ASSUME NEW s \in Overlays, NEW object \in Object, object.id \notin {Clock, SystemInner}
    PROVE  LET t == set_object(s, object)
           IN  /\ Current(t, Clock) = Current(s, Clock) /\ Clk(t) = Clk(s)
               /\ Current(t, SystemInner) = Current(s, SystemInner)
               /\ RecordsOK(s) => RecordsOK(t)
BY WrittenIs, SystemObjectsAssumption DEF Clk, RecordsOK

\* Whatever else may be said of a fork, the story is about these.
LEMMA SettledIs ==
    ASSUME NEW s, NEW e, NEW st, NEW m, NEW t
    PROVE  Settled([overlay |-> s, epoch |-> e, start |-> st, mode |-> m], t)
              <=> RecordsOK(s) /\ Story(s, e, st) /\ Ahead(m, s, t)
BY DEF Settled

\* The clock a mode shows never runs back while real time goes on.
LEMMA TargetGrows ==
    ASSUME NEW t \in Nat, NEW u \in Nat, t =< u, NEW m \in Modes(t)
    PROVE  /\ Target(m, t) \in Nat /\ Target(m, u) \in Nat
           /\ Target(m, t) =< Target(m, u)
BY DEF Target, Modes

\* A settled copy of the fork stays settled as time passes.
LEMMA SettledLater ==
    ASSUME Unbounded, NEW t \in Nat, NEW u \in Nat, t =< u, NEW f,
           f.overlay \in Overlays, f.mode \in Modes(t), Settled(f, t)
    PROVE  Settled(f, u)
<1>1. Clk(f.overlay) \in Nat
  BY ClockTyped DEF Clk
<1>2. Ahead(f.mode, f.overlay, u)
  BY <1>1, TargetGrows DEF Settled, Ahead
<1>. QED BY <1>2 DEF Settled

\* The fork point is a settled fork, with drift anchored at its clock.
LEMMA ForkPoint ==
    ASSUME ForkPointAgrees, now \in Nat
    PROVE  /\ RecordsOK(Default) /\ Story(Default, InitialEpoch, InitialStart)
           /\ Clk(Default) \in Nat
           /\ Clk(Default) = Mainnet[Clock][AtFork].data[1]
           /\ Ahead(AutoMode(Clk(Default)), Default, now)
<1>1. /\ Current(Default, Clock) = Mainnet[Clock][AtFork]
      /\ Current(Default, SystemInner) = Mainnet[SystemInner][AtFork]
  BY CurrentIs, SystemObjectsAssumption DEF Default
<1>2. PICK ms \in Nat : InitialStart =< ms /\ Mainnet[Clock][AtFork].data = <<ms>>
  BY DEF ForkPointAgrees
<1>3. Clk(Default) = ms
  BY <1>1, <1>2 DEF Clk
<1>4. RecordsOK(Default)
  BY DEF RecordsOK, Default
<1>5. Story(Default, InitialEpoch, InitialStart)
  BY <1>1, <1>2, <1>3 DEF Story, ClockIs, ForkPointAgrees
<1>6. Ahead(AutoMode(Clk(Default)), Default, now)
  BY <1>3 DEF Ahead, AutoMode, Target
<1>. QED BY <1>1, <1>3, <1>4, <1>5, <1>6 DEF Clk

-----------------------------------------------------------------------------
(* Threads. *)

\* The snapshots and the dump are what they were.
LEMMA Frame ==
    ASSUME Inv, NEW p, Client = {p}, RecordsOK(state'), Place(call[p])',
           UNCHANGED <<snapshots, next_snapshot, file, captured, dumped, now>>
    PROVE  Inv'
<1>1. CopiesAreTrue'
  BY DEF Inv, CopiesAreTrue
<1>2. DumpIsTrue'
  BY DEF Inv, DumpIsTrue, FileIsDump
<1>. QED BY <1>1, <1>2 DEF Inv

\* What a client remembers once its request has arrived.
LEMMA ArrivedAs ==
    ASSUME TypeInv, NEW p \in Client, NEW op, NEW locals, Arrive(p, op, locals),
           DOMAIN locals = DOMAIN IdleCall
    PROVE  /\ call[p].pc = "idle" /\ call'[p].op = op
           /\ \A field \in DOMAIN IdleCall \ {"op"} : call'[p][field] = locals[field]
BY LocalNames DEF Arrive, At, TypeInv, ThreadsOK

\* Going on to the next step changes nothing else of what a client remembers.
LEMMA WentTo ==
    ASSUME TypeInv, NEW p \in Client, NEW pc, Goto(p, pc)
    PROVE  /\ call'[p].pc = pc
           /\ \A field \in DOMAIN IdleCall \ {"pc"} : call'[p][field] = call[p][field]
<1>1. DOMAIN call = Client /\ DOMAIN call[p] = DOMAIN IdleCall
  BY DEF TypeInv, ThreadsOK, LocalsOK, Carries
<1>. QED BY <1>1, LocalNames DEF Goto

\* What a client remembers after a step that wrote its locals.
LEMMA Became ==
    ASSUME TypeInv, NEW p \in Client, NEW locals, Becomes(p, locals)
    PROVE  call'[p] = locals
BY DEF Becomes, TypeInv, ThreadsOK

\* A client whose request is answered is idle.
LEMMA WentIdle ==
    ASSUME TypeInv, NEW p \in Client, Return(p)
    PROVE  call'[p].pc = "idle"
BY DEF Return, TypeInv, ThreadsOK, IdleCall

\* Nothing more than a settled fork is asked of a thread in these places.
LEMMA AtRest ==
    ASSUME NEW p, call'[p].pc \in {"idle", "set_frozen", "lock", "read_shared"},
           Settled(Fork, now)'
    PROVE  Place(call[p])'
BY DEF Place, Somewhere, Reading, Copying, Setting, Moving, RollingBack, SnapPcs, WritePcs,
       RevertPcs, ResetPcs, LoadPcs, SyncPcs, RestPcs, ExecutePcs, DrawPcs, InputPcs

-----------------------------------------------------------------------------
(* One lemma for the steps of each handler. *)

\* Each step of the clock's refresh preserves the invariant.
LEMMA SetClockPlaces ==
    ASSUME TypeInv, Inv, Unbounded, OneAtATime, NEW p \in Client, SetClock(p)
    PROVE  Inv'
<1>. USE DEF SnapPcs, WritePcs, RevertPcs, ResetPcs, LoadPcs, SyncPcs, RestPcs, ExecutePcs,
             DrawPcs, InputPcs
<1>. DEFINE c == call[p]
<1>0. /\ Client = {p} /\ LocalsOK(c, next_snapshot, now) /\ Place(c)
      /\ RecordsOK(state) /\ state \in Overlays /\ mode \in Modes(now) /\ now \in Nat
      /\ epoch \in Nat /\ start \in Nat /\ Clk(state) \in Nat
      /\ DOMAIN c = DOMAIN IdleCall /\ c.ms \in Nat
  BY ClockTyped DEF OneAtATime, TypeInv, ThreadsOK, Inv, CountersOK, Clk, LocalsOK, Carries
<1>1. c.pc \in {"clock_read", "clock_write"} => c.op \in DOMAIN AfterClock
  BY <1>0 DEF LocalsOK, Carries, ClockPcs
<1>2. /\ AfterClock["execute"] = "lock" /\ AfterClock["epoch_advance"] = "sync_load"
      /\ \A op \in {"clock_set", "clock_advance", "state_load"} : AfterClock[op] = "fix_mode"
  BY DEF AfterClock
<1>3. CASE ReadClockObject(p)
  <2>. DEFINE obj == Current(state, Clock)
              pc == IF obj.data = <<c.ms>> THEN AfterClock[c.op] ELSE "clock_write"
              l == [c EXCEPT !.obj = obj, !.pc = pc]
  <2>1. /\ call'[p] = l /\ c.pc = "clock_read" /\ Fork' = Fork /\ state' = state
        /\ UNCHANGED <<epoch, start, mode, snapshots, next_snapshot, file, captured,
                       dumped, now>>
    BY <1>3, Became DEF ReadClockObject, Private, At, memory, Fork
  <2>2. obj.data = <<c.ms>> => c.ms = Clk(state)
    BY DEF Clk
  <2>3. c.op = "state_load" => obj.data = <<c.ms>>
    BY <1>0, <2>1 DEF Place, Setting, Story, ClockIs
  <2>a. pc = IF obj.data = <<c.ms>> THEN AfterClock[c.op] ELSE "clock_write"
    OBVIOUS
  <2>. HIDE DEF pc
  <2>4. /\ l.pc = pc /\ l.obj = obj /\ l.op = c.op /\ l.ms = c.ms /\ l.epoch = c.epoch
    BY <1>0, LocalNames
  <2>. HIDE DEF l
  <2>5. CASE obj.data # <<c.ms>>
    <3>1. l.pc = "clock_write" /\ l.op # "state_load"
      BY <2>3, <2>4, <2>5, <2>a
    <3>2. Place(call[p])'
      BY <1>0, <2>1, <2>4, <3>1 DEF Place, Somewhere, Reading, Copying, Setting, Moving,
         RollingBack
    <3>. QED BY <1>0, <2>1, <3>2, Frame
  <2>6. CASE obj.data = <<c.ms>>
    <3>1. l.pc = AfterClock[c.op] /\ c.ms = Clk(state)
      BY <2>2, <2>4, <2>6, <2>a
    <3>2. CASE c.op = "execute"
      <4>1. Settled(Fork, now)' /\ l.pc = "lock"
        BY <1>0, <1>2, <2>1, <3>1, <3>2 DEF Place, Setting
      <4>. QED BY <1>0, <2>1, <4>1, AtRest, Frame
    <3>3. CASE c.op = "epoch_advance"
      <4>1. l.pc = "sync_load"
        BY <1>2, <3>1, <3>3
      <4>2. Place(call[p])'
        BY <1>0, <2>1, <2>4, <3>1, <3>3, <4>1 DEF Place, Somewhere, Reading, Copying,
           Setting, Moving, RollingBack
      <4>. QED BY <1>0, <2>1, <4>2, Frame
    <3>4. CASE c.op \in {"clock_set", "clock_advance", "state_load"}
      <4>1. l.pc = "fix_mode"
        BY <1>2, <3>1, <3>4
      <4>2. Place(call[p])'
        BY <1>0, <2>1, <2>4, <3>1, <3>4, <4>1 DEF Place, Somewhere, Reading, Copying,
           Setting, Moving, RollingBack
      <4>. QED BY <1>0, <2>1, <4>2, Frame
    <3>. QED BY <1>1, <2>1, <3>2, <3>3, <3>4, LocalNames
  <2>. QED BY <2>5, <2>6
<1>4. ~ReadClockObjectFails(p) /\ ~Dropped(p)
  BY DEF OneAtATime, ReadClockObjectFails, ReadFails, Dropped
<1>5. CASE WriteClockObject(p)
  <2>1. /\ Goto(p, AfterClock[c.op]) /\ c.pc = "clock_write"
        /\ state' = set_object(state, Bumped(c.obj, <<c.ms>>))
        /\ UNCHANGED <<epoch, start, mode, snapshots, next_snapshot, file, captured,
                       dumped, now>>
    BY <1>5 DEF WriteClockObject, Private, At
  <2>2. c.obj = Current(state, Clock) /\ c.op # "state_load" /\ Clk(state) =< c.ms
    BY <1>0, <2>1 DEF Place, Setting
  <2>3. /\ ClockIs(state', c.ms) /\ Clk(state') = c.ms /\ RecordsOK(state')
        /\ Current(state', SystemInner) = Current(state, SystemInner)
    BY <1>0, <2>1, <2>2, ClockSetTo
  <2>4. Story(state, epoch, start) => Story(state', epoch', start')
    BY <1>0, <2>1, <2>2, <2>3 DEF Story
  <2>5. call'[p].pc = AfterClock[c.op] /\ call'[p].op = c.op /\ call'[p].ms = c.ms
        /\ call'[p].epoch = c.epoch
    BY <2>1, WentTo, LocalNames
  <2>6. CASE c.op = "execute"
    <3>1. /\ Settled(Fork, now) /\ mode.kind # "Frozen" /\ c.ms =< Target(mode, now)
      BY <1>0, <2>1, <2>6 DEF Place, Setting
    <3>2. Story(state, epoch, start)
      BY <3>1, SettledIs DEF Fork
    <3>3. Ahead(mode', state', now')
      BY <2>1, <2>3, <3>1 DEF Ahead
    <3>4. Settled(Fork, now)'
      BY <2>3, <2>4, <3>2, <3>3, SettledIs DEF Fork
    <3>5. call'[p].pc = "lock"
      BY <1>2, <2>5, <2>6
    <3>. QED BY <1>0, <2>1, <2>3, <3>4, <3>5, AtRest, Frame
  <2>7. CASE c.op = "epoch_advance"
    <3>1. call'[p].pc = "sync_load"
      BY <1>2, <2>5, <2>7
    <3>2. Place(call[p])'
      BY <1>0, <2>1, <2>3, <2>5, <2>7, <3>1 DEF Place, Somewhere, Reading, Copying,
         Setting, Moving, RollingBack
    <3>. QED BY <1>0, <2>1, <2>3, <3>2, Frame
  <2>8. CASE c.op \in {"clock_set", "clock_advance"}
    <3>1. call'[p].pc = "fix_mode" /\ Story(state', epoch', start')
      BY <1>0, <1>2, <2>1, <2>4, <2>5, <2>8 DEF Place, Setting
    <3>2. Place(call[p])'
      BY <1>0, <2>1, <2>3, <2>5, <2>8, <3>1 DEF Place, Somewhere, Reading, Copying,
         Setting, Moving, RollingBack
    <3>. QED BY <1>0, <2>1, <2>3, <3>2, Frame
  <2>. QED BY <1>1, <2>1, <2>2, <2>6, <2>7, <2>8, LocalNames
<1>6. CASE FixMode(p)
  <2>1. /\ Return(p) /\ c.pc = "fix_mode" /\ mode' = FixedMode(c.ms)
        /\ UNCHANGED <<state, epoch, start, snapshots, next_snapshot, file, captured,
                       dumped, now>>
    BY <1>6 DEF FixMode, Private, At
  <2>2. Story(state, epoch, start) /\ c.ms = Clk(state)
    BY <1>0, <2>1 DEF Place, Setting
  <2>3. Ahead(mode', state', now')
    BY <1>0, <2>1, <2>2 DEF Ahead, FixedMode, Target
  <2>4. Settled(Fork, now)'
    BY <1>0, <2>1, <2>2, <2>3, SettledIs DEF Fork
  <2>. QED BY <1>0, <2>1, <2>4, WentIdle, AtRest, Frame
<1>. QED BY <1>3, <1>4, <1>5, <1>6 DEF SetClock

\* Each step of an execution preserves the invariant.
LEMMA ExecutePlaces ==
    ASSUME TypeInv, Inv, Unbounded, OneAtATime, NEW p \in Client, ExecuteHandler(p)
    PROVE  Inv'
<1>. USE DEF SnapPcs, WritePcs, RevertPcs, ResetPcs, LoadPcs, SyncPcs, RestPcs, ExecutePcs,
             DrawPcs, InputPcs
<1>. DEFINE c == call[p]
<1>0. /\ Client = {p} /\ LocalsOK(c, next_snapshot, now) /\ Place(c)
      /\ RecordsOK(state) /\ state \in Overlays /\ mode \in Modes(now) /\ now \in Nat
      /\ epoch \in Nat /\ start \in Nat /\ Clk(state) \in Nat
      /\ DOMAIN c = DOMAIN IdleCall /\ c.ms \in Nat
  BY ClockTyped DEF OneAtATime, TypeInv, ThreadsOK, Inv, CountersOK, Clk, LocalsOK, Carries
<1>1. c.pc \in RestPcs => Settled(Fork, now)
  BY <1>0 DEF Place, Reading
<1>2. CASE PrepareClock(p)
  <2>1. /\ Fork' = Fork /\ state' = state
        /\ UNCHANGED <<epoch, start, mode, snapshots, next_snapshot, file, captured,
                       dumped, now>>
    BY <1>2 DEF PrepareClock, Private, memory, Fork
  <2>. DEFINE ms == IF mode.kind = "Frozen" THEN 0 ELSE target_ms(mode)
              pc == IF mode.kind = "Frozen" THEN "lock" ELSE "clock_read"
              id == requests + 1
              l == [IdleCall EXCEPT !.id = id, !.pc = pc, !.ms = ms]
  <2>2. Arrive(p, "execute", l)
    BY <1>2 DEF PrepareClock
  <2>3. IF mode.kind = "Frozen" THEN pc = "lock"
        ELSE pc = "clock_read" /\ ms = Target(mode, now)
    BY DEF target_ms, Target
  <2>. HIDE DEF ms, pc, id
  <2>4. DOMAIN l = DOMAIN IdleCall /\ l.pc = pc /\ l.ms = ms
    BY LocalNames
  <2>. HIDE DEF l
  <2>5. c.pc = "idle" /\ call'[p].op = "execute" /\ call'[p].pc = pc /\ call'[p].ms = ms
    BY <2>2, <2>4, ArrivedAs, LocalNames
  <2>6. Settled(Fork, now) /\ Settled(Fork, now)'
    BY <1>1, <2>1, <2>5
  <2>7. CASE mode.kind = "Frozen"
    BY <1>0, <2>1, <2>3, <2>5, <2>6, <2>7, AtRest, Frame
  <2>8. CASE mode.kind # "Frozen"
    <3>1. Clk(state) =< ms /\ ms =< Target(mode, now)
      <4>1. Ahead(mode, state, now)
        BY <2>6, SettledIs DEF Fork
      <4>. QED BY <1>0, <2>3, <2>8, <4>1, TargetGrows DEF Ahead
    <3>2. Place(call[p])'
      BY <2>1, <2>3, <2>5, <2>6, <2>8, <3>1 DEF Place, Somewhere, Reading, Copying, Setting,
         Moving, RollingBack
    <3>. QED BY <1>0, <2>1, <3>2, Frame
  <2>. QED BY <2>7, <2>8
<1>3. CASE Acquire(p)
  <2>1. /\ Fork' = Fork /\ state' = state
        /\ UNCHANGED <<epoch, start, mode, snapshots, next_snapshot, file, captured,
                       dumped, now>>
    BY <1>3 DEF Acquire, Private, memory, Fork
  <2>2. c.pc = "lock" /\ Goto(p, "read_shared")
    BY <1>3 DEF Acquire, At
  <2>3. Settled(Fork, now)'
    BY <1>1, <2>1, <2>2
  <2>. QED BY <1>0, <2>1, <2>2, <2>3, WentTo, AtRest, Frame
<1>4. CASE ReadInputs(p)
  <2>1. /\ Fork' = Fork /\ state' = state
        /\ UNCHANGED <<epoch, start, mode, snapshots, next_snapshot, file, captured,
                       dumped, now>>
    BY <1>4 DEF ReadInputs, Private, memory, Fork
  <2>2. CASE At(p, "read_shared")
    <3>. DEFINE v == Current(state, Shared)
                l == [c EXCEPT !.obj = v, !.pc = "read_clock"]
    <3>1. call'[p] = l
      BY <1>4, <2>2, Became DEF ReadInputs, At
    <3>2. v = Current(state, Shared)
      OBVIOUS
    <3>. HIDE DEF v
    <3>3. /\ l.pc = "read_clock" /\ l.obj = v
          /\ \A field \in DOMAIN IdleCall \ {"pc", "obj"} : l[field] = c[field]
      BY <1>0, LocalNames
    <3>. HIDE DEF l
    <3>4. Place(call[p])'
      BY <1>0, <2>1, <2>2, <3>1, <3>2, <3>3, LocalNames DEF Place, Somewhere, Reading,
         Copying, Setting, Moving, RollingBack, At
    <3>. QED BY <1>0, <2>1, <3>4, Frame
  <2>3. CASE At(p, "read_clock")
    <3>. DEFINE v == clock_timestamp_ms
                l == [c EXCEPT !.ms = v, !.pc = "read_epoch"]
    <3>1. call'[p] = l
      BY <1>4, <2>3, Became DEF ReadInputs, At
    <3>2. v = clock_timestamp_ms
      OBVIOUS
    <3>. HIDE DEF v
    <3>3. /\ l.pc = "read_epoch" /\ l.ms = v
          /\ \A field \in DOMAIN IdleCall \ {"pc", "ms"} : l[field] = c[field]
      BY <1>0, LocalNames
    <3>. HIDE DEF l
    <3>4. Place(call[p])'
      BY <1>0, <2>1, <2>3, <3>1, <3>2, <3>3, LocalNames DEF Place, Somewhere, Reading,
         Copying, Setting, Moving, RollingBack, At, clock_timestamp_ms, Clk
    <3>. QED BY <1>0, <2>1, <3>4, Frame
  <2>. QED BY <1>4, <2>2, <2>3 DEF ReadInputs
<1>5. CASE ReadEpoch(p)
  <2>1. /\ Fork' = Fork /\ state' = state
        /\ UNCHANGED <<epoch, start, mode, snapshots, next_snapshot, file, captured,
                       dumped, now>>
    BY <1>5 DEF ReadEpoch, Private, memory, Fork
  <2>2. CASE At(p, "read_epoch")
    <3>. DEFINE v == epoch
                l == [c EXCEPT !.epoch = v, !.pc = "read_start"]
    <3>1. call'[p] = l
      BY <1>5, <2>2, Became DEF ReadEpoch, At
    <3>2. v = epoch
      OBVIOUS
    <3>. HIDE DEF v
    <3>3. /\ l.pc = "read_start" /\ l.epoch = v
          /\ \A field \in DOMAIN IdleCall \ {"pc", "epoch"} : l[field] = c[field]
      BY <1>0, LocalNames
    <3>. HIDE DEF l
    <3>4. Place(call[p])'
      BY <1>0, <2>1, <2>2, <3>1, <3>2, <3>3, LocalNames DEF Place, Somewhere, Reading,
         Copying, Setting, Moving, RollingBack, At
    <3>. QED BY <1>0, <2>1, <3>4, Frame
  <2>3. CASE At(p, "read_start")
    <3>. DEFINE v == start
                l == [c EXCEPT !.start = v, !.pc = "commit"]
    <3>1. call'[p] = l
      BY <1>5, <2>3, Became DEF ReadEpoch, At
    <3>2. v = start
      OBVIOUS
    <3>. HIDE DEF v
    <3>3. /\ l.pc = "commit" /\ l.start = v
          /\ \A field \in DOMAIN IdleCall \ {"pc", "start"} : l[field] = c[field]
      BY <1>0, LocalNames
    <3>. HIDE DEF l
    <3>4. Place(call[p])'
      BY <1>0, <2>1, <2>3, <3>1, <3>2, <3>3, LocalNames DEF Place, Somewhere, Reading,
         Copying, Setting, Moving, RollingBack, At
    <3>. QED BY <1>0, <2>1, <3>4, Frame
  <2>. QED BY <1>5, <2>2, <2>3 DEF ReadEpoch
<1>6. CASE CommitTransaction(p)
  <2>. DEFINE info(success) == [success |-> success, epoch |-> c.epoch,
                                start |-> c.start, ms |-> c.ms]
  <2>1. PICK success \in BOOLEAN :
           state' = commit(state, Outcome(c.obj, success), c.id, info(success))
    BY <1>6 DEF CommitTransaction
  <2>2. /\ Return(p) /\ c.pc = "commit"
        /\ UNCHANGED <<epoch, start, mode, snapshots, next_snapshot, file, captured,
                       dumped, now>>
    BY <1>6 DEF CommitTransaction, Private, At
  <2>3. /\ Settled(Fork, now) /\ c.ms = Clk(state) /\ c.start = start
    BY <1>0, <2>2 DEF Place, Reading
  <2>4. Story(state, epoch, start) /\ Ahead(mode, state, now)
    BY <2>3, SettledIs DEF Fork
  <2>5. info(success).start = start /\ info(success).ms = Clk(state)
    BY <2>3
  <2>6. c.obj \in Object /\ c.id \in Digest /\ info(success) \in Info
    BY <1>0, <2>2 DEF LocalsOK, Carries, ObjectPcs, Unbounded
  <2>. HIDE DEF info
  <2>7. /\ Current(state', Clock) = Current(state, Clock)
        /\ Current(state', SystemInner) = Current(state, SystemInner)
        /\ state'.transactions = [state.transactions EXCEPT ![c.id] = info(success)]
    <3>. DEFINE e == Outcome(c.obj, success)
    <3>1. /\ e.deleted = {}
          /\ e.written[Clock] = None /\ e.written[SystemInner] = None
      BY SystemObjectsAssumption, SharedAssumption DEF Outcome
    <3>2. state' = commit(state, e, c.id, info(success))
      BY <2>1
    <3>. HIDE DEF e
    <3>3. state'.transactions = [state.transactions EXCEPT ![c.id] = info(success)]
      BY <3>2 DEF commit
    <3>. QED BY <1>0, <2>6, <3>1, <3>2, <3>3, CommittedLeaves, SystemObjectsAssumption
  <2>8. RecordsOK(state')
    <3>1. state.transactions \in [Digest -> Maybe(Info)]
      BY <1>0 DEF Overlays, OverlayState
    <3>2. start =< Clk(state)
      BY <2>4 DEF Story
    <3>. QED BY <1>0, <2>5, <2>7, <3>1, <3>2 DEF RecordsOK
  <2>9. Story(state', epoch', start') /\ Ahead(mode', state', now')
    BY <2>2, <2>4, <2>7 DEF Story, ClockIs, Clk, Ahead
  <2>10. Settled(Fork, now)'
    BY <2>8, <2>9, SettledIs DEF Fork
  <2>. QED BY <1>0, <2>2, <2>8, <2>10, WentIdle, AtRest, Frame
<1>7. CASE ExecuteFails(p)
  <2>1. /\ Fork' = Fork /\ state' = state
        /\ UNCHANGED <<epoch, start, mode, snapshots, next_snapshot, file, captured,
                       dumped, now>>
    BY <1>7 DEF ExecuteFails, Private, memory, Fork
  <2>2. c.pc \in RestPcs /\ Return(p)
    BY <1>7 DEF ExecuteFails
  <2>3. Settled(Fork, now)'
    BY <1>1, <2>1, <2>2
  <2>. QED BY <1>0, <2>1, <2>2, <2>3, WentIdle, AtRest, Frame
<1>. QED BY <1>2, <1>3, <1>4, <1>5, <1>6, <1>7 DEF ExecuteHandler

\* Each step that takes a snapshot preserves the invariant.
LEMMA TakePlaces ==
    ASSUME TypeInv, Inv, Unbounded, OneAtATime, NEW p \in Client,
           \/ TakeSnapshot(p) \/ SnapshotReads(p)
           \/ DrawSnapshotId(p) \/ SnapshotInsert(p)
    PROVE  Inv'
<1>. USE DEF SnapPcs, WritePcs, RevertPcs, ResetPcs, LoadPcs, SyncPcs, RestPcs, ExecutePcs,
             DrawPcs, InputPcs
<1>. DEFINE c == call[p]
<1>0. /\ Client = {p} /\ LocalsOK(c, next_snapshot, now) /\ Place(c)
      /\ RecordsOK(state) /\ state \in Overlays /\ mode \in Modes(now) /\ now \in Nat
      /\ epoch \in Nat /\ start \in Nat /\ Clk(state) \in Nat
      /\ DOMAIN c = DOMAIN IdleCall /\ c.ms \in Nat
  BY ClockTyped DEF OneAtATime, TypeInv, ThreadsOK, Inv, CountersOK, Clk, LocalsOK, Carries
<1>1. c.pc \in RestPcs => Settled(Fork, now)
  BY <1>0 DEF Place, Reading
<1>2. CASE TakeSnapshot(p)
  <2>1. /\ Fork' = Fork /\ state' = state
        /\ UNCHANGED <<epoch, start, mode, snapshots, next_snapshot, file, captured,
                       dumped, now>>
    BY <1>2 DEF TakeSnapshot, Private, memory, Fork
  <2>. DEFINE l == [IdleCall EXCEPT !.pc = "snap_epoch", !.overlay = state, !.fork = Fork]
  <2>2. Arrive(p, "snapshot", l)
    BY <1>2 DEF TakeSnapshot
  <2>3. /\ DOMAIN l = DOMAIN IdleCall /\ l.pc = "snap_epoch" /\ l.overlay = state
        /\ l.fork = Fork
    BY LocalNames
  <2>. HIDE DEF l
  <2>4. /\ c.pc = "idle" /\ call'[p].pc = "snap_epoch" /\ call'[p].overlay = state
        /\ call'[p].fork = Fork
    BY <2>2, <2>3, ArrivedAs, LocalNames
  <2>5. Place(call[p])'
    BY <1>1, <2>1, <2>4 DEF Place, Somewhere, Reading, Copying, Setting, Moving, RollingBack
  <2>. QED BY <1>0, <2>1, <2>5, Frame
<1>3. CASE SnapshotReads(p)
  <2>1. /\ Fork' = Fork /\ state' = state
        /\ UNCHANGED <<epoch, start, mode, snapshots, next_snapshot, file, captured,
                       dumped, now>>
    BY <1>3 DEF SnapshotReads, Private, memory, Fork
  <2>2. CASE At(p, "snap_epoch")
    <3>. DEFINE v == epoch
                l == [c EXCEPT !.epoch = v, !.pc = "snap_start"]
    <3>1. call'[p] = l
      BY <1>3, <2>2, Became DEF SnapshotReads, At
    <3>2. v = epoch
      OBVIOUS
    <3>. HIDE DEF v
    <3>3. /\ l.pc = "snap_start" /\ l.epoch = v
          /\ \A field \in DOMAIN IdleCall \ {"pc", "epoch"} : l[field] = c[field]
      BY <1>0, LocalNames
    <3>. HIDE DEF l
    <3>4. Place(call[p])'
      BY <1>0, <2>1, <2>2, <3>1, <3>2, <3>3, LocalNames DEF Place, Somewhere, Reading,
         Copying, Setting, Moving, RollingBack, At
    <3>. QED BY <1>0, <2>1, <3>4, Frame
  <2>3. CASE At(p, "snap_start")
    <3>. DEFINE v == start
                l == [c EXCEPT !.start = v, !.pc = "snap_mode"]
    <3>1. call'[p] = l
      BY <1>3, <2>3, Became DEF SnapshotReads, At
    <3>2. v = start
      OBVIOUS
    <3>. HIDE DEF v
    <3>3. /\ l.pc = "snap_mode" /\ l.start = v
          /\ \A field \in DOMAIN IdleCall \ {"pc", "start"} : l[field] = c[field]
      BY <1>0, LocalNames
    <3>. HIDE DEF l
    <3>4. Place(call[p])'
      BY <1>0, <2>1, <2>3, <3>1, <3>2, <3>3, LocalNames DEF Place, Somewhere, Reading,
         Copying, Setting, Moving, RollingBack, At
    <3>. QED BY <1>0, <2>1, <3>4, Frame
  <2>4. CASE At(p, "snap_mode")
    <3>. DEFINE v == mode
                l == [c EXCEPT !.mode = v, !.pc = "snap_id"]
    <3>1. call'[p] = l
      BY <1>3, <2>4, Became DEF SnapshotReads, At
    <3>2. v = mode
      OBVIOUS
    <3>. HIDE DEF v
    <3>3. /\ l.pc = "snap_id" /\ l.mode = v
          /\ \A field \in DOMAIN IdleCall \ {"pc", "mode"} : l[field] = c[field]
      BY <1>0, LocalNames
    <3>. HIDE DEF l
    <3>4. Place(call[p])'
      BY <1>0, <2>1, <2>4, <3>1, <3>2, <3>3, LocalNames DEF Place, Somewhere, Reading,
         Copying, Setting, Moving, RollingBack, At
    <3>. QED BY <1>0, <2>1, <3>4, Frame
  <2>. QED BY <1>3, <2>2, <2>3, <2>4 DEF SnapshotReads
<1>4. CASE DrawSnapshotId(p)
  <2>. DEFINE id == next_snapshot
              l == [c EXCEPT !.id = id, !.pc = "snap_insert"]
  <2>1. /\ Fork' = Fork /\ state' = state /\ c.pc = "snap_id"
        /\ next_snapshot' = next_snapshot + 1 /\ call'[p] = l
        /\ UNCHANGED <<epoch, start, mode, snapshots, file, captured, dumped, now>>
    BY <1>4, Became DEF DrawSnapshotId, Private, Fork, At
  <2>. HIDE DEF id
  <2>2. /\ l.pc = "snap_insert" /\ l.id = id
        /\ \A field \in DOMAIN IdleCall \ {"pc", "id"} : l[field] = c[field]
    BY <1>0, LocalNames
  <2>. HIDE DEF l
  <2>3. /\ next_snapshot \in Nat /\ next_snapshot \in SnapshotId
        /\ \A i \in SnapshotId : i \in Nat
    <3>1. Cardinality(Drawing) \in Nat /\ p \in Drawing /\ IsFiniteSet(Drawing)
      BY <2>1, FS_CardinalityType DEF TypeInv, IdsSuffice, Drawing
    <3>. QED BY <3>1, RequestsAssumption DEF TypeInv, IdsSuffice, CountersOK, SnapshotId
  <2>4. captured[next_snapshot] = None
    BY <2>3 DEF Inv, CopiesAreTrue
  <2>5. CopiesAreTrue'
    <3>1. \A i \in SnapshotId : captured[i] # None => i < next_snapshot'
      BY <2>1, <2>3 DEF Inv, CopiesAreTrue
    <3>. QED BY <2>1, <3>1 DEF Inv, CopiesAreTrue
  <2>6. id = next_snapshot' - 1 /\ captured'[id] = None
    BY <2>1, <2>3, <2>4 DEF id
  <2>7. DumpIsTrue'
    BY <2>1 DEF Inv, DumpIsTrue, FileIsDump
  <2>8. Place(call[p])'
    BY <1>0, <2>1, <2>2, <2>6, LocalNames DEF Place, Somewhere, Reading, Copying, Setting,
       Moving, RollingBack
  <2>. QED BY <1>0, <2>1, <2>5, <2>7, <2>8 DEF Inv
<1>5. CASE SnapshotInsert(p)
  <2>. DEFINE copy == [overlay |-> c.overlay, epoch |-> c.epoch,
                       start |-> c.start, mode |-> c.mode]
  <2>1. /\ Fork' = Fork /\ state' = state /\ Return(p) /\ c.pc = "snap_insert"
        /\ snapshots' = [snapshots EXCEPT ![c.id] = copy]
        /\ captured' = [captured EXCEPT ![c.id] = IF @ = None THEN c.fork ELSE @]
        /\ UNCHANGED <<epoch, start, mode, next_snapshot, file, dumped, now>>
    BY <1>5 DEF SnapshotInsert, Private, At, Fork
  <2>2. /\ c.overlay = state /\ c.epoch = epoch /\ c.start = start /\ c.mode = mode
        /\ c.fork = Fork /\ captured[c.id] = None
    BY <1>0, <2>1 DEF Place, Copying
  <2>3. copy = Fork
    BY <2>2 DEF Fork
  <2>. HIDE DEF copy
  <2>4. /\ c.id \in SnapshotId /\ c.id < next_snapshot
        /\ snapshots \in [SnapshotId -> Maybe(Copies(now))]
    <3>1. c.id \in Nat /\ c.id < next_snapshot
      BY <1>0, <2>1 DEF LocalsOK, Carries
    <3>2. next_snapshot \in Nat /\ next_snapshot =< MaxRequests
      <4>1. Cardinality(Drawing) \in Nat
        BY FS_CardinalityType DEF TypeInv, IdsSuffice
      <4>. QED BY <4>1, RequestsAssumption DEF TypeInv, IdsSuffice, CountersOK
    <3>. QED BY <3>1, <3>2, RequestsAssumption DEF SnapshotId, TypeInv, SnapshotsOK
  <2>5. Settled(Fork, now)
    BY <1>1, <2>1
  <2>6. CopiesAreTrue'
    BY <2>1, <2>2, <2>3, <2>4, <2>5 DEF Inv, CopiesAreTrue
  <2>7. DumpIsTrue'
    BY <2>1 DEF Inv, DumpIsTrue, FileIsDump
  <2>8. Place(call[p])'
    BY <2>1, <2>5, WentIdle, AtRest
  <2>. QED BY <1>0, <2>1, <2>6, <2>7, <2>8 DEF Inv
<1>. QED BY <1>2, <1>3, <1>4, <1>5

\* Each step of a revert preserves the invariant.
LEMMA RevertPlaces ==
    ASSUME TypeInv, Inv, Unbounded, OneAtATime, NEW p \in Client,
           Revert(p) \/ RevertRefused(p) \/ RevertSteps(p)
    PROVE  Inv'
<1>. USE DEF SnapPcs, WritePcs, RevertPcs, ResetPcs, LoadPcs, SyncPcs, RestPcs, ExecutePcs,
             DrawPcs, InputPcs
<1>. DEFINE c == call[p]
<1>0. /\ Client = {p} /\ LocalsOK(c, next_snapshot, now) /\ Place(c)
      /\ RecordsOK(state) /\ state \in Overlays /\ mode \in Modes(now) /\ now \in Nat
      /\ epoch \in Nat /\ start \in Nat /\ Clk(state) \in Nat
      /\ DOMAIN c = DOMAIN IdleCall /\ c.ms \in Nat
  BY ClockTyped DEF OneAtATime, TypeInv, ThreadsOK, Inv, CountersOK, Clk, LocalsOK, Carries
<1>1. c.pc \in RestPcs => Settled(Fork, now)
  BY <1>0 DEF Place, Reading
<1>2. CASE Revert(p)
  <2>1. /\ Fork' = Fork /\ state' = state
        /\ UNCHANGED <<epoch, start, mode, snapshots, next_snapshot, file, captured,
                       dumped, now>>
    BY <1>2 DEF Revert, Private, memory, Fork
  <2>2. PICK id \in SnapshotId :
          /\ snapshots[id] # None
          /\ Arrive(p, "revert", [IdleCall EXCEPT
                !.pc = "rev_overlay", !.id = id,
                !.overlay = snapshots[id].overlay, !.epoch = snapshots[id].epoch,
                !.start = snapshots[id].start, !.mode = snapshots[id].mode])
    BY <1>2 DEF Revert
  <2>. DEFINE copy == snapshots[id]
  <2>3. copy \in Copies(now) /\ copy = captured[id] /\ Settled(copy, now)
    BY <2>2 DEF TypeInv, SnapshotsOK, Maybe, Inv, CopiesAreTrue
  <2>. HIDE DEF copy
  <2>. DEFINE l == [IdleCall EXCEPT
                !.pc = "rev_overlay", !.id = id, !.overlay = copy.overlay,
                !.epoch = copy.epoch, !.start = copy.start, !.mode = copy.mode]
  <2>4. Arrive(p, "revert", l)
    BY <2>2 DEF copy
  <2>5. /\ DOMAIN l = DOMAIN IdleCall /\ l.pc = "rev_overlay" /\ l.id = id
        /\ l.overlay = copy.overlay /\ l.epoch = copy.epoch /\ l.start = copy.start
        /\ l.mode = copy.mode
    BY LocalNames
  <2>. HIDE DEF l
  <2>6. /\ call'[p].pc = "rev_overlay" /\ call'[p].id = id
        /\ call'[p].overlay = copy.overlay /\ call'[p].epoch = copy.epoch
        /\ call'[p].start = copy.start /\ call'[p].mode = copy.mode
    BY <2>4, <2>5, ArrivedAs, LocalNames
  <2>7. copy = [overlay |-> copy.overlay, epoch |-> copy.epoch, start |-> copy.start,
                mode |-> copy.mode]
    BY <2>3 DEF Copies
  <2>8. Carried(call[p])' = copy
    BY <2>6, <2>7 DEF Carried
  <2>9. Place(call[p])'
    BY <2>1, <2>2, <2>3, <2>6, <2>8 DEF Place, Somewhere, Reading, Copying, Setting,
       Moving, RollingBack
  <2>. QED BY <1>0, <2>1, <2>9, Frame
<1>3. CASE RevertRefused(p)
  <2>1. /\ Fork' = Fork /\ state' = state
        /\ UNCHANGED <<epoch, start, mode, snapshots, next_snapshot, file, captured,
                       dumped, now>>
    BY <1>3 DEF RevertRefused, Private, memory, Fork
  <2>2. c.pc = "idle" /\ call'[p].pc = "idle"
    BY <1>3, ArrivedAs, LocalNames DEF RevertRefused, IdleCall
  <2>3. Settled(Fork, now)'
    BY <1>1, <2>1, <2>2
  <2>. QED BY <1>0, <2>1, <2>2, <2>3, AtRest, Frame
<1>4. CASE RevertSteps(p)
  <2>1. /\ UNCHANGED <<snapshots, next_snapshot, file, captured, dumped, now>>
        /\ c.pc \in RevertPcs
    BY <1>4 DEF RevertSteps, ReplaceOverlay, RestoreEpoch, RestoreStart, RevertMode, Private,
       At
  <2>2. captured[c.id] = Carried(c) /\ Settled(Carried(c), now) /\ c.id \in SnapshotId
    BY <1>0, <2>1 DEF Place, RollingBack
  <2>3. RecordsOK(c.overlay)
    BY <2>2, SettledIs DEF Carried
  <2>4. ASSUME NEW next \in RevertPcs, Goto(p, next), mode' = mode,
               state' \in {state, c.overlay},
               next \in RevertPcs \ {"rev_overlay"} => state' = c.overlay,
               next \in {"rev_start", "rev_mode"} => epoch' = c.epoch,
               next = "rev_mode" => start' = c.start
        PROVE  Inv'
    <3>1. /\ call'[p].pc = next
          /\ \A field \in DOMAIN IdleCall \ {"pc"} : call'[p][field] = c[field]
      BY <2>4, WentTo
    <3>2. Carried(call[p])' = Carried(c) /\ call'[p].id = c.id
          /\ call'[p].overlay = c.overlay /\ call'[p].epoch = c.epoch
          /\ call'[p].start = c.start
      BY <3>1, LocalNames DEF Carried
    <3>3. Place(call[p])'
      BY <2>1, <2>2, <2>4, <3>1, <3>2 DEF Place, Somewhere, Reading, Copying, Setting,
         Moving, RollingBack
    <3>. QED BY <1>0, <2>1, <2>3, <2>4, <3>3, Frame
  <2>5. CASE ReplaceOverlay(p, "rev_overlay", c.overlay, "rev_epoch")
    BY <2>4, <2>5 DEF ReplaceOverlay
  <2>6. CASE RestoreEpoch(p, "rev_epoch", "rev_start")
    <3>1. state = c.overlay
      BY <1>0, <2>6 DEF RestoreEpoch, At, Place, RollingBack
    <3>. QED BY <2>4, <2>6, <3>1 DEF RestoreEpoch
  <2>7. CASE RestoreStart(p, "rev_start", "rev_mode")
    <3>1. state = c.overlay /\ epoch = c.epoch
      BY <1>0, <2>7 DEF RestoreStart, At, Place, RollingBack
    <3>. QED BY <2>4, <2>7, <3>1 DEF RestoreStart
  <2>8. CASE RevertMode(p)
    <3>1. state = c.overlay /\ epoch = c.epoch /\ start = c.start
      BY <1>0, <2>8 DEF RevertMode, At, Place, RollingBack
    <3>2. Fork' = Carried(c) /\ state' = state
      BY <2>8, <3>1 DEF RevertMode, Fork, Carried
    <3>3. Settled(Fork, now)'
      BY <2>1, <2>2, <3>2
    <3>. QED BY <1>0, <2>1, <2>8, <3>2, <3>3, WentIdle, AtRest, Frame DEF RevertMode
  <2>. QED BY <1>4, <2>5, <2>6, <2>7, <2>8 DEF RevertSteps
<1>. QED BY <1>2, <1>3, <1>4

\* Each step of a reset preserves the invariant.
LEMMA ResetPlaces ==
    ASSUME TypeInv, Inv, Unbounded, OneAtATime, ForkPointAgrees, NEW p \in Client,
           Reset(p) \/ ResetSteps(p)
    PROVE  Inv'
<1>. USE DEF SnapPcs, WritePcs, RevertPcs, ResetPcs, LoadPcs, SyncPcs, RestPcs, ExecutePcs,
             DrawPcs, InputPcs
<1>. DEFINE c == call[p]
<1>0. /\ Client = {p} /\ LocalsOK(c, next_snapshot, now) /\ Place(c)
      /\ RecordsOK(state) /\ state \in Overlays /\ mode \in Modes(now) /\ now \in Nat
      /\ epoch \in Nat /\ start \in Nat /\ Clk(state) \in Nat
      /\ DOMAIN c = DOMAIN IdleCall /\ c.ms \in Nat
  BY ClockTyped DEF OneAtATime, TypeInv, ThreadsOK, Inv, CountersOK, Clk, LocalsOK, Carries
<1>1. /\ RecordsOK(Default) /\ Story(Default, InitialEpoch, InitialStart)
      /\ Ahead(AutoMode(Clk(Default)), Default, now)
  BY <1>0, ForkPoint
<1>2. CASE Reset(p)
  <2>. DEFINE l == [IdleCall EXCEPT
                !.pc = "reset_epoch", !.epoch = InitialEpoch, !.start = InitialStart]
  <2>1. /\ Arrive(p, "reset", l) /\ state' = Default
        /\ UNCHANGED <<epoch, start, mode, snapshots, next_snapshot, file, captured,
                       dumped, now>>
    BY <1>2 DEF Reset
  <2>2. /\ DOMAIN l = DOMAIN IdleCall /\ l.pc = "reset_epoch" /\ l.epoch = InitialEpoch
        /\ l.start = InitialStart
    BY LocalNames
  <2>. HIDE DEF l
  <2>3. /\ call'[p].pc = "reset_epoch" /\ call'[p].epoch = InitialEpoch
        /\ call'[p].start = InitialStart
    BY <2>1, <2>2, ArrivedAs, LocalNames
  <2>4. Place(call[p])'
    BY <2>1, <2>3 DEF Place, Somewhere, Reading, Copying, Setting, Moving, RollingBack
  <2>. QED BY <1>0, <1>1, <2>1, <2>4, Frame
<1>3. ASSUME ResetSteps(p)
      PROVE  /\ c.pc \in ResetPcs /\ state = Default /\ state' = state
             /\ c.epoch = InitialEpoch /\ c.start = InitialStart
             /\ UNCHANGED <<next_snapshot, file, captured, dumped, now>>
  <2>1. /\ c.pc \in ResetPcs
        /\ UNCHANGED <<state, next_snapshot, file, captured, dumped, now>>
    BY <1>3 DEF ResetSteps, RestoreEpoch, RestoreStart, ClearSnapshots, ReadAnchor, ResetMode,
       Private, At, memory
  <2>. QED BY <1>0, <2>1 DEF Place, RollingBack
<1>4. ASSUME ResetSteps(p), NEW next \in ResetPcs, call'[p].pc = next,
             call'[p].epoch = c.epoch, call'[p].start = c.start,
             snapshots' \in {snapshots, NoSnapshots},
             next \in ResetPcs \ {"reset_epoch"} => epoch' = InitialEpoch,
             next \in ResetPcs \ {"reset_epoch", "reset_start"} => start' = InitialStart,
             next = "reset_mode" => call'[p].ms = Clk(state)
      PROVE  Inv'
  <2>1. Place(call[p])'
    BY <1>3, <1>4 DEF Place, Somewhere, Reading, Copying, Setting, Moving, RollingBack
  <2>2. CopiesAreTrue'
    <3>1. \A i \in SnapshotId : NoSnapshots[i] = None
      BY DEF NoSnapshots
    <3>. QED BY <1>3, <1>4, <3>1 DEF Inv, CopiesAreTrue
  <2>3. DumpIsTrue'
    BY <1>3, <1>4 DEF Inv, DumpIsTrue, FileIsDump
  <2>. QED BY <1>0, <1>3, <1>4, <2>1, <2>2, <2>3 DEF Inv
<1>5. CASE RestoreEpoch(p, "reset_epoch", "reset_start")
  <2>1. /\ call'[p].pc = "reset_start" /\ call'[p].epoch = c.epoch
        /\ call'[p].start = c.start
    BY <1>5, WentTo, LocalNames DEF RestoreEpoch
  <2>. QED BY <1>3, <1>4, <1>5, <2>1 DEF RestoreEpoch, ResetSteps
<1>6. CASE RestoreStart(p, "reset_start", "reset_snapshots")
  <2>1. /\ call'[p].pc = "reset_snapshots" /\ call'[p].epoch = c.epoch
        /\ call'[p].start = c.start
    BY <1>6, WentTo, LocalNames DEF RestoreStart
  <2>2. epoch = InitialEpoch
    BY <1>0, <1>6 DEF RestoreStart, At, Place, RollingBack
  <2>. QED BY <1>3, <1>4, <1>6, <2>1, <2>2 DEF RestoreStart, ResetSteps
<1>7. CASE ClearSnapshots(p)
  <2>1. /\ call'[p].pc = "reset_anchor" /\ call'[p].epoch = c.epoch
        /\ call'[p].start = c.start
    BY <1>7, WentTo, LocalNames DEF ClearSnapshots
  <2>2. epoch = InitialEpoch /\ start = InitialStart
    BY <1>0, <1>7 DEF ClearSnapshots, At, Place, RollingBack
  <2>. QED BY <1>3, <1>4, <1>7, <2>1, <2>2 DEF ClearSnapshots, ResetSteps
<1>8. CASE ReadAnchor(p)
  <2>. DEFINE ms == clock_timestamp_ms
              l == [c EXCEPT !.ms = ms, !.pc = "reset_mode"]
  <2>1. Becomes(p, l)
    BY <1>8 DEF ReadAnchor, ReadFails, OneAtATime
  <2>2. ms = Clk(state)
    BY DEF clock_timestamp_ms, Clk
  <2>. HIDE DEF ms
  <2>3. l.pc = "reset_mode" /\ l.epoch = c.epoch /\ l.start = c.start /\ l.ms = ms
    BY <1>0, LocalNames
  <2>. HIDE DEF l
  <2>4. epoch = InitialEpoch /\ start = InitialStart
    BY <1>0, <1>8 DEF ReadAnchor, At, Place, RollingBack
  <2>5. UNCHANGED <<epoch, start, snapshots>>
    BY <1>8 DEF ReadAnchor, memory
  <2>. QED BY <1>4, <1>8, <2>1, <2>2, <2>3, <2>4, <2>5, Became DEF ResetSteps
<1>9. CASE ResetMode(p)
  <2>1. /\ state = Default /\ epoch = InitialEpoch /\ start = InitialStart
        /\ c.ms = Clk(Default)
    BY <1>0, <1>9 DEF ResetMode, At, Place, RollingBack
  <2>2. /\ UNCHANGED <<state, epoch, start, snapshots, next_snapshot, file, captured,
                       dumped, now>>
        /\ mode' = AutoMode(Clk(Default)) /\ Return(p)
    BY <1>9, <2>1 DEF ResetMode, Private
  <2>3. Settled(Fork, now)'
    BY <1>1, <2>1, <2>2, SettledIs DEF Fork
  <2>. QED BY <1>0, <2>2, <2>3, WentIdle, AtRest, Frame
<1>. QED BY <1>2, <1>5, <1>6, <1>7, <1>8, <1>9 DEF ResetSteps

\* Each step of a dump preserves the invariant.
LEMMA DumpPlaces ==
    ASSUME TypeInv, Inv, Unbounded, OneAtATime, NEW p \in Client, Dump(p) \/ DumpSteps(p)
    PROVE  Inv'
<1>. USE DEF SnapPcs, WritePcs, RevertPcs, ResetPcs, LoadPcs, SyncPcs, RestPcs, ExecutePcs,
             DrawPcs, InputPcs
<1>. DEFINE c == call[p]
<1>0. /\ Client = {p} /\ LocalsOK(c, next_snapshot, now) /\ Place(c)
      /\ RecordsOK(state) /\ state \in Overlays /\ mode \in Modes(now) /\ now \in Nat
      /\ epoch \in Nat /\ start \in Nat /\ Clk(state) \in Nat
      /\ DOMAIN c = DOMAIN IdleCall /\ c.ms \in Nat
  BY ClockTyped DEF OneAtATime, TypeInv, ThreadsOK, Inv, CountersOK, Clk, LocalsOK, Carries
<1>1. c.pc \in RestPcs => Settled(Fork, now)
  BY <1>0 DEF Place, Reading
<1>2. CASE Dump(p)
  <2>1. /\ Fork' = Fork /\ state' = state
        /\ UNCHANGED <<epoch, start, mode, snapshots, next_snapshot, file, captured,
                       dumped, now>>
    BY <1>2 DEF Dump, Private, memory, Fork
  <2>. DEFINE l == [IdleCall EXCEPT !.pc = "dump_start", !.epoch = epoch, !.fork = Fork]
  <2>2. Arrive(p, "state_dump", l)
    BY <1>2 DEF Dump
  <2>3. /\ DOMAIN l = DOMAIN IdleCall /\ l.pc = "dump_start" /\ l.epoch = epoch
        /\ l.fork = Fork
    BY LocalNames
  <2>. HIDE DEF l
  <2>4. /\ c.pc = "idle" /\ call'[p].pc = "dump_start" /\ call'[p].epoch = epoch
        /\ call'[p].fork = Fork
    BY <2>2, <2>3, ArrivedAs, LocalNames
  <2>5. Place(call[p])'
    BY <1>1, <2>1, <2>4 DEF Place, Somewhere, Reading, Copying, Setting, Moving, RollingBack
  <2>. QED BY <1>0, <2>1, <2>5, Frame
<1>3. CASE DumpReads(p)
  <2>1. /\ Fork' = Fork /\ state' = state
        /\ UNCHANGED <<epoch, start, mode, snapshots, next_snapshot, file, captured,
                       dumped, now>>
    BY <1>3 DEF DumpReads, Private, memory, Fork
  <2>2. CASE At(p, "dump_start")
    <3>. DEFINE v == start
                l == [c EXCEPT !.start = v, !.pc = "dump_clock"]
    <3>1. call'[p] = l
      BY <1>3, <2>2, Became DEF DumpReads, At
    <3>2. v = start
      OBVIOUS
    <3>. HIDE DEF v
    <3>3. /\ l.pc = "dump_clock" /\ l.start = v
          /\ \A field \in DOMAIN IdleCall \ {"pc", "start"} : l[field] = c[field]
      BY <1>0, LocalNames
    <3>. HIDE DEF l
    <3>4. Place(call[p])'
      BY <1>0, <2>1, <2>2, <3>1, <3>2, <3>3, LocalNames DEF Place, Somewhere, Reading,
         Copying, Setting, Moving, RollingBack, At
    <3>. QED BY <1>0, <2>1, <3>4, Frame
  <2>3. CASE At(p, "dump_clock")
    <3>. DEFINE v == clock_timestamp_ms
                l == [c EXCEPT !.ms = v, !.pc = "dump_overlay"]
    <3>1. call'[p] = l
      BY <1>3, <2>3, Became DEF DumpReads, ReadFails, OneAtATime, At
    <3>2. v = clock_timestamp_ms
      OBVIOUS
    <3>. HIDE DEF v
    <3>3. /\ l.pc = "dump_overlay" /\ l.ms = v
          /\ \A field \in DOMAIN IdleCall \ {"pc", "ms"} : l[field] = c[field]
      BY <1>0, LocalNames
    <3>. HIDE DEF l
    <3>4. Place(call[p])'
      BY <1>0, <2>1, <2>3, <3>1, <3>2, <3>3, LocalNames DEF Place, Somewhere, Reading,
         Copying, Setting, Moving, RollingBack, At, clock_timestamp_ms, Clk
    <3>. QED BY <1>0, <2>1, <3>4, Frame
  <2>4. CASE At(p, "dump_overlay")
    <3>. DEFINE v == export(state)
                l == [c EXCEPT !.overlay = v, !.pc = "dump_open"]
    <3>1. call'[p] = l
      BY <1>3, <2>4, Became DEF DumpReads, At
    <3>2. v = export(state)
      OBVIOUS
    <3>. HIDE DEF v
    <3>3. /\ l.pc = "dump_open" /\ l.overlay = v
          /\ \A field \in DOMAIN IdleCall \ {"pc", "overlay"} : l[field] = c[field]
      BY <1>0, LocalNames
    <3>. HIDE DEF l
    <3>4. Place(call[p])'
      BY <1>0, <2>1, <2>4, <3>1, <3>2, <3>3, LocalNames DEF Place, Somewhere, Reading,
         Copying, Setting, Moving, RollingBack, At
    <3>. QED BY <1>0, <2>1, <3>4, Frame
  <2>. QED BY <1>3, <2>2, <2>3, <2>4 DEF DumpReads
<1>4. CASE DumpTruncates(p)
  <2>1. /\ Fork' = Fork /\ state' = state /\ c.pc = "dump_open" /\ Goto(p, "dump_write")
        /\ file' = Torn
        /\ UNCHANGED <<epoch, start, mode, snapshots, next_snapshot, captured, dumped, now>>
    BY <1>4 DEF DumpTruncates, Private, memory, Fork, At
  <2>2. /\ call'[p].pc = "dump_write"
        /\ \A field \in DOMAIN IdleCall \ {"pc"} : call'[p][field] = c[field]
    BY <2>1, WentTo
  <2>3. Place(call[p])'
    BY <1>0, <2>1, <2>2, LocalNames DEF Place, Somewhere, Reading, Copying, Setting, Moving,
       RollingBack
  <2>4. DumpIsTrue' /\ CopiesAreTrue'
    BY <2>1 DEF Inv, CopiesAreTrue, DumpIsTrue, FileIsDump, Torn
  <2>. QED BY <1>0, <2>1, <2>3, <2>4 DEF Inv
<1>5. CASE DumpWrites(p)
  <2>1. /\ Fork' = Fork /\ state' = state /\ c.pc = "dump_write" /\ Return(p)
        /\ file' = [kind |-> "dump", epoch |-> c.epoch, start |-> c.start,
                    ms |-> c.ms, overlay |-> c.overlay]
        /\ dumped' = c.fork
        /\ UNCHANGED <<epoch, start, mode, snapshots, next_snapshot, captured, now>>
    BY <1>5 DEF DumpWrites, Private, memory, Fork, At
  <2>2. /\ c.fork = Fork /\ c.epoch = epoch /\ c.start = start /\ c.ms = Clk(state)
        /\ c.overlay = export(state) /\ Settled(Fork, now)
    BY <1>0, <1>1, <2>1 DEF Place, Copying
  <2>3. import(c.overlay) = state
    BY <1>0, <2>2, RoundTrip DEF Overlays
  <2>4. Fork \in Copies(now) /\ Fork.overlay = state /\ Fork.epoch = epoch /\ Fork.start = start
    BY <1>0 DEF Fork, Copies
  <2>5. DumpIsTrue'
    BY <2>1, <2>2, <2>3, <2>4 DEF DumpIsTrue
  <2>6. CopiesAreTrue'
    BY <2>1 DEF Inv, CopiesAreTrue
  <2>7. Settled(Fork, now)'
    BY <2>1, <2>2
  <2>8. Place(call[p])'
    BY <2>1, <2>7, WentIdle, AtRest
  <2>. QED BY <1>0, <2>1, <2>5, <2>6, <2>8 DEF Inv
<1>6. CASE DumpFails(p)
  <2>1. /\ Fork' = Fork /\ state' = state
        /\ UNCHANGED <<epoch, start, mode, snapshots, next_snapshot, file, captured,
                       dumped, now>>
    BY <1>6 DEF DumpFails, Private, memory, Fork
  <2>2. c.pc \in RestPcs /\ Return(p)
    BY <1>6 DEF DumpFails
  <2>3. Settled(Fork, now)'
    BY <1>1, <2>1, <2>2
  <2>. QED BY <1>0, <2>1, <2>2, <2>3, WentIdle, AtRest, Frame
<1>. QED BY <1>2, <1>3, <1>4, <1>5, <1>6 DEF DumpSteps

\* Each step of a load preserves the invariant.
LEMMA LoadPlaces ==
    ASSUME TypeInv, Inv, Unbounded, OneAtATime, NEW p \in Client,
           Load(p) \/ LoadRefused(p) \/ LoadSteps(p)
    PROVE  Inv'
<1>. USE DEF SnapPcs, WritePcs, RevertPcs, ResetPcs, LoadPcs, SyncPcs, RestPcs, ExecutePcs,
             DrawPcs, InputPcs
<1>. DEFINE c == call[p]
<1>0. /\ Client = {p} /\ LocalsOK(c, next_snapshot, now) /\ Place(c)
      /\ RecordsOK(state) /\ state \in Overlays /\ mode \in Modes(now) /\ now \in Nat
      /\ epoch \in Nat /\ start \in Nat /\ Clk(state) \in Nat
      /\ DOMAIN c = DOMAIN IdleCall /\ c.ms \in Nat
  BY ClockTyped DEF OneAtATime, TypeInv, ThreadsOK, Inv, CountersOK, Clk, LocalsOK, Carries
<1>1. c.pc \in RestPcs => Settled(Fork, now)
  BY <1>0 DEF Place, Reading
<1>2. FileIsDump =>
        /\ Settled(dumped, now) /\ dumped \in Copies(now)
        /\ file.epoch = dumped.epoch /\ file.start = dumped.start
        /\ file.ms = Clk(dumped.overlay) /\ import(file.overlay) = dumped.overlay
  BY DEF Inv, DumpIsTrue
<1>3. CASE Load(p)
  <2>1. /\ Fork' = Fork /\ state' = state
        /\ UNCHANGED <<epoch, start, mode, snapshots, next_snapshot, file, captured,
                       dumped, now>>
    BY <1>3 DEF Load, Private, memory, Fork
  <2>. DEFINE l == [IdleCall EXCEPT
                !.pc = "load_overlay", !.epoch = file.epoch, !.start = file.start,
                !.ms = file.ms, !.overlay = file.overlay, !.fork = dumped]
  <2>2. Arrive(p, "state_load", l) /\ FileIsDump /\ FileIsDump'
    BY <1>3, <2>1 DEF Load, FileIsDump
  <2>3. /\ DOMAIN l = DOMAIN IdleCall /\ l.pc = "load_overlay" /\ l.epoch = file.epoch
        /\ l.start = file.start /\ l.ms = file.ms /\ l.overlay = file.overlay
    BY LocalNames
  <2>. HIDE DEF l
  <2>4. /\ call'[p].op = "state_load" /\ call'[p].pc = "load_overlay"
        /\ call'[p].epoch = file.epoch /\ call'[p].start = file.start
        /\ call'[p].ms = file.ms /\ call'[p].overlay = file.overlay
    BY <2>2, <2>3, ArrivedAs, LocalNames
  <2>5. Place(call[p])'
    BY <1>2, <2>1, <2>2, <2>4 DEF Place, Somewhere, Reading, Copying, Setting, Moving,
       RollingBack
  <2>. QED BY <1>0, <2>1, <2>5, Frame
<1>4. CASE LoadRefused(p)
  <2>1. /\ Fork' = Fork /\ state' = state
        /\ UNCHANGED <<epoch, start, mode, snapshots, next_snapshot, file, captured,
                       dumped, now>>
    BY <1>4 DEF LoadRefused, Private, memory, Fork
  <2>2. c.pc = "idle" /\ call'[p].pc = "idle"
    BY <1>4, ArrivedAs, LocalNames DEF LoadRefused, IdleCall
  <2>3. Settled(Fork, now)'
    BY <1>1, <2>1, <2>2
  <2>. QED BY <1>0, <2>1, <2>2, <2>3, AtRest, Frame
<1>5. CASE LoadSteps(p)
  <2>1. /\ UNCHANGED <<mode, snapshots, next_snapshot, file, captured, dumped, now>>
        /\ c.pc \in LoadPcs
    BY <1>5 DEF LoadSteps, ReplaceOverlay, RestoreEpoch, RestoreStart, Private, At
  <2>2. /\ FileIsDump /\ FileIsDump' /\ c.op = "state_load"
        /\ c.epoch = dumped.epoch /\ c.start = dumped.start
        /\ c.ms = Clk(dumped.overlay) /\ import(c.overlay) = dumped.overlay
    BY <1>0, <2>1 DEF Place, RollingBack, FileIsDump
  <2>3. /\ RecordsOK(dumped.overlay)
        /\ Story(dumped.overlay, dumped.epoch, dumped.start)
        /\ dumped \in Copies(now)
    BY <1>2, <2>2 DEF Settled
  <2>4. ASSUME NEW next, Goto(p, next)
        PROVE  /\ call'[p].pc = next /\ call'[p].op = c.op /\ call'[p].ms = c.ms
               /\ call'[p].epoch = c.epoch /\ call'[p].start = c.start
               /\ call'[p].overlay = c.overlay
    BY <2>4, WentTo, LocalNames
  <2>5. CASE ReplaceOverlay(p, "load_overlay", import(c.overlay), "load_epoch")
    <3>1. state' = dumped.overlay /\ Goto(p, "load_epoch")
      BY <2>2, <2>5 DEF ReplaceOverlay
    <3>2. Place(call[p])'
      BY <2>1, <2>2, <2>4, <3>1 DEF Place, Somewhere, Reading, Copying, Setting, Moving,
         RollingBack
    <3>. QED BY <1>0, <2>1, <2>3, <3>1, <3>2, Frame
  <2>6. CASE RestoreEpoch(p, "load_epoch", "load_start")
    <3>1. /\ state' = state /\ state = dumped.overlay /\ epoch' = dumped.epoch
          /\ Goto(p, "load_start")
      BY <1>0, <2>2, <2>6 DEF RestoreEpoch, At, Place, RollingBack
    <3>2. Place(call[p])'
      BY <2>1, <2>2, <2>4, <3>1 DEF Place, Somewhere, Reading, Copying, Setting, Moving,
         RollingBack
    <3>. QED BY <1>0, <2>1, <2>3, <3>1, <3>2, Frame
  <2>7. CASE RestoreStart(p, "load_start", "clock_read")
    <3>1. /\ state' = state /\ state = dumped.overlay /\ epoch' = epoch
          /\ epoch = dumped.epoch /\ start' = dumped.start /\ Goto(p, "clock_read")
      BY <1>0, <2>2, <2>7 DEF RestoreStart, At, Place, RollingBack
    <3>2. Fork' = [dumped EXCEPT !.mode = mode]
      BY <2>1, <2>3, <3>1 DEF Fork, Copies
    <3>3. Story(state', epoch', start')
      BY <2>3, <3>1
    <3>4. Clk(state') = c.ms /\ c.ms =< c.ms
      BY <1>0, <2>2, <3>1
    <3>5. Place(call[p])'
      BY <2>1, <2>2, <2>4, <3>1, <3>2, <3>3, <3>4 DEF Place, Somewhere, Reading, Copying,
         Setting, Moving, RollingBack
    <3>. QED BY <1>0, <2>1, <2>3, <3>1, <3>5, Frame
  <2>. QED BY <1>5, <2>5, <2>6, <2>7 DEF LoadSteps
<1>. QED BY <1>3, <1>4, <1>5

\* Each step of the other control routes preserves the invariant.
LEMMA ControlPlaces ==
    ASSUME TypeInv, Inv, Unbounded, OneAtATime, NEW p \in Client, ControlHandlers(p)
    PROVE  Inv'
<1>. USE DEF SnapPcs, WritePcs, RevertPcs, ResetPcs, LoadPcs, SyncPcs, RestPcs, ExecutePcs,
             DrawPcs, InputPcs
<1>. DEFINE c == call[p]
<1>0. /\ Client = {p} /\ LocalsOK(c, next_snapshot, now) /\ Place(c)
      /\ RecordsOK(state) /\ state \in Overlays /\ mode \in Modes(now) /\ now \in Nat
      /\ epoch \in Nat /\ start \in Nat /\ Clk(state) \in Nat
      /\ DOMAIN c = DOMAIN IdleCall /\ c.ms \in Nat
  BY ClockTyped DEF OneAtATime, TypeInv, ThreadsOK, Inv, CountersOK, Clk, LocalsOK, Carries
<1>1. c.pc \in RestPcs => Settled(Fork, now)
  BY <1>0 DEF Place, Reading
<1>2. c.pc \in {"idle", "set_frozen"} =>
        /\ Settled(Fork, now) /\ Story(state, epoch, start) /\ Ahead(mode, state, now)
        /\ ClockIs(state, Clk(state))
  BY <1>1, SettledIs DEF Fork, Story
<1>a. clock_timestamp_ms = Clk(state)
  BY DEF clock_timestamp_ms, Clk
<1>3. CASE ClockSet(p)
  <2>1. /\ Fork' = Fork /\ state' = state
        /\ UNCHANGED <<epoch, start, mode, snapshots, next_snapshot, file, captured,
                       dumped, now>>
        /\ c.pc = "idle"
    BY <1>3 DEF ClockSet, Private, memory, Fork, Arrive, At
  <2>2. PICK op \in {"clock_set", "clock_advance"}, j \in Jumps :
           Arrive(p, op, [IdleCall EXCEPT !.pc = "clock_read", !.ms = Clk(state) + j])
    BY <1>3, <1>a DEF ClockSet
  <2>. DEFINE ms == Clk(state) + j
              l == [IdleCall EXCEPT !.pc = "clock_read", !.ms = ms]
  <2>3. Arrive(p, op, l) /\ Clk(state) =< ms
    BY <1>0, <2>2, ControlAssumption
  <2>. HIDE DEF ms
  <2>4. DOMAIN l = DOMAIN IdleCall /\ l.pc = "clock_read" /\ l.ms = ms
    BY LocalNames
  <2>. HIDE DEF l
  <2>5. call'[p].pc = "clock_read" /\ call'[p].ms = ms /\ call'[p].op = op
    BY <2>3, <2>4, ArrivedAs, LocalNames
  <2>6. Story(state', epoch', start')
    BY <1>2, <2>1
  <2>7. Place(call[p])'
    BY <2>1, <2>2, <2>3, <2>5, <2>6 DEF Place, Somewhere, Reading, Copying, Setting, Moving,
       RollingBack
  <2>. QED BY <1>0, <2>1, <2>7, Frame
<1>4. CASE ClockAuto(p)
  <2>1. /\ Fork' = Fork /\ state' = state
        /\ UNCHANGED <<epoch, start, mode, snapshots, next_snapshot, file, captured,
                       dumped, now>>
        /\ c.pc = "idle"
    BY <1>4 DEF ClockAuto, Private, memory, Fork, Arrive, At
  <2>. DEFINE ms == Clk(state)
              l == [IdleCall EXCEPT !.pc = "set_auto", !.ms = ms]
  <2>2. Arrive(p, "clock_auto", l) /\ ms = Clk(state)
    BY <1>4, <1>a DEF ClockAuto
  <2>. HIDE DEF ms
  <2>3. DOMAIN l = DOMAIN IdleCall /\ l.pc = "set_auto" /\ l.ms = ms
    BY LocalNames
  <2>. HIDE DEF l
  <2>4. call'[p].pc = "set_auto" /\ call'[p].ms = ms
    BY <2>2, <2>3, ArrivedAs, LocalNames
  <2>5. Story(state', epoch', start')
    BY <1>2, <2>1
  <2>6. Place(call[p])'
    BY <2>1, <2>2, <2>4, <2>5 DEF Place, Somewhere, Reading, Copying, Setting, Moving,
       RollingBack
  <2>. QED BY <1>0, <2>1, <2>6, Frame
<1>5. CASE ClockFreeze(p)
  <2>1. /\ Fork' = Fork /\ state' = state
        /\ UNCHANGED <<epoch, start, mode, snapshots, next_snapshot, file, captured,
                       dumped, now>>
        /\ c.pc = "idle"
    BY <1>5 DEF ClockFreeze, Private, memory, Fork, Arrive, At
  <2>. DEFINE l == [IdleCall EXCEPT !.pc = "set_frozen"]
  <2>2. Arrive(p, "clock_freeze", l)
    BY <1>5 DEF ClockFreeze
  <2>3. DOMAIN l = DOMAIN IdleCall /\ l.pc = "set_frozen"
    BY LocalNames
  <2>. HIDE DEF l
  <2>4. call'[p].pc = "set_frozen" /\ Settled(Fork, now)'
    BY <1>2, <2>1, <2>2, <2>3, ArrivedAs, LocalNames
  <2>. QED BY <1>0, <2>1, <2>4, AtRest, Frame
<1>6. CASE SetMode(p)
  <2>1. /\ Return(p) /\ c.pc \in {"set_auto", "set_frozen"}
        /\ mode' = IF c.pc = "set_auto" THEN AutoMode(c.ms) ELSE FrozenMode
        /\ UNCHANGED <<state, epoch, start, snapshots, next_snapshot, file, captured,
                       dumped, now>>
    BY <1>6 DEF SetMode, Private, At
  <2>2. /\ Story(state, epoch, start)
        /\ c.pc = "set_auto" => c.ms = Clk(state)
    BY <1>0, <1>2, <2>1 DEF Place, Setting
  <2>3. Ahead(mode', state', now')
    BY <1>0, <2>1, <2>2 DEF Ahead, AutoMode, FrozenMode, Target
  <2>4. Settled(Fork, now)'
    BY <1>0, <2>1, <2>2, <2>3, SettledIs DEF Fork
  <2>. QED BY <1>0, <2>1, <2>4, WentIdle, AtRest, Frame
<1>7. CASE EpochAdvance(p)
  <2>1. /\ Fork' = Fork /\ state' = state
        /\ UNCHANGED <<epoch, start, mode, snapshots, next_snapshot, file, captured,
                       dumped, now>>
        /\ c.pc = "idle"
    BY <1>7 DEF EpochAdvance, Private, memory, Fork, Arrive, At
  <2>2. PICK count \in Counts :
        \E ms \in {Clk(state) + count * EPOCH_MS} \cup {Clk(state) + j : j \in Jumps} :
           Arrive(p, "epoch_advance", [IdleCall EXCEPT
               !.pc = "advance_start", !.ms = ms, !.id = count])
    BY <1>7, <1>a DEF EpochAdvance
  <2>3. PICK ms \in {Clk(state) + count * EPOCH_MS} \cup {Clk(state) + j : j \in Jumps} :
           Arrive(p, "epoch_advance", [IdleCall EXCEPT
               !.pc = "advance_start", !.ms = ms, !.id = count])
    BY <2>2
  <2>4. Clk(state) =< ms
    <3>1. count \in Nat /\ EPOCH_MS \in Nat /\ Jumps \subseteq Nat
      BY ControlAssumption
    <3>. DEFINE length == count * EPOCH_MS
    <3>2. length \in Nat
      BY <3>1
    <3>3. ms \in {Clk(state) + length} \cup {Clk(state) + j : j \in Jumps}
      BY <2>3
    <3>. HIDE DEF length
    <3>. QED BY <1>0, <3>1, <3>2, <3>3
  <2>. DEFINE l == [IdleCall EXCEPT !.pc = "advance_start", !.ms = ms, !.id = count]
  <2>5. Arrive(p, "epoch_advance", l)
    BY <2>3
  <2>6. DOMAIN l = DOMAIN IdleCall /\ l.pc = "advance_start" /\ l.ms = ms
    BY LocalNames
  <2>. HIDE DEF l
  <2>7. call'[p].op = "epoch_advance" /\ call'[p].pc = "advance_start" /\ call'[p].ms = ms
    BY <2>5, <2>6, ArrivedAs, LocalNames
  <2>8. Place(call[p])'
    BY <1>2, <2>1, <2>4, <2>7 DEF Place, Somewhere, Reading, Copying, Setting, Moving,
       RollingBack
  <2>. QED BY <1>0, <2>1, <2>8, Frame
<1>8. CASE AdvanceStart(p)
  <2>1. /\ c.pc = "advance_start" /\ start' = c.ms /\ Goto(p, "advance_epoch")
        /\ UNCHANGED <<state, epoch, mode, snapshots, next_snapshot, file, captured,
                       dumped, now>>
    BY <1>8 DEF AdvanceStart, Private, At
  <2>2. /\ call'[p].pc = "advance_epoch" /\ call'[p].op = c.op /\ call'[p].ms = c.ms
    BY <2>1, WentTo, LocalNames
  <2>3. Place(call[p])'
    BY <1>0, <2>1, <2>2 DEF Place, Somewhere, Reading, Copying, Setting, Moving, RollingBack
  <2>. QED BY <1>0, <2>1, <2>3, Frame
<1>9. CASE AdvanceEpoch(p)
  <2>. DEFINE e == epoch + c.id
              l == [c EXCEPT !.epoch = e, !.pc = "clock_read"]
  <2>1. /\ c.pc = "advance_epoch" /\ epoch' = e /\ Becomes(p, l)
        /\ UNCHANGED <<state, start, mode, snapshots, next_snapshot, file, captured,
                       dumped, now>>
    BY <1>9 DEF AdvanceEpoch, Private, At
  <2>. HIDE DEF e
  <2>2. l.pc = "clock_read" /\ l.epoch = e /\ l.op = c.op /\ l.ms = c.ms
    BY <1>0, LocalNames
  <2>. HIDE DEF l
  <2>3. call'[p] = l
    BY <2>1, Became
  <2>4. Place(call[p])'
    BY <1>0, <2>1, <2>2, <2>3 DEF Place, Somewhere, Reading, Copying, Setting, Moving,
       RollingBack
  <2>. QED BY <1>0, <2>1, <2>4, Frame
<1>10. CASE SyncLoads(p)
  <2>1. /\ Fork' = Fork /\ state' = state
        /\ UNCHANGED <<epoch, start, mode, snapshots, next_snapshot, file, captured,
                       dumped, now>>
    BY <1>10 DEF SyncLoads, Private, memory, Fork
  <2>2. CASE At(p, "sync_load")
    <3>1. Goto(p, "sync_read")
      BY <1>10, <2>2 DEF SyncLoads, At, OneAtATime, ReadFails
    <3>2. call'[p].pc = "sync_read" /\ call'[p].ms = c.ms /\ call'[p].epoch = c.epoch
      BY <3>1, WentTo, LocalNames
    <3>3. Place(call[p])'
      BY <1>0, <2>1, <2>2, <3>2 DEF Place, Somewhere, Reading, Copying, Setting, Moving,
         RollingBack, At
    <3>. QED BY <1>0, <2>1, <3>3, Frame
  <2>3. CASE At(p, "sync_read")
    <3>. DEFINE v == Current(state, SystemInner)
                l == [c EXCEPT !.obj = v, !.pc = "sync_write"]
    <3>1. call'[p] = l
      BY <1>10, <2>3, Became DEF SyncLoads, OneAtATime, ReadFails, At
    <3>2. v = Current(state, SystemInner)
      OBVIOUS
    <3>. HIDE DEF v
    <3>3. /\ l.pc = "sync_write" /\ l.obj = v
          /\ \A field \in DOMAIN IdleCall \ {"pc", "obj"} : l[field] = c[field]
      BY <1>0, LocalNames
    <3>. HIDE DEF l
    <3>4. Place(call[p])'
      BY <1>0, <2>1, <2>3, <3>1, <3>2, <3>3, LocalNames DEF Place, Somewhere, Reading,
         Copying, Setting, Moving, RollingBack, At
    <3>. QED BY <1>0, <2>1, <3>4, Frame
  <2>. QED BY <1>10, <2>2, <2>3 DEF SyncLoads, OneAtATime, ReadFails
<1>11. CASE SyncWrites(p)
  <2>1. /\ c.pc = "sync_write" /\ Goto(p, "set_auto")
        /\ state' = set_object(state, Bumped(c.obj, <<c.epoch, c.ms>>))
        /\ UNCHANGED <<epoch, start, mode, snapshots, next_snapshot, file, captured,
                       dumped, now>>
    BY <1>11 DEF SyncWrites, Private, At
  <2>2. /\ c.obj = Current(state, SystemInner) /\ c.epoch = epoch /\ c.ms = start
        /\ start = Clk(state) /\ ClockIs(state, Clk(state))
    BY <1>0, <2>1 DEF Place, Moving
  <2>. DEFINE object == Bumped(c.obj, <<epoch, start>>)
  <2>3. object \in Object /\ object.id = SystemInner /\ object.data = <<epoch, start>>
    <3>1. c.obj \in Object /\ c.obj.id = SystemInner /\ <<epoch, start>> \in Data
      BY <1>0, <2>2, ReadTyped, SystemObjectsAssumption DEF Unbounded
    <3>. QED BY <3>1, BumpedTyped
  <2>4. state' = set_object(state, object)
    BY <2>1, <2>2
  <2>. HIDE DEF object
  <2>5. /\ Current(state', Clock) = Current(state, Clock)
        /\ Current(state', SystemInner) = object
        /\ state'.transactions = state.transactions
    BY <1>0, <2>3, <2>4, WrittenIs, SystemObjectsAssumption
  <2>6. Clk(state') = Clk(state) /\ ClockIs(state', Clk(state'))
    BY <2>2, <2>5 DEF Clk, ClockIs
  <2>7. RecordsOK(state') /\ Story(state', epoch', start')
    BY <1>0, <2>1, <2>2, <2>3, <2>5, <2>6 DEF RecordsOK, Story
  <2>8. call'[p].pc = "set_auto" /\ call'[p].ms = c.ms
    BY <2>1, WentTo, LocalNames
  <2>9. Place(call[p])'
    BY <2>2, <2>6, <2>7, <2>8 DEF Place, Somewhere, Reading, Copying, Setting, Moving,
       RollingBack
  <2>. QED BY <1>0, <2>1, <2>7, <2>9, Frame
<1>12. CASE SetContents(p)
  <2>1. /\ Fork' = Fork /\ state' = state
        /\ UNCHANGED <<epoch, start, mode, snapshots, next_snapshot, file, captured,
                       dumped, now>>
        /\ c.pc = "idle"
    BY <1>12 DEF SetContents, Private, memory, Fork, Arrive, At
  <2>. DEFINE old == Current(state, Override)
  <2>2. PICK bump \in Bump :
          Arrive(p, "set_contents", [IdleCall EXCEPT
              !.pc = "contents_write",
              !.obj = IF bump THEN Bumped(old, <<0>>) ELSE [old EXCEPT !.data = <<0>>]])
    BY <1>12 DEF SetContents
  <2>3. old \in Object /\ old.id = Override /\ old = Current(state, Override)
    BY <1>0, ReadTyped, ControlAssumption
  <2>. HIDE DEF old
  <2>. DEFINE obj == IF bump THEN Bumped(old, <<0>>) ELSE [old EXCEPT !.data = <<0>>]
              l == [IdleCall EXCEPT !.pc = "contents_write", !.obj = obj]
  <2>4. Arrive(p, "set_contents", l)
    BY <2>2
  <2>5. obj.id = Override /\ obj.version >= old.version
    <3>1. <<0>> \in Data /\ old.version \in Nat
      BY <2>3, VersionAssumption DEF Unbounded, Object
    <3>2. /\ Bumped(old, <<0>>).id = Override
          /\ Bumped(old, <<0>>).version = old.version + 1
      BY <2>3, <3>1, BumpedTyped
    <3>3. /\ [old EXCEPT !.data = <<0>>].id = Override
          /\ [old EXCEPT !.data = <<0>>].version = old.version
      BY <2>3 DEF Object
    <3>. HIDE DEF Bumped
    <3>. QED BY <3>1, <3>2, <3>3
  <2>. HIDE DEF obj
  <2>6. DOMAIN l = DOMAIN IdleCall /\ l.pc = "contents_write" /\ l.obj = obj
    BY LocalNames
  <2>. HIDE DEF l
  <2>7. call'[p].pc = "contents_write" /\ call'[p].obj = obj
    BY <2>4, <2>6, ArrivedAs, LocalNames
  <2>8. Place(call[p])'
    BY <1>2, <2>1, <2>3, <2>5, <2>7 DEF Place, Somewhere, Reading, Copying, Setting, Moving,
       RollingBack
  <2>. QED BY <1>0, <2>1, <2>8, Frame
<1>13. ASSUME NEW object \in Object, object.id \notin {Clock, SystemInner},
              c.pc \in RestPcs, state' = set_object(state, object), call'[p].pc = "idle",
              UNCHANGED <<epoch, start, mode, snapshots, next_snapshot, file, captured,
                          dumped, now>>
       PROVE  Inv'
  <2>1. RecordsOK(state) /\ Story(state, epoch, start) /\ Ahead(mode, state, now)
    BY <1>1, <1>13, SettledIs DEF Fork
  <2>2. /\ Current(state', Clock) = Current(state, Clock) /\ Clk(state') = Clk(state)
        /\ Current(state', SystemInner) = Current(state, SystemInner)
        /\ RecordsOK(state')
    BY <1>0, <1>13, StoryKept
  <2>3. Story(state', epoch', start') /\ Ahead(mode', state', now')
    BY <1>13, <2>1, <2>2 DEF Story, ClockIs, Ahead
  <2>4. Settled(Fork, now)'
    BY <2>2, <2>3, SettledIs DEF Fork
  <2>. QED BY <1>0, <1>13, <2>2, <2>4, AtRest, Frame
<1>14. CASE WriteContents(p)
  <2>1. /\ c.pc = "contents_write" /\ Return(p) /\ state' = set_object(state, c.obj)
        /\ UNCHANGED <<epoch, start, mode, snapshots, next_snapshot, file, captured,
                       dumped, now>>
    BY <1>14 DEF WriteContents, Private, At
  <2>2. c.obj \in Object /\ c.obj.id \notin {Clock, SystemInner}
    BY <1>0, <2>1 DEF LocalsOK, Carries, ObjectPcs, Place, Reading, OneAtATime
  <2>. QED BY <1>13, <2>1, <2>2, WentIdle
<1>15. CASE Fund(p)
  <2>1. PICK id \in Coins :
          /\ Current(state, id) = None
          /\ state' = set_object(state, [id |-> id, version |-> 1, data |-> <<1>>])
    BY <1>15 DEF Fund
  <2>. DEFINE coin == [id |-> id, version |-> 1, data |-> <<1>>]
  <2>2. coin \in Object /\ coin.id = id
    BY ControlAssumption DEF Unbounded, Object
  <2>3. id \notin {Clock, SystemInner}
    <3>1. Current(state, Clock) \in Object /\ Current(state, SystemInner) \in Object
      BY <1>0, ReadTyped, SystemObjectsAssumption
    <3>. QED BY <2>1, <3>1, MainnetAssumption
  <2>4. state' = set_object(state, coin)
    BY <2>1
  <2>. HIDE DEF coin
  <2>5. /\ c.pc = "idle" /\ call'[p].pc = "idle"
        /\ UNCHANGED <<epoch, start, mode, snapshots, next_snapshot, file, captured,
                       dumped, now>>
    BY <1>15, ArrivedAs, LocalNames DEF Fund, IdleCall
  <2>. QED BY <1>13, <2>2, <2>3, <2>4, <2>5
<1>16. CASE Refused(p)
  <2>1. /\ Fork' = Fork /\ state' = state
        /\ UNCHANGED <<epoch, start, mode, snapshots, next_snapshot, file, captured,
                       dumped, now>>
    BY <1>16 DEF Refused, Private, memory, Fork
  <2>2. c.pc = "idle" /\ call'[p].pc = "idle"
    BY <1>16, ArrivedAs, LocalNames DEF Refused, IdleCall, OneAtATime, ReadFails
  <2>3. Settled(Fork, now)'
    BY <1>1, <2>1, <2>2
  <2>. QED BY <1>0, <2>1, <2>2, <2>3, AtRest, Frame
<1>. QED BY <1>3, <1>4, <1>5, <1>6, <1>7, <1>8, <1>9, <1>10, <1>11, <1>12, <1>14, <1>15,
            <1>16 DEF ControlHandlers

-----------------------------------------------------------------------------
(* Start, restart and the passing of time. *)

\* The clock is read when the server starts.
LEMMA Anchored ==
    ASSUME OneAtATime, ForkPointAgrees, now \in Nat, NEW ms \in StartupAnchors
    PROVE  ms = Clk(Default)
BY ForkPoint DEF StartupAnchors, OneAtATime

\* A server that starts on a fork has the invariant.
LEMMA InitInv == OneAtATime /\ ForkPointAgrees /\ Init => Inv
<1>. SUFFICES ASSUME OneAtATime, ForkPointAgrees, Init PROVE Inv
  OBVIOUS
<1>. USE DEF SnapPcs, WritePcs, RevertPcs, ResetPcs, LoadPcs, SyncPcs, RestPcs, ExecutePcs,
             DrawPcs, InputPcs
<1>1. mode = AutoMode(Clk(Default)) /\ now \in Nat
  BY Anchored DEF Init
<1>2. /\ RecordsOK(Default) /\ Story(Default, InitialEpoch, InitialStart)
      /\ Ahead(AutoMode(Clk(Default)), Default, now)
  BY <1>1, ForkPoint
<1>3. Settled(Fork, now)
  BY <1>1, <1>2, SettledIs DEF Init, Fork
<1>4. ASSUME NEW p \in Client
      PROVE  Place(call[p])
  <2>1. call[p].pc = "idle"
    BY DEF Init, IdleCall
  <2>. QED BY <1>3, <2>1 DEF Place, Somewhere, Reading, Copying, Setting, Moving, RollingBack
<1>5. CopiesAreTrue
  BY DEF Init, CopiesAreTrue, NoSnapshots
<1>6. DumpIsTrue
  BY DEF Init, DumpIsTrue, FileIsDump, NoFile
<1>. QED BY <1>2, <1>4, <1>5, <1>6 DEF Init, Inv

\* A restarted server has the invariant.
LEMMA RestartPlaces ==
    ASSUME TypeInv, Inv, OneAtATime, ForkPointAgrees, Restart
    PROVE  Inv'
<1>0. now \in Nat /\ now' = now
  BY DEF TypeInv, CountersOK, Restart
<1>1. mode' = AutoMode(Clk(Default))
  BY <1>0, Anchored DEF Restart
<1>2. /\ RecordsOK(Default) /\ Story(Default, InitialEpoch, InitialStart)
      /\ Ahead(AutoMode(Clk(Default)), Default, now)
  BY <1>0, ForkPoint
<1>3. Settled(Fork, now)'
  BY <1>0, <1>1, <1>2, SettledIs DEF Restart, Fork
<1>4. ASSUME NEW p \in Client
      PROVE  Place(call[p])'
  <2>1. call'[p].pc = "idle"
    BY DEF Restart, IdleCall
  <2>. QED BY <1>3, <2>1, AtRest
<1>5. CopiesAreTrue'
  BY DEF Restart, CopiesAreTrue, NoSnapshots
<1>6. DumpIsTrue'
  BY DEF Restart, Inv, DumpIsTrue, FileIsDump
<1>. QED BY <1>2, <1>4, <1>5, <1>6 DEF Restart, Inv

\* Passing time preserves the invariant.
LEMMA TickPlaces ==
    ASSUME TypeInv, Inv, Unbounded, Tick
    PROVE  Inv'
<1>. USE DEF SnapPcs, WritePcs, RevertPcs, ResetPcs, LoadPcs, SyncPcs, RestPcs, ExecutePcs,
             DrawPcs, InputPcs
<1>0. /\ now \in Nat /\ now' \in Nat /\ now =< now' /\ Fork' = Fork
      /\ UNCHANGED <<state, epoch, start, mode, snapshots, next_snapshot, file, call,
                     captured, dumped>>
      /\ state \in Overlays /\ mode \in Modes(now)
  BY NumbersAssumption DEF TypeInv, CountersOK, Tick, memory, Fork
<1>1. Settled(Fork, now) => Settled(Fork, now')
  BY <1>0, SettledLater DEF Fork
<1>2. ASSUME NEW p \in Client
      PROVE  Place(call[p])'
  <2>. DEFINE c == call[p]
  <2>0. LocalsOK(c, next_snapshot, now) /\ Place(c)
    BY DEF TypeInv, ThreadsOK, Inv
  <2>1. c.pc \in RevertPcs => Settled(Carried(c), now')
    <3>. SUFFICES ASSUME c.pc \in RevertPcs PROVE Settled(Carried(c), now')
      OBVIOUS
    <3>1. c.overlay \in Overlays /\ c.mode \in Modes(now) /\ Settled(Carried(c), now)
      BY <1>0, <2>0 DEF Place, RollingBack, LocalsOK, Carries, OverlayPcs, ModePcs
    <3>2. Carried(c).overlay \in Overlays /\ Carried(c).mode \in Modes(now)
      BY <3>1 DEF Carried
    <3>. QED BY <1>0, <3>1, <3>2, SettledLater
  <2>2. c.ms \in Nat /\ c.ms =< Target(mode, now) => c.ms =< Target(mode, now')
    BY <1>0, TargetGrows
  <2>3. c.ms \in Nat
    BY <2>0 DEF LocalsOK, Carries
  <2>4. Somewhere(c)' /\ Reading(c)' /\ Copying(c)' /\ Moving(c)'
    BY <1>0, <1>1, <2>0 DEF Place, Somewhere, Reading, Copying, Moving
  <2>5. Setting(c)'
    BY <1>0, <1>1, <2>0, <2>2, <2>3 DEF Place, Setting
  <2>6. RollingBack(c)'
    BY <1>0, <2>0, <2>1 DEF Place, RollingBack, Carried, FileIsDump
  <2>. QED BY <2>4, <2>5, <2>6 DEF Place
<1>3. CopiesAreTrue'
  <2>1. ASSUME NEW i \in SnapshotId, snapshots[i] # None
        PROVE  snapshots[i] = captured[i] /\ Settled(snapshots[i], now')
    <3>1. /\ snapshots[i] \in Copies(now) /\ snapshots[i] = captured[i]
          /\ Settled(snapshots[i], now)
      BY <2>1 DEF TypeInv, SnapshotsOK, Maybe, Inv, CopiesAreTrue
    <3>. QED BY <1>0, <3>1, SettledLater DEF Copies
  <2>. QED BY <1>0, <2>1 DEF Inv, CopiesAreTrue
<1>4. DumpIsTrue'
  <2>1. ASSUME FileIsDump
        PROVE  dumped \in Copies(now') /\ Settled(dumped, now')
    <3>1. dumped \in Copies(now) /\ Settled(dumped, now)
      BY <2>1 DEF Inv, DumpIsTrue
    <3>2. Copies(now) \subseteq Copies(now')
      BY <1>0 DEF Copies, Modes
    <3>. QED BY <1>0, <3>1, <3>2, SettledLater DEF Copies
  <2>. QED BY <1>0, <2>1 DEF Inv, DumpIsTrue, FileIsDump
<1>. QED BY <1>0, <1>2, <1>3, <1>4 DEF Inv

\* Every step preserves the invariant.
LEMMA NextPlaces ==
    ASSUME TypeInv, Inv, Unbounded, OneAtATime, ForkPointAgrees, [Next]_vars
    PROVE  Inv'
<1>1. ASSUME NEW p \in Client, Step(p)
      PROVE  Inv'
  <2>1. CASE SnapshotHandlers(p)
    BY <2>1, TakePlaces, RevertPlaces, ResetPlaces, DumpPlaces, LoadPlaces
       DEF SnapshotHandlers
  <2>. QED BY <1>1, <2>1, SetClockPlaces, ExecutePlaces, ControlPlaces DEF Step
<1>2. CASE Done \/ UNCHANGED vars
  <2>1. UNCHANGED <<state, epoch, start, mode, snapshots, next_snapshot, file, call,
                    captured, dumped, now>>
    BY <1>2 DEF Done, vars, memory
  <2>2. \A p \in Client : Place(call[p]) => Place(call[p])'
    BY <2>1 DEF Place, Somewhere, Reading, Copying, Setting, Moving, RollingBack, Fork,
       FileIsDump
  <2>. QED BY <2>1, <2>2 DEF Inv, CopiesAreTrue, DumpIsTrue, FileIsDump
<1>. QED BY <1>1, <1>2, TickPlaces, RestartPlaces DEF Next

\* The invariant holds of every behaviour.
LEMMA Invariance ==
    ASSUME Unbounded, OneAtATime, ForkPointAgrees
    PROVE  Spec => [](TypeInv /\ Inv)
<1>1. Init => Inv
  BY InitInv
<1>2. TypeInv /\ Inv /\ [Next]_vars => Inv'
  BY NextPlaces
<1>. QED BY <1>1, <1>2, TypeInvariance, PTL DEF Spec

-----------------------------------------------------------------------------
(* What the overlay is after a step. *)

\* The steps that change the overlay without bringing an earlier one back.
LEMMA WhoWrites ==
    ASSUME TypeInv, [Next]_vars
    PROVE  \/ state' = state
           \/ RollsBack
           \/ \E p \in Client :
                 \/ WriteClockObject(p) \/ CommitTransaction(p)
                 \/ SyncWrites(p) \/ WriteContents(p) \/ Fund(p)
<1>1. ASSUME NEW p \in Client, SetClock(p)
      PROVE  state' = state \/ WriteClockObject(p)
  BY <1>1 DEF SetClock, ReadClockObject, ReadClockObjectFails, FixMode, Dropped, memory
<1>2. ASSUME NEW p \in Client, ExecuteHandler(p)
      PROVE  state' = state \/ CommitTransaction(p)
  BY <1>2 DEF ExecuteHandler, PrepareClock, Acquire, ReadInputs, ReadEpoch, ExecuteFails,
     memory
<1>3. ASSUME NEW p \in Client, ControlHandlers(p)
      PROVE  state' = state \/ SyncWrites(p) \/ WriteContents(p) \/ Fund(p)
  BY <1>3 DEF ControlHandlers, ClockSet, ClockAuto, ClockFreeze, SetMode, EpochAdvance,
     AdvanceStart, AdvanceEpoch, SyncLoads, SetContents, Refused, memory
<1>4. ASSUME NEW p \in Client, SnapshotHandlers(p)
      PROVE  state' = state \/ RollsBack
  <2>1. CASE \/ TakeSnapshot(p) \/ SnapshotReads(p) \/ DrawSnapshotId(p) \/ SnapshotInsert(p)
             \/ Revert(p) \/ RevertRefused(p) \/ Dump(p) \/ DumpSteps(p)
             \/ Load(p) \/ LoadRefused(p)
    BY <2>1 DEF TakeSnapshot, SnapshotReads, DrawSnapshotId, SnapshotInsert, Revert,
       RevertRefused, Dump, DumpSteps, DumpReads, DumpTruncates, DumpWrites, DumpFails, Load,
       LoadRefused, memory
  <2>2. CASE RevertSteps(p) \/ LoadSteps(p)
    BY <2>2 DEF RevertSteps, LoadSteps, ReplaceOverlay, RestoreEpoch, RestoreStart,
       RevertMode, RollsBack, At
  <2>3. CASE Reset(p) \/ ResetSteps(p)
    BY <2>3 DEF ResetSteps, RestoreEpoch, RestoreStart, ClearSnapshots, ReadAnchor,
       ResetMode, RollsBack, memory
  <2>. QED BY <1>4, <2>1, <2>2, <2>3 DEF SnapshotHandlers
<1>5. CASE Tick \/ Restart \/ Done \/ UNCHANGED vars
  BY <1>5 DEF Tick, Done, RollsBack, vars, memory
<1>. QED BY <1>1, <1>2, <1>3, <1>4, <1>5 DEF Next, Step

\* What such a step writes: the object that was there, one version up; the
\* overridden object as its request has it; or a coin that was not there.
LEMMA Written ==
    ASSUME TypeInv, Inv, Unbounded, OneAtATime, NEW p \in Client,
           \/ WriteClockObject(p) \/ CommitTransaction(p)
           \/ SyncWrites(p) \/ WriteContents(p) \/ Fund(p),
           NEW id \in ObjectID
    PROVE  \/ Current(state', id) = Current(state, id)
           \/ /\ Current(state', id) \in Object
              /\ Current(state', id).version = Current(state, id).version + 1
              /\ id = Clock => Clk(state) =< Clk(state')
           \/ /\ WriteContents(p) /\ id = Override
              /\ Current(state', id) = call[p].obj
              /\ Current(state, id) \in Object /\ call[p].obj \in Object
              /\ Current(state, id).version =< call[p].obj.version
           \/ Current(state, id) = None
<1>. DEFINE c == call[p]
<1>0. /\ LocalsOK(c, next_snapshot, now) /\ Place(c) /\ RecordsOK(state)
      /\ state \in Overlays /\ c.ms \in Nat /\ c.epoch \in Nat
  BY DEF TypeInv, ThreadsOK, Inv, LocalsOK, Carries
<1>1. ASSUME NEW object \in Object, NEW old \in Object, old = Current(state, object.id),
             state' = set_object(state, object), object.version = old.version + 1,
             object.id = Clock => Clk(state) =< object.data[1]
      PROVE  \/ Current(state', id) = Current(state, id)
             \/ /\ Current(state', id) \in Object
                /\ Current(state', id).version = Current(state, id).version + 1
                /\ id = Clock => Clk(state) =< Clk(state')
  BY <1>0, <1>1, WrittenIs DEF Clk
<1>2. CASE WriteClockObject(p)
  <2>1. c.obj = Current(state, Clock) /\ Clk(state) =< c.ms
    BY <1>0, <1>2 DEF WriteClockObject, At, Place, Setting
  <2>. DEFINE object == Bumped(c.obj, <<c.ms>>)
  <2>2. /\ c.obj \in Object /\ c.obj.id = Clock
        /\ object \in Object /\ object.id = Clock /\ object.data = <<c.ms>>
        /\ object.version = c.obj.version + 1
    BY <1>0, <2>1, ReadTyped, BumpedTyped, SystemObjectsAssumption DEF Unbounded
  <2>3. state' = set_object(state, object)
    BY <1>2 DEF WriteClockObject
  <2>. HIDE DEF object
  <2>. QED BY <1>1, <2>1, <2>2, <2>3
<1>3. CASE SyncWrites(p)
  <2>1. c.obj = Current(state, SystemInner)
    BY <1>0, <1>3 DEF SyncWrites, At, Place, Moving
  <2>. DEFINE object == Bumped(c.obj, <<c.epoch, c.ms>>)
  <2>2. /\ c.obj \in Object /\ c.obj.id = SystemInner
        /\ object \in Object /\ object.id = SystemInner
        /\ object.version = c.obj.version + 1
    BY <1>0, <2>1, ReadTyped, BumpedTyped, SystemObjectsAssumption DEF Unbounded
  <2>3. state' = set_object(state, object)
    BY <1>3 DEF SyncWrites
  <2>. HIDE DEF object
  <2>. QED BY <1>1, <2>1, <2>2, <2>3, SystemObjectsAssumption
<1>4. CASE CommitTransaction(p)
  <2>1. PICK success \in BOOLEAN :
           state' = commit(state, Outcome(c.obj, success), c.id,
                           [success |-> success, epoch |-> c.epoch,
                            start |-> c.start, ms |-> c.ms])
    BY <1>4 DEF CommitTransaction
  <2>. DEFINE info == [success |-> success, epoch |-> c.epoch, start |-> c.start, ms |-> c.ms]
  <2>2. /\ c.obj = Current(state, Shared) /\ c.obj \in Object
        /\ c.id \in Digest /\ info \in Info
        /\ state' = commit(state, Outcome(c.obj, success), c.id, info)
    BY <2>1, <1>0, <1>4 DEF CommitTransaction, At, Place, Reading, LocalsOK, Carries, ObjectPcs,
       InputPcs, ExecutePcs, Unbounded
  <2>. HIDE DEF info
  <2>3. /\ Current(state', id) \in {Current(state, id), Increment(c.obj)}
        /\ id # Shared => Current(state', id) = Current(state, id)
    <3>. DEFINE e == Outcome(c.obj, success)
    <3>1. /\ e.deleted = {}
          /\ e.written[id] = None \/ (id = Shared /\ e.written[id] = Increment(c.obj))
      BY DEF Outcome
    <3>2. state' = commit(state, e, c.id, info)
      BY <2>2
    <3>. HIDE DEF e
    <3>3. CASE e.written[id] = None
      <4>1. Current(state', id) = Current(state, id)
        BY <1>0, <2>2, <3>1, <3>2, <3>3, CommittedLeaves
      <4>. QED BY <4>1
    <3>4. CASE e.written[id] # None
      <4>1. Current(state', id) = e.written[id]
        BY <1>0, <2>2, <3>1, <3>2, <3>4, CommittedGives
      <4>. QED BY <3>1, <3>4, <4>1
    <3>. QED BY <3>3, <3>4
  <2>4. Increment(c.obj) \in Object /\ Increment(c.obj).version = c.obj.version + 1
    <3>1. <<c.obj.data[1] + 1>> \in Data
      BY <2>2 DEF Unbounded, Object
    <3>. QED BY <2>2, <3>1, BumpedTyped DEF Increment
  <2>. QED BY <2>2, <2>3, <2>4, SharedAssumption
<1>5. CASE WriteContents(p)
  <2>1. /\ c.obj \in Object /\ c.obj.id = Override
        /\ c.obj.version >= Current(state, Override).version
        /\ state' = set_object(state, c.obj)
    BY <1>0, <1>5 DEF WriteContents, At, Place, Reading, LocalsOK, Carries, ObjectPcs
  <2>2. Current(state', id) = IF id = Override THEN c.obj ELSE Current(state, id)
    BY <1>0, <2>1, WrittenIs
  <2>3. Current(state, Override) \in Object
    BY <1>0, ReadTyped, ControlAssumption
  <2>4. Current(state, Override).version \in Nat /\ c.obj.version \in Nat
    BY <2>1, <2>3, VersionAssumption DEF Object
  <2>. QED BY <1>5, <2>1, <2>2, <2>3, <2>4
<1>6. CASE Fund(p)
  <2>1. PICK coin \in Coins :
          /\ Current(state, coin) = None
          /\ state' = set_object(state, [id |-> coin, version |-> 1, data |-> <<1>>])
    BY <1>6 DEF Fund
  <2>. DEFINE object == [id |-> coin, version |-> 1, data |-> <<1>>]
  <2>2. object \in Object /\ object.id = coin
    BY ControlAssumption DEF Unbounded, Object
  <2>3. state' = set_object(state, object)
    BY <2>1
  <2>. HIDE DEF object
  <2>4. Current(state', id) = IF id = coin THEN object ELSE Current(state, id)
    BY <1>0, <2>2, <2>3, WrittenIs
  <2>. QED BY <2>1, <2>4
<1>. QED BY <1>2, <1>3, <1>4, <1>5, <1>6

-----------------------------------------------------------------------------

\* Between requests the system state object and the VM name the same epoch and
\* the same start of it: after epoch_advance, which moves three things one by
\* one, and after every revert, reset, load and restart.
THEOREM EpochsAgree ==
    ASSUME Unbounded, OneAtATime, ForkPointAgrees
    PROVE  Spec => []SystemStateEpochAgrees
<1>1. Inv => SystemStateEpochAgrees
  <2>. SUFFICES ASSUME Inv, Quiescent PROVE Current(state, SystemInner).data = <<epoch, start>>
    BY DEF SystemStateEpochAgrees
  <2>1. PICK p \in Client : call[p].pc = "idle" /\ Place(call[p])
    BY DEF OneAtATime, Quiescent, At, Inv
  <2>2. Settled(Fork, now)
    BY <2>1 DEF Place, Reading, RestPcs
  <2>. QED BY <2>2, SettledIs DEF Fork, Story
<1>. QED BY <1>1, Invariance, PTL

\* No recorded transaction ran at a time before the start of its epoch: the
\* clock has reached a new epoch's start before a transaction can run in it.
THEOREM TransactionsRunInTheirEpoch ==
    ASSUME Unbounded, OneAtATime, ForkPointAgrees
    PROVE  Spec => []TxTimeConsistent
<1>1. Inv => TxTimeConsistent
  BY DEF Inv, RecordsOK, TxTimeConsistent
<1>. QED BY <1>1, Invariance, PTL

\* A snapshot is of one fork: the epoch and the start in it are those of the
\* system state object in its overlay, though the three are read one by one.
THEOREM SnapshotsHoldOneFork ==
    ASSUME Unbounded, OneAtATime, ForkPointAgrees
    PROVE  Spec => []SnapshotsAreConsistent
<1>1. Inv => SnapshotsAreConsistent
  BY DEF Inv, CopiesAreTrue, Settled, Story, SnapshotsAreConsistent
<1>. QED BY <1>1, Invariance, PTL

\* revert ends with exactly the overlay, epoch, start and mode that its id was
\* handed out for.
THEOREM RevertIsExact ==
    ASSUME Unbounded, OneAtATime, ForkPointAgrees
    PROVE  Spec => RevertRestoresCapture
<1>1. ASSUME TypeInv, Inv, NEW p \in Client, RevertMode(p)
      PROVE  Fork' = captured[call[p].id]
  <2>1. call[p].pc = "rev_mode" /\ Place(call[p])
    BY <1>1 DEF RevertMode, At, Inv
  <2>2. /\ captured[call[p].id] = Carried(call[p])
        /\ state = call[p].overlay /\ epoch = call[p].epoch /\ start = call[p].start
    BY <2>1 DEF Place, RollingBack, RevertPcs
  <2>. QED BY <1>1, <2>2 DEF RevertMode, Fork, Carried
<1>2. TypeInv /\ Inv /\ [Next]_vars =>
          [\A p \in Client : RevertMode(p) => Fork' = captured[call[p].id]]_vars
  BY <1>1
<1>. QED BY <1>2, Invariance, PTL DEF RevertRestoresCapture, Spec

\* load_from, by a restarted server too, ends with the overlay, epoch and start
\* of the fork the dump was taken from, and the clock held where it stood.
THEOREM LoadIsExact ==
    ASSUME Unbounded, OneAtATime, ForkPointAgrees
    PROVE  Spec => LoadRestoresDump
<1>1. ASSUME TypeInv, Inv, NEW p \in Client, FixMode(p), call[p].op = "state_load"
      PROVE  /\ Fork' = [dumped EXCEPT !.mode = mode']
             /\ mode' = FixedMode(clock_timestamp_ms')
  <2>1. call[p].pc = "fix_mode" /\ Place(call[p])
    BY <1>1 DEF FixMode, At, Inv
  <2>2. call[p].ms = Clk(state) /\ Fork = [dumped EXCEPT !.mode = mode]
    BY <2>1, <1>1 DEF Place, Setting
  <2>3. /\ mode' = FixedMode(Clk(state)) /\ UNCHANGED <<state, epoch, start>>
    BY <1>1, <2>2 DEF FixMode
  <2>4. Fork' = [Fork EXCEPT !.mode = mode']
    BY <2>3 DEF Fork
  <2>5. DOMAIN dumped = DOMAIN Fork /\ DOMAIN Fork = {"overlay", "epoch", "start", "mode"}
    BY <2>2 DEF Fork
  <2>6. [Fork EXCEPT !.mode = mode'] = [dumped EXCEPT !.mode = mode']
    BY <2>2, <2>5
  <2>. QED BY <2>3, <2>4, <2>6 DEF clock_timestamp_ms, Clk
<1>2. TypeInv /\ Inv /\ [Next]_vars =>
          [\A p \in Client : FixMode(p) /\ call[p].op = "state_load" =>
              /\ Fork' = [dumped EXCEPT !.mode = mode']
              /\ mode' = FixedMode(clock_timestamp_ms')]_vars
  BY <1>1
<1>. QED BY <1>2, Invariance, PTL DEF LoadRestoresDump, Spec

\* The version of an object that changes goes up, whatever wrote it, unless the
\* write was asked to keep it or an earlier fork is brought back.
THEOREM VersionsGrow ==
    ASSUME Unbounded, OneAtATime, ForkPointAgrees
    PROVE  Spec => VersionsIncrease
<1>. DEFINE Grows(id) ==
              LET old == Current(state, id)
                  new == Current(state', id)
              IN  old # new /\ old # None /\ new # None => new.version > old.version
<1>1. ASSUME TypeInv, Inv, [Next]_vars
      PROVE  (\A id \in ObjectID : Grows(id)) \/ KeepsVersion \/ RollsBack
  <2>1. CASE state' = state
    BY <2>1
  <2>2. ASSUME NEW p \in Client,
               \/ WriteClockObject(p) \/ CommitTransaction(p)
               \/ SyncWrites(p) \/ WriteContents(p) \/ Fund(p),
               ~KeepsVersion, NEW id \in ObjectID
        PROVE  Grows(id)
    <3>. DEFINE old == Current(state, id)
                new == Current(state', id)
    <3>. SUFFICES ASSUME old # new, old # None, new # None
                  PROVE  new.version > old.version
      OBVIOUS
    <3>1. CASE new \in Object /\ new.version = old.version + 1
      <4>1. old \in Object
        BY <1>1, CurrentTyped DEF TypeInv, Overlays, Maybe
      <4>2. old.version \in Nat
        BY <4>1, VersionAssumption DEF Object
      <4>. HIDE DEF old, new
      <4>. QED BY <3>1, <4>2
    <3>2. CASE /\ WriteContents(p) /\ id = Override /\ new = call[p].obj
               /\ old \in Object /\ call[p].obj \in Object
               /\ old.version =< call[p].obj.version
      <4>1. call[p].obj.version # old.version
        BY <2>2, <3>2 DEF KeepsVersion
      <4>2. old.version \in Nat /\ call[p].obj.version \in Nat
        BY <3>2, VersionAssumption DEF Object
      <4>. HIDE DEF old, new
      <4>. QED BY <3>2, <4>1, <4>2
    <3>. QED BY <1>1, <2>2, <3>1, <3>2, Written
  <2>. QED BY <1>1, <2>1, <2>2, WhoWrites
<1>2. TypeInv /\ Inv /\ [Next]_vars =>
          [(\A id \in ObjectID : Grows(id)) \/ KeepsVersion \/ RollsBack]_vars
  BY <1>1
<1>. QED BY <1>2, Invariance, PTL DEF VersionsIncrease, Spec

\* The clock on chain never runs backwards, however clock_set, clock_advance,
\* epoch_advance, the clock modes and transactions follow each other, unless an
\* earlier fork is brought back.
THEOREM ClockNeverRunsBack ==
    ASSUME Unbounded, OneAtATime, ForkPointAgrees
    PROVE  Spec => ClockMonotonic
<1>1. ASSUME TypeInv, Inv, [Next]_vars
      PROVE  clock_timestamp_ms' >= clock_timestamp_ms \/ RollsBack
  <2>1. Clk(state) \in Nat
    BY <1>1, ClockTyped DEF TypeInv, Clk
  <2>2. CASE state' = state
    BY <2>1, <2>2 DEF clock_timestamp_ms, Clk
  <2>3. ASSUME NEW p \in Client,
               \/ WriteClockObject(p) \/ CommitTransaction(p)
               \/ SyncWrites(p) \/ WriteContents(p) \/ Fund(p)
        PROVE  Clk(state) =< Clk(state')
    <3>1. Current(state, Clock) \in Object /\ Current(state, Clock) # None
      BY <1>1, ReadTyped, SystemObjectsAssumption, MainnetAssumption DEF TypeInv
    <3>2. CASE WriteContents(p) /\ Clock = Override
      BY <3>2 DEF OneAtATime
    <3>. QED BY <1>1, <2>1, <2>3, <3>1, <3>2, Written, SystemObjectsAssumption DEF Clk
  <2>4. Clk(state') \in Nat
    BY <1>1, NextTypes, ClockTyped DEF TypeInv, Clk
  <2>. QED BY <1>1, <2>1, <2>2, <2>3, <2>4, WhoWrites DEF clock_timestamp_ms, Clk
<1>2. TypeInv /\ Inv /\ [Next]_vars =>
          [clock_timestamp_ms' >= clock_timestamp_ms \/ RollsBack]_vars
  BY <1>1
<1>. QED BY <1>2, Invariance, PTL DEF ClockMonotonic, Spec
=============================================================================
