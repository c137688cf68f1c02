---------------------------- MODULE ServerTypes ----------------------------
(***************************************************************************)
(* Types of the fork server, and the coherence of every overlay it has:    *)
(* proofs, for any number of clients inside any handlers, failed reads,    *)
(* clients that go away and restarts at any point.                         *)
(***************************************************************************)
EXTENDS Server, OverlayProofs, FiniteSetTheorems

\* What the instances of TLC bound or leave abstract: versions do not run out,
\* contents are tuples of numbers, never empty, and transaction records are.
Unbounded ==
    /\ 1 \in Version /\ \A v \in Version : v + 1 \in Version
    /\ \A data \in Data : data[1] \in Nat
    /\ \A m \in Nat : <<m>> \in Data
    /\ \A m, n \in Nat : <<m, n>> \in Data
    /\ [success : BOOLEAN, epoch : Nat, start : Nat, ms : Nat] \subseteq Info

-----------------------------------------------------------------------------
(* The inductive invariant. *)

\* The overlays the server may have, and what it may write to the dump file.
\* Nothing is ever deleted here.
Overlays == {s \in OverlayState : Coherent(s) /\ s.tombstones = {}}
Dumps == {export(s) : s \in Overlays}

\* Clock modes anchored by time t, and copies of the fork made by then.
Modes(t) == [kind : {"Auto", "Fixed", "Frozen"}, ms : Nat, at : 0 .. t]
Copies(t) == [overlay : Overlays, epoch : Nat, start : Nat, mode : Modes(t)]

Files ==
    {NoFile, Torn} \cup
    [kind : {"dump"}, epoch : Nat, start : Nat, ms : Nat, overlay : Dumps]

\* Where a thread is about to set the clock, or in the middle of it.
ClockPcs == {"load_overlay", "load_epoch", "load_start", "advance_start",
             "advance_epoch", "clock_read", "clock_write"}
ExecutePcs == {"lock", "read_shared", "read_clock", "read_epoch", "read_start", "commit"}
InputPcs == {"read_clock", "read_epoch", "read_start", "commit"}
ObjectPcs == {"clock_write", "sync_write", "contents_write"} \cup InputPcs
DrawPcs == {"snap_epoch", "snap_start", "snap_mode", "snap_id"}
OverlayPcs == DrawPcs \cup {"snap_insert", "rev_overlay"}
ModePcs == {"snap_id", "snap_insert", "rev_overlay", "rev_epoch", "rev_start", "rev_mode"}
DumpPcs == {"dump_open", "dump_write", "load_overlay"}

\* The locals c of a thread of handler op at pc, when the next snapshot id is n
\* and the time is t.
Carries(c, pc, op, n, t) ==
    /\ DOMAIN c = DOMAIN IdleCall
    /\ c.ms \in Nat /\ c.id \in Nat /\ c.epoch \in Nat /\ c.start \in Nat
    /\ pc \in ClockPcs => op \in DOMAIN AfterClock
    /\ pc \in ExecutePcs => op = "execute"
    /\ pc \in DrawPcs => op = "snapshot"
    /\ op = "execute" => c.id \in Digest
    /\ pc \in ObjectPcs => c.obj \in Object
    /\ pc \in InputPcs => c.obj.id = Shared
    /\ pc \in OverlayPcs => c.overlay \in Overlays
    /\ pc \in ModePcs => c.mode \in Modes(t)
    /\ pc \in DumpPcs => c.overlay \in Dumps
    /\ pc = "snap_insert" => c.id < n

LocalsOK(c, n, t) == Carries(c, c.pc, c.op, n, t)

\* The threads that will draw a snapshot id.
Drawing == {p \in Client : call[p].pc \in DrawPcs}

\* Each of them brought a request of its own, so the ids suffice.
IdsSuffice ==
    /\ next_snapshot \in Nat
    /\ IsFiniteSet(Drawing)
    /\ next_snapshot + Cardinality(Drawing) =< requests

SnapshotsOK ==
    /\ snapshots \in [SnapshotId -> Maybe(Copies(now))]
    /\ \A i \in SnapshotId : snapshots[i] # None => i < next_snapshot

ThreadsOK ==
    /\ DOMAIN call = Client
    /\ \A p \in Client : LocalsOK(call[p], next_snapshot, now)

CountersOK ==
    /\ now \in Nat
    /\ requests \in 0 .. MaxRequests /\ crashes \in 0 .. MaxCrashes
    /\ lock \in Maybe(Client)

TypeInv ==
    /\ state \in Overlays
    /\ epoch \in Nat /\ start \in Nat
    /\ mode \in Modes(now)
    /\ file \in Files
    /\ CountersOK
    /\ SnapshotsOK
    /\ ThreadsOK
    /\ IdsSuffice

-----------------------------------------------------------------------------
(* Overlays and objects. *)

\* The empty overlay is an overlay.
LEMMA DefaultTyped == Default \in Overlays
BY DefaultLemma DEF Overlays, Default

\* set_object writes an overlay.
LEMMA WriteTyped ==
    ASSUME NEW s \in Overlays, NEW object \in Object
    PROVE  set_object(s, object) \in Overlays
<1>1. set_object(s, object) \in OverlayState /\ Coherent(set_object(s, object))
  BY SetObjectLemma DEF Overlays
<1>2. set_object(s, object).tombstones = s.tombstones \ {object.id}
  BY DEF set_object, Overlays, OverlayState
<1>. QED BY <1>1, <1>2 DEF Overlays

\* An object mainnet has at the fork point is there ever after.
LEMMA ReadTyped ==
    ASSUME NEW s \in Overlays, NEW id \in ObjectID, Mainnet[id][AtFork] # None
    PROVE  Current(s, id) \in Object /\ Current(s, id).id = id
<1>1. AtFork \in Query
  BY DEF AtFork, Query
<1>2. Mainnet[id][AtFork] \in Object /\ Mainnet[id][AtFork].id = id
  BY <1>1, MainnetAssumption DEF Maybe
<1>3. s.objects[id] \in Maybe(Object)
  BY DEF Overlays, OverlayState
<1>4. s.objects[id] # None => s.objects[id].id = id
  BY DEF Overlays, Coherent, KeyedById
<1>5. Current(s, id) = IF s.objects[id] # None THEN s.objects[id] ELSE Mainnet[id][AtFork]
  BY CurrentIs DEF Overlays
<1>. QED BY <1>2, <1>3, <1>4, <1>5 DEF Maybe

\* A cheat's object is the one it read, one version later.
LEMMA BumpedTyped ==
    ASSUME Unbounded, NEW obj \in Object, NEW data \in Data
    PROVE  /\ Bumped(obj, data) \in Object
           /\ Bumped(obj, data).id = obj.id
           /\ Bumped(obj, data).version = obj.version + 1
           /\ Bumped(obj, data).data = data
<1>1. obj.version + 1 \in Version
  BY DEF Unbounded, Object
<1>. QED BY <1>1 DEF Bumped, Object

\* The clock object shows a time.
LEMMA ClockTyped ==
    ASSUME Unbounded, NEW s \in Overlays
    PROVE  Current(s, Clock).data[1] \in Nat
<1>1. Current(s, Clock) \in Object
  BY ReadTyped, SystemObjectsAssumption
<1>. QED BY <1>1 DEF Unbounded, Object

\* An execution commits an overlay.
LEMMA CommitTyped ==
    ASSUME Unbounded, NEW s \in Overlays, NEW obj \in Object, obj.id = Shared,
           NEW success \in BOOLEAN, NEW d \in Digest, NEW info \in Info
    PROVE  commit(s, Outcome(obj, success), d, info) \in Overlays
<1>. DEFINE e == Outcome(obj, success)
<1>1. Increment(obj) \in Object /\ Increment(obj).id = Shared
  <2>1. <<obj.data[1] + 1>> \in Data
    BY DEF Unbounded, Object
  <2>. QED BY <2>1, BumpedTyped DEF Increment
<1>2. e \in Effects
  <2>1. e.written \in [ObjectID -> Maybe(Object)] /\ e.deleted = {}
    BY <1>1 DEF Outcome, Maybe
  <2>2. e.events \in [Account -> Event]
    BY DEF Outcome, Event
  <2>3. \A id \in ObjectID : e.written[id] # None => e.written[id].id = id
    BY <1>1 DEF Outcome
  <2>. QED BY <2>1, <2>2, <2>3 DEF Effects, Outcome
<1>3. commit(s, e, d, info).tombstones = {}
  BY DEF commit, Overlays, Outcome
<1>. QED BY <1>2, <1>3, CommitLemma DEF Overlays

\* A state file is read as an overlay.
LEMMA ImportTyped ==
    ASSUME NEW d \in Dumps
    PROVE  import(d) \in Overlays
BY RoundTrip DEF Dumps, Overlays

-----------------------------------------------------------------------------
(* Threads. *)

\* The names of what a client remembers and of the requests that set the clock.
LEMMA LocalNames ==
    /\ DOMAIN IdleCall = {"pc", "op", "ms", "id", "obj", "epoch", "start", "overlay",
                          "mode", "fork"}
    /\ DOMAIN AfterClock = {"execute", "clock_set", "clock_advance", "state_load",
                            "epoch_advance"}
BY DEF IdleCall, AfterClock

\* An idle client remembers nothing that could be wrong.
LEMMA IdleOK ==
    ASSUME NEW n, NEW t
    PROVE  LocalsOK(IdleCall, n, t)
BY DEF LocalsOK, Carries, IdleCall, ClockPcs, ExecutePcs, ObjectPcs, InputPcs, OverlayPcs,
       DrawPcs, ModePcs, DumpPcs

\* What a thread carries stays in order as ids are drawn and time passes.
LEMMA LocalsLast ==
    ASSUME NEW c, NEW n \in Nat, NEW t \in Nat, LocalsOK(c, n, t),
           NEW m \in Nat, NEW u \in Nat, n =< m, t =< u
    PROVE  LocalsOK(c, m, u)
<1>1. Modes(t) \subseteq Modes(u)
  BY DEF Modes
<1>2. c.id \in Nat
  BY DEF LocalsOK, Carries
<1>3. c.pc = "snap_insert" => c.id < m
  BY <1>2 DEF LocalsOK, Carries
<1>. QED BY <1>1, <1>3 DEF LocalsOK, Carries

\* The files and copies are what they were, as far as their types go.
LEMMA CopiesLast ==
    ASSUME SnapshotsOK, now \in Nat, now' \in Nat, now =< now',
           snapshots' \in {snapshots, NoSnapshots}, next_snapshot' = next_snapshot
    PROVE  SnapshotsOK'
<1>1. Copies(now) \subseteq Copies(now')
  BY DEF Copies, Modes
<1>2. NoSnapshots \in [SnapshotId -> Maybe(Copies(now'))]
  BY DEF NoSnapshots, Maybe
<1>3. \A i \in SnapshotId : NoSnapshots[i] = None
  BY DEF NoSnapshots
<1>. QED BY <1>1, <1>2, <1>3 DEF SnapshotsOK, Maybe

\* A step of one thread, in which the ids drawn and the snapshots are in order.
LEMMA ThreadStep ==
    ASSUME TypeInv, NEW p \in Client, NEW locals, Becomes(p, locals),
           state' \in Overlays, epoch' \in Nat, start' \in Nat, mode' \in Modes(now),
           file' \in Files, lock' \in Maybe(Client),
           UNCHANGED <<crashes, now>>,
           requests' \in {requests, requests + 1}, requests' =< MaxRequests,
           next_snapshot' \in Nat, next_snapshot =< next_snapshot',
           LocalsOK(locals, next_snapshot', now), SnapshotsOK', IdsSuffice'
    PROVE  TypeInv'
<1>1. DOMAIN call' = Client
  BY DEF TypeInv, ThreadsOK, Becomes
<1>2. ASSUME NEW q \in Client
      PROVE  LocalsOK(call'[q], next_snapshot', now)
  <2>1. LocalsOK(call[q], next_snapshot, now)
    BY DEF TypeInv, ThreadsOK
  <2>2. LocalsOK(call[q], next_snapshot', now)
    BY <2>1, LocalsLast DEF TypeInv, CountersOK, IdsSuffice
  <2>3. call'[q] = IF q = p THEN locals ELSE call[q]
    BY DEF TypeInv, ThreadsOK, Becomes
  <2>. QED BY <2>2, <2>3
<1>3. ThreadsOK'
  BY <1>1, <1>2 DEF ThreadsOK
<1>4. CountersOK'
  BY RequestsAssumption DEF TypeInv, CountersOK
<1>. QED BY <1>3, <1>4 DEF TypeInv

\* A thread that is not about to draw an id takes none from the others.
LEMMA IdsLast ==
    ASSUME TypeInv, NEW p \in Client, NEW locals, Becomes(p, locals),
           next_snapshot' = next_snapshot, requests' \in {requests, requests + 1},
           locals.pc \in DrawPcs =>
              call[p].pc \in DrawPcs \/ (requests' = requests + 1 /\ call[p].pc = "idle")
    PROVE  IdsSuffice'
<1>0. requests \in Nat /\ next_snapshot \in Nat /\ IsFiniteSet(Drawing)
      /\ Cardinality(Drawing) \in Nat
  BY RequestsAssumption, FS_CardinalityType DEF TypeInv, CountersOK, IdsSuffice
<1>1. \A q \in Client : call'[q] = IF q = p THEN locals ELSE call[q]
  BY DEF TypeInv, ThreadsOK, Becomes
<1>2. CASE locals.pc \in DrawPcs => call[p].pc \in DrawPcs
  <2>1. Drawing' \subseteq Drawing
    BY <1>1, <1>2 DEF Drawing
  <2>2. IsFiniteSet(Drawing') /\ Cardinality(Drawing') =< Cardinality(Drawing)
        /\ Cardinality(Drawing') \in Nat
    BY <1>0, <2>1, FS_Subset, FS_CardinalityType
  <2>. QED BY <1>0, <2>2 DEF TypeInv, IdsSuffice
<1>3. CASE locals.pc \in DrawPcs /\ call[p].pc = "idle" /\ requests' = requests + 1
  <2>1. Drawing' = Drawing \cup {p} /\ p \notin Drawing
    BY <1>1, <1>3 DEF Drawing, DrawPcs
  <2>2. IsFiniteSet(Drawing') /\ Cardinality(Drawing') = Cardinality(Drawing) + 1
    BY <1>0, <2>1, FS_AddElement
  <2>. QED BY <1>0, <1>3, <2>2 DEF TypeInv, IdsSuffice
<1>. QED BY <1>2, <1>3

\* Most steps draw no id and file no snapshot.
LEMMA PlainStep ==
    ASSUME TypeInv, NEW p \in Client, NEW locals, Becomes(p, locals),
           LocalsOK(locals, next_snapshot, now),
           state' \in Overlays, epoch' \in Nat, start' \in Nat, mode' \in Modes(now),
           file' \in Files, lock' \in Maybe(Client),
           snapshots' \in {snapshots, NoSnapshots},
           UNCHANGED <<next_snapshot, crashes, now>>,
           requests' \in {requests, requests + 1}, requests' =< MaxRequests,
           locals.pc \in DrawPcs =>
              call[p].pc \in DrawPcs \/ (requests' = requests + 1 /\ call[p].pc = "idle")
    PROVE  TypeInv'
<1>1. next_snapshot \in Nat /\ now \in Nat
  BY DEF TypeInv, IdsSuffice, CountersOK
<1>2. IdsSuffice'
  BY IdsLast
<1>3. SnapshotsOK'
  BY <1>1, CopiesLast DEF TypeInv
<1>. QED BY <1>1, <1>2, <1>3, ThreadStep

\* A request that has arrived, and may have written the overlay already.
LEMMA ArriveStep ==
    ASSUME TypeInv, NEW p \in Client, NEW op, NEW locals, Arrive(p, op, locals),
           Carries(locals, locals.pc, op, next_snapshot, now),
           state' \in Overlays,
           UNCHANGED <<epoch, start, mode, snapshots, next_snapshot, lock, file,
                       crashes, now>>
    PROVE  TypeInv'
<1>. DEFINE l == [locals EXCEPT !.op = op]
<1>1. /\ Becomes(p, l) /\ call[p].pc = "idle"
      /\ requests' = requests + 1 /\ requests < MaxRequests
  BY DEF Arrive, Becomes, At
<1>2. /\ DOMAIN l = DOMAIN locals /\ l.op = op
      /\ \A field \in DOMAIN IdleCall \ {"op"} : l[field] = locals[field]
  BY LocalNames DEF Carries
<1>. HIDE DEF l
<1>3. LocalsOK(l, next_snapshot, now)
  BY <1>2, LocalNames DEF LocalsOK, Carries
<1>4. requests' =< MaxRequests
  BY <1>1, RequestsAssumption DEF TypeInv, CountersOK
<1>. QED BY <1>1, <1>3, <1>4, PlainStep DEF TypeInv, CountersOK

\* A thread that only moves on.
LEMMA GotoStep ==
    ASSUME TypeInv, NEW p \in Client, NEW pc, Goto(p, pc),
           Carries(call[p], pc, call[p].op, next_snapshot, now),
           pc \in DrawPcs => call[p].pc \in DrawPcs,
           state' \in Overlays, epoch' \in Nat, start' \in Nat, mode' \in Modes(now),
           file' \in Files, lock' \in Maybe(Client),
           snapshots' \in {snapshots, NoSnapshots},
           UNCHANGED <<next_snapshot, requests, crashes, now>>
    PROVE  TypeInv'
<1>. DEFINE l == [call[p] EXCEPT !.pc = pc]
<1>1. Becomes(p, l)
  BY DEF Goto, Becomes
<1>2. /\ DOMAIN l = DOMAIN call[p] /\ l.pc = pc
      /\ \A field \in DOMAIN IdleCall \ {"pc"} : l[field] = call[p][field]
  BY LocalNames DEF Carries
<1>. HIDE DEF l
<1>3. LocalsOK(l, next_snapshot, now)
  BY <1>2, LocalNames DEF LocalsOK, Carries
<1>4. requests' =< MaxRequests
  BY RequestsAssumption DEF TypeInv, CountersOK
<1>. QED BY <1>1, <1>2, <1>3, <1>4, PlainStep

\* A thread that is done.
LEMMA ReturnStep ==
    ASSUME TypeInv, NEW p \in Client, Return(p),
           state' \in Overlays, mode' \in Modes(now), file' \in Files,
           lock' \in Maybe(Client),
           UNCHANGED <<epoch, start, snapshots, next_snapshot, requests, crashes, now>>
    PROVE  TypeInv'
<1>1. Becomes(p, IdleCall) /\ IdleCall.pc \notin DrawPcs
  BY DEF Return, Becomes, IdleCall, DrawPcs
<1>2. LocalsOK(IdleCall, next_snapshot, now)
  BY IdleOK
<1>3. requests' =< MaxRequests
  BY RequestsAssumption DEF TypeInv, CountersOK
<1>. QED BY <1>1, <1>2, <1>3, PlainStep DEF TypeInv

\* A thread that goes on with more locals, and has written nothing.
LEMMA ReadStep ==
    ASSUME TypeInv, NEW p \in Client, NEW locals, Becomes(p, locals),
           LocalsOK(locals, next_snapshot, now),
           locals.pc \in DrawPcs => call[p].pc \in DrawPcs,
           UNCHANGED <<memory, file, requests, crashes, now>>
    PROVE  TypeInv'
<1>1. requests' =< MaxRequests
  BY RequestsAssumption DEF TypeInv, CountersOK
<1>. QED BY <1>1, PlainStep DEF memory, TypeInv, CountersOK

-----------------------------------------------------------------------------
(* One lemma for the steps of each handler. *)

\* The steps of the clock's refresh keep the types.
LEMMA SetClockTypes ==
    ASSUME TypeInv, Unbounded, NEW p \in Client, SetClock(p)
    PROVE  TypeInv'
<1>. USE DEF ClockPcs, ExecutePcs, InputPcs, ObjectPcs, DrawPcs, OverlayPcs, ModePcs, DumpPcs
<1>. DEFINE c == call[p]
<1>0. /\ state \in Overlays /\ epoch \in Nat /\ start \in Nat /\ mode \in Modes(now)
      /\ file \in Files /\ lock \in Maybe(Client)
  BY DEF TypeInv, CountersOK
<1>1. LocalsOK(c, next_snapshot, now) /\ DOMAIN call = Client
  BY DEF TypeInv, ThreadsOK
<1>2. c.pc \in ClockPcs =>
         \/ AfterClock[c.op] \in {"fix_mode", "sync_load"}
         \/ AfterClock[c.op] = "lock" /\ c.op = "execute"
  BY <1>1, LocalNames DEF LocalsOK, Carries, AfterClock
<1>3. CASE ReadClockObject(p)
  <2>. DEFINE obj == Current(state, Clock)
              pc == IF obj.data = <<c.ms>> THEN AfterClock[c.op] ELSE "clock_write"
              l == [c EXCEPT !.obj = obj, !.pc = pc]
  <2>1. /\ Becomes(p, l) /\ c.pc \in ClockPcs
        /\ UNCHANGED <<memory, file, requests, crashes, now>>
    BY <1>3 DEF ReadClockObject, Private, At, ClockPcs
  <2>2. obj \in Object
    BY ReadTyped, SystemObjectsAssumption DEF TypeInv
  <2>3. pc \in {"clock_write", "fix_mode", "sync_load"} \/ (pc = "lock" /\ c.op = "execute")
    BY <1>2, <2>1
  <2>. HIDE DEF obj, pc
  <2>4. /\ DOMAIN l = DOMAIN c /\ l.pc = pc /\ l.obj = obj
        /\ \A field \in DOMAIN IdleCall \ {"pc", "obj"} : l[field] = c[field]
    BY <1>1, LocalNames DEF LocalsOK, Carries
  <2>. HIDE DEF l
  <2>5. LocalsOK(l, next_snapshot, now)
    BY <1>1, <2>1, <2>2, <2>3, <2>4, LocalNames DEF LocalsOK, Carries
  <2>. QED BY <2>1, <2>3, <2>4, <2>5, ReadStep
<1>4. CASE ReadClockObjectFails(p)
  <2>1. CASE c.op = "execute"
    <3>1. Carries(c, "lock", c.op, next_snapshot, now)
      BY <1>1, <2>1 DEF LocalsOK, Carries
    <3>. QED BY <1>0, <1>4, <2>1, <3>1, GotoStep DEF ReadClockObjectFails, Private, memory
  <2>2. CASE c.op # "execute"
    BY <1>0, <1>4, <2>2, ReturnStep DEF ReadClockObjectFails, Private, memory
  <2>. QED BY <2>1, <2>2
<1>5. CASE WriteClockObject(p)
  <2>1. c.pc = "clock_write" /\ c.obj \in Object /\ <<c.ms>> \in Data
    BY <1>1, <1>5 DEF WriteClockObject, At, LocalsOK, Carries, Unbounded
  <2>2. state' \in Overlays
    BY <1>0, <1>5, <2>1, BumpedTyped, WriteTyped DEF WriteClockObject
  <2>3. Carries(c, AfterClock[c.op], c.op, next_snapshot, now)
        /\ AfterClock[c.op] \notin DrawPcs
    BY <1>1, <1>2, <2>1 DEF LocalsOK, Carries
  <2>. QED BY <1>0, <1>5, <2>2, <2>3, GotoStep DEF WriteClockObject, Private
<1>6. CASE FixMode(p)
  <2>1. FixedMode(c.ms) \in Modes(now)
    BY <1>1 DEF LocalsOK, Carries, FixedMode, Modes, TypeInv, CountersOK
  <2>. QED BY <1>0, <1>6, <2>1, ReturnStep DEF FixMode, Private
<1>7. CASE Dropped(p)
  BY <1>0, <1>7, ReturnStep DEF Dropped, Private, memory
<1>. QED BY <1>3, <1>4, <1>5, <1>6, <1>7 DEF SetClock

\* The steps of an execution keep the types.
LEMMA ExecuteTypes ==
    ASSUME TypeInv, Unbounded, NEW p \in Client, ExecuteHandler(p)
    PROVE  TypeInv'
<1>. USE DEF ClockPcs, ExecutePcs, InputPcs, ObjectPcs, DrawPcs, OverlayPcs, ModePcs, DumpPcs
<1>. DEFINE c == call[p]
<1>0. /\ state \in Overlays /\ epoch \in Nat /\ start \in Nat /\ mode \in Modes(now)
      /\ file \in Files /\ lock \in Maybe(Client)
  BY DEF TypeInv, CountersOK
<1>1. LocalsOK(c, next_snapshot, now) /\ DOMAIN call = Client
  BY DEF TypeInv, ThreadsOK
<1>2. CASE PrepareClock(p)
  <2>. DEFINE ms == IF mode.kind = "Frozen" THEN 0 ELSE target_ms(mode)
              pc == IF mode.kind = "Frozen" THEN "lock" ELSE "clock_read"
              id == requests + 1
              l == [IdleCall EXCEPT !.id = id, !.pc = pc, !.ms = ms]
  <2>1. Arrive(p, "execute", l)
        /\ UNCHANGED <<memory, file, crashes, now>>
    BY <1>2 DEF PrepareClock
  <2>2. ms \in Nat
    BY <1>0 DEF Modes, target_ms, TypeInv, CountersOK
  <2>3. id \in Nat /\ id \in Digest
    BY <2>1, RequestsAssumption DEF Arrive, TypeInv, CountersOK
  <2>4. pc \in {"lock", "clock_read"}
    OBVIOUS
  <2>. HIDE DEF ms, pc, id
  <2>5. /\ DOMAIN l = DOMAIN IdleCall /\ l.id = id /\ l.pc = pc /\ l.ms = ms
        /\ l.epoch = 0 /\ l.start = 0
    BY LocalNames DEF IdleCall
  <2>. HIDE DEF l
  <2>6. Carries(l, l.pc, "execute", next_snapshot, now)
    BY <2>2, <2>3, <2>4, <2>5, LocalNames DEF Carries
  <2>. QED BY <1>0, <2>1, <2>6, ArriveStep DEF memory
<1>3. CASE Acquire(p)
  <2>1. Carries(c, "read_shared", c.op, next_snapshot, now)
    BY <1>1, <1>3 DEF Acquire, At, LocalsOK, Carries
  <2>. QED BY <1>0, <1>3, <2>1, GotoStep DEF Acquire, Private, Maybe
<1>4. CASE ReadInputs(p)
  <2>1. UNCHANGED <<memory, file, requests, crashes, now>>
    BY <1>4 DEF ReadInputs, Private
  <2>2. CASE At(p, "read_shared")
    <3>. DEFINE obj == Current(state, Shared)
                l == [c EXCEPT !.obj = obj, !.pc = "read_clock"]
    <3>1. obj \in Object /\ obj.id = Shared
      BY <1>0, ReadTyped, SharedAssumption
    <3>2. Becomes(p, l)
      BY <1>4, <2>2 DEF ReadInputs, At
    <3>. HIDE DEF obj
    <3>3. /\ DOMAIN l = DOMAIN c /\ l.pc = "read_clock" /\ l.obj = obj
          /\ \A field \in DOMAIN IdleCall \ {"pc", "obj"} : l[field] = c[field]
      BY <1>1, LocalNames DEF LocalsOK, Carries
    <3>. HIDE DEF l
    <3>4. LocalsOK(l, next_snapshot, now)
      BY <1>1, <2>2, <3>1, <3>3, LocalNames DEF At, LocalsOK, Carries
    <3>. QED BY <2>1, <3>2, <3>3, <3>4, ReadStep
  <2>3. CASE At(p, "read_clock")
    <3>. DEFINE ms == clock_timestamp_ms
                l == [c EXCEPT !.ms = ms, !.pc = "read_epoch"]
    <3>1. ms \in Nat
      BY <1>0, ClockTyped DEF clock_timestamp_ms
    <3>2. Becomes(p, l)
      BY <1>4, <2>3 DEF ReadInputs, At
    <3>. HIDE DEF ms
    <3>3. /\ DOMAIN l = DOMAIN c /\ l.pc = "read_epoch" /\ l.ms = ms
          /\ \A field \in DOMAIN IdleCall \ {"pc", "ms"} : l[field] = c[field]
      BY <1>1, LocalNames DEF LocalsOK, Carries
    <3>. HIDE DEF l
    <3>4. LocalsOK(l, next_snapshot, now)
      BY <1>1, <2>3, <3>1, <3>3, LocalNames DEF At, LocalsOK, Carries
    <3>. QED BY <2>1, <3>2, <3>3, <3>4, ReadStep
  <2>. QED BY <1>4, <2>2, <2>3 DEF ReadInputs
<1>5. CASE ReadEpoch(p)
  <2>1. UNCHANGED <<memory, file, requests, crashes, now>>
    BY <1>5 DEF ReadEpoch, Private
  <2>2. CASE At(p, "read_epoch")
    <3>. DEFINE l == [c EXCEPT !.epoch = epoch, !.pc = "read_start"]
    <3>2. Becomes(p, l)
      BY <1>5, <2>2 DEF ReadEpoch, At
    <3>3. /\ DOMAIN l = DOMAIN c /\ l.pc = "read_start" /\ l.epoch = epoch
          /\ \A field \in DOMAIN IdleCall \ {"pc", "epoch"} : l[field] = c[field]
      BY <1>1, LocalNames DEF LocalsOK, Carries
    <3>. HIDE DEF l
    <3>4. LocalsOK(l, next_snapshot, now)
      BY <1>0, <1>1, <2>2, <3>3, LocalNames DEF At, LocalsOK, Carries
    <3>. QED BY <2>1, <3>2, <3>3, <3>4, ReadStep
  <2>3. CASE At(p, "read_start")
    <3>. DEFINE l == [c EXCEPT !.start = start, !.pc = "commit"]
    <3>2. Becomes(p, l)
      BY <1>5, <2>3 DEF ReadEpoch, At
    <3>3. /\ DOMAIN l = DOMAIN c /\ l.pc = "commit" /\ l.start = start
          /\ \A field \in DOMAIN IdleCall \ {"pc", "start"} : l[field] = c[field]
      BY <1>1, LocalNames DEF LocalsOK, Carries
    <3>. HIDE DEF l
    <3>4. LocalsOK(l, next_snapshot, now)
      BY <1>0, <1>1, <2>3, <3>3, LocalNames DEF At, LocalsOK, Carries
    <3>. QED BY <2>1, <3>2, <3>3, <3>4, ReadStep
  <2>. QED BY <1>5, <2>2, <2>3 DEF ReadEpoch
<1>6. CASE CommitTransaction(p)
  <2>1. PICK success \in BOOLEAN :
           state' = commit(state, Outcome(c.obj, success), c.id,
                           [success |-> success, epoch |-> c.epoch,
                            start |-> c.start, ms |-> c.ms])
    BY <1>6 DEF CommitTransaction
  <2>2. /\ c.obj \in Object /\ c.obj.id = Shared /\ c.id \in Digest
        /\ c.epoch \in Nat /\ c.start \in Nat /\ c.ms \in Nat
    BY <1>1, <1>6 DEF CommitTransaction, At, LocalsOK, Carries
  <2>3. [success |-> success, epoch |-> c.epoch, start |-> c.start, ms |-> c.ms] \in Info
    BY <2>2 DEF Unbounded
  <2>4. state' \in Overlays
    BY <1>0, <2>1, <2>2, <2>3, CommitTyped
  <2>. QED BY <1>0, <1>6, <2>4, ReturnStep DEF CommitTransaction, Private, Maybe
<1>7. CASE ExecuteFails(p)
  BY <1>0, <1>7, ReturnStep DEF ExecuteFails, Private, Maybe
<1>. QED BY <1>2, <1>3, <1>4, <1>5, <1>6, <1>7 DEF ExecuteHandler

\* The steps that take a snapshot keep the types.
LEMMA TakeTypes ==
    ASSUME TypeInv, Unbounded, NEW p \in Client,
           \/ TakeSnapshot(p) \/ SnapshotReads(p)
           \/ DrawSnapshotId(p) \/ SnapshotInsert(p)
    PROVE  TypeInv'
<1>. USE DEF ClockPcs, ExecutePcs, InputPcs, ObjectPcs, DrawPcs, OverlayPcs, ModePcs, DumpPcs
<1>. DEFINE c == call[p]
<1>0. /\ state \in Overlays /\ epoch \in Nat /\ start \in Nat /\ mode \in Modes(now)
      /\ file \in Files /\ lock \in Maybe(Client)
  BY DEF TypeInv, CountersOK
<1>1. LocalsOK(c, next_snapshot, now) /\ DOMAIN call = Client
  BY DEF TypeInv, ThreadsOK
<1>2. CASE TakeSnapshot(p)
  <2>. DEFINE l == [IdleCall EXCEPT !.pc = "snap_epoch", !.overlay = state, !.fork = Fork]
  <2>1. Arrive(p, "snapshot", l) /\ UNCHANGED <<memory, file, crashes, now>>
    BY <1>2 DEF TakeSnapshot
  <2>2. /\ DOMAIN l = DOMAIN IdleCall /\ l.pc = "snap_epoch" /\ l.overlay = state
        /\ l.ms = 0 /\ l.id = 0 /\ l.epoch = 0 /\ l.start = 0
    BY LocalNames DEF IdleCall
  <2>. HIDE DEF l
  <2>3. Carries(l, l.pc, "snapshot", next_snapshot, now)
    BY <1>0, <2>2 DEF Carries
  <2>. QED BY <1>0, <2>1, <2>3, ArriveStep DEF memory
<1>3. CASE SnapshotReads(p)
  <2>1. UNCHANGED <<memory, file, requests, crashes, now>>
    BY <1>3 DEF SnapshotReads, Private
  <2>2. CASE At(p, "snap_epoch")
    <3>. DEFINE l == [c EXCEPT !.epoch = epoch, !.pc = "snap_start"]
    <3>1. Becomes(p, l)
      BY <1>3, <2>2 DEF SnapshotReads, At
    <3>2. /\ DOMAIN l = DOMAIN c /\ l.pc = "snap_start" /\ l.epoch = epoch
          /\ \A field \in DOMAIN IdleCall \ {"pc", "epoch"} : l[field] = c[field]
      BY <1>1, LocalNames DEF LocalsOK, Carries
    <3>. HIDE DEF l
    <3>3. LocalsOK(l, next_snapshot, now)
      BY <1>0, <1>1, <2>2, <3>2, LocalNames DEF At, LocalsOK, Carries
    <3>. QED BY <2>1, <2>2, <3>1, <3>2, <3>3, ReadStep DEF At
  <2>3. CASE At(p, "snap_start")
    <3>. DEFINE l == [c EXCEPT !.start = start, !.pc = "snap_mode"]
    <3>1. Becomes(p, l)
      BY <1>3, <2>3 DEF SnapshotReads, At
    <3>2. /\ DOMAIN l = DOMAIN c /\ l.pc = "snap_mode" /\ l.start = start
          /\ \A field \in DOMAIN IdleCall \ {"pc", "start"} : l[field] = c[field]
      BY <1>1, LocalNames DEF LocalsOK, Carries
    <3>. HIDE DEF l
    <3>3. LocalsOK(l, next_snapshot, now)
      BY <1>0, <1>1, <2>3, <3>2, LocalNames DEF At, LocalsOK, Carries
    <3>. QED BY <2>1, <2>3, <3>1, <3>2, <3>3, ReadStep DEF At
  <2>4. CASE At(p, "snap_mode")
    <3>. DEFINE l == [c EXCEPT !.mode = mode, !.pc = "snap_id"]
    <3>1. Becomes(p, l)
      BY <1>3, <2>4 DEF SnapshotReads, At
    <3>2. /\ DOMAIN l = DOMAIN c /\ l.pc = "snap_id" /\ l.mode = mode
          /\ \A field \in DOMAIN IdleCall \ {"pc", "mode"} : l[field] = c[field]
      BY <1>1, LocalNames DEF LocalsOK, Carries
    <3>. HIDE DEF l
    <3>3. LocalsOK(l, next_snapshot, now)
      BY <1>0, <1>1, <2>4, <3>2, LocalNames DEF At, LocalsOK, Carries
    <3>. QED BY <2>1, <2>4, <3>1, <3>2, <3>3, ReadStep DEF At
  <2>. QED BY <1>3, <2>2, <2>3, <2>4 DEF SnapshotReads
<1>4. CASE DrawSnapshotId(p)
  <2>. DEFINE id == next_snapshot
              l == [c EXCEPT !.id = id, !.pc = "snap_insert"]
  <2>1. /\ Becomes(p, l) /\ c.pc = "snap_id" /\ next_snapshot' = next_snapshot + 1
        /\ UNCHANGED <<state, epoch, start, mode, snapshots, lock, file,
                       requests, crashes, now>>
    BY <1>4 DEF DrawSnapshotId, Private, At
  <2>2. next_snapshot \in Nat /\ requests \in Nat /\ requests =< MaxRequests
    BY RequestsAssumption DEF TypeInv, IdsSuffice, CountersOK
  <2>. HIDE DEF id
  <2>3. /\ DOMAIN l = DOMAIN c /\ l.pc = "snap_insert" /\ l.id = id
        /\ \A field \in DOMAIN IdleCall \ {"pc", "id"} : l[field] = c[field]
    BY <1>1, LocalNames DEF LocalsOK, Carries
  <2>. HIDE DEF l
  <2>4. id \in Nat /\ id < next_snapshot'
    BY <2>1, <2>2 DEF id
  <2>a. /\ c.op = "snapshot" /\ c.overlay \in Overlays /\ c.mode \in Modes(now)
        /\ DOMAIN c = DOMAIN IdleCall /\ c.ms \in Nat /\ c.epoch \in Nat /\ c.start \in Nat
    BY <1>1, <2>1 DEF LocalsOK, Carries
  <2>5. LocalsOK(l, next_snapshot', now)
    BY <2>3, <2>4, <2>a, LocalNames DEF LocalsOK, Carries
  <2>6. SnapshotsOK'
    <3>1. \A i \in SnapshotId : i \in Nat
      BY DEF SnapshotId
    <3>. QED BY <2>1, <2>2, <3>1 DEF TypeInv, SnapshotsOK
  <2>7. IdsSuffice'
    <3>1. IsFiniteSet(Drawing) /\ Cardinality(Drawing) \in Nat /\ p \in Drawing
      BY <2>1, FS_CardinalityType DEF TypeInv, IdsSuffice, Drawing
    <3>2. Drawing' = Drawing \ {p}
      BY <1>1, <2>1, <2>3 DEF Becomes, Drawing
    <3>3. /\ IsFiniteSet(Drawing') /\ Cardinality(Drawing') \in Nat
          /\ Cardinality(Drawing') = Cardinality(Drawing) - 1
      BY <3>1, <3>2, FS_RemoveElement, FS_CardinalityType
    <3>. QED BY <2>1, <2>2, <3>1, <3>3 DEF TypeInv, IdsSuffice
  <2>. QED BY <1>0, <2>1, <2>2, <2>5, <2>6, <2>7, ThreadStep
<1>5. CASE SnapshotInsert(p)
  <2>. DEFINE copy == [overlay |-> c.overlay, epoch |-> c.epoch,
                       start |-> c.start, mode |-> c.mode]
  <2>1. /\ Becomes(p, IdleCall) /\ c.pc = "snap_insert"
        /\ snapshots' = [snapshots EXCEPT ![c.id] = copy]
        /\ UNCHANGED <<state, epoch, start, mode, next_snapshot, lock, file,
                       requests, crashes, now>>
    BY <1>5 DEF SnapshotInsert, Private, At, Return, Becomes
  <2>2. next_snapshot \in Nat /\ requests \in Nat /\ requests =< MaxRequests
    BY RequestsAssumption DEF TypeInv, IdsSuffice, CountersOK
  <2>3. copy \in Copies(now) /\ c.id \in Nat /\ c.id < next_snapshot
    BY <1>1, <2>1 DEF LocalsOK, Carries, Copies
  <2>. HIDE DEF copy
  <2>4. SnapshotsOK'
    BY <2>1, <2>3 DEF TypeInv, SnapshotsOK, Maybe
  <2>5. LocalsOK(IdleCall, next_snapshot', now) /\ IdleCall.pc \notin DrawPcs
    BY IdleOK DEF IdleCall
  <2>6. IdsSuffice'
    BY <2>1, <2>5, IdsLast
  <2>. QED BY <1>0, <2>1, <2>2, <2>4, <2>5, <2>6, ThreadStep
<1>. QED BY <1>2, <1>3, <1>4, <1>5

\* The steps of a revert and of a reset keep the types.
LEMMA RevertTypes ==
    ASSUME TypeInv, Unbounded, NEW p \in Client,
           \/ Revert(p) \/ RevertRefused(p) \/ RevertSteps(p)
           \/ Reset(p) \/ ResetSteps(p)
    PROVE  TypeInv'
<1>. USE DEF ClockPcs, ExecutePcs, InputPcs, ObjectPcs, DrawPcs, OverlayPcs, ModePcs, DumpPcs
<1>. DEFINE c == call[p]
<1>0. /\ state \in Overlays /\ epoch \in Nat /\ start \in Nat /\ mode \in Modes(now)
      /\ file \in Files /\ lock \in Maybe(Client)
  BY DEF TypeInv, CountersOK
<1>1. LocalsOK(c, next_snapshot, now) /\ DOMAIN call = Client
  BY DEF TypeInv, ThreadsOK
<1>2. CASE Revert(p)
  <2>1. PICK id \in SnapshotId :
          /\ snapshots[id] # None
          /\ Arrive(p, "revert", [IdleCall EXCEPT
                !.pc = "rev_overlay", !.id = id,
                !.overlay = snapshots[id].overlay, !.epoch = snapshots[id].epoch,
                !.start = snapshots[id].start, !.mode = snapshots[id].mode])
    BY <1>2 DEF Revert
  <2>. DEFINE copy == snapshots[id]
  <2>2. copy \in Copies(now) /\ id \in Nat
    BY <2>1 DEF TypeInv, SnapshotsOK, Maybe, SnapshotId
  <2>. HIDE DEF copy
  <2>. DEFINE l == [IdleCall EXCEPT
                !.pc = "rev_overlay", !.id = id, !.overlay = copy.overlay,
                !.epoch = copy.epoch, !.start = copy.start, !.mode = copy.mode]
  <2>3. Arrive(p, "revert", l) /\ UNCHANGED <<memory, file, crashes, now>>
    BY <1>2, <2>1 DEF Revert, copy
  <2>4. /\ DOMAIN l = DOMAIN IdleCall /\ l.pc = "rev_overlay" /\ l.id = id
        /\ l.overlay = copy.overlay /\ l.epoch = copy.epoch /\ l.start = copy.start
        /\ l.mode = copy.mode /\ l.ms = 0
    BY LocalNames DEF IdleCall
  <2>. HIDE DEF l
  <2>5. Carries(l, l.pc, "revert", next_snapshot, now)
    BY <2>2, <2>4 DEF Carries, Copies
  <2>. QED BY <1>0, <2>3, <2>5, ArriveStep DEF memory
<1>3. CASE RevertRefused(p)
  <2>1. Carries(IdleCall, IdleCall.pc, "revert", next_snapshot, now)
    BY DEF Carries, IdleCall
  <2>. QED BY <1>0, <1>3, <2>1, ArriveStep DEF RevertRefused, memory
<1>4. ASSUME NEW pc, NEW next, RestoreEpoch(p, pc, next) \/ RestoreStart(p, pc, next),
             \/ <<pc, next>> \in {<<"rev_epoch", "rev_start">>, <<"rev_start", "rev_mode">>}
             \/ <<pc, next>> \in {<<"reset_epoch", "reset_start">>,
                                  <<"reset_start", "reset_snapshots">>}
      PROVE  TypeInv'
  <2>1. /\ c.pc = pc /\ Goto(p, next) /\ epoch' \in {epoch, c.epoch}
        /\ start' \in {start, c.start}
        /\ UNCHANGED <<state, mode, snapshots, next_snapshot, lock, file, requests,
                       crashes, now>>
    BY <1>4 DEF RestoreEpoch, RestoreStart, Private, At
  <2>2. epoch' \in Nat /\ start' \in Nat
    BY <1>0, <1>1, <2>1 DEF LocalsOK, Carries
  <2>3. Carries(c, next, c.op, next_snapshot, now) /\ next \notin DrawPcs
    BY <1>1, <1>4, <2>1 DEF LocalsOK, Carries
  <2>. QED BY <1>0, <2>1, <2>2, <2>3, GotoStep
<1>5. CASE ReplaceOverlay(p, "rev_overlay", c.overlay, "rev_epoch")
  <2>1. c.overlay \in Overlays /\ Carries(c, "rev_epoch", c.op, next_snapshot, now)
    BY <1>1, <1>5 DEF ReplaceOverlay, At, LocalsOK, Carries
  <2>. QED BY <1>0, <1>5, <2>1, GotoStep DEF ReplaceOverlay, Private
<1>6. CASE RevertMode(p)
  <2>1. c.mode \in Modes(now)
    BY <1>1, <1>6 DEF RevertMode, At, LocalsOK, Carries
  <2>. QED BY <1>0, <1>6, <2>1, ReturnStep DEF RevertMode, Private
<1>7. CASE Reset(p)
  <2>. DEFINE l == [IdleCall EXCEPT
                !.pc = "reset_epoch", !.epoch = InitialEpoch, !.start = InitialStart]
  <2>1. Arrive(p, "reset", l) /\ state' = Default
    BY <1>7 DEF Reset
  <2>2. /\ DOMAIN l = DOMAIN IdleCall /\ l.pc = "reset_epoch" /\ l.epoch = InitialEpoch
        /\ l.start = InitialStart /\ l.ms = 0 /\ l.id = 0
    BY LocalNames DEF IdleCall
  <2>. HIDE DEF l
  <2>3. Carries(l, l.pc, "reset", next_snapshot, now)
    BY <2>2, NumbersAssumption DEF Carries
  <2>. QED BY <1>0, <1>7, <2>1, <2>3, DefaultTyped, ArriveStep DEF Reset
<1>8. CASE ClearSnapshots(p)
  <2>1. Carries(c, "reset_anchor", c.op, next_snapshot, now)
    BY <1>1 DEF LocalsOK, Carries
  <2>. QED BY <1>0, <1>8, <2>1, GotoStep DEF ClearSnapshots, Private
<1>9. CASE ReadAnchor(p)
  <2>1. PICK ms \in {clock_timestamp_ms, 0} :
            Becomes(p, [c EXCEPT !.ms = ms, !.pc = "reset_mode"])
    BY <1>9 DEF ReadAnchor
  <2>. DEFINE l == [c EXCEPT !.ms = ms, !.pc = "reset_mode"]
  <2>2. ms \in Nat
    BY <1>0, ClockTyped DEF clock_timestamp_ms
  <2>3. /\ DOMAIN l = DOMAIN c /\ l.pc = "reset_mode" /\ l.ms = ms
        /\ \A field \in DOMAIN IdleCall \ {"pc", "ms"} : l[field] = c[field]
    BY <1>1, LocalNames DEF LocalsOK, Carries
  <2>4. Becomes(p, l) /\ UNCHANGED <<memory, file, requests, crashes, now>>
    BY <1>9, <2>1 DEF ReadAnchor, Private
  <2>. HIDE DEF l
  <2>5. LocalsOK(l, next_snapshot, now)
    BY <1>1, <1>9, <2>2, <2>3, LocalNames DEF ReadAnchor, At, LocalsOK, Carries
  <2>. QED BY <2>3, <2>4, <2>5, ReadStep
<1>10. CASE ResetMode(p)
  <2>1. AutoMode(c.ms) \in Modes(now)
    BY <1>1 DEF LocalsOK, Carries, AutoMode, Modes, TypeInv, CountersOK
  <2>. QED BY <1>0, <1>10, <2>1, ReturnStep DEF ResetMode, Private
<1>11. CASE RevertSteps(p)
  <2>1. CASE RestoreEpoch(p, "rev_epoch", "rev_start")
    BY <1>4, <2>1
  <2>2. CASE RestoreStart(p, "rev_start", "rev_mode")
    BY <1>4, <2>2
  <2>. QED BY <1>5, <1>6, <1>11, <2>1, <2>2 DEF RevertSteps
<1>12. CASE ResetSteps(p)
  <2>1. CASE RestoreEpoch(p, "reset_epoch", "reset_start")
    BY <1>4, <2>1
  <2>2. CASE RestoreStart(p, "reset_start", "reset_snapshots")
    BY <1>4, <2>2
  <2>. QED BY <1>8, <1>9, <1>10, <1>12, <2>1, <2>2 DEF ResetSteps
<1>. QED BY <1>2, <1>3, <1>7, <1>11, <1>12

\* The steps of a dump and of a load keep the types.
LEMMA DumpTypes ==
    ASSUME TypeInv, Unbounded, NEW p \in Client,
           \/ Dump(p) \/ DumpSteps(p)
           \/ Load(p) \/ LoadRefused(p) \/ LoadSteps(p)
    PROVE  TypeInv'
<1>. USE DEF ClockPcs, ExecutePcs, InputPcs, ObjectPcs, DrawPcs, OverlayPcs, ModePcs, DumpPcs
<1>. DEFINE c == call[p]
<1>0. /\ state \in Overlays /\ epoch \in Nat /\ start \in Nat /\ mode \in Modes(now)
      /\ file \in Files /\ lock \in Maybe(Client)
  BY DEF TypeInv, CountersOK
<1>1. LocalsOK(c, next_snapshot, now) /\ DOMAIN call = Client
  BY DEF TypeInv, ThreadsOK
<1>2. CASE Dump(p)
  <2>. DEFINE l == [IdleCall EXCEPT !.pc = "dump_start", !.epoch = epoch, !.fork = Fork]
  <2>1. Arrive(p, "state_dump", l) /\ UNCHANGED <<memory, file, crashes, now>>
    BY <1>2 DEF Dump
  <2>2. /\ DOMAIN l = DOMAIN IdleCall /\ l.pc = "dump_start" /\ l.epoch = epoch
        /\ l.ms = 0 /\ l.id = 0 /\ l.start = 0
    BY LocalNames DEF IdleCall
  <2>. HIDE DEF l
  <2>3. Carries(l, l.pc, "state_dump", next_snapshot, now)
    BY <1>0, <2>2 DEF Carries
  <2>. QED BY <1>0, <2>1, <2>3, ArriveStep DEF memory
<1>3. CASE DumpReads(p)
  <2>1. UNCHANGED <<memory, file, requests, crashes, now>>
    BY <1>3 DEF DumpReads, Private
  <2>2. CASE At(p, "dump_start")
    <3>. DEFINE l == [c EXCEPT !.start = start, !.pc = "dump_clock"]
    <3>1. Becomes(p, l)
      BY <1>3, <2>2 DEF DumpReads, At
    <3>2. /\ DOMAIN l = DOMAIN c /\ l.pc = "dump_clock" /\ l.start = start
          /\ \A field \in DOMAIN IdleCall \ {"pc", "start"} : l[field] = c[field]
      BY <1>1, LocalNames DEF LocalsOK, Carries
    <3>. HIDE DEF l
    <3>3. LocalsOK(l, next_snapshot, now)
      BY <1>0, <1>1, <2>2, <3>2, LocalNames DEF At, LocalsOK, Carries
    <3>. QED BY <2>1, <2>2, <3>1, <3>2, <3>3, ReadStep DEF At
  <2>3. CASE At(p, "dump_clock")
    <3>1. PICK ms \in {clock_timestamp_ms, 0} :
              Becomes(p, [c EXCEPT !.ms = ms, !.pc = "dump_overlay"])
      BY <1>3, <2>3 DEF DumpReads, At
    <3>. DEFINE l == [c EXCEPT !.ms = ms, !.pc = "dump_overlay"]
    <3>2. ms \in Nat
      BY <1>0, ClockTyped DEF clock_timestamp_ms
    <3>3. /\ DOMAIN l = DOMAIN c /\ l.pc = "dump_overlay" /\ l.ms = ms
          /\ \A field \in DOMAIN IdleCall \ {"pc", "ms"} : l[field] = c[field]
      BY <1>1, LocalNames DEF LocalsOK, Carries
    <3>4. Becomes(p, l)
      BY <3>1
    <3>. HIDE DEF l
    <3>5. LocalsOK(l, next_snapshot, now)
      BY <1>1, <2>3, <3>2, <3>3, LocalNames DEF At, LocalsOK, Carries
    <3>. QED BY <2>1, <3>3, <3>4, <3>5, ReadStep
  <2>4. CASE At(p, "dump_overlay")
    <3>. DEFINE dump == export(state)
                l == [c EXCEPT !.overlay = dump, !.pc = "dump_open"]
    <3>1. Becomes(p, l)
      BY <1>3, <2>4 DEF DumpReads, At
    <3>2. dump \in Dumps
      BY <1>0 DEF Dumps
    <3>. HIDE DEF dump
    <3>3. /\ DOMAIN l = DOMAIN c /\ l.pc = "dump_open" /\ l.overlay = dump
          /\ \A field \in DOMAIN IdleCall \ {"pc", "overlay"} : l[field] = c[field]
      BY <1>1, LocalNames DEF LocalsOK, Carries
    <3>. HIDE DEF l
    <3>4. LocalsOK(l, next_snapshot, now)
      BY <1>1, <2>4, <3>2, <3>3, LocalNames DEF At, LocalsOK, Carries
    <3>. QED BY <2>1, <3>1, <3>3, <3>4, ReadStep
  <2>. QED BY <1>3, <2>2, <2>3, <2>4 DEF DumpReads
<1>4. CASE DumpTruncates(p)
  <2>1. Carries(c, "dump_write", c.op, next_snapshot, now) /\ Torn \in Files
    BY <1>1, <1>4 DEF DumpTruncates, At, LocalsOK, Carries, Files
  <2>. QED BY <1>0, <1>4, <2>1, GotoStep DEF DumpTruncates, Private, memory
<1>5. CASE DumpWrites(p)
  <2>1. c.overlay \in Dumps /\ c.epoch \in Nat /\ c.start \in Nat /\ c.ms \in Nat
    BY <1>1, <1>5 DEF DumpWrites, At, LocalsOK, Carries
  <2>2. file' \in Files
    BY <1>5, <2>1 DEF DumpWrites, Files
  <2>. QED BY <1>0, <1>5, <2>2, ReturnStep DEF DumpWrites, Private, memory
<1>6. CASE DumpFails(p)
  BY <1>0, <1>6, ReturnStep DEF DumpFails, Private, memory
<1>7. CASE Load(p)
  <2>. DEFINE l == [IdleCall EXCEPT
                !.pc = "load_overlay", !.epoch = file.epoch, !.start = file.start,
                !.ms = file.ms, !.overlay = file.overlay, !.fork = dumped]
  <2>1. Arrive(p, "state_load", l) /\ UNCHANGED <<memory, file, crashes, now>>
    BY <1>7 DEF Load
  <2>2. /\ file.epoch \in Nat /\ file.start \in Nat /\ file.ms \in Nat
        /\ file.overlay \in Dumps
    BY <1>0, <1>7 DEF Load, FileIsDump, Files, NoFile, Torn
  <2>3. /\ DOMAIN l = DOMAIN IdleCall /\ l.pc = "load_overlay" /\ l.epoch = file.epoch
        /\ l.start = file.start /\ l.ms = file.ms /\ l.overlay = file.overlay
        /\ l.id = 0
    BY LocalNames DEF IdleCall
  <2>. HIDE DEF l
  <2>4. Carries(l, l.pc, "state_load", next_snapshot, now)
    BY <2>2, <2>3, LocalNames DEF Carries
  <2>. QED BY <1>0, <2>1, <2>4, ArriveStep DEF memory
<1>8. CASE LoadRefused(p)
  <2>1. Carries(IdleCall, IdleCall.pc, "state_load", next_snapshot, now)
    BY DEF Carries, IdleCall
  <2>. QED BY <1>0, <1>8, <2>1, ArriveStep DEF LoadRefused, memory
<1>9. CASE LoadSteps(p)
  <2>1. CASE ReplaceOverlay(p, "load_overlay", import(c.overlay), "load_epoch")
    <3>1. import(c.overlay) \in Overlays /\ Carries(c, "load_epoch", c.op, next_snapshot, now)
      BY <1>1, <2>1, ImportTyped DEF ReplaceOverlay, At, LocalsOK, Carries
    <3>. QED BY <1>0, <2>1, <3>1, GotoStep DEF ReplaceOverlay, Private
  <2>2. CASE RestoreEpoch(p, "load_epoch", "load_start")
    <3>1. c.epoch \in Nat /\ Carries(c, "load_start", c.op, next_snapshot, now)
      BY <1>1, <2>2 DEF RestoreEpoch, At, LocalsOK, Carries
    <3>. QED BY <1>0, <2>2, <3>1, GotoStep DEF RestoreEpoch, Private
  <2>3. CASE RestoreStart(p, "load_start", "clock_read")
    <3>1. c.start \in Nat /\ Carries(c, "clock_read", c.op, next_snapshot, now)
      BY <1>1, <2>3, LocalNames DEF RestoreStart, At, LocalsOK, Carries
    <3>. QED BY <1>0, <2>3, <3>1, GotoStep DEF RestoreStart, Private
  <2>. QED BY <1>9, <2>1, <2>2, <2>3 DEF LoadSteps
<1>. QED BY <1>2, <1>3, <1>4, <1>5, <1>6, <1>7, <1>8, <1>9 DEF DumpSteps

\* The steps of the other control routes keep the types.
LEMMA ControlTypes ==
    ASSUME TypeInv, Unbounded, NEW p \in Client, ControlHandlers(p)
    PROVE  TypeInv'
<1>. USE DEF ClockPcs, ExecutePcs, InputPcs, ObjectPcs, DrawPcs, OverlayPcs, ModePcs, DumpPcs
<1>. DEFINE c == call[p]
<1>0. /\ state \in Overlays /\ epoch \in Nat /\ start \in Nat /\ mode \in Modes(now)
      /\ file \in Files /\ lock \in Maybe(Client)
  BY DEF TypeInv, CountersOK
<1>1. LocalsOK(c, next_snapshot, now) /\ DOMAIN call = Client
  BY DEF TypeInv, ThreadsOK
<1>a. clock_timestamp_ms \in Nat
  BY <1>0, ClockTyped DEF clock_timestamp_ms
<1>2. CASE ClockSet(p)
  <2>1. PICK op \in {"clock_set", "clock_advance"}, j \in Jumps :
           Arrive(p, op, [IdleCall EXCEPT
              !.pc = "clock_read", !.ms = clock_timestamp_ms + j])
    BY <1>2 DEF ClockSet
  <2>. DEFINE ms == clock_timestamp_ms + j
              l == [IdleCall EXCEPT !.pc = "clock_read", !.ms = ms]
  <2>2. ms \in Nat
    BY <1>a, ControlAssumption
  <2>. HIDE DEF ms
  <2>3. /\ DOMAIN l = DOMAIN IdleCall /\ l.pc = "clock_read" /\ l.ms = ms
        /\ l.id = 0 /\ l.epoch = 0 /\ l.start = 0
    BY LocalNames DEF IdleCall
  <2>4. Arrive(p, op, l) /\ UNCHANGED <<memory, file, crashes, now>>
    BY <1>2, <2>1 DEF ClockSet, ms
  <2>. HIDE DEF l
  <2>5. Carries(l, l.pc, op, next_snapshot, now)
    BY <2>1, <2>2, <2>3, LocalNames DEF Carries
  <2>. QED BY <1>0, <2>4, <2>5, ArriveStep DEF memory
<1>3. CASE ClockAuto(p)
  <2>. DEFINE ms == clock_timestamp_ms
              l == [IdleCall EXCEPT !.pc = "set_auto", !.ms = ms]
  <2>1. Arrive(p, "clock_auto", l) /\ UNCHANGED <<memory, file, crashes, now>>
    BY <1>3 DEF ClockAuto
  <2>2. ms \in Nat
    BY <1>a
  <2>. HIDE DEF ms
  <2>3. /\ DOMAIN l = DOMAIN IdleCall /\ l.pc = "set_auto" /\ l.ms = ms
        /\ l.id = 0 /\ l.epoch = 0 /\ l.start = 0
    BY LocalNames DEF IdleCall
  <2>. HIDE DEF l
  <2>4. Carries(l, l.pc, "clock_auto", next_snapshot, now)
    BY <2>2, <2>3 DEF Carries
  <2>. QED BY <1>0, <2>1, <2>4, ArriveStep DEF memory
<1>4. CASE ClockFreeze(p)
  <2>. DEFINE l == [IdleCall EXCEPT !.pc = "set_frozen"]
  <2>1. Arrive(p, "clock_freeze", l) /\ UNCHANGED <<memory, file, crashes, now>>
    BY <1>4 DEF ClockFreeze
  <2>2. /\ DOMAIN l = DOMAIN IdleCall /\ l.pc = "set_frozen"
        /\ l.ms = 0 /\ l.id = 0 /\ l.epoch = 0 /\ l.start = 0
    BY LocalNames DEF IdleCall
  <2>. HIDE DEF l
  <2>3. Carries(l, l.pc, "clock_freeze", next_snapshot, now)
    BY <2>2 DEF Carries
  <2>. QED BY <1>0, <2>1, <2>3, ArriveStep DEF memory
<1>5. CASE SetMode(p)
  <2>1. AutoMode(c.ms) \in Modes(now) /\ FrozenMode \in Modes(now)
    BY <1>1 DEF LocalsOK, Carries, AutoMode, FrozenMode, Modes, TypeInv, CountersOK
  <2>. QED BY <1>0, <1>5, <2>1, ReturnStep DEF SetMode, Private
<1>6. CASE EpochAdvance(p)
  <2>1. PICK count \in Counts :
        \E ms \in {clock_timestamp_ms + count * EPOCH_MS}
                  \cup {clock_timestamp_ms + j : j \in Jumps} :
           Arrive(p, "epoch_advance", [IdleCall EXCEPT
               !.pc = "advance_start", !.ms = ms, !.id = count])
    BY <1>6 DEF EpochAdvance
  <2>2. PICK ms \in {clock_timestamp_ms + count * EPOCH_MS}
                    \cup {clock_timestamp_ms + j : j \in Jumps} :
           Arrive(p, "epoch_advance", [IdleCall EXCEPT
               !.pc = "advance_start", !.ms = ms, !.id = count])
    BY <2>1
  <2>. DEFINE l == [IdleCall EXCEPT !.pc = "advance_start", !.ms = ms, !.id = count]
  <2>3. count \in Nat /\ ms \in Nat
    <3>1. count \in Nat /\ EPOCH_MS \in Nat /\ Jumps \subseteq Nat
      BY ControlAssumption
    <3>. DEFINE length == count * EPOCH_MS
                clock == clock_timestamp_ms
    <3>2. length \in Nat
      BY <3>1
    <3>3. ms \in {clock + length} \cup {clock + j : j \in Jumps} /\ clock \in Nat
      BY <1>a, <2>2
    <3>. HIDE DEF length, clock
    <3>. QED BY <3>1, <3>2, <3>3
  <2>4. /\ DOMAIN l = DOMAIN IdleCall /\ l.pc = "advance_start" /\ l.ms = ms
        /\ l.id = count /\ l.epoch = 0 /\ l.start = 0
    BY LocalNames DEF IdleCall
  <2>5. Arrive(p, "epoch_advance", l) /\ UNCHANGED <<memory, file, crashes, now>>
    BY <1>6, <2>2 DEF EpochAdvance
  <2>. HIDE DEF l
  <2>6. Carries(l, l.pc, "epoch_advance", next_snapshot, now)
    BY <2>3, <2>4, LocalNames DEF Carries
  <2>. QED BY <1>0, <2>5, <2>6, ArriveStep DEF memory
<1>7. CASE AdvanceStart(p)
  <2>1. c.ms \in Nat /\ Carries(c, "advance_epoch", c.op, next_snapshot, now)
    BY <1>1, <1>7 DEF AdvanceStart, At, LocalsOK, Carries
  <2>. QED BY <1>0, <1>7, <2>1, GotoStep DEF AdvanceStart, Private
<1>8. CASE AdvanceEpoch(p)
  <2>. DEFINE e == epoch + c.id
              l == [c EXCEPT !.epoch = e, !.pc = "clock_read"]
  <2>1. /\ Becomes(p, l) /\ epoch' = e /\ c.pc = "advance_epoch"
        /\ UNCHANGED <<state, start, mode, snapshots, next_snapshot, lock, file,
                       requests, crashes, now>>
    BY <1>8 DEF AdvanceEpoch, Private, At
  <2>2. e \in Nat
    BY <1>0, <1>1 DEF LocalsOK, Carries
  <2>. HIDE DEF e
  <2>3. /\ DOMAIN l = DOMAIN c /\ l.pc = "clock_read" /\ l.epoch = e
        /\ \A field \in DOMAIN IdleCall \ {"pc", "epoch"} : l[field] = c[field]
    BY <1>1, LocalNames DEF LocalsOK, Carries
  <2>. HIDE DEF l
  <2>4. LocalsOK(l, next_snapshot, now)
    BY <1>1, <2>1, <2>2, <2>3, LocalNames DEF LocalsOK, Carries
  <2>5. requests' =< MaxRequests
    BY <2>1, RequestsAssumption DEF TypeInv, CountersOK
  <2>. QED BY <1>0, <2>1, <2>2, <2>3, <2>4, <2>5, PlainStep
<1>9. CASE SyncLoads(p)
  <2>1. UNCHANGED <<memory, file, requests, crashes, now>>
    BY <1>9 DEF SyncLoads, Private
  <2>2. ASSUME NEW pc \in {"sync_read", "set_auto"}, Goto(p, pc),
               c.pc \in {"sync_load", "sync_read"}
        PROVE  TypeInv'
    <3>1. Carries(c, pc, c.op, next_snapshot, now)
      BY <1>1, <2>2 DEF LocalsOK, Carries
    <3>. QED BY <1>0, <2>1, <2>2, <3>1, GotoStep DEF memory
  <2>. DEFINE obj == Current(state, SystemInner)
              l == [c EXCEPT !.obj = obj, !.pc = "sync_write"]
  <2>3. ASSUME At(p, "sync_read"), Becomes(p, l)
        PROVE  TypeInv'
    <3>1. obj \in Object
      BY <1>0, ReadTyped, SystemObjectsAssumption
    <3>. HIDE DEF obj
    <3>2. /\ DOMAIN l = DOMAIN c /\ l.pc = "sync_write" /\ l.obj = obj
          /\ \A field \in DOMAIN IdleCall \ {"pc", "obj"} : l[field] = c[field]
      BY <1>1, LocalNames DEF LocalsOK, Carries
    <3>. HIDE DEF l
    <3>3. LocalsOK(l, next_snapshot, now)
      BY <1>1, <2>3, <3>1, <3>2, LocalNames DEF At, LocalsOK, Carries
    <3>. QED BY <2>1, <2>3, <3>2, <3>3, ReadStep
  <2>. QED BY <1>9, <2>2, <2>3 DEF SyncLoads, At
<1>10. CASE SyncWrites(p)
  <2>1. c.obj \in Object /\ <<c.epoch, c.ms>> \in Data
    BY <1>1, <1>10 DEF SyncWrites, At, LocalsOK, Carries, Unbounded
  <2>2. state' \in Overlays
    BY <1>0, <1>10, <2>1, BumpedTyped, WriteTyped DEF SyncWrites
  <2>3. Carries(c, "set_auto", c.op, next_snapshot, now)
    BY <1>1 DEF LocalsOK, Carries
  <2>. QED BY <1>0, <1>10, <2>2, <2>3, GotoStep DEF SyncWrites, Private
<1>11. CASE SetContents(p)
  <2>. DEFINE old == Current(state, Override)
  <2>1. PICK bump \in Bump :
          Arrive(p, "set_contents", [IdleCall EXCEPT
              !.pc = "contents_write",
              !.obj = IF bump THEN Bumped(old, <<0>>) ELSE [old EXCEPT !.data = <<0>>]])
    BY <1>11 DEF SetContents
  <2>2. old \in Object
    BY <1>0, ReadTyped, ControlAssumption
  <2>. HIDE DEF old
  <2>. DEFINE obj == IF bump THEN Bumped(old, <<0>>) ELSE [old EXCEPT !.data = <<0>>]
              l == [IdleCall EXCEPT !.pc = "contents_write", !.obj = obj]
  <2>3. Arrive(p, "set_contents", l) /\ UNCHANGED <<memory, file, crashes, now>>
    BY <1>11, <2>1 DEF SetContents
  <2>4. obj \in Object
    <3>1. <<0>> \in Data
      BY DEF Unbounded
    <3>2. [old EXCEPT !.data = <<0>>] \in Object
      BY <2>2, <3>1 DEF Object
    <3>. QED BY <2>2, <3>1, <3>2, BumpedTyped
  <2>. HIDE DEF obj
  <2>5. /\ DOMAIN l = DOMAIN IdleCall /\ l.pc = "contents_write" /\ l.obj = obj
        /\ l.ms = 0 /\ l.id = 0 /\ l.epoch = 0 /\ l.start = 0
    BY LocalNames DEF IdleCall
  <2>. HIDE DEF l
  <2>6. Carries(l, l.pc, "set_contents", next_snapshot, now)
    BY <2>4, <2>5 DEF Carries
  <2>. QED BY <1>0, <2>3, <2>6, ArriveStep DEF memory
<1>12. CASE WriteContents(p)
  <2>1. c.obj \in Object
    BY <1>1, <1>12 DEF WriteContents, At, LocalsOK, Carries
  <2>2. state' \in Overlays
    BY <1>0, <1>12, <2>1, WriteTyped DEF WriteContents
  <2>. QED BY <1>0, <1>12, <2>2, ReturnStep DEF WriteContents, Private
<1>b. ASSUME NEW op, op # "execute"
      PROVE  Carries(IdleCall, IdleCall.pc, op, next_snapshot, now)
  BY <1>b DEF Carries, IdleCall
<1>13. CASE Fund(p)
  <2>1. PICK id \in Coins :
           state' = set_object(state, [id |-> id, version |-> 1, data |-> <<1>>])
    BY <1>13 DEF Fund
  <2>2. [id |-> id, version |-> 1, data |-> <<1>>] \in Object
    BY <2>1, ControlAssumption DEF Unbounded, Object
  <2>3. state' \in Overlays
    BY <1>0, <2>1, <2>2, WriteTyped
  <2>. QED BY <1>13, <1>b, <2>3, ArriveStep DEF Fund
<1>14. CASE Refused(p)
  BY <1>0, <1>14, <1>b, ArriveStep DEF Refused, memory
<1>. QED BY <1>2, <1>3, <1>4, <1>5, <1>6, <1>7, <1>8, <1>9, <1>10, <1>11, <1>12, <1>13,
            <1>14 DEF ControlHandlers

-----------------------------------------------------------------------------

\* The clock anchor the server starts with is a mode.
LEMMA AnchorsTyped ==
    ASSUME Unbounded, now \in Nat, NEW ms \in StartupAnchors
    PROVE  AutoMode(ms) \in Modes(now)
<1>1. Current(Default, Clock) = Mainnet[Clock][AtFork]
  BY CurrentIs, SystemObjectsAssumption DEF Default
<1>2. ms \in Nat
  BY <1>1, DefaultTyped, ClockTyped DEF StartupAnchors
<1>. QED BY <1>2 DEF AutoMode, Modes

\* A server starts without snapshots.
LEMMA NothingCopied ==
    /\ NoSnapshots \in [SnapshotId -> Maybe(Copies(now))]
    /\ \A i \in SnapshotId : NoSnapshots[i] = None
BY DEF NoSnapshots, Maybe

\* No thread is inside a handler.
LEMMA AllIdle ==
    ASSUME call' = [p \in Client |-> IdleCall]
    PROVE  Drawing' = {} /\ ThreadsOK'
<1>1. \A p \in Client : LocalsOK(call'[p], next_snapshot', now') /\ call'[p].pc = "idle"
  BY IdleOK DEF IdleCall
<1>2. Drawing' = {}
  BY <1>1 DEF Drawing, DrawPcs
<1>. QED BY <1>1, <1>2 DEF ThreadsOK

\* A server starts with the types right.
LEMMA InitTypes == Unbounded /\ Init => TypeInv
<1>. SUFFICES ASSUME Unbounded, Init PROVE TypeInv
  OBVIOUS
<1>1. /\ state \in Overlays /\ epoch \in Nat /\ start \in Nat /\ mode \in Modes(now)
      /\ file \in Files
  BY DefaultTyped, NumbersAssumption, AnchorsTyped DEF Init, Files
<1>2. CountersOK
  BY RequestsAssumption, NumbersAssumption DEF Init, CountersOK, Maybe
<1>3. SnapshotsOK
  BY NothingCopied DEF Init, SnapshotsOK
<1>4. \A p \in Client : LocalsOK(call[p], next_snapshot, now) /\ call[p].pc = "idle"
  BY IdleOK DEF Init, IdleCall
<1>5. Drawing = {}
  BY <1>4 DEF Drawing, DrawPcs
<1>6. IdsSuffice
  BY <1>5, FS_EmptySet DEF Init, IdsSuffice
<1>. QED BY <1>1, <1>2, <1>3, <1>4, <1>6 DEF TypeInv, ThreadsOK, Init

\* A server started again remembers nothing but the file.
LEMMA RestartTypes ==
    ASSUME TypeInv, Unbounded, Restart
    PROVE  TypeInv'
<1>0. now \in Nat /\ now' = now /\ requests \in Nat /\ requests' = requests
  BY RequestsAssumption DEF TypeInv, CountersOK, Restart
<1>1. /\ state' \in Overlays /\ epoch' \in Nat /\ start' \in Nat /\ mode' \in Modes(now)
      /\ file' \in Files
  BY <1>0, DefaultTyped, NumbersAssumption, AnchorsTyped DEF Restart, TypeInv
<1>2. CountersOK'
  BY NumbersAssumption DEF Restart, TypeInv, CountersOK, Maybe
<1>3. SnapshotsOK'
  BY <1>0, NothingCopied DEF Restart, SnapshotsOK
<1>4. Drawing' = {} /\ ThreadsOK'
  BY AllIdle DEF Restart
<1>5. IdsSuffice'
  BY <1>0, <1>4, FS_EmptySet DEF Restart, IdsSuffice
<1>. QED BY <1>0, <1>1, <1>2, <1>3, <1>4, <1>5 DEF TypeInv

\* Passing time keeps the types.
LEMMA TickTypes ==
    ASSUME TypeInv, Tick
    PROVE  TypeInv'
<1>0. /\ now \in Nat /\ now' \in Nat /\ now =< now' /\ next_snapshot \in Nat
      /\ UNCHANGED <<memory, file, call, requests, crashes>>
  BY NumbersAssumption DEF TypeInv, CountersOK, IdsSuffice, Tick
<1>1. Modes(now) \subseteq Modes(now')
  BY <1>0 DEF Modes
<1>2. SnapshotsOK'
  BY <1>0, CopiesLast DEF TypeInv, memory
<1>3. ThreadsOK'
  BY <1>0, LocalsLast DEF TypeInv, ThreadsOK, memory
<1>. QED BY <1>0, <1>1, <1>2, <1>3 DEF TypeInv, CountersOK, IdsSuffice, Drawing, memory

\* Every step keeps the types.
LEMMA NextTypes ==
    ASSUME TypeInv, Unbounded, [Next]_vars
    PROVE  TypeInv'
<1>1. ASSUME NEW p \in Client, Step(p)
      PROVE  TypeInv'
  <2>1. CASE SnapshotHandlers(p)
    BY <2>1, TakeTypes, RevertTypes, DumpTypes DEF SnapshotHandlers
  <2>. QED BY <1>1, <2>1, SetClockTypes, ExecuteTypes, ControlTypes DEF Step
<1>2. CASE Done \/ UNCHANGED vars
  <2>1. UNCHANGED <<memory, file, call, requests, crashes, now>>
    BY <1>2 DEF Done, vars
  <2>. QED BY <2>1 DEF TypeInv, CountersOK, IdsSuffice, Drawing, memory, SnapshotsOK,
         ThreadsOK
<1>. QED BY <1>1, <1>2, TickTypes, RestartTypes DEF Next

\* The types are right in every behaviour.
LEMMA TypeInvariance ==
    ASSUME Unbounded
    PROVE  Spec => []TypeInv
<1>1. TypeInv /\ [Next]_vars => TypeInv'
  BY NextTypes
<1>. QED BY <1>1, InitTypes, PTL DEF Spec

-----------------------------------------------------------------------------

\* Whatever clients ask for at the same time, and however requests fail, are
\* dropped or are cut off: every variable keeps its type, a snapshot is filed
\* under an id that was handed out, and the ids never run out.
THEOREM TypeCorrect ==
    ASSUME Unbounded
    PROVE  Spec => []TypeOK
<1>1. TypeInv => TypeOK
  <2>. SUFFICES ASSUME TypeInv PROVE TypeOK
    OBVIOUS
  <2>1. state \in OverlayState
    BY DEF TypeInv, Overlays
  <2>2. mode \in [kind : {"Auto", "Fixed", "Frozen"}, ms : Nat, at : 0 .. now]
    BY DEF TypeInv, Modes
  <2>3. next_snapshot \in SnapshotId
    <3>1. Cardinality(Drawing) \in Nat
      BY FS_CardinalityType DEF TypeInv, IdsSuffice
    <3>. QED BY <3>1, RequestsAssumption DEF TypeInv, IdsSuffice, CountersOK, SnapshotId
  <2>4. Copies(now) \subseteq Snapshot
    BY DEF Copies, Snapshot, Modes, Overlays, TypeInv, CountersOK
  <2>5. snapshots \in [SnapshotId -> Maybe(Snapshot)]
    BY <2>4 DEF TypeInv, SnapshotsOK, Maybe
  <2>. QED BY <2>1, <2>2, <2>3, <2>5 DEF TypeInv, TypeOK, SnapshotsOK, CountersOK
<1>. QED BY <1>1, TypeInvariance, PTL

\* Nor is the overlay ever left incoherent, by handlers that interleave as they
\* will: an object is filed under its own id and is live or deleted, the order
\* lists each recorded transaction once, in the live overlay, in every snapshot
\* and in what a dump on disk gives back.
THEOREM OverlaysCoherent ==
    ASSUME Unbounded
    PROVE  Spec => [](/\ Coherent(state)
                      /\ \A i \in SnapshotId :
                            snapshots[i] # None => Coherent(snapshots[i].overlay)
                      /\ FileIsDump => Coherent(import(file.overlay)))
<1>1. ASSUME TypeInv
      PROVE  /\ Coherent(state)
             /\ \A i \in SnapshotId :
                   snapshots[i] # None => Coherent(snapshots[i].overlay)
             /\ FileIsDump => Coherent(import(file.overlay))
  <2>1. Coherent(state)
    BY <1>1 DEF TypeInv, Overlays
  <2>2. ASSUME NEW i \in SnapshotId, snapshots[i] # None
        PROVE  Coherent(snapshots[i].overlay)
    <3>1. snapshots[i] \in Copies(now)
      BY <1>1, <2>2 DEF TypeInv, SnapshotsOK, Maybe
    <3>. QED BY <3>1 DEF Copies, Overlays
  <2>3. ASSUME FileIsDump
        PROVE  Coherent(import(file.overlay))
    <3>1. file.overlay \in Dumps
      BY <1>1, <2>3 DEF TypeInv, Files, FileIsDump, NoFile, Torn
    <3>. QED BY <3>1, ImportTyped DEF Overlays
  <2>. QED BY <2>1, <2>2, <2>3
<1>. QED BY <1>1, TypeInvariance, PTL
=============================================================================
