---------------------------- MODULE ServerProofs ----------------------------
(***************************************************************************)
(* No update is lost and copies hold whole transactions, for any number of *)
(* clients inside any handlers that do not roll the fork back: proofs.     *)
(* With a handler that does, TLC refutes the first (run                    *)
(* revert_during_execute), so the theorems assume there is none.           *)
(***************************************************************************)
EXTENDS Server, OverlayProofs, FiniteSetTheorems

\* Nobody replaces the overlay, nor overwrites the object the transactions
\* count in.
NoRollbacks ==
    /\ Handlers \cap {"revert", "reset", "state_load"} = {}
    /\ "set_contents" \in Handlers => Override # Shared

-----------------------------------------------------------------------------
(* The inductive invariant. *)

HasFields(object) == {"id", "version", "data"} \subseteq DOMAIN object

\* The absent entry is no object, nor a transaction record.
NoneIsNoRecord ==
    /\ ~HasFields(None)
    /\ \A success, e, s, ms :
          [success |-> success, epoch |-> e, start |-> s, ms |-> ms] # None

\* The overlay is made of well-formed maps, nothing is deleted, every record
\* is of a request made, and the shared object counts the successes.
StateOK ==
    /\ DOMAIN state = {"objects", "tombstones", "transactions",
                       "executed_order", "address_balances"}
    /\ DOMAIN state.objects = ObjectID
    /\ DOMAIN state.transactions = Digest
    /\ state.tombstones = {}
    /\ \A id \in ObjectID : state.objects[id] # None =>
          HasFields(state.objects[id]) /\ state.objects[id].id = id
    /\ \A d \in Digest : state.transactions[d] # None => d \in 1 .. requests
    /\ CountsTransactions(state)

ClockPcs == {"clock_read", "clock_write"}
AdvancePcs == {"advance_start", "advance_epoch"}
InputsRead == {"read_clock", "read_epoch", "read_start", "commit"}
Critical == {"read_shared"} \cup InputsRead
SnapshotPcs == {"snap_epoch", "snap_start", "snap_mode", "snap_id", "snap_insert"}
FilePcs == {"dump_open", "dump_write"}
OtherPcs == {"idle", "fix_mode", "dump_start", "dump_clock",
             "dump_overlay", "set_auto", "set_frozen", "sync_load", "sync_read"}
WritePcs == {"sync_write", "contents_write"}

\* Where the thread of p is, and what it carries there.
ThreadOK(p) ==
    /\ DOMAIN call[p] = DOMAIN IdleCall
    /\ call[p].pc \in {"lock"} \cup ClockPcs \cup AdvancePcs \cup Critical
                      \cup SnapshotPcs \cup FilePcs \cup OtherPcs \cup WritePcs
    /\ call[p].pc \in ClockPcs => call[p].op \in
          {"execute", "clock_set", "clock_advance", "epoch_advance"}
    /\ call[p].pc \in AdvancePcs => call[p].op = "epoch_advance"
    /\ call[p].pc = "lock" => call[p].op = "execute"
    /\ call[p].pc \in {"clock_write"} \cup WritePcs =>
          /\ HasFields(call[p].obj)
          /\ call[p].obj.id \in ObjectID \ {Shared}
    /\ call[p].pc \in SnapshotPcs =>
          call[p].op = "snapshot" /\ CountsTransactions(call[p].overlay)
    /\ call[p].pc \in FilePcs => CountsTransactions(import(call[p].overlay))

\* Whoever is inside Fork::execute holds the lock, and once it has read the
\* shared object it has the current one.
Exclusive(p) ==
    call[p].pc \in Critical =>
        /\ lock = p
        /\ call[p].op = "execute"
        /\ call[p].pc \in InputsRead => call[p].obj = Current(state, Shared)

\* A transaction under way is not recorded.
Unrecorded(p) ==
    call[p].op = "execute" =>
        /\ call[p].id \in 1 .. requests
        /\ state.transactions[call[p].id] = None

\* No two transactions under way are the same.
Distinct(p, q) ==
    p # q /\ call[p].op = "execute" /\ call[q].op = "execute"
        => call[p].id # call[q].id

ThreadsOK ==
    /\ DOMAIN call = Client
    /\ \A p \in Client : ThreadOK(p) /\ Exclusive(p) /\ Unrecorded(p)
    /\ \A p, q \in Client : Distinct(p, q)

Inv ==
    /\ requests \in 0 .. MaxRequests
    /\ StateOK
    /\ ThreadsOK
    /\ DOMAIN snapshots = SnapshotId
    /\ CopiesAreWhole

-----------------------------------------------------------------------------
(* The state. *)

\* An object mainnet has is there, whole and under its id.
LEMMA CurrentFound ==
    ASSUME StateOK, NEW id \in ObjectID, Mainnet[id][AtFork] # None
    PROVE  /\ Current(state, id) # None
           /\ HasFields(Current(state, id))
           /\ Current(state, id).id = id
<1>1. AtFork \in Query
  BY DEF AtFork, Query
<1>2. Mainnet[id][AtFork] \in Object /\ Mainnet[id][AtFork].id = id
  BY <1>1, MainnetAssumption DEF Maybe
<1>3. HasFields(Mainnet[id][AtFork])
  BY <1>2 DEF Object, HasFields
<1>. QED BY <1>2, <1>3, CurrentIs DEF StateOK

\* The successes counted are finitely many.
LEMMA SuccessesFinite ==
    ASSUME StateOK, requests \in Nat
    PROVE  /\ IsFiniteSet(Successes(state))
           /\ Cardinality(Successes(state)) \in Nat
<1>1. IsFiniteSet(1 .. requests)
  BY FS_Interval
<1>2. Successes(state) \subseteq 1 .. requests
  BY DEF Successes, StateOK
<1>. QED BY <1>1, <1>2, FS_Subset, FS_CardinalityType

\* Requests that do not touch the overlay leave it well-formed.
LEMMA StateKept ==
    ASSUME StateOK, requests \in Nat, requests' \in {requests, requests + 1},
           state' = state
    PROVE  StateOK'
<1>1. CountsTransactions(state)'
  BY DEF StateOK, CountsTransactions, Successes
<1>. QED BY <1>1 DEF StateOK

\* A cheat's write elsewhere leaves what is counted alone.
LEMMA SetElsewhere ==
    ASSUME StateOK, requests \in Nat, requests' \in {requests, requests + 1},
           NEW object, HasFields(object), object.id \in ObjectID \ {Shared},
           state' = set_object(state, object)
    PROVE  /\ StateOK'
           /\ Current(state', Shared) = Current(state, Shared)
           /\ state'.transactions = state.transactions
<1>1. /\ DOMAIN state' = DOMAIN state
      /\ state'.objects = [state.objects EXCEPT ![object.id] = object]
      /\ state'.tombstones = {}
      /\ state'.transactions = state.transactions
  BY DEF StateOK, set_object
<1>2. state'.objects[Shared] = state.objects[Shared]
  BY <1>1, SharedAssumption DEF StateOK
<1>3. Current(state', Shared) = Current(state, Shared)
  BY <1>1, <1>2, CurrentIs DEF StateOK
<1>4. CountsTransactions(state')
  BY <1>1, <1>3 DEF StateOK, CountsTransactions, Successes
<1>5. \A id \in ObjectID : state'.objects[id] # None =>
          HasFields(state'.objects[id]) /\ state'.objects[id].id = id
  BY <1>1 DEF StateOK
<1>6. \A d \in Digest : state'.transactions[d] # None => d \in 1 .. requests'
  BY <1>1 DEF StateOK
<1>. QED BY <1>1, <1>3, <1>4, <1>5, <1>6 DEF StateOK, CountsTransactions, Successes

\* The fork point: nothing executed, and the counter at 0.
LEMMA DefaultCounts == CountsTransactions(Default)
<1>1. Successes(Default) = {}
  BY DEF Successes, Default
<1>2. Current(Default, Shared) = Mainnet[Shared][AtFork]
  BY CurrentIs, SharedAssumption DEF Default
<1>. QED BY <1>1, <1>2, SharedAssumption, FS_EmptySet DEF CountsTransactions

\* The empty overlay meets the invariant.
LEMMA DefaultOK ==
    ASSUME state' = Default
    PROVE  StateOK'
<1>1. CountsTransactions(state')
  BY DefaultCounts
<1>2. CountsTransactions(state)'
  BY <1>1 DEF CountsTransactions, Successes
<1>. QED BY <1>2 DEF StateOK, Default

\* A dump of the overlay counts what the overlay counts.
LEMMA ExportCounts ==
    ASSUME StateOK
    PROVE  CountsTransactions(import(export(state)))
<1>. DEFINE t == import(export(state))
<1>1. KeyedById(state)
  BY DEF StateOK, KeyedById
<1>2. t.objects[Shared] = state.objects[Shared]
  BY <1>1, ObjectsRoundTrip, SharedAssumption
<1>3. t.tombstones = state.tombstones
  BY DEF import, export
<1>4. \A d \in Digest : t.transactions[d] = state.transactions[d]
  BY TransactionsRoundTrip
<1>. HIDE DEF t
<1>5. Current(t, Shared) = Current(state, Shared)
  BY <1>2, <1>3, CurrentIs, SharedAssumption
<1>6. Successes(t) = Successes(state)
  BY <1>4 DEF Successes
<1>. QED BY <1>5, <1>6 DEF StateOK, CountsTransactions, t

-----------------------------------------------------------------------------
(* The threads. *)

\* What one thread does is no concern of the others, as long as the shared
\* object, the records and a lock held by another stay what they are.
LEMMA ThreadStep ==
    ASSUME Inv, NEW p \in Client,
           requests' \in {requests, requests + 1}, requests' =< MaxRequests,
           Current(state', Shared) = Current(state, Shared),
           state'.transactions = state.transactions,
           DOMAIN call' = Client,
           \A q \in Client \ {p} : call'[q] = call[q],
           \A q \in Client \ {p} : lock = q => lock' = q,
           ThreadOK(p)', Exclusive(p)',
           call'[p].op = "execute" =>
              \/ call[p].op = "execute" /\ call'[p].id = call[p].id
              \/ call'[p].id = requests + 1 /\ requests' = requests + 1
    PROVE  ThreadsOK'
<1>0. requests \in Nat /\ MaxRequests \in Nat
  BY RequestsAssumption DEF Inv
<1>1. ASSUME NEW q \in Client, q # p
      PROVE  ThreadOK(q)' /\ Exclusive(q)' /\ Unrecorded(q)'
  <2>1. call'[q] = call[q]
    BY <1>1
  <2>2. ThreadOK(q) /\ Exclusive(q) /\ Unrecorded(q)
    BY DEF Inv, ThreadsOK
  <2>3. ThreadOK(q)'
    BY <2>1, <2>2 DEF ThreadOK, CountsTransactions, Successes
  <2>4. Exclusive(q)'
    BY <1>1, <2>1, <2>2 DEF Exclusive
  <2>5. Unrecorded(q)'
    BY <1>0, <2>1, <2>2 DEF Unrecorded
  <2>. QED BY <2>3, <2>4, <2>5
<1>2. Unrecorded(p)'
  <2>1. Unrecorded(p)
    BY DEF Inv, ThreadsOK
  <2>2. requests + 1 \in 1 .. MaxRequests => state.transactions[requests + 1] = None
    BY <1>0, RequestsAssumption DEF Inv, StateOK
  <2>. QED BY <1>0, <2>1, <2>2 DEF Unrecorded
<1>3. ASSUME NEW q \in Client, NEW r \in Client
      PROVE  Distinct(q, r)'
  <2>1. Distinct(q, r) /\ Distinct(r, q) /\ Unrecorded(q) /\ Unrecorded(r)
    BY DEF Inv, ThreadsOK
  <2>2. \A x \in {q, r} : x # p => call'[x] = call[x]
    OBVIOUS
  <2>. QED BY <1>0, <2>1, <2>2 DEF Distinct, Unrecorded
<1>. QED BY <1>1, <1>2, <1>3 DEF ThreadsOK

\* The copies are what they were.
LEMMA CopiesKept ==
    ASSUME CopiesAreWhole, UNCHANGED <<snapshots, file>>
    PROVE  CopiesAreWhole'
BY DEF CopiesAreWhole, CountsTransactions, Successes, FileIsDump

\* A step of one thread that leaves overlay and copies alone, and a lock held
\* by another.
LEMMA QuietStep ==
    ASSUME Inv, NEW p \in Client,
           UNCHANGED <<state, snapshots, file>>,
           \A q \in Client \ {p} : lock = q => lock' = q,
           requests' \in {requests, requests + 1}, requests' =< MaxRequests,
           DOMAIN call' = Client,
           \A q \in Client \ {p} : call'[q] = call[q],
           ThreadOK(p)', Exclusive(p)',
           call'[p].op = "execute" =>
              \/ call[p].op = "execute" /\ call'[p].id = call[p].id
              \/ call'[p].id = requests + 1 /\ requests' = requests + 1
    PROVE  Inv'
<1>1. requests \in Nat /\ MaxRequests \in Nat /\ requests' \in 0 .. MaxRequests
  BY RequestsAssumption DEF Inv
<1>2. StateOK'
  BY <1>1, StateKept DEF Inv
<1>3. ThreadsOK'
  BY ThreadStep
<1>. QED BY <1>1, <1>2, <1>3, CopiesKept DEF Inv

\* A step of one thread that writes an object other than the shared one.
LEMMA WriteStep ==
    ASSUME Inv, NEW p \in Client, NEW object,
           HasFields(object), object.id \in ObjectID \ {Shared},
           state' = set_object(state, object),
           UNCHANGED <<lock, snapshots, file>>,
           requests' \in {requests, requests + 1}, requests' =< MaxRequests,
           DOMAIN call' = Client,
           \A q \in Client \ {p} : call'[q] = call[q],
           ThreadOK(p)', call'[p].pc \notin Critical,
           call'[p].op = "execute" =>
              call[p].op = "execute" /\ call'[p].id = call[p].id
    PROVE  Inv'
<1>1. requests \in Nat /\ MaxRequests \in Nat /\ requests' \in 0 .. MaxRequests
  BY RequestsAssumption DEF Inv
<1>2. /\ StateOK'
      /\ Current(state', Shared) = Current(state, Shared)
      /\ state'.transactions = state.transactions
  BY <1>1, SetElsewhere DEF Inv
<1>3. Exclusive(p)'
  BY DEF Exclusive
<1>4. ThreadsOK'
  BY <1>2, <1>3, ThreadStep
<1>. QED BY <1>1, <1>2, <1>4, CopiesKept DEF Inv

\* Nothing is asked of a thread outside of the places named.
LEMMA InOther ==
    ASSUME NEW p \in Client, DOMAIN call'[p] = DOMAIN IdleCall,
           call'[p].pc \in OtherPcs
    PROVE  ThreadOK(p)' /\ Exclusive(p)' /\ call'[p].pc \notin Critical
BY DEF ThreadOK, Exclusive, ClockPcs, AdvancePcs, Critical, InputsRead, SnapshotPcs,
       FilePcs, OtherPcs, WritePcs

\* What is to show of a client that waits for the sequencer.
LEMMA InLock ==
    ASSUME NEW p \in Client, DOMAIN call'[p] = DOMAIN IdleCall,
           call'[p].pc = "lock", call'[p].op = "execute"
    PROVE  ThreadOK(p)' /\ Exclusive(p)' /\ call'[p].pc \notin Critical
BY DEF ThreadOK, Exclusive, ClockPcs, AdvancePcs, Critical, InputsRead, SnapshotPcs,
       FilePcs, OtherPcs, WritePcs

\* What is to show of a client that refreshes the clock.
LEMMA InClock ==
    ASSUME NEW p \in Client, DOMAIN call'[p] = DOMAIN IdleCall,
           call'[p].pc \in {"clock_read"} \cup AdvancePcs,
           call'[p].pc \in AdvancePcs => call'[p].op = "epoch_advance",
           call'[p].op \in {"execute", "clock_set", "clock_advance", "epoch_advance"}
    PROVE  ThreadOK(p)' /\ Exclusive(p)'
BY DEF ThreadOK, Exclusive, ClockPcs, AdvancePcs, Critical, InputsRead, SnapshotPcs,
       FilePcs, OtherPcs, WritePcs

\* What is to show of the client that holds the sequencer.
LEMMA InCritical ==
    ASSUME NEW p \in Client, DOMAIN call'[p] = DOMAIN IdleCall,
           call'[p].pc \in Critical,
           lock' = p, call'[p].op = "execute",
           call'[p].pc \in InputsRead => call'[p].obj = Current(state', Shared)
    PROVE  ThreadOK(p)' /\ Exclusive(p)'
<1>1. ThreadOK(p)'
  BY DEF ThreadOK, ClockPcs, AdvancePcs, Critical, InputsRead, SnapshotPcs,
         FilePcs, OtherPcs, WritePcs
<1>2. Exclusive(p)'
  BY DEF Exclusive
<1>. QED BY <1>1, <1>2

\* What is to show of a client about to write a cheat's object.
LEMMA InWrite ==
    ASSUME NEW p \in Client, DOMAIN call'[p] = DOMAIN IdleCall,
           call'[p].pc \in WritePcs,
           HasFields(call'[p].obj), call'[p].obj.id \in ObjectID \ {Shared}
    PROVE  ThreadOK(p)' /\ Exclusive(p)'
BY DEF ThreadOK, Exclusive, HasFields, ClockPcs, AdvancePcs, Critical, InputsRead,
       SnapshotPcs, FilePcs, OtherPcs, WritePcs

\* What is to show of a client that takes a snapshot.
LEMMA InSnapshot ==
    ASSUME NEW p \in Client, DOMAIN call'[p] = DOMAIN IdleCall,
           call'[p].pc \in SnapshotPcs, call'[p].op = "snapshot",
           CountsTransactions(call'[p].overlay)
    PROVE  ThreadOK(p)' /\ Exclusive(p)'
BY DEF ThreadOK, Exclusive, CountsTransactions, Successes, ClockPcs, AdvancePcs,
       Critical, InputsRead, SnapshotPcs, FilePcs, OtherPcs, WritePcs

\* What is to show of a client that writes or reads a state file.
LEMMA InFile ==
    ASSUME NEW p \in Client, DOMAIN call'[p] = DOMAIN IdleCall,
           call'[p].pc \in FilePcs, CountsTransactions(import(call'[p].overlay))
    PROVE  ThreadOK(p)' /\ Exclusive(p)'
BY DEF ThreadOK, Exclusive, CountsTransactions, Successes, ClockPcs, AdvancePcs,
       Critical, InputsRead, SnapshotPcs, FilePcs, OtherPcs, WritePcs

\* A request that has arrived.
LEMMA Arrival ==
    ASSUME Inv, NEW p \in Client, NEW op, NEW locals, Arrive(p, op, locals),
           DOMAIN locals = DOMAIN IdleCall
    PROVE  /\ requests' = requests + 1 /\ requests' =< MaxRequests
           /\ DOMAIN call' = Client
           /\ \A q \in Client \ {p} : call'[q] = call[q]
           /\ call'[p] = [locals EXCEPT !.op = op]
           /\ DOMAIN call'[p] = DOMAIN IdleCall
           /\ op \in Handlers
<1>1. requests \in Nat /\ MaxRequests \in Nat /\ DOMAIN call = Client
  BY RequestsAssumption DEF Inv, ThreadsOK
<1>. QED BY <1>1 DEF Arrive

\* A request that has arrived, touched nothing and is not a transaction.
LEMMA Arrived ==
    ASSUME Inv, NEW p \in Client, NEW op, NEW locals, Arrive(p, op, locals),
           DOMAIN locals = DOMAIN IdleCall, op # "execute",
           UNCHANGED <<memory, file>>, locals.pc \in OtherPcs
    PROVE  Inv'
<1>0. requests \in Nat /\ MaxRequests \in Nat
  BY RequestsAssumption DEF Inv
<1>1. /\ requests' = requests + 1 /\ requests' =< MaxRequests
      /\ DOMAIN call' = Client
      /\ \A q \in Client \ {p} : call'[q] = call[q]
      /\ call'[p] = [locals EXCEPT !.op = op]
      /\ DOMAIN call'[p] = DOMAIN IdleCall
  BY Arrival
<1>2. call'[p].pc = locals.pc /\ call'[p].op = op
  BY <1>1 DEF IdleCall
<1>3. ThreadOK(p)' /\ Exclusive(p)'
  BY <1>1, <1>2, InOther
<1>. QED BY <1>0, <1>1, <1>2, <1>3, QuietStep DEF memory

\* A thread that is done.
LEMMA Returned ==
    ASSUME Inv, NEW p \in Client, Return(p)
    PROVE  /\ DOMAIN call' = Client
           /\ \A q \in Client \ {p} : call'[q] = call[q]
           /\ call'[p].pc = "idle" /\ call'[p].op = "none"
           /\ ThreadOK(p)' /\ Exclusive(p)'
<1>1. /\ DOMAIN call' = Client /\ call'[p] = IdleCall
      /\ \A q \in Client \ {p} : call'[q] = call[q]
  BY DEF Return, Inv, ThreadsOK
<1>2. IdleCall.pc = "idle" /\ IdleCall.op = "none"
  BY DEF IdleCall
<1>3. DOMAIN call'[p] = DOMAIN IdleCall /\ call'[p].pc \in OtherPcs
  BY <1>1, <1>2 DEF OtherPcs
<1>. QED BY <1>1, <1>2, <1>3, InOther

\* A thread that goes on with other locals.
LEMMA Changed ==
    ASSUME Inv, NEW p \in Client, NEW locals, Becomes(p, locals)
    PROVE  /\ DOMAIN call' = Client
           /\ \A q \in Client \ {p} : call'[q] = call[q]
           /\ call'[p] = locals
<1>1. DOMAIN call = Client
  BY DEF Inv, ThreadsOK
<1>. QED BY <1>1 DEF Becomes

\* A thread that only moves on.
LEMMA Moved ==
    ASSUME Inv, NEW p \in Client, NEW pc, Goto(p, pc)
    PROVE  /\ DOMAIN call' = Client
           /\ \A q \in Client \ {p} : call'[q] = call[q]
           /\ call'[p] = [call[p] EXCEPT !.pc = pc]
           /\ DOMAIN call'[p] = DOMAIN IdleCall
           /\ call'[p].pc = pc
           /\ \A field \in DOMAIN IdleCall \ {"pc"} : call'[p][field] = call[p][field]
<1>1. DOMAIN call = Client /\ DOMAIN call[p] = DOMAIN IdleCall
  BY DEF Inv, ThreadsOK, ThreadOK
<1>2. "pc" \in DOMAIN IdleCall
  BY DEF IdleCall
<1>. QED BY <1>1, <1>2 DEF Goto

-----------------------------------------------------------------------------
(* One lemma for the steps of each handler. *)

\* The steps of the clock's refresh preserve the invariant.
LEMMA SetClockStep ==
    ASSUME Inv, NEW p \in Client, SetClock(p)
    PROVE  Inv'
<1>0. requests \in Nat /\ requests =< MaxRequests
  BY RequestsAssumption DEF Inv
<1>1. ThreadOK(p) /\ Exclusive(p) /\ DOMAIN call = Client
  BY DEF Inv, ThreadsOK
<1>2. At(p, "clock_read") \/ At(p, "clock_write") =>
         \/ AfterClock[call[p].op] \in {"fix_mode", "sync_load"}
         \/ AfterClock[call[p].op] = "lock" /\ call[p].op = "execute"
  BY <1>1 DEF ThreadOK, ClockPcs, AfterClock, At
<1>3. CASE ReadClockObject(p)
  <2>. DEFINE obj == Current(state, Clock)
  <2>1. HasFields(obj) /\ obj.id = Clock
    BY CurrentFound, SystemObjectsAssumption DEF Inv
  <2>2. Clock \in ObjectID \ {Shared}
    BY SystemObjectsAssumption, SharedAssumption
  <2>. HIDE DEF obj
  <2>. DEFINE pc == IF obj.data = <<call[p].ms>>
                    THEN AfterClock[call[p].op] ELSE "clock_write"
              locals == [call[p] EXCEPT !.obj = obj, !.pc = pc]
  <2>a. Becomes(p, locals)
    BY <1>3 DEF ReadClockObject, obj
  <2>b. pc \in {"clock_write", AfterClock[call[p].op]}
    OBVIOUS
  <2>. HIDE DEF pc
  <2>c. /\ DOMAIN locals = DOMAIN IdleCall
        /\ locals.op = call[p].op /\ locals.id = call[p].id
        /\ locals.obj = obj /\ locals.pc = pc
    BY <1>1 DEF ThreadOK, IdleCall
  <2>. HIDE DEF locals
  <2>3. /\ DOMAIN call' = Client
        /\ \A q \in Client \ {p} : call'[q] = call[q]
        /\ DOMAIN call'[p] = DOMAIN IdleCall
        /\ call'[p].op = call[p].op /\ call'[p].id = call[p].id
        /\ call'[p].obj = obj
        /\ call'[p].pc \in {"clock_write", AfterClock[call[p].op]}
    BY <2>a, <2>b, <2>c, Changed
  <2>4. ThreadOK(p)'
    BY <1>1, <1>2, <1>3, <2>1, <2>2, <2>3 DEF ReadClockObject, ThreadOK, At, ClockPcs,
       AdvancePcs, Critical, InputsRead, SnapshotPcs, FilePcs, OtherPcs, WritePcs
  <2>5. Exclusive(p)'
    BY <1>2, <1>3, <2>3 DEF ReadClockObject, Exclusive, Critical, InputsRead
  <2>6. UNCHANGED <<state, lock, snapshots, file, requests>>
    BY <1>3 DEF ReadClockObject, Private, memory
  <2>. QED BY <1>0, <2>3, <2>4, <2>5, <2>6, QuietStep
<1>4. CASE ReadClockObjectFails(p)
  <2>1. UNCHANGED <<state, lock, snapshots, file, requests>>
    BY <1>4 DEF ReadClockObjectFails, Private, memory
  <2>2. CASE call[p].op # "execute"
    BY <1>0, <1>4, <2>1, <2>2, Returned, QuietStep DEF ReadClockObjectFails
  <2>3. CASE call[p].op = "execute"
    <3>0. Goto(p, "lock")
      BY <1>4, <2>3 DEF ReadClockObjectFails
    <3>1. call'[p].op = call[p].op /\ call'[p].id = call[p].id
      BY <3>0, Moved DEF IdleCall
    <3>2. ThreadOK(p)' /\ Exclusive(p)'
      BY <2>3, <3>0, <3>1, Moved, InLock
    <3>. QED BY <1>0, <2>1, <3>0, <3>1, <3>2, Moved, QuietStep
  <2>. QED BY <2>2, <2>3
<1>5. CASE WriteClockObject(p)
  <2>. DEFINE obj == Bumped(call[p].obj, <<call[p].ms>>)
  <2>1. HasFields(obj) /\ obj.id \in ObjectID \ {Shared}
    BY <1>1, <1>5 DEF WriteClockObject, ThreadOK, At, Bumped, HasFields
  <2>2. state' = set_object(state, obj) /\ UNCHANGED <<lock, snapshots, file, requests>>
    BY <1>5 DEF WriteClockObject, Private
  <2>. HIDE DEF obj
  <2>3. Goto(p, AfterClock[call[p].op])
    BY <1>5 DEF WriteClockObject
  <2>4. call'[p].pc = AfterClock[call[p].op]
    BY <2>3, Moved
  <2>5. call'[p].op = call[p].op /\ call'[p].id = call[p].id
    BY <2>3, Moved DEF IdleCall
  <2>6. ThreadOK(p)' /\ call'[p].pc \notin Critical
    BY <1>2, <1>5, <2>3, <2>4, <2>5, Moved, InOther, InLock DEF OtherPcs, WriteClockObject
  <2>. QED BY <1>0, <2>1, <2>2, <2>3, <2>5, <2>6, Moved, WriteStep
<1>6. CASE FixMode(p)
  BY <1>0, <1>6, Returned, QuietStep DEF FixMode, Private
<1>7. CASE Dropped(p)
  BY <1>0, <1>7, Returned, QuietStep DEF Dropped, Private, memory
<1>. QED BY <1>3, <1>4, <1>5, <1>6, <1>7 DEF SetClock

\* A snapshot under way keeps the overlay it has taken.
LEMMA SnapshotGoesOn ==
    ASSUME Inv, NEW p \in Client, call[p].pc \in SnapshotPcs,
           NEW locals, Becomes(p, locals), DOMAIN locals = DOMAIN IdleCall,
           locals.pc \in SnapshotPcs, locals.op = call[p].op,
           locals.overlay = call[p].overlay,
           UNCHANGED <<state, lock, snapshots, file, requests>>
    PROVE  Inv'
<1>0. requests \in Nat /\ requests =< MaxRequests
  BY RequestsAssumption DEF Inv
<1>1. call[p].op = "snapshot" /\ CountsTransactions(call[p].overlay)
  BY DEF Inv, ThreadsOK, ThreadOK
<1>2. ThreadOK(p)' /\ Exclusive(p)' /\ call'[p].op = "snapshot"
  BY <1>1, Changed, InSnapshot
<1>. QED BY <1>0, <1>2, Changed, QuietStep

\* Rollbacks are asked for by no client, so none is under way.
LEMMA SnapshotStep ==
    ASSUME Inv, NoRollbacks, NEW p \in Client, SnapshotHandlers(p)
    PROVE  Inv'
<1>0. requests \in Nat /\ requests =< MaxRequests
  BY RequestsAssumption DEF Inv
<1>1. ThreadOK(p) /\ Exclusive(p) /\ DOMAIN call = Client
  BY DEF Inv, ThreadsOK
<1>2. DOMAIN IdleCall = {"pc", "op", "ms", "id", "obj", "epoch", "start", "overlay",
                         "mode", "fork"}
  BY DEF IdleCall
<1>3. CASE TakeSnapshot(p)
  <2>. DEFINE locals == [IdleCall EXCEPT
                !.pc = "snap_epoch", !.overlay = state, !.fork = Fork]
  <2>1. Arrive(p, "snapshot", locals) /\ UNCHANGED <<memory, file>>
    BY <1>3 DEF TakeSnapshot
  <2>2. /\ DOMAIN locals = DOMAIN IdleCall
        /\ locals.pc = "snap_epoch" /\ locals.overlay = state
    BY <1>2
  <2>. HIDE DEF locals
  <2>3. /\ requests' = requests + 1 /\ requests' =< MaxRequests
        /\ DOMAIN call' = Client
        /\ \A q \in Client \ {p} : call'[q] = call[q]
        /\ call'[p] = [locals EXCEPT !.op = "snapshot"]
        /\ DOMAIN call'[p] = DOMAIN IdleCall
    BY <2>1, <2>2, Arrival
  <2>4. /\ call'[p].pc = "snap_epoch" /\ call'[p].overlay = state
        /\ call'[p].op = "snapshot"
    BY <1>2, <2>2, <2>3
  <2>5. ThreadOK(p)' /\ Exclusive(p)'
    BY <2>3, <2>4, InSnapshot DEF SnapshotPcs, Inv, StateOK
  <2>. QED BY <1>0, <2>1, <2>3, <2>4, <2>5, QuietStep DEF memory
<1>4. CASE SnapshotReads(p)
  <2>. DEFINE l1 == [call[p] EXCEPT !.epoch = epoch, !.pc = "snap_start"]
              l2 == [call[p] EXCEPT !.start = start, !.pc = "snap_mode"]
              l3 == [call[p] EXCEPT !.mode = mode, !.pc = "snap_id"]
  <2>1. /\ UNCHANGED <<state, lock, snapshots, file, requests>>
        /\ call[p].pc \in SnapshotPcs
        /\ Becomes(p, l1) \/ Becomes(p, l2) \/ Becomes(p, l3)
    BY <1>4 DEF SnapshotReads, Private, memory, At, SnapshotPcs
  <2>2. \A l \in {l1, l2, l3} :
            /\ DOMAIN l = DOMAIN IdleCall /\ l.pc \in SnapshotPcs
            /\ l.op = call[p].op /\ l.overlay = call[p].overlay
    BY <1>1, <1>2 DEF ThreadOK, SnapshotPcs
  <2>. HIDE DEF l1, l2, l3
  <2>. QED BY <2>1, <2>2, SnapshotGoesOn
<1>5. CASE DrawSnapshotId(p)
  <2>. DEFINE l == [call[p] EXCEPT !.id = next_snapshot, !.pc = "snap_insert"]
  <2>1. /\ UNCHANGED <<state, lock, snapshots, file, requests>>
        /\ call[p].pc \in SnapshotPcs
        /\ Becomes(p, l)
    BY <1>5 DEF DrawSnapshotId, Private, At, SnapshotPcs
  <2>2. /\ DOMAIN l = DOMAIN IdleCall /\ l.pc \in SnapshotPcs
        /\ l.op = call[p].op /\ l.overlay = call[p].overlay
    BY <1>1, <1>2 DEF ThreadOK, SnapshotPcs
  <2>. HIDE DEF l
  <2>. QED BY <2>1, <2>2, SnapshotGoesOn
<1>6. CASE SnapshotInsert(p)
  <2>. DEFINE entry == [overlay |-> call[p].overlay, epoch |-> call[p].epoch,
                        start |-> call[p].start, mode |-> call[p].mode]
  <2>1. /\ UNCHANGED <<state, lock, file, requests>> /\ Return(p)
        /\ call[p].pc = "snap_insert"
        /\ snapshots' = [snapshots EXCEPT ![call[p].id] = entry]
    BY <1>6 DEF SnapshotInsert, Private, At
  <2>2. CountsTransactions(call[p].overlay)
    BY <1>1, <2>1 DEF ThreadOK, SnapshotPcs
  <2>3. entry.overlay = call[p].overlay
    OBVIOUS
  <2>. HIDE DEF entry
  <2>4. StateOK' /\ requests' \in 0 .. MaxRequests
    BY <1>0, <2>1, StateKept DEF Inv
  <2>5. ThreadsOK'
    BY <1>0, <2>1, Returned, ThreadStep
  <2>6. DOMAIN snapshots' = SnapshotId
    BY <2>1 DEF Inv
  <2>7. \A i \in SnapshotId : snapshots'[i] # None =>
            CountsTransactions(snapshots'[i].overlay)
    BY <2>1, <2>2, <2>3 DEF Inv, CopiesAreWhole
  <2>8. CopiesAreWhole'
    BY <2>1, <2>7 DEF Inv, CopiesAreWhole, CountsTransactions, Successes, FileIsDump
  <2>. QED BY <2>4, <2>5, <2>6, <2>8 DEF Inv
<1>7. ~ (Revert(p) \/ RevertRefused(p) \/ Reset(p) \/ Load(p) \/ LoadRefused(p))
  BY DEF NoRollbacks, Revert, RevertRefused, Reset, Load, LoadRefused, Arrive
<1>8. ~ (RevertSteps(p) \/ ResetSteps(p) \/ LoadSteps(p))
  BY <1>1 DEF ThreadOK, RevertSteps, ResetSteps, LoadSteps, ReplaceOverlay, RestoreEpoch,
     RestoreStart, RevertMode, ClearSnapshots, ReadAnchor, ResetMode, At, ClockPcs,
     AdvancePcs, Critical, InputsRead, SnapshotPcs, FilePcs, OtherPcs, WritePcs
<1>9. CASE Dump(p)
  <2>. DEFINE locals == [IdleCall EXCEPT
                !.pc = "dump_start", !.epoch = epoch, !.fork = Fork]
  <2>1. Arrive(p, "state_dump", locals) /\ UNCHANGED <<memory, file>>
    BY <1>9 DEF Dump
  <2>2. DOMAIN locals = DOMAIN IdleCall /\ locals.pc = "dump_start"
    BY <1>2
  <2>. HIDE DEF locals
  <2>. QED BY <2>1, <2>2, Arrived DEF OtherPcs
<1>10. CASE DumpReads(p)
  <2>1. UNCHANGED <<state, lock, snapshots, file, requests>>
    BY <1>10 DEF DumpReads, Private, memory
  <2>2. ASSUME NEW locals, Becomes(p, locals), DOMAIN locals = DOMAIN IdleCall,
               locals.op = call[p].op, locals.id = call[p].id,
               \/ locals.pc \in OtherPcs
               \/ locals.pc = "dump_open" /\ locals.overlay = export(state)
        PROVE  Inv'
    <3>1. /\ DOMAIN call' = Client /\ call'[p] = locals
          /\ \A q \in Client \ {p} : call'[q] = call[q]
      BY <2>2, Changed
    <3>2. CASE locals.pc \in OtherPcs
      BY <1>0, <2>1, <2>2, <3>1, <3>2, InOther, QuietStep
    <3>3. CASE locals.pc = "dump_open" /\ locals.overlay = export(state)
      BY <1>0, <2>1, <2>2, <3>1, <3>3, ExportCounts, InFile, QuietStep DEF Inv, FilePcs
    <3>. QED BY <2>2, <3>2, <3>3
  <2>3. CASE At(p, "dump_start")
    <3>. DEFINE l == [call[p] EXCEPT !.start = start, !.pc = "dump_clock"]
    <3>1. Becomes(p, l)
      BY <1>10, <2>3 DEF DumpReads, At
    <3>2. /\ DOMAIN l = DOMAIN IdleCall /\ l.op = call[p].op /\ l.id = call[p].id
          /\ l.pc = "dump_clock"
      BY <1>1, <1>2 DEF ThreadOK
    <3>. HIDE DEF l
    <3>. QED BY <2>2, <3>1, <3>2 DEF OtherPcs
  <2>4. CASE At(p, "dump_clock")
    <3>. DEFINE l(ms) == [call[p] EXCEPT !.ms = ms, !.pc = "dump_overlay"]
    <3>1. PICK ms : Becomes(p, l(ms))
      BY <1>10, <2>4 DEF DumpReads, At
    <3>2. /\ DOMAIN l(ms) = DOMAIN IdleCall /\ l(ms).op = call[p].op
          /\ l(ms).id = call[p].id /\ l(ms).pc = "dump_overlay"
      BY <1>1, <1>2 DEF ThreadOK
    <3>. HIDE DEF l
    <3>. QED BY <2>2, <3>1, <3>2 DEF OtherPcs
  <2>5. CASE At(p, "dump_overlay")
    <3>. DEFINE l == [call[p] EXCEPT !.overlay = export(state), !.pc = "dump_open"]
    <3>1. Becomes(p, l)
      BY <1>10, <2>5 DEF DumpReads, At
    <3>2. /\ DOMAIN l = DOMAIN IdleCall /\ l.op = call[p].op /\ l.id = call[p].id
          /\ l.pc = "dump_open" /\ l.overlay = export(state)
      BY <1>1, <1>2 DEF ThreadOK
    <3>. HIDE DEF l
    <3>. QED BY <2>2, <3>1, <3>2
  <2>. QED BY <1>10, <2>3, <2>4, <2>5 DEF DumpReads
<1>11. CASE DumpTruncates(p)
  <2>1. /\ UNCHANGED <<state, lock, snapshots, requests>> /\ file' = Torn
        /\ call[p].pc = "dump_open" /\ Goto(p, "dump_write")
    BY <1>11 DEF DumpTruncates, Private, memory, At
  <2>2. CountsTransactions(import(call[p].overlay))
    BY <1>1, <2>1 DEF ThreadOK, FilePcs
  <2>3. ThreadOK(p)' /\ Exclusive(p)'
    BY <1>2, <2>1, <2>2, Moved, InFile DEF FilePcs
  <2>4. call'[p].op = call[p].op /\ call'[p].id = call[p].id
    BY <1>2, <2>1, Moved
  <2>5. StateOK' /\ requests' \in 0 .. MaxRequests
    BY <1>0, <2>1, StateKept DEF Inv
  <2>6. ThreadsOK'
    BY <1>0, <2>1, <2>3, <2>4, Moved, ThreadStep
  <2>7. CopiesAreWhole'
    BY <2>1 DEF Inv, CopiesAreWhole, CountsTransactions, Successes, FileIsDump, Torn
  <2>. QED BY <2>1, <2>5, <2>6, <2>7 DEF Inv
<1>12. CASE DumpWrites(p)
  <2>. DEFINE dump == [kind |-> "dump", epoch |-> call[p].epoch, start |-> call[p].start,
                       ms |-> call[p].ms, overlay |-> call[p].overlay]
  <2>1. /\ UNCHANGED <<state, lock, snapshots, requests>> /\ file' = dump
        /\ call[p].pc = "dump_write" /\ Return(p)
    BY <1>12 DEF DumpWrites, Private, memory, At
  <2>2. CountsTransactions(import(dump.overlay))
    BY <1>1, <2>1 DEF ThreadOK, FilePcs
  <2>. HIDE DEF dump
  <2>3. StateOK' /\ requests' \in 0 .. MaxRequests
    BY <1>0, <2>1, StateKept DEF Inv
  <2>4. ThreadsOK'
    BY <1>0, <2>1, Returned, ThreadStep
  <2>5. CopiesAreWhole'
    BY <2>1, <2>2 DEF Inv, CopiesAreWhole, CountsTransactions, Successes, FileIsDump
  <2>. QED BY <2>1, <2>3, <2>4, <2>5 DEF Inv
<1>13. CASE DumpFails(p)
  BY <1>0, <1>13, Returned, QuietStep DEF DumpFails, Private, memory
<1>. QED BY <1>3, <1>4, <1>5, <1>6, <1>7, <1>8, <1>9, <1>10, <1>11, <1>12, <1>13
         DEF SnapshotHandlers, DumpSteps

\* A transaction committed by whoever holds the lock, with the shared object
\* it has read there, counts once; no other is disturbed.
LEMMA CommitStep ==
    ASSUME Inv, NoneIsNoRecord, NEW p \in Client, CommitTransaction(p)
    PROVE  Inv'
<1>0. requests \in Nat /\ requests =< MaxRequests /\ MaxRequests \in Nat
  BY RequestsAssumption DEF Inv
<1>1. ThreadOK(p) /\ Exclusive(p) /\ Unrecorded(p) /\ DOMAIN call = Client /\ StateOK
  BY DEF Inv, ThreadsOK
<1>. DEFINE id == call[p].id
            obj == call[p].obj
            info(success) == [success |-> success, epoch |-> call[p].epoch,
                              start |-> call[p].start, ms |-> call[p].ms]
<1>2. PICK success \in BOOLEAN :
          state' = commit(state, Outcome(obj, success), id, info(success))
  BY DEF CommitTransaction
<1>3. /\ lock = p /\ id \in 1 .. requests /\ state.transactions[id] = None
      /\ obj = Current(state, Shared)
  BY <1>1 DEF CommitTransaction, At, Exclusive, Unrecorded, Critical, InputsRead
<1>4. /\ UNCHANGED <<snapshots, file, requests>> /\ Return(p)
  BY DEF CommitTransaction, Private
<1>5. id \in Digest
  BY <1>0, <1>3, RequestsAssumption
<1>6. Shared \in ObjectID /\ HasFields(obj) /\ obj.id = Shared
  BY <1>1, <1>3, CurrentFound, SharedAssumption
<1>7. info(success) # None /\ info(success).success = success
  BY DEF NoneIsNoRecord
<1>. DEFINE new == Increment(obj)
<1>8. HasFields(new) /\ new.id = Shared /\ new.data[1] = obj.data[1] + 1 /\ new # None
  <2>1. HasFields(new) /\ new.id = Shared /\ new.data = <<obj.data[1] + 1>>
    BY <1>6 DEF Increment, Bumped, HasFields
  <2>2. new # None
    BY <2>1 DEF NoneIsNoRecord
  <2>. QED BY <2>1, <2>2
<1>. HIDE DEF new, info
<1>9. /\ DOMAIN state' = DOMAIN state
      /\ state'.objects = [i \in ObjectID |-> IF success /\ i = Shared THEN new
                                             ELSE state.objects[i]]
      /\ state'.tombstones = {}
      /\ state'.transactions = [state.transactions EXCEPT ![id] = info(success)]
  <2>1. /\ Outcome(obj, success).written =
              [i \in ObjectID |-> IF success /\ i = Shared THEN new ELSE None]
        /\ Outcome(obj, success).deleted = {}
    BY DEF Outcome, new
  <2>2. /\ DOMAIN state' = DOMAIN state
        /\ state'.objects = [i \in ObjectID |->
              IF i \in WrittenIds(Outcome(obj, success))
              THEN Outcome(obj, success).written[i] ELSE state.objects[i]]
        /\ state'.tombstones = {}
        /\ state'.transactions = [state.transactions EXCEPT ![id] = info(success)]
    BY <1>1, <1>2, <2>1 DEF commit, StateOK
  <2>3. \A i \in ObjectID : i \in WrittenIds(Outcome(obj, success)) <=>
                               success /\ i = Shared
    BY <1>2, <1>8, <2>1 DEF WrittenIds
  <2>. QED BY <2>1, <2>2, <2>3
<1>10. Successes(state') = IF success THEN Successes(state) \cup {id} ELSE Successes(state)
  BY <1>1, <1>3, <1>5, <1>7, <1>9 DEF Successes, StateOK
<1>11. id \notin Successes(state)
  BY <1>3 DEF Successes
<1>12. Cardinality(Successes(state')) =
          IF success THEN Cardinality(Successes(state)) + 1 ELSE Cardinality(Successes(state))
  BY <1>0, <1>1, <1>10, <1>11, SuccessesFinite, FS_AddElement
<1>13. Current(state', Shared) = IF success THEN new ELSE Current(state, Shared)
  BY <1>1, <1>6, <1>8, <1>9, CurrentIs DEF StateOK
<1>14. CountsTransactions(state')
  BY <1>1, <1>2, <1>3, <1>8, <1>12, <1>13 DEF StateOK, CountsTransactions
<1>15. StateOK'
  <2>1. \A i \in ObjectID : state'.objects[i] # None =>
            HasFields(state'.objects[i]) /\ state'.objects[i].id = i
    BY <1>1, <1>8, <1>9 DEF StateOK
  <2>2. \A d \in Digest : state'.transactions[d] # None => d \in 1 .. requests
    BY <1>1, <1>3, <1>9 DEF StateOK
  <2>3. DOMAIN state'.objects = ObjectID /\ DOMAIN state'.transactions = Digest
    BY <1>1, <1>9 DEF StateOK
  <2>. QED BY <1>1, <1>4, <1>9, <1>14, <2>1, <2>2, <2>3
           DEF StateOK, CountsTransactions, Successes
<1>16. ThreadsOK'
  <2>1. ASSUME NEW q \in Client, q # p
        PROVE  ThreadOK(q)' /\ Exclusive(q)' /\ Unrecorded(q)'
    <3>1. call'[q] = call[q]
      BY <1>4, <2>1, Returned
    <3>2. ThreadOK(q) /\ Exclusive(q) /\ Unrecorded(q) /\ Distinct(p, q)
      BY DEF Inv, ThreadsOK
    <3>3. ThreadOK(q)'
      BY <3>1, <3>2 DEF ThreadOK, CountsTransactions, Successes
    <3>4. Exclusive(q)'
      BY <1>3, <2>1, <3>1, <3>2 DEF Exclusive
    <3>5. Unrecorded(q)'
      <4>1. CASE call[q].op = "execute"
        <5>1. call[q].id # id /\ call[q].id \in 1 .. requests
          BY <1>1, <2>1, <3>2, <4>1 DEF Distinct, Unrecorded, CommitTransaction, At,
             Exclusive, Critical, InputsRead
        <5>. QED BY <1>4, <1>9, <3>1, <3>2, <5>1 DEF Unrecorded
      <4>2. CASE call[q].op # "execute"
        BY <3>1, <4>2 DEF Unrecorded
      <4>. QED BY <4>1, <4>2
    <3>. QED BY <3>3, <3>4, <3>5
  <2>2. ThreadOK(p)' /\ Exclusive(p)' /\ Unrecorded(p)'
    BY <1>4, Returned DEF Unrecorded
  <2>3. ASSUME NEW q \in Client, NEW r \in Client
        PROVE  Distinct(q, r)'
    <3>1. \A x \in {q, r} : x # p => call'[x] = call[x]
      BY <1>4, Returned
    <3>2. call'[p].op = "none"
      BY <1>4, Returned
    <3>3. Distinct(q, r)
      BY DEF Inv, ThreadsOK
    <3>. QED BY <3>1, <3>2, <3>3 DEF Distinct
  <2>. QED BY <1>4, <2>1, <2>2, <2>3, Returned DEF ThreadsOK
<1>. QED BY <1>0, <1>4, <1>15, <1>16, CopiesKept DEF Inv

\* The steps of an execution preserve the invariant.
LEMMA ExecuteStep ==
    ASSUME Inv, NoneIsNoRecord, NEW p \in Client, ExecuteHandler(p)
    PROVE  Inv'
<1>0. requests \in Nat /\ requests =< MaxRequests /\ MaxRequests \in Nat
  BY RequestsAssumption DEF Inv
<1>1. ThreadOK(p) /\ Exclusive(p) /\ DOMAIN call = Client /\ StateOK
  BY DEF Inv, ThreadsOK
<1>2. DOMAIN IdleCall = {"pc", "op", "ms", "id", "obj", "epoch", "start", "overlay",
                         "mode", "fork"}
  BY DEF IdleCall
<1>3. CASE PrepareClock(p)
  <2>. DEFINE pc == IF mode.kind = "Frozen" THEN "lock" ELSE "clock_read"
              ms == IF mode.kind = "Frozen" THEN 0 ELSE target_ms(mode)
              locals == [IdleCall EXCEPT !.id = requests + 1, !.pc = pc, !.ms = ms]
  <2>1. Arrive(p, "execute", locals) /\ UNCHANGED <<memory, file>>
    BY <1>3 DEF PrepareClock
  <2>2. pc \in {"lock", "clock_read"}
    OBVIOUS
  <2>. HIDE DEF pc, ms
  <2>3. DOMAIN locals = DOMAIN IdleCall /\ locals.pc = pc /\ locals.id = requests + 1
    BY <1>2
  <2>. HIDE DEF locals
  <2>4. /\ requests' = requests + 1 /\ requests' =< MaxRequests
        /\ DOMAIN call' = Client
        /\ \A q \in Client \ {p} : call'[q] = call[q]
        /\ call'[p] = [locals EXCEPT !.op = "execute"]
        /\ DOMAIN call'[p] = DOMAIN IdleCall
    BY <2>1, <2>3, Arrival
  <2>5. call'[p].pc = pc /\ call'[p].id = requests + 1 /\ call'[p].op = "execute"
    <3>. DEFINE n == requests + 1
    <3>1. locals.id = n
      BY <2>3
    <3>. HIDE DEF n
    <3>2. call'[p].pc = pc /\ call'[p].id = n /\ call'[p].op = "execute"
      BY <1>2, <2>3, <2>4, <3>1
    <3>. QED BY <3>2 DEF n
  <2>6. ThreadOK(p)' /\ Exclusive(p)'
    <3>1. CASE pc = "lock"
      BY <2>4, <2>5, <3>1, InLock
    <3>2. CASE pc = "clock_read"
      BY <2>4, <2>5, <3>2, InClock DEF AdvancePcs
    <3>. QED BY <2>2, <3>1, <3>2
  <2>7. UNCHANGED <<state, lock, snapshots, file>>
    BY <2>1 DEF memory
  <2>. QED BY <1>0, <2>4, <2>5, <2>6, <2>7, QuietStep
<1>4. CASE Acquire(p)
  <2>1. /\ UNCHANGED <<state, snapshots, file, requests>>
        /\ lock = None /\ lock' = p /\ Goto(p, "read_shared")
    BY <1>4 DEF Acquire, Private
  <2>2. call[p].op = "execute"
    BY <1>1, <1>4 DEF ThreadOK, Acquire, At
  <2>3. call'[p].pc = "read_shared" /\ call'[p].op = "execute" /\ call'[p].id = call[p].id
    BY <1>2, <2>1, <2>2, Moved
  <2>4. ThreadOK(p)' /\ Exclusive(p)'
    BY <2>1, <2>3, Moved, InCritical DEF Critical, InputsRead
  <2>5. \A q \in Client \ {p} : lock = q => lock' = q
    BY <2>1, ClientAssumption
  <2>. QED BY <1>0, <2>1, <2>2, <2>3, <2>4, <2>5, Moved, QuietStep
<1>5. ASSUME ReadInputs(p) \/ ReadEpoch(p)
      PROVE  Inv'
  <2>1. /\ UNCHANGED <<state, lock, snapshots, file, requests>>
        /\ lock = p /\ call[p].op = "execute"
    BY <1>1, <1>5 DEF ReadInputs, ReadEpoch, Private, memory, Exclusive, At, Critical, InputsRead
  <2>2. ASSUME NEW locals, Becomes(p, locals), DOMAIN locals = DOMAIN IdleCall,
               locals.op = call[p].op, locals.id = call[p].id,
               locals.pc \in InputsRead, locals.obj = Current(state, Shared)
        PROVE  Inv'
    <3>1. /\ DOMAIN call' = Client /\ call'[p] = locals
          /\ \A q \in Client \ {p} : call'[q] = call[q]
      BY <2>2, Changed
    <3>2. ThreadOK(p)' /\ Exclusive(p)'
      BY <2>1, <2>2, <3>1, InCritical DEF Critical
    <3>. QED BY <1>0, <2>1, <2>2, <3>1, <3>2, QuietStep
  <2>3. CASE At(p, "read_shared")
    <3>. DEFINE l == [call[p] EXCEPT !.obj = Current(state, Shared), !.pc = "read_clock"]
    <3>1. Becomes(p, l)
      BY <1>5, <2>3 DEF ReadInputs, ReadEpoch, At
    <3>2. /\ DOMAIN l = DOMAIN IdleCall /\ l.op = call[p].op /\ l.id = call[p].id
          /\ l.pc = "read_clock" /\ l.obj = Current(state, Shared)
      BY <1>1, <1>2 DEF ThreadOK
    <3>. HIDE DEF l
    <3>. QED BY <2>2, <3>1, <3>2 DEF InputsRead
  <2>4. CASE ~At(p, "read_shared")
    <3>. DEFINE l1 == [call[p] EXCEPT !.ms = clock_timestamp_ms, !.pc = "read_epoch"]
                l2 == [call[p] EXCEPT !.epoch = epoch, !.pc = "read_start"]
                l3 == [call[p] EXCEPT !.start = start, !.pc = "commit"]
    <3>1. call[p].pc \in InputsRead /\ (Becomes(p, l1) \/ Becomes(p, l2) \/ Becomes(p, l3))
      BY <1>5, <2>4 DEF ReadInputs, ReadEpoch, At, InputsRead
    <3>2. call[p].obj = Current(state, Shared)
      BY <1>1, <3>1 DEF Exclusive, Critical
    <3>3. \A l \in {l1, l2, l3} :
              /\ DOMAIN l = DOMAIN IdleCall /\ l.op = call[p].op /\ l.id = call[p].id
              /\ l.pc \in InputsRead /\ l.obj = Current(state, Shared)
      BY <1>1, <1>2, <3>2 DEF ThreadOK, InputsRead
    <3>. HIDE DEF l1, l2, l3
    <3>. QED BY <2>2, <3>1, <3>3
  <2>. QED BY <2>3, <2>4
<1>6. CASE ExecuteFails(p)
  <2>1. /\ UNCHANGED <<state, snapshots, file, requests>> /\ lock = p /\ Return(p)
    BY <1>1, <1>6 DEF ExecuteFails, Private, Exclusive, Critical, InputsRead
  <2>. QED BY <1>0, <2>1, Returned, QuietStep
<1>. QED BY <1>3, <1>4, <1>5, <1>6, CommitStep DEF ExecuteHandler

\* The steps of the control routes preserve the invariant.
LEMMA ControlStep ==
    ASSUME Inv, NoRollbacks, NEW p \in Client, ControlHandlers(p)
    PROVE  Inv'
<1>0. requests \in Nat /\ requests =< MaxRequests /\ MaxRequests \in Nat
  BY RequestsAssumption DEF Inv
<1>1. ThreadOK(p) /\ Exclusive(p) /\ DOMAIN call = Client /\ StateOK
  BY DEF Inv, ThreadsOK
<1>2. DOMAIN IdleCall = {"pc", "op", "ms", "id", "obj", "epoch", "start", "overlay",
                         "mode", "fork"}
  BY DEF IdleCall
<1>3. CASE ClockSet(p)
  <2>1. PICK op \in {"clock_set", "clock_advance"}, j \in Jumps :
           Arrive(p, op, [IdleCall EXCEPT !.pc = "clock_read",
                                          !.ms = clock_timestamp_ms + j])
    BY <1>3 DEF ClockSet
  <2>. DEFINE locals == [IdleCall EXCEPT !.pc = "clock_read",
                                         !.ms = clock_timestamp_ms + j]
  <2>2. DOMAIN locals = DOMAIN IdleCall /\ locals.pc = "clock_read"
    BY <1>2
  <2>a. Arrive(p, op, locals)
    BY <2>1
  <2>. HIDE DEF locals
  <2>3. /\ requests' = requests + 1 /\ requests' =< MaxRequests
        /\ DOMAIN call' = Client
        /\ \A q \in Client \ {p} : call'[q] = call[q]
        /\ call'[p] = [locals EXCEPT !.op = op]
        /\ DOMAIN call'[p] = DOMAIN IdleCall
    BY <2>2, <2>a, Arrival
  <2>4. call'[p].pc = "clock_read" /\ call'[p].op = op
    BY <1>2, <2>2, <2>3
  <2>5. ThreadOK(p)' /\ Exclusive(p)'
    BY <2>3, <2>4, InClock DEF AdvancePcs
  <2>. QED BY <1>0, <1>3, <2>3, <2>4, <2>5, QuietStep DEF ClockSet, memory
<1>4. CASE ClockAuto(p)
  <2>. DEFINE locals == [IdleCall EXCEPT !.pc = "set_auto", !.ms = clock_timestamp_ms]
  <2>1. Arrive(p, "clock_auto", locals) /\ UNCHANGED <<memory, file>>
    BY <1>4 DEF ClockAuto
  <2>2. DOMAIN locals = DOMAIN IdleCall /\ locals.pc = "set_auto"
    BY <1>2
  <2>. HIDE DEF locals
  <2>. QED BY <2>1, <2>2, Arrived DEF OtherPcs
<1>5. CASE ClockFreeze(p)
  <2>. DEFINE locals == [IdleCall EXCEPT !.pc = "set_frozen"]
  <2>1. Arrive(p, "clock_freeze", locals) /\ UNCHANGED <<memory, file>>
    BY <1>5 DEF ClockFreeze
  <2>2. DOMAIN locals = DOMAIN IdleCall /\ locals.pc = "set_frozen"
    BY <1>2
  <2>. HIDE DEF locals
  <2>. QED BY <2>1, <2>2, Arrived DEF OtherPcs
<1>6. CASE SetMode(p)
  BY <1>0, <1>6, Returned, QuietStep DEF SetMode, Private
<1>7. CASE EpochAdvance(p)
  <2>1. PICK count, ms :
           Arrive(p, "epoch_advance", [IdleCall EXCEPT
              !.pc = "advance_start", !.ms = ms, !.id = count])
    BY <1>7 DEF EpochAdvance
  <2>. DEFINE locals == [IdleCall EXCEPT !.pc = "advance_start", !.ms = ms, !.id = count]
  <2>2. DOMAIN locals = DOMAIN IdleCall /\ locals.pc = "advance_start"
    BY <1>2
  <2>a. Arrive(p, "epoch_advance", locals)
    BY <2>1
  <2>. HIDE DEF locals
  <2>3. /\ requests' = requests + 1 /\ requests' =< MaxRequests
        /\ DOMAIN call' = Client
        /\ \A q \in Client \ {p} : call'[q] = call[q]
        /\ call'[p] = [locals EXCEPT !.op = "epoch_advance"]
        /\ DOMAIN call'[p] = DOMAIN IdleCall
    BY <2>2, <2>a, Arrival
  <2>4. call'[p].pc = "advance_start" /\ call'[p].op = "epoch_advance"
    BY <1>2, <2>2, <2>3
  <2>5. ThreadOK(p)' /\ Exclusive(p)'
    BY <2>3, <2>4, InClock DEF AdvancePcs
  <2>. QED BY <1>0, <1>7, <2>3, <2>4, <2>5, QuietStep DEF EpochAdvance, memory
<1>8. CASE AdvanceStart(p)
  <2>1. /\ UNCHANGED <<state, lock, snapshots, file, requests>>
        /\ call[p].op = "epoch_advance" /\ Goto(p, "advance_epoch")
    BY <1>1, <1>8 DEF AdvanceStart, Private, ThreadOK, At, AdvancePcs
  <2>2. call'[p].op = "epoch_advance"
    BY <1>2, <2>1, Moved
  <2>3. ThreadOK(p)' /\ Exclusive(p)'
    BY <2>1, <2>2, Moved, InClock DEF AdvancePcs
  <2>. QED BY <1>0, <2>1, <2>2, <2>3, Moved, QuietStep
<1>9. CASE AdvanceEpoch(p)
  <2>. DEFINE l == [call[p] EXCEPT !.epoch = epoch', !.pc = "clock_read"]
  <2>1. /\ UNCHANGED <<state, lock, snapshots, file, requests>>
        /\ call[p].op = "epoch_advance" /\ Becomes(p, l)
    BY <1>1, <1>9 DEF AdvanceEpoch, Private, ThreadOK, At, AdvancePcs
  <2>2. /\ DOMAIN l = DOMAIN IdleCall /\ l.op = "epoch_advance"
        /\ l.pc = "clock_read"
    BY <1>1, <1>2, <2>1 DEF ThreadOK
  <2>. HIDE DEF l
  <2>3. ThreadOK(p)' /\ Exclusive(p)'
    BY <2>1, <2>2, Changed, InClock DEF AdvancePcs
  <2>. QED BY <1>0, <2>1, <2>2, <2>3, Changed, QuietStep
<1>10. CASE SyncLoads(p)
  <2>1. UNCHANGED <<state, lock, snapshots, file, requests>>
    BY <1>10 DEF SyncLoads, Private, memory
  <2>2. ASSUME NEW pc \in {"sync_read", "set_auto"}, Goto(p, pc)
        PROVE  Inv'
    <3>1. ThreadOK(p)' /\ Exclusive(p)'
      BY <2>2, Moved, InOther DEF OtherPcs
    <3>2. call'[p].op = call[p].op /\ call'[p].id = call[p].id
      BY <1>2, <2>2, Moved
    <3>. QED BY <1>0, <2>1, <2>2, <3>1, <3>2, Moved, QuietStep
  <2>. DEFINE l == [call[p] EXCEPT !.obj = Current(state, SystemInner),
                                   !.pc = "sync_write"]
  <2>3. ASSUME Becomes(p, l)
        PROVE  Inv'
    <3>1. /\ DOMAIN l = DOMAIN IdleCall /\ l.op = call[p].op /\ l.id = call[p].id
          /\ l.pc = "sync_write" /\ l.obj = Current(state, SystemInner)
      BY <1>1, <1>2 DEF ThreadOK
    <3>2. HasFields(l.obj) /\ l.obj.id \in ObjectID \ {Shared}
      BY <1>1, <3>1, CurrentFound, SystemObjectsAssumption, SharedAssumption
    <3>. HIDE DEF l
    <3>3. ThreadOK(p)' /\ Exclusive(p)'
      BY <2>3, <3>1, <3>2, Changed, InWrite DEF WritePcs
    <3>. QED BY <1>0, <2>1, <2>3, <3>1, <3>3, Changed, QuietStep
  <2>. QED BY <1>10, <2>2, <2>3 DEF SyncLoads
<1>11. CASE SyncWrites(p)
  <2>. DEFINE obj == Bumped(call[p].obj, <<call[p].epoch, call[p].ms>>)
  <2>1. HasFields(obj) /\ obj.id \in ObjectID \ {Shared}
    BY <1>1, <1>11 DEF SyncWrites, ThreadOK, At, Bumped, HasFields, WritePcs
  <2>2. state' = set_object(state, obj) /\ UNCHANGED <<lock, snapshots, file, requests>>
    BY <1>11 DEF SyncWrites, Private
  <2>. HIDE DEF obj
  <2>3. Goto(p, "set_auto")
    BY <1>11 DEF SyncWrites
  <2>4. call'[p].op = call[p].op /\ call'[p].id = call[p].id
    BY <1>2, <2>3, Moved
  <2>5. ThreadOK(p)' /\ call'[p].pc \notin Critical
    BY <2>3, Moved, InOther DEF OtherPcs
  <2>. QED BY <1>0, <2>1, <2>2, <2>3, <2>4, <2>5, Moved, WriteStep
<1>12. CASE SetContents(p)
  <2>. DEFINE old == Current(state, Override)
              locals(bump) == [IdleCall EXCEPT
                 !.pc = "contents_write",
                 !.obj = IF bump THEN Bumped(old, <<0>>) ELSE [old EXCEPT !.data = <<0>>]]
  <2>1. PICK bump \in Bump : Arrive(p, "set_contents", locals(bump))
    BY <1>12 DEF SetContents
  <2>2. HasFields(old) /\ old.id = Override /\ Override \in ObjectID
    BY <1>1, CurrentFound, ControlAssumption
  <2>. HIDE DEF old
  <2>. DEFINE obj == IF bump THEN Bumped(old, <<0>>) ELSE [old EXCEPT !.data = <<0>>]
  <2>3. HasFields(obj) /\ obj.id = Override
    BY <2>2 DEF Bumped, HasFields
  <2>. HIDE DEF obj
  <2>4. /\ DOMAIN locals(bump) = DOMAIN IdleCall
        /\ locals(bump).pc = "contents_write" /\ locals(bump).obj = obj
    BY <1>2 DEF obj
  <2>. HIDE DEF locals
  <2>5. /\ requests' = requests + 1 /\ requests' =< MaxRequests
        /\ DOMAIN call' = Client
        /\ \A q \in Client \ {p} : call'[q] = call[q]
        /\ call'[p] = [locals(bump) EXCEPT !.op = "set_contents"]
        /\ DOMAIN call'[p] = DOMAIN IdleCall
        /\ "set_contents" \in Handlers
    BY <2>1, <2>4, Arrival
  <2>6. /\ call'[p].pc = "contents_write" /\ call'[p].op = "set_contents"
        /\ call'[p].obj = obj
    BY <1>2, <2>4, <2>5
  <2>7. Override # Shared
    BY <2>5 DEF NoRollbacks
  <2>8. ThreadOK(p)' /\ Exclusive(p)'
    BY <2>2, <2>3, <2>5, <2>6, <2>7, InWrite DEF WritePcs
  <2>. QED BY <1>0, <1>12, <2>5, <2>6, <2>8, QuietStep DEF SetContents, memory
<1>13. CASE WriteContents(p)
  <2>1. HasFields(call[p].obj) /\ call[p].obj.id \in ObjectID \ {Shared}
    BY <1>1, <1>13 DEF WriteContents, ThreadOK, At, WritePcs
  <2>2. /\ state' = set_object(state, call[p].obj) /\ Return(p)
        /\ UNCHANGED <<lock, snapshots, file, requests>>
    BY <1>13 DEF WriteContents, Private
  <2>3. call'[p].pc \notin Critical
    BY <2>2, Returned DEF Critical, InputsRead
  <2>. QED BY <1>0, <2>1, <2>2, <2>3, Returned, WriteStep
<1>14. CASE Fund(p)
  <2>1. PICK id \in Coins :
          /\ Current(state, id) = None
          /\ state' = set_object(state, [id |-> id, version |-> 1, data |-> <<1>>])
    BY <1>14 DEF Fund
  <2>2. id \in ObjectID \ {Shared}
    BY <1>1, <2>1, ControlAssumption, CurrentFound, SharedAssumption
  <2>. DEFINE coin == [id |-> id, version |-> 1, data |-> <<1>>]
  <2>3. HasFields(coin) /\ coin.id = id /\ state' = set_object(state, coin)
    BY <2>1 DEF HasFields
  <2>. HIDE DEF coin
  <2>4. Arrive(p, "fund", IdleCall) /\ UNCHANGED <<lock, snapshots, file>>
    BY <1>14 DEF Fund
  <2>5. /\ requests' = requests + 1 /\ requests' =< MaxRequests
        /\ DOMAIN call' = Client
        /\ \A q \in Client \ {p} : call'[q] = call[q]
        /\ call'[p] = [IdleCall EXCEPT !.op = "fund"]
        /\ DOMAIN call'[p] = DOMAIN IdleCall
    BY <2>4, Arrival
  <2>6. call'[p].pc = "idle" /\ call'[p].op = "fund"
    BY <2>5 DEF IdleCall
  <2>7. ThreadOK(p)' /\ call'[p].pc \notin Critical
    BY <2>5, <2>6, InOther DEF OtherPcs
  <2>. QED BY <1>0, <2>2, <2>3, <2>4, <2>5, <2>6, <2>7, WriteStep
<1>15. CASE Refused(p)
  <2>1. PICK op \in {"clock_advance", "clock_auto", "clock_freeze", "epoch_advance",
                     "set_contents"} : Arrive(p, op, IdleCall)
    BY <1>15 DEF Refused
  <2>2. IdleCall.pc = "idle"
    BY DEF IdleCall
  <2>. QED BY <1>15, <2>1, <2>2, Arrived DEF OtherPcs, Refused
<1>. QED BY <1>3, <1>4, <1>5, <1>6, <1>7, <1>8, <1>9, <1>10, <1>11, <1>12, <1>13, <1>14,
            <1>15 DEF ControlHandlers

-----------------------------------------------------------------------------

\* A server starts with the invariant.
LEMMA InitInv == Init => Inv
<1>. SUFFICES ASSUME Init PROVE Inv
  OBVIOUS
<1>1. requests = 0 /\ requests \in 0 .. MaxRequests
  BY RequestsAssumption DEF Init
<1>2. StateOK
  BY DefaultCounts DEF Init, StateOK, Default
<1>3. DOMAIN call = Client /\ \A p \in Client : call[p] = IdleCall
  BY DEF Init
<1>4. ThreadsOK
  BY <1>3 DEF ThreadsOK, ThreadOK, Exclusive, Unrecorded, Distinct, IdleCall, ClockPcs,
     AdvancePcs, Critical, InputsRead, SnapshotPcs, FilePcs, OtherPcs, WritePcs
<1>5. DOMAIN snapshots = SnapshotId /\ \A i \in SnapshotId : snapshots[i] = None
  BY DEF Init, NoSnapshots
<1>6. ~FileIsDump
  BY DEF Init, FileIsDump, NoFile
<1>. QED BY <1>1, <1>2, <1>4, <1>5, <1>6 DEF Inv, CopiesAreWhole

\* A server started again has the fork point, and the dump on disk.
LEMMA RestartStep ==
    ASSUME Inv, Restart
    PROVE  Inv'
<1>1. /\ state' = Default /\ call' = [p \in Client |-> IdleCall]
      /\ snapshots' = NoSnapshots /\ UNCHANGED <<file, requests>>
  BY DEF Restart
<1>2. DOMAIN call' = Client /\ \A p \in Client : call'[p] = IdleCall
  BY <1>1
<1>3. ThreadsOK'
  BY <1>2 DEF ThreadsOK, ThreadOK, Exclusive, Unrecorded, Distinct, IdleCall, ClockPcs,
     AdvancePcs, Critical, InputsRead, SnapshotPcs, FilePcs, OtherPcs, WritePcs
<1>4. DOMAIN snapshots' = SnapshotId /\ \A i \in SnapshotId : snapshots'[i] = None
  BY <1>1 DEF NoSnapshots
<1>5. CopiesAreWhole'
  BY <1>1, <1>4 DEF Inv, CopiesAreWhole, CountsTransactions, Successes, FileIsDump
<1>. QED BY <1>1, <1>3, <1>4, <1>5, DefaultOK DEF Inv

\* Nothing the invariant speaks of has changed.
LEMMA Stutter ==
    ASSUME Inv, UNCHANGED <<state, lock, call, snapshots, file, requests>>
    PROVE  Inv'
<1>1. requests \in Nat
  BY RequestsAssumption DEF Inv
<1>2. StateOK'
  BY <1>1, StateKept DEF Inv
<1>3. ThreadsOK'
  BY DEF Inv, ThreadsOK, ThreadOK, Exclusive, Unrecorded, Distinct, CountsTransactions,
         Successes
<1>. QED BY <1>2, <1>3, CopiesKept DEF Inv

\* Every step preserves the invariant.
LEMMA NextInv ==
    ASSUME Inv, NoRollbacks, NoneIsNoRecord, [Next]_vars
    PROVE  Inv'
<1>1. ASSUME NEW p \in Client, Step(p)
      PROVE  Inv'
  BY <1>1, SetClockStep, SnapshotStep, ExecuteStep, ControlStep DEF Step
<1>2. CASE Tick
  BY <1>2, Stutter DEF Tick, memory
<1>3. CASE Done \/ UNCHANGED vars
  BY <1>3, Stutter DEF Done, vars, memory
<1>. QED BY <1>1, <1>2, <1>3, RestartStep DEF Next

\* The invariant holds of every behaviour.
LEMMA Invariance ==
    ASSUME NoRollbacks, NoneIsNoRecord
    PROVE  Spec => []Inv
<1>1. Inv /\ [Next]_vars => Inv'
  BY NextInv
<1>. QED BY <1>1, InitInv, PTL DEF Spec

-----------------------------------------------------------------------------

\* Whatever clients do at the same time - execute transactions, set the clock,
\* advance the epoch, write objects, take snapshots, dump - and however requests
\* fail, are dropped or are cut off by a restart, every successful transaction is
\* in the shared object once, as long as nobody rolls the fork back.
THEOREM NothingIsLost ==
    ASSUME NoRollbacks, NoneIsNoRecord
    PROVE  Spec => []NoLostUpdates
<1>1. Inv => NoLostUpdates
  BY DEF Inv, StateOK, NoLostUpdates
<1>. QED BY <1>1, Invariance, PTL

\* And every snapshot, and a dump that is complete on disk, holds whole
\* transactions only.
THEOREM CopiesHoldWholeTransactions ==
    ASSUME NoRollbacks, NoneIsNoRecord
    PROVE  Spec => []CopiesAreWhole
<1>1. Inv => CopiesAreWhole
  BY DEF Inv
<1>. QED BY <1>1, Invariance, PTL
=============================================================================
