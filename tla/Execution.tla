----------------------------- MODULE Execution -----------------------------
(***************************************************************************)
(* What one execution reads, and when: Vm::run of src/src/engine/vm.rs     *)
(* (input resolution, gas check, executor) over the RuntimeStore of        *)
(* src/src/engine/runtime_store.rs, under Fork::execute's lock or, for a   *)
(* simulation, without it (src/src/fork.rs).                               *)
(*                                                                         *)
(* Every read takes the overlay's lock anew.  Cheats and resets write      *)
(* without execution_lock; here each is one step (module Control has their *)
(* own interleavings).  The executor is external: it may ask RuntimeStore  *)
(* for anything in any order, and it writes what it writes at the lamport  *)
(* version, one above its inputs.                                          *)
(***************************************************************************)
EXTENDS Overlay, FiniteSetsExt

CONSTANTS
    Runner,      \* threads that execute or simulate
    Coin,        \* an address-owned coin that pays gas
    Parent,      \* a shared object, like 0x5
    Child,       \* a dynamic field of Parent, like its inner state
    Pins,        \* the owned inputs transactions name: [id, version]
    Party,       \* owners: accounts and parent objects
    MaxValue,    \* u64::MAX
    Budgets,     \* the gas budgets transactions give
    Overrides,   \* the values cheats write
    MaxRuns,     \* bound on executions and simulations
    MaxReads,    \* bound on what the executors ask of their stores
    MaxWrites    \* bound on cheats and resets

ASSUME RunnerAssumption == None \notin Runner
ASSUME ObjectsAssumption ==
    /\ {Coin, Parent, Child} \subseteq ObjectID
    /\ Coin # Parent /\ Coin # Child /\ Parent # Child
    /\ Mainnet[Parent][AtFork] # None
ASSUME DataAssumption ==
    /\ Data = [owner : Party, value : 0 .. MaxValue]
    /\ Parent \in Party /\ MaxValue \in Nat
ASSUME OverridesAssumption == Overrides \subseteq 0 .. MaxValue
ASSUME ChildAssumption ==
    \A q \in Query :
        Mainnet[Child][q] # None => Mainnet[Child][q].data.owner = Parent
\* The network answers a query by version with that version.
ASSUME ByVersionAssumption ==
    \A id \in ObjectID, q \in Query :
        q.kind = "Version" /\ Mainnet[id][q] # None => Mainnet[id][q].version = q.n
ASSUME PinsAssumption == Pins \subseteq [id : {Coin, Child}, version : Version]
ASSUME BudgetsAssumption == Budgets \subseteq Nat \ {0}

\* What a transaction declares: the owned object it pins by version (its gas
\* coin; none when gas comes from an address balance), whether it takes Parent,
\* and its gas budget.  A transaction may be run again: nothing here depends on
\* its digest, so one stands for all.
Tx == {tx \in [owned : Maybe(Pins), shared : BOOLEAN, budget : Budgets] :
          tx.owned # None \/ tx.shared}

VARIABLES
    state,     \* OverlayStore::state
    lock,      \* Fork::execution_lock: who holds it
    run,       \* what each runner is doing: pc, transaction, inputs, cache
    runs,      \* executions and simulations begun so far
    reads,     \* what executors asked of their stores so far
    writes,    \* cheats and resets so far
    spent,     \* history: the owned inputs of committed transactions
    twice,     \* history: those that two committed transactions consumed
    regressed, \* history: a write did not raise its object's version
    overridden \* history: a cheat wrote the child

history == <<spent, twice, regressed, overridden>>
vars == <<state, lock, run, runs, reads, writes, history>>

IdleRun ==
    [pc |-> "idle", op |-> "none", tx |-> None, owned |-> None, shared |-> None,
     object_cache |-> {}, answers |-> <<>>,
     changed |-> FALSE, rebound |-> FALSE]

Init ==
    /\ state = Default
    /\ lock = None
    /\ run = [r \in Runner |-> IdleRun]
    /\ runs = 0
    /\ reads = 0
    /\ writes = 0
    /\ spent = {}
    /\ twice = {}
    /\ regressed = FALSE
    /\ overridden = FALSE

-----------------------------------------------------------------------------
(* Control flow of a run. *)

At(r, pc) == run[r].pc = pc

AtVersion(id, v) ==
    [object_id |-> id, version_query |-> [kind |-> "Version", n |-> v]]
WithRoot(id, v) ==
    [object_id |-> id, version_query |-> [kind |-> "RootVersion", n |-> v]]

FirstInput(tx) == IF tx.shared THEN "shared" ELSE "owned"
NextInput(tx) == IF tx.owned # None THEN "owned" ELSE "run"

\* A step of one run that reads only.
ReadOnly == UNCHANGED <<state, lock, runs, reads, writes, history>>

\* The run is over; the guard, if it has it, is dropped.
End(r) ==
    /\ run' = [run EXCEPT ![r] = IdleRun]
    /\ lock' = IF lock = r THEN None ELSE lock

\* A write of the overlay.  Other runs under way are told, for the record:
\* `changed`, and `rebound` if an (id, version) they may have read can now
\* name something else.
Rewrites ==
    \E id \in ObjectID :
        LET old == state.objects[id]
            new == state'.objects[id]
        IN  old # None /\ new # None /\ new # old /\ new.version =< old.version

Told(r, rolledBack) ==
    IF At(r, "idle") \/ At(r, "lock") THEN run[r]
    ELSE [run[r] EXCEPT !.changed = TRUE,
                        !.rebound = @ \/ Rewrites \/ rolledBack]

-----------------------------------------------------------------------------
(* Fork::execute and Fork::simulate. *)

Begin(r, tx, op) ==
    /\ At(r, "idle")
    /\ runs < MaxRuns
    /\ runs' = runs + 1
    /\ run' = [run EXCEPT ![r] = [IdleRun EXCEPT
          !.tx = tx, !.op = op,
          !.pc = IF op = "execute" THEN "lock" ELSE FirstInput(tx)]]
    /\ UNCHANGED <<state, lock, reads, writes, history>>

execute(r) == \E tx \in Tx : Begin(r, tx, "execute")

simulate(r) == \E tx \in Tx : Begin(r, tx, "simulate")

\* Mutation: executions do not wait for each other.
Acquire_Unlocked(r) ==
    /\ At(r, "lock")
    /\ lock' = r
    /\ run' = [run EXCEPT ![r].pc = FirstInput(run[r].tx)]
    /\ UNCHANGED <<state, runs, reads, writes, history>>

Acquire(r) ==
    /\ At(r, "lock")
    /\ lock = None
    /\ lock' = r
    /\ run' = [run EXCEPT ![r].pc = FirstInput(run[r].tx)]
    /\ UNCHANGED <<state, runs, reads, writes, history>>

\* resolve_input_objects: shared objects as of the fork checkpoint.
ResolveShared(r) ==
    /\ At(r, "shared")
    /\ LET object == Current(state, Parent) IN
        /\ object # None
        /\ run' = [run EXCEPT ![r] = [run[r] EXCEPT
               !.shared = object,
               !.pc = NextInput(run[r].tx)]]
    /\ ReadOnly

\* Owned objects at the version pinned, unless another object owns them.
ResolveOwned(r) ==
    /\ At(r, "owned")
    /\ LET pin == run[r].tx.owned
           object == Lookup(state, AtVersion(pin.id, pin.version))
       IN
        /\ object # None
        /\ object.data.owner \notin ObjectID
        /\ run' = [run EXCEPT ![r] = [run[r] EXCEPT !.owned = object, !.pc = "gas"]]
    /\ ReadOnly

\* Mutation: the coin as it is now, whatever version is pinned.
check_gas_payment_Current(r) ==
    /\ At(r, "gas")
    /\ LET coin == Current(state, run[r].tx.owned.id) IN
        /\ coin # None
        /\ coin.data.value >= run[r].tx.budget
        /\ run' = [run EXCEPT ![r].pc = "run"]
    /\ ReadOnly

\* check_gas_payment reads the pinned coin again and compares its balance with
\* the budget; it is not reached when gas comes from an address balance.
check_gas_payment(r) ==
    /\ At(r, "gas")
    /\ LET pin == run[r].tx.owned
           coin == Lookup(state, AtVersion(pin.id, pin.version))
       IN
        /\ coin # None
        /\ coin.data.value >= run[r].tx.budget
        /\ run' = [run EXCEPT ![r].pc = "run"]
    /\ ReadOnly

\* The run fails: an input is missing, is owned by an object or cannot be read,
\* the gas price or the balance is too low, or the executor panics.
Fail(r) ==
    /\ run[r].pc \in {"shared", "owned", "gas", "run"}
    /\ End(r)
    /\ UNCHANGED <<state, runs, reads, writes, history>>

-----------------------------------------------------------------------------
(* RuntimeStore: what the executor asks for while it runs. *)

\* Mutation: that there was no object is kept, too.
cache_insert_Absent(cache, object) == cache \cup {object}

\* cache_insert: one entry for each id and version.
cache_insert(cache, object) ==
    IF object = None THEN cache
    ELSE {o \in cache : o.id # object.id \/ o.version # object.version}
         \cup {object}

Cached(r, id) == {o \in run[r].object_cache : o.id = id}

\* The executor is given `object` for what it asked of `id`.
Answered(r, how, id, object) ==
    run' = [run EXCEPT ![r] = [run[r] EXCEPT
        !.object_cache = cache_insert(run[r].object_cache, object),
        !.answers = Append(run[r].answers,
                           [how |-> how, id |-> id, object |-> object])]]

Asks(r) ==
    /\ At(r, "run")
    /\ reads < MaxReads
    /\ reads' = reads + 1
    /\ UNCHANGED <<state, lock, runs, writes, history>>

\* get_object and get_object_at_version turn a failed read of the network into
\* an absent object (`.ok()?`), which is not cached.
Fetched(key) ==
    {Lookup(state, key)}
    \cup (IF Hit(state, key) \/ Suppressed(state, key) THEN {} ELSE {None})

\* Mutation: the store is asked each time.
get_object_Uncached(r, id) ==
    /\ Asks(r)
    /\ \E object \in Fetched([object_id |-> id, version_query |-> AtFork]) :
          Answered(r, "object", id, object)

\* get_object: the highest version in the cache, otherwise the object as of
\* the fork checkpoint.
get_object(r, id) ==
    /\ Asks(r)
    /\ LET cached == Cached(r, id) IN
        \E object \in
            IF cached = {} THEN Fetched([object_id |-> id, version_query |-> AtFork])
            ELSE {o \in cached : \A p \in cached : p.version =< o.version} :
           Answered(r, "object", id, object)

\* get_object_by_key and get_object_received_at_version
get_object_at_version(r, id, v) ==
    /\ Asks(r)
    /\ LET cached == {o \in Cached(r, id) : o.version = v} IN
        \E object \in IF cached = {} THEN Fetched(AtVersion(id, v)) ELSE cached :
           Answered(r, "version", id, object)

\* Mutation: the bound is exclusive.
read_child_object_Below(r) ==
    /\ Asks(r)
    /\ run[r].shared # None
    /\ run[r].shared.version - 1 \in Version
    /\ Answered(r, "child", Child,
          Lookup(state, WithRoot(Child, run[r].shared.version - 1)))

\* read_child_object asks the store each time, for the child at or below the
\* version its parent had as an input.
read_child_object(r) ==
    /\ Asks(r)
    /\ run[r].shared # None
    /\ Answered(r, "child", Child,
          Lookup(state, WithRoot(Child, run[r].shared.version)))

Read(r) ==
    \/ \E id \in {Coin, Parent, Child} : get_object(r, id)
    \/ \E pin \in Pins : get_object_at_version(r, pin.id, pin.version)
    \/ read_child_object(r)

-----------------------------------------------------------------------------
(* The outcome. *)

Inputs(r) == {run[r].owned, run[r].shared} \ {None}

Lamport(r) == Max({o.version : o \in Inputs(r)}) + 1

\* The child the executor was given, or None.
ChildRead(r) ==
    {a.object : a \in {x \in Range(run[r].answers) : x.how = "child"}} \ {None}

At1(object, v, value) ==
    [object EXCEPT !.version = v, !.data.value = value]

\* What the Move code did with the child it read: nothing, a change, or its
\* removal; or it added the field back, having found none.
ChildEffects(r) ==
    {[written |-> None, deleted |-> {}]}
    \cup {[written |-> At1(o, Lamport(r), o.data.value + 1), deleted |-> {}] :
             o \in {x \in ChildRead(r) : x.data.value < MaxValue}}
    \cup {[written |-> None, deleted |-> {o.id}] : o \in ChildRead(r)}
    \cup (IF [how |-> "child", id |-> Child, object |-> None]
             \in Range(run[r].answers)
          THEN {[written |-> [id |-> Child, version |-> Lamport(r),
                              data |-> [owner |-> Parent, value |-> 0]],
                 deleted |-> {}]}
          ELSE {})

\* The inputs come back one version up, the coin with the gas charged; a
\* failed transaction has no other effect.
Outcome(r, effect) ==
    [written |-> [id \in ObjectID |->
        IF run[r].owned # None /\ id = run[r].owned.id
        THEN At1(run[r].owned, Lamport(r), run[r].owned.data.value - 1)
        ELSE IF run[r].shared # None /\ id = Parent
        THEN At1(run[r].shared, Lamport(r), run[r].shared.data.value)
        ELSE IF id = Child THEN effect.written ELSE None],
     deleted |-> effect.deleted,
     events |-> [a \in Account |-> [operation |-> "Ignored", amount |-> 0]]]

\* Without the gas check the charger would underflow here.
Charged(r) == run[r].owned # None => run[r].owned.data.value > 0

\* execute: the outcome is committed under the lock.  Version bounds what
\* versions there can be.
Commit(r) ==
    /\ At(r, "run") /\ run[r].op = "execute"
    /\ Charged(r)
    /\ Lamport(r) \in Version
    /\ \E effect \in ChildEffects(r), digest \in Digest, info \in Info :
          state' = commit(state, Outcome(r, effect), digest, info)
    /\ run' = [x \in Runner |-> IF x = r THEN IdleRun ELSE Told(x, FALSE)]
    /\ lock' = IF lock = r THEN None ELSE lock
    /\ LET consumed == {<<o.id, o.version>> : o \in {run[r].owned} \ {None}} IN
        /\ spent' = spent \cup consumed
        /\ twice' = twice \cup (spent \cap consumed)
    /\ regressed' = (regressed \/ Rewrites)
    /\ UNCHANGED <<runs, reads, writes, overridden>>

\* simulate: the outcome is dropped.
Report(r) ==
    /\ At(r, "run") /\ run[r].op = "simulate"
    /\ Charged(r)
    /\ End(r)
    /\ UNCHANGED <<state, runs, reads, writes, history>>

-----------------------------------------------------------------------------
(* The control API, which does not take execution_lock. *)

Restrained == writes < MaxWrites /\ writes' = writes + 1

\* set_object_contents on a coin or on a child, one version up or at the same
\* version; sync_system_state_epoch is the former, on a child.
set_object_contents ==
    /\ Restrained
    /\ \E id \in {Coin, Child}, bump \in {0, 1}, value \in Overrides :
        LET object == Current(state, id) IN
        /\ object # None
        /\ object.version + bump \in Version
        /\ state' = set_object(state, At1(object, object.version + bump, value))
        /\ overridden' = (overridden \/ id = Child)
    /\ run' = [x \in Runner |-> Told(x, FALSE)]
    /\ regressed' = (regressed \/ Rewrites)
    /\ UNCHANGED <<lock, runs, reads, spent, twice>>

\* reset: back to the fork point.
clear ==
    /\ Restrained
    /\ state' = Default
    /\ run' = [x \in Runner |-> Told(x, TRUE)]
    /\ spent' = {} /\ twice' = {}
    /\ regressed' = FALSE /\ overridden' = FALSE
    /\ UNCHANGED <<lock, runs, reads>>

Step(r) ==
    \/ execute(r) \/ simulate(r)
    \/ Acquire(r)
    \/ ResolveShared(r) \/ ResolveOwned(r) \/ check_gas_payment(r)
    \/ Read(r)
    \/ Commit(r) \/ Report(r)
    \/ Fail(r)

Done == runs = MaxRuns /\ (\A r \in Runner : At(r, "idle")) /\ UNCHANGED vars

Next == (\E r \in Runner : Step(r)) \/ set_object_contents \/ clear \/ Done

Spec == Init /\ [][Next]_vars

-----------------------------------------------------------------------------

AnswerRecord ==
    [how : {"object", "version", "child"}, id : ObjectID, object : Maybe(Object)]

RunRecord ==
    [pc : {"idle", "lock", "shared", "owned", "gas", "run"},
     op : {"none", "execute", "simulate"}, tx : Maybe(Tx),
     owned : Maybe(Object), shared : Maybe(Object),
     object_cache : SUBSET Object, answers : Seq(AnswerRecord),
     changed : BOOLEAN, rebound : BOOLEAN]

\* The type of every variable.
TypeOK ==
    /\ state \in OverlayState
    /\ lock \in Maybe(Runner)
    /\ run \in [Runner -> RunRecord]
    /\ runs \in Nat /\ reads \in Nat /\ writes \in Nat
    /\ spent \in SUBSET (ObjectID \X Version)
    /\ twice \in SUBSET spent
    /\ regressed \in BOOLEAN /\ overridden \in BOOLEAN

OnMainnet(id, v) == Mainnet[id][[kind |-> "Version", n |-> v]]

Touched(id) == id \in overlay_touched_ids(state)

\* Two transactions never consume the same version of an object, be they
\* concurrent, built on the same state, or the same one sent again - as long
\* as versions only grow, and unless mainnet has that version: then the pinned
\* read is answered from there ("calls are serialized per fork ... each sees
\* the previous one's committed effects", fork.rs:181-183).
ForkVersionsSpentOnce ==
    ~regressed => \A input \in twice : OnMainnet(input[1], input[2]) # None

\* The executor never starts on a coin worth less than the budget ("a budget
\* above the gas coins' balance underflows the gas charger", vm.rs:184-186),
\* although the coin is read once as an input and once for the check - unless
\* its version was given to something else between, on the fork, or mainnet has
\* it too.
GasCovered ==
    \A r \in Runner :
        LET coin == run[r].owned
        IN  /\ At(r, "run") /\ coin # None /\ ~run[r].rebound
            /\ OnMainnet(coin.id, coin.version) = None
            => coin.data.value >= run[r].tx.budget

\* A run during which nobody wrote the overlay got the fork as it is: every
\* shared input; every owned one unless mainnet has the version pinned; what
\* the executor asked for by id alone, unless it had read a version of it before
\* or the network failed; and every child the fork has written or deleted, unless
\* a cheat wrote it.
QuietRunSeesTheFork ==
    \A r \in Runner : At(r, "run") /\ ~run[r].changed =>
        LET answers == Range(run[r].answers)
        IN  /\ run[r].shared # None => run[r].shared = Current(state, Parent)
            /\ run[r].owned # None =>
                  \/ run[r].owned = Current(state, run[r].owned.id)
                  \/ run[r].owned = OnMainnet(run[r].owned.id, run[r].owned.version)
            /\ \A a \in answers :
                  \/ a.object = Current(state, a.id)
                  \/ a.object = None /\ ~Touched(a.id)
                  \/ a.how = "version"
                  \/ a.how = "child" /\ (overridden \/ ~Touched(Child))
                  \/ a.how = "object" /\ \E b \in answers :
                        b.id = a.id /\ b.how # "object"

\* Within a run, an object that has been read is not read as absent or at an
\* older version by its id, whatever is committed, rolled back or fails meanwhile.
AnswersNeverGoBack ==
    \A r \in Runner : \A i, j \in DOMAIN run[r].answers :
        LET a == run[r].answers[i]
            b == run[r].answers[j]
        IN  i < j /\ b.how = "object" /\ a.id = b.id /\ a.object # None
            => b.object # None /\ b.object.version >= a.object.version

\* A field the fork has not touched is read as of the fork checkpoint: "every
\* object read is pinned to the fork checkpoint ..., so the fork sees a single
\* consistent snapshot of mainnet" (DESIGN.md:56-58).
ChildReadsArePinned ==
    \A r \in Runner : ~run[r].changed /\ ~Touched(Child) =>
        ChildRead(r) \subseteq {Mainnet[Child][AtFork]}

\* A field the fork has written is read as the fork has it, written by a cheat
\* or not: after an epoch advance "`sui_system::epoch()` matches"
\* (cheats.rs:264).
FieldOverridesAreSeen ==
    \A r \in Runner : ~run[r].changed /\ state.objects[Child] # None =>
        ChildRead(r) \subseteq {state.objects[Child]}
=============================================================================
