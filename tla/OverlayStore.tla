---------------------------- MODULE OverlayStore ----------------------------
(***************************************************************************)
(* OverlayStore<S> of src/src/store.rs as a state machine: the state       *)
(* behind the RwLock, the operations that take the lock, and concurrent    *)
(* readers.  An operation that holds the lock throughout is one action.    *)
(* get_objects is not: it answers what it can under the read lock, lets go *)
(* of it and fetches the rest from the network, retrying on error.         *)
(*                                                                         *)
(* Callers hold the clones snapshot() returns in slots; export() goes to a *)
(* file.  The lock is crate-internal to commit, so callers are as the      *)
(* crate is: a transaction writes above the versions it read, a cheat      *)
(* writes at the current version or above it.                              *)
(***************************************************************************)
EXTENDS Overlay

CONSTANTS
    Reader,        \* threads inside get_objects
    Slot,          \* places a caller keeps a snapshot in
    File,          \* paths an export is written to
    Keys,          \* the batches readers ask for: a set of Seq(ObjectKey)
    EventChoice,   \* the accumulator writes transactions make
    MAX_ATTEMPTS   \* with_retry's limit (5 in the code)

ASSUME KeysAssumption == Keys \subseteq Seq(ObjectKey)
ASSUME EventAssumption == EventChoice \subseteq [Account -> Event]
ASSUME HolderAssumption == Slot \cap File = {}
ASSUME AttemptsAssumption == MAX_ATTEMPTS \in Nat \ {0}

VARIABLES
    state,      \* OverlayStore::state
    snapshots,  \* the clones callers hold
    files,      \* the exports on disk
    reader,     \* get_objects calls: pc, keys, out, miss_slots, attempt
    seen        \* history: the state each reader's lock section saw

vars == <<state, snapshots, files, reader, seen>>

Idle == [pc |-> "idle", keys |-> <<>>, out |-> <<>>,
         miss_slots |-> {}, attempt |-> 0]

Init ==
    /\ state = Default
    /\ snapshots = [s \in Slot |-> None]
    /\ files = [f \in File |-> None]
    /\ reader = [r \in Reader |-> Idle]
    /\ seen = [r \in Reader |-> Default]

-----------------------------------------------------------------------------
(* Operations that hold the lock from start to end. *)

VersionOf(obj) == IF obj = None THEN 0 ELSE obj.version

\* What the executor hands over: all writes at one version, above the current
\* version of every object the transaction touches.
Execution(written, deleted, v, data, events) ==
    [written |-> [id \in ObjectID |->
        IF id \in written THEN [id |-> id, version |-> v, data |-> data]
        ELSE None],
     deleted |-> deleted,
     events |-> events]

Commit(written, deleted, v, data, events, digest, info) ==
    /\ \A id \in written \cup deleted : VersionOf(Current(state, id)) < v
    /\ state' = commit(state, Execution(written, deleted, v, data, events),
                       digest, info)
    /\ UNCHANGED <<snapshots, files, reader, seen>>

SetObject(object) ==
    /\ VersionOf(Current(state, object.id)) =< object.version
    /\ state' = set_object(state, object)
    /\ UNCHANGED <<snapshots, files, reader, seen>>

Clear ==
    /\ state' = Default
    /\ UNCHANGED <<snapshots, files, reader, seen>>

Snapshot(s) ==
    /\ snapshots' = [snapshots EXCEPT ![s] = state]
    /\ UNCHANGED <<state, files, reader, seen>>

Restore(s) ==
    /\ snapshots[s] # None
    /\ state' = snapshots[s]
    /\ UNCHANGED <<snapshots, files, reader, seen>>

Export(f) ==
    /\ files' = [files EXCEPT ![f] = export(state)]
    /\ UNCHANGED <<state, snapshots, reader, seen>>

Import(f) ==
    /\ files[f] # None
    /\ state' = import(files[f])
    /\ UNCHANGED <<snapshots, files, reader, seen>>

-----------------------------------------------------------------------------
(* get_objects *)

\* The lock section; with no misses the call returns at once.
ReadOverlay(r, keys) ==
    /\ reader[r].pc = "idle"
    /\ LET slots == MissSlots(state, keys)
       IN  reader' = [reader EXCEPT ![r] =
              [pc |-> IF slots = {} THEN "done" ELSE "fetch",
               keys |-> keys,
               out |-> LocalAnswers(state, keys),
               miss_slots |-> slots,
               attempt |-> 0]]
    /\ seen' = [seen EXCEPT ![r] = state]
    /\ UNCHANGED <<state, snapshots, files>>

FetchMisses(r) ==
    /\ reader[r].pc = "fetch"
    /\ reader' = [reader EXCEPT ![r] = [reader[r] EXCEPT
          !.pc = "done",
          !.out = FillMisses(reader[r].out, reader[r].keys, reader[r].miss_slots)]]
    /\ UNCHANGED <<state, snapshots, files, seen>>

\* Mutation: the attempts start over once they are used up.
FetchFails_StartsOver(r) ==
    /\ reader[r].pc = "fetch"
    /\ reader' = [reader EXCEPT ![r].attempt = (@ + 1) % MAX_ATTEMPTS]
    /\ UNCHANGED <<state, snapshots, files, seen>>

\* with_retry: the network read failed; give up after MAX_ATTEMPTS.
FetchFails(r) ==
    /\ reader[r].pc = "fetch"
    /\ reader' = [reader EXCEPT ![r] = [reader[r] EXCEPT
          !.attempt = reader[r].attempt + 1,
          !.pc = IF reader[r].attempt + 1 >= MAX_ATTEMPTS
                 THEN "failed" ELSE "fetch"]]
    /\ UNCHANGED <<state, snapshots, files, seen>>

\* The caller takes the result and may call again.
Return(r) ==
    /\ reader[r].pc \in {"done", "failed"}
    /\ reader' = [reader EXCEPT ![r] = Idle]
    /\ seen' = [seen EXCEPT ![r] = Default]
    /\ UNCHANGED <<state, snapshots, files>>

-----------------------------------------------------------------------------

Write ==
    \/ \E written, deleted \in SUBSET ObjectID, v \in Version, data \in Data,
          events \in EventChoice, d \in Digest, info \in Info :
            /\ written \cap deleted = {}
            /\ Commit(written, deleted, v, data, events, d, info)
    \/ \E object \in Object : SetObject(object)

Rollback ==
    \/ Clear
    \/ \E s \in Slot : Restore(s)
    \/ \E f \in File : Import(f)

Read ==
    \E r \in Reader :
        \/ \E keys \in Keys : ReadOverlay(r, keys)
        \/ FetchMisses(r)
        \/ FetchFails(r)
        \/ Return(r)

Save ==
    \/ \E s \in Slot : Snapshot(s)
    \/ \E f \in File : Export(f)

Next == Write \/ Rollback \/ Save \/ Read

Spec == Init /\ [][Next]_vars

\* A thread inside get_objects is scheduled until the call returns, whether
\* the network answers or not.
FairSpec == Spec /\ \A r \in Reader : WF_vars(FetchMisses(r) \/ FetchFails(r))

-----------------------------------------------------------------------------
(* Properties. *)

ReaderRecord ==
    [pc : {"idle", "fetch", "done", "failed"},
     keys : Keys \cup {<<>>},
     out : Seq(Maybe(Object)),
     miss_slots : SUBSET Nat,
     attempt : 0 .. MAX_ATTEMPTS]

\* The type of every variable.
TypeOK ==
    /\ state \in OverlayState
    /\ snapshots \in [Slot -> Maybe(OverlayState)]
    /\ files \in [File -> Maybe(PersistedOverlay)]
    /\ reader \in [Reader -> ReaderRecord]
    /\ seen \in [Reader -> OverlayState]

\* Whatever writes, rollbacks and reloads interleave, the live overlay, every
\* snapshot and the overlay a dump would reload are coherent: no id both live
\* and deleted, objects filed under their own id, the execution order listing
\* each recorded transaction once.
StateCoherent ==
    /\ Coherent(state)
    /\ \A s \in Slot : snapshots[s] # None => Coherent(snapshots[s])
    /\ \A f \in File : files[f] # None => Coherent(import(files[f]))

\* A batch read is atomic although the lock is released half-way: a finished
\* get_objects returns for every key, in order, what the overlay state of its
\* lock section gives, "a concurrent reader never observes a half-applied
\* transaction" (store.rs, module comment).
BatchReadsAreAtomic ==
    \A r \in Reader : reader[r].pc = "done" =>
        /\ DOMAIN reader[r].out = DOMAIN reader[r].keys
        /\ \A i \in DOMAIN reader[r].keys :
              reader[r].out[i] = Lookup(seen[r], reader[r].keys[i])

\* Between rollbacks the fork never forgets its opinion about an id: once
\* written or deleted locally, current reads of it cannot fall through to
\* mainnet again (overlay_touched_ids' comment).
TouchedStaysTouched ==
    [][\/ overlay_touched_ids(state) \subseteq overlay_touched_ids(state')
       \/ Rollback]_vars

\* A get_objects call in flight ends, in an answer or an error: the retry
\* of a failing network is bounded.
ReadsTerminate ==
    \A r \in Reader : reader[r].pc = "fetch" ~> reader[r].pc # "fetch"

View ==
    [view : [ObjectID -> Maybe(Object)],
     records : [Digest -> Maybe(Info)],
     order : Seq(Digest),
     balances : [Account -> 0 .. MaxBalance]]

ASSUME NoViewAssumption == None \notin View

ViewOf(s) ==
    [view |-> [id \in ObjectID |-> Current(s, id)],
     records |-> s.transactions,
     order |-> s.executed_order,
     balances |-> s.address_balances]

\* Snapshots and exports, as saved views of the fork.
Copies ==
    [c \in Slot \cup File |->
        IF c \in Slot
        THEN IF snapshots[c] = None THEN None ELSE ViewOf(snapshots[c])
        ELSE IF files[c] = None THEN None ELSE ViewOf(import(files[c]))]

Abstract == INSTANCE ForkView WITH
    Id <- ObjectID,
    Value <- Maybe(Object),
    Copy <- Slot \cup File,
    Fork <- [id \in ObjectID |-> Mainnet[id][AtFork]],
    view <- ViewOf(state).view,
    records <- ViewOf(state).records,
    order <- ViewOf(state).order,
    balances <- ViewOf(state).balances,
    copies <- Copies

\* The overlay implements a private writable copy of the chain: with the map
\* of local writes, the tombstones and the fall-through read hidden, it is
\* the fork view.
ImplementsForkView == Abstract!Spec
=============================================================================
