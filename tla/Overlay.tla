------------------------------ MODULE Overlay ------------------------------
(***************************************************************************)
(* The data of the fork overlay (src/src/store.rs): the state kept behind  *)
(* OverlayStore's lock, and every function the store applies to it, as     *)
(* operators from one overlay state to the next.  No variables here.       *)
(*                                                                         *)
(* Abstractions.  A map with optional entries is a total function with     *)
(* None for an absent key.  Contents, digests, transaction records and     *)
(* (owner, coin type) pairs are opaque values.  The backing network store  *)
(* is the constant function Mainnet: reads of it are immutable.            *)
(***************************************************************************)
EXTENDS Integers, Sequences, FiniteSets, Functions

CONSTANTS
    ObjectID,         \* object ids
    Version,          \* object versions (SequenceNumber); finite under TLC
    Data,             \* Move contents, with owner and type
    Digest,           \* transaction digests
    Info,             \* TransactionInfo records
    Account,          \* (owner, canonical coin type) pairs
    MaxBalance,       \* u128::MAX
    fork_checkpoint,  \* the checkpoint the fork branched from
    Mainnet,          \* the backing store: what it answers to each query
    None              \* an absent map entry, Option::None

ASSUME VersionAssumption == Version \subseteq Nat
ASSUME MaxBalanceAssumption == MaxBalance \in Nat
ASSUME CheckpointAssumption == fork_checkpoint \in Nat

Object == [id : ObjectID, version : Version, data : Data]

Maybe(S) == S \cup {None}

\* VersionQuery::{Version, RootVersion, AtCheckpoint}(n)
Query == [kind : {"Version", "RootVersion", "AtCheckpoint"},
          n : Version \cup {fork_checkpoint}]

ObjectKey == [object_id : ObjectID, version_query : Query]

\* The network answers about the object it was asked for.
ASSUME MainnetAssumption ==
    /\ None \notin Object \cup Info
    /\ Mainnet \in [ObjectID -> [Query -> Maybe(Object)]]
    /\ \A id \in ObjectID, q \in Query :
          Mainnet[id][q] # None => Mainnet[id][q].id = id

OverlayState ==
    [objects : [ObjectID -> Maybe(Object)],
     tombstones : SUBSET ObjectID,
     transactions : [Digest -> Maybe(Info)],
     executed_order : Seq(Digest),
     address_balances : [Account -> 0 .. MaxBalance]]

\* OverlayState::default()
Default ==
    [objects |-> [id \in ObjectID |-> None],
     tombstones |-> {},
     transactions |-> [d \in Digest |-> None],
     executed_order |-> <<>>,
     address_balances |-> [a \in Account |-> 0]]

\* An absent entry is no overlay state.
ASSUME NoneAssumption == None \notin OverlayState

-----------------------------------------------------------------------------
(* Reads. *)

is_current_query(q) == q.kind # "Version"

overlay_match(obj, q) ==
    CASE q.kind = "Version"      -> obj.version = q.n
      [] q.kind = "RootVersion"  -> obj.version =< q.n
      [] q.kind = "AtCheckpoint" -> TRUE

Hit(s, key) ==
    LET obj == s.objects[key.object_id]
    IN  obj # None /\ overlay_match(obj, key.version_query)

Suppressed(s, key) ==
    /\ key.object_id \in s.tombstones
    /\ is_current_query(key.version_query)

\* get_objects, first half: under the read lock, answer what the overlay can.
LocalAnswers(s, keys) ==
    [i \in DOMAIN keys |->
        IF Hit(s, keys[i]) THEN s.objects[keys[i].object_id] ELSE None]

MissSlots(s, keys) ==
    {i \in DOMAIN keys : ~Hit(s, keys[i]) /\ ~Suppressed(s, keys[i])}

\* Mutation: the fetched values overwrite the overlay's hits.
FillMisses_AllSlots(out, keys, slots) ==
    [i \in DOMAIN keys |-> Mainnet[keys[i].object_id][keys[i].version_query]]

\* get_objects, second half: the deferred keys, fetched and put in their slots.
FillMisses(out, keys, slots) ==
    [i \in DOMAIN keys |->
        IF i \in slots
        THEN Mainnet[keys[i].object_id][keys[i].version_query]
        ELSE out[i]]

\* What one read of `key` returns when nothing happens meanwhile.
Lookup(s, key) ==
    IF Hit(s, key) THEN s.objects[key.object_id]
    ELSE IF Suppressed(s, key) THEN None
    ELSE Mainnet[key.object_id][key.version_query]

AtFork == [kind |-> "AtCheckpoint", n |-> fork_checkpoint]

\* Fork::object: overlay first, otherwise mainnet at the fork checkpoint.
Current(s, id) == Lookup(s, [object_id |-> id, version_query |-> AtFork])

overlay_touched_ids(s) ==
    {id \in ObjectID : s.objects[id] # None} \cup s.tombstones

-----------------------------------------------------------------------------
(* Writes. *)

Event == [operation : {"Merge", "Split", "Ignored"}, amount : Nat]

\* The effects a commit is given: the written objects by id, the ids deleted
\* or wrapped, and the accumulator write of each account.
Effects ==
    {e \in [written : [ObjectID -> Maybe(Object)],
            deleted : SUBSET ObjectID,
            events : [Account -> Event]] :
        \A id \in ObjectID : e.written[id] # None => e.written[id].id = id}

WrittenIds(e) == {id \in ObjectID : e.written[id] # None}

\* Mutation: u128 additions that do not saturate.
apply_accumulator_event_Overflows(balance, event) ==
    CASE event.operation = "Merge" -> balance + event.amount
      [] event.operation = "Split" ->
            IF event.amount =< balance THEN balance - event.amount ELSE 0
      [] OTHER -> balance

\* saturating_add and saturating_sub on u128
apply_accumulator_event(balance, event) ==
    CASE event.operation = "Merge" ->
            IF balance + event.amount =< MaxBalance
            THEN balance + event.amount ELSE MaxBalance
      [] event.operation = "Split" ->
            IF event.amount =< balance THEN balance - event.amount ELSE 0
      [] OTHER -> balance

\* Mutation: a deleted object is dropped without a tombstone.
commit_NoTombstone(s, e, digest, info) ==
    [objects |-> [id \in ObjectID |->
        IF id \in e.deleted THEN None
        ELSE IF id \in WrittenIds(e) THEN e.written[id]
        ELSE s.objects[id]],
     tombstones |-> s.tombstones \ WrittenIds(e),
     transactions |-> [s.transactions EXCEPT ![digest] = info],
     executed_order |-> IF s.transactions[digest] = None
                        THEN Append(s.executed_order, digest)
                        ELSE s.executed_order,
     address_balances |-> [a \in Account |->
        apply_accumulator_event(s.address_balances[a], e.events[a])]]

commit(s, e, digest, info) ==
    [objects |-> [id \in ObjectID |->
        IF id \in e.deleted THEN None
        ELSE IF id \in WrittenIds(e) THEN e.written[id]
        ELSE s.objects[id]],
     tombstones |-> (s.tombstones \ WrittenIds(e)) \cup e.deleted,
     transactions |-> [s.transactions EXCEPT ![digest] = info],
     executed_order |-> IF s.transactions[digest] = None
                        THEN Append(s.executed_order, digest)
                        ELSE s.executed_order,
     address_balances |-> [a \in Account |->
        apply_accumulator_event(s.address_balances[a], e.events[a])]]

\* Mutation: a cheat's write leaves the tombstone.
set_object_KeepsTombstone(s, object) ==
    [s EXCEPT !.objects[object.id] = object]

set_object(s, object) ==
    [s EXCEPT !.objects[object.id] = object,
              !.tombstones = @ \ {object.id}]

-----------------------------------------------------------------------------
(* Persistence.  The maps are written as collections of their entries, the *)
(* objects without their keys; import builds the maps again.               *)

PersistedOverlay ==
    [objects : SUBSET Object,
     tombstones : SUBSET ObjectID,
     transactions : SUBSET (Digest \X Info),
     executed_order : Seq(Digest),
     address_balances : [Account -> 0 .. MaxBalance]]

ASSUME NoFileAssumption == None \notin PersistedOverlay

\* Mutation: the ids deleted on the fork are not in the file.
export_NoTombstones(s) ==
    [objects |-> {s.objects[id] : id \in {i \in ObjectID : s.objects[i] # None}},
     tombstones |-> {},
     transactions |-> {<<d, s.transactions[d]>> :
                          d \in {x \in Digest : s.transactions[x] # None}},
     executed_order |-> s.executed_order,
     address_balances |-> s.address_balances]

export(s) ==
    [objects |-> {s.objects[id] : id \in {i \in ObjectID : s.objects[i] # None}},
     tombstones |-> s.tombstones,
     transactions |-> {<<d, s.transactions[d]>> :
                          d \in {x \in Digest : s.transactions[x] # None}},
     executed_order |-> s.executed_order,
     address_balances |-> s.address_balances]

import(p) ==
    [objects |-> [id \in ObjectID |->
        IF \E o \in p.objects : o.id = id
        THEN CHOOSE o \in p.objects : o.id = id
        ELSE None],
     tombstones |-> p.tombstones,
     transactions |-> [d \in Digest |->
        IF \E t \in p.transactions : t[1] = d
        THEN (CHOOSE t \in p.transactions : t[1] = d)[2]
        ELSE None],
     executed_order |-> p.executed_order,
     address_balances |-> p.address_balances]

-----------------------------------------------------------------------------
(* What a well-formed overlay state is. *)

\* An object is live or deleted, never both.
LiveOrDeleted(s) ==
    \A id \in s.tombstones : s.objects[id] = None

\* An object is filed under its own id.
KeyedById(s) ==
    \A id \in ObjectID : s.objects[id] # None => s.objects[id].id = id

\* The execution order lists each recorded transaction exactly once.
OrderMatchesRecords(s) ==
    /\ IsInjective(s.executed_order)
    /\ Range(s.executed_order) = {d \in Digest : s.transactions[d] # None}

Coherent(s) == LiveOrDeleted(s) /\ KeyedById(s) /\ OrderMatchesRecords(s)
=============================================================================
