------------------------------- MODULE Ledger -------------------------------
(***************************************************************************)
(* The fork as the read-side services of src/src/serve.rs see it: an       *)
(* overlay that changes under them, one whole write at a time.             *)
(*                                                                         *)
(* What a transaction does is external (the Move VM); the ones here move   *)
(* coins between owners, objects and address balances, and mint and burn   *)
(* them under the type's treasury cap, which holds the total supply.       *)
(***************************************************************************)
EXTENDS Overlay

CONSTANTS
    Owner,       \* addresses and parent objects
    Type,        \* coin types
    MaxWrites    \* bound on writes to the overlay

ASSUME AccountAssumption == Account = Owner \X Type
ASSUME WritesAssumption == MaxWrites \in Nat

\* An object is a coin or a treasury cap, whose value is the total supply.
ASSUME DataAssumption ==
    Data \subseteq [kind : {"coin", "cap"}, type : Type, owner : Owner, value : Nat]

\* An object as a transaction leaves it: a type's supply may be counted below 0.
Asset ==
    [id : ObjectID, version : Nat,
     data : [kind : {"coin", "cap"}, type : Type, owner : Owner, value : Int]]

ASSUME NoAssetAssumption == None \notin Asset

VARIABLES
    state,   \* OverlayStore::state
    saved,   \* the overlay of a snapshot, or None
    writes   \* writes to the overlay so far

ledger == <<state, saved, writes>>

LedgerInit ==
    /\ state = Default
    /\ saved = None
    /\ writes = 0

Exists(s, id) == Current(s, id) # None

OwnedBy(s, id, owner) == Exists(s, id) /\ Current(s, id).data.owner = owner

IsKind(s, id, kind) == Exists(s, id) /\ Current(s, id).data.kind = kind

Coins(s) == {id \in ObjectID : IsKind(s, id, "coin")}
Caps(s) == {id \in ObjectID : IsKind(s, id, "cap")}

\* Ids no object has or had, which a new coin may get.
Fresh(s) == {id \in ObjectID : ~Exists(s, id)} \ s.tombstones

Quiet == [operation |-> "Ignored", amount |-> 0]

\* The effects of a transaction: objects it leaves behind, objects it deletes
\* or wraps, and what it does to address balances.
TransactionEffects(objects, deleted, events) ==
    [written |-> [id \in ObjectID |->
        IF id \in DOMAIN objects
        THEN [id |-> id, data |-> objects[id],
              version |-> IF Exists(state, id) THEN Current(state, id).version + 1
                          ELSE 1]
        ELSE None],
     deleted |-> deleted,
     events |-> [a \in Account |-> IF a \in DOMAIN events THEN events[a] ELSE Quiet]]

\* Writes number the digests, so a digest is never used twice.
CommitEffects(objects, deleted, events) ==
    \E info \in Info :
        state' = commit(state, TransactionEffects(objects, deleted, events),
                        writes + 1, info)

Restrained == writes < MaxWrites /\ writes' = writes + 1

Nothing == [x \in {} |-> None]
One(x, v) == [y \in {x} |-> v]

Coin(type, owner, value) ==
    [kind |-> "coin", type |-> type, owner |-> owner, value |-> value]

Transfer ==
    \E id \in Coins(state) \cup Caps(state) :
    \E to \in Owner \ {Current(state, id).data.owner} :
        CommitEffects(One(id, [Current(state, id).data EXCEPT !.owner = to]),
                      {}, Nothing)

\* A coin becomes part of its recipient's address balance.
Deposit ==
    \E id \in Coins(state), to \in Owner :
        LET coin == Current(state, id).data IN
        CommitEffects(Nothing, {id},
            One(<<to, coin.type>>, [operation |-> "Merge", amount |-> coin.value]))

\* A coin is made out of an address balance, or out of a part of it.
Withdraw ==
    \E id \in Fresh(state), a \in Account :
    \E amount \in 1 .. state.address_balances[a] :
        CommitEffects(One(id, Coin(a[2], a[1], amount)), {},
                      One(a, [operation |-> "Split", amount |-> amount]))

Mint ==
    \E cap \in Caps(state), id \in Fresh(state), to \in Owner :
        LET treasury == Current(state, cap).data IN
        CommitEffects([x \in {cap, id} |->
                          IF x = id THEN Coin(treasury.type, to, 1)
                          ELSE [treasury EXCEPT !.value = @ + 1]],
                      {}, Nothing)

Burn ==
    \E cap \in Caps(state), id \in Coins(state) :
        LET treasury == Current(state, cap).data
            coin == Current(state, id).data
        IN  /\ coin.type = treasury.type
            /\ CommitEffects(One(cap, [treasury EXCEPT !.value = @ - coin.value]),
                             {id}, Nothing)

\* The cap is wrapped into another object, or deleted: nothing is minted after.
Wrap == \E cap \in Caps(state) : CommitEffects(Nothing, {cap}, Nothing)

Transact ==
    /\ Restrained
    /\ Transfer \/ Deposit \/ Withdraw \/ Mint \/ Burn \/ Wrap
    /\ UNCHANGED saved

TakeSnapshot ==
    /\ saved = None
    /\ saved' = state
    /\ UNCHANGED <<state, writes>>

\* revert brings the snapshot back, reset the fork point.
Rollback ==
    /\ Restrained
    /\ \/ saved # None /\ state' = saved /\ UNCHANGED saved
       \/ state' = Default /\ saved' = None

Write == Transact \/ TakeSnapshot \/ Rollback
=============================================================================
