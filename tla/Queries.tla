------------------------------ MODULE Queries ------------------------------
(***************************************************************************)
(* The StateService queries of src/src/serve.rs - GetBalance, ListBalances,*)
(* GetCoinInfo, ListDynamicFields, ListOwnedObjects - while the fork       *)
(* changes.  A query reads the overlay several times, taking its lock anew *)
(* each time, and the live network (src/src/gql.rs) in between.            *)
(*                                                                         *)
(* A field of a parent is any object it owns.                              *)
(***************************************************************************)
EXTENDS Ledger, FiniteSetsExt

CONSTANTS
    ObjectFields,  \* the fields that are dynamic object fields on the network
    PageCap,       \* coins owned_coin_values lists at most (8 pages of 50)
    Limits,        \* page sizes ListDynamicFields requests give
    MAX_LIMIT,     \* what they are clamped to (1000)
    MaxQueries     \* bound on queries

ASSUME LimitsAssumption ==
    /\ PageCap \in Nat \ {0} /\ MAX_LIMIT \in Nat \ {0}
    /\ Limits \subseteq Nat
\* An object id is 32 bytes, and so is an address.
ASSUME IdsAssumption == IsFiniteSet(ObjectID) /\ IsFiniteSet(Owner)

VARIABLES
    query,     \* the query under way: pc, what it asks and what it has read
    queries,   \* queries made so far
    changed,   \* history: the overlay was written since the query began
    rolled     \* history: it was rolled back since then

vars == <<ledger, query, queries, changed, rolled>>

IdleQuery ==
    [pc |-> "idle", kind |-> "none", owner |-> None, type |-> None, limit |-> 0,
     local |-> {}, touched |-> {}, network |-> {}, types |-> {}, cut |-> FALSE,
     out |-> {}]

Init ==
    /\ LedgerInit
    /\ query = IdleQuery
    /\ queries = 0
    /\ changed = FALSE
    /\ rolled = FALSE

Begin ==
    /\ query.pc = "idle"
    /\ queries < MaxQueries
    /\ queries' = queries + 1
    /\ changed' = FALSE
    /\ rolled' = FALSE
    /\ UNCHANGED ledger

\* A step of the query under way.
Reads(pc) == query.pc = pc /\ UNCHANGED <<ledger, queries, changed, rolled>>

-----------------------------------------------------------------------------
(* What the overlay holds. *)

overlay_objects(s) == {s.objects[id] : id \in ObjectID} \ {None}

overlay_objects_of(s, owner) == {o \in overlay_objects(s) : o.data.owner = owner}

IsCoin(o) == o.data.kind = "coin"

\* coin_value_for: the coins of one type.
coins_of(s, owner, type) ==
    {o \in overlay_objects_of(s, owner) : IsCoin(o) /\ o.data.type = type}

\* Mutation: objects the fork created are at version 1 and left out.
list_owned_objects_MainnetOnly(s, owner) ==
    {o.id : o \in {x \in overlay_objects_of(s, owner) : x.version > 1}}

\* list_owned_objects: one read of the overlay is the whole answer.
list_owned_objects(s, owner) == {o.id : o \in overlay_objects_of(s, owner)}

LocalIds == {o.id : o \in query.local}

\* The live network (GraphQL) lists what it has now; here that is what it had
\* at the fork point, without drift.
Live == [owner \in Owner |-> {id \in ObjectID : OwnedBy(Default, id, owner)}]

OnNetwork == [id \in UNION Range(Live) |-> Current(Default, id).data]

-----------------------------------------------------------------------------
(* GetBalance: compute_balance for one type. *)

BeginBalance ==
    /\ Begin
    /\ \E owner \in Owner, type \in Type :
          query' = [IdleQuery EXCEPT
              !.pc = "touched", !.kind = "balance", !.owner = owner,
              !.type = type, !.local = coins_of(state, owner, type)]

\* Mutation: only the deleted ids are left out of the network's answer.
ReadTouched_Tombstones ==
    /\ Reads("touched")
    /\ query' = [query EXCEPT !.touched = state.tombstones,
                              !.pc = "network_coins"]

\* compute_balance: the ids the overlay accounts for.
ReadTouched ==
    /\ Reads("touched")
    /\ query' = [query EXCEPT !.touched = overlay_touched_ids(state),
                              !.pc = "network_coins"]

network_coins(owner, type) ==
    {id \in Live[owner] : OnNetwork[id].kind = "coin" /\ OnNetwork[id].type = type}

\* owned_coin_values: the coins of that type, no more than the page cap.
owned_coin_values(owner, type) ==
    kSubset(Min({PageCap, Cardinality(network_coins(owner, type))}),
            network_coins(owner, type))

\* Mutation: only what the overlay gave is left out, deleted coins are not.
ReadNetworkCoins_LocalOnly ==
    /\ Reads("network_coins")
    /\ \E listed \in owned_coin_values(query.owner, query.type) :
          query' = [query EXCEPT !.network = listed \ LocalIds,
                                 !.pc = "address_balance"]

\* The owner's coins on the live network, less what the overlay touched.
ReadNetworkCoins ==
    /\ Reads("network_coins")
    /\ \E listed \in owned_coin_values(query.owner, query.type) :
          query' = [query EXCEPT !.network = listed \ query.touched,
                                 !.pc = "address_balance"]

\* The sum: coins of the overlay, coins of the network, address balance.
Total(address_balance) ==
    SumFunction([o \in query.local |-> o.data.value])
    + SumFunction([id \in query.network |-> OnNetwork[id].value])
    + address_balance

\* GetBalance is done; ListBalances goes on, keeping what is not zero.
ReadAddressBalance ==
    /\ Reads("address_balance")
    /\ LET total == Total(state.address_balances[<<query.owner, query.type>>])
       IN  query' = [query EXCEPT
              !.out = IF query.kind = "balances" /\ total = 0 THEN @
                      ELSE @ \cup {<<query.type, total>>},
              !.pc = IF query.kind = "balances" THEN "next_type" ELSE "answered"]

-----------------------------------------------------------------------------
(* ListBalances: the types the owner may have, then compute_balance each.  *)

BeginBalances ==
    /\ Begin
    /\ \E owner \in Owner :
          query' = [IdleQuery EXCEPT
              !.pc = "address_types", !.kind = "balances", !.owner = owner,
              !.types = {o.data.type :
                  o \in {x \in overlay_objects_of(state, owner) : IsCoin(x)}}]

\* Mutation: types held in an address balance only are forgotten.
ReadAddressTypes_None ==
    /\ Reads("address_types")
    /\ query' = [query EXCEPT !.pc = "network_types"]

\* address_balances_of
ReadAddressTypes ==
    /\ Reads("address_types")
    /\ query' = [query EXCEPT
          !.types = @ \cup {type \in Type :
                        state.address_balances[<<query.owner, type>>] > 0},
          !.pc = "network_types"]

\* Gql::address_balances; when it fails the types only the network knows are
\* left out without a word.
ReadNetworkTypes ==
    /\ Reads("network_types")
    /\ \/ query' = [query EXCEPT
              !.types = @ \cup {OnNetwork[id].type :
                  id \in {x \in Live[query.owner] : OnNetwork[x].kind = "coin"}},
              !.pc = "next_type"]
       \/ query' = [query EXCEPT !.cut = TRUE, !.pc = "next_type"]

\* The types come in the order of their names, which is any order here.
NextType ==
    /\ Reads("next_type")
    /\ \/ /\ query.types = {}
          /\ query' = [query EXCEPT !.pc = "answered"]
       \/ \E type \in query.types :
            query' = [query EXCEPT
              !.type = type, !.types = @ \ {type},
              !.local = coins_of(state, query.owner, type), !.pc = "touched"]

-----------------------------------------------------------------------------
(* GetCoinInfo: the treasury cap of the overlay, or the network's supply.  *)
(* The network is asked in any case for the metadata, which the overlay    *)
(* does not have for a type of mainnet's.                                  *)

BeginInfo ==
    /\ Begin
    /\ \E type \in Type :
          query' = [IdleQuery EXCEPT
              !.pc = "network_info", !.kind = "info", !.type = type,
              !.local = {o \in overlay_objects(state) :
                            ~IsCoin(o) /\ o.data.type = type}]

MainnetCaps(type) ==
    {id \in Caps(Default) : OnNetwork[id].type = type}

\* Mutation: the network's supply is preferred.
ReadNetworkInfo_NetworkFirst ==
    /\ Reads("network_info")
    /\ query' = [query EXCEPT
          !.out = {OnNetwork[id].value : id \in MainnetCaps(query.type)},
          !.pc = "answered"]

\* coin_info
ReadNetworkInfo ==
    /\ Reads("network_info")
    /\ query' = [query EXCEPT
          !.out = IF query.local # {} THEN {o.data.value : o \in query.local}
                  ELSE {OnNetwork[id].value : id \in MainnetCaps(query.type)},
          !.pc = "answered"]

-----------------------------------------------------------------------------
(* ListDynamicFields *)

\* The page size asked for, clamped.
Clamped(limit) == Min({Max({limit, 1}), MAX_LIMIT})

\* The overlay's fields, which may fill the page.
BeginFields ==
    /\ Begin
    /\ \E owner \in Owner, limit \in {Clamped(l) : l \in Limits} :
       LET fields == overlay_objects_of(state, owner)
           full == Cardinality(fields) >= limit
       IN \E page \in IF full THEN kSubset(limit, fields) ELSE {fields} :
          query' = [IdleQuery EXCEPT
              !.pc = IF full THEN "answered" ELSE "network_fields",
              !.kind = "fields", !.owner = owner, !.limit = limit, !.local = page]

\* Gql::dynamic_fields
network_fields(parent, limit) ==
    kSubset(Min({limit, Cardinality(Live[parent])}), Live[parent])

\* Mutation: the network is asked for as many fields as are wanting.
ReadNetworkFields_Wanting ==
    /\ Reads("network_fields")
    /\ \E listed \in network_fields(query.owner, query.limit - Cardinality(query.local)) :
          query' = [query EXCEPT !.network = listed \ (LocalIds \ ObjectFields),
                                 !.pc = "answered"]

\* The parent's fields on the live network, less those found in the overlay,
\* as far as the page goes.  A field is told by the id its name gives, which
\* is not the id of a dynamic object field (its name is wrapped).
ReadNetworkFields ==
    /\ Reads("network_fields")
    /\ \E listed \in network_fields(query.owner, query.limit) :
       LET others == listed \ (LocalIds \ ObjectFields)
           room == query.limit - Cardinality(query.local)
       IN \E page \in kSubset(Min({room, Cardinality(others)}), others) :
          query' = [query EXCEPT !.network = page, !.pc = "answered"]

-----------------------------------------------------------------------------

\* GraphQL failed: the query is answered with an error.
NetworkFails ==
    /\ \E pc \in {"network_coins", "network_fields", "network_info"} : Reads(pc)
    /\ query' = IdleQuery

Answer == Reads("answered") /\ query' = IdleQuery

Interfere ==
    /\ Write
    /\ changed' = (changed \/ state' # state)
    /\ rolled' = (rolled \/ Rollback)
    /\ UNCHANGED <<query, queries>>

Done ==
    /\ query.pc = "idle" /\ queries = MaxQueries /\ writes = MaxWrites
    /\ UNCHANGED vars

Next ==
    \/ BeginBalance \/ ReadTouched \/ ReadNetworkCoins \/ ReadAddressBalance
    \/ BeginBalances \/ ReadAddressTypes \/ ReadNetworkTypes \/ NextType
    \/ BeginInfo \/ ReadNetworkInfo
    \/ BeginFields \/ ReadNetworkFields
    \/ NetworkFails
    \/ Answer
    \/ Interfere
    \/ Done

Spec == Init /\ [][Next]_vars

-----------------------------------------------------------------------------

\* What the owner has on the fork, in coins of the type and in address balance.
CoinsOwned(s, owner, type) ==
    {id \in Coins(s) : Current(s, id).data.owner = owner
                       /\ Current(s, id).data.type = type}

Owned(s, owner, type) ==
    SumFunction([id \in CoinsOwned(s, owner, type) |-> Current(s, id).data.value])
    + s.address_balances[<<owner, type>>]

Circulation(s, type) ==
    SumFunction([owner \in Owner |-> Owned(s, owner, type)])

\* On mainnet a coin type has at most one treasury cap, whose value is what
\* circulates; and a u128 has room for it and for what the fork mints.
ASSUME SupplyAssumption ==
    /\ \A c, d \in Caps(Default) :
          Current(Default, c).data.type = Current(Default, d).data.type => c = d
    /\ \A c \in Caps(Default) :
          LET cap == Current(Default, c).data
          IN  /\ cap.value = Circulation(Default, cap.type)
              /\ cap.value + MaxWrites =< MaxBalance

Answered(kind) == query.pc = "answered" /\ query.kind = kind

\* More coins on the network than are listed.
Truncated(owner, type) ==
    Cardinality(network_coins(owner, type)) > PageCap

\* A balance GetBalance or ListBalances reports is the owner's, coins and
\* address balance, when nothing was written while it was computed: "as the
\* fork sees it" (serve.rs:672-673).  With more coins on the network than the
\* page cap it is less, never more.
QuietBalancesAreExact ==
    ~changed /\ (Answered("balance") \/ Answered("balances")) =>
        \A b \in query.out :
            LET owned == Owned(state, query.owner, b[1])
            IN  IF Truncated(query.owner, b[1]) THEN b[2] =< owned ELSE b[2] = owned

\* ListBalances misses no type the owner has something of, when nothing was
\* written meanwhile - unless the network did not answer, or not completely,
\* and then only a type it has coins of.
QuietBalancesAreComplete ==
    Answered("balances") /\ ~changed =>
        \A type \in Type :
            \/ Owned(state, query.owner, type) = 0
            \/ \E b \in query.out : b[1] = type
            \/ /\ query.cut \/ Truncated(query.owner, type)
               /\ \E id \in Live[query.owner] : OnNetwork[id].type = type

\* Even with writes between the reads, no coin is counted both from the
\* overlay and from the network - unless the overlay was rolled back between:
\* what compute_balance found in the overlay is still touched when it looks.
NoCoinCountedTwice ==
    query.pc = "address_balance" /\ ~rolled => LocalIds \cap query.network = {}

\* The total supply GetCoinInfo reports, when nothing was written meanwhile, is
\* what circulates on the fork, in coins and address balances, minted and
\* burned ones accounted for - as long as the treasury cap is not wrapped.
QuietSupplyIsCirculation ==
    Answered("info") /\ ~changed /\ MainnetCaps(query.type) \cap state.tombstones = {}
        => query.out \subseteq {Circulation(state, query.type)}

\* ListDynamicFields, when nothing was written meanwhile, lists all fields or
\* fills its page; it lists one the parent no longer has only where the fork
\* touched it, and one twice only if it is a dynamic object field.
FieldsWrongOnlyWhereTouched ==
    Answered("fields") /\ ~changed =>
        LET listed == LocalIds \cup query.network
            entries == Cardinality(LocalIds) + Cardinality(query.network)
            fields == {id \in ObjectID : OwnedBy(state, id, query.owner)}
        IN  /\ fields \subseteq listed \/ entries = query.limit
            /\ entries =< query.limit
            /\ listed \ fields \subseteq overlay_touched_ids(state)
            /\ LocalIds \cap query.network \subseteq ObjectFields

\* ListOwnedObjects reads the overlay only, which covers every owner that owns
\* nothing on mainnet: "Fork-created accounts are fully covered"
\* (serve.rs:812-813).
ForkAccountsAreListed ==
    \A owner \in Owner : Live[owner] = {} =>
        list_owned_objects(state, owner)
            = {id \in ObjectID : OwnedBy(state, id, owner)}
=============================================================================
