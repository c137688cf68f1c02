---------------------------- MODULE OverlayProofs ----------------------------
(***************************************************************************)
(* What the functions on overlay states preserve and return, for any       *)
(* overlay and any network: lemmas the other proof modules cite.           *)
(***************************************************************************)
EXTENDS Overlay, TLAPS

\* No local state: every read falls through to mainnet.
LEMMA DefaultLemma ==
    /\ Default \in OverlayState
    /\ Coherent(Default)
<1>1. Default \in OverlayState
  <2>1. Default.executed_order \in Seq(Digest) /\ 0 \in 0 .. MaxBalance
    BY MaxBalanceAssumption DEF Default
  <2>. QED BY <2>1 DEF Default, OverlayState, Maybe
<1>2. LiveOrDeleted(Default) /\ KeyedById(Default)
  BY DEF Default, LiveOrDeleted, KeyedById
<1>3. OrderMatchesRecords(Default)
  BY DEF Default, OrderMatchesRecords, IsInjective, Range
<1>. QED BY <1>1, <1>2, <1>3 DEF Coherent

\* Appending a digest that is not recorded yet, and recording it, keeps the
\* execution order and the records in step; so does replacing a record.
LEMMA RecordLemma ==
    ASSUME NEW s \in OverlayState, OrderMatchesRecords(s),
           NEW e, NEW d \in Digest, NEW info \in Info
    PROVE  OrderMatchesRecords(commit(s, e, d, info))
<1>. DEFINE c == commit(s, e, d, info)
<1>1. /\ s.executed_order \in Seq(Digest)
      /\ s.transactions \in [Digest -> Maybe(Info)]
  BY DEF OverlayState
<1>2. info # None
  BY MainnetAssumption
<1>3. c.transactions = [s.transactions EXCEPT ![d] = info]
  BY DEF commit
<1>4. {x \in Digest : c.transactions[x] # None}
        = {x \in Digest : s.transactions[x] # None} \cup {d}
  BY <1>1, <1>2, <1>3
<1>5. CASE s.transactions[d] = None
  <2>1. c.executed_order = Append(s.executed_order, d)
    BY <1>5 DEF commit
  <2>2. d \notin Range(s.executed_order)
    BY <1>5 DEF OrderMatchesRecords
  <2>3. Range(c.executed_order) = Range(s.executed_order) \cup {d}
    <3>1. DOMAIN c.executed_order = 1 .. Len(s.executed_order) + 1
      BY <1>1, <2>1
    <3>2. \A i \in 1 .. Len(s.executed_order) :
             c.executed_order[i] = s.executed_order[i]
      BY <1>1, <2>1
    <3>3. c.executed_order[Len(s.executed_order) + 1] = d
      BY <1>1, <2>1
    <3>. QED BY <1>1, <3>1, <3>2, <3>3 DEF Range
  <2>4. IsInjective(c.executed_order)
    BY <1>1, <2>1, <2>2 DEF OrderMatchesRecords, IsInjective, Range
  <2>. QED BY <1>4, <2>3, <2>4 DEF OrderMatchesRecords
<1>6. CASE s.transactions[d] # None
  <2>1. c.executed_order = s.executed_order
    BY <1>6 DEF commit
  <2>. QED BY <1>4, <1>6, <2>1 DEF OrderMatchesRecords
<1>. QED BY <1>5, <1>6

\* What a transaction commits leaves a coherent overlay, whatever it wrote,
\* deleted or deposited.
LEMMA CommitLemma ==
    ASSUME NEW s \in OverlayState, Coherent(s), NEW e \in Effects,
           NEW d \in Digest, NEW info \in Info
    PROVE  /\ commit(s, e, d, info) \in OverlayState
           /\ Coherent(commit(s, e, d, info))
<1>. DEFINE c == commit(s, e, d, info)
<1>0. /\ e.written \in [ObjectID -> Maybe(Object)]
      /\ e.deleted \in SUBSET ObjectID
      /\ e.events \in [Account -> Event]
      /\ \A id \in ObjectID : e.written[id] # None => e.written[id].id = id
  BY DEF Effects
<1>1. /\ s.objects \in [ObjectID -> Maybe(Object)]
      /\ s.tombstones \in SUBSET ObjectID
      /\ s.transactions \in [Digest -> Maybe(Info)]
      /\ s.executed_order \in Seq(Digest)
      /\ s.address_balances \in [Account -> 0 .. MaxBalance]
  BY DEF OverlayState
<1>2. c \in OverlayState
  <2>1. c.objects \in [ObjectID -> Maybe(Object)]
    BY <1>0, <1>1 DEF commit, Maybe
  <2>2. c.tombstones \in SUBSET ObjectID
    BY <1>0, <1>1 DEF commit
  <2>3. c.transactions \in [Digest -> Maybe(Info)]
    BY <1>1 DEF commit, Maybe
  <2>4. c.executed_order \in Seq(Digest)
    BY <1>1 DEF commit
  <2>5. ASSUME NEW a \in Account
        PROVE  apply_accumulator_event(s.address_balances[a], e.events[a])
                   \in 0 .. MaxBalance
    <3>1. s.address_balances[a] \in 0 .. MaxBalance
      BY <1>1
    <3>2. e.events[a].amount \in Nat
      BY <1>0 DEF Event
    <3>. QED BY <3>1, <3>2, MaxBalanceAssumption DEF apply_accumulator_event
  <2>6. c.address_balances \in [Account -> 0 .. MaxBalance]
    BY <2>5 DEF commit
  <2>. QED BY <2>1, <2>2, <2>3, <2>4, <2>6 DEF commit, OverlayState
<1>3. LiveOrDeleted(c)
  BY <1>0, <1>1 DEF Coherent, LiveOrDeleted, commit, WrittenIds
<1>4. KeyedById(c)
  BY <1>0, <1>1 DEF Coherent, KeyedById, commit, WrittenIds
<1>5. OrderMatchesRecords(c)
  BY RecordLemma DEF Coherent
<1>. QED BY <1>2, <1>3, <1>4, <1>5 DEF Coherent

\* Whatever a transaction does, the overlay keeps an opinion about every id it
\* had one about, and files what is written under its id.
LEMMA CommitTouches ==
    ASSUME NEW s, NEW e, NEW d, NEW info
    PROVE  overlay_touched_ids(s) \subseteq overlay_touched_ids(commit(s, e, d, info))
BY DEF overlay_touched_ids, commit, WrittenIds

\* A commit whose effects are keyed by identifier leaves the overlay so.
LEMMA CommitKeyed ==
    ASSUME NEW s, KeyedById(s), NEW e, NEW d, NEW info,
           \A id \in ObjectID : e.written[id] # None => e.written[id].id = id
    PROVE  KeyedById(commit(s, e, d, info))
BY DEF KeyedById, commit, WrittenIds

\* A cheat's write leaves a coherent overlay.
LEMMA SetObjectLemma ==
    ASSUME NEW s \in OverlayState, Coherent(s), NEW object \in Object
    PROVE  /\ set_object(s, object) \in OverlayState
           /\ Coherent(set_object(s, object))
<1>. DEFINE c == set_object(s, object)
<1>1. object.id \in ObjectID
  BY DEF Object
<1>2. /\ c.objects = [s.objects EXCEPT ![object.id] = object]
      /\ c.tombstones = s.tombstones \ {object.id}
      /\ c.transactions = s.transactions
      /\ c.executed_order = s.executed_order
      /\ c.address_balances = s.address_balances
  BY DEF set_object, OverlayState
<1>3. c \in OverlayState
  BY <1>1 DEF set_object, OverlayState, Maybe
<1>4. LiveOrDeleted(c)
  BY <1>1, <1>2 DEF Coherent, LiveOrDeleted, OverlayState
<1>5. KeyedById(c)
  BY <1>1, <1>2 DEF Coherent, KeyedById, OverlayState
<1>6. OrderMatchesRecords(c)
  BY <1>2 DEF Coherent, OrderMatchesRecords
<1>. QED BY <1>3, <1>4, <1>5, <1>6 DEF Coherent

\* Loading a dump files every object where it was, provided it was filed under
\* its own id: the file does not hold the keys.
LEMMA ObjectsRoundTrip ==
    ASSUME NEW s, KeyedById(s), NEW id \in ObjectID
    PROVE  import(export(s)).objects[id] = s.objects[id]
<1>. DEFINE p == export(s)
<1>1. \A o : o \in p.objects <=>
         \E i \in ObjectID : s.objects[i] # None /\ o = s.objects[i]
  BY DEF export
<1>2. \A i \in ObjectID : s.objects[i] # None => s.objects[i].id = i
  BY DEF KeyedById
<1>3. \A o \in p.objects : o.id = id => o = s.objects[id]
  BY <1>1, <1>2
<1>4. (\E o \in p.objects : o.id = id) <=> s.objects[id] # None
  BY <1>1, <1>2
<1>. HIDE DEF p
<1>5. import(p).objects[id] = IF \E o \in p.objects : o.id = id
                              THEN CHOOSE o \in p.objects : o.id = id
                              ELSE None
  BY DEF import
<1>6. import(p).objects[id] = s.objects[id]
  BY <1>3, <1>4, <1>5
<1>. QED BY <1>6 DEF p

\* Loading a dump brings every transaction record back.
LEMMA TransactionsRoundTrip ==
    ASSUME NEW s, NEW d \in Digest
    PROVE  import(export(s)).transactions[d] = s.transactions[d]
<1>. DEFINE p == export(s)
<1>1. \A x : x \in p.transactions <=>
         \E e \in Digest : s.transactions[e] # None /\ x = <<e, s.transactions[e]>>
  BY DEF export
<1>2. \A x \in p.transactions : x[1] = d => x = <<d, s.transactions[d]>>
  BY <1>1
<1>3. (\E x \in p.transactions : x[1] = d) <=> s.transactions[d] # None
  <2>1. CASE s.transactions[d] # None
    <3>1. <<d, s.transactions[d]>> \in p.transactions
      BY <1>1, <2>1
    <3>. QED BY <2>1, <3>1
  <2>2. CASE s.transactions[d] = None
    <3>1. \A x \in p.transactions : x[1] # d
      BY <1>1, <2>2
    <3>. QED BY <2>2, <3>1
  <2>. QED BY <2>1, <2>2
<1>. HIDE DEF p
<1>4. import(p).transactions[d] = IF \E x \in p.transactions : x[1] = d
                                  THEN (CHOOSE x \in p.transactions : x[1] = d)[2]
                                  ELSE None
  BY DEF import
<1>5. import(p).transactions[d] = s.transactions[d]
  BY <1>2, <1>3, <1>4
<1>. QED BY <1>5 DEF p

\* What a dump writes has the persisted type, and loading it gives back
\* exactly the overlay it was made from.
LEMMA RoundTrip ==
    ASSUME NEW s \in OverlayState, Coherent(s)
    PROVE  /\ export(s) \in PersistedOverlay
           /\ import(export(s)) = s
<1>. DEFINE p == export(s)
            t == import(p)
<1>1. /\ s.objects \in [ObjectID -> Maybe(Object)]
      /\ s.tombstones \in SUBSET ObjectID
      /\ s.transactions \in [Digest -> Maybe(Info)]
      /\ s.executed_order \in Seq(Digest)
      /\ s.address_balances \in [Account -> 0 .. MaxBalance]
  BY DEF OverlayState
<1>2. p \in PersistedOverlay
  <2>1. p.objects \in SUBSET Object
    BY <1>1 DEF export, Maybe
  <2>2. p.transactions \in SUBSET (Digest \X Info)
    BY <1>1 DEF export, Maybe
  <2>. QED BY <1>1, <2>1, <2>2 DEF export, PersistedOverlay
<1>3. t.objects = s.objects
  <2>1. \A id \in ObjectID : t.objects[id] = s.objects[id]
    BY ObjectsRoundTrip DEF Coherent
  <2>. QED BY <1>1, <2>1 DEF import
<1>4. t.transactions = s.transactions
  <2>1. \A d \in Digest : t.transactions[d] = s.transactions[d]
    BY TransactionsRoundTrip
  <2>. QED BY <1>1, <2>1 DEF import
<1>5. /\ t.tombstones = s.tombstones
      /\ t.executed_order = s.executed_order
      /\ t.address_balances = s.address_balances
  BY DEF import, export
<1>. QED BY <1>2, <1>3, <1>4, <1>5 DEF import, OverlayState

\* The current value of an object is a well-formed object or nothing.
LEMMA CurrentTyped ==
    ASSUME NEW s \in OverlayState, NEW id \in ObjectID
    PROVE  Current(s, id) \in Maybe(Object)
<1>. DEFINE key == [object_id |-> id, version_query |-> AtFork]
<1>1. AtFork \in Query
  BY DEF AtFork, Query
<1>2. Mainnet[id][AtFork] \in Maybe(Object)
  BY <1>1, MainnetAssumption
<1>3. s.objects[id] \in Maybe(Object)
  BY DEF OverlayState
<1>4. Current(s, id) \in {s.objects[id], None, Mainnet[id][AtFork]}
  BY DEF Current, Lookup
<1>. QED BY <1>2, <1>3, <1>4 DEF Maybe

\* What a current read returns, in the terms of the overlay's maps.
LEMMA CurrentIs ==
    ASSUME NEW s, NEW id
    PROVE  Current(s, id) = IF s.objects[id] # None THEN s.objects[id]
                            ELSE IF id \in s.tombstones THEN None
                            ELSE Mainnet[id][AtFork]
<1>. DEFINE key == [object_id |-> id, version_query |-> AtFork]
<1>1. key.object_id = id /\ key.version_query = AtFork
  OBVIOUS
<1>2. AtFork.kind = "AtCheckpoint"
  BY DEF AtFork
<1>3. Hit(s, key) <=> s.objects[id] # None
  <2>1. overlay_match(s.objects[id], AtFork)
    BY <1>2 DEF overlay_match
  <2>. QED BY <1>1, <2>1 DEF Hit
<1>4. Suppressed(s, key) <=> id \in s.tombstones
  BY <1>1, <1>2 DEF Suppressed, is_current_query
<1>. HIDE DEF key
<1>5. Lookup(s, key) = IF s.objects[id] # None THEN s.objects[id]
                       ELSE IF id \in s.tombstones THEN None
                       ELSE Mainnet[id][AtFork]
  BY <1>1, <1>3, <1>4 DEF Lookup
<1>. QED BY <1>5 DEF Current, key

\* What a current read returns after a commit: what it deleted is gone, what it
\* wrote is there, and the rest is as it was.
LEMMA CommitCurrent ==
    ASSUME NEW s, NEW e, NEW d, NEW info, NEW id \in ObjectID
    PROVE  Current(commit(s, e, d, info), id) =
              IF id \in e.deleted THEN None
              ELSE IF e.written[id] # None THEN e.written[id]
              ELSE Current(s, id)
<1>. DEFINE c == commit(s, e, d, info)
<1>1. c.objects[id] = IF id \in e.deleted THEN None
                      ELSE IF e.written[id] # None THEN e.written[id]
                      ELSE s.objects[id]
  BY DEF commit, WrittenIds
<1>2. c.tombstones = (s.tombstones \ {i \in ObjectID : e.written[i] # None}) \cup e.deleted
  BY DEF commit, WrittenIds
<1>. HIDE DEF c
<1>3. Current(c, id) = IF c.objects[id] # None THEN c.objects[id]
                       ELSE IF id \in c.tombstones THEN None
                       ELSE Mainnet[id][AtFork]
  BY CurrentIs
<1>4. Current(s, id) = IF s.objects[id] # None THEN s.objects[id]
                       ELSE IF id \in s.tombstones THEN None
                       ELSE Mainnet[id][AtFork]
  BY CurrentIs
<1>5. Current(c, id) = IF id \in e.deleted THEN None
                       ELSE IF e.written[id] # None THEN e.written[id]
                       ELSE Current(s, id)
  <2>1. CASE id \in e.deleted
    BY <1>1, <1>2, <1>3, <2>1
  <2>2. CASE id \notin e.deleted /\ e.written[id] # None
    BY <1>1, <1>3, <2>2
  <2>3. CASE id \notin e.deleted /\ e.written[id] = None
    <3>1. c.objects[id] = s.objects[id] /\ (id \in c.tombstones <=> id \in s.tombstones)
      BY <1>1, <1>2, <2>3
    <3>. QED BY <1>3, <1>4, <2>3, <3>1
  <2>. QED BY <2>1, <2>2, <2>3
<1>. QED BY <1>5 DEF c
=============================================================================
