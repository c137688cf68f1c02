------------------------- MODULE OverlayStoreProofs -------------------------
(***************************************************************************)
(* Theorems about OverlayStore, for every set of objects, versions,        *)
(* digests, readers and copies and every answer of the network.            *)
(***************************************************************************)
EXTENDS OverlayStore, OverlayProofs

-----------------------------------------------------------------------------
(* The inductive invariant.  Coherence of what a dump would reload is not  *)
(* inductive: it needs that every file is an export of a coherent state.   *)
(* Atomicity of a finished read needs what holds between its two halves.   *)

FilesAreExports ==
    \A f \in File : files[f] # None =>
        \E s \in OverlayState : Coherent(s) /\ files[f] = export(s)

ReadsOnCourse ==
    \A r \in Reader :
        /\ reader[r].pc = "fetch" =>
              /\ reader[r].attempt < MAX_ATTEMPTS
              /\ reader[r].out = LocalAnswers(seen[r], reader[r].keys)
              /\ reader[r].miss_slots = MissSlots(seen[r], reader[r].keys)
        /\ reader[r].pc = "done" =>
              /\ DOMAIN reader[r].out = DOMAIN reader[r].keys
              /\ \A i \in DOMAIN reader[r].keys :
                    reader[r].out[i] = Lookup(seen[r], reader[r].keys[i])

Inv ==
    /\ TypeOK
    /\ Coherent(state)
    /\ \A s \in Slot : snapshots[s] # None => Coherent(snapshots[s])
    /\ FilesAreExports
    /\ ReadsOnCourse

\* The initial state.
LEMMA InitInv == Init => Inv
<1>. SUFFICES ASSUME Init PROVE Inv
  OBVIOUS
<1>. USE DEF Init
<1>1. \A r \in Reader : reader[r] = Idle
  OBVIOUS
<1>2. Idle \in ReaderRecord
  BY AttemptsAssumption DEF Idle, ReaderRecord, Maybe
<1>3. TypeOK
  BY DefaultLemma, <1>2 DEF TypeOK, Maybe
<1>4. FilesAreExports /\ \A s \in Slot : snapshots[s] = None
  BY DEF FilesAreExports
<1>5. ReadsOnCourse
  BY <1>1 DEF ReadsOnCourse, Idle
<1>. QED BY <1>3, <1>4, <1>5, DefaultLemma DEF Inv

\* The effects a transaction hands over are well formed.
LEMMA ExecutionTyped ==
    ASSUME NEW written \in SUBSET ObjectID, NEW deleted \in SUBSET ObjectID,
           NEW v \in Version, NEW data \in Data, NEW events \in EventChoice
    PROVE  /\ Execution(written, deleted, v, data, events) \in Effects
           /\ WrittenIds(Execution(written, deleted, v, data, events)) = written
<1>. DEFINE e == Execution(written, deleted, v, data, events)
<1>1. \A id \in ObjectID : e.written[id] =
         IF id \in written THEN [id |-> id, version |-> v, data |-> data]
         ELSE None
  BY DEF Execution
<1>2. \A id \in written : [id |-> id, version |-> v, data |-> data] \in Object
  BY DEF Object
<1>3. e.written \in [ObjectID -> Maybe(Object)]
  BY <1>2 DEF Execution, Maybe
<1>4. \A id \in ObjectID : e.written[id] # None => e.written[id].id = id
  <2>1. ASSUME NEW id \in written
        PROVE  e.written[id].id = id
    <3>1. e.written[id] = [id |-> id, version |-> v, data |-> data]
      BY <1>1
    <3>. HIDE DEF e
    <3>. QED BY <3>1
  <2>2. \A id \in ObjectID \ written : e.written[id] = None
    BY <1>1
  <2>. QED BY <2>1, <2>2
<1>5. \A id \in ObjectID : e.written[id] # None <=> id \in written
  BY <1>1, <1>2, MainnetAssumption
<1>. HIDE DEF e
<1>6. e.deleted \in SUBSET ObjectID /\ e.events \in [Account -> Event]
  BY EventAssumption DEF e, Execution
<1>7. e = [written |-> e.written, deleted |-> e.deleted, events |-> e.events]
  BY DEF e, Execution
<1>8. e \in Effects
  BY <1>3, <1>4, <1>6, <1>7 DEF Effects
<1>9. WrittenIds(e) = written
  BY <1>5 DEF WrittenIds
<1>. QED BY <1>8, <1>9 DEF e

\* A step that changes only the live overlay, to a coherent state.
LEMMA LiveStep ==
    ASSUME Inv, state' \in OverlayState, Coherent(state'),
           UNCHANGED <<snapshots, files, reader, seen>>
    PROVE  Inv'
BY DEF Inv, TypeOK, FilesAreExports, ReadsOnCourse

\* Every write and every rollback is such a step.
LEMMA WriteStep ==
    ASSUME Inv, Write \/ Rollback
    PROVE  Inv'
<1>1. state \in OverlayState /\ Coherent(state)
  BY DEF Inv, TypeOK
<1>2. ASSUME NEW written \in SUBSET ObjectID, NEW deleted \in SUBSET ObjectID,
             NEW v \in Version, NEW data \in Data, NEW events \in EventChoice,
             NEW d \in Digest, NEW info \in Info,
             Commit(written, deleted, v, data, events, d, info)
      PROVE  Inv'
  BY <1>1, <1>2, ExecutionTyped, CommitLemma, LiveStep DEF Commit
<1>3. ASSUME NEW object \in Object, SetObject(object)
      PROVE  Inv'
  BY <1>1, <1>3, SetObjectLemma, LiveStep DEF SetObject
<1>4. CASE Clear
  BY <1>4, DefaultLemma, LiveStep DEF Clear
<1>5. ASSUME NEW s \in Slot, Restore(s)
      PROVE  Inv'
  <2>1. snapshots[s] \in OverlayState /\ Coherent(snapshots[s])
    BY <1>5 DEF Inv, TypeOK, Restore, Maybe
  <2>. QED BY <1>5, <2>1, LiveStep DEF Restore
<1>6. ASSUME NEW f \in File, Import(f)
      PROVE  Inv'
  <2>1. PICK s \in OverlayState : Coherent(s) /\ files[f] = export(s)
    BY <1>6 DEF Inv, FilesAreExports, Import
  <2>2. state' = s
    BY <1>6, <2>1, RoundTrip DEF Import
  <2>. QED BY <1>6, <2>1, <2>2, LiveStep DEF Import
<1>. QED BY <1>2, <1>3, <1>4, <1>5, <1>6 DEF Write, Rollback

\* Taking a snapshot or writing a dump.
LEMMA SaveStep ==
    ASSUME Inv, Save
    PROVE  Inv'
<1>1. state \in OverlayState /\ Coherent(state)
  BY DEF Inv, TypeOK
<1>2. ASSUME NEW s \in Slot, Snapshot(s)
      PROVE  Inv'
  <2>1. TypeOK'
    BY <1>1, <1>2 DEF Inv, TypeOK, Snapshot, Maybe
  <2>2. \A x \in Slot : snapshots'[x] # None => Coherent(snapshots'[x])
    BY <1>1, <1>2 DEF Inv, TypeOK, Snapshot
  <2>. QED BY <1>1, <1>2, <2>1, <2>2
           DEF Inv, FilesAreExports, ReadsOnCourse, Snapshot
<1>3. ASSUME NEW f \in File, Export(f)
      PROVE  Inv'
  <2>1. TypeOK'
    BY <1>1, <1>3, RoundTrip DEF Inv, TypeOK, Export, Maybe
  <2>2. FilesAreExports'
    BY <1>1, <1>3 DEF Inv, TypeOK, FilesAreExports, Export
  <2>. QED BY <1>1, <1>3, <2>1, <2>2 DEF Inv, ReadsOnCourse, Export
<1>. QED BY <1>2, <1>3 DEF Save

\* What the lock section of a read answers.
LEMMA AnswersTyped ==
    ASSUME NEW s \in OverlayState, NEW keys \in Seq(ObjectKey)
    PROVE  /\ LocalAnswers(s, keys) \in Seq(Maybe(Object))
           /\ MissSlots(s, keys) \in SUBSET Nat
<1>1. DOMAIN keys = 1 .. Len(keys) /\ Len(keys) \in Nat
  OBVIOUS
<1>2. \A i \in 1 .. Len(keys) : keys[i].object_id \in ObjectID
  <2>1. \A i \in 1 .. Len(keys) : keys[i] \in ObjectKey
    BY <1>1
  <2>. QED BY <2>1 DEF ObjectKey
<1>3. LocalAnswers(s, keys) \in [1 .. Len(keys) -> Maybe(Object)]
  BY <1>1, <1>2 DEF LocalAnswers, OverlayState, Maybe
<1>4. MissSlots(s, keys) \in SUBSET Nat
  BY <1>1 DEF MissSlots
<1>. QED BY <1>1, <1>3, <1>4

\* What the network adds to it.
LEMMA FetchTyped ==
    ASSUME NEW keys \in Seq(ObjectKey), NEW out \in Seq(Maybe(Object)),
           DOMAIN out = DOMAIN keys, NEW slots
    PROVE  FillMisses(out, keys, slots) \in Seq(Maybe(Object))
<1>1. DOMAIN keys = 1 .. Len(keys) /\ Len(keys) \in Nat
  OBVIOUS
<1>2. \A i \in 1 .. Len(keys) : out[i] \in Maybe(Object)
  BY <1>1
<1>3. \A i \in 1 .. Len(keys) :
         Mainnet[keys[i].object_id][keys[i].version_query] \in Maybe(Object)
  <2>1. \A i \in 1 .. Len(keys) : keys[i] \in ObjectKey
    BY <1>1
  <2>2. \A k \in ObjectKey : k.object_id \in ObjectID /\ k.version_query \in Query
    BY DEF ObjectKey
  <2>. QED BY <2>1, <2>2, MainnetAssumption
<1>4. FillMisses(out, keys, slots) \in [1 .. Len(keys) -> Maybe(Object)]
  BY <1>1, <1>2, <1>3 DEF FillMisses
<1>. QED BY <1>1, <1>4

\* The two halves of a read give, slot by slot, the lookup of one state.
LEMMA TwoHalvesAreALookup ==
    ASSUME NEW s, NEW keys, NEW i \in DOMAIN keys
    PROVE  /\ FillMisses(LocalAnswers(s, keys), keys, MissSlots(s, keys))[i]
                  = Lookup(s, keys[i])
           /\ i \notin MissSlots(s, keys) =>
                 LocalAnswers(s, keys)[i] = Lookup(s, keys[i])
<1>1. CASE Hit(s, keys[i])
  BY <1>1 DEF FillMisses, LocalAnswers, MissSlots, Lookup
<1>2. CASE ~Hit(s, keys[i]) /\ Suppressed(s, keys[i])
  BY <1>2 DEF FillMisses, LocalAnswers, MissSlots, Lookup
<1>3. CASE ~Hit(s, keys[i]) /\ ~Suppressed(s, keys[i])
  BY <1>3 DEF FillMisses, LocalAnswers, MissSlots, Lookup
<1>. QED BY <1>1, <1>2, <1>3

\* A read of the overlay, of the network, and the return of the result.
LEMMA ReadStep ==
    ASSUME Inv, Read
    PROVE  Inv'
<1>1. PICK r \in Reader :
         \/ \E keys \in Keys : ReadOverlay(r, keys)
         \/ FetchMisses(r)
         \/ FetchFails(r)
         \/ Return(r)
  BY DEF Read
<1>2. /\ state \in OverlayState
      /\ seen \in [Reader -> OverlayState]
      /\ reader \in [Reader -> ReaderRecord]
      /\ reader[r] \in ReaderRecord
      /\ seen[r] \in OverlayState
  BY DEF Inv, TypeOK
<1>3. reader[r].keys \in Seq(ObjectKey)
  <2>1. reader[r].keys \in Keys \cup {<<>>}
    BY <1>2 DEF ReaderRecord
  <2>2. <<>> \in Seq(ObjectKey)
    OBVIOUS
  <2>. QED BY <2>1, <2>2, KeysAssumption
\* What is left to show, in the state after the step, about readers only.
<1>4. SUFFICES ASSUME UNCHANGED <<state, snapshots, files>>
               PROVE  /\ reader' \in [Reader -> ReaderRecord]
                      /\ seen' \in [Reader -> OverlayState]
                      /\ ReadsOnCourse'
  <2>1. UNCHANGED <<state, snapshots, files>>
    BY <1>1 DEF ReadOverlay, FetchMisses, FetchFails, Return
  <2>. QED BY <1>4, <2>1 DEF Inv, TypeOK, FilesAreExports
\* It suffices that the one reader that moved is on course.
<1>5. ASSUME NEW R \in ReaderRecord, NEW S \in OverlayState,
             reader' = [reader EXCEPT ![r] = R],
             seen' = [seen EXCEPT ![r] = S],
             R.pc = "fetch" => /\ R.attempt < MAX_ATTEMPTS
                               /\ R.out = LocalAnswers(S, R.keys)
                               /\ R.miss_slots = MissSlots(S, R.keys),
             R.pc = "done" => /\ DOMAIN R.out = DOMAIN R.keys
                              /\ \A i \in DOMAIN R.keys :
                                    R.out[i] = Lookup(S, R.keys[i])
      PROVE  /\ reader' \in [Reader -> ReaderRecord]
             /\ seen' \in [Reader -> OverlayState]
             /\ ReadsOnCourse'
  <2>1. reader'[r] = R /\ seen'[r] = S
    BY <1>2, <1>5
  <2>2. \A x \in Reader \ {r} : reader'[x] = reader[x] /\ seen'[x] = seen[x]
    BY <1>2, <1>5
  <2>3. ReadsOnCourse'
    BY <1>5, <2>1, <2>2 DEF Inv, ReadsOnCourse
  <2>. QED BY <1>2, <1>5, <2>3
<1>6. ASSUME NEW keys \in Keys, ReadOverlay(r, keys)
      PROVE  /\ reader' \in [Reader -> ReaderRecord]
             /\ seen' \in [Reader -> OverlayState]
             /\ ReadsOnCourse'
  <2>. DEFINE slots == MissSlots(state, keys)
              R == [pc |-> IF slots = {} THEN "done" ELSE "fetch",
                    keys |-> keys,
                    out |-> LocalAnswers(state, keys),
                    miss_slots |-> slots,
                    attempt |-> 0]
  <2>1. keys \in Seq(ObjectKey)
    BY KeysAssumption
  <2>2. LocalAnswers(state, keys) \in Seq(Maybe(Object)) /\ slots \in SUBSET Nat
    BY <1>2, <2>1, AnswersTyped
  <2>3. R \in ReaderRecord
    BY <2>2, AttemptsAssumption DEF ReaderRecord
  <2>4. reader' = [reader EXCEPT ![r] = R] /\ seen' = [seen EXCEPT ![r] = state]
    BY <1>6 DEF ReadOverlay
  <2>5. ASSUME slots = {}
        PROVE  /\ DOMAIN R.out = DOMAIN R.keys
               /\ \A i \in DOMAIN R.keys : R.out[i] = Lookup(state, R.keys[i])
    <3>1. DOMAIN LocalAnswers(state, keys) = DOMAIN keys
      BY DEF LocalAnswers
    <3>2. \A i \in DOMAIN keys : LocalAnswers(state, keys)[i] = Lookup(state, keys[i])
      BY <2>5, TwoHalvesAreALookup
    <3>. QED BY <3>1, <3>2
  <2>6. R.pc = "done" => slots = {}
    OBVIOUS
  <2>7. /\ R.attempt < MAX_ATTEMPTS
        /\ R.out = LocalAnswers(state, R.keys)
        /\ R.miss_slots = MissSlots(state, R.keys)
    BY AttemptsAssumption
  <2>. HIDE DEF R, slots
  <2>. QED BY <1>2, <1>5, <2>3, <2>4, <2>5, <2>6, <2>7
<1>7. CASE FetchMisses(r)
  <2>. DEFINE R == [reader[r] EXCEPT
                      !.pc = "done",
                      !.out = FillMisses(reader[r].out, reader[r].keys,
                                         reader[r].miss_slots)]
  <2>1. /\ reader[r].pc = "fetch"
        /\ reader' = [reader EXCEPT ![r] = R]
        /\ seen' = [seen EXCEPT ![r] = seen[r]]
    BY <1>2, <1>7 DEF FetchMisses, ReaderRecord
  <2>2. /\ reader[r].out = LocalAnswers(seen[r], reader[r].keys)
        /\ reader[r].miss_slots = MissSlots(seen[r], reader[r].keys)
    BY <2>1 DEF Inv, ReadsOnCourse
  <2>3. /\ DOMAIN R.out = DOMAIN R.keys
        /\ \A i \in DOMAIN R.keys : R.out[i] = Lookup(seen[r], R.keys[i])
    <3>1. R.keys = reader[r].keys
      BY <1>2 DEF ReaderRecord
    <3>2. R.out = FillMisses(LocalAnswers(seen[r], reader[r].keys), reader[r].keys,
                             MissSlots(seen[r], reader[r].keys))
      BY <1>2, <2>2 DEF ReaderRecord
    <3>3. DOMAIN R.out = DOMAIN reader[r].keys
      BY <3>2 DEF FillMisses
    <3>. HIDE DEF R
    <3>. QED BY <3>1, <3>2, <3>3, TwoHalvesAreALookup
  <2>4. R \in ReaderRecord
    <3>1. DOMAIN reader[r].out = DOMAIN reader[r].keys
      BY <2>2 DEF LocalAnswers
    <3>2. reader[r].out \in Seq(Maybe(Object))
      BY <1>2 DEF ReaderRecord
    <3>3. FillMisses(reader[r].out, reader[r].keys, reader[r].miss_slots)
             \in Seq(Maybe(Object))
      BY <1>3, <3>1, <3>2, FetchTyped
    <3>. QED BY <1>2, <3>3 DEF ReaderRecord
  <2>5. R.pc = "done"
    BY <1>2 DEF ReaderRecord
  <2>. HIDE DEF R
  <2>. QED BY <1>2, <1>5, <2>1, <2>3, <2>4, <2>5
<1>8. CASE FetchFails(r)
  <2>0. reader[r].pc = "fetch"
    BY <1>8 DEF FetchFails
  <2>2. /\ reader[r].attempt \in Nat /\ reader[r].attempt < MAX_ATTEMPTS
        /\ reader[r].out = LocalAnswers(seen[r], reader[r].keys)
        /\ reader[r].miss_slots = MissSlots(seen[r], reader[r].keys)
    <3>1. reader[r].attempt \in Nat
      BY <1>2 DEF ReaderRecord
    <3>. QED BY <2>0, <3>1 DEF Inv, ReadsOnCourse
  <2>. DEFINE R == [reader[r] EXCEPT
                      !.attempt = reader[r].attempt + 1,
                      !.pc = IF reader[r].attempt + 1 >= MAX_ATTEMPTS
                             THEN "failed" ELSE "fetch"]
  <2>1. /\ reader[r].pc = "fetch"
        /\ reader' = [reader EXCEPT ![r] = R]
        /\ seen' = [seen EXCEPT ![r] = seen[r]]
    BY <1>2, <1>8 DEF FetchFails, ReaderRecord
  <2>3. R.attempt = reader[r].attempt + 1 /\ R.keys = reader[r].keys
        /\ R.out = reader[r].out /\ R.miss_slots = reader[r].miss_slots
    BY <1>2 DEF ReaderRecord
  <2>4. R.pc = IF reader[r].attempt + 1 >= MAX_ATTEMPTS THEN "failed" ELSE "fetch"
    BY <1>2 DEF ReaderRecord
  <2>5. R \in ReaderRecord
    <3>1. reader[r].attempt + 1 \in 0 .. MAX_ATTEMPTS
      BY <2>2, AttemptsAssumption
    <3>2. (IF reader[r].attempt + 1 >= MAX_ATTEMPTS THEN "failed" ELSE "fetch")
             \in {"idle", "fetch", "done", "failed"}
      OBVIOUS
    <3>. QED BY <1>2, <3>1, <3>2 DEF ReaderRecord
  <2>. HIDE DEF R
  <2>6. R.pc # "done" /\ (R.pc = "fetch" => R.attempt < MAX_ATTEMPTS)
    BY <2>2, <2>3, <2>4, AttemptsAssumption
  <2>. QED BY <1>2, <1>5, <2>1, <2>2, <2>3, <2>5, <2>6
<1>9. CASE Return(r)
  <2>1. Idle \in ReaderRecord
    BY AttemptsAssumption DEF Idle, ReaderRecord, Maybe
  <2>2. reader' = [reader EXCEPT ![r] = Idle] /\ seen' = [seen EXCEPT ![r] = Default]
    BY <1>9 DEF Return
  <2>3. Idle.pc = "idle"
    BY DEF Idle
  <2>. QED BY <1>5, <2>1, <2>2, <2>3, DefaultLemma
<1>. QED BY <1>1, <1>6, <1>7, <1>8, <1>9

\* Every step preserves the invariant.
LEMMA NextInv == Inv /\ [Next]_vars => Inv'
<1>. SUFFICES ASSUME Inv, [Next]_vars PROVE Inv'
  OBVIOUS
<1>1. CASE UNCHANGED vars
  BY <1>1 DEF vars, Inv, TypeOK, FilesAreExports, ReadsOnCourse
<1>. QED BY <1>1, WriteStep, SaveStep, ReadStep DEF Next

\* The invariant holds of every behaviour.
LEMMA SpecInv == Spec => []Inv
BY InitInv, NextInv, PTL DEF Spec

\* Every variable has its type, whatever the instance.
THEOREM TypeCorrect == Spec => []TypeOK
<1>1. Inv => TypeOK
  BY DEF Inv
<1>. QED BY <1>1, SpecInv, PTL

\* However commits, cheats, deletions, snapshots, dumps and rollbacks
\* interleave, the overlay, its snapshots and what its files reload stay
\* coherent.
THEOREM Coherence == Spec => []StateCoherent
<1>1. Inv => StateCoherent
  <2>. SUFFICES ASSUME Inv PROVE StateCoherent
    OBVIOUS
  <2>1. ASSUME NEW f \in File, files[f] # None
        PROVE  Coherent(import(files[f]))
    <3>1. PICK s \in OverlayState : Coherent(s) /\ files[f] = export(s)
      BY <2>1 DEF Inv, FilesAreExports
    <3>. QED BY <3>1, RoundTrip
  <2>. QED BY <2>1 DEF Inv, StateCoherent
<1>. QED BY <1>1, SpecInv, PTL

\* A batch read that lets go of the lock half-way still returns the values
\* of one overlay state, that of its lock section.
THEOREM AtomicReads == Spec => []BatchReadsAreAtomic
<1>1. Inv => BatchReadsAreAtomic
  BY DEF Inv, ReadsOnCourse, BatchReadsAreAtomic
<1>. QED BY <1>1, SpecInv, PTL

-----------------------------------------------------------------------------
(* Refinement: the overlay implements the fork view. *)

\* The fork view of an overlay state.
LEMMA ViewTyped ==
    ASSUME NEW s \in OverlayState
    PROVE  ViewOf(s) \in View
<1>1. [id \in ObjectID |-> Current(s, id)] \in [ObjectID -> Maybe(Object)]
  BY CurrentTyped
<1>. QED BY <1>1 DEF ViewOf, View, OverlayState

\* The store starts as the abstract fork view does.
LEMMA RefinementInit == Init => Abstract!Init
<1>. SUFFICES ASSUME Init PROVE Abstract!Init
  OBVIOUS
<1>1. \A id \in ObjectID : Current(Default, id) = Mainnet[id][AtFork]
  BY CurrentIs DEF Default
<1>2. ViewOf(state).view = [id \in ObjectID |-> Mainnet[id][AtFork]]
  BY <1>1 DEF Init, ViewOf
<1>3. /\ ViewOf(state).records = [d \in Digest |-> None]
      /\ ViewOf(state).order = <<>>
      /\ ViewOf(state).balances = [a \in Account |-> 0]
  BY DEF Init, ViewOf, Default
<1>4. Copies = [c \in Slot \cup File |-> None]
  BY DEF Init, Copies
<1>. QED BY <1>2, <1>3, <1>4 DEF Abstract!Init

\* Saved copies depend on the snapshots and the files alone.
LEMMA CopiesFrame ==
    ASSUME UNCHANGED <<snapshots, files>>
    PROVE  Copies' = Copies
BY DEF Copies

\* A commit is one transaction of the fork view.
LEMMA CommitRefines ==
    ASSUME Inv,
           NEW written \in SUBSET ObjectID, NEW deleted \in SUBSET ObjectID,
           NEW v \in Version, NEW data \in Data, NEW events \in EventChoice,
           NEW d \in Digest, NEW info \in Info,
           Commit(written, deleted, v, data, events, d, info)
    PROVE  Abstract!Transact(written \cup deleted, d)
<1>. DEFINE e == Execution(written, deleted, v, data, events)
<1>1. /\ state \in OverlayState /\ Coherent(state)
      /\ e \in Effects /\ WrittenIds(e) = written /\ e.deleted = deleted
  <2>1. e.deleted = deleted
    BY DEF Execution
  <2>2. e \in Effects /\ WrittenIds(e) = written
    BY ExecutionTyped
  <2>. HIDE DEF e
  <2>. QED BY <2>1, <2>2 DEF Inv, TypeOK
<1>2. state' = commit(state, e, d, info) /\ UNCHANGED <<snapshots, files>>
  BY DEF Commit
<1>3. state' \in OverlayState
  BY <1>1, <1>2, CommitLemma
<1>. HIDE DEF e
<1>4. \A id \in ObjectID \ (written \cup deleted) :
         Current(state', id) = Current(state, id)
  <2>1. ASSUME NEW id \in ObjectID \ (written \cup deleted)
        PROVE  /\ state'.objects[id] = state.objects[id]
               /\ id \in state'.tombstones <=> id \in state.tombstones
    BY <1>1, <1>2 DEF commit
  <2>. QED BY <2>1, CurrentIs
<1>5. ViewOf(state).view' \in [ObjectID -> Maybe(Object)]
  BY <1>3, CurrentTyped DEF ViewOf
<1>6. \A id \in ObjectID \ (written \cup deleted) :
         ViewOf(state).view'[id] = ViewOf(state).view[id]
  BY <1>4 DEF ViewOf
<1>7. state'.transactions = [state.transactions EXCEPT ![d] = info]
  BY <1>2 DEF commit
<1>8. info # None
  BY MainnetAssumption
<1>9. /\ ViewOf(state).records' \in [Digest -> Info \cup {None}]
      /\ ViewOf(state).records'[d] # None
      /\ \A x \in Digest \ {d} :
            ViewOf(state).records'[x] = ViewOf(state).records[x]
  BY <1>1, <1>3, <1>7, <1>8 DEF ViewOf, OverlayState, Maybe
<1>10. ViewOf(state).order' =
          IF ViewOf(state).records[d] = None
          THEN Append(ViewOf(state).order, d) ELSE ViewOf(state).order
  BY <1>2 DEF ViewOf, commit
<1>11. ViewOf(state).balances' \in [Account -> Nat]
  <2>1. state'.address_balances \in [Account -> 0 .. MaxBalance]
    BY <1>3 DEF OverlayState
  <2>2. 0 .. MaxBalance \subseteq Nat
    BY MaxBalanceAssumption
  <2>. QED BY <2>1, <2>2 DEF ViewOf
<1>12. Copies' = Copies
  BY <1>2, CopiesFrame
<1>. QED BY <1>5, <1>6, <1>9, <1>10, <1>11, <1>12 DEF Abstract!Transact

\* A cheat's write is one override of the fork view.
LEMMA SetObjectRefines ==
    ASSUME Inv, NEW object \in Object, SetObject(object)
    PROVE  Abstract!Override(object.id)
<1>1. state \in OverlayState /\ Coherent(state) /\ object.id \in ObjectID
  BY DEF Inv, TypeOK, Object
<1>2. state' = set_object(state, object) /\ UNCHANGED <<snapshots, files>>
  BY DEF SetObject
<1>3. state' \in OverlayState
  BY <1>1, <1>2, SetObjectLemma
<1>4. /\ state'.objects = [state.objects EXCEPT ![object.id] = object]
      /\ state'.tombstones = state.tombstones \ {object.id}
      /\ state'.transactions = state.transactions
      /\ state'.executed_order = state.executed_order
      /\ state'.address_balances = state.address_balances
  BY <1>1, <1>2 DEF set_object, OverlayState
<1>5. Current(state', object.id) = object /\ object # None
  <2>1. state'.objects[object.id] = object
    BY <1>1, <1>4 DEF OverlayState
  <2>. QED BY <2>1, CurrentIs, MainnetAssumption
<1>6. \A id \in ObjectID \ {object.id} : Current(state', id) = Current(state, id)
  <2>1. ASSUME NEW id \in ObjectID \ {object.id}
        PROVE  /\ state'.objects[id] = state.objects[id]
               /\ id \in state'.tombstones <=> id \in state.tombstones
    BY <1>1, <1>4 DEF OverlayState
  <2>. QED BY <2>1, CurrentIs
<1>7. ViewOf(state).view' \in [ObjectID -> Maybe(Object)]
  BY <1>3, CurrentTyped DEF ViewOf
<1>8. /\ ViewOf(state).view'[object.id] # None
      /\ \A id \in ObjectID \ {object.id} :
            ViewOf(state).view'[id] = ViewOf(state).view[id]
  BY <1>1, <1>5, <1>6 DEF ViewOf
<1>9. UNCHANGED <<ViewOf(state).records, ViewOf(state).order,
                  ViewOf(state).balances>>
  BY <1>4 DEF ViewOf
<1>10. Copies' = Copies
  BY <1>2, CopiesFrame
<1>. QED BY <1>7, <1>8, <1>9, <1>10 DEF Abstract!Override

\* Default is the fork point's view.
LEMMA ClearRefines ==
    ASSUME Inv, Clear
    PROVE  Abstract!Reset
<1>1. \A id \in ObjectID : Current(Default, id) = Mainnet[id][AtFork]
  BY CurrentIs DEF Default
<1>2. ViewOf(state).view' = [id \in ObjectID |-> Mainnet[id][AtFork]]
  BY <1>1 DEF Clear, ViewOf
<1>3. /\ ViewOf(state).records' = [d \in Digest |-> None]
      /\ ViewOf(state).order' = <<>>
      /\ ViewOf(state).balances' = [a \in Account |-> 0]
  BY DEF Clear, ViewOf, Default
<1>4. Copies' = Copies
  BY CopiesFrame DEF Clear
<1>. QED BY <1>2, <1>3, <1>4 DEF Abstract!Reset

\* A copy is saved, and brings back what it saved.
LEMMA SaveRefines ==
    ASSUME Inv, NEW c \in Slot \cup File,
           \/ c \in Slot /\ Snapshot(c)
           \/ c \in File /\ Export(c)
    PROVE  Abstract!Save(c)
<1>1. state \in OverlayState /\ Coherent(state) /\ state # None
  BY NoneAssumption DEF Inv, TypeOK
<1>2. Abstract!whole = ViewOf(state)
  BY DEF Abstract!whole, ViewOf
<1>3. UNCHANGED state
  BY DEF Snapshot, Export
<1>4. Copies' = [Copies EXCEPT ![c] = ViewOf(state)]
  <2>1. CASE c \in Slot /\ Snapshot(c)
    <3>1. snapshots' = [snapshots EXCEPT ![c] = state] /\ UNCHANGED files
      BY <2>1 DEF Snapshot
    <3>. QED BY <1>1, <2>1, <3>1 DEF Copies, Inv, TypeOK
  <2>2. CASE c \in File /\ Export(c)
    <3>1. files' = [files EXCEPT ![c] = export(state)] /\ UNCHANGED snapshots
      BY <2>2 DEF Export
    <3>2. import(export(state)) = state /\ export(state) # None
      BY <1>1, RoundTrip, NoFileAssumption
    <3>3. c \notin Slot
      BY <2>2, HolderAssumption
    <3>. QED BY <1>1, <2>2, <3>1, <3>2, <3>3 DEF Copies, Inv, TypeOK
  <2>. QED BY <2>1, <2>2
<1>. QED BY <1>2, <1>3, <1>4 DEF Abstract!Save

\* Restoring a copy is one rollback of the fork view.
LEMMA RestoreRefines ==
    ASSUME Inv, NEW c \in Slot \cup File,
           \/ c \in Slot /\ Restore(c)
           \/ c \in File /\ Import(c)
    PROVE  Abstract!Rollback(c)
<1>1. Copies' = Copies
  BY CopiesFrame DEF Restore, Import
<1>2. Copies[c] = ViewOf(state)'
  <2>1. CASE c \in Slot /\ Restore(c)
    BY <2>1 DEF Restore, Copies, ViewOf
  <2>2. CASE c \in File /\ Import(c)
    <3>1. c \notin Slot
      BY <2>2, HolderAssumption
    <3>. QED BY <2>2, <3>1 DEF Import, Copies, ViewOf
  <2>. QED BY <2>1, <2>2
<1>3. ViewOf(state)' # None
  <2>1. state' \in OverlayState
    BY WriteStep DEF Rollback, Inv, TypeOK
  <2>. QED BY <2>1, ViewTyped, NoViewAssumption
<1>. QED BY <1>1, <1>2, <1>3 DEF Abstract!Rollback

\* Every step of the store is a step of the fork view or a stutter.
LEMMA RefinementStep == Inv /\ [Next]_vars => [Abstract!Next]_(Abstract!vars)
<1>. SUFFICES ASSUME Inv, [Next]_vars
              PROVE  Abstract!Next \/ UNCHANGED Abstract!vars
  OBVIOUS
<1>1. ASSUME NEW written \in SUBSET ObjectID, NEW deleted \in SUBSET ObjectID,
             NEW v \in Version, NEW data \in Data, NEW events \in EventChoice,
             NEW d \in Digest, NEW info \in Info,
             Commit(written, deleted, v, data, events, d, info)
      PROVE  Abstract!Next
  <2>1. written \cup deleted \in SUBSET ObjectID
    OBVIOUS
  <2>. QED BY <1>1, <2>1, CommitRefines DEF Abstract!Next
<1>2. ASSUME NEW object \in Object, SetObject(object)
      PROVE  Abstract!Next
  <2>1. object.id \in ObjectID
    BY DEF Object
  <2>. QED BY <1>2, <2>1, SetObjectRefines DEF Abstract!Next
<1>3. CASE Clear
  BY <1>3, ClearRefines DEF Abstract!Next
<1>4. CASE Save
  BY <1>4, SaveRefines DEF Save, Abstract!Next
<1>5. ASSUME NEW s \in Slot, Restore(s)
      PROVE  Abstract!Next
  BY <1>5, RestoreRefines DEF Abstract!Next
<1>6. ASSUME NEW f \in File, Import(f)
      PROVE  Abstract!Next
  BY <1>6, RestoreRefines DEF Abstract!Next
<1>7. CASE Read \/ UNCHANGED vars
  <2>1. UNCHANGED <<state, snapshots, files>>
    BY <1>7 DEF vars, Read, ReadOverlay, FetchMisses, FetchFails, Return
  <2>2. UNCHANGED Copies
    BY <2>1, CopiesFrame
  <2>. QED BY <2>1, <2>2 DEF Abstract!vars, ViewOf
<1>. QED BY <1>1, <1>2, <1>3, <1>4, <1>5, <1>6, <1>7 DEF Next, Write, Rollback

\* The overlay - local writes, tombstones, fall-through reads - implements a
\* private writable copy of the chain: every step is a step of ForkView or
\* changes nothing it shows.
THEOREM Refinement == Spec => ImplementsForkView
BY RefinementInit, RefinementStep, SpecInv, PTL
   DEF Spec, ImplementsForkView, Abstract!Spec

\* Only a rollback can make the overlay forget that it touched an id.
THEOREM TouchedForever == Spec => TouchedStaysTouched
<1>. DEFINE Keeps == overlay_touched_ids(state) \subseteq overlay_touched_ids(state')
<1>1. Inv /\ [Next]_vars => [Keeps \/ Rollback]_vars
  <2>. SUFFICES ASSUME Inv, [Next]_vars, vars' # vars, ~Rollback PROVE Keeps
    OBVIOUS
  <2>1. state \in OverlayState /\ Coherent(state)
    BY DEF Inv, TypeOK
  <2>2. ASSUME NEW written \in SUBSET ObjectID, NEW deleted \in SUBSET ObjectID,
               NEW v \in Version, NEW data \in Data, NEW events \in EventChoice,
               NEW d \in Digest, NEW info \in Info,
               Commit(written, deleted, v, data, events, d, info)
        PROVE  Keeps
    BY <2>2, CommitTouches DEF Commit
  <2>3. ASSUME NEW object \in Object, SetObject(object)
        PROVE  Keeps
    <3>1. object # None /\ object.id \in ObjectID
      BY MainnetAssumption DEF Object
    <3>2. /\ state'.objects = [state.objects EXCEPT ![object.id] = object]
          /\ state'.tombstones = state.tombstones \ {object.id}
      BY <2>1, <2>3, <3>1 DEF SetObject, set_object, OverlayState
    <3>. QED BY <2>1, <3>1, <3>2 DEF overlay_touched_ids, OverlayState
  <2>4. CASE Save \/ Read
    <3>1. UNCHANGED state
      BY <2>4 DEF Save, Snapshot, Export, Read, ReadOverlay, FetchMisses,
                  FetchFails, Return
    <3>. QED BY <3>1
  <2>. QED BY <2>2, <2>3, <2>4 DEF Next, Write
<1>. QED BY <1>1, SpecInv, PTL DEF Spec, TouchedStaysTouched
=============================================================================
