-------------------------- MODULE ExecutionProofs --------------------------
(***************************************************************************)
(* Theorems about Execution, for every number of runners, executions,      *)
(* cheats and resets, every set of pinned inputs and whatever executors    *)
(* ask of their stores.                                                    *)
(***************************************************************************)
EXTENDS Execution, OverlayProofs

-----------------------------------------------------------------------------
(* Facts about single operators. *)

\* An object given another version and value stays an object of the same id
\* and owner.
LEMMA At1Typed ==
    ASSUME NEW o \in Object, NEW v \in Version, NEW x \in 0 .. MaxValue
    PROVE  /\ At1(o, v, x) \in Object
           /\ At1(o, v, x).id = o.id
           /\ At1(o, v, x).version = v
           /\ At1(o, v, x).data.owner = o.data.owner
<1>. DEFINE data == [o.data EXCEPT !.value = x]
<1>1. /\ o.id \in ObjectID /\ o.data \in Data
      /\ o = [id |-> o.id, version |-> o.version, data |-> o.data]
  BY DEF Object
<1>2. data \in Data /\ data.owner = o.data.owner
  BY <1>1, DataAssumption
<1>. HIDE DEF data
<1>3. At1(o, v, x) = [[o EXCEPT !.version = v] EXCEPT !.data = data]
  BY <1>1 DEF At1, data
<1>4. At1(o, v, x) = [id |-> o.id, version |-> v, data |-> data]
  BY <1>1, <1>3
<1>. QED BY <1>1, <1>2, <1>4 DEF Object

\* A lookup answers with the overlay's object or with mainnet's; either is an
\* object of the id asked for.
LEMMA LookupTyped ==
    ASSUME NEW s \in OverlayState, KeyedById(s), NEW id \in ObjectID, NEW q \in Query,
           Lookup(s, [object_id |-> id, version_query |-> q]) # None
    PROVE  LET o == Lookup(s, [object_id |-> id, version_query |-> q])
           IN  /\ o \in Object /\ o.id = id
               /\ s.objects[id] = o \/ Mainnet[id][q] = o
<1>. DEFINE key == [object_id |-> id, version_query |-> q]
<1>1. key.object_id = id /\ key.version_query = q
  OBVIOUS
<1>. HIDE DEF key
<1>2. Lookup(s, key) \in {s.objects[id], None, Mainnet[id][q]}
  BY <1>1 DEF Lookup
<1>3. s.objects[id] # None => s.objects[id] \in Object /\ s.objects[id].id = id
  BY DEF OverlayState, Maybe, KeyedById
<1>4. Mainnet[id][q] # None => Mainnet[id][q] \in Object /\ Mainnet[id][q].id = id
  BY MainnetAssumption DEF Maybe
<1>. QED BY <1>2, <1>3, <1>4 DEF key

\* The object found under an identifier has that identifier.
LEMMA CurrentKeyed ==
    ASSUME NEW s \in OverlayState, KeyedById(s), NEW id \in ObjectID,
           Current(s, id) # None
    PROVE  /\ Current(s, id) \in Object /\ Current(s, id).id = id
           /\ s.objects[id] = Current(s, id) \/ Mainnet[id][AtFork] = Current(s, id)
<1>1. AtFork \in Query
  BY DEF AtFork, Query
<1>. QED BY <1>1, LookupTyped DEF Current

\* A lookup by version gives that version, and gives what the overlay holds
\* unless mainnet has the version.
LEMMA PinnedLookup ==
    ASSUME NEW s \in OverlayState, KeyedById(s), NEW id \in ObjectID,
           NEW v \in Version, Lookup(s, AtVersion(id, v)) # None
    PROVE  LET o == Lookup(s, AtVersion(id, v))
           IN  /\ o \in Object /\ o.id = id /\ o.version = v
               /\ s.objects[id] = o \/ Mainnet[id][AtVersion(id, v).version_query] = o
               /\ OnMainnet(id, v) = None => s.objects[id] = o
<1>. DEFINE q == [kind |-> "Version", n |-> v]
            key == [object_id |-> id, version_query |-> q]
<1>1. q \in Query /\ q.kind = "Version" /\ q.n = v
  BY DEF Query
<1>2. AtVersion(id, v) = key /\ key.object_id = id /\ key.version_query = q
  BY DEF AtVersion
<1>3. OnMainnet(id, v) = Mainnet[id][q]
  BY DEF OnMainnet
<1>. HIDE DEF q
<1>4. LET o == Lookup(s, key)
      IN  o \in Object /\ o.id = id /\ (s.objects[id] = o \/ Mainnet[id][q] = o)
  BY <1>1, <1>2, LookupTyped
<1>. HIDE DEF key
<1>5. CASE Hit(s, key)
  <2>1. Lookup(s, key) = s.objects[id] /\ s.objects[id].version = v
    BY <1>1, <1>2, <1>5 DEF Lookup, Hit, overlay_match
  <2>. QED BY <1>2, <1>4, <2>1
<1>6. CASE ~Hit(s, key)
  <2>1. Lookup(s, key) = Mainnet[id][q]
    BY <1>2, <1>6 DEF Lookup
  <2>2. Mainnet[id][q].version = v
    BY <1>1, <1>2, <2>1, ByVersionAssumption
  <2>. QED BY <1>2, <1>3, <1>4, <2>1, <2>2
<1>. QED BY <1>5, <1>6

\* The version a transaction writes at is above those of its inputs.
LEMMA LamportAbove ==
    ASSUME NEW r \in Runner, run[r] \in RunRecord, NEW input \in Inputs(r)
    PROVE  Lamport(r) \in Nat /\ Lamport(r) > input.version
<1>. DEFINE V == {o.version : o \in Inputs(r)}
<1>1. Inputs(r) \subseteq Object
  BY DEF Inputs, RunRecord, Maybe
<1>2. \A v \in V : v \in Nat
  BY <1>1, VersionAssumption DEF Object
<1>3. V \subseteq {run[r].owned.version, run[r].shared.version}
  BY DEF Inputs
<1>4. input.version \in V
  OBVIOUS
<1>. HIDE DEF V
<1>5. \E m \in V : \A v \in V : m >= v
  BY <1>2, <1>3, <1>4
<1>6. Max(V) \in V /\ \A v \in V : Max(V) >= v
  BY <1>5 DEF Max
<1>7. Lamport(r) = Max(V) + 1
  BY DEF Lamport, V
<1>. QED BY <1>2, <1>4, <1>6, <1>7

-----------------------------------------------------------------------------
(* The inductive invariant.  Whoever executes holds the lock, so what it   *)
(* resolved cannot be spent before it commits; and a version that was      *)
(* spent is below the one the overlay holds, so it cannot be resolved.     *)

Resolving == {"shared", "owned", "gas", "run"}

\* The overlay holds object o or a later version of it.
Ahead(o, s) ==
    /\ s.objects[o.id] # None
    /\ s.objects[o.id] = o \/ s.objects[o.id].version > o.version

InputsOK(x) ==
    /\ x.pc # "idle" => x.tx \in Tx
    /\ x.pc = "owned" => x.tx.owned # None
    /\ x.pc = "gas" => x.owned # None
    /\ x.owned # None =>
          /\ x.pc \in {"gas", "run"}
          /\ x.tx.owned # None
          /\ x.owned.id = Coin /\ x.tx.owned.id = Coin
          /\ x.owned.version = x.tx.owned.version
    /\ x.shared # None => x.shared.id = Parent

\* An answer has an entry of the cache at its version or above.
AnswerKept(x, a) ==
    a.object # None =>
        /\ a.object.id = a.id
        /\ a.how = "child" => a.id = Child /\ a.object.data.owner = Parent
        /\ \E o \in x.object_cache : o.id = a.id /\ o.version >= a.object.version

NeverBack(x) ==
    \A i, j \in DOMAIN x.answers :
        LET a == x.answers[i]
            b == x.answers[j]
        IN  i < j /\ b.how = "object" /\ a.id = b.id /\ a.object # None
            => b.object # None /\ b.object.version >= a.object.version

AnswersOK(x) ==
    /\ \A i \in DOMAIN x.answers : AnswerKept(x, x.answers[i])
    /\ NeverBack(x)

Unspent(x, inputs) ==
    x.op = "execute" /\ x.owned # None /\ <<x.owned.id, x.owned.version>> \in inputs
        => OnMainnet(x.owned.id, x.owned.version) # None

GasOK(x) ==
    x.owned # None /\ ~x.rebound /\ OnMainnet(x.owned.id, x.owned.version) = None =>
        /\ x.pc = "gas" => Ahead(x.owned, state)
        /\ x.pc = "run" => x.owned.data.value >= x.tx.budget

Holds(x, r, l) == x.op = "execute" /\ x.pc \in Resolving => l = r

RunsOK ==
    \A r \in Runner :
        /\ InputsOK(run[r]) /\ AnswersOK(run[r]) /\ (~regressed => Unspent(run[r], spent))
        /\ GasOK(run[r]) /\ Holds(run[r], r, lock)

ChildHeld ==
    state.objects[Child] # None => state.objects[Child].data.owner = Parent

SpentBehind ==
    \A input \in spent :
        /\ input[1] = Coin
        /\ ~regressed /\ OnMainnet(input[1], input[2]) = None =>
              /\ state.objects[Coin] # None
              /\ state.objects[Coin].version > input[2]

Inv ==
    /\ TypeOK
    /\ Coherent(state)
    /\ ChildHeld
    /\ RunsOK
    /\ SpentBehind
    /\ ForkVersionsSpentOnce

\* A run that has not begun meets every part of the invariant.
LEMMA IdleOK ==
    /\ IdleRun \in RunRecord
    /\ IdleRun.pc = "idle" /\ IdleRun.op = "none" /\ IdleRun.owned = None
    /\ IdleRun.shared = None /\ IdleRun.answers = <<>>
    /\ InputsOK(IdleRun) /\ AnswersOK(IdleRun) /\ Unspent(IdleRun, spent) /\ GasOK(IdleRun)
<1>. USE DEF IdleRun
<1>1. IdleRun \in RunRecord
  BY DEF RunRecord, Maybe
<1>2. InputsOK(IdleRun) /\ Unspent(IdleRun, spent) /\ GasOK(IdleRun)
  BY DEF InputsOK, Unspent, GasOK
<1>3. AnswersOK(IdleRun)
  BY DEF AnswersOK, NeverBack
<1>. QED BY <1>1, <1>2, <1>3

\* No run has begun at first.
LEMMA InitInv == Init => Inv
<1>. SUFFICES ASSUME Init PROVE Inv
  OBVIOUS
<1>. USE DEF Init
<1>1. \A r \in Runner : run[r] = IdleRun
  OBVIOUS
<1>2. TypeOK
  BY DefaultLemma, IdleOK DEF TypeOK, Maybe
<1>3. ChildHeld
  BY ObjectsAssumption DEF ChildHeld, Default
<1>4. RunsOK
  BY <1>1, IdleOK DEF RunsOK, Holds, Resolving
<1>. QED BY <1>2, <1>3, <1>4, DefaultLemma DEF Inv, SpentBehind, ForkVersionsSpentOnce

-----------------------------------------------------------------------------
(* Steps that leave the overlay alone. *)

\* One run takes a step; the lock stays, is taken from nobody or is let go.
LEMMA OneRun ==
    ASSUME Inv, NEW r \in Runner, NEW R \in RunRecord,
           run' = [run EXCEPT ![r] = R],
           UNCHANGED <<state, history>>,
           runs' \in Nat, reads' \in Nat, UNCHANGED writes,
           \/ lock' = lock
           \/ lock = r /\ lock' = None
           \/ lock = None /\ lock' = r,
           InputsOK(R), AnswersOK(R), (~regressed => Unspent(R, spent)), GasOK(R), Holds(R, r, lock')
    PROVE  Inv'
<1>1. UNCHANGED <<state, spent, twice, regressed, overridden>>
  BY DEF history
<1>2. TypeOK'
  BY <1>1 DEF Inv, TypeOK, Maybe
<1>3. \A x \in Runner : run'[x] = IF x = r THEN R ELSE run[x]
  BY DEF Inv, TypeOK
<1>4. ASSUME NEW x \in Runner
      PROVE  (/\ InputsOK(run[x]) /\ AnswersOK(run[x]) /\ (~regressed => Unspent(run[x], spent))
              /\ GasOK(run[x]) /\ Holds(run[x], x, lock))'
  <2>1. CASE x = r
    <3>1. ((~regressed => Unspent(R, spent)) /\ GasOK(R))'
      BY <1>1 DEF Unspent, GasOK, Ahead
    <3>. QED BY <1>3, <2>1, <3>1
             DEF InputsOK, AnswersOK, AnswerKept, NeverBack, Unspent, GasOK, Ahead, Holds
  <2>2. CASE x # r
    <3>1. run'[x] = run[x]
      BY <1>3, <2>2
    <3>2. Holds(run[x], x, lock)'
      BY <2>2, <3>1, RunnerAssumption DEF Inv, RunsOK, Holds
    <3>. QED BY <1>1, <3>1, <3>2
             DEF Inv, RunsOK, InputsOK, AnswersOK, AnswerKept, NeverBack, Unspent,
                 GasOK, Ahead
  <2>. QED BY <2>1, <2>2
<1>5. RunsOK'
  BY <1>4 DEF RunsOK
<1>. QED BY <1>1, <1>2, <1>5 DEF Inv, ChildHeld, SpentBehind, ForkVersionsSpentOnce

\* execute and simulate preserve the invariant.
LEMMA BeginStep ==
    ASSUME Inv, NEW r \in Runner, execute(r) \/ simulate(r)
    PROVE  Inv'
<1>1. PICK tx \in Tx, op \in {"execute", "simulate"} : Begin(r, tx, op)
  BY DEF execute, simulate
<1>. DEFINE pc == IF op = "execute" THEN "lock" ELSE FirstInput(tx)
            R == [IdleRun EXCEPT !.tx = tx, !.op = op, !.pc = pc]
<1>2. pc \in {"lock", "shared", "owned"} /\ (pc = "owned" => tx.owned # None)
  BY DEF FirstInput, Tx
<1>3. op = "execute" => pc = "lock"
  OBVIOUS
<1>4. run' = [run EXCEPT ![r] = R] /\ UNCHANGED <<state, lock, reads, writes, history>>
      /\ runs' = runs + 1
  BY <1>1 DEF Begin
<1>. HIDE DEF pc
<1>5. /\ R \in RunRecord
      /\ R.pc = pc /\ R.op = op /\ R.tx = tx /\ R.owned = None /\ R.shared = None
      /\ R.answers = <<>>
  BY <1>2, IdleOK DEF RunRecord, Maybe
<1>. HIDE DEF R
<1>6. InputsOK(R) /\ AnswersOK(R) /\ (~regressed => Unspent(R, spent)) /\ GasOK(R)
  BY <1>2, <1>5 DEF InputsOK, AnswersOK, NeverBack, Unspent, GasOK
<1>7. Holds(R, r, lock')
  BY <1>3, <1>5 DEF Holds, Resolving
<1>8. runs' \in Nat /\ reads' \in Nat
  BY <1>4 DEF Inv, TypeOK
<1>. QED BY <1>4, <1>5, <1>6, <1>7, <1>8, OneRun

\* The record of the one run that steps.
LEMMA RunTyped ==
    ASSUME Inv, NEW r \in Runner
    PROVE  /\ run \in [Runner -> RunRecord] /\ run[r] \in RunRecord
           /\ InputsOK(run[r]) /\ AnswersOK(run[r]) /\ (~regressed => Unspent(run[r], spent))
           /\ GasOK(run[r]) /\ Holds(run[r], r, lock)
           /\ state \in OverlayState /\ KeyedById(state)
           /\ runs \in Nat /\ reads \in Nat /\ lock \in Maybe(Runner)
BY DEF Inv, TypeOK, RunsOK, Coherent

\* Steps that only move on or fill in an input keep what the answers are.
LEMMA SameAnswers ==
    ASSUME NEW x, NEW y, AnswersOK(x), y.answers = x.answers,
           y.object_cache = x.object_cache
    PROVE  AnswersOK(y)
BY DEF AnswersOK, AnswerKept, NeverBack

\* Taking the sequencer preserves the invariant.
LEMMA AcquireStep ==
    ASSUME Inv, NEW r \in Runner, Acquire(r)
    PROVE  Inv'
<1>. DEFINE pc == FirstInput(run[r].tx)
            R == [run[r] EXCEPT !.pc = pc]
<1>0. run[r].pc = "lock" /\ run[r].tx \in Tx /\ run[r].owned = None
  BY RunTyped DEF Acquire, At, InputsOK
<1>1. pc \in {"shared", "owned"} /\ (pc = "owned" => run[r].tx.owned # None)
  BY <1>0 DEF FirstInput, Tx
<1>2. /\ run' = [run EXCEPT ![r] = R] /\ lock = None /\ lock' = r
      /\ UNCHANGED <<state, runs, reads, writes, history>>
  BY RunTyped DEF Acquire
<1>. HIDE DEF pc
<1>3. /\ R \in RunRecord /\ R.pc = pc
      /\ R.op = run[r].op /\ R.tx = run[r].tx /\ R.owned = run[r].owned
      /\ R.shared = run[r].shared /\ R.answers = run[r].answers
      /\ R.object_cache = run[r].object_cache
  BY <1>1, RunTyped DEF RunRecord
<1>. HIDE DEF R
<1>4. InputsOK(R) /\ (~regressed => Unspent(R, spent)) /\ GasOK(R)
  BY <1>0, <1>1, <1>3, RunTyped DEF InputsOK, Unspent, GasOK
<1>5. AnswersOK(R)
  BY <1>3, RunTyped, SameAnswers
<1>6. Holds(R, r, lock')
  BY <1>2 DEF Holds
<1>. QED BY <1>2, <1>3, <1>4, <1>5, <1>6, RunTyped, OneRun

\* Resolving the shared input preserves the invariant.
LEMMA ResolveSharedStep ==
    ASSUME Inv, NEW r \in Runner, ResolveShared(r)
    PROVE  Inv'
<1>. DEFINE object == Current(state, Parent)
            pc == NextInput(run[r].tx)
            R == [run[r] EXCEPT !.shared = object, !.pc = pc]
<1>0. run[r].pc = "shared" /\ run[r].tx \in Tx /\ run[r].owned = None
  BY RunTyped DEF ResolveShared, At, InputsOK
<1>1. pc \in {"owned", "run"} /\ (pc = "owned" => run[r].tx.owned # None)
  BY DEF NextInput
<1>2. /\ run' = [run EXCEPT ![r] = R] /\ object # None
      /\ UNCHANGED <<state, lock, runs, reads, writes, history>>
  BY RunTyped DEF ResolveShared, ReadOnly
<1>3. object \in Object /\ object.id = Parent
  BY <1>2, RunTyped, CurrentKeyed, ObjectsAssumption
<1>. HIDE DEF pc, object
<1>4. /\ R \in RunRecord /\ R.pc = pc /\ R.shared = object
      /\ R.op = run[r].op /\ R.tx = run[r].tx /\ R.owned = run[r].owned
      /\ R.answers = run[r].answers /\ R.object_cache = run[r].object_cache
  BY <1>1, <1>3, RunTyped DEF RunRecord, Maybe
<1>. HIDE DEF R
<1>5. InputsOK(R) /\ (~regressed => Unspent(R, spent)) /\ GasOK(R)
  BY <1>0, <1>1, <1>3, <1>4, RunTyped DEF InputsOK, Unspent, GasOK
<1>6. AnswersOK(R)
  BY <1>4, RunTyped, SameAnswers
<1>7. Holds(R, r, lock')
  BY <1>0, <1>2, <1>4, RunTyped DEF Holds, Resolving
<1>. QED BY <1>2, <1>4, <1>5, <1>6, <1>7, RunTyped, OneRun

\* An owned input that is resolved is the coin, at the version pinned; on the
\* fork's account only if that version was never spent.
LEMMA ResolveOwnedStep ==
    ASSUME Inv, NEW r \in Runner, ResolveOwned(r)
    PROVE  Inv'
<1>. DEFINE pin == run[r].tx.owned
            object == Lookup(state, AtVersion(pin.id, pin.version))
            R == [run[r] EXCEPT !.owned = object, !.pc = "gas"]
<1>0. /\ run[r].pc = "owned" /\ run[r].tx \in Tx /\ pin # None
      /\ object # None /\ object.data.owner \notin ObjectID
      /\ UNCHANGED <<state, lock, runs, reads, writes, history>>
  BY RunTyped DEF ResolveOwned, At, InputsOK, ReadOnly
<1>1. run' = [run EXCEPT ![r] = R]
  BY RunTyped DEF ResolveOwned
<1>2. pin \in Pins /\ pin.id \in {Coin, Child} /\ pin.version \in Version
      /\ pin.id \in ObjectID
  <2>1. pin \in Pins
    BY <1>0 DEF Tx, Maybe
  <2>. HIDE DEF pin
  <2>. QED BY <2>1, PinsAssumption, ObjectsAssumption
<1>. HIDE DEF pin
<1>3. /\ object \in Object /\ object.id = pin.id /\ object.version = pin.version
      /\ \/ state.objects[pin.id] = object
         \/ Mainnet[pin.id][AtVersion(pin.id, pin.version).version_query] = object
      /\ OnMainnet(pin.id, pin.version) = None => state.objects[pin.id] = object
  BY <1>0, <1>2, RunTyped, PinnedLookup
<1>4. pin.id = Coin
  <2>1. AtVersion(pin.id, pin.version).version_query \in Query
    BY <1>2 DEF AtVersion, Query
  <2>2. pin.id # Child
    BY <1>0, <1>3, <2>1, ChildAssumption, ObjectsAssumption DEF Inv, ChildHeld
  <2>. QED BY <1>2, <2>2
<1>. HIDE DEF object
<1>5. /\ R \in RunRecord /\ R.pc = "gas" /\ R.owned = object
      /\ R.op = run[r].op /\ R.tx = run[r].tx /\ R.shared = run[r].shared
      /\ R.answers = run[r].answers /\ R.object_cache = run[r].object_cache
  BY <1>3, RunTyped DEF RunRecord, Maybe
<1>. HIDE DEF R
<1>6. InputsOK(R)
  BY <1>0, <1>3, <1>4, <1>5, RunTyped DEF InputsOK, pin
<1>7. ~regressed => Unspent(R, spent)
  <2>. SUFFICES ASSUME ~regressed, <<object.id, object.version>> \in spent,
                       OnMainnet(object.id, object.version) = None
                PROVE  FALSE
    BY <1>5 DEF Unspent
  <2>1. state.objects[Coin].version > object.version
    BY DEF Inv, SpentBehind
  <2>2. state.objects[Coin] = object
    BY <1>3, <1>4
  <2>3. object.version \in Nat
    BY <1>3, VersionAssumption DEF Object
  <2>. QED BY <2>1, <2>2, <2>3
<1>8. GasOK(R)
  BY <1>0, <1>3, <1>4, <1>5 DEF GasOK, Ahead
<1>9. AnswersOK(R)
  BY <1>5, RunTyped, SameAnswers
<1>10. Holds(R, r, lock')
  BY <1>0, <1>5, RunTyped DEF Holds, Resolving
<1>. QED BY <1>0, <1>1, <1>5, <1>6, <1>7, <1>8, <1>9, <1>10, RunTyped, OneRun

\* The coin the gas check reads is the one that was resolved, when its version
\* still names what it did.
LEMMA CheckGasStep ==
    ASSUME Inv, NEW r \in Runner, check_gas_payment(r)
    PROVE  Inv'
<1>. DEFINE owned == run[r].owned
            pin == run[r].tx.owned
            coin == Lookup(state, AtVersion(pin.id, pin.version))
            R == [run[r] EXCEPT !.pc = "run"]
<1>1. /\ run[r].pc = "gas" /\ coin # None /\ coin.data.value >= run[r].tx.budget
      /\ run' = [run EXCEPT ![r] = R]
      /\ UNCHANGED <<state, lock, runs, reads, writes, history>>
  BY RunTyped DEF check_gas_payment, At, ReadOnly
<1>2. /\ owned \in Object /\ owned # None /\ owned.id = Coin
      /\ pin.id = Coin /\ pin.version = owned.version
  BY <1>1, RunTyped DEF InputsOK, RunRecord, Maybe
<1>3. owned.version \in Version /\ owned.version \in Nat
  BY <1>2, VersionAssumption DEF Object
<1>. HIDE DEF pin
<1>4. /\ coin.version = owned.version
      /\ OnMainnet(Coin, owned.version) = None => state.objects[Coin] = coin
  BY <1>1, <1>2, <1>3, RunTyped, PinnedLookup, ObjectsAssumption
<1>. HIDE DEF coin
<1>5. /\ R \in RunRecord /\ R.pc = "run" /\ R.owned = owned
      /\ R.op = run[r].op /\ R.tx = run[r].tx /\ R.shared = run[r].shared
      /\ R.rebound = run[r].rebound
      /\ R.answers = run[r].answers /\ R.object_cache = run[r].object_cache
  BY RunTyped DEF RunRecord
<1>. HIDE DEF R
<1>6. InputsOK(R) /\ (~regressed => Unspent(R, spent))
  BY <1>1, <1>2, <1>5, RunTyped DEF InputsOK, Unspent
<1>7. GasOK(R)
  <2>. SUFFICES ASSUME ~run[r].rebound, OnMainnet(Coin, owned.version) = None
                PROVE  owned.data.value >= run[r].tx.budget
    BY <1>2, <1>5 DEF GasOK
  <2>1. Ahead(owned, state)
    BY <1>1, <1>2, RunTyped DEF GasOK
  <2>2. state.objects[Coin] = coin
    BY <1>4
  <2>3. owned = coin
    BY <1>2, <1>3, <1>4, <2>1, <2>2 DEF Ahead
  <2>. QED BY <1>1, <2>3
<1>8. AnswersOK(R)
  BY <1>5, RunTyped, SameAnswers
<1>9. Holds(R, r, lock')
  BY <1>1, <1>5, RunTyped DEF Holds, Resolving
<1>. QED BY <1>1, <1>5, <1>6, <1>7, <1>8, <1>9, RunTyped, OneRun

\* The end of a run, failed or reported, preserves the invariant.
LEMMA EndStep ==
    ASSUME Inv, NEW r \in Runner, Fail(r) \/ Report(r)
    PROVE  Inv'
<1>1. /\ run' = [run EXCEPT ![r] = IdleRun]
      /\ lock' = IF lock = r THEN None ELSE lock
      /\ UNCHANGED <<state, runs, reads, writes, history>>
  BY DEF Fail, Report, End
<1>2. Holds(IdleRun, r, lock')
  BY IdleOK DEF Holds
<1>. QED BY <1>1, <1>2, IdleOK, RunTyped, OneRun

\* The executor is given an answer no older than what is cached.
LEMMA AnswerLemma ==
    ASSUME NEW x \in RunRecord, AnswersOK(x), NEW a \in AnswerRecord,
           a.object # None =>
              a.object.id = a.id
              /\ (a.how = "child" => a.id = Child /\ a.object.data.owner = Parent),
           a.how = "object" => \A o \in x.object_cache :
              o.id = a.id => a.object # None /\ a.object.version >= o.version,
           NEW y, y.object_cache = cache_insert(x.object_cache, a.object),
           y.answers = Append(x.answers, a)
    PROVE  AnswersOK(y)
<1>. DEFINE n == Len(x.answers)
<1>1. /\ x.answers \in Seq(AnswerRecord) /\ x.object_cache \in SUBSET Object
      /\ n \in Nat /\ DOMAIN x.answers = 1 .. n
  BY DEF RunRecord
<1>2. /\ DOMAIN y.answers = 1 .. n + 1 /\ y.answers[n + 1] = a
      /\ \A i \in 1 .. n : y.answers[i] = x.answers[i]
  BY <1>1
<1>3. \A o \in x.object_cache : \E p \in y.object_cache :
         p.id = o.id /\ p.version = o.version
  BY DEF cache_insert
<1>4. a.object # None => a.object \in y.object_cache /\ a.object \in Object
  BY DEF cache_insert, AnswerRecord, Maybe
<1>5. \A o \in Object : o.version \in Nat
  BY VersionAssumption DEF Object
<1>6. \A i \in 1 .. n : AnswerKept(x, x.answers[i]) /\ x.answers[i] \in AnswerRecord
  BY <1>1 DEF AnswersOK
<1>. HIDE DEF n
<1>7. \A i \in 1 .. n : AnswerKept(y, x.answers[i])
  BY <1>3, <1>6 DEF AnswerKept
<1>8. AnswerKept(y, a)
  BY <1>4, <1>5 DEF AnswerKept
<1>9. \A i \in DOMAIN y.answers : AnswerKept(y, y.answers[i])
  BY <1>1, <1>2, <1>7, <1>8
<1>10. NeverBack(y)
  <2>. SUFFICES ASSUME NEW i \in 1 .. n + 1, NEW j \in 1 .. n + 1, i < j,
                       y.answers[j].how = "object",
                       y.answers[i].id = y.answers[j].id,
                       y.answers[i].object # None
                PROVE  /\ y.answers[j].object # None
                       /\ y.answers[j].object.version >= y.answers[i].object.version
    BY <1>2 DEF NeverBack
  <2>1. i \in 1 .. n /\ y.answers[i] = x.answers[i]
    BY <1>1, <1>2
  <2>2. CASE j \in 1 .. n
    BY <1>1, <1>2, <2>1, <2>2 DEF AnswersOK, NeverBack
  <2>3. CASE j = n + 1
    <3>1. y.answers[j] = a
      BY <1>2, <2>3
    <3>2. PICK o \in x.object_cache :
             o.id = a.id /\ o.version >= x.answers[i].object.version
      BY <1>6, <2>1, <3>1 DEF AnswerKept
    <3>3. a.object # None /\ a.object.version >= o.version
      BY <3>1, <3>2
    <3>4. /\ o.version \in Nat /\ a.object.version \in Nat
          /\ x.answers[i].object.version \in Nat
      <4>1. x.answers[i].object \in Object
        BY <1>6, <2>1 DEF AnswerRecord, Maybe
      <4>. QED BY <1>1, <1>4, <1>5, <3>3, <4>1
    <3>. QED BY <2>1, <3>1, <3>2, <3>3, <3>4
  <2>. QED BY <1>1, <2>2, <2>3
<1>. QED BY <1>9, <1>10 DEF AnswersOK

\* Any answer given that way keeps the invariant.
LEMMA AnsweredStep ==
    ASSUME Inv, NEW r \in Runner, Asks(r),
           NEW how \in {"object", "version", "child"}, NEW id \in ObjectID,
           NEW object \in Maybe(Object), Answered(r, how, id, object),
           object # None =>
              object.id = id
              /\ (how = "child" => id = Child /\ object.data.owner = Parent),
           how = "object" => \A o \in run[r].object_cache :
              o.id = id => object # None /\ object.version >= o.version
    PROVE  Inv'
<1>. DEFINE a == [how |-> how, id |-> id, object |-> object]
            R == [run[r] EXCEPT
                     !.object_cache = cache_insert(run[r].object_cache, object),
                     !.answers = Append(run[r].answers, a)]
<1>1. a \in AnswerRecord /\ a.how = how /\ a.id = id /\ a.object = object
  BY DEF AnswerRecord
<1>2. /\ run' = [run EXCEPT ![r] = R] /\ run[r].pc = "run"
      /\ UNCHANGED <<state, lock, runs, writes, history>> /\ reads' = reads + 1
  BY RunTyped DEF Answered, Asks, At
<1>. HIDE DEF a
<1>3. /\ cache_insert(run[r].object_cache, object) \in SUBSET Object
      /\ Append(run[r].answers, a) \in Seq(AnswerRecord)
  BY <1>1, RunTyped DEF cache_insert, RunRecord, Maybe
<1>4. /\ R \in RunRecord /\ R.pc = run[r].pc /\ R.owned = run[r].owned
      /\ R.op = run[r].op /\ R.tx = run[r].tx /\ R.shared = run[r].shared
      /\ R.rebound = run[r].rebound
      /\ R.answers = Append(run[r].answers, a)
      /\ R.object_cache = cache_insert(run[r].object_cache, object)
  BY <1>3, RunTyped DEF RunRecord
<1>. HIDE DEF R
<1>5. InputsOK(R) /\ (~regressed => Unspent(R, spent)) /\ GasOK(R) /\ Holds(R, r, lock')
  BY <1>2, <1>4, RunTyped DEF InputsOK, Unspent, GasOK, Holds
<1>6. AnswersOK(R)
  BY <1>1, <1>4, RunTyped, AnswerLemma
<1>7. runs' \in Nat /\ reads' \in Nat
  BY <1>2, RunTyped
<1>. QED BY <1>2, <1>4, <1>5, <1>6, <1>7, OneRun

\* A read of the VM preserves the invariant.
LEMMA ReadStep ==
    ASSUME Inv, NEW r \in Runner, Read(r)
    PROVE  Inv'
<1>0. /\ \A o \in run[r].object_cache : o \in Object /\ o # None /\ o.version \in Nat
      /\ {Coin, Parent, Child} \subseteq ObjectID
      /\ AtFork \in Query
  BY RunTyped, MainnetAssumption, VersionAssumption, ObjectsAssumption
     DEF RunRecord, Object, AtFork, Query
<1>1. ASSUME NEW id \in ObjectID, get_object(r, id)
      PROVE  Inv'
  <2>. DEFINE key == [object_id |-> id, version_query |-> AtFork]
  <2>1. CASE Cached(r, id) = {}
    <3>1. PICK object \in Fetched(key) : Asks(r) /\ Answered(r, "object", id, object)
      BY <1>1, <2>1 DEF get_object
    <3>2. object = None \/ (object = Current(state, id) /\ Current(state, id) # None)
      BY <3>1 DEF Fetched, Current
    <3>3. object # None => object \in Object /\ object.id = id
      BY <3>2, RunTyped, CurrentKeyed
    <3>4. \A o \in run[r].object_cache : o.id # id
      BY <2>1 DEF Cached
    <3>. QED BY <3>1, <3>3, <3>4, AnsweredStep DEF Maybe
  <2>2. CASE Cached(r, id) # {}
    <3>1. PICK object \in Cached(r, id) :
             /\ \A p \in Cached(r, id) : p.version =< object.version
             /\ Asks(r) /\ Answered(r, "object", id, object)
      BY <1>1, <2>2 DEF get_object
    <3>2. object \in Object /\ object.id = id /\ object # None
      BY <1>0, <3>1 DEF Cached
    <3>3. \A o \in run[r].object_cache : o.id = id => object.version >= o.version
      BY <1>0, <3>1 DEF Cached
    <3>. QED BY <3>1, <3>2, <3>3, AnsweredStep DEF Maybe
  <2>. QED BY <2>1, <2>2
<1>2. ASSUME NEW pin \in Pins, get_object_at_version(r, pin.id, pin.version)
      PROVE  Inv'
  <2>. DEFINE key == AtVersion(pin.id, pin.version)
              cached == {o \in Cached(r, pin.id) : o.version = pin.version}
  <2>1. pin.id \in ObjectID /\ pin.version \in Version
    BY PinsAssumption, ObjectsAssumption
  <2>2. PICK object : /\ object \in IF cached = {} THEN Fetched(key) ELSE cached
                      /\ Asks(r) /\ Answered(r, "version", pin.id, object)
    BY <1>2 DEF get_object_at_version
  <2>3. object # None => object \in Object /\ object.id = pin.id
    <3>1. CASE object \in cached
      BY <1>0, <3>1 DEF Cached
    <3>2. CASE object \in Fetched(key)
      <4>1. object = None \/ object = Lookup(state, key)
        BY <3>2 DEF Fetched
      <4>. QED BY <2>1, <4>1, RunTyped, PinnedLookup
    <3>. QED BY <2>2, <3>1, <3>2
  <2>. QED BY <2>1, <2>2, <2>3, AnsweredStep DEF Maybe
<1>3. CASE read_child_object(r)
  <2>. DEFINE q == [kind |-> "RootVersion", n |-> run[r].shared.version]
              object == Lookup(state, WithRoot(Child, run[r].shared.version))
  <2>1. /\ Asks(r) /\ run[r].shared # None
        /\ Answered(r, "child", Child, object)
    BY <1>3 DEF read_child_object
  <2>2. q \in Query
    <3>1. run[r].shared.version \in Version
      BY <2>1, RunTyped DEF RunRecord, Maybe, Object
    <3>. QED BY <3>1 DEF Query
  <2>3. object = Lookup(state, [object_id |-> Child, version_query |-> q])
    BY DEF WithRoot
  <2>. HIDE DEF object, q
  <2>4. object # None => /\ object \in Object /\ object.id = Child
                         /\ state.objects[Child] = object \/ Mainnet[Child][q] = object
    BY <1>0, <2>2, <2>3, RunTyped, LookupTyped
  <2>5. object # None => object.data.owner = Parent
    BY <2>2, <2>4, ChildAssumption DEF Inv, ChildHeld
  <2>. QED BY <1>0, <2>1, <2>4, <2>5, AnsweredStep DEF Maybe
<1>. QED BY <1>0, <1>1, <1>2, <1>3 DEF Read

-----------------------------------------------------------------------------
(* Steps that write the overlay. *)

\* What other runs are told of a write.
LEMMA ToldTyped ==
    ASSUME Inv, NEW x \in Runner, NEW b \in BOOLEAN
    PROVE  LET R == Told(x, b)
           IN  /\ R \in RunRecord /\ R.pc = run[x].pc /\ R.op = run[x].op
               /\ R.tx = run[x].tx /\ R.owned = run[x].owned
               /\ R.shared = run[x].shared /\ R.answers = run[x].answers
               /\ R.object_cache = run[x].object_cache
               /\ R.owned # None /\ ~R.rebound =>
                     ~run[x].rebound /\ ~Rewrites /\ ~b
<1>. DEFINE rebound == run[x].rebound \/ Rewrites \/ b
            R == [run[x] EXCEPT !.changed = TRUE, !.rebound = rebound]
<1>1. rebound \in BOOLEAN
  OBVIOUS
<1>2. ~rebound => ~run[x].rebound /\ ~Rewrites /\ ~b
  OBVIOUS
<1>3. CASE run[x].pc \in {"idle", "lock"}
  <2>1. Told(x, b) = run[x]
    BY <1>3 DEF Told, At
  <2>. QED BY <1>3, <2>1, RunTyped DEF InputsOK
<1>4. CASE run[x].pc \notin {"idle", "lock"}
  <2>1. Told(x, b) = R
    BY <1>4 DEF Told, At
  <2>. HIDE DEF rebound
  <2>2. /\ R \in RunRecord /\ R.pc = run[x].pc /\ R.op = run[x].op
        /\ R.tx = run[x].tx /\ R.owned = run[x].owned
        /\ R.shared = run[x].shared /\ R.answers = run[x].answers
        /\ R.object_cache = run[x].object_cache /\ R.rebound = rebound
    BY <1>1, RunTyped DEF RunRecord
  <2>. QED BY <1>2, <2>1, <2>2
<1>. QED BY <1>3, <1>4

\* A write of the overlay that ends the runs in D, if any.
LEMMA OverlayWrite ==
    ASSUME Inv, NEW b \in BOOLEAN, NEW D \in SUBSET Runner,
           state' \in OverlayState, Coherent(state'), ChildHeld',
           run' = [x \in Runner |-> IF x \in D THEN IdleRun ELSE Told(x, b)],
           \/ lock' = lock
           \/ lock \in D /\ lock' = None,
           runs' \in Nat, reads' \in Nat, writes' \in Nat,
           spent' \in SUBSET (ObjectID \X Version), twice' \in SUBSET spent',
           regressed' \in BOOLEAN, overridden' \in BOOLEAN,
           ~b /\ state.objects[Coin] # None => state'.objects[Coin] # None,
           ~regressed' => \A x \in Runner \ D : Unspent(run[x], spent'),
           SpentBehind', ForkVersionsSpentOnce'
    PROVE  Inv'
<1>1. \A x \in Runner : run'[x] = IF x \in D THEN IdleRun ELSE Told(x, b)
  OBVIOUS
<1>2. TypeOK'
  <2>1. run' \in [Runner -> RunRecord]
    BY IdleOK, ToldTyped
  <2>. QED BY <2>1 DEF Inv, TypeOK, Maybe
<1>3. ASSUME NEW x \in Runner
      PROVE  (/\ InputsOK(run[x]) /\ AnswersOK(run[x])
              /\ (~regressed => Unspent(run[x], spent))
              /\ GasOK(run[x]) /\ Holds(run[x], x, lock))'
  <2>1. CASE x \in D
    BY <1>1, <2>1, IdleOK
       DEF IdleRun, InputsOK, AnswersOK, NeverBack, Unspent, GasOK, Holds, Resolving
  <2>2. CASE x \notin D
    <3>. DEFINE R == Told(x, b)
    <3>1. run'[x] = R
      BY <1>1, <2>2
    <3>2. /\ R \in RunRecord /\ R.pc = run[x].pc /\ R.op = run[x].op
          /\ R.tx = run[x].tx /\ R.owned = run[x].owned
          /\ R.shared = run[x].shared /\ R.answers = run[x].answers
          /\ R.object_cache = run[x].object_cache
          /\ R.owned # None /\ ~R.rebound => ~run[x].rebound /\ ~Rewrites /\ ~b
      BY ToldTyped
    <3>. HIDE DEF R
    <3>3. (InputsOK(run[x]) /\ AnswersOK(run[x]))'
      BY <3>1, <3>2, RunTyped DEF InputsOK, AnswersOK, AnswerKept, NeverBack
    <3>4. (~regressed => Unspent(run[x], spent))'
      BY <2>2, <3>1, <3>2 DEF Unspent
    <3>5. Holds(run[x], x, lock)'
      BY <2>2, <3>1, <3>2, RunTyped DEF Holds
    <3>6. GasOK(run[x])'
      <4>. SUFFICES ASSUME R.owned # None, ~R.rebound,
                           OnMainnet(R.owned.id, R.owned.version) = None
                    PROVE  /\ R.pc = "gas" => Ahead(R.owned, state')
                           /\ R.pc = "run" => R.owned.data.value >= R.tx.budget
        BY <3>1 DEF GasOK, Ahead
      <4>1. /\ R.pc = "gas" => Ahead(run[x].owned, state)
            /\ R.pc = "run" => R.owned.data.value >= R.tx.budget
        BY <3>2, RunTyped DEF GasOK
      <4>2. ~Rewrites /\ ~b /\ R.owned.id = Coin /\ R.owned \in Object
        BY <3>2, RunTyped DEF InputsOK, RunRecord, Maybe
      <4>3. ASSUME Ahead(run[x].owned, state)
            PROVE  Ahead(R.owned, state')
        <5>1. state.objects[Coin] # None /\ state'.objects[Coin] # None
          BY <3>2, <4>2, <4>3 DEF Ahead
        <5>2. \/ state'.objects[Coin] = state.objects[Coin]
              \/ ~(state'.objects[Coin].version =< state.objects[Coin].version)
          BY <4>2, <5>1, ObjectsAssumption DEF Rewrites
        <5>3. /\ state.objects[Coin].version \in Nat
              /\ state'.objects[Coin].version \in Nat
              /\ R.owned.version \in Nat
          BY <4>2, <5>1, RunTyped, ObjectsAssumption, VersionAssumption
             DEF OverlayState, Maybe, Object
        <5>4. \/ state'.objects[Coin] = R.owned
              \/ state'.objects[Coin].version > R.owned.version
          BY <3>2, <4>2, <4>3, <5>2, <5>3 DEF Ahead
        <5>. QED BY <3>1, <4>2, <5>1, <5>4 DEF Ahead
      <4>. QED BY <4>1, <4>3
    <3>. QED BY <3>3, <3>4, <3>5, <3>6
  <2>. QED BY <2>1, <2>2
<1>4. RunsOK'
  BY <1>3 DEF RunsOK
<1>. QED BY <1>2, <1>4 DEF Inv

\* A write of the overlay that keeps the coin and spends nothing leaves spent
\* versions behind.
LEMMA StillBehind ==
    ASSUME Inv, state' \in OverlayState,
           state.objects[Coin] # None => state'.objects[Coin] # None,
           regressed' <=> regressed \/ Rewrites,
           NEW input \in spent, ~regressed', OnMainnet(input[1], input[2]) = None
    PROVE  /\ input[1] = Coin /\ state'.objects[Coin] # None
           /\ state'.objects[Coin].version > input[2]
<1>1. /\ input[1] = Coin /\ state.objects[Coin] # None
      /\ state.objects[Coin].version > input[2]
  BY DEF Inv, SpentBehind
<1>2. \/ state'.objects[Coin] = state.objects[Coin]
      \/ ~(state'.objects[Coin].version =< state.objects[Coin].version)
  BY <1>1, ObjectsAssumption DEF Rewrites
<1>3. /\ state.objects[Coin].version \in Nat /\ state'.objects[Coin].version \in Nat
      /\ input[2] \in Nat
  BY <1>1, RunTyped, ObjectsAssumption, VersionAssumption
     DEF Inv, TypeOK, OverlayState, Maybe, Object
<1>. QED BY <1>1, <1>2, <1>3

\* The effects of an execution are well formed; they write the coin if it is an
\* input, never delete it, and leave the child with its parent.
LEMMA OutcomeTyped ==
    ASSUME Inv, NEW r \in Runner, At(r, "run"), Charged(r), Lamport(r) \in Version,
           NEW effect \in ChildEffects(r)
    PROVE  LET e == Outcome(r, effect)
               owned == run[r].owned
           IN  /\ e \in Effects
               /\ Coin \notin e.deleted
               /\ owned # None => /\ e.written[Coin] \in Object
                                  /\ e.written[Coin].version = Lamport(r)
               /\ e.written[Child] # None => e.written[Child].data.owner = Parent
<1>. DEFINE e == Outcome(r, effect)
            owned == run[r].owned
            shared == run[r].shared
            v == Lamport(r)
            coin == At1(owned, v, owned.data.value - 1)
            parent == At1(shared, v, shared.data.value)
<1>1. \A o \in Object : o.data.value \in 0 .. MaxValue
  BY DataAssumption DEF Object
<1>2. owned # None => /\ owned \in Object /\ owned.id = Coin
                      /\ owned.data.value - 1 \in 0 .. MaxValue
  <2>1. owned # None => owned \in Object /\ owned.id = Coin /\ owned.data.value > 0
    BY RunTyped DEF InputsOK, RunRecord, Maybe, Charged
  <2>. QED BY <1>1, <2>1, DataAssumption
<1>3. owned # None => coin \in Object /\ coin.id = Coin /\ coin.version = v
  BY <1>2, At1Typed
<1>4. shared # None => parent \in Object /\ parent.id = Parent
  <2>1. shared # None => shared \in Object /\ shared.id = Parent
    BY RunTyped DEF InputsOK, RunRecord, Maybe
  <2>. QED BY <1>1, <2>1, At1Typed
<1>5. \A o \in ChildRead(r) : o \in Object /\ o.id = Child /\ o.data.owner = Parent
  <2>1. \A a \in Range(run[r].answers) :
           a \in AnswerRecord /\ AnswerKept(run[r], a)
    <3>1. run[r].answers \in Seq(AnswerRecord)
      BY RunTyped DEF RunRecord
    <3>. QED BY <3>1, RunTyped DEF AnswersOK, Range
  <2>. QED BY <2>1 DEF ChildRead, AnswerKept, AnswerRecord, Maybe
<1>. DEFINE OnChild ==
            /\ effect.deleted \in SUBSET {Child}
            /\ effect.written # None =>
                  /\ effect.written \in Object /\ effect.written.id = Child
                  /\ effect.written.data.owner = Parent
<1>6. OnChild
  <2>1. CASE effect = [written |-> None, deleted |-> {}]
    BY <2>1
  <2>2. ASSUME NEW o \in ChildRead(r), o.data.value < MaxValue,
               effect = [written |-> At1(o, v, o.data.value + 1), deleted |-> {}]
        PROVE  OnChild
    <3>1. o.data.value + 1 \in 0 .. MaxValue
      BY <1>1, <1>5, <2>2, DataAssumption
    <3>. QED BY <1>5, <2>2, <3>1, At1Typed
  <2>3. ASSUME NEW o \in ChildRead(r),
               effect = [written |-> None, deleted |-> {o.id}]
        PROVE  OnChild
    BY <1>5, <2>3
  <2>4. CASE effect = [written |-> [id |-> Child, version |-> v,
                                    data |-> [owner |-> Parent, value |-> 0]],
                       deleted |-> {}]
    BY <2>4, DataAssumption, ObjectsAssumption DEF Object
  <2>5. \/ effect = [written |-> None, deleted |-> {}]
        \/ \E o \in ChildRead(r) : o.data.value < MaxValue
              /\ effect = [written |-> At1(o, v, o.data.value + 1), deleted |-> {}]
        \/ \E o \in ChildRead(r) : effect = [written |-> None, deleted |-> {o.id}]
        \/ effect = [written |-> [id |-> Child, version |-> v,
                                  data |-> [owner |-> Parent, value |-> 0]],
                     deleted |-> {}]
    BY Zenon DEF ChildEffects
  <2>. HIDE DEF OnChild
  <2>. QED BY <2>1, <2>2, <2>3, <2>4, <2>5
<1>. HIDE DEF coin, parent, v, owned, shared
<1>7. /\ e.deleted = effect.deleted
      /\ e.events = [a \in Account |-> [operation |-> "Ignored", amount |-> 0]]
      /\ e.written = [id \in ObjectID |->
            IF owned # None /\ id = owned.id THEN coin
            ELSE IF shared # None /\ id = Parent THEN parent
            ELSE IF id = Child THEN effect.written ELSE None]
      /\ e = [written |-> e.written, deleted |-> e.deleted, events |-> e.events]
  BY DEF Outcome, coin, parent, v, owned, shared
<1>. HIDE DEF e
<1>8. e.events \in [Account -> Event]
  BY <1>7 DEF Event
<1>9. \A id \in ObjectID : e.written[id] # None =>
         e.written[id] \in Object /\ e.written[id].id = id
  BY <1>2, <1>3, <1>4, <1>6, <1>7
<1>10. e \in Effects
  <2>1. e.written \in [ObjectID -> Maybe(Object)]
    BY <1>7, <1>9 DEF Maybe
  <2>2. e.deleted \in SUBSET ObjectID
    BY <1>6, <1>7, ObjectsAssumption
  <2>. QED BY <1>7, <1>8, <1>9, <2>1, <2>2 DEF Effects
<1>11. owned # None => e.written[Coin] = coin
  BY <1>2, <1>7, ObjectsAssumption
<1>12. e.written[Child] # None => e.written[Child].data.owner = Parent
  BY <1>2, <1>6, <1>7, ObjectsAssumption
<1>13. Coin \notin e.deleted
  BY <1>6, <1>7, ObjectsAssumption
<1>. QED BY <1>3, <1>10, <1>11, <1>12, <1>13 DEF e, owned, v

\* A commit preserves the invariant.
LEMMA CommitStep ==
    ASSUME Inv, NEW r \in Runner, Commit(r)
    PROVE  Inv'
<1>. DEFINE owned == run[r].owned
            consumed == {<<o.id, o.version>> : o \in {owned} \ {None}}
<1>1. /\ run[r].pc = "run" /\ run[r].op = "execute"
      /\ Charged(r) /\ Lamport(r) \in Version
      /\ run' = [x \in Runner |-> IF x = r THEN IdleRun ELSE Told(x, FALSE)]
      /\ lock' = IF lock = r THEN None ELSE lock
      /\ spent' = spent \cup consumed /\ twice' = twice \cup (spent \cap consumed)
      /\ regressed' = (regressed \/ Rewrites)
      /\ UNCHANGED <<runs, reads, writes, overridden>>
  BY DEF Commit, At
<1>2. PICK effect \in ChildEffects(r), digest \in Digest, info \in Info :
         state' = commit(state, Outcome(r, effect), digest, info)
  BY DEF Commit
<1>. DEFINE e == Outcome(r, effect)
<1>3. /\ e \in Effects /\ Coin \notin e.deleted
      /\ owned # None => /\ e.written[Coin] \in Object
                         /\ e.written[Coin].version = Lamport(r)
      /\ e.written[Child] # None => e.written[Child].data.owner = Parent
  BY <1>1, OutcomeTyped DEF At
<1>. HIDE DEF e
<1>4. state' \in OverlayState /\ Coherent(state')
  BY <1>2, <1>3, CommitLemma DEF Inv, TypeOK, e
<1>5. \A id \in ObjectID : state'.objects[id] =
         IF id \in e.deleted THEN None
         ELSE IF e.written[id] # None THEN e.written[id] ELSE state.objects[id]
  BY <1>2 DEF commit, WrittenIds, e
<1>6. ChildHeld'
  BY <1>3, <1>5, ObjectsAssumption DEF Inv, ChildHeld
<1>7. /\ owned # None => state'.objects[Coin] = e.written[Coin]
      /\ state.objects[Coin] # None => state'.objects[Coin] # None
  BY <1>3, <1>5, ObjectsAssumption, MainnetAssumption
<1>8. lock = r
  BY <1>1, RunTyped DEF Holds, Resolving
<1>9. owned # None =>
         /\ owned \in Object /\ owned.id = Coin /\ owned.version \in Version
         /\ Lamport(r) > owned.version
  BY RunTyped, LamportAbove DEF InputsOK, Inputs, RunRecord, Maybe, Object
<1>10. /\ spent' \in SUBSET (ObjectID \X Version) /\ twice' \in SUBSET spent'
       /\ regressed' \in BOOLEAN /\ overridden' \in BOOLEAN
  <2>1. consumed \in SUBSET (ObjectID \X Version)
    BY <1>9, ObjectsAssumption
  <2>. QED BY <1>1, <2>1 DEF Inv, TypeOK
<1>11. \A input \in consumed : owned # None /\ input = <<Coin, owned.version>>
  BY <1>9
<1>. HIDE DEF consumed
<1>12. SpentBehind'
  <2>. SUFFICES ASSUME NEW input \in spent'
                PROVE  /\ input[1] = Coin
                       /\ ~regressed' /\ OnMainnet(input[1], input[2]) = None =>
                             /\ state'.objects[Coin] # None
                             /\ state'.objects[Coin].version > input[2]
    BY DEF SpentBehind
  <2>1. CASE input \in spent
    BY <1>1, <1>4, <1>7, <2>1, StillBehind DEF Inv, SpentBehind
  <2>2. CASE input \in consumed
    <3>1. state'.objects[Coin] \in Object /\ state'.objects[Coin].version = Lamport(r)
      BY <1>3, <1>7, <1>11, <2>2
    <3>. QED BY <1>9, <1>11, <2>2, <3>1, MainnetAssumption
  <2>. QED BY <1>1, <2>1, <2>2
<1>13. ForkVersionsSpentOnce'
  <2>. SUFFICES ASSUME ~regressed', NEW input \in twice'
                PROVE  OnMainnet(input[1], input[2]) # None
    BY DEF ForkVersionsSpentOnce
  <2>1. ~regressed
    BY <1>1
  <2>2. CASE input \in twice
    BY <2>1, <2>2 DEF Inv, ForkVersionsSpentOnce
  <2>3. CASE input \in spent \cap consumed
    BY <1>1, <1>9, <1>11, <2>1, <2>3, RunTyped DEF Unspent
  <2>. QED BY <1>1, <2>2, <2>3
<1>14. ASSUME NEW x \in Runner \ {r}
       PROVE  Unspent(run[x], spent')
  BY <1>8, RunTyped DEF Unspent, InputsOK, Holds, Resolving
<1>15. run' = [x \in Runner |-> IF x \in {r} THEN IdleRun ELSE Told(x, FALSE)]
  BY <1>1
<1>16. runs' \in Nat /\ reads' \in Nat /\ writes' \in Nat
  BY <1>1 DEF Inv, TypeOK
<1>. QED BY <1>1, <1>4, <1>6, <1>7, <1>8, <1>10, <1>12, <1>13, <1>14, <1>15, <1>16,
            OverlayWrite

\* A cheat overwrites the coin or the child.
LEMMA CheatStep ==
    ASSUME Inv, set_object_contents
    PROVE  Inv'
<1>1. PICK id \in {Coin, Child}, bump \in {0, 1}, value \in Overrides :
         LET object == Current(state, id)
         IN  /\ object # None /\ object.version + bump \in Version
             /\ state' = set_object(state, At1(object, object.version + bump, value))
             /\ overridden' = (overridden \/ id = Child)
  BY DEF set_object_contents
<1>. DEFINE object == Current(state, id)
            new == At1(object, object.version + bump, value)
<1>2. id \in ObjectID /\ state \in OverlayState /\ Coherent(state)
  BY ObjectsAssumption DEF Inv, TypeOK
<1>3. /\ object \in Object /\ object.id = id
      /\ state.objects[id] = object \/ Mainnet[id][AtFork] = object
  BY <1>1, <1>2, CurrentKeyed DEF Coherent
<1>4. /\ new \in Object /\ new.id = id /\ new.data.owner = object.data.owner
      /\ new # None
  BY <1>1, <1>3, At1Typed, OverridesAssumption, MainnetAssumption
<1>5. id = Child => new.data.owner = Parent
  <2>1. AtFork \in Query
    BY DEF AtFork, Query
  <2>. QED BY <1>1, <1>3, <1>4, <2>1, ChildAssumption DEF Inv, ChildHeld
<1>6. state' = set_object(state, new)
  BY <1>1
<1>. HIDE DEF new, object
<1>7. state' \in OverlayState /\ Coherent(state')
  BY <1>2, <1>4, <1>6, SetObjectLemma
<1>8. state'.objects = [state.objects EXCEPT ![id] = new]
  BY <1>2, <1>4, <1>6 DEF set_object, OverlayState
<1>9. \A x \in ObjectID :
         state'.objects[x] = IF x = id THEN new ELSE state.objects[x]
  BY <1>2, <1>8 DEF OverlayState
<1>10. ChildHeld'
  BY <1>5, <1>9, ObjectsAssumption DEF Inv, ChildHeld
<1>11. state.objects[Coin] # None => state'.objects[Coin] # None
  BY <1>4, <1>9, ObjectsAssumption
<1>12. /\ run' = [x \in Runner |-> Told(x, FALSE)]
       /\ regressed' = (regressed \/ Rewrites)
       /\ writes' = writes + 1
       /\ UNCHANGED <<lock, runs, reads, spent, twice>>
  BY DEF set_object_contents, Restrained
<1>13. SpentBehind'
  BY <1>7, <1>11, <1>12, StillBehind DEF Inv, SpentBehind
<1>14. ForkVersionsSpentOnce'
  BY <1>12 DEF Inv, ForkVersionsSpentOnce
<1>15. ~regressed' => \A x \in Runner \ {} : Unspent(run[x], spent')
  BY <1>12, RunTyped
<1>16. /\ runs' \in Nat /\ reads' \in Nat /\ writes' \in Nat
       /\ spent' \in SUBSET (ObjectID \X Version) /\ twice' \in SUBSET spent'
       /\ regressed' \in BOOLEAN /\ overridden' \in BOOLEAN
  BY <1>1, <1>12 DEF Inv, TypeOK
<1>17. /\ run' = [x \in Runner |-> IF x \in {} THEN IdleRun ELSE Told(x, FALSE)]
       /\ {} \in SUBSET Runner /\ FALSE \in BOOLEAN
  BY <1>12
<1>. QED BY <1>7, <1>10, <1>11, <1>12, <1>13, <1>14, <1>15, <1>16, <1>17, OverlayWrite

\* Clearing the overlay preserves the invariant.
LEMMA ClearStep ==
    ASSUME Inv, clear
    PROVE  Inv'
<1>1. /\ state' = Default /\ spent' = {} /\ twice' = {}
      /\ regressed' = FALSE /\ overridden' = FALSE
      /\ run' = [x \in Runner |-> Told(x, TRUE)]
      /\ UNCHANGED <<lock, runs, reads>> /\ writes' = writes + 1
  BY DEF clear, Restrained
<1>2. ChildHeld'
  BY <1>1, ObjectsAssumption DEF ChildHeld, Default
<1>3. SpentBehind' /\ ForkVersionsSpentOnce'
  BY <1>1 DEF SpentBehind, ForkVersionsSpentOnce
<1>4. \A x \in Runner \ {} : Unspent(run[x], spent')
  BY <1>1 DEF Unspent
<1>5. runs' \in Nat /\ reads' \in Nat /\ writes' \in Nat
  BY <1>1 DEF Inv, TypeOK
<1>6. /\ run' = [x \in Runner |-> IF x \in {} THEN IdleRun ELSE Told(x, TRUE)]
      /\ {} \in SUBSET Runner /\ TRUE \in BOOLEAN
  BY <1>1
<1>7. state' \in OverlayState /\ Coherent(state')
  BY <1>1, DefaultLemma
<1>8. /\ spent' \in SUBSET (ObjectID \X Version) /\ twice' \in SUBSET spent'
      /\ regressed' \in BOOLEAN /\ overridden' \in BOOLEAN
  BY <1>1
<1>. QED BY <1>1, <1>2, <1>3, <1>4, <1>5, <1>6, <1>7, <1>8, OverlayWrite

-----------------------------------------------------------------------------

\* Every step preserves the invariant.
LEMMA NextInv == Inv /\ [Next]_vars => Inv'
<1>. SUFFICES ASSUME Inv, [Next]_vars PROVE Inv'
  OBVIOUS
<1>1. ASSUME NEW r \in Runner, Step(r)
      PROVE  Inv'
  BY <1>1, BeginStep, AcquireStep, ResolveSharedStep, ResolveOwnedStep, CheckGasStep,
     ReadStep, CommitStep, EndStep DEF Step
<1>2. CASE set_object_contents \/ clear
  BY <1>2, CheatStep, ClearStep
<1>3. CASE UNCHANGED vars
  BY <1>3 DEF vars, history, Inv, TypeOK, ChildHeld, RunsOK, InputsOK, AnswersOK,
              AnswerKept, NeverBack, Unspent, GasOK, Ahead, Holds, SpentBehind,
              ForkVersionsSpentOnce
<1>. QED BY <1>1, <1>2, <1>3 DEF Next, Done

\* The invariant holds of every behaviour.
LEMMA SpecInv == Spec => []Inv
BY InitInv, NextInv, PTL DEF Spec

\* Every variable has its type, whatever the instance.
THEOREM TypeCorrect == Spec => []TypeOK
<1>1. Inv => TypeOK
  BY DEF Inv
<1>. QED BY <1>1, SpecInv, PTL

\* However executions, simulations, cheats and resets interleave, no two
\* committed transactions consumed the same version of an object the fork made,
\* as long as versions only grow.
THEOREM SpentOnce == Spec => []ForkVersionsSpentOnce
<1>1. Inv => ForkVersionsSpentOnce
  BY DEF Inv
<1>. QED BY <1>1, SpecInv, PTL

\* No executor starts on a coin of the fork's that is worth less than the budget.
THEOREM GasIsCovered == Spec => []GasCovered
<1>1. Inv => GasCovered
  BY DEF Inv, RunsOK, GasOK, GasCovered, At
<1>. QED BY <1>1, SpecInv, PTL

\* What an executor has seen of an object it does not see at an older version
\* later in the run.
THEOREM AnswersAdvance == Spec => []AnswersNeverGoBack
<1>1. Inv => AnswersNeverGoBack
  BY DEF Inv, RunsOK, AnswersOK, NeverBack, AnswersNeverGoBack
<1>. QED BY <1>1, SpecInv, PTL

-----------------------------------------------------------------------------
(* What a run sees when nobody writes the overlay meanwhile.  Every write   *)
(* tells the runs under way, so only reads matter; of those, the child's is *)
(* bounded by its parent's version, and finds what the fork wrote because   *)
(* an execution writes the parent whenever it writes the child.             *)

\* Before it resolves its inputs a run has read nothing.
Blank(x) ==
    x.pc \notin Resolving =>
        x.owned = None /\ x.shared = None /\ x.object_cache = {} /\ x.answers = <<>>

\* An answer is what the fork has of the object, or is one of those that may
\* come from elsewhere.
Faithful(a, x) ==
    \/ a.object = Current(state, a.id)
    \/ a.object = None /\ ~Touched(a.id)
    \/ a.how = "version"
    \/ a.how = "child" /\ (overridden \/ ~Touched(Child))
    \/ a.how = "object" /\ \E b \in Range(x.answers) : b.id = a.id /\ b.how # "object"

\* What the cache holds is the fork's, or was read by version or as a child.
FromFork(o, x) ==
    \/ o = Current(state, o.id)
    \/ \E b \in Range(x.answers) : b.id = o.id /\ b.how # "object"

SeesTheFork(x) ==
    /\ x.shared # None => x.shared = Current(state, Parent)
    /\ x.owned # None => \/ x.owned = Current(state, x.owned.id)
                         \/ x.owned = OnMainnet(x.owned.id, x.owned.version)
    /\ \A a \in Range(x.answers) : Faithful(a, x)
    /\ \A o \in x.object_cache : FromFork(o, x)

\* Only a run that took Parent reads its child.
ChildNeedsParent(x) ==
    (\E a \in Range(x.answers) : a.how = "child") => x.shared # None

\* A child written on the fork, by executions alone, is not above its parent;
\* and the parent an execution took is the one the fork has.
ChildBelow ==
    ~overridden /\ state.objects[Child] # None =>
        /\ state.objects[Parent] # None
        /\ state.objects[Parent].version >= state.objects[Child].version
        /\ \A r \in Runner : run[r].op = "execute" /\ run[r].shared # None =>
              run[r].shared = state.objects[Parent]

Quiet(x) == Blank(x) /\ ChildNeedsParent(x) /\ (~x.changed => SeesTheFork(x))

QuietInv == ChildBelow /\ \A r \in Runner : Quiet(run[r])

\* A run that has not begun has seen nothing stale.
LEMMA IdleQuiet == Quiet(IdleRun)
BY DEF Quiet, Blank, ChildNeedsParent, SeesTheFork, IdleRun, Resolving, Range

\* Nothing stale has been seen at first.
LEMMA InitQuiet == Init => QuietInv
<1>. SUFFICES ASSUME Init PROVE QuietInv
  OBVIOUS
<1>1. \A r \in Runner : run[r] = IdleRun
  BY DEF Init
<1>2. ChildBelow
  BY ObjectsAssumption DEF Init, Default, ChildBelow
<1>. QED BY <1>1, <1>2, IdleQuiet DEF QuietInv

\* The fork's version of an object it has written or deleted is its own.
LEMMA CurrentWritten ==
    ASSUME NEW id \in ObjectID, state.objects[id] # None
    PROVE  Current(state, id) = state.objects[id]
BY DEF Current, Lookup, Hit, overlay_match, AtFork

\* An object the fork deleted is not found.
LEMMA CurrentDeleted ==
    ASSUME NEW id \in ObjectID, state.objects[id] = None, id \in state.tombstones
    PROVE  Current(state, id) = None
BY DEF Current, Lookup, Hit, Suppressed, is_current_query, AtFork

\* One run takes a step that leaves the overlay alone.
LEMMA QuietStep ==
    ASSUME Inv, QuietInv, NEW r \in Runner, NEW R \in RunRecord,
           run' = [run EXCEPT ![r] = R],
           UNCHANGED <<state, history>>,
           Quiet(R),
           R.op = "execute" /\ R.shared # None =>
              \/ R.op = run[r].op /\ R.shared = run[r].shared
              \/ R.shared = Current(state, Parent)
    PROVE  QuietInv'
<1>1. UNCHANGED <<state, overridden>>
  BY DEF history
<1>2. \A x \in Runner : run'[x] = IF x = r THEN R ELSE run[x]
  BY RunTyped
<1>3. \A x \in Runner : Quiet(run'[x])
  BY <1>2 DEF QuietInv
<1>4. \A x \in Runner : Quiet(run[x])'
  BY <1>1, <1>3
     DEF Quiet, Blank, ChildNeedsParent, SeesTheFork, Faithful, FromFork, Touched
<1>5. ChildBelow'
  <2>. SUFFICES ASSUME ~overridden, state.objects[Child] # None
                PROVE  /\ state.objects[Parent] # None
                       /\ state.objects[Parent].version >= state.objects[Child].version
                       /\ \A x \in Runner : run'[x].op = "execute" /\ run'[x].shared # None =>
                             run'[x].shared = state.objects[Parent]
    BY <1>1 DEF ChildBelow
  <2>1. /\ state.objects[Parent] # None
        /\ state.objects[Parent].version >= state.objects[Child].version
        /\ \A x \in Runner : run[x].op = "execute" /\ run[x].shared # None =>
              run[x].shared = state.objects[Parent]
    BY DEF QuietInv, ChildBelow
  <2>2. Current(state, Parent) = state.objects[Parent]
    BY <2>1, CurrentWritten, ObjectsAssumption
  <2>. QED BY <1>2, <2>1, <2>2
<1>. QED BY <1>4, <1>5 DEF QuietInv

\* A run that only moves on.
LEMMA MovedOn ==
    ASSUME NEW x, NEW y, Quiet(x), x.pc \in Resolving, y.pc \in Resolving,
           y.owned = x.owned, y.shared = x.shared, y.answers = x.answers,
           y.object_cache = x.object_cache, y.changed = x.changed
    PROVE  Quiet(y)
BY DEF Quiet, Blank, ChildNeedsParent, SeesTheFork, Faithful, FromFork

\* A run that has read nothing.
LEMMA NothingRead ==
    ASSUME NEW x, x.owned = None, x.shared = None, x.object_cache = {}, x.answers = <<>>
    PROVE  Quiet(x)
BY DEF Quiet, Blank, ChildNeedsParent, SeesTheFork, Range

\* execute and simulate preserve the quiet invariant.
LEMMA BeginQuiet ==
    ASSUME Inv, QuietInv, NEW r \in Runner, execute(r) \/ simulate(r)
    PROVE  QuietInv'
<1>1. PICK tx \in Tx, op \in {"execute", "simulate"} : Begin(r, tx, op)
  BY DEF execute, simulate
<1>. DEFINE pc == IF op = "execute" THEN "lock" ELSE FirstInput(tx)
            R == [IdleRun EXCEPT !.tx = tx, !.op = op, !.pc = pc]
<1>2. pc \in {"lock", "shared", "owned"}
  BY DEF FirstInput
<1>3. run' = [run EXCEPT ![r] = R] /\ UNCHANGED <<state, history>>
  BY <1>1 DEF Begin
<1>. HIDE DEF pc
<1>4. /\ R \in RunRecord
      /\ R.owned = None /\ R.shared = None /\ R.object_cache = {} /\ R.answers = <<>>
  BY <1>2, IdleOK DEF RunRecord, Maybe, IdleRun
<1>. HIDE DEF R
<1>. QED BY <1>3, <1>4, NothingRead, QuietStep

\* Taking the sequencer preserves the quiet invariant.
LEMMA AcquireQuiet ==
    ASSUME Inv, QuietInv, NEW r \in Runner, Acquire(r)
    PROVE  QuietInv'
<1>. DEFINE pc == FirstInput(run[r].tx)
            R == [run[r] EXCEPT !.pc = pc]
<1>1. pc \in {"shared", "owned"}
  BY DEF FirstInput
<1>2. /\ run[r].pc = "lock" /\ run' = [run EXCEPT ![r] = R]
      /\ UNCHANGED <<state, history>>
  BY RunTyped DEF Acquire, At
<1>3. /\ run[r].owned = None /\ run[r].shared = None
      /\ run[r].object_cache = {} /\ run[r].answers = <<>>
  BY <1>2 DEF QuietInv, Quiet, Blank, Resolving
<1>. HIDE DEF pc
<1>4. /\ R \in RunRecord
      /\ R.owned = None /\ R.shared = None /\ R.object_cache = {} /\ R.answers = <<>>
  BY <1>1, <1>3, RunTyped DEF RunRecord
<1>. HIDE DEF R
<1>. QED BY <1>2, <1>4, NothingRead, QuietStep

\* Resolving the shared input preserves the quiet invariant.
LEMMA ResolveSharedQuiet ==
    ASSUME Inv, QuietInv, NEW r \in Runner, ResolveShared(r)
    PROVE  QuietInv'
<1>. DEFINE object == Current(state, Parent)
            pc == NextInput(run[r].tx)
            R == [run[r] EXCEPT !.shared = object, !.pc = pc]
<1>1. pc \in {"owned", "run"}
  BY DEF NextInput
<1>2. /\ run[r].pc = "shared" /\ run' = [run EXCEPT ![r] = R] /\ object # None
      /\ UNCHANGED <<state, history>>
  BY RunTyped DEF ResolveShared, ReadOnly, At
<1>3. object \in Object
  BY <1>2, RunTyped, CurrentKeyed, ObjectsAssumption
<1>. HIDE DEF pc, object
<1>4. /\ R \in RunRecord /\ R.pc = pc /\ R.shared = object
      /\ R.op = run[r].op /\ R.owned = run[r].owned /\ R.changed = run[r].changed
      /\ R.answers = run[r].answers /\ R.object_cache = run[r].object_cache
  BY <1>1, <1>3, RunTyped DEF RunRecord, Maybe
<1>. HIDE DEF R
<1>5. Quiet(run[r]) /\ run[r].pc \in Resolving /\ R.pc \in Resolving
  BY <1>1, <1>2, <1>4 DEF QuietInv, Resolving
<1>6. Quiet(R)
  BY <1>2, <1>4, <1>5
     DEF Quiet, Blank, ChildNeedsParent, SeesTheFork, Faithful, FromFork, object
<1>. QED BY <1>2, <1>4, <1>6, QuietStep DEF object

\* Resolving the owned input preserves the quiet invariant.
LEMMA ResolveOwnedQuiet ==
    ASSUME Inv, QuietInv, NEW r \in Runner, ResolveOwned(r)
    PROVE  QuietInv'
<1>. DEFINE pin == run[r].tx.owned
            object == Lookup(state, AtVersion(pin.id, pin.version))
            R == [run[r] EXCEPT !.owned = object, !.pc = "gas"]
<1>1. /\ run[r].pc = "owned" /\ run[r].tx \in Tx /\ pin # None
      /\ object # None /\ run' = [run EXCEPT ![r] = R]
      /\ UNCHANGED <<state, history>>
  BY RunTyped DEF ResolveOwned, At, InputsOK, ReadOnly
<1>2. pin.id \in ObjectID /\ pin.version \in Version
  <2>1. pin \in Pins
    BY <1>1 DEF Tx, Maybe
  <2>. HIDE DEF pin
  <2>. QED BY <2>1, PinsAssumption, ObjectsAssumption
<1>. HIDE DEF pin
<1>3. /\ object \in Object /\ object.id = pin.id /\ object.version = pin.version
      /\ \/ state.objects[pin.id] = object
         \/ Mainnet[pin.id][AtVersion(pin.id, pin.version).version_query] = object
  BY <1>1, <1>2, RunTyped, PinnedLookup
<1>4. \/ object = Current(state, object.id)
      \/ object = OnMainnet(object.id, object.version)
  <2>1. Mainnet[pin.id][AtVersion(pin.id, pin.version).version_query]
           = OnMainnet(pin.id, pin.version)
    BY DEF AtVersion, OnMainnet
  <2>. QED BY <1>1, <1>2, <1>3, <2>1, CurrentWritten
<1>. HIDE DEF object
<1>5. /\ R \in RunRecord /\ R.pc = "gas" /\ R.owned = object
      /\ R.op = run[r].op /\ R.shared = run[r].shared /\ R.changed = run[r].changed
      /\ R.answers = run[r].answers /\ R.object_cache = run[r].object_cache
  BY <1>3, RunTyped DEF RunRecord, Maybe
<1>. HIDE DEF R
<1>6. Quiet(run[r]) /\ run[r].pc \in Resolving /\ R.pc \in Resolving
  BY <1>1, <1>5 DEF QuietInv, Resolving
<1>7. Quiet(R)
  BY <1>4, <1>5, <1>6
     DEF Quiet, Blank, ChildNeedsParent, SeesTheFork, Faithful, FromFork
<1>. QED BY <1>1, <1>5, <1>7, QuietStep

\* The check of the gas payment preserves the quiet invariant.
LEMMA CheckGasQuiet ==
    ASSUME Inv, QuietInv, NEW r \in Runner, check_gas_payment(r)
    PROVE  QuietInv'
<1>. DEFINE R == [run[r] EXCEPT !.pc = "run"]
<1>1. /\ run[r].pc = "gas" /\ run' = [run EXCEPT ![r] = R]
      /\ UNCHANGED <<state, history>>
  BY RunTyped DEF check_gas_payment, At, ReadOnly
<1>2. /\ R \in RunRecord /\ R.pc = "run"
      /\ R.op = run[r].op /\ R.owned = run[r].owned /\ R.shared = run[r].shared
      /\ R.changed = run[r].changed
      /\ R.answers = run[r].answers /\ R.object_cache = run[r].object_cache
  BY RunTyped DEF RunRecord
<1>. HIDE DEF R
<1>3. Quiet(run[r]) /\ run[r].pc \in Resolving /\ R.pc \in Resolving
  BY <1>1, <1>2 DEF QuietInv, Resolving
<1>4. Quiet(R)
  BY <1>2, <1>3, MovedOn
<1>. QED BY <1>1, <1>2, <1>4, QuietStep

\* The end of a run preserves the quiet invariant.
LEMMA EndQuiet ==
    ASSUME Inv, QuietInv, NEW r \in Runner, Fail(r) \/ Report(r)
    PROVE  QuietInv'
<1>1. run' = [run EXCEPT ![r] = IdleRun] /\ UNCHANGED <<state, history>>
  BY DEF Fail, Report, End
<1>. QED BY <1>1, IdleOK, IdleQuiet, QuietStep

\* An answer that is faithful where the run was quiet, cached or not.
LEMMA AnswerQuiet ==
    ASSUME Inv, QuietInv, NEW r \in Runner, Asks(r),
           NEW how \in {"object", "version", "child"}, NEW id \in ObjectID,
           NEW object \in Maybe(Object), Answered(r, how, id, object),
           object # None => object.id = id,
           how = "child" => run[r].shared # None,
           ~run[r].changed =>
              \/ object = Current(state, id)
              \/ object = None /\ ~Touched(id)
              \/ how = "version"
              \/ how = "child" /\ (overridden \/ ~Touched(Child))
              \/ how = "object" /\ \E b \in Range(run[r].answers) :
                    b.id = id /\ b.how # "object"
    PROVE  QuietInv'
<1>. DEFINE a == [how |-> how, id |-> id, object |-> object]
            R == [run[r] EXCEPT
                    !.object_cache = cache_insert(run[r].object_cache, object),
                    !.answers = Append(run[r].answers, a)]
<1>1. a \in AnswerRecord /\ a.how = how /\ a.id = id /\ a.object = object
  BY DEF AnswerRecord
<1>2. /\ run' = [run EXCEPT ![r] = R] /\ run[r].pc = "run"
      /\ UNCHANGED <<state, history>>
  BY RunTyped DEF Answered, Asks, At
<1>. HIDE DEF a
<1>3. /\ cache_insert(run[r].object_cache, object) \in SUBSET Object
      /\ Append(run[r].answers, a) \in Seq(AnswerRecord)
      /\ run[r].answers \in Seq(AnswerRecord)
  BY <1>1, RunTyped DEF cache_insert, RunRecord, Maybe
<1>4. /\ R \in RunRecord /\ R.pc = "run"
      /\ R.op = run[r].op /\ R.owned = run[r].owned /\ R.shared = run[r].shared
      /\ R.changed = run[r].changed
      /\ R.answers = Append(run[r].answers, a)
      /\ R.object_cache = cache_insert(run[r].object_cache, object)
  BY <1>2, <1>3, RunTyped DEF RunRecord
<1>. HIDE DEF R
<1>5. Range(R.answers) = Range(run[r].answers) \cup {a}
  <2>. DEFINE n == Len(run[r].answers)
  <2>1. /\ DOMAIN run[r].answers = 1 .. n /\ n \in Nat
        /\ DOMAIN R.answers = 1 .. n + 1 /\ R.answers[n + 1] = a
        /\ \A i \in 1 .. n : R.answers[i] = run[r].answers[i]
    BY <1>3, <1>4
  <2>. HIDE DEF n
  <2>2. \A i \in 1 .. n + 1 : i = n + 1 \/ i \in 1 .. n
    BY <2>1
  <2>3. 1 .. n \subseteq 1 .. n + 1 /\ n + 1 \in 1 .. n + 1
    BY <2>1
  <2>4. \A b \in Range(R.answers) : b \in Range(run[r].answers) \/ b = a
    BY <2>1, <2>2 DEF Range
  <2>5. a \in Range(R.answers) /\ Range(run[r].answers) \subseteq Range(R.answers)
    BY <2>1, <2>3 DEF Range
  <2>. QED BY <2>4, <2>5
<1>6. \A o \in R.object_cache : o \in run[r].object_cache \/ (o = object /\ o # None)
  BY <1>4 DEF cache_insert
<1>7. Quiet(run[r])
  BY DEF QuietInv
<1>8. Blank(R) /\ ChildNeedsParent(R)
  BY <1>1, <1>4, <1>5, <1>7 DEF Blank, Resolving, ChildNeedsParent, Quiet
<1>9. ASSUME ~R.changed PROVE SeesTheFork(R)
  <2>1. SeesTheFork(run[r])
    BY <1>4, <1>7, <1>9 DEF Quiet
  <2>2. Faithful(a, R)
    BY <1>1, <1>4, <1>5, <1>9 DEF Faithful
  <2>3. \A b \in Range(R.answers) : Faithful(b, R)
    BY <1>5, <2>1, <2>2 DEF SeesTheFork, Faithful
  <2>4. object # None => FromFork(object, R)
    <3>1. CASE how = "object"
      BY <1>1, <1>4, <1>5, <1>9, <3>1 DEF FromFork
    <3>2. CASE how # "object"
      BY <1>1, <1>5, <3>2 DEF FromFork
    <3>. QED BY <3>1, <3>2
  <2>5. \A o \in R.object_cache : FromFork(o, R)
    BY <1>5, <1>6, <2>1, <2>4 DEF SeesTheFork, FromFork
  <2>. QED BY <1>4, <2>1, <2>3, <2>5 DEF SeesTheFork
<1>10. Quiet(R)
  BY <1>8, <1>9 DEF Quiet
<1>. QED BY <1>2, <1>4, <1>10, QuietStep

\* A quiet run's read of the child finds what executions made of it.
LEMMA ChildFound ==
    ASSUME Inv, QuietInv, NEW r \in Runner, run[r].shared # None,
           ~run[r].changed, ~overridden, Touched(Child)
    PROVE  Lookup(state, WithRoot(Child, run[r].shared.version)) = Current(state, Child)
<1>. DEFINE key == WithRoot(Child, run[r].shared.version)
<1>1. /\ key.object_id = Child /\ key.version_query.kind = "RootVersion"
      /\ key.version_query.n = run[r].shared.version
  BY DEF WithRoot
<1>. HIDE DEF key
<1>2. CASE state.objects[Child] # None
  <2>1. /\ state.objects[Parent] # None
        /\ state.objects[Parent].version >= state.objects[Child].version
    BY <1>2 DEF QuietInv, ChildBelow
  <2>2. run[r].shared = state.objects[Parent]
    BY <2>1, CurrentWritten, ObjectsAssumption DEF QuietInv, Quiet, SeesTheFork
  <2>3. state.objects[Parent].version \in Nat /\ state.objects[Child].version \in Nat
    BY <1>2, <2>1, RunTyped, ObjectsAssumption, VersionAssumption
       DEF OverlayState, Maybe, Object
  <2>4. Hit(state, key)
    BY <1>1, <1>2, <2>1, <2>2, <2>3 DEF Hit, overlay_match
  <2>. QED BY <1>1, <1>2, <2>4, CurrentWritten, ObjectsAssumption DEF Lookup, key
<1>3. CASE state.objects[Child] = None
  <2>1. Child \in state.tombstones
    BY <1>3, ObjectsAssumption DEF Touched, overlay_touched_ids
  <2>2. ~Hit(state, key) /\ Suppressed(state, key)
    BY <1>1, <1>3, <2>1 DEF Hit, Suppressed, is_current_query
  <2>. QED BY <1>3, <2>1, <2>2, CurrentDeleted, ObjectsAssumption DEF Lookup, key
<1>. QED BY <1>2, <1>3

\* A read of the VM preserves the quiet invariant.
LEMMA ReadQuiet ==
    ASSUME Inv, QuietInv, NEW r \in Runner, Read(r)
    PROVE  QuietInv'
<1>0. /\ \A o \in run[r].object_cache : o \in Object /\ o # None
      /\ {Coin, Parent, Child} \subseteq ObjectID
  BY RunTyped, MainnetAssumption, ObjectsAssumption DEF RunRecord
<1>1. ASSUME NEW id \in ObjectID, get_object(r, id)
      PROVE  QuietInv'
  <2>. DEFINE key == [object_id |-> id, version_query |-> AtFork]
  <2>1. CASE Cached(r, id) = {}
    <3>1. PICK object \in Fetched(key) : Asks(r) /\ Answered(r, "object", id, object)
      BY <1>1, <2>1 DEF get_object
    <3>2. \/ object = Current(state, id)
          \/ object = None /\ ~Hit(state, key) /\ ~Suppressed(state, key)
      BY <3>1 DEF Fetched, Current
    <3>3. ~Hit(state, key) /\ ~Suppressed(state, key) => ~Touched(id)
      BY DEF Hit, Suppressed, overlay_match, is_current_query, AtFork, Touched,
             overlay_touched_ids
    <3>4. object # None => object \in Object /\ object.id = id
      BY <3>2, RunTyped, CurrentKeyed
    <3>. HIDE DEF key
    <3>. QED BY <3>1, <3>2, <3>3, <3>4, AnswerQuiet DEF Maybe
  <2>2. CASE Cached(r, id) # {}
    <3>1. PICK object \in Cached(r, id) : Asks(r) /\ Answered(r, "object", id, object)
      BY <1>1, <2>2 DEF get_object
    <3>2. object \in run[r].object_cache /\ object \in Object /\ object.id = id
      BY <1>0, <3>1 DEF Cached
    <3>3. ~run[r].changed => FromFork(object, run[r])
      BY <3>2 DEF QuietInv, Quiet, SeesTheFork
    <3>. QED BY <3>1, <3>2, <3>3, AnswerQuiet DEF Maybe, FromFork
  <2>. QED BY <2>1, <2>2
<1>2. ASSUME NEW pin \in Pins, get_object_at_version(r, pin.id, pin.version)
      PROVE  QuietInv'
  <2>. DEFINE key == AtVersion(pin.id, pin.version)
              cached == {o \in Cached(r, pin.id) : o.version = pin.version}
  <2>1. pin.id \in ObjectID /\ pin.version \in Version
    BY PinsAssumption, ObjectsAssumption
  <2>2. PICK object : /\ object \in IF cached = {} THEN Fetched(key) ELSE cached
                      /\ Asks(r) /\ Answered(r, "version", pin.id, object)
    BY <1>2 DEF get_object_at_version
  <2>3. object # None => object \in Object /\ object.id = pin.id
    <3>1. CASE object \in cached
      BY <1>0, <3>1 DEF Cached
    <3>2. CASE object \in Fetched(key)
      <4>1. object = None \/ object = Lookup(state, key)
        BY <3>2 DEF Fetched
      <4>. QED BY <2>1, <4>1, RunTyped, PinnedLookup
    <3>. QED BY <2>2, <3>1, <3>2
  <2>. QED BY <2>1, <2>2, <2>3, AnswerQuiet DEF Maybe
<1>3. CASE read_child_object(r)
  <2>. DEFINE q == [kind |-> "RootVersion", n |-> run[r].shared.version]
              object == Lookup(state, WithRoot(Child, run[r].shared.version))
  <2>1. /\ Asks(r) /\ run[r].shared # None
        /\ Answered(r, "child", Child, object)
    BY <1>3 DEF read_child_object
  <2>2. q \in Query
    <3>1. run[r].shared.version \in Version
      BY <2>1, RunTyped DEF RunRecord, Maybe, Object
    <3>. QED BY <3>1 DEF Query
  <2>3. object = Lookup(state, [object_id |-> Child, version_query |-> q])
    BY DEF WithRoot
  <2>4. ~run[r].changed =>
           object = Current(state, Child) \/ overridden \/ ~Touched(Child)
    BY <2>1, ChildFound
  <2>. HIDE DEF object, q
  <2>5. object # None => object \in Object /\ object.id = Child
    BY <1>0, <2>2, <2>3, RunTyped, LookupTyped
  <2>. QED BY <1>0, <2>1, <2>4, <2>5, AnswerQuiet DEF Maybe
<1>. QED BY <1>0, <1>1, <1>2, <1>3 DEF Read

\* After a write of the overlay no run under way is quiet.
LEMMA WriteQuiet ==
    ASSUME Inv, QuietInv, NEW b \in BOOLEAN, NEW D \in SUBSET Runner,
           run' = [x \in Runner |-> IF x \in D THEN IdleRun ELSE Told(x, b)],
           ChildBelow'
    PROVE  QuietInv'
<1>1. ASSUME NEW x \in Runner PROVE Quiet(run[x])'
  <2>1. CASE x \in D
    <3>1. run'[x] = IdleRun
      BY <2>1
    <3>. QED BY <3>1 DEF Quiet, Blank, ChildNeedsParent, SeesTheFork, IdleRun, Resolving, Range
  <2>2. CASE x \notin D /\ run[x].pc \in {"idle", "lock"}
    <3>1. run'[x] = run[x]
      BY <2>2 DEF Told, At
    <3>2. /\ run[x].owned = None /\ run[x].shared = None
          /\ run[x].object_cache = {} /\ run[x].answers = <<>>
      BY <2>2 DEF QuietInv, Quiet, Blank, Resolving
    <3>. QED BY <3>1, <3>2 DEF Quiet, Blank, ChildNeedsParent, SeesTheFork, Range
  <2>3. CASE x \notin D /\ run[x].pc \notin {"idle", "lock"}
    <3>. DEFINE rebound == run[x].rebound \/ Rewrites \/ b
                R == [run[x] EXCEPT !.changed = TRUE, !.rebound = rebound]
    <3>1. run'[x] = R
      BY <2>3 DEF Told, At
    <3>. HIDE DEF rebound
    <3>2. /\ R.pc = run[x].pc /\ R.changed = TRUE
          /\ R.shared = run[x].shared /\ R.answers = run[x].answers
      BY RunTyped DEF RunRecord
    <3>. HIDE DEF R
    <3>3. R.pc \in Resolving
      BY <2>3, <3>2, RunTyped DEF RunRecord, Resolving
    <3>. QED BY <3>1, <3>2, <3>3 DEF QuietInv, Quiet, Blank, ChildNeedsParent
  <2>. QED BY <2>1, <2>2, <2>3
<1>. QED BY <1>1 DEF QuietInv

\* A write of another object, or one that a cheat made, leaves the child's
\* version where it was or is recorded.
LEMMA SameField ==
    ASSUME Inv, QuietInv, NEW b \in BOOLEAN,
           run' = [x \in Runner |-> Told(x, b)],
           \/ overridden'
           \/ state'.objects[Child] = None
           \/ /\ overridden' = overridden
              /\ state'.objects[Child] = state.objects[Child]
              /\ state'.objects[Parent] = state.objects[Parent]
    PROVE  QuietInv'
<1>1. \A x \in Runner : run'[x].op = run[x].op /\ run'[x].shared = run[x].shared
  <2>. TAKE x \in Runner
  <2>1. Told(x, b).op = run[x].op /\ Told(x, b).shared = run[x].shared
    BY ToldTyped
  <2>. QED BY <2>1
<1>2. ChildBelow'
  BY <1>1 DEF QuietInv, ChildBelow
<1>3. /\ run' = [x \in Runner |-> IF x \in {} THEN IdleRun ELSE Told(x, b)]
      /\ {} \in SUBSET Runner
  OBVIOUS
<1>. QED BY <1>2, <1>3, WriteQuiet

\* A cheat preserves the quiet invariant.
LEMMA CheatQuiet ==
    ASSUME Inv, QuietInv, set_object_contents
    PROVE  QuietInv'
<1>1. PICK id \in {Coin, Child}, bump \in {0, 1}, value \in Overrides :
         LET object == Current(state, id)
         IN  /\ object # None
             /\ state' = set_object(state, At1(object, object.version + bump, value))
             /\ overridden' = (overridden \/ id = Child)
             /\ object.version + bump \in Version
  BY DEF set_object_contents
<1>. DEFINE object == Current(state, id)
            new == At1(object, object.version + bump, value)
<1>2. run' = [x \in Runner |-> Told(x, FALSE)] /\ FALSE \in BOOLEAN
  BY DEF set_object_contents
<1>3. CASE id = Child
  BY <1>1, <1>2, <1>3, SameField
<1>4. CASE id = Coin
  <2>0. state \in OverlayState /\ KeyedById(state) /\ id \in ObjectID
    BY ObjectsAssumption DEF Inv, TypeOK, Coherent
  <2>1. object \in Object /\ object.id = Coin
    BY <1>1, <1>4, <2>0, CurrentKeyed
  <2>2. new.id = Coin /\ state' = set_object(state, new)
    BY <1>1, <2>1, At1Typed, OverridesAssumption
  <2>. HIDE DEF new
  <2>3. /\ state'.objects[Child] = state.objects[Child]
        /\ state'.objects[Parent] = state.objects[Parent]
    BY <2>0, <2>2, ObjectsAssumption DEF set_object, OverlayState
  <2>4. overridden' = overridden
    BY <1>1, <1>4, ObjectsAssumption DEF Inv, TypeOK
  <2>. QED BY <1>2, <2>3, <2>4, SameField
<1>. QED BY <1>3, <1>4

\* Clearing the overlay preserves the quiet invariant.
LEMMA ClearQuiet ==
    ASSUME Inv, QuietInv, clear
    PROVE  QuietInv'
<1>1. /\ state'.objects[Child] = None
      /\ run' = [x \in Runner |-> Told(x, TRUE)] /\ TRUE \in BOOLEAN
  BY ObjectsAssumption DEF clear, Default
<1>. QED BY <1>1, SameField

\* Whenever an execution writes the child it writes the parent it took, at the
\* same version.
LEMMA OutcomeOnField ==
    ASSUME Inv, QuietInv, NEW r \in Runner, At(r, "run"), Lamport(r) \in Version,
           NEW effect \in ChildEffects(r),
           NEW e, e = Outcome(r, effect)
    PROVE  /\ Parent \notin e.deleted
           /\ e.written[Child] # None =>
                 run[r].shared # None /\ e.written[Child].version = Lamport(r)
           /\ run[r].shared = None => e.written[Parent] = None
           /\ run[r].shared # None =>
                 e.written[Parent] # None /\ e.written[Parent].version = Lamport(r)
<1>. DEFINE v == Lamport(r)
            owned == run[r].owned
            shared == run[r].shared
            parent == At1(shared, v, shared.data.value)
            coin == At1(owned, v, owned.data.value - 1)
<1>1. \A o \in Object : o.data.value \in 0 .. MaxValue
  BY DataAssumption DEF Object
<1>2. owned # None => owned.id = Coin
  BY RunTyped DEF InputsOK
<1>3. shared # None => parent \in Object /\ parent.version = v
  <2>1. shared # None => shared \in Object
    BY RunTyped DEF RunRecord, Maybe
  <2>. QED BY <1>1, <2>1, At1Typed
<1>4. \A o \in ChildRead(r) : o \in Object /\ o.id = Child /\ shared # None
  <2>1. \A a \in Range(run[r].answers) :
           a \in AnswerRecord /\ AnswerKept(run[r], a)
    <3>1. run[r].answers \in Seq(AnswerRecord)
      BY RunTyped DEF RunRecord
    <3>. QED BY <3>1, RunTyped DEF AnswersOK, Range
  <2>2. ChildNeedsParent(run[r])
    BY DEF QuietInv, Quiet
  <2>. QED BY <2>1, <2>2
           DEF ChildRead, AnswerKept, AnswerRecord, Maybe, ChildNeedsParent
<1>5. effect.deleted \subseteq {Child}
      /\ (effect.written # None => shared # None /\ effect.written.version = v)
  <2>1. CASE effect = [written |-> None, deleted |-> {}]
    BY <2>1
  <2>2. ASSUME NEW o \in ChildRead(r), o.data.value < MaxValue,
               effect = [written |-> At1(o, v, o.data.value + 1), deleted |-> {}]
        PROVE  effect.deleted \subseteq {Child} /\ shared # None
               /\ effect.written.version = v
    <3>1. o.data.value + 1 \in 0 .. MaxValue
      BY <1>1, <1>4, <2>2, DataAssumption
    <3>. QED BY <1>4, <2>2, <3>1, At1Typed
  <2>3. ASSUME NEW o \in ChildRead(r),
               effect = [written |-> None, deleted |-> {o.id}]
        PROVE  effect.deleted \subseteq {Child} /\ effect.written = None
    BY <1>4, <2>3
  <2>4. ASSUME [how |-> "child", id |-> Child, object |-> None] \in Range(run[r].answers),
               effect = [written |-> [id |-> Child, version |-> v,
                                      data |-> [owner |-> Parent, value |-> 0]],
                         deleted |-> {}]
        PROVE  effect.deleted \subseteq {Child} /\ shared # None
               /\ effect.written.version = v
    BY <2>4 DEF QuietInv, Quiet, ChildNeedsParent
  <2>5. \/ effect = [written |-> None, deleted |-> {}]
        \/ \E o \in ChildRead(r) : o.data.value < MaxValue
              /\ effect = [written |-> At1(o, v, o.data.value + 1), deleted |-> {}]
        \/ \E o \in ChildRead(r) : effect = [written |-> None, deleted |-> {o.id}]
        \/ /\ [how |-> "child", id |-> Child, object |-> None] \in Range(run[r].answers)
           /\ effect = [written |-> [id |-> Child, version |-> v,
                                     data |-> [owner |-> Parent, value |-> 0]],
                        deleted |-> {}]
    BY Zenon DEF ChildEffects
  <2>. HIDE DEF v, shared
  <2>. QED BY <2>1, <2>2, <2>3, <2>4, <2>5
<1>. HIDE DEF coin, parent, v, owned, shared
<1>6. /\ e.deleted = effect.deleted
      /\ e.written = [id \in ObjectID |->
            IF owned # None /\ id = owned.id THEN coin
            ELSE IF shared # None /\ id = Parent THEN parent
            ELSE IF id = Child THEN effect.written ELSE None]
  BY DEF Outcome, coin, parent, v, owned, shared
<1>7. e.written[Child] = effect.written
      /\ e.written[Parent] = IF shared # None THEN parent ELSE None
  BY <1>2, <1>6, ObjectsAssumption
<1>8. shared # None => e.written[Parent] # None /\ e.written[Parent].version = v
  BY <1>3, <1>7, MainnetAssumption
<1>. QED BY <1>5, <1>6, <1>7, <1>8, ObjectsAssumption DEF v, shared

\* A commit preserves the quiet invariant.
LEMMA CommitQuiet ==
    ASSUME Inv, QuietInv, NEW r \in Runner, Commit(r)
    PROVE  QuietInv'
<1>1. /\ run[r].pc = "run" /\ run[r].op = "execute" /\ At(r, "run")
      /\ Lamport(r) \in Version
      /\ run' = [x \in Runner |-> IF x = r THEN IdleRun ELSE Told(x, FALSE)]
      /\ overridden' = overridden
  BY DEF Commit, At
<1>2. PICK effect \in ChildEffects(r), digest \in Digest, info \in Info :
         state' = commit(state, Outcome(r, effect), digest, info)
  BY DEF Commit
<1>. DEFINE e == Outcome(r, effect)
            shared == run[r].shared
<1>3. /\ Parent \notin e.deleted
      /\ e.written[Child] # None => shared # None /\ e.written[Child].version = Lamport(r)
      /\ shared = None => e.written[Parent] = None
      /\ shared # None => e.written[Parent] # None /\ e.written[Parent].version = Lamport(r)
  BY <1>1, OutcomeOnField
<1>4. \A id \in ObjectID : state'.objects[id] =
         IF id \in e.deleted THEN None
         ELSE IF e.written[id] # None THEN e.written[id] ELSE state.objects[id]
  BY <1>2 DEF commit, WrittenIds
<1>. HIDE DEF e
<1>5. lock = r
  BY <1>1, RunTyped DEF Holds, Resolving
<1>6. ASSUME NEW x \in Runner
      PROVE  run'[x].op = "execute" => run'[x].shared = None
  <2>1. CASE x = r
    BY <1>1, <2>1, IdleOK
  <2>2. CASE x # r
    <3>1. run'[x] = Told(x, FALSE)
      BY <1>1, <2>2
    <3>2. Told(x, FALSE).op = run[x].op /\ Told(x, FALSE).shared = run[x].shared
      BY ToldTyped
    <3>3. run[x].op = "execute" => run[x].pc \notin Resolving
      BY <1>5, <2>2, RunTyped DEF Holds
    <3>. QED BY <3>1, <3>2, <3>3 DEF QuietInv, Quiet, Blank
  <2>. QED BY <2>1, <2>2
<1>7. shared # None => Lamport(r) \in Nat /\ Lamport(r) > shared.version
                       /\ shared.version \in Nat
  <2>1. shared # None => shared \in Inputs(r) /\ shared.version \in Nat
    BY RunTyped, VersionAssumption DEF Inputs, RunRecord, Maybe, Object
  <2>. HIDE DEF shared
  <2>. QED BY <2>1, RunTyped, LamportAbove
<1>8. ASSUME ~overridden, state'.objects[Child] # None
      PROVE  /\ state'.objects[Parent] # None
             /\ state'.objects[Parent].version >= state'.objects[Child].version
  <2>1. CASE shared = None
    <3>1. /\ state'.objects[Child] = state.objects[Child]
          /\ state'.objects[Parent] = state.objects[Parent]
      BY <1>3, <1>4, <1>8, <2>1, ObjectsAssumption
    <3>. QED BY <1>8, <3>1 DEF QuietInv, ChildBelow
  <2>2. CASE shared # None
    <3>1. state'.objects[Parent] = e.written[Parent]
      BY <1>3, <1>4, <2>2, ObjectsAssumption
    <3>2. CASE e.written[Child] # None
      BY <1>3, <1>4, <1>7, <1>8, <2>2, <3>1, <3>2, ObjectsAssumption
    <3>3. CASE e.written[Child] = None
      <4>1. state'.objects[Child] = state.objects[Child] /\ state.objects[Child] # None
        BY <1>4, <1>8, <3>3, ObjectsAssumption
      <4>2. shared = state.objects[Parent]
            /\ state.objects[Parent].version >= state.objects[Child].version
        BY <1>1, <1>8, <2>2, <4>1 DEF QuietInv, ChildBelow
      <4>3. state.objects[Child].version \in Nat
        BY <4>1, RunTyped, ObjectsAssumption, VersionAssumption
           DEF OverlayState, Maybe, Object
      <4>. QED BY <1>3, <1>7, <2>2, <3>1, <4>1, <4>2, <4>3
    <3>. QED BY <3>2, <3>3
  <2>. QED BY <2>1, <2>2
<1>9. ChildBelow'
  BY <1>1, <1>6, <1>8 DEF ChildBelow
<1>10. /\ run' = [x \in Runner |-> IF x \in {r} THEN IdleRun ELSE Told(x, FALSE)]
       /\ {r} \in SUBSET Runner /\ FALSE \in BOOLEAN
  BY <1>1
<1>. QED BY <1>9, <1>10, WriteQuiet

\* Every step preserves the quiet invariant.
LEMMA NextQuiet == Inv /\ QuietInv /\ [Next]_vars => QuietInv'
<1>. SUFFICES ASSUME Inv, QuietInv, [Next]_vars PROVE QuietInv'
  OBVIOUS
<1>1. ASSUME NEW r \in Runner, Step(r)
      PROVE  QuietInv'
  BY <1>1, BeginQuiet, AcquireQuiet, ResolveSharedQuiet, ResolveOwnedQuiet,
     CheckGasQuiet, ReadQuiet, CommitQuiet, EndQuiet DEF Step
<1>2. CASE set_object_contents \/ clear
  BY <1>2, CheatQuiet, ClearQuiet
<1>3. CASE UNCHANGED vars
  BY <1>3 DEF vars, history, QuietInv, ChildBelow, Quiet, Blank, ChildNeedsParent,
              SeesTheFork, Faithful, FromFork, Touched
<1>. QED BY <1>1, <1>2, <1>3 DEF Next, Done

\* A run that nobody disturbs reads one state of the fork: its inputs, what its
\* executor asks for by id and the fields the fork's own transactions wrote are
\* what the overlay, or mainnet at the fork point, has of them.
THEOREM QuietRunsReadTheFork == Spec => []QuietRunSeesTheFork
<1>1. Inv /\ QuietInv => QuietRunSeesTheFork
  BY DEF QuietInv, Quiet, SeesTheFork, Faithful, QuietRunSeesTheFork
<1>. QED BY <1>1, SpecInv, InitQuiet, NextQuiet, PTL DEF Spec
=============================================================================
