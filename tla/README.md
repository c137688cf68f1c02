# Aquarium in TLA+

Aquarium forks a live Sui network: objects are read lazily from the network at a
pinned checkpoint, transactions run locally, and what they write goes to an
overlay that later reads see first. This directory models the parts of the
program that keep state, checks them with TLC and proves the core with TLAPS.

## Inventory

| part | source | state | operations | hard part |
|---|---|---|---|---|
| Overlay store | `store.rs` | objects, tombstones, transaction records and their order, address balances, behind one `RwLock` | `commit`, `set_object`, `clear`, `snapshot`, `restore`, `export`, `import`, `get_objects` with `with_retry` | a batch read leaves the lock before it fetches; rollback and reload must bring everything back |
| Fork sequencer | `fork.rs` | `execution_lock` | `execute`, `simulate`, `object` | one transaction at a time, panics under the lock |
| VM | `engine/vm.rs` | epoch and its start, two atomics | `run` (input resolution, gas check, executor), `advance_epoch`, `restore_epoch` | inputs, gas coin, epoch and clock are read at different moments |
| Runtime store | `engine/runtime_store.rs` | an object cache per execution | `get_object`, `get_object_by_key`, `read_child_object`, `get_object_received_at_version` | reads of several versions share one cache; a failed network read becomes an absent object; a child is read under its parent's version |
| Cheats | `cheats.rs` | clock mode | clock, epoch sync, object override, fund | read, compute, write without the execution lock |
| Fork state | `serve.rs` | snapshots, next id, clock mode, initial epoch | `take_snapshot`, `revert`, `reset`, `dump_to`, `load_from`, `prepare_clock` | every step takes another lock; a dump can be cut off; the server restarts |
| Control API | `control.rs` | none of its own | one handler per cheat | handlers run concurrently on the blocking pool |
| State queries | `serve.rs` | none | `GetBalance`, `ListBalances`, `GetCoinInfo`, `ListDynamicFields`, `ListOwnedObjects` | several reads of the overlay and one of the live network make one answer; the network's pages are capped |
| Checkpoint feed | `serve.rs` | last cursor, a channel of 16 | polling loop | counts stand for contents; slow subscribers |
| GraphQL client | `gql.rs` | none | listings, supplies, start-up look-ups | page caps, failures |
| Pass-through | `movedesc.rs`, `main.rs`, the single-read services of `serve.rs` | none | conversions, CLI | - |

Handlers and gRPC methods call the cheats, the fork and the store; all shared
state is in `ForkState`: the overlay (own lock), the VM's epoch (two atomics),
the clock mode (mutex), the snapshots (mutex) and the execution lock, which only
`execute` takes. No two of these are ever held together except that `execute`
touches the overlay under its lock. `simulate` takes no lock: its reads of the
overlay interleave with everything.

What makes each part correct: a fork is a private writable copy of the chain
(store); no update is lost (sequencer); clock, epoch and system state tell one
story, inputs are spent once and gas is covered (VM, cheats, control); what one
execution reads is the fork and does not go back (runtime store); a snapshot, a dump and a revert are about one state
and the same one (fork state); an answer counts each thing once (queries); a
subscriber ends up with what the fork has (feed).

## Modules

Overlay store
- `Overlay` - the overlay's data and every function on it, as operators; no state.
  Also the coherence predicates. All other modules build on it.
- `ForkView` - the abstract specification: the chain as one function from ids to
  what a current read answers, changed by transactions and overrides, saved and
  rolled back.
- `OverlayStore` - the store as a state machine: the state, its snapshots, dump
  files, and readers inside `get_objects`. Implements `ForkView`.
- `OverlayHistory` - the store's writes with deposits minus withdrawals remembered.
- `OverlayProofs` - lemmas about the operators of `Overlay`, which the other
  proof modules cite.
- `OverlayStoreProofs` - the theorems about `OverlayStore`.
- `MCOverlayStore`, `MCOverlayHistory` - instances.

Server
- `ForkState` - the shared state, the control flow of a request, and
  `set_clock_timestamp_ms`, which five handlers share.
- `Snapshots` - snapshot, revert, reset, dump, load, restart.
- `Sequencer` - `prepare_clock` and `Fork::execute`.
- `Control` - clock, epoch, `set_contents`, `fund`.
- `Server` - composes them: any number of clients, a wall clock; the properties.
- `ServerProofs` - no update is lost, with any number of clients.
- `ServerTypes` - types and coherence of every overlay, with any number of clients.
- `ControlProofs` - what one client is promised: the properties of `control`.
- `MCServer` - instances.

One execution
- `Execution` - what a run of the VM reads and when: the lock (or none, for a
  simulation), shared and owned inputs, the gas check, everything the executor
  asks of its `RuntimeStore` in any order, the commit; with cheats and resets
  between any two of these.
- `ExecutionProofs` - the theorems about it.
- `MCExecution` - instances. Mainnet has later versions of the coin and the child.

Read side
- `Ledger` - an overlay whose transactions move coins and balances.
- `Queries` - a query that reads the overlay again and again while it changes.
- `QueriesProofs` - the theorems about it.
- `Feed` - the subscription task, its channel and the subscriber.
- `FeedProofs` - the theorems about `Feed`.
- `MCLedger`, `MCQueries`, `MCFeed` - instances.

### How state and actions correspond

A variable carries the name of the field it models (`state`, `epoch`, `start`,
`mode`, `snapshots`, `next_snapshot`, `lock`). In the server, `call[p]` is the
thread of client `p`: a program counter and the locals the handler has read so
far. Each access to shared state is one action, so an action's effect is exactly
what the code does under one lock or in one atomic operation. A handler's first
access is also the arrival of its request. `captured` and `dumped` are history
variables: what a snapshot id or a dump stood for when it was taken.

In `Execution`, `run[r]` is one call of `Vm::run`: its inputs, the object cache of
its `RuntimeStore` and the answers the executor got. `spent`, `twice`, `regressed`,
`overridden` and the flags `changed` and `rebound` of a run are history: they name
the circumstances under which a property is promised. In `Queries` `changed` and
`rolled` do the same.

`Server` and `Execution` both model `Fork::execute`, at two grains. `Server` has
the handler around it, the clock stamp, the epoch atomics and all the cheats
step by step, and one shared input per transaction; `Execution` has the reads
inside the run, pinned inputs, gas and children, and takes each cheat as one step.

### Abstractions

- Contents are records or tuples of the fields the properties read: the timestamp
  of `0x6`, epoch and start of the inner object of `0x5`, a counter for the shared
  object, owner and value of a coin.
- Every transaction of `Server` reads the clock and increments one shared object,
  or aborts and writes nothing but gas, which is left out. The request number is
  the digest. Any read of an input may fail, and so may the executor.
- A transaction of `Execution` pins at most one owned object, its gas coin or,
  wrongly, the child; it may take the shared parent. It charges 1 of gas, and may
  change, remove or add the child. Nothing depends on its digest, so one stands for
  all, and sending a transaction again is running one with the same inputs.
- `Version` and `MaxValue` cap versions and values; where a write would leave them
  it is not taken. The instances are wide enough that this does not happen.
- `get_package_object` is left out: packages are immutable, and its reads change
  nothing the other answers depend on. A failed read of the network is the `None`
  that `.ok()?` makes of it.
- Time is in ticks. Requests point the clock and the epoch forward only
  (`Jumps`), since going back is then what the caller asked for.
- `FailingReads` lets a network read fail past its retries, for an object the
  overlay does not hold. It stands for a read that is not in the LRU cache.
- `Disconnects` lets a client go away: the server library then drops the async
  handler at its await, so the clock mode it would set next is never set.
- `bump_version: false` of `object/set_contents` reuses a version on request;
  `VersionsIncrease` excepts it.
- A dump file that is not the server's own is refused as a missing one is; the two
  are one case.
- The network is a constant function: reads at a checkpoint are immutable. `Mainnet`
  answers by checkpoint, by version and by root version, and only the last two see
  what was made after the fork point. The live listings of `Queries` (`Live`) are
  taken at the fork point, without drift.
- The ledger of the read side transfers, deposits, withdraws, mints, burns and
  wraps; what Move code does beyond that is external.
- A panic while the overlay's own lock is held does not happen: its critical
  sections only move data.

Where one update changes two fields of the same function value it is written as
one record at one index (`![r] = [run[r] EXCEPT !.a = x, !.b = y]`): tlapm's SMT
encoding mishandles two paths through the same index.

## Runs

| run | asks | instance |
|---|---|---|
| `overlay_copies` | are the overlay and all its copies coherent; does it implement `ForkView` | one object mainnet changed after the fork, three versions, commits, cheats, deletions, one snapshot slot, one file |
| `overlay_reads` | are batch reads atomic; do they end | two objects, two key batches mixing all query kinds, five attempts |
| `settled_balances` | is an address balance its deposits minus withdrawals: *violated* | two accounts, transfers between them, amounts up to 3 |
| `control` | clock, epoch, system state, versions, snapshots, dumps, reverts and loads, one request at a time | 4 requests of every handler, one tick, one restart at any point |
| `concurrent` | lost updates, torn copies, is every request answered | 2 clients, 3 requests: execute, epoch advance, dump; reads and transactions fail, clients go away |
| `revert_during_execute` | lost updates with a revert: *violated* | 2 clients, 4 requests |
| `execution` | are inputs spent once and gas covered; does a run read the fork; do its answers go back | 2 runners, 2 runs, 2 reads of the executors', one cheat or reset at any moment, a budget of 3 |
| `unpinned_child` | is a child read as of the fork checkpoint: *violated* | as above |
| `field_override` | is a child a cheat wrote the one transactions read: *violated* | as above |
| `queries` | are balances, supplies and lists exact, complete, without double counting | 2 owners, 2 coin types, 3 writes, one query at any moment, one coin per page, page sizes clamped to 1 and 3 |
| `feed` | cursors, checkpoints, catching up | channel of 1, checkpoints of 2 transactions, 4 writes |
| `feed_rollback` | catching up after a rollback: *violated* | 3 writes |

Why the bounds are enough. An id of the overlay is independent of the others
except inside a batch, so one object and a batch of three keys show what there
is; three versions give one below, at and above a bound. In the server two
threads are what a race needs, and four requests hold set-up, both racers and an
observer (snapshot, change, reset, revert). In `Execution` two runs are a
transaction and another, or the same one again; two reads are one before and one
after a write. The budget of 3 is what the coin holds at the fork, and what one
run leaves of it is too little. In `Queries` three writes hold a mint, a burn
and a withdrawal, or a snapshot, a change and its rollback, and a page cap of 1 is
exceeded by an owner of two coins. A channel of 1 and a list of 2 are full and
overflow within four writes. In `MCServer`, mainnet answers with the fork-point
objects, the clock is at 5 in epoch 7, which began at 3.

Fairness. `OverlayStore` assumes a reader that is inside `get_objects` goes on:
the call is synchronous and its retries counted. `Server` assumes weak fairness
of each thread that is inside a request: it runs on the blocking pool, nothing
cancels it, and with boundedly many requests the mutex is free from some point
on. New requests need not come, nor restarts or ticks. `Feed` assumes the task is
woken (a timer) and that a subscriber who has not hung up reads its stream.
`concurrent` and the feed runs switch deadlock checking off: clients may fall
silent, a subscriber hang up and the task end.

### What the runs found

Five runs state what a comment or a document of the repository says and TLC
refutes it; the `findings` of `PROJECT.json` quote the lines.
- A balance settled on mainnet is clipped at 0 by a withdrawal, and too high
  after the money comes back.
- `revert` does not wait for a transaction in flight, which then commits onto the
  restored overlay.
- The feed compares counts, so revert-and-run-again within one poll is missed.
- A child the overlay does not hold is fetched under its parent's version without
  a checkpoint. The fork itself raises that version, and the network then answers
  with what it made after the fork point.
- A child a cheat raised above its parent's version is not found by a child read.
  The epoch sync does this to the inner object of `0x5`.

The properties `control` checks one request at a time, with a network that
answers, fail in ways the code does not exclude when those limits are lifted. Two
clients: `ClockMonotonic` (two executes), `VersionsIncrease` (override and
execute), `TxTimeConsistent` (epoch advance and execute), `SnapshotsAreConsistent`
(snapshot and epoch advance), `SystemStateEpochAgrees` (two epoch advances). One
client and `FailingReads = TRUE`: `ClockMonotonic` (start-up anchor 0),
`LoadRestoresDump` (dump with clock 0), `TxTimeConsistent` (half an epoch
advance). One client and `Disconnects = TRUE`: `TxTimeConsistent` (an epoch
advance whose client has gone). Each shows up within two requests: take
`MCControl.cfg`, set `Client`, `Handlers`, `MaxRequests = 2` and the one
property. The hazards in `PROJECT.json` name the lines.

## Proofs

TLAPS proves the following for every value of the constants, from the assumptions
named in the modules, which TLC evaluates on the instances: the types of the
constants; `None` is no value; the network answers about the object, and with the
version, it was asked for; the objects that must exist at the fork point do;
there are finitely many object ids and addresses (`IdsAssumption`: both are 32
bytes). Every property below is checked by TLC as well, on the run that lists it,
and so were the inductive invariants, on these or similar instances (all but
`FilesAreExports` and the conjuncts of `TypeInv` on dumps, which quantify over
every overlay state).

`OverlayStoreProofs`
- `TypeCorrect` - `Spec => []TypeOK`.
- `Coherence` - `Spec => []StateCoherent`: the live state and every copy are
  coherent: an object is live or deleted and never both, it is filed under its own
  id, the order lists each recorded transaction once. Not inductive alone,
  because `Import` rebuilds a state from a file: it needs `FilesAreExports`, that
  every file is the export of a coherent state, and the lemma `RoundTrip`, that
  importing an export of a coherent state gives that state back. `RoundTrip` in
  turn needs `KeyedById`, as a file does not hold the map's keys.
- `AtomicReads` - `Spec => []BatchReadsAreAtomic`: the values a batch read
  returns are those of the state in which it held the lock. The invariant that
  carries it, `ReadsOnCourse`, says of a reader between its halves that its
  answers so far and its open slots are those of the state it saw.
- `Refinement` - `Spec => ImplementsForkView`: each step is a step of the
  abstract fork or a stutter. The step for import uses `FilesAreExports` again.
- `TouchedForever` - `Spec => TouchedStaysTouched`.

`ServerProofs`, for any number of clients inside any handlers
- `NothingIsLost` - `Spec => []NoLostUpdates`.
- `CopiesHoldWholeTransactions` - `Spec => []CopiesAreWhole`.

  Both assume `NoRollbacks`: the instance has no revert, reset or load, and
  `set_contents` is not pointed at the object the transactions count in. With a
  revert TLC refutes the first (`revert_during_execute`). `NoneIsNoRecord` says that
  `None` is told from a record. The invariant needs what each thread carries:
  whoever is between its read of the shared object and its commit holds
  `execution_lock` and has the current object (`Exclusive`), which is why the lock
  excludes lost updates at all; cheats write other objects; a transaction under
  way is not recorded yet and no two are the same (`Unrecorded`, `Distinct`), so a
  commit adds exactly one to the count; and the copies on their way into
  `snapshots` or the file count their own transactions (`ThreadOK`). The last uses
  `ObjectsRoundTrip` and `TransactionsRoundTrip`.

`ServerTypes`, for any number of clients inside any handlers, rollbacks, failed
reads, disconnects and restarts included
- `TypeCorrect` - `Spec => []TypeOK`.
- `OverlaysCoherent` - the live overlay, every snapshot and what a dump on disk
  gives back are coherent, whatever interleaves.

  Both assume `Unbounded`: versions and contents do not run out, so that the
  guards with which the model caps them never stop a thread. (The instances are
  wide enough within their few requests; `Version = Nat` and contents of all
  tuples of naturals is what the hypothesis describes.) The invariant says of every
  pc what the locals of a thread there must be (`Carries`): an overlay that
  is coherent from the read to the insertion or the file, an object with its
  version, an operation that knows what to do after the clock is set. That a
  snapshot id never runs out needs a count: `IdsSuffice` says that the next id and
  the threads that will still draw one are together no more than the requests
  that arrived.

`ControlProofs`, for one client and a network that answers
- `EpochsAgree` - `Spec => []SystemStateEpochAgrees`.
- `TransactionsRunInTheirEpoch` - `Spec => []TxTimeConsistent`.
- `SnapshotsHoldOneFork` - `Spec => []SnapshotsAreConsistent`.
- `RevertIsExact` - `Spec => RevertRestoresCapture`.
- `LoadIsExact` - `Spec => LoadRestoresDump`.
- `VersionsGrow` - `Spec => VersionsIncrease`.
- `ClockNeverRunsBack` - `Spec => ClockMonotonic`.

  They assume, besides `Unbounded`, `OneAtATime` (one client, no read fails, nobody
  disconnects, and the object `set_contents` is pointed at is neither the clock
  nor the system state) and `ForkPointAgrees` (mainnet's clock, epoch and system
  state agree at the fork point). Lifting `OneAtATime` is refuted by TLC, property
  by property (see "What the runs found"), so these are the limits within
  which the code keeps its word, proved for every length of run and not for
  four requests. One invariant carries all seven: `Place` says for every pc how
  far the fork is from being `Settled` - no transaction before its epoch, clock,
  epoch and system state telling one story, the clock not ahead of its mode - and
  which of clock, epoch and start have moved already (`Setting`, `Moving`,
  `RollingBack`). A snapshot under way is the captured fork and its id was never
  drawn before (`Copying`), each kept snapshot is the one captured under its id
  (`CopiesAreTrue`), and the file gives back what was dumped (`DumpIsTrue`), again
  by `RoundTrip`. `ClockMonotonic` holds because every clock mode is never behind
  the chain's clock (`Ahead`), which must be said at a time, as modes follow real
  time.

`ExecutionProofs`, for any number of runners, transactions and cheats
- `TypeCorrect` - `Spec => []TypeOK`.
- `SpentOnce` - `Spec => []ForkVersionsSpentOnce`: no two committed transactions
  consume the same version of an object of the fork's. `SpentBehind` carries it:
  the overlay holds the coin above every version of it that was spent, as long as
  no write lowered a version; with it `Unspent`: the input of a run under the
  lock (`Holds`) is not spent. Children are not spent at all, since an input that
  an object owns is refused.
- `GasIsCovered` - `Spec => []GasCovered`, although the coin is read twice without
  a lock. `GasOK` says that between the two reads the pinned version names the
  coin that was read or nothing, unless a write gave it to something else.
- `AnswersAdvance` - `Spec => []AnswersNeverGoBack`: for every object a
  run was given its cache has that version or a later one (`AnswersOK`), and reads
  by id are answered with the latest in the cache.
- `QuietRunsReadTheFork` - `Spec => []QuietRunSeesTheFork`. `SeesTheFork` says it of
  inputs, answers and cache at every moment of a run nobody wrote under. A
  child is read under its parent's version, so it needs `ChildBelow`: a child that
  executions alone wrote is never above its parent, and an execution under the lock
  has the fork's parent. That part is not about quiet runs: it holds because
  the other runs commit a child and its parent at one version.

`QueriesProofs`
- `CoinsCountedOnce` - `Spec => []NoCoinCountedTwice`. `CoinsAccounted` says at each
  step of `compute_balance` that the coins found in the overlay are touched, then
  that they are in the set of touched ids read, then that no coin of theirs is left
  on the network's side. Touched ids only grow between rollbacks.
- `AccountsAreListed` - `Spec => []ForkAccountsAreListed`.
- `FieldsAreRight` - `Spec => []FieldsWrongOnlyWhereTouched`. `FieldsInv` keeps how
  many fields were found and that the page had room while the network is asked;
  the rest counts: a page that is not full holds all there is.
- `BalancesAreExact` - `Spec => []QuietBalancesAreExact`, and
  `BalancesAreComplete` - `Spec => []QuietBalancesAreComplete`. `BalanceOK` says for
  every step what was read: the overlay's coins of the owner, the touched ids, the
  coins the network listed less those. That these two parts are together the
  owner's coins and share none (`TwoParts`) gives the sum (`BalanceAdds`).
  `LedgerSound` carries that no coin and no account is below zero.
- `SupplyIsCirculation` - `Spec => []QuietSupplyIsCirculation`. `SupplyRight`: every
  cap counts what circulates. Each transaction changes one object and one account
  of one type, and the cap by the difference (`Books`), so the sums over all
  coins and accounts move together. Three things could break it: an account
  saturating (`Room`, from `SupplyAssumption`: at the fork point a type has one
  cap, which counts what circulates and leaves room below `MaxBalance` for one
  more per write); a cap that comes back after it was wrapped, and counts what
  it counted then (`CapsRight`: a cap that is gone stays gone); and a rollback,
  which brings the caps and the coins of the same moment back (`SupplyInv`).

  The sums are folds over finite sets, and a theorem about them is an induction
  that no theorem of the library with an operator parameter may be used for. The
  section "Sums" does it in first-order steps: a nonempty set of counterexamples
  among the subsets of a finite set has a minimal one (`MinimalSubset`, from the
  well-foundedness of strict inclusion), and the choice `SumFunctionOnSet` makes is
  shown to be any table of partial sums (`SumsExist`, `SumsUnique`, `SumIs`). From
  there: a sum may be taken apart at any element (`SumTake`), into disjoint parts
  (`SumParts`), and along a bijection (`SumImage`).

`FeedProofs`
- `CheckpointsReachTheirCursor` - `Spec => []CheckpointNotBehindCursor`. The count
  only grows between rollbacks, so it has reached the cursor by the time the
  list and the total are read (`MessageOnCourse`).
- `CursorsGrow` - `Spec => CursorGrows`. `Ascending` orders the cursors on their way:
  the one received, those in the channel, the one being built.

Only model-checked: liveness (`ReadsTerminate`, `RequestsAnswered`,
`FeedCatchesUp`), which is out of the prover's reach. Every safety and action
property of a passing run is a theorem, within the hypotheses named above; the
five properties of the violation runs are false and stay with TLC.

## Not modelled

- The Move VM and the executor: external. What they may ask and write is an input.
- `movedesc.rs`: a pure conversion. `main.rs`, `lib.rs`: arguments and set-up.
- The services that read the overlay once and format the answer (objects,
  transactions, packages, epoch, service info), `status`, and `trace`, which is a
  simulation with a report: they change nothing.
- GraphQL transport, and the look-ups of the checkpoint and the chain at start-up,
  which are input to the program.
- `get_package_object`, see above. Requests refused while they are parsed.

## Plan

1. A query with two rollbacks and a live network that drifts away from the fork
   point: what do balances promise then.
2. An abstract sequential fork that `Server` implements when rollbacks are
   excluded, proved from the invariants of `ServerProofs` and `ServerTypes`.
