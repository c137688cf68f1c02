----------------------------- MODULE Sequencer -----------------------------
(***************************************************************************)
(* ExecuteTransaction: prepare_clock and Fork::execute (src/src/serve.rs,  *)
(* src/src/fork.rs, src/src/engine/vm.rs).  Transactions run one at a time *)
(* under execution_lock; the clock is stamped before the lock is taken.    *)
(*                                                                         *)
(* The executor is external.  Every transaction here reads the Clock and   *)
(* increments one shared object, which makes a lost update visible.        *)
(***************************************************************************)
EXTENDS ForkState

CONSTANT Shared   \* the shared object transactions increment
ASSUME SharedAssumption ==
    /\ Shared \in ObjectID \ {Clock, SystemInner}
    /\ Mainnet[Shared][AtFork] # None
    /\ Mainnet[Shared][AtFork].data[1] = 0

\* ClockMode::target_ms, of a mode that has one.
target_ms(m) == IF m.kind = "Auto" THEN m.ms + (now - m.at) ELSE m.ms

\* A Frozen clock is left alone; otherwise set_clock_timestamp_ms(target).
\* The request's number stands for the transaction's digest.
PrepareClock(p) ==
    /\ Arrive(p, "execute", [IdleCall EXCEPT
          !.id = requests + 1,
          !.pc = IF mode.kind = "Frozen" THEN "lock" ELSE "clock_read",
          !.ms = IF mode.kind = "Frozen" THEN 0 ELSE target_ms(mode)])
    /\ UNCHANGED <<memory, file, crashes, now, captured, dumped>>

\* Mutation: transactions run without waiting for each other.
Acquire_Unlocked(p) ==
    /\ At(p, "lock")
    /\ lock' = p
    /\ Goto(p, "read_shared")
    /\ Private
    /\ UNCHANGED <<state, epoch, start, mode, snapshots, next_snapshot,
                   file, captured, dumped>>

Acquire(p) ==
    /\ At(p, "lock")
    /\ lock = None
    /\ lock' = p
    /\ Goto(p, "read_shared")
    /\ Private
    /\ UNCHANGED <<state, epoch, start, mode, snapshots, next_snapshot,
                   file, captured, dumped>>

\* resolve_input_objects reads the inputs one by one at the fork checkpoint.
ReadInputs(p) ==
    /\ \/ /\ At(p, "read_shared")
          /\ Becomes(p, [call[p] EXCEPT
                 !.obj = Current(state, Shared),
                 !.pc = "read_clock"])
       \/ /\ At(p, "read_clock")
          /\ Becomes(p, [call[p] EXCEPT
                 !.ms = clock_timestamp_ms,
                 !.pc = "read_epoch"])
    /\ Private /\ UNCHANGED <<memory, file, captured, dumped>>

\* Then run() loads the epoch and its start timestamp.
ReadEpoch(p) ==
    /\ \/ /\ At(p, "read_epoch")
          /\ Becomes(p, [call[p] EXCEPT !.epoch = epoch, !.pc = "read_start"])
       \/ /\ At(p, "read_start")
          /\ Becomes(p, [call[p] EXCEPT !.start = start, !.pc = "commit"])
    /\ Private /\ UNCHANGED <<memory, file, captured, dumped>>

Increment(obj) == Bumped(obj, <<obj.data[1] + 1>>)

\* What the executor hands over: one object written, or nothing but gas.
Outcome(obj, success) ==
    [written |-> [id \in ObjectID |->
        IF success /\ id = Shared THEN Increment(obj) ELSE None],
     deleted |-> {},
     events |-> [a \in Account |-> [operation |-> "Ignored", amount |-> 0]]]

\* Whether the Move code succeeds or aborts, the outcome is committed; the
\* guard is dropped on return.
CommitTransaction(p) ==
    /\ At(p, "commit")
    /\ \E success \in BOOLEAN :
          state' = commit(state, Outcome(call[p].obj, success), call[p].id,
                          [success |-> success, epoch |-> call[p].epoch,
                           start |-> call[p].start, ms |-> call[p].ms])
    /\ lock' = None
    /\ Return(p)
    /\ Private
    /\ UNCHANGED <<epoch, start, mode, snapshots, next_snapshot,
                   file, captured, dumped>>

\* Mutation: a failed transaction leaves the lock taken.
ExecuteFails_KeepsLock(p) ==
    /\ call[p].pc \in {"read_shared", "read_clock", "commit"}
    /\ Return(p)
    /\ Private
    /\ UNCHANGED <<memory, file, captured, dumped>>

\* An input cannot be read, the gas check fails, or the executor panics: the
\* guard is dropped, and a poisoned lock is taken over by the next caller.
ExecuteFails(p) ==
    /\ call[p].pc \in {"read_shared", "read_clock", "commit"}
    /\ lock' = None
    /\ Return(p)
    /\ Private
    /\ UNCHANGED <<state, epoch, start, mode, snapshots, next_snapshot,
                   file, captured, dumped>>

ExecuteHandler(p) ==
    \/ PrepareClock(p)
    \/ Acquire(p)
    \/ ReadInputs(p)
    \/ ReadEpoch(p)
    \/ CommitTransaction(p)
    \/ ExecuteFails(p)
=============================================================================
