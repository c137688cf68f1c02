------------------------------- MODULE Server -------------------------------
(***************************************************************************)
(* The fork server: any number of clients inside any of its handlers, the  *)
(* wall clock, and restarts.  What must hold of the whole.                 *)
(***************************************************************************)
EXTENDS Snapshots, Sequencer, Control

Step(p) ==
    \/ SetClock(p)
    \/ SnapshotHandlers(p)
    \/ ExecuteHandler(p)
    \/ ControlHandlers(p)

Tick ==
    /\ now < MaxNow
    /\ now' = now + 1
    /\ UNCHANGED <<memory, file, call, requests, crashes, captured, dumped>>

Quiescent == \A p \in Client : At(p, "idle")

\* Every request made was answered: the system may stop here, nowhere else.
Done == Quiescent /\ requests = MaxRequests /\ UNCHANGED vars

Next == (\E p \in Client : Step(p)) \/ Tick \/ Restart \/ Done

Spec == Init /\ [][Next]_vars

\* A thread of the blocking pool runs: a request that is under way takes its
\* next step when it can.  New requests need not come.
Continue(p) == ~At(p, "idle") /\ Step(p)
FairSpec == Spec /\ \A p \in Client : WF_vars(Continue(p))

-----------------------------------------------------------------------------

Snapshot ==
    [overlay : OverlayState, epoch : Nat, start : Nat,
     mode : [kind : {"Auto", "Fixed", "Frozen"}, ms : Nat, at : Nat]]

\* The type of every variable; snapshot ids handed out are below the counter.
TypeOK ==
    /\ state \in OverlayState
    /\ epoch \in Nat /\ start \in Nat
    /\ mode \in [kind : {"Auto", "Fixed", "Frozen"}, ms : Nat, at : 0 .. now]
    /\ next_snapshot \in SnapshotId
    /\ snapshots \in [SnapshotId -> Maybe(Snapshot)]
    /\ \A i \in SnapshotId : snapshots[i] # None => i < next_snapshot
    /\ lock \in Maybe(Client)
    /\ requests \in 0 .. MaxRequests /\ crashes \in 0 .. MaxCrashes

\* Bringing an earlier state back, or starting over.
RollsBack ==
    \/ Restart
    \/ \E p \in Client :
          \/ call[p].pc \in {"rev_overlay", "load_overlay"} /\ ~UNCHANGED state
          \/ Reset(p)

\* Between rollbacks the on-chain clock never runs backwards when nobody sets
\* it back: "a freshly forked chain advances time like the real one"
\* (cheats.rs:41-42).
ClockMonotonic ==
    [][clock_timestamp_ms' >= clock_timestamp_ms \/ RollsBack]_vars

\* An override that was asked to keep the version (bump_version: false).
KeepsVersion ==
    \E p \in Client :
        /\ WriteContents(p)
        /\ call[p].obj.version = Current(state, Override).version

\* Between rollbacks, an object that changes gets a higher version, so an
\* (id, version) pair never names two contents: set_object's callers hand over
\* "a well-formed object at a fresh version" (store.rs:236-237), unless they were
\* asked to keep it.
VersionsIncrease ==
    [][\/ \A id \in ObjectID :
            LET old == Current(state, id)
                new == Current(state', id)
            IN  old # new /\ old # None /\ new # None
                    => new.version > old.version
       \/ KeepsVersion
       \/ RollsBack]_vars

\* The system state object and the VM agree on the epoch and on its start
\* whenever no request is under way, across rollbacks and reloads too: the
\* epoch of 0x5 "should match `epoch`" (control.rs:99).
SystemStateEpochAgrees ==
    Quiescent => Current(state, SystemInner).data = <<epoch, start>>

\* No transaction runs in an epoch that, by the clock it reads, has not begun:
\* "time- and epoch-gated logic stay consistent" (control.rs:225-226).
TxTimeConsistent ==
    \A d \in Digest : state.transactions[d] # None =>
        state.transactions[d].start =< state.transactions[d].ms

Successes(s) ==
    {d \in Digest : s.transactions[d] # None /\ s.transactions[d].success}

\* In an overlay state, the shared object counts the successful transactions.
CountsTransactions(s) ==
    Current(s, Shared).data[1] = Cardinality(Successes(s))

\* Concurrent transactions do not lose each other's updates: every successful
\* one is in the shared object, once ("no lost updates / TOCTOU on object
\* versions", fork.rs:34-36).
NoLostUpdates == CountsTransactions(state)

\* A snapshot or a dump taken while transactions run holds whole transactions
\* only ("a concurrent reader never observes a half-applied transaction").
CopiesAreWhole ==
    /\ \A i \in SnapshotId :
          snapshots[i] # None => CountsTransactions(snapshots[i].overlay)
    /\ FileIsDump => CountsTransactions(import(file.overlay))

\* A snapshot captures one state of the fork: its overlay and the epoch beside
\* it belong together ("the whole overlay plus the interior-mutable epoch and
\* clock state", serve.rs:73-74).
SnapshotsAreConsistent ==
    \A i \in SnapshotId : snapshots[i] # None =>
        Current(snapshots[i].overlay, SystemInner).data
            = <<snapshots[i].epoch, snapshots[i].start>>

\* Reverting to an id brings back the fork that id was given out for, whatever
\* was executed, reset or snapshot in between: an id is never rebound.
RevertRestoresCapture ==
    [][\A p \in Client : RevertMode(p) => Fork' = captured[call[p].id]]_vars

\* A dump reloaded, also by a restarted server, is the fork it was taken from,
\* with the clock held where it was.
LoadRestoresDump ==
    [][\A p \in Client : FixMode(p) /\ call[p].op = "state_load" =>
          /\ Fork' = [dumped EXCEPT !.mode = mode']
          /\ mode' = FixedMode(clock_timestamp_ms')]_vars

\* Every request is answered: whoever fails or panics holding the execution
\* lock, the others get it in the end.
RequestsAnswered ==
    \A p \in Client : ~At(p, "idle") ~> At(p, "idle")
=============================================================================
