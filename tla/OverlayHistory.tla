--------------------------- MODULE OverlayHistory ---------------------------
(***************************************************************************)
(* The writes of OverlayStore, with what the fork has done since the fork  *)
(* point remembered: the deposits minus the withdrawals of every address.  *)
(* A transaction may withdraw what mainnet had settled, which the fork     *)
(* never saw deposited.                                                    *)
(***************************************************************************)
EXTENDS OverlayStore

VARIABLE net    \* deposits minus withdrawals of each account

historyVars == <<state, snapshots, files, reader, seen, net>>

Signed(event) ==
    CASE event.operation = "Merge" -> event.amount
      [] event.operation = "Split" -> -event.amount
      [] OTHER -> 0

HistoryInit ==
    /\ Init
    /\ net = [a \in Account |-> 0]

HistoryCommit ==
    \E written, deleted \in SUBSET ObjectID, v \in Version, data \in Data,
       events \in EventChoice, d \in Digest, info \in Info :
        /\ written \cap deleted = {}
        /\ Commit(written, deleted, v, data, events, d, info)
        /\ net' = [a \in Account |-> net[a] + Signed(events[a])]
        /\ \A a \in Account : net'[a] =< MaxBalance

HistoryNext ==
    \/ HistoryCommit
    \/ (\E o \in Object : SetObject(o)) /\ UNCHANGED net
    \/ Clear /\ net' = [a \in Account |-> 0]

HistorySpec == HistoryInit /\ [][HistoryNext]_historyVars

\* The balance the fork reports for an address is the "net address balance
\* (accumulator deposits minus withdrawals) produced by locally executed
\* transactions" (store.rs:337-338), whatever the order they came in.  A net
\* withdrawal has no representation in a u128 and is not asked about.
BalancesAreNet ==
    \A a \in Account : net[a] >= 0 => state.address_balances[a] = net[a]
=============================================================================
