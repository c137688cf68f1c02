--------------------------- MODULE MCOverlayStore ---------------------------
(***************************************************************************)
(* Instances of OverlayStore for TLC: an object o1 that mainnet mutated    *)
(* after the fork point, and an id o2 that exists nowhere yet.             *)
(***************************************************************************)
EXTENDS OverlayStore

CONSTANTS o1, o2

\* Mainnet's history of an object: what each version held and the checkpoint
\* that wrote it.  The fork is at checkpoint 5.
Chain(id) ==
    IF id = o1
    THEN {[version |-> 1, data |-> "a", checkpoint |-> 3],
          [version |-> 2, data |-> "b", checkpoint |-> 8]}
    ELSE {}

Selects(q, row) ==
    CASE q.kind = "Version"      -> row.version = q.n
      [] q.kind = "RootVersion"  -> row.version =< q.n
      [] q.kind = "AtCheckpoint" -> row.checkpoint =< q.n

\* The newest row a query selects.
ChainRead(id, q) ==
    LET rows == {row \in Chain(id) : Selects(q, row)}
    IN  IF rows = {} THEN None
        ELSE LET row == CHOOSE x \in rows : \A y \in rows : y.version =< x.version
             IN  [id |-> id, version |-> row.version, data |-> row.data]

MCOneObject == {o1}
MCTwoObjects == {o1, o2}
MCMainnet == [id \in ObjectID |-> [q \in Query |-> ChainRead(id, q)]]

\* A transaction deposits into one account, withdraws from it, moves from one
\* account to another, or touches none.
MCEventChoice ==
    {events \in [Account -> [operation : {"Merge", "Split", "Ignored"},
                            amount : 1..2]] :
        \A a, b \in Account :
            /\ events[a].operation = "Ignored" => events[a].amount = 1
            /\ a # b => events[a].operation # events[b].operation
                       \/ events[a].operation = "Ignored"}
MCDeposits ==
    {[a \in Account |-> [operation |-> op, amount |-> 1]] :
        op \in {"Merge", "Ignored"}}
MCNoEvents == {[a \in Account |-> [operation |-> "Ignored", amount |-> 0]]}

Key(id, kind, n) ==
    [object_id |-> id, version_query |-> [kind |-> kind, n |-> n]]

\* A batch of current reads, and one mixing every kind of query.
MCKeys ==
    {<<Key(o1, "AtCheckpoint", 5), Key(o2, "AtCheckpoint", 5)>>,
     <<Key(o2, "RootVersion", 2), Key(o1, "Version", 1),
       Key(o1, "RootVersion", 1)>>}
MCNoKeys == {}
=============================================================================
