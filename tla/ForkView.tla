------------------------------ MODULE ForkView ------------------------------
(***************************************************************************)
(* What the fork overlay promises, with no overlay in it: a private,       *)
(* writable copy of the chain at the fork checkpoint.  Every object has    *)
(* one current value (None: it does not exist), a transaction changes its  *)
(* objects, its record and its balances in one step, and a saved copy      *)
(* brings the whole view back.  OverlayStore implements it with a map of   *)
(* local writes, a tombstone set and a fall-through read.                  *)
(***************************************************************************)
EXTENDS Integers, Sequences

CONSTANTS Id, Value, Digest, Info, Account, Copy, Fork, None

VARIABLES
    view,      \* the current value of each object
    records,   \* the record of each locally executed transaction
    order,     \* their digests, oldest first
    balances,  \* the net local address balances
    copies     \* what was saved, by holder

vars == <<view, records, order, balances, copies>>
whole == [view |-> view, records |-> records,
          order |-> order, balances |-> balances]

Init ==
    /\ view = Fork
    /\ records = [d \in Digest |-> None]
    /\ order = <<>>
    /\ balances = [a \in Account |-> 0]
    /\ copies = [c \in Copy |-> None]

\* A transaction writes and deletes objects and is recorded, all at once.
Transact(changed, d) ==
    /\ view' \in [Id -> Value]
    /\ \A id \in Id \ changed : view'[id] = view[id]
    /\ records' \in [Digest -> Info \cup {None}]
    /\ records'[d] # None
    /\ \A x \in Digest \ {d} : records'[x] = records[x]
    /\ order' = IF records[d] = None THEN Append(order, d) ELSE order
    /\ balances' \in [Account -> Nat]
    /\ UNCHANGED copies

\* A cheat overwrites one object; it cannot remove it.
Override(id) ==
    /\ view' \in [Id -> Value]
    /\ view'[id] # None
    /\ \A x \in Id \ {id} : view'[x] = view[x]
    /\ UNCHANGED <<records, order, balances, copies>>

\* The view becomes what it was at the fork point again.
Reset ==
    /\ view' = Fork
    /\ records' = [d \in Digest |-> None]
    /\ order' = <<>>
    /\ balances' = [a \in Account |-> 0]
    /\ UNCHANGED copies

Save(c) ==
    /\ copies' = [copies EXCEPT ![c] = whole]
    /\ UNCHANGED <<view, records, order, balances>>

Rollback(c) ==
    /\ copies[c] # None
    /\ view' = copies[c].view
    /\ records' = copies[c].records
    /\ order' = copies[c].order
    /\ balances' = copies[c].balances
    /\ UNCHANGED copies

Next ==
    \/ \E changed \in SUBSET Id, d \in Digest : Transact(changed, d)
    \/ \E id \in Id : Override(id)
    \/ Reset
    \/ \E c \in Copy : Save(c) \/ Rollback(c)

Spec == Init /\ [][Next]_vars
=============================================================================
