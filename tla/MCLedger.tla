------------------------------ MODULE MCLedger ------------------------------
(***************************************************************************)
(* The fork point the ledgers of the TLC instances start from: two coins   *)
(* of gold, a gem and the treasury cap of gold, all of alice's, at version *)
(* 1 on mainnet; and an id that exists nowhere.                            *)
(***************************************************************************)
EXTENDS Ledger

MCFork ==
    {f \in {<<"gold1", [kind |-> "coin", type |-> "gold", owner |-> "alice", value |-> 1]>>,
            <<"gold2", [kind |-> "coin", type |-> "gold", owner |-> "alice", value |-> 2]>>,
            <<"gem", [kind |-> "coin", type |-> "gem", owner |-> "alice", value |-> 1]>>,
            <<"cap", [kind |-> "cap", type |-> "gold", owner |-> "alice", value |-> 3]>>} :
        f[2].owner \in Owner /\ f[2].type \in Type}

MCObjectID == {f[1] : f \in MCFork} \cup {"fresh"}
MCVersion == 1 .. (MaxWrites + 1)
MCData == [kind : {"coin", "cap"}, type : Type, owner : Owner, value : 0 .. (MaxWrites + 3)]
MCDigest == 1 .. MaxWrites
MCAccount == Owner \X Type
MCMainnet ==
    [id \in ObjectID |-> [q \in Query |->
        IF q.n >= 1 /\ \E f \in MCFork : f[1] = id
        THEN [id |-> id, version |-> 1,
              data |-> (CHOOSE f \in MCFork : f[1] = id)[2]]
        ELSE None]]
=============================================================================
