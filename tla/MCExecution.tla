---------------------------- MODULE MCExecution ----------------------------
(***************************************************************************)
(* Instances of Execution for TLC.  Mainnet went on after the fork point:  *)
(* there are versions of the coin and of the child made later, which only  *)
(* queries by version or by root version can see.                          *)
(***************************************************************************)
EXTENDS Execution, TLC

MCObjectID == {Coin, Parent, Child}
MCVersion == 1 .. (5 + MaxRuns + MaxWrites)
MCParty == {"alice", "everyone", Parent}
MCData == [owner : Party, value : 0 .. MaxValue]
MCPins == [id : {Coin}, version : 1 .. 3] \cup [id : {Child}, version : {2}]

Was(id, v, owner, value) ==
    [id |-> id, version |-> v, data |-> [owner |-> owner, value |-> value]]

\* What mainnet had at the fork point, and what it has made since.
AtForkPoint == {Was(Coin, 1, "alice", 3), Was(Parent, 3, "everyone", 0),
                Was(Child, 2, Parent, 0)}
Later == {Was(Coin, 3, "alice", 1), Was(Child, 4, Parent, 9)}

Newest(S) ==
    IF S = {} THEN None
    ELSE CHOOSE o \in S : \A p \in S : p.version =< o.version

MCMainnet ==
    [id \in ObjectID |-> [q \in Query |->
        Newest({o \in AtForkPoint \cup Later : o.id = id /\
            CASE q.kind = "AtCheckpoint" -> o \in AtForkPoint
              [] q.kind = "Version"      -> o.version = q.n
              [] q.kind = "RootVersion"  -> o.version =< q.n})]]

Runners == Permutations(Runner)
=============================================================================
