------------------------------ MODULE MCServer ------------------------------
(***************************************************************************)
(* Instances of the fork server for TLC.  Time is in ticks: the fork point *)
(* is at 5, in epoch 7, which began at 3.                                  *)
(***************************************************************************)
EXTENDS Server

MCObjectID == {Clock, SystemInner, Shared} \cup Coins

MCInitialContents ==
    [id \in {Clock, SystemInner, Shared} |->
        CASE id = Clock -> <<5>>
          [] id = SystemInner -> <<7, 3>>
          [] id = Shared -> <<0>>]

\* Mainnet holds the three system and shared objects, at version 1.
MCMainnet ==
    [id \in ObjectID |-> [q \in Query |->
        IF id \in DOMAIN MCInitialContents /\ q.n >= 1
        THEN [id |-> id, version |-> 1, data |-> MCInitialContents[id]]
        ELSE None]]

MCData == Seq(Nat) \ {<<>>}
MCDigest == 1 .. MaxRequests
MCInfo == [success : BOOLEAN, epoch : Nat, start : Nat, ms : Nat]
MCVersion == 1 .. (2 * MaxRequests + 1)
=============================================================================
