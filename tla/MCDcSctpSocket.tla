--------------------------- MODULE MCDcSctpSocket ---------------------------
(***************************************************************************)
(* Instances of DcSctpSocket for TLC: who calls Connect and Send how often, *)
(* and an association that is already established.                         *)
(***************************************************************************)
EXTENDS DcSctpSocket, TLC

CONSTANTS a, z

MCPeers == {a, z}
Calls(byA, byZ) == (a :> byA) @@ (z :> byZ)
None == Calls(0, 0)
OnlyA == Calls(1, 0)
TwiceA == Calls(2, 0)
Each == Calls(1, 1)
TwiceAOnceZ == Calls(2, 1)

SpecEstablished == InitEstablished(a) /\ [][Next]_vars
FairSpecEstablished == SpecEstablished /\ Fairness
=============================================================================
