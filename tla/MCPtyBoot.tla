------------------------------ MODULE MCPtyBoot ------------------------------
(* Instances of PtyBoot for TLC. *)
EXTENDS PtyBoot

CONSTANTS p1, p2, p3, c1, c2

ThreeProcs == {p1, p2, p3}
TwoClients == {c1, c2}
==============================================================================
