----------------------------- MODULE MCOrderEvents -----------------------------
(* Instances of OrderEvents for TLC. *)
EXTENDS OrderEvents, TLC

CONSTANTS p1, p2, p3
Routers == {p1, p2, p3}
RouterSymmetry == Permutations(Routers)
=============================================================================
