--------------------------- MODULE MCControlPlane ---------------------------
(* The instances of ControlPlane that TLC checks. *)
EXTENDS ControlPlane, TLC

CONSTANTS e1, e2, j1, j2, p1, p2

Interchangeable == Permutations(Executors)

OneProject == [j \in Jobs |-> p1]
=============================================================================
