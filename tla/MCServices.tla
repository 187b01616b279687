----------------------------- MODULE MCServices -----------------------------
(* The instance of Services that TLC checks. *)
EXTENDS Services

CONSTANTS card, reply1, delegation, watch1, watch2, loop1, loop2
=============================================================================
