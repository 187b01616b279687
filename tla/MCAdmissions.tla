---------------------------- MODULE MCAdmissions ----------------------------
(* The instances of Admissions that TLC checks. *)
EXTENDS Admissions

CONSTANTS j1, j2, j3, j4, p1, p2, p3

\* Two jobs compete for one project, the others have one each.
FirstTwoShare == [j \in Jobs |-> CASE j = j3 -> p2 [] j = j4 -> p3 [] OTHER -> p1]
=============================================================================
