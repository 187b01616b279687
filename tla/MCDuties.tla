------------------------------ MODULE MCDuties ------------------------------
(* The instance of Duties that TLC checks. *)
EXTENDS Duties, TLC

CONSTANTS one, two

\* Calls, inspections and groups of reviews are told apart only by what they do:
\* they are the same two values, since a behaviour has only one kind of them.
Symmetry == Permutations({one, two})
OneToolEach == {{"start_job"}, {"send_to_thread"}}
=============================================================================
