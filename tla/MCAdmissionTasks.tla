-------------------------- MODULE MCAdmissionTasks --------------------------
(* Values for TLC: two admissions and the owner's kicks in between.         *)
EXTENDS AdmissionTasks
=============================================================================
