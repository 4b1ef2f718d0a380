--------------------------- MODULE MCGroupRoster ---------------------------
(* Values for TLC.  Every device but the owner is interchangeable, and so  *)
(* are the slots: no operator of GroupRoster chooses among them.           *)
EXTENDS GroupRoster, TLC

MemberSymmetry == Permutations(Peers \ {Owner})
Symmetry == Permutations(Peers \ {Owner}) \cup Permutations(Slots)
=============================================================================
