---------------------------- MODULE MCGrantStore ----------------------------
(* Values for TLC.  Shares, peers and groups are each interchangeable.     *)
EXTENDS GrantStore, TLC

Symmetry == Permutations(Shares) \cup Permutations(Peers) \cup Permutations(Groups)
=============================================================================
