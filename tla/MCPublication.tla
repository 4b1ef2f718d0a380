--------------------------- MODULE MCPublication ---------------------------
(* Values for TLC: one publication, one client and its viewers.            *)
EXTENDS Publication
=============================================================================
