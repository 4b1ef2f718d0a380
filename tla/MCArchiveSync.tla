---------------------------- MODULE MCArchiveSync ----------------------------
(* Two readers over two files that may carry the same id: in two processes,  *)
(* one of them a full sync, or two queries of one process.                   *)
EXTENDS ArchiveSync, TLC
CONSTANTS q1, q2, f1, f2, s1, s2, c1

MCReaders == {q1, q2}
TwoProcesses == (q1 :> 1) @@ (q2 :> 2)
OneProcess == (q1 :> 1) @@ (q2 :> 1)
MCFiles == {f1, f2}
MCSymmetry == Permutations({s1, s2}) \cup Permutations(MCFiles)
=============================================================================
