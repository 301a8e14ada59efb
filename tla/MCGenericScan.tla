---------------------------- MODULE MCGenericScan ----------------------------
(* Files and directories are alike among themselves; names are not: they   *)
(* are ordered.                                                            *)
EXTENDS GenericScan
Symmetry == Permutations(Dirs) \cup Permutations(Files)
=============================================================================
