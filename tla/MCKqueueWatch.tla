---------------------------- MODULE MCKqueueWatch ----------------------------
(* Files and directories are alike among themselves; names are not: the    *)
(* change list is ordered by them.                                         *)
EXTENDS KqueueWatch
Symmetry == Permutations(Dirs) \cup Permutations(Files)

\* Changes of every kind; and more of them in one directory of files, where a
\* list of three loses its order.
MCSettings ==
    {[kinds |-> Kinds, reuse |-> FALSE, maxOps |-> 4],
     [kinds |-> {"create", "write", "remove", "rename"}, reuse |-> TRUE, maxOps |-> 7]}
=============================================================================
