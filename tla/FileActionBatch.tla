---------------------------- MODULE FileActionBatch ----------------------------
(***************************************************************************)
(* Events on their way to the listener.  A recursive watch that is to      *)
(* report moves between directories keeps the events of a pass in a batch, *)
(* in which a Delete and an Add of one inode are joined to a move.         *)
(***************************************************************************)
EXTENDS WatchedTree

Event(act, path, old, entry) == [act |-> act, path |-> path, old |-> old, entry |-> entry]
Events(act, entries, paths) ==
    [i \in 1..Len(paths) |-> Event(act, paths[i], paths[i], entries[paths[i]])]

\* A listener that follows the callbacks: what it takes to be there.
handleFileAction(v, e) ==
    CASE e.act = "Delete" -> Without(v, {e.path})
      [] e.act = "Moved" -> (e.path :> e.entry) @@ Relocate(v, e.old, e.path)
      [] OTHER -> (e.path :> e.entry) @@ v

-----------------------------------------------------------------------------
(* FileActionBatch::dispatch: which pairs of a Delete and an Add are moves,*)
(* and what they make superfluous.                                         *)

Of(b, act, node) == {i \in 1..Len(b) : b[i].act = act /\ b[i].entry.node = node}
\* A path and what is below the directory, not the directory itself.
pathContains(directory, path) == IsStrictPrefix(directory, path)
metadataMatches(source, destination) == source.entry.stamp = destination.entry.stamp

\* Mutant: the Delete has to come first.
movesInOrder(b) ==
    LET Pairs == {<<i, j>> \in (1..Len(b)) \X (1..Len(b)) :
            /\ Of(b, "Add", b[i].entry.node) = {i} /\ Of(b, "Delete", b[i].entry.node) = {j}
            /\ j < i /\ Parent(b[i].path) # Parent(b[j].path) /\ metadataMatches(b[j], b[i])}
    IN [i \in {pair[1] : pair \in Pairs} |-> CHOOSE j \in 1..Len(b) : <<i, j>> \in Pairs]

\* The moves of a batch: the index of the Add -> the index of its Delete.
moves(b) ==
    LET Pairs == {<<i, j>> \in (1..Len(b)) \X (1..Len(b)) :
            /\ Of(b, "Add", b[i].entry.node) = {i}
            /\ Of(b, "Delete", b[i].entry.node) = {j}
            /\ Parent(b[i].path) # Parent(b[j].path)
            /\ sameInode(b[j].entry, b[i].entry) /\ metadataMatches(b[j], b[i])}
    IN [i \in {pair[1] : pair \in Pairs} |-> CHOOSE j \in 1..Len(b) : <<i, j>> \in Pairs]

suppressed(b, m) ==
    DOMAIN m \cup {m[i] : i \in DOMAIN m}
    \cup {k \in 1..Len(b) : \E i \in DOMAIN m :
            /\ b[i].entry.node \in Dirs
            /\ \/ b[k].act = "Delete" /\ pathContains(b[m[i]].path, b[k].path)
               \/ b[k].act = "Add" /\ pathContains(b[i].path, b[k].path)}

dispatch(b, detectMoves) ==
    LET m == IF detectMoves THEN moves(b) ELSE << >>
        quiet == suppressed(b, m)
        Kept(k) == k \notin quiet \ DOMAIN m
        kept == SelectSeq([k \in 1..Len(b) |-> k], Kept)
        Shown(i) == IF i \in DOMAIN m THEN Event("Moved", b[i].path, b[m[i]].path, b[i].entry)
                    ELSE b[i]
    IN [k \in 1..Len(kept) |-> Shown(kept[k])]
=============================================================================
