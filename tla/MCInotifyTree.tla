--------------------------- MODULE MCInotifyTree ---------------------------
EXTENDS InotifyTree

Common == {"mkdir", "rmdir", "move", "moveOut", "moveIn", "remove"}
\* Programs that let efsw follow, but for new directories; the client does not
\* wait to remove the watch when moves between directories are a Delete and an
\* Add.  And programs that let it follow nothing, with a queue of two events.
MCSettings ==
    {[crossMoves |-> c, kinds |-> Common \cup {"rename"},
      racing |-> IF c THEN {"mkdir"} ELSE {"mkdir", "remove"},
      queueLimit |-> 8, maxOps |-> 5] : c \in BOOLEAN}
    \cup {[crossMoves |-> TRUE, kinds |-> Common \cup {"replace"}, racing |-> Kinds,
           queueLimit |-> 2, maxOps |-> 3]}
=============================================================================
