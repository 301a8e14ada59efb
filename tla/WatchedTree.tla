------------------------------ MODULE WatchedTree ------------------------------
(***************************************************************************)
(* A tree of directories and files that programs change one entry at a     *)
(* time, and DirectorySnapshot, which finds what has changed in one        *)
(* directory since it was last listed.  The backends that list directories *)
(* again, generic and kqueue, extend this module.                          *)
(*                                                                         *)
(* A path is the sequence of names below the root of the watch.  Symbolic  *)
(* links and directories that cannot be read are left out.                 *)
(***************************************************************************)
EXTENDS Integers, FiniteSets, SequencesExt, TLC

CONSTANTS
    Dirs, Files,          \* inodes
    DirNames, FileNames,  \* numbers, for they are sorted
    Reuse,                \* a new file may get the inode of a deleted one
    Racing,               \* the changes that need not come one per pass
    Alone,                \* the changes that come one per pass
    Clock,                \* whether a directory's time moves when it changes
    MaxOps                \* bound: changes of the tree

Kinds == {"mkdir", "create", "write", "remove", "rmdir", "rename", "renameDir", "move"}

ASSUME TreeAssumption ==
    /\ Dirs \cap Files = {} /\ DirNames \cap FileNames = {}
    /\ DirNames \cup FileNames \subseteq Nat
    /\ Reuse \in BOOLEAN /\ Clock \subseteq BOOLEAN
    /\ Racing \subseteq Kinds /\ Alone \subseteq Kinds /\ MaxOps \in Nat

VARIABLES
    fs,       \* the tree: path -> [node, stamp]
    used,     \* inodes given out so far
    since,    \* the kinds of changes since the last pass that met none
    ops       \* changes so far

tree == <<fs, used, since, ops>>

Nodes == Dirs \cup Files
Names == DirNames \cup FileNames
Top == << >>

-----------------------------------------------------------------------------
(* Paths, and functions of paths.                                          *)

Parent(p) == Front(p)
Without(f, S) == [q \in DOMAIN f \ S |-> f[q]]
Below(f, p) == {q \in DOMAIN f : IsStrictPrefix(p, q)}
From(f, p) == {q \in DOMAIN f : IsPrefix(p, q)}
Rebase(q, p, p2) == p2 \o SubSeq(q, Len(p) + 1, Len(q))
Relocate(f, p, p2) ==
    LET moved == From(f, p)
    IN [q \in {Rebase(r, p, p2) : r \in moved} |-> f[Rebase(q, p2, p)]]
          @@ Without(f, moved)

Sorted(S) == SetToSortSeq(S, <)
ParentsFirst(S) == SetToSortSeq(S, LAMBDA p, q : Len(p) < Len(q))

-----------------------------------------------------------------------------
(* The file system, as stat and readdir show it.                           *)

exists(p) == p = Top \/ p \in DOMAIN fs
isDirectory(p) == p \in DOMAIN fs /\ fs[p].node \in Dirs
filesInfoFromPath(p) ==
    [n \in {m \in Names : Append(p, m) \in DOMAIN fs} |-> fs[Append(p, n)]]

\* The time of a directory moves when its entries change, unless the second
\* is still the same.
Touched(f, S, later) ==
    [q \in DOMAIN f |->
        IF q \in S /\ later /\ f[q].stamp = 0 THEN [f[q] EXCEPT !.stamp = 1] ELSE f[q]]

InodesFree(S) == S \ IF Reuse THEN {fs[p].node : p \in DOMAIN fs} ELSE used
DirPaths == {Top} \cup {p \in DOMAIN fs : isDirectory(p)}
Spots(node) ==
    {Append(p, n) : p \in DirPaths, n \in IF node \in Dirs THEN DirNames ELSE FileNames}

\* A change outside Racing waits for a tree that has been listed as it is,
\* with no pass going on, and lets it be listed again before the next change.
change(kind, noPass, from, to, f) ==
    /\ ops < MaxOps /\ ops' = ops + 1
    /\ since \subseteq Racing
    /\ kind \in Racing \/ (kind \in Alone /\ since = {} /\ noPass)
    /\ \E later \in Clock : fs' = Touched(f, {Parent(q) : q \in {from, to}} \ {Top}, later)
    /\ used' = used \cup {f[q].node : q \in DOMAIN f}
    /\ since' = since \cup {kind}

make(node, p, noPass) ==
    /\ p \notin DOMAIN fs
    /\ change(IF node \in Dirs THEN "mkdir" ELSE "create", noPass, p, p,
              (p :> [node |-> node, stamp |-> 0]) @@ fs)
write(p, noPass) ==
    /\ ~isDirectory(p) /\ fs[p].stamp = 0
    /\ change("write", noPass, p, p, [fs EXCEPT ![p].stamp = 1])
remove(p, noPass) ==
    /\ Below(fs, p) = {}
    /\ change(IF isDirectory(p) THEN "rmdir" ELSE "remove", noPass, p, p, Without(fs, {p}))
\* rename(2); a file may take the place of another.
rename(p, q, noPass) ==
    /\ q \in Spots(fs[p].node) /\ ~IsPrefix(p, q)
    /\ ~isDirectory(q) /\ (isDirectory(p) => ~exists(q))
    /\ change(IF ~isDirectory(p) THEN "rename" ELSE
              IF Parent(p) = Parent(q) THEN "renameDir" ELSE "move", noPass, p, q,
              Relocate(Without(fs, {q}), p, q))

Changes(noPass) ==
    \/ \E node \in InodesFree(Nodes) : \E p \in Spots(node) : make(node, p, noPass)
    \/ \E p \in DOMAIN fs :
         \/ write(p, noPass) \/ remove(p, noPass)
         \/ \E q \in Spots(fs[p].node) : rename(p, q, noPass)

TreeInit == fs = << >> /\ used = {} /\ since = {} /\ ops = 0

-----------------------------------------------------------------------------
(* DirectorySnapshot.                                                      *)

\* FileInfo's sameInode and ==: the same file; with the same attributes too.
sameInode(entry, entry2) == entry.node = entry2.node
same(entry, entry2) == entry = entry2

findFile(list, name) == name \in DOMAIN list
removeEntry(list, name) == Without(list, {name})
updateFile(list, name, info) == (name :> info) @@ list

\* A name that is new, with the inode and the attributes of one that is
\* missing, has been renamed.
nodeInFiles(old, new, name) ==
    {n \in DOMAIN old :
        ~findFile(new, n) /\ sameInode(old[n], new[name]) /\ same(old[n], new[name])}

deleteAll(old) ==
    [created |-> {}, modified |-> {}, moved |-> << >>, deleted |-> DOMAIN old]

\* What has changed in directory p since it held old.
scan(p, old) ==
    LET new == filesInfoFromPath(p)
        appeared == {n \in DOMAIN new : ~findFile(old, n)}
        moved == {n \in appeared : nodeInFiles(old, new, n) # {}}
        source == [n \in moved |-> CHOOSE o \in nodeInFiles(old, new, n) : TRUE]
    IN IF ~exists(p) THEN deleteAll(old)
       ELSE [created |-> appeared \ moved,
             modified |-> {n \in DOMAIN new \ appeared : ~same(new[n], old[n])},
             moved |-> source,
             deleted |-> {n \in DOMAIN old : ~findFile(new, n)} \ {source[n] : n \in moved}]
=============================================================================
