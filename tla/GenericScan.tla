----------------------------- MODULE GenericScan -----------------------------
(***************************************************************************)
(* One watch of the generic backend: a tree that changes, and a worker     *)
(* that finds the changes by listing it again.                             *)
(*                                                                         *)
(* A pass visits every directory, parents first, and compares its listing  *)
(* with the last one (DirectorySnapshot).  The differences become events;  *)
(* for a recursive watch they are kept in a batch, in which a Delete and   *)
(* an Add of one inode may be joined to a move, and delivered after the    *)
(* pass.                                                                   *)
(*                                                                         *)
(* A visit is several steps, between which programs change the tree: the   *)
(* listing with the events of the files, each new directory, which is      *)
(* looked at again and then visited, and the directories that were         *)
(* changed, deleted and moved.                                             *)
(***************************************************************************)
EXTENDS FileActionBatch

CONSTANTS
    Recursive,
    CrossMoves   \* ReportCrossDirectoryMoves

ASSUME ScanAssumption == Recursive \in BOOLEAN /\ CrossMoves \in BOOLEAN

VARIABLES
    snap,     \* the DirWatcherGenerics: path -> DirSnap.Files, by name
    todo,     \* the rest of the pass, as a stack of jobs
    clean,    \* nothing changed since the pass began
    batch,    \* mActionBatch
    view,     \* the listener's idea of the tree, from its callbacks
    silent,   \* files that were there when their directory was first listed
    missed,   \* directories in a listing that were gone when looked at (281-285)
    kept      \* deleted directories that were back when looked at (34)

ghosts == <<silent, missed, kept>>
vars == <<tree, snap, todo, clean, batch, view, ghosts>>

Change ==
    /\ Changes(todo = << >>)
    /\ clean' = FALSE
    /\ UNCHANGED <<snap, todo, batch, view, ghosts>>

-----------------------------------------------------------------------------
(* Events, and what a visit makes of a directory.  The tree of watchers,   *)
(* the events, the jobs and the ghosts are threaded through as one record. *)

State == [snap |-> snap, out |-> batch, todo |-> todo,
          silent |-> silent, missed |-> missed, kept |-> kept]
Job(kind, p) == [kind |-> kind, path |-> p]
push(s, jobs) == [s EXCEPT !.todo = jobs \o @]

handleAction(s, events) == [s EXCEPT !.out = @ \o events]

\* A list of files by path, and the paths of some of its names, in order.
Listed(p, list) == [q \in {Append(p, n) : n \in DOMAIN list} |-> list[Last(q)]]
Pick(p, list, S, kind) ==
    LET names == Sorted({n \in S : list[n].node \in kind})
    IN [i \in 1..Len(names) |-> Append(p, names[i])]

\* A new watcher lists its directory.  The files it finds are reported, or
\* taken for known.
DirWatcherGeneric(s, p, reportNewFiles) ==
    LET list == filesInfoFromPath(p)
        found == Pick(p, list, DOMAIN list, Files)
        t == [s EXCEPT !.snap = (p :> list) @@ @]
    IN IF reportNewFiles THEN handleAction(t, Events("Add", fs, found))
       ELSE [t EXCEPT !.silent = @ \cup ({list[n].node : n \in DOMAIN list} \cap Files)]

\* A watcher for every directory below p, parents first, with their files.
addChildren(s, p) ==
    LET Child(t, q) == DirWatcherGeneric(handleAction(t, Events("Add", fs, <<q>>)), q, TRUE)
        below == IF Recursive THEN {q \in Below(fs, p) : isDirectory(q)} ELSE {}
    IN FoldLeft(Child, s, ParentsFirst(below))

\* The new watcher is visited at once (319).
createDirectory(s, p) ==
    LET added == handleAction(s, Events("Add", fs, <<p>>))
    IN IF ~isDirectory(p) THEN [s EXCEPT !.missed = @ \cup {p}]
       ELSE IF p \in DOMAIN s.snap THEN s
       ELSE push(addChildren(DirWatcherGeneric(added, p, FALSE), p), <<Job("watch", p)>>)

\* ~DirWatcherGeneric of a deleted directory: what its last listing held is
\* gone, unless there is a directory again.
Destroy(s, p) ==
    LET list == s.snap[p]
        t == [s EXCEPT !.snap = Without(@, {p})]
    IN IF exists(p) THEN [t EXCEPT !.kept = @ \cup {p}]
       ELSE handleAction(t, Events("Delete", Listed(p, list),
                Pick(p, list, DOMAIN list, Files) \o Pick(p, list, DOMAIN list, Dirs)))

\* Mutant: what was known is not reported.
removeSilently(s, p) == [s EXCEPT !.snap = Without(@, From(@, p))]

removeDirectory(s, p) ==
    FoldLeft(Destroy, s, IF p \in DOMAIN s.snap THEN ParentsFirst(From(s.snap, p)) ELSE << >>)

\* A watcher and those below it get the new path.
resetDirectory(watchers, p, p2) == Relocate(watchers, p, p2)

\* Mutant: the watchers keep their paths.
moveNothing(s, p, p2) == s

moveDirectory(s, p, p2) ==
    IF p \in DOMAIN s.snap THEN [s EXCEPT !.snap = resetDirectory(@, p, p2)] ELSE s

Directories(watchers, p) ==
    LET children == {q \in DOMAIN watchers : q # Top /\ Parent(q) = p}
        names == Sorted({Last(q) : q \in children})
    IN [i \in 1..Len(names) |-> Append(p, names[i])]

\* The ghosts: a directory is moved, or is deleted or will be found elsewhere.
follow(s, p, p2) ==
    LET Now(S) == {IF IsPrefix(p, q) THEN Rebase(q, p, p2) ELSE q : q \in S}
    IN [s EXCEPT !.missed = Now(@), !.kept = Now(@)]
forget(s, p, node) ==
    LET below == {q \in s.missed \cup s.kept : IsPrefix(p, q)}
    IN [s EXCEPT !.missed = @ \ below,
                 !.kept = @ \cup {q \in DOMAIN fs : below # {} /\ fs[q].node = node}]

\* What is left of a visit: the directories that were there before, and then
\* the visits of those below.
finish(s, p, old, new, diff) ==
    LET was == Listed(p, old)
        is == Listed(p, new)
        Removed(t, q) ==
            removeDirectory(handleAction(forget(t, q, was[q].node), Events("Delete", was, <<q>>)), q)
        Moved(t, q) ==
            LET q1 == Append(p, diff.moved[Last(q)])
            IN handleAction(moveDirectory(follow(t, q1, q), q1, q), <<Event("Moved", q, q1, is[q])>>)
        s1 == handleAction(s, Events("Modified", is, Pick(p, new, diff.modified, Dirs)))
        s2 == FoldLeft(Removed, s1, Pick(p, old, diff.deleted, Dirs))
        s3 == FoldLeft(Moved, s2, Pick(p, new, DOMAIN diff.moved, Dirs))
        below == Directories(s3.snap, p)
    IN push(s3, [i \in 1..Len(below) |-> Job("watch", below[i])])

\* The listing, and the events of the files.  What looks at no directory again
\* follows at once.
watch(s, p) ==
    LET old == s.snap[p]
        new == filesInfoFromPath(p)
        diff == scan(p, old)
        was == Listed(p, old)
        is == Listed(p, new)
        moved == Pick(p, new, DOMAIN diff.moved, Files)
        files == Events("Add", is, Pick(p, new, diff.created, Files))
                 \o Events("Modified", is, Pick(p, new, diff.modified, Files))
                 \o Events("Delete", was, Pick(p, old, diff.deleted, Files))
                 \o [i \in 1..Len(moved) |->
                        Event("Moved", moved[i], Append(p, diff.moved[Last(moved[i])]), is[moved[i]])]
        created == Pick(p, new, diff.created, Dirs)
        rest == [kind |-> "rest", path |-> p, old |-> old, new |-> new, diff |-> diff]
        t == handleAction([s EXCEPT !.snap[p] = new], files)
    IN IF created = << >> /\ Pick(p, old, diff.deleted, Dirs) = << >> THEN finish(t, p, old, new, diff)
       ELSE push(t, [i \in 1..Len(created) |-> Job("create", created[i])] \o <<rest>>)

-----------------------------------------------------------------------------
(* The pass of the worker.                                                 *)

startPass ==
    /\ todo = << >>
    /\ todo' = <<Job("watch", Top)>> /\ clean' = TRUE /\ batch' = << >>
    /\ UNCHANGED <<tree, snap, view, ghosts>>

perform(s, job) ==
    CASE job.kind = "watch" -> watch(s, job.path)
      [] job.kind = "create" -> createDirectory(s, job.path)
      [] job.kind = "rest" -> finish(s, job.path, job.old, job.new, job.diff)

\* The next part of a visit.  The last one ends the pass.
visit ==
    LET s == perform([State EXCEPT !.todo = Tail(@)], Head(todo))
        last == s.todo = << >>
        now == IF Recursive /\ ~last THEN << >>
               ELSE dispatch(s.out, Recursive /\ CrossMoves)
    IN /\ todo # << >>
       /\ snap' = s.snap /\ todo' = s.todo
       /\ silent' = s.silent /\ missed' = s.missed /\ kept' = s.kept
       /\ batch' = IF Recursive /\ ~last THEN s.out ELSE << >>
       /\ view' = FoldLeft(handleFileAction, view, now)
       /\ since' = IF last /\ clean THEN {} ELSE since
       /\ UNCHANGED <<fs, used, ops, clean>>

Init ==
    /\ TreeInit
    /\ snap = [p \in {Top} |-> << >>]
    /\ todo = << >> /\ clean = TRUE /\ batch = << >>
    /\ view = << >> /\ silent = {} /\ missed = {} /\ kept = {}

Next == Change \/ startPass \/ visit
Spec == Init /\ [][Next]_vars

-----------------------------------------------------------------------------
(* Properties.                                                             *)

Settled == since = {} /\ todo = << >>

Under(p, S) == \E q \in S : IsPrefix(q, p)

\* A watcher of a directory exists only with one of its parent's (the code
\* deletes them together), and a pass visits only watchers that exist: todo
\* is the frames and iterators of the loops at 173-197, which what a visit
\* removes may not invalidate.  Once a pass has met no change, there is one
\* directory watcher for every directory of the tree, under its path, and its
\* listing is the directory's: what createDirectory, removeDirectory and
\* moveDirectory did along the way has left no watcher behind and none out
\* (DirWatcherGeneric.cpp:141-198).  The exception is a directory that was gone
\* when createDirectory looked at it and made again under its name: its parent
\* takes it for known, and it is never watched (281-285).
AllCovered ==
    /\ \A p \in DOMAIN snap : p = Top \/ Parent(p) \in DOMAIN snap
    /\ \A i \in 1..Len(todo) :
          (IF todo[i].kind = "create" THEN Parent(todo[i].path) ELSE todo[i].path) \in DOMAIN snap
    /\ Settled => /\ DOMAIN snap = {p \in DirPaths : ~Under(p, missed)}
                  /\ \A p \in DOMAIN snap : snap[p] = filesInfoFromPath(p)

\* A listener that follows the callbacks then has the tree, with the last
\* attributes of every entry.  It misses files that were there when their
\* directory was first listed (createDirectory, 315: the watcher of a new
\* directory takes its files for known), and nothing else unless a directory
\* goes and comes back within a pass: it may then not be watched (281-285), or
\* what it held not be told as deleted (34), and what is said of it is wrong.
ViewIsTree ==
    Settled =>
        /\ \A p \in DOMAIN view :
              (p \in DOMAIN fs /\ view[p] = fs[p]) \/ Under(p, missed \cup kept)
        /\ \A p \in DOMAIN fs \ DOMAIN view :
              fs[p].node \in silent \/ Under(p, missed \cup kept)

\* Where every directory is watched, one that is moved to another, alone, is
\* reported as moved, once, and never as deleted and added.  Nor is what is below
\* it: what has a Delete and an Add of its own is reported as moved as well, and
\* the rest is not (FileActionBatch.cpp:98-118).
OneMove ==
    [][ since = {"move"} /\ since' = {} /\ CrossMoves /\ missed = {} =>
          LET s == perform([State EXCEPT !.todo = Tail(@)], Head(todo))
              told == dispatch(s.out, TRUE)
              moved == {i \in 1..Len(told) : told[i].act = "Moved"}
          IN /\ \A i \in 1..Len(told) : told[i].act \in {"Moved", "Modified"}
             /\ \A i, j \in moved : told[i].path = told[j].path => i = j
             /\ \E i \in moved : \A j \in moved : IsPrefix(told[i].path, told[j].path) ]_vars
=============================================================================
