----------------------------- MODULE WatchRoots -----------------------------
(***************************************************************************)
(* What addWatch accepts, and which directories a watch comes to own, where*)
(* paths have several names: the inotify, generic and kqueue backends, on  *)
(* a tree of directories that does not change.                             *)
(*                                                                         *)
(* A recursive watch visits its directories depth first.  One step is one  *)
(* directory: the call of addWatch (inotify, kqueue) or the turn of the    *)
(* loop in addChildren (generic).  The calls are made with the locks held, *)
(* so nothing comes between them but the steps of one visit.               *)
(***************************************************************************)
EXTENDS Links, TLC

CONSTANTS
    Backends,   \* of "inotify", "generic", "kqueue"
    MaxAdds,    \* bound: explicit watches
    MaxDepth    \* what a thread's stack takes: calls one in the other

ASSUME RootsAssumption ==
    /\ Backends \subseteq {"inotify", "generic", "kqueue"}
    /\ MaxAdds \in Nat /\ MaxDepth \in Nat

VARIABLES
    backend,    \* what the FileWatcher was made with
    watches,    \* the watches: see Watch
    stack,      \* the visit: paths not looked at, each with the watch above it
    ids,        \* what the client holds: owner -> its watch, as asked for
    adds,       \* explicit watches so far
    scoped      \* a watch was added while out of scope links were allowed

vars == <<links, flags, backend, watches, stack, ids, adds, scoped>>

\* A watch of one directory.  Its chain is the Directory of every watch from the
\* explicit one down to it; from the place generic on they belong to one
\* WatcherGeneric (0: to none).
Watch(owner, chain, generic, recursive) ==
    [owner |-> owner, chain |-> chain, generic |-> generic, recursive |-> recursive]
Directory(w) == Last(w.chain)
Node(w) == getRealPath(Directory(w))
IsRoot(w) == Len(w.chain) = 1
Roots == {w \in watches : IsRoot(w)}
directories == {Directory(w) : w \in Roots}

-----------------------------------------------------------------------------
(* Is a path watched?  Paths are compared as they are spelled.             *)

\* FileWatcherInotify and FileWatcherKqueue: is it an explicit watch?
explicitlyWatched(path) == path \in directories

\* FileWatcherGeneric: is it anything in a tree?
genericallyWatched(path) == \E w \in watches : Directory(w) = path

\* WatcherGeneric: is it in the tree of the watch w?
inTreeOf(w, path) ==
    \E v \in watches : /\ v.owner = w.owner /\ v.generic = w.generic
                       /\ IsPrefix(SubSeq(w.chain, 1, w.generic), v.chain)
                       /\ Directory(v) = path

\* WatcherKqueue::pathInWatches: is it a child of the watch with this chain?
childWatched(owner, chain, path) ==
    \E v \in watches : v.owner = owner /\ v.chain = Append(chain, path)

\* Mutant: the watches above are not asked.
pathInParentOnly(w, path) ==
    childWatched(w.owner, w.chain, path) \/ explicitlyWatched(path)

\* pathInWatches and pathInParent: here, in any watch above, or explicitly.
pathInParent(w, path) ==
    \/ \E i \in 1..Len(w.chain) : childWatched(w.owner, SubSeq(w.chain, 1, i), path)
    \/ explicitlyWatched(path) \/ path = Directory(w)

\* The pathInWatches of the tree and of the FileWatcher it belongs to.
knownToGeneric(w, path) ==
    \/ inTreeOf(w, path)
    \/ IF backend = "generic" THEN genericallyWatched(path) ELSE explicitlyWatched(path)

-----------------------------------------------------------------------------
(* inotify: explicit watches may not overlap.                              *)

\* Mutant: paths are compared as they are spelled.
asSpelled(path) == path

directoryComparisonPath(path) == getRealPath(path)
isDirectoryInside(child, parent) == IsStrictPrefix(parent, child)

getWatchConflict(path, recursive) ==
    LET new == directoryComparisonPath(path) IN
    {w \in Roots : LET old == directoryComparisonPath(Directory(w)) IN
        \/ old = new
        \/ w.recursive /\ isDirectoryInside(new, old)
        \/ recursive /\ isDirectoryInside(old, new)}

\* Mutant: the tree of a recursive watch stays.
removeWatchAlone(w) == {w}

\* inotify_add_watch gives the directory the descriptor it has already.  Whoever
\* owned that watch loses it, with its tree if it was a recursive explicit one.
removeWatchLocked(w) ==
    IF IsRoot(w) /\ w.recursive THEN {v \in watches : v.owner = w.owner} ELSE {w}

replaced(d) == UNION {removeWatchLocked(w) : w \in {w \in watches : Node(w) = d}}

-----------------------------------------------------------------------------
(* Explicit watches.                                                       *)

\* The directory a path stands for: a link is replaced by what it leads to, if it
\* may be followed.
followed(path) ==
    IF isLink(path)
    THEN {f.link : f \in {f \in getLinkRealPath(path) : linkAllowed(f.curPath, f.link)}}
    ELSE {path}

\* The directory an explicit watch of a path is for, if addWatch accepts it.
inotifyRoot(path, recursive) ==
    {dir \in followed(path) : getWatchConflict(dir, recursive) = {}}
genericRoot(path) ==
    {dir \in followed(path) : ~genericallyWatched(path) /\ ~genericallyWatched(dir)}
kqueueRoot(path) ==
    {dir \in followed(path) : ~explicitlyWatched(path) /\ ~explicitlyWatched(dir)}

children(w) ==
    LET paths == filesInfoFromPath(Directory(w)) IN
    IF w.recursive
    THEN [i \in DOMAIN paths |-> [path |-> paths[i], above |-> w]] ELSE <<>>

\* A kqueue watch takes descriptors; there may be none left.
availablesFD == BOOLEAN

\* Without, the directory gets a WatcherGeneric, and so do those below it.
genericFrom(depth, above) ==
    IF above > 0 THEN {above}
    ELSE CASE backend = "generic" -> {depth}
           [] backend = "kqueue" -> {IF fd THEN 0 ELSE depth : fd \in availablesFD}
           [] OTHER -> {0}

enter(w) ==
    /\ watches' = (watches \ IF backend = "inotify" THEN replaced(Node(w)) ELSE {}) \cup {w}
    /\ stack' = children(w) \o IF stack = <<>> THEN <<>> ELSE Tail(stack)

accepted(path, recursive) ==
    CASE backend = "inotify" -> inotifyRoot(path, recursive)
      [] backend = "generic" -> genericRoot(path)
      [] backend = "kqueue" -> kqueueRoot(path)

addWatch(path, recursive) ==
    /\ stack = <<>> /\ adds < MaxAdds /\ adds' = adds + 1
    /\ isDirectory(path) /\ (backend # "generic" => ~isRemoteFS(path))
    /\ \E dir \in accepted(path, recursive), generic \in genericFrom(1, 0) :
         LET w == Watch(adds + 1, <<dir>>, generic, recursive) IN
         /\ enter(w)
         /\ ids' = (w.owner :> [dir |-> dir, recursive |-> recursive]) @@ ids
    /\ scoped' = (scoped \/ (mFollowSymlinks /\ mOutOfScopeLinks))
    /\ UNCHANGED <<links, flags, backend>>

\* The id is a descriptor with inotify: whatever watch has it now is removed.
inotifyRemove(owner) == watches \ replaced(getRealPath(ids[owner].dir))
watcherRemove(owner) == {w \in watches : w.owner # owner}

removeWatch(owner) ==
    /\ stack = <<>> /\ owner \in DOMAIN ids
    /\ watches' = IF backend = "inotify" THEN inotifyRemove(owner) ELSE watcherRemove(owner)
    /\ ids' = [o \in DOMAIN ids \ {owner} |-> ids[o]]
    /\ UNCHANGED <<links, flags, backend, stack, adds, scoped>>

\* The same by the path: of any watch with inotify, of the explicit ones otherwise.
\* The client gives a path it watches; inotify takes one below a recursive watch
\* too, and then leaves that directory out of it.
removeDirectory(path) ==
    /\ stack = <<>>
    /\ \E w \in IF backend = "inotify" THEN watches ELSE Roots :
         /\ Directory(w) = path
         /\ watches' = watches \ IF backend = "inotify" THEN removeWatchLocked(w)
                                 ELSE {v \in watches : v.owner = w.owner}
         /\ ids' = [o \in DOMAIN ids \ {v.owner : v \in {w} \cap Roots} |-> ids[o]]
    /\ UNCHANGED <<links, flags, backend, stack, adds, scoped>>

-----------------------------------------------------------------------------
(* The directories below.                                                  *)

\* The directory to watch for a path below the watch w, if it is to be watched.
inotifyChild(path) ==
    {dir \in followed(path) :
        /\ ~explicitlyWatched(path) /\ ~isRemoteFS(path)
        /\ isLink(path) => mFollowSymlinks /\ ~explicitlyWatched(dir)}
kqueueChild(w, path) ==
    {dir \in followed(path) :
        /\ ~pathInParent(w, path) /\ ~isRemoteFS(path)
        /\ isLink(path) => mFollowSymlinks /\ ~pathInParent(w, dir)}
\* A directory that is no link is looked up by its name alone, which no watch has
\* for a path: it is never found.
genericChild(w, path) ==
    {dir \in followed(path) :
        /\ ~isRemoteFS(path)
        /\ isLink(path) => mFollowSymlinks /\ ~knownToGeneric(w, dir)}

admitted(w, path) ==
    CASE w.generic > 0 -> genericChild(w, path)
      [] backend = "kqueue" -> kqueueChild(w, path)
      [] OTHER -> inotifyChild(path)

visit ==
    /\ stack # <<>> /\ Len(Head(stack).above.chain) < MaxDepth
    /\ LET w == Head(stack).above
           dirs == admitted(w, Head(stack).path)
       IN \/ dirs = {} /\ stack' = Tail(stack) /\ UNCHANGED watches
          \/ \E dir \in dirs : \E generic \in genericFrom(Len(w.chain) + 1, w.generic) :
                enter(Watch(w.owner, Append(w.chain, dir), generic, TRUE))
    /\ UNCHANGED <<links, flags, backend, ids, adds, scoped>>

-----------------------------------------------------------------------------
Init ==
    /\ LinksInit
    /\ backend \in Backends
    /\ watches = {} /\ stack = <<>> /\ ids = <<>>
    /\ adds = 0 /\ scoped = FALSE

Paths == Real \cup LinkPaths \cup {Append(l, Last(d)) : l \in LinkPaths, d \in Real \ {<<>>}}

Next ==
    \/ \E path \in Paths, recursive \in BOOLEAN : addWatch(path, recursive)
    \/ \E owner \in DOMAIN ids : removeWatch(owner)
    \/ \E owner \in DOMAIN ids : removeDirectory(ids[owner].dir)
    \/ visit
    \/ stack = <<>> /\ setFlags /\ UNCHANGED <<backend, watches, stack, ids, adds, scoped>>

Spec == Init /\ [][Next]_vars

-----------------------------------------------------------------------------
(* Properties.                                                             *)

Idle == stack = <<>>
Local(d) == \A i \in 1..Len(d) : SubSeq(d, 1, i) \notin Remote
Asked(owner) ==
    LET top == getRealPath(ids[owner].dir) IN
    {top} \cup {d \in Real : ids[owner].recursive /\ IsStrictPrefix(top, d) /\ Local(d)}

\* Every watch the client holds has all the directories it asked for, whatever the
\* paths were spelled like: neither a second explicit watch nor a link that was
\* followed has taken one away (FileWatcherInotify.cpp:149-154, README.md:163-167).
\* Out of scope links do take them; kqueue leaves directories out that another
\* explicit watch has.
Covered ==
    Idle => \A owner \in DOMAIN ids :
        \/ backend = "inotify" /\ scoped
        \/ backend = "kqueue" /\ adds > 1
        \/ \A d \in Asked(owner) : \E w \in watches : w.owner = owner /\ Node(w) = d

\* After removeWatch nothing of the watch is left, and what the client has not
\* removed is there, for directories() too (FileWatcherInotify.cpp:212-255).
NothingLeft ==
    Idle /\ ~(backend = "inotify" /\ scoped) =>
        /\ {w.owner : w \in watches} = DOMAIN ids
        /\ directories = {ids[owner].dir : owner \in DOMAIN ids}

\* A visit that follows links ends, and stays where it may go: links that lead
\* back up are found out, so it never goes deeper than the stack takes
\* (DirWatcherGeneric.cpp:113-121, WatcherKqueue.cpp:622-642), and unless out of
\* scope links were allowed it stays below the directory the watch was added for
\* (efsw.hpp:234-240).
LoopsEnd ==
    \A w \in watches :
        /\ backend # "inotify" => Len(w.chain) < MaxDepth
        /\ ~scoped => IsPrefix(getRealPath(w.chain[1]), Node(w))

\* With inotify too, as long as out of scope links are not allowed
\* (efsw.hpp:235-240).
LoopsEndInScope ==
    ~scoped => \A w \in watches : Len(w.chain) < MaxDepth
=============================================================================
