----------------------------- MODULE KqueueWatch -----------------------------
(***************************************************************************)
(* One recursive watch of the kqueue backend.                              *)
(*                                                                         *)
(* A WatcherKqueue has a descriptor for its directory and one for every    *)
(* file in it, in mChangeList, which is kept sorted by name and searched   *)
(* with bsearch; it also has a snapshot of the directory.  The kernel      *)
(* notes what happens to the vnode of a descriptor.  A pass asks every     *)
(* watcher, children first, for its notes; a file that was deleted or      *)
(* written is dealt with at once, anything else makes the watcher list its *)
(* directory again.  To report moves between directories the pass keeps    *)
(* its events, lists all the directories again, and joins what it has.     *)
(*                                                                         *)
(* One watcher's part of a pass is one step, and a list's notes come in the*)
(* order of the list.  The limit of descriptors is left out (WatchRoots has*)
(* it).                                                                    *)
(***************************************************************************)
EXTENDS FileActionBatch

CONSTANTS
    Modes,     \* values of the option ReportCrossDirectoryMoves
    Settings   \* what programs do in a behaviour, one of these

ASSUME ModesAssumption ==
    /\ Modes \subseteq BOOLEAN
    /\ Settings \subseteq [kinds : SUBSET Kinds, reuse : BOOLEAN, maxOps : 0..MaxOps]

VARIABLES
    watchers,  \* number -> WatcherKqueue, in the order of creation
    mReportCrossDirectoryMoves,
    setting,
    todo,      \* the rest of the pass
    rescanning, mNeedsRecursiveRescan,
    mActionBatch,
    clean,     \* nothing changed since the pass began
    view,      \* path -> entry, as a listener has it that follows the callbacks
    silent     \* files that were there when their directory was first listed

options == <<mReportCrossDirectoryMoves, setting>>
pass == <<options, todo, rescanning, mNeedsRecursiveRescan>>
vars == <<tree, watchers, pass, mActionBatch, clean, view, silent>>

-----------------------------------------------------------------------------
(* Vnodes and their notes.                                                 *)

Root == "root"
NodeAt(f, p) == IF p = Top THEN Root ELSE f[p].node
\* Where a node is: its directory and its name.
Spot(f, node) == {<<NodeAt(f, Parent(p)), Last(p)>> : p \in {q \in DOMAIN f : f[q].node = node}}
Stamp(f, node) == {f[p].stamp : p \in {q \in DOMAIN f : f[q].node = node}}
Note(f, g, node) ==
    CASE Spot(f, node) # Spot(g, node) -> {IF Spot(g, node) = {} THEN "DELETE" ELSE "RENAME"}
      [] Stamp(f, node) # Stamp(g, node) -> {"WRITE"}
      [] OTHER -> {}
Written(f, g) ==
    {spot[1] : spot \in UNION {Spot(f, n) \cup Spot(g, n) : n \in {m \in Nodes : Spot(f, m) # Spot(g, m)}}}

\* Programs make changes of the setting's kinds, at most maxOps, and unless it has
\* reuse no new file gets the inode of a deleted one.
WithinSetting ==
    LET nodes(f) == {f[p].node : p \in DOMAIN f}
    IN /\ ops < setting.maxOps /\ since' \subseteq setting.kinds
       /\ setting.reuse \/ nodes(fs') \cap used \subseteq nodes(fs)

\* A move that is to be reported as one comes before the last listings.
Change ==
    /\ Changes(todo = << >>) \/ \E p \in DOMAIN fs : \E q \in Spots(fs[p].node) :
            "move" \in Alone /\ Parent(p) # Parent(q) /\ rename(p, q, ~rescanning)
    /\ WithinSetting
    /\ clean' = FALSE
    /\ watchers' = [k \in DOMAIN watchers |->
         [watchers[k] EXCEPT
            !.hit = @ \/ watchers[k].node \in Written(fs, fs') \/ Note(fs, fs', watchers[k].node) # {},
            !.mChangeList = [i \in DOMAIN @ |->
                [@[i] EXCEPT !.notes = @ \cup Note(fs, fs', watchers[k].mChangeList[i].vnode)]]]]
    /\ UNCHANGED <<pass, mActionBatch, view, silent>>

-----------------------------------------------------------------------------
(* A step works on a record of the watchers, the listener's view, the      *)
(* batch (out) and the ghost silent.                                       *)

\* stat, where there may be nothing.
NoInfo == [node |-> "none", stamp |-> 0]
FileInfo(p) == IF p \in DOMAIN fs THEN fs[p] ELSE NoInfo

Files2(list) == {n \in DOMAIN list : list[n].node \notin Dirs}
Dirs2(list) == {n \in DOMAIN list : list[n].node \in Dirs}

\* The listener takes what is below a deleted directory for deleted.
follow(v, e) ==
    IF e.act = "Delete" THEN Without(v, From(v, e.path)) ELSE handleFileAction(v, e)

mCollectActions == mReportCrossDirectoryMoves
report(s, e) ==
    IF mCollectActions THEN [s EXCEPT !.out = Append(@, e)] ELSE [s EXCEPT !.view = follow(@, e)]
handleAction(s, action, p, entry) == report(s, Event(action, p, p, entry))
handleMoved(s, old, p, entry) == report(s, Event("Moved", p, old, entry))

-----------------------------------------------------------------------------
(* mChangeList, from its second element.                                   *)

comparator(e, e2) == e.name < e2.name
\* bsearch(3): an index, or 0.
bsearch(list, name) ==
    LET find[base \in 0..Len(list), lim \in 0..Len(list)] ==
            LET p == base + lim \div 2 + 1
            IN IF lim = 0 THEN 0
               ELSE IF list[p].name = name THEN p
               ELSE IF list[p].name < name THEN find[p, (lim - 1) \div 2]
               ELSE find[base, lim \div 2]
    IN find[0, Len(list)]

Entry(info, name) == [name |-> name, vnode |-> info.node, info |-> info, notes |-> {}]
\* Mutant: the end of the list goes instead.
takenShort(list, i) == Front(list)
\* The end of the list comes to the place of what is taken out.
Taken(list, i) == [j \in 1..Len(list) - 1 |-> IF j = i THEN Last(list) ELSE list[j]]

addFile(s, k, name, emitEvents) ==
    LET p == Append(s.w[k].Directory, name)
        t == [s EXCEPT !.w[k].mChangeList = SortSeq(Append(@, Entry(fs[p], name)), comparator)]
    IN IF emitEvents THEN handleAction(t, "Add", p, fs[p]) ELSE t

\* Mutant: no event.
removeUnreported(s, k, name, emitEvents) ==
    LET i == bsearch(s.w[k].mChangeList, name)
    IN IF i = 0 THEN s ELSE [s EXCEPT !.w[k].mChangeList = Taken(@, i)]
removeFile(s, k, name, emitEvents) ==
    LET list == s.w[k].mChangeList
        i == bsearch(list, name)
        t == [s EXCEPT !.w[k].mChangeList = Taken(list, i)]
    IN IF i = 0 THEN s
       ELSE IF emitEvents
       THEN handleAction(t, "Delete", Append(s.w[k].Directory, name), list[i].info) ELSE t

-----------------------------------------------------------------------------
(* Watchers.                                                               *)

Children(w, k) == {c \in DOMAIN w : w[c].parent = k /\ c # k}
findWatcher(w, k, p) == {c \in Children(w, k) : w[c].Directory = p}
Ancestors(w, k) ==
    LET up[j \in DOMAIN w] == IF w[j].parent = j THEN {j} ELSE {j} \cup up[w[j].parent]
    IN up[k]
\* pathInWatches, pathInParent
Repeated(w, k, p) == p = w[k].Directory \/ \E j \in Ancestors(w, k) : findWatcher(w, j, p) # {}

New(p, parent) ==
    LET list == filesInfoFromPath(p)
        names == Sorted(Files2(list))
    IN [node |-> NodeAt(fs, p), Directory |-> p, parent |-> parent, hit |-> FALSE,
        DirectoryInfo |-> FileInfo(p), mDirSnap |-> list,
        mChangeList |-> [i \in 1..Len(names) |-> Entry(list[names[i]], names[i])]]

\* addWatch and addAll: a watcher for p and for every directory below, of
\* which the listener is told; it is not told of files.
addWatch(s, k, p) ==
    LET below == {q \in Below(fs, p) : isDirectory(q)}
        order == <<p>> \o ParentsFirst(below)
        number(q) == Cardinality(DOMAIN s.w) - 1 + CHOOSE i \in DOMAIN order : order[i] = q
        fresh == [c \in {number(q) : q \in {p} \cup below} |->
                    LET q == order[c - Cardinality(DOMAIN s.w) + 1]
                    IN New(q, IF q = p THEN k ELSE number(Parent(q)))]
    IN IF ~isDirectory(p) \/ Repeated(s.w, k, p) THEN s
       ELSE FoldLeft(LAMBDA t, q : handleAction(t, "Add", q, fs[q]),
               [s EXCEPT !.w = fresh @@ @,
                         !.silent = @ \cup ({fs[q].node : q \in Below(fs, p)} \cap Files)],
               ParentsFirst(below))

\* The watcher and all below it get the new path, and their lists are sorted.
MovedTo(w, d) ==
    [w EXCEPT !.Directory = d, !.DirectoryInfo = FileInfo(d),
              !.mChangeList = SortSeq(@, comparator)]
\* Mutant: the watcher alone.
moveAlone(s, k, p, p2) ==
    [s EXCEPT !.w = [c \in DOMAIN @ |->
        IF c \in findWatcher(s.w, k, p) THEN MovedTo(@[c], p2) ELSE @[c]]]
moveDirectory(s, k, p, p2) ==
    LET Under(c) == \E j \in findWatcher(s.w, k, p) : j \in Ancestors(s.w, c)
    IN [s EXCEPT !.w = [c \in DOMAIN @ |->
            IF Under(c) THEN MovedTo(@[c], Rebase(@[c].Directory, p, p2)) ELSE @[c]]]

\* A directory whose own attributes have changed is told to the listener, at
\* once also while actions are collected.
sendDirChanged(s, k) ==
    LET d == s.w[k].Directory
        t == [s EXCEPT !.w[k].DirectoryInfo = FileInfo(d)]
    IN IF same(FileInfo(d), s.w[k].DirectoryInfo) THEN s
       ELSE [t EXCEPT !.view = follow(@, Event("Modified", d, d, FileInfo(d)))]

\* A deleted directory is looked for without the slash a watcher's Directory
\* ends with (311): its watcher is never found, and stays.
rescan(s, k) ==
    LET d == s.w[k].Directory
        new == filesInfoFromPath(d)
        old == s.w[k].mDirSnap
        diff == scan(d, old)
        At(n) == Append(d, n)
        Each(F(_, _), t, S) == FoldLeft(F, t, Sorted(S))
        FileCreated(t, n) == addFile(t, k, n, TRUE)
        Modified(t, n) == handleAction(t, "Modified", At(n), new[n])
        FileDeleted(t, n) == removeFile(t, k, n, TRUE)
        Moved(t, n) == handleMoved(t, At(diff.moved[n]), At(n), new[n])
        FileMoved(t, n) ==
            addFile(removeFile(Moved(t, n), k, diff.moved[n], FALSE), k, n, FALSE)
        DirCreated(t, n) == handleAction(addWatch(t, k, At(n)), "Add", At(n), new[n])
        DirDeleted(t, n) == handleAction(t, "Delete", At(n), old[n])
        DirMoved(t, n) == Moved(moveDirectory(t, k, At(diff.moved[n]), At(n)), n)
        s0 == [sendDirChanged(s, k) EXCEPT !.w[k].mDirSnap = new]
        s1 == Each(FileCreated, s0, diff.created \cap Files2(new))
        s2 == Each(Modified, s1, diff.modified \cap Files2(new))
        s3 == Each(FileDeleted, s2, diff.deleted \cap Files2(old))
        s4 == Each(FileMoved, s3, DOMAIN diff.moved \cap Files2(new))
        s5 == Each(DirCreated, s4, diff.created \cap Dirs2(new))
        s6 == Each(Modified, s5, diff.modified \cap Dirs2(new))
        s7 == Each(DirDeleted, s6, diff.deleted \cap Dirs2(old))
    IN IF d # Top /\ ~isDirectory(d) THEN s
       ELSE Each(DirMoved, s7, DOMAIN diff.moved \cap Dirs2(new))

FileGone(s, k, name) ==
    removeFile([s EXCEPT !.w[k].mDirSnap = removeEntry(@, name)], k, name, TRUE)
FileChanged(s, k, name) ==
    LET p == Append(s.w[k].Directory, name)
        i == CHOOSE j \in DOMAIN s.w[k].mChangeList : s.w[k].mChangeList[j].name = name
        info == FileInfo(p)
    IN IF same(info, s.w[k].mChangeList[i].info) THEN s
       ELSE handleAction([s EXCEPT !.w[k].mChangeList[i].info = info,
                                   !.w[k].mDirSnap = updateFile(@, name, info)], "Modified", p, info)

\* WatcherKqueue::watch, its own part: the notes of the files, then a scan.
needScan(k) ==
    \/ watchers[k].hit
    \/ \E i \in DOMAIN watchers[k].mChangeList : watchers[k].mChangeList[i].notes = {"RENAME"}
takeNotes(s, k) ==
    LET list == s.w[k].mChangeList
        noted == SelectSeq(list, LAMBDA e : e.notes # {})
        quiet == [s EXCEPT !.w[k].hit = FALSE,
                           !.w[k].mChangeList = [i \in DOMAIN @ |-> [@[i] EXCEPT !.notes = {}]]]
        Handle(t, e) ==
            CASE "DELETE" \in e.notes -> FileGone(t, k, e.name)
              [] "DELETE" \notin e.notes /\ "WRITE" \in e.notes -> FileChanged(t, k, e.name)
              [] OTHER -> t
        s1 == FoldLeft(Handle, quiet, noted)
    IN IF needScan(k) THEN rescan(s1, k) ELSE s1

-----------------------------------------------------------------------------
(* A pass.                                                                 *)

\* Children before parents.
PassOrder ==
    LET after[k \in DOMAIN watchers] ==
            FoldLeft(LAMBDA order, c : order \o after[c], << >>, Sorted(Children(watchers, k))) \o <<k>>
    IN after[0]

startPass ==
    /\ todo = << >>
    /\ todo' = PassOrder /\ clean' = TRUE /\ mNeedsRecursiveRescan' = FALSE
    /\ UNCHANGED <<tree, watchers, options, rescanning, mActionBatch, view, silent>>

Turn == [w |-> watchers, view |-> view, out |-> mActionBatch, silent |-> silent]

\* The end of the root's watch: what is collected is looked through for moves.
endPass(s) ==
    /\ mActionBatch' = << >>
    /\ view' = FoldLeft(follow, s.view, dispatch(s.out, TRUE))
    /\ since' = IF clean THEN {} ELSE since
    /\ rescanning' = FALSE
goOn(s) == mActionBatch' = s.out /\ view' = s.view /\ UNCHANGED since

\* Mutant: only the directories that had notes are listed.
neverRescan(needed) == FALSE
mustRescan(needed) == needed

watch ==
    LET k == Head(todo)
        s == takeNotes(Turn, k)
        needed == mNeedsRecursiveRescan \/ (mCollectActions /\ needScan(k))
    IN /\ todo # << >> /\ ~rescanning
       /\ watchers' = s.w /\ silent' = s.silent /\ mNeedsRecursiveRescan' = needed
       /\ IF Tail(todo) # << >> THEN goOn(s) /\ todo' = Tail(todo) /\ UNCHANGED rescanning
          ELSE IF mustRescan(needed) THEN goOn(s) /\ todo' = <<0>> /\ rescanning' = TRUE
          ELSE endPass(s) /\ todo' = << >>
       /\ UNCHANGED <<fs, used, ops, clean, options>>

rescanTree ==
    LET s == rescan(Turn, Head(todo))
        rest == Sorted(Children(s.w, Head(todo))) \o Tail(todo)
    IN /\ todo # << >> /\ rescanning
       /\ watchers' = s.w /\ silent' = s.silent
       /\ todo' = rest
       /\ IF rest = << >> THEN endPass(s) ELSE goOn(s) /\ UNCHANGED rescanning
       /\ UNCHANGED <<fs, used, ops, clean, options, mNeedsRecursiveRescan>>

Init ==
    /\ TreeInit
    /\ watchers = [k \in {0} |-> New(Top, 0)]
    /\ mReportCrossDirectoryMoves \in Modes /\ setting \in Settings
    /\ todo = << >> /\ rescanning = FALSE /\ mNeedsRecursiveRescan = FALSE
    /\ mActionBatch = << >>
    /\ clean = TRUE /\ view = << >> /\ silent = {}
Next == Change \/ startPass \/ watch \/ rescanTree
Spec == Init /\ [][Next]_vars

-----------------------------------------------------------------------------
(* Properties.                                                             *)

Settled == since = {} /\ todo = << >>

\* A directory that is deleted, also for being renamed since its own time has
\* moved, leaves its watcher behind (rescan): the next directory of that name is
\* not watched, nor is what is below it, and the old one's files are reported
\* under the name it had.
LeftBehind(k) ==
    LET d == watchers[k].Directory
    IN d # Top /\ ~(d \in DOMAIN fs /\ fs[d].node = watchers[k].node)
Shadowed(p) == \E k \in DOMAIN watchers : LeftBehind(k) /\ IsPrefix(watchers[k].Directory, p)

\* The list loses its order when an entry is taken out, and bsearch may then miss
\* one (WatcherKqueue.cpp:213-259): it stays when its file is gone, and the Delete
\* is never sent, as the file was taken out of the snapshot before (403).
Stale(p) ==
    \E k \in DOMAIN watchers :
        /\ watchers[k].Directory = Parent(p)
        /\ \E i \in DOMAIN watchers[k].mChangeList :
             LET e == watchers[k].mChangeList[i]
             IN e.name = Last(p) /\ ~(p \in DOMAIN fs /\ fs[p].node = e.vnode)

\* A pass reports what is gone, but under a name of which something stayed.
GoneTold == \A p \in DOMAIN view \ DOMAIN fs : Shadowed(p) \/ Stale(p)

\* Once a pass has met no change every file has its vnode in the list of its
\* directory's watcher, or none of its changes would be noticed, and the listener
\* has no file that is gone; but for names of which an entry has stayed.
FilesWatched ==
    Settled =>
        /\ GoneTold
        /\ \A k \in DOMAIN watchers : LeftBehind(k) \/
            \A name \in Files2(filesInfoFromPath(watchers[k].Directory)) :
                LET p == Append(watchers[k].Directory, name)
                IN Stale(p) \/ \E i \in DOMAIN watchers[k].mChangeList :
                                 /\ watchers[k].mChangeList[i].name = name
                                 /\ watchers[k].mChangeList[i].vnode = fs[p].node

\* Once a pass has met no change every other directory has a watcher with its
\* path: after changes at any time, a rename within a directory before the pass
\* or a move to another one before or during it.
AllCovered ==
    Settled => \A p \in DirPaths : Shadowed(p) \/
        \E k \in DOMAIN watchers : watchers[k].Directory = p /\ watchers[k].node = NodeAt(fs, p)

\* The listener then has the tree, with the last attributes of every entry, but
\* for files that came with a directory, what a watcher that was left behind
\* hides or reports, and names of which an entry has stayed in a list.
ViewIsTree ==
    Settled =>
        /\ GoneTold
        /\ \A p \in DOMAIN fs : \/ p \in DOMAIN view /\ view[p] = fs[p]
                                \/ fs[p].node \in silent \/ Shadowed(p) \/ Stale(p)

\* What is moved from one directory to another is never reported as deleted,
\* whatever part of the pass has been done by then (rescanTree, 453-462), unless
\* it took the place of a file, which then is modified.  (With reuse an entry of
\* the list may still have the inode, from a file that was deleted.)
NoDelete ==
    [][ mCollectActions /\ ~setting.reuse /\ since \subseteq {"rename", "move"} /\ todo # << >> /\ todo' = << >> =>
          LET s == IF rescanning THEN rescan(Turn, Head(todo)) ELSE takeNotes(Turn, Head(todo))
              told == dispatch(s.out, TRUE)
              About(act, node) == {i \in DOMAIN told : told[i].act = act /\ told[i].entry.node = node}
          IN \A p \in DOMAIN fs : About("Delete", fs[p].node) # {} => About("Modified", fs[p].node) # {} ]_vars
=============================================================================
