----------------------------- MODULE InotifyTree -----------------------------
(***************************************************************************)
(* What a recursive watch of the Linux backend covers and reports.         *)
(*                                                                         *)
(* inotify watches one directory, so a recursive watch is one native watch *)
(* per directory, kept up to date by the worker from events that describe  *)
(* a tree which has moved on since.  Three actors interleave: programs that*)
(* change the tree, the kernel that queues events for the marked           *)
(* directories, and efsw, whose client thread adds and removes the watch   *)
(* and whose worker reads batches and handles their events one by one.     *)
(*                                                                         *)
(* There is one explicit watch, recursive, on Root.  The entries are       *)
(* directories (a file is handled as a directory that is never entered).   *)
(* The ownership of the watch objects between threads, callbacks that call *)
(* back and shutdown are in InotifyLifetime.                               *)
(***************************************************************************)
EXTENDS Integers, FiniteSets, SequencesExt

CONSTANTS
    Dirs,       \* directories that can exist below Root or Outside
    Root,       \* the watched directory
    Outside,    \* a directory nothing watches
    Names,
    Synthetic,  \* Options::LinuxProduceSyntheticEvents
    Settings    \* what a behaviour is chosen from:
                \*   crossMoves  Options::ReportCrossDirectoryMoves
                \*   kinds       the changes programs and the client make
                \*   racing      those they also make while efsw has events to handle
                \*   queueLimit  fs.inotify.max_queued_events
                \*   maxOps      bound: changes of the tree

Kinds == {"mkdir", "rmdir", "rename", "replace", "move", "moveOut", "moveIn", "remove"}

ASSUME TreeAssumption ==
    /\ Root # Outside /\ {Root, Outside} \cap Dirs = {}
    /\ Synthetic \in BOOLEAN
    /\ Settings \subseteq [crossMoves : BOOLEAN, kinds : SUBSET Kinds, racing : SUBSET Kinds,
                            queueLimit : Nat, maxOps : Nat]

VARIABLES
    loc,      \* the tree: the entry of each directory
    mark,     \* kernel: the watch descriptor of a directory, 0 for none
    queue,    \* kernel: events not read yet
    ops,      \* changes made so far
    setting,  \* of this behaviour
    objs,     \* WatcherInotify objects; "live" ones are those in mWatches
    frames,   \* the recursion of the addWatch in progress
    adding,   \* an inotify_add_watch not yet registered
    session,  \* the client: "new", "adding", "watching", "removed"
    wpc,      \* the worker: "poll", "dispatch", "handle", "cover"
    events,   \* the rest of the batch
    pending,  \* pendingMoves
    act,      \* the event being handled
    view,     \* the listener's idea of the tree, from its callbacks
    missed,   \* handleMissedFileActions was called
    lost      \* ghost: the kernel dropped an event

disk   == <<loc, ops, setting>>
kernel == <<mark, queue, lost>>
adds   == <<frames, adding>>
worker == <<wpc, events, pending, act>>
told   == <<view, missed>>
vars   == <<disk, kernel, objs, adds, session, worker, told>>

Unborn == [born |-> FALSE]
Gone == [born |-> TRUE]
NoAdd == [wd |-> 0]
NoAct == [kind |-> "none"]

-----------------------------------------------------------------------------
(* The tree.  A path is the sequence of names below Root.                  *)

Placed == {d \in Dirs : loc[d] \notin {Unborn, Gone}}
Exists == Placed \cup {Root, Outside}
Children(p) == {d \in Placed : loc[d].dir = p}
Entry(p, n) == {d \in Children(p) : loc[d].name = n}

\* The chain of directories from d up to Root or Outside.
Chain(d) ==
    LET up[x \in Exists] == IF x \in Placed THEN Append(up[loc[x].dir], x) ELSE <<x>>
    IN up[d]
Attached == {d \in Exists : Head(Chain(d)) = Root}
PathOf(d) == [i \in 1..(Len(Chain(d)) - 1) |-> loc[Chain(d)[i + 1]].name]
At(path) == {d \in Attached : PathOf(d) = path}
Tree == {PathOf(d) : d \in Attached} \ {<<>>}

-----------------------------------------------------------------------------
(* The kernel's queue and the changes of the tree.                         *)

Overflow == [wd |-> -1, mask |-> "overflow", name |-> ""]

Post(q, event) ==
    IF event.wd = 0 THEN q
    ELSE IF Len(q) < setting.queueLimit THEN Append(q, event)
    ELSE IF Contains(q, Overflow) THEN q
    ELSE Append(q, Overflow)

Notify(first, second) ==
    /\ queue' = Post(Post(queue, first), second)
    /\ lost' = (lost \/ Contains(queue', Overflow))
NoEvent == [wd |-> 0]

Settled == /\ wpc = "poll" /\ queue = <<>> /\ frames = <<>> /\ adding = NoAdd
           /\ \A i \in DOMAIN objs : objs[i].state # "deleted"
May(kind) == kind \in setting.kinds /\ (kind \in setting.racing \/ Settled)
Change(kind) ==
    /\ May(kind) /\ ops < setting.maxOps /\ ops' = ops + 1
    /\ UNCHANGED <<setting, objs, adds, session, worker, told>>

mkdir(d, p, n) ==
    /\ Change("mkdir")
    /\ loc[d] = Unborn /\ p \in Attached /\ Entry(p, n) = {}
    /\ loc' = [loc EXCEPT ![d] = [dir |-> p, name |-> n]]
    /\ Notify([wd |-> mark[p], mask |-> "create", name |-> n], NoEvent)
    /\ UNCHANGED mark

rmdir(d) ==
    /\ Change("rmdir")
    /\ d \in Placed /\ Children(d) = {}
    /\ loc' = [loc EXCEPT ![d] = Gone]
    /\ mark' = [mark EXCEPT ![d] = 0]
    /\ Notify([wd |-> mark[loc[d].dir], mask |-> "delete", name |-> loc[d].name], NoEvent)

\* rename(2): IN_MOVED_FROM and IN_MOVED_TO with one cookie.  An empty directory
\* at the destination is replaced, and only its own mark would tell.
rename(d, p, n) ==
    LET old == loc[d]
        kind == IF Entry(p, n) # {} THEN "replace"
                ELSE IF p \notin Attached THEN "moveOut"
                ELSE IF d \notin Attached THEN "moveIn"
                ELSE IF p = old.dir THEN "rename" ELSE "move"
    IN
    /\ d \in Placed /\ p \in Exists
    /\ Change(kind)
    /\ old # [dir |-> p, name |-> n] /\ ~Contains(Chain(p), d)
    /\ \A x \in Entry(p, n) : Children(x) = {}
    /\ loc' = [x \in Dirs |-> IF x = d THEN [dir |-> p, name |-> n]
                              ELSE IF x \in Entry(p, n) THEN Gone ELSE loc[x]]
    /\ mark' = [x \in DOMAIN mark |-> IF x \in Entry(p, n) THEN 0 ELSE mark[x]]
    /\ Notify([wd |-> mark[old.dir], mask |-> "from", name |-> old.name, cookie |-> ops],
              [wd |-> mark[p], mask |-> "to", name |-> n, cookie |-> ops])

-----------------------------------------------------------------------------
(* The watch objects.                                                      *)

Live == {i \in DOMAIN objs : objs[i].state = "live"}
Lookup(wd) == {i \in Live : objs[i].wd = wd}
WithDirectory(path) == {i \in Live : objs[i].directory = path}
Below(path) == {i \in Live : IsPrefix(path, objs[i].directory)}

SetState(ids, state) ==
    [i \in DOMAIN objs |-> IF i \in ids THEN [objs[i] EXCEPT !.state = state] ELSE objs[i]]

\* removeWatchLocked of watches that are not roots, with inotify_rm_watch.
Unwatch(ids) ==
    /\ objs' = SetState(ids, "deleted")
    /\ mark' = [d \in DOMAIN mark |-> IF \E i \in ids : objs[i].wd = mark[d] THEN 0 ELSE mark[d]]

\* Mutant: only the children of the watch are in its tree.
ParentTreeFlat(root) ==
    [i \in 0..Len(objs) |->
        IF i # 0 /\ objs[i].state # "freed" /\ objs[i].parent = root THEN "inside" ELSE "apart"]

\* inParentTree: where the chain of Parent pointers of a watch leads.
ParentTree(root) ==
    LET to[i \in 0..Len(objs)] ==
            IF i = 0 THEN "apart"
            ELSE IF objs[i].state = "freed" THEN "astray"
            ELSE IF objs[i].parent = root THEN "inside" ELSE to[objs[i].parent]
    IN to

-----------------------------------------------------------------------------
(* addWatch.                                                               *)

\* inotify_add_watch: a directory keeps the descriptor it has.
nativeAdd(path, parent) ==
    \E d \in At(path) :
        LET wd == IF mark[d] # 0 THEN mark[d] ELSE Len(objs) + 1 IN
        /\ mark' = [mark EXCEPT ![d] = wd]
        /\ adding' = [wd |-> wd, directory |-> path, parent |-> parent]

\* Mutants: the entries of the directory are not visited; they are not reported;
\* the watch the descriptor had stays.
registerFlat ==
    /\ adding # NoAdd
    /\ objs' = Append(SetState(Lookup(adding.wd), "deleted"),
                 [wd |-> adding.wd, directory |-> adding.directory,
                  parent |-> adding.parent, state |-> "live"])
    /\ frames' = Append(frames, [id |-> Len(objs) + 1, todo |-> {}])
    /\ adding' = NoAdd
    /\ UNCHANGED <<disk, kernel, session, worker, told>>
registerSilent ==
    /\ adding # NoAdd
    /\ LET listed == UNION {Children(d) : d \in At(adding.directory)} IN
       frames' = Append(frames, [id |-> Len(objs) + 1, todo |-> {loc[d].name : d \in listed}])
    /\ objs' = Append(SetState(Lookup(adding.wd), "deleted"),
                 [wd |-> adding.wd, directory |-> adding.directory,
                  parent |-> adding.parent, state |-> "live"])
    /\ adding' = NoAdd
    /\ UNCHANGED <<disk, kernel, session, worker, told>>
registerOver ==
    /\ adding # NoAdd
    /\ LET listed == UNION {Children(d) : d \in At(adding.directory)} IN
       frames' = Append(frames, [id |-> Len(objs) + 1, todo |-> {loc[d].name : d \in listed}])
    /\ objs' = Append(objs, [wd |-> adding.wd, directory |-> adding.directory,
                             parent |-> adding.parent, state |-> "live"])
    /\ adding' = NoAdd
    /\ UNCHANGED <<disk, kernel, session, worker, told>>

\* The object is registered, over the one the descriptor had, and only then are
\* the entries of the directory listed, and reported if it is a new directory.
register ==
    /\ adding # NoAdd
    /\ LET listed == UNION {Children(d) : d \in At(adding.directory)}
           names == {loc[d].name : d \in listed}
       IN
       /\ objs' = Append(SetState(Lookup(adding.wd), "deleted"),
                    [wd |-> adding.wd, directory |-> adding.directory,
                     parent |-> adding.parent, state |-> "live"])
       /\ frames' = Append(frames, [id |-> Len(objs) + 1, todo |-> names])
       /\ view' = IF wpc = "cover" /\ Synthetic
                  THEN view \cup {Append(adding.directory, n) : n \in names} ELSE view
    /\ adding' = NoAdd
    /\ UNCHANGED <<disk, kernel, session, worker, missed>>

\* The next subdirectory of the listing; one that is gone by now is skipped.
addSubdirectory ==
    /\ adding = NoAdd /\ frames # <<>>
    /\ \E n \in Last(frames).todo :
        LET path == Append(objs[Last(frames).id].directory, n) IN
        /\ frames' = [frames EXCEPT ![Len(frames)].todo = @ \ {n}]
        /\ \/ nativeAdd(path, Last(frames).id)
           \/ At(path) = {} /\ UNCHANGED <<mark, adding>>
    /\ UNCHANGED <<disk, queue, lost, objs, session, worker, told>>

\* A frame returns.  The outermost one ends the client's addWatch, after which
\* the client lists the tree, or checkForNewWatcher, after which Add is reported.
returnAdd ==
    /\ adding = NoAdd /\ frames # <<>> /\ Last(frames).todo = {}
    /\ frames' = Front(frames)
    /\ IF Len(frames) > 1
       THEN UNCHANGED <<session, wpc, act, view>>
       ELSE IF wpc = "cover"
       THEN /\ view' = view \cup {Append(objs[act.id].directory, act.name)}
            /\ wpc' = "dispatch" /\ act' = NoAct
            /\ UNCHANGED session
       ELSE session' = "watching" /\ view' = Tree /\ UNCHANGED <<wpc, act>>
    /\ UNCHANGED <<disk, kernel, objs, adding, events, pending, missed>>

\* mInitLock: held by the client's addWatch, and by the worker in handleAction.
Locked == session = "adding" \/ wpc = "cover"

addWatch ==
    /\ session = "new" /\ ~Locked
    /\ session' = "adding"
    /\ nativeAdd(<<>>, 0)
    /\ UNCHANGED <<disk, queue, lost, objs, frames, worker, told>>

\* The client's removeWatch of the root, with its tree.  A chain that leads to a
\* freed object is undefined behaviour: it may or may not seem to be inside.
removeWatch ==
    /\ May("remove")
    /\ session = "watching" /\ ~Locked
    /\ session' = "removed"
    /\ \E root \in {i \in Live : objs[i].parent = 0} :
       LET to == ParentTree(root)
           inside == {i \in Live : to[i] = "inside"}
           astray == {i \in Live : to[i] = "astray"} IN
       \E some \in SUBSET astray : Unwatch({root} \cup inside \cup some)
    /\ UNCHANGED <<disk, queue, lost, adds, worker, told>>

-----------------------------------------------------------------------------
(* The worker: run().                                                      *)

FreeDeleted == objs' = SetState({i \in DOMAIN objs : objs[i].state = "deleted"}, "freed")

\* read() returns what is queued.  More may be queued while it copies, so a
\* batch can end anywhere, between the two events of a rename too.
readBatch ==
    /\ wpc = "poll" /\ queue # <<>>
    /\ \E n \in 1..Len(queue) :
        events' = SubSeq(queue, 1, n) /\ queue' = SubSeq(queue, n + 1, Len(queue))
    /\ wpc' = "dispatch"
    /\ UNCHANGED <<disk, mark, lost, objs, adds, session, pending, act, told>>

\* poll() times out.
pollTimeout ==
    /\ wpc = "poll" /\ queue = <<>>
    /\ FreeDeleted
    /\ UNCHANGED <<disk, kernel, adds, session, worker, told>>

endBatch ==
    /\ wpc = "dispatch" /\ events = <<>>
    /\ wpc' = "poll" /\ pending' = {}
    /\ FreeDeleted
    /\ UNCHANGED <<disk, kernel, adds, session, events, act, told>>

Consume == events' = Tail(events) /\ UNCHANGED <<disk, kernel, objs, adds, session, told>>
Handle(kind, id, name, from) ==
    /\ act' = [kind |-> kind, id |-> id, name |-> name, from |-> from]
    /\ wpc' = "handle"

\* The watch is looked up; an event of an unknown descriptor is skipped, unless
\* it completes a deferred move.  wd = -1 is unknown.
skipEvent ==
    /\ wpc = "dispatch" /\ events # <<>>
    /\ Lookup(Head(events).wd) = {}
    /\ Head(events).mask = "to" => \A p \in pending : p.cookie # Head(events).cookie
    /\ Consume
    /\ UNCHANGED <<wpc, pending, act>>

dispatchEvent ==
    /\ wpc = "dispatch" /\ events # <<>>
    /\ Head(events).mask \in {"create", "delete", "overflow"}
    /\ \E cur \in Lookup(Head(events).wd) :
        Handle(Head(events).mask, cur, Head(events).name, <<>>)
    /\ Consume
    /\ UNCHANGED pending

\* IN_MOVED_FROM: deferred when its destination is in the rest of the batch and
\* the pair can be one Moved, reported as moved outside otherwise.
movedFrom ==
    /\ wpc = "dispatch" /\ events # <<>> /\ Head(events).mask = "from"
    /\ LET event == Head(events)
           destinations == UNION {Lookup(e.wd) : e \in
               {e \in ToSet(Tail(events)) : e.mask = "to" /\ e.cookie = event.cookie}}
       IN \E cur \in Lookup(event.wd) :
          IF cur \in destinations \/ (setting.crossMoves /\ destinations # {})
          THEN /\ pending' = pending \cup
                    {[cookie |-> event.cookie, id |-> cur, name |-> event.name]}
               /\ UNCHANGED <<wpc, act>>
          ELSE Handle("outside", cur, event.name, <<>>) /\ UNCHANGED pending
    /\ Consume

movedTo ==
    /\ wpc = "dispatch" /\ events # <<>> /\ Head(events).mask = "to"
    /\ LET event == Head(events)
           cur == Lookup(event.wd)
           source == {p \in pending : p.cookie = event.cookie}
       IN
       /\ pending' = pending \ source
       /\ \/ /\ source = {}
             /\ \E c \in cur : Handle("added", c, event.name, <<>>)
          \/ /\ cur = {}
             /\ \E p \in source : Handle("outside", p.id, p.name, <<>>)
          \/ \E c \in cur, p \in source :
                Handle("moved", c, event.name, Append(objs[p.id].directory, p.name))
    /\ Consume

-----------------------------------------------------------------------------
(* handleAction.  It waits for mInitLock; the watch may be removed by then.*)

fpath == Append(objs[act.id].directory, act.name)

Forget(path) == {p \in view : ~IsPrefix(path, p)}
Rebase(path, from, to) == to \o SubSeq(path, Len(from) + 1, Len(path))

Handling(kinds) == wpc = "handle" /\ act.kind \in kinds /\ ~Locked
Done == wpc' = "dispatch" /\ act' = NoAct

\* checkForNewWatcher, before the listener is told.
coverNew ==
    /\ Handling({"create", "added"})
    /\ WithDirectory(fpath) = {}
    /\ nativeAdd(fpath, act.id)
    /\ wpc' = "cover"
    /\ UNCHANGED <<disk, queue, lost, objs, frames, session, events, pending, act, told>>

reportAdd ==
    /\ Handling({"create", "added"})
    /\ At(fpath) = {} \/ WithDirectory(fpath) # {}
    /\ view' = view \cup {fpath}
    /\ Done
    /\ UNCHANGED <<disk, kernel, objs, adds, session, events, pending, missed>>

\* Delete, and then the watch of the deleted directory is removed.  The branch of
\* IN_Q_OVERFLOW is here too: it is the one that needs a watch with wd = -1.
reportDeleteOrMissed ==
    /\ Handling({"delete", "overflow"})
    /\ IF act.kind = "overflow"
       THEN missed' = TRUE /\ UNCHANGED <<view, objs, mark>>
       ELSE /\ view' = Forget(fpath)
            /\ \/ WithDirectory(fpath) = {} /\ UNCHANGED <<objs, mark>>
               \/ \E i \in WithDirectory(fpath) : Unwatch({i})
            /\ UNCHANGED missed
    /\ Done
    /\ UNCHANGED <<disk, queue, lost, adds, session, events, pending>>

\* Moved, and then the Directory of the watches below follows, if the directory
\* is still where the event says.
reportMoved ==
    /\ Handling({"moved"})
    /\ view' = (Forget(act.from) \cap Forget(fpath)) \cup
               {Rebase(p, act.from, fpath) : p \in {act.from} \cup (view \ Forget(act.from))}
    /\ objs' = IF At(fpath) = {} THEN objs
               ELSE [i \in DOMAIN objs |->
                        IF i \in Below(act.from)
                        THEN [objs[i] EXCEPT !.directory = Rebase(@, act.from, fpath)]
                        ELSE objs[i]]
    /\ Done
    /\ UNCHANGED <<disk, kernel, adds, session, events, pending, missed>>

\* emitMovedOutside: a Delete for every watch below, deepest first, through the
\* watch that contains it, or one Delete when nothing below is watched.
reportOutside ==
    /\ Handling({"outside"})
    /\ LET below == Below(fpath) \ {act.id}
           contained == {i \in below : WithDirectory(Front(objs[i].directory)) # {}} IN
       IF below = {}
       THEN /\ act' = [act EXCEPT !.kind = "delete"]
            /\ UNCHANGED <<objs, mark, view, wpc>>
       ELSE /\ Unwatch(contained)
            /\ view' = {p \in view : \A i \in contained : ~IsPrefix(objs[i].directory, p)}
            /\ Done
    /\ UNCHANGED <<disk, queue, lost, adds, session, events, pending, missed>>

-----------------------------------------------------------------------------
Init ==
    /\ loc = [d \in Dirs |-> Unborn] /\ ops = 0 /\ setting \in Settings
    /\ mark = [d \in Dirs \cup {Root, Outside} |-> 0] /\ queue = <<>> /\ lost = FALSE
    /\ objs = <<>> /\ frames = <<>> /\ adding = NoAdd
    /\ session = "new"
    /\ wpc = "poll" /\ events = <<>> /\ pending = {} /\ act = NoAct
    /\ view = {} /\ missed = FALSE

Programs ==
    \/ \E d \in Dirs, p \in Exists, n \in Names : mkdir(d, p, n) \/ rename(d, p, n)
    \/ \E d \in Dirs : rmdir(d)

AddStep == register \/ addSubdirectory \/ returnAdd

handleAction ==
    \/ coverNew \/ reportAdd \/ reportDeleteOrMissed
    \/ reportMoved \/ reportOutside

run ==
    \/ readBatch \/ pollTimeout \/ endBatch
    \/ skipEvent \/ dispatchEvent \/ movedFrom \/ movedTo
    \/ handleAction

Next == Programs \/ addWatch \/ removeWatch \/ AddStep \/ run

Spec == Init /\ [][Next]_vars

\* The two threads of efsw keep running.
FairSpec == Spec /\ WF_vars(run) /\ WF_vars(AddStep)

-----------------------------------------------------------------------------
(* Properties.                                                             *)

\* Nothing but new directories and the client's removeWatch races with efsw, and
\* no event is dropped.
Calm == setting.racing \subseteq {"mkdir", "remove"} /\ ~lost
\* efsw has handled everything the kernel told it.
Quiet == Calm /\ session = "watching" /\ Settled

\* A recursive watch covers the whole tree: once the events are handled every
\* directory has a native watch, and a watch object that will receive its events.
\* The path efsw reports for a directory is where the directory is, and no watch
\* stays behind for a directory that left the tree.
AllCovered ==
    Quiet =>
        /\ \A d \in Attached : mark[d] # 0 /\ Lookup(mark[d]) # {}
        /\ \A i \in Live : \E d \in Attached :
                mark[d] = objs[i].wd /\ PathOf(d) = objs[i].directory

\* A listener that follows the callbacks, from a listing made when addWatch
\* returned, ends up with the tree.
ViewIsTree == Quiet => view = Tree

\* No native watch is leaked: whatever the races, a directory the kernel has
\* marked for efsw has exactly one watch object to receive its events.
MarksOwned ==
    adding = NoAdd => \A d \in Exists : mark[d] # 0 => Cardinality(Lookup(mark[d])) = 1

\* removeWatch leaves nothing of the tree in mWatches, at whatever point between
\* two calls of handleAction it comes: every watch the worker or addWatch made,
\* replaced or dropped before has a chain of Parent pointers that leads to the
\* root, and through no object that was freed.  This is while moves between
\* directories are a Delete and an Add: a watch that moves as one keeps its
\* Parent, and may outlive it.  It is of the call only: an action that waited for
\* mInitLock with the removed watch in hand (line 528) may add one afterwards.
RemovedAll ==
    [][Calm /\ ~setting.crossMoves /\ session = "watching" /\ session' = "removed"
        => Live' = {}]_vars

\* Every directory that stays in the tree is covered in the end.
EventuallyCovered ==
    \A d \in Dirs :
        (Calm /\ session = "watching" /\ d \in Attached) ~>
            \/ d \notin Attached \/ session = "removed"
            \/ mark[d] # 0 /\ Lookup(mark[d]) # {}

=============================================================================
