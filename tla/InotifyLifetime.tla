--------------------------- MODULE InotifyLifetime ---------------------------
(***************************************************************************)
(* Lifetime of the watch objects of the Linux backend (FileWatcherInotify).*)
(*                                                                         *)
(* The worker thread (run) reads batches of kernel events, looks a watch   *)
(* object up under mWatchesLock, lets go of the lock, and keeps using the  *)
(* bare pointer: across callbacks, across other events of the batch, and   *)
(* while application threads add and remove watches.  What makes that      *)
(* sound is a protocol between the two locks and mDeletedWatches: a removed*)
(* object is parked there and only the worker frees it, at the end of an   *)
(* iteration of its loop.  This module is that protocol.                   *)
(*                                                                         *)
(* Data is abstracted.  There are no paths and no file system: wherever    *)
(* the code selects watches by a path (an erased subdirectory, the watches *)
(* below a directory that moved away) any watch may be selected, so what   *)
(* holds here holds for every file system and every event sequence.        *)
(* InotifyTree models paths.  A section under mWatchesLock is one atomic   *)
(* step: the code makes no callback and takes no other contended lock      *)
(* inside one.                                                             *)
(***************************************************************************)
EXTENDS Naturals, Sequences

CONSTANTS
    Clients,    \* application threads
    Worker,     \* the thread started by watch()
    Objs,       \* addresses of WatcherInotify objects, each allocated once
    Wds,        \* native watch descriptors
    Cookies,    \* move cookies that can be open in one batch
    Null,
    MaxBatch,   \* bound: events of one read batch, coalesced destinations aside
    CrossMoves, \* Options::ReportCrossDirectoryMoves
    Synthetic   \* Options::LinuxProduceSyntheticEvents

ASSUME LifetimeAssumption ==
    /\ Worker \notin Clients
    /\ Null \notin Clients \cup {Worker} \cup Objs \cup Wds
    /\ MaxBatch \in Nat
    /\ CrossMoves \in BOOLEAN
    /\ Synthetic \in BOOLEAN

Threads == Clients \cup {Worker}
Actions == {"modified", "added", "moved", "create", "delete"}

VARIABLES
    mInitOK,         \* cleared by the destructor
    life,            \* "alive", "joining" (in the destructor), "gone"
    owner,           \* thread holding mInitLock
    mWatches,        \* descriptor -> watch object
    mRealWatches,    \* descriptor -> watch object, explicit watches only
    mDeletedWatches, \* removed, not freed yet
    freed,           \* objects whose memory was released
    obj,             \* fields of each object; wd = Null until it is allocated
    call,            \* per thread: the stack of addWatch frames
    adding,          \* per thread: an inotify_add_watch not yet registered
    revisits,        \* history: threads whose addWatch was given the descriptor
                     \* of a directory it is still inside of
    wpc,             \* where the worker is in run() and handleAction()
    cur,             \* curWatcher, and the watch argument of handleAction
    action,          \* the action being handled
    pending,         \* pendingMoves: cookie -> source object, destination wd
    erase,           \* eraseWatches of emitMovedOutside still to be visited
    callbacks,       \* listener calls left in the current handleAction
    count            \* events taken from the current batch

control == <<mInitOK, life>>
tables  == <<mWatches, mRealWatches, mDeletedWatches, freed, obj>>
adds    == <<call, adding, revisits>>
event   == <<cur, action, callbacks>>
batch   == <<pending, erase, count>>
vars    == <<control, owner, tables, adds, wpc, event, batch>>

Watch == [wd : Wds \cup {Null}, parent : Objs \cup {Null},
          id : Wds \cup {Null}, recursive : BOOLEAN]
Frame == [obj : Objs, phase : {"notify", "recurse"}, internal : BOOLEAN]
Request == [wd : Wds, parent : Objs \cup {Null}, internal : BOOLEAN,
            recursive : BOOLEAN]
NoRequest == [wd |-> Null]
Move == [src : Objs, dst : Wds]
NoMove == [src |-> Null]

Places == {"off", "poll", "dispatch", "outside", "handle", "enter",
           "check", "callback", "prune", "free", "exit"}

-----------------------------------------------------------------------------
(* State functions.                                                        *)

Live == {mWatches[w] : w \in Wds} \ {Null}
Created == {o \in Objs : obj[o].wd # Null}

Top(t) == call[t][Len(call[t])]
FramesOf(t) == {call[t][i].obj : i \in 1..Len(call[t])}
Busy(t) == call[t] # <<>> \/ adding[t] # NoRequest

\* The worker runs listener code: in a callback of handleAction, or in a
\* synthetic Add that addWatch emits while it registers a new directory.
InCallback ==
    /\ adding[Worker] = NoRequest
    /\ IF call[Worker] = <<>> THEN wpc = "callback" ELSE Top(Worker).phase = "notify"

\* Who may enter the public interface, and get mInitLock (it is recursive).
CanCall(t) ==
    /\ mInitOK
    /\ IF t = Worker THEN InCallback ELSE ~Busy(t)
    /\ owner \in {Null, t}

\* WatcherInotify::inParentTree as a set: the objects whose chain of Parent
\* pointers reaches p.  It is the least set closed under "my Parent is p, or is
\* a member"; the loop never gets past an object that has been freed.
InTree(p) ==
    LET Closed(S) == \A x \in Objs :
            obj[x].parent \in {p} \cup (S \ freed) => x \in S
    IN {o \in Objs : \A S \in SUBSET Objs : Closed(S) => o \in S}

\* The objects whose chain runs into a freed object before it reaches p: the
\* code then follows a stale Parent, and may or may not arrive at p.
AstrayFrom(p) ==
    LET Closed(S) == \A x \in Objs :
            obj[x].parent \in (S \cup freed) \ {p} => x \in S
    IN {o \in Objs : \A S \in SUBSET Objs : Closed(S) => o \in S}

-----------------------------------------------------------------------------
(* Removal.  The caller holds mInitLock and mWatchesLock.                  *)

\* Mutants: the objects are freed at once; mRealWatches keeps its entries.
RetireAtOnce(gone) ==
    /\ mWatches' = [w \in Wds |-> IF mWatches[w] \in gone THEN Null ELSE mWatches[w]]
    /\ mRealWatches' = [w \in Wds |-> IF mRealWatches[w] \in gone THEN Null
                                                                  ELSE mRealWatches[w]]
    /\ freed' = freed \cup gone
    /\ UNCHANGED <<mDeletedWatches, obj>>
RetireStale(gone) ==
    /\ mWatches' = [w \in Wds |-> IF mWatches[w] \in gone THEN Null ELSE mWatches[w]]
    /\ mDeletedWatches' = mDeletedWatches \cup gone
    /\ UNCHANGED <<mRealWatches, freed, obj>>

Retire(gone) ==
    /\ mWatches' = [w \in Wds |-> IF mWatches[w] \in gone THEN Null ELSE mWatches[w]]
    /\ mRealWatches' = [w \in Wds |-> IF mRealWatches[w] \in gone THEN Null
                                                                  ELSE mRealWatches[w]]
    /\ mDeletedWatches' = mDeletedWatches \cup gone
    /\ UNCHANGED <<freed, obj>>

\* An explicit recursive watch takes its tree along.  The tree is removed by
\* nested removeWatch calls, which do nothing once shutdown has begun.
removeWatchLocked(wd) ==
    LET watch == mWatches[wd] IN
    IF obj[watch].recursive /\ obj[watch].parent = Null /\ mInitOK
    THEN \E lost \in SUBSET (Live \cap AstrayFrom(watch)) :
            Retire({watch} \cup (Live \cap InTree(watch)) \cup lost)
    ELSE Retire({watch})

\* removeWatch by id or by path; a path may name any watched directory.
removeWatch(t) ==
    /\ CanCall(t)
    /\ \E wd \in Wds : mWatches[wd] # Null /\ removeWatchLocked(wd)
    /\ UNCHANGED <<control, owner, adds, wpc, event, batch>>

-----------------------------------------------------------------------------
(* addWatch.  One frame per level of the recursion over subdirectories.    *)

\* addWatch is given the descriptor of one of its own frames, or of the watch
\* it was called for.
noteRevisit(t, request) ==
    revisits' = IF mWatches[request.wd] \in FramesOf(t) \cup {request.parent}
                THEN revisits \cup {t} ELSE revisits

\* Mutant: the object a reused descriptor had is overwritten.
nativeAddOver(t, request) ==
    /\ Created # Objs
    /\ adding' = [adding EXCEPT ![t] = request]
    /\ \/ \A o \in Objs : obj[o].wd # request.wd
       \/ mWatches[request.wd] # Null
    /\ UNCHANGED <<tables, revisits>>

\* inotify_add_watch returns a new descriptor, or the descriptor the directory
\* already has: the old watch is then removed, whosever it is.  The directory
\* was moved while watched, or is reached a second time: through a followed
\* link, a bind mount, or a rename during the traversal.
nativeAdd(t, request) ==
    /\ Created # Objs
    /\ adding' = [adding EXCEPT ![t] = request]
    /\ \/ /\ \A o \in Objs : obj[o].wd # request.wd
          /\ UNCHANGED <<tables, revisits>>
       \/ /\ mWatches[request.wd] # Null
          /\ removeWatchLocked(request.wd)
          /\ noteRevisit(t, request)

\* The public addWatch.  mInitLock is kept until the outermost frame returns.
addWatch(t) ==
    /\ CanCall(t)
    /\ owner' = t
    /\ \E wd \in Wds, recursive \in BOOLEAN :
        nativeAdd(t, [wd |-> wd, parent |-> Null, internal |-> FALSE,
                      recursive |-> recursive])
    /\ UNCHANGED <<control, call, wpc, event, batch>>

\* The loop over the subdirectories of the directory just registered.
addSubdirectory(t) ==
    /\ call[t] # <<>> /\ adding[t] = NoRequest
    /\ Top(t).phase = "recurse" /\ obj[Top(t).obj].recursive
    /\ mInitOK
    /\ \E wd \in Wds :
        nativeAdd(t, [wd |-> wd, parent |-> Top(t).obj,
                      internal |-> Top(t).internal, recursive |-> TRUE])
    /\ UNCHANGED <<control, owner, call, wpc, event, batch>>

\* parent->ID.  What a parent that was freed has there may be anything.
parentIDs(parent) == IF parent \in freed THEN Wds ELSE {obj[parent].id}

\* new WatcherInotify, and its entries in mWatches and mRealWatches.
register(t) ==
    /\ adding[t] # NoRequest
    /\ \E o \in Objs \ Created :
        LET request == adding[t]
            root == request.parent = Null IN
        /\ \E id \in IF root THEN {request.wd} ELSE parentIDs(request.parent) :
            obj' = [obj EXCEPT ![o] =
                [wd |-> request.wd, parent |-> request.parent, id |-> id,
                 recursive |-> request.recursive]]
        /\ mWatches' = [mWatches EXCEPT ![request.wd] = o]
        /\ mRealWatches' = IF root THEN [mRealWatches EXCEPT ![request.wd] = o]
                                   ELSE mRealWatches
        /\ call' = [call EXCEPT ![t] = Append(@,
                [obj |-> o, internal |-> request.internal,
                 phase |-> IF Synthetic /\ request.internal /\ request.recursive
                           THEN "notify" ELSE "recurse"])]
    /\ adding' = [adding EXCEPT ![t] = NoRequest]
    /\ UNCHANGED <<control, owner, mDeletedWatches, freed, revisits, wpc, event, batch>>

\* The synthetic Add callbacks of the new directory are over.
endNotify ==
    /\ InCallback /\ call[Worker] # <<>>
    /\ call' = [call EXCEPT ![Worker][Len(call[Worker])].phase = "recurse"]
    /\ UNCHANGED <<control, owner, tables, adding, revisits, wpc, event, batch>>

\* A frame of addWatch returns.
returnAdd(t) ==
    /\ call[t] # <<>> /\ adding[t] = NoRequest
    /\ Top(t).phase = "recurse"
    /\ call' = [call EXCEPT ![t] = SubSeq(@, 1, Len(@) - 1)]
    /\ IF Len(call[t]) = 1
       THEN /\ revisits' = revisits \ {t}
            /\ owner' = IF t = Worker THEN owner ELSE Null
            /\ wpc' = IF t = Worker /\ wpc = "check" THEN "callback" ELSE wpc
       ELSE UNCHANGED <<revisits, owner, wpc>>
    /\ UNCHANGED <<control, tables, adding, event, batch>>

-----------------------------------------------------------------------------
(* The worker: run().                                                      *)

lookup(wd) == mWatches[wd]

\* poll() and read(); a timeout is a batch nothing is taken from.
readBatch ==
    /\ wpc = "poll"
    /\ wpc' = "dispatch" /\ count' = 0
    /\ UNCHANGED <<control, owner, tables, adds, event, pending, erase>>

MoreEvents == wpc = "dispatch" /\ erase = {} /\ count < MaxBatch

\* Anything but a move: look the watch up, let go of mWatchesLock, handle it.
\* An event of a descriptor that is not in mWatches is skipped.  That includes
\* IN_Q_OVERFLOW, whose descriptor is -1: InotifyTree has it.
dispatchEvent(wd, a) ==
    /\ MoreEvents
    /\ lookup(wd) # Null
    /\ count' = count + 1
    /\ cur' = lookup(wd) /\ action' = a /\ wpc' = "handle"
    /\ UNCHANGED <<control, owner, tables, adds, callbacks, pending, erase>>

\* Mutant: the event of a descriptor that is not watched is deferred too.
deferMoveUnchecked(wd, cookie, dst) ==
    /\ MoreEvents
    /\ lookup(dst) # Null
    /\ pending[cookie] = NoMove
    /\ pending' = [pending EXCEPT ![cookie] = [src |-> lookup(wd), dst |-> dst]]
    /\ count' = count + 1
    /\ UNCHANGED <<control, owner, tables, adds, wpc, event, erase>>

\* IN_MOVED_FROM whose destination is in this batch and in the same directory,
\* or in the same explicit watch with ReportCrossDirectoryMoves: kept until its
\* IN_MOVED_TO.
deferMove(wd, cookie, dst) ==
    /\ MoreEvents
    /\ lookup(wd) # Null /\ lookup(dst) # Null
    /\ \/ lookup(dst) = lookup(wd)
       \/ CrossMoves /\ obj[lookup(dst)].id = obj[lookup(wd)].id
    /\ pending[cookie] = NoMove
    /\ pending' = [pending EXCEPT ![cookie] = [src |-> lookup(wd), dst |-> dst]]
    /\ count' = count + 1
    /\ UNCHANGED <<control, owner, tables, adds, wpc, event, erase>>

\* Any other IN_MOVED_FROM: emitMovedOutside.
moveAway(wd) ==
    /\ MoreEvents
    /\ lookup(wd) # Null
    /\ count' = count + 1
    /\ cur' = lookup(wd) /\ wpc' = "outside"
    /\ UNCHANGED <<control, owner, tables, adds, action, callbacks, pending, erase>>

\* IN_MOVED_TO of a deferred source.  Its watch is looked up again: when it was
\* removed meanwhile the source is reported as moved outside.
finishMove(cookie) ==
    LET move == pending[cookie] IN
    /\ wpc = "dispatch" /\ erase = {} /\ move # NoMove
    /\ pending' = [pending EXCEPT ![cookie] = NoMove]
    /\ IF lookup(move.dst) = Null
       THEN cur' = move.src /\ wpc' = "outside" /\ UNCHANGED action
       ELSE cur' = lookup(move.dst) /\ wpc' = "handle" /\ action' = "moved"
    /\ UNCHANGED <<control, owner, tables, adds, callbacks, erase, count>>

\* emitMovedOutside collects the watches below the directory that moved away,
\* or reports a plain Delete when there is none.
collectMoved ==
    /\ wpc = "outside"
    /\ \E below \in SUBSET (Live \ {cur}) :
        IF below = {}
        THEN wpc' = "handle" /\ action' = "delete" /\ UNCHANGED <<cur, erase>>
        ELSE wpc' = "dispatch" /\ cur' = Null /\ erase' = below /\ UNCHANGED action
    /\ UNCHANGED <<control, owner, tables, adds, callbacks, pending, count>>

\* One Delete per collected watch, to the watch that now contains its Directory
\* (watcherContainsDirectory, looked up after the callbacks of the ones before).
eraseMoved(o) ==
    /\ wpc = "dispatch" /\ o \in erase
    /\ erase' = erase \ {o}
    /\ \/ \E containing \in Live :
            cur' = containing /\ wpc' = "handle" /\ action' = "delete"
       \/ UNCHANGED <<cur, wpc, action>>
    /\ UNCHANGED <<control, owner, tables, adds, callbacks, pending, count>>

\* Every event of the batch was replayed, so every deferred source was consumed.
endBatch ==
    /\ wpc = "dispatch" /\ erase = {}
    /\ \A cookie \in Cookies : pending[cookie] = NoMove
    /\ wpc' = "free"
    /\ UNCHANGED <<control, owner, tables, adds, event, batch>>

\* Mutant: the list is cleared and nothing is freed.
clearDeleted ==
    /\ wpc = "free"
    /\ mDeletedWatches' = {}
    /\ wpc' = IF mInitOK THEN "poll" ELSE "exit"
    /\ UNCHANGED <<control, owner, mWatches, mRealWatches, freed, obj, adds, event, batch>>

\* The end of the loop: free what was removed, and poll again unless shutdown
\* has begun.
freeDeleted ==
    /\ wpc = "free"
    /\ freed' = freed \cup mDeletedWatches /\ mDeletedWatches' = {}
    /\ wpc' = IF mInitOK THEN "poll" ELSE "exit"
    /\ UNCHANGED <<control, owner, mWatches, mRealWatches, obj, adds, event, batch>>

-----------------------------------------------------------------------------
(* handleAction, on the worker.                                            *)

\* The test of mInitOK comes before the lock is taken.
testInitOK ==
    /\ wpc = "handle"
    /\ IF mInitOK THEN wpc' = "enter" /\ UNCHANGED cur
                  ELSE wpc' = "dispatch" /\ cur' = Null
    /\ UNCHANGED <<control, owner, tables, adds, action, callbacks, batch>>

\* mInitLock is held from here to the return.  A created or moved-in entry is
\* covered before it is reported, and a moved-in one is reported twice.
enterAction ==
    /\ wpc = "enter" /\ owner = Null
    /\ owner' = Worker
    /\ wpc' = IF action \in {"create", "added"} THEN "check" ELSE "callback"
    /\ callbacks' = IF action = "added" THEN 2 ELSE 1
    /\ UNCHANGED <<control, tables, adds, cur, action, batch>>

\* checkForNewWatcher: the entry is a directory without a watch ...
checkForNewWatcher ==
    /\ wpc = "check" /\ ~Busy(Worker)
    /\ obj[cur].recursive
    /\ \E wd \in Wds : nativeAdd(Worker,
            [wd |-> wd, parent |-> cur, internal |-> TRUE, recursive |-> TRUE])
    /\ UNCHANGED <<control, owner, call, wpc, event, batch>>

\* ... or it is not, or it cannot be watched.
nothingToCover ==
    /\ wpc = "check" /\ ~Busy(Worker)
    /\ wpc' = "callback"
    /\ UNCHANGED <<control, owner, tables, adds, event, batch>>

leaveAction == owner' = Null /\ wpc' = "dispatch" /\ cur' = Null

\* The listener returns from a callback of handleAction.
endCallback ==
    /\ wpc = "callback" /\ ~Busy(Worker)
    /\ callbacks' = callbacks - 1
    /\ IF callbacks > 1
       THEN UNCHANGED <<owner, wpc, cur>>
       ELSE IF action = "delete" /\ obj[cur].recursive
            THEN wpc' = "prune" /\ UNCHANGED <<owner, cur>>
            ELSE leaveAction
    /\ UNCHANGED <<control, tables, adds, action, batch>>

\* After Delete, a recursive watch drops the watch of the deleted directory.
pruneDeleted ==
    /\ wpc = "prune"
    /\ \/ \E wd \in Wds : mWatches[wd] # Null /\ removeWatchLocked(wd)
       \/ UNCHANGED tables
    /\ leaveAction
    /\ UNCHANGED <<control, adds, action, callbacks, batch>>

-----------------------------------------------------------------------------
(* Start and destruction.                                                  *)

watch ==
    /\ life = "alive" /\ wpc = "off"
    /\ wpc' = "poll"
    /\ UNCHANGED <<control, owner, tables, adds, event, batch>>

\* The destructor begins.  The owner of the object makes no call meanwhile, but
\* the worker may be anywhere, and mInitLock is deliberately not taken.
destroy ==
    /\ life = "alive" /\ \A t \in Clients : ~Busy(t)
    /\ life' = "joining" /\ mInitOK' = FALSE
    /\ UNCHANGED <<owner, tables, adds, wpc, event, batch>>

\* The worker was joined (or never started): every object left is deleted.
destroyWatches ==
    /\ life = "joining" /\ wpc \in {"off", "exit"}
    /\ life' = "gone"
    /\ freed' = freed \cup Live \cup mDeletedWatches
    /\ mWatches' = [w \in Wds |-> Null] /\ mDeletedWatches' = {}
    /\ UNCHANGED <<mInitOK, owner, mRealWatches, obj, adds, wpc, event, batch>>

\* The object is gone; nothing runs any more.
terminated == life = "gone" /\ UNCHANGED vars

-----------------------------------------------------------------------------
Init ==
    /\ mInitOK = TRUE /\ life = "alive" /\ owner = Null
    /\ mWatches = [w \in Wds |-> Null] /\ mRealWatches = [w \in Wds |-> Null]
    /\ mDeletedWatches = {} /\ freed = {}
    /\ obj = [o \in Objs |-> [wd |-> Null, parent |-> Null, id |-> Null,
                              recursive |-> FALSE]]
    /\ call = [t \in Threads |-> <<>>] /\ adding = [t \in Threads |-> NoRequest]
    /\ revisits = {}
    /\ wpc = "off" /\ cur = Null /\ action = "modified" /\ callbacks = 0
    /\ pending = [c \in Cookies |-> NoMove] /\ erase = {} /\ count = 0

\* addWatch and removeWatch, from an application thread or a listener.
Interface(t) == addWatch(t) \/ removeWatch(t)

\* What a thread inside addWatch does next.
AddStep(t) == addSubdirectory(t) \/ register(t) \/ returnAdd(t)

Dispatch ==
    \/ \E wd \in Wds, a \in Actions \ {"moved"} : dispatchEvent(wd, a)
    \/ \E wd, dst \in Wds, cookie \in Cookies : deferMove(wd, cookie, dst)
    \/ \E wd \in Wds : moveAway(wd)
    \/ \E cookie \in Cookies : finishMove(cookie)
    \/ collectMoved
    \/ \E o \in Objs : eraseMoved(o)

HandleAction ==
    \/ testInitOK \/ enterAction
    \/ checkForNewWatcher \/ nothingToCover
    \/ endNotify \/ endCallback \/ pruneDeleted

run == readBatch \/ Dispatch \/ HandleAction \/ endBatch \/ freeDeleted

Destructor == destroy \/ destroyWatches

Next ==
    \/ \E t \in Threads : Interface(t) \/ AddStep(t)
    \/ run \/ watch \/ Destructor \/ terminated

Spec == Init /\ [][Next]_vars

\* The worker and a thread inside addWatch keep running, listeners return, and
\* a mutex that is free is obtained.  Nobody has to call the interface.
Fairness ==
    /\ WF_vars(run)
    /\ \A t \in Threads : WF_vars(AddStep(t))
    /\ WF_vars(destroyWatches)

FairSpec == Spec /\ Fairness

-----------------------------------------------------------------------------
(* Properties.                                                             *)

TypeOK ==
    /\ mInitOK \in BOOLEAN
    /\ life \in {"alive", "joining", "gone"}
    /\ owner \in Threads \cup {Null}
    /\ mWatches \in [Wds -> Objs \cup {Null}]
    /\ mRealWatches \in [Wds -> Objs \cup {Null}]
    /\ mDeletedWatches \subseteq Objs
    /\ freed \subseteq Objs
    /\ obj \in [Objs -> Watch]
    /\ call \in [Threads -> Seq(Frame)]
    /\ adding \in [Threads -> Request \cup {NoRequest}]
    /\ revisits \subseteq Threads
    /\ wpc \in Places
    /\ cur \in Objs \cup {Null}
    /\ action \in Actions
    /\ callbacks \in 0..2
    /\ pending \in [Cookies -> Move \cup {NoMove}]
    /\ erase \subseteq Objs
    /\ count \in Nat

\* The watch objects a thread inside addWatch goes on with: its frames and the
\* parent of the watch being added.
AddRetained(t) ==
    (FramesOf(t) \cup (IF adding[t] = NoRequest THEN {} ELSE {adding[t].parent}))
    \ {Null}

\* What the worker goes on with in run() and handleAction(): the watch being
\* handled, the sources of the deferred moves, the list of emitMovedOutside.
BatchRetained == ({cur} \cup {pending[c].src : c \in Cookies} \cup erase) \ {Null}

\* What the calls that run go on with outlives them, shutdown included.  The
\* worker: all it keeps across callbacks, removals and the other events of a
\* batch, addWatch frames of its own too.  A client: the frames of its addWatch,
\* unless that very call was given the descriptor of a directory it is inside
\* of: it then retires its own frame, which the worker frees without mInitLock
\* while the call still reads it (parent->ID).  Not counted are the Parent
\* pointers the objects keep, which inParentTree follows into freed objects.
RetainedAlive ==
    /\ (BatchRetained \cup AddRetained(Worker)) \cap freed = {}
    /\ \A t \in Clients \ revisits : AddRetained(t) \cap freed = {}

\* Every object allocated by addWatch has exactly one owner, so none leaks and
\* none is deleted twice: mWatches under one descriptor, or mDeletedWatches, or
\* nobody once it is freed.
SingleOwner ==
    /\ \A v, w \in Wds : mWatches[v] = mWatches[w] => v = w \/ mWatches[v] = Null
    /\ Live \cap mDeletedWatches = {}
    /\ (Live \cup mDeletedWatches) \cap freed = {}
    /\ Created = Live \cup mDeletedWatches \cup freed

\* mRealWatches, which directories(), pathInWatches() and getWatchConflict()
\* dereference, holds exactly the explicit watches of mWatches, under the same
\* descriptor: a nested or a reused registration leaves no stale entry.
RealWatchesAgree ==
    life # "gone" => \A w \in Wds :
        mRealWatches[w] = IF mWatches[w] # Null /\ obj[mWatches[w]].parent = Null
                          THEN mWatches[w] ELSE Null

\* The destructor returns even when it starts while the worker waits for
\* mInitLock or runs a callback (inotify_watch_lifetime.cpp:27, watch_lifetime.cpp:75).
\* Once the worker runs, the memory of a removed watch is released: a removal
\* made by the listener while its batch goes on included.
Reclaimed ==
    /\ life = "joining" ~> life = "gone"
    /\ \A o \in Objs : (o \in mDeletedWatches /\ wpc # "off") ~> o \in freed
=============================================================================
