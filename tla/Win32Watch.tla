------------------------------ MODULE Win32Watch ------------------------------
(***************************************************************************)
(* The Windows backend: overlapped reads of directories, completed through *)
(* one port.                                                               *)
(*                                                                         *)
(* The system writes the changes of a directory into the buffer of its     *)
(* watch while a read is outstanding, so a watch that is removed is first  *)
(* retired, and freed when its read has come back.  The worker takes       *)
(* completions from the port, unpacks the changes and calls the listener,  *)
(* which may remove watches.  Changes carry a file id; with the option     *)
(* ReportCrossDirectoryMoves a removal waits for an addition with its id.  *)
(*                                                                         *)
(* A place is a pair of a directory and a name.  Changes of contents and   *)
(* the filter of repeated Modified events are left out.                    *)
(***************************************************************************)
EXTENDS Integers, FiniteSets, SequencesExt

CONSTANTS
    Objs,        \* WatcherStructWin32 objects; each is used once
    Files,       \* file ids
    Places,
    CrossMoves,  \* ReportCrossDirectoryMoves
    Extended,    \* the objects for which ReadDirectoryChangesExW works
    Reentrant,   \* listeners that are told of an entry may remove watches
    Reuse,       \* a place is taken again at once
    ReadsFail,   \* a read may fail to start (the directory is gone)
    BufferSize,  \* entries a buffer holds
    MaxOps       \* bound: changes of the tree

\* A completion posted for no watch, to wake the worker.
Nobody == "nobody"

ASSUME Win32Assumption ==
    /\ Nobody \notin Objs /\ CrossMoves \in BOOLEAN /\ Extended \subseteq Objs /\ Reentrant \in BOOLEAN
    /\ Reuse \in BOOLEAN /\ ReadsFail \in BOOLEAN
    /\ BufferSize \in Nat \ {0} /\ MaxOps \in Nat

VARIABLES
    at,      \* file -> its place
    ops,     \* changes so far
    obj,     \* the watch objects, and what the system keeps for them
    port,    \* completions not taken yet
    worker,  \* [pc, cur, rest]
    mInitOK,
    closing  \* the destructor: "no", "post", "join", "drain", "done"

vars == <<at, ops, obj, port, worker, mInitOK, closing>>

Unborn == <<"unborn">>
Gone == <<"gone">>
parentPath(place) == place[1]
Taken == {at[f] : f \in {g \in Files : at[g] \in Places}}

Fresh == [st |-> "new", StopNow |-> FALSE, IoPending |-> FALSE, read |-> FALSE,
          changes |-> << >>, PendingRenames |-> << >>, PendingRemovals |-> << >>,
          OldFileName |-> << >>, view |-> {}]

mWatches == {o \in Objs : obj[o].st = "live"}
mRetiredWatches == {o \in Objs : obj[o].st = "retired"}
\* The worker handles a completion, and listeners, under mWatchesLock.
Unlocked == worker.pc \notin {"entries", "refresh"}

-----------------------------------------------------------------------------
(* The system: changes, reads, completions.                                *)

Overflow == <<[act |-> "OVERFLOW"]>>
Put(o, entries) ==
    IF o.st # "live" \/ o.changes = Overflow THEN o
    ELSE IF Len(o.changes) + Len(entries) > BufferSize THEN [o EXCEPT !.changes = Overflow]
    ELSE [o EXCEPT !.changes = @ \o entries]
Entry(act, place, f) == [act |-> act, place |-> place, id |-> f]

Quiet(o) ==
    /\ obj[o].changes = << >> /\ obj[o].PendingRemovals = << >> /\ obj[o].PendingRenames = << >>
    /\ \A i \in DOMAIN port : port[i].obj # o
    /\ worker.cur # o
\* What the listener of o has not heard of, or hears of late.
Unheard(o) ==
    LET At(entries) == {entries[i].place : i \in DOMAIN entries}
    IN IF obj[o].changes = Overflow THEN Places
       ELSE At(obj[o].changes) \cup At(obj[o].PendingRemovals) \cup At(obj[o].PendingRenames)
            \cup UNION {At(port[i].entries) : i \in DOMAIN port} \cup At(worker.rest)
Free(place) ==
    place \notin Taken /\ (Reuse \/ \A o \in mWatches : place \notin Unheard(o))

Change(f, to, entries) ==
    /\ ops < MaxOps /\ ops' = ops + 1
    /\ at' = [at EXCEPT ![f] = to]
    /\ obj' = [o \in Objs |-> Put(obj[o], entries)]
    /\ UNCHANGED <<port, worker, mInitOK, closing>>

create(f, place) ==
    at[f] = Unborn /\ Free(place) /\ Change(f, place, <<Entry("ADDED", place, f)>>)
delete(f) ==
    at[f] \in Places /\ Change(f, Gone, <<Entry("REMOVED", at[f], f)>>)
\* Within a directory a rename, between directories a removal and an addition.
move(f, place) ==
    /\ at[f] \in Places /\ Free(place)
    /\ Change(f, place,
         IF parentPath(place) = parentPath(at[f])
         THEN <<Entry("RENAMED_OLD", at[f], f), Entry("RENAMED_NEW", place, f)>>
         ELSE <<Entry("REMOVED", at[f], f), Entry("ADDED", place, f)>>)

\* What has come by then, or no bytes if it was too much.
complete(o) ==
    /\ obj[o].read /\ obj[o].changes # << >>
    /\ IF obj[o].changes = Overflow
       THEN /\ port' = Append(port, [obj |-> o, entries |-> << >>])
            /\ obj' = [obj EXCEPT ![o].read = FALSE, ![o].changes = << >>]
       ELSE \E n \in 1..Len(obj[o].changes) :
              /\ port' = Append(port, [obj |-> o, entries |-> SubSeq(obj[o].changes, 1, n)])
              /\ obj' = [obj EXCEPT ![o].read = FALSE,
                                    ![o].changes = SubSeq(@, n + 1, Len(@))]
    /\ UNCHANGED <<at, ops, worker, mInitOK, closing>>

\* A hundred milliseconds pass.
Old(s) == SelectSeq(s, LAMBDA p : p.old)
Young(s) == SelectSeq(s, LAMBDA p : ~p.old)
Aged(s) == [i \in DOMAIN s |-> [s[i] EXCEPT !.old = TRUE]]
tick ==
    /\ \E o \in mWatches : \E p \in Range(obj[o].PendingRemovals \o obj[o].PendingRenames) : ~p.old
    /\ obj' = [o \in Objs |-> [obj[o] EXCEPT !.PendingRemovals = Aged(@), !.PendingRenames = Aged(@)]]
    /\ UNCHANGED <<at, ops, port, worker, mInitOK, closing>>

-----------------------------------------------------------------------------
(* Watches.                                                                *)

\* A read outstanding when the handle is closed comes back with no bytes.
StopWatch(o) == [o EXCEPT !.st = "retired", !.StopNow = TRUE, !.read = FALSE, !.changes = << >>]
Cancelled(S) ==
    LET reads == SetToSeq({o \in S : obj[o].read})
    IN [i \in DOMAIN reads |-> [obj |-> reads[i], entries |-> << >>]]
DestroyWatch(o) == [o EXCEPT !.st = "freed"]
\* Mutant: whether a read is outstanding or not.
releaseAtOnce(objects) ==
    [o \in Objs |-> IF objects[o].st = "retired" THEN DestroyWatch(objects[o]) ELSE objects[o]]
releaseRetiredWatches(objects) ==
    [o \in Objs |-> IF objects[o].st = "retired" /\ ~objects[o].IoPending
                    THEN DestroyWatch(objects[o]) ELSE objects[o]]

\* There is one directory here.
pathInWatches == mWatches # {}

\* CreateWatch and the first read, or a failure that leaves nothing.  The
\* listener's owner lists the directory then.
addWatch(o) ==
    /\ closing = "no" /\ Unlocked /\ obj[o].st = "new"
    /\ ~pathInWatches
    /\ obj' = [obj EXCEPT ![o] = [@ EXCEPT !.st = "live", !.IoPending = TRUE, !.read = TRUE,
                                           !.view = Taken]]
    /\ UNCHANGED <<at, ops, port, worker, mInitOK, closing>>

removeWatch(o) ==
    /\ obj[o].st = "live"
    /\ obj' = [obj EXCEPT ![o] = StopWatch(@)]
    /\ port' = port \o Cancelled({o})

removeByClient(o) ==
    /\ closing = "no" /\ Unlocked /\ removeWatch(o)
    /\ UNCHANGED <<at, ops, worker, mInitOK, closing>>

watch ==
    /\ closing = "no" /\ worker.pc = "none"
    /\ worker' = [worker EXCEPT !.pc = "reclaim"]
    /\ UNCHANGED <<at, ops, obj, port, mInitOK, closing>>

-----------------------------------------------------------------------------
(* Entries.  A watch with the listener's view is a record that every entry *)
(* changes.                                                                *)

Told(w, act, place, source) ==
    [w EXCEPT !.view =
        CASE act = "Add" -> @ \cup {place}
          [] act = "Delete" -> @ \ {place}
          [] act = "Moved" -> (@ \ {source}) \cup {place}]

\* FileWatcherWin32::handleAction
handleAction(w, act, place, oldFilename) ==
    LET source == IF oldFilename = << >> THEN w.OldFileName ELSE oldFilename
        v == [w EXCEPT !.OldFileName = << >>]
    IN CASE act = "RENAMED_OLD" -> [w EXCEPT !.OldFileName = place]
         [] act = "ADDED" -> Told(w, "Add", place, place)
         [] act = "REMOVED" -> Told(w, "Delete", place, place)
         [] act = "RENAMED_NEW" /\ source = << >> -> Told(v, "Add", place, place)
         [] act = "RENAMED_NEW" /\ source # << >> ->
              IF parentPath(source) # parentPath(place) /\ ~CrossMoves
              THEN Told(Told(v, "Delete", source, source), "Add", place, place)
              ELSE Told(v, "Moved", place, source)

Pending(e) == [place |-> e.place, id |-> e.id, old |-> FALSE]
WithId(s, id) == {i \in DOMAIN s : s[i].id = id}
OfId(s, id) == SelectSeq(s, LAMBDA p : p.id = id)
OfOthers(s, id) == SelectSeq(s, LAMBDA p : p.id # id)
\* handleAction with FILE_ACTION_REMOVED, for each of the entries pending.
Delete(w, pending) == [w EXCEPT !.view = @ \ {pending[i].place : i \in DOMAIN pending}]

\* WatchCallbackEx, one entry.
addedEx(w, e) ==
    LET matches == WithId(w.PendingRemovals, e.id)
        first == CHOOSE i \in matches : TRUE
        source == w.PendingRemovals[first]
    IN IF Cardinality(matches) = 1 /\ parentPath(source.place) # parentPath(e.place) /\ at[e.id] = e.place
       THEN handleAction([w EXCEPT !.PendingRemovals = RemoveAt(@, first)],
                         "RENAMED_NEW", e.place, source.place)
       ELSE handleAction([Delete(w, OfId(w.PendingRemovals, e.id))
                            EXCEPT !.PendingRemovals = OfOthers(@, e.id)],
                         "ADDED", e.place, << >>)
renamedEx(w, e) ==
    LET matches == WithId(w.PendingRenames, e.id)
        first == CHOOSE i \in matches : \A j \in matches : i <= j
    IN IF matches = {} THEN handleAction(w, "ADDED", e.place, << >>)
       ELSE handleAction([w EXCEPT !.PendingRenames = RemoveAt(@, first)],
                         "RENAMED_NEW", e.place, w.PendingRenames[first].place)
WatchCallbackEx(w, e) ==
    CASE e.act = "REMOVED" /\ CrossMoves ->
            [w EXCEPT !.PendingRemovals = Append(@, Pending(e))]
      [] e.act = "ADDED" /\ CrossMoves -> addedEx(w, e)
      [] e.act = "RENAMED_OLD" -> [w EXCEPT !.PendingRenames = Append(@, Pending(e))]
      [] e.act = "RENAMED_NEW" -> renamedEx(w, e)
      [] OTHER -> handleAction(w, e.act, e.place, << >>)
WatchCallbackOld(w, e) == handleAction(w, e.act, e.place, << >>)

\* Mutant: they are forgotten.
forgetPendingMoves(w) == [w EXCEPT !.PendingRenames = Young(@), !.PendingRemovals = Young(@)]
\* Old removals and renames are deletions after all.
FlushPendingMoves(w) ==
    [Delete(Delete(w, Old(w.PendingRenames)), Old(w.PendingRemovals))
        EXCEPT !.PendingRenames = Young(@), !.PendingRemovals = Young(@)]

-----------------------------------------------------------------------------
(* run                                                                     *)

Go(pc, cur, rest) == worker' = [pc |-> pc, cur |-> cur, rest |-> rest]

reclaim ==
    /\ worker.pc = "reclaim"
    /\ obj' = releaseRetiredWatches(obj)
    /\ Go(IF mInitOK /\ mWatches \cup {o \in Objs : obj'[o].st = "retired"} # {}
          THEN "wait" ELSE "test", Nobody, << >>)
    /\ UNCHANGED <<at, ops, port, mInitOK, closing>>

\* GetQueuedCompletionStatus returns without the lock.
takeCompletion ==
    /\ worker.pc = "wait" /\ port # << >>
    /\ port' = Tail(port)
    /\ IF Head(port).obj = Nobody THEN Go("test", Nobody, << >>)
       ELSE Go("got", Head(port).obj, Head(port).entries)
    /\ UNCHANGED <<at, ops, obj, mInitOK, closing>>

\* Every watch of the set is flushed.
timedOut ==
    /\ worker.pc = "wait" /\ port = << >>
    /\ \E o \in mWatches : \E p \in Range(obj[o].PendingRemovals \o obj[o].PendingRenames) : p.old
    /\ obj' = [o \in Objs |-> IF o \in mWatches THEN FlushPendingMoves(obj[o]) ELSE obj[o]]
    /\ Go("test", Nobody, << >>)
    /\ UNCHANGED <<at, ops, port, mInitOK, closing>>

\* Mutant: a watch that was stopped is left as it is.
ignoreStopped ==
    LET o == worker.cur
    IN /\ worker.pc = "got"
       /\ IF obj[o].StopNow THEN UNCHANGED obj /\ Go("test", Nobody, << >>)
          ELSE obj' = [obj EXCEPT ![o].IoPending = FALSE] /\ Go("entries", o, worker.rest)
       /\ UNCHANGED <<at, ops, port, mInitOK, closing>>

\* No bytes: what came was lost, or the read was cancelled.
handleCompletion ==
    LET o == worker.cur
        w == [obj[o] EXCEPT !.IoPending = FALSE]
    IN /\ worker.pc = "got"
       /\ CASE w.st = "retired" -> obj' = [obj EXCEPT ![o] = DestroyWatch(w)] /\ Go("test", Nobody, << >>)
            [] w.st = "live" /\ worker.rest # << >> -> obj' = [obj EXCEPT ![o] = w] /\ Go("entries", o, worker.rest)
            [] w.st = "live" /\ worker.rest = << >> ->
                 /\ obj' = [obj EXCEPT ![o] = [w EXCEPT !.PendingRenames = << >>, !.PendingRemovals = << >>,
                                                        !.view = Taken]]
                 /\ Go("refresh", o, << >>)
            [] OTHER -> obj' = [obj EXCEPT ![o] = w] /\ Go("test", Nobody, << >>)
       /\ UNCHANGED <<at, ops, port, mInitOK, closing>>

WatchCallback ==
    LET o == worker.cur
        e == Head(worker.rest)
    IN /\ worker.pc = "entries" /\ worker.rest # << >>
       /\ obj' = [obj EXCEPT ![o] = IF o \in Extended THEN WatchCallbackEx(@, e) ELSE WatchCallbackOld(@, e)]
       /\ Go("entries", o, Tail(worker.rest))
       /\ UNCHANGED <<at, ops, port, mInitOK, closing>>

\* A listener called for an entry, or for missed changes, removes a watch;
\* mWatchesLock is recursive.
removeInCallback ==
    /\ Reentrant /\ worker.pc \in {"entries", "refresh"}
    /\ \E o \in Objs : removeWatch(o)
    /\ UNCHANGED <<at, ops, worker, mInitOK, closing>>

endEntries ==
    /\ worker.pc = "entries" /\ worker.rest = << >>
    /\ Go("refresh", worker.cur, << >>)
    /\ UNCHANGED <<at, ops, obj, port, mInitOK, closing>>

RefreshWatch ==
    LET o == worker.cur
    IN /\ worker.pc = "refresh"
       /\ \E ok \in IF obj[o].StopNow THEN {FALSE} ELSE IF ReadsFail THEN BOOLEAN ELSE {TRUE} :
            obj' = [obj EXCEPT ![o] = FlushPendingMoves([@ EXCEPT !.IoPending = ok, !.read = ok])]
       /\ Go("test", Nobody, << >>)
       /\ UNCHANGED <<at, ops, port, mInitOK, closing>>

testInitOK ==
    /\ worker.pc = "test"
    /\ Go(IF mInitOK THEN "reclaim" ELSE "ended", Nobody, << >>)
    /\ UNCHANGED <<at, ops, obj, port, mInitOK, closing>>

run ==
    \/ reclaim \/ takeCompletion \/ timedOut \/ handleCompletion \/ WatchCallback
    \/ endEntries \/ RefreshWatch \/ testInitOK

-----------------------------------------------------------------------------
(* The destructor.                                                         *)

clearInitOK ==
    /\ closing = "no" /\ mInitOK' = FALSE /\ closing' = "remove"
    /\ UNCHANGED <<at, ops, obj, port, worker>>
removeAllWatches ==
    /\ closing = "remove" /\ Unlocked
    /\ obj' = [o \in Objs |-> IF o \in mWatches THEN StopWatch(obj[o]) ELSE obj[o]]
    /\ port' = Append(port \o Cancelled(mWatches), [obj |-> Nobody, entries |-> << >>])
    /\ closing' = "join"
    /\ UNCHANGED <<at, ops, worker, mInitOK>>
join ==
    /\ closing = "join" /\ worker.pc \in {"none", "ended"}
    /\ obj' = releaseRetiredWatches(obj)
    /\ closing' = "drain"
    /\ UNCHANGED <<at, ops, port, worker, mInitOK>>
drainRetiredWatches ==
    /\ closing = "drain" /\ mRetiredWatches # {} /\ port # << >>
    /\ port' = Tail(port)
    /\ LET o == Head(port).obj
       IN obj' = IF o \in mRetiredWatches THEN [obj EXCEPT ![o] = DestroyWatch(@)] ELSE obj
    /\ UNCHANGED <<at, ops, worker, mInitOK, closing>>
closePort ==
    /\ closing = "drain" /\ mRetiredWatches = {}
    /\ closing' = "done"
    /\ UNCHANGED <<at, ops, obj, port, worker, mInitOK>>
destructor == removeAllWatches \/ join \/ drainRetiredWatches \/ closePort

-----------------------------------------------------------------------------

Init ==
    /\ at = [f \in Files |-> Unborn] /\ ops = 0
    /\ obj = [o \in Objs |-> Fresh]
    /\ port = << >>
    /\ worker = [pc |-> "none", cur |-> Nobody, rest |-> << >>]
    /\ mInitOK = TRUE /\ closing = "no"

Next ==
    \/ \E f \in Files : delete(f) \/ \E place \in Places : create(f, place) \/ move(f, place)
    \/ \E o \in Objs : complete(o) \/ addWatch(o) \/ removeByClient(o)
    \/ tick \/ watch \/ run \/ removeInCallback \/ clearInitOK \/ destructor
Spec == Init /\ [][Next]_vars
\* The worker and the destructor run and listeners return.  Nothing is assumed
\* of clients and of programs that change files.
FairSpec == Spec /\ WF_vars(run) /\ WF_vars(destructor)

-----------------------------------------------------------------------------
(* Properties.                                                             *)

\* The system writes only to memory that is not freed, and a completion in
\* the port, or taken from it by the worker, names an object that exists:
\* a watch stays allocated from its first read to its last completion
\* (FileWatcherWin32.cpp:144-172, 200-204).
IoMemory ==
    /\ \A o \in Objs : obj[o].st \in {"new", "freed"} =>
         /\ ~obj[o].read /\ worker.cur # o
         /\ \A i \in DOMAIN port : port[i].obj # o
    \* One completion at most is due for an object, so it is freed only once.
    /\ \A i, j \in DOMAIN port : port[i].obj = port[j].obj => i = j
    /\ \A o \in Objs : obj[o].st \in {"live", "retired"} =>
         (obj[o].IoPending <=> obj[o].read \/ (worker.pc = "got" /\ worker.cur = o)
                               \/ \E i \in DOMAIN port : port[i].obj = o)

\* A listener that follows the callbacks, and lists the directory when it is
\* told that some were missed, has the tree when all of it has been handled,
\* unless the read could not be started again.
ViewIsTree ==
    \A o \in mWatches : Quiet(o) /\ obj[o].read => obj[o].view = Taken

\* The destructor returns: the posted completion wakes the worker, and the
\* drain waits only for completions that will come.  With the worker running,
\* what is removed is freed when its read comes back.
Reclaimed ==
    /\ closing = "remove" ~> closing = "done"
    /\ worker.pc # "none" /\ (\E o \in mRetiredWatches : obj[o].IoPending)
         ~> closing = "done" \/ \A o \in mRetiredWatches : ~obj[o].IoPending
=============================================================================
