----------------------------- MODULE GenericWatch -----------------------------
(***************************************************************************)
(* FileWatchers with the generic backend behind the C interface: the list  *)
(* of watches and the thread that scans them, and the registry of          *)
(* listeners that all the handles of a process share.                      *)
(*                                                                         *)
(* A handle is an efsw_watcher (FileWatcher and FileWatcherGeneric are one *)
(* object here: the first only forwards).  Calls to one handle come from   *)
(* one thread, as nothing in the interface says that they may overlap; the *)
(* handles run side by side.  What a scan finds is in GenericScan: here it *)
(* calls the listener any number of times.  Listeners remove no watches:   *)
(* mWatchesLock is recursive, and one that does frees what is scanned.     *)
(***************************************************************************)
EXTENDS Integers, FiniteSets, SequencesExt

CONSTANTS
    Handles,
    Dirs,
    Keys,      \* pairs of a callback and its parameter
    MaxAdds    \* bound: watches a handle adds in its life

ASSUME WatchAssumption == MaxAdds \in Nat

VARIABLES
    registry,  \* g_callbacks: [watcher, key, obj], in order
    alive,     \* Watcher_CAPI objects not deleted
    lives,     \* handle -> "none", "open"
    mWatches,  \* handle -> the list of [id, dir, listener]
    mLastWatchID,
    mInitOK,
    mutex,     \* handle -> who holds mWatchesLock: "free", "worker"
    call,      \* handle -> the call its client is in
    worker     \* handle -> [pc, it, cur]

capi == <<registry, alive>>
impl == <<lives, mWatches, mLastWatchID, mInitOK>>
vars == <<capi, impl, mutex, call, worker>>

Idle == [op |-> "idle"]
None == [id |-> 0]
InScan(h) == worker[h].pc \in {"scan", "callback"}
Ids(h) == {mWatches[h][i].id : i \in DOMAIN mWatches[h]}

At(h, op) == call[h].op = op
Goto(h, c) == call' = [call EXCEPT ![h] = c]
First(hits) == IF hits = {} THEN 0 ELSE CHOOSE i \in hits : \A j \in hits : i <= j
WatchesOf(h, dir) == {i \in DOMAIN mWatches[h] : mWatches[h][i].dir = dir}

-----------------------------------------------------------------------------
(* The C interface.                                                        *)

\* The backend is the generic one because it is asked for or because the
\* native one does not start.
efsw_create(h) ==
    /\ At(h, "idle") /\ lives[h] = "none" /\ mLastWatchID[h] = 0
    /\ lives' = [lives EXCEPT ![h] = "open"]
    /\ mInitOK' = [mInitOK EXCEPT ![h] = TRUE]
    /\ UNCHANGED <<capi, mWatches, mLastWatchID, mutex, call, worker>>

find_callback(h, key) ==
    LET i == First({j \in DOMAIN registry : registry[j].watcher = h /\ registry[j].key = key})
    IN IF i = 0 THEN 0 ELSE registry[i].obj

\* find_callback has its own lock, and so has the push_back after it.
efsw_addwatch(h, dir, key) ==
    /\ At(h, "idle") /\ lives[h] = "open" /\ mLastWatchID[h] < MaxAdds
    /\ LET l == find_callback(h, key)
       IN Goto(h, [op |-> IF l = 0 THEN "new" ELSE "add", dir |-> dir, key |-> key, listener |-> l])
    /\ UNCHANGED <<capi, impl, mutex, worker>>

newCallback(h) ==
    /\ At(h, "new")
    /\ LET l == CHOOSE n \in 1..(Cardinality(alive) + 1) : n \notin alive
       IN /\ registry' = Append(registry, [watcher |-> h, key |-> call[h].key, obj |-> l])
          /\ alive' = alive \cup {l}
          /\ Goto(h, [call[h] EXCEPT !.op = "add", !.listener = l])
    /\ UNCHANGED <<impl, mutex, worker>>

-----------------------------------------------------------------------------
(* FileWatcherGeneric.                                                     *)

\* The list is read without the lock, and so are the trees of directory
\* watchers, which a scan may be changing: then the answer is any.
pathInWatches(h, dir) ==
    IF InScan(h) THEN BOOLEAN
    ELSE {WatchesOf(h, dir) # {}}

addWatch(h) ==
    /\ At(h, "add")
    /\ \E known \in pathInWatches(h, call[h].dir) :
         IF known THEN Goto(h, Idle) /\ UNCHANGED mLastWatchID
         ELSE /\ mLastWatchID' = [mLastWatchID EXCEPT ![h] = @ + 1]
              /\ Goto(h, [call[h] EXCEPT !.op = "push"])
    /\ UNCHANGED <<capi, lives, mWatches, mInitOK, mutex, worker>>

pushWatch(h) ==
    /\ At(h, "push") /\ mutex[h] = "free"
    /\ mWatches' = [mWatches EXCEPT ![h] = Append(@,
                      [id |-> mLastWatchID[h], dir |-> call[h].dir, listener |-> call[h].listener])]
    /\ Goto(h, Idle)
    /\ UNCHANGED <<capi, lives, mLastWatchID, mInitOK, mutex, worker>>

\* By id or by directory: the first match.
removeWatch(h, i) ==
    /\ At(h, "idle") /\ lives[h] = "open"
    /\ i # 0 /\ Goto(h, [op |-> "erase", at |-> i])
    /\ UNCHANGED <<capi, impl, mutex, worker>>

\* Mutant: the lock is not taken.
eraseUnlocked(h) ==
    /\ At(h, "erase")
    /\ mWatches' = [mWatches EXCEPT ![h] = RemoveAt(@, call[h].at)]
    /\ Goto(h, Idle)
    /\ UNCHANGED <<capi, lives, mLastWatchID, mInitOK, mutex, worker>>

eraseWatch(h) ==
    /\ At(h, "erase") /\ mutex[h] = "free"
    /\ mWatches' = [mWatches EXCEPT ![h] = RemoveAt(@, call[h].at)]
    /\ Goto(h, Idle)
    /\ UNCHANGED <<capi, lives, mLastWatchID, mInitOK, mutex, worker>>

efsw_removewatch(h, dir) == removeWatch(h, First(WatchesOf(h, dir)))
efsw_removewatch_byid(h, id) ==
    removeWatch(h, First({i \in DOMAIN mWatches[h] : mWatches[h][i].id = id}))

watch(h) ==
    /\ worker[h].pc = "none"
    /\ worker' = [worker EXCEPT ![h].pc = "lock"]
efsw_watch(h) ==
    /\ At(h, "idle") /\ lives[h] = "open" /\ watch(h)
    /\ UNCHANGED <<capi, impl, mutex, call>>

-----------------------------------------------------------------------------
(* run                                                                     *)

Step(h, from, w) == worker[h].pc = from /\ worker' = [worker EXCEPT ![h] = w]

lockWatches(h) ==
    /\ mutex[h] = "free"
    /\ Step(h, "lock", [pc |-> "scan", it |-> 1, cur |-> None])
    /\ mutex' = [mutex EXCEPT ![h] = "worker"]
    /\ UNCHANGED <<capi, impl, call>>

\* (*it)->watch() calls the listener of the watch it was started on.
callListener(h) ==
    /\ worker[h].it \in DOMAIN mWatches[h]
    /\ LET w == mWatches[h][worker[h].it]
       IN Step(h, "scan", [worker[h] EXCEPT !.pc = "callback", !.cur = w])
    /\ UNCHANGED <<capi, impl, mutex, call>>

returnListener(h) ==
    /\ Step(h, "callback", [worker[h] EXCEPT !.pc = "scan", !.cur = None])
    /\ UNCHANGED <<capi, impl, mutex, call>>

scanNext(h) ==
    /\ worker[h].it \in DOMAIN mWatches[h]
    /\ Step(h, "scan", [worker[h] EXCEPT !.it = @ + 1])
    /\ UNCHANGED <<capi, impl, mutex, call>>

endPass(h) ==
    /\ worker[h].it > Len(mWatches[h])
    /\ Step(h, "scan", [pc |-> "test", it |-> 0, cur |-> None])
    /\ mutex' = [mutex EXCEPT ![h] = "free"]
    /\ UNCHANGED <<capi, impl, call>>

testInitOK(h) ==
    /\ Step(h, "test", [worker[h] EXCEPT !.pc = IF mInitOK[h] THEN "lock" ELSE "ended"])
    /\ UNCHANGED <<capi, impl, mutex, call>>

-----------------------------------------------------------------------------
(* efsw_release: first one listener of the handle, then the watcher.       *)

\* Mutant: the first listener of all, whoever has it.
removeFirst(h) ==
    IF registry = << >> THEN UNCHANGED capi
    ELSE alive' = alive \ {Head(registry).obj} /\ registry' = Tail(registry)

remove_callback(h) ==
    LET i == First({j \in DOMAIN registry : registry[j].watcher = h})
    IN IF i = 0 THEN UNCHANGED capi
       ELSE alive' = alive \ {registry[i].obj} /\ registry' = RemoveAt(registry, i)

efsw_release(h) ==
    /\ At(h, "idle") /\ lives[h] = "open"
    /\ remove_callback(h)
    /\ Goto(h, [op |-> "stop"])
    /\ UNCHANGED <<impl, mutex, worker>>

\* Mutant: the thread is not told.
destroyQuietly(h) ==
    /\ At(h, "stop") /\ Goto(h, [op |-> "join"])
    /\ UNCHANGED <<capi, impl, mutex, worker>>

destroy(h) ==
    /\ At(h, "stop")
    /\ mInitOK' = [mInitOK EXCEPT ![h] = FALSE]
    /\ Goto(h, [op |-> "join"])
    /\ UNCHANGED <<capi, lives, mWatches, mLastWatchID, mutex, worker>>

joinThread(h) ==
    /\ At(h, "join") /\ worker[h].pc \in {"none", "ended"}
    /\ mWatches' = [mWatches EXCEPT ![h] = << >>]
    /\ lives' = [lives EXCEPT ![h] = "none"]
    /\ Goto(h, Idle)
    /\ UNCHANGED <<capi, mLastWatchID, mInitOK, mutex, worker>>

-----------------------------------------------------------------------------

Init ==
    /\ registry = << >> /\ alive = {}
    /\ lives = [h \in Handles |-> "none"]
    /\ mWatches = [h \in Handles |-> << >>]
    /\ mLastWatchID = [h \in Handles |-> 0]
    /\ mInitOK = [h \in Handles |-> FALSE]
    /\ mutex = [h \in Handles |-> "free"]
    /\ call = [h \in Handles |-> Idle]
    /\ worker = [h \in Handles |-> [pc |-> "none", it |-> 0, cur |-> None]]

Client(h) ==
    \/ newCallback(h) \/ addWatch(h) \/ pushWatch(h) \/ eraseWatch(h)
    \/ destroy(h) \/ joinThread(h)
Requests(h) ==
    \/ efsw_create(h) \/ efsw_watch(h) \/ efsw_release(h)
    \/ \E dir \in Dirs, key \in Keys : efsw_addwatch(h, dir, key)
    \/ \E id \in Ids(h) : efsw_removewatch_byid(h, id)
    \/ \E dir \in Dirs : efsw_removewatch(h, dir)
run(h) ==
    \/ lockWatches(h) \/ callListener(h) \/ returnListener(h)
    \/ scanNext(h) \/ endPass(h) \/ testInitOK(h)

Next == \E h \in Handles : Client(h) \/ Requests(h) \/ run(h)
Spec == Init /\ [][Next]_vars
\* Threads run, listeners return, and a scan does not find changes for ever
\* (scanNext).  A client that waits for mWatchesLock gets it in the end.
Fairness ==
    \A h \in Handles :
        /\ SF_vars(Client(h))
        /\ WF_vars(lockWatches(h) \/ returnListener(h) \/ endPass(h) \/ testInitOK(h))
        /\ SF_vars(scanNext(h))
FairSpec == Spec /\ Fairness

-----------------------------------------------------------------------------
(* Properties.                                                             *)

\* While a watch is scanned, or its listener is called, it is in the list and
\* under the iterator: whoever removes it waits for the pass to end, and the
\* destructor for the thread (FileWatcherGeneric.cpp:84, 102, 22).
ScanAlive ==
    \A h \in Handles :
        InScan(h) => /\ mutex[h] = "worker"
                     /\ worker[h].it <= Len(mWatches[h]) + 1
                     /\ worker[h].cur # None =>
                          /\ worker[h].it \in DOMAIN mWatches[h]
                          /\ mWatches[h][worker[h].it] = worker[h].cur

\* Until efsw_release begins, the listener of every watch of a handle is
\* registered for that handle and not deleted, whatever other handles release;
\* and no callback and parameter have two listeners (find_callback, 43-50).
ListenersOwned ==
    /\ \A h \in Handles : ~(At(h, "stop") \/ At(h, "join")) =>
         \A i \in DOMAIN mWatches[h] :
            /\ mWatches[h][i].listener \in alive
            /\ \E j \in DOMAIN registry : registry[j].watcher = h /\ registry[j].obj = mWatches[h][i].listener
    /\ \A i, j \in DOMAIN registry : i # j =>
         /\ registry[i].obj # registry[j].obj
         /\ <<registry[i].watcher, registry[i].key>> # <<registry[j].watcher, registry[j].key>>

\* Every call returns: a removal gets the lock between two passes, and
\* efsw_release sees the thread leave its loop wherever it is, also when it is
\* in a callback (WatchLifetime.DestroyDuringCallback).
CallsReturn == \A h \in Handles : ~At(h, "idle") ~> At(h, "idle")
=============================================================================
