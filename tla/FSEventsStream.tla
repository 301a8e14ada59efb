---------------------------- MODULE FSEventsStream ----------------------------
(***************************************************************************)
(* The FSEvents backend: one stream for all watches, replaced whenever a   *)
(* watch comes or goes, with callbacks on a serial dispatch queue.         *)
(*                                                                         *)
(* A call from another thread waits for the callbacks queued before it,    *)
(* with an empty block, before it releases the stream it replaced; a call  *)
(* from a callback leaves the release to a later block.  What the events   *)
(* say is in FSEventsView.                                                 *)
(***************************************************************************)
EXTENDS Integers, FiniteSets, SequencesExt

CONSTANTS
    Clients,     \* threads of the program, other than the one that destroys
    Watches,     \* WatcherFSEvents objects; each is used once
    Dirs,
    Streams,     \* FSEventStreams; each is used once
    Careful      \* listeners keep a watch, and make no calls during destruction

CONSTANTS Queue, Owner, NULL

ASSUME StreamAssumption ==
    /\ Careful \in BOOLEAN /\ {Queue, Owner} \cap Clients = {} /\ Queue # Owner
    /\ NULL \notin Streams \cup Watches \cup Clients \cup Dirs \cup {Queue, Owner}

Threads == Clients \cup {Queue, Owner}

VARIABLES
    dir,            \* watch -> its Directory, NULL before addWatch
    mWatches,
    mWatching,
    mInitOK,
    mStream,
    mWatchesMutex,  \* its owner, or NULL
    stream,         \* stream -> [st, paths]
    queue,          \* blocks of mDispatchQueue, the first one running
    running,        \* the callback that runs: [pc, watches, cur]
    thread,         \* thread -> [pc, watch, old], in a call
    closing,        \* the destructor
    removed,        \* watches whose removal has returned to a client
    unawaited       \* those of them whose rebuild failed, in the copy of this callback

vars == <<dir, mWatches, mWatching, mInitOK, mStream, mWatchesMutex, stream, queue, running,
          thread, closing, removed, unawaited>>
registry == <<dir, mWatches, mWatching, mInitOK, closing>>

Idle == [pc |-> "idle", watch |-> NULL, old |-> NULL]
NoCallback == [pc |-> "idle", watches |-> {}, cur |-> NULL]
Unlocked == mWatchesMutex = NULL
Directories(ws) == {dir[w] : w \in ws}

\* Clients call until the destruction, the listener within its callback.
CanCall(t) ==
    /\ thread[t] = Idle
    /\ \/ t \in Clients /\ closing = "no"
       \/ t = Queue /\ running.pc = "call"

-----------------------------------------------------------------------------
(* The stream.                                                             *)

Started(s) == stream[s].st = "started"
Stop(streams, s) == IF s = NULL THEN streams ELSE [streams EXCEPT ![s].st = "stopped"]

\* With a stream for the directories of ws started, thread t is left to stop
\* the old one, under the mutex; w is the watch it removes, if any.
rebuildStream(t, w, s, ws) ==
    /\ stream[s].st = "new"
    /\ stream' = [stream EXCEPT ![s] = [st |-> "started", paths |-> Directories(ws)]]
    /\ mStream' = s
    /\ IF mStream = NULL
       THEN thread' = [thread EXCEPT ![t] = Idle] /\ UNCHANGED mWatchesMutex
       ELSE /\ thread' = [thread EXCEPT ![t] = [pc |-> "stopOld", watch |-> w, old |-> mStream]]
            /\ mWatchesMutex' = t
Failed(t) ==
    /\ thread' = [thread EXCEPT ![t] = Idle]
    /\ UNCHANGED <<stream, mStream, mWatchesMutex>>

stopReplaced(t) ==
    /\ thread[t].pc = "stopOld"
    /\ stream' = Stop(stream, thread[t].old)
    /\ mWatchesMutex' = NULL
    /\ thread' = [thread EXCEPT ![t].pc = "release"]
    /\ UNCHANGED <<registry, mStream, queue, running, removed, unawaited>>

\* Mutants: no callback is waited for; a callback waits for itself.
releaseAtOnce(t) ==
    /\ thread[t].pc = "release"
    /\ thread' = [thread EXCEPT ![t].pc = "passed"]
    /\ UNCHANGED <<registry, mStream, mWatchesMutex, stream, queue, running, removed, unawaited>>
alwaysWait(t) ==
    /\ thread[t].pc = "release"
    /\ queue' = Append(queue, [kind |-> "barrier", of |-> t])
    /\ thread' = [thread EXCEPT ![t].pc = "barrier"]
    /\ UNCHANGED <<registry, mStream, mWatchesMutex, stream, running, removed, unawaited>>
releaseStreamAfterCallbacks(t) ==
    /\ thread[t].pc = "release"
    /\ IF t = Queue
       THEN /\ queue' = Append(queue, [kind |-> "release", of |-> thread[t].old])
            /\ thread' = [thread EXCEPT ![t] = Idle]
       ELSE /\ queue' = Append(queue, [kind |-> "barrier", of |-> t])
            /\ thread' = [thread EXCEPT ![t].pc = "barrier"]
    /\ UNCHANGED <<registry, mStream, mWatchesMutex, stream, running, removed, unawaited>>
releaseStream(t) ==
    /\ thread[t].pc = "passed"
    /\ stream' = [stream EXCEPT ![thread[t].old].st = "released"]
    /\ removed' = removed \cup ({thread[t].watch} \ {NULL})
    /\ thread' = [thread EXCEPT ![t] = Idle]
    /\ UNCHANGED <<registry, mStream, mWatchesMutex, queue, running, unawaited>>

-----------------------------------------------------------------------------
(* Watches.                                                                *)

\* The directory is looked up once without the mutex held for the insertion.
addWatch(t, w, d) ==
    /\ CanCall(t) /\ Unlocked /\ dir[w] = NULL
    /\ t = Queue /\ Careful => closing = "no"
    /\ d \notin Directories(mWatches)
    /\ dir' = [dir EXCEPT ![w] = d]
    /\ thread' = [thread EXCEPT ![t].pc = "insert", ![t].watch = w]
    /\ UNCHANGED <<mWatches, mWatching, mInitOK, mStream, mWatchesMutex, stream, queue, running,
                   closing, removed, unawaited>>

repeated(w) == dir[w] \in Directories(mWatches)

\* Mutant: a watch stays though its stream could not be made.
insertAnyway(t) ==
    LET w == thread[t].watch
    IN /\ thread[t].pc = "insert" /\ Unlocked
       /\ IF repeated(w) THEN Failed(t) /\ UNCHANGED mWatches
          ELSE /\ mWatches' = mWatches \cup {w}
               /\ \/ mWatching /\ \E s \in Streams : rebuildStream(t, NULL, s, mWatches \cup {w})
                  \/ Failed(t)
       /\ UNCHANGED <<dir, mWatching, mInitOK, queue, running, closing, removed, unawaited>>

insertWatch(t) ==
    LET w == thread[t].watch
    IN /\ thread[t].pc = "insert" /\ Unlocked
       /\ IF repeated(w) THEN Failed(t) /\ UNCHANGED mWatches
          ELSE IF ~mWatching
          THEN Failed(t) /\ mWatches' = mWatches \cup {w}
          ELSE \/ \E s \in Streams : rebuildStream(t, NULL, s, mWatches \cup {w}) /\ mWatches' = mWatches \cup {w}
               \/ Failed(t) /\ UNCHANGED mWatches
       /\ UNCHANGED <<dir, mWatching, mInitOK, queue, running, closing, removed, unawaited>>

\* A client's removal that replaces no stream returns here.
returned(t, w) == removed' = IF t \in Clients THEN removed \cup {w} ELSE removed

\* With the last watch the stream goes too.  A removal whose rebuild fails
\* waits for no callback.
removeWatch(t, w) ==
    /\ CanCall(t) /\ Unlocked /\ w \in mWatches
    /\ t = Queue /\ Careful => closing = "no" /\ mWatches # {w}
    /\ mWatches' = mWatches \ {w}
    /\ \/ ~mWatching /\ Failed(t) /\ returned(t, w) /\ UNCHANGED unawaited
       \/ /\ mWatching /\ mWatches = {w}
          /\ stream' = Stop(stream, mStream)
          /\ mStream' = NULL
          /\ thread' = [thread EXCEPT ![t] = IF mStream = NULL THEN Idle
                                             ELSE [pc |-> "release", watch |-> w, old |-> mStream]]
          /\ UNCHANGED <<mWatchesMutex, removed, unawaited>>
       \/ /\ mWatching /\ mWatches # {w} /\ Failed(t) /\ returned(t, w)
          /\ unawaited' = IF w \in running.watches \cup {running.cur} THEN unawaited \cup {w}
                          ELSE unawaited
       \/ /\ mWatching /\ mWatches # {w}
          /\ \E s \in Streams : rebuildStream(t, w, s, mWatches \ {w})
          /\ UNCHANGED <<removed, unawaited>>
    /\ UNCHANGED <<dir, mWatching, mInitOK, queue, running, closing>>

watch(t) ==
    /\ CanCall(t) /\ Unlocked /\ ~mWatching
    /\ IF mWatches = {} THEN mWatching' = TRUE /\ Failed(t)
       ELSE \/ \E s \in Streams : mWatching' = TRUE /\ rebuildStream(t, NULL, s, mWatches)
            \/ mWatching' = FALSE /\ Failed(t)
    /\ UNCHANGED <<dir, mWatches, mInitOK, queue, running, closing, removed, unawaited>>

-----------------------------------------------------------------------------
(* The dispatch queue.                                                     *)

\* The system queues a callback for changes below the directories of a stream.
fire(s) ==
    /\ Started(s)
    /\ \A i \in DOMAIN queue : queue[i].kind = "callback" => queue[i].of # s
    /\ queue' = Append(queue, [kind |-> "callback", of |-> s])
    /\ UNCHANGED <<registry, mStream, mWatchesMutex, stream, running, thread, removed, unawaited>>

Running(kind) == queue # << >> /\ Head(queue).kind = kind

runRelease ==
    /\ Running("release")
    /\ stream' = [stream EXCEPT ![Head(queue).of].st = "released"]
    /\ queue' = Tail(queue)
    /\ UNCHANGED <<registry, mStream, mWatchesMutex, running, thread, removed, unawaited>>
runBarrier ==
    /\ Running("barrier")
    /\ thread' = [thread EXCEPT ![Head(queue).of].pc = "passed"]
    /\ queue' = Tail(queue)
    /\ UNCHANGED <<registry, mStream, mWatchesMutex, stream, running, removed, unawaited>>

enterCallback ==
    /\ Running("callback") /\ running.pc = "idle"
    /\ IF mInitOK THEN running' = [running EXCEPT !.pc = "copy"] /\ UNCHANGED queue
       ELSE queue' = Tail(queue) /\ UNCHANGED running
    /\ UNCHANGED <<registry, mStream, mWatchesMutex, stream, thread, removed, unawaited>>
copyWatches ==
    /\ running.pc = "copy" /\ Unlocked
    /\ running' = [running EXCEPT !.pc = "loop", !.watches = mWatches]
    /\ UNCHANGED <<registry, mStream, mWatchesMutex, stream, queue, thread, removed, unawaited>>
\* Any watch of the copy may be one that handles the path of an event, and the
\* events that say that some were dropped are told to every watch.
callListener ==
    /\ running.pc = "loop"
    /\ \E w \in running.watches :
         running' = [pc |-> "call", cur |-> w, watches |-> running.watches \ {w}]
    /\ UNCHANGED <<registry, mStream, mWatchesMutex, stream, queue, thread, removed, unawaited>>
listenerReturns ==
    /\ running.pc = "call" /\ thread[Queue] = Idle
    /\ running' = [running EXCEPT !.pc = "loop", !.cur = NULL]
    /\ UNCHANGED <<registry, mStream, mWatchesMutex, stream, queue, thread, removed, unawaited>>
leaveCallback ==
    /\ running.pc = "loop"
    /\ running' = NoCallback /\ unawaited' = {}
    /\ queue' = Tail(queue)
    /\ UNCHANGED <<registry, mStream, mWatchesMutex, stream, thread, removed>>

FSEventCallback ==
    \/ enterCallback \/ copyWatches \/ callListener \/ listenerReturns \/ leaveCallback
dispatch == runRelease \/ runBarrier \/ FSEventCallback

-----------------------------------------------------------------------------
(* The destructor; no client is in a call, or makes one.                   *)

clearInitOK ==
    /\ closing = "no" /\ \A t \in Clients : thread[t] = Idle
    /\ Careful => thread[Queue] = Idle
    /\ mInitOK' = FALSE /\ closing' = "stop"
    /\ UNCHANGED <<dir, mWatches, mWatching, mStream, mWatchesMutex, stream, queue, running, thread,
                   removed, unawaited>>
\* Mutant: the destructor does not wait for callbacks.
stopOnly ==
    /\ closing = "stop" /\ Unlocked
    /\ stream' = Stop(stream, mStream) /\ mStream' = NULL
    /\ closing' = "clear"
    /\ UNCHANGED <<dir, mWatches, mWatching, mInitOK, mWatchesMutex, queue, running, thread, removed, unawaited>>
stopStream ==
    /\ closing = "stop" /\ Unlocked
    /\ stream' = Stop(stream, mStream) /\ mStream' = NULL
    /\ thread' = [thread EXCEPT ![Owner] = IF mStream = NULL THEN Idle
                                           ELSE [pc |-> "release", watch |-> NULL, old |-> mStream]]
    /\ closing' = "clear"
    /\ UNCHANGED <<dir, mWatches, mWatching, mInitOK, mWatchesMutex, queue, running, removed, unawaited>>
clearWatches ==
    /\ closing = "clear" /\ thread[Owner] = Idle /\ Unlocked
    /\ mWatches' = {} /\ closing' = "done"
    /\ UNCHANGED <<dir, mWatching, mInitOK, mStream, mWatchesMutex, stream, queue, running, thread,
                   removed, unawaited>>
destructor == stopStream \/ clearWatches

-----------------------------------------------------------------------------

Init ==
    /\ dir = [w \in Watches |-> NULL] /\ mWatches = {}
    /\ mWatching = FALSE /\ mInitOK = TRUE /\ mStream = NULL /\ mWatchesMutex = NULL
    /\ stream = [s \in Streams |-> [st |-> "new", paths |-> {}]]
    /\ queue = << >> /\ running = NoCallback
    /\ thread = [t \in Threads |-> Idle] /\ closing = "no"
    /\ removed = {} /\ unawaited = {}

inCall(t) ==
    insertWatch(t) \/ stopReplaced(t) \/ releaseStreamAfterCallbacks(t) \/ releaseStream(t)
Next ==
    \/ \E t \in Clients \cup {Queue} :
         \/ watch(t)
         \/ \E w \in Watches : removeWatch(t, w) \/ \E d \in Dirs : addWatch(t, w, d)
    \/ \E t \in Threads : inCall(t)
    \/ \E s \in Streams : fire(s)
    \/ dispatch \/ clearInitOK \/ destructor
Spec == Init /\ [][Next]_vars
\* Calls go on, the queue runs its blocks and listeners return; the streams are
\* bounded, so that the mutex is free in the end for those who wait for it.
FairSpec ==
    /\ Spec /\ \A t \in Threads : WF_vars(inCall(t))
    /\ WF_vars(dispatch) /\ WF_vars(destructor)

-----------------------------------------------------------------------------
(* Properties.                                                             *)

\* While the object can be called it exists, and a stream that may still call
\* is not released (FileWatcherFSEvents.cpp:155-175, 244-257).
StreamAlive ==
    \A i \in DOMAIN queue :
        queue[i].kind \in {"callback", "release"} => stream[queue[i].of].st \in {"started", "stopped"}
ObjectAlive ==
    /\ closing = "done" =>
        /\ running.pc = "idle" /\ \A i \in DOMAIN queue : queue[i].kind # "callback"
        /\ \A s \in Streams : ~Started(s)
    /\ StreamAlive

\* A listener is not called for a watch whose removal has returned to a
\* client (cross_dir_and_watcher.cpp:102, watch_lifetime.cpp:75).  One case is
\* left: a removal whose rebuild failed waits for nothing (372, 376), and the
\* callback that was under way, which has the watch in its copy, may call it
\* once more; no later callback does.
SilentAfterRemove == running.cur \in removed => running.cur \in unawaited

\* One stream is started, and it covers every watch: a rebuild that fails
\* leaves the watch out or the old stream in.  A directory has one watch, also
\* when two threads add it.
CoveredByStream ==
    /\ Unlocked /\ closing = "no" =>
        /\ {s \in Streams : Started(s)} = {mStream} \ {NULL}
        /\ mWatching /\ mWatches # {} => mStream # NULL /\ Directories(mWatches) \subseteq stream[mStream].paths
    /\ \A v, w \in mWatches : dir[v] = dir[w] => v = w

\* Calls return, and a stopped stream is released: neither the barrier nor
\* the release waits for a block that waits for it.
CallsReturn ==
    /\ (\E t \in Threads : thread[t].pc = "release")
         ~> (\A t \in Threads : thread[t].pc \notin {"release", "barrier", "passed"})
    /\ (\E s \in Streams : stream[s].st = "stopped") ~> (\A s \in Streams : stream[s].st # "stopped")
=============================================================================
