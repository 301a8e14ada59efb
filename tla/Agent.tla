-------------------------------- MODULE Agent --------------------------------
(***************************************************************************)
(* efsw-agent: the main thread handles the client's requests in order, the *)
(* threads of its FileWatchers call onEvent and onMissed, and the writer   *)
(* thread owns stdout.  They share three mutexes and a condition variable; *)
(* a step here is one critical section, or one frame read or written.      *)
(*                                                                         *)
(* The FileWatchers are reduced to what the agent sees of them: watches    *)
(* that are added and removed, and callbacks, made one at a time by the    *)
(* watcher's thread, that addWatch and removeWatch wait for.  The client   *)
(* is one the protocol is meant for: it lists the directory when WATCH_OK  *)
(* arrives, lists it again on MISSED_EVENTS, and uses a watch id for one   *)
(* watch at a time, always the lowest that is free.                        *)
(***************************************************************************)
EXTENDS Naturals, FiniteSets, SequencesExt

CONSTANTS
    Ids,         \* watch ids the client uses
    Paths,       \* directories it watches
    MaxRequests, \* bound: requests the client sends
    MaxChanges,  \* bound: changes made to each directory
    MaxMissed,   \* bound: times a watcher loses events
    MaxPipe      \* frames stdout takes before a write waits for the client

ASSUME AgentAssumption ==
    /\ IsFiniteSet(Ids) /\ Ids \subseteq Nat
    /\ {MaxRequests, MaxChanges, MaxMissed} \subseteq Nat /\ MaxPipe \in Nat \ {0}

\* Keys of mWatchers: a native and a generic FileWatcher for one set of options.
Native == 0
Generic == 1
Keys == {Native, Generic}

VARIABLES
    changes,        \* changes made to each directory so far
    losses,         \* times a watcher lost events
    active,         \* the efsw watches: key, efswId, path
    issued,         \* per watcher: watch ids it has given out
    raw,            \* per watcher: native events its thread has not taken
    callback,       \* per watcher: the listener call in progress
    watchers,       \* mWatchers: keys whose FileWatcher exists
    closing,        \* keys whose FileWatcher is being destroyed
    mpc,            \* the main thread
    req,            \* locals of handle()
    handled,        \* requests handled
    code,           \* what run() returned, and the exit code
    mWatches,       \* watch id -> efsw watch
    mByEfsw,        \* efsw watch -> watch id, a set of pairs
    mOutgoing, mPendingEvents, mPendingMissed, mStop,
    wpc,            \* the writer: "check", "waiting", "write", "done"
    flush,          \* frames the writer took and has not written
    out,            \* stdout: frames written and not read by the client
    replied,        \* replies written
    ended,          \* ghost: efsw watches whose UNWATCH_OK was written
    client,         \* the client's state of each id, and its directory
    known,          \* the changes of its directory the client knows of
    gone            \* the client closed the connection

disk     == <<changes, losses>>
backend  == <<active, issued, raw, callback, watchers, closing>>
main     == <<mpc, req, handled, code>>
maps     == <<mWatches, mByEfsw>>
outbox   == <<mOutgoing, mPendingEvents, mPendingMissed, mStop>>
writer   == <<wpc, flush, replied, ended>>
peer     == <<client, known, gone>>
vars     == <<disk, backend, main, maps, outbox, writer, out, peer>>

None == [id |-> 0]
NoRequest == [kind |-> "none"]
NotUsed == [state |-> "none"]
Idle == [pc |-> "idle"]
Missed == <<>>   \* in the place of a change: a call of handleMissedFileActions

\* The elements of s at the places of a set, in their order.
Kept(s, places) ==
    LET kept[n \in 0..Len(s)] ==
            IF n = 0 THEN <<>>
            ELSE IF n \in places THEN Append(kept[n - 1], s[n]) ELSE kept[n - 1]
    IN kept[Len(s)]

Made(path) == {path} \X (1..changes[path])
Efsw(w) == [key |-> w.key, efswId |-> w.efswId]

-----------------------------------------------------------------------------
(* mOutReady.  Notified after the mutex is released; the writer tests its  *)
(* condition with the mutex held, before it waits and after it wakes.      *)

notify == wpc' = IF wpc = "waiting" THEN "check" ELSE wpc

send(frame) ==
    /\ mOutgoing' = Append(mOutgoing, frame)
    /\ notify
    /\ UNCHANGED <<mPendingEvents, mPendingMissed, mStop, flush, replied, ended>>

-----------------------------------------------------------------------------
(* The FileWatchers.                                                       *)

\* A change of a directory: every watch of it will get an event.
change(path) ==
    /\ changes[path] < MaxChanges
    /\ changes' = [changes EXCEPT ![path] = @ + 1]
    /\ raw' = [k \in Keys |-> raw[k] \o
            SetToSeq({[efsw |-> Efsw(w), change |-> <<path, changes[path] + 1>>] :
                        w \in {w \in active : w.key = k /\ w.path = path}})]
    /\ UNCHANGED <<losses, active, issued, callback, watchers, closing, main, maps, outbox,
                   writer, out, peer>>

\* A native buffer overflows: the events of a watch become one missed event.
lose(w) ==
    /\ losses < MaxMissed /\ losses' = losses + 1
    /\ raw' = [raw EXCEPT ![w.key] =
            Append(Kept(@, {i \in DOMAIN @ : @[i].efsw # Efsw(w)}),
                   [efsw |-> Efsw(w), change |-> Missed])]
    /\ UNCHANGED <<changes, active, issued, callback, watchers, closing, main, maps, outbox,
                   writer, out, peer>>

\* lookup(), with mWatchesMutex: the ids of the watch, one or none.
lookup(efsw) == {p[2] : p \in {p \in mByEfsw : p[1] = efsw}}

\* The watcher's thread calls the listener, which looks the watch up and drops the
\* event if it is not there.  The watch may have been removed since the event was
\* taken.  Before the lookup a callback holds nothing but its own thread, which
\* addWatch, removeWatch and the destructor wait for, so one step does for both.
startCallback(key) ==
    /\ callback[key] = Idle /\ raw[key] # <<>> /\ key \notin closing
    /\ raw' = [raw EXCEPT ![key] = Tail(@)]
    /\ LET event == Head(raw[key]) IN
       \/ lookup(event.efsw) = {} /\ UNCHANGED callback
       \/ \E id \in lookup(event.efsw) : callback' = [callback EXCEPT ![key] =
            [pc |-> "push", efsw |-> event.efsw, change |-> event.change, id |-> id]]
    /\ UNCHANGED <<disk, active, issued, watchers, closing, main, maps, outbox, writer, out, peer>>

\* Mutants: events are dropped for a rescan nobody asks for; the writer is not
\* woken up.
pushUnmissed(key) ==
    LET cb == callback[key] IN
    /\ cb.pc = "push"
    /\ callback' = [callback EXCEPT ![key] = Idle]
    /\ mPendingEvents' = [mPendingEvents EXCEPT ![cb.id] =
            IF cb.change = Missed THEN <<>>
            ELSE Append(@, [efsw |-> cb.efsw, change |-> cb.change])]
    /\ notify
    /\ UNCHANGED <<disk, active, issued, raw, watchers, closing, main, maps, mOutgoing,
                   mPendingMissed, mStop, flush, replied, ended, out, peer>>
pushUnnotified(key) ==
    LET cb == callback[key] IN
    /\ cb.pc = "push"
    /\ callback' = [callback EXCEPT ![key] = Idle]
    /\ IF cb.change = Missed
       THEN /\ mPendingEvents' = [mPendingEvents EXCEPT ![cb.id] = <<>>]
            /\ mPendingMissed' = Append(mPendingMissed, cb.id)
       ELSE /\ mPendingEvents' = [mPendingEvents EXCEPT ![cb.id] =
                    Append(@, [efsw |-> cb.efsw, change |-> cb.change])]
            /\ UNCHANGED mPendingMissed
    /\ UNCHANGED <<disk, active, issued, raw, watchers, closing, main, maps, mOutgoing,
                   mStop, writer, out, peer>>

\* onEvent and onMissed, with mOutMutex.
push(key) ==
    LET cb == callback[key] IN
    /\ cb.pc = "push"
    /\ callback' = [callback EXCEPT ![key] = Idle]
    /\ IF cb.change = Missed
       THEN /\ mPendingEvents' = [mPendingEvents EXCEPT ![cb.id] = <<>>]
            /\ mPendingMissed' = Append(mPendingMissed, cb.id)
       ELSE /\ mPendingEvents' = [mPendingEvents EXCEPT ![cb.id] =
                    Append(@, [efsw |-> cb.efsw, change |-> cb.change])]
            /\ UNCHANGED mPendingMissed
    /\ notify
    /\ UNCHANGED <<disk, active, issued, raw, watchers, closing, main, maps, mOutgoing, mStop,
                   flush, replied, ended, out, peer>>

-----------------------------------------------------------------------------
(* The main thread: run() and handle().                                    *)

Read(kind) ==
    /\ mpc = "read" /\ handled < MaxRequests
    /\ handled' = handled + 1
    /\ UNCHANGED code

\* addWatch: the FileWatcher of the key is created and started on first use.
\* It refuses a directory it already watches, and others for its own reasons.
\* inotify and the generic watcher hold the lock their callbacks hold.
fileWatcherAddWatch(id, path, key) ==
    /\ callback[key] = Idle
    /\ watchers' = watchers \cup {key}
    /\ \/ /\ \A w \in active : w.key = key => w.path # path
          /\ LET efswId == issued[key] + 1 IN
             /\ issued' = [issued EXCEPT ![key] = efswId]
             /\ active' = active \cup {[key |-> key, efswId |-> efswId, path |-> path]}
             /\ req' = [kind |-> "watch", id |-> id, key |-> key, efswId |-> efswId]
          /\ mpc' = "register"
       \/ /\ UNCHANGED <<active, issued>>
          /\ req' = [kind |-> "watch", id |-> id, path |-> path]
          /\ mpc' = IF key = Native THEN "fallback" ELSE "error"

\* WATCH: the native watcher, unless the client wants the generic one ...
watch(id, path, generic) ==
    /\ Read("watch")
    /\ client[id] = NotUsed /\ \A lower \in Ids : lower < id => client[lower] # NotUsed
    /\ client' = [client EXCEPT ![id] = [state |-> "asked", path |-> path]]
    /\ fileWatcherAddWatch(id, path, IF generic THEN Generic ELSE Native)
    /\ UNCHANGED <<disk, raw, callback, closing, maps, outbox, writer, out, known, gone>>

\* ... and the generic one when the native one cannot watch the directory.  An
\* error that is no reason to poll is WATCH_ERROR at once.
fallback ==
    /\ mpc = "fallback"
    /\ \/ fileWatcherAddWatch(req.id, req.path, Generic)
       \/ mpc' = "error" /\ UNCHANGED <<active, issued, watchers, req>>
    /\ UNCHANGED <<disk, raw, callback, closing, handled, code, maps, outbox, writer, out, peer>>

\* Mutant: no break after the WATCH_ERROR.
watchErrorThrough ==
    /\ mpc = "error" /\ mpc' = "watchOk"
    /\ send([type |-> "WATCH_ERROR", id |-> req.id])
    /\ UNCHANGED <<disk, backend, req, handled, code, maps, out, peer>>

watchError ==
    /\ mpc = "error" /\ mpc' = "read"
    /\ send([type |-> "WATCH_ERROR", id |-> req.id])
    /\ req' = NoRequest
    /\ UNCHANGED <<disk, backend, handled, code, maps, out, peer>>

register ==
    /\ mpc = "register" /\ mpc' = "watchOk"
    /\ mWatches' = [mWatches EXCEPT ![req.id] = Efsw(req)]
    /\ mByEfsw' = {p \in mByEfsw : p[1] # Efsw(req)} \cup {<<Efsw(req), req.id>>}
    /\ UNCHANGED <<disk, backend, req, handled, code, outbox, writer, out, peer>>

watchOk ==
    /\ mpc = "watchOk" /\ mpc' = "read"
    /\ send([type |-> "WATCH_OK", id |-> req.id])
    /\ req' = NoRequest
    /\ UNCHANGED <<disk, backend, handled, code, maps, out, peer>>

\* Mutant: the map from the efsw watch keeps its entry.
unwatchHalf(id) ==
    /\ Read("unwatch")
    /\ client[id].state \in {"asked", "watching"}
    /\ client' = [client EXCEPT ![id].state = "leaving"]
    /\ mWatches' = [mWatches EXCEPT ![id] = None]
    /\ req' = [kind |-> "unwatch", id |-> id, efsw |-> mWatches[id]]
    /\ mpc' = IF mWatches[id] = None THEN "discard" ELSE "removeWatch"
    /\ UNCHANGED <<disk, backend, mByEfsw, outbox, writer, out, known, gone>>

\* UNWATCH: the maps first, so that later callbacks find nothing ...
unwatch(id) ==
    /\ Read("unwatch")
    /\ client[id].state \in {"asked", "watching"}
    /\ client' = [client EXCEPT ![id].state = "leaving"]
    /\ mWatches' = [mWatches EXCEPT ![id] = None]
    /\ mByEfsw' = {p \in mByEfsw : p[1] # mWatches[id]}
    /\ req' = [kind |-> "unwatch", id |-> id, efsw |-> mWatches[id]]
    /\ mpc' = IF mWatches[id] = None THEN "discard" ELSE "removeWatch"
    /\ UNCHANGED <<disk, backend, outbox, writer, out, known, gone>>

\* ... then the efsw watch, which waits for a callback in progress ...
removeWatch ==
    /\ mpc = "removeWatch" /\ mpc' = "discard"
    /\ callback[req.efsw.key] = Idle
    /\ active' = {w \in active : Efsw(w) # req.efsw}
    /\ UNCHANGED <<disk, issued, raw, callback, watchers, closing, req, handled, code, maps, outbox,
                   writer, out, peer>>

\* Mutant: what is pending stays.
discardNothing ==
    /\ mpc = "discard" /\ mpc' = "unwatchOk"
    /\ UNCHANGED <<disk, backend, req, handled, code, maps, outbox, writer, out, peer>>

\* ... then what that callback left pending.  mPendingMissed is not looked at.
discard ==
    /\ mpc = "discard" /\ mpc' = "unwatchOk"
    /\ mPendingEvents' = [mPendingEvents EXCEPT ![req.id] = <<>>]
    /\ UNCHANGED <<disk, backend, req, handled, code, maps, mOutgoing, mPendingMissed, mStop,
                   writer, out, peer>>

unwatchOk ==
    /\ mpc = "unwatchOk" /\ mpc' = "read"
    /\ send([type |-> "UNWATCH_OK", id |-> req.id, efsw |-> req.efsw])
    /\ req' = NoRequest
    /\ UNCHANGED <<disk, backend, handled, code, maps, out, peer>>

\* HELLO and PING are answered at once; a malformed or unknown frame is answered
\* with ERROR and ends run().
ping ==
    /\ Read("ping")
    /\ send([type |-> "PONG"])
    /\ UNCHANGED <<disk, backend, mpc, req, maps, out, peer>>

protocolError ==
    /\ mpc = "read" /\ handled < MaxRequests /\ handled' = handled + 1
    /\ send([type |-> "ERROR"])
    /\ mpc' = "close" /\ code' = 2
    /\ UNCHANGED <<disk, backend, req, maps, out, peer>>

\* The process ends, and its memory goes with it.  What it had not written stays
\* here as requests without an answer.
processEnds ==
    /\ mpc' = "exited"
    /\ active' = {} /\ issued' = [k \in Keys |-> 0] /\ watchers' = {} /\ closing' = {}
    /\ raw' = [k \in Keys |-> <<>>] /\ callback' = [k \in Keys |-> Idle]
    /\ mWatches' = [id \in Ids |-> None] /\ mByEfsw' = {}
    /\ mPendingEvents' = [id \in Ids |-> <<>>] /\ mPendingMissed' = <<>> /\ mStop' = FALSE
    /\ wpc' = "check" /\ ended' = {}
    /\ UNCHANGED <<disk, req, handled, mOutgoing, flush, replied, out, peer>>

\* stdin is at its end: main calls std::_Exit( 0 ), and nothing else is done.
endOfInput == mpc = "read" /\ code' = 0 /\ processEnds

-----------------------------------------------------------------------------
(* ~Agent, after a protocol error.                                         *)

\* The FileWatchers are destroyed one by one: no new callback, then the join.
closeWatcher(key) ==
    /\ mpc = "close" /\ key \in watchers /\ closing = {}
    /\ closing' = {key}
    /\ UNCHANGED <<disk, active, issued, raw, callback, watchers, main, maps, outbox, writer, out, peer>>

joinWatcher(key) ==
    /\ mpc = "close" /\ key \in closing /\ callback[key] = Idle
    /\ closing' = {} /\ watchers' = watchers \ {key}
    /\ active' = {w \in active : w.key # key}
    /\ raw' = [raw EXCEPT ![key] = <<>>]
    /\ UNCHANGED <<disk, issued, callback, main, maps, outbox, writer, out, peer>>

stop ==
    /\ mpc = "close" /\ watchers = {}
    /\ mStop' = TRUE
    /\ notify
    /\ mpc' = "join"
    /\ UNCHANGED <<disk, backend, req, handled, code, maps, mOutgoing, mPendingEvents,
                   mPendingMissed, flush, replied, ended, out, peer>>

exit ==
    /\ mpc = "join" /\ wpc = "done"
    /\ UNCHANGED code /\ processEnds

-----------------------------------------------------------------------------
(* writerLoop.                                                             *)

NothingPending ==
    /\ mOutgoing = <<>> /\ mPendingMissed = <<>>
    /\ \A id \in Ids : mPendingEvents[id] = <<>>

\* The writer takes all there is: replies, then missed events, then one batch
\* per watch.
takeOutput ==
    /\ wpc' = "write"
    /\ \E ids \in SetToSeqs({id \in Ids : mPendingEvents[id] # <<>>}) :
        /\ \A i, j \in DOMAIN ids : i < j => ids[i] < ids[j]
        /\ flush' = mOutgoing
            \o [i \in DOMAIN mPendingMissed |-> [type |-> "MISSED_EVENTS", id |-> mPendingMissed[i]]]
            \o [i \in DOMAIN ids |-> [type |-> "EVENT_BATCH", id |-> ids[i],
                                      events |-> mPendingEvents[ids[i]]]]
    /\ mOutgoing' = <<>> /\ mPendingMissed' = <<>>
    /\ mPendingEvents' = [id \in Ids |-> <<>>]
takeNothing ==
    /\ wpc' = IF mStop THEN "done" ELSE "waiting"
    /\ UNCHANGED <<flush, mOutgoing, mPendingEvents, mPendingMissed>>

\* Mutant: the writer returns as soon as it is told to stop.
checkStopFirst ==
    /\ wpc = "check"
    /\ IF NothingPending \/ mStop THEN takeNothing ELSE takeOutput
    /\ UNCHANGED <<disk, backend, main, maps, mStop, replied, ended, out, peer>>

\* The condition is tested: the writer waits, returns, or goes on.
checkOutput ==
    /\ wpc = "check"
    /\ IF NothingPending THEN takeNothing ELSE takeOutput
    /\ UNCHANGED <<disk, backend, main, maps, mStop, replied, ended, out, peer>>

writeOutput ==
    /\ wpc = "write" /\ ~gone /\ Len(out) < MaxPipe
    /\ LET frame == Head(flush) IN
       /\ out' = Append(out, frame)
       /\ replied' = IF frame.type \in {"EVENT_BATCH", "MISSED_EVENTS"}
                     THEN replied ELSE replied + 1
       /\ ended' = IF frame.type = "UNWATCH_OK" /\ frame.efsw # None
                   THEN ended \cup {frame.efsw} ELSE ended
    /\ flush' = Tail(flush)
    /\ wpc' = IF Len(flush) = 1 THEN "check" ELSE "write"
    /\ UNCHANGED <<disk, backend, main, maps, outbox, peer>>

\* Nobody reads stdout: the write fails and the writer calls std::exit( 3 ).
writeFailed ==
    /\ wpc = "write" /\ gone
    /\ code' = 3 /\ processEnds

-----------------------------------------------------------------------------
(* The client reads a frame.  It ignores what is about no watch of its own.*)

receive ==
    /\ out # <<>> /\ out' = Tail(out) /\ UNCHANGED gone
    /\ LET frame == Head(out) IN
       IF frame.type \in {"PONG", "ERROR"} THEN UNCHANGED peer ELSE
       LET id == frame.id
           state == client[id].state
           listing == IF state \in {"asked", "watching"} THEN Made(client[id].path) ELSE {}
       IN
       /\ client' = [client EXCEPT ![id] =
            CASE frame.type = "WATCH_OK" /\ state = "asked" -> [@ EXCEPT !.state = "watching"]
              [] frame.type = "WATCH_ERROR" /\ state = "asked" -> NotUsed
              [] frame.type = "UNWATCH_OK" -> NotUsed
              [] OTHER -> @]
       /\ known' = [known EXCEPT ![id] =
            CASE frame.type = "WATCH_OK" -> listing
              [] frame.type = "MISSED_EVENTS" /\ state = "watching" -> listing
              [] frame.type = "EVENT_BATCH" /\ state = "watching" ->
                    @ \cup {e.change : e \in ToSet(frame.events)}
              [] frame.type = "UNWATCH_OK" -> {}
              [] OTHER -> @]
    /\ UNCHANGED <<disk, backend, main, maps, outbox, writer>>

\* The connection is lost.  The requests it carried are still read.
hangUp ==
    /\ ~gone /\ gone' = TRUE /\ out' = <<>>
    /\ UNCHANGED <<disk, backend, main, maps, outbox, writer, client, known>>

-----------------------------------------------------------------------------
Init ==
    /\ changes = [p \in Paths |-> 0] /\ losses = 0
    /\ active = {} /\ issued = [k \in Keys |-> 0]
    /\ raw = [k \in Keys |-> <<>>] /\ callback = [k \in Keys |-> Idle]
    /\ watchers = {} /\ closing = {}
    /\ mpc = "read" /\ req = NoRequest /\ handled = 0 /\ code = 0
    /\ mWatches = [id \in Ids |-> None] /\ mByEfsw = {}
    /\ mOutgoing = <<>> /\ mPendingEvents = [id \in Ids |-> <<>>]
    /\ mPendingMissed = <<>> /\ mStop = FALSE
    /\ wpc = "check" /\ flush = <<>> /\ out = <<>> /\ replied = 0 /\ ended = {}
    /\ client = [id \in Ids |-> NotUsed] /\ known = [id \in Ids |-> {}]
    /\ gone = FALSE

Running == mpc # "exited"

World ==
    /\ Running
    /\ \/ \E path \in Paths : change(path)
       \/ \E w \in active : lose(w)
       \/ hangUp

Callback(key) == Running /\ (startCallback(key) \/ push(key))

NewRequest ==
    \/ \E id \in Ids, path \in Paths, generic \in BOOLEAN : watch(id, path, generic)
    \/ \E id \in Ids : unwatch(id)
    \/ ping \/ protocolError

handle ==
    \/ fallback \/ watchError \/ register \/ watchOk
    \/ removeWatch \/ discard \/ unwatchOk

Destructor ==
    \/ \E key \in Keys : closeWatcher(key) \/ joinWatcher(key)
    \/ stop \/ exit

writerLoop == Running /\ (checkOutput \/ writeOutput \/ writeFailed)

terminated == ~Running /\ UNCHANGED vars

Next ==
    \/ World \/ NewRequest \/ endOfInput \/ receive
    \/ \E key \in Keys : Callback(key)
    \/ handle \/ Destructor \/ writerLoop
    \/ terminated

Spec == Init /\ [][Next]_vars

\* Every thread of the agent runs, callbacks end, and the client reads stdout.
\* Nothing makes the client send anything or close stdin.
FairSpec ==
    /\ Spec
    /\ WF_vars(handle) /\ WF_vars(Destructor) /\ WF_vars(writerLoop) /\ WF_vars(receive)
    /\ \A key \in Keys : WF_vars(Callback(key))

-----------------------------------------------------------------------------
(* What the client has asked for and has had no reply to: the replies on   *)
(* their way, oldest first, and the request that is being handled.         *)

Asked(frame) ==
    CASE frame.type \in {"WATCH_OK", "WATCH_ERROR"} -> [kind |-> "watch", id |-> frame.id]
      [] frame.type = "UNWATCH_OK" -> [kind |-> "unwatch", id |-> frame.id]
      [] OTHER -> [kind |-> "other"]
Replies(frames) ==
    LET replies == Kept(frames, {i \in DOMAIN frames :
                                    frames[i].type \notin {"EVENT_BATCH", "MISSED_EVENTS"}})
    IN [i \in DOMAIN replies |-> Asked(replies[i])]
Unanswered ==
    IF gone THEN <<>>
    ELSE Replies(out \o flush \o mOutgoing)
         \o IF req = NoRequest THEN <<>> ELSE <<[kind |-> req.kind, id |-> req.id]>>

Channel == INSTANCE WatchChannel WITH pending <- Unanswered, open <- ~gone

-----------------------------------------------------------------------------
(* Properties.                                                             *)

\* Between requests the agent's two maps and the watches of its FileWatchers are
\* the same set: none is left running that no client id reaches.
MapsAgree ==
    mpc = "read" =>
        /\ {Efsw(w) : w \in active} = {mWatches[id] : id \in Ids} \ {None}
        /\ mByEfsw = {<<mWatches[id], id>> : id \in {i \in Ids : mWatches[i] # None}}

Serving == mpc \notin {"close", "join", "exited"}

\* Nothing is on its way to the client.
Delivered ==
    /\ \A key \in Keys : raw[key] = <<>> /\ callback[key] = Idle
    /\ NothingPending /\ flush = <<>> /\ out = <<>>

\* The listing made on WATCH_OK and the events after it leave no gap: an event
\* dropped because its watch was not registered yet is in the listing, and one
\* that was superseded by a missed event is in the listing that follows it.
NoChangeLost ==
    Delivered => \A id \in Ids :
        client[id].state = "watching" /\ Serving /\ ~gone
            => known[id] = Made(client[id].path)

\* Once UNWATCH_OK is written no event of that watch is, so the id can be used
\* again: a callback that was late, or held pending, or taken, is not in the way.
NoEventAfterUnwatch ==
    [][writeOutput /\ Head(flush).type = "EVENT_BATCH" =>
            \A e \in ToSet(Head(flush).events) : e.efsw \notin ended]_vars

\* The agent is a WatchChannel: its replies come one for each request and in
\* order, through the queue, the swap and the writer, and a batch written for an
\* id never tells of a directory the id was used for before.
ChannelSpec == Channel!Spec

\* After a protocol error the agent exits, with every request answered, the ERROR
\* included: destroying the watchers and joining the writer ends, whatever is
\* pending, if the client reads its end of the pipe or has hung up; one that stays
\* and does not read blocks the writer, and so the join, for good.
Exits == mpc = "close" ~> ~Running /\ (code = 2 => replied = handled)

\* What happens in a directory that stays watched reaches the client: while it is
\* served it is up to date again and again, whatever was pushed or dropped.
EventuallyKnown ==
    []<>(\/ ~Serving \/ gone
         \/ \A id \in Ids : client[id].state = "watching" => known[id] = Made(client[id].path))
=============================================================================
