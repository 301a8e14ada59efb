-------------------------- MODULE FSEventsStreamProofs --------------------------
(***************************************************************************)
(* Proofs about FSEventsStream: that a watch is never left out of the      *)
(* stream that is started, that its listener is silent once its removal    *)
(* has returned, and that a stream outlives the callbacks queued for it.   *)
(*                                                                         *)
(* The argument.  A stopped stream has one keeper: the thread that replaced*)
(* it, or one block of the queue.  A keeper that is a thread waits with a  *)
(* barrier that is behind every callback of the stream, and one that is a  *)
(* block is itself behind them; no callback is queued for a stopped stream,*)
(* so none is left when the keeper releases it.  Running a barrier means   *)
(* that no callback runs, and the next one copies mWatches, where a removed*)
(* watch is not.  A removal whose rebuild fails has no keeper, and only the*)
(* copy of the callback that runs can still hold its watch.                *)
(***************************************************************************)
EXTENDS FSEventsStream, SequenceTheorems, TLAPS

-----------------------------------------------------------------------------
(* The inductive invariant.                                                *)

Blocks ==
    [kind : {"callback", "release"}, of : Streams] \cup [kind : {"barrier"}, of : Threads]
Callbacks ==
    [pc : {"idle", "copy", "loop", "call"}, watches : SUBSET Watches, cur : Watches \cup {NULL}]
Calls ==
    [pc : {"idle", "insert", "stopOld", "release", "barrier", "passed"},
     watch : Watches \cup {NULL}, old : Streams \cup {NULL}]

TypeOK ==
    /\ dir \in [Watches -> Dirs \cup {NULL}]
    /\ mWatches \in SUBSET Watches
    /\ mWatching \in BOOLEAN /\ mInitOK \in BOOLEAN
    /\ mStream \in Streams \cup {NULL}
    /\ mWatchesMutex \in Threads \cup {NULL}
    /\ stream \in [Streams -> [st : {"new", "started", "stopped", "released"},
                               paths : SUBSET (Dirs \cup {NULL})]]
    /\ queue \in Seq(Blocks)
    /\ running \in Callbacks
    /\ thread \in [Threads -> Calls]
    /\ closing \in {"no", "stop", "clear", "done"}
    /\ removed \in SUBSET Watches /\ unawaited \in SUBSET Watches

\* A thread that replaced a stream keeps it until it is released.
Keeps(t) == thread[t].pc \in {"stopOld", "release", "barrier", "passed"}

\* The current stream, and the one that is being replaced with the mutex held.
CurrentInv ==
    /\ mStream # NULL => Started(mStream)
    /\ \A s \in Streams : Started(s) =>
            s = mStream \/ \E t \in Threads : thread[t].pc = "stopOld" /\ thread[t].old = s
    /\ \A t \in Threads : thread[t].pc = "stopOld" => mWatchesMutex = t /\ mStream # NULL
    /\ ~mWatching => \A s \in Streams : stream[s].st = "new"

\* Every other stream that was started has one keeper.
KeeperInv ==
    /\ \A t \in Threads : Keeps(t) =>
        /\ thread[t].old \in Streams \ {mStream}
        /\ stream[thread[t].old].st = IF thread[t].pc = "stopOld" THEN "started" ELSE "stopped"
    /\ \A t, u \in Threads : Keeps(t) /\ Keeps(u) /\ thread[t].old = thread[u].old => t = u
    /\ \A i \in 1..Len(queue) : queue[i].kind = "release" =>
        /\ stream[queue[i].of].st = "stopped"
        /\ \A t \in Threads : Keeps(t) => thread[t].old # queue[i].of
        /\ \A j \in 1..Len(queue) :
            queue[j].kind = "release" /\ queue[j].of = queue[i].of => i = j
    /\ \A t \in Threads : thread[t].pc = "idle" => thread[t] = Idle

\* Callbacks are in front of what waits for them.
OrderInv ==
    /\ \A i \in 1..Len(queue) :
        queue[i].kind = "callback" => stream[queue[i].of].st \in {"started", "stopped"}
    /\ \A i, j \in 1..Len(queue) : i < j /\ queue[j].kind = "callback" =>
        /\ queue[i].kind = "release" => queue[i].of # queue[j].of
        /\ queue[i].kind = "barrier" => thread[queue[i].of].old # queue[j].of
    /\ \A i \in 1..Len(queue) : queue[i].kind = "barrier" =>
        /\ thread[queue[i].of].pc = "barrier"
        /\ \A j \in 1..Len(queue) :
            queue[j].kind = "barrier" /\ queue[j].of = queue[i].of => i = j
    /\ \A t \in Threads : thread[t].pc = "passed" =>
        \A i \in 1..Len(queue) : queue[i].kind = "callback" => queue[i].of # thread[t].old

\* The callback that runs is the first block.
RunningInv ==
    /\ running.pc = "idle" => running = NoCallback
    /\ running.pc # "idle" => queue # << >> /\ queue[1].kind = "callback"

\* A watch is added once, and what a keeper or a client has removed stays away.
WatchInv ==
    /\ \A w \in mWatches \cup removed : dir[w] # NULL
    /\ mWatches \cap removed = {}
    /\ \A t \in Threads : thread[t].watch # NULL =>
        dir[thread[t].watch] # NULL /\ thread[t].watch \notin mWatches
    /\ \A t \in Threads : thread[t].pc = "insert" =>
        /\ thread[t].watch # NULL /\ thread[t].watch \notin removed
        /\ \A u \in Threads : thread[u].watch = thread[t].watch => u = t
    /\ \A v, w \in mWatches : dir[v] = dir[w] => v = w

\* What the running callback copied.
SilentInv ==
    /\ removed \cap (running.watches \cup {running.cur}) \subseteq unawaited
    /\ \A t \in Threads : thread[t].pc = "passed" /\ thread[t].watch # NULL =>
        thread[t].watch \notin running.watches \cup {running.cur}

CoverInv ==
    closing = "no" /\ mWatching /\ mWatches # {} =>
        mStream # NULL /\ Directories(mWatches) \subseteq stream[mStream].paths

\* The thread that destroys the object is in no call before.
ClosingInv ==
    /\ closing \in {"no", "stop"} => thread[Owner] = Idle
    /\ thread[Owner].pc \notin {"insert", "stopOld"}

IInv ==
    /\ TypeOK /\ CurrentInv /\ KeeperInv /\ OrderInv /\ RunningInv /\ WatchInv /\ SilentInv
    /\ CoverInv /\ ClosingInv

-----------------------------------------------------------------------------
(* The queue.                                                              *)

\* A block that is queued goes to the end.
LEMMA QueueAppend ==
    ASSUME TypeOK, NEW b \in Blocks, queue' = Append(queue, b)
    PROVE  /\ queue' \in Seq(Blocks) /\ Len(queue') = Len(queue) + 1
           /\ \A i \in 1..Len(queue) : queue'[i] = queue[i]
           /\ queue'[Len(queue) + 1] = b
BY DEF TypeOK

\* A block that has run leaves the others in their order.
LEMMA QueueTail ==
    ASSUME TypeOK, queue # << >>, queue' = Tail(queue)
    PROVE  /\ queue' \in Seq(Blocks) /\ Len(queue) \in Nat \ {0} /\ Len(queue') = Len(queue) - 1
           /\ \A i \in 1..Len(queue') : i + 1 \in 1..Len(queue) /\ queue'[i] = queue[i + 1]
           /\ Head(queue) = queue[1]
BY DEF TypeOK

\* What each kind of block is about.
LEMMA BlockTypes ==
    ASSUME TypeOK, NEW i \in 1..Len(queue)
    PROVE  /\ queue[i].kind \in {"callback", "release"} => queue[i].of \in Streams
           /\ queue[i].kind = "barrier" => queue[i].of \in Threads
<1>1. queue[i] \in Blocks
  BY DEF TypeOK
<1> QED  BY <1>1 DEF Blocks

\* The block that runs is the first one.
LEMMA HeadBlock ==
    ASSUME TypeOK, NEW kind, Running(kind), queue' = Tail(queue)
    PROVE  1 \in 1..Len(queue) /\ Head(queue) = queue[1] /\ queue[1].kind = kind
<1>1. Len(queue) \in Nat \ {0} /\ Head(queue) = queue[1]
  BY QueueTail DEF Running
<1> QED  BY <1>1 DEF Running

\* Blocks keep their order when the first one has run.
LEMMA OrderTail ==
    ASSUME IInv, queue # << >>, queue' = Tail(queue), UNCHANGED <<stream, thread>>
    PROVE  OrderInv'
<1>1. \A i \in 1..Len(queue') : i + 1 \in 1..Len(queue) /\ queue'[i] = queue[i + 1]
  BY QueueTail DEF IInv
<1>2. \A i \in 1..Len(queue') : queue'[i].kind = "callback" =>
          stream'[queue'[i].of].st \in {"started", "stopped"}
  BY <1>1 DEF IInv, OrderInv
<1>3. \A i, j \in 1..Len(queue') : i < j /\ queue'[j].kind = "callback" =>
      /\ queue'[i].kind = "release" => queue'[i].of # queue'[j].of
      /\ queue'[i].kind = "barrier" => thread'[queue'[i].of].old # queue'[j].of
  <2>1. SUFFICES ASSUME NEW i \in 1..Len(queue'), NEW j \in 1..Len(queue'), i < j,
                        queue'[j].kind = "callback"
                 PROVE  /\ queue'[i].kind = "release" => queue'[i].of # queue'[j].of
                        /\ queue'[i].kind = "barrier" => thread'[queue'[i].of].old # queue'[j].of
    OBVIOUS
  <2>2. i + 1 < j + 1 /\ i + 1 \in 1..Len(queue) /\ j + 1 \in 1..Len(queue)
    BY <1>1, <2>1
  <2> QED  BY <1>1, <2>1, <2>2 DEF IInv, OrderInv
<1>4. \A i \in 1..Len(queue') : queue'[i].kind = "barrier" =>
      /\ thread'[queue'[i].of].pc = "barrier"
      /\ \A j \in 1..Len(queue') :
          queue'[j].kind = "barrier" /\ queue'[j].of = queue'[i].of => i = j
  <2>1. SUFFICES ASSUME NEW i \in 1..Len(queue'), queue'[i].kind = "barrier"
                 PROVE  /\ thread'[queue'[i].of].pc = "barrier"
                        /\ \A j \in 1..Len(queue') :
                              queue'[j].kind = "barrier" /\ queue'[j].of = queue'[i].of => i = j
    OBVIOUS
  <2> QED  BY <1>1, <2>1 DEF IInv, OrderInv
<1>5. \A u \in Threads : thread'[u].pc = "passed" =>
      \A i \in 1..Len(queue') : queue'[i].kind = "callback" => queue'[i].of # thread'[u].old
  BY <1>1 DEF IInv, OrderInv
<1> QED  BY <1>2, <1>3, <1>4, <1>5 DEF OrderInv

\* The releases that are left when the first block has run are as they were.
LEMMA ReleasesTail ==
    ASSUME IInv, queue # << >>, queue' = Tail(queue)
    PROVE  \A i \in 1..Len(queue') : queue'[i].kind = "release" =>
              /\ stream[queue'[i].of].st = "stopped"
              /\ \A u \in Threads : Keeps(u) => thread[u].old # queue'[i].of
              /\ \A j \in 1..Len(queue') :
                  queue'[j].kind = "release" /\ queue'[j].of = queue'[i].of => i = j
<1>1. \A i \in 1..Len(queue') : i + 1 \in 1..Len(queue) /\ queue'[i] = queue[i + 1]
  BY QueueTail DEF IInv
<1>2. SUFFICES ASSUME NEW i \in 1..Len(queue'), queue'[i].kind = "release"
               PROVE  /\ stream[queue'[i].of].st = "stopped"
                      /\ \A u \in Threads : Keeps(u) => thread[u].old # queue'[i].of
                      /\ \A j \in 1..Len(queue') :
                            queue'[j].kind = "release" /\ queue'[j].of = queue'[i].of => i = j
  OBVIOUS
<1> QED  BY <1>1, <1>2 DEF IInv, KeeperInv

-----------------------------------------------------------------------------
(* Who keeps which stream.                                                 *)

\* A call that ends keeps nothing.
LEMMA FailedKeeps ==
    ASSUME IInv, NEW t \in Threads, ~Keeps(t), Failed(t), UNCHANGED queue
    PROVE  KeeperInv' /\ OrderInv'
<1>1. KeeperInv'
  BY DEF IInv, TypeOK, KeeperInv, Keeps, Failed, Idle
<1>2. OrderInv'
  BY BlockTypes DEF IInv, TypeOK, OrderInv, Keeps, Failed, Idle
<1> QED  BY <1>1, <1>2

\* A rebuild starts a stream nobody knows yet, and keeps the one it replaced.
LEMMA RebuildKeeps ==
    ASSUME IInv, NEW t \in Threads, ~Keeps(t), NEW w, NEW s \in Streams, NEW ws,
           rebuildStream(t, w, s, ws), UNCHANGED queue
    PROVE  KeeperInv' /\ OrderInv'
<1>1. /\ s # mStream /\ \A u \in Threads : Keeps(u) => thread[u].old # s
      /\ \A i \in 1..Len(queue) : queue[i].kind \in {"callback", "release"} => queue[i].of # s
  <2>1. stream[s].st = "new"
    BY DEF rebuildStream
  <2>2. s # mStream
    BY StreamAssumption, <2>1 DEF IInv, CurrentInv, Started
  <2>3. \A u \in Threads : Keeps(u) => thread[u].old # s
    BY <2>1 DEF IInv, KeeperInv
  <2> QED  BY <2>1, <2>2, <2>3 DEF IInv, KeeperInv, OrderInv
<1>2. mStream # NULL => /\ Started(mStream) /\ mStream \in Streams
                        /\ \A u \in Threads : Keeps(u) => thread[u].old # mStream
                        /\ \A i \in 1..Len(queue) : queue[i].kind = "release" => queue[i].of # mStream
  BY DEF IInv, TypeOK, CurrentInv, KeeperInv, Started
<1>3. CASE mStream = NULL
  <2>1. /\ thread' = [thread EXCEPT ![t] = Idle] /\ mStream' = s
        /\ stream' = [stream EXCEPT ![s] = [st |-> "started", paths |-> Directories(ws)]]
    BY <1>3 DEF rebuildStream
  <2>2. KeeperInv'
    BY StreamAssumption, BlockTypes, <1>1, <2>1 DEF IInv, TypeOK, KeeperInv, Keeps, Idle
  <2>3. OrderInv'
    BY StreamAssumption, BlockTypes, <1>1, <2>1 DEF IInv, TypeOK, OrderInv, Keeps, Idle
  <2> QED  BY <2>2, <2>3
<1>4. CASE mStream # NULL
  <2>1. /\ thread' = [thread EXCEPT ![t] = [pc |-> "stopOld", watch |-> w, old |-> mStream]]
        /\ stream' = [stream EXCEPT ![s] = [st |-> "started", paths |-> Directories(ws)]]
        /\ mStream' = s
    BY <1>4 DEF rebuildStream
  <2>2. KeeperInv'
    BY BlockTypes, <1>1, <1>2, <1>4, <2>1 DEF IInv, TypeOK, KeeperInv, Keeps, Idle, Started
  <2>3. OrderInv'
    BY BlockTypes, <1>1, <1>2, <1>4, <2>1 DEF IInv, TypeOK, OrderInv, Keeps, Started
  <2> QED  BY <2>2, <2>3
<1> QED  BY <1>3, <1>4

\* Before watch() has started a stream no callback runs.
LEMMA NoCallbackYet ==
    ASSUME IInv, ~mWatching
    PROVE  running = NoCallback
<1> SUFFICES ASSUME running.pc # "idle" PROVE FALSE
  BY DEF IInv, RunningInv
<1>1. 1 \in 1..Len(queue) /\ queue[1].kind = "callback"
  BY DEF IInv, TypeOK, RunningInv
<1>2. queue[1].of \in Streams /\ stream[queue[1].of].st \in {"started", "stopped"}
  BY BlockTypes, <1>1 DEF IInv, OrderInv
<1> QED  BY <1>2 DEF IInv, CurrentInv

-----------------------------------------------------------------------------
(* One lemma for each action: it preserves the invariant.                   *)

\* watch() starts the first stream, or none while there are no watches.
LEMMA StepWatch ==
    ASSUME IInv, NEW t \in Clients \cup {Queue}, watch(t)
    PROVE  IInv'
<1>1. TypeOK'
  <2>1. thread' \in [Threads -> Calls]
    BY DEF IInv, TypeOK, Threads, Calls, Idle, watch, rebuildStream, Failed
  <2>2. stream' \in [Streams -> [st : {"new", "started", "stopped", "released"},
                               paths : SUBSET (Dirs \cup {NULL})]]
    BY DEF IInv, TypeOK, watch, rebuildStream, Failed, Stop, Directories
  <2>3. mStream' \in Streams \cup {NULL} /\ mWatchesMutex' \in Threads \cup {NULL}
    BY StreamAssumption DEF IInv, TypeOK, Threads, watch, rebuildStream, Failed
  <2> QED  BY <2>1, <2>2, <2>3 DEF IInv, TypeOK, watch
<1>2. CurrentInv'
  BY DEF IInv, CurrentInv, TypeOK, watch, CanCall, Unlocked, Failed, rebuildStream, Idle,
      Directories, Started, Threads, Callbacks, Calls
<1>3. KeeperInv'
  BY BlockTypes DEF IInv, KeeperInv, TypeOK, CurrentInv, watch, CanCall, Unlocked, Failed,
      rebuildStream, Idle, Directories, Threads, Keeps, Callbacks, Calls, Started
<1>4. OrderInv'
  BY BlockTypes DEF IInv, OrderInv, CurrentInv, KeeperInv, watch, CanCall, Unlocked, Failed,
      rebuildStream, Idle, Directories, Threads, Started, Keeps
<1>5. WatchInv'
  BY StreamAssumption, QueueTail DEF IInv, WatchInv, TypeOK, watch, CanCall, Unlocked,
      Failed, rebuildStream, Idle, Directories, Threads, Callbacks, Calls
<1>6. SilentInv'
  <2>1. \A u \in Threads : thread'[u].pc = "passed" => thread'[u] = thread[u]
    BY DEF IInv, TypeOK, Idle, watch, Failed, rebuildStream
  <2> QED  BY <2>1 DEF IInv, SilentInv, watch
<1>7. CoverInv'
  BY StreamAssumption DEF IInv, CoverInv, TypeOK, watch, CanCall, Unlocked, Failed,
      rebuildStream, Idle, Directories, Threads, Callbacks, Calls
<1>9. ClosingInv'
  BY BlockTypes DEF IInv, ClosingInv, TypeOK, CurrentInv, OrderInv, RunningInv, watch,
      CanCall, Unlocked, Failed, rebuildStream, Idle, Directories, Threads, Callbacks,
      Calls, Started, NoCallback
<1>10. RunningInv'
  BY DEF IInv, RunningInv, watch, CanCall, Unlocked, Failed, rebuildStream, Idle,
      Directories, NoCallback
<1> QED  BY <1>1, <1>2, <1>3, <1>4, <1>5, <1>6, <1>7, <1>9, <1>10 DEF IInv

\* A removal stops the last stream itself, and leaves a replaced one to the
\* rest of its call.
LEMMA StepRemoveWatch ==
    ASSUME IInv, NEW t \in Clients \cup {Queue}, NEW w \in Watches, removeWatch(t, w)
    PROVE  IInv'
<1>1. TypeOK'
  <2>1. thread' \in [Threads -> Calls]
    <3>1. Idle \in Calls /\ \A s \in Streams : \A pc \in {"release", "stopOld"} :
            [pc |-> pc, watch |-> w, old |-> s] \in Calls
      BY DEF Calls, Idle
    <3>2. \E c \in Calls : thread' = [thread EXCEPT ![t] = c]
      BY <3>1 DEF IInv, TypeOK, removeWatch, rebuildStream, Failed
    <3> QED  BY <3>2 DEF IInv, TypeOK
  <2>2. stream' \in [Streams -> [st : {"new", "started", "stopped", "released"},
                               paths : SUBSET (Dirs \cup {NULL})]]
    BY DEF IInv, TypeOK, removeWatch, rebuildStream, Failed, Stop, Directories
  <2>3. mStream' \in Streams \cup {NULL} /\ mWatchesMutex' \in Threads \cup {NULL}
    BY StreamAssumption DEF IInv, TypeOK, Threads, removeWatch, rebuildStream, Failed
  <2>4. removed' \in SUBSET Watches /\ unawaited' \in SUBSET Watches
    BY DEF IInv, TypeOK, removeWatch, returned
  <2> QED  BY <2>1, <2>2, <2>3, <2>4 DEF IInv, TypeOK, removeWatch
<1>2. CurrentInv'
  <2>1. t \in Threads /\ thread[t].pc \in {"idle"} /\ UNCHANGED mWatching /\ mWatchesMutex = NULL
    BY DEF Threads, CanCall, Idle, removeWatch, Unlocked
  <2>2. CASE Failed(t)
    BY <2>1, <2>2 DEF IInv, TypeOK, CurrentInv, Failed, Idle, Started
  <2>3. CASE mWatching /\ \E s \in Streams : rebuildStream(t, w, s, mWatches \ {w})
    BY StreamAssumption, <2>1, <2>3
       DEF IInv, TypeOK, CurrentInv, rebuildStream, Idle, Started, Threads
  <2>4. CASE /\ mWatching
             /\ stream' = Stop(stream, mStream)
             /\ mStream' = NULL
             /\ thread' = [thread EXCEPT ![t] = IF mStream = NULL THEN Idle
                                ELSE [pc |-> "release", watch |-> w, old |-> mStream]]
             /\ UNCHANGED mWatchesMutex
    BY StreamAssumption, <2>1, <2>4 DEF IInv, TypeOK, CurrentInv, Stop, Idle, Started, Threads
  <2> QED  BY <2>2, <2>3, <2>4 DEF removeWatch
<1>3. KeeperInv'
  <2>1. t \in Threads /\ ~Keeps(t) /\ UNCHANGED queue
    BY DEF Threads, CanCall, Idle, Keeps, removeWatch
  <2>2. CASE Failed(t) \/ \E s \in Streams : rebuildStream(t, w, s, mWatches \ {w})
    BY FailedKeeps, RebuildKeeps, <2>1, <2>2
  <2>3. CASE /\ stream' = Stop(stream, mStream)
             /\ mStream' = NULL
             /\ thread' = [thread EXCEPT ![t] = IF mStream = NULL THEN Idle
                                ELSE [pc |-> "release", watch |-> w, old |-> mStream]]
    BY StreamAssumption, BlockTypes, <2>1, <2>3
       DEF IInv, TypeOK, CurrentInv, KeeperInv, Keeps, Idle, Started, Stop
  <2> QED  BY <2>2, <2>3 DEF removeWatch
<1>4. OrderInv'
  <2>1. t \in Threads /\ ~Keeps(t) /\ UNCHANGED queue
    BY DEF Threads, CanCall, Idle, Keeps, removeWatch
  <2>2. CASE Failed(t) \/ \E s \in Streams : rebuildStream(t, w, s, mWatches \ {w})
    BY FailedKeeps, RebuildKeeps, <2>1, <2>2
  <2>3. CASE /\ stream' = Stop(stream, mStream)
             /\ mStream' = NULL
             /\ thread' = [thread EXCEPT ![t] = IF mStream = NULL THEN Idle
                                ELSE [pc |-> "release", watch |-> w, old |-> mStream]]
    BY StreamAssumption, BlockTypes, <2>1, <2>3
       DEF IInv, TypeOK, CurrentInv, OrderInv, Keeps, Idle, Started, Stop
  <2> QED  BY <2>2, <2>3 DEF removeWatch
<1>5. WatchInv'
  <2>1. /\ w \in mWatches /\ mWatches' = mWatches \ {w} /\ UNCHANGED dir
        /\ removed' \subseteq removed \cup {w}
    BY DEF removeWatch, returned
  <2>2. \A u \in Threads : \/ thread'[u] = thread[u]
                           \/ thread'[u].watch \in {NULL, w} /\ thread'[u].pc # "insert"
    BY DEF IInv, TypeOK, Idle, removeWatch, Failed, rebuildStream
  <2>3. dir[w] # NULL /\ \A u \in Threads : thread[u].pc = "insert" => thread[u].watch # w
    BY <2>1 DEF IInv, WatchInv
  <2>4. \A u, v \in Threads : thread[u].pc = "insert" /\ thread'[v].watch = thread[u].watch =>
            thread'[v] = thread[v]
    BY <2>2, <2>3 DEF IInv, WatchInv
  <2>5. \A u \in Threads : thread'[u].pc = "insert" => thread'[u] = thread[u]
    BY <2>2
  <2>6. \A u \in Threads : thread'[u].pc = "insert" =>
        /\ thread'[u].watch # NULL /\ thread'[u].watch \notin removed'
        /\ \A v \in Threads : thread'[v].watch = thread'[u].watch => v = u
    BY <2>1, <2>3, <2>4, <2>5 DEF IInv, WatchInv
  <2>7. \A u \in Threads : thread'[u].watch # NULL =>
            dir[thread'[u].watch] # NULL /\ thread'[u].watch \notin mWatches'
    BY <2>1, <2>2, <2>3 DEF IInv, WatchInv
  <2> QED  BY <2>1, <2>3, <2>6, <2>7 DEF IInv, WatchInv
<1>6. SilentInv'
  <2>1. \A u \in Threads : thread'[u].pc = "passed" => thread'[u] = thread[u]
    BY DEF IInv, TypeOK, Idle, removeWatch, Failed, rebuildStream
  <2>2. removed' \cap (running.watches \cup {running.cur}) \subseteq unawaited'
    <3>1. CASE UNCHANGED <<removed, unawaited>>
      BY <3>1 DEF IInv, SilentInv
    <3>2. CASE ~mWatching /\ returned(t, w) /\ UNCHANGED unawaited
      <4>1. running = NoCallback
        BY NoCallbackYet, <3>2
      <4> QED  BY <3>2, <4>1, StreamAssumption DEF IInv, SilentInv, NoCallback, returned
    <3>3. CASE /\ returned(t, w)
               /\ unawaited' = IF w \in running.watches \cup {running.cur} THEN unawaited \cup {w}
                               ELSE unawaited
      BY <3>3 DEF IInv, SilentInv, returned
    <3> QED  BY <3>1, <3>2, <3>3 DEF removeWatch
  <2>3. UNCHANGED running
    BY DEF removeWatch
  <2> QED  BY <2>1, <2>2, <2>3 DEF IInv, SilentInv
<1>7. CoverInv'
  BY StreamAssumption DEF IInv, CoverInv, TypeOK, removeWatch, CanCall, Unlocked, Failed,
      Stop, Idle, rebuildStream, Directories, Threads, Callbacks, Calls
<1>9. ClosingInv'
  BY StreamAssumption DEF IInv, ClosingInv, TypeOK, removeWatch, CanCall, Unlocked, Failed,
      Stop, Idle, rebuildStream, Directories, Threads, Callbacks, Calls
<1>10. RunningInv'
  BY DEF IInv, RunningInv, removeWatch, CanCall, Unlocked, Failed, Stop, Idle,
      rebuildStream, Directories, NoCallback
<1> QED  BY <1>1, <1>2, <1>3, <1>4, <1>5, <1>6, <1>7, <1>9, <1>10 DEF IInv

\* addWatch has looked its directory up and made the watch; nobody else knows
\* it.
LEMMA StepAddWatch ==
    ASSUME IInv, NEW t \in Clients \cup {Queue}, NEW w \in Watches, NEW d \in Dirs,
           addWatch(t, w, d)
    PROVE  IInv'
<1>1. TypeOK'
  BY DEF IInv, TypeOK, addWatch, CanCall, Unlocked, Directories, Idle, Threads, Callbacks,
      Calls
<1>2. CurrentInv'
  BY DEF IInv, CurrentInv, TypeOK, addWatch, CanCall, Unlocked, Directories, Idle, Started,
      Threads, Callbacks, Calls
<1>3. KeeperInv'
  BY DEF IInv, KeeperInv, TypeOK, addWatch, CanCall, Unlocked, Directories, Idle, Threads,
      Keeps, Callbacks, Calls
<1>4. OrderInv'
  BY StreamAssumption DEF IInv, OrderInv, TypeOK, addWatch, CanCall, Unlocked, Directories,
      Idle, Threads, Callbacks, Calls
<1>5. WatchInv'
  BY StreamAssumption DEF IInv, WatchInv, TypeOK, addWatch, CanCall, Unlocked, Directories,
      Idle, Threads, Callbacks, Calls
<1>6. SilentInv'
  BY DEF IInv, SilentInv, TypeOK, addWatch, CanCall, Unlocked, Directories, Idle, Threads,
      Callbacks, Calls
<1>7. CoverInv'
  BY StreamAssumption DEF IInv, CoverInv, TypeOK, addWatch, CanCall, Unlocked, Directories,
      Idle, Threads, Callbacks, Calls
<1>9. ClosingInv'
  BY StreamAssumption DEF IInv, ClosingInv, TypeOK, addWatch, CanCall, Unlocked,
      Directories, Idle, Threads, Callbacks, Calls
<1>10. RunningInv'
  BY DEF IInv, RunningInv, addWatch, CanCall, Unlocked, Directories, Idle, NoCallback
<1> QED  BY <1>1, <1>2, <1>3, <1>4, <1>5, <1>6, <1>7, <1>9, <1>10 DEF IInv

\* The insertion is within a rebuild that succeeds, or is not made.
LEMMA StepInsertWatch ==
    ASSUME IInv, NEW t \in Threads, insertWatch(t)
    PROVE  IInv'
<1>1. TypeOK'
  <2>0. thread[t].watch \in Watches
    BY StreamAssumption DEF IInv, TypeOK, Calls, WatchInv, insertWatch
  <2>1. thread' \in [Threads -> Calls]
    <3>1. Idle \in Calls /\ \A s \in Streams :
            [pc |-> "stopOld", watch |-> NULL, old |-> s] \in Calls
      BY DEF Calls, Idle
    <3>2. \E c \in Calls : thread' = [thread EXCEPT ![t] = c]
      BY <3>1 DEF IInv, TypeOK, insertWatch, rebuildStream, Failed
    <3> QED  BY <3>2 DEF IInv, TypeOK
  <2>2. stream' \in [Streams -> [st : {"new", "started", "stopped", "released"},
                               paths : SUBSET (Dirs \cup {NULL})]]
    BY <2>0 DEF IInv, TypeOK, insertWatch, rebuildStream, Failed, Directories
  <2>3. mStream' \in Streams \cup {NULL} /\ mWatchesMutex' \in Threads \cup {NULL}
    BY StreamAssumption DEF IInv, TypeOK, Threads, insertWatch, rebuildStream, Failed
  <2> QED  BY <2>0, <2>1, <2>2, <2>3 DEF IInv, TypeOK, insertWatch
<1>2. CurrentInv'
  BY StreamAssumption DEF IInv, CurrentInv, TypeOK, insertWatch, Unlocked, repeated, Failed,
      rebuildStream, Directories, Idle, Started, Threads, Callbacks, Calls
<1>3. KeeperInv'
  <2>1. t \in Threads /\ ~Keeps(t) /\ UNCHANGED queue
    BY DEF Keeps, insertWatch
  <2>2. \/ Failed(t)
        \/ \E s \in Streams : rebuildStream(t, NULL, s, mWatches \cup {thread[t].watch})
    BY DEF insertWatch
  <2> QED  BY FailedKeeps, RebuildKeeps, <2>1, <2>2
<1>4. OrderInv'
  <2>1. t \in Threads /\ ~Keeps(t) /\ UNCHANGED queue
    BY DEF Keeps, insertWatch
  <2>2. \/ Failed(t)
        \/ \E s \in Streams : rebuildStream(t, NULL, s, mWatches \cup {thread[t].watch})
    BY DEF insertWatch
  <2> QED  BY FailedKeeps, RebuildKeeps, <2>1, <2>2
<1>5. WatchInv'
  BY DEF IInv, WatchInv, TypeOK, insertWatch, Unlocked, repeated, Failed, rebuildStream,
      Directories, Idle, Threads, Callbacks, Calls
<1>6. SilentInv'
  BY DEF IInv, SilentInv, TypeOK, insertWatch, Unlocked, repeated, Failed, rebuildStream,
      Directories, Idle, Threads, Callbacks, Calls
<1>7. CoverInv'
  BY StreamAssumption DEF IInv, CoverInv, TypeOK, insertWatch, Unlocked, repeated, Failed,
      rebuildStream, Directories, Idle, Threads, Callbacks, Calls
<1>9. ClosingInv'
  BY DEF IInv, ClosingInv, TypeOK, insertWatch, Unlocked, repeated, Failed, rebuildStream,
      Directories, Idle, Threads, Callbacks, Calls
<1>10. RunningInv'
  BY DEF IInv, RunningInv, insertWatch, Unlocked, repeated, Failed, rebuildStream,
      Directories, Idle, NoCallback
<1> QED  BY <1>1, <1>2, <1>3, <1>4, <1>5, <1>6, <1>7, <1>9, <1>10 DEF IInv

\* The replaced stream is stopped, and the mutex released.
LEMMA StepStopReplaced ==
    ASSUME IInv, NEW t \in Threads, stopReplaced(t)
    PROVE  IInv'
<1>1. TypeOK'
  <2>1. thread' \in [Threads -> Calls]
    <3>1. [thread[t] EXCEPT !.pc = "release"] \in Calls
      BY DEF IInv, TypeOK, Calls
    <3> QED  BY <3>1 DEF IInv, TypeOK, stopReplaced
  <2>2. stream' \in [Streams -> [st : {"new", "started", "stopped", "released"},
                               paths : SUBSET (Dirs \cup {NULL})]]
    BY DEF IInv, TypeOK, stopReplaced, Stop
  <2> QED  BY <2>1, <2>2 DEF IInv, TypeOK, stopReplaced, registry
<1>2. CurrentInv'
  BY StreamAssumption DEF IInv, CurrentInv, TypeOK, KeeperInv, stopReplaced, Stop, registry,
      Started, Threads, Callbacks, Calls, Keeps, Idle
<1>3. KeeperInv'
  BY StreamAssumption DEF IInv, KeeperInv, TypeOK, stopReplaced, Stop, registry, Threads,
      Keeps, Idle, Callbacks, Calls
<1>4. OrderInv'
  BY DEF IInv, OrderInv, stopReplaced, Stop, registry, Threads
<1>5. WatchInv'
  BY DEF IInv, WatchInv, stopReplaced, Stop, registry, Threads
<1>6. SilentInv'
  BY DEF IInv, SilentInv, stopReplaced, Stop, registry, Threads
<1>7. CoverInv'
  BY DEF IInv, CoverInv, stopReplaced, Stop, registry, Directories
<1>9. ClosingInv'
  BY DEF IInv, ClosingInv, stopReplaced, Stop, registry, Idle, Threads
<1>10. RunningInv'
  BY DEF IInv, RunningInv, stopReplaced, Stop, registry, NoCallback
<1> QED  BY <1>1, <1>2, <1>3, <1>4, <1>5, <1>6, <1>7, <1>9, <1>10 DEF IInv

\* A barrier, or the release itself, is put behind the callbacks that are
\* queued.
LEMMA StepReleaseAfterCallbacks ==
    ASSUME IInv, NEW t \in Threads, releaseStreamAfterCallbacks(t)
    PROVE  IInv'
<1> DEFINE b == IF t = Queue THEN [kind |-> "release", of |-> thread[t].old]
                 ELSE [kind |-> "barrier", of |-> t]
<1>b. b \in Blocks /\ queue' = Append(queue, b)
  BY DEF IInv, TypeOK, KeeperInv, Keeps, Blocks, releaseStreamAfterCallbacks
<1>t. /\ thread[t].pc = "release" /\ thread'[t].pc \in {"idle", "barrier"}
      /\ t # Queue => thread'[t].pc = "barrier"
      /\ \A u \in Threads : u # t => thread'[u] = thread[u]
  <2>1. CASE t = Queue
    BY <2>1 DEF IInv, TypeOK, Idle, releaseStreamAfterCallbacks
  <2>2. CASE t # Queue
    <3>1. thread' = [thread EXCEPT ![t].pc = "barrier"] /\ thread[t].pc = "release"
      BY <2>2 DEF releaseStreamAfterCallbacks
    <3> QED  BY <3>1, <2>2 DEF IInv, TypeOK, Calls
  <2> QED  BY <2>1, <2>2
<1>1. TypeOK'
  <2>1. thread' \in [Threads -> Calls]
    <3>1. Idle \in Calls /\ [thread[t] EXCEPT !.pc = "barrier"] \in Calls
      BY DEF IInv, TypeOK, Calls, Idle
    <3> QED  BY <3>1 DEF IInv, TypeOK, releaseStreamAfterCallbacks
  <2>2. queue' \in Seq(Blocks)
    BY QueueAppend, <1>b DEF IInv
  <2> QED  BY <2>1, <2>2 DEF IInv, TypeOK, releaseStreamAfterCallbacks, registry
<1>2. CurrentInv'
  BY DEF IInv, CurrentInv, TypeOK, releaseStreamAfterCallbacks, Idle, registry, Started,
      Threads, Callbacks, Calls
<1>3. KeeperInv'
  <2>1. Len(queue') = Len(queue) + 1 /\ (\A i \in 1..Len(queue) : queue'[i] = queue[i])
        /\ queue'[Len(queue) + 1] = b /\ Len(queue) \in Nat
    BY QueueAppend, <1>b DEF IInv, TypeOK
  <2>2. /\ thread[t].pc = "release" /\ Keeps(t) /\ UNCHANGED <<stream, mStream>>
        /\ stream[thread[t].old].st = "stopped"
        /\ \A i \in 1..Len(queue) : queue[i].kind = "release" => queue[i].of # thread[t].old
    BY DEF IInv, KeeperInv, Keeps, releaseStreamAfterCallbacks
  <2>3. CASE t = Queue
    <3>1. thread' = [thread EXCEPT ![t] = Idle] /\ b = [kind |-> "release", of |-> thread[t].old]
      BY <2>3 DEF releaseStreamAfterCallbacks
    <3>2. \A u \in Threads : Keeps(u)' <=> Keeps(u) /\ u # t
      BY <3>1 DEF IInv, TypeOK, Keeps, Idle
    <3>3. \A i \in 1..Len(queue') : queue'[i].kind = "release" =>
          /\ stream[queue'[i].of].st = "stopped"
          /\ \A u \in Threads : Keeps(u) /\ u # t => thread[u].old # queue'[i].of
          /\ \A j \in 1..Len(queue') :
              queue'[j].kind = "release" /\ queue'[j].of = queue'[i].of => i = j
      BY <2>1, <2>2, <3>1 DEF IInv, KeeperInv
    <3> QED  BY <2>2, <3>1, <3>2, <3>3 DEF IInv, TypeOK, KeeperInv
  <2>4. CASE t # Queue
    <3>1. thread' = [thread EXCEPT ![t].pc = "barrier"] /\ b = [kind |-> "barrier", of |-> t]
      BY <2>4 DEF releaseStreamAfterCallbacks
    <3>2. \A u \in Threads : /\ thread'[u].old = thread[u].old /\ Keeps(u)' = Keeps(u)
                             /\ u # t => thread'[u] = thread[u]
                             /\ u = t => thread'[u].pc = "barrier"
      BY <2>2, <3>1 DEF IInv, TypeOK, Calls, Keeps
    <3>3. \A i \in 1..Len(queue') : queue'[i].kind = "release" =>
          i \in 1..Len(queue) /\ queue'[i] = queue[i]
      BY <2>1, <3>1
    <3>4. \A u \in Threads : Keeps(u)' =>
          /\ thread'[u].old \in Streams \ {mStream}
          /\ stream[thread'[u].old].st = IF thread'[u].pc = "stopOld" THEN "started" ELSE "stopped"
      BY <2>2, <3>2 DEF IInv, KeeperInv
    <3>5. \A u, v \in Threads : Keeps(u)' /\ Keeps(v)' /\ thread'[u].old = thread'[v].old => u = v
      BY <3>2 DEF IInv, KeeperInv
    <3>6. \A i \in 1..Len(queue') : queue'[i].kind = "release" =>
          /\ stream[queue'[i].of].st = "stopped"
          /\ \A u \in Threads : Keeps(u)' => thread'[u].old # queue'[i].of
          /\ \A j \in 1..Len(queue') :
              queue'[j].kind = "release" /\ queue'[j].of = queue'[i].of => i = j
      BY <3>2, <3>3 DEF IInv, KeeperInv
    <3>7. \A u \in Threads : thread'[u].pc = "idle" => thread'[u] = Idle
      BY <3>2 DEF IInv, KeeperInv
    <3> QED  BY <2>2, <3>4, <3>5, <3>6, <3>7 DEF KeeperInv
  <2> QED  BY <2>3, <2>4
<1>4. OrderInv'
  <2>1. Len(queue') = Len(queue) + 1 /\ (\A i \in 1..Len(queue) : queue'[i] = queue[i])
        /\ queue'[Len(queue) + 1] = b /\ Len(queue) \in Nat
    BY QueueAppend, <1>b DEF IInv, TypeOK
  <2>2. b.kind # "callback" /\ UNCHANGED stream /\ thread[t].pc = "release"
    BY DEF releaseStreamAfterCallbacks
  <2>3. \A i \in 1..Len(queue') :
            queue'[i] = b \/ (i \in 1..Len(queue) /\ queue'[i] = queue[i])
    <3>1. \A i \in 1..(Len(queue) + 1) : i \in 1..Len(queue) \/ i = Len(queue) + 1
      BY <2>1
    <3> QED  BY <2>1, <3>1
  <2>4. \A i \in 1..Len(queue') : queue'[i].kind = "callback" =>
            i \in 1..Len(queue) /\ queue'[i] = queue[i]
    BY <2>2, <2>3
  <2>5. \A u \in Threads : thread'[u].pc = "passed" => thread'[u] = thread[u]
    BY <1>t
  <2>6. \A u \in Threads : thread[u].pc = "barrier" => thread'[u] = thread[u]
    BY <1>t
  <2>7. \A i \in 1..Len(queue') : queue'[i].kind = "callback" =>
            stream'[queue'[i].of].st \in {"started", "stopped"}
    BY <2>2, <2>4 DEF IInv, OrderInv
  <2>8. \A i, j \in 1..Len(queue') : i < j /\ queue'[j].kind = "callback" =>
        /\ queue'[i].kind = "release" => queue'[i].of # queue'[j].of
        /\ queue'[i].kind = "barrier" => thread'[queue'[i].of].old # queue'[j].of
    <3> SUFFICES ASSUME NEW i \in 1..Len(queue'), NEW j \in 1..Len(queue'), i < j,
                        queue'[j].kind = "callback"
                 PROVE  /\ queue'[i].kind = "release" => queue'[i].of # queue'[j].of
                        /\ queue'[i].kind = "barrier" => thread'[queue'[i].of].old # queue'[j].of
      OBVIOUS
    <3>1. j \in 1..Len(queue) /\ queue'[j] = queue[j]
      BY <2>4
    <3>2. i \in 1..Len(queue) /\ queue'[i] = queue[i]
      BY <2>1, <3>1
    <3>3. queue[i].kind = "barrier" => thread'[queue[i].of] = thread[queue[i].of]
      BY BlockTypes, <2>6, <3>2 DEF IInv, OrderInv
    <3> QED  BY <3>1, <3>2, <3>3 DEF IInv, OrderInv
  <2>9. \A i \in 1..Len(queue) : queue[i].kind = "barrier" => queue[i].of # t
    BY <2>2 DEF IInv, OrderInv
  <2>10. \A i \in 1..Len(queue') : queue'[i].kind = "barrier" =>
        /\ thread'[queue'[i].of].pc = "barrier"
        /\ \A j \in 1..Len(queue') :
            queue'[j].kind = "barrier" /\ queue'[j].of = queue'[i].of => i = j
    <3> SUFFICES ASSUME NEW i \in 1..Len(queue'), queue'[i].kind = "barrier"
                 PROVE  /\ thread'[queue'[i].of].pc = "barrier"
                        /\ \A j \in 1..Len(queue') :
                              queue'[j].kind = "barrier" /\ queue'[j].of = queue'[i].of => i = j
      OBVIOUS
    <3>1. CASE i \in 1..Len(queue)
      <4>1. queue'[i] = queue[i] /\ queue[i].of \in Threads /\ queue[i].of # t
            /\ thread[queue[i].of].pc = "barrier"
        BY BlockTypes, <2>1, <2>9, <3>1 DEF IInv, OrderInv
      <4>2. thread'[queue[i].of].pc = "barrier"
        BY <2>6, <4>1
      <4>3. b.kind = "barrier" => b.of = t
        OBVIOUS
      <4>4. \A j \in 1..Len(queue') : queue'[j].kind = "barrier" /\ queue'[j].of = queue'[i].of =>
                j \in 1..Len(queue) /\ queue'[j] = queue[j]
        BY <2>3, <4>1, <4>3
      <4> QED  BY <3>1, <4>1, <4>2, <4>4 DEF IInv, OrderInv
    <3>2. CASE i \notin 1..Len(queue)
      <4>1. i = Len(queue) + 1 /\ queue'[i] = b
        BY <2>1, <3>2
      <4>2. t # Queue /\ b.of = t
        BY <4>1
      <4>3. thread'[t].pc = "barrier"
        BY <1>t, <4>2
      <4>4. \A j \in 1..Len(queue') : queue'[j].kind = "barrier" /\ queue'[j].of = t =>
                j = Len(queue) + 1
        BY <2>1, <2>9
      <4> QED  BY <4>1, <4>2, <4>3, <4>4
    <3> QED  BY <3>1, <3>2
  <2>11. \A u \in Threads : thread'[u].pc = "passed" =>
        \A i \in 1..Len(queue') : queue'[i].kind = "callback" => queue'[i].of # thread'[u].old
    BY <2>4, <2>5 DEF IInv, OrderInv
  <2> QED  BY <2>7, <2>8, <2>10, <2>11 DEF OrderInv
<1>5. RunningInv'
  BY DEF IInv, RunningInv, releaseStreamAfterCallbacks, Idle, registry, NoCallback
<1>6. WatchInv'
  BY DEF IInv, WatchInv, TypeOK, releaseStreamAfterCallbacks, Idle, registry, Threads,
      Callbacks, Calls
<1>7. SilentInv'
  <2>1. \A u \in Threads : thread'[u].pc = "passed" => thread'[u] = thread[u]
    BY <1>t
  <2> QED  BY <2>1 DEF IInv, SilentInv, releaseStreamAfterCallbacks
<1>9. ClosingInv'
  <2>1. \A u \in Threads : thread'[u] = thread[u] \/ thread'[u].pc \in {"idle", "barrier"}
    BY <1>t
  <2>2. thread[Owner].pc # "release" => thread'[Owner] = thread[Owner]
    BY <1>t DEF Threads
  <2>3. Owner \in Threads /\ UNCHANGED closing
    BY DEF Threads, releaseStreamAfterCallbacks, registry
  <2> QED  BY <2>1, <2>2, <2>3 DEF IInv, ClosingInv, Idle
<1>10. CoverInv'
  BY DEF IInv, CoverInv, releaseStreamAfterCallbacks, Idle, registry, Directories
<1> QED  BY <1>1, <1>2, <1>3, <1>4, <1>5, <1>6, <1>7, <1>9, <1>10 DEF IInv

\* A thread whose barrier has run releases a stream that no callback is queued
\* for.
LEMMA StepReleaseStream ==
    ASSUME IInv, NEW t \in Threads, releaseStream(t)
    PROVE  IInv'
<1>1. TypeOK'
  <2>1. thread' \in [Threads -> Calls]
    BY DEF IInv, TypeOK, Calls, Idle, releaseStream
  <2>2. stream' \in [Streams -> [st : {"new", "started", "stopped", "released"},
                               paths : SUBSET (Dirs \cup {NULL})]]
    BY DEF IInv, TypeOK, releaseStream
  <2>3. thread[t].watch \in Watches \cup {NULL}
    BY DEF IInv, TypeOK, Calls
  <2> QED  BY <2>1, <2>2, <2>3 DEF IInv, TypeOK, releaseStream, registry
<1>2. CurrentInv'
  BY DEF IInv, CurrentInv, KeeperInv, releaseStream, Idle, registry, Started, Threads, Keeps
<1>3. KeeperInv'
  BY DEF IInv, KeeperInv, TypeOK, releaseStream, Idle, registry, Threads, Keeps, Callbacks,
      Calls
<1>4. OrderInv'
  BY DEF IInv, OrderInv, releaseStream, Idle, registry, Threads
<1>5. WatchInv'
  BY DEF IInv, WatchInv, releaseStream, Idle, registry, Threads
<1>6. SilentInv'
  BY DEF IInv, SilentInv, releaseStream, Idle, registry, Threads
<1>7. CoverInv'
  BY DEF IInv, CoverInv, releaseStream, Idle, registry, Directories
<1>9. ClosingInv'
  BY DEF IInv, ClosingInv, releaseStream, Idle, registry, Threads
<1>10. RunningInv'
  BY DEF IInv, RunningInv, releaseStream, Idle, registry, NoCallback
<1> QED  BY <1>1, <1>2, <1>3, <1>4, <1>5, <1>6, <1>7, <1>9, <1>10 DEF IInv

\* A callback is queued for a started stream, behind everything.
LEMMA StepFire ==
    ASSUME IInv, NEW s \in Streams, fire(s)
    PROVE  IInv'
<1> DEFINE b == [kind |-> "callback", of |-> s]
<1>b. b \in Blocks /\ queue' = Append(queue, b)
  BY DEF Blocks, fire
<1>1. TypeOK'
  BY <1>b DEF IInv, TypeOK, fire, Started, registry, Threads, Callbacks, Calls
<1>2. KeeperInv'
  BY DEF IInv, KeeperInv, fire, Started, registry, Threads, Keeps, Idle
<1>3. OrderInv'
  BY BlockTypes DEF IInv, OrderInv, KeeperInv, fire, Started, registry, Threads, Keeps, Idle
<1>4. RunningInv'
  BY DEF IInv, RunningInv, fire, Started, registry, NoCallback
<1>6. (CurrentInv /\ WatchInv /\ SilentInv /\ CoverInv /\ ClosingInv)'
  BY DEF IInv, CurrentInv, fire, Started, registry, Threads, WatchInv, SilentInv, CoverInv,
      Directories, ClosingInv, Idle
<1> QED  BY <1>1, <1>2, <1>3, <1>4, <1>6 DEF IInv

\* A block releases a stream whose callbacks were all in front of it.
LEMMA StepRunRelease ==
    ASSUME IInv, runRelease
    PROVE  IInv'
<1>1. TypeOK'
  <2>1. /\ queue[1].kind = "release" /\ 1 \in 1..Len(queue) /\ queue[1].of \in Streams
        /\ stream' = [stream EXCEPT ![queue[1].of].st = "released"]
    BY HeadBlock, BlockTypes DEF IInv, runRelease
  <2>2. stream' \in [Streams -> [st : {"new", "started", "stopped", "released"},
                               paths : SUBSET (Dirs \cup {NULL})]]
    BY <2>1 DEF IInv, TypeOK
  <2> QED  BY QueueTail, <2>2 DEF IInv, TypeOK, runRelease, registry, Running
<1>2. CurrentInv'
  <2>1. /\ queue[1].kind = "release" /\ 1 \in 1..Len(queue) /\ queue[1].of \in Streams
        /\ stream' = [stream EXCEPT ![queue[1].of].st = "released"]
    BY HeadBlock, BlockTypes DEF IInv, runRelease
  <2>2. stream[queue[1].of].st = "stopped"
    BY <2>1 DEF IInv, KeeperInv
  <2>3. \A s \in Streams : stream'[s].st = IF s = queue[1].of THEN "released" ELSE stream[s].st
    BY <2>1 DEF IInv, TypeOK
  <2> QED  BY <2>1, <2>2, <2>3 DEF IInv, TypeOK, CurrentInv, Started, runRelease, registry
<1>3. KeeperInv'
  <2>1. /\ queue[1].kind = "release" /\ 1 \in 1..Len(queue) /\ queue[1].of \in Streams
        /\ stream' = [stream EXCEPT ![queue[1].of].st = "released"]
    BY HeadBlock, BlockTypes DEF IInv, runRelease
  <2>2. \A i \in 1..Len(queue') : i + 1 \in 1..Len(queue) /\ queue'[i] = queue[i + 1]
    BY QueueTail DEF IInv, runRelease, Running
  <2>3. \A s \in Streams : stream'[s].st = IF s = queue[1].of THEN "released" ELSE stream[s].st
    BY <2>1 DEF IInv, TypeOK
  <2>4. \A u \in Threads : Keeps(u) => thread[u].old # queue[1].of
    BY <2>1 DEF IInv, KeeperInv
  <2>5. \A i \in 1..Len(queue') : queue'[i].kind = "release" =>
        /\ stream'[queue'[i].of].st = "stopped"
        /\ \A u \in Threads : Keeps(u) => thread[u].old # queue'[i].of
        /\ \A j \in 1..Len(queue') :
            queue'[j].kind = "release" /\ queue'[j].of = queue'[i].of => i = j
    <3>1. SUFFICES ASSUME NEW i \in 1..Len(queue'), queue'[i].kind = "release"
                   PROVE  /\ stream'[queue'[i].of].st = "stopped"
                          /\ \A u \in Threads : Keeps(u) => thread[u].old # queue'[i].of
                          /\ \A j \in 1..Len(queue') :
                                queue'[j].kind = "release" /\ queue'[j].of = queue'[i].of => i = j
      OBVIOUS
    <3>2. queue'[i].of # queue[1].of /\ queue'[i].of \in Streams
      BY BlockTypes, <2>1, <2>2, <3>1 DEF IInv, KeeperInv
    <3> QED  BY <2>2, <2>3, <3>1, <3>2, SMTT(30) DEF IInv, KeeperInv
  <2> QED  BY <2>3, <2>4, <2>5 DEF IInv, KeeperInv, Keeps, runRelease
<1>4. OrderInv'
  <2>1. \A i \in 1..Len(queue') : i + 1 \in 1..Len(queue) /\ queue'[i] = queue[i + 1]
    BY QueueTail DEF IInv, runRelease, Running
  <2>2. \A i \in 1..Len(queue') : queue'[i].kind = "callback" =>
            stream'[queue'[i].of].st \in {"started", "stopped"}
    <3>1. /\ queue[1].kind = "release" /\ 1 \in 1..Len(queue)
          /\ stream' = [stream EXCEPT ![queue[1].of].st = "released"]
      BY HeadBlock DEF IInv, runRelease
    <3>2. SUFFICES ASSUME NEW i \in 1..Len(queue'), queue'[i].kind = "callback"
                   PROVE  stream'[queue'[i].of].st \in {"started", "stopped"}
      OBVIOUS
    <3>3. queue[1].of # queue[i + 1].of /\ 1 < i + 1
      BY <2>1, <3>1, <3>2 DEF IInv, OrderInv
    <3> QED  BY BlockTypes, <2>1, <3>1, <3>2, <3>3 DEF IInv, TypeOK, OrderInv
  <2>3. \A i, j \in 1..Len(queue') : i < j /\ queue'[j].kind = "callback" =>
        /\ queue'[i].kind = "release" => queue'[i].of # queue'[j].of
        /\ queue'[i].kind = "barrier" => thread'[queue'[i].of].old # queue'[j].of
    <3>1. SUFFICES ASSUME NEW i \in 1..Len(queue'), NEW j \in 1..Len(queue'), i < j,
                          queue'[j].kind = "callback"
                   PROVE  /\ queue'[i].kind = "release" => queue'[i].of # queue'[j].of
                          /\ queue'[i].kind = "barrier" => thread'[queue'[i].of].old # queue'[j].of
      OBVIOUS
    <3>2. i + 1 < j + 1 /\ i + 1 \in 1..Len(queue) /\ j + 1 \in 1..Len(queue)
      BY <2>1, <3>1
    <3> QED  BY <2>1, <3>1, <3>2 DEF IInv, OrderInv, runRelease
  <2>4. \A i \in 1..Len(queue') : queue'[i].kind = "barrier" =>
        /\ thread'[queue'[i].of].pc = "barrier"
        /\ \A j \in 1..Len(queue') :
            queue'[j].kind = "barrier" /\ queue'[j].of = queue'[i].of => i = j
    <3>1. SUFFICES ASSUME NEW i \in 1..Len(queue'), queue'[i].kind = "barrier"
                   PROVE  /\ thread'[queue'[i].of].pc = "barrier"
                          /\ \A j \in 1..Len(queue') :
                                queue'[j].kind = "barrier" /\ queue'[j].of = queue'[i].of => i = j
      OBVIOUS
    <3> QED  BY <2>1, <3>1 DEF IInv, OrderInv, runRelease
  <2>5. \A u \in Threads : thread'[u].pc = "passed" =>
        \A i \in 1..Len(queue') : queue'[i].kind = "callback" => queue'[i].of # thread'[u].old
    BY <2>1 DEF IInv, OrderInv, runRelease
  <2> QED  BY <2>2, <2>3, <2>4, <2>5 DEF OrderInv
<1>5. RunningInv'
  BY DEF IInv, RunningInv, runRelease, Running, registry, NoCallback
<1>6. CoverInv'
  BY DEF IInv, CoverInv, runRelease, Running, registry, Directories
<1>8. (WatchInv /\ SilentInv /\ ClosingInv)'
  BY DEF IInv, WatchInv, runRelease, Running, registry, Threads, SilentInv, ClosingInv, Idle
<1> QED  BY <1>1, <1>2, <1>3, <1>4, <1>5, <1>6, <1>8 DEF IInv

\* A barrier lets its thread pass while no callback runs.
LEMMA StepRunBarrier ==
    ASSUME IInv, runBarrier
    PROVE  IInv'
<1>1. TypeOK'
  <2>1. queue[1].kind = "barrier" /\ 1 \in 1..Len(queue) /\ queue[1].of \in Threads
        /\ thread' = [thread EXCEPT ![queue[1].of].pc = "passed"]
    BY HeadBlock, BlockTypes DEF IInv, runBarrier
  <2>2. [thread[queue[1].of] EXCEPT !.pc = "passed"] \in Calls
    BY <2>1 DEF IInv, TypeOK, Calls
  <2>3. queue' \in Seq(Blocks)
    BY QueueTail DEF IInv, runBarrier, Running
  <2> QED  BY <2>1, <2>2, <2>3 DEF IInv, TypeOK, runBarrier, registry
<1>2. CurrentInv'
  BY DEF IInv, CurrentInv, OrderInv, runBarrier, Running, registry, Started, Threads
<1>3. KeeperInv'
  <2>1. /\ queue[1].kind = "barrier" /\ 1 \in 1..Len(queue) /\ queue[1].of \in Threads
        /\ thread' = [thread EXCEPT ![queue[1].of].pc = "passed"]
        /\ thread[queue[1].of].pc = "barrier"
    BY HeadBlock, BlockTypes DEF IInv, OrderInv, runBarrier
  <2>2. \A u \in Threads : /\ thread'[u].old = thread[u].old /\ Keeps(u)' = Keeps(u)
                           /\ u # queue[1].of => thread'[u] = thread[u]
                           /\ u = queue[1].of => thread'[u].pc = "passed"
    BY <2>1 DEF IInv, TypeOK, Calls, Keeps
  <2>3. \A i \in 1..Len(queue') : queue'[i].kind = "release" =>
        /\ stream[queue'[i].of].st = "stopped"
        /\ \A u \in Threads : Keeps(u) => thread[u].old # queue'[i].of
        /\ \A j \in 1..Len(queue') :
            queue'[j].kind = "release" /\ queue'[j].of = queue'[i].of => i = j
    BY ReleasesTail DEF runBarrier, Running
  <2>4. \A u \in Threads : Keeps(u)' =>
        /\ thread'[u].old \in Streams \ {mStream}
        /\ stream[thread'[u].old].st = IF thread'[u].pc = "stopOld" THEN "started" ELSE "stopped"
    BY <2>1, <2>2 DEF IInv, KeeperInv
  <2>5. \A u, v \in Threads : Keeps(u)' /\ Keeps(v)' /\ thread'[u].old = thread'[v].old => u = v
    BY <2>2 DEF IInv, KeeperInv
  <2>6. \A u \in Threads : thread'[u].pc = "idle" => thread'[u] = Idle
    BY <2>2 DEF IInv, KeeperInv
  <2> QED  BY <2>2, <2>3, <2>4, <2>5, <2>6 DEF KeeperInv, runBarrier
<1>4. OrderInv'
  <2>1. \A i \in 1..Len(queue') : i + 1 \in 1..Len(queue) /\ queue'[i] = queue[i + 1]
    BY QueueTail DEF IInv, runBarrier, Running
  <2>0. /\ queue[1].kind = "barrier" /\ 1 \in 1..Len(queue) /\ queue[1].of \in Threads
        /\ thread' = [thread EXCEPT ![queue[1].of].pc = "passed"]
    BY HeadBlock, BlockTypes DEF IInv, runBarrier
  <2>2. \A i \in 1..Len(queue') : queue'[i].kind = "callback" =>
            stream'[queue'[i].of].st \in {"started", "stopped"}
    BY <2>1 DEF IInv, OrderInv, runBarrier
  <2>3. \A i, j \in 1..Len(queue') : i < j /\ queue'[j].kind = "callback" =>
        /\ queue'[i].kind = "release" => queue'[i].of # queue'[j].of
        /\ queue'[i].kind = "barrier" => thread'[queue'[i].of].old # queue'[j].of
    <3>1. SUFFICES ASSUME NEW i \in 1..Len(queue'), NEW j \in 1..Len(queue'), i < j,
                          queue'[j].kind = "callback"
                   PROVE  /\ queue'[i].kind = "release" => queue'[i].of # queue'[j].of
                          /\ queue'[i].kind = "barrier" => thread'[queue'[i].of].old # queue'[j].of
      OBVIOUS
    <3>2. i + 1 < j + 1 /\ i + 1 \in 1..Len(queue) /\ j + 1 \in 1..Len(queue)
      BY <2>1, <3>1
    <3> QED  BY QueueTail, BlockTypes, <2>1, <3>1, <3>2 DEF IInv, TypeOK, Calls, OrderInv, runBarrier, Running
  <2>4. \A i \in 1..Len(queue') : queue'[i].kind = "barrier" =>
        /\ thread'[queue'[i].of].pc = "barrier"
        /\ \A j \in 1..Len(queue') :
            queue'[j].kind = "barrier" /\ queue'[j].of = queue'[i].of => i = j
    <3>1. SUFFICES ASSUME NEW i \in 1..Len(queue'), queue'[i].kind = "barrier"
                   PROVE  /\ thread'[queue'[i].of].pc = "barrier"
                          /\ \A j \in 1..Len(queue') :
                                queue'[j].kind = "barrier" /\ queue'[j].of = queue'[i].of => i = j
      OBVIOUS
    <3>2. \A j \in 1..Len(queue') : queue'[j].kind = "barrier" => queue'[j].of # queue[1].of
      <4> SUFFICES ASSUME NEW j \in 1..Len(queue'), queue'[j].kind = "barrier",
                          queue'[j].of = queue[1].of
                   PROVE  FALSE
        OBVIOUS
      <4>1. j + 1 \in 1..Len(queue) /\ queue'[j] = queue[j + 1] /\ 1 # j + 1
        BY <2>1
      <4> QED  BY <2>0, <4>1 DEF IInv, OrderInv
    <3>3. queue'[i].of \in Threads
      BY BlockTypes, <2>1, <3>1 DEF IInv
    <3> QED  BY <2>0, <2>1, <3>1, <3>2, <3>3, SMTT(30) DEF IInv, TypeOK, OrderInv
  <2>5. \A u \in Threads : thread'[u].pc = "passed" =>
        \A i \in 1..Len(queue') : queue'[i].kind = "callback" => queue'[i].of # thread'[u].old
    BY <2>0, <2>1 DEF IInv, TypeOK, OrderInv
  <2> QED  BY <2>2, <2>3, <2>4, <2>5 DEF OrderInv
<1>5. RunningInv'
  BY DEF IInv, RunningInv, runBarrier, Running, registry, NoCallback
<1>6. WatchInv'
  BY DEF IInv, WatchInv, runBarrier, Running, registry, Threads
<1>7. SilentInv'
  BY DEF IInv, SilentInv, RunningInv, runBarrier, Running, registry, Threads, NoCallback
<1>9. ClosingInv'
  <2>1. /\ queue[1].kind = "barrier" /\ 1 \in 1..Len(queue) /\ queue[1].of \in Threads
        /\ thread' = [thread EXCEPT ![queue[1].of].pc = "passed"]
        /\ thread[queue[1].of].pc = "barrier"
    BY HeadBlock, BlockTypes DEF IInv, OrderInv, runBarrier
  <2> QED  BY StreamAssumption, <2>1 DEF IInv, TypeOK, Calls, ClosingInv, Threads, Idle, runBarrier, registry
<1>10. CoverInv'
  BY DEF IInv, CoverInv, runBarrier, Running, registry, Directories
<1> QED  BY <1>1, <1>2, <1>3, <1>4, <1>5, <1>6, <1>7, <1>9, <1>10 DEF IInv

\* A callback begins, or is over when the destruction has begun.
LEMMA StepEnterCallback ==
    ASSUME IInv, enterCallback
    PROVE  IInv'
<1>1. TypeOK'
  BY QueueTail DEF IInv, TypeOK, enterCallback, Running, registry, Threads, Callbacks, Calls
<1>2. KeeperInv'
  <2>1. CASE UNCHANGED queue
    BY <2>1 DEF IInv, KeeperInv, Keeps, enterCallback
  <2>2. CASE queue' = Tail(queue)
    BY ReleasesTail, <2>2 DEF IInv, KeeperInv, Keeps, enterCallback, Running
  <2> QED  BY <2>1, <2>2 DEF enterCallback
<1>3. OrderInv'
  BY OrderTail DEF IInv, OrderInv, enterCallback, Running
<1>4. RunningInv'
  BY DEF IInv, RunningInv, enterCallback, Running, registry, NoCallback
<1>5. SilentInv'
  BY DEF IInv, SilentInv, TypeOK, enterCallback, Running, registry, Threads, Callbacks,
      Calls
<1>7. (CurrentInv /\ WatchInv /\ CoverInv /\ ClosingInv)'
  BY DEF IInv, CurrentInv, enterCallback, Running, registry, Started, Threads, WatchInv,
      CoverInv, Directories, ClosingInv, Idle
<1> QED  BY <1>1, <1>2, <1>3, <1>4, <1>5, <1>7 DEF IInv

\* A callback copies the watches under the mutex: none of them was removed.
LEMMA StepCopyWatches ==
    ASSUME IInv, copyWatches
    PROVE  IInv'
<1>1. TypeOK'
  <2>1. running' \in Callbacks
    <3>1. running' = [pc |-> "loop", watches |-> mWatches, cur |-> running.cur]
      BY DEF IInv, TypeOK, Callbacks, copyWatches
    <3> QED  BY <3>1 DEF IInv, TypeOK, Callbacks
  <2> QED  BY <2>1 DEF IInv, TypeOK, copyWatches, registry
<1>2. RunningInv'
  BY DEF IInv, RunningInv, copyWatches, Unlocked, registry, NoCallback
<1>3. SilentInv'
  BY DEF IInv, SilentInv, WatchInv, copyWatches, Unlocked, registry, Threads
<1>4. (CurrentInv /\ KeeperInv /\ OrderInv /\ WatchInv /\ CoverInv /\ ClosingInv)'
  BY DEF IInv, CurrentInv, copyWatches, Unlocked, registry, Started, Threads, KeeperInv,
      Keeps, Idle, OrderInv, WatchInv, CoverInv, Directories, ClosingInv
<1> QED  BY <1>1, <1>2, <1>3, <1>4 DEF IInv

\* A listener is called for a watch of the copy.
LEMMA StepCallListener ==
    ASSUME IInv, callListener
    PROVE  IInv'
<1>1. TypeOK'
  BY DEF IInv, TypeOK, callListener, registry, Threads, Callbacks, Calls
<1>2. RunningInv'
  BY DEF IInv, RunningInv, callListener, registry, NoCallback
<1>3. SilentInv'
  BY DEF IInv, SilentInv, callListener, registry, Threads
<1>4. (CurrentInv /\ KeeperInv /\ OrderInv /\ WatchInv /\ CoverInv /\ ClosingInv)'
  BY DEF IInv, CurrentInv, callListener, registry, Started, Threads, KeeperInv,
      Keeps, Idle, OrderInv, WatchInv, CoverInv, Directories, ClosingInv
<1> QED  BY <1>1, <1>2, <1>3, <1>4 DEF IInv

\* A listener returns when the calls it made have returned.
LEMMA StepListenerReturns ==
    ASSUME IInv, listenerReturns
    PROVE  IInv'
<1>1. TypeOK'
  <2>1. running' \in Callbacks
    <3>1. running' = [pc |-> "loop", watches |-> running.watches, cur |-> NULL]
      BY DEF IInv, TypeOK, Callbacks, listenerReturns
    <3> QED  BY <3>1 DEF IInv, TypeOK, Callbacks
  <2> QED  BY <2>1 DEF IInv, TypeOK, listenerReturns, registry
<1>2. RunningInv'
  BY DEF IInv, RunningInv, listenerReturns, Idle, registry, NoCallback
<1>3. SilentInv'
  BY StreamAssumption DEF IInv, SilentInv, TypeOK, listenerReturns, Idle, registry, Threads,
      Callbacks, Calls
<1>4. (CurrentInv /\ KeeperInv /\ OrderInv /\ WatchInv /\ CoverInv /\ ClosingInv)'
  BY DEF IInv, CurrentInv, listenerReturns, Idle, registry, Started, Threads, KeeperInv,
      Keeps, OrderInv, WatchInv, CoverInv, Directories, ClosingInv
<1> QED  BY <1>1, <1>2, <1>3, <1>4 DEF IInv

\* A callback is over when no watch of its copy is left to call.
LEMMA StepLeaveCallback ==
    ASSUME IInv, leaveCallback
    PROVE  IInv'
<1>1. TypeOK'
  BY DEF IInv, TypeOK, RunningInv, leaveCallback, NoCallback, registry,
      Threads, Callbacks, Calls
<1>2. KeeperInv'
  BY DEF IInv, KeeperInv, leaveCallback, NoCallback, registry, Threads, Keeps,
      Idle
<1>3. OrderInv'
  BY OrderTail DEF IInv, RunningInv, leaveCallback
<1>4. RunningInv'
  BY DEF IInv, RunningInv, leaveCallback, NoCallback, registry
<1>5. SilentInv'
  BY StreamAssumption DEF IInv, SilentInv, TypeOK, leaveCallback, NoCallback,
      registry, Threads, Callbacks, Calls
<1>7. (CurrentInv /\ WatchInv /\ CoverInv /\ ClosingInv)'
  BY DEF IInv, CurrentInv, leaveCallback, NoCallback, registry, Started,
      Threads, WatchInv, CoverInv, Directories, ClosingInv, Idle
<1> QED  BY <1>1, <1>2, <1>3, <1>4, <1>5, <1>7 DEF IInv

\* The destruction begins when no client is in a call.
LEMMA StepClearInitOK ==
    ASSUME IInv, clearInitOK
    PROVE  IInv'
<1>1. TypeOK'
  BY DEF IInv, TypeOK, clearInitOK
<1>2. CoverInv'
  BY DEF IInv, CoverInv, clearInitOK, Idle, Directories
<1>3. ClosingInv'
  BY DEF IInv, ClosingInv, clearInitOK, Idle, Threads
<1>4. (CurrentInv /\ KeeperInv /\ OrderInv /\ RunningInv /\ WatchInv /\ SilentInv)'
  BY DEF IInv, CurrentInv, clearInitOK, Idle, Started, Threads, KeeperInv, Keeps, OrderInv,
      RunningInv, NoCallback, WatchInv, SilentInv
<1> QED  BY <1>1, <1>2, <1>3, <1>4 DEF IInv

\* The destructor stops the last stream and leaves its release to a barrier.
LEMMA StepStopStream ==
    ASSUME IInv, stopStream
    PROVE  IInv'
<1>1. TypeOK'
  BY DEF IInv, TypeOK, stopStream, Unlocked, Stop, Idle, Threads, Callbacks, Calls
<1>2. CurrentInv'
  BY StreamAssumption DEF IInv, CurrentInv, TypeOK, stopStream, Unlocked, Stop, Idle,
      Started, Threads, Callbacks, Calls
<1>3. KeeperInv'
  BY StreamAssumption DEF IInv, KeeperInv, TypeOK, CurrentInv, stopStream, Unlocked, Stop,
      Idle, Threads, Keeps, Callbacks, Calls, Started
<1>4. OrderInv'
  BY DEF IInv, OrderInv, ClosingInv, stopStream, Unlocked, Stop, Idle, Threads
<1>5. WatchInv'
  BY DEF IInv, WatchInv, stopStream, Unlocked, Stop, Idle, Threads
<1>6. SilentInv'
  BY DEF IInv, SilentInv, stopStream, Unlocked, Stop, Idle, Threads
<1>7. CoverInv'
  BY DEF IInv, CoverInv, stopStream, Unlocked, Stop, Idle, Directories
<1>9. ClosingInv'
  BY DEF IInv, ClosingInv, stopStream, Unlocked, Stop, Idle, Threads
<1>10. RunningInv'
  BY DEF IInv, RunningInv, stopStream, Unlocked, Stop, Idle, NoCallback
<1> QED  BY <1>1, <1>2, <1>3, <1>4, <1>5, <1>6, <1>7, <1>9, <1>10 DEF IInv

\* The destructor clears the watches when the barrier has run.
LEMMA StepClearWatches ==
    ASSUME IInv, clearWatches
    PROVE  IInv'
<1>1. TypeOK'
  BY DEF IInv, TypeOK, clearWatches, Idle, Unlocked, Threads, Callbacks, Calls
<1>2. WatchInv'
  BY DEF IInv, WatchInv, clearWatches, Idle, Unlocked, Threads
<1>3. CoverInv'
  BY DEF IInv, CoverInv, clearWatches, Idle, Unlocked, Directories
<1>4. ClosingInv'
  BY DEF IInv, ClosingInv, clearWatches, Idle, Unlocked, Threads
<1>5. (CurrentInv /\ KeeperInv /\ OrderInv /\ RunningInv /\ SilentInv)'
  BY DEF IInv, CurrentInv, clearWatches, Idle, Unlocked, Started, Threads, KeeperInv, Keeps,
      OrderInv, RunningInv, NoCallback, SilentInv
<1> QED  BY <1>1, <1>2, <1>3, <1>4, <1>5 DEF IInv

-----------------------------------------------------------------------------
(* The theorems.                                                           *)

\* Nothing is there at first.
LEMMA InitInv == Init => IInv
<1> SUFFICES ASSUME Init PROVE IInv
  OBVIOUS
<1>1. TypeOK
  <2>1. Idle \in Calls /\ NoCallback \in Callbacks /\ << >> \in Seq(Blocks)
    BY DEF Calls, Idle, Callbacks, NoCallback
  <2>2. /\ thread \in [Threads -> Calls] /\ running \in Callbacks /\ queue \in Seq(Blocks)
        /\ dir \in [Watches -> Dirs \cup {NULL}]
    BY <2>1 DEF Init
  <2>3. stream \in [Streams -> [st : {"new", "started", "stopped", "released"},
                              paths : SUBSET (Dirs \cup {NULL})]]
    BY DEF Init
  <2> QED  BY <2>2, <2>3 DEF Init, TypeOK
<1>2. CurrentInv /\ KeeperInv /\ OrderInv /\ RunningInv
  <2>1. /\ \A t \in Threads : thread[t] = Idle /\ thread[t].pc = "idle"
        /\ \A s \in Streams : stream[s].st = "new"
    BY DEF Init, Idle
  <2>2. /\ mStream = NULL /\ ~mWatching /\ running = NoCallback /\ running.pc = "idle"
        /\ \A i \in 1..Len(queue) : FALSE
    BY DEF Init, NoCallback
  <2>3. CurrentInv /\ RunningInv
    BY <2>1, <2>2 DEF CurrentInv, RunningInv, Started
  <2>4. KeeperInv /\ OrderInv
    BY <2>1, <2>2 DEF KeeperInv, Keeps, OrderInv
  <2> QED  BY <2>3, <2>4
<1>3. WatchInv /\ SilentInv /\ CoverInv /\ ClosingInv
  BY StreamAssumption
     DEF Init, WatchInv, SilentInv, CoverInv, ClosingInv, Threads, Idle, NoCallback
<1> QED  BY <1>1, <1>2, <1>3 DEF IInv

\* Every step keeps the invariant.
LEMMA InvStep == IInv /\ [Next]_vars => IInv'
<1> SUFFICES ASSUME IInv, [Next]_vars PROVE IInv'
  OBVIOUS
<1>1. ASSUME NEW t \in Clients \cup {Queue},
             \/ watch(t)
             \/ \E w \in Watches : removeWatch(t, w) \/ \E d \in Dirs : addWatch(t, w, d)
      PROVE  IInv'
  BY <1>1, StepWatch, StepRemoveWatch, StepAddWatch
<1>2. ASSUME NEW t \in Threads, inCall(t)  PROVE IInv'
  BY <1>2, StepInsertWatch, StepStopReplaced, StepReleaseAfterCallbacks, StepReleaseStream DEF inCall
<1>3. ASSUME NEW s \in Streams, fire(s)  PROVE IInv'
  BY <1>3, StepFire
<1>4. CASE dispatch
  BY <1>4, StepRunRelease, StepRunBarrier, StepEnterCallback, StepCopyWatches, StepCallListener,
     StepListenerReturns, StepLeaveCallback DEF dispatch, FSEventCallback
<1>5. CASE clearInitOK \/ destructor
  BY <1>5, StepClearInitOK, StepStopStream, StepClearWatches DEF destructor
<1>6. CASE UNCHANGED vars
  <2>1. TypeOK' /\ CurrentInv' /\ KeeperInv' /\ OrderInv' /\ RunningInv'
    BY <1>6 DEF IInv, vars, TypeOK, CurrentInv, KeeperInv, Keeps, OrderInv, RunningInv, Started
  <2>2. WatchInv' /\ SilentInv' /\ CoverInv' /\ ClosingInv'
    BY <1>6 DEF IInv, vars, WatchInv, SilentInv, CoverInv, Directories, ClosingInv
  <2> QED  BY <2>1, <2>2 DEF IInv
<1> QED  BY <1>1, <1>2, <1>3, <1>4, <1>5, <1>6 DEF Next

\* The invariant holds, with listeners that take care and with others.
LEMMA InvHolds == Spec => []IInv
<1> QED  BY InitInv, InvStep, PTL DEF Spec

\* Watches, streams, blocks and calls keep their types, for any threads,
\* watches, directories and streams.
THEOREM StreamTypes == Spec => []TypeOK
<1>1. IInv => TypeOK
  BY DEF IInv
<1> QED  BY <1>1, InvHolds, PTL

\* A listener is not called for a watch whose removal has returned to a client:
\* neither by the callback that runs when the removal begins nor by any that
\* was queued (releaseStreamAfterCallbacks); after a removal whose rebuild
\* failed only the callback that was under way may call it (removeWatch, 372).
THEOREM RemovedStaysSilent == Spec => []SilentAfterRemove
<1>1. IInv => SilentAfterRemove
  BY DEF IInv, SilentInv, SilentAfterRemove
<1> QED  BY <1>1, InvHolds, PTL

\* Outside the mutex one stream is started and covers every watch, whichever
\* rebuilds failed, and a directory has one watch (insertWatch, removeWatch).
THEOREM EveryWatchStreamed == Spec => []CoveredByStream
<1>1. IInv => CoveredByStream
  <2> SUFFICES ASSUME IInv PROVE CoveredByStream
    OBVIOUS
  <2>1. ASSUME Unlocked  PROVE {s \in Streams : Started(s)} = {mStream} \ {NULL}
    <3>1. \A t \in Threads : thread[t].pc # "stopOld"
      BY <2>1, StreamAssumption DEF IInv, CurrentInv, Unlocked, Threads
    <3>2. mStream \in Streams \cup {NULL} /\ NULL \notin Streams
      BY StreamAssumption DEF IInv, TypeOK
    <3> QED  BY <3>1, <3>2 DEF IInv, CurrentInv
  <2> QED  BY <2>1 DEF IInv, CoveredByStream, CoverInv, WatchInv
<1> QED  BY <1>1, InvHolds, PTL

\* A stream is released once, and not while a callback is queued for it or
\* runs, whatever listeners do (releaseStreamAfterCallbacks, 244-257).
THEOREM StreamsOutliveCallbacks == Spec => []StreamAlive
<1>1. IInv => StreamAlive
  <2> SUFFICES ASSUME IInv PROVE StreamAlive
    OBVIOUS
  <2>1. DOMAIN queue = 1..Len(queue)
    BY DEF IInv, TypeOK
  <2> QED  BY <2>1 DEF IInv, KeeperInv, OrderInv, StreamAlive
<1> QED  BY <1>1, InvHolds, PTL
=============================================================================
