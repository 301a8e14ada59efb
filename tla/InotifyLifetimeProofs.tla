------------------------ MODULE InotifyLifetimeProofs ------------------------
(***************************************************************************)
(* Proofs about InotifyLifetime: type correctness, that what the calls that*)
(* run go on with is not freed under them, one owner per object, and the   *)
(* agreement of the two maps.                                              *)
(*                                                                         *)
(* The argument.  Only two steps free memory: the end of an iteration of   *)
(* the worker's loop, which frees mDeletedWatches, and the destructor after*)
(* it joined the worker.  The worker holds nothing at either point, so its *)
(* pointers are safe as long as each is to an object that is still in      *)
(* mWatches or in mDeletedWatches.  A client inside addWatch needs more,   *)
(* because the worker frees without taking mInitLock: the objects of its   *)
(* frames must still be in mWatches.  They are, because removal needs      *)
(* mInitLock, which the client holds, and because what addWatch itself     *)
(* removes when a descriptor is reused is outside its chain of parents:    *)
(* except when the descriptor is that of a frame, and then the call is in  *)
(* revisits and nothing is claimed of it.                                  *)
(***************************************************************************)
EXTENDS InotifyLifetime, SequenceTheorems, TLAPS

-----------------------------------------------------------------------------
(* The inductive invariant.                                                *)

BetweenBatches == {"off", "poll", "free", "exit"}
InAction == {"check", "callback", "prune"}

\* mInitLock: who is inside addWatch or handleAction owns it.
LockInv ==
    /\ \A t \in Clients : Busy(t) => owner = t
    /\ Busy(Worker) => wpc \in {"check", "callback"}
    /\ wpc \in InAction => owner = Worker
    /\ wpc \in {"check", "callback"} => callbacks \in 1..2

\* Shutdown: no client is inside the object, and the worker has left it before
\* anything is destroyed.
LifeInv ==
    /\ mInitOK <=> life = "alive"
    /\ life # "alive" => \A t \in Clients : ~Busy(t)
    /\ life = "gone" => wpc \in {"off", "exit"}

\* The worker's pointers.
WorkerInv ==
    /\ wpc \in BetweenBatches => BatchRetained = {}
    /\ wpc \in BetweenBatches \cup {"dispatch"} <=> cur = Null
    /\ BatchRetained \cup AddRetained(Worker) \subseteq Live \cup mDeletedWatches

\* A client's pointers, and the chain of parents of its frames, as long as the
\* call meets none of its own frames again.
ClientInv ==
    \A t \in Clients \ revisits :
        /\ AddRetained(t) \subseteq Live
        /\ adding[t] # NoRequest => adding[t].parent \in FramesOf(t) \cup {Null}
        /\ \A i \in 1..Len(call[t]) :
            obj[call[t][i].obj].parent \in {call[t][j].obj : j \in 1..(i - 1)} \cup {Null}

\* The tables: each entry under its own descriptor, and the slot a pending
\* registration will write is empty.
TableInv ==
    /\ \A w \in Wds : mWatches[w] # Null => obj[mWatches[w]].wd = w
    /\ \A t \in Threads : adding[t] # NoRequest => mWatches[adding[t].wd] = Null
    /\ SingleOwner
    /\ RealWatchesAgree

IInv == TypeOK /\ LockInv /\ LifeInv /\ WorkerInv /\ ClientInv /\ TableInv

-----------------------------------------------------------------------------
(* Type correctness.                                                       *)

\* callbacks is decreased only while a listener call is left.
TypeInv == TypeOK /\ (wpc \in {"check", "callback"} => callbacks \in 1..2)

\* A removal parks watches of the table and keeps the types.
LEMMA RetireType ==
    ASSUME TypeOK, NEW gone \in SUBSET Live, Retire(gone)
    PROVE  /\ mWatches' \in [Wds -> Objs \cup {Null}]
           /\ mRealWatches' \in [Wds -> Objs \cup {Null}]
           /\ mDeletedWatches' \subseteq Objs
           /\ freed' \subseteq Objs
           /\ obj' \in [Objs -> Watch]
BY DEF TypeOK, Retire, Live

\* What removeWatchLocked removes: the watch, and others of the table.
LEMMA RemoveRetires ==
    ASSUME TypeOK, NEW wd \in Wds, mWatches[wd] # Null, removeWatchLocked(wd)
    PROVE  \E gone \in SUBSET Live : mWatches[wd] \in gone /\ Retire(gone)
<1>1. mWatches[wd] \in Live
  BY DEF Live
<1>2. CASE obj[mWatches[wd]].recursive /\ obj[mWatches[wd]].parent = Null /\ mInitOK
  <2>1. PICK lost \in SUBSET (Live \cap AstrayFrom(mWatches[wd])) :
            Retire({mWatches[wd]} \cup (Live \cap InTree(mWatches[wd])) \cup lost)
    BY <1>2 DEF removeWatchLocked
  <2> DEFINE G == {mWatches[wd]} \cup (Live \cap InTree(mWatches[wd])) \cup lost
  <2>2. G \in SUBSET Live /\ mWatches[wd] \in G /\ Retire(G)
    BY <1>1, <2>1
  <2> QED BY <2>2
<1>3. CASE ~(obj[mWatches[wd]].recursive /\ obj[mWatches[wd]].parent = Null /\ mInitOK)
  <2>1. Retire({mWatches[wd]})
    BY <1>3 DEF removeWatchLocked
  <2> QED BY <1>1, <2>1
<1> QED BY <1>2, <1>3

\* The tables keep their types over inotify_add_watch.
LEMMA NativeAddType ==
    ASSUME TypeOK, LifetimeAssumption, NEW t \in Threads, NEW request \in Request,
           nativeAdd(t, request)
    PROVE  /\ mWatches' \in [Wds -> Objs \cup {Null}]
           /\ mRealWatches' \in [Wds -> Objs \cup {Null}]
           /\ mDeletedWatches' \subseteq Objs
           /\ freed' \subseteq Objs
           /\ obj' \in [Objs -> Watch]
           /\ adding' \in [Threads -> Request \cup {NoRequest}]
           /\ revisits' \subseteq Threads
<1>1. adding' \in [Threads -> Request \cup {NoRequest}] /\ revisits' \subseteq Threads
  BY DEF nativeAdd, noteRevisit, TypeOK
<1>2. CASE UNCHANGED tables
  BY <1>1, <1>2 DEF TypeOK, tables
<1>3. CASE mWatches[request.wd] # Null /\ removeWatchLocked(request.wd)
  <2>1. request.wd \in Wds
    BY DEF Request
  <2> QED BY <1>1, <1>3, <2>1, RemoveRetires, RetireType
<1> QED BY <1>2, <1>3 DEF nativeAdd

\* Reading and popping the stack of frames.
LEMMA FrameType ==
    ASSUME TypeOK, NEW t \in Threads
    PROVE  /\ call[t] \in Seq(Frame)
           /\ Len(call[t]) \in Nat
           /\ \A i \in 1..Len(call[t]) : call[t][i] \in Frame
           /\ call[t] # <<>> => Len(call[t]) \in 1..Len(call[t]) /\ Top(t) \in Frame
           /\ FramesOf(t) \subseteq Objs
           /\ call[t] # <<>> => SubSeq(call[t], 1, Len(call[t]) - 1) \in Seq(Frame)
<1>1. call[t] \in Seq(Frame)
  BY DEF TypeOK
<1>2. Len(call[t]) \in Nat /\ \A i \in 1..Len(call[t]) : call[t][i] \in Frame
  BY <1>1
<1>3. ASSUME call[t] # <<>>
      PROVE  /\ Len(call[t]) \in 1..Len(call[t])
             /\ SubSeq(call[t], 1, Len(call[t]) - 1) \in Seq(Frame)
  BY <1>1, <1>3
<1>4. call[t] # <<>> => Top(t) \in Frame
  BY <1>2, <1>3 DEF Top
<1>5. FramesOf(t) \subseteq Objs
  BY <1>2 DEF FramesOf, Frame
<1> QED BY <1>1, <1>2, <1>3, <1>4, <1>5

\* The steps inside addWatch keep the types.
LEMMA AddType ==
    ASSUME TypeInv, LifetimeAssumption, NEW t \in Threads, AddStep(t)
    PROVE  TypeInv'
<1> USE DEF TypeInv
<1>1. CASE addSubdirectory(t)
  <2>1. PICK wd \in Wds :
            nativeAdd(t, [wd |-> wd, parent |-> Top(t).obj,
                          internal |-> Top(t).internal, recursive |-> TRUE])
    BY <1>1 DEF addSubdirectory
  <2>2. Top(t) \in Frame
    BY <1>1, FrameType DEF addSubdirectory
  <2> DEFINE request == [wd |-> wd, parent |-> Top(t).obj,
                         internal |-> Top(t).internal, recursive |-> TRUE]
  <2>3. request \in Request
    BY <2>2 DEF Request, Frame
  <2> HIDE DEF request
  <2>4. nativeAdd(t, request)
    BY <2>1 DEF request
  <2> QED BY <1>1, <2>3, <2>4, NativeAddType
          DEF addSubdirectory, TypeOK, control, event, batch
<1>2. CASE register(t)
  <2>1. adding[t] \in Request
    BY <1>2 DEF register, TypeOK
  <2>2. PICK o \in Objs \ Created, id \in
                IF adding[t].parent = Null THEN {adding[t].wd}
                                           ELSE parentIDs(adding[t].parent) :
        /\ obj' = [obj EXCEPT ![o] =
                [wd |-> adding[t].wd, parent |-> adding[t].parent,
                 id |-> id, recursive |-> adding[t].recursive]]
        /\ mWatches' = [mWatches EXCEPT ![adding[t].wd] = o]
        /\ mRealWatches' = IF adding[t].parent = Null
                           THEN [mRealWatches EXCEPT ![adding[t].wd] = o]
                           ELSE mRealWatches
        /\ call' = [call EXCEPT ![t] = Append(call[t],
                [obj |-> o, internal |-> adding[t].internal,
                 phase |-> IF Synthetic /\ adding[t].internal /\ adding[t].recursive
                           THEN "notify" ELSE "recurse"])]
    BY <1>2 DEF register
  <2>7. id \in Wds \cup {Null}
    BY <2>1, <2>2 DEF Request, Watch, TypeOK, parentIDs
  <2>3. obj' \in [Objs -> Watch]
    BY <2>1, <2>2, <2>7 DEF Request, Watch, TypeOK
  <2>4. mWatches' \in [Wds -> Objs \cup {Null}] /\ mRealWatches' \in [Wds -> Objs \cup {Null}]
    BY <2>1, <2>2 DEF Request, TypeOK
  <2>5. call' \in [Threads -> Seq(Frame)]
    <3> DEFINE frame == [obj |-> o, internal |-> adding[t].internal,
                 phase |-> IF Synthetic /\ adding[t].internal /\ adding[t].recursive
                           THEN "notify" ELSE "recurse"]
    <3>1. frame \in Frame
      BY <2>1 DEF Frame, Request
    <3> HIDE DEF frame
    <3>2. Append(call[t], frame) \in Seq(Frame)
      BY <3>1, FrameType
    <3>3. call' = [call EXCEPT ![t] = Append(call[t], frame)]
      BY <2>2 DEF frame
    <3> QED BY <3>2, <3>3 DEF TypeOK
  <2>6. adding' \in [Threads -> Request \cup {NoRequest}]
    BY <1>2 DEF register, TypeOK
  <2> QED BY <1>2, <2>3, <2>4, <2>5, <2>6 DEF register, TypeOK, control, event, batch
<1>3. CASE returnAdd(t)
  <2>1. call' \in [Threads -> Seq(Frame)]
    BY <1>3, FrameType DEF returnAdd, TypeOK
  <2>2. owner' \in Threads \cup {Null} /\ wpc' \in Places
    BY <1>3 DEF returnAdd, TypeOK, Places
  <2>3. wpc' \in {"check", "callback"} => wpc \in {"check", "callback"}
    BY <1>3 DEF returnAdd
  <2>4. revisits' \subseteq Threads
    BY <1>3 DEF returnAdd, TypeOK
  <2> QED BY <1>3, <2>1, <2>2, <2>3, <2>4
          DEF returnAdd, TypeOK, control, tables, event, batch
<1> QED BY <1>1, <1>2, <1>3 DEF AddStep

\* The calls of the interface keep the types.
LEMMA InterfaceType ==
    ASSUME TypeInv, LifetimeAssumption, NEW t \in Threads, Interface(t)
    PROVE  TypeInv'
<1> USE DEF TypeInv
<1>1. CASE addWatch(t)
  <2>1. PICK wd \in Wds, recursive \in BOOLEAN :
            nativeAdd(t, [wd |-> wd, parent |-> Null, internal |-> FALSE,
                          recursive |-> recursive])
    BY <1>1 DEF addWatch
  <2>2. [wd |-> wd, parent |-> Null, internal |-> FALSE, recursive |-> recursive] \in Request
    BY DEF Request
  <2> QED BY <1>1, <2>1, <2>2, NativeAddType DEF addWatch, TypeOK, control, event, batch
<1>2. CASE removeWatch(t)
  BY <1>2, RemoveRetires, RetireType DEF removeWatch, TypeOK, control, adds, event, batch
<1> QED BY <1>1, <1>2 DEF Interface

\* The steps of handleAction keep the types.
LEMMA ActionType ==
    ASSUME TypeInv, LifetimeAssumption, HandleAction
    PROVE  TypeInv'
<1> USE DEF TypeInv, Places
<1>1. CASE testInitOK
  BY <1>1 DEF testInitOK, TypeOK, control, tables, adds, batch
<1>2. CASE enterAction
  BY <1>2 DEF enterAction, TypeOK, control, tables, adds, batch, Threads
<1>3. CASE checkForNewWatcher
  <2>1. PICK wd \in Wds : nativeAdd(Worker,
            [wd |-> wd, parent |-> cur, internal |-> TRUE, recursive |-> TRUE])
    BY <1>3 DEF checkForNewWatcher
  <2>2. [wd |-> wd, parent |-> cur, internal |-> TRUE, recursive |-> TRUE] \in Request
    BY DEF Request, TypeOK
  <2>3. Worker \in Threads
    BY DEF Threads
  <2> QED BY <1>3, <2>1, <2>2, <2>3, NativeAddType
          DEF checkForNewWatcher, TypeOK, control, event, batch
<1>4. CASE nothingToCover
  BY <1>4 DEF nothingToCover, TypeOK, control, tables, adds, event, batch
<1>5. CASE endNotify
  <2>1. Worker \in Threads /\ call[Worker] # <<>>
    BY <1>5 DEF endNotify, Threads
  <2>2. Top(Worker) \in Frame /\ call[Worker] \in Seq(Frame)
        /\ Len(call[Worker]) \in 1..Len(call[Worker])
    BY <2>1, FrameType
  <2>3. [call[Worker] EXCEPT ![Len(call[Worker])].phase = "recurse"] \in Seq(Frame)
    BY <2>2 DEF Frame, Top
  <2>4. call' = [call EXCEPT ![Worker] =
                    [call[Worker] EXCEPT ![Len(call[Worker])].phase = "recurse"]]
    BY <1>5 DEF endNotify
  <2>5. call' \in [Threads -> Seq(Frame)]
    BY <2>1, <2>3, <2>4 DEF TypeOK
  <2> QED BY <1>5, <2>5 DEF endNotify, TypeOK, control, tables, event, batch
<1>6. CASE endCallback
  BY <1>6 DEF endCallback, leaveAction, TypeOK, control, tables, adds, batch
<1>7. CASE pruneDeleted
  <2>1. CASE UNCHANGED tables
    BY <1>7, <2>1 DEF pruneDeleted, leaveAction, TypeOK, control, tables, adds, batch
  <2>2. CASE \E wd \in Wds : mWatches[wd] # Null /\ removeWatchLocked(wd)
    BY <1>7, <2>2, RemoveRetires, RetireType
       DEF pruneDeleted, leaveAction, TypeOK, control, adds, batch
  <2> QED BY <1>7, <2>1, <2>2 DEF pruneDeleted
<1> QED BY <1>1, <1>2, <1>3, <1>4, <1>5, <1>6, <1>7 DEF HandleAction

\* The steps of the batch loop keep the types.
LEMMA RunType ==
    ASSUME TypeInv, LifetimeAssumption, run
    PROVE  TypeInv'
<1> USE DEF TypeInv, Places
<1>1. CASE readBatch
  BY <1>1 DEF readBatch, TypeOK, control, tables, adds, event
<1>2. CASE Dispatch
  <2>1. ASSUME NEW wd \in Wds, NEW a \in Actions \ {"moved"}, dispatchEvent(wd, a)
        PROVE  TypeInv'
    BY <2>1 DEF dispatchEvent, MoreEvents, lookup, TypeOK, control, tables, adds
  <2>2. ASSUME NEW wd \in Wds, NEW dst \in Wds, NEW cookie \in Cookies,
               deferMove(wd, cookie, dst)
        PROVE  TypeInv'
    <3>1. [src |-> lookup(wd), dst |-> dst] \in Move
      BY <2>2 DEF deferMove, lookup, TypeOK, Move
    <3> QED BY <2>2, <3>1 DEF deferMove, MoreEvents, TypeOK, control, tables, adds, event
  <2>3. ASSUME NEW wd \in Wds, moveAway(wd)
        PROVE  TypeInv'
    BY <2>3 DEF moveAway, MoreEvents, lookup, TypeOK, control, tables, adds
  <2>4. ASSUME NEW cookie \in Cookies, finishMove(cookie)
        PROVE  TypeInv'
    <3>1. pending[cookie] \in Move
      BY <2>4 DEF finishMove, TypeOK
    <3>2. cur' \in Objs \cup {Null} /\ wpc' \in Places /\ action' \in Actions
      BY <2>4, <3>1 DEF finishMove, lookup, TypeOK, Move, Actions
    <3>3. wpc' \notin {"check", "callback"}
      BY <2>4 DEF finishMove
    <3> QED BY <2>4, <3>2, <3>3 DEF finishMove, TypeOK, control, tables, adds
  <2>5. CASE collectMoved
    BY <2>5 DEF collectMoved, Live, TypeOK, control, tables, adds, Actions
  <2>6. ASSUME NEW o \in Objs, eraseMoved(o)
        PROVE  TypeInv'
    BY <2>6 DEF eraseMoved, Live, TypeOK, control, tables, adds, Actions
  <2> QED BY <1>2, <2>1, <2>2, <2>3, <2>4, <2>5, <2>6 DEF Dispatch
<1>3. CASE endBatch
  BY <1>3 DEF endBatch, TypeOK, control, tables, adds, event, batch
<1>4. CASE freeDeleted
  BY <1>4 DEF freeDeleted, TypeOK, control, adds, event, batch
<1> QED BY <1>1, <1>2, <1>3, <1>4, ActionType DEF run

LEMMA TypeStep == TypeInv /\ LifetimeAssumption /\ [Next]_vars => TypeInv'
<1> SUFFICES ASSUME TypeInv, LifetimeAssumption, [Next]_vars
             PROVE  TypeInv'
  OBVIOUS
<1> USE DEF TypeInv, Places
<1>1. ASSUME NEW t \in Threads, Interface(t)
      PROVE  TypeInv'
  BY <1>1, InterfaceType
<1>2. ASSUME NEW t \in Threads, AddStep(t)
      PROVE  TypeInv'
  BY <1>2, AddType
<1>3. CASE run
  BY <1>3, RunType
<1>4. CASE watch
  BY <1>4 DEF watch, TypeOK, control, tables, adds, event, batch
<1>5. CASE destroy
  BY <1>5 DEF destroy, TypeOK, tables, adds, event, batch
<1>6. CASE destroyWatches
  BY <1>6 DEF destroyWatches, Live, TypeOK, adds, event, batch
<1>7. CASE UNCHANGED vars
  BY <1>7 DEF vars, TypeOK, control, tables, adds, event, batch
<1> QED BY <1>1, <1>2, <1>3, <1>4, <1>5, <1>6, <1>7 DEF Next, Destructor, terminated

\* The fields, maps and program counters keep their types for any number of
\* threads, watches and descriptors.
THEOREM TypeCorrect == Spec => []TypeOK
<1> USE LifetimeAssumption DEF TypeInv
<1>1. Init => TypeInv
  BY DEF Init, TypeOK, Watch, Threads, Places, Actions
<1>2. TypeInv /\ [Next]_vars => TypeInv'
  BY TypeStep
<1>3. TypeInv => TypeOK
  OBVIOUS
<1> QED BY <1>1, <1>2, <1>3, PTL DEF Spec

-----------------------------------------------------------------------------
(* Safety: what a removal does.                                            *)

\* A removal spares every set of live objects that is closed under Parent and
\* does not contain the watch removed: neither inParentTree nor a stale Parent
\* leads into it.
LEMMA RemoveSpares ==
    ASSUME TypeOK, LifetimeAssumption, NEW wd \in Wds, mWatches[wd] # Null,
           removeWatchLocked(wd)
    PROVE  \E gone \in SUBSET Live :
            /\ Retire(gone)
            /\ \A X \in SUBSET Objs :
                /\ \A x \in X : obj[x].parent \in X \cup {Null}
                /\ X \cap freed = {}
                /\ mWatches[wd] \notin X
                => gone \cap X = {}
<1> DEFINE p == mWatches[wd]
           Rooted(X) == /\ \A x \in X : obj[x].parent \in X \cup {Null}
                        /\ X \cap freed = {}
                        /\ p \notin X
<1>1. p \in Live /\ p \in Objs /\ p # Null
  BY DEF Live, TypeOK
<1>2. ASSUME NEW X \in SUBSET Objs, Rooted(X)
      PROVE  InTree(p) \cap X = {} /\ AstrayFrom(p) \cap X = {}
  <2> DEFINE S == Objs \ X
  <2>1. \A x \in Objs : obj[x].parent \in {p} \cup (S \ freed) => x \in S
    BY <1>1, <1>2 DEF LifetimeAssumption
  <2>2. \A x \in Objs : obj[x].parent \in (S \cup freed) \ {p} => x \in S
    BY <1>1, <1>2, LifetimeAssumption DEF LifetimeAssumption, TypeOK
  <2>3. S \in SUBSET Objs
    OBVIOUS
  <2>4. \A o \in InTree(p) : o \in S
    <3> HIDE DEF S
    <3> QED BY <2>1, <2>3 DEF InTree
  <2>5. \A o \in AstrayFrom(p) : o \in S
    <3> HIDE DEF S
    <3> QED BY <2>2, <2>3 DEF AstrayFrom
  <2> QED BY <2>4, <2>5
<1>3. CASE obj[p].recursive /\ obj[p].parent = Null /\ mInitOK
  <2>1. PICK lost \in SUBSET (Live \cap AstrayFrom(p)) :
            Retire({p} \cup (Live \cap InTree(p)) \cup lost)
    BY <1>3 DEF removeWatchLocked
  <2> DEFINE G == {p} \cup (Live \cap InTree(p)) \cup lost
  <2>2. G \in SUBSET Live /\ Retire(G)
    BY <1>1, <2>1
  <2>3. \A X \in SUBSET Objs : Rooted(X) => G \cap X = {}
    BY <1>2
  <2> HIDE DEF G
  <2> QED BY <2>2, <2>3
<1>4. CASE ~(obj[p].recursive /\ obj[p].parent = Null /\ mInitOK)
  <2>1. Retire({p})
    BY <1>4 DEF removeWatchLocked
  <2>2. \A X \in SUBSET Objs : Rooted(X) => {p} \cap X = {}
    OBVIOUS
  <2> QED BY <1>1, <2>1, <2>2
<1> QED BY <1>3, <1>4

\* Ownership over a removal: what leaves mWatches goes to mDeletedWatches.
LEMMA RetireOwners ==
    ASSUME TypeOK, LifetimeAssumption, SingleOwner, RealWatchesAgree,
           \A w \in Wds : mWatches[w] # Null => obj[mWatches[w]].wd = w,
           NEW gone \in SUBSET Live, Retire(gone), life' = life
    PROVE  /\ Live' = Live \ gone
           /\ mDeletedWatches' = mDeletedWatches \cup gone
           /\ UNCHANGED <<freed, obj>>
           /\ \A w \in Wds : mWatches'[w] # Null => mWatches'[w] = mWatches[w]
           /\ \A w \in Wds : mWatches[w] = Null => mWatches'[w] = Null
           /\ SingleOwner' /\ RealWatchesAgree'
           /\ \A w \in Wds : mWatches'[w] # Null => obj'[mWatches'[w]].wd = w
<1>1. mWatches' = [w \in Wds |-> IF mWatches[w] \in gone THEN Null ELSE mWatches[w]]
  BY DEF Retire
<1>2. Live' = Live \ gone
  BY <1>1 DEF Live
<1>3. mDeletedWatches' = mDeletedWatches \cup gone /\ UNCHANGED <<freed, obj>>
  BY DEF Retire
<1>4. SingleOwner'
  <2>1. Created' = Created
    BY <1>3 DEF Created
  <2>2. \A v, w \in Wds : mWatches'[v] = mWatches'[w] => v = w \/ mWatches'[v] = Null
    BY <1>1 DEF SingleOwner
  <2> QED BY <1>2, <1>3, <2>1, <2>2 DEF SingleOwner
<1>5. RealWatchesAgree'
  <2>1. mRealWatches' = [w \in Wds |-> IF mRealWatches[w] \in gone THEN Null
                                                             ELSE mRealWatches[w]]
    BY DEF Retire
  <2>2. Null \notin gone
    BY DEF Live
  <2> QED BY <1>1, <1>3, <2>1, <2>2 DEF RealWatchesAgree
<1> QED BY <1>1, <1>2, <1>3, <1>4, <1>5

-----------------------------------------------------------------------------
(* Safety: the steps that change the tables or the frames.                 *)

LEMMA AddsUnchanged ==
    ASSUME UNCHANGED adds, NEW t \in Threads
    PROVE  /\ FramesOf(t)' = FramesOf(t) /\ AddRetained(t)' = AddRetained(t)
           /\ Busy(t)' = Busy(t)
BY DEF adds, FramesOf, AddRetained, Busy

\* A removal made while no client is inside addWatch.
LEMMA RemovalStep ==
    ASSUME IInv, LifetimeAssumption, NEW wd \in Wds, mWatches[wd] # Null,
           removeWatchLocked(wd), UNCHANGED <<control, adds>>,
           \A t \in Clients : ~Busy(t)
    PROVE  /\ ClientInv' /\ TableInv'
           /\ (Live \cup mDeletedWatches)' = Live \cup mDeletedWatches
<1>1. PICK gone \in SUBSET Live : Retire(gone)
  BY RemoveSpares DEF IInv
<1>2. /\ Live' = Live \ gone
      /\ mDeletedWatches' = mDeletedWatches \cup gone
      /\ \A w \in Wds : mWatches[w] = Null => mWatches'[w] = Null
      /\ SingleOwner' /\ RealWatchesAgree'
      /\ \A w \in Wds : mWatches'[w] # Null => obj'[mWatches'[w]].wd = w
  BY <1>1, RetireOwners DEF IInv, TableInv, control
<1>3. ClientInv'
  <2>1. \A t \in Clients : call'[t] = <<>> /\ adding'[t] = NoRequest
    BY DEF adds, Busy
  <2>2. \A t \in Clients : FramesOf(t)' = {} /\ AddRetained(t)' = {}
    BY <2>1 DEF FramesOf, AddRetained
  <2> QED BY <2>1, <2>2 DEF ClientInv
<1>4. \A t \in Threads : adding'[t] # NoRequest => mWatches'[adding'[t].wd] = Null
  BY <1>2 DEF IInv, TableInv, TypeOK, Request, adds
<1> QED BY <1>2, <1>3, <1>4 DEF TableInv

\* inotify_add_watch, with the removal of a watch whose descriptor it reuses.
LEMMA NativeStep ==
    ASSUME IInv, LifetimeAssumption, NEW t \in Threads, NEW request \in Request,
           nativeAdd(t, request), UNCHANGED <<control, call>>, adding[t] = NoRequest,
           t \in Clients => request.parent \in FramesOf(t) \cup {Null},
           \A u \in Clients : u # t => ~Busy(u)
    PROVE  /\ ClientInv' /\ TableInv'
           /\ (Live \cup mDeletedWatches)' = Live \cup mDeletedWatches
           /\ \A u \in Threads : FramesOf(u)' = FramesOf(u)
<1> USE DEF IInv
<1>1. /\ adding' = [adding EXCEPT ![t] = request] /\ request.wd \in Wds
      /\ revisits \subseteq revisits'
  BY DEF nativeAdd, noteRevisit, Request
<1>2. \A u \in Threads : FramesOf(u)' = FramesOf(u)
  BY DEF FramesOf
<1>3. \A u \in Clients : u # t => FramesOf(u)' = {} /\ AddRetained(u)' = {} /\ call'[u] = <<>>
                                  /\ adding'[u] = NoRequest
  BY <1>1 DEF FramesOf, AddRetained, Busy, TypeOK, Threads
<1>4. AddRetained(t)' \subseteq FramesOf(t) \cup {request.parent} /\ Null \notin AddRetained(t)'
  BY <1>1, <1>2 DEF AddRetained, TypeOK
<1>5. CASE UNCHANGED <<tables, revisits>> /\ \A o \in Objs : obj[o].wd # request.wd
  <2>1. Live' = Live /\ mDeletedWatches' = mDeletedWatches
    BY <1>5 DEF tables, Live
  <2>2. TableInv'
    <3>1. mWatches[request.wd] = Null
      BY <1>1, <1>5 DEF TableInv, TypeOK
    <3>2. SingleOwner' /\ RealWatchesAgree'
      BY <1>5, <2>1 DEF TableInv, SingleOwner, RealWatchesAgree, tables, control, Created
    <3> QED BY <1>1, <1>5, <3>1, <3>2 DEF TableInv, tables, TypeOK
  <2>3. ClientInv'
    <3>1. ASSUME t \in Clients \ revisits'
          PROVE  /\ AddRetained(t)' \subseteq Live'
                 /\ adding'[t] # NoRequest => adding'[t].parent \in FramesOf(t)' \cup {Null}
      <4>1. FramesOf(t) \ {Null} \subseteq Live
        BY <1>1, <3>1 DEF ClientInv, AddRetained
      <4> QED BY <1>1, <1>2, <1>4, <2>1, <3>1, <4>1 DEF TypeOK
    <3>2. \A u \in Clients \ revisits' : \A i \in 1..Len(call'[u]) :
            obj'[call'[u][i].obj].parent \in
                {call'[u][j].obj : j \in 1..(i - 1)} \cup {Null}
      BY <1>1, <1>5 DEF ClientInv, tables
    <3> QED BY <1>3, <3>1, <3>2 DEF ClientInv
  <2> QED BY <1>2, <2>1, <2>2, <2>3
<1>6. CASE /\ mWatches[request.wd] # Null
           /\ removeWatchLocked(request.wd)
           /\ noteRevisit(t, request)
  <2>1. PICK gone \in SUBSET Live :
            /\ Retire(gone)
            /\ \A X \in SUBSET Objs :
                /\ \A x \in X : obj[x].parent \in X \cup {Null}
                /\ X \cap freed = {}
                /\ mWatches[request.wd] \notin X
                => gone \cap X = {}
    BY <1>1, <1>6, RemoveSpares
  <2>2. PICK gone2 \in SUBSET Live : mWatches[request.wd] \in gone2 /\ Retire(gone2)
    BY <1>1, <1>6, RemoveRetires
  <2>3. /\ Live' = Live \ gone
        /\ mDeletedWatches' = mDeletedWatches \cup gone
        /\ UNCHANGED <<freed, obj>>
        /\ \A w \in Wds : mWatches[w] = Null => mWatches'[w] = Null
        /\ SingleOwner' /\ RealWatchesAgree'
        /\ \A w \in Wds : mWatches'[w] # Null => obj'[mWatches'[w]].wd = w
    BY <2>1, RetireOwners DEF TableInv, control
  <2>4. mWatches'[request.wd] = Null
    BY <1>1, <2>2 DEF Retire
  <2>5. TableInv'
    BY <1>1, <2>3, <2>4 DEF TableInv, TypeOK, Request
  <2>6. ClientInv'
    <3>1. ASSUME t \in Clients \ revisits'
          PROVE  /\ AddRetained(t)' \subseteq Live'
                 /\ adding'[t] # NoRequest => adding'[t].parent \in FramesOf(t)' \cup {Null}
      <4>1. FramesOf(t) \subseteq Objs /\ FramesOf(t) \subseteq Live
        BY <1>1, <3>1, FrameType DEF ClientInv, AddRetained, LifetimeAssumption
      <4>2. \A x \in FramesOf(t) : obj[x].parent \in FramesOf(t) \cup {Null}
        <5>1. Len(call[t]) \in Nat
          BY FrameType
        <5>2. ASSUME NEW i \in 1..Len(call[t])
              PROVE  obj[call[t][i].obj].parent \in FramesOf(t) \cup {Null}
          <6>1. obj[call[t][i].obj].parent \in {call[t][j].obj : j \in 1..(i - 1)} \cup {Null}
            BY <1>1, <3>1 DEF ClientInv
          <6>2. \A j \in 1..(i - 1) : j \in 1..Len(call[t])
            BY <5>1
          <6> QED BY <6>1, <6>2 DEF FramesOf
        <5> QED BY <5>2 DEF FramesOf
      <4>3. FramesOf(t) \cap freed = {}
        BY <4>1 DEF TableInv, SingleOwner
      <4>0. mWatches[request.wd] \notin FramesOf(t)
        BY <1>6, <3>1 DEF noteRevisit
      <4>4. gone \cap FramesOf(t) = {}
        BY <4>0, <2>1, <4>1, <4>2, <4>3
      <4>5. AddRetained(t)' \subseteq FramesOf(t)
        BY <1>4, <3>1
      <4>6. AddRetained(t)' \subseteq Live'
        BY <2>3, <4>1, <4>4, <4>5
      <4>7. adding'[t] = request
        BY <1>1 DEF TypeOK
      <4> QED BY <1>2, <3>1, <4>6, <4>7
    <3>2. \A u \in Clients \ revisits' : \A i \in 1..Len(call'[u]) :
            obj'[call'[u][i].obj].parent \in
                {call'[u][j].obj : j \in 1..(i - 1)} \cup {Null}
      BY <1>1, <2>3 DEF ClientInv
    <3> QED BY <1>3, <3>1, <3>2 DEF ClientInv
  <2> QED BY <1>2, <2>3, <2>5, <2>6
<1> QED BY <1>5, <1>6 DEF nativeAdd

\* A new frame goes on top and leaves the others where they are.
LEMMA PushFacts ==
    ASSUME NEW s \in Seq(Frame), NEW f \in Frame, NEW r, r = Append(s, f)
    PROVE  /\ Len(r) = Len(s) + 1
           /\ \A i \in 1..Len(s) : r[i] = s[i]
           /\ r[Len(s) + 1] = f
<1>1. Len(Append(s, f)) = Len(s) + 1
  BY AppendProperties
<1>2. \A i \in 1..Len(s) : Append(s, f)[i] = s[i]
  BY AppendProperties
<1>3. Append(s, f)[Len(s) + 1] = f
  BY AppendProperties
<1> QED BY <1>1, <1>2, <1>3

\* new WatcherInotify: the object goes into mWatches and on the frame stack.
LEMMA RegisterStep ==
    ASSUME IInv, LifetimeAssumption, NEW t \in Threads, register(t)
    PROVE  IInv'
<1> USE DEF IInv
<1>1. adding[t] \in Request /\ Busy(t) /\ mWatches[adding[t].wd] = Null
  BY DEF register, TypeOK, Busy, TableInv
<1>2. PICK o \in Objs \ Created, id \in
                IF adding[t].parent = Null THEN {adding[t].wd}
                                           ELSE parentIDs(adding[t].parent) :
        /\ obj' = [obj EXCEPT ![o] =
                [wd |-> adding[t].wd, parent |-> adding[t].parent,
                 id |-> id, recursive |-> adding[t].recursive]]
        /\ mWatches' = [mWatches EXCEPT ![adding[t].wd] = o]
        /\ mRealWatches' = IF adding[t].parent = Null
                           THEN [mRealWatches EXCEPT ![adding[t].wd] = o]
                           ELSE mRealWatches
        /\ call' = [call EXCEPT ![t] = Append(call[t],
                [obj |-> o, internal |-> adding[t].internal,
                 phase |-> IF Synthetic /\ adding[t].internal /\ adding[t].recursive
                           THEN "notify" ELSE "recurse"])]
  BY DEF register
<1>3. adding' = [adding EXCEPT ![t] = NoRequest]
      /\ UNCHANGED <<mDeletedWatches, freed, revisits>>
  BY DEF register
<1>4. /\ Live' = Live \cup {o} /\ Created' = Created \cup {o}
      /\ o \notin Live \cup mDeletedWatches \cup freed
  <2>1. o # Null /\ adding[t].wd \in Wds /\ adding[t].wd # Null
    BY <1>1 DEF Request, LifetimeAssumption
  <2>2. Live' = Live \cup {o}
    BY <1>1, <1>2, <2>1 DEF Live, TypeOK
  <2>3. Created' = Created \cup {o}
    BY <1>1, <1>2, <2>1 DEF Created, TypeOK, Request, Watch
  <2> QED BY <2>2, <2>3 DEF TableInv, SingleOwner
<1>5. TypeOK'
  BY AddType DEF AddStep, TypeInv, LockInv
<1>6. \A u \in Threads : u # t => /\ call'[u] = call[u] /\ adding'[u] = adding[u]
                                  /\ FramesOf(u)' = FramesOf(u)
                                  /\ AddRetained(u)' = AddRetained(u)
                                  /\ Busy(u)' = Busy(u)
  BY <1>2, <1>3 DEF FramesOf, AddRetained, Busy, TypeOK
<1>7. /\ call[t] \in Seq(Frame)
      /\ Len(call'[t]) = Len(call[t]) + 1
      /\ \A i \in 1..Len(call[t]) : call'[t][i] = call[t][i]
      /\ call'[t][Len(call[t]) + 1].obj = o
  <2>1. call[t] \in Seq(Frame)
    BY FrameType
  <2> DEFINE f == [obj |-> o, internal |-> adding[t].internal,
                   phase |-> IF Synthetic /\ adding[t].internal /\ adding[t].recursive
                             THEN "notify" ELSE "recurse"]
  <2>2. f \in Frame /\ f.obj = o
    BY <1>1 DEF Frame, Request
  <2>3. call'[t] = Append(call[t], f)
    BY <1>2 DEF TypeOK
  <2> HIDE DEF f
  <2>4. /\ Len(call'[t]) = Len(call[t]) + 1
        /\ \A i \in 1..Len(call[t]) : call'[t][i] = call[t][i]
        /\ call'[t][Len(call[t]) + 1] = f
    BY <2>1, <2>2, <2>3, PushFacts
  <2> QED BY <2>1, <2>2, <2>4
<1>8. FramesOf(t)' = FramesOf(t) \cup {o} /\ AddRetained(t)' \subseteq FramesOf(t) \cup {o}
  <2>1. Len(call[t]) \in Nat
    BY <1>7
  <2>2. FramesOf(t)' = FramesOf(t) \cup {o}
    <3>1. FramesOf(t) = {call[t][i].obj : i \in 1..Len(call[t])}
      BY DEF FramesOf
    <3>2. FramesOf(t)' = {call'[t][i].obj : i \in 1..(Len(call[t]) + 1)}
      BY <1>7 DEF FramesOf
    <3>3. 1..(Len(call[t]) + 1) = (1..Len(call[t])) \cup {Len(call[t]) + 1}
      BY <2>1
    <3> QED BY <1>7, <3>1, <3>2, <3>3
  <2>3. adding'[t] = NoRequest
    BY <1>3 DEF TypeOK
  <2> QED BY <2>2, <2>3 DEF AddRetained
<1>9. LockInv'
  <2>1. UNCHANGED <<wpc, owner, callbacks>>
    BY DEF register, event
  <2> QED BY <1>1, <1>6, <2>1 DEF LockInv, Threads, LifetimeAssumption
<1>10. LifeInv'
  BY <1>1, <1>6 DEF register, control, LifeInv, Threads, LifetimeAssumption
<1>11. WorkerInv'
  <2>1. UNCHANGED <<wpc, cur, pending, erase>> /\ BatchRetained' = BatchRetained
    BY DEF register, event, batch, BatchRetained
  <2>2. AddRetained(Worker)' \subseteq AddRetained(Worker) \cup {o}
    <3>1. FramesOf(t) \subseteq AddRetained(t) \cup {Null}
      BY DEF AddRetained
    <3>2. Null \notin AddRetained(t)'
      BY DEF AddRetained
    <3> QED BY <1>6, <1>8, <3>1, <3>2 DEF Threads
  <2> QED BY <1>3, <1>4, <2>1, <2>2 DEF WorkerInv
<1>12. ClientInv'
  <2> SUFFICES ASSUME NEW u \in Clients \ revisits
               PROVE  /\ AddRetained(u)' \subseteq Live'
                      /\ adding'[u] # NoRequest =>
                            adding'[u].parent \in FramesOf(u)' \cup {Null}
                      /\ \A i \in 1..Len(call'[u]) : obj'[call'[u][i].obj].parent \in
                            {call'[u][j].obj : j \in 1..(i - 1)} \cup {Null}
    BY <1>3 DEF ClientInv
  <2>0. u \in Threads /\ FramesOf(u) \subseteq Objs
    BY FrameType DEF Threads
  <2>1. FramesOf(u) \subseteq Live /\ o \notin FramesOf(u)
    BY <1>4, <2>0 DEF ClientInv, AddRetained, LifetimeAssumption
  <2>2. \A i \in 1..Len(call[u]) : obj'[call[u][i].obj] = obj[call[u][i].obj]
    BY <1>2, <2>0, <2>1 DEF FramesOf, TypeOK
  <2>3. CASE u # t
    <3>1. AddRetained(u) \subseteq Live
          /\ (adding[u] # NoRequest => adding[u].parent \in FramesOf(u) \cup {Null})
      BY DEF ClientInv
    <3>2. call'[u] = call[u] /\ adding'[u] = adding[u]
          /\ FramesOf(u)' = FramesOf(u) /\ AddRetained(u)' = AddRetained(u)
      BY <1>6, <2>0, <2>3
    <3>3. \A i \in 1..Len(call[u]) : obj'[call[u][i].obj].parent \in
                {call[u][j].obj : j \in 1..(i - 1)} \cup {Null}
      BY <2>2 DEF ClientInv
    <3> QED BY <1>4, <3>1, <3>2, <3>3
  <2>4. CASE u = t
    <3>1. AddRetained(u)' \subseteq Live'
      BY <1>4, <1>8, <2>1, <2>4
    <3>2. adding'[u] = NoRequest
      BY <1>3, <2>4 DEF TypeOK
    <3>3. Len(call[u]) \in Nat
      BY <1>7, <2>4
    <3>4. ASSUME NEW i \in 1..Len(call'[u]), i # Len(call[u]) + 1
          PROVE  obj'[call'[u][i].obj].parent \in
                    {call'[u][j].obj : j \in 1..(i - 1)} \cup {Null}
      <4>1. i \in 1..Len(call[u]) /\ \A j \in 1..(i - 1) : j \in 1..Len(call[u])
        BY <1>7, <2>4, <3>3, <3>4
      <4>2. obj[call[u][i].obj].parent \in {call[u][j].obj : j \in 1..(i - 1)} \cup {Null}
        BY <4>1 DEF ClientInv
      <4>3. call'[u][i] = call[u][i] /\ \A j \in 1..(i - 1) : call'[u][j] = call[u][j]
        BY <1>7, <2>4, <4>1
      <4>4. obj'[call'[u][i].obj].parent = obj[call[u][i].obj].parent
        BY <2>2, <4>1, <4>3
      <4>5. {call'[u][j].obj : j \in 1..(i - 1)} = {call[u][j].obj : j \in 1..(i - 1)}
        BY <4>3
      <4> QED BY <4>2, <4>4, <4>5
    <3>5. obj'[o].parent \in {call'[u][j].obj : j \in 1..Len(call[u])} \cup {Null}
      <4>1. obj'[o].parent = adding[u].parent
        BY <1>2, <2>4 DEF TypeOK
      <4>2. adding[u].parent \in FramesOf(u) \cup {Null}
        BY <1>1, <2>4 DEF ClientInv, register
      <4> QED BY <1>7, <2>4, <4>1, <4>2, SMTT(30) DEF FramesOf
    <3>6. \A i \in 1..Len(call'[u]) : obj'[call'[u][i].obj].parent \in
                {call'[u][j].obj : j \in 1..(i - 1)} \cup {Null}
      BY <1>7, <2>4, <3>3, <3>4, <3>5, SMTT(30)
    <3> QED BY <3>1, <3>2, <3>6
  <2> QED BY <2>3, <2>4
<1>13. TableInv'
  <2>1. adding[t].wd \in Wds
    BY <1>1 DEF Request
  <2>2. \A w \in Wds : mWatches'[w] = IF w = adding[t].wd THEN o ELSE mWatches[w]
    BY <1>2, <2>1 DEF TypeOK
  <2>3. \A x \in Objs : x # o => obj'[x] = obj[x]
    BY <1>2 DEF TypeOK
  <2>4. obj'[o].wd = adding[t].wd /\ obj'[o].parent = adding[t].parent
    BY <1>2 DEF TypeOK
  <2>5. \A w \in Wds : mWatches[w] # o
    BY <1>4 DEF Live, LifetimeAssumption
  <2>6. \A w \in Wds : mWatches'[w] # Null => obj'[mWatches'[w]].wd = w
    BY <2>2, <2>3, <2>4, <2>5, SMTT(30) DEF TableInv, TypeOK
  <2>7. \A u \in Threads : adding'[u] # NoRequest => u # t
    BY <1>3 DEF TypeOK
  <2>8. \A u \in Threads : u # t => ~Busy(u)
    BY <1>1 DEF LockInv, Threads, LifetimeAssumption, InAction
  <2>9. \A u \in Threads : adding'[u] = NoRequest
    BY <1>6, <2>7, <2>8 DEF Busy
  <2>10. SingleOwner'
    <3>1. \A v, w \in Wds : mWatches'[v] = mWatches'[w] => v = w \/ mWatches'[v] = Null
      BY <2>2, <2>5 DEF TableInv, SingleOwner
    <3> QED BY <1>3, <1>4, <3>1 DEF TableInv, SingleOwner
  <2>11. RealWatchesAgree'
    <3> SUFFICES ASSUME life # "gone", NEW w \in Wds
                 PROVE  mRealWatches'[w] =
                            IF mWatches'[w] # Null /\ obj'[mWatches'[w]].parent = Null
                            THEN mWatches'[w] ELSE Null
      BY DEF RealWatchesAgree, register, control
    <3>1. CASE w = adding[t].wd
      BY <1>1, <1>2, <2>1, <2>2, <2>4, <3>1
         DEF TableInv, RealWatchesAgree, TypeOK, LifetimeAssumption
    <3>2. CASE w # adding[t].wd
      <4>1. mRealWatches'[w] = mRealWatches[w] /\ mWatches'[w] = mWatches[w]
        BY <1>2, <2>2, <3>2 DEF TypeOK
      <4> QED BY <2>3, <2>5, <4>1 DEF TableInv, RealWatchesAgree, TypeOK
    <3> QED BY <3>1, <3>2
  <2> QED BY <2>6, <2>9, <2>10, <2>11 DEF TableInv
<1> QED BY <1>5, <1>9, <1>10, <1>11, <1>12, <1>13

\* A thread that may call the interface shuts every client out of addWatch.
LEMMA CallExcludes ==
    ASSUME IInv, LifetimeAssumption, NEW t \in Threads, CanCall(t)
    PROVE  /\ \A u \in Clients : ~Busy(u)
           /\ t = Worker => wpc \in {"check", "callback"} /\ owner = Worker
           /\ adding[t] = NoRequest
           /\ life = "alive"
<1>1. CASE t = Worker
  <2>1. InCallback
    BY <1>1 DEF CanCall
  <2>2. wpc \in {"check", "callback"}
    BY <2>1 DEF InCallback, Busy, IInv, LockInv
  <2>3. owner = Worker
    BY <2>2 DEF InAction, IInv, LockInv
  <2> QED BY <1>1, <2>1, <2>2, <2>3
          DEF CanCall, InCallback, IInv, LockInv, LifeInv, LifetimeAssumption
<1>2. CASE t # Worker
  BY <1>2 DEF CanCall, Busy, IInv, LockInv, LifeInv, Threads, LifetimeAssumption
<1> QED BY <1>1, <1>2

LEMMA InterfaceStep ==
    ASSUME IInv, LifetimeAssumption, NEW t \in Threads, Interface(t)
    PROVE  IInv'
<1> USE DEF IInv
<1>1. TypeOK'
  BY InterfaceType DEF TypeInv, LockInv
<1>2. CASE addWatch(t)
  <2>1. CanCall(t) /\ owner' = t /\ UNCHANGED <<control, call, wpc, event, batch>>
    BY <1>2 DEF addWatch
  <2>2. PICK wd \in Wds, recursive \in BOOLEAN :
            nativeAdd(t, [wd |-> wd, parent |-> Null, internal |-> FALSE,
                          recursive |-> recursive])
    BY <1>2 DEF addWatch
  <2> DEFINE request == [wd |-> wd, parent |-> Null, internal |-> FALSE,
                         recursive |-> recursive]
  <2>3. request \in Request /\ request.parent = Null
    BY DEF Request
  <2> HIDE DEF request
  <2>4. nativeAdd(t, request) /\ UNCHANGED <<control, call>>
    BY <2>1, <2>2 DEF request
  <2>5. /\ \A u \in Clients : ~Busy(u)
        /\ t = Worker => wpc \in {"check", "callback"} /\ owner = Worker
        /\ adding[t] = NoRequest
        /\ life = "alive"
    BY <2>1, CallExcludes
  <2>6. /\ ClientInv' /\ TableInv'
        /\ (Live \cup mDeletedWatches)' = Live \cup mDeletedWatches
        /\ \A u \in Threads : FramesOf(u)' = FramesOf(u)
    BY <2>3, <2>4, <2>5, NativeStep
  <2>7. adding' = [adding EXCEPT ![t] = request]
    BY <2>4 DEF nativeAdd
  <2>8. \A u \in Threads : u # t => Busy(u)' = Busy(u) /\ AddRetained(u)' = AddRetained(u)
    BY <2>1, <2>6, <2>7 DEF Busy, AddRetained, TypeOK
  <2>9. LockInv'
    <3>1. \A u \in Clients : Busy(u)' => owner' = u
      BY <2>1, <2>5, <2>8 DEF Threads
    <3>2. Busy(Worker)' => wpc' \in {"check", "callback"}
      BY <2>1, <2>5, <2>8 DEF LockInv, Threads
    <3>3. wpc' \in InAction => owner' = Worker
      BY <2>1, <2>5 DEF LockInv, CanCall, LifetimeAssumption
    <3> QED BY <2>1, <3>1, <3>2, <3>3 DEF LockInv, event
  <2>10. LifeInv'
    BY <2>1, <2>5 DEF LifeInv, control
  <2>11. WorkerInv'
    <3>1. BatchRetained' = BatchRetained /\ UNCHANGED <<wpc, cur>>
      BY <2>1 DEF BatchRetained, event, batch
    <3>2. AddRetained(Worker)' \subseteq AddRetained(Worker)
      <4>1. CASE t = Worker
        BY <2>3, <2>6, <2>7, <4>1 DEF AddRetained, TypeOK
      <4> QED BY <2>8, <4>1 DEF Threads
    <3> QED BY <2>6, <3>1, <3>2 DEF WorkerInv
  <2> QED BY <1>1, <2>6, <2>9, <2>10, <2>11
<1>3. CASE removeWatch(t)
  <2>1. CanCall(t) /\ UNCHANGED <<control, owner, adds, wpc, event, batch>>
    BY <1>3 DEF removeWatch
  <2>2. \A u \in Clients : ~Busy(u)
    BY <2>1, CallExcludes
  <2>3. PICK wd \in Wds : mWatches[wd] # Null /\ removeWatchLocked(wd)
    BY <1>3 DEF removeWatch
  <2>4. /\ ClientInv' /\ TableInv'
        /\ (Live \cup mDeletedWatches)' = Live \cup mDeletedWatches
    BY <2>1, <2>2, <2>3, RemovalStep
  <2>5. LockInv' /\ LifeInv'
    BY <2>1, AddsUnchanged DEF LockInv, LifeInv, control, event, Threads
  <2>6. WorkerInv'
    <3>1. BatchRetained' = BatchRetained /\ AddRetained(Worker)' = AddRetained(Worker)
      BY <2>1, AddsUnchanged DEF BatchRetained, event, batch, Threads
    <3> QED BY <2>1, <2>4, <3>1 DEF WorkerInv, event
  <2> QED BY <1>1, <2>4, <2>5, <2>6
<1> QED BY <1>2, <1>3 DEF Interface

LEMMA SubdirectoryStep ==
    ASSUME IInv, LifetimeAssumption, NEW t \in Threads, addSubdirectory(t)
    PROVE  IInv'
<1> USE DEF IInv
<1>1. TypeOK'
  BY AddType DEF AddStep, TypeInv, LockInv
<1>2. /\ call[t] # <<>> /\ adding[t] = NoRequest /\ Busy(t)
      /\ UNCHANGED <<control, owner, call, wpc, event, batch>>
  BY DEF addSubdirectory, Busy
<1>3. Top(t) \in Frame /\ Top(t).obj \in FramesOf(t)
  BY <1>2, FrameType DEF Top, FramesOf
<1>4. PICK wd \in Wds : nativeAdd(t, [wd |-> wd, parent |-> Top(t).obj,
                          internal |-> Top(t).internal, recursive |-> TRUE])
  BY DEF addSubdirectory
<1> DEFINE request == [wd |-> wd, parent |-> Top(t).obj,
                       internal |-> Top(t).internal, recursive |-> TRUE]
<1>5. request \in Request /\ request.parent \in FramesOf(t)
  BY <1>3 DEF Request, Frame
<1> HIDE DEF request
<1>6. nativeAdd(t, request) /\ UNCHANGED <<control, call>>
  BY <1>2, <1>4 DEF request
<1>7. \A u \in Threads : u # t => ~Busy(u)
  BY <1>2 DEF LockInv, InAction, Threads, LifetimeAssumption
<1>8. /\ ClientInv' /\ TableInv'
      /\ (Live \cup mDeletedWatches)' = Live \cup mDeletedWatches
      /\ \A u \in Threads : FramesOf(u)' = FramesOf(u)
  BY <1>2, <1>5, <1>6, <1>7, NativeStep DEF Threads
<1>9. adding' = [adding EXCEPT ![t] = request]
  BY <1>6 DEF nativeAdd
<1>10. \A u \in Threads : (Busy(u)' <=> Busy(u)) /\ AddRetained(u)' \subseteq AddRetained(u)
  <2>1. \A u \in Threads : u # t => Busy(u)' = Busy(u) /\ AddRetained(u)' = AddRetained(u)
    BY <1>2, <1>8, <1>9 DEF Busy, AddRetained, TypeOK
  <2>2. AddRetained(t)' \subseteq AddRetained(t)
    BY <1>5, <1>8, <1>9 DEF AddRetained, TypeOK
  <2>3. Busy(t)'
    BY <1>2 DEF Busy
  <2> QED BY <1>2, <2>1, <2>2, <2>3
<1>11. LockInv' /\ LifeInv'
  BY <1>2, <1>10 DEF LockInv, LifeInv, control, event, Threads
<1>12. WorkerInv'
  <2>1. BatchRetained' = BatchRetained /\ UNCHANGED <<wpc, cur>>
    BY <1>2 DEF BatchRetained, event, batch
  <2>2. Worker \in Threads
    BY DEF Threads
  <2> QED BY <1>8, <1>10, <2>1, <2>2 DEF WorkerInv
<1> QED BY <1>1, <1>8, <1>11, <1>12

LEMMA PopFacts ==
    ASSUME NEW s \in Seq(Frame), Len(s) \in 1..Len(s), NEW r, r = SubSeq(s, 1, Len(s) - 1)
    PROVE  /\ Len(s) \in Nat \ {0}
           /\ Len(r) = Len(s) - 1
           /\ \A i \in 1..Len(r) : i \in 1..Len(s) /\ r[i] = s[i]
           /\ Len(s) # 1 => r # <<>>
           /\ Len(s) = 1 => r = <<>>
<1> DEFINE n == Len(s) - 1
<1>1. Len(s) \in Nat \ {0} /\ n \in Nat /\ \A i \in 1..n : i \in 1..Len(s) /\ s[i] \in Frame
  OBVIOUS
<1>2. /\ Len(r) = n /\ r \in Seq(Frame)
      /\ \A i \in 1..n : r[i] = s[i]
  <2>0. n \in Nat
    BY <1>1
  <2> HIDE DEF n
  <2>1. r = SubSeq(s, 1, n)
    BY DEF n
  <2>2. /\ SubSeq(s, 1, n) \in Seq(Frame)
        /\ Len(SubSeq(s, 1, n)) = IF 1 <= n THEN n - 1 + 1 ELSE 0
        /\ \A i \in 1..(n - 1 + 1) : SubSeq(s, 1, n)[i] = s[1 + i - 1]
    <3>1. \A i \in 1..n : s[i] \in Frame
      BY <1>1
    <3> QED BY <2>0, <3>1, SubSeqProperties
  <2>3. \A i \in 1..n : 1 + i - 1 = i
    BY <2>0
  <2> QED BY <2>0, <2>1, <2>2, <2>3
<1>3. Len(s) # 1 => r # <<>>
  <2>1. Len(<<>>) = 0
    OBVIOUS
  <2>2. Len(s) # 1 => Len(r) # 0
    BY <1>1, <1>2
  <2> QED BY <2>1, <2>2
<1>4. ASSUME Len(s) = 1
      PROVE  r = <<>>
  <2>1. Len(s) - 1 = 0
    BY <1>4
  <2>2. 0 < 1 /\ 0 \in Int /\ 1 \in Int
    OBVIOUS
  <2>3. SubSeq(s, 1, 0) = <<>>
    BY <2>2, SubSeqEmpty
  <2> QED BY <2>1, <2>3
<1> QED BY <1>1, <1>2, <1>3, <1>4

LEMMA ReturnStep ==
    ASSUME IInv, LifetimeAssumption, NEW t \in Threads, returnAdd(t)
    PROVE  IInv'
<1> USE DEF IInv
<1>1. TypeOK'
  BY AddType DEF AddStep, TypeInv, LockInv
<1>2. /\ call[t] # <<>> /\ Busy(t)
      /\ call' = [call EXCEPT ![t] = SubSeq(call[t], 1, Len(call[t]) - 1)]
      /\ revisits' \in {revisits, revisits \ {t}}
      /\ (Len(call[t]) # 1 => revisits' = revisits)
      /\ UNCHANGED <<control, tables, adding, event, batch>>
  BY DEF returnAdd, Busy
<1>3. /\ Len(call[t]) \in Nat \ {0}
      /\ Len(call'[t]) = Len(call[t]) - 1
      /\ \A i \in 1..Len(call'[t]) : i \in 1..Len(call[t]) /\ call'[t][i] = call[t][i]
      /\ Len(call[t]) # 1 => call'[t] # <<>>
      /\ Len(call[t]) = 1 => call'[t] = <<>>
  <2>1. call[t] \in Seq(Frame) /\ Len(call[t]) \in 1..Len(call[t]) /\ Len(call[t]) \in Nat
    BY <1>2, FrameType
  <2>2. call'[t] = SubSeq(call[t], 1, Len(call[t]) - 1)
    BY <1>2 DEF TypeOK
  <2> QED BY <2>1, <2>2, PopFacts
<1>4. \A u \in Threads : u # t => /\ call'[u] = call[u]
                                  /\ FramesOf(u)' = FramesOf(u)
                                  /\ AddRetained(u)' = AddRetained(u) /\ Busy(u)' = Busy(u)
  BY <1>2 DEF TypeOK, FramesOf, AddRetained, Busy
<1>5. FramesOf(t)' \subseteq FramesOf(t)
  BY <1>3 DEF FramesOf
<1>6. AddRetained(t)' \subseteq AddRetained(t) /\ adding'[t] = NoRequest
  BY <1>2, <1>5 DEF AddRetained, returnAdd
<1>7. Live' = Live
  BY <1>2 DEF Live, tables
<1>8. \A u \in Threads : u # t => ~Busy(u)
  BY <1>2 DEF LockInv, InAction, Threads, LifetimeAssumption
<1>9. LockInv'
  <2>1. CASE Len(call[t]) = 1
    <3>1. ~Busy(t)'
      BY <1>3, <1>6, <2>1 DEF Busy
    <3>2. \A u \in Threads : ~Busy(u)'
      BY <1>4, <1>8, <3>1
    <3>3. /\ owner' = IF t = Worker THEN owner ELSE Null
          /\ wpc' = IF t = Worker /\ wpc = "check" THEN "callback" ELSE wpc
      BY <2>1 DEF returnAdd
    <3>4. wpc' \in InAction => owner' = Worker
      <4>1. CASE t = Worker
        BY <3>3, <4>1 DEF LockInv, InAction
      <4>2. CASE t # Worker
        BY <1>2, <3>3, <4>2 DEF LockInv, InAction, Threads, LifetimeAssumption
      <4> QED BY <4>1, <4>2
    <3> QED BY <1>2, <3>2, <3>3, <3>4 DEF LockInv, event, Threads
  <2>2. CASE Len(call[t]) # 1
    BY <1>2, <1>4, <2>2 DEF returnAdd, LockInv, event, Threads
  <2> QED BY <2>1, <2>2
<1>10. LifeInv'
  BY <1>2, <1>4 DEF LifeInv, control, returnAdd, Threads, LockInv
<1>11. WorkerInv'
  <2>1. BatchRetained' = BatchRetained /\ cur' = cur
    BY <1>2 DEF BatchRetained, event, batch
  <2>2. wpc' = wpc \/ (wpc = "check" /\ wpc' = "callback")
    BY DEF returnAdd
  <2>3. AddRetained(Worker)' \subseteq AddRetained(Worker)
    BY <1>4, <1>6 DEF Threads
  <2> QED BY <1>2, <1>7, <2>1, <2>2, <2>3 DEF WorkerInv, tables, BetweenBatches
<1>12. ClientInv'
  <2> SUFFICES ASSUME NEW u \in Clients \ revisits'
               PROVE  /\ AddRetained(u)' \subseteq Live'
                      /\ adding'[u] # NoRequest =>
                            adding'[u].parent \in FramesOf(u)' \cup {Null}
                      /\ \A i \in 1..Len(call'[u]) : obj'[call'[u][i].obj].parent \in
                            {call'[u][j].obj : j \in 1..(i - 1)} \cup {Null}
    BY DEF ClientInv
  <2>0. u # t => u \notin revisits
    BY <1>2
  <2>3. CASE u = t /\ Len(call[t]) = 1
    <3>1. call'[u] = <<>> /\ adding'[u] = NoRequest /\ u \in Threads
      BY <1>3, <1>6, <2>3 DEF Threads
    <3>2. FramesOf(u)' = {} /\ AddRetained(u)' = {}
      BY <3>1 DEF FramesOf, AddRetained
    <3> QED BY <3>1, <3>2
  <2>1. CASE u # t
    BY <2>0, <1>2, <1>4, <1>7, <2>1 DEF ClientInv, tables, Threads
  <2>2. CASE u = t /\ Len(call[t]) # 1
    <3>0. u \in Clients \ revisits
      BY <1>2, <2>2
    <3>1. ASSUME NEW i \in 1..Len(call'[u])
          PROVE  obj'[call'[u][i].obj].parent \in
                    {call'[u][j].obj : j \in 1..(i - 1)} \cup {Null}
      <4>3. Len(call'[u]) \in Nat
        BY <1>3, <2>2
      <4>4. \A j \in 1..(i - 1) : j \in 1..Len(call'[u])
        BY <4>3
      <4>1. i \in 1..Len(call[u]) /\ call'[u][i] = call[u][i]
            /\ \A j \in 1..(i - 1) : call'[u][j] = call[u][j]
        BY <1>3, <2>2, <4>4
      <4>2. obj[call[u][i].obj].parent \in {call[u][j].obj : j \in 1..(i - 1)} \cup {Null}
        BY <3>0, <4>1 DEF ClientInv
      <4> QED BY <1>2, <4>1, <4>2 DEF tables
    <3>2. AddRetained(u) \subseteq Live
      BY <3>0 DEF ClientInv
    <3> QED BY <1>6, <1>7, <2>2, <3>1, <3>2
  <2> QED BY <2>1, <2>2, <2>3
<1>13. TableInv'
  BY <1>2, <1>7 DEF TableInv, SingleOwner, RealWatchesAgree, Created, tables, control
<1> QED BY <1>1, <1>9, <1>10, <1>11, <1>12, <1>13

-----------------------------------------------------------------------------
(* Safety: the worker's own steps.                                         *)

\* A step that leaves the tables, the frames and the control state alone.
LEMMA QuietStep ==
    ASSUME IInv, UNCHANGED <<control, tables, adds>>
    PROVE  /\ ClientInv' /\ TableInv'
           /\ (Live \cup mDeletedWatches)' = Live \cup mDeletedWatches
           /\ AddRetained(Worker)' = AddRetained(Worker)
           /\ \A t \in Threads : Busy(t)' = Busy(t)
<1>1. Live' = Live /\ Created' = Created /\ mDeletedWatches' = mDeletedWatches
  BY DEF Live, Created, tables
<1>2. \A t \in Threads : /\ FramesOf(t)' = FramesOf(t) /\ AddRetained(t)' = AddRetained(t)
                         /\ Busy(t)' = Busy(t)
  BY AddsUnchanged
<1>3. ClientInv'
  BY <1>1, <1>2 DEF IInv, ClientInv, adds, tables, Threads
<1>4. TableInv'
  BY <1>1 DEF IInv, TableInv, SingleOwner, RealWatchesAgree, adds, tables, control
<1> QED BY <1>1, <1>2, <1>3, <1>4 DEF Threads

\* A quiet step of the worker: what is left to show is where it goes, that it
\* keeps no pointer it did not have or look up, and the lock.
LEMMA QuietWorker ==
    ASSUME IInv, TypeOK', UNCHANGED <<control, tables, adds>>, ~Busy(Worker),
           life = "gone" => wpc' \in {"off", "exit"},
           wpc' \in BetweenBatches => BatchRetained' = {},
           wpc' \in BetweenBatches \cup {"dispatch"} <=> cur' = Null,
           BatchRetained' \subseteq Live \cup mDeletedWatches,
           wpc' \in InAction => owner' = Worker,
           wpc' \in {"check", "callback"} => callbacks' \in 1..2,
           \A t \in Clients : Busy(t) => owner' = t
    PROVE  IInv'
<1>1. /\ ClientInv' /\ TableInv'
      /\ (Live \cup mDeletedWatches)' = Live \cup mDeletedWatches
      /\ AddRetained(Worker)' = AddRetained(Worker)
      /\ \A t \in Threads : Busy(t)' = Busy(t)
  BY QuietStep
<1>2. LockInv'
  BY <1>1 DEF LockInv, Threads
<1>3. LifeInv'
  BY <1>1 DEF IInv, LifeInv, control, Threads
<1>4. WorkerInv'
  BY <1>1 DEF IInv, WorkerInv
<1> QED BY <1>1, <1>2, <1>3, <1>4 DEF IInv

LEMMA DispatchStep ==
    ASSUME IInv, LifetimeAssumption, Dispatch
    PROVE  IInv'
<1> USE DEF IInv
<1>0. TypeOK'
  BY RunType DEF run, TypeInv, LockInv
<1>1. /\ UNCHANGED <<control, owner, tables, adds, callbacks>>
      /\ wpc \in {"dispatch", "outside"} /\ wpc' \in {"dispatch", "outside", "handle"}
  BY DEF Dispatch, dispatchEvent, deferMove, moveAway, finishMove, collectMoved,
         eraseMoved, MoreEvents, event
<1>2. ~Busy(Worker) /\ life # "gone" /\ \A t \in Clients : Busy(t) => owner' = t
  BY <1>1 DEF LockInv, LifeInv
<1>3. wpc' \notin BetweenBatches \cup InAction
  BY <1>1 DEF BetweenBatches, InAction
<1>4. \A w \in Wds : lookup(w) # Null => lookup(w) \in Live
  BY DEF lookup, Live
<1>5. BatchRetained \subseteq Live \cup mDeletedWatches
  BY DEF WorkerInv
<1>6. (wpc' = "dispatch" <=> cur' = Null) /\ BatchRetained' \subseteq Live \cup mDeletedWatches
  <2>1. ASSUME NEW wd \in Wds, NEW a \in Actions, dispatchEvent(wd, a)
        PROVE  /\ wpc' = "dispatch" <=> cur' = Null
               /\ BatchRetained' \subseteq Live \cup mDeletedWatches
    BY <1>4, <1>5, <2>1 DEF dispatchEvent, BatchRetained
  <2>2. ASSUME NEW wd \in Wds, NEW dst \in Wds, NEW cookie \in Cookies,
               deferMove(wd, cookie, dst)
        PROVE  /\ wpc' = "dispatch" <=> cur' = Null
               /\ BatchRetained' \subseteq Live \cup mDeletedWatches
    <3>1. UNCHANGED <<wpc, cur, erase>> /\ wpc = "dispatch"
      BY <2>2 DEF deferMove, event, MoreEvents
    <3>2. \A c \in Cookies : pending'[c].src \in {pending[c].src, lookup(wd)}
      BY <2>2 DEF deferMove, TypeOK
    <3>3. lookup(wd) \in Live
      BY <1>4, <2>2 DEF deferMove
    <3>4. BatchRetained' \subseteq BatchRetained \cup {lookup(wd)}
      BY <3>1, <3>2 DEF BatchRetained
    <3> QED BY <1>5, <3>1, <3>3, <3>4 DEF WorkerInv
  <2>3. ASSUME NEW wd \in Wds, moveAway(wd)
        PROVE  /\ wpc' = "dispatch" <=> cur' = Null
               /\ BatchRetained' \subseteq Live \cup mDeletedWatches
    BY <1>4, <1>5, <2>3 DEF moveAway, BatchRetained
  <2>4. ASSUME NEW cookie \in Cookies, finishMove(cookie)
        PROVE  /\ wpc' = "dispatch" <=> cur' = Null
               /\ BatchRetained' \subseteq Live \cup mDeletedWatches
    <3>1. pending[cookie] \in Move
      BY <2>4 DEF finishMove, TypeOK
    <3>2. pending[cookie].src \in BatchRetained /\ pending[cookie].src # Null
      BY <3>1 DEF BatchRetained, Move, LifetimeAssumption
    <3>3. \A c \in Cookies : pending'[c].src \in {pending[c].src, Null}
      BY <2>4 DEF finishMove, TypeOK, NoMove
    <3>4. \/ cur' = pending[cookie].src /\ wpc' = "outside"
          \/ cur' \in Live /\ wpc' = "handle"
      BY <1>4, <2>4, <3>1 DEF finishMove, Move
    <3>5. erase' = erase
      BY <2>4 DEF finishMove
    <3>6. BatchRetained' \subseteq BatchRetained \cup ({cur'} \ {Null})
      BY <3>3, <3>5 DEF BatchRetained
    <3> QED BY <1>5, <3>2, <3>4, <3>6 DEF Live
  <2>5. ASSUME collectMoved
        PROVE  /\ wpc' = "dispatch" <=> cur' = Null
               /\ BatchRetained' \subseteq Live \cup mDeletedWatches
    <3>1. wpc = "outside" /\ cur # Null /\ pending' = pending
      BY <2>5 DEF collectMoved, WorkerInv, BetweenBatches
    <3>2. erase' \subseteq erase \cup Live
      BY <2>5 DEF collectMoved
    <3>3. \/ wpc' = "handle" /\ cur' = cur
          \/ wpc' = "dispatch" /\ cur' = Null
      BY <2>5 DEF collectMoved
    <3>4. BatchRetained' \subseteq BatchRetained \cup Live
      BY <3>1, <3>2, <3>3 DEF BatchRetained
    <3> QED BY <1>5, <3>1, <3>3, <3>4
  <2>6. ASSUME NEW o \in Objs, eraseMoved(o)
        PROVE  /\ wpc' = "dispatch" <=> cur' = Null
               /\ BatchRetained' \subseteq Live \cup mDeletedWatches
    <3>1. wpc = "dispatch" /\ cur = Null /\ erase' \subseteq erase /\ pending' = pending
      BY <2>6 DEF eraseMoved, WorkerInv
    <3>2. \/ cur' \in Live /\ wpc' = "handle"
          \/ cur' = Null /\ wpc' = "dispatch"
      BY <2>6, <3>1 DEF eraseMoved
    <3>3. BatchRetained' \subseteq BatchRetained \cup Live
      BY <3>1, <3>2 DEF BatchRetained
    <3> QED BY <1>5, <3>2, <3>3 DEF Live
  <2> QED BY <2>1, <2>2, <2>3, <2>4, <2>5, <2>6 DEF Dispatch
<1>7. wpc' \in BetweenBatches \cup {"dispatch"} <=> cur' = Null
  BY <1>3, <1>6
<1> QED BY <1>0, <1>1, <1>2, <1>3, <1>6, <1>7, QuietWorker DEF InAction

LEMMA HandleActionStep ==
    ASSUME IInv, LifetimeAssumption, HandleAction
    PROVE  IInv'
<1> USE DEF IInv
<1>0. TypeOK'
  BY ActionType DEF TypeInv, LockInv
<1>1. \A t \in Clients : t # Worker
  BY DEF LifetimeAssumption
<1>2. CASE testInitOK
  <2>1. /\ UNCHANGED <<control, tables, adds>> /\ wpc = "handle" /\ owner' = owner
        /\ wpc' \in {"enter", "dispatch"} /\ (wpc' = "dispatch" <=> cur' = Null)
        /\ BatchRetained' \subseteq BatchRetained
    BY <1>2 DEF testInitOK, BatchRetained, batch, WorkerInv, BetweenBatches
  <2>2. ~Busy(Worker) /\ life # "gone" /\ wpc' \notin BetweenBatches \cup InAction
    BY <2>1 DEF LockInv, LifeInv, BetweenBatches, InAction
  <2> QED BY <1>0, <2>1, <2>2, QuietWorker DEF LockInv, WorkerInv, InAction
<1>3. CASE enterAction
  <2>1. /\ UNCHANGED <<control, tables, adds>> /\ wpc = "enter" /\ owner = Null
        /\ owner' = Worker /\ wpc' \in {"check", "callback"} /\ callbacks' \in 1..2
        /\ BatchRetained' = BatchRetained /\ cur' = cur /\ cur # Null
    BY <1>3 DEF enterAction, BatchRetained, batch, WorkerInv, BetweenBatches
  <2>2. /\ ~Busy(Worker) /\ life # "gone" /\ wpc' \notin BetweenBatches \cup {"dispatch"}
        /\ \A t \in Clients : ~Busy(t)
    BY <2>1 DEF LockInv, LifeInv, BetweenBatches, LifetimeAssumption
  <2> QED BY <1>0, <2>1, <2>2, QuietWorker DEF WorkerInv
<1>4. CASE checkForNewWatcher
  <2>1. /\ ~Busy(Worker) /\ wpc = "check" /\ UNCHANGED <<control, owner, call, wpc, event, batch>>
    BY <1>4 DEF checkForNewWatcher
  <2>2. owner = Worker /\ cur \in Objs /\ Worker \in Threads /\ life # "gone"
    BY <2>1 DEF LockInv, LifeInv, InAction, WorkerInv, BetweenBatches, TypeOK, Threads
  <2>3. \A t \in Clients : ~Busy(t)
    BY <1>1, <2>2 DEF LockInv
  <2>4. PICK wd \in Wds : nativeAdd(Worker,
            [wd |-> wd, parent |-> cur, internal |-> TRUE, recursive |-> TRUE])
    BY <1>4 DEF checkForNewWatcher
  <2> DEFINE request == [wd |-> wd, parent |-> cur, internal |-> TRUE, recursive |-> TRUE]
  <2>5. request \in Request /\ request.parent = cur
    BY <2>2 DEF Request
  <2> HIDE DEF request
  <2>6. nativeAdd(Worker, request) /\ UNCHANGED <<control, call>> /\ adding[Worker] = NoRequest
    BY <2>1, <2>4 DEF request, Busy
  <2>7. /\ ClientInv' /\ TableInv'
        /\ (Live \cup mDeletedWatches)' = Live \cup mDeletedWatches
        /\ \A u \in Threads : FramesOf(u)' = FramesOf(u)
    BY <1>1, <2>2, <2>3, <2>5, <2>6, NativeStep
  <2>8. adding' = [adding EXCEPT ![Worker] = request]
    BY <2>6 DEF nativeAdd
  <2>9. \A t \in Clients : ~Busy(t)'
    BY <1>1, <2>1, <2>3, <2>8 DEF Busy, TypeOK, Threads
  <2>10. LockInv' /\ LifeInv'
    BY <2>1, <2>2, <2>9 DEF LockInv, LifeInv, control, event
  <2>11. WorkerInv'
    <3>1. BatchRetained' = BatchRetained /\ cur' = cur
      BY <2>1 DEF BatchRetained, event, batch
    <3>2. AddRetained(Worker)' \subseteq AddRetained(Worker) \cup BatchRetained
      BY <2>2, <2>5, <2>7, <2>8 DEF AddRetained, BatchRetained, TypeOK
    <3> QED BY <2>1, <2>7, <3>1, <3>2 DEF WorkerInv
  <2> QED BY <1>0, <2>7, <2>10, <2>11
<1>5. CASE nothingToCover
  <2>1. /\ UNCHANGED <<control, owner, tables, adds>> /\ ~Busy(Worker)
        /\ wpc = "check" /\ wpc' = "callback"
        /\ cur' = cur /\ BatchRetained' = BatchRetained /\ callbacks' = callbacks
    BY <1>5 DEF nothingToCover, BatchRetained, event, batch
  <2>2. wpc' \notin BetweenBatches \cup {"dispatch"} /\ cur # Null /\ owner = Worker
        /\ life # "gone" /\ callbacks \in 1..2
    BY <2>1 DEF WorkerInv, BetweenBatches, LockInv, InAction, LifeInv
  <2> QED BY <1>0, <2>1, <2>2, QuietWorker DEF LockInv, WorkerInv
<1>6. CASE endNotify
  <2>1. /\ InCallback /\ call[Worker] # <<>> /\ adding[Worker] = NoRequest
        /\ call' = [call EXCEPT ![Worker][Len(call[Worker])].phase = "recurse"]
        /\ UNCHANGED <<control, owner, tables, adding, revisits, wpc, event, batch>>
    BY <1>6 DEF endNotify, InCallback
  <2>2. Worker \in Threads /\ call[Worker] \in Seq(Frame)
        /\ Len(call[Worker]) \in 1..Len(call[Worker])
    BY <2>1, FrameType DEF Threads
  <2>3. /\ Len(call'[Worker]) = Len(call[Worker])
        /\ \A i \in 1..Len(call[Worker]) : call'[Worker][i].obj = call[Worker][i].obj
    <3>1. call'[Worker] = [call[Worker] EXCEPT ![Len(call[Worker])].phase = "recurse"]
      BY <2>1, <2>2 DEF TypeOK
    <3> QED BY <2>2, <3>1 DEF Frame
  <2>4. \A t \in Clients : call'[t] = call[t]
    BY <1>1, <2>1 DEF TypeOK, Threads
  <2>5. FramesOf(Worker)' = FramesOf(Worker) /\ \A t \in Clients : FramesOf(t)' = FramesOf(t)
    BY <2>3, <2>4 DEF FramesOf
  <2>6. \A t \in Threads : AddRetained(t)' = AddRetained(t)
    BY <2>1, <2>5 DEF AddRetained, Threads
  <2>7. Busy(Worker) /\ \A t \in Clients : Busy(t)' = Busy(t)
    BY <2>1, <2>4 DEF Busy
  <2>8. LockInv' /\ LifeInv'
    BY <2>1, <2>7 DEF LockInv, LifeInv, control, event
  <2>9. Live' = Live /\ Created' = Created
    BY <2>1 DEF Live, Created, tables
  <2>10. WorkerInv'
    <3>1. BatchRetained' = BatchRetained /\ UNCHANGED <<cur, wpc>>
      BY <2>1 DEF BatchRetained, event, batch
    <3> QED BY <2>1, <2>2, <2>6, <2>9, <3>1 DEF WorkerInv, tables
  <2>11. ClientInv'
    <3> SUFFICES ASSUME NEW t \in Clients \ revisits
                 PROVE  /\ AddRetained(t)' \subseteq Live'
                        /\ adding'[t] # NoRequest => adding'[t].parent \in FramesOf(t)' \cup {Null}
                        /\ \A i \in 1..Len(call'[t]) :
                            obj'[call'[t][i].obj].parent \in {call'[t][j].obj : j \in 1..(i - 1)} \cup {Null}
      BY <2>1 DEF ClientInv
    <3>1. /\ AddRetained(t) \subseteq Live
          /\ adding[t] # NoRequest => adding[t].parent \in FramesOf(t) \cup {Null}
          /\ \A i \in 1..Len(call[t]) :
              obj[call[t][i].obj].parent \in {call[t][j].obj : j \in 1..(i - 1)} \cup {Null}
      BY DEF ClientInv
    <3>2. AddRetained(t)' = AddRetained(t) /\ FramesOf(t)' = FramesOf(t)
      BY <2>5, <2>6 DEF Threads
    <3>3. call'[t] = call[t] /\ adding' = adding /\ obj' = obj /\ Live' = Live
      BY <2>1, <2>4, <2>9 DEF tables
    <3> QED  BY <3>1, <3>2, <3>3
  <2>12. TableInv'
    BY <2>1, <2>9 DEF TableInv, SingleOwner, RealWatchesAgree, tables, control
  <2> QED BY <1>0, <2>8, <2>10, <2>11, <2>12
<1>7. CASE endCallback
  <2>1. /\ UNCHANGED <<control, tables, adds>> /\ ~Busy(Worker) /\ wpc = "callback"
        /\ \/ UNCHANGED <<owner, wpc, cur>> /\ callbacks > 1
           \/ wpc' = "prune" /\ UNCHANGED <<owner, cur>>
           \/ leaveAction
        /\ callbacks' = callbacks - 1
        /\ UNCHANGED batch
    BY <1>7 DEF endCallback
  <2>2. /\ owner = Worker /\ cur # Null /\ life # "gone" /\ callbacks \in 1..2
        /\ \A t \in Clients : ~Busy(t)
    BY <1>1, <2>1 DEF LockInv, InAction, WorkerInv, BetweenBatches, LifeInv
  <2>3. BatchRetained' \subseteq BatchRetained
    BY <2>1 DEF BatchRetained, batch, leaveAction
  <2>4. /\ wpc' \notin BetweenBatches
        /\ wpc' \in BetweenBatches \cup {"dispatch"} <=> cur' = Null
        /\ wpc' \in InAction => owner' = Worker
        /\ wpc' \in {"check", "callback"} => callbacks' \in 1..2
    BY <2>1, <2>2 DEF BetweenBatches, InAction, leaveAction
  <2> QED BY <1>0, <2>1, <2>2, <2>3, <2>4, QuietWorker DEF WorkerInv
<1>8. CASE pruneDeleted
  <2>1. /\ UNCHANGED <<control, adds, batch>> /\ leaveAction /\ wpc = "prune"
    BY <1>8 DEF pruneDeleted
  <2>2. /\ owner = Worker /\ life # "gone" /\ ~Busy(Worker)
        /\ \A t \in Clients : ~Busy(t)
    BY <1>1, <2>1 DEF LockInv, InAction, LifeInv
  <2>3. BatchRetained' \subseteq BatchRetained /\ wpc' \notin BetweenBatches \cup InAction
    BY <2>1 DEF BatchRetained, batch, leaveAction, BetweenBatches, InAction
  <2>4. CASE UNCHANGED tables
    BY <1>0, <2>1, <2>2, <2>3, <2>4, QuietWorker DEF WorkerInv, leaveAction, InAction
  <2>5. CASE \E wd \in Wds : mWatches[wd] # Null /\ removeWatchLocked(wd)
    <3>1. /\ ClientInv' /\ TableInv'
          /\ (Live \cup mDeletedWatches)' = Live \cup mDeletedWatches
      BY <2>1, <2>2, <2>5, RemovalStep
    <3>2. \A t \in Threads : Busy(t)' = Busy(t) /\ AddRetained(t)' = AddRetained(t)
      BY <2>1, AddsUnchanged
    <3>3. LockInv' /\ LifeInv'
      BY <2>1, <2>2, <2>3, <3>2 DEF LockInv, LifeInv, control, Threads, leaveAction, InAction
    <3>4. WorkerInv'
      BY <2>1, <2>3, <3>1, <3>2 DEF WorkerInv, leaveAction, Threads
    <3> QED BY <1>0, <3>1, <3>3, <3>4
  <2> QED BY <1>8, <2>4, <2>5 DEF pruneDeleted
<1> QED BY <1>2, <1>3, <1>4, <1>5, <1>6, <1>7, <1>8 DEF HandleAction

-----------------------------------------------------------------------------
(* Safety: the two steps that free memory, and the theorem.                *)

\* The end of an iteration of the loop: the worker holds nothing, and what a
\* client holds is still in mWatches.
LEMMA FreeStep ==
    ASSUME IInv, LifetimeAssumption, freeDeleted
    PROVE  IInv'
<1> USE DEF IInv
<1>0. TypeOK'
  BY RunType DEF run, TypeInv, LockInv
<1>1. /\ wpc = "free" /\ wpc' \in {"poll", "exit"}
      /\ freed' = freed \cup mDeletedWatches /\ mDeletedWatches' = {}
      /\ UNCHANGED <<control, owner, mWatches, mRealWatches, obj, adds, event, batch>>
  BY DEF freeDeleted
<1>2. Live' = Live /\ Created' = Created
  BY <1>1 DEF Live, Created
<1>3. \A t \in Threads : /\ FramesOf(t)' = FramesOf(t) /\ AddRetained(t)' = AddRetained(t)
                         /\ Busy(t)' = Busy(t)
  BY <1>1, AddsUnchanged
<1>4. ~Busy(Worker) /\ life # "gone"
  BY <1>1 DEF LockInv, LifeInv
<1>5. LockInv' /\ LifeInv'
  BY <1>1, <1>3, <1>4 DEF LockInv, LifeInv, control, event, Threads, InAction
<1>6. WorkerInv'
  <2>1. BatchRetained = {} /\ cur = Null
    BY <1>1 DEF WorkerInv, BetweenBatches
  <2>2. AddRetained(Worker) = {}
    BY <1>4, FrameType DEF AddRetained, FramesOf, Busy, Threads
  <2>3. BatchRetained' = {} /\ cur' = Null /\ AddRetained(Worker)' = {}
    BY <1>1, <1>3, <2>1, <2>2 DEF BatchRetained, event, batch, Threads
  <2> QED BY <1>1, <2>3 DEF WorkerInv, BetweenBatches
<1>7. ClientInv'
  BY <1>1, <1>2, <1>3 DEF ClientInv, adds, Threads
<1>8. TableInv'
  <2>1. SingleOwner'
    BY <1>1, <1>2 DEF TableInv, SingleOwner
  <2> QED BY <1>1, <2>1 DEF TableInv, RealWatchesAgree, adds, control
<1> QED BY <1>0, <1>5, <1>6, <1>7, <1>8

\* The destructor: the worker is gone and no client is inside the object.
LEMMA DestroyStep ==
    ASSUME IInv, LifetimeAssumption, destroyWatches
    PROVE  IInv'
<1> USE DEF IInv
<1>0. TypeOK'
  BY TypeStep DEF TypeInv, LockInv, Next, Destructor
<1>1. /\ life = "joining" /\ wpc \in {"off", "exit"} /\ life' = "gone"
      /\ freed' = freed \cup Live \cup mDeletedWatches
      /\ mWatches' = [w \in Wds |-> Null] /\ mDeletedWatches' = {}
      /\ UNCHANGED <<mInitOK, owner, mRealWatches, obj, adds, wpc, event, batch>>
  BY DEF destroyWatches
<1>2. Live' = {} /\ Created' = Created
  BY <1>1 DEF Live, Created
<1>3. \A t \in Threads : ~Busy(t)
  BY <1>1 DEF LockInv, LifeInv, Threads
<1>4. \A t \in Threads : ~Busy(t)' /\ AddRetained(t)' = {} /\ adding'[t] = NoRequest
                          /\ call'[t] = <<>>
  BY <1>1, <1>3 DEF AddRetained, FramesOf, Busy, adds
<1>5. LockInv' /\ LifeInv'
  BY <1>1, <1>4 DEF LockInv, LifeInv, event, Threads
<1>6. WorkerInv'
  <2>1. BatchRetained' = {} /\ cur' = Null
    BY <1>1 DEF WorkerInv, BetweenBatches, BatchRetained, event, batch
  <2> QED BY <1>1, <1>4, <2>1 DEF WorkerInv, BetweenBatches, Threads
<1>7. ClientInv'
  BY <1>4 DEF ClientInv, Threads
<1>8. TableInv'
  BY <1>1, <1>2, <1>4 DEF TableInv, SingleOwner, RealWatchesAgree
<1> QED BY <1>0, <1>5, <1>6, <1>7, <1>8

\* readBatch, endBatch, watch and destroy touch no table and no pointer.
LEMMA IdleStep ==
    ASSUME IInv, LifetimeAssumption, readBatch \/ endBatch \/ watch \/ destroy
    PROVE  IInv'
<1> USE DEF IInv
<1>0. TypeOK'
  BY TypeStep DEF TypeInv, LockInv, Next, Destructor, run
<1>1. CASE readBatch \/ endBatch \/ watch
  <2>1. /\ UNCHANGED <<control, owner, tables, adds, event, pending, erase>>
        /\ \/ wpc = "poll" /\ wpc' = "dispatch"
           \/ /\ wpc = "dispatch" /\ wpc' = "free"
              /\ erase = {} /\ \A c \in Cookies : pending[c] = NoMove
           \/ wpc = "off" /\ wpc' = "poll" /\ life = "alive"
    BY <1>1 DEF readBatch, endBatch, watch, batch
  <2>2. ~Busy(Worker) /\ cur' = Null /\ BatchRetained' = BatchRetained
    BY <2>1 DEF LockInv, WorkerInv, BetweenBatches, BatchRetained, event
  <2>3. wpc' \in BetweenBatches => BatchRetained' = {}
    <3>1. cur = Null
      BY <2>1 DEF WorkerInv, BetweenBatches
    <3>2. CASE wpc' = "free"
      BY <2>1, <2>2, <3>1, <3>2 DEF BatchRetained, NoMove
    <3>3. CASE wpc' # "free"
      BY <2>1, <2>2, <3>3 DEF WorkerInv, BetweenBatches
    <3> QED BY <3>2, <3>3
  <2>4. /\ wpc' \notin InAction
        /\ wpc' \in BetweenBatches \cup {"dispatch"}
        /\ life # "gone"
    BY <2>1 DEF InAction, BetweenBatches, LifeInv
  <2> QED BY <1>0, <2>1, <2>2, <2>3, <2>4, QuietWorker DEF LockInv, WorkerInv, InAction
<1>2. CASE destroy
  <2>1. /\ life = "alive" /\ life' = "joining" /\ mInitOK' = FALSE
        /\ \A t \in Clients : ~Busy(t)
        /\ UNCHANGED <<owner, tables, adds, wpc, event, batch>>
    BY <1>2 DEF destroy
  <2>2. \A t \in Threads : /\ FramesOf(t)' = FramesOf(t) /\ AddRetained(t)' = AddRetained(t)
                           /\ Busy(t)' = Busy(t)
    BY <2>1, AddsUnchanged
  <2>3. Live' = Live /\ Created' = Created /\ BatchRetained' = BatchRetained
    BY <2>1 DEF Live, Created, BatchRetained, tables, event, batch
  <2>4. LockInv' /\ LifeInv'
    BY <2>1, <2>2 DEF LockInv, LifeInv, event, Threads
  <2>5. WorkerInv' /\ ClientInv'
    BY <2>1, <2>2, <2>3 DEF WorkerInv, ClientInv, tables, event, adds, Threads
  <2>6. TableInv'
    BY <2>1, <2>3 DEF TableInv, SingleOwner, RealWatchesAgree, tables, adds
  <2> QED BY <1>0, <2>4, <2>5, <2>6
<1> QED BY <1>1, <1>2

LEMMA InductiveStep == IInv /\ LifetimeAssumption /\ [Next]_vars => IInv'
<1> SUFFICES ASSUME IInv, LifetimeAssumption, [Next]_vars
             PROVE  IInv'
  OBVIOUS
<1>1. ASSUME NEW t \in Threads, Interface(t)
      PROVE  IInv'
  BY <1>1, InterfaceStep
<1>2. ASSUME NEW t \in Threads, AddStep(t)
      PROVE  IInv'
  BY <1>2, SubdirectoryStep, RegisterStep, ReturnStep DEF AddStep
<1>3. CASE run
  BY <1>3, IdleStep, DispatchStep, HandleActionStep, FreeStep DEF run
<1>4. CASE watch
  BY <1>4, IdleStep
<1>5. CASE Destructor
  BY <1>5, IdleStep, DestroyStep DEF Destructor
<1>6. CASE UNCHANGED vars
  <2>1. UNCHANGED <<control, owner, tables, adds, wpc, event, batch>>
    BY <1>6 DEF vars
  <2>2. TypeOK'
    BY TypeStep DEF IInv, TypeInv, LockInv
  <2>3. /\ ClientInv' /\ TableInv'
        /\ (Live \cup mDeletedWatches)' = Live \cup mDeletedWatches
        /\ AddRetained(Worker)' = AddRetained(Worker)
        /\ \A t \in Threads : Busy(t)' = Busy(t)
    BY <2>1, QuietStep
  <2>4. LockInv' /\ LifeInv'
    BY <2>1, <2>3 DEF IInv, LockInv, LifeInv, control, event, Threads
  <2>5. WorkerInv'
    <3>1. BatchRetained' = BatchRetained /\ cur' = cur
      BY <2>1 DEF BatchRetained, event, batch
    <3> QED BY <2>1, <2>3, <3>1 DEF IInv, WorkerInv
  <2> QED BY <2>2, <2>3, <2>4, <2>5 DEF IInv
<1> QED BY <1>1, <1>2, <1>3, <1>4, <1>5, <1>6 DEF Next, terminated

LEMMA InvHolds == Spec => []IInv
<1> USE LifetimeAssumption
<1>1. Init => IInv
  <2> SUFFICES ASSUME Init PROVE IInv
    OBVIOUS
  <2>1. TypeOK
    BY DEF Init, TypeOK, Watch, Threads, Places, Actions
  <2>2. \A t \in Threads : /\ call[t] = <<>> /\ adding[t] = NoRequest
                           /\ ~Busy(t) /\ FramesOf(t) = {} /\ AddRetained(t) = {}
    BY DEF Init, Busy, FramesOf, AddRetained
  <2>3. Live = {} /\ Created = {} /\ BatchRetained = {}
    BY DEF Init, Live, Created, BatchRetained, NoMove
  <2>4. LockInv /\ LifeInv
    BY <2>2 DEF Init, LockInv, LifeInv, Threads, InAction
  <2>5. WorkerInv /\ ClientInv
    BY <2>2, <2>3 DEF Init, WorkerInv, ClientInv, BetweenBatches, Threads
  <2>6. TableInv
    BY <2>2, <2>3 DEF Init, TableInv, SingleOwner, RealWatchesAgree
  <2> QED BY <2>1, <2>4, <2>5, <2>6 DEF IInv
<1>2. IInv /\ [Next]_vars => IInv'
  BY InductiveStep
<1> QED BY <1>1, <1>2, PTL DEF Spec

\* For any number of threads, objects and events, any file system and any
\* interleaving with callbacks, removals and shutdown: nothing the worker goes
\* on with is freed under it, and nothing a client's addWatch goes on with is
\* freed under it, unless that call was given the descriptor of one of the
\* directories it is inside of.
THEOREM RetainedNotFreed == Spec => []RetainedAlive
<1>1. IInv => RetainedAlive
  <2> SUFFICES ASSUME IInv PROVE RetainedAlive
    OBVIOUS
  <2>1. BatchRetained \cup AddRetained(Worker) \subseteq Live \cup mDeletedWatches
    BY DEF IInv, WorkerInv
  <2>2. \A t \in Clients \ revisits : AddRetained(t) \subseteq Live
    BY DEF IInv, ClientInv
  <2>3. (Live \cup mDeletedWatches) \cap freed = {}
    BY DEF IInv, TableInv, SingleOwner
  <2> QED BY <2>1, <2>2, <2>3 DEF RetainedAlive
<1> QED BY <1>1, InvHolds, PTL

\* Every watch object ever allocated has one owner until it is freed: it is in
\* mWatches under one descriptor or in mDeletedWatches, never both, and it is
\* freed at most once and never lost.
THEOREM OneOwner == Spec => []SingleOwner
<1>1. IInv => SingleOwner
  BY DEF IInv, TableInv
<1> QED BY <1>1, InvHolds, PTL

\* While the object lives, mRealWatches holds exactly the explicit watches of
\* mWatches, so the paths that dereference it meet no stale entry.
THEOREM RealWatchesCorrect == Spec => []RealWatchesAgree
<1>1. IInv => RealWatchesAgree
  BY DEF IInv, TableInv
<1> QED BY <1>1, InvHolds, PTL
=============================================================================
