---------------------------- MODULE InotifyTreeProofs ----------------------------
(***************************************************************************)
(* Proofs about InotifyTree: whatever programs do to the tree while efsw   *)
(* follows it, every native watch belongs to exactly one watch object.     *)
(*                                                                         *)
(* The argument.  inotify gives a directory one descriptor and a descriptor*)
(* one directory; an object that is registered over another retires it, so *)
(* live objects have different descriptors.  A directory is marked before  *)
(* its object is registered, and between the two the descriptor is only in *)
(* the addWatch in progress; that has mInitLock, so no watch is removed    *)
(* then.  A watch is removed with its mark.  A new descriptor is beyond    *)
(* those of all objects there ever were.                                   *)
(***************************************************************************)
EXTENDS InotifyTree, SequenceTheorems, FiniteSetTheorems, TLAPS

-----------------------------------------------------------------------------
(* The inductive invariant.                                                *)

DirPaths == Seq(Names)
Places == [dir : Dirs \cup {Root, Outside}, name : Names]
EventSet ==
    [wd : Nat, mask : {"create", "delete"}, name : Names]
        \cup [wd : Nat, mask : {"from", "to"}, name : Names, cookie : Nat]
        \cup {Overflow}
WatchSet == [wd : Nat \ {0}, directory : DirPaths, parent : Nat, state : {"live", "deleted", "freed"}]
AddSet == [wd : Nat \ {0}, directory : DirPaths, parent : Nat]
FrameSet == [id : Nat, todo : SUBSET Names]
PendingSet == [cookie : Nat, id : Nat, name : Names]
ActSet ==
    [kind : {"create", "delete", "added", "outside", "moved"}, id : Nat, name : Names, from : DirPaths]

DiskTypes ==
    /\ loc \in [Dirs -> {Unborn, Gone} \cup Places]
    /\ ops \in Nat
    /\ mark \in [Dirs \cup {Root, Outside} -> Nat]
    /\ queue \in Seq(EventSet)
WorkerTypes ==
    /\ wpc \in {"poll", "dispatch", "handle", "cover"}
    /\ events \in Seq(EventSet)
    /\ pending \in SUBSET PendingSet
    /\ act \in {NoAct} \cup ActSet
AddTypes ==
    /\ session \in {"new", "adding", "watching", "removed"}
    /\ frames \in Seq(FrameSet)
    /\ adding \in {NoAdd} \cup AddSet
TypeOK == DiskTypes /\ WorkerTypes /\ AddTypes /\ objs \in Seq(WatchSet)

\* What the worker and the frames point at are objects.
IdInv ==
    /\ wpc \in {"handle", "cover"} => act # NoAct /\ act.id \in DOMAIN objs
    /\ \A i \in DOMAIN frames : frames[i].id \in DOMAIN objs
    /\ \A p \in pending : p.id \in DOMAIN objs

\* An addWatch in progress has mInitLock.
LockInv == frames # << >> \/ adding # NoAdd => Locked

\* The watches o, the marks m and the descriptor a that is being registered.
LiveIn(o) == {i \in DOMAIN o : o[i].state = "live"}
Owned(o, m, a) ==
    /\ \A i \in DOMAIN o : o[i].wd <= i
    /\ a <= Len(o) + 1
    /\ \A i, j \in LiveIn(o) : o[i].wd = o[j].wd => i = j
    /\ \A d, e \in DOMAIN m : m[d] = m[e] /\ m[d] # 0 => d = e
    /\ \A d \in DOMAIN m : m[d] # 0 => m[d] = a \/ \E i \in LiveIn(o) : o[i].wd = m[d]

IInv == TypeOK /\ IdInv /\ LockInv /\ Owned(objs, mark, adding.wd)

-----------------------------------------------------------------------------
(* What each kind of step does to the watches and the marks.               *)

\* Directories leave the tree, with their marks.
LEMMA MarksDropped ==
    ASSUME NEW o, NEW m, NEW n, NEW a, Owned(o, m, a),
           DOMAIN n = DOMAIN m, \A d \in DOMAIN m : n[d] \in {m[d], 0}
    PROVE  Owned(o, n, a)
BY DEF Owned

\* Watches that keep their state and descriptor, wherever they are now.
LEMMA WatchesMoved ==
    ASSUME NEW o, NEW p, NEW m, NEW a, Owned(o, m, a),
           DOMAIN p = DOMAIN o, Len(p) = Len(o),
           \A i \in DOMAIN o : p[i].wd = o[i].wd /\ (p[i].state = "live" <=> o[i].state = "live")
    PROVE  Owned(p, m, a)
<1>1. LiveIn(p) = LiveIn(o) /\ LiveIn(o) \subseteq DOMAIN o
  BY DEF LiveIn
<1>2. \A i \in DOMAIN p : p[i].wd <= i
  BY DEF Owned
<1>3. \A i, j \in LiveIn(p) : p[i].wd = p[j].wd => i = j
  BY <1>1 DEF Owned
<1>4. \A d \in DOMAIN m : m[d] # 0 => m[d] = a \/ \E i \in LiveIn(p) : p[i].wd = m[d]
  BY <1>1 DEF Owned
<1> QED  BY <1>2, <1>3, <1>4 DEF Owned

\* SetState keeps everything but the states of some watches.
LEMMA SetStateKeeps ==
    ASSUME objs \in Seq(WatchSet), NEW ids, NEW s \in {"live", "deleted", "freed"}
    PROVE  /\ SetState(ids, s) \in Seq(WatchSet)
           /\ DOMAIN SetState(ids, s) = DOMAIN objs /\ Len(SetState(ids, s)) = Len(objs)
           /\ \A i \in DOMAIN objs :
                /\ SetState(ids, s)[i].wd = objs[i].wd
                /\ SetState(ids, s)[i].state = IF i \in ids THEN s ELSE objs[i].state
<1> DEFINE o == SetState(ids, s)
<1>1. Len(objs) \in Nat /\ DOMAIN objs = 1..Len(objs) /\ \A i \in DOMAIN objs : objs[i] \in WatchSet
  OBVIOUS
<1>2. o = [i \in 1..Len(objs) |-> IF i \in ids THEN [objs[i] EXCEPT !.state = s] ELSE objs[i]]
  BY <1>1 DEF SetState
<1>3. ASSUME NEW w \in WatchSet
      PROVE  LET v == [w EXCEPT !.state = s] IN v \in WatchSet /\ v.wd = w.wd /\ v.state = s
  BY <1>3 DEF WatchSet
<1>4. \A i \in 1..Len(objs) : o[i] = IF i \in ids THEN [objs[i] EXCEPT !.state = s] ELSE objs[i]
  BY <1>2
<1> HIDE DEF o
<1>5. \A i \in 1..Len(objs) :
        o[i] \in WatchSet /\ o[i].wd = objs[i].wd /\ o[i].state = IF i \in ids THEN s ELSE objs[i].state
  BY <1>1, <1>3, <1>4
<1>6. o \in Seq(WatchSet) /\ Len(o) = Len(objs) /\ DOMAIN o = 1..Len(objs)
  <2>1. DOMAIN o = 1..Len(objs) /\ o = [i \in 1..Len(objs) |-> o[i]]
    BY <1>2
  <2> QED  BY <1>1, <1>5, <2>1
<1> QED  BY <1>1, <1>5, <1>6 DEF o

\* removeWatchLocked: the watches go with the marks of their descriptors.
LEMMA UnwatchKeeps ==
    ASSUME objs \in Seq(WatchSet), NEW ids, ids \subseteq DOMAIN objs, Owned(objs, mark, 0), Unwatch(ids)
    PROVE  Owned(objs', mark', 0)
<1> DEFINE o == SetState(ids, "deleted")
<1>1. objs' = o /\ mark' = [d \in DOMAIN mark |-> IF \E i \in ids : objs[i].wd = mark[d] THEN 0 ELSE mark[d]]
  BY DEF Unwatch
<1>2. /\ DOMAIN o = DOMAIN objs /\ Len(o) = Len(objs)
      /\ \A i \in DOMAIN objs : o[i].wd = objs[i].wd /\ o[i].state = IF i \in ids THEN "deleted" ELSE objs[i].state
  BY SetStateKeeps
<1> HIDE DEF o
<1> DEFINE n == mark'
<1>3. DOMAIN n = DOMAIN mark
      /\ \A d \in DOMAIN mark : n[d] = IF \E i \in ids : objs[i].wd = mark[d] THEN 0 ELSE mark[d]
  BY <1>1
<1> HIDE DEF n
<1>4. \A i \in DOMAIN o : o[i].wd <= i
  BY <1>2 DEF Owned
<1>5. \A i \in DOMAIN objs : i \in LiveIn(o) <=> i \in LiveIn(objs) /\ i \notin ids
  BY <1>2 DEF LiveIn
<1>6. LiveIn(o) \subseteq LiveIn(objs) /\ LiveIn(objs) \subseteq DOMAIN objs
  BY <1>2, <1>5 DEF LiveIn
<1>7. \A i, j \in LiveIn(o) : o[i].wd = o[j].wd => i = j
  BY <1>2, <1>6 DEF Owned
<1>8. \A d, e \in DOMAIN n : n[d] = n[e] /\ n[d] # 0 => d = e
  BY <1>3 DEF Owned
<1>9. ASSUME NEW d \in DOMAIN n, n[d] # 0 PROVE \E i \in LiveIn(o) : o[i].wd = n[d]
  <2>1. mark[d] # 0 /\ n[d] = mark[d] /\ ~\E i \in ids : objs[i].wd = mark[d]
    BY <1>3, <1>9
  <2>2. PICK i \in LiveIn(objs) : objs[i].wd = mark[d]
    BY <1>3, <2>1 DEF Owned
  <2> QED  BY <1>2, <1>5, <1>6, <2>1, <2>2
<1>10. 0 <= Len(o) + 1
  BY <1>2
<1>11. Owned(o, n, 0)
  BY <1>4, <1>7, <1>8, <1>9, <1>10 DEF Owned
<1> QED  BY <1>1, <1>11 DEF n

\* inotify_add_watch: the descriptor the directory has, or a new one.
LEMMA NativeAddKeeps ==
    ASSUME objs \in Seq(WatchSet), mark \in [Dirs \cup {Root, Outside} -> Nat], Owned(objs, mark, 0),
           NEW path \in DirPaths, NEW parent \in Nat, nativeAdd(path, parent)
    PROVE  /\ Owned(objs, mark', adding'.wd)
           /\ mark' \in [Dirs \cup {Root, Outside} -> Nat]
           /\ adding' \in AddSet
<1>1. PICK d \in Dirs \cup {Root, Outside} :
        LET wd == IF mark[d] # 0 THEN mark[d] ELSE Len(objs) + 1 IN
        mark' = [mark EXCEPT ![d] = wd] /\ adding' = [wd |-> wd, directory |-> path, parent |-> parent]
  BY DEF nativeAdd, At, Attached, Exists, Placed
<1> DEFINE wd == IF mark[d] # 0 THEN mark[d] ELSE Len(objs) + 1
           n == mark'
<1>2. /\ DOMAIN n = DOMAIN mark /\ DOMAIN mark = Dirs \cup {Root, Outside}
      /\ n[d] = wd /\ \A e \in DOMAIN mark \ {d} : n[e] = mark[e]
  BY <1>1
<1>3. Len(objs) \in Nat /\ DOMAIN objs = 1..Len(objs) /\ \A i \in DOMAIN objs : objs[i].wd \in Nat \ {0}
  <2>1. Len(objs) \in Nat /\ DOMAIN objs = 1..Len(objs) /\ \A i \in DOMAIN objs : objs[i] \in WatchSet
    OBVIOUS
  <2>2. \A w \in WatchSet : w.wd \in Nat \ {0}
    BY DEF WatchSet
  <2> QED  BY <2>1, <2>2
<1>4. \A e \in DOMAIN mark : mark[e] \in 0..Len(objs)
  <2> SUFFICES ASSUME NEW e \in DOMAIN mark, mark[e] # 0 PROVE mark[e] \in 0..Len(objs)
    BY <1>3
  <2>1. PICK i \in LiveIn(objs) : objs[i].wd = mark[e]
    BY DEF Owned
  <2>2. i \in DOMAIN objs /\ objs[i].wd <= i
    BY <2>1 DEF LiveIn, Owned
  <2> QED  BY <1>3, <2>1, <2>2
<1>5. wd \in Nat \ {0} /\ wd <= Len(objs) + 1 /\ \A e \in DOMAIN mark \ {d} : mark[e] # wd
  <2>1. CASE mark[d] # 0
    BY <1>2, <1>3, <1>4, <2>1 DEF Owned
  <2>2. CASE mark[d] = 0
    BY <1>3, <1>4, <2>2
  <2> QED  BY <2>1, <2>2
<1>6. adding'.wd = wd /\ adding' \in AddSet
  BY <1>1, <1>5 DEF AddSet
<1>7. n \in [Dirs \cup {Root, Outside} -> Nat]
  BY <1>1, <1>5
<1> HIDE DEF wd, n
<1>8. \A e, f \in DOMAIN n : n[e] = n[f] /\ n[e] # 0 => e = f
  BY <1>2, <1>5 DEF Owned
<1>9. \A e \in DOMAIN n : n[e] # 0 => n[e] = wd \/ \E i \in LiveIn(objs) : objs[i].wd = n[e]
  BY <1>2 DEF Owned
<1>10. Owned(objs, n, wd)
  BY <1>5, <1>8, <1>9 DEF Owned
<1> QED  BY <1>6, <1>7, <1>10 DEF n

\* The object is registered over the one its descriptor had.
LEMMA RegisterKeeps ==
    ASSUME objs \in Seq(WatchSet), NEW a \in Nat, Owned(objs, mark, a),
           NEW w \in WatchSet, w.wd = a, w.state = "live"
    PROVE  LET o == Append(SetState(Lookup(a), "deleted"), w)
           IN o \in Seq(WatchSet) /\ Len(o) = Len(objs) + 1 /\ Owned(o, mark, 0)
<1> DEFINE s == SetState(Lookup(a), "deleted")
           o == Append(s, w)
<1>1. /\ s \in Seq(WatchSet) /\ DOMAIN s = DOMAIN objs /\ Len(s) = Len(objs)
      /\ \A i \in DOMAIN objs : s[i].wd = objs[i].wd
                                /\ s[i].state = IF i \in Lookup(a) THEN "deleted" ELSE objs[i].state
  BY SetStateKeeps
<1> HIDE DEF s
<1>2. Len(objs) \in Nat /\ DOMAIN objs = 1..Len(objs)
  OBVIOUS
<1>3. /\ o \in Seq(WatchSet) /\ Len(o) = Len(objs) + 1 /\ DOMAIN o = 1..(Len(objs) + 1)
      /\ o[Len(objs) + 1] = w /\ \A i \in 1..Len(objs) : o[i] = s[i]
  BY <1>1, <1>2
<1> HIDE DEF o
<1>4. \A i \in 1..Len(objs) : /\ o[i].wd = objs[i].wd
                              /\ i \in LiveIn(o) <=> i \in LiveIn(objs) /\ objs[i].wd # a
  BY <1>1, <1>2, <1>3 DEF LiveIn, Lookup, Live
<1>5. Len(objs) + 1 \in LiveIn(o) /\ LiveIn(o) \subseteq 1..(Len(objs) + 1) /\ LiveIn(objs) \subseteq 1..Len(objs)
  BY <1>2, <1>3 DEF LiveIn
<1>6. \A i \in DOMAIN o : o[i].wd <= i
  BY <1>2, <1>3, <1>4 DEF Owned
<1>7. \A i, j \in LiveIn(o) : o[i].wd = o[j].wd => i = j
  <2> SUFFICES ASSUME NEW i \in LiveIn(o), NEW j \in LiveIn(o), o[i].wd = o[j].wd PROVE i = j
    OBVIOUS
  <2>1. CASE i \in 1..Len(objs) /\ j \in 1..Len(objs)
    BY <1>4, <2>1 DEF Owned
  <2>2. CASE i = Len(objs) + 1 \/ j = Len(objs) + 1
    BY <1>2, <1>3, <1>4, <1>5, <2>2
  <2> QED  BY <1>2, <1>5, <2>1, <2>2
<1>8. ASSUME NEW d \in DOMAIN mark, mark[d] # 0 PROVE \E i \in LiveIn(o) : o[i].wd = mark[d]
  <2>1. CASE mark[d] = a
    BY <1>3, <1>5, <2>1
  <2>2. CASE mark[d] # a
    <3>1. PICK i \in LiveIn(objs) : objs[i].wd = mark[d]
      BY <1>8, <2>2 DEF Owned
    <3> QED  BY <1>4, <1>5, <2>2, <3>1
  <2> QED  BY <2>1, <2>2
<1>9. Owned(o, mark, 0)
  BY <1>2, <1>3, <1>6, <1>7, <1>8 DEF Owned
<1> QED  BY <1>3, <1>9 DEF o, s

-----------------------------------------------------------------------------
(* The parts of the invariant, and what most steps leave alone.            *)

LEMMA Parts ==
    /\ IInv => /\ DiskTypes /\ WorkerTypes /\ AddTypes /\ objs \in Seq(WatchSet)
               /\ IdInv /\ LockInv /\ Owned(objs, mark, adding.wd)
    /\ DiskTypes' /\ WorkerTypes' /\ AddTypes' /\ objs' \in Seq(WatchSet)
         /\ IdInv' /\ LockInv' /\ Owned(objs', mark', adding'.wd) => IInv'
BY DEF IInv, TypeOK

\* Objects are never taken away.
LEMMA IdKept ==
    ASSUME IdInv, DOMAIN objs \subseteq DOMAIN objs', UNCHANGED <<wpc, act, frames, pending>>
    PROVE  IdInv'
BY DEF IdInv

LEMMA InitHolds == Init => IInv
<1> SUFFICES ASSUME Init PROVE IInv
  OBVIOUS
<1>1. DiskTypes
  BY DEF Init, DiskTypes
<1>2. WorkerTypes
  BY DEF Init, WorkerTypes
<1>3. AddTypes /\ objs \in Seq(WatchSet)
  BY DEF Init, AddTypes
<1>4. frames = << >> /\ adding = NoAdd /\ objs = << >> /\ pending = {} /\ wpc = "poll"
  BY DEF Init
<1>5. IdInv /\ LockInv
  BY <1>4 DEF IdInv, LockInv
<1>6. LiveIn(objs) = {} /\ DOMAIN objs = {} /\ Len(objs) = 0 /\ adding.wd = 0
  BY <1>4 DEF LiveIn, NoAdd
<1>7. \A d \in DOMAIN mark : mark[d] = 0
  BY DEF Init
<1>8. Owned(objs, mark, adding.wd)
  BY <1>6, <1>7 DEF Owned
<1> QED  BY <1>1, <1>2, <1>3, <1>5, <1>8 DEF IInv, TypeOK

-----------------------------------------------------------------------------
(* Programs.                                                               *)

LEMMA PostTypes ==
    ASSUME NEW q \in Seq(EventSet), NEW event \in EventSet \cup {NoEvent}
    PROVE  Post(q, event) \in Seq(EventSet)
<1>1. event.wd # 0 => event \in EventSet
  BY DEF NoEvent
<1>2. Overflow \in EventSet
  BY DEF EventSet
<1> QED  BY <1>1, <1>2 DEF Post

\* A change of the tree posts two events at most and takes marks away.
LEMMA ChangeKeeps ==
    ASSUME IInv, NEW kind, Change(kind),
           loc' \in [Dirs -> {Unborn, Gone} \cup Places],
           mark' \in [Dirs \cup {Root, Outside} -> Nat], \A d \in DOMAIN mark : mark'[d] \in {mark[d], 0},
           NEW e \in EventSet \cup {NoEvent}, NEW f \in EventSet \cup {NoEvent}, Notify(e, f)
    PROVE  IInv'
<1>1. /\ DiskTypes /\ WorkerTypes /\ AddTypes /\ objs \in Seq(WatchSet)
      /\ IdInv /\ LockInv /\ Owned(objs, mark, adding.wd)
  BY Parts
<1>2. /\ ops' = ops + 1 /\ objs' = objs /\ frames' = frames /\ adding' = adding /\ session' = session
      /\ wpc' = wpc /\ events' = events /\ pending' = pending /\ act' = act
  BY DEF Change, adds, worker
<1>3. queue' \in Seq(EventSet)
  <2>1. queue' = Post(Post(queue, e), f)
    BY DEF Notify
  <2>2. Post(queue, e) \in Seq(EventSet)
    BY <1>1, PostTypes DEF DiskTypes
  <2> QED  BY <2>1, <2>2, PostTypes
<1>4. DiskTypes'
  BY <1>1, <1>2, <1>3 DEF DiskTypes
<1>5. WorkerTypes' /\ AddTypes' /\ objs' \in Seq(WatchSet)
  BY <1>1, <1>2 DEF WorkerTypes, AddTypes
<1>6. IdInv' /\ LockInv'
  BY <1>1, <1>2 DEF IdInv, LockInv, Locked
<1>7. Owned(objs, mark', adding.wd)
  <2>1. DOMAIN mark' = DOMAIN mark
    BY <1>1 DEF DiskTypes
  <2> QED  BY <1>1, <2>1, MarksDropped
<1> QED  BY <1>2, <1>4, <1>5, <1>6, <1>7, Parts

LEMMA PlacedName ==
    ASSUME DiskTypes, NEW d \in Placed
    PROVE  d \in Dirs /\ loc[d] \in Places
BY DEF DiskTypes, Placed

LEMMA ExistsDirs ==
    Attached \subseteq Exists /\ Exists \subseteq Dirs \cup {Root, Outside} /\ Placed \subseteq Dirs
BY DEF Attached, Exists, Placed

LEMMA MkdirKeeps ==
    ASSUME IInv, NEW d \in Dirs, NEW p \in Exists, NEW n \in Names, mkdir(d, p, n)
    PROVE  IInv'
<1> DEFINE e == [wd |-> mark[p], mask |-> "create", name |-> n]
<1>1. /\ Change("mkdir") /\ loc' = [loc EXCEPT ![d] = [dir |-> p, name |-> n]]
      /\ Notify(e, NoEvent) /\ mark' = mark
  BY DEF mkdir
<1>2. DiskTypes
  BY Parts
<1>3. p \in Dirs \cup {Root, Outside}
  BY ExistsDirs
<1>4. e \in EventSet
  BY <1>2, <1>3 DEF EventSet, DiskTypes
<1>5. loc' \in [Dirs -> {Unborn, Gone} \cup Places]
  BY <1>1, <1>2, <1>3 DEF DiskTypes, Places
<1>6. mark' \in [Dirs \cup {Root, Outside} -> Nat] /\ \A x \in DOMAIN mark : mark'[x] \in {mark[x], 0}
  BY <1>1, <1>2 DEF DiskTypes
<1> HIDE DEF e
<1> QED  BY <1>1, <1>4, <1>5, <1>6, ChangeKeeps

LEMMA RmdirKeeps ==
    ASSUME IInv, NEW d \in Dirs, rmdir(d)
    PROVE  IInv'
<1> DEFINE e == [wd |-> mark[loc[d].dir], mask |-> "delete", name |-> loc[d].name]
<1>1. /\ Change("rmdir") /\ d \in Placed /\ loc' = [loc EXCEPT ![d] = Gone]
      /\ Notify(e, NoEvent) /\ mark' = [mark EXCEPT ![d] = 0]
  BY DEF rmdir
<1>2. DiskTypes
  BY Parts
<1>3. loc[d].dir \in Dirs \cup {Root, Outside} /\ loc[d].name \in Names
  BY <1>1, <1>2, PlacedName DEF Places
<1>4. e \in EventSet
  BY <1>2, <1>3 DEF EventSet, DiskTypes
<1>5. loc' \in [Dirs -> {Unborn, Gone} \cup Places]
  BY <1>1, <1>2 DEF DiskTypes
<1>6. mark' \in [Dirs \cup {Root, Outside} -> Nat] /\ \A x \in DOMAIN mark : mark'[x] \in {mark[x], 0}
  BY <1>1, <1>2 DEF DiskTypes
<1> HIDE DEF e
<1> QED  BY <1>1, <1>4, <1>5, <1>6, ChangeKeeps

LEMMA RenameKeeps ==
    ASSUME IInv, NEW d \in Dirs, NEW p \in Exists, NEW n \in Names, rename(d, p, n)
    PROVE  IInv'
<1> DEFINE e == [wd |-> mark[loc[d].dir], mask |-> "from", name |-> loc[d].name, cookie |-> ops]
           f == [wd |-> mark[p], mask |-> "to", name |-> n, cookie |-> ops]
<1>1. /\ \E kind : Change(kind)
      /\ d \in Placed
      /\ loc' = [x \in Dirs |-> IF x = d THEN [dir |-> p, name |-> n]
                                ELSE IF x \in Entry(p, n) THEN Gone ELSE loc[x]]
      /\ mark' = [x \in DOMAIN mark |-> IF x \in Entry(p, n) THEN 0 ELSE mark[x]]
      /\ Notify(e, f)
  BY DEF rename
<1>2. DiskTypes
  BY Parts
<1>3. loc[d].dir \in Dirs \cup {Root, Outside} /\ loc[d].name \in Names /\ p \in Dirs \cup {Root, Outside}
  BY <1>1, <1>2, PlacedName, ExistsDirs DEF Places
<1>4. e \in EventSet /\ f \in EventSet
  BY <1>2, <1>3 DEF EventSet, DiskTypes
<1>5. loc' \in [Dirs -> {Unborn, Gone} \cup Places]
  BY <1>1, <1>2, <1>3 DEF DiskTypes, Places
<1>6. mark' \in [Dirs \cup {Root, Outside} -> Nat] /\ \A x \in DOMAIN mark : mark'[x] \in {mark[x], 0}
  BY <1>1, <1>2 DEF DiskTypes
<1> HIDE DEF e, f
<1> QED  BY <1>1, <1>4, <1>5, <1>6, ChangeKeeps

-----------------------------------------------------------------------------
(* addWatch and removeWatch.                                               *)

\* The parts of the invariant without an addWatch in progress.
LEMMA NotAdding ==
    ASSUME IInv, ~Locked
    PROVE  frames = << >> /\ adding = NoAdd /\ adding.wd = 0 /\ Owned(objs, mark, 0)
BY Parts DEF LockInv, NoAdd

LEMMA AddKeeps ==
    ASSUME IInv, addWatch PROVE IInv'
<1>1. /\ DiskTypes /\ WorkerTypes /\ AddTypes /\ objs \in Seq(WatchSet)
      /\ IdInv /\ LockInv /\ Owned(objs, mark, adding.wd)
  BY Parts
<1>2. /\ session' = "adding" /\ loc' = loc /\ ops' = ops /\ queue' = queue /\ objs' = objs /\ frames' = frames
      /\ wpc' = wpc /\ events' = events /\ pending' = pending /\ act' = act
      /\ nativeAdd(<< >>, 0) /\ ~Locked
  BY DEF addWatch, disk, worker
<1>3. Owned(objs, mark, 0)
  BY <1>2, NotAdding
<1>4. << >> \in DirPaths /\ 0 \in Nat /\ mark \in [Dirs \cup {Root, Outside} -> Nat]
  BY <1>1 DEF DirPaths, DiskTypes
<1>5. /\ Owned(objs, mark', adding'.wd)
      /\ mark' \in [Dirs \cup {Root, Outside} -> Nat]
      /\ adding' \in AddSet
  BY <1>1, <1>2, <1>3, <1>4, NativeAddKeeps
<1>6. DiskTypes' /\ WorkerTypes' /\ AddTypes' /\ objs' \in Seq(WatchSet)
  BY <1>1, <1>2, <1>5 DEF DiskTypes, WorkerTypes, AddTypes
<1>7. IdInv' /\ LockInv'
  BY <1>1, <1>2 DEF IdInv, LockInv, Locked
<1> QED  BY <1>2, <1>5, <1>6, <1>7, Parts

LEMMA SubdirectoryKeeps ==
    ASSUME IInv, addSubdirectory PROVE IInv'
<1>1. /\ DiskTypes /\ WorkerTypes /\ AddTypes /\ objs \in Seq(WatchSet)
      /\ IdInv /\ LockInv /\ Owned(objs, mark, adding.wd)
  BY Parts
<1>2. /\ session' = session /\ loc' = loc /\ ops' = ops /\ queue' = queue /\ objs' = objs
      /\ wpc' = wpc /\ events' = events /\ pending' = pending /\ act' = act
      /\ adding = NoAdd /\ frames # << >>
  BY DEF addSubdirectory, disk, worker
<1>3. PICK n \in Last(frames).todo :
        /\ frames' = [frames EXCEPT ![Len(frames)].todo = @ \ {n}]
        /\ \/ nativeAdd(Append(objs[Last(frames).id].directory, n), Last(frames).id)
           \/ mark' = mark /\ adding' = adding
  BY DEF addSubdirectory
<1>4. /\ Len(frames) \in Nat \ {0} /\ DOMAIN frames = 1..Len(frames)
      /\ Last(frames) = frames[Len(frames)] /\ Len(frames) \in DOMAIN frames /\ frames[Len(frames)] \in FrameSet
  BY <1>1, <1>2 DEF AddTypes, Last
<1>5. Last(frames).id \in DOMAIN objs /\ Last(frames).id \in Nat /\ n \in Names
  BY <1>1, <1>3, <1>4 DEF IdInv, FrameSet
<1>6. Append(objs[Last(frames).id].directory, n) \in DirPaths
  <2>1. objs[Last(frames).id] \in WatchSet
    BY <1>1, <1>5
  <2>2. objs[Last(frames).id].directory \in DirPaths
    BY <2>1 DEF WatchSet
  <2> QED  BY <1>5, <2>2 DEF DirPaths
<1>7. /\ Owned(objs, mark', adding'.wd)
      /\ mark' \in [Dirs \cup {Root, Outside} -> Nat]
      /\ adding' \in {NoAdd} \cup AddSet
  <2>1. Owned(objs, mark, 0) /\ mark \in [Dirs \cup {Root, Outside} -> Nat]
    BY <1>1, <1>2 DEF NoAdd, DiskTypes
  <2>2. CASE nativeAdd(Append(objs[Last(frames).id].directory, n), Last(frames).id)
    BY <1>1, <1>5, <1>6, <2>1, <2>2, NativeAddKeeps
  <2>3. CASE mark' = mark /\ adding' = adding
    BY <1>1, <2>1, <2>3 DEF AddTypes
  <2> QED  BY <1>3, <2>2, <2>3
<1>8. frames' \in Seq(FrameSet) /\ DOMAIN frames' = DOMAIN frames
      /\ \A i \in DOMAIN frames : frames'[i].id = frames[i].id
  <2> DEFINE F == frames[Len(frames)]
             G == [F EXCEPT !.todo = F.todo \ {n}]
  <2>1. G \in FrameSet /\ G.id = F.id
    BY <1>4 DEF FrameSet
  <2>2. frames' = [frames EXCEPT ![Len(frames)] = G] /\ frames \in Seq(FrameSet)
    BY <1>1, <1>3 DEF AddTypes
  <2> HIDE DEF G
  <2> QED  BY <1>4, <2>1, <2>2
<1>9. DiskTypes' /\ WorkerTypes' /\ AddTypes' /\ objs' \in Seq(WatchSet)
  BY <1>1, <1>2, <1>7, <1>8 DEF DiskTypes, WorkerTypes, AddTypes
<1>10. IdInv'
  BY <1>1, <1>2, <1>8 DEF IdInv
<1>11. LockInv'
  BY <1>1, <1>2 DEF LockInv, Locked
<1> QED  BY <1>2, <1>7, <1>9, <1>10, <1>11, Parts

LEMMA RegisterStepKeeps ==
    ASSUME IInv, register PROVE IInv'
<1>1. /\ DiskTypes /\ WorkerTypes /\ AddTypes /\ objs \in Seq(WatchSet)
      /\ IdInv /\ LockInv /\ Owned(objs, mark, adding.wd)
  BY Parts
<1> DEFINE w == [wd |-> adding.wd, directory |-> adding.directory, parent |-> adding.parent, state |-> "live"]
           o == Append(SetState(Lookup(adding.wd), "deleted"), w)
           names == {loc[d].name : d \in UNION {Children(d) : d \in At(adding.directory)}}
<1>2. /\ adding # NoAdd /\ adding' = NoAdd /\ objs' = o
      /\ frames' = Append(frames, [id |-> Len(objs) + 1, todo |-> names])
      /\ session' = session /\ loc' = loc /\ ops' = ops /\ queue' = queue /\ mark' = mark
      /\ wpc' = wpc /\ events' = events /\ pending' = pending /\ act' = act
  BY DEF register, disk, kernel, worker
<1>3. adding \in AddSet
  BY <1>1, <1>2 DEF AddTypes
<1>4. w \in WatchSet /\ adding.wd \in Nat /\ w.wd = adding.wd /\ w.state = "live"
  BY <1>3 DEF AddSet, WatchSet
<1>5. names \in SUBSET Names
  <2>1. \A d \in Placed : loc[d].name \in Names
    BY <1>1, PlacedName DEF Places
  <2>2. \A p : Children(p) \subseteq Placed
    BY DEF Children
  <2> QED  BY <2>1, <2>2
<1> HIDE DEF w, names
<1>6. o \in Seq(WatchSet) /\ Len(o) = Len(objs) + 1 /\ Owned(o, mark, 0)
  BY <1>1, <1>4, RegisterKeeps
<1> HIDE DEF o
<1>7. Len(objs) \in Nat /\ DOMAIN objs = 1..Len(objs) /\ DOMAIN o = 1..(Len(objs) + 1)
  BY <1>1, <1>6
<1>8. DOMAIN objs \subseteq DOMAIN o /\ Len(objs) + 1 \in DOMAIN o
  BY <1>7
<1> DEFINE f == [id |-> Len(objs) + 1, todo |-> names]
<1>9. f \in FrameSet /\ f.id = Len(objs) + 1 /\ frames \in Seq(FrameSet)
  BY <1>1, <1>5, <1>7 DEF FrameSet, AddTypes
<1>10. frames' = Append(frames, f)
  BY <1>2
<1> HIDE DEF f
<1>11. /\ frames' \in Seq(FrameSet)
       /\ \A i \in DOMAIN frames' : (i \in DOMAIN frames /\ frames'[i] = frames[i]) \/ frames'[i] = f
  BY <1>9, <1>10
<1>12. DiskTypes' /\ WorkerTypes' /\ AddTypes' /\ objs' \in Seq(WatchSet)
  BY <1>1, <1>2, <1>6, <1>11 DEF DiskTypes, WorkerTypes, AddTypes
<1>13. IdInv'
  <2>1. \A i \in DOMAIN frames' : frames'[i].id \in DOMAIN o
    BY <1>1, <1>8, <1>9, <1>11 DEF IdInv
  <2>2. (wpc \in {"handle", "cover"} => act # NoAct /\ act.id \in DOMAIN o) /\ \A p \in pending : p.id \in DOMAIN o
    BY <1>1, <1>8 DEF IdInv
  <2> QED  BY <1>2, <2>1, <2>2 DEF IdInv
<1>14. LockInv'
  BY <1>1, <1>2 DEF LockInv, Locked
<1>15. Owned(objs', mark', adding'.wd)
  BY <1>2, <1>6 DEF NoAdd
<1> QED  BY <1>12, <1>13, <1>14, <1>15, Parts

LEMMA ReturnKeeps ==
    ASSUME IInv, returnAdd PROVE IInv'
<1>1. /\ DiskTypes /\ WorkerTypes /\ AddTypes /\ objs \in Seq(WatchSet)
      /\ IdInv /\ LockInv /\ Owned(objs, mark, adding.wd)
  BY Parts
<1>2. /\ loc' = loc /\ ops' = ops /\ queue' = queue /\ mark' = mark /\ objs' = objs /\ adding' = adding
      /\ events' = events /\ pending' = pending /\ adding = NoAdd /\ frames # << >> /\ frames' = Front(frames)
      /\ \/ Len(frames) > 1 /\ session' = session /\ wpc' = wpc /\ act' = act
         \/ Len(frames) <= 1 /\ session' = session /\ wpc' = "dispatch" /\ act' = NoAct
         \/ Len(frames) <= 1 /\ session' = "watching" /\ wpc' = wpc /\ act' = act
  <2>1. Len(frames) \in Nat
    BY <1>1 DEF AddTypes
  <2> QED  BY <2>1 DEF returnAdd, disk, kernel
<1>3. /\ frames' \in Seq(FrameSet) /\ (Len(frames) <= 1 => frames' = << >>)
      /\ \A i \in DOMAIN frames' : i \in DOMAIN frames /\ frames'[i] = frames[i]
  <2>1. frames \in Seq(FrameSet) /\ frames # << >>
    BY <1>1, <1>2 DEF AddTypes
  <2>2. frames' = SubSeq(frames, 1, Len(frames) - 1)
    BY <1>2 DEF Front
  <2> QED  BY <2>1, <2>2
<1>4. DiskTypes' /\ WorkerTypes' /\ AddTypes' /\ objs' \in Seq(WatchSet)
  BY <1>1, <1>2, <1>3 DEF DiskTypes, WorkerTypes, AddTypes
<1>5. IdInv'
  BY <1>1, <1>2, <1>3 DEF IdInv
<1>6. LockInv'
  BY <1>1, <1>2, <1>3 DEF LockInv, Locked
<1> QED  BY <1>1, <1>2, <1>4, <1>5, <1>6, Parts

LEMMA RemoveKeeps ==
    ASSUME IInv, removeWatch PROVE IInv'
<1>1. /\ DiskTypes /\ WorkerTypes /\ AddTypes /\ objs \in Seq(WatchSet)
      /\ IdInv /\ LockInv /\ Owned(objs, mark, adding.wd)
  BY Parts
<1>2. /\ session' = "removed" /\ loc' = loc /\ ops' = ops /\ queue' = queue /\ frames' = frames /\ adding' = adding
      /\ wpc' = wpc /\ events' = events /\ pending' = pending /\ act' = act /\ ~Locked
  BY DEF removeWatch, disk, adds, worker
<1>3. PICK ids \in SUBSET DOMAIN objs : Unwatch(ids)
  BY DEF removeWatch, Live
<1>4. frames = << >> /\ adding = NoAdd /\ adding.wd = 0 /\ Owned(objs, mark, 0)
  BY <1>2, NotAdding
<1>5. Owned(objs', mark', 0)
  BY <1>1, <1>3, <1>4, UnwatchKeeps
<1>6. objs' \in Seq(WatchSet) /\ DOMAIN objs' = DOMAIN objs
  BY <1>1, <1>3, SetStateKeeps DEF Unwatch
<1>7. mark' \in [Dirs \cup {Root, Outside} -> Nat]
  BY <1>1, <1>3 DEF Unwatch, DiskTypes
<1>8. DiskTypes' /\ WorkerTypes' /\ AddTypes'
  BY <1>1, <1>2, <1>7 DEF DiskTypes, WorkerTypes, AddTypes
<1>9. IdInv'
  BY <1>1, <1>2, <1>6, IdKept
<1>10. LockInv'
  BY <1>2, <1>4 DEF LockInv
<1> QED  BY <1>2, <1>4, <1>5, <1>6, <1>8, <1>9, <1>10, Parts

-----------------------------------------------------------------------------
(* The worker reads batches and looks up the watches of events.            *)

\* What a step of the worker that changes neither marks nor addWatch has to
\* keep.
LEMMA WorkerKeeps ==
    ASSUME IInv, WorkerTypes', queue' \in Seq(EventSet), objs' \in Seq(WatchSet), Owned(objs', mark, adding.wd),
           UNCHANGED <<loc, ops, mark, frames, adding, session>>,
           DOMAIN objs \subseteq DOMAIN objs', wpc # "cover", wpc' # "cover",
           wpc' = "handle" => act' # NoAct /\ act'.id \in DOMAIN objs,
           \A p \in pending' : p.id \in DOMAIN objs
    PROVE  IInv'
<1>1. /\ DiskTypes /\ WorkerTypes /\ AddTypes /\ objs \in Seq(WatchSet)
      /\ IdInv /\ LockInv /\ Owned(objs, mark, adding.wd)
  BY Parts
<1>2. DiskTypes' /\ AddTypes'
  BY <1>1 DEF DiskTypes, AddTypes
<1>3. IdInv'
  BY <1>1 DEF IdInv, WorkerTypes
<1>4. LockInv'
  BY <1>1 DEF LockInv, Locked
<1> QED  BY <1>2, <1>3, <1>4, Parts

LEMMA ReadKeeps ==
    ASSUME IInv, readBatch PROVE IInv'
<1>1. /\ DiskTypes /\ WorkerTypes /\ AddTypes /\ objs \in Seq(WatchSet)
      /\ IdInv /\ LockInv /\ Owned(objs, mark, adding.wd)
  BY Parts
<1>2. /\ loc' = loc /\ ops' = ops /\ mark' = mark /\ objs' = objs /\ frames' = frames /\ adding' = adding
      /\ session' = session /\ pending' = pending /\ act' = act /\ wpc = "poll" /\ wpc' = "dispatch"
  BY DEF readBatch, disk, adds
<1>3. events' \in Seq(EventSet) /\ queue' \in Seq(EventSet)
  <2>1. PICK n \in 1..Len(queue) :
          events' = SubSeq(queue, 1, n) /\ queue' = SubSeq(queue, n + 1, Len(queue))
    BY DEF readBatch
  <2>2. queue \in Seq(EventSet)
    BY <1>1 DEF DiskTypes
  <2> QED  BY <2>1, <2>2
<1>4. WorkerTypes'
  BY <1>1, <1>2, <1>3 DEF WorkerTypes
<1>5. \A p \in pending' : p.id \in DOMAIN objs
  BY <1>1, <1>2 DEF IdInv
<1> QED  BY <1>1, <1>2, <1>3, <1>4, <1>5, WorkerKeeps

LEMMA FreeKeeps ==
    ASSUME objs \in Seq(WatchSet), NEW a, Owned(objs, mark, a), FreeDeleted
    PROVE  objs' \in Seq(WatchSet) /\ DOMAIN objs' = DOMAIN objs /\ Owned(objs', mark, a)
<1> DEFINE ids == {i \in DOMAIN objs : objs[i].state = "deleted"}
           o == SetState(ids, "freed")
<1>1. /\ o \in Seq(WatchSet) /\ DOMAIN o = DOMAIN objs /\ Len(o) = Len(objs)
      /\ \A i \in DOMAIN objs : o[i].wd = objs[i].wd /\ o[i].state = IF i \in ids THEN "freed" ELSE objs[i].state
  BY SetStateKeeps
<1>2. objs' = o
  BY DEF FreeDeleted
<1> HIDE DEF o
<1>3. \A i \in DOMAIN objs : o[i].state = "live" <=> objs[i].state = "live"
  BY <1>1
<1>4. Owned(o, mark, a)
  BY <1>1, <1>3, WatchesMoved
<1> QED  BY <1>1, <1>2, <1>4

LEMMA EndKeeps ==
    ASSUME IInv, pollTimeout \/ endBatch PROVE IInv'
<1>1. /\ DiskTypes /\ WorkerTypes /\ AddTypes /\ objs \in Seq(WatchSet)
      /\ IdInv /\ LockInv /\ Owned(objs, mark, adding.wd)
  BY Parts
<1>2. /\ loc' = loc /\ ops' = ops /\ mark' = mark /\ frames' = frames /\ adding' = adding
      /\ session' = session /\ queue' = queue /\ events' = events /\ act' = act
      /\ wpc \in {"poll", "dispatch"} /\ wpc' = "poll" /\ pending' \subseteq pending
      /\ FreeDeleted
  BY DEF pollTimeout, endBatch, disk, kernel, adds, worker
<1>3. objs' \in Seq(WatchSet) /\ DOMAIN objs' = DOMAIN objs /\ Owned(objs', mark, adding.wd)
  BY <1>1, <1>2, FreeKeeps
<1>4. WorkerTypes'
  BY <1>1, <1>2 DEF WorkerTypes
<1>5. queue' \in Seq(EventSet) /\ \A p \in pending' : p.id \in DOMAIN objs
  BY <1>1, <1>2 DEF IdInv, DiskTypes
<1> QED  BY <1>2, <1>3, <1>4, <1>5, WorkerKeeps

\* An event of a watch is of its descriptor, so it is not the overflow.
LEMMA LookupEvent ==
    ASSUME objs \in Seq(WatchSet), NEW e \in EventSet, NEW cur \in Lookup(e.wd)
    PROVE  /\ cur \in DOMAIN objs /\ cur \in Nat /\ objs[cur] \in WatchSet
           /\ e.mask # "overflow" /\ e.name \in Names
           /\ e.mask \in {"from", "to"} => e.cookie \in Nat
<1>1. cur \in DOMAIN objs /\ objs[cur].wd = e.wd
  BY DEF Lookup, Live
<1>2. cur \in Nat /\ objs[cur] \in WatchSet
  BY <1>1
<1>3. e.wd \in Nat
  BY <1>1, <1>2 DEF WatchSet
<1>4. e # Overflow
  <2>1. Overflow.wd = -1
    BY DEF Overflow
  <2>2. Overflow.wd \notin Nat
    BY <2>1
  <2> QED  BY <1>3, <2>2
<1> QED  BY <1>1, <1>2, <1>4 DEF EventSet

\* An event leaves the batch; the worker goes on or handles it.
LEMMA ConsumeKeeps ==
    ASSUME IInv, Consume, wpc = "dispatch", events # << >>,
           pending' \in SUBSET PendingSet, \A p \in pending' : p.id \in DOMAIN objs,
           \/ wpc' = wpc /\ act' = act
           \/ wpc' = "handle" /\ act' \in ActSet /\ act'.id \in DOMAIN objs
    PROVE  IInv'
<1>1. /\ DiskTypes /\ WorkerTypes /\ AddTypes /\ objs \in Seq(WatchSet)
      /\ IdInv /\ LockInv /\ Owned(objs, mark, adding.wd)
  BY Parts
<1>2. /\ loc' = loc /\ ops' = ops /\ mark' = mark /\ frames' = frames /\ adding' = adding
      /\ session' = session /\ queue' = queue /\ objs' = objs /\ events' = Tail(events)
  BY DEF Consume, disk, kernel, adds
<1>3. events' \in Seq(EventSet)
  BY <1>1, <1>2 DEF WorkerTypes
<1>4. WorkerTypes'
  BY <1>1, <1>3 DEF WorkerTypes
<1>5. queue' \in Seq(EventSet)
  BY <1>1, <1>2 DEF DiskTypes
<1>6. \A a \in ActSet : a # NoAct
  BY DEF ActSet, NoAct
<1>7. wpc' # "cover" /\ (wpc' = "handle" => act' # NoAct /\ act'.id \in DOMAIN objs)
  BY <1>6
<1> QED  BY <1>1, <1>2, <1>4, <1>5, <1>7, WorkerKeeps

LEMMA HandleTypes ==
    ASSUME NEW kind \in {"create", "delete", "added", "outside", "moved"}, NEW id \in DOMAIN objs, id \in Nat,
           NEW name \in Names, NEW from \in DirPaths, Handle(kind, id, name, from)
    PROVE  wpc' = "handle" /\ act' \in ActSet /\ act'.id \in DOMAIN objs
BY DEF Handle, ActSet

LEMMA DispatchKeeps ==
    ASSUME IInv, skipEvent \/ dispatchEvent PROVE IInv'
<1>1. /\ WorkerTypes /\ objs \in Seq(WatchSet) /\ IdInv
  BY Parts
<1>2. wpc = "dispatch" /\ events # << >> /\ Consume /\ pending' = pending
  BY DEF skipEvent, dispatchEvent
<1>3. Head(events) \in EventSet
  BY <1>1, <1>2 DEF WorkerTypes
<1>4. pending' \in SUBSET PendingSet /\ \A p \in pending' : p.id \in DOMAIN objs
  BY <1>1, <1>2 DEF WorkerTypes, IdInv
<1>5. \/ wpc' = wpc /\ act' = act
      \/ wpc' = "handle" /\ act' \in ActSet /\ act'.id \in DOMAIN objs
  <2>1. CASE skipEvent
    BY <2>1 DEF skipEvent
  <2>2. CASE dispatchEvent
    <3>1. PICK cur \in Lookup(Head(events).wd) :
            Handle(Head(events).mask, cur, Head(events).name, << >>)
      BY <2>2 DEF dispatchEvent
    <3>2. /\ cur \in DOMAIN objs /\ cur \in Nat
          /\ Head(events).mask # "overflow" /\ Head(events).name \in Names
      BY <1>1, <1>3, LookupEvent
    <3>3. Head(events).mask \in {"create", "delete", "overflow"}
      BY <2>2 DEF dispatchEvent
    <3>4. << >> \in DirPaths
      BY DEF DirPaths
    <3> QED  BY <3>1, <3>2, <3>3, <3>4, HandleTypes
  <2> QED  BY <2>1, <2>2
<1> QED  BY <1>2, <1>4, <1>5, ConsumeKeeps

LEMMA MovedFromKeeps ==
    ASSUME IInv, movedFrom PROVE IInv'
<1> DEFINE event == Head(events)
<1>1. /\ WorkerTypes /\ objs \in Seq(WatchSet) /\ IdInv
  BY Parts
<1>2. wpc = "dispatch" /\ events # << >> /\ Consume /\ event.mask = "from"
  BY DEF movedFrom
<1>3. event \in EventSet
  BY <1>1, <1>2 DEF WorkerTypes
<1>4. PICK cur \in Lookup(event.wd) :
        \/ pending' = pending \cup {[cookie |-> event.cookie, id |-> cur, name |-> event.name]}
           /\ wpc' = wpc /\ act' = act
        \/ Handle("outside", cur, event.name, << >>) /\ pending' = pending
  BY DEF movedFrom
<1>5. cur \in DOMAIN objs /\ cur \in Nat /\ event.name \in Names /\ event.cookie \in Nat
  BY <1>1, <1>2, <1>3, LookupEvent
<1> HIDE DEF event
<1>6. pending' \in SUBSET PendingSet /\ \A p \in pending' : p.id \in DOMAIN objs
  BY <1>1, <1>4, <1>5 DEF WorkerTypes, IdInv, PendingSet
<1>7. << >> \in DirPaths
  BY DEF DirPaths
<1>8. \/ wpc' = wpc /\ act' = act
      \/ wpc' = "handle" /\ act' \in ActSet /\ act'.id \in DOMAIN objs
  BY <1>4, <1>5, <1>7, HandleTypes
<1> QED  BY <1>2, <1>6, <1>8, ConsumeKeeps

LEMMA MovedToKeeps ==
    ASSUME IInv, movedTo PROVE IInv'
<1> DEFINE event == Head(events)
           source == {p \in pending : p.cookie = event.cookie}
<1>1. /\ WorkerTypes /\ objs \in Seq(WatchSet) /\ IdInv
  BY Parts
<1>2. wpc = "dispatch" /\ events # << >> /\ Consume /\ pending' = pending \ source
  BY DEF movedTo
<1>3. event \in EventSet
  BY <1>1, <1>2 DEF WorkerTypes
<1>4. pending' \in SUBSET PendingSet /\ \A p \in pending' : p.id \in DOMAIN objs
  BY <1>1, <1>2 DEF WorkerTypes, IdInv
<1>5. \/ \E c \in Lookup(event.wd) : Handle("added", c, event.name, << >>)
      \/ \E p \in pending : Handle("outside", p.id, p.name, << >>)
      \/ \E c \in Lookup(event.wd), p \in pending :
           Handle("moved", c, event.name, Append(objs[p.id].directory, p.name))
  BY DEF movedTo
<1>6. ASSUME NEW p \in pending
      PROVE  p.id \in DOMAIN objs /\ p.id \in Nat /\ p.name \in Names /\ Append(objs[p.id].directory, p.name) \in DirPaths
  <2>1. p.id \in DOMAIN objs /\ p \in PendingSet
    BY <1>1 DEF IdInv, WorkerTypes
  <2>2. objs[p.id] \in WatchSet
    BY <1>1, <2>1
  <2>3. objs[p.id].directory \in Seq(Names) /\ p.name \in Names /\ p.id \in Nat
    BY <2>1, <2>2 DEF WatchSet, DirPaths, PendingSet
  <2> QED  BY <2>1, <2>3 DEF DirPaths
<1>7. << >> \in DirPaths
  BY DEF DirPaths
<1>8. ASSUME NEW c \in Lookup(event.wd) PROVE c \in DOMAIN objs /\ c \in Nat /\ event.name \in Names
  BY <1>1, <1>3, LookupEvent
<1> HIDE DEF event
<1>9. wpc' = "handle" /\ act' \in ActSet /\ act'.id \in DOMAIN objs
  <2>1. ASSUME NEW c \in Lookup(event.wd), Handle("added", c, event.name, << >>)
        PROVE  wpc' = "handle" /\ act' \in ActSet /\ act'.id \in DOMAIN objs
    BY <1>7, <1>8, <2>1, HandleTypes
  <2>2. ASSUME NEW p \in pending, Handle("outside", p.id, p.name, << >>)
        PROVE  wpc' = "handle" /\ act' \in ActSet /\ act'.id \in DOMAIN objs
    BY <1>6, <1>7, <2>2, HandleTypes
  <2>3. ASSUME NEW c \in Lookup(event.wd), NEW p \in pending,
               Handle("moved", c, event.name, Append(objs[p.id].directory, p.name))
        PROVE  wpc' = "handle" /\ act' \in ActSet /\ act'.id \in DOMAIN objs
    BY <1>6, <1>8, <2>3, HandleTypes
  <2> QED  BY <1>5, <2>1, <2>2, <2>3
<1> QED  BY <1>2, <1>4, <1>9, ConsumeKeeps

-----------------------------------------------------------------------------
(* handleAction.                                                           *)

\* The watch of the event, and the path it is about.
LEMMA HandlingFacts ==
    ASSUME IInv, NEW kinds, Handling(kinds)
    PROVE  /\ wpc = "handle" /\ ~Locked /\ act \in ActSet /\ act.id \in DOMAIN objs /\ act.id \in Nat
           /\ fpath \in DirPaths
           /\ adding = NoAdd /\ frames = << >> /\ Owned(objs, mark, 0)
<1>1. wpc = "handle" /\ ~Locked
  BY DEF Handling
<1>2. act \in ActSet /\ act.id \in DOMAIN objs /\ objs \in Seq(WatchSet)
  BY <1>1, Parts DEF IdInv, WorkerTypes
<1>3. act.id \in Nat /\ objs[act.id] \in WatchSet /\ act.name \in Names
  BY <1>2 DEF ActSet
<1>4. objs[act.id].directory \in Seq(Names)
  BY <1>3 DEF WatchSet, DirPaths
<1>5. fpath \in DirPaths
  BY <1>3, <1>4 DEF fpath, DirPaths
<1> QED  BY <1>1, <1>2, <1>3, <1>5, NotAdding

LEMMA CoverKeeps ==
    ASSUME IInv, coverNew PROVE IInv'
<1>1. /\ DiskTypes /\ WorkerTypes /\ AddTypes /\ objs \in Seq(WatchSet)
      /\ IdInv /\ LockInv /\ Owned(objs, mark, adding.wd)
  BY Parts
<1>2. /\ Handling({"create", "added"}) /\ nativeAdd(fpath, act.id) /\ wpc' = "cover"
      /\ loc' = loc /\ ops' = ops /\ queue' = queue /\ objs' = objs /\ frames' = frames
      /\ session' = session /\ events' = events /\ pending' = pending /\ act' = act
  BY DEF coverNew, disk
<1>3. /\ wpc = "handle" /\ act \in ActSet /\ act.id \in DOMAIN objs /\ act.id \in Nat
      /\ fpath \in DirPaths /\ Owned(objs, mark, 0)
  BY <1>2, HandlingFacts
<1>4. mark \in [Dirs \cup {Root, Outside} -> Nat]
  BY <1>1 DEF DiskTypes
<1>5. /\ Owned(objs, mark', adding'.wd)
      /\ mark' \in [Dirs \cup {Root, Outside} -> Nat]
      /\ adding' \in AddSet
  BY <1>1, <1>2, <1>3, <1>4, NativeAddKeeps
<1>6. DiskTypes' /\ WorkerTypes' /\ AddTypes' /\ objs' \in Seq(WatchSet)
  BY <1>1, <1>2, <1>5 DEF DiskTypes, WorkerTypes, AddTypes
<1>7. IdInv'
  BY <1>1, <1>2, <1>3 DEF IdInv
<1>8. LockInv'
  BY <1>2 DEF LockInv, Locked
<1> QED  BY <1>2, <1>5, <1>6, <1>7, <1>8, Parts

\* The event is handled; a watch may be removed, and watches have moved.
LEMMA HandledKeeps ==
    ASSUME IInv, NEW kinds, Handling(kinds),
           \/ Done
           \/ wpc' = wpc /\ act' \in ActSet /\ act'.id = act.id,
           UNCHANGED <<loc, ops, queue, frames, adding, session, events, pending>>,
           objs' \in Seq(WatchSet), DOMAIN objs' = DOMAIN objs,
           mark' \in [Dirs \cup {Root, Outside} -> Nat], Owned(objs', mark', 0)
    PROVE  IInv'
<1>1. /\ DiskTypes /\ WorkerTypes /\ AddTypes /\ objs \in Seq(WatchSet)
      /\ IdInv /\ LockInv /\ Owned(objs, mark, adding.wd)
  BY Parts
<1>2. wpc = "handle" /\ act \in ActSet /\ act.id \in DOMAIN objs /\ adding = NoAdd /\ frames = << >>
  BY HandlingFacts
<1>3. \/ wpc' = "dispatch" /\ act' = NoAct
      \/ wpc' = "handle" /\ act' \in ActSet /\ act'.id \in DOMAIN objs
  BY <1>2 DEF Done
<1>4. DiskTypes' /\ AddTypes'
  BY <1>1 DEF DiskTypes, AddTypes
<1>5. WorkerTypes'
  BY <1>1, <1>3 DEF WorkerTypes
<1>6. \A a \in ActSet : a # NoAct
  BY DEF ActSet, NoAct
<1>7. IdInv'
  BY <1>1, <1>3, <1>6 DEF IdInv
<1>8. LockInv'
  BY <1>2 DEF LockInv
<1>9. Owned(objs', mark', adding'.wd)
  BY <1>2 DEF NoAdd
<1> QED  BY <1>4, <1>5, <1>7, <1>8, <1>9, Parts

LEMMA UnwatchTypes ==
    ASSUME DiskTypes, objs \in Seq(WatchSet), NEW ids, Unwatch(ids)
    PROVE  /\ objs' \in Seq(WatchSet) /\ DOMAIN objs' = DOMAIN objs
           /\ mark' \in [Dirs \cup {Root, Outside} -> Nat]
<1>1. objs' \in Seq(WatchSet) /\ DOMAIN objs' = DOMAIN objs
  BY SetStateKeeps DEF Unwatch
<1>2. mark' \in [Dirs \cup {Root, Outside} -> Nat]
  BY DEF Unwatch, DiskTypes
<1> QED  BY <1>1, <1>2

LEMMA ReportAddKeeps ==
    ASSUME IInv, reportAdd PROVE IInv'
<1>1. DiskTypes /\ objs \in Seq(WatchSet)
  BY Parts
<1>2. /\ Handling({"create", "added"}) /\ Done
      /\ UNCHANGED <<loc, ops, queue, frames, adding, session, events, pending>> /\ objs' = objs /\ mark' = mark
  BY DEF reportAdd, disk, kernel, adds
<1>3. Owned(objs, mark, 0)
  BY <1>2, HandlingFacts
<1>4. mark \in [Dirs \cup {Root, Outside} -> Nat]
  BY <1>1 DEF DiskTypes
<1> QED  BY <1>1, <1>2, <1>3, <1>4, HandledKeeps

LEMMA ReportDeleteKeeps ==
    ASSUME IInv, reportDeleteOrMissed PROVE IInv'
<1>1. DiskTypes /\ objs \in Seq(WatchSet)
  BY Parts
<1>2. /\ Handling({"delete", "overflow"}) /\ Done
      /\ UNCHANGED <<loc, ops, queue, frames, adding, session, events, pending>>
      /\ (objs' = objs /\ mark' = mark) \/ \E i \in WithDirectory(fpath) : Unwatch({i})
  BY DEF reportDeleteOrMissed, disk, adds
<1>3. Owned(objs, mark, 0)
  BY <1>2, HandlingFacts
<1>4. /\ objs' \in Seq(WatchSet) /\ DOMAIN objs' = DOMAIN objs
      /\ mark' \in [Dirs \cup {Root, Outside} -> Nat] /\ Owned(objs', mark', 0)
  <2>1. CASE objs' = objs /\ mark' = mark
    BY <1>1, <1>3, <2>1 DEF DiskTypes
  <2>2. ASSUME NEW i \in WithDirectory(fpath), Unwatch({i})
        PROVE  /\ objs' \in Seq(WatchSet) /\ DOMAIN objs' = DOMAIN objs
               /\ mark' \in [Dirs \cup {Root, Outside} -> Nat] /\ Owned(objs', mark', 0)
    <3>1. {i} \subseteq DOMAIN objs
      BY DEF WithDirectory, Live
    <3> QED  BY <1>1, <1>3, <2>2, <3>1, UnwatchTypes, UnwatchKeeps
  <2> QED  BY <1>2, <2>1, <2>2
<1> QED  BY <1>2, <1>4, HandledKeeps

LEMMA ReportMovedKeeps ==
    ASSUME IInv, reportMoved PROVE IInv'
<1>1. DiskTypes /\ objs \in Seq(WatchSet)
  BY Parts
<1>2. /\ Handling({"moved"}) /\ Done
      /\ UNCHANGED <<loc, ops, queue, frames, adding, session, events, pending>> /\ mark' = mark
      /\ \/ objs' = objs
         \/ objs' = [i \in DOMAIN objs |->
                       IF i \in Below(act.from)
                       THEN [objs[i] EXCEPT !.directory = Rebase(@, act.from, fpath)] ELSE objs[i]]
  BY DEF reportMoved, disk, kernel, adds
<1>3. Owned(objs, mark, 0) /\ act \in ActSet /\ fpath \in DirPaths
  BY <1>2, HandlingFacts
<1>4. mark \in [Dirs \cup {Root, Outside} -> Nat]
  BY <1>1 DEF DiskTypes
<1>5. CASE objs' = objs
  BY <1>1, <1>2, <1>3, <1>4, <1>5, HandledKeeps
<1>6. CASE objs' = [i \in DOMAIN objs |->
                      IF i \in Below(act.from)
                      THEN [objs[i] EXCEPT !.directory = Rebase(@, act.from, fpath)] ELSE objs[i]]
  <2>1. Len(objs) \in Nat /\ DOMAIN objs = 1..Len(objs) /\ \A i \in DOMAIN objs : objs[i] \in WatchSet
    BY <1>1
  <2>2. \A path \in DirPaths : Rebase(path, act.from, fpath) \in DirPaths
    <3>1. act.from \in Seq(Names) /\ fpath \in Seq(Names)
      BY <1>3 DEF ActSet, DirPaths
    <3>2. ASSUME NEW path \in Seq(Names)
          PROVE  SubSeq(path, Len(act.from) + 1, Len(path)) \in Seq(Names)
      BY <3>1
    <3> QED  BY <3>1, <3>2 DEF Rebase, DirPaths
  <2>3. ASSUME NEW w \in WatchSet
        PROVE  LET v == [w EXCEPT !.directory = Rebase(w.directory, act.from, fpath)]
               IN v \in WatchSet /\ v.wd = w.wd /\ v.state = w.state
    BY <2>2 DEF WatchSet
  <2> DEFINE o == objs'
  <2>4. \A i \in 1..Len(objs) :
          o[i] = IF i \in Below(act.from)
                 THEN [objs[i] EXCEPT !.directory = Rebase(objs[i].directory, act.from, fpath)] ELSE objs[i]
    BY <1>6, <2>1
  <2>5. DOMAIN o = 1..Len(objs) /\ o = [i \in 1..Len(objs) |-> o[i]]
    BY <1>6, <2>1
  <2> HIDE DEF o
  <2>6. \A i \in 1..Len(objs) : o[i] \in WatchSet /\ o[i].wd = objs[i].wd /\ o[i].state = objs[i].state
    BY <2>1, <2>3, <2>4
  <2>7. o \in Seq(WatchSet) /\ DOMAIN o = DOMAIN objs /\ Len(o) = Len(objs)
    BY <2>1, <2>5, <2>6
  <2>8. Owned(o, mark, 0)
    BY <1>3, <2>1, <2>6, <2>7, WatchesMoved
  <2> QED  BY <1>2, <1>4, <2>7, <2>8, HandledKeeps DEF o
<1> QED  BY <1>2, <1>5, <1>6

LEMMA ReportOutsideKeeps ==
    ASSUME IInv, reportOutside PROVE IInv'
<1>1. DiskTypes /\ objs \in Seq(WatchSet)
  BY Parts
<1>2. /\ Handling({"outside"})
      /\ UNCHANGED <<loc, ops, queue, frames, adding, session, events, pending>>
      /\ \/ act' = [act EXCEPT !.kind = "delete"] /\ objs' = objs /\ mark' = mark /\ wpc' = wpc
         \/ Done /\ \E ids : ids \subseteq DOMAIN objs /\ Unwatch(ids)
  <2>1. Below(fpath) \subseteq DOMAIN objs
    BY DEF Below, Live
  <2> QED  BY <2>1 DEF reportOutside, disk, adds
<1>3. Owned(objs, mark, 0) /\ act \in ActSet
  BY <1>2, HandlingFacts
<1>4. CASE act' = [act EXCEPT !.kind = "delete"] /\ objs' = objs /\ mark' = mark /\ wpc' = wpc
  <2>1. act' \in ActSet /\ act'.id = act.id
    BY <1>3, <1>4 DEF ActSet
  <2>2. mark \in [Dirs \cup {Root, Outside} -> Nat]
    BY <1>1 DEF DiskTypes
  <2> QED  BY <1>1, <1>2, <1>3, <1>4, <2>1, <2>2, HandledKeeps
<1>5. CASE Done /\ \E ids : ids \subseteq DOMAIN objs /\ Unwatch(ids)
  <2>1. /\ objs' \in Seq(WatchSet) /\ DOMAIN objs' = DOMAIN objs
        /\ mark' \in [Dirs \cup {Root, Outside} -> Nat] /\ Owned(objs', mark', 0)
    BY <1>1, <1>3, <1>5, UnwatchTypes, UnwatchKeeps
  <2> QED  BY <1>2, <1>5, <2>1, HandledKeeps
<1> QED  BY <1>2, <1>4, <1>5

-----------------------------------------------------------------------------
(* The invariant holds.                                                    *)

LEMMA NextKeeps == IInv /\ [Next]_vars => IInv'
<1> SUFFICES ASSUME IInv, [Next]_vars PROVE IInv'
  OBVIOUS
<1>1. CASE Programs
  BY <1>1, MkdirKeeps, RmdirKeeps, RenameKeeps DEF Programs
<1>2. CASE addWatch
  BY <1>2, AddKeeps
<1>3. CASE removeWatch
  BY <1>3, RemoveKeeps
<1>4. CASE AddStep
  BY <1>4, RegisterStepKeeps, SubdirectoryKeeps, ReturnKeeps DEF AddStep
<1>5. CASE run
  <2>1. CASE handleAction
    BY <2>1, CoverKeeps, ReportAddKeeps, ReportDeleteKeeps, ReportMovedKeeps, ReportOutsideKeeps DEF handleAction
  <2>2. CASE readBatch \/ pollTimeout \/ endBatch
    BY <2>2, ReadKeeps, EndKeeps
  <2>3. CASE skipEvent \/ dispatchEvent \/ movedFrom \/ movedTo
    BY <2>3, DispatchKeeps, MovedFromKeeps, MovedToKeeps
  <2> QED  BY <1>5, <2>1, <2>2, <2>3 DEF run
<1>6. CASE UNCHANGED vars
  <2>1. UNCHANGED <<loc, ops, mark, queue, objs, frames, adding, session, wpc, events, pending, act>>
    BY <1>6 DEF vars, disk, kernel, adds, worker
  <2>2. /\ DiskTypes /\ WorkerTypes /\ AddTypes /\ objs \in Seq(WatchSet)
        /\ IdInv /\ LockInv /\ Owned(objs, mark, adding.wd)
    BY Parts
  <2>3. DiskTypes' /\ WorkerTypes' /\ AddTypes'
    BY <2>1, <2>2 DEF DiskTypes, WorkerTypes, AddTypes
  <2>4. IdInv' /\ LockInv'
    BY <2>1, <2>2 DEF IdInv, LockInv, Locked
  <2> QED  BY <2>1, <2>2, <2>3, <2>4, Parts
<1> QED  BY <1>1, <1>2, <1>3, <1>4, <1>5, <1>6 DEF Next

\* The tree, the kernel's queue and marks, the watches and the threads have
\* values of these types, for any tree, names and settings; what the listener
\* knows is not part of it.
THEOREM TreeTypes == Spec => []TypeOK
<1>1. IInv => TypeOK
  BY DEF IInv
<1> QED  BY <1>1, InitHolds, NextKeeps, PTL DEF Spec

\* No native watch is leaked and none has two owners: between two registrations
\* every marked directory has exactly one live watch object, whatever programs
\* do to the tree, whatever the queue drops and wherever a batch ends
\* (FileWatcherInotify.cpp:136-190, 233-254, 585-601).
THEOREM EveryMarkOwned == Spec => []MarksOwned
<1>1. IInv => MarksOwned
  <2> SUFFICES ASSUME IInv, adding = NoAdd, NEW d \in Exists, mark[d] # 0
               PROVE  Cardinality(Lookup(mark[d])) = 1
    BY DEF MarksOwned
  <2>1. DiskTypes /\ Owned(objs, mark, 0)
    BY Parts DEF NoAdd
  <2>2. d \in DOMAIN mark
    BY <2>1, ExistsDirs DEF DiskTypes
  <2>3. PICK i \in LiveIn(objs) : objs[i].wd = mark[d]
    BY <2>1, <2>2 DEF Owned
  <2>4. \A j \in Lookup(mark[d]) : j = i
    BY <2>1, <2>3 DEF Owned, Lookup, Live, LiveIn
  <2>5. i \in Lookup(mark[d])
    BY <2>3 DEF Lookup, Live, LiveIn
  <2>6. Lookup(mark[d]) = {i}
    BY <2>4, <2>5
  <2> QED  BY <2>6, FS_Singleton
<1> QED  BY <1>1, InitHolds, NextKeeps, PTL DEF Spec

=============================================================================
