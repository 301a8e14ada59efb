---------------------------- MODULE Win32WatchProofs ----------------------------
(***************************************************************************)
(* Proofs about Win32Watch: the system never writes to a watch that was    *)
(* freed, and no completion is due for one.                                *)
(*                                                                         *)
(* The argument.  What the system knows of a watch is in one place: a read *)
(* that is outstanding, one packet of the port, or the worker that has     *)
(* taken it.  IoPending says whether it is in one of them, except while    *)
(* the worker unpacks the entries, when it is in the worker and the flag   *)
(* is clear; nothing is freed then, because retired watches are released   *)
(* by the worker itself, before it waits, and by the destructor when the   *)
(* worker has ended.                                                       *)
(***************************************************************************)
EXTENDS Win32Watch, SequenceTheorems, FiniteSetTheorems, TLAPS

-----------------------------------------------------------------------------
(* The inductive invariant.  Its main part is about the watches x, the     *)
(* packets q of the port and the worker w: the lemmas say of each kind of  *)
(* step what it does to them.                                              *)

Entries == [act : {"ADDED", "REMOVED", "RENAMED_OLD", "RENAMED_NEW"}, place : Places, id : Files]
Packets == [obj : Objs \cup {Nobody}, entries : Seq(Entries)]
Workers == [pc : {"none", "reclaim", "wait", "got", "entries", "refresh", "test", "ended"},
            cur : Objs \cup {Nobody}, rest : Seq(Entries)]

\* The fields that say what is allocated and what is due.  The listener's view
\* and the moves that wait are of no concern to them.
Fields == {"st", "StopNow", "IoPending", "read", "changes", "PendingRenames", "PendingRemovals",
           "OldFileName", "view"}
IsWatch(w) ==
    /\ DOMAIN w = Fields
    /\ w.st \in {"new", "live", "retired", "freed"}
    /\ w.StopNow \in BOOLEAN /\ w.IoPending \in BOOLEAN /\ w.read \in BOOLEAN
    /\ w.changes \in Seq(Entries) \cup {Overflow}

\* A watch is stopped when it is retired, with its read; there is one watch.
Watches(x) ==
    /\ DOMAIN x = Objs
    /\ \A o \in Objs : IsWatch(x[o])
    /\ \A o \in Objs : x[o].st \in {"new", "live"} => ~x[o].StopNow
    /\ \A o \in Objs : x[o].st = "retired" => x[o].StopNow /\ ~x[o].read
    /\ \A o, p \in Objs : x[o].st = "live" /\ x[p].st = "live" => o = p

\* The worker has a watch from the completion until the read that follows.
Holding == {"got", "entries", "refresh"}
WorkerOK(w) == w \in Workers /\ (w.cur \in Objs <=> w.pc \in Holding)

\* What is due for a watch is in one place.
OnePlace(x, q, w) ==
    /\ \A i, j \in DOMAIN q : q[i].obj = q[j].obj => i = j
    /\ \A o \in Objs : x[o].read => w.cur # o
    /\ \A i \in DOMAIN q : q[i].obj \in Objs => ~x[q[i].obj].read /\ w.cur # q[i].obj

\* A watch that was not added, or is freed, is in none.
NothingDue(x, q, w) ==
    \A o \in Objs : x[o].st \in {"new", "freed"} =>
        ~x[o].read /\ w.cur # o /\ \A i \in DOMAIN q : q[i].obj # o

\* IoPending tells whether it is in one.
FlagInv(x, q, w) ==
    \A o \in Objs : x[o].st \in {"live", "retired"} =>
        (x[o].IoPending <=> \/ x[o].read
                            \/ w.pc = "got" /\ w.cur = o
                            \/ \E i \in DOMAIN q : q[i].obj = o)

Memory(x, q, w) ==
    /\ Watches(x) /\ q \in Seq(Packets) /\ WorkerOK(w)
    /\ OnePlace(x, q, w) /\ NothingDue(x, q, w) /\ FlagInv(x, q, w)

\* The destructor wakes the worker once, when it has removed the watches, and
\* goes on when the worker has ended.
ClosingInv ==
    /\ closing \in {"no", "remove"} => \A i \in DOMAIN port : port[i].obj # Nobody
    /\ closing \notin {"no", "remove"} => mWatches = {}
    /\ closing \in {"drain", "done"} => worker.pc \in {"none", "ended"}

TypeOK ==
    /\ at \in [Files -> Places \cup {Unborn, Gone}] /\ ops \in Nat
    /\ DOMAIN obj = Objs /\ \A o \in Objs : IsWatch(obj[o])
    /\ port \in Seq(Packets) /\ worker \in Workers
    /\ mInitOK \in BOOLEAN
    /\ closing \in {"no", "remove", "join", "drain", "done"}

IInv == TypeOK /\ Memory(obj, port, worker) /\ ClosingInv

-----------------------------------------------------------------------------
(* Sequences, and the packets of reads that are cancelled.                 *)

\* An element added at the end, and the first one taken.
LEMMA AppendElements ==
    ASSUME NEW S, NEW s \in Seq(S), NEW x \in S
    PROVE  /\ Append(s, x) \in Seq(S) /\ Len(s) \in Nat /\ DOMAIN s = 1..Len(s)
           /\ DOMAIN Append(s, x) = 1..(Len(s) + 1)
           /\ \A i \in 1..Len(s) : Append(s, x)[i] = s[i]
           /\ Append(s, x)[Len(s) + 1] = x
OBVIOUS
LEMMA TailElements ==
    ASSUME NEW S, NEW s \in Seq(S), s # <<>>
    PROVE  /\ Tail(s) \in Seq(S) /\ Len(s) \in Nat \ {0} /\ DOMAIN s = 1..Len(s)
           /\ DOMAIN Tail(s) = 1..(Len(s) - 1)
           /\ Head(s) = s[1] /\ s[1] \in S
           /\ \A i \in 1..(Len(s) - 1) : Tail(s)[i] = s[i + 1]
OBVIOUS

\* The packets of a set of watches of which one has a read, and of none.
LEMMA CancelledOne ==
    ASSUME NEW S, NEW o \in S, obj[o].read, \A p \in S : obj[p].read => p = o
    PROVE  Cancelled(S) = <<[obj |-> o, entries |-> << >>]>>
<1> DEFINE R == {p \in S : obj[p].read}
           f == SetToSeq(R)
<1>1. R = {o}
  OBVIOUS
<1>2. Cardinality(R) = 1
  BY <1>1, FS_Singleton
<1> DEFINE g == [i \in 1..1 |-> o]
<1>3. \E h \in [1..Cardinality(R) -> R] : IsInjective(h)
  <2>1. g \in [1..Cardinality(R) -> R]
    BY <1>1, <1>2
  <2>2. IsInjective(g)
    BY DEF IsInjective
  <2> QED  BY <2>1, <2>2
<1>4. f \in [1..Cardinality(R) -> R]
  <2> HIDE DEF R
  <2> QED  BY <1>3 DEF SetToSeq
<1>5. DOMAIN f = 1..1 /\ f[1] = o
  BY <1>1, <1>2, <1>4
<1>6. Cancelled(S) = [i \in DOMAIN f |-> [obj |-> f[i], entries |-> << >>]]
  BY DEF Cancelled
<1> HIDE DEF f
<1>7. Cancelled(S) = [i \in 1..1 |-> [obj |-> o, entries |-> << >>]]
  BY <1>5, <1>6
<1> QED  BY <1>7
LEMMA CancelledRead ==
    \A o \in Objs : obj[o].read => Cancelled({o}) = <<[obj |-> o, entries |-> << >>]>>
<1> SUFFICES ASSUME NEW o \in Objs, obj[o].read
             PROVE  Cancelled({o}) = <<[obj |-> o, entries |-> << >>]>>
  OBVIOUS
<1> DEFINE S == {o}
<1>1. o \in S /\ \A p \in S : obj[p].read => p = o
  OBVIOUS
<1> HIDE DEF S
<1>2. Cancelled(S) = <<[obj |-> o, entries |-> << >>]>>
  BY <1>1, CancelledOne
<1> QED  BY <1>2 DEF S
LEMMA CancelledNone ==
    ASSUME NEW S, \A p \in S : ~obj[p].read
    PROVE  Cancelled(S) = << >>
<1> DEFINE R == {p \in S : obj[p].read}
           f == SetToSeq(R)
<1>1. R = {} /\ Cardinality(R) = 0
  BY FS_EmptySet
<1> DEFINE g == [i \in {} |-> 0]
<1>2. \E h \in [1..Cardinality(R) -> R] : IsInjective(h)
  <2>1. g \in [1..Cardinality(R) -> R]
    <3>1. 1..Cardinality(R) = {}
      BY <1>1
    <3> QED  BY <3>1
  <2>2. IsInjective(g)
    BY DEF IsInjective
  <2> QED  BY <2>1, <2>2
<1>3. f \in [1..Cardinality(R) -> R]
  <2> HIDE DEF R
  <2> QED  BY <1>2 DEF SetToSeq
<1>4. DOMAIN f = {}
  BY <1>1, <1>3
<1>5. Cancelled(S) = [i \in DOMAIN f |-> [obj |-> f[i], entries |-> << >>]]
  BY DEF Cancelled
<1> HIDE DEF f
<1>6. Cancelled(S) = [i \in {} |-> [obj |-> f[i], entries |-> << >>]]
  BY <1>4, <1>5
<1> QED  BY <1>6

-----------------------------------------------------------------------------
(* Entries change the listener's view and the moves that wait.             *)

Same(w, v) ==
    /\ DOMAIN v = Fields
    /\ v.st = w.st /\ v.StopNow = w.StopNow /\ v.IoPending = w.IoPending /\ v.read = w.read
    /\ v.changes = w.changes

LEMMA ActionKeeps ==
    ASSUME NEW w, DOMAIN w = Fields, NEW place, NEW old,
           NEW act \in {"ADDED", "REMOVED", "RENAMED_OLD", "RENAMED_NEW"}
    PROVE  Same(w, handleAction(w, act, place, old))
<1>1. ASSUME NEW v, DOMAIN v = Fields, NEW a, NEW p, NEW s
      PROVE  Same(v, Told(v, a, p, s))
  BY <1>1 DEF Told, Same, Fields
<1> DEFINE source == IF old = << >> THEN w.OldFileName ELSE old
           v == [w EXCEPT !.OldFileName = << >>]
<1>2. Same(w, v) /\ Same(w, [w EXCEPT !.OldFileName = place])
  BY DEF Same, Fields
<1>3. \/ handleAction(w, act, place, old) = [w EXCEPT !.OldFileName = place]
      \/ handleAction(w, act, place, old) = Told(w, "Add", place, place)
      \/ handleAction(w, act, place, old) = Told(w, "Delete", place, place)
      \/ handleAction(w, act, place, old) = Told(v, "Add", place, place)
      \/ handleAction(w, act, place, old) = Told(Told(v, "Delete", source, source), "Add", place, place)
      \/ handleAction(w, act, place, old) = Told(v, "Moved", place, source)
  BY DEF handleAction
<1> HIDE DEF v, source
<1>4. ASSUME NEW a, NEW p, NEW s PROVE Same(w, Told(w, a, p, s)) /\ Same(w, Told(v, a, p, s))
  BY <1>1, <1>2 DEF Same
<1>5. Same(w, Told(Told(v, "Delete", source, source), "Add", place, place))
  BY <1>1, <1>4 DEF Same
<1> QED  BY <1>2, <1>3, <1>4, <1>5

LEMMA DeleteKeeps ==
    ASSUME NEW w, DOMAIN w = Fields, NEW s
    PROVE  Same(w, Delete(w, s))
BY DEF Delete, Same, Fields

\* FlushPendingMoves and WatchCallback, of an entry.
LEMMA FlushKeeps ==
    ASSUME NEW w, DOMAIN w = Fields
    PROVE  Same(w, FlushPendingMoves(w))
<1> DEFINE a == Delete(w, Old(w.PendingRenames))
           b == Delete(a, Old(w.PendingRemovals))
<1>1. Same(w, a)
  BY DeleteKeeps
<1>2. Same(a, b)
  BY <1>1, DeleteKeeps DEF Same
<1>3. FlushPendingMoves(w) =
        [b EXCEPT !.PendingRenames = Young(@), !.PendingRemovals = Young(@)]
  BY DEF FlushPendingMoves
<1> HIDE DEF a, b
<1> QED  BY <1>1, <1>2, <1>3 DEF Same, Fields

LEMMA CallbackKeeps ==
    ASSUME NEW w, DOMAIN w = Fields, NEW e \in Entries
    PROVE  Same(w, WatchCallbackEx(w, e)) /\ Same(w, WatchCallbackOld(w, e))
<1>1. ASSUME NEW v, Same(w, v), NEW old,
             NEW act \in {"ADDED", "REMOVED", "RENAMED_OLD", "RENAMED_NEW"}
      PROVE  Same(w, handleAction(v, act, e.place, old))
  BY <1>1, ActionKeeps DEF Same
<1>2. Same(w, w)
  BY DEF Same
<1>3. e.act \in {"ADDED", "REMOVED", "RENAMED_OLD", "RENAMED_NEW"}
  BY DEF Entries
<1>4. ASSUME NEW s PROVE Same(w, [w EXCEPT !.PendingRemovals = s]) /\ Same(w, [w EXCEPT !.PendingRenames = s])
  BY DEF Same, Fields
<1>5. Same(w, addedEx(w, e))
  <2> DEFINE first == CHOOSE i \in WithId(w.PendingRemovals, e.id) : TRUE
             r == RemoveAt(w.PendingRemovals, first)
             d == Delete(w, OfId(w.PendingRemovals, e.id))
             o == [d EXCEPT !.PendingRemovals = OfOthers(@, e.id)]
  <2>1. \/ addedEx(w, e) = handleAction([w EXCEPT !.PendingRemovals = r], "RENAMED_NEW", e.place,
                                        w.PendingRemovals[first].place)
        \/ addedEx(w, e) = handleAction(o, "ADDED", e.place, << >>)
    BY DEF addedEx
  <2>2. Same(w, d)
    BY DeleteKeeps
  <2> HIDE DEF first, r, d
  <2>3. Same(w, o)
    BY <2>2 DEF Same, Fields
  <2> HIDE DEF o
  <2> QED  BY <1>1, <1>4, <2>1, <2>3
<1>6. Same(w, renamedEx(w, e))
  <2> DEFINE matches == WithId(w.PendingRenames, e.id)
             first == CHOOSE i \in matches : \A j \in matches : i <= j
             r == RemoveAt(w.PendingRenames, first)
  <2>1. \/ renamedEx(w, e) = handleAction(w, "ADDED", e.place, << >>)
        \/ renamedEx(w, e) = handleAction([w EXCEPT !.PendingRenames = r], "RENAMED_NEW", e.place,
                                          w.PendingRenames[first].place)
    BY DEF renamedEx
  <2> HIDE DEF matches, first, r
  <2> QED  BY <1>1, <1>2, <1>4, <2>1
<1>7. \/ WatchCallbackEx(w, e) = [w EXCEPT !.PendingRemovals = Append(w.PendingRemovals, Pending(e))]
      \/ WatchCallbackEx(w, e) = addedEx(w, e)
      \/ WatchCallbackEx(w, e) = [w EXCEPT !.PendingRenames = Append(w.PendingRenames, Pending(e))]
      \/ WatchCallbackEx(w, e) = renamedEx(w, e)
      \/ WatchCallbackEx(w, e) = handleAction(w, e.act, e.place, << >>)
  BY DEF WatchCallbackEx
<1>8. Same(w, handleAction(w, e.act, e.place, << >>))
  BY <1>1, <1>2, <1>3
<1> QED  BY <1>4, <1>5, <1>6, <1>7, <1>8 DEF WatchCallbackOld

-----------------------------------------------------------------------------
(* What each kind of step does to the watches, the port and the worker.    *)

\* Changes come, entries are unpacked, the worker goes on.
Alike(a, b) ==
    /\ IsWatch(b)
    /\ b.st = a.st /\ b.StopNow = a.StopNow /\ b.IoPending = a.IoPending /\ b.read = a.read

LEMMA MemoryKept ==
    ASSUME NEW x, NEW y, NEW q, NEW w, NEW v, Memory(x, q, w),
           DOMAIN y = Objs, \A o \in Objs : Alike(x[o], y[o]),
           WorkerOK(v), v.cur = w.cur, v.pc = "got" <=> w.pc = "got"
    PROVE  Memory(y, q, v)
<1>1. Watches(y)
  BY DEF Memory, Watches, Alike
<1>2. OnePlace(y, q, v)
  BY DEF Memory, OnePlace, Alike
<1>3. NothingDue(y, q, v)
  BY DEF Memory, NothingDue, Alike
<1>4. FlagInv(y, q, v)
  BY DEF Memory, FlagInv, Alike
<1> QED  BY <1>1, <1>2, <1>3, <1>4 DEF Memory

\* The worker without a watch goes on.
LEMMA MemoryNobody ==
    ASSUME NEW x, NEW q, NEW w, NEW v, Memory(x, q, w), w.cur \notin Objs,
           v \in Workers, v.cur = Nobody, v.pc \notin Holding
    PROVE  Memory(x, q, v)
<1>1. w.pc # "got" /\ v.pc # "got" /\ \A o \in Objs : v.cur # o /\ w.cur # o
  BY Win32Assumption DEF Memory, WorkerOK, Holding
<1>2. WorkerOK(v)
  BY Win32Assumption DEF WorkerOK
<1>3. OnePlace(x, q, v)
  BY <1>1 DEF Memory, OnePlace
<1>4. NothingDue(x, q, v)
  BY <1>1 DEF Memory, NothingDue
<1>5. FlagInv(x, q, v)
  BY <1>1 DEF Memory, FlagInv
<1> QED  BY <1>2, <1>3, <1>4, <1>5 DEF Memory

\* A watch is added, with a read.
LEMMA MemoryAdded ==
    ASSUME NEW x, NEW y, NEW q, NEW w, Memory(x, q, w), NEW o \in Objs,
           x[o].st = "new", \A p \in Objs : x[p].st # "live",
           DOMAIN y = Objs, \A p \in Objs \ {o} : y[p] = x[p],
           IsWatch(y[o]), y[o].st = "live", y[o].StopNow = x[o].StopNow, y[o].IoPending, y[o].read
    PROVE  Memory(y, q, w)
<1>1. Watches(y)
  BY DEF Memory, Watches
<1>2. ~x[o].read /\ w.cur # o /\ \A i \in DOMAIN q : q[i].obj # o
  BY DEF Memory, NothingDue
<1>3. OnePlace(y, q, w)
  BY <1>2 DEF Memory, OnePlace
<1>4. NothingDue(y, q, w)
  BY DEF Memory, NothingDue
<1>5. FlagInv(y, q, w)
  BY <1>2 DEF Memory, FlagInv
<1> QED  BY <1>1, <1>3, <1>4, <1>5 DEF Memory

\* A packet for a watch, or for nobody, that has none.
LEMMA PacketAdded ==
    ASSUME NEW q, q \in Seq(Packets), NEW k \in Packets
    PROVE  /\ Append(q, k) \in Seq(Packets)
           /\ \A i \in DOMAIN Append(q, k) : (i \in DOMAIN q /\ Append(q, k)[i] = q[i]) \/ Append(q, k)[i] = k
           /\ \A i \in DOMAIN q : i \in DOMAIN Append(q, k) /\ Append(q, k)[i] = q[i]
           /\ \E i \in DOMAIN Append(q, k) : Append(q, k)[i] = k
           /\ (\A i \in DOMAIN q : q[i].obj # k.obj) /\ (\A i, j \in DOMAIN q : q[i].obj = q[j].obj => i = j)
                => \A i, j \in DOMAIN Append(q, k) : Append(q, k)[i].obj = Append(q, k)[j].obj => i = j
<1> DEFINE r == Append(q, k)
<1>1. /\ r \in Seq(Packets) /\ Len(q) \in Nat /\ DOMAIN q = 1..Len(q)
      /\ DOMAIN r = 1..(Len(q) + 1)
      /\ \A i \in 1..Len(q) : r[i] = q[i]
      /\ r[Len(q) + 1] = k
  BY AppendElements
<1> HIDE DEF r
<1>2. \A i \in DOMAIN r : i \in DOMAIN q \/ i = Len(q) + 1
  BY <1>1
<1>3. \A i \in DOMAIN q : i \in DOMAIN r
  BY <1>1
<1>4. Len(q) + 1 \in DOMAIN r
  BY <1>1
<1>5. ASSUME \A i \in DOMAIN q : q[i].obj # k.obj, \A i, j \in DOMAIN q : q[i].obj = q[j].obj => i = j
      PROVE  \A i, j \in DOMAIN r : r[i].obj = r[j].obj => i = j
  BY <1>1, <1>2, <1>5
<1>6. \A i \in DOMAIN r : (i \in DOMAIN q /\ r[i] = q[i]) \/ r[i] = k
  BY <1>1, <1>2
<1>7. \A i \in DOMAIN q : i \in DOMAIN r /\ r[i] = q[i]
  BY <1>1, <1>3
<1>8. \E i \in DOMAIN r : r[i] = k
  BY <1>1, <1>4
<1> QED  BY <1>1, <1>5, <1>6, <1>7, <1>8 DEF r

\* A read is completed or cancelled: what is due is in the port now.
LEMMA MemoryCompleted ==
    ASSUME NEW x, NEW y, NEW q, NEW w, Memory(x, q, w), NEW o \in Objs, x[o].read,
           DOMAIN y = Objs, \A p \in Objs \ {o} : y[p] = x[p],
           IsWatch(y[o]), y[o].IoPending = x[o].IoPending, ~y[o].read,
           \/ y[o].st = x[o].st /\ y[o].StopNow = x[o].StopNow
           \/ x[o].st = "live" /\ y[o].st = "retired" /\ y[o].StopNow,
           NEW k \in Packets, k.obj = o
    PROVE  Memory(y, Append(q, k), w)
<1> DEFINE r == Append(q, k)
<1>1. /\ r \in Seq(Packets)
      /\ \A i \in DOMAIN r : (i \in DOMAIN q /\ r[i] = q[i]) \/ r[i] = k
      /\ \A i \in DOMAIN q : i \in DOMAIN r /\ r[i] = q[i]
      /\ \E i \in DOMAIN r : r[i] = k
      /\ (\A i \in DOMAIN q : q[i].obj # k.obj) /\ (\A i, j \in DOMAIN q : q[i].obj = q[j].obj => i = j)
           => \A i, j \in DOMAIN r : r[i].obj = r[j].obj => i = j
  BY PacketAdded DEF Memory
<1> HIDE DEF r
<1>2. w.cur # o /\ (\A i \in DOMAIN q : q[i].obj # o) /\ x[o].st \in {"live", "retired"}
  BY DEF Memory, OnePlace, NothingDue, Watches, IsWatch
<1>3. Watches(y)
  BY DEF Memory, Watches
<1>4. OnePlace(y, r, w)
  <2>1. \A i, j \in DOMAIN r : r[i].obj = r[j].obj => i = j
    BY <1>1, <1>2 DEF Memory, OnePlace
  <2>2. \A p \in Objs : y[p].read => w.cur # p
    BY <1>2 DEF Memory, OnePlace
  <2>3. \A i \in DOMAIN r : r[i].obj \in Objs => ~y[r[i].obj].read /\ w.cur # r[i].obj
    BY <1>1, <1>2 DEF Memory, OnePlace
  <2> QED  BY <2>1, <2>2, <2>3 DEF OnePlace
<1>5. NothingDue(y, r, w)
  BY <1>1, <1>2 DEF Memory, NothingDue
<1>6. FlagInv(y, r, w)
  <2>1. y[o].IoPending /\ \E i \in DOMAIN r : r[i].obj = o
    BY <1>1, <1>2 DEF Memory, FlagInv
  <2>2. ASSUME NEW p \in Objs \ {o}
        PROVE  (\E i \in DOMAIN r : r[i].obj = p) <=> \E i \in DOMAIN q : q[i].obj = p
    BY <1>1
  <2> QED  BY <2>1, <2>2 DEF Memory, FlagInv
<1> QED  BY <1>1, <1>3, <1>4, <1>5, <1>6 DEF Memory, r

\* A watch without a read is retired.
LEMMA MemoryRetired ==
    ASSUME NEW x, NEW y, NEW q, NEW w, Memory(x, q, w), NEW o \in Objs, x[o].st = "live", ~x[o].read,
           DOMAIN y = Objs, \A p \in Objs \ {o} : y[p] = x[p],
           IsWatch(y[o]), y[o].IoPending = x[o].IoPending, ~y[o].read, y[o].st = "retired", y[o].StopNow
    PROVE  Memory(y, q, w)
<1>1. Watches(y)
  BY DEF Memory, Watches
<1>2. OnePlace(y, q, w)
  BY DEF Memory, OnePlace
<1>3. NothingDue(y, q, w)
  BY DEF Memory, NothingDue
<1>4. FlagInv(y, q, w)
  BY DEF Memory, FlagInv
<1> QED  BY <1>1, <1>2, <1>3, <1>4 DEF Memory

\* Watches for which nothing is due are freed.
LEMMA MemoryFreed ==
    ASSUME NEW x, NEW y, NEW q, NEW w, Memory(x, q, w),
           DOMAIN y = Objs, NEW S, S \subseteq Objs, \A p \in Objs \ S : y[p] = x[p],
           \A o \in S : /\ IsWatch(y[o]) /\ y[o].st = "freed" /\ ~y[o].read
                        /\ w.cur # o /\ \A i \in DOMAIN q : q[i].obj # o
    PROVE  Memory(y, q, w)
<1>1. Watches(y)
  BY DEF Memory, Watches
<1>2. OnePlace(y, q, w)
  BY DEF Memory, OnePlace
<1>3. NothingDue(y, q, w)
  BY DEF Memory, NothingDue
<1>4. FlagInv(y, q, w)
  BY DEF Memory, FlagInv
<1> QED  BY <1>1, <1>2, <1>3, <1>4 DEF Memory

\* releaseRetiredWatches, while the worker unpacks nothing.
LEMMA MemoryReleased ==
    ASSUME NEW x, NEW q, NEW w, Memory(x, q, w), w.pc \notin {"entries", "refresh"}
    PROVE  Memory(releaseRetiredWatches(x), q, w)
<1> DEFINE S == {o \in Objs : x[o].st = "retired" /\ ~x[o].IoPending}
           y == releaseRetiredWatches(x)
<1>1. DOMAIN y = Objs /\ (\A p \in Objs \ S : y[p] = x[p]) /\ \A o \in S : y[o] = [x[o] EXCEPT !.st = "freed"]
  BY DEF releaseRetiredWatches, DestroyWatch
<1>2. ASSUME NEW o \in S
      PROVE  IsWatch(y[o]) /\ y[o].st = "freed" /\ ~y[o].read
  BY <1>1 DEF Memory, Watches, IsWatch, Fields
<1>3. ASSUME NEW o \in S
      PROVE  w.cur # o /\ \A i \in DOMAIN q : q[i].obj # o
  BY DEF Memory, FlagInv, WorkerOK, Holding
<1> HIDE DEF y
<1>4. S \subseteq Objs
  OBVIOUS
<1> HIDE DEF S
<1>5. Memory(y, q, w)
  BY <1>1, <1>2, <1>3, <1>4, MemoryFreed
<1> QED  BY <1>5 DEF y

\* The worker takes a packet.
LEMMA PacketTaken ==
    ASSUME NEW q, q \in Seq(Packets), q # << >>, \A i, j \in DOMAIN q : q[i].obj = q[j].obj => i = j
    PROVE  /\ Tail(q) \in Seq(Packets) /\ Head(q) \in Packets
           /\ \A i, j \in DOMAIN Tail(q) : Tail(q)[i].obj = Tail(q)[j].obj => i = j
           /\ \A i \in DOMAIN Tail(q) : Tail(q)[i].obj # Head(q).obj
           /\ \A i \in DOMAIN Tail(q) : \E j \in DOMAIN q : Tail(q)[i] = q[j]
           /\ \E j \in DOMAIN q : Head(q) = q[j]
           /\ \A j \in DOMAIN q : q[j] = Head(q) \/ \E i \in DOMAIN Tail(q) : Tail(q)[i] = q[j]
<1> DEFINE r == Tail(q)
<1>1. /\ r \in Seq(Packets) /\ Len(q) \in Nat \ {0} /\ DOMAIN q = 1..Len(q)
      /\ DOMAIN r = 1..(Len(q) - 1)
      /\ Head(q) = q[1] /\ q[1] \in Packets
      /\ \A i \in 1..(Len(q) - 1) : r[i] = q[i + 1]
  BY TailElements
<1> HIDE DEF r
<1>2. \A i \in DOMAIN r : i + 1 \in DOMAIN q /\ i \in Nat /\ i + 1 # 1 /\ r[i] = q[i + 1]
  BY <1>1
<1>3. 1 \in DOMAIN q
  BY <1>1
<1>4. \A j \in DOMAIN q : j = 1 \/ (j - 1 \in DOMAIN r /\ r[j - 1] = q[j])
  BY <1>1
<1>5. \A i, j \in DOMAIN r : r[i].obj = r[j].obj => i = j
  <2> SUFFICES ASSUME NEW i \in DOMAIN r, NEW j \in DOMAIN r, r[i].obj = r[j].obj PROVE i = j
    OBVIOUS
  <2>1. i + 1 = j + 1
    BY <1>2
  <2> QED  BY <1>2, <2>1
<1>6. \A i \in DOMAIN r : r[i].obj # Head(q).obj
  BY <1>1, <1>2, <1>3
<1>7. (\A i \in DOMAIN r : \E j \in DOMAIN q : r[i] = q[j]) /\ \E j \in DOMAIN q : Head(q) = q[j]
  BY <1>1, <1>2, <1>3
<1>8. \A j \in DOMAIN q : q[j] = Head(q) \/ \E i \in DOMAIN r : r[i] = q[j]
  BY <1>1, <1>4
<1> QED  BY <1>1, <1>5, <1>6, <1>7, <1>8 DEF r

LEMMA MemoryTaken ==
    ASSUME NEW x, NEW q, NEW w, NEW v, Memory(x, q, w), w.pc = "wait", q # << >>,
           v = IF Head(q).obj = Nobody THEN [pc |-> "test", cur |-> Nobody, rest |-> << >>]
               ELSE [pc |-> "got", cur |-> Head(q).obj, rest |-> Head(q).entries]
    PROVE  Memory(x, Tail(q), v)
<1> DEFINE r == Tail(q)
           h == Head(q)
<1>1. /\ r \in Seq(Packets) /\ h \in Packets
      /\ \A i, j \in DOMAIN r : r[i].obj = r[j].obj => i = j
      /\ \A i \in DOMAIN r : r[i].obj # h.obj
      /\ \A i \in DOMAIN r : \E j \in DOMAIN q : r[i] = q[j]
      /\ \E j \in DOMAIN q : h = q[j]
      /\ \A j \in DOMAIN q : q[j] = h \/ \E i \in DOMAIN r : r[i] = q[j]
  BY PacketTaken DEF Memory, OnePlace
<1> HIDE DEF r
<1>2. \A p \in Objs : w.cur # p
  BY DEF Memory, WorkerOK, Holding
<1>3. WorkerOK(v) /\ (h.obj \in Objs => v.pc = "got" /\ v.cur = h.obj)
      /\ (h.obj \notin Objs => v.pc = "test" /\ v.cur = Nobody)
  BY <1>1, Win32Assumption DEF Packets, Workers, WorkerOK, Holding
<1> HIDE DEF h
<1>4. h.obj \in Objs => ~x[h.obj].read /\ x[h.obj].st \notin {"new", "freed"}
  BY <1>1 DEF Memory, OnePlace, NothingDue
<1>5. \A p \in Objs : v.cur = p <=> h.obj = p
  BY <1>3, Win32Assumption
<1>6. \A i \in DOMAIN r : r[i].obj \in Objs => ~x[r[i].obj].read /\ v.cur # r[i].obj
  BY <1>1, <1>5 DEF Memory, OnePlace
<1>7. OnePlace(x, r, v)
  BY <1>1, <1>4, <1>5, <1>6 DEF OnePlace
<1>8. NothingDue(x, r, v)
  BY <1>1, <1>4, <1>5 DEF Memory, NothingDue
<1>9. FlagInv(x, r, v)
  <2>1. ASSUME NEW p \in Objs
        PROVE  (\E j \in DOMAIN q : q[j].obj = p) <=> (v.pc = "got" /\ v.cur = p) \/ \E i \in DOMAIN r : r[i].obj = p
    BY <1>1, <1>3, <1>5
  <2> QED  BY <1>2, <2>1 DEF Memory, FlagInv
<1> QED  BY <1>1, <1>3, <1>7, <1>8, <1>9 DEF Memory, r

\* The worker handles the packet: the flag is clear, or the watch is freed.
LEMMA MemoryHandled ==
    ASSUME NEW x, NEW y, NEW q, NEW w, NEW v, Memory(x, q, w), w.pc = "got", NEW o \in Objs, o = w.cur,
           DOMAIN y = Objs, \A p \in Objs \ {o} : y[p] = x[p],
           IsWatch(y[o]), ~y[o].IoPending, y[o].read = x[o].read, y[o].StopNow = x[o].StopNow,
           WorkerOK(v), v.pc # "got",
           \/ x[o].st = "retired" /\ y[o].st = "freed" /\ v.cur = Nobody
           \/ x[o].st = "live" /\ y[o].st = "live" /\ v.cur = o
    PROVE  Memory(y, q, v)
<1>1. ~x[o].read /\ \A i \in DOMAIN q : q[i].obj # o
  BY DEF Memory, OnePlace
<1>2. \A p \in Objs \ {o} : v.cur # p
  BY Win32Assumption
<1>3. Watches(y)
  BY DEF Memory, Watches
<1>4. OnePlace(y, q, v)
  BY <1>1, <1>2 DEF Memory, OnePlace
<1>5. NothingDue(y, q, v)
  BY <1>1, <1>2, Win32Assumption DEF Memory, NothingDue
<1>6. FlagInv(y, q, v)
  BY <1>1, <1>2 DEF Memory, FlagInv
<1> QED  BY <1>3, <1>4, <1>5, <1>6 DEF Memory

\* A read is started again, unless the watch was stopped or the read failed.
LEMMA MemoryRefreshed ==
    ASSUME NEW x, NEW y, NEW q, NEW w, NEW v, Memory(x, q, w), w.pc = "refresh", NEW o \in Objs, o = w.cur,
           DOMAIN y = Objs, \A p \in Objs \ {o} : y[p] = x[p],
           IsWatch(y[o]), y[o].st = x[o].st, y[o].StopNow = x[o].StopNow,
           y[o].read = y[o].IoPending, y[o].read => ~x[o].StopNow,
           WorkerOK(v), v.pc # "got", v.cur = Nobody
    PROVE  Memory(y, q, v)
<1>1. ~x[o].read /\ (\A i \in DOMAIN q : q[i].obj # o) /\ x[o].st \notin {"new", "freed"}
  BY DEF Memory, OnePlace, NothingDue
<1>2. \A p \in Objs : v.cur # p
  BY Win32Assumption
<1>3. Watches(y)
  BY DEF Memory, Watches
<1>4. OnePlace(y, q, v)
  BY <1>1, <1>2 DEF Memory, OnePlace
<1>5. NothingDue(y, q, v)
  BY <1>1, <1>2 DEF Memory, NothingDue
<1>6. FlagInv(y, q, v)
  <2>1. \A p \in Objs \ {o} : w.cur # p
    OBVIOUS
  <2> QED  BY <1>1, <1>2, <2>1 DEF Memory, FlagInv
<1> QED  BY <1>3, <1>4, <1>5, <1>6 DEF Memory

\* The drain takes a packet for no live watch.
LEMMA MemoryDrained ==
    ASSUME NEW x, NEW y, NEW q, NEW w, Memory(x, q, w), q # << >>, w.cur \notin Objs,
           \A p \in Objs : x[p].st # "live",
           y = IF Head(q).obj \in {p \in Objs : x[p].st = "retired"}
               THEN [x EXCEPT ![Head(q).obj].st = "freed"] ELSE x
    PROVE  Memory(y, Tail(q), w)
<1> DEFINE r == Tail(q)
           h == Head(q)
           o == h.obj
<1>1. /\ r \in Seq(Packets) /\ h \in Packets
      /\ \A i, j \in DOMAIN r : r[i].obj = r[j].obj => i = j
      /\ \A i \in DOMAIN r : r[i].obj # h.obj
      /\ \A i \in DOMAIN r : \E j \in DOMAIN q : r[i] = q[j]
      /\ \E j \in DOMAIN q : h = q[j]
      /\ \A j \in DOMAIN q : q[j] = h \/ \E i \in DOMAIN r : r[i] = q[j]
  BY PacketTaken DEF Memory, OnePlace
<1> HIDE DEF r
<1>2. /\ o \in Objs => x[o].st = "retired" /\ ~x[o].read
      /\ o \notin Objs => o = Nobody
  BY <1>1 DEF Memory, NothingDue, OnePlace, Watches, IsWatch, Packets
<1>3. DOMAIN y = Objs /\ (\A p \in Objs \ {o} : y[p] = x[p])
      /\ (o \in Objs => y[o] = [x[o] EXCEPT !.st = "freed"])
  BY <1>2 DEF Memory, Watches
<1>4. o \in Objs => IsWatch(y[o]) /\ y[o].st = "freed" /\ ~y[o].read
  BY <1>2, <1>3 DEF Memory, Watches, IsWatch, Fields
<1> HIDE DEF h
<1>5. Watches(y)
  BY <1>3, <1>4 DEF Memory, Watches
<1>6. OnePlace(y, r, w)
  BY <1>1, <1>3, <1>4 DEF Memory, OnePlace
<1>7. NothingDue(y, r, w)
  <2>1. ASSUME NEW p \in Objs, y[p].st \in {"new", "freed"}, p # o
        PROVE  ~y[p].read /\ \A i \in DOMAIN r : r[i].obj # p
    <3>1. ~x[p].read /\ \A j \in DOMAIN q : q[j].obj # p
      BY <1>3, <2>1 DEF Memory, NothingDue
    <3> QED  BY <1>1, <1>3, <2>1, <3>1
  <2>2. ASSUME NEW p \in Objs, p = o
        PROVE  ~y[p].read /\ \A i \in DOMAIN r : r[i].obj # p
    BY <1>1, <1>4, <2>2
  <2> QED  BY <2>1, <2>2 DEF NothingDue
<1>8. FlagInv(y, r, w)
  <2>1. ASSUME NEW p \in Objs \ {o}
        PROVE  (\E j \in DOMAIN q : q[j].obj = p) <=> \E i \in DOMAIN r : r[i].obj = p
    BY <1>1
  <2> QED  BY <1>3, <1>4, <2>1 DEF Memory, FlagInv
<1> QED  BY <1>1, <1>5, <1>6, <1>7, <1>8 DEF Memory, r

-----------------------------------------------------------------------------
(* The steps.                                                              *)

RestOK ==
    /\ at \in [Files -> Places \cup {Unborn, Gone}] /\ ops \in Nat
    /\ mInitOK \in BOOLEAN
    /\ closing \in {"no", "remove", "join", "drain", "done"}

LEMMA Parts ==
    /\ IInv => RestOK /\ Memory(obj, port, worker) /\ ClosingInv
    /\ RestOK' /\ Memory(obj', port', worker') /\ ClosingInv' => IInv'
<1>1. IInv => RestOK /\ Memory(obj, port, worker) /\ ClosingInv
  BY DEF IInv, TypeOK, RestOK
<1>2. ASSUME RestOK', Memory(obj', port', worker'), ClosingInv'
      PROVE  IInv'
  BY <1>2 DEF IInv, TypeOK, RestOK, Memory, Watches, WorkerOK
<1> QED  BY <1>1, <1>2

\* The destructor stays where it is.
LEMMA ClosingKept ==
    ASSUME IInv, UNCHANGED closing,
           \A o \in Objs : obj'[o].st = "live" => obj[o].st = "live",
           \A i \in DOMAIN port' : port'[i].obj # Nobody \/ \E j \in DOMAIN port : port[j].obj = port'[i].obj,
           worker'.pc = worker.pc \/ worker.pc \notin {"none", "ended"} \/ closing = "no"
    PROVE  ClosingInv'
<1>1. ClosingInv
  BY Parts
<1>2. closing \in {"no", "remove"} => \A i \in DOMAIN port' : port'[i].obj # Nobody
  BY <1>1 DEF ClosingInv
<1>3. closing \notin {"no", "remove"} => mWatches' = {}
  BY <1>1 DEF ClosingInv, mWatches
<1>4. closing \in {"drain", "done"} => worker'.pc \in {"none", "ended"}
  BY <1>1 DEF ClosingInv
<1> QED  BY <1>2, <1>3, <1>4 DEF ClosingInv

LEMMA InitHolds == Init => IInv
<1> SUFFICES ASSUME Init PROVE IInv
  OBVIOUS
<1>u. /\ at = [f \in Files |-> Unborn] /\ ops = 0 /\ obj = [o \in Objs |-> Fresh] /\ port = << >>
      /\ worker = [pc |-> "none", cur |-> Nobody, rest |-> << >>] /\ mInitOK = TRUE /\ closing = "no"
  BY DEF Init
<1>1. IsWatch(Fresh) /\ Fresh.st = "new" /\ ~Fresh.StopNow /\ ~Fresh.read
  BY DEF IsWatch, Fresh, Fields
<1>2. DOMAIN obj = Objs /\ \A o \in Objs : obj[o] = Fresh
  BY <1>u
<1>3. worker \in Workers /\ worker.cur = Nobody /\ worker.pc = "none" /\ DOMAIN port = {} /\ port \in Seq(Packets)
  BY <1>u DEF Workers
<1>4. WorkerOK(worker)
  BY <1>3, Win32Assumption DEF WorkerOK, Holding
<1>5. Watches(obj)
  BY <1>1, <1>2 DEF Watches
<1>6. OnePlace(obj, port, worker) /\ NothingDue(obj, port, worker) /\ FlagInv(obj, port, worker)
  BY <1>1, <1>2, <1>3, Win32Assumption DEF OnePlace, NothingDue, FlagInv
<1>7. TypeOK
  BY <1>u, <1>1, <1>2, <1>3 DEF TypeOK
<1>8. ClosingInv
  BY <1>u, <1>3 DEF ClosingInv
<1> QED  BY <1>3, <1>4, <1>5, <1>6, <1>7, <1>8 DEF IInv, Memory

\* A change of the tree, and the passing of time.
LEMMA ChangeKeeps ==
    ASSUME IInv, NEW f \in Files, NEW to \in Places \cup {Gone}, NEW entries \in Seq(Entries),
           Change(f, to, entries)
    PROVE  IInv'
<1>u. /\ ops' = ops + 1 /\ at' = [at EXCEPT ![f] = to] /\ obj' = [o \in Objs |-> Put(obj[o], entries)]
      /\ port' = port /\ worker' = worker /\ mInitOK' = mInitOK /\ closing' = closing
  BY DEF Change
<1>1. RestOK /\ Memory(obj, port, worker) /\ WorkerOK(worker) /\ \A o \in Objs : IsWatch(obj[o])
  BY Parts DEF Memory, Watches
<1>2. RestOK'
  BY <1>u, <1>1 DEF RestOK
<1>3. ASSUME NEW w, IsWatch(w) PROVE Alike(w, Put(w, entries))
  <2>1. w.changes # Overflow => w.changes \o entries \in Seq(Entries)
    BY <1>3 DEF IsWatch
  <2> QED  BY <1>3, <2>1 DEF Alike, Put, IsWatch, Fields
<1>4. DOMAIN obj' = Objs /\ \A o \in Objs : Alike(obj[o], obj'[o])
  BY <1>u, <1>1, <1>3
<1>5. Memory(obj', port, worker)
  BY <1>1, <1>4, MemoryKept
<1>6. ClosingInv'
  BY <1>u, <1>4, ClosingKept DEF Alike
<1> QED  BY <1>u, <1>2, <1>5, <1>6, Parts

LEMMA TickKeeps ==
    ASSUME IInv, tick PROVE IInv'
<1>u. /\ obj' = [o \in Objs |-> [obj[o] EXCEPT !.PendingRemovals = Aged(@), !.PendingRenames = Aged(@)]]
      /\ at' = at /\ ops' = ops /\ port' = port /\ worker' = worker /\ mInitOK' = mInitOK /\ closing' = closing
  BY DEF tick
<1>1. RestOK /\ Memory(obj, port, worker) /\ WorkerOK(worker) /\ \A o \in Objs : IsWatch(obj[o])
  BY Parts DEF Memory, Watches
<1>2. RestOK'
  BY <1>u, <1>1 DEF RestOK
<1>3. DOMAIN obj' = Objs /\ \A o \in Objs : Alike(obj[o], obj'[o])
  BY <1>u, <1>1 DEF Alike, IsWatch, Fields
<1>4. Memory(obj', port, worker)
  BY <1>1, <1>3, MemoryKept
<1>5. ClosingInv'
  BY <1>u, <1>3, ClosingKept DEF Alike
<1> QED  BY <1>u, <1>2, <1>4, <1>5, Parts

\* A read completes.
LEMMA CompleteKeeps ==
    ASSUME IInv, NEW o \in Objs, complete(o) PROVE IInv'
<1>1. RestOK /\ Memory(obj, port, worker) /\ DOMAIN obj = Objs /\ (\A p \in Objs : IsWatch(obj[p])) /\ port \in Seq(Packets)
  BY Parts DEF Memory, Watches
<1>2. at' = at /\ ops' = ops /\ worker' = worker /\ mInitOK' = mInitOK /\ closing' = closing /\ obj[o].read
  BY DEF complete
<1>3. PICK k \in Packets, c \in Seq(Entries) :
        /\ k.obj = o /\ port' = Append(port, k)
        /\ obj' = [obj EXCEPT ![o] = [obj[o] EXCEPT !.read = FALSE, !.changes = c]]
  <2>1. CASE obj[o].changes = Overflow
    <3> DEFINE k == [obj |-> o, entries |-> << >>]
    <3>1. k \in Packets /\ << >> \in Seq(Entries)
      BY DEF Packets
    <3>2. port' = Append(port, k) /\ obj' = [obj EXCEPT ![o] = [obj[o] EXCEPT !.read = FALSE, !.changes = << >>]]
      BY <1>1, <2>1 DEF complete
    <3> QED  BY <3>1, <3>2
  <2>2. CASE obj[o].changes # Overflow
    <3>1. PICK n \in 1..Len(obj[o].changes) :
            /\ port' = Append(port, [obj |-> o, entries |-> SubSeq(obj[o].changes, 1, n)])
            /\ obj' = [obj EXCEPT ![o] = [obj[o] EXCEPT !.read = FALSE,
                                            !.changes = SubSeq(obj[o].changes, n + 1, Len(obj[o].changes))]]
      BY <1>1, <2>2 DEF complete
    <3>2. obj[o].changes \in Seq(Entries)
      BY <1>1, <2>2 DEF IsWatch
    <3>3. SubSeq(obj[o].changes, 1, n) \in Seq(Entries)
          /\ SubSeq(obj[o].changes, n + 1, Len(obj[o].changes)) \in Seq(Entries)
      BY <3>2
    <3>4. [obj |-> o, entries |-> SubSeq(obj[o].changes, 1, n)] \in Packets
      BY <3>3 DEF Packets
    <3> QED  BY <3>1, <3>3, <3>4
  <2> QED  BY <2>1, <2>2
<1>4. /\ DOMAIN obj' = Objs /\ \A p \in Objs \ {o} : obj'[p] = obj[p]
      /\ obj'[o] = [obj[o] EXCEPT !.read = FALSE, !.changes = c]
  BY <1>1, <1>3
<1>5. /\ IsWatch(obj'[o]) /\ obj'[o].IoPending = obj[o].IoPending /\ ~obj'[o].read
      /\ obj'[o].st = obj[o].st /\ obj'[o].StopNow = obj[o].StopNow
  BY <1>1, <1>4 DEF IsWatch, Fields
<1>6. Memory(obj', Append(port, k), worker)
  <2> DEFINE y == obj'
  <2>1. /\ Memory(obj, port, worker) /\ obj[o].read /\ DOMAIN y = Objs /\ \A p \in Objs \ {o} : y[p] = obj[p]
        /\ IsWatch(y[o]) /\ y[o].IoPending = obj[o].IoPending /\ ~y[o].read
        /\ y[o].st = obj[o].st /\ y[o].StopNow = obj[o].StopNow
        /\ k \in Packets /\ k.obj = o
    BY <1>1, <1>2, <1>3, <1>4, <1>5
  <2> HIDE DEF y
  <2>2. Memory(y, Append(port, k), worker)
    BY <2>1, MemoryCompleted
  <2> QED  BY <2>2 DEF y
<1>7. \A i \in DOMAIN port' : port'[i].obj # Nobody \/ \E j \in DOMAIN port : port[j].obj = port'[i].obj
  BY <1>1, <1>3, PacketAdded, Win32Assumption
<1>8. ClosingInv'
  BY <1>2, <1>4, <1>5, <1>7, ClosingKept
<1>9. RestOK'
  BY <1>1, <1>2 DEF RestOK
<1> QED  BY <1>2, <1>3, <1>6, <1>8, <1>9, Parts

-----------------------------------------------------------------------------
(* Watches are added and removed.                                          *)

LEMMA AddKeeps ==
    ASSUME IInv, NEW o \in Objs, addWatch(o) PROVE IInv'
<1>u. /\ at' = at /\ ops' = ops /\ port' = port /\ worker' = worker /\ mInitOK' = mInitOK /\ closing' = closing
      /\ closing = "no" /\ obj[o].st = "new" /\ mWatches = {}
      /\ obj' = [obj EXCEPT ![o] = [obj[o] EXCEPT !.st = "live", !.IoPending = TRUE, !.read = TRUE, !.view = Taken]]
  BY DEF addWatch, pathInWatches
<1>1. RestOK /\ Memory(obj, port, worker) /\ DOMAIN obj = Objs /\ (\A p \in Objs : IsWatch(obj[p])) /\ ClosingInv
  BY Parts DEF Memory, Watches
<1>2. /\ DOMAIN obj' = Objs /\ \A p \in Objs \ {o} : obj'[p] = obj[p]
      /\ obj'[o] = [obj[o] EXCEPT !.st = "live", !.IoPending = TRUE, !.read = TRUE, !.view = Taken]
  BY <1>u, <1>1
<1>3. /\ IsWatch(obj'[o]) /\ obj'[o].IoPending /\ obj'[o].read /\ obj'[o].st = "live"
      /\ obj'[o].StopNow = obj[o].StopNow
  BY <1>1, <1>2 DEF IsWatch, Fields
<1>4. \A p \in Objs : obj[p].st # "live"
  BY <1>u DEF mWatches
<1>5. Memory(obj', port, worker)
  BY <1>u, <1>1, <1>2, <1>3, <1>4, MemoryAdded
<1>6. ClosingInv'
  BY <1>u, <1>1 DEF ClosingInv
<1>7. RestOK'
  BY <1>u, <1>1 DEF RestOK
<1> QED  BY <1>u, <1>5, <1>6, <1>7, Parts

\* StopWatch of the watch there is, and the packet of its read.
LEMMA MemoryStopped ==
    ASSUME NEW x, NEW y, NEW q, NEW w, Memory(x, q, w), NEW o \in Objs, x[o].st = "live",
           DOMAIN y = Objs, \A p \in Objs \ {o} : y[p] = x[p], y[o] = StopWatch(x[o])
    PROVE  /\ \A p \in Objs : y[p].st # "live"
           /\ x[o].read => Memory(y, Append(q, [obj |-> o, entries |-> << >>]), w)
           /\ ~x[o].read => Memory(y, q, w)
<1>1. IsWatch(x[o]) /\ \A p \in Objs : x[p].st = "live" => p = o
  BY DEF Memory, Watches
<1>2. /\ IsWatch(y[o]) /\ y[o].IoPending = x[o].IoPending /\ ~y[o].read
      /\ y[o].st = "retired" /\ y[o].StopNow
  BY <1>1 DEF StopWatch, IsWatch, Fields
<1>3. [obj |-> o, entries |-> << >>] \in Packets /\ [obj |-> o, entries |-> << >>].obj = o
  BY DEF Packets
<1>4. ASSUME x[o].read PROVE Memory(y, Append(q, [obj |-> o, entries |-> << >>]), w)
  BY <1>2, <1>3, <1>4, MemoryCompleted
<1>5. ASSUME ~x[o].read PROVE Memory(y, q, w)
  BY <1>2, <1>5, MemoryRetired
<1>6. \A p \in Objs : y[p].st # "live"
  BY <1>1, <1>2
<1> QED  BY <1>4, <1>5, <1>6

LEMMA RemoveKeeps ==
    ASSUME IInv, NEW o \in Objs, removeWatch(o), UNCHANGED <<at, ops, worker, mInitOK, closing>>
    PROVE  IInv'
<1>u. /\ obj[o].st = "live" /\ obj' = [obj EXCEPT ![o] = StopWatch(obj[o])] /\ port' = port \o Cancelled({o})
      /\ at' = at /\ ops' = ops /\ worker' = worker /\ mInitOK' = mInitOK /\ closing' = closing
  BY DEF removeWatch
<1>1. RestOK /\ Memory(obj, port, worker) /\ DOMAIN obj = Objs /\ port \in Seq(Packets)
  BY Parts DEF Memory, Watches
<1>2. DOMAIN obj' = Objs /\ (\A p \in Objs \ {o} : obj'[p] = obj[p]) /\ obj'[o] = StopWatch(obj[o])
  BY <1>u, <1>1
<1> DEFINE k == [obj |-> o, entries |-> << >>]
<1>3. k \in Packets /\ k.obj = o
  BY DEF Packets
<1>4. /\ obj[o].read => port' = Append(port, k)
      /\ ~obj[o].read => port' = port
  <2>1. ASSUME obj[o].read PROVE port' = Append(port, k)
    <3>1. Cancelled({o}) = <<k>>
      BY <2>1, CancelledRead
    <3>2. port' = port \o <<k>> /\ port \in Seq(Packets)
      BY <1>u, <1>1, <3>1
    <3> HIDE DEF k
    <3> QED  BY <1>3, <3>2
  <2>2. ASSUME ~obj[o].read PROVE port' = port
    <3>1. Cancelled({o}) = << >>
      BY <2>2, CancelledNone
    <3>2. port' = port \o << >> /\ port \in Seq(Packets)
      BY <1>u, <1>1, <3>1
    <3> QED  BY <3>2
  <2> QED  BY <2>1, <2>2
<1>5. /\ \A p \in Objs : obj'[p].st # "live"
      /\ obj[o].read => Memory(obj', Append(port, k), worker)
      /\ ~obj[o].read => Memory(obj', port, worker)
  <2>1. Memory(obj, port, worker) /\ obj[o].st = "live"
    BY <1>u, <1>1
  <2>2. DOMAIN obj' = Objs /\ (\A p \in Objs \ {o} : obj'[p] = obj[p]) /\ obj'[o] = StopWatch(obj[o])
    BY <1>2
  <2> QED  BY <2>1, <2>2, MemoryStopped
<1>6. \A i \in DOMAIN port' : port'[i].obj # Nobody \/ \E j \in DOMAIN port : port[j].obj = port'[i].obj
  <2> HIDE DEF k
  <2>1. o # Nobody /\ port \in Seq(Packets) /\ (port' = Append(port, k) \/ port' = port)
    BY <1>1, <1>4, Win32Assumption
  <2>2. ASSUME NEW r, r = Append(port, k)
        PROVE  \A i \in DOMAIN r : r[i].obj # Nobody \/ \E j \in DOMAIN port : port[j].obj = r[i].obj
    BY <1>3, <2>1, <2>2, PacketAdded
  <2> QED  BY <2>1, <2>2
<1>7. ClosingInv'
  BY <1>u, <1>5, <1>6, ClosingKept
<1>8. RestOK'
  BY <1>u, <1>1 DEF RestOK
<1>9. Memory(obj', port', worker')
  BY <1>u, <1>4, <1>5
<1> QED  BY <1>7, <1>8, <1>9, Parts

\* The packet that wakes the worker.
LEMMA MemoryPosted ==
    ASSUME NEW x, NEW q, NEW w, Memory(x, q, w), \A i \in DOMAIN q : q[i].obj # Nobody,
           NEW k \in Packets, k.obj = Nobody
    PROVE  Memory(x, Append(q, k), w)
<1> DEFINE r == Append(q, k)
<1>1. /\ r \in Seq(Packets)
      /\ \A i \in DOMAIN r : (i \in DOMAIN q /\ r[i] = q[i]) \/ r[i] = k
      /\ \A i \in DOMAIN q : i \in DOMAIN r /\ r[i] = q[i]
      /\ (\A i \in DOMAIN q : q[i].obj # k.obj) /\ (\A i, j \in DOMAIN q : q[i].obj = q[j].obj => i = j)
           => \A i, j \in DOMAIN r : r[i].obj = r[j].obj => i = j
  BY PacketAdded DEF Memory
<1> HIDE DEF r
<1>2. OnePlace(x, r, w)
  BY <1>1, Win32Assumption DEF Memory, OnePlace
<1>3. NothingDue(x, r, w)
  BY <1>1, Win32Assumption DEF Memory, NothingDue
<1>4. FlagInv(x, r, w)
  <2>1. ASSUME NEW p \in Objs
        PROVE  (\E i \in DOMAIN r : r[i].obj = p) <=> \E i \in DOMAIN q : q[i].obj = p
    BY <1>1, Win32Assumption
  <2> QED  BY <2>1 DEF Memory, FlagInv
<1> QED  BY <1>1, <1>2, <1>3, <1>4 DEF Memory, r

LEMMA RemoveAllKeeps ==
    ASSUME IInv, removeAllWatches PROVE IInv'
<1> DEFINE k == [obj |-> Nobody, entries |-> << >>]
           q == port \o Cancelled(mWatches)
<1>u. /\ obj' = [o \in Objs |-> IF o \in mWatches THEN StopWatch(obj[o]) ELSE obj[o]]
      /\ port' = Append(q, k) /\ closing = "remove" /\ closing' = "join"
      /\ at' = at /\ ops' = ops /\ worker' = worker /\ mInitOK' = mInitOK
  BY DEF removeAllWatches
<1>1. RestOK /\ Memory(obj, port, worker) /\ DOMAIN obj = Objs /\ port \in Seq(Packets) /\ ClosingInv
      /\ \A o, p \in Objs : obj[o].st = "live" /\ obj[p].st = "live" => o = p
  BY Parts DEF Memory, Watches
<1>2. k \in Packets /\ k.obj = Nobody
  BY DEF Packets
<1>3. \A i \in DOMAIN port : port[i].obj # Nobody
  BY <1>u, <1>1 DEF ClosingInv
<1>4. /\ Memory(obj', q, worker) /\ \A p \in Objs : obj'[p].st # "live"
      /\ \A i \in DOMAIN q : q[i].obj # Nobody
  <2>1. CASE mWatches = {}
    <3>1. Cancelled(mWatches) = << >>
      BY <2>1, CancelledNone
    <3>2. q = port
      BY <1>1, <3>1
    <3>3. DOMAIN obj' = Objs /\ \A o \in Objs : obj'[o] = obj[o] /\ obj[o].st # "live"
      BY <1>u, <2>1 DEF mWatches
    <3>4. \A o \in Objs : Alike(obj[o], obj'[o])
      BY <1>1, <3>3 DEF Alike, Memory, Watches
    <3>5. WorkerOK(worker)
      BY <1>1 DEF Memory
    <3> HIDE DEF q
    <3> QED  BY <1>1, <1>3, <3>2, <3>3, <3>4, <3>5, MemoryKept
  <2>2. CASE mWatches # {}
    <3>1. PICK o \in Objs : obj[o].st = "live" /\ mWatches = {o}
      BY <1>1, <2>2 DEF mWatches
    <3>2. DOMAIN obj' = Objs /\ (\A p \in Objs \ {o} : obj'[p] = obj[p]) /\ obj'[o] = StopWatch(obj[o])
      BY <1>u, <3>1
    <3> DEFINE m == [obj |-> o, entries |-> << >>]
    <3>3. m \in Packets /\ m.obj = o
      BY DEF Packets
    <3>4. /\ \A p \in Objs : obj'[p].st # "live"
          /\ obj[o].read => Memory(obj', Append(port, m), worker)
          /\ ~obj[o].read => Memory(obj', port, worker)
      BY <1>1, <3>1, <3>2, MemoryStopped
    <3>5. CASE obj[o].read
      <4>1. Cancelled({o}) = <<m>>
        BY <3>5, CancelledRead
      <4> HIDE DEF m
      <4>2. q = Append(port, m)
        <5>1. q = port \o <<m>>
          BY <3>1, <4>1
        <5> HIDE DEF q
        <5> QED  BY <1>1, <3>3, <5>1
      <4> HIDE DEF q
      <4>3. \A i \in DOMAIN q : q[i].obj # Nobody
        BY <1>1, <1>3, <3>3, <4>2, PacketAdded, Win32Assumption
      <4> QED  BY <3>4, <3>5, <4>2, <4>3
    <3>6. CASE ~obj[o].read
      <4>1. Cancelled(mWatches) = << >>
        BY <3>1, <3>6, CancelledNone
      <4>2. q = port
        BY <1>1, <4>1
      <4> HIDE DEF q
      <4> QED  BY <1>3, <3>4, <3>6, <4>2
    <3> QED  BY <3>5, <3>6
  <2> QED  BY <2>1, <2>2
<1> HIDE DEF q
<1>5. Memory(obj', Append(q, k), worker)
  BY <1>2, <1>4, MemoryPosted
<1> HIDE DEF k
<1>6. ClosingInv'
  BY <1>u, <1>4 DEF ClosingInv, mWatches
<1>7. RestOK'
  BY <1>u, <1>1 DEF RestOK
<1> QED  BY <1>u, <1>5, <1>6, <1>7, Parts

-----------------------------------------------------------------------------
(* The worker.                                                             *)

\* What the lemmas about its steps use.
LEMMA WorkerFacts ==
    ASSUME IInv
    PROVE  /\ RestOK /\ Memory(obj, port, worker) /\ ClosingInv
           /\ DOMAIN obj = Objs /\ \A p \in Objs : IsWatch(obj[p])
           /\ worker.pc \notin Holding => worker.cur \notin Objs
           /\ worker.pc \in Holding => worker.cur \in Objs
           /\ worker.rest \in Seq(Entries)
BY Parts DEF Memory, Watches, WorkerOK, Workers
LEMMA NobodyWorks ==
    ASSUME NEW p \in {"none", "reclaim", "wait", "test", "ended"}
    PROVE  LET v == [pc |-> p, cur |-> Nobody, rest |-> << >>]
           IN v \in Workers /\ v.cur = Nobody /\ v.pc = p /\ v.pc \notin Holding /\ WorkerOK(v)
BY Win32Assumption DEF Workers, Holding, WorkerOK
LEMMA SameAlike ==
    ASSUME NEW a, NEW b, IsWatch(a), Same(a, b) PROVE Alike(a, b)
BY DEF Same, Alike, IsWatch

LEMMA ReclaimKeeps ==
    ASSUME IInv, reclaim PROVE IInv'
<1>1. /\ at' = at /\ ops' = ops /\ port' = port /\ mInitOK' = mInitOK /\ closing' = closing
      /\ worker.pc = "reclaim" /\ obj' = releaseRetiredWatches(obj)
      /\ \E p \in {"wait", "test"} : worker' = [pc |-> p, cur |-> Nobody, rest |-> << >>]
  BY DEF reclaim, Go
<1>2. RestOK /\ Memory(obj, port, worker) /\ worker.cur \notin Objs
  BY <1>1, WorkerFacts DEF Holding
<1>3. Memory(obj', port, worker)
  BY <1>1, <1>2, MemoryReleased
<1>4. worker' \in Workers /\ worker'.cur = Nobody /\ worker'.pc \notin Holding
  BY <1>1, NobodyWorks
<1>5. Memory(obj', port, worker')
  BY <1>2, <1>3, <1>4, MemoryNobody
<1>6. \A o \in Objs : obj'[o].st = "live" => obj[o].st = "live"
  <2>1. ASSUME NEW o \in Objs PROVE obj'[o] = obj[o] \/ obj'[o] = [obj[o] EXCEPT !.st = "freed"]
    BY <1>1 DEF releaseRetiredWatches, DestroyWatch
  <2>2. \A o \in Objs : IsWatch(obj[o])
    BY WorkerFacts
  <2> QED  BY <2>1, <2>2 DEF IsWatch, Fields
<1>7. ClosingInv'
  BY <1>1, <1>6, ClosingKept
<1>8. RestOK'
  BY <1>1, <1>2 DEF RestOK
<1> QED  BY <1>1, <1>5, <1>7, <1>8, Parts

LEMMA TakeKeeps ==
    ASSUME IInv, takeCompletion PROVE IInv'
<1>1. /\ at' = at /\ ops' = ops /\ obj' = obj /\ mInitOK' = mInitOK /\ closing' = closing
      /\ worker.pc = "wait" /\ port # << >> /\ port' = Tail(port)
      /\ worker' = IF Head(port).obj = Nobody THEN [pc |-> "test", cur |-> Nobody, rest |-> << >>]
                   ELSE [pc |-> "got", cur |-> Head(port).obj, rest |-> Head(port).entries]
  BY DEF takeCompletion, Go
<1>2. RestOK /\ Memory(obj, port, worker) /\ port \in Seq(Packets)
      /\ \A i, j \in DOMAIN port : port[i].obj = port[j].obj => i = j
  BY WorkerFacts DEF Memory, OnePlace
<1>3. Memory(obj, Tail(port), worker')
  BY <1>1, <1>2, MemoryTaken
<1>4. \A i \in DOMAIN Tail(port) : \E j \in DOMAIN port : Tail(port)[i] = port[j]
  BY <1>1, <1>2, PacketTaken
<1>5. ClosingInv'
  BY <1>1, <1>4, ClosingKept
<1>6. RestOK'
  BY <1>1, <1>2 DEF RestOK
<1> QED  BY <1>1, <1>3, <1>5, <1>6, Parts

LEMMA TimedOutKeeps ==
    ASSUME IInv, timedOut PROVE IInv'
<1>1. /\ at' = at /\ ops' = ops /\ port' = port /\ mInitOK' = mInitOK /\ closing' = closing
      /\ worker.pc = "wait" /\ worker' = [pc |-> "test", cur |-> Nobody, rest |-> << >>]
      /\ obj' = [o \in Objs |-> IF o \in mWatches THEN FlushPendingMoves(obj[o]) ELSE obj[o]]
  BY DEF timedOut, Go
<1>2. /\ RestOK /\ Memory(obj, port, worker) /\ WorkerOK(worker) /\ worker.cur \notin Objs
      /\ \A o \in Objs : IsWatch(obj[o])
  BY <1>1, WorkerFacts DEF Holding, Memory
<1>3. ASSUME NEW w, IsWatch(w) PROVE Alike(w, FlushPendingMoves(w)) /\ Alike(w, w)
  <2>1. Same(w, FlushPendingMoves(w))
    BY <1>3, FlushKeeps DEF IsWatch
  <2> QED  BY <1>3, <2>1, SameAlike DEF Alike
<1>4. DOMAIN obj' = Objs /\ \A o \in Objs : Alike(obj[o], obj'[o])
  BY <1>1, <1>2, <1>3
<1>5. Memory(obj', port, worker)
  BY <1>2, <1>4, MemoryKept
<1>6. worker' \in Workers /\ worker'.cur = Nobody /\ worker'.pc \notin Holding
  BY <1>1, NobodyWorks
<1>7. Memory(obj', port, worker')
  BY <1>2, <1>5, <1>6, MemoryNobody
<1>8. ClosingInv'
  BY <1>1, <1>4, ClosingKept DEF Alike
<1>9. RestOK'
  BY <1>1, <1>2 DEF RestOK
<1> QED  BY <1>1, <1>7, <1>8, <1>9, Parts

LEMMA HandleKeeps ==
    ASSUME IInv, handleCompletion PROVE IInv'
<1> DEFINE o == worker.cur
           w == [obj[o] EXCEPT !.IoPending = FALSE]
<1>1. /\ at' = at /\ ops' = ops /\ port' = port /\ mInitOK' = mInitOK /\ closing' = closing /\ worker.pc = "got"
  BY DEF handleCompletion
<1>2. /\ RestOK /\ Memory(obj, port, worker) /\ o \in Objs /\ DOMAIN obj = Objs
      /\ IsWatch(obj[o]) /\ worker.rest \in Seq(Entries)
  BY <1>1, WorkerFacts DEF Holding
<1>3. obj[o].st \in {"live", "retired"}
  BY <1>2 DEF Memory, NothingDue, Watches, IsWatch
<1>4. w.st = obj[o].st /\ IsWatch(w) /\ ~w.IoPending /\ w.read = obj[o].read /\ w.StopNow = obj[o].StopNow
  BY <1>2 DEF IsWatch, Fields
<1>5. \E a, v :
        /\ obj' = [obj EXCEPT ![o] = a] /\ worker' = v
        /\ IsWatch(a) /\ ~a.IoPending /\ a.read = obj[o].read /\ a.StopNow = obj[o].StopNow
        /\ WorkerOK(v) /\ v.pc # "got"
        /\ \/ obj[o].st = "retired" /\ a.st = "freed" /\ v.cur = Nobody
           \/ obj[o].st = "live" /\ a.st = "live" /\ v.cur = o
  <2>1. CASE obj[o].st = "retired"
    <3> DEFINE a == DestroyWatch(w)
               v == [pc |-> "test", cur |-> Nobody, rest |-> << >>]
    <3>1. obj' = [obj EXCEPT ![o] = a] /\ worker' = v
      BY <1>4, <2>1 DEF handleCompletion, Go
    <3> HIDE DEF w
    <3>2. IsWatch(a) /\ ~a.IoPending /\ a.read = obj[o].read /\ a.StopNow = obj[o].StopNow /\ a.st = "freed"
      BY <1>4 DEF DestroyWatch, IsWatch, Fields
    <3>3. WorkerOK(v) /\ v.pc # "got" /\ v.cur = Nobody
      BY NobodyWorks
    <3> HIDE DEF a, v
    <3> QED  BY <2>1, <3>1, <3>2, <3>3
  <2>2. CASE obj[o].st = "live" /\ worker.rest # << >>
    <3> DEFINE v == [pc |-> "entries", cur |-> o, rest |-> worker.rest]
    <3>1. obj' = [obj EXCEPT ![o] = w] /\ worker' = v
      BY <1>4, <2>2 DEF handleCompletion, Go
    <3>2. WorkerOK(v) /\ v.pc # "got" /\ v.cur = o
      BY <1>2 DEF WorkerOK, Workers, Holding
    <3> HIDE DEF w, v
    <3> QED  BY <1>4, <2>2, <3>1, <3>2
  <2>3. CASE obj[o].st = "live" /\ worker.rest = << >>
    <3> DEFINE a == [w EXCEPT !.PendingRenames = << >>, !.PendingRemovals = << >>, !.view = Taken]
               v == [pc |-> "refresh", cur |-> o, rest |-> << >>]
    <3>1. obj' = [obj EXCEPT ![o] = a] /\ worker' = v
      BY <1>4, <2>3 DEF handleCompletion, Go
    <3> HIDE DEF w
    <3>2. IsWatch(a) /\ ~a.IoPending /\ a.read = obj[o].read /\ a.StopNow = obj[o].StopNow /\ a.st = obj[o].st
      BY <1>4 DEF IsWatch, Fields
    <3>3. WorkerOK(v) /\ v.pc # "got" /\ v.cur = o
      BY <1>2 DEF WorkerOK, Workers, Holding
    <3> HIDE DEF a, v
    <3> QED  BY <2>3, <3>1, <3>2, <3>3
  <2> QED  BY <1>3, <2>1, <2>2, <2>3
<1>6. PICK a, v :
        /\ obj' = [obj EXCEPT ![o] = a] /\ worker' = v
        /\ IsWatch(a) /\ ~a.IoPending /\ a.read = obj[o].read /\ a.StopNow = obj[o].StopNow
        /\ WorkerOK(v) /\ v.pc # "got"
        /\ \/ obj[o].st = "retired" /\ a.st = "freed" /\ v.cur = Nobody
           \/ obj[o].st = "live" /\ a.st = "live" /\ v.cur = o
  BY <1>5
<1>7. DOMAIN obj' = Objs /\ (\A p \in Objs \ {o} : obj'[p] = obj[p]) /\ obj'[o] = a
  BY <1>2, <1>6
<1>8. Memory(obj', port, v)
  BY <1>1, <1>2, <1>6, <1>7, MemoryHandled
<1>9. \A p \in Objs : obj'[p].st = "live" => obj[p].st = "live"
  BY <1>6, <1>7
<1>10. ClosingInv'
  BY <1>1, <1>9, ClosingKept
<1>11. RestOK'
  BY <1>1, <1>2 DEF RestOK
<1> QED  BY <1>1, <1>6, <1>8, <1>10, <1>11, Parts

LEMMA WatchCallbackKeeps ==
    ASSUME IInv, WatchCallback PROVE IInv'
<1> DEFINE o == worker.cur
           e == Head(worker.rest)
           a == IF o \in Extended THEN WatchCallbackEx(obj[o], e) ELSE WatchCallbackOld(obj[o], e)
<1>1. /\ at' = at /\ ops' = ops /\ port' = port /\ mInitOK' = mInitOK /\ closing' = closing
      /\ worker.pc = "entries" /\ worker.rest # << >> /\ obj' = [obj EXCEPT ![o] = a]
      /\ worker' = [pc |-> "entries", cur |-> o, rest |-> Tail(worker.rest)]
  BY DEF WatchCallback, Go
<1>2. /\ RestOK /\ Memory(obj, port, worker) /\ o \in Objs /\ DOMAIN obj = Objs
      /\ (\A p \in Objs : IsWatch(obj[p])) /\ worker.rest \in Seq(Entries)
  BY <1>1, WorkerFacts DEF Holding
<1>3. e \in Entries /\ Tail(worker.rest) \in Seq(Entries)
  BY <1>1, <1>2
<1>4. Alike(obj[o], a)
  <2>1. Same(obj[o], a)
    BY <1>2, <1>3, CallbackKeeps DEF IsWatch
  <2> HIDE DEF a
  <2> QED  BY <1>2, <2>1, SameAlike
<1> HIDE DEF a
<1>5. DOMAIN obj' = Objs /\ \A p \in Objs : Alike(obj[p], obj'[p])
  BY <1>1, <1>2, <1>4 DEF Alike
<1>6. WorkerOK(worker') /\ worker'.cur = worker.cur /\ (worker'.pc = "got" <=> worker.pc = "got")
  BY <1>1, <1>2, <1>3 DEF WorkerOK, Workers, Holding
<1>7. Memory(obj', port, worker')
  BY <1>2, <1>5, <1>6, MemoryKept
<1>8. ClosingInv'
  BY <1>1, <1>5, ClosingKept DEF Alike
<1>9. RestOK'
  BY <1>1, <1>2 DEF RestOK
<1> QED  BY <1>1, <1>7, <1>8, <1>9, Parts

LEMMA EndEntriesKeeps ==
    ASSUME IInv, endEntries PROVE IInv'
<1>1. /\ at' = at /\ ops' = ops /\ port' = port /\ mInitOK' = mInitOK /\ closing' = closing /\ obj' = obj
      /\ worker.pc = "entries" /\ worker' = [pc |-> "refresh", cur |-> worker.cur, rest |-> << >>]
  BY DEF endEntries, Go
<1>2. /\ RestOK /\ Memory(obj, port, worker) /\ worker.cur \in Objs /\ DOMAIN obj = Objs
      /\ \A p \in Objs : IsWatch(obj[p])
  BY <1>1, WorkerFacts DEF Holding
<1>3. \A p \in Objs : Alike(obj[p], obj[p])
  BY <1>2 DEF Alike
<1>4. WorkerOK(worker') /\ worker'.cur = worker.cur /\ (worker'.pc = "got" <=> worker.pc = "got")
  BY <1>1, <1>2 DEF WorkerOK, Workers, Holding
<1>5. Memory(obj, port, worker')
  BY <1>2, <1>3, <1>4, MemoryKept
<1>6. ClosingInv'
  BY <1>1, ClosingKept
<1>7. RestOK'
  BY <1>1, <1>2 DEF RestOK
<1> QED  BY <1>1, <1>5, <1>6, <1>7, Parts

LEMMA RefreshKeeps ==
    ASSUME IInv, RefreshWatch PROVE IInv'
<1> DEFINE o == worker.cur
<1>1. /\ at' = at /\ ops' = ops /\ port' = port /\ mInitOK' = mInitOK /\ closing' = closing
      /\ worker.pc = "refresh" /\ worker' = [pc |-> "test", cur |-> Nobody, rest |-> << >>]
  BY DEF RefreshWatch, Go
<1>2. /\ RestOK /\ Memory(obj, port, worker) /\ o \in Objs /\ DOMAIN obj = Objs /\ IsWatch(obj[o])
  BY <1>1, WorkerFacts DEF Holding
<1>3. PICK ok \in BOOLEAN :
        /\ ok => ~obj[o].StopNow
        /\ obj' = [obj EXCEPT ![o] = FlushPendingMoves([obj[o] EXCEPT !.IoPending = ok, !.read = ok])]
  BY <1>2 DEF RefreshWatch
<1> DEFINE b == [obj[o] EXCEPT !.IoPending = ok, !.read = ok]
           a == FlushPendingMoves(b)
<1>4. /\ IsWatch(b) /\ b.st = obj[o].st /\ b.StopNow = obj[o].StopNow /\ b.IoPending = ok /\ b.read = ok
  BY <1>2 DEF IsWatch, Fields
<1> HIDE DEF b
<1>5. Same(b, a)
  BY <1>4, FlushKeeps DEF IsWatch
<1> HIDE DEF a
<1>6. DOMAIN obj' = Objs /\ (\A p \in Objs \ {o} : obj'[p] = obj[p]) /\ obj'[o] = a
  BY <1>2, <1>3 DEF a, b
<1>7. /\ IsWatch(a) /\ a.st = obj[o].st /\ a.StopNow = obj[o].StopNow /\ a.read = a.IoPending
      /\ a.read => ~obj[o].StopNow
  BY <1>3, <1>4, <1>5, SameAlike DEF Same, Alike
<1>8. WorkerOK(worker') /\ worker'.pc # "got" /\ worker'.cur = Nobody
  BY <1>1, NobodyWorks
<1>9. Memory(obj', port, worker')
  BY <1>1, <1>2, <1>6, <1>7, <1>8, MemoryRefreshed
<1>10. \A p \in Objs : obj'[p].st = "live" => obj[p].st = "live"
  BY <1>6, <1>7
<1>11. ClosingInv'
  BY <1>1, <1>10, ClosingKept
<1>12. RestOK'
  BY <1>1, <1>2 DEF RestOK
<1> QED  BY <1>1, <1>9, <1>11, <1>12, Parts

\* testInitOK, and the start of the thread.
LEMMA GoesOnKeeps ==
    ASSUME IInv, testInitOK \/ watch PROVE IInv'
<1>1. /\ at' = at /\ ops' = ops /\ port' = port /\ mInitOK' = mInitOK /\ closing' = closing /\ obj' = obj
      /\ worker.pc = "test" \/ (worker.pc = "none" /\ closing = "no")
  BY DEF testInitOK, watch
<1>2. RestOK /\ Memory(obj, port, worker) /\ worker.cur \notin Objs /\ worker \in Workers
  BY <1>1, WorkerFacts DEF Holding, Memory, WorkerOK
<1>3. worker' \in Workers /\ worker'.cur = Nobody /\ worker'.pc \notin Holding
  <2>1. CASE testInitOK
    <3>1. \E p \in {"reclaim", "ended"} : worker' = [pc |-> p, cur |-> Nobody, rest |-> << >>]
      BY <2>1 DEF testInitOK, Go
    <3> QED  BY <3>1, NobodyWorks
  <2>2. CASE watch
    BY <1>2, <2>2, Win32Assumption DEF watch, Workers, Holding
  <2> QED  BY <2>1, <2>2
<1>4. Memory(obj, port, worker')
  BY <1>2, <1>3, MemoryNobody
<1>5. ClosingInv'
  BY <1>1, ClosingKept
<1>6. RestOK'
  BY <1>1, <1>2 DEF RestOK
<1> QED  BY <1>1, <1>4, <1>5, <1>6, Parts

-----------------------------------------------------------------------------
(* The destructor.                                                         *)

LEMMA ClearKeeps ==
    ASSUME IInv, clearInitOK PROVE IInv'
<1>1. /\ UNCHANGED <<at, ops, obj, port, worker>> /\ mInitOK' = FALSE /\ closing = "no" /\ closing' = "remove"
  BY DEF clearInitOK
<1>2. RestOK /\ Memory(obj, port, worker) /\ ClosingInv
  BY WorkerFacts
<1>3. RestOK' /\ ClosingInv'
  BY <1>1, <1>2 DEF RestOK, ClosingInv
<1> QED  BY <1>1, <1>2, <1>3, Parts

LEMMA JoinKeeps ==
    ASSUME IInv, join PROVE IInv'
<1>1. /\ at' = at /\ ops' = ops /\ port' = port /\ worker' = worker /\ mInitOK' = mInitOK
      /\ closing = "join" /\ closing' = "drain" /\ worker.pc \in {"none", "ended"}
      /\ obj' = releaseRetiredWatches(obj)
  BY DEF join
<1>2. RestOK /\ Memory(obj, port, worker) /\ ClosingInv /\ \A o \in Objs : IsWatch(obj[o])
  BY WorkerFacts
<1>3. Memory(obj', port, worker)
  BY <1>1, <1>2, MemoryReleased
<1>4. ASSUME NEW o \in Objs PROVE obj'[o].st # "live"
  <2>1. obj'[o] = obj[o] \/ obj'[o] = [obj[o] EXCEPT !.st = "freed"]
    BY <1>1 DEF releaseRetiredWatches, DestroyWatch
  <2>2. obj[o].st # "live"
    BY <1>1, <1>2 DEF ClosingInv, mWatches
  <2> QED  BY <1>2, <2>1, <2>2 DEF IsWatch, Fields
<1>5. ClosingInv'
  BY <1>1, <1>4 DEF ClosingInv, mWatches
<1>6. RestOK'
  BY <1>1, <1>2 DEF RestOK
<1> QED  BY <1>1, <1>3, <1>5, <1>6, Parts

LEMMA DrainKeeps ==
    ASSUME IInv, drainRetiredWatches PROVE IInv'
<1>1. /\ at' = at /\ ops' = ops /\ worker' = worker /\ mInitOK' = mInitOK /\ closing' = closing
      /\ closing = "drain" /\ port # << >> /\ port' = Tail(port)
      /\ obj' = IF Head(port).obj \in mRetiredWatches
                THEN [obj EXCEPT ![Head(port).obj] = DestroyWatch(obj[Head(port).obj])] ELSE obj
  BY DEF drainRetiredWatches
<1>2. /\ RestOK /\ Memory(obj, port, worker) /\ ClosingInv /\ DOMAIN obj = Objs
      /\ \A o \in Objs : IsWatch(obj[o])
  BY WorkerFacts
<1>3. worker.pc \in {"none", "ended"} /\ worker.cur \notin Objs /\ \A p \in Objs : obj[p].st # "live"
  BY <1>1, <1>2, WorkerFacts DEF ClosingInv, mWatches, Holding
<1>4. obj' = IF Head(port).obj \in {p \in Objs : obj[p].st = "retired"}
             THEN [obj EXCEPT ![Head(port).obj].st = "freed"] ELSE obj
  BY <1>1 DEF mRetiredWatches, DestroyWatch
<1>5. Memory(obj', Tail(port), worker)
  BY <1>1, <1>2, <1>3, <1>4, MemoryDrained
<1>6. ASSUME NEW p \in Objs PROVE obj'[p].st # "live"
  BY <1>2, <1>3, <1>4 DEF IsWatch, Fields
<1>7. ClosingInv'
  BY <1>1, <1>3, <1>6 DEF ClosingInv, mWatches
<1>8. RestOK'
  BY <1>1, <1>2 DEF RestOK
<1> QED  BY <1>1, <1>5, <1>7, <1>8, Parts

LEMMA CloseKeeps ==
    ASSUME IInv, closePort PROVE IInv'
<1>1. UNCHANGED <<at, ops, obj, port, worker, mInitOK>> /\ closing = "drain" /\ closing' = "done"
  BY DEF closePort
<1>2. RestOK /\ Memory(obj, port, worker) /\ ClosingInv
  BY WorkerFacts
<1>3. RestOK' /\ ClosingInv'
  BY <1>1, <1>2 DEF RestOK, ClosingInv, mWatches
<1> QED  BY <1>1, <1>2, <1>3, Parts

-----------------------------------------------------------------------------
(* The invariant holds.                                                    *)

\* The changes of the tree write entries of places.
LEMMA TreeKeeps ==
    ASSUME IInv, NEW f \in Files,
           delete(f) \/ \E place \in Places : create(f, place) \/ move(f, place)
    PROVE  IInv'
<1>1. ASSUME NEW act \in {"ADDED", "REMOVED", "RENAMED_OLD", "RENAMED_NEW"}, NEW place \in Places
      PROVE  Entry(act, place, f) \in Entries
  BY <1>1 DEF Entry, Entries
<1>2. CASE delete(f)
  <2>1. at[f] \in Places /\ Change(f, Gone, <<Entry("REMOVED", at[f], f)>>)
    BY <1>2 DEF delete
  <2>2. <<Entry("REMOVED", at[f], f)>> \in Seq(Entries)
    BY <1>1, <2>1
  <2> QED  BY <2>1, <2>2, ChangeKeeps
<1>3. ASSUME NEW place \in Places, create(f, place) PROVE IInv'
  <2>1. Change(f, place, <<Entry("ADDED", place, f)>>)
    BY <1>3 DEF create
  <2>2. <<Entry("ADDED", place, f)>> \in Seq(Entries)
    BY <1>1
  <2> QED  BY <2>1, <2>2, ChangeKeeps
<1>4. ASSUME NEW place \in Places, move(f, place) PROVE IInv'
  <2> DEFINE e == IF parentPath(place) = parentPath(at[f])
                  THEN <<Entry("RENAMED_OLD", at[f], f), Entry("RENAMED_NEW", place, f)>>
                  ELSE <<Entry("REMOVED", at[f], f), Entry("ADDED", place, f)>>
  <2>1. at[f] \in Places /\ Change(f, place, e)
    BY <1>4 DEF move
  <2>2. e \in Seq(Entries)
    <3>1. /\ Entry("RENAMED_OLD", at[f], f) \in Entries /\ Entry("RENAMED_NEW", place, f) \in Entries
          /\ Entry("REMOVED", at[f], f) \in Entries /\ Entry("ADDED", place, f) \in Entries
      BY <1>1, <2>1
    <3> QED  BY <3>1
  <2> HIDE DEF e
  <2> QED  BY <2>1, <2>2, ChangeKeeps
<1> QED  BY <1>2, <1>3, <1>4

LEMMA RunKeeps ==
    ASSUME IInv, run PROVE IInv'
BY ReclaimKeeps, TakeKeeps, TimedOutKeeps, HandleKeeps, WatchCallbackKeeps, EndEntriesKeeps, RefreshKeeps,
   GoesOnKeeps DEF run

LEMMA NextKeeps == IInv /\ [Next]_vars => IInv'
<1> SUFFICES ASSUME IInv, [Next]_vars PROVE IInv'
  OBVIOUS
<1>1. ASSUME NEW f \in Files, delete(f) \/ \E place \in Places : create(f, place) \/ move(f, place)
      PROVE  IInv'
  BY <1>1, TreeKeeps
<1>2. ASSUME NEW o \in Objs, complete(o) \/ addWatch(o) \/ removeByClient(o) PROVE IInv'
  <2>1. CASE complete(o)
    BY <2>1, CompleteKeeps
  <2>2. CASE addWatch(o)
    BY <2>2, AddKeeps
  <2>3. CASE removeByClient(o)
    BY <2>3, RemoveKeeps DEF removeByClient
  <2> QED  BY <1>2, <2>1, <2>2, <2>3
<1>3. CASE tick
  BY <1>3, TickKeeps
<1>4. CASE watch
  BY <1>4, GoesOnKeeps
<1>5. CASE run
  BY <1>5, RunKeeps
<1>6. CASE removeInCallback
  BY <1>6, RemoveKeeps DEF removeInCallback
<1>7. CASE clearInitOK
  BY <1>7, ClearKeeps
<1>8. CASE destructor
  BY <1>8, RemoveAllKeeps, JoinKeeps, DrainKeeps, CloseKeeps DEF destructor
<1>9. CASE UNCHANGED vars
  <2>1. UNCHANGED <<at, ops, obj, port, worker, mInitOK, closing>>
    BY <1>9 DEF vars
  <2>2. RestOK /\ Memory(obj, port, worker) /\ ClosingInv
    BY WorkerFacts
  <2>3. RestOK' /\ ClosingInv'
    BY <2>1, <2>2 DEF RestOK, ClosingInv, mWatches
  <2> QED  BY <2>1, <2>2, <2>3, Parts
<1> QED  BY <1>1, <1>2, <1>3, <1>4, <1>5, <1>6, <1>7, <1>8, <1>9 DEF Next

\* Every reachable state has values of these types: a watch keeps its record,
\* and a packet names an object or nobody.
THEOREM Win32Types == Spec => []TypeOK
<1>1. IInv => TypeOK
  BY DEF IInv
<1> QED  BY <1>1, InitHolds, NextKeeps, PTL DEF Spec

\* The system writes only to memory that is not freed: a watch stays allocated
\* from its first read to its last completion, whoever removes it and when
\* (FileWatcherWin32.cpp:144-172, 200-204, 302-337).
THEOREM NoWriteAfterFree == Spec => []IoMemory
<1>1. IInv => IoMemory
  BY DEF IInv, Memory, OnePlace, NothingDue, FlagInv, IoMemory
<1> QED  BY <1>1, InitHolds, NextKeeps, PTL DEF Spec

=============================================================================
