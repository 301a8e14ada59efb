--------------------------- MODULE GenericWatchProofs ---------------------------
(***************************************************************************)
(* Proofs about GenericWatch: that a scan works on a list nobody changes,  *)
(* and that the listener of every watch is a live one of its own handle.   *)
(*                                                                         *)
(* The argument.  mWatchesLock is held exactly while a thread is between   *)
(* lockWatches and endPass, and every change of the list of a handle that  *)
(* is not destroyed needs it, so that iterator and current watch stay in   *)
(* the list.  The registry is shared, but an entry of a handle is only made*)
(* by a call to that handle and only removed by its release: what          *)
(* find_callback said is still so when newCallback acts on it, and the     *)
(* listener is still registered when the watch is made.                    *)
(***************************************************************************)
EXTENDS GenericWatch, FiniteSetTheorems, SequenceTheorems, WellFoundedInduction, TLAPS

-----------------------------------------------------------------------------
(* The inductive invariant.                                                *)

Listeners == Nat \ {0}
Callbacks == [watcher : Handles, key : Keys, obj : Listeners]
WatchList == Seq([id : Nat, dir : Dirs, listener : Nat])
Calls ==
    {Idle}
        \cup [op : {"new", "add", "push"}, dir : Dirs, key : Keys, listener : Nat]
        \cup [op : {"erase"}, at : Nat]
        \cup [op : {"stop", "join"}]
Workers ==
    [pc : {"none", "lock", "scan", "callback", "test", "ended"}, it : Nat,
     cur : {None} \cup [id : Nat, dir : Dirs, listener : Nat]]

TypeOK ==
    /\ registry \in Seq(Callbacks)
    /\ alive \in SUBSET Listeners /\ IsFiniteSet(alive)
    /\ lives \in [Handles -> {"none", "open"}]
    /\ mWatches \in [Handles -> WatchList]
    /\ mLastWatchID \in [Handles -> Nat]
    /\ mInitOK \in [Handles -> BOOLEAN]
    /\ mutex \in [Handles -> {"free", "worker"}]
    /\ call \in [Handles -> Calls]
    /\ worker \in [Handles -> Workers]

\* The lock is held during a pass, and the pass is within the list.
ScanInv ==
    \A h \in Handles :
        /\ mutex[h] = "worker" <=> InScan(h)
        /\ InScan(h) => worker[h].it \in 1..(Len(mWatches[h]) + 1)
        /\ worker[h].pc = "scan" => worker[h].cur = None
        /\ worker[h].pc = "callback" =>
            /\ worker[h].it \in 1..Len(mWatches[h])
            /\ worker[h].cur = mWatches[h][worker[h].it]

\* What a removal found is still there.
EraseInv == \A h \in Handles : At(h, "erase") => call[h].at \in 1..Len(mWatches[h])

\* The registry: live listeners, one for each callback and parameter of a handle.
RegistryInv ==
    /\ \A i \in 1..Len(registry) : registry[i].obj \in alive
    /\ \A i, j \in 1..Len(registry) : i # j =>
        /\ registry[i].obj # registry[j].obj
        /\ <<registry[i].watcher, registry[i].key>> # <<registry[j].watcher, registry[j].key>>

Registered(h, l) == \E j \in 1..Len(registry) : registry[j].watcher = h /\ registry[j].obj = l

\* What an addwatch under way found in the registry.
AddInv ==
    \A h \in Handles :
        /\ At(h, "new") => \A j \in 1..Len(registry) :
                registry[j].watcher = h => registry[j].key # call[h].key
        /\ At(h, "add") \/ At(h, "push") => Registered(h, call[h].listener)

OwnedInv ==
    \A h \in Handles : ~(At(h, "stop") \/ At(h, "join")) =>
        \A i \in 1..Len(mWatches[h]) : Registered(h, mWatches[h][i].listener)

IInv == TypeOK /\ ScanInv /\ EraseInv /\ RegistryInv /\ AddInv /\ OwnedInv

-----------------------------------------------------------------------------
(* Lists.                                                                  *)

\* A set of numbers that is not empty has a least element.
LEMMA NatMin ==
    ASSUME NEW S \in SUBSET Nat, S # {}
    PROVE  \E i \in S : \A j \in S : i <= j
<1> DEFINE R == {ss \in Nat \X Nat : ss[1] < ss[2]}
<1>1. IsWellFoundedOn(R, Nat)
  BY NatLessThanWellFounded, Zenon DEF OpToRel
<1>2. PICK x \in S : \A y \in S : ~(<<y, x>> \in R)
  <2> HIDE DEF R
  <2> QED  BY <1>1, WFMin
<1>3. \A y \in S : ~(y < x)
  BY <1>2
<1> QED  BY <1>3

\* A list without its i-th element has the others, in their order.
LEMMA RemoveAtList ==
    ASSUME NEW S, NEW s \in Seq(S), NEW i \in 1..Len(s)
    PROVE  /\ RemoveAt(s, i) \in Seq(S) /\ Len(RemoveAt(s, i)) = Len(s) - 1
           /\ \A k \in 1..(Len(s) - 1) : RemoveAt(s, i)[k] = IF k < i THEN s[k] ELSE s[k + 1]
<1> DEFINE p == SubSeq(s, 1, i - 1)
           q == SubSeq(s, i + 1, Len(s))
<1>1. p \in Seq(S) /\ Len(p) = i - 1 /\ \A k \in 1..(i - 1) : p[k] = s[k]
  BY SubSeqProperties
<1>2. q \in Seq(S) /\ Len(q) = Len(s) - i /\ \A k \in 1..(Len(s) - i) : q[k] = s[k + i]
  BY SubSeqProperties
<1> HIDE DEF p, q
<1>3. /\ p \o q \in Seq(S) /\ Len(p \o q) = Len(p) + Len(q)
      /\ \A k \in 1..(Len(p) + Len(q)) :
            (p \o q)[k] = IF k <= Len(p) THEN p[k] ELSE q[k - Len(p)]
  BY <1>1, <1>2, ConcatProperties
<1>4. Len(s) \in Nat /\ Len(p) + Len(q) = Len(s) - 1
  BY <1>1, <1>2
<1>5. ASSUME NEW k \in 1..(Len(s) - 1)
      PROVE  (p \o q)[k] = IF k < i THEN s[k] ELSE s[k + 1]
  <2>1. CASE k < i
    BY <1>1, <1>3, <1>4, <2>1
  <2>2. CASE ~(k < i)
    <3>1. (p \o q)[k] = q[k - (i - 1)]
      BY <1>1, <1>3, <1>4, <2>2
    <3>2. k - (i - 1) \in 1..(Len(s) - i) /\ (k - (i - 1)) + i = k + 1
      BY <1>4, <2>2
    <3> QED  BY <1>2, <2>2, <3>1, <3>2
  <2> QED  BY <2>1, <2>2
<1> QED  BY <1>3, <1>4, <1>5 DEF RemoveAt, p, q

\* The first element is one of them.
LEMMA FirstIn ==
    ASSUME NEW hits \in SUBSET (Nat \ {0})
    PROVE  First(hits) \in hits \cup {0} /\ (First(hits) = 0 <=> hits = {})
<1>1. CASE hits = {}
  BY <1>1 DEF First
<1>2. CASE hits # {}
  <2>1. \E i \in hits : \A j \in hits : i <= j
    BY <1>2, NatMin
  <2>2. First(hits) = CHOOSE i \in hits : \A j \in hits : i <= j
    BY <1>2 DEF First
  <2>3. First(hits) \in hits
    BY <2>1, <2>2
  <2> QED  BY <1>2, <2>3
<1> QED  BY <1>1, <1>2

\* find_callback finds the listener of the handle and key, if there is one.
LEMMA FindCallback ==
    ASSUME TypeOK, NEW h \in Handles, NEW key
    PROVE  \/ /\ find_callback(h, key) = 0
              /\ \A j \in 1..Len(registry) : registry[j].watcher = h => registry[j].key # key
           \/ \E j \in 1..Len(registry) :
                /\ registry[j].watcher = h
                /\ find_callback(h, key) = registry[j].obj /\ registry[j].obj \in Listeners
<1> DEFINE Hits == {j \in DOMAIN registry : registry[j].watcher = h /\ registry[j].key = key}
<1>1. First(Hits) \in Hits \cup {0} /\ (First(Hits) = 0 <=> Hits = {})
  BY FirstIn DEF TypeOK
<1>2. find_callback(h, key) = IF First(Hits) = 0 THEN 0 ELSE registry[First(Hits)].obj
  BY DEF find_callback
<1>3. /\ DOMAIN registry = 1..Len(registry)
      /\ \A j \in 1..Len(registry) : registry[j].obj \in Listeners
  <2>1. registry \in Seq(Callbacks)
    BY DEF TypeOK
  <2>2. \A j \in 1..Len(registry) : registry[j] \in Callbacks
    BY <2>1, ElementOfSeq
  <2> QED  BY <2>1, <2>2, LenProperties DEF Callbacks
<1> HIDE DEF Hits
<1>4. (find_callback(h, key) = 0 /\ Hits = {}) \/ \E j \in Hits : find_callback(h, key) = registry[j].obj
  BY <1>1, <1>2
<1> QED  BY <1>3, <1>4 DEF Hits

\* A number for the listener that is made: alive is finite.
LEMMA NewListener ==
    ASSUME TypeOK
    PROVE  LET l == CHOOSE n \in 1..(Cardinality(alive) + 1) : n \notin alive
           IN l \in Listeners /\ l \notin alive
<1> DEFINE N == Cardinality(alive)
<1>1. N \in Nat /\ IsFiniteSet(alive)
  BY FS_CardinalityType DEF TypeOK
<1>2. Cardinality(1..(N + 1)) = N + 1
  BY <1>1, FS_Interval
<1>3. ~(1..(N + 1) \subseteq alive)
  <2> SUFFICES ASSUME 1..(N + 1) \subseteq alive  PROVE FALSE
    OBVIOUS
  <2>1. Cardinality(1..(N + 1)) <= N
    BY <1>1, FS_Subset
  <2> QED  BY <1>1, <1>2, <2>1
<1>4. \E n \in 1..(N + 1) : n \notin alive
  BY <1>3
<1> QED  BY <1>1, <1>4 DEF Listeners

-----------------------------------------------------------------------------
(* Calls and threads.                                                      *)

\* The calls a client can be in.
LEMMA CallTypes ==
    /\ Idle \in Calls /\ [op |-> "stop"] \in Calls /\ [op |-> "join"] \in Calls
    /\ \A i \in Nat : [op |-> "erase", at |-> i] \in Calls
    /\ \A op \in {"new", "add", "push"}, dir \in Dirs, key \in Keys, l \in Nat :
        [op |-> op, dir |-> dir, key |-> key, listener |-> l] \in Calls
BY DEF Calls

\* The parts of an addwatch under way.
LEMMA AddCall ==
    ASSUME TypeOK, NEW h \in Handles, At(h, "new") \/ At(h, "add") \/ At(h, "push")
    PROVE  call[h] \in [op : {"new", "add", "push"}, dir : Dirs, key : Keys, listener : Nat]
BY SMTT(30) DEF TypeOK, Calls, Idle, At

\* A step of a call changes the call of its handle, and nothing else of it.
LEMMA GotoType ==
    ASSUME TypeOK, NEW h \in Handles, NEW c \in Calls, Goto(h, c)
    PROVE  call' \in [Handles -> Calls]
BY DEF TypeOK, Goto

\* Two fields of a thread change.
LEMMA WorkerType ==
    ASSUME TypeOK, NEW h \in Handles, NEW w \in Workers, worker' = [worker EXCEPT ![h] = w]
    PROVE  worker' \in [Handles -> Workers]
BY DEF TypeOK

\* A release takes one entry of its handle out of the registry, or none.
LEMMA RemoveCallback ==
    ASSUME IInv, NEW h \in Handles, remove_callback(h)
    PROVE  /\ registry' \in Seq(Callbacks) /\ alive' \in SUBSET Listeners /\ IsFiniteSet(alive')
           /\ RegistryInv'
           /\ \A g \in Handles \ {h} : \A l : Registered(g, l) => Registered(g, l)'
           /\ \A j \in 1..Len(registry') : \E k \in 1..Len(registry) : registry'[j] = registry[k]
<1> DEFINE Hits == {j \in DOMAIN registry : registry[j].watcher = h}
           i == First(Hits)
<1>1. i \in Hits \cup {0} /\ registry \in Seq(Callbacks) /\ DOMAIN registry = 1..Len(registry)
  BY FirstIn DEF IInv, TypeOK
<1>2. IF i = 0 THEN UNCHANGED capi
      ELSE alive' = alive \ {registry[i].obj} /\ registry' = RemoveAt(registry, i)
  BY DEF remove_callback
<1> HIDE DEF i
<1>3. CASE i = 0
  BY <1>2, <1>3 DEF IInv, TypeOK, RegistryInv, Registered, capi
<1>4. CASE i # 0
  <2>1. i \in 1..Len(registry) /\ registry[i].watcher = h /\ Len(registry) \in Nat
    BY <1>1, <1>4
  <2>2. /\ registry' \in Seq(Callbacks) /\ Len(registry') = Len(registry) - 1
        /\ \A k \in 1..(Len(registry) - 1) :
            registry'[k] = IF k < i THEN registry[k] ELSE registry[k + 1]
    BY <1>1, <1>2, <1>4, <2>1, RemoveAtList, ZenonT(30)
  <2>3. alive' \in SUBSET Listeners /\ IsFiniteSet(alive')
    <3>1. alive \in SUBSET Listeners /\ IsFiniteSet(alive) /\ alive' = alive \ {registry[i].obj}
      BY <1>2, <1>4 DEF IInv, TypeOK
    <3> QED  BY <3>1, FS_RemoveElement
  <2> DEFINE At0(k) == IF k < i THEN k ELSE k + 1
  <2>4. \A k \in 1..Len(registry') :
            At0(k) \in 1..Len(registry) \ {i} /\ registry'[k] = registry[At0(k)]
    BY <2>1, <2>2
  <2>5. \A k, m \in 1..Len(registry') : k # m => At0(k) # At0(m)
    BY <2>1, <2>2
  <2>6. \A j \in 1..Len(registry) \ {i} : \E k \in 1..Len(registry') : j = At0(k)
    <3>1. SUFFICES ASSUME NEW j \in 1..Len(registry) \ {i}
                   PROVE  \E k \in 1..Len(registry') : j = At0(k)
      OBVIOUS
    <3>2. CASE j < i
      BY <2>1, <2>2, <3>2
    <3>3. CASE j > i
      <4>1. j - 1 \in 1..Len(registry') /\ j = At0(j - 1)
        BY <2>1, <2>2, <3>3
      <4> QED  BY <4>1
    <3> QED  BY <2>1, <3>2, <3>3
  <2> HIDE DEF At0
  <2>7. RegistryInv'
    <3>1. \A k \in 1..Len(registry') : registry'[k].obj \in alive'
      <4>1. alive' = alive \ {registry[i].obj}
        BY <1>2, <1>4
      <4> QED  BY <2>1, <2>4, <4>1 DEF IInv, RegistryInv
    <3>2. \A k, m \in 1..Len(registry') : k # m =>
            /\ registry'[k].obj # registry'[m].obj
            /\ <<registry'[k].watcher, registry'[k].key>> # <<registry'[m].watcher, registry'[m].key>>
      BY <2>4, <2>5 DEF IInv, RegistryInv
    <3> QED  BY <3>1, <3>2 DEF RegistryInv
  <2>8. \A g \in Handles \ {h} : \A l : Registered(g, l) => Registered(g, l)'
    BY <2>1, <2>4, <2>6 DEF Registered
  <2> QED  BY <2>2, <2>3, <2>4, <2>7, <2>8
<1> QED  BY <1>3, <1>4

-----------------------------------------------------------------------------
(* One lemma for each action: it preserves the invariant.                   *)

\* A handle begins with no watches and no thread.
LEMMA StepCreate ==
    ASSUME IInv, NEW h \in Handles, efsw_create(h)
    PROVE  IInv'
<1>1. TypeOK'
  BY DEF IInv, TypeOK, efsw_create, At, capi, Listeners
<1>2. (ScanInv /\ EraseInv /\ RegistryInv /\ AddInv /\ OwnedInv)'
  BY DEF IInv, ScanInv, efsw_create, At, capi, InScan, None, EraseInv, RegistryInv, AddInv,
      Registered, OwnedInv
<1> QED  BY <1>1, <1>2 DEF IInv

\* An addwatch looks for the listener of its callback; only its own handle can
\* change the answer.
LEMMA StepAddWatchCall ==
    ASSUME IInv, NEW h \in Handles, NEW dir \in Dirs, NEW key \in Keys, efsw_addwatch(h,
           dir, key)
    PROVE  IInv'
<1>1. TypeOK'
  <2> DEFINE l == find_callback(h, key)
  <2>1. l \in Nat
    BY FindCallback DEF IInv, Listeners
  <2>2. [op |-> IF l = 0 THEN "new" ELSE "add", dir |-> dir, key |-> key, listener |-> l] \in Calls
    BY CallTypes, <2>1
  <2>3. call' \in [Handles -> Calls]
    BY GotoType, <2>2 DEF IInv, efsw_addwatch
  <2> QED  BY <2>3 DEF IInv, TypeOK, efsw_addwatch, capi, impl
<1>2. EraseInv'
  BY DEF IInv, EraseInv, efsw_addwatch, At, Goto, capi, impl
<1>3. AddInv'
  <2> DEFINE l == find_callback(h, key)
  <2>1. call' = [call EXCEPT ![h] =
            [op |-> IF l = 0 THEN "new" ELSE "add", dir |-> dir, key |-> key, listener |-> l]]
    BY DEF efsw_addwatch, Goto
  <2>2. l = 0 => \A j \in 1..Len(registry) : registry[j].watcher = h => registry[j].key # key
    BY FindCallback DEF IInv, Listeners
  <2>3. l # 0 => Registered(h, l)
    BY FindCallback DEF IInv, Registered
  <2> HIDE DEF l
  <2> QED  BY <2>1, <2>2, <2>3 DEF IInv, TypeOK, AddInv, Registered, At, efsw_addwatch, capi
<1>4. OwnedInv'
  BY DEF IInv, OwnedInv, efsw_addwatch, At, Goto, capi, impl, Registered
<1>5. (ScanInv /\ RegistryInv)'
  BY DEF IInv, ScanInv, efsw_addwatch, At, Goto, capi, impl, InScan, None, RegistryInv
<1> QED  BY <1>1, <1>2, <1>3, <1>4, <1>5 DEF IInv

\* The listener that is made is a new one, and its callback has no other.
LEMMA StepNewCallback ==
    ASSUME IInv, NEW h \in Handles, newCallback(h)
    PROVE  IInv'
<1>1. TypeOK'
  <2> DEFINE l == CHOOSE n \in 1..(Cardinality(alive) + 1) : n \notin alive
             r == [watcher |-> h, key |-> call[h].key, obj |-> l]
  <2>1. /\ registry' = Append(registry, r) /\ alive' = alive \cup {l}
        /\ call' = [call EXCEPT ![h] = [call[h] EXCEPT !.op = "add", !.listener = l]]
    BY DEF newCallback, Goto
  <2>2. l \in Listeners /\ l \notin alive
    BY NewListener DEF IInv
  <2>3. call[h] \in [op : {"new", "add", "push"}, dir : Dirs, key : Keys, listener : Nat]
    BY AddCall DEF IInv, newCallback
  <2> HIDE DEF l
  <2>4. registry' \in Seq(Callbacks)
    BY <2>1, <2>2, <2>3 DEF IInv, TypeOK, Callbacks
  <2>5. alive' \in SUBSET Listeners /\ IsFiniteSet(alive')
    BY <2>1, <2>2, FS_AddElement DEF IInv, TypeOK
  <2>6. [call[h] EXCEPT !.op = "add", !.listener = l] \in Calls
    <3>1. l \in Nat
      BY <2>2 DEF Listeners
    <3> QED  BY <2>3, <3>1 DEF Calls
  <2>7. call' \in [Handles -> Calls]
    BY <2>1, <2>6 DEF IInv, TypeOK
  <2> QED  BY <2>4, <2>5, <2>7 DEF IInv, TypeOK, newCallback, impl
<1>2. EraseInv'
  BY DEF IInv, EraseInv, newCallback, At, Goto, impl
<1>3. RegistryInv'
  <2> DEFINE l == CHOOSE n \in 1..(Cardinality(alive) + 1) : n \notin alive
             r == [watcher |-> h, key |-> call[h].key, obj |-> l]
  <2>1. /\ registry' = Append(registry, r) /\ alive' = alive \cup {l}
        /\ call' = [call EXCEPT ![h] = [call[h] EXCEPT !.op = "add", !.listener = l]]
    BY DEF newCallback, Goto
  <2>2. l \in Listeners /\ l \notin alive
    BY NewListener DEF IInv
  <2>3. call[h] \in [op : {"new", "add", "push"}, dir : Dirs, key : Keys, listener : Nat]
    BY AddCall DEF IInv, newCallback
  <2> HIDE DEF l
  <2>4. /\ registry \in Seq(Callbacks) /\ r \in Callbacks /\ Len(registry') = Len(registry) + 1
        /\ \A j \in 1..Len(registry) : registry'[j] = registry[j]
        /\ registry'[Len(registry) + 1] = r /\ Len(registry) \in Nat
    BY <2>1, <2>2, <2>3 DEF IInv, TypeOK, Callbacks
  <2>5. \A j \in 1..Len(registry) : registry[j].obj # l
    BY <2>2 DEF IInv, RegistryInv
  <2>6. \A j \in 1..Len(registry) : registry[j].watcher = h => registry[j].key # call[h].key
    BY DEF IInv, AddInv, newCallback
  <2> QED  BY <2>1, <2>4, <2>5, <2>6 DEF IInv, RegistryInv
<1>4. AddInv'
  <2> DEFINE l == CHOOSE n \in 1..(Cardinality(alive) + 1) : n \notin alive
             r == [watcher |-> h, key |-> call[h].key, obj |-> l]
  <2>1. /\ registry' = Append(registry, r) /\ alive' = alive \cup {l}
        /\ call' = [call EXCEPT ![h] = [call[h] EXCEPT !.op = "add", !.listener = l]]
    BY DEF newCallback, Goto
  <2>2. l \in Listeners /\ l \notin alive
    BY NewListener DEF IInv
  <2>3. call[h] \in [op : {"new", "add", "push"}, dir : Dirs, key : Keys, listener : Nat]
    BY AddCall DEF IInv, newCallback
  <2> HIDE DEF l
  <2>4. /\ registry \in Seq(Callbacks) /\ r \in Callbacks /\ Len(registry') = Len(registry) + 1
        /\ \A j \in 1..Len(registry) : registry'[j] = registry[j]
        /\ registry'[Len(registry) + 1] = r /\ Len(registry) \in Nat
    BY <2>1, <2>2, <2>3 DEF IInv, TypeOK, Callbacks
  <2>5. \A g \in Handles : \A k : Registered(g, k) => Registered(g, k)'
    <3>1. \A j \in 1..Len(registry) : j \in 1..Len(registry') /\ registry'[j] = registry[j]
      BY <2>4
    <3> QED  BY <3>1 DEF Registered
  <2>6. \E j \in 1..Len(registry') : registry'[j].watcher = h /\ registry'[j].obj = l
    <3>1. Len(registry') \in 1..Len(registry') /\ registry'[Len(registry')] = r
      BY <2>4
    <3> QED  BY <3>1
  <2>7. /\ call'[h].op = "add" /\ call'[h].listener = l
        /\ \A g \in Handles \ {h} : call'[g] = call[g]
    BY <2>1, <2>3 DEF IInv, TypeOK
  <2>8. ASSUME NEW g \in Handles, At(g, "new")', NEW j \in 1..Len(registry'), registry'[j].watcher = g
        PROVE  registry'[j].key # call'[g].key
    <3>1. g # h /\ call'[g] = call[g]
      BY <2>7, <2>8 DEF At
    <3>2. j \in 1..Len(registry) /\ registry'[j] = registry[j]
      BY <2>4, <2>8, <3>1
    <3> QED  BY <2>8, <3>1, <3>2 DEF IInv, AddInv, At
  <2>9. ASSUME NEW g \in Handles, (At(g, "add") \/ At(g, "push"))'
        PROVE  Registered(g, call[g].listener)'
    <3>1. CASE g = h
      BY <2>6, <2>7, <3>1 DEF Registered
    <3>2. CASE g # h
      BY <2>5, <2>7, <2>9, <3>2 DEF IInv, AddInv, At, Registered
    <3> QED  BY <3>1, <3>2
  <2> QED  BY <2>8, <2>9 DEF AddInv
<1>5. OwnedInv'
  <2> DEFINE l == CHOOSE n \in 1..(Cardinality(alive) + 1) : n \notin alive
             r == [watcher |-> h, key |-> call[h].key, obj |-> l]
  <2>1. /\ registry' = Append(registry, r) /\ alive' = alive \cup {l}
        /\ call' = [call EXCEPT ![h] = [call[h] EXCEPT !.op = "add", !.listener = l]]
    BY DEF newCallback, Goto
  <2>2. l \in Listeners /\ l \notin alive
    BY NewListener DEF IInv
  <2>3. call[h] \in [op : {"new", "add", "push"}, dir : Dirs, key : Keys, listener : Nat]
    BY AddCall DEF IInv, newCallback
  <2> HIDE DEF l
  <2>4. /\ registry \in Seq(Callbacks) /\ r \in Callbacks /\ Len(registry') = Len(registry) + 1
        /\ \A j \in 1..Len(registry) : registry'[j] = registry[j]
        /\ registry'[Len(registry) + 1] = r /\ Len(registry) \in Nat
    BY <2>1, <2>2, <2>3 DEF IInv, TypeOK, Callbacks
  <2>5. \A g \in Handles : \A k : Registered(g, k) => Registered(g, k)'
    <3>1. \A j \in 1..Len(registry) : j \in 1..Len(registry') /\ registry'[j] = registry[j]
      BY <2>4
    <3> QED  BY <3>1 DEF Registered
  <2>6. \A g \in Handles : call'[g].op \in {"stop", "join"} <=> call[g].op \in {"stop", "join"}
    BY <2>1, <2>3 DEF IInv, TypeOK, At, newCallback
  <2> QED  BY <2>5, <2>6 DEF IInv, OwnedInv, At, newCallback, impl
<1>6. ScanInv'
  BY DEF IInv, ScanInv, newCallback, At, Goto, impl, InScan, None
<1> QED  BY <1>1, <1>2, <1>3, <1>4, <1>5, <1>6 DEF IInv

\* A watch gets an id when its directory is not known.
LEMMA StepAddWatch ==
    ASSUME IInv, NEW h \in Handles, addWatch(h)
    PROVE  IInv'
<1>1. TypeOK'
  <2>1. call' \in [Handles -> Calls]
    <3>1. [call[h] EXCEPT !.op = "push"] \in Calls
      BY AddCall DEF IInv, Calls, addWatch
    <3> QED  BY GotoType, CallTypes, <3>1 DEF IInv, addWatch
  <2>2. \/ UNCHANGED mLastWatchID
        \/ mLastWatchID' = [mLastWatchID EXCEPT ![h] = mLastWatchID[h] + 1]
    BY DEF addWatch
  <2> QED  BY <2>1, <2>2 DEF IInv, TypeOK, addWatch, capi
<1>2. EraseInv'
  <2>1. /\ \A g \in Handles \ {h} : call'[g] = call[g]
        /\ \/ call'[h] = Idle
           \/ call'[h].op = "push" /\ call'[h].listener = call[h].listener
        /\ call[h].op = "add"
    <3>1. call[h] \in [op : {"new", "add", "push"}, dir : Dirs, key : Keys, listener : Nat]
      BY AddCall DEF IInv, addWatch
    <3>2. Goto(h, Idle) \/ Goto(h, [call[h] EXCEPT !.op = "push"])
      BY DEF addWatch
    <3>3. call \in [Handles -> Calls] /\ call[h].op = "add"
      BY DEF IInv, TypeOK, At, addWatch
    <3> DEFINE c == [call[h] EXCEPT !.op = "push"]
    <3>4. c.op = "push" /\ c.listener = call[h].listener
      BY <3>1
    <3> HIDE DEF c
    <3>5. call' = [call EXCEPT ![h] = Idle] \/ call' = [call EXCEPT ![h] = c]
      BY <3>2 DEF Goto, c
    <3> QED  BY <3>3, <3>4, <3>5
  <2> QED  BY <2>1 DEF IInv, EraseInv, At, Idle, addWatch
<1>3. AddInv'
  <2>1. /\ \A g \in Handles \ {h} : call'[g] = call[g]
        /\ \/ call'[h] = Idle
           \/ call'[h].op = "push" /\ call'[h].listener = call[h].listener
        /\ call[h].op = "add"
    <3>1. call[h] \in [op : {"new", "add", "push"}, dir : Dirs, key : Keys, listener : Nat]
      BY AddCall DEF IInv, addWatch
    <3>2. Goto(h, Idle) \/ Goto(h, [call[h] EXCEPT !.op = "push"])
      BY DEF addWatch
    <3>3. call \in [Handles -> Calls] /\ call[h].op = "add"
      BY DEF IInv, TypeOK, At, addWatch
    <3> DEFINE c == [call[h] EXCEPT !.op = "push"]
    <3>4. c.op = "push" /\ c.listener = call[h].listener
      BY <3>1
    <3> HIDE DEF c
    <3>5. call' = [call EXCEPT ![h] = Idle] \/ call' = [call EXCEPT ![h] = c]
      BY <3>2 DEF Goto, c
    <3> QED  BY <3>3, <3>4, <3>5
  <2> QED  BY <2>1 DEF IInv, AddInv, Registered, At, Idle, addWatch, capi
<1>4. OwnedInv'
  <2>1. /\ \A g \in Handles \ {h} : call'[g] = call[g]
        /\ \/ call'[h] = Idle
           \/ call'[h].op = "push" /\ call'[h].listener = call[h].listener
        /\ call[h].op = "add"
    <3>1. call[h] \in [op : {"new", "add", "push"}, dir : Dirs, key : Keys, listener : Nat]
      BY AddCall DEF IInv, addWatch
    <3>2. Goto(h, Idle) \/ Goto(h, [call[h] EXCEPT !.op = "push"])
      BY DEF addWatch
    <3>3. call \in [Handles -> Calls] /\ call[h].op = "add"
      BY DEF IInv, TypeOK, At, addWatch
    <3> DEFINE c == [call[h] EXCEPT !.op = "push"]
    <3>4. c.op = "push" /\ c.listener = call[h].listener
      BY <3>1
    <3> HIDE DEF c
    <3>5. call' = [call EXCEPT ![h] = Idle] \/ call' = [call EXCEPT ![h] = c]
      BY <3>2 DEF Goto, c
    <3> QED  BY <3>3, <3>4, <3>5
  <2> QED  BY <2>1 DEF IInv, OwnedInv, Registered, At, Idle, addWatch, capi
<1>5. (ScanInv /\ RegistryInv)'
  BY DEF IInv, ScanInv, addWatch, At, pathInWatches, Goto, Idle, capi, InScan, WatchesOf,
      None, RegistryInv
<1> QED  BY <1>1, <1>2, <1>3, <1>4, <1>5 DEF IInv

\* The watch goes to the end of the list between two passes.
LEMMA StepPushWatch ==
    ASSUME IInv, NEW h \in Handles, pushWatch(h)
    PROVE  IInv'
<1>1. TypeOK'
  <2> DEFINE w == [id |-> mLastWatchID[h], dir |-> call[h].dir, listener |-> call[h].listener]
  <2>1. Append(mWatches[h], w) \in WatchList
    <3>1. w \in [id : Nat, dir : Dirs, listener : Nat]
      BY AddCall DEF IInv, TypeOK, pushWatch
    <3>2. mWatches[h] \in Seq([id : Nat, dir : Dirs, listener : Nat])
      BY DEF IInv, TypeOK, WatchList
    <3> HIDE DEF w
    <3> QED  BY <3>1, <3>2 DEF WatchList
  <2>2. call' \in [Handles -> Calls]
    BY GotoType, CallTypes DEF IInv, pushWatch
  <2> QED  BY <2>1, <2>2 DEF IInv, TypeOK, pushWatch, capi
<1>2. ScanInv'
  BY DEF IInv, ScanInv, pushWatch, At, Goto, Idle, capi, InScan, None
<1>3. EraseInv'
  BY DEF IInv, EraseInv, pushWatch, At, Goto, Idle, capi
<1>4. AddInv'
  BY DEF IInv, AddInv, pushWatch, At, Goto, Idle, capi, Registered
<1>5. OwnedInv'
  <2> DEFINE w == [id |-> mLastWatchID[h], dir |-> call[h].dir, listener |-> call[h].listener]
  <2>1. Registered(h, w.listener)
    BY DEF IInv, AddInv, pushWatch
  <2>2. \A i \in 1..Len(mWatches'[h]) :
            \/ mWatches'[h][i] = w
            \/ i \in 1..Len(mWatches[h]) /\ mWatches'[h][i] = mWatches[h][i]
    <3>1. mWatches'[h] = Append(mWatches[h], w) /\ mWatches[h] \in WatchList
      BY DEF IInv, TypeOK, pushWatch
    <3>2. mWatches[h] \in Seq([id : Nat, dir : Dirs, listener : Nat])
      BY <3>1 DEF WatchList
    <3>3. w \in [id : Nat, dir : Dirs, listener : Nat]
      BY AddCall DEF IInv, TypeOK, pushWatch
    <3> DEFINE s == mWatches[h]
    <3>4. \A i \in 1..Len(Append(s, w)) :
            \/ Append(s, w)[i] = w
            \/ i \in 1..Len(s) /\ Append(s, w)[i] = s[i]
      <4> HIDE DEF s, w
      <4> QED  BY <3>2, <3>3 DEF s
    <3> QED  BY <3>1, <3>4
  <2>3. \A g \in Handles \ {h} : mWatches'[g] = mWatches[g] /\ call'[g] = call[g]
    BY DEF IInv, TypeOK, Goto, pushWatch
  <2>4. ~At(h, "stop") /\ ~At(h, "join")
    BY DEF At, pushWatch
  <2>5. \A g \in Handles : \A l : Registered(g, l)' <=> Registered(g, l)
    BY DEF Registered, pushWatch, capi
  <2> QED  BY <2>1, <2>2, <2>3, <2>4, <2>5 DEF IInv, OwnedInv, At
<1>6. RegistryInv'
  BY DEF IInv, RegistryInv, pushWatch, At, Goto, Idle, capi
<1> QED  BY <1>1, <1>2, <1>3, <1>4, <1>5, <1>6 DEF IInv

\* A removal looks for the watch.
LEMMA StepRemoveWatch ==
    ASSUME IInv, NEW h \in Handles, NEW i \in Nat, i # 0 => i \in 1..Len(mWatches[h]),
           removeWatch(h, i)
    PROVE  IInv'
<1>1. TypeOK'
  <2>1. call' \in [Handles -> Calls]
    BY GotoType, CallTypes DEF IInv, TypeOK, removeWatch
  <2> QED  BY <2>1 DEF IInv, TypeOK, removeWatch, capi, impl
<1>2. EraseInv'
  BY DEF IInv, EraseInv, removeWatch, At, Goto, capi, impl
<1>3. AddInv'
  BY DEF IInv, AddInv, removeWatch, At, Goto, capi, impl, Registered
<1>4. OwnedInv'
  BY DEF IInv, OwnedInv, TypeOK, removeWatch, At, Goto, capi, impl, Registered, Listeners
<1>5. (ScanInv /\ RegistryInv)'
  BY DEF IInv, ScanInv, removeWatch, At, Goto, capi, impl, InScan, None, RegistryInv
<1> QED  BY <1>1, <1>2, <1>3, <1>4, <1>5 DEF IInv

\* The watch that was found is taken out between two passes.
LEMMA StepEraseWatch ==
    ASSUME IInv, NEW h \in Handles, eraseWatch(h)
    PROVE  IInv'
<1>1. TypeOK'
  <2>1. call' \in [Handles -> Calls]
    BY GotoType, CallTypes DEF IInv, TypeOK, eraseWatch
  <2>2. RemoveAt(mWatches[h], call[h].at) \in WatchList
    BY RemoveAtList DEF IInv, TypeOK, EraseInv, WatchList, eraseWatch
  <2> QED  BY <2>1, <2>2 DEF IInv, TypeOK, eraseWatch, capi, impl
<1>2. ScanInv'
  BY DEF IInv, ScanInv, eraseWatch, At, Goto, Idle, capi, InScan, None
<1>3. EraseInv'
  BY DEF IInv, EraseInv, TypeOK, eraseWatch, At, Goto, Idle, capi, Listeners
<1>4. AddInv'
  BY DEF IInv, AddInv, eraseWatch, At, Goto, Idle, capi, Registered
<1>5. OwnedInv'
  <2>1. \A i \in 1..Len(mWatches'[h]) : \E k \in 1..Len(mWatches[h]) :
            mWatches'[h][i] = mWatches[h][k]
    <3>1. mWatches'[h] = RemoveAt(mWatches[h], call[h].at)
      BY DEF IInv, TypeOK, eraseWatch
    <3>2. mWatches[h] \in Seq([id : Nat, dir : Dirs, listener : Nat])
      BY DEF IInv, TypeOK, WatchList
    <3>3. call[h].at \in 1..Len(mWatches[h]) /\ Len(mWatches[h]) \in Nat
      BY <3>2 DEF IInv, EraseInv, eraseWatch
    <3>4. \A k \in 1..(Len(mWatches[h]) - 1) : k \in 1..Len(mWatches[h]) /\ k + 1 \in 1..Len(mWatches[h])
      BY <3>3
    <3> DEFINE s == mWatches[h]
               j == call[h].at
    <3> HIDE DEF s, j
    <3>5. Len(RemoveAt(s, j)) = Len(s) - 1 /\ \A k \in 1..(Len(s) - 1) :
            RemoveAt(s, j)[k] = IF k < j THEN s[k] ELSE s[k + 1]
      BY RemoveAtList, <3>2, <3>3 DEF s, j
    <3>6. \A i \in 1..Len(RemoveAt(s, j)) : \E k \in 1..Len(s) : RemoveAt(s, j)[i] = s[k]
      BY <3>4, <3>5 DEF s
    <3> QED  BY <3>1, <3>6 DEF s, j
  <2>2. \A g \in Handles \ {h} : mWatches'[g] = mWatches[g] /\ call'[g] = call[g]
    BY DEF IInv, TypeOK, Goto, eraseWatch
  <2>3. ~At(h, "stop") /\ ~At(h, "join")
    BY DEF At, eraseWatch
  <2>4. \A g \in Handles : \A l : Registered(g, l)' <=> Registered(g, l)
    BY DEF Registered, eraseWatch, capi
  <2> QED  BY <2>1, <2>2, <2>3, <2>4 DEF IInv, OwnedInv, At
<1>6. RegistryInv'
  BY DEF IInv, RegistryInv, eraseWatch, At, Goto, Idle, capi
<1> QED  BY <1>1, <1>2, <1>3, <1>4, <1>5, <1>6 DEF IInv

\* The thread starts.
LEMMA StepWatch ==
    ASSUME IInv, NEW h \in Handles, efsw_watch(h)
    PROVE  IInv'
<1>1. TypeOK'
  <2>1. worker' \in [Handles -> Workers]
    BY ZenonT(30) DEF IInv, TypeOK, Workers, efsw_watch, watch
  <2> QED  BY <2>1 DEF IInv, TypeOK, efsw_watch, capi, impl
<1>2. ScanInv'
  BY DEF IInv, ScanInv, efsw_watch, At, watch, capi, impl, InScan, None
<1>3. (EraseInv /\ RegistryInv /\ AddInv /\ OwnedInv)'
  BY DEF IInv, EraseInv, efsw_watch, At, watch, capi, impl, RegistryInv, AddInv, Registered,
      OwnedInv
<1> QED  BY <1>1, <1>2, <1>3 DEF IInv

\* A pass begins with the first watch, under the lock.
LEMMA StepLockWatches ==
    ASSUME IInv, NEW h \in Handles, lockWatches(h)
    PROVE  IInv'
<1>1. TypeOK'
  <2>1. worker' \in [Handles -> Workers]
    <3>1. worker[h] \in Workers
      BY DEF IInv, TypeOK
    <3>2. [pc |-> "scan", it |-> 1, cur |-> None] \in Workers
      BY <3>1 DEF Workers, None
    <3> QED  BY WorkerType, <3>2 DEF IInv, lockWatches, Step
  <2> QED  BY <2>1 DEF IInv, TypeOK, lockWatches, capi, impl
<1>2. ScanInv'
  BY DEF IInv, ScanInv, TypeOK, lockWatches, Step, None, capi, impl, InScan, Listeners
<1>3. (EraseInv /\ RegistryInv /\ AddInv /\ OwnedInv)'
  BY DEF IInv, EraseInv, lockWatches, Step, None, capi, impl, At, RegistryInv, AddInv,
      Registered, OwnedInv
<1> QED  BY <1>1, <1>2, <1>3 DEF IInv

\* The listener of the watch under the iterator is called.
LEMMA StepCallListener ==
    ASSUME IInv, NEW h \in Handles, callListener(h)
    PROVE  IInv'
<1>1. TypeOK'
  <2> DEFINE w == mWatches[h][worker[h].it]
  <2>1. worker' \in [Handles -> Workers]
    <3>1. w \in [id : Nat, dir : Dirs, listener : Nat] /\ worker[h] \in Workers
      <4>1. mWatches[h] \in Seq([id : Nat, dir : Dirs, listener : Nat]) /\ worker[h] \in Workers
        BY DEF IInv, TypeOK, WatchList
      <4>2. worker[h].it \in 1..Len(mWatches[h])
        BY <4>1 DEF callListener
      <4> QED  BY <4>1, <4>2, ElementOfSeq
    <3>2. [worker[h] EXCEPT !.pc = "callback", !.cur = w] \in Workers
      BY <3>1 DEF Workers
    <3> QED  BY WorkerType, <3>2 DEF IInv, callListener, Step
  <2> QED  BY <2>1 DEF IInv, TypeOK, callListener, capi, impl
<1>2. ScanInv'
  BY DEF IInv, ScanInv, callListener, Step, capi, impl, InScan, None
<1>3. (EraseInv /\ RegistryInv /\ AddInv /\ OwnedInv)'
  BY DEF IInv, EraseInv, callListener, Step, capi, impl, At, RegistryInv, AddInv,
      Registered, OwnedInv
<1> QED  BY <1>1, <1>2, <1>3 DEF IInv

\* The listener returns.
LEMMA StepReturnListener ==
    ASSUME IInv, NEW h \in Handles, returnListener(h)
    PROVE  IInv'
<1>1. TypeOK'
  <2>1. worker' \in [Handles -> Workers]
    <3>1. worker[h] \in Workers
      BY DEF IInv, TypeOK
    <3>2. [worker[h] EXCEPT !.pc = "scan", !.cur = None] \in Workers
      BY <3>1 DEF Workers, None
    <3> QED  BY WorkerType, <3>2 DEF IInv, returnListener, Step
  <2> QED  BY <2>1 DEF IInv, TypeOK, returnListener, capi, impl
<1>2. ScanInv'
  BY DEF IInv, ScanInv, returnListener, Step, None, capi, impl, InScan
<1>3. (EraseInv /\ RegistryInv /\ AddInv /\ OwnedInv)'
  BY DEF IInv, EraseInv, returnListener, Step, None, capi, impl, At, RegistryInv, AddInv,
      Registered, OwnedInv
<1> QED  BY <1>1, <1>2, <1>3 DEF IInv

\* The pass goes on.
LEMMA StepScanNext ==
    ASSUME IInv, NEW h \in Handles, scanNext(h)
    PROVE  IInv'
<1>1. TypeOK'
  <2>1. worker' \in [Handles -> Workers]
    <3>1. worker[h] \in Workers
      BY DEF IInv, TypeOK
    <3>2. [worker[h] EXCEPT !.it = @ + 1] \in Workers
      BY <3>1 DEF Workers, None
    <3> QED  BY WorkerType, <3>2 DEF IInv, scanNext, Step
  <2> QED  BY <2>1 DEF IInv, TypeOK, scanNext, capi, impl
<1>2. ScanInv'
  <2>1. worker'[h].it = worker[h].it + 1 /\ worker'[h].pc = "scan" /\ worker'[h].cur = worker[h].cur
    BY DEF IInv, TypeOK, Workers, scanNext, Step
  <2>2. worker[h].it \in 1..Len(mWatches[h]) /\ Len(mWatches[h]) \in Nat
    BY DEF IInv, TypeOK, WatchList, scanNext
  <2>3. \A g \in Handles \ {h} : worker'[g] = worker[g]
    BY DEF IInv, TypeOK, scanNext, Step
  <2> QED  BY <2>1, <2>2, <2>3 DEF IInv, ScanInv, InScan, scanNext, Step, impl
<1>3. (EraseInv /\ RegistryInv /\ AddInv /\ OwnedInv)'
  BY DEF IInv, EraseInv, scanNext, Step, capi, impl, At, RegistryInv, AddInv, Registered,
      OwnedInv
<1> QED  BY <1>1, <1>2, <1>3 DEF IInv

\* A pass ends behind the last watch, and gives the lock back.
LEMMA StepEndPass ==
    ASSUME IInv, NEW h \in Handles, endPass(h)
    PROVE  IInv'
<1>1. TypeOK'
  <2>1. worker' \in [Handles -> Workers]
    <3>1. worker[h] \in Workers
      BY DEF IInv, TypeOK
    <3>2. [pc |-> "test", it |-> 0, cur |-> None] \in Workers
      BY <3>1 DEF Workers, None
    <3> QED  BY WorkerType, <3>2 DEF IInv, endPass, Step
  <2> QED  BY <2>1 DEF IInv, TypeOK, endPass, capi, impl
<1>2. ScanInv'
  BY DEF IInv, ScanInv, TypeOK, endPass, Step, None, capi, impl, InScan, Listeners
<1>3. (EraseInv /\ RegistryInv /\ AddInv /\ OwnedInv)'
  BY DEF IInv, EraseInv, endPass, Step, None, capi, impl, At, RegistryInv, AddInv,
      Registered, OwnedInv
<1> QED  BY <1>1, <1>2, <1>3 DEF IInv

\* The thread ends when the destructor has told it to.
LEMMA StepTestInitOK ==
    ASSUME IInv, NEW h \in Handles, testInitOK(h)
    PROVE  IInv'
<1>1. TypeOK'
  <2>1. worker' \in [Handles -> Workers]
    <3>1. worker[h] \in Workers /\ mInitOK[h] \in BOOLEAN
      BY DEF IInv, TypeOK
    <3>2. [worker[h] EXCEPT !.pc = IF mInitOK[h] THEN "lock" ELSE "ended"] \in Workers
      BY <3>1 DEF Workers, None
    <3> QED  BY WorkerType, <3>2 DEF IInv, testInitOK, Step
  <2> QED  BY <2>1 DEF IInv, TypeOK, testInitOK, capi, impl
<1>2. ScanInv'
  BY DEF IInv, ScanInv, testInitOK, Step, capi, impl, InScan, None
<1>3. (EraseInv /\ RegistryInv /\ AddInv /\ OwnedInv)'
  BY DEF IInv, EraseInv, testInitOK, Step, capi, impl, At, RegistryInv, AddInv, Registered,
      OwnedInv
<1> QED  BY <1>1, <1>2, <1>3 DEF IInv

\* A release deletes one listener of its handle, whose watches are not used
\* again.
LEMMA StepRelease ==
    ASSUME IInv, NEW h \in Handles, efsw_release(h)
    PROVE  IInv'
<1>1. TypeOK'
  <2>1. registry' \in Seq(Callbacks) /\ alive' \in SUBSET Listeners /\ IsFiniteSet(alive')
    BY RemoveCallback DEF efsw_release
  <2>2. call' \in [Handles -> Calls]
    BY GotoType, CallTypes DEF IInv, efsw_release
  <2> QED  BY <2>1, <2>2 DEF IInv, TypeOK, efsw_release, impl
<1>2. EraseInv'
  BY DEF IInv, EraseInv, efsw_release, At, remove_callback, Goto, impl, capi
<1>3. RegistryInv'
  BY RemoveCallback DEF efsw_release
<1>4. AddInv'
  <2>1. /\ \A g \in Handles \ {h} : \A l : Registered(g, l) => Registered(g, l)'
        /\ \A j \in 1..Len(registry') : \E k \in 1..Len(registry) : registry'[j] = registry[k]
    BY RemoveCallback DEF efsw_release
  <2>2. call'[h].op = "stop" /\ \A g \in Handles \ {h} : call'[g] = call[g]
    BY DEF IInv, TypeOK, Goto, efsw_release
  <2> QED  BY <2>1, <2>2 DEF IInv, AddInv, At
<1>5. OwnedInv'
  <2>1. /\ \A g \in Handles \ {h} : \A l : Registered(g, l) => Registered(g, l)'
        /\ \A j \in 1..Len(registry') : \E k \in 1..Len(registry) : registry'[j] = registry[k]
    BY RemoveCallback DEF efsw_release
  <2>2. call'[h].op = "stop" /\ \A g \in Handles \ {h} : call'[g] = call[g]
    BY DEF IInv, TypeOK, Goto, efsw_release
  <2> QED  BY <2>1, <2>2 DEF IInv, OwnedInv, At, efsw_release, impl
<1>6. ScanInv'
  BY DEF IInv, ScanInv, efsw_release, At, remove_callback, Goto, impl, capi, InScan, None
<1> QED  BY <1>1, <1>2, <1>3, <1>4, <1>5, <1>6 DEF IInv

\* The destructor tells the thread.
LEMMA StepDestroy ==
    ASSUME IInv, NEW h \in Handles, destroy(h)
    PROVE  IInv'
<1>1. TypeOK'
  <2>1. call' \in [Handles -> Calls]
    BY GotoType, CallTypes DEF IInv, TypeOK, destroy
  <2> QED  BY <2>1 DEF IInv, TypeOK, destroy, capi, impl
<1>2. EraseInv'
  BY DEF IInv, EraseInv, destroy, At, Goto, capi
<1>3. AddInv'
  BY DEF IInv, AddInv, destroy, At, Goto, capi, Registered
<1>4. OwnedInv'
  BY DEF IInv, OwnedInv, destroy, At, Goto, capi, Registered
<1>5. (ScanInv /\ RegistryInv)'
  BY DEF IInv, ScanInv, destroy, At, Goto, capi, InScan, None, RegistryInv
<1> QED  BY <1>1, <1>2, <1>3, <1>4, <1>5 DEF IInv

\* The list is cleared when the thread has ended.
LEMMA StepJoinThread ==
    ASSUME IInv, NEW h \in Handles, joinThread(h)
    PROVE  IInv'
<1>1. TypeOK'
  <2>1. call' \in [Handles -> Calls]
    BY GotoType, CallTypes DEF IInv, TypeOK, joinThread
  <2>2. << >> \in WatchList
    BY DEF WatchList
  <2> QED  BY <2>1, <2>2 DEF IInv, TypeOK, joinThread, capi, impl
<1>2. ScanInv'
  BY DEF IInv, ScanInv, joinThread, At, Goto, Idle, capi, InScan, None
<1>3. EraseInv'
  BY DEF IInv, EraseInv, joinThread, At, Goto, Idle, capi
<1>4. AddInv'
  BY DEF IInv, AddInv, joinThread, At, Goto, Idle, capi, Registered
<1>5. OwnedInv'
  <2>1. mWatches' = [mWatches EXCEPT ![h] = << >>] /\ call' = [call EXCEPT ![h] = Idle] /\ UNCHANGED registry
    BY DEF joinThread, Goto, capi
  <2>2. \A g \in Handles : Len(mWatches'[g]) = 0 \/ (mWatches'[g] = mWatches[g] /\ call'[g] = call[g])
    BY <2>1 DEF IInv, TypeOK
  <2> QED  BY <2>1, <2>2 DEF IInv, OwnedInv, Registered, At
<1>6. RegistryInv'
  BY DEF IInv, RegistryInv, joinThread, At, Goto, Idle, capi
<1> QED  BY <1>1, <1>2, <1>3, <1>4, <1>5, <1>6 DEF IInv

-----------------------------------------------------------------------------
(* The theorems.                                                           *)

\* Nothing is there at first.
LEMMA InitInv == Init => IInv
<1> SUFFICES ASSUME Init PROVE IInv
  OBVIOUS
<1>1. /\ registry \in Seq(Callbacks) /\ Len(registry) = 0
      /\ \A h \in Handles : mWatches[h] = << >> /\ Len(mWatches[h]) = 0
      /\ \A h \in Handles : call[h].op = "idle" /\ worker[h].pc = "none"
  BY DEF Init, Idle
<1>2. TypeOK
  <2>1. Idle \in Calls /\ << >> \in WatchList /\ [pc |-> "none", it |-> 0, cur |-> None] \in Workers
    BY DEF Calls, WatchList, Workers
  <2>2. IsFiniteSet({})
    BY FS_EmptySet
  <2> QED  BY <1>1, <2>1, <2>2 DEF Init, TypeOK
<1>3. ScanInv /\ EraseInv /\ AddInv
  BY <1>1 DEF Init, ScanInv, EraseInv, AddInv, InScan, At
<1>4. RegistryInv /\ OwnedInv
  BY <1>1 DEF RegistryInv, OwnedInv
<1> QED  BY <1>2, <1>3, <1>4 DEF IInv

\* Both removals find the first watch that matches, or none.
LEMMA StepRemovals ==
    ASSUME IInv, NEW h \in Handles,
           \/ \E dir \in Dirs : efsw_removewatch(h, dir)
           \/ \E id \in Ids(h) : efsw_removewatch_byid(h, id)
    PROVE  IInv'
<1>1. \E hits \in SUBSET (1..Len(mWatches[h])) : removeWatch(h, First(hits))
  <2>1. DOMAIN mWatches[h] = 1..Len(mWatches[h])
    BY DEF IInv, TypeOK, WatchList
  <2>2. ASSUME NEW dir \in Dirs, efsw_removewatch(h, dir)
        PROVE  \E hits \in SUBSET (1..Len(mWatches[h])) : removeWatch(h, First(hits))
    BY <2>1, <2>2 DEF efsw_removewatch, WatchesOf
  <2>3. ASSUME NEW id \in Ids(h), efsw_removewatch_byid(h, id)
        PROVE  \E hits \in SUBSET (1..Len(mWatches[h])) : removeWatch(h, First(hits))
    BY <2>1, <2>3 DEF efsw_removewatch_byid
  <2> QED  BY <2>2, <2>3
<1>2. PICK hits \in SUBSET (1..Len(mWatches[h])) : removeWatch(h, First(hits))
  BY <1>1
<1>3. hits \in SUBSET (Nat \ {0}) /\ Len(mWatches[h]) \in Nat
  BY DEF IInv, TypeOK, WatchList
<1> DEFINE i == First(hits)
<1>4. i \in Nat /\ (i # 0 => i \in 1..Len(mWatches[h])) /\ removeWatch(h, i)
  <2>1. i \in hits \cup {0}
    BY <1>3, FirstIn
  <2>2. removeWatch(h, i)
    BY <1>2
  <2> HIDE DEF i
  <2> QED  BY <1>3, <2>1, <2>2
<1> HIDE DEF i
<1> QED  BY <1>4, StepRemoveWatch

\* Every step keeps the invariant.
LEMMA InvStep == IInv /\ [Next]_vars => IInv'
<1> SUFFICES ASSUME IInv, [Next]_vars PROVE IInv'
  OBVIOUS
<1>1. ASSUME NEW h \in Handles, Client(h)  PROVE IInv'
  BY <1>1, StepNewCallback, StepAddWatch, StepPushWatch, StepEraseWatch, StepDestroy,
     StepJoinThread DEF Client
<1>2. ASSUME NEW h \in Handles, Requests(h)  PROVE IInv'
  BY <1>2, StepCreate, StepWatch, StepRelease, StepAddWatchCall, StepRemovals DEF Requests
<1>3. ASSUME NEW h \in Handles, run(h)  PROVE IInv'
  BY <1>3, StepLockWatches, StepCallListener, StepReturnListener, StepScanNext, StepEndPass,
     StepTestInitOK DEF run
<1>4. CASE UNCHANGED vars
  <2>1. TypeOK' /\ ScanInv' /\ EraseInv' /\ RegistryInv'
    BY <1>4 DEF IInv, vars, capi, impl, TypeOK, ScanInv, InScan, EraseInv, At, RegistryInv
  <2>2. AddInv' /\ OwnedInv'
    BY <1>4 DEF IInv, vars, capi, impl, AddInv, OwnedInv, Registered, At
  <2> QED  BY <2>1, <2>2 DEF IInv
<1> QED  BY <1>1, <1>2, <1>3, <1>4 DEF Next

\* The invariant holds, for any number of handles that run side by side.
LEMMA InvHolds == Spec => []IInv
<1> QED  BY InitInv, InvStep, PTL DEF Spec

\* Lists, calls and threads keep their types, for any handles, directories and
\* callbacks, and the listeners that are alive are finitely many.
THEOREM WatchTypes == Spec => []TypeOK
<1>1. IInv => TypeOK
  BY DEF IInv
<1> QED  BY <1>1, InvHolds, PTL

\* The list a thread scans, and the watch whose listener it calls, stay as they
\* are until the pass ends, whatever its clients and other handles do
\* (FileWatcherGeneric::run, removeWatch and the destructor).
THEOREM ScannedStays == Spec => []ScanAlive
<1>1. IInv => ScanAlive
  <2> SUFFICES ASSUME IInv, NEW h \in Handles, InScan(h)
               PROVE  /\ mutex[h] = "worker"
                      /\ worker[h].it <= Len(mWatches[h]) + 1
                      /\ worker[h].cur # None =>
                            /\ worker[h].it \in DOMAIN mWatches[h]
                            /\ mWatches[h][worker[h].it] = worker[h].cur
    BY DEF ScanAlive
  <2>1. DOMAIN mWatches[h] = 1..Len(mWatches[h]) /\ Len(mWatches[h]) \in Nat
    BY DEF IInv, TypeOK, WatchList
  <2> QED  BY <2>1 DEF IInv, ScanInv, InScan
<1> QED  BY <1>1, InvHolds, PTL

\* Every watch of a handle that is not being released has a listener that is
\* registered for that handle and alive, and a callback has one listener,
\* whatever the other handles of the process release (find_callback,
\* remove_callback).
THEOREM ListenersLive == Spec => []ListenersOwned
<1>1. IInv => ListenersOwned
  <2> SUFFICES ASSUME IInv PROVE ListenersOwned
    OBVIOUS
  <2>1. /\ DOMAIN registry = 1..Len(registry)
        /\ \A h \in Handles : DOMAIN mWatches[h] = 1..Len(mWatches[h])
    BY DEF IInv, TypeOK, WatchList
  <2> QED  BY <2>1, SMTT(30) DEF IInv, RegistryInv, OwnedInv, Registered, ListenersOwned
<1> QED  BY <1>1, InvHolds, PTL
=============================================================================
