------------------------------ MODULE AgentProofs ------------------------------
(***************************************************************************)
(* Proofs about Agent: its maps and its FileWatchers agree, no event of a  *)
(* watch is written after its UNWATCH_OK, and no change is lost between    *)
(* the listings the client makes.                                          *)
(***************************************************************************)
EXTENDS AgentInvariant

-----------------------------------------------------------------------------
(* One lemma for each action: it preserves the invariant.                   *)

\* A directory changes: the client does not know it yet, but the watches of
\* that directory have the event.
LEMMA StepChange ==
    ASSUME IInv, Running, NEW path \in Paths, change(path)
    PROVE  IInv'
<1>u. losses' = losses /\ active' = active /\ issued' = issued /\ callback' = callback /\
      watchers' = watchers /\ closing' = closing /\ mpc' = mpc /\ req' = req /\ handled' =
      handled /\ code' = code /\ mWatches' = mWatches /\ mByEfsw' = mByEfsw /\ mOutgoing' =
      mOutgoing /\ mPendingEvents' = mPendingEvents /\ mPendingMissed' = mPendingMissed /\
      mStop' = mStop /\ wpc' = wpc /\ flush' = flush /\ out' = out /\ replied' = replied /\
      ended' = ended /\ client' = client /\ known' = known /\ gone' = gone
  BY DEF change, main, maps, outbox, writer, peer
<1>s. Sent' = Sent
  BY DEF Sent, change, main, maps, outbox, writer, peer
<1>c. /\ changes[path] + 1 \in Nat /\ <<path, changes[path] + 1>> \in Changes
      /\ raw' \in [Keys -> Seq(RawEvents)]
      /\ \A key \in Keys :
           /\ \A i \in 1..Len(raw'[key]) :
               \/ \E j \in 1..Len(raw[key]) : raw'[key][i] = raw[key][j]
               \/ \E w \in active : /\ w.key = key /\ w.path = path /\ raw'[key][i].efsw = Efsw(w)
                                    /\ raw'[key][i].change = <<path, changes[path] + 1>>
           /\ \A j \in 1..Len(raw[key]) : \E i \in 1..Len(raw'[key]) : raw'[key][i] = raw[key][j]
           /\ \A w \in active : w.key = key /\ w.path = path =>
               \E i \in 1..Len(raw'[key]) :
                   raw'[key][i].efsw = Efsw(w) /\ raw'[key][i].change = <<path, changes[path] + 1>>
  BY ChangeCases DEF IInv
<1>m. \A q : Made(q) \subseteq Made(q)'
  BY DEF Made, IInv, WorldTypes, change, main, maps, outbox, writer, peer
<1>w. \A w \in active :
        /\ Efsw(w) \in Efsws /\ Efsw(w).key = w.key /\ Efsw(w).efswId = w.efswId
        /\ w.key \in Keys /\ w.efswId \in Nat /\ w.path \in Paths
  BY ActiveFacts DEF IInv
<1>1. WorldTypes'
  BY DEF IInv, WorldTypes, change
<1>2. BackendTypes'
  BY <1>u, <1>c DEF IInv, BackendTypes
<1>3. RawInv'
  <2> DEFINE More(p) == {p} \X (1..changes'[p])
             Fine(q, e) ==
                /\ e.efsw.key = q
                /\ e.efsw.efswId <= issued[q]
                /\ e.change # Missed =>
                    /\ e.change \in More(e.change[1])
                    /\ \A id \in Ids : mWatches[id] = e.efsw => e.change[1] = client[id].path
                    /\ mpc = "register" /\ Efsw(req) = e.efsw => e.change[1] = client[req.id].path
             c == <<path, changes[path] + 1>>
  <2>0. \A p : Made(p) \subseteq More(p)
    BY <1>m DEF Made
  <2>1. \A q \in Keys : \A i \in 1..Len(raw[q]) : Fine(q, raw[q][i])
    <3> HIDE DEF More
    <3> QED  BY <2>0 DEF IInv, RawInv
  <2>2. c \in More(c[1]) /\ c[1] = path
    <3>1. changes \in [Paths -> Nat] /\ changes' = [changes EXCEPT ![path] = changes[path] + 1]
      BY DEF change, IInv, WorldTypes
    <3>2. changes'[path] = changes[path] + 1 /\ changes[path] + 1 \in 1..(changes[path] + 1)
      BY <3>1
    <3>3. <<path, changes[path] + 1>> \in {path} \X (1..changes'[path])
      BY <3>2
    <3> QED  BY <3>3
  <2> HIDE DEF c
  <2>3. \A x \in active : x.path = path => \A e : e.efsw = Efsw(x) /\ e.change = c => Fine(x.key, e)
    <3> HIDE DEF More
    <3> QED  BY <1>w, <2>2 DEF IInv, PathInv
  <2> HIDE DEF Fine
  <2>4. \A q \in Keys : \A i \in 1..Len(raw'[q]) : Fine(q, raw'[q][i])
    <3> SUFFICES ASSUME NEW q \in Keys, NEW i \in 1..Len(raw'[q]) PROVE Fine(q, raw'[q][i])
      OBVIOUS
    <3>1. \/ \E j \in 1..Len(raw[q]) : raw'[q][i] = raw[q][j]
          \/ \E x \in active : x.key = q /\ x.path = path /\ raw'[q][i].efsw = Efsw(x)
                               /\ raw'[q][i].change = c
      BY <1>c DEF c
    <3> QED  BY <3>1, <2>1, <2>3
  <2> QED  BY <1>u, <2>4 DEF Fine, RawInv, Made
<1>4. ComingInv'
  <2> SUFFICES ASSUME ~gone, Serving, NEW id \in Ids, client[id].state = "watching",
                      NEW c \in Made(client[id].path)'
               PROVE  c \in known[id] \/ Coming(id, c)' \/ Coming(id, Missed)'
    BY <1>u DEF ComingInv, Serving
  <2>1. CASE c \in Made(client[id].path)
    <3>1. c \in known[id] \/ Coming(id, c) \/ Coming(id, Missed)
      BY <2>1 DEF IInv, ComingInv
    <3>2. \A x : Coming(id, x) => Coming(id, x)'
      BY <1>u, <1>s, <1>c DEF Coming
    <3> QED  BY <3>1, <3>2
  <2>2. CASE c \notin Made(client[id].path)
    <3>1. client[id].path = path /\ c = <<path, changes[path] + 1>>
      BY <1>u, <2>2 DEF Made, change, IInv, WorldTypes
    <3>2. mWatches[id] # None
      BY DEF IInv, KnownInv
    <3>3. PICK w \in active : Efsw(w) = mWatches[id]
      BY <3>2 DEF IInv, ActiveInv, Serving
    <3>4. w.path = path /\ w.key \in Keys
      BY <1>w, <3>1, <3>3 DEF IInv, PathInv
    <3>5. \E i \in 1..Len(raw'[w.key]) :
                raw'[w.key][i].efsw = Efsw(w) /\ raw'[w.key][i].change = <<path, changes[path] + 1>>
      BY <1>c, <3>4
    <3> QED  BY <1>u, <3>1, <3>3, <3>4, <3>5 DEF Coming
  <2> QED  BY <2>1, <2>2
<1>5. (MainTypes /\ OutboxTypes /\ WriterTypes /\ PeerTypes /\ RequestInv)'
  BY <1>u DEF IInv, MainTypes, OutboxTypes, WriterTypes, PeerTypes, RequestInv
<1>6. (WriterInv /\ MapInv /\ PendingMapInv /\ ActiveInv /\ PathInv)'
  BY <1>u DEF IInv, WriterInv, Running, MapInv, PendingMapInv, Watching, Unwatching,
      ActiveInv, PathInv
<1>7. (CallbackInv /\ PendingInv)'
  BY <1>u, <1>m DEF IInv, CallbackInv, PendingInv
<1>8. (ReplyInv /\ OkInv)'
  BY <1>u, <1>s DEF IInv, ReplyInv, Watching, OkInv, Serving
<1>9. (ErrorInv /\ LeavingInv)'
  BY <1>u, <1>s DEF IInv, ErrorInv, LeavingInv, Unwatching
<1>10. (BatchInv /\ KnownInv)'
  BY <1>u, <1>m, <1>s DEF IInv, BatchInv, Running, KnownInv, Serving
<1>11. (EndedInv /\ TakenInv)'
  BY <1>u DEF IInv, EndedInv, Running, Unwatched, TakenInv
<1> QED  BY <1>1, <1>2, <1>3, <1>4, <1>5, <1>6, <1>7, <1>8, <1>9, <1>10, <1>11 DEF IInv

\* A native buffer overflows: what is lost was on its way, and the missed
\* event takes its place.
LEMMA StepLose ==
    ASSUME IInv, Running, NEW w \in active, lose(w)
    PROVE  IInv'
<1>u. changes' = changes /\ active' = active /\ issued' = issued /\ callback' = callback /\
      watchers' = watchers /\ closing' = closing /\ mpc' = mpc /\ req' = req /\ handled' =
      handled /\ code' = code /\ mWatches' = mWatches /\ mByEfsw' = mByEfsw /\ mOutgoing' =
      mOutgoing /\ mPendingEvents' = mPendingEvents /\ mPendingMissed' = mPendingMissed /\
      mStop' = mStop /\ wpc' = wpc /\ flush' = flush /\ out' = out /\ replied' = replied /\
      ended' = ended /\ client' = client /\ known' = known /\ gone' = gone
  BY DEF lose, main, maps, outbox, writer, peer
<1>m. \A q : Made(q)' = Made(q)
  BY DEF Made, lose, main, maps, outbox, writer, peer
<1>s. Sent' = Sent
  BY DEF Sent, lose, main, maps, outbox, writer, peer
<1>c. /\ w.key \in Keys /\ Efsw(w) \in Efsws /\ Efsw(w).key = w.key
      /\ w.efswId = Efsw(w).efswId
      /\ raw[w.key] \in Seq(RawEvents)
      /\ \E s \in Seq(RawEvents) :
           /\ raw' = [raw EXCEPT ![w.key] = s]
           /\ \A i \in 1..Len(s) :
               \/ s[i].efsw = Efsw(w) /\ s[i].change = Missed
               \/ \E j \in 1..Len(raw[w.key]) : s[i] = raw[w.key][j]
           /\ \A j \in 1..Len(raw[w.key]) : raw[w.key][j].efsw # Efsw(w) =>
               \E i \in 1..Len(s) : s[i] = raw[w.key][j]
           /\ \E i \in 1..Len(s) : s[i].efsw = Efsw(w) /\ s[i].change = Missed
  BY LoseCases DEF IInv
<1>1. WorldTypes'
  BY DEF IInv, WorldTypes, lose
<1>2. BackendTypes'
  <2>1. raw' \in [Keys -> Seq(RawEvents)]
    BY <1>c, UpdateAt DEF IInv, BackendTypes
  <2> QED  BY <1>u, <2>1 DEF IInv, BackendTypes
<1>3. RawInv'
  <2> DEFINE Fine(q, e) ==
                /\ e.efsw.key = q
                /\ e.efsw.efswId <= issued[q]
                /\ e.change # Missed =>
                    /\ e.change \in Made(e.change[1])
                    /\ \A id \in Ids : mWatches[id] = e.efsw => e.change[1] = client[id].path
                    /\ mpc = "register" /\ Efsw(req) = e.efsw => e.change[1] = client[req.id].path
  <2>1. \A q \in Keys : \A i \in 1..Len(raw[q]) : Fine(q, raw[q][i])
    BY DEF IInv, RawInv
  <2>2. \A e : e.efsw = Efsw(w) /\ e.change = Missed => Fine(w.key, e)
    BY <1>c DEF IInv, PathInv
  <2>3. PICK s \in Seq(RawEvents) :
           /\ raw' = [raw EXCEPT ![w.key] = s]
           /\ \A i \in 1..Len(s) :
               \/ s[i].efsw = Efsw(w) /\ s[i].change = Missed
               \/ \E j \in 1..Len(raw[w.key]) : s[i] = raw[w.key][j]
    BY <1>c
  <2>4. \A q \in Keys : raw'[q] = IF q = w.key THEN s ELSE raw[q]
    BY <1>c, <2>3 DEF IInv, BackendTypes
  <2> HIDE DEF Fine
  <2>5. \A q \in Keys : \A i \in 1..Len(raw'[q]) : Fine(q, raw'[q][i])
    BY <1>c, <2>1, <2>2, <2>3, <2>4
  <2> QED  BY <1>u, <1>m, <2>5 DEF Fine, RawInv
<1>4. ComingInv'
  <2>1. ASSUME NEW id \in Ids, NEW c, Coming(id, c)
        PROVE  Coming(id, c)' \/ Coming(id, Missed)'
    <3>1. PICK s \in Seq(RawEvents) :
           /\ raw' = [raw EXCEPT ![w.key] = s]
           /\ \A j \in 1..Len(raw[w.key]) : raw[w.key][j].efsw # Efsw(w) =>
               \E i \in 1..Len(s) : s[i] = raw[w.key][j]
           /\ \E i \in 1..Len(s) : s[i].efsw = Efsw(w) /\ s[i].change = Missed
      BY <1>c
    <3>2. \A q \in Keys : raw'[q] = IF q = w.key THEN s ELSE raw[q]
      BY <1>c, <3>1 DEF IInv, BackendTypes
    <3>3. CASE \E q \in Keys : \E i \in 1..Len(raw[q]) : raw[q][i].efsw = mWatches[id] /\ raw[q][i].change = c
      <4>1. PICK q \in Keys : \E i \in 1..Len(raw[q]) : raw[q][i].efsw = mWatches[id] /\ raw[q][i].change = c
        BY <3>3
      <4>2. CASE q # w.key
        BY <1>u, <3>2, <4>1, <4>2 DEF Coming
      <4>3. CASE q = w.key /\ mWatches[id] # Efsw(w)
        BY <1>u, <3>1, <3>2, <4>1, <4>3 DEF Coming
      <4>4. CASE q = w.key /\ mWatches[id] = Efsw(w)
        BY <1>u, <3>1, <3>2, <4>4 DEF Coming
      <4> QED  BY <4>2, <4>3, <4>4
    <3> QED  BY <1>u, <1>s, <2>1, <3>3 DEF Coming
  <2>2. \A id \in Ids : \A c : client'[id].state = "watching" /\ ~gone' /\ Serving' /\ Coming(id, c) =>
            Coming(id, c)' \/ Coming(id, Missed)'
    BY <2>1
  <2> QED  BY <1>u, <2>2, ComingKept DEF IInv, Serving
<1>5. (MainTypes /\ OutboxTypes /\ WriterTypes /\ PeerTypes /\ RequestInv)'
  BY <1>u DEF IInv, MainTypes, OutboxTypes, WriterTypes, PeerTypes, RequestInv
<1>6. (WriterInv /\ MapInv /\ PendingMapInv /\ ActiveInv /\ PathInv)'
  BY <1>u DEF IInv, WriterInv, Running, MapInv, PendingMapInv, Watching, Unwatching,
      ActiveInv, PathInv
<1>7. (CallbackInv /\ PendingInv)'
  BY <1>u, <1>m DEF IInv, CallbackInv, PendingInv
<1>8. (ReplyInv /\ OkInv)'
  BY <1>u, <1>s DEF IInv, ReplyInv, Watching, OkInv, Serving
<1>9. (ErrorInv /\ LeavingInv)'
  BY <1>u, <1>s DEF IInv, ErrorInv, LeavingInv, Unwatching
<1>10. (BatchInv /\ KnownInv)'
  BY <1>u, <1>m, <1>s DEF IInv, BatchInv, Running, KnownInv, Serving
<1>11. (EndedInv /\ TakenInv)'
  BY <1>u DEF IInv, EndedInv, Running, Unwatched, TakenInv
<1> QED  BY <1>1, <1>2, <1>3, <1>4, <1>5, <1>6, <1>7, <1>8, <1>9, <1>10, <1>11 DEF IInv

\* The connection is lost: nothing more is said of the client, and what it was
\* to be told is not told.
LEMMA StepHangUp ==
    ASSUME IInv, Running, hangUp
    PROVE  IInv'
<1>u. changes' = changes /\ losses' = losses /\ active' = active /\ issued' = issued /\ raw'
      = raw /\ callback' = callback /\ watchers' = watchers /\ closing' = closing /\ mpc' =
      mpc /\ req' = req /\ handled' = handled /\ code' = code /\ mWatches' = mWatches /\
      mByEfsw' = mByEfsw /\ mOutgoing' = mOutgoing /\ mPendingEvents' = mPendingEvents /\
      mPendingMissed' = mPendingMissed /\ mStop' = mStop /\ wpc' = wpc /\ flush' = flush /\
      replied' = replied /\ ended' = ended /\ client' = client /\ known' = known
  BY DEF hangUp, disk, backend, main, maps, outbox, writer
<1>m. \A q : Made(q)' = Made(q)
  BY DEF Made, hangUp, disk, backend, main, maps, outbox, writer
<1>1. WriterTypes'
  BY <1>u DEF IInv, WriterTypes, hangUp
<1>2. PeerTypes'
  BY DEF IInv, PeerTypes, hangUp
<1>3. RequestInv'
  BY <1>u DEF IInv, RequestInv, hangUp
<1>4. WriterInv'
  BY <1>u DEF IInv, WriterInv, Running, hangUp
<1>5. ReplyInv'
  BY DEF IInv, ReplyInv, Watching, hangUp
<1>6. OkInv'
  BY DEF IInv, OkInv, Serving, hangUp
<1>7. ErrorInv'
  BY DEF IInv, ErrorInv, hangUp
<1>8. LeavingInv'
  BY DEF IInv, LeavingInv, Unwatching, hangUp
<1>9. BatchInv'
  BY DEF IInv, BatchInv, Running, hangUp
<1>10. ComingInv'
  BY DEF IInv, ComingInv, Serving, Coming, hangUp
<1>11. (WorldTypes /\ BackendTypes /\ MainTypes /\ OutboxTypes /\ MapInv)'
  BY <1>u DEF IInv, WorldTypes, BackendTypes, MainTypes, OutboxTypes, MapInv
<1>12. (PendingMapInv /\ ActiveInv /\ PathInv /\ CallbackInv /\ PendingInv)'
  BY <1>u, <1>m DEF IInv, PendingMapInv, Watching, Unwatching, ActiveInv, PathInv,
      CallbackInv, PendingInv
<1>13. (RawInv /\ KnownInv)'
  BY <1>u, <1>m DEF IInv, RawInv, KnownInv, Serving
<1>14. (EndedInv /\ TakenInv)'
  BY <1>u DEF IInv, EndedInv, Running, Unwatched, TakenInv
<1> QED  BY <1>1, <1>2, <1>3, <1>4, <1>5, <1>6, <1>7, <1>8, <1>9, <1>10, <1>11, <1>12,
    <1>13, <1>14 DEF IInv

\* A callback starts: its event was one of a watch that runs, and of no other.
LEMMA StepStartCallback ==
    ASSUME IInv, Running, NEW key \in Keys, startCallback(key)
    PROVE  IInv'
<1>rf. \A q \in Keys :
        /\ raw[q] \in Seq(RawEvents) /\ Len(raw[q]) \in Nat
        /\ \A i \in 1..Len(raw[q]) :
            raw[q][i].efsw \in Efsws /\ raw[q][i].change \in Changes \cup {Missed}
  BY RawFacts DEF IInv
<1>cf. \A q \in Keys : callback[q] # Idle =>
        /\ callback[q].efsw \in Efsws /\ callback[q].id \in Ids
        /\ callback[q].change \in Changes \cup {Missed}
  BY CallbackFacts DEF IInv
<1>pf. \A id \in Ids :
        /\ mPendingEvents[id] \in Seq(Events) /\ Len(mPendingEvents[id]) \in Nat
        /\ \A i \in 1..Len(mPendingEvents[id]) :
            mPendingEvents[id][i].efsw \in Efsws /\ mPendingEvents[id][i].change \in Changes
        /\ mPendingEvents[id] # <<>> => 1 \in 1..Len(mPendingEvents[id])
  BY PendingFacts DEF IInv
<1>u. changes' = changes /\ losses' = losses /\ active' = active /\ issued' = issued /\
      watchers' = watchers /\ closing' = closing /\ mpc' = mpc /\ req' = req /\ handled' =
      handled /\ code' = code /\ mWatches' = mWatches /\ mByEfsw' = mByEfsw /\ mOutgoing' =
      mOutgoing /\ mPendingEvents' = mPendingEvents /\ mPendingMissed' = mPendingMissed /\
      mStop' = mStop /\ wpc' = wpc /\ flush' = flush /\ out' = out /\ replied' = replied /\
      ended' = ended /\ client' = client /\ known' = known /\ gone' = gone
  BY DEF startCallback, disk, main, maps, outbox, writer, peer
<1>m. \A q : Made(q)' = Made(q)
  BY DEF Made, startCallback, disk, main, maps, outbox, writer, peer
<1>s. Sent' = Sent
  BY DEF Sent, startCallback, disk, main, maps, outbox, writer, peer
<1>c. /\ callback[key] = Idle /\ raw[key] # <<>>
      /\ raw' = [raw EXCEPT ![key] = Tail(raw[key])]
      /\ raw[key] \in Seq(RawEvents) /\ Tail(raw[key]) \in Seq(RawEvents)
      /\ 1 \in 1..Len(raw[key]) /\ raw[key][1] \in RawEvents
      /\ raw[key][1].efsw \in Efsws /\ raw[key][1].change \in Changes \cup {Missed}
      /\ \A i \in 1..Len(Tail(raw[key])) :
           i + 1 \in 1..Len(raw[key]) /\ Tail(raw[key])[i] = raw[key][i + 1]
      /\ \A i \in 1..Len(raw[key]) :
           i = 1 \/ (i - 1 \in 1..Len(Tail(raw[key])) /\ Tail(raw[key])[i - 1] = raw[key][i])
      /\ \/ /\ \A id \in Ids : mWatches[id] # raw[key][1].efsw
            /\ callback' = callback
         \/ \E cb \in Pushes :
               /\ cb # Idle /\ cb.efsw = raw[key][1].efsw /\ cb.change = raw[key][1].change
               /\ cb.id \in Ids /\ mWatches[cb.id] = cb.efsw
               /\ callback' = [callback EXCEPT ![key] = cb]
  BY StartCases DEF IInv
<1>1. BackendTypes'
  BY <1>u, <1>rf, <1>cf, <1>pf, <1>m, <1>s, <1>c, NoneFacts, SMTT(20) DEF IInv, BackendTypes,
      WorldTypes, MainTypes, OutboxTypes, WriterTypes, PeerTypes, startCallback
<1>2. RawInv'
  BY <1>u, <1>m DEF IInv, RawInv, startCallback
<1>3. CallbackInv'
  <2>1. CASE callback' = callback
    BY <1>u, <1>m, <2>1 DEF IInv, CallbackInv
  <2>2. CASE \E cb \in Pushes :
                /\ cb # Idle /\ cb.efsw = raw[key][1].efsw /\ cb.change = raw[key][1].change
                /\ cb.id \in Ids /\ mWatches[cb.id] = cb.efsw
                /\ callback' = [callback EXCEPT ![key] = cb]
    <3>1. PICK cb \in Pushes :
                /\ cb # Idle /\ cb.efsw = raw[key][1].efsw /\ cb.change = raw[key][1].change
                /\ cb.id \in Ids /\ mWatches[cb.id] = cb.efsw
                /\ callback' = [callback EXCEPT ![key] = cb]
      BY <2>2
    <3>2. \A q \in Keys : callback'[q] = IF q = key THEN cb ELSE callback[q]
      BY <3>1 DEF IInv, BackendTypes
    <3>3. /\ cb.efsw.key = key
          /\ cb.change # Missed => cb.change \in Made(client[cb.id].path)
      BY <1>c, <3>1 DEF IInv, RawInv
    <3>4. \A q \in Keys : callback'[q] # Idle =>
                /\ callback'[q].efsw.key = q
                /\ \/ mWatches[callback'[q].id] = callback'[q].efsw
                   \/ mpc = "removeWatch" /\ req.id = callback'[q].id /\ req.efsw = callback'[q].efsw
                /\ mWatches[callback'[q].id] = callback'[q].efsw /\ callback'[q].change # Missed =>
                    callback'[q].change \in Made(client[callback'[q].id].path)
      BY <3>1, <3>2, <3>3 DEF IInv, CallbackInv
    <3> QED  BY <1>u, <1>m, <3>4 DEF CallbackInv
  <2> QED  BY <1>c, <2>1, <2>2
<1>4. ComingInv'
  <2>1. ASSUME NEW id \in Ids, NEW c, client'[id].state = "watching", Serving', Coming(id, c)
        PROVE  Coming(id, c)'
    <3>1. \A q \in Keys : raw'[q] = IF q = key THEN Tail(raw[key]) ELSE raw[q]
      BY <1>c DEF IInv, BackendTypes
    <3>2. \A q \in Keys : q # key => callback'[q] = callback[q]
      BY <1>c DEF IInv, BackendTypes
    <3>3. ASSUME raw[key][1].efsw = mWatches[id], raw[key][1].change = c
          PROVE  callback'[key] # Idle /\ callback'[key].id = id /\ callback'[key].change = c
      <4>1. PICK cb \in Pushes :
                /\ cb # Idle /\ cb.efsw = raw[key][1].efsw /\ cb.change = raw[key][1].change
                /\ cb.id \in Ids /\ mWatches[cb.id] = cb.efsw
                /\ callback' = [callback EXCEPT ![key] = cb]
        BY <1>c, <3>3
      <4>2. callback'[key] = cb
        BY <4>1 DEF IInv, BackendTypes
      <4>3. cb.id = id
        BY <1>c, <3>3, <4>1, NoneFacts DEF IInv, MapInv
      <4> QED  BY <3>3, <4>1, <4>2, <4>3
    <3>4. CASE \E q \in Keys : \E i \in 1..Len(raw[q]) : raw[q][i].efsw = mWatches[id] /\ raw[q][i].change = c
      <4>1. PICK q \in Keys : \E i \in 1..Len(raw[q]) : raw[q][i].efsw = mWatches[id] /\ raw[q][i].change = c
        BY <3>4
      <4>2. PICK i \in 1..Len(raw[q]) : raw[q][i].efsw = mWatches[id] /\ raw[q][i].change = c
        BY <4>1
      <4>3. CASE q = key /\ i = 1
        BY <3>3, <4>2, <4>3 DEF Coming
      <4>4. CASE q = key /\ i # 1
        <5>a. raw'[q] = Tail(raw[key]) /\ raw[q] = raw[key]
          BY <3>1, <4>4
        <5>b. i - 1 \in 1..Len(Tail(raw[key])) /\ Tail(raw[key])[i - 1] = raw[key][i]
          BY <1>c, <4>4
        <5>1. i - 1 \in 1..Len(raw'[q]) /\ raw'[q][i - 1] = raw[q][i]
          BY <5>a, <5>b
        <5>2. raw'[q][i - 1].efsw = mWatches'[id] /\ raw'[q][i - 1].change = c
          BY <1>u, <4>2, <5>1
        <5>3. \E j \in 1..Len(raw'[q]) : raw'[q][j].efsw = mWatches'[id] /\ raw'[q][j].change = c
          BY <5>1, <5>2
        <5> QED  BY <5>3 DEF Coming
      <4>5. CASE q # key
        BY <1>u, <3>1, <4>2, <4>5 DEF Coming
      <4> QED  BY <4>3, <4>4, <4>5
    <3>5. CASE \E q \in Keys : callback[q] # Idle /\ callback[q].id = id /\ callback[q].change = c
      BY <1>c, <3>2, <3>5 DEF Coming
    <3> QED  BY <1>u, <1>s, <2>1, <3>4, <3>5 DEF Coming
  <2>2. \A id \in Ids : \A c : client'[id].state = "watching" /\ ~gone' /\ Serving' /\ Coming(id, c) =>
            Coming(id, c)' \/ Coming(id, Missed)'
    BY <2>1
  <2> QED  BY <1>u, <2>2, ComingKept DEF IInv, Serving
<1>5. (WorldTypes /\ MainTypes /\ OutboxTypes /\ WriterTypes /\ PeerTypes)'
  BY <1>u DEF IInv, WorldTypes, MainTypes, OutboxTypes, WriterTypes, PeerTypes
<1>6. (RequestInv /\ WriterInv /\ MapInv /\ PendingMapInv /\ ActiveInv)'
  BY <1>u DEF IInv, RequestInv, WriterInv, Running, MapInv, PendingMapInv, Watching,
      Unwatching, ActiveInv
<1>7. (PathInv /\ PendingInv)'
  BY <1>u, <1>m DEF IInv, PathInv, PendingInv
<1>8. (ReplyInv /\ OkInv)'
  BY <1>u, <1>s DEF IInv, ReplyInv, Watching, OkInv, Serving
<1>9. (ErrorInv /\ LeavingInv)'
  BY <1>u, <1>s DEF IInv, ErrorInv, LeavingInv, Unwatching
<1>10. (BatchInv /\ KnownInv)'
  BY <1>u, <1>m, <1>s DEF IInv, BatchInv, Running, KnownInv, Serving
<1>11. (EndedInv /\ TakenInv)'
  BY <1>u DEF IInv, EndedInv, Running, Unwatched, TakenInv
<1> QED  BY <1>1, <1>2, <1>3, <1>4, <1>5, <1>6, <1>7, <1>8, <1>9, <1>10, <1>11 DEF IInv

\* A callback ends: the event, or the missed event, is pending under the id of
\* its watch.
LEMMA StepPush ==
    ASSUME IInv, Running, NEW key \in Keys, push(key)
    PROVE  IInv'
<1>u. changes' = changes /\ losses' = losses /\ active' = active /\ issued' = issued /\ raw'
      = raw /\ watchers' = watchers /\ closing' = closing /\ mpc' = mpc /\ req' = req /\
      handled' = handled /\ code' = code /\ mWatches' = mWatches /\ mByEfsw' = mByEfsw /\
      mOutgoing' = mOutgoing /\ mStop' = mStop /\ flush' = flush /\ out' = out /\ replied' =
      replied /\ ended' = ended /\ client' = client /\ known' = known /\ gone' = gone
  BY DEF push, notify, disk, main, maps, peer
<1>m. \A q : Made(q)' = Made(q)
  BY DEF Made, push, notify, disk, main, maps, peer
<1>s. Sent' = Sent
  BY DEF Sent, push, notify, disk, main, maps, peer
<1>c. /\ callback[key] # Idle /\ callback[key].efsw \in Efsws /\ callback[key].id \in Ids
      /\ callback' = [callback EXCEPT ![key] = Idle]
      /\ \/ /\ callback[key].change = Missed
            /\ mPendingEvents' = [mPendingEvents EXCEPT ![callback[key].id] = <<>>]
            /\ mPendingMissed' \in Seq(Ids) /\ Len(mPendingMissed) \in Nat
            /\ Len(mPendingMissed') = Len(mPendingMissed) + 1
            /\ \A i \in 1..Len(mPendingMissed) : mPendingMissed'[i] = mPendingMissed[i]
            /\ mPendingMissed'[Len(mPendingMissed) + 1] = callback[key].id
         \/ /\ callback[key].change \in Changes /\ callback[key].change # Missed
            /\ mPendingMissed' = mPendingMissed
            /\ \E s \in Seq(Events) : \E n \in Nat :
                   /\ mPendingEvents' = [mPendingEvents EXCEPT ![callback[key].id] = s]
                   /\ n = Len(mPendingEvents[callback[key].id]) /\ Len(s) = n + 1
                   /\ \A i \in 1..n : s[i] = mPendingEvents[callback[key].id][i]
                   /\ s[n + 1].efsw = callback[key].efsw /\ s[n + 1].change = callback[key].change
  BY PushCases DEF IInv
<1>1. BackendTypes'
  BY DEF IInv, BackendTypes, push
<1>2. OutboxTypes'
  <2>1. /\ mPendingEvents \in [Ids -> Seq(Events)] /\ callback[key].id \in Ids
        /\ <<>> \in Seq(Events) /\ mPendingMissed \in Seq(Ids)
    BY <1>c DEF IInv, OutboxTypes
  <2>2. mPendingMissed' \in Seq(Ids)
    BY <1>c, <2>1
  <2>3. \E s \in Seq(Events) : mPendingEvents' = [mPendingEvents EXCEPT ![callback[key].id] = s]
    BY <1>c, <2>1
  <2>4. mPendingEvents' \in [Ids -> Seq(Events)]
    BY <2>1, <2>3
  <2> QED  BY <1>u, <2>2, <2>4 DEF IInv, OutboxTypes
<1>3. WriterTypes'
  BY DEF IInv, WriterTypes, push, notify, disk, main, maps, peer
<1>4. WriterInv'
  BY DEF IInv, WriterInv, Running, push, notify, disk, main, maps, peer
<1>5. CallbackInv'
  BY <1>u, <1>m DEF IInv, CallbackInv, push
<1>6. PendingInv'
  <2> DEFINE cb == callback[key]
  <2>1. cb # Idle /\ cb.efsw \in Efsws /\ cb.id \in Ids
    BY <1>c
  <2>2. /\ mWatches[cb.id] = cb.efsw \/ (mpc = "removeWatch" /\ req.id = cb.id /\ req.efsw = cb.efsw)
        /\ mWatches[cb.id] = cb.efsw /\ cb.change # Missed => cb.change \in Made(client[cb.id].path)
    BY <2>1 DEF IInv, CallbackInv
  <2>3. PICK s \in Seq(Events) :
            /\ mPendingEvents' = [mPendingEvents EXCEPT ![cb.id] = s]
            /\ \A i \in 1..Len(s) :
                \/ i \in 1..Len(mPendingEvents[cb.id]) /\ s[i] = mPendingEvents[cb.id][i]
                \/ s[i].efsw = cb.efsw /\ s[i].change = cb.change /\ cb.change # Missed
    <3>1. CASE mPendingEvents' = [mPendingEvents EXCEPT ![cb.id] = <<>>]
      <4> DEFINE none == <<>>
      <4>1. none \in Seq(Events) /\ Len(none) = 0
        OBVIOUS
      <4>2. mPendingEvents' = [mPendingEvents EXCEPT ![cb.id] = none]
        BY <3>1
      <4> HIDE DEF cb, none
      <4>3. \A i \in 1..Len(none) : FALSE
        BY <4>1
      <4>4. none \in Seq(Events)
        BY <4>1
      <4> WITNESS none \in Seq(Events)
      <4> QED  BY <4>2, <4>3
    <3>2. ASSUME cb.change # Missed, NEW s \in Seq(Events), NEW n \in Nat,
                 mPendingEvents' = [mPendingEvents EXCEPT ![cb.id] = s],
                 n = Len(mPendingEvents[cb.id]), Len(s) = n + 1,
                 \A i \in 1..n : s[i] = mPendingEvents[cb.id][i],
                 s[n + 1].efsw = cb.efsw, s[n + 1].change = cb.change
          PROVE  \A i \in 1..Len(s) :
                    \/ i \in 1..Len(mPendingEvents[cb.id]) /\ s[i] = mPendingEvents[cb.id][i]
                    \/ s[i].efsw = cb.efsw /\ s[i].change = cb.change /\ cb.change # Missed
      <4> HIDE DEF cb
      <4>1. \A i \in 1..(n + 1) : i \in 1..n \/ i = n + 1
        OBVIOUS
      <4> QED  BY <3>2, <4>1
    <3> QED  BY <1>c, <3>1, <3>2
  <2> HIDE DEF cb
  <2>4. \A id \in Ids : mPendingEvents'[id] = IF id = cb.id THEN s ELSE mPendingEvents[id]
    BY <2>1, <2>3 DEF IInv, OutboxTypes
  <2>5. ASSUME NEW id \in Ids, NEW i \in 1..Len(mPendingEvents'[id])
        PROVE  /\ \/ mWatches[id] = mPendingEvents'[id][i].efsw
                  \/ /\ mpc \in {"removeWatch", "discard"} /\ req.id = id
                     /\ req.efsw = mPendingEvents'[id][i].efsw
               /\ mWatches[id] = mPendingEvents'[id][i].efsw =>
                    mPendingEvents'[id][i].change \in Made(client[id].path)
    <3>1. CASE id # cb.id \/ (i \in 1..Len(mPendingEvents[cb.id]) /\ s[i] = mPendingEvents[cb.id][i])
      BY <2>1, <2>4, <2>5, <3>1 DEF IInv, PendingInv
    <3>2. CASE id = cb.id /\ s[i].efsw = cb.efsw /\ s[i].change = cb.change /\ cb.change # Missed
      BY <2>1, <2>2, <2>4, <3>2
    <3> QED  BY <2>1, <2>3, <2>4, <2>5, <3>1, <3>2
  <2> QED  BY <1>u, <1>m, <2>5 DEF PendingInv
<1>7. TakenInv'
  BY <1>u DEF IInv, TakenInv, Running
<1>8. ComingInv'
  <2>1. ASSUME NEW id \in Ids, NEW c, client'[id].state = "watching", Coming(id, c)
        PROVE  Coming(id, c)' \/ Coming(id, Missed)'
    <3>1. \A q \in Keys : q # key => callback'[q] = callback[q]
      BY <1>c DEF IInv, BackendTypes
    <3>2. CASE callback[key].change = Missed
      <4>1. mPendingMissed'[Len(mPendingMissed) + 1] = callback[key].id
            /\ Len(mPendingMissed) + 1 \in 1..Len(mPendingMissed')
            /\ \A i \in 1..Len(mPendingMissed) : i \in 1..Len(mPendingMissed') /\ mPendingMissed'[i] = mPendingMissed[i]
        BY <1>c, <3>2
      <4>2. CASE id = callback[key].id
        BY <4>1, <4>2 DEF Coming
      <4>3. CASE id # callback[key].id
        <5>1. mPendingEvents'[id] = mPendingEvents[id]
          BY <1>c, <3>2, <4>3 DEF IInv, OutboxTypes
        <5> QED  BY <1>u, <1>s, <2>1, <3>1, <4>1, <4>3, <5>1 DEF Coming
      <4> QED  BY <4>2, <4>3
    <3>3. CASE callback[key].change # Missed
      <4>1. PICK s \in Seq(Events) : \E n \in Nat :
                   /\ mPendingEvents' = [mPendingEvents EXCEPT ![callback[key].id] = s]
                   /\ n = Len(mPendingEvents[callback[key].id]) /\ Len(s) = n + 1
                   /\ \A i \in 1..n : s[i] = mPendingEvents[callback[key].id][i]
                   /\ s[n + 1].efsw = callback[key].efsw /\ s[n + 1].change = callback[key].change
        BY <1>c, <3>3
      <4>2. mPendingEvents'[id] = IF id = callback[key].id THEN s ELSE mPendingEvents[id]
        BY <4>1 DEF IInv, OutboxTypes
      <4>3. /\ \A i \in 1..Len(mPendingEvents[id]) :
                    i \in 1..Len(mPendingEvents'[id]) /\ mPendingEvents'[id][i] = mPendingEvents[id][i]
            /\ id = callback[key].id =>
                    \E i \in 1..Len(mPendingEvents'[id]) : mPendingEvents'[id][i].change = callback[key].change
        BY <4>1, <4>2
      <4>4. mPendingMissed' = mPendingMissed
        BY <1>c, <3>3
      <4> QED  BY <1>u, <1>s, <2>1, <3>1, <4>3, <4>4 DEF Coming
    <3> QED  BY <3>2, <3>3
  <2>2. \A id \in Ids : \A c : client'[id].state = "watching" /\ ~gone' /\ Serving' /\ Coming(id, c) =>
            Coming(id, c)' \/ Coming(id, Missed)'
    BY <2>1
  <2> QED  BY <1>u, <2>2, ComingKept DEF IInv, Serving
<1>9. (WorldTypes /\ MainTypes /\ PeerTypes /\ RequestInv /\ MapInv)'
  BY <1>u DEF IInv, WorldTypes, MainTypes, PeerTypes, RequestInv, MapInv
<1>10. (PendingMapInv /\ ActiveInv /\ PathInv)'
  BY <1>u DEF IInv, PendingMapInv, Watching, Unwatching, ActiveInv, PathInv
<1>11. (RawInv /\ ReplyInv)'
  BY <1>u, <1>m, <1>s DEF IInv, RawInv, ReplyInv, Watching
<1>12. (OkInv /\ ErrorInv)'
  BY <1>u, <1>s DEF IInv, OkInv, Serving, ErrorInv
<1>13. (LeavingInv /\ BatchInv)'
  BY <1>u, <1>s, <1>m DEF IInv, LeavingInv, Unwatching, BatchInv, Running
<1>14. (KnownInv /\ EndedInv)'
  BY <1>u, <1>m DEF IInv, KnownInv, Serving, EndedInv, Running, Unwatched
<1> QED  BY <1>1, <1>2, <1>3, <1>4, <1>5, <1>6, <1>7, <1>8, <1>9, <1>10, <1>11, <1>12,
    <1>13, <1>14 DEF IInv

\* WATCH is read: the watch runs before the maps have it, under a number that
\* no watch had.
LEMMA StepWatch ==
    ASSUME IInv, NEW id \in Ids, NEW path \in Paths, NEW generic \in BOOLEAN, watch(id,
           path, generic)
    PROVE  IInv'
<1>rf. \A key \in Keys :
        /\ raw[key] \in Seq(RawEvents) /\ Len(raw[key]) \in Nat
        /\ \A i \in 1..Len(raw[key]) :
            raw[key][i].efsw \in Efsws /\ raw[key][i].change \in Changes \cup {Missed}
  BY RawFacts DEF IInv
<1>cf. \A key \in Keys : callback[key] # Idle =>
        /\ callback[key].efsw \in Efsws /\ callback[key].id \in Ids
        /\ callback[key].change \in Changes \cup {Missed}
  BY CallbackFacts DEF IInv
<1>pf. \A i0 \in Ids :
        /\ mPendingEvents[i0] \in Seq(Events) /\ Len(mPendingEvents[i0]) \in Nat
        /\ \A i \in 1..Len(mPendingEvents[i0]) :
            mPendingEvents[i0][i].efsw \in Efsws /\ mPendingEvents[i0][i].change \in Changes
        /\ mPendingEvents[i0] # <<>> => 1 \in 1..Len(mPendingEvents[i0])
  BY PendingFacts DEF IInv
<1>u. changes' = changes /\ losses' = losses /\ raw' = raw /\ callback' = callback /\
      closing' = closing /\ code' = code /\ mWatches' = mWatches /\ mByEfsw' = mByEfsw /\
      mOutgoing' = mOutgoing /\ mPendingEvents' = mPendingEvents /\ mPendingMissed' =
      mPendingMissed /\ mStop' = mStop /\ wpc' = wpc /\ flush' = flush /\ out' = out /\
      replied' = replied /\ ended' = ended /\ known' = known /\ gone' = gone
  BY DEF watch, Read, disk, maps, outbox, writer
<1>m. \A q : Made(q)' = Made(q)
  BY DEF Made, watch, Read, disk, maps, outbox, writer
<1>s. Sent' = Sent
  BY DEF Sent, watch, Read, disk, maps, outbox, writer
<1>w. \A w \in active :
        /\ Efsw(w) \in Efsws /\ Efsw(w).key = w.key /\ Efsw(w).efswId = w.efswId
        /\ w.key \in Keys /\ w.efswId \in Nat /\ w.path \in Paths
  BY ActiveFacts DEF IInv
<1>t. \A i \in 1..Len(Sent) :
        /\ Sent[i] \in Frames /\ (Sent[i].type \notin {"PONG", "ERROR"} => Sent[i].id \in Ids)
        /\ Sent[i].type = "EVENT_BATCH" => Sent[i].events \in Seq(Events)
  BY SentFacts DEF IInv
<1>k. \A i0 \in Ids :
        /\ client[i0] \in Clients /\ client[i0].state \in {"none", "asked", "watching", "leaving"}
        /\ (client[i0] = NotUsed) <=> client[i0].state = "none"
        /\ client[i0] # NotUsed => client[i0].path \in Paths
  BY ClientFacts DEF IInv
<1>p. PICK key \in Keys : fileWatcherAddWatch(id, path, key)
  BY DEF watch, Keys
<1>c. /\ callback[key] = Idle /\ watchers' \in SUBSET Keys
      /\ \/ /\ mpc' = "register" /\ req' \in Opened
            /\ req'.id = id /\ req'.key = key /\ req'.efswId = issued[key] + 1
            /\ issued' = [issued EXCEPT ![key] = issued[key] + 1]
            /\ \E w \in [key : Keys, efswId : Nat, path : Paths] :
                   /\ w.key = key /\ w.efswId = issued[key] + 1 /\ w.path = path
                   /\ Efsw(w) = Efsw(req)' /\ active' = active \cup {w} /\ IsFiniteSet(active')
         \/ /\ mpc' = IF key = Native THEN "fallback" ELSE "error"
            /\ req' \in Refused /\ req'.id = id /\ req'.path = path
            /\ active' = active /\ issued' = issued
  BY <1>p, AddWatchCases DEF IInv
<1>n. client[id] = NotUsed /\ mWatches[id] = None /\ known[id] = {}
  BY <1>k DEF IInv, MapInv, KnownInv, watch, NotUsed
<1>a. PICK asked \in Clients :
        asked.state = "asked" /\ asked.path = path /\ client' = [client EXCEPT ![id] = asked]
  BY ClientMade DEF watch
<1>e. /\ mpc' \in {"register", "fallback", "error"} /\ req'.id = id
      /\ mpc' \in {"fallback", "error"} => req'.path = path
      /\ \A k \in Keys : issued'[k] \in Nat /\ issued[k] <= issued'[k]
      /\ active \subseteq active'
      /\ \A w \in active' : w \in active \/
           (mpc' = "register" /\ Efsw(w) = Efsw(req)' /\ w.path = path /\ w.efswId <= issued'[w.key])
      /\ mpc' = "register" =>
           /\ \E w \in active' : Efsw(w) = Efsw(req)'
           /\ Efsw(req)' \in Efsws /\ req'.efswId <= issued'[req'.key]
           /\ \A x \in Efsws : x.efswId <= issued[x.key] => x # Efsw(req)'
  BY <1>p, AddWatchEffect DEF IInv
<1>j. mpc = "read" /\ \A i \in Ids : client'[i] = IF i = id THEN asked ELSE client[i]
  BY <1>a DEF IInv, PeerTypes, watch, Read
<1>v. \A i \in Ids : mWatches[i] # None => mWatches[i] \in Efsws
  BY DEF IInv, MainTypes
<1>o. \A x \in Efsws : x.key \in Keys /\ (x.efswId <= issued[x.key] => x.efswId <= issued'[x.key])
  BY <1>e DEF IInv, BackendTypes, Efsws
<1>1. BackendTypes'
  BY <1>u, <1>c, <1>a DEF IInv, BackendTypes, WorldTypes, WriterTypes, PeerTypes, watch
<1>2. MainTypes'
  BY <1>c DEF IInv, MainTypes, watch, Read, disk, maps, outbox, writer
<1>3. PeerTypes'
  BY <1>u, <1>a DEF IInv, PeerTypes
<1>4. RequestInv'
  BY <1>c DEF IInv, RequestInv
<1>5. WriterInv'
  BY <1>u, <1>e, <1>j DEF IInv, WriterInv, Running
<1>6. MapInv'
  <2>1. mByEfsw' = {<<mWatches'[i], i>> : i \in {i \in Ids : mWatches'[i] # None}}
    BY <1>u DEF IInv, MapInv
  <2>2. \A i, j \in Ids : mWatches'[i] = mWatches'[j] /\ mWatches'[i] # None => i = j
    BY <1>u DEF IInv, MapInv
  <2>3. \A i \in Ids : mWatches'[i] # None =>
            /\ client'[i].state \in {"asked", "watching"}
            /\ mWatches'[i].efswId <= issued'[mWatches'[i].key]
    BY <1>u, <1>v, <1>o, <1>n, <1>j, <1>a DEF IInv, MapInv
  <2> QED  BY <2>1, <2>2, <2>3 DEF MapInv
<1>7. PendingMapInv'
  BY <1>u, <1>e, <1>v, <1>o, NoneFacts, <1>n, <1>j, <1>a DEF IInv, PendingMapInv, Watching,
      Unwatching, MapInv
<1>8. ActiveInv'
  BY <1>u, <1>e, <1>n, <1>j, <1>a DEF IInv, ActiveInv
<1>9. PathInv'
  BY <1>u, <1>e, <1>v, <1>w, <1>o, NoneFacts, <1>n, <1>j, <1>a DEF IInv, PathInv, MapInv
<1>10. RawInv'
  <2> SUFFICES ASSUME NEW q \in Keys, NEW i \in 1..Len(raw[q])
               PROVE  /\ raw[q][i].efsw.key = q
                      /\ raw[q][i].efsw.efswId <= issued'[q]
                      /\ raw[q][i].change # Missed =>
                            /\ raw[q][i].change \in Made(raw[q][i].change[1])
                            /\ \A j \in Ids : mWatches[j] = raw[q][i].efsw =>
                                    raw[q][i].change[1] = client'[j].path
                            /\ mpc' = "register" /\ Efsw(req)' = raw[q][i].efsw =>
                                    raw[q][i].change[1] = client'[req'.id].path
    BY <1>u, <1>m DEF RawInv
  <2> DEFINE x == raw[q][i].efsw
             c == raw[q][i].change
  <2>1. /\ x \in Efsws /\ x.key = q /\ x.efswId <= issued[q]
        /\ c # Missed => c \in Made(c[1]) /\ \A j \in Ids : mWatches[j] = x => c[1] = client[j].path
    BY <1>rf DEF IInv, RawInv
  <2> HIDE DEF x, c
  <2>2. x.efswId <= issued'[q] /\ ~(mpc' = "register" /\ Efsw(req)' = x)
    BY <1>e, <1>o, <2>1
  <2>3. \A j \in Ids : mWatches[j] = x => client'[j] = client[j]
    BY <1>u, NoneFacts, <2>1, <1>n, <1>j, <1>a
  <2> QED  BY <2>1, <2>2, <2>3 DEF x, c
<1>11. CallbackInv'
  BY <1>u, <1>m, <1>cf, <1>j, <1>n, NoneFacts DEF IInv, CallbackInv
<1>12. PendingInv'
  BY <1>u, <1>m, <1>pf, <1>j, <1>n, NoneFacts DEF IInv, PendingInv
<1>13. ReplyInv'
  BY <1>s, <1>k, <1>c DEF IInv, ReplyInv, Watching, watch
<1>14. OkInv'
  BY <1>s, <1>k DEF IInv, OkInv, ReplyInv, watch, Read, disk, maps, outbox, writer, Serving,
      Watching
<1>15. ErrorInv'
  BY <1>s, <1>t, <1>u, <1>j, <1>n, <1>a DEF IInv, ErrorInv, BatchInv
<1>16. LeavingInv'
  BY <1>s, <1>k, <1>c DEF IInv, LeavingInv, Unwatching, watch
<1>17. BatchInv'
  BY <1>m, <1>s DEF IInv, BatchInv, Running, watch, Read, disk, maps, outbox, writer
<1>18. KnownInv'
  BY <1>m DEF IInv, KnownInv, Serving, watch, Read, disk, maps, outbox, writer
<1>19. EndedInv'
  BY <1>u, <1>e, <1>v, <1>o, <1>n, <1>j, <1>a DEF IInv, EndedInv, Unwatched, Running
<1>20. TakenInv'
  BY DEF IInv, TakenInv, Running, watch, Read, disk, maps, outbox, writer
<1>21. ComingInv'
  <2>1. \A i \in 1..Len(Sent) : i \in 1..Len(Sent') /\ (Sent')[i] = Sent[i]
    BY <1>s
  <2>2. \A i0 \in Ids : \A c : Coming(i0, c) => Coming(i0, c)'
    BY <1>u, <2>1, ComingSent
  <2> QED BY <1>u, <1>a, <1>j, <1>e, <2>2, ComingKept DEF IInv, Serving
<1>22. (WorldTypes /\ OutboxTypes /\ WriterTypes)'
  BY <1>u DEF IInv, WorldTypes, OutboxTypes, WriterTypes
<1> QED  BY <1>1, <1>2, <1>3, <1>4, <1>5, <1>6, <1>7, <1>8, <1>9, <1>10, <1>11, <1>12,
    <1>13, <1>14, <1>15, <1>16, <1>17, <1>18, <1>19, <1>20, <1>21, <1>22 DEF IInv

\* The native backend refused the directory: so may the generic one.
LEMMA StepFallback ==
    ASSUME IInv, fallback
    PROVE  IInv'
<1>rf. \A key \in Keys :
        /\ raw[key] \in Seq(RawEvents) /\ Len(raw[key]) \in Nat
        /\ \A i \in 1..Len(raw[key]) :
            raw[key][i].efsw \in Efsws /\ raw[key][i].change \in Changes \cup {Missed}
  BY RawFacts DEF IInv
<1>u. changes' = changes /\ losses' = losses /\ raw' = raw /\ callback' = callback /\
      closing' = closing /\ handled' = handled /\ code' = code /\ mWatches' = mWatches /\
      mByEfsw' = mByEfsw /\ mOutgoing' = mOutgoing /\ mPendingEvents' = mPendingEvents /\
      mPendingMissed' = mPendingMissed /\ mStop' = mStop /\ wpc' = wpc /\ flush' = flush /\
      out' = out /\ replied' = replied /\ ended' = ended /\ client' = client /\ known' =
      known /\ gone' = gone
  BY DEF fallback, disk, maps, outbox, writer, peer
<1>m. \A q : Made(q)' = Made(q)
  BY DEF Made, fallback, disk, maps, outbox, writer, peer
<1>s. Sent' = Sent
  BY DEF Sent, fallback, disk, maps, outbox, writer, peer
<1>d. Generic \in Keys /\ Generic # Native
  BY DEF Keys, Generic, Native
<1>r. req \in Refused /\ req.id \in Ids /\ req.path \in Paths /\ req # NoRequest
  BY RequestFields DEF IInv, RequestInv, fallback
<1>w. \A w \in active :
        /\ Efsw(w) \in Efsws /\ Efsw(w).key = w.key /\ Efsw(w).efswId = w.efswId
        /\ w.key \in Keys /\ w.efswId \in Nat /\ w.path \in Paths
  BY ActiveFacts DEF IInv
<1>c. /\ watchers' \in SUBSET Keys
      /\ \/ /\ mpc' = "register" /\ req' \in Opened
            /\ req'.id = req.id /\ req'.key = Generic /\ req'.efswId = issued[Generic] + 1
            /\ issued' = [issued EXCEPT ![Generic] = issued[Generic] + 1]
            /\ \E w \in [key : Keys, efswId : Nat, path : Paths] :
                   /\ w.key = Generic /\ w.efswId = issued[Generic] + 1 /\ w.path = req.path
                   /\ Efsw(w) = Efsw(req)' /\ active' = active \cup {w} /\ IsFiniteSet(active')
         \/ /\ mpc' = "error"
            /\ req' \in Refused /\ req'.id = req.id /\ req'.path = req.path
            /\ active' = active /\ issued' = issued
  BY <1>r, <1>d, AddWatchCases DEF IInv, BackendTypes, fallback
<1>e. /\ mpc' \in {"register", "fallback", "error"} /\ req'.id = req.id
      /\ mpc' \in {"fallback", "error"} => req'.path = req.path
      /\ \A k \in Keys : issued'[k] \in Nat /\ issued[k] <= issued'[k]
      /\ active \subseteq active'
      /\ \A w \in active' : w \in active \/
           (mpc' = "register" /\ Efsw(w) = Efsw(req)' /\ w.path = req.path /\ w.efswId <= issued'[w.key])
      /\ mpc' = "register" =>
           /\ \E w \in active' : Efsw(w) = Efsw(req)'
           /\ Efsw(req)' \in Efsws /\ req'.efswId <= issued'[req'.key]
           /\ \A x \in Efsws : x.efswId <= issued[x.key] => x # Efsw(req)'
  <2>1. CASE fileWatcherAddWatch(req.id, req.path, Generic)
    BY <1>r, <1>d, <2>1, AddWatchEffect DEF IInv
  <2>2. CASE mpc' = "error" /\ UNCHANGED <<active, issued, watchers, req>>
    <3>1. req'.path = req.path /\ req'.id = req.id /\ \A k \in Keys : issued[k] \in Nat
      BY <2>2 DEF IInv, BackendTypes
    <3> QED  BY <2>2, <3>1
  <2> QED  BY <2>1, <2>2 DEF fallback
<1>j. mpc = "fallback" /\ req.path = client[req.id].path /\ client[req.id].state = "asked"
      /\ mWatches[req.id] = None
  BY DEF IInv, PendingMapInv, Watching, fallback
<1>v. \A i \in Ids : mWatches[i] # None => mWatches[i] \in Efsws
  BY DEF IInv, MainTypes
<1>o. \A x \in Efsws : x.key \in Keys /\ (x.efswId <= issued[x.key] => x.efswId <= issued'[x.key])
  BY <1>e DEF IInv, BackendTypes, Efsws
<1>1. BackendTypes'
  BY <1>u, <1>c DEF IInv, BackendTypes, WorldTypes, MainTypes, PeerTypes
<1>2. MainTypes'
  BY <1>u, <1>c DEF IInv, MainTypes
<1>3. RequestInv'
  BY <1>c DEF IInv, RequestInv
<1>4. WriterInv'
  BY <1>u, <1>e, <1>j DEF IInv, WriterInv, Running
<1>5. MapInv'
  <2>1. mByEfsw' = {<<mWatches'[i], i>> : i \in {i \in Ids : mWatches'[i] # None}}
    BY <1>u DEF IInv, MapInv
  <2>2. \A i, j \in Ids : mWatches'[i] = mWatches'[j] /\ mWatches'[i] # None => i = j
    BY <1>u DEF IInv, MapInv
  <2>3. \A i \in Ids : mWatches'[i] # None =>
            /\ client'[i].state \in {"asked", "watching"}
            /\ mWatches'[i].efswId <= issued'[mWatches'[i].key]
    BY <1>u, <1>v, <1>o, <1>r, <1>j DEF IInv, MapInv
  <2> QED  BY <2>1, <2>2, <2>3 DEF MapInv
<1>6. PendingMapInv'
  BY <1>u, <1>e, <1>v, <1>o, NoneFacts, <1>r, <1>j DEF IInv, PendingMapInv, Watching,
      Unwatching, MapInv
<1>7. ActiveInv'
  BY <1>u, <1>e, <1>r, <1>j DEF IInv, ActiveInv
<1>8. PathInv'
  BY <1>u, <1>e, <1>v, <1>w, <1>o, NoneFacts, <1>r, <1>j DEF IInv, PathInv, MapInv
<1>9. RawInv'
  <2> SUFFICES ASSUME NEW q \in Keys, NEW i \in 1..Len(raw[q])
               PROVE  /\ raw[q][i].efsw.key = q
                      /\ raw[q][i].efsw.efswId <= issued'[q]
                      /\ raw[q][i].change # Missed =>
                            /\ raw[q][i].change \in Made(raw[q][i].change[1])
                            /\ \A j \in Ids : mWatches[j] = raw[q][i].efsw =>
                                    raw[q][i].change[1] = client'[j].path
                            /\ mpc' = "register" /\ Efsw(req)' = raw[q][i].efsw =>
                                    raw[q][i].change[1] = client'[req'.id].path
    BY <1>u, <1>m DEF RawInv
  <2> DEFINE x == raw[q][i].efsw
             c == raw[q][i].change
  <2>1. /\ x \in Efsws /\ x.key = q /\ x.efswId <= issued[q]
        /\ c # Missed => c \in Made(c[1]) /\ \A j \in Ids : mWatches[j] = x => c[1] = client[j].path
    BY <1>rf DEF IInv, RawInv
  <2> HIDE DEF x, c
  <2>2. x.efswId <= issued'[q] /\ ~(mpc' = "register" /\ Efsw(req)' = x)
    BY <1>e, <1>o, <2>1
  <2>3. \A j \in Ids : mWatches[j] = x => client'[j] = client[j]
    BY <1>u, NoneFacts, <2>1, <1>r, <1>j
  <2> QED  BY <2>1, <2>2, <2>3 DEF x, c
<1>10. CallbackInv'
  BY <1>u, <1>m DEF IInv, CallbackInv, fallback
<1>11. PendingInv'
  BY <1>u, <1>m DEF IInv, PendingInv, fallback
<1>12. ReplyInv'
  BY <1>u, <1>s, <1>c DEF IInv, ReplyInv, Watching, fallback
<1>13. OkInv'
  BY <1>u, <1>s DEF IInv, OkInv, Serving, fallback
<1>14. ErrorInv'
  BY <1>s, <1>u DEF IInv, ErrorInv
<1>15. LeavingInv'
  BY <1>u, <1>s, <1>c DEF IInv, LeavingInv, Unwatching
<1>16. BatchInv'
  BY <1>u, <1>m, <1>s DEF IInv, BatchInv, Running, fallback
<1>17. KnownInv'
  BY <1>u, <1>m DEF IInv, KnownInv, Serving, fallback
<1>18. EndedInv'
  BY <1>u, <1>e, <1>v, <1>o, <1>r, <1>j DEF IInv, EndedInv, Unwatched, Running
<1>19. TakenInv'
  BY <1>u DEF IInv, TakenInv, Running, fallback
<1>20. ComingInv'
  BY <1>u, <1>m, <1>s DEF IInv, ComingInv, Serving, Coming, fallback
<1>21. (WorldTypes /\ OutboxTypes /\ WriterTypes /\ PeerTypes)'
  BY <1>u DEF IInv, WorldTypes, OutboxTypes, WriterTypes, PeerTypes
<1> QED  BY <1>1, <1>2, <1>3, <1>4, <1>5, <1>6, <1>7, <1>8, <1>9, <1>10, <1>11, <1>12,
    <1>13, <1>14, <1>15, <1>16, <1>17, <1>18, <1>19, <1>20, <1>21 DEF IInv

\* WATCH_ERROR is sent: no watch has the id, and the client will give it up.
LEMMA StepWatchError ==
    ASSUME IInv, watchError
    PROVE  IInv'
<1>m. \A q : Made(q)' = Made(q)
  BY DEF Made, watchError, send, disk, backend, maps, peer, notify
<1>r. req \in Refused /\ req.id \in Ids /\ req.path \in Paths /\ req # NoRequest
  BY RequestFields DEF IInv, RequestInv, watchError
<1>f. [type |-> "WATCH_ERROR", id |-> req.id] \in Frames
  BY <1>r, FramesMade
<1>s. /\ Len(Sent)' = Len(Sent) + 1 /\ Len(Sent) \in Nat
      /\ \A i \in 1..Len(Sent) : Sent[i]' = Sent[i]
      /\ (Sent')[Len(Sent) + 1] = [type |-> "WATCH_ERROR", id |-> req.id]
  BY <1>f, SentSend DEF IInv, watchError, send, disk, backend, maps, peer, notify
<1>i. \A i \in 1..Len(Sent)' : i \in 1..Len(Sent) \/ i = Len(Sent) + 1
  BY <1>s
<1>t. \A i \in 1..Len(Sent) :
        /\ Sent[i] \in Frames /\ (Sent[i].type \notin {"PONG", "ERROR"} => Sent[i].id \in Ids)
        /\ Sent[i].type = "EVENT_BATCH" => Sent[i].events \in Seq(Events)
  BY SentFacts DEF IInv
<1>u. changes' = changes /\ losses' = losses /\ active' = active /\ issued' = issued /\ raw'
      = raw /\ callback' = callback /\ watchers' = watchers /\ closing' = closing /\
      handled' = handled /\ code' = code /\ mWatches' = mWatches /\ mByEfsw' = mByEfsw /\
      mPendingEvents' = mPendingEvents /\ mPendingMissed' = mPendingMissed /\ mStop' = mStop
      /\ flush' = flush /\ out' = out /\ replied' = replied /\ ended' = ended /\ client' =
      client /\ known' = known /\ gone' = gone
  BY DEF watchError, send, disk, backend, maps, peer, notify
<1>v. /\ (Sent')[Len(Sent) + 1].type = "WATCH_ERROR"
      /\ (Sent')[Len(Sent) + 1].id = req.id
      /\ mpc = "error" /\ mpc' = "read"
  BY <1>s DEF watchError
<1>1. MainTypes'
  BY <1>u DEF IInv, MainTypes, watchError
<1>2. OutboxTypes'
  BY <1>f DEF IInv, OutboxTypes, watchError, send, disk, backend, maps, peer, notify
<1>3. WriterTypes'
  BY DEF IInv, WriterTypes, watchError, send, disk, backend, maps, peer, notify
<1>4. RequestInv'
  BY DEF IInv, RequestInv, watchError
<1>5. WriterInv'
  BY DEF IInv, WriterInv, Running, watchError, send, disk, backend, maps, peer, notify
<1>6. PendingMapInv'
  BY DEF IInv, PendingMapInv, Watching, Unwatching, watchError
<1>7. ActiveInv'
  BY <1>u DEF IInv, ActiveInv, watchError
<1>8. PathInv'
  BY <1>u DEF IInv, PathInv, watchError
<1>9. RawInv'
  BY <1>u, <1>m DEF IInv, RawInv, watchError
<1>10. CallbackInv'
  BY <1>u, <1>m DEF IInv, CallbackInv, watchError
<1>11. PendingInv'
  BY <1>u, <1>m DEF IInv, PendingInv, watchError
<1>12. ReplyInv'
  BY <1>s, <1>v, <1>i, <1>t, <1>u, <1>r DEF IInv, ReplyInv, Watching, PendingMapInv
<1>13. OkInv'
  BY <1>s, <1>v, <1>i, <1>t, <1>u, <1>r, SMTT(30) DEF IInv, OkInv, PendingMapInv, Watching, KnownInv,
      Serving, MapInv
<1>14. ErrorInv'
  BY <1>s, <1>v, <1>i, <1>t, <1>u, <1>r DEF IInv, ErrorInv, PendingMapInv, BatchInv,
      Watching, Running
<1>15. LeavingInv'
  BY <1>s, <1>v, <1>i, <1>t, <1>u, <1>r DEF IInv, LeavingInv, Unwatching, PendingMapInv,
      Watching, BatchInv
<1>16. BatchInv'
  BY <1>u, <1>m, <1>s, <1>v, <1>i DEF IInv, BatchInv, Running
<1>17. KnownInv'
  BY <1>u, <1>m DEF IInv, KnownInv, Serving, watchError
<1>18. EndedInv'
  BY DEF IInv, EndedInv, Running, Unwatched, watchError, send, disk, backend, maps, peer,
      notify
<1>19. TakenInv'
  BY <1>u DEF IInv, TakenInv, Running, watchError
<1>20. ComingInv'
  <2>1. \A i \in 1..Len(Sent) : i \in 1..Len(Sent') /\ (Sent')[i] = Sent[i]
    BY <1>s, <1>i
  <2>2. \A id \in Ids : \A c : Coming(id, c) => Coming(id, c)'
    BY <1>u, <2>1, ComingSent
  <2> QED BY <1>u, <1>v, <2>2, ComingKept DEF IInv, Serving
<1>21. (WorldTypes /\ BackendTypes /\ PeerTypes /\ MapInv)'
  BY <1>u DEF IInv, WorldTypes, BackendTypes, PeerTypes, MapInv
<1> QED  BY <1>1, <1>2, <1>3, <1>4, <1>5, <1>6, <1>7, <1>8, <1>9, <1>10, <1>11, <1>12,
    <1>13, <1>14, <1>15, <1>16, <1>17, <1>18, <1>19, <1>20, <1>21 DEF IInv

\* The watch is entered in both maps; until then its events found no id.
LEMMA StepRegister ==
    ASSUME IInv, register
    PROVE  IInv'
<1>cf. \A key \in Keys : callback[key] # Idle =>
        /\ callback[key].efsw \in Efsws /\ callback[key].id \in Ids
        /\ callback[key].change \in Changes \cup {Missed}
  BY CallbackFacts DEF IInv
<1>pf. \A id \in Ids :
        /\ mPendingEvents[id] \in Seq(Events) /\ Len(mPendingEvents[id]) \in Nat
        /\ \A i \in 1..Len(mPendingEvents[id]) :
            mPendingEvents[id][i].efsw \in Efsws /\ mPendingEvents[id][i].change \in Changes
        /\ mPendingEvents[id] # <<>> => 1 \in 1..Len(mPendingEvents[id])
  BY PendingFacts DEF IInv
<1>u. changes' = changes /\ losses' = losses /\ active' = active /\ issued' = issued /\ raw'
      = raw /\ callback' = callback /\ watchers' = watchers /\ closing' = closing /\ req' =
      req /\ handled' = handled /\ code' = code /\ mOutgoing' = mOutgoing /\ mPendingEvents'
      = mPendingEvents /\ mPendingMissed' = mPendingMissed /\ mStop' = mStop /\ wpc' = wpc
      /\ flush' = flush /\ out' = out /\ replied' = replied /\ ended' = ended /\ client' =
      client /\ known' = known /\ gone' = gone
  BY DEF register, disk, backend, outbox, writer, peer
<1>m. \A q : Made(q)' = Made(q)
  BY DEF Made, register, disk, backend, outbox, writer, peer
<1>s. Sent' = Sent
  BY DEF Sent, register, disk, backend, outbox, writer, peer
<1>r. req \in Opened /\ req.id \in Ids /\ req.key \in Keys /\ req.efswId \in Nat /\ Efsw(req) \in Efsws
      /\ Efsw(req).key = req.key /\ Efsw(req).efswId = req.efswId /\ req # NoRequest
  BY RequestFields DEF IInv, RequestInv, register
<1>w. \A w \in active :
        /\ Efsw(w) \in Efsws /\ Efsw(w).key = w.key /\ Efsw(w).efswId = w.efswId
        /\ w.key \in Keys /\ w.efswId \in Nat /\ w.path \in Paths
  BY ActiveFacts DEF IInv
<1>j. /\ \A i \in Ids : mWatches'[i] = IF i = req.id THEN Efsw(req) ELSE mWatches[i]
      /\ mpc = "register" /\ mpc' = "watchOk" /\ mWatches[req.id] = None
  BY <1>r DEF IInv, MainTypes, PendingMapInv, register
<1>1. MainTypes'
  BY <1>r DEF IInv, MainTypes, register
<1>2. RequestInv'
  BY DEF IInv, RequestInv, register
<1>3. WriterInv'
  BY <1>u DEF IInv, WriterInv, Running, register
<1>4. MapInv'
  <2>1. \A i \in Ids : mWatches[i] # Efsw(req)
    BY DEF IInv, PendingMapInv, register
  <2>2. mByEfsw' = {<<mWatches'[i], i>> : i \in {i \in Ids : mWatches'[i] # None}}
    <3> DEFINE R == {<<mWatches'[i], i>> : i \in {i \in Ids : mWatches'[i] # None}}
    <3>1. mByEfsw' = {p \in mByEfsw : p[1] # Efsw(req)} \cup {<<Efsw(req), req.id>>}
      BY DEF register
    <3>2. \A p : p \in mByEfsw <=> \E i \in Ids : mWatches[i] # None /\ p = <<mWatches[i], i>>
      BY DEF IInv, MapInv
    <3>3. \A p : p \in R <=> \E i \in Ids : mWatches'[i] # None /\ p = <<mWatches'[i], i>>
      OBVIOUS
    <3>4. ASSUME NEW p \in mByEfsw' PROVE p \in R
      <4>1. CASE p = <<Efsw(req), req.id>>
        BY <1>j, <1>r, <3>3, <4>1, NoneFacts
      <4>2. CASE p \in mByEfsw
        BY <1>j, <3>2, <3>3, <4>2
      <4> QED  BY <3>1, <3>4, <4>1, <4>2
    <3>5. ASSUME NEW p \in R PROVE p \in mByEfsw'
      <4>1. PICK i \in Ids : mWatches'[i] # None /\ p = <<mWatches'[i], i>>
        BY <3>3, <3>5
      <4>2. CASE i = req.id
        BY <1>j, <3>1, <4>1, <4>2
      <4>3. CASE i # req.id
        <5>1. p \in mByEfsw /\ p[1] # Efsw(req)
          BY <1>j, <2>1, <3>2, <4>1, <4>3
        <5> QED  BY <3>1, <5>1
      <4> QED  BY <4>2, <4>3
    <3> HIDE DEF R
    <3>6. mByEfsw' = R
      BY <3>4, <3>5
    <3> QED  BY <3>6 DEF R
  <2>3. \A i, j \in Ids : mWatches'[i] = mWatches'[j] /\ mWatches'[i] # None => i = j
    BY <1>j, <2>1 DEF IInv, MapInv
  <2>4. \A i \in Ids : mWatches'[i] # None =>
            /\ client'[i].state \in {"asked", "watching"}
            /\ mWatches'[i].efswId <= issued'[mWatches'[i].key]
    <3>1. /\ client[req.id].state = "asked"
          /\ Efsw(req).efswId <= issued[Efsw(req).key]
      BY <1>j, <1>r DEF IInv, PendingMapInv, Watching
    <3> QED  BY <1>u, <1>j, <1>r, <3>1 DEF IInv, MapInv
  <2> QED  BY <2>2, <2>3, <2>4 DEF MapInv
<1>5. PendingMapInv'
  BY <1>u, <1>r DEF IInv, PendingMapInv, MainTypes, Watching, Unwatching, register
<1>6. ActiveInv'
  BY <1>u, <1>r, <1>w, NoneFacts DEF IInv, ActiveInv, MainTypes, PendingMapInv, Watching,
      Unwatching, register
<1>7. PathInv'
  BY <1>u DEF IInv, PathInv, register
<1>8. RawInv'
  BY <1>u, <1>m DEF IInv, RawInv, register
<1>9. CallbackInv'
  BY <1>j, <1>u, <1>m, <1>cf, <1>r, NoneFacts DEF IInv, CallbackInv
<1>10. PendingInv'
  BY <1>j, <1>u, <1>m, <1>pf, <1>r, NoneFacts DEF IInv, PendingInv
<1>11. ReplyInv'
  BY <1>u, <1>s DEF IInv, ReplyInv, Watching, register
<1>12. OkInv'
  BY <1>u, <1>s, <1>r, NoneFacts DEF IInv, OkInv, Serving, register
<1>13. ErrorInv'
  BY <1>u, <1>s DEF IInv, ErrorInv, ReplyInv, Watching, register
<1>14. LeavingInv'
  BY <1>u, <1>s DEF IInv, LeavingInv, Unwatching, register
<1>15. BatchInv'
  BY <1>u, <1>m, <1>s, <1>r, NoneFacts DEF IInv, BatchInv, Running, register
<1>16. KnownInv'
  BY <1>u, <1>m, <1>r, NoneFacts DEF IInv, KnownInv, Serving, register
<1>17. EndedInv'
  BY <1>u DEF IInv, EndedInv, Running, Unwatched, register
<1>18. TakenInv'
  BY <1>u DEF IInv, TakenInv, Running, register
<1>19. ComingInv'
  <2>1. \A id \in Ids : \A c : client'[id].state = "watching" /\ ~gone' /\ Serving' /\ Coming(id, c) =>
            Coming(id, c)' \/ Coming(id, Missed)'
    BY <1>u, <1>s, <1>j, <1>r DEF Coming, IInv, PendingMapInv, Watching
  <2> QED BY <1>u, <1>j, <2>1, ComingKept DEF IInv, Serving
<1>20. (WorldTypes /\ BackendTypes /\ OutboxTypes /\ WriterTypes /\ PeerTypes)'
  BY <1>u DEF IInv, WorldTypes, BackendTypes, OutboxTypes, WriterTypes, PeerTypes
<1> QED  BY <1>1, <1>2, <1>3, <1>4, <1>5, <1>6, <1>7, <1>8, <1>9, <1>10, <1>11, <1>12,
    <1>13, <1>14, <1>15, <1>16, <1>17, <1>18, <1>19, <1>20 DEF IInv

\* WATCH_OK is sent: the client will list the directory that the watch
\* watches.
LEMMA StepWatchOk ==
    ASSUME IInv, watchOk
    PROVE  IInv'
<1>m. \A q : Made(q)' = Made(q)
  BY DEF Made, watchOk, send, disk, backend, maps, peer, notify
<1>r. req \in Opened /\ req.id \in Ids /\ req.key \in Keys /\ req.efswId \in Nat /\ Efsw(req) \in Efsws
      /\ Efsw(req).key = req.key /\ Efsw(req).efswId = req.efswId /\ req # NoRequest
  BY RequestFields DEF IInv, RequestInv, watchOk
<1>f. [type |-> "WATCH_OK", id |-> req.id] \in Frames
  BY <1>r, FramesMade
<1>s. /\ Len(Sent)' = Len(Sent) + 1 /\ Len(Sent) \in Nat
      /\ \A i \in 1..Len(Sent) : Sent[i]' = Sent[i]
      /\ (Sent')[Len(Sent) + 1] = [type |-> "WATCH_OK", id |-> req.id]
  BY <1>f, SentSend DEF IInv, watchOk, send, disk, backend, maps, peer, notify
<1>i. \A i \in 1..Len(Sent)' : i \in 1..Len(Sent) \/ i = Len(Sent) + 1
  BY <1>s
<1>t. \A i \in 1..Len(Sent) :
        /\ Sent[i] \in Frames /\ (Sent[i].type \notin {"PONG", "ERROR"} => Sent[i].id \in Ids)
        /\ Sent[i].type = "EVENT_BATCH" => Sent[i].events \in Seq(Events)
  BY SentFacts DEF IInv
<1>u. changes' = changes /\ losses' = losses /\ active' = active /\ issued' = issued /\ raw'
      = raw /\ callback' = callback /\ watchers' = watchers /\ closing' = closing /\
      handled' = handled /\ code' = code /\ mWatches' = mWatches /\ mByEfsw' = mByEfsw /\
      mPendingEvents' = mPendingEvents /\ mPendingMissed' = mPendingMissed /\ mStop' = mStop
      /\ flush' = flush /\ out' = out /\ replied' = replied /\ ended' = ended /\ client' =
      client /\ known' = known /\ gone' = gone
  BY DEF watchOk, send, disk, backend, maps, peer, notify
<1>v. /\ (Sent')[Len(Sent) + 1].type = "WATCH_OK"
      /\ (Sent')[Len(Sent) + 1].id = req.id
      /\ mpc = "watchOk" /\ mpc' = "read"
  BY <1>s DEF watchOk
<1>1. MainTypes'
  BY <1>u DEF IInv, MainTypes, watchOk
<1>2. OutboxTypes'
  BY <1>f DEF IInv, OutboxTypes, watchOk, send, disk, backend, maps, peer, notify
<1>3. WriterTypes'
  BY DEF IInv, WriterTypes, watchOk, send, disk, backend, maps, peer, notify
<1>4. RequestInv'
  BY DEF IInv, RequestInv, watchOk
<1>5. WriterInv'
  BY DEF IInv, WriterInv, Running, watchOk, send, disk, backend, maps, peer, notify
<1>6. PendingMapInv'
  BY DEF IInv, PendingMapInv, Watching, Unwatching, watchOk
<1>7. ActiveInv'
  BY <1>u DEF IInv, ActiveInv, watchOk
<1>8. PathInv'
  BY <1>u DEF IInv, PathInv, watchOk
<1>9. RawInv'
  BY <1>u, <1>m DEF IInv, RawInv, watchOk
<1>10. CallbackInv'
  BY <1>u, <1>m DEF IInv, CallbackInv, watchOk
<1>11. PendingInv'
  BY <1>u, <1>m DEF IInv, PendingInv, watchOk
<1>12. ReplyInv'
  BY <1>s, <1>v, <1>i, <1>t, <1>u, <1>r DEF IInv, ReplyInv, Watching, PendingMapInv
<1>13. OkInv'
  BY <1>s, <1>v, <1>i, <1>t, <1>u, <1>r, NoneFacts DEF IInv, OkInv, PendingMapInv, Watching,
      KnownInv, Serving
<1>14. ErrorInv'
  BY <1>s, <1>v, <1>i, <1>t, <1>u, <1>r DEF IInv, ErrorInv, PendingMapInv, BatchInv,
      Watching, Running
<1>15. LeavingInv'
  BY <1>s, <1>v, <1>i, <1>t, <1>u, <1>r DEF IInv, LeavingInv, Unwatching, PendingMapInv,
      Watching, BatchInv
<1>16. BatchInv'
  BY <1>u, <1>m, <1>s, <1>v, <1>i DEF IInv, BatchInv, Running
<1>17. KnownInv'
  BY <1>u, <1>m DEF IInv, KnownInv, Serving, watchOk
<1>18. EndedInv'
  BY DEF IInv, EndedInv, Running, Unwatched, watchOk, send, disk, backend, maps, peer,
      notify
<1>19. TakenInv'
  BY <1>u DEF IInv, TakenInv, Running, watchOk
<1>20. ComingInv'
  <2>1. \A i \in 1..Len(Sent) : i \in 1..Len(Sent') /\ (Sent')[i] = Sent[i]
    BY <1>s, <1>i
  <2>2. \A id \in Ids : \A c : Coming(id, c) => Coming(id, c)'
    BY <1>u, <2>1, ComingSent
  <2> QED BY <1>u, <1>v, <2>2, ComingKept DEF IInv, Serving
<1>21. (WorldTypes /\ BackendTypes /\ PeerTypes /\ MapInv)'
  BY <1>u DEF IInv, WorldTypes, BackendTypes, PeerTypes, MapInv
<1> QED  BY <1>1, <1>2, <1>3, <1>4, <1>5, <1>6, <1>7, <1>8, <1>9, <1>10, <1>11, <1>12,
    <1>13, <1>14, <1>15, <1>16, <1>17, <1>18, <1>19, <1>20, <1>21 DEF IInv

\* UNWATCH is read: both maps forget the watch, which runs until removeWatch
\* returns.
LEMMA StepUnwatch ==
    ASSUME IInv, NEW id \in Ids, unwatch(id)
    PROVE  IInv'
<1>rf. \A key \in Keys :
        /\ raw[key] \in Seq(RawEvents) /\ Len(raw[key]) \in Nat
        /\ \A i \in 1..Len(raw[key]) :
            raw[key][i].efsw \in Efsws /\ raw[key][i].change \in Changes \cup {Missed}
  BY RawFacts DEF IInv
<1>u. changes' = changes /\ losses' = losses /\ active' = active /\ issued' = issued /\ raw'
      = raw /\ callback' = callback /\ watchers' = watchers /\ closing' = closing /\ code' =
      code /\ mOutgoing' = mOutgoing /\ mPendingEvents' = mPendingEvents /\ mPendingMissed'
      = mPendingMissed /\ mStop' = mStop /\ wpc' = wpc /\ flush' = flush /\ out' = out /\
      replied' = replied /\ ended' = ended /\ known' = known /\ gone' = gone
  BY DEF unwatch, Read, disk, backend, outbox, writer
<1>m. \A q : Made(q)' = Made(q)
  BY DEF Made, unwatch, Read, disk, backend, outbox, writer
<1>s. Sent' = Sent
  BY DEF Sent, unwatch, Read, disk, backend, outbox, writer
<1>w. \A w \in active :
        /\ Efsw(w) \in Efsws /\ Efsw(w).key = w.key /\ Efsw(w).efswId = w.efswId
        /\ w.key \in Keys /\ w.efswId \in Nat /\ w.path \in Paths
  BY ActiveFacts DEF IInv
<1>t. \A i \in 1..Len(Sent) :
        /\ Sent[i] \in Frames /\ (Sent[i].type \notin {"PONG", "ERROR"} => Sent[i].id \in Ids)
        /\ Sent[i].type = "EVENT_BATCH" => Sent[i].events \in Seq(Events)
  BY SentFacts DEF IInv
<1>a. PICK leaving \in Clients :
        leaving.state = "leaving" /\ client' = [client EXCEPT ![id] = leaving]
  BY ClientFields DEF IInv, PeerTypes, unwatch
<1>q. mWatches[id] \in Efsws \cup {None} /\ req' \in Unwatches /\ req'.id = id /\ req'.efsw = mWatches[id]
  BY RequestsMade DEF IInv, MainTypes, unwatch
<1>j. /\ client' \in [Ids -> Clients] /\ client[id].state \in {"asked", "watching"} /\ mpc = "read"
      /\ \A i \in Ids : client'[i] = IF i = id THEN leaving ELSE client[i]
      /\ \A i \in Ids : mWatches'[i] = IF i = id THEN None ELSE mWatches[i]
  BY <1>a DEF IInv, PeerTypes, MainTypes, unwatch, Read
<1>1. MainTypes'
  BY DEF IInv, MainTypes, unwatch, Read, disk, backend, outbox, writer
<1>2. PeerTypes'
  BY <1>j, <1>u DEF IInv, PeerTypes
<1>3. RequestInv'
  BY <1>q DEF IInv, RequestInv, unwatch
<1>4. WriterInv'
  BY DEF IInv, WriterInv, Running, unwatch, Read, disk, backend, outbox, writer
<1>5. MapInv'
  BY <1>u DEF IInv, MapInv, MainTypes, unwatch
<1>6. PendingMapInv'
  BY <1>u DEF IInv, PendingMapInv, MainTypes, PeerTypes, MapInv, Watching, Unwatching,
      unwatch
<1>7. ActiveInv'
  BY DEF IInv, ActiveInv, unwatch, Read, disk, backend, outbox, writer
<1>8. PathInv'
  BY <1>u, <1>w, NoneFacts DEF IInv, PathInv, unwatch
<1>9. RawInv'
  BY <1>u, <1>rf, <1>m, NoneFacts DEF IInv, RawInv, unwatch
<1>10. CallbackInv'
  BY <1>m DEF IInv, CallbackInv, unwatch, Read, disk, backend, outbox, writer
<1>11. PendingInv'
  BY <1>m DEF IInv, PendingInv, unwatch, Read, disk, backend, outbox, writer
<1>12. ReplyInv'
  BY <1>s DEF IInv, ReplyInv, Watching, unwatch
<1>13. OkInv'
  BY <1>s DEF IInv, OkInv, MainTypes, PeerTypes, Serving, unwatch, Read, disk, backend,
      outbox, writer
<1>14. ErrorInv'
  BY <1>s DEF IInv, ErrorInv, unwatch
<1>15. LeavingInv'
  BY <1>s DEF IInv, LeavingInv, Unwatching, unwatch
<1>16. BatchInv'
  <2> SUFFICES ASSUME ~gone', NEW i \in 1..Len(Sent), Sent[i].type = "EVENT_BATCH"
               PROVE  /\ client'[Sent[i].id] # NotUsed
                      /\ client'[Sent[i].id].state = "asked" => mWatches'[Sent[i].id] # None
                      /\ client'[Sent[i].id].state \in {"asked", "watching"} =>
                            \A k \in 1..Len(Sent[i].events) :
                                Sent[i].events[k].change \in Made(client[Sent[i].id].path)'
    BY <1>s DEF BatchInv
  <2> DEFINE q == Sent[i].id
  <2>1. /\ q \in Ids /\ client[q] # NotUsed
        /\ client[q].state = "asked" => mWatches[q] # None
        /\ client[q].state \in {"asked", "watching"} =>
                \A k \in 1..Len(Sent[i].events) : Sent[i].events[k].change \in Made(client[q].path)
    BY <1>j, <1>t, <1>u DEF IInv, BatchInv, Running
  <2>2. CASE q = id
    BY <1>a, <1>j, <2>1, <2>2 DEF NotUsed
  <2>3. CASE q # id
    <3>1. client'[q] = client[q] /\ mWatches'[q] = mWatches[q]
      BY <1>j, <2>1, <2>3
    <3>2. Made(client[q].path)' = Made(client[q].path)
      BY <1>s, <1>u, <3>1 DEF Made
    <3> QED  BY <1>s, <2>1, <3>1, <3>2
  <2> QED  BY <2>2, <2>3
<1>17. KnownInv'
  <2>1. \A i \in Ids : client'[i] = leaving \/ (i # id /\ client'[i] = client[i])
    BY <1>j
  <2>2. leaving # NotUsed /\ leaving.state = "leaving"
    BY <1>a DEF NotUsed
  <2>3. Serving /\ known' = known /\ \A q : Made(q)' = Made(q)
    BY <1>j, <1>u, <1>m DEF Serving
  <2>4. \A i \in Ids : client'[i] = client[i] => Made(client[i].path)' = Made(client[i].path)
    BY <1>u DEF Made
  <2>5. \A i \in Ids : i # id => mWatches'[i] = mWatches[i]
    BY <1>j
  <2> SUFFICES ASSUME NEW i \in Ids
               PROVE  /\ client'[i] = NotUsed \/ client'[i].state = "asked" => known'[i] = {}
                      /\ client'[i].state = "watching" => known'[i] \subseteq Made(client[i].path)'
                      /\ client'[i].state = "watching" /\ Serving' => mWatches'[i] # None
    BY DEF KnownInv
  <2>6. CASE client'[i] = leaving
    BY <2>2, <2>6
  <2>7. CASE i # id /\ client'[i] = client[i]
    <3>1. /\ client[i] = NotUsed \/ client[i].state = "asked" => known[i] = {}
          /\ client[i].state = "watching" => known[i] \subseteq Made(client[i].path)
          /\ client[i].state = "watching" => mWatches[i] # None
      BY <2>3 DEF IInv, KnownInv
    <3> QED  BY <2>3, <2>4, <2>5, <2>7, <3>1
  <2> QED  BY <2>1, <2>6, <2>7
<1>18. EndedInv'
  BY NoneFacts DEF IInv, EndedInv, Running, Unwatched, unwatch, Read, disk, backend, outbox,
      writer
<1>19. TakenInv'
  BY DEF IInv, TakenInv, Running, unwatch, Read, disk, backend, outbox, writer
<1>20. ComingInv'
  <2>1. \A i0 \in Ids : \A c : client'[i0].state = "watching" /\ ~gone' /\ Serving' /\ Coming(i0, c) =>
            Coming(i0, c)' \/ Coming(i0, Missed)'
    BY <1>u, <1>s, <1>j, <1>a DEF Coming
  <2> QED BY <1>u, <1>j, <1>a, <2>1, ComingKept DEF IInv, Serving
<1>21. (WorldTypes /\ BackendTypes /\ OutboxTypes /\ WriterTypes)'
  BY <1>u DEF IInv, WorldTypes, BackendTypes, OutboxTypes, WriterTypes
<1> QED  BY <1>1, <1>2, <1>3, <1>4, <1>5, <1>6, <1>7, <1>8, <1>9, <1>10, <1>11, <1>12,
    <1>13, <1>14, <1>15, <1>16, <1>17, <1>18, <1>19, <1>20, <1>21 DEF IInv

\* The watch is removed: its callback has ended, and no other will be about
\* it.
LEMMA StepRemoveWatch ==
    ASSUME IInv, removeWatch
    PROVE  IInv'
<1>m. \A q : Made(q)' = Made(q)
  BY DEF Made, removeWatch, disk, maps, outbox, writer, peer
<1>s. Sent' = Sent
  BY DEF Sent, removeWatch, disk, maps, outbox, writer, peer
<1>u. changes' = changes /\ losses' = losses /\ issued' = issued /\ raw' = raw /\ callback'
      = callback /\ watchers' = watchers /\ closing' = closing /\ req' = req /\ handled' =
      handled /\ code' = code /\ mWatches' = mWatches /\ mByEfsw' = mByEfsw /\ mOutgoing' =
      mOutgoing /\ mPendingEvents' = mPendingEvents /\ mPendingMissed' = mPendingMissed /\
      mStop' = mStop /\ wpc' = wpc /\ flush' = flush /\ out' = out /\ replied' = replied /\
      ended' = ended /\ client' = client /\ known' = known /\ gone' = gone
  BY DEF removeWatch, disk, backend, main, maps, outbox, writer, peer
<1>1. BackendTypes'
  <2>1. active' \subseteq active
    BY DEF removeWatch
  <2> QED  BY <1>u, <2>1, FS_Subset DEF IInv, BackendTypes
<1>2. MainTypes'
  BY <1>u DEF IInv, MainTypes, removeWatch
<1>3. RequestInv'
  BY DEF IInv, RequestInv, removeWatch
<1>4. WriterInv'
  BY <1>u DEF IInv, WriterInv, Running, removeWatch
<1>5. PendingMapInv'
  BY <1>u DEF IInv, PendingMapInv, Watching, Unwatching, removeWatch
<1>6. ActiveInv'
  BY <1>u DEF IInv, ActiveInv, PendingMapInv, Watching, Unwatching, removeWatch
<1>7. PathInv'
  BY <1>u DEF IInv, PathInv, removeWatch
<1>8. RawInv'
  BY <1>u, <1>m DEF IInv, RawInv, removeWatch
<1>9. CallbackInv'
  BY <1>u, <1>m DEF IInv, CallbackInv, removeWatch
<1>10. PendingInv'
  BY <1>u, <1>m DEF IInv, PendingInv, removeWatch
<1>11. ReplyInv'
  BY <1>u, <1>s DEF IInv, ReplyInv, Watching, removeWatch
<1>12. OkInv'
  BY <1>u, <1>s DEF IInv, OkInv, Serving, removeWatch
<1>13. LeavingInv'
  BY <1>u, <1>s DEF IInv, LeavingInv, Unwatching, removeWatch
<1>14. BatchInv'
  BY <1>u, <1>m, <1>s DEF IInv, BatchInv, Running, removeWatch
<1>15. KnownInv'
  BY <1>u, <1>m DEF IInv, KnownInv, Serving, removeWatch
<1>16. EndedInv'
  BY <1>u DEF IInv, EndedInv, Running, Unwatched, removeWatch
<1>17. TakenInv'
  BY <1>u DEF IInv, TakenInv, Running, removeWatch
<1>18. ComingInv'
  BY <1>u, <1>m, <1>s DEF IInv, ComingInv, Serving, Coming, removeWatch
<1>19. (WorldTypes /\ OutboxTypes /\ WriterTypes /\ PeerTypes /\ MapInv)'
  BY <1>u DEF IInv, WorldTypes, OutboxTypes, WriterTypes, PeerTypes, MapInv
<1>20. ErrorInv'
  BY <1>u, <1>s DEF IInv, ErrorInv
<1> QED  BY <1>1, <1>2, <1>3, <1>4, <1>5, <1>6, <1>7, <1>8, <1>9, <1>10, <1>11, <1>12,
    <1>13, <1>14, <1>15, <1>16, <1>17, <1>18, <1>19, <1>20 DEF IInv

\* What was pending for the id is discarded: it was about the watch that was
\* removed.
LEMMA StepDiscard ==
    ASSUME IInv, discard
    PROVE  IInv'
<1>u. changes' = changes /\ losses' = losses /\ active' = active /\ issued' = issued /\ raw'
      = raw /\ callback' = callback /\ watchers' = watchers /\ closing' = closing /\ req' =
      req /\ handled' = handled /\ code' = code /\ mWatches' = mWatches /\ mByEfsw' =
      mByEfsw /\ mOutgoing' = mOutgoing /\ mPendingMissed' = mPendingMissed /\ mStop' =
      mStop /\ wpc' = wpc /\ flush' = flush /\ out' = out /\ replied' = replied /\ ended' =
      ended /\ client' = client /\ known' = known /\ gone' = gone
  BY DEF discard, disk, backend, maps, writer, peer
<1>m. \A q : Made(q)' = Made(q)
  BY DEF Made, discard, disk, backend, maps, writer, peer
<1>s. Sent' = Sent
  BY DEF Sent, discard, disk, backend, maps, writer, peer
<1>r. req \in Unwatches /\ req.id \in Ids /\ req.efsw \in Efsws \cup {None} /\ req # NoRequest
  BY RequestFields DEF IInv, RequestInv, discard
<1>1. MainTypes'
  BY <1>u DEF IInv, MainTypes, discard
<1>2. OutboxTypes'
  BY <1>r DEF IInv, OutboxTypes, discard
<1>3. RequestInv'
  BY DEF IInv, RequestInv, discard
<1>4. WriterInv'
  BY <1>u DEF IInv, WriterInv, Running, discard
<1>5. PendingMapInv'
  BY <1>u DEF IInv, PendingMapInv, Watching, Unwatching, discard
<1>6. ActiveInv'
  BY <1>u DEF IInv, ActiveInv, discard
<1>7. PathInv'
  BY <1>u DEF IInv, PathInv, discard
<1>8. RawInv'
  BY <1>u, <1>m DEF IInv, RawInv, discard
<1>9. CallbackInv'
  BY <1>u, <1>m DEF IInv, CallbackInv, discard
<1>10. PendingInv'
  BY <1>u, <1>m DEF IInv, PendingInv, OutboxTypes, discard
<1>11. ReplyInv'
  BY <1>u, <1>s DEF IInv, ReplyInv, Watching, discard
<1>12. OkInv'
  BY <1>u, <1>s DEF IInv, OkInv, Serving, discard
<1>13. LeavingInv'
  BY <1>u, <1>s DEF IInv, LeavingInv, Unwatching, discard
<1>14. BatchInv'
  BY <1>u, <1>m, <1>s DEF IInv, BatchInv, Running, discard
<1>15. KnownInv'
  BY <1>u, <1>m DEF IInv, KnownInv, Serving, discard
<1>16. EndedInv'
  BY <1>u, NoneFacts DEF IInv, EndedInv, PendingMapInv, Running, Unwatched, Watching,
      Unwatching, discard
<1>17. TakenInv'
  BY <1>u DEF IInv, TakenInv, Running, discard
<1>18. ComingInv'
  <2>1. \A id \in Ids : \A c : client'[id].state = "watching" /\ ~gone' /\ Serving' /\ Coming(id, c) =>
            Coming(id, c)' \/ Coming(id, Missed)'
    BY <1>u, <1>s, <1>r DEF Coming, discard, IInv, PendingMapInv, Unwatching
  <2> QED BY <1>u, <2>1, ComingKept DEF IInv, Serving, discard
<1>19. (WorldTypes /\ BackendTypes /\ WriterTypes /\ PeerTypes /\ MapInv)'
  BY <1>u DEF IInv, WorldTypes, BackendTypes, WriterTypes, PeerTypes, MapInv
<1>20. ErrorInv'
  BY <1>u, <1>s DEF IInv, ErrorInv
<1> QED  BY <1>1, <1>2, <1>3, <1>4, <1>5, <1>6, <1>7, <1>8, <1>9, <1>10, <1>11, <1>12,
    <1>13, <1>14, <1>15, <1>16, <1>17, <1>18, <1>19, <1>20 DEF IInv

\* UNWATCH_OK is sent after all that was sent about the watch.
LEMMA StepUnwatchOk ==
    ASSUME IInv, unwatchOk
    PROVE  IInv'
<1>m. \A q : Made(q)' = Made(q)
  BY DEF Made, unwatchOk, send, disk, backend, maps, peer, notify
<1>r. req \in Unwatches /\ req.id \in Ids /\ req.efsw \in Efsws \cup {None} /\ req # NoRequest
  BY RequestFields DEF IInv, RequestInv, unwatchOk
<1>f. [type |-> "UNWATCH_OK", id |-> req.id, efsw |-> req.efsw] \in Frames
  BY <1>r, FramesMade
<1>s. /\ Len(Sent)' = Len(Sent) + 1 /\ Len(Sent) \in Nat
      /\ \A i \in 1..Len(Sent) : Sent[i]' = Sent[i]
      /\ (Sent')[Len(Sent) + 1] = [type |-> "UNWATCH_OK", id |-> req.id, efsw |-> req.efsw]
  BY <1>f, SentSend DEF IInv, unwatchOk, send, disk, backend, maps, peer, notify
<1>i. \A i \in 1..Len(Sent)' : i \in 1..Len(Sent) \/ i = Len(Sent) + 1
  BY <1>s
<1>t. \A i \in 1..Len(Sent) :
        /\ Sent[i] \in Frames /\ (Sent[i].type \notin {"PONG", "ERROR"} => Sent[i].id \in Ids)
        /\ Sent[i].type = "EVENT_BATCH" => Sent[i].events \in Seq(Events)
  BY SentFacts DEF IInv
<1>u. changes' = changes /\ losses' = losses /\ active' = active /\ issued' = issued /\ raw'
      = raw /\ callback' = callback /\ watchers' = watchers /\ closing' = closing /\
      handled' = handled /\ code' = code /\ mWatches' = mWatches /\ mByEfsw' = mByEfsw /\
      mPendingEvents' = mPendingEvents /\ mPendingMissed' = mPendingMissed /\ mStop' = mStop
      /\ flush' = flush /\ out' = out /\ replied' = replied /\ ended' = ended /\ client' =
      client /\ known' = known /\ gone' = gone
  BY DEF unwatchOk, send, disk, backend, maps, peer, notify
<1>v. /\ (Sent')[Len(Sent) + 1].type = "UNWATCH_OK"
      /\ (Sent')[Len(Sent) + 1].id = req.id
      /\ (Sent')[Len(Sent) + 1].efsw = req.efsw
      /\ mpc = "unwatchOk" /\ mpc' = "read"
  BY <1>s DEF unwatchOk
<1>1. MainTypes'
  BY <1>u DEF IInv, MainTypes, unwatchOk
<1>2. OutboxTypes'
  BY <1>f DEF IInv, OutboxTypes, unwatchOk, send, disk, backend, maps, peer, notify
<1>3. WriterTypes'
  BY DEF IInv, WriterTypes, unwatchOk, send, disk, backend, maps, peer, notify
<1>4. RequestInv'
  BY DEF IInv, RequestInv, unwatchOk
<1>5. WriterInv'
  BY DEF IInv, WriterInv, Running, unwatchOk, send, disk, backend, maps, peer, notify
<1>6. PendingMapInv'
  BY DEF IInv, PendingMapInv, Watching, Unwatching, unwatchOk
<1>7. ActiveInv'
  BY <1>u DEF IInv, ActiveInv, unwatchOk
<1>8. PathInv'
  BY <1>u DEF IInv, PathInv, unwatchOk
<1>9. RawInv'
  BY <1>u, <1>m DEF IInv, RawInv, unwatchOk
<1>10. CallbackInv'
  BY <1>u, <1>m DEF IInv, CallbackInv, unwatchOk
<1>11. PendingInv'
  BY <1>u, <1>m DEF IInv, PendingInv, unwatchOk
<1>12. ReplyInv'
  BY <1>s, <1>v, <1>i, <1>u DEF IInv, ReplyInv, Watching
<1>13. OkInv'
  BY <1>s, <1>v, <1>i, <1>t, <1>u, <1>r, SMTT(30) DEF IInv, OkInv, PendingMapInv, Watching, KnownInv,
      Serving, MapInv
<1>14. ErrorInv'
  BY <1>s, <1>v, <1>i, <1>t, <1>u, <1>r DEF IInv, ErrorInv, PendingMapInv, BatchInv,
      Watching, Running
<1>15. LeavingInv'
  BY <1>s, <1>v, <1>i, <1>t, <1>u, <1>r DEF IInv, LeavingInv, Unwatching, PendingMapInv,
      Watching, BatchInv
<1>16. BatchInv'
  BY <1>u, <1>m, <1>s, <1>v, <1>i DEF IInv, BatchInv, Running
<1>17. KnownInv'
  BY <1>u, <1>m DEF IInv, KnownInv, Serving, unwatchOk
<1>18. EndedInv'
  BY DEF IInv, EndedInv, Running, Unwatched, unwatchOk, send, disk, backend, maps, peer,
      notify
<1>19. TakenInv'
  BY <1>u DEF IInv, TakenInv, Running, unwatchOk
<1>20. ComingInv'
  <2>1. \A i \in 1..Len(Sent) : i \in 1..Len(Sent') /\ (Sent')[i] = Sent[i]
    BY <1>s, <1>i
  <2>2. \A id \in Ids : \A c : Coming(id, c) => Coming(id, c)'
    BY <1>u, <2>1, ComingSent
  <2> QED BY <1>u, <1>v, <2>2, ComingKept DEF IInv, Serving
<1>21. (WorldTypes /\ BackendTypes /\ PeerTypes /\ MapInv)'
  BY <1>u DEF IInv, WorldTypes, BackendTypes, PeerTypes, MapInv
<1> QED  BY <1>1, <1>2, <1>3, <1>4, <1>5, <1>6, <1>7, <1>8, <1>9, <1>10, <1>11, <1>12,
    <1>13, <1>14, <1>15, <1>16, <1>17, <1>18, <1>19, <1>20, <1>21 DEF IInv

\* PONG is sent.
LEMMA StepPing ==
    ASSUME IInv, ping
    PROVE  IInv'
<1>m. \A q : Made(q)' = Made(q)
  BY DEF Made, ping, Read, send, disk, backend, maps, peer, notify
<1>f. [type |-> "PONG"] \in Frames
  BY FramesMade
<1>s. /\ Len(Sent)' = Len(Sent) + 1 /\ Len(Sent) \in Nat
      /\ \A i \in 1..Len(Sent) : Sent[i]' = Sent[i]
      /\ (Sent')[Len(Sent) + 1] = [type |-> "PONG"]
  BY <1>f, SentSend DEF IInv, ping, Read, send, disk, backend, maps, peer, notify
<1>i. \A i \in 1..Len(Sent)' : i \in 1..Len(Sent) \/ i = Len(Sent) + 1
  BY <1>s
<1>t. \A i \in 1..Len(Sent) :
        /\ Sent[i] \in Frames /\ (Sent[i].type \notin {"PONG", "ERROR"} => Sent[i].id \in Ids)
        /\ Sent[i].type = "EVENT_BATCH" => Sent[i].events \in Seq(Events)
  BY SentFacts DEF IInv
<1>u. changes' = changes /\ losses' = losses /\ active' = active /\ issued' = issued /\ raw'
      = raw /\ callback' = callback /\ watchers' = watchers /\ closing' = closing /\ mpc' =
      mpc /\ req' = req /\ code' = code /\ mWatches' = mWatches /\ mByEfsw' = mByEfsw /\
      mPendingEvents' = mPendingEvents /\ mPendingMissed' = mPendingMissed /\ mStop' = mStop
      /\ flush' = flush /\ out' = out /\ replied' = replied /\ ended' = ended /\ client' =
      client /\ known' = known /\ gone' = gone
  BY DEF ping, Read, send, disk, backend, maps, peer, notify
<1>v. /\ (Sent')[Len(Sent) + 1].type = "PONG"
      /\ mpc = "read"
  BY <1>s DEF ping, Read
<1>1. MainTypes'
  BY DEF IInv, MainTypes, ping, Read, send, disk, backend, maps, peer, notify
<1>2. OutboxTypes'
  BY <1>f DEF IInv, OutboxTypes, ping, Read, send, disk, backend, maps, peer, notify
<1>3. WriterTypes'
  BY DEF IInv, WriterTypes, ping, Read, send, disk, backend, maps, peer, notify
<1>4. WriterInv'
  BY DEF IInv, WriterInv, Running, ping, Read, send, disk, backend, maps, peer, notify
<1>5. ReplyInv'
  BY <1>s, <1>v, <1>i, <1>u DEF IInv, ReplyInv, Watching
<1>6. OkInv'
  BY <1>s, <1>v, <1>i, <1>t, <1>u, ZenonT(30) DEF IInv, OkInv, PendingMapInv, Watching, KnownInv,
      Serving, MapInv
<1>7. ErrorInv'
  BY <1>s, <1>v, <1>i, <1>t, <1>u DEF IInv, ErrorInv, PendingMapInv, BatchInv, Watching,
      Running
<1>8. LeavingInv'
  BY <1>s, <1>v, <1>i, <1>t, <1>u DEF IInv, LeavingInv, Unwatching, PendingMapInv, Watching,
      BatchInv
<1>9. BatchInv'
  BY <1>u, <1>m, <1>s, <1>v, <1>i DEF IInv, BatchInv, Running
<1>10. EndedInv'
  BY DEF IInv, EndedInv, Running, Unwatched, ping, Read, send, disk, backend, maps, peer,
      notify
<1>11. ComingInv'
  <2>1. \A i \in 1..Len(Sent) : i \in 1..Len(Sent') /\ (Sent')[i] = Sent[i]
    BY <1>s, <1>i
  <2>2. \A id \in Ids : \A c : Coming(id, c) => Coming(id, c)'
    BY <1>u, <2>1, ComingSent
  <2> QED BY <1>u, <1>v, <2>2, ComingKept DEF IInv, Serving
<1>12. (WorldTypes /\ BackendTypes /\ PeerTypes /\ RequestInv /\ MapInv)'
  BY <1>u DEF IInv, WorldTypes, BackendTypes, PeerTypes, RequestInv, MapInv
<1>13. (PendingMapInv /\ ActiveInv /\ PathInv /\ CallbackInv /\ PendingInv)'
  BY <1>u, <1>m DEF IInv, PendingMapInv, Watching, Unwatching, ActiveInv, PathInv,
      CallbackInv, PendingInv
<1>14. (RawInv /\ KnownInv)'
  BY <1>u, <1>m DEF IInv, RawInv, KnownInv, Serving
<1>15. TakenInv'
  BY <1>u DEF IInv, TakenInv, Running
<1> QED  BY <1>1, <1>2, <1>3, <1>4, <1>5, <1>6, <1>7, <1>8, <1>9, <1>10, <1>11, <1>12,
    <1>13, <1>14, <1>15 DEF IInv

\* ERROR is sent, and the agent begins to end.
LEMMA StepProtocolError ==
    ASSUME IInv, protocolError
    PROVE  IInv'
<1>m. \A q : Made(q)' = Made(q)
  BY DEF Made, protocolError, send, disk, backend, maps, peer, notify
<1>f. [type |-> "ERROR"] \in Frames
  BY FramesMade
<1>s. /\ Len(Sent)' = Len(Sent) + 1 /\ Len(Sent) \in Nat
      /\ \A i \in 1..Len(Sent) : Sent[i]' = Sent[i]
      /\ (Sent')[Len(Sent) + 1] = [type |-> "ERROR"]
  BY <1>f, SentSend DEF IInv, protocolError, send, disk, backend, maps, peer, notify
<1>i. \A i \in 1..Len(Sent)' : i \in 1..Len(Sent) \/ i = Len(Sent) + 1
  BY <1>s
<1>t. \A i \in 1..Len(Sent) :
        /\ Sent[i] \in Frames /\ (Sent[i].type \notin {"PONG", "ERROR"} => Sent[i].id \in Ids)
        /\ Sent[i].type = "EVENT_BATCH" => Sent[i].events \in Seq(Events)
  BY SentFacts DEF IInv
<1>u. changes' = changes /\ losses' = losses /\ active' = active /\ issued' = issued /\ raw'
      = raw /\ callback' = callback /\ watchers' = watchers /\ closing' = closing /\ req' =
      req /\ mWatches' = mWatches /\ mByEfsw' = mByEfsw /\ mPendingEvents' = mPendingEvents
      /\ mPendingMissed' = mPendingMissed /\ mStop' = mStop /\ flush' = flush /\ out' = out
      /\ replied' = replied /\ ended' = ended /\ client' = client /\ known' = known /\ gone'
      = gone
  BY DEF protocolError, send, disk, backend, maps, peer, notify
<1>v. /\ (Sent')[Len(Sent) + 1].type = "ERROR"
      /\ mpc = "read" /\ mpc' = "close"
  BY <1>s DEF protocolError
<1>1. MainTypes'
  BY <1>u DEF IInv, MainTypes, protocolError
<1>2. OutboxTypes'
  BY <1>f DEF IInv, OutboxTypes, protocolError, send, disk, backend, maps, peer, notify
<1>3. WriterTypes'
  BY DEF IInv, WriterTypes, protocolError, send, disk, backend, maps, peer, notify
<1>4. RequestInv'
  BY DEF IInv, RequestInv, protocolError
<1>5. WriterInv'
  BY DEF IInv, WriterInv, Running, protocolError, send, disk, backend, maps, peer, notify
<1>6. PendingMapInv'
  BY DEF IInv, PendingMapInv, Watching, Unwatching, protocolError
<1>7. ActiveInv'
  BY DEF IInv, ActiveInv, protocolError
<1>8. PathInv'
  BY <1>u DEF IInv, PathInv, protocolError
<1>9. RawInv'
  BY <1>u, <1>m DEF IInv, RawInv, protocolError
<1>10. CallbackInv'
  BY <1>u, <1>m DEF IInv, CallbackInv, protocolError
<1>11. PendingInv'
  BY <1>u, <1>m DEF IInv, PendingInv, protocolError
<1>12. ReplyInv'
  BY <1>s, <1>v, <1>i, <1>u DEF IInv, ReplyInv, Watching
<1>13. OkInv'
  BY <1>s, <1>v, <1>i, <1>t, <1>u DEF IInv, OkInv, PendingMapInv, Watching, KnownInv,
      Serving, MapInv
<1>14. ErrorInv'
  BY <1>s, <1>v, <1>i, <1>t, <1>u DEF IInv, ErrorInv, PendingMapInv, BatchInv, Watching,
      Running
<1>15. LeavingInv'
  BY <1>s, <1>v, <1>i, <1>t, <1>u DEF IInv, LeavingInv, Unwatching, PendingMapInv, Watching,
      BatchInv
<1>16. BatchInv'
  BY <1>u, <1>m, <1>s, <1>v, <1>i DEF IInv, BatchInv, Running
<1>17. KnownInv'
  BY <1>u, <1>m DEF IInv, KnownInv, Serving, protocolError
<1>18. EndedInv'
  BY DEF IInv, EndedInv, Running, Unwatched, protocolError, send, disk, backend, maps, peer,
      notify
<1>19. TakenInv'
  BY <1>u DEF IInv, TakenInv, Running, protocolError
<1>20. ComingInv'
  BY DEF IInv, ComingInv, Serving, Coming, protocolError
<1>21. (WorldTypes /\ BackendTypes /\ PeerTypes /\ MapInv)'
  BY <1>u DEF IInv, WorldTypes, BackendTypes, PeerTypes, MapInv
<1> QED  BY <1>1, <1>2, <1>3, <1>4, <1>5, <1>6, <1>7, <1>8, <1>9, <1>10, <1>11, <1>12,
    <1>13, <1>14, <1>15, <1>16, <1>17, <1>18, <1>19, <1>20, <1>21 DEF IInv

\* The process ends: its memory is gone, and nothing is promised to the client
\* any more.
LEMMA StepProcessEnds ==
    ASSUME IInv, code' \in Nat, mpc \in {"read", "join"} \/ (Running /\ gone),
           processEnds
    PROVE  IInv'
<1>m. \A q : Made(q)' = Made(q)
  BY DEF Made, processEnds, disk, peer
<1>s. Sent' = Sent
  BY DEF Sent, processEnds, disk, peer
<1>t. \A i \in 1..Len(Sent) :
        /\ Sent[i] \in Frames /\ (Sent[i].type \notin {"PONG", "ERROR"} => Sent[i].id \in Ids)
        /\ Sent[i].type = "EVENT_BATCH" => Sent[i].events \in Seq(Events)
  BY SentFacts DEF IInv
<1>u. changes' = changes /\ losses' = losses /\ req' = req /\ handled' = handled /\
      mOutgoing' = mOutgoing /\ flush' = flush /\ out' = out /\ replied' = replied /\
      client' = client /\ known' = known /\ gone' = gone
  BY DEF processEnds, disk, backend, main, maps, outbox, writer, peer
<1>1. BackendTypes'
  <2>1. active' = {} /\ watchers' = {} /\ closing' = {} /\ IsFiniteSet({})
    BY FS_EmptySet DEF processEnds
  <2>2. /\ raw' \in [Keys -> Seq(RawEvents)] /\ callback' \in [Keys -> {Idle} \cup Pushes]
        /\ issued' \in [Keys -> Nat]
    BY DEF processEnds
  <2> QED  BY <2>1, <2>2 DEF BackendTypes
<1>2. MainTypes'
  BY DEF IInv, MainTypes, processEnds
<1>3. OutboxTypes'
  <2>1. <<>> \in Seq(Events) /\ <<>> \in Seq(Ids)
    OBVIOUS
  <2>2. mPendingEvents' \in [Ids -> Seq(Events)]
    BY <2>1 DEF processEnds
  <2>3. mPendingMissed' \in Seq(Ids) /\ mStop' \in BOOLEAN
    BY <2>1 DEF processEnds
  <2> QED  BY <1>u, <2>2, <2>3 DEF IInv, OutboxTypes
<1>4. WriterTypes'
  BY DEF IInv, WriterTypes, processEnds
<1>5. RequestInv'
  BY <1>u DEF IInv, RequestInv, processEnds
<1>6. WriterInv'
  BY <1>u DEF IInv, WriterInv, Running, processEnds
<1>7. MapInv'
  BY DEF IInv, MapInv, processEnds
<1>8. PendingMapInv'
  BY DEF IInv, PendingMapInv, Watching, Unwatching, processEnds
<1>9. ActiveInv'
  BY DEF IInv, ActiveInv, processEnds
<1>10. PathInv'
  BY DEF IInv, PathInv, processEnds
<1>11. RawInv'
  BY DEF IInv, RawInv, processEnds
<1>12. CallbackInv'
  BY DEF IInv, CallbackInv, processEnds
<1>13. PendingInv'
  BY DEF IInv, PendingInv, processEnds
<1>14. ReplyInv'
  BY <1>u, <1>s DEF IInv, ReplyInv, Watching, processEnds
<1>15. OkInv'
  BY <1>u, <1>s DEF IInv, OkInv, Serving, processEnds
<1>16. ErrorInv'
  <2>1. \A i \in Ids : mWatches'[i] = None
    BY DEF processEnds
  <2> QED  BY <1>s, <1>t, <1>u, <2>1 DEF IInv, ErrorInv
<1>17. LeavingInv'
  BY <1>u, <1>s DEF IInv, LeavingInv, Unwatching, processEnds
<1>18. BatchInv'
  BY <1>u, <1>m, <1>s DEF IInv, BatchInv, Running, processEnds
<1>19. KnownInv'
  BY <1>u, <1>m DEF IInv, KnownInv, Serving, processEnds
<1>20. EndedInv'
  BY DEF IInv, EndedInv, Running, Unwatched, processEnds
<1>21. TakenInv'
  BY DEF IInv, TakenInv, Running, processEnds
<1>22. ComingInv'
  BY DEF IInv, ComingInv, Serving, Coming, processEnds
<1>23. (WorldTypes /\ PeerTypes)'
  BY <1>u DEF IInv, WorldTypes, PeerTypes
<1> QED  BY <1>1, <1>2, <1>3, <1>4, <1>5, <1>6, <1>7, <1>8, <1>9, <1>10, <1>11, <1>12,
    <1>13, <1>14, <1>15, <1>16, <1>17, <1>18, <1>19, <1>20, <1>21, <1>22, <1>23 DEF IInv

\* A FileWatcher starts to end.
LEMMA StepCloseWatcher ==
    ASSUME IInv, NEW key \in Keys, closeWatcher(key)
    PROVE  IInv'
<1>u. changes' = changes /\ losses' = losses /\ active' = active /\ issued' = issued /\ raw'
      = raw /\ callback' = callback /\ watchers' = watchers /\ mpc' = mpc /\ req' = req /\
      handled' = handled /\ code' = code /\ mWatches' = mWatches /\ mByEfsw' = mByEfsw /\
      mOutgoing' = mOutgoing /\ mPendingEvents' = mPendingEvents /\ mPendingMissed' =
      mPendingMissed /\ mStop' = mStop /\ wpc' = wpc /\ flush' = flush /\ out' = out /\
      replied' = replied /\ ended' = ended /\ client' = client /\ known' = known /\ gone' =
      gone
  BY DEF closeWatcher, disk, main, maps, outbox, writer, peer
<1>m. \A q : Made(q)' = Made(q)
  BY DEF Made, closeWatcher, disk, main, maps, outbox, writer, peer
<1>s. Sent' = Sent
  BY DEF Sent, closeWatcher, disk, main, maps, outbox, writer, peer
<1>1. BackendTypes'
  BY DEF IInv, BackendTypes, closeWatcher
<1>2. (WorldTypes /\ MainTypes /\ OutboxTypes /\ WriterTypes /\ PeerTypes)'
  BY <1>u DEF IInv, WorldTypes, MainTypes, OutboxTypes, WriterTypes, PeerTypes
<1>3. (RequestInv /\ WriterInv /\ MapInv /\ PendingMapInv /\ ActiveInv)'
  BY <1>u DEF IInv, RequestInv, WriterInv, Running, MapInv, PendingMapInv, Watching,
      Unwatching, ActiveInv
<1>4. (PathInv /\ CallbackInv /\ PendingInv)'
  BY <1>u, <1>m DEF IInv, PathInv, CallbackInv, PendingInv
<1>5. (RawInv /\ ReplyInv)'
  BY <1>u, <1>m, <1>s DEF IInv, RawInv, ReplyInv, Watching
<1>6. (OkInv /\ ErrorInv)'
  BY <1>u, <1>s DEF IInv, OkInv, Serving, ErrorInv
<1>7. (LeavingInv /\ BatchInv)'
  BY <1>u, <1>s, <1>m DEF IInv, LeavingInv, Unwatching, BatchInv, Running
<1>8. (KnownInv /\ EndedInv)'
  BY <1>u, <1>m DEF IInv, KnownInv, Serving, EndedInv, Running, Unwatched
<1>9. (TakenInv /\ ComingInv)'
  BY <1>u, <1>m, <1>s DEF IInv, TakenInv, Running, ComingInv, Serving, Coming
<1> QED  BY <1>1, <1>2, <1>3, <1>4, <1>5, <1>6, <1>7, <1>8, <1>9 DEF IInv

\* A FileWatcher has ended, and its watches and events are gone with it.
LEMMA StepJoinWatcher ==
    ASSUME IInv, NEW key \in Keys, joinWatcher(key)
    PROVE  IInv'
<1>m. \A q : Made(q)' = Made(q)
  BY DEF Made, joinWatcher, disk, main, maps, outbox, writer, peer
<1>s. Sent' = Sent
  BY DEF Sent, joinWatcher, disk, main, maps, outbox, writer, peer
<1>u. changes' = changes /\ losses' = losses /\ issued' = issued /\ callback' = callback /\
      mpc' = mpc /\ req' = req /\ handled' = handled /\ code' = code /\ mWatches' = mWatches
      /\ mByEfsw' = mByEfsw /\ mOutgoing' = mOutgoing /\ mPendingEvents' = mPendingEvents /\
      mPendingMissed' = mPendingMissed /\ mStop' = mStop /\ wpc' = wpc /\ flush' = flush /\
      out' = out /\ replied' = replied /\ ended' = ended /\ client' = client /\ known' =
      known /\ gone' = gone
  BY DEF joinWatcher, disk, backend, main, maps, outbox, writer, peer
<1>1. BackendTypes'
  <2>1. active' \subseteq active /\ IsFiniteSet(active')
    BY FS_Subset DEF IInv, BackendTypes, joinWatcher
  <2>2. raw' \in [Keys -> Seq(RawEvents)] /\ watchers' \in SUBSET Keys /\ closing' \in SUBSET Keys
    BY DEF IInv, BackendTypes, joinWatcher
  <2> QED  BY <1>u, <2>1, <2>2 DEF IInv, BackendTypes
<1>2. ActiveInv'
  BY <1>u DEF IInv, ActiveInv, joinWatcher
<1>3. PathInv'
  BY <1>u DEF IInv, PathInv, joinWatcher
<1>4. RawInv'
  BY <1>u, <1>m DEF IInv, RawInv, joinWatcher
<1>5. ComingInv'
  BY <1>u DEF IInv, ComingInv, Serving, Coming, joinWatcher
<1>6. (WorldTypes /\ MainTypes /\ OutboxTypes /\ WriterTypes /\ PeerTypes)'
  BY <1>u DEF IInv, WorldTypes, MainTypes, OutboxTypes, WriterTypes, PeerTypes
<1>7. (RequestInv /\ WriterInv /\ MapInv /\ PendingMapInv /\ CallbackInv)'
  BY <1>u, <1>m DEF IInv, RequestInv, WriterInv, Running, MapInv, PendingMapInv, Watching,
      Unwatching, CallbackInv
<1>8. PendingInv'
  BY <1>u, <1>m DEF IInv, PendingInv
<1>9. (ReplyInv /\ OkInv)'
  BY <1>u, <1>s DEF IInv, ReplyInv, Watching, OkInv, Serving
<1>10. (ErrorInv /\ LeavingInv)'
  BY <1>u, <1>s DEF IInv, ErrorInv, LeavingInv, Unwatching
<1>11. (BatchInv /\ KnownInv)'
  BY <1>u, <1>m, <1>s DEF IInv, BatchInv, Running, KnownInv, Serving
<1>12. (EndedInv /\ TakenInv)'
  BY <1>u DEF IInv, EndedInv, Running, Unwatched, TakenInv
<1> QED  BY <1>1, <1>2, <1>3, <1>4, <1>5, <1>6, <1>7, <1>8, <1>9, <1>10, <1>11, <1>12 DEF IInv

\* The writer is told to stop.
LEMMA StepStop ==
    ASSUME IInv, stop
    PROVE  IInv'
<1>u. changes' = changes /\ losses' = losses /\ active' = active /\ issued' = issued /\ raw'
      = raw /\ callback' = callback /\ watchers' = watchers /\ closing' = closing /\ req' =
      req /\ handled' = handled /\ code' = code /\ mWatches' = mWatches /\ mByEfsw' =
      mByEfsw /\ mOutgoing' = mOutgoing /\ mPendingEvents' = mPendingEvents /\
      mPendingMissed' = mPendingMissed /\ flush' = flush /\ out' = out /\ replied' = replied
      /\ ended' = ended /\ client' = client /\ known' = known /\ gone' = gone
  BY DEF stop, notify, disk, backend, maps, peer
<1>m. \A q : Made(q)' = Made(q)
  BY DEF Made, stop, notify, disk, backend, maps, peer
<1>s. Sent' = Sent
  BY DEF Sent, stop, notify, disk, backend, maps, peer
<1>1. MainTypes'
  BY <1>u DEF IInv, MainTypes, stop
<1>2. OutboxTypes'
  BY DEF IInv, OutboxTypes, stop
<1>3. WriterTypes'
  BY DEF IInv, WriterTypes, stop, notify, disk, backend, maps, peer
<1>4. RequestInv'
  BY DEF IInv, RequestInv, stop
<1>5. WriterInv'
  BY DEF IInv, WriterInv, Running, stop, notify, disk, backend, maps, peer
<1>6. PendingMapInv'
  BY DEF IInv, PendingMapInv, Watching, Unwatching, stop
<1>7. ActiveInv'
  BY DEF IInv, ActiveInv, stop
<1>8. PathInv'
  BY <1>u DEF IInv, PathInv, stop
<1>9. RawInv'
  BY <1>u, <1>m DEF IInv, RawInv, stop
<1>10. CallbackInv'
  BY <1>u, <1>m DEF IInv, CallbackInv, stop
<1>11. PendingInv'
  BY <1>u, <1>m DEF IInv, PendingInv, stop
<1>12. ReplyInv'
  BY <1>u, <1>s DEF IInv, ReplyInv, Watching, stop
<1>13. OkInv'
  BY <1>u, <1>s DEF IInv, OkInv, Serving, stop
<1>14. LeavingInv'
  BY <1>u, <1>s DEF IInv, LeavingInv, Unwatching, stop
<1>15. BatchInv'
  BY <1>u, <1>m, <1>s DEF IInv, BatchInv, Running, stop
<1>16. KnownInv'
  BY <1>u, <1>m DEF IInv, KnownInv, Serving, stop
<1>17. EndedInv'
  BY <1>u DEF IInv, EndedInv, Running, Unwatched, stop
<1>18. TakenInv'
  BY DEF IInv, TakenInv, Running, stop
<1>19. ComingInv'
  BY DEF IInv, ComingInv, Serving, Coming, stop
<1>20. (WorldTypes /\ BackendTypes /\ PeerTypes /\ MapInv)'
  BY <1>u DEF IInv, WorldTypes, BackendTypes, PeerTypes, MapInv
<1>21. ErrorInv'
  BY <1>u, <1>s DEF IInv, ErrorInv
<1> QED  BY <1>1, <1>2, <1>3, <1>4, <1>5, <1>6, <1>7, <1>8, <1>9, <1>10, <1>11, <1>12,
    <1>13, <1>14, <1>15, <1>16, <1>17, <1>18, <1>19, <1>20, <1>21 DEF IInv

\* The writer takes all there is: what it sends about an id comes after what
\* was sent, and before what will be.
LEMMA StepTake ==
    ASSUME IInv, Running, checkOutput, ~NothingPending
    PROVE  IInv'
<1>pf. \A id \in Ids :
        /\ mPendingEvents[id] \in Seq(Events) /\ Len(mPendingEvents[id]) \in Nat
        /\ \A i \in 1..Len(mPendingEvents[id]) :
            mPendingEvents[id][i].efsw \in Efsws /\ mPendingEvents[id][i].change \in Changes
        /\ mPendingEvents[id] # <<>> => 1 \in 1..Len(mPendingEvents[id])
  BY PendingFacts DEF IInv
<1>u. changes' = changes /\ losses' = losses /\ active' = active /\ issued' = issued /\ raw'
      = raw /\ callback' = callback /\ watchers' = watchers /\ closing' = closing /\ mpc' =
      mpc /\ req' = req /\ handled' = handled /\ code' = code /\ mWatches' = mWatches /\
      mByEfsw' = mByEfsw /\ mStop' = mStop /\ out' = out /\ replied' = replied /\ ended' =
      ended /\ client' = client /\ known' = known /\ gone' = gone
  BY DEF checkOutput, disk, backend, main, maps, outbox, writer, peer
<1>m. \A q : Made(q)' = Made(q)
  BY <1>u DEF Made
<1>a. takeOutput /\ wpc = "check" /\ flush = <<>>
  BY DEF IInv, WriterInv, checkOutput
<1>p. PICK M \in Seq(Frames) :
           /\ flush' = mOutgoing \o M
           /\ \A i \in 1..Len(M) :
               /\ M[i].type \in {"MISSED_EVENTS", "EVENT_BATCH"} /\ M[i].id \in Ids
               /\ M[i].type = "EVENT_BATCH" =>
                   M[i].events = mPendingEvents[M[i].id] /\ mPendingEvents[M[i].id] # <<>>
           /\ \A k \in 1..Len(mPendingMissed) :
               \E i \in 1..Len(M) : M[i].type = "MISSED_EVENTS" /\ M[i].id = mPendingMissed[k]
           /\ \A id \in Ids : mPendingEvents[id] # <<>> =>
               \E i \in 1..Len(M) :
                   M[i].type = "EVENT_BATCH" /\ M[i].id = id /\ M[i].events = mPendingEvents[id]
  BY <1>a, AgentAssumption, TakeCases DEF IInv
<1>w. wpc' = "write" /\ mOutgoing' = <<>> /\ mPendingMissed' = <<>>
      /\ mPendingEvents' = [id \in Ids |-> <<>>]
  BY <1>a DEF takeOutput
<1>g. /\ flush' \in Seq(Frames) /\ Len(flush)' = Len(mOutgoing) + Len(M) /\ Len(mOutgoing) \in Nat /\ Len(M) \in Nat
      /\ \A i \in 1..Len(mOutgoing) : i \in 1..Len(flush)' /\ flush'[i] = mOutgoing[i]
      /\ \A i \in 1..Len(M) : Len(mOutgoing) + i \in 1..Len(flush)' /\ flush'[Len(mOutgoing) + i] = M[i]
      /\ \A i \in 1..Len(flush)' : i \in 1..Len(mOutgoing) \/ i - Len(mOutgoing) \in 1..Len(M)
  BY <1>p, ConcatElements DEF IInv, OutboxTypes
<1>j. Sent' = Sent \o M
  BY <1>a, <1>p, <1>w, <1>u, SentTake DEF IInv
<1>s. /\ Sent' \in Seq(Frames) /\ Len(Sent)' = Len(Sent) + Len(M) /\ Len(Sent) \in Nat /\ Len(M) \in Nat
      /\ \A i \in 1..Len(Sent) : i \in 1..Len(Sent)' /\ (Sent')[i] = Sent[i]
      /\ \A i \in 1..Len(M) : Len(Sent) + i \in 1..Len(Sent)' /\ (Sent')[Len(Sent) + i] = M[i]
      /\ \A i \in 1..Len(Sent)' : i \in 1..Len(Sent) \/ i - Len(Sent) \in 1..Len(M)
  BY <1>j, <1>p, SentType, ConcatElements DEF IInv
<1>x. \A i \in 1..Len(Sent) :
        /\ Sent[i] \in Frames /\ (Sent[i].type \notin {"PONG", "ERROR"} => Sent[i].id \in Ids)
        /\ Sent[i].type = "EVENT_BATCH" => Sent[i].events \in Seq(Events)
  BY SentFacts DEF IInv
<1>k. \A id \in Ids :
        /\ client[id] \in Clients /\ client[id].state \in {"none", "asked", "watching", "leaving"}
        /\ (client[id] = NotUsed) <=> client[id].state = "none"
        /\ client[id] # NotUsed => client[id].path \in Paths
  BY ClientFacts DEF IInv
<1>y. \A k \in 1..Len(M) :
        /\ M[k].type \in {"MISSED_EVENTS", "EVENT_BATCH"} /\ M[k].id \in Ids
        /\ M[k].type = "EVENT_BATCH" => M[k].events = mPendingEvents[M[k].id] /\ mPendingEvents[M[k].id] # <<>>
  BY <1>p
<1>z. \A i \in 1..Len(Sent') :
        \/ i \in 1..Len(Sent) /\ (Sent')[i] = Sent[i]
        \/ /\ i > Len(Sent) /\ (Sent')[i].id \in Ids /\ (Sent')[i].type \in {"MISSED_EVENTS", "EVENT_BATCH"}
           /\ (Sent')[i].type = "EVENT_BATCH" => /\ (Sent')[i].events = mPendingEvents[(Sent')[i].id]
                                               /\ mPendingEvents[(Sent')[i].id] # <<>>
  <2> SUFFICES ASSUME NEW i \in 1..Len(Sent'), i \notin 1..Len(Sent)
               PROVE  /\ i > Len(Sent) /\ (Sent')[i].id \in Ids /\ (Sent')[i].type \in {"MISSED_EVENTS", "EVENT_BATCH"}
                      /\ (Sent')[i].type = "EVENT_BATCH" => /\ (Sent')[i].events = mPendingEvents[(Sent')[i].id]
                                                          /\ mPendingEvents[(Sent')[i].id] # <<>>
    BY <1>s
  <2>1. i - Len(Sent) \in 1..Len(M) /\ Len(Sent) + (i - Len(Sent)) = i /\ i > Len(Sent)
    BY <1>s
  <2>2. (Sent')[i] = M[i - Len(Sent)]
    BY <1>s, <2>1
  <2> QED  BY <1>y, <2>1, <2>2
<1>v. \A i \in 1..Len(flush') :
        \/ i \in 1..Len(mOutgoing) /\ (flush')[i] = mOutgoing[i]
        \/ /\ i > Len(mOutgoing) /\ (flush')[i].id \in Ids /\ (flush')[i].type \in {"MISSED_EVENTS", "EVENT_BATCH"}
           /\ (flush')[i].type = "EVENT_BATCH" => /\ (flush')[i].events = mPendingEvents[(flush')[i].id]
                                               /\ mPendingEvents[(flush')[i].id] # <<>>
  <2> SUFFICES ASSUME NEW i \in 1..Len(flush'), i \notin 1..Len(mOutgoing)
               PROVE  /\ i > Len(mOutgoing) /\ (flush')[i].id \in Ids /\ (flush')[i].type \in {"MISSED_EVENTS", "EVENT_BATCH"}
                      /\ (flush')[i].type = "EVENT_BATCH" => /\ (flush')[i].events = mPendingEvents[(flush')[i].id]
                                                          /\ mPendingEvents[(flush')[i].id] # <<>>
    BY <1>g
  <2>1. i - Len(mOutgoing) \in 1..Len(M) /\ Len(mOutgoing) + (i - Len(mOutgoing)) = i /\ i > Len(mOutgoing)
    BY <1>g
  <2>2. (flush')[i] = M[i - Len(mOutgoing)]
    BY <1>g, <2>1
  <2> QED  BY <1>y, <2>1, <2>2
<1>b. \A id \in Ids : mPendingEvents[id] # <<>> =>
        \/ mWatches[id] # None
        \/ client[id].state = "leaving" /\ mpc \in {"removeWatch", "discard"} /\ req.id = id
  BY NoneFacts, <1>pf DEF IInv, PendingInv, PendingMapInv, Unwatching, MainTypes
<1>1. OutboxTypes'
  BY <1>u, <1>w DEF IInv, OutboxTypes
<1>2. WriterTypes'
  BY <1>u, <1>p, <1>w DEF IInv, WriterTypes, OutboxTypes
<1>3. WriterInv'
  <2>1. \A i \in 1..Len(mOutgoing)' : FALSE
    BY <1>w
  <2>2. flush' # <<>>
    BY <1>pf, <1>p, <1>g, <1>a DEF IInv, OutboxTypes, NothingPending
  <2>3. Running /\ mpc' = mpc
    BY <1>u
  <2> QED  BY <1>u, <1>w, <2>1, <2>2, <2>3 DEF IInv, WriterInv, Running
<1>4. PendingInv'
  BY <1>w DEF IInv, PendingInv
<1>5. ReplyInv'
  BY <1>u, <1>x, <1>z, <1>s DEF IInv, ReplyInv, Watching
<1>6. OkInv'
  BY <1>u, <1>x, <1>z, <1>s DEF IInv, OkInv, Serving
<1>7. ErrorInv'
  <2> SUFFICES ASSUME ~gone', NEW i \in 1..Len(Sent'), (Sent')[i].type = "WATCH_ERROR",
                      client'[(Sent')[i].id].state = "asked"
               PROVE  /\ mWatches'[(Sent')[i].id] = None
                      /\ \A j \in 1..Len(Sent') : (Sent')[j].type = "EVENT_BATCH" =>
                            (Sent')[j].id # (Sent')[i].id
    BY DEF ErrorInv
  <2>1. i \in 1..Len(Sent) /\ (Sent')[i] = Sent[i]
    BY <1>z
  <2>2. /\ mWatches[Sent[i].id] = None
        /\ \A j \in 1..Len(Sent) : Sent[j].type = "EVENT_BATCH" => Sent[j].id # Sent[i].id
    BY <1>u, <2>1 DEF IInv, ErrorInv
  <2>3. ASSUME NEW j \in 1..Len(Sent'), (Sent')[j].type = "EVENT_BATCH",
               (Sent')[j].id = Sent[i].id
        PROVE  FALSE
    <3>1. mPendingEvents[Sent[i].id] # <<>> /\ Sent[i].id \in Ids
      BY <1>z, <2>2, <2>3
    <3> QED  BY <1>b, <1>u, <2>1, <2>2, <3>1
  <2> QED  BY <1>u, <2>1, <2>2, <2>3
<1>8. LeavingInv'
  <2> SUFFICES ASSUME ~gone', NEW i \in 1..Len(Sent'), (Sent')[i].type = "UNWATCH_OK"
               PROVE  /\ client'[(Sent')[i].id].state = "leaving"
                      /\ Unwatching' => req'.id # (Sent')[i].id
                      /\ \A j \in 1..Len(Sent') :
                            /\ (Sent')[j].type \in {"WATCH_OK", "WATCH_ERROR", "UNWATCH_OK", "EVENT_BATCH"}
                            /\ (Sent')[j].id = (Sent')[i].id
                            => j <= i
    BY DEF LeavingInv
  <2>1. i \in 1..Len(Sent) /\ (Sent')[i] = Sent[i]
    BY <1>z
  <2>2. /\ client[Sent[i].id].state = "leaving" /\ (Unwatching => req.id # Sent[i].id)
        /\ \A j \in 1..Len(Sent) :
            /\ Sent[j].type \in {"WATCH_OK", "WATCH_ERROR", "UNWATCH_OK", "EVENT_BATCH"}
            /\ Sent[j].id = Sent[i].id
            => j <= i
    BY <1>u, <2>1 DEF IInv, LeavingInv
  <2>3. ASSUME NEW j \in 1..Len(Sent'), (Sent')[j].id = Sent[i].id, j > Len(Sent)
        PROVE  (Sent')[j].type # "EVENT_BATCH"
    <3>1. SUFFICES ASSUME mPendingEvents[Sent[i].id] # <<>>, Sent[i].id \in Ids PROVE FALSE
      BY <1>z, <1>s, <2>3
    <3> QED  BY <1>b, <2>2, <3>1 DEF IInv, MapInv, Unwatching
  <2>4. \A j \in 1..Len(Sent') :
            \/ j \in 1..Len(Sent) /\ (Sent')[j] = Sent[j]
            \/ j > Len(Sent) /\ (Sent')[j].type \in {"MISSED_EVENTS", "EVENT_BATCH"}
    BY <1>z
  <2>5. Unwatching' = Unwatching /\ req' = req /\ client' = client
    BY <1>u DEF Unwatching
  <2> QED  BY <2>1, <2>2, <2>3, <2>4, <2>5
<1>9. BatchInv'
  <2> SUFFICES ASSUME ~gone', NEW i \in 1..Len(Sent'), (Sent')[i].type = "EVENT_BATCH"
               PROVE  /\ client'[(Sent')[i].id] # NotUsed
                      /\ Running' /\ client'[(Sent')[i].id].state = "asked" => mWatches'[(Sent')[i].id] # None
                      /\ client'[(Sent')[i].id].state \in {"asked", "watching"} =>
                            \A k \in 1..Len((Sent')[i].events) :
                                (Sent')[i].events[k].change \in Made(client[Sent[i].id].path)'
    BY DEF BatchInv
  <2>1. Running' = Running /\ client' = client /\ mWatches' = mWatches /\ ~gone
    BY <1>u DEF Running
  <2> DEFINE id == (Sent')[i].id
             P == Made(client[id].path)
  <2>2. Made(client[Sent[i].id].path)' = P
    BY <1>u DEF Made
  <2>3. CASE i \in 1..Len(Sent) /\ (Sent')[i] = Sent[i]
    <3>1. /\ client[id] # NotUsed
          /\ Running /\ client[id].state = "asked" => mWatches[id] # None
          /\ client[id].state \in {"asked", "watching"} =>
                \A k \in 1..Len((Sent')[i].events) : (Sent')[i].events[k].change \in P
      BY <2>1, <2>3 DEF IInv, BatchInv
    <3> HIDE DEF P
    <3> QED  BY <2>1, <2>2, <3>1
  <2>4. CASE i > Len(Sent)
    <3>1. id \in Ids /\ (Sent')[i].events = mPendingEvents[id] /\ mPendingEvents[id] # <<>>
      BY <1>z, <2>4
    <3>2. client[id].state \in {"asked", "watching", "leaving"} /\ (client[id].state = "asked" => mWatches[id] # None)
      <4> HIDE DEF id
      <4> QED  BY <1>b, <3>1 DEF IInv, MapInv
    <3>3. client[id] # NotUsed
      <4> HIDE DEF id
      <4>1. (client[id] = NotUsed) <=> client[id].state = "none"
        BY <1>k, <3>1
      <4> QED  BY <3>2, <4>1
    <3>4. client[id].state # "leaving" => \A k \in 1..Len(mPendingEvents[id]) :
                mPendingEvents[id][k].change \in P
      <4> HIDE DEF id
      <4> QED  BY <3>1 DEF IInv, PendingInv, PendingMapInv, Unwatching
    <3> HIDE DEF P
    <3> QED  BY <2>1, <2>2, <3>1, <3>2, <3>3, <3>4
  <2> QED  BY <1>z, <2>3, <2>4
<1>10. EndedInv'
  <2> SUFFICES ASSUME Running', NEW x \in Efsws, Unwatched(x)'
               PROVE  /\ x.efswId <= issued'[x.key] /\ \A id \in Ids : mWatches'[id] # x
                      /\ mpc' = "register" => Efsw(req)' # x
                      /\ mpc' \in {"removeWatch", "discard"} => req'.efsw # x
    BY DEF EndedInv
  <2>1. \A i \in 1..Len(flush') : (flush')[i].type = "UNWATCH_OK" =>
            i \in 1..Len(mOutgoing) /\ (flush')[i] = mOutgoing[i]
    BY <1>v
  <2>2. Unwatched(x)
    BY <1>u, <1>w, <2>1 DEF Unwatched
  <2>3. Running
    BY <1>u DEF Running
  <2> QED  BY <1>u, <2>2, <2>3 DEF IInv, EndedInv, Efsw
<1>11. TakenInv'
  <2> SUFFICES ASSUME Running', NEW j \in 1..Len(flush'), (flush')[j].type = "EVENT_BATCH",
                      NEW k \in 1..Len((flush')[j].events)
               PROVE  /\ (flush')[j].events[k].efsw \notin ended'
                      /\ \A i \in 1..Len(flush') : i < j /\ (flush')[i].type = "UNWATCH_OK" =>
                            (flush')[i].efsw # (flush')[j].events[k].efsw
    BY DEF TakenInv
  <2> DEFINE id == (flush')[j].id
             x == (flush')[j].events[k].efsw
  <2>1. id \in Ids /\ (flush')[j].events = mPendingEvents[id] /\ k \in 1..Len(mPendingEvents[id])
    BY <1>v DEF IInv, WriterInv
  <2>2. /\ x \in Efsws
        /\ mWatches[id] = x \/ (mpc \in {"removeWatch", "discard"} /\ req.efsw = x)
    BY <1>pf, <2>1 DEF IInv, PendingInv
  <2>3. Running
    BY <1>u DEF Running
  <2>4. ~Unwatched(x)
    BY <2>1, <2>2, <2>3 DEF IInv, EndedInv
  <2>5. x \notin ended'
    BY <1>u, <2>4 DEF Unwatched
  <2>6. ASSUME NEW i \in 1..Len(flush'), (flush')[i].type = "UNWATCH_OK"
        PROVE  (flush')[i].efsw # x
    <3>1. i \in 1..Len(mOutgoing) /\ (flush')[i] = mOutgoing[i]
      BY <1>v, <2>6
    <3> HIDE DEF x
    <3> QED  BY <2>4, <2>6, <3>1 DEF Unwatched
  <2> QED  BY <2>5, <2>6
<1>12. ComingInv'
  <2>1. ASSUME NEW id \in Ids, NEW c, Coming(id, c)
        PROVE  Coming(id, c)' \/ Coming(id, Missed)'
    <3>1. CASE \E i \in 1..Len(mPendingEvents[id]) : mPendingEvents[id][i].change = c
      <4>1. mPendingEvents[id] # <<>>
        BY <1>pf, <3>1
      <4>2. PICK i \in 1..Len(M) :
                M[i].type = "EVENT_BATCH" /\ M[i].id = id /\ M[i].events = mPendingEvents[id]
        BY <1>p, <4>1
      <4>3. Len(Sent) + i \in 1..Len(Sent') /\ (Sent')[Len(Sent) + i] = M[i]
        BY <1>s
      <4> QED  BY <3>1, <4>2, <4>3 DEF Coming
    <3>2. CASE c = Missed /\ \E i \in 1..Len(mPendingMissed) : mPendingMissed[i] = id
      <4>1. PICK i \in 1..Len(M) : M[i].type = "MISSED_EVENTS" /\ M[i].id = id
        BY <1>p, <3>2
      <4>2. Len(Sent) + i \in 1..Len(Sent') /\ (Sent')[Len(Sent) + i] = M[i]
        BY <1>s
      <4> QED  BY <3>2, <4>1, <4>2 DEF Coming
    <3> QED  BY <1>u, <1>s, <2>1, <3>1, <3>2, SMTT(30) DEF Coming
  <2>2. \A id \in Ids : \A c : client'[id].state = "watching" /\ ~gone' /\ Serving' /\ Coming(id, c) =>
            Coming(id, c)' \/ Coming(id, Missed)'
    BY <2>1
  <2> QED  BY <1>u, <2>2, ComingKept DEF IInv, Serving
<1>13. (WorldTypes /\ BackendTypes /\ MainTypes /\ PeerTypes /\ RequestInv)'
  BY <1>u DEF IInv, WorldTypes, BackendTypes, MainTypes, PeerTypes, RequestInv
<1>14. (MapInv /\ PendingMapInv /\ ActiveInv /\ PathInv /\ CallbackInv)'
  BY <1>u, <1>m DEF IInv, MapInv, PendingMapInv, Watching, Unwatching, ActiveInv, PathInv,
      CallbackInv
<1>15. (RawInv /\ KnownInv)'
  BY <1>u, <1>m DEF IInv, RawInv, KnownInv, Serving
<1> QED  BY <1>1, <1>2, <1>3, <1>4, <1>5, <1>6, <1>7, <1>8, <1>9, <1>10, <1>11, <1>12,
    <1>13, <1>14, <1>15 DEF IInv

\* The writer finds nothing to take.
LEMMA StepWait ==
    ASSUME IInv, Running, checkOutput, NothingPending
    PROVE  IInv'
<1>m. \A q : Made(q)' = Made(q)
  BY DEF Made, takeNothing, checkOutput, NothingPending, disk, backend, main, maps, peer
<1>s. Sent' = Sent
  BY DEF Sent, takeNothing, checkOutput, NothingPending, disk, backend, main, maps, peer
<1>u. changes' = changes /\ losses' = losses /\ active' = active /\ issued' = issued /\ raw'
      = raw /\ callback' = callback /\ watchers' = watchers /\ closing' = closing /\ mpc' =
      mpc /\ req' = req /\ handled' = handled /\ code' = code /\ mWatches' = mWatches /\
      mByEfsw' = mByEfsw /\ mOutgoing' = mOutgoing /\ mPendingEvents' = mPendingEvents /\
      mPendingMissed' = mPendingMissed /\ mStop' = mStop /\ flush' = flush /\ out' = out /\
      replied' = replied /\ ended' = ended /\ client' = client /\ known' = known /\ gone' =
      gone
  BY DEF checkOutput, takeNothing, disk, backend, main, maps, outbox, writer, peer
<1>1. OutboxTypes'
  BY <1>u DEF IInv, OutboxTypes
<1>2. WriterTypes'
  BY DEF IInv, WriterTypes, takeNothing, checkOutput, NothingPending, disk, backend, main,
      maps, peer
<1>3. WriterInv'
  BY DEF IInv, WriterInv, Running, takeNothing, checkOutput, NothingPending, disk, backend,
      main, maps, peer
<1>4. (WorldTypes /\ BackendTypes /\ MainTypes /\ PeerTypes /\ RequestInv)'
  BY <1>u DEF IInv, WorldTypes, BackendTypes, MainTypes, PeerTypes, RequestInv
<1>5. (MapInv /\ PendingMapInv /\ ActiveInv /\ PathInv /\ CallbackInv)'
  BY <1>u, <1>m DEF IInv, MapInv, PendingMapInv, Watching, Unwatching, ActiveInv, PathInv,
      CallbackInv
<1>6. PendingInv'
  BY <1>u, <1>m DEF IInv, PendingInv
<1>7. (RawInv /\ ReplyInv)'
  BY <1>u, <1>m, <1>s DEF IInv, RawInv, ReplyInv, Watching
<1>8. (OkInv /\ ErrorInv)'
  BY <1>u, <1>s DEF IInv, OkInv, Serving, ErrorInv
<1>9. (LeavingInv /\ BatchInv)'
  BY <1>u, <1>s, <1>m DEF IInv, LeavingInv, Unwatching, BatchInv, Running
<1>10. (KnownInv /\ EndedInv)'
  BY <1>u, <1>m DEF IInv, KnownInv, Serving, EndedInv, Running, Unwatched
<1>11. (TakenInv /\ ComingInv)'
  BY <1>u, <1>m, <1>s DEF IInv, TakenInv, Running, ComingInv, Serving, Coming
<1> QED  BY <1>1, <1>2, <1>3, <1>4, <1>5, <1>6, <1>7, <1>8, <1>9, <1>10, <1>11 DEF IInv

\* The writer writes the oldest frame; what is on its way is the same.
LEMMA StepWriteOutput ==
    ASSUME IInv, Running, writeOutput
    PROVE  IInv'
<1>u. changes' = changes /\ losses' = losses /\ active' = active /\ issued' = issued /\ raw'
      = raw /\ callback' = callback /\ watchers' = watchers /\ closing' = closing /\ mpc' =
      mpc /\ req' = req /\ handled' = handled /\ code' = code /\ mWatches' = mWatches /\
      mByEfsw' = mByEfsw /\ mOutgoing' = mOutgoing /\ mPendingEvents' = mPendingEvents /\
      mPendingMissed' = mPendingMissed /\ mStop' = mStop /\ client' = client /\ known' =
      known /\ gone' = gone
  BY DEF writeOutput, disk, backend, main, maps, outbox, peer
<1>m. \A q : Made(q)' = Made(q)
  BY DEF Made, writeOutput, disk, backend, main, maps, outbox, peer
<1>a. flush # <<>> /\ flush \in Seq(Frames) /\ out \in Seq(Frames) /\ flush' = Tail(flush) /\ out' = Append(out, Head(flush))
  BY DEF IInv, WriterInv, WriterTypes, writeOutput
<1>c. /\ flush' \in Seq(Frames) /\ Len(flush) \in Nat \ {0} /\ Len(flush)' = Len(flush) - 1
      /\ Head(flush) = flush[1] /\ flush[1] \in Frames /\ 1 \in 1..Len(flush)
      /\ \A i \in 1..Len(flush)' : i + 1 \in 1..Len(flush) /\ flush'[i] = flush[i + 1]
      /\ \A i \in 1..Len(flush) : i = 1 \/ (i - 1 \in 1..Len(flush)' /\ flush'[i - 1] = flush[i])
  BY <1>a, TailElements
<1>f. /\ flush[1].type \in {"PONG", "ERROR", "WATCH_OK", "WATCH_ERROR", "MISSED_EVENTS", "UNWATCH_OK",
                     "EVENT_BATCH"}
      /\ flush[1].type \notin {"PONG", "ERROR"} => flush[1].id \in Ids
      /\ flush[1].type = "UNWATCH_OK" => flush[1].efsw \in Efsws \cup {None}
      /\ flush[1].type = "EVENT_BATCH" => flush[1].events \in Seq(Events)
  BY <1>c, FrameFields
<1>s. Sent' = Sent
  BY <1>a, SentWrite DEF IInv, writeOutput, outbox
<1>1. WriterTypes'
  BY <1>c, <1>f DEF IInv, WriterTypes, writeOutput
<1>2. WriterInv'
  <2>1. wpc' = IF Len(flush) = 1 THEN "check" ELSE "write"
    BY DEF writeOutput
  <2>2. flush' # <<>> <=> Len(flush) # 1
    BY <1>c
  <2>3. mOutgoing' = mOutgoing /\ gone' = FALSE /\ mpc' = mpc
    BY DEF writeOutput, outbox, peer, main
  <2> QED  BY <2>1, <2>2, <2>3 DEF IInv, WriterInv, Running
<1>3. EndedInv'
  BY <1>u, <1>c DEF IInv, EndedInv, Running, Unwatched, writeOutput
<1>4. TakenInv'
  <2> SUFFICES ASSUME Running, NEW j \in 1..Len(flush)', flush'[j].type = "EVENT_BATCH",
                      NEW k \in 1..Len(flush'[j].events)
               PROVE  /\ flush'[j].events[k].efsw \notin ended'
                      /\ \A i \in 1..Len(flush)' : i < j /\ flush'[i].type = "UNWATCH_OK" =>
                            flush'[i].efsw # flush'[j].events[k].efsw
    BY DEF TakenInv, writeOutput, main, Running
  <2>1. ended' = ended \/ (flush[1].type = "UNWATCH_OK" /\ ended' = ended \cup {flush[1].efsw})
    BY <1>c DEF writeOutput
  <2>2. j + 1 \in 1..Len(flush) /\ flush'[j] = flush[j + 1] /\ 1 < j + 1
    BY <1>c
  <2> DEFINE x == flush[j + 1].events[k].efsw
  <2>3. x \notin ended /\ \A i \in 1..Len(flush) : i < j + 1 /\ flush[i].type = "UNWATCH_OK" =>
            flush[i].efsw # x
    BY <2>2 DEF IInv, TakenInv
  <2>4. \A i \in 1..Len(flush)' : i < j => i + 1 \in 1..Len(flush) /\ i + 1 < j + 1
                                          /\ flush'[i] = flush[i + 1]
    BY <1>c, <2>2
  <2> HIDE DEF x
  <2>5. x \notin ended'
    BY <1>c, <2>1, <2>2, <2>3
  <2>6. \A i \in 1..Len(flush)' : i < j /\ flush'[i].type = "UNWATCH_OK" => flush'[i].efsw # x
    BY <2>3, <2>4
  <2> QED  BY <2>2, <2>5, <2>6 DEF x
<1>5. ComingInv'
  <2>1. \A id \in Ids : \A c : client'[id].state = "watching" /\ ~gone' /\ Serving' /\ Coming(id, c) =>
            Coming(id, c)' \/ Coming(id, Missed)'
    BY <1>u, <1>s DEF Coming
  <2> QED BY <1>u, <2>1, ComingKept DEF IInv, Serving
<1>6. (WorldTypes /\ BackendTypes /\ MainTypes /\ OutboxTypes /\ PeerTypes)'
  BY <1>u DEF IInv, WorldTypes, BackendTypes, MainTypes, OutboxTypes, PeerTypes
<1>7. (RequestInv /\ MapInv /\ PendingMapInv /\ ActiveInv /\ PathInv)'
  BY <1>u DEF IInv, RequestInv, MapInv, PendingMapInv, Watching, Unwatching, ActiveInv,
      PathInv
<1>8. (CallbackInv /\ PendingInv)'
  BY <1>u, <1>m DEF IInv, CallbackInv, PendingInv
<1>9. (RawInv /\ ReplyInv)'
  BY <1>u, <1>m, <1>s DEF IInv, RawInv, ReplyInv, Watching
<1>10. (OkInv /\ ErrorInv)'
  BY <1>u, <1>s DEF IInv, OkInv, Serving, ErrorInv
<1>11. (LeavingInv /\ BatchInv)'
  BY <1>u, <1>s, <1>m DEF IInv, LeavingInv, Unwatching, BatchInv, Running
<1>12. KnownInv'
  BY <1>u, <1>m DEF IInv, KnownInv, Serving
<1> QED  BY <1>1, <1>2, <1>3, <1>4, <1>5, <1>6, <1>7, <1>8, <1>9, <1>10, <1>11, <1>12 DEF IInv

\* The client reads a frame, the oldest one on its way.
LEMMA StepReceive ==
    ASSUME IInv, receive
    PROVE  IInv'
<1>rf. \A key \in Keys :
        /\ raw[key] \in Seq(RawEvents) /\ Len(raw[key]) \in Nat
        /\ \A i \in 1..Len(raw[key]) :
            raw[key][i].efsw \in Efsws /\ raw[key][i].change \in Changes \cup {Missed}
  BY RawFacts DEF IInv
<1>cf. \A key \in Keys : callback[key] # Idle =>
        /\ callback[key].efsw \in Efsws /\ callback[key].id \in Ids
        /\ callback[key].change \in Changes \cup {Missed}
  BY CallbackFacts DEF IInv
<1>pf. \A id \in Ids :
        /\ mPendingEvents[id] \in Seq(Events) /\ Len(mPendingEvents[id]) \in Nat
        /\ \A i \in 1..Len(mPendingEvents[id]) :
            mPendingEvents[id][i].efsw \in Efsws /\ mPendingEvents[id][i].change \in Changes
        /\ mPendingEvents[id] # <<>> => 1 \in 1..Len(mPendingEvents[id])
  BY PendingFacts DEF IInv
<1>u. changes' = changes /\ losses' = losses /\ active' = active /\ issued' = issued /\ raw'
      = raw /\ callback' = callback /\ watchers' = watchers /\ closing' = closing /\ mpc' =
      mpc /\ req' = req /\ handled' = handled /\ code' = code /\ mWatches' = mWatches /\
      mByEfsw' = mByEfsw /\ mOutgoing' = mOutgoing /\ mPendingEvents' = mPendingEvents /\
      mPendingMissed' = mPendingMissed /\ mStop' = mStop /\ wpc' = wpc /\ flush' = flush /\
      replied' = replied /\ ended' = ended /\ gone' = gone
  BY DEF receive, disk, backend, main, maps, outbox, writer, peer
<1>m. \A q : Made(q)' = Made(q)
  BY <1>u DEF Made
<1>c. /\ ~gone /\ out # <<>> /\ out' = Tail(out) /\ gone' = gone
      /\ Head(out).type \notin {"PONG", "ERROR"} => Head(out).id \in Ids
      /\ \/ /\ client' = client /\ known' = known
            /\ Head(out).type \notin {"WATCH_ERROR", "UNWATCH_OK"}
            /\ Head(out).type = "WATCH_OK" => client[Head(out).id].state = "leaving"
            /\ Head(out).type \in {"MISSED_EVENTS", "EVENT_BATCH"} =>
                   client[Head(out).id].state # "watching"
         \/ /\ Head(out).type = "WATCH_OK" /\ client[Head(out).id].state = "asked"
            /\ \E c \in Clients :
                   /\ c.state = "watching" /\ c.path = client[Head(out).id].path
                   /\ client' = [client EXCEPT ![Head(out).id] = c]
            /\ known' = [known EXCEPT ![Head(out).id] = Made(client[Head(out).id].path)]
         \/ /\ Head(out).type = "WATCH_ERROR" /\ client[Head(out).id].state = "asked"
            /\ client' = [client EXCEPT ![Head(out).id] = NotUsed] /\ known' = known
         \/ /\ Head(out).type = "WATCH_ERROR" /\ client[Head(out).id].state = "leaving"
            /\ client' = client /\ known' = known
         \/ /\ Head(out).type = "UNWATCH_OK" /\ client[Head(out).id].state = "leaving"
            /\ client' = [client EXCEPT ![Head(out).id] = NotUsed]
            /\ known' = [known EXCEPT ![Head(out).id] = {}]
         \/ /\ Head(out).type = "MISSED_EVENTS" /\ client[Head(out).id].state = "watching"
            /\ client' = client
            /\ known' = [known EXCEPT ![Head(out).id] = Made(client[Head(out).id].path)]
         \/ /\ Head(out).type = "EVENT_BATCH" /\ client[Head(out).id].state = "watching"
            /\ client' = client
            /\ known' = [known EXCEPT ![Head(out).id] =
                   @ \cup {e.change : e \in ToSet(Head(out).events)}]
  BY ReceiveCases
<1>s. /\ Len(Sent) \in Nat \ {0} /\ Len(Sent)' = Len(Sent) - 1
      /\ Head(out) = Sent[1] /\ Head(out) \in Frames /\ Sent[1] \in Frames
      /\ \A i \in 1..Len(Sent)' : i + 1 \in 1..Len(Sent) /\ Sent[i]' = Sent[i + 1]
      /\ \A i \in 1..Len(Sent) : i = 1 \/ (i - 1 \in 1..Len(Sent)' /\ (Sent')[i - 1] = Sent[i])
      /\ Sent' = Tail(Sent) /\ Sent # <<>>
  BY <1>c, <1>u, SentReceive DEF IInv
<1>f. /\ Head(out).type \in {"PONG", "ERROR", "WATCH_OK", "WATCH_ERROR", "MISSED_EVENTS", "UNWATCH_OK",
                     "EVENT_BATCH"}
      /\ Head(out).type \notin {"PONG", "ERROR"} => Head(out).id \in Ids
      /\ Head(out).type = "UNWATCH_OK" => Head(out).efsw \in Efsws \cup {None}
      /\ Head(out).type = "EVENT_BATCH" => Head(out).events \in Seq(Events)
  BY <1>s, FrameFields
<1>o. out' \in Seq(Frames) /\ ~gone'
  BY <1>c, <1>u, TailElements DEF IInv, WriterTypes
<1>t. \A i \in 1..Len(Sent) :
        /\ Sent[i] \in Frames /\ (Sent[i].type \notin {"PONG", "ERROR"} => Sent[i].id \in Ids)
        /\ Sent[i].type = "EVENT_BATCH" => Sent[i].events \in Seq(Events)
  BY SentFacts DEF IInv
<1>k. \A id \in Ids :
        /\ client[id] \in Clients /\ client[id].state \in {"none", "asked", "watching", "leaving"}
        /\ (client[id] = NotUsed) <=> client[id].state = "none"
        /\ client[id] # NotUsed => client[id].path \in Paths
  BY ClientFacts DEF IInv
<1>n. NotUsed \in Clients /\ NotUsed.state = "none"
  BY DEF Clients, NotUsed
<1>w. \A w \in active :
        /\ Efsw(w) \in Efsws /\ Efsw(w).key = w.key /\ Efsw(w).efswId = w.efswId
        /\ w.key \in Keys /\ w.efswId \in Nat /\ w.path \in Paths
  BY ActiveFacts DEF IInv
<1>d. /\ client' \in [Ids -> Clients] /\ known' \in [Ids -> SUBSET Changes]
      /\ \A id \in Ids :
         \/ client'[id] = client[id] /\ known'[id] = known[id]
         \/ /\ id = Head(out).id /\ Head(out).type = "WATCH_OK" /\ client[id].state = "asked"
            /\ client'[id].state = "watching" /\ client'[id].path = client[id].path
            /\ known'[id] = Made(client[id].path)
         \/ /\ id = Head(out).id /\ Head(out).type = "WATCH_ERROR" /\ client[id].state = "asked"
            /\ client'[id] = NotUsed /\ known'[id] = known[id]
         \/ /\ id = Head(out).id /\ Head(out).type = "UNWATCH_OK" /\ client[id].state = "leaving"
            /\ client'[id] = NotUsed /\ known'[id] = {}
         \/ /\ id = Head(out).id /\ Head(out).type = "MISSED_EVENTS"
            /\ client[id].state = "watching" /\ client'[id] = client[id]
            /\ known'[id] = Made(client[id].path)
         \/ /\ id = Head(out).id /\ Head(out).type = "EVENT_BATCH"
            /\ client[id].state = "watching" /\ client'[id] = client[id]
            /\ known'[id] = known[id] \cup {e.change : e \in ToSet(Head(out).events)}
  BY ReceiveEffect
<1>q. ~gone /\ gone' = gone
  BY <1>c
<1>h. \A id \in Ids :
        \/ client'[id] = client[id]
        \/ /\ id = Head(out).id /\ Head(out).type = "WATCH_OK" /\ client[id].state = "asked"
           /\ client'[id].state = "watching" /\ client'[id].path = client[id].path
        \/ /\ id = Head(out).id /\ Head(out).type = "WATCH_ERROR" /\ client[id].state = "asked"
           /\ client'[id] = NotUsed
        \/ /\ id = Head(out).id /\ Head(out).type = "UNWATCH_OK" /\ client[id].state = "leaving"
           /\ client'[id] = NotUsed
  BY <1>d
<1>i. \A id \in Ids :
        \/ client'[id] = client[id] /\ known'[id] = known[id]
        \/ /\ id = Head(out).id
           /\ \/ Head(out).type \in {"WATCH_OK", "WATCH_ERROR"} /\ client[id].state = "asked"
              \/ Head(out).type = "UNWATCH_OK" /\ client[id].state = "leaving"
              \/ Head(out).type \in {"MISSED_EVENTS", "EVENT_BATCH"} /\ client[id].state = "watching"
  BY <1>d
<1>a. \A id \in Ids : mWatches[id] # None =>
        client'[id].path = client[id].path /\ client'[id].state \in {"asked", "watching"}
  BY <1>q, <1>h, <1>s DEF IInv, MapInv, ErrorInv
<1>r. Watching \/ Unwatching => req.id \in Ids
  BY RequestFields DEF IInv, RequestInv, Watching, Unwatching
<1>b. Watching \/ Unwatching => client'[req.id] = client[req.id]
  BY <1>q, <1>h, <1>s, <1>r DEF IInv, PendingMapInv, ReplyInv, LeavingInv, Watching,
      Unwatching
<1>e. \A j \in 1..Len(Sent)' : (Sent')[j].type \in {"WATCH_OK", "WATCH_ERROR", "UNWATCH_OK"} =>
        client'[(Sent')[j].id] = client[(Sent')[j].id] /\ known'[(Sent')[j].id] = known[(Sent')[j].id]
  BY <1>q, <1>i, <1>s, <1>t DEF IInv, ReplyInv, LeavingInv
<1>g. \A j \in 1..Len(Sent)' : (Sent')[j].type = "EVENT_BATCH" =>
        \/ client'[(Sent')[j].id] = client[(Sent')[j].id]
        \/ client[(Sent')[j].id].state = "asked" /\ client'[(Sent')[j].id].state = "watching"
           /\ client'[(Sent')[j].id].path = client[(Sent')[j].id].path
  BY <1>q, <1>h, <1>s, <1>t DEF IInv, ErrorInv, LeavingInv
<1>1. WriterTypes'
  BY <1>u, <1>o DEF IInv, WriterTypes
<1>2. PeerTypes'
  BY <1>c, <1>d DEF IInv, PeerTypes
<1>3. WriterInv'
  BY <1>u, <1>o DEF IInv, WriterInv, Running
<1>4. MapInv'
  BY <1>u, <1>a DEF IInv, MapInv
<1>5. PendingMapInv'
  BY <1>u, <1>b DEF IInv, PendingMapInv, Watching, Unwatching
<1>6. PathInv'
  BY <1>u, <1>a, <1>b, <1>w, NoneFacts DEF IInv, PathInv, Watching
<1>7. RawInv'
  BY <1>u, <1>m, <1>a, <1>b, <1>rf, NoneFacts DEF IInv, RawInv, Watching
<1>8. CallbackInv'
  BY <1>u, <1>m, <1>a, <1>cf, NoneFacts DEF IInv, CallbackInv
<1>9. PendingInv'
  BY <1>u, <1>m, <1>a, <1>pf, NoneFacts DEF IInv, PendingInv
<1>10. ReplyInv'
  BY <1>u, <1>q, <1>s, <1>e DEF IInv, ReplyInv, Watching
<1>11. OkInv'
  BY <1>u, <1>q, <1>s, <1>e DEF IInv, OkInv, Serving
<1>12. ErrorInv'
  BY <1>u, <1>q, <1>s, <1>e DEF IInv, ErrorInv
<1>13. LeavingInv'
  BY <1>u, <1>q, <1>s, <1>e DEF IInv, LeavingInv, Unwatching
<1>14. BatchInv'
  BY <1>u, <1>m, <1>q, <1>s, <1>g, <1>k, <1>n DEF IInv, BatchInv, Running
<1>15. KnownInv'
  <2> SUFFICES ASSUME NEW id \in Ids
               PROVE  /\ client'[id] = NotUsed \/ client'[id].state = "asked" => known'[id] = {}
                      /\ client'[id].state = "watching" => known'[id] \subseteq Made(client[id].path)'
                      /\ client'[id].state = "watching" /\ Serving' => mWatches'[id] # None
    BY DEF KnownInv
  <2> DEFINE f == Head(out)
  <2>1. Serving' = Serving /\ mWatches' = mWatches /\ \A q : Made(q)' = Made(q)
    BY <1>u, <1>m DEF Serving
  <2>2. /\ client[id] = NotUsed \/ client[id].state = "asked" => known[id] = {}
        /\ client[id].state = "watching" => known[id] \subseteq Made(client[id].path)
        /\ client[id].state = "watching" /\ Serving => mWatches[id] # None
    BY DEF IInv, KnownInv
  <2>10. (client[id] = NotUsed) <=> client[id].state = "none"
    BY <1>k
  <2>11. client'[id] = client[id] => Made(client[id].path)' = Made(client[id].path)
    BY <1>u DEF Made
  <2>3. f = Sent[1] /\ 1 \in 1..Len(Sent) /\ ~gone
    BY <1>o, <1>s, <1>u
  <2>4. CASE client'[id] = client[id] /\ known'[id] = known[id]
    BY <2>1, <2>2, <2>4, <2>10, <2>11
  <2>5. CASE /\ id = f.id /\ f.type = "WATCH_OK" /\ client[id].state = "asked"
             /\ client'[id].state = "watching" /\ client'[id].path = client[id].path
             /\ known'[id] = Made(client[id].path)
    <3>1. Serving => mWatches[id] # None
      BY <2>3, <2>5 DEF IInv, OkInv
    <3>2. client'[id] # NotUsed
      BY <1>n, <2>5
    <3> QED  BY <2>1, <2>5, <3>1, <3>2
  <2>6. CASE client[id].state = "asked" /\ client'[id] = NotUsed /\ known'[id] = known[id]
    BY <1>n, <2>2, <2>6
  <2>7. CASE client'[id] = NotUsed /\ known'[id] = {}
    BY <1>n, <2>7
  <2>8. CASE client[id].state = "watching" /\ client'[id] = client[id] /\ known'[id] = Made(client[id].path)
    BY <2>1, <2>2, <2>8, <2>10, <2>11
  <2>9. CASE /\ id = f.id /\ f.type = "EVENT_BATCH" /\ client[id].state = "watching"
             /\ client'[id] = client[id] /\ known'[id] = known[id] \cup {e.change : e \in ToSet(f.events)}
    <3>1. \A k \in 1..Len(f.events) : f.events[k].change \in Made(client[id].path)
      BY <2>3, <2>9 DEF IInv, BatchInv
    <3>2. f.events \in Seq(Events)
      BY <1>f, <2>9
    <3> DEFINE s == f.events
               P == Made(client[id].path)
    <3> HIDE DEF s, P
    <3>3. {e.change : e \in ToSet(s)} \subseteq P
      BY <3>1, <3>2 DEF s, P, ToSet
    <3> QED  BY <2>1, <2>2, <2>9, <2>10, <2>11, <3>3 DEF s, P
  <2> HIDE DEF f
  <2> QED  BY <1>d, <2>4, <2>5, <2>6, <2>7, <2>8, <2>9 DEF f
<1>16. ComingInv'
  <2> SUFFICES ASSUME Serving, NEW id \in Ids, client'[id].state = "watching",
                      NEW c \in Made(client[id].path)'
               PROVE  c \in known'[id] \/ Coming(id, c)' \/ Coming(id, Missed)'
    BY <1>u DEF ComingInv, Serving
  <2> DEFINE f == Head(out)
  <2>1. f = Sent[1] /\ ~gone /\ Len(Sent) \in Nat \ {0}
    BY <1>o, <1>s, <1>u
  <2>2. CASE client'[id].path = client[id].path /\ known'[id] = Made(client[id].path)
    BY <1>u, <2>2 DEF Made
  <2>3. CASE client[id].state = "watching" /\ client'[id] = client[id] /\ known[id] \subseteq known'[id]
                /\ known'[id] # Made(client[id].path)
    <3>1. c \in Made(client[id].path)
      BY <1>u, <2>3 DEF Made
    <3>2. c \in known[id] \/ Coming(id, c) \/ Coming(id, Missed)
      BY <2>1, <2>3, <3>1 DEF IInv, ComingInv
    <3>3. f.id = id => f.type # "MISSED_EVENTS"
      BY <2>3, ReceiveLearns
    <3>4. ASSUME f.id = id, f.type = "EVENT_BATCH", NEW k \in 1..Len(f.events)
          PROVE  f.events[k].change \in known'[id] /\ f.events[k].change # Missed
      <4>1. f.events \in Seq(Events)
        BY <1>f, <3>4
      <4>2. known'[id] = known[id] \cup {e.change : e \in ToSet(f.events)}
        BY <2>3, <3>4, ReceiveLearns
      <4> DEFINE s == f.events
      <4> HIDE DEF s
      <4>3. s[k] \in Events /\ s[k] \in ToSet(s)
        BY <3>4, <4>1 DEF s, ToSet
      <4>4. s[k].change # Missed
        BY <4>3, NoneFacts DEF Events
      <4> QED  BY <4>2, <4>3, <4>4 DEF s
    <3> HIDE DEF f
    <3>5. ASSUME NEW x, Coming(id, x)
          PROVE  (x \in known'[id] /\ x # Missed) \/ Coming(id, x)'
      <4>1. ASSUME NEW i \in 1..Len(Sent), i # 1 PROVE i - 1 \in 1..Len(Sent') /\ (Sent')[i - 1] = Sent[i]
        BY <1>s, <4>1
      <4>2. CASE \E i \in 1..Len(Sent) :
                    /\ Sent[i].type = "EVENT_BATCH" /\ Sent[i].id = id
                    /\ \E k \in 1..Len(Sent[i].events) : Sent[i].events[k].change = x
        <5>1. PICK i \in 1..Len(Sent) :
                    /\ Sent[i].type = "EVENT_BATCH" /\ Sent[i].id = id
                    /\ \E k \in 1..Len(Sent[i].events) : Sent[i].events[k].change = x
          BY <4>2
        <5>2. CASE i = 1
          BY <2>1, <3>4, <5>1, <5>2
        <5>3. CASE i # 1
          <6>1. i - 1 \in 1..Len(Sent') /\ (Sent')[i - 1] = Sent[i]
            BY <4>1, <5>3
          <6> QED  BY <5>1, <6>1 DEF Coming
        <5> QED  BY <5>2, <5>3
      <4>3. CASE x = Missed /\ \E i \in 1..Len(Sent) : Sent[i].type = "MISSED_EVENTS" /\ Sent[i].id = id
        BY <2>1, <3>3, <4>1, <4>3 DEF Coming
      <4> QED  BY <1>u, <3>5, <4>2, <4>3 DEF Coming
    <3>6. c \in known[id] => c \in known'[id]
      BY <2>3
    <3> QED  BY <3>2, <3>5, <3>6
  <2>4. client'[id] = client[id] =>
            client[id].state = "watching" /\ client'[id].path = client[id].path
    OBVIOUS
  <2>5. ASSUME client'[id].state # "watching" PROVE FALSE
    BY <2>5
  <2>6. NotUsed.state # "watching"
    BY <1>n
  <2> HIDE DEF f
  <2> QED  BY <1>d, <2>2, <2>3, <2>4, <2>6
<1>17. (WorldTypes /\ BackendTypes /\ MainTypes /\ OutboxTypes /\ RequestInv)'
  BY <1>u DEF IInv, WorldTypes, BackendTypes, MainTypes, OutboxTypes, RequestInv
<1>18. ActiveInv'
  BY <1>u DEF IInv, ActiveInv
<1>19. (EndedInv /\ TakenInv)'
  BY <1>u DEF IInv, EndedInv, Running, Unwatched, TakenInv
<1> QED  BY <1>1, <1>2, <1>3, <1>4, <1>5, <1>6, <1>7, <1>8, <1>9, <1>10, <1>11, <1>12,
    <1>13, <1>14, <1>15, <1>16, <1>17, <1>18, <1>19 DEF IInv

-----------------------------------------------------------------------------
(* The invariant holds, and what it says of the properties.                *)

LEMMA InitInv == ASSUME Init PROVE IInv
<1>1. WorldTypes
  BY DEF Init, WorldTypes
<1>2. BackendTypes
  <2>1. raw \in [Keys -> Seq(RawEvents)] /\ callback \in [Keys -> {Idle} \cup Pushes]
        /\ issued \in [Keys -> Nat]
    BY DEF Init
  <2> QED  BY <2>1, FS_EmptySet DEF Init, BackendTypes
<1>3. MainTypes
  BY DEF Init, MainTypes
<1>4. OutboxTypes
  <2>1. <<>> \in Seq(Events) /\ <<>> \in Seq(Frames) /\ <<>> \in Seq(Ids)
    OBVIOUS
  <2>2. mPendingEvents \in [Ids -> Seq(Events)]
    BY <2>1 DEF Init
  <2> QED  BY <2>1, <2>2 DEF Init, OutboxTypes
<1>5. WriterTypes
  BY DEF Init, WriterTypes
<1>6. PeerTypes
  BY DEF Init, PeerTypes, Clients
<1>7. Len(mOutgoing) = 0 /\ Len(flush) = 0 /\ Len(Sent) = 0
  BY DEF Init, Sent
<1>8. (\A key \in Keys : Len(raw[key]) = 0) /\ \A id \in Ids : Len(mPendingEvents[id]) = 0
  BY DEF Init
<1>9. RequestInv /\ WriterInv
  BY <1>7 DEF Init, RequestInv, WriterInv, Running
<1>10. \A id \in Ids : client[id] = NotUsed /\ client[id].state = "none" /\ mWatches[id] = None
  BY DEF Init, NotUsed
<1>11. MapInv
  BY <1>10 DEF Init, MapInv
<1>12. PendingMapInv /\ ActiveInv /\ PathInv
  BY <1>10 DEF Init, PendingMapInv, ActiveInv, PathInv, Watching, Unwatching
<1>13. RawInv
  BY <1>8 DEF RawInv
<1>14. CallbackInv
  BY DEF Init, CallbackInv
<1>15. PendingInv
  BY <1>8 DEF PendingInv
<1>16. ReplyInv /\ OkInv /\ ErrorInv /\ LeavingInv /\ BatchInv
  BY <1>7 DEF ReplyInv, OkInv, ErrorInv, LeavingInv, BatchInv
<1>17. KnownInv
  BY <1>10 DEF Init, KnownInv
<1>18. EndedInv /\ TakenInv
  BY <1>7 DEF Init, EndedInv, TakenInv, Unwatched
<1>19. ComingInv
  BY <1>10 DEF ComingInv
<1> QED  BY <1>1, <1>2, <1>3, <1>4, <1>5, <1>6, <1>9, <1>11, <1>12, <1>13, <1>14, <1>15, <1>16,
            <1>17, <1>18, <1>19 DEF IInv

\* A step that changes nothing.
LEMMA StepStutter ==
    ASSUME IInv, UNCHANGED vars
    PROVE  IInv'
<1>u. changes' = changes /\ losses' = losses /\ active' = active /\ issued' = issued /\ raw' = raw
      /\ callback' = callback /\ watchers' = watchers /\ closing' = closing /\ mpc' = mpc /\ req' = req
      /\ handled' = handled /\ code' = code /\ mWatches' = mWatches /\ mByEfsw' = mByEfsw
      /\ mOutgoing' = mOutgoing /\ mPendingEvents' = mPendingEvents
      /\ mPendingMissed' = mPendingMissed /\ mStop' = mStop /\ wpc' = wpc /\ flush' = flush
      /\ out' = out /\ replied' = replied /\ ended' = ended /\ client' = client /\ known' = known
      /\ gone' = gone
  BY DEF vars, disk, backend, main, maps, outbox, writer, peer
<1>m. \A q : Made(q)' = Made(q)
  BY <1>u DEF Made
<1>s. Sent' = Sent
  BY <1>u DEF Sent
<1>1. (WorldTypes /\ BackendTypes /\ MainTypes /\ OutboxTypes /\ WriterTypes /\ PeerTypes)'
  BY <1>u DEF IInv, WorldTypes, BackendTypes, MainTypes, OutboxTypes, WriterTypes, PeerTypes
<1>2. (RequestInv /\ WriterInv /\ MapInv /\ PendingMapInv)'
  BY <1>u DEF IInv, RequestInv, WriterInv, MapInv, PendingMapInv, Watching, Unwatching, Running
<1>3. (ActiveInv /\ PathInv)'
  BY <1>u DEF IInv, ActiveInv, PathInv, Efsw
<1>4. (RawInv /\ CallbackInv /\ PendingInv)'
  BY <1>u, <1>m DEF IInv, RawInv, CallbackInv, PendingInv
<1>5. (ReplyInv /\ OkInv)'
  BY <1>u, <1>s DEF IInv, ReplyInv, OkInv, Serving, Watching
<1>9. (ErrorInv /\ LeavingInv)'
  BY <1>u, <1>s DEF IInv, ErrorInv, LeavingInv, Watching, Unwatching
<1>6. (BatchInv /\ KnownInv)'
  BY <1>u, <1>m, <1>s DEF IInv, BatchInv, KnownInv, Running, Serving
<1>7. (EndedInv /\ TakenInv)'
  BY <1>u DEF IInv, EndedInv, TakenInv, Unwatched, Running
<1>8. ComingInv'
  BY <1>u, <1>m, <1>s DEF IInv, ComingInv, Coming, Serving
<1> QED  BY <1>1, <1>2, <1>3, <1>4, <1>5, <1>6, <1>7, <1>8, <1>9 DEF IInv

\* Every step preserves the invariant.
LEMMA NextInv ==
    ASSUME IInv, [Next]_vars
    PROVE  IInv'
<1>1. CASE World
  BY <1>1, StepChange, StepLose, StepHangUp DEF World
<1>2. CASE NewRequest
  BY <1>2, StepWatch, StepUnwatch, StepPing, StepProtocolError DEF NewRequest
<1>3. CASE endOfInput
  <2>1. code' \in Nat /\ mpc = "read" /\ processEnds
    BY <1>3 DEF endOfInput
  <2> QED  BY <2>1, StepProcessEnds
<1>4. CASE receive
  BY <1>4, StepReceive
<1>5. ASSUME NEW key \in Keys, Callback(key)
      PROVE  IInv'
  BY <1>5, StepStartCallback, StepPush DEF Callback
<1>6. CASE handle
  BY <1>6, StepFallback, StepWatchError, StepRegister, StepWatchOk, StepRemoveWatch, StepDiscard,
     StepUnwatchOk DEF handle
<1>7. CASE Destructor
  <2>1. ASSUME exit PROVE IInv'
    <3>1. code' \in Nat /\ mpc = "join" /\ processEnds
      BY <2>1 DEF exit, IInv, MainTypes
    <3> QED  BY <3>1, StepProcessEnds
  <2> QED  BY <1>7, <2>1, StepCloseWatcher, StepJoinWatcher, StepStop DEF Destructor
<1>8. CASE writerLoop
  <2>1. ASSUME Running, writeFailed PROVE IInv'
    <3>1. code' \in Nat /\ gone /\ processEnds
      BY <2>1 DEF writeFailed
    <3> QED  BY <2>1, <3>1, StepProcessEnds
  <2>2. ASSUME Running, checkOutput PROVE IInv'
    BY <2>2, StepTake, StepWait
  <2> QED  BY <1>8, <2>1, <2>2, StepWriteOutput DEF writerLoop
<1>9. CASE terminated \/ UNCHANGED vars
  BY <1>9, StepStutter DEF terminated
<1> QED  BY <1>1, <1>2, <1>3, <1>4, <1>5, <1>6, <1>7, <1>8, <1>9 DEF Next

\* The variables of the agent keep their types, for any number of ids, directories,
\* requests and events.
THEOREM AgentTypes == Spec => []TypeOK
<1>1. Init => IInv
  BY InitInv
<1>2. IInv /\ [Next]_vars => IInv'
  BY NextInv
<1>3. IInv => TypeOK
  BY DEF IInv, TypeOK
<1> QED  BY <1>1, <1>2, <1>3, PTL DEF Spec

\* ActiveInv and MapInv, when there is no request in between.
LEMMA InvAgrees == IInv => MapsAgree
<1> SUFFICES ASSUME IInv, mpc = "read" PROVE MapsAgree
  BY DEF MapsAgree
<1>1. mByEfsw = {<<mWatches[id], id>> : id \in {i \in Ids : mWatches[i] # None}}
  BY DEF IInv, MapInv
<1>2. \A w \in active : \E id \in Ids : mWatches[id] = Efsw(w)
  BY DEF IInv, ActiveInv
<1>3. \A id \in Ids : mWatches[id] # None => \E w \in active : Efsw(w) = mWatches[id]
  BY DEF IInv, ActiveInv
<1>4. \A w \in active : Efsw(w) # None
  BY ActiveFacts, NoneFacts DEF IInv
<1>5. {Efsw(w) : w \in active} = {mWatches[id] : id \in Ids} \ {None}
  BY <1>2, <1>3, <1>4
<1> QED  BY <1>1, <1>5 DEF MapsAgree

\* Whenever the main thread waits for a request, mWatches and mByEfsw are one relation,
\* and the watches in it are those that run: for any ids, directories and requests.
THEOREM AgentMapsAgree == Spec => []MapsAgree
<1>1. Init => IInv
  BY InitInv
<1>2. IInv /\ [Next]_vars => IInv'
  BY NextInv
<1> QED  BY <1>1, <1>2, InvAgrees, PTL DEF Spec

\* What the client does not know is coming, and nothing is.
LEMMA InvNothingLost == IInv => NoChangeLost
<1> SUFFICES ASSUME IInv, Delivered, NEW id \in Ids, client[id].state = "watching", Serving, ~gone
             PROVE  known[id] = Made(client[id].path)
  BY DEF NoChangeLost
<1>1. known[id] \subseteq Made(client[id].path)
  BY DEF IInv, KnownInv
<1>2. Len(Sent) = 0 /\ Len(mPendingMissed) = 0 /\ Len(mPendingEvents[id]) = 0
  BY DEF Delivered, NothingPending, Sent
<1>3. \A key \in Keys : Len(raw[key]) = 0 /\ callback[key] = Idle
  BY DEF Delivered
<1>4. \A c : ~Coming(id, c)
  BY <1>2, <1>3 DEF Coming
<1>5. Made(client[id].path) \subseteq known[id]
  BY <1>4 DEF IInv, ComingInv
<1> QED  BY <1>1, <1>5

\* When nothing is on its way, the client knows every change of a directory it watches,
\* however many events were made, dropped, batched or replaced by a missed event.
THEOREM AgentLosesNoChange == Spec => []NoChangeLost
<1>1. Init => IInv
  BY InitInv
<1>2. IInv /\ [Next]_vars => IInv'
  BY NextInv
<1> QED  BY <1>1, <1>2, InvNothingLost, PTL DEF Spec

\* The first frame of the writer's has no event of a watch that has ended.
LEMMA InvSilent ==
    ASSUME IInv, writeOutput, Head(flush).type = "EVENT_BATCH"
    PROVE  \A e \in ToSet(Head(flush).events) : e.efsw \notin ended
<1>1. Running /\ flush # <<>> /\ flush \in Seq(Frames)
  BY DEF IInv, WriterInv, WriterTypes, writeOutput, Running
<1>2. Head(flush) = flush[1] /\ 1 \in 1..Len(flush) /\ flush[1] \in Frames
  BY <1>1
<1>3. \A k \in 1..Len(flush[1].events) : flush[1].events[k].efsw \notin ended
  BY <1>1, <1>2 DEF IInv, TakenInv
<1>4. flush[1].events \in Seq(Events)
  BY <1>2, FrameFields
<1> DEFINE s == flush[1].events
<1> HIDE DEF s
<1>5. \A e \in ToSet(s) : \E k \in 1..Len(s) : e = s[k]
  BY <1>4 DEF s, ToSet
<1> QED  BY <1>2, <1>3, <1>5 DEF s

\* No event of a watch is written after the UNWATCH_OK that ended it, whatever the
\* callbacks and the writer held when the UNWATCH came.
THEOREM AgentStaysSilent == Spec => NoEventAfterUnwatch
<1>1. Init => IInv
  BY InitInv
<1>2. IInv /\ [Next]_vars => IInv'
  BY NextInv
<1>3. IInv => [writeOutput /\ Head(flush).type = "EVENT_BATCH" =>
                    \A e \in ToSet(Head(flush).events) : e.efsw \notin ended]_vars
  BY InvSilent
<1> QED  BY <1>1, <1>2, <1>3, PTL DEF Spec, NoEventAfterUnwatch
=============================================================================
