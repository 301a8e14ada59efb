-------------------------- MODULE AgentChannelProofs --------------------------
(***************************************************************************)
(* Proof that Agent implements WatchChannel: the requests that have no     *)
(* reply yet are the replies on their way and the request being handled,   *)
(* and every step of the agent is a step of the channel or none.           *)
(***************************************************************************)
EXTENDS AgentProofs

-----------------------------------------------------------------------------
(* The replies among the frames.                                           *)

Requests == [kind : {"watch", "unwatch"}, id : Ids] \cup [kind : {"other"}]
IsReply(frame) == frame.type \notin {"EVENT_BATCH", "MISSED_EVENTS"}
ReplyFrames(frames) == Kept(frames, {i \in DOMAIN frames : IsReply(frames[i])})

LEMMA AskedRequest ==
    ASSUME NEW f \in Frames, IsReply(f)
    PROVE  Asked(f) \in Requests
<1>1. f.type \in {"PONG", "ERROR", "WATCH_OK", "WATCH_ERROR", "UNWATCH_OK"}
  BY FrameFields DEF IsReply
<1>2. f.type \notin {"PONG", "ERROR"} => f.id \in Ids
  BY FrameFields
<1>3. CASE f.type \in {"WATCH_OK", "WATCH_ERROR"}
  BY <1>2, <1>3 DEF Asked, Requests
<1>4. CASE f.type = "UNWATCH_OK"
  BY <1>2, <1>4 DEF Asked, Requests
<1>5. CASE f.type \in {"PONG", "ERROR"}
  BY <1>5 DEF Asked, Requests
<1> QED  BY <1>1, <1>3, <1>4, <1>5

LEMMA RepliesAre ==
    ASSUME NEW s \in Seq(Frames)
    PROVE  /\ ReplyFrames(s) \in Seq(Frames)
           /\ Replies(s) \in Seq(Requests) /\ Len(Replies(s)) = Len(ReplyFrames(s))
           /\ \A i \in 1..Len(ReplyFrames(s)) : Replies(s)[i] = Asked(ReplyFrames(s)[i])
<1> DEFINE r == ReplyFrames(s)
           P == {i \in DOMAIN s : IsReply(s[i])}
<1>1. r \in Seq(Frames) /\ \A i \in 1..Len(r) : \E j \in 1..Len(s) : j \in P /\ s[j] = r[i]
  <2> HIDE DEF P
  <2>1. ASSUME NEW places
        PROVE  /\ Kept(s, places) \in Seq(Frames)
               /\ \A i \in 1..Len(Kept(s, places)) :
                    \E j \in 1..Len(s) : j \in places /\ s[j] = Kept(s, places)[i]
    BY KeptElements, SMTT(20)
  <2>2. r = Kept(s, P)
    BY DEF P, ReplyFrames
  <2> HIDE DEF r
  <2> QED  BY <2>1, <2>2
<1>2. Replies(s) = [i \in DOMAIN r |-> Asked(r[i])]
  BY DEF Replies, ReplyFrames, IsReply
<1> HIDE DEF r
<1>3. ASSUME NEW i \in 1..Len(r) PROVE Asked(r[i]) \in Requests
  <2>1. r[i] \in Frames /\ IsReply(r[i])
    BY <1>1
  <2> QED  BY <2>1, AskedRequest
<1>4. DOMAIN r = 1..Len(r) /\ Len(r) \in Nat
  BY <1>1
<1> QED  BY <1>1, <1>2, <1>3, <1>4 DEF r

\* No frames, no replies.
LEMMA RepliesNone == Replies(<<>>) = <<>>
<1>1. <<>> \in Seq(Frames) /\ Len(<<>>) = 0
  OBVIOUS
<1>2. ReplyFrames(<<>>) \in Seq(Frames) /\ Len(ReplyFrames(<<>>)) = 0
  <2>1. ASSUME NEW P PROVE Kept(<<>>, P) \in Seq(Frames) /\ Len(Kept(<<>>, P)) = 0
    <3>1. /\ Kept(<<>>, P) \in Seq(Frames)
          /\ \A i \in 1..Len(Kept(<<>>, P)) : \E j \in 1..Len(<<>>) : j \in P
      BY <1>1, KeptElements
    <3>2. \A i \in 1..Len(Kept(<<>>, P)) : FALSE
      BY <1>1, <3>1
    <3> QED  BY <3>1, <3>2
  <2> QED  BY <2>1 DEF ReplyFrames
<1> QED  BY <1>1, <1>2, RepliesAre

\* A reply sent is one more, the last ...
LEMMA RepliesSend ==
    ASSUME NEW s \in Seq(Frames), NEW f \in Frames, IsReply(f)
    PROVE  Replies(Append(s, f)) = Append(Replies(s), Asked(f))
<1> DEFINE t == Append(s, f)
<1>1. t \in Seq(Frames) /\ Len(t) = Len(s) + 1 /\ Len(s) \in Nat
      /\ (\A i \in 1..Len(s) : t[i] = s[i]) /\ t[Len(s) + 1] = f
  OBVIOUS
<1>2. DOMAIN t = 1..(Len(s) + 1) /\ DOMAIN s = 1..Len(s)
  BY <1>1
<1> DEFINE P == {i \in DOMAIN s : IsReply(s[i])}
           Q == {i \in DOMAIN t : IsReply(t[i])}
<1> HIDE DEF t
<1>3. (\A i \in 1..Len(s) : i \in P <=> i \in Q) /\ Len(s) + 1 \in Q
  BY <1>1, <1>2
<1> HIDE DEF P, Q
<1>4. Kept(t, Q) = Append(Kept(s, P), f)
  BY <1>3, KeptLast DEF t
<1>5. ReplyFrames(t) = Append(ReplyFrames(s), f)
  BY <1>4 DEF ReplyFrames, P, Q
<1> DEFINE r == ReplyFrames(s)
<1>6. /\ r \in Seq(Frames) /\ Replies(s) \in Seq(Requests) /\ Len(Replies(s)) = Len(r)
      /\ \A i \in 1..Len(r) : Replies(s)[i] = Asked(r[i])
  BY RepliesAre
<1>7. /\ Replies(t) \in Seq(Requests) /\ Len(Replies(t)) = Len(Append(r, f))
      /\ \A i \in 1..Len(Append(r, f)) : Replies(t)[i] = Asked(Append(r, f)[i])
  BY <1>1, <1>5, RepliesAre
<1> HIDE DEF r
<1>8. Len(Append(r, f)) = Len(r) + 1 /\ Len(r) \in Nat /\ Append(r, f)[Len(r) + 1] = f
      /\ \A i \in 1..Len(r) : Append(r, f)[i] = r[i]
  BY <1>6
<1>9. Asked(f) \in Requests
  BY AskedRequest
<1> DEFINE u == Append(Replies(s), Asked(f))
<1>10. u \in Seq(Requests) /\ Len(u) = Len(r) + 1 /\ u[Len(r) + 1] = Asked(f)
       /\ \A i \in 1..Len(r) : u[i] = Replies(s)[i]
  BY <1>6, <1>9
<1> HIDE DEF u
<1>11. ASSUME NEW i \in 1..(Len(r) + 1) PROVE Replies(t)[i] = u[i]
  <2>1. CASE i = Len(r) + 1
    BY <1>7, <1>8, <1>10, <2>1
  <2>2. CASE i \in 1..Len(r)
    BY <1>6, <1>7, <1>8, <1>10, <2>2
  <2> QED  BY <1>8, <2>1, <2>2
<1>12. Replies(t) = u
  BY <1>7, <1>8, <1>10, <1>11, SeqEqual
<1> QED  BY <1>12 DEF t, u

\* ... what is no reply is none ...
LEMMA RepliesTake ==
    ASSUME NEW s \in Seq(Frames), NEW M \in Seq(Frames), \A i \in 1..Len(M) : ~IsReply(M[i])
    PROVE  Replies(s \o M) = Replies(s)
<1> DEFINE t == s \o M
           P == {i \in DOMAIN s : IsReply(s[i])}
           Q == {i \in DOMAIN t : IsReply(t[i])}
<1>1. t \in Seq(Frames) /\ Len(t) = Len(s) + Len(M) /\ Len(s) \in Nat /\ Len(M) \in Nat
      /\ (\A i \in 1..Len(s) : t[i] = s[i]) /\ \A i \in 1..Len(M) : t[Len(s) + i] = M[i]
  BY ConcatElements
<1> HIDE DEF t
<1>2. DOMAIN t = 1..Len(t) /\ DOMAIN s = 1..Len(s)
  BY <1>1
<1>3. ASSUME NEW i \in (Len(s) + 1)..Len(t) PROVE i \notin Q
  <2>1. i - Len(s) \in 1..Len(M) /\ Len(s) + (i - Len(s)) = i
    BY <1>1
  <2>2. t[i] = M[i - Len(s)]
    BY <1>1, <2>1
  <2> QED  BY <2>1, <2>2
<1>4. \A i \in 1..Len(s) : s[i] = t[i] /\ (i \in P <=> i \in Q)
  BY <1>1, <1>2
<1>5. Len(s) <= Len(t)
  BY <1>1
<1> HIDE DEF P, Q
<1>6. Kept(t, Q) = Kept(s, P)
  BY <1>1, <1>3, <1>4, <1>5, KeptPrefix
<1> QED  BY <1>6 DEF Replies, P, Q, t, IsReply

\* ... and the first reply is the first to be read.
LEMMA RepliesReceive ==
    ASSUME NEW s \in Seq(Frames), s # <<>>
    PROVE  /\ ~IsReply(Head(s)) => Replies(Tail(s)) = Replies(s)
           /\ IsReply(Head(s)) => Replies(s) = <<Asked(Head(s))>> \o Replies(Tail(s))
<1> DEFINE t == Tail(s)
           P == {i \in DOMAIN s : IsReply(s[i])}
           Q == {i \in DOMAIN t : IsReply(t[i])}
           r == ReplyFrames(t)
<1>1. /\ t \in Seq(Frames) /\ Len(t) = Len(s) - 1 /\ Len(s) \in Nat \ {0} /\ Head(s) = s[1] /\ s[1] \in Frames
      /\ \A i \in 1..Len(t) : i + 1 \in 1..Len(s) /\ t[i] = s[i + 1]
  BY TailElements
<1> HIDE DEF t
<1>2. DOMAIN t = 1..Len(t) /\ DOMAIN s = 1..Len(s) /\ 1 \in 1..Len(s)
  BY <1>1
<1>3. \A i \in 1..(Len(s) - 1) : i \in Q <=> i + 1 \in P
  BY <1>1, <1>2
<1>4. 1 \in P <=> IsReply(Head(s))
  BY <1>1, <1>2
<1> HIDE DEF P, Q
<1>5. Kept(s, P) = IF 1 \in P THEN <<Head(s)>> \o Kept(t, Q) ELSE Kept(t, Q)
  BY <1>3, KeptFirst DEF t
<1>6. ReplyFrames(s) = IF IsReply(Head(s)) THEN <<Head(s)>> \o r ELSE r
  BY <1>4, <1>5 DEF P, Q, ReplyFrames
<1>7. CASE ~IsReply(Head(s))
  <2>1. Replies(s) = Replies(t)
    BY <1>6, <1>7 DEF Replies, ReplyFrames, IsReply
  <2> QED  BY <1>7, <2>1 DEF t
<1>8. CASE IsReply(Head(s))
  <2>1. /\ r \in Seq(Frames) /\ Replies(t) \in Seq(Requests) /\ Len(Replies(t)) = Len(r)
        /\ \A i \in 1..Len(r) : Replies(t)[i] = Asked(r[i])
    BY <1>1, RepliesAre
  <2> DEFINE h == Head(s)
             v == <<h>> \o r
             u == <<Asked(h)>> \o Replies(t)
  <2>2. /\ v \in Seq(Frames) /\ Replies(s) \in Seq(Requests) /\ Len(Replies(s)) = Len(v)
        /\ \A i \in 1..Len(v) : Replies(s)[i] = Asked(v[i])
    BY <1>6, <1>8, RepliesAre
  <2> HIDE DEF r, h
  <2>3. h \in Frames /\ Asked(h) \in Requests
    BY <1>1, <1>8, AskedRequest DEF h
  <2>4. <<h>> \in Seq(Frames) /\ Len(<<h>>) = 1 /\ <<h>>[1] = h
    BY <2>3
  <2>5. <<Asked(h)>> \in Seq(Requests) /\ Len(<<Asked(h)>>) = 1 /\ <<Asked(h)>>[1] = Asked(h)
    BY <2>3
  <2>6. Len(v) = Len(r) + 1 /\ Len(r) \in Nat /\ v[1] = h /\ \A i \in 1..Len(r) : v[i + 1] = r[i]
    BY <2>1, <2>4
  <2>7. u \in Seq(Requests) /\ Len(u) = Len(r) + 1 /\ u[1] = Asked(h)
        /\ \A i \in 1..Len(r) : u[i + 1] = Replies(t)[i]
    BY <2>1, <2>5
  <2> HIDE DEF v, u
  <2>8. ASSUME NEW i \in 1..Len(u) PROVE Replies(s)[i] = u[i]
    <3>1. CASE i = 1
      BY <2>2, <2>6, <2>7, <3>1
    <3>2. CASE i # 1
      <4>1. i - 1 \in 1..Len(r) /\ (i - 1) + 1 = i /\ i \in 1..Len(v)
        BY <2>6, <2>7, <3>2
      <4>2. u[i] = Replies(t)[i - 1] /\ v[i] = r[i - 1]
        BY <2>6, <2>7, <4>1
      <4> QED  BY <2>1, <2>2, <4>1, <4>2
    <3> QED  BY <3>1, <3>2
  <2>9. Replies(s) = u
    BY <2>2, <2>6, <2>7, <2>8, SeqEqual
  <2> QED  BY <1>8, <2>9 DEF u, h, t
<1> QED  BY <1>7, <1>8

-----------------------------------------------------------------------------
(* What has no reply yet.                                                  *)

Handled == IF req = NoRequest THEN <<>> ELSE <<[kind |-> req.kind, id |-> req.id]>>

LEMMA UnansweredIs == Unanswered = IF gone THEN <<>> ELSE Replies(Sent) \o Handled
BY DEF Unanswered, Sent, Handled

LEMMA UnansweredType ==
    ASSUME IInv
    PROVE  /\ Sent \in Seq(Frames) /\ Replies(Sent) \in Seq(Requests)
           /\ (Replies(Sent) \o <<>>) = Replies(Sent)
<1>1. Sent \in Seq(Frames)
  BY SentType DEF IInv
<1>2. Replies(Sent) \in Seq(Requests)
  BY <1>1, RepliesAre
<1> QED  BY <1>1, <1>2, ConcatEmptySeq

\* handle() has no request while the main thread reads the next one.
LEMMA ReadNothing == ASSUME IInv, mpc = "read" PROVE Handled = <<>>
BY DEF IInv, RequestInv, Handled

\* The request that is being handled.
LEMMA RequestKinds ==
    ASSUME IInv, req # NoRequest, ~gone
    PROVE  [kind |-> req.kind, id |-> req.id] \in Requests
<1>1. req \in Opened \cup Refused \cup Unwatches
  BY DEF IInv, RequestInv, MainTypes
<1> QED  BY <1>1, RequestFields DEF Requests

\* A request of the client is asked for.
LEMMA RequestAsked ==
    ASSUME IInv, mpc = "read", gone' = gone, Sent' = Sent, req' \in Opened \cup Refused \cup Unwatches
    PROVE  Unanswered' = IF ~gone THEN Append(Unanswered, [kind |-> req'.kind, id |-> req'.id])
                         ELSE Unanswered
<1>1. Replies(Sent) \in Seq(Requests) /\ (Replies(Sent) \o <<>>) = Replies(Sent)
  BY UnansweredType
<1>2. req' # NoRequest /\ [kind |-> req'.kind, id |-> req'.id] \in Requests
  BY RequestFields DEF Requests
<1> DEFINE q == [kind |-> req'.kind, id |-> req'.id]
<1>3. Handled' = <<q>>
  BY <1>2 DEF Handled
<1>4. Handled = <<>>
  BY ReadNothing
<1>5. Replies(Sent)' = Replies(Sent)
  BY Zenon
<1> HIDE DEF q
<1>6. Append(Replies(Sent), q) = Replies(Sent) \o <<q>>
  BY <1>1, <1>2, AppendIsConcat DEF q
<1>7. Unanswered' = IF gone THEN <<>> ELSE Replies(Sent) \o <<q>>
  <2>1. Unanswered' = IF gone' THEN <<>> ELSE Replies(Sent)' \o Handled'
    BY DEF Unanswered, Sent, Handled
  <2> QED  BY <2>1, <1>3, <1>5
<1>8. Unanswered = IF gone THEN <<>> ELSE Replies(Sent)
  BY <1>1, <1>4, UnansweredIs
<1> QED  BY <1>6, <1>7, <1>8 DEF q

\* A reply that is sent at once to a request that is read.
LEMMA RequestAnswered ==
    ASSUME IInv, mpc = "read", gone' = gone, req' = req, NEW f \in Frames, IsReply(f),
           Asked(f) = [kind |-> "other"], Sent' = Append(Sent, f)
    PROVE  Unanswered' = IF ~gone THEN Append(Unanswered, [kind |-> "other"]) ELSE Unanswered
<1>1. /\ Sent \in Seq(Frames) /\ Replies(Sent) \in Seq(Requests)
      /\ (Replies(Sent) \o <<>>) = Replies(Sent)
  BY UnansweredType
<1>2. Handled = <<>> /\ Handled' = <<>>
  BY ReadNothing DEF Handled
<1>3. Replies(Sent)' = Append(Replies(Sent), [kind |-> "other"])
  <2>1. Replies(Append(Sent, f)) = Append(Replies(Sent), Asked(f))
    BY <1>1, RepliesSend
  <2>2. Replies(Sent)' = Replies(Append(Sent, f))
    BY Zenon
  <2> QED  BY <2>1, <2>2
<1> DEFINE u == Append(Replies(Sent), [kind |-> "other"])
<1>4. (u \o <<>>) = u
  <2>1. [kind |-> "other"] \in Requests
    BY DEF Requests
  <2>2. u \in Seq(Requests)
    BY <1>1, <2>1
  <2> QED  BY <2>2, ConcatEmptySeq
<1>5. Unanswered' = IF gone THEN <<>> ELSE u
  <2>1. Unanswered' = IF gone' THEN <<>> ELSE Replies(Sent)' \o Handled'
    BY DEF Unanswered, Sent, Handled
  <2> HIDE DEF u
  <2>2. Replies(Sent)' = u
    BY <1>3 DEF u
  <2> QED  BY <2>1, <2>2, <1>2, <1>4
<1>6. Unanswered = IF gone THEN <<>> ELSE Replies(Sent)
  BY <1>1, <1>2, UnansweredIs
<1> QED  BY <1>5, <1>6

\* The reply to the request that was being handled takes its place.
LEMMA ReplySent ==
    ASSUME IInv, gone' = gone, req # NoRequest, req' = NoRequest, NEW f \in Frames, IsReply(f),
           Asked(f) = [kind |-> req.kind, id |-> req.id], Sent' = Append(Sent, f)
    PROVE  Unanswered' = Unanswered
<1>1. /\ Sent \in Seq(Frames) /\ Replies(Sent) \in Seq(Requests)
  BY UnansweredType
<1> DEFINE q == Asked(f)
<1>2. Handled = <<q>> /\ Handled' = <<>>
  BY DEF Handled
<1>3. q \in Requests
  BY AskedRequest
<1>4. Replies(Sent)' = Append(Replies(Sent), q)
  <2>1. Replies(Append(Sent, f)) = Append(Replies(Sent), Asked(f))
    BY <1>1, RepliesSend
  <2>2. Replies(Sent)' = Replies(Append(Sent, f))
    BY Zenon
  <2> QED  BY <2>1, <2>2
<1> HIDE DEF q
<1>5. /\ Append(Replies(Sent), q) = Replies(Sent) \o <<q>>
      /\ Append(Replies(Sent), q) \in Seq(Requests)
  BY <1>1, <1>3, AppendIsConcat
<1>6. (Append(Replies(Sent), q) \o <<>>) = Append(Replies(Sent), q)
  BY <1>5, ConcatEmptySeq
<1>7. Unanswered' = IF gone' THEN <<>> ELSE Replies(Sent)' \o Handled'
  BY DEF Unanswered, Sent, Handled
<1> QED  BY <1>2, <1>4, <1>5, <1>6, <1>7, UnansweredIs

\* What is neither request nor reply changes nothing of it.
LEMMA NothingAsked ==
    ASSUME gone' = gone, Replies(Sent)' = Replies(Sent),
           \/ req' = req
           \/ req # NoRequest /\ req' # NoRequest /\ req'.kind = req.kind /\ req'.id = req.id
    PROVE  Unanswered' = Unanswered
<1>1. Handled' = Handled
  BY DEF Handled
<1>2. Unanswered' = IF gone' THEN <<>> ELSE Replies(Sent)' \o Handled'
  BY DEF Unanswered, Sent, Handled
<1> QED  BY <1>1, <1>2, UnansweredIs

-----------------------------------------------------------------------------
(* The steps of the agent, as steps of the channel.                        *)

ChannelStep == [Channel!Next]_(Channel!vars)

LEMMA Quiet ==
    ASSUME UNCHANGED <<changes, client, known, gone>>, Unanswered' = Unanswered
    PROVE  ChannelStep
BY DEF ChannelStep, Channel!vars

\* A frame sent goes to the end.
LEMMA SentAppend ==
    ASSUME IInv, NEW f \in Frames, mOutgoing' = Append(mOutgoing, f), UNCHANGED <<flush, out>>
    PROVE  Sent' = Append(Sent, f)
<1>1. out \in Seq(Frames) /\ flush \in Seq(Frames) /\ mOutgoing \in Seq(Frames) /\ <<f>> \in Seq(Frames)
  BY DEF IInv, OutboxTypes, WriterTypes
<1> DEFINE s == out \o flush
<1>2. s \in Seq(Frames) /\ Sent \in Seq(Frames)
  BY <1>1, ConcatProperties DEF Sent
<1>3. Sent' = s \o Append(mOutgoing, f)
  BY DEF Sent
<1>4. Append(mOutgoing, f) = mOutgoing \o <<f>> /\ Append(Sent, f) = Sent \o <<f>>
  BY <1>1, <1>2, AppendIsConcat
<1> HIDE DEF s
<1>5. (s \o mOutgoing) \o <<f>> = s \o (mOutgoing \o <<f>>)
  <2>1. \A a, b, c \in Seq(Frames) : (a \o b) \o c = a \o (b \o c)
    BY ConcatAssociative, SMTT(30)
  <2> QED  BY <1>1, <1>2, <2>1, ZenonT(20)
<1>6. Sent = s \o mOutgoing
  BY DEF Sent, s
<1> QED  BY <1>3, <1>4, <1>5, <1>6

\* WATCH and UNWATCH are asked for as they are read; HELLO and PING, and what is no
\* frame, are answered at once.
LEMMA WatchStep ==
    ASSUME IInv, NEW id \in Ids, NEW path \in Paths, NEW generic \in BOOLEAN,
           watch(id, path, generic)
    PROVE  ChannelStep
<1>1. mpc = "read" /\ gone' = gone /\ changes' = changes /\ known' = known
      /\ out' = out /\ flush' = flush /\ mOutgoing' = mOutgoing
  BY DEF watch, Read, disk, outbox, writer
<1>2. req' \in Opened \cup Refused /\ req'.id = id
  <2>1. PICK key \in Keys : fileWatcherAddWatch(id, path, key)
    BY DEF watch, Keys
  <2> QED  BY <2>1, AddWatchCases DEF IInv
<1>3. req'.kind = "watch"
  BY <1>2, RequestFields
<1>4. Sent' = Sent
  BY <1>1 DEF Sent
<1>5. Unanswered' = IF ~gone THEN Append(Unanswered, [kind |-> "watch", id |-> id]) ELSE Unanswered
  BY <1>1, <1>2, <1>3, <1>4, RequestAsked
<1>6. client[id] = NotUsed /\ client' = [client EXCEPT ![id] = [state |-> "asked", path |-> path]]
  BY DEF watch
<1>7. Channel!Watch(id, path)
  BY <1>1, <1>5, <1>6 DEF Channel!Watch, Channel!Ask, Channel!NotUsed, NotUsed
<1> QED  BY <1>7 DEF ChannelStep, Channel!Next

LEMMA UnwatchStep ==
    ASSUME IInv, NEW id \in Ids, unwatch(id)
    PROVE  ChannelStep
<1>1. mpc = "read" /\ gone' = gone /\ changes' = changes /\ known' = known
      /\ out' = out /\ flush' = flush /\ mOutgoing' = mOutgoing
  BY DEF unwatch, Read, disk, outbox, writer
<1>2. req' \in Unwatches /\ req'.id = id
  BY RequestsMade DEF unwatch, IInv, MainTypes
<1>3. req'.kind = "unwatch"
  BY <1>2, RequestFields
<1>4. Sent' = Sent
  BY <1>1 DEF Sent
<1>5. Unanswered' = IF ~gone THEN Append(Unanswered, [kind |-> "unwatch", id |-> id]) ELSE Unanswered
  BY <1>1, <1>2, <1>3, <1>4, RequestAsked
<1>6. /\ client[id].state \in {"asked", "watching"}
      /\ client' = [client EXCEPT ![id].state = "leaving"]
  BY DEF unwatch
<1>7. Channel!Unwatch(id)
  BY <1>1, <1>5, <1>6 DEF Channel!Unwatch, Channel!Ask
<1> QED  BY <1>7 DEF ChannelStep, Channel!Next

LEMMA OtherStep ==
    ASSUME IInv, ping \/ protocolError
    PROVE  ChannelStep
<1>1. PICK f \in Frames : f.type \in {"PONG", "ERROR"} /\ mOutgoing' = Append(mOutgoing, f)
  BY FramesMade DEF ping, protocolError, send
<1>2. UNCHANGED <<changes, client, known, gone, flush, out, req>> /\ mpc = "read"
  BY DEF ping, protocolError, Read, send, disk, peer
<1>3. Sent' = Append(Sent, f)
  BY <1>1, <1>2, SentAppend
<1>4. IsReply(f) /\ Asked(f) = [kind |-> "other"]
  BY <1>1 DEF IsReply, Asked
<1>5. Unanswered' = IF ~gone THEN Append(Unanswered, [kind |-> "other"]) ELSE Unanswered
  BY <1>2, <1>3, <1>4, RequestAnswered
<1>6. Channel!Other
  BY <1>2, <1>5 DEF Channel!Other, Channel!Ask
<1> QED  BY <1>6 DEF ChannelStep, Channel!Next

\* What handle() sends is the reply to its request.
LEMMA ReplyStep ==
    ASSUME IInv, watchError \/ watchOk \/ unwatchOk
    PROVE  ChannelStep
<1>1. UNCHANGED <<changes, client, known, gone, flush, out>> /\ req' = NoRequest
  BY DEF watchError, watchOk, unwatchOk, send, disk, peer
<1>2. \E f \in Frames : /\ mOutgoing' = Append(mOutgoing, f) /\ IsReply(f) /\ req # NoRequest
                        /\ Asked(f) = [kind |-> req.kind, id |-> req.id]
  <2>1. CASE watchError
    <3> DEFINE f == [type |-> "WATCH_ERROR", id |-> req.id]
    <3>1. req \in Refused
      BY <2>1 DEF watchError, IInv, RequestInv
    <3>2. req # NoRequest /\ req.kind = "watch" /\ f \in Frames
      BY <3>1, RequestFields, FramesMade
    <3>3. Asked(f) = [kind |-> "watch", id |-> req.id] /\ IsReply(f)
      BY DEF Asked, IsReply
    <3> QED  BY <2>1, <3>2, <3>3 DEF watchError, send
  <2>2. CASE watchOk
    <3> DEFINE f == [type |-> "WATCH_OK", id |-> req.id]
    <3>1. req \in Opened
      BY <2>2 DEF watchOk, IInv, RequestInv
    <3>2. req # NoRequest /\ req.kind = "watch" /\ f \in Frames
      BY <3>1, RequestFields, FramesMade
    <3>3. Asked(f) = [kind |-> "watch", id |-> req.id] /\ IsReply(f)
      BY DEF Asked, IsReply
    <3> QED  BY <2>2, <3>2, <3>3 DEF watchOk, send
  <2>3. CASE unwatchOk
    <3> DEFINE f == [type |-> "UNWATCH_OK", id |-> req.id, efsw |-> req.efsw]
    <3>1. req \in Unwatches
      BY <2>3 DEF unwatchOk, IInv, RequestInv
    <3>2. req # NoRequest /\ req.kind = "unwatch" /\ f \in Frames
      BY <3>1, RequestFields, FramesMade
    <3>3. Asked(f) = [kind |-> "unwatch", id |-> req.id] /\ IsReply(f)
      BY DEF Asked, IsReply
    <3> QED  BY <2>3, <3>2, <3>3 DEF unwatchOk, send
  <2> QED  BY <2>1, <2>2, <2>3
<1>3. PICK f \in Frames : /\ mOutgoing' = Append(mOutgoing, f) /\ IsReply(f) /\ req # NoRequest
                          /\ Asked(f) = [kind |-> req.kind, id |-> req.id]
  BY <1>2
<1>4. Sent' = Append(Sent, f)
  BY <1>1, <1>3, SentAppend
<1>5. Unanswered' = Unanswered
  BY <1>1, <1>3, <1>4, ReplySent
<1> QED  BY <1>1, <1>5, Quiet

\* The writer adds missed events and batches, and no reply.
LEMMA TakeStep ==
    ASSUME IInv, Running, checkOutput
    PROVE  ChannelStep
<1>1. UNCHANGED <<changes, client, known, gone, out, req>> /\ wpc = "check"
  BY DEF checkOutput, disk, main, peer
<1>2. Replies(Sent)' = Replies(Sent)
  <2>1. CASE NothingPending
    <3>1. Sent' = Sent
      BY <1>1, <2>1 DEF checkOutput, takeNothing, Sent
    <3> QED  BY <3>1, Zenon
  <2>2. CASE ~NothingPending
    <3>1. takeOutput
      BY <2>2 DEF checkOutput
    <3>2. PICK M \in Seq(Frames) : /\ flush' = mOutgoing \o M /\ mOutgoing' = <<>>
                                   /\ \A i \in 1..Len(M) : M[i].type \in {"MISSED_EVENTS", "EVENT_BATCH"}
      BY <3>1, AgentAssumption, TakeCases DEF IInv
    <3>3. flush = <<>>
      BY <1>1 DEF IInv, WriterInv
    <3>4. Sent' = Sent \o M
      BY <1>1, <3>2, <3>3, SentTake DEF IInv
    <3>5. Replies(Sent \o M) = Replies(Sent)
      BY <3>2, UnansweredType, RepliesTake DEF IsReply
    <3>6. Replies(Sent)' = Replies(Sent \o M)
      BY <3>4, Zenon
    <3> QED  BY <3>5, <3>6
  <2> QED  BY <2>1, <2>2
<1>3. Unanswered' = Unanswered
  BY <1>1, <1>2, NothingAsked
<1> QED  BY <1>1, <1>3, Quiet

\* What the client reads is a reply, or tells it of changes of the directory.
LEMMA ReceiveStep ==
    ASSUME IInv, receive
    PROVE  ChannelStep
<1> DEFINE f == Head(out)
           id == f.id
<1>1. UNCHANGED <<changes, flush, mOutgoing, req, mpc, gone>> /\ ~gone /\ out # <<>> /\ out' = Tail(out)
  BY ReceiveCases DEF receive, disk, outbox, writer, main
<1>2. Sent' = Tail(Sent) /\ Sent # <<>> /\ f = Head(Sent) /\ f \in Frames /\ Sent \in Seq(Frames)
  <2>1. Head(out) = Sent[1] /\ Sent' = Tail(Sent) /\ Sent # <<>> /\ Head(out) \in Frames
    BY <1>1, SentReceive DEF IInv
  <2> QED  BY <2>1, UnansweredType
<1>3. f.type \notin {"PONG", "ERROR"} => id \in Ids
  BY <1>2, FrameFields
<1>4. /\ ~IsReply(f) => Replies(Sent)' = Replies(Sent)
      /\ IsReply(f) => Replies(Sent) = <<Asked(f)>> \o Replies(Sent)'
  <2>1. /\ ~IsReply(f) => Replies(Tail(Sent)) = Replies(Sent)
        /\ IsReply(f) => Replies(Sent) = <<Asked(f)>> \o Replies(Tail(Sent))
    BY <1>2, RepliesReceive
  <2>2. Replies(Sent)' = Replies(Tail(Sent))
    BY <1>2, Zenon
  <2> QED  BY <2>1, <2>2
<1> HIDE DEF f, id
<1>5. ~IsReply(f) => Unanswered' = Unanswered
  BY <1>1, <1>4, NothingAsked
<1>6. IsReply(f) => Unanswered # <<>> /\ Head(Unanswered) = Asked(f) /\ Unanswered' = Tail(Unanswered)
  <2> SUFFICES ASSUME IsReply(f)
               PROVE  Unanswered # <<>> /\ Head(Unanswered) = Asked(f) /\ Unanswered' = Tail(Unanswered)
    OBVIOUS
  <2> DEFINE rest == Replies(Sent)' \o Handled
  <2>1. Replies(Sent)' \in Seq(Requests)
    <3>1. Tail(Sent) \in Seq(Frames)
      BY <1>2
    <3>2. Replies(Tail(Sent)) \in Seq(Requests)
      BY <3>1, RepliesAre
    <3>3. Replies(Sent)' = Replies(Tail(Sent))
      BY <1>2, Zenon
    <3> QED  BY <3>2, <3>3
  <2>2. Handled \in Seq(Requests)
    BY <1>1, RequestKinds DEF Handled
  <2>3. <<Asked(f)>> \in Seq(Requests) /\ Asked(f) \in Requests
    BY <1>2, AskedRequest
  <2>4. (<<Asked(f)>> \o Replies(Sent)') \o Handled = <<Asked(f)>> \o rest
    <3>1. \A a, b, c \in Seq(Requests) : (a \o b) \o c = a \o (b \o c)
      BY ConcatAssociative
    <3> QED  BY <2>1, <2>2, <2>3, <3>1, Zenon
  <2>5. rest \in Seq(Requests)
    BY <2>1, <2>2
  <2>6. Unanswered' = rest
    <3>1. Handled' = Handled
      BY <1>1 DEF Handled
    <3>2. Unanswered' = IF gone' THEN <<>> ELSE Replies(Sent)' \o Handled'
      BY DEF Unanswered, Sent, Handled
    <3> QED  BY <1>1, <3>1, <3>2
  <2>7. Unanswered = <<Asked(f)>> \o rest
    BY <1>1, <1>4, <2>4, UnansweredIs
  <2> HIDE DEF rest
  <2>8. ASSUME NEW q \in Requests, NEW s \in Seq(Requests)
        PROVE  <<q>> \o s # <<>> /\ Head(<<q>> \o s) = q /\ Tail(<<q>> \o s) = s
    OBVIOUS
  <2> QED  BY <2>3, <2>5, <2>6, <2>7, <2>8
<1>7. ASSUME IsReply(f),
             \/ f.type \in {"PONG", "ERROR"} /\ UNCHANGED <<client, known>>
             \/ f.type = "WATCH_OK" /\ Channel!Started(id)
             \/ f.type = "WATCH_ERROR" /\ Channel!Refused(id)
             \/ f.type = "UNWATCH_OK" /\ Channel!Ended(id)
      PROVE  ChannelStep
  <2>1. /\ f.type \in {"PONG", "ERROR"} => Asked(f).kind = "other"
        /\ f.type \in {"WATCH_OK", "WATCH_ERROR"} => Asked(f).kind = "watch" /\ Asked(f).id = id
        /\ f.type = "UNWATCH_OK" => Asked(f).kind = "unwatch" /\ Asked(f).id = id
    BY DEF Asked, id
  <2> DEFINE request == Head(Unanswered)
  <2>2. request = Asked(f)
    BY <1>6, <1>7
  <2> HIDE DEF request
  <2>3. \/ request.kind = "watch" /\ (Channel!Started(request.id) \/ Channel!Refused(request.id))
        \/ request.kind = "unwatch" /\ Channel!Ended(request.id)
        \/ request.kind = "other" /\ UNCHANGED <<client, known>>
    BY <1>7, <2>1, <2>2
  <2>4. Channel!Reply
    BY <1>1, <1>6, <1>7, <2>3 DEF Channel!Reply, request
  <2> QED  BY <2>4 DEF ChannelStep, Channel!Next
<1>8. client \in [Ids -> Clients] /\ known \in [Ids -> SUBSET Changes]
      /\ \A p : Made(p) = Channel!Made(p)
  BY DEF IInv, PeerTypes, Made, Channel!Made
<1>9. CASE f.type \in {"PONG", "ERROR"}
  <2>1. UNCHANGED <<client, known>>
    BY <1>9 DEF receive, f, peer
  <2> QED  BY <1>7, <1>9, <2>1 DEF IsReply
<1>10. CASE f.type = "WATCH_OK"
  <2>1. client[id].state \in {"asked", "leaving"} /\ known[id] = {}
    <3>1. 1 \in 1..Len(Sent) /\ Sent[1] = f
      BY <1>2
    <3> QED  BY <1>1, <1>10, <3>1 DEF IInv, ReplyInv, OkInv, id
  <2>2. CASE client[id].state = "asked"
    <3>1. /\ client' = [client EXCEPT ![id].state = "watching"]
          /\ known' = [known EXCEPT ![id] = Made(client[id].path)]
      BY <1>10, <2>2 DEF receive, id, f
    <3>2. Channel!Started(id)
      BY <1>8, <2>2, <3>1 DEF Channel!Started
    <3> QED  BY <1>7, <1>10, <3>2 DEF IsReply
  <2>3. CASE client[id].state = "leaving"
    <3>1. client' = [client EXCEPT ![id] = client[id]] /\ known' = [known EXCEPT ![id] = {}]
      BY <1>10, <2>3 DEF receive, id, f
    <3>2. Channel!Started(id)
      BY <1>3, <1>8, <1>10, <2>1, <2>3, <3>1 DEF Channel!Started
    <3> QED  BY <1>7, <1>10, <3>2 DEF IsReply
  <2> QED  BY <2>1, <2>2, <2>3
<1>11. CASE f.type = "WATCH_ERROR"
  <2>1. /\ client' = [client EXCEPT ![id] = IF client[id].state = "asked" THEN NotUsed ELSE client[id]]
        /\ known' = [known EXCEPT ![id] = known[id]]
    BY <1>11 DEF receive, id, f
  <2>2. Channel!Refused(id)
    BY <1>3, <1>8, <1>11, <2>1 DEF Channel!Refused, Channel!NotUsed, NotUsed
  <2> QED  BY <1>7, <1>11, <2>2 DEF IsReply
<1>12. CASE f.type = "UNWATCH_OK"
  <2>1. client' = [client EXCEPT ![id] = NotUsed] /\ known' = [known EXCEPT ![id] = {}]
    BY <1>12 DEF receive, id, f
  <2>2. Channel!Ended(id)
    BY <2>1 DEF Channel!Ended, Channel!NotUsed, NotUsed
  <2> QED  BY <1>7, <1>12, <2>2 DEF IsReply
<1>13. CASE f.type \in {"MISSED_EVENTS", "EVENT_BATCH"}
  <2>1. ~IsReply(f) /\ id \in Ids
    BY <1>3, <1>13 DEF IsReply
  <2>2. Unanswered' = Unanswered
    BY <1>5, <2>1
  <2>3. CASE client[id].state # "watching"
    <3>1. client' = [client EXCEPT ![id] = client[id]] /\ known' = [known EXCEPT ![id] = known[id]]
      BY <1>13, <2>3 DEF receive, id, f
    <3>2. client' = client /\ known' = known
      BY <1>8, <2>1, <3>1
    <3> QED  BY <1>1, <2>2, <3>2, Quiet
  <2>4. CASE client[id].state = "watching"
    <3>1. client' = [client EXCEPT ![id] = client[id]]
      BY <1>13, <2>4 DEF receive, id, f
    <3>2. \E more \in SUBSET Made(client[id].path) : known' = [known EXCEPT ![id] = @ \cup more]
      <4>1. known[id] \subseteq Made(client[id].path)
        BY <2>1, <2>4 DEF IInv, KnownInv
      <4>2. CASE f.type = "MISSED_EVENTS"
        <5>1. known' = [known EXCEPT ![id] = Made(client[id].path)]
          BY <2>4, <4>2 DEF receive, id, f
        <5>2. known[id] \cup Made(client[id].path) = Made(client[id].path)
          BY <4>1
        <5> QED  BY <5>1, <5>2
      <4>3. CASE f.type = "EVENT_BATCH"
        <5> DEFINE more == {e.change : e \in ToSet(f.events)}
        <5>1. known' = [known EXCEPT ![id] = known[id] \cup more]
          BY <2>4, <4>3 DEF receive, id, f
        <5>2. \A k \in 1..Len(f.events) : f.events[k].change \in Made(client[id].path)
          <6>1. 1 \in 1..Len(Sent) /\ Sent[1] = f
            BY <1>2
          <6> QED  BY <1>1, <2>4, <4>3, <6>1 DEF IInv, BatchInv, id
        <5>3. f.events \in Seq(Events)
          BY <1>2, <4>3, FrameFields
        <5>4. \A e \in ToSet(f.events) : \E k \in 1..Len(f.events) : e = f.events[k]
          BY <5>3 DEF ToSet
        <5>5. more \in SUBSET Made(client[id].path)
          BY <5>2, <5>4
        <5> HIDE DEF more
        <5> QED  BY <5>1, <5>5
      <4> QED  BY <1>13, <4>2, <4>3
    <3>3. client' = client
      BY <1>8, <3>1
    <3>4. Channel!Learn(id)
      BY <1>1, <1>8, <2>2, <2>4, <3>2, <3>3 DEF Channel!Learn
    <3> QED  BY <2>1, <3>4 DEF ChannelStep, Channel!Next
  <2> QED  BY <2>3, <2>4
<1> QED  BY <1>2, <1>9, <1>10, <1>11, <1>12, <1>13, FrameFields

\* Every step.
LEMMA EveryStep ==
    ASSUME IInv, [Next]_vars
    PROVE  ChannelStep
<1>1. ASSUME UNCHANGED <<changes, client, known, gone, out, flush, mOutgoing, req>> PROVE ChannelStep
  <2>1. Replies(Sent)' = Replies(Sent)
    BY <1>1 DEF Sent
  <2>2. Unanswered' = Unanswered
    BY <1>1, <2>1, NothingAsked
  <2> QED  BY <1>1, <2>2, Quiet
<1>2. CASE World
  <2>1. ASSUME NEW path \in Paths, change(path) PROVE ChannelStep
    <3>1. UNCHANGED <<client, known, gone, Unanswered>>
      BY <2>1 DEF change, main, outbox, writer, peer, Unanswered
    <3>2. Channel!Change(path)
      BY <2>1, <3>1 DEF change, Channel!Change
    <3> QED  BY <3>2 DEF ChannelStep, Channel!Next
  <2>2. ASSUME NEW w \in active, lose(w) PROVE ChannelStep
    BY <1>1, <2>2 DEF lose, main, outbox, writer, peer
  <2>3. ASSUME hangUp PROVE ChannelStep
    <3>1. UNCHANGED <<changes, client, known>> /\ gone' = TRUE
      BY <2>3 DEF hangUp, disk
    <3>2. Unanswered' = <<>>
      BY <3>1 DEF Unanswered
    <3>3. Channel!HangUp
      BY <3>1, <3>2 DEF Channel!HangUp
    <3> QED  BY <3>3 DEF ChannelStep, Channel!Next
  <2> QED  BY <1>2, <2>1, <2>2, <2>3 DEF World
<1>3. CASE NewRequest
  BY <1>3, WatchStep, UnwatchStep, OtherStep DEF NewRequest
<1>4. ASSUME processEnds PROVE ChannelStep
  BY <1>1, <1>4 DEF processEnds, disk, peer
<1>5. CASE endOfInput
  BY <1>4, <1>5 DEF endOfInput
<1>6. CASE receive
  BY <1>6, ReceiveStep
<1>7. ASSUME NEW key \in Keys, Callback(key) PROVE ChannelStep
  BY <1>1, <1>7 DEF Callback, startCallback, push, disk, main, outbox, writer, peer
<1>8. CASE handle
  <2>1. CASE fallback
    <3>1. req \in Refused /\ req.id \in Ids /\ req.path \in Paths /\ req # NoRequest /\ req.kind = "watch"
      BY <2>1, RequestFields DEF fallback, IInv, RequestInv
    <3>2. UNCHANGED <<changes, client, known, gone, out, flush, mOutgoing>>
      BY <2>1 DEF fallback, disk, outbox, writer, peer
    <3>3. req' = req \/ (req' \in Opened \cup Refused /\ req'.id = req.id)
      <4>1. Generic \in Keys
        BY DEF Keys
      <4> QED  BY <2>1, <3>1, <4>1, AddWatchCases DEF fallback, IInv
    <3>4. req' = req \/ (req' # NoRequest /\ req'.kind = req.kind /\ req'.id = req.id)
      BY <3>1, <3>3, RequestFields
    <3>5. Replies(Sent)' = Replies(Sent)
      BY <3>2 DEF Sent
    <3>6. Unanswered' = Unanswered
      BY <3>1, <3>2, <3>4, <3>5, NothingAsked
    <3> QED  BY <3>2, <3>6, Quiet
  <2>2. CASE register \/ removeWatch \/ discard
    BY <1>1, <2>2 DEF register, removeWatch, discard, disk, outbox, writer, peer
  <2> QED  BY <1>8, <2>1, <2>2, ReplyStep DEF handle
<1>9. CASE Destructor
  <2>1. ASSUME NEW key \in Keys, closeWatcher(key) \/ joinWatcher(key) PROVE ChannelStep
    BY <1>1, <2>1 DEF closeWatcher, joinWatcher, disk, main, outbox, writer, peer
  <2>2. CASE stop
    BY <1>1, <2>2 DEF stop, disk, peer
  <2>3. CASE exit
    BY <1>4, <2>3 DEF exit
  <2> QED  BY <1>9, <2>1, <2>2, <2>3 DEF Destructor
<1>10. CASE writerLoop
  <2>1. ASSUME writeOutput PROVE ChannelStep
    <3>1. UNCHANGED <<changes, client, known, gone, req, mOutgoing>>
      BY <2>1 DEF writeOutput, disk, main, outbox, peer
    <3>2. Sent' = Sent
      BY <1>10, <2>1, SentWrite DEF writeOutput, writerLoop, outbox, IInv, WriterInv
    <3>3. Replies(Sent)' = Replies(Sent)
      BY <3>2, Zenon
    <3>4. Unanswered' = Unanswered
      BY <3>1, <3>3, NothingAsked
    <3> QED  BY <3>1, <3>4, Quiet
  <2>2. ASSUME writeFailed PROVE ChannelStep
    BY <1>4, <2>2 DEF writeFailed
  <2> QED  BY <1>10, <2>1, <2>2, TakeStep DEF writerLoop
<1>11. CASE terminated \/ UNCHANGED vars
  BY <1>1, <1>11 DEF terminated, vars, disk, main, outbox, writer, peer
<1> QED  BY <1>2, <1>3, <1>5, <1>6, <1>7, <1>8, <1>9, <1>10, <1>11 DEF Next

\* The agent's replies come one for each request and in the order of the requests,
\* and what it tells of the directory of a watch is true of it, for any number of
\* ids, directories, requests and events.
THEOREM AgentIsChannel == Spec => ChannelSpec
<1>1. Init => IInv
  BY InitInv
<1>2. IInv /\ [Next]_vars => IInv'
  BY NextInv
<1>3. Init => Channel!Init
  <2> SUFFICES ASSUME Init PROVE Channel!Init
    OBVIOUS
  <2>1. Sent = <<>> /\ Handled = <<>> /\ ~gone
    BY DEF Init, Sent, Handled
  <2>2. Unanswered = <<>>
    BY <2>1, UnansweredIs, RepliesNone
  <2> QED  BY <2>1, <2>2 DEF Init, Channel!Init, Channel!NotUsed, NotUsed
<1>4. IInv /\ [Next]_vars => [Channel!Next]_(Channel!vars)
  BY EveryStep DEF ChannelStep
<1> QED  BY <1>1, <1>2, <1>3, <1>4, PTL DEF Spec, ChannelSpec, Channel!Spec
=============================================================================
