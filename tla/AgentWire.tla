------------------------------ MODULE AgentWire ------------------------------
(***************************************************************************)
(* The byte stream from a client to efsw-agent: requests are written as    *)
(* frames, arrive in pieces cut anywhere, are put together by FrameParser  *)
(* and read by handle().  Agent models what a request then does.           *)
(*                                                                         *)
(* Bytes are numbers.  A path is the UTF-8 of a name that is given in      *)
(* UTF-16, as on Windows, so that its way there and back can be followed.  *)
(***************************************************************************)
EXTENDS Utf, TLC

CONSTANTS
    Scripts,         \* what a client may send: sequences of requests
    MaxPayloadSize,
    ReadSize,        \* the buffer of run()
    NoRequest

ASSUME WireAssumption ==
    /\ MaxPayloadSize \in 1..65535 /\ ReadSize \in Nat \ {0}

VARIABLES
    script,    \* the requests of the client
    stream,    \* bytes that have not been read yet
    pc,        \* "read", "parse", or run() has returned: "closed", "failed"
    mBuffer, mOffset,
    handled    \* the requests handled, as they were read

vars == <<script, stream, pc, mBuffer, mOffset, handled>>

ProtocolVersion == 1
HeaderSize == 8
MessageHello == 1
MessageWatch == 3
MessageUnwatch == 6
MessagePing == 10

-----------------------------------------------------------------------------
(* Writer.                                                                 *)

u16(v) == <<v \div 256, v % 256>>
u32(v) == u16(v \div 65536) \o u16(v % 65536)
str(s) == u32(Len(s)) \o s

Payload(r) ==
    CASE r.type = MessageHello -> str(r.name)
      [] r.type = MessageWatch -> u32(r.id) \o str(toUtf8(fromWide(r.name)))
                                  \o <<r.flags>> \o u32(r.polling)
      [] r.type \in {MessageUnwatch, MessagePing} -> u32(r.id)
      [] OTHER -> <<>>
header(size, version, type) == u32(size) \o u16(version) \o u16(type)
framed(type, payload) == header(Len(payload), ProtocolVersion, type) \o payload

\* A request may also be sent wrongly: with a payload that is cut short, with
\* a header that says more than is allowed, or in another version.
frame(r) ==
    CASE r.fault = "none" -> framed(r.type, Payload(r))
      [] r.fault = "short" -> framed(r.type, Front(Payload(r)))
      [] r.fault = "large" -> header(MaxPayloadSize + 1, ProtocolVersion, r.type)
      [] r.fault = "version" -> header(Len(Payload(r)), ProtocolVersion + 1, r.type) \o Payload(r)

Stream(requests) == FlattenSeq([i \in DOMAIN requests |-> frame(requests[i])])

-----------------------------------------------------------------------------
(* Reader: it fails for good when a field is not all there, and the field  *)
(* is then zero or empty.                                                  *)

Start(payload) == [data |-> payload, pos |-> 0, ok |-> TRUE, value |-> 0]
need(r, count) == r.ok /\ Len(r.data) - r.pos >= count
Number(bytes) ==
    LET n[i \in 0..Len(bytes)] == IF i = 0 THEN 0 ELSE n[i - 1] * 256 + bytes[i]
    IN n[Len(bytes)]
read(r, count) ==
    IF need(r, count)
    THEN [r EXCEPT !.pos = @ + count, !.value = Number(SubSeq(r.data, r.pos + 1, r.pos + count))]
    ELSE [r EXCEPT !.ok = FALSE, !.value = 0]
readStr(r) ==
    LET size == read(r, 4)
    IN IF size.ok /\ need(size, size.value)
       THEN [size EXCEPT !.pos = @ + size.value,
                         !.value = SubSeq(r.data, size.pos + 1, size.pos + size.value)]
       ELSE [size EXCEPT !.ok = FALSE, !.value = <<>>]

\* What handle() makes of a frame, or NoRequest when it refuses it.  It does
\* not ask whether a PING is all there, and never whether there is more.
handle(version, type, payload) ==
    LET id == read(Start(payload), 4)
        path == readStr(id)
        flags == read(path, 1)
        polling == read(flags, 4)
    IN CASE version # ProtocolVersion -> NoRequest
         [] type = MessageHello -> [type |-> type]
         [] type = MessageWatch /\ polling.ok ->
                [type |-> type, id |-> id.value, name |-> getWidePath(path.value),
                 flags |-> flags.value, polling |-> polling.value]
         [] type = MessageUnwatch /\ id.ok -> [type |-> type, id |-> id.value]
         [] type = MessagePing -> [type |-> type, id |-> id.value]
         [] OTHER -> NoRequest

-----------------------------------------------------------------------------
(* FrameParser, and run().                                                 *)

available == Len(mBuffer) - mOffset
Byte(i) == mBuffer[mOffset + i]
Field(first, last) == Number(SubSeq(mBuffer, mOffset + first, mOffset + last))
size == Field(1, 4)

feed(bytes) == mBuffer' = mBuffer \o bytes

readInput ==
    /\ pc = "read"
    /\ IF stream = <<>>
       THEN pc' = "closed" /\ UNCHANGED <<stream, mBuffer>>
       ELSE /\ \E n \in 1..Len(stream) :
                /\ n <= ReadSize
                /\ feed(SubSeq(stream, 1, n))
                /\ stream' = SubSeq(stream, n + 1, Len(stream))
            /\ pc' = "parse"
    /\ UNCHANGED <<script, mOffset, handled>>

\* Mutant: what has been handled stays.
keepAll == UNCHANGED <<mBuffer, mOffset>>
compact ==
    /\ mBuffer' = SubSeq(mBuffer, mOffset + 1, Len(mBuffer))
    /\ mOffset' = 0

Complete == available >= HeaderSize /\ size <= MaxPayloadSize /\ available >= HeaderSize + size
Refused == available >= HeaderSize /\ size > MaxPayloadSize

next ==
    /\ pc = "parse"
    /\ \/ /\ ~Complete /\ ~Refused
          /\ compact
          /\ pc' = "read" /\ UNCHANGED handled
       \/ /\ Refused
          /\ pc' = "failed" /\ UNCHANGED <<mBuffer, mOffset, handled>>
       \/ /\ Complete
          /\ mOffset' = mOffset + HeaderSize + size
          /\ LET done == handle(Field(5, 6), Field(7, 8),
                    SubSeq(mBuffer, mOffset + HeaderSize + 1, mOffset + HeaderSize + size))
             IN IF done = NoRequest THEN pc' = "failed" /\ UNCHANGED handled
                ELSE handled' = Append(handled, done) /\ UNCHANGED pc
          /\ UNCHANGED mBuffer
    /\ UNCHANGED <<script, stream>>

Init ==
    /\ script \in Scripts /\ stream = Stream(script)
    /\ pc = "read" /\ mBuffer = <<>> /\ mOffset = 0 /\ handled = <<>>
Returned == pc \in {"closed", "failed"} /\ UNCHANGED vars
Next == readInput \/ next \/ Returned
Spec == Init /\ [][Next]_vars

-----------------------------------------------------------------------------
(* Properties.                                                             *)

\* What a well-formed request comes to.
Meant(r) ==
    CASE r.type = MessageHello -> [type |-> r.type]
      [] r.type = MessageWatch -> [type |-> r.type, id |-> r.id, name |-> r.name,
                                   flags |-> r.flags, polling |-> r.polling]
      [] OTHER -> [type |-> r.type, id |-> r.id]
\* The requests before the first one that is sent wrongly, and can be told.
Sound(r) == \/ r.fault = "none" /\ r.type \in {MessageHello, MessageWatch, MessageUnwatch, MessagePing}
            \/ r.fault = "short" /\ r.type \in {MessageHello, MessagePing}
Good == {n \in 0..Len(script) : \A i \in 1..n : Sound(script[i])}
Expected == [i \in 1..CHOOSE n \in Good : \A m \in Good : m <= n |-> script[i]]

\* However the stream was cut, the requests are handled one for one, with the
\* ids, flags and names that were sent: two conversions and a Reader bring a
\* name back unit for unit (agent_protocol.hpp:153-265, Utf.inl).  run() ends
\* with an error exactly when a request was sent wrongly, and has handled every
\* request before it (efsw-agent.cpp:139-162).
AsSent ==
    /\ Len(handled) <= Len(Expected)
    /\ \A i \in DOMAIN handled :
        Expected[i].fault = "none" /\ Expected[i].type # MessageHello
            => handled[i] = Meant(Expected[i])
    /\ pc = "closed" => \A i \in DOMAIN script : Sound(script[i])
    /\ pc \in {"closed", "failed"} => Len(handled) = Len(Expected)

\* While the agent waits for more, it has handled every request that has come
\* whole, and keeps less than one frame, whatever sizes the peer announces.
NothingKept ==
    pc = "read" =>
        /\ mOffset = 0 /\ Len(mBuffer) < HeaderSize + MaxPayloadSize
        /\ Len(Stream(SubSeq(script, 1, Len(handled)))) + Len(mBuffer) + Len(stream)
             = Len(Stream(script))
        /\ Len(handled) < Len(script) => Len(mBuffer) < Len(frame(script[Len(handled) + 1]))
=============================================================================
