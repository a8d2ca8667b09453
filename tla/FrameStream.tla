----------------------------- MODULE FrameStream -----------------------------
(***************************************************************************)
(* One direction of a connection: WriteFrame on one side, ReadMessage in a  *)
(* loop on the other, and between them a byte stream that delivers what was *)
(* written in segments of any size and may break at any byte.               *)
(***************************************************************************)
EXTENDS Messages, FiniteSets

CONSTANTS
    Sendable,         \* the messages the writer may send
    ForeignHeaders,   \* headers of a peer that does not speak this version
    payloadReadChunk, \* how much of a payload is read at a time
    Segments,         \* sizes of the segments the stream delivers, besides all there is
    MaxFrames         \* bound on the frames written

VARIABLES
    written,  \* messages whose frames were written, in order
    foreign,  \* a foreign header was written after them
    wire,     \* bytes on their way
    arrived,  \* bytes the reader may take
    reading,  \* what the reader is at: phase, header, payload so far
    received, \* messages ReadMessage returned, with their correlation
    broken    \* the connection is lost

streamVars == <<written, foreign, wire, arrived, reading, received, broken>>

NoHeader == [type |-> 0, correlation |-> 0, length |-> 0]
AtHeader == [phase |-> "header", header |-> NoHeader, payload |-> <<>>]
Closed(err) == [AtHeader EXCEPT !.phase = err]
Reading == reading.phase \in {"header", "payload"}

\* WriteFrame: a frame that cannot be encoded is not written.
WriteFrame(m) ==
    /\ Len(written) < MaxFrames /\ ~foreign /\ ~broken
    /\ IF Encodable(m)
       THEN /\ written' = Append(written, [correlation |-> Len(written) + 1, message |-> m])
            /\ wire' = wire \o EncodeFrame(Len(written) + 1, m)
       ELSE UNCHANGED <<written, wire>>
    /\ UNCHANGED <<foreign, arrived, reading, received, broken>>

\* A peer of another kind: its header, with no payload behind it.
WriteForeign(h) ==
    /\ ~foreign /\ ~broken
    /\ foreign' = TRUE
    /\ wire' = wire \o h
    /\ UNCHANGED <<written, arrived, reading, received, broken>>

\* The stream delivers a segment, or is lost with everything not delivered.
Deliver(n) ==
    /\ n \in 1 .. Len(wire)
    /\ arrived' = arrived \o SubSeq(wire, 1, n)
    /\ wire' = SubSeq(wire, n + 1, Len(wire))
    /\ UNCHANGED <<written, foreign, reading, received, broken>>

Break ==
    /\ ~broken
    /\ broken' = TRUE
    /\ wire' = <<>>
    /\ UNCHANGED <<written, foreign, arrived, reading, received>>

Smaller(a, b) == IF a < b THEN a ELSE b

\* How much of the payload the reader asks for next.
Want(length, filled) == Smaller(length - filled, payloadReadChunk)

\* ReadMessage is over: the message, or the error that ends the connection.
Finish(h, payload) ==
    LET r == DecodeMessage(h.type, payload)
    IN  IF Ok(r)
        THEN /\ received' = Append(received, [correlation |-> h.correlation,
                                              message |-> [type |-> h.type, fields |-> r.val]])
             /\ reading' = AtHeader
        ELSE reading' = Closed(r.err) /\ UNCHANGED received

\* ReadFrame: a whole header, which is checked before anything is reserved.
ReadHeader ==
    LET buf == SubSeq(arrived, 1, HeaderSize)
        h == Parsed(buf)
    IN  /\ reading.phase = "header"
        /\ Len(arrived) >= HeaderSize
        /\ arrived' = SubSeq(arrived, HeaderSize + 1, Len(arrived))
        /\ CASE decodeHeader(buf) # "none" ->
                    reading' = Closed(decodeHeader(buf)) /\ UNCHANGED received
             [] decodeHeader(buf) = "none" /\ h.length = 0 -> Finish(h, <<>>)
             [] OTHER ->
                    /\ reading' = [phase |-> "payload", payload |-> <<>>,
                                  header |-> [type |-> h.type, correlation |-> h.correlation,
                                              length |-> h.length]]
                    /\ UNCHANGED received
        /\ UNCHANGED <<written, foreign, wire, broken>>

\* Broken variant: a short read passes for a full one.
ReadChunkShort ==
    LET h == reading.header
        filled == Len(reading.payload)
        got == Smaller(Want(h.length, filled), Len(arrived))
        payload == reading.payload \o SubSeq(arrived, 1, got)
                   \o [i \in 1 .. Want(h.length, filled) - got |-> 0]
    IN  /\ reading.phase = "payload"
        /\ Len(arrived) >= 1
        /\ arrived' = SubSeq(arrived, got + 1, Len(arrived))
        /\ IF Len(payload) = h.length THEN Finish(h, payload)
           ELSE /\ reading' = [reading EXCEPT !.payload = payload]
                /\ UNCHANGED received
        /\ UNCHANGED <<written, foreign, wire, broken>>

\* readPayload: one full chunk at a time, until the declared length is there.
ReadChunk ==
    LET h == reading.header
        want == Want(h.length, Len(reading.payload))
        payload == reading.payload \o SubSeq(arrived, 1, want)
    IN  /\ reading.phase = "payload"
        /\ Len(arrived) >= want
        /\ arrived' = SubSeq(arrived, want + 1, Len(arrived))
        /\ IF Len(payload) = h.length THEN Finish(h, payload)
           ELSE /\ reading' = [reading EXCEPT !.payload = payload]
                /\ UNCHANGED received
        /\ UNCHANGED <<written, foreign, wire, broken>>

\* The stream ends before what the reader waits for.
ReadEnds ==
    /\ Reading /\ broken
    /\ Len(arrived) < (IF reading.phase = "header" THEN HeaderSize
                       ELSE Want(reading.header.length, Len(reading.payload)))
    /\ reading' = Closed("EOF")
    /\ UNCHANGED <<written, foreign, wire, arrived, received, broken>>

StreamInit ==
    /\ written = <<>> /\ foreign = FALSE /\ wire = <<>> /\ arrived = <<>>
    /\ reading = AtHeader /\ received = <<>> /\ broken = FALSE

StreamNext ==
    \/ \E m \in Sendable : WriteFrame(m)
    \/ \E h \in ForeignHeaders : WriteForeign(h)
    \/ \E n \in Segments \cup {Len(wire)} : Deliver(n)
    \/ Break
    \/ ReadHeader \/ ReadChunk \/ ReadEnds

-----------------------------------------------------------------------------
(* Properties. *)

\* However the stream is cut into segments and wherever it breaks, the
\* messages that come out are the first ones that went in, with their
\* correlations.
StreamFaithful == IsPrefix(received, written)

\* A connection ends only for a reason: it was lost, the peer does not speak
\* this version, or the next message holds a field beyond the reader's limit.
\* A message the encoder let through may be such a one.
ClosedForAReason ==
    Reading \/ broken \/ foreign
    \/ ~WithinLimits(written[Len(received) + 1].message)

=============================================================================
