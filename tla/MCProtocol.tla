----------------------------- MODULE MCProtocol -----------------------------
(***************************************************************************)
(* The codec on samples of every message, each field taken to its edges     *)
(* while the others are plain, and the values of a small stream.            *)
(***************************************************************************)
EXTENDS FrameStream

VARIABLE sample   \* the message the codec is tried on, NoSample at first

NoSample == [type |-> 0, fields |-> <<>>]

MCWidth == [u8 |-> 1, u16 |-> 2, u32 |-> 2, u64 |-> 3, uuid |-> 3]
MCDefaultLimits == [MaxFrameSize |-> 15, MaxStringLen |-> 3, MaxBytesLen |-> 4, MaxFunctions |-> 1,
                    MaxLabelLen |-> 2, MaxLabels |-> 2, MaxResultBytes |-> 3]
\* Two limits are left to their defaults.
MCGivenLimits == [MCDefaultLimits EXCEPT !.MaxStringLen = 0, !.MaxLabels = 0]

Text(n) == [i \in 1 .. n |-> i]
SomeUUID == Text(Width.uuid)
Function(n) == <<Text(1), <<>>, Text(n), Text(2)>>

\* Values of a field; the first is the plain one, the others its edges: empty,
\* at a limit, and one beyond it.
Values(kind) ==
    CASE kind \in {"u8", "u16", "u32", "u64"} -> <<1, 0, Base ^ Width[kind] - 1>>
      [] kind = "i64" -> <<5, 0, -1, -(Base ^ Width.u64 \div 2), Base ^ Width.u64 \div 2 - 1>>
      [] kind = "bool" -> <<TRUE, FALSE>>
      [] kind = "uuid" -> <<SomeUUID>>
      [] kind = "string" -> <<Text(1), <<>>, Text(limits.MaxStringLen), Text(limits.MaxStringLen + 1)>>
      [] kind = "bytes" -> <<Text(2), <<>>, Text(limits.MaxResultBytes), Text(limits.MaxBytesLen),
                             Text(limits.MaxBytesLen + 1)>>
      [] kind = "label" -> <<Text(1), <<>>, Text(limits.MaxLabelLen), Text(limits.MaxLabelLen + 1)>>
      [] kind = "labels" -> << <<Text(1)>>, <<>>, <<Text(1), <<>> >>, <<Text(1), Text(2), <<>> >>,
                               <<Text(limits.MaxLabelLen + 1)>> >>
      [] kind = "function" -> <<Function(1), Function(limits.MaxStringLen + 1)>>
      [] kind = "functions" -> << <<>>, <<Function(1)>>, <<Function(1), Function(0)>> >>
      [] kind = "error" -> << <<7, TRUE, Text(1)>>, <<1, FALSE, Text(limits.MaxStringLen + 1)>> >>
      [] kind = "error?" -> << <<>>, <<7, TRUE, Text(1)>>, <<1, FALSE, <<>> >>,
                               <<1, FALSE, Text(limits.MaxStringLen + 1)>> >>

Plain(l) == [i \in DOMAIN l.writes |-> Values(l.writes[i])[1]]
Samples ==
    UNION {{Message(l, Plain(l))} \cup
           UNION {{Message(l, [Plain(l) EXCEPT ![i] = Values(l.writes[i])[k]]) :
                        k \in DOMAIN Values(l.writes[i])} : i \in DOMAIN l.writes} : l \in Layouts}

\* A payload cut short, lengthened, or with one byte changed.
Altered(p) ==
    {SubSeq(p, 1, n) : n \in 0 .. Len(p)} \cup {p \o <<0>>}
    \cup {[p EXCEPT ![i] = (@ + d) % Base] : i \in DOMAIN p, d \in {1, 2}}

SampleInit == sample = NoSample
Try == sample = NoSample /\ sample' \in Samples

\* A message within the receiver's limits is read back as it was written, field
\* by field; one beyond any of them is refused.
RoundTrips(m) ==
    LET r == DecodeMessage(m.type, MarshalPayload(m))
    IN  IF WithinLimits(m) THEN Ok(r) /\ r.val = m.fields ELSE ~Ok(r)

\* No two payloads are read as the same message: what is read from a damaged
\* payload is a message whose own payload is that one.
Canonical(m) ==
    \A p \in Altered(MarshalPayload(m)) :
        LET r == DecodeMessage(m.type, p)
        IN  Ok(r) => MarshalPayload([type |-> m.type, fields |-> r.val]) = p

\* The codec loses nothing and adds nothing: every message of the protocol
\* survives the round trip exactly when the receiver's limits allow it, and no
\* truncated, lengthened or altered payload passes for another's.
CodecExact == sample # NoSample => RoundTrips(sample) /\ Canonical(sample)

-----------------------------------------------------------------------------
(* The stream: messages without and with a payload, of several chunks, of    *)
(* exactly the frame limit, beyond it, and beyond a limit of a field alone;   *)
(* and headers of a peer that does not speak this version.                   *)

MCSendable ==
    {Message(Heartbeat, <<4>>), Message(HeartbeatAck, <<>>), Message(Shutdown, <<Text(4)>>),
     Message(ResultDelivery, <<SomeUUID, 1, TRUE, FALSE, Text(4), <<>>>>),
     Message(LabelUpdate, << <<Text(2), <<>> >>, <<Text(1), <<>> >> >>),
     Message(LabelUpdate, << <<Text(2), Text(2)>>, <<Text(2), Text(2)>> >>)}
MCForeignHeaders ==
    {Header(2, 3, 0, 1, 0), Header(3, 3, 1, 1, 0), Header(3, 19, 0, 1, 0), Header(3, 3, 0, 1, 16),
     [Header(3, 3, 0, 1, 0) EXCEPT ![1] = 0], Header(3, 3, 0, 1, 9)}

ASSUME SendableCovers ==
    /\ \E m \in MCSendable : Len(MarshalPayload(m)) = limits.MaxFrameSize /\ WithinLimits(m)
    /\ \E m \in MCSendable : ~Encodable(m)
    /\ \E m \in MCSendable : Encodable(m) /\ ~WithinLimits(m)

=============================================================================
