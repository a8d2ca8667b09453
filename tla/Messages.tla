------------------------------ MODULE Messages ------------------------------
(***************************************************************************)
(* The messages of the wire protocol, each with its number, the fields its  *)
(* MarshalPayload writes and the fields its UnmarshalPayload reads, both in *)
(* the order of the code; and the frames they travel in.                    *)
(***************************************************************************)
EXTENDS Protocol

Layout(type, writes, reads) == [type |-> type, writes |-> writes, reads |-> reads]

\* The parts that several messages, or one reader of its own, have.
decodeExecutionRef == <<"u64", "u64">>
decodeScheduleSpec == <<"u8", "i64", "u64">>

\* Broken variant: the age of a backfill is read before its count.
decodeBackfillSwapped == <<"u8", "u64", "u32">>

decodeBackfillSpec == <<"u8", "u32", "u64">>
decodeRetrySpec == <<"u8", "u32", "u64", "u64", "u64">>
decodePinSpec == <<"label", "u8">>

Register == Layout(1, <<"u8", "string", "string", "u32", "functions", "labels">>,
                      <<"u8", "string", "string", "u32", "functions", "labels">>)
RegisterAck == Layout(2, <<"bool", "u32", "error?">>, <<"bool", "u32", "error?">>)
Heartbeat == Layout(3, <<"u32">>, <<"u32">>)
HeartbeatAck == Layout(4, <<>>, <<>>)
ExecRequest ==
    Layout(5, <<"uuid", "u64", "u64", "u32", "function", "bytes", "i64", "u32", "bool">>,
              <<"uuid">> \o decodeExecutionRef
                         \o <<"u32", "function", "bytes", "i64", "u32", "bool">>)
ExecAccept == Layout(6, <<"u64", "u64", "bool", "error?">>, decodeExecutionRef \o <<"bool", "error?">>)
ExecResult ==
    Layout(7, <<"u64", "u64", "bool", "bool", "bytes", "error?">>,
              decodeExecutionRef \o <<"bool", "bool", "bytes", "error?">>)
Cancel == Layout(8, <<"u64", "u64", "string">>, decodeExecutionRef \o <<"string">>)
Fault == Layout(9, <<"error">>, <<"error">>)
JobUpsert ==
    Layout(10, <<"uuid", "string", "string", "function", "bytes", "u8", "i64", "u64", "bool",
                 "u8", "u32", "u64", "u8", "u32", "u64", "u64", "u64", "u8", "label", "u8", "u8">>,
               <<"uuid", "string", "string", "function", "bytes">> \o decodeScheduleSpec
               \o <<"bool">> \o decodeBackfillSpec \o decodeRetrySpec \o <<"u8">>
               \o decodePinSpec \o <<"u8">>)
JobUpsertAck == Layout(11, <<"string", "uuid", "bool", "error?">>, <<"string", "uuid", "bool", "error?">>)
Shutdown == Layout(12, <<"string">>, <<"string">>)
LabelUpdate == Layout(13, <<"labels", "labels">>, <<"labels", "labels">>)
LabelUpdateAck == Layout(14, <<"bool", "u32", "error?">>, <<"bool", "u32", "error?">>)
ResultDelivery ==
    Layout(15, <<"uuid", "u64", "bool", "bool", "bytes", "error?">>,
               <<"uuid", "u64", "bool", "bool", "result", "error?">>)
ResultDeliveryAck == Layout(16, <<"uuid", "bool">>, <<"uuid", "bool">>)
JobDelete == Layout(17, <<"string", "string">>, <<"string", "string">>)
JobDeleteAck == Layout(18, <<"string", "bool", "error?">>, <<"string", "bool", "error?">>)

\* The message types DecodeMessage knows.
Layouts == {Register, RegisterAck, Heartbeat, HeartbeatAck, ExecRequest, ExecAccept, ExecResult,
            Cancel, Fault, JobUpsert, JobUpsertAck, Shutdown, LabelUpdate, LabelUpdateAck,
            ResultDelivery, ResultDeliveryAck, JobDelete, JobDeleteAck}

\* A message is its number and the values of its fields.
Message(layout, fields) == [type |-> layout.type, fields |-> fields]
LayoutOf(type) == CHOOSE l \in Layouts : l.type = type

MarshalPayload(m) ==
    LET writes == LayoutOf(m.type).writes
    IN  Through(LAMBDA buf, i : buf \o Write(writes[i], m.fields[i]), <<>>,
                 [i \in DOMAIN writes |-> i])

\* The fields in order, the first error ends it, and nothing may follow.
UnmarshalPayload(layout, payload) ==
    finish(Through(LAMBDA r, kind : And(r, LAMBDA q : Read(kind, q)),
                    newPayloadReader(payload), layout.reads))

DecodeMessage(type, payload) ==
    IF \E l \in Layouts : l.type = type
    THEN UnmarshalPayload(LayoutOf(type), payload)
    ELSE [newPayloadReader(payload) EXCEPT !.err = "ErrUnknownMessageType"]

-----------------------------------------------------------------------------
(* Frames.  The header is magic, version, type, flags, correlation and the  *)
(* length of the payload.                                                   *)

HeaderSize == 2 * Width.u32 + 2 * Width.u8 + Width.u16 + Width.u64

Header(version, type, flags, correlationID, length) ==
    writeUint(Magic, Width.u32) \o writeUint(version, Width.u8) \o writeUint(type, Width.u8)
    \o writeUint(flags, Width.u16) \o writeUint(correlationID, Width.u64)
    \o writeUint(length, Width.u32)

\* EncodeFrame refuses a payload beyond the frame limit, and nothing else.
Encodable(m) == Len(MarshalPayload(m)) <= limits.MaxFrameSize
EncodeFrame(correlationID, m) ==
    LET payload == MarshalPayload(m)
    IN  Header(CurrentVersion, m.type, 0, correlationID, Len(payload)) \o payload

\* The fields of a header, and whether it is one this package accepts.
Parsed(buf) ==
    LET r == newPayloadReader(buf)
        word(q) == readUint(q, Width.u32)
        byte(q) == readUint(q, Width.u8)
        v == And(And(And(And(And(Collect(r, word, <<>>), byte), byte),
                             LAMBDA q : readUint(q, Width.u16)),
                         LAMBDA q : readUint(q, Width.u64)), word).val
    IN  [magic |-> v[1], version |-> v[2], type |-> v[3], flags |-> v[4],
         correlation |-> v[5], length |-> v[6]]

\* Broken variant: a payload of the largest size is refused.
decodeHeaderStrict(buf) ==
    LET h == Parsed(buf)
    IN  IF h.magic # Magic THEN "ErrBadMagic"
        ELSE IF h.version # CurrentVersion THEN "ErrUnsupportedVersion"
        ELSE IF h.flags # 0 THEN "ErrReservedFlags"
        ELSE IF h.length >= limits.MaxFrameSize THEN "ErrFrameTooLarge"
        ELSE "none"

\* What is wrong with a header, in the order it is found.
decodeHeader(buf) ==
    LET h == Parsed(buf)
    IN  IF h.magic # Magic THEN "ErrBadMagic"
        ELSE IF h.version # CurrentVersion THEN "ErrUnsupportedVersion"
        ELSE IF h.flags # 0 THEN "ErrReservedFlags"
        ELSE IF h.length > limits.MaxFrameSize THEN "ErrFrameTooLarge"
        ELSE "none"

-----------------------------------------------------------------------------
(* What a message must satisfy to be read, stated of its values.            *)

AllowedFunction(f) == \A i \in 1 .. 4 : Len(f[i]) <= limits.MaxStringLen
AllowedError(e) == e = <<>> \/ Len(e[3]) <= limits.MaxStringLen

Allowed(kind, v) ==
    CASE kind = "string" -> Len(v) <= limits.MaxStringLen
      [] kind = "bytes" -> Len(v) <= limits.MaxBytesLen
      [] kind = "result" -> Len(v) <= limits.MaxResultBytes
      [] kind = "label" -> Len(v) <= limits.MaxLabelLen
      [] kind = "labels" -> /\ Len(v) <= limits.MaxLabels
                            /\ \A i \in DOMAIN v : Len(v[i]) <= limits.MaxLabelLen
      [] kind = "functions" -> /\ Len(v) <= limits.MaxFunctions
                               /\ \A i \in DOMAIN v : AllowedFunction(v[i])
      [] kind = "function" -> AllowedFunction(v)
      [] kind \in {"error", "error?"} -> AllowedError(v)
      [] OTHER -> TRUE

\* Every field is within the receiver's limit for it.
WithinLimits(m) ==
    LET reads == LayoutOf(m.type).reads
    IN  \A i \in DOMAIN reads : Allowed(reads[i], m.fields[i])

=============================================================================
