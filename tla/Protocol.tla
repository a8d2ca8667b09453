------------------------------ MODULE Protocol ------------------------------
(***************************************************************************)
(* The wire format between an executor service and the scheduler: how each  *)
(* message is written field by field, how its payload is read back under    *)
(* the receiver's limits, and the frame around it.                          *)
(*                                                                          *)
(* A byte is a number below Base and a payload a sequence of bytes.  The    *)
(* widths of the integers are parameters, so that the largest values stay   *)
(* small; a string, label or blob is the sequence of its bytes.             *)
(***************************************************************************)
EXTENDS Integers, Sequences, SequencesExt

CONSTANTS
    Base,          \* how many values a byte has
    Width,         \* bytes of u8, u16, u32, u64 and of a job identifier
    GivenLimits,   \* the limits as configured; 0 in a field that is not set
    DefaultLimits  \* the package's limits

Bytes == 0 .. Base - 1

\* A left fold; the recursive function is the form TLC evaluates fastest.
Through(op(_, _), start, s) ==
    LET upTo[i \in 0 .. Len(s)] == IF i = 0 THEN start ELSE op(upTo[i - 1], s[i])
    IN  upTo[Len(s)]

\* The program's constants, in the model's range.
Magic == Base + 2
CurrentVersion == 3
uuidSize == Width.uuid
minLabelSize == Width.u32
minFunctionSpecSize == 4 * Width.u32

\* Every limit that is not set takes the default.
normalized(l) == [f \in DOMAIN l |-> IF l[f] = 0 THEN DefaultLimits[f] ELSE l[f]]
limits == normalized(GivenLimits)

-----------------------------------------------------------------------------
(* Writing.  A writer never refuses: size policy is the reader's and the    *)
(* frame's.  Every integer is big-endian; one that is too large wraps.      *)

writeUint(v, width) == [i \in 1 .. width |-> (v \div Base ^ (width - i)) % Base]
writeInt64(v) == writeUint(v % Base ^ Width.u64, Width.u64)
writeBool(v) == <<IF v THEN 1 ELSE 0>>
writeBytes(v) == writeUint(Len(v), Width.u32) \o v
writeList(list, write(_)) ==
    Through(LAMBDA buf, item : buf \o write(item), writeUint(Len(list), Width.u32), list)

\* A function is its name, version, input and output signatures.
encodeFunctionSpec(f) == writeBytes(f[1]) \o writeBytes(f[2]) \o writeBytes(f[3]) \o writeBytes(f[4])

\* An error is its code, whether to retry, and its message.
encodeWireError(e) == writeUint(e[1], Width.u16) \o writeBool(e[2]) \o writeBytes(e[3])
encodeOptionalWireError(e) ==
    IF e = <<>> THEN writeBool(FALSE) ELSE writeBool(TRUE) \o encodeWireError(e)

Write(kind, v) ==
    CASE kind \in DOMAIN Width \ {"uuid"} -> writeUint(v, Width[kind])
      [] kind = "i64" -> writeInt64(v)
      [] kind = "bool" -> writeBool(v)
      [] kind = "uuid" -> v
      [] kind \in {"string", "bytes", "result", "label"} -> writeBytes(v)
      [] kind = "labels" -> writeList(v, writeBytes)
      [] kind = "functions" -> writeList(v, encodeFunctionSpec)
      [] kind = "function" -> encodeFunctionSpec(v)
      [] kind = "error" -> encodeWireError(v)
      [] kind = "error?" -> encodeOptionalWireError(v)

-----------------------------------------------------------------------------
(* Reading.  A reader holds the payload, how much of it is consumed, the    *)
(* value it read last and the first error; after an error it reads nothing. *)

newPayloadReader(payload) == [buf |-> payload, off |-> 0, val |-> <<>>, err |-> "none"]
remaining(r) == Len(r.buf) - r.off
Fail(r, err) == [r EXCEPT !.err = err, !.val = <<>>]
Ok(r) == r.err = "none"

take(r, n) ==
    IF remaining(r) < n THEN Fail(r, "ErrShortBuffer")
    ELSE [r EXCEPT !.off = @ + n, !.val = SubSeq(r.buf, r.off + 1, r.off + n)]

\* A value goes on only from a reader that has not failed.
Then(r, read(_)) == IF Ok(r) THEN read(r) ELSE r
Mapped(r, f(_)) == Then(r, LAMBDA q : [q EXCEPT !.val = f(@)])

FromBytes(bytes) == Through(LAMBDA v, b : v * Base + b, 0, bytes)
TwosComplement(v) == IF v >= (Base ^ Width.u64) \div 2 THEN v - Base ^ Width.u64 ELSE v

readUint(r, width) == Mapped(take(r, width), FromBytes)
readInt64(r) == Mapped(readUint(r, Width.u64), TwosComplement)

readBool(r) ==
    Then(readUint(r, Width.u8),
         LAMBDA q : IF q.val \in {0, 1} THEN [q EXCEPT !.val = (@ = 1)]
                    ELSE Fail(q, "ErrInvalidBool"))

\* A length-prefixed value under a limit of its own.
readLimited(r, limit, err) ==
    Then(readUint(r, Width.u32),
         LAMBDA q : IF q.val > limit THEN Fail(q, err) ELSE take(q, q.val))
readString(r) == readLimited(r, limits.MaxStringLen, "ErrStringTooLong")
readBytes(r) == readLimited(r, limits.MaxBytesLen, "ErrBytesTooLong")
readLabel(r) == readLimited(r, limits.MaxLabelLen, "ErrLabelTooLong")
readResultBytes(r) == readLimited(r, limits.MaxResultBytes, "ErrResultTooLarge")

readUUID(r) == IF remaining(r) < uuidSize THEN Fail(r, "ErrShortUUID") ELSE take(r, uuidSize)

\* Read a value and append it to those collected so far.
Collect(r, read(_), collected) == Mapped(read(r), LAMBDA v : Append(collected, v))

\* A list is refused by its count before any item is read: beyond the limit,
\* or beyond what the rest of the payload can hold.
readList(r, max, err, minSize, read(_)) ==
    Then(readUint(r, Width.u32),
         LAMBDA q : IF q.val > max THEN Fail(q, err)
                    ELSE IF q.val > remaining(q) \div minSize THEN Fail(q, "ErrShortBuffer")
                    ELSE Through(LAMBDA p, i : Then(p, LAMBDA o : Collect(o, read, o.val)),
                                  [q EXCEPT !.val = <<>>], [i \in 1 .. q.val |-> i]))

decodeLabels(r) == readList(r, limits.MaxLabels, "ErrTooManyLabels", minLabelSize, readLabel)

\* One more field after those already read.
And(r, read(_)) == Then(r, LAMBDA q : Collect(q, read, q.val))

decodeFunctionSpec(r) ==
    And(And(And(Collect(r, readString, <<>>), readString), readString), readString)
decodeFunctions(r) ==
    readList(r, limits.MaxFunctions, "ErrTooManyFunctions", minFunctionSpecSize, decodeFunctionSpec)

decodeWireError(r) ==
    And(And(Collect(r, LAMBDA q : readUint(q, Width.u16), <<>>), readBool), readString)
decodeOptionalWireError(r) ==
    Then(readBool(r),
         LAMBDA q : IF q.val THEN decodeWireError(q) ELSE [q EXCEPT !.val = <<>>])

Read(kind, r) ==
    CASE kind \in DOMAIN Width \ {"uuid"} -> readUint(r, Width[kind])
      [] kind = "i64" -> readInt64(r)
      [] kind = "bool" -> readBool(r)
      [] kind = "uuid" -> readUUID(r)
      [] kind = "string" -> readString(r)
      [] kind = "bytes" -> readBytes(r)
      [] kind = "result" -> readResultBytes(r)
      [] kind = "label" -> readLabel(r)
      [] kind = "labels" -> decodeLabels(r)
      [] kind = "functions" -> decodeFunctions(r)
      [] kind = "function" -> decodeFunctionSpec(r)
      [] kind = "error" -> decodeWireError(r)
      [] kind = "error?" -> decodeOptionalWireError(r)

\* Nothing may be left over.
finish(r) == Then(r, LAMBDA q : IF remaining(q) # 0 THEN Fail(q, "ErrTrailingBytes") ELSE q)

=============================================================================
