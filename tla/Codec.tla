------------------------------- MODULE Codec --------------------------------
(***************************************************************************)
(* The message codecs of src/src/protocol/codec: CONTROL with its TLVs     *)
(* (control.ts), the JSON envelope of RPC (jsonRpc.ts, payload.ts) and the *)
(* STREAM header (stream.ts), over the byte reader and writer of io.ts.    *)
(*                                                                         *)
(* A byte is 0..Byte-1.  A JSON value is a pair of its type and content;   *)
(* parsing and printing keep such a value.                                 *)
(***************************************************************************)
EXTENDS Integers, Sequences, SequencesExt, TLC

CONSTANTS
    Byte,                  \* 256 in the code; above the largest TLV tag
    MinBeat, MaxBeat,      \* MIN_ and MAX_HEARTBEAT_INTERVAL_MS
    Samples                \* what is encoded or decoded

ASSUME CodecAssumption ==
    /\ Byte \in Nat /\ Byte > 31
    /\ 0 < MinBeat /\ MinBeat <= MaxBeat /\ MaxBeat < Byte * Byte

VARIABLE sample

CodecInit == sample \in Samples

-----------------------------------------------------------------------------
(* io.ts                                                                   *)

Least(a, b) == IF a < b THEN a ELSE b
Greatest(a, b) == IF a > b THEN a ELSE b

\* writeU8, writeU16, ...: the low digits, big-endian.
Write(v, width) ==
    LET rest[k \in 0..width] == IF k = 0 THEN v ELSE rest[k - 1] \div Byte IN
    [k \in 1..width |-> rest[width - k] % Byte]

\* readU8, readU16, ... of bytes that are there.
Read(bytes) == FoldLeft(LAMBDA acc, b : acc * Byte + b, 0, bytes)

-----------------------------------------------------------------------------
(* control.ts                                                              *)

Params == <<"maxFrameSize", "supportedPayloadTypes", "supportedRpcEncodings",
            "heartbeatIntervalMs", "ackMode", "selectedRpcEncoding">>

Tag == "maxFrameSize" :> 4 @@ "supportedPayloadTypes" :> 7
    @@ "supportedRpcEncodings" :> 8 @@ "heartbeatIntervalMs" :> 10
    @@ "ackMode" :> 11 @@ "selectedRpcEncoding" :> 30

Width(param) == IF param \in {"maxFrameSize", "heartbeatIntervalMs"} THEN 2 ELSE 1

ClampHeartbeatInterval(ms) == Greatest(MinBeat, Least(MaxBeat, ms))

WriteTlv(param, value) == <<Tag[param], Width(param)>> \o Write(value, Width(param))

\* The TLVs of the parameters that are given, in their order.
Tlvs(tlv) ==
    LET given == SelectSeq(Params, LAMBDA p : p \in DOMAIN tlv) IN
    [k \in DOMAIN given |-> WriteTlv(given[k], tlv[given[k]])]

EncodeControl(opcode, controlId, statusCode, tlv) ==
    <<opcode>> \o Write(controlId, 2) \o Write(statusCode, 2) \o FlattenSeq(Tlvs(tlv))

Marker == Byte - 1  \* 0xff: an extended length follows

EndOfFile == <<-1, 0>>  \* where a strict read throws

\* Mutant of SkipLength: the marker is taken for a length.
SkipPlain(bytes) == 2 + bytes[2]

\* How many bytes an entry of no use takes: more than there are ends it all.
SkipLength(bytes) ==
    IF bytes[2] # Marker THEN 2 + bytes[2]
    ELSE IF Len(bytes) < 4 THEN Len(bytes) + 1
    ELSE 4 + Read(SubSeq(bytes, 3, 4))

\* readTlv and the loop of decodeControl: the entries of 1, 2 or 4 bytes.
Entries(bytes) ==
    LET rest[b \in Seq(0..(Byte - 1))] ==
        IF Len(b) < 2 THEN <<>>
        ELSE IF b[2] \in {1, 2, 4}
        THEN IF Len(b) < 2 + b[2] THEN <<EndOfFile>>
             ELSE <<<<b[1], Read(SubSeq(b, 3, 2 + b[2]))>>>>
                      \o rest[SubSeq(b, 3 + b[2], Len(b))]
        ELSE IF SkipLength(b) > Len(b) THEN <<>>
        ELSE rest[SubSeq(b, SkipLength(b) + 1, Len(b))] IN
    rest[bytes]

Rejected == [ok |-> FALSE]

\* The last entry of a tag counts; one it does not know changes nothing.
DecodeControl(body) ==
    LET entries == Entries(SubSeq(body, 6, Len(body)))
        ofTag(p) == SelectSeq(entries, LAMBDA e : e[1] = Tag[p])
        given == {p \in DOMAIN Tag : ofTag(p) # <<>>} IN
    IF Len(body) < 5 \/ Contains(entries, EndOfFile) THEN Rejected
    ELSE [ok |-> TRUE, opcode |-> body[1],
          controlId |-> Read(SubSeq(body, 2, 3)),
          statusCode |-> Read(SubSeq(body, 4, 5)),
          tlv |-> [p \in given |-> Last(ofTag(p))[2]]]

-----------------------------------------------------------------------------
(* stream.ts                                                               *)

EncodeStream(m) ==
    Write(m.streamId, 4) \o Write(m.seqId, 4) \o Write(m.cursor, 8) \o m.data

DecodeStream(body) ==
    IF Len(body) < 16 \/ Read(SubSeq(body, 1, 4)) = 0 THEN Rejected
    ELSE [ok |-> TRUE, streamId |-> Read(SubSeq(body, 1, 4)),
          seqId |-> Read(SubSeq(body, 5, 8)), cursor |-> Read(SubSeq(body, 9, 16)),
          data |-> SubSeq(body, 17, Len(body))]

-----------------------------------------------------------------------------
(* jsonRpc.ts                                                              *)

\* A JSON value is <<type, content>>.
Str(s) == <<"string", s>>
Num(n) == <<"number", n>>
Bool(b) == <<"boolean", b>>
Obj(f) == <<"object", f>>
Null == <<"null", 0>>
NoMembers == Obj(<<>>)

\* A member left out and the value undefined are one.
Undefined == <<"undefined", 0>>
Member(o, k) == IF k \in DOMAIN o[2] THEN o[2][k] ELSE Undefined
Object(f) == LET given == {k \in DOMAIN f : f[k] # Undefined} IN
             Obj([k \in given |-> f[k]])

RpcOp == [Hello |-> 0, Identify |-> 2, Identified |-> 3, Reidentify |-> 4,
          Event |-> 6, Request |-> 7, RequestResponse |-> 8]

Success == 0

\* The d of an envelope.
Body(m) ==
    CASE m.op = RpcOp.Hello -> Object("axtpVersion" :> m.axtpVersion)
      [] m.op = RpcOp.Identify ->
            Object("randomSeed" :> m.randomSeed @@
                   "eventMasks" :> IF m.eventMasks = Str("") THEN Undefined
                                   ELSE m.eventMasks)
      [] m.op = RpcOp.Identified -> NoMembers
      [] m.op = RpcOp.Reidentify -> Object("eventMasks" :> m.eventMasks)
      [] m.op = RpcOp.Event -> Object("event" :> m.name @@ "data" :> m.data)
      [] m.op = RpcOp.Request ->
            Object("id" :> m.id @@ "method" :> m.name @@ "params" :> m.data)
      [] m.op = RpcOp.RequestResponse ->
            Object("id" :> m.id @@ "result" :> m.data @@
                   "status" :> Obj("ok" :> Bool(m.status = Success) @@
                                   "code" :> Num(m.status)))

EncodeJsonRpc(m) == Obj("sid" :> m.sid @@ "op" :> Num(m.op) @@ "d" :> Body(m))

OfType(value, type, otherwise) == IF value[1] = type THEN value ELSE otherwise

\* parseRequestIdFromEnvelope: 0 for what is no id.
MaxId == Byte * Byte * Byte * Byte - 1
RequestId(d) ==
    LET id == Member(d, "id") IN
    IF id[1] = "number" /\ id[2] \in 1..MaxId THEN id ELSE Num(0)

Defaulted(value) == IF value \in {Undefined, Null} THEN NoMembers ELSE value

\* parseResponseStatus
StatusValid(status) ==
    /\ status[1] = "object"
    /\ Member(status, "ok")[1] = "boolean"
    /\ Member(status, "code")[1] = "number" /\ Member(status, "code")[2] \in 0..MaxId
    /\ Member(status, "ok")[2] <=> Member(status, "code")[2] = Success

NoMessage == [op |-> -1]

\* decodeJsonRpc; "not JSON" is no object either.
DecodeJsonRpc(text) ==
    LET op == Member(text, "op")
        sid == OfType(Member(text, "sid"), "string", Str(""))
        d == Member(text, "d")
        message(fields) == [op |-> op[2], sid |-> sid] @@ fields
        data(k) == [data |-> Defaulted(Member(d, k))]
        name(k) == [name |-> OfType(Member(d, k), "string", Str(""))]
        masks == [eventMasks |-> OfType(Member(d, "eventMasks"), "string", Undefined)] IN
    IF text[1] # "object" \/ op[1] # "number" \/ d[1] # "object" THEN NoMessage
    ELSE CASE op[2] = RpcOp.Hello ->
                 message([axtpVersion |-> OfType(Member(d, "axtpVersion"), "string", Undefined)])
           [] op[2] = RpcOp.Identify ->
                 message([randomSeed |-> OfType(Member(d, "randomSeed"), "number", Num(0))] @@ masks)
           [] op[2] = RpcOp.Identified -> message(<<>>)
           [] op[2] = RpcOp.Reidentify -> message(masks)
           [] op[2] = RpcOp.Event -> message(name("event") @@ data("data"))
           [] op[2] = RpcOp.Request ->
                 message([id |-> RequestId(d)] @@ name("method") @@ data("params"))
           [] op[2] = RpcOp.RequestResponse /\ StatusValid(Member(d, "status")) ->
                 message([id |-> RequestId(d), data |-> Member(d, "result"),
                          status |-> Member(Member(d, "status"), "code")[2]])
           [] OTHER -> NoMessage

\* payload.ts: a framed message names its encoding in front.
DecodeRpcPayload(body) ==
    IF body = <<>> THEN "nothing"
    ELSE IF Head(body) # 1 THEN "RpcEncodingUnsupported"
    ELSE IF DecodeJsonRpc(body[2]) = NoMessage THEN "RpcPayloadInvalid"
    ELSE "payload"

-----------------------------------------------------------------------------
(* Properties                                                              *)

\* What OPEN and ACCEPT offer is read as it was meant, whatever entries a
\* newer peer puts between those of this version, extended lengths included;
\* a message cut short is rejected or loses parameters, it never gives one
\* another value.
ControlUnderstood ==
    sample.kind = "control" =>
        LET m == sample
            head == EncodeControl(m.opcode, m.controlId, m.statusCode, <<>>)
            tlvs == Tlvs(m.tlv)
            body == head \o FlattenSeq(InsertAt(tlvs, Least(m.at, Len(tlvs) + 1), m.unknown))
            expected == [ok |-> TRUE, opcode |-> m.opcode, controlId |-> m.controlId,
                         statusCode |-> m.statusCode, tlv |-> m.tlv] IN
        /\ DecodeControl(body) = expected
        /\ \A cut \in Prefixes(body) :
              LET got == DecodeControl(cut) IN
              got.ok => /\ got.controlId = m.controlId
                        /\ \A p \in DOMAIN got.tlv :
                              p \in DOMAIN m.tlv /\ got.tlv[p] = m.tlv[p]

\* A STREAM message is read back whole, and not at all if its header is cut
\* or names no stream.
StreamUnderstood ==
    sample.kind = "stream" =>
        LET body == EncodeStream(sample)
            got == DecodeStream(body) IN
        /\ got = IF sample.streamId = 0 THEN Rejected
                 ELSE [ok |-> TRUE, streamId |-> sample.streamId, seqId |-> sample.seqId,
                       cursor |-> sample.cursor, data |-> sample.data]
        /\ \A cut \in Prefixes(body) : Len(cut) < 16 => ~DecodeStream(cut).ok

\* The message the other side sees: no masks and empty masks are the same,
\* and so are no data and {}.
Seen(m) ==
    IF m.op \in {RpcOp.Event, RpcOp.Request} THEN [m EXCEPT !.data = Defaulted(m.data)]
    ELSE IF m.op = RpcOp.Identify /\ m.eventMasks = Str("")
    THEN [m EXCEPT !.eventMasks = Undefined] ELSE m

\* A message arrives as it was sent; one with a member missing or of another
\* type is dropped or keeps what is left of it, and a response never turns
\* from a failure into a success.
RpcUnderstood ==
    sample.kind = "rpc" =>
        LET m == sample.message
            text == EncodeJsonRpc(m)
            spoilt(o) == {Obj([k \in DOMAIN o[2] \ {x} |-> o[2][k]]) : x \in DOMAIN o[2]}
                \cup {Obj([o[2] EXCEPT ![x] = v]) :
                         x \in DOMAIN o[2], v \in {Null, Str("x"), Num(99), Bool(TRUE), NoMembers}}
            texts == spoilt(text) \cup {Obj([text[2] EXCEPT !["d"] = d]) : d \in spoilt(text[2]["d"])}
                \cup IF m.op # RpcOp.RequestResponse THEN {}
                     ELSE {Obj([text[2] EXCEPT !["d"] = Obj([@[2] EXCEPT !["status"] = x])]) :
                             x \in spoilt(text[2]["d"][2]["status"])} IN
        /\ DecodeJsonRpc(text) = Seen(m)
        /\ DecodeRpcPayload(<<1, text>>) = "payload"
        /\ \A t \in texts :
              LET got == DecodeJsonRpc(t) IN
              \/ got = NoMessage
              \/ got.op = RpcOp.RequestResponse =>
                    (got.status = Success <=> m.status = Success)

\* Every message means to its receiver what its sender meant (control.ts,
\* stream.ts, jsonRpc.ts).
MessagesUnderstood == ControlUnderstood /\ StreamUnderstood /\ RpcUnderstood
=============================================================================
