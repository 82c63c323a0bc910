------------------------------ MODULE MCParts -------------------------------
(* Parts of the runtime and of its tools that share no state: a behaviour is *)
(* one of the part the first state picks, with the others at rest.           *)
EXTENDS Framing, Keepalive, EventStream, Codec, Debug, Transport, MCDefinitions

CONSTANTS none, f1, f2, l1, l2, l3,
          Parts  \* the parts a run covers

VARIABLE part

MCKinds == {RpcEntry("out", "Event", 0, FALSE), DispatchEntry(0)}

MCSymmetry == Permutations({f1, f2})

(* Samples of the codecs: bytes are 0..31.                                   *)

Opcode == 1

\* A TLV a newer peer may send: empty, of a length that is no integer's, of a
\* tag or width this version has no use for, with an extended length, and with
\* an extended length that is cut short or goes past the end.
MCUnknown ==
    {<<>>, <<29, 0>>, <<29, 1, 5>>, <<29, 2, 4, 1>>, <<4, 3, 10, 1, 7>>,
     <<29, 4, 1, 2, 3, 4>>, <<4, 31, 0, 2, 10, 1>>, <<29, 31, 0, 0>>,
     <<29, 5, 4, 2, 0, 1, 9>>}

MCTlvs ==
    {<<>>, "maxFrameSize" :> 0 @@ "heartbeatIntervalMs" :> ClampHeartbeatInterval(1),
     "maxFrameSize" :> 1023 @@ "heartbeatIntervalMs" :> ClampHeartbeatInterval(9999)
        @@ "ackMode" :> 2 @@ "supportedPayloadTypes" :> 7
        @@ "supportedRpcEncodings" :> 1,
     "maxFrameSize" :> 40 @@ "selectedRpcEncoding" :> 31}

MCControl ==
    {[kind |-> "control", opcode |-> Opcode, controlId |-> id, statusCode |-> status,
      tlv |-> tlv, at |-> pos, unknown |-> unknown] :
        id \in {0, 1023}, status \in {0, 33}, tlv \in MCTlvs, pos \in 1..3,
        unknown \in MCUnknown}

MCStream ==
    {[kind |-> "stream", streamId |-> id, seqId |-> seq, cursor |-> cursor, data |-> data] :
        id \in {0, 1, 32, 1048575}, seq \in {0, 33}, cursor \in {0, 1, 33554431},
        data \in {<<>>, <<31>>, <<0, 1>>}}

MCMessages ==
    LET sid == Str("s1")
        payloads == {Undefined, Null, NoMembers, Num(0), Str(""), Obj("k" :> Bool(TRUE))} IN
    {[op |-> RpcOp.Hello, sid |-> s, axtpVersion |-> v] : s \in {Str(""), sid},
        v \in {Str("1.0"), Undefined}}
    \cup {[op |-> RpcOp.Identify, sid |-> sid, randomSeed |-> Num(n), eventMasks |-> x] :
            n \in {0, 7}, x \in {Str(""), Str("AQ"), Undefined}}
    \cup {[op |-> RpcOp.Identified, sid |-> sid]}
    \cup {[op |-> RpcOp.Reidentify, sid |-> sid, eventMasks |-> x] :
            x \in {Str("AQ"), Undefined}}
    \cup {[op |-> RpcOp.Event, sid |-> sid, name |-> Str("e"), data |-> d] : d \in payloads}
    \cup {[op |-> RpcOp.Request, sid |-> sid, id |-> Num(id), name |-> Str("m"), data |-> d] :
            id \in {1, MaxId}, d \in payloads}
    \cup {[op |-> RpcOp.RequestResponse, sid |-> sid, id |-> Num(1), data |-> d,
           status |-> status] : status \in {Success, 3, MaxId}, d \in payloads}

MCSamples == MCControl \cup MCStream \cup {[kind |-> "rpc", message |-> m] : m \in MCMessages}

IdleSample == [kind |-> "none"]

MCInit ==
    /\ part \in Parts
    /\ Init /\ EventStreamInit /\ DebugInit /\ DefinitionsInit
    /\ KeepaliveInit
    /\ TransportInit
    /\ part # "transport" => kind = "ws"
    /\ part # "keepalive" => mode = "native-keepalive" /\ interval = 1
    /\ IF part = "codec" THEN CodecInit ELSE sample = IdleSample

MCNext ==
    /\ UNCHANGED <<part, sample>>
    /\ \/ part = "framing" /\ Next
          /\ UNCHANGED <<kvars, streamVars, debugVars, transportVars, defVars>>
       \/ part = "keepalive" /\ KeepaliveNext
          /\ UNCHANGED <<vars, streamVars, debugVars, transportVars, defVars>>
       \/ part = "events" /\ EventStreamNext
          /\ UNCHANGED <<vars, kvars, debugVars, transportVars, defVars>>
       \/ part = "debug" /\ DebugNext
          /\ UNCHANGED <<vars, kvars, streamVars, transportVars, defVars>>
       \/ part = "definitions" /\ DefinitionsNext
          /\ UNCHANGED <<vars, kvars, streamVars, debugVars, transportVars>>
       \/ part = "transport" /\ TransportNext
          /\ UNCHANGED <<vars, kvars, streamVars, debugVars, defVars>>

partsVars == <<part, sample, vars, kvars, streamVars, debugVars, transportVars, defVars>>

MCSpec == MCInit /\ [][MCNext]_partsVars

\* The variables of every part keep their types; what else their type
\* invariants say is next to them.
PartsTypeOK ==
    TypeOK /\ KeepaliveTypeOK /\ EventStreamTypeOK /\ DebugTypeOK
    /\ TransportTypeOK

\* What one side writes the other reads as it was meant: messages, and the
\* masks that tell a peer which events to send.
MeaningKept == MessagesUnderstood /\ (part = "definitions" => MasksExact)

\* What the validators of the generators accept serves (Definitions).
DefinitionsServe == part = "definitions" => AcceptedServe
=============================================================================
