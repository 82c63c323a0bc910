----------------------------- MODULE Transport ------------------------------
(***************************************************************************)
(* A connection of the three transports (src/src/transport): a socket or   *)
(* the in-memory pair wrapped as web streams, the pipes the endpoint lays  *)
(* between them and its core (endpoint.ts wire and close), and a peer.     *)
(*                                                                         *)
(* A message stands for what one write of the peer puts on the network.    *)
(* Messages of the peer are numbered from 1; a WebSocket's peer may also   *)
(* send binary ones, which are not counted.                                *)
(***************************************************************************)
EXTENDS Integers, Sequences, SequencesExt

CONSTANTS
    MaxSent,   \* bound: text messages of the peer
    MaxBinary, \* bound: binary messages of the peer
    MaxEncoded   \* bound: messages the endpoint emits

ASSUME TransportAssumption ==
    MaxSent \in Nat /\ MaxBinary \in Nat /\ MaxEncoded \in Nat

VARIABLES
    kind,      \* the transport
    socket,    \* as this end sees it; "connecting": connect() is pending
    network,   \* the peer's messages underway, and the end it made
    texts,     \* how many text messages the peer sent
    binaries,  \* how many binary ones
    peerEnd,   \* how the peer ended the connection, if it did
    chunks,    \* the queue of transport.readable
    readable,  \* its state; "ending": its controller was asked to close
    pipe,      \* the two pipes; "aborting": the signal is raised
    core,      \* what the core was given
    outbox,    \* what the core has encoded and no pipe has read
    emitted,   \* how many messages the core encoded
    got,       \* what the peer was given
    peerTold,  \* the peer has seen the end of the in-memory pair
    endpoint,  \* "none"; "open"; once closed, why
    terminated, \* history: it was closed with terminate
    threw      \* a listener threw

inVars == <<network, texts, binaries, peerEnd, chunks, readable, core>>
outVars == <<outbox, emitted, got, peerTold>>
transportVars == <<kind, socket, inVars, pipe, outVars, endpoint, terminated, threw>>

\* What the network carries beside numbered messages.
Binary == 0
End == -1      \* the peer closes the connection, or its process ends
Reset == -2    \* the connection is cut
BadFrame == -3 \* a WebSocket's message that is none
Ends == {End, Reset, BadFrame}
NoEnd == -4

TransportTypeOK ==
    /\ kind \in {"tcp", "ws", "mock"}
    /\ socket \in {"connecting", "failed", "open", "closing", "ended"}
    /\ network \in Seq((0..MaxSent) \cup Ends)
    /\ texts \in 0..MaxSent /\ binaries \in 0..MaxBinary
    /\ peerEnd \in Ends \cup {NoEnd}
    /\ chunks \in Seq(0..MaxSent)
    /\ readable \in {"readable", "ending", "errored", "cancelled"}
    /\ pipe \in {"none", "running", "aborting", "stopped"}
    /\ core \in Seq(0..MaxSent)
    /\ outbox \in Seq(1..(MaxEncoded + 1)) /\ emitted \in 0..(MaxEncoded + 1)
    /\ got \in Seq(1..(MaxEncoded + 1)) /\ peerTold \in BOOLEAN
    /\ endpoint \in {"none", "open", "end", "error", "self"}
    /\ terminated \in BOOLEAN /\ threw \in BOOLEAN

TransportInit ==
    /\ kind \in {"tcp", "ws", "mock"}
    /\ socket = "connecting"
    /\ network = <<>> /\ texts = 0 /\ binaries = 0 /\ peerEnd = NoEnd
    /\ chunks = <<>> /\ readable = "readable" /\ core = <<>>
    /\ pipe = "none"
    /\ outbox = <<>> /\ emitted = 0 /\ got = <<>> /\ peerTold = FALSE
    /\ endpoint = "none"
    /\ terminated = FALSE /\ threw = FALSE

-----------------------------------------------------------------------------
(* Opening                                                                 *)

\* The profile of the transport's connections.
FrameMode == IF kind = "ws" THEN "unframed-json" ELSE "standard-framed"

SupportsControl == FrameMode = "standard-framed"

\* connect() resolves, or the server emits the connection; start() lays the
\* pipes, and the client of a framed link writes its OPEN.
Opens(role) ==
    /\ socket = "connecting"
    /\ socket' = "open"
    /\ pipe' = "running"
    /\ endpoint' = "open"
    /\ LET opening == IF SupportsControl /\ role = "client" THEN 1 ELSE 0
       IN emitted' = opening /\ outbox' = [i \in 1..opening |-> i]
    /\ UNCHANGED <<kind, inVars, got, peerTold, terminated, threw>>

\* connect() rejects; the in-memory one never does.
ConnectFails ==
    /\ socket = "connecting" /\ kind # "mock"
    /\ socket' = "failed"
    /\ UNCHANGED <<kind, inVars, pipe, outVars, endpoint, terminated, threw>>

-----------------------------------------------------------------------------
(* Inbound                                                                 *)

PeerSends ==
    /\ socket \in {"open", "closing"} /\ peerEnd = NoEnd /\ ~peerTold
    /\ \/ /\ texts < MaxSent
          /\ texts' = texts + 1
          /\ network' = Append(network, texts + 1)
          /\ UNCHANGED binaries
       \/ /\ kind = "ws" /\ binaries < MaxBinary
          /\ binaries' = binaries + 1
          /\ network' = Append(network, Binary)
          /\ UNCHANGED texts
    /\ UNCHANGED <<kind, socket, peerEnd, chunks, readable, core, pipe, outVars,
                   endpoint, terminated, threw>>

\* The connection is ended.  A cut one loses the last of what is under way.
PeerEnds(how) ==
    /\ socket \in {"open", "closing"} /\ peerEnd = NoEnd
    /\ how = Reset => kind # "mock"
    /\ how = BadFrame => kind = "ws"
    /\ peerEnd' = how
    /\ \E n \in 0..Len(network) :
        /\ how # Reset => n = Len(network)
        /\ network' = Append(SubSeq(network, 1, n), how)
    /\ UNCHANGED <<kind, socket, texts, binaries, chunks, readable, core, pipe,
                   outVars, endpoint, terminated, threw>>

\* Mutant of Carried: binary messages go to the core like text.
CarriedAny(message) == TRUE

\* A WebSocket carries text only.
Carried(message) == kind = "ws" => message # Binary

\* A message is queued for the core.  A readable that is closed refuses it:
\* the in-memory pair catches that, the listener of a WebSocket throws.
MessageArrives ==
    /\ socket \in {"open", "closing"} /\ ~threw
    /\ network # <<>> /\ Head(network) \notin Ends
    /\ network' = Tail(network)
    /\ LET wanted == Carried(Head(network))
       IN /\ chunks' = IF wanted /\ readable = "readable"
                       THEN Append(chunks, Head(network)) ELSE chunks
          /\ threw' = (wanted /\ readable # "readable" /\ kind = "ws")
    /\ UNCHANGED <<kind, socket, texts, binaries, peerEnd, readable, core, pipe,
                   outVars, endpoint, terminated>>

\* A WebSocket that was cut only has its "close" event, with code 1006, like
\* one that was closed; its "error" event is for what it cannot read.  A cut
\* socket errors its readable.
EndsCleanly(how) == how = End \/ (kind = "ws" /\ how = Reset)

\* The end: what is queued is still read.  An error discards it.
EndArrives ==
    /\ socket \in {"open", "closing"} /\ ~threw
    /\ network # <<>> /\ Head(network) \in Ends
    /\ network' = Tail(network)
    /\ IF readable # "readable" THEN UNCHANGED <<readable, chunks>>
       ELSE IF EndsCleanly(Head(network))
            THEN readable' = "ending" /\ UNCHANGED chunks
            ELSE readable' = "errored" /\ chunks' = <<>>
    /\ socket' = IF kind = "ws" \/ Head(network) # End THEN "ended" ELSE socket
    /\ UNCHANGED <<kind, texts, binaries, peerEnd, core, pipe, outVars, endpoint,
                   terminated, threw>>

PipeReads ==
    /\ pipe = "running" /\ ~threw
    /\ chunks # <<>>
    /\ core' = Append(core, Head(chunks))
    /\ chunks' = Tail(chunks)
    /\ UNCHANGED <<kind, socket, network, texts, binaries, peerEnd, readable, pipe,
                   outVars, endpoint, terminated, threw>>

-----------------------------------------------------------------------------
(* Outbound                                                                *)

Encodes ==
    /\ endpoint = "open" /\ ~threw /\ emitted <= MaxEncoded
    /\ emitted' = emitted + 1
    /\ outbox' = Append(outbox, emitted + 1)
    /\ UNCHANGED <<kind, socket, inVars, pipe, got, peerTold, endpoint, terminated,
                   threw>>

\* What is written to a socket that is not open is lost.
Written(n) == IF socket = "open" THEN got \o SubSeq(outbox, 1, n) ELSE got

PipeWrites ==
    /\ pipe = "running" /\ ~threw
    /\ outbox # <<>>
    /\ outbox' = Tail(outbox)
    /\ got' = Written(1)
    /\ UNCHANGED <<kind, socket, inVars, pipe, emitted, peerTold, endpoint,
                   terminated, threw>>

-----------------------------------------------------------------------------
(* Closing                                                                 *)

\* The transport's close() or terminate(): a WebSocket waits for the closing
\* handshake, a socket is destroyed, and the pair's writable refuses either
\* while it is piped to.
SocketAfter(terminate) ==
    IF kind = "mock" THEN socket
    ELSE IF kind = "ws" /\ ~terminate /\ socket # "ended" THEN "closing" ELSE "ended"

\* endpoint.close(): the signal is raised, the transport closed.
CloseEndpoint(reason, terminate) ==
    /\ endpoint = "open" /\ ~threw
    /\ endpoint' = reason
    /\ terminated' = terminate
    /\ pipe' = "aborting"
    /\ socket' = SocketAfter(terminate)
    /\ UNCHANGED <<kind, inVars, outVars, threw>>

\* consume finds the end, after all that was queued, or an error.
StreamEnds == readable = "ending" /\ chunks = <<>> /\ CloseEndpoint("end", FALSE)

StreamFails == readable = "errored" /\ CloseEndpoint("error", FALSE)

Close(terminate) == CloseEndpoint("self", terminate)

\* The signal takes effect: a chunk each pipe has already read is still
\* written, what is queued is dropped, the readable is cancelled, and the
\* writable aborted, which is what ends the in-memory pair for the peer.
PipeStops ==
    /\ pipe = "aborting" /\ ~threw
    /\ pipe' = "stopped"
    /\ \E n \in {0, 1} : n <= Len(chunks) /\ core' = core \o SubSeq(chunks, 1, n)
    /\ \E n \in {0, 1} : n <= Len(outbox) /\ got' = Written(n)
    /\ chunks' = <<>> /\ outbox' = <<>>
    /\ readable' = IF readable = "errored" THEN "errored" ELSE "cancelled"
    /\ peerTold' = (kind = "mock")
    /\ UNCHANGED <<kind, socket, network, texts, binaries, peerEnd, emitted, endpoint,
                   terminated, threw>>

\* The closing handshake ends, or its timer.
HandshakeEnds ==
    /\ socket = "closing" /\ ~threw
    /\ socket' = "ended"
    /\ UNCHANGED <<kind, inVars, pipe, outVars, endpoint, terminated, threw>>

TransportNext ==
    \/ \E role \in {"client", "server"} : Opens(role)
    \/ ConnectFails
    \/ PeerSends \/ \E how \in Ends : PeerEnds(how)
    \/ MessageArrives \/ EndArrives \/ PipeReads
    \/ Encodes \/ PipeWrites
    \/ StreamEnds \/ StreamFails
    \/ \E terminate \in BOOLEAN : Close(terminate)
    \/ PipeStops \/ HandshakeEnds

TransportSpec == TransportInit /\ [][TransportNext]_transportVars

-----------------------------------------------------------------------------
(* Properties                                                              *)

UpTo(n) == [i \in 1..n |-> i]

\* Each side is given the other's messages in order, none twice and none
\* skipped, and no binary one.
InOrder == IsPrefix(core, UpTo(texts)) /\ IsPrefix(got, UpTo(emitted))

\* The endpoint is "closed by peer" after all the peer sent, or else it is a
\* WebSocket that was cut: then the core has the first of it, and cannot tell.
EndIsLast ==
    endpoint = "end" => \/ peerEnd = End /\ core = UpTo(texts)
                        \/ peerEnd = Reset /\ kind = "ws"

\* Once its pipes have stopped, a closed endpoint leaves no socket open, and
\* the other end of an in-memory pair is told.
NothingOpen == pipe = "stopped" => socket \in {"closing", "ended"} \/ peerTold

\* Only the message of a peer that has not yet answered close() throws.
CrashIsLate == threw => kind = "ws" /\ endpoint = "self" /\ ~terminated

\* The transports and the pipes over them (transport/, endpoint.ts 116-145 and
\* 254-262).
TransportDelivers == InOrder /\ EndIsLast /\ NothingOpen /\ CrashIsLate

\* usage.md line 373: close() does "abort pipes and close the transport", and
\* not more: no step of the connection ends the process.  Refuted: see the run
\* late_message.
CloseOnlyCloses == ~threw
=============================================================================
