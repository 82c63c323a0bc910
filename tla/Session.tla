------------------------------ MODULE Session ------------------------------
(***************************************************************************)
(* Two endpoints (src/src/endpoint/endpoint.ts) with their protocol        *)
(* engines (src/src/core/core.ts, controlSession.ts, handshake.ts,         *)
(* runtimeGate.ts) at the two ends of one connection, from opening the     *)
(* link and the session handshake to requests, responses and events.       *)
(*                                                                         *)
(* The transport delivers in order and may be cut at any moment.  A core   *)
(* decodes a message and answers it in one turn (Receive...); what concerns*)
(* the endpoint goes through a queue of CoreEvents, which the endpoint     *)
(* takes one per turn (Consume...): the core is ahead of its endpoint.     *)
(*                                                                         *)
(* A sid and the seeds it is mixed from are the sets of their one bits.    *)
(* A framed message is abstracted to the size of its largest frame, which  *)
(* is what the decoder of the peer checks.                                 *)
(***************************************************************************)
EXTENDS Integers, Sequences

CONSTANTS
    Bits,         \* the bits of a sid, 0 among them; 0..31 in the code
    NoBit,        \* stands for the empty sid
    Configs,      \* how the two endpoints may be set up
    MinFrameSize, \* kMinFrameSize
    ControlFrame, \* the frame size of an OPEN and of an ACCEPT
    MaxSends      \* bound: requests and events each side sends

Peers == {"client", "server"}  \* the physical roles

Other(p) == IF p = "client" THEN "server" ELSE "client"

\* framed: the transport profile; logical: who sends Hello; size, interval:
\* maxFrameSize and the clamped heartbeatIntervalMs; entropy: handshakeSeed.
ConfigRecord ==
    [framed : BOOLEAN, logical : [Peers -> Peers], size : [Peers -> Nat],
     interval : [Peers -> Nat \ {0}], entropy : [Peers -> SUBSET Bits]]

ASSUME SessionAssumption ==
    /\ 0 \in Bits
    /\ NoBit \notin Bits
    /\ Configs \subseteq ConfigRecord
    /\ {MinFrameSize, ControlFrame, MaxSends} \subseteq Nat
    /\ ControlFrame < 65536  \* the length of its payload is a UInt16

VARIABLES
    config,    \* one of Configs
    up,        \* the transport connection is there
    wire,      \* messages on their way to each peer
    lifecycle, \* EndpointLifecycle
    opening,   \* pendingOpenId of a ControlSession is set
    gate,      \* AxtpCore.gate
    sid,       \* Handshake.sidValue
    frameSize, \* the limit of decoder and fragmenter
    events,    \* CoreEvents the endpoint has not taken yet
    beat,      \* interval of the running heartbeat; 0: not running
    sent,      \* requests and events sent so far, numbered from 1
    handling,  \* requests the broker has not answered
    got        \* the last request or event the endpoint has taken

coreVars == <<opening, gate, sid, frameSize>>
appVars == <<sent, handling, got>>
vars == <<config, up, wire, lifecycle, coreVars, events, beat, appVars>>

Sids == SUBSET Bits
NoSid == {NoBit}  \* ""

Business == {"request", "event", "response"}
Numbers == 1..MaxSends

Message ==
    [kind : {"open"}, len : Nat, size : Nat, interval : Nat]
    \cup [kind : {"accept"}, len : Nat, ok : BOOLEAN, size : Nat, interval : Nat]
    \cup [kind : {"hello"}, len : Nat]
    \cup [kind : {"identify"}, len : Nat, seed : Sids]
    \cup [kind : {"identified"}, len : Nat, sid : Sids]
    \cup [kind : Business, len : Nat, sid : Sids \cup {NoSid}, n : Numbers]

CoreEvent ==
    [kind : {"linkReady"}, interval : Nat]
    \cup [kind : {"handshakeReady", "handshakeError", "linkOpenRejected"}]
    \cup [kind : {"request", "event"}, n : Numbers]

TypeOK ==
    /\ config \in Configs
    /\ up \in BOOLEAN
    /\ wire \in [Peers -> Seq(Message)]
    /\ lifecycle \in [Peers -> {"idle", "connecting", "ready", "closed"}]
    /\ opening \in [Peers -> BOOLEAN]
    /\ gate \in [Peers -> {"LINK_CONNECTED", "FRAMING_READY", "APP_READY"}]
    /\ sid \in [Peers -> Sids \cup {NoSid}]
    /\ frameSize \in [Peers -> Nat]
    /\ events \in [Peers -> Seq(CoreEvent)]
    /\ beat \in [Peers -> Nat]
    /\ sent \in [Peers -> 0..MaxSends]
    /\ handling \in [Peers -> SUBSET Numbers]
    /\ got \in [Peers -> 0..MaxSends]

Init ==
    /\ config \in Configs
    /\ up = TRUE
    /\ wire = [p \in Peers |-> <<>>]
    /\ lifecycle = [p \in Peers |-> "idle"]
    /\ opening = [p \in Peers |-> FALSE]
    /\ gate = [p \in Peers |-> "LINK_CONNECTED"]
    /\ sid = [p \in Peers |-> NoSid]
    /\ frameSize = config.size
    /\ events = [p \in Peers |-> <<>>]
    /\ beat = [p \in Peers |-> 0]
    /\ sent = [p \in Peers |-> 0]
    /\ handling = [p \in Peers |-> {}]
    /\ got = [p \in Peers |-> 0]

-----------------------------------------------------------------------------
(* Fragments                                                               *)

Alive(p) == lifecycle[p] \in {"connecting", "ready"}
Min(a, b) == IF a <= b THEN a ELSE b

\* writeU16 of the maxFrameSize TLV.
UInt16(n) == n % 65536

\* The frames of an RPC message may be as long as the sender's limit allows;
\* an unframed message has no frames.
RpcLen(p) == IF config.framed THEN frameSize[p] ELSE 0
ControlLen(p) == Min(ControlFrame, frameSize[p])

\* Core p writes msgs; a write on a connection that is gone is swallowed.
\* consumed: p takes the first message of its own wire in the same turn.
Write(p, msgs, consumed) ==
    wire' = [wire EXCEPT ![p] = IF consumed THEN Tail(@) ELSE @,
                         ![Other(p)] = IF up THEN @ \o msgs ELSE @]

\* Mutant of Enqueue: the latest event first.
EnqueueInFront(p, evs) == events' = [events EXCEPT ![p] = evs \o @]

\* core.enqueue
Enqueue(p, evs) == events' = [events EXCEPT ![p] = @ \o evs]

\* Mutant of HelloOf: the end that opened the link takes no initiative.
HelloFromAcceptor(p, size) ==
    IF config.logical[p] = "server" /\ p = "server"
    THEN <<[kind |-> "hello", len |-> IF config.framed THEN size ELSE 0]>>
    ELSE <<>>

\* Mutant of HelloOf: Hello is sent again, in case it got lost.
HelloTwice(p, size) ==
    IF config.logical[p] = "server"
    THEN LET hello == [kind |-> "hello", len |-> IF config.framed THEN size ELSE 0]
         IN <<hello, hello>>
    ELSE <<>>

\* startHello, under the frame size just agreed.
HelloOf(p, size) ==
    IF config.logical[p] = "server"
    THEN <<[kind |-> "hello", len |-> IF config.framed THEN size ELSE 0]>>
    ELSE <<>>

\* onLinkReadyInternal, after the messages in before.
LinkReady(p, size, interval, before, consumed) ==
    IF gate[p] = "LINK_CONNECTED"
    THEN /\ frameSize' = [frameSize EXCEPT ![p] = size]
         /\ gate' = [gate EXCEPT ![p] = "FRAMING_READY"]
         /\ Write(p, before \o HelloOf(p, size), consumed)
         /\ Enqueue(p, <<[kind |-> "linkReady", interval |-> interval]>>)
    ELSE /\ Write(p, before, consumed)
         /\ UNCHANGED <<frameSize, gate, events>>

\* The core of p decodes the first message of its wire, of this kind, in a
\* frame its decoder admits.
Receives(p, kind) ==
    /\ Alive(p) /\ wire[p] # <<>>
    /\ Head(wire[p]).kind = kind
    /\ Head(wire[p]).len <= frameSize[p]
    /\ UNCHANGED <<config, up, lifecycle, beat, appVars>>

\* Nothing comes of the message.
Ignores(p) == Write(p, <<>>, TRUE) /\ UNCHANGED <<coreVars, events>>

-----------------------------------------------------------------------------
(* Opening the link                                                        *)

\* start() and wire(): the framed client sends OPEN, an unframed link is
\* ready at once.
Start(p) ==
    /\ lifecycle[p] = "idle"
    /\ lifecycle' = [lifecycle EXCEPT ![p] = "connecting"]
    /\ IF ~config.framed
       THEN LinkReady(p, frameSize[p], config.interval[p], <<>>, FALSE)
            /\ UNCHANGED opening
       ELSE IF p = "client"
       THEN /\ opening' = [opening EXCEPT ![p] = TRUE]
            /\ Write(p, <<[kind |-> "open", len |-> ControlLen(p),
                           size |-> UInt16(config.size[p]),
                           interval |-> config.interval[p]]>>, FALSE)
            /\ UNCHANGED <<gate, frameSize, events>>
       ELSE UNCHANGED <<opening, wire, gate, frameSize, events>>
    /\ UNCHANGED <<config, up, sid, beat, appVars>>

\* handleOpen.  ACCEPT is encoded before the new limit is set.
ReceiveOpen(p) ==
    /\ Receives(p, "open")
    /\ LET m == Head(wire[p])
           size == Min(config.size[p], m.size)
           accept == [kind |-> "accept", len |-> ControlLen(p), ok |-> TRUE,
                      size |-> UInt16(size), interval |-> m.interval]
       IN \/ p # "server" /\ Ignores(p)
          \/ /\ p = "server" /\ m.size < MinFrameSize
             /\ Write(p, <<[accept EXCEPT !.ok = FALSE]>>, TRUE)
             /\ UNCHANGED <<coreVars, events>>
          \/ /\ p = "server" /\ m.size >= MinFrameSize
             /\ LinkReady(p, size, m.interval, <<accept>>, TRUE)
             /\ UNCHANGED <<opening, sid>>

\* Mutant of ReceiveAccept: the client keeps its own limit.
ReceiveAcceptKeepsSize(p) ==
    /\ Receives(p, "accept")
    /\ LET m == Head(wire[p]) IN
       \/ ~opening[p] /\ Ignores(p)
       \/ /\ opening[p]
          /\ opening' = [opening EXCEPT ![p] = FALSE]
          /\ IF m.ok
             THEN LinkReady(p, frameSize[p], m.interval, <<>>, TRUE)
             ELSE /\ Write(p, <<>>, TRUE)
                  /\ Enqueue(p, <<[kind |-> "linkOpenRejected"]>>)
                  /\ UNCHANGED <<gate, frameSize>>
          /\ UNCHANGED sid

\* handleAccept
ReceiveAccept(p) ==
    /\ Receives(p, "accept")
    /\ LET m == Head(wire[p]) IN
       \/ ~opening[p] /\ Ignores(p)
       \/ /\ opening[p]
          /\ opening' = [opening EXCEPT ![p] = FALSE]
          /\ IF m.ok
             THEN LinkReady(p, m.size, m.interval, <<>>, TRUE)
             ELSE /\ Write(p, <<>>, TRUE)
                  /\ Enqueue(p, <<[kind |-> "linkOpenRejected"]>>)
                  /\ UNCHANGED <<gate, frameSize>>
          /\ UNCHANGED sid

\* FrameTooLarge: the decoder drops the frame.
ReceiveTooLarge(p) ==
    /\ Alive(p) /\ wire[p] # <<>>
    /\ Head(wire[p]).len > frameSize[p]
    /\ Ignores(p)
    /\ UNCHANGED <<config, up, lifecycle, beat, appVars>>

-----------------------------------------------------------------------------
(* The session handshake                                                   *)

\* handleHello: a seed is never 0.
ReceiveHello(p) ==
    /\ Receives(p, "hello")
    /\ IF config.logical[p] # "client" THEN Ignores(p)
       ELSE /\ \E seed \in Sids \ {{}} :
                  Write(p, <<[kind |-> "identify", len |-> RpcLen(p),
                              seed |-> seed]>>, TRUE)
            /\ UNCHANGED <<coreVars, events>>

\* Mutant of GenerateSid: no sid where the seeds cancel out.
GenerateSidEmpty(seed, entropy) ==
    IF seed = entropy THEN NoSid ELSE (seed \ entropy) \cup (entropy \ seed)

\* generateSid: the exclusive or of the seeds, and 1 instead of 0.
GenerateSid(seed, entropy) ==
    LET mixed == (seed \ entropy) \cup (entropy \ seed)
    IN IF mixed = {} THEN {0} ELSE mixed

\* handleIdentify
ReceiveIdentify(p) ==
    /\ Receives(p, "identify")
    /\ IF config.logical[p] # "server" THEN Ignores(p)
       ELSE LET s == GenerateSid(Head(wire[p]).seed, config.entropy[p]) IN
            /\ sid' = [sid EXCEPT ![p] = s]
            /\ gate' = [gate EXCEPT ![p] = "APP_READY"]
            /\ Write(p, <<[kind |-> "identified", len |-> RpcLen(p),
                           sid |-> s]>>, TRUE)
            /\ Enqueue(p, <<[kind |-> "handshakeReady"]>>)
            /\ UNCHANGED <<opening, frameSize>>

\* handleIdentified
ReceiveIdentified(p) ==
    /\ Receives(p, "identified")
    /\ LET s == Head(wire[p]).sid IN
       IF config.logical[p] # "client" THEN Ignores(p)
       ELSE /\ Write(p, <<>>, TRUE)
            /\ IF s = {}
               THEN /\ Enqueue(p, <<[kind |-> "handshakeError"]>>)
                    /\ UNCHANGED <<gate, sid>>
               ELSE /\ Enqueue(p, <<[kind |-> "handshakeReady"]>>)
                    /\ sid' = [sid EXCEPT ![p] = s]
                    /\ gate' = [gate EXCEPT ![p] = "APP_READY"]
            /\ UNCHANGED <<opening, frameSize>>

-----------------------------------------------------------------------------
(* Requests, responses and events                                          *)

\* classifyInbound and dispatchBusiness, where they take the message.  What a
\* response does to the table of calls is the subject of PendingCalls.
Admits(p, m) == gate[p] = "APP_READY" /\ m.sid = sid[p]

ReceiveBusiness(p) ==
    /\ Alive(p) /\ wire[p] # <<>>
    /\ UNCHANGED <<config, up, lifecycle, coreVars, beat, appVars>>
    /\ LET m == Head(wire[p]) IN
       /\ m.kind \in Business /\ m.len <= frameSize[p]
       /\ \/ /\ Admits(p, m) /\ m.kind # "response"
             /\ Write(p, <<>>, TRUE)
             /\ Enqueue(p, <<[kind |-> m.kind, n |-> m.n]>>)
          \/ /\ gate[p] # "APP_READY" /\ m.kind = "request"
             /\ Write(p, <<[kind |-> "response", len |-> RpcLen(p),
                            sid |-> sid[p], n |-> m.n]>>, TRUE)
             /\ UNCHANGED events
          \/ /\ IF Admits(p, m) THEN m.kind = "response"
                ELSE gate[p] = "APP_READY" \/ m.kind # "request"
             /\ Write(p, <<>>, TRUE)
             /\ UNCHANGED events

\* call() and emit() of a ready endpoint.
Send(p, kind) ==
    /\ lifecycle[p] = "ready" /\ sent[p] < MaxSends
    /\ sent' = [sent EXCEPT ![p] = @ + 1]
    /\ Write(p, <<[kind |-> kind, len |-> RpcLen(p), sid |-> sid[p],
                   n |-> sent[p] + 1]>>, FALSE)
    /\ UNCHANGED <<config, up, lifecycle, coreVars, events, beat, handling, got>>

\* The handler of a request has finished, or there is none.
Respond(p, n) ==
    /\ n \in handling[p]
    /\ handling' = [handling EXCEPT ![p] = @ \ {n}]
    /\ Write(p, <<[kind |-> "response", len |-> RpcLen(p), sid |-> sid[p],
                   n |-> n]>>, FALSE)
    /\ UNCHANGED <<config, up, lifecycle, coreVars, events, beat, sent, got>>

-----------------------------------------------------------------------------
(* The endpoint                                                            *)

\* close(): the connection goes; what the broker still answers is swallowed,
\* and so is what has not been read.
CloseEndpoint(p) ==
    /\ lifecycle' = [lifecycle EXCEPT ![p] = "closed"]
    /\ up' = FALSE
    /\ beat' = [beat EXCEPT ![p] = 0]
    /\ handling' = [handling EXCEPT ![p] = {}]
    /\ wire' = [wire EXCEPT ![p] = <<>>]
    /\ events' = [events EXCEPT ![p] = <<>>]
    /\ UNCHANGED <<config, coreVars, sent, got>>

Takes(p, kinds) ==
    Alive(p) /\ events[p] # <<>> /\ Head(events[p]).kind \in kinds

\* onCoreEvent: startHeartbeat, onReady, dispatchRequest, dispatchEvent.
Consume(p) ==
    /\ Takes(p, {"linkReady", "handshakeReady", "request", "event"})
    /\ events' = [events EXCEPT ![p] = Tail(@)]
    /\ LET ev == Head(events[p]) IN
       /\ beat' = IF ev.kind = "linkReady" /\ beat[p] = 0
                  THEN [beat EXCEPT ![p] = ev.interval] ELSE beat
       /\ lifecycle' = IF ev.kind = "handshakeReady"
                       THEN [lifecycle EXCEPT ![p] = "ready"] ELSE lifecycle
       /\ handling' = IF ev.kind = "request"
                      THEN [handling EXCEPT ![p] = @ \cup {ev.n}] ELSE handling
       /\ got' = IF ev.kind \in {"request", "event"}
                 THEN [got EXCEPT ![p] = ev.n] ELSE got
    /\ UNCHANGED <<config, up, wire, coreVars, sent>>

\* onCoreEvent: linkOpenRejected, handshakeError.
ConsumeFatal(p) ==
    Takes(p, {"linkOpenRejected", "handshakeError"}) /\ CloseEndpoint(p)

\* The application, the heartbeat or the client's handshake timer.
Close(p) == Alive(p) /\ CloseEndpoint(p)

\* consume() sees the end of the transport: at the end of what was sent, or
\* anywhere before, when the connection was reset.
StreamEnds(p) == Alive(p) /\ ~up /\ CloseEndpoint(p)

\* The network drops the connection.
Cut ==
    /\ up
    /\ up' = FALSE
    /\ UNCHANGED <<config, wire, lifecycle, coreVars, events, beat, appVars>>

-----------------------------------------------------------------------------
Receive(p) ==
    \/ ReceiveOpen(p) \/ ReceiveAccept(p) \/ ReceiveTooLarge(p)
    \/ ReceiveHello(p) \/ ReceiveIdentify(p) \/ ReceiveIdentified(p)
    \/ ReceiveBusiness(p)

Next ==
    \/ \E p \in Peers :
          \/ Start(p) \/ Receive(p) \/ Consume(p) \/ ConsumeFatal(p)
          \/ \E kind \in {"request", "event"} : Send(p, kind)
          \/ \E n \in Numbers : Respond(p, n)
          \/ Close(p) \/ StreamEnds(p)
    \/ Cut

Spec == Init /\ [][Next]_vars

\* A connection that was made is started on both sides, what arrives is read
\* and its end is noticed.  The network need not stay up.
Fairness ==
    \A p \in Peers :
        /\ WF_vars(Start(p))
        /\ WF_vars(Receive(p))
        /\ WF_vars(Consume(p) \/ ConsumeFatal(p))
        /\ WF_vars(StreamEnds(p))

FairSpec == Spec /\ Fairness

-----------------------------------------------------------------------------
(* Properties                                                              *)

\* Two peers in session use one sid, and it is never the empty or the zero
\* sid that handleIdentified would turn down (handshake.ts 104-144).
SidAgreement ==
    /\ \A p \in Peers : gate[p] = "APP_READY" => sid[p] \notin {NoSid, {}}
    /\ (\A p \in Peers : gate[p] = "APP_READY") => sid["client"] = sid["server"]

\* A framed link is opened on the server first, and both ends then decode and
\* fragment under one limit, that of the smaller, with heartbeats of one
\* interval (controlSession.ts 120-192).
LinkAgreement ==
    config.framed =>
        /\ gate["client"] # "LINK_CONNECTED" =>
              /\ gate["server"] # "LINK_CONNECTED"
              /\ frameSize["client"] = frameSize["server"]
              /\ \A p \in Peers : frameSize[p] <= config.size[p]
        /\ beat["client"] # 0 /\ beat["server"] # 0 =>
              beat["client"] = beat["server"]

\* The two ends agree on the session and on the link.
PeersAgree == SidAgreement /\ LinkAgreement

\* Both ends admit a whole OPEN and ACCEPT.  Only MinFrameSize is enforced: a
\* smaller limit is accepted, but the ACCEPT is too large for it.
Roomy == config.framed => \A p \in Peers : config.size[p] >= ControlFrame

\* No message of a peer is turned down: its frames are within the limit the
\* receiver enforces at that moment, and a request, response or event finds
\* the runtime gate open for its sid, however early the sender became ready
\* (runtimeGate.ts 19-27, core.ts 366-436).
NothingRefused ==
    \A p \in Peers : Roomy /\ Alive(p) /\ wire[p] # <<>> =>
        /\ Head(wire[p]).len <= frameSize[p]
        /\ Head(wire[p]).kind \in Business => Admits(p, Head(wire[p]))

\* When a request or an event reaches the broker, the endpoint is ready, so
\* that a handler may call back, and its heartbeat is running; and it is the
\* next one the peer sent: a lost connection loses a suffix.  The queue of
\* CoreEvents keeps the order of the core (endpoint.ts 147-204).
BrokerAfterReady ==
    \A p \in Peers : Takes(p, {"request", "event"}) =>
        /\ Roomy => lifecycle[p] = "ready" /\ beat[p] # 0
        /\ Head(events[p]).n = got[p] + 1

\* What a ready peer sends is served, in its order.
BusinessServed == NothingRefused /\ BrokerAfterReady

\* The frame size is agreed once and the session has one sid for life: no
\* handshake message of the peer comes twice (handleIdentify would mix a new
\* sid, and every message under the old one would be refused).
NegotiatedOnce ==
    [][\A p \in Peers :
          /\ gate[p] # "LINK_CONNECTED" =>
                frameSize'[p] = frameSize[p] /\ gate'[p] # "LINK_CONNECTED"
          /\ gate[p] = "APP_READY" =>
                sid'[p] = sid[p] /\ gate'[p] = "APP_READY"]_vars

\* Peers of opposite logical roles both become ready, whoever opened the
\* connection, unless the connection ends.  (With equal roles they never do:
\* what ends that is the client's handshakeTimeoutMs.)
HandshakeCompletes ==
    Roomy /\ config.logical["client"] # config.logical["server"]
    ~> ~up \/ \A p \in Peers : lifecycle[p] = "ready"
=============================================================================
