----------------------------- MODULE Keepalive ------------------------------
(***************************************************************************)
(* The heartbeat of an endpoint (src/src/endpoint/timers.ts, started and   *)
(* stopped by endpoint.ts) against a peer that answers or dies, and the    *)
(* outbound pipe of the endpoint, which breaks on a message that cannot be *)
(* encoded.  A framed link sends CONTROL heartbeats through that pipe; a   *)
(* WebSocket pings past it.                                                *)
(*                                                                         *)
(* Time passes in units; timers fire when their time has come, in any      *)
(* order if several have, and an answer takes at most MaxRtt.              *)
(***************************************************************************)
EXTENDS Integers, Sequences, SequencesExt

CONSTANTS
    Intervals,  \* heartbeat intervals, in units of time
    MinTimeout, \* the 10000 ms of startHeartbeat
    MaxRtt,     \* an answer arrives that long after its probe, or earlier
    IdModulus   \* 2^16: control ids wrap

\* The network is faster than the slack startHeartbeat leaves.
ASSUME KeepaliveAssumption ==
    /\ Intervals \subseteq Nat \ {0}
    /\ MinTimeout \in Nat /\ MaxRtt \in Nat /\ IdModulus \in Nat \ {0}
    /\ \A i \in Intervals : i + MaxRtt < 2 * i \/ i + MaxRtt < MinTimeout

VARIABLES
    mode,      \* keepaliveMode of the transport's profile
    interval,  \* heartbeatIntervalMs of the link
    link,      \* "wired": no linkReady yet; "open"; "closed"
    tickIn,    \* time left of tickTimer
    timeoutIn, \* time left of timeoutTimer
    controlId, \* nextControlId
    probes,    \* probes that will be answered: [id, age]
    peer,      \* "alive" or "dead"
    outbound,  \* "ok", or "failed" once its transform has thrown
    cause,     \* history: what closed the endpoint
    deadFor    \* history: time since the peer died

kvars == <<mode, interval, link, tickIn, timeoutIn, controlId, probes, peer,
           outbound, cause, deadFor>>

Off == -1  \* a timer that is not armed

\* Mutant of Timeout: without the floor.
TimeoutUnfloored == 2 * interval

Timeout == IF 2 * interval > MinTimeout THEN 2 * interval ELSE MinTimeout

KeepaliveTypeOK ==
    /\ mode \in {"control-heartbeat", "native-keepalive"}
    /\ interval \in Intervals
    /\ link \in {"wired", "open", "closed"}
    /\ IF link = "open"
       THEN tickIn \in 0..interval /\ timeoutIn \in 0..Timeout
       ELSE tickIn = Off /\ timeoutIn = Off
    /\ controlId \in 0..(IdModulus - 1)
    /\ probes \in Seq([id : 0..(IdModulus - 1), age : 0..MaxRtt])
    /\ peer \in {"alive", "dead"}
    /\ outbound \in {"ok", "failed"}
    /\ cause \in {"none", "timeout", "abort", "other"}
    /\ deadFor \in Nat

KeepaliveInit ==
    /\ mode \in {"control-heartbeat", "native-keepalive"}
    /\ interval \in Intervals
    /\ link = "wired"
    /\ tickIn = Off /\ timeoutIn = Off
    /\ controlId = 1 % IdModulus
    /\ probes = <<>>
    /\ peer = "alive"
    /\ outbound = "ok"
    /\ cause = "none"
    /\ deadFor = 0

-----------------------------------------------------------------------------
\* Heartbeat.stop
StopHeartbeat == tickIn' = Off /\ timeoutIn' = Off

\* close(): the heartbeat stops, answers underway find nobody.
CloseFor(reason) ==
    /\ link' = "closed"
    /\ cause' = reason
    /\ StopHeartbeat
    /\ probes' = <<>>
    /\ UNCHANGED <<mode, interval, controlId, peer, outbound, deadFor>>

\* Heartbeat.start
StartHeartbeat == tickIn' = interval /\ timeoutIn' = Timeout

\* startHeartbeat; a linkReady that comes again finds it running.
LinkReady ==
    /\ link = "wired"
    /\ link' = "open"
    /\ StartHeartbeat
    /\ UNCHANGED <<mode, interval, controlId, probes, peer, outbound, cause,
                   deadFor>>

\* allocControlId: 65535 is followed by 0.
AllocControlId == controlId' = (controlId + 1) % IdModulus

\* A control link sends HEARTBEAT, a WebSocket pings.
SendProbe ==
    IF mode = "control-heartbeat" THEN AllocControlId ELSE UNCHANGED controlId

\* onTick sends a probe.  Nobody answers it if the peer is dead or the probe
\* does not leave the endpoint.
TickFires ==
    /\ tickIn = 0
    /\ tickIn' = interval
    /\ SendProbe
    /\ probes' = IF /\ peer = "alive"
                    /\ mode = "control-heartbeat" => outbound = "ok"
                 THEN Append(probes, [id |-> controlId, age |-> 0]) ELSE probes
    /\ UNCHANGED <<mode, interval, link, timeoutIn, peer, outbound, cause,
                   deadFor>>

\* Heartbeat.reset, whichever probe it answers.
AckArrives ==
    /\ probes # <<>>
    /\ probes' = Tail(probes)
    /\ timeoutIn' = Timeout
    /\ UNCHANGED <<mode, interval, link, tickIn, controlId, peer, outbound,
                   cause, deadFor>>

TimeoutFires ==
    /\ timeoutIn = 0
    /\ CloseFor("timeout")

\* The application, the peer or the transport ends the connection.
OtherClose ==
    /\ link # "closed"
    /\ CloseFor("other")

\* The peer stops answering; the answers it gave are still underway.
PeerDies ==
    /\ link # "closed" /\ peer = "alive"
    /\ peer' = "dead"
    /\ \E n \in 0..Len(probes) : probes' = SubSeq(probes, 1, n)
    /\ UNCHANGED <<mode, interval, link, tickIn, timeoutIn, controlId, outbound,
                   cause, deadFor>>

\* The outbound transform throws: the stream is errored for good, and send
\* swallows every later rejection.
EncodeFails ==
    /\ link = "open" /\ outbound = "ok"
    /\ outbound' = "failed"
    /\ UNCHANGED <<mode, interval, link, tickIn, timeoutIn, controlId, probes,
                   peer, cause, deadFor>>

\* pipeTo aborts the transport's writable.  A socket's ends the connection,
\* that of a WebSocket has no abort and does nothing.
AbortNoticed ==
    /\ outbound = "failed" /\ link # "closed"
    /\ mode = "control-heartbeat"
    /\ CloseFor("abort")

\* Time passes up to the next timer or the latest an answer may come.
TimePasses ==
    /\ link = "open"
    /\ tickIn > 0 /\ timeoutIn > 0
    /\ \A i \in DOMAIN probes : probes[i].age < MaxRtt
    /\ tickIn' = tickIn - 1
    /\ timeoutIn' = timeoutIn - 1
    /\ probes' = [i \in DOMAIN probes |->
                     [probes[i] EXCEPT !.age = probes[i].age + 1]]
    /\ deadFor' = IF peer = "dead" THEN deadFor + 1 ELSE 0
    /\ UNCHANGED <<mode, interval, link, controlId, peer, outbound, cause>>

KeepaliveNext ==
    \/ LinkReady \/ TickFires \/ AckArrives \/ TimeoutFires
    \/ OtherClose \/ PeerDies \/ EncodeFails \/ AbortNoticed
    \/ TimePasses

KeepaliveSpec == KeepaliveInit /\ [][KeepaliveNext]_kvars

-----------------------------------------------------------------------------
(* Properties                                                              *)

\* The heartbeat never drops a peer that answers: for every interval the
\* tick, the answer and the reset come before the timeout, whatever the floor
\* of the timeout and wherever the control id wraps.
LivePeerKept ==
    cause = "timeout" =>
        peer = "dead" \/ (mode = "control-heartbeat" /\ outbound = "failed")

\* A dead peer is dropped at most MaxRtt and one timeout after it died, even
\* if its last answers arrive late.
DeadPeerDropped == link = "open" => deadFor <= MaxRtt + Timeout

\* The heartbeat tells a live peer from a dead one (timers.ts 24-62,
\* endpoint.ts 187-204).
HeartbeatTells == LivePeerKept /\ DeadPeerDropped
=============================================================================
