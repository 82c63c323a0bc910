----------------------------- MODULE LinkProofs -----------------------------
(***************************************************************************)
(* What lies between a core and its peer: frames, heartbeat and            *)
(* transports.                                                             *)
(*                                                                         *)
(* Frames: whatever sizes, limits and numbers of frames, whatever pieces   *)
(* the stream arrives in and whatever of it is damaged, the decoder finds  *)
(* what it would find in the whole stream at once, and messages arrive.    *)
(* That is not a matter of the buffer and the assemblies alone: the        *)
(* invariant says that there is a story L of the stream (the messages, the *)
(* frames they were cut into, where each frame ends, and the stream with   *)
(* the damage it took) and a place c in it up to which the decoder has     *)
(* read (Story). By this story the decoder never stands inside a frame     *)
(* that is whole (Outside); an assembly holds fragments of one message,    *)
(* whose frames alone are still to come under its id (Unmixed,             *)
(* Collecting); what is handed on is whole and before all that is to come  *)
(* (HandedOn); and a whole frame behind c was handed on or is held         *)
(* (Accounted). A lost message has a frame with an element that was hit, a *)
(* hit element is in one frame, and every hit was counted (LossesBounded). *)
(*                                                                         *)
(* The heartbeat tells a live peer from a dead one, for every interval,    *)
(* floor of the timeout, width of the control ids and speed of the network *)
(* that leaves the slack of KeepaliveAssumption.  Neither half of          *)
(* HeartbeatTells is inductive.  A live peer is kept because the answer to *)
(* the oldest probe is due before the timeout, and with no probe under way *)
(* the next tick, and the answer to its probe, are (AnswerDue).  A dead    *)
(* peer is dropped because what is left of the timeout shrinks as it stays *)
(* dead, and an answer that arrives late was given before it died          *)
(* (DeathTold).                                                            *)
(*                                                                         *)
(* The transports deliver in order, for any number of messages.  InOrder   *)
(* says what each side was given.  It holds because of what is still under *)
(* way: the queue of transport.readable goes on where the core stops, and  *)
(* the network where the queue does, as long as the readable takes what    *)
(* arrives (Inbound); the outbox goes on where the peer stops, as long as  *)
(* the socket takes what is written (Outbound).                            *)
(***************************************************************************)
EXTENDS Framing, Keepalive, Transport, FiniteSetTheorems, SequenceTheorems,
        WellFoundedInduction, TLAPS

-----------------------------------------------------------------------------
(* Sequences                                                               *)

\* What Append makes of a sequence, element by element.
LEMMA Appended ==
    ASSUME NEW S, NEW s \in Seq(S), NEW e \in S
    PROVE  /\ Append(s, e) \in Seq(S)
           /\ Len(Append(s, e)) = Len(s) + 1
           /\ DOMAIN s = 1..Len(s) /\ Len(s) \in Nat
           /\ DOMAIN Append(s, e) = 1..(Len(s) + 1)
           /\ \A k \in DOMAIN Append(s, e) :
                 Append(s, e)[k] = IF k \in DOMAIN s THEN s[k] ELSE e
<1>1. Append(s, e) \in Seq(S) /\ DOMAIN s = 1..Len(s) /\ Len(s) \in Nat
    OBVIOUS
<1>2. Len(Append(s, e)) = Len(s) + 1
    OBVIOUS
<1>3. DOMAIN Append(s, e) = 1..(Len(s) + 1)
    BY <1>1, <1>2
<1> QED
    BY <1>1, <1>2, <1>3

\* What Head and Tail make of a sequence, element by element.
LEMMA Tailed ==
    ASSUME NEW S, NEW s \in Seq(S), s # <<>>
    PROVE  /\ Tail(s) \in Seq(S)
           /\ Head(s) = s[1] /\ 1 \in DOMAIN s /\ Head(s) \in S
           /\ Len(Tail(s)) = Len(s) - 1
           /\ DOMAIN s = 1..Len(s) /\ Len(s) \in Nat /\ Len(s) >= 1
           /\ DOMAIN Tail(s) = 1..(Len(s) - 1)
           /\ \A k \in DOMAIN Tail(s) : k + 1 \in DOMAIN s /\ Tail(s)[k] = s[k + 1]
<1>1. Tail(s) \in Seq(S) /\ DOMAIN s = 1..Len(s) /\ Len(s) \in Nat /\ Len(s) # 0
    OBVIOUS
<1>2. Len(Tail(s)) = Len(s) - 1
    OBVIOUS
<1>3. DOMAIN Tail(s) = 1..(Len(s) - 1)
    BY <1>1, <1>2
<1>4. Head(s) = s[1] /\ 1 \in DOMAIN s
    BY <1>1
<1>5. s[1] \in S
    BY <1>4
<1> QED
    BY <1>1, <1>2, <1>3, <1>4, <1>5

-----------------------------------------------------------------------------
(* Heartbeat                                                               *)

\* A probe leaves the endpoint and is answered.
Answers == peer = "alive" /\ (mode = "control-heartbeat" => outbound = "ok")

\* What resets the timeout comes before it fires.
AnswerDue ==
    link = "open" /\ Answers =>
        IF probes = <<>> THEN timeoutIn > tickIn + MaxRtt
                         ELSE timeoutIn + probes[1].age > MaxRtt

\* A peer has been dead no longer than the youngest answer is under way, and
\* the timeout has been running meanwhile.
DeathTold ==
    /\ peer = "alive" \/ link = "wired" => deadFor = 0
    /\ \A k \in DOMAIN probes : deadFor <= probes[k].age
    /\ link = "open" => deadFor + timeoutIn <= MaxRtt + Timeout

\* The inductive invariant.
KeepaliveInv ==
    /\ KeepaliveTypeOK
    /\ link # "open" => probes = <<>>
    /\ AnswerDue
    /\ DeathTold
    /\ LivePeerKept

\* A probe under way.
Probe == [id : 0..(IdModulus - 1), age : 0..MaxRtt]

\* A probe ages by one unit at a time.
LEMMA Aged ==
    ASSUME NEW p \in Probe
    PROVE  /\ p.age \in 0..MaxRtt
           /\ p.age < MaxRtt => /\ [p EXCEPT !.age = p.age + 1] \in Probe
                                /\ [p EXCEPT !.age = p.age + 1].age = p.age + 1
BY KeepaliveAssumption DEF Probe

\* The probes under way are probes.
LEMMA ProbesTyped ==
    ASSUME KeepaliveTypeOK
    PROVE  /\ probes \in Seq(Probe)
           /\ \A k \in DOMAIN probes : probes[k] \in Probe /\ probes[k].age \in 0..MaxRtt
<1>1. probes \in Seq(Probe)
    BY DEF KeepaliveTypeOK, Probe
<1>2. \A k \in DOMAIN probes : probes[k] \in Probe
    BY <1>1
<1> QED
    BY <1>1, <1>2, Aged

\* Two intervals, or the floor, leave time for a tick and an answer.
LEMMA Slack ==
    ASSUME KeepaliveTypeOK
    PROVE  /\ interval \in Nat \ {0}
           /\ Timeout \in Nat
           /\ interval + MaxRtt < Timeout
BY KeepaliveAssumption DEF KeepaliveTypeOK, Timeout

\* The timers of an open link.
LEMMA TimersRun ==
    ASSUME KeepaliveTypeOK, link = "open"
    PROVE  /\ tickIn \in Nat /\ tickIn <= interval
           /\ timeoutIn \in Nat /\ timeoutIn <= Timeout
<1>1. tickIn \in 0..interval /\ timeoutIn \in 0..Timeout
    BY DEF KeepaliveTypeOK
<1> QED
    BY <1>1, Slack

\* The first element of a sequence that has one.
LEMMA First ==
    ASSUME NEW S, NEW s \in Seq(S)
    PROVE  1 \in DOMAIN s <=> s # <<>>
OBVIOUS

\* The control ids wrap within their width.
LEMMA ControlIdWraps == \A n \in Nat : n % IdModulus \in 0..(IdModulus - 1)
BY KeepaliveAssumption

\* A link that is wired has no timer, no probe and no dead time.
LEMMA InitInv == KeepaliveInit => KeepaliveInv
<1> SUFFICES ASSUME KeepaliveInit PROVE KeepaliveInv
    OBVIOUS
<1>1. controlId \in 0..(IdModulus - 1)
    BY ControlIdWraps DEF KeepaliveInit
<1>2. KeepaliveTypeOK
    BY <1>1, KeepaliveAssumption DEF KeepaliveInit, KeepaliveTypeOK, Off
<1> QED
    BY <1>2 DEF KeepaliveInit, KeepaliveInv, AnswerDue, DeathTold, LivePeerKept

\* A connection that ends leaves no probe and no timer behind.
LEMMA CloseKept ==
    ASSUME KeepaliveInv, NEW reason \in {"timeout", "abort", "other"},
           CloseFor(reason),
           reason = "timeout" => ~ Answers
    PROVE  KeepaliveInv'
<1>1. KeepaliveTypeOK'
    BY DEF KeepaliveInv, KeepaliveTypeOK, CloseFor, StopHeartbeat, Off, Timeout
<1>2. (link # "open" => probes = <<>>)' /\ AnswerDue'
    BY DEF CloseFor, AnswerDue
<1>3. DeathTold'
    BY DEF KeepaliveInv, DeathTold, CloseFor
<1>4. LivePeerKept'
    BY DEF KeepaliveInv, KeepaliveTypeOK, LivePeerKept, CloseFor, Answers
<1> QED
    BY <1>1, <1>2, <1>3, <1>4 DEF KeepaliveInv

\* startHeartbeat arms both timers: the first tick and its answer fit in.
LEMMA LinkReadyKept == KeepaliveInv /\ LinkReady => KeepaliveInv'
<1> SUFFICES ASSUME KeepaliveInv, LinkReady PROVE KeepaliveInv'
    OBVIOUS
<1>1. KeepaliveTypeOK /\ Timeout' = Timeout /\ probes = <<>> /\ deadFor = 0
    BY DEF KeepaliveInv, LinkReady, Timeout, DeathTold
<1>2. KeepaliveTypeOK'
    BY <1>1, Slack DEF KeepaliveTypeOK, LinkReady, StartHeartbeat
<1>3. (link # "open" => probes = <<>>)' /\ LivePeerKept'
    BY DEF KeepaliveInv, LinkReady, LivePeerKept
<1>4. AnswerDue'
    BY <1>1, Slack DEF AnswerDue, LinkReady, StartHeartbeat, Answers
<1>5. DeathTold'
    BY <1>1, Slack, KeepaliveAssumption DEF DeathTold, LinkReady, StartHeartbeat
<1> QED
    BY <1>2, <1>3, <1>4, <1>5 DEF KeepaliveInv

\* onTick: the timeout leaves more than MaxRtt when the tick fires, so the
\* answer to this probe is in time; a probe under way stays the oldest.
LEMMA TickKept == KeepaliveInv /\ TickFires => KeepaliveInv'
<1> SUFFICES ASSUME KeepaliveInv, TickFires PROVE KeepaliveInv'
    OBVIOUS
<1> DEFINE probe == [id |-> controlId, age |-> 0]
<1>1. KeepaliveTypeOK /\ Timeout' = Timeout /\ link = "open" /\ probes \in Seq(Probe)
    BY ProbesTyped DEF KeepaliveInv, KeepaliveTypeOK, TickFires, Timeout, Off
<1>2. probe \in Probe /\ probe.age = 0
    BY <1>1, KeepaliveAssumption DEF KeepaliveTypeOK, Probe
<1>3. /\ Append(probes, probe) \in Seq(Probe)
      /\ Append(probes, probe) # <<>>
      /\ \A k \in DOMAIN Append(probes, probe) :
            Append(probes, probe)[k] = IF k \in DOMAIN probes THEN probes[k] ELSE probe
      /\ 1 \in DOMAIN Append(probes, probe)
      /\ 1 \in DOMAIN probes <=> probes # <<>>
    <2> HIDE DEF probe
    <2>1. Append(probes, probe) \in Seq(Probe)
        BY <1>1, <1>2
    <2>2. /\ DOMAIN Append(probes, probe) = 1..(Len(probes) + 1) /\ Len(probes) \in Nat
          /\ \A k \in DOMAIN Append(probes, probe) :
                Append(probes, probe)[k] = IF k \in DOMAIN probes THEN probes[k] ELSE probe
        BY <1>1, <1>2, Appended
    <2>3. 1 \in DOMAIN Append(probes, probe)
        BY <2>2
    <2>4. Append(probes, probe) # <<>>
        BY <2>1, <2>3, First
    <2>5. 1 \in DOMAIN probes <=> probes # <<>>
        BY <1>1, First
    <2> QED BY <2>1, <2>2, <2>3, <2>4, <2>5
<1>4. controlId' \in 0..(IdModulus - 1)
    <2>1. controlId \in 0..(IdModulus - 1)
        BY <1>1 DEF KeepaliveTypeOK
    <2>2. controlId + 1 \in Nat
        BY <2>1, KeepaliveAssumption
    <2>3. (controlId + 1) % IdModulus \in 0..(IdModulus - 1)
        BY <2>2, ControlIdWraps
    <2>4. controlId' \in {controlId, (controlId + 1) % IdModulus}
        BY DEF TickFires, SendProbe, AllocControlId
    <2> QED
        BY <2>1, <2>3, <2>4
<1>5. probes' \in {probes, Append(probes, probe)} /\ (Answers => probes' = Append(probes, probe))
    BY DEF TickFires, Answers
<1>6. KeepaliveTypeOK'
    <2>1. probes' \in Seq(Probe)
        BY <1>1, <1>3, <1>5
    <2> QED
        BY <2>1, <1>1, <1>4, Slack DEF KeepaliveTypeOK, TickFires, Probe
<1>7. (link # "open" => probes = <<>>)' /\ LivePeerKept'
    BY <1>1 DEF KeepaliveInv, TickFires, LivePeerKept
<1>8. AnswerDue'
    <2> SUFFICES ASSUME Answers
                 PROVE  probes' # <<>> /\ timeoutIn + probes'[1].age > MaxRtt
        BY <1>1 DEF AnswerDue, TickFires, Answers
    <2>1. CASE probes = <<>>
        <3>1. probes'[1] = probe
            BY <2>1, <1>3, <1>5
        <3> QED
            BY <3>1, <2>1, <1>1, <1>2, <1>3, <1>5, KeepaliveAssumption
               DEF KeepaliveInv, AnswerDue, TickFires, KeepaliveTypeOK
    <2>2. CASE probes # <<>>
        <3>1. probes'[1] = probes[1]
            BY <2>2, <1>3, <1>5
        <3> QED
            BY <3>1, <2>2, <1>1, <1>3, <1>5 DEF KeepaliveInv, AnswerDue
    <2> QED BY <2>1, <2>2
<1>9. DeathTold'
    <2>1. ASSUME NEW k \in DOMAIN probes' PROVE deadFor <= probes'[k].age
        <3>1. CASE probes' = probes
            BY <3>1 DEF KeepaliveInv, DeathTold
        <3>2. CASE probes' # probes
            <4>1. peer = "alive" /\ probes' = Append(probes, probe)
                BY <3>2 DEF TickFires
            <4>2. probes'[k] = IF k \in DOMAIN probes THEN probes[k] ELSE probe
                BY <4>1, <1>3
            <4> QED
                BY <4>1, <4>2, <1>2 DEF KeepaliveInv, DeathTold
        <3> QED BY <3>1, <3>2
    <2> QED
        BY <2>1, <1>1 DEF KeepaliveInv, DeathTold, TickFires
<1> QED
    BY <1>6, <1>7, <1>8, <1>9 DEF KeepaliveInv

\* Heartbeat.reset: a whole timeout from here, whatever is still under way.
LEMMA AckKept == KeepaliveInv /\ AckArrives => KeepaliveInv'
<1> SUFFICES ASSUME KeepaliveInv, AckArrives PROVE KeepaliveInv'
    OBVIOUS
<1>1. KeepaliveTypeOK /\ Timeout' = Timeout /\ link = "open" /\ probes \in Seq(Probe)
    <2>1. KeepaliveTypeOK /\ Timeout' = Timeout
        BY DEF KeepaliveInv, AckArrives, Timeout
    <2> QED
        BY <2>1, ProbesTyped DEF KeepaliveInv, AckArrives
<1>2. /\ Tail(probes) \in Seq(Probe)
      /\ \A k \in DOMAIN Tail(probes) :
            k + 1 \in DOMAIN probes /\ Tail(probes)[k] = probes[k + 1]
      /\ 1 \in DOMAIN probes
      /\ Tail(probes) # <<>> => 1 \in DOMAIN Tail(probes)
    <2> QED BY <1>1, Tailed, First DEF AckArrives
<1>3. \A k \in DOMAIN probes : probes[k].age \in 0..MaxRtt
    BY <1>1, ProbesTyped
<1>4. KeepaliveTypeOK'
    BY <1>1, <1>2, Slack DEF KeepaliveTypeOK, AckArrives, Probe
<1>5. (link # "open" => probes = <<>>)' /\ LivePeerKept'
    BY <1>1 DEF KeepaliveInv, AckArrives, LivePeerKept
<1>6. AnswerDue'
    <2>1. tickIn \in 0..interval
        BY <1>1 DEF KeepaliveTypeOK
    <2>2. probes' # <<>> => probes'[1].age \in 0..MaxRtt
        BY <1>2, <1>3 DEF AckArrives
    <2>3. timeoutIn' = Timeout /\ tickIn' = tickIn
        BY DEF AckArrives
    <2> QED
        BY <2>1, <2>2, <2>3, <1>1, Slack, KeepaliveAssumption DEF AnswerDue
<1>7. DeathTold'
    <2>1. deadFor <= probes[1].age /\ probes[1].age \in 0..MaxRtt /\ deadFor \in Nat
        BY <1>1, <1>2, <1>3 DEF KeepaliveInv, DeathTold, KeepaliveTypeOK
    <2>2. ASSUME NEW k \in DOMAIN probes' PROVE deadFor <= probes'[k].age
        BY <1>2 DEF KeepaliveInv, DeathTold, AckArrives
    <2>3. deadFor + Timeout <= MaxRtt + Timeout
        BY <2>1, <1>1, Slack, KeepaliveAssumption
    <2> QED
        BY <2>2, <2>3, <1>1 DEF KeepaliveInv, DeathTold, AckArrives
<1> QED
    BY <1>4, <1>5, <1>6, <1>7 DEF KeepaliveInv

\* The timeout fires only where the peer, or the pipe, has gone.
LEMMA TimeoutKept == KeepaliveInv /\ TimeoutFires => KeepaliveInv'
<1> SUFFICES ASSUME KeepaliveInv, TimeoutFires PROVE KeepaliveInv'
    OBVIOUS
<1>1. KeepaliveTypeOK /\ link = "open" /\ tickIn \in Nat
    BY TimersRun DEF KeepaliveInv, KeepaliveTypeOK, TimeoutFires, Off
<1>2. probes # <<>> => 1 \in DOMAIN probes /\ probes[1].age \in 0..MaxRtt
    BY <1>1, ProbesTyped, First
<1>3. ~ Answers
    BY <1>1, <1>2, KeepaliveAssumption DEF KeepaliveInv, AnswerDue, TimeoutFires
<1> QED
    BY <1>3, CloseKept DEF TimeoutFires

\* The answers of a peer that dies stay under way, or some of them do.
LEMMA PeerDiesKept == KeepaliveInv /\ PeerDies => KeepaliveInv'
<1> SUFFICES ASSUME KeepaliveInv, PeerDies PROVE KeepaliveInv'
    OBVIOUS
<1>1. KeepaliveTypeOK /\ Timeout' = Timeout /\ probes \in Seq(Probe) /\ deadFor = 0
    BY ProbesTyped DEF KeepaliveInv, PeerDies, Timeout, DeathTold
<1>2. PICK n \in 0..Len(probes) : probes' = SubSeq(probes, 1, n)
    BY DEF PeerDies
<1>3. /\ probes' \in Seq(Probe)
      /\ \A k \in DOMAIN probes' : k \in DOMAIN probes /\ probes'[k] = probes[k]
      /\ probes = <<>> => probes' = <<>>
    <2>1. n \in Int /\ 1 \in Int /\ 1 \in 1..n+1 /\ n <= Len(probes)
        BY <1>1, <1>2
    <2> QED
        BY <2>1, <1>1, <1>2
<1>4. KeepaliveTypeOK'
    BY <1>1, <1>3 DEF KeepaliveTypeOK, PeerDies, Probe
<1>5. (link # "open" => probes = <<>>)' /\ LivePeerKept' /\ AnswerDue'
    BY <1>3 DEF KeepaliveInv, PeerDies, LivePeerKept, AnswerDue, Answers
<1>6. DeathTold'
    BY <1>1, <1>3 DEF KeepaliveInv, PeerDies, DeathTold
<1> QED
    BY <1>4, <1>5, <1>6 DEF KeepaliveInv

\* The pipe of the endpoint breaks: a control link has no more probes.
LEMMA EncodeFailsKept == KeepaliveInv /\ EncodeFails => KeepaliveInv'
BY DEF KeepaliveInv, EncodeFails, KeepaliveTypeOK, Timeout, AnswerDue, Answers,
       DeathTold, LivePeerKept

\* A unit of time: timers shrink as the probes age and the dead stay dead.
LEMMA TimePassesKept == KeepaliveInv /\ TimePasses => KeepaliveInv'
<1> SUFFICES ASSUME KeepaliveInv, TimePasses PROVE KeepaliveInv'
    OBVIOUS
<1>1. /\ KeepaliveTypeOK /\ Timeout' = Timeout /\ link = "open"
      /\ probes \in Seq(Probe) /\ deadFor \in Nat
      /\ tickIn \in Nat /\ timeoutIn \in Nat
    <2>1. KeepaliveTypeOK /\ link = "open" /\ Timeout' = Timeout
        BY DEF KeepaliveInv, TimePasses, Timeout
    <2> QED
        BY <2>1, TimersRun, ProbesTyped DEF KeepaliveTypeOK
<1>2. /\ DOMAIN probes' = DOMAIN probes /\ DOMAIN probes = 1..Len(probes)
      /\ Len(probes) \in Nat
    <2>1. DOMAIN probes = 1..Len(probes) /\ Len(probes) \in Nat
        BY <1>1
    <2> QED
        BY <2>1 DEF TimePasses
<1>3. \A k \in DOMAIN probes : /\ probes[k].age \in 0..MaxRtt
                               /\ probes'[k] = [probes[k] EXCEPT !.age = probes[k].age + 1]
    BY <1>1, ProbesTyped DEF TimePasses
<1>4. \A k \in DOMAIN probes : probes'[k] \in Probe /\ probes'[k].age = probes[k].age + 1
    <2> TAKE k \in DOMAIN probes
    <2>1. probes[k] \in Probe /\ probes[k].age < MaxRtt
        BY <1>1, ProbesTyped DEF TimePasses
    <2>2. probes'[k] = [probes[k] EXCEPT !.age = probes[k].age + 1]
        BY <1>3
    <2> QED
        BY <2>1, <2>2, Aged
<1>5. probes' \in Seq(Probe) /\ (probes' = <<>> <=> probes = <<>>)
      /\ (probes # <<>> => 1 \in DOMAIN probes)
    <2>1. probes' \in [1..Len(probes) -> Probe]
        BY <1>2, <1>4 DEF TimePasses
    <2>2. probes' \in Seq(Probe)
        BY <2>1, <1>2
    <2>3. DOMAIN probes' = DOMAIN probes
        BY <1>2
    <2> QED
        BY <2>2, <2>3, <1>1, First
<1>6. KeepaliveTypeOK'
    <2>1. tickIn' \in 0..interval /\ timeoutIn' \in 0..Timeout
        BY <1>1, Slack, TimersRun DEF TimePasses
    <2>2. deadFor' \in Nat
        BY <1>1 DEF TimePasses
    <2> QED
        BY <2>1, <2>2, <1>1, <1>5 DEF KeepaliveTypeOK, TimePasses, Probe
<1>7. (link # "open" => probes = <<>>)' /\ LivePeerKept'
    BY <1>1 DEF KeepaliveInv, TimePasses, LivePeerKept
<1>8. AnswerDue'
    <2> SUFFICES ASSUME Answers
                 PROVE  IF probes = <<>> THEN timeoutIn' > tickIn' + MaxRtt
                                         ELSE timeoutIn' + probes'[1].age > MaxRtt
        BY <1>1, <1>5 DEF TimePasses, AnswerDue, Answers
    <2>1. IF probes = <<>> THEN timeoutIn > tickIn + MaxRtt
                           ELSE timeoutIn + probes[1].age > MaxRtt
        BY <1>1 DEF KeepaliveInv, AnswerDue
    <2>2. probes # <<>> => probes[1].age \in 0..MaxRtt /\ probes'[1].age = probes[1].age + 1
        BY <1>3, <1>4, <1>5
    <2>3. timeoutIn' = timeoutIn - 1 /\ tickIn' = tickIn - 1
        BY DEF TimePasses
    <2> QED
        BY <2>1, <2>2, <2>3, <1>1, KeepaliveAssumption
<1>9. DeathTold'
    <2>1. ASSUME NEW k \in DOMAIN probes' PROVE deadFor' <= probes'[k].age
        <3>1. k \in DOMAIN probes /\ deadFor <= probes[k].age
            BY <2>1, <1>2 DEF KeepaliveInv, DeathTold
        <3>2. probes'[k].age = probes[k].age + 1 /\ probes[k].age \in 0..MaxRtt
            BY <3>1, <1>3, <1>4
        <3>3. deadFor' \in {0, deadFor + 1}
            BY DEF TimePasses
        <3> QED
            BY <3>1, <3>2, <3>3, <1>1, KeepaliveAssumption
    <2>2. deadFor' + timeoutIn' <= MaxRtt + Timeout
        BY <1>1, Slack, KeepaliveAssumption DEF KeepaliveInv, DeathTold, TimePasses
    <2>3. peer' = "alive" => deadFor' = 0
        BY DEF TimePasses
    <2> QED
        BY <2>1, <2>2, <2>3, <1>1 DEF DeathTold, TimePasses
<1> QED
    BY <1>6, <1>7, <1>8, <1>9 DEF KeepaliveInv

\* The heartbeat (timers.ts 24-62, started and stopped by endpoint.ts)
\* keeps the inductive invariant.
THEOREM HeartbeatInvariance == KeepaliveSpec => []KeepaliveInv
<1>1. KeepaliveInv /\ [KeepaliveNext]_kvars => KeepaliveInv'
    <2> SUFFICES ASSUME KeepaliveInv, [KeepaliveNext]_kvars PROVE KeepaliveInv'
        OBVIOUS
    <2>1. CASE OtherClose
        BY <2>1, CloseKept DEF OtherClose
    <2>2. CASE AbortNoticed
        BY <2>2, CloseKept DEF AbortNoticed
    <2>3. CASE UNCHANGED kvars
        BY <2>3 DEF kvars, KeepaliveInv, KeepaliveTypeOK, Timeout, AnswerDue, Answers,
                    DeathTold, LivePeerKept
    <2> QED
        BY <2>1, <2>2, <2>3, LinkReadyKept, TickKept, AckKept, TimeoutKept,
           PeerDiesKept, EncodeFailsKept, TimePassesKept DEF KeepaliveNext
<1> QED
    BY InitInv, <1>1, PTL DEF KeepaliveSpec

\* The heartbeat's variables keep their types; control ids stay in their
\* range when they wrap.
THEOREM HeartbeatTypeCorrect == KeepaliveSpec => []KeepaliveTypeOK
<1>1. KeepaliveInv => KeepaliveTypeOK
    BY DEF KeepaliveInv
<1> QED
    BY HeartbeatInvariance, <1>1, PTL

\* A peer that answers is never dropped, and a dead one is dropped at most
\* MaxRtt and one timeout after it died (timers.ts 24-62, endpoint.ts
\* 187-204), for every interval, floor and width of the control ids.
THEOREM PeersTold == KeepaliveSpec => []HeartbeatTells
<1>1. KeepaliveInv => HeartbeatTells
    <2> SUFFICES ASSUME KeepaliveInv PROVE HeartbeatTells
        OBVIOUS
    <2>1. KeepaliveTypeOK /\ LivePeerKept
        BY DEF KeepaliveInv
    <2>2. ASSUME link = "open" PROVE deadFor <= MaxRtt + Timeout
        <3>1. timeoutIn \in 0..Timeout /\ deadFor \in Nat /\ Timeout \in Nat
            BY <2>1, <2>2, Slack DEF KeepaliveTypeOK
        <3> QED
            BY <3>1, <2>2, KeepaliveAssumption DEF KeepaliveInv, DeathTold
    <2> QED
        BY <2>1, <2>2 DEF HeartbeatTells, DeadPeerDropped
<1> QED
    BY HeartbeatInvariance, <1>1, PTL

-----------------------------------------------------------------------------
(* Transports                                                              *)

\* A sequence carries the messages after lo, up to hi, in order, between what
\* is not numbered.
Carries(s, lo, hi) ==
    /\ \A i \in DOMAIN s : s[i] > 0 => s[i] \in (lo + 1)..hi
    /\ \A n \in (lo + 1)..hi : \E i \in DOMAIN s : s[i] = n
    /\ \A i, j \in DOMAIN s : i < j /\ s[i] > 0 /\ s[j] > 0 => s[i] < s[j]

\* A sequence is the messages after lo.
Follows(s, lo) == \A i \in DOMAIN s : s[i] = lo + i

\* The end is the last thing on the network, and only a WebSocket has binary
\* messages.
NetworkOK ==
    \A i \in DOMAIN network :
        /\ network[i] \in Ends => i = Len(network) /\ network[i] = peerEnd
        /\ network[i] = Binary => kind = "ws"

\* The messages after lo, up to the last, are under way; of a connection that
\* was cut, the first of them.
Underway(s, lo, last, how) ==
    \E hi \in lo..last : Carries(s, lo, hi) /\ (how # Reset => hi = last)

\* A clean end follows the last message, or the cut of a WebSocket.
CleanAfter(n) == \/ peerEnd = End /\ n = texts
                 \/ peerEnd = Reset /\ kind = "ws"

\* What the core was given, what waits for it and what is under way.
Inbound ==
    /\ NetworkOK
    /\ Follows(core, 0)
    /\ Follows(chunks, Len(core))
    /\ Len(core) + Len(chunks) <= texts
    /\ readable = "readable" =>
        Underway(network, Len(core) + Len(chunks), texts, peerEnd)
    /\ readable = "ending" => CleanAfter(Len(core) + Len(chunks))
    /\ endpoint = "end" => CleanAfter(Len(core))

\* What the peer was given and what waits for it.
Outbound ==
    /\ Follows(got, 0)
    /\ Follows(outbox, emitted - Len(outbox))
    /\ Len(got) + Len(outbox) <= emitted
    /\ socket = "open" /\ pipe # "stopped" => Len(got) + Len(outbox) = emitted

\* The socket, the pipes and the endpoint go through their lives together.
LivesAgree ==
    /\ socket \in {"connecting", "failed"} <=> endpoint = "none"
    /\ endpoint = "none" <=> pipe = "none"
    /\ endpoint = "open" <=> pipe = "running"
    /\ endpoint = "none" => got = <<>>
    /\ readable = "cancelled" => pipe = "stopped"
    /\ pipe \in {"aborting", "stopped"} /\ kind # "mock" => socket \in {"closing", "ended"}
    /\ pipe = "stopped" /\ kind = "mock" => peerTold
    /\ kind = "ws" /\ \/ readable \in {"ending", "errored"}
                      \/ endpoint \in {"end", "error"}
                      \/ terminated
         => socket = "ended"
    /\ CrashIsLate

\* The inductive invariant.
TransportInv == TransportTypeOK /\ Inbound /\ Outbound /\ LivesAgree

-----------------------------------------------------------------------------
(* Sequences                                                               *)

\* The next message goes to the end,
LEMMA FollowsAppend ==
    ASSUME NEW S, NEW s \in Seq(S), NEW lo \in Int,
           Follows(s, lo), lo + Len(s) + 1 \in S
    PROVE  Follows(Append(s, lo + Len(s) + 1), lo)
<1> DEFINE e == lo + Len(s) + 1
<1>1. e \in S
    OBVIOUS
<1> HIDE DEF e
<1>2. /\ DOMAIN s = 1..Len(s) /\ Len(s) \in Nat
      /\ DOMAIN Append(s, e) = 1..(Len(s) + 1)
      /\ \A k \in DOMAIN Append(s, e) :
            Append(s, e)[k] = IF k \in DOMAIN s THEN s[k] ELSE e
    BY <1>1, Appended
<1>3. ASSUME NEW k \in DOMAIN Append(s, e) PROVE Append(s, e)[k] = lo + k
    <2>1. CASE k \in DOMAIN s
        BY <2>1, <1>2 DEF Follows
    <2>2. CASE k \notin DOMAIN s
        <3>1. k = Len(s) + 1
            BY <2>2, <1>2
        <3> QED
            BY <3>1, <2>2, <1>2 DEF e
    <2> QED
        BY <2>1, <2>2
<1>4. Follows(Append(s, e), lo)
    BY <1>3 DEF Follows
<1> QED
    BY <1>4 DEF e

\* and the first one is the next.
LEMMA FollowsTail ==
    ASSUME NEW S, NEW s \in Seq(S), NEW lo \in Int, Follows(s, lo), s # <<>>
    PROVE  Head(s) = lo + 1 /\ Follows(Tail(s), lo + 1)
<1>1. /\ Head(s) = s[1] /\ 1 \in DOMAIN s
      /\ DOMAIN Tail(s) \subseteq Nat
      /\ \A k \in DOMAIN Tail(s) : k + 1 \in DOMAIN s /\ Tail(s)[k] = s[k + 1]
    BY Tailed
<1>2. ASSUME NEW k \in DOMAIN Tail(s) PROVE Tail(s)[k] = (lo + 1) + k
    BY <1>1 DEF Follows
<1> QED
    BY <1>1, <1>2 DEF Follows

\* What the peer sends goes on where it stopped; what is not a numbered
\* message does not count.
LEMMA CarriesAppend ==
    ASSUME NEW s \in Seq(Int), NEW lo \in Nat, NEW hi \in Nat, NEW e \in Int,
           lo <= hi, Carries(s, lo, hi)
    PROVE  /\ e = hi + 1 => Carries(Append(s, e), lo, hi + 1)
           /\ e <= 0 => Carries(Append(s, e), lo, hi)
<1> DEFINE t == Append(s, e)
<1>1. /\ DOMAIN s = 1..Len(s) /\ Len(s) \in Nat
      /\ DOMAIN t = 1..(Len(s) + 1)
      /\ \A k \in DOMAIN t : t[k] = IF k \in DOMAIN s THEN s[k] ELSE e
    BY Appended
<1> HIDE DEF t
<1>2. /\ \A i \in DOMAIN s : i \in DOMAIN t /\ t[i] = s[i] /\ s[i] \in Int /\ i \in Nat
      /\ \A i \in DOMAIN t : i \in DOMAIN s \/ (i = Len(s) + 1 /\ t[i] = e)
      /\ \A i \in DOMAIN s : i < Len(s) + 1
      /\ Len(s) + 1 \in DOMAIN t /\ t[Len(s) + 1] = e
    BY <1>1
<1>3. ASSUME e = hi + 1 PROVE Carries(t, lo, hi + 1)
    <2>1. ASSUME NEW i \in DOMAIN t, t[i] > 0 PROVE t[i] \in (lo + 1)..(hi + 1)
        BY <2>1, <1>2, <1>3 DEF Carries
    <2>2. ASSUME NEW n \in (lo + 1)..(hi + 1) PROVE \E i \in DOMAIN t : t[i] = n
        <3>1. CASE n = hi + 1
            BY <3>1, <1>2, <1>3
        <3>2. CASE n # hi + 1
            <4>1. n \in (lo + 1)..hi
                BY <3>2
            <4> QED
                BY <4>1, <1>2 DEF Carries
        <3> QED BY <3>1, <3>2
    <2>3. ASSUME NEW i \in DOMAIN t, NEW j \in DOMAIN t, i < j, t[i] > 0, t[j] > 0
          PROVE  t[i] < t[j]
        <3>1. i \in DOMAIN s
            BY <2>3, <1>1, <1>2
        <3>2. CASE j \in DOMAIN s
            BY <3>1, <3>2, <2>3, <1>2 DEF Carries
        <3>3. CASE j \notin DOMAIN s
            <4>1. t[j] = hi + 1 /\ t[i] = s[i] /\ s[i] > 0
                BY <3>1, <3>3, <2>3, <1>2, <1>3
            <4>2. s[i] \in (lo + 1)..hi
                BY <3>1, <4>1 DEF Carries
            <4> QED BY <4>1, <4>2
        <3> QED BY <3>2, <3>3
    <2> QED BY <2>1, <2>2, <2>3 DEF Carries
<1>4. ASSUME e <= 0 PROVE Carries(t, lo, hi)
    <2>1. ASSUME NEW i \in DOMAIN t, t[i] > 0 PROVE i \in DOMAIN s /\ t[i] = s[i]
        BY <2>1, <1>2, <1>4
    <2>2. ASSUME NEW i \in DOMAIN t, t[i] > 0 PROVE t[i] \in (lo + 1)..hi
        BY <2>1, <2>2 DEF Carries
    <2>3. ASSUME NEW n \in (lo + 1)..hi PROVE \E i \in DOMAIN t : t[i] = n
        BY <1>2 DEF Carries
    <2>4. ASSUME NEW i \in DOMAIN t, NEW j \in DOMAIN t, i < j, t[i] > 0, t[j] > 0
          PROVE  t[i] < t[j]
        BY <2>1, <2>4 DEF Carries
    <2> QED BY <2>2, <2>3, <2>4 DEF Carries
<1> QED
    BY <1>3, <1>4 DEF t

\* What arrives is the first message that has not arrived, or not a
\* numbered one.
LEMMA CarriesTail ==
    ASSUME NEW s \in Seq(Int), NEW lo \in Nat, NEW hi \in Nat,
           Carries(s, lo, hi), s # <<>>
    PROVE  /\ Head(s) > 0 => /\ Head(s) = lo + 1 /\ lo + 1 <= hi
                             /\ Carries(Tail(s), lo + 1, hi)
           /\ Head(s) <= 0 => Carries(Tail(s), lo, hi)
<1> DEFINE t == Tail(s)
<1>1. /\ Head(s) = s[1] /\ 1 \in DOMAIN s /\ Head(s) \in Int
      /\ DOMAIN s = 1..Len(s) /\ Len(s) \in Nat /\ Len(s) >= 1
      /\ DOMAIN t = 1..(Len(s) - 1)
      /\ \A k \in DOMAIN t : k + 1 \in DOMAIN s /\ t[k] = s[k + 1]
    BY Tailed
<1>2. \A i \in DOMAIN s : s[i] \in Int
    BY <1>1
<1> HIDE DEF t
<1>3. ASSUME NEW i \in DOMAIN s, i # 1 PROVE i - 1 \in DOMAIN t /\ t[i - 1] = s[i]
    <2>1. i - 1 \in DOMAIN t /\ (i - 1) + 1 = i
        BY <1>1, <1>3
    <2> QED BY <2>1, <1>1
<1>4. \A i, j \in DOMAIN t : i < j /\ t[i] > 0 /\ t[j] > 0 => t[i] < t[j]
    <2> SUFFICES ASSUME NEW i \in DOMAIN t, NEW j \in DOMAIN t, i < j, t[i] > 0, t[j] > 0
                 PROVE  t[i] < t[j]
        OBVIOUS
    <2>1. /\ i + 1 \in DOMAIN s /\ t[i] = s[i + 1]
          /\ j + 1 \in DOMAIN s /\ t[j] = s[j + 1]
          /\ i + 1 < j + 1
        BY <1>1
    <2> QED BY <2>1 DEF Carries
<1>5. ASSUME Head(s) > 0
      PROVE  /\ Head(s) = lo + 1 /\ lo + 1 <= hi /\ Carries(t, lo + 1, hi)
    <2>1. s[1] \in (lo + 1)..hi
        BY <1>1, <1>5 DEF Carries
    <2>2. lo + 1 \in (lo + 1)..hi
        BY <2>1
    <2>3. PICK m \in DOMAIN s : s[m] = lo + 1
        BY <2>2 DEF Carries
    <2>4. s[1] = lo + 1
        <3>1. SUFFICES ASSUME m # 1 PROVE s[1] < lo + 1
            BY <2>1, <2>3
        <3>2. 1 < m
            BY <3>1, <1>1
        <3>3. s[1] > 0 /\ s[m] > 0
            BY <2>3, <1>1, <1>5
        <3>4. s[1] < s[m]
            BY <3>2, <3>3, <1>1 DEF Carries
        <3> QED
            BY <3>4, <2>3
    <2>5. ASSUME NEW i \in DOMAIN t, t[i] > 0 PROVE t[i] \in ((lo + 1) + 1)..hi
        <3>1. i + 1 \in DOMAIN s /\ t[i] = s[i + 1] /\ 1 < i + 1
            BY <1>1
        <3>2. s[i + 1] \in (lo + 1)..hi /\ s[1] < s[i + 1]
            BY <3>1, <2>5, <1>1, <1>5 DEF Carries
        <3> QED BY <3>1, <3>2, <2>4
    <2>6. ASSUME NEW n \in ((lo + 1) + 1)..hi PROVE \E i \in DOMAIN t : t[i] = n
        <3>1. n \in (lo + 1)..hi /\ n # lo + 1
            OBVIOUS
        <3>2. PICK i \in DOMAIN s : s[i] = n
            BY <3>1 DEF Carries
        <3> QED BY <3>1, <3>2, <2>4, <1>3
    <2> QED BY <2>2, <2>4, <2>5, <2>6, <1>1, <1>4 DEF Carries
<1>6. ASSUME Head(s) <= 0 PROVE Carries(t, lo, hi)
    <2>1. ASSUME NEW i \in DOMAIN t, t[i] > 0 PROVE t[i] \in (lo + 1)..hi
        BY <2>1, <1>1 DEF Carries
    <2>2. ASSUME NEW n \in (lo + 1)..hi PROVE \E i \in DOMAIN t : t[i] = n
        <3>1. PICK i \in DOMAIN s : s[i] = n
            BY DEF Carries
        <3>2. i # 1
            BY <3>1, <1>1, <1>6
        <3> QED BY <3>1, <3>2, <1>3
    <2> QED BY <2>1, <2>2, <1>4 DEF Carries
<1> QED
    BY <1>5, <1>6 DEF t

\* Every set of natural numbers that is not empty has a least one.
LEMMA LeastNatural ==
    ASSUME NEW T \in SUBSET Nat, T # {}
    PROVE  \E m \in T : \A n \in T : m <= n
<1>1. IsWellFoundedOn(OpToRel(<, Nat), Nat)
    BY NatLessThanWellFounded
<1>2. PICK m \in T : \A n \in T : ~(<<n, m>> \in OpToRel(<, Nat))
    BY <1>1, WFMin, Zenon
<1>3. \A n \in T : ~(n < m)
    BY <1>2 DEF OpToRel
<1> QED
    BY <1>3

\* The start of a sequence that carries messages carries the first of them.
LEMMA CarriesStart ==
    ASSUME NEW s \in Seq(Int), NEW lo \in Nat, NEW hi \in Nat, lo <= hi,
           Carries(s, lo, hi), NEW n \in 0..Len(s)
    PROVE  \E h \in lo..hi : Carries(SubSeq(s, 1, n), lo, h)
<1> DEFINE t == SubSeq(s, 1, n)
           T == {m \in Nat : m > lo /\ \A i \in DOMAIN t : t[i] # m}
<1>1. /\ DOMAIN s = 1..Len(s) /\ Len(s) \in Nat
      /\ \A i \in DOMAIN s : s[i] \in Int
      /\ DOMAIN t = 1..n
      /\ \A i \in DOMAIN t : i \in DOMAIN s /\ t[i] = s[i]
    OBVIOUS
<1> HIDE DEF t
<1>2. hi + 1 \in T
    <2>1. ASSUME NEW i \in DOMAIN t, t[i] = hi + 1 PROVE FALSE
        <3>1. s[i] \in (lo + 1)..hi
            BY <2>1, <1>1 DEF Carries
        <3> QED BY <3>1, <2>1, <1>1
    <2> QED BY <2>1
<1>3. PICK m \in T : \A k \in T : m <= k
    <2>1. T \in SUBSET Nat /\ T # {}
        BY <1>2
    <2> QED BY <2>1, LeastNatural
<1>4. m \in Nat /\ m > lo /\ m <= hi + 1 /\ \A i \in DOMAIN t : t[i] # m
    BY <1>2, <1>3
<1>5. ASSUME NEW i \in DOMAIN t, t[i] > 0 PROVE t[i] \in (lo + 1)..(m - 1)
    <2>1. s[i] \in (lo + 1)..hi /\ t[i] = s[i]
        BY <1>1, <1>5 DEF Carries
    <2>2. SUFFICES ASSUME m < s[i] PROVE FALSE
        BY <2>1, <1>4
    <2>3. m \in (lo + 1)..hi
        BY <2>1, <2>2, <1>4
    <2>4. PICK j \in DOMAIN s : s[j] = m
        BY <2>3 DEF Carries
    <2>5. j \notin DOMAIN t
        BY <2>4, <1>1, <1>4
    <2>6. i < j /\ s[i] > 0 /\ s[j] > 0
        BY <2>1, <2>3, <2>4, <2>5, <1>1
    <2>7. s[i] < s[j]
        BY <2>6, <1>1 DEF Carries
    <2> QED
        BY <2>1, <2>2, <2>4, <2>7
<1>6. ASSUME NEW k \in (lo + 1)..(m - 1) PROVE \E i \in DOMAIN t : t[i] = k
    <2>1. k \in Nat /\ k > lo /\ k < m
        BY <1>4
    <2> QED
        BY <2>1, <1>3, <1>4
<1>7. ASSUME NEW i \in DOMAIN t, NEW j \in DOMAIN t, i < j, t[i] > 0, t[j] > 0
      PROVE  t[i] < t[j]
    BY <1>1, <1>7 DEF Carries
<1>8. Carries(t, lo, m - 1)
    BY <1>5, <1>6, <1>7 DEF Carries
<1>9. m - 1 \in lo..hi
    BY <1>4
<1> HIDE DEF T
<1> QED
    BY <1>8, <1>9 DEF t

\* A pipe that stops takes one more element, or none.
LEMMA OneMore ==
    ASSUME NEW S, NEW s \in Seq(S), NEW t \in Seq(S), NEW n \in {0, 1}, n <= Len(t)
    PROVE  s \o SubSeq(t, 1, n) = IF n = 0 THEN s ELSE Append(s, Head(t))
<1>1. CASE n = 0
    <2>1. SubSeq(t, 1, 0) = <<>>
        OBVIOUS
    <2> QED BY <1>1, <2>1
<1>2. CASE n = 1
    <2>1. t # <<>>
        BY <1>2
    <2>4. Head(t) \in S /\ Head(t) = t[1]
        BY <2>1, Tailed
    <2>2. SubSeq(t, 1, 1) = <<t[1]>>
        <3>1. /\ SubSeq(t, 1, 1) \in Seq(S) /\ <<t[1]>> \in Seq(S)
              /\ Len(SubSeq(t, 1, 1)) = 1 /\ Len(<<t[1]>>) = 1
              /\ SubSeq(t, 1, 1)[1] = t[1] /\ <<t[1]>>[1] = t[1]
            BY <1>2, <2>4
        <3>2. \A i \in 1..1 : i = 1
            OBVIOUS
        <3> QED
            BY <3>1, <3>2, SeqEqual
    <2>3. s \o <<t[1]>> = Append(s, t[1])
        BY <2>4
    <2> QED BY <1>2, <2>2, <2>4, <2>3
<1> QED BY <1>1, <1>2

\* A sequence over a set is one over every larger set.
LEMMA SeqWider ==
    ASSUME NEW S, NEW T, S \subseteq T, NEW s \in Seq(S)
    PROVE  s \in Seq(T)
<1>1. s \in [1..Len(s) -> S] /\ Len(s) \in Nat
    OBVIOUS
<1>2. s \in [1..Len(s) -> T]
    BY <1>1
<1> QED
    BY <1>1, <1>2

\* Nothing follows anything.
LEMMA EmptyFollows == \A lo : Follows(<<>>, lo)
BY DEF Follows

-----------------------------------------------------------------------------
(* Types                                                                   *)

\* What the endpoint emits,
Outgoing == 1..(MaxEncoded + 1)
\* and what the network carries.
Carriable == (0..MaxSent) \cup Ends

\* The sequences as the lemmas about sequences take them.
LEMMA Typed ==
    ASSUME TransportTypeOK
    PROVE  /\ network \in Seq(Carriable) /\ network \in Seq(Int)
           /\ chunks \in Seq(0..MaxSent) /\ chunks \in Seq(Int)
           /\ core \in Seq(0..MaxSent) /\ core \in Seq(Int)
           /\ outbox \in Seq(Outgoing) /\ outbox \in Seq(Int)
           /\ got \in Seq(Outgoing) /\ got \in Seq(Int)
           /\ Len(core) \in Nat /\ Len(chunks) \in Nat /\ Len(network) \in Nat
           /\ Len(got) \in Nat /\ Len(outbox) \in Nat
           /\ texts \in Nat /\ emitted \in Nat
<1>1. /\ network \in Seq(Carriable) /\ chunks \in Seq(0..MaxSent)
      /\ core \in Seq(0..MaxSent) /\ outbox \in Seq(Outgoing) /\ got \in Seq(Outgoing)
      /\ texts \in Nat /\ emitted \in Nat
    BY TransportAssumption DEF TransportTypeOK, Carriable, Outgoing
<1>2. Carriable \subseteq Int /\ 0..MaxSent \subseteq Int /\ Outgoing \subseteq Int
    BY TransportAssumption DEF Carriable, Ends, End, Reset, BadFrame, Outgoing
<1>3. /\ network \in Seq(Int) /\ chunks \in Seq(Int) /\ core \in Seq(Int)
      /\ outbox \in Seq(Int) /\ got \in Seq(Int)
    BY <1>1, <1>2, SeqWider
<1> QED
    BY <1>1, <1>3

\* What a pipe gives to the peer: a message, or nothing.
LEMMA WrittenOne ==
    ASSUME TransportTypeOK, NEW n \in {0, 1}, n <= Len(outbox)
    PROVE  Written(n) = IF socket = "open" /\ n = 1 THEN Append(got, Head(outbox)) ELSE got
<1>1. got \in Seq(Outgoing) /\ outbox \in Seq(Outgoing)
    BY Typed
<1>2. got \o SubSeq(outbox, 1, n) = IF n = 0 THEN got ELSE Append(got, Head(outbox))
    BY <1>1, OneMore
<1>3. Written(n) = IF socket = "open" THEN got \o SubSeq(outbox, 1, n) ELSE got
    BY DEF Written
<1>4. CASE socket # "open"
    BY <1>3, <1>4
<1>5. CASE socket = "open" /\ n = 0
    <2>1. Written(n) = got
        BY <1>2, <1>3, <1>5
    <2> QED BY <2>1, <1>5
<1>6. CASE socket = "open" /\ n = 1
    <2>1. Written(n) = Append(got, Head(outbox))
        BY <1>2, <1>3, <1>6
    <2> QED BY <2>1, <1>6
<1> QED
    BY <1>4, <1>5, <1>6

\* What the core is given as its pipe stops.
LEMMA LastRead ==
    ASSUME TransportTypeOK, PipeStops
    PROVE  \/ core' = core
           \/ chunks # <<>> /\ core' = Append(core, Head(chunks))
<1>1. PICK n \in {0, 1} : n <= Len(chunks) /\ core' = core \o SubSeq(chunks, 1, n)
    BY DEF PipeStops
<1>2. core \in Seq(0..MaxSent) /\ chunks \in Seq(0..MaxSent)
    BY Typed
<1>3. core' = IF n = 0 THEN core ELSE Append(core, Head(chunks))
    BY <1>1, <1>2, OneMore
<1>4. n = 1 => chunks # <<>>
    BY <1>1, <1>2
<1> QED
    BY <1>3, <1>4

\* What the peer is given as the pipe stops.
LEMMA LastWritten ==
    ASSUME TransportTypeOK, PipeStops
    PROVE  \/ got' = got
           \/ outbox # <<>> /\ socket = "open" /\ got' = Append(got, Head(outbox))
<1>1. PICK n \in {0, 1} : n <= Len(outbox) /\ got' = Written(n)
    BY DEF PipeStops
<1>2. got' = IF socket = "open" /\ n = 1 THEN Append(got, Head(outbox)) ELSE got
    BY <1>1, WrittenOne
<1>3. n = 1 => outbox # <<>>
    BY <1>1, Typed
<1> QED
    BY <1>2, <1>3

\* The outbound pipe writes a message; a socket that is not open loses it.
LEMMA OneWritten ==
    ASSUME TransportTypeOK, PipeWrites
    PROVE  /\ outbox # <<>>
           /\ got' = IF socket = "open" THEN Append(got, Head(outbox)) ELSE got
<1>1. outbox # <<>> /\ 1 <= Len(outbox)
    BY Typed DEF PipeWrites
<1>2. Written(1) = IF socket = "open" /\ 1 = 1 THEN Append(got, Head(outbox)) ELSE got
    BY <1>1, WrittenOne
<1> QED
    BY <1>1, <1>2 DEF PipeWrites

\* The types of what is not a sequence.
PlainTypeOK ==
    /\ kind \in {"tcp", "ws", "mock"}
    /\ socket \in {"connecting", "failed", "open", "closing", "ended"}
    /\ texts \in 0..MaxSent /\ binaries \in 0..MaxBinary
    /\ peerEnd \in Ends \cup {NoEnd}
    /\ readable \in {"readable", "ending", "errored", "cancelled"}
    /\ pipe \in {"none", "running", "aborting", "stopped"}
    /\ emitted \in 0..(MaxEncoded + 1)
    /\ peerTold \in BOOLEAN
    /\ endpoint \in {"none", "open", "end", "error", "self"}
    /\ terminated \in BOOLEAN /\ threw \in BOOLEAN

\* The types of the sequences.
SeqsTypeOK ==
    /\ network \in Seq(Carriable)
    /\ chunks \in Seq(0..MaxSent) /\ core \in Seq(0..MaxSent)
    /\ outbox \in Seq(Outgoing) /\ got \in Seq(Outgoing)

\* The type invariant is these two.
LEMMA TypeParts == TransportTypeOK <=> PlainTypeOK /\ SeqsTypeOK
BY DEF TransportTypeOK, PlainTypeOK, SeqsTypeOK, Carriable, Outgoing

\* Every step keeps the plain variables typed,
LEMMA PlainKept == PlainTypeOK /\ [TransportNext]_transportVars => PlainTypeOK'
<1> SUFFICES ASSUME PlainTypeOK, [TransportNext]_transportVars PROVE PlainTypeOK'
    OBVIOUS
<1> USE TransportAssumption DEF PlainTypeOK
<1>1. ASSUME NEW role \in {"client", "server"}, Opens(role) PROVE PlainTypeOK'
    BY <1>1 DEF Opens, inVars
<1>2. CASE ConnectFails
    BY <1>2 DEF ConnectFails, inVars, outVars
<1>3. CASE PeerSends
    BY <1>3 DEF PeerSends, outVars
<1>4. ASSUME NEW how \in Ends, PeerEnds(how) PROVE PlainTypeOK'
    BY <1>4 DEF PeerEnds, outVars
<1>5. CASE MessageArrives
    <2>1. threw' \in BOOLEAN
        BY <1>5 DEF MessageArrives
    <2> QED
        BY <1>5, <2>1 DEF MessageArrives, outVars
<1>6. CASE EndArrives
    BY <1>6 DEF EndArrives, outVars
<1>7. CASE PipeReads
    BY <1>7 DEF PipeReads, outVars
<1>8. CASE Encodes
    BY <1>8 DEF Encodes, inVars
<1>9. CASE PipeWrites
    BY <1>9 DEF PipeWrites, inVars
<1>10. ASSUME NEW reason \in {"end", "error", "self"}, NEW terminate \in BOOLEAN,
              CloseEndpoint(reason, terminate)
       PROVE  PlainTypeOK'
    BY <1>10 DEF CloseEndpoint, SocketAfter, inVars, outVars
<1>11. CASE PipeStops
    <2>1. peerTold' \in BOOLEAN
        BY <1>11 DEF PipeStops
    <2> QED
        BY <1>11, <2>1 DEF PipeStops
<1>12. CASE HandshakeEnds
    BY <1>12 DEF HandshakeEnds, inVars, outVars
<1>13. CASE UNCHANGED transportVars
    BY <1>13 DEF transportVars, inVars, outVars
<1> QED
    BY <1>1, <1>2, <1>3, <1>4, <1>5, <1>6, <1>7, <1>8, <1>9, <1>10, <1>11, <1>12, <1>13
       DEF TransportNext, StreamEnds, StreamFails, Close

\* and the sequences.
LEMMA SeqsKept ==
    TransportTypeOK /\ [TransportNext]_transportVars => SeqsTypeOK'
<1> SUFFICES ASSUME TransportTypeOK, [TransportNext]_transportVars PROVE SeqsTypeOK'
    OBVIOUS
<1>0. SeqsTypeOK
    BY TypeParts
<1>1. ASSUME NEW role \in {"client", "server"}, Opens(role) PROVE SeqsTypeOK'
    <2> DEFINE opening == IF SupportsControl /\ role = "client" THEN 1 ELSE 0
    <2>1. opening \in {0, 1} /\ outbox' = [i \in 1..opening |-> i]
        BY <1>1 DEF Opens
    <2> HIDE DEF opening
    <2>2. \A i \in 1..opening : i \in Outgoing
        BY <2>1, TransportAssumption DEF Outgoing
    <2>3. outbox' \in [1..opening -> Outgoing] /\ opening \in Nat
        BY <2>1, <2>2
    <2>4. outbox' \in Seq(Outgoing)
        BY <2>3
    <2> QED
        BY <1>0, <1>1, <2>4 DEF SeqsTypeOK, Opens, inVars
<1>2. CASE PeerSends
    <2>1. network' = network \/ (\E e \in Carriable : network' = Append(network, e))
        <3>1. CASE network' = Append(network, texts + 1) /\ texts < MaxSent
            <4>1. texts + 1 \in Carriable
                BY <3>1, TransportAssumption DEF Carriable, TransportTypeOK
            <4> QED BY <3>1, <4>1
        <3>2. CASE network' = Append(network, Binary)
            <4>1. Binary \in Carriable
                BY TransportAssumption DEF Carriable, Binary
            <4> QED BY <3>2, <4>1
        <3> QED
            BY <1>2, <3>1, <3>2 DEF PeerSends
    <2>2. network' \in Seq(Carriable)
        <3>1. network \in Seq(Carriable)
            BY <1>0 DEF SeqsTypeOK
        <3>2. \A e \in Carriable : Append(network, e) \in Seq(Carriable)
            BY <3>1, Appended
        <3> QED BY <3>1, <3>2, <2>1
    <2> QED
        BY <1>0, <1>2, <2>2 DEF SeqsTypeOK, PeerSends, outVars
<1>3. ASSUME NEW how \in Ends, PeerEnds(how) PROVE SeqsTypeOK'
    <2>1. how \in Carriable
        BY DEF Carriable
    <2>2. PICK n \in 0..Len(network) : network' = Append(SubSeq(network, 1, n), how)
        BY <1>3 DEF PeerEnds
    <2>3. network \in Seq(Carriable)
        BY <1>0 DEF SeqsTypeOK
    <2>4. SubSeq(network, 1, n) \in Seq(Carriable)
        BY <2>3
    <2>5. network' \in Seq(Carriable)
        BY <2>1, <2>2, <2>4
    <2> QED
        BY <1>0, <1>3, <2>5 DEF SeqsTypeOK, PeerEnds, outVars
<1>4. CASE MessageArrives
    <2>1. network # <<>> /\ network \in Seq(Carriable) /\ network' = Tail(network)
        BY <1>0, <1>4 DEF MessageArrives, SeqsTypeOK
    <2>2. Tail(network) \in Seq(Carriable) /\ Head(network) \in Carriable
        BY <2>1, Tailed
    <2>3. Head(network) \in 0..MaxSent
        BY <1>4, <2>2 DEF MessageArrives, Carriable
    <2>4. chunks' \in {chunks, Append(chunks, Head(network))}
        BY <1>4 DEF MessageArrives
    <2>5. chunks' \in Seq(0..MaxSent)
        <3>1. chunks \in Seq(0..MaxSent)
            BY <1>0 DEF SeqsTypeOK
        <3>2. Append(chunks, Head(network)) \in Seq(0..MaxSent)
            BY <3>1, <2>3, Appended
        <3> QED BY <3>1, <3>2, <2>4
    <2> QED
        BY <1>0, <1>4, <2>1, <2>2, <2>5 DEF SeqsTypeOK, MessageArrives, outVars
<1>5. CASE EndArrives
    <2>1. network # <<>> /\ network \in Seq(Carriable) /\ network' = Tail(network)
        BY <1>0, <1>5 DEF EndArrives, SeqsTypeOK
    <2>2. Tail(network) \in Seq(Carriable)
        BY <2>1, Tailed
    <2>3. chunks' \in {chunks, <<>>}
        BY <1>5 DEF EndArrives
    <2>4. chunks' \in Seq(0..MaxSent)
        <3>1. chunks \in Seq(0..MaxSent) /\ <<>> \in Seq(0..MaxSent)
            BY <1>0 DEF SeqsTypeOK
        <3> QED BY <3>1, <2>3
    <2> QED
        BY <1>0, <1>5, <2>1, <2>2, <2>4 DEF SeqsTypeOK, EndArrives, outVars
<1>6. CASE PipeReads
    <2>1. chunks # <<>> /\ chunks \in Seq(0..MaxSent) /\ core \in Seq(0..MaxSent)
        BY <1>0, <1>6 DEF PipeReads, SeqsTypeOK
    <2>2. Tail(chunks) \in Seq(0..MaxSent) /\ Head(chunks) \in 0..MaxSent
        BY <2>1, Tailed
    <2>3. Append(core, Head(chunks)) \in Seq(0..MaxSent)
        BY <2>1, <2>2
    <2> QED
        BY <1>0, <1>6, <2>2, <2>3 DEF SeqsTypeOK, PipeReads, outVars
<1>7. CASE Encodes
    <2>1. emitted + 1 \in Outgoing
        BY <1>7, Typed, TransportAssumption DEF Encodes, Outgoing
    <2>2. outbox' \in Seq(Outgoing)
        BY <1>0, <1>7, <2>1 DEF SeqsTypeOK, Encodes
    <2> QED
        BY <1>0, <1>7, <2>2 DEF SeqsTypeOK, Encodes, inVars
<1>8. CASE PipeWrites
    <2>1. outbox # <<>> /\ got' \in {got, Append(got, Head(outbox))} /\ outbox' = Tail(outbox)
        BY <1>8, OneWritten DEF PipeWrites
    <2>2. Tail(outbox) \in Seq(Outgoing) /\ Head(outbox) \in Outgoing
        BY <1>0, <2>1, Tailed DEF SeqsTypeOK
    <2>3. got' \in Seq(Outgoing)
        <3>1. got \in Seq(Outgoing)
            BY <1>0 DEF SeqsTypeOK
        <3>2. Append(got, Head(outbox)) \in Seq(Outgoing)
            BY <3>1, <2>2, Appended
        <3> QED BY <3>1, <3>2, <2>1
    <2> QED
        BY <1>0, <1>8, <2>1, <2>2, <2>3 DEF SeqsTypeOK, PipeWrites, inVars
<1>9. CASE PipeStops
    <2>1. chunks # <<>> => Head(chunks) \in 0..MaxSent
        BY <1>0, Tailed DEF SeqsTypeOK
    <2>2. outbox # <<>> => Head(outbox) \in Outgoing
        BY <1>0, Tailed DEF SeqsTypeOK
    <2>3. core' \in Seq(0..MaxSent)
        <3>1. core \in Seq(0..MaxSent)
            BY <1>0 DEF SeqsTypeOK
        <3>2. chunks # <<>> => Append(core, Head(chunks)) \in Seq(0..MaxSent)
            BY <3>1, <2>1, Appended
        <3> QED BY <3>1, <3>2, <1>9, LastRead
    <2>4. got' \in Seq(Outgoing)
        <3>1. got \in Seq(Outgoing)
            BY <1>0 DEF SeqsTypeOK
        <3>2. outbox # <<>> => Append(got, Head(outbox)) \in Seq(Outgoing)
            BY <3>1, <2>2, Appended
        <3> QED BY <3>1, <3>2, <1>9, LastWritten
    <2> QED
        BY <1>0, <1>9, <2>3, <2>4 DEF SeqsTypeOK, PipeStops
<1>10. CASE UNCHANGED <<inVars, outVars>>
    BY <1>0, <1>10 DEF SeqsTypeOK, inVars, outVars
<1> QED
    BY <1>1, <1>2, <1>3, <1>4, <1>5, <1>6, <1>7, <1>8, <1>9, <1>10
       DEF TransportNext, StreamEnds, StreamFails, Close, CloseEndpoint, ConnectFails,
           HandshakeEnds, transportVars

-----------------------------------------------------------------------------
(* The lives of the socket, the pipes and the endpoint                     *)

\* Every step keeps the lives in agreement.  A message that finds the
\* readable gone throws in a WebSocket's listener only, and only where this
\* end began the closing handshake.
LEMMA LivesKept == TransportInv /\ [TransportNext]_transportVars => LivesAgree'
<1> SUFFICES ASSUME TransportInv, [TransportNext]_transportVars PROVE LivesAgree'
    OBVIOUS
<1>0. LivesAgree /\ PlainTypeOK /\ TransportTypeOK /\ NetworkOK
    BY TypeParts DEF TransportInv, Inbound
<1>1. ASSUME NEW role \in {"client", "server"}, Opens(role) PROVE LivesAgree'
    BY <1>0, <1>1 DEF LivesAgree, CrashIsLate, Opens, inVars
<1>2. CASE ConnectFails
    BY <1>0, <1>2 DEF LivesAgree, CrashIsLate, ConnectFails, inVars, outVars
<1>3. CASE PeerSends
    BY <1>0, <1>3 DEF LivesAgree, CrashIsLate, PeerSends, outVars
<1>4. ASSUME NEW how \in Ends, PeerEnds(how) PROVE LivesAgree'
    BY <1>0, <1>4 DEF LivesAgree, CrashIsLate, PeerEnds, outVars
<1>5. CASE MessageArrives
    <2>1. threw' => kind = "ws" /\ readable # "readable"
        BY <1>5 DEF MessageArrives
    <2>2. threw' => endpoint = "self" /\ ~terminated
        BY <1>0, <1>5, <2>1 DEF LivesAgree, PlainTypeOK, MessageArrives
    <2> QED
        BY <1>0, <1>5, <2>1, <2>2 DEF LivesAgree, CrashIsLate, MessageArrives, outVars
<1>6. CASE EndArrives
    BY <1>0, <1>6 DEF LivesAgree, CrashIsLate, PlainTypeOK, EndArrives, outVars
<1>7. CASE PipeReads
    BY <1>0, <1>7 DEF LivesAgree, CrashIsLate, PipeReads, outVars
<1>8. CASE Encodes
    BY <1>0, <1>8 DEF LivesAgree, CrashIsLate, Encodes, inVars
<1>9. CASE PipeWrites
    BY <1>0, <1>9 DEF LivesAgree, CrashIsLate, PipeWrites, inVars
<1>10. ASSUME NEW reason \in {"end", "error", "self"}, NEW terminate \in BOOLEAN,
              CloseEndpoint(reason, terminate),
              reason # "self" => readable \in {"ending", "errored"}
       PROVE  LivesAgree'
    <2>1. kind # "mock" => socket' \in {"closing", "ended"}
        BY <1>10 DEF CloseEndpoint, SocketAfter
    <2>2. kind = "ws" /\ (socket = "ended" \/ terminate) => socket' = "ended"
        BY <1>10 DEF CloseEndpoint, SocketAfter
    <2>3. socket \notin {"connecting", "failed"} /\ socket' \notin {"connecting", "failed"}
        BY <1>0, <1>10 DEF LivesAgree, CloseEndpoint, SocketAfter
    <2> QED
        BY <1>0, <1>10, <2>1, <2>2, <2>3
           DEF LivesAgree, CrashIsLate, PlainTypeOK, CloseEndpoint, inVars, outVars
<1>11. CASE PipeStops
    BY <1>0, <1>11 DEF LivesAgree, CrashIsLate, PlainTypeOK, PipeStops
<1>12. CASE HandshakeEnds
    BY <1>0, <1>12 DEF LivesAgree, CrashIsLate, PlainTypeOK, HandshakeEnds, inVars, outVars
<1>13. CASE UNCHANGED transportVars
    BY <1>0, <1>13 DEF LivesAgree, CrashIsLate, transportVars, inVars, outVars
<1>14. CASE StreamEnds
    BY <1>10, <1>14 DEF StreamEnds
<1>15. CASE StreamFails
    BY <1>10, <1>15 DEF StreamFails
<1>16. ASSUME NEW terminate \in BOOLEAN, Close(terminate) PROVE LivesAgree'
    BY <1>10, <1>16 DEF Close
<1> QED
    BY <1>1, <1>2, <1>3, <1>4, <1>5, <1>6, <1>7, <1>8, <1>9, <1>11, <1>12, <1>13, <1>14,
       <1>15, <1>16 DEF TransportNext

-----------------------------------------------------------------------------
(* Inbound                                                                 *)

\* Every step keeps the end last on the network.
LEMMA NetworkKept == TransportInv /\ [TransportNext]_transportVars => NetworkOK'
<1> SUFFICES ASSUME TransportInv, [TransportNext]_transportVars PROVE NetworkOK'
    OBVIOUS
<1>0. NetworkOK /\ network \in Seq(Carriable) /\ TransportTypeOK
    BY Typed DEF TransportInv, Inbound
<1>1. /\ kind' = kind /\ (peerEnd # NoEnd => peerEnd' = peerEnd)
    BY DEF TransportNext, transportVars, inVars, outVars, Opens, ConnectFails, PeerSends,
           PeerEnds, MessageArrives, EndArrives, PipeReads, Encodes, PipeWrites, StreamEnds,
           StreamFails, Close, CloseEndpoint, PipeStops, HandshakeEnds
<1>2. ASSUME NEW n \in 0..Len(network), NEW e \in Carriable,
             network' = Append(SubSeq(network, 1, n), e), peerEnd = NoEnd,
             e \in Ends => peerEnd' = e, e = Binary => kind = "ws"
      PROVE  NetworkOK'
    <2> DEFINE s == SubSeq(network, 1, n)
    <2>4. /\ s \in Seq(Carriable) /\ Len(s) = n /\ n \in Nat
          /\ \A k \in DOMAIN s : k \in DOMAIN network /\ s[k] = network[k]
        BY <1>0
    <2>5. network' = Append(s, e)
        BY <1>2
    <2> HIDE DEF s
    <2>1. /\ DOMAIN network' = 1..(n + 1) /\ Len(network') = n + 1
          /\ DOMAIN s = 1..n
          /\ \A k \in DOMAIN network' : network'[k] = IF k \in DOMAIN s THEN s[k] ELSE e
        BY <2>4, <2>5, Appended
    <2>2. \A k \in DOMAIN network : network[k] \notin Ends
        BY <1>0, <1>2 DEF NetworkOK, Ends, End, Reset, BadFrame, NoEnd
    <2>3. ASSUME NEW k \in DOMAIN network'
          PROVE  /\ network'[k] \in Ends => k = Len(network') /\ network'[k] = peerEnd'
                 /\ network'[k] = Binary => kind' = "ws"
        <3>1. CASE k \in DOMAIN s
            BY <3>1, <2>1, <2>2, <2>4, <1>0, <1>1 DEF NetworkOK
        <3>2. CASE k \notin DOMAIN s
            <4>1. k = n + 1 /\ network'[k] = e
                BY <3>2, <2>1
            <4> QED BY <4>1, <2>1, <1>1, <1>2
        <3> QED BY <3>1, <3>2
    <2> QED
        BY <2>3 DEF NetworkOK
<1>3. ASSUME network # <<>>, network' = Tail(network) PROVE NetworkOK'
    <2>1. /\ Len(network') = Len(network) - 1 /\ Len(network) \in Nat
          /\ DOMAIN network' = 1..(Len(network) - 1)
          /\ \A k \in DOMAIN network' : k + 1 \in DOMAIN network /\ network'[k] = network[k + 1]
        BY <1>0, <1>3, Tailed
    <2>2. ASSUME NEW k \in DOMAIN network'
          PROVE  /\ network'[k] \in Ends => k = Len(network') /\ network'[k] = peerEnd'
                 /\ network'[k] = Binary => kind' = "ws"
        <3>1. k + 1 \in DOMAIN network /\ network'[k] = network[k + 1] /\ k \in Nat
            BY <2>1
        <3>2. network[k + 1] \in Ends => /\ k + 1 = Len(network) /\ network[k + 1] = peerEnd
                                         /\ peerEnd # NoEnd
            BY <3>1, <1>0 DEF NetworkOK, Ends, End, Reset, BadFrame, NoEnd
        <3>3. network[k + 1] = Binary => kind = "ws"
            BY <3>1, <1>0 DEF NetworkOK
        <3> QED BY <3>1, <3>2, <3>3, <2>1, <1>1
    <2> QED
        BY <2>2 DEF NetworkOK
<1>4. CASE PeerSends
    <2>3. /\ Len(network) \in 0..Len(network)
          /\ SubSeq(network, 1, Len(network)) = network
        BY <1>0
    <2>1. CASE network' = Append(network, texts + 1) /\ texts < MaxSent
        <3>1. texts + 1 \in Carriable /\ texts + 1 \notin Ends /\ texts + 1 # Binary
            BY <2>1, <1>0, TransportAssumption
               DEF Carriable, TransportTypeOK, Ends, End, Reset, BadFrame, Binary
        <3> QED BY <3>1, <2>1, <2>3, <1>2, <1>4 DEF PeerSends
    <2>2. CASE network' = Append(network, Binary) /\ kind = "ws"
        <3>1. Binary \in Carriable /\ Binary \notin Ends
            BY TransportAssumption DEF Carriable, Ends, End, Reset, BadFrame, Binary
        <3> QED BY <3>1, <2>2, <2>3, <1>2, <1>4 DEF PeerSends
    <2> QED
        BY <1>4, <2>1, <2>2 DEF PeerSends
<1>5. ASSUME NEW how \in Ends, PeerEnds(how) PROVE NetworkOK'
    <2>1. how \in Carriable /\ how # Binary /\ how # NoEnd
        BY DEF Carriable, Ends, End, Reset, BadFrame, Binary, NoEnd
    <2> QED
        BY <2>1, <1>2, <1>5 DEF PeerEnds
<1>6. CASE MessageArrives \/ EndArrives
    BY <1>3, <1>6 DEF MessageArrives, EndArrives
<1>7. CASE network' = network
    BY <1>0, <1>1, <1>7 DEF NetworkOK, Ends, End, Reset, BadFrame, NoEnd
<1> QED
    BY <1>4, <1>5, <1>6, <1>7
       DEF TransportNext, transportVars, inVars, outVars, Opens, ConnectFails, PipeReads,
           Encodes, PipeWrites, StreamEnds, StreamFails, Close, CloseEndpoint, PipeStops,
           HandshakeEnds

\* What happens elsewhere leaves the inbound side alone; a clean end is found
\* after all that was queued.
LEMMA InboundUntouched ==
    ASSUME TransportInv, UNCHANGED inVars, NetworkOK',
           UNCHANGED kind,
           endpoint' = "end" => endpoint = "end" \/ (readable = "ending" /\ chunks = <<>>)
    PROVE  Inbound'
<1>1. Inbound /\ TransportTypeOK
    BY DEF TransportInv
<1>2. chunks = <<>> => Len(chunks) = 0
    OBVIOUS
<1> QED
    BY <1>1, <1>2, Typed DEF Inbound, inVars, Follows, Carries, Underway, CleanAfter

\* A message of the peer joins those under way,
LEMMA InboundSends ==
    ASSUME TransportInv, PeerSends, NetworkOK'
    PROVE  Inbound'
<1>1. Inbound /\ TransportTypeOK
    BY DEF TransportInv
<1> DEFINE lo == Len(core) + Len(chunks)
<1>2. /\ network \in Seq(Int) /\ lo \in Nat /\ texts \in Nat /\ lo <= texts
    BY <1>1, Typed DEF Inbound
<1>3. /\ UNCHANGED <<core, chunks, readable, endpoint, peerEnd>>
      /\ peerEnd = NoEnd
      /\ \/ texts' = texts + 1 /\ network' = Append(network, texts + 1)
         \/ texts' = texts /\ network' = Append(network, Binary)
    BY DEF PeerSends, outVars
<1>4. readable # "ending" /\ endpoint # "end"
    BY <1>1, <1>3 DEF Inbound, CleanAfter, End, Reset, NoEnd
<1>5. lo <= texts' /\ texts' \in Nat
    BY <1>2, <1>3
<1>6. readable = "readable" => Carries(network', lo, texts')
    <2> HIDE DEF lo
    <2>0. SUFFICES ASSUME readable = "readable" PROVE Carries(network', lo, texts')
        OBVIOUS
    <2>1. Carries(network, lo, texts)
        BY <2>0, <1>1, <1>3 DEF Inbound, Underway, Reset, NoEnd, lo
    <2>2. CASE texts' = texts + 1 /\ network' = Append(network, texts + 1)
        <3>1. texts + 1 \in Int
            BY <1>2
        <3>2. Carries(Append(network, texts + 1), lo, texts + 1)
            BY <3>1, <2>1, <1>2, CarriesAppend
        <3> QED BY <3>2, <2>2
    <2>3. CASE texts' = texts /\ network' = Append(network, Binary)
        <3>1. Binary \in Int /\ Binary <= 0
            BY DEF Binary
        <3>2. Carries(Append(network, Binary), lo, texts)
            BY <3>1, <2>1, <1>2, CarriesAppend
        <3> QED BY <3>2, <2>3
    <2> QED
        BY <1>3, <2>2, <2>3
<1>7. readable = "readable" => Underway(network', lo, texts', peerEnd')
    <2>1. texts' \in lo..texts'
        BY <1>2, <1>5
    <2> HIDE DEF lo
    <2> QED BY <2>1, <1>6 DEF Underway
<1> QED
    BY <1>1, <1>3, <1>4, <1>5, <1>7 DEF Inbound, Follows

\* and its end all of them, or the first of them if the connection is cut.
LEMMA InboundCut ==
    ASSUME TransportInv, NEW how \in Ends, PeerEnds(how), NetworkOK'
    PROVE  Inbound'
<1>1. Inbound /\ TransportTypeOK
    BY DEF TransportInv
<1> DEFINE lo == Len(core) + Len(chunks)
<1>2. /\ network \in Seq(Int) /\ lo \in Nat /\ texts \in Nat /\ lo <= texts
    BY <1>1, Typed DEF Inbound
<1>3. /\ UNCHANGED <<core, chunks, readable, endpoint, texts>>
      /\ peerEnd = NoEnd /\ peerEnd' = how
    BY DEF PeerEnds, outVars
<1>4. PICK n \in 0..Len(network) : /\ how # Reset => n = Len(network)
                                   /\ network' = Append(SubSeq(network, 1, n), how)
    BY DEF PeerEnds
<1>5. readable # "ending" /\ endpoint # "end"
    BY <1>1, <1>3 DEF Inbound, CleanAfter, End, Reset, NoEnd
<1>6. readable = "readable" => Underway(network', lo, texts', peerEnd')
    <2>0. SUFFICES ASSUME readable = "readable"
                   PROVE  Underway(network', lo, texts', peerEnd')
        OBVIOUS
    <2>2. Carries(network, lo, texts)
        BY <2>0, <1>1, <1>3 DEF Inbound, Underway, Reset, NoEnd
    <2> HIDE DEF lo
    <2>3. \E h \in lo..texts : /\ Carries(SubSeq(network, 1, n), lo, h)
                               /\ how # Reset => h = texts
        <3>1. CASE how # Reset
            <4>1. SubSeq(network, 1, n) = network /\ texts \in lo..texts
                BY <3>1, <1>2, <1>4
            <4> QED BY <4>1, <2>2
        <3>2. CASE how = Reset
            BY <3>2, <2>2, <1>2, CarriesStart
        <3> QED BY <3>1, <3>2
    <2>4. PICK h \in lo..texts : /\ Carries(SubSeq(network, 1, n), lo, h)
                                 /\ how # Reset => h = texts
        BY <2>3
    <2>5. how \in Int /\ how <= 0
        BY DEF Ends, End, Reset, BadFrame
    <2>6. SubSeq(network, 1, n) \in Seq(Int) /\ h \in Nat /\ lo <= h
        BY <1>2
    <2>7. Carries(network', lo, h)
        <3> DEFINE s == SubSeq(network, 1, n)
        <3>1. s \in Seq(Int) /\ Carries(s, lo, h) /\ network' = Append(s, how)
            BY <2>4, <2>6, <1>4, Zenon
        <3>2. h \in Nat /\ lo <= h /\ lo \in Nat
            BY <2>6, <1>2
        <3> HIDE DEF s
        <3>3. Carries(Append(s, how), lo, h)
            BY <3>1, <3>2, <2>5, CarriesAppend
        <3> QED BY <3>1, <3>3
    <2> QED
        BY <2>4, <2>7, <1>3, Zenon DEF Underway
<1> QED
    BY <1>1, <1>2, <1>3, <1>5, <1>6 DEF Inbound, Follows

\* A message that arrives is the next one of the queue.
LEMMA InboundArrives ==
    ASSUME TransportInv, MessageArrives, NetworkOK'
    PROVE  Inbound'
<1>1. Inbound /\ TransportTypeOK
    BY DEF TransportInv
<1> DEFINE lo == Len(core) + Len(chunks)
<1>2. /\ network \in Seq(Int) /\ lo \in Nat /\ texts \in Nat /\ lo <= texts
      /\ network \in Seq(Carriable) /\ network # <<>> /\ network' = Tail(network)
      /\ chunks \in Seq(Int) /\ Len(core) \in Nat /\ Len(chunks) \in Nat
    BY <1>1, Typed DEF Inbound, MessageArrives
<1>3. /\ UNCHANGED <<core, readable, endpoint, peerEnd, texts, kind>>
      /\ chunks' = IF Carried(Head(network)) /\ readable = "readable"
                   THEN Append(chunks, Head(network)) ELSE chunks
    BY DEF MessageArrives, outVars
<1>4. Head(network) \in 0..MaxSent
    <2>1. Head(network) \in Carriable
        BY <1>2, Tailed
    <2> QED BY <2>1 DEF MessageArrives, Carriable
<1>5. Head(network) = Binary <=> ~ Carried(Head(network))
    <2>1. Head(network) = network[1] /\ 1 \in DOMAIN network
        BY <1>2, Tailed
    <2>2. Head(network) = Binary => kind = "ws"
        BY <2>1, <1>1 DEF Inbound, NetworkOK
    <2> QED BY <2>2 DEF Carried
<1>6. CASE readable # "readable" \/ ~ Carried(Head(network))
    <2>1. chunks' = chunks
        BY <1>3, <1>6
    <2>2. readable = "readable" => Underway(network', lo, texts, peerEnd)
        <3>0. SUFFICES ASSUME readable = "readable"
                       PROVE  Underway(network', lo, texts, peerEnd)
            OBVIOUS
        <3>1. Head(network) <= 0
            BY <3>0, <1>5, <1>6 DEF Binary
        <3>3. PICK hi \in lo..texts : Carries(network, lo, hi) /\ (peerEnd # Reset => hi = texts)
            BY <3>0, <1>1 DEF Inbound, Underway
        <3> HIDE DEF lo
        <3>4. hi \in Nat
            BY <1>2
        <3>5. Carries(network', lo, hi)
            BY <3>1, <3>3, <3>4, <1>2, CarriesTail
        <3> QED BY <3>3, <3>5 DEF Underway
    <2> QED
        BY <1>1, <1>3, <2>1, <2>2 DEF Inbound, Follows, CleanAfter
<1>7. CASE readable = "readable" /\ Carried(Head(network))
    <2>1. chunks' = Append(chunks, Head(network))
        BY <1>3, <1>7
    <2>2. Head(network) > 0
        BY <1>4, <1>5, <1>7, TransportAssumption DEF Binary
    <2>3. PICK hi \in lo..texts : Carries(network, lo, hi) /\ (peerEnd # Reset => hi = texts)
        BY <1>1, <1>7 DEF Inbound, Underway
    <2>4. Head(network) = lo + 1 /\ lo + 1 <= hi /\ Carries(network', lo + 1, hi)
        <3> HIDE DEF lo
        <3>1. hi \in Nat
            BY <1>2
        <3> QED BY <3>1, <2>2, <2>3, <1>2, CarriesTail
    <2>5. Len(chunks') = Len(chunks) + 1
        <3>1. Head(network) \in Int
            BY <1>2, Tailed
        <3> QED
            BY <3>1, <2>1, <1>2, Appended
    <2>6. Follows(chunks', Len(core))
        <3>1. Head(network) = Len(core) + Len(chunks) + 1
            BY <2>4
        <3>2. Follows(chunks, Len(core)) /\ Len(core) + Len(chunks) + 1 \in Int
            BY <1>1, <1>2 DEF Inbound
        <3>3. Follows(Append(chunks, Len(core) + Len(chunks) + 1), Len(core))
            BY <3>2, <1>2, FollowsAppend
        <3> QED BY <3>1, <3>3, <2>1
    <2>7. Len(core) + Len(chunks') = lo + 1
        BY <2>5, <1>2
    <2>8. Len(core)' + Len(chunks)' = lo + 1
        BY <2>7, <1>3
    <2> HIDE DEF lo
    <2>9. Underway(network', lo + 1, texts, peerEnd) /\ lo + 1 <= texts
        BY <2>3, <2>4, <1>2 DEF Underway
    <2> QED
        BY <1>1, <1>2, <1>3, <1>7, <2>6, <2>8, <2>9 DEF Inbound, Follows, CleanAfter
<1> QED
    BY <1>6, <1>7

\* When the end arrives all that was sent, or that is left of it, is in the
\* queue or the core.
LEMMA InboundEnds ==
    ASSUME TransportInv, EndArrives, NetworkOK'
    PROVE  Inbound'
<1>1. Inbound /\ TransportTypeOK
    BY DEF TransportInv
<1> DEFINE lo == Len(core) + Len(chunks)
<1>2. /\ network \in Seq(Int) /\ lo \in Nat /\ texts \in Nat /\ lo <= texts
      /\ network # <<>> /\ network' = Tail(network)
      /\ Len(core) \in Nat /\ Len(chunks) \in Nat
    BY <1>1, Typed DEF Inbound, EndArrives
<1>3. /\ UNCHANGED <<core, endpoint, peerEnd, texts, kind>>
      /\ Head(network) \in Ends
    BY DEF EndArrives, outVars
<1>4. /\ Len(network) = 1 /\ 1 \in DOMAIN network
      /\ network[1] \in Ends /\ Head(network) = peerEnd
    <2>1. Head(network) = network[1] /\ 1 \in DOMAIN network
        BY <1>2, Tailed
    <2> QED BY <2>1, <1>1, <1>3 DEF Inbound, NetworkOK
<1>5. readable = "readable" /\ peerEnd # Reset => lo = texts
    <2>0. SUFFICES ASSUME readable = "readable", peerEnd # Reset, lo # texts PROVE FALSE
        OBVIOUS
    <2>2. Carries(network, lo, texts)
        BY <2>0, <1>1 DEF Inbound, Underway
    <2>4. lo \in Nat /\ texts \in Nat /\ lo <= texts
        BY <1>2
    <2> HIDE DEF lo
    <2>1. texts \in (lo + 1)..texts
        BY <2>0, <2>4
    <2>3. PICK i \in DOMAIN network : network[i] = texts
        BY <2>1, <2>2 DEF Carries
    <2>5. i = 1
        BY <1>2, <1>4
    <2> QED
        BY <2>3, <2>5, <1>2, <1>4 DEF Ends, End, Reset, BadFrame
<1>6. CASE readable # "readable"
    BY <1>1, <1>3, <1>6 DEF EndArrives, Inbound, Follows, CleanAfter
<1>7. CASE readable = "readable" /\ EndsCleanly(Head(network))
    <2>1. readable' = "ending" /\ chunks' = chunks
        BY <1>7 DEF EndArrives
    <2>2. CleanAfter(lo)
        BY <1>4, <1>5, <1>7 DEF EndsCleanly, CleanAfter, End, Reset
    <2>3. CleanAfter(Len(core) + Len(chunks))'
        BY <1>3, <2>1, <2>2 DEF CleanAfter
    <2>4. endpoint' = "end" => CleanAfter(Len(core))'
        BY <1>1, <1>3 DEF Inbound, CleanAfter
    <2> QED
        BY <1>1, <1>3, <1>7, <2>1, <2>3, <2>4 DEF Inbound, Follows
<1>8. CASE readable = "readable" /\ ~ EndsCleanly(Head(network))
    <2>1. readable' = "errored" /\ chunks' = <<>> /\ Len(chunks') = 0
        BY <1>8 DEF EndArrives
    <2>2. Follows(chunks', Len(core))
        BY <2>1, EmptyFollows
    <2> QED
        BY <1>1, <1>2, <1>3, <2>1, <2>2 DEF Inbound, Follows, CleanAfter
<1> QED
    BY <1>6, <1>7, <1>8

\* The inbound pipe gives the core the next message.
LEMMA InboundReads ==
    ASSUME TransportInv, PipeReads, NetworkOK'
    PROVE  Inbound'
<1>1. Inbound /\ TransportTypeOK
    BY DEF TransportInv
<1>2. /\ chunks # <<>> /\ chunks' = Tail(chunks) /\ core' = Append(core, Head(chunks))
      /\ chunks \in Seq(Int) /\ core \in Seq(Int) /\ texts \in Nat
      /\ Len(core) \in Nat /\ Len(chunks) \in Nat
      /\ UNCHANGED <<network, texts, peerEnd, readable, endpoint, kind>>
    BY <1>1, Typed DEF PipeReads, outVars
<1>3. Head(chunks) = Len(core) + 1 /\ Follows(chunks', Len(core) + 1)
    BY <1>1, <1>2, FollowsTail DEF Inbound
<1>4. Len(core') = Len(core) + 1 /\ Len(chunks') = Len(chunks) - 1 /\ Len(chunks) >= 1
    BY <1>2, <1>3, Appended, Tailed
<1>5. Follows(core', 0)
    <2>1. 0 + Len(core) + 1 \in Int /\ Follows(core, 0)
        BY <1>1, <1>2 DEF Inbound
    <2>2. Follows(Append(core, 0 + Len(core) + 1), 0)
        BY <2>1, <1>2, FollowsAppend
    <2>3. 0 + Len(core) + 1 = Head(chunks)
        BY <1>2, <1>3
    <2> QED BY <2>2, <2>3, <1>2
<1>6. Len(core') + Len(chunks') = Len(core) + Len(chunks)
    BY <1>2, <1>4
<1>7. Follows(chunks', Len(core'))
    BY <1>3, <1>4
<1>8. endpoint # "end"
    BY <1>2 DEF TransportInv, LivesAgree, PipeReads
<1> QED
    BY <1>1, <1>2, <1>5, <1>6, <1>7, <1>8 DEF Inbound, Follows, Underway, Carries, CleanAfter

\* The pipe may give the core one more.
LEMMA InboundStops ==
    ASSUME TransportInv, PipeStops, NetworkOK'
    PROVE  Inbound'
<1>1. Inbound /\ TransportTypeOK
    BY DEF TransportInv
<1>2. /\ chunks' = <<>> /\ Len(chunks') = 0
      /\ readable' \in {"errored", "cancelled"}
      /\ UNCHANGED <<texts, peerEnd, endpoint, kind>>
      /\ chunks \in Seq(Int) /\ core \in Seq(Int) /\ texts \in Nat
      /\ Len(core) \in Nat /\ Len(chunks) \in Nat
    BY <1>1, Typed DEF PipeStops
<1>3. Follows(chunks', Len(core'))
    BY <1>2, EmptyFollows
<1>4. CASE core' = core
    BY <1>1, <1>2, <1>3, <1>4 DEF Inbound, Follows, CleanAfter
<1>5. CASE chunks # <<>> /\ core' = Append(core, Head(chunks))
    <2>1. Head(chunks) = Len(core) + 1
        BY <1>1, <1>2, <1>5, FollowsTail DEF Inbound
    <2>2. Len(core') = Len(core) + 1 /\ Len(chunks) >= 1
        BY <1>2, <1>5, <2>1, Appended, Tailed
    <2>3. Follows(core', 0)
        <3>1. 0 + Len(core) + 1 \in Int /\ Follows(core, 0)
            BY <1>1, <1>2 DEF Inbound
        <3>2. Follows(Append(core, 0 + Len(core) + 1), 0)
            BY <3>1, <1>2, FollowsAppend
        <3>3. 0 + Len(core) + 1 = Head(chunks)
            BY <1>2, <2>1
        <3> QED BY <3>2, <3>3, <1>5
    <2>4. /\ endpoint = "end" => peerEnd = Reset /\ kind = "ws"
          /\ Len(core') + Len(chunks') <= texts
        BY <1>1, <1>2, <2>2 DEF Inbound, CleanAfter
    <2> QED
        BY <1>2, <1>3, <2>3, <2>4 DEF Inbound, Follows, CleanAfter
<1> QED
    BY <1>1, <1>4, <1>5, LastRead

\* Every step keeps what was given, what waits and what is under way in line.
LEMMA InboundKept == TransportInv /\ [TransportNext]_transportVars => Inbound'
<1> SUFFICES ASSUME TransportInv, [TransportNext]_transportVars PROVE Inbound'
    OBVIOUS
<1>1. NetworkOK'
    BY NetworkKept
<1>2. CASE UNCHANGED <<inVars, endpoint, kind>>
    BY <1>1, <1>2, InboundUntouched
<1>3. ASSUME NEW role \in {"client", "server"}, Opens(role) PROVE Inbound'
    BY <1>1, <1>3, InboundUntouched DEF Opens
<1>4. CASE StreamEnds
    BY <1>1, <1>4, InboundUntouched DEF StreamEnds, CloseEndpoint
<1>5. CASE StreamFails \/ \E terminate \in BOOLEAN : Close(terminate)
    BY <1>1, <1>5, InboundUntouched DEF StreamFails, Close, CloseEndpoint
<1> QED
    BY <1>1, <1>2, <1>3, <1>4, <1>5, InboundSends, InboundCut, InboundArrives, InboundEnds,
       InboundReads, InboundStops
       DEF TransportNext, transportVars, ConnectFails, Encodes, PipeWrites, HandshakeEnds

-----------------------------------------------------------------------------
(* Outbound                                                                *)

\* What happens elsewhere leaves the outbound side alone; a socket that has
\* been closed is not opened again.
LEMMA OutboundUntouched ==
    ASSUME TransportInv, UNCHANGED outVars,
           socket' = "open" /\ pipe' # "stopped" => socket = "open" /\ pipe # "stopped"
    PROVE  Outbound'
BY DEF TransportInv, Outbound, outVars, Follows

\* The client of a framed link starts with its OPEN.
LEMMA OutboundOpens ==
    ASSUME TransportInv, NEW role \in {"client", "server"}, Opens(role)
    PROVE  Outbound'
<1> DEFINE opening == IF SupportsControl /\ role = "client" THEN 1 ELSE 0
<1>1. opening \in {0, 1} /\ outbox' = [i \in 1..opening |-> i] /\ emitted' = opening
    BY DEF Opens
<1>2. got' = <<>>
    BY DEF TransportInv, LivesAgree, Opens
<1> HIDE DEF opening
<1>3. outbox' \in [1..opening -> Int] /\ opening \in Nat
    BY <1>1
<1>4. Len(outbox') = opening
    BY <1>3
<1>5. Follows(outbox', 0)
    BY <1>1 DEF Follows
<1>6. emitted' - Len(outbox') = 0
    BY <1>1, <1>4
<1>7. Follows(got', 0) /\ Len(got') = 0
    BY <1>2, EmptyFollows
<1> QED
    BY <1>1, <1>3, <1>4, <1>5, <1>6, <1>7 DEF Outbound

\* The core encodes the next message.
LEMMA OutboundEncodes ==
    ASSUME TransportInv, Encodes
    PROVE  Outbound'
<1>1. Outbound /\ TransportTypeOK
    BY DEF TransportInv
<1>2. /\ outbox \in Seq(Int) /\ emitted \in Nat /\ Len(outbox) \in Nat /\ Len(got) \in Nat
      /\ emitted' = emitted + 1 /\ outbox' = Append(outbox, emitted + 1)
      /\ UNCHANGED <<got, socket, pipe>>
    BY <1>1, Typed DEF Encodes
<1>3. Len(outbox') = Len(outbox) + 1
    BY <1>2
<1>4. Follows(outbox', emitted' - Len(outbox'))
    <2> DEFINE lo == emitted - Len(outbox)
    <2>1. lo \in Int /\ lo + Len(outbox) + 1 = emitted + 1 /\ emitted' - Len(outbox') = lo
        BY <1>2, <1>3
    <2>2. Follows(outbox, lo)
        BY <1>1 DEF Outbound
    <2> HIDE DEF lo
    <2>3. lo + Len(outbox) + 1 \in Int
        BY <1>2, <2>1
    <2>4. Follows(Append(outbox, lo + Len(outbox) + 1), lo)
        BY <2>1, <2>2, <2>3, <1>2, FollowsAppend
    <2> QED
        BY <2>1, <2>4, <1>2
<1>5. Follows(got', 0)
    BY <1>1, <1>2 DEF Outbound, Follows
<1>6. Len(got') + Len(outbox') = Len(got) + Len(outbox) + 1 /\ emitted' = emitted + 1
    BY <1>2, <1>3
<1>7. /\ Len(got) + Len(outbox) <= emitted
      /\ socket = "open" /\ pipe # "stopped" => Len(got) + Len(outbox) = emitted
    BY <1>1 DEF Outbound
<1> QED
    BY <1>2, <1>4, <1>5, <1>6, <1>7, SMTT(30) DEF Outbound

\* The peer is given the next message.
LEMMA GotNext ==
    ASSUME TransportTypeOK, Outbound, outbox # <<>>, socket = "open", pipe # "stopped"
    PROVE  /\ Follows(Append(got, Head(outbox)), 0)
           /\ Len(Append(got, Head(outbox))) = Len(got) + 1
<1>1. /\ outbox \in Seq(Int) /\ got \in Seq(Int) /\ emitted \in Nat
      /\ Len(outbox) \in Nat /\ Len(got) \in Nat
    BY Typed
<1>2. Head(outbox) = (emitted - Len(outbox)) + 1
    <2>1. emitted - Len(outbox) \in Int /\ Follows(outbox, emitted - Len(outbox))
        BY <1>1 DEF Outbound
    <2> QED BY <2>1, <1>1, FollowsTail
<1>3. Head(outbox) = 0 + Len(got) + 1 /\ Head(outbox) \in Int
    BY <1>1, <1>2 DEF Outbound
<1>4. Follows(Append(got, 0 + Len(got) + 1), 0)
    <2>1. 0 + Len(got) + 1 \in Int /\ Follows(got, 0)
        BY <1>1 DEF Outbound
    <2> QED BY <2>1, <1>1, FollowsAppend
<1>5. Len(Append(got, Head(outbox))) = Len(got) + 1
    BY <1>1, <1>3, Appended
<1> QED
    BY <1>3, <1>4, <1>5

\* The outbound pipe writes the oldest message.
LEMMA OutboundWrites ==
    ASSUME TransportInv, PipeWrites
    PROVE  Outbound'
<1>1. Outbound /\ TransportTypeOK
    BY DEF TransportInv
<1>2. /\ outbox \in Seq(Int) /\ emitted \in Nat /\ Len(outbox) \in Nat /\ Len(got) \in Nat
      /\ outbox # <<>> /\ outbox' = Tail(outbox)
      /\ UNCHANGED <<emitted, socket, pipe>> /\ pipe # "stopped"
    BY <1>1, Typed DEF PipeWrites
<1>3. Len(outbox') = Len(outbox) - 1 /\ Len(outbox) >= 1
    BY <1>2, Tailed
<1>4. Follows(outbox', emitted' - Len(outbox'))
    <2>1. emitted - Len(outbox) \in Int /\ Follows(outbox, emitted - Len(outbox))
        BY <1>1, <1>2 DEF Outbound
    <2>2. Follows(Tail(outbox), (emitted - Len(outbox)) + 1)
        BY <2>1, <1>2, FollowsTail
    <2>3. (emitted - Len(outbox)) + 1 = emitted' - Len(outbox')
        BY <1>2, <1>3
    <2> QED BY <2>2, <2>3, <1>2
<1>5. CASE socket = "open"
    <2>1. Follows(got', 0) /\ Len(got') = Len(got) + 1
        BY <1>1, <1>2, <1>5, GotNext, OneWritten
    <2>2. Len(got') + Len(outbox') = Len(got) + Len(outbox)
        BY <2>1, <1>2, <1>3
    <2>3. Len(got) + Len(outbox) = emitted
        BY <1>1, <1>2, <1>5 DEF Outbound
    <2> QED
        BY <2>1, <2>2, <2>3, <1>2, <1>4, SMTT(30) DEF Outbound
<1>6. CASE socket # "open"
    <2>1. got' = got
        BY <1>1, <1>6, OneWritten
    <2> QED
        BY <2>1, <1>1, <1>2, <1>3, <1>4, <1>6 DEF Outbound, Follows
<1> QED
    BY <1>5, <1>6

\* The pipe may write one more.
LEMMA OutboundStops ==
    ASSUME TransportInv, PipeStops
    PROVE  Outbound'
<1>1. Outbound /\ TransportTypeOK
    BY DEF TransportInv
<1>2. /\ emitted \in Nat /\ Len(outbox) \in Nat /\ Len(got) \in Nat
      /\ outbox' = <<>> /\ Len(outbox') = 0
      /\ emitted' = emitted /\ pipe' = "stopped" /\ pipe # "stopped"
    BY <1>1, Typed DEF PipeStops
<1>3. Follows(outbox', emitted' - Len(outbox'))
    BY <1>2, EmptyFollows
<1>4. CASE got' = got
    BY <1>1, <1>2, <1>3, <1>4 DEF Outbound, Follows
<1>5. CASE outbox # <<>> /\ socket = "open" /\ got' = Append(got, Head(outbox))
    <2>1. Follows(got', 0) /\ Len(got') = Len(got) + 1
        BY <1>1, <1>2, <1>5, GotNext
    <2>2. Len(outbox) >= 1
        BY <1>1, <1>5, Typed, Tailed
    <2> QED
        BY <2>1, <2>2, <1>1, <1>2, <1>3 DEF Outbound
<1> QED
    BY <1>1, <1>4, <1>5, LastWritten

\* Every step keeps what the peer was given and what waits in line.
LEMMA OutboundKept == TransportInv /\ [TransportNext]_transportVars => Outbound'
<1> SUFFICES ASSUME TransportInv, [TransportNext]_transportVars PROVE Outbound'
    OBVIOUS
<1>1. CASE UNCHANGED <<outVars, socket, pipe>>
    BY <1>1, OutboundUntouched
<1>2. CASE ConnectFails
    BY <1>2, OutboundUntouched DEF ConnectFails
<1>3. CASE EndArrives
    BY <1>3, OutboundUntouched DEF EndArrives
<1>4. ASSUME NEW reason, NEW terminate \in BOOLEAN, CloseEndpoint(reason, terminate)
      PROVE  Outbound'
    <2>1. pipe = "running" /\ (socket' = "open" => socket = "open")
        BY <1>4 DEF TransportInv, LivesAgree, CloseEndpoint, SocketAfter
    <2> QED
        BY <1>4, <2>1, OutboundUntouched DEF CloseEndpoint
<1>5. CASE HandshakeEnds
    BY <1>5, OutboundUntouched DEF HandshakeEnds
<1> QED
    BY <1>1, <1>2, <1>3, <1>4, <1>5, OutboundOpens, OutboundEncodes, OutboundWrites,
       OutboundStops
       DEF TransportNext, transportVars, PeerSends, PeerEnds, MessageArrives, PipeReads,
           StreamEnds, StreamFails, Close

-----------------------------------------------------------------------------
(* Theorems                                                                *)

\* A connection starts with nothing sent.
LEMMA TransportInitInv == TransportInit => TransportInv
<1> SUFFICES ASSUME TransportInit PROVE TransportInv
    OBVIOUS
<1>1. PlainTypeOK
    <2>1. 0 \in 0..MaxSent /\ 0 \in 0..MaxBinary /\ 0 \in 0..(MaxEncoded + 1)
        BY TransportAssumption
    <2> QED
        BY <2>1 DEF TransportInit, PlainTypeOK
<1>2. SeqsTypeOK
    BY DEF TransportInit, SeqsTypeOK
<1>3. LivesAgree
    BY DEF TransportInit, LivesAgree, CrashIsLate
<1>4. Len(core) = 0 /\ Len(chunks) = 0 /\ Len(got) = 0 /\ Len(outbox) = 0 /\ DOMAIN network = {}
    BY DEF TransportInit
<1>5. Inbound
    BY <1>4, EmptyFollows DEF TransportInit, Inbound, NetworkOK, Underway, Carries
<1>6. Outbound
    BY <1>4, EmptyFollows DEF TransportInit, Outbound
<1> QED
    BY <1>1, <1>2, <1>3, <1>5, <1>6, TypeParts DEF TransportInv

\* The connection of a transport, and the pipes over it (transport/,
\* endpoint.ts 116-145 and 254-262), keep the inductive invariant.
THEOREM TransportInvariance == TransportSpec => []TransportInv
<1>1. TransportInv /\ [TransportNext]_transportVars => TransportInv'
    <2> SUFFICES ASSUME TransportInv, [TransportNext]_transportVars PROVE TransportInv'
        OBVIOUS
    <2>1. TransportTypeOK'
        <3>1. PlainTypeOK /\ TransportTypeOK
            BY TypeParts DEF TransportInv
        <3>2. PlainTypeOK' /\ SeqsTypeOK'
            BY <3>1, PlainKept, SeqsKept
        <3> QED
            BY <3>2 DEF TransportTypeOK, PlainTypeOK, SeqsTypeOK, Carriable, Outgoing
    <2> QED
        BY <2>1, InboundKept, OutboundKept, LivesKept DEF TransportInv
<1> QED
    BY TransportInitInv, <1>1, PTL DEF TransportSpec

\* The variables of a connection keep their types.
THEOREM TransportTypeCorrect == TransportSpec => []TransportTypeOK
<1>1. TransportInv => TransportTypeOK
    BY DEF TransportInv
<1> QED
    BY TransportInvariance, <1>1, PTL

\* The first messages are a prefix of the messages.
LEMMA FirstOnes ==
    ASSUME NEW s \in Seq(Int), NEW hi \in Nat, Follows(s, 0), Len(s) <= hi
    PROVE  /\ IsPrefix(s, UpTo(hi))
           /\ Len(s) = hi => s = UpTo(hi)
<1>1. /\ UpTo(hi) \in Seq(Int) /\ Len(UpTo(hi)) = hi
      /\ \A i \in 1..hi : UpTo(hi)[i] = i
    BY DEF UpTo
<1>2. /\ Len(s) \in Nat /\ DOMAIN s = 1..Len(s)
      /\ \A i \in 1..Len(s) : s[i] = i
    BY DEF Follows
<1>3. Len(s) = hi => s = UpTo(hi)
    BY <1>1, <1>2, SeqEqual
<1> HIDE DEF UpTo
<1>4. /\ SubSeq(s, 1, Len(s)) \in Seq(Int)
      /\ Len(SubSeq(s, 1, Len(s))) = Len(s)
      /\ \A i \in 1..Len(s) : SubSeq(s, 1, Len(s))[i] = i
    BY <1>2
<1>5. /\ SubSeq(UpTo(hi), 1, Len(s)) \in Seq(Int)
      /\ Len(SubSeq(UpTo(hi), 1, Len(s))) = Len(s)
      /\ \A i \in 1..Len(s) : SubSeq(UpTo(hi), 1, Len(s))[i] = i
    BY <1>1, <1>2
<1>6. SubSeq(s, 1, Len(s)) = SubSeq(UpTo(hi), 1, Len(s))
    <2> DEFINE a == SubSeq(s, 1, Len(s))
               b == SubSeq(UpTo(hi), 1, Len(s))
    <2>1. /\ a \in Seq(Int) /\ b \in Seq(Int) /\ Len(a) = Len(b)
          /\ \A i \in 1..Len(a) : a[i] = b[i]
        BY <1>4, <1>5
    <2> HIDE DEF a, b
    <2>2. a = b
        BY <2>1, SeqEqual
    <2> QED BY <2>2 DEF a, b
<1> QED
    BY <1>1, <1>3, <1>6 DEF IsPrefix

\* Each side is given the other's messages in order, none twice and none
\* skipped, and no binary one; a clean end comes after the last of them, or is
\* the end of a WebSocket that was cut; a closed endpoint leaves no socket open
\* and tells an in-memory peer; only the message of a peer that has not yet
\* answered close() throws.
THEOREM Delivered == TransportSpec => []TransportDelivers
<1>1. TransportInv => TransportDelivers
    <2> SUFFICES ASSUME TransportInv PROVE TransportDelivers
        OBVIOUS
    <2>1. /\ core \in Seq(Int) /\ got \in Seq(Int) /\ texts \in Nat /\ emitted \in Nat
          /\ Len(core) \in Nat /\ Len(chunks) \in Nat
          /\ Len(got) \in Nat /\ Len(outbox) \in Nat
        BY Typed DEF TransportInv
    <2>2. Follows(core, 0) /\ Len(core) <= texts /\ Follows(got, 0) /\ Len(got) <= emitted
        BY <2>1 DEF TransportInv, Inbound, Outbound
    <2>3. InOrder
        BY <2>1, <2>2, FirstOnes DEF InOrder
    <2>4. EndIsLast
        BY <2>1, <2>2, FirstOnes DEF EndIsLast, TransportInv, Inbound, CleanAfter
    <2>5. NothingOpen /\ CrashIsLate
        BY DEF TransportInv, LivesAgree, NothingOpen
    <2> QED
        BY <2>3, <2>4, <2>5 DEF TransportDelivers
<1> QED
    BY TransportInvariance, <1>1, PTL

-----------------------------------------------------------------------------
(* Frames                                                                  *)

\* What holds of 0, and of every number if it holds of the one before, holds
\* of all.
LEMMA Upward ==
    ASSUME NEW n \in Nat, NEW T, 0 \in T, \A k \in 1..n : k - 1 \in T => k \in T
    PROVE  0..n \subseteq T
<1> DEFINE Bad == {k \in 0..n : k \notin T}
<1>1. ASSUME Bad # {} PROVE FALSE
    <2>0. Bad \in SUBSET Nat
        OBVIOUS
    <2>1. PICK m \in Bad : \A k \in Bad : m <= k
        <3> HIDE DEF Bad
        <3> QED
            BY <1>1, <2>0, LeastNatural
    <2>2. m \in 1..n /\ m - 1 \in 0..n /\ m - 1 \notin Bad
        BY <2>1
    <2> QED
        BY <2>1, <2>2
<1> QED
    BY <1>1

\* What holds of every number if it holds of all greater ones, up to n, holds
\* of all.
LEMMA Downward ==
    ASSUME NEW n \in Nat, NEW T,
           \A i \in 1..n : (\A j \in (i + 1)..n : j \in T) => i \in T
    PROVE  1..n \subseteq T
<1> DEFINE Bad == {k \in 0..n : k # n /\ n - k \notin T}
<1>1. ASSUME Bad # {} PROVE FALSE
    <2>0. Bad \in SUBSET Nat
        OBVIOUS
    <2>1. PICK m \in Bad : \A k \in Bad : m <= k
        <3> HIDE DEF Bad
        <3> QED
            BY <1>1, <2>0, LeastNatural
    <2>2. n - m \in 1..n /\ n - m \notin T
        BY <2>1
    <2>3. ASSUME NEW j \in (n - m + 1)..n PROVE j \in T
        <3>1. n - j \in 0..n /\ n - j # n /\ ~(m <= n - j) /\ n - (n - j) = j
            BY <2>1
        <3> QED
            BY <2>1, <3>1
    <2> QED
        BY <2>2, <2>3
<1>2. \A i \in 1..n : n - i \in 0..n /\ n - i # n /\ n - (n - i) = i
    OBVIOUS
<1> QED
    BY <1>1, <1>2

\* One sequence after the other, element by element.
LEMMA Joined ==
    ASSUME NEW S, NEW s \in Seq(S), NEW t \in Seq(S)
    PROVE  /\ s \o t \in Seq(S) /\ Len(s \o t) = Len(s) + Len(t)
           /\ Len(s) \in Nat /\ Len(t) \in Nat
           /\ DOMAIN (s \o t) = 1..(Len(s) + Len(t))
           /\ \A k \in 1..Len(s) : (s \o t)[k] = s[k]
           /\ \A k \in 1..Len(t) : (s \o t)[Len(s) + k] = t[k]
           /\ \A k \in (Len(s) + 1)..(Len(s) + Len(t)) : (s \o t)[k] = t[k - Len(s)]
<1>1. /\ s \o t \in Seq(S) /\ Len(s \o t) = Len(s) + Len(t)
      /\ Len(s) \in Nat /\ Len(t) \in Nat /\ DOMAIN (s \o t) = 1..(Len(s) + Len(t))
      /\ \A k \in 1..(Len(s) + Len(t)) :
            (s \o t)[k] = IF k <= Len(s) THEN s[k] ELSE t[k - Len(s)]
    BY ConcatProperties, LenProperties
<1>2. \A k \in 1..Len(s) : (s \o t)[k] = s[k]
    BY <1>1
<1>3. ASSUME NEW k \in 1..Len(t) PROVE (s \o t)[Len(s) + k] = t[k]
    <2>1. /\ Len(s) + k \in 1..(Len(s) + Len(t)) /\ ~(Len(s) + k <= Len(s))
          /\ Len(s) + k - Len(s) = k
        BY <1>1
    <2> QED
        BY <1>1, <2>1
<1>4. \A k \in (Len(s) + 1)..(Len(s) + Len(t)) : (s \o t)[k] = t[k - Len(s)]
    BY <1>1
<1> QED
    BY <1>1, <1>2, <1>3, <1>4

\* A part of a sequence, element by element.
LEMMA Part ==
    ASSUME NEW S, NEW s \in Seq(S), NEW m \in 1..(Len(s) + 1), NEW n \in (m - 1)..Len(s)
    PROVE  /\ SubSeq(s, m, n) \in Seq(S) /\ Len(SubSeq(s, m, n)) = n - m + 1
           /\ DOMAIN SubSeq(s, m, n) = 1..(n - m + 1)
           /\ \A k \in 1..(n - m + 1) : SubSeq(s, m, n)[k] = s[m + k - 1]
<1>1. Len(s) \in Nat /\ m \in Int /\ n \in Int /\ \A i \in m..n : s[i] \in S
    <2>1. Len(s) \in Nat
        OBVIOUS
    <2> QED
        BY <2>1
<1>2. /\ SubSeq(s, m, n) \in Seq(S)
      /\ Len(SubSeq(s, m, n)) = IF m <= n THEN n - m + 1 ELSE 0
      /\ \A k \in 1..(n - m + 1) : SubSeq(s, m, n)[k] = s[m + k - 1]
    BY <1>1, SubSeqProperties
<1>3. Len(SubSeq(s, m, n)) = n - m + 1
    BY <1>1, <1>2
<1> QED
    BY <1>2, <1>3

-----------------------------------------------------------------------------
(* Frames and elements *)

\* What a header can say.
Headers == [msg : Nat, id : Nat, index : Nat, count : Nat, len : Nat]

\* What can be on the stream.
Elements ==
    {Magic[1], Magic[2], Noise} \cup {Fields(f) : f \in Headers} \cup {Crc(f) : f \in Headers}
    \cup {Data(f, i) : f \in Headers, i \in Nat}

\* A sequence of three records names its parts.
LEMMA ElementsDiffer ==
    /\ Magic[1].at = "magic0" /\ Magic[2].at = "magic1" /\ Noise.at = "noise"
    /\ \A f : Fields(f).at = "fields" /\ Fields(f).frame = f
    /\ \A f : Crc(f).at = "crc" /\ Crc(f).frame = f
    /\ \A f, i : Data(f, i).at = "data"
    /\ \A x \in Elements : x.at = "fields" => x.frame \in Headers /\ x = Fields(x.frame)
BY DEF Magic, Noise, Fields, Crc, Data, Elements

\* A frame, element by element.
LEMMA EncodeIs ==
    ASSUME NEW f \in Headers
    PROVE  /\ Size(f) \in Nat /\ Size(f) >= 4 /\ Inner \in Headers
           /\ Encode(f) \in Seq(Elements) /\ Len(Encode(f)) = Size(f)
           /\ DOMAIN Encode(f) = 1..Size(f)
           /\ Encode(f)[1] = Magic[1] /\ Encode(f)[2] = Magic[2]
           /\ Encode(f)[3] = Fields(f) /\ Encode(f)[Size(f)] = Crc(f)
           /\ f.len = 4 =>
                 /\ Encode(f)[4] = Magic[1] /\ Encode(f)[5] = Magic[2]
                 /\ Encode(f)[6] = Fields(Inner) /\ Encode(f)[7] = Crc(Inner)
           /\ f.len # 4 => \A k \in 4..(Size(f) - 1) : Encode(f)[k] = Data(f, k - 3)
<1> DEFINE Payload == IF f.len = 4 THEN Magic \o <<Fields(Inner), Crc(Inner)>>
                      ELSE [i \in 1..f.len |-> Data(f, i)]
           Start == Magic \o <<Fields(f)>>
<1>1. f.len \in Nat /\ Size(f) = f.len + 4 /\ Inner \in Headers
    BY DEF Headers, Size, Inner, Frame
<1>2. Magic \in Seq(Elements) /\ Len(Magic) = 2
    BY DEF Elements, Magic
<1>3. <<Fields(f)>> \in Seq(Elements) /\ Len(<<Fields(f)>>) = 1 /\ <<Fields(f)>>[1] = Fields(f)
      /\ <<Crc(f)>> \in Seq(Elements) /\ Len(<<Crc(f)>>) = 1 /\ <<Crc(f)>>[1] = Crc(f)
    BY DEF Elements
<1>4. /\ Start \in Seq(Elements) /\ Len(Start) = 3
      /\ Start[1] = Magic[1] /\ Start[2] = Magic[2] /\ Start[3] = Fields(f)
    <2>1. /\ Start \in Seq(Elements) /\ Len(Start) = 2 + 1
          /\ \A k \in 1..2 : Start[k] = Magic[k]
          /\ \A k \in 1..1 : Start[2 + k] = <<Fields(f)>>[k]
        BY <1>2, <1>3, Joined
    <2>2. 1 \in 1..2 /\ 2 \in 1..2 /\ 1 \in 1..1 /\ 2 + 1 = 3
        OBVIOUS
    <2> QED
        BY <1>3, <2>1, <2>2
<1>5. /\ Payload \in Seq(Elements) /\ Len(Payload) = f.len
      /\ f.len = 4 =>
            /\ Payload[1] = Magic[1] /\ Payload[2] = Magic[2]
            /\ Payload[3] = Fields(Inner) /\ Payload[4] = Crc(Inner)
      /\ f.len # 4 => \A i \in 1..f.len : Payload[i] = Data(f, i)
    <2>1. CASE f.len = 4
        <3>1. <<Fields(Inner), Crc(Inner)>> \in Seq(Elements)
              /\ Len(<<Fields(Inner), Crc(Inner)>>) = 2
            BY <1>1 DEF Elements
        <3>2. Payload = Magic \o <<Fields(Inner), Crc(Inner)>>
            BY <2>1
        <3>3. /\ Payload \in Seq(Elements) /\ Len(Payload) = 2 + 2
              /\ \A k \in 1..2 : Payload[k] = Magic[k]
              /\ \A k \in 1..2 : Payload[2 + k] = <<Fields(Inner), Crc(Inner)>>[k]
            <4> DEFINE t == <<Fields(Inner), Crc(Inner)>>
            <4> HIDE DEF t
            <4>1. /\ Magic \o t \in Seq(Elements) /\ Len(Magic \o t) = Len(Magic) + Len(t)
                  /\ \A k \in 1..Len(Magic) : (Magic \o t)[k] = Magic[k]
                  /\ \A k \in 1..Len(t) : (Magic \o t)[Len(Magic) + k] = t[k]
                BY <1>2, <3>1, Joined DEF t
            <4> HIDE DEF Payload
            <4> QED
                BY <1>2, <3>1, <3>2, <4>1 DEF t
        <3>4. 1 \in 1..2 /\ 2 \in 1..2 /\ 2 + 1 = 3 /\ 2 + 2 = 4
            OBVIOUS
        <3> QED
            BY <2>1, <3>3, <3>4
    <2>2. CASE f.len # 4
        <3>1. Payload = [i \in 1..f.len |-> Data(f, i)]
            BY <2>2
        <3>2. \A i \in 1..f.len : Data(f, i) \in Elements
            BY DEF Elements
        <3>3. Payload \in [1..f.len -> Elements]
            BY <3>1, <3>2
        <3>4. Payload \in Seq(Elements) /\ Len(Payload) = f.len
            <4> HIDE DEF Payload
            <4> QED
                BY <1>1, <3>3, SeqDef
        <3> QED
            BY <2>2, <3>1, <3>4
    <2> QED
        BY <2>1, <2>2
<1>6. Encode(f) = (Start \o Payload) \o <<Crc(f)>>
    BY DEF Encode
<1> HIDE DEF Start, Payload
<1>7. /\ Start \o Payload \in Seq(Elements) /\ Len(Start \o Payload) = 3 + f.len
      /\ \A k \in 1..3 : (Start \o Payload)[k] = Start[k]
      /\ \A k \in 1..f.len : (Start \o Payload)[3 + k] = Payload[k]
    <2>1. /\ Start \o Payload \in Seq(Elements)
          /\ Len(Start \o Payload) = Len(Start) + Len(Payload)
          /\ \A k \in 1..Len(Start) : (Start \o Payload)[k] = Start[k]
          /\ \A k \in 1..Len(Payload) : (Start \o Payload)[Len(Start) + k] = Payload[k]
        <3>1. Start \in Seq(Elements) /\ Payload \in Seq(Elements)
            BY <1>4, <1>5
        <3> QED
            BY <3>1, Joined
    <2>2. Len(Start) = 3 /\ Len(Payload) = f.len
        BY <1>4, <1>5
    <2> QED
        BY <2>1, <2>2
<1>8. /\ Encode(f) \in Seq(Elements) /\ Len(Encode(f)) = 3 + f.len + 1
      /\ \A k \in 1..(3 + f.len) : Encode(f)[k] = (Start \o Payload)[k]
      /\ \A k \in 1..1 : Encode(f)[3 + f.len + k] = <<Crc(f)>>[k]
    BY <1>3, <1>6, <1>7, Joined, SMTT(30)
<1>9. /\ Encode(f)[1] = Magic[1] /\ Encode(f)[2] = Magic[2] /\ Encode(f)[3] = Fields(f)
    <2>1. \A k \in 1..3 : k \in 1..(3 + f.len)
        BY <1>1
    <2>2. \A k \in 1..3 : Encode(f)[k] = Start[k]
        BY <1>7, <1>8, <2>1
    <2>3. 1 \in 1..3 /\ 2 \in 1..3 /\ 3 \in 1..3
        OBVIOUS
    <2> QED
        BY <1>4, <2>2, <2>3
<1>10. Encode(f)[Size(f)] = Crc(f)
    <2>1. 1 \in 1..1 /\ 3 + f.len + 1 = Size(f)
        BY <1>1
    <2> QED
        BY <1>3, <1>8, <2>1
<1>11. \A k \in 1..f.len : Encode(f)[3 + k] = Payload[k]
    <2>1. \A k \in 1..f.len : 3 + k \in 1..(3 + f.len)
        BY <1>1
    <2> QED
        BY <1>7, <1>8, <2>1
<1>12. ASSUME f.len = 4
       PROVE  /\ Encode(f)[4] = Magic[1] /\ Encode(f)[5] = Magic[2]
              /\ Encode(f)[6] = Fields(Inner) /\ Encode(f)[7] = Crc(Inner)
    <2>1. 1 \in 1..4 /\ 2 \in 1..4 /\ 3 \in 1..4 /\ 4 \in 1..4
          /\ 3 + 1 = 4 /\ 3 + 2 = 5 /\ 3 + 3 = 6 /\ 3 + 4 = 7
        OBVIOUS
    <2> QED
        BY <1>5, <1>11, <1>12, <2>1
<1>13. ASSUME f.len # 4, NEW k \in 4..(Size(f) - 1) PROVE Encode(f)[k] = Data(f, k - 3)
    <2>1. k - 3 \in 1..f.len /\ 3 + (k - 3) = k
        BY <1>1
    <2>2. Encode(f)[3 + (k - 3)] = Payload[k - 3]
        BY <1>11, <2>1
    <2> QED
        BY <1>5, <1>13, <2>1, <2>2
<1>14. Len(Encode(f)) = Size(f) /\ Size(f) \in Nat /\ Size(f) >= 4
    BY <1>1, <1>8
<1> QED
    BY <1>1, <1>8, <1>9, <1>10, <1>12, <1>13, <1>14

\* Where a header and the start of a magic are in a frame.
LEMMA EncodePlaces ==
    ASSUME NEW f \in Headers, NEW k \in 1..Size(f)
    PROVE  /\ Encode(f)[k].at = "fields" =>
                 \/ k = 3 /\ Encode(f)[k] = Fields(f)
                 \/ k = 6 /\ Encode(f)[k] = Fields(Inner) /\ Size(f) = 8
           /\ Encode(f)[k] = Magic[1] => k = 1 \/ (k = 4 /\ Size(f) = 8 /\ Encode(f)[6] = Fields(Inner))
           /\ Encode(f)[k] # Noise
<1>1. f.len \in Nat /\ Size(f) = f.len + 4
    BY DEF Headers, Size
<1>2. k = 1 \/ k = 2 \/ k = 3 \/ k = Size(f) \/ k \in 4..(Size(f) - 1)
    BY <1>1
<1>3. CASE f.len = 4
    <2>1. k = 1 \/ k = 2 \/ k = 3 \/ k = 4 \/ k = 5 \/ k = 6 \/ k = 7 \/ k = 8
        BY <1>1, <1>3
    <2> QED
        BY <1>1, <1>3, <2>1, EncodeIs, ElementsDiffer
<1>4. CASE f.len # 4
    <2>1. k = 1 => Encode(f)[k] = Magic[1]
        BY EncodeIs
    <2>2. k = 2 => Encode(f)[k] = Magic[2]
        BY EncodeIs
    <2>3. k = 3 => Encode(f)[k] = Fields(f)
        BY EncodeIs
    <2>4. k = Size(f) => Encode(f)[k] = Crc(f)
        BY EncodeIs
    <2>5. k \in 4..(Size(f) - 1) => Encode(f)[k] = Data(f, k - 3)
        BY <1>4, EncodeIs
    <2>6. Fields(f) # Magic[1] /\ Crc(f) # Magic[1] /\ Data(f, k - 3) # Magic[1]
          /\ Magic[2] # Magic[1]
        BY ElementsDiffer
    <2> QED
        BY <1>2, <2>1, <2>2, <2>3, <2>4, <2>5, <2>6, ElementsDiffer
<1> QED
    BY <1>3, <1>4

\* Every element of frame f is at its place, the first one at i.
Intact(b, i, f) ==
    /\ i + Size(f) - 1 <= Len(b)
    /\ \A k \in 1..Size(f) : b[i + k - 1] = Encode(f)[k]

\* What the decoder sees at i.
LEMMA DecoderSees ==
    ASSUME NEW b \in Seq(Elements), NEW i \in 1..(Len(b) + 1)
    PROVE  /\ NoFrame(b, i) => i <= Len(b)
           /\ i + 3 <= Len(b) => b[i + 2] \in Elements
           /\ i + 3 <= Len(b) /\ b[i + 2].at = "fields" =>
                 /\ Candidate(b, i) \in Headers /\ b[i + 2] = Fields(Candidate(b, i))
                 /\ FrameEnd(b, i) = i + Size(Candidate(b, i)) - 1 /\ FrameEnd(b, i) \in Nat
                 /\ Size(Candidate(b, i)) \in Nat /\ Size(Candidate(b, i)) >= 4
           /\ i + 3 <= Len(b) /\ ~NoFrame(b, i) =>
                 /\ b[i + 2].at = "fields" /\ Size(Candidate(b, i)) <= MaxFrameSize
                 /\ FrameEnd(b, i) <= Len(b) => Intact(b, i, Candidate(b, i))
           /\ i + 3 <= Len(b) /\ b[i + 2].at = "fields" /\ FrameEnd(b, i) <= Len(b)
              /\ Intact(b, i, Candidate(b, i)) =>
                 SubSeq(b, i, FrameEnd(b, i)) = Encode(Candidate(b, i))
<1> DEFINE f == Candidate(b, i)
<1>1. Len(b) \in Nat /\ i \in Nat /\ i >= 1 /\ DOMAIN b = 1..Len(b)
    OBVIOUS
<1>2. NoFrame(b, i) => i <= Len(b)
    BY <1>1 DEF NoFrame
<1>3. i + 3 <= Len(b) => b[i + 2] \in Elements
    BY <1>1
<1>4. ASSUME i + 3 <= Len(b), b[i + 2].at = "fields"
      PROVE  /\ f \in Headers /\ b[i + 2] = Fields(f)
             /\ FrameEnd(b, i) = i + Size(f) - 1 /\ FrameEnd(b, i) \in Nat
             /\ Size(f) \in Nat /\ Size(f) >= 4
    <2>1. f \in Headers /\ b[i + 2] = Fields(f)
        BY <1>3, <1>4, ElementsDiffer DEF Candidate
    <2>2. Size(f) \in Nat /\ Size(f) >= 4
        BY <2>1, EncodeIs
    <2> HIDE DEF f
    <2>3. FrameEnd(b, i) = i + Size(f) - 1
        BY DEF FrameEnd, f
    <2> QED
        BY <1>1, <2>1, <2>2, <2>3
<1>5. ASSUME i + 3 <= Len(b), b[i + 2].at = "fields", FrameEnd(b, i) <= Len(b)
      PROVE  SubSeq(b, i, FrameEnd(b, i)) = Encode(f) <=> Intact(b, i, f)
    <2>1. /\ f \in Headers /\ FrameEnd(b, i) = i + Size(f) - 1
          /\ Size(f) \in Nat /\ Size(f) >= 4
        BY <1>4, <1>5
    <2> HIDE DEF f
    <2> DEFINE s == SubSeq(b, i, FrameEnd(b, i))
    <2>2. FrameEnd(b, i) \in (i - 1)..Len(b) /\ FrameEnd(b, i) - i + 1 = Size(f)
        BY <1>1, <1>5, <2>1
    <2>3. s \in Seq(Elements) /\ Len(s) = Size(f) /\ \A k \in 1..Size(f) : s[k] = b[i + k - 1]
        BY <2>2, Part
    <2>4. Encode(f) \in Seq(Elements) /\ Len(Encode(f)) = Size(f)
        BY <2>1, EncodeIs
    <2> HIDE DEF s
    <2>5. s = Encode(f) => \A k \in 1..Size(f) : b[i + k - 1] = Encode(f)[k]
        BY <2>3
    <2>6. (\A k \in 1..Size(f) : b[i + k - 1] = Encode(f)[k]) => s = Encode(f)
        BY <2>3, <2>4, SeqEqual
    <2> QED
        BY <1>5, <2>1, <2>5, <2>6 DEF Intact, s
<1>6. ASSUME i + 3 <= Len(b), ~NoFrame(b, i)
      PROVE  /\ b[i + 2].at = "fields" /\ Size(f) <= MaxFrameSize
             /\ FrameEnd(b, i) <= Len(b) => SubSeq(b, i, FrameEnd(b, i)) = Encode(f)
    <2>1. b[i + 2].at = "fields"
        BY <1>6 DEF NoFrame
    <2>2. ~(Size(f) > MaxFrameSize)
        BY <1>6 DEF NoFrame
    <2>3. FrameEnd(b, i) <= Len(b) => SubSeq(b, i, FrameEnd(b, i)) = Encode(f)
        BY <1>6 DEF NoFrame
    <2>4. Size(f) \in Nat
        BY <1>4, <1>6, <2>1
    <2> QED
        BY <2>1, <2>2, <2>3, <2>4, FramingAssumption
<1> QED
    BY <1>2, <1>3, <1>4, <1>5, <1>6

\* No frame begins at i, said element by element.
LEMMA NoFrameIs ==
    ASSUME NEW b \in Seq(Elements), NEW i \in 1..(Len(b) + 1)
    PROVE  NoFrame(b, i) <=>
              \/ i <= Len(b) /\ b[i] # Magic[1]
              \/ i + 1 <= Len(b) /\ b[i + 1] # Magic[2]
              \/ i + 3 <= Len(b) /\ b[i + 2].at # "fields"
              \/ /\ i + 3 <= Len(b) /\ b[i + 2].at = "fields"
                 /\ Size(Candidate(b, i)) > MaxFrameSize
              \/ /\ i + 3 <= Len(b) /\ b[i + 2].at = "fields"
                 /\ FrameEnd(b, i) <= Len(b) /\ ~Intact(b, i, Candidate(b, i))
<1>1. (\E j \in 1..2 : i + j - 1 <= Len(b) /\ b[i + j - 1] # Magic[j])
        <=> \/ i <= Len(b) /\ b[i] # Magic[1]
            \/ i + 1 <= Len(b) /\ b[i + 1] # Magic[2]
    <2>1. \A j : j \in 1..2 <=> j = 1 \/ j = 2
        OBVIOUS
    <2>2. i + 1 - 1 = i /\ i + 2 - 1 = i + 1
        OBVIOUS
    <2> QED
        BY <2>1, <2>2
<1>2. ASSUME i + 3 <= Len(b), b[i + 2].at = "fields", FrameEnd(b, i) <= Len(b)
      PROVE  SubSeq(b, i, FrameEnd(b, i)) = Encode(Candidate(b, i))
                <=> Intact(b, i, Candidate(b, i))
    <2> DEFINE f == Candidate(b, i)
    <2>1. /\ f \in Headers /\ FrameEnd(b, i) = i + Size(f) - 1
          /\ Size(f) \in Nat /\ Size(f) >= 4
        BY <1>2, DecoderSees
    <2>2. Intact(b, i, f) => SubSeq(b, i, FrameEnd(b, i)) = Encode(f)
        BY <1>2, DecoderSees
    <2>3. FrameEnd(b, i) \in (i - 1)..Len(b) /\ FrameEnd(b, i) - i + 1 = Size(f)
        BY <1>2, <2>1, SMTT(30)
    <2>4. \A k \in 1..Size(f) : SubSeq(b, i, FrameEnd(b, i))[k] = b[i + k - 1]
        BY <2>3, Part
    <2> HIDE DEF f
    <2>5. SubSeq(b, i, FrameEnd(b, i)) = Encode(f) => Intact(b, i, f)
        BY <1>2, <2>1, <2>4 DEF Intact
    <2> QED
        BY <2>2, <2>5 DEF f
<1> QED
    BY <1>1, <1>2 DEF NoFrame

\* A decoder that sees the same elements does the same; more elements behind
\* them change nothing where it does not wait for them.
LEMMA Window ==
    ASSUME NEW b \in Seq(Elements), NEW d \in Seq(Elements), NEW c \in Nat,
           NEW i \in 1..(Len(b) + 1), c + Len(b) <= Len(d),
           \A k \in i..Len(b) : b[k] = d[c + k]
    PROVE  /\ i + 3 <= Len(b) =>
                 Candidate(d, c + i) = Candidate(b, i) /\ b[i + 2] = d[c + i + 2]
           /\ i + 3 <= Len(b) /\ b[i + 2].at = "fields" =>
                 FrameEnd(d, c + i) = c + FrameEnd(b, i)
           /\ NoFrame(b, i) => NoFrame(d, c + i)
           /\ ~NoFrame(b, i) /\ ~Incomplete(b, i) =>
                 ~NoFrame(d, c + i) /\ ~Incomplete(d, c + i)
           /\ c + Len(b) = Len(d) =>
                 /\ NoFrame(b, i) <=> NoFrame(d, c + i)
                 /\ ~NoFrame(b, i) => (Incomplete(b, i) <=> Incomplete(d, c + i))
<1> DEFINE f == Candidate(b, i)
<1>1. /\ Len(b) \in Nat /\ Len(d) \in Nat /\ i \in Nat /\ i >= 1
      /\ c + i \in 1..(Len(d) + 1)
    OBVIOUS
<1>2. ASSUME i + 3 <= Len(b)
      PROVE  Candidate(d, c + i) = f /\ b[i + 2] = d[c + i + 2]
    <2>1. i + 2 \in i..Len(b) /\ c + (i + 2) = c + i + 2
        BY <1>1, <1>2
    <2>2. b[i + 2] = d[c + i + 2]
        BY <2>1
    <2> QED
        BY <2>2 DEF Candidate
<1>3. ASSUME i + 3 <= Len(b), b[i + 2].at = "fields"
      PROVE  /\ FrameEnd(d, c + i) = c + FrameEnd(b, i)
             /\ Size(f) \in Nat /\ Size(f) >= 4 /\ FrameEnd(b, i) = i + Size(f) - 1
             /\ FrameEnd(b, i) <= Len(b) => (Intact(b, i, f) <=> Intact(d, c + i, f))
    <2>1. Size(f) \in Nat /\ Size(f) >= 4 /\ FrameEnd(b, i) = i + Size(f) - 1
        BY <1>3, DecoderSees
    <2>2. FrameEnd(d, c + i) = c + i + Size(f) - 1
        BY <1>2, <1>3 DEF FrameEnd
    <2> HIDE DEF f
    <2>3. ASSUME FrameEnd(b, i) <= Len(b)
          PROVE  Intact(b, i, f) <=> Intact(d, c + i, f)
        <3>1. \A k \in 1..Size(f) : b[i + k - 1] = d[c + i + k - 1]
            <4> TAKE k \in 1..Size(f)
            <4>1. i + k - 1 \in i..Len(b) /\ c + (i + k - 1) = c + i + k - 1
                BY <1>1, <2>1, <2>3, SMTT(30)
            <4>2. b[i + k - 1] = d[c + (i + k - 1)]
                BY <4>1
            <4> QED
                BY <4>1, <4>2
        <3>2. i + Size(f) - 1 <= Len(b) /\ c + i + Size(f) - 1 <= Len(d)
            BY <1>1, <2>1, <2>3
        <3> QED
            BY <3>1, <3>2 DEF Intact
    <2> QED
        BY <1>1, <2>1, <2>2, <2>3
<1>4. (i <= Len(b) => b[i] = d[c + i]) /\ (i + 1 <= Len(b) => b[i + 1] = d[c + i + 1])
    <2>1. i <= Len(b) => i \in i..Len(b)
        BY <1>1
    <2>2. i + 1 <= Len(b) => i + 1 \in i..Len(b)
        BY <1>1
    <2>5. c + (i + 1) = c + i + 1
        BY <1>1
    <2>3. i <= Len(b) => b[i] = d[c + i]
        BY <2>1
    <2>4. ASSUME i + 1 <= Len(b) PROVE b[i + 1] = d[c + i + 1]
        <3>1. b[i + 1] = d[c + (i + 1)]
            BY <2>2, <2>4
        <3> QED
            BY <2>5, <3>1
    <2> QED
        BY <2>3, <2>4
<1> DEFINE B1 == i <= Len(b) /\ b[i] # Magic[1]
           B2 == i + 1 <= Len(b) /\ b[i + 1] # Magic[2]
           B3 == i + 3 <= Len(b) /\ b[i + 2].at # "fields"
           B4 == i + 3 <= Len(b) /\ b[i + 2].at = "fields" /\ Size(f) > MaxFrameSize
           B5 == i + 3 <= Len(b) /\ b[i + 2].at = "fields" /\ FrameEnd(b, i) <= Len(b)
                    /\ ~Intact(b, i, f)
           D1 == c + i <= Len(d) /\ d[c + i] # Magic[1]
           D2 == c + i + 1 <= Len(d) /\ d[c + i + 1] # Magic[2]
           D3 == c + i + 3 <= Len(d) /\ d[c + i + 2].at # "fields"
           D4 == c + i + 3 <= Len(d) /\ d[c + i + 2].at = "fields"
                    /\ Size(Candidate(d, c + i)) > MaxFrameSize
           D5 == c + i + 3 <= Len(d) /\ d[c + i + 2].at = "fields"
                    /\ FrameEnd(d, c + i) <= Len(d) /\ ~Intact(d, c + i, Candidate(d, c + i))
<1>5. NoFrame(b, i) <=> B1 \/ B2 \/ B3 \/ B4 \/ B5
    BY NoFrameIs
<1>6. NoFrame(d, c + i) <=> D1 \/ D2 \/ D3 \/ D4 \/ D5
    <2> DEFINE e == c + i
    <2>1. e \in 1..(Len(d) + 1)
        BY <1>1
    <2> HIDE DEF e
    <2>2. NoFrame(d, e) <=>
              \/ e <= Len(d) /\ d[e] # Magic[1]
              \/ e + 1 <= Len(d) /\ d[e + 1] # Magic[2]
              \/ e + 3 <= Len(d) /\ d[e + 2].at # "fields"
              \/ /\ e + 3 <= Len(d) /\ d[e + 2].at = "fields"
                 /\ Size(Candidate(d, e)) > MaxFrameSize
              \/ /\ e + 3 <= Len(d) /\ d[e + 2].at = "fields"
                 /\ FrameEnd(d, e) <= Len(d) /\ ~Intact(d, e, Candidate(d, e))
        BY <2>1, NoFrameIs
    <2> QED
        BY <2>2, Zenon DEF e
<1>7. (B1 => D1) /\ (B2 => D2) /\ (B3 => D3) /\ (B4 => D4)
    <2>1. /\ i <= Len(b) => c + i <= Len(d)
          /\ i + 1 <= Len(b) => c + i + 1 <= Len(d)
          /\ i + 3 <= Len(b) => c + i + 3 <= Len(d)
        BY <1>1
    <2>2. (B1 => D1) /\ (B2 => D2)
        BY <1>4, <2>1
    <2>3. B3 => D3
        BY <1>2, <2>1
    <2>4. B4 => D4
        BY <1>2, <2>1
    <2> QED
        BY <2>2, <2>3, <2>4
<1>8. B5 => D5
    <2> SUFFICES ASSUME B5 PROVE D5
        OBVIOUS
    <2>1. /\ i + 3 <= Len(b) /\ b[i + 2].at = "fields" /\ FrameEnd(b, i) <= Len(b)
          /\ ~Intact(b, i, f)
        OBVIOUS
    <2>2. c + i + 3 <= Len(d)
        BY <1>1, <2>1
    <2>3. d[c + i + 2].at = "fields" /\ Candidate(d, c + i) = f
        BY <1>2, <2>1
    <2>4. FrameEnd(d, c + i) = c + FrameEnd(b, i) /\ FrameEnd(b, i) \in Nat
        BY <1>3, <2>1, DecoderSees
    <2>5. ~Intact(d, c + i, f)
        BY <1>3, <2>1
    <2>6. FrameEnd(d, c + i) <= Len(d)
        BY <1>1, <2>1, <2>4
    <2> QED
        BY <2>2, <2>3, <2>5, <2>6
<1>9. ASSUME ~NoFrame(b, i), ~Incomplete(b, i)
      PROVE  ~NoFrame(d, c + i) /\ ~Incomplete(d, c + i)
    <2>1. i + 3 <= Len(b) /\ FrameEnd(b, i) <= Len(b) /\ b[i + 2].at = "fields"
        <3>1. i + 3 <= Len(b)
            BY <1>1, <1>9 DEF Incomplete
        <3>2. b[i + 2].at = "fields" /\ FrameEnd(b, i) \in Nat
            BY <1>9, <3>1, DecoderSees
        <3> QED
            BY <1>1, <1>9, <3>1, <3>2 DEF Incomplete
    <2>2. /\ ~D1 /\ ~D2 /\ ~D3 /\ ~D4
        <3>1. ~B1 /\ ~B2 /\ ~B4
            BY <1>5, <1>9
        <3>2. ~D1 /\ ~D2
            BY <1>1, <1>4, <2>1, <3>1, SMTT(30)
        <3>3. ~D3
            BY <1>2, <2>1
        <3>4. ~D4
            BY <1>2, <2>1, <3>1
        <3> QED
            BY <3>2, <3>3, <3>4
    <2>3. ~D5
        <3>1. Intact(b, i, f)
            BY <1>5, <1>9, <2>1
        <3>2. Candidate(d, c + i) = f
            BY <1>2, <2>1
        <3>3. Intact(d, c + i, f)
            BY <1>3, <2>1, <3>1
        <3> QED
            BY <3>2, <3>3
    <2>4. ~Incomplete(d, c + i)
        <3>1. FrameEnd(d, c + i) = c + FrameEnd(b, i) /\ FrameEnd(b, i) \in Nat
            BY <1>3, <2>1, DecoderSees
        <3> QED
            BY <1>1, <2>1, <3>1 DEF Incomplete
    <2> QED
        BY <1>6, <2>2, <2>3, <2>4
<1>10. ASSUME c + Len(b) = Len(d)
       PROVE  /\ NoFrame(b, i) <=> NoFrame(d, c + i)
              /\ ~NoFrame(b, i) => (Incomplete(b, i) <=> Incomplete(d, c + i))
    <2>1. (D1 => B1) /\ (D2 => B2) /\ (D3 => B3) /\ (D4 => B4)
        <3>1. /\ c + i <= Len(d) => i <= Len(b)
              /\ c + i + 1 <= Len(d) => i + 1 <= Len(b)
              /\ c + i + 3 <= Len(d) => i + 3 <= Len(b)
            BY <1>1, <1>10
        <3>2. (D1 => B1) /\ (D2 => B2)
            BY <1>4, <3>1
        <3>3. D3 => B3
            BY <1>2, <3>1
        <3>4. D4 => B4
            BY <1>2, <3>1
        <3> QED
            BY <3>2, <3>3, <3>4
    <2>2. ASSUME D5 PROVE B5
        <3>1. i + 3 <= Len(b)
            BY <1>1, <1>10, <2>2
        <3>2. b[i + 2].at = "fields" /\ Candidate(d, c + i) = f
            BY <1>2, <2>2, <3>1
        <3>3. FrameEnd(d, c + i) = c + FrameEnd(b, i) /\ FrameEnd(b, i) \in Nat
            BY <1>3, <3>1, <3>2, DecoderSees
        <3>4. FrameEnd(b, i) <= Len(b)
            BY <1>1, <1>10, <2>2, <3>3
        <3>5. ~Intact(b, i, f)
            BY <1>3, <2>2, <3>1, <3>2, <3>4
        <3> QED
            BY <3>1, <3>2, <3>4, <3>5
    <2>3. NoFrame(b, i) <=> NoFrame(d, c + i)
        BY <1>5, <1>6, <1>7, <1>8, <2>1, <2>2
    <2>4. ASSUME ~NoFrame(b, i)
          PROVE  Incomplete(b, i) <=> Incomplete(d, c + i)
        <3>1. CASE i + 3 <= Len(b)
            <4>1. b[i + 2].at = "fields"
                BY <2>4, <3>1, DecoderSees
            <4>2. FrameEnd(d, c + i) = c + FrameEnd(b, i) /\ FrameEnd(b, i) \in Nat
                BY <1>3, <3>1, <4>1, DecoderSees
            <4>3. c + i + 3 <= Len(d) /\ (FrameEnd(d, c + i) > Len(d) <=> FrameEnd(b, i) > Len(b))
                BY <1>1, <1>10, <3>1, <4>2
            <4>4. ~(i + 3 > Len(b)) /\ ~(c + i + 3 > Len(d))
                BY <1>1, <3>1, <4>3
            <4> QED
                BY <4>3, <4>4 DEF Incomplete
        <3>2. CASE ~(i + 3 <= Len(b))
            BY <1>1, <1>10, <3>2 DEF Incomplete
        <3> QED
            BY <3>1, <3>2
    <2> QED
        BY <2>3, <2>4
<1> QED
    BY <1>2, <1>3, <1>5, <1>6, <1>7, <1>8, <1>9, <1>10

\* What parseLoop makes of i when g says what it makes of the places behind it.
LoopStep(b, g, i) ==
    IF NoFrame(b, i) THEN g[i + 1]
    ELSE IF Incomplete(b, i) THEN [found |-> <<>>, rest |-> Rest(b, i)]
    ELSE LET q == g[FrameEnd(b, i) + 1]
         IN [found |-> <<Candidate(b, i)>> \o q.found, rest |-> q.rest]

\* parseLoop moves forward, and not beyond the end.
LEMMA LoopForward ==
    ASSUME NEW b \in Seq(Elements), NEW i \in 1..(Len(b) + 1)
    PROVE  /\ NoFrame(b, i) => i + 1 \in (i + 1)..(Len(b) + 1)
           /\ ~NoFrame(b, i) /\ ~Incomplete(b, i) =>
                 /\ FrameEnd(b, i) + 1 \in (i + 1)..(Len(b) + 1)
                 /\ Candidate(b, i) \in Headers /\ Intact(b, i, Candidate(b, i))
                 /\ Size(Candidate(b, i)) \in 4..MaxFrameSize
                 /\ FrameEnd(b, i) + 1 = i + Size(Candidate(b, i))
<1>1. Len(b) \in Nat /\ i \in Nat /\ i >= 1 /\ MaxFrameSize \in Nat
    BY FramingAssumption
<1>2. NoFrame(b, i) => i <= Len(b)
    BY DecoderSees
<1>3. ASSUME ~NoFrame(b, i), ~Incomplete(b, i)
      PROVE  /\ FrameEnd(b, i) + 1 \in (i + 1)..(Len(b) + 1)
             /\ Candidate(b, i) \in Headers /\ Intact(b, i, Candidate(b, i))
             /\ Size(Candidate(b, i)) \in 4..MaxFrameSize
             /\ FrameEnd(b, i) + 1 = i + Size(Candidate(b, i))
    <2>1. i + 3 <= Len(b)
        BY <1>1, <1>3 DEF Incomplete
    <2>2. b[i + 2].at = "fields" /\ Size(Candidate(b, i)) <= MaxFrameSize
        BY <1>3, <2>1, DecoderSees
    <2>3. /\ Candidate(b, i) \in Headers
          /\ FrameEnd(b, i) = i + Size(Candidate(b, i)) - 1 /\ FrameEnd(b, i) \in Nat
          /\ Size(Candidate(b, i)) \in Nat /\ Size(Candidate(b, i)) >= 4
        BY <2>1, <2>2, DecoderSees
    <2>4. FrameEnd(b, i) <= Len(b)
        BY <1>1, <1>3, <2>3 DEF Incomplete
    <2>5. Intact(b, i, Candidate(b, i))
        BY <1>3, <2>1, <2>4, DecoderSees
    <2> QED
        BY <1>1, <2>2, <2>3, <2>4, <2>5
<1> QED
    BY <1>1, <1>2, <1>3

\* What it makes of i depends on what lies behind only.
LEMMA LoopLocal ==
    ASSUME NEW b \in Seq(Elements), NEW i \in 1..(Len(b) + 1), NEW g, NEW h,
           \A k \in (i + 1)..(Len(b) + 1) : g[k] = h[k]
    PROVE  LoopStep(b, g, i) = LoopStep(b, h, i)
<1>1. CASE NoFrame(b, i)
    <2>1. g[i + 1] = h[i + 1]
        BY <1>1, LoopForward
    <2> QED
        BY <1>1, <2>1 DEF LoopStep
<1>2. CASE ~NoFrame(b, i) /\ ~Incomplete(b, i)
    <2>1. g[FrameEnd(b, i) + 1] = h[FrameEnd(b, i) + 1]
        BY <1>2, LoopForward
    <2> QED
        BY <1>2, <2>1 DEF LoopStep
<1>3. CASE ~NoFrame(b, i) /\ Incomplete(b, i)
    BY <1>3 DEF LoopStep
<1> QED
    BY <1>1, <1>2, <1>3

\* The recursion of parseLoop is well founded.
LEMMA LoopIs ==
    ASSUME NEW b \in Seq(Elements)
    PROVE  ParseLoop(b) = [i \in 1..(Len(b) + 1) |-> LoopStep(b, ParseLoop(b), i)]
<1> DEFINE N == Len(b) + 1
           Solves(h, i) == \A j \in i..N : h[j] = LoopStep(b, h, j)
           T == {i \in 1..N : \E h : Solves(h, i)}
<1>1. N \in Nat /\ N >= 1
    OBVIOUS
<1>2. ASSUME NEW i \in 1..N, \A j \in (i + 1)..N : j \in T
      PROVE  i \in T
    <2>1. \E h : Solves(h, i + 1)
        <3>1. CASE i = N
            <4>1. \A j \in (i + 1)..N : FALSE
                BY <1>1, <3>1
            <4> QED
                BY <4>1
        <3>2. CASE i # N
            <4>1. i + 1 \in (i + 1)..N
                BY <1>1, <3>2
            <4> QED
                BY <1>2, <4>1
        <3> QED
            BY <3>1, <3>2
    <2>2. PICK h : Solves(h, i + 1)
        BY <2>1
    <2> DEFINE g == [j \in 1..N |-> IF j = i THEN LoopStep(b, h, i) ELSE h[j]]
    <2>3. \A k \in (i + 1)..N : g[k] = h[k]
        BY <1>1
    <2>4. g[i] = LoopStep(b, h, i)
        BY <1>1
    <2> HIDE DEF g
    <2>5. ASSUME NEW j \in i..N PROVE g[j] = LoopStep(b, g, j)
        <3>0. j \in 1..(Len(b) + 1) /\ \A k \in (j + 1)..(Len(b) + 1) : g[k] = h[k]
            BY <1>1, <2>3
        <3>1. LoopStep(b, g, j) = LoopStep(b, h, j)
            BY <3>0, LoopLocal
        <3>2. CASE j = i
            BY <2>4, <3>1, <3>2
        <3>3. CASE j # i
            <4>1. j \in (i + 1)..N
                BY <1>1, <3>3
            <4>2. h[j] = LoopStep(b, h, j)
                BY <2>2, <4>1
            <4> QED
                BY <2>3, <3>1, <4>1, <4>2
        <3> QED
            BY <3>2, <3>3
    <2>6. Solves(g, i)
        BY <2>5
    <2> QED
        BY <2>6
<1>3. 1..N \subseteq T
    <2> HIDE DEF N, T
    <2> QED
        BY <1>1, <1>2, Downward
<1>4. \E h : Solves(h, 1)
    <2>1. 1 \in 1..N
        BY <1>1
    <2> QED
        BY <1>3, <2>1
<1>5. PICK h : Solves(h, 1)
    BY <1>4
<1> DEFINE g == [j \in 1..N |-> h[j]]
<1>6. g = [i \in 1..N |-> LoopStep(b, g, i)]
    <2>1. ASSUME NEW i \in 1..N PROVE g[i] = LoopStep(b, g, i)
        <3>1. \A k \in (i + 1)..N : g[k] = h[k]
            BY <1>1
        <3>2. LoopStep(b, g, i) = LoopStep(b, h, i)
            <4> HIDE DEF g
            <4> QED
                BY <3>1, LoopLocal
        <3>3. g[i] = h[i] /\ h[i] = LoopStep(b, h, i)
            BY <1>5
        <3> QED
            BY <3>2, <3>3
    <2> QED
        BY <2>1
<1>7. \E p : p = [i \in 1..N |-> LoopStep(b, p, i)]
    <2> HIDE DEF g
    <2> QED
        BY <1>6
<1>8. ParseLoop(b) = CHOOSE p : p = [i \in 1..N |-> LoopStep(b, p, i)]
    BY Zenon DEF ParseLoop, LoopStep
<1> QED
    <2> DEFINE P(p) == p = [i \in 1..N |-> LoopStep(b, p, i)]
    <2>1. (\E p : P(p)) => P(CHOOSE p : P(p))
        BY Zenon
    <2>2. P(CHOOSE p : P(p))
        BY <1>7, <2>1
    <2> QED
        BY <1>8, <2>2, Zenon

\* parseLoop, case by case.
LEMMA LoopCases ==
    ASSUME NEW b \in Seq(Elements), NEW i \in 1..(Len(b) + 1)
    PROVE  /\ NoFrame(b, i) => ParseLoop(b)[i] = ParseLoop(b)[i + 1]
           /\ ~NoFrame(b, i) /\ Incomplete(b, i) =>
                 ParseLoop(b)[i] = [found |-> <<>>, rest |-> Rest(b, i)]
           /\ ~NoFrame(b, i) /\ ~Incomplete(b, i) =>
                 ParseLoop(b)[i] =
                    [found |-> <<Candidate(b, i)>> \o ParseLoop(b)[FrameEnd(b, i) + 1].found,
                     rest |-> ParseLoop(b)[FrameEnd(b, i) + 1].rest]
<1> DEFINE P == ParseLoop(b)
<1>1. P = [j \in 1..(Len(b) + 1) |-> LoopStep(b, P, j)]
    BY LoopIs
<1> HIDE DEF P
<1>2. P[i] = LoopStep(b, P, i)
    BY <1>1
<1> QED
    BY <1>2 DEF LoopStep, P

\* What is left from i on.
LEMMA RestIs ==
    ASSUME NEW b \in Seq(Elements), NEW i \in 1..(Len(b) + 1)
    PROVE  /\ Rest(b, i) \in Seq(Elements) /\ Len(Rest(b, i)) = Len(b) - i + 1
           /\ Len(b) - i + 1 \in Nat /\ Len(b) \in Nat
           /\ \A k \in 1..(Len(b) - i + 1) : Rest(b, i)[k] = b[i + k - 1]
<1>1. Len(b) \in (i - 1)..Len(b) /\ Len(b) - i + 1 \in Nat /\ Len(b) \in Nat
    <2>1. Len(b) \in Nat
        OBVIOUS
    <2> QED
        BY <2>1
<1> QED
    BY <1>1, Part DEF Rest

\* What parseLoop makes of a sequence: frames and a part of the sequence.
LEMMA ParseType ==
    ASSUME NEW b \in Seq(Elements), NEW i \in 1..(Len(b) + 1)
    PROVE  ParseLoop(b)[i] \in [found : Seq(Headers), rest : Seq(Elements)]
<1> DEFINE N == Len(b) + 1
           P == ParseLoop(b)
           T == {j \in 1..N : P[j] \in [found : Seq(Headers), rest : Seq(Elements)]}
<1>1. N \in Nat /\ N >= 1 /\ Len(b) \in Nat
    OBVIOUS
<1>2. ASSUME NEW j \in 1..N, \A k \in (j + 1)..N : k \in T
      PROVE  j \in T
    <2>1. CASE NoFrame(b, j)
        <3>1. P[j] = P[j + 1] /\ j + 1 \in T
            BY <1>2, <2>1, LoopCases, LoopForward
        <3> QED
            BY <3>1
    <2>2. CASE ~NoFrame(b, j) /\ Incomplete(b, j)
        <3>1. P[j] = [found |-> <<>>, rest |-> Rest(b, j)]
            BY <2>2, LoopCases
        <3>3. Rest(b, j) \in Seq(Elements)
            BY RestIs
        <3>4. <<>> \in Seq(Headers)
            OBVIOUS
        <3> HIDE DEF P
        <3>5. P[j] \in [found : Seq(Headers), rest : Seq(Elements)]
            BY <3>1, <3>3, <3>4
        <3> QED
            BY <3>5
    <2>3. CASE ~NoFrame(b, j) /\ ~Incomplete(b, j)
        <3> DEFINE k == FrameEnd(b, j) + 1
        <3>1. k \in (j + 1)..N /\ Candidate(b, j) \in Headers
            BY <2>3, LoopForward
        <3>2. P[j] = [found |-> <<Candidate(b, j)>> \o P[k].found, rest |-> P[k].rest]
            BY <2>3, LoopCases
        <3>3. P[k] \in [found : Seq(Headers), rest : Seq(Elements)]
            BY <1>2, <3>1
        <3> HIDE DEF P, k
        <3>4. <<Candidate(b, j)>> \in Seq(Headers) /\ P[k].found \in Seq(Headers)
            BY <3>1, <3>3
        <3>5. <<Candidate(b, j)>> \o P[k].found \in Seq(Headers)
            BY <3>4
        <3>6. P[j] \in [found : Seq(Headers), rest : Seq(Elements)]
            BY <3>2, <3>3, <3>5
        <3> QED
            BY <3>6
    <2> QED
        BY <2>1, <2>2, <2>3
<1>3. 1..N \subseteq T
    <2> HIDE DEF N, T
    <2> QED
        BY <1>1, <1>2, Downward
<1> QED
    BY <1>3

\* Where a decoder stands does not matter, only what is in front of it.
LEMMA ParseShift ==
    ASSUME NEW d \in Seq(Elements), NEW i \in 1..(Len(d) + 1)
    PROVE  ParseLoop(d)[i] = Parse(Rest(d, i))
<1> DEFINE e == Rest(d, i)
           c == i - 1
           N == Len(e) + 1
           P == ParseLoop(d)
           Q == ParseLoop(e)
           T == {j \in 1..N : P[c + j] = Q[j]}
<1>1. Len(d) \in Nat /\ i \in Nat /\ i >= 1 /\ c \in Nat
    OBVIOUS
<1>2. /\ e \in Seq(Elements) /\ Len(e) = Len(d) - i + 1
      /\ Len(d) - i + 1 \in Nat
      /\ \A k \in 1..(Len(d) - i + 1) : e[k] = d[i + k - 1]
    BY RestIs
<1> HIDE DEF e
<1>3. N \in Nat /\ N >= 1 /\ Len(e) \in Nat /\ c + Len(e) = Len(d)
    BY <1>1, <1>2
<1>4. \A k \in 1..Len(e) : e[k] = d[c + k]
    <2>1. \A k \in 1..Len(e) : i + k - 1 = c + k
        BY <1>1
    <2> QED
        BY <1>1, <1>2, <2>1
<1>5. ASSUME NEW j \in 1..N, \A k \in (j + 1)..N : k \in T
      PROVE  j \in T
    <2>1. /\ \A k \in j..Len(e) : e[k] = d[c + k]
          /\ c + j \in 1..(Len(d) + 1) /\ j \in 1..(Len(e) + 1) /\ c + Len(e) <= Len(d)
        BY <1>1, <1>3, <1>4
    <2>2. /\ NoFrame(e, j) <=> NoFrame(d, c + j)
          /\ ~NoFrame(e, j) => (Incomplete(e, j) <=> Incomplete(d, c + j))
        <3> HIDE DEF c
        <3> QED
            BY <1>1, <1>2, <1>3, <2>1, Window
    <2>3. CASE NoFrame(e, j)
        <3>1. j + 1 \in (j + 1)..N /\ Q[j] = Q[j + 1]
            BY <1>2, <2>1, <2>3, LoopCases, LoopForward
        <3>2. P[c + j] = P[c + j + 1]
            BY <2>1, <2>2, <2>3, LoopCases
        <3>3. c + (j + 1) = c + j + 1 /\ j + 1 \in T
            BY <1>1, <1>5, <3>1
        <3> HIDE DEF P, Q, c
        <3>4. P[c + (j + 1)] = Q[j + 1]
            BY <3>3
        <3> QED
            BY <3>1, <3>2, <3>3, <3>4
    <2>4. CASE ~NoFrame(e, j) /\ Incomplete(e, j)
        <3>1. Q[j] = [found |-> <<>>, rest |-> Rest(e, j)]
            BY <1>2, <2>1, <2>4, LoopCases
        <3>2. P[c + j] = [found |-> <<>>, rest |-> Rest(d, c + j)]
            BY <2>1, <2>2, <2>4, LoopCases
        <3>3. Len(e) \in (j - 1)..Len(e) /\ Len(d) \in (c + j - 1)..Len(d)
              /\ Len(e) - j + 1 = Len(d) - (c + j) + 1
            BY <1>1, <1>3
        <3> DEFINE L == Len(e) - j + 1
        <3>4. /\ Rest(e, j) \in Seq(Elements) /\ Len(Rest(e, j)) = L
              /\ \A k \in 1..L : Rest(e, j)[k] = e[j + k - 1]
            <4> HIDE DEF c
            <4> QED
                BY <1>2, <2>1, RestIs
        <3>5. /\ Rest(d, c + j) \in Seq(Elements) /\ Len(Rest(d, c + j)) = L
              /\ \A k \in 1..L : Rest(d, c + j)[k] = d[c + j + k - 1]
            <4> HIDE DEF c
            <4>1. /\ Rest(d, c + j) \in Seq(Elements)
                  /\ Len(Rest(d, c + j)) = Len(d) - (c + j) + 1
                  /\ \A k \in 1..(Len(d) - (c + j) + 1) : Rest(d, c + j)[k] = d[c + j + k - 1]
                BY <2>1, RestIs
            <4> QED
                BY <3>3, <4>1
        <3>6. ASSUME NEW k \in 1..L PROVE Rest(e, j)[k] = Rest(d, c + j)[k]
            <4>1. j + k - 1 \in 1..Len(e) /\ c + (j + k - 1) = c + j + k - 1
                BY <1>1, <1>3
            <4> HIDE DEF c
            <4> QED
                BY <1>4, <3>4, <3>5, <4>1
        <3>7. Rest(e, j) = Rest(d, c + j)
            <4> HIDE DEF c, L
            <4> QED
                BY <3>4, <3>5, <3>6, SeqEqual
        <3> QED
            BY <3>1, <3>2, <3>7
    <2>5. CASE ~NoFrame(e, j) /\ ~Incomplete(e, j)
        <3> DEFINE k == FrameEnd(e, j) + 1
        <3>1. k \in (j + 1)..N /\ j + 3 <= Len(e)
            <4>1. k \in (j + 1)..N
                BY <1>2, <2>1, <2>5, LoopForward
            <4>2. j + 3 <= Len(e)
                BY <1>3, <2>5 DEF Incomplete
            <4> QED
                BY <4>1, <4>2
        <3>2. e[j + 2].at = "fields"
            BY <1>2, <2>1, <2>5, <3>1, DecoderSees
        <3>3. Candidate(d, c + j) = Candidate(e, j) /\ FrameEnd(d, c + j) = c + FrameEnd(e, j)
            <4> HIDE DEF c
            <4> QED
                BY <1>1, <1>2, <2>1, <3>1, <3>2, Window, ZenonT(30)
        <3>4. Q[j] = [found |-> <<Candidate(e, j)>> \o Q[k].found, rest |-> Q[k].rest]
            BY <1>2, <2>1, <2>5, LoopCases
        <3>5. P[c + j] = [found |-> <<Candidate(d, c + j)>> \o P[FrameEnd(d, c + j) + 1].found,
                          rest |-> P[FrameEnd(d, c + j) + 1].rest]
            BY <2>1, <2>2, <2>5, LoopCases
        <3>6. FrameEnd(d, c + j) + 1 = c + k
            <4>1. FrameEnd(e, j) \in Nat
                BY <1>2, <2>1, <3>1, <3>2, DecoderSees
            <4> QED
                BY <1>1, <3>3, <4>1
        <3>7. P[c + k] = Q[k]
            BY <1>5, <3>1
        <3> HIDE DEF P, Q, c, k
        <3> QED
            BY <3>3, <3>4, <3>5, <3>6, <3>7
    <2> QED
        BY <2>3, <2>4, <2>5
<1>6. 1..N \subseteq T
    <2> HIDE DEF N, T
    <2> QED
        BY <1>3, <1>5, Downward
<1>7. P[c + 1] = Q[1]
    BY <1>3, <1>6
<1>8. c + 1 = i
    BY <1>1
<1> HIDE DEF P, Q, c
<1> QED
    BY <1>7, <1>8 DEF P, Q, Parse, e

\* One piece after the other gives what both give at once.
LEMMA ParseSplit ==
    ASSUME NEW b \in Seq(Elements), NEW t \in Seq(Elements)
    PROVE  LET p == Parse(b)
               q == Parse(p.rest \o t)
           IN Parse(b \o t) = [found |-> p.found \o q.found, rest |-> q.rest]
<1> DEFINE d == b \o t
           N == Len(b) + 1
           P == ParseLoop(b)
           D == ParseLoop(d)
           Both(p) == [found |-> p.found \o Parse(p.rest \o t).found,
                       rest |-> Parse(p.rest \o t).rest]
           T == {i \in 1..N : D[i] = Both(P[i])}
<1>1. /\ Len(b) \in Nat /\ N \in Nat /\ N >= 1 /\ Len(t) \in Nat
      /\ d \in Seq(Elements) /\ Len(d) = Len(b) + Len(t)
      /\ \A k \in 1..Len(b) : d[k] = b[k]
      /\ \A k \in 1..Len(t) : d[Len(b) + k] = t[k]
    BY Joined
<1> HIDE DEF d
<1>2. ASSUME NEW i \in 1..N, \A k \in (i + 1)..N : k \in T
      PROVE  i \in T
    <2>1. /\ i \in 1..(Len(b) + 1) /\ i \in 1..(Len(d) + 1)
          /\ 0 + Len(b) <= Len(d) /\ 0 + i = i /\ 0 \in Nat
          /\ \A k \in i..Len(b) : b[k] = d[0 + k]
        <3>1. \A k \in i..Len(b) : k \in 1..Len(b) /\ 0 + k = k
            BY <1>1
        <3> QED
            BY <1>1, <3>1
    <2>2. /\ NoFrame(b, i) => NoFrame(d, i)
          /\ ~NoFrame(b, i) /\ ~Incomplete(b, i) => ~NoFrame(d, i) /\ ~Incomplete(d, i)
        <3>1. /\ NoFrame(b, i) => NoFrame(d, 0 + i)
              /\ ~NoFrame(b, i) /\ ~Incomplete(b, i) =>
                    ~NoFrame(d, 0 + i) /\ ~Incomplete(d, 0 + i)
            BY <1>1, <2>1, Window
        <3> QED
            BY <2>1, <3>1
    <2>3. CASE NoFrame(b, i)
        <3>1. P[i] = P[i + 1] /\ D[i] = D[i + 1] /\ i + 1 \in T
            BY <1>1, <1>2, <2>1, <2>2, <2>3, LoopCases, LoopForward
        <3> HIDE DEF P, D
        <3> QED
            BY <3>1
    <2>4. CASE ~NoFrame(b, i) /\ Incomplete(b, i)
        <3>1. P[i] = [found |-> <<>>, rest |-> Rest(b, i)]
            BY <2>1, <2>4, LoopCases
        <3>2. D[i] = Parse(Rest(d, i))
            BY <1>1, <2>1, ParseShift
        <3> DEFINE L == Len(b) - i + 1
        <3>3. /\ Rest(b, i) \in Seq(Elements) /\ Len(Rest(b, i)) = L
              /\ \A k \in 1..L : Rest(b, i)[k] = b[i + k - 1]
            BY <2>1, RestIs
        <3>4. /\ Rest(d, i) \in Seq(Elements) /\ Len(Rest(d, i)) = L + Len(t)
              /\ \A k \in 1..(L + Len(t)) : Rest(d, i)[k] = d[i + k - 1]
            <4>1. Len(d) - i + 1 = L + Len(t)
                BY <1>1
            <4>2. /\ Rest(d, i) \in Seq(Elements) /\ Len(Rest(d, i)) = Len(d) - i + 1
                  /\ \A k \in 1..(Len(d) - i + 1) : Rest(d, i)[k] = d[i + k - 1]
                BY <1>1, <2>1, RestIs
            <4> QED
                BY <4>1, <4>2
        <3>5. L \in Nat
            BY <1>1
        <3> DEFINE j == Rest(b, i) \o t
        <3>6. /\ j \in Seq(Elements) /\ Len(j) = L + Len(t)
              /\ \A k \in 1..L : j[k] = Rest(b, i)[k]
              /\ \A k \in (L + 1)..(L + Len(t)) : j[k] = t[k - L]
            <4>0. /\ j \in Seq(Elements) /\ Len(j) = Len(Rest(b, i)) + Len(t)
                  /\ \A k \in 1..Len(Rest(b, i)) : j[k] = Rest(b, i)[k]
                  /\ \A k \in (Len(Rest(b, i)) + 1)..(Len(Rest(b, i)) + Len(t)) :
                        j[k] = t[k - Len(Rest(b, i))]
                BY <3>3, Joined, ZenonT(30)
            <4> HIDE DEF j, L
            <4> QED
                BY <3>3, <4>0
        <3> HIDE DEF j
        <3>7. ASSUME NEW k \in 1..(L + Len(t)) PROVE j[k] = Rest(d, i)[k]
            <4>1. CASE k \in 1..L
                <5>1. i + k - 1 \in 1..Len(b)
                    BY <1>1, <4>1
                <5> QED
                    BY <1>1, <3>3, <3>4, <3>6, <4>1, <5>1
            <4>2. CASE k \in (L + 1)..(L + Len(t))
                <5>1. k - L \in 1..Len(t) /\ Len(b) + (k - L) = i + k - 1
                    BY <1>1, <4>2
                <5>2. d[i + k - 1] = t[k - L]
                    BY <1>1, <5>1
                <5> HIDE DEF L
                <5> QED
                    BY <3>4, <3>6, <4>2, <5>2
            <4> QED
                BY <1>1, <3>5, <4>1, <4>2
        <3>8. j = Rest(d, i)
            <4> HIDE DEF L
            <4> QED
                BY <3>4, <3>6, <3>7, SeqEqual
        <3>9. Parse(j) \in [found : Seq(Headers), rest : Seq(Elements)]
            <4>1. 1 \in 1..(Len(j) + 1)
                BY <1>1, <3>5, <3>6
            <4> QED
                BY <3>6, <4>1, ParseType DEF Parse
        <3>10. <<>> \o Parse(j).found = Parse(j).found
            BY <3>9
        <3>11. Parse(j) = [found |-> <<>> \o Parse(j).found, rest |-> Parse(j).rest]
            BY <3>9, <3>10
        <3>12. Both(P[i]) = [found |-> <<>> \o Parse(j).found, rest |-> Parse(j).rest]
            <4> HIDE DEF P
            <4> QED
                BY <3>1 DEF j
        <3>13. D[i] = Both(P[i])
            <4> HIDE DEF P, D
            <4> QED
                BY <3>2, <3>8, <3>11, <3>12
        <3> QED
            BY <3>13
    <2>5. CASE ~NoFrame(b, i) /\ ~Incomplete(b, i)
        <3> DEFINE f == Candidate(b, i)
                   k == FrameEnd(b, i) + 1
        <3>1. k \in (i + 1)..N /\ f \in Headers
            BY <2>1, <2>5, LoopForward
        <3>2. i + 3 <= Len(b) /\ b[i + 2].at = "fields"
            <4>1. i + 3 <= Len(b)
                BY <1>1, <2>5 DEF Incomplete
            <4> QED
                BY <2>1, <2>5, <4>1, DecoderSees
        <3>3. Candidate(d, i) = f /\ FrameEnd(d, i) = FrameEnd(b, i)
            <4>1. b[i + 2] = d[i + 2]
                BY <1>1, <2>1, <3>2
            <4> QED
                BY <4>1 DEF Candidate, FrameEnd
        <3>4. P[i] = [found |-> <<f>> \o P[k].found, rest |-> P[k].rest]
            BY <2>1, <2>5, LoopCases
        <3>5. D[i] = [found |-> <<f>> \o D[k].found, rest |-> D[k].rest]
            <4>1. ~NoFrame(d, i) /\ ~Incomplete(d, i)
                BY <2>2, <2>5
            <4>2. D[i] = [found |-> <<Candidate(d, i)>> \o D[FrameEnd(d, i) + 1].found,
                          rest |-> D[FrameEnd(d, i) + 1].rest]
                BY <1>1, <2>1, <4>1, LoopCases
            <4>3. Candidate(d, i) = f /\ FrameEnd(d, i) + 1 = k
                BY <3>3
            <4> HIDE DEF D, f, k
            <4> QED
                BY <4>2, <4>3
        <3>6. D[k] = Both(P[k])
            BY <1>2, <3>1
        <3>7. P[k] \in [found : Seq(Headers), rest : Seq(Elements)]
            <4>1. k \in 1..(Len(b) + 1)
                BY <1>1, <3>1
            <4> QED
                BY <4>1, ParseType
        <3>8. Parse(P[k].rest \o t) \in [found : Seq(Headers), rest : Seq(Elements)]
            <4> DEFINE u == P[k].rest \o t
            <4>1. u \in Seq(Elements)
                <5> HIDE DEF P, k
                <5>1. P[k].rest \in Seq(Elements)
                    BY <3>7
                <5> QED
                    BY <5>1
            <4> HIDE DEF u
            <4>2. 1 \in 1..(Len(u) + 1)
                BY <4>1
            <4> QED
                BY <4>1, <4>2, ParseType DEF Parse, u
        <3> HIDE DEF P, D, k, f
        <3> DEFINE x == P[k].found
                   q == Parse(P[k].rest \o t)
        <3>9. <<f>> \o (x \o q.found) = (<<f>> \o x) \o q.found
            <4>1. x \in Seq(Headers) /\ q.found \in Seq(Headers) /\ <<f>> \in Seq(Headers)
                BY <3>1, <3>7, <3>8
            <4>2. \A u, v, w \in Seq(Headers) : (u \o v) \o w = u \o (v \o w)
                BY ConcatAssociative, SMTT(30)
            <4> HIDE DEF x, q
            <4> QED
                BY <4>1, <4>2, Zenon
        <3>10. D[i] = [found |-> <<f>> \o (x \o q.found), rest |-> q.rest]
            BY <3>5, <3>6
        <3>11. Both(P[i]) = [found |-> (<<f>> \o x) \o q.found, rest |-> q.rest]
            BY <3>4
        <3> QED
            BY <3>9, <3>10, <3>11
    <2> QED
        BY <2>3, <2>4, <2>5
<1>3. 1..N \subseteq T
    <2> HIDE DEF N, T
    <2> QED
        BY <1>1, <1>2, Downward
<1>4. D[1] = Both(P[1])
    <2>1. 1 \in 1..N
        BY <1>1
    <2>2. 1 \in T
        BY <1>3, <2>1
    <2> HIDE DEF P, D
    <2> QED
        BY <2>2
<1> HIDE DEF P, D
<1> QED
    BY <1>4 DEF Parse, d, P, D

\* The frames of a piece are given to the reassembler one after the other.
LEMMA OnFramesIs ==
    ASSUME NEW s, NEW found \in Seq(Headers)
    PROVE  /\ OnFrames(s, found)[0] = s
           /\ \A k \in 1..Len(found) :
                 OnFrames(s, found)[k] = OnFrame(OnFrames(s, found)[k - 1], found[k])
<1> DEFINE n == Len(found)
           Step(h, k) == IF k = 0 THEN s ELSE OnFrame(h[k - 1], found[k])
           Solves(h, k) == \A j \in 0..k : h[j] = Step(h, j)
           T == {k \in 0..n : \E h : Solves(h, k)}
<1>1. n \in Nat
    OBVIOUS
<1>2. 0 \in T
    <2>1. Solves([j \in {0} |-> s], 0)
        OBVIOUS
    <2> HIDE DEF Solves
    <2> QED
        BY <1>1, <2>1
<1>3. ASSUME NEW k \in 1..n, k - 1 \in T PROVE k \in T
    <2>1. PICK h : Solves(h, k - 1)
        BY <1>3
    <2> DEFINE g == [j \in 0..n |-> IF j = k THEN OnFrame(h[k - 1], found[k]) ELSE h[j]]
    <2>2. \A j \in 0..(k - 1) : g[j] = h[j]
        BY <1>1
    <2>3. g[k] = OnFrame(h[k - 1], found[k])
        BY <1>1
    <2> HIDE DEF g
    <2>4. ASSUME NEW j \in 0..k PROVE g[j] = Step(g, j)
        <3>1. CASE j = k
            <4>1. k - 1 \in 0..(k - 1) /\ k # 0
                BY <1>1
            <4> QED
                BY <2>2, <2>3, <3>1, <4>1
        <3>2. CASE j # k
            <4>1. j \in 0..(k - 1) /\ (j # 0 => j - 1 \in 0..(k - 1))
                BY <1>1, <3>2
            <4>2. h[j] = Step(h, j)
                BY <2>1, <4>1
            <4> QED
                BY <2>2, <4>1, <4>2
        <3> QED
            BY <3>1, <3>2
    <2>5. Solves(g, k)
        BY <2>4
    <2>6. k \in 0..n
        BY <1>1
    <2> HIDE DEF Solves
    <2> QED
        BY <2>5, <2>6
<1>4. 0..n \subseteq T
    <2> HIDE DEF n, T
    <2> QED
        BY <1>1, <1>2, <1>3, Upward
<1>5. \E h : Solves(h, n)
    <2>1. n \in 0..n
        BY <1>1
    <2> HIDE DEF Solves
    <2> QED
        BY <1>4, <2>1
<1>6. PICK h : Solves(h, n)
    BY <1>5
<1> DEFINE g == [k \in 0..n |-> h[k]]
<1>7. g = [k \in 0..n |-> Step(g, k)]
    <2>1. ASSUME NEW k \in 0..n PROVE g[k] = Step(g, k)
        <3>1. k # 0 => k - 1 \in 0..n
            BY <1>1
        <3> QED
            BY <1>6, <3>1
    <2> QED
        BY <2>1
<1>8. \E p : p = [k \in 0..n |-> Step(p, k)]
    <2> HIDE DEF g
    <2> QED
        BY <1>7
<1> DEFINE A == OnFrames(s, found)
<1>9. A = [k \in 0..n |-> Step(A, k)]
    <2>1. A = CHOOSE p : p = [k \in 0..n |-> Step(p, k)]
        BY Zenon DEF OnFrames
    <2> DEFINE P(p) == p = [k \in 0..n |-> Step(p, k)]
    <2>2. (\E p : P(p)) => P(CHOOSE p : P(p))
        BY Zenon
    <2>3. P(CHOOSE p : P(p))
        BY <1>8, <2>2
    <2> QED
        BY <2>1, <2>3, Zenon
<1> HIDE DEF A
<1>10. A[0] = s
    <2>1. 0 \in 0..n
        BY <1>1
    <2> QED
        BY <1>9, <2>1
<1>11. ASSUME NEW k \in 1..n PROVE A[k] = OnFrame(A[k - 1], found[k])
    <2>1. k \in 0..n /\ k # 0
        BY <1>1
    <2>2. A[k] = Step(A, k)
        BY <1>9, <2>1
    <2> QED
        BY <2>1, <2>2
<1> QED
    BY <1>10, <1>11 DEF A

\* The state of the reassembler after all of them.
Fed(s, found) == OnFrames(s, found)[Len(found)]

\* None changes nothing; the first one, then the others.
LEMMA FedIs ==
    ASSUME NEW s
    PROVE  /\ Fed(s, <<>>) = s
           /\ \A f \in Headers, q \in Seq(Headers) :
                 Fed(s, <<f>> \o q) = Fed(OnFrame(s, f), q)
<1>1. Fed(s, <<>>) = s
    <2>1. <<>> \in Seq(Headers) /\ Len(<<>>) = 0
        OBVIOUS
    <2> QED
        BY <2>1, OnFramesIs DEF Fed
<1>2. ASSUME NEW f \in Headers, NEW q \in Seq(Headers)
      PROVE  Fed(s, <<f>> \o q) = Fed(OnFrame(s, f), q)
    <2> DEFINE u == <<f>> \o q
               t == OnFrame(s, f)
               A == OnFrames(s, u)
               B == OnFrames(t, q)
               T == {k \in 0..Len(q) : A[1 + k] = B[k]}
    <2>1. /\ u \in Seq(Headers) /\ Len(u) = 1 + Len(q) /\ Len(q) \in Nat
          /\ u[1] = f /\ \A k \in 1..Len(q) : u[1 + k] = q[k]
        <3>1. <<f>> \in Seq(Headers) /\ Len(<<f>>) = 1 /\ <<f>>[1] = f
            OBVIOUS
        <3> DEFINE e == <<f>>
        <3> HIDE DEF e
        <3>2. /\ e \o q \in Seq(Headers) /\ Len(e \o q) = Len(e) + Len(q)
              /\ \A k \in 1..Len(e) : (e \o q)[k] = e[k]
              /\ \A k \in 1..Len(q) : (e \o q)[Len(e) + k] = q[k]
            BY <3>1, Joined DEF e
        <3>3. Len(e) = 1 /\ e[1] = f /\ 1 \in 1..1 /\ Len(q) \in Nat
            BY <3>1 DEF e
        <3>4. e \o q = u
            BY DEF e
        <3> HIDE DEF u
        <3> QED
            BY <3>2, <3>3, <3>4
    <2> HIDE DEF u, t
    <2>2. /\ A[0] = s /\ \A k \in 1..(1 + Len(q)) : A[k] = OnFrame(A[k - 1], u[k])
        <3>1. /\ A[0] = s /\ \A k \in 1..Len(u) : A[k] = OnFrame(A[k - 1], u[k])
            BY <2>1, OnFramesIs
        <3> HIDE DEF A
        <3> QED
            BY <2>1, <3>1
    <2>3. B[0] = t /\ \A k \in 1..Len(q) : B[k] = OnFrame(B[k - 1], q[k])
        BY OnFramesIs
    <2> HIDE DEF A, B
    <2>4. 0 \in T
        <3>1. 1 \in 1..(1 + Len(q)) /\ 1 - 1 = 0 /\ 1 + 0 = 1 /\ 0 \in 0..Len(q)
            BY <2>1
        <3>2. A[1] = OnFrame(A[0], u[1])
            BY <2>2, <3>1
        <3> QED
            BY <2>1, <2>2, <2>3, <3>1, <3>2 DEF t
    <2>5. ASSUME NEW k \in 1..Len(q), k - 1 \in T PROVE k \in T
        <3>1. 1 + k \in 1..(1 + Len(q)) /\ (1 + k) - 1 = 1 + (k - 1) /\ k \in 0..Len(q)
            BY <2>1
        <3>2. A[1 + k] = OnFrame(A[(1 + k) - 1], u[1 + k])
            BY <2>2, <3>1
        <3>3. A[1 + (k - 1)] = B[k - 1]
            BY <2>5
        <3> QED
            BY <2>1, <2>3, <3>1, <3>2, <3>3
    <2>6. 0..Len(q) \subseteq T
        <3> HIDE DEF T
        <3> QED
            BY <2>1, <2>4, <2>5, Upward
    <2>7. A[1 + Len(q)] = B[Len(q)]
        BY <2>1, <2>6
    <2> QED
        BY <2>1, <2>7 DEF Fed, A, B, u, t
<1> QED
    BY <1>1, <1>2

\* flat[k] is the first k of n sequences, one after the other.
Chain(S, seqs, flat, n) ==
    /\ seqs \in [1..n -> Seq(S)] /\ flat \in [0..n -> Seq(S)] /\ flat[0] = <<>>
    /\ \A k \in 1..n : flat[k] = flat[k - 1] \o seqs[k]

\* The frames of one message, one after the other.
Chained(S, seqs, n) ==
    \E flat : Chain(S, seqs, flat, n) /\ flat[n] = FlattenSeq(seqs)

\* FlattenSeq puts them one after the other.
LEMMA Flattened ==
    ASSUME NEW S, NEW seqs, NEW n \in Nat \ {0}, seqs \in [1..n -> Seq(S)]
    PROVE  Chained(S, seqs, n)
<1> DEFINE Step(h, k) == IF k = 1 THEN seqs[k] ELSE h[k - 1] \o seqs[k]
           Solves(h, k) == \A j \in 1..k : h[j] = Step(h, j)
           T == {k \in 0..n : \E h : Solves(h, k)}
<1>1. n \in Nat /\ n >= 1
    OBVIOUS
<1>0. seqs \in Seq(Seq(S)) /\ Len(seqs) = n
    BY SeqDef
<1>2. 0 \in T
    <2>1. Solves(seqs, 0)
        OBVIOUS
    <2> HIDE DEF Solves
    <2> QED
        BY <1>1, <2>1
<1>3. ASSUME NEW k \in 1..n, k - 1 \in T PROVE k \in T
    <2>1. PICK h : Solves(h, k - 1)
        BY <1>3
    <2> DEFINE g == [j \in 1..n |-> IF j = k THEN Step(h, k) ELSE h[j]]
    <2>2. \A j \in 1..(k - 1) : g[j] = h[j]
        BY <1>1
    <2>3. g[k] = Step(h, k)
        BY <1>1
    <2> HIDE DEF g
    <2>4. ASSUME NEW j \in 1..k PROVE g[j] = Step(g, j)
        <3>1. CASE j = k
            <4>1. k # 1 => k - 1 \in 1..(k - 1)
                BY <1>1
            <4> QED
                BY <2>2, <2>3, <3>1, <4>1
        <3>2. CASE j # k
            <4>1. j \in 1..(k - 1) /\ (j # 1 => j - 1 \in 1..(k - 1))
                BY <1>1, <3>2
            <4>2. h[j] = Step(h, j)
                BY <2>1, <4>1
            <4> QED
                BY <2>2, <4>1, <4>2
        <3> QED
            BY <3>1, <3>2
    <2>5. Solves(g, k)
        BY <2>4
    <2>6. k \in 0..n
        BY <1>1
    <2> HIDE DEF Solves
    <2> QED
        BY <2>5, <2>6
<1>4. 0..n \subseteq T
    <2> HIDE DEF T
    <2> QED
        BY <1>1, <1>2, <1>3, Upward
<1>5. \E h : Solves(h, n)
    <2>1. n \in 0..n
        BY <1>1
    <2> HIDE DEF Solves
    <2> QED
        BY <1>4, <2>1
<1>6. PICK h : Solves(h, n)
    BY <1>5
<1> DEFINE g == [k \in 1..n |-> h[k]]
<1>7. g = [k \in 1..n |-> Step(g, k)]
    <2>1. ASSUME NEW k \in 1..n PROVE g[k] = Step(g, k)
        <3>1. k # 1 => k - 1 \in 1..n
            BY <1>1
        <3> QED
            BY <1>6, <3>1
    <2> QED
        BY <2>1
<1>8. \E p : p = [k \in 1..n |-> Step(p, k)]
    <2> HIDE DEF g
    <2> QED
        BY <1>7
<1> DEFINE A == CHOOSE p : p = [k \in 1..n |-> Step(p, k)]
<1>9. A = [k \in 1..n |-> Step(A, k)]
    <2> DEFINE P(p) == p = [k \in 1..n |-> Step(p, k)]
    <2>2. (\E p : P(p)) => P(CHOOSE p : P(p))
        BY Zenon
    <2>3. P(CHOOSE p : P(p))
        BY <1>8, <2>2
    <2> QED
        BY <2>3, Zenon
<1>10. FlattenSeq(seqs) = A[n]
    <2>1. Len(seqs) # 0
        BY <1>0, <1>1
    <2> QED
        BY <1>0, <2>1, Zenon DEF FlattenSeq
<1> HIDE DEF A
<1> DEFINE flat == [k \in 0..n |-> IF k = 0 THEN <<>> ELSE A[k]]
<1>11. /\ flat[0] = <<>> /\ flat[n] = A[n]
       /\ \A k \in 1..n : flat[k] = A[k]
    BY <1>1
<1>12. ASSUME NEW k \in 1..n PROVE flat[k] = flat[k - 1] \o seqs[k]
    <2>0. A[k] = Step(A, k)
        BY <1>9
    <2>1. CASE k = 1
        <3>1. <<>> \o seqs[1] = seqs[1]
            BY <1>1
        <3>2. A[1] = seqs[1] /\ 1 - 1 = 0
            BY <2>0, <2>1
        <3> HIDE DEF flat
        <3> QED
            BY <1>11, <2>1, <3>1, <3>2
    <2>2. CASE k # 1
        <3>1. k - 1 \in 1..n
            BY <1>1, <2>2
        <3> HIDE DEF flat
        <3> QED
            BY <1>11, <2>0, <2>2, <3>1
    <2> QED
        BY <2>1, <2>2
<1> DEFINE U == {k \in 0..n : flat[k] \in Seq(S)}
<1>13. 0..n \subseteq U
    <2>1. 0 \in U
        BY <1>1
    <2>2. ASSUME NEW k \in 1..n, k - 1 \in U PROVE k \in U
        <3> HIDE DEF flat
        <3>1. flat[k - 1] \in Seq(S) /\ seqs[k] \in Seq(S) /\ k \in 0..n
            BY <1>1, <2>2
        <3>2. flat[k - 1] \o seqs[k] \in Seq(S)
            BY <3>1
        <3> QED
            BY <1>12, <3>1, <3>2
    <2> HIDE DEF U
    <2> QED
        BY <1>1, <2>1, <2>2, Upward
<1>14. flat \in [0..n -> Seq(S)]
    <2>1. \A k \in 0..n : flat[k] \in Seq(S)
        <3> HIDE DEF flat
        <3> QED
            BY <1>13
    <2> QED
        BY <2>1
<1> HIDE DEF flat
<1>15. Chain(S, seqs, flat, n)
    BY <1>11, <1>12, <1>14 DEF Chain
<1>16. flat[n] = FlattenSeq(seqs)
    BY <1>10, <1>11
<1> QED
    BY <1>15, <1>16, Zenon DEF Chained

\* L tells how a stream was made: the messages sent, their frames, where each
\* frame ends, and the stream itself, with the damage it took.

\* A frame of a message sent.
Made(sn, f) ==
    /\ f \in Headers /\ f.msg \in DOMAIN sn /\ f.id \in MessageIds
    /\ f.count = sn[f.msg] /\ f.index \in 0..(f.count - 1) /\ f.len \in {0, 1, 4}

\* What damage makes of element o.
Damaged(o, y) ==
    \/ y = Noise
    \/ /\ o.at = "fields"
       /\ \E len \in Nat : len > o.frame.len /\ y = Fields([o.frame EXCEPT !.len = len])

\* Header q is header o, with a greater length.
Longer(q, o) ==
    q \in Headers /\ q.msg = o.msg /\ q.id = o.id /\ q.index = o.index /\ q.len > o.len

\* A greater length is all that is changed.
LEMMA LongerIs ==
    ASSUME NEW o \in Headers, NEW len \in Nat, len > o.len
    PROVE  Longer([o EXCEPT !.len = len], o)
BY DEF Longer, Headers

\* The frames by number.
Count(L) == 1..Len(L.frames)

\* The story is told right: every frame is of a message, takes the elements from
\* cut[k - 1] on, as they were sent or damaged, messages and their parts in order.
Laid(L) ==
    /\ L.sent \in Seq(FrameCounts) /\ L.frames \in Seq(Headers)
    /\ L.stream \in Seq(Elements)
    /\ L.cut \in [0..Len(L.frames) -> Nat]
    /\ L.cut[0] = 0 /\ L.cut[Len(L.frames)] = Len(L.stream)
    /\ \A k \in Count(L) :
          Made(L.sent, L.frames[k]) /\ L.cut[k] = L.cut[k - 1] + Size(L.frames[k])
    /\ \A k \in Count(L) : \A x \in 1..Size(L.frames[k]) :
          \/ L.stream[L.cut[k - 1] + x] = Encode(L.frames[k])[x]
          \/ Damaged(Encode(L.frames[k])[x], L.stream[L.cut[k - 1] + x])
    /\ \A j, k \in Count(L) : j < k =>
          \/ L.frames[j].msg < L.frames[k].msg
          \/ /\ L.frames[j].msg = L.frames[k].msg /\ L.frames[j].id = L.frames[k].id
             /\ L.frames[j].index < L.frames[k].index
    /\ \A m \in DOMAIN L.sent : \A i \in 0..(L.sent[m] - 1) :
          \E k \in Count(L) : L.frames[k].msg = m /\ L.frames[k].index = i

\* Frame k is as it was sent.
Whole(L, k) == Intact(L.stream, L.cut[k - 1] + 1, L.frames[k])

\* A frame of a message, and where it is.
LEMMA LaidFrame ==
    ASSUME NEW L, Laid(L), NEW k \in Count(L)
    PROVE  /\ Len(L.frames) \in Nat /\ k \in Nat /\ k >= 1 /\ k <= Len(L.frames)
           /\ L.frames[k] \in Headers /\ Made(L.sent, L.frames[k])
           /\ Size(L.frames[k]) \in 4..8 /\ (Size(L.frames[k]) = 8 <=> L.frames[k].len = 4)
           /\ L.cut[k - 1] \in Nat /\ L.cut[k] \in Nat
           /\ L.cut[k] = L.cut[k - 1] + Size(L.frames[k])
           /\ L.frames[k].msg \in DOMAIN L.sent /\ L.frames[k].msg \in Nat
           /\ L.frames[k].msg >= 1 /\ L.frames[k].msg <= Len(L.sent)
           /\ L.frames[k].count = L.sent[L.frames[k].msg] /\ L.frames[k].count \in FrameCounts
           /\ L.frames[k].count \in Nat \ {0}
           /\ L.frames[k].index \in 0..(L.frames[k].count - 1)
           /\ L.frames[k].id \in MessageIds
<1>1. /\ L.frames \in Seq(Headers) /\ L.cut \in [0..Len(L.frames) -> Nat]
      /\ L.sent \in Seq(FrameCounts)
      /\ Made(L.sent, L.frames[k]) /\ L.cut[k] = L.cut[k - 1] + Size(L.frames[k])
    BY DEF Laid
<1>2. Len(L.frames) \in Nat /\ k \in 1..Len(L.frames)
    BY <1>1 DEF Count
<1>3. k \in 0..Len(L.frames) /\ k - 1 \in 0..Len(L.frames) /\ k \in Nat /\ k >= 1
      /\ k <= Len(L.frames)
    BY <1>2
<1>4. L.cut[k] \in Nat /\ L.cut[k - 1] \in Nat /\ L.frames[k] \in Headers
    BY <1>1, <1>2, <1>3
<1>5. /\ L.frames[k].msg \in DOMAIN L.sent /\ L.frames[k].id \in MessageIds
      /\ L.frames[k].count = L.sent[L.frames[k].msg]
      /\ L.frames[k].index \in 0..(L.frames[k].count - 1) /\ L.frames[k].len \in {0, 1, 4}
    BY <1>1 DEF Made
<1>6. Size(L.frames[k]) \in 4..8 /\ (Size(L.frames[k]) = 8 <=> L.frames[k].len = 4)
    BY <1>5 DEF Size
<1>7. L.frames[k].msg \in 1..Len(L.sent) /\ Len(L.sent) \in Nat
    BY <1>1, <1>5
<1>8. L.sent[L.frames[k].msg] \in FrameCounts /\ FrameCounts \subseteq Nat \ {0}
    BY <1>1, <1>7, FramingAssumption, SMTT(30)
<1>9. L.frames[k].msg \in Nat /\ L.frames[k].msg >= 1 /\ L.frames[k].msg <= Len(L.sent)
    BY <1>7
<1>10. L.frames[k].count \in FrameCounts /\ L.frames[k].count \in Nat \ {0}
    BY <1>5, <1>8
<1> QED
    BY <1>1, <1>2, <1>3, <1>4, <1>5, <1>6, <1>9, <1>10

\* Where the frames end, and that the stream is made of them.
LEMMA LaidCuts ==
    ASSUME NEW L, Laid(L)
    PROVE  /\ Len(L.frames) \in Nat /\ Len(L.stream) \in Nat
           /\ L.cut[0] = 0 /\ L.cut[Len(L.frames)] = Len(L.stream)
           /\ \A k \in 0..Len(L.frames) : L.cut[k] \in 0..Len(L.stream)
           /\ \A j, k \in 0..Len(L.frames) : j <= k => L.cut[j] <= L.cut[k]
           /\ \A j, k \in Count(L) : j < k => L.cut[j] <= L.cut[k - 1]
           /\ \A j, k \in Count(L) : L.cut[j - 1] < L.cut[k] => j <= k
<1> DEFINE n == Len(L.frames)
           T == {k \in 0..n : \A j \in 0..k : L.cut[j] <= L.cut[k]}
<1>1. /\ n \in Nat /\ Len(L.stream) \in Nat /\ L.cut[0] = 0 /\ L.cut[n] = Len(L.stream)
      /\ \A k \in 0..n : L.cut[k] \in Nat
    <2>1. L.frames \in Seq(Headers) /\ L.stream \in Seq(Elements)
          /\ L.cut \in [0..Len(L.frames) -> Nat]
          /\ L.cut[0] = 0 /\ L.cut[n] = Len(L.stream)
        BY DEF Laid
    <2>2. n \in Nat /\ Len(L.stream) \in Nat
        BY <2>1
    <2> QED
        BY <2>1, <2>2
<1>2. ASSUME NEW k \in 1..n
      PROVE  L.cut[k - 1] \in Nat /\ L.cut[k] \in Nat /\ L.cut[k - 1] < L.cut[k]
    <2>1. k \in Count(L)
        BY DEF Count
    <2>2. /\ L.cut[k - 1] \in Nat /\ L.cut[k] = L.cut[k - 1] + Size(L.frames[k])
          /\ Size(L.frames[k]) \in 4..8
        BY <2>1, LaidFrame
    <2> QED
        BY <2>2
<1>3. 0 \in T
    BY <1>1
<1>4. ASSUME NEW k \in 1..n, k - 1 \in T PROVE k \in T
    <2>1. ASSUME NEW j \in 0..k PROVE L.cut[j] <= L.cut[k]
        <3>1. CASE j = k
            BY <1>2, <3>1
        <3>2. CASE j # k
            <4>1. j \in 0..(k - 1)
                BY <1>1, <3>2
            <4>2. L.cut[j] <= L.cut[k - 1] /\ L.cut[j] \in Nat
                BY <1>1, <1>4, <4>1
            <4> QED
                BY <1>2, <4>2
        <3> QED
            BY <3>1, <3>2
    <2> QED
        BY <1>1, <2>1
<1>5. 0..n \subseteq T
    <2> HIDE DEF T, n
    <2> QED
        BY <1>1, <1>3, <1>4, Upward
<1>6. \A j, k \in 0..n : j <= k => L.cut[j] <= L.cut[k]
    <2> SUFFICES ASSUME NEW j \in 0..n, NEW k \in 0..n, j <= k PROVE L.cut[j] <= L.cut[k]
        OBVIOUS
    <2>1. j \in 0..k
        BY <1>1
    <2>2. k \in T
        <3> HIDE DEF T
        <3> QED
            BY <1>5
    <2> QED
        BY <2>1, <2>2, Zenon
<1>7. \A k \in 0..n : L.cut[k] \in 0..Len(L.stream)
    <2> TAKE k \in 0..n
    <2>1. n \in 0..n /\ k <= n
        BY <1>1
    <2>2. L.cut[k] <= L.cut[n]
        BY <1>6, <2>1
    <2> QED
        BY <1>1, <2>2
<1>8. \A j, k \in Count(L) : j < k => L.cut[j] <= L.cut[k - 1]
    <2> SUFFICES ASSUME NEW j \in 1..n, NEW k \in 1..n, j < k PROVE L.cut[j] <= L.cut[k - 1]
        BY DEF Count
    <2>1. j \in 0..n /\ k - 1 \in 0..n /\ j <= k - 1
        BY <1>1
    <2> QED
        BY <1>6, <2>1
<1>9. \A j, k \in Count(L) : L.cut[j - 1] < L.cut[k] => j <= k
    <2> SUFFICES ASSUME NEW j \in 1..n, NEW k \in 1..n, L.cut[j - 1] < L.cut[k], ~(j <= k)
                 PROVE  FALSE
        BY DEF Count
    <2>1. k < j
        BY <1>1
    <2>2. L.cut[k] <= L.cut[j - 1]
        BY <1>8, <2>1 DEF Count
    <2> QED
        BY <1>2, <2>2
<1> QED
    BY <1>1, <1>6, <1>7, <1>8, <1>9

\* Every element belongs to one frame.
LEMMA LaidPlaces ==
    ASSUME NEW L, Laid(L), NEW p \in 1..Len(L.stream)
    PROVE  \E k \in Count(L) :
              /\ L.cut[k - 1] < p /\ p <= L.cut[k] /\ p - L.cut[k - 1] \in 1..Size(L.frames[k])
              /\ p = L.cut[k - 1] + (p - L.cut[k - 1])
              /\ \A j \in Count(L) : L.cut[j - 1] < p /\ p <= L.cut[j] => j = k
<1> DEFINE n == Len(L.frames)
           T == {k \in 0..n : p <= L.cut[k]}
<1>1. /\ n \in Nat /\ Len(L.stream) \in Nat /\ L.cut[0] = 0 /\ L.cut[n] = Len(L.stream)
      /\ \A k \in 0..n : L.cut[k] \in Nat
    BY LaidCuts
<1>2. n \in T /\ T \in SUBSET Nat
    BY <1>1
<1>3. PICK k \in T : \A j \in T : k <= j
    <2> HIDE DEF T
    <2> QED
        BY <1>2, LeastNatural
<1>4. k # 0 /\ k \in 1..n
    BY <1>1, <1>3
<1>5. k - 1 \in 0..n /\ ~(k <= k - 1)
    BY <1>1, <1>4
<1>6. L.cut[k - 1] < p
    BY <1>1, <1>3, <1>5
<1>7. k \in Count(L)
    BY <1>4 DEF Count
<1>8. p - L.cut[k - 1] \in 1..Size(L.frames[k]) /\ p <= L.cut[k]
      /\ p = L.cut[k - 1] + (p - L.cut[k - 1])
    <2>1. p <= L.cut[k] /\ p \in Int
        BY <1>1, <1>3
    <2>2. /\ L.cut[k - 1] \in Nat /\ L.cut[k] = L.cut[k - 1] + Size(L.frames[k])
          /\ Size(L.frames[k]) \in 4..8
        BY <1>7, LaidFrame
    <2> QED
        BY <1>6, <2>1, <2>2, SMTT(30)
<1>9. ASSUME NEW j \in Count(L), L.cut[j - 1] < p, p <= L.cut[j] PROVE j = k
    <2>0. L.cut[j - 1] \in Nat /\ L.cut[j] \in Nat /\ j \in Nat
        BY LaidFrame
    <2>1. /\ L.cut[k - 1] \in Nat /\ L.cut[k] \in Nat /\ k \in Nat /\ p \in Nat
        BY <1>1, <1>7, LaidFrame
    <2> HIDE DEF T, n
    <2>4. L.cut[k - 1] < p /\ p <= L.cut[k] /\ L.cut[j - 1] < p /\ p <= L.cut[j]
        BY <1>6, <1>8, <1>9
    <2>2. L.cut[j - 1] < L.cut[k] /\ L.cut[k - 1] < L.cut[j]
        BY <2>0, <2>1, <2>4, SMTT(30)
    <2>3. j <= k /\ k <= j
        BY <1>7, <2>2, LaidCuts
    <2> QED
        BY <2>0, <2>1, <2>3
<1> QED
    BY <1>6, <1>7, <1>8, <1>9

\* A header on the stream is that of the frame it is in, of a frame inside
\* that one, or of one of the two with a greater length; a crc is that of a
\* frame sent, or of the frame inside.
LEMMA LaidElements ==
    ASSUME NEW L, Laid(L), NEW p \in 1..Len(L.stream)
    PROVE  /\ L.stream[p].at = "fields" =>
                 \E k \in Count(L) : \E o \in Headers :
                    /\ \/ o = L.frames[k] /\ p = L.cut[k - 1] + 3
                       \/ o = Inner /\ p = L.cut[k - 1] + 6 /\ L.cut[k] = L.cut[k - 1] + 8
                    /\ \/ L.stream[p] = Fields(o)
                       \/ \E q : Longer(q, o) /\ L.stream[p] = Fields(q)
           /\ L.stream[p].at = "crc" =>
                 \/ L.stream[p] = Crc(Inner)
                 \/ \E k \in Count(L) : L.stream[p] = Crc(L.frames[k])
<1>1. PICK k \in Count(L) : p - L.cut[k - 1] \in 1..Size(L.frames[k])
                            /\ p = L.cut[k - 1] + (p - L.cut[k - 1])
    BY LaidPlaces
<1> DEFINE x == p - L.cut[k - 1]
           f == L.frames[k]
           y == L.stream[p]
           o == Encode(f)[x]
<1>2. y = o \/ Damaged(o, y)
    BY <1>1 DEF Laid
<1>3. /\ f \in Headers /\ x \in 1..Size(f) /\ Size(f) \in Nat /\ L.cut[k - 1] \in Nat
      /\ L.cut[k] = L.cut[k - 1] + Size(f) /\ p \in Nat
      /\ Size(f) = f.len + 4 /\ f.len \in Nat
    <2>1. f \in Headers /\ f.len \in Nat
        BY LaidFrame DEF Headers
    <2>2. Size(f) = f.len + 4
        BY DEF Size
    <2>3. Size(f) \in Nat /\ L.cut[k - 1] \in Nat /\ L.cut[k] = L.cut[k - 1] + Size(f)
        BY LaidFrame, SMTT(30)
    <2>4. p \in Nat
        OBVIOUS
    <2> QED
        BY <1>1, <2>1, <2>2, <2>3, <2>4
<1>4. p = L.cut[k - 1] + x
    BY <1>1
<1> HIDE DEF x, f, y, o
<1>5. o.at = "fields" => \/ x = 3 /\ o = Fields(f)
                         \/ x = 6 /\ o = Fields(Inner) /\ Size(f) = 8
    BY <1>3, EncodePlaces DEF o
<1>6. Inner \in Headers
    BY <1>3, EncodeIs
<1>7. ASSUME y.at = "fields"
      PROVE  \E q \in Headers :
                /\ \/ q = f /\ p = L.cut[k - 1] + 3
                   \/ q = Inner /\ p = L.cut[k - 1] + 6 /\ L.cut[k] = L.cut[k - 1] + 8
                /\ y = Fields(q) \/ \E l : Longer(l, q) /\ y = Fields(l)
    <2>1. o.at = "fields" /\ o.frame \in Headers
          /\ (y = o \/ \E l : Longer(l, o.frame) /\ y = Fields(l))
        <3>1. o.at = "fields" /\ (y = o \/ \E len \in Nat : len > o.frame.len
                                              /\ y = Fields([o.frame EXCEPT !.len = len]))
            BY <1>2, <1>7, ElementsDiffer DEF Damaged
        <3>2. o.frame \in Headers
            BY <1>3, <1>5, <1>6, <3>1, ElementsDiffer
        <3>3. CASE y = o
            BY <3>1, <3>2, <3>3
        <3>4. ASSUME NEW len \in Nat, len > o.frame.len, y = Fields([o.frame EXCEPT !.len = len])
              PROVE  \E l : Longer(l, o.frame) /\ y = Fields(l)
            <4>1. Longer([o.frame EXCEPT !.len = len], o.frame)
                BY <3>2, <3>4, LongerIs
            <4> QED
                BY <3>4, <4>1
        <3> QED
            BY <3>1, <3>2, <3>3, <3>4
    <2>2. CASE x = 3 /\ o = Fields(f)
        <3>1. o.frame = f
            BY <2>2, ElementsDiffer
        <3>2. y = Fields(f) \/ \E l : Longer(l, f) /\ y = Fields(l)
            BY <2>1, <2>2, <3>1
        <3>3. f \in Headers /\ p = L.cut[k - 1] + 3
            BY <1>3, <1>4, <2>2
        <3> QED
            BY <3>2, <3>3
    <2>3. CASE x = 6 /\ o = Fields(Inner) /\ Size(f) = 8
        <3>1. o.frame = Inner
            BY <2>3, ElementsDiffer
        <3>2. y = Fields(Inner) \/ \E l : Longer(l, Inner) /\ y = Fields(l)
            BY <2>1, <2>3, <3>1
        <3>3. p = L.cut[k - 1] + 6 /\ L.cut[k] = L.cut[k - 1] + 8
            BY <1>3, <1>4, <2>3
        <3> QED
            BY <1>6, <3>2, <3>3
    <2> QED
        BY <1>5, <2>1, <2>2, <2>3
<1>8. ASSUME y.at = "crc" PROVE y = Crc(Inner) \/ y = Crc(f)
    <2>1. y = o
        BY <1>2, <1>8, ElementsDiffer DEF Damaged
    <2>2. CASE f.len = 4
        <3>1. Size(f) = 8 /\ x \in Nat
            BY <1>3, <2>2
        <3>2. x = 1 \/ x = 2 \/ x = 3 \/ x = 4 \/ x = 5 \/ x = 6 \/ x = 7 \/ x = 8
            BY <1>3, <3>1
        <3> QED
            BY <1>3, <1>8, <2>1, <2>2, <3>1, <3>2, EncodeIs, ElementsDiffer, SMTT(30) DEF o
    <2>3. CASE f.len # 4
        <3>1. x = 1 \/ x = 2 \/ x = 3 \/ x = Size(f) \/ x \in 4..(Size(f) - 1)
            BY <1>3
        <3>2. /\ Encode(f)[1] = Magic[1] /\ Encode(f)[2] = Magic[2]
              /\ Encode(f)[3] = Fields(f) /\ Encode(f)[Size(f)] = Crc(f)
              /\ \A z \in 4..(Size(f) - 1) : Encode(f)[z] = Data(f, z - 3)
            BY <1>3, <2>3, EncodeIs
        <3>3. x \in 4..(Size(f) - 1) => o.at = "data"
            BY <3>2, ElementsDiffer DEF o
        <3>4. x = 1 \/ x = 2 \/ x = 3 => o.at # "crc"
            BY <3>2, ElementsDiffer DEF o
        <3> QED
            BY <1>8, <2>1, <3>1, <3>2, <3>3, <3>4 DEF o
    <2> QED
        BY <2>2, <2>3
<1> QED
    BY <1>7, <1>8 DEF f, y

\* What the decoder finds is a frame sent, where it was put, or the frame
\* inside another one.
LEMMA Genuine ==
    ASSUME NEW L, Laid(L), NEW c \in Nat, NEW f \in Headers, Intact(L.stream, c + 1, f)
    PROVE  \E k \in Count(L) :
              \/ f = L.frames[k] /\ c = L.cut[k - 1] /\ Whole(L, k)
              \/ f = Inner /\ c = L.cut[k - 1] + 3 /\ L.cut[k] = L.cut[k - 1] + 8
<1>1. Size(f) \in Nat /\ Size(f) >= 4
    BY EncodeIs
<1>2. /\ c + Size(f) <= Len(L.stream) /\ Len(L.stream) \in Nat
      /\ \A x \in 1..Size(f) : L.stream[c + x] = Encode(f)[x]
    <2>1. /\ c + 1 + Size(f) - 1 <= Len(L.stream)
          /\ \A x \in 1..Size(f) : L.stream[c + 1 + x - 1] = Encode(f)[x]
        BY DEF Intact
    <2>2. \A x \in 1..Size(f) : c + 1 + x - 1 = c + x
        BY <1>1
    <2>3. \A x \in 1..Size(f) : L.stream[c + x] = Encode(f)[x]
        BY <2>1, <2>2
    <2>4. Len(L.stream) \in Nat
        BY LaidCuts
    <2> QED
        BY <1>1, <2>1, <2>3, <2>4
<1>3. L.stream[c + 3] = Fields(f) /\ L.stream[c + Size(f)] = Crc(f)
    <2>1. 3 \in 1..Size(f) /\ Size(f) \in 1..Size(f)
        BY <1>1
    <2> QED
        BY <1>2, <2>1, EncodeIs
<1>4. c + 3 \in 1..Len(L.stream) /\ c + Size(f) \in 1..Len(L.stream)
    BY <1>1, <1>2
<1>5. f = Inner \/ \E j \in Count(L) : f = L.frames[j]
    <2>1. \/ L.stream[c + Size(f)] = Crc(Inner)
          \/ \E j \in Count(L) : L.stream[c + Size(f)] = Crc(L.frames[j])
        BY <1>3, <1>4, LaidElements, ElementsDiffer
    <2> QED
        BY <1>3, <2>1, ElementsDiffer
<1>6. PICK k \in Count(L), o \in Headers :
          /\ \/ o = L.frames[k] /\ c + 3 = L.cut[k - 1] + 3
             \/ o = Inner /\ c + 3 = L.cut[k - 1] + 6 /\ L.cut[k] = L.cut[k - 1] + 8
          /\ \/ Fields(f) = Fields(o)
             \/ \E q : Longer(q, o) /\ Fields(f) = Fields(q)
    <2>1. L.stream[c + 3].at = "fields"
        BY <1>3, ElementsDiffer
    <2>2. \E k \in Count(L) : \E o \in Headers :
             /\ \/ o = L.frames[k] /\ c + 3 = L.cut[k - 1] + 3
                \/ o = Inner /\ c + 3 = L.cut[k - 1] + 6 /\ L.cut[k] = L.cut[k - 1] + 8
             /\ \/ L.stream[c + 3] = Fields(o)
                \/ \E q : Longer(q, o) /\ L.stream[c + 3] = Fields(q)
        BY <1>4, <2>1, LaidElements
    <2> QED
        BY <1>3, <2>2, Zenon
<1>7. f = o \/ Longer(f, o)
    <2>1. \A q : Fields(f) = Fields(q) => f = q
        BY ElementsDiffer
    <2> QED
        BY <1>6, <2>1
<1>8. L.cut[k - 1] \in Nat
    BY LaidFrame
<1>9. Inner.msg = 0 /\ Inner.len = 0
    BY DEF Inner, Frame
<1>10. \A j \in Count(L) : L.frames[j].msg >= 1 /\ L.frames[j].msg \in Nat
                           /\ L.frames[j].index \in Nat /\ L.frames[j].len \in Nat
                           /\ L.frames[j] \in Headers
    BY LaidFrame DEF Headers
<1>11. f = o
    <2> SUFFICES ASSUME Longer(f, o) PROVE FALSE
        BY <1>7
    <2>1. /\ f.msg = o.msg /\ f.index = o.index /\ f.len > o.len
          /\ o.len \in Nat /\ f.len \in Nat
        BY DEF Longer, Headers
    <2>2. CASE o = Inner
        BY <1>5, <1>9, <1>10, <2>1, <2>2
    <2>3. CASE o = L.frames[k]
        <3>1. PICK j \in Count(L) : f = L.frames[j]
            BY <1>5, <1>9, <1>10, <2>1, <2>3
        <3>2. j = k
            <4>0. \A i, l \in Count(L) : i < l =>
                     \/ L.frames[i].msg < L.frames[l].msg
                     \/ L.frames[i].msg = L.frames[l].msg /\ L.frames[i].index < L.frames[l].index
                BY DEF Laid
            <4>3. /\ L.frames[j].msg = L.frames[k].msg /\ L.frames[j].index = L.frames[k].index
                  /\ L.frames[j].msg \in Nat /\ L.frames[j].index \in Nat
                BY <1>10, <2>1, <2>3, <3>1
            <4>1. ~(j < k) /\ ~(k < j)
                BY <4>0, <4>3
            <4>2. j \in Nat /\ k \in Nat
                BY LaidFrame
            <4> QED
                BY <4>1, <4>2
        <3> QED
            BY <2>1, <2>3, <3>1, <3>2
    <2> QED
        BY <1>6, <2>2, <2>3
<1>12. CASE f = L.frames[k] /\ c + 3 = L.cut[k - 1] + 3
    <2>1. c = L.cut[k - 1]
        BY <1>8, <1>12
    <2> QED
        BY <1>12, <2>1 DEF Whole
<1>13. CASE f = Inner /\ c + 3 = L.cut[k - 1] + 6 /\ L.cut[k] = L.cut[k - 1] + 8
    <2>1. c = L.cut[k - 1] + 3
        BY <1>8, <1>13
    <2> QED
        BY <1>13, <2>1
<1> QED
    BY <1>6, <1>11, <1>12, <1>13

-----------------------------------------------------------------------------
(* The reassembler                                                         *)

\* What an entry of the assemblies is.
Assembly == [count : Nat, parts : Seq(Int), size : Nat, old : BOOLEAN]

\* An unfinished assembly when n messages have been sent.
AssemblyOk(n, a) ==
    /\ a \in Assembly
    /\ a.count \in FrameCounts \ {1}
    /\ a.parts \in [1..a.count -> {-1} \cup 1..n]
    /\ a.size = Cardinality({i \in 1..a.count : a.parts[i] # -1})
    /\ a.size \in 1..MaxMessageSize /\ a.size < a.count

\* The assemblies, no more than may be pending.
AssembliesOk(n, asm) ==
    /\ asm \in [MessageIds -> Assembly \cup {NoAssembly}]
    /\ \A id \in Pending(asm) : AssemblyOk(n, asm[id])
    /\ Cardinality(Pending(asm)) <= MaxAssemblies

\* What is handed on is of those messages, or a frame inside one.
DeliveredOk(n, del) ==
    /\ del \in Seq(Seq(Nat))
    /\ \A k \in DOMAIN del : \A i \in DOMAIN del[k] : del[k][i] <= n

\* The state of the reassembler.
Reassembler(asm, del, ref) == [assemblies |-> asm, delivered |-> del, refused |-> ref]

\* The assembly frame f is for, and its parts with it.
For(asm, f) == IF asm[f.id] = NoAssembly THEN NewAssembly(f.count) ELSE asm[f.id]
Filled(a, f) == [a.parts EXCEPT ![f.index + 1] = f.msg]
Grown(a, f) == [a EXCEPT !.parts = Filled(a, f), !.size = @ + 1]

\* One more is delivered.
LEMMA AppendDelivered ==
    ASSUME NEW asm, NEW del, NEW ref, NEW e
    PROVE  [Reassembler(asm, del, ref) EXCEPT !.delivered = Append(@, e)]
              = Reassembler(asm, Append(del, e), ref)
<1> DEFINE t == Reassembler(asm, del, ref)
<1>1. t.delivered = del
    BY DEF Reassembler
<1>2. \A y : [t EXCEPT !.delivered = y] = Reassembler(asm, y, ref)
    BY DEF Reassembler
<1> HIDE DEF t
<1>3. [t EXCEPT !.delivered = Append(@, e)] = [t EXCEPT !.delivered = Append(del, e)]
    BY <1>1, Zenon
<1> QED
    BY <1>2, <1>3, Zenon DEF t

\* What onFrame can make of f: it hands it on, refuses a new assembly, drops
\* the assembly, knows the part, adds it, or finishes the message.
Results(A, D, ref, f, s) ==
    LET E == Evict(A)
        a == For(E, f)
        parts == Filled(a, f)
        with(x) == [E EXCEPT ![f.id] = x]
    IN \/ f.count = 1 /\ s = Reassembler(A, Append(D, <<f.msg>>), ref)
       \/ f.count # 1 /\ s = Reassembler(E, D, TRUE)
       \/ /\ f.count # 1 /\ s = Reassembler(with(NoAssembly), D, ref)
          /\ a.count # f.count \/ a.size + 1 > MaxMessageSize
       \/ /\ f.count # 1 /\ a.count = f.count /\ a.parts[f.index + 1] # -1
          /\ s = Reassembler(with(a), D, ref)
       \/ /\ f.count # 1 /\ a.count = f.count /\ a.parts[f.index + 1] = -1
          /\ (E[f.id] # NoAssembly \/ ~Full(E))
          /\ ~(a.size + 1 > MaxMessageSize) /\ ~Complete(parts)
          /\ s = Reassembler(with(Grown(a, f)), D, ref)
       \/ /\ f.count # 1 /\ a.count = f.count /\ a.parts[f.index + 1] = -1
          /\ Complete(parts)
          /\ s = Reassembler(with(NoAssembly), Append(D, parts), ref)

\* The states onFrame leads to.
LEMMA OnFrameIs ==
    ASSUME NEW A, NEW D, NEW ref, NEW f
    PROVE  Results(A, D, ref, f, OnFrame(Reassembler(A, D, ref), f))
<1> DEFINE t == Reassembler(A, D, ref)
           E == Evict(A)
           a == For(E, f)
           parts == Filled(a, f)
           with(x) == [E EXCEPT ![f.id] = x]
           b == [a EXCEPT !.parts = parts, !.size = @ + 1]
           s == OnFrame(t, f)
           one == <<f.msg>>
<1>1. s = IF f.count = 1 THEN [t EXCEPT !.delivered = Append(@, one)]
          ELSE IF E[f.id] = NoAssembly /\ Full(E)
               THEN [t EXCEPT !.assemblies = E, !.refused = TRUE]
          ELSE IF a.count # f.count THEN [t EXCEPT !.assemblies = with(NoAssembly)]
          ELSE IF a.parts[f.index + 1] # -1 THEN [t EXCEPT !.assemblies = with(a)]
          ELSE IF a.size + 1 > MaxMessageSize THEN [t EXCEPT !.assemblies = with(NoAssembly)]
          ELSE IF ~Complete(parts) THEN [t EXCEPT !.assemblies = with(b)]
          ELSE [[t EXCEPT !.assemblies = with(NoAssembly)] EXCEPT !.delivered = Append(@, parts)]
    BY Zenon DEF OnFrame, Reassembler, For, Filled
<1> HIDE DEF one
<1>2. /\ [t EXCEPT !.delivered = Append(@, one)] = Reassembler(A, Append(D, one), ref)
      /\ [t EXCEPT !.assemblies = E, !.refused = TRUE] = Reassembler(E, D, TRUE)
      /\ \A x : [t EXCEPT !.assemblies = x] = Reassembler(x, D, ref)
      /\ \A x : [[t EXCEPT !.assemblies = x] EXCEPT !.delivered = Append(@, parts)]
                   = Reassembler(x, Append(D, parts), ref)
    <2> HIDE DEF E, parts, a, with, b, s
    <2>0. t = [assemblies |-> A, delivered |-> D, refused |-> ref]
        BY DEF Reassembler
    <2>1. [t EXCEPT !.delivered = Append(@, one)] = Reassembler(A, Append(D, one), ref)
        BY AppendDelivered
    <2>2. [t EXCEPT !.assemblies = E, !.refused = TRUE] = Reassembler(E, D, TRUE)
        <3> DEFINE yes == TRUE
        <3> HIDE DEF yes
        <3>2. [t EXCEPT !.assemblies = E, !.refused = yes]
                 = [[t EXCEPT !.assemblies = E] EXCEPT !.refused = yes]
            OBVIOUS
        <3>3. [t EXCEPT !.assemblies = E] = Reassembler(E, D, ref)
            BY DEF Reassembler
        <3>4. [Reassembler(E, D, ref) EXCEPT !.refused = yes] = Reassembler(E, D, yes)
            BY DEF Reassembler
        <3>1. [t EXCEPT !.assemblies = E, !.refused = yes] = Reassembler(E, D, yes)
            BY <3>2, <3>3, <3>4
        <3> HIDE DEF t
        <3> QED
            BY <3>1, Zenon DEF yes
    <2>3. \A x : [t EXCEPT !.assemblies = x] = Reassembler(x, D, ref)
        BY <2>0 DEF Reassembler
    <2>4. ASSUME NEW x
          PROVE  [[t EXCEPT !.assemblies = x] EXCEPT !.delivered = Append(@, parts)]
                    = Reassembler(x, Append(D, parts), ref)
        <3> DEFINE u == [t EXCEPT !.assemblies = x]
        <3>1. u = Reassembler(x, D, ref)
            BY <2>3
        <3> HIDE DEF u
        <3>2. [u EXCEPT !.delivered = Append(@, parts)] = Reassembler(x, Append(D, parts), ref)
            BY <3>1, AppendDelivered
        <3> QED
            BY <3>2 DEF u
    <2> QED
        BY <2>1, <2>2, <2>3, <2>4
<1> HIDE DEF t, E, a, parts, with, b, s
<1>3. \/ f.count = 1 /\ s = Reassembler(A, Append(D, one), ref)
      \/ /\ f.count # 1 /\ E[f.id] = NoAssembly /\ Full(E)
         /\ s = Reassembler(E, D, TRUE)
      \/ /\ f.count # 1 /\ (E[f.id] # NoAssembly \/ ~Full(E))
         /\ \/ a.count # f.count /\ s = Reassembler(with(NoAssembly), D, ref)
            \/ /\ a.count = f.count /\ a.parts[f.index + 1] # -1
               /\ s = Reassembler(with(a), D, ref)
            \/ /\ a.count = f.count /\ a.parts[f.index + 1] = -1
               /\ a.size + 1 > MaxMessageSize
               /\ s = Reassembler(with(NoAssembly), D, ref)
            \/ /\ a.count = f.count /\ a.parts[f.index + 1] = -1
               /\ ~(a.size + 1 > MaxMessageSize) /\ ~Complete(parts)
               /\ s = Reassembler(with(b), D, ref)
            \/ /\ a.count = f.count /\ a.parts[f.index + 1] = -1
               /\ ~(a.size + 1 > MaxMessageSize) /\ Complete(parts)
               /\ s = Reassembler(with(NoAssembly), Append(D, parts), ref)
    BY <1>1, <1>2, Zenon
<1>4. \/ f.count = 1 /\ s = Reassembler(A, Append(D, one), ref)
      \/ f.count # 1 /\ s = Reassembler(E, D, TRUE)
      \/ /\ f.count # 1 /\ s = Reassembler(with(NoAssembly), D, ref)
         /\ a.count # f.count \/ a.size + 1 > MaxMessageSize
      \/ /\ f.count # 1 /\ a.count = f.count /\ a.parts[f.index + 1] # -1
         /\ s = Reassembler(with(a), D, ref)
      \/ /\ f.count # 1 /\ a.count = f.count /\ a.parts[f.index + 1] = -1
         /\ (E[f.id] # NoAssembly \/ ~Full(E))
         /\ ~(a.size + 1 > MaxMessageSize) /\ ~Complete(parts)
         /\ s = Reassembler(with(b), D, ref)
      \/ /\ f.count # 1 /\ a.count = f.count /\ a.parts[f.index + 1] = -1
         /\ Complete(parts)
         /\ s = Reassembler(with(NoAssembly), Append(D, parts), ref)
    BY <1>3, Zenon
<1> QED
    BY <1>4, Zenon DEF Results, Grown, t, E, a, parts, with, b, s, one

\* evictExpired drops what is old.
LEMMA EvictIs ==
    ASSUME NEW n \in Nat, NEW A, AssembliesOk(n, A)
    PROVE  /\ AssembliesOk(n, Evict(A))
           /\ \A id \in MessageIds : Evict(A)[id] = NoAssembly \/ Evict(A)[id] = A[id]
           /\ (\A id \in Pending(A) : ~A[id].old) => Evict(A) = A
<1> DEFINE E == Evict(A)
<1>1. A \in [MessageIds -> Assembly \cup {NoAssembly}]
    BY DEF AssembliesOk
<1>2. \A id \in MessageIds : E[id] = NoAssembly \/ E[id] = A[id]
    BY DEF Evict
<1>3. E \in [MessageIds -> Assembly \cup {NoAssembly}]
    BY <1>1 DEF Evict
<1>4. (\A id \in Pending(A) : ~A[id].old) => E = A
    <2> SUFFICES ASSUME \A id \in Pending(A) : ~A[id].old PROVE E = A
        OBVIOUS
    <2>1. \A id \in MessageIds : E[id] = A[id]
        BY DEF Evict, Pending
    <2> HIDE DEF E
    <2> QED
        BY <1>1, <1>3, <2>1
<1> HIDE DEF E
<1>5. \A id \in Pending(E) : AssemblyOk(n, E[id])
    BY <1>2 DEF AssembliesOk, Pending
<1>6. Cardinality(Pending(E)) <= MaxAssemblies
    <2>1. Pending(E) \subseteq Pending(A)
        BY <1>2 DEF Pending
    <2>2. IsFiniteSet(Pending(A))
        <3>1. IsFiniteSet(MessageIds)
            BY FS_Interval, FramingAssumption DEF MessageIds
        <3> QED
            BY <3>1, FS_Subset DEF Pending
    <2>3. /\ Cardinality(Pending(E)) <= Cardinality(Pending(A))
          /\ Cardinality(Pending(E)) \in Nat /\ Cardinality(Pending(A)) \in Nat
        BY <2>1, <2>2, FS_Subset, FS_CardinalityType
    <2> QED
        BY <2>3, FramingAssumption DEF AssembliesOk
<1> QED
    BY <1>2, <1>3, <1>4, <1>5, <1>6 DEF AssembliesOk, E

\* One assembly is dropped, replaced, or made where there is room.
LEMMA Replaced ==
    ASSUME NEW n \in Nat, NEW E, AssembliesOk(n, E), NEW id \in MessageIds, NEW x,
           x = NoAssembly \/ AssemblyOk(n, x),
           x = NoAssembly \/ E[id] # NoAssembly \/ ~Full(E)
    PROVE  AssembliesOk(n, [E EXCEPT ![id] = x])
<1> DEFINE G == [E EXCEPT ![id] = x]
<1>1. E \in [MessageIds -> Assembly \cup {NoAssembly}]
    BY DEF AssembliesOk
<1>2. x \in Assembly \cup {NoAssembly}
    BY DEF AssemblyOk
<1>3. /\ G \in [MessageIds -> Assembly \cup {NoAssembly}]
      /\ G[id] = x /\ \A i \in MessageIds : i # id => G[i] = E[i]
    BY <1>1, <1>2
<1> HIDE DEF G
<1>4. \A i \in Pending(G) : AssemblyOk(n, G[i])
    <2> TAKE i \in Pending(G)
    <2>1. i \in MessageIds /\ G[i] # NoAssembly
        BY DEF Pending
    <2>2. CASE i = id
        BY <1>3, <2>1, <2>2
    <2>3. CASE i # id
        BY <1>3, <2>1, <2>3 DEF AssembliesOk, Pending
    <2> QED
        BY <2>2, <2>3
<1>5. Cardinality(Pending(G)) <= MaxAssemblies
    <2>1. IsFiniteSet(Pending(E))
        <3>1. 1 \in Int /\ MaxMessageId \in Int
            BY FramingAssumption
        <3>2. IsFiniteSet(MessageIds)
            BY <3>1, FS_Interval DEF MessageIds
        <3> QED
            BY <3>2, FS_Subset DEF Pending
    <2>2. Cardinality(Pending(E)) \in Nat /\ Cardinality(Pending(E)) <= MaxAssemblies
          /\ MaxAssemblies \in Nat
        BY <2>1, FS_CardinalityType, FramingAssumption DEF AssembliesOk
    <2>3. CASE x = NoAssembly \/ E[id] # NoAssembly
        <3>1. Pending(G) \subseteq Pending(E)
            BY <1>3, <2>3 DEF Pending
        <3>2. Cardinality(Pending(G)) <= Cardinality(Pending(E)) /\ Cardinality(Pending(G)) \in Nat
            BY <2>1, <3>1, FS_Subset, FS_CardinalityType
        <3> QED
            BY <2>2, <3>2
    <2>4. CASE x # NoAssembly /\ E[id] = NoAssembly
        <3>1. Pending(G) = Pending(E) \cup {id} /\ id \notin Pending(E)
            BY <1>3, <2>4 DEF Pending
        <3>2. Cardinality(Pending(G)) = Cardinality(Pending(E)) + 1
            BY <2>1, <3>1, FS_AddElement
        <3>3. ~(Cardinality(Pending(E)) >= MaxAssemblies)
            BY <2>4 DEF Full
        <3> QED
            BY <2>2, <3>2, <3>3
    <2> QED
        BY <2>3, <2>4
<1> QED
    BY <1>3, <1>4, <1>5 DEF AssembliesOk, G

\* What a reassembler may be given when n messages have been sent.
Piece(n, f) ==
    /\ f.id \in MessageIds /\ f.count \in FrameCounts /\ f.msg \in 1..n
    /\ f.index \in 0..(f.count - 1)

\* The types of an assembly, a new one included.
PartsOk(n, a) ==
    /\ a \in Assembly /\ a.count \in FrameCounts \ {1}
    /\ a.parts \in [1..a.count -> {-1} \cup 1..n]
    /\ a.size = Cardinality({i \in 1..a.count : a.parts[i] # -1})
    /\ a.size < a.count

\* No part has come yet.
NoParts(a) == \A i \in 1..a.count : a.parts[i] = -1

\* Where a frame goes: an assembly made before, or a new one.
LEMMA ForIs ==
    ASSUME NEW n \in Nat, NEW E, AssembliesOk(n, E), NEW f, Piece(n, f), f.count # 1
    PROVE  /\ PartsOk(n, For(E, f))
           /\ E[f.id] # NoAssembly => For(E, f) = E[f.id] /\ AssemblyOk(n, E[f.id])
           /\ E[f.id] = NoAssembly =>
                 /\ For(E, f).count = f.count /\ ~For(E, f).old /\ For(E, f).size = 0
                 /\ NoParts(For(E, f))
<1>1. f.count \in FrameCounts \ {1} /\ f.count \in Nat \ {0} /\ f.id \in MessageIds
    BY FramingAssumption DEF Piece
<1>2. CASE E[f.id] # NoAssembly
    <2>1. f.id \in Pending(E)
        BY <1>1, <1>2 DEF Pending
    <2>2. AssemblyOk(n, E[f.id])
        BY <2>1 DEF AssembliesOk
    <2> QED
        BY <1>2, <2>2 DEF For, AssemblyOk, PartsOk
<1>3. CASE E[f.id] = NoAssembly
    <2> DEFINE a == NewAssembly(f.count)
    <2>1. /\ a.count = f.count /\ a.parts = [i \in 1..f.count |-> -1] /\ a.size = 0
          /\ ~a.old
        BY DEF NewAssembly
    <2>2. a.parts \in [1..a.count -> {-1} \cup 1..n] /\ a.parts \in [1..f.count -> Int]
        BY <2>1
    <2>3. a.parts \in Seq(Int)
        <3> HIDE DEF a
        <3>1. f.count \in Nat
            BY <1>1
        <3> QED
            BY <2>2, <3>1, SeqDef
    <2>4. a \in Assembly
        <3> DEFINE z == [i \in 1..f.count |-> -1]
        <3>1. a = [count |-> f.count, parts |-> z, size |-> 0, old |-> FALSE] /\ z \in Seq(Int)
            BY <2>1, <2>3 DEF NewAssembly
        <3> HIDE DEF a, z
        <3> QED
            BY <1>1, <3>1 DEF Assembly
    <2>5. {i \in 1..a.count : a.parts[i] # -1} = {}
        BY <2>1
    <2>6. Cardinality({}) = 0
        BY FS_EmptySet
    <2>7. For(E, f) = a
        BY <1>3 DEF For
    <2> HIDE DEF a
    <2>10. a.size = Cardinality({i \in 1..a.count : a.parts[i] # -1})
        BY <2>1, <2>5, <2>6, Zenon
    <2>8. PartsOk(n, a)
        BY <1>1, <2>1, <2>2, <2>4, <2>10 DEF PartsOk
    <2>9. NoParts(a)
        BY <2>1 DEF NoParts
    <2> QED
        BY <1>3, <2>1, <2>7, <2>8, <2>9
<1> QED
    BY <1>2, <1>3

\* A part is filled in.
LEMMA FilledIs ==
    ASSUME NEW n \in Nat, NEW f, Piece(n, f), NEW a, PartsOk(n, a), a.count = f.count,
           a.parts[f.index + 1] = -1
    PROVE  /\ Filled(a, f) \in [1..a.count -> {-1} \cup 1..n]
           /\ f.index + 1 \in 1..a.count /\ Filled(a, f)[f.index + 1] = f.msg
           /\ \A i \in 1..a.count : i # f.index + 1 => Filled(a, f)[i] = a.parts[i]
           /\ Complete(Filled(a, f)) =>
                 /\ \A i \in 1..a.count : Filled(a, f)[i] \in 1..n
                 /\ Filled(a, f) \in Seq(Nat) /\ Len(Filled(a, f)) = a.count
           /\ ~Complete(Filled(a, f)) /\ ~(a.size + 1 > MaxMessageSize) =>
                 AssemblyOk(n, Grown(a, f))
           /\ Grown(a, f).count = a.count /\ Grown(a, f).parts = Filled(a, f)
           /\ Grown(a, f).old = a.old /\ a.size \in Nat /\ a.count \in Nat
           /\ Grown(a, f) \in Assembly
<1> DEFINE parts == Filled(a, f)
           b == Grown(a, f)
           had == {i \in 1..a.count : a.parts[i] # -1}
           has == {i \in 1..a.count : parts[i] # -1}
<1>1. /\ a.count \in Nat /\ a.count \in FrameCounts \ {1} /\ a \in Assembly
      /\ a.parts \in [1..a.count -> {-1} \cup 1..n] /\ a.size \in Nat /\ a.old \in BOOLEAN
      /\ f.index + 1 \in 1..a.count /\ f.msg \in 1..n /\ f.index \in Nat
      /\ a.size = Cardinality(had)
    <2>1. a.count \in Nat /\ a.size \in Nat /\ a.old \in BOOLEAN
        BY DEF PartsOk, Assembly
    <2>2. f.index \in 0..(f.count - 1) /\ f.msg \in 1..n
        BY DEF Piece
    <2> QED
        BY <2>1, <2>2 DEF PartsOk
<1>2. /\ parts \in [1..a.count -> {-1} \cup 1..n] /\ parts[f.index + 1] = f.msg
      /\ \A i \in 1..a.count : i # f.index + 1 => parts[i] = a.parts[i]
    BY <1>1 DEF Filled
<1> HIDE DEF parts
<1>3. parts \in Seq({-1} \cup 1..n) /\ Len(parts) = a.count
    BY <1>1, <1>2, SeqDef, SMTT(30)
<1>4. Complete(parts) => /\ \A i \in 1..a.count : parts[i] \in 1..n
                         /\ parts \in Seq(Nat)
    <2> SUFFICES ASSUME Complete(parts)
                 PROVE  (\A i \in 1..a.count : parts[i] \in 1..n) /\ parts \in Seq(Nat)
        OBVIOUS
    <2>1. \A i \in 1..a.count : parts[i] # -1
        BY <1>3 DEF Complete
    <2>2. \A i \in 1..a.count : parts[i] \in 1..n
        BY <1>2, <2>1
    <2>3. parts \in [1..a.count -> Nat]
        BY <1>2, <2>2
    <2>4. parts \in Seq(Nat)
        BY <1>1, <2>3, SeqDef
    <2> QED
        BY <2>2, <2>4
<1>5. /\ b.count = a.count /\ b.parts = parts /\ b.old = a.old /\ b.size = a.size + 1
      /\ b \in Assembly
    <2>1. parts \in Seq(Int)
        <3>1. parts \in [1..a.count -> Int]
            BY <1>2
        <3> QED
            BY <1>1, <3>1, SeqDef
    <2>2. a \in [count : Nat, parts : Seq(Int), size : Nat, old : BOOLEAN]
        BY <1>1 DEF Assembly
    <2>3. a.size + 1 \in Nat
        BY <1>1
    <2> QED
        BY <2>1, <2>2, <2>3 DEF Assembly, Grown, parts
<1>6. IsFiniteSet(1..a.count) /\ Cardinality(1..a.count) = a.count
    <2>1. 1 \in Int /\ a.count \in Int
        BY <1>1
    <2>2. IsFiniteSet(1..a.count)
          /\ Cardinality(1..a.count) = IF 1 > a.count THEN 0 ELSE a.count - 1 + 1
        BY <2>1, FS_Interval
    <2> QED
        BY <1>1, <2>2
<1>7. IsFiniteSet(had) /\ f.index + 1 \notin had /\ has = had \cup {f.index + 1}
    <2>1. IsFiniteSet(had)
        BY <1>6, FS_Subset
    <2>2. parts[f.index + 1] # -1
        BY <1>1, <1>2
    <2>3. has = had \cup {f.index + 1}
        BY <1>1, <1>2, <2>2
    <2> QED
        BY <2>1, <2>3
<1>8. Cardinality(has) = a.size + 1
    <2> HIDE DEF had, has
    <2>1. Cardinality(had \cup {f.index + 1}) = Cardinality(had) + 1
        BY <1>7, FS_AddElement
    <2> QED
        BY <1>1, <1>7, <2>1
<1>9. ASSUME ~Complete(parts) PROVE Cardinality(has) < a.count
    <2>1. PICK i \in 1..a.count : parts[i] = -1
        BY <1>3, <1>9 DEF Complete
    <2>2. has \subseteq (1..a.count) \ {i}
        BY <2>1
    <2>3. IsFiniteSet((1..a.count) \ {i}) /\ Cardinality((1..a.count) \ {i}) = a.count - 1
        <3> DEFINE S == 1..a.count
        <3>1. IsFiniteSet(S) /\ i \in S
            BY <1>6
        <3> HIDE DEF S
        <3>2. IsFiniteSet(S \ {i}) /\ Cardinality(S \ {i}) = Cardinality(S) - 1
            BY <3>1, FS_RemoveElement
        <3> QED
            BY <1>6, <3>2 DEF S
    <2>4. Cardinality(has) <= a.count - 1
        <3> DEFINE R == (1..a.count) \ {i}
        <3>1. has \in SUBSET R /\ IsFiniteSet(R) /\ Cardinality(R) = a.count - 1
            BY <2>2, <2>3
        <3> HIDE DEF R, has
        <3>2. Cardinality(has) <= Cardinality(R)
            BY <3>1, FS_Subset
        <3> QED
            BY <3>1, <3>2
    <2> HIDE DEF has
    <2> QED
        BY <1>1, <1>8, <2>4
<1>10. ASSUME ~Complete(parts), ~(a.size + 1 > MaxMessageSize) PROVE AssemblyOk(n, b)
    <2>1. b.size = Cardinality(has) /\ b.size < b.count /\ b.size \in 1..MaxMessageSize
        <3> HIDE DEF b, has
        <3>1. MaxMessageSize \in Nat
            BY FramingAssumption
        <3> QED
            BY <1>1, <1>5, <1>8, <1>9, <1>10, <3>1
    <2>2. has = {i \in 1..b.count : b.parts[i] # -1}
        BY <1>5
    <2> HIDE DEF b, has
    <2> QED
        BY <1>1, <1>2, <1>5, <2>1, <2>2 DEF AssemblyOk
<1> HIDE DEF b
<1> QED
    BY <1>1, <1>2, <1>3, <1>4, <1>5, <1>10 DEF b, parts

\* p is a whole message of c parts.
Finished(n, c, p) == (\A i \in 1..c : p[i] \in 1..n) /\ p \in Seq(Nat) /\ Len(p) = c

\* The last part that was missing makes it whole.
LEMMA FilledAll ==
    ASSUME NEW n \in Nat, NEW f, Piece(n, f), NEW a, PartsOk(n, a), a.count = f.count,
           a.parts[f.index + 1] = -1, Complete(Filled(a, f))
    PROVE  Finished(n, a.count, Filled(a, f))
BY FilledIs DEF Finished

\* onFrame keeps the types.

\* What onFrame makes of the assemblies and of what is handed on: it hands the
\* frame on, drops the assembly, knows the part, adds it, or finishes the message.
Advance(A, D, f, A2, D2) ==
    LET E == Evict(A)
        a == For(E, f)
        with(x) == [E EXCEPT ![f.id] = x]
    IN \/ f.count = 1 /\ A2 = A /\ D2 = Append(D, <<f.msg>>)
       \/ /\ f.count # 1 /\ A2 = with(NoAssembly) /\ D2 = D
          /\ a.count # f.count \/ a.size + 1 > MaxMessageSize
       \/ /\ f.count # 1 /\ A2 = E /\ D2 = D /\ a.count = f.count
          /\ E[f.id] # NoAssembly /\ a = E[f.id] /\ a.parts[f.index + 1] # -1
       \/ /\ f.count # 1 /\ A2 = with(Grown(a, f)) /\ D2 = D /\ a.count = f.count
          /\ a.parts[f.index + 1] = -1 /\ ~Complete(Filled(a, f))
       \/ /\ f.count # 1 /\ A2 = with(NoAssembly) /\ D2 = Append(D, Filled(a, f))
          /\ a.count = f.count /\ a.parts[f.index + 1] = -1 /\ Complete(Filled(a, f))

\* It may also refuse to make an assembly.
Outcome(A, D, ref, f, A2, D2, r2) ==
    \/ Advance(A, D, f, A2, D2) /\ r2 = ref
    \/ f.count # 1 /\ A2 = Evict(A) /\ D2 = D /\ r2

\* One more message is handed on.
LEMMA DeliveredMore ==
    ASSUME NEW n \in Nat, NEW D, DeliveredOk(n, D), NEW e \in Seq(Nat),
           \A i \in DOMAIN e : e[i] <= n
    PROVE  /\ DeliveredOk(n, Append(D, e)) /\ Len(D) \in Nat /\ DOMAIN D = 1..Len(D)
           /\ DOMAIN Append(D, e) = 1..(Len(D) + 1) /\ Append(D, e)[Len(D) + 1] = e
           /\ \A k \in 1..Len(D) : Append(D, e)[k] = D[k]
<1>1. D \in Seq(Seq(Nat)) /\ \A k \in DOMAIN D : \A i \in DOMAIN D[k] : D[k][i] <= n
    BY DEF DeliveredOk
<1>2. /\ Append(D, e) \in Seq(Seq(Nat)) /\ DOMAIN D = 1..Len(D) /\ Len(D) \in Nat
      /\ DOMAIN Append(D, e) = 1..(Len(D) + 1)
      /\ Append(D, e)[Len(D) + 1] = e
      /\ \A k \in 1..Len(D) : Append(D, e)[k] = D[k]
    BY <1>1, AppendProperties
<1>3. \A k \in DOMAIN Append(D, e) : \/ k \in DOMAIN D /\ Append(D, e)[k] = D[k]
                                     \/ Append(D, e)[k] = e
    BY <1>2
<1>4. DeliveredOk(n, Append(D, e))
    BY <1>1, <1>2, <1>3 DEF DeliveredOk
<1> QED
    BY <1>2, <1>4

\* A single number is a message to hand on.
LEMMA OneIs ==
    ASSUME NEW m \in Nat
    PROVE  <<m>> \in Seq(Nat) /\ Len(<<m>>) = 1 /\ DOMAIN <<m>> = 1..1 /\ <<m>>[1] = m
           /\ \A i \in DOMAIN <<m>> : <<m>>[i] = m
OBVIOUS

\* onFrame has one of these outcomes, and keeps the types.
LEMMA Taken ==
    ASSUME NEW n \in Nat, NEW A, NEW D, NEW ref \in BOOLEAN, NEW f,
           AssembliesOk(n, A), DeliveredOk(n, D), Piece(n, f)
    PROVE  \E A2, D2 : \E r2 \in BOOLEAN :
              /\ OnFrame(Reassembler(A, D, ref), f) = Reassembler(A2, D2, r2)
              /\ AssembliesOk(n, A2) /\ DeliveredOk(n, D2)
              /\ Outcome(A, D, ref, f, A2, D2, r2)
<1> DEFINE E == Evict(A)
           a == For(E, f)
           parts == Filled(a, f)
           with(x) == [E EXCEPT ![f.id] = x]
           b == Grown(a, f)
           s == OnFrame(Reassembler(A, D, ref), f)
           one == <<f.msg>>
           yes == TRUE
           Good(A2, D2, r2) ==
              /\ s = Reassembler(A2, D2, r2)
              /\ AssembliesOk(n, A2) /\ DeliveredOk(n, D2)
              /\ Outcome(A, D, ref, f, A2, D2, r2) /\ r2 \in BOOLEAN
<1> SUFFICES \E A2, D2, r2 : Good(A2, D2, r2)
    OBVIOUS
<1>1. AssembliesOk(n, E) /\ AssembliesOk(n, A) /\ DeliveredOk(n, D)
    BY EvictIs
<1>2. /\ f.id \in MessageIds /\ f.msg \in Nat /\ f.msg >= 1 /\ f.msg <= n
      /\ f.count \in FrameCounts /\ f.count \in Nat \ {0} /\ f.index + 1 \in 1..f.count
    <2>1. /\ f.id \in MessageIds /\ f.msg \in 1..n
          /\ f.count \in FrameCounts /\ f.index \in 0..(f.count - 1)
        BY DEF Piece
    <2>2. f.count \in Nat \ {0}
        BY <2>1, FramingAssumption
    <2> QED
        BY <2>1, <2>2
<1>3. \/ f.count = 1 /\ s = Reassembler(A, Append(D, one), ref)
      \/ f.count # 1 /\ s = Reassembler(E, D, yes)
      \/ /\ f.count # 1 /\ s = Reassembler(with(NoAssembly), D, ref)
         /\ a.count # f.count \/ a.size + 1 > MaxMessageSize
      \/ /\ f.count # 1 /\ a.count = f.count /\ a.parts[f.index + 1] # -1
         /\ s = Reassembler(with(a), D, ref)
      \/ /\ f.count # 1 /\ a.count = f.count /\ a.parts[f.index + 1] = -1
         /\ (E[f.id] # NoAssembly \/ ~Full(E))
         /\ ~(a.size + 1 > MaxMessageSize) /\ ~Complete(parts)
         /\ s = Reassembler(with(b), D, ref)
      \/ /\ f.count # 1 /\ a.count = f.count /\ a.parts[f.index + 1] = -1
         /\ Complete(parts)
         /\ s = Reassembler(with(NoAssembly), Append(D, parts), ref)
    <2>1. Results(A, D, ref, f, s)
        BY OnFrameIs
    <2> HIDE DEF s
    <2> QED
        BY <2>1, Zenon DEF Results
<1>4. CASE f.count = 1 /\ s = Reassembler(A, Append(D, one), ref)
    <2>1. one \in Seq(Nat) /\ \A i \in DOMAIN one : one[i] <= n
        BY <1>2, OneIs
    <2>2. DeliveredOk(n, Append(D, one))
        <3> HIDE DEF one
        <3> QED
            BY <2>1, DeliveredMore
    <2>3. Outcome(A, D, ref, f, A, Append(D, one), ref)
        BY <1>4 DEF Outcome, Advance
    <2> HIDE DEF one, s
    <2>4. Good(A, Append(D, one), ref)
        BY <1>1, <1>4, <2>2, <2>3
    <2> QED
        BY <2>4
<1>5. CASE f.count # 1 /\ s = Reassembler(E, D, yes)
    <2>1. Outcome(A, D, ref, f, E, D, yes)
        BY <1>5, Zenon DEF Outcome, Advance
    <2>2. yes \in BOOLEAN
        OBVIOUS
    <2> HIDE DEF E, s, yes
    <2>3. Good(E, D, yes)
        BY <1>1, <1>5, <2>1, <2>2
    <2> QED
        BY <2>3
<1>6. f.count # 1 =>
      /\ PartsOk(n, a)
      /\ E[f.id] # NoAssembly => a = E[f.id] /\ AssemblyOk(n, E[f.id])
      /\ E[f.id] = NoAssembly => NoParts(a) /\ a.count = f.count
    <2> SUFFICES ASSUME f.count # 1
                 PROVE  /\ PartsOk(n, For(E, f))
                        /\ E[f.id] # NoAssembly => For(E, f) = E[f.id] /\ AssemblyOk(n, E[f.id])
                        /\ E[f.id] = NoAssembly => NoParts(For(E, f)) /\ For(E, f).count = f.count
        OBVIOUS
    <2> HIDE DEF E
    <2>1. AssembliesOk(n, E)
        BY <1>1
    <2>2. PartsOk(n, For(E, f))
        BY <2>1, ForIs
    <2>3. E[f.id] # NoAssembly => For(E, f) = E[f.id] /\ AssemblyOk(n, E[f.id])
        BY <2>1, ForIs
    <2>4. E[f.id] = NoAssembly => NoParts(For(E, f)) /\ For(E, f).count = f.count
        BY <2>1, ForIs
    <2> QED
        BY <2>2, <2>3, <2>4
<1>7. AssembliesOk(n, with(NoAssembly))
    <2> HIDE DEF E
    <2> QED
        BY <1>1, <1>2, Replaced
<1>8. CASE /\ f.count # 1 /\ s = Reassembler(with(NoAssembly), D, ref)
           /\ a.count # f.count \/ a.size + 1 > MaxMessageSize
    <2>1. Outcome(A, D, ref, f, with(NoAssembly), D, ref)
        BY <1>8, Zenon DEF Outcome, Advance
    <2> HIDE DEF with, s
    <2>2. Good(with(NoAssembly), D, ref)
        BY <1>1, <1>7, <1>8, <2>1
    <2> QED
        BY <2>2
<1>9. CASE /\ f.count # 1 /\ a.count = f.count /\ a.parts[f.index + 1] # -1
           /\ s = Reassembler(with(a), D, ref)
    <2> HIDE DEF E, a
    <2>1. E[f.id] # NoAssembly /\ a = E[f.id]
        BY <1>2, <1>6, <1>9 DEF NoParts
    <2>2. E \in [MessageIds -> Assembly \cup {NoAssembly}]
        BY <1>1 DEF AssembliesOk
    <2>3. with(a) = E
        BY <1>2, <2>1, <2>2
    <2>4. Outcome(A, D, ref, f, E, D, ref)
        BY <1>9, <2>1, Zenon DEF Outcome, Advance, E, a
    <2> HIDE DEF with, s
    <2>5. Good(E, D, ref)
        BY <1>1, <1>9, <2>3, <2>4
    <2> QED
        BY <2>5
<1>10. CASE /\ f.count # 1 /\ a.count = f.count /\ a.parts[f.index + 1] = -1
            /\ (E[f.id] # NoAssembly \/ ~Full(E))
            /\ ~(a.size + 1 > MaxMessageSize) /\ ~Complete(parts)
            /\ s = Reassembler(with(b), D, ref)
    <2>1. AssemblyOk(n, b)
        <3> HIDE DEF a
        <3>1. ~Complete(parts) /\ ~(a.size + 1 > MaxMessageSize) => AssemblyOk(n, b)
            BY <1>6, <1>10, FilledIs
        <3> QED
            BY <1>10, <3>1
    <2>2. Outcome(A, D, ref, f, with(b), D, ref)
        BY <1>10, Zenon DEF Outcome, Advance
    <2>3. AssembliesOk(n, with(b))
        <3> HIDE DEF E, b
        <3> QED
            BY <1>1, <1>2, <1>10, <2>1, Replaced
    <2> HIDE DEF with, b, s
    <2>4. Good(with(b), D, ref)
        BY <1>1, <1>10, <2>2, <2>3
    <2> QED
        BY <2>4
<1>11. CASE /\ f.count # 1 /\ a.count = f.count /\ a.parts[f.index + 1] = -1
            /\ Complete(parts)
            /\ s = Reassembler(with(NoAssembly), Append(D, parts), ref)
    <2>1. /\ \A i \in 1..a.count : parts[i] \in 1..n
          /\ parts \in Seq(Nat) /\ Len(parts) = a.count
        <3> HIDE DEF a
        <3>1. Complete(parts) => /\ \A i \in 1..a.count : parts[i] \in 1..n
                                 /\ parts \in Seq(Nat) /\ Len(parts) = a.count
            <4>1. PartsOk(n, a) /\ a.count = f.count /\ a.parts[f.index + 1] = -1
                BY <1>6, <1>11
            <4>2. Complete(Filled(a, f)) => Finished(n, a.count, Filled(a, f))
                BY <4>1, FilledAll
            <4> QED
                BY <4>2, Zenon DEF parts, Finished
        <3> QED
            BY <1>11, <3>1, Zenon
    <2>2. Outcome(A, D, ref, f, with(NoAssembly), Append(D, parts), ref)
        BY <1>11, Zenon DEF Outcome, Advance
    <2> HIDE DEF parts, with, s, a
    <2>3. \A i \in DOMAIN parts : parts[i] <= n
        BY <2>1
    <2>4. DeliveredOk(n, Append(D, parts))
        BY <1>1, <2>1, <2>3, DeliveredMore
    <2>5. Good(with(NoAssembly), Append(D, parts), ref)
        BY <1>7, <1>11, <2>2, <2>4
    <2> QED
        BY <2>5
<1> HIDE DEF Good, E, a, parts, with, b, s, one, yes
<1> QED
    BY <1>3, <1>4, <1>5, <1>8, <1>9, <1>10, <1>11, Zenon

-----------------------------------------------------------------------------
(* What holds when the decoder has come as far as element c                *)

\* The header of frame k is still to come.
Live(L, c, k) == c <= L.cut[k - 1] /\ L.stream[L.cut[k - 1] + 3].at = "fields"

\* The decoder is not inside a frame that is whole.
Outside(L, c) == \A k \in Count(L) : Whole(L, k) => c <= L.cut[k - 1] \/ L.cut[k] <= c

\* No frame took any damage.
AllWhole(L) == \A k \in Count(L) : Whole(L, k)

\* No frame from inside another has been handed on if all are whole.
NoInner(L, D) == AllWhole(L) => \A k \in DOMAIN D : D[k][1] # 0

\* An id to come stands for one message.
Unmixed(L, c) ==
    \A j, k \in Count(L) :
        Live(L, c, j) /\ Live(L, c, k) /\ L.frames[j].id = L.frames[k].id =>
            L.frames[j].msg = L.frames[k].msg

\* Assembly a of this id is for message m.
Collects(L, c, m, id, a) ==
    /\ a.count = L.sent[m] /\ a.parts \in [1..L.sent[m] -> {-1, m}]
    /\ \A k \in Count(L) : Live(L, c, k) /\ L.frames[k].id = id => L.frames[k].msg = m
    /\ \A k \in Count(L) :
          L.frames[k].msg = m /\ a.parts[L.frames[k].index + 1] = m =>
              L.cut[k] <= c /\ L.frames[k].id = id

\* Every assembly is for one message.
Collecting(L, c, A) ==
    \A id \in Pending(A) : \E m \in DOMAIN L.sent : Collects(L, c, m, id, A[id])

\* e is the whole of message m.
Entire(L, e, m) == m \in DOMAIN L.sent /\ e = [i \in 1..L.sent[m] |-> m]

\* Every frame to come is of a message after m.
After(L, c, m) == \A k \in Count(L) : c <= L.cut[k - 1] => m < L.frames[k].msg

\* Messages are handed on whole and in order, none of them before one to come.
HandedOn(L, c, D) ==
    /\ \A k \in DOMAIN D : D[k][1] # 0 => Entire(L, D[k], D[k][1]) /\ After(L, c, D[k][1])
    /\ \A j, k \in DOMAIN D : j < k /\ D[j][1] # 0 /\ D[k][1] # 0 => D[j][1] < D[k][1]

\* The message is not too long for the receiver.
Due(sn, m) == sn[m] = 1 \/ sn[m] <= MaxMessageSize

\* The message has been handed on.
Gone(D, m) == \E k \in DOMAIN D : D[k][1] = m

\* Frame k is in an assembly of its message.
StillHeld(L, A, k) ==
    LET f == L.frames[k] IN
    /\ A[f.id] # NoAssembly /\ A[f.id].count = f.count /\ A[f.id].parts[f.index + 1] = f.msg

\* No whole frame that the decoder is past is forgotten: its message has been
\* handed on, or an assembly holds it.
Accounted(L, c, A, D) ==
    /\ \A id \in Pending(A) : ~A[id].old
    /\ \A k \in Count(L) :
          L.cut[k] <= c /\ Whole(L, k) /\ Due(L.sent, L.frames[k].msg) =>
              Gone(D, L.frames[k].msg) \/ StillHeld(L, A, k)

\* What holds as long as no messageId came round while in use.
Unreused(L, c, A, D) == Unmixed(L, c) /\ Collecting(L, c, A) /\ HandedOn(L, c, D)

\* All of it, ref saying whether this piece had an assembly refused.
Ok(L, why, c, A, D, ref) ==
    /\ c \in Nat /\ c <= Len(L.stream) /\ Outside(L, c)
    /\ AssembliesOk(Len(L.sent), A) /\ DeliveredOk(Len(L.sent), D)
    /\ NoInner(L, D)
    /\ "reused" \notin why => Unreused(L, c, A, D)
    /\ why = {} /\ ~ref => Accounted(L, c, A, D)

\* Two frames of a message are in the order of their parts.
LEMMA LaidOrder ==
    ASSUME NEW L, Laid(L), NEW j \in Count(L), NEW k \in Count(L)
    PROVE  /\ j < k => \/ L.frames[j].msg < L.frames[k].msg
                       \/ /\ L.frames[j].msg = L.frames[k].msg
                          /\ L.frames[j].id = L.frames[k].id
                          /\ L.frames[j].index < L.frames[k].index
           /\ L.frames[j].msg = L.frames[k].msg => L.frames[j].id = L.frames[k].id
           /\ L.frames[j].msg = L.frames[k].msg /\ L.frames[j].index = L.frames[k].index => j = k
<1>1. \A i, l \in Count(L) : i < l =>
          \/ L.frames[i].msg < L.frames[l].msg
          \/ /\ L.frames[i].msg = L.frames[l].msg /\ L.frames[i].id = L.frames[l].id
             /\ L.frames[i].index < L.frames[l].index
    BY DEF Laid
<1>2. \A i \in Count(L) : i \in Nat /\ L.frames[i].msg \in Nat /\ L.frames[i].index \in Nat
    BY LaidFrame DEF Headers
<1>3. j < k \/ k < j \/ j = k
    BY <1>2
<1> QED
    BY <1>1, <1>2, <1>3

\* Further on, less is to come.
LEMMA Forward ==
    ASSUME NEW L, Laid(L), NEW c \in Nat, NEW c2 \in Nat, c <= c2
    PROVE  /\ \A k \in Count(L) : Live(L, c2, k) => Live(L, c, k)
           /\ \A m : After(L, c, m) => After(L, c2, m)
           /\ Unmixed(L, c) => Unmixed(L, c2)
           /\ \A m, id, a : Collects(L, c, m, id, a) => Collects(L, c2, m, id, a)
           /\ \A A : Collecting(L, c, A) => Collecting(L, c2, A)
           /\ \A D : HandedOn(L, c, D) => HandedOn(L, c2, D)
<1>1. \A k \in Count(L) : L.cut[k - 1] \in Nat /\ L.cut[k] \in Nat
    BY LaidFrame
<1>2. \A k \in Count(L) : Live(L, c2, k) => Live(L, c, k)
    BY <1>1 DEF Live
<1>3. \A m : After(L, c, m) => After(L, c2, m)
    BY <1>1 DEF After
<1>4. Unmixed(L, c) => Unmixed(L, c2)
    BY <1>2 DEF Unmixed
<1>5. ASSUME NEW m, NEW id, NEW a, Collects(L, c, m, id, a) PROVE Collects(L, c2, m, id, a)
    <2>1. \A k \in Count(L) : L.cut[k] <= c => L.cut[k] <= c2
        BY <1>1
    <2> QED
        BY <1>2, <1>5, <2>1 DEF Collects
<1>6. \A A : Collecting(L, c, A) => Collecting(L, c2, A)
    BY <1>5 DEF Collecting
<1>7. \A D : HandedOn(L, c, D) => HandedOn(L, c2, D)
    BY <1>3 DEF HandedOn
<1> QED
    BY <1>2, <1>3, <1>4, <1>5, <1>6, <1>7

\* A whole frame is seen where it begins.
LEMMA WholeSeen ==
    ASSUME NEW L, Laid(L), NEW k \in Count(L), Whole(L, k)
    PROVE  /\ ~NoFrame(L.stream, L.cut[k - 1] + 1) /\ ~Incomplete(L.stream, L.cut[k - 1] + 1)
           /\ L.stream[L.cut[k - 1] + 3] = Fields(L.frames[k])
           /\ \A c : c <= L.cut[k - 1] => Live(L, c, k)
<1> DEFINE f == L.frames[k]
           b == L.stream
           i == L.cut[k - 1] + 1
<1>1. /\ f \in Headers /\ Size(f) \in 4..8 /\ L.cut[k - 1] \in Nat /\ L.cut[k] \in Nat
      /\ L.cut[k] = L.cut[k - 1] + Size(f) /\ Size(f) \in Nat
    BY LaidFrame
<1>2. L.cut[k] <= Len(b) /\ Len(b) \in Nat
    <2>1. k \in 0..Len(L.frames)
        BY LaidFrame
    <2>2. L.cut[k] \in 0..Len(b) /\ Len(b) \in Nat
        BY <2>1, LaidCuts
    <2> QED
        BY <2>2
<1>3. b \in Seq(Elements)
    BY DEF Laid
<1>4. Intact(b, i, f)
    BY DEF Whole
<1> HIDE DEF f, b
<1>5. i + Size(f) - 1 = L.cut[k] /\ i + 3 <= Len(b) /\ i \in 1..(Len(b) + 1)
    <2>1. \A p, q, s, l \in Int : q = p + s /\ s \in 4..8 /\ q <= l /\ p >= 0 =>
              p + 1 + s - 1 = q /\ p + 1 + 3 <= l /\ p + 1 \in 1..(l + 1)
        OBVIOUS
    <2>2. L.cut[k - 1] \in Int /\ L.cut[k] \in Int /\ Size(f) \in Int /\ Len(b) \in Int
          /\ L.cut[k - 1] >= 0
        BY <1>1, <1>2
    <2> QED
        BY <1>1, <1>2, <2>1, <2>2
<1>6. b[i] = Magic[1] /\ b[i + 1] = Magic[2] /\ b[i + 2] = Fields(f)
    <2>1. \A x \in 1..Size(f) : b[i + x - 1] = Encode(f)[x]
        BY <1>4 DEF Intact
    <2>2. 1 \in 1..Size(f) /\ 2 \in 1..Size(f) /\ 3 \in 1..Size(f)
          /\ i + 1 - 1 = i /\ i + 2 - 1 = i + 1 /\ i + 3 - 1 = i + 2
        BY <1>1
    <2>3. Encode(f)[1] = Magic[1] /\ Encode(f)[2] = Magic[2] /\ Encode(f)[3] = Fields(f)
        BY <1>1, EncodeIs
    <2> HIDE DEF i
    <2> QED
        BY <2>1, <2>2, <2>3
<1>7. b[i + 2].at = "fields" /\ Candidate(b, i) = f
    BY <1>6, ElementsDiffer DEF Candidate
<1>8. FrameEnd(b, i) = L.cut[k]
    BY <1>5, <1>7 DEF FrameEnd
<1>9. MaxFrameSize \in Nat /\ MaxFrameSize >= 8
    BY FramingAssumption
<1>10. ~(Size(f) > MaxFrameSize)
    BY <1>1, <1>9
<1>11. ~NoFrame(b, i)
    <2> HIDE DEF i
    <2> QED
        <3>1. NoFrame(b, i) <=>
                 \/ i <= Len(b) /\ b[i] # Magic[1]
                 \/ i + 1 <= Len(b) /\ b[i + 1] # Magic[2]
                 \/ i + 3 <= Len(b) /\ b[i + 2].at # "fields"
                 \/ /\ i + 3 <= Len(b) /\ b[i + 2].at = "fields"
                    /\ Size(Candidate(b, i)) > MaxFrameSize
                 \/ /\ i + 3 <= Len(b) /\ b[i + 2].at = "fields"
                    /\ FrameEnd(b, i) <= Len(b) /\ ~Intact(b, i, Candidate(b, i))
            BY <1>3, <1>5, NoFrameIs
        <3> QED
            BY <1>4, <1>6, <1>7, <1>10, <3>1
<1>12. ~Incomplete(b, i)
    <2> HIDE DEF i
    <2>1. ~(FrameEnd(b, i) > Len(b))
        BY <1>1, <1>2, <1>8
    <2>2. i \in Int /\ ~(i + 3 > Len(b))
        BY <1>2, <1>5
    <2> QED
        BY <2>1, <2>2 DEF Incomplete
<1>13. L.cut[k - 1] + 3 = i + 2
    BY <1>1
<1>14. b[L.cut[k - 1] + 3] = Fields(f) /\ Fields(f).at = "fields"
    BY <1>6, <1>13, ElementsDiffer
<1>15. \A c : c <= L.cut[k - 1] => Live(L, c, k)
    BY <1>14 DEF Live, b
<1> QED
    BY <1>11, <1>12, <1>14, <1>15 DEF b, f

\* Nothing is lost where no frame begins.
LEMMA Skip ==
    ASSUME NEW L, Laid(L), NEW why, NEW c, NEW A, NEW D, NEW ref, Ok(L, why, c, A, D, ref),
           NoFrame(L.stream, c + 1)
    PROVE  Ok(L, why, c + 1, A, D, ref)
<1>1. /\ c \in Nat /\ c <= Len(L.stream) /\ Outside(L, c) /\ NoInner(L, D)
      /\ AssembliesOk(Len(L.sent), A) /\ DeliveredOk(Len(L.sent), D)
      /\ "reused" \notin why => Unreused(L, c, A, D)
      /\ why = {} /\ ~ref => Accounted(L, c, A, D)
    BY DEF Ok
<1>2. c + 1 <= Len(L.stream) /\ c + 1 \in Nat /\ c <= c + 1
    <2>1. L.stream \in Seq(Elements) /\ Len(L.stream) \in Nat
        BY LaidCuts DEF Laid
    <2>2. c + 1 \in 1..(Len(L.stream) + 1)
        BY <1>1, <2>1
    <2> QED
        BY <1>1, <2>1, <2>2, DecoderSees
<1>3. \A k \in Count(L) : /\ L.cut[k - 1] \in Nat /\ L.cut[k] \in Nat
                          /\ L.cut[k - 1] < L.cut[k]
    <2> TAKE k \in Count(L)
    <2>1. /\ L.cut[k - 1] \in Nat /\ L.cut[k] \in Nat
          /\ L.cut[k] = L.cut[k - 1] + Size(L.frames[k]) /\ Size(L.frames[k]) \in 4..8
        BY LaidFrame
    <2> QED
        BY <2>1
<1>4. ASSUME NEW k \in Count(L), Whole(L, k)
      PROVE  /\ c + 1 <= L.cut[k - 1] \/ L.cut[k] <= c + 1
             /\ L.cut[k] <= c + 1 => L.cut[k] <= c
    <2>1. c <= L.cut[k - 1] \/ L.cut[k] <= c
        BY <1>1, <1>4 DEF Outside
    <2>2. c # L.cut[k - 1]
        BY <1>4, WholeSeen
    <2> QED
        BY <1>1, <1>3, <2>1, <2>2
<1>5. Outside(L, c + 1)
    BY <1>4 DEF Outside
<1>6. "reused" \notin why => Unreused(L, c + 1, A, D)
    BY <1>1, <1>2, Forward DEF Unreused
<1>7. why = {} /\ ~ref => Accounted(L, c + 1, A, D)
    BY <1>1, <1>4 DEF Accounted
<1> QED
    BY <1>1, <1>2, <1>5, <1>6, <1>7 DEF Ok

\* Where the decoder is after the frame inside another.
LEMMA InnerPlaces ==
    ASSUME NEW L, Laid(L), NEW c \in Nat, NEW k \in Count(L), c = L.cut[k - 1] + 3,
           L.cut[k] = L.cut[k - 1] + 8
    PROVE  /\ c + 4 \in Nat /\ c + 4 <= Len(L.stream) /\ c <= c + 4
           /\ L.cut[k - 1] \in Nat /\ L.cut[k] \in Nat
           /\ L.cut[k - 1] < c /\ c < L.cut[k]
           /\ \A j \in Count(L) :
                 /\ c <= L.cut[j - 1] => c + 4 <= L.cut[j - 1]
                 /\ L.cut[j] <= c + 4 => L.cut[j] <= c
                 /\ L.cut[j] \in Nat /\ L.cut[j - 1] \in Nat
<1>2. Len(L.stream) \in Nat
    BY LaidCuts
<1>8. /\ L.cut[k - 1] \in Nat /\ L.cut[k] \in Nat /\ L.cut[k] <= Len(L.stream)
    <2>1. k \in 0..Len(L.frames)
        BY LaidFrame
    <2>2. L.cut[k] \in 0..Len(L.stream)
        BY <2>1, LaidCuts
    <2> QED
        BY <2>2, <1>2, LaidFrame
<1> DEFINE p == L.cut[k - 1]
           q == L.cut[k]
<1>7. p \in Nat /\ q \in Nat /\ q <= Len(L.stream) /\ c = p + 3 /\ q = p + 8
    BY <1>8
<1> HIDE DEF p, q
<1>9. c + 4 \in Nat /\ c + 4 <= Len(L.stream) /\ c <= c + 4 /\ c + 4 < q /\ c < q /\ p < c
    BY <1>2, <1>7
<1>11. ASSUME NEW j \in Count(L)
       PROVE  /\ c <= L.cut[j - 1] => c + 4 <= L.cut[j - 1]
              /\ L.cut[j] <= c + 4 => L.cut[j] <= c
              /\ L.cut[j] \in Nat /\ L.cut[j - 1] \in Nat
    <2>1. j \in Nat /\ k \in Nat /\ L.cut[j] \in Nat /\ L.cut[j - 1] \in Nat
        BY LaidFrame
    <2>2. CASE j < k
        <3>1. L.cut[j] <= p
            BY <2>2, LaidCuts DEF p
        <3>2. L.cut[j - 1] <= L.cut[j]
            <4>1. L.cut[j] = L.cut[j - 1] + Size(L.frames[j]) /\ Size(L.frames[j]) \in 4..8
                BY LaidFrame
            <4> QED
                BY <2>1, <4>1
        <3> QED
            <4>1. \A x, y \in Int : y <= p /\ x <= y => ~(c <= x) /\ y <= c
                BY <1>7, <1>9
            <4> QED
                BY <2>1, <3>1, <3>2, <4>1
    <2>3. CASE k < j
        <3>1. q <= L.cut[j - 1]
            BY <2>3, LaidCuts DEF q
        <3>2. L.cut[j - 1] <= L.cut[j]
            <4>1. L.cut[j] = L.cut[j - 1] + Size(L.frames[j]) /\ Size(L.frames[j]) \in 4..8
                BY LaidFrame
            <4> QED
                BY <2>1, <4>1
        <3> QED
            <4>1. \A x, y \in Int : q <= x /\ x <= y => c + 4 <= x /\ ~(y <= c + 4)
                BY <1>7, <1>9
            <4> QED
                BY <2>1, <3>1, <3>2, <4>1
    <2>4. CASE j = k
        <3>1. L.cut[j] = q /\ L.cut[j - 1] = p
            BY <2>4 DEF p, q
        <3> QED
            BY <1>7, <1>9, <2>1, <3>1, SMTT(30)
    <2> QED
        BY <2>1, <2>2, <2>3, <2>4
<1> QED
    BY <1>7, <1>9, <1>11, SMTT(30)

\* The frame inside a damaged one is handed on and changes nothing else.
LEMMA FindInner ==
    ASSUME NEW L, Laid(L), NEW why, NEW c, NEW A, NEW D, NEW ref \in BOOLEAN,
           Ok(L, why, c, A, D, ref),
           NEW k \in Count(L), c = L.cut[k - 1] + 3, L.cut[k] = L.cut[k - 1] + 8
    PROVE  /\ OnFrame(Reassembler(A, D, ref), Inner) = Reassembler(A, Append(D, <<0>>), ref)
           /\ Ok(L, why, c + 4, A, Append(D, <<0>>), ref)
<1> DEFINE one == <<0>>
           D2 == Append(D, one)
           n == Len(L.sent)
<1>1. /\ c \in Nat /\ c <= Len(L.stream) /\ Outside(L, c) /\ NoInner(L, D)
      /\ AssembliesOk(n, A) /\ DeliveredOk(n, D)
      /\ "reused" \notin why => Unreused(L, c, A, D)
      /\ why = {} /\ ~ref => Accounted(L, c, A, D)
    BY DEF Ok
<1>2. n \in Nat /\ Len(L.stream) \in Nat
    BY LaidCuts DEF Laid
<1>3. OnFrame(Reassembler(A, D, ref), Inner) = Reassembler(A, D2, ref)
    <2>1. Inner.count = 1 /\ Inner.msg = 0
        BY DEF Inner, Frame
    <2>2. Results(A, D, ref, Inner, OnFrame(Reassembler(A, D, ref), Inner))
        BY OnFrameIs
    <2> DEFINE s == OnFrame(Reassembler(A, D, ref), Inner)
    <2> HIDE DEF s
    <2>3. s = Reassembler(A, Append(D, <<Inner.msg>>), ref)
        BY <2>1, <2>2, Zenon DEF Results, s
    <2> QED
        BY <2>1, <2>3, Zenon DEF s
<1>4. one \in Seq(Nat) /\ one[1] = 0 /\ \A i \in DOMAIN one : one[i] <= n
    BY <1>2, OneIs
<1> HIDE DEF one, n
<1>5. /\ DeliveredOk(n, D2) /\ Len(D) \in Nat /\ DOMAIN D = 1..Len(D)
      /\ DOMAIN D2 = 1..(Len(D) + 1) /\ D2[Len(D) + 1] = one
      /\ \A j \in 1..Len(D) : D2[j] = D[j]
    BY <1>1, <1>2, <1>4, DeliveredMore
<1> HIDE DEF D2
<1>6. \A j \in DOMAIN D2 : \/ j \in DOMAIN D /\ D2[j] = D[j]
                           \/ j = Len(D) + 1 /\ D2[j][1] = 0
    BY <1>4, <1>5
<1>7. \A j \in DOMAIN D : j \in DOMAIN D2 /\ D2[j] = D[j]
    BY <1>5
<1>9. /\ c + 4 \in Nat /\ c + 4 <= Len(L.stream) /\ c <= c + 4
      /\ L.cut[k - 1] \in Nat /\ L.cut[k] \in Nat
      /\ L.cut[k - 1] < c /\ c < L.cut[k]
      /\ \A j \in Count(L) :
            /\ c <= L.cut[j - 1] => c + 4 <= L.cut[j - 1]
            /\ L.cut[j] <= c + 4 => L.cut[j] <= c
            /\ L.cut[j] \in Nat /\ L.cut[j - 1] \in Nat
    BY <1>1, InnerPlaces
<1>10. ~Whole(L, k)
    BY <1>1, <1>9 DEF Outside
<1>12. Outside(L, c + 4)
    <2>1. ASSUME NEW j \in Count(L), Whole(L, j)
          PROVE  c + 4 <= L.cut[j - 1] \/ L.cut[j] <= c + 4
        <3>1. c <= L.cut[j - 1] \/ L.cut[j] <= c
            BY <1>1, <2>1 DEF Outside
        <3> QED
            BY <1>9, <3>1
    <2> QED
        BY <2>1 DEF Outside
<1>13. NoInner(L, D2)
    BY <1>10 DEF NoInner, AllWhole
<1>14. ASSUME "reused" \notin why PROVE Unreused(L, c + 4, A, D2)
    <2>1. Unmixed(L, c + 4) /\ Collecting(L, c + 4, A) /\ HandedOn(L, c + 4, D)
        BY <1>1, <1>9, <1>14, Forward DEF Unreused
    <2>2. HandedOn(L, c + 4, D2)
        <3>1. \A j \in DOMAIN D2 : D2[j][1] # 0 => j \in DOMAIN D /\ D2[j] = D[j]
            BY <1>6
        <3> QED
            BY <2>1, <3>1 DEF HandedOn
    <2> QED
        BY <2>1, <2>2 DEF Unreused
<1>15. ASSUME why = {}, ~ref PROVE Accounted(L, c + 4, A, D2)
    <2>1. Accounted(L, c, A, D)
        BY <1>1, <1>15
    <2>2. \A m : Gone(D, m) => Gone(D2, m)
        BY <1>7 DEF Gone
    <2> QED
        BY <1>9, <2>1, <2>2 DEF Accounted
<1>16. Ok(L, why, c + 4, A, D2, ref)
    BY <1>1, <1>5, <1>9, <1>12, <1>13, <1>14, <1>15 DEF Ok, n
<1> QED
    BY <1>3, <1>16 DEF D2, one

-----------------------------------------------------------------------------
(* A whole frame is found                                                  *)

\* Where the decoder is after a whole frame.
LEMMA FrameFound ==
    ASSUME NEW L, Laid(L), NEW k \in Count(L), Whole(L, k)
    PROVE  /\ L.cut[k - 1] \in Nat /\ L.cut[k] \in Nat /\ L.cut[k - 1] < L.cut[k]
           /\ L.cut[k] <= Len(L.stream)
           /\ Outside(L, L.cut[k - 1]) => Outside(L, L.cut[k])
           /\ \A j \in Count(L) :
                 /\ L.cut[j] \in Nat /\ L.cut[j - 1] \in Nat /\ L.cut[j - 1] < L.cut[j]
                 /\ L.cut[j] <= L.cut[k] => L.cut[j] <= L.cut[k - 1] \/ j = k
                 /\ L.cut[k] <= L.cut[j - 1] => k < j
<1>1. /\ L.cut[k - 1] \in Nat /\ L.cut[k] \in Nat /\ L.cut[k] <= Len(L.stream)
    <2>1. k \in 0..Len(L.frames) /\ L.cut[k - 1] \in Nat
        BY LaidFrame
    <2>2. L.cut[k] \in 0..Len(L.stream) /\ Len(L.stream) \in Nat
        BY <2>1, LaidCuts
    <2> QED
        BY <2>1, <2>2
<1>2. ASSUME NEW j \in Count(L)
      PROVE  L.cut[j] \in Nat /\ L.cut[j - 1] \in Nat /\ L.cut[j - 1] < L.cut[j] /\ j \in Nat
    <2>1. /\ L.cut[j] \in Nat /\ L.cut[j - 1] \in Nat /\ j \in Nat
          /\ L.cut[j] = L.cut[j - 1] + Size(L.frames[j]) /\ Size(L.frames[j]) \in 4..8
        BY LaidFrame
    <2> QED
        BY <2>1
<1>3. ASSUME NEW j \in Count(L)
      PROVE  /\ L.cut[j] <= L.cut[k] => L.cut[j] <= L.cut[k - 1] \/ j = k
             /\ L.cut[k] <= L.cut[j - 1] => k < j
             /\ L.cut[k - 1] <= L.cut[j - 1] => j = k \/ L.cut[k] <= L.cut[j - 1]
    <2>1. j < k => L.cut[j] <= L.cut[k - 1]
        BY LaidCuts
    <2>2. k < j => L.cut[k] <= L.cut[j - 1]
        BY LaidCuts
    <2> QED
        BY <1>1, <1>2, <2>1, <2>2
<1>4. Outside(L, L.cut[k - 1]) => Outside(L, L.cut[k])
    <2> SUFFICES ASSUME Outside(L, L.cut[k - 1]), NEW j \in Count(L), Whole(L, j)
                 PROVE  L.cut[k] <= L.cut[j - 1] \/ L.cut[j] <= L.cut[k]
        BY DEF Outside
    <2>1. L.cut[k - 1] <= L.cut[j - 1] \/ L.cut[j] <= L.cut[k - 1]
        BY DEF Outside
    <2> QED
        BY <1>1, <1>2, <1>3, <2>1
<1> QED
    BY <1>1, <1>2, <1>3, <1>4

\* A message is handed on whole, before all others to come.
LEMMA HandOne ==
    ASSUME NEW L, Laid(L), NEW k \in Count(L), NEW c \in Nat, c <= L.cut[k - 1],
           NEW c2 \in Nat, c <= c2, NEW n \in Nat, NEW D, DeliveredOk(n, D), HandedOn(L, c, D),
           NEW e \in Seq(Nat), \A i \in DOMAIN e : e[i] <= n,
           e[1] = L.frames[k].msg, Entire(L, e, e[1]), After(L, c2, e[1])
    PROVE  HandedOn(L, c2, Append(D, e))
<1> DEFINE D2 == Append(D, e)
<1>1. /\ Len(D) \in Nat /\ DOMAIN D = 1..Len(D)
      /\ DOMAIN D2 = 1..(Len(D) + 1) /\ D2[Len(D) + 1] = e
      /\ \A j \in 1..Len(D) : D2[j] = D[j]
    BY DeliveredMore
<1> HIDE DEF D2
<1>2. \A j \in DOMAIN D2 : \/ j \in DOMAIN D /\ D2[j] = D[j] /\ j < Len(D) + 1
                           \/ j = Len(D) + 1 /\ D2[j] = e
    BY <1>1
<1>3. \A j \in DOMAIN D : D[j][1] # 0 => /\ Entire(L, D[j], D[j][1]) /\ After(L, c2, D[j][1])
                                         /\ D[j][1] < e[1]
    BY Forward DEF HandedOn, After
<1>4. \A i, j \in DOMAIN D : i < j /\ D[i][1] # 0 /\ D[j][1] # 0 => D[i][1] < D[j][1]
    BY DEF HandedOn
<1>5. ASSUME NEW j \in DOMAIN D2, D2[j][1] # 0
      PROVE  Entire(L, D2[j], D2[j][1]) /\ After(L, c2, D2[j][1])
    BY <1>2, <1>3, <1>5
<1>6. ASSUME NEW i \in DOMAIN D2, NEW j \in DOMAIN D2, i < j, D2[i][1] # 0, D2[j][1] # 0
      PROVE  D2[i][1] < D2[j][1]
    <2>1. i # Len(D) + 1 /\ i \in Nat /\ j \in Nat
        BY <1>1, <1>6
    <2>2. i \in DOMAIN D /\ D2[i] = D[i]
        BY <1>2, <2>1
    <2>3. CASE j = Len(D) + 1 /\ D2[j] = e
        BY <1>3, <1>6, <2>2, <2>3
    <2>4. CASE j \in DOMAIN D /\ D2[j] = D[j]
        BY <1>4, <1>6, <2>2, <2>4
    <2> QED
        BY <1>2, <2>3, <2>4
<1>7. HandedOn(L, c2, D2)
    BY <1>5, <1>6 DEF HandedOn
<1> QED
    BY <1>7 DEF D2

\* The assembly a frame is for is for its message.
LEMMA ForMessage ==
    ASSUME NEW L, Laid(L), NEW k \in Count(L), NEW c, Live(L, c, k), NEW n \in Nat, NEW E,
           Unmixed(L, c), Collecting(L, c, E), AssembliesOk(n, E),
           Piece(n, L.frames[k]), L.frames[k].count # 1
    PROVE  LET f == L.frames[k] IN Collects(L, c, f.msg, f.id, For(E, f))
<1> DEFINE f == L.frames[k]
<1>1. f.msg \in DOMAIN L.sent /\ f.id \in MessageIds /\ f.count = L.sent[f.msg]
    BY LaidFrame
<1>2. CASE E[f.id] # NoAssembly
    <2>1. f.id \in Pending(E)
        BY <1>1, <1>2 DEF Pending
    <2>2. PICK m \in DOMAIN L.sent : Collects(L, c, m, f.id, E[f.id])
        BY <2>1 DEF Collecting
    <2>3. f.msg = m
        BY <2>2 DEF Collects
    <2> QED
        BY <1>2, <2>2, <2>3 DEF For
<1>3. CASE E[f.id] = NoAssembly
    <2> DEFINE a == For(E, f)
    <2>1. a.count = f.count /\ a.parts = [i \in 1..f.count |-> -1]
        BY <1>3 DEF For, NewAssembly
    <2>2. a.parts \in [1..L.sent[f.msg] -> {-1, f.msg}]
        BY <1>1, <2>1
    <2>3. ASSUME NEW j \in Count(L), L.frames[j].msg = f.msg
          PROVE  a.parts[L.frames[j].index + 1] # f.msg
        <3>0. /\ L.frames[j].count = L.sent[L.frames[j].msg]
              /\ L.frames[j].index \in 0..(L.frames[j].count - 1)
            BY LaidFrame
        <3>1. L.frames[j].index \in 0..(f.count - 1) /\ f.msg \in Nat /\ f.msg >= 1
              /\ f.count \in Nat \ {0}
            <4>1. f.msg \in Nat /\ f.msg >= 1 /\ f.count \in Nat \ {0}
                BY LaidFrame
            <4> QED
                BY <1>1, <2>3, <3>0, <4>1
        <3>2. L.frames[j].index + 1 \in 1..f.count
            BY <3>1
        <3>3. a.parts[L.frames[j].index + 1] = -1
            BY <2>1, <3>2
        <3> QED
            BY <3>1, <3>3
    <2>4. \A j \in Count(L) : Live(L, c, j) /\ L.frames[j].id = f.id => L.frames[j].msg = f.msg
        BY DEF Unmixed
    <2> HIDE DEF a
    <2> QED
        BY <1>1, <2>1, <2>2, <2>3, <2>4 DEF Collects, a
<1> QED
    BY <1>2, <1>3

\* Collecting holds with one assembly replaced by one that collects, or by none.
LEMMA CollectingReplaced ==
    ASSUME NEW L, NEW c, NEW n \in Nat, NEW E, AssembliesOk(n, E), Collecting(L, c, E),
           NEW id \in MessageIds, NEW x,
           x = NoAssembly \/ \E m \in DOMAIN L.sent : Collects(L, c, m, id, x)
    PROVE  Collecting(L, c, [E EXCEPT ![id] = x])
<1> DEFINE G == [E EXCEPT ![id] = x]
<1>1. E \in [MessageIds -> Assembly \cup {NoAssembly}]
    BY DEF AssembliesOk
<1>2. G[id] = x /\ \A i \in MessageIds : i # id => G[i] = E[i]
    BY <1>1
<1> HIDE DEF G
<1>3. ASSUME NEW i \in Pending(G) PROVE \E m \in DOMAIN L.sent : Collects(L, c, m, i, G[i])
    <2>1. i \in MessageIds /\ G[i] # NoAssembly
        BY DEF Pending
    <2>2. CASE i = id
        BY <1>2, <2>1, <2>2
    <2>3. CASE i # id
        BY <1>2, <2>1, <2>3 DEF Collecting, Pending
    <2> QED
        BY <2>2, <2>3
<1>4. Collecting(L, c, G)
    BY <1>3 DEF Collecting
<1> QED
    BY <1>4 DEF G

\* Evicting leaves assemblies that collect.
LEMMA CollectingEvict ==
    ASSUME NEW L, NEW c, NEW n \in Nat, NEW A, AssembliesOk(n, A), Collecting(L, c, A)
    PROVE  Collecting(L, c, Evict(A))
<1>1. \A id \in MessageIds : Evict(A)[id] = NoAssembly \/ Evict(A)[id] = A[id]
    BY EvictIs
<1>2. \A id \in Pending(Evict(A)) : id \in Pending(A) /\ Evict(A)[id] = A[id]
    BY <1>1 DEF Pending
<1> QED
    BY <1>2 DEF Collecting

\* An assembly collects with the part that has come filled in.
LEMMA GrownCollects ==
    ASSUME NEW L, Laid(L), NEW k \in Count(L), Whole(L, k), NEW n \in Nat, NEW a,
           Piece(n, L.frames[k]), PartsOk(n, a), a.count = L.frames[k].count,
           a.parts[L.frames[k].index + 1] = -1,
           Collects(L, L.cut[k - 1], L.frames[k].msg, L.frames[k].id, a)
    PROVE  LET f == L.frames[k]
           IN /\ Collects(L, L.cut[k], f.msg, f.id, Grown(a, f))
              /\ Filled(a, f)[f.index + 1] = f.msg
              /\ Complete(Filled(a, f)) =>
                    /\ Filled(a, f) = [i \in 1..L.sent[f.msg] |-> f.msg]
                    /\ Filled(a, f)[1] = f.msg
                    /\ After(L, L.cut[k], f.msg)
<1> DEFINE f == L.frames[k]
           m == f.msg
           p == Filled(a, f)
           c == L.cut[k - 1]
           c2 == L.cut[k]
<1>1. /\ p \in [1..a.count -> {-1} \cup 1..n] /\ f.index + 1 \in 1..a.count
      /\ p[f.index + 1] = m /\ \A i \in 1..a.count : i # f.index + 1 => p[i] = a.parts[i]
      /\ Grown(a, f).count = a.count /\ Grown(a, f).parts = p
      /\ a.count \in Nat
    BY FilledIs, SMTT(30)
<1>2. Complete(p) => /\ \A i \in 1..a.count : p[i] \in 1..n
                     /\ p \in Seq(Nat) /\ Len(p) = a.count
    BY FilledIs
<1>3. /\ a.count = L.sent[m] /\ a.parts \in [1..a.count -> {-1, m}]
      /\ \A j \in Count(L) : Live(L, c, j) /\ L.frames[j].id = f.id => L.frames[j].msg = m
      /\ \A j \in Count(L) : L.frames[j].msg = m /\ a.parts[L.frames[j].index + 1] = m =>
            L.cut[j] <= c /\ L.frames[j].id = f.id
    BY DEF Collects
<1>4. /\ c \in Nat /\ c2 \in Nat /\ c < c2
      /\ \A j \in Count(L) : L.cut[j] \in Nat /\ L.cut[j - 1] \in Nat /\ L.cut[j - 1] < L.cut[j]
      /\ \A j \in Count(L) : c2 <= L.cut[j - 1] => k < j
    BY FrameFound
<1>5. /\ f.count = L.sent[m] /\ f.count \in Nat \ {0} /\ m \in Nat /\ m >= 1
      /\ f.index \in 0..(f.count - 1)
    BY LaidFrame
<1>6. ASSUME NEW j \in Count(L), L.frames[j].msg = m
      PROVE  /\ L.frames[j].index \in 0..(f.count - 1) /\ L.frames[j].index + 1 \in 1..a.count
             /\ L.frames[j].index \in Nat /\ f.index \in Nat
    <2>1. /\ L.frames[j].count = L.sent[L.frames[j].msg]
          /\ L.frames[j].index \in 0..(L.frames[j].count - 1)
        BY LaidFrame
    <2>2. L.frames[j].index \in 0..(f.count - 1)
        BY <1>5, <1>6, <2>1
    <2>3. \A x \in Nat : \A y \in 0..(x - 1) : y \in Nat /\ y + 1 \in 1..x
        OBVIOUS
    <2>4. f.count \in Nat /\ a.count = f.count
        BY <1>3, <1>5
    <2>5. L.frames[j].index \in Nat /\ L.frames[j].index + 1 \in 1..f.count /\ f.index \in Nat
        BY <1>5, <2>2, <2>3, <2>4
    <2> QED
        BY <2>2, <2>4, <2>5
<1>7. p \in [1..a.count -> {-1, m}]
    <2>1. \A i \in 1..a.count : p[i] \in {-1, m}
        <3> HIDE DEF p, m, f
        <3> QED
            BY <1>1, <1>3
    <2> HIDE DEF p, m, f
    <2> QED
        BY <1>1, <2>1
<1>8. ASSUME NEW j \in Count(L), L.frames[j].msg = m, p[L.frames[j].index + 1] = m
      PROVE  L.cut[j] <= c2 /\ L.frames[j].id = f.id
    <2>1. CASE L.frames[j].index = f.index
        <3>1. j = k
            BY <1>8, <2>1, LaidOrder
        <3> QED
            BY <1>4, <3>1
    <2>2. CASE L.frames[j].index # f.index
        <3>1. L.frames[j].index + 1 # f.index + 1
            BY <1>6, <1>8, <2>2
        <3>2. a.parts[L.frames[j].index + 1] = m
            <4> HIDE DEF p
            <4> QED
                BY <1>1, <1>6, <1>8, <3>1
        <3>3. L.cut[j] <= c /\ L.frames[j].id = f.id
            BY <1>3, <1>8, <3>2
        <3> QED
            BY <1>4, <3>3
    <2> QED
        BY <2>1, <2>2
<1>9. \A j \in Count(L) : Live(L, c2, j) => Live(L, c, j)
    BY <1>4, Forward
<1>10. Collects(L, c2, m, f.id, Grown(a, f))
    <2> HIDE DEF p, c, c2, m
    <2> QED
        BY <1>1, <1>3, <1>7, <1>8, <1>9 DEF Collects
<1>11. ASSUME Complete(p) PROVE p = [i \in 1..L.sent[m] |-> m] /\ p[1] = m /\ After(L, c2, m)
    <2>1. \A i \in 1..a.count : p[i] = m
        <3>1. \A i \in 1..a.count : p[i] # -1
            <4> HIDE DEF p
            <4> QED
                BY <1>2, <1>11
        <3> HIDE DEF p
        <3> QED
            BY <1>7, <3>1
    <2>2. p = [i \in 1..L.sent[m] |-> m]
        <3> HIDE DEF p, m
        <3> QED
            BY <1>3, <1>7, <2>1
    <2>3. p[1] = m
        <3>1. 1 \in 1..a.count
            BY <1>3, <1>5, SMTT(30)
        <3> HIDE DEF p
        <3> QED
            BY <2>1, <3>1
    <2>4. ASSUME NEW j \in Count(L), c2 <= L.cut[j - 1] PROVE m < L.frames[j].msg
        <3>1. k < j
            BY <1>4, <2>4
        <3>2. m < L.frames[j].msg \/ m = L.frames[j].msg
            BY <3>1, LaidOrder
        <3>3. CASE m = L.frames[j].msg
            <4>1. p[L.frames[j].index + 1] = m
                <5> HIDE DEF p
                <5> QED
                    BY <1>6, <2>1, <3>3
            <4>2. L.cut[j] <= c2
                BY <1>8, <3>3, <4>1
            <4> QED
                BY <1>4, <2>4, <4>2
        <3> QED
            BY <3>2, <3>3
    <2> QED
        BY <2>2, <2>3, <2>4 DEF After
<1> HIDE DEF p
<1> QED
    BY <1>1, <1>10, <1>11 DEF p

\* A message of one frame is whole with it.
LEMMA SingleEntire ==
    ASSUME NEW L, Laid(L), NEW k \in Count(L), Whole(L, k), L.frames[k].count = 1
    PROVE  LET m == L.frames[k].msg
           IN Entire(L, <<m>>, m) /\ After(L, L.cut[k], m) /\ L.sent[m] = 1
<1> DEFINE m == L.frames[k].msg
           one == <<m>>
<1>1. m \in DOMAIN L.sent /\ L.sent[m] = 1 /\ m \in Nat
      /\ L.frames[k].index \in 0..(L.frames[k].count - 1)
    BY LaidFrame
<1>2. one = [i \in 1..1 |-> m]
    OBVIOUS
<1>3. Entire(L, one, m)
    BY <1>1, <1>2 DEF Entire
<1>4. ASSUME NEW j \in Count(L), L.cut[k] <= L.cut[j - 1] PROVE m < L.frames[j].msg
    <2>1. k < j
        BY <1>4, FrameFound
    <2>2. \/ m < L.frames[j].msg
          \/ m = L.frames[j].msg /\ L.frames[k].index < L.frames[j].index
        BY <2>1, LaidOrder
    <2>3. CASE m = L.frames[j].msg /\ L.frames[k].index < L.frames[j].index
        <3>1. L.frames[j].count = 1 /\ L.frames[j].index \in 0..(L.frames[j].count - 1)
            <4>1. /\ L.frames[j].count = L.sent[L.frames[j].msg]
                  /\ L.frames[j].index \in 0..(L.frames[j].count - 1)
                BY LaidFrame
            <4> QED
                BY <1>1, <2>3, <4>1
        <3>2. L.frames[j].index = 0 /\ L.frames[k].index = 0
            BY <1>1, <3>1
        <3> QED
            BY <2>3, <3>2
    <2> QED
        BY <2>2, <2>3
<1> QED
    BY <1>1, <1>3, <1>4 DEF After

\* What is known where a whole frame k begins.
Before(L, k, n, A, D) ==
    /\ Laid(L) /\ k \in Count(L) /\ Whole(L, k) /\ n \in Nat
    /\ AssembliesOk(n, A) /\ DeliveredOk(n, D) /\ Piece(n, L.frames[k])
    /\ Unreused(L, L.cut[k - 1], A, D)

\* The assembly for frame k.
LEMMA BeforeIs ==
    ASSUME NEW L, NEW k, NEW n, NEW A, NEW D, Before(L, k, n, A, D)
    PROVE  LET f == L.frames[k]
               E == Evict(A)
               a == For(E, f)
           IN /\ L.cut[k - 1] \in Nat /\ L.cut[k] \in Nat /\ L.cut[k - 1] < L.cut[k]
              /\ AssembliesOk(n, E) /\ f.id \in MessageIds /\ f.msg \in DOMAIN L.sent
              /\ Unmixed(L, L.cut[k]) /\ Collecting(L, L.cut[k], A)
              /\ Collecting(L, L.cut[k], E)
              /\ HandedOn(L, L.cut[k - 1], D) /\ HandedOn(L, L.cut[k], D)
              /\ f.count # 1 => /\ Collects(L, L.cut[k - 1], f.msg, f.id, a) /\ PartsOk(n, a)
                                /\ a.count = f.count
<1> DEFINE f == L.frames[k]
           E == Evict(A)
           a == For(E, f)
           c == L.cut[k - 1]
           c2 == L.cut[k]
<1>1. /\ Laid(L) /\ k \in Count(L) /\ Whole(L, k) /\ n \in Nat
      /\ AssembliesOk(n, A) /\ DeliveredOk(n, D) /\ Piece(n, f)
      /\ Unmixed(L, c) /\ Collecting(L, c, A) /\ HandedOn(L, c, D)
    BY DEF Before, Unreused
<1>2. c \in Nat /\ c2 \in Nat /\ c < c2 /\ c <= c2
    <2>1. c \in Nat /\ c2 \in Nat /\ c < c2
        BY <1>1, FrameFound
    <2> QED
        BY <2>1
<1>3. AssembliesOk(n, E)
    BY <1>1, EvictIs
<1>4. Collecting(L, c, E)
    BY <1>1, CollectingEvict
<1>5. f.id \in MessageIds /\ f.msg \in DOMAIN L.sent /\ f.count = L.sent[f.msg]
    BY <1>1, LaidFrame
<1>6. Unmixed(L, c2) /\ Collecting(L, c2, A) /\ Collecting(L, c2, E) /\ HandedOn(L, c2, D)
    <2> HIDE DEF c, c2, E
    <2> QED
        BY <1>1, <1>2, <1>4, Forward
<1>7. ASSUME f.count # 1
      PROVE  Collects(L, c, f.msg, f.id, a) /\ PartsOk(n, a) /\ a.count = f.count
    <2>1. Live(L, c, k)
        BY <1>1, <1>2, WholeSeen
    <2>2. Collects(L, c, f.msg, f.id, a)
        <3> HIDE DEF E, c
        <3> QED
            BY <1>1, <1>3, <1>4, <1>7, <2>1, ForMessage
    <2>3. PartsOk(n, a)
        <3> HIDE DEF E
        <3> QED
            BY <1>1, <1>3, <1>7, ForIs
    <2>4. a.count = f.count
        BY <1>5, <2>2 DEF Collects
    <2> QED
        BY <2>2, <2>3, <2>4
<1> QED
    BY <1>1, <1>2, <1>3, <1>5, <1>6, <1>7, Zenon

\* Whole messages stay whole, ids unmixed, and the order is kept.
LEMMA FrameUnreused ==
    ASSUME NEW L, NEW k, NEW n, NEW A, NEW D, NEW A2, NEW D2, Before(L, k, n, A, D),
           Advance(A, D, L.frames[k], A2, D2)
    PROVE  Unreused(L, L.cut[k], A2, D2)
<1> DEFINE f == L.frames[k]
           E == Evict(A)
           a == For(E, f)
           c == L.cut[k - 1]
           c2 == L.cut[k]
           with(x) == [E EXCEPT ![f.id] = x]
           one == <<f.msg>>
<1>1. /\ Laid(L) /\ k \in Count(L) /\ Whole(L, k) /\ n \in Nat
      /\ AssembliesOk(n, A) /\ DeliveredOk(n, D) /\ Piece(n, f)
    BY DEF Before
<1>2. /\ c \in Nat /\ c2 \in Nat /\ c < c2
      /\ AssembliesOk(n, E) /\ f.id \in MessageIds /\ f.msg \in DOMAIN L.sent
      /\ Unmixed(L, c2) /\ Collecting(L, c2, A)
      /\ Collecting(L, c2, E)
      /\ HandedOn(L, c, D) /\ HandedOn(L, c2, D)
      /\ f.count # 1 => /\ Collects(L, c, f.msg, f.id, a) /\ PartsOk(n, a)
                        /\ a.count = f.count
    BY BeforeIs, Zenon
<1>3. f.msg \in Nat /\ f.msg <= n /\ c <= c /\ c <= c2
    <2>1. f.msg \in 1..n
        BY <1>1 DEF Piece
    <2> QED
        BY <1>1, <1>2, <2>1
<1> HIDE DEF f, E, c, c2
<1>4. \/ f.count = 1 /\ A2 = A /\ D2 = Append(D, one)
      \/ f.count # 1 /\ A2 = with(NoAssembly) /\ D2 = D
      \/ f.count # 1 /\ A2 = E /\ D2 = D
      \/ /\ f.count # 1 /\ A2 = with(Grown(a, f)) /\ D2 = D /\ a.parts[f.index + 1] = -1
      \/ /\ f.count # 1 /\ A2 = with(NoAssembly) /\ D2 = Append(D, Filled(a, f))
         /\ a.parts[f.index + 1] = -1 /\ Complete(Filled(a, f))
    BY Zenon DEF Advance, f, E
<1>5. Collecting(L, c2, with(NoAssembly))
    BY <1>1, <1>2, CollectingReplaced
<1>6. \A e \in Seq(Nat) :
         (\A i \in DOMAIN e : e[i] <= n) /\ e[1] = f.msg /\ Entire(L, e, f.msg)
         /\ After(L, c2, f.msg) => HandedOn(L, c2, Append(D, e))
    <2> TAKE e \in Seq(Nat)
    <2> HAVE (\A i \in DOMAIN e : e[i] <= n) /\ e[1] = f.msg /\ Entire(L, e, f.msg)
             /\ After(L, c2, f.msg)
    <2>1. Entire(L, e, e[1]) /\ After(L, c2, e[1]) /\ e[1] = L.frames[k].msg /\ c <= L.cut[k - 1]
        BY <1>3 DEF f, c
    <2> QED
        BY <1>1, <1>2, <1>3, <2>1, HandOne
<1>7. CASE f.count = 1 /\ A2 = A /\ D2 = Append(D, one)
    <2>1. Entire(L, one, f.msg) /\ After(L, c2, f.msg)
        BY <1>1, <1>7, SingleEntire DEF f, c2
    <2>2. one \in Seq(Nat) /\ one[1] = f.msg /\ \A i \in DOMAIN one : one[i] <= n
        BY <1>3, OneIs
    <2> HIDE DEF one
    <2>3. HandedOn(L, c2, Append(D, one))
        BY <1>6, <2>1, <2>2
    <2>4. Unreused(L, c2, A2, D2)
        BY <1>2, <1>7, <2>3 DEF Unreused
    <2> QED
        BY <2>4 DEF c2
<1>8. CASE f.count # 1 /\ A2 = with(NoAssembly) /\ D2 = D
    <2> HIDE DEF with
    <2>1. Unreused(L, c2, A2, D2)
        BY <1>2, <1>5, <1>8 DEF Unreused
    <2> QED
        BY <2>1 DEF c2
<1>9. CASE f.count # 1 /\ A2 = E /\ D2 = D
    <2>1. Unreused(L, c2, A2, D2)
        BY <1>2, <1>9 DEF Unreused
    <2> QED
        BY <2>1 DEF c2
<1>10. ASSUME f.count # 1, a.parts[f.index + 1] = -1
       PROVE  /\ Collects(L, c2, f.msg, f.id, Grown(a, f))
              /\ Complete(Filled(a, f)) =>
                    /\ Filled(a, f) = [i \in 1..L.sent[f.msg] |-> f.msg]
                    /\ Filled(a, f)[1] = f.msg
                    /\ After(L, c2, f.msg)
              /\ Complete(Filled(a, f)) => Filled(a, f) \in Seq(Nat)
              /\ Complete(Filled(a, f)) => \A i \in DOMAIN Filled(a, f) : Filled(a, f)[i] <= n
    <2> HIDE DEF a
    <2>1. PartsOk(n, a) /\ a.count = f.count /\ Collects(L, c, f.msg, f.id, a)
        BY <1>2, <1>10
    <2>2. /\ Collects(L, c2, f.msg, f.id, Grown(a, f))
          /\ Complete(Filled(a, f)) =>
                    /\ Filled(a, f) = [i \in 1..L.sent[f.msg] |-> f.msg]
                    /\ Filled(a, f)[1] = f.msg
                    /\ After(L, c2, f.msg)
        BY <1>1, <1>10, <2>1, GrownCollects DEF f, c, c2
    <2>3. Complete(Filled(a, f)) => Filled(a, f) \in Seq(Nat)
        BY <1>1, <1>10, <2>1, FilledIs
    <2>4. Complete(Filled(a, f)) => \A i \in DOMAIN Filled(a, f) : Filled(a, f)[i] <= n
        BY <1>3, <2>2
    <2> QED
        BY <2>2, <2>3, <2>4
<1>11. CASE f.count # 1 /\ A2 = with(Grown(a, f)) /\ D2 = D /\ a.parts[f.index + 1] = -1
    <2> DEFINE x == Grown(a, f)
    <2>1. Collects(L, c2, f.msg, f.id, x)
        BY <1>10, <1>11
    <2> HIDE DEF x
    <2>2. Collecting(L, c2, with(x))
        BY <1>1, <1>2, <2>1, CollectingReplaced
    <2>3. A2 = with(x) /\ D2 = D
        BY <1>11 DEF x
    <2> HIDE DEF with
    <2>4. Unreused(L, c2, A2, D2)
        BY <1>2, <2>2, <2>3 DEF Unreused
    <2> QED
        BY <2>4 DEF c2
<1>12. CASE /\ f.count # 1 /\ A2 = with(NoAssembly) /\ D2 = Append(D, Filled(a, f))
            /\ a.parts[f.index + 1] = -1 /\ Complete(Filled(a, f))
    <2> DEFINE e == Filled(a, f)
    <2>1. /\ e = [i \in 1..L.sent[f.msg] |-> f.msg] /\ e[1] = f.msg /\ After(L, c2, f.msg)
          /\ e \in Seq(Nat) /\ \A i \in DOMAIN e : e[i] <= n
        BY <1>10, <1>12
    <2>2. A2 = with(NoAssembly) /\ D2 = Append(D, e)
        BY <1>12
    <2> HIDE DEF e, with
    <2>3. Entire(L, e, f.msg)
        BY <1>2, <2>1 DEF Entire
    <2>4. HandedOn(L, c2, Append(D, e))
        BY <1>6, <2>1, <2>3
    <2>5. Unreused(L, c2, A2, D2)
        BY <1>2, <1>5, <2>2, <2>4 DEF Unreused
    <2> QED
        BY <2>5 DEF c2
<1> HIDE DEF with, a, one
<1> QED
    BY <1>4, <1>7, <1>8, <1>9, <1>11, <1>12

\* A frame that comes is handed on, or is in its assembly, and so are all that
\* came before, unless the assembly was refused.
LEMMA FrameAccounted ==
    ASSUME NEW L, NEW k, NEW n, NEW A, NEW D, NEW A2, NEW D2, Before(L, k, n, A, D),
           Accounted(L, L.cut[k - 1], A, D), Advance(A, D, L.frames[k], A2, D2)
    PROVE  Accounted(L, L.cut[k], A2, D2)
<1> DEFINE f == L.frames[k]
           a == For(A, f)
           c == L.cut[k - 1]
           c2 == L.cut[k]
           with(x) == [A EXCEPT ![f.id] = x]
           one == <<f.msg>>
<1>1. /\ Laid(L) /\ k \in Count(L) /\ Whole(L, k) /\ n \in Nat
      /\ AssembliesOk(n, A) /\ DeliveredOk(n, D) /\ Piece(n, f)
    BY DEF Before
<1>2. /\ \A id \in Pending(A) : ~A[id].old
      /\ \A j \in Count(L) : L.cut[j] <= c /\ Whole(L, j) /\ Due(L.sent, L.frames[j].msg) =>
            Gone(D, L.frames[j].msg) \/ StillHeld(L, A, j)
    BY DEF Accounted
<1>3. Evict(A) = A
    BY <1>1, <1>2, EvictIs
<1>4. /\ c \in Nat /\ c2 \in Nat
      /\ f.id \in MessageIds /\ f.msg \in DOMAIN L.sent
      /\ f.count # 1 => /\ Collects(L, c, f.msg, f.id, a) /\ PartsOk(n, a)
                        /\ a.count = f.count
    <2>1. /\ c \in Nat /\ c2 \in Nat
          /\ f.id \in MessageIds /\ f.msg \in DOMAIN L.sent
          /\ f.count # 1 =>
                /\ Collects(L, c, f.msg, f.id, For(Evict(A), f)) /\ PartsOk(n, For(Evict(A), f))
                /\ For(Evict(A), f).count = f.count
        BY BeforeIs, Zenon
    <2> QED
        BY <1>3, <2>1
<1>5. /\ f.msg \in Nat /\ f.msg >= 1 /\ f.msg <= n /\ f.count = L.sent[f.msg]
      /\ f.count \in Nat \ {0} /\ f.index \in 0..(f.count - 1)
      /\ A \in [MessageIds -> Assembly \cup {NoAssembly}]
    <2>1. f.msg \in 1..n
        BY <1>1 DEF Piece
    <2>2. /\ f.count = L.sent[f.msg] /\ f.count \in Nat \ {0} /\ f.index \in 0..(f.count - 1)
        BY <1>1, LaidFrame
    <2> QED
        BY <1>1, <2>1, <2>2 DEF AssembliesOk
<1>6. \/ f.count = 1 /\ A2 = A /\ D2 = Append(D, one)
      \/ /\ f.count # 1 /\ A2 = with(NoAssembly) /\ D2 = D
         /\ a.count # f.count \/ a.size + 1 > MaxMessageSize
      \/ f.count # 1 /\ A2 = A /\ D2 = D /\ a.parts[f.index + 1] # -1 /\ A[f.id] # NoAssembly /\ a = A[f.id]
      \/ /\ f.count # 1 /\ A2 = with(Grown(a, f)) /\ D2 = D /\ a.parts[f.index + 1] = -1
      \/ /\ f.count # 1 /\ A2 = with(NoAssembly) /\ D2 = Append(D, Filled(a, f))
         /\ a.parts[f.index + 1] = -1 /\ Complete(Filled(a, f))
    <2> DEFINE E == Evict(A)
    <2>0. E = A
        BY <1>3
    <2> HIDE DEF f, E
    <2>1. \/ f.count = 1 /\ A2 = A /\ D2 = Append(D, one)
          \/ /\ f.count # 1 /\ A2 = [E EXCEPT ![f.id] = NoAssembly] /\ D2 = D
             /\ For(E, f).count # f.count \/ For(E, f).size + 1 > MaxMessageSize
          \/ /\ f.count # 1 /\ A2 = E /\ D2 = D /\ For(E, f).parts[f.index + 1] # -1
             /\ E[f.id] # NoAssembly /\ For(E, f) = E[f.id]
          \/ /\ f.count # 1 /\ A2 = [E EXCEPT ![f.id] = Grown(For(E, f), f)] /\ D2 = D
             /\ For(E, f).parts[f.index + 1] = -1
          \/ /\ f.count # 1 /\ A2 = [E EXCEPT ![f.id] = NoAssembly]
             /\ D2 = Append(D, Filled(For(E, f), f))
             /\ For(E, f).parts[f.index + 1] = -1 /\ Complete(Filled(For(E, f), f))
        BY Zenon DEF Advance, f, E
    <2> QED
        BY <2>0, <2>1, Zenon
<1>7. \A j \in Count(L) : L.cut[j] <= c2 => L.cut[j] <= c \/ j = k
    BY <1>1, FrameFound
<1>8. ASSUME NEW e \in Seq(Nat), \A i \in DOMAIN e : e[i] <= n
      PROVE  (\A m : Gone(D, m) => Gone(Append(D, e), m)) /\ Gone(Append(D, e), e[1])
    <2>1. /\ Len(D) \in Nat /\ DOMAIN D = 1..Len(D)
          /\ DOMAIN Append(D, e) = 1..(Len(D) + 1) /\ Append(D, e)[Len(D) + 1] = e
          /\ \A i \in 1..Len(D) : Append(D, e)[i] = D[i]
        BY <1>1, <1>8, DeliveredMore
    <2>2. Len(D) + 1 \in DOMAIN Append(D, e)
        BY <2>1
    <2>3. \A i \in DOMAIN D : i \in DOMAIN Append(D, e) /\ Append(D, e)[i] = D[i]
        BY <2>1
    <2> QED
        BY <2>1, <2>2, <2>3 DEF Gone
<1> HIDE DEF f, c, c2
\* A frame that is, or was, in the assembly of this id.
<1>9. ASSUME f.count # 1, NEW j \in Count(L), Due(L.sent, L.frames[j].msg),
             j = k \/ (StillHeld(L, A, j) /\ L.frames[j].id = f.id)
      PROVE  /\ L.frames[j].msg = f.msg /\ L.frames[j].id = f.id /\ L.frames[j].count = f.count
             /\ f.count <= MaxMessageSize /\ ~(a.size + 1 > MaxMessageSize)
             /\ L.frames[j].index + 1 \in 1..a.count
             /\ j # k => a.parts[L.frames[j].index + 1] = f.msg
             /\ j = k => L.frames[j].index = f.index
             /\ a.parts \in [1..a.count -> {-1, f.msg}] /\ a.count = f.count
    <2>1. /\ L.frames[j].count = L.sent[L.frames[j].msg]
          /\ L.frames[j].index \in 0..(L.frames[j].count - 1)
          /\ L.frames[j].msg \in Nat /\ L.frames[j].msg >= 1
          /\ L.frames[j].count \in Nat \ {0}
        BY <1>1, LaidFrame
    <2>2. a.count = f.count /\ a.parts \in [1..a.count -> {-1, f.msg}]
        BY <1>4, <1>5, <1>9 DEF Collects
    <2>3. ASSUME StillHeld(L, A, j), L.frames[j].id = f.id
          PROVE  /\ L.frames[j].count = f.count
                 /\ a.parts[L.frames[j].index + 1] = L.frames[j].msg
                 /\ L.frames[j].msg = f.msg
        <3>1. /\ A[f.id] # NoAssembly /\ A[f.id].count = L.frames[j].count
              /\ A[f.id].parts[L.frames[j].index + 1] = L.frames[j].msg
            BY <2>3 DEF StillHeld
        <3>2. a = A[f.id]
            BY <3>1 DEF For
        <3> HIDE DEF a
        <3>3. L.frames[j].index + 1 \in 1..a.count
            BY <2>1, <3>1, <3>2
        <3>4. a.parts[L.frames[j].index + 1] \in {-1, f.msg}
            BY <2>2, <3>3
        <3> QED
            BY <2>1, <2>2, <3>1, <3>2, <3>4, SMTT(30)
    <2>4. /\ L.frames[j].msg = f.msg /\ L.frames[j].id = f.id /\ L.frames[j].count = f.count
          /\ j = k => L.frames[j].index = f.index
        <3>1. CASE j = k
            BY <3>1 DEF f
        <3>2. CASE j # k
            BY <1>9, <2>3, <3>2
        <3> QED
            BY <3>1, <3>2
    <2>5. f.count <= MaxMessageSize
        BY <1>5, <1>9, <2>4 DEF Due
    <2>6. ~(a.size + 1 > MaxMessageSize)
        <3>1. a.size \in Nat /\ a.size < a.count /\ MaxMessageSize \in Nat
            BY <1>4, <1>9, FramingAssumption DEF PartsOk, Assembly
        <3> HIDE DEF a
        <3> QED
            BY <1>5, <2>2, <2>5, <3>1
    <2>7. L.frames[j].index + 1 \in 1..a.count
        <3> HIDE DEF a
        <3> QED
            BY <2>1, <2>2, <2>4
    <2>8. j # k => a.parts[L.frames[j].index + 1] = f.msg
        BY <1>9, <2>3
    <2> HIDE DEF a
    <2> QED
        BY <2>2, <2>4, <2>5, <2>6, <2>7, <2>8
<1>10. ASSUME f.count # 1, a.parts[f.index + 1] = -1
       PROVE  /\ Filled(a, f)[f.index + 1] = f.msg /\ Grown(a, f).count = a.count
              /\ Grown(a, f).parts = Filled(a, f) /\ ~Grown(a, f).old
              /\ Grown(a, f) # NoAssembly
              /\ \A i \in 1..a.count : i # f.index + 1 => Filled(a, f)[i] = a.parts[i]
              /\ Complete(Filled(a, f)) =>
                    /\ Filled(a, f) \in Seq(Nat) /\ Filled(a, f)[1] = f.msg
                    /\ \A i \in DOMAIN Filled(a, f) : Filled(a, f)[i] <= n
    <2>1. PartsOk(n, a) /\ a.count = f.count /\ Collects(L, c, f.msg, f.id, a)
        BY <1>4, <1>10
    <2>2. ~a.old
        <3>1. CASE A[f.id] # NoAssembly
            BY <1>2, <1>4, <3>1 DEF For, Pending
        <3>2. CASE A[f.id] = NoAssembly
            BY <3>2 DEF For, NewAssembly
        <3> QED
            BY <3>1, <3>2
    <2> HIDE DEF a
    <2>3. /\ Filled(a, f)[f.index + 1] = f.msg /\ Grown(a, f).count = a.count
          /\ Grown(a, f).parts = Filled(a, f) /\ Grown(a, f).old = a.old
          /\ Grown(a, f) \in Assembly
          /\ \A i \in 1..a.count : i # f.index + 1 => Filled(a, f)[i] = a.parts[i]
        BY <1>1, <1>10, <2>1, FilledIs
    <2>4. Complete(Filled(a, f)) => /\ Filled(a, f) \in Seq(Nat) /\ Len(Filled(a, f)) = a.count
                                    /\ \A i \in 1..a.count : Filled(a, f)[i] \in 1..n
        BY <1>1, <1>10, <2>1, FilledIs
    <2>5. Complete(Filled(a, f)) => Filled(a, f)[1] = f.msg
        <3>1. /\ Collects(L, L.cut[k], f.msg, f.id, Grown(a, f))
              /\ Complete(Filled(a, f)) =>
                    /\ Filled(a, f) = [i \in 1..L.sent[f.msg] |-> f.msg]
                    /\ Filled(a, f)[1] = f.msg
                    /\ After(L, L.cut[k], f.msg)
            BY <1>1, <1>10, <2>1, GrownCollects DEF f, c
        <3> QED
            BY <3>1
    <2>6. Grown(a, f) # NoAssembly
        BY <2>3, FramingAssumption DEF Assembly
    <2>7. Complete(Filled(a, f)) => \A i \in DOMAIN Filled(a, f) : Filled(a, f)[i] <= n
        <3> DEFINE p == Filled(a, f)
        <3> HIDE DEF p
        <3>1. Complete(p) => /\ p \in Seq(Nat) /\ Len(p) = a.count
                             /\ \A i \in 1..a.count : p[i] \in 1..n
            BY <2>4 DEF p
        <3>2. Complete(p) => \A i \in DOMAIN p : p[i] <= n
            BY <1>1, <3>1
        <3> QED
            BY <3>2 DEF p
    <2>8. ~Grown(a, f).old
        BY <2>2, <2>3
    <2> QED
        BY <2>3, <2>4, <2>5, <2>6, <2>7, <2>8
<1>11. /\ with(NoAssembly)[f.id] = NoAssembly
       /\ with(Grown(a, f))[f.id] = Grown(a, f)
       /\ \A x : \A id \in MessageIds : id # f.id => with(x)[id] = A[id]
    BY <1>4, <1>5
<1> SUFFICES Accounted(L, c2, A2, D2)
    BY DEF c2
\* Other assemblies are as they were.
<1>12. ASSUME NEW x, A2 = with(x), x = NoAssembly \/ x = Grown(a, f),
              x # NoAssembly => ~x.old,
              \A m : Gone(D, m) => Gone(D2, m),
              \A j \in Count(L) : /\ Due(L.sent, L.frames[j].msg)
                                  /\ j = k \/ (StillHeld(L, A, j) /\ L.frames[j].id = f.id)
                                  => Gone(D2, L.frames[j].msg) \/ StillHeld(L, A2, j)
       PROVE  Accounted(L, c2, A2, D2)
    <2>1. A2[f.id] = x /\ \A id \in MessageIds : id # f.id => A2[id] = A[id]
        BY <1>11, <1>12
    <2> HIDE DEF with, a
    <2>2. \A id \in Pending(A2) : ~A2[id].old
        BY <1>2, <1>12, <2>1 DEF Pending
    <2>3. ASSUME NEW j \in Count(L), L.cut[j] <= c2, Whole(L, j), Due(L.sent, L.frames[j].msg)
          PROVE  Gone(D2, L.frames[j].msg) \/ StillHeld(L, A2, j)
        <3>1. CASE j = k \/ (StillHeld(L, A, j) /\ L.frames[j].id = f.id)
            BY <1>12, <2>3, <3>1
        <3>2. CASE j # k /\ StillHeld(L, A, j) /\ L.frames[j].id # f.id
            <4>1. L.frames[j].id \in MessageIds
                BY <1>1, LaidFrame
            <4> QED
                BY <2>1, <3>2, <4>1 DEF StillHeld
        <3>3. CASE j # k /\ Gone(D, L.frames[j].msg)
            BY <1>12, <3>3
        <3> QED
            BY <1>2, <1>7, <2>3, <3>1, <3>2, <3>3
    <2> QED
        BY <2>2, <2>3 DEF Accounted
<1>13. CASE f.count = 1 /\ A2 = A /\ D2 = Append(D, one)
    <2>1. one \in Seq(Nat) /\ one[1] = f.msg /\ \A i \in DOMAIN one : one[i] <= n
        BY <1>5, OneIs
    <2> HIDE DEF one
    <2>2. (\A m : Gone(D, m) => Gone(D2, m)) /\ Gone(D2, f.msg)
        BY <1>8, <1>13, <2>1
    <2>3. ASSUME NEW j \in Count(L), L.cut[j] <= c2, Whole(L, j), Due(L.sent, L.frames[j].msg)
          PROVE  Gone(D2, L.frames[j].msg) \/ StillHeld(L, A2, j)
        <3>1. CASE j = k
            BY <2>2, <3>1 DEF f
        <3>2. CASE j # k
            BY <1>2, <1>7, <1>13, <2>2, <2>3, <3>2
        <3> QED
            BY <3>1, <3>2
    <2> QED
        BY <1>2, <1>13, <2>3 DEF Accounted
<1>14. CASE /\ f.count # 1 /\ A2 = with(NoAssembly) /\ D2 = D
            /\ a.count # f.count \/ a.size + 1 > MaxMessageSize
    <2>1. ASSUME NEW j \in Count(L), Due(L.sent, L.frames[j].msg),
                 j = k \/ (StillHeld(L, A, j) /\ L.frames[j].id = f.id)
          PROVE  FALSE
        <3>1. ~(a.size + 1 > MaxMessageSize) /\ a.count = f.count
            BY <1>9, <1>14, <2>1
        <3> QED
            BY <1>14, <3>1
    <2> HIDE DEF with
    <2> QED
        BY <1>12, <1>14, <2>1
<1>15. CASE f.count # 1 /\ A2 = A /\ D2 = D /\ a.parts[f.index + 1] # -1 /\ A[f.id] # NoAssembly
            /\ a = A[f.id]
    <2>1. ASSUME NEW j \in Count(L), L.cut[j] <= c2, Whole(L, j), Due(L.sent, L.frames[j].msg)
          PROVE  Gone(D2, L.frames[j].msg) \/ StillHeld(L, A2, j)
        <3>1. CASE j = k
            <4>1. /\ L.frames[j].msg = f.msg /\ L.frames[j].id = f.id
                  /\ L.frames[j].count = f.count /\ L.frames[j].index = f.index
                  /\ L.frames[j].index + 1 \in 1..a.count
                  /\ a.parts \in [1..a.count -> {-1, f.msg}] /\ a.count = f.count
                BY <1>9, <1>15, <2>1, <3>1
            <4>2. a.parts[f.index + 1] = f.msg
                <5> HIDE DEF a
                <5> QED
                    BY <1>15, <4>1
            <4> HIDE DEF a
            <4> QED
                BY <1>15, <4>1, <4>2 DEF StillHeld
        <3>2. CASE j # k
            BY <1>2, <1>7, <1>15, <2>1, <3>2
        <3> QED
            BY <3>1, <3>2
    <2> QED
        BY <1>2, <1>15, <2>1 DEF Accounted
<1>16. CASE f.count # 1 /\ A2 = with(Grown(a, f)) /\ D2 = D /\ a.parts[f.index + 1] = -1
    <2>1. ASSUME NEW j \in Count(L), Due(L.sent, L.frames[j].msg),
                 j = k \/ (StillHeld(L, A, j) /\ L.frames[j].id = f.id)
          PROVE  StillHeld(L, A2, j)
        <3>1. /\ L.frames[j].msg = f.msg /\ L.frames[j].id = f.id
              /\ L.frames[j].count = f.count
              /\ L.frames[j].index + 1 \in 1..a.count /\ a.count = f.count
              /\ j # k => a.parts[L.frames[j].index + 1] = f.msg
              /\ j = k => L.frames[j].index = f.index
            BY <1>9, <1>16, <2>1
        <3>2. /\ Filled(a, f)[f.index + 1] = f.msg /\ Grown(a, f).count = a.count
              /\ Grown(a, f).parts = Filled(a, f) /\ Grown(a, f) # NoAssembly
              /\ \A i \in 1..a.count : i # f.index + 1 => Filled(a, f)[i] = a.parts[i]
            BY <1>10, <1>16
        <3>3. A2[f.id] = Grown(a, f)
            BY <1>11, <1>16
        <3> HIDE DEF a, with
        <3>4. Filled(a, f)[L.frames[j].index + 1] = f.msg
            BY <3>1, <3>2
        <3> QED
            BY <3>1, <3>2, <3>3, <3>4 DEF StillHeld
    <2>2. ~Grown(a, f).old
        BY <1>10, <1>16
    <2> HIDE DEF with, a
    <2> QED
        BY <1>12, <1>16, <2>1, <2>2
<1>17. CASE /\ f.count # 1 /\ A2 = with(NoAssembly) /\ D2 = Append(D, Filled(a, f))
            /\ a.parts[f.index + 1] = -1 /\ Complete(Filled(a, f))
    <2> DEFINE e == Filled(a, f)
    <2>1. e \in Seq(Nat) /\ e[1] = f.msg /\ \A i \in DOMAIN e : e[i] <= n
        BY <1>10, <1>17
    <2>2. D2 = Append(D, e)
        BY <1>17
    <2> HIDE DEF e
    <2>3. (\A m : Gone(D, m) => Gone(D2, m)) /\ Gone(D2, f.msg)
        BY <1>8, <2>1, <2>2
    <2>4. ASSUME NEW j \in Count(L), Due(L.sent, L.frames[j].msg),
                 j = k \/ (StillHeld(L, A, j) /\ L.frames[j].id = f.id)
          PROVE  Gone(D2, L.frames[j].msg)
        <3>1. L.frames[j].msg = f.msg
            BY <1>9, <1>17, <2>4
        <3> QED
            BY <2>3, <3>1
    <2> HIDE DEF with, a
    <2> QED
        BY <1>12, <1>17, <2>3, <2>4
<1> HIDE DEF with, a, one
<1> QED
    BY <1>6, <1>13, <1>14, <1>15, <1>16, <1>17

\* No frame from inside another comes with a frame of a message.
LEMMA FrameNoInner ==
    ASSUME NEW L, NEW k, NEW n, NEW A, NEW D, NEW A2, NEW D2, Laid(L), k \in Count(L),
           n \in Nat, AssembliesOk(n, A), DeliveredOk(n, D), Piece(n, L.frames[k]),
           NoInner(L, D), Advance(A, D, L.frames[k], A2, D2)
    PROVE  NoInner(L, D2)
<1> DEFINE f == L.frames[k]
           E == Evict(A)
           a == For(E, f)
           one == <<f.msg>>
<1>1. f.msg \in Nat /\ f.msg >= 1 /\ f.msg <= n
    <2>1. f.msg \in 1..n
        BY DEF Piece
    <2> QED
        BY <2>1
<1>2. ASSUME NEW e \in Seq(Nat), \A i \in DOMAIN e : e[i] <= n, e[1] # 0
      PROVE  NoInner(L, Append(D, e))
    <2>1. /\ Len(D) \in Nat /\ DOMAIN D = 1..Len(D)
          /\ DOMAIN Append(D, e) = 1..(Len(D) + 1) /\ Append(D, e)[Len(D) + 1] = e
          /\ \A i \in 1..Len(D) : Append(D, e)[i] = D[i]
        BY <1>2, DeliveredMore
    <2>2. \A i \in DOMAIN Append(D, e) : \/ i \in DOMAIN D /\ Append(D, e)[i] = D[i]
                                         \/ Append(D, e)[i] = e
        BY <2>1
    <2> QED
        BY <1>2, <2>2 DEF NoInner
<1>3. \/ D2 = D
      \/ D2 = Append(D, one)
      \/ /\ f.count # 1 /\ a.count = f.count /\ a.parts[f.index + 1] = -1
         /\ Complete(Filled(a, f)) /\ D2 = Append(D, Filled(a, f))
    <2> HIDE DEF f
    <2> QED
        BY Zenon DEF Advance, f
<1>4. CASE D2 = Append(D, one)
    <2>1. one \in Seq(Nat) /\ one[1] = f.msg /\ \A i \in DOMAIN one : one[i] <= n
        BY <1>1, OneIs
    <2> HIDE DEF one
    <2> QED
        BY <1>1, <1>2, <1>4, <2>1
<1>5. CASE /\ f.count # 1 /\ a.count = f.count /\ a.parts[f.index + 1] = -1
           /\ Complete(Filled(a, f)) /\ D2 = Append(D, Filled(a, f))
    <2> DEFINE p == Filled(a, f)
    <2>1. AssembliesOk(n, E)
        BY EvictIs
    <2>2. PartsOk(n, a)
        <3> HIDE DEF E
        <3> QED
            BY <1>5, <2>1, ForIs
    <2> HIDE DEF a
    <2>3. Complete(p) => /\ p \in Seq(Nat) /\ Len(p) = a.count
                         /\ \A i \in 1..a.count : p[i] \in 1..n
        <3>1. PartsOk(n, a) /\ a.count = f.count /\ a.parts[f.index + 1] = -1 /\ Piece(n, f)
            BY <1>5, <2>2
        <3> HIDE DEF f
        <3>2. Complete(Filled(a, f)) =>
                 /\ \A i \in 1..a.count : Filled(a, f)[i] \in 1..n
                 /\ Filled(a, f) \in Seq(Nat) /\ Len(Filled(a, f)) = a.count
            BY <3>1, FilledIs
        <3> QED
            BY <3>2
    <2>4. Complete(p) /\ D2 = Append(D, p) /\ a.count \in Nat \ {0}
        <3>1. f.count \in Nat \ {0}
            BY LaidFrame
        <3> QED
            BY <1>5, <3>1
    <2> HIDE DEF p, f
    <2>5. p \in Seq(Nat) /\ p[1] # 0 /\ \A i \in DOMAIN p : p[i] <= n
        BY <2>3, <2>4
    <2> QED
        BY <1>2, <2>4, <2>5
<1> HIDE DEF f, a, one
<1> QED
    BY <1>3, <1>4, <1>5

\* onFrame makes of s a state in which all holds that follows at c2.
Leads(L, why, s, f, c2) ==
    \E A2, D2 : \E r2 \in BOOLEAN :
       OnFrame(s, f) = Reassembler(A2, D2, r2) /\ Ok(L, why, c2, A2, D2, r2)

\* A whole frame is found where it begins, and what holds there holds after it.
LEMMA FindFrame ==
    ASSUME NEW L, Laid(L), NEW k \in Count(L), Whole(L, k), NEW why, NEW A, NEW D,
           NEW ref \in BOOLEAN, Ok(L, why, L.cut[k - 1], A, D, ref)
    PROVE  Leads(L, why, Reassembler(A, D, ref), L.frames[k], L.cut[k])
<1> DEFINE f == L.frames[k]
           c == L.cut[k - 1]
           c2 == L.cut[k]
           n == Len(L.sent)
<1>1. /\ c \in Nat /\ c <= Len(L.stream) /\ Outside(L, c) /\ NoInner(L, D)
      /\ AssembliesOk(n, A) /\ DeliveredOk(n, D)
      /\ "reused" \notin why => Unreused(L, c, A, D)
      /\ why = {} /\ ~ref => Accounted(L, c, A, D)
    BY DEF Ok
<1>2. n \in Nat
    BY DEF Laid
<1>3. Piece(n, f)
    <2>1. /\ f.msg \in Nat /\ f.msg >= 1 /\ f.msg <= n /\ f.count \in FrameCounts
          /\ f.index \in 0..(f.count - 1) /\ f.id \in MessageIds
        BY LaidFrame
    <2> QED
        BY <1>2, <2>1 DEF Piece
<1>4. c2 \in Nat /\ c2 <= Len(L.stream) /\ Outside(L, c2)
    BY <1>1, FrameFound
<1>5. PICK A2, D2 : \E r2 \in BOOLEAN :
              /\ OnFrame(Reassembler(A, D, ref), f) = Reassembler(A2, D2, r2)
              /\ AssembliesOk(n, A2) /\ DeliveredOk(n, D2)
              /\ Outcome(A, D, ref, f, A2, D2, r2)
    <2> HIDE DEF f, n
    <2> QED
        BY <1>1, <1>2, <1>3, Taken
<1>6. PICK r2 \in BOOLEAN :
              /\ OnFrame(Reassembler(A, D, ref), f) = Reassembler(A2, D2, r2)
              /\ AssembliesOk(n, A2) /\ DeliveredOk(n, D2)
              /\ Outcome(A, D, ref, f, A2, D2, r2)
    BY <1>5
<1>7. \/ Advance(A, D, f, A2, D2) /\ (~r2 => ~ref)
      \/ A2 = Evict(A) /\ D2 = D /\ r2
    BY <1>6, Zenon DEF Outcome
<1>8. "reused" \notin why => Before(L, k, n, A, D)
    BY <1>1, <1>2, <1>3 DEF Before
<1>9. NoInner(L, D2)
    <2>1. Advance(A, D, f, A2, D2) => NoInner(L, D2)
        BY <1>1, <1>2, <1>3, FrameNoInner
    <2> QED
        BY <1>1, <1>7, <2>1
<1>10. ASSUME "reused" \notin why PROVE Unreused(L, c2, A2, D2)
    <2>1. Before(L, k, n, A, D)
        BY <1>8, <1>10
    <2>2. Advance(A, D, f, A2, D2) => Unreused(L, c2, A2, D2)
        BY <2>1, FrameUnreused
    <2>3. Unreused(L, c2, Evict(A), D)
        <3>1. Unmixed(L, c2) /\ Collecting(L, c2, Evict(A)) /\ HandedOn(L, c2, D)
            BY <2>1, BeforeIs
        <3> QED
            BY <3>1 DEF Unreused
    <2> QED
        BY <1>7, <2>2, <2>3
<1>11. ASSUME why = {}, ~r2 PROVE Accounted(L, c2, A2, D2)
    <2>1. Before(L, k, n, A, D) /\ Advance(A, D, f, A2, D2) /\ ~ref
        BY <1>7, <1>8, <1>11
    <2>2. Accounted(L, c, A, D)
        BY <1>1, <1>11, <2>1
    <2> QED
        BY <2>1, <2>2, FrameAccounted
<1>12. Ok(L, why, c2, A2, D2, r2)
    BY <1>4, <1>6, <1>9, <1>10, <1>11 DEF Ok
<1> QED
    BY <1>6, <1>12 DEF Leads

\* Frames p found in d from state s: the decoder stops where it must, having
\* done all that follows from the stream.
Reaches(L, why, d, s, p) ==
    \E A2, D2 : \E r2 \in BOOLEAN : \E c2 \in 0..Len(d) :
       /\ Fed(s, p.found) = Reassembler(A2, D2, r2)
       /\ p.rest = Rest(d, c2 + 1) /\ ~NoFrame(d, c2 + 1) /\ Incomplete(d, c2 + 1)
       /\ Ok(L, why, c2, A2, D2, r2)

\* A frame that is there is found, and what holds before it holds after it.
LEMMA Find ==
    ASSUME NEW L, Laid(L), NEW c \in Nat, NEW f \in Headers, Intact(L.stream, c + 1, f),
           NEW why, NEW A, NEW D, NEW ref \in BOOLEAN, Ok(L, why, c, A, D, ref)
    PROVE  Leads(L, why, Reassembler(A, D, ref), f, c + Size(f))
<1>1. PICK k \in Count(L) :
         \/ f = L.frames[k] /\ c = L.cut[k - 1] /\ Whole(L, k)
         \/ f = Inner /\ c = L.cut[k - 1] + 3 /\ L.cut[k] = L.cut[k - 1] + 8
    BY Genuine
<1>2. CASE f = L.frames[k] /\ c = L.cut[k - 1] /\ Whole(L, k)
    <2>1. L.cut[k] = c + Size(f)
        BY <1>2, LaidFrame
    <2>2. Ok(L, why, L.cut[k - 1], A, D, ref)
        BY <1>2, Zenon
    <2>3. Whole(L, k)
        BY <1>2
    <2>4. Leads(L, why, Reassembler(A, D, ref), L.frames[k], L.cut[k])
        BY <2>2, <2>3, FindFrame
    <2> QED
        BY <1>2, <2>1, <2>4, Zenon
<1>3. CASE f = Inner /\ c = L.cut[k - 1] + 3 /\ L.cut[k] = L.cut[k - 1] + 8
    <2>1. Size(Inner) = 4
        BY DEF Size, Inner, Frame
    <2>2. /\ OnFrame(Reassembler(A, D, ref), Inner) = Reassembler(A, Append(D, <<0>>), ref)
          /\ Ok(L, why, c + 4, A, Append(D, <<0>>), ref)
        BY <1>3, FindInner
    <2> DEFINE D2 == Append(D, <<0>>)
    <2> HIDE DEF D2
    <2>3. OnFrame(Reassembler(A, D, ref), f) = Reassembler(A, D2, ref)
        BY <1>3, <2>2, Zenon DEF D2
    <2>4. Ok(L, why, c + Size(f), A, D2, ref)
        BY <1>3, <2>1, <2>2, Zenon DEF D2
    <2> QED
        BY <2>3, <2>4, Zenon DEF Leads
<1> QED
    BY <1>1, <1>2, <1>3

\* The whole of what parseLoop finds.
LEMMA FoundFrames ==
    ASSUME NEW L, Laid(L), NEW d \in Seq(Elements), Len(d) <= Len(L.stream),
           \A k \in 1..Len(d) : d[k] = L.stream[k],
           NEW i \in 1..(Len(d) + 1), NEW why, NEW A, NEW D, NEW ref \in BOOLEAN,
           Ok(L, why, i - 1, A, D, ref)
    PROVE  Reaches(L, why, d, Reassembler(A, D, ref), ParseLoop(d)[i])
<1> DEFINE N == Len(d) + 1
           P == ParseLoop(d)
           From(j) == \A B, C : \A q \in BOOLEAN :
                         Ok(L, why, j - 1, B, C, q) => Reaches(L, why, d, Reassembler(B, C, q), P[j])
           T == {j \in 1..N : From(j)}
<1>1. N \in Nat /\ Len(d) \in Nat /\ L.stream \in Seq(Elements) /\ Len(L.stream) \in Nat
    BY LaidCuts DEF Laid
<1>2. ASSUME NEW j \in 1..N, \A l \in (j + 1)..N : l \in T PROVE j \in T
    <2>0. \A l \in (j + 1)..N : From(l)
        BY <1>2
    <2> SUFFICES ASSUME NEW B, NEW C, NEW q \in BOOLEAN, Ok(L, why, j - 1, B, C, q)
                 PROVE  Reaches(L, why, d, Reassembler(B, C, q), P[j])
        OBVIOUS
    <2>1. j \in 1..(Len(d) + 1) /\ j \in Nat /\ j >= 1 /\ j - 1 \in 0..Len(d) /\ j - 1 \in Nat
          /\ (j - 1) + 1 = j
        BY <1>1
    <2>2. CASE NoFrame(d, j)
        <3>1. j + 1 \in (j + 1)..N
            BY <2>1, <2>2, LoopForward
        <3>2. P[j] = P[j + 1]
            BY <2>1, <2>2, LoopCases
        <3>3. NoFrame(L.stream, j)
            <4> DEFINE z == 0
            <4>1. /\ z \in Nat /\ z + Len(d) <= Len(L.stream) /\ z + j = j
                  /\ \A k \in j..Len(d) : d[k] = L.stream[z + k]
                BY <1>1, <2>1
            <4> HIDE DEF z
            <4>2. NoFrame(L.stream, z + j)
                BY <1>1, <2>1, <2>2, <4>1, Window
            <4> QED
                BY <4>1, <4>2, Zenon
        <3>4. Ok(L, why, (j - 1) + 1, B, C, q)
            BY <2>1, <3>3, Skip
        <3>5. (j - 1) + 1 = (j + 1) - 1
            BY <2>1
        <3>6. Ok(L, why, (j + 1) - 1, B, C, q)
            BY <3>4, <3>5, Zenon
        <3> HIDE DEF P, N
        <3> QED
            BY <2>0, <3>1, <3>2, <3>6
    <2>3. CASE ~NoFrame(d, j) /\ Incomplete(d, j)
        <3> DEFINE s == Reassembler(B, C, q)
                   p == P[j]
        <3>1. p = [found |-> <<>>, rest |-> Rest(d, j)]
            BY <2>1, <2>3, LoopCases
        <3>2. Fed(s, <<>>) = s
            BY FedIs
        <3>3. p.found = <<>> /\ p.rest = Rest(d, (j - 1) + 1)
            BY <2>1, <3>1
        <3>4. ~NoFrame(d, (j - 1) + 1) /\ Incomplete(d, (j - 1) + 1)
            BY <2>1, <2>3, Zenon
        <3>5. Fed(s, p.found) = Reassembler(B, C, q)
            BY <3>2, <3>3, Zenon
        <3> HIDE DEF s, p
        <3>6. Reaches(L, why, d, s, p)
            BY <2>1, <3>3, <3>4, <3>5, Zenon DEF Reaches
        <3> QED
            BY <3>6 DEF s, p
    <2>4. CASE ~NoFrame(d, j) /\ ~Incomplete(d, j)
        <3> DEFINE f == Candidate(d, j)
                   l == FrameEnd(d, j) + 1
                   s == Reassembler(B, C, q)
        <3>1. /\ l \in (j + 1)..N /\ f \in Headers /\ Intact(d, j, f)
              /\ Size(f) \in 4..MaxFrameSize /\ l = j + Size(f)
            BY <2>1, <2>4, LoopForward
        <3>2. P[j] = [found |-> <<f>> \o P[l].found, rest |-> P[l].rest]
            BY <2>1, <2>4, LoopCases
        <3>3. P[l].found \in Seq(Headers)
            <4>1. l \in 1..(Len(d) + 1)
                BY <2>1, <3>1
            <4> HIDE DEF l
            <4>2. P[l] \in [found : Seq(Headers), rest : Seq(Elements)]
                BY <4>1, ParseType
            <4> QED
                BY <4>2
        <3> HIDE DEF f, l, P, N
        <3>4. Size(f) \in Nat
            BY <3>1, EncodeIs
        <3>5. Intact(L.stream, (j - 1) + 1, f)
            <4>1. /\ j + Size(f) - 1 <= Len(d)
                  /\ \A x \in 1..Size(f) : d[j + x - 1] = Encode(f)[x]
                BY <3>1 DEF Intact
            <4>2. \A x \in 1..Size(f) : j + x - 1 \in 1..Len(d)
                BY <1>1, <2>1, <3>4, <4>1, SMTT(30)
            <4>3. \A x \in 1..Size(f) : L.stream[j + x - 1] = Encode(f)[x]
                BY <4>1, <4>2
            <4>4. j + Size(f) - 1 <= Len(L.stream)
                BY <1>1, <2>1, <3>4, <4>1
            <4> QED
                BY <2>1, <4>3, <4>4 DEF Intact
        <3>15. Leads(L, why, s, f, (j - 1) + Size(f))
            BY <2>1, <3>1, <3>5, Find
        <3>6. PICK A2, D2 : \E r2 \in BOOLEAN :
                 OnFrame(s, f) = Reassembler(A2, D2, r2) /\ Ok(L, why, (j - 1) + Size(f), A2, D2, r2)
            BY <3>15, Zenon DEF Leads
        <3>7. PICK r2 \in BOOLEAN :
                 OnFrame(s, f) = Reassembler(A2, D2, r2) /\ Ok(L, why, (j - 1) + Size(f), A2, D2, r2)
            BY <3>6
        <3>8. (j - 1) + Size(f) = l - 1
            BY <2>1, <3>1, <3>4
        <3>9. Ok(L, why, l - 1, A2, D2, r2)
            BY <3>7, <3>8, Zenon
        <3>10. Reaches(L, why, d, Reassembler(A2, D2, r2), P[l])
            BY <2>0, <3>1, <3>9
        <3>11. Fed(s, <<f>> \o P[l].found) = Fed(OnFrame(s, f), P[l].found)
            <4> DEFINE u == P[l].found
            <4>1. f \in Headers /\ u \in Seq(Headers)
                BY <3>1, <3>3
            <4> HIDE DEF s, u
            <4>2. Fed(s, <<f>> \o u) = Fed(OnFrame(s, f), u)
                BY <4>1, FedIs
            <4> QED
                BY <4>2 DEF u
        <3>12. P[j].found = <<f>> \o P[l].found /\ P[j].rest = P[l].rest
            BY <3>2, SMTT(30)
        <3>13. Fed(s, P[j].found) = Fed(Reassembler(A2, D2, r2), P[l].found)
            <4> HIDE DEF s
            <4> QED
                BY <3>7, <3>11, <3>12, Zenon
        <3> HIDE DEF s
        <3>14. Reaches(L, why, d, s, P[j])
            BY <3>10, <3>12, <3>13, Zenon DEF Reaches
        <3> QED
            BY <3>14 DEF s
    <2> QED
        BY <2>2, <2>3, <2>4
<1>3. 1..N \subseteq T
    <2> HIDE DEF N, T
    <2> QED
        BY <1>1, <1>2, Downward
<1>4. i \in T
    <2> HIDE DEF T
    <2> QED
        BY <1>3
<1>5. From(i)
    BY <1>4
<1> QED
    BY <1>5

-----------------------------------------------------------------------------
(* The invariant of the state                                              *)

\* The elements that are not as they were sent.
Hits(L) ==
    {p \in 1..Len(L.stream) :
        \E k \in Count(L) : \E x \in 1..Size(L.frames[k]) :
            p = L.cut[k - 1] + x /\ L.stream[p] # Encode(L.frames[k])[x]}

\* What holds between two pieces.
Sound(L, why, c, A, D) ==
    /\ c \in Nat /\ c <= Len(L.stream) /\ Outside(L, c)
    /\ AssembliesOk(Len(L.sent), A) /\ DeliveredOk(Len(L.sent), D)
    /\ NoInner(L, D)
    /\ "reused" \notin why => Unreused(L, c, A, D)
    /\ why = {} => Accounted(L, c, A, D)

\* The decoder has read d up to c and needs more.
Stops(d, c, rest) ==
    c \in 0..Len(d) /\ rest = Rest(d, c + 1) /\ ~NoFrame(d, c + 1) /\ Incomplete(d, c + 1)

\* L is how the elements that arrived and those on their way were made.
Story(L, c) ==
    /\ L.stream = arrived \o wire /\ L.sent = sent /\ Laid(L)
    /\ Cardinality(Hits(L)) <= damage
    /\ Stops(arrived, c, buffer)
    /\ Sound(L, causes, c, assemblies, delivered)

\* Why, but for damage, a message may be lost.
Reasons == {"reused", "expired", "refused"}

\* There is a story of the stream by which all of it holds.
FramingInvariant ==
    /\ nextMessageId \in MessageIds /\ sent \in Seq(FrameCounts) /\ Len(sent) <= MaxMessages
    /\ damage \in 0..MaxNoise /\ causes \subseteq Reasons
    /\ arrived \in Seq(Elements) /\ wire \in Seq(Elements)
    /\ ChunkingIrrelevant
    /\ \E L, c : Story(L, c)

\* A sequence in two parts.
LEMMA Cut ==
    ASSUME NEW S, NEW s \in Seq(S), NEW t \in Seq(S), NEW n \in 0..Len(t)
    PROVE  /\ SubSeq(t, 1, n) \in Seq(S) /\ SubSeq(t, n + 1, Len(t)) \in Seq(S)
           /\ s \o SubSeq(t, 1, n) \in Seq(S)
           /\ Len(s \o SubSeq(t, 1, n)) = Len(s) + n
           /\ (s \o SubSeq(t, 1, n)) \o SubSeq(t, n + 1, Len(t)) = s \o t
           /\ \A k \in 1..(Len(s) + n) : (s \o SubSeq(t, 1, n))[k] = (s \o t)[k]
<1> DEFINE a == SubSeq(t, 1, n)
           b == SubSeq(t, n + 1, Len(t))
           d == s \o a
           u == d \o b
           v == s \o t
<1>1. Len(s) \in Nat /\ Len(t) \in Nat /\ n \in Nat /\ n <= Len(t)
    OBVIOUS
<1>2. /\ a \in Seq(S) /\ Len(a) = n /\ \A k \in 1..n : a[k] = t[k]
    <2>1. 1 \in 1..(Len(t) + 1) /\ n \in (1 - 1)..Len(t)
        BY <1>1
    <2>2. a \in Seq(S) /\ Len(a) = n - 1 + 1 /\ \A k \in 1..(n - 1 + 1) : a[k] = t[1 + k - 1]
        BY <2>1, Part
    <2> HIDE DEF a
    <2>3. n - 1 + 1 = n /\ \A k \in 1..n : 1 + k - 1 = k
        BY <1>1
    <2> QED
        BY <2>2, <2>3
<1>3. /\ b \in Seq(S) /\ Len(b) = Len(t) - n /\ \A k \in 1..(Len(t) - n) : b[k] = t[n + k]
    <2>1. n + 1 \in 1..(Len(t) + 1) /\ Len(t) \in ((n + 1) - 1)..Len(t)
        BY <1>1
    <2> DEFINE m == n + 1
    <2> HIDE DEF m
    <2>2. /\ SubSeq(t, m, Len(t)) \in Seq(S) /\ Len(SubSeq(t, m, Len(t))) = Len(t) - m + 1
          /\ \A k \in 1..(Len(t) - m + 1) : SubSeq(t, m, Len(t))[k] = t[m + k - 1]
        BY <2>1, Part DEF m
    <2>3. Len(t) - m + 1 = Len(t) - n /\ \A k \in 1..(Len(t) - n) : m + k - 1 = n + k
        BY <1>1 DEF m
    <2>4. b = SubSeq(t, m, Len(t))
        BY DEF m
    <2> HIDE DEF b
    <2> QED
        BY <2>2, <2>3, <2>4
<1> HIDE DEF a, b
<1>4. /\ d \in Seq(S) /\ Len(d) = Len(s) + n
      /\ \A k \in 1..Len(s) : d[k] = s[k]
      /\ \A k \in (Len(s) + 1)..(Len(s) + n) : d[k] = a[k - Len(s)]
    <2>1. /\ d \in Seq(S) /\ Len(d) = Len(s) + Len(a)
          /\ \A k \in 1..Len(s) : d[k] = s[k]
          /\ \A k \in (Len(s) + 1)..(Len(s) + Len(a)) : d[k] = a[k - Len(s)]
        BY <1>2, Joined, ZenonT(30)
    <2> HIDE DEF d
    <2> QED
        BY <1>2, <2>1
<1>5. /\ v \in Seq(S) /\ Len(v) = Len(s) + Len(t)
      /\ \A k \in 1..Len(s) : v[k] = s[k]
      /\ \A k \in (Len(s) + 1)..(Len(s) + Len(t)) : v[k] = t[k - Len(s)]
    BY Joined
<1> HIDE DEF d, v
<1>6. /\ u \in Seq(S) /\ Len(u) = Len(d) + Len(b)
      /\ \A k \in 1..Len(d) : u[k] = d[k]
      /\ \A k \in (Len(d) + 1)..(Len(d) + Len(b)) : u[k] = b[k - Len(d)]
    <2>1. d \in Seq(S) /\ b \in Seq(S)
        BY <1>3, <1>4
    <2> QED
        BY <2>1, Joined
<1> HIDE DEF u
<1>7. ASSUME NEW k \in 1..(Len(s) + n) PROVE d[k] = v[k]
    <2>1. CASE k <= Len(s)
        <3>1. k \in 1..Len(s)
            BY <1>1, <2>1
        <3> QED
            BY <1>4, <1>5, <3>1
    <2>2. CASE ~(k <= Len(s))
        <3>1. k \in (Len(s) + 1)..(Len(s) + n) /\ k \in (Len(s) + 1)..(Len(s) + Len(t))
              /\ k - Len(s) \in 1..n
            BY <1>1, <2>2
        <3> QED
            BY <1>2, <1>4, <1>5, <3>1
    <2> QED
        BY <2>1, <2>2
<1>8. ASSUME NEW k \in 1..(Len(s) + Len(t)) PROVE u[k] = v[k]
    <2>1. CASE k <= Len(s) + n
        <3>1. k \in 1..(Len(s) + n) /\ k \in 1..Len(d)
            BY <1>1, <1>4, <2>1
        <3> QED
            BY <1>6, <1>7, <3>1
    <2>2. CASE ~(k <= Len(s) + n)
        <3>1. /\ k \in (Len(d) + 1)..(Len(d) + Len(b)) /\ k - Len(d) \in 1..(Len(t) - n)
              /\ k \in (Len(s) + 1)..(Len(s) + Len(t)) /\ n + (k - Len(d)) = k - Len(s)
            BY <1>1, <1>3, <1>4, <2>2
        <3> QED
            BY <1>3, <1>5, <1>6, <3>1
    <2> QED
        BY <2>1, <2>2
<1>9. u = v
    <2>1. Len(u) = Len(s) + Len(t) /\ Len(u) = Len(v)
        BY <1>1, <1>3, <1>4, <1>5, <1>6
    <2> QED
        BY <1>5, <1>6, <1>8, <2>1, SeqEqual
<1> QED
    BY <1>2, <1>3, <1>4, <1>7, <1>9 DEF d, u, v, a, b

\* What is kept, with what comes next, is what came from there on.
LEMMA RestJoined ==
    ASSUME NEW s \in Seq(Elements), NEW t \in Seq(Elements), NEW i \in 1..(Len(s) + 1)
    PROVE  /\ Rest(s, i) \o t = Rest(s \o t, i)
           /\ s \o t \in Seq(Elements) /\ i \in 1..(Len(s \o t) + 1)
<1> DEFINE d == s \o t
           r == Rest(s, i)
           u == r \o t
           v == Rest(d, i)
<1>1. /\ d \in Seq(Elements) /\ Len(d) = Len(s) + Len(t) /\ Len(s) \in Nat /\ Len(t) \in Nat
      /\ \A k \in 1..Len(s) : d[k] = s[k]
      /\ \A k \in (Len(s) + 1)..(Len(s) + Len(t)) : d[k] = t[k - Len(s)]
    BY Joined
<1> HIDE DEF d
<1>2. i \in 1..(Len(d) + 1)
    BY <1>1
<1>3. /\ r \in Seq(Elements) /\ Len(r) = Len(s) - i + 1
      /\ \A k \in 1..(Len(s) - i + 1) : r[k] = s[i + k - 1]
    BY RestIs
<1>4. /\ v \in Seq(Elements) /\ Len(v) = Len(d) - i + 1
      /\ \A k \in 1..(Len(d) - i + 1) : v[k] = d[i + k - 1]
    BY <1>1, <1>2, RestIs
<1> HIDE DEF r, v
<1>5. /\ u \in Seq(Elements) /\ Len(u) = Len(r) + Len(t)
      /\ \A k \in 1..Len(r) : u[k] = r[k]
      /\ \A k \in (Len(r) + 1)..(Len(r) + Len(t)) : u[k] = t[k - Len(r)]
    BY <1>3, Joined, ZenonT(30)
<1> HIDE DEF u
<1>6. Len(u) = Len(v) /\ Len(v) \in Nat
    BY <1>1, <1>3, <1>4, <1>5
<1>7. ASSUME NEW k \in 1..Len(v) PROVE u[k] = v[k]
    <2>1. CASE k <= Len(r)
        <3>1. k \in 1..Len(r) /\ k \in 1..(Len(s) - i + 1) /\ k \in 1..(Len(d) - i + 1)
              /\ i + k - 1 \in 1..Len(s)
            BY <1>1, <1>3, <2>1, SMTT(30)
        <3> QED
            BY <1>1, <1>3, <1>4, <1>5, <3>1
    <2>2. CASE ~(k <= Len(r))
        <3>1. /\ k \in (Len(r) + 1)..(Len(r) + Len(t)) /\ k \in 1..(Len(d) - i + 1)
              /\ i + k - 1 \in (Len(s) + 1)..(Len(s) + Len(t))
              /\ (i + k - 1) - Len(s) = k - Len(r)
            <4>1. Len(v) = Len(s) + Len(t) - i + 1 /\ Len(r) = Len(s) - i + 1
                BY <1>1, <1>3, <1>4
            <4>2. k \in Int /\ k <= Len(v) /\ k > Len(r) /\ i \in Int /\ i >= 1 /\ k >= 1
                  /\ i <= Len(s) + 1 /\ Len(r) \in Nat
                BY <1>1, <1>3, <1>6, <2>2
            <4>3. Len(d) - i + 1 = Len(v)
                BY <1>4
            <4> QED
                BY <1>1, <4>1, <4>2, <4>3
        <3> QED
            BY <1>1, <1>4, <1>5, <3>1
    <2> QED
        BY <2>1, <2>2
<1>8. u = v
    <2>1. u \in Seq(Elements) /\ v \in Seq(Elements)
        BY <1>4, <1>5
    <2> QED
        BY <1>6, <1>7, <2>1, SeqEqual
<1> QED
    BY <1>1, <1>2, <1>8 DEF d, u, v, r

\* messageIds go round.
LEMMA SuccessorIs == \A id \in MessageIds : Successor(id) \in MessageIds
<1> TAKE id \in MessageIds
<1>1. MaxMessageId \in Nat \ {0} /\ id \in Nat /\ id >= 1 /\ id <= MaxMessageId
    BY FramingAssumption DEF MessageIds
<1> QED
    BY <1>1 DEF Successor, MessageIds

\* Nothing has been sent.
LEMMA NothingLaid ==
    LET L == [sent |-> <<>>, frames |-> <<>>, cut |-> [k \in 0..0 |-> 0], stream |-> <<>>]
    IN Laid(L) /\ Hits(L) = {} /\ Count(L) = {} /\ L.sent = <<>> /\ L.stream = <<>>
<1> DEFINE L == [sent |-> <<>>, frames |-> <<>>, cut |-> [k \in 0..0 |-> 0], stream |-> <<>>]
<1>1. /\ L.sent = <<>> /\ L.frames = <<>> /\ L.stream = <<>> /\ L.cut = [k \in 0..0 |-> 0]
      /\ Len(L.frames) = 0 /\ Len(L.stream) = 0 /\ DOMAIN L.sent = {}
    OBVIOUS
<1>2. /\ L.sent \in Seq(FrameCounts) /\ L.frames \in Seq(Headers) /\ L.stream \in Seq(Elements)
    BY <1>1
<1>3. /\ L.cut \in [0..Len(L.frames) -> Nat] /\ L.cut[0] = 0
      /\ L.cut[Len(L.frames)] = Len(L.stream)
    BY <1>1
<1> HIDE DEF L
<1>4. Count(L) = {}
    BY <1>1 DEF Count
<1>5. Laid(L) /\ Hits(L) = {}
    BY <1>1, <1>2, <1>3, <1>4 DEF Laid, Hits
<1> QED
    BY <1>1, <1>4, <1>5 DEF L

\* The invariant holds at first.
LEMMA FramingInit == Init => FramingInvariant
<1> SUFFICES ASSUME Init PROVE FramingInvariant
    OBVIOUS
<1>1. /\ sent = <<>> /\ nextMessageId = 1 /\ wire = <<>> /\ buffer = <<>>
      /\ assemblies = [id \in MessageIds |-> NoAssembly]
      /\ delivered = <<>> /\ arrived = <<>> /\ frames = <<>> /\ damage = 0 /\ causes = {}
    BY DEF Init
<1> DEFINE none == <<>>
           N == Len(none)
<1>2. none \in Seq(Elements) /\ N = 0 /\ none \o none = none /\ none \in Seq(Seq(Nat))
      /\ DOMAIN none = {} /\ none \in Seq(FrameCounts)
    OBVIOUS
<1>3. arrived = none /\ wire = none /\ sent = none /\ delivered = none /\ buffer = none
      /\ frames = none
    BY <1>1
<1> DEFINE L == [sent |-> <<>>, frames |-> <<>>, cut |-> [k \in 0..0 |-> 0], stream |-> <<>>]
<1>4. Laid(L) /\ Hits(L) = {} /\ Count(L) = {} /\ L.sent = none /\ L.stream = none
    BY NothingLaid
<1> HIDE DEF none, L
<1>5. ~NoFrame(none, 1) /\ Incomplete(none, 1) /\ Rest(none, 1) = none
    <2>1. 1 \in 1..(Len(none) + 1)
        BY <1>2
    <2>2. ~NoFrame(none, 1)
        <3>1. NoFrame(none, 1) => 1 <= Len(none)
            BY <1>2, <2>1, DecoderSees
        <3>2. ~(1 <= Len(none))
            BY <1>2
        <3> QED
            BY <3>1, <3>2, Zenon
    <2>3. Incomplete(none, 1)
        BY <1>2 DEF Incomplete
    <2>4. Rest(none, 1) \in Seq(Elements) /\ Len(Rest(none, 1)) = Len(none) - 1 + 1
        BY <1>2, <2>1, RestIs, ZenonT(30)
    <2>5. Len(Rest(none, 1)) = 0
        BY <1>2, <2>4
    <2>6. Rest(none, 1) = none
        BY <1>2, <2>4, <2>5, SeqEqual
    <2> QED
        BY <2>2, <2>3, <2>6
<1>6. Parse(none).found = none /\ Parse(none).rest = none
    <2>1. 1 \in 1..(Len(none) + 1)
        BY <1>2
    <2>2. ParseLoop(none)[1] = [found |-> <<>>, rest |-> Rest(none, 1)]
        BY <1>2, <1>5, <2>1, LoopCases
    <2> QED
        BY <1>5, <2>2 DEF Parse, none
<1>7. ChunkingIrrelevant
    BY <1>3, <1>6 DEF ChunkingIrrelevant
<1>8. Stops(none, 0, none)
    <2>1. 0 + 1 = 1 /\ 0 \in 0..Len(none)
        BY <1>2
    <2> QED
        BY <1>5, <2>1 DEF Stops
<1>9. Pending(assemblies) = {} /\ AssembliesOk(0, assemblies)
    <2>1. Pending(assemblies) = {}
        BY <1>1 DEF Pending
    <2>2. assemblies \in [MessageIds -> Assembly \cup {NoAssembly}]
        BY <1>1
    <2>3. Cardinality({}) = 0 /\ MaxAssemblies \in Nat
        BY FS_EmptySet, FramingAssumption
    <2>4. Cardinality(Pending(assemblies)) <= MaxAssemblies
        BY <2>1, <2>3
    <2> QED
        BY <2>1, <2>2, <2>4 DEF AssembliesOk
<1>10. Sound(L, {}, 0, assemblies, none)
    <2>1. DeliveredOk(0, none)
        BY <1>2 DEF DeliveredOk
    <2>2. Outside(L, 0) /\ NoInner(L, none)
        BY <1>2, <1>4 DEF Outside, NoInner
    <2>3. Unmixed(L, 0) /\ Collecting(L, 0, assemblies) /\ HandedOn(L, 0, none)
        BY <1>2, <1>4, <1>9 DEF Unmixed, Collecting, HandedOn
    <2>4. Accounted(L, 0, assemblies, none)
        BY <1>4, <1>9 DEF Accounted
    <2>5. Len(L.sent) = 0 /\ Len(L.stream) = 0
        BY <1>2, <1>4
    <2> QED
        BY <1>9, <2>1, <2>2, <2>3, <2>4, <2>5 DEF Sound, Unreused
<1>11. Story(L, 0)
    <2>1. Cardinality(Hits(L)) = 0
        BY <1>4, FS_EmptySet
    <2> QED
        BY <1>1, <1>2, <1>3, <1>4, <1>8, <1>10, <2>1 DEF Story
<1>12. /\ nextMessageId \in MessageIds /\ Len(sent) <= MaxMessages /\ damage \in 0..MaxNoise
       /\ causes \subseteq Reasons
    <2>1. MaxMessageId \in Nat \ {0} /\ MaxMessages \in Nat /\ MaxNoise \in Nat
        BY FramingAssumption
    <2>2. Len(sent) = 0
        BY <1>2, <1>3
    <2> QED
        BY <1>1, <2>1, <2>2 DEF MessageIds
<1> QED
    BY <1>2, <1>3, <1>7, <1>11, <1>12 DEF FramingInvariant

\* What holds after the frames of a piece holds when the cause is noted.
LEMMA Noted ==
    ASSUME NEW L, NEW why, NEW c, NEW A, NEW D, NEW r \in BOOLEAN, Ok(L, why, c, A, D, r),
           NEW why2, ~r => (why2 = why), r => (why2 = why \cup {"refused"})
    PROVE  Sound(L, why2, c, A, D)
<1>1. /\ c \in Nat /\ c <= Len(L.stream) /\ Outside(L, c)
      /\ AssembliesOk(Len(L.sent), A) /\ DeliveredOk(Len(L.sent), D)
      /\ NoInner(L, D)
      /\ "reused" \notin why => Unreused(L, c, A, D)
      /\ why = {} /\ ~r => Accounted(L, c, A, D)
    BY DEF Ok
<1>2. "reused" \notin why2 => "reused" \notin why
    OBVIOUS
<1>3. why2 = {} => why = {} /\ ~r
    OBVIOUS
<1> QED
    BY <1>1, <1>2, <1>3 DEF Sound

\* t is cut after n elements, s having come before.
Split(S, s, t, n) ==
    /\ SubSeq(t, 1, n) \in Seq(S) /\ SubSeq(t, n + 1, Len(t)) \in Seq(S)
    /\ s \o SubSeq(t, 1, n) \in Seq(S)
    /\ Len(s \o SubSeq(t, 1, n)) = Len(s) + n
    /\ (s \o SubSeq(t, 1, n)) \o SubSeq(t, n + 1, Len(t)) = s \o t
    /\ \A k \in 1..(Len(s) + n) : (s \o SubSeq(t, 1, n))[k] = (s \o t)[k]

\* A sequence can be cut anywhere.
LEMMA SplitIs ==
    \A S : \A s, t \in Seq(S) : \A n \in 0..Len(t) : Split(S, s, t, n)
<1> SUFFICES ASSUME NEW S, NEW s \in Seq(S), NEW t \in Seq(S), NEW n \in 0..Len(t)
             PROVE  Split(S, s, t, n)
    OBVIOUS
<1> QED
    BY Cut DEF Split

\* A piece arrives: the decoder reads on from where it stopped.
LEMMA FramingArrive ==
    ASSUME FramingInvariant, NEW n \in 1..Len(wire), Arrive(n)
    PROVE  FramingInvariant'
<1> DEFINE piece == SubSeq(wire, 1, n)
           p == Parse(buffer \o piece)
           d == arrived \o piece
           no == FALSE
           s == Fed(Reassembler(assemblies, delivered, no), p.found)
<1>1. PICK L, c : Story(L, c)
    BY DEF FramingInvariant
<1>2. /\ L.stream = arrived \o wire /\ L.sent = sent /\ Laid(L)
      /\ Cardinality(Hits(L)) <= damage
      /\ c \in 0..Len(arrived) /\ buffer = Rest(arrived, c + 1)
      /\ Sound(L, causes, c, assemblies, delivered)
      /\ arrived \in Seq(Elements) /\ wire \in Seq(Elements)
      /\ ChunkingIrrelevant
    BY <1>1 DEF Story, Stops, FramingInvariant
<1>3. /\ wire' = SubSeq(wire, n + 1, Len(wire)) /\ arrived' = d
      /\ buffer' = p.rest /\ frames' = frames \o p.found
      /\ assemblies' = s.assemblies /\ delivered' = s.delivered
      /\ causes' = IF s.refused THEN causes \cup {"refused"} ELSE causes
      /\ sent' = sent /\ nextMessageId' = nextMessageId /\ damage' = damage
    <2> HIDE DEF d, p
    <2>1. s = OnFrames([assemblies |-> assemblies, delivered |-> delivered,
                        refused |-> FALSE], p.found)[Len(p.found)]
        BY Zenon DEF Fed, Reassembler
    <2>2. /\ wire' = SubSeq(wire, n + 1, Len(wire)) /\ arrived' = arrived \o piece
          /\ sent' = sent /\ nextMessageId' = nextMessageId /\ damage' = damage
        BY DEF Arrive
    <2>3. LET z == OnFrames([assemblies |-> assemblies, delivered |-> delivered,
                        refused |-> FALSE], p.found)[Len(p.found)]
          IN /\ buffer' = p.rest /\ frames' = frames \o p.found
             /\ assemblies' = z.assemblies /\ delivered' = z.delivered
             /\ causes' = IF z.refused THEN causes \cup {"refused"} ELSE causes
        <3>1. PICK q \in {Parse(buffer \o SubSeq(wire, 1, n))} :
                 LET z == OnFrames([assemblies |-> assemblies, delivered |-> delivered,
                                    refused |-> FALSE], q.found)[Len(q.found)]
                 IN /\ buffer' = q.rest /\ frames' = frames \o q.found
                    /\ assemblies' = z.assemblies /\ delivered' = z.delivered
                    /\ causes' = IF z.refused THEN causes \cup {"refused"} ELSE causes
            BY Zenon DEF Arrive
        <3>2. q = p
            BY <3>1 DEF p
        <3> QED
            BY <3>1, <3>2, Zenon
    <2> HIDE DEF s
    <2>4. /\ assemblies' = s.assemblies /\ delivered' = s.delivered
          /\ causes' = IF s.refused THEN causes \cup {"refused"} ELSE causes
        BY <2>1, <2>3, Zenon
    <2> QED
        BY <2>2, <2>3, <2>4 DEF d
<1>4. /\ piece \in Seq(Elements) /\ wire' \in Seq(Elements) /\ d \in Seq(Elements)
      /\ d \o wire' = arrived \o wire /\ Len(d) = Len(arrived) + n
      /\ \A k \in 1..Len(d) : d[k] = L.stream[k]
    <2>1. n \in 0..Len(wire)
        BY <1>2
    <2> DEFINE rest == SubSeq(wire, n + 1, Len(wire))
               all == arrived \o wire
    <2>2. /\ piece \in Seq(Elements) /\ rest \in Seq(Elements) /\ d \in Seq(Elements)
          /\ Len(d) = Len(arrived) + n /\ d \o rest = all
          /\ \A k \in 1..(Len(arrived) + n) : d[k] = all[k]
        <3>1. arrived \in Seq(Elements) /\ wire \in Seq(Elements)
            BY <1>2
        <3>2. /\ SubSeq(wire, 1, n) \in Seq(Elements)
              /\ SubSeq(wire, n + 1, Len(wire)) \in Seq(Elements)
              /\ arrived \o SubSeq(wire, 1, n) \in Seq(Elements)
              /\ Len(arrived \o SubSeq(wire, 1, n)) = Len(arrived) + n
              /\ (arrived \o SubSeq(wire, 1, n)) \o SubSeq(wire, n + 1, Len(wire))
                    = arrived \o wire
              /\ \A k \in 1..(Len(arrived) + n) :
                    (arrived \o SubSeq(wire, 1, n))[k] = (arrived \o wire)[k]
            <4>1. Split(Elements, arrived, wire, n)
                BY <2>1, <3>1, SplitIs, Zenon
            <4> QED
                BY <4>1, Zenon DEF Split
        <3> QED
            BY <3>2, Zenon
    <2>3. wire' = rest /\ L.stream = all
        BY <1>2, <1>3
    <2> HIDE DEF piece, rest, d, all
    <2>4. \A k \in 1..Len(d) : d[k] = L.stream[k]
        BY <2>2, <2>3
    <2>5. d \o wire' = all /\ wire' \in Seq(Elements)
        BY <2>2, <2>3, Zenon
    <2> QED
        BY <2>2, <2>4, <2>5 DEF all
<1> HIDE DEF piece
<1>5. c + 1 \in 1..(Len(arrived) + 1) /\ c \in Nat /\ (c + 1) - 1 = c
    BY <1>2
<1>6. buffer \o piece = Rest(d, c + 1) /\ c + 1 \in 1..(Len(d) + 1)
    BY <1>2, <1>4, <1>5, RestJoined
<1> HIDE DEF d
<1>7. p = ParseLoop(d)[c + 1]
    BY <1>4, <1>6, ParseShift
<1>8. p = Parse(Parse(arrived).rest \o piece)
    BY <1>2 DEF ChunkingIrrelevant
<1>9. ChunkingIrrelevant'
    <2> DEFINE q == Parse(Parse(arrived).rest \o piece)
    <2>1. Parse(arrived \o piece) = [found |-> Parse(arrived).found \o q.found, rest |-> q.rest]
        BY <1>2, <1>4, ParseSplit
    <2>2. Parse(d).found = frames \o p.found /\ Parse(d).rest = p.rest
        <3> HIDE DEF p
        <3>1. q = p
            BY <1>8
        <3> HIDE DEF q
        <3>2. frames = Parse(arrived).found
            BY <1>2 DEF ChunkingIrrelevant
        <3> DEFINE e == Parse(d)
                   x == Parse(arrived).found \o q.found
                   y == q.rest
        <3>3. e = [found |-> x, rest |-> y]
            BY <2>1 DEF d
        <3> HIDE DEF e, x, y
        <3>4. e.found = x /\ e.rest = y
            BY <3>3
        <3>5. Parse(d).found = Parse(arrived).found \o q.found /\ Parse(d).rest = q.rest
            BY <3>4 DEF e, x, y
        <3> QED
            BY <3>1, <3>2, <3>5, Zenon
    <2> HIDE DEF p, q
    <2> QED
        BY <1>3, <2>2 DEF ChunkingIrrelevant
<1> HIDE DEF p
<1>10. Len(d) <= Len(L.stream) /\ Len(L.stream) \in Nat /\ Len(d) \in Nat
    <2>1. Len(arrived \o wire) = Len(arrived) + Len(wire) /\ Len(arrived) \in Nat /\ Len(wire) \in Nat
        BY <1>2, Joined
    <2> QED
        BY <1>2, <1>4, <2>1
<1>11. Ok(L, causes, (c + 1) - 1, assemblies, delivered, no)
    <2>1. Ok(L, causes, c, assemblies, delivered, no)
        BY <1>2, Zenon DEF Sound, Ok
    <2> QED
        BY <1>5, <2>1, Zenon
<1>12. no \in BOOLEAN
    OBVIOUS
<1> HIDE DEF no
<1>13. Reaches(L, causes, d, Reassembler(assemblies, delivered, no), ParseLoop(d)[c + 1])
    BY <1>2, <1>4, <1>6, <1>10, <1>11, <1>12, FoundFrames
<1>14. PICK A2, D2 : \E r2 \in BOOLEAN : \E c2 \in 0..Len(d) :
          /\ s = Reassembler(A2, D2, r2)
          /\ p.rest = Rest(d, c2 + 1) /\ ~NoFrame(d, c2 + 1) /\ Incomplete(d, c2 + 1)
          /\ Ok(L, causes, c2, A2, D2, r2)
    BY <1>7, <1>13, Zenon DEF Reaches
<1>15. PICK r2 \in BOOLEAN, c2 \in 0..Len(d) :
          /\ s = Reassembler(A2, D2, r2)
          /\ p.rest = Rest(d, c2 + 1) /\ ~NoFrame(d, c2 + 1) /\ Incomplete(d, c2 + 1)
          /\ Ok(L, causes, c2, A2, D2, r2)
    BY <1>14
<1>16. /\ assemblies' = A2 /\ delivered' = D2
       /\ ~r2 => causes' = causes
       /\ r2 => causes' = causes \cup {"refused"}
    <2>1. s.assemblies = A2 /\ s.delivered = D2 /\ s.refused = r2
        <3>1. /\ Reassembler(A2, D2, r2).assemblies = A2 /\ Reassembler(A2, D2, r2).delivered = D2
              /\ Reassembler(A2, D2, r2).refused = r2
            BY DEF Reassembler
        <3> HIDE DEF s
        <3> QED
            BY <1>15, <3>1, Zenon
    <2> HIDE DEF s
    <2> QED
        BY <1>3, <2>1, Zenon
<1> HIDE DEF s
<1>17. Sound(L, causes', c2, assemblies', delivered')
    <2>1. Sound(L, causes', c2, A2, D2)
        <3> DEFINE why2 == causes'
        <3>1. /\ ~r2 => why2 = causes
              /\ r2 => why2 = causes \cup {"refused"}
            BY <1>16
        <3>2. Ok(L, causes, c2, A2, D2, r2) /\ r2 \in BOOLEAN
            BY <1>15, Zenon
        <3> HIDE DEF why2
        <3>3. Sound(L, why2, c2, A2, D2)
            BY <3>1, <3>2, Noted
        <3> QED
            BY <3>3 DEF why2
    <2> QED
        BY <1>16, <2>1, Zenon
<1>18. Story(L, c2)'
    <2>1. Stops(d, c2, p.rest)
        BY <1>15 DEF Stops
    <2>2. Stops(arrived', c2, buffer')
        BY <1>3, <2>1, Zenon
    <2>3. L.stream = arrived' \o wire'
        BY <1>2, <1>3, <1>4
    <2>4. Laid(L) /\ L.sent = sent' /\ Cardinality(Hits(L)) <= damage'
        BY <1>2, <1>3, Zenon
    <2> QED
        BY <1>17, <2>2, <2>3, <2>4, Zenon DEF Story
<1>19. causes' \subseteq Reasons
    BY <1>16 DEF FramingInvariant, Reasons
<1>20. (nextMessageId \in MessageIds /\ sent \in Seq(FrameCounts) /\ Len(sent) <= MaxMessages
        /\ damage \in 0..MaxNoise)'
    BY <1>3 DEF FramingInvariant
<1>21. (arrived \in Seq(Elements) /\ wire \in Seq(Elements))'
    BY <1>3, <1>4
<1> QED
    BY <1>9, <1>18, <1>19, <1>20, <1>21 DEF FramingInvariant

\* An assembly that has become old is otherwise as it was.
LEMMA Older ==
    ASSUME NEW n, NEW a, AssemblyOk(n, a), NEW yes \in BOOLEAN
    PROVE  LET b == [a EXCEPT !.old = yes]
           IN AssemblyOk(n, b) /\ b.count = a.count /\ b.parts = a.parts
<1> DEFINE b == [a EXCEPT !.old = yes]
<1>1. a \in Assembly
    BY DEF AssemblyOk
<1>2. b \in Assembly /\ b.count = a.count /\ b.parts = a.parts /\ b.size = a.size
    BY <1>1 DEF Assembly
<1> HIDE DEF b
<1>3. AssemblyOk(n, b)
    BY <1>2, Zenon DEF AssemblyOk
<1> QED
    BY <1>2, <1>3 DEF b

\* assemblyTimeoutMs passing takes nothing from what is to come.
LEMMA FramingAge ==
    ASSUME FramingInvariant, NEW id \in MessageIds, Age(id)
    PROVE  FramingInvariant'
<1> DEFINE yes == TRUE
           a == assemblies[id]
           b == [a EXCEPT !.old = yes]
           A2 == [assemblies EXCEPT ![id] = b]
           why == causes \cup {"expired"}
<1>1. PICK L, c : Story(L, c)
    BY DEF FramingInvariant
<1>2. /\ L.stream = arrived \o wire /\ L.sent = sent /\ Laid(L)
      /\ Cardinality(Hits(L)) <= damage /\ Stops(arrived, c, buffer)
      /\ Sound(L, causes, c, assemblies, delivered)
    BY <1>1 DEF Story
<1>3. /\ assemblies[id] # NoAssembly /\ causes' = why
      /\ sent' = sent /\ nextMessageId' = nextMessageId /\ wire' = wire /\ buffer' = buffer
      /\ delivered' = delivered /\ arrived' = arrived /\ frames' = frames /\ damage' = damage
    BY DEF Age
<1>4. assemblies' = A2
    BY Zenon DEF Age
<1>5. /\ c \in Nat /\ c <= Len(L.stream) /\ Outside(L, c)
      /\ AssembliesOk(Len(L.sent), assemblies) /\ DeliveredOk(Len(L.sent), delivered)
      /\ NoInner(L, delivered)
      /\ "reused" \notin causes => Unreused(L, c, assemblies, delivered)
    BY <1>2 DEF Sound
<1>6. Len(L.sent) \in Nat
    <2>1. L.sent \in Seq(FrameCounts)
        BY <1>2 DEF Laid
    <2> QED
        BY <2>1
<1>7. AssemblyOk(Len(L.sent), b) /\ b.count = a.count /\ b.parts = a.parts
    <2>1. AssemblyOk(Len(L.sent), a) /\ yes \in BOOLEAN
        BY <1>3, <1>5 DEF AssembliesOk, Pending
    <2> HIDE DEF yes, a
    <2> QED
        BY <2>1, Older
<1> HIDE DEF a, b, yes
<1>8. AssembliesOk(Len(L.sent), A2)
    BY <1>3, <1>5, <1>6, <1>7, Replaced
<1>9. "reused" \notin why => Unreused(L, c, A2, delivered)
    <2> SUFFICES ASSUME "reused" \notin why PROVE Unreused(L, c, A2, delivered)
        OBVIOUS
    <2>1. Unmixed(L, c) /\ Collecting(L, c, assemblies) /\ HandedOn(L, c, delivered)
        BY <1>5 DEF Unreused
    <2>2. PICK m \in DOMAIN L.sent : Collects(L, c, m, id, assemblies[id])
        BY <1>3, <2>1 DEF Collecting, Pending
    <2>3. Collects(L, c, m, id, b)
        BY <1>7, <2>2 DEF Collects, a
    <2>4. Collecting(L, c, A2)
        BY <1>5, <1>6, <2>1, <2>3, CollectingReplaced
    <2> QED
        BY <2>1, <2>4 DEF Unreused
<1>10. why # {}
    OBVIOUS
<1> HIDE DEF A2
<1>11. Sound(L, why, c, A2, delivered)
    BY <1>5, <1>8, <1>9, <1>10 DEF Sound
<1>12. why \subseteq Reasons
    BY DEF FramingInvariant, Reasons
<1> HIDE DEF why
<1>13. Story(L, c)'
    <2>1. Sound(L, causes', c, assemblies', delivered')
        BY <1>3, <1>4, <1>11, Zenon
    <2>2. /\ L.stream = arrived' \o wire' /\ L.sent = sent' /\ Laid(L)
          /\ Cardinality(Hits(L)) <= damage' /\ Stops(arrived', c, buffer')
        BY <1>2, <1>3, Zenon
    <2> QED
        BY <2>1, <2>2, Zenon DEF Story
<1>14. ChunkingIrrelevant'
    BY <1>3 DEF FramingInvariant, ChunkingIrrelevant
<1> QED
    BY <1>3, <1>12, <1>13, <1>14 DEF FramingInvariant

\* An id used up for nothing.
LEMMA FramingTooLong ==
    ASSUME FramingInvariant, SendTooLong
    PROVE  FramingInvariant'
<1>1. PICK L, c : Story(L, c)
    BY DEF FramingInvariant
<1>2. /\ nextMessageId' \in MessageIds
      /\ sent' = sent /\ wire' = wire /\ buffer' = buffer /\ assemblies' = assemblies
      /\ delivered' = delivered /\ arrived' = arrived /\ frames' = frames /\ damage' = damage
      /\ causes' = causes
    BY SuccessorIs DEF FramingInvariant, SendTooLong
<1>3. Story(L, c)'
    BY <1>1, <1>2 DEF Story
<1>4. ChunkingIrrelevant'
    BY <1>2 DEF FramingInvariant, ChunkingIrrelevant
<1> QED
    BY <1>2, <1>3, <1>4 DEF FramingInvariant

\* A step that changes nothing keeps the invariant.
LEMMA FramingStutter ==
    ASSUME FramingInvariant, UNCHANGED vars
    PROVE  FramingInvariant'
<1>1. PICK L, c : Story(L, c)
    BY DEF FramingInvariant
<1>2. /\ nextMessageId' = nextMessageId
      /\ sent' = sent /\ wire' = wire /\ buffer' = buffer /\ assemblies' = assemblies
      /\ delivered' = delivered /\ arrived' = arrived /\ frames' = frames /\ damage' = damage
      /\ causes' = causes
    BY DEF vars
<1>3. Story(L, c)'
    BY <1>1, <1>2 DEF Story
<1>4. ChunkingIrrelevant'
    BY <1>2 DEF FramingInvariant, ChunkingIrrelevant
<1> QED
    BY <1>2, <1>3, <1>4 DEF FramingInvariant

\* What damage makes of an element is not that element, but one of a stream.
LEMMA DamagedIs ==
    ASSUME NEW o \in Elements, NEW y, Damaged(o, y)
    PROVE  /\ y \in Elements /\ (o # Noise => y # o)
           /\ y.at = "fields" => o.at = "fields"
<1>1. /\ Noise \in Elements /\ Noise.at = "noise"
      /\ \A f \in Headers : Fields(f) \in Elements
    BY ElementsDiffer DEF Elements
<1>2. CASE y = Noise
    BY <1>1, <1>2
<1>3. ASSUME o.at = "fields", NEW len \in Nat, len > o.frame.len,
             y = Fields([o.frame EXCEPT !.len = len])
      PROVE  y \in Elements /\ y # o
    <2> DEFINE h == o.frame
               q == [h EXCEPT !.len = len]
    <2>1. h \in Headers /\ o = Fields(h)
        BY <1>3, ElementsDiffer
    <2>2. q \in Headers /\ q.len = len /\ h.len \in Nat
        BY <2>1 DEF Headers
    <2>3. y = Fields(q) /\ len > h.len
        BY <1>3
    <2> HIDE DEF h, q
    <2>4. q # h
        BY <2>2, <2>3
    <2>5. Fields(q) # Fields(h)
        BY <2>4, ElementsDiffer
    <2> QED
        BY <1>1, <2>1, <2>2, <2>3, <2>5
<1> QED
    BY <1>2, <1>3 DEF Damaged

\* Damage to what is damaged is damage.
LEMMA DamagedTwice ==
    ASSUME NEW o \in Elements, NEW x, x = o \/ Damaged(o, x), NEW y, Damaged(x, y)
    PROVE  Damaged(o, y)
<1>1. CASE x = o
    BY <1>1
<1>2. CASE y = Noise
    BY <1>2 DEF Damaged
<1>3. CASE Damaged(o, x) /\ y # Noise
    <2>1. x.at = "fields"
        BY <1>3 DEF Damaged
    <2>2. PICK b \in Nat : b > x.frame.len /\ y = Fields([x.frame EXCEPT !.len = b])
        BY <1>3 DEF Damaged
    <2>3. x # Noise
        BY <2>1, ElementsDiffer
    <2>4. o.at = "fields"
        BY <1>3, <2>3 DEF Damaged
    <2>5. PICK a \in Nat : a > o.frame.len /\ x = Fields([o.frame EXCEPT !.len = a])
        BY <1>3, <2>3 DEF Damaged
    <2> DEFINE h == o.frame
               q == [h EXCEPT !.len = a]
               r == [q EXCEPT !.len = b]
               s == [h EXCEPT !.len = b]
    <2>6. h \in Headers
        BY <2>4, ElementsDiffer
    <2>7. q \in Headers /\ q.len = a /\ r = s /\ h.len \in Nat
        BY <2>6 DEF Headers
    <2>8. x.frame = q
        BY <2>5, ElementsDiffer
    <2>9. y = Fields(r) /\ b > q.len /\ a > h.len
        BY <2>2, <2>5, <2>8
    <2> HIDE DEF h, q, r, s
    <2>10. b > h.len /\ y = Fields(s)
        BY <2>7, <2>9
    <2> QED
        BY <2>4, <2>10 DEF Damaged, h, s
<1> QED
    BY <1>1, <1>2, <1>3

\* The story with element p damaged.
Marred(L, p, y) ==
    [sent |-> L.sent, frames |-> L.frames, cut |-> L.cut, stream |-> [L.stream EXCEPT ![p] = y]]

\* What is damaged, and what is not.
LEMMA MarredIs ==
    ASSUME NEW L, Laid(L), NEW p \in 1..Len(L.stream), NEW y, Damaged(L.stream[p], y)
    PROVE  LET K == Marred(L, p, y)
           IN /\ K.sent = L.sent /\ K.frames = L.frames /\ K.cut = L.cut
              /\ K.stream \in Seq(Elements) /\ Len(K.stream) = Len(L.stream)
              /\ K.stream[p] = y /\ \A q \in 1..Len(L.stream) : q # p => K.stream[q] = L.stream[q]
              /\ y \in Elements /\ y.at = "fields" => L.stream[p].at = "fields"
<1> DEFINE S == L.stream
           T == [S EXCEPT ![p] = y]
           K == Marred(L, p, y)
<1>1. S \in Seq(Elements) /\ p \in DOMAIN S /\ p \in 1..Len(S)
    BY DEF Laid
<1>2. S[p] \in Elements /\ Damaged(S[p], y)
    BY <1>1
<1>3. y \in Elements /\ (y.at = "fields" => S[p].at = "fields")
    BY <1>2, DamagedIs
<1>4. K.sent = L.sent /\ K.frames = L.frames /\ K.cut = L.cut /\ K.stream = T
    BY DEF Marred
<1> HIDE DEF K, S
<1>5. T \in Seq(Elements) /\ Len(T) = Len(S) /\ T[p] = y
      /\ \A q \in 1..Len(S) : q # p => T[q] = S[q]
    BY <1>1, <1>3
<1> HIDE DEF T
<1> QED
    BY <1>3, <1>4, <1>5 DEF K, S

\* The damaged story is told right, has no more whole frames, and one hit more.
LEMMA MarredLaid ==
    ASSUME NEW L, Laid(L), NEW p \in 1..Len(L.stream), NEW y, Damaged(L.stream[p], y)
    PROVE  /\ Laid(Marred(L, p, y))
           /\ \A k \in Count(L) : Whole(Marred(L, p, y), k) => Whole(L, k)
           /\ \A c : \A k \in Count(L) : Live(Marred(L, p, y), c, k) => Live(L, c, k)
           /\ Hits(Marred(L, p, y)) \subseteq Hits(L) \cup {p}
<1> DEFINE K == Marred(L, p, y)
<1>1. /\ K.sent = L.sent /\ K.frames = L.frames /\ K.cut = L.cut
      /\ K.stream \in Seq(Elements) /\ Len(K.stream) = Len(L.stream)
      /\ K.stream[p] = y /\ \A q \in 1..Len(L.stream) : q # p => K.stream[q] = L.stream[q]
      /\ y.at = "fields" => L.stream[p].at = "fields"
    BY MarredIs
<1> HIDE DEF K
<1>2. Count(K) = Count(L)
    BY <1>1 DEF Count
<1>3. ASSUME NEW k \in Count(L), NEW x \in 1..Size(L.frames[k])
      PROVE  /\ L.cut[k - 1] + x \in 1..Len(L.stream)
             /\ Encode(L.frames[k])[x] \in Elements /\ Encode(L.frames[k])[x] # Noise
             /\ L.frames[k] \in Headers
    <2>1. /\ L.frames[k] \in Headers /\ L.cut[k] \in Nat /\ L.cut[k - 1] \in Nat
          /\ L.cut[k] = L.cut[k - 1] + Size(L.frames[k]) /\ Size(L.frames[k]) \in 4..8
          /\ k \in 0..Len(L.frames)
        BY LaidFrame
    <2>2. L.cut[k] \in 0..Len(L.stream) /\ Len(L.stream) \in Nat
        BY <2>1, LaidCuts
    <2>3. /\ Encode(L.frames[k]) \in Seq(Elements) /\ DOMAIN Encode(L.frames[k]) = 1..Size(L.frames[k])
          /\ Encode(L.frames[k])[x] # Noise
        BY <2>1, EncodeIs, EncodePlaces
    <2>4. Encode(L.frames[k])[x] \in Elements
        <3> DEFINE e == Encode(L.frames[k])
                   n == Size(L.frames[k])
        <3>1. e \in Seq(Elements) /\ DOMAIN e = 1..n /\ x \in 1..n
            BY <2>3
        <3> HIDE DEF e, n
        <3>2. e[x] \in Elements
            <4>1. x \in DOMAIN e /\ e \in [1..Len(e) -> Elements]
                BY <3>1
            <4> QED
                BY <4>1
        <3> QED
            BY <3>2 DEF e
    <2>5. L.cut[k - 1] + x \in 1..Len(L.stream)
        <3>1. \A a, b, s, l, z \in Int : a >= 0 /\ b = a + s /\ b <= l /\ z >= 1 /\ z <= s => a + z \in 1..l
            OBVIOUS
        <3>2. /\ L.cut[k - 1] \in Int /\ L.cut[k - 1] >= 0 /\ L.cut[k] \in Int
              /\ Size(L.frames[k]) \in Int /\ Len(L.stream) \in Int /\ L.cut[k] <= Len(L.stream)
              /\ x \in Int /\ x >= 1 /\ x <= Size(L.frames[k])
            BY <2>1, <2>2
        <3> QED
            BY <2>1, <3>1, <3>2
    <2> QED
        BY <2>1, <2>3, <2>4, <2>5
<1>4. ASSUME NEW k \in Count(L), NEW x \in 1..Size(L.frames[k]), L.cut[k - 1] + x = p
      PROVE  Damaged(Encode(L.frames[k])[x], y) /\ y # Encode(L.frames[k])[x]
    <2> DEFINE o == Encode(L.frames[k])[x]
    <2>1. o \in Elements /\ o # Noise
        BY <1>3
    <2>2. L.stream[p] = o \/ Damaged(o, L.stream[p])
        BY <1>4 DEF Laid
    <2> HIDE DEF o
    <2>3. Damaged(o, y)
        BY <2>1, <2>2, DamagedTwice
    <2>4. y # o
        BY <2>1, <2>3, DamagedIs
    <2> QED
        BY <2>3, <2>4 DEF o
<1>5. ASSUME NEW k \in Count(L), NEW x \in 1..Size(L.frames[k])
      PROVE  \/ K.stream[L.cut[k - 1] + x] = Encode(L.frames[k])[x]
             \/ Damaged(Encode(L.frames[k])[x], K.stream[L.cut[k - 1] + x])
    <2>1. CASE L.cut[k - 1] + x = p
        BY <1>1, <1>4, <2>1
    <2>2. CASE L.cut[k - 1] + x # p
        <3>1. K.stream[L.cut[k - 1] + x] = L.stream[L.cut[k - 1] + x]
            BY <1>1, <1>3, <2>2
        <3> QED
            BY <3>1 DEF Laid
    <2> QED
        BY <2>1, <2>2
<1>6. Laid(K)
    <2>1. /\ L.sent \in Seq(FrameCounts) /\ L.frames \in Seq(Headers)
          /\ L.cut \in [0..Len(L.frames) -> Nat]
          /\ L.cut[0] = 0 /\ L.cut[Len(L.frames)] = Len(L.stream)
          /\ \A k \in Count(L) :
                Made(L.sent, L.frames[k]) /\ L.cut[k] = L.cut[k - 1] + Size(L.frames[k])
          /\ \A j, k \in Count(L) : j < k =>
                \/ L.frames[j].msg < L.frames[k].msg
                \/ /\ L.frames[j].msg = L.frames[k].msg /\ L.frames[j].id = L.frames[k].id
                   /\ L.frames[j].index < L.frames[k].index
          /\ \A m \in DOMAIN L.sent : \A i \in 0..(L.sent[m] - 1) :
                \E k \in Count(L) : L.frames[k].msg = m /\ L.frames[k].index = i
        BY DEF Laid
    <2> DEFINE E(k, x) == Encode(L.frames[k])[x]
               R(k, x) == K.stream[L.cut[k - 1] + x]
    <2>2. \A k \in Count(L) : \A x \in 1..Size(L.frames[k]) : R(k, x) = E(k, x) \/ Damaged(E(k, x), R(k, x))
        BY <1>5
    <2> QED
        BY <1>1, <1>2, <2>1, <2>2 DEF Laid
<1>7. ASSUME NEW k \in Count(L), Whole(K, k) PROVE Whole(L, k)
    <2> DEFINE f == L.frames[k]
               b == L.cut[k - 1]
    <2>1. /\ b + 1 + Size(f) - 1 <= Len(K.stream)
          /\ \A x \in 1..Size(f) : K.stream[b + 1 + x - 1] = Encode(f)[x]
        BY <1>1, <1>7 DEF Whole, Intact
    <2>2. b \in Nat /\ Size(f) \in Nat
        <3>1. b \in Nat /\ f \in Headers
            BY LaidFrame
        <3> QED
            BY <3>1, EncodeIs
    <2>3. ASSUME NEW x \in 1..Size(f) PROVE L.stream[b + 1 + x - 1] = Encode(f)[x]
        <3>1. b + 1 + x - 1 = b + x
            BY <2>2
        <3>2. K.stream[b + x] = Encode(f)[x]
            BY <2>1, <3>1
        <3>3. b + x # p
            BY <1>1, <1>4, <3>2
        <3>4. K.stream[b + x] = L.stream[b + x]
            BY <1>1, <1>3, <3>3
        <3> QED
            BY <3>1, <3>2, <3>4
    <2> QED
        BY <1>1, <2>1, <2>3 DEF Whole, Intact
<1>8. ASSUME NEW c, NEW k \in Count(L), Live(K, c, k) PROVE Live(L, c, k)
    <2>1. 3 \in 1..Size(L.frames[k])
        <3>1. Size(L.frames[k]) \in 4..8
            BY LaidFrame
        <3> QED
            BY <3>1
    <2>2. L.cut[k - 1] + 3 \in 1..Len(L.stream)
        BY <1>3, <2>1
    <2> QED
        BY <1>1, <1>8, <2>2 DEF Live
<1>9. Hits(K) \subseteq Hits(L) \cup {p}
    <2> SUFFICES ASSUME NEW q \in Hits(K), q # p PROVE q \in Hits(L)
        OBVIOUS
    <2>1. q \in 1..Len(L.stream)
        BY <1>1 DEF Hits
    <2>2. PICK k \in Count(L) : \E x \in 1..Size(L.frames[k]) :
             q = L.cut[k - 1] + x /\ K.stream[q] # Encode(L.frames[k])[x]
        BY <1>1, <1>2 DEF Hits
    <2> PICK x \in 1..Size(L.frames[k]) :
             q = L.cut[k - 1] + x /\ K.stream[q] # Encode(L.frames[k])[x]
        BY <2>2
    <2>3. L.stream[q] # Encode(L.frames[k])[x]
        BY <1>1, <2>1, <2>2
    <2> QED
        BY <2>1, <2>2, <2>3 DEF Hits
<1> QED
    BY <1>6, <1>7, <1>8, <1>9 DEF K

\* What holds of the stream holds with one more element damaged.
LEMMA MarredSound ==
    ASSUME NEW L, Laid(L), NEW p \in 1..Len(L.stream), NEW y, Damaged(L.stream[p], y),
           NEW why, NEW c, NEW A, NEW D, Sound(L, why, c, A, D)
    PROVE  Sound(Marred(L, p, y), why, c, A, D)
<1> DEFINE K == Marred(L, p, y)
<1>1. K.sent = L.sent /\ K.frames = L.frames /\ K.cut = L.cut /\ Len(K.stream) = Len(L.stream)
    BY MarredIs
<1>2. /\ \A k \in Count(L) : Whole(K, k) => Whole(L, k)
      /\ \A k \in Count(L) : Live(K, c, k) => Live(L, c, k)
    BY MarredLaid
<1> HIDE DEF K
<1>3. Count(K) = Count(L)
    BY <1>1 DEF Count
<1>4. /\ c \in Nat /\ c <= Len(L.stream) /\ Outside(L, c)
      /\ AssembliesOk(Len(L.sent), A) /\ DeliveredOk(Len(L.sent), D)
      /\ NoInner(L, D)
      /\ "reused" \notin why => Unreused(L, c, A, D)
      /\ why = {} => Accounted(L, c, A, D)
    BY DEF Sound
<1>5. Outside(K, c) /\ NoInner(K, D)
    BY <1>1, <1>2, <1>3, <1>4 DEF Outside, NoInner, AllWhole
<1>6. "reused" \notin why => Unreused(K, c, A, D)
    <2> SUFFICES ASSUME "reused" \notin why PROVE Unreused(K, c, A, D)
        OBVIOUS
    <2>1. Unmixed(L, c) /\ Collecting(L, c, A) /\ HandedOn(L, c, D)
        BY <1>4 DEF Unreused
    <2>2. Unmixed(K, c)
        BY <1>1, <1>2, <1>3, <2>1 DEF Unmixed
    <2>3. \A m, id, a : Collects(L, c, m, id, a) => Collects(K, c, m, id, a)
        BY <1>1, <1>2, <1>3 DEF Collects
    <2>4. Collecting(K, c, A)
        BY <1>1, <2>1, <2>3 DEF Collecting
    <2>5. HandedOn(K, c, D)
        BY <1>1, <1>3, <2>1 DEF HandedOn, Entire, After
    <2> QED
        BY <2>2, <2>4, <2>5 DEF Unreused
<1>7. why = {} => Accounted(K, c, A, D)
    <2> SUFFICES ASSUME why = {} PROVE Accounted(K, c, A, D)
        OBVIOUS
    <2>1. Accounted(L, c, A, D)
        BY <1>4
    <2> QED
        BY <1>1, <1>2, <1>3, <2>1 DEF Accounted, StillHeld
<1> QED
    BY <1>1, <1>4, <1>5, <1>6, <1>7 DEF Sound, K

\* An element on its way is damaged.
LEMMA FramingDamage ==
    ASSUME FramingInvariant, NEW i \in DOMAIN wire, Damage(i)
    PROVE  FramingInvariant'
<1>1. PICK L, c : Story(L, c)
    BY DEF FramingInvariant
<1>2. /\ L.stream = arrived \o wire /\ L.sent = sent /\ Laid(L)
      /\ Cardinality(Hits(L)) <= damage /\ Stops(arrived, c, buffer)
      /\ Sound(L, causes, c, assemblies, delivered)
      /\ arrived \in Seq(Elements) /\ wire \in Seq(Elements)
    BY <1>1 DEF Story, FramingInvariant
<1>3. /\ damage < MaxNoise /\ damage' = damage + 1
      /\ sent' = sent /\ nextMessageId' = nextMessageId /\ buffer' = buffer
      /\ assemblies' = assemblies /\ delivered' = delivered /\ arrived' = arrived
      /\ frames' = frames /\ causes' = causes
    BY DEF Damage
<1> DEFINE S == L.stream
<1> PICK p : p = Len(arrived) + i
    OBVIOUS
<1>4. /\ S \in Seq(Elements) /\ Len(S) = Len(arrived) + Len(wire) /\ p \in 1..Len(S)
      /\ Len(arrived) \in Nat /\ Len(wire) \in Nat /\ i \in 1..Len(wire)
      /\ \A k \in 1..Len(arrived) : S[k] = arrived[k]
      /\ \A k \in 1..Len(wire) : S[Len(arrived) + k] = wire[k]
    <2>1. /\ arrived \o wire \in Seq(Elements) /\ Len(arrived \o wire) = Len(arrived) + Len(wire)
          /\ Len(arrived) \in Nat /\ Len(wire) \in Nat
          /\ \A k \in 1..Len(arrived) : (arrived \o wire)[k] = arrived[k]
          /\ \A k \in 1..Len(wire) : (arrived \o wire)[Len(arrived) + k] = wire[k]
        BY <1>2, Joined
    <2>2. i \in 1..Len(wire)
        BY <1>2
    <2>3. S = arrived \o wire
        BY <1>2
    <2> HIDE DEF S
    <2> QED
        BY <2>1, <2>2, <2>3
<1>5. S[p] = wire[i] /\ wire[i] \in Elements
    BY <1>2, <1>4
<1>6. PICK y : Damaged(wire[i], y) /\ wire' = [wire EXCEPT ![i] = y]
    <2>1. CASE wire' = [wire EXCEPT ![i] = Noise]
        <3>1. Damaged(wire[i], Noise)
            BY DEF Damaged
        <3> QED
            BY <2>1, <3>1
    <2>2. CASE /\ wire[i].at = "fields"
               /\ \E len \in (wire[i].frame.len + 1)..(MaxFrameSize - 3) :
                     wire' = [wire EXCEPT ![i] = Fields([wire[i].frame EXCEPT !.len = len])]
        <3>1. PICK len \in (wire[i].frame.len + 1)..(MaxFrameSize - 3) :
                 wire' = [wire EXCEPT ![i] = Fields([wire[i].frame EXCEPT !.len = len])]
            BY <2>2
        <3> DEFINE h == wire[i].frame
                   w == Fields([h EXCEPT !.len = len])
        <3>2. h \in Headers
            BY <1>5, <2>2, ElementsDiffer
        <3>3. h.len \in Nat /\ MaxFrameSize \in Nat
            BY <3>2, FramingAssumption DEF Headers
        <3>4. len \in Nat /\ len > h.len
            BY <3>3
        <3>5. Damaged(wire[i], w)
            BY <2>2, <3>4 DEF Damaged
        <3> HIDE DEF w
        <3>6. wire' = [wire EXCEPT ![i] = w]
            BY <3>1 DEF w
        <3> QED
            BY <3>5, <3>6
    <2>3. \/ wire' = [wire EXCEPT ![i] = Noise]
          \/ /\ wire[i].at = "fields"
             /\ \E len \in (wire[i].frame.len + 1)..(MaxFrameSize - 3) :
                   wire' = [wire EXCEPT ![i] = Fields([wire[i].frame EXCEPT !.len = len])]
        BY DEF Damage
    <2> QED
        BY <2>1, <2>2, <2>3
<1> DEFINE K == Marred(L, p, y)
<1>7. Damaged(L.stream[p], y) /\ p \in 1..Len(L.stream)
    BY <1>4, <1>5, <1>6
<1> HIDE DEF S
<1>8. /\ K.sent = L.sent /\ K.stream \in Seq(Elements) /\ Len(K.stream) = Len(S)
      /\ K.stream[p] = y /\ \A q \in 1..Len(S) : q # p => K.stream[q] = S[q]
      /\ y \in Elements
    <2>1. /\ K.sent = L.sent /\ K.stream \in Seq(Elements) /\ Len(K.stream) = Len(L.stream)
          /\ K.stream[p] = y
          /\ \A q \in 1..Len(L.stream) : q # p => K.stream[q] = L.stream[q]
          /\ y \in Elements
        <3>1. Laid(L)
            BY <1>2
        <3> QED
            BY <1>7, <3>1, MarredIs
    <2> HIDE DEF K
    <2> QED
        BY <2>1 DEF S
<1>9. Laid(K) /\ Hits(K) \subseteq Hits(L) \cup {p} /\ Sound(K, causes, c, assemblies, delivered)
    BY <1>2, <1>7, MarredLaid, MarredSound
<1> HIDE DEF K
<1>10. wire' \in Seq(Elements) /\ Len(wire') = Len(wire) /\ wire'[i] = y
       /\ \A k \in 1..Len(wire) : k # i => wire'[k] = wire[k]
    <2> DEFINE w == [wire EXCEPT ![i] = y]
    <2>1. w \in Seq(Elements) /\ Len(w) = Len(wire) /\ w[i] = y
          /\ \A k \in 1..Len(wire) : k # i => w[k] = wire[k]
        BY <1>2, <1>4, <1>8
    <2> HIDE DEF w
    <2>2. wire' = w
        BY <1>6 DEF w
    <2> QED
        BY <2>1, <2>2
<1>11. K.stream = arrived \o wire'
    <2> DEFINE w == wire'
               u == arrived \o w
               T == K.stream
    <2>1. w \in Seq(Elements)
        BY <1>10
    <2> HIDE DEF w
    <2>2. /\ u \in Seq(Elements) /\ Len(u) = Len(arrived) + Len(w)
          /\ \A k \in 1..Len(arrived) : u[k] = arrived[k]
          /\ \A k \in (Len(arrived) + 1)..(Len(arrived) + Len(w)) : u[k] = w[k - Len(arrived)]
        BY <1>2, <2>1, Joined
    <2>3. Len(w) = Len(wire) /\ w[i] = y /\ \A k \in 1..Len(wire) : k # i => w[k] = wire[k]
        BY <1>10 DEF w
    <2>4. p = Len(arrived) + i
        OBVIOUS
    <2> HIDE DEF u, T
    <2>5. Len(T) = Len(u) /\ T \in Seq(Elements)
        BY <1>4, <1>8, <2>2, <2>3 DEF T
    <2>6. ASSUME NEW k \in 1..Len(T) PROVE T[k] = u[k]
        <3>1. CASE k <= Len(arrived)
            <4>1. k \in 1..Len(arrived) /\ k \in 1..Len(S) /\ k # p
                BY <1>4, <1>8, <2>4, <3>1 DEF T
            <4> QED
                BY <1>4, <1>8, <2>2, <4>1 DEF T
        <3>2. CASE ~(k <= Len(arrived))
            <4>1. /\ k \in (Len(arrived) + 1)..(Len(arrived) + Len(w)) /\ k - Len(arrived) \in 1..Len(wire)
                  /\ k = Len(arrived) + (k - Len(arrived)) /\ k \in 1..Len(S)
                  /\ (k = p <=> k - Len(arrived) = i)
                BY <1>4, <1>8, <2>3, <2>4, <3>2 DEF T
            <4>2. u[k] = w[k - Len(arrived)] /\ S[k] = wire[k - Len(arrived)]
                BY <1>4, <2>2, <4>1
            <4> QED
                BY <1>8, <2>3, <4>1, <4>2 DEF T
        <3> QED
            BY <3>1, <3>2
    <2>7. T = u
        BY <2>2, <2>5, <2>6, SeqEqual
    <2> QED
        BY <2>7 DEF T, u, w
<1>12. Cardinality(Hits(K)) <= damage + 1 /\ damage \in Nat /\ MaxNoise \in Nat
    <2>1. damage \in Nat /\ MaxNoise \in Nat
        BY FramingAssumption DEF FramingInvariant
    <2>2. IsFiniteSet(Hits(L))
        <3>1. IsFiniteSet(1..Len(S)) /\ Hits(L) \subseteq 1..Len(S)
            <4>1. Len(S) \in Int /\ 1 \in Int
                BY <1>4
            <4>2. IsFiniteSet(1..Len(S))
                BY <4>1, FS_Interval
            <4>3. Hits(L) \subseteq 1..Len(S)
                BY DEF Hits, S
            <4> QED
                BY <4>2, <4>3
        <3> QED
            BY <3>1, FS_Subset
    <2>3. /\ IsFiniteSet(Hits(L) \cup {p})
          /\ Cardinality(Hits(L) \cup {p}) <= Cardinality(Hits(L)) + 1
          /\ Cardinality(Hits(L)) \in Nat /\ Cardinality(Hits(L) \cup {p}) \in Nat
        <3> DEFINE H == Hits(L)
        <3> HIDE DEF H
        <3>1. IsFiniteSet(H)
            BY <2>2 DEF H
        <3>2. Cardinality(H) \in Nat
            BY <3>1, FS_CardinalityType
        <3>3. /\ IsFiniteSet(H \cup {p})
              /\ p \in H => Cardinality(H \cup {p}) = Cardinality(H)
              /\ p \notin H => Cardinality(H \cup {p}) = Cardinality(H) + 1
            BY <3>1, FS_AddElement
        <3> QED
            BY <3>2, <3>3 DEF H
    <2>4. Cardinality(Hits(K)) <= Cardinality(Hits(L) \cup {p}) /\ Cardinality(Hits(K)) \in Nat
        BY <1>9, <2>3, FS_Subset, FS_CardinalityType
    <2> QED
        BY <1>2, <2>1, <2>3, <2>4
<1>13. Story(K, c)'
    <2>1. Stops(arrived', c, buffer') /\ Sound(K, causes', c, assemblies', delivered')
        BY <1>2, <1>3, <1>9, Zenon
    <2>2. K.stream = arrived' \o wire' /\ K.sent = sent' /\ Laid(K)
        BY <1>2, <1>3, <1>8, <1>9, <1>11
    <2>3. Cardinality(Hits(K)) <= damage'
        BY <1>3, <1>12
    <2> QED
        BY <2>1, <2>2, <2>3, Zenon DEF Story
<1>14. ChunkingIrrelevant'
    BY <1>3 DEF FramingInvariant, ChunkingIrrelevant
<1>15. damage' \in 0..MaxNoise
    BY <1>3, <1>12
<1> QED
    BY <1>3, <1>10, <1>13, <1>14, <1>15 DEF FramingInvariant

\* Where each of them is in the whole.
Placed(S, seqs, flat, n) ==
    /\ \A k \in 0..n : flat[k] \in Seq(S) /\ Len(flat[k]) \in Nat
    /\ Len(flat[0]) = 0
    /\ \A k \in 1..n : /\ seqs[k] \in Seq(S) /\ Len(seqs[k]) \in Nat
                       /\ Len(flat[k]) = Len(flat[k - 1]) + Len(seqs[k])
    /\ \A j \in 1..n : Len(flat[j]) <= Len(flat[n])
    /\ \A j \in 1..n : \A x \in 1..Len(seqs[j]) : flat[n][Len(flat[j - 1]) + x] = seqs[j][x]

\* Sequences one after the other are where they must be.
LEMMA ChainPlaces ==
    ASSUME NEW S, NEW n \in Nat, NEW seqs, NEW flat, Chain(S, seqs, flat, n)
    PROVE  Placed(S, seqs, flat, n)
<1> DEFINE Upto(k) == \A j \in 1..k :
                         /\ Len(flat[j]) <= Len(flat[k])
                         /\ \A x \in 1..Len(seqs[j]) : flat[k][Len(flat[j - 1]) + x] = seqs[j][x]
           T == {k \in 0..n : Upto(k)}
<1>1. \A k \in 0..n : flat[k] \in Seq(S) /\ Len(flat[k]) \in Nat
    <2> TAKE k \in 0..n
    <2>1. flat[k] \in Seq(S)
        BY DEF Chain
    <2> DEFINE e == flat[k]
    <2> HIDE DEF e
    <2>2. e \in Seq(S) => Len(e) \in Nat
        OBVIOUS
    <2> QED
        BY <2>1, <2>2 DEF e
<1>2. \A k \in 1..n : seqs[k] \in Seq(S) /\ Len(seqs[k]) \in Nat
    <2> TAKE k \in 1..n
    <2>1. seqs[k] \in Seq(S)
        BY DEF Chain
    <2> DEFINE e == seqs[k]
    <2> HIDE DEF e
    <2>2. e \in Seq(S) => Len(e) \in Nat
        OBVIOUS
    <2> QED
        BY <2>1, <2>2 DEF e
<1>3. ASSUME NEW k \in 1..n
      PROVE  /\ Len(flat[k]) = Len(flat[k - 1]) + Len(seqs[k])
             /\ \A x \in 1..Len(flat[k - 1]) : flat[k][x] = flat[k - 1][x]
             /\ \A x \in 1..Len(seqs[k]) : flat[k][Len(flat[k - 1]) + x] = seqs[k][x]
    <2> DEFINE a == flat[k - 1]
               b == seqs[k]
               d == flat[k]
    <2>1. k - 1 \in 0..n
        OBVIOUS
    <2>2. a \in Seq(S) /\ b \in Seq(S)
        BY <1>1, <1>2, <2>1
    <2>3. d = a \o b
        BY DEF Chain
    <2> HIDE DEF a, b, d
    <2>4. /\ Len(a \o b) = Len(a) + Len(b)
          /\ \A x \in 1..Len(a) : (a \o b)[x] = a[x]
          /\ \A x \in 1..Len(b) : (a \o b)[Len(a) + x] = b[x]
        BY <2>2, Joined
    <2>5. /\ Len(d) = Len(a) + Len(b)
          /\ \A x \in 1..Len(a) : d[x] = a[x]
          /\ \A x \in 1..Len(b) : d[Len(a) + x] = b[x]
        BY <2>3, <2>4
    <2> QED
        BY <2>5 DEF a, b, d
<1>4. Len(flat[0]) = 0
    <2>1. flat[0] = <<>>
        BY DEF Chain
    <2> QED
        BY <2>1
<1>5. 0 \in T
    OBVIOUS
<1>6. ASSUME NEW k \in 1..n, k - 1 \in T PROVE k \in T
    <2>1. Upto(k - 1) /\ k - 1 \in 0..n /\ k \in 0..n
        BY <1>6
    <2>2. ASSUME NEW j \in 1..k
          PROVE  /\ Len(flat[j]) <= Len(flat[k])
                 /\ \A x \in 1..Len(seqs[j]) : flat[k][Len(flat[j - 1]) + x] = seqs[j][x]
        <3>1. CASE j = k
            <4>1. Len(flat[k]) \in Nat
                BY <1>1, <2>1
            <4>2. Len(flat[k]) <= Len(flat[k])
                BY <4>1
            <4> QED
                BY <1>3, <3>1, <4>2, Zenon
        <3>2. CASE j # k
            <4>1. j \in 1..(k - 1) /\ j \in 1..n /\ j - 1 \in 0..n /\ j \in 0..n
                BY <3>2
            <4>2. /\ Len(flat[j]) <= Len(flat[k - 1])
                  /\ \A x \in 1..Len(seqs[j]) : flat[k - 1][Len(flat[j - 1]) + x] = seqs[j][x]
                BY <2>1, <4>1
            <4>3. /\ Len(flat[j]) = Len(flat[j - 1]) + Len(seqs[j])
                  /\ Len(flat[k]) = Len(flat[k - 1]) + Len(seqs[k])
                BY <1>3, <4>1
            <4>4. /\ Len(flat[j]) \in Nat /\ Len(flat[j - 1]) \in Nat /\ Len(seqs[j]) \in Nat
                  /\ Len(flat[k]) \in Nat /\ Len(flat[k - 1]) \in Nat /\ Len(seqs[k]) \in Nat
                BY <1>1, <1>2, <2>1, <4>1
            <4>5. \A x \in 1..Len(seqs[j]) : Len(flat[j - 1]) + x \in 1..Len(flat[k - 1])
                <5>1. \A a, b, d, e \in Nat : d = a + b /\ d <= e =>
                         \A x \in 1..b : a + x \in 1..e
                    OBVIOUS
                <5> QED
                    BY <4>2, <4>3, <4>4, <5>1
            <4>6. \A x \in 1..Len(seqs[j]) :
                     flat[k][Len(flat[j - 1]) + x] = flat[k - 1][Len(flat[j - 1]) + x]
                BY <1>3, <4>5
            <4>7. \A x \in 1..Len(seqs[j]) : flat[k][Len(flat[j - 1]) + x] = seqs[j][x]
                BY <4>2, <4>6, Zenon
            <4>8. Len(flat[j]) <= Len(flat[k])
                <5>1. \A a, b, d, e \in Nat : a <= b /\ d = b + e => a <= d
                    OBVIOUS
                <5> QED
                    BY <4>2, <4>3, <4>4, <5>1
            <4> QED
                BY <4>7, <4>8
        <3> QED
            BY <3>1, <3>2
    <2> QED
        BY <2>1, <2>2
<1>7. 0..n \subseteq T
    <2> HIDE DEF T
    <2> QED
        BY <1>5, <1>6, Upward
<1>8. n \in T
    <2> HIDE DEF T
    <2> QED
        BY <1>7
<1>9. Upto(n)
    BY <1>8
<1> QED
    BY <1>1, <1>2, <1>3, <1>4, <1>9 DEF Placed

\* The frames of the message that is sent, and what they are on the stream.
NewFrames(m, id, count, len) == [i \in 1..count |-> Frame(m, id, i - 1, count, len)]
NewParts(m, id, count, len) ==
    [i \in 1..count |-> Encode(Frame(m, id, i - 1, count, len))]

\* F are the frames and P their elements.
TheFrames(F, P, m, id, count, len) ==
    /\ count \in Nat \ {0} /\ F \in Seq(Headers) /\ Len(F) = count
    /\ P \in [1..count -> Seq(Elements)]
    /\ \A i \in 1..count :
          /\ F[i] \in Headers /\ F[i].msg = m /\ F[i].id = id /\ F[i].index = i - 1
          /\ F[i].count = count /\ F[i].len = len
          /\ P[i] = Encode(F[i]) /\ P[i] \in Seq(Elements) /\ Len(P[i]) = Size(F[i])

\* fragment numbers the frames from 0.
LEMMA NewFramesAre ==
    ASSUME NEW m \in Nat, NEW id \in MessageIds, NEW count \in FrameCounts, NEW len \in {0, 1, 4}
    PROVE  TheFrames(NewFrames(m, id, count, len), NewParts(m, id, count, len), m, id, count, len)
<1> DEFINE F == NewFrames(m, id, count, len)
           P == NewParts(m, id, count, len)
<1>1. count \in Nat \ {0} /\ id \in Nat /\ len \in Nat
    BY FramingAssumption DEF MessageIds
<1>2. ASSUME NEW i \in 1..count
      PROVE  /\ F[i] = Frame(m, id, i - 1, count, len) /\ F[i] \in Headers
             /\ F[i].msg = m /\ F[i].id = id /\ F[i].index = i - 1
             /\ F[i].count = count /\ F[i].len = len
             /\ P[i] = Encode(F[i]) /\ P[i] \in Seq(Elements) /\ Len(P[i]) = Size(F[i])
    <2> DEFINE g == Frame(m, id, i - 1, count, len)
    <2>1. F[i] = g /\ P[i] = Encode(g)
        BY DEF NewFrames, NewParts
    <2>2. i - 1 \in Nat
        BY <1>1
    <2>3. /\ g \in Headers /\ g.msg = m /\ g.id = id /\ g.index = i - 1
          /\ g.count = count /\ g.len = len
        BY <1>1, <2>2 DEF Frame, Headers
    <2> HIDE DEF g, F, P
    <2>4. Encode(g) \in Seq(Elements) /\ Len(Encode(g)) = Size(g)
        BY <2>3, EncodeIs
    <2> QED
        BY <2>1, <2>3, <2>4 DEF g
<1>3. F \in [1..count -> Headers]
    <2>1. F = [i \in 1..count |-> F[i]]
        BY DEF NewFrames
    <2> HIDE DEF F
    <2> QED
        BY <1>2, <2>1
<1>4. P \in [1..count -> Seq(Elements)]
    <2>1. P = [i \in 1..count |-> P[i]]
        BY DEF NewParts
    <2> HIDE DEF P
    <2> QED
        BY <1>2, <2>1
<1>5. F \in Seq(Headers) /\ Len(F) = count
    <2> HIDE DEF F
    <2> QED
        BY <1>1, <1>3, SeqDef
<1> HIDE DEF F, P
<1>6. TheFrames(F, P, m, id, count, len)
    BY <1>1, <1>2, <1>4, <1>5 DEF TheFrames
<1> QED
    BY <1>6 DEF F, P

\* K is L with one message more, of count frames with this id.
Continues(L, K, id, count) ==
    /\ K.sent \in Seq(FrameCounts) /\ Len(K.sent) = Len(L.sent) + 1
    /\ \A m \in 1..Len(L.sent) : K.sent[m] = L.sent[m]
    /\ K.sent[Len(L.sent) + 1] = count
    /\ K.frames \in Seq(Headers) /\ Len(K.frames) = Len(L.frames) + count
    /\ \A k \in 1..Len(L.frames) : K.frames[k] = L.frames[k]
    /\ \A j \in 1..count :
          LET f == K.frames[Len(L.frames) + j]
          IN /\ f.msg = Len(L.sent) + 1 /\ f.id = id /\ f.index = j - 1 /\ f.count = count
             /\ f.len \in {0, 1, 4}
    /\ K.cut \in [0..Len(K.frames) -> Nat]
    /\ \A k \in 0..Len(L.frames) : K.cut[k] = L.cut[k]
    /\ \A j \in 1..count :
          /\ K.cut[Len(L.frames) + j]
                = K.cut[Len(L.frames) + j - 1] + Size(K.frames[Len(L.frames) + j])
          /\ K.cut[Len(L.frames) + j - 1] >= Len(L.stream)
    /\ K.cut[Len(K.frames)] = Len(K.stream)
    /\ K.stream \in Seq(Elements) /\ Len(L.stream) <= Len(K.stream)
    /\ \A p \in 1..Len(L.stream) : K.stream[p] = L.stream[p]
    /\ \A j \in 1..count : \A x \in 1..Size(K.frames[Len(L.frames) + j]) :
          K.stream[K.cut[Len(L.frames) + j - 1] + x] = Encode(K.frames[Len(L.frames) + j])[x]

\* L with the frames of a message more.
Told(L, count, new, flat) ==
    [sent |-> Append(L.sent, count), frames |-> L.frames \o new,
     cut |-> [k \in 0..(Len(L.frames) + count) |->
                 IF k <= Len(L.frames) THEN L.cut[k]
                 ELSE Len(L.stream) + Len(flat[k - Len(L.frames)])],
     stream |-> L.stream \o flat[count]]

\* The longer story continues the story so far.
LEMMA ToldContinues ==
    ASSUME NEW L, Laid(L), NEW m, m = Len(L.sent) + 1, NEW id \in MessageIds,
           NEW count \in FrameCounts, NEW len \in {0, 1, 4}, NEW flat,
           Chain(Elements, NewParts(m, id, count, len), flat, count)
    PROVE  Continues(L, Told(L, count, NewFrames(m, id, count, len), flat), id, count)
<1> DEFINE F == NewFrames(m, id, count, len)
           P == NewParts(m, id, count, len)
           K == Told(L, count, F, flat)
           n == Len(L.frames)
           s == Len(L.stream)
           t == flat[count]
           cut == [k \in 0..(n + count) |-> IF k <= n THEN L.cut[k] ELSE s + Len(flat[k - n])]
<1>1. /\ L.sent \in Seq(FrameCounts) /\ L.frames \in Seq(Headers) /\ L.stream \in Seq(Elements)
      /\ L.cut \in [0..n -> Nat] /\ L.cut[n] = s
    BY DEF Laid
<1>2. Len(L.sent) \in Nat /\ n \in Nat /\ s \in Nat /\ m \in Nat
    <2>1. Len(L.sent) \in Nat
        BY <1>1
    <2>2. n \in Nat /\ s \in Nat
        BY LaidCuts
    <2> QED
        BY <2>1, <2>2
<1>3. /\ count \in Nat \ {0} /\ F \in Seq(Headers) /\ Len(F) = count
      /\ \A i \in 1..count :
            /\ F[i] \in Headers /\ F[i].msg = m /\ F[i].id = id /\ F[i].index = i - 1
            /\ F[i].count = count /\ F[i].len = len
            /\ P[i] = Encode(F[i]) /\ P[i] \in Seq(Elements) /\ Len(P[i]) = Size(F[i])
    <2>1. m \in Nat
        BY <1>2
    <2>2. TheFrames(F, P, m, id, count, len)
        BY <2>1, NewFramesAre, Zenon
    <2> HIDE DEF F, P
    <2> QED
        BY <2>2, Zenon DEF TheFrames
<1>4. K.sent = Append(L.sent, count) /\ K.frames = L.frames \o F /\ K.cut = cut
      /\ K.stream = L.stream \o t
    BY DEF Told
<1> HIDE DEF F, P, K
<1>5. /\ \A k \in 0..count : flat[k] \in Seq(Elements) /\ Len(flat[k]) \in Nat
      /\ Len(flat[0]) = 0
      /\ \A k \in 1..count : Len(flat[k]) = Len(flat[k - 1]) + Len(P[k])
      /\ \A j \in 1..count : \A x \in 1..Len(P[j]) : flat[count][Len(flat[j - 1]) + x] = P[j][x]
      /\ \A j \in 1..count : Len(flat[j]) <= Len(flat[count])
    <2>1. Chain(Elements, P, flat, count) /\ count \in Nat
        BY <1>3 DEF P
    <2>2. Placed(Elements, P, flat, count)
        BY <2>1, ChainPlaces, Zenon
    <2> QED
        BY <2>2, Zenon DEF Placed
<1>6. /\ K.sent \in Seq(FrameCounts) /\ Len(K.sent) = Len(L.sent) + 1
      /\ \A i \in 1..Len(L.sent) : K.sent[i] = L.sent[i]
      /\ K.sent[Len(L.sent) + 1] = count
    <2> DEFINE a == L.sent
               b == K.sent
    <2>1. a \in Seq(FrameCounts) /\ b = Append(a, count)
        BY <1>1, <1>4
    <2> HIDE DEF a, b
    <2>2. /\ b \in Seq(FrameCounts) /\ Len(b) = Len(a) + 1
          /\ \A i \in 1..Len(a) : b[i] = a[i]
          /\ b[Len(a) + 1] = count
        BY <2>1
    <2> QED
        BY <2>2 DEF a, b
<1>7. /\ K.frames \in Seq(Headers) /\ Len(K.frames) = n + count
      /\ \A k \in 1..n : K.frames[k] = L.frames[k]
      /\ \A j \in 1..count : K.frames[n + j] = F[j]
    <2>1. /\ L.frames \o F \in Seq(Headers) /\ Len(L.frames \o F) = Len(L.frames) + Len(F)
          /\ \A k \in 1..Len(L.frames) : (L.frames \o F)[k] = L.frames[k]
          /\ \A k \in 1..Len(F) : (L.frames \o F)[Len(L.frames) + k] = F[k]
        <3>1. L.frames \in Seq(Headers) /\ F \in Seq(Headers)
            BY <1>1, <1>3
        <3> QED
            BY <3>1, Joined
    <2> DEFINE a == L.frames \o F
    <2> HIDE DEF a
    <2>2. K.frames = a
        BY <1>4 DEF a
    <2> QED
        BY <1>3, <2>1, <2>2 DEF a
<1>8. \A j \in 1..count :
         /\ K.frames[n + j].msg = Len(L.sent) + 1 /\ K.frames[n + j].id = id
         /\ K.frames[n + j].index = j - 1 /\ K.frames[n + j].count = count
         /\ K.frames[n + j].len \in {0, 1, 4}
    <2> TAKE j \in 1..count
    <2> DEFINE f == F[j]
    <2>1. /\ f.msg = m /\ f.id = id /\ f.index = j - 1 /\ f.count = count /\ f.len = len
          /\ K.frames[n + j] = f
        BY <1>3, <1>7
    <2> HIDE DEF f
    <2> QED
        BY <2>1
<1>9. /\ K.stream \in Seq(Elements) /\ Len(K.stream) = s + Len(t) /\ Len(t) \in Nat
      /\ \A p \in 1..s : K.stream[p] = L.stream[p]
      /\ \A p \in 1..Len(t) : K.stream[s + p] = t[p]
    <2>1. t \in Seq(Elements) /\ L.stream \in Seq(Elements) /\ Len(t) \in Nat
        <3>1. count \in 0..count
            BY <1>3
        <3> QED
            BY <1>1, <1>5, <3>1
    <2> HIDE DEF t
    <2>2. /\ L.stream \o t \in Seq(Elements) /\ Len(L.stream \o t) = Len(L.stream) + Len(t)
          /\ \A p \in 1..Len(L.stream) : (L.stream \o t)[p] = L.stream[p]
          /\ \A p \in 1..Len(t) : (L.stream \o t)[Len(L.stream) + p] = t[p]
        BY <2>1, Joined
    <2> DEFINE a == L.stream \o t
    <2> HIDE DEF a
    <2>3. K.stream = a
        BY <1>4 DEF a
    <2> QED
        BY <2>1, <2>2, <2>3 DEF a
<1>10. \A j \in 0..count : K.cut[n + j] = s + Len(flat[j])
    <2> TAKE j \in 0..count
    <2>1. n + j \in 0..(n + count) /\ (n + j) - n = j
        BY <1>2, <1>3
    <2>2. CASE j = 0
        <3>1. cut[n] = L.cut[n]
            BY <1>2, <1>3
        <3>2. n + j = n /\ s + 0 = s
            BY <1>2, <2>2
        <3> HIDE DEF cut
        <3> QED
            BY <1>1, <1>4, <1>5, <2>2, <3>1, <3>2
    <2>3. CASE j # 0
        <3>1. ~(n + j <= n)
            BY <1>2, <2>3
        <3>2. cut[n + j] = s + Len(flat[(n + j) - n])
            BY <2>1, <3>1
        <3> HIDE DEF cut
        <3> QED
            BY <1>4, <2>1, <3>2
    <2> QED
        BY <2>2, <2>3
<1>11. \A k \in 0..n : K.cut[k] = L.cut[k]
    <2> TAKE k \in 0..n
    <2>1. k \in 0..(n + count) /\ k <= n
        BY <1>2, <1>3
    <2>2. cut[k] = L.cut[k]
        BY <2>1
    <2> HIDE DEF cut
    <2> QED
        BY <1>4, <2>2
<1>12. K.cut \in [0..Len(K.frames) -> Nat]
    <2>1. ASSUME NEW k \in 0..(n + count) PROVE K.cut[k] \in Nat
        <3>1. CASE k <= n
            <4>1. k \in 0..n
                BY <1>2, <3>1
            <4> QED
                BY <1>1, <1>11, <4>1
        <3>2. CASE ~(k <= n)
            <4>1. k - n \in 0..count /\ n + (k - n) = k
                BY <1>2, <1>3, <3>2
            <4>2. Len(flat[k - n]) \in Nat /\ K.cut[k] = s + Len(flat[k - n])
                BY <1>5, <1>10, <4>1
            <4>3. \A a, b \in Nat : a + b \in Nat
                OBVIOUS
            <4> QED
                BY <1>2, <4>2, <4>3
        <3> QED
            BY <3>1, <3>2
    <2>2. K.cut = [k \in 0..(n + count) |-> K.cut[k]]
        BY <1>4
    <2> HIDE DEF cut
    <2> QED
        BY <1>7, <2>1, <2>2
<1> HIDE DEF cut, n, s, t
<1>13. \A j \in 1..count :
          /\ K.cut[n + j] = K.cut[n + j - 1] + Size(K.frames[n + j])
          /\ K.cut[n + j - 1] >= s
          /\ K.cut[n + j - 1] = s + Len(flat[j - 1])
    <2> TAKE j \in 1..count
    <2>1. j \in 0..count /\ j - 1 \in 0..count /\ n + j - 1 = n + (j - 1)
        BY <1>2, <1>3
    <2>2. K.cut[n + j] = s + Len(flat[j]) /\ K.cut[n + j - 1] = s + Len(flat[j - 1])
        BY <1>10, <2>1
    <2>3. Len(flat[j]) = Len(flat[j - 1]) + Size(K.frames[n + j])
        <3>1. K.frames[n + j] = F[j] /\ Len(P[j]) = Size(F[j])
            BY <1>3, <1>7
        <3>2. Len(flat[j]) = Len(flat[j - 1]) + Len(P[j])
            BY <1>5
        <3> QED
            BY <3>1, <3>2, Zenon
    <2>4. Len(flat[j]) \in Nat /\ Len(flat[j - 1]) \in Nat
        BY <1>5, <2>1
    <2>5. Size(K.frames[n + j]) \in Nat
        BY <1>3, <1>7, EncodeIs
    <2> QED
        BY <1>2, <2>2, <2>3, <2>4, <2>5, SMTT(30)
<1>14. K.cut[Len(K.frames)] = Len(K.stream)
    <2>1. count \in 0..count
        BY <1>3
    <2> QED
        BY <1>7, <1>9, <1>10, <2>1 DEF t
<1>15. ASSUME NEW j \in 1..count, NEW x \in 1..Size(K.frames[n + j])
       PROVE  K.stream[K.cut[n + j - 1] + x] = Encode(K.frames[n + j])[x]
    <2>1. K.frames[n + j] = F[j] /\ P[j] = Encode(F[j]) /\ Len(P[j]) = Size(F[j])
        BY <1>3, <1>7
    <2>2. x \in 1..Len(P[j])
        BY <2>1
    <2>3. t[Len(flat[j - 1]) + x] = P[j][x]
        BY <1>5, <2>2 DEF t
    <2>4. Len(flat[j - 1]) + x \in 1..Len(t)
        <3>1. j \in 0..count /\ j - 1 \in 0..count
            BY <1>3
        <3>2. Len(flat[j]) \in Nat /\ Len(flat[j - 1]) \in Nat /\ Len(flat[j]) <= Len(t)
              /\ Len(flat[j]) = Len(flat[j - 1]) + Len(P[j]) /\ Len(t) \in Nat
            BY <1>5, <1>9, <3>1 DEF t
        <3>3. Len(P[j]) \in Nat
            BY <1>3, <2>1, EncodeIs
        <3>4. \A a, b, d, e \in Nat : d = a + b /\ d <= e => \A y \in 1..b : a + y \in 1..e
            OBVIOUS
        <3> QED
            BY <2>2, <3>2, <3>3, <3>4
    <2>5. K.cut[n + j - 1] + x = s + (Len(flat[j - 1]) + x)
        <3>1. j - 1 \in 0..count
            BY <1>3
        <3>2. Len(flat[j - 1]) \in Nat /\ K.cut[n + j - 1] = s + Len(flat[j - 1])
            BY <1>5, <1>13, <3>1
        <3> QED
            BY <1>2, <3>2
    <2> QED
        BY <1>9, <2>1, <2>3, <2>4, <2>5
<1>16. s <= Len(K.stream)
    BY <1>2, <1>9
<1> QED
    BY <1>6, <1>7, <1>8, <1>9, <1>11, <1>12, <1>13, <1>14, <1>15, <1>16 DEF Continues, K, F, n, s

\* A frame of the longer story is one of the story so far, as it was, or one
\* of the new message.
OldFrame(L, K, k) ==
    /\ k \in Count(L) /\ K.frames[k] = L.frames[k]
    /\ K.cut[k - 1] = L.cut[k - 1] /\ K.cut[k] = L.cut[k]
    /\ L.cut[k] <= Len(L.stream) /\ K.frames[k].msg \in 1..Len(L.sent)
    /\ K.sent[K.frames[k].msg] = L.sent[K.frames[k].msg]
    /\ \A x \in 1..Size(K.frames[k]) :
          /\ K.cut[k - 1] + x \in 1..Len(L.stream)
          /\ K.stream[K.cut[k - 1] + x] = L.stream[L.cut[k - 1] + x]
    /\ Size(K.frames[k]) \in 4..8

NewFrame(L, K, id, count, k) ==
    /\ k > Len(L.frames) /\ k \notin Count(L)
    /\ K.frames[k].msg = Len(L.sent) + 1 /\ K.frames[k].id = id
    /\ K.frames[k].index = k - Len(L.frames) - 1 /\ k - Len(L.frames) \in 1..count
    /\ K.frames[k].count = count /\ K.frames[k].len \in {0, 1, 4}
    /\ K.cut[k] = K.cut[k - 1] + Size(K.frames[k]) /\ Size(K.frames[k]) \in 4..8
    /\ K.cut[k - 1] >= Len(L.stream) /\ K.cut[k] > Len(L.stream)
    /\ K.cut[k] <= Len(K.stream)
    /\ \A x \in 1..Size(K.frames[k]) :
          K.stream[K.cut[k - 1] + x] = Encode(K.frames[k])[x]

\* What there is of lengths.
LEMMA ContinuesIs ==
    ASSUME NEW L, Laid(L), NEW id \in MessageIds, NEW count \in FrameCounts,
           NEW K, Continues(L, K, id, count)
    PROVE  /\ Len(L.frames) \in Nat /\ Len(L.stream) \in Nat /\ Len(L.sent) \in Nat
           /\ count \in Nat \ {0} /\ Len(K.frames) = Len(L.frames) + count
           /\ Len(K.stream) \in Nat /\ Len(L.stream) <= Len(K.stream)
           /\ \A k \in 0..Len(K.frames) : K.cut[k] \in Nat
           /\ \A k \in Count(K) : K.frames[k] \in Headers
           /\ DOMAIN L.sent = 1..Len(L.sent) /\ DOMAIN K.sent = 1..(Len(L.sent) + 1)
           /\ \A m \in 1..Len(L.sent) : K.sent[m] = L.sent[m]
           /\ K.sent[Len(L.sent) + 1] = count
<1>1. Len(L.frames) \in Nat /\ Len(L.stream) \in Nat
    BY LaidCuts
<1>2. Len(L.sent) \in Nat /\ DOMAIN L.sent = 1..Len(L.sent)
    <2>1. L.sent \in Seq(FrameCounts)
        BY DEF Laid
    <2> QED
        BY <2>1
<1>3. count \in Nat \ {0}
    BY FramingAssumption
<1>4. /\ K.sent \in Seq(FrameCounts) /\ Len(K.sent) = Len(L.sent) + 1
      /\ K.frames \in Seq(Headers) /\ Len(K.frames) = Len(L.frames) + count
      /\ K.cut \in [0..Len(K.frames) -> Nat] /\ K.stream \in Seq(Elements)
      /\ Len(L.stream) <= Len(K.stream)
      /\ \A m \in 1..Len(L.sent) : K.sent[m] = L.sent[m]
      /\ K.sent[Len(L.sent) + 1] = count
    BY DEF Continues
<1>5. Len(K.stream) \in Nat /\ DOMAIN K.sent = 1..(Len(L.sent) + 1)
    BY <1>4
<1>6. \A k \in 0..Len(K.frames) : K.cut[k] \in Nat
    BY <1>4
<1>7. \A k \in Count(K) : K.frames[k] \in Headers
    BY <1>4 DEF Count
<1> QED
    BY <1>1, <1>2, <1>3, <1>4, <1>5, <1>6, <1>7

\* There are no other frames.
LEMMA ContinuesFrame ==
    ASSUME NEW L, Laid(L), NEW id \in MessageIds, NEW count \in FrameCounts,
           NEW K, Continues(L, K, id, count), NEW k \in Count(K)
    PROVE  OldFrame(L, K, k) \/ NewFrame(L, K, id, count, k)
<1> DEFINE n == Len(L.frames)
           s == Len(L.stream)
<1>1. /\ n \in Nat /\ s \in Nat /\ count \in Nat \ {0} /\ Len(K.frames) = n + count
      /\ Len(L.sent) \in Nat /\ Len(K.stream) \in Nat /\ s <= Len(K.stream)
      /\ \A j \in 0..Len(K.frames) : K.cut[j] \in Nat
      /\ \A m \in 1..Len(L.sent) : K.sent[m] = L.sent[m]
    BY ContinuesIs
<1>2. k \in Nat /\ k >= 1 /\ k <= n + count /\ k - 1 \in 0..Len(K.frames) /\ k \in 0..Len(K.frames)
    BY <1>1 DEF Count
<1>3. CASE k <= n
    <2>1. k \in Count(L) /\ k \in 1..n /\ k \in 0..n /\ k - 1 \in 0..n
        BY <1>1, <1>2, <1>3 DEF Count
    <2>2. K.frames[k] = L.frames[k] /\ K.cut[k] = L.cut[k] /\ K.cut[k - 1] = L.cut[k - 1]
        BY <2>1 DEF Continues
    <2>3. /\ L.cut[k] \in Nat /\ L.cut[k - 1] \in Nat /\ Size(L.frames[k]) \in 4..8
          /\ L.cut[k] = L.cut[k - 1] + Size(L.frames[k])
          /\ L.frames[k].msg \in Nat /\ L.frames[k].msg >= 1 /\ L.frames[k].msg <= Len(L.sent)
        BY <2>1, LaidFrame
    <2>4. L.cut[k] \in 0..s
        BY <2>1, LaidCuts
    <2>5. L.frames[k].msg \in 1..Len(L.sent)
        BY <1>1, <2>3
    <2>6. \A x \in 1..Size(L.frames[k]) : L.cut[k - 1] + x \in 1..s
        <3>1. \A a, b, d, e \in Int : a >= 0 /\ d = a + b /\ d <= e =>
                 \A x \in 1..b : a + x \in 1..e
            OBVIOUS
        <3>2. L.cut[k - 1] \in Int /\ L.cut[k - 1] >= 0 /\ L.cut[k] \in Int /\ L.cut[k] <= s
              /\ Size(L.frames[k]) \in Int /\ s \in Int
            BY <1>1, <2>3, <2>4
        <3> QED
            BY <2>3, <3>1, <3>2
    <2>7. \A p \in 1..s : K.stream[p] = L.stream[p]
        BY DEF Continues
    <2>8. L.cut[k] <= s
        BY <1>1, <2>4
    <2> HIDE DEF s
    <2>9. \A x \in 1..Size(K.frames[k]) :
             /\ K.cut[k - 1] + x \in 1..s
             /\ K.stream[K.cut[k - 1] + x] = L.stream[L.cut[k - 1] + x]
        BY <2>2, <2>6, <2>7
    <2>10. K.sent[K.frames[k].msg] = L.sent[K.frames[k].msg]
        BY <1>1, <2>2, <2>5
    <2> QED
        BY <2>1, <2>2, <2>3, <2>5, <2>8, <2>9, <2>10 DEF OldFrame, s
<1>4. CASE ~(k <= n)
    <2>1. k > n /\ k \notin Count(L) /\ k - n \in 1..count
        BY <1>1, <1>2, <1>4 DEF Count
    <2> PICK j \in 1..count : j = k - n
        BY <2>1
    <2>2. n + j = k /\ n + j - 1 = k - 1 /\ j - 1 = k - n - 1
        BY <1>1, <1>2
    <2>3. /\ K.frames[n + j].msg = Len(L.sent) + 1 /\ K.frames[n + j].id = id
          /\ K.frames[n + j].index = j - 1 /\ K.frames[n + j].count = count
          /\ K.frames[n + j].len \in {0, 1, 4}
        BY DEF Continues
    <2>4. /\ K.cut[n + j] = K.cut[n + j - 1] + Size(K.frames[n + j])
          /\ K.cut[n + j - 1] >= s
        BY DEF Continues
    <2>5. \A x \in 1..Size(K.frames[n + j]) :
             K.stream[K.cut[n + j - 1] + x] = Encode(K.frames[n + j])[x]
        BY DEF Continues
    <2>6. Size(K.frames[k]) \in 4..8
        <3> DEFINE l == K.frames[k].len
        <3>1. l \in {0, 1, 4}
            BY <2>2, <2>3, Zenon
        <3>2. Size(K.frames[k]) = l + 4
            BY DEF Size
        <3> HIDE DEF l
        <3> QED
            BY <3>1, <3>2
    <2>7. K.cut[k] \in Nat /\ K.cut[k - 1] \in Nat
        BY <1>1, <1>2
    <2>8. K.cut[k] > s
        <3>1. K.cut[k] = K.cut[k - 1] + Size(K.frames[k]) /\ K.cut[k - 1] >= s
            BY <2>2, <2>4, Zenon
        <3>2. \A a, b \in Nat : \A z \in 4..8 : \A e \in Nat : b = a + z /\ a >= e => b > e
            OBVIOUS
        <3> QED
            BY <1>1, <2>6, <2>7, <3>1, <3>2
    <2>9. K.cut[k] <= Len(K.stream)
        <3> DEFINE N == Len(K.frames)
                   T == {i \in 0..count : K.cut[n + count - i] <= Len(K.stream)}
        <3>1. 0 \in T
            <4>1. n + count - 0 = N
                BY <1>1
            <4>2. K.cut[N] = Len(K.stream)
                BY DEF Continues
            <4>3. 0 \in 0..count
                BY <1>1
            <4> QED
                BY <1>1, <4>1, <4>2, <4>3
        <3>2. ASSUME NEW i \in 1..count, i - 1 \in T PROVE i \in T
            <4>1. count - i + 1 \in 1..count /\ n + (count - i + 1) = n + count - (i - 1)
                  /\ n + (count - i + 1) - 1 = n + count - i /\ i \in 0..count
                <5>1. \A a, b \in Nat : \A y \in 1..b :
                         /\ b - y + 1 \in 1..b /\ a + (b - y + 1) = a + b - (y - 1)
                         /\ a + (b - y + 1) - 1 = a + b - y /\ y \in 0..b
                    OBVIOUS
                <5>2. count \in Nat /\ n \in Nat
                    BY <1>1
                <5> HIDE DEF n
                <5> QED
                    BY <5>1, <5>2
            <4>2. K.cut[n + (count - i + 1)]
                     = K.cut[n + (count - i + 1) - 1] + Size(K.frames[n + (count - i + 1)])
                BY <4>1 DEF Continues
            <4>3. Size(K.frames[n + (count - i + 1)]) \in 4..8
                <5>1. K.frames[n + (count - i + 1)].len \in {0, 1, 4}
                    BY <4>1 DEF Continues
                <5> QED
                    BY <5>1 DEF Size
            <4>4. K.cut[n + count - (i - 1)] \in Nat /\ K.cut[n + count - i] \in Nat
                <5>1. n + count - (i - 1) \in 0..N /\ n + count - i \in 0..N
                    <6>1. \A a, b \in Nat : \A y \in 1..b :
                             a + b - (y - 1) \in 0..(a + b) /\ a + b - y \in 0..(a + b)
                        OBVIOUS
                    <6>2. count \in Nat /\ n \in Nat /\ N = n + count
                        BY <1>1
                    <6> HIDE DEF n, N
                    <6> QED
                        BY <6>1, <6>2
                <5> QED
                    BY <1>1, <5>1
            <4>5. K.cut[n + count - (i - 1)] <= Len(K.stream)
                BY <3>2
            <4>6. K.cut[n + count - i] <= Len(K.stream)
                <5> DEFINE a == K.cut[n + count - i]
                           b == K.cut[n + count - (i - 1)]
                           z == Size(K.frames[n + (count - i + 1)])
                <5>1. b = a + z
                    BY <4>1, <4>2, Zenon
                <5> HIDE DEF a, b, z
                <5>2. a \in Nat /\ b \in Nat /\ z \in 4..8 /\ b <= Len(K.stream)
                    BY <4>3, <4>4, <4>5 DEF a, b, z
                <5>3. a <= Len(K.stream)
                    BY <1>1, <5>1, <5>2
                <5> QED
                    BY <5>3 DEF a
            <4> QED
                BY <4>1, <4>6
        <3>3. 0..count \subseteq T
            <4> HIDE DEF T
            <4>1. count \in Nat
                BY <1>1
            <4> QED
                BY <3>1, <3>2, <4>1, Upward
        <3>4. count - j \in 0..count /\ n + count - (count - j) = k
            BY <1>1, <2>2, SMTT(30)
        <3>5. count - j \in T
            <4> HIDE DEF T
            <4> QED
                BY <3>3, <3>4
        <3>6. K.cut[n + count - (count - j)] <= Len(K.stream)
            BY <3>5
        <3> QED
            BY <3>4, <3>6
    <2> HIDE DEF n, s
    <2>10. k - n \in 1..count /\ k > n
        BY <2>1
    <2>11. /\ K.frames[k].msg = Len(L.sent) + 1 /\ K.frames[k].id = id
           /\ K.frames[k].index = k - n - 1 /\ K.frames[k].count = count
           /\ K.frames[k].len \in {0, 1, 4}
           /\ K.cut[k] = K.cut[k - 1] + Size(K.frames[k]) /\ K.cut[k - 1] >= s
           /\ \A x \in 1..Size(K.frames[k]) :
                 K.stream[K.cut[k - 1] + x] = Encode(K.frames[k])[x]
        BY <2>2, <2>3, <2>4, <2>5, Zenon
    <2> QED
        BY <2>1, <2>6, <2>8, <2>9, <2>10, <2>11 DEF NewFrame, n, s
<1> QED
    BY <1>3, <1>4

\* The longer story is one of a stream.
LEMMA ContinuesLaid ==
    ASSUME NEW L, Laid(L), NEW id \in MessageIds, NEW count \in FrameCounts,
           NEW K, Continues(L, K, id, count)
    PROVE  Laid(K)
<1> DEFINE n == Len(L.frames)
           m == Len(L.sent) + 1
<1>1. /\ n \in Nat /\ Len(L.sent) \in Nat /\ count \in Nat \ {0} /\ Len(K.frames) = n + count
      /\ \A k \in Count(K) : K.frames[k] \in Headers
      /\ DOMAIN L.sent = 1..Len(L.sent) /\ DOMAIN K.sent = 1..m
      /\ \A i \in 1..Len(L.sent) : K.sent[i] = L.sent[i]
      /\ K.sent[m] = count
    BY ContinuesIs
<1>2. \A k \in Count(K) : OldFrame(L, K, k) \/ NewFrame(L, K, id, count, k)
    BY ContinuesFrame
<1>3. /\ K.sent \in Seq(FrameCounts) /\ K.frames \in Seq(Headers) /\ K.stream \in Seq(Elements)
      /\ K.cut \in [0..Len(K.frames) -> Nat]
      /\ K.cut[0] = 0 /\ K.cut[Len(K.frames)] = Len(K.stream)
    <2>1. /\ K.sent \in Seq(FrameCounts) /\ K.frames \in Seq(Headers) /\ K.stream \in Seq(Elements)
          /\ K.cut \in [0..Len(K.frames) -> Nat]
          /\ K.cut[Len(K.frames)] = Len(K.stream)
          /\ \A k \in 0..Len(L.frames) : K.cut[k] = L.cut[k]
        BY DEF Continues
    <2>2. 0 \in 0..Len(L.frames)
        BY <1>1
    <2>3. L.cut[0] = 0
        BY LaidCuts
    <2> QED
        BY <2>1, <2>2, <2>3
<1>4. ASSUME NEW k \in Count(K)
      PROVE  Made(K.sent, K.frames[k]) /\ K.cut[k] = K.cut[k - 1] + Size(K.frames[k])
    <2>1. CASE OldFrame(L, K, k)
        <3> DEFINE f == K.frames[k]
        <3>1. k \in Count(L) /\ f = L.frames[k] /\ K.cut[k - 1] = L.cut[k - 1]
              /\ K.cut[k] = L.cut[k] /\ f.msg \in 1..Len(L.sent)
              /\ K.sent[f.msg] = L.sent[f.msg]
            BY <2>1 DEF OldFrame
        <3>2. Made(L.sent, L.frames[k]) /\ L.cut[k] = L.cut[k - 1] + Size(L.frames[k])
            BY <3>1, LaidFrame
        <3> HIDE DEF f
        <3>3. Made(L.sent, f)
            BY <3>1, <3>2
        <3>4. f.msg \in DOMAIN K.sent
            BY <1>1, <3>1
        <3>5. Made(K.sent, f)
            BY <3>1, <3>3, <3>4 DEF Made
        <3>6. K.cut[k] = K.cut[k - 1] + Size(f)
            BY <3>1, <3>2
        <3> QED
            BY <3>5, <3>6 DEF f
    <2>2. CASE NewFrame(L, K, id, count, k)
        <3> DEFINE f == K.frames[k]
        <3>1. /\ f \in Headers /\ f.msg = m /\ f.id = id /\ f.index = k - n - 1 /\ k - n \in 1..count
              /\ f.count = count /\ f.len \in {0, 1, 4} /\ K.cut[k] = K.cut[k - 1] + Size(f)
            BY <1>1, <2>2 DEF NewFrame
        <3> HIDE DEF f
        <3>2. f.msg \in DOMAIN K.sent /\ K.sent[f.msg] = count
            BY <1>1, <3>1
        <3>3. f.index \in 0..(f.count - 1)
            <4>1. k \in Int /\ n \in Int /\ count \in Int
                BY <1>1 DEF Count
            <4> HIDE DEF n
            <4> QED
                BY <3>1, <4>1
        <3>4. Made(K.sent, f)
            BY <3>1, <3>2, <3>3 DEF Made
        <3> QED
            BY <3>1, <3>4 DEF f
    <2> QED
        BY <1>2, <2>1, <2>2
<1>5. ASSUME NEW k \in Count(K), NEW x \in 1..Size(K.frames[k])
      PROVE  \/ K.stream[K.cut[k - 1] + x] = Encode(K.frames[k])[x]
             \/ Damaged(Encode(K.frames[k])[x], K.stream[K.cut[k - 1] + x])
    <2>1. CASE OldFrame(L, K, k)
        <3>1. /\ k \in Count(L) /\ K.frames[k] = L.frames[k]
              /\ K.stream[K.cut[k - 1] + x] = L.stream[L.cut[k - 1] + x]
            BY <2>1 DEF OldFrame
        <3>2. \/ L.stream[L.cut[k - 1] + x] = Encode(L.frames[k])[x]
              \/ Damaged(Encode(L.frames[k])[x], L.stream[L.cut[k - 1] + x])
            BY <3>1 DEF Laid
        <3> QED
            BY <3>1, <3>2, Zenon
    <2>2. CASE NewFrame(L, K, id, count, k)
        BY <2>2 DEF NewFrame
    <2> QED
        BY <1>2, <2>1, <2>2
<1>6. ASSUME NEW j \in Count(K), NEW k \in Count(K), j < k
      PROVE  \/ K.frames[j].msg < K.frames[k].msg
             \/ /\ K.frames[j].msg = K.frames[k].msg /\ K.frames[j].id = K.frames[k].id
                /\ K.frames[j].index < K.frames[k].index
    <2>0. j \in Int /\ k \in Int
        BY DEF Count
    <2>1. CASE OldFrame(L, K, j) /\ OldFrame(L, K, k)
        <3>1. /\ j \in Count(L) /\ k \in Count(L)
              /\ K.frames[j] = L.frames[j] /\ K.frames[k] = L.frames[k]
            BY <2>1 DEF OldFrame
        <3> QED
            BY <1>6, <3>1, LaidOrder
    <2>2. CASE OldFrame(L, K, j) /\ NewFrame(L, K, id, count, k)
        <3>1. K.frames[j].msg \in 1..Len(L.sent)
            BY <2>2 DEF OldFrame
        <3>2. K.frames[k].msg = Len(L.sent) + 1
            BY <2>2 DEF NewFrame
        <3>3. \A x, y \in Int : x \in 1..y => x < y + 1
            OBVIOUS
        <3>4. Len(L.sent) \in Int /\ K.frames[j].msg \in Int
            BY <1>1, <3>1
        <3> QED
            BY <3>1, <3>2, <3>3, <3>4
    <2>3. CASE NewFrame(L, K, id, count, j) /\ OldFrame(L, K, k)
        <3>1. j > n /\ k <= n
            <4>1. j > n /\ k \in Count(L)
                BY <2>3 DEF OldFrame, NewFrame
            <4> QED
                BY <1>1, <4>1 DEF Count
        <3> QED
            BY <1>1, <1>6, <2>0, <3>1
    <2>4. CASE NewFrame(L, K, id, count, j) /\ NewFrame(L, K, id, count, k)
        <3>1. /\ K.frames[j].msg = m /\ K.frames[k].msg = m
              /\ K.frames[j].id = id /\ K.frames[k].id = id
              /\ K.frames[j].index = j - n - 1 /\ K.frames[k].index = k - n - 1
            BY <2>4 DEF NewFrame
        <3> HIDE DEF n, m
        <3>2. j - n - 1 < k - n - 1
            <4>1. n \in Int
                BY <1>1
            <4> QED
                BY <1>6, <2>0, <4>1
        <3> QED
            BY <3>1, <3>2
    <2> QED
        BY <1>2, <2>1, <2>2, <2>3, <2>4
<1>7. ASSUME NEW a \in DOMAIN K.sent, NEW i \in 0..(K.sent[a] - 1)
      PROVE  \E k \in Count(K) : K.frames[k].msg = a /\ K.frames[k].index = i
    <2>1. CASE a \in 1..Len(L.sent)
        <3>1. a \in DOMAIN L.sent /\ i \in 0..(L.sent[a] - 1)
            BY <1>1, <2>1
        <3>2. PICK k \in Count(L) : L.frames[k].msg = a /\ L.frames[k].index = i
            BY <3>1 DEF Laid
        <3>3. k \in Count(K) /\ k \in 1..Len(L.frames)
            BY <1>1 DEF Count
        <3>4. K.frames[k] = L.frames[k]
            BY <3>3 DEF Continues
        <3> QED
            BY <3>2, <3>3, <3>4
    <2>2. CASE a = m
        <3>1. i \in 0..(count - 1)
            BY <1>1, <2>2
        <3> DEFINE j == i + 1
        <3>2. j \in 1..count /\ j - 1 = i /\ n + j \in Count(K)
            <4>1. \A u, v \in Nat : \A y \in 0..(v - 1) :
                     y + 1 \in 1..v /\ (y + 1) - 1 = y /\ u + (y + 1) \in 1..(u + v)
                OBVIOUS
            <4>2. n \in Nat /\ count \in Nat /\ Count(K) = 1..(n + count)
                BY <1>1 DEF Count
            <4> HIDE DEF n
            <4> QED
                BY <3>1, <4>1, <4>2
        <3> HIDE DEF j
        <3>3. K.frames[n + j].msg = m /\ K.frames[n + j].index = j - 1
            BY <3>2 DEF Continues
        <3> HIDE DEF n
        <3> QED
            BY <2>2, <3>2, <3>3
    <2> QED
        BY <1>1, <2>1, <2>2
<1> HIDE DEF n, m
<1>8. \A k \in Count(K) :
         Made(K.sent, K.frames[k]) /\ K.cut[k] = K.cut[k - 1] + Size(K.frames[k])
    BY <1>4
<1> DEFINE E(k, x) == Encode(K.frames[k])[x]
           R(k, x) == K.stream[K.cut[k - 1] + x]
<1>9. \A k \in Count(K) : \A x \in 1..Size(K.frames[k]) : R(k, x) = E(k, x) \/ Damaged(E(k, x), R(k, x))
    BY <1>5
<1>10. \A j, k \in Count(K) : j < k =>
          \/ K.frames[j].msg < K.frames[k].msg
          \/ /\ K.frames[j].msg = K.frames[k].msg /\ K.frames[j].id = K.frames[k].id
             /\ K.frames[j].index < K.frames[k].index
    BY <1>6
<1>11. \A a \in DOMAIN K.sent : \A i \in 0..(K.sent[a] - 1) :
          \E k \in Count(K) : K.frames[k].msg = a /\ K.frames[k].index = i
    BY <1>7
<1> QED
    BY <1>3, <1>8, <1>9, <1>10, <1>11 DEF Laid

\* The new message is undamaged, and what is damaged stays damaged.
LEMMA ContinuesHits ==
    ASSUME NEW L, Laid(L), NEW id \in MessageIds, NEW count \in FrameCounts,
           NEW K, Continues(L, K, id, count)
    PROVE  /\ Hits(K) \subseteq Hits(L)
           /\ \A k \in Count(L) : Whole(L, k) => Whole(K, k)
           /\ \A k \in Count(K) : OldFrame(L, K, k) => (Whole(K, k) <=> Whole(L, k))
           /\ \A k \in Count(K) : \A c : OldFrame(L, K, k) => (Live(K, c, k) <=> Live(L, c, k))
<1>1. \A k \in Count(K) : OldFrame(L, K, k) \/ NewFrame(L, K, id, count, k)
    BY ContinuesFrame
<1>2. Hits(K) \subseteq Hits(L)
    <2> SUFFICES ASSUME NEW p \in Hits(K) PROVE p \in Hits(L)
        OBVIOUS
    <2>1. PICK k \in Count(K) : \E x \in 1..Size(K.frames[k]) :
             p = K.cut[k - 1] + x /\ K.stream[p] # Encode(K.frames[k])[x]
        BY DEF Hits
    <2>2. PICK x \in 1..Size(K.frames[k]) :
             p = K.cut[k - 1] + x /\ K.stream[p] # Encode(K.frames[k])[x]
        BY <2>1
    <2>3. ~NewFrame(L, K, id, count, k)
        BY <2>2 DEF NewFrame
    <2>4. /\ k \in Count(L) /\ K.frames[k] = L.frames[k] /\ K.cut[k - 1] = L.cut[k - 1]
          /\ K.cut[k - 1] + x \in 1..Len(L.stream)
          /\ K.stream[K.cut[k - 1] + x] = L.stream[L.cut[k - 1] + x]
        BY <1>1, <2>3 DEF OldFrame
    <2>5. p \in 1..Len(L.stream) /\ x \in 1..Size(L.frames[k]) /\ p = L.cut[k - 1] + x
          /\ L.stream[p] # Encode(L.frames[k])[x]
        BY <2>2, <2>4
    <2> QED
        BY <2>4, <2>5 DEF Hits
<1>3. ASSUME NEW k \in Count(K), OldFrame(L, K, k)
      PROVE  /\ Whole(K, k) <=> Whole(L, k)
             /\ \A c : Live(K, c, k) <=> Live(L, c, k)
    <2> DEFINE f == L.frames[k]
               b == L.cut[k - 1]
    <2>1. /\ k \in Count(L) /\ K.frames[k] = f /\ K.cut[k - 1] = b /\ K.cut[k] = L.cut[k]
          /\ L.cut[k] <= Len(L.stream)
          /\ \A x \in 1..Size(f) : K.stream[b + x] = L.stream[b + x]
        BY <1>3 DEF OldFrame
    <2>2. b \in Nat /\ L.cut[k] = b + Size(f) /\ Size(f) \in 4..8 /\ f \in Headers
        BY <2>1, LaidFrame
    <2>3. Len(L.stream) \in Nat /\ Len(K.stream) \in Nat /\ Len(L.stream) <= Len(K.stream)
        BY ContinuesIs
    <2>4. b + 1 + Size(f) - 1 <= Len(L.stream) /\ b + 1 + Size(f) - 1 <= Len(K.stream)
        <3>1. \A a, d, u, v \in Nat : \A z \in 4..8 : d = a + z /\ d <= u /\ u <= v =>
                 a + 1 + z - 1 <= u /\ a + 1 + z - 1 <= v
            OBVIOUS
        <3>2. L.cut[k] \in Nat
            BY <2>1, LaidFrame
        <3> HIDE DEF f, b
        <3> QED
            BY <2>1, <2>2, <2>3, <3>1, <3>2
    <2>5. \A x \in 1..Size(f) : b + 1 + x - 1 = b + x
        BY <2>2
    <2>6. 3 \in 1..Size(f)
        BY <2>2
    <2> HIDE DEF f, b
    <2>7. Intact(K.stream, b + 1, f) <=> Intact(L.stream, b + 1, f)
        BY <2>1, <2>4, <2>5 DEF Intact
    <2>8. Whole(K, k) <=> Whole(L, k)
        BY <2>1, <2>7 DEF Whole, f, b
    <2>9. K.stream[b + 3] = L.stream[b + 3]
        BY <2>1, <2>6
    <2>10. \A c : Live(K, c, k) <=> Live(L, c, k)
        BY <2>1, <2>9 DEF Live, f, b
    <2> QED
        BY <2>8, <2>10
<1>4. ASSUME NEW k \in Count(L) PROVE k \in Count(K) /\ OldFrame(L, K, k)
    <2>1. k \in Count(K)
        BY ContinuesIs DEF Count
    <2>2. ~NewFrame(L, K, id, count, k)
        BY DEF NewFrame
    <2> QED
        BY <1>1, <2>1, <2>2
<1> QED
    BY <1>2, <1>3, <1>4

\* More messages sent leave what the reassembler has as it should be.
LEMMA MoreSent ==
    ASSUME NEW n \in Nat, NEW A, NEW D
    PROVE  /\ AssembliesOk(n, A) => AssembliesOk(n + 1, A)
           /\ DeliveredOk(n, D) => DeliveredOk(n + 1, D)
<1>1. ASSUME NEW a, AssemblyOk(n, a) PROVE AssemblyOk(n + 1, a)
    <2>1. a.parts \in [1..a.count -> {-1} \cup 1..n]
        BY <1>1 DEF AssemblyOk
    <2>2. 1..n \subseteq 1..(n + 1)
        OBVIOUS
    <2>3. a.parts \in [1..a.count -> {-1} \cup 1..(n + 1)]
        BY <2>1, <2>2
    <2> QED
        BY <1>1, <2>3, Zenon DEF AssemblyOk
<1>2. AssembliesOk(n, A) => AssembliesOk(n + 1, A)
    BY <1>1 DEF AssembliesOk
<1>3. DeliveredOk(n, D) => DeliveredOk(n + 1, D)
    <2> SUFFICES ASSUME DeliveredOk(n, D), NEW k \in DOMAIN D, NEW i \in DOMAIN D[k]
                 PROVE  D[k][i] <= n + 1
        BY DEF DeliveredOk
    <2>1. D[k][i] <= n /\ D \in Seq(Seq(Nat))
        BY DEF DeliveredOk
    <2>2. D[k] \in Seq(Nat)
        BY <2>1
    <2>3. D[k][i] \in Nat
        BY <2>2
    <2> QED
        BY <2>1, <2>3
<1> QED
    BY <1>2, <1>3

\* No frame that is to come has this id, and no assembly.
Fresh(L, c, A, id) ==
    A[id] = NoAssembly /\ \A k \in Count(L) : Live(L, c, k) => L.frames[k].id # id

\* A message with an id that is not in use goes with what there is.
LEMMA ContinuesUnreused ==
    ASSUME NEW L, Laid(L), NEW id \in MessageIds, NEW count \in FrameCounts,
           NEW K, Continues(L, K, id, count), NEW c, NEW A, NEW D,
           Unreused(L, c, A, D), AssembliesOk(Len(L.sent), A), Fresh(L, c, A, id)
    PROVE  Unreused(K, c, A, D)
<1>1. /\ Len(L.sent) \in Nat /\ DOMAIN L.sent = 1..Len(L.sent)
      /\ DOMAIN K.sent = 1..(Len(L.sent) + 1)
      /\ \A i \in 1..Len(L.sent) : K.sent[i] = L.sent[i]
    BY ContinuesIs
<1>2. \A k \in Count(K) : OldFrame(L, K, k) \/ NewFrame(L, K, id, count, k)
    BY ContinuesFrame
<1>3. Unmixed(L, c) /\ Collecting(L, c, A) /\ HandedOn(L, c, D)
    BY DEF Unreused
<1>4. ASSUME NEW k \in Count(K), OldFrame(L, K, k)
      PROVE  /\ k \in Count(L) /\ K.frames[k] = L.frames[k]
             /\ K.cut[k - 1] = L.cut[k - 1] /\ K.cut[k] = L.cut[k]
             /\ Live(K, c, k) => Live(L, c, k) /\ L.frames[k].id # id
    <2>1. /\ k \in Count(L) /\ K.frames[k] = L.frames[k]
          /\ K.cut[k - 1] = L.cut[k - 1] /\ K.cut[k] = L.cut[k]
        BY <1>4 DEF OldFrame
    <2>2. Live(K, c, k) => Live(L, c, k)
        BY <1>4, ContinuesHits
    <2> QED
        BY <2>1, <2>2 DEF Fresh
<1>5. ASSUME NEW k \in Count(K), NewFrame(L, K, id, count, k)
      PROVE  K.frames[k].id = id /\ K.frames[k].msg = Len(L.sent) + 1
    BY <1>5 DEF NewFrame
<1>6. Unmixed(K, c)
    <2> SUFFICES ASSUME NEW j \in Count(K), NEW k \in Count(K), Live(K, c, j), Live(K, c, k),
                        K.frames[j].id = K.frames[k].id
                 PROVE  K.frames[j].msg = K.frames[k].msg
        BY DEF Unmixed
    <2>1. CASE OldFrame(L, K, j) /\ OldFrame(L, K, k)
        BY <1>3, <1>4, <2>1 DEF Unmixed
    <2>2. CASE OldFrame(L, K, j) /\ NewFrame(L, K, id, count, k)
        BY <1>4, <1>5, <2>2
    <2>3. CASE NewFrame(L, K, id, count, j) /\ OldFrame(L, K, k)
        BY <1>4, <1>5, <2>3
    <2>4. CASE NewFrame(L, K, id, count, j) /\ NewFrame(L, K, id, count, k)
        BY <1>5, <2>4
    <2> QED
        BY <1>2, <2>1, <2>2, <2>3, <2>4
<1>7. ASSUME NEW m \in DOMAIN L.sent, NEW i \in MessageIds, i # id, NEW a,
             Collects(L, c, m, i, a)
      PROVE  m \in DOMAIN K.sent /\ Collects(K, c, m, i, a)
    <2>1. m \in DOMAIN K.sent /\ K.sent[m] = L.sent[m] /\ m # Len(L.sent) + 1
        BY <1>1
    <2>2. /\ a.count = L.sent[m] /\ a.parts \in [1..L.sent[m] -> {-1, m}]
          /\ \A k \in Count(L) : Live(L, c, k) /\ L.frames[k].id = i => L.frames[k].msg = m
          /\ \A k \in Count(L) :
                L.frames[k].msg = m /\ a.parts[L.frames[k].index + 1] = m =>
                    L.cut[k] <= c /\ L.frames[k].id = i
        BY <1>7 DEF Collects
    <2>3. ASSUME NEW k \in Count(K), Live(K, c, k), K.frames[k].id = i
          PROVE  K.frames[k].msg = m
        <3>1. OldFrame(L, K, k)
            BY <1>2, <1>5, <1>7, <2>3
        <3> QED
            BY <1>4, <2>2, <2>3, <3>1
    <2>4. ASSUME NEW k \in Count(K), K.frames[k].msg = m, a.parts[K.frames[k].index + 1] = m
          PROVE  K.cut[k] <= c /\ K.frames[k].id = i
        <3>1. OldFrame(L, K, k)
            BY <1>2, <1>5, <2>1, <2>4
        <3> QED
            BY <1>4, <2>2, <2>4, <3>1
    <2>5. a.count = K.sent[m] /\ a.parts \in [1..K.sent[m] -> {-1, m}]
        BY <2>1, <2>2
    <2> QED
        BY <2>1, <2>3, <2>4, <2>5 DEF Collects
<1>8. Collecting(K, c, A)
    <2> SUFFICES ASSUME NEW i \in Pending(A)
                 PROVE  \E m \in DOMAIN K.sent : Collects(K, c, m, i, A[i])
        BY DEF Collecting
    <2>1. i \in MessageIds /\ i # id
        BY DEF Pending, Fresh
    <2>2. PICK m \in DOMAIN L.sent : Collects(L, c, m, i, A[i])
        BY <1>3 DEF Collecting
    <2> QED
        BY <1>7, <2>1, <2>2
<1>9. HandedOn(K, c, D)
    <2>1. \A m, e : Entire(L, e, m) => Entire(K, e, m)
        BY <1>1 DEF Entire
    <2>2. ASSUME NEW m, m \in DOMAIN L.sent, After(L, c, m) PROVE After(K, c, m)
        <3> SUFFICES ASSUME NEW k \in Count(K), c <= K.cut[k - 1] PROVE m < K.frames[k].msg
            BY DEF After
        <3>1. CASE OldFrame(L, K, k)
            BY <1>4, <2>2, <3>1 DEF After
        <3>2. CASE NewFrame(L, K, id, count, k)
            BY <1>1, <1>5, <2>2, <3>2
        <3> QED
            BY <1>2, <3>1, <3>2
    <2>3. /\ \A k \in DOMAIN D :
                D[k][1] # 0 => Entire(L, D[k], D[k][1]) /\ After(L, c, D[k][1])
          /\ \A j, k \in DOMAIN D : j < k /\ D[j][1] # 0 /\ D[k][1] # 0 => D[j][1] < D[k][1]
        BY <1>3 DEF HandedOn
    <2>4. \A k \in DOMAIN D :
                D[k][1] # 0 => Entire(K, D[k], D[k][1]) /\ After(K, c, D[k][1])
        <3> TAKE k \in DOMAIN D
        <3>1. ASSUME D[k][1] # 0 PROVE Entire(K, D[k], D[k][1]) /\ After(K, c, D[k][1])
            <4>1. Entire(L, D[k], D[k][1]) /\ After(L, c, D[k][1])
                BY <2>3, <3>1
            <4>2. D[k][1] \in DOMAIN L.sent
                BY <4>1 DEF Entire
            <4> QED
                BY <2>1, <2>2, <4>1, <4>2
        <3> QED
            BY <3>1
    <2> QED
        BY <2>3, <2>4 DEF HandedOn
<1> QED
    BY <1>6, <1>8, <1>9 DEF Unreused

\* What holds of the stream holds of the longer one.
LEMMA ContinuesSound ==
    ASSUME NEW L, Laid(L), NEW id \in MessageIds, NEW count \in FrameCounts,
           NEW K, Continues(L, K, id, count), NEW why, NEW c, NEW A, NEW D,
           Sound(L, why, c, A, D), NEW why2, why \subseteq why2,
           "reused" \notin why2 => Fresh(L, c, A, id)
    PROVE  Sound(K, why2, c, A, D)
<1>1. /\ c \in Nat /\ c <= Len(L.stream) /\ Outside(L, c)
      /\ AssembliesOk(Len(L.sent), A) /\ DeliveredOk(Len(L.sent), D)
      /\ NoInner(L, D)
      /\ "reused" \notin why => Unreused(L, c, A, D)
      /\ why = {} => Accounted(L, c, A, D)
    BY DEF Sound
<1>2. /\ Len(L.sent) \in Nat /\ Len(K.stream) \in Nat /\ Len(L.stream) \in Nat
      /\ Len(L.stream) <= Len(K.stream)
      /\ DOMAIN L.sent = 1..Len(L.sent)
      /\ \A i \in 1..Len(L.sent) : K.sent[i] = L.sent[i]
    BY ContinuesIs
<1>3. Len(K.sent) = Len(L.sent) + 1
    BY DEF Continues
<1>4. c <= Len(K.stream)
    BY <1>1, <1>2
<1>5. AssembliesOk(Len(K.sent), A) /\ DeliveredOk(Len(K.sent), D)
    BY <1>1, <1>2, <1>3, MoreSent
<1>6. \A k \in Count(K) : OldFrame(L, K, k) \/ NewFrame(L, K, id, count, k)
    BY ContinuesFrame
<1>7. /\ \A k \in Count(L) : Whole(L, k) => Whole(K, k)
      /\ \A k \in Count(K) : OldFrame(L, K, k) => (Whole(K, k) <=> Whole(L, k))
    BY ContinuesHits
<1>8. Outside(K, c)
    <2> SUFFICES ASSUME NEW k \in Count(K), Whole(K, k)
                 PROVE  c <= K.cut[k - 1] \/ K.cut[k] <= c
        BY DEF Outside
    <2>1. CASE OldFrame(L, K, k)
        <3>1. k \in Count(L) /\ K.cut[k - 1] = L.cut[k - 1] /\ K.cut[k] = L.cut[k]
            BY <2>1 DEF OldFrame
        <3>2. Whole(L, k)
            BY <1>7, <2>1
        <3> QED
            BY <1>1, <3>1, <3>2 DEF Outside
    <2>2. CASE NewFrame(L, K, id, count, k)
        <3>1. K.cut[k - 1] >= Len(L.stream)
            BY <2>2 DEF NewFrame
        <3>2. K.cut[k - 1] \in Nat
            <4>1. Laid(K)
                BY ContinuesLaid
            <4> QED
                BY <4>1, LaidFrame
        <3> QED
            BY <1>1, <1>2, <3>1, <3>2
    <2> QED
        BY <1>6, <2>1, <2>2
<1>9. NoInner(K, D)
    <2> SUFFICES ASSUME AllWhole(K) PROVE \A k \in DOMAIN D : D[k][1] # 0
        BY DEF NoInner
    <2>1. ASSUME NEW k \in Count(L) PROVE Whole(L, k)
        <3>1. k \in Count(K)
            BY ContinuesIs DEF Count
        <3>2. ~NewFrame(L, K, id, count, k)
            BY DEF NewFrame
        <3>3. OldFrame(L, K, k) /\ Whole(K, k)
            BY <1>6, <3>1, <3>2 DEF AllWhole
        <3> QED
            BY <1>7, <3>1, <3>3
    <2> QED
        BY <1>1, <2>1 DEF NoInner, AllWhole
<1>10. "reused" \notin why2 => Unreused(K, c, A, D)
    <2> SUFFICES ASSUME "reused" \notin why2 PROVE Unreused(K, c, A, D)
        OBVIOUS
    <2>1. Unreused(L, c, A, D) /\ Fresh(L, c, A, id)
        BY <1>1
    <2> QED
        BY <1>1, <2>1, ContinuesUnreused
<1>11. why2 = {} => Accounted(K, c, A, D)
    <2> SUFFICES ASSUME why2 = {} PROVE Accounted(K, c, A, D)
        OBVIOUS
    <2>1. Accounted(L, c, A, D)
        BY <1>1
    <2>2. ASSUME NEW k \in Count(K), K.cut[k] <= c, Whole(K, k), Due(K.sent, K.frames[k].msg)
          PROVE  Gone(D, K.frames[k].msg) \/ StillHeld(K, A, k)
        <3>1. CASE OldFrame(L, K, k)
            <4>1. /\ k \in Count(L) /\ K.frames[k] = L.frames[k] /\ K.cut[k] = L.cut[k]
                  /\ K.sent[K.frames[k].msg] = L.sent[K.frames[k].msg]
                BY <3>1 DEF OldFrame
            <4>2. Whole(L, k)
                BY <1>7, <2>2, <3>1
            <4>3. Due(L.sent, L.frames[k].msg)
                BY <2>2, <4>1 DEF Due
            <4>4. Gone(D, L.frames[k].msg) \/ StillHeld(L, A, k)
                BY <2>1, <2>2, <4>1, <4>2, <4>3 DEF Accounted
            <4> QED
                BY <4>1, <4>4 DEF StillHeld
        <3>2. CASE NewFrame(L, K, id, count, k)
            <4>1. K.cut[k] > Len(L.stream)
                BY <3>2 DEF NewFrame
            <4>2. K.cut[k] \in Nat
                <5>1. Laid(K)
                    BY ContinuesLaid
                <5> QED
                    BY <5>1, LaidFrame
            <4> QED
                BY <1>1, <1>2, <2>2, <4>1, <4>2
        <3> QED
            BY <1>6, <3>1, <3>2
    <2> QED
        BY <2>1, <2>2 DEF Accounted
<1> QED
    BY <1>1, <1>4, <1>5, <1>8, <1>9, <1>10, <1>11 DEF Sound

\* The header of a frame that is to come has its id, whatever its length.
LEMMA LiveHeader ==
    ASSUME NEW L, Laid(L), NEW c \in Nat, NEW k \in Count(L), Live(L, c, k)
    PROVE  LET p == L.cut[k - 1] + 3
           IN /\ p \in 1..Len(L.stream) /\ p > c + 2
              /\ L.stream[p].at = "fields" /\ L.stream[p].frame.id = L.frames[k].id
<1> DEFINE p == L.cut[k - 1] + 3
           f == L.frames[k]
           y == L.stream[p]
<1>1. /\ f \in Headers /\ L.cut[k] \in Nat /\ L.cut[k - 1] \in Nat
      /\ L.cut[k] = L.cut[k - 1] + Size(f) /\ Size(f) \in 4..8 /\ k \in 0..Len(L.frames)
    BY LaidFrame
<1>2. L.cut[k] \in 0..Len(L.stream) /\ Len(L.stream) \in Nat
    BY <1>1, LaidCuts
<1>3. p \in 1..Len(L.stream)
    <2>1. \A a, d, e \in Nat : \A z \in 4..8 : d = a + z /\ d <= e => a + 3 \in 1..e
        OBVIOUS
    <2>2. L.cut[k] <= Len(L.stream)
        BY <1>2
    <2> HIDE DEF f
    <2> QED
        BY <1>1, <1>2, <2>1, <2>2
<1>4. c <= L.cut[k - 1] /\ y.at = "fields"
    BY DEF Live
<1>5. p > c + 2
    BY <1>1, <1>4
<1>6. 3 \in 1..Size(f)
    BY <1>1
<1>7. y = Encode(f)[3] \/ Damaged(Encode(f)[3], y)
    BY <1>6 DEF Laid
<1>8. Encode(f)[3] = Fields(f) /\ Fields(f).frame = f /\ Noise.at = "noise"
    BY <1>1, EncodeIs, ElementsDiffer
<1> HIDE DEF p, f, y
<1>9. y.frame.id = f.id
    <2>1. CASE y = Encode(f)[3]
        BY <1>8, <2>1
    <2>2. CASE Damaged(Encode(f)[3], y)
        <3>1. y # Noise
            BY <1>4, <1>8
        <3>2. PICK l \in Nat : y = Fields([Fields(f).frame EXCEPT !.len = l])
            BY <1>8, <2>2, <3>1 DEF Damaged
        <3> DEFINE q == [f EXCEPT !.len = l]
        <3>3. q.id = f.id
            BY <1>1 DEF Headers
        <3>4. y = Fields(q)
            BY <1>8, <3>2, Zenon
        <3> HIDE DEF q
        <3>5. y.frame = q
            BY <3>4, ElementsDiffer
        <3> QED
            BY <3>3, <3>5
    <2> QED
        BY <1>7, <2>1, <2>2
<1> QED
    BY <1>3, <1>4, <1>5, <1>9 DEF p, f, y

\* An id that is not in use is fresh.
LEMMA NotInUse ==
    ASSUME NEW L, Laid(L), L.stream = arrived \o wire, arrived \in Seq(Elements),
           wire \in Seq(Elements), NEW c, Stops(arrived, c, buffer),
           NEW id \in MessageIds, ~InUse(id)
    PROVE  Fresh(L, c, assemblies, id)
<1>1. /\ c \in 0..Len(arrived) /\ buffer = Rest(arrived, c + 1) /\ Len(arrived) \in Nat
      /\ c \in Nat /\ c <= Len(arrived)
    BY DEF Stops
<1>2. /\ buffer \in Seq(Elements) /\ Len(buffer) = Len(arrived) - c
      /\ \A k \in 1..(Len(arrived) - c) : buffer[k] = arrived[c + k]
    <2> DEFINE i == c + 1
    <2>1. i \in 1..(Len(arrived) + 1)
        BY <1>1
    <2> HIDE DEF i
    <2>2. /\ Rest(arrived, i) \in Seq(Elements) /\ Len(Rest(arrived, i)) = Len(arrived) - i + 1
          /\ \A k \in 1..(Len(arrived) - i + 1) : Rest(arrived, i)[k] = arrived[i + k - 1]
        BY <2>1, RestIs
    <2>3. Len(arrived) - i + 1 = Len(arrived) - c
          /\ \A k \in 1..(Len(arrived) - c) : i + k - 1 = c + k
        BY <1>1 DEF i
    <2>4. buffer = Rest(arrived, i)
        BY <1>1 DEF i
    <2> QED
        BY <2>2, <2>3, <2>4
<1>3. /\ assemblies[id] = NoAssembly
      /\ \A i \in DOMAIN wire : ~(wire[i].at = "fields" /\ wire[i].frame.id = id)
      /\ \A i \in DOMAIN buffer : ~(buffer[i].at = "fields" /\ buffer[i].frame.id = id)
    BY DEF InUse
<1>4. ASSUME NEW k \in Count(L), Live(L, c, k) PROVE L.frames[k].id # id
    <2> PICK p : p = L.cut[k - 1] + 3
        OBVIOUS
    <2>1. /\ p \in 1..Len(L.stream) /\ p > c + 2
          /\ L.stream[p].at = "fields" /\ L.stream[p].frame.id = L.frames[k].id
        BY <1>1, <1>4, LiveHeader
    <2>2. /\ Len(L.stream) = Len(arrived) + Len(wire) /\ Len(wire) \in Nat
          /\ \A i \in 1..Len(arrived) : L.stream[i] = arrived[i]
          /\ \A i \in (Len(arrived) + 1)..(Len(arrived) + Len(wire)) :
                L.stream[i] = wire[i - Len(arrived)]
        <3>1. /\ Len(arrived \o wire) = Len(arrived) + Len(wire) /\ Len(wire) \in Nat
              /\ \A i \in 1..Len(arrived) : (arrived \o wire)[i] = arrived[i]
              /\ \A i \in (Len(arrived) + 1)..(Len(arrived) + Len(wire)) :
                    (arrived \o wire)[i] = wire[i - Len(arrived)]
            BY Joined
        <3> DEFINE a == arrived \o wire
        <3> HIDE DEF a
        <3>2. L.stream = a
            BY DEF a
        <3> QED
            BY <3>1, <3>2 DEF a
    <2>3. CASE p <= Len(arrived)
        <3>1. p - c \in 1..(Len(arrived) - c) /\ c + (p - c) = p /\ p \in 1..Len(arrived)
            BY <1>1, <2>1, <2>2, <2>3, SMTT(30)
        <3>2. buffer[p - c] = L.stream[p]
            BY <1>2, <2>2, <3>1
        <3>3. p - c \in DOMAIN buffer
            BY <1>2, <3>1
        <3> QED
            BY <1>3, <2>1, <3>2, <3>3
    <2>4. CASE ~(p <= Len(arrived))
        <3>1. /\ p \in (Len(arrived) + 1)..(Len(arrived) + Len(wire))
              /\ p - Len(arrived) \in 1..Len(wire)
            BY <1>1, <2>1, <2>2, <2>4, SMTT(30)
        <3>2. wire[p - Len(arrived)] = L.stream[p]
            BY <2>2, <3>1
        <3>3. p - Len(arrived) \in DOMAIN wire
            BY <3>1
        <3> QED
            BY <1>3, <2>1, <3>2, <3>3
    <2> QED
        BY <2>3, <2>4
<1> QED
    BY <1>3, <1>4 DEF Fresh

\* A message is cut into frames.
LEMMA FramingSend ==
    ASSUME FramingInvariant, NEW count \in FrameCounts, NEW len \in {0, 1, 4}, Send(count, len)
    PROVE  FramingInvariant'
<1>1. PICK L, c : Story(L, c)
    BY DEF FramingInvariant
<1>2. /\ L.stream = arrived \o wire /\ L.sent = sent /\ Laid(L)
      /\ Cardinality(Hits(L)) <= damage /\ Stops(arrived, c, buffer)
      /\ Sound(L, causes, c, assemblies, delivered)
      /\ arrived \in Seq(Elements) /\ wire \in Seq(Elements)
    BY <1>1 DEF Story, FramingInvariant
<1> PICK id : id = nextMessageId
    OBVIOUS
<1> PICK m : m = Len(sent) + 1
    OBVIOUS
<1>3. id \in MessageIds /\ sent \in Seq(FrameCounts) /\ Len(sent) \in Nat /\ m \in Nat
      /\ count \in Nat \ {0}
    BY FramingAssumption DEF FramingInvariant
<1> DEFINE F == NewFrames(m, id, count, len)
           P == NewParts(m, id, count, len)
<1>4. /\ Len(sent) < MaxMessages /\ sent' = Append(sent, count)
      /\ buffer' = buffer /\ assemblies' = assemblies /\ delivered' = delivered
      /\ arrived' = arrived /\ frames' = frames /\ damage' = damage
    BY DEF Send
<1>5. nextMessageId' \in MessageIds
    BY <1>3, SuccessorIs DEF Send
<1>6. causes' = IF InUse(id) THEN causes \cup {"reused"} ELSE causes
    BY DEF Send
<1>7. wire' = wire \o FlattenSeq(P)
    BY Zenon DEF Send, NewParts
<1>8. TheFrames(F, P, m, id, count, len)
    BY <1>3, NewFramesAre, Zenon
<1>9. P \in [1..count -> Seq(Elements)]
    <2> HIDE DEF F, P
    <2> QED
        BY <1>8, Zenon DEF TheFrames
<1>10. Chained(Elements, P, count)
    <2> HIDE DEF P
    <2> QED
        BY <1>3, <1>9, Flattened
<1>11. PICK flat : Chain(Elements, P, flat, count) /\ flat[count] = FlattenSeq(P)
    <2> HIDE DEF P
    <2> QED
        BY <1>10, Zenon DEF Chained
<1> DEFINE K == Told(L, count, F, flat)
<1>12. Continues(L, K, id, count)
    <2>1. Laid(L) /\ m = Len(L.sent) + 1
        BY <1>2
    <2> QED
        BY <1>3, <1>11, <2>1, ToldContinues
<1>13. K.sent = sent' /\ K.stream = L.stream \o flat[count]
    BY <1>2, <1>4 DEF Told
<1> HIDE DEF K, F, P
<1>14. flat[count] \in Seq(Elements)
    BY <1>3, <1>11 DEF Chain
<1>15. wire' = wire \o flat[count]
    BY <1>7, <1>11 DEF P
<1>16. K.stream = arrived \o wire' /\ wire' \in Seq(Elements)
    <2> DEFINE t == flat[count]
    <2>1. t \in Seq(Elements)
        BY <1>14
    <2> HIDE DEF t
    <2>2. (arrived \o wire) \o t = arrived \o (wire \o t)
        BY <1>2, <2>1, ConcatAssociative
    <2>3. wire \o t \in Seq(Elements)
        BY <1>2, <2>1, Joined
    <2> DEFINE a == arrived \o wire
               w == wire \o t
    <2> HIDE DEF a, w
    <2>4. K.stream = a \o t /\ wire' = w
        BY <1>2, <1>13, <1>15 DEF a, t, w
    <2>5. a \o t = arrived \o w /\ w \in Seq(Elements)
        BY <2>2, <2>3 DEF a, w
    <2> QED
        BY <2>4, <2>5, Zenon
<1>17. causes \subseteq causes' /\ ("reused" \notin causes' => ~InUse(id))
    BY <1>6
<1>18. "reused" \notin causes' => Fresh(L, c, assemblies, id)
    BY <1>2, <1>3, <1>17, NotInUse
<1>19. Sound(K, causes', c, assemblies, delivered)
    <2> DEFINE why2 == causes'
    <2>1. causes \subseteq why2 /\ ("reused" \notin why2 => Fresh(L, c, assemblies, id))
        BY <1>17, <1>18
    <2> HIDE DEF why2
    <2>2. Sound(K, why2, c, assemblies, delivered)
        BY <1>2, <1>3, <1>12, <2>1, ContinuesSound
    <2> QED
        BY <2>2 DEF why2
<1>20. Laid(K) /\ Hits(K) \subseteq Hits(L)
    BY <1>2, <1>3, <1>12, ContinuesLaid, ContinuesHits
<1>21. Cardinality(Hits(K)) <= damage
    <2>1. IsFiniteSet(Hits(L))
        <3>1. Len(L.stream) \in Nat
            BY <1>2, LaidCuts
        <3>2. IsFiniteSet(1..Len(L.stream))
            <4>1. Len(L.stream) \in Int /\ 1 \in Int
                BY <3>1
            <4> QED
                BY <4>1, FS_Interval
        <3>3. Hits(L) \subseteq 1..Len(L.stream)
            BY DEF Hits
        <3> QED
            BY <3>2, <3>3, FS_Subset
    <2>2. Cardinality(Hits(K)) <= Cardinality(Hits(L)) /\ IsFiniteSet(Hits(K))
        BY <1>20, <2>1, FS_Subset
    <2>3. Cardinality(Hits(K)) \in Nat /\ Cardinality(Hits(L)) \in Nat
        BY <2>1, <2>2, FS_CardinalityType
    <2>4. damage \in Nat
        <3>1. damage \in 0..MaxNoise
            BY DEF FramingInvariant
        <3> QED
            BY <3>1
    <2> QED
        BY <1>2, <2>2, <2>3, <2>4
<1> PICK M : M = K
    OBVIOUS
<1>22. Story(M, c)'
    <2>1. Stops(arrived', c, buffer') /\ Sound(M, causes', c, assemblies', delivered')
        BY <1>2, <1>4, <1>19, Zenon
    <2>2. M.stream = arrived' \o wire' /\ M.sent = sent' /\ Laid(M)
        BY <1>4, <1>13, <1>16, <1>20
    <2>3. Cardinality(Hits(M)) <= damage'
        BY <1>4, <1>21
    <2> QED
        BY <2>1, <2>2, <2>3, Zenon DEF Story
<1>23. ChunkingIrrelevant'
    BY <1>4 DEF FramingInvariant, ChunkingIrrelevant
<1>24. sent' \in Seq(FrameCounts) /\ Len(sent') <= MaxMessages
    <2>1. MaxMessages \in Nat
        BY FramingAssumption
    <2>2. Append(sent, count) \in Seq(FrameCounts) /\ Len(Append(sent, count)) = Len(sent) + 1
        BY <1>3
    <2>3. sent' \in Seq(FrameCounts) /\ Len(sent') = Len(sent) + 1
        BY <1>4, <2>2
    <2> QED
        BY <1>3, <1>4, <2>1, <2>3
<1>25. causes' \subseteq Reasons
    BY <1>6 DEF FramingInvariant, Reasons
<1>26. damage' \in 0..MaxNoise /\ arrived' \in Seq(Elements)
    BY <1>2, <1>4 DEF FramingInvariant
<1> QED
    BY <1>5, <1>16, <1>22, <1>23, <1>24, <1>25, <1>26 DEF FramingInvariant

\* Every step keeps the invariant.
LEMMA FramingNext == FramingInvariant /\ [Next]_vars => FramingInvariant'
<1> SUFFICES ASSUME FramingInvariant, [Next]_vars PROVE FramingInvariant'
    OBVIOUS
<1>1. ASSUME NEW count \in FrameCounts, NEW len \in {0, 1, 4}, Send(count, len)
      PROVE  FramingInvariant'
    BY <1>1, FramingSend
<1>2. ASSUME SendTooLong PROVE FramingInvariant'
    BY <1>2, FramingTooLong
<1>3. ASSUME NEW n \in 1..Len(wire), Arrive(n) PROVE FramingInvariant'
    BY <1>3, FramingArrive
<1>4. ASSUME NEW id \in MessageIds, Age(id) PROVE FramingInvariant'
    BY <1>4, FramingAge
<1>5. ASSUME NEW i \in DOMAIN wire, Damage(i) PROVE FramingInvariant'
    BY <1>5, FramingDamage
<1>6. ASSUME UNCHANGED vars PROVE FramingInvariant'
    BY <1>6, FramingStutter
<1> QED
    BY <1>1, <1>2, <1>3, <1>4, <1>5, <1>6, Zenon DEF Next

\* The invariant of the framed connection.
THEOREM FramingInvariance == Spec => []FramingInvariant
<1> QED
    BY FramingInit, FramingNext, PTL DEF Spec

\* The decoder never holds a whole frame.
LEMMA BufferShort ==
    ASSUME NEW b \in Seq(Elements), NEW c, NEW rest, Stops(b, c, rest)
    PROVE  rest \in Seq(Elements) /\ Len(rest) = Len(b) - c /\ Len(rest) < MaxFrameSize
<1> DEFINE i == c + 1
<1>1. /\ c \in 0..Len(b) /\ Len(b) \in Nat /\ c \in Nat
      /\ MaxFrameSize \in Nat /\ MaxFrameSize >= 8
    BY FramingAssumption DEF Stops
<1>2. i \in 1..(Len(b) + 1) /\ i = c + 1
    BY <1>1
<1>3. rest = Rest(b, i) /\ ~NoFrame(b, i) /\ Incomplete(b, i)
    BY DEF Stops
<1> HIDE DEF i
<1>4. rest \in Seq(Elements) /\ Len(rest) = Len(b) - i + 1
    BY <1>2, <1>3, RestIs
<1>5. Len(rest) = Len(b) - c
    BY <1>1, <1>2, <1>4
<1>6. CASE i + 3 > Len(b)
    <2>1. \A x, y, w \in Nat : x + 1 + 3 > y /\ w >= 8 => y - x < w
        OBVIOUS
    <2>2. c + 1 + 3 > Len(b)
        BY <1>2, <1>6
    <2> QED
        BY <1>1, <1>4, <1>5, <2>1, <2>2
<1>7. CASE ~(i + 3 > Len(b))
    <2> DEFINE z == Size(Candidate(b, i))
    <2>1. i + 3 <= Len(b)
        BY <1>1, <1>2, <1>7
    <2>2. b[i + 2].at = "fields" /\ z <= MaxFrameSize
        BY <1>2, <1>3, <2>1, DecoderSees
    <2>3. FrameEnd(b, i) = i + z - 1 /\ z \in Nat
        BY <1>2, <2>1, <2>2, DecoderSees
    <2>4. FrameEnd(b, i) > Len(b)
        BY <1>3, <1>7 DEF Incomplete
    <2> HIDE DEF z
    <2>5. \A x, y, u, w \in Nat : (x + 1) + u - 1 > y /\ u <= w => y - x < w
        OBVIOUS
    <2>6. (c + 1) + z - 1 > Len(b)
        BY <1>2, <2>3, <2>4
    <2> QED
        BY <1>1, <1>4, <1>5, <2>2, <2>3, <2>5, <2>6
<1> QED
    BY <1>4, <1>5, <1>6, <1>7

\* The type invariant follows from it.
LEMMA FramingTypes == FramingInvariant => TypeOK
<1> SUFFICES ASSUME FramingInvariant PROVE TypeOK
    OBVIOUS
<1>1. PICK L, c : Story(L, c)
    BY DEF FramingInvariant
<1>2. /\ L.sent = sent /\ Stops(arrived, c, buffer) /\ arrived \in Seq(Elements)
      /\ AssembliesOk(Len(sent), assemblies) /\ DeliveredOk(Len(sent), delivered)
    BY <1>1 DEF Story, Sound, FramingInvariant
<1>3. /\ Len(sent) \in Nat /\ MaxMessages \in Nat /\ Len(sent) <= MaxMessages
    BY FramingAssumption DEF FramingInvariant
<1>4. Len(buffer) < MaxFrameSize
    BY <1>2, BufferShort
<1>5. ASSUME NEW id \in Pending(assemblies)
      PROVE  LET a == assemblies[id] IN
             /\ a.count \in FrameCounts \ {1}
             /\ a.parts \in [1..a.count -> Fragment]
             /\ a.size = Cardinality({i \in 1..a.count : a.parts[i] # -1})
             /\ a.size \in 1..MaxMessageSize /\ a.size < a.count
    <2> DEFINE a == assemblies[id]
    <2>1. AssemblyOk(Len(sent), a)
        BY <1>2 DEF AssembliesOk
    <2> HIDE DEF a
    <2>2. a.parts \in [1..a.count -> {-1} \cup 1..Len(sent)]
        BY <2>1 DEF AssemblyOk
    <2>3. {-1} \cup 1..Len(sent) \subseteq Fragment
        BY <1>3 DEF Fragment
    <2>4. a.parts \in [1..a.count -> Fragment]
        BY <2>2, <2>3
    <2>5. /\ a.count \in FrameCounts \ {1}
          /\ a.size = Cardinality({i \in 1..a.count : a.parts[i] # -1})
          /\ a.size \in 1..MaxMessageSize /\ a.size < a.count
        BY <2>1, Zenon DEF AssemblyOk
    <2> QED
        BY <2>4, <2>5, Zenon DEF a
<1>6. Cardinality(Pending(assemblies)) <= MaxAssemblies
    BY <1>2 DEF AssembliesOk
<1>7. ASSUME NEW k \in 1..Len(delivered)
      PROVE  delivered[k] \in [1..Len(delivered[k]) -> 0..MaxMessages]
    <2> DEFINE e == delivered[k]
    <2>1. delivered \in Seq(Seq(Nat)) /\ k \in DOMAIN delivered
          /\ \A i \in DOMAIN e : e[i] <= Len(sent)
        BY <1>2 DEF DeliveredOk
    <2>2. e \in Seq(Nat)
        BY <2>1
    <2> HIDE DEF e
    <2>3. e \in [1..Len(e) -> Nat] /\ DOMAIN e = 1..Len(e)
        BY <2>2
    <2>4. \A i \in 1..Len(e) : e[i] \in 0..MaxMessages
        <3> TAKE i \in 1..Len(e)
        <3>1. e[i] \in Nat /\ e[i] <= Len(sent)
            BY <2>1, <2>3
        <3> QED
            BY <1>3, <3>1
    <2>5. e \in [1..Len(e) -> 0..MaxMessages]
        BY <2>3, <2>4
    <2> QED
        BY <2>5 DEF e
<1>8. /\ sent \in Seq(FrameCounts) /\ Len(sent) <= MaxMessages
      /\ nextMessageId \in MessageIds /\ damage \in 0..MaxNoise
      /\ causes \subseteq {"reused", "expired", "refused"}
    BY DEF FramingInvariant, Reasons
<1>9. \A id \in Pending(assemblies) :
          LET a == assemblies[id] IN
          /\ a.count \in FrameCounts \ {1}
          /\ a.parts \in [1..a.count -> Fragment]
          /\ a.size = Cardinality({i \in 1..a.count : a.parts[i] # -1})
          /\ a.size \in 1..MaxMessageSize /\ a.size < a.count
    BY <1>5, Zenon
<1>10. \A k \in 1..Len(delivered) : delivered[k] \in [1..Len(delivered[k]) -> 0..MaxMessages]
    BY <1>7
<1> QED
    BY <1>4, <1>6, <1>8, <1>9, <1>10, Zenon DEF TypeOK

\* A buffer is shorter than a frame, an assembly holds what it counts and
\* lacks a part, and there are never more of them than may be pending.
THEOREM FramingTypeCorrect == Spec => []TypeOK
<1> QED
    BY FramingInvariance, FramingTypes, PTL

\* The decoder finds the same frames however the stream is cut into pieces.
THEOREM ChunkingNeverMatters == Spec => []ChunkingIrrelevant
<1>1. FramingInvariant => ChunkingIrrelevant
    BY DEF FramingInvariant
<1> QED
    BY <1>1, FramingInvariance, PTL

\* A frame that is not whole has been hit.
LEMMA NotWhole ==
    ASSUME NEW L, Laid(L), NEW k \in Count(L), ~Whole(L, k)
    PROVE  \E p \in Hits(L) : L.cut[k - 1] < p /\ p <= L.cut[k]
<1> DEFINE f == L.frames[k]
           b == L.cut[k - 1]
<1>1. /\ b \in Nat /\ L.cut[k] \in Nat /\ L.cut[k] = b + Size(f) /\ Size(f) \in 4..8
      /\ k \in 0..Len(L.frames)
    BY LaidFrame
<1>2. L.cut[k] <= Len(L.stream) /\ Len(L.stream) \in Nat
    <2>1. L.cut[k] \in 0..Len(L.stream) /\ Len(L.stream) \in Nat
        BY <1>1, LaidCuts
    <2> QED
        BY <2>1
<1> HIDE DEF f, b
<1>3. b + 1 + Size(f) - 1 <= Len(L.stream)
    <2> DEFINE z == Size(f)
    <2> HIDE DEF z
    <2>1. z \in 4..8 /\ b + z <= Len(L.stream)
        BY <1>1, <1>2 DEF z
    <2>2. b + 1 + z - 1 = b + z
        BY <1>1, <2>1
    <2> QED
        BY <2>1, <2>2 DEF z
<1>4. PICK x \in 1..Size(f) : L.stream[b + 1 + x - 1] # Encode(f)[x]
    BY <1>3 DEF Whole, Intact, f, b
<1> PICK p : p = b + x
    OBVIOUS
<1>5. p = b + 1 + x - 1 /\ p \in 1..Len(L.stream) /\ b < p /\ p <= L.cut[k]
    <2> DEFINE z == Size(f)
    <2> HIDE DEF z
    <2>1. z \in 4..8 /\ x \in 1..z /\ L.cut[k] = b + z
        BY <1>1 DEF z
    <2> QED
        BY <1>1, <1>2, <2>1
<1>6. p \in Hits(L)
    BY <1>4, <1>5 DEF Hits, f, b
<1> QED
    BY <1>5, <1>6 DEF b

\* There are finitely many hits.
LEMMA HitsFinite ==
    ASSUME NEW L, Laid(L)
    PROVE  IsFiniteSet(Hits(L)) /\ Cardinality(Hits(L)) \in Nat
<1>1. Len(L.stream) \in Nat
    BY LaidCuts
<1>2. Len(L.stream) \in Int /\ 1 \in Int
    BY <1>1
<1>3. IsFiniteSet(1..Len(L.stream))
    BY <1>2, FS_Interval
<1>4. Hits(L) \subseteq 1..Len(L.stream)
    BY DEF Hits
<1>5. IsFiniteSet(Hits(L))
    BY <1>3, <1>4, FS_Subset
<1> QED
    BY <1>5, FS_CardinalityType

\* Without damage every frame is whole.
LEMMA NoHits ==
    ASSUME NEW L, Laid(L), Cardinality(Hits(L)) <= 0
    PROVE  AllWhole(L)
<1>1. Cardinality(Hits(L)) = 0
    BY HitsFinite
<1>2. Hits(L) = {}
    BY <1>1, HitsFinite, FS_EmptySet
<1> QED
    BY <1>2, NotWhole DEF AllWhole

\* What is handed on follows from the invariant.
LEMMA FramingDelivers == FramingInvariant => DeliversSent
<1> SUFFICES ASSUME FramingInvariant PROVE DeliversSent
    OBVIOUS
<1>1. PICK L, c : Story(L, c)
    BY DEF FramingInvariant
<1>2. /\ L.sent = sent /\ Laid(L) /\ Cardinality(Hits(L)) <= damage
      /\ NoInner(L, delivered)
      /\ "reused" \notin causes => HandedOn(L, c, delivered)
      /\ damage \in 0..MaxNoise
    BY <1>1 DEF Story, Sound, Unreused, FramingInvariant
<1>3. ASSUME "reused" \notin causes
      PROVE  /\ \A k \in Messages :
                   \E m \in DOMAIN sent : delivered[k] = [i \in 1..sent[m] |-> m]
             /\ \A j, k \in Messages : j < k => delivered[j][1] < delivered[k][1]
    <2>1. /\ \A k \in DOMAIN delivered :
                delivered[k][1] # 0 => Entire(L, delivered[k], delivered[k][1])
          /\ \A j, k \in DOMAIN delivered :
                j < k /\ delivered[j][1] # 0 /\ delivered[k][1] # 0 =>
                    delivered[j][1] < delivered[k][1]
        BY <1>2, <1>3 DEF HandedOn
    <2>2. \A k \in Messages : k \in DOMAIN delivered /\ delivered[k][1] # 0
        BY DEF Messages
    <2>3. ASSUME NEW k \in Messages
          PROVE  \E m \in DOMAIN sent : delivered[k] = [i \in 1..sent[m] |-> m]
        <3>1. Entire(L, delivered[k], delivered[k][1])
            BY <2>1, <2>2
        <3> DEFINE m == delivered[k][1]
        <3>2. m \in DOMAIN sent /\ delivered[k] = [i \in 1..sent[m] |-> m]
            BY <1>2, <3>1 DEF Entire
        <3> HIDE DEF m
        <3> QED
            BY <3>2
    <2> QED
        BY <2>1, <2>2, <2>3
<1>4. ASSUME damage = 0 PROVE Messages = DOMAIN delivered
    <2>1. AllWhole(L)
        BY <1>2, <1>4, NoHits
    <2> QED
        BY <1>2, <2>1 DEF NoInner, Messages
<1> QED
    BY <1>3, <1>4 DEF DeliversSent

\* A message of which every frame is kept would be complete, so there is none.
LEMMA PartsAreAll ==
    ASSUME NEW L, Laid(L), NEW A, AssembliesOk(Len(L.sent), A), NEW m \in DOMAIN L.sent,
           \A k \in Count(L) : L.frames[k].msg = m => StillHeld(L, A, k)
    PROVE  FALSE
<1> DEFINE n == L.sent[m]
<1>1. L.sent \in Seq(FrameCounts) /\ m \in 1..Len(L.sent) /\ Len(L.sent) \in Nat
    BY DEF Laid
<1>2. n \in FrameCounts /\ n \in Nat \ {0} /\ m \in Nat /\ m >= 1
    <2>1. n \in FrameCounts
        BY <1>1
    <2> HIDE DEF n
    <2>2. n \in Nat \ {0}
        BY <2>1, FramingAssumption
    <2>3. m \in Nat /\ m >= 1
        BY <1>1
    <2> QED
        BY <2>1, <2>2, <2>3
<1> HIDE DEF n
<1>3. \A i \in 0..(n - 1) : \E k \in Count(L) : L.frames[k].msg = m /\ L.frames[k].index = i
    BY DEF Laid, n
<1>4. 0 \in 0..(n - 1)
    BY <1>2
<1>5. PICK z \in Count(L) : L.frames[z].msg = m /\ L.frames[z].index = 0
    BY <1>3, <1>4
<1> DEFINE id == L.frames[z].id
           a == A[id]
<1>6. id \in MessageIds /\ L.frames[z].count = n
    BY <1>5, LaidFrame DEF n
<1>7. StillHeld(L, A, z)
    BY <1>5
<1>8. a # NoAssembly /\ a.count = n
    BY <1>6, <1>7 DEF StillHeld
<1>9. AssemblyOk(Len(L.sent), a)
    BY <1>6, <1>8 DEF AssembliesOk, Pending
<1> HIDE DEF id, a
<1>10. ASSUME NEW i \in 1..n PROVE a.parts[i] = m
    <2>1. i - 1 \in 0..(n - 1) /\ (i - 1) + 1 = i
        BY <1>2
    <2>2. PICK k \in Count(L) : L.frames[k].msg = m /\ L.frames[k].index = i - 1
        BY <1>3, <2>1
    <2>3. StillHeld(L, A, k)
        BY <2>2
    <2>4. L.frames[k].id = id
        BY <1>5, <2>2, LaidOrder DEF id
    <2>5. a.parts[L.frames[k].index + 1] = m
        BY <2>2, <2>3, <2>4 DEF StillHeld, a
    <2> QED
        BY <2>1, <2>2, <2>5
<1>11. {i \in 1..a.count : a.parts[i] # -1} = 1..n
    <2>1. \A i \in 1..n : a.parts[i] # -1
        BY <1>2, <1>10
    <2> QED
        BY <1>8, <2>1
<1>12. a.size = Cardinality(1..n)
    <2>1. a.size = Cardinality({i \in 1..a.count : a.parts[i] # -1})
        BY <1>9 DEF AssemblyOk
    <2> QED
        BY <1>11, <2>1
<1>13. Cardinality(1..n) = n
    <2>1. 1 \in Int /\ n \in Int /\ n - 1 + 1 = n /\ ~(1 > n)
        BY <1>2
    <2>2. Cardinality(1..n) = IF 1 > n THEN 0 ELSE n - 1 + 1
        BY <2>1, FS_Interval
    <2> QED
        BY <2>1, <2>2
<1>14. a.size < a.count
    BY <1>9 DEF AssemblyOk
<1> QED
    BY <1>2, <1>8, <1>12, <1>13, <1>14

\* Once all has been read the decoder has come to the end, but for damage.
LEMMA AllRead ==
    ASSUME NEW L, Laid(L), NEW c, NEW rest, Stops(L.stream, c, rest), Outside(L, c),
           rest = <<>> \/ AllWhole(L)
    PROVE  c = Len(L.stream)
<1>1. L.stream \in Seq(Elements) /\ Len(L.stream) \in Nat
    BY LaidCuts DEF Laid
<1>2. c \in 0..Len(L.stream) /\ Len(rest) = Len(L.stream) - c
    BY <1>1, BufferShort DEF Stops
<1>3. CASE rest = <<>>
    BY <1>1, <1>2, <1>3
<1>4. CASE AllWhole(L)
    <2> SUFFICES ASSUME c # Len(L.stream) PROVE FALSE
        OBVIOUS
    <2> PICK p : p = c + 1
        OBVIOUS
    <2>1. p \in 1..Len(L.stream)
        BY <1>1, <1>2
    <2>2. PICK k \in Count(L) : L.cut[k - 1] < p /\ p <= L.cut[k]
        BY <2>1, LaidPlaces
    <2>3. Whole(L, k)
        BY <1>4 DEF AllWhole
    <2>4. c <= L.cut[k - 1] \/ L.cut[k] <= c
        BY <2>3 DEF Outside
    <2>5. L.cut[k] \in Nat /\ L.cut[k - 1] \in Nat
        BY LaidFrame
    <2>6. c = L.cut[k - 1]
        BY <1>2, <2>2, <2>4, <2>5
    <2>7. ~Incomplete(L.stream, L.cut[k - 1] + 1)
        BY <2>3, WholeSeen
    <2>8. Incomplete(L.stream, c + 1)
        BY DEF Stops
    <2> QED
        BY <2>6, <2>7, <2>8
<1> QED
    BY <1>3, <1>4

\* A message that is due and was not handed on has a frame that was hit.
LEMMA LostIsHit ==
    ASSUME NEW L, Laid(L), NEW A, AssembliesOk(Len(L.sent), A), NEW D,
           Accounted(L, Len(L.stream), A, D),
           NEW m \in DOMAIN L.sent, Due(L.sent, m), ~Gone(D, m)
    PROVE  \E p \in Hits(L) : \E k \in Count(L) :
              L.frames[k].msg = m /\ L.cut[k - 1] < p /\ p <= L.cut[k]
<1>1. PICK k \in Count(L) : L.frames[k].msg = m /\ ~StillHeld(L, A, k)
    BY PartsAreAll
<1>2. L.cut[k] <= Len(L.stream)
    <2>1. k \in 0..Len(L.frames)
        BY LaidFrame
    <2>2. L.cut[k] \in 0..Len(L.stream) /\ Len(L.stream) \in Nat
        BY <2>1, LaidCuts
    <2> QED
        BY <2>2
<1>3. ~Whole(L, k)
    BY <1>1, <1>2 DEF Accounted
<1> QED
    BY <1>1, <1>3, NotWhole

\* A hit falls on one frame, so that it costs no two messages.
LEMMA LossesBounded ==
    ASSUME NEW L, Laid(L), NEW A, AssembliesOk(Len(L.sent), A), NEW D,
           Accounted(L, Len(L.stream), A, D),
           NEW lost \in SUBSET DOMAIN L.sent, \A m \in lost : Due(L.sent, m) /\ ~Gone(D, m)
    PROVE  IsFiniteSet(lost) /\ Cardinality(lost) <= Cardinality(Hits(L))
<1> DEFINE Costs(p, m) ==
        \E k \in Count(L) : L.frames[k].msg = m /\ L.cut[k - 1] < p /\ p <= L.cut[k]
<1>1. \A m \in lost : \E p \in Hits(L) : Costs(p, m)
    <2> HIDE DEF Costs
    <2> TAKE m \in lost
    <2>1. m \in DOMAIN L.sent /\ Due(L.sent, m) /\ ~Gone(D, m)
        OBVIOUS
    <2>2. PICK p \in Hits(L) : \E k \in Count(L) :
              L.frames[k].msg = m /\ L.cut[k - 1] < p /\ p <= L.cut[k]
        BY <2>1, LostIsHit
    <2> QED
        BY <2>2, Zenon DEF Costs
<1>2. ASSUME NEW p \in Hits(L), NEW m \in lost, NEW n \in lost, Costs(p, m), Costs(p, n)
      PROVE  m = n
    <2>1. p \in 1..Len(L.stream)
        BY DEF Hits
    <2>2. PICK j \in Count(L) : L.frames[j].msg = m /\ L.cut[j - 1] < p /\ p <= L.cut[j]
        BY <1>2
    <2>3. PICK k \in Count(L) : L.frames[k].msg = n /\ L.cut[k - 1] < p /\ p <= L.cut[k]
        BY <1>2
    <2>4. j = k
        <3>1. PICK q \in Count(L) : \A i \in Count(L) : L.cut[i - 1] < p /\ p <= L.cut[i] => i = q
            BY <2>1, LaidPlaces
        <3> QED
            BY <2>2, <2>3, <3>1
    <2> QED
        BY <2>2, <2>3, <2>4
<1> DEFINE hit == [m \in lost |-> CHOOSE p \in Hits(L) : Costs(p, m)]
<1> HIDE DEF Costs
<1>3. \A m \in lost : hit[m] \in Hits(L) /\ Costs(hit[m], m)
    BY <1>1
<1>4. hit \in [lost -> Hits(L)]
    BY <1>3
<1> HIDE DEF hit
<1>5. \A m, n \in lost : hit[m] = hit[n] => m = n
    BY <1>2, <1>3
<1>6. hit \in Injection(lost, Hits(L))
    BY <1>4, <1>5 DEF Injection, IsInjective
<1> QED
    BY <1>6, HitsFinite, FS_Injection

\* What damage costs follows from the invariant.
LEMMA FramingLosesLittle == FramingInvariant => NothingLost
<1> SUFFICES ASSUME FramingInvariant, wire = <<>>, causes = {}, damage = 0 \/ buffer = <<>>
             PROVE  LET due == {m \in DOMAIN sent : sent[m] = 1 \/ sent[m] <= MaxMessageSize}
                    IN Cardinality(due \ {delivered[k][1] : k \in Messages}) <= damage
    BY DEF NothingLost
<1>1. PICK L, c : Story(L, c)
    BY DEF FramingInvariant
<1>2. /\ L.stream = arrived \o wire /\ L.sent = sent /\ Laid(L)
      /\ Cardinality(Hits(L)) <= damage /\ Stops(arrived, c, buffer)
      /\ Outside(L, c) /\ AssembliesOk(Len(L.sent), assemblies)
      /\ Accounted(L, c, assemblies, delivered)
    BY <1>1, Zenon DEF Story, Sound
<1>3. L.stream = arrived
    <2>1. arrived \in Seq(Elements) /\ L.stream = arrived \o <<>>
        BY <1>2 DEF FramingInvariant
    <2> QED
        BY <2>1
<1>4. buffer = <<>> \/ AllWhole(L)
    BY <1>2, NoHits
<1>5. Stops(L.stream, c, buffer)
    BY <1>2, <1>3
<1>6. c = Len(L.stream)
    BY <1>2, <1>4, <1>5, AllRead
<1>7. Accounted(L, Len(L.stream), assemblies, delivered)
    BY <1>2, <1>6
<1> DEFINE due == {m \in DOMAIN sent : sent[m] = 1 \/ sent[m] <= MaxMessageSize}
           lost == due \ {delivered[k][1] : k \in Messages}
<1>8. lost \in SUBSET DOMAIN L.sent
    BY <1>2
<1>9. ASSUME NEW m \in lost PROVE Due(L.sent, m) /\ ~Gone(delivered, m)
    <2>1. m \in DOMAIN sent /\ Due(L.sent, m)
        BY <1>2 DEF Due
    <2>2. m # 0
        <3>1. sent \in Seq(FrameCounts)
            BY DEF FramingInvariant
        <3>2. m \in 1..Len(sent)
            BY <2>1, <3>1
        <3> QED
            BY <3>2
    <2>3. ASSUME NEW k \in DOMAIN delivered, delivered[k][1] = m PROVE FALSE
        <3>1. k \in Messages
            BY <2>2, <2>3 DEF Messages
        <3> QED
            BY <2>3, <3>1
    <2> QED
        BY <2>1, <2>3 DEF Gone
<1> HIDE DEF lost
<1>10. IsFiniteSet(lost) /\ Cardinality(lost) <= Cardinality(Hits(L))
    BY <1>2, <1>7, <1>8, <1>9, LossesBounded
<1>11. Cardinality(lost) \in Nat /\ Cardinality(Hits(L)) \in Nat /\ damage \in Nat
    BY <1>2, <1>10, HitsFinite, FS_CardinalityType, FramingAssumption
       DEF FramingInvariant
<1>12. Cardinality(lost) <= damage
    BY <1>2, <1>10, <1>11
<1> QED
    BY <1>12 DEF lost

\* Messages get through whole, once and in order, or not at all, and each
\* element damaged costs at most one of them.
THEOREM MessagesAlwaysArrive == Spec => []MessagesArrive
<1>1. FramingInvariant => MessagesArrive
    BY FramingDelivers, FramingLosesLittle DEF MessagesArrive
<1> QED
    BY <1>1, FramingInvariance, PTL
=============================================================================
