--------------------------- MODULE SessionProofs ----------------------------
(***************************************************************************)
(* What two cores and their endpoints may rely on, for all limits, seeds,  *)
(* heartbeat intervals and logical roles, and however much is sent.        *)
(*                                                                         *)
(* PeersAgree speaks of the two ends at one moment, but they are never     *)
(* changed together: what the one knows of the other is on the wire.  The  *)
(* invariant therefore says what every message on its way is worth         *)
(* (Truthful), in which order they come (InTurn), and what holds between   *)
(* the ends while a message is missing (Linked, Joined): an OPEN finds a   *)
(* closed link, an Identify a core that has no session yet, a request a    *)
(* gate open for its sid.  The second half is about the core and its own   *)
(* endpoint: what a CoreEvent is worth (Told), what the endpoint has not   *)
(* learnt yet (Life), and where the numbers sent are (InStep).             *)
(*                                                                         *)
(* Steps brings every step into a form without the branches the invariant  *)
(* rules out: no refused Identified, no message beyond the limit but OPEN  *)
(* and ACCEPT, no request that finds the gate closed.  Each part of the    *)
(* invariant is then kept step by step (TypeKept ... StepKept).            *)
(***************************************************************************)
EXTENDS Session, TLAPS

\* m is one of the messages of s.
In(m, s) == \E k \in DOMAIN s : s[k] = m

\* s holds a message of this kind.
Has(s, kind) == \E k \in DOMAIN s : s[k].kind = kind

\* The order in which a peer sends, and in which its peer's core tells its
\* endpoint: all but the last kinds come once.
Rank(kind) ==
    IF kind \in {"open", "accept", "linkReady", "linkOpenRejected"} THEN 1
    ELSE IF kind = "hello" THEN 2
    ELSE IF kind = "identify" THEN 3
    ELSE IF kind \in {"identified", "handshakeReady", "handshakeError"} THEN 4
    ELSE 5

\* One message or CoreEvent comes before the other.
Before(j, k) == Rank(j) < Rank(k) \/ (Rank(j) = 5 /\ Rank(k) = 5)

\* A wire, or a queue of CoreEvents, in that order.
Sorted(s) == \A i, j \in DOMAIN s : i < j => Before(s[i].kind, s[j].kind)

\* The limit both ends of a framed link agree on.
AgreedSize == Min(config.size["server"], UInt16(config.size["client"]))

\* What a message on its way to p says about the two peers.
Truthful(p, m) ==
    /\ m.kind = "open" =>
          /\ p = "server" /\ config.framed /\ opening["client"]
          /\ gate["server"] = "LINK_CONNECTED"
          /\ m.len <= ControlFrame
          /\ m.size = UInt16(config.size["client"])
          /\ m.interval = config.interval["client"]
    /\ m.kind = "accept" =>
          /\ p = "client" /\ config.framed /\ opening["client"]
          /\ gate["client"] = "LINK_CONNECTED"
          /\ m.len = Min(ControlFrame, config.size["server"])
          /\ m.ok <=> gate["server"] # "LINK_CONNECTED"
          /\ m.ok => m.size = AgreedSize
          /\ m.interval = config.interval["client"]
    /\ m.kind = "hello" =>
          config.logical[Other(p)] = "server" /\ gate[Other(p)] = "FRAMING_READY"
    /\ m.kind = "identify" =>
          /\ config.logical[Other(p)] = "client" /\ config.logical[p] = "server"
          /\ gate[p] = "FRAMING_READY"
    /\ m.kind = "identified" =>
          /\ config.logical[Other(p)] = "server" /\ config.logical[p] = "client"
          /\ gate[Other(p)] = "APP_READY" /\ m.sid = sid[Other(p)]
          /\ gate[p] # "APP_READY"
    /\ m.kind \in Business => gate[Other(p)] = "APP_READY" /\ m.sid = sid[Other(p)]
    /\ m.kind \notin {"open", "accept"} =>
          /\ m.len = RpcLen(Other(p))
          /\ config.framed =>
                frameSize[Other(p)] = AgreedSize /\ gate["server"] # "LINK_CONNECTED"

\* Every message on its way is true of the peers that exchange it.
MessagesOK == \A p \in Peers, m \in Message : In(m, wire[p]) => Truthful(p, m)

\* The wires and the queues are in order; the two ends take turns at opening
\* and at the handshake; who speaks is heard by a peer whose gate is open, or
\* will be once it has taken the grant in front of it.
InTurn ==
    \A p \in Peers :
        /\ Sorted(wire[p]) /\ Sorted(events[p])
        /\ ~(Has(wire[p], "open") /\ Has(wire[Other(p)], "accept"))
        /\ ~(Has(wire[p], "hello") /\ Has(wire[Other(p)], "identify"))
        /\ \A kind \in Business : Has(wire[p], kind) =>
              gate[p] = "APP_READY" \/ Has(wire[p], "identified")

\* The limits: each end its own until its link is open, then the agreed one,
\* the server first.  While the server has opened a framed link and the client
\* has not, ACCEPT is on its way, or was dropped as too large for the client,
\* or is lost with the connection.
Linked ==
    /\ \A p \in Peers :
          /\ gate[p] = "LINK_CONNECTED" => frameSize[p] = config.size[p]
          /\ ~config.framed =>
                frameSize[p] = config.size[p]
                /\ (lifecycle[p] # "idle" => gate[p] # "LINK_CONNECTED")
    /\ config.framed =>
          /\ \A p \in Peers : gate[p] # "LINK_CONNECTED" => frameSize[p] = AgreedSize
          /\ gate["server"] = "LINK_CONNECTED" => gate["client"] = "LINK_CONNECTED"
          /\ gate["server"] # "LINK_CONNECTED" =>
                /\ lifecycle["client"] # "idle"
                /\ \/ gate["client"] # "LINK_CONNECTED"
                   \/ Has(wire["client"], "accept")
                   \/ ~Roomy /\ config.size["client"] = AgreedSize
                   \/ wire["client"] = <<>> /\ ~up

\* The session: the end of the logical role server enters it first, and the
\* other, of the opposite role, enters it with the same sid.
Joined ==
    \A p \in Peers : gate[p] = "APP_READY" =>
        /\ config.logical[p] # config.logical[Other(p)]
        /\ sid[p] \notin {NoSid, {}}
        /\ config.logical[p] = "client" =>
              gate[Other(p)] = "APP_READY" /\ sid[Other(p)] = sid[p]
        /\ up => gate[Other(p)] = "APP_READY" \/ Has(wire[Other(p)], "identified")

\* What a CoreEvent of p says; handshakeError is never told, as no granted
\* sid is empty.
Told(p, e) ==
    /\ e.kind = "linkReady" =>
          /\ gate[p] # "LINK_CONNECTED" /\ e.interval # 0
          /\ config.framed => e.interval = config.interval["client"]
    /\ e.kind \in {"handshakeReady", "request", "event"} => gate[p] = "APP_READY"
    /\ e.kind # "handshakeError"
    /\ e.kind = "linkOpenRejected" =>
          p = "client" /\ config.framed /\ gate["server"] = "LINK_CONNECTED" /\ ~opening["client"]

\* Every CoreEvent waiting is true of the core that told it.
EventsOK == \A p \in Peers, e \in CoreEvent : In(e, events[p]) => Told(p, e)

\* The endpoint of p follows its core: what it has not learnt yet, a ready
\* core or an open link, waits in its CoreEvents.
Life(p) ==
    /\ lifecycle[p] = "idle" =>
          gate[p] = "LINK_CONNECTED" /\ ~opening[p] /\ events[p] = <<>>
    /\ lifecycle[p] = "ready" => gate[p] = "APP_READY"
    /\ lifecycle[p] = "closed" => ~up /\ wire[p] = <<>> /\ events[p] = <<>>
    /\ handling[p] # {} => gate[p] = "APP_READY"
    /\ Alive(p) /\ gate[p] = "APP_READY" =>
          lifecycle[p] = "ready" \/ Has(events[p], "handshakeReady")
    /\ Roomy /\ Alive(p) /\ gate[p] # "LINK_CONNECTED" =>
          beat[p] # 0 \/ Has(events[p], "linkReady")
    /\ config.framed => beat[p] \in {0, config.interval["client"]}

\* So do both.
Lives == \A p \in Peers : Life(p)

\* A message or CoreEvent that counts.
Numbered(x) == x.kind \in {"request", "event"}

\* A queue carries the numbers after lo, up to hi, in order.
Carries(s, lo, hi) ==
    /\ \A k \in DOMAIN s : Numbered(s[k]) => s[k].n \in (lo + 1)..hi
    /\ \A n \in (lo + 1)..hi : \E k \in DOMAIN s : Numbered(s[k]) /\ s[k].n = n
    /\ \A k, l \in DOMAIN s :
          k < l /\ Numbered(s[k]) /\ Numbered(s[l]) => s[k].n < s[l].n

\* p has taken the numbers up to got, those up to mid wait in its CoreEvents
\* and those up to hi on its wire; where the connection is up, that is all
\* its peer sent.
UnderWay(p, mid, hi) ==
    /\ got[p] <= mid /\ mid <= hi /\ hi <= sent[Other(p)]
    /\ Carries(events[p], got[p], mid)
    /\ Carries(wire[p], mid, hi)
    /\ up => hi = sent[Other(p)]

\* Both ends are in step with what the other sends.
InStep == \A p \in Peers : \E mid, hi \in Nat : UnderWay(p, mid, hi)

\* The inductive invariant.
SessionInv ==
    /\ TypeOK
    /\ MessagesOK
    /\ InTurn
    /\ Linked
    /\ Joined
    /\ EventsOK
    /\ Lives
    /\ InStep

-----------------------------------------------------------------------------
(* Queues                                                                  *)

\* Two sequences one after the other, position by position.
LEMMA Concatenated ==
    ASSUME NEW S, NEW s \in Seq(S), NEW u \in Seq(S)
    PROVE  /\ s \o u \in Seq(S)
           /\ DOMAIN s = 1..Len(s) /\ Len(s) \in Nat
           /\ DOMAIN u = 1..Len(u) /\ Len(u) \in Nat
           /\ DOMAIN (s \o u) = 1..(Len(s) + Len(u))
           /\ \A k \in DOMAIN s : k \in DOMAIN (s \o u) /\ (s \o u)[k] = s[k]
           /\ \A k \in DOMAIN u :
                 Len(s) + k \in DOMAIN (s \o u) /\ (s \o u)[Len(s) + k] = u[k]
           /\ \A k \in DOMAIN (s \o u) :
                 \/ k \in DOMAIN s
                 \/ k > Len(s) /\ k - Len(s) \in DOMAIN u /\ (s \o u)[k] = u[k - Len(s)]
<1>1. /\ s \o u \in Seq(S) /\ Len(s \o u) = Len(s) + Len(u)
      /\ Len(s) \in Nat /\ Len(u) \in Nat
      /\ DOMAIN s = 1..Len(s) /\ DOMAIN u = 1..Len(u)
    OBVIOUS
<1>2. DOMAIN (s \o u) = 1..(Len(s) + Len(u))
    BY <1>1
<1>3. \A k \in 1..(Len(s) + Len(u)) :
          (s \o u)[k] = IF k <= Len(s) THEN s[k] ELSE u[k - Len(s)]
    OBVIOUS
<1>4. ASSUME NEW k \in DOMAIN s PROVE k \in DOMAIN (s \o u) /\ (s \o u)[k] = s[k]
    BY <1>1, <1>2, <1>3
<1>5. ASSUME NEW k \in DOMAIN u
      PROVE  Len(s) + k \in DOMAIN (s \o u) /\ (s \o u)[Len(s) + k] = u[k]
    <2>1. /\ Len(s) + k \in 1..(Len(s) + Len(u)) /\ ~(Len(s) + k <= Len(s))
          /\ (Len(s) + k) - Len(s) = k
        BY <1>1
    <2> QED
        BY <2>1, <1>2, <1>3
<1>6. ASSUME NEW k \in DOMAIN (s \o u), k \notin DOMAIN s
      PROVE  k > Len(s) /\ k - Len(s) \in DOMAIN u /\ (s \o u)[k] = u[k - Len(s)]
    BY <1>1, <1>2, <1>3, <1>6
<1> QED
    BY <1>1, <1>2, <1>4, <1>5, <1>6

\* The sequence a message is taken from, position by position.
LEMMA Tailed ==
    ASSUME NEW S, NEW s \in Seq(S), s # <<>>
    PROVE  /\ Tail(s) \in Seq(S)
           /\ Head(s) = s[1] /\ 1 \in DOMAIN s /\ Head(s) \in S
           /\ DOMAIN s = 1..Len(s) /\ Len(s) \in Nat /\ Len(s) >= 1
           /\ DOMAIN Tail(s) = 1..(Len(s) - 1)
           /\ \A k \in DOMAIN Tail(s) : k + 1 \in DOMAIN s /\ Tail(s)[k] = s[k + 1]
<1>1. Tail(s) \in Seq(S) /\ DOMAIN s = 1..Len(s) /\ Len(s) \in Nat /\ Len(s) # 0
    OBVIOUS
<1>2. Len(Tail(s)) = Len(s) - 1
    OBVIOUS
<1>3. DOMAIN Tail(s) = 1..(Len(s) - 1)
    BY <1>1, <1>2
<1>4. Head(s) = s[1] /\ 1 \in DOMAIN s
    BY <1>1
<1>5. s[1] \in S
    BY <1>4
<1> QED
    BY <1>1, <1>2, <1>3, <1>4, <1>5

\* A sequence of one message.
LEMMA Singleton ==
    ASSUME NEW S, NEW m \in S
    PROVE  <<m>> \in Seq(S)
OBVIOUS

\* Who is in the sequences of which the model writes one.
LEMMA InLiteral ==
    ASSUME NEW a, NEW b, NEW x
    PROVE  /\ ~In(x, <<>>)
           /\ In(x, <<a>>) <=> x = a
           /\ In(x, <<a, b>>) <=> x = a \/ x = b
BY DEF In

\* A message that is there has its kind there.
LEMMA HasKind ==
    ASSUME NEW s, NEW kind
    PROVE  Has(s, kind) <=> \E x : In(x, s) /\ x.kind = kind
BY DEF In, Has

\* Who is in two sequences one after the other.
LEMMA InConcatenated ==
    ASSUME NEW S, NEW s \in Seq(S), NEW u \in Seq(S), NEW x
    PROVE  In(x, s \o u) <=> In(x, s) \/ In(x, u)
<1> DEFINE t == s \o u
<1>1. /\ \A k \in DOMAIN s : k \in DOMAIN t /\ t[k] = s[k]
      /\ \A k \in DOMAIN u : Len(s) + k \in DOMAIN t /\ t[Len(s) + k] = u[k]
      /\ \A k \in DOMAIN t :
            k \in DOMAIN s \/ (k - Len(s) \in DOMAIN u /\ t[k] = u[k - Len(s)])
    BY Concatenated
<1> HIDE DEF t
<1>2. In(x, t) <=> In(x, s) \/ In(x, u)
    BY <1>1 DEF In
<1> QED
    BY <1>2 DEF t

\* What is taken from a queue was in it, and so is what remains.
LEMMA InTaken ==
    ASSUME NEW S, NEW s \in Seq(S), s # <<>>
    PROVE  /\ In(Head(s), s) /\ Head(s) \in S
           /\ \A x : In(x, s) <=> x = Head(s) \/ In(x, Tail(s))
<1> DEFINE t == Tail(s)
<1>1. /\ Head(s) = s[1] /\ 1 \in DOMAIN s /\ Head(s) \in S
      /\ DOMAIN s = 1..Len(s) /\ Len(s) \in Nat /\ DOMAIN t = 1..(Len(s) - 1)
      /\ \A k \in DOMAIN t : k + 1 \in DOMAIN s /\ t[k] = s[k + 1]
    BY Tailed
<1> HIDE DEF t
<1>2. ASSUME NEW k \in DOMAIN s, k # 1 PROVE k - 1 \in DOMAIN t /\ t[k - 1] = s[k]
    <2>1. k - 1 \in DOMAIN t /\ (k - 1) + 1 = k
        BY <1>1, <1>2
    <2> QED BY <2>1, <1>1
<1>3. ASSUME NEW x PROVE In(x, s) <=> x = Head(s) \/ In(x, t)
    BY <1>1, <1>2 DEF In
<1> QED
    BY <1>1, <1>3 DEF In, t

\* Two sorted queues are sorted one after the other, if all of the first come
\* before the second.
LEMMA SortedConcatenated ==
    ASSUME NEW S, NEW s \in Seq(S), NEW u \in Seq(S), Sorted(s), Sorted(u),
           \A x, y : In(x, s) /\ In(y, u) => Before(x.kind, y.kind)
    PROVE  Sorted(s \o u)
<1> DEFINE t == s \o u
<1>1. /\ DOMAIN s = 1..Len(s) /\ Len(s) \in Nat
      /\ DOMAIN u = 1..Len(u) /\ Len(u) \in Nat
      /\ DOMAIN t = 1..(Len(s) + Len(u))
      /\ \A k \in DOMAIN s : k \in DOMAIN t /\ t[k] = s[k]
      /\ \A k \in DOMAIN t : \/ k \in DOMAIN s
                            \/ /\ k > Len(s) /\ k - Len(s) \in DOMAIN u
                               /\ t[k] = u[k - Len(s)]
    BY Concatenated
<1> HIDE DEF t
<1>2. SUFFICES ASSUME NEW i \in DOMAIN t, NEW j \in DOMAIN t, i < j
               PROVE  Before(t[i].kind, t[j].kind)
    BY DEF Sorted, t
<1>3. CASE j \in DOMAIN s
    <2>1. i \in DOMAIN s
        BY <1>1, <1>2, <1>3
    <2>2. t[i] = s[i] /\ t[j] = s[j]
        BY <2>1, <1>1, <1>3
    <2> QED
        BY <2>1, <2>2, <1>2, <1>3 DEF Sorted
<1>4. CASE j \notin DOMAIN s
    <2>1. j - Len(s) \in DOMAIN u /\ t[j] = u[j - Len(s)]
        BY <1>1, <1>2, <1>4
    <2>2. CASE i \in DOMAIN s
        <3>1. t[i] = s[i] /\ In(s[i], s) /\ In(u[j - Len(s)], u)
            BY <2>1, <2>2, <1>1 DEF In
        <3> QED
            BY <2>1, <3>1
    <2>3. CASE i \notin DOMAIN s
        <3>1. i - Len(s) \in DOMAIN u /\ t[i] = u[i - Len(s)] /\ i - Len(s) < j - Len(s)
            BY <2>3, <1>1, <1>2
        <3> QED
            BY <2>1, <3>1 DEF Sorted
    <2> QED BY <2>2, <2>3
<1> QED BY <1>3, <1>4

\* The sequences of which the model writes one are sorted.
LEMMA SortedLiteral ==
    ASSUME NEW a, NEW b, Before(a.kind, b.kind)
    PROVE  Sorted(<<>>) /\ Sorted(<<a>>) /\ Sorted(<<a, b>>)
<1>1. Sorted(<<>>) /\ Sorted(<<a>>)
    BY DEF Sorted
<1>2. \A i, j \in DOMAIN <<a, b>> : i < j => i = 1 /\ j = 2
    OBVIOUS
<1>3. Sorted(<<a, b>>)
    BY <1>2 DEF Sorted
<1> QED BY <1>1, <1>3

\* Nothing that remains goes before what was taken.
LEMMA SortedTaken ==
    ASSUME NEW S, NEW s \in Seq(S), s # <<>>, Sorted(s)
    PROVE  /\ Sorted(Tail(s))
           /\ \A x : In(x, Tail(s)) => Before(Head(s).kind, x.kind)
<1> DEFINE t == Tail(s)
<1>1. /\ Head(s) = s[1] /\ 1 \in DOMAIN s
      /\ DOMAIN s = 1..Len(s) /\ Len(s) \in Nat /\ DOMAIN t = 1..(Len(s) - 1)
      /\ \A k \in DOMAIN t : k + 1 \in DOMAIN s /\ t[k] = s[k + 1]
    BY Tailed
<1> HIDE DEF t
<1>2. /\ \A k \in DOMAIN t : 1 < k + 1
      /\ \A k, l \in DOMAIN t : k < l => k + 1 < l + 1
    BY <1>1
<1>3. Sorted(t)
    BY <1>1, <1>2 DEF Sorted
<1>4. \A k \in DOMAIN t : Before(Head(s).kind, t[k].kind)
    BY <1>1, <1>2 DEF Sorted
<1> QED
    BY <1>3, <1>4 DEF In, t

\* An empty queue carries an empty interval.
LEMMA CarriesNone ==
    ASSUME NEW n \in Nat
    PROVE  Carries(<<>>, n, n)
BY DEF Carries

\* What is not numbered may be written at any time.
LEMMA CarriesOthers ==
    ASSUME NEW S, NEW s \in Seq(S), NEW u \in Seq(S), NEW lo, NEW hi, Carries(s, lo, hi),
           \A x : In(x, u) => ~Numbered(x)
    PROVE  Carries(s \o u, lo, hi)
<1> DEFINE t == s \o u
<1>1. /\ \A k \in DOMAIN s : k \in DOMAIN t /\ t[k] = s[k]
      /\ \A k \in DOMAIN t : \/ k \in DOMAIN s
                            \/ /\ k > Len(s) /\ k - Len(s) \in DOMAIN u
                               /\ t[k] = u[k - Len(s)]
    BY Concatenated
<1> HIDE DEF t
<1>2. ASSUME NEW k \in DOMAIN t, Numbered(t[k]) PROVE k \in DOMAIN s /\ t[k] = s[k]
    BY <1>1, <1>2 DEF In
<1>3. \A k \in DOMAIN t : Numbered(t[k]) => t[k].n \in (lo + 1)..hi
    BY <1>2 DEF Carries
<1>4. \A n \in (lo + 1)..hi : \E k \in DOMAIN t : Numbered(t[k]) /\ t[k].n = n
    BY <1>1 DEF Carries
<1>5. \A k, l \in DOMAIN t : k < l /\ Numbered(t[k]) /\ Numbered(t[l]) => t[k].n < t[l].n
    BY <1>2 DEF Carries
<1> QED
    BY <1>3, <1>4, <1>5 DEF Carries, t

\* The next number may be written.
LEMMA CarriesNext ==
    ASSUME NEW S, NEW s \in Seq(S), NEW m \in S, NEW lo \in Nat, NEW hi \in Nat, lo <= hi,
           Carries(s, lo, hi), Numbered(m), m.n = hi + 1
    PROVE  Carries(s \o <<m>>, lo, hi + 1)
<1> DEFINE u == <<m>>
           t == s \o u
<1>1. u \in Seq(S) /\ DOMAIN u = {1} /\ u[1] = m
    OBVIOUS
<1> HIDE DEF u
<1>2. /\ DOMAIN s = 1..Len(s) /\ Len(s) \in Nat
      /\ DOMAIN t = 1..(Len(s) + Len(u))
      /\ \A k \in DOMAIN s : k \in DOMAIN t /\ t[k] = s[k]
      /\ \A k \in DOMAIN u : Len(s) + k \in DOMAIN t /\ t[Len(s) + k] = u[k]
      /\ \A k \in DOMAIN t : \/ k \in DOMAIN s
                            \/ /\ k > Len(s) /\ k - Len(s) \in DOMAIN u
                               /\ t[k] = u[k - Len(s)]
    BY <1>1, Concatenated
<1> HIDE DEF t
<1>3. /\ \A k \in DOMAIN s : k < Len(s) + 1
      /\ \A k \in DOMAIN t : k \in DOMAIN s \/ (k = Len(s) + 1 /\ t[k] = m)
      /\ Len(s) + 1 \in DOMAIN t /\ t[Len(s) + 1] = m
    BY <1>1, <1>2
<1>4. ASSUME NEW k \in DOMAIN t, Numbered(t[k]) PROVE t[k].n \in (lo + 1)..(hi + 1)
    <2>1. CASE k \in DOMAIN s
        <3>1. t[k] = s[k] /\ s[k].n \in (lo + 1)..hi
            BY <2>1, <1>2, <1>4 DEF Carries
        <3> QED BY <3>1
    <2>2. CASE k \notin DOMAIN s
        BY <2>2, <1>3
    <2> QED BY <2>1, <2>2
<1>5. ASSUME NEW n \in (lo + 1)..(hi + 1)
      PROVE  \E k \in DOMAIN t : Numbered(t[k]) /\ t[k].n = n
    <2>1. CASE n = hi + 1
        BY <2>1, <1>3
    <2>2. CASE n # hi + 1
        <3>1. n \in (lo + 1)..hi
            BY <2>2
        <3> QED
            BY <3>1, <1>2 DEF Carries
    <2> QED BY <2>1, <2>2
<1>6. ASSUME NEW k \in DOMAIN t, NEW l \in DOMAIN t, k < l, Numbered(t[k]), Numbered(t[l])
      PROVE  t[k].n < t[l].n
    <2>1. k \in DOMAIN s
        BY <1>6, <1>2, <1>3
    <2>2. CASE l \in DOMAIN s
        <3>1. t[k] = s[k] /\ t[l] = s[l]
            BY <2>1, <2>2, <1>2
        <3> QED
            BY <2>1, <2>2, <3>1, <1>6 DEF Carries
    <2>3. CASE l \notin DOMAIN s
        <3>1. t[l].n = hi + 1 /\ t[k] = s[k]
            BY <2>1, <2>3, <1>2, <1>3
        <3>2. s[k].n \in (lo + 1)..hi
            BY <2>1, <3>1, <1>6 DEF Carries
        <3> QED BY <3>1, <3>2
    <2> QED BY <2>2, <2>3
<1>7. Carries(t, lo, hi + 1)
    BY <1>4, <1>5, <1>6 DEF Carries
<1> QED
    BY <1>7 DEF t, u

\* The first number of a queue is the first one it carries.
LEMMA CarriesTail ==
    ASSUME NEW S, NEW s \in Seq(S), NEW lo \in Nat, NEW hi \in Nat, Carries(s, lo, hi), s # <<>>
    PROVE  /\ Numbered(Head(s)) => /\ Head(s).n = lo + 1 /\ lo + 1 <= hi
                                   /\ Carries(Tail(s), lo + 1, hi)
           /\ ~Numbered(Head(s)) => Carries(Tail(s), lo, hi)
<1> DEFINE t == Tail(s)
<1>1. /\ Head(s) = s[1] /\ 1 \in DOMAIN s
      /\ DOMAIN s = 1..Len(s) /\ Len(s) \in Nat /\ Len(s) >= 1
      /\ DOMAIN t = 1..(Len(s) - 1)
      /\ \A k \in DOMAIN t : k + 1 \in DOMAIN s /\ t[k] = s[k + 1]
    BY Tailed
<1> HIDE DEF t
<1>2. ASSUME NEW i \in DOMAIN s, i # 1 PROVE i - 1 \in DOMAIN t /\ t[i - 1] = s[i]
    <2>1. i - 1 \in DOMAIN t /\ (i - 1) + 1 = i
        BY <1>1, <1>2
    <2> QED BY <2>1, <1>1
<1>3. ASSUME NEW i \in DOMAIN t, NEW j \in DOMAIN t, i < j, Numbered(t[i]), Numbered(t[j])
      PROVE  t[i].n < t[j].n
    <2>1. /\ i + 1 \in DOMAIN s /\ t[i] = s[i + 1]
          /\ j + 1 \in DOMAIN s /\ t[j] = s[j + 1]
          /\ i + 1 < j + 1
        BY <1>1, <1>3
    <2> QED BY <2>1, <1>3 DEF Carries
<1>4. ASSUME Numbered(Head(s))
      PROVE  Head(s).n = lo + 1 /\ lo + 1 <= hi /\ Carries(t, lo + 1, hi)
    <2>1. s[1].n \in (lo + 1)..hi
        BY <1>1, <1>4 DEF Carries
    <2>2. lo + 1 \in (lo + 1)..hi
        BY <2>1
    <2>3. PICK j \in DOMAIN s : Numbered(s[j]) /\ s[j].n = lo + 1
        BY <2>2 DEF Carries
    <2>4. s[1].n = lo + 1
        <3>1. SUFFICES ASSUME j # 1 PROVE s[1].n < lo + 1
            BY <2>1, <2>3
        <3>2. 1 < j
            BY <3>1, <1>1
        <3>3. s[1].n < s[j].n
            BY <3>2, <2>3, <1>1, <1>4 DEF Carries
        <3> QED
            BY <3>3, <2>3
    <2>5. ASSUME NEW i \in DOMAIN t, Numbered(t[i]) PROVE t[i].n \in ((lo + 1) + 1)..hi
        <3>1. i + 1 \in DOMAIN s /\ t[i] = s[i + 1] /\ 1 < i + 1
            BY <1>1
        <3>2. s[i + 1].n \in (lo + 1)..hi
            BY <3>1, <2>5 DEF Carries
        <3>3. s[1].n < s[i + 1].n
            BY <3>1, <2>5, <1>1, <1>4 DEF Carries
        <3> QED BY <3>1, <3>2, <3>3, <2>4
    <2>6. ASSUME NEW n \in ((lo + 1) + 1)..hi
          PROVE  \E i \in DOMAIN t : Numbered(t[i]) /\ t[i].n = n
        <3>1. n \in (lo + 1)..hi /\ n # lo + 1
            OBVIOUS
        <3>2. PICK i \in DOMAIN s : Numbered(s[i]) /\ s[i].n = n
            BY <3>1 DEF Carries
        <3>3. i # 1
            BY <3>1, <3>2, <2>4
        <3> QED BY <3>2, <3>3, <1>2
    <2>7. Carries(t, lo + 1, hi)
        BY <2>5, <2>6, <1>3 DEF Carries
    <2> QED BY <2>2, <2>4, <2>7, <1>1
<1>5. ASSUME ~Numbered(Head(s)) PROVE Carries(t, lo, hi)
    <2>1. ASSUME NEW i \in DOMAIN t, Numbered(t[i]) PROVE t[i].n \in (lo + 1)..hi
        BY <2>1, <1>1 DEF Carries
    <2>2. ASSUME NEW n \in (lo + 1)..hi
          PROVE  \E i \in DOMAIN t : Numbered(t[i]) /\ t[i].n = n
        <3>1. PICK i \in DOMAIN s : Numbered(s[i]) /\ s[i].n = n
            BY DEF Carries
        <3>2. i # 1
            BY <3>1, <1>1, <1>5
        <3> QED BY <3>1, <3>2, <1>2
    <2> QED BY <2>1, <2>2, <1>3 DEF Carries
<1> QED
    BY <1>4, <1>5 DEF t

-----------------------------------------------------------------------------
(* Types and sizes                                                         *)

\* There are two peers.
LEMMA TwoPeers ==
    ASSUME NEW p \in Peers
    PROVE  /\ Other(p) \in Peers /\ Other(p) # p /\ Other(Other(p)) = p
           /\ \A q \in Peers : q = p \/ q = Other(p)
           /\ p \in {"client", "server"}
           /\ Other("client") = "server" /\ Other("server") = "client"
BY DEF Peers, Other

\* What TypeOK says of one peer.
LEMMA TypedPeer ==
    ASSUME TypeOK, NEW p \in Peers
    PROVE  /\ wire[p] \in Seq(Message) /\ events[p] \in Seq(CoreEvent)
           /\ frameSize[p] \in Nat /\ sid[p] \in Sids \cup {NoSid}
           /\ sent[p] \in 0..MaxSends /\ got[p] \in 0..MaxSends
           /\ handling[p] \in SUBSET Numbers /\ beat[p] \in Nat
           /\ gate[p] \in {"LINK_CONNECTED", "FRAMING_READY", "APP_READY"}
           /\ up \in BOOLEAN /\ opening[p] \in BOOLEAN
<1> HIDE DEF Message, CoreEvent, Peers, Sids, NoSid, Numbers
<1> QED BY DEF TypeOK

\* The two endpoints are set up as the code allows.
LEMMA TypedConfig ==
    ASSUME TypeOK, NEW p \in Peers
    PROVE  /\ config.framed \in BOOLEAN /\ config.logical[p] \in Peers
           /\ config.size[p] \in Nat /\ config.interval[p] \in Nat
           /\ config.interval[p] # 0 /\ config.entropy[p] \in Sids
<1>1. config \in ConfigRecord
    BY SessionAssumption DEF TypeOK
<1> QED
    BY <1>1 DEF ConfigRecord, Sids

\* A limit written in 16 bits is never larger.
LEMMA UInt16Bound ==
    ASSUME NEW n \in Nat
    PROVE  /\ UInt16(n) \in Nat /\ UInt16(n) <= n /\ UInt16(n) < 65536
           /\ n < 65536 => UInt16(n) = n
BY DEF UInt16

\* The agreed limit is within both.
LEMMA AgreedBound ==
    ASSUME TypeOK
    PROVE  /\ AgreedSize \in Nat /\ UInt16(AgreedSize) = AgreedSize
           /\ AgreedSize <= config.size["server"] /\ AgreedSize <= config.size["client"]
           /\ Min(ControlFrame, config.size["server"]) > config.size["client"] =>
                 /\ config.size["client"] = AgreedSize
                 /\ config.size["client"] < ControlFrame
<1>1. config.size["server"] \in Nat /\ config.size["client"] \in Nat
    BY TypedConfig DEF Peers
<1> DEFINE s == config.size["server"]
           c == config.size["client"]
<1>2. UInt16(c) \in Nat /\ UInt16(c) <= c /\ UInt16(c) < 65536 /\ (c < 65536 => UInt16(c) = c)
    BY <1>1, UInt16Bound
<1>3. ControlFrame \in Nat /\ ControlFrame < 65536
    BY SessionAssumption
<1> HIDE DEF s, c
<1>4. s \in Nat /\ c \in Nat
    BY <1>1 DEF s, c
<1>5. AgreedSize = Min(s, UInt16(c))
    BY DEF AgreedSize, s, c
<1>6. AgreedSize \in Nat /\ AgreedSize <= s /\ AgreedSize <= c /\ AgreedSize < 65536
    BY <1>2, <1>4, <1>5 DEF Min
<1>7. UInt16(AgreedSize) = AgreedSize
    BY <1>6, UInt16Bound
<1>8. Min(ControlFrame, s) > c => c = AgreedSize /\ c < ControlFrame
    BY <1>2, <1>3, <1>4, <1>5 DEF Min
<1> QED
    BY <1>6, <1>7, <1>8 DEF s, c

\* The fields each kind of message has.
LEMMA MessageFields ==
    ASSUME NEW m \in Message
    PROVE  /\ m.kind \in {"open", "accept", "hello", "identify", "identified",
                          "request", "event", "response"}
           /\ m.len \in Nat
           /\ m.kind \in {"open", "accept"} => m.size \in Nat /\ m.interval \in Nat
           /\ m.kind = "accept" => m.ok \in BOOLEAN
           /\ m.kind = "identify" => m.seed \in Sids
           /\ m.kind = "identified" => m.sid \in Sids
           /\ m.kind \in Business => m.n \in Numbers /\ m.sid \in Sids \cup {NoSid}
BY DEF Message, Business

\* The records the model writes are messages.
LEMMA MessagesTyped ==
    /\ \A l, s, i \in Nat :
          /\ [kind |-> "open", len |-> l, size |-> s, interval |-> i] \in Message
          /\ \A ok \in BOOLEAN :
                [kind |-> "accept", len |-> l, ok |-> ok, size |-> s, interval |-> i] \in Message
    /\ \A l \in Nat :
          /\ [kind |-> "hello", len |-> l] \in Message
          /\ \A s \in Sids : /\ [kind |-> "identify", len |-> l, seed |-> s] \in Message
                             /\ [kind |-> "identified", len |-> l, sid |-> s] \in Message
          /\ \A kind \in Business, s \in Sids \cup {NoSid}, n \in Numbers :
                [kind |-> kind, len |-> l, sid |-> s, n |-> n] \in Message
BY DEF Message

\* The records the model enqueues are CoreEvents.
LEMMA EventsTyped ==
    /\ \A i \in Nat : [kind |-> "linkReady", interval |-> i] \in CoreEvent
    /\ \A kind \in {"handshakeReady", "handshakeError", "linkOpenRejected"} :
          [kind |-> kind] \in CoreEvent
    /\ \A kind \in {"request", "event"}, n \in Numbers : [kind |-> kind, n |-> n] \in CoreEvent
BY DEF CoreEvent

\* The fields each kind of CoreEvent has.
LEMMA EventFields ==
    ASSUME NEW e \in CoreEvent
    PROVE  /\ e.kind \in {"linkReady", "handshakeReady", "handshakeError",
                          "linkOpenRejected", "request", "event"}
           /\ e.kind = "linkReady" => e.interval \in Nat
           /\ e.kind \in {"request", "event"} => e.n \in Numbers
BY DEF CoreEvent

-----------------------------------------------------------------------------
(* Writing and enqueueing                                                  *)

\* What Write does to the two wires.
LEMMA WriteWires ==
    ASSUME TypeOK, NEW p \in Peers, NEW msgs \in Seq(Message), NEW took \in BOOLEAN,
           took => wire[p] # <<>>, Write(p, msgs, took)
    PROVE  /\ wire' \in [Peers -> Seq(Message)]
           /\ wire'[p] = IF took THEN Tail(wire[p]) ELSE wire[p]
           /\ wire'[Other(p)] = IF up THEN wire[Other(p)] \o msgs ELSE wire[Other(p)]
<1>1. /\ wire \in [Peers -> Seq(Message)]
      /\ Other(p) \in Peers /\ Other(p) # p /\ \A q \in Peers : q = p \/ q = Other(p)
    BY TwoPeers DEF TypeOK
<1>2. Tail(wire[p]) \in Seq(Message) \/ ~took
    BY <1>1
<1>3. wire[Other(p)] \o msgs \in Seq(Message)
    BY <1>1
<1> HIDE DEF Message, Peers, Other
<1>4. /\ wire'[p] = IF took THEN Tail(wire[p]) ELSE wire[p]
      /\ wire'[Other(p)] = IF up THEN wire[Other(p)] \o msgs ELSE wire[Other(p)]
    BY <1>1 DEF Write
<1>5. DOMAIN wire' = Peers /\ wire' = [q \in Peers |-> wire'[q]]
    BY <1>1 DEF Write
<1>6. \A q \in Peers : wire'[q] \in Seq(Message)
    BY <1>1, <1>2, <1>3, <1>4
<1> QED
    BY <1>4, <1>5, <1>6

\* What Write does to what is on the wires.
LEMMA WriteMembers ==
    ASSUME TypeOK, NEW p \in Peers, NEW msgs \in Seq(Message), NEW took \in BOOLEAN,
           took => wire[p] # <<>>, Write(p, msgs, took), NEW x
    PROVE  /\ In(x, wire'[p]) => In(x, wire[p])
           /\ In(x, wire[p]) => In(x, wire'[p]) \/ (took /\ x = Head(wire[p]))
           /\ In(x, wire'[Other(p)]) <=> In(x, wire[Other(p)]) \/ (up /\ In(x, msgs))
<1> HIDE DEF Message
<1>1. wire[p] \in Seq(Message) /\ wire[Other(p)] \in Seq(Message)
    BY TypedPeer, TwoPeers
<1>2. took => (In(x, wire[p]) <=> x = Head(wire[p]) \/ In(x, Tail(wire[p])))
    BY <1>1, InTaken
<1>3. In(x, wire[Other(p)] \o msgs) <=> In(x, wire[Other(p)]) \/ In(x, msgs)
    BY <1>1, InConcatenated
<1>4. /\ wire'[p] = IF took THEN Tail(wire[p]) ELSE wire[p]
      /\ wire'[Other(p)] = IF up THEN wire[Other(p)] \o msgs ELSE wire[Other(p)]
    BY WriteWires
<1>5. /\ In(x, wire'[p]) => In(x, wire[p])
      /\ In(x, wire[p]) => In(x, wire'[p]) \/ (took /\ x = Head(wire[p]))
    BY <1>2, <1>4
<1>6. In(x, wire'[Other(p)]) <=> In(x, wire[Other(p)]) \/ (up /\ In(x, msgs))
    BY <1>3, <1>4
<1> QED
    BY <1>5, <1>6

\* What Write does to the kinds on the wires.
LEMMA WriteKinds ==
    ASSUME TypeOK, NEW p \in Peers, NEW msgs \in Seq(Message), NEW took \in BOOLEAN,
           took => wire[p] # <<>>, Write(p, msgs, took), NEW k
    PROVE  /\ Has(wire'[p], k) => Has(wire[p], k)
           /\ Has(wire[p], k) => Has(wire'[p], k) \/ (took /\ Head(wire[p]).kind = k)
           /\ Has(wire'[Other(p)], k) <=> Has(wire[Other(p)], k) \/ (up /\ Has(msgs, k))
           /\ took => Has(wire[p], Head(wire[p]).kind)
           /\ took /\ Sorted(wire[p]) /\ Has(wire'[p], k) => Before(Head(wire[p]).kind, k)
<1> HIDE DEF Message
<1>1. \A x : /\ In(x, wire'[p]) => In(x, wire[p])
             /\ In(x, wire[p]) => In(x, wire'[p]) \/ (took /\ x = Head(wire[p]))
             /\ In(x, wire'[Other(p)]) <=> In(x, wire[Other(p)]) \/ (up /\ In(x, msgs))
    BY WriteMembers
<1>2. wire[p] \in Seq(Message)
    BY TypedPeer
<1>3. took => In(Head(wire[p]), wire[p])
    BY <1>2, InTaken
<1>4. took /\ Sorted(wire[p]) => \A x : In(x, wire'[p]) => Before(Head(wire[p]).kind, x.kind)
    BY <1>2, SortedTaken, WriteWires
<1> QED
    BY <1>1, <1>3, <1>4, HasKind

\* What is left on a wire comes after what was taken.
LEMMA TakenBefore ==
    ASSUME TypeOK, NEW p \in Peers, NEW msgs \in Seq(Message), wire[p] # <<>>,
           Write(p, msgs, TRUE), Sorted(wire[p])
    PROVE  \A k : Has(wire'[p], k) => Before(Head(wire[p]).kind, k)
<1> HIDE DEF Message
<1>1. TRUE \in BOOLEAN
    OBVIOUS
<1>2. wire'[p] = Tail(wire[p]) /\ wire[p] \in Seq(Message)
    BY <1>1, WriteWires, TypedPeer
<1>3. \A x : In(x, Tail(wire[p])) => Before(Head(wire[p]).kind, x.kind)
    BY <1>2, SortedTaken
<1> QED BY <1>2, <1>3, HasKind

\* Write keeps the order.
LEMMA WriteSorted ==
    ASSUME TypeOK, NEW p \in Peers, NEW msgs \in Seq(Message), NEW took \in BOOLEAN,
           took => wire[p] # <<>>, Write(p, msgs, took), Sorted(wire[p]), Sorted(wire[Other(p)]),
           up => Sorted(msgs),
           up => \A x, y : In(x, wire[Other(p)]) /\ In(y, msgs) => Before(x.kind, y.kind)
    PROVE  \A q \in Peers : Sorted(wire'[q])
<1> HIDE DEF Message
<1>1. wire[p] \in Seq(Message) /\ wire[Other(p)] \in Seq(Message)
    BY TypedPeer, TwoPeers
<1>2. took => Sorted(Tail(wire[p]))
    BY <1>1, SortedTaken
<1>3. up => Sorted(wire[Other(p)] \o msgs)
    BY <1>1, SortedConcatenated
<1>4. Sorted(wire'[p]) /\ Sorted(wire'[Other(p)])
    BY <1>2, <1>3, WriteWires
<1> QED
    BY <1>4, TwoPeers

\* What enqueueing does to the CoreEvents.
LEMMA EnqueueEvents ==
    ASSUME TypeOK, NEW p \in Peers, NEW evs \in Seq(CoreEvent), Enqueue(p, evs)
    PROVE  /\ events' \in [Peers -> Seq(CoreEvent)]
           /\ events'[p] = events[p] \o evs /\ events'[Other(p)] = events[Other(p)]
           /\ \A x : In(x, events'[p]) <=> In(x, events[p]) \/ In(x, evs)
           /\ \A k : Has(events'[p], k) <=> Has(events[p], k) \/ Has(evs, k)
<1>1. events \in [Peers -> Seq(CoreEvent)] /\ Other(p) \in Peers /\ Other(p) # p
    BY TwoPeers DEF TypeOK
<1>2. events[p] \o evs \in Seq(CoreEvent)
    BY <1>1
<1> HIDE DEF CoreEvent, Peers, Other
<1>3. /\ events'[p] = events[p] \o evs /\ events'[Other(p)] = events[Other(p)]
      /\ events' \in [Peers -> Seq(CoreEvent)]
    BY <1>1, <1>2 DEF Enqueue
<1>4. \A x : In(x, events[p] \o evs) <=> In(x, events[p]) \/ In(x, evs)
    BY <1>1, InConcatenated
<1>5. \A x : In(x, events'[p]) <=> In(x, events[p]) \/ In(x, evs)
    BY <1>3, <1>4
<1> QED
    BY <1>3, <1>5, HasKind

-----------------------------------------------------------------------------
(* What the invariant says of the next message                             *)

\* The message a peer takes next.
LEMMA NextMessage ==
    ASSUME SessionInv, NEW p \in Peers, wire[p] # <<>>
    PROVE  /\ Head(wire[p]) \in Message /\ In(Head(wire[p]), wire[p])
           /\ Truthful(p, Head(wire[p])) /\ Has(wire[p], Head(wire[p]).kind)
           /\ \A x : In(x, wire[p]) => x = Head(wire[p]) \/ Before(Head(wire[p]).kind, x.kind)
<1>1. wire[p] \in Seq(Message) /\ Sorted(wire[p])
    BY TypedPeer DEF SessionInv, InTurn
<1> HIDE DEF Message
<1>2. Head(wire[p]) \in Message /\ In(Head(wire[p]), wire[p])
    BY <1>1, InTaken
<1>3. Truthful(p, Head(wire[p]))
    BY <1>2 DEF SessionInv, MessagesOK
<1>4. \A x : In(x, wire[p]) => x = Head(wire[p]) \/ In(x, Tail(wire[p]))
    BY <1>1, InTaken
<1>5. \A x : In(x, Tail(wire[p])) => Before(Head(wire[p]).kind, x.kind)
    BY <1>1, SortedTaken
<1> QED
    BY <1>2, <1>3, <1>4, <1>5, HasKind

\* A kind that goes before the next message is not on the wire.
LEMMA NothingBefore ==
    ASSUME SessionInv, NEW p \in Peers, wire[p] # <<>>, NEW k, Has(wire[p], k)
    PROVE  k = Head(wire[p]).kind \/ Before(Head(wire[p]).kind, k)
<1>1. PICK x : In(x, wire[p]) /\ x.kind = k
    BY HasKind
<1> QED
    BY <1>1, NextMessage

\* Any other message than OPEN and ACCEPT is within the limit of the peer
\* that takes it; a peer that admits control messages has opened the link.
LEMMA NextWithinLimit ==
    ASSUME SessionInv, NEW p \in Peers, Alive(p), wire[p] # <<>>,
           Head(wire[p]).kind \notin {"open", "accept"}
    PROVE  /\ Head(wire[p]).len <= frameSize[p]
           /\ config.framed => frameSize[p] = AgreedSize
           /\ Roomy => gate[p] # "LINK_CONNECTED"
           /\ RpcLen(p) \in Nat
<1> DEFINE h == Head(wire[p])
<1>1. TypeOK /\ Linked
    BY DEF SessionInv
<1>2. Other(p) \in Peers /\ frameSize[p] \in Nat
    BY <1>1, TwoPeers, TypedPeer
<1>3. h.len = RpcLen(Other(p))
      /\ (config.framed => frameSize[Other(p)] = AgreedSize /\ gate["server"] # "LINK_CONNECTED")
    BY NextMessage DEF Truthful
<1> HIDE DEF h
<1>4. CASE ~config.framed
    <2>1. gate[p] # "LINK_CONNECTED"
        BY <1>1, <1>4 DEF Linked, Alive
    <2> QED
        BY <2>1, <1>2, <1>3, <1>4 DEF h, RpcLen
<1>5. CASE config.framed
    <2>1. config.framed /\ frameSize[Other(p)] = AgreedSize /\ gate["server"] # "LINK_CONNECTED"
        BY <1>3, <1>5
    <2>2. AgreedSize \in Nat
        BY <1>1, AgreedBound
    <2>3. frameSize[p] = AgreedSize /\ (Roomy => gate[p] # "LINK_CONNECTED")
        <3>1. CASE gate[p] # "LINK_CONNECTED"
            BY <3>1, <2>1, <1>1 DEF Linked
        <3>2. CASE gate[p] = "LINK_CONNECTED"
            <4>1. p = "client"
                BY <3>2, <2>1 DEF Peers
            <4>2. ~Has(wire["client"], "accept")
                BY <4>1, NothingBefore DEF Before, Rank
            <4>3. ~Roomy /\ config.size["client"] = AgreedSize
                BY <3>2, <4>1, <4>2, <2>1, <1>1 DEF Linked
            <4> QED
                BY <3>2, <4>1, <4>3, <1>1 DEF Linked
        <3> QED BY <3>1, <3>2
    <2> QED
        BY <2>1, <2>2, <2>3, <1>3 DEF h, RpcLen
<1> QED BY <1>4, <1>5

\* A request, response or event finds the runtime gate open for its sid.
LEMMA NextAdmitted ==
    ASSUME SessionInv, NEW p \in Peers, wire[p] # <<>>, Head(wire[p]).kind \in Business
    PROVE  /\ gate[p] = "APP_READY" /\ gate[Other(p)] = "APP_READY"
           /\ Admits(p, Head(wire[p]))
<1> DEFINE h == Head(wire[p])
<1>1. gate[Other(p)] = "APP_READY" /\ h.sid = sid[Other(p)]
    BY NextMessage DEF Truthful
<1>2. ~Has(wire[p], "identified")
    BY NothingBefore DEF Before, Rank, Business
<1>3. gate[p] = "APP_READY"
    BY <1>2, NextMessage DEF SessionInv, InTurn
<1>4. Joined /\ Other(p) \in Peers /\ Other(Other(p)) = p
    BY TwoPeers DEF SessionInv
<1>5. /\ config.logical[p] \in {"client", "server"}
      /\ config.logical[Other(p)] \in {"client", "server"}
    BY <1>4, TypedConfig DEF SessionInv, Peers
<1>6. sid[p] = sid[Other(p)]
    BY <1>1, <1>3, <1>4, <1>5 DEF Joined
<1> QED
    BY <1>1, <1>3, <1>6 DEF Admits

\* OPEN comes first, and before anything was sent to the client.
LEMMA NextIsOpen ==
    ASSUME SessionInv, NEW p \in Peers, wire[p] # <<>>, Head(wire[p]).kind = "open"
    PROVE  /\ p = "server" /\ gate["server"] = "LINK_CONNECTED" /\ config.framed
           /\ wire["client"] = <<>>
<1>1. p = "server" /\ config.framed /\ gate["server"] = "LINK_CONNECTED"
    BY NextMessage DEF Truthful
<1>2. SUFFICES ASSUME wire["client"] # <<>> PROVE FALSE
    BY <1>1
<1>3. "client" \in Peers /\ Other("client") = "server"
    BY DEF Peers, Other
<1> DEFINE h == Head(wire["client"])
<1>4. h \in Message /\ Truthful("client", h) /\ Has(wire["client"], h.kind)
    BY <1>2, <1>3, NextMessage
<1>5. Has(wire["server"], "open")
    BY <1>1, NextMessage
<1>6. ~Has(wire["client"], "accept")
    BY <1>1, <1>3, <1>5, TwoPeers DEF SessionInv, InTurn
<1> HIDE DEF h
<1>7. h.kind # "open" /\ h.kind # "accept"
    BY <1>4, <1>6 DEF Truthful
<1>8. gate["server"] # "LINK_CONNECTED"
    BY <1>1, <1>4, <1>7 DEF Truthful
<1> QED BY <1>1, <1>8

\* ACCEPT reaches a client that waits for it.
LEMMA NextIsAccept ==
    ASSUME SessionInv, NEW p \in Peers, wire[p] # <<>>, Head(wire[p]).kind = "accept"
    PROVE  /\ p = "client" /\ gate["client"] = "LINK_CONNECTED" /\ config.framed
           /\ opening["client"] /\ ~Has(wire["server"], "open")
<1>1. /\ p = "client" /\ gate["client"] = "LINK_CONNECTED" /\ config.framed
      /\ opening["client"] /\ Has(wire[p], "accept")
    BY NextMessage DEF Truthful
<1>2. ~Has(wire["server"], "open")
    BY <1>1, TwoPeers DEF SessionInv, InTurn, Peers
<1> QED BY <1>1, <1>2

-----------------------------------------------------------------------------
(* The steps, as the invariant leaves them                                 *)

\* LinkReady where the link was not open.
LinkUp(p, size, interval, msgs, took) ==
    /\ gate[p] = "LINK_CONNECTED"
    /\ frameSize' = [frameSize EXCEPT ![p] = size]
    /\ gate' = [gate EXCEPT ![p] = "FRAMING_READY"]
    /\ Write(p, msgs, took)
    /\ Enqueue(p, <<[kind |-> "linkReady", interval |-> interval]>>)
    /\ UNCHANGED <<config, up, sid, beat, appVars>>

\* start() of a transport without frames.
StartsUnframed(p) ==
    /\ ~config.framed /\ lifecycle[p] = "idle"
    /\ lifecycle' = [lifecycle EXCEPT ![p] = "connecting"]
    /\ LinkUp(p, config.size[p], config.interval[p], HelloOf(p, config.size[p]), FALSE)
    /\ UNCHANGED opening

\* The OPEN of the client.
OpenMessage ==
    [kind |-> "open", len |-> ControlLen("client"),
     size |-> UInt16(config.size["client"]), interval |-> config.interval["client"]]

\* The ACCEPT of the server.
AcceptMessage(ok) ==
    [kind |-> "accept", len |-> Min(ControlFrame, config.size["server"]), ok |-> ok,
     size |-> AgreedSize, interval |-> config.interval["client"]]

\* start() of the framed client.
SendsOpen ==
    /\ config.framed /\ lifecycle["client"] = "idle"
    /\ lifecycle' = [lifecycle EXCEPT !["client"] = "connecting"]
    /\ opening' = [opening EXCEPT !["client"] = TRUE]
    /\ Write("client", <<OpenMessage>>, FALSE)
    /\ UNCHANGED <<config, up, gate, sid, frameSize, events, beat, appVars>>

\* start() of the framed server.
AwaitsOpen ==
    /\ config.framed /\ lifecycle["server"] = "idle"
    /\ lifecycle' = [lifecycle EXCEPT !["server"] = "connecting"]
    /\ UNCHANGED <<config, up, wire, coreVars, events, beat, appVars>>

\* p takes a message of this kind.
Takes1(p, kinds) ==
    /\ Alive(p) /\ wire[p] # <<>> /\ Head(wire[p]).kind \in kinds
    /\ UNCHANGED <<config, up, lifecycle, beat, appVars>>

\* handleOpen turns down a limit below MinFrameSize.
DeclinesOpen ==
    /\ Takes1("server", {"open"})
    /\ Write("server", <<AcceptMessage(FALSE)>>, TRUE)
    /\ UNCHANGED <<coreVars, events>>

\* handleOpen opens the link.
AcceptsOpen ==
    /\ Takes1("server", {"open"})
    /\ LinkUp("server", AgreedSize, config.interval["client"],
              <<AcceptMessage(TRUE)>> \o HelloOf("server", AgreedSize), TRUE)
    /\ UNCHANGED opening

\* handleAccept opens the link.
IsAccepted ==
    /\ Takes1("client", {"accept"}) /\ Head(wire["client"]).ok
    /\ opening' = [opening EXCEPT !["client"] = FALSE]
    /\ LinkUp("client", AgreedSize, config.interval["client"],
              HelloOf("client", AgreedSize), TRUE)

\* handleAccept is turned down.
IsDeclined ==
    /\ Takes1("client", {"accept"}) /\ ~Head(wire["client"]).ok
    /\ opening' = [opening EXCEPT !["client"] = FALSE]
    /\ Write("client", <<>>, TRUE)
    /\ Enqueue("client", <<[kind |-> "linkOpenRejected"]>>)
    /\ UNCHANGED <<gate, sid, frameSize>>

\* Nothing comes of the message.
Passes(p) ==
    /\ Takes1(p, {"open", "accept", "hello", "response"})
    /\ Head(wire[p]).kind \in {"open", "accept"} => Head(wire[p]).len > frameSize[p]
    /\ Head(wire[p]).kind = "hello" => config.logical[p] # "client"
    /\ Ignores(p)

\* handleHello
Identifies(p) ==
    /\ Takes1(p, {"hello"}) /\ config.logical[p] = "client"
    /\ \E seed \in Sids :
          Write(p, <<[kind |-> "identify", len |-> RpcLen(p), seed |-> seed]>>, TRUE)
    /\ UNCHANGED <<coreVars, events>>

\* p has a session with this sid.
Enters(p, s) ==
    /\ s \in Sids /\ s # {}
    /\ sid' = [sid EXCEPT ![p] = s]
    /\ gate' = [gate EXCEPT ![p] = "APP_READY"]
    /\ Enqueue(p, <<[kind |-> "handshakeReady"]>>)
    /\ UNCHANGED <<opening, frameSize>>

\* handleIdentify
Grants(p) ==
    /\ Takes1(p, {"identify"})
    /\ \E s \in Sids :
          /\ Enters(p, s)
          /\ Write(p, <<[kind |-> "identified", len |-> RpcLen(p), sid |-> s]>>, TRUE)

\* handleIdentified
IsGranted(p) ==
    /\ Takes1(p, {"identified"})
    /\ Enters(p, sid[Other(p)])
    /\ Write(p, <<>>, TRUE)

\* dispatchBusiness hands a request or an event to the endpoint.
Dispatches(p) ==
    /\ Takes1(p, {"request", "event"})
    /\ Write(p, <<>>, TRUE)
    /\ Enqueue(p, <<[kind |-> Head(wire[p]).kind, n |-> Head(wire[p]).n]>>)
    /\ UNCHANGED coreVars

\* The step of one peer.
StepOf(p) ==
    \/ StartsUnframed(p)
    \/ p = "client" /\ (SendsOpen \/ IsAccepted \/ IsDeclined)
    \/ p = "server" /\ (AwaitsOpen \/ DeclinesOpen \/ AcceptsOpen)
    \/ Passes(p) \/ Identifies(p) \/ Grants(p) \/ IsGranted(p) \/ Dispatches(p)
    \/ \E kind \in {"request", "event"} : Send(p, kind)
    \/ \E n \in Numbers : Respond(p, n)
    \/ Consume(p)
    \/ Alive(p) /\ CloseEndpoint(p)

\* HelloOf sends one message or none.
LEMMA HelloSent ==
    ASSUME NEW p \in Peers, NEW size \in Nat
    PROVE  /\ HelloOf(p, size) \in Seq(Message)
           /\ <<>> \o HelloOf(p, size) = HelloOf(p, size)
           /\ \A x : In(x, HelloOf(p, size)) <=>
                 /\ config.logical[p] = "server"
                 /\ x = [kind |-> "hello", len |-> IF config.framed THEN size ELSE 0]
           /\ Sorted(HelloOf(p, size))
<1> DEFINE h == [kind |-> "hello", len |-> IF config.framed THEN size ELSE 0]
<1>1. h \in Message
    BY MessagesTyped
<1> HIDE DEF h
<1>2. <<h>> \in Seq(Message) /\ <<>> \in Seq(Message)
    BY <1>1
<1>3. <<>> \o <<h>> = <<h>> /\ <<>> \o <<>> = <<>>
    BY <1>2
<1>4. Sorted(<<>>) /\ Sorted(<<h>>)
    BY DEF Sorted
<1>5. HelloOf(p, size) = IF config.logical[p] = "server" THEN <<h>> ELSE <<>>
    BY DEF HelloOf, h
<1>6. HelloOf(p, size) \in Seq(Message) /\ <<>> \o HelloOf(p, size) = HelloOf(p, size)
    BY <1>2, <1>3, <1>5
<1>7. Sorted(HelloOf(p, size))
    BY <1>4, <1>5
<1>8. \A x : In(x, HelloOf(p, size)) <=> config.logical[p] = "server" /\ x = h
    <2>1. \A x : (In(x, <<h>>) <=> x = h) /\ ~In(x, <<>>)
        BY InLiteral
    <2>2. CASE config.logical[p] = "server"
        BY <1>5, <2>1, <2>2
    <2>3. CASE config.logical[p] # "server"
        BY <1>5, <2>1, <2>3
    <2> QED BY <2>2, <2>3
<1> QED
    BY <1>6, <1>7, <1>8 DEF h

\* The one message HelloOf may send.
LEMMA OnlyHello ==
    ASSUME NEW p \in Peers, NEW size \in Nat, NEW x, In(x, HelloOf(p, size))
    PROVE  /\ config.logical[p] = "server"
           /\ x = [kind |-> "hello", len |-> IF config.framed THEN size ELSE 0]
BY HelloSent

\* start()
LEMMA StartStep ==
    ASSUME SessionInv, NEW p \in Peers, Start(p)
    PROVE  StepOf(p)
<1>1. gate[p] = "LINK_CONNECTED" /\ frameSize[p] = config.size[p] /\ frameSize[p] \in Nat
    BY TypedPeer DEF Start, SessionInv, Lives, Life, Linked
<1>2. CASE ~config.framed
    <2>1. <<>> \o HelloOf(p, frameSize[p]) = HelloOf(p, frameSize[p])
        BY <1>1, HelloSent
    <2>2. StartsUnframed(p)
        BY <1>1, <1>2, <2>1 DEF Start, LinkReady, StartsUnframed, LinkUp
    <2> QED BY <2>2 DEF StepOf
<1>3. CASE config.framed /\ p = "client"
    <2>1. SendsOpen
        BY <1>3 DEF Start, SendsOpen, OpenMessage
    <2> QED BY <1>3, <2>1 DEF StepOf
<1>4. CASE config.framed /\ p # "client"
    <2>1. p = "server"
        BY <1>4 DEF Peers
    <2>2. AwaitsOpen
        BY <1>4, <2>1 DEF Start, AwaitsOpen, coreVars
    <2> QED BY <2>1, <2>2 DEF StepOf
<1> QED BY <1>2, <1>3, <1>4

\* An ACCEPT that refuses differs in its status.
LEMMA NotOk ==
    ASSUME NEW l, NEW s, NEW i
    PROVE  [[kind |-> "accept", len |-> l, ok |-> TRUE, size |-> s, interval |-> i]
               EXCEPT !.ok = FALSE]
           = [kind |-> "accept", len |-> l, ok |-> FALSE, size |-> s, interval |-> i]
<1> DEFINE a == [kind |-> "accept", len |-> l, ok |-> TRUE, size |-> s, interval |-> i]
           b == [kind |-> "accept", len |-> l, ok |-> FALSE, size |-> s, interval |-> i]
<1>1. DOMAIN a = {"kind", "len", "ok", "size", "interval"} /\ DOMAIN b = DOMAIN a
    OBVIOUS
<1>2. [a EXCEPT !.ok = FALSE] = [x \in DOMAIN a |-> IF x = "ok" THEN FALSE ELSE a[x]]
    OBVIOUS
<1>3. b = [x \in DOMAIN a |-> b[x]]
    BY <1>1
<1>4. /\ b["kind"] = a["kind"] /\ b["len"] = a["len"] 
      /\ b["size"] = a["size"] /\ b["interval"] = a["interval"]
    OBVIOUS
<1>5. b["ok"] = FALSE
    BY Zenon
<1> HIDE DEF a, b
<1>6. \A x \in DOMAIN a : b[x] = IF x = "ok" THEN FALSE ELSE a[x]
    BY <1>1, <1>4, <1>5, Zenon
<1>7. [a EXCEPT !.ok = FALSE] = b
    BY <1>2, <1>3, <1>6, Zenon
<1> QED BY <1>7 DEF a, b

\* handleOpen
LEMMA OpenStep ==
    ASSUME SessionInv, NEW p \in Peers, ReceiveOpen(p)
    PROVE  StepOf(p)
<1> DEFINE m == Head(wire[p])
           size == Min(config.size[p], m.size)
           accept == [kind |-> "accept", len |-> ControlLen(p), ok |-> TRUE,
                      size |-> UInt16(size), interval |-> m.interval]
<1>1. Takes1(p, {"open"}) /\ wire[p] # <<>> /\ m.kind = "open"
    BY DEF ReceiveOpen, Receives, Takes1
<1>2. p = "server" /\ gate["server"] = "LINK_CONNECTED" /\ config.framed
    BY <1>1, NextIsOpen
<1>3. m.size = UInt16(config.size["client"]) /\ m.interval = config.interval["client"]
    BY <1>1, NextMessage DEF Truthful
<1>4. size = AgreedSize /\ UInt16(size) = AgreedSize /\ AgreedSize \in Nat
    BY <1>2, <1>3, AgreedBound DEF AgreedSize, SessionInv
<1>5. ControlLen(p) = Min(ControlFrame, config.size["server"])
    BY <1>2 DEF ControlLen, SessionInv, Linked
<1>6. accept = AcceptMessage(TRUE) /\ [accept EXCEPT !.ok = FALSE] = AcceptMessage(FALSE)
    <2>1. accept = [kind |-> "accept", len |-> Min(ControlFrame, config.size["server"]),
                    ok |-> TRUE, size |-> AgreedSize, interval |-> config.interval["client"]]
        BY <1>3, <1>4, <1>5
    <2> HIDE DEF accept
    <2>2. accept = AcceptMessage(TRUE)
        BY <2>1 DEF AcceptMessage
    <2>3. [accept EXCEPT !.ok = FALSE] = AcceptMessage(FALSE)
        BY <2>1, NotOk DEF AcceptMessage
    <2> QED BY <2>2, <2>3
<1> HIDE DEF m, size, accept
<1>7. \/ Write(p, <<[accept EXCEPT !.ok = FALSE]>>, TRUE) /\ UNCHANGED <<coreVars, events>>
      \/ LinkReady(p, size, m.interval, <<accept>>, TRUE) /\ UNCHANGED <<opening, sid>>
    BY <1>2 DEF ReceiveOpen, m, size, accept
<1>8. CASE Write(p, <<[accept EXCEPT !.ok = FALSE]>>, TRUE) /\ UNCHANGED <<coreVars, events>>
    <2>1. DeclinesOpen
        BY <1>1, <1>2, <1>6, <1>8 DEF DeclinesOpen
    <2> QED BY <1>2, <2>1 DEF StepOf
<1>9. CASE LinkReady(p, size, m.interval, <<accept>>, TRUE) /\ UNCHANGED <<opening, sid>>
    <2>1. LinkReady("server", AgreedSize, config.interval["client"], <<AcceptMessage(TRUE)>>, TRUE)
        BY <1>2, <1>3, <1>4, <1>6, <1>9
    <2>2. AcceptsOpen
        BY <1>1, <1>2, <1>9, <2>1 DEF AcceptsOpen, LinkReady, LinkUp, Takes1
    <2> QED BY <1>2, <2>2 DEF StepOf
<1> QED BY <1>7, <1>8, <1>9

\* handleAccept
LEMMA AcceptStep ==
    ASSUME SessionInv, NEW p \in Peers, ReceiveAccept(p)
    PROVE  StepOf(p)
<1> DEFINE m == Head(wire[p])
<1>1. Takes1(p, {"accept"}) /\ wire[p] # <<>> /\ m.kind = "accept"
    BY DEF ReceiveAccept, Receives, Takes1
<1>2. p = "client" /\ gate["client"] = "LINK_CONNECTED" /\ config.framed /\ opening["client"]
    BY <1>1, NextIsAccept
<1>3. (m.ok => m.size = AgreedSize) /\ m.interval = config.interval["client"]
    BY <1>1, NextMessage DEF Truthful
<1>4. AgreedSize \in Nat
    BY AgreedBound DEF SessionInv
<1>5. <<>> \o HelloOf(p, AgreedSize) = HelloOf(p, AgreedSize)
    BY <1>4, HelloSent
<1>6. /\ opening' = [opening EXCEPT ![p] = FALSE]
      /\ IF m.ok
         THEN LinkReady(p, m.size, m.interval, <<>>, TRUE)
         ELSE /\ Write(p, <<>>, TRUE)
              /\ Enqueue(p, <<[kind |-> "linkOpenRejected"]>>)
              /\ UNCHANGED <<gate, frameSize>>
      /\ UNCHANGED sid
    BY <1>2 DEF ReceiveAccept
<1> HIDE DEF m
<1>7. CASE m.ok
    <2>1. LinkReady("client", AgreedSize, config.interval["client"], <<>>, TRUE)
        BY <1>2, <1>3, <1>6, <1>7
    <2>2. IsAccepted
        BY <1>1, <1>2, <1>5, <1>6, <1>7, <2>1 DEF IsAccepted, LinkReady, LinkUp, Takes1, m
    <2> QED BY <1>2, <2>2 DEF StepOf
<1>8. CASE ~m.ok
    <2>1. IsDeclined
        BY <1>1, <1>2, <1>6, <1>8 DEF IsDeclined, m
    <2> QED BY <1>2, <2>1 DEF StepOf
<1> QED BY <1>7, <1>8

\* FrameTooLarge only concerns OPEN and ACCEPT.
LEMMA TooLargeStep ==
    ASSUME SessionInv, NEW p \in Peers, ReceiveTooLarge(p)
    PROVE  StepOf(p)
<1>1. /\ Alive(p) /\ wire[p] # <<>> /\ Head(wire[p]).len > frameSize[p]
      /\ Ignores(p) /\ UNCHANGED <<config, up, lifecycle, beat, appVars>>
    BY DEF ReceiveTooLarge
<1>2. Head(wire[p]).len \in Nat /\ frameSize[p] \in Nat
    BY <1>1, NextMessage, MessageFields, TypedPeer DEF SessionInv
<1>3. Head(wire[p]).kind \in {"open", "accept"}
    BY <1>1, <1>2, NextWithinLimit
<1>4. Passes(p)
    BY <1>1, <1>3 DEF Passes, Takes1
<1> QED BY <1>4 DEF StepOf

\* handleHello
LEMMA HelloStep ==
    ASSUME SessionInv, NEW p \in Peers, ReceiveHello(p)
    PROVE  StepOf(p)
<1>1. /\ Alive(p) /\ wire[p] # <<>> /\ Head(wire[p]).kind = "hello"
      /\ UNCHANGED <<config, up, lifecycle, beat, appVars>>
    BY DEF ReceiveHello, Receives
<1>2. CASE config.logical[p] # "client"
    <2>1. Ignores(p)
        BY <1>2 DEF ReceiveHello
    <2>2. Passes(p)
        BY <1>1, <1>2, <2>1 DEF Passes, Takes1
    <2> QED BY <2>2 DEF StepOf
<1>3. CASE config.logical[p] = "client"
    <2>1. /\ \E seed \in Sids :
                Write(p, <<[kind |-> "identify", len |-> RpcLen(p), seed |-> seed]>>, TRUE)
          /\ UNCHANGED <<coreVars, events>>
        BY <1>3 DEF ReceiveHello
    <2>2. Identifies(p)
        BY <1>1, <1>3, <2>1 DEF Identifies, Takes1
    <2> QED BY <2>2 DEF StepOf
<1> QED BY <1>2, <1>3

\* The sid handleIdentify mixes is neither empty nor zero.
LEMMA SidGenerated ==
    ASSUME NEW seed \in Sids, NEW entropy \in Sids
    PROVE  GenerateSid(seed, entropy) \in Sids /\ GenerateSid(seed, entropy) # {}
BY SessionAssumption DEF GenerateSid, Sids

\* handleIdentify
LEMMA IdentifyStep ==
    ASSUME SessionInv, NEW p \in Peers, ReceiveIdentify(p)
    PROVE  StepOf(p)
<1>1. /\ Alive(p) /\ wire[p] # <<>> /\ Head(wire[p]).kind = "identify"
      /\ UNCHANGED <<config, up, lifecycle, beat, appVars>>
    BY DEF ReceiveIdentify, Receives
<1>2. config.logical[p] = "server"
    BY <1>1, NextMessage DEF Truthful
<1> DEFINE s == GenerateSid(Head(wire[p]).seed, config.entropy[p])
<1>3. Head(wire[p]).seed \in Sids /\ config.entropy[p] \in Sids
    BY <1>1, NextMessage, MessageFields, TypedConfig DEF SessionInv
<1>4. s \in Sids /\ s # {}
    BY <1>3, SidGenerated
<1>5. /\ sid' = [sid EXCEPT ![p] = s]
      /\ gate' = [gate EXCEPT ![p] = "APP_READY"]
      /\ Write(p, <<[kind |-> "identified", len |-> RpcLen(p), sid |-> s]>>, TRUE)
      /\ Enqueue(p, <<[kind |-> "handshakeReady"]>>)
      /\ UNCHANGED <<opening, frameSize>>
    BY <1>2 DEF ReceiveIdentify
<1> HIDE DEF s
<1>6. Grants(p)
    BY <1>1, <1>4, <1>5 DEF Grants, Enters, Takes1
<1> QED BY <1>6 DEF StepOf

\* handleIdentified never finds an empty sid.
LEMMA IdentifiedStep ==
    ASSUME SessionInv, NEW p \in Peers, ReceiveIdentified(p)
    PROVE  StepOf(p)
<1>1. /\ Alive(p) /\ wire[p] # <<>> /\ Head(wire[p]).kind = "identified"
      /\ UNCHANGED <<config, up, lifecycle, beat, appVars>>
    BY DEF ReceiveIdentified, Receives
<1> DEFINE s == Head(wire[p]).sid
<1>2. config.logical[p] = "client" /\ s = sid[Other(p)] /\ gate[Other(p)] = "APP_READY"
    BY <1>1, NextMessage DEF Truthful
<1>3. s \in Sids /\ s # {}
    <2>1. s \in Sids
        BY <1>1, NextMessage, MessageFields
    <2>2. s # {}
        BY <1>2, TwoPeers DEF SessionInv, Joined
    <2> QED BY <2>1, <2>2
<1>4. /\ Write(p, <<>>, TRUE) /\ Enqueue(p, <<[kind |-> "handshakeReady"]>>)
      /\ sid' = [sid EXCEPT ![p] = s]
      /\ gate' = [gate EXCEPT ![p] = "APP_READY"]
      /\ UNCHANGED <<opening, frameSize>>
    BY <1>2, <1>3 DEF ReceiveIdentified
<1> HIDE DEF s
<1>5. IsGranted(p)
    BY <1>1, <1>2, <1>3, <1>4 DEF IsGranted, Enters, Takes1
<1> QED BY <1>5 DEF StepOf

\* What the runtime gate sees is admitted.
LEMMA BusinessStep ==
    ASSUME SessionInv, NEW p \in Peers, ReceiveBusiness(p)
    PROVE  StepOf(p)
<1> DEFINE m == Head(wire[p])
<1>1. /\ Alive(p) /\ wire[p] # <<>> /\ m.kind \in Business
      /\ UNCHANGED <<config, up, lifecycle, coreVars, beat, appVars>>
    BY DEF ReceiveBusiness
<1>2. gate[p] = "APP_READY" /\ Admits(p, m)
    BY <1>1, NextAdmitted
<1>3. CASE m.kind = "response"
    <2>1. Ignores(p)
        BY <1>1, <1>2, <1>3 DEF ReceiveBusiness, Ignores
    <2>2. Passes(p)
        BY <1>1, <1>3, <2>1 DEF Passes, Takes1
    <2> QED BY <2>2 DEF StepOf
<1>4. CASE m.kind # "response"
    <2>1. Write(p, <<>>, TRUE) /\ Enqueue(p, <<[kind |-> m.kind, n |-> m.n]>>)
        BY <1>1, <1>2, <1>4 DEF ReceiveBusiness
    <2>2. m.kind \in {"request", "event"}
        BY <1>1, <1>4 DEF Business
    <2>3. Dispatches(p)
        BY <1>1, <2>1, <2>2 DEF Dispatches, Takes1
    <2> QED BY <2>3 DEF StepOf
<1> QED BY <1>3, <1>4

\* Every step is one of them, or the network drops the connection.
LEMMA Steps ==
    ASSUME SessionInv, Next
    PROVE  Cut \/ \E p \in Peers : StepOf(p)
<1>1. ASSUME NEW p \in Peers, Receive(p) PROVE StepOf(p)
    BY <1>1, OpenStep, AcceptStep, TooLargeStep, HelloStep, IdentifyStep, IdentifiedStep,
       BusinessStep DEF Receive
<1>2. ASSUME NEW p \in Peers, ConsumeFatal(p) \/ Close(p) \/ StreamEnds(p) PROVE StepOf(p)
    BY <1>2 DEF ConsumeFatal, Close, StreamEnds, Takes, StepOf
<1>3. ASSUME NEW p \in Peers,
             \/ Consume(p)
             \/ \E kind \in {"request", "event"} : Send(p, kind)
             \/ \E n \in Numbers : Respond(p, n)
      PROVE  StepOf(p)
    BY <1>3 DEF StepOf
<1> QED
    BY <1>1, <1>2, <1>3, StartStep DEF Next

-----------------------------------------------------------------------------
(* The types                                                               *)

\* The record types of the sessions are what Write and Enqueue leave alone.
LEMMA LinkUpTyped ==
    ASSUME TypeOK, NEW p \in Peers, NEW size \in Nat, NEW interval \in Nat,
           NEW msgs \in Seq(Message), NEW took \in BOOLEAN, took => wire[p] # <<>>,
           LinkUp(p, size, interval, msgs, took)
    PROVE  /\ wire' \in [Peers -> Seq(Message)] /\ events' \in [Peers -> Seq(CoreEvent)]
           /\ frameSize' \in [Peers -> Nat]
           /\ gate' \in [Peers -> {"LINK_CONNECTED", "FRAMING_READY", "APP_READY"}]
           /\ UNCHANGED <<config, up, sid, beat, appVars>>
<1>1. <<[kind |-> "linkReady", interval |-> interval]>> \in Seq(CoreEvent)
    BY EventsTyped
<1> HIDE DEF Message, CoreEvent, Peers
<1>2. wire' \in [Peers -> Seq(Message)]
    BY WriteWires DEF LinkUp
<1>3. events' \in [Peers -> Seq(CoreEvent)]
    BY <1>1, EnqueueEvents DEF LinkUp
<1>4. /\ frameSize' \in [Peers -> Nat]
      /\ gate' \in [Peers -> {"LINK_CONNECTED", "FRAMING_READY", "APP_READY"}]
    BY DEF LinkUp, TypeOK
<1> QED
    BY <1>2, <1>3, <1>4 DEF LinkUp

\* The messages that open the link.
LEMMA LinkMessages ==
    ASSUME TypeOK
    PROVE  /\ OpenMessage \in Message
           /\ \A ok \in BOOLEAN : AcceptMessage(ok) \in Message
           /\ config.interval["client"] \in Nat /\ config.size["client"] \in Nat
           /\ config.size["server"] \in Nat /\ AgreedSize \in Nat
<1>1. /\ config.size["client"] \in Nat /\ config.size["server"] \in Nat
      /\ config.interval["client"] \in Nat /\ frameSize["client"] \in Nat
      /\ ControlFrame \in Nat
    BY TypedConfig, TypedPeer, SessionAssumption DEF Peers
<1>2. ControlLen("client") \in Nat /\ Min(ControlFrame, config.size["server"]) \in Nat
    BY <1>1 DEF ControlLen, Min
<1>3. UInt16(config.size["client"]) \in Nat /\ AgreedSize \in Nat
    BY <1>1, UInt16Bound, AgreedBound
<1> QED
    BY <1>1, <1>2, <1>3, MessagesTyped DEF OpenMessage, AcceptMessage

\* The messages that answer OPEN.
LEMMA AnswerTyped ==
    ASSUME TypeOK, NEW size \in Nat
    PROVE  /\ <<AcceptMessage(TRUE)>> \o HelloOf("server", size) \in Seq(Message)
           /\ <<AcceptMessage(TRUE)>> \in Seq(Message)
           /\ <<AcceptMessage(FALSE)>> \in Seq(Message)
           /\ <<OpenMessage>> \in Seq(Message)
<1>1. HelloOf("server", size) \in Seq(Message)
    BY HelloSent DEF Peers
<1>2. AcceptMessage(TRUE) \in Message /\ AcceptMessage(FALSE) \in Message /\ OpenMessage \in Message
    BY LinkMessages
<1> HIDE DEF Message
<1>3. /\ <<AcceptMessage(TRUE)>> \in Seq(Message) /\ <<AcceptMessage(FALSE)>> \in Seq(Message)
      /\ <<OpenMessage>> \in Seq(Message)
    BY <1>2, Singleton
<1> DEFINE a == <<AcceptMessage(TRUE)>>
           h == HelloOf("server", size)
<1>4. a \in Seq(Message) /\ h \in Seq(Message)
    BY <1>1, <1>3
<1> HIDE DEF a, h
<1>5. a \o h \in Seq(Message)
    BY <1>4
<1> QED
    BY <1>3, <1>5 DEF a, h

\* The limit of the messages of a session.
LEMMA RpcLenTyped ==
    ASSUME TypeOK, NEW p \in Peers
    PROVE  RpcLen(p) \in Nat
BY TypedPeer DEF RpcLen

\* What a peer in session sends.
LEMMA SpeechTyped ==
    ASSUME TypeOK, NEW p \in Peers, NEW kind \in Business, NEW n \in Numbers
    PROVE  <<[kind |-> kind, len |-> RpcLen(p), sid |-> sid[p], n |-> n]>> \in Seq(Message)
<1>1. [kind |-> kind, len |-> RpcLen(p), sid |-> sid[p], n |-> n] \in Message
    BY RpcLenTyped, TypedPeer, MessagesTyped
<1> HIDE DEF Message
<1> QED BY <1>1

\* The next number of a peer.
LEMMA NextNumber ==
    ASSUME TypeOK, NEW p \in Peers, sent[p] < MaxSends
    PROVE  sent[p] + 1 \in Numbers /\ sent[p] + 1 \in 0..MaxSends /\ sent[p] \in Nat
<1>1. sent[p] \in 0..MaxSends /\ MaxSends \in Nat
    BY TypedPeer, SessionAssumption
<1> QED BY <1>1 DEF Numbers

\* What the broker and the application of a peer say is typed.
LEMMA SpeechKept ==
    ASSUME TypeOK, NEW p \in Peers,
           \/ \E kind \in {"request", "event"} : Send(p, kind)
           \/ \E n \in Numbers : Respond(p, n)
    PROVE  TypeOK'
<1>1. ASSUME NEW kind \in {"request", "event"}, Send(p, kind) PROVE TypeOK'
    <2>1. kind \in Business /\ sent[p] + 1 \in Numbers /\ sent[p] + 1 \in 0..MaxSends
        BY <1>1, NextNumber DEF Business, Send
    <2> DEFINE msgs == <<[kind |-> kind, len |-> RpcLen(p), sid |-> sid[p], n |-> sent[p] + 1]>>
    <2>2. msgs \in Seq(Message) /\ Write(p, msgs, FALSE)
        BY <1>1, <2>1, SpeechTyped DEF Send
    <2> HIDE DEF msgs, Message, CoreEvent, Peers
    <2>3. wire' \in [Peers -> Seq(Message)]
        BY <2>2, WriteWires
    <2>4. sent' \in [Peers -> 0..MaxSends]
        BY <1>1, <2>1 DEF Send, TypeOK
    <2> QED
        BY <1>1, <2>3, <2>4 DEF Send, TypeOK, coreVars
<1>2. ASSUME NEW n \in Numbers, Respond(p, n) PROVE TypeOK'
    <2>1. "response" \in Business
        BY DEF Business
    <2> DEFINE msgs == <<[kind |-> "response", len |-> RpcLen(p), sid |-> sid[p], n |-> n]>>
    <2>2. msgs \in Seq(Message) /\ Write(p, msgs, FALSE)
        BY <1>2, <2>1, SpeechTyped DEF Respond
    <2> HIDE DEF msgs, Message, CoreEvent, Peers, Numbers
    <2>3. wire' \in [Peers -> Seq(Message)]
        BY <2>2, WriteWires
    <2>4. handling' \in [Peers -> SUBSET Numbers]
        BY <1>2 DEF Respond, TypeOK
    <2> QED
        BY <1>2, <2>3, <2>4 DEF Respond, TypeOK, coreVars
<1> QED BY <1>1, <1>2

\* What the endpoint does is typed.
LEMMA ConsumeTyped ==
    ASSUME TypeOK, NEW p \in Peers, Consume(p)
    PROVE  TypeOK'
<1>1. events[p] \in Seq(CoreEvent) /\ events[p] # <<>>
    BY TypedPeer DEF Consume, Takes
<1> DEFINE ev == Head(events[p])
<1>2. Tail(events[p]) \in Seq(CoreEvent)
    BY <1>1, Tailed
<1>3. ev \in CoreEvent
    BY <1>1, InTaken
<1>4. /\ ev.kind = "linkReady" => ev.interval \in Nat
      /\ ev.kind \in {"request", "event"} => ev.n \in Numbers /\ ev.n \in 0..MaxSends
    <2>1. Numbers \subseteq 0..MaxSends
        BY SessionAssumption DEF Numbers
    <2> QED BY <1>3, <2>1, EventFields
<1> HIDE DEF ev, Message, CoreEvent, Peers, Numbers
<1>5. events' \in [Peers -> Seq(CoreEvent)]
    BY <1>2 DEF Consume, TypeOK
<1>6. beat' \in [Peers -> Nat]
    <2>1. beat' \in {beat, [beat EXCEPT ![p] = ev.interval]}
          /\ (beat' # beat => ev.kind = "linkReady")
        BY DEF Consume, ev
    <2> QED BY <2>1, <1>4 DEF TypeOK
<1>7. lifecycle' \in [Peers -> {"idle", "connecting", "ready", "closed"}]
    BY DEF Consume, TypeOK
<1>8. handling' \in [Peers -> SUBSET Numbers]
    <2>1. CASE ev.kind = "request"
        <3>1. handling' = [handling EXCEPT ![p] = @ \cup {ev.n}] /\ ev.n \in Numbers
            BY <2>1, <1>4 DEF Consume, ev
        <3> QED BY <3>1 DEF TypeOK
    <2>2. CASE ev.kind # "request"
        BY <2>2 DEF Consume, TypeOK, ev
    <2> QED BY <2>1, <2>2
<1>9. got' \in [Peers -> 0..MaxSends]
    <2>1. CASE ev.kind \in {"request", "event"}
        <3>1. got' = [got EXCEPT ![p] = ev.n] /\ ev.n \in 0..MaxSends
            BY <2>1, <1>4 DEF Consume, ev
        <3> QED BY <3>1 DEF TypeOK
    <2>2. CASE ev.kind \notin {"request", "event"}
        BY <2>2 DEF Consume, TypeOK, ev
    <2> QED BY <2>1, <2>2
<1> QED
    BY <1>5, <1>6, <1>7, <1>8, <1>9 DEF Consume, TypeOK, coreVars

\* What close() leaves is typed.
LEMMA CloseTyped ==
    ASSUME TypeOK, NEW p \in Peers, CloseEndpoint(p)
    PROVE  TypeOK'
<1>1. <<>> \in Seq(Message) /\ <<>> \in Seq(CoreEvent)
    OBVIOUS
<1> HIDE DEF Message, CoreEvent, Peers, Numbers
<1>2. wire' \in [Peers -> Seq(Message)] /\ events' \in [Peers -> Seq(CoreEvent)]
    BY <1>1 DEF CloseEndpoint, TypeOK
<1>3. /\ lifecycle' \in [Peers -> {"idle", "connecting", "ready", "closed"}]
      /\ up' \in BOOLEAN /\ beat' \in [Peers -> Nat] /\ handling' \in [Peers -> SUBSET Numbers]
    BY DEF CloseEndpoint, TypeOK
<1> QED
    BY <1>2, <1>3 DEF CloseEndpoint, TypeOK, coreVars

\* The steps of a session stay within the types.
LEMMA TypeKept ==
    ASSUME SessionInv, NEW p \in Peers, StepOf(p)
    PROVE  TypeOK'
<1>0. TypeOK
    BY DEF SessionInv
<1>a. /\ "client" \in Peers /\ "server" \in Peers /\ TRUE \in BOOLEAN /\ FALSE \in BOOLEAN
      /\ <<>> \in Seq(Message)
    BY DEF Peers
<1>b. /\ AgreedSize \in Nat /\ config.size[p] \in Nat /\ config.interval[p] \in Nat
      /\ config.interval["client"] \in Nat
    BY <1>0, AgreedBound, TypedConfig, LinkMessages
<1>1. CASE StartsUnframed(p)
    <2>1. HelloOf(p, config.size[p]) \in Seq(Message)
        BY <1>b, HelloSent
    <2> HIDE DEF Message, CoreEvent, Peers
    <2>2. /\ wire' \in [Peers -> Seq(Message)] /\ events' \in [Peers -> Seq(CoreEvent)]
          /\ frameSize' \in [Peers -> Nat]
          /\ gate' \in [Peers -> {"LINK_CONNECTED", "FRAMING_READY", "APP_READY"}]
          /\ UNCHANGED <<config, up, sid, beat, appVars>>
        BY <1>0, <1>1, <1>a, <1>b, <2>1, LinkUpTyped DEF StartsUnframed
    <2>3. lifecycle' \in [Peers -> {"idle", "connecting", "ready", "closed"}] /\ opening' = opening
        BY <1>0, <1>1 DEF StartsUnframed, TypeOK
    <2> QED
        BY <1>0, <2>2, <2>3 DEF TypeOK, appVars
<1>2. CASE SendsOpen
    <2>1. <<OpenMessage>> \in Seq(Message)
        BY <1>0, <1>b, AnswerTyped
    <2> HIDE DEF Message, CoreEvent
    <2>2. wire' \in [Peers -> Seq(Message)]
        BY <1>0, <1>2, <1>a, <2>1, WriteWires DEF SendsOpen
    <2> HIDE DEF Peers
    <2>3. /\ lifecycle' \in [Peers -> {"idle", "connecting", "ready", "closed"}]
          /\ opening' \in [Peers -> BOOLEAN]
        BY <1>0, <1>2 DEF SendsOpen, TypeOK
    <2> QED
        BY <1>0, <1>2, <2>2, <2>3 DEF SendsOpen, TypeOK, appVars
<1>3. CASE AwaitsOpen
    <2> HIDE DEF Message, CoreEvent, Peers
    <2>1. lifecycle' \in [Peers -> {"idle", "connecting", "ready", "closed"}]
        BY <1>0, <1>3 DEF AwaitsOpen, TypeOK
    <2> QED
        BY <1>0, <1>3, <2>1 DEF AwaitsOpen, TypeOK, appVars, coreVars
<1>4. CASE DeclinesOpen
    <2>1. <<AcceptMessage(FALSE)>> \in Seq(Message)
        BY <1>0, <1>b, AnswerTyped
    <2> HIDE DEF Message, CoreEvent
    <2>2. wire' \in [Peers -> Seq(Message)]
        BY <1>0, <1>4, <1>a, <2>1, WriteWires DEF DeclinesOpen, Takes1
    <2> QED
        BY <1>0, <1>4, <2>2 DEF DeclinesOpen, Takes1, TypeOK, appVars, coreVars
<1>5. CASE AcceptsOpen
    <2>1. <<AcceptMessage(TRUE)>> \o HelloOf("server", AgreedSize) \in Seq(Message)
        BY <1>0, <1>b, AnswerTyped
    <2> HIDE DEF Message, CoreEvent
    <2>2. /\ wire' \in [Peers -> Seq(Message)] /\ events' \in [Peers -> Seq(CoreEvent)]
          /\ frameSize' \in [Peers -> Nat]
          /\ gate' \in [Peers -> {"LINK_CONNECTED", "FRAMING_READY", "APP_READY"}]
          /\ UNCHANGED <<config, up, sid, beat, appVars>>
        BY <1>0, <1>5, <1>a, <1>b, <2>1, LinkUpTyped DEF AcceptsOpen, Takes1
    <2> QED
        BY <1>0, <1>5, <2>2 DEF AcceptsOpen, Takes1, TypeOK, appVars
<1>6. CASE IsAccepted
    <2>1. HelloOf("client", AgreedSize) \in Seq(Message)
        BY <1>a, <1>b, HelloSent
    <2> HIDE DEF Message, CoreEvent
    <2>2. /\ wire' \in [Peers -> Seq(Message)] /\ events' \in [Peers -> Seq(CoreEvent)]
          /\ frameSize' \in [Peers -> Nat]
          /\ gate' \in [Peers -> {"LINK_CONNECTED", "FRAMING_READY", "APP_READY"}]
          /\ UNCHANGED <<config, up, sid, beat, appVars>>
        BY <1>0, <1>6, <1>a, <1>b, <2>1, LinkUpTyped DEF IsAccepted, Takes1
    <2> HIDE DEF Peers
    <2>3. opening' \in [Peers -> BOOLEAN]
        BY <1>0, <1>6 DEF IsAccepted, TypeOK
    <2> QED
        BY <1>0, <1>6, <2>2, <2>3 DEF IsAccepted, Takes1, TypeOK, appVars
<1>7. CASE IsDeclined
    <2>1. <<[kind |-> "linkOpenRejected"]>> \in Seq(CoreEvent)
        BY EventsTyped
    <2> HIDE DEF Message, CoreEvent
    <2>2. wire' \in [Peers -> Seq(Message)]
        BY <1>0, <1>7, <1>a, WriteWires DEF IsDeclined, Takes1
    <2>3. events' \in [Peers -> Seq(CoreEvent)]
        BY <1>0, <1>7, <1>a, <2>1, EnqueueEvents DEF IsDeclined
    <2> HIDE DEF Peers
    <2>4. opening' \in [Peers -> BOOLEAN]
        BY <1>0, <1>7 DEF IsDeclined, TypeOK
    <2> QED
        BY <1>0, <1>7, <2>2, <2>3, <2>4 DEF IsDeclined, Takes1, TypeOK, appVars
<1>8. CASE Passes(p)
    <2> HIDE DEF Message, CoreEvent
    <2>2. wire' \in [Peers -> Seq(Message)]
        BY <1>0, <1>8, <1>a, WriteWires DEF Passes, Ignores, Takes1
    <2> QED
        BY <1>0, <1>8, <2>2 DEF Passes, Ignores, Takes1, TypeOK, appVars, coreVars
<1>9. CASE Identifies(p)
    <2>1. PICK seed \in Sids :
             Write(p, <<[kind |-> "identify", len |-> RpcLen(p), seed |-> seed]>>, TRUE)
        BY <1>9 DEF Identifies
    <2>2. <<[kind |-> "identify", len |-> RpcLen(p), seed |-> seed]>> \in Seq(Message)
        <3>1. [kind |-> "identify", len |-> RpcLen(p), seed |-> seed] \in Message
            BY <1>0, RpcLenTyped, MessagesTyped
        <3> QED
            BY <3>1, Singleton
    <2> HIDE DEF Message, CoreEvent
    <2>3. wire' \in [Peers -> Seq(Message)]
        BY <1>0, <1>9, <1>a, <2>1, <2>2, WriteWires DEF Identifies, Takes1
    <2> QED
        BY <1>0, <1>9, <2>3 DEF Identifies, Takes1, TypeOK, appVars, coreVars
<1>10. ASSUME NEW s \in Sids, Enters(p, s)
       PROVE  /\ sid' \in [Peers -> Sids \cup {NoSid}]
              /\ gate' \in [Peers -> {"LINK_CONNECTED", "FRAMING_READY", "APP_READY"}]
              /\ events' \in [Peers -> Seq(CoreEvent)]
              /\ UNCHANGED <<opening, frameSize>>
    <2>1. <<[kind |-> "handshakeReady"]>> \in Seq(CoreEvent)
        BY EventsTyped
    <2> HIDE DEF Message, CoreEvent, Peers, Sids, NoSid
    <2>2. events' \in [Peers -> Seq(CoreEvent)]
        BY <1>0, <1>10, <2>1, EnqueueEvents DEF Enters
    <2> QED
        BY <1>0, <1>10, <2>2 DEF Enters, TypeOK
<1>11. CASE Grants(p)
    <2>1. PICK s \in Sids :
             /\ Enters(p, s)
             /\ Write(p, <<[kind |-> "identified", len |-> RpcLen(p), sid |-> s]>>, TRUE)
        BY <1>11 DEF Grants
    <2>2. <<[kind |-> "identified", len |-> RpcLen(p), sid |-> s]>> \in Seq(Message)
        <3>1. [kind |-> "identified", len |-> RpcLen(p), sid |-> s] \in Message
            BY <1>0, RpcLenTyped, MessagesTyped
        <3> QED
            BY <3>1, Singleton
    <2> HIDE DEF Message, CoreEvent, Peers, Sids, NoSid
    <2>3. wire' \in [Peers -> Seq(Message)]
        BY <1>0, <1>11, <1>a, <2>1, <2>2, WriteWires DEF Grants, Takes1
    <2> QED
        BY <1>0, <1>10, <1>11, <2>1, <2>3 DEF Grants, Takes1, TypeOK, appVars
<1>12. CASE IsGranted(p)
    <2>1. sid[Other(p)] \in Sids
        BY <1>12 DEF IsGranted, Enters
    <2> HIDE DEF Message, CoreEvent, Peers, Sids, NoSid
    <2>2. wire' \in [Peers -> Seq(Message)]
        BY <1>0, <1>12, <1>a, WriteWires DEF IsGranted, Takes1
    <2> QED
        BY <1>0, <1>10, <1>12, <2>1, <2>2 DEF IsGranted, Takes1, TypeOK, appVars
<1>13. CASE Dispatches(p)
    <2> DEFINE h == Head(wire[p])
    <2>1. wire[p] # <<>> /\ h.kind \in {"request", "event"}
        BY <1>13 DEF Dispatches, Takes1
    <2>2. h.n \in Numbers
        BY <2>1, NextMessage, MessageFields DEF Business
    <2> HIDE DEF h
    <2>3. [kind |-> h.kind, n |-> h.n] \in CoreEvent
        BY <2>1, <2>2, EventsTyped
    <2> HIDE DEF Message, CoreEvent, Peers, Sids, NoSid, Numbers
    <2>4. <<[kind |-> h.kind, n |-> h.n]>> \in Seq(CoreEvent)
        BY <2>3
    <2>5. wire' \in [Peers -> Seq(Message)]
        BY <1>0, <1>13, <1>a, <2>1, WriteWires DEF Dispatches
    <2>6. events' \in [Peers -> Seq(CoreEvent)]
        BY <1>0, <1>13, <2>4, EnqueueEvents DEF Dispatches, h
    <2> QED
        BY <1>0, <1>13, <2>5, <2>6 DEF Dispatches, Takes1, TypeOK, appVars, coreVars
<1>14. CASE \/ \E kind \in {"request", "event"} : Send(p, kind)
            \/ \E n \in Numbers : Respond(p, n)
    BY <1>0, <1>14, SpeechKept
<1>15. CASE Consume(p)
    BY <1>0, <1>15, ConsumeTyped
<1>16. CASE CloseEndpoint(p)
    BY <1>0, <1>16, CloseTyped
<1> QED
    BY <1>1, <1>2, <1>3, <1>4, <1>5, <1>6, <1>7, <1>8, <1>9, <1>11, <1>12, <1>13, <1>14,
       <1>15, <1>16 DEF StepOf

-----------------------------------------------------------------------------
(* What is on the wires                                                    *)

\* A message bears witness of its kind.
LEMMA InHas ==
    ASSUME NEW s, NEW m, In(m, s)
    PROVE  Has(s, m.kind)
BY HasKind

\* Where neither the cores nor the setup change, what is said stays so.
LEMMA StillTruthful ==
    ASSUME NEW p, NEW m, UNCHANGED <<config, coreVars>>, Truthful(p, m)
    PROVE  Truthful(p, m)'
<1>1. UNCHANGED <<config, gate, sid, frameSize, opening>>
    BY DEF coreVars
<1>2. AgreedSize' = AgreedSize /\ RpcLen(Other(p))' = RpcLen(Other(p))
    BY <1>1 DEF AgreedSize, RpcLen
<1> HIDE DEF AgreedSize, RpcLen
<1> QED
    BY <1>1, <1>2 DEF Truthful

\* The messages under way are those that were, and those just written.
LEMMA MessagesWritten ==
    ASSUME SessionInv, NEW p \in Peers, NEW msgs \in Seq(Message), NEW took \in BOOLEAN,
           took => wire[p] # <<>>, Write(p, msgs, took), UNCHANGED <<config, coreVars>>,
           up => \A m : In(m, msgs) => Truthful(Other(p), m)
    PROVE  MessagesOK'
<1> SUFFICES ASSUME NEW q \in Peers, NEW m \in Message, In(m, wire'[q])
             PROVE  Truthful(q, m)'
    BY DEF MessagesOK
<1>1. TypeOK /\ (q = p \/ q = Other(p))
    BY TwoPeers DEF SessionInv
<1>2. Truthful(q, m)
    <2>1. CASE In(m, wire[q])
        BY <2>1 DEF SessionInv, MessagesOK
    <2>2. CASE ~In(m, wire[q])
        <3>1. q = Other(p) /\ up /\ In(m, msgs)
            BY <1>1, <2>2, WriteMembers
        <3> QED BY <3>1
    <2> QED BY <2>1, <2>2
<1> QED
    BY <1>2, StillTruthful

\* The limit of a framed link, once a peer has opened it.
LEMMA FramedLimit ==
    ASSUME SessionInv, NEW p \in Peers, config.framed, gate[p] # "LINK_CONNECTED"
    PROVE  frameSize[p] = AgreedSize /\ gate["server"] # "LINK_CONNECTED"
BY DEF SessionInv, Linked, Peers

\* What a peer in session sends is what its peer expects.
LEMMA SpeechTruthful ==
    ASSUME SessionInv, NEW p \in Peers, gate[p] = "APP_READY", NEW kind \in Business, NEW n
    PROVE  Truthful(Other(p), [kind |-> kind, len |-> RpcLen(p), sid |-> sid[p], n |-> n])
<1> DEFINE m == [kind |-> kind, len |-> RpcLen(p), sid |-> sid[p], n |-> n]
<1>1. m.kind \in Business /\ m.len = RpcLen(p) /\ m.sid = sid[p]
    OBVIOUS
<1>2. Other(Other(p)) = p
    BY TwoPeers
<1>3. config.framed => frameSize[p] = AgreedSize /\ gate["server"] # "LINK_CONNECTED"
    BY FramedLimit
<1> HIDE DEF m
<1>4. Truthful(Other(p), m)
    BY <1>1, <1>2, <1>3 DEF Truthful, Business
<1> QED BY <1>4 DEF m

\* The runtime gate of a peer that speaks is open.
LEMMA SpeakerReady ==
    ASSUME SessionInv, NEW p \in Peers,
           \/ \E kind \in {"request", "event"} : Send(p, kind)
           \/ \E n \in Numbers : Respond(p, n)
    PROVE  gate[p] = "APP_READY"
BY DEF Send, Respond, SessionInv, Lives, Life

\* The cores stay as they are and what is written is true.
LEMMA QuietMessages ==
    ASSUME SessionInv, NEW p \in Peers,
           \/ Passes(p) \/ Identifies(p) \/ Dispatches(p)
           \/ \E kind \in {"request", "event"} : Send(p, kind)
           \/ \E n \in Numbers : Respond(p, n)
    PROVE  MessagesOK'
<1>0. TypeOK
    BY DEF SessionInv
<1>a. <<>> \in Seq(Message) /\ \A x : ~In(x, <<>>)
    <2>1. <<>> \in Seq(Message)
        OBVIOUS
    <2> QED BY <2>1, InLiteral
<1>1. CASE Passes(p) \/ Dispatches(p)
    <2>1. Write(p, <<>>, TRUE) /\ wire[p] # <<>> /\ UNCHANGED <<config, coreVars>>
        BY <1>1 DEF Passes, Dispatches, Ignores, Takes1
    <2> HIDE DEF Message
    <2> QED
        BY <1>a, <2>1, MessagesWritten
<1>2. CASE Identifies(p)
    <2>1. PICK seed \in Sids :
             Write(p, <<[kind |-> "identify", len |-> RpcLen(p), seed |-> seed]>>, TRUE)
        BY <1>2 DEF Identifies
    <2> DEFINE m == [kind |-> "identify", len |-> RpcLen(p), seed |-> seed]
    <2>2. m \in Message /\ m.kind = "identify" /\ m.len = RpcLen(p)
        BY <1>0, RpcLenTyped, MessagesTyped
    <2>3. wire[p] # <<>> /\ Alive(p) /\ UNCHANGED <<config, coreVars>>
        BY <1>2 DEF Identifies, Takes1
    <2>4. Head(wire[p]).kind = "hello" /\ config.logical[p] = "client"
        BY <1>2 DEF Identifies, Takes1
    <2>5. /\ config.logical[Other(p)] = "server" /\ gate[Other(p)] = "FRAMING_READY"
          /\ config.framed => gate["server"] # "LINK_CONNECTED"
        BY <2>3, <2>4, NextMessage DEF Truthful
    <2>6. config.framed => frameSize[p] = AgreedSize
        BY <2>3, <2>4, NextWithinLimit
    <2>7. Other(Other(p)) = p
        BY TwoPeers
    <2> HIDE DEF m
    <2>8. Truthful(Other(p), m)
        BY <2>2, <2>4, <2>5, <2>6, <2>7 DEF Truthful, Business
    <2> HIDE DEF Message
    <2>9. <<m>> \in Seq(Message) /\ \A x : In(x, <<m>>) => x = m
        BY <2>2, Singleton, InLiteral
    <2>10. Write(p, <<m>>, TRUE)
        BY <2>1 DEF m
    <2> QED
        BY <2>3, <2>8, <2>9, <2>10, MessagesWritten
<1>3. ASSUME NEW kind \in Business, NEW n \in Numbers, gate[p] = "APP_READY",
             Write(p, <<[kind |-> kind, len |-> RpcLen(p), sid |-> sid[p], n |-> n]>>, FALSE),
             UNCHANGED <<config, coreVars>>
      PROVE  MessagesOK'
    <2> DEFINE m == [kind |-> kind, len |-> RpcLen(p), sid |-> sid[p], n |-> n]
    <2>1. Truthful(Other(p), m)
        BY <1>3, SpeechTruthful
    <2>2. <<m>> \in Seq(Message)
        BY <1>0, SpeechTyped
    <2>3. Write(p, <<m>>, FALSE)
        BY <1>3
    <2> HIDE DEF m, Message
    <2>4. \A x : In(x, <<m>>) => x = m
        BY InLiteral
    <2> QED
        BY <1>3, <2>1, <2>2, <2>3, <2>4, MessagesWritten
<1>4. ASSUME NEW kind \in {"request", "event"}, Send(p, kind) PROVE MessagesOK'
    <2>1. kind \in Business /\ sent[p] + 1 \in Numbers /\ gate[p] = "APP_READY"
        BY <1>0, <1>4, NextNumber, SpeakerReady DEF Business, Send
    <2> QED
        BY <1>3, <1>4, <2>1 DEF Send
<1>5. ASSUME NEW n \in Numbers, Respond(p, n) PROVE MessagesOK'
    <2>1. "response" \in Business /\ gate[p] = "APP_READY"
        BY <1>5, SpeakerReady DEF Business
    <2> QED
        BY <1>3, <1>5, <2>1 DEF Respond
<1> QED BY <1>1, <1>2, <1>4, <1>5

\* Opening the link.
LEMMA OpenMessages ==
    ASSUME SessionInv, SendsOpen
    PROVE  MessagesOK'
<1>0. TypeOK /\ Linked
    BY DEF SessionInv
<1>1. /\ "client" \in Peers /\ Other("client") = "server" /\ Other("server") = "client"
      /\ config.framed /\ gate["server"] = "LINK_CONNECTED"
      /\ opening'["client"] = TRUE
      /\ Write("client", <<OpenMessage>>, FALSE)
      /\ UNCHANGED <<config, gate, sid, frameSize>>
    BY <1>0 DEF SendsOpen, Linked, Peers, Other, TypeOK
<1>2. /\ OpenMessage.kind = "open" /\ OpenMessage.len <= ControlFrame
      /\ OpenMessage.size = UInt16(config.size["client"])
      /\ OpenMessage.interval = config.interval["client"]
    <2>1. ControlFrame \in Nat /\ frameSize["client"] \in Nat
        BY <1>0, <1>1, SessionAssumption, TypedPeer
    <2> QED BY <2>1 DEF OpenMessage, ControlLen, Min
<1>3. <<OpenMessage>> \in Seq(Message) /\ \A x : In(x, <<OpenMessage>>) => x = OpenMessage
    BY <1>0, LinkMessages, Singleton, InLiteral
<1> HIDE DEF OpenMessage, Message
<1> SUFFICES ASSUME NEW q \in Peers, NEW m \in Message, In(m, wire'[q])
             PROVE  Truthful(q, m)'
    BY DEF MessagesOK
<1>4. In(m, wire[q]) \/ (q = "server" /\ m = OpenMessage)
    BY <1>0, <1>1, <1>3, WriteMembers, TwoPeers DEF Peers
<1>5. AgreedSize' = AgreedSize /\ RpcLen(Other(q))' = RpcLen(Other(q))
    BY <1>1 DEF AgreedSize, RpcLen
<1> HIDE DEF AgreedSize, RpcLen
<1>6. CASE In(m, wire[q])
    <2>1. Truthful(q, m)
        BY <1>6 DEF SessionInv, MessagesOK
    <2> QED
        BY <1>1, <1>5, <2>1 DEF Truthful
<1>7. CASE q = "server" /\ m = OpenMessage
    BY <1>1, <1>2, <1>7 DEF Truthful, Business
<1> QED BY <1>4, <1>6, <1>7

\* An OPEN that is turned down.
LEMMA DeclineMessages ==
    ASSUME SessionInv, DeclinesOpen
    PROVE  MessagesOK'
<1>0. TypeOK /\ Linked
    BY DEF SessionInv
<1>1. /\ wire["server"] # <<>> /\ Head(wire["server"]).kind = "open" /\ "server" \in Peers
      /\ Write("server", <<AcceptMessage(FALSE)>>, TRUE)
      /\ UNCHANGED <<config, coreVars>>
    BY DEF DeclinesOpen, Takes1, Peers
<1>2. opening["client"] /\ gate["server"] = "LINK_CONNECTED" /\ config.framed
    BY <1>1, NextMessage DEF Truthful
<1> DEFINE m == AcceptMessage(FALSE)
<1>3. /\ m.kind = "accept" /\ ~m.ok /\ m.len = Min(ControlFrame, config.size["server"])
      /\ m.interval = config.interval["client"]
    BY DEF AcceptMessage
<1>4. <<m>> \in Seq(Message)
    BY <1>0, LinkMessages, Singleton
<1> HIDE DEF m, Message
<1>5. \A x : In(x, <<m>>) => x = m
    BY InLiteral
<1>6. Other("server") = "client" /\ gate["client"] = "LINK_CONNECTED"
    BY <1>0, <1>2 DEF Linked, Other
<1>7. Truthful("client", m)
    BY <1>2, <1>3, <1>6 DEF Truthful, Business
<1>8. Write("server", <<m>>, TRUE)
    BY <1>1 DEF m
<1> QED
    BY <1>1, <1>4, <1>5, <1>6, <1>7, <1>8, MessagesWritten

\* The unframed link is ready at once.
LEMMA UnframedMessages ==
    ASSUME SessionInv, NEW p \in Peers, StartsUnframed(p)
    PROVE  MessagesOK'
<1>0. TypeOK /\ Linked
    BY DEF SessionInv
<1>1. /\ ~config.framed /\ gate[p] = "LINK_CONNECTED" /\ frameSize[p] = config.size[p]
      /\ gate' = [gate EXCEPT ![p] = "FRAMING_READY"]
      /\ Write(p, HelloOf(p, config.size[p]), FALSE)
      /\ UNCHANGED <<config, sid>>
    BY <1>0 DEF StartsUnframed, LinkUp, Linked
<1>2. config.size[p] \in Nat /\ Other(p) \in Peers /\ Other(p) # p /\ Other(Other(p)) = p
    BY <1>0, TypedConfig, TwoPeers
<1>3. gate'[p] = "FRAMING_READY" /\ gate'[Other(p)] = gate[Other(p)]
    BY <1>0, <1>1, <1>2 DEF TypeOK
<1> SUFFICES ASSUME NEW q \in Peers, NEW m \in Message, In(m, wire'[q])
             PROVE  Truthful(q, m)'
    BY DEF MessagesOK
<1>4. RpcLen(Other(q)) = 0 /\ RpcLen(Other(q))' = 0
    BY <1>1 DEF RpcLen
<1> HIDE DEF RpcLen, Message
<1>5. q = p \/ q = Other(p)
    BY TwoPeers
<1>6. CASE In(m, wire[q])
    <2>1. Truthful(q, m)
        BY <1>6 DEF SessionInv, MessagesOK
    <2> QED
        BY <1>1, <1>2, <1>3, <1>4, <1>5, <2>1 DEF Truthful
<1>7. CASE ~In(m, wire[q])
    <2>1. q = Other(p) /\ In(m, HelloOf(p, config.size[p]))
        <3>1. HelloOf(p, config.size[p]) \in Seq(Message) /\ FALSE \in BOOLEAN
            BY <1>2, HelloSent
        <3>2. \A x : /\ In(x, wire'[p]) => In(x, wire[p])
                     /\ In(x, wire'[Other(p)]) =>
                           In(x, wire[Other(p)]) \/ In(x, HelloOf(p, config.size[p]))
            BY <1>0, <1>1, <3>1, WriteMembers
        <3> QED BY <1>5, <1>7, <3>2
    <2>2. config.logical[p] = "server" /\ m = [kind |-> "hello", len |-> 0]
        <3>1. /\ config.logical[p] = "server"
              /\ m = [kind |-> "hello", len |-> IF config.framed THEN config.size[p] ELSE 0]
            BY <1>2, <2>1, OnlyHello
        <3> QED BY <1>1, <3>1
    <2>3. m.kind = "hello" /\ m.len = 0
        BY <2>2
    <2> QED
        BY <1>1, <1>2, <1>3, <1>4, <2>1, <2>2, <2>3 DEF Truthful, Business
<1> QED BY <1>6, <1>7

\* handleOpen finds the wires empty but for OPEN.
LEMMA AcceptMessages ==
    ASSUME SessionInv, AcceptsOpen
    PROVE  MessagesOK'
<1>0. TypeOK /\ Linked /\ "server" \in Peers /\ "client" \in Peers
      /\ Other("server") = "client" /\ Other("client") = "server"
    BY DEF SessionInv, Peers, Other
<1> DEFINE msgs == <<AcceptMessage(TRUE)>> \o HelloOf("server", AgreedSize)
<1>1. /\ wire["server"] # <<>> /\ Head(wire["server"]).kind = "open"
      /\ Write("server", msgs, TRUE)
      /\ frameSize' = [frameSize EXCEPT !["server"] = AgreedSize]
      /\ gate' = [gate EXCEPT !["server"] = "FRAMING_READY"]
      /\ UNCHANGED <<config, sid, opening>>
    BY DEF AcceptsOpen, Takes1, LinkUp
<1>2. opening["client"] /\ gate["server"] = "LINK_CONNECTED" /\ config.framed
    BY <1>0, <1>1, NextMessage DEF Truthful
<1>3. wire["client"] = <<>> /\ gate["client"] = "LINK_CONNECTED"
    BY <1>0, <1>1, <1>2, NextIsOpen DEF Linked
<1>4. AgreedSize \in Nat /\ msgs \in Seq(Message)
    BY <1>0, AgreedBound, AnswerTyped
<1>5. /\ frameSize'["server"] = AgreedSize /\ gate'["server"] = "FRAMING_READY"
      /\ gate'["client"] = "LINK_CONNECTED"
    BY <1>0, <1>1, <1>3 DEF TypeOK
<1>6. AgreedSize' = AgreedSize /\ RpcLen("server")' = AgreedSize
    BY <1>1, <1>2, <1>5 DEF AgreedSize, RpcLen
<1>7. \A x : In(x, msgs) => x = AcceptMessage(TRUE) \/ In(x, HelloOf("server", AgreedSize))
    <2> DEFINE a == <<AcceptMessage(TRUE)>>
               h == HelloOf("server", AgreedSize)
    <2>1. a \in Seq(Message) /\ h \in Seq(Message)
        BY <1>0, <1>4, HelloSent, AnswerTyped
    <2>2. \A x : In(x, a) <=> x = AcceptMessage(TRUE)
        BY InLiteral
    <2> HIDE DEF a, h, Message
    <2>3. \A x : In(x, a \o h) <=> In(x, a) \/ In(x, h)
        BY <2>1, InConcatenated
    <2> QED
        BY <2>2, <2>3 DEF a, h
<1>8. /\ AcceptMessage(TRUE).kind = "accept" /\ AcceptMessage(TRUE).ok
      /\ AcceptMessage(TRUE).len = Min(ControlFrame, config.size["server"])
      /\ AcceptMessage(TRUE).size = AgreedSize
      /\ AcceptMessage(TRUE).interval = config.interval["client"]
    BY DEF AcceptMessage
<1> HIDE DEF msgs, AcceptMessage, Message
<1> SUFFICES ASSUME NEW q \in Peers, NEW m \in Message, In(m, wire'[q])
             PROVE  Truthful(q, m)'
    BY DEF MessagesOK
<1>9. CASE q = "server"
    <2>1. In(m, wire["server"]) /\ Has(wire'["server"], m.kind)
        <3>1. In(m, wire["server"])
            BY <1>0, <1>1, <1>4, <1>9, WriteMembers
        <3>2. Has(wire'["server"], m.kind)
            BY <1>9, InHas
        <3> QED BY <3>1, <3>2
    <2>2. Before("open", m.kind)
        <3>1. Sorted(wire["server"])
            BY <1>0 DEF SessionInv, InTurn
        <3>2. Before(Head(wire["server"]).kind, m.kind)
            BY <1>0, <1>1, <1>4, <2>1, <3>1, WriteKinds
        <3> QED BY <1>1, <3>2
    <2>3. m.kind # "open" /\ m.kind # "accept"
        BY <2>2 DEF Before, Rank
    <2>4. Truthful("server", m)
        BY <1>0, <2>1 DEF SessionInv, MessagesOK
    <2>5. gate["server"] # "LINK_CONNECTED"
        BY <1>2, <2>3, <2>4 DEF Truthful
    <2> QED BY <1>2, <2>5
<1>10. CASE q = "client"
    <2>1. ~In(m, wire["client"])
        BY <1>3, InLiteral
    <2>2. In(m, msgs)
        BY <1>0, <1>1, <1>4, <1>10, <2>1, WriteMembers
    <2>3. CASE m = AcceptMessage(TRUE)
        BY <1>0, <1>1, <1>2, <1>5, <1>6, <1>8, <1>10, <2>3 DEF Truthful, Business
    <2>4. CASE In(m, HelloOf("server", AgreedSize))
        <3>1. config.logical["server"] = "server" /\ m.kind = "hello" /\ m.len = AgreedSize
            BY <1>0, <1>2, <1>4, <2>4, HelloSent
        <3> QED
            BY <1>0, <1>1, <1>2, <1>5, <1>6, <1>10, <3>1 DEF Truthful, Business
    <2> QED BY <1>7, <2>2, <2>3, <2>4
<1> QED BY <1>9, <1>10 DEF Peers

\* handleAccept, ok: the wires hold the server's Hello, if any.
LEMMA AcceptedMessages ==
    ASSUME SessionInv, IsAccepted
    PROVE  MessagesOK'
<1>0. TypeOK /\ Linked /\ "server" \in Peers /\ "client" \in Peers
      /\ Other("server") = "client" /\ Other("client") = "server"
    BY DEF SessionInv, Peers, Other
<1> DEFINE msgs == HelloOf("client", AgreedSize)
           h == Head(wire["client"])
<1>1. /\ wire["client"] # <<>> /\ h.kind = "accept" /\ h.ok
      /\ Write("client", msgs, TRUE)
      /\ frameSize' = [frameSize EXCEPT !["client"] = AgreedSize]
      /\ gate' = [gate EXCEPT !["client"] = "FRAMING_READY"]
      /\ UNCHANGED <<config, sid>>
    BY DEF IsAccepted, Takes1, LinkUp
<1>2. gate["server"] # "LINK_CONNECTED" /\ Truthful("client", h)
    BY <1>0, <1>1, NextMessage DEF Truthful
<1>3. config.framed /\ gate["client"] = "LINK_CONNECTED" /\ ~Has(wire["server"], "open")
    BY <1>0, <1>1, NextIsAccept
<1>4. AgreedSize \in Nat
    BY <1>0, AgreedBound
<1>5. msgs \in Seq(Message)
    BY <1>0, <1>4, HelloSent
<1>6. /\ frameSize'["client"] = AgreedSize /\ frameSize'["server"] = frameSize["server"]
      /\ gate'["client"] = "FRAMING_READY" /\ gate'["server"] = gate["server"]
    BY <1>0, <1>1 DEF TypeOK
<1>7. /\ AgreedSize' = AgreedSize /\ RpcLen("client")' = AgreedSize
      /\ RpcLen("server")' = RpcLen("server")
    BY <1>1, <1>3, <1>6 DEF AgreedSize, RpcLen
<1> HIDE DEF msgs, h, Message, AgreedSize
<1> SUFFICES ASSUME NEW q \in Peers, NEW m \in Message, In(m, wire'[q])
             PROVE  Truthful(q, m)'
    BY DEF MessagesOK
<1>8. CASE q = "client"
    <2>1. In(m, wire["client"])
        BY <1>0, <1>1, <1>5, <1>8, WriteMembers
    <2>2. Has(wire'["client"], m.kind)
        BY <1>8, InHas
    <2>3. Sorted(wire["client"])
        BY <1>0 DEF SessionInv, InTurn
    <2>4. Before(Head(wire["client"]).kind, m.kind)
        BY <1>0, <1>1, <1>5, <2>2, <2>3, WriteKinds
    <2>5. m.kind # "open" /\ m.kind # "accept"
        BY <1>1, <2>4 DEF Before, Rank, h
    <2>6. Truthful("client", m)
        BY <1>0, <2>1 DEF SessionInv, MessagesOK
    <2> QED
        BY <1>0, <1>1, <1>2, <1>3, <1>6, <1>7, <1>8, <2>5, <2>6 DEF Truthful
<1>9. CASE q = "server"
    <2>1. CASE In(m, wire["server"])
        <3>1. m.kind # "open"
            BY <1>3, <2>1, InHas
        <3>2. Truthful("server", m)
            BY <1>0, <2>1 DEF SessionInv, MessagesOK
        <3>3. m.kind = "identify"
            BY <1>0, <1>3, <3>1, <3>2, MessageFields DEF Truthful, Business
        <3>4. /\ config.logical["client"] = "client" /\ config.logical["server"] = "server"
              /\ gate["server"] = "FRAMING_READY" /\ m.len = RpcLen("client")
              /\ frameSize["client"] = AgreedSize
            BY <1>0, <1>3, <3>2, <3>3 DEF Truthful, Business
        <3>5. m.len = AgreedSize
            BY <1>3, <3>4 DEF RpcLen
        <3> QED
            BY <1>0, <1>1, <1>2, <1>6, <1>7, <1>9, <3>3, <3>4, <3>5 DEF Truthful, Business
    <2>2. CASE ~In(m, wire["server"])
        <3>1. In(m, msgs)
            BY <1>0, <1>1, <1>5, <1>9, <2>2, WriteMembers
        <3>2. config.logical["client"] = "server" /\ m = [kind |-> "hello", len |-> AgreedSize]
            BY <1>0, <1>3, <1>4, <3>1, HelloSent DEF msgs
        <3>3. m.kind = "hello" /\ m.len = AgreedSize
            BY <3>2
        <3> QED
            BY <1>0, <1>1, <1>2, <1>6, <1>7, <1>9, <3>2, <3>3 DEF Truthful, Business
    <2> QED BY <2>1, <2>2
<1> QED BY <1>8, <1>9 DEF Peers

\* handleAccept, not ok: nothing else is under way that depends on it.
LEMMA DeclinedMessages ==
    ASSUME SessionInv, IsDeclined
    PROVE  MessagesOK'
<1>0. TypeOK /\ "server" \in Peers /\ "client" \in Peers /\ Other("client") = "server"
    BY DEF SessionInv, Peers, Other
<1>1. /\ wire["client"] # <<>> /\ Head(wire["client"]).kind = "accept"
      /\ Write("client", <<>>, TRUE)
      /\ UNCHANGED <<config, gate, sid, frameSize>>
    BY DEF IsDeclined, Takes1
<1>2. ~Has(wire["server"], "open")
    BY <1>0, <1>1, NextIsAccept
<1>3. <<>> \in Seq(Message) /\ \A x : ~In(x, <<>>)
    <2>1. <<>> \in Seq(Message)
        OBVIOUS
    <2> QED BY <2>1, InLiteral
<1> HIDE DEF Message
<1> SUFFICES ASSUME NEW q \in Peers, NEW m \in Message, In(m, wire'[q])
             PROVE  Truthful(q, m)'
    BY DEF MessagesOK
<1>4. In(m, wire[q])
    BY <1>0, <1>1, <1>3, WriteMembers DEF Peers
<1>5. m.kind # "open" /\ m.kind # "accept"
    <2>1. CASE q = "server"
        <3>1. Has(wire["server"], m.kind) /\ Truthful("server", m)
            BY <1>0, <1>4, <2>1, InHas DEF SessionInv, MessagesOK
        <3> QED
            BY <1>2, <3>1 DEF Truthful
    <2>2. CASE q = "client"
        <3>1. Has(wire'["client"], m.kind)
            BY <2>2, InHas
        <3>2. Sorted(wire["client"])
            BY <1>0 DEF SessionInv, InTurn
        <3>3. \A k : Has(wire'["client"], k) => Before(Head(wire["client"]).kind, k)
            BY <1>0, <1>1, <1>3, <3>2, TakenBefore
        <3>4. Before(Head(wire["client"]).kind, m.kind)
            BY <3>1, <3>3
        <3> QED
            BY <1>1, <3>4 DEF Before, Rank
    <2> QED BY <2>1, <2>2 DEF Peers
<1>6. Truthful(q, m)
    BY <1>4 DEF SessionInv, MessagesOK
<1>7. AgreedSize' = AgreedSize /\ RpcLen(Other(q))' = RpcLen(Other(q))
    BY <1>1 DEF AgreedSize, RpcLen
<1> HIDE DEF AgreedSize, RpcLen
<1> QED
    BY <1>1, <1>5, <1>6, <1>7 DEF Truthful

\* handleIdentify ends what was said before it.
LEMMA GrantMessages ==
    ASSUME SessionInv, NEW p \in Peers, Grants(p)
    PROVE  MessagesOK'
<1>0. TypeOK /\ Joined /\ Other(p) \in Peers /\ Other(p) # p /\ Other(Other(p)) = p
    BY TwoPeers DEF SessionInv
<1>1. /\ wire[p] # <<>> /\ Head(wire[p]).kind = "identify" /\ Alive(p)
      /\ UNCHANGED <<config, opening, frameSize>>
    BY DEF Grants, Takes1, Enters
<1>2. PICK s \in Sids :
         /\ sid' = [sid EXCEPT ![p] = s]
         /\ gate' = [gate EXCEPT ![p] = "APP_READY"]
         /\ Write(p, <<[kind |-> "identified", len |-> RpcLen(p), sid |-> s]>>, TRUE)
    BY DEF Grants, Enters
<1>3. /\ config.logical[Other(p)] = "client" /\ config.logical[p] = "server"
      /\ gate[p] = "FRAMING_READY" /\ (config.framed => gate["server"] # "LINK_CONNECTED")
      /\ Has(wire[p], "identify")
    BY <1>1, NextMessage DEF Truthful, Business
<1>4. config.framed => frameSize[p] = AgreedSize
    BY <1>1, NextWithinLimit
<1>5. gate[Other(p)] # "APP_READY"
    BY <1>0, <1>3 DEF Joined
<1>6. ~Has(wire[Other(p)], "hello")
    BY <1>0, <1>3 DEF SessionInv, InTurn
<1> DEFINE n == [kind |-> "identified", len |-> RpcLen(p), sid |-> s]
<1>7. n \in Message /\ n.kind = "identified" /\ n.len = RpcLen(p) /\ n.sid = s
    BY <1>0, RpcLenTyped, MessagesTyped
<1> HIDE DEF n, Message
<1>8. <<n>> \in Seq(Message) /\ Write(p, <<n>>, TRUE) /\ \A x : In(x, <<n>>) => x = n
    BY <1>2, <1>7, Singleton, InLiteral DEF n
<1>9. /\ gate'[p] = "APP_READY" /\ gate'[Other(p)] = gate[Other(p)]
      /\ sid'[p] = s /\ sid'[Other(p)] = sid[Other(p)]
    BY <1>0, <1>2 DEF TypeOK
<1>10. /\ AgreedSize' = AgreedSize /\ RpcLen(p)' = RpcLen(p)
       /\ RpcLen(Other(p))' = RpcLen(Other(p))
    BY <1>1 DEF AgreedSize, RpcLen
<1>11. gate'["server"] # "LINK_CONNECTED" <=> gate["server"] # "LINK_CONNECTED"
    BY <1>0, <1>3, <1>9, TwoPeers
<1> HIDE DEF AgreedSize, RpcLen
<1> SUFFICES ASSUME NEW q \in Peers, NEW m \in Message, In(m, wire'[q])
             PROVE  Truthful(q, m)'
    BY DEF MessagesOK
<1>12. CASE q = p
    <2>1. In(m, wire[p])
        BY <1>0, <1>1, <1>8, <1>12, WriteMembers
    <2>2. Has(wire'[p], m.kind)
        BY <1>12, InHas
    <2>3. Sorted(wire[p])
        BY DEF SessionInv, InTurn
    <2>4. Before(Head(wire[p]).kind, m.kind)
        <3>1. \A k : Has(wire'[p], k) => Before(Head(wire[p]).kind, k)
            BY <1>0, <1>1, <1>8, <2>3, TakenBefore
        <3> QED BY <2>2, <3>1
    <2>5. m.kind \in {"identified"} \cup Business
        BY <1>1, <2>4, MessageFields DEF Before, Rank, Business
    <2>6. Truthful(p, m)
        BY <2>1 DEF SessionInv, MessagesOK
    <2>7. m.kind \in Business
        BY <1>3, <2>5, <2>6 DEF Truthful
    <2> QED
        BY <1>0, <1>1, <1>9, <1>10, <1>11, <1>12, <2>6, <2>7 DEF Truthful, Business
<1>13. CASE q = Other(p)
    <2>1. CASE In(m, wire[q])
        <3>1. Truthful(q, m) /\ m.kind # "hello"
            BY <1>6, <1>13, <2>1, InHas DEF SessionInv, MessagesOK
        <3>2. m.kind \in {"open", "accept"}
            BY <1>0, <1>3, <1>13, <3>1, MessageFields DEF Truthful, Business
        <3>3. gate'["client"] = "LINK_CONNECTED" <=> gate["client"] = "LINK_CONNECTED"
            BY <1>0, <1>3, <1>9, TwoPeers
        <3>4. ~(m.kind = "open")
            BY <1>3, <3>1 DEF Truthful
        <3> QED
            BY <1>0, <1>1, <1>10, <1>11, <1>13, <3>1, <3>2, <3>3, <3>4 DEF Truthful, Business
    <2>2. CASE ~In(m, wire[q])
        <3>1. m = n
            BY <1>0, <1>1, <1>8, <1>13, <2>2, WriteMembers
        <3> QED
            BY <1>0, <1>1, <1>3, <1>4, <1>5, <1>7, <1>9, <1>10, <1>11, <1>13, <3>1
               DEF Truthful, Business
    <2> QED BY <2>1, <2>2
<1> QED BY <1>12, <1>13, TwoPeers

\* handleIdentified: nothing the client said depends on it.
LEMMA GrantedMessages ==
    ASSUME SessionInv, NEW p \in Peers, IsGranted(p)
    PROVE  MessagesOK'
<1>0. TypeOK /\ Other(p) \in Peers /\ Other(p) # p /\ Other(Other(p)) = p
    BY TwoPeers DEF SessionInv
<1>1. /\ wire[p] # <<>> /\ Head(wire[p]).kind = "identified"
      /\ Write(p, <<>>, TRUE)
      /\ sid' = [sid EXCEPT ![p] = sid[Other(p)]]
      /\ gate' = [gate EXCEPT ![p] = "APP_READY"]
      /\ UNCHANGED <<config, opening, frameSize>>
    BY DEF IsGranted, Takes1, Enters
<1>2. /\ config.logical[Other(p)] = "server" /\ config.logical[p] = "client"
      /\ gate[Other(p)] = "APP_READY" /\ gate[p] # "APP_READY"
      /\ config.framed => gate["server"] # "LINK_CONNECTED"
    BY <1>1, NextMessage DEF Truthful, Business
<1>3. <<>> \in Seq(Message) /\ \A x : ~In(x, <<>>)
    <2>1. <<>> \in Seq(Message)
        OBVIOUS
    <2> QED BY <2>1, InLiteral
<1>4. /\ gate'[p] = "APP_READY" /\ gate'[Other(p)] = gate[Other(p)]
      /\ sid'[Other(p)] = sid[Other(p)]
    BY <1>0, <1>1 DEF TypeOK
<1>5. /\ AgreedSize' = AgreedSize /\ RpcLen(p)' = RpcLen(p)
      /\ RpcLen(Other(p))' = RpcLen(Other(p))
    BY <1>1 DEF AgreedSize, RpcLen
<1>6. config.framed => gate'["server"] # "LINK_CONNECTED"
    BY <1>0, <1>2, <1>4, TwoPeers
<1> HIDE DEF AgreedSize, RpcLen, Message
<1> SUFFICES ASSUME NEW q \in Peers, NEW m \in Message, In(m, wire'[q])
             PROVE  Truthful(q, m)'
    BY DEF MessagesOK
<1>7. In(m, wire[q])
    <2>1. TRUE \in BOOLEAN
        OBVIOUS
    <2>2. \A x : /\ In(x, wire'[p]) => In(x, wire[p])
                 /\ In(x, wire'[Other(p)]) => In(x, wire[Other(p)]) \/ In(x, <<>>)
        BY <1>0, <1>1, <1>3, <2>1, WriteMembers
    <2>3. q = p \/ q = Other(p)
        BY TwoPeers
    <2> QED BY <1>3, <2>2, <2>3
<1>8. Truthful(q, m)
    BY <1>7 DEF SessionInv, MessagesOK
<1>9. CASE q = p
    <2>1. Has(wire'[p], m.kind)
        BY <1>9, InHas
    <2>2. Sorted(wire[p])
        BY DEF SessionInv, InTurn
    <2>3. Before(Head(wire[p]).kind, m.kind)
        <3>1. \A k : Has(wire'[p], k) => Before(Head(wire[p]).kind, k)
            BY <1>0, <1>1, <1>3, <2>2, TakenBefore
        <3> QED BY <2>1, <3>1
    <2>4. m.kind \in Business
        BY <1>1, <2>3, MessageFields DEF Before, Rank, Business
    <2> QED
        BY <1>0, <1>1, <1>4, <1>5, <1>6, <1>8, <1>9, <2>4 DEF Truthful, Business
<1>10. CASE q = Other(p)
    <2>1. m.kind = "accept"
        BY <1>0, <1>2, <1>8, <1>10, MessageFields DEF Truthful, Business
    <2>2. q = "client" /\ p = "server" /\ config.framed
        BY <1>0, <1>8, <1>10, <2>1, TwoPeers DEF Truthful, Peers
    <2>3. gate["server"] # "LINK_CONNECTED" /\ gate'["server"] # "LINK_CONNECTED"
        BY <1>2, <1>6, <2>2
    <2> QED
        BY <1>0, <1>1, <1>4, <1>5, <1>8, <1>10, <2>1, <2>2, <2>3 DEF Truthful, Business
<1> QED BY <1>9, <1>10, TwoPeers

\* What is under way stays true.
LEMMA MessagesKept ==
    ASSUME SessionInv, NEW p \in Peers, StepOf(p)
    PROVE  MessagesOK'
<1>1. ASSUME UNCHANGED <<config, coreVars>>, \A q \in Peers : wire'[q] \in {wire[q], <<>>}
      PROVE  MessagesOK'
    <2> SUFFICES ASSUME NEW q \in Peers, NEW m \in Message, In(m, wire'[q])
                 PROVE  Truthful(q, m)'
        BY DEF MessagesOK
    <2>1. In(m, wire[q])
        BY <1>1, InLiteral
    <2>2. Truthful(q, m)
        BY <2>1 DEF SessionInv, MessagesOK
    <2> QED
        BY <1>1, <2>2, StillTruthful
<1>2. CASE AwaitsOpen \/ Consume(p)
    BY <1>1, <1>2 DEF AwaitsOpen, Consume
<1>3. CASE CloseEndpoint(p)
    <2>1. \A q \in Peers : wire'[q] \in {wire[q], <<>>}
        BY <1>3 DEF CloseEndpoint, SessionInv, TypeOK
    <2> QED
        BY <1>1, <1>3, <2>1 DEF CloseEndpoint
<1> QED
    BY <1>2, <1>3, QuietMessages, OpenMessages, DeclineMessages, UnframedMessages,
       AcceptMessages, AcceptedMessages, DeclinedMessages, GrantMessages, GrantedMessages
       DEF StepOf

-----------------------------------------------------------------------------
(* What does not change                                                    *)

\* No step undoes what was negotiated.
LEMMA Lasting ==
    ASSUME SessionInv, NEW p \in Peers, StepOf(p), NEW q \in Peers
    PROVE  /\ config' = config
           /\ gate[q] # "LINK_CONNECTED" =>
                 frameSize'[q] = frameSize[q] /\ gate'[q] # "LINK_CONNECTED"
           /\ gate[q] = "APP_READY" => sid'[q] = sid[q] /\ gate'[q] = "APP_READY"
<1>0. TypeOK
    BY DEF SessionInv
<1> DEFINE Goal == /\ config' = config
                   /\ gate[q] # "LINK_CONNECTED" =>
                         frameSize'[q] = frameSize[q] /\ gate'[q] # "LINK_CONNECTED"
                   /\ gate[q] = "APP_READY" => sid'[q] = sid[q] /\ gate'[q] = "APP_READY"
<1>1. CASE UNCHANGED <<config, gate, frameSize, sid>>
    BY <1>1
<1>2. ASSUME NEW r \in Peers, NEW size, gate[r] = "LINK_CONNECTED", UNCHANGED <<config, sid>>,
             gate' = [gate EXCEPT ![r] = "FRAMING_READY"],
             frameSize' = [frameSize EXCEPT ![r] = size]
      PROVE  Goal
    BY <1>0, <1>2 DEF TypeOK
<1>3. CASE StartsUnframed(p) \/ AcceptsOpen \/ IsAccepted
    <2>1. ASSUME NEW r \in Peers, NEW size, NEW interval, NEW msgs, NEW took,
                 LinkUp(r, size, interval, msgs, took)
          PROVE  Goal
        <3> QED BY <1>2, <2>1 DEF LinkUp
    <2>2. "server" \in Peers /\ "client" \in Peers
        BY DEF Peers
    <2> QED BY <1>3, <2>1, <2>2 DEF StartsUnframed, AcceptsOpen, IsAccepted
<1>5. ASSUME NEW s, Enters(p, s), gate[p] # "APP_READY", config' = config PROVE Goal
    BY <1>0, <1>5 DEF Enters, TypeOK
<1>6. CASE Grants(p)
    <2>1. wire[p] # <<>> /\ Head(wire[p]).kind = "identify" /\ config' = config
        BY <1>6 DEF Grants, Takes1
    <2>2. gate[p] # "APP_READY"
        BY <2>1, NextMessage DEF Truthful
    <2>3. PICK s : Enters(p, s)
        BY <1>6 DEF Grants
    <2> QED BY <1>5, <2>1, <2>2, <2>3
<1>7. CASE IsGranted(p)
    <2>1. wire[p] # <<>> /\ Head(wire[p]).kind = "identified" /\ config' = config
        BY <1>7 DEF IsGranted, Takes1
    <2>2. gate[p] # "APP_READY"
        BY <2>1, NextMessage DEF Truthful
    <2>3. PICK s : Enters(p, s)
        BY <1>7 DEF IsGranted
    <2> QED BY <1>5, <2>1, <2>2, <2>3
<1>8. CASE SendsOpen \/ AwaitsOpen \/ DeclinesOpen \/ IsDeclined
    BY <1>1, <1>8 DEF SendsOpen, AwaitsOpen, DeclinesOpen, IsDeclined, Takes1, coreVars
<1>9. CASE Passes(p) \/ Identifies(p) \/ Dispatches(p)
    BY <1>1, <1>9 DEF Passes, Identifies, Dispatches, Takes1, Ignores, coreVars
<1>10. CASE \/ \E kind \in {"request", "event"} : Send(p, kind)
            \/ \E n \in Numbers : Respond(p, n)
            \/ Consume(p) \/ CloseEndpoint(p)
    BY <1>1, <1>10 DEF Send, Respond, Consume, CloseEndpoint, coreVars
<1> QED
    BY <1>3, <1>6, <1>7, <1>8, <1>9, <1>10 DEF StepOf

-----------------------------------------------------------------------------
(* CoreEvents                                                              *)

\* A CoreEvent that was told stands, also after the link is opened, unless
\* the client opens it anew.
LEMMA StillTold ==
    ASSUME SessionInv, NEW p \in Peers, StepOf(p), NEW q \in Peers, NEW e \in CoreEvent,
           In(e, events[q])
    PROVE  Told(q, e)'
<1>0. TypeOK /\ Told(q, e) /\ "client" \in Peers /\ "server" \in Peers
    BY DEF SessionInv, EventsOK, Peers
<1>1. /\ config' = config
      /\ gate[q] # "LINK_CONNECTED" => gate'[q] # "LINK_CONNECTED"
      /\ gate[q] = "APP_READY" => gate'[q] = "APP_READY"
    BY Lasting
<1>2. e.kind = "linkOpenRejected" => gate'["server"] = "LINK_CONNECTED" /\ ~opening'["client"]
    <2> SUFFICES ASSUME e.kind = "linkOpenRejected"
                 PROVE  gate'["server"] = "LINK_CONNECTED" /\ ~opening'["client"]
        OBVIOUS
    <2>1. q = "client" /\ config.framed /\ gate["server"] = "LINK_CONNECTED" /\ ~opening["client"]
        BY <1>0 DEF Told
    <2>2. CASE UNCHANGED <<gate, opening>>
        BY <2>1, <2>2
    <2>3. CASE StartsUnframed(p)
        BY <2>1, <2>3 DEF StartsUnframed
    <2>4. CASE SendsOpen
        <3>1. events["client"] = <<>>
            BY <1>0, <2>4 DEF SendsOpen, SessionInv, Lives, Life
        <3> QED BY <2>1, <3>1, InLiteral
    <2>5. CASE AcceptsOpen
        <3>1. opening["client"]
            BY <1>0, <2>5, NextMessage DEF AcceptsOpen, Takes1, Truthful
        <3> QED BY <2>1, <3>1
    <2>6. CASE IsAccepted \/ IsDeclined
        <3>1. opening["client"]
            BY <1>0, <2>6, NextIsAccept DEF IsAccepted, IsDeclined, Takes1
        <3> QED BY <2>1, <3>1
    <2>7. CASE Grants(p) \/ IsGranted(p)
        <3>1. wire[p] # <<>> /\ Head(wire[p]).kind \in {"identify", "identified"}
            BY <2>7 DEF Grants, IsGranted, Takes1
        <3>2. gate["server"] # "LINK_CONNECTED"
            BY <2>1, <3>1, NextMessage DEF Truthful
        <3> QED BY <2>1, <3>2
    <2>8. CASE AwaitsOpen \/ DeclinesOpen
        BY <2>2, <2>8 DEF AwaitsOpen, DeclinesOpen, coreVars
    <2>9. CASE Passes(p) \/ Identifies(p) \/ Dispatches(p)
        BY <2>2, <2>9 DEF Passes, Identifies, Dispatches, Ignores, coreVars
    <2>10. CASE \/ \E kind \in {"request", "event"} : Send(p, kind)
                \/ \E n \in Numbers : Respond(p, n)
                \/ Consume(p) \/ CloseEndpoint(p)
        BY <2>2, <2>10 DEF Send, Respond, Consume, CloseEndpoint, coreVars
    <2> QED
        BY <2>3, <2>4, <2>5, <2>6, <2>7, <2>8, <2>9, <2>10 DEF StepOf
<1> QED
    BY <1>0, <1>1, <1>2 DEF Told

\* Before its link is open a core has told nothing.
LEMMA NothingTold ==
    ASSUME SessionInv, NEW p \in Peers, gate[p] = "LINK_CONNECTED",
           p = "client" /\ config.framed => opening["client"]
    PROVE  \A x : ~In(x, events[p])
<1> SUFFICES ASSUME NEW x, In(x, events[p]) PROVE FALSE
    OBVIOUS
<1>1. x \in CoreEvent
    BY TypedPeer DEF In, SessionInv
<1>2. Told(p, x)
    BY <1>1 DEF SessionInv, EventsOK
<1> QED
    BY <1>1, <1>2, EventFields DEF Told

\* What the step of a peer enqueues.
Enqueues(p, e) ==
    /\ e \in CoreEvent /\ Enqueue(p, <<e>>) /\ Told(p, e)'
    /\ \A x : In(x, events[p]) => Before(x.kind, e.kind)

\* linkReady
LEMMA LinkUpEnqueues ==
    ASSUME SessionInv, NEW p \in Peers, StartsUnframed(p) \/ AcceptsOpen \/ IsAccepted
    PROVE  \E q \in Peers : \E e : Enqueues(q, e)
<1>0. TypeOK /\ "client" \in Peers /\ "server" \in Peers
    BY DEF SessionInv, Peers
<1>1. ASSUME NEW q \in Peers, NEW size, NEW interval \in Nat, interval # 0, NEW msgs, NEW took,
             LinkUp(q, size, interval, msgs, took),
             config.framed => interval = config.interval["client"],
             q = "client" /\ config.framed => opening["client"]
      PROVE  \E r \in Peers : \E e : Enqueues(r, e)
    <2> DEFINE e == [kind |-> "linkReady", interval |-> interval]
    <2>1. e \in CoreEvent /\ e.kind = "linkReady" /\ e.interval = interval
        BY <1>1, EventsTyped
    <2>2. gate[q] = "LINK_CONNECTED" /\ gate'[q] # "LINK_CONNECTED" /\ config' = config
        BY <1>0, <1>1 DEF LinkUp, TypeOK
    <2>3. Enqueue(q, <<e>>)
        BY <1>1 DEF LinkUp
    <2>4. \A x : ~In(x, events[q])
        BY <1>1, <2>2, NothingTold
    <2> HIDE DEF e
    <2>5. Told(q, e)'
        BY <1>1, <2>1, <2>2 DEF Told
    <2>6. Enqueues(q, e)
        BY <2>1, <2>3, <2>4, <2>5 DEF Enqueues
    <2> QED BY <2>6
<1>2. CASE StartsUnframed(p)
    <2>1. config.interval[p] \in Nat /\ config.interval[p] # 0 /\ ~config.framed
        BY <1>0, <1>2, TypedConfig DEF StartsUnframed
    <2> QED BY <1>1, <1>2, <2>1 DEF StartsUnframed
<1>3. config.interval["client"] \in Nat /\ config.interval["client"] # 0
    BY <1>0, TypedConfig
<1>4. CASE AcceptsOpen
    BY <1>0, <1>1, <1>3, <1>4 DEF AcceptsOpen
<1>5. CASE IsAccepted
    <2>1. opening["client"]
        BY <1>0, <1>5, NextIsAccept DEF IsAccepted, Takes1
    <2> QED BY <1>0, <1>1, <1>3, <1>5, <2>1 DEF IsAccepted
<1> QED BY <1>2, <1>4, <1>5

\* linkOpenRejected
LEMMA DeclinedEnqueues ==
    ASSUME SessionInv, IsDeclined
    PROVE  \E q \in Peers : \E e : Enqueues(q, e)
<1>0. TypeOK /\ "client" \in Peers
    BY DEF SessionInv, Peers
<1> DEFINE e == [kind |-> "linkOpenRejected"]
<1>1. e \in CoreEvent /\ e.kind = "linkOpenRejected"
    BY EventsTyped
<1>2. /\ wire["client"] # <<>> /\ Head(wire["client"]).kind = "accept"
      /\ ~Head(wire["client"]).ok
      /\ Enqueue("client", <<e>>) /\ opening' = [opening EXCEPT !["client"] = FALSE]
      /\ UNCHANGED <<config, gate>>
    BY DEF IsDeclined, Takes1
<1>3. gate["server"] = "LINK_CONNECTED"
    BY <1>0, <1>2, NextMessage DEF Truthful
<1>4. config.framed /\ gate["client"] = "LINK_CONNECTED" /\ opening["client"]
    BY <1>0, <1>2, NextIsAccept
<1>5. \A x : ~In(x, events["client"])
    BY <1>0, <1>4, NothingTold
<1>6. ~opening'["client"]
    BY <1>0, <1>2 DEF TypeOK
<1> HIDE DEF e
<1>7. Told("client", e)'
    BY <1>1, <1>2, <1>3, <1>4, <1>6 DEF Told
<1> QED
    BY <1>0, <1>1, <1>2, <1>5, <1>7 DEF Enqueues

\* handshakeReady
LEMMA EnterEnqueues ==
    ASSUME SessionInv, NEW p \in Peers, Grants(p) \/ IsGranted(p)
    PROVE  \E q \in Peers : \E e : Enqueues(q, e)
<1>0. TypeOK
    BY DEF SessionInv
<1> DEFINE e == [kind |-> "handshakeReady"]
<1>1. e \in CoreEvent /\ e.kind = "handshakeReady"
    BY EventsTyped
<1>2. /\ wire[p] # <<>> /\ Head(wire[p]).kind \in {"identify", "identified"}
      /\ Enqueue(p, <<e>>) /\ gate' = [gate EXCEPT ![p] = "APP_READY"]
    BY DEF Grants, IsGranted, Takes1, Enters
<1>3. gate[p] # "APP_READY" /\ gate'[p] = "APP_READY"
    <2>1. gate[p] # "APP_READY"
        BY <1>2, NextMessage DEF Truthful
    <2> QED BY <1>0, <1>2, <2>1 DEF TypeOK
<1> HIDE DEF e
<1>4. ASSUME NEW x, In(x, events[p]) PROVE Before(x.kind, e.kind)
    <2>1. x \in CoreEvent
        BY <1>0, <1>4, TypedPeer DEF In
    <2>2. Told(p, x)
        BY <1>4, <2>1 DEF SessionInv, EventsOK
    <2>3. x.kind \in {"linkReady", "linkOpenRejected"}
        BY <1>3, <2>1, <2>2, EventFields DEF Told
    <2> QED BY <1>1, <2>3 DEF Before, Rank
<1>5. Told(p, e)'
    BY <1>1, <1>3 DEF Told
<1> QED
    BY <1>1, <1>2, <1>4, <1>5 DEF Enqueues

\* A request or an event.
LEMMA DispatchEnqueues ==
    ASSUME SessionInv, NEW p \in Peers, Dispatches(p)
    PROVE  \E q \in Peers : \E e : Enqueues(q, e)
<1>0. TypeOK
    BY DEF SessionInv
<1> DEFINE h == Head(wire[p])
<1>a. PICK e : e = [kind |-> h.kind, n |-> h.n]
    OBVIOUS
<1>1. wire[p] # <<>> /\ h.kind \in {"request", "event"} /\ Enqueue(p, <<e>>)
      /\ UNCHANGED coreVars
    BY <1>a DEF Dispatches, Takes1
<1>2. h.kind \in Business
    BY <1>1 DEF Business
<1>3. h.n \in Numbers /\ gate[p] = "APP_READY"
    BY <1>1, <1>2, NextMessage, MessageFields, NextAdmitted
<1>4. e \in CoreEvent /\ e.kind \in {"request", "event"}
    BY <1>a, <1>1, <1>3, EventsTyped
<1> HIDE DEF h
<1>5. ASSUME NEW x, In(x, events[p]) PROVE Before(x.kind, e.kind)
    <2>1. x \in CoreEvent
        BY <1>0, <1>5, TypedPeer DEF In
    <2> QED BY <1>4, <2>1, EventFields DEF Before, Rank
<1>6. Told(p, e)'
    BY <1>1, <1>3, <1>4 DEF Told, coreVars
<1> QED
    BY <1>1, <1>4, <1>5, <1>6 DEF Enqueues

\* The queues of CoreEvents: one more, one less, or as before.
LEMMA EventSteps ==
    ASSUME SessionInv, NEW p \in Peers, StepOf(p)
    PROVE  \/ \E q \in Peers : \E e : Enqueues(q, e)
           \/ events' = events
           \/ Consume(p)
           \/ CloseEndpoint(p)
<1>1. CASE SendsOpen \/ AwaitsOpen \/ DeclinesOpen \/ Passes(p) \/ Identifies(p)
           \/ (\E kind \in {"request", "event"} : Send(p, kind))
           \/ (\E n \in Numbers : Respond(p, n))
    BY <1>1 DEF SendsOpen, AwaitsOpen, DeclinesOpen, Passes, Identifies, Send, Respond, Ignores
<1> QED
    BY <1>1, LinkUpEnqueues, DeclinedEnqueues, EnterEnqueues, DispatchEnqueues DEF StepOf

\* What happens to what is in the queues.
LEMMA EventMembers ==
    ASSUME SessionInv, NEW p \in Peers, StepOf(p), NEW q \in Peers
    PROVE  /\ Sorted(events'[q])
           /\ \A x : In(x, events'[q]) => In(x, events[q]) \/ (x \in CoreEvent /\ Told(q, x)')
<1>0. TypeOK /\ Sorted(events[q]) /\ events[q] \in Seq(CoreEvent)
    BY TypedPeer DEF SessionInv, InTurn
<1>1. ASSUME NEW r \in Peers, NEW e, Enqueues(r, e)
      PROVE  /\ Sorted(events'[q])
             /\ \A x : In(x, events'[q]) => In(x, events[q]) \/ (x \in CoreEvent /\ Told(q, x)')
    <2>1. e \in CoreEvent /\ Enqueue(r, <<e>>) /\ Told(r, e)'
          /\ \A x : In(x, events[r]) => Before(x.kind, e.kind)
        BY <1>1 DEF Enqueues
    <2> HIDE DEF CoreEvent
    <2>2. <<e>> \in Seq(CoreEvent) /\ \A x : In(x, <<e>>) <=> x = e
        BY <2>1, Singleton, InLiteral
    <2>3. events'[r] = events[r] \o <<e>> /\ events'[Other(r)] = events[Other(r)]
          /\ \A x : In(x, events'[r]) <=> In(x, events[r]) \/ In(x, <<e>>)
        BY <1>0, <2>1, <2>2, EnqueueEvents
    <2>4. CASE q = r
        <3>1. Sorted(<<e>>)
            BY DEF Sorted
        <3>2. Sorted(events[r] \o <<e>>)
            BY <1>0, <2>1, <2>2, <2>4, <3>1, SortedConcatenated
        <3> QED BY <2>1, <2>2, <2>3, <2>4, <3>2
    <2>5. CASE q # r
        BY <1>0, <2>3, <2>5, TwoPeers
    <2> QED BY <2>4, <2>5
<1>2. CASE Consume(p)
    <2>1. events[p] # <<>> /\ events' = [events EXCEPT ![p] = Tail(@)]
        BY <1>2 DEF Consume, Takes
    <2>2. q = p => events'[q] = Tail(events[q])
        BY <1>0, <2>1 DEF TypeOK
    <2>3. q # p => events'[q] = events[q]
        BY <1>0, <2>1 DEF TypeOK
    <2> HIDE DEF CoreEvent
    <2> QED
        BY <1>0, <2>1, <2>2, <2>3, InTaken, SortedTaken
<1>3. CASE CloseEndpoint(p)
    <2>1. events'[q] = events[q] \/ events'[q] = <<>>
        <3> HIDE DEF CoreEvent, Message
        <3>1. events' = [events EXCEPT ![p] = <<>>] /\ DOMAIN events = Peers
            BY <1>0, <1>3 DEF CloseEndpoint, TypeOK
        <3>2. q = p => events'[q] = <<>>
            BY <3>1
        <3>3. q # p => events'[q] = events[q]
            BY <3>1
        <3> QED BY <3>2, <3>3
    <2>2. Sorted(<<>>)
        BY DEF Sorted
    <2>3. \A x : ~In(x, <<>>)
        BY InLiteral
    <2> QED BY <1>0, <2>1, <2>2, <2>3
<1>4. CASE events' = events
    BY <1>0, <1>4
<1> QED
    BY <1>1, <1>2, <1>3, <1>4, EventSteps

\* What the cores have told their endpoints stays so.
LEMMA EventsKept ==
    ASSUME SessionInv, NEW p \in Peers, StepOf(p)
    PROVE  EventsOK'
<1> SUFFICES ASSUME NEW q \in Peers, NEW e \in CoreEvent, In(e, events'[q])
             PROVE  Told(q, e)'
    BY DEF EventsOK
<1>1. In(e, events[q]) \/ Told(q, e)'
    BY EventMembers
<1> QED BY <1>1, StillTold

-----------------------------------------------------------------------------
(* The order of the messages                                               *)

\* Written in turn.
LEMMA TurnWritten ==
    ASSUME SessionInv, NEW p \in Peers, StepOf(p),
           NEW msgs \in Seq(Message), NEW took \in BOOLEAN, took => wire[p] # <<>>,
           Write(p, msgs, took), Sorted(msgs),
           up => \A x, y : In(x, wire[Other(p)]) /\ In(y, msgs) => Before(x.kind, y.kind),
           up /\ Has(msgs, "open") => ~Has(wire'[p], "accept"),
           up /\ Has(msgs, "accept") => ~Has(wire'[p], "open"),
           up /\ Has(msgs, "hello") => ~Has(wire'[p], "identify"),
           up /\ Has(msgs, "identify") => ~Has(wire'[p], "hello"),
           took /\ Head(wire[p]).kind = "identified" => gate'[p] = "APP_READY",
           \A kind \in Business : up /\ Has(msgs, kind) =>
              gate[Other(p)] = "APP_READY" \/ Has(wire[Other(p)], "identified")
    PROVE  InTurn'
<1>0. TypeOK /\ InTurn /\ Other(p) \in Peers /\ Other(Other(p)) = p
      /\ \A q \in Peers : q = p \/ q = Other(p)
    BY TwoPeers DEF SessionInv
<1> HIDE DEF Message
<1>1. \A k : /\ Has(wire'[p], k) => Has(wire[p], k)
             /\ Has(wire[p], k) => Has(wire'[p], k) \/ (took /\ Head(wire[p]).kind = k)
             /\ Has(wire'[Other(p)], k) <=> Has(wire[Other(p)], k) \/ (up /\ Has(msgs, k))
    BY <1>0, WriteKinds
<1>2. \A q \in Peers : Sorted(wire'[q])
    BY <1>0, WriteSorted DEF InTurn
<1>3. \A q \in Peers : Sorted(events'[q]) /\ (gate[q] = "APP_READY" => gate'[q] = "APP_READY")
    BY EventMembers, Lasting
<1>4. ASSUME NEW k, NEW l, ~(Has(wire[p], k) /\ Has(wire[Other(p)], l)),
             up /\ Has(msgs, l) => ~Has(wire'[p], k)
      PROVE  ~(Has(wire'[p], k) /\ Has(wire'[Other(p)], l))
    BY <1>1, <1>4
<1>5. /\ ~(Has(wire'[p], "open") /\ Has(wire'[Other(p)], "accept"))
      /\ ~(Has(wire'[p], "accept") /\ Has(wire'[Other(p)], "open"))
      /\ ~(Has(wire'[p], "hello") /\ Has(wire'[Other(p)], "identify"))
      /\ ~(Has(wire'[p], "identify") /\ Has(wire'[Other(p)], "hello"))
    BY <1>0, <1>4 DEF InTurn
<1>6. ASSUME NEW kind \in Business, Has(wire'[p], kind)
      PROVE  gate'[p] = "APP_READY" \/ Has(wire'[p], "identified")
    BY <1>0, <1>1, <1>3, <1>6 DEF InTurn
<1>7. ASSUME NEW kind \in Business, Has(wire'[Other(p)], kind)
      PROVE  gate'[Other(p)] = "APP_READY" \/ Has(wire'[Other(p)], "identified")
    BY <1>0, <1>1, <1>3, <1>7 DEF InTurn
<1> QED
    BY <1>0, <1>2, <1>3, <1>5, <1>6, <1>7 DEF InTurn

\* Nothing is written.
LEMMA TurnSilent ==
    ASSUME SessionInv, NEW p \in Peers, StepOf(p), wire[p] # <<>>, Write(p, <<>>, TRUE),
           Head(wire[p]).kind = "identified" => gate'[p] = "APP_READY"
    PROVE  InTurn'
<1>1. <<>> \in Seq(Message)
    OBVIOUS
<1>2. Sorted(<<>>) /\ \A k : ~Has(<<>>, k)
    BY DEF Sorted, Has
<1>3. \A x : ~In(x, <<>>)
    BY InLiteral
<1> HIDE DEF Message
<1> QED
    BY <1>1, <1>2, <1>3, TurnWritten

\* One message is written.
LEMMA TurnOne ==
    ASSUME SessionInv, NEW p \in Peers, StepOf(p),
           NEW m \in Message, NEW took \in BOOLEAN, took => wire[p] # <<>>,
           Write(p, <<m>>, took),
           up => \A x : In(x, wire[Other(p)]) => Before(x.kind, m.kind),
           m.kind = "open" => ~Has(wire'[p], "accept"),
           m.kind = "accept" => ~Has(wire'[p], "open"),
           m.kind = "hello" => ~Has(wire'[p], "identify"),
           m.kind = "identify" => ~Has(wire'[p], "hello"),
           took /\ Head(wire[p]).kind = "identified" => gate'[p] = "APP_READY",
           up /\ m.kind \in Business =>
              gate[Other(p)] = "APP_READY" \/ Has(wire[Other(p)], "identified")
    PROVE  InTurn'
<1> HIDE DEF Message
<1>1. <<m>> \in Seq(Message) /\ \A x : In(x, <<m>>) <=> x = m
    BY Singleton, InLiteral
<1>2. Sorted(<<m>>)
    BY DEF Sorted
<1>3. \A k : Has(<<m>>, k) <=> m.kind = k
    BY <1>1, HasKind
<1> QED
    BY <1>1, <1>2, <1>3, TurnWritten

\* What is taken, if it comes once, is not there any more.
LEMMA TakenOnce ==
    ASSUME SessionInv, NEW p \in Peers, NEW msgs \in Seq(Message), wire[p] # <<>>,
           Write(p, msgs, TRUE)
    PROVE  \A k : Has(wire'[p], k) => Before(Head(wire[p]).kind, k)
<1>1. Sorted(wire[p]) /\ TypeOK /\ TRUE \in BOOLEAN
    BY DEF SessionInv, InTurn
<1> HIDE DEF Message
<1> QED
    BY <1>1, WriteKinds

\* Opening the link, and answering.
LEMMA TurnOpen ==
    ASSUME SessionInv, NEW p \in Peers, StepOf(p), SendsOpen \/ DeclinesOpen
    PROVE  InTurn'
<1>0. TypeOK /\ Linked /\ "client" \in Peers /\ "server" \in Peers /\ TRUE \in BOOLEAN
      /\ FALSE \in BOOLEAN /\ Other("client") = "server" /\ Other("server") = "client"
    BY DEF SessionInv, Peers, Other
<1>1. CASE SendsOpen
    <2> PICK m \in Message : m = OpenMessage
        BY <1>0, LinkMessages
    <2>1. m.kind = "open" /\ Write("client", <<m>>, FALSE)
        BY <1>1 DEF SendsOpen, OpenMessage
    <2>2. ~opening["client"] /\ gate["server"] = "LINK_CONNECTED" /\ config.framed
        BY <1>0, <1>1 DEF SendsOpen, SessionInv, Lives, Life, Linked
    <2> HIDE DEF Message, OpenMessage
    <2>3. ASSUME NEW x, In(x, wire["server"]) PROVE FALSE
        <3>1. x \in Message
            BY <1>0, <2>3, TypedPeer DEF In
        <3>2. Truthful("server", x)
            BY <1>0, <2>3, <3>1 DEF SessionInv, MessagesOK
        <3> QED
            BY <2>2, <3>2 DEF Truthful
    <2>4. ~Has(wire'["client"], "accept")
        <3>1. ASSUME Has(wire["client"], "accept") PROVE FALSE
            <4>1. PICK x : In(x, wire["client"]) /\ x.kind = "accept"
                BY <3>1, HasKind
            <4>2. x \in Message
                BY <1>0, <4>1, TypedPeer DEF In
            <4>3. Truthful("client", x)
                BY <1>0, <4>1, <4>2 DEF SessionInv, MessagesOK
            <4> QED BY <2>2, <4>1, <4>3 DEF Truthful
        <3>2. <<m>> \in Seq(Message)
            BY Singleton
        <3> QED
            BY <1>0, <2>1, <3>1, <3>2, WriteKinds
    <2>5. StepOf("client")
        BY <1>1 DEF StepOf
    <2> QED
        BY <1>0, <2>1, <2>3, <2>4, <2>5, TurnOne DEF Business
<1>2. CASE DeclinesOpen
    <2> PICK m \in Message : m = AcceptMessage(FALSE)
        BY <1>0, LinkMessages
    <2>1. /\ m.kind = "accept" /\ Write("server", <<m>>, TRUE)
          /\ wire["server"] # <<>> /\ Head(wire["server"]).kind = "open"
        BY <1>2 DEF DeclinesOpen, AcceptMessage, Takes1
    <2>2. wire["client"] = <<>>
        BY <1>0, <2>1, NextIsOpen
    <2> HIDE DEF Message
    <2>3. ~Has(wire'["server"], "open")
        <3>1. <<m>> \in Seq(Message)
            BY Singleton
        <3>2. ~Before("open", "open")
            BY DEF Before, Rank
        <3> QED BY <1>0, <2>1, <3>1, <3>2, TakenOnce
    <2>4. \A x : ~In(x, wire["client"])
        BY <2>2, InLiteral
    <2>5. StepOf("server")
        BY <1>2 DEF StepOf
    <2> QED
        BY <1>0, <2>1, <2>3, <2>4, <2>5, TurnOne DEF Business
<1> QED BY <1>1, <1>2

\* Hello goes out when the link is ready, and finds nothing that comes later.
LEMMA TurnHello ==
    ASSUME SessionInv, NEW p \in Peers, StepOf(p), NEW size \in Nat, NEW took \in BOOLEAN,
           took => wire[p] # <<>> /\ Head(wire[p]).kind = "accept",
           gate[p] = "LINK_CONNECTED", Write(p, HelloOf(p, size), took)
    PROVE  InTurn'
<1>0. TypeOK /\ Other(Other(p)) = p /\ Other(p) \in Peers
    BY TwoPeers DEF SessionInv
<1> DEFINE h == HelloOf(p, size)
<1>1. /\ h \in Seq(Message) /\ Sorted(h)
      /\ \A x : In(x, h) => config.logical[p] = "server" /\ x.kind = "hello"
    <2>1. h \in Seq(Message) /\ Sorted(h)
        BY HelloSent
    <2>2. \A x : In(x, h) => config.logical[p] = "server"
                   /\ x = [kind |-> "hello", len |-> IF config.framed THEN size ELSE 0]
        BY HelloSent
    <2>3. \A x : In(x, h) => config.logical[p] = "server" /\ x.kind = "hello"
        BY <2>2
    <2> QED BY <2>1, <2>3
<1> HIDE DEF h, Message
<1>2. Write(p, h, took)
    BY DEF h
<1>3. \A k : Has(h, k) => k = "hello" /\ config.logical[p] = "server"
    BY <1>1, HasKind
<1>4. ASSUME NEW x, NEW y, In(x, wire[Other(p)]), In(y, h) PROVE Before(x.kind, y.kind)
    <2>1. x \in Message
        BY <1>0, <1>4, TypedPeer DEF In
    <2>2. Truthful(Other(p), x)
        BY <1>0, <1>4, <2>1 DEF SessionInv, MessagesOK
    <2>3. y.kind = "hello" /\ config.logical[p] = "server"
        BY <1>1, <1>4
    <2>4. x.kind \in {"open", "accept"}
        BY <1>0, <2>1, <2>2, <2>3, MessageFields DEF Truthful, Business
    <2> QED BY <2>3, <2>4 DEF Before, Rank
<1>5. ~Has(wire'[p], "identify")
    <2>1. ASSUME Has(wire[p], "identify") PROVE FALSE
        <3>1. PICK x : In(x, wire[p]) /\ x.kind = "identify"
            BY <2>1, HasKind
        <3>2. x \in Message
            BY <1>0, <3>1, TypedPeer DEF In
        <3>3. Truthful(p, x)
            BY <3>1, <3>2 DEF SessionInv, MessagesOK
        <3> QED BY <3>1, <3>3 DEF Truthful
    <2> QED
        BY <1>0, <1>1, <1>2, <2>1, WriteKinds
<1> QED
    BY <1>1, <1>2, <1>3, <1>4, <1>5, TurnWritten DEF Business

\* ACCEPT and, after it, Hello.
LEMMA TurnAccept ==
    ASSUME SessionInv, NEW p \in Peers, AcceptsOpen
    PROVE  InTurn'
<1>0. TypeOK /\ "client" \in Peers /\ "server" \in Peers /\ TRUE \in BOOLEAN
      /\ Other("server") = "client"
    BY DEF SessionInv, Peers, Other
<1> DEFINE a == <<AcceptMessage(TRUE)>>
           h == HelloOf("server", AgreedSize)
           msgs == a \o h
<1>1. /\ wire["server"] # <<>> /\ Head(wire["server"]).kind = "open"
      /\ Write("server", msgs, TRUE)
    BY DEF AcceptsOpen, Takes1, LinkUp
<1>2. wire["client"] = <<>> /\ config.framed /\ gate["server"] = "LINK_CONNECTED"
    BY <1>0, <1>1, NextIsOpen
<1>3. AgreedSize \in Nat
    BY <1>0, AgreedBound
<1>4. /\ a \in Seq(Message) /\ h \in Seq(Message) /\ msgs \in Seq(Message)
      /\ Sorted(h)
    BY <1>0, <1>3, AnswerTyped, HelloSent
<1>5. \A x : In(x, h) => x.kind = "hello"
    <2>1. \A x : In(x, h) => x = [kind |-> "hello", len |-> IF config.framed THEN AgreedSize ELSE 0]
        BY <1>0, <1>3, HelloSent
    <2> QED BY <2>1
<1>6. Sorted(a) /\ \A x : In(x, a) => x.kind = "accept"
    <2>1. \A x : In(x, a) => x = AcceptMessage(TRUE)
        BY InLiteral
    <2>2. Sorted(a)
        BY DEF Sorted
    <2>3. AcceptMessage(TRUE).kind = "accept"
        BY DEF AcceptMessage
    <2> HIDE DEF a, AcceptMessage
    <2>4. \A x : In(x, a) => x.kind = "accept"
        BY <2>1, <2>3
    <2> QED BY <2>2, <2>4
<1> HIDE DEF a, h, Message
<1>7. Before("accept", "hello")
    BY DEF Before, Rank
<1>8. Sorted(a \o h)
    BY <1>4, <1>5, <1>6, <1>7, SortedConcatenated
<1>9. \A x : In(x, a \o h) => In(x, a) \/ In(x, h)
    BY <1>4, InConcatenated
<1>10. Sorted(msgs) /\ \A x : In(x, msgs) => x.kind \in {"accept", "hello"}
    BY <1>5, <1>6, <1>8, <1>9
<1> HIDE DEF msgs
<1>11. \A k : Has(msgs, k) => k \in {"accept", "hello"}
    BY <1>10, HasKind
<1>12. ~Has(wire'["server"], "open") /\ ~Has(wire'["server"], "identify")
    <2>1. ~Before("open", "open")
        BY DEF Before, Rank
    <2>2. ~Has(wire'["server"], "open")
        BY <1>0, <1>1, <1>4, <2>1, TakenOnce
    <2>3. ASSUME Has(wire["server"], "identify") PROVE FALSE
        <3>1. PICK x : In(x, wire["server"]) /\ x.kind = "identify"
            BY <2>3, HasKind
        <3>2. x \in Message
            BY <1>0, <3>1, TypedPeer DEF In
        <3>3. Truthful("server", x)
            BY <1>0, <3>1, <3>2 DEF SessionInv, MessagesOK
        <3> QED BY <1>2, <3>1, <3>3 DEF Truthful
    <2>4. ~Has(wire'["server"], "identify")
        BY <1>0, <1>1, <1>4, <2>3, WriteKinds
    <2> QED BY <2>2, <2>4
<1>13. \A x : ~In(x, wire["client"])
    BY <1>2, InLiteral
<1>14. StepOf("server")
    BY DEF StepOf
<1> QED
    BY <1>0, <1>1, <1>4, <1>10, <1>11, <1>12, <1>13, <1>14, TurnWritten DEF Business

\* Identify answers the one Hello, Identified the one Identify.
LEMMA TurnShake ==
    ASSUME SessionInv, NEW p \in Peers, StepOf(p), Identifies(p) \/ Grants(p)
    PROVE  InTurn'
<1>0. TypeOK /\ Joined /\ InTurn /\ Other(Other(p)) = p /\ Other(p) \in Peers /\ TRUE \in BOOLEAN
    BY TwoPeers DEF SessionInv
<1>1. CASE Identifies(p)
    <2>1. PICK seed \in Sids :
             Write(p, <<[kind |-> "identify", len |-> RpcLen(p), seed |-> seed]>>, TRUE)
        BY <1>1 DEF Identifies
    <2> PICK m : m = [kind |-> "identify", len |-> RpcLen(p), seed |-> seed]
        OBVIOUS
    <2>2. m \in Message /\ m.kind = "identify" /\ Write(p, <<m>>, TRUE)
        BY <1>0, <2>1, RpcLenTyped, MessagesTyped
    <2>3. wire[p] # <<>> /\ Head(wire[p]).kind = "hello" /\ config.logical[p] = "client"
        BY <1>1 DEF Identifies, Takes1
    <2>4. gate[Other(p)] = "FRAMING_READY" /\ Has(wire[p], "hello")
        BY <2>3, NextMessage DEF Truthful
    <2>5. ~Has(wire[Other(p)], "identify") /\ gate[p] # "APP_READY"
        BY <1>0, <2>3, <2>4 DEF InTurn, Joined
    <2> HIDE DEF Message
    <2>6. ASSUME NEW x, In(x, wire[Other(p)]) PROVE Before(x.kind, m.kind)
        <3>1. x \in Message
            BY <1>0, <2>6, TypedPeer DEF In
        <3>2. Truthful(Other(p), x) /\ x.kind # "identify"
            BY <1>0, <2>5, <2>6, <3>1, InHas DEF SessionInv, MessagesOK
        <3>3. x.kind \in {"open", "accept", "hello"}
            BY <1>0, <2>3, <2>5, <3>1, <3>2, MessageFields DEF Truthful, Business
        <3> QED BY <2>2, <3>3 DEF Before, Rank
    <2>7. ~Has(wire'[p], "hello")
        <3>1. ~Before("hello", "hello") /\ <<m>> \in Seq(Message)
            BY <2>2, Singleton DEF Before, Rank
        <3> QED BY <2>2, <2>3, <3>1, TakenOnce
    <2> QED
        BY <1>0, <2>2, <2>3, <2>6, <2>7, TurnOne DEF Business
<1>2. CASE Grants(p)
    <2>1. PICK s \in Sids :
             Write(p, <<[kind |-> "identified", len |-> RpcLen(p), sid |-> s]>>, TRUE)
        BY <1>2 DEF Grants
    <2> PICK m : m = [kind |-> "identified", len |-> RpcLen(p), sid |-> s]
        OBVIOUS
    <2>2. m \in Message /\ m.kind = "identified" /\ Write(p, <<m>>, TRUE)
        BY <1>0, <2>1, RpcLenTyped, MessagesTyped
    <2>3. wire[p] # <<>> /\ Head(wire[p]).kind = "identify"
        BY <1>2 DEF Grants, Takes1
    <2>4. gate[p] = "FRAMING_READY"
        BY <2>3, NextMessage DEF Truthful
    <2> HIDE DEF Message
    <2>5. ASSUME NEW x, In(x, wire[Other(p)]) PROVE Before(x.kind, m.kind)
        <3>1. x \in Message
            BY <1>0, <2>5, TypedPeer DEF In
        <3>2. Truthful(Other(p), x)
            BY <1>0, <2>5, <3>1 DEF SessionInv, MessagesOK
        <3>3. x.kind \in {"open", "accept", "hello", "identify"}
            BY <1>0, <2>4, <3>1, <3>2, MessageFields DEF Truthful, Business
        <3> QED BY <2>2, <3>3 DEF Before, Rank
    <2> QED
        BY <1>0, <2>2, <2>3, <2>5, TurnOne DEF Business
<1> QED BY <1>1, <1>2

\* Whoever is in session may speak: its peer is too, or will be before it hears.
LEMMA TurnSpeech ==
    ASSUME SessionInv, NEW p \in Peers, StepOf(p),
           \/ \E kind \in {"request", "event"} : Send(p, kind)
           \/ \E n \in Numbers : Respond(p, n)
    PROVE  InTurn'
<1>0. TypeOK /\ Joined /\ Other(p) \in Peers /\ FALSE \in BOOLEAN
    BY TwoPeers DEF SessionInv
<1>1. gate[p] = "APP_READY"
    BY SpeakerReady
<1>2. up => gate[Other(p)] = "APP_READY" \/ Has(wire[Other(p)], "identified")
    BY <1>0, <1>1 DEF Joined
<1>3. ASSUME NEW kind \in Business, NEW n \in Numbers,
             Write(p, <<[kind |-> kind, len |-> RpcLen(p), sid |-> sid[p], n |-> n]>>, FALSE)
      PROVE  InTurn'
    <2> PICK m : m = [kind |-> kind, len |-> RpcLen(p), sid |-> sid[p], n |-> n]
        OBVIOUS
    <2>1. m \in Message /\ m.kind \in Business /\ Write(p, <<m>>, FALSE)
        BY <1>0, <1>3, RpcLenTyped, TypedPeer, MessagesTyped
    <2> HIDE DEF Message
    <2>2. ASSUME NEW x, In(x, wire[Other(p)]) PROVE Before(x.kind, m.kind)
        <3>1. x \in Message
            BY <1>0, <2>2, TypedPeer DEF In
        <3> QED BY <2>1, <3>1, MessageFields DEF Before, Rank, Business
    <2> QED
        BY <1>0, <1>2, <2>1, <2>2, TurnOne DEF Business
<1>4. ASSUME NEW kind \in {"request", "event"}, Send(p, kind) PROVE InTurn'
    <2>1. kind \in Business /\ sent[p] + 1 \in Numbers
        BY <1>0, <1>4, NextNumber DEF Business, Send
    <2> QED BY <1>3, <1>4, <2>1 DEF Send
<1>5. ASSUME NEW n \in Numbers, Respond(p, n) PROVE InTurn'
    <2>1. "response" \in Business
        BY DEF Business
    <2> QED BY <1>3, <1>5, <2>1 DEF Respond
<1> QED BY <1>4, <1>5

\* Everything comes in its turn.
LEMMA TurnKept ==
    ASSUME SessionInv, NEW p \in Peers, StepOf(p)
    PROVE  InTurn'
<1>0. TypeOK /\ InTurn /\ "client" \in Peers /\ "server" \in Peers
      /\ TRUE \in BOOLEAN /\ FALSE \in BOOLEAN
    BY DEF SessionInv, Peers
<1>1. ASSUME \A q \in Peers : wire'[q] = wire[q] \/ (wire'[q] = <<>> /\ q = p) PROVE InTurn'
    <2>1. Sorted(<<>>) /\ \A k : ~Has(<<>>, k)
        BY DEF Sorted, Has
    <2>2. \A q \in Peers : /\ Sorted(wire'[q]) /\ Sorted(events'[q])
                           /\ gate[q] = "APP_READY" => gate'[q] = "APP_READY"
                           /\ wire'[q] = wire[q] \/ \A k : ~Has(wire'[q], k)
        BY <1>0, <1>1, <2>1, EventMembers, Lasting DEF InTurn
    <2>3. \A q \in Peers : Other(q) \in Peers
        BY TwoPeers
    <2> QED
        BY <1>0, <2>2, <2>3 DEF InTurn
<1>2. CASE AwaitsOpen \/ Consume(p)
    BY <1>1, <1>2 DEF AwaitsOpen, Consume
<1>3. CASE CloseEndpoint(p)
    <2>1. \A q \in Peers : wire'[q] = wire[q] \/ (wire'[q] = <<>> /\ q = p)
        BY <1>0, <1>3 DEF CloseEndpoint, TypeOK
    <2> QED BY <1>1, <2>1
<1>4. CASE StartsUnframed(p)
    <2>1. config.size[p] \in Nat
        BY <1>0, TypedConfig
    <2> QED
        BY <1>0, <1>4, <2>1, TurnHello DEF StartsUnframed, LinkUp
<1>5. CASE IsAccepted
    <2>1. AgreedSize \in Nat /\ StepOf("client")
        BY <1>0, <1>5, AgreedBound DEF StepOf
    <2> QED
        BY <1>0, <1>5, <2>1, TurnHello DEF IsAccepted, Takes1, LinkUp
<1>6. CASE IsDeclined
    <2>1. StepOf("client")
        BY <1>6 DEF StepOf
    <2> QED
        BY <1>0, <1>6, <2>1, TurnSilent DEF IsDeclined, Takes1
<1>7. CASE Passes(p) \/ Dispatches(p)
    BY <1>7, TurnSilent DEF Passes, Dispatches, Takes1, Ignores
<1>8. CASE IsGranted(p)
    <2>1. gate'[p] = "APP_READY"
        BY <1>0, <1>8 DEF IsGranted, Enters, TypeOK
    <2> QED
        BY <1>8, <2>1, TurnSilent DEF IsGranted, Takes1
<1> QED
    BY <1>2, <1>3, <1>4, <1>5, <1>6, <1>7, <1>8, TurnOpen, TurnAccept, TurnShake, TurnSpeech
       DEF StepOf

-----------------------------------------------------------------------------
(* The link                                                                *)

\* Where the limits stay, and a peer that is past opening the link has the
\* agreed one.
LEMMA LinkStays ==
    ASSUME SessionInv, UNCHANGED <<config, frameSize>>, up' => up,
           \A q \in Peers :
              /\ gate[q] # "LINK_CONNECTED" => gate'[q] # "LINK_CONNECTED"
              /\ gate'[q] # "LINK_CONNECTED" /\ gate[q] = "LINK_CONNECTED" =>
                    /\ q = "client" /\ config.framed /\ frameSize["client"] = AgreedSize
                    /\ gate["server"] # "LINK_CONNECTED"
              /\ lifecycle[q] # "idle" => lifecycle'[q] # "idle"
              /\ ~config.framed /\ lifecycle'[q] # "idle" => lifecycle[q] # "idle",
           gate["server"] # "LINK_CONNECTED" /\ Has(wire["client"], "accept") =>
              \/ Has(wire'["client"], "accept")
              \/ ~Roomy /\ config.size["client"] = AgreedSize
              \/ wire'["client"] = <<>> /\ ~up',
           wire["client"] = <<>> /\ ~up => wire'["client"] = <<>>
    PROVE  Linked'
<1>0. Linked /\ "client" \in Peers /\ "server" \in Peers
    BY DEF SessionInv, Peers
<1>1. AgreedSize' = AgreedSize /\ (Roomy' <=> Roomy) /\ config' = config /\ frameSize' = frameSize
    BY DEF AgreedSize, Roomy
<1> HIDE DEF AgreedSize, Roomy, Peers, Has
<1>2. ASSUME NEW q \in Peers
      PROVE  /\ gate'[q] = "LINK_CONNECTED" => frameSize[q] = config.size[q]
             /\ ~config.framed =>
                   frameSize[q] = config.size[q]
                   /\ (lifecycle'[q] # "idle" => gate'[q] # "LINK_CONNECTED")
             /\ config.framed /\ gate'[q] # "LINK_CONNECTED" => frameSize[q] = AgreedSize
    BY <1>0, <1>2 DEF Linked
<1>3. config.framed /\ gate'["server"] = "LINK_CONNECTED" => gate'["client"] = "LINK_CONNECTED"
    BY <1>0 DEF Linked
<1>4. ASSUME config.framed, gate'["server"] # "LINK_CONNECTED"
      PROVE  /\ lifecycle'["client"] # "idle"
             /\ \/ gate'["client"] # "LINK_CONNECTED"
                \/ Has(wire'["client"], "accept")
                \/ ~Roomy /\ config.size["client"] = AgreedSize
                \/ wire'["client"] = <<>> /\ ~up'
    <2>1. gate["server"] # "LINK_CONNECTED"
        BY <1>0, <1>4
    <2>2. /\ lifecycle["client"] # "idle"
          /\ \/ gate["client"] # "LINK_CONNECTED"
             \/ Has(wire["client"], "accept")
             \/ ~Roomy /\ config.size["client"] = AgreedSize
             \/ wire["client"] = <<>> /\ ~up
        BY <1>0, <1>4, <2>1 DEF Linked
    <2> QED BY <1>0, <2>1, <2>2
<1> HIDE DEF Has
<1>5. \A s, k : Has(s, k)' <=> Has(s', k)
    BY DEF Has
<1> QED
    BY <1>1, <1>2, <1>3, <1>4 DEF Linked, Has

\* Written where the link is open, or about to be opened.
LEMMA LinkWritten ==
    ASSUME SessionInv, NEW p \in Peers, NEW msgs \in Seq(Message), NEW took \in BOOLEAN,
           took => wire[p] # <<>>, Write(p, msgs, took), UNCHANGED <<config, frameSize, up>>,
           \A q \in Peers :
              /\ gate[q] # "LINK_CONNECTED" => gate'[q] # "LINK_CONNECTED"
              /\ gate'[q] # "LINK_CONNECTED" /\ gate[q] = "LINK_CONNECTED" =>
                    /\ q = "client" /\ config.framed /\ frameSize["client"] = AgreedSize
                    /\ gate["server"] # "LINK_CONNECTED"
              /\ lifecycle[q] # "idle" => lifecycle'[q] # "idle"
              /\ ~config.framed /\ lifecycle'[q] # "idle" => lifecycle[q] # "idle",
           took /\ p = "client" /\ Head(wire[p]).kind = "accept"
                /\ gate["server"] # "LINK_CONNECTED" =>
              ~Roomy /\ config.size["client"] = AgreedSize
    PROVE  Linked'
<1>0. TypeOK /\ p \in {"client", "server"} /\ Other("server") = "client"
    BY TwoPeers DEF SessionInv
<1> HIDE DEF Message
<1>1. /\ Has(wire[p], "accept") =>
            Has(wire'[p], "accept") \/ (took /\ Head(wire[p]).kind = "accept")
      /\ Has(wire[Other(p)], "accept") => Has(wire'[Other(p)], "accept")
    BY <1>0, WriteKinds
<1>2. /\ wire'[p] = IF took THEN Tail(wire[p]) ELSE wire[p]
      /\ ~up => wire'[Other(p)] = wire[Other(p)]
    BY <1>0, WriteWires
<1>3. gate["server"] # "LINK_CONNECTED" /\ Has(wire["client"], "accept") =>
         Has(wire'["client"], "accept") \/ (~Roomy /\ config.size["client"] = AgreedSize)
    <2>1. CASE p = "client"
        BY <1>1, <2>1
    <2>2. CASE p = "server"
        BY <1>0, <1>1, <2>2
    <2> QED BY <1>0, <2>1, <2>2
<1>4. wire["client"] = <<>> /\ ~up => wire'["client"] = <<>>
    <2>1. CASE p = "client"
        BY <1>2, <2>1
    <2>2. CASE p = "server"
        BY <1>0, <1>2, <2>2
    <2> QED BY <1>0, <2>1, <2>2
<1>5. up' => up
    OBVIOUS
<1> QED
    BY <1>3, <1>4, <1>5, LinkStays

\* ACCEPT is only left undone where it is too large for the client.
LEMMA LinkPasses ==
    ASSUME SessionInv, NEW p \in Peers, Passes(p)
    PROVE  Linked'
<1>1. /\ Write(p, <<>>, TRUE) /\ wire[p] # <<>>
      /\ UNCHANGED <<config, frameSize, up, gate, lifecycle>>
    BY DEF Passes, Takes1, Ignores, coreVars
<1>2. ASSUME Head(wire[p]).kind = "accept"
      PROVE  ~Roomy /\ config.size["client"] = AgreedSize
    <2> DEFINE h == Head(wire[p])
    <2>1. h.len > frameSize[p]
        BY <1>2 DEF Passes
    <2>2. p = "client" /\ gate["client"] = "LINK_CONNECTED" /\ config.framed
        BY <1>1, <1>2, NextIsAccept
    <2>3. h.len = Min(ControlFrame, config.size["server"])
        BY <1>1, <1>2, NextMessage DEF Truthful
    <2>4. TypeOK /\ frameSize["client"] = config.size["client"] /\ "client" \in Peers
        BY <2>2 DEF SessionInv, Linked
    <2>5. config.size["client"] = AgreedSize /\ config.size["client"] < ControlFrame
        BY <2>1, <2>2, <2>3, <2>4, AgreedBound
    <2>6. config.size["client"] \in Nat /\ ControlFrame \in Nat
        BY <2>4, TypedConfig, SessionAssumption
    <2> QED
        BY <2>2, <2>4, <2>5, <2>6 DEF Roomy
<1>3. <<>> \in Seq(Message)
    OBVIOUS
<1> HIDE DEF Message
<1> QED
    BY <1>1, <1>2, <1>3, LinkWritten

\* Messages of the handshake and of the session leave the limit alone.
LEMMA LinkSpoken ==
    ASSUME SessionInv, NEW p \in Peers,
           \/ Identifies(p) \/ Dispatches(p)
           \/ \E kind \in {"request", "event"} : Send(p, kind)
           \/ \E n \in Numbers : Respond(p, n)
    PROVE  Linked'
<1>0. TypeOK
    BY DEF SessionInv
<1>a. <<>> \in Seq(Message)
    OBVIOUS
<1>1. CASE Dispatches(p)
    <2>1. /\ Write(p, <<>>, TRUE) /\ wire[p] # <<>> /\ Head(wire[p]).kind \in {"request", "event"}
          /\ UNCHANGED <<config, frameSize, up, gate, lifecycle>>
        BY <1>1 DEF Dispatches, Takes1, coreVars
    <2> HIDE DEF Message
    <2> QED BY <1>a, <2>1, LinkWritten
<1>2. CASE Identifies(p)
    <2>1. /\ wire[p] # <<>> /\ Head(wire[p]).kind = "hello" /\ Alive(p)
          /\ UNCHANGED <<config, frameSize, up, gate, lifecycle>>
        BY <1>2 DEF Identifies, Takes1, coreVars
    <2>2. PICK seed \in Sids :
             Write(p, <<[kind |-> "identify", len |-> RpcLen(p), seed |-> seed]>>, TRUE)
        BY <1>2 DEF Identifies
    <2>3. RpcLen(p) \in Nat
        BY <2>1, NextWithinLimit
    <2>4. [kind |-> "identify", len |-> RpcLen(p), seed |-> seed] \in Message
        BY <2>3, MessagesTyped
    <2>5. <<[kind |-> "identify", len |-> RpcLen(p), seed |-> seed]>> \in Seq(Message)
        BY <2>4, Singleton
    <2> HIDE DEF Message
    <2> QED BY <2>1, <2>2, <2>5, LinkWritten
<1>3. CASE \E kind \in {"request", "event"} : Send(p, kind)
    <2>1. PICK kind \in {"request", "event"} : Send(p, kind)
        BY <1>3
    <2>2. /\ Write(p, <<[kind |-> kind, len |-> RpcLen(p), sid |-> sid[p],
                         n |-> sent[p] + 1]>>, FALSE)
          /\ UNCHANGED <<config, frameSize, up, gate, lifecycle>>
        BY <2>1 DEF Send, coreVars
    <2>3. <<[kind |-> kind, len |-> RpcLen(p), sid |-> sid[p], n |-> sent[p] + 1]>> \in Seq(Message)
        BY <1>0, <2>1, SpeechTyped, NextNumber DEF Send, Business
    <2> HIDE DEF Message
    <2> QED BY <2>2, <2>3, LinkWritten
<1>4. CASE \E n \in Numbers : Respond(p, n)
    <2>1. PICK n \in Numbers : Respond(p, n)
        BY <1>4
    <2>2. /\ Write(p, <<[kind |-> "response", len |-> RpcLen(p), sid |-> sid[p],
                         n |-> n]>>, FALSE)
          /\ UNCHANGED <<config, frameSize, up, gate, lifecycle>>
        BY <2>1 DEF Respond, coreVars
    <2>3. <<[kind |-> "response", len |-> RpcLen(p), sid |-> sid[p], n |-> n]>> \in Seq(Message)
        BY <1>0, <2>1, SpeechTyped DEF Business
    <2> HIDE DEF Message
    <2> QED BY <2>2, <2>3, LinkWritten
<1> QED BY <1>1, <1>2, <1>3, <1>4

\* OPEN, and a refusal of it, leave the limits alone.
LEMMA LinkRefused ==
    ASSUME SessionInv, SendsOpen \/ DeclinesOpen \/ IsDeclined
    PROVE  Linked'
<1>0. TypeOK /\ "client" \in Peers /\ "server" \in Peers
    BY DEF SessionInv, Peers
<1>a. /\ <<>> \in Seq(Message) /\ <<OpenMessage>> \in Seq(Message)
      /\ <<AcceptMessage(FALSE)>> \in Seq(Message)
    <2>1. <<>> \in Seq(Message)
        OBVIOUS
    <2>2. 0 \in Nat
        OBVIOUS
    <2> HIDE DEF Message
    <2> QED BY <1>0, <2>1, <2>2, AnswerTyped
<1>1. CASE SendsOpen
    <2>1. /\ Write("client", <<OpenMessage>>, FALSE) /\ UNCHANGED <<config, frameSize, up, gate>>
          /\ config.framed /\ lifecycle' = [lifecycle EXCEPT !["client"] = "connecting"]
        BY <1>1 DEF SendsOpen
    <2>2. \A q \in Peers : lifecycle[q] # "idle" => lifecycle'[q] # "idle"
        BY <1>0, <2>1 DEF TypeOK
    <2> HIDE DEF Message
    <2> QED BY <1>0, <1>a, <2>1, <2>2, LinkWritten
<1>2. CASE DeclinesOpen
    <2>1. /\ Write("server", <<AcceptMessage(FALSE)>>, TRUE) /\ wire["server"] # <<>>
          /\ UNCHANGED <<config, frameSize, up, gate, lifecycle>>
        BY <1>2 DEF DeclinesOpen, Takes1, coreVars
    <2> HIDE DEF Message
    <2> QED BY <1>0, <1>a, <2>1, LinkWritten
<1>3. CASE IsDeclined
    <2>1. /\ Write("client", <<>>, TRUE) /\ wire["client"] # <<>>
          /\ Head(wire["client"]).kind = "accept" /\ ~Head(wire["client"]).ok
          /\ UNCHANGED <<config, frameSize, up, gate, lifecycle>>
        BY <1>3 DEF IsDeclined, Takes1
    <2>2. gate["server"] = "LINK_CONNECTED"
        BY <1>0, <2>1, NextMessage DEF Truthful
    <2> HIDE DEF Message
    <2> QED BY <1>0, <1>a, <2>1, <2>2, LinkWritten
<1> QED BY <1>1, <1>2, <1>3

\* A peer that enters a session has the agreed limit.
LEMMA LinkEntered ==
    ASSUME SessionInv, NEW p \in Peers, Grants(p) \/ IsGranted(p)
    PROVE  Linked'
<1>0. TypeOK /\ p \in {"client", "server"}
    BY TwoPeers DEF SessionInv
<1>1. /\ wire[p] # <<>> /\ Head(wire[p]).kind \in {"identify", "identified"} /\ Alive(p)
      /\ UNCHANGED <<config, frameSize, up, lifecycle>>
      /\ gate' = [gate EXCEPT ![p] = "APP_READY"]
    BY DEF Grants, IsGranted, Takes1, Enters
<1>2. PICK msgs \in Seq(Message) : Write(p, msgs, TRUE)
    <2>1. CASE IsGranted(p)
        <3>1. Write(p, <<>>, TRUE)
            BY <2>1 DEF IsGranted
        <3>2. <<>> \in Seq(Message)
            OBVIOUS
        <3> QED BY <3>1, <3>2
    <2>2. CASE Grants(p)
        <3>1. PICK s \in Sids :
                 Write(p, <<[kind |-> "identified", len |-> RpcLen(p), sid |-> s]>>, TRUE)
            BY <2>2 DEF Grants
        <3>2. [kind |-> "identified", len |-> RpcLen(p), sid |-> s] \in Message
            BY <1>0, RpcLenTyped, MessagesTyped
        <3>3. <<[kind |-> "identified", len |-> RpcLen(p), sid |-> s]>> \in Seq(Message)
            BY <3>2, Singleton
        <3> QED BY <3>1, <3>3
    <2> QED BY <2>1, <2>2
<1>3. /\ config.framed => frameSize[p] = AgreedSize /\ gate["server"] # "LINK_CONNECTED"
      /\ ~config.framed => gate[p] # "LINK_CONNECTED"
    <2>1. config.framed => frameSize[p] = AgreedSize
        BY <1>1, NextWithinLimit
    <2>2. config.framed => gate["server"] # "LINK_CONNECTED"
        BY <1>1, NextMessage DEF Truthful
    <2>3. ~config.framed => gate[p] # "LINK_CONNECTED"
        BY <1>1 DEF SessionInv, Linked, Alive
    <2> QED BY <2>1, <2>2, <2>3
<1>4. gate[p] = "LINK_CONNECTED" =>
         /\ p = "client" /\ config.framed /\ frameSize["client"] = AgreedSize
         /\ gate["server"] # "LINK_CONNECTED"
    BY <1>0, <1>3, TypedConfig
<1>5. \A q \in Peers : gate'[q] = IF q = p THEN "APP_READY" ELSE gate[q]
    BY <1>0, <1>1 DEF TypeOK
<1> HIDE DEF Message
<1>6. \A q \in Peers :
         /\ gate[q] # "LINK_CONNECTED" => gate'[q] # "LINK_CONNECTED"
         /\ gate'[q] # "LINK_CONNECTED" /\ gate[q] = "LINK_CONNECTED" =>
               /\ q = "client" /\ config.framed /\ frameSize["client"] = AgreedSize
               /\ gate["server"] # "LINK_CONNECTED"
    BY <1>4, <1>5
<1> QED BY <1>1, <1>2, <1>6, LinkWritten

\* The link of a peer opens.
LEMMA LinkOpens ==
    ASSUME SessionInv, NEW p \in Peers, NEW size, UNCHANGED config,
           frameSize' = [frameSize EXCEPT ![p] = size],
           gate' = [gate EXCEPT ![p] = "FRAMING_READY"]
    PROVE  /\ gate'[p] = "FRAMING_READY" /\ frameSize'[p] = size
           /\ gate'[Other(p)] = gate[Other(p)] /\ frameSize'[Other(p)] = frameSize[Other(p)]
           /\ AgreedSize' = AgreedSize
BY TwoPeers DEF SessionInv, TypeOK, AgreedSize

\* connect() without frames: no peer waits for the other.
LEMMA LinkUnframed ==
    ASSUME SessionInv, NEW p \in Peers, StartsUnframed(p)
    PROVE  Linked'
<1>0. /\ TypeOK /\ Linked /\ Other(p) \in Peers /\ Other(p) # p
      /\ \A q \in Peers : q = p \/ q = Other(p)
    BY TwoPeers DEF SessionInv
<1>1. /\ ~config.framed /\ UNCHANGED config
      /\ lifecycle' = [lifecycle EXCEPT ![p] = "connecting"]
      /\ frameSize' = [frameSize EXCEPT ![p] = config.size[p]]
      /\ gate' = [gate EXCEPT ![p] = "FRAMING_READY"]
    BY DEF StartsUnframed, LinkUp
<1>2. /\ gate'[p] = "FRAMING_READY" /\ frameSize'[p] = config.size[p]
      /\ gate'[Other(p)] = gate[Other(p)] /\ frameSize'[Other(p)] = frameSize[Other(p)]
      /\ lifecycle'[Other(p)] = lifecycle[Other(p)]
    BY <1>0, <1>1, LinkOpens DEF TypeOK
<1>3. \A q \in Peers :
         /\ gate'[q] = "LINK_CONNECTED" => frameSize'[q] = config.size[q]
         /\ frameSize'[q] = config.size[q]
         /\ lifecycle'[q] # "idle" => gate'[q] # "LINK_CONNECTED"
    BY <1>0, <1>1, <1>2 DEF Linked
<1> QED
    BY <1>1, <1>3 DEF Linked

\* handleOpen: ACCEPT is on its way when the server's limit changes.
LEMMA LinkAnswered ==
    ASSUME SessionInv, AcceptsOpen
    PROVE  Linked'
<1>0. /\ TypeOK /\ Linked /\ "client" \in Peers /\ "server" \in Peers
      /\ \A q \in Peers : q \in {"client", "server"}
      /\ Other("server") = "client" /\ Other("client") = "server"
    BY DEF SessionInv, Peers, Other
<1>1. /\ wire["server"] # <<>> /\ Head(wire["server"]).kind = "open"
      /\ Write("server", <<AcceptMessage(TRUE)>> \o HelloOf("server", AgreedSize), TRUE)
      /\ frameSize' = [frameSize EXCEPT !["server"] = AgreedSize]
      /\ gate' = [gate EXCEPT !["server"] = "FRAMING_READY"]
      /\ UNCHANGED <<config, lifecycle, up>>
    BY DEF AcceptsOpen, Takes1, LinkUp
<1>2. /\ gate["server"] = "LINK_CONNECTED" /\ config.framed /\ wire["client"] = <<>>
      /\ opening["client"]
    BY <1>0, <1>1, NextIsOpen, NextMessage DEF Truthful
<1>3. lifecycle["client"] # "idle"
    BY <1>0, <1>2 DEF SessionInv, Lives, Life
<1>4. gate["client"] = "LINK_CONNECTED"
    BY <1>0, <1>2 DEF Linked
<1>5. /\ gate'["server"] = "FRAMING_READY" /\ frameSize'["server"] = AgreedSize
      /\ gate'["client"] = "LINK_CONNECTED" /\ frameSize'["client"] = config.size["client"]
      /\ AgreedSize' = AgreedSize
    <2>1. /\ gate'["server"] = "FRAMING_READY" /\ frameSize'["server"] = AgreedSize
          /\ gate'[Other("server")] = gate[Other("server")]
          /\ frameSize'[Other("server")] = frameSize[Other("server")]
          /\ AgreedSize' = AgreedSize
        <3>1. "server" \in Peers
            BY <1>0
        <3>2. /\ config' = config
              /\ frameSize' = [frameSize EXCEPT !["server"] = AgreedSize]
              /\ gate' = [gate EXCEPT !["server"] = "FRAMING_READY"]
            BY <1>1
        <3> HIDE DEF Peers
        <3> QED BY <3>1, <3>2, LinkOpens
    <2> HIDE DEF AgreedSize, Other
    <2> QED BY <1>0, <1>4, <2>1 DEF Linked
<1> DEFINE a == <<AcceptMessage(TRUE)>>
           h == HelloOf("server", AgreedSize)
<1>6. AgreedSize \in Nat /\ TRUE \in BOOLEAN
    BY <1>0, AgreedBound
<1>7. a \in Seq(Message) /\ h \in Seq(Message) /\ a \o h \in Seq(Message)
    BY <1>0, <1>6, AnswerTyped, HelloSent
<1>8. In(AcceptMessage(TRUE), a) /\ AcceptMessage(TRUE).kind = "accept"
    BY InLiteral DEF AcceptMessage
<1> HIDE DEF a, h, Message, AcceptMessage
<1>9. In(AcceptMessage(TRUE), a \o h)
    BY <1>7, <1>8, InConcatenated
<1>10. Has(a \o h, "accept")
    BY <1>8, <1>9, HasKind
<1>11. Write("server", a \o h, TRUE)
    BY <1>1 DEF a, h
<1>12. up => Has(wire'["client"], "accept")
    <2> SUFFICES ASSUME up PROVE Has(wire'["client"], "accept")
        OBVIOUS
    <2>1. Has(wire'[Other("server")], "accept")
        BY <1>0, <1>1, <1>6, <1>7, <1>10, <1>11, WriteKinds
    <2> QED BY <1>0, <2>1
<1>13. ~up => wire'["client"] = <<>>
    <2> SUFFICES ASSUME ~up PROVE wire'["client"] = <<>>
        OBVIOUS
    <2>1. wire'[Other("server")] = wire[Other("server")]
        BY <1>0, <1>1, <1>6, <1>7, <1>11, WriteWires
    <2> QED BY <1>0, <1>2, <2>1
<1>14. up' = up /\ lifecycle'["client"] # "idle" /\ config'.framed /\ config' = config
    BY <1>1, <1>2, <1>3
<1> HIDE DEF Has, AgreedSize, Peers
<1>15. Has(wire["client"], "accept")' <=> Has(wire'["client"], "accept")
    BY DEF Has
<1>16. Has(wire["client"], "accept")' \/ (wire'["client"] = <<>> /\ ~up')
    BY <1>12, <1>13, <1>14, <1>15
<1> QED
    BY <1>0, <1>5, <1>14, <1>16 DEF Linked

\* handleAccept: the client's limit follows the server's.
LEMMA LinkAccepted ==
    ASSUME SessionInv, IsAccepted
    PROVE  Linked'
<1>0. /\ TypeOK /\ Linked /\ "client" \in Peers /\ "server" \in Peers
      /\ \A q \in Peers : q \in {"client", "server"}
      /\ Other("server") = "client" /\ Other("client") = "server"
    BY DEF SessionInv, Peers, Other
<1>1. /\ wire["client"] # <<>> /\ Head(wire["client"]).kind = "accept"
      /\ Head(wire["client"]).ok
      /\ frameSize' = [frameSize EXCEPT !["client"] = AgreedSize]
      /\ gate' = [gate EXCEPT !["client"] = "FRAMING_READY"]
      /\ UNCHANGED <<config, lifecycle, up>>
    BY DEF IsAccepted, Takes1, LinkUp
<1>2. gate["server"] # "LINK_CONNECTED" /\ config.framed
    BY <1>0, <1>1, NextMessage DEF Truthful
<1>3. lifecycle["client"] # "idle" /\ frameSize["server"] = AgreedSize
    BY <1>0, <1>2 DEF Linked
<1>4. /\ gate'["client"] = "FRAMING_READY" /\ frameSize'["client"] = AgreedSize
      /\ gate'["server"] = gate["server"] /\ frameSize'["server"] = frameSize["server"]
      /\ AgreedSize' = AgreedSize
    <2>1. /\ gate'["client"] = "FRAMING_READY" /\ frameSize'["client"] = AgreedSize
          /\ gate'[Other("client")] = gate[Other("client")]
          /\ frameSize'[Other("client")] = frameSize[Other("client")]
          /\ AgreedSize' = AgreedSize
        <3>1. "client" \in Peers
            BY <1>0
        <3>2. /\ config' = config
              /\ frameSize' = [frameSize EXCEPT !["client"] = AgreedSize]
              /\ gate' = [gate EXCEPT !["client"] = "FRAMING_READY"]
            BY <1>1
        <3> HIDE DEF Peers
        <3> QED BY <3>1, <3>2, LinkOpens
    <2> HIDE DEF AgreedSize, Other
    <2> QED BY <1>0, <2>1
<1> HIDE DEF AgreedSize, Peers, Has
<1> QED
    BY <1>0, <1>1, <1>2, <1>3, <1>4 DEF Linked

\* The link stays agreed.
LEMMA LinkedKept ==
    ASSUME SessionInv, NEW p \in Peers, StepOf(p)
    PROVE  Linked'
<1>0. TypeOK /\ p \in {"client", "server"} /\ Other("server") = "client"
      /\ "client" \in Peers /\ Other(p) # p
    BY TwoPeers DEF SessionInv, Peers
<1> HIDE DEF Message, CoreEvent, Peers, Has, AgreedSize, Roomy
<1>1. CASE AwaitsOpen
    <2>1. /\ lifecycle' = [lifecycle EXCEPT !["server"] = "connecting"] /\ config.framed
          /\ UNCHANGED <<config, up, wire, frameSize, gate>>
        BY <1>1 DEF AwaitsOpen, coreVars
    <2>2. \A q \in Peers : lifecycle[q] # "idle" => lifecycle'[q] # "idle"
        BY <1>0, <2>1 DEF TypeOK
    <2>3. Has(wire["client"], "accept") => Has(wire'["client"], "accept")
        BY <2>1
    <2> QED BY <2>1, <2>2, <2>3, LinkStays
<1>2. CASE Consume(p)
    <2>1. /\ lifecycle[p] # "idle"
          /\ lifecycle' = lifecycle \/ lifecycle' = [lifecycle EXCEPT ![p] = "ready"]
          /\ UNCHANGED <<config, up, wire, frameSize, gate>>
        BY <1>2 DEF Consume, Takes, Alive, coreVars
    <2>2. \A q \in Peers : lifecycle[q] # "idle" <=> lifecycle'[q] # "idle"
        BY <1>0, <2>1 DEF TypeOK
    <2>3. Has(wire["client"], "accept") => Has(wire'["client"], "accept")
        BY <2>1
    <2> QED BY <2>1, <2>2, <2>3, LinkStays
<1>3. CASE Alive(p) /\ CloseEndpoint(p)
    <2>1. /\ lifecycle[p] # "idle" /\ lifecycle' = [lifecycle EXCEPT ![p] = "closed"]
          /\ wire' = [wire EXCEPT ![p] = <<>>] /\ ~up'
          /\ UNCHANGED <<config, frameSize, gate>>
        BY <1>3 DEF CloseEndpoint, Alive, coreVars
    <2>2. \A q \in Peers : lifecycle[q] # "idle" <=> lifecycle'[q] # "idle"
        BY <1>0, <2>1 DEF TypeOK
    <2>3. wire'["client"] = IF p = "client" THEN <<>> ELSE wire["client"]
        BY <1>0, <2>1 DEF TypeOK
    <2>4. Has(wire["client"], "accept") =>
             Has(wire'["client"], "accept") \/ (wire'["client"] = <<>> /\ ~up')
        BY <2>1, <2>3
    <2> QED BY <2>1, <2>2, <2>3, <2>4, LinkStays
<1> QED
    BY <1>1, <1>2, <1>3, LinkPasses, LinkSpoken, LinkRefused, LinkEntered, LinkUnframed,
       LinkAnswered, LinkAccepted DEF StepOf

-----------------------------------------------------------------------------
(* What a step writes and takes                                            *)

\* p writes msgs, and takes a message or not.  Only a grant is taken by
\* IsGranted, only a request or an event by Dispatches, and only Send writes
\* one of these.
Writes(p, msgs, took) ==
    /\ took => wire[p] # <<>>
    /\ Write(p, msgs, took)
    /\ UNCHANGED <<config, up>>
    /\ took /\ Head(wire[p]).kind = "identified" => IsGranted(p)
    /\ took /\ Numbered(Head(wire[p])) => Dispatches(p)
    /\ (\E x : In(x, msgs) /\ Numbered(x)) => \E kind \in {"request", "event"} : Send(p, kind)

\* Nothing is written.
LEMMA WritesNothing ==
    ASSUME SessionInv, NEW p \in Peers, Passes(p) \/ IsGranted(p) \/ Dispatches(p)
           \/ (p = "client" /\ IsDeclined)
    PROVE  Writes(p, <<>>, TRUE) /\ <<>> \in Seq(Message)
<1>1. wire[p] # <<>> /\ Write(p, <<>>, TRUE) /\ UNCHANGED <<config, up>>
    BY DEF Passes, IsGranted, Dispatches, IsDeclined, Takes1, Ignores
<1>2. /\ Head(wire[p]).kind = "identified" => IsGranted(p)
      /\ Numbered(Head(wire[p])) => Dispatches(p)
    BY DEF Passes, IsGranted, Dispatches, IsDeclined, Takes1, Numbered
<1>3. \A x : ~In(x, <<>>)
    BY InLiteral
<1>4. <<>> \in Seq(Message)
    OBVIOUS
<1> QED BY <1>1, <1>2, <1>3, <1>4 DEF Writes

\* One message is written that is no request and no event.
LEMMA WritesOne ==
    ASSUME NEW p \in Peers, NEW m \in Message, ~Numbered(m), NEW took \in BOOLEAN,
           took => wire[p] # <<>> /\ Head(wire[p]).kind \in {"open", "hello", "identify"},
           Write(p, <<m>>, took), UNCHANGED <<config, up>>
    PROVE  \E msgs \in Seq(Message) : Writes(p, msgs, took)
<1> HIDE DEF Message
<1>1. <<m>> \in Seq(Message) /\ \A x : In(x, <<m>>) => x = m
    BY Singleton, InLiteral
<1>2. Writes(p, <<m>>, took)
    BY <1>1 DEF Writes, Numbered
<1> QED BY <1>1, <1>2

\* Messages that open a link.
LEMMA WritesHello ==
    ASSUME SessionInv, NEW p \in Peers,
           \/ StartsUnframed(p)
           \/ p = "client" /\ IsAccepted
           \/ p = "server" /\ AcceptsOpen
    PROVE  \E msgs \in Seq(Message), took \in BOOLEAN : Writes(p, msgs, took)
<1>0. TypeOK
    BY DEF SessionInv
<1>1. AgreedSize \in Nat /\ config.size[p] \in Nat
    BY <1>0, AgreedBound, TypedConfig
<1>2. ASSUME NEW size \in Nat
      PROVE  HelloOf(p, size) \in Seq(Message) /\ \A x : In(x, HelloOf(p, size)) => x.kind = "hello"
    <2>1. \A x : In(x, HelloOf(p, size)) =>
                    x = [kind |-> "hello", len |-> IF config.framed THEN size ELSE 0]
        BY HelloSent
    <2>2. \A x : In(x, HelloOf(p, size)) => x.kind = "hello"
        BY <2>1
    <2> QED BY <2>2, HelloSent
<1>3. ASSUME NEW msgs \in Seq(Message), NEW took \in BOOLEAN, Write(p, msgs, took),
             took => wire[p] # <<>> /\ Head(wire[p]).kind \in {"open", "accept"},
             UNCHANGED <<config, up>>, \A x : In(x, msgs) => x.kind \in {"accept", "hello"}
      PROVE  Writes(p, msgs, took)
    <2> HIDE DEF Message
    <2> QED BY <1>3 DEF Writes, Numbered
<1>4. CASE StartsUnframed(p)
    <2>1. Write(p, HelloOf(p, config.size[p]), FALSE) /\ UNCHANGED <<config, up>>
        BY <1>4 DEF StartsUnframed, LinkUp
    <2> HIDE DEF Message
    <2>2. Writes(p, HelloOf(p, config.size[p]), FALSE)
        BY <1>1, <1>2, <1>3, <2>1
    <2> QED BY <1>1, <1>2, <2>2
<1>5. CASE p = "client" /\ IsAccepted
    <2>1. /\ Write(p, HelloOf(p, AgreedSize), TRUE) /\ UNCHANGED <<config, up>>
          /\ wire[p] # <<>> /\ Head(wire[p]).kind = "accept"
        BY <1>5 DEF IsAccepted, LinkUp, Takes1
    <2> HIDE DEF Message
    <2>2. Writes(p, HelloOf(p, AgreedSize), TRUE)
        BY <1>1, <1>2, <1>3, <2>1
    <2> QED BY <1>1, <1>2, <2>2
<1>6. CASE p = "server" /\ AcceptsOpen
    <2> DEFINE a == <<AcceptMessage(TRUE)>>
               h == HelloOf(p, AgreedSize)
    <2>1. /\ Write(p, a \o h, TRUE) /\ UNCHANGED <<config, up>>
          /\ wire[p] # <<>> /\ Head(wire[p]).kind = "open"
        BY <1>6 DEF AcceptsOpen, LinkUp, Takes1
    <2>2. a \in Seq(Message) /\ h \in Seq(Message) /\ a \o h \in Seq(Message)
        BY <1>0, <1>1, <1>2, <1>6, AnswerTyped
    <2>3. \A x : In(x, a) => x = AcceptMessage(TRUE)
        BY InLiteral
    <2>4. AcceptMessage(TRUE).kind = "accept"
        BY DEF AcceptMessage
    <2>5. \A x : In(x, h) => x.kind = "hello"
        BY <1>1, <1>2
    <2> HIDE DEF a, h, Message, AcceptMessage
    <2>6. \A x : In(x, a \o h) => In(x, a) \/ In(x, h)
        BY <2>2, InConcatenated
    <2>7. \A x : In(x, a \o h) => x.kind \in {"accept", "hello"}
        BY <2>3, <2>4, <2>5, <2>6
    <2>8. Writes(p, a \o h, TRUE)
        BY <1>3, <2>1, <2>2, <2>7
    <2> QED BY <2>2, <2>8
<1> QED BY <1>4, <1>5, <1>6

\* Messages of the session.
LEMMA WritesSpeech ==
    ASSUME SessionInv, NEW p \in Peers,
           \/ \E kind \in {"request", "event"} : Send(p, kind)
           \/ \E n \in Numbers : Respond(p, n)
    PROVE  \E msgs \in Seq(Message), took \in BOOLEAN : Writes(p, msgs, took)
<1>0. TypeOK
    BY DEF SessionInv
<1>1. CASE \E kind \in {"request", "event"} : Send(p, kind)
    <2>1. PICK kind \in {"request", "event"} : Send(p, kind)
        BY <1>1
    <2> DEFINE msgs == <<[kind |-> kind, len |-> RpcLen(p), sid |-> sid[p], n |-> sent[p] + 1]>>
    <2>2. Write(p, msgs, FALSE) /\ UNCHANGED <<config, up>>
        BY <2>1 DEF Send
    <2>3. msgs \in Seq(Message)
        BY <1>0, <2>1, SpeechTyped, NextNumber DEF Send, Business
    <2> HIDE DEF msgs, Message
    <2>4. Writes(p, msgs, FALSE)
        BY <1>1, <2>2 DEF Writes
    <2> QED BY <2>3, <2>4
<1>2. CASE \E n \in Numbers : Respond(p, n)
    <2>1. PICK n \in Numbers : Respond(p, n)
        BY <1>2
    <2> DEFINE m == [kind |-> "response", len |-> RpcLen(p), sid |-> sid[p], n |-> n]
    <2>2. Write(p, <<m>>, FALSE) /\ UNCHANGED <<config, up>>
        BY <2>1 DEF Respond
    <2>3. m.kind = "response"
        OBVIOUS
    <2>4. m \in Message
        BY <1>0, RpcLenTyped, TypedPeer, MessagesTyped DEF Business
    <2> HIDE DEF m, Message
    <2> QED BY <2>2, <2>3, <2>4, WritesOne DEF Numbered
<1> QED BY <1>1, <1>2

\* Messages of the handshake.
LEMMA WritesAnswer ==
    ASSUME SessionInv, NEW p \in Peers, Identifies(p) \/ Grants(p)
    PROVE  \E msgs \in Seq(Message) : Writes(p, msgs, TRUE)
<1>0. TypeOK
    BY DEF SessionInv
<1>1. RpcLen(p) \in Nat
    BY <1>0, RpcLenTyped
<1>2. /\ wire[p] # <<>> /\ Head(wire[p]).kind \in {"hello", "identify"}
      /\ UNCHANGED <<config, up>>
    BY DEF Identifies, Grants, Takes1
<1>3. CASE Identifies(p)
    <2>1. PICK seed \in Sids :
             Write(p, <<[kind |-> "identify", len |-> RpcLen(p), seed |-> seed]>>, TRUE)
        BY <1>3 DEF Identifies
    <2> DEFINE m == [kind |-> "identify", len |-> RpcLen(p), seed |-> seed]
    <2>2. m \in Message /\ m.kind = "identify"
        BY <1>1, MessagesTyped
    <2> HIDE DEF Message
    <2>3. Write(p, <<m>>, TRUE)
        BY <2>1
    <2> HIDE DEF m
    <2> QED BY <1>2, <2>2, <2>3, WritesOne DEF Numbered
<1>4. CASE Grants(p)
    <2>1. PICK s \in Sids :
             Write(p, <<[kind |-> "identified", len |-> RpcLen(p), sid |-> s]>>, TRUE)
        BY <1>4 DEF Grants
    <2> DEFINE m == [kind |-> "identified", len |-> RpcLen(p), sid |-> s]
    <2>2. m \in Message /\ m.kind = "identified"
        BY <1>1, MessagesTyped
    <2> HIDE DEF Message
    <2>3. Write(p, <<m>>, TRUE)
        BY <2>1
    <2> HIDE DEF m
    <2> QED BY <1>2, <2>2, <2>3, WritesOne DEF Numbered
<1> QED BY <1>3, <1>4

\* OPEN, and a refusal.
LEMMA WritesOpen ==
    ASSUME SessionInv, NEW p \in Peers,
           (p = "client" /\ SendsOpen) \/ (p = "server" /\ DeclinesOpen)
    PROVE  \E msgs \in Seq(Message), took \in BOOLEAN : Writes(p, msgs, took)
<1>1. OpenMessage \in Message /\ AcceptMessage(FALSE) \in Message
    BY LinkMessages DEF SessionInv
<1>2. OpenMessage.kind = "open" /\ AcceptMessage(FALSE).kind = "accept"
    BY DEF OpenMessage, AcceptMessage
<1> HIDE DEF Message, OpenMessage, AcceptMessage
<1>3. CASE p = "client" /\ SendsOpen
    <2>1. Write(p, <<OpenMessage>>, FALSE) /\ UNCHANGED <<config, up>>
        BY <1>3 DEF SendsOpen
    <2> QED BY <1>1, <1>2, <2>1, WritesOne DEF Numbered
<1>4. CASE p = "server" /\ DeclinesOpen
    <2>1. /\ Write(p, <<AcceptMessage(FALSE)>>, TRUE) /\ UNCHANGED <<config, up>>
          /\ wire[p] # <<>> /\ Head(wire[p]).kind = "open"
        BY <1>4 DEF DeclinesOpen, Takes1
    <2> QED BY <1>1, <1>2, <2>1, WritesOne DEF Numbered
<1> QED BY <1>3, <1>4

\* The wires after a step of p.
LEMMA StepWrites ==
    ASSUME SessionInv, NEW p \in Peers, StepOf(p)
    PROVE  \/ \E msgs \in Seq(Message), took \in BOOLEAN : Writes(p, msgs, took)
           \/ (AwaitsOpen \/ Consume(p)) /\ UNCHANGED <<config, up, wire>>
           \/ Alive(p) /\ CloseEndpoint(p)
<1> HIDE DEF Message
<1>1. CASE AwaitsOpen \/ Consume(p)
    BY <1>1 DEF AwaitsOpen, Consume
<1>2. CASE Passes(p) \/ IsGranted(p) \/ Dispatches(p) \/ (p = "client" /\ IsDeclined)
    BY <1>2, WritesNothing
<1>3. CASE Identifies(p) \/ Grants(p)
    BY <1>3, WritesAnswer
<1> QED
    BY <1>1, <1>2, <1>3, WritesHello, WritesSpeech, WritesOpen DEF StepOf

-----------------------------------------------------------------------------
(* The session                                                             *)

\* Who is in session.
LEMMA GateSteps ==
    ASSUME SessionInv, NEW p \in Peers, StepOf(p)
    PROVE  \/ Grants(p) \/ IsGranted(p)
           \/ \A q \in Peers :
                 (gate'[q] = "APP_READY" <=> gate[q] = "APP_READY") /\ sid'[q] = sid[q]
<1>0. TypeOK /\ "client" \in Peers /\ "server" \in Peers
    BY DEF SessionInv, Peers
<1>1. CASE UNCHANGED <<gate, sid>>
    BY <1>1
<1>2. ASSUME NEW r \in Peers, NEW size, NEW interval, NEW msgs, NEW took,
             LinkUp(r, size, interval, msgs, took)
      PROVE  \A q \in Peers : (gate'[q] = "APP_READY" <=> gate[q] = "APP_READY") /\ sid'[q] = sid[q]
    BY <1>0, <1>2 DEF LinkUp, TypeOK
<1>3. CASE StartsUnframed(p) \/ AcceptsOpen \/ IsAccepted
    BY <1>0, <1>2, <1>3 DEF StartsUnframed, AcceptsOpen, IsAccepted
<1>4. CASE SendsOpen \/ AwaitsOpen \/ DeclinesOpen \/ IsDeclined
    BY <1>1, <1>4 DEF SendsOpen, AwaitsOpen, DeclinesOpen, IsDeclined, coreVars
<1>5. CASE Passes(p) \/ Identifies(p) \/ Dispatches(p)
    BY <1>1, <1>5 DEF Passes, Identifies, Dispatches, Ignores, coreVars
<1>6. CASE \/ \E kind \in {"request", "event"} : Send(p, kind)
           \/ \E n \in Numbers : Respond(p, n)
           \/ Consume(p) \/ CloseEndpoint(p)
    BY <1>1, <1>6 DEF Send, Respond, Consume, CloseEndpoint, coreVars
<1> QED
    BY <1>3, <1>4, <1>5, <1>6 DEF StepOf

\* A grant on its way stays there until it is taken.
LEMMA GrantWaits ==
    ASSUME SessionInv, NEW p \in Peers, StepOf(p), ~IsGranted(p), up', NEW q \in Peers,
           Has(wire[q], "identified")
    PROVE  Has(wire'[q], "identified")
<1>0. TypeOK /\ (q = p \/ q = Other(p))
    BY TwoPeers DEF SessionInv
<1>1. CASE (AwaitsOpen \/ Consume(p)) /\ UNCHANGED <<config, up, wire>>
    BY <1>1
<1>2. CASE CloseEndpoint(p)
    BY <1>2 DEF CloseEndpoint
<1> HIDE DEF Message, Has
<1>3. ASSUME NEW msgs \in Seq(Message), NEW took \in BOOLEAN, Writes(p, msgs, took)
      PROVE  Has(wire'[q], "identified")
    <2>1. /\ took => wire[p] # <<>> /\ Head(wire[p]).kind # "identified"
          /\ Write(p, msgs, took)
        BY <1>3 DEF Writes
    <2>2. /\ Has(wire[p], "identified") => Has(wire'[p], "identified")
          /\ Has(wire[Other(p)], "identified") => Has(wire'[Other(p)], "identified")
        BY <1>0, <2>1, WriteKinds
    <2> QED BY <1>0, <2>2
<1> QED BY <1>1, <1>2, <1>3, StepWrites

\* handleIdentify makes a session and grants it.
LEMMA JoinedGrants ==
    ASSUME SessionInv, NEW p \in Peers, Grants(p)
    PROVE  Joined'
<1>0. /\ TypeOK /\ Joined /\ Other(p) \in Peers /\ Other(p) # p /\ Other(Other(p)) = p
      /\ \A q \in Peers : q = p \/ q = Other(p)
    BY TwoPeers DEF SessionInv
<1>1. wire[p] # <<>> /\ Head(wire[p]).kind = "identify" /\ UNCHANGED <<config, up>>
    BY DEF Grants, Takes1
<1>2. PICK s \in Sids :
         /\ s # {} /\ sid' = [sid EXCEPT ![p] = s]
         /\ gate' = [gate EXCEPT ![p] = "APP_READY"]
         /\ Write(p, <<[kind |-> "identified", len |-> RpcLen(p), sid |-> s]>>, TRUE)
    BY DEF Grants, Enters
<1>3. config.logical[Other(p)] = "client" /\ config.logical[p] = "server"
      /\ gate[p] = "FRAMING_READY"
    BY <1>1, NextMessage DEF Truthful
<1>4. gate[Other(p)] # "APP_READY"
    BY <1>0, <1>3 DEF Joined
<1>5. /\ gate'[p] = "APP_READY" /\ gate'[Other(p)] # "APP_READY" /\ sid'[p] = s
    BY <1>0, <1>2, <1>4 DEF TypeOK
<1>6. s # NoSid
    BY SessionAssumption DEF Sids, NoSid
<1> DEFINE m == [kind |-> "identified", len |-> RpcLen(p), sid |-> s]
<1>7. m \in Message /\ m.kind = "identified"
    BY <1>0, RpcLenTyped, MessagesTyped
<1> HIDE DEF m, Message
<1>8. <<m>> \in Seq(Message) /\ In(m, <<m>>)
    BY <1>7, Singleton, InLiteral
<1>9. Has(<<m>>, "identified")
    BY <1>7, <1>8, HasKind
<1>10. Write(p, <<m>>, TRUE)
    BY <1>2 DEF m
<1> HIDE DEF Has
<1>11. up => Has(wire'[Other(p)], "identified")
    BY <1>0, <1>1, <1>8, <1>9, <1>10, WriteKinds
<1>12. up' => Has(wire[Other(p)], "identified")'
    BY <1>1, <1>11 DEF Has
<1> HIDE DEF Peers, Other, NoSid, Sids
<1> QED
    BY <1>0, <1>1, <1>2, <1>3, <1>5, <1>6, <1>12 DEF Joined

\* handleIdentified joins a session that is there.
LEMMA JoinedGranted ==
    ASSUME SessionInv, NEW p \in Peers, IsGranted(p)
    PROVE  Joined'
<1>0. /\ TypeOK /\ Joined /\ Other(p) \in Peers /\ Other(p) # p /\ Other(Other(p)) = p
      /\ \A q \in Peers : q = p \/ q = Other(p)
    BY TwoPeers DEF SessionInv
<1>1. /\ wire[p] # <<>> /\ Head(wire[p]).kind = "identified" /\ UNCHANGED <<config, up>>
      /\ sid' = [sid EXCEPT ![p] = sid[Other(p)]]
      /\ gate' = [gate EXCEPT ![p] = "APP_READY"]
    BY DEF IsGranted, Takes1, Enters
<1>2. /\ config.logical[Other(p)] = "server" /\ config.logical[p] = "client"
      /\ gate[Other(p)] = "APP_READY"
    BY <1>1, NextMessage DEF Truthful
<1>3. sid[Other(p)] \notin {NoSid, {}}
    BY <1>0, <1>2 DEF Joined
<1>4. /\ gate'[p] = "APP_READY" /\ gate'[Other(p)] = "APP_READY"
      /\ sid'[p] = sid[Other(p)] /\ sid'[Other(p)] = sid[Other(p)]
    BY <1>0, <1>1, <1>2 DEF TypeOK
<1> HIDE DEF Peers, Other, NoSid, Has
<1>5. \A q \in Peers :
         /\ config'.logical[q] # config'.logical[Other(q)]
         /\ sid'[q] \notin {NoSid, {}} /\ sid'[Other(q)] = sid'[q]
         /\ gate'[Other(q)] = "APP_READY"
    BY <1>0, <1>1, <1>2, <1>3, <1>4
<1> QED
    BY <1>5 DEF Joined

\* The sessions stay joined.
LEMMA JoinedKept ==
    ASSUME SessionInv, NEW p \in Peers, StepOf(p)
    PROVE  Joined'
<1>0. TypeOK /\ Joined
    BY DEF SessionInv
<1>1. CASE ~Grants(p) /\ ~IsGranted(p)
    <2>1. \A q \in Peers :
             (gate'[q] = "APP_READY" <=> gate[q] = "APP_READY") /\ sid'[q] = sid[q]
        BY <1>1, GateSteps
    <2>2. config' = config
        BY Lasting
    <2>3. up' => up
        <3>1. CASE CloseEndpoint(p)
            BY <3>1 DEF CloseEndpoint
        <3>2. CASE ~CloseEndpoint(p)
            BY <3>2, StepWrites DEF Writes
        <3> QED BY <3>1, <3>2
    <2>4. \A q \in Peers : up' /\ Has(wire[q], "identified") => Has(wire'[q], "identified")
        BY <1>1, GrantWaits
    <2> HIDE DEF Has, Peers
    <2>5. \A q \in Peers : Has(wire[q], "identified")' <=> Has(wire'[q], "identified")
        BY DEF Has
    <2>6. \A q \in Peers : Other(q) \in Peers
        BY TwoPeers
    <2>7. ASSUME NEW q \in Peers, gate'[q] = "APP_READY"
          PROVE  /\ config.logical[q] # config.logical[Other(q)]
                 /\ sid'[q] \notin {NoSid, {}}
                 /\ config.logical[q] = "client" =>
                       gate'[Other(q)] = "APP_READY" /\ sid'[Other(q)] = sid'[q]
                 /\ up' => gate'[Other(q)] = "APP_READY" \/ Has(wire'[Other(q)], "identified")
        <3>1. gate[q] = "APP_READY" /\ sid'[q] = sid[q] /\ Other(q) \in Peers
            BY <2>1, <2>6, <2>7
        <3>2. /\ config.logical[q] # config.logical[Other(q)]
              /\ sid[q] \notin {NoSid, {}}
              /\ config.logical[q] = "client" =>
                    gate[Other(q)] = "APP_READY" /\ sid[Other(q)] = sid[q]
              /\ up => gate[Other(q)] = "APP_READY" \/ Has(wire[Other(q)], "identified")
            BY <1>0, <3>1 DEF Joined
        <3>3. (gate'[Other(q)] = "APP_READY" <=> gate[Other(q)] = "APP_READY")
              /\ sid'[Other(q)] = sid[Other(q)]
            BY <2>1, <3>1
        <3> QED BY <2>3, <2>4, <3>1, <3>2, <3>3
    <2> HIDE DEF Other, NoSid
    <2> QED BY <2>2, <2>5, <2>6, <2>7 DEF Joined
<1> QED BY <1>1, JoinedGrants, JoinedGranted

-----------------------------------------------------------------------------
(* The endpoints                                                           *)

\* Nothing happens at q.
LEMMA LifeStays ==
    ASSUME SessionInv, NEW q \in Peers, config' = config, up' => up,
           lifecycle'[q] = lifecycle[q], opening'[q] = opening[q], gate'[q] = gate[q],
           events'[q] = events[q], beat'[q] = beat[q], handling'[q] \subseteq handling[q],
           ~up /\ wire[q] = <<>> => wire'[q] = <<>>
    PROVE  Life(q)'
<1>1. Life(q)
    BY DEF SessionInv, Lives
<1>2. (Roomy' <=> Roomy) /\ (Alive(q)' <=> Alive(q))
    BY DEF Roomy, Alive
<1>3. \A k : Has(events[q], k)' <=> Has(events[q], k)
    BY DEF Has
<1> HIDE DEF Roomy, Alive, Has
<1> QED
    BY <1>1, <1>2, <1>3 DEF Life

\* q reads or speaks, its core and its heartbeat stay as they are.
LEMMA LifeGoesOn ==
    ASSUME SessionInv, NEW q \in Peers, config' = config, Alive(q), lifecycle'[q] = lifecycle[q],
           gate'[q] = gate[q], beat'[q] = beat[q], handling'[q] = handling[q],
           \A k : Has(events[q], k) => Has(events'[q], k)
    PROVE  Life(q)'
<1>1. Life(q)
    BY DEF SessionInv, Lives
<1>2. (Roomy' <=> Roomy) /\ (Alive(q)' <=> Alive(q))
    BY DEF Roomy, Alive
<1>3. lifecycle'[q] \in {"connecting", "ready"}
    BY DEF Alive
<1>4. \A k : Has(events[q], k) => Has(events[q], k)'
    BY DEF Has
<1> HIDE DEF Roomy, Alive, Has
<1> QED
    BY <1>1, <1>2, <1>3, <1>4 DEF Life

\* start() of a framed peer.
LEMMA LifeStarts ==
    ASSUME SessionInv, NEW q \in Peers, config' = config, lifecycle[q] = "idle",
           lifecycle'[q] = "connecting", gate'[q] = gate[q], beat'[q] = beat[q],
           handling'[q] = handling[q]
    PROVE  Life(q)'
<1>1. Life(q)
    BY DEF SessionInv, Lives
<1> HIDE DEF Roomy, Alive, Has
<1> QED
    BY <1>1 DEF Life

\* The link of q opens.
LEMMA LifeOpens ==
    ASSUME SessionInv, NEW q \in Peers, config' = config, gate[q] = "LINK_CONNECTED",
           gate'[q] = "FRAMING_READY", beat'[q] = beat[q], handling'[q] = handling[q],
           lifecycle'[q] = "connecting" \/ (Alive(q) /\ lifecycle'[q] = lifecycle[q]),
           Has(events'[q], "linkReady")
    PROVE  Life(q)'
<1>1. Life(q)
    BY DEF SessionInv, Lives
<1>2. lifecycle'[q] = "connecting"
    BY <1>1 DEF Life, Alive
<1>3. Has(events[q], "linkReady")'
    BY DEF Has
<1> HIDE DEF Roomy, Alive, Has
<1> QED
    BY <1>1, <1>2, <1>3 DEF Life

\* q enters the session.
LEMMA LifeEnters ==
    ASSUME SessionInv, NEW q \in Peers, Grants(q) \/ IsGranted(q)
    PROVE  Life(q)'
<1>0. TypeOK /\ Life(q)
    BY DEF SessionInv, Lives
<1>1. /\ wire[q] # <<>> /\ Head(wire[q]).kind \in {"identify", "identified"} /\ Alive(q)
      /\ UNCHANGED <<config, up, lifecycle, beat, handling>>
      /\ gate' = [gate EXCEPT ![q] = "APP_READY"]
      /\ Enqueue(q, <<[kind |-> "handshakeReady"]>>)
    BY DEF Grants, IsGranted, Takes1, Enters, appVars
<1>2. Roomy => gate[q] # "LINK_CONNECTED"
    BY <1>1, NextWithinLimit
<1>3. /\ gate'[q] = "APP_READY" /\ lifecycle'[q] = lifecycle[q]
      /\ lifecycle[q] \in {"connecting", "ready"}
    BY <1>0, <1>1 DEF TypeOK, Alive
<1> DEFINE e == [kind |-> "handshakeReady"]
<1>4. e \in CoreEvent /\ e.kind = "handshakeReady"
    BY EventsTyped
<1> HIDE DEF e, CoreEvent
<1>5. <<e>> \in Seq(CoreEvent) /\ In(e, <<e>>)
    BY <1>4, Singleton, InLiteral
<1>6. Has(<<e>>, "handshakeReady")
    BY <1>4, <1>5, HasKind
<1>7. Enqueue(q, <<e>>)
    BY <1>1 DEF e
<1> HIDE DEF Has
<1>8. \A k : Has(events'[q], k) <=> Has(events[q], k) \/ Has(<<e>>, k)
    BY <1>0, <1>5, <1>7, EnqueueEvents
<1>9. \A k : Has(events[q], k)' <=> Has(events[q], k) \/ Has(<<e>>, k)
    BY <1>8 DEF Has
<1>10. (Roomy' <=> Roomy) /\ (Alive(q)' <=> Alive(q))
    BY <1>1 DEF Roomy, Alive
<1> HIDE DEF Roomy
<1> QED
    BY <1>0, <1>1, <1>2, <1>3, <1>6, <1>9, <1>10 DEF Life

\* onCoreEvent: the endpoint learns what its core has told.
LEMMA LifeConsumes ==
    ASSUME SessionInv, NEW q \in Peers, Consume(q)
    PROVE  Life(q)'
<1>0. TypeOK /\ Life(q) /\ events[q] \in Seq(CoreEvent)
    BY TypedPeer DEF SessionInv, Lives
<1> DEFINE ev == Head(events[q])
<1>1. /\ lifecycle[q] \in {"connecting", "ready"} /\ events[q] # <<>>
      /\ ev.kind \in {"linkReady", "handshakeReady", "request", "event"}
      /\ events' = [events EXCEPT ![q] = Tail(@)]
      /\ beat' = IF ev.kind = "linkReady" /\ beat[q] = 0
                 THEN [beat EXCEPT ![q] = ev.interval] ELSE beat
      /\ lifecycle' = IF ev.kind = "handshakeReady"
                      THEN [lifecycle EXCEPT ![q] = "ready"] ELSE lifecycle
      /\ handling' = IF ev.kind = "request"
                     THEN [handling EXCEPT ![q] = @ \cup {ev.n}] ELSE handling
      /\ UNCHANGED <<config, up, wire, gate>>
    BY DEF Consume, Takes, Alive, coreVars
<1> HIDE DEF CoreEvent
<1>2. ev \in CoreEvent /\ In(ev, events[q])
    BY <1>0, <1>1, InTaken
<1>3. Told(q, ev)
    BY <1>2 DEF SessionInv, EventsOK
<1>4. \A k : Has(events[q], k) => k = ev.kind \/ Has(Tail(events[q]), k)
    <2>1. \A x : In(x, events[q]) => x = ev \/ In(x, Tail(events[q]))
        BY <1>0, <1>1, InTaken
    <2> QED BY <2>1, HasKind
<1> HIDE DEF ev, Has
<1>5. /\ events'[q] = Tail(events[q])
      /\ beat'[q] = IF ev.kind = "linkReady" /\ beat[q] = 0 THEN ev.interval ELSE beat[q]
      /\ lifecycle'[q] = IF ev.kind = "handshakeReady" THEN "ready" ELSE lifecycle[q]
      /\ ev.kind # "request" => handling'[q] = handling[q]
    BY <1>0, <1>1 DEF TypeOK
<1>6. \A k : Has(events[q], k)' <=> Has(Tail(events[q]), k)
    BY <1>5 DEF Has
<1>7. (Roomy' <=> Roomy) /\ Alive(q)' /\ Alive(q) /\ gate' = gate /\ config' = config
    BY <1>1, <1>5 DEF Roomy, Alive
<1>8. /\ lifecycle'[q] \in {"connecting", "ready"}
      /\ lifecycle'[q] = "ready" => gate[q] = "APP_READY"
    BY <1>0, <1>1, <1>3, <1>5 DEF Life, Told
<1>9. handling'[q] # {} => gate[q] = "APP_READY"
    BY <1>0, <1>3, <1>5 DEF Life, Told
<1>10. gate[q] = "APP_READY" => lifecycle'[q] = "ready" \/ Has(events[q], "handshakeReady")'
    BY <1>0, <1>1, <1>4, <1>5, <1>6, <1>7 DEF Life
<1>11. Roomy /\ gate[q] # "LINK_CONNECTED" => beat'[q] # 0 \/ Has(events[q], "linkReady")'
    BY <1>0, <1>3, <1>4, <1>5, <1>6, <1>7 DEF Life, Told
<1>12. config.framed => beat'[q] \in {0, config.interval["client"]}
    BY <1>0, <1>3, <1>5 DEF Life, Told
<1> HIDE DEF Roomy, Alive
<1> QED
    BY <1>7, <1>8, <1>9, <1>10, <1>11, <1>12 DEF Life

\* close(): nothing is left to read.
LEMMA LifeCloses ==
    ASSUME SessionInv, NEW q \in Peers, CloseEndpoint(q)
    PROVE  Life(q)'
<1>0. TypeOK
    BY DEF SessionInv
<1>1. /\ lifecycle' = [lifecycle EXCEPT ![q] = "closed"] /\ up' = FALSE
      /\ beat' = [beat EXCEPT ![q] = 0] /\ handling' = [handling EXCEPT ![q] = {}]
      /\ wire' = [wire EXCEPT ![q] = <<>>] /\ events' = [events EXCEPT ![q] = <<>>]
    BY DEF CloseEndpoint
<1> HIDE DEF CoreEvent, Message
<1>2. /\ lifecycle'[q] = "closed" /\ beat'[q] = 0 /\ handling'[q] = {}
      /\ wire'[q] = <<>> /\ events'[q] = <<>>
    BY <1>0, <1>1 DEF TypeOK
<1>3. ~Alive(q)'
    BY <1>2 DEF Alive
<1> HIDE DEF Roomy, Alive, Has
<1> QED
    BY <1>1, <1>2, <1>3 DEF Life

\* A step of p leaves the other endpoint alone; it may find a message more.
LEMMA OtherStands ==
    ASSUME SessionInv, NEW p \in Peers, StepOf(p)
    PROVE  /\ lifecycle'[Other(p)] = lifecycle[Other(p)] /\ opening'[Other(p)] = opening[Other(p)]
           /\ gate'[Other(p)] = gate[Other(p)] /\ events'[Other(p)] = events[Other(p)]
           /\ beat'[Other(p)] = beat[Other(p)] /\ handling'[Other(p)] = handling[Other(p)]
<1>0. /\ TypeOK /\ Other(p) \in Peers /\ Other(p) # p
      /\ Other("client") = "server" /\ Other("server") = "client"
    BY TwoPeers DEF SessionInv
<1> DEFINE q == Other(p)
<1> HIDE DEF Other, Message, CoreEvent, Peers, Sids, NoSid, Numbers
<1>1. CASE Grants(p) \/ IsGranted(p)
    BY <1>0, <1>1 DEF Grants, IsGranted, Enters, Enqueue, Takes1, appVars, TypeOK
<1>2. ASSUME NEW size, NEW interval, NEW msgs, NEW took, LinkUp(p, size, interval, msgs, took)
      PROVE  gate'[q] = gate[q] /\ events'[q] = events[q] /\ beat' = beat /\ handling' = handling
    BY <1>0, <1>2 DEF LinkUp, Enqueue, appVars, TypeOK
<1>3. CASE StartsUnframed(p)
    BY <1>0, <1>2, <1>3 DEF StartsUnframed, TypeOK
<1>4. CASE p = "client" /\ IsAccepted
    BY <1>0, <1>2, <1>4 DEF IsAccepted, Takes1, TypeOK
<1>5. CASE p = "server" /\ AcceptsOpen
    BY <1>0, <1>2, <1>5 DEF AcceptsOpen, Takes1, TypeOK
<1>6. CASE p = "client" /\ (SendsOpen \/ IsDeclined)
    BY <1>0, <1>6 DEF SendsOpen, IsDeclined, Takes1, Enqueue, appVars, TypeOK
<1>7. CASE p = "server" /\ (AwaitsOpen \/ DeclinesOpen)
    BY <1>0, <1>7 DEF AwaitsOpen, DeclinesOpen, Takes1, appVars, coreVars, TypeOK
<1>8. CASE Passes(p) \/ Identifies(p) \/ Dispatches(p)
    BY <1>0, <1>8 DEF Passes, Identifies, Dispatches, Ignores, Takes1, Enqueue, appVars, coreVars,
                      TypeOK
<1>9. CASE \/ \E kind \in {"request", "event"} : Send(p, kind)
           \/ \E n \in Numbers : Respond(p, n)
    BY <1>0, <1>9 DEF Send, Respond, coreVars, TypeOK
<1>10. CASE Consume(p)
    BY <1>0, <1>10 DEF Consume, coreVars, TypeOK
<1>11. CASE CloseEndpoint(p)
    BY <1>0, <1>11 DEF CloseEndpoint, coreVars, TypeOK
<1> QED
    BY <1>1, <1>3, <1>4, <1>5, <1>6, <1>7, <1>8, <1>9, <1>10, <1>11 DEF StepOf

\* Nothing is written to a connection that is gone.
LEMMA SilentWire ==
    ASSUME SessionInv, NEW p \in Peers, StepOf(p), ~up, NEW q \in Peers, wire[q] = <<>>
    PROVE  wire'[q] = <<>>
<1>0. TypeOK /\ (q = p \/ q = Other(p)) /\ Other(p) # p
    BY TwoPeers DEF SessionInv
<1> HIDE DEF Message
<1>1. CASE (AwaitsOpen \/ Consume(p)) /\ UNCHANGED <<config, up, wire>>
    BY <1>1
<1>2. CASE CloseEndpoint(p)
    BY <1>0, <1>2 DEF CloseEndpoint, TypeOK
<1>3. ASSUME NEW msgs \in Seq(Message), NEW took \in BOOLEAN, Writes(p, msgs, took)
      PROVE  wire'[q] = <<>>
    <2>1. (took => wire[p] # <<>>) /\ Write(p, msgs, took)
        BY <1>3 DEF Writes
    <2>2. /\ wire'[p] = IF took THEN Tail(wire[p]) ELSE wire[p]
          /\ wire'[Other(p)] = wire[Other(p)]
        BY <1>0, <2>1, WriteWires
    <2> QED BY <1>0, <2>1, <2>2
<1> QED BY <1>1, <1>2, <1>3, StepWrites

\* The connection does not come back.
LEMMA StaysDown ==
    ASSUME SessionInv, NEW p \in Peers, StepOf(p)
    PROVE  up' => up
<1>1. CASE CloseEndpoint(p)
    BY <1>1 DEF CloseEndpoint
<1>2. CASE ~CloseEndpoint(p)
    BY <1>2, StepWrites DEF Writes
<1> QED BY <1>1, <1>2

\* What the link of q has become, where it opens.
LEMMA LifeLinked ==
    ASSUME SessionInv, NEW q \in Peers, NEW size, NEW interval \in Nat, NEW msgs, NEW took,
           LinkUp(q, size, interval, msgs, took),
           lifecycle'[q] = "connecting" \/ (Alive(q) /\ lifecycle'[q] = lifecycle[q])
    PROVE  Life(q)'
<1>0. TypeOK
    BY DEF SessionInv
<1> DEFINE e == [kind |-> "linkReady", interval |-> interval]
<1>1. e \in CoreEvent /\ e.kind = "linkReady"
    BY EventsTyped
<1> HIDE DEF CoreEvent
<1>2. /\ Enqueue(q, <<e>>) /\ gate[q] = "LINK_CONNECTED" /\ UNCHANGED <<config, beat, handling>>
      /\ gate'[q] = "FRAMING_READY"
    BY <1>0 DEF LinkUp, appVars, TypeOK
<1> HIDE DEF e
<1>3. <<e>> \in Seq(CoreEvent) /\ In(e, <<e>>)
    BY <1>1, Singleton, InLiteral
<1>4. Has(<<e>>, "linkReady")
    BY <1>1, <1>3, HasKind
<1> HIDE DEF Has
<1>5. Has(events'[q], "linkReady")
    BY <1>0, <1>2, <1>3, <1>4, EnqueueEvents
<1> QED BY <1>2, <1>5, LifeOpens

\* An endpoint that opens its link.
LEMMA LifeUp ==
    ASSUME SessionInv, NEW p \in Peers,
           \/ StartsUnframed(p)
           \/ p = "client" /\ IsAccepted
           \/ p = "server" /\ AcceptsOpen
    PROVE  Life(p)'
<1>0. /\ TypeOK /\ "client" \in Peers
      /\ config.interval[p] \in Nat /\ config.interval["client"] \in Nat
    BY TypedConfig DEF SessionInv, Peers
<1>1. CASE StartsUnframed(p)
    <2>1. /\ LinkUp(p, config.size[p], config.interval[p], HelloOf(p, config.size[p]), FALSE)
          /\ lifecycle'[p] = "connecting"
        BY <1>0, <1>1 DEF StartsUnframed, TypeOK
    <2> QED BY <1>0, <2>1, LifeLinked
<1>2. CASE p = "client" /\ IsAccepted
    <2>1. /\ LinkUp(p, AgreedSize, config.interval["client"], HelloOf("client", AgreedSize), TRUE)
          /\ Alive(p) /\ lifecycle'[p] = lifecycle[p]
        BY <1>2 DEF IsAccepted, Takes1
    <2> QED BY <1>0, <2>1, LifeLinked
<1>3. CASE p = "server" /\ AcceptsOpen
    <2>1. /\ LinkUp(p, AgreedSize, config.interval["client"],
                    <<AcceptMessage(TRUE)>> \o HelloOf("server", AgreedSize), TRUE)
          /\ Alive(p) /\ lifecycle'[p] = lifecycle[p]
        BY <1>3 DEF AcceptsOpen, Takes1
    <2> QED BY <1>0, <2>1, LifeLinked
<1> QED BY <1>1, <1>2, <1>3

\* An endpoint whose core takes a message and may tell of it.
LEMMA LifeTakes ==
    ASSUME SessionInv, NEW p \in Peers,
           \/ p = "client" /\ IsDeclined
           \/ p = "server" /\ DeclinesOpen
           \/ Passes(p) \/ Identifies(p) \/ Dispatches(p)
    PROVE  Life(p)'
<1>0. TypeOK
    BY DEF SessionInv
<1>1. Alive(p) /\ UNCHANGED <<config, lifecycle, beat, handling, gate>>
    BY DEF IsDeclined, DeclinesOpen, Passes, Identifies, Dispatches, Ignores, Takes1, appVars,
           coreVars
<1>2. events' = events \/ \E e \in CoreEvent : Enqueue(p, <<e>>)
    <2>1. CASE p = "client" /\ IsDeclined
        <3>1. Enqueue(p, <<[kind |-> "linkOpenRejected"]>>)
            BY <2>1 DEF IsDeclined
        <3>2. [kind |-> "linkOpenRejected"] \in CoreEvent
            BY EventsTyped
        <3> QED BY <3>1, <3>2
    <2>2. CASE Dispatches(p)
        <3> DEFINE e == [kind |-> Head(wire[p]).kind, n |-> Head(wire[p]).n]
        <3>1. Enqueue(p, <<e>>) /\ wire[p] # <<>> /\ Head(wire[p]).kind \in {"request", "event"}
            BY <2>2 DEF Dispatches, Takes1
        <3>2. Head(wire[p]).n \in Numbers
            BY <3>1, NextMessage, MessageFields DEF Business
        <3>3. e \in CoreEvent
            BY <3>1, <3>2, EventsTyped
        <3> HIDE DEF e
        <3> QED BY <3>1, <3>3
    <2>3. CASE Passes(p) \/ Identifies(p) \/ (p = "server" /\ DeclinesOpen)
        BY <2>3 DEF Passes, Identifies, DeclinesOpen, Ignores
    <2> QED BY <2>1, <2>2, <2>3
<1> HIDE DEF CoreEvent, Has
<1>3. \A k : Has(events[p], k) => Has(events'[p], k)
    <2>1. ASSUME NEW e \in CoreEvent, Enqueue(p, <<e>>)
          PROVE  \A k : Has(events[p], k) => Has(events'[p], k)
        <3>1. <<e>> \in Seq(CoreEvent)
            BY Singleton
        <3> QED BY <1>0, <2>1, <3>1, EnqueueEvents
    <2> QED BY <1>2, <2>1
<1> HIDE DEF Alive
<1> QED BY <1>1, <1>3, LifeGoesOn

\* Both endpoints live on.
LEMMA LivesKept ==
    ASSUME SessionInv, NEW p \in Peers, StepOf(p)
    PROVE  Lives'
<1>0. TypeOK /\ Other(p) \in Peers /\ \A q \in Peers : q = p \/ q = Other(p)
    BY TwoPeers DEF SessionInv
<1>1. config' = config /\ (up' => up)
      /\ \A q \in Peers : ~up /\ wire[q] = <<>> => wire'[q] = <<>>
    BY Lasting, StaysDown, SilentWire
<1>2. Life(Other(p))'
    BY <1>0, <1>1, OtherStands, LifeStays
<1>3. Life(p)'
    <2>1. CASE p = "client" /\ SendsOpen
        <3>1. /\ lifecycle[p] = "idle" /\ lifecycle'[p] = "connecting"
              /\ UNCHANGED <<gate, beat, handling>>
            BY <1>0, <2>1 DEF SendsOpen, appVars, TypeOK
        <3> QED BY <1>1, <3>1, LifeStarts
    <2>2. CASE p = "server" /\ AwaitsOpen
        <3>1. /\ lifecycle[p] = "idle" /\ lifecycle'[p] = "connecting"
              /\ UNCHANGED <<gate, beat, handling>>
            BY <1>0, <2>2 DEF AwaitsOpen, appVars, coreVars, TypeOK
        <3> QED BY <1>1, <3>1, LifeStarts
    <2>3. CASE \/ \E kind \in {"request", "event"} : Send(p, kind)
               \/ \E n \in Numbers : Respond(p, n)
        <3>1. /\ UNCHANGED <<lifecycle, opening, gate, events, beat>>
              /\ \/ handling' = handling
                 \/ \E n \in Numbers : handling' = [handling EXCEPT ![p] = @ \ {n}]
            BY <2>3 DEF Send, Respond, coreVars
        <3>2. DOMAIN handling = Peers
            BY <1>0 DEF TypeOK
        <3>3. handling'[p] \subseteq handling[p]
            BY <3>1, <3>2
        <3> QED BY <1>1, <3>1, <3>3, LifeStays
    <2> QED
        BY <2>1, <2>2, <2>3, LifeUp, LifeTakes, LifeEnters, LifeConsumes, LifeCloses DEF StepOf
<1>4. \A q \in Peers : Life(q)'
    BY <1>0, <1>2, <1>3
<1> QED BY <1>4 DEF Lives

-----------------------------------------------------------------------------
(* Requests and events keep their order                                    *)

\* Only Send counts what is sent, only the endpoint what it has taken.
LEMMA StepCounts ==
    ASSUME SessionInv, NEW p \in Peers, StepOf(p)
    PROVE  /\ sent'[Other(p)] = sent[Other(p)] /\ got'[Other(p)] = got[Other(p)]
           /\ sent' = sent \/ \E kind \in {"request", "event"} : Send(p, kind)
           /\ got' = got \/ Consume(p)
<1>0. Other(p) # p /\ Other(p) \in Peers /\ DOMAIN sent = Peers /\ DOMAIN got = Peers
    BY TwoPeers DEF SessionInv, TypeOK
<1> HIDE DEF Other, Message, CoreEvent, Peers, Numbers
<1>1. CASE UNCHANGED <<sent, got>>
    BY <1>1
<1>2. CASE StartsUnframed(p) \/ IsAccepted \/ AcceptsOpen
    BY <1>1, <1>2 DEF StartsUnframed, IsAccepted, AcceptsOpen, LinkUp, appVars
<1>3. CASE SendsOpen \/ IsDeclined \/ AwaitsOpen \/ DeclinesOpen
    BY <1>1, <1>3 DEF SendsOpen, IsDeclined, AwaitsOpen, DeclinesOpen, Takes1, appVars
<1>4. CASE Passes(p) \/ Identifies(p) \/ Grants(p) \/ IsGranted(p) \/ Dispatches(p)
    BY <1>1, <1>4 DEF Passes, Identifies, Grants, IsGranted, Dispatches, Takes1, appVars
<1>5. CASE CloseEndpoint(p) \/ \E n \in Numbers : Respond(p, n)
    BY <1>1, <1>5 DEF CloseEndpoint, Respond
<1>6. CASE \E kind \in {"request", "event"} : Send(p, kind)
    BY <1>0, <1>6 DEF Send
<1>7. CASE Consume(p)
    BY <1>0, <1>7 DEF Consume
<1> QED
    BY <1>2, <1>3, <1>4, <1>5, <1>6, <1>7 DEF StepOf

\* Only Dispatches tells the endpoint of a request or an event.
LEMMA StepTells ==
    ASSUME SessionInv, NEW p \in Peers, StepOf(p)
    PROVE  \/ Consume(p) \/ CloseEndpoint(p) \/ Dispatches(p) \/ events' = events
           \/ \E e \in CoreEvent : ~Numbered(e) /\ Enqueue(p, <<e>>)
<1>0. config.interval[p] \in Nat /\ config.interval["client"] \in Nat
    BY TypedConfig DEF SessionInv, Peers
<1>1. ASSUME NEW size, NEW interval \in Nat, NEW msgs, NEW took,
             LinkUp(p, size, interval, msgs, took)
      PROVE  \E e \in CoreEvent : ~Numbered(e) /\ Enqueue(p, <<e>>)
    <2> DEFINE e == [kind |-> "linkReady", interval |-> interval]
    <2>1. e \in CoreEvent /\ e.kind = "linkReady"
        BY EventsTyped
    <2>2. Enqueue(p, <<e>>)
        BY <1>1 DEF LinkUp
    <2> HIDE DEF e
    <2> QED BY <2>1, <2>2 DEF Numbered
<1>2. ASSUME NEW k \in {"handshakeReady", "linkOpenRejected"}, Enqueue(p, <<[kind |-> k]>>)
      PROVE  \E e \in CoreEvent : ~Numbered(e) /\ Enqueue(p, <<e>>)
    <2> DEFINE e == [kind |-> k]
    <2>1. e \in CoreEvent /\ e.kind = k
        BY EventsTyped
    <2>2. Enqueue(p, <<e>>)
        BY <1>2
    <2> HIDE DEF e
    <2> QED BY <2>1, <2>2 DEF Numbered
<1>3. CASE StartsUnframed(p)
    BY <1>0, <1>1, <1>3 DEF StartsUnframed
<1>4. CASE p = "client" /\ IsAccepted
    BY <1>0, <1>1, <1>4 DEF IsAccepted
<1>5. CASE p = "server" /\ AcceptsOpen
    BY <1>0, <1>1, <1>5 DEF AcceptsOpen
<1>6. CASE p = "client" /\ IsDeclined
    BY <1>2, <1>6 DEF IsDeclined
<1>7. CASE Grants(p) \/ IsGranted(p)
    BY <1>2, <1>7 DEF Grants, IsGranted, Enters
<1>8. CASE SendsOpen \/ AwaitsOpen \/ DeclinesOpen \/ Passes(p) \/ Identifies(p)
           \/ (\E kind \in {"request", "event"} : Send(p, kind))
           \/ (\E n \in Numbers : Respond(p, n))
    BY <1>8 DEF SendsOpen, AwaitsOpen, DeclinesOpen, Passes, Identifies, Send, Respond, Ignores
<1> QED
    BY <1>3, <1>4, <1>5, <1>6, <1>7, <1>8 DEF StepOf

\* What is under way after a step.
LEMMA UnderWayNext ==
    ASSUME NEW q, NEW mid, NEW hi, got'[q] <= mid, mid <= hi, hi <= sent'[Other(q)],
           Carries(events'[q], got'[q], mid), Carries(wire'[q], mid, hi),
           up' => hi = sent'[Other(q)]
    PROVE  UnderWay(q, mid, hi)'
BY DEF UnderWay, Carries

\* The counters are numbers.
LEMMA Counted ==
    ASSUME TypeOK, NEW p \in Peers
    PROVE  sent[p] \in Nat /\ got[p] \in Nat
<1>1. sent[p] \in 0..MaxSends /\ got[p] \in 0..MaxSends /\ MaxSends \in Nat
    BY TypedPeer, SessionAssumption
<1> QED BY <1>1

\* What p writes is the next number or none.
LEMMA SentOn ==
    ASSUME SessionInv, NEW p \in Peers, StepOf(p)
    PROVE  \E mid, hi \in Nat : UnderWay(Other(p), mid, hi)'
<1> DEFINE q == Other(p)
<1>0. TypeOK /\ q \in Peers /\ q # p /\ Other(q) = p /\ wire[q] \in Seq(Message)
      /\ sent[p] \in Nat /\ got[q] \in Nat
    BY TwoPeers, TypedPeer, Counted DEF SessionInv
<1>1. PICK mid \in Nat : \E hi \in Nat : UnderWay(q, mid, hi)
    BY <1>0 DEF SessionInv, InStep
<1>2. PICK hi \in Nat : UnderWay(q, mid, hi)
    BY <1>1
<1>3. /\ got[q] <= mid /\ mid <= hi /\ hi <= sent[p]
      /\ Carries(events[q], got[q], mid) /\ Carries(wire[q], mid, hi)
      /\ up => hi = sent[p]
    BY <1>0, <1>2 DEF UnderWay
<1>4. /\ got'[q] = got[q] /\ events'[q] = events[q] /\ (up' => up)
      /\ sent' = sent \/ \E kind \in {"request", "event"} : Send(p, kind)
    BY StepCounts, OtherStands, StaysDown
<1> HIDE DEF Message, CoreEvent, q, Carries, Numbered, Has
<1>5. ASSUME NEW h \in Nat, mid <= h, h <= sent'[p], Carries(wire'[q], mid, h),
             up' => h = sent'[p]
      PROVE  \E m, i \in Nat : UnderWay(q, m, i)'
    <2>1. UnderWay(q, mid, h)'
        BY <1>0, <1>3, <1>4, <1>5, UnderWayNext
    <2> QED BY <2>1
<1>6. CASE \E kind \in {"request", "event"} : Send(p, kind)
    <2>1. PICK kind \in {"request", "event"} : Send(p, kind)
        BY <1>6
    <2> DEFINE m == [kind |-> kind, len |-> RpcLen(p), sid |-> sid[p], n |-> sent[p] + 1]
    <2>2. Write(p, <<m>>, FALSE) /\ up' = up /\ sent' = [sent EXCEPT ![p] = @ + 1]
        BY <2>1 DEF Send
    <2>3. sent[p] + 1 \in Numbers
        BY <1>0, <2>1, NextNumber DEF Send
    <2>4. m \in Message
        BY <1>0, <2>3, RpcLenTyped, TypedPeer, MessagesTyped DEF Business
    <2>5. m.kind = kind /\ m.n = sent[p] + 1
        OBVIOUS
    <2> HIDE DEF m
    <2>6. Numbered(m)
        BY <2>5 DEF Numbered
    <2>7. sent'[p] = sent[p] + 1
        BY <1>0, <2>2 DEF TypeOK
    <2>8. <<m>> \in Seq(Message)
        BY <2>4, Singleton
    <2>9. wire'[q] = IF up THEN wire[q] \o <<m>> ELSE wire[q]
        BY <1>0, <2>2, <2>8, WriteWires DEF q
    <2>10. CASE up
        <3>1. m.n = hi + 1
            BY <1>3, <2>5, <2>10
        <3>2. Carries(wire[q] \o <<m>>, mid, hi + 1)
            BY <1>0, <1>3, <2>4, <2>6, <3>1, CarriesNext
        <3>3. /\ hi + 1 \in Nat /\ mid <= hi + 1 /\ hi + 1 <= sent'[p]
              /\ Carries(wire'[q], mid, hi + 1) /\ hi + 1 = sent'[p]
            BY <1>0, <1>3, <2>7, <2>9, <2>10, <3>2
        <3> HIDE DEF UnderWay
        <3> QED BY <3>3, <1>5 DEF q
    <2>11. CASE ~up
        <3>1. hi <= sent'[p] /\ Carries(wire'[q], mid, hi) /\ ~up'
            BY <1>0, <1>3, <2>2, <2>7, <2>9, <2>11
        <3> HIDE DEF UnderWay
        <3> QED BY <1>3, <1>5, <3>1 DEF q
    <2> QED BY <2>10, <2>11
<1>7. CASE ~\E kind \in {"request", "event"} : Send(p, kind)
    <2>1. sent' = sent
        BY <1>4, <1>7
    <2>2. Carries(wire'[q], mid, hi)
        <3>1. CASE wire' = wire
            BY <1>3, <3>1
        <3>2. CASE CloseEndpoint(p)
            <4>1. wire'[q] = wire[q]
                BY <1>0, <3>2 DEF CloseEndpoint, TypeOK
            <4> QED BY <1>3, <4>1
        <3>3. ASSUME NEW msgs \in Seq(Message), NEW took \in BOOLEAN, Writes(p, msgs, took)
              PROVE  Carries(wire'[q], mid, hi)
            <4>1. /\ took => wire[p] # <<>>
                  /\ Write(p, msgs, took) /\ \A x : In(x, msgs) => ~Numbered(x)
                BY <1>7, <3>3 DEF Writes
            <4>2. Carries(wire[q] \o msgs, mid, hi)
                BY <1>0, <1>3, <4>1, CarriesOthers
            <4>3. wire'[q] = IF up THEN wire[q] \o msgs ELSE wire[q]
                BY <1>0, <4>1, WriteWires DEF q
            <4> QED BY <1>3, <4>2, <4>3
        <3> QED BY <3>1, <3>2, <3>3, StepWrites
    <2>3. hi <= sent'[p] /\ (up' => hi = sent'[p])
        BY <1>3, <1>4, <2>1
    <2> HIDE DEF UnderWay
    <2> QED BY <1>3, <1>5, <2>2, <2>3 DEF q
<1> QED BY <1>6, <1>7

\* What p takes in is the next number or none: a message moves from its
\* wire to its CoreEvents, a CoreEvent to its broker.
LEMMA TakenIn ==
    ASSUME SessionInv, NEW p \in Peers, StepOf(p)
    PROVE  \E mid, hi \in Nat : UnderWay(p, mid, hi)'
<1>0. /\ TypeOK /\ p # Other(p) /\ wire[p] \in Seq(Message) /\ events[p] \in Seq(CoreEvent)
      /\ sent[Other(p)] \in Nat /\ got[p] \in Nat
    BY TwoPeers, TypedPeer, Counted DEF SessionInv
<1>1. PICK mid \in Nat : \E hi \in Nat : UnderWay(p, mid, hi)
    BY DEF SessionInv, InStep
<1>2. PICK hi \in Nat : UnderWay(p, mid, hi)
    BY <1>1
<1>3. /\ got[p] <= mid /\ mid <= hi /\ hi <= sent[Other(p)]
      /\ Carries(events[p], got[p], mid) /\ Carries(wire[p], mid, hi)
      /\ up => hi = sent[Other(p)]
    BY <1>2 DEF UnderWay
<1>4. sent'[Other(p)] = sent[Other(p)] /\ (got' = got \/ Consume(p)) /\ (up' => up)
    BY StepCounts, StaysDown
<1> HIDE DEF Message, CoreEvent, Carries, Numbered, Has, Other
<1>5. ASSUME NEW m \in Nat, got'[p] <= m, m <= hi,
             Carries(events'[p], got'[p], m), Carries(wire'[p], m, hi)
      PROVE  \E i, j \in Nat : UnderWay(p, i, j)'
    <2>1. UnderWay(p, m, hi)'
        BY <1>3, <1>4, <1>5, UnderWayNext
    <2> QED BY <2>1
<1> HIDE DEF UnderWay
<1>6. CASE CloseEndpoint(p)
    <2>1. wire'[p] = <<>> /\ events'[p] = <<>> /\ got' = got /\ ~up'
        BY <1>0, <1>6 DEF CloseEndpoint, TypeOK
    <2>2. Carries(<<>>, got[p], got[p])
        BY <1>0, CarriesNone
    <2>3. got[p] <= got[p] /\ got[p] <= sent[Other(p)]
        BY <1>0, <1>3
    <2>4. PICK g : g = got[p]
        OBVIOUS
    <2>5. UnderWay(p, g, g)'
        BY <1>4, <2>1, <2>2, <2>3, <2>4, UnderWayNext
    <2>6. g \in Nat
        BY <1>0, <2>4
    <2> QED BY <2>5, <2>6
<1>7. CASE Consume(p)
    <2> DEFINE e == Head(events[p])
    <2>1. /\ events[p] # <<>> /\ events' = [events EXCEPT ![p] = Tail(@)] /\ UNCHANGED wire
          /\ got' = IF e.kind \in {"request", "event"} THEN [got EXCEPT ![p] = e.n] ELSE got
        BY <1>7 DEF Consume, Takes
    <2> HIDE DEF e
    <2>2. /\ events'[p] = Tail(events[p]) /\ wire'[p] = wire[p]
          /\ got'[p] = IF Numbered(e) THEN e.n ELSE got[p]
        BY <1>0, <2>1 DEF TypeOK, Numbered
    <2>3. /\ Numbered(e) => /\ e.n = got[p] + 1 /\ got[p] + 1 <= mid
                            /\ Carries(Tail(events[p]), got[p] + 1, mid)
          /\ ~Numbered(e) => Carries(Tail(events[p]), got[p], mid)
        BY <1>0, <1>3, <2>1, CarriesTail DEF e
    <2>4. got'[p] <= mid /\ Carries(events'[p], got'[p], mid)
        <3>1. CASE Numbered(e)
            BY <2>2, <2>3, <3>1
        <3>2. CASE ~Numbered(e)
            BY <1>3, <2>2, <2>3, <3>2
        <3> QED BY <3>1, <3>2
    <2> QED BY <1>3, <1>5, <2>2, <2>4
<1>8. CASE Dispatches(p)
    <2> DEFINE h == Head(wire[p])
    <2>a. PICK e : e = [kind |-> h.kind, n |-> h.n]
        OBVIOUS
    <2>1. /\ wire[p] # <<>> /\ h.kind \in {"request", "event"} /\ Write(p, <<>>, TRUE)
          /\ Enqueue(p, <<e>>) /\ got' = got
        BY <1>8, <2>a DEF Dispatches, Takes1, appVars
    <2>2. h.n \in Numbers
        BY <2>1, NextMessage, MessageFields DEF Business
    <2>3. e \in CoreEvent /\ e.n = h.n /\ e.kind = h.kind
        BY <2>a, <2>1, <2>2, EventsTyped
    <2>4. Numbered(h) /\ Numbered(e)
        BY <2>1, <2>3 DEF Numbered
    <2>5. h.n = mid + 1 /\ mid + 1 <= hi /\ Carries(Tail(wire[p]), mid + 1, hi)
        BY <1>0, <1>3, <2>1, <2>4, CarriesTail
    <2> HIDE DEF h
    <2>6. <<e>> \in Seq(CoreEvent)
        BY <2>3, Singleton
    <2>7. <<>> \in Seq(Message)
        OBVIOUS
    <2>8. events'[p] = events[p] \o <<e>>
        BY <1>0, <2>1, <2>6, EnqueueEvents
    <2>9. wire'[p] = Tail(wire[p])
        BY <1>0, <2>1, <2>7, WriteWires
    <2>10. Carries(events[p] \o <<e>>, got[p], mid + 1)
        BY <1>0, <1>3, <2>3, <2>4, <2>5, CarriesNext
    <2>11. mid + 1 \in Nat /\ got'[p] <= mid + 1 /\ got'[p] = got[p]
        BY <1>0, <1>3, <2>1
    <2> QED BY <1>5, <2>5, <2>8, <2>9, <2>10, <2>11
<1>9. CASE ~Consume(p) /\ ~CloseEndpoint(p) /\ ~Dispatches(p)
    <2>1. got'[p] = got[p]
        BY <1>4, <1>9
    <2>2. Carries(events'[p], got[p], mid)
        <3>1. CASE events' = events
            BY <1>3, <3>1
        <3>2. ASSUME NEW e \in CoreEvent, ~Numbered(e), Enqueue(p, <<e>>)
              PROVE  Carries(events'[p], got[p], mid)
            <4>1. <<e>> \in Seq(CoreEvent) /\ \A x : In(x, <<e>>) => x = e
                BY Singleton, InLiteral
            <4>2. Carries(events[p] \o <<e>>, got[p], mid)
                BY <1>0, <1>3, <3>2, <4>1, CarriesOthers
            <4>3. events'[p] = events[p] \o <<e>>
                BY <1>0, <3>2, <4>1, EnqueueEvents
            <4> QED BY <4>2, <4>3
        <3> QED BY <1>9, <3>1, <3>2, StepTells
    <2>3. Carries(wire'[p], mid, hi)
        <3>1. CASE wire' = wire
            BY <1>3, <3>1
        <3>2. ASSUME NEW msgs \in Seq(Message), NEW took \in BOOLEAN, Writes(p, msgs, took)
              PROVE  Carries(wire'[p], mid, hi)
            <4>1. /\ took => wire[p] # <<>> /\ ~Numbered(Head(wire[p]))
                  /\ Write(p, msgs, took)
                BY <1>9, <3>2 DEF Writes
            <4>2. took => Carries(Tail(wire[p]), mid, hi)
                BY <1>0, <1>3, <4>1, CarriesTail
            <4>3. wire'[p] = IF took THEN Tail(wire[p]) ELSE wire[p]
                BY <1>0, <4>1, WriteWires
            <4> QED BY <1>3, <4>2, <4>3
        <3> QED BY <1>9, <3>1, <3>2, StepWrites
    <2> QED BY <1>3, <1>5, <2>1, <2>2, <2>3
<1> QED BY <1>6, <1>7, <1>8, <1>9

\* Both peers stay in step.
LEMMA StepKept ==
    ASSUME SessionInv, NEW p \in Peers, StepOf(p)
    PROVE  InStep'
<1>1. \A q \in Peers : q = p \/ q = Other(p)
    BY TwoPeers
<1>2. \E mid, hi \in Nat : UnderWay(p, mid, hi)'
    BY TakenIn
<1>3. \E mid, hi \in Nat : UnderWay(Other(p), mid, hi)'
    BY SentOn
<1> HIDE DEF UnderWay, Peers, Other
<1>4. \A q \in Peers : \E mid, hi \in Nat : UnderWay(q, mid, hi)'
    BY <1>1, <1>2, <1>3
<1> QED BY <1>4 DEF InStep

-----------------------------------------------------------------------------
(* The invariant                                                           *)

\* Nothing but the connection changes, and it does not come back.
LEMMA CutKept ==
    ASSUME SessionInv, up' \in BOOLEAN, up' => up,
           UNCHANGED <<config, wire, lifecycle, coreVars, events, beat, appVars>>
    PROVE  SessionInv'
<1>0. /\ TypeOK /\ MessagesOK /\ InTurn /\ Linked /\ Joined /\ EventsOK /\ Lives /\ InStep
      /\ UNCHANGED <<config, wire, lifecycle, opening, gate, sid, frameSize, events, beat, sent,
                     handling, got>>
    BY DEF SessionInv, coreVars, appVars
<1> HIDE DEF Message, CoreEvent, Peers
<1>1. TypeOK'
    BY <1>0 DEF TypeOK
<1>2. MessagesOK'
    <2> SUFFICES ASSUME NEW p \in Peers, NEW m \in Message, In(m, wire'[p])
                 PROVE  Truthful(p, m)'
        BY DEF MessagesOK
    <2>1. Truthful(p, m)
        BY <1>0 DEF MessagesOK
    <2> QED BY <2>1, StillTruthful
<1>3. InTurn'
    BY <1>0 DEF InTurn, Sorted, Has
<1>4. Linked'
    <2>1. Has(wire["client"], "accept") => Has(wire'["client"], "accept")
        BY <1>0
    <2> HIDE DEF Has
    <2> QED BY <1>0, <2>1, LinkStays
<1>5. Joined'
    BY <1>0 DEF Joined, Has
<1>6. EventsOK'
    BY <1>0 DEF EventsOK, Told
<1>7. Lives'
    <2>1. \A q \in Peers : Life(q)'
        BY <1>0, LifeStays
    <2> QED BY <2>1 DEF Lives
<1>8. InStep'
    <2> SUFFICES ASSUME NEW q \in Peers
                 PROVE  \E mid, hi \in Nat : UnderWay(q, mid, hi)'
        BY DEF InStep
    <2>1. PICK mid \in Nat : \E hi \in Nat : UnderWay(q, mid, hi)
        BY <1>0 DEF InStep
    <2>2. PICK hi \in Nat : UnderWay(q, mid, hi)
        BY <2>1
    <2> HIDE DEF Carries, Other
    <2>3. /\ got'[q] <= mid /\ mid <= hi /\ hi <= sent'[Other(q)]
          /\ Carries(events'[q], got'[q], mid) /\ Carries(wire'[q], mid, hi)
          /\ up' => hi = sent'[Other(q)]
        BY <1>0, <2>2 DEF UnderWay
    <2>4. UnderWay(q, mid, hi)'
        BY <2>3, UnderWayNext
    <2> QED BY <2>4
<1> QED
    BY <1>1, <1>2, <1>3, <1>4, <1>5, <1>6, <1>7, <1>8 DEF SessionInv

\* It holds before the first step.
LEMMA SessionInit ==
    ASSUME Init
    PROVE  SessionInv
<1>1. /\ config \in Configs /\ up = TRUE
      /\ wire = [p \in Peers |-> <<>>] /\ lifecycle = [p \in Peers |-> "idle"]
      /\ opening = [p \in Peers |-> FALSE] /\ gate = [p \in Peers |-> "LINK_CONNECTED"]
      /\ sid = [p \in Peers |-> NoSid] /\ frameSize = config.size
      /\ events = [p \in Peers |-> <<>>] /\ beat = [p \in Peers |-> 0]
      /\ sent = [p \in Peers |-> 0] /\ handling = [p \in Peers |-> {}]
      /\ got = [p \in Peers |-> 0]
    BY DEF Init
<1>2. /\ <<>> \in Seq(Message) /\ <<>> \in Seq(CoreEvent)
    <2>1. <<>> \in Seq(Message)
        OBVIOUS
    <2>2. <<>> \in Seq(CoreEvent)
        OBVIOUS
    <2> QED BY <2>1, <2>2
<1>3. \A x : ~In(x, <<>>)
    BY InLiteral
<1>4. \A k : ~Has(<<>>, k)
    BY <1>3, HasKind
<1>5. Sorted(<<>>)
    BY DEF Sorted
<1>6. Carries(<<>>, 0, 0)
    BY CarriesNone
<1>7. config.size \in [Peers -> Nat] /\ MaxSends \in Nat
    <2>1. config \in ConfigRecord
        BY <1>1, SessionAssumption
    <2> QED BY <2>1, SessionAssumption DEF ConfigRecord
<1> HIDE DEF Message, CoreEvent, Has, In, Sorted, Carries
<1>8. ASSUME NEW p \in Peers
      PROVE  /\ wire[p] = <<>> /\ lifecycle[p] = "idle" /\ opening[p] = FALSE
             /\ gate[p] = "LINK_CONNECTED" /\ events[p] = <<>> /\ beat[p] = 0
             /\ sent[p] = 0 /\ handling[p] = {} /\ got[p] = 0
             /\ frameSize[p] = config.size[p]
    BY <1>1, <1>8
<1>9. TypeOK
    <2>1. /\ wire \in [Peers -> Seq(Message)] /\ events \in [Peers -> Seq(CoreEvent)]
        BY <1>1, <1>2
    <2>2. sent \in [Peers -> 0..MaxSends] /\ got \in [Peers -> 0..MaxSends]
        BY <1>1, <1>7
    <2>3. /\ lifecycle \in [Peers -> {"idle", "connecting", "ready", "closed"}]
          /\ gate \in [Peers -> {"LINK_CONNECTED", "FRAMING_READY", "APP_READY"}]
          /\ opening \in [Peers -> BOOLEAN] /\ sid \in [Peers -> Sids \cup {NoSid}]
          /\ beat \in [Peers -> Nat] /\ handling \in [Peers -> SUBSET Numbers]
        BY <1>1
    <2> QED BY <1>1, <1>7, <2>1, <2>2, <2>3 DEF TypeOK
<1>10. MessagesOK /\ EventsOK
    BY <1>3, <1>8 DEF MessagesOK, EventsOK
<1>11. \A p \in Peers : Other(p) \in Peers
    BY TwoPeers
<1>12. InTurn
    BY <1>4, <1>5, <1>8, <1>11 DEF InTurn
<1>13. Linked
    <2>1. "server" \in Peers /\ "client" \in Peers
        BY DEF Peers
    <2> HIDE DEF Peers
    <2> QED BY <1>8, <2>1 DEF Linked
<1>14. Joined
    BY <1>8 DEF Joined
<1>15. Lives
    <2>1. ASSUME NEW p \in Peers PROVE Life(p)
        <3>1. ~Alive(p)
            BY <1>8 DEF Alive
        <3> HIDE DEF Alive, Roomy
        <3> QED BY <1>8, <3>1 DEF Life
    <2> QED BY <2>1 DEF Lives
<1>16. InStep
    <2>1. ASSUME NEW p \in Peers PROVE UnderWay(p, 0, 0)
        <3>1. got[p] = 0 /\ events[p] = <<>> /\ wire[p] = <<>>
            BY <1>8
        <3>2. sent[Other(p)] = 0
            BY <1>8, <1>11
        <3>3. Carries(events[p], got[p], 0) /\ Carries(wire[p], 0, 0)
            BY <1>6, <3>1
        <3> HIDE DEF Other, Peers
        <3> QED BY <3>1, <3>2, <3>3 DEF UnderWay
    <2>2. 0 \in Nat
        OBVIOUS
    <2> HIDE DEF UnderWay
    <2> QED BY <2>1, <2>2 DEF InStep
<1> QED
    BY <1>9, <1>10, <1>12, <1>13, <1>14, <1>15, <1>16 DEF SessionInv

\* Every step keeps it.
LEMMA SessionStep ==
    ASSUME SessionInv, [Next]_vars
    PROVE  SessionInv'
<1>1. ASSUME NEW p \in Peers, StepOf(p) PROVE SessionInv'
    <2>1. MessagesOK' /\ EventsOK' /\ InTurn'
        BY <1>1, MessagesKept, EventsKept, TurnKept
    <2>2. TypeOK' /\ Linked' /\ Joined' /\ Lives' /\ InStep'
        BY <1>1, TypeKept, LinkedKept, JoinedKept, LivesKept, StepKept
    <2> QED BY <2>1, <2>2 DEF SessionInv
<1>2. CASE Cut
    BY <1>2, CutKept DEF Cut
<1>3. CASE UNCHANGED vars
    <2>1. up \in BOOLEAN
        BY DEF SessionInv, TypeOK
    <2> QED BY <1>3, <2>1, CutKept DEF vars
<1> QED BY <1>1, <1>2, <1>3, Steps

\* The invariant holds in every state of every behaviour of Session: what is
\* on the wires is true of the two cores that exchange it, and in order.
THEOREM SessionInvariance == Spec => []SessionInv
<1>1. Init => SessionInv
    BY SessionInit
<1>2. SessionInv /\ [Next]_vars => SessionInv'
    BY SessionStep
<1> QED BY <1>1, <1>2, PTL DEF Spec

-----------------------------------------------------------------------------
(* What follows                                                            *)

\* The two peers' state has the types the code gives it; no request or event
\* beyond MaxSends is numbered.
THEOREM SessionTypeCorrect == Spec => []TypeOK
<1>1. SessionInv => TypeOK
    BY DEF SessionInv
<1> QED BY <1>1, SessionInvariance, PTL

\* The sid and the limits agree.
LEMMA Agreement ==
    ASSUME SessionInv
    PROVE  PeersAgree
<1>0. TypeOK /\ Linked /\ Joined /\ Lives /\ "client" \in Peers /\ "server" \in Peers
      /\ Other("client") = "server" /\ Other("server") = "client"
    BY DEF SessionInv, Peers, Other
<1>1. SidAgreement
    <2>1. \A p \in Peers : gate[p] = "APP_READY" => sid[p] \notin {NoSid, {}}
        BY <1>0 DEF Joined
    <2>2. ASSUME gate["client"] = "APP_READY", gate["server"] = "APP_READY"
          PROVE  sid["client"] = sid["server"]
        <3>1. config.logical["client"] \in {"client", "server"}
              /\ config.logical["server"] \in {"client", "server"}
            BY <1>0, TypedConfig DEF Peers
        <3>2. config.logical["client"] # config.logical["server"]
            BY <1>0, <2>2 DEF Joined
        <3>3. CASE config.logical["client"] = "client"
            BY <1>0, <2>2, <3>3 DEF Joined
        <3>4. CASE config.logical["server"] = "client"
            BY <1>0, <2>2, <3>4 DEF Joined
        <3> QED BY <3>1, <3>2, <3>3, <3>4
    <2> HIDE DEF NoSid
    <2> QED BY <1>0, <2>1, <2>2 DEF SidAgreement
<1>2. LinkAgreement
    <2> SUFFICES ASSUME config.framed PROVE LinkAgreement
        BY DEF LinkAgreement
    <2>1. AgreedSize <= config.size["server"] /\ AgreedSize <= config.size["client"]
        BY <1>0, AgreedBound
    <2> HIDE DEF AgreedSize
    <2>2. ASSUME gate["client"] # "LINK_CONNECTED"
          PROVE  /\ gate["server"] # "LINK_CONNECTED"
                 /\ frameSize["client"] = frameSize["server"]
                 /\ \A p \in Peers : frameSize[p] <= config.size[p]
        <3>1. gate["server"] # "LINK_CONNECTED"
            BY <1>0, <2>2 DEF Linked
        <3>2. frameSize["client"] = AgreedSize /\ frameSize["server"] = AgreedSize
            BY <1>0, <2>2, <3>1 DEF Linked
        <3> QED BY <2>1, <3>1, <3>2 DEF Peers
    <2>3. \A p \in Peers : beat[p] \in {0, config.interval["client"]}
        BY <1>0 DEF Lives, Life
    <2> QED BY <1>0, <2>2, <2>3 DEF LinkAgreement
<1> QED BY <1>1, <1>2 DEF PeersAgree

\* Two peers in session use one sid, never the empty or the zero one, and
\* both ends of a framed link enforce one limit, within both of those they
\* were given, with one heartbeat interval: PeersAgree, for all limits, seeds
\* and intervals (handshake.ts 104-144, controlSession.ts 120-192).
THEOREM PeersAgreeAlways == Spec => []PeersAgree
<1>1. SessionInv => PeersAgree
    BY Agreement
<1> QED BY <1>1, SessionInvariance, PTL

\* No message of a ready peer is turned down.
LEMMA Served ==
    ASSUME SessionInv
    PROVE  NothingRefused
<1> SUFFICES ASSUME NEW p \in Peers, Roomy, Alive(p), wire[p] # <<>>
             PROVE  /\ Head(wire[p]).len <= frameSize[p]
                    /\ Head(wire[p]).kind \in Business => Admits(p, Head(wire[p]))
    BY DEF NothingRefused
<1>1. TypeOK /\ Head(wire[p]) \in Message
    BY NextMessage DEF SessionInv
<1>2. Head(wire[p]).kind \in Business => Admits(p, Head(wire[p]))
    BY NextAdmitted
<1>3. CASE Head(wire[p]).kind \notin {"open", "accept"}
    BY <1>2, <1>3, NextWithinLimit
<1>4. CASE Head(wire[p]).kind = "open"
    <2>1. /\ p = "server" /\ config.framed /\ gate["server"] = "LINK_CONNECTED"
          /\ Head(wire[p]).len <= ControlFrame
        BY <1>4, NextMessage DEF Truthful
    <2>2. frameSize[p] = config.size[p] /\ config.size[p] >= ControlFrame
        BY <2>1 DEF SessionInv, Linked, Roomy
    <2>3. Head(wire[p]).len \in Nat /\ config.size[p] \in Nat /\ ControlFrame \in Nat
        BY <1>1, MessageFields, TypedConfig, SessionAssumption
    <2> QED BY <1>2, <2>1, <2>2, <2>3
<1>5. CASE Head(wire[p]).kind = "accept"
    <2>1. p = "client" /\ gate["client"] = "LINK_CONNECTED" /\ config.framed
        BY <1>5, NextIsAccept
    <2>2. Head(wire[p]).len = Min(ControlFrame, config.size["server"])
        BY <1>5, NextMessage DEF Truthful
    <2>3. frameSize[p] = config.size[p] /\ config.size[p] >= ControlFrame
        BY <2>1 DEF SessionInv, Linked, Roomy
    <2>4. config.size[p] \in Nat /\ config.size["server"] \in Nat /\ ControlFrame \in Nat
        BY <1>1, TypedConfig, SessionAssumption DEF Peers
    <2>5. Head(wire[p]).len <= ControlFrame /\ Head(wire[p]).len \in Nat
        BY <2>2, <2>4 DEF Min
    <2> QED BY <1>2, <2>3, <2>4, <2>5
<1> QED BY <1>3, <1>4, <1>5

\* The broker comes after the endpoint is ready, in the peer's order.
LEMMA InOrder ==
    ASSUME SessionInv
    PROVE  BrokerAfterReady
<1> SUFFICES ASSUME NEW p \in Peers, Takes(p, {"request", "event"})
             PROVE  /\ Roomy => lifecycle[p] = "ready" /\ beat[p] # 0
                    /\ Head(events[p]).n = got[p] + 1
    BY DEF BrokerAfterReady
<1> DEFINE e == Head(events[p])
<1>1. /\ TypeOK /\ events[p] \in Seq(CoreEvent) /\ Sorted(events[p]) /\ Life(p)
      /\ events[p] # <<>> /\ Alive(p) /\ e.kind \in {"request", "event"}
    BY TypedPeer DEF SessionInv, InTurn, Lives, Takes
<1> HIDE DEF CoreEvent
<1>2. e \in CoreEvent /\ In(e, events[p])
    BY <1>1, InTaken
<1>3. gate[p] = "APP_READY"
    BY <1>1, <1>2 DEF SessionInv, EventsOK, Told
<1>4. ASSUME NEW k \in {"linkReady", "handshakeReady"} PROVE ~Has(events[p], k)
    <2>1. \A x : In(x, events[p]) => x = e \/ In(x, Tail(events[p]))
        BY <1>1, InTaken
    <2>2. \A x : In(x, Tail(events[p])) => Before(e.kind, x.kind)
        BY <1>1, SortedTaken
    <2>3. \A x : In(x, events[p]) => x.kind # k
        BY <1>1, <2>1, <2>2 DEF Before, Rank
    <2> QED BY <2>3, HasKind
<1> HIDE DEF Has
<1>5. Roomy => lifecycle[p] = "ready" /\ beat[p] # 0
    BY <1>1, <1>3, <1>4 DEF Life
<1>6. e.n = got[p] + 1
    <2>1. PICK mid \in Nat : \E hi \in Nat : UnderWay(p, mid, hi)
        BY DEF SessionInv, InStep
    <2>2. Carries(events[p], got[p], mid) /\ got[p] \in Nat
        BY <1>1, <2>1, Counted DEF UnderWay
    <2>3. Numbered(e)
        BY <1>1 DEF Numbered
    <2> HIDE DEF e, Carries, Numbered
    <2> QED BY <1>1, <2>1, <2>2, <2>3, CarriesTail DEF e
<1> QED BY <1>5, <1>6

\* What a ready peer sends is served in its order: its frames are within the
\* limit of the receiver, the runtime gate is open for its sid, the endpoint
\* is ready and its heartbeat runs when the broker takes it, and nothing is
\* missing before it: BusinessServed, for any number of sends
\* (runtimeGate.ts 19-27, core.ts 366-436, endpoint.ts 147-204).
THEOREM BusinessAlwaysServed == Spec => []BusinessServed
<1>1. SessionInv => BusinessServed
    BY Served, InOrder DEF BusinessServed
<1> QED BY <1>1, SessionInvariance, PTL

\* What was negotiated is never negotiated again: NegotiatedOnce, from
\* Lasting; it needs that OPEN, ACCEPT and Identify reach a peer only where
\* they are awaited.
THEOREM NegotiatedForLife == Spec => NegotiatedOnce
<1> DEFINE Lasts ==
        \A p \in Peers :
           /\ gate[p] # "LINK_CONNECTED" =>
                 frameSize'[p] = frameSize[p] /\ gate'[p] # "LINK_CONNECTED"
           /\ gate[p] = "APP_READY" => sid'[p] = sid[p] /\ gate'[p] = "APP_READY"
<1>1. SessionInv /\ Next => Lasts
    <2> SUFFICES ASSUME SessionInv, Next PROVE Lasts
        OBVIOUS
    <2>1. CASE Cut
        BY <2>1 DEF Cut, coreVars
    <2>2. ASSUME NEW q \in Peers, StepOf(q) PROVE Lasts
        BY <2>2, Lasting
    <2> QED BY <2>1, <2>2, Steps
<1> HIDE DEF Lasts
<1>2. SessionInv /\ [Next]_vars => [Lasts]_vars
    BY <1>1
<1>3. Spec => [][Lasts]_vars
    BY <1>2, SessionInvariance, PTL DEF Spec
<1> QED
    BY <1>3 DEF NegotiatedOnce, Lasts
=============================================================================
