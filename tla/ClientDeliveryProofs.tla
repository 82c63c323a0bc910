------------------------ MODULE ClientDeliveryProofs ------------------------
(***************************************************************************)
(* The safety of the client's calls and events, for any number of them,    *)
(* any set of endpoint objects and any options.                            *)
(*                                                                         *)
(* NoLostCaller relates callers to the queue as a whole; what is inductive *)
(* is CallsInv, which speaks of items: each holds the caller of its own    *)
(* call, no two share a caller, and only the item the flush loop awaits    *)
(* may have been written (NotYetWritten).  That calls and events are       *)
(* issued in order keeps the outbox sorted.  Together with IInv of the     *)
(* life cycle and NoStalledQueue this is DInv.                             *)
(***************************************************************************)
EXTENDS ClientDelivery, AxtpClientProofs, SequenceTheorems,
        WellFoundedInduction

(* Well-formed queues, and the inductive invariant                         *)

\* The callers the items of queue q hold.
Held(q) == UNION {q[i].waiters : i \in DOMAIN q}

\* No two items hold the same caller.
Apart(q) == \A i, j \in DOMAIN q : i # j => q[i].waiters \cap q[j].waiters = {}

\* The call whose parameters an item holds is one of its callers.
Owned(q) == \A i \in DOMAIN q : q[i].call \in q[i].waiters

\* The events of s are in the order they were issued.
Rising(s) == \A i, j \in DOMAIN s : i < j => s[i] < s[j]

\* The callers of the item the flush loop awaits.
Flushing == IF flushAnswer = "idle" THEN {} ELSE flushItem.waiters

StatusType == [Calls -> {"new", "waiting", "granted", "queued", "inflight",
                         "outbox"} \cup Settled]
ViaType == [Calls -> Endpoints \cup {NoEndpoint}]

\* A well-formed queue.
QueueOK(q) == q \in Seq(Item) /\ Apart(q) /\ Owned(q)

\* The flush loop awaits an item of the queue.
FlushOwned ==
    flushAnswer # "idle" => flushItem \in Item /\ flushItem.call \in flushItem.waiters

\* What is written is settled or under way; a queued caller has been written
\* only if the flush loop awaits its call.
NotYetWritten ==
    \A i \in DOMAIN written :
        /\ status[written[i]] \notin {"new", "waiting", "granted", "outbox"}
        /\ status[written[i]] = "queued" =>
              flushAnswer # "idle" /\ written[i] = flushItem.call

\* Calls and events are issued in order.
IssuedInOrder ==
    \A c, d \in Calls : c < d /\ status[c] = "new" => status[d] = "new"

\* The part of the invariant about calls: NoLostCaller item by item, and
\* what it takes to keep it.
CallsInv ==
    /\ DeliveryTypeOK
    /\ QueueOK(callQueue)
    /\ FlushOwned
    /\ \A c \in Calls :
          status[c] = "queued" <=> c \in Held(callQueue) \cup Flushing
    /\ Held(callQueue) \cap Flushing = {}
    /\ Range(eventOutbox) = {c \in Calls : status[c] = "outbox"}
    /\ Rising(eventOutbox)
    /\ NotYetWritten
    /\ IssuedInOrder

\* The inductive invariant.
DInv == IInv /\ CallsInv /\ NoStalledQueue

-----------------------------------------------------------------------------
(* The life cycle                                                          *)

\* Calls and events leave the life cycle alone.
LEMMA StepsOfLifeCycle == [DNext]_dvars => [Next]_vars
<1> SUFFICES ASSUME [DNext]_dvars PROVE [Next]_vars
    OBVIOUS
<1>1. CASE LifeCycle
  BY <1>1 DEF LifeCycle, Next, EndpointEvent, DConnect, DConnectResumes,
     DConnectTimeout, DOpenSettles, DRetryTimerFires, DAttemptSettles,
     DEndpointReady, DEndpointCloses, DHandshakeFails, DHandshakeTimeout, DClose
<1>2. CASE CallIssued
  BY <1>2 DEF CallIssued, CallFailFast, CallWaitReady, CallQueueDirect,
     CallCoalesces, CallOverflows, CallQueued, Enqueues, Issue, Upcoming
<1>3. CASE EventIssued
  BY <1>3 DEF EventIssued, EmitDirect, EmitRefused, EmitQueued, Emit, Upcoming
<1>4. ASSUME NEW c \in Calls, GrantedResumes(c) \/ CallAnswered(c)
      PROVE  UNCHANGED vars
  BY <1>4 DEF GrantedResumes, CallAnswered
<1>5. CASE FlushAnswered \/ FlushResumes
  BY <1>5 DEF FlushAnswered, FlushResumes
<1>6. CASE UNCHANGED dvars
  BY <1>6 DEF dvars
<1>7. QED
  BY <1>1, <1>2, <1>3, <1>4, <1>5, <1>6 DEF DNext

\* The client with its calls implements the life cycle alone, so that every
\* theorem of AxtpClientProofs holds of it.
THEOREM LifeCycleKept == DSpec => Spec
<1>1. DInit => Init
  BY DEF DInit
<1>2. [DNext]_dvars => [Next]_vars
  BY StepsOfLifeCycle
<1>3. QED
  BY <1>1, <1>2, PTL DEF DSpec, Spec

-----------------------------------------------------------------------------
(* Sequences                                                               *)

\* The elements of a sequence with one more at its end.
LEMMA RangeAppend ==
    ASSUME NEW S, NEW s \in Seq(S), NEW e \in S
    PROVE  Range(Append(s, e)) = Range(s) \cup {e}
<1>1. Append(s, e) = s \o <<e>> /\ <<e>> \in Seq(S)
  BY AppendIsConcat
<1>2. Range(<<e>>) = {e}
  BY DEF Range
<1>3. Range(s \o <<e>>) = Range(s) \cup Range(<<e>>)
  BY <1>1, RangeConcatenation, SMTT(30)
<1>4. QED
  BY <1>1, <1>2, <1>3

\* The elements of a sequence are its head and those of its tail.
LEMMA RangeHeadTail ==
    ASSUME NEW S, NEW s \in Seq(S), s # <<>>
    PROVE  Range(s) = {Head(s)} \cup Range(Tail(s))
<1>1. s = <<Head(s)>> \o Tail(s) /\ <<Head(s)>> \in Seq(S) /\ Tail(s) \in Seq(S)
  OBVIOUS
<1>2. Range(<<Head(s)>>) = {Head(s)}
  BY DEF Range
<1>3. Range(<<Head(s)>> \o Tail(s)) = Range(<<Head(s)>>) \cup Range(Tail(s))
  <2> DEFINE h == <<Head(s)>>
             t == Tail(s)
  <2>1. h \in Seq(S) /\ t \in Seq(S)
    BY <1>1
  <2> HIDE DEF h, t
  <2>2. Range(h \o t) = Range(h) \cup Range(t)
    BY <2>1, RangeConcatenation
  <2>3. QED
    BY <2>2 DEF h, t
<1>4. QED
  BY <1>1, <1>2, <1>3

\* callQueue.shift(): the head and the remaining items share no caller.
LEMMA QueueTail ==
    ASSUME NEW q \in Seq(Item), q # <<>>, Apart(q), Owned(q)
    PROVE  /\ Tail(q) \in Seq(Item) /\ Apart(Tail(q)) /\ Owned(Tail(q))
           /\ Len(Tail(q)) = Len(q) - 1
           /\ Held(q) = Head(q).waiters \cup Held(Tail(q))
           /\ Head(q).waiters \cap Held(Tail(q)) = {}
           /\ Head(q) \in Item /\ Head(q).call \in Head(q).waiters
<1> DEFINE t == Tail(q)
           h == Head(q)
<1>1. /\ t \in Seq(Item) /\ h \in Item /\ h = q[1] /\ 1 \in DOMAIN q
      /\ Len(q) \in Nat /\ Len(t) = Len(q) - 1
      /\ DOMAIN q = 1..Len(q) /\ DOMAIN t = 1..Len(t)
      /\ \A i \in DOMAIN t : i + 1 \in DOMAIN q /\ i + 1 # 1 /\ t[i] = q[i + 1]
      /\ \A i, j \in DOMAIN t : i # j => i + 1 # j + 1
      /\ \A i \in DOMAIN q : i # 1 => i - 1 \in DOMAIN t /\ q[i] = t[i - 1]
  OBVIOUS
<1> HIDE DEF t, h
<1>2. Held(q) = h.waiters \cup Held(t)
  <2>1. ASSUME NEW i \in DOMAIN q
        PROVE  q[i].waiters \subseteq h.waiters \cup Held(t)
    <3>1. CASE i = 1
      BY <1>1, <3>1
    <3>2. CASE i # 1
      <4>1. i - 1 \in DOMAIN t /\ q[i] = t[i - 1]
        BY <1>1, <3>2
      <4>2. QED
        BY <4>1 DEF Held
    <3>3. QED
      BY <3>1, <3>2
  <2>2. ASSUME NEW i \in DOMAIN t
        PROVE  t[i].waiters \subseteq Held(q)
    <3>1. i + 1 \in DOMAIN q /\ t[i] = q[i + 1]
      BY <1>1
    <3>2. QED
      BY <3>1 DEF Held
  <2>3. h.waiters \subseteq Held(q)
    BY <1>1 DEF Held
  <2>4. Held(q) \subseteq h.waiters \cup Held(t)
    BY <2>1 DEF Held
  <2>5. Held(t) \subseteq Held(q)
    BY <2>2 DEF Held
  <2>6. QED
    BY <2>3, <2>4, <2>5
<1>3. h.waiters \cap Held(t) = {}
  BY <1>1 DEF Held, Apart
<1>4. Apart(t)
  <2> SUFFICES ASSUME NEW i \in DOMAIN t, NEW j \in DOMAIN t, i # j
               PROVE  t[i].waiters \cap t[j].waiters = {}
    BY DEF Apart
  <2>1. q[i + 1].waiters \cap q[j + 1].waiters = {}
    BY <1>1 DEF Apart
  <2>2. QED
    BY <1>1, <2>1
<1>5. Owned(t) /\ h.call \in h.waiters
  <2>1. \A i \in DOMAIN t : q[i + 1].call \in q[i + 1].waiters
    BY <1>1 DEF Owned
  <2>2. QED
    BY <1>1, <2>1 DEF Owned
<1>6. QED
  BY <1>1, <1>2, <1>3, <1>4, <1>5 DEF t, h

\* callQueue.push() of a caller no item holds.
LEMMA QueueAppend ==
    ASSUME NEW q \in Seq(Item), NEW it \in Item, Apart(q), Owned(q),
           it.waiters \cap Held(q) = {}, it.call \in it.waiters
    PROVE  /\ Append(q, it) \in Seq(Item)
           /\ Apart(Append(q, it)) /\ Owned(Append(q, it))
           /\ Held(Append(q, it)) = Held(q) \cup it.waiters
           /\ Len(Append(q, it)) = Len(q) + 1
<1> DEFINE s == Append(q, it)
           n == Len(q) + 1
<1>1. /\ s \in Seq(Item) /\ Len(s) = n /\ DOMAIN s = 1..n /\ Len(q) \in Nat
      /\ DOMAIN q = 1..Len(q)
      /\ s[n] = it
      /\ \A i \in DOMAIN q : s[i] = q[i] /\ i # n /\ i \in DOMAIN s
      /\ \A i \in DOMAIN s : i = n \/ i \in DOMAIN q
      /\ n \in DOMAIN s
  OBVIOUS
<1> HIDE DEF s, n
<1>2. Held(s) = Held(q) \cup it.waiters
  BY <1>1 DEF Held
<1>3. Apart(s)
  <2>1. \A i \in DOMAIN q : q[i].waiters \cap it.waiters = {}
    BY DEF Held
  <2>2. QED
    BY <1>1, <2>1 DEF Apart
<1>4. Owned(s)
  BY <1>1 DEF Owned
<1>5. QED
  BY <1>1, <1>2, <1>3, <1>4 DEF s, n

\* Coalescing: item k is replaced by one that holds no other item's caller.
LEMMA QueueReplace ==
    ASSUME NEW q \in Seq(Item), NEW it \in Item, NEW k \in DOMAIN q,
           Apart(q), Owned(q),
           it.waiters \cap Held(q) \subseteq q[k].waiters, it.call \in it.waiters
    PROVE  /\ [q EXCEPT ![k] = it] \in Seq(Item)
           /\ Apart([q EXCEPT ![k] = it]) /\ Owned([q EXCEPT ![k] = it])
           /\ Held([q EXCEPT ![k] = it])
                 = (Held(q) \ q[k].waiters) \cup it.waiters
           /\ Len([q EXCEPT ![k] = it]) = Len(q)
           /\ q[k].waiters \subseteq Held(q)
<1> DEFINE s == [q EXCEPT ![k] = it]
<1>1. /\ s \in Seq(Item) /\ Len(s) = Len(q) /\ DOMAIN s = DOMAIN q
      /\ s[k] = it
      /\ \A i \in DOMAIN q : i # k => s[i] = q[i]
  OBVIOUS
<1> HIDE DEF s
<1>2. q[k].waiters \subseteq Held(q)
  BY DEF Held
<1>3. \A i \in DOMAIN q : i # k => /\ q[i].waiters \cap it.waiters = {}
                                   /\ q[i].waiters \cap q[k].waiters = {}
  BY DEF Held, Apart
<1>4. Held(s) = (Held(q) \ q[k].waiters) \cup it.waiters
  BY <1>1, <1>3 DEF Held
<1>5. Apart(s)
  BY <1>1, <1>3 DEF Apart
<1>6. Owned(s)
  BY <1>1 DEF Owned
<1>7. QED
  BY <1>1, <1>2, <1>4, <1>5, <1>6 DEF s

\* outbox.shift(): the rest stays in order.
LEMMA OutboxTail ==
    ASSUME NEW s \in Seq(Calls), s # <<>>, Rising(s)
    PROVE  /\ Tail(s) \in Seq(Calls) /\ Rising(Tail(s))
           /\ Len(Tail(s)) = Len(s) - 1
           /\ Range(Tail(s)) = Range(s) \ {Head(s)}
<1>0. Range(s) = {Head(s)} \cup Range(Tail(s))
  BY RangeHeadTail
<1> DEFINE t == Tail(s)
           h == Head(s)
<1>1. /\ t \in Seq(Calls) /\ h = s[1] /\ 1 \in DOMAIN s
      /\ Len(t) = Len(s) - 1
      /\ \A i \in DOMAIN t : i + 1 \in DOMAIN s /\ 1 < i + 1 /\ t[i] = s[i + 1]
      /\ \A i, j \in DOMAIN t : i < j => i + 1 < j + 1
      /\ \A i \in DOMAIN s : s[i] \in Calls
  OBVIOUS
<1>1a. \A i \in DOMAIN s : s[i] \in Nat
  BY <1>1, DeliveryAssumption DEF Calls
<1>2. Range(s) = {h} \cup Range(t)
  BY <1>0
<1> HIDE DEF t, h
<1>3. Rising(t)
  <2> SUFFICES ASSUME NEW i \in DOMAIN t, NEW j \in DOMAIN t, i < j
               PROVE  t[i] < t[j]
    BY DEF Rising
  <2>1. s[i + 1] < s[j + 1]
    BY <1>1 DEF Rising
  <2>2. QED
    BY <1>1, <2>1
<1>4. \A i \in DOMAIN t : h < s[i + 1] /\ h \in Nat /\ s[i + 1] \in Nat
  BY <1>1, <1>1a DEF Rising
<1>5. \A i \in DOMAIN t : t[i] # h
  BY <1>1, <1>4
<1>6. h \notin Range(t)
  BY <1>5 DEF Range
<1>7. QED
  BY <1>1, <1>2, <1>3, <1>6 DEF t, h

\* outbox.push() of an event issued after all that it holds.
LEMMA OutboxAppend ==
    ASSUME NEW s \in Seq(Calls), NEW c \in Calls, Rising(s),
           \A d \in Range(s) : d < c
    PROVE  /\ Append(s, c) \in Seq(Calls) /\ Rising(Append(s, c))
           /\ Range(Append(s, c)) = Range(s) \cup {c}
           /\ Len(Append(s, c)) = Len(s) + 1
<1> DEFINE t == Append(s, c)
           n == Len(s) + 1
<1>1. /\ t \in Seq(Calls) /\ Len(t) = n /\ DOMAIN t = 1..n /\ Len(s) \in Nat
      /\ DOMAIN s = 1..Len(s)
      /\ t[n] = c
      /\ \A i \in DOMAIN s : t[i] = s[i] /\ i < n
      /\ \A i \in DOMAIN t : i = n \/ i \in DOMAIN s
  OBVIOUS
<1> HIDE DEF t, n
<1>2. \A i \in DOMAIN s : s[i] < c
  BY DEF Range
<1>3. Rising(t)
  <2> SUFFICES ASSUME NEW i \in DOMAIN t, NEW j \in DOMAIN t, i < j
               PROVE  t[i] < t[j]
    BY DEF Rising
  <2>1. i \in DOMAIN s
    BY <1>1
  <2>2. QED
    BY <1>1, <1>2, <2>1 DEF Rising
<1>4. QED
  BY <1>1, <1>3, RangeAppend DEF t, n

\* An element of a concatenation comes from one of its parts.
LEMMA ConcatElement ==
    ASSUME NEW S, NEW s \in Seq(S), NEW t \in Seq(S), NEW i \in DOMAIN (s \o t)
    PROVE  \/ i \in DOMAIN s /\ (s \o t)[i] = s[i]
           \/ \E j \in DOMAIN t : (s \o t)[i] = t[j]
<1>1. /\ i \in 1..(Len(s) + Len(t)) /\ Len(s) \in Nat /\ Len(t) \in Nat
      /\ DOMAIN s = 1..Len(s) /\ DOMAIN t = 1..Len(t)
  OBVIOUS
<1>2. CASE i <= Len(s)
  BY <1>1, <1>2
<1>3. CASE i > Len(s)
  <2>1. i - Len(s) \in DOMAIN t
    BY <1>1, <1>3
  <2>2. (s \o t)[i] = t[i - Len(s)]
    BY <1>1, <1>3
  <2>3. QED
    BY <2>1, <2>2
<1>4. QED
  BY <1>1, <1>2, <1>3

\* A nonempty set of natural numbers has a least element: the item
\* findIndex returns.
LEMMA Least ==
    ASSUME NEW S \in SUBSET Nat, S # {}
    PROVE  \E x \in S : \A y \in S : x <= y
<1> DEFINE R == OpToRel(<, Nat)
<1>1. IsWellFoundedOn(R, Nat)
  BY NatLessThanWellFounded
<1>2. PICK x \in S : \A y \in S : ~(<<y, x>> \in R)
  BY <1>1, WFMin
<1>3. \A y \in S : y < x => <<y, x>> \in R
  BY DEF OpToRel
<1> HIDE DEF R
<1>4. \A y \in S : ~(y < x)
  BY <1>2, <1>3
<1>5. \A y \in S : x <= y
  BY <1>4
<1>6. QED
  BY <1>5

-----------------------------------------------------------------------------
(* One step of the client: flushing and losing calls                       *)

\* flushCallQueue takes one item, or stops: q, v and w are the queue, the
\* endpoints and what was written when it does.
LEMMA FlushTakes ==
    ASSUME NEW q, QueueOK(q), NEW v \in ViaType, NEW w \in Seq(Calls),
           TypeOK', status' \in StatusType,
           \A c \in Calls : status'[c] = "queued" <=> c \in Held(q),
           \A i \in DOMAIN w : status'[w[i]] \notin
               {"new", "waiting", "granted", "outbox", "queued"},
           FlushFrom(q, v, w)
    PROVE  /\ QueueOK(callQueue') /\ Len(callQueue') <= Len(q)
           /\ flushItem' \in Item \cup {NoItem}
           /\ flushAnswer' \in {"idle", "pending", "rejected"}
           /\ via' \in ViaType /\ written' \in Seq(Calls)
           /\ \A c \in Calls : status'[c] = "queued" <=>
                                   c \in Held(callQueue') \cup Flushing'
           /\ Held(callQueue') \cap Flushing' = {}
           /\ FlushOwned' /\ NotYetWritten'
<1> USE DEF QueueOK
<1>1. CASE ~(state' = "ready" /\ endpoint' # NoEndpoint /\ q # <<>>)
  <2>1. /\ callQueue' = q /\ flushItem' = NoItem /\ flushAnswer' = "idle"
        /\ via' = v /\ written' = w
    BY <1>1 DEF FlushFrom
  <2>2. Flushing' = {}
    BY <2>1 DEF Flushing
  <2>3. FlushOwned'
    BY <2>1 DEF FlushOwned
  <2>4. NotYetWritten'
    BY <2>1 DEF NotYetWritten
  <2>5. Len(callQueue') <= Len(q)
    BY <2>1
  <2>6. QED
    BY <2>1, <2>2, <2>3, <2>4, <2>5
<1>2. CASE state' = "ready" /\ endpoint' # NoEndpoint /\ q # <<>>
  <2> DEFINE h == Head(q)
             t == Tail(q)
  <2>1. /\ callQueue' = t /\ flushItem' = h
        /\ via' = [v EXCEPT ![h.call] = endpoint']
        /\ \/ flushAnswer' = "pending" /\ written' = Append(w, h.call)
           \/ flushAnswer' = "rejected" /\ written' = w
    BY <1>2 DEF FlushFrom
  <2>2. /\ t \in Seq(Item) /\ Apart(t) /\ Owned(t) /\ Len(t) = Len(q) - 1
        /\ Held(q) = h.waiters \cup Held(t)
        /\ h.waiters \cap Held(t) = {}
        /\ h \in Item /\ h.call \in h.waiters
    BY <1>2, QueueTail
  <2>3. h.call \in Calls /\ h.waiters \in SUBSET Calls
    BY <2>2 DEF Item
  <2> HIDE DEF h, t
  <2>4. Flushing' = h.waiters
    BY <2>1 DEF Flushing
  <2>5. Len(t) <= Len(q)
    BY <2>2
  <2>6. via' \in ViaType
    BY <2>1, <2>3 DEF ViaType, TypeOK
  <2>7. written' \in Seq(Calls)
    BY <2>1, <2>3, SMTT(30)
  <2>8. FlushOwned'
    BY <2>1, <2>2 DEF FlushOwned
  <2>9. NotYetWritten'
    <3>1. status'[h.call] = "queued"
      BY <2>2, <2>3
    <3>2. CASE written' = w
      BY <3>2 DEF NotYetWritten
    <3>3. CASE written' = Append(w, h.call)
      <4> SUFFICES ASSUME NEW i \in DOMAIN written'
                   PROVE  /\ status'[written'[i]] \notin
                               {"new", "waiting", "granted", "outbox"}
                          /\ status'[written'[i]] = "queued" =>
                                flushAnswer' # "idle" /\ written'[i] = flushItem'.call
        BY DEF NotYetWritten
      <4>1. written'[i] = h.call \/ (i \in DOMAIN w /\ written'[i] = w[i])
        BY <3>3, <2>3
      <4>2. QED
        BY <4>1, <3>1, <2>1
    <3>4. QED
      BY <3>2, <3>3, <2>1
  <2>10. QED
    BY <2>1, <2>2, <2>3, <2>4, <2>5, <2>6, <2>7, <2>8, <2>9
<1>3. QED
  BY <1>1, <1>2

\* The flush loop continues: the callers of its item are settled and leave
\* it, the next item comes from the queue.
LEMMA FlushResumesInv ==
    ASSUME CallsInv, TypeOK', FlushResumes
    PROVE  CallsInv'
<1>1. /\ DeliveryTypeOK /\ NotYetWritten /\ IssuedInOrder /\ FlushOwned
      /\ \A c \in Calls : status[c] = "queued" <=>
                              c \in Held(callQueue) \cup Flushing
      /\ Held(callQueue) \cap Flushing = {}
      /\ QueueOK(callQueue)
      /\ Range(eventOutbox) = {c \in Calls : status[c] = "outbox"}
      /\ Rising(eventOutbox)
  BY DEF CallsInv
<1>2. /\ flushAnswer \in {"resolved", "rejected"}
      /\ UNCHANGED <<vars, queueOptions, key, eventOutbox>>
      /\ status' = [c \in Calls |->
                     IF c \in flushItem.waiters THEN flushAnswer ELSE status[c]]
      /\ FlushFrom(callQueue, via, written)
  BY DEF FlushResumes
<1>3. Flushing = flushItem.waiters
  BY <1>2 DEF Flushing
<1>4. /\ via \in ViaType /\ written \in Seq(Calls) /\ status \in StatusType
      /\ Len(callQueue) <= Bound(queueOptions.maxSize)
      /\ DOMAIN key = Calls /\ queueOptions \in QueueOptions
      /\ eventOutbox \in Seq(Calls)
      /\ Len(eventOutbox) <= Bound(queueOptions.outboxSize)
  BY <1>1 DEF DeliveryTypeOK, ViaType, StatusType
<1>5. status' \in StatusType
  BY <1>2, <1>4 DEF StatusType, Settled
<1>6. \A c \in Calls : status'[c] = "queued" <=> c \in Held(callQueue)
  BY <1>1, <1>2, <1>3
<1>7. \A i \in DOMAIN written : status'[written[i]] \notin
               {"new", "waiting", "granted", "outbox", "queued"}
  <2> SUFFICES ASSUME NEW i \in DOMAIN written
               PROVE  status'[written[i]] \notin
               {"new", "waiting", "granted", "outbox", "queued"}
    OBVIOUS
  <2>1. written[i] \in Calls
    BY <1>4
  <2>2. flushItem.call \in flushItem.waiters
    BY <1>1, <1>2 DEF FlushOwned
  <2>3. QED
    BY <1>1, <1>2, <2>1, <2>2 DEF NotYetWritten
<1>8. /\ QueueOK(callQueue') /\ Len(callQueue') <= Len(callQueue)
      /\ flushItem' \in Item \cup {NoItem}
      /\ flushAnswer' \in {"idle", "pending", "rejected"}
      /\ via' \in ViaType /\ written' \in Seq(Calls)
      /\ \A c \in Calls : status'[c] = "queued" <=>
                              c \in Held(callQueue') \cup Flushing'
      /\ Held(callQueue') \cap Flushing' = {}
      /\ FlushOwned' /\ NotYetWritten'
  BY <1>1, <1>2, <1>4, <1>5, <1>6, <1>7, FlushTakes
<1>9. callQueue \in Seq(Item) /\ callQueue' \in Seq(Item)
  BY <1>1, <1>8 DEF QueueOK
<1>10. Len(callQueue') <= Bound(queueOptions'.maxSize)
  BY <1>2, <1>4, <1>8, <1>9, DeliveryAssumption DEF Bound
<1>11. DeliveryTypeOK'
  BY <1>2, <1>4, <1>5, <1>8, <1>9, <1>10 DEF DeliveryTypeOK, ViaType, StatusType
<1>12. IssuedInOrder' /\ {c \in Calls : status'[c] = "outbox"}
                           = {c \in Calls : status[c] = "outbox"}
  <2>1. \A c \in Flushing : c \in Calls => status[c] = "queued"
    BY <1>1
  <2>2. \A c \in Calls : /\ status'[c] = "new" <=> status[c] = "new"
                         /\ status'[c] = "outbox" <=> status[c] = "outbox"
    BY <1>2, <1>3, <2>1
  <2>3. QED
    BY <1>1, <2>2 DEF IssuedInOrder
<1>13. Range(eventOutbox)' = {c \in Calls : status[c] = "outbox"}' /\ Rising(eventOutbox')
  BY <1>1, <1>2, <1>12
<1>14. QED
  BY <1>8, <1>11, <1>12, <1>13 DEF CallsInv

\* Closing an endpoint or the client: all queued callers and events are
\* rejected together with the queue and the outbox, or none.
LEMMA LoseCallsInv ==
    ASSUME CallsInv, TypeOK', NEW r \in BOOLEAN, LoseCalls(r),
           UNCHANGED <<queueOptions, key>>
    PROVE  CallsInv'
<1> USE DEF LoseCalls
<1>0. /\ DeliveryTypeOK /\ NotYetWritten /\ IssuedInOrder /\ FlushOwned
      /\ \A c \in Calls : status[c] = "queued" <=>
                              c \in Held(callQueue) \cup Flushing
      /\ Held(callQueue) \cap Flushing = {}
      /\ QueueOK(callQueue)
      /\ Range(eventOutbox) = {c \in Calls : status[c] = "outbox"}
      /\ Rising(eventOutbox)
  BY DEF CallsInv
<1>0a. /\ status \in StatusType
       /\ flushAnswer \in {"idle", "pending", "resolved", "rejected"}
  BY <1>0 DEF DeliveryTypeOK, StatusType
<1>1. DeliveryTypeOK'
  <2> USE <1>0 DEF DeliveryTypeOK
  <2>1. status' \in [Calls -> {"new", "waiting", "granted", "queued", "inflight",
                              "outbox"} \cup Settled]
    BY DEF Settled
  <2>2. callQueue' \in Seq(Item) /\ Len(callQueue') <= Len(callQueue)
    OBVIOUS
  <2>3. eventOutbox' \in Seq(Calls) /\ Len(eventOutbox') <= Len(eventOutbox)
    OBVIOUS
  <2>4. flushAnswer' \in {"idle", "pending", "resolved", "rejected"}
    OBVIOUS
  <2>5. /\ Len(callQueue') <= Bound(queueOptions'.maxSize)
        /\ Len(eventOutbox') <= Bound(queueOptions'.outboxSize)
    BY <2>2, <2>3, DeliveryAssumption DEF Bound
  <2>6. QED
    BY <2>1, <2>2, <2>3, <2>4, <2>5
<1>2. QueueWaiters = Held(callQueue)
  BY DEF QueueWaiters, Held
<1>3. flushItem' = flushItem /\ (flushAnswer' = "idle" <=> flushAnswer = "idle")
  BY <1>0a
<1>4. Flushing' = Flushing /\ FlushOwned'
  BY <1>0, <1>3 DEF FlushOwned, Flushing
<1>5. /\ QueueOK(callQueue')
      /\ \A c \in Calls :
            status'[c] = "queued" <=> c \in Held(callQueue') \cup Flushing'
      /\ Held(callQueue') \cap Flushing' = {}
      /\ Range(eventOutbox') = {c \in Calls : status'[c] = "outbox"}
      /\ Rising(eventOutbox')
  <2>1. CASE r = FALSE
    <3>1. callQueue' = callQueue /\ eventOutbox' = eventOutbox
      BY <2>1
    <3>2. \A c \in Calls : /\ status'[c] = "queued" <=> status[c] = "queued"
                           /\ status'[c] = "outbox" <=> status[c] = "outbox"
      BY <2>1, <1>0a DEF StatusType
    <3>3. {c \in Calls : status'[c] = "outbox"} = {c \in Calls : status[c] = "outbox"}
      BY <3>2
    <3>4. QED
      BY <1>0, <1>4, <3>1, <3>2, <3>3
  <2>2. CASE r = TRUE
    <3>1. callQueue' = <<>> /\ eventOutbox' = <<>>
      BY <2>2
    <3>2. QueueOK(<<>>) /\ Held(<<>>) = {} /\ Range(<<>>) = {} /\ Rising(<<>>)
      BY DEF QueueOK, Held, Range, Rising, Apart, Owned
    <3>3. \A c \in Calls : /\ status'[c] = "queued" <=>
                                status[c] = "queued" /\ c \notin Held(callQueue)
                           /\ status'[c] # "outbox"
      BY <2>2, <1>0a, <1>2 DEF StatusType
    <3>4. {c \in Calls : status'[c] = "outbox"} = {}
      BY <3>3
    <3>5. QED
      BY <1>0, <1>4, <3>1, <3>2, <3>3, <3>4
  <2>3. QED
    BY <2>1, <2>2
<1>6. NotYetWritten'
  <2> SUFFICES ASSUME NEW i \in DOMAIN written
               PROVE  /\ status'[written[i]]
                             \notin {"new", "waiting", "granted", "outbox"}
                      /\ status'[written[i]] = "queued" =>
                            flushAnswer' # "idle" /\ written[i] = flushItem.call
    BY DEF NotYetWritten
  <2>1. written[i] \in Calls
    BY <1>0 DEF DeliveryTypeOK
  <2>2. QED
    BY <2>1, <1>0, <1>0a, <1>3 DEF NotYetWritten
<1>7. IssuedInOrder'
  <2>0. \A c \in Held(callQueue) : c \in Calls => status[c] = "queued"
    BY <1>0
  <2>1. \A c \in Calls : status'[c] = "new" <=> status[c] = "new"
    BY <1>0a, <1>2, <2>0 DEF StatusType
  <2>2. QED
    BY <1>0, <2>1 DEF IssuedInOrder
<1>8. QED
  BY <1>1, <1>4, <1>5, <1>6, <1>7 DEF CallsInv

\* An endpoint becomes ready or connect() resumes: wait-ready calls are
\* granted, the outbox is sent, the flush loop starts.
LEMMA GrantAndFlushInv ==
    ASSUME CallsInv, TypeOK', NEW emitted \in BOOLEAN, GrantAndFlush(emitted),
           UNCHANGED <<queueOptions, key>>
    PROVE  CallsInv'
<1> DEFINE got == {c \in Calls : status[c] = "waiting" /\ emitted /\ Usable'}
           v == [c \in Calls |-> IF c \in got THEN endpoint' ELSE via[c]]
           sends == Flushed # {} /\ lifecycle'[endpoint'] = "ready"
           w == IF sends THEN written \o eventOutbox ELSE written
<1>1. /\ DeliveryTypeOK /\ NotYetWritten /\ IssuedInOrder /\ FlushOwned
      /\ \A c \in Calls : status[c] = "queued" <=>
                              c \in Held(callQueue) \cup Flushing
      /\ Held(callQueue) \cap Flushing = {}
      /\ QueueOK(callQueue)
      /\ Range(eventOutbox) = {c \in Calls : status[c] = "outbox"}
      /\ Rising(eventOutbox)
  BY DEF CallsInv
<1>2. /\ status' = [c \in Calls |->
                        IF c \in got THEN "granted"
                        ELSE IF c \notin Flushed THEN status[c]
                        ELSE IF sends THEN "resolved" ELSE "rejected"]
      /\ eventOutbox' = IF Usable' THEN <<>> ELSE eventOutbox
      /\ \/ flushAnswer = "idle" /\ FlushFrom(callQueue, v, w)
         \/ /\ flushAnswer # "idle"
            /\ via' = v /\ written' = w
            /\ UNCHANGED <<callQueue, flushItem, flushAnswer>>
  BY DEF GrantAndFlush
<1>3. /\ via \in ViaType /\ written \in Seq(Calls) /\ status \in StatusType
      /\ callQueue \in Seq(Item)
      /\ Len(callQueue) <= Bound(queueOptions.maxSize)
      /\ DOMAIN key = Calls /\ queueOptions \in QueueOptions
      /\ eventOutbox \in Seq(Calls)
      /\ Len(eventOutbox) <= Bound(queueOptions.outboxSize)
      /\ flushItem \in Item \cup {NoItem}
      /\ flushAnswer \in {"idle", "pending", "resolved", "rejected"}
  BY <1>1 DEF DeliveryTypeOK, ViaType, StatusType
<1>4. \A c \in Flushed : c \in Calls /\ status[c] = "outbox"
  BY <1>1 DEF Flushed
<1>5. \A c \in got : status[c] = "waiting" /\ Usable'
  OBVIOUS
<1>6. Usable' => state' = "ready" /\ endpoint' \in Endpoints
  BY DEF Usable, TypeOK
<1>7. v \in ViaType
  BY <1>3, <1>5, <1>6 DEF ViaType
<1>8. w \in Seq(Calls)
  BY <1>3
<1> HIDE DEF got, v, sends
<1>9. status' \in StatusType
  BY <1>2, <1>3 DEF StatusType, Settled
<1>10. \A c \in Calls : /\ status'[c] = "queued" <=> status[c] = "queued"
                        /\ status'[c] = "new" <=> status[c] = "new"
                        /\ status'[c] = "outbox" <=>
                              status[c] = "outbox" /\ c \notin Flushed
  BY <1>2, <1>4, <1>5
<1>11. \A i \in DOMAIN w :
          /\ status'[w[i]] \notin {"new", "waiting", "granted", "outbox"}
          /\ status'[w[i]] = "queued" =>
                flushAnswer # "idle" /\ w[i] = flushItem.call
  <2>1. ASSUME NEW i \in DOMAIN written
        PROVE  /\ status'[written[i]] \notin {"new", "waiting", "granted", "outbox"}
               /\ status'[written[i]] = "queued" =>
                     flushAnswer # "idle" /\ written[i] = flushItem.call
    <3>1. written[i] \in Calls
      BY <1>3
    <3>2. status[written[i]] \notin {"new", "waiting", "granted", "outbox"}
      BY <1>1 DEF NotYetWritten
    <3>3. written[i] \notin got /\ written[i] \notin Flushed
      BY <3>2, <1>4, <1>5
    <3>4. status'[written[i]] = status[written[i]]
      BY <3>1, <3>3, <1>2
    <3>5. QED
      BY <3>4, <1>1 DEF NotYetWritten
  <2>2. CASE ~sends
    BY <2>1, <2>2
  <2>3. CASE sends
    <3>1. w = written \o eventOutbox
      BY <2>3
    <3>2. Usable' /\ Flushed = Range(eventOutbox)
      BY <2>3 DEF sends, Flushed
    <3>3. ASSUME NEW j \in DOMAIN eventOutbox
          PROVE  status'[eventOutbox[j]] = "resolved"
      <4>1. eventOutbox[j] \in Flushed
        BY <3>2 DEF Range
      <4>2. eventOutbox[j] \in Calls /\ eventOutbox[j] \notin got
        BY <4>1, <1>4, <1>5
      <4>3. QED
        BY <4>1, <4>2, <1>2, <2>3
    <3>4. ASSUME NEW i \in DOMAIN w
          PROVE  \/ i \in DOMAIN written /\ w[i] = written[i]
                 \/ \E j \in DOMAIN eventOutbox : w[i] = eventOutbox[j]
      BY <3>1, <1>3, ConcatElement
    <3> HIDE DEF w
    <3>5. ASSUME NEW i \in DOMAIN w
          PROVE  /\ status'[w[i]] \notin {"new", "waiting", "granted", "outbox"}
                 /\ status'[w[i]] = "queued" =>
                       flushAnswer # "idle" /\ w[i] = flushItem.call
      <4>1. CASE i \in DOMAIN written /\ w[i] = written[i]
        BY <4>1, <2>1
      <4>2. ASSUME NEW j \in DOMAIN eventOutbox, w[i] = eventOutbox[j]
            PROVE  status'[w[i]] = "resolved"
        BY <4>2, <3>3
      <4>3. QED
        BY <4>1, <4>2, <3>4
    <3>6. QED
      BY <3>5
  <2>4. QED
    BY <2>2, <2>3
<1> HIDE DEF w
<1>12. /\ Range(eventOutbox') = {c \in Calls : status'[c] = "outbox"}
       /\ Rising(eventOutbox')
       /\ eventOutbox' \in Seq(Calls) /\ Len(eventOutbox') <= Len(eventOutbox)
  <2>1. CASE Usable'
    <3>1. eventOutbox' = <<>> /\ Flushed = Range(eventOutbox)
      BY <2>1, <1>2 DEF Flushed
    <3>2. Range(<<>>) = {} /\ Rising(<<>>) /\ <<>> \in Seq(Calls) /\ Len(<<>>) = 0
      BY DEF Range, Rising
    <3>3. \A c \in Calls : status'[c] # "outbox"
      BY <1>1, <1>10, <3>1
    <3>4. Len(eventOutbox) \in Nat
      BY <1>3
    <3>5. QED
      BY <3>1, <3>2, <3>3, <3>4
  <2>2. CASE ~Usable'
    <3>1. eventOutbox' = eventOutbox /\ Flushed = {}
      BY <2>2, <1>2 DEF Flushed
    <3>2. {c \in Calls : status'[c] = "outbox"} = {c \in Calls : status[c] = "outbox"}
      BY <1>10, <3>1
    <3>3. QED
      BY <1>1, <1>3, <3>1, <3>2
  <2>3. QED
    BY <2>1, <2>2
<1>13. IssuedInOrder'
  BY <1>1, <1>10 DEF IssuedInOrder
<1>14. /\ QueueOK(callQueue') /\ Len(callQueue') <= Len(callQueue)
       /\ flushItem' \in Item \cup {NoItem}
       /\ flushAnswer' \in {"idle", "pending", "resolved", "rejected"}
       /\ via' \in ViaType /\ written' \in Seq(Calls)
       /\ \A c \in Calls : status'[c] = "queued" <=>
                               c \in Held(callQueue') \cup Flushing'
       /\ Held(callQueue') \cap Flushing' = {}
       /\ FlushOwned' /\ NotYetWritten'
  <2>1. CASE flushAnswer = "idle"
    <3>1. FlushFrom(callQueue, v, w)
      BY <2>1, <1>2
    <3>2. Flushing = {}
      BY <2>1 DEF Flushing
    <3>3. \A c \in Calls : status'[c] = "queued" <=> c \in Held(callQueue)
      BY <1>1, <1>10, <3>2
    <3>4. \A i \in DOMAIN w : status'[w[i]] \notin
               {"new", "waiting", "granted", "outbox", "queued"}
      BY <1>11, <2>1
    <3>5. QED
      BY <1>1, <1>7, <1>8, <1>9, <3>1, <3>3, <3>4, FlushTakes
  <2>2. CASE flushAnswer # "idle"
    <3>1. /\ via' = v /\ written' = w
          /\ UNCHANGED <<callQueue, flushItem, flushAnswer>>
      BY <2>2, <1>2
    <3>2. Flushing' = Flushing /\ FlushOwned'
      BY <1>1, <3>1 DEF Flushing, FlushOwned
    <3>3. NotYetWritten'
      BY <1>11, <3>1 DEF NotYetWritten
    <3>4. Len(callQueue') <= Len(callQueue)
      BY <1>3, <3>1
    <3>5. QED
      BY <1>1, <1>3, <1>7, <1>8, <1>10, <3>1, <3>2, <3>3, <3>4
  <2>3. QED
    BY <2>1, <2>2
<1>15. /\ Len(callQueue') <= Bound(queueOptions'.maxSize)
       /\ Len(eventOutbox') <= Bound(queueOptions'.outboxSize)
  <2>1. callQueue' \in Seq(Item)
    BY <1>14 DEF QueueOK
  <2>2. /\ Len(callQueue') \in Nat /\ Len(callQueue) \in Nat
        /\ Len(eventOutbox') \in Nat /\ Len(eventOutbox) \in Nat
    BY <1>3, <1>12, <2>1
  <2>3. /\ Bound(queueOptions.maxSize) \in Nat
        /\ Bound(queueOptions.outboxSize) \in Nat
    BY <1>3, DeliveryAssumption DEF Bound
  <2>4. QED
    BY <1>3, <1>12, <1>14, <2>2, <2>3
<1>16. DeliveryTypeOK'
  BY <1>3, <1>9, <1>12, <1>14, <1>15
     DEF DeliveryTypeOK, ViaType, StatusType, QueueOK
<1>17. QED
  BY <1>12, <1>13, <1>14, <1>16 DEF CallsInv

-----------------------------------------------------------------------------
(* One step of the client: issuing calls and events                        *)

\* The facts of CallsInv the lemmas below start from.
LEMMA CallsFacts ==
    ASSUME CallsInv
    PROVE  /\ \A c \in Calls : status[c] = "queued" <=>
                                  c \in Held(callQueue) \cup Flushing
           /\ Held(callQueue) \cap Flushing = {}
           /\ QueueOK(callQueue) /\ FlushOwned
           /\ Range(eventOutbox) = {c \in Calls : status[c] = "outbox"}
           /\ Rising(eventOutbox) /\ NotYetWritten /\ IssuedInOrder
           /\ TypeOK /\ queueOptions \in QueueOptions /\ DOMAIN key = Calls
           /\ status \in StatusType /\ via \in ViaType /\ written \in Seq(Calls)
           /\ callQueue \in Seq(Item)
           /\ Len(callQueue) <= Bound(queueOptions.maxSize)
           /\ eventOutbox \in Seq(Calls)
           /\ Len(eventOutbox) <= Bound(queueOptions.outboxSize)
           /\ flushItem \in Item \cup {NoItem}
           /\ flushAnswer \in {"idle", "pending", "resolved", "rejected"}
BY DEF CallsInv, DeliveryTypeOK, StatusType, ViaType

\* Everything before c has been issued.
Earlier(c) == \A d \in 1..(c - 1) : status[d] # "new"

\* A step that moves one call or event between states no queue holds.
LEMMA StatusChange ==
    ASSUME CallsInv, TypeOK',
           NEW c \in Calls, NEW s \in {"waiting", "granted", "inflight"} \cup Settled,
           status[c] \in {"new", "granted", "inflight"},
           status[c] = "new" => Earlier(c),
           status[c] # "new" => s \notin {"waiting", "granted"},
           status' = [status EXCEPT ![c] = s],
           queueOptions' = queueOptions, DOMAIN key' = Calls, via' \in ViaType,
           UNCHANGED <<callQueue, flushItem, flushAnswer, eventOutbox>>,
           \/ written' = written
           \/ s \notin {"waiting", "granted"} /\ written' = Append(written, c)
    PROVE  CallsInv'
<1>1. /\ \A d \in Calls : status[d] = "queued" <=>
                             d \in Held(callQueue) \cup Flushing
      /\ Held(callQueue) \cap Flushing = {}
      /\ QueueOK(callQueue) /\ FlushOwned
      /\ Range(eventOutbox) = {d \in Calls : status[d] = "outbox"}
      /\ Rising(eventOutbox) /\ NotYetWritten /\ IssuedInOrder
      /\ TypeOK /\ queueOptions \in QueueOptions /\ DOMAIN key = Calls
      /\ status \in StatusType /\ via \in ViaType /\ written \in Seq(Calls)
      /\ callQueue \in Seq(Item)
      /\ Len(callQueue) <= Bound(queueOptions.maxSize)
      /\ eventOutbox \in Seq(Calls)
      /\ Len(eventOutbox) <= Bound(queueOptions.outboxSize)
      /\ flushItem \in Item \cup {NoItem}
      /\ flushAnswer \in {"idle", "pending", "resolved", "rejected"}
  BY CallsFacts
<1>2. /\ status'[c] = s
      /\ \A d \in Calls : d # c => status'[d] = status[d]
      /\ status' \in StatusType
  BY <1>1 DEF StatusType, Settled
<1>3. \A d \in Calls : /\ status'[d] = "queued" <=> status[d] = "queued"
                       /\ status'[d] = "outbox" <=> status[d] = "outbox"
                       /\ status'[d] = "new" <=> status[d] = "new" /\ d # c
  BY <1>2 DEF Settled
<1>4. {d \in Calls : status'[d] = "outbox"} = {d \in Calls : status[d] = "outbox"}
  BY <1>3
<1>5. Flushing' = Flushing /\ FlushOwned'
  BY <1>1 DEF Flushing, FlushOwned
<1>6. DeliveryTypeOK'
  <2>0. written \in Seq(Calls)
    BY <1>1
  <2>1. written' \in Seq(Calls)
    <3>1. Append(written, c) \in Seq(Calls)
      BY <2>0
    <3>2. QED
      BY <2>0, <3>1
  <2>1a. callQueue' = callQueue /\ eventOutbox' = eventOutbox
    OBVIOUS
  <2>2. /\ Len(callQueue') <= Bound(queueOptions'.maxSize)
        /\ Len(eventOutbox') <= Bound(queueOptions'.outboxSize)
    BY <1>1, <2>1a, Zenon
  <2>3. /\ flushItem' \in Item \cup {NoItem}
        /\ flushAnswer' \in {"idle", "pending", "resolved", "rejected"}
        /\ callQueue' \in Seq(Item) /\ eventOutbox' \in Seq(Calls)
        /\ queueOptions' \in QueueOptions
    BY <1>1
  <2>4. QED
    BY <1>2, <2>1, <2>2, <2>3 DEF DeliveryTypeOK, StatusType, ViaType
<1>7. NotYetWritten'
  <2>1. ASSUME NEW i \in DOMAIN written
        PROVE  /\ status'[written[i]] \notin {"new", "waiting", "granted", "outbox"}
               /\ status'[written[i]] = "queued" =>
                     flushAnswer # "idle" /\ written[i] = flushItem.call
    <3>1. written[i] \in Calls
      BY <1>1
    <3>2. /\ status[written[i]] \notin {"new", "waiting", "granted", "outbox"}
          /\ status[written[i]] = "queued" =>
                     flushAnswer # "idle" /\ written[i] = flushItem.call
      BY <1>1 DEF NotYetWritten
    <3>3. CASE written[i] = c
      BY <3>2, <3>3, <1>2 DEF Settled
    <3>4. CASE written[i] # c
      BY <3>1, <3>2, <3>4, <1>2
    <3>5. QED
      BY <3>3, <3>4
  <2>2. CASE written' = written
    BY <2>1, <2>2 DEF NotYetWritten
  <2>3. CASE s \notin {"waiting", "granted"} /\ written' = Append(written, c)
    <3> SUFFICES ASSUME NEW i \in DOMAIN written'
                 PROVE  /\ status'[written'[i]]
                              \notin {"new", "waiting", "granted", "outbox"}
                        /\ status'[written'[i]] = "queued" =>
                              flushAnswer' # "idle" /\ written'[i] = flushItem'.call
      BY DEF NotYetWritten
    <3>1. written'[i] = c \/ (i \in DOMAIN written /\ written'[i] = written[i])
      BY <2>3, <1>1
    <3>2. CASE written'[i] = c
      BY <3>2, <1>2, <2>3 DEF Settled
    <3>3. CASE i \in DOMAIN written /\ written'[i] = written[i]
      BY <3>3, <2>1
    <3>4. QED
      BY <3>1, <3>2, <3>3
  <2>4. QED
    BY <2>2, <2>3
<1>8. IssuedInOrder'
  <2> SUFFICES ASSUME NEW a \in Calls, NEW b \in Calls, a < b, status'[a] = "new"
               PROVE  status'[b] = "new"
    BY DEF IssuedInOrder
  <2>1. status[a] = "new" /\ status[b] = "new"
    BY <1>1, <1>3 DEF IssuedInOrder
  <2>2. b # c
    <3>1. SUFFICES ASSUME b = c PROVE FALSE
      OBVIOUS
    <3>2. a \in 1..(c - 1)
      BY <3>1, DeliveryAssumption DEF Calls
    <3>3. QED
      BY <2>1, <3>1, <3>2 DEF Earlier
  <2>3. QED
    BY <1>3, <2>1, <2>2
<1>9. QED
  BY <1>1, <1>3, <1>4, <1>5, <1>6, <1>7, <1>8 DEF CallsInv

\* A step that puts call c into the queue, settling callers the queue held.
LEMMA QueueChange ==
    ASSUME CallsInv, TypeOK',
           NEW c \in Calls, status[c] = "new", Earlier(c),
           DOMAIN status' = Calls, status'[c] = "queued",
           \A d \in Calls : d # c => \/ status'[d] = status[d]
                                     \/ status[d] = "queued" /\ status'[d] \in Settled,
           status' \in StatusType,
           \A d \in Calls : status'[d] = "queued" <=>
                               d \in Held(callQueue') \cup Flushing,
           Held(callQueue') \cap Flushing = {},
           QueueOK(callQueue'), Len(callQueue') <= Bound(queueOptions.maxSize),
           queueOptions' = queueOptions, DOMAIN key' = Calls,
           UNCHANGED <<via, flushItem, flushAnswer, eventOutbox, written>>
    PROVE  CallsInv'
<1>1. /\ \A d \in Calls : status[d] = "queued" <=>
                             d \in Held(callQueue) \cup Flushing
      /\ Held(callQueue) \cap Flushing = {}
      /\ QueueOK(callQueue) /\ FlushOwned
      /\ Range(eventOutbox) = {d \in Calls : status[d] = "outbox"}
      /\ Rising(eventOutbox) /\ NotYetWritten /\ IssuedInOrder
      /\ TypeOK /\ queueOptions \in QueueOptions /\ DOMAIN key = Calls
      /\ status \in StatusType /\ via \in ViaType /\ written \in Seq(Calls)
      /\ callQueue \in Seq(Item)
      /\ Len(callQueue) <= Bound(queueOptions.maxSize)
      /\ eventOutbox \in Seq(Calls)
      /\ Len(eventOutbox) <= Bound(queueOptions.outboxSize)
      /\ flushItem \in Item \cup {NoItem}
      /\ flushAnswer \in {"idle", "pending", "resolved", "rejected"}
  BY CallsFacts
<1>2. \A d \in Calls : /\ status'[d] = "outbox" <=> status[d] = "outbox"
                       /\ status'[d] = "new" <=> status[d] = "new" /\ d # c
  BY DEF Settled
<1>3. {d \in Calls : status'[d] = "outbox"} = {d \in Calls : status[d] = "outbox"}
  BY <1>2
<1>4. Flushing' = Flushing /\ FlushOwned'
  BY <1>1 DEF Flushing, FlushOwned
<1>5. DeliveryTypeOK'
  BY <1>1 DEF DeliveryTypeOK, StatusType, ViaType, QueueOK
<1>6. NotYetWritten'
  <2> SUFFICES ASSUME NEW i \in DOMAIN written
               PROVE  /\ status'[written[i]]
                            \notin {"new", "waiting", "granted", "outbox"}
                      /\ status'[written[i]] = "queued" =>
                            flushAnswer # "idle" /\ written[i] = flushItem.call
    BY DEF NotYetWritten
  <2>1. written[i] \in Calls
    BY <1>1
  <2>2. /\ status[written[i]] \notin {"new", "waiting", "granted", "outbox"}
        /\ status[written[i]] = "queued" =>
                  flushAnswer # "idle" /\ written[i] = flushItem.call
    BY <1>1 DEF NotYetWritten
  <2>3. QED
    BY <2>1, <2>2 DEF Settled
<1>7. IssuedInOrder'
  <2> SUFFICES ASSUME NEW a \in Calls, NEW b \in Calls, a < b, status'[a] = "new"
               PROVE  status'[b] = "new"
    BY DEF IssuedInOrder
  <2>1. status[a] = "new" /\ status[b] = "new"
    BY <1>1, <1>2 DEF IssuedInOrder
  <2>2. b # c
    <3>1. SUFFICES ASSUME b = c PROVE FALSE
      OBVIOUS
    <3>2. a \in 1..(c - 1)
      BY <3>1, DeliveryAssumption DEF Calls
    <3>3. QED
      BY <2>1, <3>1, <3>2 DEF Earlier
  <2>3. QED
    BY <1>2, <2>1, <2>2
<1>8. QED
  BY <1>1, <1>3, <1>4, <1>5, <1>6, <1>7 DEF CallsInv

\* The steps below leave the life cycle alone, so that its type stays.
LEMMA TypeKept == ASSUME TypeOK, UNCHANGED vars PROVE TypeOK'
BY DEF TypeOK, vars, coordVars

\* The application issues its calls and events in order.
LEMMA UpcomingEarlier ==
    ASSUME NEW c \in Calls, Upcoming(c)
    PROVE  status[c] = "new" /\ Earlier(c) /\ UNCHANGED vars /\ UNCHANGED queueOptions
BY DEF Upcoming, Earlier

\* Writing a call that is new or granted.
LEMMA WriteInv ==
    ASSUME CallsInv, TypeOK', NEW c \in Calls, NEW e \in Endpoints \cup {NoEndpoint},
           status[c] \in {"new", "granted"}, status[c] = "new" => Earlier(c),
           Write(c, e), queueOptions' = queueOptions, DOMAIN key' = Calls
    PROVE  CallsInv'
<1>1. via \in ViaType
  BY CallsFacts
<1>2. via' \in ViaType
  BY <1>1 DEF Write, ViaType
<1>3. PICK s \in {"inflight", "rejected"} :
        /\ status' = [status EXCEPT ![c] = s]
        /\ written' = written \/ written' = Append(written, c)
  BY DEF Write
<1>4. UNCHANGED <<callQueue, flushItem, flushAnswer, eventOutbox>>
  BY DEF Write
<1>5. QED
  BY <1>2, <1>3, <1>4, StatusChange DEF Settled

\* Settling a call that is new or written, or making a new one wait.
LEMMA BecomesInv ==
    ASSUME CallsInv, TypeOK', NEW c \in Calls, NEW s \in {"waiting"} \cup Settled,
           status[c] \in {"new", "inflight"}, status[c] = "new" => Earlier(c),
           status[c] # "new" => s # "waiting",
           Becomes(c, s), queueOptions' = queueOptions, DOMAIN key' = Calls
    PROVE  CallsInv'
<1>1. via \in ViaType
  BY CallsFacts
<1>2. /\ status' = [status EXCEPT ![c] = s]
      /\ via' = via /\ written' = written
      /\ UNCHANGED <<callQueue, flushItem, flushAnswer, eventOutbox>>
  BY DEF Becomes
<1>3. QED
  BY <1>1, <1>2, StatusChange DEF Settled

\* What holds when a call is issued.
LEMMA IssueFacts ==
    ASSUME CallsInv, NEW c \in Calls, NEW o \in CallOptions, Issue(c, o)
    PROVE  /\ status[c] = "new" /\ Earlier(c)
           /\ UNCHANGED vars /\ queueOptions' = queueOptions
           /\ DOMAIN key' = Calls /\ TypeOK'
<1>1. status[c] = "new" /\ Earlier(c) /\ UNCHANGED vars /\ queueOptions' = queueOptions
  BY UpcomingEarlier DEF Issue
<1>2. TypeOK /\ DOMAIN key = Calls
  BY CallsFacts
<1>3. TypeOK'
  BY <1>1, <1>2, TypeKept
<1>4. DOMAIN key' = Calls
  BY <1>2 DEF Issue
<1>5. QED
  BY <1>1, <1>3, <1>4

\* callRaw with "fail-fast", or "queue" on a usable client.
LEMMA DirectInv ==
    ASSUME CallsInv, NEW c \in Calls, NEW o \in CallOptions,
           CallFailFast(c, o) \/ CallQueueDirect(c, o)
    PROVE  CallsInv'
<1>1. Issue(c, o) /\ (Write(c, endpoint) \/ Becomes(c, "rejected"))
  BY DEF CallFailFast, CallQueueDirect
<1>2. /\ status[c] = "new" /\ Earlier(c)
      /\ queueOptions' = queueOptions /\ DOMAIN key' = Calls /\ TypeOK'
  BY <1>1, IssueFacts
<1>3. endpoint \in Endpoints \cup {NoEndpoint}
  BY CallsFacts DEF TypeOK
<1>4. CASE Write(c, endpoint)
  BY <1>2, <1>3, <1>4, WriteInv
<1>5. CASE Becomes(c, "rejected")
  BY <1>2, <1>5, BecomesInv DEF Settled
<1>6. QED
  BY <1>1, <1>4, <1>5

\* callRaw with "wait-ready".
LEMMA WaitReadyInv ==
    ASSUME CallsInv, NEW c \in Calls, NEW o \in CallOptions, CallWaitReady(c, o)
    PROVE  CallsInv'
<1>1. Issue(c, o)
  BY DEF CallWaitReady
<1>2. /\ status[c] = "new" /\ Earlier(c)
      /\ queueOptions' = queueOptions /\ DOMAIN key' = Calls /\ TypeOK'
  BY <1>1, IssueFacts
<1>3. endpoint \in Endpoints \cup {NoEndpoint} /\ via \in ViaType
  BY CallsFacts DEF TypeOK
<1>4. CASE Usable
  <2>1. /\ status' = [status EXCEPT ![c] = "granted"]
        /\ via' = [via EXCEPT ![c] = endpoint] /\ written' = written
        /\ UNCHANGED <<callQueue, flushItem, flushAnswer, eventOutbox>>
    BY <1>4 DEF CallWaitReady
  <2>2. via' \in ViaType
    BY <1>3, <2>1 DEF ViaType
  <2>3. QED
    BY <1>2, <2>1, <2>2, StatusChange
<1>5. CASE ~Usable
  <2>1. PICK s \in {"rejected", "waiting"} : Becomes(c, s)
    BY <1>5 DEF CallWaitReady
  <2>2. QED
    BY <1>2, <2>1, BecomesInv DEF Settled
<1>6. QED
  BY <1>4, <1>5

\* enqueueCall refuses the new call.
LEMMA OverflowsInv ==
    ASSUME CallsInv, NEW c \in Calls, NEW o \in CallOptions, CallOverflows(c, o)
    PROVE  CallsInv'
<1>1. Issue(c, o)
  BY DEF CallOverflows, Enqueues
<1>2. /\ status[c] = "new" /\ Earlier(c)
      /\ queueOptions' = queueOptions /\ DOMAIN key' = Calls /\ TypeOK'
  BY <1>1, IssueFacts
<1>3. PICK s \in {"rejected", "dropped"} : Becomes(c, s)
  BY DEF CallOverflows, Enqueues, Becomes
<1>4. QED
  BY <1>2, <1>3, BecomesInv DEF Settled

\* A written call is answered.
LEMMA AnsweredInv ==
    ASSUME CallsInv, NEW c \in Calls, CallAnswered(c)
    PROVE  CallsInv'
<1>1. /\ status[c] = "inflight" /\ UNCHANGED vars
      /\ queueOptions' = queueOptions /\ key' = key
  BY DEF CallAnswered
<1>2. PICK s \in {"resolved", "rejected"} : Becomes(c, s)
  BY DEF CallAnswered
<1>3. TypeOK /\ DOMAIN key = Calls
  BY CallsFacts
<1>4. TypeOK' /\ DOMAIN key' = Calls
  BY <1>1, <1>3, TypeKept
<1>5. QED
  BY <1>1, <1>2, <1>4, BecomesInv DEF Settled

\* A wait-ready call continues.
LEMMA GrantedInv ==
    ASSUME CallsInv, NEW c \in Calls, GrantedResumes(c)
    PROVE  CallsInv'
<1>1. /\ status[c] = "granted" /\ Write(c, via[c]) /\ UNCHANGED vars
      /\ queueOptions' = queueOptions /\ key' = key
  BY DEF GrantedResumes
<1>2. TypeOK /\ DOMAIN key = Calls /\ via \in ViaType
  BY CallsFacts
<1>3. TypeOK' /\ DOMAIN key' = Calls /\ via[c] \in Endpoints \cup {NoEndpoint}
  BY <1>1, <1>2, TypeKept DEF ViaType
<1>4. QED
  BY <1>1, <1>3, WriteInv

\* The call of the flush loop is answered.
LEMMA FlushAnsweredInv ==
    ASSUME CallsInv, FlushAnswered
    PROVE  CallsInv'
<1>1. /\ flushAnswer = "pending" /\ flushAnswer' \in {"resolved", "rejected"}
      /\ UNCHANGED vars
      /\ queueOptions' = queueOptions /\ key' = key /\ status' = status
      /\ via' = via /\ callQueue' = callQueue /\ flushItem' = flushItem
      /\ eventOutbox' = eventOutbox /\ written' = written
  BY DEF FlushAnswered
<1>2. TypeOK'
  BY <1>1, CallsFacts, TypeKept
<1>3. Flushing' = Flushing
  BY <1>1 DEF Flushing
<1>4. DeliveryTypeOK'
  BY <1>1, <1>2 DEF CallsInv, DeliveryTypeOK
<1>5. FlushOwned' /\ NotYetWritten' /\ IssuedInOrder'
  BY <1>1, CallsFacts DEF FlushOwned, NotYetWritten, IssuedInOrder
<1>6. QED
  BY <1>1, <1>3, <1>4, <1>5, CallsFacts DEF CallsInv

\* The client, not being usable, is about to queue call c.
EnqueueFacts(c, o) ==
    /\ status[c] = "new" /\ Earlier(c) /\ c \notin Held(callQueue) \cup Flushing
    /\ queueOptions' = queueOptions /\ DOMAIN key' = Calls /\ TypeOK'
    /\ UNCHANGED <<via, flushItem, flushAnswer, eventOutbox, written>>

\* What holds when enqueueCall runs.
LEMMA EnqueueStarts ==
    ASSUME CallsInv, NEW c \in Calls, NEW o \in CallOptions, Enqueues(c, o)
    PROVE  EnqueueFacts(c, o)
<1>1. /\ status[c] = "new" /\ Earlier(c)
      /\ queueOptions' = queueOptions /\ DOMAIN key' = Calls /\ TypeOK'
  BY IssueFacts DEF Enqueues
<1>2. c \notin Held(callQueue) \cup Flushing
  BY <1>1, CallsFacts
<1>3. UNCHANGED <<via, flushItem, flushAnswer, eventOutbox, written>>
  BY DEF Enqueues
<1>4. QED
  BY <1>1, <1>2, <1>3 DEF EnqueueFacts

\* enqueueCall coalesces with a queued item.
LEMMA CoalescesInv ==
    ASSUME CallsInv, NEW c \in Calls, NEW o \in CallOptions, CallCoalesces(c, o)
    PROVE  CallsInv'
<1> DEFINE k == CHOOSE x \in SameKey(o.coalesceKey) :
                    \A y \in SameKey(o.coalesceKey) : x <= y
           keep == o.coalescePrevious = "resolve-with-next"
           old == callQueue[k].waiters
           it == [call |-> c, waiters |-> {c} \cup (IF keep THEN old ELSE {})]
           superseded == IF o.coalescePrevious = "drop"
                         THEN "dropped" ELSE "rejected"
<1>1. EnqueueFacts(c, o)
  BY EnqueueStarts DEF CallCoalesces
<1>2. /\ callQueue' = [callQueue EXCEPT ![k] = it]
      /\ status' = [d \in Calls |->
                IF d = c THEN "queued"
                ELSE IF d \in old /\ ~keep THEN superseded ELSE status[d]]
  BY DEF CallCoalesces
<1>3. k \in DOMAIN callQueue
  <2>1. SameKey(o.coalesceKey) # {} /\ SameKey(o.coalesceKey) \subseteq DOMAIN callQueue
    BY DEF CallCoalesces, SameKey
  <2>2. DOMAIN callQueue \subseteq Nat
    BY CallsFacts
  <2>3. \E x \in SameKey(o.coalesceKey) : \A y \in SameKey(o.coalesceKey) : x <= y
    BY <2>1, <2>2, Least
  <2>4. k \in SameKey(o.coalesceKey)
    BY <2>3
  <2>5. QED
    BY <2>1, <2>4
<1>4. superseded \in Settled /\ superseded # "queued"
  BY DEF Settled
<1> HIDE DEF k, keep, superseded
<1>5. /\ callQueue \in Seq(Item) /\ QueueOK(callQueue)
      /\ \A d \in Calls : status[d] = "queued" <=> d \in Held(callQueue) \cup Flushing
      /\ Held(callQueue) \cap Flushing = {}
      /\ status \in StatusType
      /\ Len(callQueue) <= Bound(queueOptions.maxSize)
  BY CallsFacts
<1>6. callQueue[k] \in Item
  BY <1>3, <1>5
<1>7. old \in SUBSET Calls
  BY <1>6 DEF Item
<1>8. it \in Item /\ it.call \in it.waiters
  BY <1>7 DEF Item
<1>9. it.waiters \cap Held(callQueue) \subseteq callQueue[k].waiters
  BY <1>1 DEF EnqueueFacts
<1>10. /\ QueueOK(callQueue')
       /\ Held(callQueue') = (Held(callQueue) \ old) \cup it.waiters
       /\ Len(callQueue') = Len(callQueue)
       /\ old \subseteq Held(callQueue)
  <2> HIDE DEF it
  <2>1. Apart(callQueue) /\ Owned(callQueue)
    BY <1>5 DEF QueueOK
  <2>2. /\ [callQueue EXCEPT ![k] = it] \in Seq(Item)
        /\ Apart([callQueue EXCEPT ![k] = it])
        /\ Owned([callQueue EXCEPT ![k] = it])
        /\ Held([callQueue EXCEPT ![k] = it])
              = (Held(callQueue) \ callQueue[k].waiters) \cup it.waiters
        /\ Len([callQueue EXCEPT ![k] = it]) = Len(callQueue)
        /\ callQueue[k].waiters \subseteq Held(callQueue)
    BY <1>3, <1>5, <1>8, <1>9, <2>1, QueueReplace
  <2>3. QED
    BY <1>2, <2>2 DEF QueueOK
<1>11. it.waiters = {c} \cup (IF keep THEN old ELSE {})
  OBVIOUS
<1> HIDE DEF it, old
<1>12. \A d \in Calls : status'[d] = "queued" <=> d \in Held(callQueue') \cup Flushing
  <2> SUFFICES ASSUME NEW d \in Calls
               PROVE  status'[d] = "queued" <=> d \in Held(callQueue') \cup Flushing
    OBVIOUS
  <2>1. CASE keep
    BY <2>1, <1>2, <1>5, <1>10, <1>11
  <2>2. CASE ~keep
    BY <2>2, <1>2, <1>4, <1>5, <1>10, <1>11
  <2>3. QED
    BY <2>1, <2>2
<1>13. Held(callQueue') \cap Flushing = {}
  BY <1>1, <1>5, <1>10, <1>11 DEF EnqueueFacts
<1>14. /\ DOMAIN status' = Calls /\ status'[c] = "queued"
       /\ \A d \in Calls : d # c => \/ status'[d] = status[d]
                                    \/ status[d] = "queued" /\ status'[d] \in Settled
  <2>1. \A d \in Calls : d \in old => status[d] = "queued"
    BY <1>5, <1>10
  <2>2. DOMAIN status' = Calls /\ status'[c] = "queued"
    BY <1>2
  <2>3. ASSUME NEW d \in Calls, d # c
        PROVE  \/ status'[d] = status[d]
               \/ status[d] = "queued" /\ status'[d] \in Settled
    <3>1. CASE d \in old /\ ~keep
      BY <3>1, <2>1, <2>3, <1>2, <1>4
    <3>2. CASE ~(d \in old /\ ~keep)
      BY <3>2, <2>3, <1>2
    <3>3. QED
      BY <3>1, <3>2
  <2>4. QED
    BY <2>2, <2>3
<1>15. status' \in StatusType
  BY <1>2, <1>4, <1>5 DEF StatusType
<1>16. Len(callQueue') <= Bound(queueOptions.maxSize)
  BY <1>5, <1>10
<1>17. QED
  BY <1>1, <1>10, <1>12, <1>13, <1>14, <1>15, <1>16, QueueChange DEF EnqueueFacts

\* enqueueCall pushes a new item, after making room.
LEMMA QueuedInv ==
    ASSUME CallsInv, NEW c \in Calls, NEW o \in CallOptions, CallQueued(c, o)
    PROVE  CallsInv'
<1> DEFINE drops == CallsFull /\ callQueue # <<>>
           victims == IF drops THEN Head(callQueue).waiters ELSE {}
           kept == IF drops THEN Tail(callQueue) ELSE callQueue
           it == [call |-> c, waiters |-> {c}]
<1>1. EnqueueFacts(c, o)
  BY EnqueueStarts DEF CallQueued
<1>2. /\ callQueue' = Append(kept, it)
      /\ status' = [d \in Calls |->
                IF d = c THEN "queued"
                ELSE IF d \in victims THEN "dropped" ELSE status[d]]
  BY DEF CallQueued
<1>3. /\ callQueue \in Seq(Item) /\ QueueOK(callQueue)
      /\ \A d \in Calls : status[d] = "queued" <=> d \in Held(callQueue) \cup Flushing
      /\ Held(callQueue) \cap Flushing = {}
      /\ status \in StatusType
      /\ Len(callQueue) <= Bound(queueOptions.maxSize)
      /\ queueOptions \in QueueOptions
  BY CallsFacts
<1>4. /\ QueueOK(kept) /\ Held(callQueue) = victims \cup Held(kept)
      /\ victims \cap Held(kept) = {}
      /\ Len(kept) + 1 <= Bound(queueOptions.maxSize)
  <2>0. /\ Len(callQueue) \in Nat /\ queueOptions.maxSize \in Nat
        /\ callQueue = <<>> => Len(callQueue) = 0
    BY <1>3, DeliveryAssumption
  <2>1. CASE drops
    <3>1. /\ QueueOK(Tail(callQueue))
          /\ Held(callQueue) = Head(callQueue).waiters \cup Held(Tail(callQueue))
          /\ Head(callQueue).waiters \cap Held(Tail(callQueue)) = {}
          /\ Len(Tail(callQueue)) = Len(callQueue) - 1
      BY <2>1, <1>3, QueueTail DEF QueueOK
    <3>2. kept = Tail(callQueue) /\ victims = Head(callQueue).waiters
      BY <2>1
    <3> HIDE DEF kept, victims
    <3>3. Len(kept) + 1 = Len(callQueue)
      BY <2>0, <3>1, <3>2
    <3>4. QED
      BY <1>3, <3>1, <3>2, <3>3
  <2>2. CASE ~drops
    <3>1. kept = callQueue /\ victims = {}
      BY <2>2
    <3>2. Len(callQueue) + 1 <= Bound(queueOptions.maxSize)
      BY <2>0, <2>2, <1>3 DEF CallsFull, Full, Bound
    <3> HIDE DEF kept, victims
    <3>3. QED
      BY <1>3, <3>1, <3>2
  <2>3. QED
    BY <2>1, <2>2
<1> HIDE DEF kept, victims
<1>5. it \in Item /\ it.call \in it.waiters /\ it.waiters = {c}
  BY DEF Item
<1> HIDE DEF it
<1>6. c \notin Held(callQueue) \cup Flushing
  BY <1>1 DEF EnqueueFacts
<1>7. /\ QueueOK(callQueue')
      /\ Held(callQueue') = Held(kept) \cup {c}
      /\ Len(callQueue') = Len(kept) + 1
  <2>1. it.waiters \cap Held(kept) = {}
    BY <1>4, <1>5, <1>6
  <2>2. QED
    BY <1>2, <1>4, <1>5, <2>1, QueueAppend DEF QueueOK
<1>8. /\ DOMAIN status' = Calls /\ status'[c] = "queued"
      /\ \A d \in Calls : d # c => \/ status'[d] = status[d]
                                   \/ status[d] = "queued" /\ status'[d] \in Settled
  BY <1>2, <1>3, <1>4 DEF Settled
<1>9. \A d \in Calls : status'[d] = "queued" <=> d \in Held(callQueue') \cup Flushing
  BY <1>2, <1>3, <1>4, <1>6, <1>7
<1>10. Held(callQueue') \cap Flushing = {}
  BY <1>3, <1>4, <1>6, <1>7
<1>11. status' \in StatusType
  BY <1>2, <1>3 DEF StatusType, Settled
<1>12. Len(callQueue') <= Bound(queueOptions.maxSize)
  BY <1>4, <1>7
<1>13. QED
  BY <1>1, <1>7, <1>8, <1>9, <1>10, <1>11, <1>12, QueueChange DEF EnqueueFacts

\* What holds when an event is emitted.
LEMMA EmitFacts ==
    ASSUME CallsInv, NEW c \in Calls, Emit(c)
    PROVE  /\ status[c] = "new" /\ Earlier(c)
           /\ UNCHANGED vars /\ queueOptions' = queueOptions
           /\ DOMAIN key' = Calls /\ TypeOK'
<1>1. status[c] = "new" /\ Earlier(c) /\ UNCHANGED vars /\ queueOptions' = queueOptions
      /\ key' = key
  BY UpcomingEarlier DEF Emit
<1>2. TypeOK /\ DOMAIN key = Calls
  BY CallsFacts
<1>3. QED
  BY <1>1, <1>2, TypeKept

\* emitRaw on a usable client, or enqueueEvent that refuses.
LEMMA EmitDirectInv ==
    ASSUME CallsInv, NEW c \in Calls, EmitDirect(c) \/ EmitRefused(c)
    PROVE  CallsInv'
<1>1. /\ status[c] = "new" /\ Earlier(c)
      /\ queueOptions' = queueOptions /\ DOMAIN key' = Calls /\ TypeOK'
  BY EmitFacts DEF EmitDirect, EmitRefused
<1>2. via \in ViaType
  BY CallsFacts
<1>3. CASE EmitDirect(c)
  <2>1. PICK s \in {"resolved", "rejected"} :
           /\ status' = [status EXCEPT ![c] = s]
           /\ written' = written \/ written' = Append(written, c)
    BY <1>3 DEF EmitDirect
  <2>2. via' = via /\ UNCHANGED <<callQueue, flushItem, flushAnswer, eventOutbox>>
    BY <1>3 DEF EmitDirect
  <2>3. QED
    BY <1>1, <1>2, <2>1, <2>2, StatusChange DEF Settled
<1>4. CASE EmitRefused(c)
  <2>1. PICK s \in {"rejected", "dropped"} : Becomes(c, s)
    BY <1>4 DEF EmitRefused
  <2>2. QED
    BY <1>1, <2>1, BecomesInv DEF Settled
<1>5. QED
  BY <1>3, <1>4

\* enqueueEvent pushes, after making room.
LEMMA EmitQueuedInv ==
    ASSUME CallsInv, NEW c \in Calls, EmitQueued(c)
    PROVE  CallsInv'
<1> DEFINE drops == OutboxFull /\ eventOutbox # <<>>
           kept == IF drops THEN Tail(eventOutbox) ELSE eventOutbox
<1>1. /\ status[c] = "new" /\ Earlier(c)
      /\ queueOptions' = queueOptions /\ DOMAIN key' = Calls /\ TypeOK'
  BY EmitFacts DEF EmitQueued
<1>2. /\ eventOutbox' = Append(kept, c)
      /\ status' = [d \in Calls |->
                IF d = c THEN "outbox"
                ELSE IF drops /\ d = Head(eventOutbox) THEN "dropped"
                ELSE status[d]]
      /\ UNCHANGED <<via, callQueue, flushItem, flushAnswer, written>>
  BY DEF EmitQueued
<1>3. /\ \A d \in Calls : status[d] = "queued" <=>
                             d \in Held(callQueue) \cup Flushing
      /\ Held(callQueue) \cap Flushing = {}
      /\ QueueOK(callQueue) /\ FlushOwned
      /\ Range(eventOutbox) = {d \in Calls : status[d] = "outbox"}
      /\ Rising(eventOutbox) /\ NotYetWritten /\ IssuedInOrder
      /\ queueOptions \in QueueOptions
      /\ status \in StatusType /\ via \in ViaType /\ written \in Seq(Calls)
      /\ callQueue \in Seq(Item)
      /\ Len(callQueue) <= Bound(queueOptions.maxSize)
      /\ eventOutbox \in Seq(Calls)
      /\ Len(eventOutbox) <= Bound(queueOptions.outboxSize)
      /\ flushItem \in Item \cup {NoItem}
      /\ flushAnswer \in {"idle", "pending", "resolved", "rejected"}
  BY CallsFacts
<1>4. /\ kept \in Seq(Calls) /\ Rising(kept)
      /\ Len(kept) + 1 <= Bound(queueOptions.outboxSize)
      /\ Range(kept) = {d \in Calls : status[d] = "outbox"}
                          \ (IF drops THEN {Head(eventOutbox)} ELSE {})
  <2>0. /\ Len(eventOutbox) \in Nat /\ queueOptions.outboxSize \in Nat
        /\ eventOutbox = <<>> => Len(eventOutbox) = 0
    BY <1>3, DeliveryAssumption
  <2>1. CASE drops
    <3>1. /\ Tail(eventOutbox) \in Seq(Calls) /\ Rising(Tail(eventOutbox))
          /\ Len(Tail(eventOutbox)) = Len(eventOutbox) - 1
          /\ Range(Tail(eventOutbox)) = Range(eventOutbox) \ {Head(eventOutbox)}
      BY <2>1, <1>3, OutboxTail
    <3>2. Len(Tail(eventOutbox)) + 1 <= Bound(queueOptions.outboxSize)
      BY <1>3, <2>0, <3>1
    <3>3. QED
      BY <2>1, <1>3, <3>1, <3>2
  <2>2. CASE ~drops
    <3>1. Len(eventOutbox) + 1 <= Bound(queueOptions.outboxSize)
      BY <2>0, <2>2, <1>3 DEF OutboxFull, Full, Bound
    <3>2. QED
      BY <2>2, <3>1, <1>3
  <2>3. QED
    BY <2>1, <2>2
<1>5. \A d \in Range(kept) : d < c
  <2> SUFFICES ASSUME NEW d \in Range(kept) PROVE d < c
    OBVIOUS
  <2>1. d \in Calls /\ status[d] = "outbox"
    BY <1>4
  <2>2. d # c
    BY <1>1, <2>1
  <2>3. ~(c < d)
    BY <1>1, <1>3, <2>1 DEF IssuedInOrder
  <2>4. d \in Nat /\ c \in Nat
    BY <2>1, DeliveryAssumption DEF Calls
  <2>5. QED
    BY <2>2, <2>3, <2>4
<1>6. drops => Head(eventOutbox) \in Calls /\ status[Head(eventOutbox)] = "outbox"
  <2>1. SUFFICES ASSUME drops PROVE Head(eventOutbox) \in Range(eventOutbox)
    BY <1>3
  <2>2. 1 \in DOMAIN eventOutbox /\ Head(eventOutbox) = eventOutbox[1]
    BY <2>1, <1>3
  <2>3. QED
    BY <2>2 DEF Range
<1> HIDE DEF kept, drops
<1>7. /\ eventOutbox' \in Seq(Calls) /\ Rising(eventOutbox')
      /\ Range(eventOutbox') = Range(kept) \cup {c}
      /\ Len(eventOutbox') <= Bound(queueOptions.outboxSize)
  BY <1>2, <1>4, <1>5, OutboxAppend
<1>8. \A d \in Calls :
         /\ status'[d] = "queued" <=> status[d] = "queued"
         /\ status'[d] = "new" <=> status[d] = "new" /\ d # c
         /\ status'[d] = "outbox" <=>
               d = c \/ (status[d] = "outbox" /\ ~(drops /\ d = Head(eventOutbox)))
  BY <1>1, <1>2, <1>6
<1>9. Range(eventOutbox') = {d \in Calls : status'[d] = "outbox"}
  <2>1. \A d : d \in Range(eventOutbox') <=>
           \/ d = c
           \/ /\ d \in Calls /\ status[d] = "outbox"
              /\ ~(drops /\ d = Head(eventOutbox))
    BY <1>4, <1>7
  <2>2. \A d : d \in Range(eventOutbox') <=> d \in Calls /\ status'[d] = "outbox"
    BY <1>8, <2>1
  <2>3. QED
    BY <2>2
<1>10. status' \in StatusType
  BY <1>2, <1>3 DEF StatusType, Settled
<1>11. Flushing' = Flushing /\ FlushOwned'
  BY <1>2, <1>3 DEF Flushing, FlushOwned
<1>12. NotYetWritten'
  <2> SUFFICES ASSUME NEW i \in DOMAIN written
               PROVE  /\ status'[written[i]]
                            \notin {"new", "waiting", "granted", "outbox"}
                      /\ status'[written[i]] = "queued" =>
                            flushAnswer # "idle" /\ written[i] = flushItem.call
    BY <1>2 DEF NotYetWritten
  <2>1. written[i] \in Calls
    BY <1>3
  <2>2. /\ status[written[i]] \notin {"new", "waiting", "granted", "outbox"}
        /\ status[written[i]] = "queued" =>
                  flushAnswer # "idle" /\ written[i] = flushItem.call
    BY <1>3 DEF NotYetWritten
  <2>3. status'[written[i]] = status[written[i]]
    BY <1>1, <1>2, <1>6, <2>1, <2>2
  <2>4. QED
    BY <2>2, <2>3
<1>13. IssuedInOrder'
  <2> SUFFICES ASSUME NEW a \in Calls, NEW b \in Calls, a < b, status'[a] = "new"
               PROVE  status'[b] = "new"
    BY DEF IssuedInOrder
  <2>1. status[a] = "new" /\ status[b] = "new"
    BY <1>3, <1>8 DEF IssuedInOrder
  <2>2. b # c
    <3>1. SUFFICES ASSUME b = c PROVE FALSE
      OBVIOUS
    <3>2. a \in 1..(c - 1)
      BY <3>1, DeliveryAssumption DEF Calls
    <3>3. QED
      BY <1>1, <2>1, <3>2 DEF Earlier
  <2>3. QED
    BY <1>8, <2>1, <2>2
<1>14. callQueue' = callQueue /\ queueOptions' = queueOptions
  BY <1>1, <1>2
<1>15. DeliveryTypeOK'
  BY <1>1, <1>2, <1>3, <1>7, <1>10 DEF DeliveryTypeOK, StatusType, ViaType
<1>16. QED
  BY <1>3, <1>7, <1>8, <1>9, <1>11, <1>12, <1>13, <1>14, <1>15 DEF CallsInv

-----------------------------------------------------------------------------
(* A ready client serves its queues                                        *)

\* The antecedent of NoStalledQueue.
Serving == Usable /\ lifecycle[endpoint] = "ready"

\* After flushOutbox and flushCallQueue nothing is left unserved.
LEMMA GrantAndFlushServes ==
    ASSUME NEW emitted \in BOOLEAN, GrantAndFlush(emitted)
    PROVE  NoStalledQueue'
<1> SUFFICES ASSUME Usable'
             PROVE  eventOutbox' = <<>> /\ (callQueue' # <<>> => flushAnswer' # "idle")
  BY DEF NoStalledQueue
<1>1. eventOutbox' = <<>>
  BY DEF GrantAndFlush
<1>2. CASE flushAnswer = "idle"
  <2>1. \E v, w : FlushFrom(callQueue, v, w)
    BY <1>2, Zenon DEF GrantAndFlush
  <2>2. callQueue' # <<>> => flushAnswer' # "idle"
    BY <2>1 DEF FlushFrom, Usable
  <2>3. QED
    BY <1>1, <2>2
<1>3. CASE flushAnswer # "idle"
  BY <1>1, <1>3 DEF GrantAndFlush
<1>4. QED
  BY <1>2, <1>3

\* The steps of the life cycle after which nothing is flushed.
Quiet ==
    \/ DConnect \/ DConnectTimeout \/ DOpenSettles \/ DRetryTimerFires
    \/ DAttemptSettles \/ DClose
    \/ \E e \in Endpoints :
          DEndpointCloses(e) \/ DHandshakeFails(e) \/ DHandshakeTimeout(e)

\* A step of the life cycle flushes, or it is quiet and loses calls at most.
LEMMA LifeCycleEffects ==
    ASSUME LifeCycle
    PROVE  /\ UNCHANGED <<queueOptions, key>>
           /\ \/ \E em \in BOOLEAN : GrantAndFlush(em)
              \/ Quiet /\ (UNCHANGED callVars \/ \E r \in BOOLEAN : LoseCalls(r))
<1>1. UNCHANGED <<queueOptions, key>>
  BY DEF LifeCycle
<1>2. CASE Quiet
  <2>1. CASE DConnectTimeout \/ DRetryTimerFires
    BY <1>1, <1>2, <2>1 DEF DConnectTimeout, DRetryTimerFires
  <2>2. CASE DConnect \/ DOpenSettles \/ DAttemptSettles
             \/ \E e \in Endpoints : DHandshakeFails(e) \/ DHandshakeTimeout(e)
    <3>1. LoseCallsAndQueue
      BY <2>2 DEF DConnect, DOpenSettles, DAttemptSettles, DHandshakeFails,
                  DHandshakeTimeout
    <3>2. (state # "closed" /\ state' = "closed") \in BOOLEAN
      OBVIOUS
    <3>3. \E r \in BOOLEAN : LoseCalls(r)
      BY <3>1, <3>2 DEF LoseCallsAndQueue
    <3>4. QED
      BY <1>1, <1>2, <3>3
  <2>3. ASSUME NEW e \in Endpoints, DEndpointCloses(e)
        PROVE  \E r \in BOOLEAN : LoseCalls(r)
    <3>1. (options.reconnect /\ state # "closed" /\ state' = "closed") \in BOOLEAN
      OBVIOUS
    <3>2. QED
      BY <2>3, <3>1 DEF DEndpointCloses
  <2>4. CASE DClose
    <3>1. TRUE \in BOOLEAN /\ LoseCalls(TRUE)
      BY <2>4 DEF DClose
    <3>2. \E r \in BOOLEAN : LoseCalls(r)
      BY <3>1
    <3>3. QED
      BY <1>1, <1>2, <3>2
  <2>5. QED
    BY <1>1, <1>2, <2>1, <2>2, <2>3, <2>4 DEF Quiet
<1>3. CASE DConnectResumes
  BY <1>1, <1>3 DEF DConnectResumes
<1>4. ASSUME NEW e \in Endpoints, DEndpointReady(e)
      PROVE  \E em \in BOOLEAN : GrantAndFlush(em)
  <2>1. (state' # state) \in BOOLEAN
    OBVIOUS
  <2>2. QED
    BY <1>4, <2>1 DEF DEndpointReady
<1>5. QED
  BY <1>1, <1>2, <1>3, <1>4 DEF LifeCycle, Quiet

\* A quiet step never brings the client to a ready endpoint.
LEMMA QuietServes == ASSUME Quiet, TypeOK PROVE Serving' => Serving
<1> USE EndpointsAssumption DEF Serving, Usable
<1>1. CASE DConnect
  BY <1>1 DEF DConnect, Connect, ClosedInConnect
<1>2. CASE DConnectTimeout \/ DRetryTimerFires
  BY <1>2 DEF DConnectTimeout, DRetryTimerFires, ConnectTimeout, RetryTimerFires
<1>3. CASE DOpenSettles
  <2>1. CASE OpenSucceeds
    BY <2>1 DEF OpenSucceeds, Spawn, ClosedInSpawn, TypeOK
  <2>2. CASE OpenFails
    BY <2>2 DEF OpenFails, StartReconnect, ClosedInStart, Schedule
  <2>3. QED
    BY <1>3, <2>1, <2>2 DEF DOpenSettles
<1>4. CASE DAttemptSettles
  <2>1. CASE AttemptSucceeds
    BY <2>1 DEF AttemptSucceeds, Spawn, ClosedInSpawn, TypeOK
  <2>2. CASE AttemptFails
    BY <2>2 DEF AttemptFails, Schedule
  <2>3. QED
    BY <1>4, <2>1, <2>2 DEF DAttemptSettles
<1>5. CASE DClose
  BY <1>5 DEF DClose, Close
<1>6. ASSUME NEW e \in Endpoints, DEndpointCloses(e)
      PROVE  ~Serving'
  BY <1>6 DEF DEndpointCloses, EndpointCloses, OnEndpointClose
<1>7. ASSUME NEW e \in Endpoints, DHandshakeFails(e)
      PROVE  ~Serving'
  BY <1>7 DEF DHandshakeFails, HandshakeFails, OnEndpointClose
<1>8. ASSUME NEW e \in Endpoints, DHandshakeTimeout(e)
      PROVE  Serving' => Serving
  BY <1>8 DEF DHandshakeTimeout, HandshakeTimeout, OnEndpointClose
<1>9. QED
  BY <1>1, <1>2, <1>3, <1>4, <1>5, <1>6, <1>7, <1>8 DEF Quiet

\* Every step keeps a ready client from sitting on its queues: what is
\* queued is queued while the client is not usable.
LEMMA NoStalledQueueKept ==
    ASSUME TypeOK, flushAnswer \in {"idle", "pending", "resolved", "rejected"},
           NoStalledQueue, [DNext]_dvars
    PROVE  NoStalledQueue'
<1>1. CASE LifeCycle
  <2>1. CASE \E em \in BOOLEAN : GrantAndFlush(em)
    BY <2>1, GrantAndFlushServes
  <2>2. CASE Quiet /\ (UNCHANGED callVars \/ \E r \in BOOLEAN : LoseCalls(r))
    <3>1. Serving' => Serving
      BY <2>2, QuietServes
    <3>2. /\ callQueue' \in {callQueue, <<>>} /\ eventOutbox' \in {eventOutbox, <<>>}
          /\ flushAnswer' = "idle" <=> flushAnswer = "idle"
      BY <2>2 DEF LoseCalls, callVars
    <3>3. QED
      BY <3>1, <3>2 DEF NoStalledQueue, Serving
  <2>3. QED
    BY <1>1, <2>1, <2>2, LifeCycleEffects
<1>2. CASE \/ UNCHANGED <<vars, flushAnswer>>
              /\ (~Usable \/ UNCHANGED <<callQueue, eventOutbox>>)
  BY <1>2 DEF NoStalledQueue, Usable, vars
<1>3. ASSUME NEW c \in Calls, NEW o \in CallOptions,
             CallFailFast(c, o) \/ CallWaitReady(c, o) \/ CallQueueDirect(c, o)
      PROVE  NoStalledQueue'
  <2>1. UNCHANGED <<vars, flushAnswer, callQueue, eventOutbox>>
    BY <1>3 DEF CallFailFast, CallWaitReady, CallQueueDirect, Issue, Upcoming,
                Write, Becomes
  <2>2. QED
    BY <1>2, <2>1
<1>4. ASSUME NEW c \in Calls, NEW o \in CallOptions,
             CallCoalesces(c, o) \/ CallOverflows(c, o) \/ CallQueued(c, o)
      PROVE  NoStalledQueue'
  <2>1. UNCHANGED <<vars, flushAnswer>> /\ ~Usable
    BY <1>4 DEF CallCoalesces, CallOverflows, CallQueued, Enqueues, Issue, Upcoming
  <2>2. QED
    BY <1>2, <2>1
<1>5. ASSUME NEW c \in Calls, EmitDirect(c) \/ EmitRefused(c) \/ EmitQueued(c)
      PROVE  NoStalledQueue'
  <2>1. /\ UNCHANGED <<vars, flushAnswer>>
        /\ ~Usable \/ UNCHANGED <<callQueue, eventOutbox>>
    BY <1>5 DEF EmitDirect, EmitRefused, EmitQueued, Emit, Upcoming, Becomes
  <2>2. QED
    BY <1>2, <2>1
<1>6. ASSUME NEW c \in Calls, GrantedResumes(c) \/ CallAnswered(c)
      PROVE  NoStalledQueue'
  <2>1. UNCHANGED <<vars, flushAnswer, callQueue, eventOutbox>>
    BY <1>6 DEF GrantedResumes, CallAnswered, Write, Becomes
  <2>2. QED
    BY <1>2, <2>1
<1>7. CASE FlushAnswered
  BY <1>7 DEF FlushAnswered, NoStalledQueue, Usable, vars
<1>8. CASE FlushResumes
  <2>1. /\ UNCHANGED <<vars, eventOutbox>>
        /\ \E v, w : FlushFrom(callQueue, v, w)
    BY <1>8, Zenon DEF FlushResumes
  <2>2. Usable' => (callQueue' # <<>> => flushAnswer' # "idle")
    BY <2>1 DEF FlushFrom, Usable
  <2>3. QED
    BY <2>1, <2>2 DEF NoStalledQueue, Usable, vars
<1>9. CASE UNCHANGED dvars
  BY <1>2, <1>9 DEF dvars, callVars
<1>10. QED
  BY <1>1, <1>3, <1>4, <1>5, <1>6, <1>7, <1>8, <1>9 DEF DNext, CallIssued, EventIssued

-----------------------------------------------------------------------------
(* The invariant                                                           *)

\* A new client has no calls.
LEMMA InitCallsInv == DInit => CallsInv /\ NoStalledQueue
<1> SUFFICES ASSUME DInit PROVE CallsInv /\ NoStalledQueue
    OBVIOUS
<1> USE DEF DInit
<1>1. TypeOK
  BY InitIInv DEF IInv
<1>2. \A n \in Nat : Bound(n) >= 0
  BY DEF Bound
<1>3. DeliveryTypeOK
  BY <1>1, <1>2, DeliveryAssumption DEF DeliveryTypeOK, NoItem
<1>4. QueueOK(<<>>) /\ Held(<<>>) = {} /\ Range(<<>>) = {} /\ Rising(<<>>)
  BY DEF QueueOK, Held, Range, Rising, Apart, Owned
<1>5. Flushing = {} /\ FlushOwned
  BY DEF Flushing, FlushOwned
<1>6. NotYetWritten /\ IssuedInOrder
  BY DEF NotYetWritten, IssuedInOrder
<1>7. NoStalledQueue
  BY DEF NoStalledQueue
<1>8. QED
  BY <1>3, <1>4, <1>5, <1>6, <1>7 DEF CallsInv

\* Every step preserves CallsInv, given the type of the life cycle.
LEMMA CallsInvKept == CallsInv /\ TypeOK' /\ [DNext]_dvars => CallsInv'
<1> SUFFICES ASSUME CallsInv, TypeOK', [DNext]_dvars PROVE CallsInv'
    OBVIOUS
<1>1. CASE LifeCycle
  <2>1. UNCHANGED <<queueOptions, key>>
    BY <1>1, LifeCycleEffects
  <2>2. ASSUME NEW em \in BOOLEAN, GrantAndFlush(em) PROVE CallsInv'
    BY <2>1, <2>2, GrantAndFlushInv
  <2>3. ASSUME NEW r \in BOOLEAN, LoseCalls(r) PROVE CallsInv'
    BY <2>1, <2>3, LoseCallsInv
  <2>4. CASE UNCHANGED callVars
    <3>1. UNCHANGED <<status, via, callQueue, flushItem, flushAnswer,
                      eventOutbox, written, queueOptions, key>>
      BY <2>1, <2>4 DEF callVars
    <3>2. Flushing' = Flushing
      BY <3>1 DEF Flushing
    <3>3. DeliveryTypeOK' /\ FlushOwned' /\ NotYetWritten' /\ IssuedInOrder'
      BY <3>1 DEF CallsInv, DeliveryTypeOK, FlushOwned, NotYetWritten, IssuedInOrder
    <3>4. QED
      BY <3>1, <3>2, <3>3 DEF CallsInv
  <2>5. QED
    BY <1>1, <2>2, <2>3, <2>4, LifeCycleEffects
<1>2. ASSUME NEW c \in Calls, NEW o \in CallOptions,
             \/ CallFailFast(c, o) \/ CallWaitReady(c, o) \/ CallQueueDirect(c, o)
             \/ CallCoalesces(c, o) \/ CallOverflows(c, o) \/ CallQueued(c, o)
      PROVE  CallsInv'
  BY <1>2, DirectInv, WaitReadyInv, CoalescesInv, OverflowsInv, QueuedInv
<1>3. ASSUME NEW c \in Calls, EmitDirect(c) \/ EmitRefused(c) \/ EmitQueued(c)
      PROVE  CallsInv'
  BY <1>3, EmitDirectInv, EmitQueuedInv
<1>4. ASSUME NEW c \in Calls, GrantedResumes(c) \/ CallAnswered(c)
      PROVE  CallsInv'
  BY <1>4, GrantedInv, AnsweredInv
<1>5. CASE FlushAnswered
  BY <1>5, FlushAnsweredInv
<1>6. CASE FlushResumes
  BY <1>6, FlushResumesInv
<1>7. CASE UNCHANGED dvars
  <2>1. UNCHANGED <<status, via, callQueue, flushItem, flushAnswer,
                    eventOutbox, written, queueOptions, key>>
    BY <1>7 DEF dvars, callVars
  <2>2. Flushing' = Flushing
    BY <2>1 DEF Flushing
  <2>3. DeliveryTypeOK' /\ FlushOwned' /\ NotYetWritten' /\ IssuedInOrder'
    BY <2>1 DEF CallsInv, DeliveryTypeOK, FlushOwned, NotYetWritten, IssuedInOrder
  <2>4. QED
    BY <2>1, <2>2, <2>3 DEF CallsInv
<1>8. QED
  BY <1>1, <1>2, <1>3, <1>4, <1>5, <1>6, <1>7 DEF DNext, CallIssued, EventIssued

\* CallsInv says of items what NoLostCaller says of callers.
LEMMA CallsKept == CallsInv => NoLostCaller
<1> SUFFICES ASSUME CallsInv PROVE NoLostCaller
    OBVIOUS
<1>1. QueueWaiters = Held(callQueue)
  BY DEF QueueWaiters, Held
<1>2. QED
  BY <1>1, CallsFacts DEF NoLostCaller, Flushing, Apart, Rising, QueueOK

\* Every step preserves the inductive invariant.
LEMMA NextDInv == DInv /\ [DNext]_dvars => DInv'
<1> SUFFICES ASSUME IInv, CallsInv, NoStalledQueue, [DNext]_dvars
             PROVE  DInv'
    BY DEF DInv
<1>1. IInv'
  BY StepsOfLifeCycle, NextIInv
<1>2. CallsInv'
  BY <1>1, CallsInvKept DEF IInv
<1>3. NoStalledQueue'
  BY CallsFacts, NoStalledQueueKept
<1>4. QED
  BY <1>1, <1>2, <1>3 DEF DInv

\* The inductive invariant holds in every reachable state of the client with
\* its calls.
THEOREM DeliveryInvariance == DSpec => []DInv
<1>1. DInit => DInv
  BY InitCallsInv, InitIInv DEF DInv, DInit
<1>2. DInv /\ [DNext]_dvars => DInv'
  BY NextDInv
<1>3. QED
  BY <1>1, <1>2, PTL DEF DSpec

\* The delivery's variables keep their types; the queue and the outbox stay
\* within their limits.
THEOREM DeliveryTypeCorrect == DSpec => []DeliveryTypeOK
<1>1. DInv => DeliveryTypeOK
  BY DEF DInv, CallsInv
<1>2. QED
  BY <1>1, DeliveryInvariance, PTL

\* No coalescing, overflow, flush, reconnect or close loses a queued caller
\* or event, or holds one twice (enqueueCall, enqueueEvent, flushCallQueue,
\* flushOutbox).
THEOREM CallersKept == DSpec => []NoLostCaller
<1>1. DInv => NoLostCaller
  BY CallsKept DEF DInv
<1>2. QED
  BY <1>1, DeliveryInvariance, PTL

\* A ready client with a ready endpoint has sent its outbox and is flushing
\* its queue.
THEOREM QueueServed == DSpec => []NoStalledQueue
<1>1. DInv => NoStalledQueue
  BY DEF DInv
<1>2. QED
  BY <1>1, DeliveryInvariance, PTL

-----------------------------------------------------------------------------
(* Written once                                                            *)

\* What WrittenOnce says of a step.
WroteOnce ==
    \A i \in DOMAIN written' \ DOMAIN written :
          /\ \A j \in 1..(i - 1) : written'[j] # written'[i]
          /\ status[written'[i]] \notin Settled
          /\ i > Len(written) + 1 /\ status[written'[i]] = "outbox" =>
                written'[i - 1] < written'[i]

\* Fresh(t): the sequence t may be written after what was written before.
Fresh(t) ==
    /\ t \in Seq(Calls)
    /\ \A i, j \in DOMAIN t : i # j => t[i] # t[j]
    /\ \A i \in DOMAIN t :
          /\ \A j \in DOMAIN written : written[j] # t[i]
          /\ status[t[i]] \notin Settled
          /\ i > 1 /\ status[t[i]] = "outbox" => t[i - 1] < t[i]

\* What is written in one step satisfies WroteOnce if it is fresh.
LEMMA FreshWrites ==
    ASSUME written \in Seq(Calls), NEW t, Fresh(t), written' = written \o t
    PROVE  WroteOnce
<1> DEFINE n == Len(written)
<1>1. /\ t \in Seq(Calls) /\ n \in Nat /\ Len(t) \in Nat
      /\ DOMAIN written = 1..n /\ DOMAIN t = 1..Len(t)
      /\ DOMAIN written' = 1..(n + Len(t))
  BY DEF Fresh
<1>2. \A k \in DOMAIN t : written'[n + k] = t[k]
  BY <1>1
<1>3. \A j \in DOMAIN written : written'[j] = written[j]
  BY <1>1
<1> HIDE DEF n
<1> SUFFICES ASSUME NEW i \in DOMAIN written' \ DOMAIN written
             PROVE  /\ \A j \in 1..(i - 1) : written'[j] # written'[i]
                    /\ status[written'[i]] \notin Settled
                    /\ i > n + 1 /\ status[written'[i]] = "outbox" =>
                          written'[i - 1] < written'[i]
  BY DEF WroteOnce, n
<1>4. PICK k \in DOMAIN t : i = n + k
  <2>1. i - n \in DOMAIN t /\ i = n + (i - n)
    BY <1>1
  <2>2. QED
    BY <2>1
<1>5. written'[i] = t[k]
  BY <1>2, <1>4
<1>6. ASSUME NEW j \in 1..(i - 1)
      PROVE  written'[j] # written'[i]
  <2>1. CASE j \in DOMAIN written
    BY <1>3, <1>5, <2>1 DEF Fresh
  <2>2. CASE j \notin DOMAIN written
    <3>1. j - n \in DOMAIN t /\ j - n # k /\ n + (j - n) = j
      BY <1>1, <1>4, <2>2
    <3>2. written'[n + (j - n)] = t[j - n]
      BY <1>2, <3>1
    <3>3. t[j - n] # t[k]
      BY <3>1 DEF Fresh
    <3>4. QED
      BY <1>5, <3>1, <3>2, <3>3
  <2>3. QED
    BY <2>1, <2>2
<1>7. status[written'[i]] \notin Settled
  BY <1>5 DEF Fresh
<1>8. ASSUME i > n + 1, status[written'[i]] = "outbox"
      PROVE  written'[i - 1] < written'[i]
  <2>0. k \in 1..Len(t) /\ Len(t) \in Nat /\ n \in Nat /\ k > 1
    BY <1>1, <1>4, <1>8
  <2>1. k > 1 /\ k - 1 \in 1..Len(t) /\ n + (k - 1) = i - 1
    BY <2>0, <1>4
  <2>1a. k - 1 \in DOMAIN t
    BY <1>1, <2>1
  <2>2. written'[n + (k - 1)] = t[k - 1]
    BY <1>2, <2>1a
  <2>3. t[k - 1] < t[k]
    BY <1>5, <1>8, <2>1 DEF Fresh
  <2>4. QED
    BY <1>5, <2>1, <2>2, <2>3
<1>9. QED
  BY <1>6, <1>7, <1>8

\* One call is written.
LEMMA AppendWrites ==
    ASSUME written \in Seq(Calls), NEW c \in Calls,
           \/ written' = written
           \/ written' = Append(written, c),
           status[c] \notin Settled, \A j \in DOMAIN written : written[j] # c
    PROVE  WroteOnce
<1>1. CASE written' = written
  BY <1>1 DEF WroteOnce
<1>2. CASE written' = Append(written, c)
  <2>1. written' = written \o <<c>>
    BY <1>2
  <2>2. Fresh(<<c>>)
    BY DEF Fresh
  <2>3. QED
    BY <2>1, <2>2, FreshWrites
<1>3. QED
  BY <1>1, <1>2

\* The outbox, alone or before a queued call that no flush has taken.
LEMMA OutboxFresh ==
    ASSUME CallsInv
    PROVE  /\ Fresh(<<>>) /\ Fresh(eventOutbox)
           /\ \A c \in Held(callQueue) : c \in Calls /\ flushAnswer = "idle" =>
                 Fresh(<<c>>) /\ Fresh(Append(eventOutbox, c))
<1>1. /\ eventOutbox \in Seq(Calls) /\ Rising(eventOutbox) /\ NotYetWritten
      /\ written \in Seq(Calls)
      /\ Range(eventOutbox) = {c \in Calls : status[c] = "outbox"}
      /\ \A c \in Calls : status[c] = "queued" <=> c \in Held(callQueue) \cup Flushing
  BY CallsFacts
<1>2. \A i \in DOMAIN eventOutbox : /\ status[eventOutbox[i]] = "outbox"
                                    /\ eventOutbox[i] \in Calls /\ eventOutbox[i] \in Nat
  <2>1. \A i \in DOMAIN eventOutbox : eventOutbox[i] \in Range(eventOutbox)
    BY DEF Range
  <2>2. QED
    BY <1>1, <2>1, DeliveryAssumption DEF Calls
<1>3. DOMAIN eventOutbox = 1..Len(eventOutbox) /\ Len(eventOutbox) \in Nat
  BY <1>1
<1>4. \A i, j \in DOMAIN eventOutbox : i # j => eventOutbox[i] # eventOutbox[j]
  <2> SUFFICES ASSUME NEW i \in DOMAIN eventOutbox, NEW j \in DOMAIN eventOutbox, i # j
               PROVE  eventOutbox[i] # eventOutbox[j]
    OBVIOUS
  <2>1. i \in Nat /\ j \in Nat
    BY <1>3
  <2>2. i < j \/ j < i
    BY <2>1
  <2>3. eventOutbox[i] < eventOutbox[j] \/ eventOutbox[j] < eventOutbox[i]
    BY <1>1, <2>2 DEF Rising
  <2>4. QED
    BY <1>2, <2>3
<1>5. \A i \in DOMAIN eventOutbox :
         /\ \A j \in DOMAIN written : written[j] # eventOutbox[i]
         /\ status[eventOutbox[i]] \notin Settled
         /\ i > 1 => eventOutbox[i - 1] < eventOutbox[i]
  <2> SUFFICES ASSUME NEW i \in DOMAIN eventOutbox
               PROVE  /\ \A j \in DOMAIN written : written[j] # eventOutbox[i]
                      /\ status[eventOutbox[i]] \notin Settled
                      /\ i > 1 => eventOutbox[i - 1] < eventOutbox[i]
    OBVIOUS
  <2>1. \A j \in DOMAIN written : written[j] # eventOutbox[i]
    BY <1>1, <1>2 DEF NotYetWritten
  <2>2. status[eventOutbox[i]] \notin Settled
    BY <1>2 DEF Settled
  <2>3. i > 1 => i - 1 \in DOMAIN eventOutbox /\ i - 1 < i
    BY <1>3
  <2>4. QED
    BY <1>1, <2>1, <2>2, <2>3 DEF Rising
<1>6. Fresh(<<>>)
  BY DEF Fresh
<1>7. Fresh(eventOutbox)
  BY <1>1, <1>4, <1>5 DEF Fresh
<1>8. ASSUME NEW c \in Held(callQueue), c \in Calls, flushAnswer = "idle"
      PROVE  Fresh(<<c>>) /\ Fresh(Append(eventOutbox, c))
  <2>1. status[c] = "queued"
    BY <1>1, <1>8
  <2>2. \A j \in DOMAIN written : written[j] # c
    BY <1>1, <1>8, <2>1 DEF NotYetWritten
  <2>3. Fresh(<<c>>)
    BY <1>8, <2>1, <2>2 DEF Fresh, Settled
  <2> DEFINE t == Append(eventOutbox, c)
             m == Len(eventOutbox) + 1
  <2>4. /\ t \in Seq(Calls) /\ DOMAIN t = 1..m /\ t[m] = c
        /\ \A i \in DOMAIN eventOutbox : t[i] = eventOutbox[i] /\ i # m /\ i \in Nat
        /\ \A i \in DOMAIN t : i = m \/ i \in DOMAIN eventOutbox
    BY <1>1, <1>3, <1>8
  <2> HIDE DEF t, m
  <2>5. \A i \in DOMAIN eventOutbox : eventOutbox[i] # c
    BY <1>2, <2>1
  <2>6. \A i, j \in DOMAIN t : i # j => t[i] # t[j]
    BY <1>4, <2>4, <2>5
  <2>7. ASSUME NEW i \in DOMAIN t
        PROVE  /\ \A j \in DOMAIN written : written[j] # t[i]
               /\ status[t[i]] \notin Settled
               /\ i > 1 /\ status[t[i]] = "outbox" => t[i - 1] < t[i]
    <3>1. CASE i = m
      BY <2>1, <2>2, <2>4, <3>1 DEF Settled
    <3>2. CASE i \in DOMAIN eventOutbox
      <4>1. t[i] = eventOutbox[i]
        BY <2>4, <3>2
      <4>2. i > 1 => i - 1 \in DOMAIN eventOutbox
        BY <1>3, <3>2
      <4>3. i > 1 => t[i - 1] = eventOutbox[i - 1]
        BY <2>4, <4>2
      <4>4. QED
        BY <1>5, <3>2, <4>1, <4>3
    <3>3. QED
      BY <2>4, <3>1, <3>2
  <2>8. Fresh(t)
    BY <2>4, <2>6, <2>7 DEF Fresh
  <2>9. QED
    BY <2>3, <2>8 DEF t
<1>9. QED
  BY <1>6, <1>7, <1>8

\* The call that the flush loop takes next is a queued one.
LEMMA HeadHeld ==
    ASSUME CallsInv, callQueue # <<>>
    PROVE  Head(callQueue).call \in Calls /\ Head(callQueue).call \in Held(callQueue)
<1>1. QueueOK(callQueue)
  BY CallsFacts
<1>2. /\ Head(callQueue) \in Item
      /\ Head(callQueue).call \in Head(callQueue).waiters
      /\ Held(callQueue) = Head(callQueue).waiters \cup Held(Tail(callQueue))
  BY <1>1, QueueTail DEF QueueOK
<1>3. QED
  BY <1>2 DEF Item

\* A step that writes nothing.
LEMMA NothingWritten == ASSUME written' = written PROVE WroteOnce
BY DEF WroteOnce

\* flushCallQueue writes at most the head of the queue.
LEMMA FlushWrites ==
    ASSUME NEW v, NEW w, FlushFrom(callQueue, v, w)
    PROVE  written' = w \/ (callQueue # <<>> /\ written' = Append(w, Head(callQueue).call))
BY DEF FlushFrom

\* What is appended to two sequences is appended to the second.
LEMMA AppendConcatenated ==
    ASSUME NEW s \in Seq(Calls), NEW u \in Seq(Calls), NEW e \in Calls
    PROVE  Append(s \o u, e) = s \o Append(u, e)
OBVIOUS

\* Becoming ready writes the outbox in order, then the first queued call.
LEMMA GrantAndFlushWrites ==
    ASSUME CallsInv, NEW emitted \in BOOLEAN, GrantAndFlush(emitted)
    PROVE  WroteOnce
<1> DEFINE c == Head(callQueue).call
<1>1. PICK w \in {written, written \o eventOutbox} :
         \/ written' = w
         \/ flushAnswer = "idle" /\ \E v : FlushFrom(callQueue, v, w)
  BY Zenon DEF GrantAndFlush
<1>2. written \in Seq(Calls) /\ eventOutbox \in Seq(Calls)
  BY CallsFacts
<1>3. CASE written' = w
  <2>1. Fresh(eventOutbox)
    BY OutboxFresh
  <2>2. QED
    BY <1>1, <1>2, <1>3, <2>1, FreshWrites, NothingWritten
<1>4. CASE flushAnswer = "idle" /\ callQueue # <<>> /\ written' = Append(w, c)
  <2>1. c \in Calls /\ c \in Held(callQueue)
    BY <1>4, HeadHeld
  <2>2. Fresh(<<c>>) /\ Fresh(Append(eventOutbox, c))
    BY <1>4, <2>1, OutboxFresh
  <2> HIDE DEF c
  <2>3. CASE w = written
    <3>1. written' = written \o <<c>>
      BY <1>2, <1>4, <2>1, <2>3
    <3>2. QED
      BY <1>2, <2>2, <3>1, FreshWrites
  <2>4. CASE w = written \o eventOutbox
    <3>1. written' = Append(written \o eventOutbox, c)
      BY <1>4, <2>4
    <3>2. Append(written \o eventOutbox, c) = written \o Append(eventOutbox, c)
      BY <1>2, <2>1, AppendConcatenated
    <3>3. written' = written \o Append(eventOutbox, c)
      BY <3>1, <3>2
    <3>4. QED
      BY <1>2, <2>2, <3>3, FreshWrites
  <2>5. QED
    BY <1>1, <2>3, <2>4
<1>5. QED
  BY <1>1, <1>3, <1>4, FlushWrites

\* The flush loop writes a queued call that is not its last item's.
LEMMA FlushResumesWrites ==
    ASSUME CallsInv, FlushResumes
    PROVE  WroteOnce
<1> DEFINE c == Head(callQueue).call
<1>1. flushAnswer \in {"resolved", "rejected"} /\ FlushFrom(callQueue, via, written)
  BY DEF FlushResumes
<1>2. written' = written \/ (callQueue # <<>> /\ written' = Append(written, c))
  BY <1>1, FlushWrites
<1>3. CASE callQueue # <<>> /\ written' = Append(written, c)
  <2>1. c \in Calls /\ c \in Held(callQueue)
    BY <1>3, HeadHeld
  <2> HIDE DEF c
  <2>2. status[c] = "queued" /\ c \notin Flushing /\ written \in Seq(Calls)
        /\ NotYetWritten /\ FlushOwned
    BY <2>1, CallsFacts
  <2>3. c # flushItem.call
    BY <1>1, <2>2 DEF Flushing, FlushOwned
  <2>4. \A j \in DOMAIN written : written[j] # c
    BY <2>2, <2>3 DEF NotYetWritten
  <2>5. QED
    BY <1>3, <2>1, <2>2, <2>4, AppendWrites DEF Settled
<1>4. QED
  BY <1>2, <1>3, NothingWritten

\* A call that is new or granted has not been written.
LEMMA UnwrittenWrites ==
    ASSUME CallsInv, NEW c \in Calls, status[c] \in {"new", "granted"},
           written' = written \/ written' = Append(written, c)
    PROVE  WroteOnce
<1>1. written \in Seq(Calls) /\ NotYetWritten
  BY CallsFacts
<1>2. \A j \in DOMAIN written : written[j] # c
  BY <1>1 DEF NotYetWritten
<1>3. QED
  BY <1>1, <1>2, AppendWrites DEF Settled

\* Every step writes calls and events for the first time only.
LEMMA StepWrites == ASSUME CallsInv, [DNext]_dvars PROVE WroteOnce
<1>1. CASE LifeCycle
  <2>1. ASSUME NEW r \in BOOLEAN, LoseCalls(r)
        PROVE  WroteOnce
    BY <2>1, NothingWritten DEF LoseCalls
  <2>2. CASE UNCHANGED callVars
    BY <2>2, NothingWritten DEF callVars
  <2>3. QED
    BY <1>1, <2>1, <2>2, LifeCycleEffects, GrantAndFlushWrites
<1>2. ASSUME NEW c \in Calls, NEW o \in CallOptions,
             \/ CallFailFast(c, o) \/ CallWaitReady(c, o) \/ CallQueueDirect(c, o)
             \/ CallCoalesces(c, o) \/ CallOverflows(c, o) \/ CallQueued(c, o)
      PROVE  WroteOnce
  <2>1. status[c] = "new"
    BY <1>2 DEF CallFailFast, CallWaitReady, CallQueueDirect, CallCoalesces,
                CallOverflows, CallQueued, Enqueues, Issue, Upcoming
  <2>2. written' = written \/ written' = Append(written, c)
    BY <1>2 DEF CallFailFast, CallWaitReady, CallQueueDirect, CallCoalesces,
                CallOverflows, CallQueued, Enqueues, Write, Becomes
  <2>3. QED
    BY <2>1, <2>2, UnwrittenWrites
<1>3. ASSUME NEW c \in Calls, EmitDirect(c) \/ EmitRefused(c) \/ EmitQueued(c)
      PROVE  WroteOnce
  <2>1. status[c] = "new"
    BY <1>3 DEF EmitDirect, EmitRefused, EmitQueued, Emit, Upcoming
  <2>2. written' = written \/ written' = Append(written, c)
    BY <1>3 DEF EmitDirect, EmitRefused, EmitQueued, Becomes
  <2>3. QED
    BY <2>1, <2>2, UnwrittenWrites
<1>4. ASSUME NEW c \in Calls, GrantedResumes(c) \/ CallAnswered(c)
      PROVE  WroteOnce
  <2>1. CASE GrantedResumes(c)
    <3>1. status[c] = "granted" /\ (written' = written \/ written' = Append(written, c))
      BY <2>1 DEF GrantedResumes, Write
    <3>2. QED
      BY <3>1, UnwrittenWrites
  <2>2. CASE CallAnswered(c)
    BY <2>2, NothingWritten DEF CallAnswered, Becomes
  <2>3. QED
    BY <1>4, <2>1, <2>2
<1>5. CASE FlushAnswered
  BY <1>5, NothingWritten DEF FlushAnswered
<1>6. CASE FlushResumes
  BY <1>6, FlushResumesWrites
<1>7. CASE UNCHANGED dvars
  BY <1>7, NothingWritten DEF dvars, callVars
<1>8. QED
  BY <1>1, <1>2, <1>3, <1>4, <1>5, <1>6, <1>7 DEF DNext, CallIssued, EventIssued

\* A call or event is written at most once across all reconnects, never
\* after it was settled, and the outbox is written in order.
THEOREM CallsWrittenOnce == DSpec => WrittenOnce
<1>1. DInv /\ [DNext]_dvars => [WroteOnce]_dvars
  BY StepWrites DEF DInv
<1>2. QED
  BY <1>1, DeliveryInvariance, PTL DEF DSpec, WrittenOnce, WroteOnce
=============================================================================
