--------------------------- MODULE ClientDelivery ---------------------------
(***************************************************************************)
(* The RPC calls of the SDK client (callRaw, enqueueCall, flushCallQueue,  *)
(* waitForUsable of src/src/sdk/client.ts) and its events (emitRaw,        *)
(* enqueueEvent, flushOutbox) on top of its life cycle: every step of      *)
(* AxtpClient is taken here together with what it does to the waiting,     *)
(* queued and written calls and to the event outbox.                       *)
(*                                                                         *)
(* Two more places suspend: a wait-ready call continues some microtasks    *)
(* after it was given an endpoint ("granted"), and the flush loop some     *)
(* microtasks after the answer of the call it awaits.  Timers and network  *)
(* I/O wait for both.  Calls and events are numbered together in the order *)
(* they are issued; method, event name and parameters are abstracted to    *)
(* that number.                                                            *)
(***************************************************************************)
EXTENDS AxtpClient, Sequences, FiniteSets, Functions

CONSTANTS
    MaxCalls,     \* bound: calls and events the application issues
    CallOptions,  \* resolved options a call may have
    QueueOptions, \* resolved delivery options of the client
    NoKey         \* coalesceKey = undefined

Calls == 1..MaxCalls

ASSUME DeliveryAssumption ==
    /\ MaxCalls \in Nat
    /\ \A o \in CallOptions :
          /\ o.offlinePolicy \in {"fail-fast", "wait-ready", "queue"}
          /\ o.coalescePrevious \in {"resolve-with-next", "reject", "drop"}
    /\ \A q \in QueueOptions :
          /\ q.maxSize \in Nat /\ q.outboxSize \in Nat
          /\ {q.overflow, q.outboxOverflow}
                \subseteq {"reject", "drop-newest", "drop-oldest"}
          /\ q.offline \in {"fail-fast", "queue"}

VARIABLES
    queueOptions, \* the client's delivery.calls.queue and delivery.events
    key,          \* coalesceKey of every issued call
    status,       \* where the promise of each call or event stands
    via,          \* the endpoint a granted or written call uses
    callQueue,    \* QueuedCall items: the call whose parameters it holds
                  \* and the calls waiting for its result
    flushItem,    \* the item flushCallQueue awaits
    flushAnswer,  \* and the state of that await; "idle": not flushing
    eventOutbox,  \* QueuedEvent items: the events
    written       \* history: calls and events in the order they were written

callVars ==
    <<status, via, callQueue, flushItem, flushAnswer, eventOutbox, written>>
dvars == <<vars, queueOptions, key, callVars>>

Settled == {"resolved", "dropped", "rejected"}
Item == [call : Calls, waiters : SUBSET Calls]
NoItem == [call |-> 0, waiters |-> {}]

\* A queue of maxSize 0 that drops its oldest item still holds the newest.
Bound(maxSize) == IF maxSize = 0 THEN 1 ELSE maxSize

DeliveryTypeOK ==
    /\ TypeOK
    /\ queueOptions \in QueueOptions
    /\ DOMAIN key = Calls
    /\ status \in [Calls -> {"new", "waiting", "granted", "queued", "inflight",
                              "outbox"}
                             \cup Settled]
    /\ via \in [Calls -> Endpoints \cup {NoEndpoint}]
    /\ callQueue \in Seq(Item)
    /\ Len(callQueue) <= Bound(queueOptions.maxSize)
    /\ flushItem \in Item \cup {NoItem}
    /\ flushAnswer \in {"idle", "pending", "resolved", "rejected"}
    /\ eventOutbox \in Seq(Calls)
    /\ Len(eventOutbox) <= Bound(queueOptions.outboxSize)
    /\ written \in Seq(Calls)

DInit ==
    /\ Init
    /\ queueOptions \in QueueOptions
    /\ key = [c \in Calls |-> NoKey]
    /\ status = [c \in Calls |-> "new"]
    /\ via = [c \in Calls |-> NoEndpoint]
    /\ callQueue = <<>>
    /\ flushItem = NoItem
    /\ flushAnswer = "idle"
    /\ eventOutbox = <<>>
    /\ written = <<>>

-----------------------------------------------------------------------------
(* Fragments                                                               *)

\* requireUsable succeeds.
Usable == state = "ready" /\ endpoint # NoEndpoint

QueueWaiters == UNION {callQueue[i].waiters : i \in DOMAIN callQueue}

\* Nothing granted or answered waits for its continuation.
MicrotasksDone ==
    /\ \A c \in Calls : status[c] # "granted"
    /\ flushAnswer \notin {"resolved", "rejected"}

\* Mutant of FlushFrom: the item stays in the queue while it is written.
FlushPeeks(q, v, w) ==
    IF state' = "ready" /\ endpoint' # NoEndpoint /\ q # <<>>
    THEN /\ callQueue' = q
         /\ flushItem' = Head(q)
         /\ via' = [v EXCEPT ![Head(q).call] = endpoint']
         /\ IF lifecycle'[endpoint'] = "ready"
            THEN flushAnswer' = "pending" /\ written' = Append(w, Head(q).call)
            ELSE flushAnswer' = "rejected" /\ written' = w
    ELSE /\ callQueue' = q
         /\ flushItem' = NoItem
         /\ flushAnswer' = "idle"
         /\ via' = v
         /\ written' = w

\* flushCallQueue's loop takes the first item of queue q, once the life
\* cycle has made its step; v and w are via and written before the write.
\* The write fails on an endpoint that is not ready.
FlushFrom(q, v, w) ==
    IF state' = "ready" /\ endpoint' # NoEndpoint /\ q # <<>>
    THEN LET c == Head(q).call IN
         /\ callQueue' = Tail(q)
         /\ flushItem' = Head(q)
         /\ via' = [v EXCEPT ![c] = endpoint']
         /\ IF lifecycle'[endpoint'] = "ready"
            THEN flushAnswer' = "pending" /\ written' = Append(w, c)
            ELSE flushAnswer' = "rejected" /\ written' = w
    ELSE /\ callQueue' = q
         /\ flushItem' = NoItem
         /\ flushAnswer' = "idle"
         /\ via' = v
         /\ written' = w

\* The life cycle step closes endpoint e, so that rejectAllPending runs.
Closing(e) == Live(e) /\ lifecycle'[e] = "closed"

\* What closing an endpoint or the client does to the calls: written calls
\* lose their endpoint, setState("closed") rejects the waiters of
\* waitForUsable, and rejectCallQueue and rejectOutbox, which run together if
\* at all, the queued calls and events.
LoseCalls(rejectsQueue) ==
    /\ status' =
          [c \in Calls |->
              IF \/ status[c] = "waiting" /\ state' = "closed"
                 \/ (c \in QueueWaiters \/ status[c] = "outbox") /\ rejectsQueue
                 \/ status[c] = "inflight" /\ Closing(via[c])
              THEN "rejected" ELSE status[c]]
    /\ callQueue' = IF rejectsQueue THEN <<>> ELSE callQueue
    /\ eventOutbox' = IF rejectsQueue THEN <<>> ELSE eventOutbox
    /\ flushAnswer' =
          IF flushAnswer = "pending" /\ Closing(via[flushItem.call])
          THEN "rejected" ELSE flushAnswer
    /\ UNCHANGED <<via, flushItem, written>>

\* Mutant of LoseCallsAndQueue: nobody rejects the queue and the outbox.
LoseCallsOnly == LoseCalls(FALSE)

\* handleReconnectFailed, onFatalHandshakeError, the handshake timer and a
\* listener's close() reject the queue and the outbox as the client closes.
LoseCallsAndQueue == LoseCalls(state # "closed" /\ state' = "closed")

\* flushOutbox sends the whole outbox, once the life cycle has made its step.
\* Events are not awaited; on an endpoint that is not ready each one fails.
Flushed == IF Usable' THEN Range(eventOutbox) ELSE {}

\* onStateChange("ready") or onConnect is emitted: the waiters of
\* waitForUsable get the endpoint.  Then flushOutbox and flushCallQueue.
GrantAndFlush(emitted) ==
    LET got == {c \in Calls : status[c] = "waiting" /\ emitted /\ Usable'}
        v == [c \in Calls |-> IF c \in got THEN endpoint' ELSE via[c]]
        sends == Flushed # {} /\ lifecycle'[endpoint'] = "ready"
        w == IF sends THEN written \o eventOutbox ELSE written
    IN /\ status' = [c \in Calls |->
                        IF c \in got THEN "granted"
                        ELSE IF c \notin Flushed THEN status[c]
                        ELSE IF sends THEN "resolved" ELSE "rejected"]
       /\ eventOutbox' = IF Usable' THEN <<>> ELSE eventOutbox
       /\ IF flushAnswer = "idle"
          THEN FlushFrom(callQueue, v, w)
          ELSE /\ via' = v /\ written' = w
               /\ UNCHANGED <<callQueue, flushItem, flushAnswer>>

-----------------------------------------------------------------------------
(* The life cycle with its effect on the calls                             *)

DConnect == Connect /\ LoseCallsAndQueue
DConnectResumes == ConnectResumes /\ GrantAndFlush(TRUE)
DConnectTimeout == ConnectTimeout /\ MicrotasksDone /\ UNCHANGED callVars
DOpenSettles ==
    (OpenSucceeds \/ OpenFails) /\ MicrotasksDone /\ LoseCallsAndQueue
DRetryTimerFires == RetryTimerFires /\ MicrotasksDone /\ UNCHANGED callVars
DAttemptSettles ==
    (AttemptSucceeds \/ AttemptFails) /\ MicrotasksDone /\ LoseCallsAndQueue
DEndpointReady(e) == EndpointReady(e) /\ GrantAndFlush(state' # state)
\* Without a coordinator onEndpointClose closes the client and leaves the
\* queue alone (line 303).
DEndpointCloses(e) ==
    /\ EndpointCloses(e)
    /\ LoseCalls(options.reconnect /\ state # "closed" /\ state' = "closed")
DHandshakeFails(e) == HandshakeFails(e) /\ LoseCallsAndQueue
DHandshakeTimeout(e) ==
    HandshakeTimeout(e) /\ MicrotasksDone /\ LoseCallsAndQueue
DClose == Close /\ LoseCalls(TRUE)

LifeCycle ==
    /\ \/ DConnect \/ DConnectResumes \/ DConnectTimeout
       \/ DOpenSettles \/ DRetryTimerFires \/ DAttemptSettles
       \/ \E e \in Endpoints :
             \/ DEndpointReady(e) \/ DEndpointCloses(e)
             \/ DHandshakeFails(e) \/ DHandshakeTimeout(e)
       \/ DClose
    /\ UNCHANGED <<queueOptions, key>>

-----------------------------------------------------------------------------
(* Issuing a call or an event                                              *)

\* ep.call: requireReady of the endpoint, then the request is written.
Write(c, ep) ==
    /\ via' = [via EXCEPT ![c] = ep]
    /\ IF lifecycle[ep] = "ready"
       THEN /\ status' = [status EXCEPT ![c] = "inflight"]
            /\ written' = Append(written, c)
       ELSE /\ status' = [status EXCEPT ![c] = "rejected"]
            /\ UNCHANGED written
    /\ UNCHANGED <<callQueue, flushItem, flushAnswer, eventOutbox>>

Becomes(c, s) ==
    /\ status' = [status EXCEPT ![c] = s]
    /\ UNCHANGED <<via, callQueue, flushItem, flushAnswer, eventOutbox, written>>

\* c is what the application issues next.
Upcoming(c) ==
    /\ status[c] = "new"
    /\ \A d \in 1..(c - 1) : status[d] # "new"
    /\ UNCHANGED <<vars, queueOptions>>

\* c is a call with options o.
Issue(c, o) == Upcoming(c) /\ key' = [key EXCEPT ![c] = o.coalesceKey]

CallFailFast(c, o) ==
    /\ o.offlinePolicy = "fail-fast"
    /\ Issue(c, o)
    /\ IF Usable THEN Write(c, endpoint) ELSE Becomes(c, "rejected")

\* waitForUsable; even a usable endpoint is awaited.
CallWaitReady(c, o) ==
    /\ o.offlinePolicy = "wait-ready"
    /\ Issue(c, o)
    /\ IF Usable
       THEN /\ status' = [status EXCEPT ![c] = "granted"]
            /\ via' = [via EXCEPT ![c] = endpoint]
            /\ UNCHANGED <<callQueue, flushItem, flushAnswer, eventOutbox,
                           written>>
       ELSE Becomes(c, IF state = "closed" THEN "rejected" ELSE "waiting")

\* The "queue" policy writes directly on a usable client, whatever the queue
\* still holds.
CallQueueDirect(c, o) ==
    /\ o.offlinePolicy = "queue"
    /\ Issue(c, o)
    /\ Usable \/ state = "closed"
    /\ IF Usable THEN Write(c, endpoint) ELSE Becomes(c, "rejected")

Enqueues(c, o) ==
    /\ o.offlinePolicy = "queue"
    /\ Issue(c, o)
    /\ ~Usable /\ state # "closed"
    /\ UNCHANGED <<via, flushItem, flushAnswer, eventOutbox, written>>

SameKey(k) == {i \in DOMAIN callQueue : k # NoKey /\ key[callQueue[i].call] = k}

\* Mutant of CallCoalesces: the superseded callers are forgotten.
CallCoalescesForgets(c, o) ==
    /\ Enqueues(c, o)
    /\ SameKey(o.coalesceKey) # {}
    /\ callQueue' = [i \in DOMAIN callQueue |->
                        IF i \in SameKey(o.coalesceKey)
                        THEN [call |-> c, waiters |-> {c}] ELSE callQueue[i]]
    /\ status' = [status EXCEPT ![c] = "queued"]

\* enqueueCall, an item with the key is queued: it takes the new parameters.
CallCoalesces(c, o) ==
    /\ Enqueues(c, o)
    /\ SameKey(o.coalesceKey) # {}
    /\ LET i == CHOOSE x \in SameKey(o.coalesceKey) :
                    \A y \in SameKey(o.coalesceKey) : x <= y
           old == callQueue[i].waiters
           keep == o.coalescePrevious = "resolve-with-next"
           superseded == IF o.coalescePrevious = "drop"
                         THEN "dropped" ELSE "rejected"
       IN /\ callQueue' = [callQueue EXCEPT ![i] =
                [call |-> c, waiters |-> {c} \cup (IF keep THEN old ELSE {})]]
          /\ status' = [d \in Calls |->
                IF d = c THEN "queued"
                ELSE IF d \in old /\ ~keep THEN superseded ELSE status[d]]

\* Mutant of Full: off by one.
FullTooLate(q, maxSize) == Len(q) > maxSize

Full(q, maxSize) == Len(q) >= maxSize
CallsFull == Full(callQueue, queueOptions.maxSize)
OutboxFull == Full(eventOutbox, queueOptions.outboxSize)

\* enqueueCall, the queue is full and the new call loses.
CallOverflows(c, o) ==
    /\ Enqueues(c, o)
    /\ SameKey(o.coalesceKey) = {} /\ CallsFull
    /\ \/ /\ queueOptions.overflow = "reject"
          /\ status' = [status EXCEPT ![c] = "rejected"]
       \/ /\ queueOptions.overflow = "drop-newest"
          /\ status' = [status EXCEPT ![c] = "dropped"]
    /\ UNCHANGED callQueue

\* enqueueCall: push, after making room under "drop-oldest".
CallQueued(c, o) ==
    /\ Enqueues(c, o)
    /\ SameKey(o.coalesceKey) = {}
    /\ CallsFull => queueOptions.overflow = "drop-oldest"
    /\ LET drops == CallsFull /\ callQueue # <<>>
           victims == IF drops THEN Head(callQueue).waiters ELSE {}
           kept == IF drops THEN Tail(callQueue) ELSE callQueue
       IN /\ callQueue' = Append(kept, [call |-> c, waiters |-> {c}])
          /\ status' = [d \in Calls |->
                IF d = c THEN "queued"
                ELSE IF d \in victims THEN "dropped" ELSE status[d]]

CallIssued ==
    \E c \in Calls, o \in CallOptions :
        \/ CallFailFast(c, o) \/ CallWaitReady(c, o) \/ CallQueueDirect(c, o)
        \/ CallCoalesces(c, o) \/ CallOverflows(c, o) \/ CallQueued(c, o)

\* c is an event.
Emit(c) == Upcoming(c) /\ UNCHANGED key

\* emitRaw on a usable client: the event is sent, or the endpoint throws.
EmitDirect(c) ==
    /\ Emit(c)
    /\ Usable
    /\ IF lifecycle[endpoint] = "ready"
       THEN /\ status' = [status EXCEPT ![c] = "resolved"]
            /\ written' = Append(written, c)
       ELSE /\ status' = [status EXCEPT ![c] = "rejected"]
            /\ UNCHANGED written
    /\ UNCHANGED <<via, callQueue, flushItem, flushAnswer, eventOutbox>>

\* enqueueEvent: the client is closed, events are not queued, or the outbox
\* is full and the new event loses.
EmitRefused(c) ==
    /\ Emit(c)
    /\ ~Usable
    /\ \/ /\ \/ state = "closed" \/ queueOptions.offline = "fail-fast"
             \/ OutboxFull /\ queueOptions.outboxOverflow = "reject"
          /\ Becomes(c, "rejected")
       \/ /\ state # "closed" /\ queueOptions.offline = "queue"
          /\ OutboxFull /\ queueOptions.outboxOverflow = "drop-newest"
          /\ Becomes(c, "dropped")

\* enqueueEvent: push, after making room under "drop-oldest".
EmitQueued(c) ==
    /\ Emit(c)
    /\ ~Usable /\ state # "closed" /\ queueOptions.offline = "queue"
    /\ OutboxFull => queueOptions.outboxOverflow = "drop-oldest"
    /\ LET drops == OutboxFull /\ eventOutbox # <<>>
           kept == IF drops THEN Tail(eventOutbox) ELSE eventOutbox
       IN /\ eventOutbox' = Append(kept, c)
          /\ status' = [d \in Calls |->
                IF d = c THEN "outbox"
                ELSE IF drops /\ d = Head(eventOutbox) THEN "dropped"
                ELSE status[d]]
    /\ UNCHANGED <<via, callQueue, flushItem, flushAnswer, written>>

EventIssued ==
    \E c \in Calls : EmitDirect(c) \/ EmitRefused(c) \/ EmitQueued(c)

-----------------------------------------------------------------------------
(* Answers and continuations                                               *)

\* A wait-ready call continues with the endpoint it was given.
GrantedResumes(c) ==
    /\ status[c] = "granted"
    /\ Write(c, via[c])
    /\ UNCHANGED <<vars, queueOptions, key>>

\* The response (or the core's own timer) settles a written call.
CallAnswered(c) ==
    /\ status[c] = "inflight"
    /\ \E s \in {"resolved", "rejected"} : Becomes(c, s)
    /\ UNCHANGED <<vars, queueOptions, key>>

FlushAnswered ==
    /\ flushAnswer = "pending"
    /\ flushAnswer' \in {"resolved", "rejected"}
    /\ UNCHANGED <<vars, queueOptions, key, status, via, callQueue, flushItem,
                   eventOutbox, written>>

\* Mutant of FlushResumes: one item per flush, no restart.
FlushResumesOnce ==
    /\ flushAnswer \in {"resolved", "rejected"}
    /\ status' = [c \in Calls |->
                     IF c \in flushItem.waiters THEN flushAnswer ELSE status[c]]
    /\ flushItem' = NoItem
    /\ flushAnswer' = "idle"
    /\ UNCHANGED <<vars, queueOptions, key, via, callQueue, eventOutbox, written>>

\* flushCallQueue continues: settle the item's waiters, take the next item.
FlushResumes ==
    /\ flushAnswer \in {"resolved", "rejected"}
    /\ UNCHANGED <<vars, queueOptions, key, eventOutbox>>
    /\ status' = [c \in Calls |->
                     IF c \in flushItem.waiters THEN flushAnswer ELSE status[c]]
    /\ FlushFrom(callQueue, via, written)

-----------------------------------------------------------------------------
DNext ==
    \/ LifeCycle
    \/ CallIssued
    \/ EventIssued
    \/ \E c \in Calls : GrantedResumes(c) \/ CallAnswered(c)
    \/ FlushAnswered
    \/ FlushResumes

DSpec == DInit /\ [][DNext]_dvars

\* Continuations run, armed timers fire, connect() of a transport settles,
\* and a written call is answered, times out or loses its endpoint.
DFairness ==
    /\ WF_dvars(DConnectResumes /\ UNCHANGED <<queueOptions, key>>)
    /\ WF_dvars(DConnectTimeout /\ UNCHANGED <<queueOptions, key>>)
    /\ WF_dvars(DOpenSettles /\ UNCHANGED <<queueOptions, key>>)
    /\ WF_dvars(DRetryTimerFires /\ UNCHANGED <<queueOptions, key>>)
    /\ WF_dvars(DAttemptSettles /\ UNCHANGED <<queueOptions, key>>)
    /\ \A e \in Endpoints :
          WF_dvars(DHandshakeTimeout(e) /\ UNCHANGED <<queueOptions, key>>)
    /\ \A c \in Calls : WF_dvars(GrantedResumes(c)) /\ WF_dvars(CallAnswered(c))
    /\ WF_dvars(FlushAnswered)
    /\ WF_dvars(FlushResumes)

DFairSpec == DSpec /\ DFairness

-----------------------------------------------------------------------------
(* Properties                                                              *)

\* The promise of every queued call is held by exactly one item, of the
\* queue or of the flush loop, that of every queued event by one place of the
\* outbox, and they hold nothing else: no coalescing, overflow, flush or
\* disconnect loses a caller or settles it twice.
NoLostCaller ==
    LET flushing == IF flushAnswer = "idle" THEN {} ELSE flushItem.waiters
    IN /\ \A c \in Calls : status[c] = "queued" <=> c \in QueueWaiters \cup flushing
       /\ QueueWaiters \cap flushing = {}
       /\ \A i, j \in DOMAIN callQueue :
             i # j => callQueue[i].waiters \cap callQueue[j].waiters = {}
       /\ Range(eventOutbox) = {c \in Calls : status[c] = "outbox"}
       /\ \A i, j \in DOMAIN eventOutbox : i < j => eventOutbox[i] < eventOutbox[j]

\* A call or event is written at most once, across all reconnects, and never
\* once its promise has settled: what was superseded or dropped is not sent.
\* The outbox is sent in order and before the calls that are queued.
WrittenOnce ==
    [][\A i \in DOMAIN written' \ DOMAIN written :
          /\ \A j \in 1..(i - 1) : written'[j] # written'[i]
          /\ status[written'[i]] \notin Settled
          /\ i > Len(written) + 1 /\ status[written'[i]] = "outbox" =>
                written'[i - 1] < written'[i]]_dvars

\* A ready client with a ready endpoint never sits on queued events, nor on
\* queued calls: the flush loop is running (the finally block of
\* flushCallQueue restarts it).
NoStalledQueue ==
    Usable => (lifecycle[endpoint] = "ready" =>
                  /\ eventOutbox = <<>>
                  /\ callQueue # <<>> => flushAnswer # "idle")

\* The queued calls and events of a client that reconnects settle: each is
\* written once an endpoint is ready, or rejected when the attempts run out.
\* (As the calls are bounded, that each one settles means that in the end none
\* is queued.)  The timer of connect() is excluded: a client whose connect()
\* has timed out stays "connecting" on a ready endpoint and never flushes.
QueuedCallSettles ==
    LET Queued == {c \in Calls : status[c] \in {"queued", "outbox"}}
    IN options.reconnect /\ Limited /\ ~options.connectTimeout
            /\ state # "idle" /\ Queued # {}
        ~> Queued = {}

\* usage.md line 342: "queued call promises do not hang indefinitely".
\* Refuted without a coordinator: see the run closed_queue.
ClosedRejectsQueue == state = "closed" => callQueue = <<>>

\* usage.md line 278: a wait-ready call waits "for the next ready endpoint
\* and then send[s] the call exactly once".  Refuted: see the run
\* wait_ready.
WaitReadyServed ==
    \A c \in Calls :
        options.reconnect /\ Limited /\ state # "idle" /\ status[c] = "waiting"
        ~> status[c] \in Settled
=============================================================================
