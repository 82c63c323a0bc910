------------------------------- MODULE Streams -------------------------------
(***************************************************************************)
(* Data streams between two endpoints in session (endpoint/streamManager,  *)
(* streamRegistry and stream .ts): a stream is opened by an RPC request,   *)
(* its id is allocated by the peer that accepts it and adopted by the one  *)
(* that opened it, both talk under this id, and each closes for itself.    *)
(*                                                                         *)
(* The core decodes a message (Receive); requests and data go on through   *)
(* the queue of CoreEvents (Consume), a response resolves a promise.  Two  *)
(* continuations run some microtasks later, while more of what has been    *)
(* decoded is consumed: the openStream that adopts the id ("resuming") and *)
(* the handler of a request ("dispatched").                                *)
(***************************************************************************)
EXTENDS Integers, Sequences, FiniteSets

CONSTANTS
    Opens,        \* the openStream calls
    NoOpen,       \* Map.get: undefined
    Openers,      \* which peer makes which call: the cases considered
    MaxStreamId,  \* 2^32 - 1 in the code
    MaxChunks     \* bound: chunks sent on all streams together

Peers == {"client", "server"}
Other(p) == IF p = "client" THEN "server" ELSE "client"
Ids == 1..MaxStreamId

ASSUME StreamsAssumption ==
    /\ IsFiniteSet(Opens) /\ NoOpen \notin Opens
    /\ Openers \subseteq [Opens -> Peers]
    /\ MaxStreamId \in Nat \ {0}
    /\ MaxChunks \in Nat

VARIABLES
    opener,       \* one of Openers
    closed,       \* the endpoint of each peer is closed
    call,         \* the openStream promise
    offered,      \* the streamId of its response
    handler,      \* the stream handler that serves it
    nextStreamId, \* of each registry
    registry,     \* peer -> id -> the call whose context it holds
    streamId,     \* id of the Stream object of each peer and call; 0: none
    isClosed,     \* and whether it is closed
    wire,         \* messages on their way to each peer
    events,       \* CoreEvents its endpoint has not consumed
    sent,         \* chunks sent on each Stream, numbered from 1
    got,          \* chunks its context has been given
    ambiguous     \* history: an id was given out that had named a stream

ends == <<streamId, isClosed, registry, nextStreamId>>
vars == <<opener, closed, call, offered, handler, ends, wire, events, sent,
          got, ambiguous>>

Chunk == [open : Opens, n : 1..MaxChunks]

\* A response without an id is an error; a chunk says which Stream sent it
\* only for the properties' sake.
Message ==
    [kind : {"request"}, open : Opens]
    \cup [kind : {"response"}, open : Opens, id : 0..MaxStreamId]
    \cup [kind : {"data"}, id : Ids, chunk : Chunk]

TypeOK ==
    /\ opener \in Openers
    /\ closed \in [Peers -> BOOLEAN]
    /\ call \in [Opens -> {"new", "asked", "resuming", "opened", "failed"}]
    /\ offered \in [Opens -> 0..MaxStreamId]
    /\ handler \in [Opens -> {"none", "dispatched", "serving", "done"}]
    /\ nextStreamId \in [Peers -> Ids]
    /\ registry \in [Peers -> [Ids -> Opens \cup {NoOpen}]]
    /\ streamId \in [Peers -> [Opens -> 0..MaxStreamId]]
    /\ isClosed \in [Peers -> [Opens -> BOOLEAN]]
    /\ wire \in [Peers -> Seq(Message)]
    /\ events \in [Peers -> Seq(Message)]
    /\ sent \in [Peers -> [Opens -> 0..MaxChunks]]
    /\ got \in [Peers -> [Opens -> Seq(Chunk)]]
    /\ ambiguous \in BOOLEAN

Each(x) == [p \in Peers |-> x]

Init ==
    /\ opener \in Openers
    /\ closed = Each(FALSE)
    /\ call = [o \in Opens |-> "new"]
    /\ offered = [o \in Opens |-> 0]
    /\ handler = [o \in Opens |-> "none"]
    /\ nextStreamId = Each(1)
    /\ registry = Each([i \in Ids |-> NoOpen])
    /\ streamId = Each([o \in Opens |-> 0])
    /\ isClosed = Each([o \in Opens |-> FALSE])
    /\ wire = Each(<<>>)
    /\ events = Each(<<>>)
    /\ sent = Each([o \in Opens |-> 0])
    /\ got = Each([o \in Opens |-> <<>>])
    /\ ambiguous = FALSE

-----------------------------------------------------------------------------
(* Fragments                                                               *)

Acceptor(o) == Other(opener[o])

\* A write on a closed connection is swallowed.
Write(p, m) ==
    wire' = IF closed[p] \/ closed[Other(p)] THEN wire
            ELSE [wire EXCEPT ![Other(p)] = Append(@, m)]

\* adopt and makeStream: the Stream of call o at p under id i.
Adopt(p, o, i) ==
    /\ registry' = [registry EXCEPT ![p][i] = o]
    /\ streamId' = [streamId EXCEPT ![p][o] = i]

\* registry.close(i): the context found there, whichever it is, is closed.
Release(p, i) ==
    LET o == registry[p][i] IN
    IF o = NoOpen
    THEN UNCHANGED <<registry, isClosed>>
    ELSE /\ registry' = [registry EXCEPT ![p][i] = NoOpen]
         /\ isClosed' = [isClosed EXCEPT ![p][o] = TRUE]

\* Mutant of Successor: off by one.
SuccessorTooFar(i) == IF i > MaxStreamId THEN 1 ELSE i + 1

Successor(i) == IF i >= MaxStreamId THEN 1 ELSE i + 1

\* allocate(): the next free id, going round.
Allocated(p) ==
    LET ahead(i) == (i - nextStreamId[p]) % MaxStreamId
        free == {i \in Ids : registry[p][i] = NoOpen}
    IN CHOOSE i \in free : \A j \in free : ahead(i) <= ahead(j)

-----------------------------------------------------------------------------
(* Opening                                                                 *)

\* openStream, up to its await.
OpenStream(o) ==
    /\ call[o] = "new" /\ ~closed[opener[o]]
    /\ call' = [call EXCEPT ![o] = "asked"]
    /\ Write(opener[o], [kind |-> "request", open |-> o])
    /\ UNCHANGED <<opener, closed, offered, handler, ends, events, sent, got,
                   ambiguous>>

\* The call's timer (PendingCalls): the stream may be open at the acceptor.
OpenTimeout(o) ==
    /\ call[o] = "asked"
    /\ call' = [call EXCEPT ![o] = "failed"]
    /\ UNCHANGED <<opener, closed, offered, handler, ends, wire, events, sent,
                   got, ambiguous>>

\* The broker runs the wrapped handler: allocate, adopt, and the handler of
\* the application gets its Stream.  With every id in use allocate() would
\* not return.
HandlerStarts(o) ==
    LET p == Acceptor(o)
        i == Allocated(p)
    IN /\ handler[o] = "dispatched"
       /\ \E j \in Ids : registry[p][j] = NoOpen
       /\ handler' = [handler EXCEPT ![o] = "serving"]
       /\ Adopt(p, o, i)
       /\ nextStreamId' = [nextStreamId EXCEPT ![p] = Successor(i)]
       /\ ambiguous' = (ambiguous \/ \E q \in Peers, d \in Opens :
                                        streamId[q][d] = i)
       /\ UNCHANGED <<opener, closed, call, offered, isClosed, wire, events,
                      sent, got>>

\* The handler returns the id it was given.
HandlerReturns(o) ==
    LET p == Acceptor(o) IN
    /\ handler[o] = "serving"
    /\ handler' = [handler EXCEPT ![o] = "done"]
    /\ Write(p, [kind |-> "response", open |-> o, id |-> streamId[p][o]])
    /\ UNCHANGED <<opener, closed, call, offered, ends, events, sent, got,
                   ambiguous>>

\* The handler throws, or returns no id or another one.
HandlerFails(o) ==
    LET p == Acceptor(o) IN
    /\ handler[o] = "serving"
    /\ handler' = [handler EXCEPT ![o] = "done"]
    /\ Release(p, streamId[p][o])
    /\ Write(p, [kind |-> "response", open |-> o, id |-> 0])
    /\ UNCHANGED <<opener, closed, call, offered, streamId, nextStreamId,
                   events, sent, got, ambiguous>>

\* Mutant of OpenResumes: an id that is taken is taken over.
OpenResumesUnchecked(o) ==
    /\ call[o] = "resuming"
    /\ call' = [call EXCEPT ![o] = "opened"]
    /\ Adopt(opener[o], o, offered[o])
    /\ UNCHANGED <<opener, closed, offered, handler, isClosed, nextStreamId,
                   wire, events, sent, got, ambiguous>>

\* openStream after its await: adopt throws StreamAlreadyOpen.
OpenResumes(o) ==
    LET p == opener[o] IN
    /\ call[o] = "resuming"
    /\ IF registry[p][offered[o]] = NoOpen
       THEN /\ call' = [call EXCEPT ![o] = "opened"]
            /\ Adopt(p, o, offered[o])
       ELSE /\ call' = [call EXCEPT ![o] = "failed"]
            /\ UNCHANGED <<registry, streamId>>
    /\ UNCHANGED <<opener, closed, offered, handler, isClosed, nextStreamId,
                   wire, events, sent, got, ambiguous>>

-----------------------------------------------------------------------------
(* Messages                                                                *)

\* Mutant of Receive: what finds the queue of CoreEvents full is dropped.
ReceiveDrops(p) ==
    /\ ~closed[p] /\ wire[p] # <<>>
    /\ wire' = [wire EXCEPT ![p] = Tail(@)]
    /\ LET m == Head(wire[p]) IN
       IF m.kind = "response"
       THEN /\ call[m.open] = "asked"
            /\ call' = [call EXCEPT ![m.open] =
                           IF m.id = 0 THEN "failed" ELSE "resuming"]
            /\ offered' = [offered EXCEPT ![m.open] = m.id]
            /\ UNCHANGED events
       ELSE /\ events' = [events EXCEPT ![p] =
                             IF @ = <<>> THEN <<m>> ELSE @]
            /\ UNCHANGED <<call, offered>>
    /\ UNCHANGED <<opener, closed, handler, ends, sent, got, ambiguous>>

\* The core decodes a message: pendingCalls.resolve, or enqueue.
Receive(p) ==
    /\ ~closed[p] /\ wire[p] # <<>>
    /\ wire' = [wire EXCEPT ![p] = Tail(@)]
    /\ LET m == Head(wire[p]) IN
       \/ /\ m.kind = "response" /\ call[m.open] = "asked"
          /\ call' = [call EXCEPT ![m.open] =
                         IF m.id = 0 THEN "failed" ELSE "resuming"]
          /\ offered' = [offered EXCEPT ![m.open] = m.id]
          /\ UNCHANGED events
       \/ /\ m.kind = "response" /\ call[m.open] # "asked"
          /\ UNCHANGED <<call, offered, events>>
       \/ /\ m.kind # "response"
          /\ events' = [events EXCEPT ![p] = Append(@, m)]
          /\ UNCHANGED <<call, offered>>
    /\ UNCHANGED <<opener, closed, handler, ends, sent, got, ambiguous>>

\* onCoreEvent: dispatchRequest, or onData, which drops the chunk of an id
\* that has no context.
Consume(p) ==
    /\ ~closed[p] /\ events[p] # <<>>
    /\ events' = [events EXCEPT ![p] = Tail(@)]
    /\ LET m == Head(events[p]) IN
       \/ /\ m.kind = "request"
          /\ handler' = [handler EXCEPT ![m.open] = "dispatched"]
          /\ UNCHANGED got
       \/ /\ m.kind = "data"
          /\ LET o == registry[p][m.id]
             IN got' = IF o = NoOpen THEN got
                       ELSE [got EXCEPT ![p][o] = Append(@, m.chunk)]
          /\ UNCHANGED handler
    /\ UNCHANGED <<opener, closed, call, offered, ends, wire, sent, ambiguous>>

Chunks == {x \in Peers \X Opens \X (1..MaxChunks) : x[3] <= sent[x[1]][x[2]]}

\* Stream.send
Send(p, o) ==
    /\ streamId[p][o] # 0 /\ ~isClosed[p][o] /\ Cardinality(Chunks) < MaxChunks
    /\ sent' = [sent EXCEPT ![p][o] = @ + 1]
    /\ Write(p, [kind |-> "data", id |-> streamId[p][o],
                 chunk |-> [open |-> o, n |-> sent[p][o] + 1]])
    /\ UNCHANGED <<opener, closed, call, offered, handler, ends, events, got,
                   ambiguous>>

-----------------------------------------------------------------------------
(* Closing                                                                 *)

\* Stream.close: the peer is not told.
CloseStream(p, o) ==
    /\ streamId[p][o] # 0 /\ ~isClosed[p][o]
    /\ Release(p, streamId[p][o])
    /\ UNCHANGED <<opener, closed, call, offered, handler, streamId,
                   nextStreamId, wire, events, sent, got, ambiguous>>

\* The endpoint closes, for whatever reason: rejectAllPending, abortAll.
Close(p) ==
    /\ ~closed[p]
    /\ closed' = [closed EXCEPT ![p] = TRUE]
    /\ call' = [o \in Opens |-> IF opener[o] = p /\ call[o] = "asked"
                                THEN "failed" ELSE call[o]]
    /\ registry' = [registry EXCEPT ![p] = [i \in Ids |-> NoOpen]]
    /\ isClosed' = [isClosed EXCEPT ![p] =
                       [o \in Opens |-> @[o] \/ \E i \in Ids :
                                                   registry[p][i] = o]]
    /\ wire' = [wire EXCEPT ![p] = <<>>]
    /\ events' = [events EXCEPT ![p] = <<>>]
    /\ UNCHANGED <<opener, offered, handler, streamId, nextStreamId, sent, got,
                   ambiguous>>

-----------------------------------------------------------------------------
Next ==
    \/ \E o \in Opens :
          \/ OpenStream(o) \/ OpenTimeout(o) \/ OpenResumes(o)
          \/ HandlerStarts(o) \/ HandlerReturns(o) \/ HandlerFails(o)
    \/ \E p \in Peers :
          \/ Receive(p) \/ Consume(p) \/ Close(p)
          \/ \E o \in Opens : Send(p, o) \/ CloseStream(p, o)

Spec == Init /\ [][Next]_vars

-----------------------------------------------------------------------------
(* Properties                                                              *)

\* A Stream is open exactly while its registry routes its id to it: no chunk
\* is routed to a closed Stream, and no open Stream has been forgotten by the
\* registry, so that close() and the end of the connection reach it
\* (streamRegistry.ts 42-83, stream.ts 46-58).
RegistryAgrees ==
    \A p \in Peers :
        /\ \A o \in Opens : streamId[p][o] # 0 /\ ~isClosed[p][o] =>
              registry[p][streamId[p][o]] = o
        /\ \A i \in Ids : registry[p][i] # NoOpen =>
              streamId[p][registry[p][i]] = i /\ ~isClosed[p][registry[p][i]]

\* As long as an id names one stream of the connection, a chunk reaches the
\* other end of the Stream it was sent on and no other, however streams are
\* opened, refused, timed out and closed on either side.  (Ids are allocated
\* by the accepting side: this holds while one side opens, until its 2^32
\* ids wrap; when both open, both allocate from 1.)
OwnChunks ==
    ~ambiguous => \A p \in Peers, o \in Opens :
        \A k \in DOMAIN got[p][o] : got[p][o][k].open = o

\* Chunks arrive in order and, from the first one on, without a gap; at the
\* accepting end, whose context exists before its peer knows the id, from the
\* very first one sent.
NoGap ==
    ~ambiguous => \A p \in Peers, o \in Opens :
        LET g == got[p][o] IN
        /\ \A k \in DOMAIN g : g[k].n = g[1].n + k - 1
        /\ g # <<>> /\ p = Acceptor(o) => g[1].n = 1

\* Chunks arrive on their own Stream, in order and complete.
ChunksArrive == OwnChunks /\ NoGap

\* streamRegistry.ts line 3: the teardown releases all contexts when the
\* connection ends.  Refuted: see the run stream_teardown.
TeardownReleases ==
    \A p \in Peers : closed[p] => \A i \in Ids : registry[p][i] = NoOpen
=============================================================================
