------------------------------- MODULE Server -------------------------------
(***************************************************************************)
(* The SDK server (src/src/sdk/server.ts), the server side of its          *)
(* endpoints (src/src/endpoint/endpoint.ts) and the handlers they share    *)
(* (src/src/broker/broker.ts, router.ts) over the three server transports. *)
(*                                                                         *)
(* A connection is the id nextId gave it.  Its handshake is one step       *)
(* (module Session has the messages), one method stands for all, and a     *)
(* handler is a function that is registered once.  The onConnect listener  *)
(* may close the endpoint it is told of; one observer subscribed after it  *)
(* writes down what onConnect and onDisconnect tell.                       *)
(***************************************************************************)
EXTENDS Integers, Sequences, FiniteSets

CONSTANTS
    MaxConns,   \* bound: connections accepted
    Handlers,   \* bound: registrations of the method
    NoHandler,  \* getMethod found none
    Requests    \* bound: requests for the method that arrive

ASSUME ServerAssumption == MaxConns \in Nat /\ NoHandler \notin Handlers

Conns == 1..MaxConns
Scopes == 0..MaxConns  \* 0: the server's router; c: the router of c's broker

VARIABLES
    transport,  \* the kind of StreamServerTransport
    listening,  \* it accepts connections
    closing,    \* "open"; "waiting": close() awaits transport.close(); "closed"
    left,       \* history: endpoints that were connecting when close() ran
    socket,     \* each connection, as the transport server sees it
    lifecycle,  \* of its endpoint; "none": not accepted yet
    entries,    \* the registered endpoints
    told,       \* history: what the observer was told of each endpoint
    methodHandlers, \* the handler each router holds
    registered, \* history: the handlers given to each router, in order
    disposed,   \* history: the handlers whose disposer was called
    request     \* where each request stands

connVars == <<socket, lifecycle, entries, told>>
routerVars == <<methodHandlers, registered, disposed>>
serverVars == <<transport, listening, closing, left, connVars, routerVars, request>>

NoRequest == [conn |-> 0, handler |-> NoHandler, stage |-> "new"]

ServerTypeOK ==
    /\ transport \in {"tcp", "ws", "mock"}
    /\ listening \in BOOLEAN
    /\ closing \in {"open", "waiting", "closed"}
    /\ left \subseteq Conns
    /\ socket \in [Conns -> {"none", "open", "closing", "ended"}]
    /\ lifecycle \in [Conns -> {"none", "connecting", "ready", "closed"}]
    /\ entries \subseteq Conns
    /\ told \in [Conns -> Seq({"connect", "disconnect"})]
    /\ methodHandlers \in [Scopes -> Handlers \cup {NoHandler}]
    /\ registered \in [Scopes -> Seq(Handlers)]
    /\ disposed \subseteq Handlers
    /\ request \in [Requests ->
           [conn : Scopes, handler : Handlers \cup {NoHandler},
            stage : {"new", "running", "answered", "refused", "lost"}]]
    /\ \A c \in Conns : lifecycle[c] = "none" <=> socket[c] = "none"
    /\ \A r \in Requests :
          request[r].handler = NoHandler <=> request[r].stage \in {"new", "refused"}

ServerInit ==
    /\ transport \in {"tcp", "ws", "mock"}
    /\ listening = FALSE
    /\ closing = "open"
    /\ left = {}
    /\ socket = [c \in Conns |-> "none"]
    /\ lifecycle = [c \in Conns |-> "none"]
    /\ entries = {}
    /\ told = [c \in Conns |-> <<>>]
    /\ methodHandlers = [s \in Scopes |-> NoHandler]
    /\ registered = [s \in Scopes |-> <<>>]
    /\ disposed = {}
    /\ request = [r \in Requests |-> NoRequest]

-----------------------------------------------------------------------------
(* Connections                                                             *)

Live(c) == lifecycle[c] \in {"connecting", "ready"}

\* What the transport makes of close() and terminate(): WebSocket's close
\* waits for the closing handshake.
SocketAfter(c, terminate) ==
    IF transport = "ws" /\ ~terminate /\ socket[c] = "open"
    THEN "closing" ELSE "ended"

\* Mutant of CloseEndpoints: the endpoint stays among the entries.
CloseEndpointsKeeps(S, terminate) ==
    /\ lifecycle' = [c \in Conns |-> IF c \in S THEN "closed" ELSE lifecycle[c]]
    /\ socket' = [c \in Conns |->
                     IF c \in S THEN SocketAfter(c, terminate) ELSE socket[c]]
    /\ UNCHANGED <<entries, told>>

\* endpoint.close() of every endpoint in S, with the server's onClose
\* listener: one that is registered is removed and onDisconnect tells of it.
CloseEndpoints(S, terminate) ==
    /\ lifecycle' = [c \in Conns |-> IF c \in S THEN "closed" ELSE lifecycle[c]]
    /\ socket' = [c \in Conns |->
                     IF c \in S THEN SocketAfter(c, terminate) ELSE socket[c]]
    /\ entries' = entries \ S
    /\ told' = [c \in Conns |-> IF c \in S \cap entries
                                THEN Append(told[c], "disconnect") ELSE told[c]]

Listen ==
    /\ closing = "open" /\ ~listening
    /\ listening' = TRUE
    /\ UNCHANGED <<transport, closing, left, connVars, routerVars, request>>

\* adopt: the next id, a started endpoint.
Adopt(c) ==
    /\ lifecycle[c] = "none"
    /\ \A d \in 1..(c - 1) : lifecycle[d] # "none"
    /\ lifecycle' = [lifecycle EXCEPT ![c] = "connecting"]

\* The transport server's onConnection.
Accept(c) ==
    /\ listening
    /\ Adopt(c)
    /\ socket' = [socket EXCEPT ![c] = "open"]
    /\ UNCHANGED <<transport, listening, closing, left, entries, told,
                   routerVars, request>>

\* onReady: registered and told of, unless the server has closed.
EndpointReady(c) ==
    /\ lifecycle[c] = "connecting"
    /\ lifecycle' = [lifecycle EXCEPT ![c] = "ready"]
    /\ IF closing # "open"
       THEN UNCHANGED <<entries, told>>
       ELSE /\ entries' = entries \cup {c}
            /\ told' = [told EXCEPT ![c] = Append(@, "connect")]
    /\ UNCHANGED <<transport, listening, closing, left, socket, routerVars,
                   request>>

\* onReady, and the onConnect listener closes the endpoint: the observer,
\* which onConnect calls next, has been told of its end already.
ReadyAndClosed(c, terminate) ==
    /\ lifecycle[c] = "connecting"
    /\ closing = "open"
    /\ lifecycle' = [lifecycle EXCEPT ![c] = "closed"]
    /\ socket' = [socket EXCEPT ![c] = SocketAfter(c, terminate)]
    /\ told' = [told EXCEPT ![c] = @ \o <<"disconnect", "connect">>]
    /\ UNCHANGED <<transport, listening, closing, left, entries, routerVars,
                   request>>

\* The endpoint closes: the application, a handler, its heartbeat, a failed
\* handshake or the peer's CLOSE.
EndpointCloses(c, terminate) ==
    /\ Live(c)
    /\ CloseEndpoints({c}, terminate)
    /\ UNCHANGED <<transport, listening, closing, left, routerVars, request>>

PeerLeaves(c) ==
    /\ socket[c] = "open"
    /\ socket' = [socket EXCEPT ![c] = "ended"]
    /\ UNCHANGED <<transport, listening, closing, left, lifecycle, entries,
                   told, routerVars, request>>

\* consume reads the end of the stream.
StreamEnds(c) ==
    /\ socket[c] = "ended" /\ Live(c)
    /\ CloseEndpoints({c}, FALSE)
    /\ UNCHANGED <<transport, listening, closing, left, routerVars, request>>

\* The closing handshake of a WebSocket completes, or its timer ends it.
SocketEnds(c) ==
    /\ socket[c] = "closing"
    /\ socket' = [socket EXCEPT ![c] = "ended"]
    /\ UNCHANGED <<transport, listening, closing, left, lifecycle, entries,
                   told, routerVars, request>>

-----------------------------------------------------------------------------
(* close()                                                                 *)

\* Mutant of Close: the entries are cleared before they are closed.
CloseCleared ==
    /\ closing = "open"
    /\ closing' = "waiting"
    /\ listening' = FALSE
    /\ left' = {c \in Conns : lifecycle[c] = "connecting"}
    /\ entries' = {}
    /\ UNCHANGED <<transport, socket, lifecycle, told, routerVars, request>>

\* Only the registered endpoints are closed; then transport.close().
Close ==
    /\ closing = "open"
    /\ closing' = "waiting"
    /\ listening' = FALSE
    /\ left' = {c \in Conns : lifecycle[c] = "connecting"}
    /\ CloseEndpoints(entries, FALSE)
    /\ UNCHANGED <<transport, routerVars, request>>

\* net.Server and WebSocketServer close when every connection has ended.
TransportCloses ==
    /\ closing = "waiting"
    /\ transport = "mock" \/ \A c \in Conns : socket[c] \in {"none", "ended"}
    /\ closing' = "closed"
    /\ UNCHANGED <<transport, listening, left, connVars, routerVars, request>>

-----------------------------------------------------------------------------
(* Handlers and requests                                                   *)

\* setMethod, of the server or of an endpoint's broker.
SetMethod(s, h) ==
    /\ s \in Conns => lifecycle[s] # "none"
    /\ \A t \in Scopes : \A i \in DOMAIN registered[t] : registered[t][i] # h
    /\ methodHandlers' = [methodHandlers EXCEPT ![s] = h]
    /\ registered' = [registered EXCEPT ![s] = Append(@, h)]
    /\ UNCHANGED <<transport, listening, closing, left, connVars, disposed,
                   request>>

\* Mutant of Unset: the disposer does not look whose entry it deletes.
UnsetAny(s, h) == methodHandlers' = [methodHandlers EXCEPT ![s] = NoHandler]

\* The router deletes the method if h still serves it.
Unset(s, h) ==
    methodHandlers' =
        [methodHandlers EXCEPT ![s] = IF @ = h THEN NoHandler ELSE @]

\* The function setMethod returned is called.
Dispose(s, h) ==
    /\ \E i \in DOMAIN registered[s] : registered[s][i] = h
    /\ h \notin disposed
    /\ disposed' = disposed \cup {h}
    /\ Unset(s, h)
    /\ UNCHANGED <<transport, listening, closing, left, connVars, registered,
                   request>>

\* The endpoint's own handler, else the server's.
GetMethod(c) ==
    IF methodHandlers[c] # NoHandler THEN methodHandlers[c] ELSE methodHandlers[0]

\* Mutant of DispatchRequest: a request without a handler is not refused.
DispatchUnchecked(r, c) ==
    /\ request[r].stage = "new"
    /\ lifecycle[c] = "ready"
    /\ request' = [request EXCEPT ![r] =
          [conn |-> c, handler |-> GetMethod(c), stage |-> "running"]]
    /\ UNCHANGED <<transport, listening, closing, left, connVars, routerVars>>

\* dispatchRequest: the handler is looked up now and runs a microtask later.
DispatchRequest(r, c) ==
    /\ request[r].stage = "new"
    /\ lifecycle[c] = "ready"
    /\ request' = [request EXCEPT ![r] =
          [conn |-> c, handler |-> GetMethod(c),
           stage |-> IF GetMethod(c) = NoHandler THEN "refused" ELSE "running"]]
    /\ UNCHANGED <<transport, listening, closing, left, connVars, routerVars>>

\* The handler returns or throws; what it answers on a closed endpoint is lost.
HandlerSettles(r) ==
    /\ request[r].stage = "running"
    /\ request' = [request EXCEPT ![r].stage =
          IF lifecycle[request[r].conn] = "closed" THEN "lost" ELSE "answered"]
    /\ UNCHANGED <<transport, listening, closing, left, connVars, routerVars>>

-----------------------------------------------------------------------------
ServerNext ==
    \/ Listen
    \/ Close
    \/ TransportCloses
    \/ \E c \in Conns :
          \/ Accept(c) \/ EndpointReady(c)
          \/ PeerLeaves(c) \/ StreamEnds(c) \/ SocketEnds(c)
          \/ \E terminate \in BOOLEAN :
                ReadyAndClosed(c, terminate) \/ EndpointCloses(c, terminate)
    \/ \E s \in Scopes, h \in Handlers : SetMethod(s, h) \/ Dispose(s, h)
    \/ \E r \in Requests :
          (\E c \in Conns : DispatchRequest(r, c)) \/ HandlerSettles(r)

ServerSpec == ServerInit /\ [][ServerNext]_serverVars

\* The transport reports what ended.
ServerFairness ==
    /\ WF_serverVars(TransportCloses)
    /\ \A c \in Conns : WF_serverVars(StreamEnds(c)) /\ WF_serverVars(SocketEnds(c))

ServerFairSpec == ServerSpec /\ ServerFairness

-----------------------------------------------------------------------------
(* Properties                                                              *)

\* requireReady of an endpoint, which call and emit begin with.
Ready(c) == lifecycle[c] = "ready"

\* What callRaw, emitRaw without a filter, and emitToRaw reach.
Callable == {c \in Conns : c \in entries /\ Ready(c)}
Targets == {c \in entries : Ready(c)}
TargetOf(id) == IF id \in entries /\ Ready(id) THEN {id} ELSE {}

Told(c, notice) == Cardinality({i \in DOMAIN told[c] : told[c][i] = notice})

\* The entries are the ready endpoints of an open server, so emit, getEndpoint
\* and call reach all of them and no other; the observer's count agrees with
\* them, whoever closes an endpoint and when, and each is told of once.
EntriesAgree ==
    /\ closing = "open" => entries = {c \in Conns : lifecycle[c] = "ready"}
    /\ closing # "open" => entries = {}
    /\ Targets = entries /\ Callable = entries
    /\ UNION {TargetOf(c) : c \in Conns} = entries
    /\ \A c \in Conns :
          /\ Told(c, "connect") <= 1
          /\ Told(c, "connect") - Told(c, "disconnect")
                = IF c \in entries THEN 1 ELSE 0

\* A router serves with the handler registered last until its own disposer is
\* called, whatever the disposers of replaced handlers do meanwhile.
LatestServes ==
    \A s \in Scopes :
        LET n == Len(registered[s])
            latest == IF n > 0 THEN registered[s][n] ELSE NoHandler
        IN methodHandlers[s] =
               IF latest \in disposed THEN NoHandler ELSE latest

\* close() returns, provided the peers that were still connecting when it was
\* called leave: their endpoints it does not close, and nobody else does.
CloseReturns ==
    closing = "waiting" /\ (\A c \in left : socket[c] = "ended")
        ~> closing = "closed"
=============================================================================
