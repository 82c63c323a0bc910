---------------------------- MODULE ServerProofs ----------------------------
(***************************************************************************)
(* The safety of the server, for any number of connections, handlers and   *)
(* requests.                                                               *)
(*                                                                         *)
(* EntriesAgree counts what the observer was told; what is inductive is    *)
(* the whole history of each connection (ToldOf), which has four shapes:   *)
(* the last one is that of a listener that closes the endpoint it is told  *)
(* of.  LatestServes rests on RegisteredOnce: a handler that was replaced  *)
(* is not registered anywhere else, so its disposer cannot hit.            *)
(***************************************************************************)
EXTENDS Server, SequenceTheorems, FiniteSetTheorems, TLAPS

\* The server knows the ready endpoints while it is open, and none later.
EntriesReady ==
    entries = IF closing = "open" THEN {c \in Conns : lifecycle[c] = "ready"} ELSE {}

\* What the observer is told of an endpoint, in the orders that can happen.
Histories ==
    {<<>>, <<"connect">>, <<"connect", "disconnect">>, <<"disconnect", "connect">>}

\* The observer knows of the entries, and of nothing that has not been ready.
ToldOf ==
    \A c \in Conns :
        /\ told[c] \in Histories
        /\ told[c] = <<"connect">> <=> c \in entries
        /\ lifecycle[c] \in {"none", "connecting"} => told[c] = <<>>

\* A handler is registered once, in one place, and disposed of after that.
RegisteredOnce ==
    /\ \A s, t \in Scopes : \A i \in DOMAIN registered[s], j \in DOMAIN registered[t] :
          registered[s][i] = registered[t][j] => s = t
    /\ \A h \in disposed : \E s \in Scopes : \E i \in DOMAIN registered[s] :
          registered[s][i] = h

\* The invariant of the connections,
ConnInv ==
    /\ transport \in {"tcp", "ws", "mock"}
    /\ listening \in BOOLEAN
    /\ closing \in {"open", "waiting", "closed"}
    /\ left \subseteq Conns
    /\ socket \in [Conns -> {"none", "open", "closing", "ended"}]
    /\ lifecycle \in [Conns -> {"none", "connecting", "ready", "closed"}]
    /\ \A c \in Conns : lifecycle[c] = "none" <=> socket[c] = "none"
    /\ told \in [Conns -> Histories]
    /\ EntriesReady
    /\ ToldOf

\* of the routers,
RouterInv ==
    /\ methodHandlers \in [Scopes -> Handlers \cup {NoHandler}]
    /\ registered \in [Scopes -> Seq(Handlers)]
    /\ disposed \subseteq Handlers
    /\ RegisteredOnce
    /\ LatestServes

\* and of the requests.
RequestInv ==
    /\ request \in [Requests ->
           [conn : Scopes, handler : Handlers \cup {NoHandler},
            stage : {"new", "running", "answered", "refused", "lost"}]]
    /\ \A r \in Requests :
          request[r].handler = NoHandler <=> request[r].stage \in {"new", "refused"}

\* The inductive invariant.
ServerInv == ConnInv /\ RouterInv /\ RequestInv

-----------------------------------------------------------------------------
(* Connections                                                             *)

\* The histories differ from each other, and how one grows into the next.
LEMMA HistoriesDiffer ==
    /\ <<>> # <<"connect">> /\ <<"connect">> # <<"connect", "disconnect">>
    /\ <<"connect">> # <<"disconnect", "connect">>
    /\ Append(<<>>, "connect") = <<"connect">>
    /\ Append(<<"connect">>, "disconnect") = <<"connect", "disconnect">>
    /\ <<>> \o <<"disconnect", "connect">> = <<"disconnect", "connect">>
<1> DEFINE T == {"connect", "disconnect"}
<1>1. /\ Len(<<>>) = 0 /\ Len(<<"connect">>) = 1
      /\ Len(<<"connect", "disconnect">>) = 2
      /\ Len(<<"disconnect", "connect">>) = 2
  OBVIOUS
<1>1a. <<>> # <<"connect">> /\ <<"connect">> # <<"connect", "disconnect">>
  BY <1>1
<1>2. <<"connect">> # <<"disconnect", "connect">>
  BY <1>1
<1>3. Append(<<>>, "connect") = <<"connect">>
  OBVIOUS
<1>4. Append(<<"connect">>, "disconnect") = <<"connect", "disconnect">>
  <2> DEFINE a == Append(<<"connect">>, "disconnect")
             b == <<"connect", "disconnect">>
  <2>1. <<"connect">> \in Seq(T) /\ "disconnect" \in T /\ b \in Seq(T)
    OBVIOUS
  <2>2. /\ a \in Seq(T) /\ Len(a) = 2 /\ a[1] = "connect" /\ a[2] = "disconnect"
    BY <2>1, <1>1
  <2>3. Len(b) = 2 /\ b[1] = "connect" /\ b[2] = "disconnect"
    OBVIOUS
  <2> HIDE DEF a, b, T
  <2>4. \A i \in 1..Len(a) : a[i] = b[i]
    BY <2>2, <2>3
  <2>5. a = b
    BY <2>1, <2>2, <2>3, <2>4, SeqEqual
  <2>6. QED
    BY <2>5 DEF a, b
<1>5. <<>> \o <<"disconnect", "connect">> = <<"disconnect", "connect">>
  <2>1. <<"disconnect", "connect">> \in Seq(T)
    OBVIOUS
  <2>2. QED
    BY <2>1, ConcatEmptySeq
<1>6. QED
  BY <1>1a, <1>2, <1>3, <1>4, <1>5

\* Endpoints close: all of S, which a closed server has none of registered.
LEMMA CloseEndpointsInv ==
    ASSUME ConnInv, NEW S \in SUBSET Conns, \A c \in S : Live(c),
           NEW terminate \in BOOLEAN, CloseEndpoints(S, terminate),
           closing' = closing \/ (S = entries /\ closing' = "waiting"),
           listening' \in BOOLEAN, left' \subseteq Conns, transport' = transport
    PROVE  ConnInv'
<1> USE DEF ConnInv, CloseEndpoints
<1>1. socket' \in [Conns -> {"none", "open", "closing", "ended"}]
  BY DEF SocketAfter
<1>2. lifecycle' \in [Conns -> {"none", "connecting", "ready", "closed"}]
  OBVIOUS
<1>3. \A c \in Conns : lifecycle'[c] = "none" <=> socket'[c] = "none"
  <2> SUFFICES ASSUME NEW c \in Conns
               PROVE  lifecycle'[c] = "none" <=> socket'[c] = "none"
    OBVIOUS
  <2>1. CASE c \in S
    BY <2>1 DEF SocketAfter, Live
  <2>2. CASE c \notin S
    BY <2>2
  <2>3. QED
    BY <2>1, <2>2
<1>4. closing' \in {"open", "waiting", "closed"}
  OBVIOUS
<1>5. EntriesReady'
  BY DEF EntriesReady
<1>6. ToldOf'
  <2> SUFFICES ASSUME NEW c \in Conns
               PROVE  /\ told'[c] \in Histories
                      /\ told'[c] = <<"connect">> <=> c \in entries'
                      /\ lifecycle'[c] \in {"none", "connecting"} => told'[c] = <<>>
    BY DEF ToldOf
  <2>1. /\ told[c] \in Histories
        /\ told[c] = <<"connect">> <=> c \in entries
        /\ lifecycle[c] \in {"none", "connecting"} => told[c] = <<>>
    BY DEF ToldOf
  <2>2. CASE c \in S \cap entries
    <3>1. told'[c] = <<"connect", "disconnect">>
      BY <2>1, <2>2, HistoriesDiffer
    <3>2. c \notin entries' /\ lifecycle'[c] = "closed"
      BY <2>2
    <3>3. QED
      BY <3>1, <3>2, HistoriesDiffer DEF Histories
  <2>3. CASE c \notin S \cap entries
    <3>1. told'[c] = told[c] /\ (c \in entries' <=> c \in entries)
      BY <2>3
    <3>2. lifecycle'[c] \in {"none", "connecting"} => lifecycle'[c] = lifecycle[c]
      OBVIOUS
    <3>3. QED
      BY <2>1, <3>1, <3>2
  <2>4. QED
    BY <2>2, <2>3
<1>7. told' \in [Conns -> Histories]
  BY <1>6 DEF ToldOf
<1>8. QED
  BY <1>1, <1>2, <1>3, <1>4, <1>5, <1>6, <1>7

\* Every step preserves the invariant of the connections.
LEMMA ConnInvKept == ConnInv /\ [ServerNext]_serverVars => ConnInv'
<1> SUFFICES ASSUME ConnInv, [ServerNext]_serverVars PROVE ConnInv'
    OBVIOUS
<1>0. CASE UNCHANGED <<transport, listening, closing, left, connVars>>
  BY <1>0 DEF ConnInv, EntriesReady, ToldOf, connVars
<1>1. CASE Listen
  BY <1>1 DEF Listen, ConnInv, EntriesReady, ToldOf, connVars
<1>2. CASE Close
  <2>1. entries \in SUBSET Conns /\ \A c \in entries : Live(c)
    BY DEF ConnInv, EntriesReady, Live
  <2>2. /\ CloseEndpoints(entries, FALSE) /\ closing' = "waiting"
        /\ listening' \in BOOLEAN /\ left' \subseteq Conns /\ transport' = transport
    BY <1>2 DEF Close
  <2>3. QED
    BY <2>1, <2>2, CloseEndpointsInv
<1>3. CASE TransportCloses
  BY <1>3 DEF TransportCloses, ConnInv, EntriesReady, ToldOf, connVars
<1>4. ASSUME NEW c \in Conns, Accept(c) PROVE ConnInv'
  <2> USE <1>4 DEF Accept, Adopt
  <2>1. /\ lifecycle[c] = "none" /\ c \notin entries
        /\ \A d \in Conns : d # c => lifecycle'[d] = lifecycle[d] /\ socket'[d] = socket[d]
        /\ lifecycle'[c] = "connecting" /\ socket'[c] = "open"
    BY DEF ConnInv, EntriesReady
  <2>2. ToldOf'
    BY <2>1 DEF ConnInv, ToldOf
  <2>3. EntriesReady'
    BY <2>1 DEF ConnInv, EntriesReady
  <2>4. QED
    BY <2>1, <2>2, <2>3 DEF ConnInv
<1>5. ASSUME NEW c \in Conns, EndpointReady(c) PROVE ConnInv'
  <2> USE <1>5 DEF EndpointReady
  <2>1. /\ lifecycle[c] = "connecting" /\ c \notin entries
        /\ \A d \in Conns : d # c => lifecycle'[d] = lifecycle[d] /\ told'[d] = told[d]
        /\ lifecycle'[c] = "ready"
    BY DEF ConnInv, EntriesReady
  <2>2. told[c] = <<>>
    BY <2>1 DEF ConnInv, ToldOf
  <2>3. EntriesReady'
    BY <2>1 DEF ConnInv, EntriesReady
  <2>4. /\ told'[c] \in Histories
        /\ told'[c] = <<"connect">> <=> c \in entries'
    <3>1. CASE closing = "open"
      BY <3>1, <2>2, HistoriesDiffer DEF ConnInv, Histories
    <3>2. CASE closing # "open"
      BY <3>2, <2>1, <2>2, HistoriesDiffer DEF Histories
    <3>3. QED
      BY <3>1, <3>2
  <2>5. ToldOf'
    BY <2>1, <2>4 DEF ConnInv, ToldOf
  <2>6. told' \in [Conns -> Histories]
    BY <2>4 DEF ConnInv
  <2>7. QED
    BY <2>1, <2>3, <2>5, <2>6 DEF ConnInv
<1>6. ASSUME NEW c \in Conns, NEW terminate \in BOOLEAN, ReadyAndClosed(c, terminate)
      PROVE  ConnInv'
  <2> USE <1>6 DEF ReadyAndClosed
  <2>1. /\ lifecycle[c] = "connecting" /\ c \notin entries
        /\ \A d \in Conns : d # c => /\ lifecycle'[d] = lifecycle[d]
                                     /\ told'[d] = told[d] /\ socket'[d] = socket[d]
        /\ lifecycle'[c] = "closed" /\ socket'[c] \in {"closing", "ended"}
    BY DEF ConnInv, EntriesReady, SocketAfter
  <2>2. told[c] = <<>>
    BY <2>1 DEF ConnInv, ToldOf
  <2>3. EntriesReady'
    BY <2>1 DEF ConnInv, EntriesReady
  <2>4. told'[c] = <<"disconnect", "connect">>
    BY <2>2, HistoriesDiffer DEF ConnInv
  <2>5. ToldOf'
    BY <2>1, <2>4, HistoriesDiffer DEF ConnInv, ToldOf, Histories
  <2>6. told' \in [Conns -> Histories]
    BY <2>4 DEF ConnInv, Histories
  <2>7. QED
    BY <2>1, <2>3, <2>5, <2>6 DEF ConnInv, SocketAfter
<1>7. ASSUME NEW c \in Conns, NEW terminate \in BOOLEAN,
             Live(c), CloseEndpoints({c}, terminate),
             UNCHANGED <<transport, listening, closing, left>>
      PROVE  ConnInv'
  <2>1. {c} \in SUBSET Conns /\ \A d \in {c} : Live(d)
    BY <1>7
  <2>2. listening' \in BOOLEAN /\ left' \subseteq Conns
    BY <1>7 DEF ConnInv
  <2>3. QED
    BY <1>7, <2>1, <2>2, CloseEndpointsInv
<1>8. ASSUME NEW c \in Conns, PeerLeaves(c) \/ SocketEnds(c)
      PROVE  ConnInv'
  BY <1>8 DEF PeerLeaves, SocketEnds, ConnInv, EntriesReady, ToldOf
<1>9. ASSUME NEW c \in Conns, NEW terminate \in BOOLEAN, EndpointCloses(c, terminate)
      PROVE  ConnInv'
  BY <1>7, <1>9 DEF EndpointCloses
<1>10. ASSUME NEW c \in Conns, StreamEnds(c)
       PROVE  ConnInv'
  BY <1>7, <1>10 DEF StreamEnds
<1>11. ASSUME NEW s \in Scopes, NEW h \in Handlers, SetMethod(s, h) \/ Dispose(s, h)
       PROVE  ConnInv'
  BY <1>0, <1>11 DEF SetMethod, Dispose
<1>12. ASSUME NEW r \in Requests,
              (\E c \in Conns : DispatchRequest(r, c)) \/ HandlerSettles(r)
       PROVE  ConnInv'
  BY <1>0, <1>12 DEF DispatchRequest, HandlerSettles
<1>13. CASE UNCHANGED serverVars
  BY <1>0, <1>13 DEF serverVars
<1>14. QED
  BY <1>1, <1>2, <1>3, <1>4, <1>5, <1>6, <1>8, <1>9, <1>10, <1>11, <1>12, <1>13
     DEF ServerNext

-----------------------------------------------------------------------------
(* Routers and requests                                                    *)

\* Every step preserves the invariant of the routers: a handler is registered
\* once, so the disposer of a replaced one finds another in its place.
LEMMA RouterInvKept ==
    ASSUME RouterInv, [ServerNext]_serverVars PROVE RouterInv'
<1> USE ServerAssumption
<1>0. CASE UNCHANGED routerVars
  BY <1>0 DEF RouterInv, RegisteredOnce, LatestServes, routerVars
<1>1. ASSUME NEW s \in Scopes, NEW h \in Handlers, SetMethod(s, h)
      PROVE  RouterInv'
  <2> USE <1>1 DEF SetMethod
  <2>1. /\ methodHandlers' \in [Scopes -> Handlers \cup {NoHandler}]
        /\ registered' \in [Scopes -> Seq(Handlers)]
        /\ disposed' = disposed /\ disposed \subseteq Handlers
    BY DEF RouterInv
  <2>2. /\ registered'[s] = Append(registered[s], h)
        /\ methodHandlers'[s] = h
        /\ \A t \in Scopes : t # s => /\ registered'[t] = registered[t]
                                     /\ methodHandlers'[t] = methodHandlers[t]
    BY DEF RouterInv
  <2>3. /\ registered[s] \in Seq(Handlers)
        /\ \A t \in Scopes : \A i \in DOMAIN registered[t] : registered[t][i] # h
    BY DEF RouterInv
  <2>4. /\ Len(registered'[s]) = Len(registered[s]) + 1 /\ Len(registered[s]) \in Nat
        /\ registered'[s][Len(registered[s]) + 1] = h
        /\ DOMAIN registered'[s] = 1..(Len(registered[s]) + 1)
        /\ DOMAIN registered[s] = 1..Len(registered[s])
        /\ \A i \in DOMAIN registered[s] : registered'[s][i] = registered[s][i]
        /\ \A i \in DOMAIN registered'[s] :
              i \in DOMAIN registered[s] \/ registered'[s][i] = h
    BY <2>2, <2>3
  <2>5. h \notin disposed
    BY <2>3 DEF RouterInv, RegisteredOnce
  <2>6. RegisteredOnce'
    <3>1. ASSUME NEW t \in Scopes, NEW u \in Scopes,
                 NEW i \in DOMAIN registered'[t], NEW j \in DOMAIN registered'[u],
                 registered'[t][i] = registered'[u][j]
          PROVE  t = u
      <4>1. \/ i \in DOMAIN registered[t] /\ registered'[t][i] = registered[t][i]
            \/ t = s /\ registered'[t][i] = h
        BY <2>2, <2>4
      <4>2. \/ j \in DOMAIN registered[u] /\ registered'[u][j] = registered[u][j]
            \/ u = s /\ registered'[u][j] = h
        BY <2>2, <2>4
      <4>3. QED
        BY <3>1, <4>1, <4>2, <2>3 DEF RouterInv, RegisteredOnce
    <3>2. ASSUME NEW g \in disposed
          PROVE  \E t \in Scopes : \E i \in DOMAIN registered'[t] : registered'[t][i] = g
      <4>0. PICK t \in Scopes : \E i \in DOMAIN registered[t] : registered[t][i] = g
        BY DEF RouterInv, RegisteredOnce
      <4>1. PICK i \in DOMAIN registered[t] : registered[t][i] = g
        BY <4>0
      <4>2. i \in DOMAIN registered'[t] /\ registered'[t][i] = g
        BY <4>1, <2>2, <2>4
      <4>3. QED
        BY <4>2
    <3>3. QED
      BY <3>1, <3>2, <2>1 DEF RegisteredOnce
  <2>7. LatestServes'
    <3> SUFFICES ASSUME NEW t \in Scopes
                 PROVE  LET n == Len(registered'[t])
                            latest == IF n > 0 THEN registered'[t][n] ELSE NoHandler
                        IN methodHandlers'[t] =
                              IF latest \in disposed' THEN NoHandler ELSE latest
      BY DEF LatestServes
    <3>1. CASE t = s
      BY <3>1, <2>1, <2>2, <2>4, <2>5
    <3>2. CASE t # s
      BY <3>2, <2>1, <2>2 DEF RouterInv, LatestServes
    <3>3. QED
      BY <3>1, <3>2
  <2>8. QED
    BY <2>1, <2>6, <2>7 DEF RouterInv
<1>2. ASSUME NEW s \in Scopes, NEW h \in Handlers, Dispose(s, h)
      PROVE  RouterInv'
  <2> USE <1>2 DEF Dispose, Unset
  <2>1. /\ methodHandlers' \in [Scopes -> Handlers \cup {NoHandler}]
        /\ registered' = registered
        /\ disposed' = disposed \cup {h} /\ disposed' \subseteq Handlers
    BY DEF RouterInv
  <2>2. PICK k \in DOMAIN registered[s] : registered[s][k] = h
    OBVIOUS
  <2>3. RegisteredOnce'
    BY <2>1, <2>2 DEF RouterInv, RegisteredOnce
  <2>4. LatestServes'
    <3> SUFFICES ASSUME NEW t \in Scopes
                 PROVE  LET n == Len(registered[t])
                            latest == IF n > 0 THEN registered[t][n] ELSE NoHandler
                        IN methodHandlers'[t] =
                              IF latest \in disposed' THEN NoHandler ELSE latest
      BY <2>1 DEF LatestServes
    <3> DEFINE n == Len(registered[t])
               latest == IF n > 0 THEN registered[t][n] ELSE NoHandler
    <3>1. methodHandlers[t] = IF latest \in disposed THEN NoHandler ELSE latest
      BY DEF RouterInv, LatestServes
    <3>2. NoHandler \notin disposed /\ NoHandler # h
      BY DEF RouterInv
    <3>3. CASE t = s
      <4>1. methodHandlers'[t] = IF methodHandlers[t] = h THEN NoHandler
                                 ELSE methodHandlers[t]
        BY <3>3 DEF RouterInv
      <4> HIDE DEF latest
      <4>2. QED
        BY <2>1, <3>1, <3>2, <4>1 DEF latest
    <3>4. CASE t # s
      <4>1. methodHandlers'[t] = methodHandlers[t]
        BY <3>4 DEF RouterInv
      <4>2. latest # h
        <5>1. registered[t] \in Seq(Handlers)
          BY DEF RouterInv
        <5>2. n > 0 => n \in DOMAIN registered[t]
          BY <5>1
        <5>3. \A i \in DOMAIN registered[t] : registered[t][i] # h
          BY <2>2, <3>4 DEF RouterInv, RegisteredOnce
        <5>4. QED
          BY <5>2, <5>3, <3>2
      <4> HIDE DEF latest
      <4>3. QED
        BY <2>1, <3>1, <4>1, <4>2 DEF latest
    <3>5. QED
      BY <3>3, <3>4
  <2>5. QED
    BY <2>1, <2>3, <2>4 DEF RouterInv
<1>3. CASE Listen \/ Close \/ TransportCloses \/ UNCHANGED serverVars
  BY <1>0, <1>3 DEF Listen, Close, TransportCloses, serverVars
<1>4. ASSUME NEW c \in Conns, NEW terminate \in BOOLEAN,
             \/ Accept(c) \/ EndpointReady(c) \/ PeerLeaves(c) \/ StreamEnds(c)
             \/ SocketEnds(c) \/ ReadyAndClosed(c, terminate)
             \/ EndpointCloses(c, terminate)
      PROVE  RouterInv'
  BY <1>0, <1>4 DEF Accept, EndpointReady, PeerLeaves, StreamEnds, SocketEnds,
                    ReadyAndClosed, EndpointCloses
<1>5. ASSUME NEW r \in Requests,
             (\E c \in Conns : DispatchRequest(r, c)) \/ HandlerSettles(r)
      PROVE  RouterInv'
  BY <1>0, <1>5 DEF DispatchRequest, HandlerSettles
<1>6. QED
  BY <1>1, <1>2, <1>3, <1>4, <1>5 DEF ServerNext

\* Every step preserves the invariant of the requests.
LEMMA RequestInvKept ==
    ASSUME RouterInv, RequestInv, [ServerNext]_serverVars PROVE RequestInv'
<1> USE ServerAssumption
<1>0. CASE UNCHANGED request
  BY <1>0 DEF RequestInv
<1>1. ASSUME NEW r \in Requests, NEW c \in Conns, DispatchRequest(r, c)
      PROVE  RequestInv'
  <2>1. c \in Scopes /\ 0 \in Scopes
    BY DEF Conns, Scopes
  <2>2. GetMethod(c) \in Handlers \cup {NoHandler}
    BY <2>1 DEF RouterInv, GetMethod
  <2> DEFINE q == [conn |-> c, handler |-> GetMethod(c),
                   stage |-> IF GetMethod(c) = NoHandler THEN "refused" ELSE "running"]
  <2>3. request' = [request EXCEPT ![r] = q]
    BY <1>1 DEF DispatchRequest
  <2>4. /\ q \in [conn : Scopes, handler : Handlers \cup {NoHandler},
                  stage : {"new", "running", "answered", "refused", "lost"}]
        /\ q.handler = NoHandler <=> q.stage \in {"new", "refused"}
    BY <2>1, <2>2
  <2> HIDE DEF q
  <2>5. QED
    BY <2>3, <2>4 DEF RequestInv
<1>2. ASSUME NEW r \in Requests, HandlerSettles(r)
      PROVE  RequestInv'
  <2>1. PICK st \in {"lost", "answered"} : request' = [request EXCEPT ![r].stage = st]
    BY <1>2 DEF HandlerSettles
  <2>2. request[r].stage = "running"
    BY <1>2 DEF HandlerSettles
  <2>3. QED
    BY <2>1, <2>2 DEF RequestInv
<1>3. CASE Listen \/ Close \/ TransportCloses \/ UNCHANGED serverVars
  BY <1>0, <1>3 DEF Listen, Close, TransportCloses, serverVars
<1>4. ASSUME NEW c \in Conns, NEW terminate \in BOOLEAN,
             \/ Accept(c) \/ EndpointReady(c) \/ PeerLeaves(c) \/ StreamEnds(c)
             \/ SocketEnds(c) \/ ReadyAndClosed(c, terminate)
             \/ EndpointCloses(c, terminate)
      PROVE  RequestInv'
  BY <1>0, <1>4 DEF Accept, EndpointReady, PeerLeaves, StreamEnds, SocketEnds,
                    ReadyAndClosed, EndpointCloses
<1>5. ASSUME NEW s \in Scopes, NEW h \in Handlers, SetMethod(s, h) \/ Dispose(s, h)
      PROVE  RequestInv'
  BY <1>0, <1>5 DEF SetMethod, Dispose
<1>6. QED
  BY <1>1, <1>2, <1>3, <1>4, <1>5 DEF ServerNext

-----------------------------------------------------------------------------
(* Theorems                                                                *)

\* A new server satisfies the invariant.
LEMMA InitServerInv == ServerInit => ServerInv
<1> SUFFICES ASSUME ServerInit PROVE ServerInv
    OBVIOUS
<1> USE ServerAssumption DEF ServerInit
<1>1. ConnInv
  BY HistoriesDiffer DEF ConnInv, EntriesReady, ToldOf, Histories
<1>2. RouterInv
  <2>1. Len(<<>>) = 0 /\ DOMAIN <<>> = {} /\ <<>> \in Seq(Handlers)
    OBVIOUS
  <2>2. RegisteredOnce
    BY <2>1 DEF RegisteredOnce
  <2>3. LatestServes
    BY <2>1 DEF LatestServes
  <2>4. QED
    BY <2>1, <2>2, <2>3 DEF RouterInv
<1>3. RequestInv
  BY DEF RequestInv, NoRequest, Scopes
<1>4. QED
  BY <1>1, <1>2, <1>3 DEF ServerInv

\* The inductive invariant holds in every reachable state.
THEOREM ServerInvariance == ServerSpec => []ServerInv
<1>1. ServerInv /\ [ServerNext]_serverVars => ServerInv'
  BY ConnInvKept, RouterInvKept, RequestInvKept DEF ServerInv
<1>2. QED
  BY <1>1, InitServerInv, PTL DEF ServerSpec

\* What the observer is told has its type.
LEMMA HistoryType ==
    ASSUME ConnInv PROVE told \in [Conns -> Seq({"connect", "disconnect"})]
<1> DEFINE T == {"connect", "disconnect"}
<1>1. /\ <<>> \in Seq(T) /\ <<"connect">> \in Seq(T)
      /\ <<"connect", "disconnect">> \in Seq(T) /\ <<"disconnect", "connect">> \in Seq(T)
  OBVIOUS
<1> HIDE DEF T
<1>2. \A h \in Histories : h \in Seq(T)
  BY <1>1 DEF Histories
<1>3. told \in [Conns -> Seq(T)]
  BY <1>2 DEF ConnInv
<1>4. QED
  BY <1>3 DEF T

\* The server's variables keep their types; only a request that found no
\* handler is refused.
THEOREM ServerTypeCorrect == ServerSpec => []ServerTypeOK
<1>1. ServerInv => ServerTypeOK
  <2> SUFFICES ASSUME ServerInv PROVE ServerTypeOK
    OBVIOUS
  <2>1. ConnInv /\ RouterInv /\ RequestInv
    BY DEF ServerInv
  <2>2. entries \subseteq Conns
    BY <2>1 DEF ConnInv, EntriesReady
  <2>3. told \in [Conns -> Seq({"connect", "disconnect"})]
    BY <2>1, HistoryType
  <2>4. QED
    BY <2>1, <2>2, <2>3 DEF ServerTypeOK, ConnInv, RouterInv, RequestInv
<1>2. QED
  BY <1>1, ServerInvariance, PTL

\* The observer is told of each beginning and end at most once.
LEMMA ToldCounts ==
    ASSUME ConnInv, NEW c \in Conns
    PROVE  /\ Told(c, "connect") \in {0, 1} /\ Told(c, "disconnect") \in {0, 1}
           /\ Told(c, "connect") - Told(c, "disconnect")
                 = IF c \in entries THEN 1 ELSE 0
<1>1. told[c] \in Histories /\ (told[c] = <<"connect">> <=> c \in entries)
  BY DEF ConnInv, ToldOf
<1>2. Cardinality({}) = 0 /\ Cardinality({1}) = 1 /\ Cardinality({2}) = 1
  BY FS_EmptySet, FS_Singleton
<1> DEFINE At(n) == {i \in DOMAIN told[c] : told[c][i] = n}
<1>3. Told(c, "connect") = Cardinality(At("connect"))
      /\ Told(c, "disconnect") = Cardinality(At("disconnect"))
  BY DEF Told
<1>4. CASE told[c] = <<>>
  <2>1. At("connect") = {} /\ At("disconnect") = {}
    BY <1>4
  <2> HIDE DEF At
  <2>2. Told(c, "connect") = Cardinality({}) /\ Told(c, "disconnect") = Cardinality({})
    BY <1>3, <2>1
  <2>3. QED
    BY <1>1, <1>2, <1>4, <2>2, HistoriesDiffer
<1>5. CASE told[c] = <<"connect">>
  <2>0. DOMAIN told[c] = {1} /\ told[c][1] = "connect"
    BY <1>5
  <2>1. At("connect") = {1} /\ At("disconnect") = {}
    BY <2>0
  <2> HIDE DEF At
  <2>2. Told(c, "connect") = Cardinality({1}) /\ Told(c, "disconnect") = Cardinality({})
    BY <1>3, <2>1
  <2>3. QED
    BY <1>1, <1>2, <1>5, <2>2
<1>6. CASE told[c] = <<"connect", "disconnect">>
  <2>0. DOMAIN told[c] = {1, 2} /\ told[c][1] = "connect" /\ told[c][2] = "disconnect"
    BY <1>6
  <2>1. At("connect") = {1} /\ At("disconnect") = {2}
    BY <2>0
  <2> HIDE DEF At
  <2>2. Told(c, "connect") = Cardinality({1}) /\ Told(c, "disconnect") = Cardinality({2})
    BY <1>3, <2>1
  <2>3. QED
    BY <1>1, <1>2, <1>6, <2>2, HistoriesDiffer
<1>7. CASE told[c] = <<"disconnect", "connect">>
  <2>0. DOMAIN told[c] = {1, 2} /\ told[c][1] = "disconnect" /\ told[c][2] = "connect"
    BY <1>7
  <2>1. At("connect") = {2} /\ At("disconnect") = {1}
    BY <2>0
  <2> HIDE DEF At
  <2>2. Told(c, "connect") = Cardinality({2}) /\ Told(c, "disconnect") = Cardinality({1})
    BY <1>3, <2>1
  <2>3. QED
    BY <1>1, <1>2, <1>7, <2>2, HistoriesDiffer
<1>8. QED
  BY <1>1, <1>4, <1>5, <1>6, <1>7 DEF Histories

\* emit, getEndpoint and call reach exactly the ready endpoints of an open
\* server, and onConnect and onDisconnect tell of exactly these, whoever
\* closes an endpoint and when (adopt and close of server.ts).
THEOREM EntriesAgreeAlways == ServerSpec => []EntriesAgree
<1>1. ServerInv => EntriesAgree
  <2> SUFFICES ASSUME ServerInv PROVE EntriesAgree
    OBVIOUS
  <2>1. ConnInv
    BY DEF ServerInv
  <2>2. entries = IF closing = "open" THEN {c \in Conns : lifecycle[c] = "ready"} ELSE {}
    BY <2>1 DEF ConnInv, EntriesReady
  <2>3. Targets = entries /\ Callable = entries
    BY <2>2 DEF Targets, Callable, Ready
  <2>4. UNION {TargetOf(c) : c \in Conns} = entries
    BY <2>2 DEF TargetOf, Ready
  <2>5. ASSUME NEW c \in Conns
        PROVE  /\ Told(c, "connect") <= 1
               /\ Told(c, "connect") - Told(c, "disconnect")
                     = IF c \in entries THEN 1 ELSE 0
    BY <2>1, ToldCounts
  <2>6. QED
    BY <2>2, <2>3, <2>4, <2>5 DEF EntriesAgree
<1>2. QED
  BY <1>1, ServerInvariance, PTL

\* The handler registered last serves until its own disposer is called
\* (setMethod of router.ts).
THEOREM LatestServesAlways == ServerSpec => []LatestServes
<1>1. ServerInv => LatestServes
  BY DEF ServerInv, RouterInv
<1>2. QED
  BY <1>1, ServerInvariance, PTL
=============================================================================
