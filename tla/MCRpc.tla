------------------------------- MODULE MCRpc --------------------------------
(* The caller's table of calls, and the server that connections reach: they  *)
(* share no state, so a behaviour is one of the part the first state picks.  *)
(* Four calls over two request ids, so that ids wrap and are given out again *)
(* while earlier calls wait, time out or have answers underway.  Two         *)
(* connections, so that one endpoint is closed while another connects; two   *)
(* registrations, so that a handler is replaced; one request.                *)
EXTENDS PendingCalls, Server

CONSTANTS c1, c2, c3, c4, none, h1, h2, r1

VARIABLE part

MCInit ==
    /\ part \in {"calls", "server"}
    /\ Init /\ ServerInit
    /\ part # "server" => transport = "mock"

MCNext ==
    /\ UNCHANGED part
    /\ \/ part = "calls" /\ Next /\ UNCHANGED serverVars
       \/ part = "server" /\ ServerNext /\ UNCHANGED vars

rpcVars == <<part, vars, serverVars>>

\* The fairness of both parts: timers fire, the transport reports what ended.
MCSpec ==
    /\ MCInit /\ [][MCNext]_rpcVars
    /\ \A c \in Calls : WF_vars(Timeout(c))
    /\ ServerFairness
=============================================================================
