------------------------------- MODULE Debug --------------------------------
(***************************************************************************)
(* Diagnostics (src/src/diagnostics.ts) and the debug server that shows    *)
(* them (src/src/debug.ts): a bounded buffer of entries, and clients that  *)
(* follow it over server-sent events while the server is opened, closed    *)
(* and opened again.                                                       *)
(*                                                                         *)
(* Every step but the answers of node's HTTP server is synchronous.        *)
(* Entries are numbered as they are logged.                                *)
(***************************************************************************)
EXTENDS Integers, Sequences, FiniteSets, SequencesExt, Subsequences

CONSTANTS
    Followers,  \* connections to /api/events/stream
    Kinds,      \* the entries the runtime logs
    MinLevel,   \* AxtpDiagnostics.level, a number
    Capacity,   \* as configured; at least 1 is used
    MaxEntries, \* bound: entries logged
    MaxServers  \* bound: listen() calls that create a server

-----------------------------------------------------------------------------
(* What the runtime logs: the level's number, what the name of the event   *)
(* contains, the status, and whether JSON can express the data.            *)

Level == [debug |-> 10, info |-> 20, warn |-> 30, error |-> 40]

Entry(level, event) ==
    [level |-> Level[level], event |-> event, status |-> 0, plain |-> TRUE]

\* emitRpcDiagnostic.  What came in was JSON; what the application is about to
\* send need not be.
RpcEntry(direction, op, status, json) ==
    LET event == CASE op = "Request" -> "request"
                   [] op = "RequestResponse" -> "response"
                   [] op = "Event" -> "event"
                   [] OTHER -> "handshake"
    IN [Entry("debug", event) EXCEPT
           !.status = IF op = "RequestResponse" THEN status ELSE 0,
           !.plain = direction = "in" \/ json]

ControlEntry == Entry("debug", "control")
StreamEntry == Entry("debug", "stream")
HandshakeReady == Entry("debug", "handshake")
HandshakeError == Entry("error", "handshake")

\* "event.dispatch" does not contain ".event".
DispatchEntry(handlers) ==
    Entry(IF handlers = 0 THEN "warn" ELSE "debug", "dispatch")

ListenerEntry == Entry("debug", "listener")

RuntimeEntries ==
    {RpcEntry(direction, op, status, json) :
        direction \in {"in", "out"}, status \in {0, 1}, json \in BOOLEAN,
        op \in {"Request", "RequestResponse", "Event", "Hello", "Identify", "Identified"}}
    \cup {ControlEntry, StreamEntry, HandshakeReady, HandshakeError,
          DispatchEntry(0), DispatchEntry(1), ListenerEntry}

ASSUME DebugAssumption ==
    /\ Kinds \subseteq RuntimeEntries
    /\ {MinLevel, Capacity, MaxEntries, MaxServers} \subseteq Nat

-----------------------------------------------------------------------------
VARIABLES
    ring,      \* buffer: numbers of entries
    logged,    \* history: all entries
    clearedAt, \* history: entries logged when it was last cleared
    following, \* the Set of the collector's listeners, in its order
    connected, \* the server each follower is connected to, 0 for none
    seen,      \* what each follower has been sent, snapshot included
    since,     \* history: entries logged when it was sent its snapshot
    current,   \* server, 0 for undefined
    url,       \* the server urlValue names, 0 for undefined
    servers,   \* what became of each server
    closing,   \* servers a close() waits for
    crashed    \* an unhandled rejection has ended the process

debugVars == <<ring, logged, clearedAt, following, connected, seen, since,
               current, url, servers, closing, crashed>>

Numbers == 1..MaxEntries
Instances == 1..MaxServers

DebugTypeOK ==
    /\ ring \in Seq(Numbers) /\ logged \in Seq(Kinds)
    /\ clearedAt \in 0..Len(logged)
    /\ following \in Seq(Followers) /\ IsInjective(following)
    /\ connected \in [Followers -> {0} \cup Instances]
    /\ \A f \in Followers : connected[f] # 0 <=> Contains(following, f)
    /\ seen \in [Followers -> Seq(Numbers)]
    /\ since \in [Followers -> 0..MaxEntries]
    /\ current \in {0} \cup Instances /\ url \in {0} \cup Instances
    /\ servers \in [Instances -> {"none", "starting", "listening", "failed", "closed"}]
    /\ closing \subseteq Instances
    /\ url # 0 => servers[url] = "listening"
    /\ \A s \in closing : servers[s] = "closed" /\ s # current /\ s # url
    /\ crashed \in BOOLEAN

DebugInit ==
    /\ ring = <<>> /\ logged = <<>> /\ clearedAt = 0
    /\ following = <<>>
    /\ connected = [f \in Followers |-> 0]
    /\ seen = [f \in Followers |-> <<>>]
    /\ since = [f \in Followers |-> 0]
    /\ current = 0 /\ url = 0
    /\ servers = [s \in Instances |-> "none"]
    /\ closing = {}
    /\ crashed = FALSE

collectorVars == <<ring, logged, clearedAt, following, connected, seen, since>>
serverVars == <<current, url, servers, closing>>

-----------------------------------------------------------------------------
(* The collector                                                           *)

\* isRequest, isResponse, isEvent, isFailure
IsFailure(k) == k.level >= Level["warn"] \/ k.status # 0
Matches(k, kind) ==
    CASE kind = "requests" -> k.event = "request"
      [] kind = "responses" -> k.event = "response"
      [] kind = "events" -> k.event = "event" /\ ~IsFailure(k)
      [] kind = "errors" -> IsFailure(k)
      [] OTHER -> TRUE

\* entries
Filtered(kind) == At(ring, {i \in DOMAIN ring : Matches(logged[ring[i]], kind)})

\* stats, the sessions left out.
Stats ==
    LET count(Test(_)) == Cardinality({i \in DOMAIN ring : Test(logged[ring[i]])}) IN
    [all |-> Len(ring),
     requests |-> count(LAMBDA k : k.event = "request"),
     responses |-> count(LAMBDA k : k.event = "response"),
     events |-> count(LAMBDA k : k.event = "event"),
     errors |-> count(IsFailure)]

\* JSON.stringify does not throw.
Expressible(numbers) == \A i \in DOMAIN numbers : logged[numbers[i]].plain

\* push: the oldest entries go.
Kept(numbers) ==
    LET size == IF Capacity > 1 THEN Capacity ELSE 1 IN
    IF Len(numbers) <= size THEN numbers
    ELSE SubSeq(numbers, Len(numbers) - size + 1, Len(numbers))

\* The followers a new entry is written to.  The first one throws on an entry
\* JSON cannot express; emitDiagnostic catches that, and nobody gets it.
Notified(kind) == IF kind.plain THEN ToSet(following) ELSE {}

\* emitDiagnostic; an entry below the level does nothing.
EmitDiagnostic(kind) ==
    /\ kind.level >= MinLevel
    /\ Len(logged) < MaxEntries
    /\ logged' = Append(logged, kind)
    /\ LET n == Len(logged') IN
       /\ ring' = Kept(Append(ring, n))
       /\ seen' = [f \in Followers |-> IF f \in Notified(kind) THEN Append(seen[f], n)
                                       ELSE seen[f]]
    /\ UNCHANGED <<clearedAt, following, connected, since, serverVars, crashed>>

-----------------------------------------------------------------------------
(* handleRequest.  Requests the token does not admit change nothing.  What *)
(* it throws is a rejection nobody handles.                                *)

Serving(s) == servers[s] = "listening"

Crash == crashed' = TRUE /\ UNCHANGED <<collectorVars, serverVars>>

\* GET /api/events
GetEvents(kind) ==
    /\ \E s \in Instances : Serving(s)
    /\ ~Expressible(Filtered(kind))
    /\ Crash

\* POST /api/clear
Clear ==
    /\ \E s \in Instances : Serving(s)
    /\ ring # <<>>
    /\ ring' = <<>>
    /\ clearedAt' = Len(logged)
    /\ UNCHANGED <<logged, following, connected, seen, since, serverVars, crashed>>

\* Mutant of Follow: no snapshot comes before the entries.
FollowBlind(f, s) ==
    /\ Serving(s) /\ connected[f] = 0
    /\ seen' = [seen EXCEPT ![f] = <<>>]
    /\ following' = Append(following, f)
    /\ connected' = [connected EXCEPT ![f] = s]
    /\ since' = [since EXCEPT ![f] = Len(logged)]
    /\ UNCHANGED <<ring, logged, clearedAt, serverVars, crashed>>

\* writeSse
Follow(f, s) ==
    /\ Serving(s) /\ connected[f] = 0
    /\ IF Expressible(ring)
       THEN /\ seen' = [seen EXCEPT ![f] = ring]
            /\ following' = Append(following, f)
            /\ connected' = [connected EXCEPT ![f] = s]
            /\ since' = [since EXCEPT ![f] = Len(logged)]
            /\ UNCHANGED <<ring, logged, clearedAt, serverVars, crashed>>
       ELSE Crash

\* The follower, or the network, ends the connection.
Leave(f) ==
    /\ connected[f] # 0
    /\ following' = Without(following, {f})
    /\ connected' = [connected EXCEPT ![f] = 0]
    /\ UNCHANGED <<ring, logged, clearedAt, seen, since, serverVars, crashed>>

-----------------------------------------------------------------------------
(* listen and close                                                        *)

\* While `server` is set listen() does nothing, also after it has failed.
Listen ==
    /\ current = 0
    /\ \E s \in Instances :
          /\ servers[s] = "none"
          /\ \A earlier \in 1..(s - 1) : servers[earlier] # "none"
          /\ current' = s
          /\ servers' = [servers EXCEPT ![s] = "starting"]
    /\ UNCHANGED <<collectorVars, url, closing, crashed>>

\* Also after a close() that came too early to stop it.
Listening(s) ==
    /\ servers[s] = "starting"
    /\ servers' = [servers EXCEPT ![s] = "listening"]
    /\ url' = s
    /\ UNCHANGED <<collectorVars, current, closing, crashed>>

ListenFails(s) ==
    /\ servers[s] = "starting"
    /\ servers' = [servers EXCEPT ![s] = "failed"]
    /\ UNCHANGED <<collectorVars, current, url, closing, crashed>>

\* A server that does not listen yet, or never did, rejects close().
CloseServer ==
    /\ current # 0
    /\ current' = 0
    /\ url' = 0
    /\ IF Serving(current)
       THEN /\ servers' = [servers EXCEPT ![current] = "closed"]
            /\ closing' = closing \cup {current}
       ELSE UNCHANGED <<servers, closing>>
    /\ UNCHANGED <<collectorVars, crashed>>

\* node's server.close: the last connection has ended.
Closed(s) ==
    /\ s \in closing
    /\ \A f \in Followers : connected[f] # s
    /\ closing' = closing \ {s}
    /\ UNCHANGED <<collectorVars, current, url, servers, crashed>>

DebugStep ==
    \/ \E k \in Kinds : EmitDiagnostic(k)
    \/ \E kind \in {"all", "requests", "responses", "events", "errors"} : GetEvents(kind)
    \/ Clear
    \/ \E f \in Followers : Leave(f) \/ \E s \in Instances : Follow(f, s)
    \/ Listen \/ CloseServer
    \/ \E s \in Instances : Listening(s) \/ ListenFails(s) \/ Closed(s)

DebugNext == ~crashed /\ DebugStep

DebugSpec == DebugInit /\ [][DebugNext]_debugVars

-----------------------------------------------------------------------------
(* Properties                                                              *)

Plain(m, n) == {k \in m..n : logged[k].plain}

\* The buffer holds the latest entries since it was cleared.
LatestKept == ring = Kept([k \in 1..(Len(logged) - clearedAt) |-> clearedAt + k])

\* A follower has been sent, from the snapshot on, every entry JSON can
\* express, in order and once; one that reads its stream misses nothing that
\* was in the buffer when it came.
FollowersTold ==
    \A f \in Followers : connected[f] # 0 =>
        /\ \A i, j \in DOMAIN seen[f] : i < j => seen[f][i] < seen[f][j]
        /\ {seen[f][i] : i \in DOMAIN seen[f]} \cap (since[f] + 1)..Len(logged)
              = Plain(since[f] + 1, Len(logged))
        /\ {n \in ToSet(ring) : logged[n].plain} \subseteq ToSet(seen[f])

\* The counts of /api/stats are those of the lists of /api/events.
CountsAgree == \A kind \in DOMAIN Stats : Stats[kind] = Len(Filtered(kind))

\* A follower's server listens, or its close() waits for the follower.
ConnectionsServed ==
    \A s \in Instances : \A f \in Followers :
        connected[f] = s => Serving(s) \/ s \in closing

\* Only an entry JSON cannot express ends the process.
CrashExplained == crashed => \E i \in DOMAIN logged : ~logged[i].plain

\* Buffer, followers and counts agree with what was logged, whatever happens
\* to the server meanwhile (debug.ts 80-106, 169-199, 285-300).
TelemetryComplete ==
    LatestKept /\ FollowersTold /\ CountsAgree /\ ConnectionsServed /\ CrashExplained
=============================================================================
