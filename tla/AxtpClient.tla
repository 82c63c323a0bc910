----------------------------- MODULE AxtpClient -----------------------------
(***************************************************************************)
(* The connection life cycle of the SDK client (src/src/sdk/client.ts)     *)
(* together with the reconnect coordinator it owns                         *)
(* (src/src/endpoint/reconnect.ts) and the life cycle of the endpoints it  *)
(* spawns (src/src/endpoint/endpoint.ts).                                  *)
(*                                                                         *)
(* Each action is one run-to-completion turn of the JavaScript event loop: *)
(* a transport.connect() promise settling, a timer firing, one event of an *)
(* endpoint, a call of the public API.  The one place where client.ts      *)
(* suspends between reading and writing its own state is connect(): the    *)
(* code after "await this.awaitReady()" runs some microtasks after the     *)
(* endpoint's ready handler resolved the promise.  That gap is the value   *)
(* "resuming" of connectCall; timers and network I/O are macrotasks and    *)
(* cannot run inside it, events an endpoint has already decoded can.       *)
(*                                                                         *)
(* Listeners of the client's event streams run inside such a turn and may  *)
(* call close().  Where the handler then goes on to start something, the   *)
(* step has a case for it (ClosedInConnect, ClosedInSpawn, ClosedInStart). *)
(* Everywhere else a close() of a listener ends like a close() just before *)
(* or after the turn.                                                      *)
(***************************************************************************)
EXTENDS Naturals

CONSTANTS
    Endpoints,   \* the AxtpEndpoint objects
    NoEndpoint,  \* "undefined": no endpoint, or no handshake timer
    Infinity,    \* Number.POSITIVE_INFINITY as maxAttempts
    Options      \* the option combinations a client may be built with

ASSUME EndpointsAssumption == NoEndpoint \notin Endpoints

\* reconnect: policy.enabled;  handshakeTimeout, connectTimeout: whether the
\* delay is finite, so that the timer is armed at all.
OptionRecord ==
    [reconnect : BOOLEAN, maxAttempts : Nat \cup {Infinity},
     resetBackoffOnSuccess : BOOLEAN,
     handshakeTimeout : BOOLEAN, connectTimeout : BOOLEAN]

ASSUME OptionsAssumption ==
    /\ Infinity \notin Nat
    /\ Options \subseteq OptionRecord

VARIABLES
    options,     \* the client's options, chosen once
    state,       \* ClientState
    firstReady,  \* no endpoint of this client has been ready yet
    endpoint,    \* the endpoint the client talks through
    lifecycle,   \* EndpointLifecycle of every endpoint object
    hsTimer,     \* the endpoint the armed handshakeTimer watches
    connectCall, \* the promise returned by connect()
    opening,     \* tryOpen awaits transport.connect()
    active,      \* ReconnectCoordinator.active
    attempts,    \* ReconnectCoordinator.attempts
    retryTimer,  \* the backoff timer is armed
    attempting,  \* coordinator attempts awaiting transport.connect()
    closedIn     \* history: the handler whose listener closed the client

coordVars == <<active, attempts, retryTimer, attempting>>
vars == <<options, state, firstReady, endpoint, lifecycle, hsTimer,
          connectCall, opening, coordVars, closedIn>>

ClientState == {"idle", "connecting", "ready", "reconnecting", "closed"}

Live(e) == lifecycle[e] \in {"connecting", "ready"}

\* No timer fires and no I/O completes while connect() is about to resume.
Macrotask == connectCall # "resuming"

TypeOK ==
    /\ options \in Options
    /\ state \in ClientState
    /\ firstReady \in BOOLEAN
    /\ endpoint \in Endpoints \cup {NoEndpoint}
    /\ lifecycle \in [Endpoints -> {"idle", "connecting", "ready", "closed"}]
    /\ hsTimer \in Endpoints \cup {NoEndpoint}
    /\ connectCall \in {"none", "waiting", "resuming", "resolved", "rejected"}
    /\ opening \in BOOLEAN
    /\ active \in BOOLEAN
    /\ attempts \in Nat
    /\ retryTimer \in BOOLEAN
    /\ attempting \in Nat
    /\ closedIn \in {"none", "connect", "spawn", "start"}

Init ==
    /\ options \in Options
    /\ state = "idle"
    /\ firstReady = TRUE
    /\ endpoint = NoEndpoint
    /\ lifecycle = [e \in Endpoints |-> "idle"]
    /\ hsTimer = NoEndpoint
    /\ connectCall = "none"
    /\ opening = FALSE
    /\ active = FALSE
    /\ attempts = 0
    /\ retryTimer = FALSE
    /\ attempting = 0
    /\ closedIn = "none"

-----------------------------------------------------------------------------
(* Fragments of handlers                                                   *)

\* setState: "closed" is absorbing.
SetState(s) == state' = IF state = "closed" THEN "closed" ELSE s

\* failReady: reject the promise connect() waits on, if it still waits.
FailReady ==
    connectCall' = IF connectCall = "waiting" THEN "rejected" ELSE connectCall

\* Mutant of Stop: the backoff timer is not cleared.
StopKeepsTimer ==
    /\ active' = FALSE
    /\ UNCHANGED <<attempts, retryTimer, attempting>>

\* ReconnectCoordinator.stop: an attempt in flight is not cancelled.
Stop == /\ active' = FALSE
        /\ retryTimer' = FALSE
        /\ UNCHANGED <<attempts, attempting>>

Exhausted == options.maxAttempts # Infinity /\ attempts >= options.maxAttempts

\* Mutant of Schedule: giving up leaves connect() waiting.
ScheduleForgetsConnect(s) ==
    /\ active' = ~Exhausted
    /\ retryTimer' = ~Exhausted
    /\ attempts' = IF Exhausted \/ options.maxAttempts = Infinity
                   THEN attempts ELSE attempts + 1
    /\ state' = IF Exhausted THEN "closed" ELSE s
    /\ UNCHANGED connectCall

\* Mutant of Schedule: attempts are not counted.
ScheduleUncounted(s) ==
    /\ active' = ~Exhausted
    /\ retryTimer' = ~Exhausted
    /\ state' = IF Exhausted THEN "closed" ELSE s
    /\ IF Exhausted THEN FailReady ELSE UNCHANGED connectCall
    /\ UNCHANGED attempts

\* ReconnectCoordinator.schedule on an active coordinator; s is the state
\* the client is in when it does not give up.  Giving up runs
\* handleReconnectFailed.  Without a limit the counter only feeds nextDelay
\* and the payload of onReconnect, and is not tracked.
Schedule(s) ==
    \/ /\ Exhausted
       /\ active' = FALSE
       /\ state' = "closed"
       /\ FailReady
       /\ UNCHANGED <<attempts, retryTimer>>
    \/ /\ ~Exhausted
       /\ active' = TRUE
       /\ attempts' = IF options.maxAttempts = Infinity
                      THEN attempts ELSE attempts + 1
       /\ retryTimer' = TRUE
       /\ state' = s
       /\ UNCHANGED connectCall

\* A listener of onError, onStateChange or onDisconnect has closed the client,
\* and with it stopped the coordinator, when coordinator.start() is reached:
\* it starts all the same.
ClosedInStart ==
    /\ closedIn' = "start"
    /\ state' = "closed"
    /\ FailReady
    /\ active' = ~Exhausted
    /\ retryTimer' = ~Exhausted
    /\ attempts' = IF Exhausted \/ options.maxAttempts = Infinity
                   THEN attempts ELSE attempts + 1

\* setState("reconnecting"); coordinator.start()
StartReconnect ==
    \/ /\ active
       /\ state' = "reconnecting"
       /\ UNCHANGED <<active, attempts, retryTimer, connectCall, closedIn>>
    \/ ~active /\ Schedule("reconnecting") /\ UNCHANGED closedIn
    \/ ClosedInStart

\* A listener of onStateChange("connecting") closes the client, and with it
\* endpoint e, which start() then leaves alone.
ClosedInSpawn(e) ==
    /\ state \notin {"connecting", "ready"}
    /\ closedIn' = "spawn"
    /\ state' = "closed"
    /\ lifecycle' = [lifecycle EXCEPT ![e] = "closed"]
    /\ FailReady

\* spawnEndpoint on an open client.  A closed endpoint that nothing refers
\* to any more stands for a fresh object.  The handshake timer is armed
\* whether or not a listener has closed e.
Spawn(e) ==
    /\ lifecycle[e] \in {"idle", "closed"} /\ e # endpoint
    /\ endpoint' = e
    /\ hsTimer' = IF options.handshakeTimeout THEN e ELSE NoEndpoint
    /\ \/ /\ lifecycle' = [lifecycle EXCEPT ![e] = "connecting"]
          /\ state' = IF state = "ready" THEN "ready" ELSE "connecting"
          /\ UNCHANGED <<connectCall, closedIn>>
       \/ ClosedInSpawn(e)

\* onEndpointClose, run by an endpoint's close() on a client that is not
\* closed.  It does not look at which endpoint closed.
OnEndpointClose ==
    /\ hsTimer' = NoEndpoint
    /\ endpoint' = NoEndpoint
    /\ \/ options.reconnect /\ StartReconnect
       \/ /\ ~options.reconnect
          /\ IF firstReady
             THEN FailReady /\ UNCHANGED state
             ELSE state' = "closed" /\ UNCHANGED connectCall
          /\ UNCHANGED <<active, attempts, retryTimer, closedIn>>

CloseEndpoint(e) == lifecycle' = [lifecycle EXCEPT ![e] = "closed"]

-----------------------------------------------------------------------------
(* Connecting                                                              *)

\* A listener of onStateChange("connecting") closes the client before there
\* is a coordinator to stop or a promise to reject.
ClosedInConnect == state' = "closed" /\ closedIn' = "connect"

\* connect(), up to its await; a second call throws and changes nothing.  It
\* dials and waits even if a listener has closed the client.
Connect ==
    /\ state = "idle"
    /\ \/ state' = "connecting" /\ UNCHANGED closedIn
       \/ ClosedInConnect
    /\ firstReady' = TRUE
    /\ opening' = TRUE
    /\ connectCall' = "waiting"
    /\ UNCHANGED <<options, endpoint, lifecycle, hsTimer, coordVars>>

\* connect() resumes after its await.
ConnectResumes ==
    /\ connectCall = "resuming"
    /\ connectCall' = "resolved"
    /\ SetState("ready")
    /\ UNCHANGED <<options, firstReady, endpoint, lifecycle, hsTimer, opening,
                   coordVars, closedIn>>

\* The timer of awaitReady rejects connect(); the client goes on trying.
ConnectTimeout ==
    /\ options.connectTimeout
    /\ connectCall = "waiting"
    /\ connectCall' = "rejected"
    /\ UNCHANGED <<options, state, firstReady, endpoint, lifecycle, hsTimer,
                   opening, coordVars, closedIn>>

\* Mutant of OpenSucceeds: the closed client is not checked for.
OpenSucceedsUnchecked ==
    /\ opening /\ Macrotask
    /\ opening' = FALSE
    /\ \E e \in Endpoints : Spawn(e)
    /\ UNCHANGED <<options, firstReady, coordVars>>

\* tryOpen: transport.connect() fulfilled.
OpenSucceeds ==
    /\ opening /\ Macrotask
    /\ opening' = FALSE
    /\ IF state = "closed"
       THEN UNCHANGED <<state, endpoint, lifecycle, hsTimer, connectCall, closedIn>>
       ELSE \E e \in Endpoints : Spawn(e)
    /\ UNCHANGED <<options, firstReady, coordVars>>

\* tryOpen: transport.connect() rejected.  The client has no endpoint yet.
OpenFails ==
    /\ opening /\ Macrotask
    /\ opening' = FALSE
    /\ \/ /\ state = "closed"
          /\ UNCHANGED <<state, connectCall, active, attempts, retryTimer, closedIn>>
       \/ /\ state # "closed" /\ options.reconnect
          /\ StartReconnect
       \/ /\ state # "closed" /\ ~options.reconnect
          /\ FailReady
          /\ UNCHANGED <<state, active, attempts, retryTimer, closedIn>>
    /\ UNCHANGED <<options, firstReady, endpoint, lifecycle, hsTimer,
                   attempting>>

-----------------------------------------------------------------------------
(* The reconnect coordinator                                               *)

RetryTimerFires ==
    /\ retryTimer /\ Macrotask
    /\ retryTimer' = FALSE
    /\ attempting' = attempting + 1
    /\ UNCHANGED <<options, state, firstReady, endpoint, lifecycle, hsTimer,
                   connectCall, opening, active, attempts, closedIn>>

\* Mutant of AttemptSucceeds: active is not reset.
AttemptSucceedsStaysActive ==
    /\ attempting > 0 /\ Macrotask
    /\ attempting' = attempting - 1
    /\ IF active /\ state # "closed"
       THEN \E e \in Endpoints : Spawn(e)
       ELSE UNCHANGED <<state, endpoint, lifecycle, hsTimer, connectCall, closedIn>>
    /\ UNCHANGED <<options, firstReady, opening, active, attempts, retryTimer>>

\* attempt: transportFactory() fulfilled.  A listener that closes the client
\* finds no timer to clear: the dial was the coordinator's only activity.
AttemptSucceeds ==
    /\ attempting > 0 /\ Macrotask
    /\ attempting' = attempting - 1
    /\ active' = FALSE
    /\ IF active /\ state # "closed"
       THEN \E e \in Endpoints : Spawn(e)
       ELSE UNCHANGED <<state, endpoint, lifecycle, hsTimer, connectCall, closedIn>>
    /\ UNCHANGED <<options, firstReady, opening, attempts, retryTimer>>

\* Mutant of AttemptFails: the failure of one dial is handled again.
AttemptFailsAgain ==
    /\ Macrotask
    /\ attempting' = attempting - 1
    /\ IF active
       THEN Schedule(state)
       ELSE UNCHANGED <<state, connectCall, active, attempts, retryTimer>>
    /\ UNCHANGED <<options, firstReady, endpoint, lifecycle, hsTimer, opening,
                   closedIn>>

\* attempt: transportFactory() rejected.
AttemptFails ==
    /\ attempting > 0 /\ Macrotask
    /\ attempting' = attempting - 1
    /\ IF active
       THEN Schedule(state)
       ELSE UNCHANGED <<state, connectCall, active, attempts, retryTimer>>
    /\ UNCHANGED <<options, firstReady, endpoint, lifecycle, hsTimer, opening,
                   closedIn>>

-----------------------------------------------------------------------------
(* Events of an endpoint                                                   *)

\* Mutant of EndpointReady: the handshake timer is not cleared.
EndpointReadyKeepsTimer(e) ==
    /\ lifecycle[e] = "connecting"
    /\ lifecycle' = [lifecycle EXCEPT ![e] = "ready"]
    /\ active' = FALSE
    /\ retryTimer' = FALSE
    /\ attempts' = IF options.reconnect /\ options.resetBackoffOnSuccess
                   THEN 0 ELSE attempts
    /\ firstReady' = FALSE
    /\ IF firstReady
       THEN /\ connectCall' = IF connectCall = "waiting"
                              THEN "resuming" ELSE connectCall
            /\ UNCHANGED state
       ELSE SetState("ready") /\ UNCHANGED connectCall
    /\ UNCHANGED <<options, endpoint, hsTimer, opening, attempting, closedIn>>

\* Mutant of EndpointReady: every ready counts as the first.
EndpointReadyAlwaysFirst(e) ==
    /\ lifecycle[e] = "connecting"
    /\ lifecycle' = [lifecycle EXCEPT ![e] = "ready"]
    /\ hsTimer' = NoEndpoint
    /\ active' = FALSE
    /\ retryTimer' = FALSE
    /\ attempts' = IF options.reconnect /\ options.resetBackoffOnSuccess
                   THEN 0 ELSE attempts
    /\ connectCall' = IF connectCall = "waiting" THEN "resuming" ELSE connectCall
    /\ UNCHANGED <<options, state, firstReady, endpoint, opening, attempting,
                   closedIn>>

\* handshakeReady: onReady.emit, then onEndpointReady (with onSuccess).
EndpointReady(e) ==
    /\ lifecycle[e] = "connecting"
    /\ lifecycle' = [lifecycle EXCEPT ![e] = "ready"]
    /\ hsTimer' = NoEndpoint
    /\ active' = FALSE
    /\ retryTimer' = FALSE
    /\ attempts' = IF options.reconnect /\ options.resetBackoffOnSuccess
                   THEN 0 ELSE attempts
    /\ firstReady' = FALSE
    /\ IF firstReady
       THEN /\ connectCall' = IF connectCall = "waiting"
                              THEN "resuming" ELSE connectCall
            /\ UNCHANGED state
       ELSE SetState("ready") /\ UNCHANGED connectCall
    /\ UNCHANGED <<options, endpoint, opening, attempting, closedIn>>

\* linkClosing, linkOpenRejected, end or error of the transport, heartbeat
\* timeout: the endpoint closes itself.
EndpointCloses(e) ==
    /\ Live(e)
    /\ CloseEndpoint(e)
    /\ IF state = "closed"
       THEN UNCHANGED <<state, endpoint, connectCall, active, attempts,
                        retryTimer, closedIn>> /\ hsTimer' = NoEndpoint
       ELSE OnEndpointClose
    /\ UNCHANGED <<options, firstReady, opening, attempting>>

\* handshakeError: onFatalHandshakeError ends the client if e is its
\* endpoint, then the endpoint closes itself.
HandshakeFails(e) ==
    /\ Live(e)
    /\ CloseEndpoint(e)
    /\ \/ /\ endpoint = e /\ state # "closed"
          /\ hsTimer' = NoEndpoint
          /\ Stop
          /\ FailReady
          /\ state' = "closed"
          /\ UNCHANGED <<endpoint, closedIn>>
       \/ /\ endpoint # e /\ state # "closed"
          /\ OnEndpointClose
          /\ UNCHANGED attempting
       \/ /\ state = "closed"
          /\ hsTimer' = NoEndpoint
          /\ UNCHANGED <<state, endpoint, connectCall, coordVars, closedIn>>
    /\ UNCHANGED <<options, firstReady, opening>>

\* Mutant of HandshakeTimeout: reconnecting starts, the endpoint stays open.
HandshakeTimeoutLeavesOpen(e) ==
    /\ hsTimer = e /\ Macrotask
    /\ hsTimer' = NoEndpoint
    /\ options.reconnect
    /\ IF endpoint = e /\ lifecycle[e] # "ready" /\ state # "closed"
       THEN StartReconnect
       ELSE UNCHANGED <<state, connectCall, active, attempts, retryTimer, closedIn>>
    /\ UNCHANGED <<options, firstReady, endpoint, lifecycle, opening, attempting>>

\* The handshake timer fires.  Without a coordinator the client ends first,
\* so that onEndpointClose has nothing left to do.
HandshakeTimeout(e) ==
    /\ hsTimer = e /\ Macrotask
    /\ hsTimer' = NoEndpoint
    /\ \/ /\ endpoint = e /\ lifecycle[e] # "ready" /\ state # "closed"
          /\ CloseEndpoint(e)
          /\ \/ options.reconnect /\ OnEndpointClose
             \/ /\ ~options.reconnect
                /\ FailReady
                /\ state' = "closed"
                /\ UNCHANGED <<endpoint, active, attempts, retryTimer, closedIn>>
       \/ /\ endpoint # e \/ lifecycle[e] = "ready" \/ state = "closed"
          /\ UNCHANGED <<state, endpoint, lifecycle, connectCall, active,
                         attempts, retryTimer, closedIn>>
    /\ UNCHANGED <<options, firstReady, opening, attempting>>

\* close(), of an open client or again: the endpoint's own close() finds the
\* client closed already.
Close ==
    /\ state' = "closed"
    /\ Stop
    /\ hsTimer' = NoEndpoint
    /\ lifecycle' = [e \in Endpoints |->
                        IF e = endpoint THEN "closed" ELSE lifecycle[e]]
    /\ FailReady
    /\ UNCHANGED <<options, firstReady, endpoint, opening, closedIn>>

-----------------------------------------------------------------------------
EndpointEvent(e) == EndpointReady(e) \/ EndpointCloses(e) \/ HandshakeFails(e)

Next ==
    \/ Connect
    \/ ConnectResumes
    \/ ConnectTimeout
    \/ OpenSucceeds
    \/ OpenFails
    \/ RetryTimerFires
    \/ AttemptSucceeds
    \/ AttemptFails
    \/ \E e \in Endpoints : EndpointEvent(e) \/ HandshakeTimeout(e)
    \/ Close

Spec == Init /\ [][Next]_vars

\* Promise continuations run and armed timers fire.  A transport's connect()
\* settles one way or the other.  Nothing is assumed of the peer: an endpoint
\* need not ever become ready or close.
Fairness ==
    /\ WF_vars(ConnectResumes)
    /\ WF_vars(ConnectTimeout)
    /\ WF_vars(RetryTimerFires)
    /\ WF_vars(OpenSucceeds \/ OpenFails)
    /\ WF_vars(AttemptSucceeds \/ AttemptFails)
    /\ \A e \in Endpoints : WF_vars(HandshakeTimeout(e))

FairSpec == Spec /\ Fairness

-----------------------------------------------------------------------------
(* Properties                                                              *)

\* The client never runs two connections: at any time at most one of the
\* following exists, and a live endpoint is the one the client uses.  This
\* is what makes it safe that onEndpointReady and onEndpointClose do not ask
\* which endpoint called them (client.ts 217-218, 265-306).
OneConnection ==
    /\ \A e \in Endpoints : Live(e) =>
          endpoint = e /\ ~opening /\ ~retryTimer /\ attempting = 0
    /\ opening => ~retryTimer /\ attempting = 0
    /\ attempting > 0 => ~retryTimer
    /\ attempting <= 1

\* A client that reconnects always has something under way that leads to its
\* next endpoint or to giving up: no sequence of failures leaves it waiting
\* for nothing (tryOpen, onEndpointClose, the handshake timer and the
\* coordinator hand over to each other without a gap or a second start).
NeverWedged ==
    options.reconnect /\ state \notin {"idle", "closed"} =>
        \/ opening
        \/ active /\ (retryTimer \/ attempting > 0)
        \/ \E e \in Endpoints : Live(e)

\* With a finite handshakeTimeoutMs the timer watches exactly the endpoint
\* whose handshake is under way, across every reconnect (armHandshakeTimeout,
\* clearHandshakeTimeout).
HandshakeGuarded ==
    /\ hsTimer # NoEndpoint =>
          /\ endpoint = hsTimer
          /\ state # "closed" => lifecycle[hsTimer] = "connecting"
    /\ options.handshakeTimeout =>
          \A e \in Endpoints : lifecycle[e] = "connecting" => hsTimer = e

\* A closed client holds no live endpoint.  It has a running coordinator, an
\* armed handshake timer or a waiting connect() only if a listener called
\* close() inside the very handler that went on to start it (client.ts
\* 156-170, 187-194, 219-224, 286-301); otherwise a dial still in flight can
\* only be discarded.
ClosedIsQuiet ==
    state = "closed" =>
        /\ \A e \in Endpoints : ~Live(e)
        /\ active \/ retryTimer => closedIn = "start"
        /\ hsTimer # NoEndpoint => closedIn = "spawn"
        /\ connectCall = "waiting" => closedIn = "connect"

\* After connect() has resolved, a ready endpoint means a ready client, so
\* that the calls of the application are let through (onEndpointReady).
ReadyServes ==
    connectCall = "resolved" /\ endpoint # NoEndpoint =>
        (lifecycle[endpoint] = "ready" => state = "ready")

\* What a step may do.  Closed is final: no endpoint comes to life, a
\* coordinator that is at rest never starts again, and one that a listener
\* left running dials, within its budget of attempts, until it is stopped or
\* a dial succeeds and is discarded.  The budget is given back only by an
\* endpoint that became ready.
FinalAndBudgeted ==
    /\ state = "closed" =>
          /\ state' = "closed"
          /\ \A e \in Endpoints : Live(e)' => Live(e)
          /\ active' => active
          /\ attempting' > attempting => active /\ closedIn = "start"
          /\ attempting' < attempting /\ active' =>
                retryTimer' /\ (options.maxAttempts # Infinity => attempts' > attempts)
    /\ attempts' < attempts =>
          /\ options.resetBackoffOnSuccess
          /\ \E e \in Endpoints : lifecycle[e] # "ready" /\ lifecycle'[e] = "ready"

\* Every step of the client is such a step (reconnect.ts 76-107, 120-129 and
\* the "closed" checks of client.ts).
BudgetAndEnd == [][FinalAndBudgeted]_vars

\* The options under which the number of failures the client survives, and
\* the time each may take, are limited.
Limited == options.handshakeTimeout /\ options.maxAttempts # Infinity

\* connect() settles: by its own timer, or, without one and on an open
\* client, because every endpoint's handshake is limited and the attempts run
\* out.  (A client that a listener closed inside connect() has only the timer.)
ConnectSettles ==
    connectCall = "waiting"
        /\ \/ options.connectTimeout
           \/ /\ state # "closed"
              /\ Limited \/ (options.handshakeTimeout /\ ~options.reconnect)
    ~> connectCall \in {"resolved", "rejected"}

\* A lost or failed connection of a reconnecting client comes to an end: an
\* endpoint becomes ready or the client closes (reconnect.ts 88-117).
LossResolved ==
    options.reconnect /\ Limited /\ state \in {"connecting", "reconnecting"}
    ~> state = "closed" \/ \E e \in Endpoints : lifecycle[e] = "ready"

\* What the safety properties rest on: the coordinator is active exactly while
\* it has a timer or, on an open client, a dial of its own; an idle client has
\* nothing; and a settled connect() means that some endpoint has been ready.
CoordinatorAgrees ==
    /\ active => retryTimer \/ attempting > 0
    /\ retryTimer => active
    /\ state # "closed" /\ attempting > 0 => active
    /\ closedIn # "none" => state = "closed"
    /\ active => options.reconnect
    /\ state = "idle" =>
          /\ ~opening /\ ~active /\ connectCall = "none"
          /\ \A e \in Endpoints : ~Live(e)
    /\ connectCall = "waiting" => firstReady
    /\ connectCall \in {"resuming", "resolved"} => ~firstReady

\* The inductive invariant of AxtpClientProofs.
IInv ==
    /\ TypeOK
    /\ OneConnection
    /\ NeverWedged
    /\ HandshakeGuarded
    /\ ClosedIsQuiet
    /\ ReadyServes
    /\ CoordinatorAgrees

\* client.ts line 151: with reconnect enabled connect() has no hard timeout,
\* it lasts until ready or until the attempts are exhausted.  Refuted: see
\* the run connect_timeout.
ConnectLastsUntilReadyOrClosed ==
    options.reconnect /\ connectCall = "rejected" => state = "closed"

\* client.ts line 621: close() is "主动关闭，不再重连", a close of one's own
\* after which there is no more reconnecting.  Refuted: see the run
\* closed_dials.
ClosedNeverDials == [][state = "closed" => attempting' <= attempting]_vars
=============================================================================
