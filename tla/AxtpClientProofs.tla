-------------------------- MODULE AxtpClientProofs --------------------------
(***************************************************************************)
(* The safety of the client's life cycle, for every set of endpoint        *)
(* objects and options.  Everything follows from one inductive invariant,  *)
(* IInv of AxtpClient.  OneConnection and NeverWedged are not inductive:   *)
(* that a coordinator which is not active has no timer and no dial         *)
(* (CoordinatorAgrees) is what lets start() run after a loss without       *)
(* creating a second connection, and ClosedIsQuiet is what makes           *)
(* onEndpointClose's early return on a closed client harmless.  The cases  *)
(* in which a listener closes the client inside a handler (ClosedInStart,  *)
(* ClosedInSpawn, ClosedInConnect) are steps like any other.               *)
(***************************************************************************)
EXTENDS AxtpClient, TLAPS

\* A new client satisfies the invariant.
LEMMA InitIInv == Init => IInv
<1> SUFFICES ASSUME Init PROVE IInv
    OBVIOUS
<1> USE EndpointsAssumption, OptionsAssumption DEF Init, Live
<1>1. TypeOK
  BY DEF TypeOK, ClientState
<1>2. OneConnection
  BY DEF OneConnection
<1>3. NeverWedged
  BY DEF NeverWedged
<1>4. HandshakeGuarded
  BY DEF HandshakeGuarded
<1>5. ClosedIsQuiet
  BY DEF ClosedIsQuiet
<1>6. ReadyServes
  BY DEF ReadyServes
<1>7. CoordinatorAgrees
  BY DEF CoordinatorAgrees
<1>8. QED
  BY <1>1, <1>2, <1>3, <1>4, <1>5, <1>6, <1>7 DEF IInv

\* Every step of the client preserves the invariant.
LEMMA NextIInv == IInv /\ [Next]_vars => IInv'
<1> SUFFICES ASSUME TypeOK, OneConnection, NeverWedged, HandshakeGuarded,
                    ClosedIsQuiet, ReadyServes, CoordinatorAgrees,
                    [Next]_vars
             PROVE  IInv'
    BY DEF IInv
<1> USE EndpointsAssumption, OptionsAssumption DEF Live
\* The client leaves idle: the only activity is tryOpen's dial.
<1>1. CASE Connect
  <2> USE <1>1 DEF Connect, ClosedInConnect, coordVars
  <2>1. TypeOK'
    BY DEF TypeOK, ClientState
  <2>2. OneConnection'
    BY DEF OneConnection, CoordinatorAgrees, TypeOK, ClientState,
           OptionRecord
  <2>3. NeverWedged'
    BY DEF NeverWedged, OneConnection, CoordinatorAgrees, TypeOK,
           ClientState, OptionRecord
  <2>4. HandshakeGuarded'
    BY DEF HandshakeGuarded, OneConnection, ClosedIsQuiet, TypeOK,
           ClientState, OptionRecord
  <2>5. ClosedIsQuiet'
    BY DEF ClosedIsQuiet, OneConnection, HandshakeGuarded,
           CoordinatorAgrees, TypeOK, ClientState, OptionRecord
  <2>6. ReadyServes'
    BY DEF ReadyServes, OneConnection, CoordinatorAgrees, ClosedIsQuiet,
           TypeOK, ClientState, OptionRecord
  <2>7. CoordinatorAgrees'
    BY DEF CoordinatorAgrees, OneConnection, ClosedIsQuiet, TypeOK,
           ClientState, OptionRecord
  <2>8. QED BY <2>1, <2>2, <2>3, <2>4, <2>5, <2>6, <2>7
         DEF IInv
\* Only state and connectCall change.
<1>2. CASE ConnectResumes
  <2> USE <1>2 DEF ConnectResumes, SetState, coordVars
  <2>1. TypeOK'
    BY DEF TypeOK, ClientState
  <2>2. OneConnection'
    BY DEF OneConnection, CoordinatorAgrees, TypeOK, ClientState,
           OptionRecord
  <2>3. NeverWedged'
    BY DEF NeverWedged, OneConnection, CoordinatorAgrees, TypeOK,
           ClientState, OptionRecord
  <2>4. HandshakeGuarded'
    BY DEF HandshakeGuarded, OneConnection, ClosedIsQuiet, TypeOK,
           ClientState, OptionRecord
  <2>5. ClosedIsQuiet'
    BY DEF ClosedIsQuiet, OneConnection, HandshakeGuarded,
           CoordinatorAgrees, TypeOK, ClientState, OptionRecord
  <2>6. ReadyServes'
    BY DEF ReadyServes, OneConnection, CoordinatorAgrees, ClosedIsQuiet,
           TypeOK, ClientState, OptionRecord
  <2>7. CoordinatorAgrees'
    BY DEF CoordinatorAgrees, OneConnection, ClosedIsQuiet, TypeOK,
           ClientState, OptionRecord
  <2>8. QED BY <2>1, <2>2, <2>3, <2>4, <2>5, <2>6, <2>7
         DEF IInv
\* Only connectCall changes.
<1>3. CASE ConnectTimeout
  <2> USE <1>3 DEF ConnectTimeout, coordVars
  <2>1. TypeOK'
    BY DEF TypeOK, ClientState
  <2>2. OneConnection'
    BY DEF OneConnection, CoordinatorAgrees, TypeOK, ClientState,
           OptionRecord
  <2>3. NeverWedged'
    BY DEF NeverWedged, OneConnection, CoordinatorAgrees, TypeOK,
           ClientState, OptionRecord
  <2>4. HandshakeGuarded'
    BY DEF HandshakeGuarded, OneConnection, ClosedIsQuiet, TypeOK,
           ClientState, OptionRecord
  <2>5. ClosedIsQuiet'
    BY DEF ClosedIsQuiet, OneConnection, HandshakeGuarded,
           CoordinatorAgrees, TypeOK, ClientState, OptionRecord
  <2>6. ReadyServes'
    BY DEF ReadyServes, OneConnection, CoordinatorAgrees, ClosedIsQuiet,
           TypeOK, ClientState, OptionRecord
  <2>7. CoordinatorAgrees'
    BY DEF CoordinatorAgrees, OneConnection, ClosedIsQuiet, TypeOK,
           ClientState, OptionRecord
  <2>8. QED BY <2>1, <2>2, <2>3, <2>4, <2>5, <2>6, <2>7
         DEF IInv
\* The dial becomes the one live endpoint, or is discarded.
<1>4. CASE OpenSucceeds
  <2> USE <1>4 DEF OpenSucceeds, Spawn, ClosedInSpawn, FailReady, coordVars
  <2>1. TypeOK'
    BY DEF TypeOK, ClientState
  <2>2. OneConnection'
    BY DEF OneConnection, CoordinatorAgrees, TypeOK, ClientState,
           OptionRecord
  <2>3. NeverWedged'
    BY DEF NeverWedged, OneConnection, CoordinatorAgrees, TypeOK,
           ClientState, OptionRecord
  <2>4. HandshakeGuarded'
    BY DEF HandshakeGuarded, OneConnection, ClosedIsQuiet, TypeOK,
           ClientState, OptionRecord
  <2>5. ClosedIsQuiet'
    BY DEF ClosedIsQuiet, OneConnection, HandshakeGuarded,
           CoordinatorAgrees, TypeOK, ClientState, OptionRecord
  <2>6. ReadyServes'
    BY DEF ReadyServes, OneConnection, CoordinatorAgrees, ClosedIsQuiet,
           TypeOK, ClientState, OptionRecord
  <2>7. CoordinatorAgrees'
    BY DEF CoordinatorAgrees, OneConnection, ClosedIsQuiet, TypeOK,
           ClientState, OptionRecord
  <2>8. QED BY <2>1, <2>2, <2>3, <2>4, <2>5, <2>6, <2>7
         DEF IInv
\* The dial is over: the coordinator takes over, or connect() fails.
<1>5. CASE OpenFails
  <2> USE <1>5 DEF OpenFails, StartReconnect, ClosedInStart, Schedule, FailReady
  <2>1. attempts' \in Nat /\ attempting' \in Nat
    BY DEF TypeOK, OneConnection, OptionRecord
  <2>2. TypeOK'
    BY <2>1 DEF TypeOK, ClientState
  <2>3. OneConnection'
    BY DEF OneConnection, CoordinatorAgrees, TypeOK, ClientState,
           OptionRecord
  <2>4. NeverWedged'
    BY DEF NeverWedged, OneConnection, CoordinatorAgrees, TypeOK,
           ClientState, OptionRecord
  <2>5. HandshakeGuarded'
    BY DEF HandshakeGuarded, OneConnection, ClosedIsQuiet, TypeOK,
           ClientState, OptionRecord
  <2>6. ClosedIsQuiet'
    BY DEF ClosedIsQuiet, OneConnection, HandshakeGuarded,
           CoordinatorAgrees, TypeOK, ClientState, OptionRecord
  <2>7. ReadyServes'
    BY DEF ReadyServes, OneConnection, CoordinatorAgrees, ClosedIsQuiet,
           TypeOK, ClientState, OptionRecord
  <2>8. CoordinatorAgrees'
    BY DEF CoordinatorAgrees, OneConnection, ClosedIsQuiet, TypeOK,
           ClientState, OptionRecord
  <2>9. QED BY <2>2, <2>3, <2>4, <2>5, <2>6, <2>7, <2>8
         DEF IInv
\* The backoff timer becomes an attempt in flight.
<1>6. CASE RetryTimerFires
  <2> USE <1>6 DEF RetryTimerFires
  <2>1. attempts' \in Nat /\ attempting' \in Nat
    BY DEF TypeOK, OneConnection, OptionRecord
  <2>2. TypeOK'
    BY <2>1 DEF TypeOK, ClientState
  <2>3. OneConnection'
    BY DEF OneConnection, CoordinatorAgrees, TypeOK, ClientState,
           OptionRecord
  <2>4. NeverWedged'
    BY DEF NeverWedged, OneConnection, CoordinatorAgrees, TypeOK,
           ClientState, OptionRecord
  <2>5. HandshakeGuarded'
    BY DEF HandshakeGuarded, OneConnection, ClosedIsQuiet, TypeOK,
           ClientState, OptionRecord
  <2>6. ClosedIsQuiet'
    BY DEF ClosedIsQuiet, OneConnection, HandshakeGuarded,
           CoordinatorAgrees, TypeOK, ClientState, OptionRecord
  <2>7. ReadyServes'
    BY DEF ReadyServes, OneConnection, CoordinatorAgrees, ClosedIsQuiet,
           TypeOK, ClientState, OptionRecord
  <2>8. CoordinatorAgrees'
    BY DEF CoordinatorAgrees, OneConnection, ClosedIsQuiet, TypeOK,
           ClientState, OptionRecord
  <2>9. QED BY <2>2, <2>3, <2>4, <2>5, <2>6, <2>7, <2>8
         DEF IInv
\* The attempt becomes the one live endpoint, or is discarded.
<1>7. CASE AttemptSucceeds
  <2> USE <1>7 DEF AttemptSucceeds, Spawn, ClosedInSpawn, FailReady
  <2>1. attempts' \in Nat /\ attempting' \in Nat
    BY DEF TypeOK, OneConnection, OptionRecord
  <2>2. TypeOK'
    BY <2>1 DEF TypeOK, ClientState
  <2>3. OneConnection'
    BY DEF OneConnection, CoordinatorAgrees, TypeOK, ClientState,
           OptionRecord
  <2>4. NeverWedged'
    BY DEF NeverWedged, OneConnection, CoordinatorAgrees, TypeOK,
           ClientState, OptionRecord
  <2>5. HandshakeGuarded'
    BY DEF HandshakeGuarded, OneConnection, ClosedIsQuiet, TypeOK,
           ClientState, OptionRecord
  <2>6. ClosedIsQuiet'
    BY DEF ClosedIsQuiet, OneConnection, HandshakeGuarded,
           CoordinatorAgrees, TypeOK, ClientState, OptionRecord
  <2>7. ReadyServes'
    BY DEF ReadyServes, OneConnection, CoordinatorAgrees, ClosedIsQuiet,
           TypeOK, ClientState, OptionRecord
  <2>8. CoordinatorAgrees'
    BY DEF CoordinatorAgrees, OneConnection, ClosedIsQuiet, TypeOK,
           ClientState, OptionRecord
  <2>9. QED BY <2>2, <2>3, <2>4, <2>5, <2>6, <2>7, <2>8
         DEF IInv
\* The attempt is over: the next timer, or the client gives up.
<1>8. CASE AttemptFails
  <2> USE <1>8 DEF AttemptFails, Schedule, FailReady
  <2>1. attempts' \in Nat /\ attempting' \in Nat
    BY DEF TypeOK, OneConnection, OptionRecord
  <2>2. TypeOK'
    BY <2>1, ZenonT(30) DEF TypeOK, ClientState
  <2>3. OneConnection'
    BY DEF OneConnection, CoordinatorAgrees, TypeOK, ClientState,
           OptionRecord
  <2>4. NeverWedged'
    BY DEF NeverWedged, OneConnection, CoordinatorAgrees, TypeOK,
           ClientState, OptionRecord
  <2>5. HandshakeGuarded'
    BY DEF HandshakeGuarded, OneConnection, ClosedIsQuiet, TypeOK,
           ClientState, OptionRecord
  <2>6. ClosedIsQuiet'
    BY DEF ClosedIsQuiet, OneConnection, HandshakeGuarded,
           CoordinatorAgrees, TypeOK, ClientState, OptionRecord
  <2>7. ReadyServes'
    BY DEF ReadyServes, OneConnection, CoordinatorAgrees, ClosedIsQuiet,
           TypeOK, ClientState, OptionRecord
  <2>8. CoordinatorAgrees'
    BY DEF CoordinatorAgrees, OneConnection, ClosedIsQuiet, TypeOK,
           ClientState, OptionRecord
  <2>9. QED BY <2>2, <2>3, <2>4, <2>5, <2>6, <2>7, <2>8
         DEF IInv
\* e is the client's endpoint, so nothing else is under way.
<1>9. ASSUME NEW e \in Endpoints, EndpointReady(e) PROVE IInv'
  <2> USE <1>9 DEF EndpointReady, SetState
  <2>1. attempts' \in Nat /\ attempting' \in Nat
    BY DEF TypeOK, OneConnection, OptionRecord
  <2>2. TypeOK'
    BY <2>1 DEF TypeOK, ClientState
  <2>3. OneConnection'
    BY DEF OneConnection, CoordinatorAgrees, TypeOK, ClientState,
           OptionRecord
  <2>4. NeverWedged'
    BY DEF NeverWedged, OneConnection, CoordinatorAgrees, TypeOK,
           ClientState, OptionRecord
  <2>5. HandshakeGuarded'
    BY DEF HandshakeGuarded, OneConnection, ClosedIsQuiet, TypeOK,
           ClientState, OptionRecord
  <2>6. ClosedIsQuiet'
    BY DEF ClosedIsQuiet, OneConnection, HandshakeGuarded,
           CoordinatorAgrees, TypeOK, ClientState, OptionRecord
  <2>7. ReadyServes'
    BY DEF ReadyServes, OneConnection, CoordinatorAgrees, ClosedIsQuiet,
           TypeOK, ClientState, OptionRecord
  <2>8. CoordinatorAgrees'
    BY DEF CoordinatorAgrees, OneConnection, ClosedIsQuiet, TypeOK,
           ClientState, OptionRecord
  <2>9. QED BY <2>2, <2>3, <2>4, <2>5, <2>6, <2>7, <2>8
         DEF IInv
\* e was the only activity: the coordinator starts again or the client ends.
<1>10. ASSUME NEW e \in Endpoints, EndpointCloses(e) PROVE IInv'
  <2> USE <1>10 DEF EndpointCloses, CloseEndpoint, OnEndpointClose,
                    StartReconnect, ClosedInStart, Schedule, FailReady
  <2>1. attempts' \in Nat /\ attempting' \in Nat
    BY DEF TypeOK, OneConnection, OptionRecord
  <2>2. TypeOK'
    BY <2>1 DEF TypeOK, ClientState
  <2>3. OneConnection'
    BY DEF OneConnection, CoordinatorAgrees, TypeOK, ClientState,
           OptionRecord
  <2>4. NeverWedged'
    BY DEF NeverWedged, OneConnection, CoordinatorAgrees, TypeOK,
           ClientState, OptionRecord
  <2>5. HandshakeGuarded'
    BY DEF HandshakeGuarded, OneConnection, ClosedIsQuiet, TypeOK,
           ClientState, OptionRecord
  <2>6. ClosedIsQuiet'
    BY DEF ClosedIsQuiet, OneConnection, HandshakeGuarded,
           CoordinatorAgrees, TypeOK, ClientState, OptionRecord
  <2>7. ReadyServes'
    BY DEF ReadyServes, OneConnection, CoordinatorAgrees, ClosedIsQuiet,
           TypeOK, ClientState, OptionRecord
  <2>8. CoordinatorAgrees'
    BY DEF CoordinatorAgrees, OneConnection, ClosedIsQuiet, TypeOK,
           ClientState, OptionRecord
  <2>9. QED BY <2>2, <2>3, <2>4, <2>5, <2>6, <2>7, <2>8
         DEF IInv
\* e is the client's endpoint, so the client ends.
<1>11. ASSUME NEW e \in Endpoints, HandshakeFails(e) PROVE IInv'
  <2> USE <1>11 DEF HandshakeFails, CloseEndpoint, OnEndpointClose,
                    StartReconnect, ClosedInStart, Schedule, FailReady, Stop, coordVars
  <2>1. attempts' \in Nat /\ attempting' \in Nat
    BY DEF TypeOK, OneConnection, OptionRecord
  <2>2. TypeOK'
    BY <2>1 DEF TypeOK, ClientState
  <2>3. OneConnection'
    BY DEF OneConnection, CoordinatorAgrees, TypeOK, ClientState,
           OptionRecord
  <2>4. NeverWedged'
    BY DEF NeverWedged, OneConnection, CoordinatorAgrees, TypeOK,
           ClientState, OptionRecord
  <2>5. HandshakeGuarded'
    BY DEF HandshakeGuarded, OneConnection, ClosedIsQuiet, TypeOK,
           ClientState, OptionRecord
  <2>6. ClosedIsQuiet'
    BY DEF ClosedIsQuiet, OneConnection, HandshakeGuarded,
           CoordinatorAgrees, TypeOK, ClientState, OptionRecord
  <2>7. ReadyServes'
    BY DEF ReadyServes, OneConnection, CoordinatorAgrees, ClosedIsQuiet,
           TypeOK, ClientState, OptionRecord
  <2>8. CoordinatorAgrees'
    BY DEF CoordinatorAgrees, OneConnection, ClosedIsQuiet, TypeOK,
           ClientState, OptionRecord
  <2>9. QED BY <2>2, <2>3, <2>4, <2>5, <2>6, <2>7, <2>8
         DEF IInv
\* As EndpointCloses, for an endpoint whose handshake is under way.
<1>12. ASSUME NEW e \in Endpoints, HandshakeTimeout(e) PROVE IInv'
  <2> USE <1>12 DEF HandshakeTimeout, CloseEndpoint, OnEndpointClose,
                    StartReconnect, ClosedInStart, Schedule, FailReady
  <2>1. attempts' \in Nat /\ attempting' \in Nat
    BY DEF TypeOK, OneConnection, OptionRecord
  <2>2. TypeOK'
    BY <2>1 DEF TypeOK, ClientState
  <2>3. OneConnection'
    <3>1. CASE state = "closed" \/ endpoint # e \/ lifecycle[e] = "ready"
      BY <3>1 DEF OneConnection, TypeOK
    <3>2. CASE state # "closed" /\ endpoint = e /\ lifecycle[e] # "ready"
      <4>1. Live(e) /\ ~opening /\ ~retryTimer /\ attempting = 0
        BY <3>2 DEF HandshakeGuarded, OneConnection, TypeOK
      <4>2. lifecycle' = [lifecycle EXCEPT ![e] = "closed"]
        BY <3>2
      <4>3. \A f \in Endpoints : ~Live(f)'
        BY <4>1, <4>2 DEF OneConnection, TypeOK
      <4>4. ~opening' /\ attempting' = 0
        BY <4>1
      <4>5. QED
        BY <4>3, <4>4 DEF OneConnection
    <3>3. QED
      BY <3>1, <3>2
  <2>4. NeverWedged'
    BY DEF NeverWedged, OneConnection, CoordinatorAgrees, TypeOK,
           ClientState, OptionRecord
  <2>5. HandshakeGuarded'
    BY DEF HandshakeGuarded, OneConnection, ClosedIsQuiet, TypeOK,
           ClientState, OptionRecord
  <2>6. ClosedIsQuiet'
    BY DEF ClosedIsQuiet, OneConnection, HandshakeGuarded,
           CoordinatorAgrees, TypeOK, ClientState, OptionRecord
  <2>7. ReadyServes'
    BY DEF ReadyServes, OneConnection, CoordinatorAgrees, ClosedIsQuiet,
           TypeOK, ClientState, OptionRecord
  <2>8. CoordinatorAgrees'
    BY DEF CoordinatorAgrees, OneConnection, ClosedIsQuiet, TypeOK,
           ClientState, OptionRecord
  <2>9. QED BY <2>2, <2>3, <2>4, <2>5, <2>6, <2>7, <2>8
         DEF IInv
\* Everything but a dial in flight goes.
<1>13. CASE Close
  <2> USE <1>13 DEF Close, Stop, FailReady
  <2>1. TypeOK'
    BY DEF TypeOK, ClientState
  <2>2. \A e \in Endpoints : ~Live(e)'
    BY DEF OneConnection, TypeOK
  <2>3. OneConnection'
    <3>1. \A e \in Endpoints : Live(e)' =>
             endpoint' = e /\ ~opening' /\ ~retryTimer' /\ attempting' = 0
      BY <2>2
    <3>2. (opening => ~retryTimer /\ attempting = 0)'
      BY DEF OneConnection
    <3>3. (attempting > 0 => ~retryTimer)' /\ (attempting <= 1)'
      BY DEF OneConnection
    <3>4. QED
      BY <3>1, <3>2, <3>3 DEF OneConnection
  <2>4. NeverWedged'
    BY DEF NeverWedged, OneConnection, CoordinatorAgrees, TypeOK,
           ClientState, OptionRecord
  <2>5. HandshakeGuarded'
    BY DEF HandshakeGuarded, OneConnection, ClosedIsQuiet, TypeOK,
           ClientState, OptionRecord
  <2>6. ClosedIsQuiet'
    BY <2>2 DEF ClosedIsQuiet, OneConnection, HandshakeGuarded,
                CoordinatorAgrees, TypeOK, ClientState, OptionRecord
  <2>7. ReadyServes'
    BY DEF ReadyServes, OneConnection, CoordinatorAgrees, ClosedIsQuiet,
           TypeOK, ClientState, OptionRecord
  <2>8. CoordinatorAgrees'
    BY DEF CoordinatorAgrees, OneConnection, ClosedIsQuiet, TypeOK,
           ClientState, OptionRecord
  <2>9. QED BY <2>1, <2>3, <2>4, <2>5, <2>6, <2>7, <2>8
         DEF IInv
\* A stuttering step.
<1>14. CASE UNCHANGED vars
  BY <1>14 DEF vars, coordVars, IInv, TypeOK, OneConnection, NeverWedged,
               HandshakeGuarded, ClosedIsQuiet, ReadyServes, CoordinatorAgrees
<1>15. QED
  BY <1>1, <1>2, <1>3, <1>4, <1>5, <1>6, <1>7, <1>8, <1>9, <1>10, <1>11,
     <1>12, <1>13, <1>14
     DEF Next, EndpointEvent

\* The invariant holds throughout every behaviour of the client.
THEOREM Invariance == Spec => []IInv
<1>1. Init => IInv
  BY InitIInv
<1>2. IInv /\ [Next]_vars => IInv'
  BY NextIInv
<1>3. QED
  BY <1>1, <1>2, PTL DEF Spec

\* Type correctness.
THEOREM TypeCorrect == Spec => []TypeOK
<1>1. IInv => TypeOK
  BY DEF IInv
<1>2. QED
  BY <1>1, Invariance, PTL

\* The client never runs two connections, and events reach it only from the
\* endpoint it uses.
THEOREM SingleConnection == Spec => []OneConnection
<1>1. IInv => OneConnection
  BY DEF IInv
<1>2. QED
  BY <1>1, Invariance, PTL

\* A reconnecting client always has its next step under way.
THEOREM AlwaysUnderWay == Spec => []NeverWedged
<1>1. IInv => NeverWedged
  BY DEF IInv
<1>2. QED
  BY <1>1, Invariance, PTL

\* The handshake timer watches the endpoint in its handshake, and no other.
THEOREM HandshakesGuarded == Spec => []HandshakeGuarded
<1>1. IInv => HandshakeGuarded
  BY DEF IInv
<1>2. QED
  BY <1>1, Invariance, PTL

\* A closed client holds no live endpoint, and no coordinator, timer or caller
\* of connect() but what a listener's close() left to its own handler.
THEOREM QuietWhenClosed == Spec => []ClosedIsQuiet
<1>1. IInv => ClosedIsQuiet
  BY DEF IInv
<1>2. QED
  BY <1>1, Invariance, PTL

\* Once connect() has resolved, a ready endpoint means a ready client.
THEOREM ReadyWhenServing == Spec => []ReadyServes
<1>1. IInv => ReadyServes
  BY DEF IInv
<1>2. QED
  BY <1>1, Invariance, PTL

\* Which steps give attempts back, and what a closed client may still do.
LEMMA StepsAreBudgeted == IInv /\ [Next]_vars => [FinalAndBudgeted]_vars
<1> SUFFICES ASSUME IInv, Next PROVE FinalAndBudgeted
    BY DEF FinalAndBudgeted, vars
<1> USE DEF IInv, FinalAndBudgeted, TypeOK, ClosedIsQuiet, Live
<1>1. CASE Connect
  BY <1>1 DEF Connect, ClosedInConnect, coordVars
<1>2. CASE ConnectResumes
  BY <1>2 DEF ConnectResumes, SetState, coordVars
<1>3. CASE ConnectTimeout
  BY <1>3 DEF ConnectTimeout, coordVars
<1>4. CASE OpenSucceeds
  BY <1>4 DEF OpenSucceeds, Spawn, ClosedInSpawn, FailReady, coordVars
<1>5. CASE OpenFails
  BY <1>5 DEF OpenFails, StartReconnect, ClosedInStart, Schedule
<1>6. CASE RetryTimerFires
  BY <1>6 DEF RetryTimerFires, CoordinatorAgrees, OneConnection
<1>7. CASE AttemptSucceeds
  BY <1>7 DEF AttemptSucceeds, Spawn, ClosedInSpawn, FailReady
<1>8. CASE AttemptFails
  BY <1>8 DEF AttemptFails, Schedule
<1>9. ASSUME NEW e \in Endpoints, EndpointReady(e) PROVE FinalAndBudgeted
  BY <1>9 DEF EndpointReady
<1>10. ASSUME NEW e \in Endpoints, EndpointCloses(e) PROVE FinalAndBudgeted
  BY <1>10 DEF EndpointCloses, CloseEndpoint, OnEndpointClose,
               StartReconnect, ClosedInStart, Schedule
<1>11. ASSUME NEW e \in Endpoints, HandshakeFails(e) PROVE FinalAndBudgeted
  BY <1>11 DEF HandshakeFails, CloseEndpoint, OnEndpointClose,
               StartReconnect, ClosedInStart, Schedule, Stop, coordVars
<1>12. ASSUME NEW e \in Endpoints, HandshakeTimeout(e) PROVE FinalAndBudgeted
  BY <1>12 DEF HandshakeTimeout, CloseEndpoint, OnEndpointClose,
               StartReconnect, ClosedInStart, Schedule
<1>13. CASE Close
  BY <1>13 DEF Close, Stop
<1>14. QED
  BY <1>1, <1>2, <1>3, <1>4, <1>5, <1>6, <1>7, <1>8, <1>9, <1>10, <1>11,
     <1>12, <1>13 DEF Next, EndpointEvent

\* closed is final: no endpoint comes to life, only a coordinator that a
\* listener's close() left running dials, within its budget, and none starts
\* again.  Only an endpoint that became ready gives attempts back.
THEOREM ClosedFinalAndBudget == Spec => BudgetAndEnd
<1>1. IInv /\ [Next]_vars => [FinalAndBudgeted]_vars
  BY StepsAreBudgeted
<1>2. QED
  BY <1>1, Invariance, PTL DEF Spec, BudgetAndEnd
=============================================================================
