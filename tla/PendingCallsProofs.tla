------------------------- MODULE PendingCallsProofs -------------------------
(***************************************************************************)
(* The table of outgoing calls, for every set of calls and every size of   *)
(* the request id.  The invariant IInv of PendingCalls adds to the checked *)
(* properties that an id in use names one call (IdsNameCalls): this is why *)
(* the entry a response or a timer finds by its id is its own, and with it *)
(* every step is a step of CallContract.                                   *)
(***************************************************************************)
EXTENDS PendingCalls, TLAPS

\* An empty table satisfies the invariant.
LEMMA InitIInv == Init => IInv
<1> SUFFICES ASSUME Init PROVE IInv
    OBVIOUS
<1> USE PendingCallsAssumption DEF Init, Ids
<1>1. TypeOK
  <2>1. nextRequestId \in Ids
    OBVIOUS
  <2>2. requestId \in [Calls -> 0..MaxRequestId]
    <3>1. 0 \in 0..MaxRequestId
      OBVIOUS
    <3>2. QED
      BY <3>1
  <2>3. reused \in BOOLEAN
    OBVIOUS
  <2>4. QED
    BY <2>1, <2>2, <2>3 DEF TypeOK, Outcome
<1>2. TableAgrees
  BY DEF TableAgrees
<1>3. AnsweredByOwn
  BY DEF AnsweredByOwn
<1>4. IdsNameCalls
  BY DEF IdsNameCalls
<1>5. QED
  BY <1>1, <1>2, <1>3, <1>4 DEF IInv

\* Ids stay within their 32 bits.
LEMMA SuccessorType == \A i \in Ids : Successor(i) \in Ids
BY PendingCallsAssumption DEF Successor, Ids

\* An id that is not in use has no entry and belongs to no waiting call.
LEMMA FreshId ==
    ASSUME TypeOK, NEW i \in Ids, ~InUse(i)
    PROVE  /\ pending[i] = NoCall
           /\ \A c \in timers \cup underway : requestId[c] # i
BY DEF InUse

\* The entry that the id of a waiting or answered call leads to is its own.
LEMMA OwnEntry ==
    ASSUME IInv, ~reused, NEW r \in timers \cup underway,
           pending[requestId[r]] # NoCall
    PROVE  pending[requestId[r]] = r /\ outcome[r] = "pending"
<1> DEFINE c == pending[requestId[r]]
<1>1. requestId[r] \in Ids /\ c \in Calls
  BY DEF IInv, IdsNameCalls, TypeOK
<1>2. outcome[c] = "pending" /\ requestId[c] = requestId[r]
  BY <1>1 DEF IInv, TableAgrees
<1>3. c \in timers
  BY <1>1, <1>2 DEF IInv, TableAgrees
<1>4. c = r
  BY <1>2, <1>3 DEF IInv, IdsNameCalls
<1>5. QED
  BY <1>2, <1>4

\* Every step preserves the invariant.
LEMMA NextIInv == IInv /\ [Next]_vars => IInv'
<1> SUFFICES ASSUME TypeOK, TableAgrees, AnsweredByOwn, IdsNameCalls,
                    [Next]_vars
             PROVE  IInv'
    BY DEF IInv
<1> USE PendingCallsAssumption
<1>1. ASSUME NEW c \in Calls, Request(c) PROVE IInv'
  <2> USE <1>1 DEF Request
  <2>1. nextRequestId \in Ids /\ Successor(nextRequestId) \in Ids
    BY SuccessorType DEF TypeOK
  <2>2. TypeOK'
    BY <2>1 DEF TypeOK, Outcome, Ids
  <2>3. ~reused' => /\ ~reused /\ pending[nextRequestId] = NoCall
                    /\ \A d \in timers \cup underway :
                          requestId[d] # nextRequestId
    BY <2>1, FreshId
  <2>4. c \notin timers \cup underway
    BY DEF IdsNameCalls
  <2>5. TableAgrees'
    BY <2>1, <2>3, <2>4 DEF TableAgrees, TypeOK
  <2>6. AnsweredByOwn'
    BY <2>3 DEF AnsweredByOwn, TypeOK
  <2>7. IdsNameCalls'
    BY <2>1, <2>3, <2>4 DEF IdsNameCalls, TypeOK
  <2>8. QED
    BY <2>2, <2>5, <2>6, <2>7 DEF IInv
<1>2. ASSUME NEW c \in Calls, RequestThrows(c) PROVE IInv'
  <2> USE <1>2 DEF RequestThrows
  <2>1. nextRequestId \in Ids /\ Successor(nextRequestId) \in Ids
    BY SuccessorType DEF TypeOK
  <2>2. TypeOK'
    BY <2>1 DEF TypeOK, Outcome, Ids
  <2>3. ~reused' => /\ ~reused /\ pending[nextRequestId] = NoCall
                    /\ \A d \in timers \cup underway :
                          requestId[d] # nextRequestId
    BY <2>1, FreshId
  <2>4. c \notin timers \cup underway
    BY DEF IdsNameCalls
  <2>5. TableAgrees'
    BY <2>1, <2>3, <2>4 DEF TableAgrees, TypeOK
  <2>6. AnsweredByOwn'
    BY <2>3 DEF AnsweredByOwn, TypeOK
  <2>7. IdsNameCalls'
    BY <2>4 DEF IdsNameCalls, TypeOK
  <2>8. QED
    BY <2>2, <2>5, <2>6, <2>7 DEF IInv
<1>3. ASSUME NEW r \in Calls, Resolve(r) PROVE IInv'
  <2> DEFINE i == requestId[r]
             c == pending[i]
  <2> USE <1>3 DEF Resolve
  <2>1. i \in Ids /\ r \in underway /\ underway' \subseteq underway
    BY DEF IdsNameCalls
  <2>2. CASE c = NoCall
    BY <2>1, <2>2 DEF IInv, TypeOK, TableAgrees, AnsweredByOwn, IdsNameCalls
  <2>3. CASE c # NoCall
    <3>1. c \in Calls
      BY <2>1, <2>3 DEF TypeOK
    <3>2. /\ timers' = timers \ {c}
          /\ pending' = [pending EXCEPT ![i] = NoCall]
          /\ outcome' = [d \in Calls |->
                 IF d = c /\ outcome[d] = "pending" THEN "resolved" ELSE outcome[d]]
          /\ answered' = [answered EXCEPT ![c] = r]
          /\ UNCHANGED <<nextRequestId, requestId, reused>>
      BY <2>3, <3>1 DEF Settle
    <3>3. ~reused => c = r /\ outcome[c] = "pending"
      BY <2>1, <2>3, OwnEntry DEF IInv
    <3>4. TypeOK'
      BY <2>1, <3>1, <3>2 DEF TypeOK, Outcome
    <3>5. TableAgrees'
      BY <2>1, <3>1, <3>2, <3>3 DEF TableAgrees, TypeOK
    <3>6. AnsweredByOwn'
      BY <3>1, <3>2, <3>3 DEF AnsweredByOwn, TypeOK
    <3>7. IdsNameCalls'
      BY <2>1, <3>1, <3>2 DEF IdsNameCalls, TypeOK
    <3>8. QED
      BY <3>4, <3>5, <3>6, <3>7 DEF IInv
  <2>4. QED
    BY <2>2, <2>3
<1>4. ASSUME NEW c \in Calls, Timeout(c) PROVE IInv'
  <2> DEFINE i == requestId[c]
  <2> USE <1>4 DEF Timeout
  <2>1. i \in Ids /\ c \in timers
    BY DEF IdsNameCalls
  <2>2. ~reused => pending[i] = c /\ outcome[c] = "pending"
    BY <2>1 DEF TableAgrees
  <2>3. CASE pending[i] = NoCall
    <3>1. reused
      BY <2>2, <2>3
    <3>2. QED
      BY <2>1, <2>3, <3>1
         DEF IInv, TypeOK, TableAgrees, AnsweredByOwn, IdsNameCalls
  <2>4. CASE pending[i] # NoCall
    <3>1. /\ timers' = timers \ {c}
          /\ pending' = [pending EXCEPT ![i] = NoCall]
          /\ outcome' = [d \in Calls |->
                 IF d = c /\ outcome[d] = "pending" THEN "rejected" ELSE outcome[d]]
          /\ UNCHANGED <<nextRequestId, requestId, underway, answered, reused>>
      BY <2>4 DEF Settle
    <3>2. TypeOK'
      BY <2>1, <3>1 DEF TypeOK, Outcome
    <3>3. TableAgrees'
      BY <2>1, <2>2, <3>1 DEF TableAgrees, TypeOK
    <3>4. AnsweredByOwn'
      BY <3>1 DEF AnsweredByOwn, TypeOK
    <3>5. IdsNameCalls'
      BY <3>1 DEF IdsNameCalls, TypeOK
    <3>6. QED
      BY <3>2, <3>3, <3>4, <3>5 DEF IInv
  <2>5. QED
    BY <2>3, <2>4
<1>5. CASE RejectAll
  <2> USE <1>5 DEF RejectAll
  <2>1. outcome' = [d \in Calls |->
            IF d \in Entries /\ outcome[d] = "pending" THEN "rejected" ELSE outcome[d]]
    BY DEF Settle
  <2>2. ~reused => Entries = timers
    BY DEF Entries, TableAgrees, IdsNameCalls, TypeOK
  <2>3. TypeOK'
    BY <2>1 DEF TypeOK, Outcome
  <2>4. TableAgrees'
    BY <2>1, <2>2 DEF TableAgrees, TypeOK
  <2>5. AnsweredByOwn'
    BY <2>1 DEF AnsweredByOwn, TypeOK
  <2>6. IdsNameCalls'
    BY <2>1 DEF IdsNameCalls, TypeOK
  <2>7. QED
    BY <2>3, <2>4, <2>5, <2>6 DEF IInv
<1>6. ASSUME NEW c \in Calls, Lost(c) PROVE IInv'
  BY <1>6 DEF Lost, IInv, TypeOK, TableAgrees, AnsweredByOwn, IdsNameCalls
<1>7. CASE UNCHANGED vars
  BY <1>7 DEF vars, IInv, TypeOK, TableAgrees, AnsweredByOwn, IdsNameCalls, Ids
<1>8. QED
  BY <1>1, <1>2, <1>3, <1>4, <1>5, <1>6, <1>7 DEF Next

\* The invariant holds in every reachable state.
THEOREM Invariance == Spec => []IInv
<1>1. QED
  BY InitIInv, NextIInv, PTL DEF Spec

\* The table's variables keep their types; ids never leave their 32 bits.
THEOREM TypeCorrect == Spec => []TypeOK
<1>1. IInv => TypeOK
  BY DEF IInv
<1>2. QED
  BY <1>1, Invariance, PTL

\* While ids outlive their calls, every waiting caller has its own entry and
\* its own timer, and there are no others.
THEOREM TableConsistent == Spec => []TableAgrees
<1>1. IInv => TableAgrees
  BY DEF IInv
<1>2. QED
  BY <1>1, Invariance, PTL

\* While ids outlive their calls, a call is fulfilled only by its own answer.
THEOREM NoForeignAnswer == Spec => []AnsweredByOwn
<1>1. IInv => AnsweredByOwn
  BY DEF IInv
<1>2. QED
  BY <1>1, Invariance, PTL

-----------------------------------------------------------------------------
(* The table implements the contract of a call.                            *)

\* An empty table is an initial state of the contract.
LEMMA ContractInit == Init => Contract!Init
BY DEF Init, Contract!Init

\* A step of the table is a step of the contract, or changes nothing in it.
LEMMA ContractStep == IInv /\ [Next]_vars => [Contract!Next]_(Contract!cvars)
<1> SUFFICES ASSUME IInv, [Next]_vars, ~reused'
             PROVE  Contract!Next \/ UNCHANGED Contract!cvars
    BY DEF Contract!Next
<1> USE PendingCallsAssumption
<1>0. TypeOK /\ TableAgrees /\ IdsNameCalls
  BY DEF IInv
<1>1. ASSUME NEW c \in Calls, Request(c) PROVE Contract!Next
  <2>1. Contract!Ask(c)
    BY <1>1 DEF Request, Contract!Ask
  <2>2. reused' \in BOOLEAN /\ (reused' <=> reused \/ InUse(nextRequestId))
    BY ONLY <1>1, Zenon DEF Request
  <2>3. reused = FALSE /\ reused' = FALSE
    BY ONLY <1>0, <2>2, ~reused', Zenon DEF TypeOK
  <2>4. QED
    BY <2>1, <2>3 DEF Contract!Next
<1>2. ASSUME NEW c \in Calls, RequestThrows(c) PROVE Contract!Next
  <2>1. Contract!Throw(c)
    BY <1>2 DEF RequestThrows, Contract!Throw
  <2>2. reused' \in BOOLEAN /\ (reused' <=> reused \/ InUse(nextRequestId))
    BY ONLY <1>2, Zenon DEF RequestThrows
  <2>3. reused = FALSE /\ reused' = FALSE
    BY ONLY <1>0, <2>2, ~reused', Zenon DEF TypeOK
  <2>4. QED
    BY <2>1, <2>3 DEF Contract!Next
<1>3. ASSUME NEW r \in Calls, Resolve(r)
      PROVE Contract!Next \/ UNCHANGED Contract!cvars
  <2>1. ~reused /\ r \in underway /\ underway' \in {underway, underway \ {r}}
    BY <1>3 DEF Resolve
  <2>2. CASE pending[requestId[r]] = NoCall
    <3>1. outcome' = outcome /\ UNCHANGED reused
      BY <1>3, <2>2 DEF Resolve
    <3>2. CASE underway' = underway
      BY <3>1, <3>2 DEF Contract!cvars
    <3>3. CASE underway' = underway \ {r}
      BY <2>1, <3>1, <3>3 DEF Contract!Next, Contract!Forget
    <3>4. QED
      BY <2>1, <3>2, <3>3
  <2>3. CASE pending[requestId[r]] # NoCall
    <3>1. pending[requestId[r]] = r /\ outcome[r] = "pending"
      BY <2>1, <2>3, OwnEntry
    <3>2. outcome' = [outcome EXCEPT ![r] = "resolved"] /\ UNCHANGED reused
      BY <1>0, <1>3, <2>3, <3>1 DEF Resolve, Settle, TypeOK
    <3>3. Contract!Fulfil(r)
      BY <2>1, <3>1, <3>2 DEF Contract!Fulfil
    <3>4. QED
      BY <3>2, <3>3 DEF Contract!Next
  <2>4. QED
    BY <2>2, <2>3
<1>4. ASSUME NEW c \in Calls, Timeout(c) PROVE Contract!Next
  <2>1. ~reused /\ c \in timers /\ UNCHANGED <<underway, reused>>
    BY <1>4 DEF Timeout
  <2>2. pending[requestId[c]] = c /\ outcome[c] = "pending"
    BY <1>0, <2>1 DEF TableAgrees
  <2>3. outcome' = [d \in Calls |-> IF d \in {c} THEN "rejected" ELSE outcome[d]]
    BY <1>4, <2>2 DEF Timeout, Settle
  <2>4. Contract!Reject({c})
    BY <2>1, <2>2, <2>3 DEF Contract!Reject
  <2>5. QED
    BY <2>1, <2>4 DEF Contract!Next
<1>5. ASSUME RejectAll PROVE Contract!Next
  <2>1. ~reused /\ UNCHANGED <<underway, reused>>
    BY <1>5 DEF RejectAll
  <2>2. Entries \in SUBSET Calls /\ \A d \in Entries : outcome[d] = "pending"
    BY <1>0, <2>1 DEF Entries, TypeOK, TableAgrees
  <2>3. outcome' =
           [d \in Calls |-> IF d \in Entries THEN "rejected" ELSE outcome[d]]
    BY <1>5, <2>2 DEF RejectAll, Settle
  <2>4. Contract!Reject(Entries)
    BY <2>1, <2>2, <2>3 DEF Contract!Reject
  <2>5. QED
    BY <2>1, <2>2, <2>4 DEF Contract!Next
<1>6. ASSUME NEW c \in Calls, Lost(c) PROVE Contract!Next
  BY <1>6 DEF Lost, Contract!Next, Contract!Forget
<1>7. CASE UNCHANGED vars
  BY <1>7 DEF vars, Contract!cvars
<1>8. QED
  BY <1>1, <1>2, <1>3, <1>4, <1>5, <1>6, <1>7 DEF Next

\* PendingCalls implements CallContract: a call's promise settles once, and
\* is fulfilled only by an answer of the peer to that call.
THEOREM Implements == Spec => ImplementsContract
<1>1. QED
  BY ContractInit, ContractStep, Invariance, PTL
     DEF Spec, ImplementsContract, Contract!Spec
=============================================================================
