---------------------------- MODULE PendingCalls ----------------------------
(***************************************************************************)
(* The table of outgoing RPC calls of a Core (src/src/core/pendingCalls.ts)*)
(* between the callers and a peer that may answer late, never or twice.    *)
(* Request ids count from 1 to MaxRequestId and wrap, whether or not the   *)
(* id is still in use; each call's timer remembers the id, not the entry.  *)
(***************************************************************************)
EXTENDS Naturals

CONSTANTS
    Calls,        \* the calls issued; each is issued once
    NoCall,       \* Map.get: undefined
    MaxRequestId  \* kMaxRequestId, 2^32 - 1 in the code

ASSUME PendingCallsAssumption ==
    /\ NoCall \notin Calls
    /\ MaxRequestId \in Nat \ {0}

Ids == 1..MaxRequestId

VARIABLES
    nextRequestId,
    pending,   \* the Map: request id -> the call whose entry it holds
    timers,    \* calls whose setTimeout is armed
    requestId, \* the id a call was given; 0 before
    outcome,   \* the promise of each call
    underway,  \* calls whose request or response is still on its way
    answered,  \* history: the call each fulfilled promise was answered for
    reused     \* history: an id was given out while a call still used it

vars == <<nextRequestId, pending, timers, requestId, outcome, underway,
          answered, reused>>

Outcome == {"new", "pending", "resolved", "rejected", "threw"}

TypeOK ==
    /\ nextRequestId \in Ids
    /\ pending \in [Ids -> Calls \cup {NoCall}]
    /\ timers \subseteq Calls
    /\ requestId \in [Calls -> 0..MaxRequestId]
    /\ outcome \in [Calls -> Outcome]
    /\ underway \subseteq Calls
    /\ answered \in [Calls -> Calls \cup {NoCall}]
    /\ reused \in BOOLEAN

Init ==
    /\ nextRequestId = 1
    /\ pending = [i \in Ids |-> NoCall]
    /\ timers = {}
    /\ requestId = [c \in Calls |-> 0]
    /\ outcome = [c \in Calls |-> "new"]
    /\ underway = {}
    /\ answered = [c \in Calls |-> NoCall]
    /\ reused = FALSE

\* Mutant of Successor: off by one.
SuccessorTooFar(i) == IF i > MaxRequestId THEN 1 ELSE i + 1

\* allocateRequestId
Successor(i) == IF i >= MaxRequestId THEN 1 ELSE i + 1

\* Somebody still refers to id i: its entry, a timer or a message.
InUse(i) == \/ pending[i] # NoCall
            \/ \E c \in timers \cup underway : requestId[c] = i

\* request(), send succeeds: the entry of an id that is in use is overwritten.
Request(c) ==
    /\ outcome[c] = "new"
    /\ nextRequestId' = Successor(nextRequestId)
    /\ requestId' = [requestId EXCEPT ![c] = nextRequestId]
    /\ pending' = [pending EXCEPT ![nextRequestId] = c]
    /\ timers' = timers \cup {c}
    /\ outcome' = [outcome EXCEPT ![c] = "pending"]
    /\ underway' = underway \cup {c}
    /\ reused' = (reused \/ InUse(nextRequestId))
    /\ UNCHANGED answered

\* request(), send throws: cancel() takes the entry back and the caller sees
\* the exception.
RequestThrows(c) ==
    /\ outcome[c] = "new"
    /\ nextRequestId' = Successor(nextRequestId)
    /\ requestId' = [requestId EXCEPT ![c] = nextRequestId]
    /\ pending' = [pending EXCEPT ![nextRequestId] = NoCall]
    /\ outcome' = [outcome EXCEPT ![c] = "threw"]
    /\ reused' = (reused \/ InUse(nextRequestId))
    /\ UNCHANGED <<timers, underway, answered>>

\* A promise that has settled ignores a second resolve or reject.
Settle(S, s) ==
    outcome' = [c \in Calls |->
                   IF c \in S /\ outcome[c] = "pending" THEN s ELSE outcome[c]]

\* Mutant of Resolve: the timer is not cleared.
ResolveKeepsTimer(r) ==
    /\ r \in underway
    /\ underway' \in {underway, underway \ {r}}
    /\ LET c == pending[requestId[r]]
       IN IF c = NoCall
          THEN UNCHANGED <<pending, outcome, answered>>
          ELSE /\ pending' = [pending EXCEPT ![requestId[r]] = NoCall]
               /\ Settle({c}, "resolved")
               /\ answered' = [answered EXCEPT ![c] = r]
    /\ UNCHANGED <<nextRequestId, timers, requestId, reused>>

\* Mutant of Resolve: answers are taken to come in the order of the requests.
ResolveOldest(r) ==
    /\ r \in underway
    /\ underway' \in {underway, underway \ {r}}
    /\ LET used == {i \in Ids : pending[i] # NoCall}
           first == CHOOSE i \in used : \A j \in used : i <= j
           c == pending[first]
       IN IF used = {}
          THEN UNCHANGED <<pending, timers, outcome, answered>>
          ELSE /\ timers' = timers \ {c}
               /\ pending' = [pending EXCEPT ![first] = NoCall]
               /\ Settle({c}, "resolved")
               /\ answered' = [answered EXCEPT ![c] = r]
    /\ UNCHANGED <<nextRequestId, requestId, reused>>

\* resolve(): a response to call r arrives; it carries r's id and settles
\* whoever holds the entry.  The peer may answer again.
Resolve(r) ==
    /\ r \in underway
    /\ underway' \in {underway, underway \ {r}}
    /\ LET i == requestId[r]
           c == pending[i]
       IN IF c = NoCall
          THEN UNCHANGED <<pending, timers, outcome, answered>>
          ELSE /\ timers' = timers \ {c}
               /\ pending' = [pending EXCEPT ![i] = NoCall]
               /\ Settle({c}, "resolved")
               /\ answered' = [answered EXCEPT ![c] = r]
    /\ UNCHANGED <<nextRequestId, requestId, reused>>

\* Mutant of Timeout: a call that timed out resolves with undefined.
TimeoutResolves(c) ==
    /\ c \in timers
    /\ timers' = timers \ {c}
    /\ pending' = [pending EXCEPT ![requestId[c]] = NoCall]
    /\ Settle({c}, "resolved")
    /\ UNCHANGED <<nextRequestId, requestId, underway, answered, reused>>

\* The timer of call c fires: it deletes whatever entry has its id, and
\* rejects its own promise only then.
Timeout(c) ==
    /\ c \in timers
    /\ timers' = timers \ {c}
    /\ LET i == requestId[c]
       IN IF pending[i] = NoCall
          THEN UNCHANGED <<pending, outcome>>
          ELSE /\ pending' = [pending EXCEPT ![i] = NoCall]
               /\ Settle({c}, "rejected")
    /\ UNCHANGED <<nextRequestId, requestId, underway, answered, reused>>

Entries == {pending[i] : i \in Ids} \ {NoCall}

\* Mutant of RejectAll: the table and the timers go, the callers stay.
ClearAll ==
    /\ Entries # {}
    /\ timers' = timers \ Entries
    /\ pending' = [i \in Ids |-> NoCall]
    /\ UNCHANGED <<nextRequestId, requestId, outcome, underway, answered, reused>>

\* rejectAll(): the endpoint closed.
RejectAll ==
    /\ Entries # {}
    /\ timers' = timers \ Entries
    /\ pending' = [i \in Ids |-> NoCall]
    /\ Settle(Entries, "rejected")
    /\ UNCHANGED <<nextRequestId, requestId, underway, answered, reused>>

\* A request or a response is lost, or the peer never answers.
Lost(c) ==
    /\ c \in underway
    /\ underway' = underway \ {c}
    /\ UNCHANGED <<nextRequestId, pending, timers, requestId, outcome,
                   answered, reused>>

Next ==
    \/ \E c \in Calls : \/ Request(c) \/ RequestThrows(c) \/ Resolve(c)
                        \/ Timeout(c) \/ Lost(c)
    \/ RejectAll

Spec == Init /\ [][Next]_vars

\* Armed timers fire; nothing is assumed of the peer.
FairSpec == Spec /\ \A c \in Calls : WF_vars(Timeout(c))

-----------------------------------------------------------------------------
(* Properties                                                              *)

\* As long as ids outlive their calls, the table, the timers and the promises
\* agree: a caller waits if and only if its own entry and its own timer are
\* there, so no call is orphaned and no timer outlives its call.
TableAgrees ==
    ~reused =>
        /\ \A c \in Calls :
              /\ outcome[c] = "pending" <=> c \in timers
              /\ outcome[c] = "pending" => pending[requestId[c]] = c
        /\ \A i \in Ids : pending[i] # NoCall =>
              outcome[pending[i]] = "pending" /\ requestId[pending[i]] = i

\* A late or repeated response never fulfils another call's promise.
AnsweredByOwn ==
    ~reused => \A c \in Calls : outcome[c] = "resolved" => answered[c] = c

\* The contract of CallContract, with the ids' reuse as its way out.
Contract == INSTANCE CallContract WITH answerable <- underway, void <- reused
ImplementsContract == Contract!Spec

\* What these rest on: as long as ids outlive their calls, an id names one
\* call that is waiting or underway, and only a call that was issued does so.
IdsNameCalls ==
    /\ \A c \in timers \cup underway :
          outcome[c] # "new" /\ requestId[c] \in Ids
    /\ ~reused => \A c, d \in timers \cup underway :
                     requestId[c] = requestId[d] => c = d

\* The inductive invariant of PendingCallsProofs.
IInv == TypeOK /\ TableAgrees /\ AnsweredByOwn /\ IdsNameCalls

\* Every call settles, whatever the peer does: its timer is never lost.
EveryCallSettles ==
    \A c \in Calls : outcome[c] = "pending" ~> (outcome[c] # "pending" \/ reused)
=============================================================================
