---------------------------- MODULE CallContract ----------------------------
(***************************************************************************)
(* What Core promises the issuer of an RPC call: the promise of a call is  *)
(* settled once, fulfilled only by a response to that very call that the   *)
(* peer has sent, and otherwise rejected (or the call throws).  The        *)
(* promise holds while the 32-bit request ids outlive the calls that use   *)
(* them; "void" records that they no longer do.                            *)
(***************************************************************************)
CONSTANT Calls

VARIABLES
    outcome,    \* the promise of each call
    answerable, \* calls the peer may still answer
    void        \* ids were reused too early: nothing is promised any more
cvars == <<outcome, answerable, void>>

Init == /\ outcome = [c \in Calls |-> "new"]
        /\ answerable = {}
        /\ void = FALSE

Ask(c) == /\ outcome[c] = "new"
          /\ outcome' = [outcome EXCEPT ![c] = "pending"]
          /\ answerable' = answerable \cup {c}

\* A synchronous failure to send: nobody ever waits.
Throw(c) == /\ outcome[c] = "new"
            /\ outcome' = [outcome EXCEPT ![c] = "threw"]
            /\ UNCHANGED answerable

\* The peer's answer; it may come again.
Fulfil(c) == /\ c \in answerable
             /\ outcome[c] = "pending"
             /\ outcome' = [outcome EXCEPT ![c] = "resolved"]
             /\ answerable' \in {answerable, answerable \ {c}}

\* A timeout rejects one call, the end of the connection all pending ones.
Reject(S) == /\ \A c \in S : outcome[c] = "pending"
             /\ outcome' = [c \in Calls |->
                               IF c \in S THEN "rejected" ELSE outcome[c]]
             /\ UNCHANGED answerable

\* An answer is lost, or comes when nobody waits for it.
Forget(c) == /\ answerable' = answerable \ {c}
             /\ UNCHANGED outcome

Next == \/ void'
        \/ /\ UNCHANGED void
           /\ \/ \E c \in Calls : Ask(c) \/ Throw(c) \/ Fulfil(c) \/ Forget(c)
              \/ \E S \in SUBSET Calls : Reject(S)

Spec == Init /\ [][Next]_cvars
=============================================================================
