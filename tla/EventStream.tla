---------------------------- MODULE EventStream -----------------------------
(***************************************************************************)
(* EventStream (src/src/types/events.ts), under every onXxx of the SDK:    *)
(* listeners that subscribe, unsubscribe, emit and close while a value is  *)
(* delivered.                                                              *)
(*                                                                         *)
(* Everything runs on one stack; a step is one call of a listener, the end *)
(* of an emit, or what the application does, between emits or inside the   *)
(* listener called last.  Values are numbered as they are emitted.         *)
(***************************************************************************)
EXTENDS Integers, Sequences, FiniteSets, SequencesExt, Subsequences

CONSTANTS
    Listeners,
    MaxEmits    \* bound: values emitted

ASSUME EventStreamAssumption == MaxEmits \in Nat

VARIABLES
    listeners,       \* the Set, in its insertion order
    emitting,
    pendingRemovals, \* listeners
    pendingEmits,    \* values
    streamClosed,
    value,           \* the value notifyListeners delivers
    at,              \* and how many listeners it has called
    queued,          \* values the calls of flushPendingEmits still hold,
                     \* innermost call first
    emits,           \* values emitted so far
    wanted,          \* history: the application's view of its subscriptions
    due,             \* history: <<value, listener>> to be delivered
    received        \* history: the values each listener got

streamVars == <<listeners, emitting, pendingRemovals, pendingEmits,
                streamClosed, value, at, queued, emits, wanted, due, received>>

Values == 1..MaxEmits

EventStreamTypeOK ==
    /\ listeners \in Seq(Listeners) /\ IsInjective(listeners)
    /\ emitting \in BOOLEAN /\ streamClosed \in BOOLEAN
    /\ pendingRemovals \subseteq Listeners
    /\ pendingEmits \in Seq(Values) /\ queued \in Seq(Values)
    /\ emits \in 0..MaxEmits
    /\ value \in 0..MaxEmits /\ at \in 0..Len(listeners)
    /\ wanted \subseteq Listeners
    /\ due \subseteq Values \X Listeners
    /\ received \in [Listeners -> Seq(Values)]
    /\ ~emitting => /\ pendingRemovals = {} /\ pendingEmits = <<>>
                    /\ queued = <<>> /\ at = 0

EventStreamInit ==
    /\ listeners = <<>> /\ pendingRemovals = {}
    /\ emitting = FALSE /\ streamClosed = FALSE
    /\ pendingEmits = <<>> /\ queued = <<>>
    /\ value = 0 /\ at = 0 /\ emits = 0
    /\ wanted = {} /\ due = {}
    /\ received = [l \in Listeners |-> <<>>]

-----------------------------------------------------------------------------
\* The application runs: between emits, or inside a listener.
Running == emitting => at > 0

\* Set.add.  A removal that is still pending takes the listener all the same.
Subscribe(l) ==
    /\ Running
    /\ ~streamClosed
    /\ l \notin wanted
    /\ listeners' = IF Contains(listeners, l) THEN listeners
                    ELSE Append(listeners, l)
    /\ wanted' = IF l \in pendingRemovals THEN wanted ELSE wanted \cup {l}
    /\ UNCHANGED <<emitting, pendingRemovals, pendingEmits, streamClosed, value,
                   at, queued, emits, due, received>>

\* Mutant of Unsubscribe: the listener is removed under the iteration.
UnsubscribeNow(l) ==
    /\ Running
    /\ l \in wanted
    /\ listeners' = Without(listeners, {l})
    /\ wanted' = wanted \ {l}
    /\ due' = {d \in due : d[2] # l}
    /\ UNCHANGED <<emitting, pendingRemovals, pendingEmits, streamClosed, value,
                   at, queued, emits, received>>

\* Deferred to the end of the emit.
Unsubscribe(l) ==
    /\ Running
    /\ l \in wanted
    /\ IF emitting
       THEN /\ pendingRemovals' = pendingRemovals \cup {l}
            /\ UNCHANGED listeners
       ELSE /\ listeners' = Without(listeners, {l})
            /\ UNCHANGED pendingRemovals
    /\ wanted' = wanted \ {l}
    /\ due' = {d \in due : d[2] # l}
    /\ UNCHANGED <<emitting, pendingEmits, streamClosed, value, at, queued,
                   emits, received>>

\* emit.  Inside a listener the value is queued.
Emit ==
    /\ Running
    /\ ~streamClosed
    /\ emits < MaxEmits
    /\ emits' = emits + 1
    /\ due' = due \cup {<<emits', l>> : l \in wanted}
    /\ IF emitting
       THEN /\ pendingEmits' = Append(pendingEmits, emits')
            /\ UNCHANGED <<emitting, value, at>>
       ELSE /\ emitting' = TRUE /\ value' = emits' /\ at' = 0
            /\ UNCHANGED pendingEmits
    /\ UNCHANGED <<listeners, pendingRemovals, streamClosed, queued, wanted,
                   received>>

\* close.  What is queued is dropped; the value underway still goes round.
CloseStream ==
    /\ Running
    /\ ~streamClosed
    /\ streamClosed' = TRUE
    /\ pendingEmits' = <<>>
    /\ wanted' = {}
    /\ due' = {d \in due : emitting /\ d[1] = value}
    /\ IF emitting
       THEN /\ pendingRemovals' = pendingRemovals \cup ToSet(listeners)
            /\ UNCHANGED listeners
       ELSE listeners' = <<>> /\ pendingRemovals' = {}
    /\ UNCHANGED <<emitting, value, at, queued, emits, received>>

\* notifyListeners calls the next one, in the order of the Set; one that was
\* added meanwhile is called too.
NotifyNext ==
    /\ emitting
    /\ at < Len(listeners)
    /\ at' = at + 1
    /\ LET l == listeners[at'] IN
       /\ received' = [received EXCEPT ![l] = Append(@, value)]
       /\ due' = due \ {<<value, l>>}
    /\ UNCHANGED <<listeners, emitting, pendingRemovals, pendingEmits,
                   streamClosed, value, queued, emits, wanted>>

\* flushPendingEmits: the values queued by this emit come before those an
\* outer call of it still holds.
Queue == pendingEmits \o queued

\* The finally block of emit: removals, then the next value.  On a closed
\* stream nothing is left and every emit is a no-op.
EmitEnds ==
    /\ emitting
    /\ at = Len(listeners)
    /\ listeners' = Without(listeners, pendingRemovals)
    /\ pendingRemovals' = {}
    /\ pendingEmits' = <<>>
    /\ IF streamClosed \/ Queue = <<>>
       THEN emitting' = FALSE /\ queued' = <<>> /\ UNCHANGED value
       ELSE value' = Head(Queue) /\ queued' = Tail(Queue) /\ UNCHANGED emitting
    /\ at' = 0
    /\ UNCHANGED <<streamClosed, emits, wanted, due, received>>

EventStreamNext ==
    \/ \E l \in Listeners : Subscribe(l) \/ Unsubscribe(l)
    \/ Emit \/ CloseStream
    \/ NotifyNext \/ EmitEnds

EventStreamSpec == EventStreamInit /\ [][EventStreamNext]_streamVars

-----------------------------------------------------------------------------
(* Properties                                                              *)

\* Whoever is subscribed when a value is emitted and stays so gets it exactly
\* once, however deep the emits nest and whatever listeners do meanwhile,
\* unless the stream closes first; nobody gets a value twice.
DeliveredOnce ==
    /\ ~emitting => due = {}
    /\ \A l \in Listeners : IsInjective(received[l])
    /\ \A d \in due :
          \/ Contains(pendingEmits, d[1]) \/ Contains(queued, d[1])
          \/ d[1] = value /\ Contains(SubSeq(listeners, at + 1, Len(listeners)), d[2])
=============================================================================
