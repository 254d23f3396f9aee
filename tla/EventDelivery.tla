--------------------------- MODULE EventDelivery ----------------------------
(***************************************************************************)
(* What the outbox promises to the services that use it, without loops,    *)
(* batches, locks, attempts or clocks: an event that was enqueued is owed  *)
(* to its sinks until they have taken it or it is given up, nothing is     *)
(* called delivered that the sinks have not taken, except what a sink let  *)
(* go by without a word, and no event is owed for ever.  Outbox implements *)
(* this specification (ImplementsDelivery).                                *)
(*                                                                         *)
(* src/src/modules/outbox/outbox.service.ts writes rows by their id alone. *)
(* An event whose row two writers have had at the same time is "contested" *)
(* from then on: it may be delivered once more, or called a dead letter    *)
(* although it was delivered, but even then it is not lost.                *)
(***************************************************************************)
CONSTANT Events

VARIABLES
    state,      \* what has become of each event
    taken,      \* events that all their sinks have taken at least once
    skipped,    \* the others that a sink has let go by, without an error
    contested   \* events whose row had two writers at the same time

deliveryVars == <<state, taken, skipped, contested>>

Ends == {"delivered", "givenUp", "removed"}

DeliveryInit ==
    /\ state = [e \in Events |-> "unknown"]
    /\ taken = {}
    /\ skipped = {}
    /\ contested = {}

\* A service hands the event over.
Accept(e) ==
    /\ state[e] = "unknown"
    /\ state' = [state EXCEPT ![e] = "owed"]
    /\ UNCHANGED <<taken, skipped, contested>>

\* The sinks take the event, perhaps not for the first time.
Take(e) ==
    /\ state[e] # "unknown"
    /\ taken' = taken \cup {e} /\ skipped' = skipped \ {e}
    /\ UNCHANGED <<state, contested>>

\* One of the sinks is out of reach, or takes the event on some of its ways
\* only, and says nothing of it.
Skip(e) ==
    /\ state[e] # "unknown"
    /\ skipped' = (skipped \cup {e}) \ taken
    /\ UNCHANGED <<state, taken, contested>>

\* Only what the sinks have taken or let go by is delivered: an error of any
\* of them counts.
Deliver(e) ==
    /\ state[e] = "owed" /\ e \in taken \cup skipped
    /\ state' = [state EXCEPT ![e] = "delivered"]
    /\ UNCHANGED <<taken, skipped, contested>>

GiveUp(e) ==
    /\ state[e] = "owed"
    /\ state' = [state EXCEPT ![e] = "givenUp"]
    /\ UNCHANGED <<taken, skipped, contested>>

\* An admin wants events that were given up to be tried again.  The rows of
\* those that are asked for a second time, and of contested ones, may have moved
\* on since he chose them.
Requeue(S, again) ==
    /\ contested' = contested \cup again
    /\ \A e \in S : \/ state[e] = "givenUp"
                    \/ e \in contested' /\ state[e] \in {"owed", "delivered"}
    /\ state' = [e \in Events |-> IF e \in S THEN "owed" ELSE state[e]]
    /\ UNCHANGED <<taken, skipped>>

\* An admin removes events; they may have been requeued since he chose them.
Remove(S) ==
    /\ \A e \in S : state[e] # "unknown"
    /\ state' = [e \in Events |-> IF e \in S THEN "removed" ELSE state[e]]
    /\ UNCHANGED <<taken, skipped, contested>>

\* A second writer comes to the rows of some events, or writes one of them.
Contest(S) ==
    /\ contested' = contested \cup S
    /\ \A e \in Events :
          \/ state'[e] = state[e]
          \/ /\ e \in contested'
             /\ state[e] \in {"owed", "delivered", "givenUp"}
             /\ state'[e] \in {"owed", "givenUp"}
                  \cup (IF e \in taken \cup skipped THEN {"delivered"} ELSE {})
    /\ UNCHANGED <<taken, skipped>>

DeliveryNext ==
    \/ \E e \in Events : \/ Accept(e) \/ Take(e) \/ Skip(e)
                         \/ Deliver(e) \/ GiveUp(e)
    \/ \E S \in SUBSET Events : \/ Remove(S) \/ Contest(S)
                               \/ \E again \in SUBSET S : Requeue(S, again)

DeliverySafe == DeliveryInit /\ [][DeliveryNext]_deliveryVars

DeliverySpec ==
    /\ DeliverySafe
    /\ \A e \in Events : state[e] = "owed" ~> state[e] \in Ends
=============================================================================
