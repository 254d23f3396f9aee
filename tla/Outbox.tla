------------------------------- MODULE Outbox -------------------------------
(***************************************************************************)
(* The transactional outbox: src/src/modules/outbox/outbox.service.ts      *)
(* (OutboxService) and outbox-dispatcher.service.ts                        *)
(* (OutboxDispatcherService).                                              *)
(*                                                                         *)
(* Services enqueue events.  Dispatcher loops, several per process because *)
(* the 2 s interval does not wait for the previous loop, and one or more   *)
(* processes, claim due batches, dispatch each event and mark it delivered *)
(* or failed.  Platform admins requeue or delete dead letters.             *)
(*                                                                         *)
(* One SQL statement is one step.  The clock is two sets: the events whose *)
(* availableAt has come, and those whose lockedAt is over two minutes old. *)
(***************************************************************************)
EXTENDS Naturals, FiniteSets

CONSTANTS
    Events,       \* events that services may enqueue
    Loops,        \* dispatchDueEvents loops, of all API processes
    Requests,     \* remediation requests that may be in flight
    NoEvent,
    Remediable,   \* events of type event.created
    BatchLimit,   \* OUTBOX_BATCH_LIMIT
    MaxAttempts,  \* the maxAttempts column
    MaxRequeues,  \* bound: requeues of one event
    MaxSlow,      \* bound: locks that expire under a loop that still works
    MaxFaults     \* bound: loops that die, markDelivered that throws

ASSUME OutboxAssumption ==
    /\ IsFiniteSet(Events)
    /\ Remediable \subseteq Events
    /\ NoEvent \notin [id: Events, attempts: Nat]
    /\ BatchLimit \in Nat \ {0}
    /\ MaxAttempts \in Nat \ {0}
    /\ MaxRequeues \in Nat
    /\ MaxSlow \in Nat
    /\ MaxFaults \in Nat

Statuses == {"none", "pending", "failed", "processing", "delivered",
             "dead_letter", "deleted"}

VARIABLES
    status,     \* of each event's row; "deleted" rows are gone
    attempts,   \* the attempts column
    due,        \* events whose availableAt is not in the future
    lockOld,    \* events whose lockedAt is over two minutes old
    loop,       \* the dispatcher loops
    request,    \* the remediation requests
    sent,       \* history: events that every sink has taken once
    skipped,    \* history: the others that were let go by without an error
    requeues,   \* history: requeues per event
    slow,       \* history: claims whose lock expired under a working loop
    crashes,    \* history: loops that died
    lost        \* history: events whose markDelivered threw

sinks == <<sent, skipped>>

vars == <<status, attempts, due, lockOld, loop, request, sinks, requeues,
          slow, crashes, lost>>

\* An event as a loop has loaded it.
Claimed == [id: Events, attempts: Nat]

Phases == {"idle", "reload", "batch", "markDelivered", "markFailed"}

LoopStates == [phase: Phases, ids: SUBSET Events, batch: SUBSET Claimed,
               current: Claimed \cup {NoEvent}]

IdleLoop == [phase |-> "idle", ids |-> {}, batch |-> {}, current |-> NoEvent]

IdleRequest == [op |-> "none", ids |-> {}]

TypeOK ==
    /\ status \in [Events -> Statuses]
    /\ attempts \in [Events -> Nat]
    /\ due \subseteq Events
    /\ lockOld \subseteq Events
    /\ loop \in [Loops -> LoopStates]
    /\ request \in [Requests -> [op: {"none", "requeue", "delete"},
                                 ids: SUBSET Remediable]]
    /\ sent \subseteq Events
    /\ skipped \subseteq Events
    /\ requeues \in [Events -> Nat]
    /\ slow \subseteq Claimed
    /\ crashes \in Nat
    /\ lost \subseteq Events

Init ==
    /\ status = [e \in Events |-> "none"]
    /\ attempts = [e \in Events |-> 0]
    /\ due = {}
    /\ lockOld = {}
    /\ loop = [l \in Loops |-> IdleLoop]
    /\ request = [r \in Requests |-> IdleRequest]
    /\ sent = {}
    /\ skipped = {}
    /\ requeues = [e \in Events |-> 0]
    /\ slow = {}
    /\ crashes = 0
    /\ lost = {}

\* The events that a loop still has to deal with.
Holds(l) ==
    loop[l].ids \cup {c.id : c \in loop[l].batch}
      \cup (IF loop[l].current = NoEvent THEN {} ELSE {loop[l].current.id})

-----------------------------------------------------------------------------
\* enqueue, with the default availableAt: the event is due at once.
Enqueue(e) ==
    /\ status[e] = "none"
    /\ status' = [status EXCEPT ![e] = "pending"]
    /\ due' = due \cup {e}
    /\ UNCHANGED <<attempts, lockOld, loop, request, sinks, requeues, slow,
                   crashes, lost>>

\* Mutant: the status of a locked row is not looked at.
MutDueIgnoresLock(e) ==
    status[e] \in {"pending", "failed", "processing"} /\ e \in due

\* The WHERE clause of claimDueBatch.
Due(e) ==
    \/ status[e] \in {"pending", "failed"} /\ e \in due
    \/ status[e] = "processing" /\ e \in lockOld

\* claimDueBatch: one statement with FOR UPDATE SKIP LOCKED.  It takes the
\* due events in the order of availableAt, which the model leaves open.
ClaimDueBatch(l, ids) ==
    /\ loop[l].phase = "idle"
    /\ ids # {} /\ ids \subseteq {e \in Events : Due(e)}
    /\ \/ Cardinality(ids) = BatchLimit
       \/ Cardinality(ids) < BatchLimit /\ ids = {e \in Events : Due(e)}
    /\ status' = [e \in Events |-> IF e \in ids THEN "processing"
                                   ELSE status[e]]
    /\ attempts' = [e \in Events |-> IF e \in ids THEN attempts[e] + 1
                                     ELSE attempts[e]]
    /\ lockOld' = lockOld \ ids
    /\ loop' = [loop EXCEPT ![l] = [IdleLoop EXCEPT !.phase = "reload",
                                                    !.ids = ids]]
    /\ UNCHANGED <<due, request, sinks, requeues, slow, crashes, lost>>

\* The rest of claimDueBatch: the rows are read again, outside of the
\* transaction, and those that have gone are dropped.
ReloadClaimed(l) ==
    /\ loop[l].phase = "reload"
    /\ LET found == {e \in loop[l].ids : status[e] # "deleted"}
       IN  loop' = [loop EXCEPT ![l] =
                      IF found = {} THEN IdleLoop
                      ELSE [IdleLoop EXCEPT
                              !.phase = "batch",
                              !.batch = {[id |-> e, attempts |-> attempts[e]] :
                                           e \in found}]]
    /\ UNCHANGED <<status, attempts, due, lockOld, request, sinks, requeues,
                   slow, crashes, lost>>

Dispatches == {"taken", "skipped", "thrown"}

\* History: what the sinks have seen of an event.
SinksSee(e, outcome) ==
    \/ /\ outcome = "taken"
       /\ sent' = sent \cup {e} /\ skipped' = skipped \ {e}
    \/ /\ outcome = "skipped"
       /\ sent' = sent /\ skipped' = (skipped \cup {e}) \ sent
    \/ outcome = "thrown" /\ UNCHANGED sinks

\* Mutant: the errors of the sinks are swallowed.
MutDispatchSwallows(l, c, outcome) ==
    /\ loop[l].phase = "batch"
    /\ c \in loop[l].batch
    /\ loop' = [loop EXCEPT ![l].phase = "markDelivered",
                            ![l].batch = @ \ {c},
                            ![l].current = c]
    /\ SinksSee(c.id, outcome)
    /\ UNCHANGED <<status, attempts, due, lockOld, request, requeues, slow,
                   crashes, lost>>

\* dispatchEvent for the next event of the batch.  A sink (Redis, mail,
\* Telegram) may throw, and so does an unknown type.  A Redis client that is
\* not ready publishes nothing and returns 0, and notifyEvent returns when one
\* of its channels has failed and another has not: then the event has passed a
\* sink by, and nothing tells it from one that was taken.
DispatchEvent(l, c, outcome) ==
    /\ loop[l].phase = "batch"
    /\ c \in loop[l].batch
    /\ loop' = [loop EXCEPT ![l].phase = IF outcome = "thrown" THEN "markFailed"
                                         ELSE "markDelivered",
                            ![l].batch = @ \ {c},
                            ![l].current = c]
    /\ SinksSee(c.id, outcome)
    /\ UNCHANGED <<status, attempts, due, lockOld, request, requeues, slow,
                   crashes, lost>>

\* The event is done; the loop goes on with its batch, or with a new claim.
NextEvent(l) ==
    loop' = [loop EXCEPT ![l] =
               IF loop[l].batch = {} THEN IdleLoop
               ELSE [loop[l] EXCEPT !.phase = "batch", !.current = NoEvent]]

\* UPDATE of a row by its id: whoever holds it now is not looked at.
SetStatus(e, new) ==
    status' = [status EXCEPT ![e] = IF @ = "deleted" THEN @ ELSE new]

MarkDelivered(l) ==
    /\ loop[l].phase = "markDelivered"
    /\ SetStatus(loop[l].current.id, "delivered")
    /\ lockOld' = lockOld \ {loop[l].current.id}
    /\ NextEvent(l)
    /\ UNCHANGED <<attempts, due, request, sinks, requeues, slow, crashes, lost>>

\* markDelivered throws, before or after the row was written: the "catch"
\* of the loop goes on with markFailed.
MarkDeliveredThrows(l, written) ==
    /\ loop[l].phase = "markDelivered"
    /\ crashes + Cardinality(lost) < MaxFaults
    /\ lost' = lost \cup {loop[l].current.id}
    /\ IF written
       THEN /\ SetStatus(loop[l].current.id, "delivered")
            /\ lockOld' = lockOld \ {loop[l].current.id}
       ELSE UNCHANGED <<status, lockOld>>
    /\ loop' = [loop EXCEPT ![l].phase = "markFailed"]
    /\ UNCHANGED <<attempts, due, request, sinks, requeues, slow, crashes>>

\* Mutant: one attempt too many before an event is given up.
MutFailedStatus(c) ==
    IF c.attempts > MaxAttempts THEN "dead_letter" ELSE "failed"

\* markFailed decides by the attempts that the loop has loaded.
FailedStatus(c) ==
    IF c.attempts >= MaxAttempts THEN "dead_letter" ELSE "failed"

MarkFailed(l) ==
    /\ loop[l].phase = "markFailed"
    /\ LET c == loop[l].current
       IN  /\ SetStatus(c.id, FailedStatus(c))
           /\ due' = IF FailedStatus(c) = "dead_letter" THEN due \cup {c.id}
                     ELSE due \ {c.id}
           /\ lockOld' = lockOld \ {c.id}
    /\ NextEvent(l)
    /\ UNCHANGED <<attempts, request, sinks, requeues, slow, crashes, lost>>

\* The process dies, or a statement throws outside of the loop's "try": the
\* events it holds stay "processing".
LoopDies(l) ==
    /\ loop[l].phase # "idle"
    /\ crashes + Cardinality(lost) < MaxFaults
    /\ crashes' = crashes + 1
    /\ loop' = [loop EXCEPT ![l] = IdleLoop]
    /\ UNCHANGED <<status, attempts, due, lockOld, request, sinks, requeues,
                   slow, lost>>

-----------------------------------------------------------------------------
(* Remediation of dead letters.                                             *)

\* assertEligibleDeadLetterIds, a SELECT of its own.
AssertEligible(r, op, ids) ==
    /\ request[r] = IdleRequest
    /\ ids # {} /\ ids \subseteq Remediable
    /\ \A e \in ids : status[e] = "dead_letter"
    /\ request' = [request EXCEPT ![r] = [op |-> op, ids |-> ids]]
    /\ UNCHANGED <<status, attempts, due, lockOld, loop, sinks, requeues,
                   slow, crashes, lost>>

\* The UPDATE of requeueDeadLetters, by id.
RequeueDeadLetters(r) ==
    /\ request[r].op = "requeue"
    /\ LET ids == {e \in request[r].ids : status[e] # "deleted"}
       IN  /\ \A e \in ids : requeues[e] < MaxRequeues
           /\ status' = [e \in Events |-> IF e \in ids THEN "failed"
                                          ELSE status[e]]
           /\ attempts' = [e \in Events |-> IF e \in ids THEN 0
                                            ELSE attempts[e]]
           /\ due' = due \cup ids
           /\ lockOld' = lockOld \ ids
           /\ requeues' = [e \in Events |-> IF e \in ids THEN requeues[e] + 1
                                            ELSE requeues[e]]
    /\ request' = [request EXCEPT ![r] = IdleRequest]
    /\ UNCHANGED <<loop, sinks, slow, crashes, lost>>

\* The DELETE of deleteDeadLetters, by id.
DeleteDeadLetters(r) ==
    /\ request[r].op = "delete"
    /\ status' = [e \in Events |-> IF e \in request[r].ids THEN "deleted"
                                   ELSE status[e]]
    /\ request' = [request EXCEPT ![r] = IdleRequest]
    /\ UNCHANGED <<attempts, due, lockOld, loop, sinks, requeues, slow,
                   crashes, lost>>

-----------------------------------------------------------------------------
(* The clock.                                                               *)

\* availableAt of a failed event comes.
RetryComesDue(e) ==
    /\ status[e] = "failed" /\ e \notin due
    /\ due' = due \cup {e}
    /\ UNCHANGED <<status, attempts, lockOld, loop, request, sinks, requeues,
                   slow, crashes, lost>>

\* Two minutes pass since lockedAt.  The loop may be dead or only slow.
LockExpires(e) ==
    /\ status[e] = "processing" /\ e \notin lockOld
    /\ lockOld' = lockOld \cup {e}
    /\ \/ /\ \A l \in Loops : e \notin Holds(l)
          /\ UNCHANGED slow
       \/ /\ \E l \in Loops : e \in Holds(l)
          /\ Cardinality(slow) < MaxSlow
          /\ slow' = slow \cup {[id |-> e, attempts |-> attempts[e]]}
    /\ UNCHANGED <<status, attempts, due, loop, request, sinks, requeues,
                   crashes, lost>>

-----------------------------------------------------------------------------
Dispatcher(l) ==
    \/ \E ids \in SUBSET Events : ClaimDueBatch(l, ids)
    \/ ReloadClaimed(l)
    \/ \E c \in loop[l].batch, outcome \in Dispatches :
          DispatchEvent(l, c, outcome)
    \/ MarkDelivered(l)
    \/ \E written \in BOOLEAN : MarkDeliveredThrows(l, written)
    \/ MarkFailed(l)

Remediation(r) ==
    \/ \E op \in {"requeue", "delete"}, ids \in SUBSET Events :
          AssertEligible(r, op, ids)
    \/ RequeueDeadLetters(r)
    \/ DeleteDeadLetters(r)

Next ==
    \/ \E e \in Events : Enqueue(e)
    \/ \E l \in Loops : Dispatcher(l)
    \/ \E l \in Loops : LoopDies(l)
    \/ \E r \in Requests : Remediation(r)
    \/ \E e \in Events : RetryComesDue(e)
    \/ \E e \in Events : LockExpires(e)

Spec == Init /\ [][Next]_vars

\* The interval timer starts loops again and again, loops run on, and time
\* passes.  Sinks may fail for ever and admins need never act.
FairSpec ==
    /\ Spec
    /\ \A l \in Loops : WF_vars(Dispatcher(l))
    /\ \A e \in Events : WF_vars(RetryComesDue(e))
    /\ \A e \in Events : WF_vars(LockExpires(e))

-----------------------------------------------------------------------------
(* Properties.                                                              *)

\* The circumstances in which the row of an event is only written by the loop
\* that locked it: no loop outlives this lock, and it is not requeued twice.
Undisturbed(e) == (\A c \in slow : c.id # e) /\ requeues[e] <= 1

\* An event is dispatched by one loop at a time (claimDueBatch), although
\* markDelivered, markFailed and requeueDeadLetters write rows by id only.
OneHolder ==
    \A e \in Events : Undisturbed(e) =>
        \A k, l \in Loops : e \in Holds(k) /\ e \in Holds(l) => k = l

\* Failing sinks cost at most maxAttempts dispatches of an event, plus one
\* for every loop that died with it (markFailed decides on a loaded value).
RetryBudget ==
    \A e \in Events : Undisturbed(e) =>
        attempts[e] <= MaxAttempts + crashes

\* What services see of an event (EventDelivery).
DeliveryState(e) ==
    CASE status[e] = "none" -> "unknown"
      [] status[e] \in {"pending", "failed", "processing"} -> "owed"
      [] status[e] = "delivered" -> "delivered"
      [] status[e] = "dead_letter" -> "givenUp"
      [] status[e] = "deleted" -> "removed"

Delivery == INSTANCE EventDelivery
    WITH state <- [e \in Events |-> DeliveryState(e)],
         taken <- sent,
         skipped <- skipped,
         contested <- {e \in Events : ~Undisturbed(e)} \cup lost

\* The outbox keeps the promise of EventDelivery: nothing is marked delivered
\* that the sinks have neither taken nor let go by in silence (an error of a
\* sink, or a loop that dies, is never taken for a delivery), delivery and
\* deletion are final unless a loop outlives its lock, an event is requeued
\* twice or markDelivered throws, and every event ends, whatever loops die and
\* sinks fail.
ImplementsDelivery == Delivery!DeliverySpec
=============================================================================
