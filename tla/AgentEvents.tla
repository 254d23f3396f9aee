------------------------------ MODULE AgentEvents ------------------------------
(***************************************************************************)
(* Task messages of an agent over its sockets (agent-realtime.gateway.ts)  *)
(* and the register that filters repeated ones (registerLifecycleEvent).   *)
(* The agent (external) numbers its events, sends them in order and sends  *)
(* again what was not answered.  Every message has a handler of its own;   *)
(* handlers of one or of several processes run side by side and share the  *)
(* table only.  What a message does to the task is TaskLifecycle's.        *)
(***************************************************************************)
EXTENDS Naturals, FiniteSets

CONSTANTS
    LastEvent,     \* number of events
    Tries,         \* bound: transmissions of an event
    MaxFailures    \* bound: handlers that fail or die with their process

ASSUME AgentEventsAssumption ==
    LastEvent \in Nat /\ Tries \in Nat \ {0} /\ MaxFailures \in Nat

VARIABLES
    stamp,      \* task, type and timestamp of every event, as one number
    told,       \* transmissions of every event so far
    handler,    \* handler[e][k]: the k-th transmission of e
    registered, \* agent_task_lifecycle_events
    applied,    \* history: how often an event was applied
    answered,   \* events that the agent has an answer for
    mixed,      \* history: handlers have overlapped or failed
    failures

evVars == <<stamp, told, handler, registered, applied, answered, mixed, failures>>

Events == 1 .. LastEvent

EvTypeOK ==
    /\ stamp \in [Events -> Events] /\ told \in [Events -> 0 .. Tries]
    /\ handler \in [Events -> [1 .. Tries -> {"none", "read", "insert", "apply", "over"}]]
    /\ registered \subseteq Events /\ answered \subseteq Events

EvInit ==
    /\ stamp \in {s \in [Events -> Events] : \A e \in Events : s[e] <= e}
    /\ told = [e \in Events |-> 0]
    /\ handler = [e \in Events |-> [k \in 1 .. Tries |-> "none"]]
    /\ registered = {} /\ applied = [e \in Events |-> 0] /\ answered = {}
    /\ mixed = FALSE /\ failures = 0

-----------------------------------------------------------------------------
Busy == \E e \in Events, k \in 1 .. Tries :
            handler[e][k] \in {"read", "insert", "apply"}

\* A message arrives: handleTaskAccepted, handleTaskStarted, handleTaskLog or
\* handleTaskCompleted on an authenticated socket.
HandleTaskMessage(e) ==
    /\ told[e] < Tries /\ e \notin answered
    /\ \A d \in 1 .. e - 1 : told[d] > 0
    /\ told' = [told EXCEPT ![e] = @ + 1]
    /\ handler' = [handler EXCEPT ![e][told[e] + 1] = "read"]
    /\ mixed' = (mixed \/ Busy)
    /\ UNCHANGED <<stamp, registered, applied, answered, failures>>

AnswerAgent(e, k) ==
    /\ handler' = [handler EXCEPT ![e][k] = "over"]
    /\ answered' = answered \cup {e}

\* registerLifecycleEvent: a number that is not above the largest one is old.
StaleSeq(e) == \E d \in registered : e <= d

\* registerLifecycleEvent, the SELECT: an old event is answered as a duplicate.
ReadMaxSeq(e, k) ==
    /\ handler[e][k] = "read"
    /\ IF StaleSeq(e) THEN AnswerAgent(e, k)
       ELSE handler' = [handler EXCEPT ![e][k] = "insert"] /\ UNCHANGED answered
    /\ UNCHANGED <<stamp, told, registered, applied, mixed, failures>>

\* Mutant: an INSERT that finds the row counts as new.
MutIsDuplicate(e) == FALSE

\* The unique indexes: number and id of the event, and task, type and
\* timestamp, which two log lines may share.
IsDuplicate(e) == \E d \in registered : d = e \/ stamp[d] = stamp[e]

\* registerLifecycleEvent, the INSERT: 23505 is a duplicate.
SaveEvent(e, k) ==
    /\ handler[e][k] = "insert"
    /\ IF IsDuplicate(e)
       THEN AnswerAgent(e, k) /\ UNCHANGED registered
       ELSE /\ registered' = registered \cup {e}
            /\ handler' = [handler EXCEPT ![e][k] = "apply"]
            /\ UNCHANGED answered
    /\ UNCHANGED <<stamp, told, applied, mixed, failures>>

\* acknowledgeForAgent, startForAgent, appendLogForAgent or completeForAgent,
\* and the answer.
ApplyEvent(e, k) ==
    /\ handler[e][k] = "apply"
    /\ applied' = [applied EXCEPT ![e] = @ + 1]
    /\ AnswerAgent(e, k)
    /\ UNCHANGED <<stamp, told, registered, mixed, failures>>

\* emitLifecycleValidationError, or the process dies: the agent has no answer,
\* or one that says no.
HandlerFails(e, k) ==
    /\ handler[e][k] \in {"read", "insert", "apply"}
    /\ failures < MaxFailures /\ failures' = failures + 1
    /\ handler' = [handler EXCEPT ![e][k] = "over"]
    /\ mixed' = TRUE
    /\ UNCHANGED <<stamp, told, registered, applied, answered>>

EvNext ==
    \E e \in Events :
        \/ HandleTaskMessage(e)
        \/ \E k \in 1 .. Tries : ReadMaxSeq(e, k) \/ SaveEvent(e, k)
                                 \/ ApplyEvent(e, k) \/ HandlerFails(e, k)

EvSpec == EvInit /\ [][EvNext]_evVars

-----------------------------------------------------------------------------
(* Properties.                                                               *)

\* However often an event is sent, and whatever overlaps or fails, it is
\* applied once at most.
AppliedOnce == \A e \in Events : applied[e] <= 1

\* Unless handlers have overlapped or failed, an event that the agent has an
\* answer for was applied, or shares its timestamp with one that was.
AnsweredWasApplied ==
    ~mixed => \A e \in answered : \E d \in Events :
        applied[d] = 1 /\ (d = e \/ stamp[d] = stamp[e])

\* registerLifecycleEvent makes resending safe: an event is applied once at
\* most, and the agent is told to forget what was applied.
HandledOnce == EvTypeOK /\ AppliedOnce /\ AnsweredWasApplied
=============================================================================
