---------------------------- MODULE TaskLifecycle ----------------------------
(***************************************************************************)
(* The life of the tasks of one node: src/src/modules/tasks/               *)
(* tasks.service.ts (TasksService) and task-stale-detector.service.ts.     *)
(*                                                                         *)
(* Operators queue and cancel tasks, the node's agent claims them over     *)
(* HTTP long-polling and reports started / logs / completed, and the stale *)
(* detector requeues expired leases and fails overdue tasks.  They share   *)
(* nothing but the rows of the "tasks" table.  With Realtime, agents are   *)
(* also pushed queued tasks and report over the agent-realtime socket,     *)
(* the compatibility mode that is off by default.                          *)
(*                                                                         *)
(* One SQL statement is one step; between two statements of a handler      *)
(* ("await") every other handler may run.  A handler that ends in          *)
(* tasksRepository.save(task) takes three statements: the read that loaded *)
(* the entity, the SELECT with which TypeORM's save finds the columns that *)
(* differ from the row, and the UPDATE of exactly these columns.           *)
(*                                                                         *)
(* Time stamps are abstract: leaseUntil is named by the number of the      *)
(* claim it belongs to, the other columns only tell null from not null,    *)
(* and the clock is the sets of leases and tasks whose deadline has        *)
(* passed.                                                                 *)
(***************************************************************************)
EXTENDS Naturals, FiniteSets

CONSTANTS
    Tasks,        \* tasks that operators may queue for the node
    Workers,      \* poll loops of agent processes of the node
    Requests,     \* HTTP handlers that may be in flight at the same time
    Detector,     \* the stale detector's own handler slot
    NoTask, NoWorker,
    Outcomes,     \* terminal statuses that agents report
    Realtime,     \* whether agents also use the agent-realtime socket
    MaxClaims,    \* bound: claims granted in one behaviour
    MaxCrashes    \* bound: API handlers that die half way

Terminal == {"success", "failed", "cancelled"}

ASSUME ConstantsAssumption ==
    /\ IsFiniteSet(Tasks)
    /\ Outcomes \subseteq Terminal
    /\ Detector \notin Requests
    /\ NoTask \notin Tasks
    /\ NoWorker \notin Workers
    /\ Realtime \in BOOLEAN
    /\ MaxClaims \in Nat
    /\ MaxCrashes \in Nat

Slots == Requests \cup {Detector}

Leased   == {"accepted", "claimed"}
Statuses == {"none", "queued", "running"} \cup Leased \cup Terminal
Results  == {"none", "agent", "cancel-before-run", "stale-queued",
             "stale-running"}

\* The columns that a save may write.  "claim" stands for claimedBy,
\* claimToken and leaseUntil, which every statement sets or clears together.
Columns == {"status", "claim", "startedAt", "finishedAt",
            "cancelRequestedAt", "result"}

Rows == [status: Statuses, claim: Nat, startedAt: BOOLEAN,
         finishedAt: BOOLEAN, cancelRequestedAt: BOOLEAN, result: Results]

NoRow == [status |-> "none", claim |-> 0, startedAt |-> FALSE,
          finishedAt |-> FALSE, cancelRequestedAt |-> FALSE,
          result |-> "none"]

VARIABLES
    row,          \* the "tasks" table; status "none": not inserted yet
    age,          \* createdAt of the inserted tasks, as insertion numbers
    claims,       \* claims granted so far; names tokens and leases
    expired,      \* claims whose leaseUntil is in the past
    queueOverdue, \* tasks whose createdAt is before the queued deadline
    runOverdue,   \* tasks whose startedAt is before the running deadline
    maintenance,  \* nodes.maintenanceMode
    worker,       \* what each poll loop of the agent believes it is doing
    slot,         \* the handlers in flight
    sweep,        \* the stale detector: where it is and what it selected
    published,    \* statuses in the task's events, as enqueued in the outbox
    starts,       \* history: starts recorded per task; 2 is "several"
    earlyLogs,    \* history: tasks that were sent a log before their start
    silenced,     \* history: tasks that a handler changed and then died
    crashes

vars == <<row, age, claims, expired, queueOverdue, runOverdue, maintenance,
          worker, slot, sweep, published, starts, earlyLogs, silenced,
          crashes>>

clockVars == <<expired, queueOverdue, runOverdue>>

history == <<starts, earlyLogs, silenced>>

Kinds  == {"none", "create", "start", "log", "complete", "cancel", "fail"}
Phases == {"idle", "loaded", "dirty", "stored", "missed", "saved"}

SlotStates == [kind: Kinds, phase: Phases, task: Tasks \cup {NoTask},
               worker: Workers \cup {NoWorker}, entity: Rows,
               dirty: SUBSET Columns]

IdleSlot == [kind |-> "none", phase |-> "idle", task |-> NoTask,
             worker |-> NoWorker, entity |-> NoRow, dirty |-> {}]

IdleWorker == [task |-> NoTask, phase |-> "idle"]

IdleSweep == [phase |-> "idle", todo |-> {}, entity |-> [t \in Tasks |-> NoRow]]

TypeOK ==
    /\ row \in [Tasks -> Rows]
    /\ age \in [Tasks -> Nat]
    /\ claims \in Nat
    /\ expired \subseteq Nat
    /\ queueOverdue \subseteq Tasks
    /\ runOverdue \subseteq Tasks
    /\ maintenance \in BOOLEAN
    /\ worker \in [Workers -> [task: Tasks \cup {NoTask},
                               phase: {"idle", "claimed", "executing"}]]
    /\ slot \in [Slots -> SlotStates]
    /\ sweep \in [phase: {"idle", "select", "loop"}, todo: SUBSET Tasks,
                  entity: [Tasks -> Rows]]
    /\ published \in [Tasks -> SUBSET Statuses]
    /\ starts \in [Tasks -> 0 .. 2]
    /\ earlyLogs \subseteq Tasks
    /\ silenced \subseteq Tasks
    /\ crashes \in Nat

Init ==
    /\ row = [t \in Tasks |-> NoRow]
    /\ age = [t \in Tasks |-> 0]
    /\ claims = 0
    /\ expired = {}
    /\ queueOverdue = {}
    /\ runOverdue = {}
    /\ maintenance = FALSE
    /\ worker = [w \in Workers |-> IdleWorker]
    /\ slot = [s \in Slots |-> IdleSlot]
    /\ sweep = IdleSweep
    /\ published = [t \in Tasks |-> {}]
    /\ starts = [t \in Tasks |-> 0]
    /\ earlyLogs = {}
    /\ silenced = {}
    /\ crashes = 0

-----------------------------------------------------------------------------
(* Statements.                                                             *)

\* Columns that a handler of this kind sets to the time of its own call, and
\* that therefore always differ from the row.
FreshColumns(kind, entity) ==
    (IF kind = "cancel" THEN {"cancelRequestedAt"} ELSE {})
    \cup (IF kind # "log" /\ entity.status \in Terminal
          THEN {"finishedAt"} ELSE {})

\* repository.save(), first statement: the columns in which the entity the
\* handler holds differs from the row as it is now.
DiffColumns(kind, entity, r) ==
    FreshColumns(kind, entity) \cup {c \in Columns : entity[c] # r[c]}

\* repository.save(), second statement: UPDATE of these columns only.
UpdateColumns(r, entity, dirty) ==
    [status            |-> IF "status" \in dirty THEN entity.status
                           ELSE r.status,
     claim             |-> IF "claim" \in dirty THEN entity.claim
                           ELSE r.claim,
     startedAt         |-> IF "startedAt" \in dirty THEN entity.startedAt
                           ELSE r.startedAt,
     finishedAt        |-> IF "finishedAt" \in dirty THEN entity.finishedAt
                           ELSE r.finishedAt,
     cancelRequestedAt |-> IF "cancelRequestedAt" \in dirty
                           THEN entity.cancelRequestedAt
                           ELSE r.cancelRequestedAt,
     result            |-> IF "result" \in dirty THEN entity.result
                           ELSE r.result]

Claimable(t) ==
    /\ ~maintenance
    /\ ~row[t].cancelRequestedAt
    /\ \/ row[t].status = "queued"
       \/ /\ row[t].status \in Leased
          /\ row[t].claim # 0
          /\ row[t].claim \in expired

\* assertClaimOwnership on the entity a handler has just loaded.  A claim is
\* always made in the name of the node the task belongs to.
ClaimOwned(entity) == entity.claim # 0 /\ entity.claim \notin expired

\* An agent waits for one answer at a time: a new call, or its death, means
\* that the answer to its earlier call will not be read.
Abandoned(w) ==
    [o \in Slots |-> IF w # NoWorker /\ slot[o].worker = w
                     THEN [slot[o] EXCEPT !.worker = NoWorker]
                     ELSE slot[o]]

Load(s, kind, t, w, entity) ==
    /\ slot[s].phase = "idle"
    /\ slot' = [Abandoned(w) EXCEPT ![s] =
                  [kind |-> kind, phase |-> "loaded", task |-> t,
                   worker |-> w, entity |-> entity, dirty |-> {}]]

Finish(s) == slot' = [slot EXCEPT ![s] = IdleSlot]

\* The answer reaches the agent that asked, if it still waits for it.
Reply(w, phase) ==
    worker' = [v \in Workers |->
                 IF v # w THEN worker[v]
                 ELSE IF phase = "idle" THEN IdleWorker
                 ELSE [worker[v] EXCEPT !.phase = phase]]

\* publishTaskUpdated enqueues the entity the handler holds.
Publish(t, status) == published' = [published EXCEPT ![t] = @ \cup {status}]

-----------------------------------------------------------------------------
(* Operators.                                                              *)

\* queueTask up to its last check: the node and its maintenance flag are
\* read here, the row is inserted only after further awaits.
QueueTaskCheck(s, t) ==
    /\ row[t].status = "none"
    /\ \A o \in Slots : ~(slot[o].kind = "create" /\ slot[o].task = t)
    /\ ~maintenance
    /\ Load(s, "create", t, NoWorker, NoRow)
    /\ UNCHANGED <<row, age, claims, clockVars, maintenance, worker, sweep,
                   published, history, crashes>>

QueueTaskInsert(s) ==
    /\ slot[s].kind = "create" /\ slot[s].phase = "loaded"
    /\ LET t == slot[s].task
           queued == [NoRow EXCEPT !.status = "queued"]
       IN  /\ row' = [row EXCEPT ![t] = queued]
           /\ age' = [age EXCEPT ![t] =
                        Cardinality({u \in Tasks : row[u].status # "none"}) + 1]
           /\ slot' = [slot EXCEPT ![s].phase = "saved",
                                   ![s].entity = queued]
    /\ UNCHANGED <<claims, clockVars, maintenance, worker, sweep, published,
                   history, crashes>>

\* Mutant: an accepted task is cancelled like a running one, by request only,
\* but its lease is given up.
MutCancelReleasesLease(r) ==
    IF r.status = "queued"
    THEN [r EXCEPT !.cancelRequestedAt = TRUE, !.status = "cancelled",
                   !.finishedAt = TRUE, !.result = "cancel-before-run"]
    ELSE [r EXCEPT !.cancelRequestedAt = TRUE, !.claim = 0]

\* requestTaskCancellation: what the handler does to the entity it loaded.
CancelEntity(r) ==
    IF r.status \in {"queued"} \cup Leased
    THEN [r EXCEPT !.cancelRequestedAt = TRUE, !.status = "cancelled",
                   !.finishedAt = TRUE, !.claim = 0,
                   !.result = "cancel-before-run"]
    ELSE [r EXCEPT !.cancelRequestedAt = TRUE]

RequestTaskCancellation(s, t) ==
    /\ row[t].status \notin Terminal \cup {"none"}
    /\ Load(s, "cancel", t, NoWorker, CancelEntity(row[t]))
    /\ UNCHANGED <<row, age, claims, clockVars, maintenance, worker, sweep,
                   published, history, crashes>>

SetMaintenance(b) ==
    /\ maintenance # b
    /\ maintenance' = b
    /\ UNCHANGED <<row, age, claims, clockVars, worker, slot, sweep,
                   published, history, crashes>>

-----------------------------------------------------------------------------
(* The agent.                                                              *)

\* claimNextTaskOnce: one UPDATE of the oldest claimable task.  The long
\* poll around it only repeats it.  If delivered is FALSE the agent has
\* given up on the poll and never sees the claim.
ClaimNextTaskOnce(w, delivered) ==
    /\ worker[w].phase = "idle"
    /\ claims < MaxClaims
    /\ \E t \in Tasks :
         /\ Claimable(t)
         /\ \A u \in Tasks : Claimable(u) => age[t] <= age[u]
         /\ row' = [row EXCEPT ![t] = [row[t] EXCEPT !.status = "accepted",
                                                    !.claim = claims + 1]]
         /\ worker' = IF delivered
                      THEN [worker EXCEPT ![w] =
                              [task |-> t, phase |-> "claimed"]]
                      ELSE worker
    /\ claims' = claims + 1
    /\ UNCHANGED <<age, clockVars, maintenance, slot, sweep, published,
                   history, crashes>>

\* startClaimedTaskForAgent up to the UPDATE.  A task that is already
\* running is answered as a success, anything else not leased as a conflict.
StartClaimedTask(s, w) ==
    /\ worker[w].phase = "claimed"
    /\ LET t == worker[w].task
       IN  \/ /\ row[t].status = "running"
              /\ slot[s].phase = "idle"
              /\ Reply(w, "executing")
              /\ slot' = Abandoned(w)
           \/ /\ row[t].status # "running"
              /\ ~(row[t].status \in Leased /\ ClaimOwned(row[t]))
              /\ slot[s].phase = "idle"
              /\ Reply(w, "idle")
              /\ slot' = Abandoned(w)
           \/ /\ row[t].status \in Leased
              /\ ClaimOwned(row[t])
              /\ Load(s, "start", t, w, row[t])
              /\ UNCHANGED worker
    /\ UNCHANGED <<row, age, claims, clockVars, maintenance, sweep,
                   published, history, crashes>>

RecordStart(t) ==
    /\ starts' = [starts EXCEPT ![t] = IF @ < 2 THEN @ + 1 ELSE @]
    /\ runOverdue' = runOverdue \ {t}

\* The UPDATE of startClaimedTaskForAgent, guarded by status and claimedBy
\* but neither by claimToken nor by leaseUntil.
StartUpdate(s) ==
    /\ slot[s].kind = "start" /\ slot[s].phase = "loaded"
    /\ LET t == slot[s].task
       IN  \/ /\ row[t].status \in Leased /\ row[t].claim # 0
              /\ row' = [row EXCEPT ![t] =
                           [@ EXCEPT !.status = "running", !.startedAt = TRUE,
                                     !.claim = 0]]
              /\ RecordStart(t)
              /\ slot' = [slot EXCEPT ![s].phase = "stored"]
              /\ UNCHANGED worker
           \/ /\ ~(row[t].status \in Leased /\ row[t].claim # 0)
              /\ Reply(slot[s].worker, "idle")
              /\ Finish(s)
              /\ UNCHANGED <<row, starts, runOverdue>>
    /\ UNCHANGED <<age, claims, expired, queueOverdue, maintenance, sweep,
                   published, earlyLogs, silenced, crashes>>

\* findOneOrFail after the UPDATE: the row is read again, and what it has
\* become by then is published and returned.
StartReload(s) ==
    /\ slot[s].kind = "start" /\ slot[s].phase = "stored"
    /\ slot' = [slot EXCEPT ![s].phase = "saved",
                            ![s].entity = row[slot[s].task]]
    /\ UNCHANGED <<row, age, claims, clockVars, maintenance, worker, sweep,
                   published, history, crashes>>

\* Mutant: logs are accepted as soon as the task is claimed.
MutLogBeforeStart(s, w) ==
    /\ worker[w].phase # "idle"
    /\ row[worker[w].task].status \in Leased \cup {"running"}
    /\ Load(s, "log", worker[w].task, NoWorker, row[worker[w].task])
    /\ UNCHANGED <<row, age, claims, clockVars, maintenance, worker, sweep,
                   published, history, crashes>>

\* appendClaimedTaskLogForAgent: saves the whole entity to store one line.
\* An agent sends lines of a task it holds, also again or before it has read
\* the answer to its start.
AppendTaskLog(s, w) ==
    /\ worker[w].phase # "idle"
    /\ row[worker[w].task].status = "running"
    /\ Load(s, "log", worker[w].task, NoWorker, row[worker[w].task])
    /\ UNCHANGED <<row, age, claims, clockVars, maintenance, worker, sweep,
                   published, history, crashes>>

CompleteEntity(r, status) ==
    [r EXCEPT !.status = status, !.finishedAt = TRUE, !.result = "agent",
              !.claim = 0,
              !.startedAt = TRUE]

\* completeClaimedTaskForAgent.  A terminal row answers the agent at once,
\* as a duplicate or as a conflict; so does one that is not running.
CompleteClaimedTask(s, w, status) ==
    /\ worker[w].phase = "executing"
    /\ LET t == worker[w].task
       IN  \/ /\ row[t].status # "running"
              /\ ~(row[t].status = "claimed" /\ ClaimOwned(row[t]))
              /\ slot[s].phase = "idle"
              /\ Reply(w, "idle")
              /\ slot' = Abandoned(w)
           \/ /\ \/ row[t].status = "running"
                 \/ row[t].status = "claimed" /\ ClaimOwned(row[t])
              /\ Load(s, "complete", t, w, CompleteEntity(row[t], status))
              /\ UNCHANGED worker
    /\ UNCHANGED <<row, age, claims, clockVars, maintenance, sweep,
                   published, history, crashes>>

\* The agent process dies and with it what it knew of its task.  Handlers
\* it already called keep running in the API.
WorkerCrash(w) ==
    /\ worker[w].phase # "idle"
    /\ Reply(w, "idle")
    /\ slot' = Abandoned(w)
    /\ UNCHANGED <<row, age, claims, clockVars, maintenance, sweep,
                   published, history, crashes>>

-----------------------------------------------------------------------------
(* The agent over the agent-realtime socket.                                *)

\* dispatchTaskToNode and dispatchQueuedTasks: a queued task is pushed to
\* the agent; the row is not touched, so it can still be claimed.
DispatchTaskToNode(w, t) ==
    /\ Realtime
    /\ worker[w].phase = "idle"
    /\ row[t].status = "queued"
    /\ worker' = [worker EXCEPT ![w] = [task |-> t, phase |-> "claimed"]]
    /\ UNCHANGED <<row, age, claims, clockVars, maintenance, slot, sweep,
                   published, history, crashes>>

\* startForAgent: one UPDATE guarded by the queued status.
StartForAgent(s, w) ==
    /\ Realtime
    /\ worker[w].phase = "claimed"
    /\ slot[s].phase = "idle"
    /\ LET t == worker[w].task
           call(phase) == [kind |-> "start", phase |-> phase, task |-> t,
                           worker |-> w, entity |-> row[t], dirty |-> {}]
       IN  \/ /\ row[t].status = "queued"
              /\ row' = [row EXCEPT ![t] =
                           [@ EXCEPT !.status = "running", !.startedAt = TRUE,
                                     !.finishedAt = FALSE]]
              /\ RecordStart(t)
              /\ slot' = [Abandoned(w) EXCEPT ![s] = call("stored")]
           \/ /\ row[t].status \notin {"queued", "none"}
              /\ slot' = [Abandoned(w) EXCEPT ![s] = call("missed")]
              /\ UNCHANGED <<row, starts, runOverdue>>
    /\ UNCHANGED <<age, claims, expired, queueOverdue, maintenance, worker,
                   sweep, published, earlyLogs, silenced, crashes>>

\* "affected === 0": the row is read to answer that it runs, or a conflict.
StartMissed(s) ==
    /\ slot[s].kind = "start" /\ slot[s].phase = "missed"
    /\ Reply(slot[s].worker,
             IF row[slot[s].task].status = "running" THEN "executing" ELSE "idle")
    /\ Finish(s)
    /\ UNCHANGED <<row, age, claims, clockVars, maintenance, sweep, published,
                   history, crashes>>

\* appendLogForAgent rejects queued and finished tasks, and no others.
AppendLogForAgent(s, w) ==
    LET t == worker[w].task IN
    /\ Realtime
    /\ worker[w].phase # "idle"
    /\ row[t].status \in Leased \cup {"running"}
    /\ Load(s, "log", t, NoWorker, row[t])
    /\ earlyLogs' = earlyLogs \cup {u \in {t} : row[u].status # "running"}
    /\ UNCHANGED <<row, age, claims, clockVars, maintenance, worker, sweep,
                   published, starts, silenced, crashes>>

\* completeForAgent accepts every unfinished task and keeps its lease.
CompleteForAgent(s, w, status) ==
    /\ Realtime
    /\ worker[w].phase = "executing"
    /\ LET t == worker[w].task
           entity == [CompleteEntity(row[t], status) EXCEPT
                        !.claim = row[t].claim]
       IN  \/ /\ row[t].status \in Terminal
              /\ slot[s].phase = "idle"
              /\ Reply(w, "idle")
              /\ slot' = Abandoned(w)
           \/ /\ row[t].status \notin Terminal \cup {"none"}
              /\ Load(s, "complete", t, w, entity)
              /\ UNCHANGED worker
    /\ UNCHANGED <<row, age, claims, clockVars, maintenance, sweep,
                   published, history, crashes>>

-----------------------------------------------------------------------------
(* The stale detector, one sweep at a time under the cluster lock.          *)

\* Mutant: requeueExpiredLeases looks at the lease but not at the status.
MutRequeueAnyStatus(t) == row[t].claim \in expired

\* requeueExpiredLeases: one UPDATE over all expired leases.
Requeued(t) == row[t].status \in Leased /\ row[t].claim \in expired

RequeueExpiredLeases ==
    /\ sweep.phase = "idle"
    /\ row' = [t \in Tasks |->
                 IF ~maintenance /\ Requeued(t)
                 THEN [row[t] EXCEPT !.status = "queued", !.claim = 0]
                 ELSE row[t]]
    /\ sweep' = [sweep EXCEPT !.phase = "select"]
    /\ UNCHANGED <<age, claims, clockVars, maintenance, worker, slot,
                   published, history, crashes>>

\* Mutant: tasks that wait in the queue are never stale.
MutOnlyRunningIsStale(t) ==
    /\ row[t].status = "running"
    /\ row[t].startedAt
    /\ t \in runOverdue

Stale(t) ==
    \/ row[t].status = "queued" /\ t \in queueOverdue /\ ~maintenance
    \/ /\ row[t].status = "running"
       /\ row[t].startedAt
       /\ t \in runOverdue

\* Mutant: a task that runs for too long is put back into the queue.
MutRetryStaleRunning(r) ==
    IF r.status = "queued"
    THEN [r EXCEPT !.status = "failed", !.finishedAt = TRUE, !.claim = 0,
                   !.result = "stale-queued"]
    ELSE [r EXCEPT !.status = "queued", !.claim = 0, !.startedAt = FALSE]

FailEntity(r) ==
    [r EXCEPT !.status = "failed", !.finishedAt = TRUE, !.claim = 0,
              !.result = IF r.status = "queued" THEN "stale-queued"
                         ELSE "stale-running"]

\* failStaleTasks: the SELECT of all stale tasks, to be saved one by one.
SelectStaleTasks ==
    /\ sweep.phase = "select"
    /\ sweep' = [phase |-> "loop",
                 todo |-> {t \in Tasks : Stale(t)},
                 entity |-> [t \in Tasks |-> IF Stale(t)
                                             THEN FailEntity(row[t])
                                             ELSE NoRow]]
    /\ UNCHANGED <<row, age, claims, clockVars, maintenance, worker, slot,
                   published, history, crashes>>

FailStaleTask(t) ==
    /\ sweep.phase = "loop"
    /\ t \in sweep.todo
    /\ Load(Detector, "fail", t, NoWorker, sweep.entity[t])
    /\ sweep' = [sweep EXCEPT !.todo = @ \ {t}, !.entity[t] = NoRow]
    /\ UNCHANGED <<row, age, claims, clockVars, maintenance, worker,
                   published, history, crashes>>

SweepDone ==
    /\ sweep.phase = "loop"
    /\ sweep.todo = {}
    /\ slot[Detector].phase = "idle"
    /\ sweep' = IdleSweep
    /\ UNCHANGED <<row, age, claims, clockVars, maintenance, worker, slot,
                   published, history, crashes>>

-----------------------------------------------------------------------------
(* The rest of every handler that saves an entity, and the clock.           *)

Saving == {"log", "complete", "cancel", "fail"}

SaveReload(s) ==
    /\ slot[s].kind \in Saving /\ slot[s].phase = "loaded"
    /\ slot' = [slot EXCEPT
                  ![s].phase = "dirty",
                  ![s].dirty = DiffColumns(slot[s].kind, slot[s].entity,
                                        row[slot[s].task])]
    /\ UNCHANGED <<row, age, claims, clockVars, maintenance, worker, sweep,
                   published, history, crashes>>

\* Mutant: the failures of the stale detector are stored like logs, without
\* an event.
MutSaveUpdate(s) ==
    /\ slot[s].kind \in Saving /\ slot[s].phase = "dirty"
    /\ LET t == slot[s].task
       IN  row' = [row EXCEPT ![t] = UpdateColumns(row[t], slot[s].entity,
                                                   slot[s].dirty)]
    /\ IF slot[s].kind \in {"log", "fail"}
       THEN Finish(s)
       ELSE slot' = [slot EXCEPT ![s].phase = "saved", ![s].dirty = {}]
    /\ UNCHANGED <<age, claims, clockVars, maintenance, worker, sweep,
                   published, history, crashes>>

\* A log is not published; every other save is followed by an outbox event.
SaveUpdate(s) ==
    /\ slot[s].kind \in Saving /\ slot[s].phase = "dirty"
    /\ LET t == slot[s].task
       IN  row' = [row EXCEPT ![t] = UpdateColumns(row[t], slot[s].entity,
                                                   slot[s].dirty)]
    /\ IF slot[s].kind = "log"
       THEN Finish(s)
       ELSE slot' = [slot EXCEPT ![s].phase = "saved", ![s].dirty = {}]
    /\ UNCHANGED <<age, claims, clockVars, maintenance, worker, sweep,
                   published, history, crashes>>

\* queueTask and publishTaskUpdated: the outbox row is a statement of its
\* own, after the task's.
PublishTask(s) ==
    /\ slot[s].phase = "saved"
    /\ Publish(slot[s].task, slot[s].entity.status)
    /\ Finish(s)
    /\ CASE slot[s].kind = "start" -> Reply(slot[s].worker, "executing")
         [] slot[s].kind = "complete" -> Reply(slot[s].worker, "idle")
         [] OTHER -> UNCHANGED worker
    /\ UNCHANGED <<row, age, claims, clockVars, maintenance, sweep, history,
                   crashes>>

\* The API process (or its database connection) dies inside a handler.  What
\* the handler has stored stays, what it was going to publish is lost.
HandlerDies(s) ==
    /\ slot[s].phase # "idle"
    /\ crashes < MaxCrashes
    /\ crashes' = crashes + 1
    /\ Finish(s)
    /\ sweep' = IF s = Detector THEN IdleSweep ELSE sweep
    /\ silenced' = silenced \cup {t \in {slot[s].task} :
                                    slot[s].phase \in {"stored", "saved"}}
    /\ UNCHANGED <<row, age, claims, clockVars, maintenance, worker,
                   published, starts, earlyLogs>>

LeaseExpires(k) ==
    /\ k \in (1 .. claims) \ expired
    /\ expired' = expired \cup {k}
    /\ UNCHANGED <<row, age, claims, queueOverdue, runOverdue, maintenance,
                   worker, slot, sweep, published, history, crashes>>

QueuedDeadlinePasses(t) ==
    /\ row[t].status # "none" /\ t \notin queueOverdue
    /\ queueOverdue' = queueOverdue \cup {t}
    /\ UNCHANGED <<row, age, claims, expired, runOverdue, maintenance,
                   worker, slot, sweep, published, history, crashes>>

RunningDeadlinePasses(t) ==
    /\ row[t].startedAt /\ t \notin runOverdue
    /\ runOverdue' = runOverdue \cup {t}
    /\ UNCHANGED <<row, age, claims, expired, queueOverdue, maintenance,
                   worker, slot, sweep, published, history, crashes>>

-----------------------------------------------------------------------------
Operators ==
    \/ \E s \in Requests, t \in Tasks : QueueTaskCheck(s, t)
    \/ \E s \in Requests, t \in Tasks : RequestTaskCancellation(s, t)
    \/ \E b \in BOOLEAN : SetMaintenance(b)

Agents ==
    \/ \E w \in Workers, d \in BOOLEAN : ClaimNextTaskOnce(w, d)
    \/ \E s \in Requests, w \in Workers : StartClaimedTask(s, w)
    \/ \E s \in Requests, w \in Workers : AppendTaskLog(s, w)
    \/ \E s \in Requests, w \in Workers, st \in Outcomes :
          CompleteClaimedTask(s, w, st)
    \/ \E w \in Workers : WorkerCrash(w)

RealtimeAgents ==
    \/ \E w \in Workers, t \in Tasks : DispatchTaskToNode(w, t)
    \/ \E s \in Requests, w \in Workers : StartForAgent(s, w)
    \/ \E s \in Requests, w \in Workers : AppendLogForAgent(s, w)
    \/ \E s \in Requests, w \in Workers, st \in Outcomes :
          CompleteForAgent(s, w, st)

StaleDetector ==
    \/ RequeueExpiredLeases
    \/ SelectStaleTasks
    \/ \E t \in Tasks : FailStaleTask(t)
    \/ SweepDone

Handler(s) ==
    \/ QueueTaskInsert(s)
    \/ StartUpdate(s)
    \/ StartReload(s)
    \/ StartMissed(s)
    \/ SaveReload(s)
    \/ SaveUpdate(s)
    \/ PublishTask(s)

Clock ==
    \/ \E k \in 1 .. claims : LeaseExpires(k)
    \/ \E t \in Tasks : QueuedDeadlinePasses(t)
    \/ \E t \in Tasks : RunningDeadlinePasses(t)

Next ==
    \/ Operators
    \/ Agents
    \/ RealtimeAgents
    \/ StaleDetector
    \/ \E s \in Slots : Handler(s)
    \/ \E s \in Slots : HandlerDies(s)
    \/ Clock

Spec == Init /\ [][Next]_vars

\* Handlers that were called run on, time passes, and the detector's interval
\* timer fires again and again.  Nothing is assumed of operators or agents.
Fairness ==
    /\ \A s \in Slots : WF_vars(Handler(s))
    /\ WF_vars(StaleDetector)
    /\ \A k \in 1 .. MaxClaims : WF_vars(LeaseExpires(k))
    /\ \A t \in Tasks : WF_vars(QueuedDeadlinePasses(t))
    /\ \A t \in Tasks : WF_vars(RunningDeadlinePasses(t))

FairSpec == Spec /\ Fairness

-----------------------------------------------------------------------------
(* Properties.                                                              *)

\* A task is started at most once, however leases expire, agents crash and
\* saves of stale entities interleave (startClaimedTaskForAgent, startForAgent,
\* requeueExpiredLeases, claimNextTaskOnce): a shell command must not run
\* twice because its row became claimable again.  The save of a log that
\* appendLogForAgent took before the start writes the lease back.
StartedOnce == TypeOK /\ \A t \in Tasks \ earlyLogs : starts[t] <= 1

\* A task handed to an agent always carries the lease that lets the detector
\* take it back (requeueExpiredLeases skips rows without leaseUntil): a save
\* that cleared the lease of a freshly claimed row would strand it.
LeasedHasLease ==
    \A t \in Tasks \ earlyLogs : row[t].status \in Leased => row[t].claim # 0

\* Subscribers never hear of a task before its row exists, nor that it runs
\* before some agent's start was recorded, and they hear of its end: whatever
\* saves of stale entities overlap, the status of a finished row is in an event
\* or a handler is about to enqueue one, unless a handler has died between its
\* UPDATE and the event (publishTaskUpdated sends the entity a handler holds,
\* in a statement of its own).
EventsFollowRow ==
    \A t \in Tasks :
        /\ published[t] # {} => row[t].status # "none"
        /\ "running" \in published[t] => starts[t] > 0
        /\ row[t].status \in Terminal \ published[t] =>
              \/ t \in silenced
              \/ \E s \in Slots : slot[s].task = t /\ slot[s].phase = "saved"

\* "Task must be started before logs can be appended" (tasks.service.ts:1309):
\* a log is only taken for a task that has been started.  Over HTTP it is
\* (appendClaimedTaskLogForAgent); appendLogForAgent refuses queued tasks but
\* not claimed ones.
LogNeedsStart ==
    \A s \in Slots : slot[s].kind = "log" => starts[slot[s].task] > 0

\* A task that was cancelled or timed out before any start stays finished:
\* no claim, start or late save brings it back.
UnstartedTerminalIsFinal ==
    [][\A t \in Tasks \ earlyLogs :
          row[t].status \in Terminal /\ starts[t] = 0
             => row'[t].status \in Terminal]_vars

\* A finished task stays finished (completeClaimedTaskForAgent rejects
\* every other transition of a terminal row).
TerminalIsFinal ==
    [][\A t \in Tasks : row[t].status \in Terminal
                          => row'[t].status \in Terminal]_vars

\* A row that runs without startedAt: three saves of one task that overlap
\* can produce it, and the detector then never selects it.
Stranded(t) == row[t].status = "running" /\ ~row[t].startedAt

\* Every queued task is eventually finished, by an agent or by the detector,
\* unless its node is in maintenance: nobody has to answer for that.
Settles ==
    \A t \in Tasks :
        row[t].status # "none"
          ~> (row[t].status \in Terminal \/ maintenance \/ Stranded(t))
=============================================================================
