---------------------------- MODULE AgentUpdates ----------------------------
(* Rollouts of agent updates: a rollout updates its nodes one after the      *)
(* other; a target is done when the node reports the new version, a failure  *)
(* pauses the rollout for an operator.                                       *)
(*                                                                           *)
(* Every handler is a chain of database statements with an await between     *)
(* two of them, so a slot (a call in progress) keeps the entities it has     *)
(* loaded and other slots run in between.  A save writes the whole entity    *)
(* it was given (in one step: TypeORM's SELECT before the UPDATE cannot be   *)
(* told apart as long as one column, the status, decides).                   *)
EXTENDS Naturals

CONSTANTS
    Rollouts,        \* ids of rollouts
    Width,           \* the nodes are 1 .. Width, in dispatch order
    Selections,      \* sets of nodes that an operator selects
    Versions,        \* agent versions a rollout can aim at
    FirstVersion,    \* version all nodes run in the beginning
    Reports,         \* statuses that an updater reports
    Calls,           \* HTTP requests and socket messages in progress
    Monitor,         \* the slot of the rollout monitor
    NoRollout,
    MaxTasks,        \* bound: update tasks that are created
    MaxCalls,        \* bound: calls by operators and agents
    MaxRaced,        \* bound: the same, once handlers have overlapped
    MaxTroubles      \* bound: handlers that die half-way, nodes that go
                     \* offline or into maintenance

ASSUME AgentUpdatesAssumption ==
    /\ Width \in Nat \ {0}
    /\ MaxTasks \in Nat /\ MaxCalls \in Nat
    /\ MaxRaced \in Nat /\ MaxTroubles \in Nat
    /\ Selections \subseteq SUBSET (1 .. Width) \ {{}}
    /\ Reports \subseteq {"dispatched", "installing", "waiting_for_reconnect",
                          "failed"}
    /\ Monitor \notin Calls
    /\ NoRollout \notin Rollouts

Nodes == 1 .. Width
Slots == Calls \cup {Monitor}

RolloutStatuses == {"none", "queued", "running", "paused", "completed",
                    "cancelled"}

\* "installing" stands for downloading, verifying, installing, restarting.
Active == {"dispatched", "installing", "waiting_for_reconnect"}
Ended == {"completed", "failed", "skipped", "cancelled"}
TargetStatuses == {"none", "pending"} \cup Active \cup Ended

TaskIds == 0 .. MaxTasks          \* 0: the taskId column is null
Targets == [status : TargetStatuses, task : TaskIds]
NoTarget == [status |-> "none", task |-> 0]

VARIABLES
    rollout,      \* status of every rollout row
    aim,          \* targetVersion of every rollout
    target,       \* target rows, by rollout and node
    overdue,      \* targets whose updatedAt is older than their threshold
    tasks,        \* number of update tasks created
    failedTasks,  \* tasks that have failed or were cancelled
    version,      \* agentVersion of the node rows
    online, maintenance,   \* sets of nodes
    changes, faults,
    slot,         \* the handlers in progress
    calls,        \* calls made so far
    given,        \* history: targets that an update task was created for
    reported,     \* history: versions that nodes have reported
    overlapped    \* history: some handler ran while another was in progress

rowVars == <<rollout, aim, target, overdue>>
taskVars == <<tasks, failedTasks, given>>
nodeVars == <<version, online, maintenance, changes>>
vars == <<rowVars, taskVars, nodeVars, faults, slot, calls, reported,
          overlapped>>

Idle == [op |-> "none", pc |-> "idle", r |-> NoRollout, rent |-> "none",
         n |-> 1, tent |-> NoTarget, nodes |-> {}, ver |-> FirstVersion,
         report |-> "none", todo |-> {}]

Entries == [r : Rollouts, n : Nodes, tent : Targets, late : BOOLEAN,
            failed : BOOLEAN]

TypeOK ==
    /\ rollout \in [Rollouts -> RolloutStatuses]
    /\ aim \in [Rollouts -> Versions \cup {FirstVersion}]
    /\ target \in [Rollouts -> [Nodes -> Targets]]
    /\ overdue \subseteq Rollouts \X Nodes
    /\ tasks \in TaskIds /\ failedTasks \subseteq 1 .. tasks
    /\ version \in [Nodes -> Versions \cup {FirstVersion}]
    /\ online \subseteq Nodes /\ maintenance \subseteq Nodes
    /\ changes \in Nat /\ faults \in Nat /\ calls \in Nat
    /\ \A s \in Slots :
         /\ slot[s].tent \in Targets /\ slot[s].rent \in RolloutStatuses
         /\ slot[s].r \in Rollouts \cup {NoRollout}
         /\ slot[s].todo \subseteq Entries
    /\ given \subseteq Rollouts \X Nodes
    /\ reported \subseteq Nodes \X (Versions \cup {FirstVersion})
    /\ overlapped \in BOOLEAN

Init ==
    /\ rollout = [r \in Rollouts |-> "none"]
    /\ aim = [r \in Rollouts |-> FirstVersion]
    /\ target = [r \in Rollouts |-> [n \in Nodes |-> NoTarget]]
    /\ overdue = {}
    /\ tasks = 0 /\ failedTasks = {} /\ given = {}
    /\ version = [n \in Nodes |-> FirstVersion]
    /\ online = Nodes /\ maintenance = {} /\ changes = 0
    /\ faults = 0
    /\ slot = [s \in Slots |-> Idle] /\ calls = 0
    /\ reported = Nodes \X {FirstVersion} /\ overlapped = FALSE

-----------------------------------------------------------------------------
(* Slots.                                                                   *)

At(s, pc) == slot[s].pc = pc

\* The handler in slot s is called; f are the fields it starts with.
Begin(s, f) ==
    /\ slot[s] = Idle
    /\ slot' = [slot EXCEPT ![s] = f]
    /\ overlapped' = (overlapped \/ \E q \in Slots : slot[q] # Idle)
    /\ calls' = IF s = Monitor THEN calls ELSE calls + 1
    /\ calls' <= IF overlapped' THEN MaxRaced ELSE MaxCalls

\* It goes on in another method, for rollout r and the target of node n.
Enter(s, pc, r, n, ent) ==
    /\ slot' = [slot EXCEPT ![s] =
          [Idle EXCEPT !.op = IF slot[s].op = "monitor" THEN "monitor" ELSE "call",
                       !.pc = pc, !.r = r, !.n = n, !.tent = ent,
                       !.todo = slot[s].todo]]
    /\ UNCHANGED <<calls, overlapped>>

Goto(s, pc) ==
    slot' = [slot EXCEPT ![s].pc = pc] /\ UNCHANGED <<calls, overlapped>>

\* A call ends; the monitor goes on to the next target of its list.
End(s) ==
    /\ slot' = [slot EXCEPT ![s] =
                  IF @.op = "monitor" /\ @.todo # {}
                  THEN [@ EXCEPT !.pc = "each"] ELSE Idle]
    /\ UNCHANGED <<calls, overlapped>>

SaveTarget(r, n, ent) ==
    /\ target' = [target EXCEPT ![r][n] = ent]
    /\ overdue' = overdue \ {<<r, n>>}

SaveRollout(r, status) == rollout' = [rollout EXCEPT ![r] = status]

\* assertNodeEligibleForRollout
Eligible(n, v) == /\ n \in online /\ n \notin maintenance
                  /\ version[n] # v

-----------------------------------------------------------------------------
(* Operators.                                                               *)

\* createRollout up to assertNoActiveRolloutExists; the release catalogue is
\* asked next, over the network.  assertControlPlaneApplyIsIdle, which comes
\* first, refuses while the control plane is updated: such a request takes no
\* step, and none is bound to be made.
CreateRollout(s, r, ns, v) ==
    /\ rollout[r] = "none"
    /\ \A q \in Slots : slot[q].r # r
    /\ \A q \in Rollouts : rollout[q] \notin {"queued", "running", "paused"}
    /\ Begin(s, [Idle EXCEPT !.op = "create", !.pc = "insert", !.r = r,
                             !.nodes = ns, !.ver = v])
    /\ UNCHANGED <<rowVars, taskVars, nodeVars, faults, reported>>

InsertRollout(s) ==
    LET c == slot[s] IN
    /\ At(s, "insert")
    /\ \/ /\ \A n \in c.nodes : Eligible(n, c.ver)
          /\ SaveRollout(c.r, "queued")
          /\ aim' = [aim EXCEPT ![c.r] = c.ver]
          /\ Goto(s, "targets")
       \/ /\ \E n \in c.nodes : ~Eligible(n, c.ver)
          /\ End(s)
          /\ UNCHANGED <<rollout, aim>>
    /\ UNCHANGED <<target, overdue, taskVars, nodeVars, faults, reported>>

InsertTargets(s) ==
    LET c == slot[s] IN
    /\ At(s, "targets")
    /\ target' = [target EXCEPT ![c.r] = [n \in Nodes |->
                    IF n \in c.nodes THEN [status |-> "pending", task |-> 0]
                    ELSE NoTarget]]
    /\ Goto(s, "restart")
    /\ UNCHANGED <<rollout, aim, overdue, taskVars, nodeVars, faults,
                   reported>>

\* setRolloutStatus(rollout, 'running'), then dispatchNextTarget.
SetRolloutRunning(s) ==
    /\ At(s, "restart")
    /\ SaveRollout(slot[s].r, "running")
    /\ Enter(s, "load", slot[s].r, 1, NoTarget)
    /\ UNCHANGED <<aim, target, overdue, taskVars, nodeVars, faults, reported>>

\* The mutant resumes whatever targets have failed.
MutResumeAnyway(s, r) ==
    /\ rollout[r] = "paused"
    /\ Begin(s, [Idle EXCEPT !.op = "resume", !.pc = "restart", !.r = r])
    /\ UNCHANGED <<rowVars, taskVars, nodeVars, faults, reported>>

ResumeRollout(s, r) ==
    /\ rollout[r] = "paused"
    /\ \A n \in Nodes : target[r][n].status # "failed"
    /\ Begin(s, [Idle EXCEPT !.op = "resume", !.pc = "restart", !.r = r])
    /\ UNCHANGED <<rowVars, taskVars, nodeVars, faults, reported>>

\* retryTarget and skipTarget: findPausedFailedTarget ...
ReviewTarget(s, op, r, n) ==
    /\ rollout[r] = "paused"
    /\ target[r][n].status = "failed"
    /\ Begin(s, [Idle EXCEPT !.op = op, !.pc = "review", !.r = r, !.n = n,
                             !.tent = target[r][n]])
    /\ UNCHANGED <<rowVars, taskVars, nodeVars, faults, reported>>

\* ... and the save of the target.
SaveReviewed(s) ==
    LET c == slot[s] IN
    /\ At(s, "review")
    /\ SaveTarget(c.r, c.n,
                  IF c.op = "retry" THEN [status |-> "pending", task |-> 0]
                  ELSE [c.tent EXCEPT !.status = "skipped"])
    /\ Goto(s, "restart")
    /\ UNCHANGED <<rollout, aim, taskVars, nodeVars, faults, reported>>

CancelRollout(s, r) ==
    /\ rollout[r] \notin {"none", "completed", "cancelled"}
    /\ Begin(s, [Idle EXCEPT !.op = "cancel", !.pc = "cancel", !.r = r])
    /\ UNCHANGED <<rowVars, taskVars, nodeVars, faults, reported>>

SaveCancelled(s) ==
    /\ At(s, "cancel")
    /\ SaveRollout(slot[s].r, "cancelled")
    /\ Goto(s, "list")
    /\ UNCHANGED <<aim, target, overdue, taskVars, nodeVars, faults, reported>>

Entry(r, n) ==
    [r |-> r, n |-> n, tent |-> target[r][n],
     late |-> <<r, n>> \in overdue,
     failed |-> target[r][n].task \in failedTasks]

\* The mutant leaves dispatched targets alone.
MutCancellable(r) == {n \in Nodes : target[r][n].status = "pending"}

\* The targets that the cancellation will change.
Cancellable(r) == {n \in Nodes : target[r][n].status \in {"pending"} \cup Active}

ListTargets(s) ==
    LET r == slot[s].r IN
    /\ At(s, "list")
    /\ slot' = [slot EXCEPT ![s].pc = "canceleach",
                            ![s].todo = {Entry(r, n) : n \in Cancellable(r)}]
    /\ UNCHANGED <<calls, overlapped>>
    /\ UNCHANGED <<rowVars, taskVars, nodeVars, faults, reported>>

\* A target whose taskId is null has no task to cancel or to finish.
Linked(k) == k # 0

\* One target of the list, in sequence order.
CancelTarget(s) ==
    LET c == slot[s] IN
    /\ At(s, "canceleach")
    /\ \/ \E e \in c.todo :
            /\ \A f \in c.todo : e.n <= f.n
            /\ SaveTarget(e.r, e.n, [e.tent EXCEPT !.status = "cancelled"])
            /\ slot' = [slot EXCEPT
                  ![s].pc = IF e.tent.status \in Active /\ Linked(e.tent.task)
                            THEN "canceltask" ELSE "canceleach",
                  ![s].tent = e.tent, ![s].todo = @ \ {e}]
            /\ UNCHANGED <<calls, overlapped>>
       \/ c.todo = {} /\ End(s) /\ UNCHANGED <<target, overdue>>
    /\ UNCHANGED <<rollout, aim, taskVars, nodeVars, faults, reported>>

\* requestTaskCancellationForTarget: a queued task is cancelled at once, a
\* running one only asked to stop; errors are logged.
CancelTask(s) ==
    LET k == slot[s].tent.task IN
    /\ At(s, "canceltask")
    /\ failedTasks' \in {failedTasks, failedTasks \cup {k}}
    /\ Goto(s, "canceleach")
    /\ UNCHANGED <<rowVars, tasks, given, nodeVars, faults, reported>>

-----------------------------------------------------------------------------
(* dispatchNextTarget.                                                      *)

LoadRollout(s) ==
    LET c == slot[s] IN
    /\ At(s, "load")
    /\ \/ /\ rollout[c.r] = "cancelled" /\ End(s)
       \/ /\ rollout[c.r] # "cancelled"
          /\ Goto(s, "count")
    /\ UNCHANGED <<rowVars, taskVars, nodeVars, faults, reported>>

\* The mutant forgets the first of the active statuses.
MutBusy(r) == {n \in Nodes : target[r][n].status \in Active \ {"dispatched"}}

\* Targets that keep the next one waiting.
Busy(r) == {n \in Nodes : target[r][n].status \in Active}

CountActive(s) ==
    /\ At(s, "count")
    /\ IF Busy(slot[s].r) # {} THEN End(s) ELSE Goto(s, "find")
    /\ UNCHANGED <<rowVars, taskVars, nodeVars, faults, reported>>

Pending(r) == {n \in Nodes : target[r][n].status = "pending"}

FindNextTarget(s) ==
    LET c == slot[s] IN
    /\ At(s, "find")
    /\ \/ \E n \in Pending(c.r) :
            /\ \A m \in Pending(c.r) : n <= m
            /\ slot' = [slot EXCEPT ![s].pc = "eligible", ![s].n = n,
                                    ![s].tent = target[c.r][n]]
            /\ UNCHANGED <<calls, overlapped, rollout>>
       \/ /\ Pending(c.r) = {}
          /\ SaveRollout(c.r, "completed") /\ End(s)
    /\ UNCHANGED <<aim, target, overdue, taskVars, nodeVars, faults, reported>>

CheckEligible(s) ==
    /\ At(s, "eligible")
    /\ Goto(s, IF Eligible(slot[s].n, aim[slot[s].r]) THEN "create" ELSE "fail")
    /\ UNCHANGED <<rowVars, taskVars, nodeVars, faults, reported>>

\* tasksService.create; it throws if the node has gone into maintenance (and
\* here if no more tasks are modelled), and the handler ends where it is.
CreateTask(s) ==
    LET c == slot[s] IN
    /\ At(s, "create")
    /\ \/ /\ c.n \notin maintenance
          /\ tasks < MaxTasks
          /\ tasks' = tasks + 1
          /\ given' = given \cup {<<c.r, c.n>>}
          /\ slot' = [slot EXCEPT
                ![s].pc = "dispatched",
                ![s].tent = [status |-> "dispatched", task |-> tasks + 1]]
          /\ UNCHANGED <<failedTasks, faults, calls, overlapped>>
       \/ /\ c.n \in maintenance \/ tasks = MaxTasks
          /\ faults' = faults + 1
          /\ slot' = [slot EXCEPT ![s] = Idle]
          /\ UNCHANGED <<taskVars, calls, overlapped>>
    /\ UNCHANGED <<rowVars, nodeVars, reported>>

SaveDispatched(s) ==
    LET c == slot[s] IN
    /\ At(s, "dispatched")
    /\ SaveTarget(c.r, c.n, c.tent)
    /\ Goto(s, "running")
    /\ UNCHANGED <<rollout, aim, taskVars, nodeVars, faults, reported>>

SaveRunning(s) ==
    /\ At(s, "running")
    /\ SaveRollout(slot[s].r, "running")
    /\ End(s)
    /\ UNCHANGED <<aim, target, overdue, taskVars, nodeVars, faults, reported>>

DispatchNextTarget(s) ==
    \/ LoadRollout(s)
    \/ CountActive(s)
    \/ FindNextTarget(s)
    \/ CheckEligible(s)
    \/ CreateTask(s)
    \/ SaveDispatched(s)
    \/ SaveRunning(s)

-----------------------------------------------------------------------------
(* pauseRolloutForTargetFailure.                                            *)

SaveFailed(s) ==
    LET c == slot[s] IN
    /\ At(s, "fail")
    /\ SaveTarget(c.r, c.n, [c.tent EXCEPT !.status = "failed"])
    /\ Goto(s, "pause")
    /\ UNCHANGED <<rollout, aim, taskVars, nodeVars, faults, reported>>

SavePaused(s) ==
    /\ At(s, "pause")
    /\ SaveRollout(slot[s].r, "paused")
    /\ Goto(s, "syncfailed")
    /\ UNCHANGED <<aim, target, overdue, taskVars, nodeVars, faults, reported>>

\* syncLinkedTaskTerminalState leaves a finished task as it is; a task that
\* has succeeded is not told apart from one that is under way.
SyncTask(s) ==
    LET c == slot[s]
        k == c.tent.task
    IN
    /\ slot[s].pc \in {"syncfailed", "syncdone"}
    /\ \/ UNCHANGED failedTasks
       \/ c.pc = "syncfailed" /\ Linked(k) /\ failedTasks' = failedTasks \cup {k}
    /\ IF c.pc = "syncdone" /\ c.rent = "running"
       THEN Enter(s, "load", c.r, 1, NoTarget) ELSE End(s)
    /\ UNCHANGED <<rowVars, tasks, given, nodeVars, faults, reported>>

PauseRollout(s) == SaveFailed(s) \/ SavePaused(s) \/ SyncTask(s)

-----------------------------------------------------------------------------
(* Agents.                                                                  *)

\* An agent that was given a task of rollout r reports status st, now or
\* much later: handleAgentProgress loads the target.
ReportProgress(s, r, n, st) ==
    /\ target[r][n].status \notin {"none"} \cup Ended
    /\ <<r, n>> \in given
    /\ Begin(s, [Idle EXCEPT !.op = "progress", !.pc = "progress", !.r = r,
                             !.n = n, !.tent = target[r][n], !.report = st])
    /\ UNCHANGED <<rowVars, taskVars, nodeVars, faults, reported>>

ProgressLoadRollout(s) ==
    /\ At(s, "progress")
    /\ slot' = [slot EXCEPT ![s].pc = "report",
                            ![s].rent = rollout[slot[s].r]]
    /\ UNCHANGED <<calls, overlapped>>
    /\ UNCHANGED <<rowVars, taskVars, nodeVars, faults, reported>>

SaveProgress(s) ==
    LET c == slot[s]
        ent == [c.tent EXCEPT !.status = c.report]
    IN
    /\ At(s, "report")
    /\ SaveTarget(c.r, c.n, ent)
    /\ \/ c.report = "failed" /\ Enter(s, "fail", c.r, c.n, ent)
       \/ /\ c.report # "failed"
          /\ Goto(s, IF c.rent # "cancelled" THEN "note" ELSE "reconnect")
    /\ UNCHANGED <<rollout, aim, taskVars, nodeVars, faults, reported>>

\* Only statusMessage is meant, but the save writes the status it has loaded.
SaveMessage(s) ==
    /\ At(s, "note")
    /\ SaveRollout(slot[s].r, slot[s].rent)
    /\ Goto(s, "reconnect")
    /\ UNCHANGED <<aim, target, overdue, taskVars, nodeVars, faults, reported>>

CheckReconnect(s) ==
    LET c == slot[s] IN
    /\ At(s, "reconnect")
    /\ IF /\ c.report = "waiting_for_reconnect"
          /\ version[c.n] = aim[c.r]
       THEN /\ slot' = [slot EXCEPT ![s].pc = "observe",
                                    ![s].ver = version[c.n]]
            /\ UNCHANGED <<calls, overlapped>>
       ELSE End(s)
    /\ UNCHANGED <<rowVars, taskVars, nodeVars, faults, reported>>

HandleAgentProgress(s) ==
    \/ ProgressLoadRollout(s)
    \/ SaveProgress(s)
    \/ SaveMessage(s)
    \/ CheckReconnect(s)

\* A heartbeat or a reconnect stores the version the agent runs now (agents
\* are also updated by hand) and calls observeNodeVersion.
Heartbeat(s, n, v) ==
    /\ version' = [version EXCEPT ![n] = v]
    /\ online' = online \cup {n}
    /\ reported' = reported \cup {<<n, v>>}
    /\ Begin(s, [Idle EXCEPT !.op = "heartbeat", !.pc = "observe", !.n = n,
                             !.ver = v])
    /\ UNCHANGED <<rowVars, taskVars, maintenance, changes, faults>>

\* The rollouts that wait for node n.
Waiting(n) == {r \in Rollouts : /\ target[r][n].status \notin {"none"} \cup Ended
                                /\ rollout[r] \in {"running", "paused"}}

\* Version v is what rollout r waits for.
Confirms(r, v) == aim[r] = v

\* observeNodeVersion, with the version that its caller has seen.
ObserveTarget(s) ==
    LET n == slot[s].n IN
    /\ At(s, "observe")
    /\ \/ \E r \in Waiting(n) :
            /\ Confirms(r, slot[s].ver)
            /\ Enter(s, "confirm", r, n, target[r][n])
       \/ /\ \/ Waiting(n) = {}
             \/ \E r \in Waiting(n) : ~Confirms(r, slot[s].ver)
          /\ End(s)
    /\ UNCHANGED <<rowVars, taskVars, nodeVars, faults, reported>>

ObserveRollout(s) ==
    /\ At(s, "confirm")
    /\ slot' = [slot EXCEPT ![s].pc = "complete",
                            ![s].rent = rollout[slot[s].r]]
    /\ UNCHANGED <<calls, overlapped>>
    /\ UNCHANGED <<rowVars, taskVars, nodeVars, faults, reported>>

SaveCompleted(s) ==
    LET c == slot[s] IN
    /\ At(s, "complete")
    /\ SaveTarget(c.r, c.n, [c.tent EXCEPT !.status = "completed"])
    /\ Goto(s, "syncdone")
    /\ UNCHANGED <<rollout, aim, taskVars, nodeVars, faults, reported>>

ObserveNodeVersion(s) ==
    ObserveTarget(s) \/ ObserveRollout(s) \/ SaveCompleted(s)

-----------------------------------------------------------------------------
(* The monitor, every 15 s: reconcileActiveTargets.                         *)

\* The targets at work.
Updating == {p \in Rollouts \X Nodes : /\ target[p[1]][p[2]].status \in Active
                                     /\ rollout[p[1]] = "running"}

SelectActive ==
    /\ Updating # {}
    /\ Begin(Monitor, [Idle EXCEPT !.op = "monitor", !.pc = "each",
                          !.todo = {Entry(p[1], p[2]) : p \in Updating}])
    /\ UNCHANGED <<rowVars, taskVars, nodeVars, faults, reported>>

\* The mutant waits for ever for a node that does not come back.
MutVerdict(e) ==
    CASE e.n \in online /\ version[e.n] = aim[e.r] -> "observe"
      [] ~(e.n \in online /\ version[e.n] = aim[e.r]) /\ e.failed -> "fail"
      [] OTHER -> "each"

\* What the monitor does with an entry of its list.
Verdict(e) ==
    CASE e.n \in online /\ version[e.n] = aim[e.r] -> "observe"
      [] ~(e.n \in online /\ version[e.n] = aim[e.r]) /\ (e.failed \/ e.late)
           -> "fail"
      [] OTHER -> "each"

ReconcileTarget ==
    LET c == slot[Monitor] IN
    /\ At(Monitor, "each")
    /\ \E e \in c.todo :
          slot' = [slot EXCEPT ![Monitor] =
            IF Verdict(e) = "each" /\ c.todo = {e} THEN Idle
            ELSE [c EXCEPT !.pc = Verdict(e), !.r = e.r, !.n = e.n,
                           !.tent = e.tent, !.ver = version[e.n],
                           !.todo = @ \ {e}]]
    /\ UNCHANGED <<calls, overlapped>>
    /\ UNCHANGED <<rowVars, taskVars, nodeVars, faults, reported>>

ReconcileActiveTargets == SelectActive \/ ReconcileTarget

-----------------------------------------------------------------------------
(* The world.                                                               *)

\* Two, five or fifteen minutes without a write to the target; no handler
\* takes that long.
TargetTimesOut(r, n) ==
    /\ \A s \in Slots : slot[s].r # r
    /\ target[r][n].status \in Active /\ <<r, n>> \notin overdue
    /\ overdue' = overdue \cup {<<r, n>>}
    /\ UNCHANGED <<rollout, aim, target, taskVars, nodeVars, faults, slot,
                   calls, reported, overlapped>>

\* The agent or the stale-task detector lets an update task fail.
TaskFails(k) ==
    /\ k \in (1 .. tasks) \ failedTasks
    /\ failedTasks' = failedTasks \cup {k}
    /\ UNCHANGED <<rowVars, tasks, given, nodeVars, faults, slot, calls,
                   reported, overlapped>>

NodeChanges(n) ==
    /\ changes + faults < MaxTroubles /\ changes' = changes + 1
    /\ \/ online' = online \ {n} /\ UNCHANGED maintenance
       \/ /\ maintenance' = (maintenance \ {n}) \cup ({n} \ maintenance)
          /\ UNCHANGED online
    /\ UNCHANGED <<rowVars, taskVars, version, faults, slot, calls,
                   reported, overlapped>>

\* The process, or a statement of the handler, fails.
HandlerDies(s) ==
    /\ slot[s] # Idle
    /\ changes + faults < MaxTroubles /\ faults' = faults + 1
    /\ slot' = [slot EXCEPT ![s] = Idle]
    /\ UNCHANGED <<rowVars, taskVars, nodeVars, calls, reported, overlapped>>

-----------------------------------------------------------------------------
Operators(s) ==
    \/ \E r \in Rollouts, ns \in Selections, v \in Versions :
          CreateRollout(s, r, ns, v)
    \/ \E r \in Rollouts : ResumeRollout(s, r) \/ CancelRollout(s, r)
    \/ \E r \in Rollouts, n \in Nodes, op \in {"retry", "skip"} :
          ReviewTarget(s, op, r, n)

Agents(s) ==
    \/ \E r \in Rollouts, n \in Nodes, st \in Reports :
          ReportProgress(s, r, n, st)
    \/ \E n \in Nodes, v \in Versions \cup {FirstVersion} : Heartbeat(s, n, v)

Handler(s) ==
    \/ InsertRollout(s) \/ InsertTargets(s) \/ SetRolloutRunning(s)
    \/ SaveReviewed(s)
    \/ SaveCancelled(s) \/ ListTargets(s) \/ CancelTarget(s) \/ CancelTask(s)
    \/ DispatchNextTarget(s)
    \/ PauseRollout(s)
    \/ HandleAgentProgress(s)
    \/ ObserveNodeVersion(s)

Next ==
    \/ \E s \in Calls : Operators(s) \/ Agents(s)
    \/ \E s \in Slots : Handler(s) \/ HandlerDies(s)
    \/ ReconcileActiveTargets
    \/ \E r \in Rollouts, n \in Nodes : TargetTimesOut(r, n)
    \/ \E k \in 1 .. tasks : TaskFails(k)
    \/ \E n \in Nodes : NodeChanges(n)

Spec == Init /\ [][Next]_vars

\* Handlers run on, the monitor's cron job comes round, time passes.
FairSpec ==
    /\ Spec
    /\ \A s \in Slots : WF_vars(Handler(s))
    /\ WF_vars(ReconcileActiveTargets)
    /\ \A r \in Rollouts, n \in Nodes : WF_vars(TargetTimesOut(r, n))
-----------------------------------------------------------------------------
(* Properties.                                                              *)

\* No handler has run next to another one, and none has failed half-way.
Calm == ~overlapped /\ faults = 0

\* A target is not successful before the node itself has reported the new
\* version: progress reports of the updater, late saves of stale entities
\* and racing handlers never make it so (observeNodeVersion).
CompletedWasReported ==
    \A r \in Rollouts, n \in Nodes :
        target[r][n].status = "completed" => <<n, aim[r]>> \in reported

\* Nodes are updated one at a time and a rollout is only completed when all
\* its targets have ended, although heartbeats, the monitor and operators all
\* call dispatchNextTarget, and nodes that wait may be updated by hand.  After
\* a handler has died half-way a report of a task that was given before makes
\* a pending target active next to another one (handleAgentProgress asks only
\* whether the target has ended).
Sequential ==
    Calm => \A r \in Rollouts, n \in Nodes :
        target[r][n].status \in Active =>
            /\ rollout[r] # "completed"
            /\ \A m \in Nodes \ {n} : target[r][m].status \notin Active

\* One node at a time, and each is done when it says so itself.
NodeByNode == TypeOK /\ CompletedWasReported /\ Sequential

\* The rollout on which nothing is in progress.
Quiet(r) == \A s \in Slots : slot[s].r # r

\* A failed target stops the rollout until an operator has dealt with it.
FailurePauses ==
    Calm => \A r \in Rollouts, n \in Nodes :
        Quiet(r) /\ target[r][n].status = "failed" => rollout[r] # "running"

\* A cancelled rollout stays cancelled, whatever its agents report later.
CancelIsFinal ==
    [][Calm' => \A r \in Rollouts :
         rollout[r] = "cancelled" => rollout'[r] = "cancelled"]_vars

\* A running rollout is completed, cancelled or paused in the end: no node
\* keeps it waiting for ever once its updater has fallen silent.
RolloutSettles ==
    \A r \in Rollouts :
        rollout[r] = "running" ~> (rollout[r] # "running" \/ ~Calm)

\* On the first failure or timeout the rollout is paused: it is not left
\* running with a failed target once all calls have been answered.
FirstFailurePauses ==
    faults = 0 => \A r \in Rollouts, n \in Nodes :
        Quiet(r) /\ target[r][n].status = "failed" => rollout[r] # "running"
=============================================================================
