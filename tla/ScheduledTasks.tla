--------------------------- MODULE ScheduledTasks ---------------------------
(***************************************************************************)
(* Scheduled tasks: src/src/modules/tasks/scheduled-tasks.service.ts       *)
(* (ScheduledTasksService), scheduled-task-runner.service.ts               *)
(* (ScheduledTaskRunnerService) and the part of workspaces.service.ts that *)
(* recomputes the schedules of a workspace.                                *)
(*                                                                         *)
(* Every API process runs one runner loop under the cluster lock.  It      *)
(* claims the due schedule with the smallest nextRunAt, queues one task    *)
(* per target node, and advances nextRunAt.  Operators create, enable,     *)
(* disable, delete and recompute schedules meanwhile, by reading the row   *)
(* and saving it later.                                                    *)
(*                                                                         *)
(* One SQL statement is one step.  Time is a counter of minutes; a lease,  *)
(* which is shorter than a minute, expires by a step of its own.           *)
(***************************************************************************)
EXTENDS ClusterLock

CONSTANTS
    Schedules,
    Nodes,
    Requests,     \* operator requests that may be in flight
    Target,       \* the node of a schedule, or the nodes its team owns
    Team,         \* schedules with a targetTeamId
    Root,         \* schedules with runAsRoot
    Interval,     \* minutes from one run to the next
    NoRun,        \* nextRunAt IS NULL
    NoSchedule,
    MaxTime,      \* bound: minutes
    MaxFaults,    \* bound: processes that die, statements that throw
    MaxSlow,      \* bound: leases that expire under a working runner
    MaxOps,       \* bound: operator requests
    MaxChanges    \* bound: changes to nodes and to the workspace

ASSUME ScheduleAssumption ==
    /\ Target \in [Schedules -> SUBSET Nodes]
    /\ Team \subseteq Schedules
    /\ Root \subseteq Schedules
    /\ Interval \in [Schedules -> Nat \ {0}]
    /\ NoRun \notin Nat
    /\ NoSchedule \notin Schedules
    /\ {MaxTime, MaxFaults, MaxSlow, MaxOps, MaxChanges} \subseteq Nat

VARIABLES
    now,          \* the time, in minutes
    row,          \* the scheduled_tasks table
    leaseOld,     \* schedules whose leaseUntil has passed
    runner,       \* the runner loop of each process
    request,      \* the operator requests
    maintenance,  \* nodes in maintenance mode
    rootDenied,   \* nodes that do not allow root tasks
    archived,     \* the workspace is archived
    runs,         \* history: tasks queued per schedule, occurrence and node
    spoiled,      \* history: schedules for which some run may be repeated
    faults, slow, ops, changes  \* history: see the bounds

world == <<maintenance, rootDenied, archived>>
history == <<runs, spoiled, faults, slow, ops, changes>>
vars == <<lockVars, now, row, leaseOld, runner, request, world, history>>

Occurrences == 0 .. MaxTime
Columns == {"exists", "enabled", "next", "token"}
Rows == [exists: BOOLEAN, enabled: BOOLEAN, next: Nat \cup {NoRun},
         token: Processes \cup {NoProcess}]
NoRow == [exists |-> FALSE, enabled |-> FALSE, next |-> NoRun,
          token |-> NoProcess]

Phases == {"idle", "select", "claim", "targets", "check", "insert",
           "announce", "finish", "record", "release", "unlock"}

RunnerStates == [phase: Phases, sched: Schedules \cup {NoSchedule},
                 occ: Nat \cup {NoRun}, left: SUBSET Nodes,
                 denied: SUBSET Nodes, node: SUBSET Nodes, made: BOOLEAN]

IdleRunner == [phase |-> "idle", sched |-> NoSchedule, occ |-> NoRun,
               left |-> {}, denied |-> {}, node |-> {}, made |-> FALSE]

Kinds == {"enable", "disable", "timezone", "delete"}

RequestStates == [kind: Kinds \cup {"none"}, phase: {"idle", "loaded", "dirty"},
                  sched: Schedules \cup {NoSchedule}, entity: Rows,
                  dirty: SUBSET Columns]

IdleRequest == [kind |-> "none", phase |-> "idle", sched |-> NoSchedule,
                entity |-> NoRow, dirty |-> {}]

TypeOK ==
    /\ LockTypeOK
    /\ now \in 0 .. MaxTime
    /\ row \in [Schedules -> Rows]
    /\ leaseOld \subseteq Schedules
    /\ runner \in [Processes -> RunnerStates]
    /\ inside = {p \in Processes : runner[p].phase # "idle"}
    /\ request \in [Requests -> RequestStates]
    /\ maintenance \subseteq Nodes
    /\ rootDenied \subseteq Nodes
    /\ archived \in BOOLEAN
    /\ runs \in [Schedules -> [Occurrences -> [Nodes -> 0 .. 2]]]
    /\ spoiled \subseteq Schedules
    /\ {faults, slow, ops, changes} \subseteq Nat

Init ==
    /\ LockInit
    /\ now = 0
    /\ row = [s \in Schedules |-> NoRow]
    /\ leaseOld = {}
    /\ runner = [p \in Processes |-> IdleRunner]
    /\ request = [r \in Requests |-> IdleRequest]
    /\ maintenance = {}
    /\ rootDenied = {}
    /\ archived = FALSE
    /\ runs = [s \in Schedules |-> [o \in Occurrences |-> [n \in Nodes |-> 0]]]
    /\ spoiled = {}
    /\ faults = 0
    /\ slow = 0
    /\ ops = 0
    /\ changes = 0

-----------------------------------------------------------------------------
(* The runner.                                                              *)

\* computeNextScheduledRun for the minutely and custom cadences.
NextOccurrence(s, from) == from + Interval[s]

\* Mutant: a lease of another process is not looked at.
MutClaimsLeased(s) ==
    /\ row[s].exists /\ row[s].enabled
    /\ row[s].next # NoRun /\ row[s].next <= now

\* Mutant: a lease is never taken over.
MutLeaseForEver(s) ==
    /\ row[s].exists /\ row[s].enabled
    /\ row[s].next # NoRun /\ row[s].next <= now
    /\ row[s].token = NoProcess

\* The conditions of the UPDATE of claimNextDueSchedule.
Claimable(s) ==
    /\ row[s].exists /\ row[s].enabled
    /\ row[s].next # NoRun /\ row[s].next <= now
    /\ row[s].token = NoProcess \/ s \in leaseOld

\* Its SELECT, which joins the workspace, orders by nextRunAt and takes one.
Candidates ==
    {s \in Schedules :
        /\ Claimable(s) /\ ~archived
        /\ \A t \in Schedules : Claimable(t) => row[s].next <= row[t].next}

\* runDueSchedules: isRunning keeps it to one loop per process.
RunDueSchedules(p) ==
    /\ runner[p].phase = "idle"
    /\ Acquire(p)
    /\ runner' = [runner EXCEPT ![p].phase = "select"]
    /\ UNCHANGED <<now, row, leaseOld, request, world, history>>

SelectDue(p) ==
    /\ runner[p].phase = "select"
    /\ \/ /\ Candidates = {}
          /\ runner' = [runner EXCEPT ![p].phase = "unlock"]
       \/ \E s \in Candidates :
             runner' = [runner EXCEPT ![p].phase = "claim", ![p].sched = s]
    /\ UNCHANGED <<lockVars, now, row, leaseOld, request, world, history>>

\* The UPDATE of claimNextDueSchedule; when no row is affected it looks for
\* another candidate.
ClaimDue(p) ==
    /\ runner[p].phase = "claim"
    /\ LET s == runner[p].sched
       IN  IF Claimable(s)
           THEN /\ row' = [row EXCEPT ![s].token = p]
                /\ leaseOld' = leaseOld \ {s}
                /\ runner' = [runner EXCEPT ![p].phase = "targets",
                                            ![p].occ = row[s].next]
           ELSE /\ runner' = [runner EXCEPT ![p] =
                                [IdleRunner EXCEPT !.phase = "select"]]
                /\ UNCHANGED <<row, leaseOld>>
    /\ UNCHANGED <<lockVars, now, request, world, history>>

\* triggerClaimedSchedule lists its target nodes.  Only a team's nodes are
\* filtered by maintenance mode.
ListTargets(p) ==
    /\ runner[p].phase = "targets"
    /\ LET s == runner[p].sched
           targets == IF s \in Team THEN Target[s] \ maintenance ELSE Target[s]
       IN  runner' = [runner EXCEPT
                        ![p].phase = IF targets = {} THEN "finish" ELSE "check",
                        ![p].left = targets,
                        ![p].denied = IF s \in Root THEN targets \cap rootDenied
                                      ELSE {}]
    /\ UNCHANGED <<lockVars, now, row, leaseOld, request, world, history>>

\* What makes queueTask refuse a task for node n: the workspace, maintenance
\* mode and the root access of the node, which was looked at before as well.
Refuses(p, n) ==
    \/ archived
    \/ n \in maintenance
    \/ n \in runner[p].denied
    \/ runner[p].sched \in Root /\ n \in rootDenied

\* assertNodeAllowsTaskRoot and the assertions of queueTask, for the next
\* target.  An exception leads to the "catch" of triggerClaimedSchedule.
QueueTaskCheck(p, n) ==
    /\ runner[p].phase = "check"
    /\ n \in runner[p].left
    /\ runner' = IF Refuses(p, n)
                 THEN [runner EXCEPT ![p].phase = "release"]
                 ELSE [runner EXCEPT ![p].phase = "insert", ![p].node = {n}]
    /\ UNCHANGED <<lockVars, now, row, leaseOld, request, world, history>>

\* queueTask saves the task.
QueueTaskInsert(p) ==
    /\ runner[p].phase = "insert"
    /\ \E n \in runner[p].node :
          /\ runs' = [runs EXCEPT ![runner[p].sched][runner[p].occ][n] =
                        IF @ < 2 THEN @ + 1 ELSE @]
          /\ runner' = [runner EXCEPT ![p].phase = "announce",
                                      ![p].left = @ \ {n},
                                      ![p].made = TRUE]
    /\ UNCHANGED <<lockVars, now, row, leaseOld, request, world, spoiled,
                   faults, slow, ops, changes>>

\* The rest of queueTask: event, outbox, dispatch.
Announce(p) ==
    /\ runner[p].phase = "announce"
    /\ runner' = [runner EXCEPT
                    ![p].phase = IF runner[p].left = {} THEN "finish"
                                 ELSE "check",
                    ![p].node = {}]
    /\ UNCHANGED <<lockVars, now, row, leaseOld, request, world, history>>

\* The row still carries the claim token of p's claim.
Holds(p) == row[runner[p].sched].token = p

\* The nextRunAt that follows a run.
NextAfter(s, occ) == NextOccurrence(s, occ)

\* The last UPDATE of triggerClaimedSchedule, or the one for a schedule with
\* no targets: by id and claim token.
FinishRun(p) ==
    /\ runner[p].phase = "finish"
    /\ LET s == runner[p].sched
       IN  IF Holds(p)
           THEN /\ row' = [row EXCEPT
                             ![s].next = NextAfter(s, runner[p].occ),
                             ![s].token = NoProcess]
                /\ leaseOld' = leaseOld \ {s}
           ELSE UNCHANGED <<row, leaseOld>>
    /\ runner' = [runner EXCEPT ![p] =
                    IF runner[p].made THEN [@ EXCEPT !.phase = "record"]
                    ELSE [IdleRunner EXCEPT !.phase = "select"]]
    /\ UNCHANGED <<lockVars, now, request, world, history>>

\* The event task.schedule.triggered; then the loop goes on.
RecordTriggered(p) ==
    /\ runner[p].phase = "record"
    /\ runner' = [runner EXCEPT ![p] = [IdleRunner EXCEPT !.phase = "select"]]
    /\ UNCHANGED <<lockVars, now, row, leaseOld, request, world, history>>

\* A statement of triggerClaimedSchedule or queueTask throws.
Throws(p) ==
    /\ runner[p].phase \in {"targets", "check", "insert", "announce",
                            "finish", "record"}
    /\ faults < MaxFaults
    /\ faults' = faults + 1
    /\ runner' = [runner EXCEPT ![p].phase = "release"]
    /\ UNCHANGED <<lockVars, now, row, leaseOld, request, world, runs,
                   spoiled, slow, ops, changes>>

\* The "catch" of triggerClaimedSchedule gives the claim up, by id and token,
\* and leaves nextRunAt as it is; the loop ends.
ReleaseFailed(p) ==
    /\ runner[p].phase = "release"
    /\ LET s == runner[p].sched
       IN  IF Holds(p)
           THEN /\ row' = [row EXCEPT ![s].token = NoProcess]
                /\ leaseOld' = leaseOld \ {s}
                /\ spoiled' = IF runner[p].made THEN spoiled \cup {s}
                              ELSE spoiled
           ELSE UNCHANGED <<row, leaseOld, spoiled>>
    /\ runner' = [runner EXCEPT ![p] = [IdleRunner EXCEPT !.phase = "unlock"]]
    /\ UNCHANGED <<lockVars, now, request, world, runs, faults, slow, ops,
                   changes>>

Unlock(p) ==
    /\ runner[p].phase = "unlock"
    /\ Release(p)
    /\ runner' = [runner EXCEPT ![p] = IdleRunner]
    /\ UNCHANGED <<now, row, leaseOld, request, world, history>>

\* The API process dies and is started again.
ProcessDies(p) ==
    /\ runner[p].phase # "idle"
    /\ faults < MaxFaults
    /\ faults' = faults + 1
    /\ spoiled' = IF runner[p].made /\ Holds(p)
                  THEN spoiled \cup {runner[p].sched} ELSE spoiled
    /\ Release(p)
    /\ runner' = [runner EXCEPT ![p] = IdleRunner]
    /\ UNCHANGED <<now, row, leaseOld, request, world, runs, slow, ops,
                   changes>>

-----------------------------------------------------------------------------
(* Operators.                                                               *)

\* createSchedulesForNodes and createSchedulesForTeam, for one schedule.
CreateSchedule(s) ==
    /\ ~archived
    /\ row[s] = NoRow /\ ops < MaxOps
    /\ s \in Root => Target[s] \cap rootDenied = {}
    /\ row' = [row EXCEPT ![s] =
                 [exists |-> TRUE, enabled |-> TRUE, token |-> NoProcess,
                  next |-> NextOccurrence(s, now)]]
    /\ ops' = ops + 1
    /\ UNCHANGED <<lockVars, now, leaseOld, runner, request, world, runs,
                   spoiled, faults, slow, changes>>

\* The entity that updateEnabled or recomputeWorkspaceSchedules saves.
Entity(kind, s) ==
    LET on == IF kind = "timezone" THEN row[s].enabled ELSE kind = "enable"
    IN  [exists |-> TRUE, enabled |-> on, token |-> NoProcess,
         next |-> IF on THEN NextOccurrence(s, now) ELSE NoRun]

\* updateEnabled, delete and recomputeWorkspaceSchedules read the row; they
\* refuse in an archived workspace.
LoadSchedule(r, kind, s) ==
    /\ request[r] = IdleRequest /\ ops < MaxOps
    /\ row[s].exists /\ ~archived
    /\ request' = [request EXCEPT ![r] =
                     [kind |-> kind, phase |-> "loaded", sched |-> s,
                      entity |-> Entity(kind, s), dirty |-> {}]]
    /\ ops' = ops + 1
    /\ UNCHANGED <<lockVars, now, row, leaseOld, runner, world, runs, spoiled,
                   faults, slow, changes>>

\* save() reads the row again to find the columns that differ.  Without a row
\* it will insert the entity.
SaveReload(r) ==
    /\ request[r].phase = "loaded" /\ request[r].kind # "delete"
    /\ LET e == request[r].entity
           old == row[request[r].sched]
       IN  request' = [request EXCEPT
                         ![r].phase = "dirty",
                         ![r].dirty = IF old.exists
                                      THEN {c \in Columns : e[c] # old[c]}
                                      ELSE Columns]
    /\ UNCHANGED <<lockVars, now, row, leaseOld, runner, world, history>>

\* save() writes those columns.  An UPDATE of a row that has gone does
\* nothing, and an INSERT of a row that is there fails.
SaveUpdate(r) ==
    /\ request[r].phase = "dirty"
    /\ LET s == request[r].sched
           e == request[r].entity
           new == [c \in Columns |-> IF c \in request[r].dirty THEN e[c]
                                     ELSE row[s][c]]
       IN  IF row[s].exists # ("exists" \in request[r].dirty)
           THEN /\ row' = [row EXCEPT ![s] = new]
                /\ leaseOld' = IF new.token = NoProcess THEN leaseOld \ {s}
                               ELSE leaseOld
                /\ spoiled' = IF new.next # NoRun /\ new.next <= now
                              THEN spoiled \cup {s} ELSE spoiled
           ELSE UNCHANGED <<row, leaseOld, spoiled>>
    /\ request' = [request EXCEPT ![r] = IdleRequest]
    /\ UNCHANGED <<lockVars, now, runner, world, runs, faults, slow, ops,
                   changes>>

\* delete: the DELETE statement.
DeleteSchedule(r) ==
    /\ request[r].phase = "loaded" /\ request[r].kind = "delete"
    /\ row' = [row EXCEPT ![request[r].sched] = NoRow]
    /\ leaseOld' = leaseOld \ {request[r].sched}
    /\ request' = [request EXCEPT ![r] = IdleRequest]
    /\ UNCHANGED <<lockVars, now, runner, world, history>>

\* enableMaintenance and disableMaintenance of nodes.service.ts.
SetMaintenance(n) ==
    /\ changes < MaxChanges /\ ~archived
    /\ changes' = changes + 1
    /\ maintenance' = (maintenance \ {n}) \cup ({n} \ maintenance)
    /\ UNCHANGED <<lockVars, now, row, leaseOld, runner, request, rootDenied,
                   archived, runs, spoiled, faults, slow, ops>>

\* The root access of a node is granted, revoked or expires.
SetRootAccess(n) ==
    /\ changes < MaxChanges
    /\ changes' = changes + 1
    /\ rootDenied' = (rootDenied \ {n}) \cup ({n} \ rootDenied)
    /\ UNCHANGED <<lockVars, now, row, leaseOld, runner, request, maintenance,
                   archived, runs, spoiled, faults, slow, ops>>

\* updateWorkspace archives the workspace or restores it.
SetArchived ==
    /\ changes < MaxChanges
    /\ changes' = changes + 1
    /\ archived' = ~archived
    /\ UNCHANGED <<lockVars, now, row, leaseOld, runner, request, maintenance,
                   rootDenied, runs, spoiled, faults, slow, ops>>

-----------------------------------------------------------------------------
(* The clock and the database sessions.                                     *)

Tick ==
    /\ now < MaxTime
    /\ now' = now + 1
    /\ UNCHANGED <<lockVars, row, leaseOld, runner, request, world, history>>

\* leaseUntil passes.  The runner that set it may have died or be slow.
LeaseExpires(s) ==
    /\ row[s].token # NoProcess /\ s \notin leaseOld
    /\ leaseOld' = leaseOld \cup {s}
    /\ IF runner[row[s].token].sched = s
       THEN /\ slow < MaxSlow
            /\ slow' = slow + 1
            /\ spoiled' = spoiled \cup {s}
       ELSE UNCHANGED <<slow, spoiled>>
    /\ UNCHANGED <<lockVars, now, row, runner, request, world, runs, faults,
                   ops, changes>>

LockSessionDrops(p) ==
    /\ SessionDrops(p)
    /\ UNCHANGED <<now, row, leaseOld, runner, request, world, history>>

-----------------------------------------------------------------------------
Runner(p) ==
    \/ RunDueSchedules(p)
    \/ SelectDue(p)
    \/ ClaimDue(p)
    \/ ListTargets(p)
    \/ \E n \in Nodes : QueueTaskCheck(p, n)
    \/ QueueTaskInsert(p)
    \/ Announce(p)
    \/ FinishRun(p)
    \/ RecordTriggered(p)
    \/ ReleaseFailed(p)
    \/ Unlock(p)

Save(r) == SaveReload(r) \/ SaveUpdate(r) \/ DeleteSchedule(r)

Operators ==
    \/ \E s \in Schedules : CreateSchedule(s)
    \/ \E r \in Requests, kind \in Kinds, s \in Schedules :
          LoadSchedule(r, kind, s)
    \/ \E r \in Requests : Save(r)
    \/ \E n \in Nodes : SetMaintenance(n)
    \/ \E n \in Nodes : SetRootAccess(n)
    \/ SetArchived

Failures ==
    \/ \E p \in Processes : Throws(p)
    \/ \E p \in Processes : ProcessDies(p)
    \/ \E p \in Processes : LockSessionDrops(p)

Next ==
    \/ \E p \in Processes : Runner(p)
    \/ Operators
    \/ Failures
    \/ Tick
    \/ \E s \in Schedules : LeaseExpires(s)

Spec == Init /\ [][Next]_vars

\* The interval timer of every process starts its loop again and again, calls
\* run on, and time passes.  Operators need never act.
FairSpec ==
    /\ Spec
    /\ \A p \in Processes : WF_vars(Runner(p))
    /\ \A r \in Requests : WF_vars(Save(r))
    /\ WF_vars(Tick)
    /\ \A s \in Schedules : WF_vars(LeaseExpires(s))
-----------------------------------------------------------------------------
(* Properties.                                                              *)

\* The runners that work on occurrence o of schedule s.
Triggering(s, o) ==
    {p \in Processes : /\ runner[p].phase \in {"targets", "check", "insert",
                                               "announce", "finish"}
                      /\ runner[p].sched = s /\ runner[p].occ = o}

\* Two processes never work on the same occurrence, even without the cluster
\* lock: the lease and the conditional UPDATE of claimNextDueSchedule suffice.
OneTrigger ==
    \A s \in Schedules \ spoiled, o \in Occurrences :
        \A p, q \in Triggering(s, o) : p = q

\* An occurrence queues at most one task per node, unless a run failed or
\* died half-way, a lease expired under a working runner, or an operator's
\* save was so slow that the next run it wrote had come.
OncePerOccurrence ==
    \A s \in Schedules \ spoiled, o \in Occurrences, n \in Nodes :
        runs[s][o][n] <= 1

\* No occurrence is queued before its time, although operators recompute
\* nextRunAt while runs are under way.
NeverEarly ==
    \A s \in Schedules, o \in Occurrences, n \in Nodes :
        runs[s][o][n] > 0 => o <= now

\* What the leases of schedules promise, with or without a common lock.
OccurrencesOnce == TypeOK /\ OneTrigger /\ OncePerOccurrence /\ NeverEarly

Due(s, o) == /\ row[s].exists /\ row[s].enabled
             /\ row[s].next = o /\ o <= now

\* Schedule s would not be refused.
Accepted(s) == /\ ~archived
               /\ Target[s] \cap maintenance = {}
               /\ s \in Root => Target[s] \cap rootDenied = {}

\* If in the end no schedule is refused, every due occurrence is dealt with,
\* whatever processes die and leases they leave behind.
EveryOccurrenceRuns ==
    <>[](\A s \in Schedules : Accepted(s)) =>
        \A s \in Schedules, o \in Occurrences : Due(s, o) ~> ~Due(s, o)

\* A due schedule is run if its own nodes accept work, whatever the others do.
DueScheduleRuns ==
    \A s \in Schedules : <>[]Accepted(s) =>
        \A o \in Occurrences : Due(s, o) ~> ~Due(s, o)
=============================================================================
