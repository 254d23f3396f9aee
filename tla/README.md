# A TLA+ model of the Noderax API

Noderax API (`src/`) is a NestJS control plane. It manages remote Linux nodes
whose agents poll it over HTTP and hold a socket to it; it keeps its state in
PostgreSQL (through TypeORM) and Redis, and runs as one or several processes.
This directory holds TLA+ modules for its core, the TLC configurations that
check them, and TLAPS proofs.

The code is concurrent in one particular way. Every handler (an HTTP request, a
socket message, an interval timer, a cron job) is a chain of awaited statements,
there are hardly any transactions and no row locks, and TypeORM's `save(entity)`
writes back what was loaded several awaits earlier. So the models have **one
action per awaited statement**; what a handler has loaded stays in its *slot*
and may be stale when it is used. That is where the hazards are.

## 1. Inventory

| Part | State | Operations | Interacts with | Hard | Modelled |
|---|---|---|---|---|---|
| Task lifecycle (`modules/tasks/tasks.service.ts`, `agent-tasks.controller.ts`) | `tasks` rows: status, claim token, lease, time stamps | create, cancel, claim, start, log, complete; the same over the socket | outbox, events, rollouts, schedules | stale saves, leases, lost answers | `TaskLifecycle` |
| Stale task detector | none | requeue expired leases, fail overdue tasks one by one | task rows | acts on entities of an old SELECT | `TaskLifecycle` |
| Outbox (`modules/outbox`) | `outbox_events`: status, attempts, lock | enqueue, claim a batch, dispatch, retry, dead letters, requeue, delete | all services, sinks | lock takeover, crash with a batch, writes by id | `Outbox` |
| Scheduled tasks (`scheduled-tasks.service.ts`, runner) | `scheduled_tasks`: enabled, nextRunAt, claim, lease | create, enable, disable, delete, recompute, claim, run | tasks, nodes, workspace, cluster lock | several runners, partial failure, starvation | `ScheduledTasks` |
| Cluster lock (`runtime/cluster-lock.service.ts`) | advisory lock or a set in memory | runWithLock | runner, detectors, retention | lost session, fallback | `ClusterLock` |
| Agent update rollouts (`modules/agent-updates`) | rollouts, targets | create, resume, cancel, retry, skip, progress, observe a version, dispatch, monitor | tasks, nodes, agents | five callers of `dispatchNextTarget` | `AgentUpdates` |
| Terminal sessions (`modules/terminal-sessions`) | session row, timers and attachments per process, count in Redis | create, attach, detach, input, terminate, agent events, three timers | agent socket | state split over processes | `TerminalSessions` |
| Cadences (`scheduled-task.utils.ts`) | none | next run of a timing in a zone | schedules | clocks that change | `Cadences` |
| Agent connections (`modules/agent-realtime`) | sockets and sessions per process, routes in Redis, lifecycle events | authenticate, ping, disconnect, route, kick, register an event | nodes, tasks, terminals | late disconnects, check-then-act on routes, resent events | `AgentConnections`, `AgentEvents` |
| Node presence (`modules/nodes`, `modules/agents`) | status, lastSeenAt | register, heartbeat, markOnline, markOffline, offline detector | connections, events | whole-entity saves | `AgentConnections` |
| Root access and node settings | profile, grant, expiry, applied profile, sync status | grant, expire, push, report, check; maintenance, team, notifications | tasks, terminals, agent | late reports, stale saves | `NodeAccess` |
| Agent tokens | current and pending hash | stage, deliver, confirm by use, lapse, clear, revoke | connections | confirmation races revocation | `NodeAccess` |
| Enrollments, node installs (`modules/enrollments`) | one-time tokens, status, node | initiate, finalize, poll, consume, expire, report | nodes | node and token saved apart | `Enrollments` |
| Accounts (`auth`, `users`) | users, session version, MFA, one-time links | login, MFA, recovery codes, invite, reset, update, delete | workspaces | one-time links, last admin, lost updates | `Accounts` |
| Single sign-on (`auth`, OIDC part) | providers, identities | create, change, delete a provider; start and callback of a login | users, the provider | e-mails that move | `SingleSignOn` |
| Workspaces, teams (`modules/workspaces`) | workspaces, memberships, teams | create, update, archive, delete, default, members, teams, boot repair | schedules, nodes | two defaults, strays | `Workspaces` |
| Control-plane updates | two JSON files shared with the host supervisor, a cache | summary, queue download or application, reconcile, audit | supervisor, rollouts | files written one after the other by several processes | `PlatformUpdates` |
| Setup, install state, boot mode, platform settings | rows, four JSON files, boot mode | install, promote, save settings, restart | supervisor | deaths between rows and files | `Installation` |
| Notifications, events, audit logs, metrics, packages, logs, incidents, diagnostics, web gateway, Redis client, templates, config, guards | append-only rows or nothing | | | | not modelled, see section 7 |

What makes each modelled part correct:

* **Tasks**: a command is started at most once; a task handed out can be taken
  back; a finished task stays finished; subscribers hear of no run that was not
  started, and of every end; every task ends.
* **Outbox**: one loop works on an event; attempts stay in the budget; an error is
  never taken for a delivery; every event is delivered or given up.
* **Schedules**: an occurrence queues at most one task per node, not before its
  time, and is dealt with in the end.
* **Rollouts**: a target is successful only after the node itself reported the
  version; nodes are updated one at a time; failures pause; cancelling is final;
  a running rollout comes to an end.
* **Terminals**: no controller is missed by the count; the grace window never
  ends a session that somebody controls and always ends one that nobody does;
  an ended session stays ended; none hangs in `pending` or `terminating`.

* **Cadences**: runs follow each other, one for every day, or every such weekday,
  of the zone's calendar, also when the clocks change.
* **Connections**: one session of a node per process; no session outlives its
  socket for good; a connection that stays is reachable and its node online; the
  node of an agent that is gone is offline in the end.
* **Agent events**: what is sent again is applied once.
* **Node access**: a revoked token stays revoked; root access ends; work as root
  needs a grant.
* **Enrollments**: an approved token hands out the credential of its node; an
  agent that polls is answered.
* **Accounts**: changes of an account end its older tokens; codes and links work
  once; an admin remains; an account of an identity provider is one user.
* **Workspaces**: one default workspace; only members are in teams; nodes are not
  assigned to teams that do not exist.
* **Platform**: what is installed is complete and keeps its encryption key; only
  what was downloaded is applied; an application and a setup come to an end.

`PROJECT.json` lists the hazards at their lines and the properties aimed at them.
Further hazards of the same kinds, which the models contain as well: a claim of a
task that compares no token on its start (tasks.service.ts:1011), a maintenance
flag or a workspace that changes between the check and the insert of a task
(tasks.service.ts:1517, 1519), one node of a team that refuses after others got
their task (scheduled-tasks.service.ts:349), leases that are never renewed
(scheduled-task.utils.ts:17), the session of an advisory lock that is lost while
the callback runs on (cluster-lock.service.ts:85), progress reports and monitor
verdicts that come after the end of a target (agent-updates.service.ts:471, 575),
a crash between the update task and the target it is for (769), `opened` after a
termination (terminal-sessions.service.ts:574), a count key that expires (1414), a
route that is deleted after it was replaced (agent-realtime.service.ts:832), ping
timeouts that only exist with Redis (143), root access reports that carry no grant
(nodes.service.ts:724), a crash between a workspace and the transaction that makes
it the default one (workspaces.service.ts:1192), an approval that races the
expiry of its token (enrollments.service.ts:156), an audit that writes back the
state file it read before (control-plane-updates.service.ts:299) and two
installations that both pass the probe (setup.service.ts:203).

## 2. Modules

| Module | Content |
|---|---|
| `TaskLifecycle` | tasks of one node: operators, HTTP poll loops, the socket path, the detector, the clock |
| `TaskLifecycleProofs` | type correctness and the safety invariants, over HTTP and the socket |
| `EventDelivery` | abstract: what the outbox promises |
| `Outbox` | dispatcher loops and remediation; implements `EventDelivery` |
| `OutboxProofs` | types, one holder of an event, the retry budget; that `Outbox` implements the safety part of `EventDelivery` |
| `ClusterLock` | one lock name; extended by `ScheduledTasks` |
| `ScheduledTasks` | runners, operators, workspace changes, composed with the lock |
| `ScheduledTasksProofs` | what happens to one occurrence; that occurrences are the calendar of the zone |
| `Cadences` | computeNextScheduledRun against a calendar |
| `AgentUpdates` | rollouts and targets, operators, agents, the monitor |
| `AgentUpdatesProofs` | node by node, a failure pauses, a cancellation is final |
| `TerminalSessions` | one session over several processes |
| `TerminalSessionsProofs` | type correctness, the count of controllers, the grace window, the end of a session |
| `AgentConnections` | sockets, sessions, the route and the presence of one node over several processes |
| `AgentEvents` | the register of an agent's numbered events |
| `NodeAccess` | one node's tokens, root access and settings, with its agent |
| `AgentProofs` | `AgentEvents`: handled once; `NodeAccess`: no revoked token comes back; `AgentConnections`: one session per process |
| `Enrollments` | enrollment and bootstrap tokens |
| `Accounts` | two accounts, their tokens, codes and links |
| `SingleSignOn` | providers, logins and identities |
| `Workspaces` | workspaces, one user's memberships, one team, one node, the boot repair |
| `IdentityProofs` | the invariants of `SingleSignOn`, `Accounts` and `Workspaces`, and the boot repair |
| `PlatformUpdates` | the update files, two API processes, the supervisor |
| `Installation` | boot, setup, promotion, settings, restarts |
| `PlatformProofs` | the invariants of `Installation`, `PlatformUpdates` and `Enrollments` |
| `MCTerminalSessions`, `MCScheduledTasks` | model values and functions for TLC, symmetry sets |
| `MCSchedules`, `MCRecords`, `MCNodes`, `MCPlatform` | several components in one run |

`MCSchedules`, `MCRecords`, `MCNodes` and `MCPlatform` check components that share no
state in one run. `part`, chosen initially, says which of them moves; the others stay in one
initial state, so the behaviours of each are those of its own specification, the
states add up instead of multiplying, and fairness is that of the part that moves.

Conventions. A variable is a table column, a map in a process's memory or a
Redis key; history variables are marked as such where they are declared. Names
are the source's names. A *slot* (`slot`, `loop`, `runner`, `request`) is one
handler in progress: its program counter, and the entities it has loaded. `Begin`,
`Goto` and `End` are its steps. Definitions called `Mut...` are the plausible
bugs the properties are tried against; nothing else uses them.

### TaskLifecycle

`row` is the `tasks` table. `claim` stands for `claimedBy`, `claimToken` and
`leaseUntil`, which are always set and cleared together, and is the number of
the claim. The clock is abstract: `expired` holds the claims whose lease has
passed, `queueOverdue` and `runOverdue` the tasks past a deadline. A handler
that ends in `save` takes three statements, as TypeORM does: the load, the
SELECT with which `save` finds out which columns differ, and the UPDATE of just
these columns. `requeueExpiredLeases`, the claim and the start are single UPDATEs
with a WHERE clause and single actions. A start then reads the row again
(`StartReload`), or, if its UPDATE found nothing, reads what the row is by now;
whatever the row has become is what is published and what the agent is told. Logs
are taken for whatever task the agent names that is running, also before the answer
to its start is read. `silenced` is a history variable: the tasks whose handler died
between the UPDATE and the event. `HandlerDies` is a crash, a lost answer
or a statement that throws. With `Realtime` the socket path is there as well,
which the code has switched off by default (`ENABLE_REALTIME_TASK_DISPATCH`).
`earlyLogs` is a history variable: the tasks for which the socket handler took a
log before their start. `appendLogForAgent` loads a claimed row then, and the save
of it can undo whatever is stored in between, so that nothing is promised of such
a task; the properties are about the others.

### Outbox

`claimDueBatch` is one UPDATE over a `FOR UPDATE SKIP LOCKED` sub-select: one
action. The loop then reloads the events (`reload`), dispatches each (`batch`)
and writes by id (`markDelivered`, `markFailed`). `Loops` is of all processes and
of one process as well, since the two-second interval does not wait for the
previous loop. A sink takes the event, lets it go by without an error (`skipped`:
a Redis client that is not ready answers 0, and an error of one channel is
swallowed when another one has succeeded), or throws. `LockExpires` is the two-minute
takeover, also under a loop that still works (`MaxSlow`).

`EventDelivery` is what a service that enqueues an event may count on. The
refinement mapping hides attempts, locks and loops: pending, failed and
processing rows are "owed". "Delivered" there means taken or let go by: what the code
promises is that nothing is marked delivered after an error or a death alone. The code writes rows by id only, so an event whose row
had two writers at once is *contested* there; the abstract specification says what
can happen to such an event, and that it still ends.

### ClusterLock and ScheduledTasks

`ClusterLock` is one lock name in one of two modes, which every process finds
alike: advisory, or the fallback in memory, which excludes nobody in other
processes. `SessionDrops` is a database session that ends while the callback,
which uses other connections, runs on. `ScheduledTasks` extends it: a runner
acquires the lock, selects the due schedule with the smallest `nextRunAt`, claims
it by a conditional UPDATE, checks and queues one task per node, finishes or
releases, and goes on until nothing is due or a run fails. Time is a counter of
minutes; a lease (30 s) expires by a step of its own. Operators read, change and
save whole rows.

### AgentUpdates

A rollout's targets are in order `1 .. Width`. `dispatchNextTarget`, the pause,
the cancellation, the progress handler, the observation of a version (heartbeat
or reconnect) and the monitor are chains over slots; entities are reduced to the
status columns and the task id. "installing" stands for four updater statuses
that no condition tells apart.

### TerminalSessions

One session. `timers`, and `attached` (`socketToAttachment`) belong to processes;
`status` and `count` are shared. A controller is connected to the process
`Home[k]`, the agent to `AgentHome`. Synchronous code between two awaits belongs
to the step whose answer it uses. A socket is set attached in one step and counted in
a later one: the INCR and DECR of a process travel over one connection and are
executed in the order in which they were sent (`ahead`); the clamp of a negative
count is a step of its own; a client that is not ready drops a command without an
error (`Miss`). An INCR is followed by its EXPIRE in the code; both are one step
here. A message to the agent is on its way, refused
for want of a route, or lost. `ProcessDies` takes timers, handlers and sockets
with it and leaves the count as it is. `CountExpires` is the expiry of the Redis
key four grace windows after the last attach or detach.

### Cadences

An instant is a number of minutes and so is what a clock shows; a date is a day
number, which is all that the comparisons of year, month and day, `Date.UTC` and
`addLocalDays` amount to. `Intl.DateTimeFormat` (external) is a zone: one offset
up to an instant and another one from then on. An hour has `PerHour` minutes; the
windows that the code searches (180 and 240 minutes) are three and four hours.
The loops over a window are sets of instants and their minima. `ClocksAsToday` is what
is assumed of a zone: offsets of 15 hours at most; clocks that go back by up to two
hours, and forward by up to one hour west of Greenwich and up to three east of it, on
one day with the hour that follows the jump, or west of Greenwich by an hour at any time.
The zones in use today are like that; the windows of the code are not enough for more.

### AgentConnections, AgentEvents

One node, sockets on several processes. `session` and `current` are the maps of
`AgentRealtimeService`, `route` is the key in Redis. Authentication, its answer,
`markOnline` and the disconnect are chains of awaited statements; a socket may
close between any two of them. Heartbeats over HTTP and the metrics of the socket
load the node and save it, which writes its status back. The ping timeout is
there only with Redis, as in the code; the instance has Redis. `AgentEvents` is
the register that filters resent task messages: the SELECT of the largest number
and the INSERT are two steps; what an event does to its task is `TaskLifecycle`.

### NodeAccess

One node row with the columns that its handlers load and save; the token columns
are `select: false`, so that only an authentication holds them. `held` is the
agent: its token, a token it was offered, the profile it has applied. `past` and
`lapsed` are the clock. Maintenance, team and notification changes are saves of
whole entities without a column of their own.

### Enrollments, Accounts, SingleSignOn, Workspaces

Each request reads what it checks in one step and writes in later ones; `save` is
a SELECT that finds the columns which differ (and whether the row is there), and
an UPDATE or INSERT. `Enrollments` has the node creation between the check and the
save of the token, with the check of the host name and the INSERT in separate steps.
A column that is `select: false` (the credential of an enrollment) is not read by the
SELECT of a save, so that a save whose entity has loaded it always writes it
(`SelectRows`); `foundLate` is a history variable, the tokens that a request has found
expired. `Accounts` has lost updates as a history variable (`stale`),
since `sessionVersion`, recovery codes and links are all columns of entities that
were loaded before. Whether a password or a one-time code is right is a choice.
A request is signed by any unexpired token of the current session version, the
challenge of a second factor included: the strategy looks at no type (`Signed`).
`SingleSignOn` lets e-mails move while a login is away at the provider. In
`Workspaces` a *legacy* deployment has the constraints of the schema bootstrap and
repairs its tables at every start, an installed one has neither.

### PlatformUpdates, Installation

The state of both is in files. `PlatformUpdates` has two API processes that read
the files, wait for the release feed and write one file after the other, the
monitor that audits, the reconciliation that every summary does, and the
supervisor of the host, which is not in the repository and is modelled from
README.md and the statuses of `install-state.ts`. `hydrateRelease` asks for the
manifest of a version: the release it names is any of that version (`Hydrated`), which
assumes that the manifest of a version describes that version. File operations of one
process that no await separates are one step, except for a death between the two files
that a summary repairs (`DiesReconciling`) and between those of a request. `Installation`
is the setup request statement by statement (probe, the table of the migrations, the
migrations, admin, workspace, membership, files), deaths in between and a transaction of
migrations that fails, the choice of the boot mode, the promotion and the settings. The
migrations table is created by TypeORM outside the transaction (external): `schema` is
"marked" then.

## 3. Runs

| Run | Instance | Checked |
|---|---|---|
| `tasks` | 1 task, 2 poll loops, a realtime agent, 1 request and the detector, 2 claims, 1 handler that dies | `StartedOnce`, `LeasedHasLease`, `EventsFollowRow` |
| `tasks_terminal` | 1 loop, 2 requests | **violated**: `TerminalIsFinal` |
| `tasks_socket` | 1 loop, a realtime agent, 1 request | **violated**: `LogNeedsStart` |
| `records` | 1 task without the socket path (1 loop, 1 request, the detector; fair); 3 events sent twice each, 1 failure; 3 workspaces, 2 requests, 1 restart; 2 accounts, 2 links, 3 requests, 2 of them at once; 2 providers, 2 users, 2 logins, 4 changes | `LogNeedsStart`, `UnstartedTerminalIsFinal`, `Settles`; `HandledOnce`; `WorkspacesConsistent`, `BootRepairs`; `SessionsEnd`, `OneTimeSecrets`, `AdminRemains`; `SubjectOneUser` |
| `outbox` | 2 events, 2 loops, 1 remediation request, batches of 2, 2 attempts, 1 takeover, 1 fault; fair | `OneHolder`, `RetryBudget`, refinement `ImplementsDelivery` |
| `schedules_local` | 2 processes without a common lock, 1 team schedule of 2 nodes, an operator, 2 minutes, 1 fault, 1 slow runner; 10 zones, 23 timings, 97 starting times around a change of the clocks, 12 days | `OccurrencesOnce`; `CalendarKept` |
| `schedules_live` | 2 processes under the advisory lock, 2 schedules, one of them with root, 1 lost session, 1 fault, 2 changes of nodes or workspace; fair | `EveryOccurrenceRuns` |
| `rollouts` | 1 rollout over 2 nodes, 1 call in progress and the monitor, 5 calls (3 once handlers overlap), 2 update tasks, 1 trouble; fair | `NodeByNode`, `FailurePauses`, `CancelIsFinal`, `RolloutSettles` |
| `terminal` | 2 processes, a controller on each, the agent on the second, 2 calls in progress, 3 requests, 1 overlap, 1 trouble; fair | `NeverUndercounted`, `GraceKeepsControllers`, `EndIsFinal`, `NoLimbo`, `AbandonedEnds` |
| `nodes` | connections: 2 processes, 2 sockets, 1 handler in progress when another one authenticates, 1 trouble; access: 1 request of the agent and 1 of an operator at a time and the timer, 1 grant, 2 tokens, 2 operations, 1 race, 1 mishap; fair | `OneSessionPerProcess`, `NoZombieSession`, `ConnectedIsReachable`, `GoneIsOffline`; `NoRevival`, `RootEnds` |
| `root_access` | access as in `nodes`, with 1 token, 1 operation, no race and no mishap | **violated**: `RootNeedsGrant` |
| `platform` | installation: 2 requests, 2 deaths or failed migrations, 2 saved settings; updates: 2 processes, 3 releases of 2 versions, 2 requests, 1 mishap; enrollments: 2 tokens, 1 bootstrap token, 2 hosts, 2 requests and a poller, 2 nodes, 1 fault; fair | `InstallationConsistent`, `SetupFinishes`; `UpdatesConsistent`, `ApplySettles`; `ApprovedHasNode`, `EnrollmentSettles` |

What a component's type invariant says is part of its first invariant
(`StartedOnce`, `OccurrencesOnce`, `NodeByNode`, `WorkspacesConsistent`, ...), next to the named
parts that the module states one by one.

**Why the bounds suffice.** The claims are about one row that several handlers
work on, so one task, event pair, schedule, rollout or session carries the
interleavings; rows do not influence each other except where a run has two
(batches, the order of schedules, the order of targets). Two slots besides the
timers give every pair of handlers in every order, which is what a stale save
needs: one that has loaded and one that stores in between. A third party is
there where the code has one (detector, monitor, timers). Two claims, attempts
or occurrences show a first and a repeated one. One fault of each kind at every
point shows recovery from each state; two are tried in `Installation` only. The
task run has one slot for requests, as two of them are more than TLC can exhaust; the
theorems hold for every number. The bounds `Max...` are guards of the actions they limit and named in the modules.
For the cadences the zones are those in which clocks change by an hour, forwards
and back, at two, at midnight and at the end of a day, west and east of Greenwich,
by two hours and by half an hour; an hour has four minutes, which is enough for times, offsets
and changes that are multiples of a quarter.

**Conditions in the properties.** Some invariants of this code hold only without
overlapping handlers, since the code does nothing to make them hold with them.
They say so: `Calm` (no handler ran next to another one), `Undisturbed` (no loop
outlived its lock, no event was requeued twice), `overlap`, `crossed`, `disturbed`
(requests that change the same tables or files at once, or a death between two files),
`replaced` (a manifest has given a prepared release another id), `silenced` and
`foundLate` (above), `spoilt` (an installation has left what none gets over), `misses` (a
command of the count was dropped, or its key has expired), `stale` (a save has
overwritten an update), `mixed` (handlers of events at once), `spoiled` (a run failed halfway,
a runner outlived its lease, or an operator's save was slower than an interval).
The overlapping cases are in the same state space, and the conditions were found
by TLC: section 5 says what happens when they fail.

**Deadlock** is not checked where the bounded system really stops: all tasks,
events, occurrences and calls have been dealt with.

**Fairness.** Weak fairness for handlers that have been called (Node runs on
after an answer), interval timers and cron jobs (the detector, runner loops,
dispatcher loops, the monitor), armed timers of terminals, and the clock. Nothing
is assumed of operators or controllers, nor of agents in `TaskLifecycle` and
`AgentUpdates`: leases, deadlines and thresholds are what the code has for them.
`TerminalSessions` assumes that the agent takes what reaches it and that its
events are handled, as the code of the socket layer does in one call; messages
that are lost are behaviours of their own. There, handlers, timers and the agent
share one weak fairness condition (`Progress`), so nothing is assumed of whose
turn it is.
`AgentConnections` assumes that an agent that is up sends heartbeats and pings,
as that is what its being up means to the code. `NodeAccess` uses strong
fairness twice: the timer of the expiry and the agent's claims come again and
again, and the one row can be kept busy by others whenever one of them is due.
`PlatformUpdates` assumes that somebody asks for the summary again and again, which
is what ends an application; nothing is assumed of the supervisor there. In
`Installation` the operators try again and the supervisor promotes. In
`Enrollments` the agent goes on polling.

**Mutants.** Each property of a passing run has a `Mut...` definition, an
omitted guard, a missing reset, a wrong comparison, that makes TLC find it
violated (`PROJECT.json`, "mutants").

## 4. Proofs

All proofs are checked by `tlapm`. They hold for every number of tasks, poll
loops, requests, processes, sockets, calls, events, schedules, rollouts, nodes,
identities, tokens and workspaces, and for every value of the bounds; `Accounts` is
about two accounts and `Workspaces` about one user, as they are in the runs. Each
theorem is about the specification that the runs check (in the runs of several components, about
the part of its component), rests on the assumption its module makes of its
constants (`ConstantsAssumption`, `OutboxAssumption`, ...: that bounds are
natural numbers, that a set has a member, that two kinds of values differ;
`CadenceAssumption` says what the code relies on of zones, `ClocksAsToday`) and is
the last step of an inductive invariant. The conditions under which a
property holds (no handler has overlapped, no save was stale, ...) are parts of the
properties; section 5 says what happens without them.

| Theorem | States | Inductive invariant |
|---|---|---|
| **TaskLifecycleProofs** | | |
| `TypeCorrect` | `[]TypeOK` | `TypeOK` |
| `TaskStartedOnce`, `LeaseNeverLost`, `UnstartedStaysFinished` | `[]StartedOnce`, `[]LeasedHasLease`, and the action property `UnstartedTerminalIsFinal`, with and without the socket path | `SafeInv` |
| `EventsNeverEarly` | `[]EventsFollowRow` | `SafeInv`, `AnnouncedInv` |
| `LogsNeedStart` | with `Realtime = FALSE`, `[]LogNeedsStart` | `SafeInv`, and that `earlyLogs` stays empty |
| **TerminalSessionsProofs** | | |
| `SessionTypeCorrect` | `[]TypeOK` | `TypeInv` |
| `ControllersCounted` | `[]NeverUndercounted` | `TypeInv`, `CountInv` |
| `EndedStaysEnded`, `GraceSparesControllers` | the action properties `EndIsFinal`, `GraceKeepsControllers` | `TypeInv`, `AloneInv`; `CountInv` for the grace window |
| **OutboxProofs** | | |
| `OutboxTypeCorrect` | `[]TypeOK` | `OutboxInv` |
| `OneHolderOfAnEvent`, `RetriesStayInBudget` | `[]OneHolder`, `[]RetryBudget` | `OutboxInv` |
| `OutboxImplementsDelivery` | `Delivery!DeliverySafe`: the initial states and the steps of `EventDelivery` | `OutboxInv` |
| **ScheduledTasksProofs** | | |
| `OccurrenceRunsOnce` | `[]OccurrencesOnce` | `ScheduleInv` |
| `CalendarHolds` | `[]CalendarKept` | `CadenceInv` |
| **AgentUpdatesProofs** | | |
| `NodeByNodeHolds`, `FailurePausesHolds`, `CancelIsFinalHolds` | `[]NodeByNode`, `[]FailurePauses`, the action property `CancelIsFinal` | `RolloutInv` |
| **AgentProofs** | | |
| `AgentEventHandledOnce` | `[]HandledOnce` | `EvInv` |
| `RevokedForGood` | `[]NoRevival` | `AccessInv` |
| `OneSessionHolds` | `[]OneSessionPerProcess` | `ConnInv` |
| **IdentityProofs** | | |
| `SubjectLogsInOneUser` | `[]SubjectOneUser` | `SsoInv` |
| `EndedSessionsStayEnded`, `SecretsWorkOnce`, `AdminRemainsUnlessCrossed` | `[]SessionsEnd`, `[]OneTimeSecrets`, `[]AdminRemains` | `AccInv` |
| `WorkspacesStayConsistent`, `BootstrapRepairs` | `[]WorkspacesConsistent`, the action property `BootRepairs` | `WsInv` |
| **PlatformProofs** | | |
| `InstallationStarts` | `[]InstallationConsistent` | `InsInv` |
| `UpdatesStayConsistent` | `[]UpdatesConsistent` | `UpdInv` |
| `ApprovedEnrollmentHasNode` | `[]ApprovedHasNode` | `EnrInv` |

*The argument for tasks.* `StartedOnce` is not inductive: a save of an entity
that was loaded when the task was claimable would make a started task claimable
again. `SafeInv` is the conjunction of

* `RowsOK`: a row says what has happened to the task: a running one has been
  started, and unless the task is in `earlyLogs`, a claimable or leased one has
  never been started, and a leased one has a claim;
* `SavesOK`: what a save in progress may still write is allowed by where the row
  can be by then. The key is that rows move into a closed set: once a task has
  begun (running or finished), nothing a handler holds takes it back to queued or
  leased. Handlers load a queued entity only to cancel it or to fail it, and what
  these saves write is terminal. The socket's handlers that complete and append logs
  load rows that have begun, or the task is in `earlyLogs`;
* `RowsExist`: a handler only works on rows that have been inserted;
* `SweepOK`: the same as `SavesOK` for the entities the detector has selected;
* `NotEarly`: what is published was the status of a row that exists, and "running"
  that of a row which has been started; the handler that publishes may hold an older
  row, or the one it has read again.

`AnnouncedInv` adds that an end is announced or about to be: the handler whose UPDATE
made the row terminal carries that status to its event, and the only saves that
change a row after its end are those of a log, which write no end
(`LogsUnfinished`). So an end that is stored is published or in the hands of a handler,
unless that handler has died (`silenced`). `LogsNeedStart` follows from `RowsOK`, since a
running row has been started, and from what is never undone: a start stays recorded.

`TerminalIsFinal` is *not* a theorem, and TLC shows why (section 5);
`UnstartedTerminalIsFinal` is the part of it that the code does ensure.

*The argument for terminals.* `TypeOK` alone is not inductive: `closeSession`
writes the status its handler carries, so that status has to be a final one
whenever the handler gets there. `TypeInv` restricts slots to the set `Good`:
a handler in progress runs on a process, an attach has a socket, and a handler
that is on its way to end the session carries `closed` or `failed`. `CountInv`
is about the commands on their way. `OrderInv`: those of one socket are executed one
after the other, no DECR comes directly after a DECR, and the last one of a socket that is
attached is an INCR. `Counted` is the set of sockets that the count holds: those
attached with nothing on its way, and those whose next command is a DECR. It is never
larger than the count, until a command is dropped or the key expires; so a DECR finds a
positive count and the clamp is never taken, and an attached socket is counted or its INCR
is on its way, which is `NeverUndercounted`.
`AloneInv` is about behaviours without overlaps: the one handler that runs writes the
row of a session that has not ended when it loaded it, and the callback of the grace
window only goes on to end a session whose count it has found to be zero. With
`CountInv` a count of zero means that nobody is attached, as no INCR is on its way when
one handler runs.

*The argument for the outbox.* Loops write rows by their id, so that an event has
one holder is a matter of what loops and rows know of each other. `LoopOK` says for
each phase of a loop what its variables hold. `Calm(e)`, for an event that nothing
disturbs (no loop has outlived its lock on it, it was not requeued twice), says that
it has one holder, that its row is then `processing` under a fresh lock, or
deleted, or `delivered` because `markDelivered` threw after the write
(`HeldRow`), that the holder's copy has the row's number of attempts, and that a
claim above the limit was paid for by a loop that died. `EventDelivery` lets an event
that was disturbed end either way.

*The argument for schedules.* For every schedule that is not spoiled: runners that
work on it work on different occurrences, and the one whose claim is in the row
on the last (`Apart`); the row's `nextRunAt` comes after these occurrences, or is the
one that the holder of the lease works on (`NextIsNew`), and after all that have tasks
(`RunsBefore`); a target that is still left has no task of the occurrence
(`LeftHaveNone`). The cluster lock is *not* part of the argument: what excludes
duplicates is the claim of the row.

*The argument for the calendar.* `Entry(z, x)` is the instant of a local time in closed
form: with the one offset before the change, with the other one after it, and, for a time
that the clock jumps over, the first instant after the change with the same minute.
`ResolveIsEntry` and `RunIsEntry` show that the search of the code and the one of the
calendar both find it; this is where the windows and `ClocksAsToday` are used.
`EntryOrder`: entries of different days keep their order. `EntryDue` is the core: whether
the entry of a day is still to come can be told from what the clock shows, which is all that
`computeDailyRun` and `computeWeeklyRun` compare, if the clocks are settled or the instant is
itself an entry. `CadenceInv` says that it is one after the first run.

*The argument for rollouts.* `Tables` and `Handlers` hold in every behaviour and give
"completed only after a report". The rest holds as long as no handler has
overlapped another and none has died half-way (`Calm`). `AloneInv` then says that
one handler runs, that one rollout is open, and that a rollout on which nobody works
is `Settled`: one target at most is at work or has failed, it comes before all
that wait, and those were given no task yet. `StepOK` says how far from that each step of a
handler is.

*The argument for an agent's events.* `Gate`: the handler that has registered an
event is the only one that will apply it. Unless handlers overlapped or failed
(`OneByOne`), one event is at hand, the last one sent, and what is registered and
not at hand was applied.

*The argument for connections.* `OneSessionPerProcess` needs to know the process of a
socket that has a session, and that a socket which is not yet connected has neither a
session nor a handler (`SocketsOK`): the connection is what gives a socket its
process. Then `authenticateSocket` puts its socket in the place of the one whose
session it removes, and a disconnect clears the place only of its own socket. That a
root report which is about to be saved has loaded a status is what the type of the
slots adds (`SlotTypes`).

*The argument for a node's tokens.* A `save` writes the columns in which the entity
differs from the row. `EntityOK` says that no token in the row or in an entity is
dead, and `CallOK` that only authentications and registrations have loaded token
columns; what the stale saves of other handlers write back is never a token.

*The argument for users.* `SsoInv`: the unique index keeps one identity for a
provider's subject, and whoever has logged in stays linked for as long as the user and
the provider exist, without foreign keys for ever. `AccInv`, unless a save was
stale: session versions never go back (`SeenBefore`), tokens that were ended have a
lower one than their user (`TokensOK`), a used code is in no row (`CodeOK`), a used
link is marked, and a request that saw it unused has seen an older version of the account
(`LinkOK`); unless two removals crossed, a request that takes an admin out of use
does so while there is another (`AdminsOK`). `WsInv`: the index of legacy
deployments and the stages of the boot hold whatever overlaps, which is all that
`BootstrapRepairs` uses; as long as nothing overlapped, `Alone` relates the tables to what
the one request in progress has read.

*The argument for the platform.* `InsInv`: the rows that an installation has stored stay
(`JobRows`), its files come last, and a process that runs installed has found them.
`UpdInv`: what is prepared or asked to be applied is of a version that was downloaded, in
the files and in everybody's hands (`DownloadsFirst`), which a manifest does not change
(`HydratedDownloaded`), and it is the very release until a manifest has replaced it; as long as no writers overlap, a request that waits is
shown by the state file, and the supervisor and the monitor have nothing in hand
(`OneWriter`). `EnrInv`: until a node is deleted, one request at most approves, a row that
names a node names the one that was created, and a revocation that meets an approved row
writes the credential it had loaded, which is none, over the one of the row: only for
tokens that were found expired (`foundLate`); the node and the status stay
(`OneApproval`).

*What the proofs changed in the models.* `EventDelivery` allows a requeue of an event
that was given up (`Requeue`), which the code does. A link in `Accounts` is fresh
when it is made, as the random tokens of the code are (`Fresh`). `CancelIsFinal` and
the order of targets are conditioned on `Calm` and not on overlaps alone: see
rollouts in section 5. `AgentUpdates` counts `calls` in its `TypeOK`, and names the
rows that `SelectActive` takes (`Updating`).

*Out of the prover's reach*, and left to TLC: liveness under fairness (`Settles`,
`RolloutSettles`, `EveryOccurrenceRuns`, `SetupFinishes`, `ApplySettles`,
`EnrollmentSettles`, `RootEnds` and the others of section 3, and the `~>` of
`EventDelivery`) and facts about `ENABLED`. Every invariant and every action property
that a passing run checks is a theorem.

## 5. What the runs show

Three claims of the code are refuted by what it does:

1. `tasks_terminal`. `completeClaimedTaskForAgent` rejects every transition of a
   finished task (tasks.service.ts:1145), but a log line that was loaded while
   the task ran is saved after it has finished and writes `running` back.
2. `root_access`. Work as root is refused for want of "an active root access
   grant" (nodes.service.ts:1457). The expiry clears `rootAccessExpiresAt` while the
   agent's applied profile is still in the row, and a grant without that date does
   not count as expired: until the agent reports, the work is admitted.
3. `tasks_socket`. "Task must be started before logs can be appended"
   (tasks.service.ts:1309): over the socket only queued tasks are refused, and the
   log of a task that is claimed is taken. Its save then writes the claimed row
   back. A start that was stored in between is undone, the lease is there again, and
   the task can be started a second time; so can a cancellation or a deadline be
   undone. `StartedOnce` does not hold for such tasks (two requests are needed to see
   it), which is why the properties leave out `earlyLogs`.

The modules state further sentences of this kind which no run checks; each is
violated if it is added to the cfg of its run:

* `DueScheduleRuns` (`schedules_live`): the runner takes the schedule with the
  smallest `nextRunAt`, leaves it there if the run fails and stops at the first
  failure, so that one schedule whose node is in maintenance keeps all later ones
  of all workspaces from running (scheduled-task-runner.service.ts:83);
* `FirstFailurePauses` (`rollouts`): README.md:390 says that the first failure pauses
  the rollout; `dispatchNextTarget` saves `running` after the target
  (agent-updates.service.ts:781) and overwrites a pause stored in between;
* `DefaultNotArchived` (`records`): README.md:485, workspaces.service.ts:284; two
  requests at once archive the default workspace;
* `AnAdminRemains` (`records`): users.service.ts:769; two admins who demote each other
  at once leave none;
* `BootstrapOnce` (`platform`, with `Tokens = {}`): enrollments.service.ts:356; two
  installers with one token and two host names make two nodes;
* `EveryEndAudited`, `RestartClears` (`platform`): README.md on audit entries and on
  `restartRequired`; a new request replaces a finished state before it is audited,
  and a setting that the environment overrides stays pending after a restart;
* `StartupTimeoutMeansNotOpened` (`terminal`): terminal-sessions.service.ts:1280; the
  startup timer of the process that created a session cannot be cleared by the process
  that handles `terminal.opened`, and fails the open session, even if no two handlers
  overlap;
* `FirstRunAhead` (`schedules_local`): a daily or weekly schedule that is created in
  the hour which the clocks repeat, before its time, gets the first of the two
  instants as `nextRunAt`, which has passed, and runs at once
  (scheduled-task.utils.ts:310). A chain of runs is not affected: each run is
  computed from the `nextRunAt` before it.

Further consequences of the same kind that the models contain and the
properties' conditions exclude:

* tasks: a cancellation is erased by a stale save of a log; a task that has just
  started is failed as never claimed; after a lost lease two loops may both be
  told to execute (the start compares no token, and a running task is answered as a
  success); when handlers of one task overlap, the last event about it may be older than
  its row, as each publishes the entity it holds; a handler that dies between the
  UPDATE and the enqueue loses its event; three overlapping saves leave a
  row `running` without `startedAt`, which the detector never selects (`Stranded`);
  an agent that claims and dies within every lease keeps a task for ever, so
  `Settles` is about finitely many claims, and agents that poll: what a log of a
  claimed task brings back may have no deadline left;
* outbox: a loop that outlives its lock reverts the delivery of the next one; an event
  is marked delivered although the Redis client was not ready (redis.service.ts:69) or
  one of several channels has failed (notifications.service.ts:305);
* schedules: one refusing node of a team makes the others get the task again
  every second; disabling or deleting may be undone by a slow save; a task may be
  queued in a workspace that was archived a moment ago; the event of a team
  schedule has no workspace id, and enabling it throws after the row was changed;
* rollouts: two operators can create two active rollouts; a dispatch that throws
  leaves the rollout running with no active target; a late observation of an
  older version is stored; and after a handler has died half-way, a stale report of a
  task that was given before, for a target that an operator has retried and that
  waits, makes it active beside another one (agent-updates.service.ts:467);
* terminals: between the attachment and its INCR the count is too low, so that a
  grace window that ends just then ends the session under the new controller; a socket
  that disconnects while it attaches stays counted, so the
  session is never abandoned; a controller that stays longer than the count's
  key lives is not counted, and a second one that comes and goes ends its session;
  two processes' grace windows overlap and the older timer wins; a session that
  nobody ever attached to has no grace timer; `opened` overwrites `terminating`;
  `markFailed` sends no stop to the agent;
* connections: without Redis nothing ends the session of a socket that closed while
  it authenticated; a late disconnect marks a connected node offline until its next
  ping or heartbeat;
* events: an event that is registered and whose handler then fails is answered as a
  duplicate when it is sent again, and never applied;
* node access: an authentication that has loaded the tokens brings a revoked one
  back; a rotation that could not be delivered clears a newer one
  (workspace-nodes.controller.ts:233);
* enrollments: when two requests revoke an expired token and an approval comes in
  between, the save of the second one, whose SELECT has seen the row revoked, writes only
  the empty credential it has loaded, over the one of the approved row: the agent is told
  that it is approved without a token (enrollments.service.ts:434); the
  bootstrap of a node install that fails between the node and its own row leaves the node;
* updates: the API may ask for the application of a release id that was never
  downloaded, when the manifest of the prepared version names another build
  (control-plane-release-catalog.service.ts:212); a download that is queued
  without its request file, after a death between the two, stays queued and keeps every
  other operation away, since only applications age;
* accounts: any save of a user that was loaded before undoes an increment of
  `sessionVersion`; a recovery code or a link that is presented twice at once works
  twice; without the foreign keys of a legacy deployment the identities of a deleted
  user stay, and the login that finds one fails;
* workspaces: every start of a legacy deployment writes the configured time zone
  over the one of the default workspace (`syncDefaultWorkspaceTimezone`);
* installation: a death between the rows of the admin and of the workspace, or one
  (or a migration that fails) between the migrations table and the commit of the
  migrations, leaves a database that no later attempt gets over.

## 6. Plan

All of the control plane's own stateful components have a module, and every
invariant and action property of the passing runs is a theorem. What is left, in this
order:

1. The transcript of terminals: numbering, capacity and retention of chunks.
2. A task as "queued, started once, ended", implemented by `TaskLifecycle`.
3. The socket path composed with `AgentConnections`: dispatch over a route that is
   about to change.

## 7. Not modelled, and why

* Texts, payloads, outputs and log lines; search, listing and read-only routes.
* Notifications, mail, web gateway: fire and forget, an outcome in `Outbox`.
* Audit logs and events beyond their order with the row: append-only inserts at
  the end of handlers.
* Packages, logs, log scans: parsers of command output. Metrics: inserts and a
  deletion under `ClusterLock`. Incidents: entities without operations. Templates:
  plain create, read, update, delete. Configuration and migrations run before any
  handler.
* Authorization checks: stateless, before the first statement that matters.
* PostgreSQL below one statement: an UPDATE is atomic here. The claim of a task
  selects its row in a sub-select without `FOR UPDATE` (tasks.service.ts:1917);
  whether two claims can take one row depends on how PostgreSQL re-checks it.
* Reads of a request that have no await of consequence between them are one step
  in `Workspaces`, `Accounts`, `Enrollments` and `SingleSignOn`.
* External, modelled from how the code uses it: the agent, the host supervisor,
  identity providers, the release feed, PostgreSQL constraints and locks, the
  expiry of Redis keys, the clock and the zone data of `Intl`.
* Zones that are not as `ClocksAsToday` of `Cadences` says (offsets beyond fifteen
  hours, clocks set back by more than two, gaps the code's windows do not cover), or
  that change twice within a day: there are none today.
* Terminals without Redis (`localControllerCounts`), and a Redis connection that delivers
  commands of one process in another order than they were sent: FIFO is assumed.
* The control-plane part of `createRollout`'s checks (`assertControlPlaneApplyIsIdle`):
  it refuses a request, which the model leaves the operators free not to make.
* The terminal transcript (numbering, capacity, retention, command audit): planned.
