-------------------------- MODULE AgentUpdatesProofs --------------------------
(***************************************************************************)
(* Rollouts update their nodes one at a time, a failure pauses them and a  *)
(* cancellation is final, for any number of rollouts, nodes, versions and  *)
(* handlers and any bounds.                                                *)
(*                                                                         *)
(* What one handler at a time guarantees is much more than what remains    *)
(* when handlers run in any order, so the invariant has two parts.  Tables *)
(* and Handlers hold in every behaviour: rows appear after the row they    *)
(* belong to, and a handler that is about to store "completed" has seen    *)
(* the node report the version.  AloneInv holds as long as no two handlers *)
(* have overlapped and none has died half-way: at most one rollout is open *)
(* and at most one handler runs, a rollout on which nothing runs is        *)
(* Settled, and the one handler knows by StepOK what it has found so far.  *)
(* Of the targets of a rollout one at most is at work or has failed, and   *)
(* it comes before all that still wait; a target that waits has not been   *)
(* given a task before, or nothing else is at work and it is the next one  *)
(* (a retried target).  Without that last fact a report of an old task     *)
(* could make a second target active.                                      *)
(***************************************************************************)
EXTENDS AgentUpdates, TLAPS

-----------------------------------------------------------------------------
(* The inductive invariant: handlers in any order.                           *)

Pcs == {"idle", "insert", "targets", "restart", "review", "cancel", "list",
        "canceleach", "canceltask", "load", "count", "find", "eligible",
        "create", "dispatched", "running", "fail", "pause", "syncfailed",
        "syncdone", "progress", "report", "note", "reconnect", "observe",
        "confirm", "complete", "each"}
Ops == {"none", "create", "resume", "retry", "skip", "cancel", "call",
        "progress", "heartbeat", "monitor"}

HandlerStates ==
    [op : Ops, pc : Pcs, r : Rollouts \cup {NoRollout}, rent : RolloutStatuses,
     n : Nodes, tent : Targets, nodes : SUBSET Nodes,
     ver : Versions \cup {FirstVersion}, report : Reports \cup {"none"},
     todo : SUBSET Entries]

\* The fields of a handler.
Is(c, op, pc, r, rent, n, tent, nodes, ver, report, todo) ==
    /\ c.op = op /\ c.pc = pc /\ c.r = r /\ c.rent = rent /\ c.n = n
    /\ c.tent = tent /\ c.nodes = nodes /\ c.ver = ver /\ c.report = report
    /\ c.todo = todo

\* A handler works on a rollout that exists or that it is about to insert, with
\* entities whose tasks exist, and takes a target for updated only if the node
\* has said so.
HandlerOK(c) ==
    /\ c \in HandlerStates
    /\ c.pc = "idle" => c = Idle
    /\ c.pc \notin {"idle", "observe", "each"} => c.r \in Rollouts
    /\ c.r \in Rollouts /\ rollout[c.r] = "none" => c.pc = "insert"
    /\ c.pc = "insert" => c.op # "monitor" /\ rollout[c.r] = "none"
    /\ c.pc \in {"report", "note", "complete"} => c.rent # "none"
    /\ c.pc \in {"progress", "report", "note", "reconnect"} => c.report \in Reports
    /\ c.tent.task <= tasks
    /\ c.pc = "dispatched" => c.tent.status = "dispatched"
    /\ c.pc = "canceltask" => c.tent.task # 0
    /\ c.pc = "observe" => <<c.n, c.ver>> \in reported
    /\ c.pc \in {"confirm", "complete"} => <<c.n, aim[c.r]>> \in reported
    /\ \A e \in c.todo : e.tent.task <= tasks /\ rollout[e.r] # "none"

Handlers ==
    /\ slot \in [Slots -> HandlerStates]
    /\ \A s \in Slots : HandlerOK(slot[s])
    /\ \A r \in Rollouts : rollout[r] = "none" =>
         \A s, t \in Slots : slot[s].r = r /\ slot[t].r = r => s = t

RowTypes ==
    /\ rollout \in [Rollouts -> RolloutStatuses]
    /\ aim \in [Rollouts -> Versions \cup {FirstVersion}]
    /\ target \in [Rollouts -> [Nodes -> Targets]]
    /\ overdue \subseteq Rollouts \X Nodes
    /\ tasks \in TaskIds /\ failedTasks \subseteq 1 .. tasks
    /\ version \in [Nodes -> Versions \cup {FirstVersion}]
    /\ online \subseteq Nodes /\ maintenance \subseteq Nodes
    /\ changes \in Nat /\ faults \in Nat /\ calls \in Nat
    /\ given \subseteq Rollouts \X Nodes
    /\ reported \subseteq Nodes \X (Versions \cup {FirstVersion})
    /\ overlapped \in BOOLEAN

\* What belongs to a rollout comes after its row, nodes run what they have
\* reported.
Tables ==
    /\ RowTypes /\ CompletedWasReported
    /\ \A r \in Rollouts, n \in Nodes :
         /\ rollout[r] = "none" => target[r][n] = NoTarget /\ <<r, n>> \notin given
         /\ target[r][n].task <= tasks
    /\ \A n \in Nodes : <<n, version[n]>> \in reported

-----------------------------------------------------------------------------
(* The inductive invariant: one handler at a time.                           *)

Failed(r) == {n \in Nodes : target[r][n].status = "failed"}
Live(r) == Pending(r) \cup Busy(r)
Open(r) == rollout[r] \in {"queued", "running", "paused"}

\* One target at most is at work or has failed, and it comes before all that
\* wait.
OneInOrder(r) ==
    /\ \A m, n \in Busy(r) \cup Failed(r) : m = n
    /\ \A n \in Busy(r) \cup Failed(r), m \in Pending(r) : n < m

NoneGiven(r) == \A m \in Pending(r) : <<r, m>> \notin given

\* The rollout between two handlers.
Settled(r) ==
    /\ OneInOrder(r) /\ NoneGiven(r)
    /\ rollout[r] # "queued"
    /\ rollout[r] = "running" => Failed(r) = {}
    /\ ~Open(r) => Live(r) = {}

\* The next target may be dispatched: one that has been given before only if it
\* is the next.
Ready(r) ==
    /\ OneInOrder(r) /\ Failed(r) = {}
    /\ \A m \in Pending(r) : <<r, m>> \in given =>
          Busy(r) = {} /\ \A k \in Pending(r) : m <= k

\* Target n is the next one.
Chosen(r, n) ==
    /\ rollout[r] = "running" /\ Busy(r) = {} /\ Failed(r) = {}
    /\ n \in Pending(r)
    /\ \A m \in Pending(r) \ {n} : n < m /\ <<r, m>> \notin given

\* Target n fails, or has failed.
Failing(r, n) ==
    /\ rollout[r] \in {"running", "paused"}
    /\ Busy(r) \cup Failed(r) \subseteq {n}
    /\ \A m \in Pending(r) \ {n} : n < m /\ <<r, m>> \notin given

\* Rollout r is being cancelled, with the entries of todo still to come.
Cancelling(r, todo) ==
    /\ rollout[r] = "cancelled"
    /\ OneInOrder(r) /\ NoneGiven(r)
    /\ \A e \in todo : e.r = r
    /\ \A n \in Live(r) : \E e \in todo : e.n = n

\* What a handler that runs alone has found or done so far.
StepOK(c) ==
    /\ c.pc \notin {"each", "canceleach", "canceltask"} => c.todo = {}
    /\ c.pc = "insert" => rollout[c.r] = "none" /\ \A q \in Rollouts : ~Open(q)
    /\ c.pc = "targets" =>
          /\ rollout[c.r] = "queued"
          /\ \A n \in Nodes : target[c.r][n] = NoTarget /\ <<c.r, n>> \notin given
    /\ c.pc = "restart" => rollout[c.r] \in {"queued", "paused"} /\ Ready(c.r)
    /\ c.pc \in {"load", "count", "find"} => rollout[c.r] = "running" /\ Ready(c.r)
    /\ c.pc = "find" => Busy(c.r) = {}
    /\ c.pc \in {"eligible", "create", "dispatched"} => Chosen(c.r, c.n)
    /\ c.pc = "running" => rollout[c.r] = "running"
    /\ c.pc \in {"fail", "pause"} => Failing(c.r, c.n)
    /\ c.pc = "pause" => c.n \in Failed(c.r)
    /\ c.pc = "review" => rollout[c.r] = "paused" /\ c.n \in Failed(c.r)
    /\ c.pc = "cancel" => Open(c.r)
    /\ c.pc = "list" => /\ rollout[c.r] = "cancelled"
                        /\ OneInOrder(c.r) /\ NoneGiven(c.r)
    /\ c.pc \in {"canceleach", "canceltask"} => Cancelling(c.r, c.todo)
    /\ c.pc \in {"progress", "report"} => c.n \in Busy(c.r)
    /\ c.pc \in {"report", "note", "complete", "syncdone"} => c.rent = rollout[c.r]
    /\ c.pc \in {"confirm", "complete"} => Open(c.r) /\ c.n \in Live(c.r)
    /\ c.pc \in {"running", "review", "cancel", "progress", "report", "note", "reconnect",
                 "confirm", "complete", "syncdone", "syncfailed"} => Settled(c.r)
    /\ c.pc = "observe" /\ c.r \in Rollouts => Settled(c.r)
    /\ c.pc = "each" =>
          /\ c.r = NoRollout
          /\ \A e \in c.todo : rollout[e.r] = "running" /\ e.n \in Busy(e.r)
          /\ \A e, f \in c.todo : e = f

AloneInv ==
    /\ \A s, t \in Slots : slot[s] # Idle /\ slot[t] # Idle => s = t
    /\ \A s \in Slots : StepOK(slot[s])
    /\ \A r \in Rollouts : Quiet(r) => Settled(r)
    /\ \A q, r \in Rollouts : Open(q) /\ Open(r) => q = r

RolloutInv == Tables /\ Handlers /\ (Calm => AloneInv)
-----------------------------------------------------------------------------
(* Lemmas about handlers and rows.                                           *)

\* The constants and what a free slot holds.
LEMMA IdleOK ==
    /\ NoTarget \in Targets /\ 0 \in TaskIds /\ Nodes \subseteq Nat /\ 1 \in Nodes
    /\ Idle \in HandlerStates
    /\ Is(Idle, "none", "idle", NoRollout, "none", 1, NoTarget, {}, FirstVersion,
          "none", {})
    /\ NoRollout \notin Rollouts /\ Monitor \in Slots
<1>1. NoTarget \in Targets /\ 0 \in TaskIds /\ Nodes \subseteq Nat /\ 1 \in Nodes
  BY AgentUpdatesAssumption
     DEF NoTarget, Targets, TaskIds, TargetStatuses, Active, Ended, Nodes
<1>2. Is(Idle, "none", "idle", NoRollout, "none", 1, NoTarget, {}, FirstVersion,
         "none", {})
  BY DEF Is, Idle
<1>3. Idle \in HandlerStates
  BY <1>1 DEF Idle, HandlerStates, Ops, Pcs, RolloutStatuses
<1> QED
  BY <1>1, <1>2, <1>3, AgentUpdatesAssumption DEF Slots

LEMMA NodeNumbers == \A m, n \in Nodes : m \in Nat /\ n \in Nat /\ m <= m /\ (m < n => m <= n)
  BY AgentUpdatesAssumption DEF Nodes

LEMMA HandlerDomain ==
    ASSUME NEW c \in HandlerStates
    PROVE  DOMAIN c = {"op", "pc", "r", "rent", "n", "tent", "nodes", "ver", "report",
                       "todo"}
  BY DEF HandlerStates

\* Changes of a handler's fields.
LEMMA PcChanges ==
    ASSUME NEW c \in HandlerStates, NEW pc \in Pcs, NEW d, d = [c EXCEPT !.pc = pc]
    PROVE  /\ d \in HandlerStates
           /\ Is(d, c.op, pc, c.r, c.rent, c.n, c.tent, c.nodes, c.ver, c.report, c.todo)
<1>1. Is(d, c.op, pc, c.r, c.rent, c.n, c.tent, c.nodes, c.ver, c.report, c.todo)
  BY HandlerDomain, Zenon DEF Is
<1>2. d = [x \in {"op", "pc", "r", "rent", "n", "tent", "nodes", "ver", "report",
                  "todo"} |-> d[x]]
  BY HandlerDomain, Zenon
<1>3. /\ c.op \in Ops /\ c.r \in Rollouts \cup {NoRollout} /\ c.rent \in RolloutStatuses
      /\ c.n \in Nodes /\ c.tent \in Targets /\ c.nodes \in SUBSET Nodes
      /\ c.ver \in Versions \cup {FirstVersion} /\ c.report \in Reports \cup {"none"}
      /\ c.todo \in SUBSET Entries
  BY DEF HandlerStates
<1> QED
  BY <1>1, <1>2, <1>3 DEF HandlerStates, Is

LEMMA RentChanges ==
    ASSUME NEW c \in HandlerStates, NEW pc \in Pcs, NEW rent \in RolloutStatuses, NEW d,
           d = [c EXCEPT !.pc = pc, !.rent = rent]
    PROVE  /\ d \in HandlerStates
           /\ Is(d, c.op, pc, c.r, rent, c.n, c.tent, c.nodes, c.ver, c.report, c.todo)
<1>1. Is(d, c.op, pc, c.r, rent, c.n, c.tent, c.nodes, c.ver, c.report, c.todo)
  BY HandlerDomain, Zenon DEF Is
<1>2. d = [x \in {"op", "pc", "r", "rent", "n", "tent", "nodes", "ver", "report",
                  "todo"} |-> d[x]]
  BY HandlerDomain, Zenon
<1>3. /\ c.op \in Ops /\ c.r \in Rollouts \cup {NoRollout}
      /\ c.n \in Nodes /\ c.tent \in Targets /\ c.nodes \in SUBSET Nodes
      /\ c.ver \in Versions \cup {FirstVersion} /\ c.report \in Reports \cup {"none"}
      /\ c.todo \in SUBSET Entries
  BY DEF HandlerStates
<1> QED
  BY <1>1, <1>2, <1>3 DEF HandlerStates, Is

LEMMA ListTaken ==
    ASSUME NEW c \in HandlerStates, NEW pc \in Pcs, NEW todo \in SUBSET Entries,
           NEW d, d = [c EXCEPT !.pc = pc, !.todo = todo]
    PROVE  /\ d \in HandlerStates
           /\ Is(d, c.op, pc, c.r, c.rent, c.n, c.tent, c.nodes, c.ver, c.report, todo)
<1>1. Is(d, c.op, pc, c.r, c.rent, c.n, c.tent, c.nodes, c.ver, c.report, todo)
  BY HandlerDomain, Zenon DEF Is
<1>2. d = [x \in {"op", "pc", "r", "rent", "n", "tent", "nodes", "ver", "report",
                  "todo"} |-> d[x]]
  BY HandlerDomain, Zenon
<1>3. /\ c.op \in Ops /\ c.r \in Rollouts \cup {NoRollout}
      /\ c.rent \in RolloutStatuses /\ c.n \in Nodes
      /\ c.nodes \in SUBSET Nodes /\ c.ver \in Versions \cup {FirstVersion}
      /\ c.report \in Reports \cup {"none"} /\ c.tent \in Targets
  BY DEF HandlerStates
<1> QED
  BY <1>1, <1>2, <1>3 DEF HandlerStates, Is

LEMMA ListGoesOn ==
    ASSUME NEW c \in HandlerStates, NEW pc \in Pcs, NEW tent \in Targets,
           NEW todo \in SUBSET Entries,
           NEW d, d = [c EXCEPT !.pc = pc, !.tent = tent, !.todo = todo]
    PROVE  /\ d \in HandlerStates
           /\ Is(d, c.op, pc, c.r, c.rent, c.n, tent, c.nodes, c.ver, c.report, todo)
<1>1. Is(d, c.op, pc, c.r, c.rent, c.n, tent, c.nodes, c.ver, c.report, todo)
  BY HandlerDomain, Zenon DEF Is
<1>2. d = [x \in {"op", "pc", "r", "rent", "n", "tent", "nodes", "ver", "report",
                  "todo"} |-> d[x]]
  BY HandlerDomain, Zenon
<1>3. /\ c.op \in Ops /\ c.r \in Rollouts \cup {NoRollout}
      /\ c.rent \in RolloutStatuses /\ c.n \in Nodes
      /\ c.nodes \in SUBSET Nodes /\ c.ver \in Versions \cup {FirstVersion}
      /\ c.report \in Reports \cup {"none"}
  BY DEF HandlerStates
<1> QED
  BY <1>1, <1>2, <1>3 DEF HandlerStates, Is

LEMMA TargetGiven ==
    ASSUME NEW c \in HandlerStates, NEW pc \in Pcs, NEW tent \in Targets,
           NEW d, d = [c EXCEPT !.pc = pc, !.tent = tent]
    PROVE  /\ d \in HandlerStates
           /\ Is(d, c.op, pc, c.r, c.rent, c.n, tent, c.nodes, c.ver, c.report, c.todo)
<1>1. Is(d, c.op, pc, c.r, c.rent, c.n, tent, c.nodes, c.ver, c.report, c.todo)
  BY HandlerDomain, Zenon DEF Is
<1>2. d = [x \in {"op", "pc", "r", "rent", "n", "tent", "nodes", "ver", "report",
                  "todo"} |-> d[x]]
  BY HandlerDomain, Zenon
<1>3. /\ c.op \in Ops /\ c.r \in Rollouts \cup {NoRollout}
      /\ c.rent \in RolloutStatuses /\ c.n \in Nodes
      /\ c.nodes \in SUBSET Nodes /\ c.ver \in Versions \cup {FirstVersion}
      /\ c.report \in Reports \cup {"none"} /\ c.todo \in SUBSET Entries
  BY DEF HandlerStates
<1> QED
  BY <1>1, <1>2, <1>3 DEF HandlerStates, Is

LEMMA NodeChosen ==
    ASSUME NEW c \in HandlerStates, NEW pc \in Pcs, NEW n \in Nodes, NEW tent \in Targets,
           NEW d, d = [c EXCEPT !.pc = pc, !.n = n, !.tent = tent]
    PROVE  /\ d \in HandlerStates
           /\ Is(d, c.op, pc, c.r, c.rent, n, tent, c.nodes, c.ver, c.report, c.todo)
<1>1. Is(d, c.op, pc, c.r, c.rent, n, tent, c.nodes, c.ver, c.report, c.todo)
  BY HandlerDomain, Zenon DEF Is
<1>2. d = [x \in {"op", "pc", "r", "rent", "n", "tent", "nodes", "ver", "report",
                  "todo"} |-> d[x]]
  BY HandlerDomain, Zenon
<1>3. /\ c.op \in Ops /\ c.r \in Rollouts \cup {NoRollout} /\ c.rent \in RolloutStatuses
      /\ c.nodes \in SUBSET Nodes
      /\ c.ver \in Versions \cup {FirstVersion} /\ c.report \in Reports \cup {"none"}
      /\ c.todo \in SUBSET Entries
  BY DEF HandlerStates
<1> QED
  BY <1>1, <1>2, <1>3 DEF HandlerStates, Is

LEMMA VersionSeen ==
    ASSUME NEW c \in HandlerStates, NEW pc \in Pcs,
           NEW ver \in Versions \cup {FirstVersion}, NEW d,
           d = [c EXCEPT !.pc = pc, !.ver = ver]
    PROVE  /\ d \in HandlerStates
           /\ Is(d, c.op, pc, c.r, c.rent, c.n, c.tent, c.nodes, ver, c.report, c.todo)
<1>1. Is(d, c.op, pc, c.r, c.rent, c.n, c.tent, c.nodes, ver, c.report, c.todo)
  BY HandlerDomain, Zenon DEF Is
<1>2. d = [x \in {"op", "pc", "r", "rent", "n", "tent", "nodes", "ver", "report",
                  "todo"} |-> d[x]]
  BY HandlerDomain, Zenon
<1>3. /\ c.op \in Ops /\ c.r \in Rollouts \cup {NoRollout} /\ c.rent \in RolloutStatuses
      /\ c.n \in Nodes /\ c.tent \in Targets /\ c.nodes \in SUBSET Nodes
      /\ c.report \in Reports \cup {"none"} /\ c.todo \in SUBSET Entries
  BY DEF HandlerStates
<1> QED
  BY <1>1, <1>2, <1>3 DEF HandlerStates, Is

LEMMA StatusSaved ==
    ASSUME NEW t \in Targets, NEW st \in TargetStatuses, NEW e, e = [t EXCEPT !.status = st]
    PROVE  e \in Targets /\ e.status = st /\ e.task = t.task
<1>1. DOMAIN t = {"status", "task"} /\ t.task \in TaskIds
  BY DEF Targets
<1>2. e.status = st /\ e.task = t.task /\ e = [x \in {"status", "task"} |-> e[x]]
  BY <1>1, Zenon
<1> QED
  BY <1>1, <1>2 DEF Targets

LEMMA TargetRow ==
    ASSUME Tables, NEW r \in Rollouts, NEW n \in Nodes
    PROVE  target[r][n] \in Targets /\ target[r][n].task <= tasks
  BY DEF Tables, RowTypes

\* Rows only grow, and only a handler that inserts a rollout sets its version.
Grows(s) ==
    /\ \A r \in Rollouts :
         /\ rollout'[r] = "none" => rollout[r] = "none"
         /\ rollout[r] = "none" => rollout'[r] = "none" \/ slot[s].r = r
    /\ \A r \in Rollouts : aim'[r] = aim[r] \/ (rollout[r] = "none" /\ slot[s].r = r)
    /\ tasks <= tasks' /\ reported \subseteq reported'

\* A handler that takes a step keeps the other handlers' invariant.
LEMMA HandlersStep ==
    ASSUME Tables, Handlers, NEW s \in Slots, Grows(s), tasks' \in Nat, NEW d,
           slot' = [slot EXCEPT ![s] = d], HandlerOK(d)',
           \A r \in Rollouts : d.r = r /\ rollout'[r] = "none" => slot[s].r = r \/ Quiet(r)
    PROVE  Handlers'
<1>1. d \in HandlerStates
  BY DEF HandlerOK
<1>2. slot' \in [Slots -> HandlerStates] /\ slot'[s] = d
      /\ \A q \in Slots \ {s} : slot'[q] = slot[q]
  BY <1>1 DEF Handlers
<1>3. ASSUME NEW q \in Slots PROVE HandlerOK(slot[q])'
  <2>1. CASE q = s
    BY <1>2, <2>1 DEF HandlerOK
  <2>2. CASE q # s
    <3>1. PICK c : c = slot[q]
      OBVIOUS
    <3>2. HandlerOK(c)
      BY <3>1 DEF Handlers
    <3>3. tasks \in Nat /\ c.tent.task \in Nat /\ \A e \in c.todo : e.r \in Rollouts /\ e.tent.task \in Nat
      BY <3>2, AgentUpdatesAssumption DEF Tables, RowTypes, TaskIds, HandlerOK, HandlerStates, Targets, Entries
    <3>4. c.pc \in {"confirm", "complete"} => aim'[c.r] = aim[c.r]
      <4> SUFFICES ASSUME c.pc \in {"confirm", "complete"}, aim'[c.r] # aim[c.r]
                   PROVE  FALSE
        OBVIOUS
      <4>1. c.r \in Rollouts
        BY <3>2 DEF HandlerOK
      <4>2. rollout[c.r] = "none"
        BY <4>1 DEF Grows
      <4>3. c.pc = "insert"
        BY <3>2, <4>1, <4>2 DEF HandlerOK
      <4> QED
        BY <4>3
    <3>5. c.pc = "insert" => rollout'[c.r] = "none"
      <4> SUFFICES ASSUME c.pc = "insert", rollout'[c.r] # "none" PROVE FALSE
        OBVIOUS
      <4>1. c.r \in Rollouts /\ rollout[c.r] = "none"
        BY <3>2 DEF HandlerOK
      <4>2. slot[s].r = c.r
        BY <4>1 DEF Grows
      <4> QED
        BY <2>2, <3>1, <4>1, <4>2 DEF Handlers
    <3>6. HandlerOK(c)'
      BY <3>2, <3>3, <3>4, <3>5 DEF HandlerOK, Grows
    <3>7. slot'[q] = c
      BY <1>2, <2>2, <3>1
    <3> QED
      BY <3>6, <3>7 DEF HandlerOK
  <2> QED
    BY <2>1, <2>2
<1>4. ASSUME NEW r \in Rollouts, rollout'[r] = "none", NEW p \in Slots, NEW q \in Slots,
             slot'[p].r = r, slot'[q].r = r
      PROVE  p = q
  <2>1. rollout[r] = "none"
    BY <1>4 DEF Grows
  <2>2. \A t, u \in Slots : slot[t].r = r /\ slot[u].r = r => t = u
    BY <2>1 DEF Handlers
  <2>3. CASE p # s /\ q # s
    BY <1>2, <1>4, <2>2, <2>3
  <2>4. CASE p = s \/ q = s
    BY <1>2, <1>4, <2>2, <2>4 DEF Quiet
  <2> QED
    BY <2>3, <2>4
<1> QED
  BY <1>2, <1>3, <1>4 DEF Handlers

\* A handler that ends, or dies.
LEMMA HandlersEnd ==
    ASSUME Tables, Handlers, NEW s \in Slots, Grows(s), tasks' \in Nat,
           slot' = [slot EXCEPT ![s] = Idle]
    PROVE  Handlers'
<1>1. HandlerOK(Idle)'
  BY IdleOK DEF HandlerOK, Is, NoTarget, Tables, RowTypes, TaskIds
<1>2. Idle.r = NoRollout
  BY IdleOK DEF Is
<1> QED
  BY <1>1, <1>2, IdleOK, HandlersStep

\* The rows after the save of a rollout ...
LEMMA RolloutSaved ==
    ASSUME Tables, NEW r \in Rollouts, rollout[r] # "none",
           NEW st \in RolloutStatuses \ {"none"}, SaveRollout(r, st),
           UNCHANGED <<aim, target, overdue, taskVars, nodeVars, faults, reported>>,
           calls' \in Nat, overlapped' \in BOOLEAN
    PROVE  /\ Tables' /\ rollout'[r] = st
           /\ \A q \in Rollouts \ {r} : rollout'[q] = rollout[q]
           /\ \A q \in Rollouts : rollout'[q] = "none" => rollout[q] = "none"
<1>1. /\ rollout' \in [Rollouts -> RolloutStatuses] /\ rollout'[r] = st
      /\ \A q \in Rollouts \ {r} : rollout'[q] = rollout[q]
  BY DEF Tables, RowTypes, SaveRollout
<1>2. RowTypes'
  BY <1>1 DEF Tables, RowTypes, taskVars, nodeVars
<1>3. \A q \in Rollouts : rollout'[q] = "none" => rollout[q] = "none"
  BY <1>1
<1> QED
  BY <1>1, <1>2, <1>3 DEF Tables, CompletedWasReported, taskVars, nodeVars

\* ... and of a target.
LEMMA TargetSaved ==
    ASSUME Tables, NEW r \in Rollouts, NEW n \in Nodes, NEW ent \in Targets,
           SaveTarget(r, n, ent), rollout[r] # "none", ent.task <= tasks,
           ent.status = "completed" => <<n, aim[r]>> \in reported,
           UNCHANGED <<rollout, aim, taskVars, nodeVars, faults, reported>>,
           calls' \in Nat, overlapped' \in BOOLEAN
    PROVE  /\ Tables' /\ target'[r][n] = ent
           /\ \A m \in Nodes \ {n} : target'[r][m] = target[r][m]
           /\ \A q \in Rollouts \ {r} : target'[q] = target[q]
<1>1. /\ target' \in [Rollouts -> [Nodes -> Targets]]
      /\ target'[r][n] = ent
      /\ \A m \in Nodes \ {n} : target'[r][m] = target[r][m]
      /\ \A q \in Rollouts \ {r} : target'[q] = target[q]
  BY DEF Tables, RowTypes, SaveTarget
<1>2. overdue' \subseteq Rollouts \X Nodes
  BY DEF Tables, RowTypes, SaveTarget
<1>3. RowTypes'
  BY <1>1, <1>2 DEF Tables, RowTypes, taskVars, nodeVars
<1>4. ASSUME NEW q \in Rollouts, NEW m \in Nodes
      PROVE  /\ target'[q][m].status = "completed" => <<m, aim[q]>> \in reported
             /\ rollout[q] = "none" => target'[q][m] = NoTarget /\ <<q, m>> \notin given
             /\ target'[q][m].task <= tasks
  <2>1. CASE q = r /\ m = n
    BY <1>1, <2>1
  <2>2. CASE ~(q = r /\ m = n)
    BY <1>1, <2>2 DEF Tables, CompletedWasReported
  <2> QED
    BY <2>1, <2>2
<1>5. CompletedWasReported'
  BY <1>4 DEF CompletedWasReported
<1> QED
  BY <1>1, <1>3, <1>4, <1>5 DEF Tables, taskVars, nodeVars

\* ... and of neither.
LEMMA NothingSaved ==
    ASSUME Tables, UNCHANGED <<rollout, aim, target, tasks, given, nodeVars, reported>>,
           overdue' \subseteq Rollouts \X Nodes, failedTasks' \subseteq 1 .. tasks,
           faults' \in Nat, calls' \in Nat, overlapped' \in BOOLEAN
    PROVE  Tables'
<1>1. RowTypes'
  BY DEF Tables, RowTypes, nodeVars
<1> QED
  BY <1>1 DEF Tables, CompletedWasReported, nodeVars

\* Nothing that concerns rollout r changes.
Untouched(r) ==
    /\ rollout'[r] = rollout[r] /\ target'[r] = target[r]
    /\ \A n \in Nodes : <<r, n>> \in given' <=> <<r, n>> \in given

\* All that is said of a rollout stays true.
LEMMA UntouchedStays ==
    ASSUME NEW r, Untouched(r)
    PROVE  /\ Pending(r)' = Pending(r) /\ Busy(r)' = Busy(r) /\ Failed(r)' = Failed(r)
           /\ Live(r)' = Live(r) /\ (Open(r)' <=> Open(r))
           /\ OneInOrder(r)' <=> OneInOrder(r)
           /\ NoneGiven(r)' <=> NoneGiven(r)
           /\ Settled(r)' <=> Settled(r)
           /\ Ready(r)' <=> Ready(r)
           /\ \A n : Chosen(r, n)' <=> Chosen(r, n)
           /\ \A n : Failing(r, n)' <=> Failing(r, n)
<1>1. Pending(r)' = Pending(r) /\ Busy(r)' = Busy(r) /\ Failed(r)' = Failed(r)
  BY DEF Untouched, Pending, Busy, Failed
<1>2. Live(r)' = Live(r) /\ (Open(r)' <=> Open(r))
  BY <1>1 DEF Untouched, Live, Open
<1>3. OneInOrder(r)' <=> OneInOrder(r)
  BY <1>1 DEF OneInOrder
<1>4. NoneGiven(r)' <=> NoneGiven(r)
  BY <1>1 DEF NoneGiven, Untouched, Pending
<1>5. Settled(r)' <=> Settled(r)
  BY <1>1, <1>2, <1>3, <1>4 DEF Settled, Untouched
<1>6. Ready(r)' <=> Ready(r)
  BY <1>1, <1>3 DEF Ready, Untouched, Pending
<1>7. ASSUME NEW n PROVE (Chosen(r, n)' <=> Chosen(r, n)) /\ (Failing(r, n)' <=> Failing(r, n))
  BY <1>1 DEF Chosen, Failing, Untouched, Pending
<1> QED
  BY <1>1, <1>2, <1>3, <1>4, <1>5, <1>6, <1>7

\* The handler that runs alone.
Alone(s) == \A q \in Slots \ {s} : slot[q] = Idle

LEMMA IsAlone ==
    ASSUME AloneInv, NEW s \in Slots, slot[s] # Idle
    PROVE  Alone(s)
  BY DEF AloneInv, Alone

\* A handler takes a step while it runs alone, or begins.
LEMMA AloneStep ==
    ASSUME Handlers, AloneInv, NEW s \in Slots, Alone(s), NEW c, c = slot[s],
           NEW d, slot' = [slot EXCEPT ![s] = d], StepOK(d)',
           \A r \in Rollouts \ {c.r} : Untouched(r),
           c.r \in Rollouts => d.r = c.r \/ Settled(c.r)',
           \A q, r \in Rollouts : Open(q)' /\ Open(r)' => q = r
    PROVE  AloneInv'
<1>1. slot'[s] = d /\ \A q \in Slots \ {s} : slot'[q] = Idle
  BY DEF Handlers, Alone
<1>2. StepOK(Idle)'
  BY IdleOK DEF StepOK, Is
<1>3. \A q \in Slots : StepOK(slot[q])'
  <2> SUFFICES ASSUME NEW q \in Slots PROVE StepOK(slot[q])'
    OBVIOUS
  <2>1. CASE q = s
    BY <1>1, <2>1 DEF StepOK
  <2>2. CASE q # s
    BY <1>1, <1>2, <2>2 DEF StepOK
  <2> QED
    BY <2>1, <2>2
<1>4. ASSUME NEW r \in Rollouts, Quiet(r)' PROVE Settled(r)'
  <2>1. d.r # r
    BY <1>1, <1>4 DEF Quiet
  <2>2. CASE c.r = r
    BY <2>1, <2>2
  <2>3. CASE c.r # r
    <3>1. Quiet(r)
      BY <2>3, IdleOK DEF Quiet, Alone, Is
    <3> QED
      BY <2>3, <3>1, UntouchedStays DEF AloneInv
  <2> QED
    BY <2>2, <2>3
<1>5. \A p, q \in Slots : slot'[p] # Idle /\ slot'[q] # Idle => p = q
  BY <1>1
<1> QED
  BY <1>3, <1>4, <1>5 DEF AloneInv

\* A handler goes on with its rollout while it runs alone ...
LEMMA AloneGo ==
    ASSUME Handlers, AloneInv, NEW s \in Slots, Alone(s), NEW c, c = slot[s],
           NEW d, slot' = [slot EXCEPT ![s] = d], StepOK(d)', d.r = c.r,
           \A r \in Rollouts \ {c.r} : Untouched(r),
           c.r \in Rollouts /\ Open(c.r)' => Open(c.r)
    PROVE  AloneInv'
<1>1. \A q \in Rollouts : Open(q)' => Open(q)
  BY UntouchedStays
<1>2. \A q, r \in Rollouts : Open(q)' /\ Open(r)' => q = r
  BY <1>1 DEF AloneInv
<1> QED
  BY <1>2, AloneStep

\* ... or ends and leaves it settled.
LEMMA AloneEnd ==
    ASSUME Handlers, AloneInv, NEW s \in Slots, Alone(s), NEW c, c = slot[s],
           slot' = [slot EXCEPT ![s] = Idle],
           \A r \in Rollouts \ {c.r} : Untouched(r),
           c.r \in Rollouts => Settled(c.r)',
           c.r \in Rollouts /\ Open(c.r)' => Open(c.r)
    PROVE  AloneInv'
<1>1. StepOK(Idle)'
  BY IdleOK DEF StepOK, Is
<1>2. \A q \in Rollouts : Open(q)' => Open(q)
  BY UntouchedStays
<1>3. \A q, r \in Rollouts : Open(q)' /\ Open(r)' => q = r
  BY <1>2 DEF AloneInv
<1> QED
  BY <1>1, <1>3, AloneStep

\* What is known of a handler in progress.
LEMMA Running ==
    ASSUME RolloutInv, NEW s \in Slots, NEW c, c = slot[s], c.pc # "idle"
    PROVE  /\ Tables /\ Handlers /\ HandlerOK(c) /\ c \in HandlerStates /\ c # Idle
           /\ calls \in Nat /\ overlapped \in BOOLEAN /\ faults \in Nat /\ tasks \in Nat
           /\ overdue \subseteq Rollouts \X Nodes /\ failedTasks \subseteq 1 .. tasks
           /\ Calm => AloneInv /\ Alone(s) /\ StepOK(c)
<1>1. HandlerOK(c) /\ c \in HandlerStates
  BY DEF RolloutInv, Handlers, HandlerOK
<1>2. c # Idle
  BY IdleOK DEF Is
<1>3. /\ calls \in Nat /\ overlapped \in BOOLEAN /\ faults \in Nat /\ tasks \in Nat
      /\ overdue \subseteq Rollouts \X Nodes /\ failedTasks \subseteq 1 .. tasks
  BY AgentUpdatesAssumption DEF RolloutInv, Tables, RowTypes, TaskIds
<1>4. Calm => AloneInv /\ Alone(s) /\ StepOK(c)
  BY <1>2, IsAlone DEF RolloutInv, AloneInv
<1> QED
  BY <1>1, <1>2, <1>3, <1>4 DEF RolloutInv

LEMMA GotoStep ==
    ASSUME Handlers, NEW s \in Slots, NEW c, c = slot[s], NEW pc \in Pcs, Goto(s, pc)
    PROVE  /\ \E d \in HandlerStates :
                /\ slot' = [slot EXCEPT ![s] = d]
                /\ Is(d, c.op, pc, c.r, c.rent, c.n, c.tent, c.nodes, c.ver, c.report,
                      c.todo)
           /\ calls' = calls /\ overlapped' = overlapped
<1>1. PICK d : d = [c EXCEPT !.pc = pc]
  OBVIOUS
<1>2. slot' = [slot EXCEPT ![s] = d]
  BY <1>1 DEF Goto
<1>3. c \in HandlerStates
  BY DEF Handlers
<1> QED
  BY <1>1, <1>2, <1>3, PcChanges DEF Goto

LEMMA EnterStep ==
    ASSUME Handlers, NEW s \in Slots, NEW c, c = slot[s], NEW pc \in Pcs,
           NEW r \in Rollouts, NEW n \in Nodes, NEW ent \in Targets, Enter(s, pc, r, n, ent)
    PROVE  /\ \E d \in HandlerStates :
                /\ slot' = [slot EXCEPT ![s] = d]
                /\ d.op \in {"monitor", "call"}
                /\ Is(d, d.op, pc, r, "none", n, ent, {}, FirstVersion, "none", c.todo)
           /\ calls' = calls /\ overlapped' = overlapped
<1>1. PICK op : op = IF c.op = "monitor" THEN "monitor" ELSE "call"
  OBVIOUS
<1>2. PICK d : d = [Idle EXCEPT !.op = op, !.pc = pc, !.r = r, !.n = n, !.tent = ent,
                                !.todo = c.todo]
  OBVIOUS
<1>3. slot' = [slot EXCEPT ![s] = d]
  BY <1>1, <1>2, Zenon DEF Enter
<1>4. d = [op |-> op, pc |-> pc, r |-> r, rent |-> "none", n |-> n, tent |-> ent,
           nodes |-> {}, ver |-> FirstVersion, report |-> "none", todo |-> c.todo]
  BY <1>2 DEF Idle
<1>5. c.todo \in SUBSET Entries
  BY DEF Handlers, HandlerStates
<1>6. d \in HandlerStates
  BY <1>1, <1>4, <1>5 DEF HandlerStates, Ops, RolloutStatuses
<1>7. d.op = op /\ Is(d, op, pc, r, "none", n, ent, {}, FirstVersion, "none", c.todo)
  BY <1>4 DEF Is
<1> QED
  BY <1>1, <1>3, <1>6, <1>7 DEF Enter

\* The end of a handler: the monitor may have other entries of its list to do.
LEMMA EndStep ==
    ASSUME Tables, Handlers, NEW s \in Slots, NEW c, c = slot[s], c.pc # "idle",
           End(s), Grows(s), tasks' \in Nat
    PROVE  /\ Handlers' /\ calls' = calls /\ overlapped' = overlapped
           /\ c.todo = {} => slot' = [slot EXCEPT ![s] = Idle]
<1>1. calls' = calls /\ overlapped' = overlapped
  BY DEF End
<1>2. CASE ~(c.op = "monitor" /\ c.todo # {})
  <2>1. slot' = [slot EXCEPT ![s] = Idle]
    BY <1>2 DEF End
  <2> QED
    BY <1>1, <2>1, HandlersEnd
<1>3. CASE c.op = "monitor" /\ c.todo # {}
  <2>1. PICK d : d = [c EXCEPT !.pc = "each"]
    OBVIOUS
  <2>2. slot' = [slot EXCEPT ![s] = d]
    BY <1>3, <2>1 DEF End
  <2>3. HandlerOK(c) /\ c \in HandlerStates
    BY DEF Handlers, HandlerOK
  <2>4. Is(d, c.op, "each", c.r, c.rent, c.n, c.tent, c.nodes, c.ver, c.report, c.todo)
        /\ d \in HandlerStates
    BY <2>1, <2>3, PcChanges DEF Pcs
  <2>5. c.tent.task \in Nat /\ tasks \in Nat
        /\ \A e \in c.todo : e.r \in Rollouts /\ e.tent.task \in Nat
    BY <2>3, AgentUpdatesAssumption
       DEF HandlerStates, Targets, TaskIds, Tables, RowTypes, Entries
  <2>6. HandlerOK(d)'
    BY <1>3, <2>3, <2>4, <2>5 DEF HandlerOK, Is, Grows
  <2>7. d.r = c.r
    BY <2>4 DEF Is
  <2> QED
    BY <1>1, <1>3, <2>2, <2>6, <2>7, HandlersStep
<1> QED
  BY <1>2, <1>3

\* A handler that only reads goes on ...
LEMMA GoOn ==
    ASSUME RolloutInv, NEW s \in Slots, NEW c, c = slot[s], c.pc # "idle",
           NEW d, slot' = [slot EXCEPT ![s] = d], d.r = c.r, HandlerOK(d)',
           UNCHANGED <<calls, overlapped, rowVars, tasks, given, nodeVars, faults, reported>>,
           failedTasks' \subseteq 1 .. tasks, Calm /\ StepOK(c) => StepOK(d)'
    PROVE  RolloutInv'
<1>1. /\ Handlers /\ Tables /\ calls \in Nat /\ overlapped \in BOOLEAN /\ faults \in Nat
      /\ tasks \in Nat /\ overdue \subseteq Rollouts \X Nodes
      /\ Calm => AloneInv /\ Alone(s) /\ StepOK(c)
  BY Running
<1>2. /\ UNCHANGED <<rollout, aim, target, overdue, tasks, given, reported, calls,
                    overlapped, faults, nodeVars>>
  BY DEF rowVars
<1>3. Tables'
  BY <1>1, <1>2, NothingSaved
<1>4. Grows(s) /\ tasks' \in Nat
  BY <1>1, <1>2 DEF Grows
<1>5. Handlers'
  BY <1>1, <1>4, HandlersStep
<1>6. \A q \in Rollouts : Untouched(q)
  BY <1>2 DEF Untouched
<1>7. Calm' => AloneInv'
  <2> SUFFICES ASSUME Calm' PROVE AloneInv'
    OBVIOUS
  <2>1. Calm
    BY DEF Calm
  <2> QED
    BY <1>1, <1>6, <2>1, AloneGo, UntouchedStays
<1> QED
  BY <1>3, <1>5, <1>7 DEF RolloutInv

\* ... or ends.
LEMMA LetGo ==
    ASSUME RolloutInv, NEW s \in Slots, NEW c, c = slot[s], c.pc # "idle", End(s),
           UNCHANGED <<rowVars, tasks, given, nodeVars, faults, reported>>,
           failedTasks' \subseteq 1 .. tasks,
           Calm /\ StepOK(c) => c.todo = {} /\ (c.r \in Rollouts => Settled(c.r))
    PROVE  RolloutInv'
<1>1. /\ Handlers /\ Tables /\ calls \in Nat /\ overlapped \in BOOLEAN /\ faults \in Nat
      /\ tasks \in Nat /\ overdue \subseteq Rollouts \X Nodes
      /\ Calm => AloneInv /\ Alone(s) /\ StepOK(c)
  BY Running
<1>2. /\ UNCHANGED <<rollout, aim, target, overdue, tasks, given, reported, faults, nodeVars>>
  BY DEF rowVars
<1>3. Grows(s) /\ tasks' \in Nat
  BY <1>1, <1>2 DEF Grows
<1>4. /\ Handlers' /\ calls' = calls /\ overlapped' = overlapped
      /\ c.todo = {} => slot' = [slot EXCEPT ![s] = Idle]
  BY <1>1, <1>3, EndStep
<1>5. Tables'
  BY <1>1, <1>2, <1>4, NothingSaved
<1>6. \A q \in Rollouts : Untouched(q)
  BY <1>2 DEF Untouched
<1>7. Calm' => AloneInv'
  <2> SUFFICES ASSUME Calm' PROVE AloneInv'
    OBVIOUS
  <2>1. Calm
    BY <1>2, <1>4 DEF Calm
  <2> QED
    BY <1>1, <1>4, <1>6, <2>1, AloneEnd, UntouchedStays
<1> QED
  BY <1>4, <1>5, <1>7 DEF RolloutInv

\* A handler goes on with the same rollout.
LEMMA Proceed ==
    ASSUME RolloutInv, NEW s \in Slots, NEW c, c = slot[s], c.pc # "idle",
           NEW d, slot' = [slot EXCEPT ![s] = d], d.r = c.r,
           Tables', Grows(s), HandlerOK(d)', UNCHANGED <<faults, overlapped>>,
           Calm /\ AloneInv /\ StepOK(c) =>
             /\ StepOK(d)'
             /\ \A q \in Rollouts \ {c.r} : Untouched(q)
             /\ c.r \in Rollouts /\ Open(c.r)' => Open(c.r)
    PROVE  RolloutInv'
<1>1. Handlers /\ (Calm => AloneInv /\ Alone(s) /\ StepOK(c))
  BY Running
<1>2. tasks' \in Nat
  BY AgentUpdatesAssumption DEF Tables, RowTypes, TaskIds
<1>3. Handlers'
  BY <1>1, <1>2, HandlersStep DEF RolloutInv
<1>4. Calm' => AloneInv'
  <2> SUFFICES ASSUME Calm' PROVE AloneInv'
    OBVIOUS
  <2>1. Calm
    BY DEF Calm
  <2> QED
    BY <1>1, <2>1, AloneGo
<1> QED
  BY <1>3, <1>4 DEF RolloutInv

\* A handler ends.
LEMMA Finish ==
    ASSUME RolloutInv, NEW s \in Slots, NEW c, c = slot[s], c.pc # "idle",
           End(s), Tables', Grows(s), faults' = faults,
           Calm /\ AloneInv /\ StepOK(c) =>
             /\ c.todo = {}
             /\ \A q \in Rollouts \ {c.r} : Untouched(q)
             /\ c.r \in Rollouts => Settled(c.r)'
             /\ c.r \in Rollouts /\ Open(c.r)' => Open(c.r)
    PROVE  RolloutInv'
<1>1. Tables /\ Handlers /\ (Calm => AloneInv /\ Alone(s) /\ StepOK(c))
  BY Running
<1>2. tasks' \in Nat
  BY AgentUpdatesAssumption DEF Tables, RowTypes, TaskIds
<1>3. /\ Handlers' /\ overlapped' = overlapped
      /\ c.todo = {} => slot' = [slot EXCEPT ![s] = Idle]
  BY <1>1, <1>2, EndStep
<1>4. Calm' => AloneInv'
  <2> SUFFICES ASSUME Calm' PROVE AloneInv'
    OBVIOUS
  <2>1. Calm
    BY <1>3 DEF Calm
  <2> QED
    BY <1>1, <1>3, <2>1, AloneEnd
<1> QED
  BY <1>3, <1>4 DEF RolloutInv

\* What a handler carries along stays well-formed.
LEMMA Carried ==
    ASSUME Tables, NEW s \in Slots, NEW c, HandlerOK(c), Grows(s), Tables'
    PROVE  /\ c.tent.task <= tasks'
           /\ \A e \in c.todo : e.tent.task <= tasks' /\ rollout'[e.r] # "none"
<1>1. /\ c.tent.task \in Nat /\ tasks \in Nat /\ tasks' \in Nat
      /\ \A e \in c.todo : e.r \in Rollouts /\ e.tent.task \in Nat
  BY AgentUpdatesAssumption
     DEF HandlerOK, HandlerStates, Targets, TaskIds, Tables, RowTypes, Entries
<1> QED
  BY <1>1 DEF HandlerOK, Grows

-----------------------------------------------------------------------------
(* Operators.                                                                *)

LEMMA InsertRolloutInv ==
    ASSUME RolloutInv, NEW s \in Slots, InsertRollout(s)
    PROVE  RolloutInv'
<1>1. PICK c : c = slot[s]
  OBVIOUS
<1>2. /\ c.pc = "insert" /\ c.pc # "idle"
      /\ UNCHANGED <<target, overdue, taskVars, nodeVars, faults, reported>>
      /\ UNCHANGED <<tasks, given, version>>
  BY <1>1 DEF InsertRollout, At, taskVars, nodeVars
<1>3. /\ Tables /\ Handlers /\ HandlerOK(c) /\ c \in HandlerStates
      /\ calls \in Nat /\ overlapped \in BOOLEAN /\ faults \in Nat /\ tasks \in Nat
      /\ overdue \subseteq Rollouts \X Nodes /\ failedTasks \subseteq 1 .. tasks
  BY <1>1, <1>2, Running
<1>4. c.r \in Rollouts /\ rollout[c.r] = "none"
  BY <1>2, <1>3 DEF HandlerOK
<1>5. \A n \in Nodes : target[c.r][n] = NoTarget /\ <<c.r, n>> \notin given
  BY <1>3, <1>4 DEF Tables
<1>6. CASE End(s) /\ UNCHANGED <<rollout, aim>>
  <2>1. Grows(s) /\ \A q \in Rollouts : Untouched(q)
    BY <1>2, <1>3, <1>6 DEF Grows, Untouched
  <2>2. Tables'
    BY <1>2, <1>3, <1>6, NothingSaved DEF End, taskVars
  <2>3. Settled(c.r)' /\ (Open(c.r)' => Open(c.r))
    <3>1. rollout'[c.r] = "none" /\ \A n \in Nodes : target'[c.r][n] = NoTarget
      BY <1>2, <1>4, <1>5, <1>6
    <3> QED
      BY <3>1 DEF Settled, OneInOrder, NoneGiven, Open, Live, Pending, Busy, Failed, Active, NoTarget
  <2>4. StepOK(c) => c.todo = {}
    BY <1>2 DEF StepOK
  <2> QED
    BY <1>1, <1>2, <1>6, <2>1, <2>2, <2>3, <2>4, Finish
<1>7. CASE /\ SaveRollout(c.r, "queued") /\ aim' = [aim EXCEPT ![c.r] = c.ver]
           /\ Goto(s, "targets")
  <2>1. PICK d \in HandlerStates :
           /\ slot' = [slot EXCEPT ![s] = d]
           /\ Is(d, c.op, "targets", c.r, c.rent, c.n, c.tent, c.nodes, c.ver, c.report,
                 c.todo)
           /\ calls' = calls /\ overlapped' = overlapped
    BY <1>1, <1>3, <1>7, GotoStep DEF Pcs
  <2>2. /\ rollout' \in [Rollouts -> RolloutStatuses] /\ rollout'[c.r] = "queued"
        /\ \A q \in Rollouts \ {c.r} : rollout'[q] = rollout[q]
    BY <1>3, <1>4, <1>7 DEF SaveRollout, Tables, RowTypes, RolloutStatuses
  <2>3. /\ aim' \in [Rollouts -> Versions \cup {FirstVersion}]
        /\ \A q \in Rollouts \ {c.r} : aim'[q] = aim[q]
    BY <1>3, <1>4, <1>7 DEF HandlerStates, Tables, RowTypes
  <2>4. Tables'
    <3>1. RowTypes'
      BY <1>2, <1>3, <2>1, <2>2, <2>3 DEF Tables, RowTypes, taskVars, nodeVars
    <3>2. ASSUME NEW r \in Rollouts, NEW n \in Nodes
          PROVE  /\ target[r][n].status = "completed" => <<n, aim'[r]>> \in reported
                 /\ rollout'[r] = "none" => target[r][n] = NoTarget /\ <<r, n>> \notin given
                 /\ target[r][n].task <= tasks
      <4>1. CASE r = c.r
        BY <1>3, <1>5, <4>1 DEF NoTarget
      <4>2. CASE r # c.r
        BY <1>3, <2>2, <2>3, <4>2 DEF Tables, CompletedWasReported
      <4> QED
        BY <4>1, <4>2
    <3>3. CompletedWasReported'
      BY <1>2, <3>2 DEF CompletedWasReported
    <3> QED
      BY <1>2, <1>3, <3>1, <3>2, <3>3 DEF Tables
  <2>5. Grows(s)
    BY <1>1, <1>2, <1>3, <1>4, <2>2, <2>3 DEF Grows
  <2>6. HandlerOK(d)'
    <3>1. c.tent.task <= tasks' /\ \A e \in c.todo : e.tent.task <= tasks' /\ rollout'[e.r] # "none"
      BY <1>3, <2>4, <2>5, Carried
    <3> QED
      BY <1>2, <1>3, <1>4, <2>1, <2>2, <3>1 DEF HandlerOK, Is
  <2>7. d.r = c.r /\ d.pc = "targets" /\ d.todo = c.todo
    BY <2>1 DEF Is
  <2>8. \A q \in Rollouts \ {c.r} : Untouched(q)
    BY <1>2, <2>2 DEF Untouched
  <2>9. ASSUME Calm' PROVE AloneInv'
    <3>1. AloneInv /\ Alone(s) /\ StepOK(c)
      BY <1>1, <1>2, <2>1, <2>9, Running DEF Calm
    <3>2. c.todo = {} /\ \A q \in Rollouts : ~Open(q)
      BY <1>2, <3>1 DEF StepOK
    <3>3. \A q, r \in Rollouts : Open(q)' /\ Open(r)' => q = r
      BY <2>8, <3>2, UntouchedStays
    <3>4. StepOK(d)'
      BY <1>2, <1>5, <2>2, <2>7, <3>2 DEF StepOK
    <3> QED
      BY <1>1, <1>3, <2>1, <2>7, <2>8, <3>1, <3>3, <3>4, AloneStep
  <2>10. Handlers'
    BY <1>1, <1>2, <1>3, <2>1, <2>5, <2>6, <2>7, HandlersStep
  <2> QED
    BY <2>4, <2>9, <2>10 DEF RolloutInv
<1> QED
  BY <1>1, <1>2, <1>6, <1>7 DEF InsertRollout

LEMMA InsertTargetsInv ==
    ASSUME RolloutInv, NEW s \in Slots, InsertTargets(s)
    PROVE  RolloutInv'
<1>1. PICK c : c = slot[s]
  OBVIOUS
<1>2. /\ c.pc = "targets" /\ c.pc # "idle" /\ Goto(s, "restart")
      /\ target' = [target EXCEPT ![c.r] = [n \in Nodes |->
                      IF n \in c.nodes THEN [status |-> "pending", task |-> 0]
                      ELSE NoTarget]]
      /\ UNCHANGED <<rollout, aim, overdue, taskVars, nodeVars, faults, reported>>
      /\ UNCHANGED <<tasks, given, version>>
  BY <1>1 DEF InsertTargets, At, taskVars, nodeVars
<1>3. /\ Tables /\ Handlers /\ HandlerOK(c) /\ c \in HandlerStates
      /\ calls \in Nat /\ overlapped \in BOOLEAN /\ tasks \in Nat
  BY <1>1, <1>2, Running
<1>4. c.r \in Rollouts /\ rollout[c.r] # "none"
  BY <1>2, <1>3 DEF HandlerOK
<1>5. PICK d \in HandlerStates :
         /\ slot' = [slot EXCEPT ![s] = d]
         /\ Is(d, c.op, "restart", c.r, c.rent, c.n, c.tent, c.nodes, c.ver, c.report,
               c.todo)
         /\ calls' = calls /\ overlapped' = overlapped
  BY <1>1, <1>2, <1>3, GotoStep DEF Pcs
<1>6. PICK new : new = [n \in Nodes |->
                          IF n \in c.nodes THEN [status |-> "pending", task |-> 0]
                          ELSE NoTarget]
  OBVIOUS
<1>7. \A n \in Nodes : /\ new[n] \in Targets /\ new[n].task = 0
                       /\ new[n].status \in {"pending", "none"}
  BY <1>6, IdleOK DEF Targets, TargetStatuses, NoTarget
<1>8. /\ target' \in [Rollouts -> [Nodes -> Targets]] /\ target'[c.r] = new
      /\ \A q \in Rollouts \ {c.r} : target'[q] = target[q]
  BY <1>2, <1>3, <1>4, <1>6, <1>7 DEF Tables, RowTypes
<1>9. Tables'
  <2>1. RowTypes'
    BY <1>2, <1>3, <1>5, <1>8 DEF Tables, RowTypes, taskVars, nodeVars
  <2>2. ASSUME NEW r \in Rollouts, NEW n \in Nodes
        PROVE  /\ target'[r][n].status = "completed" => <<n, aim[r]>> \in reported
               /\ rollout[r] = "none" => target'[r][n] = NoTarget /\ <<r, n>> \notin given
               /\ target'[r][n].task <= tasks
    <3>1. CASE r = c.r
      BY <1>3, <1>4, <1>7, <1>8, <3>1
    <3>2. CASE r # c.r
      BY <1>3, <1>8, <3>2 DEF Tables, CompletedWasReported
    <3> QED
      BY <3>1, <3>2
  <2>3. CompletedWasReported'
    BY <1>2, <2>2 DEF CompletedWasReported
  <2> QED
    BY <1>2, <1>3, <2>1, <2>2, <2>3 DEF Tables
<1>10. Grows(s)
  BY <1>2, <1>3 DEF Grows
<1>11. HandlerOK(d)'
  BY <1>2, <1>3, <1>4, <1>5 DEF HandlerOK, Is
<1>12. d.r = c.r /\ d.pc = "restart" /\ d.todo = c.todo
  BY <1>5 DEF Is
<1>13. \A q \in Rollouts \ {c.r} : Untouched(q)
  BY <1>2, <1>8 DEF Untouched
<1>14. ASSUME StepOK(c) PROVE StepOK(d)' /\ Open(c.r)
  <2>1. /\ c.todo = {} /\ rollout[c.r] = "queued"
        /\ \A n \in Nodes : <<c.r, n>> \notin given
    BY <1>2, <1>14 DEF StepOK
  <2>2. Ready(c.r)'
    BY <1>2, <1>7, <1>8, <2>1 DEF Ready, OneInOrder, Pending, Busy, Failed, Active
  <2> QED
    BY <1>2, <1>12, <2>1, <2>2 DEF StepOK, Open
<1> QED
  BY <1>1, <1>2, <1>5, <1>9, <1>10, <1>11, <1>12, <1>13, <1>14, Proceed

LEMMA SetRolloutRunningInv ==
    ASSUME RolloutInv, NEW s \in Slots, SetRolloutRunning(s)
    PROVE  RolloutInv'
<1>1. PICK c : c = slot[s]
  OBVIOUS
<1>2. /\ c.pc = "restart" /\ c.pc # "idle" /\ SaveRollout(c.r, "running")
      /\ Enter(s, "load", c.r, 1, NoTarget)
      /\ UNCHANGED <<aim, target, overdue, taskVars, nodeVars, faults, reported>>
      /\ UNCHANGED <<tasks, given, version>>
  BY <1>1 DEF SetRolloutRunning, At, taskVars, nodeVars
<1>3. /\ Tables /\ Handlers /\ HandlerOK(c) /\ c \in HandlerStates
      /\ calls \in Nat /\ overlapped \in BOOLEAN /\ tasks \in Nat
  BY <1>1, <1>2, Running
<1>4. c.r \in Rollouts /\ rollout[c.r] # "none"
  BY <1>2, <1>3 DEF HandlerOK
<1>5. PICK d \in HandlerStates :
         /\ slot' = [slot EXCEPT ![s] = d]
         /\ Is(d, d.op, "load", c.r, "none", 1, NoTarget, {}, FirstVersion, "none", c.todo)
         /\ calls' = calls /\ overlapped' = overlapped
  BY <1>1, <1>2, <1>3, <1>4, IdleOK, EnterStep DEF Pcs
<1>6. /\ Tables' /\ rollout'[c.r] = "running"
      /\ \A q \in Rollouts \ {c.r} : rollout'[q] = rollout[q]
  BY <1>2, <1>3, <1>4, <1>5, RolloutSaved DEF RolloutStatuses
<1>7. Grows(s)
  BY <1>2, <1>3, <1>4, <1>6 DEF Grows
<1>8. d.r = c.r /\ d.pc = "load" /\ d.todo = c.todo /\ d.tent = NoTarget
  BY <1>5 DEF Is
<1>9. HandlerOK(d)'
  <2>1. \A e \in c.todo : e.tent.task <= tasks' /\ rollout'[e.r] # "none"
    BY <1>3, <1>6, <1>7, Carried
  <2> QED
    BY <1>2, <1>3, <1>4, <1>6, <1>8, <2>1 DEF HandlerOK, NoTarget
<1>10. \A q \in Rollouts \ {c.r} : Untouched(q)
  BY <1>2, <1>6 DEF Untouched
<1>11. ASSUME StepOK(c) PROVE StepOK(d)' /\ Open(c.r)
  <2>1. c.todo = {} /\ Open(c.r) /\ Ready(c.r)
    BY <1>2, <1>11 DEF StepOK, Open
  <2>2. Ready(c.r)'
    BY <1>2, <2>1 DEF Ready, OneInOrder, Pending, Busy, Failed
  <2> QED
    BY <1>6, <1>8, <2>1, <2>2 DEF StepOK
<1> QED
  BY <1>1, <1>2, <1>5, <1>6, <1>7, <1>8, <1>9, <1>10, <1>11, Proceed

LEMMA SaveReviewedInv ==
    ASSUME RolloutInv, NEW s \in Slots, SaveReviewed(s)
    PROVE  RolloutInv'
<1>1. PICK c : c = slot[s]
  OBVIOUS
<1>2. PICK ent : ent = IF c.op = "retry" THEN [status |-> "pending", task |-> 0]
                       ELSE [c.tent EXCEPT !.status = "skipped"]
  OBVIOUS
<1>3. /\ c.pc = "review" /\ c.pc # "idle" /\ SaveTarget(c.r, c.n, ent)
      /\ Goto(s, "restart")
      /\ UNCHANGED <<rollout, aim, taskVars, nodeVars, faults, reported>>
      /\ UNCHANGED <<tasks, given, version>>
  BY <1>1, <1>2, Zenon DEF SaveReviewed, At, taskVars, nodeVars
<1>4. /\ Tables /\ Handlers /\ HandlerOK(c) /\ c \in HandlerStates
      /\ calls \in Nat /\ overlapped \in BOOLEAN /\ tasks \in Nat
  BY <1>1, <1>3, Running
<1>5. c.r \in Rollouts /\ rollout[c.r] # "none" /\ c.n \in Nodes /\ c.tent \in Targets
      /\ c.tent.task <= tasks
  BY <1>3, <1>4 DEF HandlerOK, HandlerStates
<1>6. ent \in Targets /\ ent.status \in {"pending", "skipped"} /\ ent.task <= tasks
  <2>1. CASE c.op = "retry"
    BY <1>2, <1>4, <2>1, IdleOK DEF Targets, TargetStatuses
  <2>2. CASE c.op # "retry"
    BY <1>2, <1>5, <2>2, StatusSaved DEF TargetStatuses, Ended
  <2> QED
    BY <2>1, <2>2
<1>7. PICK d \in HandlerStates :
         /\ slot' = [slot EXCEPT ![s] = d]
         /\ Is(d, c.op, "restart", c.r, c.rent, c.n, c.tent, c.nodes, c.ver, c.report,
               c.todo)
         /\ calls' = calls /\ overlapped' = overlapped
  BY <1>1, <1>3, <1>4, GotoStep DEF Pcs
<1>8. /\ Tables' /\ target'[c.r][c.n] = ent
      /\ \A m \in Nodes \ {c.n} : target'[c.r][m] = target[c.r][m]
      /\ \A q \in Rollouts \ {c.r} : target'[q] = target[q]
  BY <1>3, <1>4, <1>5, <1>6, <1>7, TargetSaved
<1>9. Grows(s)
  BY <1>3, <1>4 DEF Grows
<1>10. HandlerOK(d)'
  BY <1>3, <1>4, <1>5, <1>7 DEF HandlerOK, Is
<1>11. d.r = c.r /\ d.pc = "restart" /\ d.todo = c.todo
  BY <1>7 DEF Is
<1>12. \A q \in Rollouts \ {c.r} : Untouched(q)
  BY <1>3, <1>8 DEF Untouched
<1>13. ASSUME StepOK(c) PROVE StepOK(d)' /\ Open(c.r)
  <2>1. c.todo = {} /\ rollout[c.r] = "paused" /\ c.n \in Failed(c.r) /\ Settled(c.r)
    BY <1>3, <1>13 DEF StepOK
  <2>2. Busy(c.r) = {} /\ Failed(c.r) = {c.n}
    BY <2>1 DEF Settled, OneInOrder, Busy, Failed, Active
  <2>3. /\ Busy(c.r)' = {} /\ Failed(c.r)' = {}
        /\ Pending(c.r)' \subseteq Pending(c.r) \cup {c.n}
    BY <1>5, <1>6, <1>8, <2>2 DEF Pending, Busy, Failed, Active
  <2>4. \A m \in Pending(c.r) : m \in Nodes /\ c.n < m /\ <<c.r, m>> \notin given
    BY <2>1 DEF Settled, OneInOrder, NoneGiven, Pending
  <2>5. Ready(c.r)'
    <3>1. ASSUME NEW m \in Pending(c.r)', <<c.r, m>> \in given', NEW k \in Pending(c.r)'
          PROVE  m <= k
      <4>1. m = c.n
        BY <1>3, <2>3, <2>4, <3>1
      <4>2. k = c.n \/ (k \in Nodes /\ c.n < k)
        BY <2>3, <2>4
      <4> QED
        BY <1>5, <4>1, <4>2, NodeNumbers
    <3>2. OneInOrder(c.r)'
      BY <2>3 DEF OneInOrder
    <3> QED
      BY <2>3, <3>1, <3>2 DEF Ready
  <2> QED
    BY <1>3, <1>11, <2>1, <2>5 DEF StepOK, Open
<1> QED
  BY <1>1, <1>3, <1>7, <1>8, <1>9, <1>10, <1>11, <1>12, <1>13, Proceed

LEMMA SaveCancelledInv ==
    ASSUME RolloutInv, NEW s \in Slots, SaveCancelled(s)
    PROVE  RolloutInv'
<1>1. PICK c : c = slot[s]
  OBVIOUS
<1>2. /\ c.pc = "cancel" /\ c.pc # "idle" /\ SaveRollout(c.r, "cancelled") /\ Goto(s, "list")
      /\ UNCHANGED <<aim, target, overdue, taskVars, nodeVars, faults, reported>>
      /\ UNCHANGED <<tasks, given, version>>
  BY <1>1 DEF SaveCancelled, At, taskVars, nodeVars
<1>3. /\ Tables /\ Handlers /\ HandlerOK(c) /\ c \in HandlerStates
      /\ calls \in Nat /\ overlapped \in BOOLEAN /\ tasks \in Nat
  BY <1>1, <1>2, Running
<1>4. c.r \in Rollouts /\ rollout[c.r] # "none"
  BY <1>2, <1>3 DEF HandlerOK
<1>5. PICK d \in HandlerStates :
         /\ slot' = [slot EXCEPT ![s] = d]
         /\ Is(d, c.op, "list", c.r, c.rent, c.n, c.tent, c.nodes, c.ver, c.report,
               c.todo)
         /\ calls' = calls /\ overlapped' = overlapped
  BY <1>1, <1>2, <1>3, GotoStep DEF Pcs
<1>6. /\ Tables' /\ rollout'[c.r] = "cancelled"
      /\ \A q \in Rollouts \ {c.r} : rollout'[q] = rollout[q]
  BY <1>2, <1>3, <1>4, <1>5, RolloutSaved DEF RolloutStatuses
<1>7. Grows(s)
  BY <1>2, <1>3, <1>4, <1>6 DEF Grows
<1>8. d.r = c.r /\ d.pc = "list" /\ d.todo = c.todo /\ d.tent = c.tent
  BY <1>5 DEF Is
<1>9. HandlerOK(d)'
  <2>1. c.tent.task <= tasks' /\ \A e \in c.todo : e.tent.task <= tasks' /\ rollout'[e.r] # "none"
    BY <1>3, <1>6, <1>7, Carried
  <2> QED
    BY <1>2, <1>3, <1>4, <1>6, <1>8, <2>1 DEF HandlerOK
<1>10. \A q \in Rollouts \ {c.r} : Untouched(q)
  BY <1>2, <1>6 DEF Untouched
<1>11. ASSUME StepOK(c) PROVE StepOK(d)' /\ Open(c.r)
  <2>1. c.todo = {} /\ Open(c.r) /\ Settled(c.r)
    BY <1>2, <1>11 DEF StepOK
  <2>2. OneInOrder(c.r)' /\ NoneGiven(c.r)'
    BY <1>2, <2>1 DEF Settled, NoneGiven, OneInOrder, Pending, Busy, Failed
  <2> QED
    BY <1>6, <1>8, <2>1, <2>2 DEF StepOK
<1> QED
  BY <1>1, <1>2, <1>5, <1>6, <1>7, <1>8, <1>9, <1>10, <1>11, Proceed

\* The entries that a list of targets is made of.
LEMMA EntryOK ==
    ASSUME Tables, NEW r \in Rollouts, NEW n \in Nodes
    PROVE  /\ Entry(r, n) \in Entries
           /\ Entry(r, n).r = r /\ Entry(r, n).n = n /\ Entry(r, n).tent = target[r][n]
           /\ Entry(r, n).tent.task <= tasks
<1>1. target[r][n] \in Targets /\ target[r][n].task <= tasks
  BY TargetRow
<1>2. PICK late \in BOOLEAN : late = (<<r, n>> \in overdue)
  <2>1. (<<r, n>> \in overdue) \in BOOLEAN
    OBVIOUS
  <2> QED
    BY <2>1, Zenon
<1>3. PICK failed \in BOOLEAN : failed = (target[r][n].task \in failedTasks)
  <2>1. (target[r][n].task \in failedTasks) \in BOOLEAN
    OBVIOUS
  <2> QED
    BY <2>1, Zenon
<1>4. Entry(r, n) = [r |-> r, n |-> n, tent |-> target[r][n], late |-> late,
                     failed |-> failed]
  BY <1>2, <1>3, Zenon DEF Entry
<1> QED
  BY <1>1, <1>4 DEF Entries

LEMMA ListTargetsInv ==
    ASSUME RolloutInv, NEW s \in Slots, ListTargets(s)
    PROVE  RolloutInv'
<1>1. PICK c : c = slot[s]
  OBVIOUS
<1>2. PICK list : list = {Entry(c.r, n) : n \in Cancellable(c.r)}
  OBVIOUS
<1>3. PICK d : d = [c EXCEPT !.pc = "canceleach", !.todo = list]
  OBVIOUS
<1>4. /\ c.pc = "list" /\ c.pc # "idle" /\ slot' = [slot EXCEPT ![s] = d]
      /\ UNCHANGED <<calls, overlapped, rowVars, taskVars, nodeVars, faults, reported>>
      /\ UNCHANGED <<tasks, given, failedTasks, target, rollout>>
  BY <1>1, <1>2, <1>3 DEF ListTargets, At, taskVars, rowVars
<1>5. /\ Tables /\ Handlers /\ HandlerOK(c) /\ c \in HandlerStates
      /\ failedTasks \subseteq 1 .. tasks
  BY <1>1, <1>4, Running
<1>6. c.r \in Rollouts /\ rollout[c.r] # "none" /\ c.tent \in Targets
  BY <1>4, <1>5 DEF HandlerOK, HandlerStates
<1>7. \A n \in Nodes : /\ Entry(c.r, n) \in Entries /\ Entry(c.r, n).r = c.r
                       /\ Entry(c.r, n).n = n /\ Entry(c.r, n).tent.task <= tasks
  BY <1>5, <1>6, EntryOK
<1>8. list \in SUBSET Entries /\ \A e \in list : e.r = c.r /\ e.tent.task <= tasks
  BY <1>2, <1>7 DEF Cancellable
<1>9. /\ d \in HandlerStates
      /\ Is(d, c.op, "canceleach", c.r, c.rent, c.n, c.tent, c.nodes, c.ver, c.report, list)
  BY <1>3, <1>5, <1>6, <1>8, ListTaken DEF Pcs
<1>10. d.r = c.r /\ d.pc = "canceleach" /\ d.todo = list /\ d.tent = c.tent
  BY <1>9 DEF Is
<1>11. HandlerOK(d)'
  BY <1>4, <1>5, <1>6, <1>8, <1>9, <1>10 DEF HandlerOK
<1>12. ASSUME StepOK(c) PROVE StepOK(d)'
  <2>1. rollout[c.r] = "cancelled" /\ OneInOrder(c.r) /\ NoneGiven(c.r)
    BY <1>4, <1>12 DEF StepOK
  <2>2. \A n \in Live(c.r) : n \in Cancellable(c.r) /\ n \in Nodes
    BY DEF Live, Pending, Busy, Cancellable
  <2>3. \A n \in Live(c.r) : \E e \in list : e.n = n
    BY <1>2, <1>7, <2>2
  <2>4. Cancelling(c.r, list)
    BY <1>8, <2>1, <2>3 DEF Cancelling
  <2>5. Cancelling(c.r, list)'
    BY <1>4, <2>4
       DEF Cancelling, Live, OneInOrder, NoneGiven, Pending, Busy, Failed
  <2> QED
    BY <1>10, <2>5 DEF StepOK
<1> QED
  BY <1>1, <1>4, <1>5, <1>10, <1>11, <1>12, GoOn

LEMMA CancelTaskInv ==
    ASSUME RolloutInv, NEW s \in Slots, CancelTask(s)
    PROVE  RolloutInv'
<1>1. PICK c : c = slot[s]
  OBVIOUS
<1>2. /\ c.pc = "canceltask" /\ c.pc # "idle" /\ Goto(s, "canceleach")
      /\ failedTasks' \in {failedTasks, failedTasks \cup {c.tent.task}}
      /\ UNCHANGED <<rowVars, tasks, given, nodeVars, faults, reported>>
      /\ UNCHANGED <<target, rollout>>
  BY <1>1 DEF CancelTask, At, rowVars
<1>3. /\ Tables /\ Handlers /\ HandlerOK(c) /\ c \in HandlerStates
      /\ tasks \in Nat /\ failedTasks \subseteq 1 .. tasks
  BY <1>1, <1>2, Running
<1>4. c.r \in Rollouts /\ rollout[c.r] # "none" /\ c.tent.task \in 1 .. tasks
  BY <1>2, <1>3, AgentUpdatesAssumption DEF HandlerOK, HandlerStates, Targets, TaskIds
<1>5. failedTasks' \subseteq 1 .. tasks
  BY <1>2, <1>3, <1>4
<1>6. PICK d \in HandlerStates :
         /\ slot' = [slot EXCEPT ![s] = d]
         /\ Is(d, c.op, "canceleach", c.r, c.rent, c.n, c.tent, c.nodes, c.ver, c.report,
               c.todo)
         /\ calls' = calls /\ overlapped' = overlapped
  BY <1>1, <1>2, <1>3, GotoStep DEF Pcs
<1>7. d.r = c.r /\ d.pc = "canceleach" /\ d.todo = c.todo /\ d.tent = c.tent
  BY <1>6 DEF Is
<1>8. HandlerOK(d)'
  BY <1>2, <1>3, <1>4, <1>6, <1>7 DEF HandlerOK
<1>9. ASSUME StepOK(c) PROVE StepOK(d)'
  <2>1. Cancelling(c.r, c.todo)
    BY <1>2, <1>9 DEF StepOK
  <2>2. Cancelling(c.r, c.todo)'
    BY <1>2, <2>1 DEF Cancelling, Live, OneInOrder, NoneGiven, Pending, Busy, Failed
  <2> QED
    BY <1>7, <2>2 DEF StepOK
<1> QED
  BY <1>1, <1>2, <1>5, <1>6, <1>7, <1>8, <1>9, GoOn

LEMMA CancelTargetInv ==
    ASSUME RolloutInv, NEW s \in Slots, CancelTarget(s)
    PROVE  RolloutInv'
<1>1. PICK c : c = slot[s]
  OBVIOUS
<1>2. /\ c.pc = "canceleach" /\ c.pc # "idle"
      /\ UNCHANGED <<rollout, aim, taskVars, nodeVars, faults, reported>>
      /\ UNCHANGED <<tasks, given, failedTasks>>
  BY <1>1 DEF CancelTarget, At, taskVars
<1>3. /\ Tables /\ Handlers /\ HandlerOK(c) /\ c \in HandlerStates
      /\ calls \in Nat /\ overlapped \in BOOLEAN
      /\ tasks \in Nat /\ failedTasks \subseteq 1 .. tasks
  BY <1>1, <1>2, Running
<1>4. c.r \in Rollouts /\ rollout[c.r] # "none" /\ c.todo \subseteq Entries
  BY <1>2, <1>3 DEF HandlerOK, HandlerStates
<1>5. CASE c.todo = {} /\ End(s) /\ UNCHANGED <<target, overdue>>
  <2>1. ASSUME StepOK(c) PROVE Settled(c.r)
    <3>1. Cancelling(c.r, c.todo)
      BY <1>2, <2>1 DEF StepOK
    <3> QED
      BY <1>5, <3>1 DEF Cancelling, Settled, Open
  <2> QED
    BY <1>1, <1>2, <1>3, <1>5, <2>1, LetGo DEF rowVars
<1>6. ASSUME NEW e \in c.todo, SaveTarget(e.r, e.n, [e.tent EXCEPT !.status = "cancelled"]),
             slot' = [slot EXCEPT
                  ![s].pc = IF e.tent.status \in Active /\ Linked(e.tent.task)
                            THEN "canceltask" ELSE "canceleach",
                  ![s].tent = e.tent, ![s].todo = @ \ {e}],
             UNCHANGED <<calls, overlapped>>
      PROVE  RolloutInv'
  <2>1. PICK ent : ent = [e.tent EXCEPT !.status = "cancelled"]
    OBVIOUS
  <2>2. PICK pc : pc = IF e.tent.status \in Active /\ Linked(e.tent.task)
                       THEN "canceltask" ELSE "canceleach"
    OBVIOUS
  <2>3. PICK d : d = [c EXCEPT !.pc = pc, !.tent = e.tent, !.todo = c.todo \ {e}]
    OBVIOUS
  <2>4. slot' = [slot EXCEPT ![s] = d]
    BY <1>1, <1>6, <2>2, <2>3
  <2>5. /\ e.r \in Rollouts /\ e.n \in Nodes /\ e.tent \in Targets
        /\ e.tent.task <= tasks /\ rollout[e.r] # "none"
    BY <1>3, <1>4, <1>6 DEF Entries, HandlerOK
  <2>6. ent \in Targets /\ ent.status = "cancelled" /\ ent.task = e.tent.task
    BY <2>1, <2>5, StatusSaved DEF TargetStatuses, Ended
  <2>7. SaveTarget(e.r, e.n, ent)
    BY <1>6, <2>1
  <2>8. /\ Tables' /\ target'[e.r][e.n] = ent
        /\ \A m \in Nodes \ {e.n} : target'[e.r][m] = target[e.r][m]
        /\ \A q \in Rollouts \ {e.r} : target'[q] = target[q]
    <3>1. calls' \in Nat /\ overlapped' \in BOOLEAN
      BY <1>3, <1>6
    <3>2. ent.task <= tasks /\ ent.status # "completed" /\ Tables
      BY <1>3, <2>5, <2>6
    <3> QED
      BY <1>2, <2>5, <2>6, <2>7, <3>1, <3>2, TargetSaved
  <2>9. /\ pc \in {"canceltask", "canceleach"}
        /\ pc = "canceltask" => e.tent.task # 0
    BY <2>2 DEF Linked
  <2>10. /\ d \in HandlerStates
         /\ Is(d, c.op, pc, c.r, c.rent, c.n, e.tent, c.nodes, c.ver, c.report,
               c.todo \ {e})
    <3>1. c.todo \ {e} \in SUBSET Entries /\ pc \in Pcs
      BY <1>4, <2>9 DEF Pcs
    <3> QED
      BY <1>3, <2>3, <2>5, <3>1, ListGoesOn
  <2>11. d.r = c.r /\ d.pc = pc /\ d.todo = c.todo \ {e} /\ d.tent = e.tent
    BY <2>10 DEF Is
  <2>12. Grows(s)
    BY <1>2, <1>3 DEF Grows
  <2>13. HandlerOK(d)'
    BY <1>2, <1>3, <1>4, <2>5, <2>9, <2>10, <2>11 DEF HandlerOK
  <2>14. ASSUME StepOK(c)
         PROVE  /\ StepOK(d)' /\ \A q \in Rollouts \ {c.r} : Untouched(q)
                /\ Open(c.r)' => Open(c.r)
    <3>1. Cancelling(c.r, c.todo)
      BY <1>2, <2>14 DEF StepOK
    <3>2. e.r = c.r
      BY <1>6, <3>1 DEF Cancelling
    <3>3. \A q \in Rollouts \ {c.r} : Untouched(q)
      BY <1>2, <2>8, <3>2 DEF Untouched
    <3>4. /\ Busy(c.r)' = Busy(c.r) \ {e.n} /\ Failed(c.r)' = Failed(c.r) \ {e.n}
          /\ Pending(c.r)' = Pending(c.r) \ {e.n}
      BY <2>5, <2>6, <2>8, <3>2 DEF Busy, Failed, Pending, Active
    <3>5. Cancelling(c.r, c.todo \ {e})'
      BY <1>2, <3>1, <3>4 DEF Cancelling, Live, OneInOrder, NoneGiven
    <3>6. StepOK(d)'
      BY <2>9, <2>11, <3>5 DEF StepOK
    <3> QED
      BY <1>2, <3>3, <3>6 DEF Open
  <2>15. UNCHANGED <<faults, overlapped>> /\ Tables'
    BY <1>2, <1>6, <2>8
  <2> QED
    BY <1>1, <1>2, <2>4, <2>11, <2>12, <2>13, <2>14, <2>15, Proceed
<1> QED
  BY <1>1, <1>5, <1>6 DEF CancelTarget

-----------------------------------------------------------------------------
(* dispatchNextTarget.                                                       *)

LEMMA LoadRolloutInv ==
    ASSUME RolloutInv, NEW s \in Slots, LoadRollout(s)
    PROVE  RolloutInv'
<1>1. PICK c : c = slot[s]
  OBVIOUS
<1>2. /\ c.pc = "load" /\ c.pc # "idle"
      /\ \/ rollout[c.r] = "cancelled" /\ End(s)
         \/ Goto(s, "count")
      /\ UNCHANGED <<rowVars, taskVars, nodeVars, faults, reported>>
      /\ UNCHANGED <<target, rollout, tasks, given, failedTasks>>
  BY <1>1 DEF LoadRollout, At, rowVars, taskVars
<1>3. /\ Tables /\ Handlers /\ HandlerOK(c) /\ c \in HandlerStates
      /\ failedTasks \subseteq 1 .. tasks
  BY <1>1, <1>2, Running
<1>4. c.r \in Rollouts
  BY <1>2, <1>3 DEF HandlerOK
<1>5. ASSUME StepOK(c) PROVE c.todo = {} /\ rollout[c.r] = "running" /\ Ready(c.r)
  BY <1>2, <1>5 DEF StepOK
<1>6. CASE rollout[c.r] = "cancelled" /\ End(s)
  BY <1>1, <1>2, <1>3, <1>5, <1>6, LetGo
<1>7. CASE Goto(s, "count")
  <2>1. PICK d \in HandlerStates :
           /\ slot' = [slot EXCEPT ![s] = d]
           /\ Is(d, c.op, "count", c.r, c.rent, c.n, c.tent, c.nodes, c.ver, c.report,
                 c.todo)
           /\ calls' = calls /\ overlapped' = overlapped
    BY <1>1, <1>3, <1>7, GotoStep DEF Pcs
  <2>2. d.r = c.r /\ d.pc = "count" /\ d.todo = c.todo /\ d.tent = c.tent
    BY <2>1 DEF Is
  <2>3. HandlerOK(d)'
    BY <1>2, <1>3, <1>4, <2>1, <2>2 DEF HandlerOK
  <2>4. ASSUME StepOK(c) PROVE StepOK(d)'
    <3>1. Ready(c.r)'
      BY <1>2, <1>5, <2>4 DEF Ready, OneInOrder, Pending, Busy, Failed
    <3> QED
      BY <1>2, <1>5, <2>2, <2>4, <3>1 DEF StepOK
  <2> QED
    BY <1>1, <1>2, <1>3, <2>1, <2>2, <2>3, <2>4, GoOn
<1> QED
  BY <1>2, <1>6, <1>7

LEMMA CountActiveInv ==
    ASSUME RolloutInv, NEW s \in Slots, CountActive(s)
    PROVE  RolloutInv'
<1>1. PICK c : c = slot[s]
  OBVIOUS
<1>2. /\ c.pc = "count" /\ c.pc # "idle"
      /\ \/ Busy(c.r) # {} /\ End(s)
         \/ Busy(c.r) = {} /\ Goto(s, "find")
      /\ UNCHANGED <<rowVars, taskVars, nodeVars, faults, reported>>
      /\ UNCHANGED <<target, rollout, tasks, given, failedTasks>>
  BY <1>1 DEF CountActive, At, rowVars, taskVars
<1>3. /\ Tables /\ Handlers /\ HandlerOK(c) /\ c \in HandlerStates
      /\ failedTasks \subseteq 1 .. tasks
  BY <1>1, <1>2, Running
<1>4. c.r \in Rollouts
  BY <1>2, <1>3 DEF HandlerOK
<1>5. ASSUME StepOK(c) PROVE c.todo = {} /\ rollout[c.r] = "running" /\ Ready(c.r)
  BY <1>2, <1>5 DEF StepOK
<1>6. CASE Busy(c.r) # {} /\ End(s)
  <2>1. ASSUME StepOK(c) PROVE Settled(c.r)
    BY <1>5, <1>6, <2>1 DEF Ready, Settled, NoneGiven, Open
  <2> QED
    BY <1>1, <1>2, <1>3, <1>5, <1>6, <2>1, LetGo
<1>7. CASE Busy(c.r) = {} /\ Goto(s, "find")
  <2>1. PICK d \in HandlerStates :
           /\ slot' = [slot EXCEPT ![s] = d]
           /\ Is(d, c.op, "find", c.r, c.rent, c.n, c.tent, c.nodes, c.ver, c.report,
                 c.todo)
           /\ calls' = calls /\ overlapped' = overlapped
    BY <1>1, <1>3, <1>7, GotoStep DEF Pcs
  <2>2. d.r = c.r /\ d.pc = "find" /\ d.todo = c.todo /\ d.tent = c.tent
    BY <2>1 DEF Is
  <2>3. HandlerOK(d)'
    BY <1>2, <1>3, <1>4, <2>1, <2>2 DEF HandlerOK
  <2>4. ASSUME StepOK(c) PROVE StepOK(d)'
    <3>1. Ready(c.r)' /\ Busy(c.r)' = {}
      BY <1>2, <1>5, <1>7, <2>4 DEF Ready, OneInOrder, Pending, Busy, Failed
    <3> QED
      BY <1>2, <1>5, <2>2, <2>4, <3>1 DEF StepOK
  <2> QED
    BY <1>1, <1>2, <1>3, <2>1, <2>2, <2>3, <2>4, GoOn
<1> QED
  BY <1>2, <1>6, <1>7

LEMMA FindNextTargetInv ==
    ASSUME RolloutInv, NEW s \in Slots, FindNextTarget(s)
    PROVE  RolloutInv'
<1>1. PICK c : c = slot[s]
  OBVIOUS
<1>2. /\ c.pc = "find" /\ c.pc # "idle"
      /\ UNCHANGED <<aim, target, overdue, taskVars, nodeVars, faults, reported>>
      /\ UNCHANGED <<target, tasks, given, failedTasks>>
  BY <1>1 DEF FindNextTarget, At, taskVars
<1>3. /\ Tables /\ Handlers /\ HandlerOK(c) /\ c \in HandlerStates
      /\ calls \in Nat /\ overlapped \in BOOLEAN /\ tasks \in Nat
      /\ failedTasks \subseteq 1 .. tasks
  BY <1>1, <1>2, Running
<1>4. c.r \in Rollouts /\ rollout[c.r] # "none"
  BY <1>2, <1>3 DEF HandlerOK
<1>5. ASSUME StepOK(c)
      PROVE  c.todo = {} /\ rollout[c.r] = "running" /\ Ready(c.r) /\ Busy(c.r) = {}
  BY <1>2, <1>5 DEF StepOK
<1>6. ASSUME NEW n \in Pending(c.r), \A m \in Pending(c.r) : n <= m,
             slot' = [slot EXCEPT ![s].pc = "eligible", ![s].n = n, ![s].tent = target[c.r][n]],
             UNCHANGED <<calls, overlapped, rollout>>
      PROVE  RolloutInv'
  <2>1. PICK d : d = [c EXCEPT !.pc = "eligible", !.n = n, !.tent = target[c.r][n]]
    OBVIOUS
  <2>2. slot' = [slot EXCEPT ![s] = d]
    BY <1>1, <1>6, <2>1
  <2>3. n \in Nodes /\ target[c.r][n] \in Targets /\ target[c.r][n].task <= tasks
    <3>1. n \in Nodes
      BY <1>6 DEF Pending
    <3> QED
      BY <1>3, <1>4, <3>1 DEF Tables, RowTypes
  <2>4. /\ d \in HandlerStates
        /\ Is(d, c.op, "eligible", c.r, c.rent, n, target[c.r][n], c.nodes, c.ver, c.report,
              c.todo)
    BY <1>3, <2>1, <2>3, NodeChosen DEF Pcs
  <2>5. d.r = c.r /\ d.pc = "eligible" /\ d.todo = c.todo /\ d.tent = target[c.r][n]
        /\ d.n = n
    BY <2>4 DEF Is
  <2>6. HandlerOK(d)'
    BY <1>2, <1>3, <1>4, <1>6, <2>3, <2>4, <2>5 DEF HandlerOK
  <2>7. ASSUME StepOK(c) PROVE StepOK(d)'
    <3>1. ASSUME NEW m \in Pending(c.r) \ {n} PROVE n < m /\ <<c.r, m>> \notin given
      <4>1. m \in Nat /\ n \in Nat /\ n <= m /\ n # m
        BY <1>6, <2>3, <3>1, NodeNumbers DEF Pending
      <4>2. ~(m <= n)
        BY <4>1
      <4> QED
        BY <1>5, <1>6, <2>7, <3>1, <4>1, <4>2 DEF Ready
    <3>2. Chosen(c.r, n)
      BY <1>5, <1>6, <2>7, <3>1 DEF Chosen, Ready
    <3>3. Chosen(c.r, n)'
      BY <1>2, <1>6, <3>2 DEF Chosen, Pending, Busy, Failed
    <3> QED
      BY <1>5, <2>5, <2>7, <3>3 DEF StepOK
  <2>8. UNCHANGED rowVars
    BY <1>2, <1>6 DEF rowVars
  <2> QED
    BY <1>1, <1>2, <1>3, <1>6, <2>2, <2>5, <2>6, <2>7, <2>8, GoOn
<1>7. CASE Pending(c.r) = {} /\ SaveRollout(c.r, "completed") /\ End(s)
  <2>1. /\ Tables' /\ rollout'[c.r] = "completed"
        /\ \A q \in Rollouts \ {c.r} : rollout'[q] = rollout[q]
    BY <1>2, <1>3, <1>4, <1>7, RolloutSaved DEF RolloutStatuses, End
  <2>2. Grows(s)
    BY <1>2, <1>3, <1>4, <2>1 DEF Grows
  <2>3. \A q \in Rollouts \ {c.r} : Untouched(q)
    BY <1>2, <2>1 DEF Untouched
  <2>4. ASSUME StepOK(c) PROVE Settled(c.r)' /\ Open(c.r)
    <3>1. /\ Pending(c.r)' = Pending(c.r) /\ Busy(c.r)' = Busy(c.r)
          /\ Failed(c.r)' = Failed(c.r)
      BY <1>2 DEF Pending, Busy, Failed
    <3>2. Busy(c.r) = {} /\ Failed(c.r) = {} /\ rollout[c.r] = "running"
      BY <1>5, <2>4 DEF Ready
    <3> QED
      BY <1>7, <2>1, <3>1, <3>2 DEF Settled, OneInOrder, NoneGiven, Live, Open
  <2> QED
    BY <1>1, <1>2, <1>5, <1>7, <2>1, <2>2, <2>3, <2>4, Finish
<1> QED
  BY <1>1, <1>6, <1>7 DEF FindNextTarget

LEMMA CheckEligibleInv ==
    ASSUME RolloutInv, NEW s \in Slots, CheckEligible(s)
    PROVE  RolloutInv'
<1>1. PICK c : c = slot[s]
  OBVIOUS
<1>2. PICK pc \in {"create", "fail"} : Goto(s, pc)
  BY DEF CheckEligible
<1>3. /\ c.pc = "eligible" /\ c.pc # "idle"
      /\ UNCHANGED <<rowVars, taskVars, nodeVars, faults, reported>>
      /\ UNCHANGED <<target, rollout, tasks, given, failedTasks>>
  BY <1>1 DEF CheckEligible, At, rowVars, taskVars
<1>4. /\ Tables /\ Handlers /\ HandlerOK(c) /\ c \in HandlerStates
      /\ failedTasks \subseteq 1 .. tasks
  BY <1>1, <1>3, Running
<1>5. c.r \in Rollouts
  BY <1>3, <1>4 DEF HandlerOK
<1>6. PICK d \in HandlerStates :
         /\ slot' = [slot EXCEPT ![s] = d]
         /\ Is(d, c.op, pc, c.r, c.rent, c.n, c.tent, c.nodes, c.ver, c.report, c.todo)
         /\ calls' = calls /\ overlapped' = overlapped
  BY <1>1, <1>2, <1>4, GotoStep DEF Pcs
<1>7. d.r = c.r /\ d.pc = pc /\ d.todo = c.todo /\ d.tent = c.tent /\ d.n = c.n
  BY <1>6 DEF Is
<1>8. HandlerOK(d)'
  BY <1>2, <1>3, <1>4, <1>5, <1>6, <1>7 DEF HandlerOK
<1>9. ASSUME StepOK(c) PROVE StepOK(d)'
  <2>1. c.todo = {} /\ Chosen(c.r, c.n)
    BY <1>3, <1>9 DEF StepOK
  <2>2. Chosen(c.r, c.n)'
    BY <1>3, <2>1 DEF Chosen, Pending, Busy, Failed
  <2>3. Failing(c.r, c.n)'
    BY <2>2 DEF Chosen, Failing
  <2> QED
    BY <1>2, <1>7, <2>1, <2>2, <2>3 DEF StepOK
<1> QED
  BY <1>1, <1>3, <1>4, <1>6, <1>7, <1>8, <1>9, GoOn

LEMMA CreateTaskInv ==
    ASSUME RolloutInv, NEW s \in Slots, CreateTask(s)
    PROVE  RolloutInv'
<1>1. PICK c : c = slot[s]
  OBVIOUS
<1>2. /\ c.pc = "create" /\ c.pc # "idle"
      /\ UNCHANGED <<rowVars, nodeVars, reported>>
      /\ UNCHANGED <<rollout, aim, target, overdue, version, calls, overlapped>>
  BY <1>1 DEF CreateTask, At, rowVars, nodeVars
<1>3. /\ Tables /\ Handlers /\ HandlerOK(c) /\ c \in HandlerStates
      /\ calls \in Nat /\ overlapped \in BOOLEAN /\ tasks \in Nat /\ faults \in Nat
      /\ overdue \subseteq Rollouts \X Nodes /\ failedTasks \subseteq 1 .. tasks
  BY <1>1, <1>2, Running
<1>4. c.r \in Rollouts /\ rollout[c.r] # "none" /\ c.n \in Nodes
  BY <1>2, <1>3 DEF HandlerOK, HandlerStates
<1>5. CASE /\ tasks < MaxTasks /\ tasks' = tasks + 1
           /\ given' = given \cup {<<c.r, c.n>>}
           /\ slot' = [slot EXCEPT
                ![s].pc = "dispatched",
                ![s].tent = [status |-> "dispatched", task |-> tasks + 1]]
           /\ UNCHANGED <<failedTasks, faults, calls, overlapped>>
  <2>1. PICK ent : ent = [status |-> "dispatched", task |-> tasks + 1]
    OBVIOUS
  <2>2. PICK d : d = [c EXCEPT !.pc = "dispatched", !.tent = ent]
    OBVIOUS
  <2>3. slot' = [slot EXCEPT ![s] = d]
    BY <1>1, <1>5, <2>1, <2>2
  <2>4. /\ ent \in Targets /\ ent.status = "dispatched" /\ ent.task = tasks + 1
        /\ tasks' \in TaskIds /\ tasks' \in Nat /\ tasks <= tasks'
        /\ \A k \in Nat : k <= tasks => k <= tasks'
    BY <1>3, <1>5, <2>1, AgentUpdatesAssumption DEF Targets, TaskIds, TargetStatuses, Active
  <2>5. /\ d \in HandlerStates
        /\ Is(d, c.op, "dispatched", c.r, c.rent, c.n, ent, c.nodes, c.ver, c.report, c.todo)
    BY <1>3, <2>2, <2>4, TargetGiven DEF Pcs
  <2>6. d.r = c.r /\ d.pc = "dispatched" /\ d.todo = c.todo /\ d.tent = ent /\ d.n = c.n
    BY <2>5 DEF Is
  <2>7. Tables'
    <3>1. failedTasks' \subseteq 1 .. tasks' /\ given' \subseteq Rollouts \X Nodes
      BY <1>3, <1>4, <1>5, <2>4 DEF Tables, RowTypes
    <3>2. RowTypes'
      BY <1>2, <1>3, <1>5, <2>4, <3>1 DEF Tables, RowTypes, nodeVars
    <3>3. ASSUME NEW r \in Rollouts, NEW n \in Nodes PROVE target[r][n].task <= tasks'
      <4>1. target[r][n] \in Targets /\ target[r][n].task <= tasks
        BY <1>3 DEF Tables, RowTypes
      <4>2. target[r][n].task \in Nat
        BY <4>1, AgentUpdatesAssumption DEF Targets, TaskIds
      <4> QED
        BY <2>4, <4>1, <4>2
    <3>4. \A r \in Rollouts, n \in Nodes :
            rollout[r] = "none" => target[r][n] = NoTarget /\ <<r, n>> \notin given'
      BY <1>3, <1>4, <1>5 DEF Tables
    <3> QED
      BY <1>2, <1>3, <3>2, <3>3, <3>4 DEF Tables, CompletedWasReported
  <2>8. Grows(s)
    BY <1>2, <2>4 DEF Grows
  <2>9. HandlerOK(d)'
    <3>1. \A e \in c.todo : e.tent.task <= tasks' /\ rollout'[e.r] # "none"
      BY <1>3, <2>7, <2>8, Carried
    <3>2. ent.task <= tasks'
      BY <1>3, <1>5, <2>4
    <3> QED
      BY <1>2, <1>3, <1>4, <2>4, <2>5, <2>6, <3>1, <3>2 DEF HandlerOK
  <2>10. \A q \in Rollouts \ {c.r} : Untouched(q)
    BY <1>2, <1>5 DEF Untouched
  <2>11. ASSUME StepOK(c) PROVE StepOK(d)' /\ Open(c.r)
    <3>1. c.todo = {} /\ Chosen(c.r, c.n)
      BY <1>2, <2>11 DEF StepOK
    <3>2. /\ Pending(c.r)' = Pending(c.r) /\ Busy(c.r)' = Busy(c.r)
          /\ Failed(c.r)' = Failed(c.r)
      BY <1>2 DEF Pending, Busy, Failed
    <3>3. Chosen(c.r, c.n)'
      BY <1>2, <1>5, <3>1, <3>2 DEF Chosen
    <3> QED
      BY <2>6, <3>1, <3>3 DEF StepOK, Open, Chosen
  <2> QED
    BY <1>1, <1>2, <1>5, <2>3, <2>6, <2>7, <2>8, <2>9, <2>10, <2>11, Proceed
<1>6. CASE /\ faults' = faults + 1 /\ slot' = [slot EXCEPT ![s] = Idle]
           /\ UNCHANGED <<taskVars, calls, overlapped>>
  <2>1. UNCHANGED <<tasks, given, failedTasks>>
    BY <1>6 DEF taskVars
  <2>2. Tables'
    BY <1>2, <1>3, <1>6, <2>1, NothingSaved
  <2>3. Handlers'
    <3>1. Grows(s) /\ tasks' \in Nat
      BY <1>2, <1>3, <2>1 DEF Grows
    <3> QED
      BY <1>3, <1>6, <3>1, HandlersEnd
  <2>4. ~Calm'
    BY <1>3, <1>6 DEF Calm
  <2> QED
    BY <2>2, <2>3, <2>4 DEF RolloutInv
<1> QED
  BY <1>1, <1>5, <1>6 DEF CreateTask

LEMMA SaveDispatchedInv ==
    ASSUME RolloutInv, NEW s \in Slots, SaveDispatched(s)
    PROVE  RolloutInv'
<1>1. PICK c : c = slot[s]
  OBVIOUS
<1>2. /\ c.pc = "dispatched" /\ c.pc # "idle" /\ SaveTarget(c.r, c.n, c.tent)
      /\ Goto(s, "running")
      /\ UNCHANGED <<rollout, aim, taskVars, nodeVars, faults, reported>>
      /\ UNCHANGED <<tasks, given, version>>
  BY <1>1 DEF SaveDispatched, At, taskVars, nodeVars
<1>3. /\ Tables /\ Handlers /\ HandlerOK(c) /\ c \in HandlerStates
      /\ calls \in Nat /\ overlapped \in BOOLEAN /\ tasks \in Nat
  BY <1>1, <1>2, Running
<1>4. c.r \in Rollouts /\ rollout[c.r] # "none" /\ c.n \in Nodes /\ c.tent \in Targets
      /\ c.tent.task <= tasks /\ c.tent.status = "dispatched"
  BY <1>2, <1>3 DEF HandlerOK, HandlerStates
<1>5. PICK d \in HandlerStates :
         /\ slot' = [slot EXCEPT ![s] = d]
         /\ Is(d, c.op, "running", c.r, c.rent, c.n, c.tent, c.nodes, c.ver, c.report,
               c.todo)
         /\ calls' = calls /\ overlapped' = overlapped
  BY <1>1, <1>2, <1>3, GotoStep DEF Pcs
<1>6. /\ Tables' /\ target'[c.r][c.n] = c.tent
      /\ \A m \in Nodes \ {c.n} : target'[c.r][m] = target[c.r][m]
      /\ \A q \in Rollouts \ {c.r} : target'[q] = target[q]
  BY <1>2, <1>3, <1>4, <1>5, TargetSaved
<1>7. Grows(s)
  BY <1>2, <1>3 DEF Grows
<1>8. d.r = c.r /\ d.pc = "running" /\ d.todo = c.todo /\ d.tent = c.tent
  BY <1>5 DEF Is
<1>9. HandlerOK(d)'
  BY <1>2, <1>3, <1>4, <1>5, <1>8 DEF HandlerOK
<1>10. \A q \in Rollouts \ {c.r} : Untouched(q)
  BY <1>2, <1>6 DEF Untouched
<1>11. ASSUME StepOK(c) PROVE StepOK(d)' /\ Open(c.r)
  <2>1. c.todo = {} /\ Chosen(c.r, c.n)
    BY <1>2, <1>11 DEF StepOK
  <2>2. /\ Busy(c.r)' = {c.n} /\ Failed(c.r)' = {}
        /\ Pending(c.r)' = Pending(c.r) \ {c.n}
    BY <1>4, <1>6, <2>1 DEF Chosen, Pending, Busy, Failed, Active
  <2>3. Settled(c.r)' /\ rollout'[c.r] = "running"
    BY <1>2, <2>1, <2>2 DEF Chosen, Settled, OneInOrder, NoneGiven, Open
  <2> QED
    BY <1>8, <2>1, <2>3 DEF StepOK, Open, Chosen
<1> QED
  BY <1>1, <1>2, <1>5, <1>6, <1>7, <1>8, <1>9, <1>10, <1>11, Proceed

LEMMA SaveRunningInv ==
    ASSUME RolloutInv, NEW s \in Slots, SaveRunning(s)
    PROVE  RolloutInv'
<1>1. PICK c : c = slot[s]
  OBVIOUS
<1>2. /\ c.pc = "running" /\ c.pc # "idle" /\ SaveRollout(c.r, "running") /\ End(s)
      /\ UNCHANGED <<aim, target, overdue, taskVars, nodeVars, faults, reported>>
      /\ UNCHANGED <<tasks, given, version>>
  BY <1>1 DEF SaveRunning, At, taskVars, nodeVars
<1>3. /\ Tables /\ Handlers /\ HandlerOK(c) /\ c \in HandlerStates
      /\ calls \in Nat /\ overlapped \in BOOLEAN /\ tasks \in Nat
  BY <1>1, <1>2, Running
<1>4. c.r \in Rollouts /\ rollout[c.r] # "none"
  BY <1>2, <1>3 DEF HandlerOK
<1>5. /\ Tables' /\ rollout'[c.r] = "running"
      /\ \A q \in Rollouts \ {c.r} : rollout'[q] = rollout[q]
  BY <1>2, <1>3, <1>4, RolloutSaved DEF RolloutStatuses, End
<1>6. Grows(s)
  BY <1>2, <1>3, <1>4, <1>5 DEF Grows
<1>7. \A q \in Rollouts \ {c.r} : Untouched(q)
  BY <1>2, <1>5 DEF Untouched
<1>8. ASSUME StepOK(c) PROVE c.todo = {} /\ Settled(c.r)' /\ Open(c.r)
  <2>1. c.todo = {} /\ rollout[c.r] = "running" /\ Settled(c.r)
    BY <1>2, <1>8 DEF StepOK
  <2>2. Untouched(c.r)
    BY <1>2, <1>5, <2>1 DEF Untouched
  <2> QED
    BY <1>4, <2>1, <2>2, UntouchedStays DEF Open
<1> QED
  BY <1>1, <1>2, <1>5, <1>6, <1>7, <1>8, Finish

-----------------------------------------------------------------------------
(* pauseRolloutForTargetFailure.                                             *)

LEMMA SaveFailedInv ==
    ASSUME RolloutInv, NEW s \in Slots, SaveFailed(s)
    PROVE  RolloutInv'
<1>1. PICK c : c = slot[s]
  OBVIOUS
<1>2. PICK ent : ent = [c.tent EXCEPT !.status = "failed"]
  OBVIOUS
<1>3. /\ c.pc = "fail" /\ c.pc # "idle" /\ SaveTarget(c.r, c.n, ent)
      /\ Goto(s, "pause")
      /\ UNCHANGED <<rollout, aim, taskVars, nodeVars, faults, reported>>
      /\ UNCHANGED <<tasks, given, version>>
  BY <1>1, <1>2 DEF SaveFailed, At, taskVars, nodeVars
<1>4. /\ Tables /\ Handlers /\ HandlerOK(c) /\ c \in HandlerStates
      /\ calls \in Nat /\ overlapped \in BOOLEAN /\ tasks \in Nat
  BY <1>1, <1>3, Running
<1>5. c.r \in Rollouts /\ rollout[c.r] # "none" /\ c.n \in Nodes /\ c.tent \in Targets
      /\ c.tent.task <= tasks
  BY <1>3, <1>4 DEF HandlerOK, HandlerStates
<1>6. ent \in Targets /\ ent.status = "failed" /\ ent.task <= tasks
  BY <1>2, <1>5, StatusSaved DEF TargetStatuses, Ended
<1>7. PICK d \in HandlerStates :
         /\ slot' = [slot EXCEPT ![s] = d]
         /\ Is(d, c.op, "pause", c.r, c.rent, c.n, c.tent, c.nodes, c.ver, c.report,
               c.todo)
         /\ calls' = calls /\ overlapped' = overlapped
  BY <1>1, <1>3, <1>4, GotoStep DEF Pcs
<1>8. /\ Tables' /\ target'[c.r][c.n] = ent
      /\ \A m \in Nodes \ {c.n} : target'[c.r][m] = target[c.r][m]
      /\ \A q \in Rollouts \ {c.r} : target'[q] = target[q]
  BY <1>3, <1>4, <1>5, <1>6, <1>7, TargetSaved
<1>9. Grows(s)
  BY <1>3, <1>4 DEF Grows
<1>10. d.r = c.r /\ d.pc = "pause" /\ d.todo = c.todo /\ d.tent = c.tent /\ d.n = c.n
  BY <1>7 DEF Is
<1>11. HandlerOK(d)'
  BY <1>3, <1>4, <1>5, <1>7, <1>10 DEF HandlerOK
<1>12. \A q \in Rollouts \ {c.r} : Untouched(q)
  BY <1>3, <1>8 DEF Untouched
<1>13. ASSUME StepOK(c) PROVE StepOK(d)' /\ Open(c.r)
  <2>1. c.todo = {} /\ Failing(c.r, c.n)
    BY <1>3, <1>13 DEF StepOK
  <2>2. /\ Busy(c.r)' = {} /\ Failed(c.r)' = {c.n}
        /\ Pending(c.r)' = Pending(c.r) \ {c.n}
    BY <1>5, <1>6, <1>8, <2>1 DEF Failing, Pending, Busy, Failed, Active
  <2>3. Failing(c.r, c.n)'
    BY <1>3, <2>1, <2>2 DEF Failing
  <2> QED
    BY <1>10, <2>1, <2>2, <2>3 DEF StepOK, Open, Failing
<1> QED
  BY <1>1, <1>3, <1>7, <1>8, <1>9, <1>10, <1>11, <1>12, <1>13, Proceed

LEMMA SavePausedInv ==
    ASSUME RolloutInv, NEW s \in Slots, SavePaused(s)
    PROVE  RolloutInv'
<1>1. PICK c : c = slot[s]
  OBVIOUS
<1>2. /\ c.pc = "pause" /\ c.pc # "idle" /\ SaveRollout(c.r, "paused")
      /\ Goto(s, "syncfailed")
      /\ UNCHANGED <<aim, target, overdue, taskVars, nodeVars, faults, reported>>
      /\ UNCHANGED <<tasks, given, version>>
  BY <1>1 DEF SavePaused, At, taskVars, nodeVars
<1>3. /\ Tables /\ Handlers /\ HandlerOK(c) /\ c \in HandlerStates
      /\ calls \in Nat /\ overlapped \in BOOLEAN /\ tasks \in Nat
  BY <1>1, <1>2, Running
<1>4. c.r \in Rollouts /\ rollout[c.r] # "none"
  BY <1>2, <1>3 DEF HandlerOK
<1>5. PICK d \in HandlerStates :
         /\ slot' = [slot EXCEPT ![s] = d]
         /\ Is(d, c.op, "syncfailed", c.r, c.rent, c.n, c.tent, c.nodes, c.ver, c.report,
               c.todo)
         /\ calls' = calls /\ overlapped' = overlapped
  BY <1>1, <1>2, <1>3, GotoStep DEF Pcs
<1>6. /\ Tables' /\ rollout'[c.r] = "paused"
      /\ \A q \in Rollouts \ {c.r} : rollout'[q] = rollout[q]
  BY <1>2, <1>3, <1>4, <1>5, RolloutSaved DEF RolloutStatuses
<1>7. Grows(s)
  BY <1>2, <1>3, <1>4, <1>6 DEF Grows
<1>8. d.r = c.r /\ d.pc = "syncfailed" /\ d.todo = c.todo /\ d.tent = c.tent
  BY <1>5 DEF Is
<1>9. HandlerOK(d)'
  <2>1. c.tent.task <= tasks' /\ \A e \in c.todo : e.tent.task <= tasks' /\ rollout'[e.r] # "none"
    BY <1>3, <1>6, <1>7, Carried
  <2> QED
    BY <1>2, <1>3, <1>4, <1>6, <1>8, <2>1 DEF HandlerOK
<1>10. \A q \in Rollouts \ {c.r} : Untouched(q)
  BY <1>2, <1>6 DEF Untouched
<1>11. ASSUME StepOK(c) PROVE StepOK(d)' /\ Open(c.r)
  <2>1. c.todo = {} /\ Failing(c.r, c.n) /\ c.n \in Failed(c.r)
    BY <1>2, <1>11 DEF StepOK
  <2>2. c.n \notin Pending(c.r)
    BY <2>1 DEF Failed, Pending
  <2>3. /\ Pending(c.r)' = Pending(c.r) /\ Busy(c.r)' = Busy(c.r)
        /\ Failed(c.r)' = Failed(c.r)
    BY <1>2 DEF Pending, Busy, Failed
  <2>4. \A m \in Busy(c.r) \cup Failed(c.r) : m = c.n
    BY <2>1 DEF Failing
  <2>5. \A m \in Pending(c.r) : c.n < m /\ <<c.r, m>> \notin given
    BY <2>1, <2>2 DEF Failing
  <2>6. OneInOrder(c.r)' /\ NoneGiven(c.r)'
    BY <1>2, <2>3, <2>4, <2>5 DEF OneInOrder, NoneGiven
  <2>7. Settled(c.r)'
    BY <1>6, <2>6 DEF Settled, Open
  <2> QED
    BY <1>8, <2>1, <2>7 DEF StepOK, Open, Failing
<1> QED
  BY <1>1, <1>2, <1>5, <1>6, <1>7, <1>8, <1>9, <1>10, <1>11, Proceed

LEMMA SyncTaskInv ==
    ASSUME RolloutInv, NEW s \in Slots, SyncTask(s)
    PROVE  RolloutInv'
<1>1. PICK c : c = slot[s]
  OBVIOUS
<1>2. /\ c.pc \in {"syncfailed", "syncdone"} /\ c.pc # "idle"
      /\ \/ failedTasks' = failedTasks
         \/ c.tent.task # 0 /\ failedTasks' = failedTasks \cup {c.tent.task}
      /\ \/ c.pc = "syncdone" /\ c.rent = "running" /\ Enter(s, "load", c.r, 1, NoTarget)
         \/ End(s)
      /\ UNCHANGED <<rowVars, tasks, given, nodeVars, faults, reported>>
      /\ UNCHANGED <<target, rollout>>
  BY <1>1 DEF SyncTask, Linked, rowVars
<1>3. /\ Tables /\ Handlers /\ HandlerOK(c) /\ c \in HandlerStates
      /\ tasks \in Nat /\ failedTasks \subseteq 1 .. tasks
  BY <1>1, <1>2, Running
<1>4. c.r \in Rollouts /\ rollout[c.r] # "none" /\ c.tent.task \in 0 .. tasks
  BY <1>2, <1>3, AgentUpdatesAssumption DEF HandlerOK, HandlerStates, Targets, TaskIds
<1>5. failedTasks' \subseteq 1 .. tasks
  <2>1. c.tent.task # 0 => c.tent.task \in 1 .. tasks
    BY <1>3, <1>4
  <2> QED
    BY <1>2, <1>3, <2>1
<1>6. ASSUME StepOK(c)
      PROVE  /\ c.todo = {} /\ Settled(c.r)
             /\ c.pc = "syncdone" => c.rent = rollout[c.r]
  BY <1>2, <1>6 DEF StepOK
<1>7. CASE End(s)
  BY <1>1, <1>2, <1>5, <1>6, <1>7, LetGo
<1>8. CASE c.pc = "syncdone" /\ c.rent = "running" /\ Enter(s, "load", c.r, 1, NoTarget)
  <2>1. PICK d \in HandlerStates :
           /\ slot' = [slot EXCEPT ![s] = d]
           /\ Is(d, d.op, "load", c.r, "none", 1, NoTarget, {}, FirstVersion, "none",
                 c.todo)
           /\ calls' = calls /\ overlapped' = overlapped
    BY <1>1, <1>3, <1>4, <1>8, IdleOK, EnterStep DEF Pcs
  <2>2. d.r = c.r /\ d.pc = "load" /\ d.todo = c.todo /\ d.tent = NoTarget
    BY <2>1 DEF Is
  <2>3. HandlerOK(d)'
    BY <1>2, <1>3, <1>4, <2>1, <2>2 DEF HandlerOK, NoTarget
  <2>4. ASSUME StepOK(c) PROVE StepOK(d)'
    <3>1. rollout[c.r] = "running" /\ Settled(c.r)
      BY <1>6, <1>8, <2>4
    <3>2. /\ Pending(c.r)' = Pending(c.r) /\ Busy(c.r)' = Busy(c.r)
          /\ Failed(c.r)' = Failed(c.r)
      BY <1>2 DEF Pending, Busy, Failed
    <3>3. Ready(c.r)'
      BY <1>2, <3>1, <3>2 DEF Settled, Ready, OneInOrder, NoneGiven
    <3> QED
      BY <1>2, <1>6, <2>2, <2>4, <3>1, <3>3 DEF StepOK
  <2> QED
    BY <1>1, <1>2, <1>5, <2>1, <2>2, <2>3, <2>4, GoOn
<1> QED
  BY <1>2, <1>7, <1>8

-----------------------------------------------------------------------------
(* handleAgentProgress.                                                      *)

LEMMA ProgressLoadRolloutInv ==
    ASSUME RolloutInv, NEW s \in Slots, ProgressLoadRollout(s)
    PROVE  RolloutInv'
<1>1. PICK c : c = slot[s]
  OBVIOUS
<1>2. PICK d : d = [c EXCEPT !.pc = "report", !.rent = rollout[c.r]]
  OBVIOUS
<1>3. /\ c.pc = "progress" /\ c.pc # "idle" /\ slot' = [slot EXCEPT ![s] = d]
      /\ UNCHANGED <<calls, overlapped, rowVars, taskVars, nodeVars, faults, reported>>
      /\ UNCHANGED <<target, rollout, tasks, given, failedTasks>>
  BY <1>1, <1>2 DEF ProgressLoadRollout, At, rowVars, taskVars
<1>4. /\ Tables /\ Handlers /\ HandlerOK(c) /\ c \in HandlerStates
      /\ failedTasks \subseteq 1 .. tasks
  BY <1>1, <1>3, Running
<1>5. c.r \in Rollouts /\ rollout[c.r] # "none" /\ rollout[c.r] \in RolloutStatuses
  BY <1>3, <1>4 DEF HandlerOK, Tables, RowTypes
<1>6. /\ d \in HandlerStates
      /\ Is(d, c.op, "report", c.r, rollout[c.r], c.n, c.tent, c.nodes, c.ver, c.report,
            c.todo)
  BY <1>2, <1>4, <1>5, RentChanges DEF Pcs
<1>7. /\ d.r = c.r /\ d.pc = "report" /\ d.todo = c.todo /\ d.tent = c.tent /\ d.n = c.n
      /\ d.rent = rollout[c.r] /\ d.report = c.report
  BY <1>6 DEF Is
<1>8. HandlerOK(d)'
  BY <1>3, <1>4, <1>5, <1>6, <1>7 DEF HandlerOK
<1>9. ASSUME StepOK(c) PROVE StepOK(d)'
  <2>1. c.todo = {} /\ c.n \in Busy(c.r) /\ Settled(c.r)
    BY <1>3, <1>9 DEF StepOK
  <2>2. Untouched(c.r)
    BY <1>3 DEF Untouched
  <2>3. c.n \in Busy(c.r)' /\ Settled(c.r)'
    BY <1>5, <2>1, <2>2, UntouchedStays
  <2> QED
    BY <1>3, <1>7, <2>1, <2>3 DEF StepOK
<1> QED
  BY <1>1, <1>3, <1>4, <1>7, <1>8, <1>9, GoOn

LEMMA SaveProgressInv ==
    ASSUME RolloutInv, NEW s \in Slots, SaveProgress(s)
    PROVE  RolloutInv'
<1>1. PICK c : c = slot[s]
  OBVIOUS
<1>2. PICK ent : ent = [c.tent EXCEPT !.status = c.report]
  OBVIOUS
<1>3. PICK pc \in {"note", "reconnect"} :
         pc = IF c.rent # "cancelled" THEN "note" ELSE "reconnect"
  OBVIOUS
<1>4. /\ c.pc = "report" /\ c.pc # "idle" /\ SaveTarget(c.r, c.n, ent)
      /\ \/ c.report = "failed" /\ Enter(s, "fail", c.r, c.n, ent)
         \/ c.report # "failed" /\ Goto(s, pc)
      /\ UNCHANGED <<rollout, aim, taskVars, nodeVars, faults, reported>>
      /\ UNCHANGED <<tasks, given, version>>
  BY <1>1, <1>2, <1>3 DEF SaveProgress, At, taskVars, nodeVars
<1>5. /\ Tables /\ Handlers /\ HandlerOK(c) /\ c \in HandlerStates
      /\ calls \in Nat /\ overlapped \in BOOLEAN /\ tasks \in Nat
  BY <1>1, <1>4, Running
<1>6. c.r \in Rollouts /\ rollout[c.r] # "none" /\ c.n \in Nodes /\ c.tent \in Targets
      /\ c.tent.task <= tasks /\ c.report \in Reports
  BY <1>4, <1>5 DEF HandlerOK, HandlerStates
<1>7. c.report \in {"dispatched", "installing", "waiting_for_reconnect", "failed"}
  BY <1>6, AgentUpdatesAssumption
<1>8. ent \in Targets /\ ent.status = c.report /\ ent.task <= tasks
      /\ ent.status # "completed"
  BY <1>2, <1>6, <1>7, StatusSaved DEF TargetStatuses, Ended, Active
<1>9. /\ calls' = calls /\ overlapped' = overlapped
  BY <1>4 DEF Enter, Goto
<1>10. /\ Tables' /\ target'[c.r][c.n] = ent
       /\ \A m \in Nodes \ {c.n} : target'[c.r][m] = target[c.r][m]
       /\ \A q \in Rollouts \ {c.r} : target'[q] = target[q]
  BY <1>4, <1>5, <1>6, <1>8, <1>9, TargetSaved
<1>11. Grows(s)
  BY <1>4, <1>5 DEF Grows
<1>12. \A q \in Rollouts \ {c.r} : Untouched(q)
  BY <1>4, <1>10 DEF Untouched
<1>13. ASSUME StepOK(c)
       PROVE  /\ c.todo = {} /\ c.n \in Busy(c.r) /\ Settled(c.r) /\ c.rent = rollout[c.r]
              /\ rollout[c.r] \in {"running", "paused"}
  <2>1. c.todo = {} /\ c.n \in Busy(c.r) /\ Settled(c.r) /\ c.rent = rollout[c.r]
    BY <1>4, <1>13 DEF StepOK
  <2> QED
    BY <2>1 DEF Settled, Live, Open
<1>14. CASE c.report = "failed" /\ Enter(s, "fail", c.r, c.n, ent)
  <2>1. PICK d \in HandlerStates :
           /\ slot' = [slot EXCEPT ![s] = d]
           /\ Is(d, d.op, "fail", c.r, "none", c.n, ent, {}, FirstVersion, "none", c.todo)
    BY <1>1, <1>5, <1>6, <1>8, <1>14, EnterStep DEF Pcs
  <2>2. d.r = c.r /\ d.pc = "fail" /\ d.todo = c.todo /\ d.tent = ent /\ d.n = c.n
    BY <2>1 DEF Is
  <2>3. HandlerOK(d)'
    BY <1>4, <1>5, <1>6, <1>8, <2>1, <2>2 DEF HandlerOK
  <2>4. ASSUME StepOK(c) PROVE StepOK(d)' /\ Open(c.r)
    <3>1. \A m \in Pending(c.r) : c.n < m /\ <<c.r, m>> \notin given
      BY <1>13, <2>4 DEF Settled, OneInOrder, NoneGiven
    <3>2. \A m \in Busy(c.r) \cup Failed(c.r) : m = c.n
      BY <1>13, <2>4 DEF Settled, OneInOrder
    <3>3. /\ Busy(c.r)' \cup Failed(c.r)' \subseteq {c.n}
          /\ Pending(c.r)' \subseteq Pending(c.r)
      BY <1>6, <1>8, <1>10, <1>14, <3>2 DEF Pending, Busy, Failed, Active
    <3>4. Failing(c.r, c.n)'
      BY <1>4, <1>13, <2>4, <3>1, <3>3 DEF Failing
    <3> QED
      BY <1>13, <2>2, <2>4, <3>4 DEF StepOK, Open
  <2> QED
    BY <1>1, <1>4, <1>9, <1>10, <1>11, <1>12, <2>1, <2>2, <2>3, <2>4, Proceed
<1>15. CASE c.report # "failed" /\ Goto(s, pc)
  <2>1. PICK d \in HandlerStates :
           /\ slot' = [slot EXCEPT ![s] = d]
           /\ Is(d, c.op, pc, c.r, c.rent, c.n, c.tent, c.nodes, c.ver, c.report, c.todo)
    BY <1>1, <1>3, <1>5, <1>15, GotoStep DEF Pcs
  <2>2. /\ d.r = c.r /\ d.pc = pc /\ d.todo = c.todo /\ d.tent = c.tent /\ d.n = c.n
        /\ d.rent = c.rent /\ d.report = c.report
    BY <2>1 DEF Is
  <2>3. HandlerOK(d)'
    BY <1>3, <1>4, <1>5, <1>6, <2>1, <2>2 DEF HandlerOK
  <2>4. ASSUME StepOK(c) PROVE StepOK(d)' /\ Open(c.r)
    <3>1. ent.status \in Active /\ target[c.r][c.n].status \in Active
      BY <1>7, <1>8, <1>13, <1>15, <2>4 DEF Busy, Active
    <3>2. /\ Pending(c.r)' = Pending(c.r) /\ Busy(c.r)' = Busy(c.r)
          /\ Failed(c.r)' = Failed(c.r)
      BY <1>6, <1>10, <3>1 DEF Pending, Busy, Failed, Active
    <3>3. Settled(c.r)'
      BY <1>4, <1>13, <2>4, <3>2 DEF Settled, OneInOrder, NoneGiven, Live, Open
    <3> QED
      BY <1>3, <1>4, <1>13, <2>2, <2>4, <3>3 DEF StepOK, Open
  <2> QED
    BY <1>1, <1>4, <1>9, <1>10, <1>11, <1>12, <2>1, <2>2, <2>3, <2>4, Proceed
<1> QED
  BY <1>4, <1>14, <1>15

LEMMA SaveMessageInv ==
    ASSUME RolloutInv, NEW s \in Slots, SaveMessage(s)
    PROVE  RolloutInv'
<1>1. PICK c : c = slot[s]
  OBVIOUS
<1>2. /\ c.pc = "note" /\ c.pc # "idle" /\ SaveRollout(c.r, c.rent)
      /\ Goto(s, "reconnect")
      /\ UNCHANGED <<aim, target, overdue, taskVars, nodeVars, faults, reported>>
      /\ UNCHANGED <<tasks, given, version>>
  BY <1>1 DEF SaveMessage, At, taskVars, nodeVars
<1>3. /\ Tables /\ Handlers /\ HandlerOK(c) /\ c \in HandlerStates
      /\ calls \in Nat /\ overlapped \in BOOLEAN /\ tasks \in Nat
  BY <1>1, <1>2, Running
<1>4. c.r \in Rollouts /\ rollout[c.r] # "none" /\ c.rent \in RolloutStatuses \ {"none"}
      /\ c.report \in Reports
  BY <1>2, <1>3 DEF HandlerOK, HandlerStates
<1>5. PICK d \in HandlerStates :
         /\ slot' = [slot EXCEPT ![s] = d]
         /\ Is(d, c.op, "reconnect", c.r, c.rent, c.n, c.tent, c.nodes, c.ver, c.report,
               c.todo)
         /\ calls' = calls /\ overlapped' = overlapped
  BY <1>1, <1>2, <1>3, GotoStep DEF Pcs
<1>6. /\ Tables' /\ rollout'[c.r] = c.rent
      /\ \A q \in Rollouts \ {c.r} : rollout'[q] = rollout[q]
  BY <1>2, <1>3, <1>4, <1>5, RolloutSaved
<1>7. Grows(s)
  BY <1>2, <1>3, <1>4, <1>6 DEF Grows
<1>8. /\ d.r = c.r /\ d.pc = "reconnect" /\ d.todo = c.todo /\ d.tent = c.tent
      /\ d.report = c.report
  BY <1>5 DEF Is
<1>9. HandlerOK(d)'
  <2>1. c.tent.task <= tasks' /\ \A e \in c.todo : e.tent.task <= tasks' /\ rollout'[e.r] # "none"
    BY <1>3, <1>6, <1>7, Carried
  <2> QED
    BY <1>2, <1>3, <1>4, <1>6, <1>8, <2>1 DEF HandlerOK
<1>10. \A q \in Rollouts \ {c.r} : Untouched(q)
  BY <1>2, <1>6 DEF Untouched
<1>11. ASSUME StepOK(c) PROVE StepOK(d)' /\ (Open(c.r)' => Open(c.r))
  <2>1. c.todo = {} /\ Settled(c.r) /\ c.rent = rollout[c.r]
    BY <1>2, <1>11 DEF StepOK
  <2>2. Untouched(c.r)
    BY <1>2, <1>6, <2>1 DEF Untouched
  <2>3. Settled(c.r)' /\ (Open(c.r)' => Open(c.r))
    BY <1>4, <2>1, <2>2, UntouchedStays
  <2> QED
    BY <1>8, <2>1, <2>3 DEF StepOK
<1> QED
  BY <1>1, <1>2, <1>5, <1>6, <1>7, <1>8, <1>9, <1>10, <1>11, Proceed

LEMMA CheckReconnectInv ==
    ASSUME RolloutInv, NEW s \in Slots, CheckReconnect(s)
    PROVE  RolloutInv'
<1>1. PICK c : c = slot[s]
  OBVIOUS
<1>2. PICK d : d = [c EXCEPT !.pc = "observe", !.ver = version[c.n]]
  OBVIOUS
<1>3. /\ c.pc = "reconnect" /\ c.pc # "idle"
      /\ \/ slot' = [slot EXCEPT ![s] = d] /\ UNCHANGED <<calls, overlapped>>
         \/ End(s)
      /\ UNCHANGED <<rowVars, taskVars, nodeVars, faults, reported>>
      /\ UNCHANGED <<target, rollout, tasks, given, failedTasks>>
  BY <1>1, <1>2 DEF CheckReconnect, At, rowVars, taskVars
<1>4. /\ Tables /\ Handlers /\ HandlerOK(c) /\ c \in HandlerStates
      /\ failedTasks \subseteq 1 .. tasks
  BY <1>1, <1>3, Running
<1>5. /\ c.r \in Rollouts /\ rollout[c.r] # "none" /\ c.n \in Nodes
      /\ version[c.n] \in Versions \cup {FirstVersion} /\ <<c.n, version[c.n]>> \in reported
  BY <1>3, <1>4 DEF HandlerOK, HandlerStates, Tables, RowTypes
<1>6. ASSUME StepOK(c) PROVE c.todo = {} /\ Settled(c.r)
  BY <1>3, <1>6 DEF StepOK
<1>7. CASE End(s)
  BY <1>1, <1>3, <1>4, <1>6, <1>7, LetGo
<1>8. CASE slot' = [slot EXCEPT ![s] = d] /\ UNCHANGED <<calls, overlapped>>
  <2>1. /\ d \in HandlerStates
        /\ Is(d, c.op, "observe", c.r, c.rent, c.n, c.tent, c.nodes, version[c.n], c.report,
              c.todo)
    BY <1>2, <1>4, <1>5, VersionSeen DEF Pcs
  <2>2. /\ d.r = c.r /\ d.pc = "observe" /\ d.todo = c.todo /\ d.tent = c.tent
        /\ d.n = c.n /\ d.ver = version[c.n]
    BY <2>1 DEF Is
  <2>3. HandlerOK(d)'
    BY <1>3, <1>4, <1>5, <2>1, <2>2 DEF HandlerOK
  <2>4. ASSUME StepOK(c) PROVE StepOK(d)'
    <3>1. Untouched(c.r)
      BY <1>3 DEF Untouched
    <3>2. Settled(c.r)'
      BY <1>5, <1>6, <2>4, <3>1, UntouchedStays
    <3> QED
      BY <1>6, <2>2, <2>4, <3>2 DEF StepOK
  <2> QED
    BY <1>1, <1>3, <1>4, <1>8, <2>2, <2>3, <2>4, GoOn
<1> QED
  BY <1>3, <1>7, <1>8

-----------------------------------------------------------------------------
(* observeNodeVersion.                                                       *)

LEMMA ObserveTargetInv ==
    ASSUME RolloutInv, NEW s \in Slots, ObserveTarget(s)
    PROVE  RolloutInv'
<1>1. PICK c : c = slot[s]
  OBVIOUS
<1>2. /\ c.pc = "observe" /\ c.pc # "idle"
      /\ UNCHANGED <<rowVars, taskVars, nodeVars, faults, reported>>
      /\ UNCHANGED <<target, rollout, aim, overdue, tasks, given, failedTasks>>
  BY <1>1 DEF ObserveTarget, At, rowVars, taskVars
<1>3. /\ Tables /\ Handlers /\ HandlerOK(c) /\ c \in HandlerStates
      /\ calls \in Nat /\ overlapped \in BOOLEAN /\ faults \in Nat /\ tasks \in Nat
      /\ overdue \subseteq Rollouts \X Nodes /\ failedTasks \subseteq 1 .. tasks
      /\ Calm => AloneInv /\ Alone(s) /\ StepOK(c)
  BY <1>1, <1>2, Running
<1>4. c.n \in Nodes /\ <<c.n, c.ver>> \in reported
  BY <1>2, <1>3 DEF HandlerOK, HandlerStates
<1>5. ASSUME StepOK(c) PROVE c.todo = {} /\ (c.r \in Rollouts => Settled(c.r))
  BY <1>2, <1>5 DEF StepOK
<1>6. CASE End(s)
  BY <1>1, <1>2, <1>3, <1>5, <1>6, LetGo
<1>7. ASSUME NEW r \in Waiting(c.n), Confirms(r, c.ver),
             Enter(s, "confirm", r, c.n, target[r][c.n])
      PROVE  RolloutInv'
  <2>1. /\ r \in Rollouts /\ rollout[r] \in {"running", "paused"}
        /\ target[r][c.n].status \notin {"none"} \cup Ended
        /\ aim[r] = c.ver
    BY <1>7 DEF Waiting, Confirms
  <2>2. target[r][c.n] \in Targets /\ target[r][c.n].task <= tasks
    BY <1>3, <1>4, <2>1, TargetRow
  <2>3. PICK d \in HandlerStates :
           /\ slot' = [slot EXCEPT ![s] = d]
           /\ Is(d, d.op, "confirm", r, "none", c.n, target[r][c.n], {}, FirstVersion,
                 "none", c.todo)
           /\ calls' = calls /\ overlapped' = overlapped
    BY <1>1, <1>3, <1>4, <1>7, <2>1, <2>2, EnterStep DEF Pcs
  <2>4. /\ d.r = r /\ d.pc = "confirm" /\ d.todo = c.todo /\ d.n = c.n
        /\ d.tent = target[r][c.n]
    BY <2>3 DEF Is
  <2>5. HandlerOK(d)'
    BY <1>2, <1>3, <1>4, <2>1, <2>2, <2>3, <2>4 DEF HandlerOK
  <2>6. Tables'
    BY <1>2, <1>3, <2>3, NothingSaved
  <2>7. Grows(s) /\ tasks' \in Nat
    BY <1>2, <1>3 DEF Grows
  <2>8. Handlers'
    BY <1>2, <1>3, <2>1, <2>3, <2>4, <2>5, <2>7, HandlersStep
  <2>9. ASSUME Calm' PROVE AloneInv'
    <3>1. AloneInv /\ Alone(s) /\ StepOK(c)
      BY <1>2, <1>3, <2>3, <2>9 DEF Calm
    <3>2. \A q \in Rollouts : Untouched(q)
      BY <1>2 DEF Untouched
    <3>3. \A q \in Rollouts : Settled(q)
      <4> SUFFICES ASSUME NEW q \in Rollouts PROVE Settled(q)
        OBVIOUS
      <4>1. CASE c.r = q
        BY <1>5, <3>1, <4>1
      <4>2. CASE c.r # q
        <5>1. Quiet(q)
          BY <1>1, <3>1, <4>2, IdleOK DEF Quiet, Alone, Is
        <5> QED
          BY <3>1, <5>1 DEF AloneInv
      <4> QED
        BY <4>1, <4>2
    <3>4. \A q \in Rollouts : Settled(q)'
      BY <3>2, <3>3, UntouchedStays
    <3>5. c.n \in Live(r)
      BY <1>4, <2>1, <2>2 DEF Live, Pending, Busy, Targets, TargetStatuses, Active, Ended
    <3>6. c.n \in Live(r)' /\ Open(r)'
      BY <2>1, <3>2, <3>5, UntouchedStays DEF Open
    <3>7. StepOK(d)'
      BY <1>5, <2>1, <2>4, <3>1, <3>4, <3>6 DEF StepOK
    <3>8. \A p, q \in Rollouts : Open(p)' /\ Open(q)' => p = q
      BY <3>1, <3>2, UntouchedStays DEF AloneInv
    <3> QED
      BY <1>1, <1>3, <2>3, <3>1, <3>2, <3>4, <3>7, <3>8, AloneStep
  <2> QED
    BY <2>6, <2>8, <2>9 DEF RolloutInv
<1> QED
  BY <1>1, <1>6, <1>7 DEF ObserveTarget

LEMMA ObserveRolloutInv ==
    ASSUME RolloutInv, NEW s \in Slots, ObserveRollout(s)
    PROVE  RolloutInv'
<1>1. PICK c : c = slot[s]
  OBVIOUS
<1>2. PICK d : d = [c EXCEPT !.pc = "complete", !.rent = rollout[c.r]]
  OBVIOUS
<1>3. /\ c.pc = "confirm" /\ c.pc # "idle" /\ slot' = [slot EXCEPT ![s] = d]
      /\ UNCHANGED <<calls, overlapped, rowVars, taskVars, nodeVars, faults, reported>>
      /\ UNCHANGED <<target, rollout, aim, tasks, given, failedTasks>>
  BY <1>1, <1>2 DEF ObserveRollout, At, rowVars, taskVars
<1>4. /\ Tables /\ Handlers /\ HandlerOK(c) /\ c \in HandlerStates
      /\ failedTasks \subseteq 1 .. tasks
  BY <1>1, <1>3, Running
<1>5. /\ c.r \in Rollouts /\ rollout[c.r] # "none" /\ rollout[c.r] \in RolloutStatuses
      /\ <<c.n, aim[c.r]>> \in reported
  BY <1>3, <1>4 DEF HandlerOK, Tables, RowTypes
<1>6. /\ d \in HandlerStates
      /\ Is(d, c.op, "complete", c.r, rollout[c.r], c.n, c.tent, c.nodes, c.ver, c.report,
            c.todo)
  BY <1>2, <1>4, <1>5, RentChanges DEF Pcs
<1>7. /\ d.r = c.r /\ d.pc = "complete" /\ d.todo = c.todo /\ d.tent = c.tent /\ d.n = c.n
      /\ d.rent = rollout[c.r]
  BY <1>6 DEF Is
<1>8. HandlerOK(d)'
  BY <1>3, <1>4, <1>5, <1>6, <1>7 DEF HandlerOK
<1>9. ASSUME StepOK(c) PROVE StepOK(d)'
  <2>1. c.todo = {} /\ Open(c.r) /\ c.n \in Live(c.r) /\ Settled(c.r)
    BY <1>3, <1>9 DEF StepOK
  <2>2. Untouched(c.r)
    BY <1>3 DEF Untouched
  <2>3. Open(c.r)' /\ c.n \in Live(c.r)' /\ Settled(c.r)'
    BY <1>5, <2>1, <2>2, UntouchedStays
  <2> QED
    BY <1>3, <1>7, <2>1, <2>3 DEF StepOK
<1> QED
  BY <1>1, <1>3, <1>4, <1>7, <1>8, <1>9, GoOn

LEMMA SaveCompletedInv ==
    ASSUME RolloutInv, NEW s \in Slots, SaveCompleted(s)
    PROVE  RolloutInv'
<1>1. PICK c : c = slot[s]
  OBVIOUS
<1>2. PICK ent : ent = [c.tent EXCEPT !.status = "completed"]
  OBVIOUS
<1>3. /\ c.pc = "complete" /\ c.pc # "idle" /\ SaveTarget(c.r, c.n, ent)
      /\ Goto(s, "syncdone")
      /\ UNCHANGED <<rollout, aim, taskVars, nodeVars, faults, reported>>
      /\ UNCHANGED <<tasks, given, version>>
  BY <1>1, <1>2 DEF SaveCompleted, At, taskVars, nodeVars
<1>4. /\ Tables /\ Handlers /\ HandlerOK(c) /\ c \in HandlerStates
      /\ calls \in Nat /\ overlapped \in BOOLEAN /\ tasks \in Nat
  BY <1>1, <1>3, Running
<1>5. /\ c.r \in Rollouts /\ rollout[c.r] # "none" /\ c.n \in Nodes /\ c.tent \in Targets
      /\ c.tent.task <= tasks /\ <<c.n, aim[c.r]>> \in reported
  BY <1>3, <1>4 DEF HandlerOK, HandlerStates
<1>6. ent \in Targets /\ ent.status = "completed" /\ ent.task <= tasks
  BY <1>2, <1>5, StatusSaved DEF TargetStatuses, Ended
<1>7. PICK d \in HandlerStates :
         /\ slot' = [slot EXCEPT ![s] = d]
         /\ Is(d, c.op, "syncdone", c.r, c.rent, c.n, c.tent, c.nodes, c.ver, c.report,
               c.todo)
         /\ calls' = calls /\ overlapped' = overlapped
  BY <1>1, <1>3, <1>4, GotoStep DEF Pcs
<1>8. /\ Tables' /\ target'[c.r][c.n] = ent
      /\ \A m \in Nodes \ {c.n} : target'[c.r][m] = target[c.r][m]
      /\ \A q \in Rollouts \ {c.r} : target'[q] = target[q]
  BY <1>3, <1>4, <1>5, <1>6, <1>7, TargetSaved
<1>9. Grows(s)
  BY <1>3, <1>4 DEF Grows
<1>10. /\ d.r = c.r /\ d.pc = "syncdone" /\ d.todo = c.todo /\ d.tent = c.tent
       /\ d.rent = c.rent
  BY <1>7 DEF Is
<1>11. HandlerOK(d)'
  BY <1>3, <1>4, <1>5, <1>7, <1>10 DEF HandlerOK
<1>12. \A q \in Rollouts \ {c.r} : Untouched(q)
  BY <1>3, <1>8 DEF Untouched
<1>13. ASSUME StepOK(c) PROVE StepOK(d)' /\ Open(c.r)
  <2>1. c.todo = {} /\ Open(c.r) /\ Settled(c.r) /\ c.rent = rollout[c.r]
    BY <1>3, <1>13 DEF StepOK
  <2>2. /\ Busy(c.r)' = Busy(c.r) \ {c.n} /\ Failed(c.r)' = Failed(c.r) \ {c.n}
        /\ Pending(c.r)' = Pending(c.r) \ {c.n}
    BY <1>5, <1>6, <1>8 DEF Pending, Busy, Failed, Active
  <2>3. Settled(c.r)'
    BY <1>3, <2>1, <2>2 DEF Settled, OneInOrder, NoneGiven, Open
  <2> QED
    BY <1>3, <1>10, <2>1, <2>3 DEF StepOK
<1> QED
  BY <1>1, <1>3, <1>7, <1>8, <1>9, <1>10, <1>11, <1>12, <1>13, Proceed

-----------------------------------------------------------------------------
(* The monitor.                                                              *)

LEMMA ReconcileTargetInv ==
    ASSUME RolloutInv, ReconcileTarget
    PROVE  RolloutInv'
<1>1. PICK c : c = slot[Monitor]
  OBVIOUS
<1>2. PICK e \in c.todo :
         slot' = [slot EXCEPT ![Monitor] =
            IF Verdict(e) = "each" /\ c.todo = {e} THEN Idle
            ELSE [c EXCEPT !.pc = Verdict(e), !.r = e.r, !.n = e.n,
                           !.tent = e.tent, !.ver = version[e.n],
                           !.todo = @ \ {e}]]
  BY <1>1, Zenon DEF ReconcileTarget
<1>3. /\ c.pc = "each" /\ c.pc # "idle"
      /\ UNCHANGED <<calls, overlapped>>
      /\ UNCHANGED <<rowVars, taskVars, nodeVars, faults, reported>>
      /\ UNCHANGED <<target, rollout, aim, overdue, tasks, given, failedTasks>>
  BY <1>1 DEF ReconcileTarget, At, rowVars, taskVars
<1>4. /\ Tables /\ Handlers /\ HandlerOK(c) /\ c \in HandlerStates /\ Monitor \in Slots
      /\ calls \in Nat /\ overlapped \in BOOLEAN /\ faults \in Nat /\ tasks \in Nat
      /\ overdue \subseteq Rollouts \X Nodes /\ failedTasks \subseteq 1 .. tasks
      /\ Calm => AloneInv /\ Alone(Monitor) /\ StepOK(c)
  BY <1>1, <1>3, Running, IdleOK
<1>5. /\ e.r \in Rollouts /\ e.n \in Nodes /\ e.tent \in Targets
      /\ rollout[e.r] # "none" /\ e.tent.task <= tasks
      /\ c.todo \ {e} \in SUBSET Entries
  BY <1>2, <1>4 DEF HandlerOK, HandlerStates, Entries
<1>6. version[e.n] \in Versions \cup {FirstVersion} /\ <<e.n, version[e.n]>> \in reported
  BY <1>4, <1>5 DEF Tables, RowTypes
<1>7. Verdict(e) \in {"observe", "fail", "each"}
  BY Zenon DEF Verdict
<1>8. Tables'
  BY <1>3, <1>4, NothingSaved
<1>9. Grows(Monitor) /\ tasks' \in Nat /\ \A q \in Rollouts : Untouched(q)
  BY <1>3, <1>4 DEF Grows, Untouched
<1>10. ASSUME StepOK(c)
       PROVE  /\ c.r = NoRollout /\ c.todo = {e} /\ rollout[e.r] = "running"
              /\ e.n \in Busy(e.r)
  BY <1>2, <1>3, <1>10 DEF StepOK
<1>11. ASSUME Calm' PROVE AloneInv /\ Alone(Monitor) /\ StepOK(c) /\ c.r \notin Rollouts
  <2>1. Calm
    BY <1>3, <1>11 DEF Calm
  <2> QED
    BY <1>4, <1>10, <2>1, IdleOK
<1>12. CASE Verdict(e) = "each" /\ c.todo = {e}
  <2>1. slot' = [slot EXCEPT ![Monitor] = Idle]
    BY <1>2, <1>12
  <2>2. Handlers'
    BY <1>4, <1>9, <2>1, HandlersEnd
  <2>3. ASSUME Calm' PROVE AloneInv'
    BY <1>1, <1>4, <1>9, <1>11, <2>1, <2>3, AloneEnd
  <2> QED
    BY <1>8, <2>2, <2>3 DEF RolloutInv
<1>13. CASE ~(Verdict(e) = "each" /\ c.todo = {e})
  <2>1. PICK d : d = [c EXCEPT !.pc = Verdict(e), !.r = e.r, !.n = e.n, !.tent = e.tent,
                               !.ver = version[e.n], !.todo = c.todo \ {e}]
    OBVIOUS
  <2>2. slot' = [slot EXCEPT ![Monitor] = d]
    BY <1>2, <1>13, <2>1, Zenon
  <2>3. /\ d \in HandlerStates
        /\ Is(d, c.op, Verdict(e), e.r, c.rent, e.n, e.tent, c.nodes, version[e.n], c.report,
              c.todo \ {e})
    <3>1. PICK pc \in Pcs : pc = Verdict(e)
      BY <1>7 DEF Pcs
    <3>2. PICK ver \in Versions \cup {FirstVersion} : ver = version[e.n]
      BY <1>6
    <3>3. PICK r \in Rollouts, n \in Nodes, tent \in Targets, todo \in SUBSET Entries :
             r = e.r /\ n = e.n /\ tent = e.tent /\ todo = c.todo \ {e}
      BY <1>5
    <3>4. d = [c EXCEPT !.pc = pc, !.r = r, !.n = n, !.tent = tent, !.ver = ver,
                        !.todo = todo]
      BY <2>1, <3>1, <3>2, <3>3
    <3>5. c \in HandlerStates
      BY <1>4
    <3>6. /\ d \in HandlerStates
          /\ Is(d, c.op, pc, r, c.rent, n, tent, c.nodes, ver, c.report, todo)
      <4>1. Is(d, c.op, pc, r, c.rent, n, tent, c.nodes, ver, c.report, todo)
        BY <3>4, <3>5, HandlerDomain, Zenon DEF Is
      <4>2. d = [x \in {"op", "pc", "r", "rent", "n", "tent", "nodes", "ver", "report",
                        "todo"} |-> d[x]]
        BY <3>4, <3>5, HandlerDomain, Zenon
      <4>3. /\ c.op \in Ops /\ c.rent \in RolloutStatuses /\ c.nodes \in SUBSET Nodes
            /\ c.report \in Reports \cup {"none"}
        BY <3>5 DEF HandlerStates
      <4> QED
        BY <4>1, <4>2, <4>3 DEF HandlerStates, Is
    <3> QED
      BY <3>1, <3>2, <3>3, <3>6
  <2>4. /\ d.r = e.r /\ d.pc = Verdict(e) /\ d.todo = c.todo \ {e} /\ d.tent = e.tent
        /\ d.n = e.n /\ d.ver = version[e.n]
    BY <2>3 DEF Is
  <2>5. HandlerOK(d)'
    BY <1>3, <1>4, <1>5, <1>6, <1>7, <2>3, <2>4 DEF HandlerOK
  <2>6. Handlers'
    <3>1. \A r \in Rollouts : ~(d.r = r /\ rollout'[r] = "none")
      BY <1>3, <1>5, <2>4
    <3>2. Tables /\ Handlers /\ Monitor \in Slots
      BY <1>4
    <3> QED
      BY <1>9, <2>2, <2>5, <3>1, <3>2, HandlersStep
  <2>7. ASSUME Calm' PROVE AloneInv'
    <3>1. /\ AloneInv /\ Alone(Monitor) /\ StepOK(c) /\ c.r \notin Rollouts
          /\ c.r = NoRollout /\ c.todo = {e} /\ rollout[e.r] = "running"
          /\ e.n \in Busy(e.r)
      BY <1>10, <1>11, <2>7
    <3>2. Settled(e.r)
      <4>1. Quiet(e.r)
        BY <1>1, <1>5, <3>1, IdleOK DEF Quiet, Alone, Is
      <4> QED
        BY <1>5, <3>1, <4>1 DEF AloneInv
    <3>3. Failing(e.r, e.n)
      BY <3>1, <3>2 DEF Settled, OneInOrder, NoneGiven, Failing
    <3>4. Settled(e.r)' /\ Failing(e.r, e.n)'
      BY <1>5, <1>9, <3>2, <3>3, UntouchedStays
    <3>5. d.pc \in {"observe", "fail"} /\ d.todo = {}
      BY <1>7, <1>13, <2>4, <3>1
    <3>6. StepOK(d)'
      BY <2>4, <3>4, <3>5 DEF StepOK
    <3>7. \A p, q \in Rollouts : Open(p)' /\ Open(q)' => p = q
      BY <1>9, <3>1, UntouchedStays DEF AloneInv
    <3> QED
      BY <1>1, <1>4, <1>9, <2>2, <3>1, <3>6, <3>7, AloneStep
  <2> QED
    BY <1>8, <2>6, <2>7 DEF RolloutInv
<1> QED
  BY <1>12, <1>13

-----------------------------------------------------------------------------
(* Calls.                                                                    *)

\* A call begins: if it is alone, all rollouts are settled.
LEMMA Begins ==
    ASSUME RolloutInv, NEW s \in Slots, NEW f, Begin(s, f)
    PROVE  /\ Tables /\ Handlers /\ calls' \in Nat /\ overlapped' \in BOOLEAN
           /\ faults \in Nat /\ tasks \in Nat
           /\ overdue \subseteq Rollouts \X Nodes /\ failedTasks \subseteq 1 .. tasks
           /\ slot[s] = Idle /\ slot' = [slot EXCEPT ![s] = f]
           /\ ~overlapped' => ~overlapped /\ Alone(s)
           /\ ~overlapped' /\ Calm => AloneInv /\ \A r \in Rollouts : Settled(r)
<1>1. /\ Tables /\ Handlers /\ calls \in Nat /\ overlapped \in BOOLEAN
      /\ faults \in Nat /\ tasks \in Nat
      /\ overdue \subseteq Rollouts \X Nodes /\ failedTasks \subseteq 1 .. tasks
  BY AgentUpdatesAssumption DEF RolloutInv, Tables, RowTypes, TaskIds
<1>2. /\ slot[s] = Idle /\ slot' = [slot EXCEPT ![s] = f]
      /\ overlapped' = (overlapped \/ \E q \in Slots : slot[q] # Idle)
      /\ calls' = IF s = Monitor THEN calls ELSE calls + 1
  BY DEF Begin
<1>3. calls' \in Nat
  BY <1>1, <1>2
<1>4. overlapped' \in BOOLEAN
  <2>1. (overlapped \/ \E q \in Slots : slot[q] # Idle) \in BOOLEAN
    BY <1>1, Zenon
  <2> QED
    BY <1>2, <2>1
<1>5. ASSUME ~overlapped' PROVE ~overlapped /\ \A q \in Slots : slot[q] = Idle
  BY <1>2, <1>5
<1>6. ASSUME ~overlapped', Calm PROVE AloneInv /\ \A r \in Rollouts : Settled(r)
  <2>1. \A r \in Rollouts : Quiet(r)
    BY <1>5, <1>6, IdleOK DEF Quiet, Is
  <2> QED
    BY <1>6, <2>1 DEF RolloutInv, AloneInv
<1> QED
  BY <1>1, <1>2, <1>3, <1>4, <1>5, <1>6 DEF Alone

LEMMA BeginInv ==
    ASSUME RolloutInv, NEW s \in Slots, NEW f, Begin(s, f), Tables', HandlerOK(f)',
           UNCHANGED <<rollout, aim, target, tasks, given, faults>>,
           reported \subseteq reported',
           f.r \in Rollouts /\ rollout[f.r] = "none" => Quiet(f.r),
           AloneInv /\ (\A r \in Rollouts : Settled(r)) => StepOK(f)'
    PROVE  RolloutInv'
<1>1. /\ Tables /\ Handlers /\ tasks \in Nat
      /\ slot[s] = Idle /\ slot' = [slot EXCEPT ![s] = f]
      /\ ~overlapped' => ~overlapped /\ Alone(s)
      /\ ~overlapped' /\ Calm => AloneInv /\ \A r \in Rollouts : Settled(r)
  BY Begins
<1>2. Grows(s) /\ tasks' \in Nat /\ \A q \in Rollouts : Untouched(q)
  BY <1>1 DEF Grows, Untouched
<1>3. Handlers'
  BY <1>1, <1>2, HandlersStep
<1>4. ASSUME Calm' PROVE AloneInv'
  <2>1. ~overlapped' /\ Calm
    BY <1>1, <1>4 DEF Calm
  <2>2. /\ AloneInv /\ Alone(s) /\ StepOK(f)' /\ \A q \in Rollouts : Settled(q)
    BY <1>1, <2>1
  <2>3. Idle = slot[s] /\ Idle.r \notin Rollouts
    BY <1>1, IdleOK DEF Is
  <2>4. \A p, q \in Rollouts : Open(p)' /\ Open(q)' => p = q
    BY <1>2, <2>2, UntouchedStays DEF AloneInv
  <2> QED
    BY <1>1, <1>2, <2>2, <2>3, <2>4, AloneStep
<1> QED
  BY <1>3, <1>4 DEF RolloutInv

LEMMA CreateRolloutInv ==
    ASSUME RolloutInv, NEW s \in Calls, NEW r \in Rollouts, NEW ns \in Selections,
           NEW v \in Versions, CreateRollout(s, r, ns, v)
    PROVE  RolloutInv'
<1>1. s \in Slots
  BY DEF Slots
<1>2. PICK f : f = [Idle EXCEPT !.op = "create", !.pc = "insert", !.r = r, !.nodes = ns,
                                !.ver = v]
  OBVIOUS
<1>3. /\ rollout[r] = "none" /\ Quiet(r)
      /\ \A q \in Rollouts : rollout[q] \notin {"queued", "running", "paused"}
      /\ Begin(s, f)
      /\ UNCHANGED <<rowVars, taskVars, nodeVars, faults, reported>>
      /\ UNCHANGED <<target, rollout, aim, overdue, tasks, given, failedTasks>>
  BY <1>2, Zenon DEF CreateRollout, Quiet, rowVars, taskVars
<1>4. f = [op |-> "create", pc |-> "insert", r |-> r, rent |-> "none", n |-> 1,
           tent |-> NoTarget, nodes |-> ns, ver |-> v, report |-> "none", todo |-> {}]
  BY <1>2 DEF Idle
<1>5. ns \in SUBSET Nodes
  BY AgentUpdatesAssumption DEF Nodes
<1>6. f \in HandlerStates
  BY <1>4, <1>5, IdleOK DEF HandlerStates, Ops, Pcs, RolloutStatuses
<1>7. /\ Tables /\ calls' \in Nat /\ overlapped' \in BOOLEAN /\ faults \in Nat /\ tasks \in Nat
      /\ overdue \subseteq Rollouts \X Nodes /\ failedTasks \subseteq 1 .. tasks
  BY <1>1, <1>3, Begins
<1>8. Tables'
  BY <1>3, <1>7, NothingSaved
<1>9. HandlerOK(f)'
  BY <1>3, <1>4, <1>6, <1>7 DEF HandlerOK, NoTarget
<1>10. StepOK(f)'
  BY <1>3, <1>4 DEF StepOK, Open
<1>11. f.r = r
  BY <1>4
<1> QED
  BY <1>1, <1>3, <1>8, <1>9, <1>10, <1>11, BeginInv

LEMMA ResumeRolloutInv ==
    ASSUME RolloutInv, NEW s \in Calls, NEW r \in Rollouts, ResumeRollout(s, r)
    PROVE  RolloutInv'
<1>1. s \in Slots
  BY DEF Slots
<1>2. PICK f : f = [Idle EXCEPT !.op = "resume", !.pc = "restart", !.r = r]
  OBVIOUS
<1>3. /\ rollout[r] = "paused" /\ \A n \in Nodes : target[r][n].status # "failed"
      /\ Begin(s, f)
      /\ UNCHANGED <<rowVars, taskVars, nodeVars, faults, reported>>
      /\ UNCHANGED <<target, rollout, aim, overdue, tasks, given, failedTasks>>
  BY <1>2, Zenon DEF ResumeRollout, rowVars, taskVars
<1>4. f = [op |-> "resume", pc |-> "restart", r |-> r, rent |-> "none", n |-> 1,
           tent |-> NoTarget, nodes |-> {}, ver |-> FirstVersion, report |-> "none",
           todo |-> {}]
  BY <1>2 DEF Idle
<1>5. f \in HandlerStates
  BY <1>4, IdleOK DEF HandlerStates, Ops, Pcs, RolloutStatuses
<1>6. /\ Tables /\ calls' \in Nat /\ overlapped' \in BOOLEAN /\ faults \in Nat /\ tasks \in Nat
      /\ overdue \subseteq Rollouts \X Nodes /\ failedTasks \subseteq 1 .. tasks
  BY <1>1, <1>3, Begins
<1>7. Tables'
  BY <1>3, <1>6, NothingSaved
<1>8. HandlerOK(f)'
  BY <1>3, <1>4, <1>5, <1>6 DEF HandlerOK, NoTarget
<1>9. ASSUME \A q \in Rollouts : Settled(q) PROVE StepOK(f)'
  <2>1. Ready(r)
    BY <1>3, <1>9 DEF Settled, Ready, NoneGiven, Failed
  <2>2. Ready(r)' /\ Settled(r)'
    BY <1>3, <1>9, <2>1, UntouchedStays DEF Untouched
  <2> QED
    BY <1>3, <1>4, <2>2 DEF StepOK
<1>10. f.r = r
  BY <1>4
<1> QED
  BY <1>1, <1>3, <1>7, <1>8, <1>9, <1>10, BeginInv

LEMMA CancelRolloutInv ==
    ASSUME RolloutInv, NEW s \in Calls, NEW r \in Rollouts, CancelRollout(s, r)
    PROVE  RolloutInv'
<1>1. s \in Slots
  BY DEF Slots
<1>2. PICK f : f = [Idle EXCEPT !.op = "cancel", !.pc = "cancel", !.r = r]
  OBVIOUS
<1>3. /\ rollout[r] \notin {"none", "completed", "cancelled"}
      /\ Begin(s, f)
      /\ UNCHANGED <<rowVars, taskVars, nodeVars, faults, reported>>
      /\ UNCHANGED <<target, rollout, aim, overdue, tasks, given, failedTasks>>
  BY <1>2, Zenon DEF CancelRollout, rowVars, taskVars
<1>4. f = [op |-> "cancel", pc |-> "cancel", r |-> r, rent |-> "none", n |-> 1,
           tent |-> NoTarget, nodes |-> {}, ver |-> FirstVersion, report |-> "none",
           todo |-> {}]
  BY <1>2 DEF Idle
<1>5. f \in HandlerStates
  BY <1>4, IdleOK DEF HandlerStates, Ops, Pcs, RolloutStatuses
<1>6. /\ Tables /\ calls' \in Nat /\ overlapped' \in BOOLEAN /\ faults \in Nat /\ tasks \in Nat
      /\ overdue \subseteq Rollouts \X Nodes /\ failedTasks \subseteq 1 .. tasks
  BY <1>1, <1>3, Begins
<1>7. Tables'
  BY <1>3, <1>6, NothingSaved
<1>8. HandlerOK(f)'
  BY <1>3, <1>4, <1>5, <1>6 DEF HandlerOK, NoTarget
<1>9. ASSUME \A q \in Rollouts : Settled(q) PROVE StepOK(f)'
  <2>1. Settled(r)'
    BY <1>3, <1>9, UntouchedStays DEF Untouched
  <2>2. Open(r)'
    BY <1>3, <1>6 DEF Open, Tables, RowTypes, RolloutStatuses
  <2> QED
    BY <1>3, <1>4, <2>1, <2>2 DEF StepOK
<1>10. f.r = r
  BY <1>4
<1> QED
  BY <1>1, <1>3, <1>7, <1>8, <1>9, <1>10, BeginInv

LEMMA ReviewTargetInv ==
    ASSUME RolloutInv, NEW s \in Calls, NEW r \in Rollouts, NEW n \in Nodes,
           NEW op \in {"retry", "skip"}, ReviewTarget(s, op, r, n)
    PROVE  RolloutInv'
<1>1. s \in Slots
  BY DEF Slots
<1>2. PICK f : f = [Idle EXCEPT !.op = op, !.pc = "review", !.r = r, !.n = n,
                                !.tent = target[r][n]]
  OBVIOUS
<1>3. /\ rollout[r] = "paused" /\ target[r][n].status = "failed"
      /\ Begin(s, f)
      /\ UNCHANGED <<rowVars, taskVars, nodeVars, faults, reported>>
      /\ UNCHANGED <<target, rollout, aim, overdue, tasks, given, failedTasks>>
  BY <1>2, Zenon DEF ReviewTarget, rowVars, taskVars
<1>4. f = [op |-> op, pc |-> "review", r |-> r, rent |-> "none", n |-> n,
           tent |-> target[r][n], nodes |-> {}, ver |-> FirstVersion, report |-> "none",
           todo |-> {}]
  BY <1>2 DEF Idle
<1>5. /\ Tables /\ calls' \in Nat /\ overlapped' \in BOOLEAN /\ faults \in Nat /\ tasks \in Nat
      /\ overdue \subseteq Rollouts \X Nodes /\ failedTasks \subseteq 1 .. tasks
  BY <1>1, <1>3, Begins
<1>6. target[r][n] \in Targets /\ target[r][n].task <= tasks
  BY <1>5 DEF Tables, RowTypes
<1>7. f \in HandlerStates
  BY <1>4, <1>6 DEF HandlerStates, Ops, Pcs, RolloutStatuses
<1>8. Tables'
  BY <1>3, <1>5, NothingSaved
<1>9. HandlerOK(f)'
  BY <1>3, <1>4, <1>6, <1>7 DEF HandlerOK
<1>10. ASSUME \A q \in Rollouts : Settled(q) PROVE StepOK(f)'
  <2>1. Settled(r)'
    BY <1>3, <1>10, UntouchedStays DEF Untouched
  <2>2. n \in Failed(r)'
    BY <1>3 DEF Failed
  <2> QED
    BY <1>3, <1>4, <2>1, <2>2 DEF StepOK
<1>11. f.r = r
  BY <1>4
<1> QED
  BY <1>1, <1>3, <1>8, <1>9, <1>10, <1>11, BeginInv

LEMMA ReportProgressInv ==
    ASSUME RolloutInv, NEW s \in Calls, NEW r \in Rollouts, NEW n \in Nodes,
           NEW st \in Reports, ReportProgress(s, r, n, st)
    PROVE  RolloutInv'
<1>1. s \in Slots
  BY DEF Slots
<1>2. PICK f : f = [Idle EXCEPT !.op = "progress", !.pc = "progress", !.r = r, !.n = n,
                                !.tent = target[r][n], !.report = st]
  OBVIOUS
<1>3. /\ target[r][n].status \notin {"none"} \cup Ended /\ <<r, n>> \in given
      /\ Begin(s, f)
      /\ UNCHANGED <<rowVars, taskVars, nodeVars, faults, reported>>
      /\ UNCHANGED <<target, rollout, aim, overdue, tasks, given, failedTasks>>
  BY <1>2, Zenon DEF ReportProgress, rowVars, taskVars
<1>4. f = [op |-> "progress", pc |-> "progress", r |-> r, rent |-> "none", n |-> n,
           tent |-> target[r][n], nodes |-> {}, ver |-> FirstVersion, report |-> st,
           todo |-> {}]
  BY <1>2 DEF Idle
<1>5. /\ Tables /\ calls' \in Nat /\ overlapped' \in BOOLEAN /\ faults \in Nat /\ tasks \in Nat
      /\ overdue \subseteq Rollouts \X Nodes /\ failedTasks \subseteq 1 .. tasks
  BY <1>1, <1>3, Begins
<1>6. /\ target[r][n] \in Targets /\ target[r][n].task <= tasks /\ rollout[r] # "none"
  BY <1>3, <1>5 DEF Tables, RowTypes
<1>7. f \in HandlerStates
  BY <1>4, <1>6 DEF HandlerStates, Ops, Pcs, RolloutStatuses
<1>8. Tables'
  BY <1>3, <1>5, NothingSaved
<1>9. HandlerOK(f)'
  BY <1>3, <1>4, <1>6, <1>7 DEF HandlerOK
<1>10. ASSUME \A q \in Rollouts : Settled(q) PROVE StepOK(f)'
  <2>1. Settled(r)'
    BY <1>3, <1>10, UntouchedStays DEF Untouched
  <2>2. n \in Busy(r)
    <3>1. n \notin Pending(r)
      BY <1>3, <1>10 DEF Settled, NoneGiven
    <3> QED
      BY <1>3, <1>6, <3>1 DEF Targets, TargetStatuses, Pending, Busy, Ended
  <2>3. n \in Busy(r)'
    BY <1>3, <2>2 DEF Busy
  <2> QED
    BY <1>3, <1>4, <2>1, <2>3 DEF StepOK
<1>11. f.r = r
  BY <1>4
<1> QED
  BY <1>1, <1>3, <1>6, <1>8, <1>9, <1>10, <1>11, BeginInv

LEMMA HeartbeatInv ==
    ASSUME RolloutInv, NEW s \in Calls, NEW n \in Nodes,
           NEW v \in Versions \cup {FirstVersion}, Heartbeat(s, n, v)
    PROVE  RolloutInv'
<1>1. s \in Slots
  BY DEF Slots
<1>2. PICK f : f = [Idle EXCEPT !.op = "heartbeat", !.pc = "observe", !.n = n, !.ver = v]
  OBVIOUS
<1>3. /\ Begin(s, f)
      /\ version' = [version EXCEPT ![n] = v] /\ online' = online \cup {n}
      /\ reported' = reported \cup {<<n, v>>}
      /\ UNCHANGED <<rowVars, taskVars, maintenance, changes, faults>>
      /\ UNCHANGED <<target, rollout, aim, overdue, tasks, given, failedTasks>>
  BY <1>2, Zenon DEF Heartbeat, rowVars, taskVars
<1>4. f = [op |-> "heartbeat", pc |-> "observe", r |-> NoRollout, rent |-> "none", n |-> n,
           tent |-> NoTarget, nodes |-> {}, ver |-> v, report |-> "none",
           todo |-> {}]
  BY <1>2 DEF Idle
<1>5. f \in HandlerStates
  BY <1>4, IdleOK DEF HandlerStates, Ops, Pcs, RolloutStatuses
<1>6. /\ Tables /\ calls' \in Nat /\ overlapped' \in BOOLEAN /\ faults \in Nat /\ tasks \in Nat
  BY <1>1, <1>3, Begins
<1>7. Tables'
  <2>1. version' \in [Nodes -> Versions \cup {FirstVersion}]
        /\ \A m \in Nodes : version'[m] = IF m = n THEN v ELSE version[m]
    BY <1>3, <1>6 DEF Tables, RowTypes
  <2>2. RowTypes'
    BY <1>3, <1>6, <2>1 DEF Tables, RowTypes
  <2>3. CompletedWasReported'
    BY <1>3, <1>6 DEF Tables, CompletedWasReported
  <2>4. \A m \in Nodes : <<m, version'[m]>> \in reported'
    BY <1>3, <1>6, <2>1 DEF Tables
  <2> QED
    BY <1>3, <1>6, <2>2, <2>3, <2>4 DEF Tables
<1>8. HandlerOK(f)'
  BY <1>3, <1>4, <1>5, <1>6, IdleOK DEF HandlerOK, NoTarget
<1>9. StepOK(f)'
  BY <1>4, IdleOK DEF StepOK
<1>10. f.r \notin Rollouts
  BY <1>4, IdleOK
<1> QED
  BY <1>1, <1>3, <1>7, <1>8, <1>9, <1>10, BeginInv

LEMMA SelectActiveInv ==
    ASSUME RolloutInv, SelectActive
    PROVE  RolloutInv'
<1>1. Monitor \in Slots
  BY IdleOK
<1>2. PICK list : list = {Entry(p[1], p[2]) : p \in Updating}
  OBVIOUS
<1>3. PICK f : f = [Idle EXCEPT !.op = "monitor", !.pc = "each", !.todo = list]
  OBVIOUS
<1>4. /\ Begin(Monitor, f)
      /\ UNCHANGED <<rowVars, taskVars, nodeVars, faults, reported>>
      /\ UNCHANGED <<target, rollout, aim, overdue, tasks, given, failedTasks>>
  BY <1>2, <1>3, Zenon DEF SelectActive, rowVars, taskVars
<1>5. f = [op |-> "monitor", pc |-> "each", r |-> NoRollout, rent |-> "none", n |-> 1,
           tent |-> NoTarget, nodes |-> {}, ver |-> FirstVersion, report |-> "none",
           todo |-> list]
  BY <1>3 DEF Idle
<1>6. /\ Tables /\ calls' \in Nat /\ overlapped' \in BOOLEAN /\ faults \in Nat /\ tasks \in Nat
      /\ overdue \subseteq Rollouts \X Nodes /\ failedTasks \subseteq 1 .. tasks
  BY <1>1, <1>4, Begins
<1>7. ASSUME NEW e \in list
      PROVE  /\ e \in Entries /\ e.tent.task <= tasks
             /\ e.r \in Rollouts /\ e.n \in Busy(e.r) /\ rollout[e.r] = "running"
             /\ e = Entry(e.r, e.n)
  <2>1. PICK p \in Updating : e = Entry(p[1], p[2])
    BY <1>2, <1>7
  <2>2. PICK r \in Rollouts, n \in Nodes : r = p[1] /\ n = p[2]
    BY <2>1 DEF Updating
  <2>3. target[r][n].status \in Active /\ rollout[r] = "running"
    BY <2>1, <2>2 DEF Updating
  <2>4. e = Entry(r, n)
    BY <2>1, <2>2
  <2>5. /\ Entry(r, n) \in Entries /\ Entry(r, n).r = r /\ Entry(r, n).n = n
        /\ Entry(r, n).tent.task <= tasks
    BY <1>6, EntryOK
  <2> QED
    BY <2>3, <2>4, <2>5 DEF Busy
<1>8. f \in HandlerStates
  BY <1>5, <1>7, IdleOK DEF HandlerStates, Ops, Pcs, RolloutStatuses
<1>9. Tables'
  BY <1>4, <1>6, NothingSaved
<1>10. HandlerOK(f)'
  BY <1>4, <1>5, <1>6, <1>7, <1>8, IdleOK DEF HandlerOK, NoTarget
<1>11. ASSUME AloneInv, \A q \in Rollouts : Settled(q) PROVE StepOK(f)'
  <2>1. ASSUME NEW d \in list, NEW e \in list PROVE d = e
    <3>1. d.r = e.r
      BY <1>7, <1>11, <2>1 DEF AloneInv, Open
    <3>2. d.n = e.n
      BY <1>7, <1>11, <2>1, <3>1 DEF Settled, OneInOrder
    <3> QED
      BY <1>7, <2>1, <3>1, <3>2
  <2>2. \A e \in list : rollout'[e.r] = "running" /\ e.n \in Busy(e.r)'
    BY <1>4, <1>7 DEF Busy
  <2> QED
    BY <1>5, <2>1, <2>2 DEF StepOK
<1>12. f.r \notin Rollouts
  BY <1>5, IdleOK
<1> QED
  BY <1>1, <1>4, <1>9, <1>10, <1>11, <1>12, BeginInv

-----------------------------------------------------------------------------
(* Steps of the world, and the invariant of the specification.               *)

\* Steps that no handler takes.
LEMMA WorldInv ==
    ASSUME RolloutInv,
           UNCHANGED <<slot, rollout, aim, target, tasks, given, version, reported, faults,
                       calls, overlapped>>,
           overdue' \subseteq Rollouts \X Nodes, failedTasks' \subseteq 1 .. tasks,
           online' \subseteq Nodes, maintenance' \subseteq Nodes, changes' \in Nat
    PROVE  RolloutInv'
<1>1. Tables'
  <2>1. RowTypes'
    BY DEF RolloutInv, Tables, RowTypes
  <2> QED
    BY <2>1 DEF RolloutInv, Tables, CompletedWasReported
<1>2. Handlers'
  BY DEF RolloutInv, Handlers, HandlerOK
<1>3. ASSUME Calm' PROVE AloneInv'
  <2>1. AloneInv
    BY <1>3 DEF RolloutInv, Calm
  <2>2. \A q \in Rollouts : Untouched(q)
    BY DEF Untouched
  <2>3. \A r \in Rollouts : Quiet(r)' => Settled(r)'
    BY <2>1, <2>2, UntouchedStays DEF AloneInv, Quiet
  <2>4. \A p, q \in Rollouts : Open(p)' /\ Open(q)' => p = q
    BY <2>1, <2>2, UntouchedStays DEF AloneInv
  <2>5. ASSUME NEW s \in Slots PROVE StepOK(slot[s])'
    <3>1. PICK c : c = slot[s]
      OBVIOUS
    <3>2. StepOK(c)
      BY <2>1, <3>1 DEF AloneInv
    <3>3. Untouched(c.r)
      BY DEF Untouched
    <3>4. /\ Busy(c.r)' = Busy(c.r) /\ Failed(c.r)' = Failed(c.r)
          /\ Live(c.r)' = Live(c.r) /\ (Open(c.r)' <=> Open(c.r))
          /\ OneInOrder(c.r)' <=> OneInOrder(c.r)
          /\ NoneGiven(c.r)' <=> NoneGiven(c.r)
          /\ Settled(c.r)' <=> Settled(c.r)
          /\ Ready(c.r)' <=> Ready(c.r)
          /\ Chosen(c.r, c.n)' <=> Chosen(c.r, c.n)
          /\ Failing(c.r, c.n)' <=> Failing(c.r, c.n)
      BY <3>3, UntouchedStays
    <3>5. Cancelling(c.r, c.todo) => Cancelling(c.r, c.todo)'
      BY <3>4 DEF Cancelling
    <3>6. /\ \A e \in c.todo : e.n \in Busy(e.r) => e.n \in Busy(e.r)'
          /\ \A q \in Rollouts : Open(q)' => Open(q)
      BY DEF Busy, Open
    <3>7. StepOK(c)'
      BY <3>2, <3>4, <3>5, <3>6 DEF StepOK
    <3>8. slot'[s] = c
      BY <3>1
    <3> QED
      BY <3>7, <3>8 DEF StepOK
  <2> QED
    BY <2>1, <2>3, <2>4, <2>5 DEF AloneInv
<1> QED
  BY <1>1, <1>2, <1>3 DEF RolloutInv

LEMMA HandlerDiesInv ==
    ASSUME RolloutInv, NEW s \in Slots, HandlerDies(s)
    PROVE  RolloutInv'
<1>1. /\ slot' = [slot EXCEPT ![s] = Idle] /\ faults' = faults + 1
      /\ UNCHANGED <<calls, overlapped, taskVars, nodeVars, reported>>
      /\ UNCHANGED <<rollout, aim, target, overdue, tasks, given, failedTasks>>
  BY DEF HandlerDies, rowVars, taskVars
<1>2. /\ Tables /\ Handlers /\ calls \in Nat /\ overlapped \in BOOLEAN /\ faults \in Nat
      /\ tasks \in Nat /\ overdue \subseteq Rollouts \X Nodes /\ failedTasks \subseteq 1 .. tasks
  BY AgentUpdatesAssumption DEF RolloutInv, Tables, RowTypes, TaskIds
<1>3. Tables'
  <2>1. faults' \in Nat
    BY <1>1, <1>2
  <2> QED
    BY <1>1, <1>2, <2>1, NothingSaved
<1>4. Handlers'
  <2>1. Grows(s) /\ tasks' \in Nat
    BY <1>1, <1>2 DEF Grows
  <2> QED
    BY <1>1, <1>2, <2>1, HandlersEnd
<1>5. ~Calm'
  BY <1>1, <1>2 DEF Calm
<1> QED
  BY <1>3, <1>4, <1>5 DEF RolloutInv

LEMMA InitInv == Init => RolloutInv
<1> SUFFICES ASSUME Init PROVE RolloutInv
  OBVIOUS
<1>1. Tables
  <2>1. /\ \A r \in Rollouts : rollout[r] = "none"
        /\ \A r \in Rollouts, n \in Nodes : target[r][n] = NoTarget
        /\ NoTarget.status = "none" /\ NoTarget.task = 0
        /\ tasks = 0 /\ given = {}
        /\ \A n \in Nodes : version[n] = FirstVersion
        /\ reported = Nodes \X {FirstVersion}
    BY DEF Init, NoTarget
  <2>2. rollout \in [Rollouts -> RolloutStatuses]
    BY DEF Init, RolloutStatuses
  <2>3. target \in [Rollouts -> [Nodes -> Targets]]
    BY IdleOK DEF Init
  <2>4. /\ tasks \in TaskIds /\ failedTasks \subseteq 1 .. tasks
        /\ overdue \subseteq Rollouts \X Nodes /\ online \subseteq Nodes
        /\ maintenance \subseteq Nodes /\ changes \in Nat /\ faults \in Nat
        /\ calls \in Nat /\ overlapped \in BOOLEAN
    BY IdleOK DEF Init
  <2>5. /\ aim \in [Rollouts -> Versions \cup {FirstVersion}]
        /\ version \in [Nodes -> Versions \cup {FirstVersion}]
    BY DEF Init
  <2>6. RowTypes
    BY <2>1, <2>2, <2>3, <2>4, <2>5 DEF RowTypes
  <2>7. CompletedWasReported
    BY <2>1 DEF CompletedWasReported
  <2> QED
    BY <2>1, <2>6, <2>7 DEF Tables
<1>2. HandlerOK(Idle)
  BY <1>1, IdleOK, AgentUpdatesAssumption
     DEF HandlerOK, Is, NoTarget, Tables, RowTypes, TaskIds
<1>3. \A s \in Slots : slot[s] = Idle /\ slot[s].r \notin Rollouts
  BY IdleOK DEF Init, Is
<1>4. Handlers
  <2>1. slot \in [Slots -> HandlerStates]
    BY IdleOK DEF Init
  <2>2. \A s \in Slots : HandlerOK(slot[s])
    BY <1>2, <1>3
  <2> QED
    BY <1>3, <2>1, <2>2 DEF Handlers
<1>5. AloneInv
  <2>1. StepOK(Idle)
    BY IdleOK DEF StepOK, Is
  <2>2. \A r \in Rollouts : /\ rollout[r] = "none" /\ Pending(r) = {} /\ Busy(r) = {}
                            /\ Failed(r) = {}
    BY DEF Init, Pending, Busy, Failed, Active, NoTarget
  <2>3. \A r \in Rollouts : Settled(r) /\ ~Open(r)
    BY <2>2 DEF Settled, OneInOrder, NoneGiven, Live, Open
  <2> QED
    BY <1>3, <2>1, <2>3 DEF AloneInv
<1> QED
  BY <1>1, <1>4, <1>5 DEF RolloutInv

LEMMA NextInv == RolloutInv /\ [Next]_vars => RolloutInv'
<1> SUFFICES ASSUME RolloutInv, [Next]_vars PROVE RolloutInv'
  OBVIOUS
<1>1. /\ overdue \subseteq Rollouts \X Nodes /\ failedTasks \subseteq 1 .. tasks
      /\ online \subseteq Nodes /\ maintenance \subseteq Nodes /\ changes \in Nat
  BY DEF RolloutInv, Tables, RowTypes
<1>2. ASSUME NEW s \in Calls, Operators(s) PROVE RolloutInv'
  BY <1>2, CreateRolloutInv, ResumeRolloutInv, CancelRolloutInv, ReviewTargetInv DEF Operators
<1>3. ASSUME NEW s \in Calls, Agents(s) PROVE RolloutInv'
  BY <1>3, ReportProgressInv, HeartbeatInv DEF Agents
<1>4. ASSUME NEW s \in Slots, Handler(s) PROVE RolloutInv'
  <2>1. CASE DispatchNextTarget(s)
    BY <2>1, LoadRolloutInv, CountActiveInv, FindNextTargetInv, CheckEligibleInv,
       CreateTaskInv, SaveDispatchedInv, SaveRunningInv DEF DispatchNextTarget
  <2>2. CASE PauseRollout(s)
    BY <2>2, SaveFailedInv, SavePausedInv, SyncTaskInv DEF PauseRollout
  <2>3. CASE HandleAgentProgress(s)
    BY <2>3, ProgressLoadRolloutInv, SaveProgressInv, SaveMessageInv, CheckReconnectInv
       DEF HandleAgentProgress
  <2>4. CASE ObserveNodeVersion(s)
    BY <2>4, ObserveTargetInv, ObserveRolloutInv, SaveCompletedInv DEF ObserveNodeVersion
  <2>5. CASE \/ InsertRollout(s) \/ InsertTargets(s) \/ SetRolloutRunning(s)
             \/ SaveReviewed(s) \/ SaveCancelled(s) \/ ListTargets(s)
             \/ CancelTarget(s) \/ CancelTask(s)
    BY <2>5, InsertRolloutInv, InsertTargetsInv, SetRolloutRunningInv, SaveReviewedInv,
       SaveCancelledInv, ListTargetsInv, CancelTargetInv, CancelTaskInv
  <2> QED
    BY <1>4, <2>1, <2>2, <2>3, <2>4, <2>5 DEF Handler
<1>5. ASSUME NEW s \in Slots, HandlerDies(s) PROVE RolloutInv'
  BY <1>5, HandlerDiesInv
<1>6. CASE ReconcileActiveTargets
  BY <1>6, SelectActiveInv, ReconcileTargetInv DEF ReconcileActiveTargets
<1>7. ASSUME NEW r \in Rollouts, NEW n \in Nodes, TargetTimesOut(r, n) PROVE RolloutInv'
  <2>1. /\ overdue' = overdue \cup {<<r, n>>}
        /\ UNCHANGED <<slot, rollout, aim, target, tasks, given, version, reported, faults,
                       calls, overlapped, failedTasks, online, maintenance, changes>>
    BY <1>7 DEF TargetTimesOut, taskVars, nodeVars
  <2> QED
    BY <1>1, <2>1, WorldInv
<1>8. ASSUME NEW k \in 1 .. tasks, TaskFails(k) PROVE RolloutInv'
  <2>1. /\ failedTasks' = failedTasks \cup {k}
        /\ UNCHANGED <<slot, rollout, aim, target, tasks, given, version, reported, faults,
                       calls, overlapped, overdue, online, maintenance, changes>>
    BY <1>8 DEF TaskFails, rowVars, nodeVars
  <2> QED
    BY <1>1, <1>8, <2>1, WorldInv
<1>9. ASSUME NEW n \in Nodes, NodeChanges(n) PROVE RolloutInv'
  <2>1. /\ UNCHANGED <<slot, rollout, aim, target, tasks, given, version, reported, faults,
                       calls, overlapped, overdue, failedTasks>>
        /\ online' \subseteq online \cup {n} /\ maintenance' \subseteq maintenance \cup {n}
        /\ changes' = changes + 1
    BY <1>9 DEF NodeChanges, rowVars, taskVars
  <2>2. online' \subseteq Nodes /\ maintenance' \subseteq Nodes /\ changes' \in Nat
    BY <1>1, <2>1
  <2> QED
    BY <1>1, <2>1, <2>2, WorldInv
<1>10. CASE UNCHANGED vars
  <2>1. /\ UNCHANGED <<slot, rollout, aim, target, tasks, given, version, reported, faults,
                       calls, overlapped, overdue, failedTasks, online, maintenance, changes>>
    BY <1>10 DEF vars, rowVars, taskVars, nodeVars
  <2> QED
    BY <1>1, <2>1, WorldInv
<1> QED
  BY <1>2, <1>3, <1>4, <1>5, <1>6, <1>7, <1>8, <1>9, <1>10 DEF Next

LEMMA InvHolds == Spec => []RolloutInv
  BY InitInv, NextInv, PTL DEF Spec

-----------------------------------------------------------------------------
(* The properties.                                                           *)

\* One active target at most, and none when the rollout is completed.
LEMMA OneAtWork ==
    ASSUME RolloutInv, Calm, NEW r \in Rollouts
    PROVE  /\ \A m, n \in Busy(r) : m = n
           /\ rollout[r] = "completed" => Busy(r) = {}
<1>1. ASSUME Settled(r)
      PROVE  /\ \A m, n \in Busy(r) : m = n
             /\ rollout[r] = "completed" => Busy(r) = {}
  BY <1>1 DEF Settled, OneInOrder, Open, Live
<1>2. CASE Quiet(r)
  BY <1>1, <1>2 DEF RolloutInv, AloneInv
<1>3. CASE ~Quiet(r)
  <2>1. PICK s \in Slots : slot[s].r = r
    BY <1>3 DEF Quiet
  <2>2. PICK c : c = slot[s]
    OBVIOUS
  <2>3. HandlerOK(c) /\ StepOK(c) /\ c.r = r
    BY <2>1, <2>2 DEF RolloutInv, Handlers, AloneInv
  <2>4. c.pc \notin {"idle", "each"}
    BY <2>3, IdleOK DEF HandlerOK, StepOK, Is
  <2>5. CASE c.pc \in {"insert", "targets"}
    <3>1. \A n \in Nodes : target[r][n] = NoTarget
      BY <2>3, <2>5 DEF HandlerOK, StepOK, RolloutInv, Tables
    <3> QED
      BY <3>1 DEF Busy, NoTarget, Active
  <2>6. CASE c.pc \in {"restart", "load", "count", "find"}
    BY <2>3, <2>6 DEF StepOK, Ready, OneInOrder
  <2>7. CASE c.pc \in {"eligible", "create", "dispatched"}
    BY <2>3, <2>7 DEF StepOK, Chosen
  <2>8. CASE c.pc \in {"fail", "pause"}
    BY <2>3, <2>8 DEF StepOK, Failing
  <2>9. CASE c.pc \in {"list", "canceleach", "canceltask"}
    BY <2>3, <2>9 DEF StepOK, Cancelling, OneInOrder
  <2>10. CASE c.pc \in {"running", "review", "cancel", "progress", "report", "note",
                        "reconnect", "confirm", "complete", "syncdone", "syncfailed",
                        "observe"}
    BY <1>1, <2>3, <2>10 DEF StepOK
  <2> QED
    BY <2>3, <2>4, <2>5, <2>6, <2>7, <2>8, <2>9, <2>10 DEF HandlerOK, HandlerStates, Pcs
<1> QED
  BY <1>2, <1>3

\* Nodes are updated one at a time, each is done when it has reported the new
\* version, and no rollout is completed over a node at work (dispatchNextTarget,
\* observeNodeVersion).
THEOREM NodeByNodeHolds == Spec => []NodeByNode
<1>1. RolloutInv => NodeByNode
  <2> SUFFICES ASSUME RolloutInv PROVE NodeByNode
    OBVIOUS
  <2>1. TypeOK
    <3>1. ASSUME NEW s \in Slots
          PROVE  /\ slot[s].tent \in Targets /\ slot[s].rent \in RolloutStatuses
                 /\ slot[s].r \in Rollouts \cup {NoRollout}
                 /\ slot[s].todo \subseteq Entries
      BY DEF RolloutInv, Handlers, HandlerStates
    <3> QED
      BY <3>1 DEF RolloutInv, Tables, RowTypes, TypeOK
  <2>2. CompletedWasReported
    BY DEF RolloutInv, Tables
  <2>3. Sequential
    <3> SUFFICES ASSUME Calm, NEW r \in Rollouts, NEW n \in Nodes,
                        target[r][n].status \in Active
                 PROVE  /\ rollout[r] # "completed"
                        /\ \A m \in Nodes \ {n} : target[r][m].status \notin Active
      BY DEF Sequential
    <3> QED
      BY OneAtWork DEF Busy
  <2> QED
    BY <2>1, <2>2, <2>3 DEF NodeByNode
<1> QED
  BY <1>1, InvHolds, PTL

\* A failed target stops its rollout until an operator has dealt with it
\* (pauseRolloutForTargetFailure, resumeRollout).
THEOREM FailurePausesHolds == Spec => []FailurePauses
<1>1. RolloutInv => FailurePauses
  <2> SUFFICES ASSUME RolloutInv, Calm, NEW r \in Rollouts, NEW n \in Nodes, Quiet(r),
                      target[r][n].status = "failed"
               PROVE  rollout[r] # "running"
    BY DEF FailurePauses
  <2> QED
    BY DEF RolloutInv, AloneInv, Settled, Failed
<1> QED
  BY <1>1, InvHolds, PTL

\* The steps that write rollout rows.
Writes(s) ==
    \/ InsertRollout(s) \/ SetRolloutRunning(s) \/ SaveCancelled(s) \/ FindNextTarget(s)
    \/ SaveRunning(s) \/ SavePaused(s) \/ SaveMessage(s)

LEMMA WritesOnly ==
    ASSUME [Next]_vars
    PROVE  rollout' = rollout \/ \E s \in Slots : Writes(s)
<1>1. ASSUME NEW s \in Calls, Operators(s) \/ Agents(s) PROVE rollout' = rollout
  BY <1>1 DEF Operators, Agents, CreateRollout, ResumeRollout, CancelRollout, ReviewTarget,
              ReportProgress, Heartbeat, rowVars
<1>2. ASSUME NEW s \in Slots, Handler(s) PROVE rollout' = rollout \/ Writes(s)
  <2>1. CASE DispatchNextTarget(s)
    BY <2>1 DEF DispatchNextTarget, Writes, LoadRollout, CountActive, CheckEligible,
                CreateTask, SaveDispatched, rowVars
  <2>2. CASE PauseRollout(s)
    BY <2>2 DEF PauseRollout, Writes, SaveFailed, SyncTask, rowVars
  <2>3. CASE HandleAgentProgress(s)
    BY <2>3 DEF HandleAgentProgress, Writes, ProgressLoadRollout, SaveProgress,
                CheckReconnect, rowVars
  <2>4. CASE ObserveNodeVersion(s)
    BY <2>4 DEF ObserveNodeVersion, ObserveTarget, ObserveRollout, SaveCompleted, rowVars
  <2>5. CASE InsertTargets(s) \/ SaveReviewed(s) \/ ListTargets(s)
             \/ CancelTarget(s) \/ CancelTask(s)
    BY <2>5 DEF InsertTargets, SaveReviewed, ListTargets, CancelTarget, CancelTask, rowVars
  <2>6. CASE InsertRollout(s) \/ SetRolloutRunning(s) \/ SaveCancelled(s)
    BY <2>6 DEF Writes
  <2> QED
    BY <1>2, <2>1, <2>2, <2>3, <2>4, <2>5, <2>6 DEF Handler
<1>3. ASSUME NEW s \in Slots, HandlerDies(s) PROVE rollout' = rollout
  BY <1>3 DEF HandlerDies, rowVars
<1>4. CASE ReconcileActiveTargets
  BY <1>4 DEF ReconcileActiveTargets, SelectActive, ReconcileTarget, rowVars
<1>5. CASE \/ \E r \in Rollouts, n \in Nodes : TargetTimesOut(r, n)
           \/ \E k \in 1 .. tasks : TaskFails(k)
           \/ \E n \in Nodes : NodeChanges(n)
           \/ UNCHANGED vars
  BY <1>5 DEF TargetTimesOut, TaskFails, NodeChanges, rowVars, vars
<1> QED
  BY <1>1, <1>2, <1>3, <1>4, <1>5 DEF Next

\* None of them brings a cancelled rollout back while it runs alone.
LEMMA StaysCancelled ==
    ASSUME RolloutInv, [Next]_vars, Calm', NEW r \in Rollouts, rollout[r] = "cancelled"
    PROVE  rollout'[r] = "cancelled"
<1>1. CASE rollout' = rollout
  BY <1>1
<1>2. ASSUME NEW s \in Slots, Writes(s) PROVE rollout'[r] = "cancelled"
  <2>1. PICK c : c = slot[s]
    OBVIOUS
  <2>2. Calm
    <3>1. CASE InsertRollout(s)
      BY <3>1 DEF Calm, InsertRollout, Goto, End
    <3>2. CASE SetRolloutRunning(s)
      BY <3>2 DEF Calm, SetRolloutRunning, Enter
    <3>3. CASE SaveCancelled(s)
      BY <3>3 DEF Calm, SaveCancelled, Goto
    <3>4. CASE FindNextTarget(s)
      <4>1. faults' = faults
        BY <3>4 DEF FindNextTarget
      <4>2. overlapped' = overlapped
        BY <3>4, Zenon DEF FindNextTarget, End
      <4> QED
        BY <4>1, <4>2 DEF Calm
    <3>5. CASE SaveRunning(s)
      BY <3>5 DEF Calm, SaveRunning, End
    <3>6. CASE SavePaused(s)
      BY <3>6 DEF Calm, SavePaused, Goto
    <3>7. CASE SaveMessage(s)
      BY <3>7 DEF Calm, SaveMessage, Goto
    <3> QED
      BY <1>2, <3>1, <3>2, <3>3, <3>4, <3>5, <3>6, <3>7 DEF Writes
  <2>3. HandlerOK(c) /\ StepOK(c) /\ rollout \in [Rollouts -> RolloutStatuses]
    BY <2>1, <2>2 DEF RolloutInv, Handlers, AloneInv, Tables, RowTypes
  <2>4. ASSUME NEW st, SaveRollout(c.r, st), c.r \in Rollouts,
               rollout[c.r] # "cancelled" \/ st = "cancelled"
        PROVE  rollout'[r] = "cancelled"
    BY <2>3, <2>4 DEF SaveRollout
  <2>5. CASE InsertRollout(s)
    <3>1. /\ c.pc = "insert"
          /\ SaveRollout(c.r, "queued") \/ rollout' = rollout
      BY <2>1, <2>5 DEF InsertRollout, At
    <3>2. c.r \in Rollouts /\ rollout[c.r] = "none"
      BY <2>3, <3>1 DEF HandlerOK
    <3> QED
      BY <2>4, <3>1, <3>2
  <2>6. CASE SetRolloutRunning(s)
    <3>1. c.pc = "restart" /\ SaveRollout(c.r, "running")
      BY <2>1, <2>6 DEF SetRolloutRunning, At
    <3>2. c.r \in Rollouts /\ rollout[c.r] \in {"queued", "paused"}
      BY <2>3, <3>1 DEF HandlerOK, StepOK
    <3> QED
      BY <2>4, <3>1, <3>2
  <2>7. CASE SaveCancelled(s)
    <3>1. c.pc = "cancel" /\ SaveRollout(c.r, "cancelled")
      BY <2>1, <2>7 DEF SaveCancelled, At
    <3>2. c.r \in Rollouts
      BY <2>3, <3>1 DEF HandlerOK
    <3> QED
      BY <2>4, <3>1, <3>2
  <2>8. CASE FindNextTarget(s)
    <3>1. c.pc = "find" /\ (SaveRollout(c.r, "completed") \/ rollout' = rollout)
      BY <2>1, <2>8 DEF FindNextTarget, At
    <3>2. c.r \in Rollouts /\ rollout[c.r] = "running"
      BY <2>3, <3>1 DEF HandlerOK, StepOK
    <3> QED
      BY <2>4, <3>1, <3>2
  <2>9. CASE SaveRunning(s)
    <3>1. c.pc = "running" /\ SaveRollout(c.r, "running")
      BY <2>1, <2>9 DEF SaveRunning, At
    <3>2. c.r \in Rollouts /\ rollout[c.r] = "running"
      BY <2>3, <3>1 DEF HandlerOK, StepOK
    <3> QED
      BY <2>4, <3>1, <3>2
  <2>10. CASE SavePaused(s)
    <3>1. c.pc = "pause" /\ SaveRollout(c.r, "paused")
      BY <2>1, <2>10 DEF SavePaused, At
    <3>2. c.r \in Rollouts /\ rollout[c.r] \in {"running", "paused"}
      BY <2>3, <3>1 DEF HandlerOK, StepOK, Failing
    <3> QED
      BY <2>4, <3>1, <3>2
  <2>11. CASE SaveMessage(s)
    <3>1. c.pc = "note" /\ SaveRollout(c.r, c.rent)
      BY <2>1, <2>11 DEF SaveMessage, At
    <3>2. c.r \in Rollouts /\ c.rent = rollout[c.r]
      BY <2>3, <3>1 DEF HandlerOK, StepOK
    <3> QED
      BY <2>4, <3>1, <3>2
  <2> QED
    BY <1>2, <2>5, <2>6, <2>7, <2>8, <2>9, <2>10, <2>11 DEF Writes
<1> QED
  BY <1>1, <1>2, WritesOnly

\* A cancelled rollout stays cancelled as long as handlers run one at a time:
\* no handler that runs alone has read the row before it was cancelled
\* (cancelRollout).
THEOREM CancelIsFinalHolds == Spec => CancelIsFinal
<1>1. RolloutInv /\ [Next]_vars =>
        [Calm' => \A r \in Rollouts :
           rollout[r] = "cancelled" => rollout'[r] = "cancelled"]_vars
  BY StaysCancelled
<1> QED
  BY <1>1, InvHolds, PTL DEF Spec, CancelIsFinal
=============================================================================
