------------------------ MODULE TaskLifecycleProofs ------------------------
(***************************************************************************)
(* Theorems about TaskLifecycle, for any sets of tasks, poll loops and     *)
(* handlers and any bounds.                                                *)
(***************************************************************************)
EXTENDS TaskLifecycle, FiniteSetTheorems, TLAPS

\* Who is in the middle of what: a handler in flight has a task, an agent
\* that is not idle has one too, and an agent waits for at most one answer.
Calls ==
    /\ \A s \in Slots :
         /\ slot[s].phase # "idle" => slot[s].task \in Tasks
         /\ slot[s].phase = "idle" => slot[s].worker = NoWorker
    /\ \A w \in Workers : worker[w].phase # "idle" => worker[w].task \in Tasks
    /\ \A s \in Slots, w \in Workers :
         slot[s].worker = w => worker[w].phase # "idle"
    /\ \A s1, s2 \in Slots :
         slot[s1].worker = slot[s2].worker /\ slot[s1].worker # NoWorker
         => s1 = s2

TypeInv == TypeOK /\ Calls

\* The history variables are only ever left alone together.
USE DEF history

-----------------------------------------------------------------------------
(* Lemmas about the operators.                                              *)

\* What handlers make of an entity is again an entity.
LEMMA EntityTypes ==
    ASSUME NEW r \in Rows
    PROVE  /\ CancelEntity(r) \in Rows
           /\ FailEntity(r) \in Rows
           /\ \A st \in Terminal : CompleteEntity(r, st) \in Rows
BY DEF Rows, CancelEntity, FailEntity, CompleteEntity, Statuses, Results,
       Terminal, Leased

\* A partial UPDATE of a row with an entity is a row.
LEMMA UpdateType ==
    ASSUME NEW r \in Rows, NEW entity \in Rows, NEW dirty
    PROVE  UpdateColumns(r, entity, dirty) \in Rows
BY DEF Rows, UpdateColumns

\* Only columns are ever dirty.
LEMMA DiffType ==
    ASSUME NEW kind, NEW entity, NEW r
    PROVE  DiffColumns(kind, entity, r) \in SUBSET Columns
BY DEF DiffColumns, FreshColumns, Columns

LEMMA NoRowType == NoRow \in Rows
BY DEF NoRow, Rows, Statuses, Results

\* Giving up on a call changes nothing but who waits for it.
LEMMA AbandonedType ==
    ASSUME TypeOK, NEW w \in Workers \cup {NoWorker}
    PROVE  /\ Abandoned(w) \in [Slots -> SlotStates]
           /\ \A o \in Slots :
                /\ Abandoned(w)[o].phase = slot[o].phase
                /\ Abandoned(w)[o].task = slot[o].task
                /\ Abandoned(w)[o].kind = slot[o].kind
                /\ Abandoned(w)[o].entity = slot[o].entity
                /\ Abandoned(w)[o].dirty = slot[o].dirty
                /\ Abandoned(w)[o].worker \in {slot[o].worker, NoWorker}
                /\ w # NoWorker => Abandoned(w)[o].worker # w
BY ConstantsAssumption DEF TypeOK, Abandoned, SlotStates

\* A new call: the slot is taken by it, and the agent waits for this one.
LEMMA LoadInv ==
    ASSUME TypeInv, NEW s \in Slots, NEW kind \in Kinds, NEW t \in Tasks,
           NEW w \in Workers \cup {NoWorker}, NEW entity \in Rows,
           Load(s, kind, t, w, entity),
           worker' = worker,
           w \in Workers => worker[w].phase # "idle"
    PROVE  /\ slot' \in [Slots -> SlotStates]
           /\ Calls'
<1>1. Abandoned(w) \in [Slots -> SlotStates]
  BY AbandonedType DEF TypeInv
<1>2. slot' \in [Slots -> SlotStates]
  BY <1>1 DEF Load, SlotStates, Phases, Kinds
<1>3. \A o \in Slots : o # s => slot'[o] = Abandoned(w)[o]
  BY <1>1 DEF Load
<1>4. slot'[s] = [kind |-> kind, phase |-> "loaded", task |-> t,
                  worker |-> w, entity |-> entity, dirty |-> {}]
  BY <1>1 DEF Load
<1>5. \A o \in Slots :
        /\ slot'[o].phase # "idle" => slot'[o].task \in Tasks
        /\ slot'[o].phase = "idle" => slot'[o].worker = NoWorker
  BY <1>3, <1>4, AbandonedType DEF TypeInv, Calls
<1>6. \A o \in Slots, v \in Workers :
        slot'[o].worker = v => worker'[v].phase # "idle"
  BY <1>3, <1>4, AbandonedType, ConstantsAssumption DEF TypeInv, Calls
<1>7. \A o1, o2 \in Slots :
        slot'[o1].worker = slot'[o2].worker /\ slot'[o1].worker # NoWorker
        => o1 = o2
  BY <1>3, <1>4, AbandonedType DEF TypeInv, Calls
<1>8. QED
  BY <1>2, <1>5, <1>6, <1>7 DEF TypeInv, Calls

\* An immediate answer: the agent's earlier calls are given up.
LEMMA AnswerInv ==
    ASSUME TypeInv, NEW w \in Workers, NEW phase \in {"idle", "executing"},
           worker[w].phase # "idle",
           Reply(w, phase), slot' = Abandoned(w)
    PROVE  /\ worker' \in [Workers -> [task: Tasks \cup {NoTask},
                                       phase: {"idle", "claimed", "executing"}]]
           /\ slot' \in [Slots -> SlotStates]
           /\ Calls'
<1>1. worker' \in [Workers -> [task: Tasks \cup {NoTask},
                               phase: {"idle", "claimed", "executing"}]]
  BY DEF TypeInv, TypeOK, Reply, IdleWorker
<1>2. \A v \in Workers :
        /\ v # w => worker'[v] = worker[v]
        /\ worker'[v].phase # "idle" => worker'[v].task \in Tasks
  BY DEF TypeInv, TypeOK, Calls, Reply, IdleWorker
<1>3. slot' \in [Slots -> SlotStates]
  BY AbandonedType DEF TypeInv
<1>4. \A o \in Slots :
        /\ slot'[o].phase # "idle" => slot'[o].task \in Tasks
        /\ slot'[o].phase = "idle" => slot'[o].worker = NoWorker
  BY AbandonedType DEF TypeInv, Calls
<1>5. \A o \in Slots, v \in Workers :
        slot'[o].worker = v => worker'[v].phase # "idle"
  BY <1>2, AbandonedType, ConstantsAssumption DEF TypeInv, Calls
<1>6. \A o1, o2 \in Slots :
        slot'[o1].worker = slot'[o2].worker /\ slot'[o1].worker # NoWorker
        => o1 = o2
  BY AbandonedType DEF TypeInv, Calls
<1>7. QED
  BY <1>1, <1>2, <1>3, <1>4, <1>5, <1>6 DEF Calls

\* The end of a handler: its slot is free, and the agent that waited for it,
\* if any, may have its answer.
LEMMA FinishInv ==
    ASSUME TypeInv, NEW s \in Slots, slot[s].phase # "idle", Finish(s),
           \/ worker' = worker
           \/ Reply(slot[s].worker, "idle")
           \/ Reply(slot[s].worker, "executing")
    PROVE  /\ worker' \in [Workers -> [task: Tasks \cup {NoTask},
                                       phase: {"idle", "claimed", "executing"}]]
           /\ slot' \in [Slots -> SlotStates]
           /\ Calls'
<1>1. /\ worker' \in [Workers -> [task: Tasks \cup {NoTask},
                                  phase: {"idle", "claimed", "executing"}]]
      /\ \A v \in Workers :
            /\ v # slot[s].worker => worker'[v] = worker[v]
            /\ worker'[v].phase # "idle" => worker'[v].task \in Tasks
  BY DEF TypeInv, TypeOK, Calls, Reply, IdleWorker
<1>2. IdleSlot \in SlotStates
  BY NoRowType DEF IdleSlot, SlotStates, Kinds, Phases
<1>3. /\ slot' \in [Slots -> SlotStates]
      /\ slot'[s] = IdleSlot
      /\ \A o \in Slots : o # s => slot'[o] = slot[o]
  BY <1>2 DEF Finish, TypeInv, TypeOK
<1>4. \A o \in Slots :
        /\ slot'[o].phase # "idle" => slot'[o].task \in Tasks
        /\ slot'[o].phase = "idle" => slot'[o].worker = NoWorker
  BY <1>3 DEF TypeInv, Calls, IdleSlot
<1>5. \A o \in Slots, v \in Workers :
        slot'[o].worker = v => worker'[v].phase # "idle"
  BY <1>1, <1>3, ConstantsAssumption DEF TypeInv, Calls, IdleSlot
<1>6. \A o1, o2 \in Slots :
        slot'[o1].worker = slot'[o2].worker /\ slot'[o1].worker # NoWorker
        => o1 = o2
  BY <1>3 DEF TypeInv, Calls, IdleSlot
<1>7. QED
  BY <1>1, <1>3, <1>4, <1>5, <1>6 DEF Calls

-----------------------------------------------------------------------------
(* Type correctness.                                                        *)

LEMMA TypeInit == Init => TypeInv
<1> SUFFICES ASSUME Init PROVE TypeInv
  OBVIOUS
<1>1. TypeOK
  <2>1. IdleSlot \in SlotStates
    BY NoRowType DEF IdleSlot, SlotStates, Kinds, Phases
  <2>2. /\ slot \in [Slots -> SlotStates]
        /\ row \in [Tasks -> Rows]
    BY <2>1, NoRowType DEF Init
  <2>3. sweep \in [phase: {"idle", "select", "loop"}, todo: SUBSET Tasks,
                   entity: [Tasks -> Rows]]
    BY NoRowType DEF Init, IdleSweep
  <2>4. worker \in [Workers -> [task: Tasks \cup {NoTask},
                                phase: {"idle", "claimed", "executing"}]]
    BY DEF Init, IdleWorker
  <2>5. /\ starts \in [Tasks -> 0 .. 2]
        /\ published \in [Tasks -> SUBSET Statuses]
        /\ age \in [Tasks -> Nat]
    BY DEF Init
  <2>6. QED
    BY <2>2, <2>3, <2>4, <2>5 DEF Init, TypeOK
<1>2. Calls
  BY ConstantsAssumption DEF Init, Calls, IdleWorker, IdleSlot
<1>3. QED
  BY <1>1, <1>2 DEF TypeInv

\* The operators' steps.
LEMMA TypeOperators == TypeInv /\ Operators => TypeInv'
<1> SUFFICES ASSUME TypeInv, Operators PROVE TypeInv'
  OBVIOUS
<1>0. Requests \subseteq Slots
  BY DEF Slots
<1>1. ASSUME NEW s \in Requests, NEW t \in Tasks, QueueTaskCheck(s, t)
      PROVE  TypeInv'
  <2>1. slot' \in [Slots -> SlotStates] /\ Calls'
    BY <1>0, <1>1, LoadInv, NoRowType, ConstantsAssumption
       DEF QueueTaskCheck, Kinds
  <2>2. QED
    BY <1>1, <2>1 DEF QueueTaskCheck, TypeInv, TypeOK, clockVars
<1>2. ASSUME NEW s \in Requests, NEW t \in Tasks, RequestTaskCancellation(s, t)
      PROVE  TypeInv'
  <2>1. CancelEntity(row[t]) \in Rows
    BY EntityTypes DEF TypeInv, TypeOK
  <2>2. slot' \in [Slots -> SlotStates] /\ Calls'
    BY <1>0, <1>2, <2>1, LoadInv, ConstantsAssumption
       DEF RequestTaskCancellation, Kinds
  <2>3. QED
    BY <1>2, <2>2 DEF RequestTaskCancellation, TypeInv, TypeOK, clockVars
<1>3. ASSUME NEW b \in BOOLEAN, SetMaintenance(b)
      PROVE  TypeInv'
  BY <1>3 DEF SetMaintenance, TypeInv, TypeOK, Calls, clockVars
<1>4. QED
  BY <1>1, <1>2, <1>3 DEF Operators

\* The agent's steps over HTTP.
LEMMA TypeAgents == TypeInv /\ Agents => TypeInv'
<1> SUFFICES ASSUME TypeInv, Agents PROVE TypeInv'
  OBVIOUS
<1>0. Requests \subseteq Slots
  BY DEF Slots
<1>1. ASSUME NEW w \in Workers, NEW d \in BOOLEAN, ClaimNextTaskOnce(w, d)
      PROVE  TypeInv'
  <2>1. PICK t \in Tasks :
          /\ row' = [row EXCEPT ![t] =
                       [row[t] EXCEPT !.status = "accepted",
                                      !.claim = claims + 1]]
          /\ worker' = IF d THEN [worker EXCEPT ![w] =
                                    [task |-> t, phase |-> "claimed"]]
                       ELSE worker
    BY <1>1 DEF ClaimNextTaskOnce
  <2>2. row' \in [Tasks -> Rows]
    <3>1. [row[t] EXCEPT !.status = "accepted", !.claim = claims + 1] \in Rows
      <4>1. row[t] \in Rows /\ claims + 1 \in Nat
        BY DEF TypeInv, TypeOK
      <4>2. QED
        BY <4>1 DEF Rows, Statuses, Leased
    <3>2. QED
      BY <2>1, <3>1 DEF TypeInv, TypeOK
  <2>3. worker' \in [Workers -> [task: Tasks \cup {NoTask},
                                 phase: {"idle", "claimed", "executing"}]]
    BY <2>1 DEF TypeInv, TypeOK
  <2>4. TypeOK'
    BY <1>1, <2>2, <2>3 DEF ClaimNextTaskOnce, TypeInv, TypeOK, clockVars
  <2>5. Calls'
    BY <1>1, <2>1 DEF ClaimNextTaskOnce, TypeInv, TypeOK, Calls
  <2>6. QED
    BY <2>4, <2>5 DEF TypeInv
<1>2. ASSUME NEW s \in Requests, NEW w \in Workers, StartClaimedTask(s, w)
      PROVE  TypeInv'
  <2>1. worker[w].task \in Tasks /\ row[worker[w].task] \in Rows
    BY <1>2 DEF StartClaimedTask, TypeInv, TypeOK, Calls
  <2>2. CASE \E ph \in {"idle", "executing"} :
               Reply(w, ph) /\ slot' = Abandoned(w)
    BY <1>2, <2>2, AnswerInv
       DEF StartClaimedTask, TypeInv, TypeOK, clockVars
  <2>3. CASE /\ Load(s, "start", worker[w].task, w, row[worker[w].task])
             /\ UNCHANGED worker
    <3>1. slot' \in [Slots -> SlotStates] /\ Calls'
      BY <1>0, <1>2, <2>1, <2>3, LoadInv DEF StartClaimedTask, Kinds
    <3>2. QED
      BY <1>2, <2>3, <3>1 DEF StartClaimedTask, TypeInv, TypeOK, clockVars
  <2>4. QED
    BY <1>2, <2>2, <2>3 DEF StartClaimedTask
<1>3. ASSUME NEW s \in Requests, NEW w \in Workers, AppendTaskLog(s, w)
      PROVE  TypeInv'
  <2>1. worker[w].task \in Tasks /\ row[worker[w].task] \in Rows
    BY <1>3 DEF AppendTaskLog, TypeInv, TypeOK, Calls
  <2>2. slot' \in [Slots -> SlotStates] /\ Calls'
    BY <1>0, <1>3, <2>1, LoadInv, ConstantsAssumption
       DEF AppendTaskLog, Kinds
  <2>3. QED
    BY <1>3, <2>2 DEF AppendTaskLog, TypeInv, TypeOK, clockVars
<1>4. ASSUME NEW s \in Requests, NEW w \in Workers, NEW st \in Outcomes,
             CompleteClaimedTask(s, w, st)
      PROVE  TypeInv'
  <2>1. worker[w].task \in Tasks /\ row[worker[w].task] \in Rows
    BY <1>4 DEF CompleteClaimedTask, TypeInv, TypeOK, Calls
  <2>2. CASE Reply(w, "idle") /\ slot' = Abandoned(w)
    BY <1>4, <2>2, AnswerInv
       DEF CompleteClaimedTask, TypeInv, TypeOK, clockVars
  <2>3. CASE /\ Load(s, "complete", worker[w].task, w,
                     CompleteEntity(row[worker[w].task], st))
             /\ UNCHANGED worker
    <3>1. CompleteEntity(row[worker[w].task], st) \in Rows
      BY <2>1, EntityTypes, ConstantsAssumption
    <3>2. slot' \in [Slots -> SlotStates] /\ Calls'
      BY <1>0, <1>4, <2>1, <2>3, <3>1, LoadInv DEF CompleteClaimedTask, Kinds
    <3>3. QED
      BY <1>4, <2>3, <3>2 DEF CompleteClaimedTask, TypeInv, TypeOK, clockVars
  <2>4. QED
    BY <1>4, <2>2, <2>3 DEF CompleteClaimedTask
<1>5. ASSUME NEW w \in Workers, WorkerCrash(w)
      PROVE  TypeInv'
  BY <1>5, AnswerInv DEF WorkerCrash, TypeInv, TypeOK, clockVars
<1>6. QED
  BY <1>1, <1>2, <1>3, <1>4, <1>5 DEF Agents

\* A row in which a start was recorded, and the answer to the agent.
LEMMA RunningType ==
    ASSUME NEW r \in Rows
    PROVE  /\ [r EXCEPT !.status = "running", !.startedAt = TRUE,
                        !.claim = 0] \in Rows
           /\ [r EXCEPT !.status = "running", !.startedAt = TRUE,
                        !.finishedAt = FALSE] \in Rows
BY DEF Rows, Statuses

LEMMA RecordStartType ==
    ASSUME TypeOK, NEW t \in Tasks, RecordStart(t)
    PROVE  starts' \in [Tasks -> 0 .. 2] /\ runOverdue' \subseteq Tasks
BY DEF RecordStart, TypeOK

\* The agent's steps over the socket.
LEMMA TypeRealtime == TypeInv /\ RealtimeAgents => TypeInv'
<1> SUFFICES ASSUME TypeInv, RealtimeAgents PROVE TypeInv'
  OBVIOUS
<1>0. Requests \subseteq Slots
  BY DEF Slots
<1>1. ASSUME NEW w \in Workers, NEW t \in Tasks, DispatchTaskToNode(w, t)
      PROVE  TypeInv'
  <2>1. worker' \in [Workers -> [task: Tasks \cup {NoTask},
                                 phase: {"idle", "claimed", "executing"}]]
    BY <1>1 DEF DispatchTaskToNode, TypeInv, TypeOK
  <2>2. TypeOK'
    BY <1>1, <2>1 DEF DispatchTaskToNode, TypeInv, TypeOK, clockVars
  <2>3. Calls'
    BY <1>1 DEF DispatchTaskToNode, TypeInv, TypeOK, Calls
  <2>4. QED
    BY <2>2, <2>3 DEF TypeInv
<1>2. ASSUME NEW s \in Requests, NEW w \in Workers, StartForAgent(s, w)
      PROVE  TypeInv'
  <2> DEFINE t == worker[w].task
             running == [row[t] EXCEPT !.status = "running",
                                       !.startedAt = TRUE,
                                       !.finishedAt = FALSE]
             call(phase) == [kind |-> "start", phase |-> phase, task |-> t,
                             worker |-> w, entity |-> row[t], dirty |-> {}]
  <2>1. /\ t \in Tasks /\ row[t] \in Rows /\ s \in Slots
        /\ worker[w].phase # "idle"
    BY <1>0, <1>2 DEF StartForAgent, TypeInv, TypeOK, Calls
  <2>2. PICK ph \in {"stored", "missed"} :
          slot' = [Abandoned(w) EXCEPT ![s] = call(ph)]
    BY <1>2 DEF StartForAgent
  <2> DEFINE new == call(ph)
  <2>3. /\ new \in SlotStates /\ new.phase # "idle" /\ new.task = t
        /\ new.worker = w
    BY <2>1 DEF SlotStates, Phases, Kinds
  <2> HIDE DEF new
  <2>4. /\ slot' \in [Slots -> SlotStates]
        /\ \A o \in Slots : o # s => slot'[o] = Abandoned(w)[o]
        /\ slot'[s] = new
    BY <2>1, <2>2, <2>3, AbandonedType DEF TypeInv, new
  <2>5. \A o \in Slots :
          /\ slot'[o].phase # "idle" => slot'[o].task \in Tasks
          /\ slot'[o].phase = "idle" => slot'[o].worker = NoWorker
    BY <2>1, <2>3, <2>4, AbandonedType DEF TypeInv, Calls
  <2>6. worker' = worker
    BY <1>2 DEF StartForAgent
  <2>7. \A o \in Slots, v \in Workers :
          slot'[o].worker = v => worker'[v].phase # "idle"
    BY <2>1, <2>3, <2>4, <2>6, AbandonedType, ConstantsAssumption
       DEF TypeInv, Calls
  <2>8. \A o1, o2 \in Slots :
          slot'[o1].worker = slot'[o2].worker /\ slot'[o1].worker # NoWorker
          => o1 = o2
    BY <2>3, <2>4, AbandonedType DEF TypeInv, Calls
  <2>9. Calls'
    BY <2>5, <2>6, <2>7, <2>8 DEF TypeInv, Calls
  <2>10. /\ row' \in [Tasks -> Rows]
         /\ starts' \in [Tasks -> 0 .. 2] /\ runOverdue' \subseteq Tasks
    <3>1. CASE row[t].status = "queued"
      <4>1. running \in Rows
        BY <2>1, RunningType
      <4>2. row' = [row EXCEPT ![t] = running] /\ RecordStart(t)
        BY <1>2, <3>1 DEF StartForAgent
      <4> HIDE DEF running
      <4>3. QED
        BY <2>1, <4>1, <4>2, RecordStartType DEF TypeInv, TypeOK
    <3>2. CASE row[t].status # "queued"
      BY <1>2, <3>2 DEF StartForAgent, TypeInv, TypeOK
    <3>3. QED
      BY <3>1, <3>2
  <2>11. QED
    BY <1>2, <2>4, <2>6, <2>9, <2>10 DEF StartForAgent, TypeInv, TypeOK
<1>3. ASSUME NEW s \in Requests, NEW w \in Workers, AppendLogForAgent(s, w)
      PROVE  TypeInv'
  <2>1. worker[w].task \in Tasks /\ row[worker[w].task] \in Rows
    BY <1>3 DEF AppendLogForAgent, TypeInv, TypeOK, Calls
  <2>2. slot' \in [Slots -> SlotStates] /\ Calls'
    BY <1>0, <1>3, <2>1, LoadInv, ConstantsAssumption
       DEF AppendLogForAgent, Kinds
  <2>3. QED
    BY <1>3, <2>1, <2>2 DEF AppendLogForAgent, TypeInv, TypeOK, clockVars
<1>4. ASSUME NEW s \in Requests, NEW w \in Workers, NEW st \in Outcomes,
             CompleteForAgent(s, w, st)
      PROVE  TypeInv'
  <2> DEFINE t == worker[w].task
             entity == [CompleteEntity(row[t], st) EXCEPT
                          !.claim = row[t].claim]
  <2>1. t \in Tasks /\ row[t] \in Rows
    BY <1>4 DEF CompleteForAgent, TypeInv, TypeOK, Calls
  <2>2. entity \in Rows
    <3>1. CompleteEntity(row[t], st) \in Rows
      BY <2>1, EntityTypes, ConstantsAssumption
    <3>2. QED
      BY <2>1, <3>1 DEF Rows
  <2>3. CASE Reply(w, "idle") /\ slot' = Abandoned(w)
    BY <1>4, <2>3, AnswerInv DEF CompleteForAgent, TypeInv, TypeOK, clockVars
  <2>4. CASE Load(s, "complete", t, w, entity) /\ UNCHANGED worker
    <3>1. slot' \in [Slots -> SlotStates] /\ Calls'
      BY <1>0, <1>4, <2>1, <2>2, <2>4, LoadInv DEF CompleteForAgent, Kinds
    <3>2. QED
      BY <1>4, <2>4, <3>1 DEF CompleteForAgent, TypeInv, TypeOK, clockVars
  <2>5. QED
    BY <1>4, <2>3, <2>4 DEF CompleteForAgent
<1>5. QED
  BY <1>1, <1>2, <1>3, <1>4 DEF RealtimeAgents

\* The detector's steps.
LEMMA TypeDetector == TypeInv /\ StaleDetector => TypeInv'
<1> SUFFICES ASSUME TypeInv, StaleDetector PROVE TypeInv'
  OBVIOUS
<1>1. CASE RequeueExpiredLeases
  <2>1. ASSUME NEW t \in Tasks
        PROVE  [row[t] EXCEPT !.status = "queued", !.claim = 0] \in Rows
    <3>1. row[t] \in Rows
      BY DEF TypeInv, TypeOK
    <3>2. QED
      BY <3>1 DEF Rows, Statuses
  <2>2. row' \in [Tasks -> Rows]
    BY <1>1, <2>1 DEF RequeueExpiredLeases, TypeInv, TypeOK
  <2>3. sweep' \in [phase: {"idle", "select", "loop"}, todo: SUBSET Tasks,
                    entity: [Tasks -> Rows]]
    BY <1>1 DEF RequeueExpiredLeases, TypeInv, TypeOK
  <2>4. QED
    BY <1>1, <2>2, <2>3
       DEF RequeueExpiredLeases, TypeInv, TypeOK, Calls, clockVars
<1>2. CASE SelectStaleTasks
  <2>1. ASSUME NEW t \in Tasks PROVE FailEntity(row[t]) \in Rows
    BY EntityTypes DEF TypeInv, TypeOK
  <2>2. sweep' \in [phase: {"idle", "select", "loop"}, todo: SUBSET Tasks,
                    entity: [Tasks -> Rows]]
    BY <1>2, <2>1, NoRowType DEF SelectStaleTasks
  <2>3. QED
    BY <1>2, <2>2 DEF SelectStaleTasks, TypeInv, TypeOK, Calls, clockVars
<1>3. ASSUME NEW t \in Tasks, FailStaleTask(t)
      PROVE  TypeInv'
  <2>1. sweep.entity[t] \in Rows
    BY DEF TypeInv, TypeOK
  <2>2. slot' \in [Slots -> SlotStates] /\ Calls'
    BY <1>3, <2>1, LoadInv, ConstantsAssumption
       DEF FailStaleTask, Kinds, Slots
  <2>3. sweep' \in [phase: {"idle", "select", "loop"}, todo: SUBSET Tasks,
                    entity: [Tasks -> Rows]]
    BY <1>3, NoRowType DEF FailStaleTask, TypeInv, TypeOK
  <2>4. QED
    BY <1>3, <2>2, <2>3 DEF FailStaleTask, TypeInv, TypeOK, clockVars
<1>4. CASE SweepDone
  <2>1. sweep' \in [phase: {"idle", "select", "loop"}, todo: SUBSET Tasks,
                    entity: [Tasks -> Rows]]
    BY <1>4, NoRowType DEF SweepDone, IdleSweep
  <2>2. QED
    BY <1>4, <2>1 DEF SweepDone, TypeInv, TypeOK, Calls, clockVars
<1>5. QED
  BY <1>1, <1>2, <1>3, <1>4 DEF StaleDetector

\* A handler that goes on: its slot keeps task and agent.
LEMMA AdvanceInv ==
    ASSUME TypeInv, NEW s \in Slots, slot[s].phase # "idle",
           NEW new \in SlotStates,
           slot' = [slot EXCEPT ![s] = new], new.phase # "idle",
           new.task = slot[s].task, new.worker = slot[s].worker,
           worker' = worker
    PROVE  /\ worker' \in [Workers -> [task: Tasks \cup {NoTask},
                                       phase: {"idle", "claimed", "executing"}]]
           /\ slot' \in [Slots -> SlotStates]
           /\ Calls'
<1>1. /\ worker' \in [Workers -> [task: Tasks \cup {NoTask},
                                  phase: {"idle", "claimed", "executing"}]]
      /\ \A v \in Workers :
            /\ worker'[v].task = worker[v].task
            /\ v # slot[s].worker => worker'[v] = worker[v]
            /\ worker[v].phase # "idle" => worker'[v].phase # "idle"
  BY DEF TypeInv, TypeOK
<1>2. /\ slot' \in [Slots -> SlotStates]
      /\ slot'[s] = new
      /\ \A o \in Slots : o # s => slot'[o] = slot[o]
  BY DEF TypeInv, TypeOK
<1>3. \A o \in Slots :
        /\ slot'[o].phase # "idle" => slot'[o].task \in Tasks
        /\ slot'[o].phase = "idle" => slot'[o].worker = NoWorker
  BY <1>2 DEF TypeInv, Calls
<1>4. \A o \in Slots, v \in Workers :
        slot'[o].worker = v => worker'[v].phase # "idle"
  BY <1>1, <1>2 DEF TypeInv, Calls
<1>5. \A o1, o2 \in Slots :
        slot'[o1].worker = slot'[o2].worker /\ slot'[o1].worker # NoWorker
        => o1 = o2
  BY <1>2 DEF TypeInv, Calls
<1>6. \A v \in Workers : worker'[v].phase # "idle" => worker'[v].task \in Tasks
  BY <1>1 DEF TypeInv, Calls
<1>7. QED
  BY <1>1, <1>2, <1>3, <1>4, <1>5, <1>6 DEF Calls

\* The statements of a handler in flight.
LEMMA TypeHandler ==
    ASSUME NEW s \in Slots
    PROVE  TypeInv /\ Handler(s) => TypeInv'
<1> SUFFICES ASSUME TypeInv, Handler(s) PROVE TypeInv'
  OBVIOUS
<1> DEFINE t == slot[s].task
<1>0. /\ slot[s] \in SlotStates
      /\ slot[s].phase # "idle" => t \in Tasks /\ row[t] \in Rows
      /\ slot[s].entity \in Rows
  BY DEF TypeInv, TypeOK, Calls, SlotStates
<1>1. CASE QueueTaskInsert(s)
  <2> DEFINE queued == [NoRow EXCEPT !.status = "queued"]
             new == [slot[s] EXCEPT !.phase = "saved", !.entity = queued]
             n == Cardinality({u \in Tasks : row[u].status # "none"}) + 1
  <2>1. queued \in Rows
    BY DEF NoRow, Rows, Statuses, Results
  <2>2. row' = [row EXCEPT ![t] = queued] /\ age' = [age EXCEPT ![t] = n]
    BY <1>1 DEF QueueTaskInsert
  <2>3. n \in Nat
    <3>1. IsFiniteSet({u \in Tasks : row[u].status # "none"})
      BY ConstantsAssumption, FS_Subset
    <3>2. QED
      BY <3>1, FS_CardinalityType
  <2>4. row' \in [Tasks -> Rows] /\ age' \in [Tasks -> Nat]
    <3> HIDE DEF n, queued
    <3> QED
      BY <2>1, <2>2, <2>3 DEF TypeInv, TypeOK
  <2>5. slot' = [slot EXCEPT ![s] = new]
    BY <1>1 DEF QueueTaskInsert, TypeInv, TypeOK
  <2>6. /\ new \in SlotStates /\ new.phase # "idle"
        /\ new.task = slot[s].task /\ new.worker = slot[s].worker
    <3> HIDE DEF queued
    <3> QED
      BY <1>0, <2>1 DEF SlotStates, Phases
  <2>7. worker' = worker /\ slot[s].phase # "idle"
    BY <1>1 DEF QueueTaskInsert
  <2>8. slot' \in [Slots -> SlotStates] /\ Calls'
    <3> HIDE DEF new
    <3> QED
      BY <2>5, <2>6, <2>7, AdvanceInv
  <2>9. QED
    <3> HIDE DEF n, queued, new
    <3> QED
      BY <1>1, <2>4, <2>8 DEF QueueTaskInsert, TypeInv, TypeOK, clockVars
<1>2. CASE StartUpdate(s)
  <2> DEFINE running == [row[t] EXCEPT !.status = "running",
                                       !.startedAt = TRUE, !.claim = 0]
             new == [slot[s] EXCEPT !.phase = "stored"]
  <2>1. slot[s].phase = "loaded" /\ t \in Tasks /\ row[t] \in Rows
    BY <1>0, <1>2 DEF StartUpdate
  <2>2. CASE ~(row[t].status \in Leased /\ row[t].claim # 0)
    <3>1. Reply(slot[s].worker, "idle") /\ Finish(s)
      BY <1>2, <2>2 DEF StartUpdate
    <3>2. QED
      BY <1>2, <2>1, <2>2, <3>1, FinishInv DEF StartUpdate, TypeInv, TypeOK
  <2>3. CASE row[t].status \in Leased /\ row[t].claim # 0
    <3>1. running \in Rows
      BY <2>1, RunningType
    <3>2. row' = [row EXCEPT ![t] = running] /\ RecordStart(t)
          /\ worker' = worker
      BY <1>2, <2>3 DEF StartUpdate
    <3>3. slot' = [slot EXCEPT ![s] = new]
      BY <1>2, <2>3 DEF StartUpdate, TypeInv, TypeOK
    <3> HIDE DEF running
    <3>4. /\ new \in SlotStates /\ new.phase # "idle"
          /\ new.task = slot[s].task /\ new.worker = slot[s].worker
      BY <1>0 DEF SlotStates, Phases
    <3> HIDE DEF new
    <3>5. slot' \in [Slots -> SlotStates] /\ Calls'
      BY <2>1, <3>2, <3>3, <3>4, AdvanceInv
    <3>6. starts' \in [Tasks -> 0 .. 2] /\ runOverdue' \subseteq Tasks
      BY <2>1, <3>2, RecordStartType DEF TypeInv
    <3>7. row' \in [Tasks -> Rows]
      BY <3>1, <3>2 DEF TypeInv, TypeOK
    <3>8. QED
      BY <1>2, <3>2, <3>5, <3>6, <3>7 DEF StartUpdate, TypeInv, TypeOK
  <2>4. QED
    BY <2>2, <2>3
<1>3. CASE SaveReload(s)
  <2> DEFINE dirty == DiffColumns(slot[s].kind, slot[s].entity, row[t])
             new == [slot[s] EXCEPT !.phase = "dirty", !.dirty = dirty]
  <2>1. slot' = [slot EXCEPT ![s] = new] /\ slot[s].phase # "idle"
    BY <1>3 DEF SaveReload, TypeInv, TypeOK
  <2>2. dirty \in SUBSET Columns
    BY DiffType
  <2> HIDE DEF dirty
  <2>3. /\ new \in SlotStates /\ new.phase # "idle"
        /\ new.task = slot[s].task /\ new.worker = slot[s].worker
    BY <1>0, <2>2 DEF SlotStates, Phases
  <2> HIDE DEF new
  <2>4. slot' \in [Slots -> SlotStates] /\ Calls'
    BY <1>3, <2>1, <2>3, AdvanceInv DEF SaveReload
  <2>5. QED
    BY <1>3, <2>4 DEF SaveReload, TypeInv, TypeOK, clockVars
<1>4. CASE SaveUpdate(s)
  <2> DEFINE new == [slot[s] EXCEPT !.phase = "saved", !.dirty = {}]
  <2>1. slot[s].phase # "idle" /\ worker' = worker
    BY <1>4 DEF SaveUpdate
  <2>2. row' \in [Tasks -> Rows]
    <3>1. UpdateColumns(row[t], slot[s].entity, slot[s].dirty) \in Rows
      BY <1>0, <2>1, UpdateType
    <3>2. QED
      BY <1>4, <3>1 DEF SaveUpdate, TypeInv, TypeOK
  <2>3. slot' \in [Slots -> SlotStates] /\ Calls'
    <3>1. CASE slot[s].kind = "log"
      BY <1>4, <2>1, <3>1, FinishInv DEF SaveUpdate
    <3>2. CASE slot[s].kind # "log"
      <4>1. slot' = [slot EXCEPT ![s] = new]
        BY <1>4, <3>2 DEF SaveUpdate, TypeInv, TypeOK
      <4>2. /\ new \in SlotStates /\ new.phase # "idle"
            /\ new.task = slot[s].task /\ new.worker = slot[s].worker
        BY <1>0 DEF SlotStates, Phases
      <4> HIDE DEF new
      <4>3. QED
        BY <2>1, <4>1, <4>2, AdvanceInv
    <3>3. QED
      BY <3>1, <3>2
  <2>4. QED
    BY <1>4, <2>2, <2>3 DEF SaveUpdate, TypeInv, TypeOK, clockVars
<1>5. CASE PublishTask(s)
  <2>1. slot[s].phase # "idle" /\ Finish(s)
    BY <1>5 DEF PublishTask
  <2>2. \/ worker' = worker
        \/ Reply(slot[s].worker, "idle")
        \/ Reply(slot[s].worker, "executing")
    BY <1>5 DEF PublishTask
  <2>3. /\ worker' \in [Workers -> [task: Tasks \cup {NoTask},
                                    phase: {"idle", "claimed", "executing"}]]
        /\ slot' \in [Slots -> SlotStates]
        /\ Calls'
    BY <2>1, <2>2, FinishInv
  <2>4. published' \in [Tasks -> SUBSET Statuses]
    <3>1. slot[s].entity.status \in Statuses
      BY <1>0 DEF Rows
    <3>2. QED
      BY <1>5, <3>1 DEF PublishTask, Publish, TypeInv, TypeOK
  <2>5. QED
    BY <1>5, <2>3, <2>4 DEF PublishTask, TypeInv, TypeOK, clockVars
<1>6. CASE StartReload(s)
  <2> DEFINE new == [slot[s] EXCEPT !.phase = "saved", !.entity = row[t]]
  <2>1. /\ slot' = [slot EXCEPT ![s] = new] /\ slot[s].phase # "idle"
        /\ worker' = worker
    BY <1>6 DEF StartReload, TypeInv, TypeOK
  <2>2. /\ new \in SlotStates /\ new.phase # "idle"
        /\ new.task = slot[s].task /\ new.worker = slot[s].worker
    BY <1>0, <2>1 DEF SlotStates, Phases
  <2> HIDE DEF new
  <2>3. slot' \in [Slots -> SlotStates] /\ Calls'
    BY <2>1, <2>2, AdvanceInv
  <2>4. QED
    BY <1>6, <2>3 DEF StartReload, TypeInv, TypeOK, clockVars
<1>7. CASE StartMissed(s)
  <2>1. /\ slot[s].phase # "idle" /\ Finish(s)
        /\ \/ Reply(slot[s].worker, "idle")
           \/ Reply(slot[s].worker, "executing")
    BY <1>7 DEF StartMissed
  <2>2. /\ worker' \in [Workers -> [task: Tasks \cup {NoTask},
                                    phase: {"idle", "claimed", "executing"}]]
        /\ slot' \in [Slots -> SlotStates]
        /\ Calls'
    BY <2>1, FinishInv
  <2>3. QED
    BY <1>7, <2>2 DEF StartMissed, TypeInv, TypeOK, clockVars
<1>8. QED
  BY <1>1, <1>2, <1>3, <1>4, <1>5, <1>6, <1>7 DEF Handler

LEMMA TypeHandlerDies ==
    ASSUME NEW s \in Slots
    PROVE  TypeInv /\ HandlerDies(s) => TypeInv'
<1> SUFFICES ASSUME TypeInv, HandlerDies(s) PROVE TypeInv'
  OBVIOUS
<1>1. slot' \in [Slots -> SlotStates] /\ Calls'
  BY FinishInv DEF HandlerDies
<1>2. sweep' \in [phase: {"idle", "select", "loop"}, todo: SUBSET Tasks,
                  entity: [Tasks -> Rows]]
  BY NoRowType DEF HandlerDies, IdleSweep, TypeInv, TypeOK
<1>3. silenced' \subseteq Tasks
  BY DEF HandlerDies, TypeInv, TypeOK, Calls
<1>4. QED
  BY <1>1, <1>2, <1>3 DEF HandlerDies, TypeInv, TypeOK, clockVars

LEMMA TypeClock == TypeInv /\ Clock => TypeInv'
<1> SUFFICES ASSUME TypeInv, Clock PROVE TypeInv'
  OBVIOUS
<1>1. ASSUME NEW k \in 1 .. claims, LeaseExpires(k) PROVE TypeInv'
  BY <1>1 DEF LeaseExpires, TypeInv, TypeOK, Calls
<1>2. ASSUME NEW t \in Tasks, QueuedDeadlinePasses(t) PROVE TypeInv'
  BY <1>2 DEF QueuedDeadlinePasses, TypeInv, TypeOK, Calls
<1>3. ASSUME NEW t \in Tasks, RunningDeadlinePasses(t) PROVE TypeInv'
  BY <1>3 DEF RunningDeadlinePasses, TypeInv, TypeOK, Calls
<1>4. QED
  BY <1>1, <1>2, <1>3 DEF Clock

\* Every step keeps the types and the bookkeeping of calls.
LEMMA TypeNext == TypeInv /\ [Next]_vars => TypeInv'
<1> SUFFICES ASSUME TypeInv, [Next]_vars PROVE TypeInv'
  OBVIOUS
<1>1. CASE UNCHANGED vars
  BY <1>1 DEF vars, TypeInv, TypeOK, Calls
<1>2. CASE Next
  BY <1>2, TypeOperators, TypeAgents, TypeRealtime, TypeDetector,
     TypeHandler, TypeHandlerDies, TypeClock DEF Next
<1>3. QED
  BY <1>1, <1>2

\* Rows, entities and handler states of TasksService keep their types in
\* every behaviour, with and without the realtime mode.
THEOREM TypeCorrect == Spec => []TypeOK
<1>1. Spec => []TypeInv
  BY TypeInit, TypeNext, PTL DEF Spec
<1>2. TypeInv => TypeOK
  BY DEF TypeInv
<1>3. QED
  BY <1>1, <1>2, PTL

-----------------------------------------------------------------------------
(***************************************************************************)
(* A task is started at most once, a leased task keeps its lease, events   *)
(* never run ahead of rows and a task that finished before its start stays *)
(* finished, unless a log was taken over the socket before the start.      *)
(*                                                                         *)
(* None of these is inductive.  The reason they hold is that the statuses  *)
(* in Begun are closed: a save of a stale entity can move a row about      *)
(* inside Begun (and does), but what it carries is always in Begun, and if *)
(* it does not write the status then the row was in Begun when the save    *)
(* compared the two.                                                       *)
(***************************************************************************)

\* Statuses from which a task never goes back to an agent.
Begun == {"running"} \cup Terminal

\* What every row satisfies.
RowsOK ==
    \A t \in Tasks :
        /\ row[t].status = "running" => starts[t] > 0
        /\ t \notin earlyLogs =>
              /\ starts[t] <= 1
              /\ starts[t] > 0 => row[t].status \in Begun
              /\ row[t].status \in Leased => row[t].claim # 0

\* What an entity still to be saved may do to its row: it can only move it
\* within Begun, and if it leaves the status alone the row is there already.
SavesOK ==
    \A s \in Slots :
        /\ slot[s].kind \in Saving => slot[s].entity.status # "none"
        /\ slot[s].kind # "none" /\ slot[s].entity.status = "running"
           => starts[slot[s].task] > 0
        /\ slot[s].kind \in Saving /\ slot[s].task \notin earlyLogs =>
             /\ slot[s].entity.status \in Begun
             /\ slot[s].kind = "log" => slot[s].entity.status = "running"
             /\ slot[s].phase = "dirty" /\ "status" \notin slot[s].dirty
                => row[slot[s].task].status \in Begun

\* A handler works on a row that exists, except the one about to insert it.
RowsExist ==
    /\ \A s \in Slots :
         /\ slot[s].phase # "idle" /\ slot[s].kind # "create"
            => row[slot[s].task].status # "none"
         /\ slot[s].phase = "saved" => row[slot[s].task].status # "none"
         /\ slot[s].kind = "create" /\ slot[s].phase # "saved"
            => row[slot[s].task].status = "none"
         /\ slot[s].phase = "idle" <=> slot[s].kind = "none"
    /\ \A s1, s2 \in Slots :
         /\ slot[s1].kind = "create" /\ slot[s2].kind = "create"
         /\ slot[s1].task = slot[s2].task
         => s1 = s2

\* What the detector has selected and not yet saved.
SweepOK ==
    \A t \in sweep.todo :
        /\ sweep.entity[t].status = "failed"
        /\ row[t].status # "none"

\* No event runs ahead of what it tells.
NotEarly ==
    \A t \in Tasks :
        /\ published[t] # {} => row[t].status # "none"
        /\ "running" \in published[t] => starts[t] > 0

SafeInv == RowsOK /\ SavesOK /\ RowsExist /\ SweepOK /\ NotEarly

-----------------------------------------------------------------------------
(* Lemmas about the handlers' common steps.                                 *)

\* What a step may do to rows that some handler holds an entity of.
Monotone ==
    /\ earlyLogs \subseteq earlyLogs'
    /\ \A t \in Tasks :
         /\ t \notin earlyLogs /\ row[t].status \in Begun
            => row'[t].status \in Begun
         /\ row[t].status = "none" <=> row'[t].status = "none"
         /\ starts[t] > 0 => starts'[t] > 0

\* What a handler may hold in a slot that it takes.
EntityOK(new) ==
    /\ new.entity.status = "running" => starts'[new.task] > 0
    /\ new.kind \in Saving => new.entity.status # "none"
    /\ new.kind \in Saving /\ new.task \notin earlyLogs' =>
         /\ new.entity.status \in Begun
         /\ new.kind = "log" => new.entity.status = "running"

\* A slot is taken.
LEMMA SlotTaken ==
    ASSUME TypeInv, SavesOK, RowsExist, Monotone, NEW s \in Slots,
           NEW w \in Workers \cup {NoWorker}, NEW new,
           slot' = [Abandoned(w) EXCEPT ![s] = new],
           new.task \in Tasks, new.kind # "none", EntityOK(new),
           \/ new.phase = "loaded"
           \/ new.phase \in {"stored", "missed"} /\ new.kind # "create",
           new.kind # "create" => row'[new.task].status # "none",
           new.kind = "create" =>
             /\ row'[new.task].status = "none"
             /\ \A o \in Slots :
                  ~(slot[o].kind = "create" /\ slot[o].task = new.task)
    PROVE  SavesOK' /\ RowsExist'
<1>1. Abandoned(w) \in [Slots -> SlotStates]
  BY AbandonedType DEF TypeInv
<1>2. \A o \in Slots : o # s =>
        /\ slot'[o].kind = slot[o].kind
        /\ slot'[o].phase = slot[o].phase
        /\ slot'[o].task = slot[o].task
        /\ slot'[o].entity = slot[o].entity
        /\ slot'[o].dirty = slot[o].dirty
  BY <1>1, AbandonedType DEF TypeInv
<1>3. slot'[s] = new
  BY <1>1
<1>4. \A o \in Slots :
        /\ slot[o].kind # "none" => slot[o].task \in Tasks
        /\ slot[o].phase # "idle" => slot[o].task \in Tasks
  BY DEF TypeInv, Calls, RowsExist
<1>5. SavesOK'
  <2>1. ASSUME NEW o \in Slots, o # s, slot[o].kind # "none"
        PROVE  slot[o].task \in Tasks
    BY <2>1, <1>4
  <2>2. QED
    BY <1>2, <1>3, <2>1 DEF SavesOK, EntityOK, Monotone, Saving
<1>6. RowsExist'
  BY <1>2, <1>3, <1>4 DEF RowsExist, Monotone
<1>7. QED
  BY <1>5, <1>6

\* A new call.
LEMMA LoadSafe ==
    ASSUME TypeInv, SavesOK, RowsExist, NEW s \in Slots, NEW kind \in Kinds,
           NEW t \in Tasks, NEW w \in Workers \cup {NoWorker},
           NEW entity \in Rows,
           Load(s, kind, t, w, entity), row' = row, starts' = starts,
           earlyLogs \subseteq earlyLogs', kind # "none",
           kind \in Saving => entity.status # "none",
           kind \in Saving /\ t \notin earlyLogs' => entity.status \in Begun,
           kind = "log" /\ t \notin earlyLogs' => entity.status = "running",
           entity.status = "running" => starts[t] > 0,
           kind # "create" => row[t].status # "none",
           kind = "create" =>
             /\ row[t].status = "none"
             /\ \A o \in Slots : ~(slot[o].kind = "create" /\ slot[o].task = t)
    PROVE  SavesOK' /\ RowsExist'
<1> DEFINE new == [kind |-> kind, phase |-> "loaded", task |-> t,
                   worker |-> w, entity |-> entity, dirty |-> {}]
<1>1. slot' = [Abandoned(w) EXCEPT ![s] = new]
  BY DEF Load
<1>2. Monotone
  BY DEF Monotone
<1>3. EntityOK(new)
  BY DEF EntityOK
<1>4. /\ new.kind = kind /\ new.phase = "loaded" /\ new.task = t
      /\ new.entity = entity
  OBVIOUS
<1> HIDE DEF new
<1>5. QED
  BY <1>1, <1>2, <1>3, <1>4, SlotTaken

\* The end of a call, or a call given up.
LEMMA QuietSafe ==
    ASSUME TypeInv, SavesOK, RowsExist, Monotone,
           \A o \in Slots :
             \/ slot'[o] = IdleSlot
             \/ /\ slot'[o].kind = slot[o].kind
                /\ slot'[o].phase = slot[o].phase
                /\ slot'[o].task = slot[o].task
                /\ slot'[o].entity = slot[o].entity
                /\ slot'[o].dirty = slot[o].dirty
    PROVE  SavesOK' /\ RowsExist'
<1>1. \A o \in Slots :
        /\ slot[o].kind # "none" => slot[o].task \in Tasks
        /\ slot[o].phase # "idle" => slot[o].task \in Tasks
  BY DEF TypeInv, Calls, RowsExist
<1>2. SavesOK'
  BY <1>1 DEF SavesOK, IdleSlot, NoRow, Monotone, Saving
<1>3. RowsExist'
  BY <1>1 DEF RowsExist, IdleSlot, Monotone
<1>4. QED
  BY <1>2, <1>3

\* Steps that leave the rows and what is known of them alone.
LEMMA FrameSafe ==
    ASSUME SafeInv, UNCHANGED <<row, starts, published, sweep>>,
           earlyLogs \subseteq earlyLogs', SavesOK', RowsExist'
    PROVE  SafeInv'
BY DEF SafeInv, RowsOK, SweepOK, NotEarly

\* Giving up on calls is quiet.
LEMMA AbandonSafe ==
    ASSUME TypeInv, SavesOK, RowsExist, NEW w \in Workers,
           slot' = Abandoned(w), row' = row, starts' = starts,
           earlyLogs' = earlyLogs
    PROVE  SavesOK' /\ RowsExist'
<1>1. Monotone
  BY DEF Monotone
<1>2. QED
  BY <1>1, AbandonedType, QuietSafe DEF TypeInv

\* So is the end of a handler.
LEMMA FinishSafe ==
    ASSUME TypeInv, SavesOK, RowsExist, NEW s \in Slots,
           Finish(s), Monotone
    PROVE  SavesOK' /\ RowsExist'
<1>1. \A o \in Slots : slot'[o] = IF o = s THEN IdleSlot ELSE slot[o]
  BY DEF Finish, TypeInv, TypeOK
<1>2. QED
  BY <1>1, QuietSafe

-----------------------------------------------------------------------------
(* The actions.                                                             *)

LEMMA SafeInit == Init => SafeInv
BY ConstantsAssumption
   DEF Init, SafeInv, RowsOK, SavesOK, RowsExist, SweepOK, NotEarly,
       NoRow, IdleSlot, IdleSweep, Leased, Saving, Begun, Terminal

LEMMA SafeOperators == TypeInv /\ SafeInv /\ Operators => SafeInv'
<1> SUFFICES ASSUME TypeInv, SafeInv, Operators PROVE SafeInv'
  OBVIOUS
<1>0. Requests \subseteq Slots /\ SavesOK /\ RowsExist
  BY DEF Slots, SafeInv
<1>1. ASSUME NEW s \in Requests, NEW t \in Tasks, QueueTaskCheck(s, t)
      PROVE  SafeInv'
  <2>1. SavesOK' /\ RowsExist'
    BY <1>0, <1>1, LoadSafe, NoRowType
       DEF QueueTaskCheck, Kinds, Saving, NoRow
  <2>2. QED
    BY <1>1, <2>1, FrameSafe DEF QueueTaskCheck
<1>2. ASSUME NEW s \in Requests, NEW t \in Tasks, RequestTaskCancellation(s, t)
      PROVE  SafeInv'
  <2>1. row[t] \in Rows /\ CancelEntity(row[t]) \in Rows
    BY EntityTypes DEF TypeInv, TypeOK
  <2>2. /\ CancelEntity(row[t]).status \in Begun
        /\ CancelEntity(row[t]).status = "running" => row[t].status = "running"
    BY <1>2, <2>1 DEF RequestTaskCancellation, CancelEntity, Rows, Statuses,
                      Begun, Leased, Terminal
  <2>3. CancelEntity(row[t]).status = "running" => starts[t] > 0
    BY <2>2 DEF SafeInv, RowsOK
  <2>4. SavesOK' /\ RowsExist'
    <3>1. /\ CancelEntity(row[t]).status # "none" /\ row[t].status # "none"
          /\ "cancel" \in Kinds /\ s \in Slots
          /\ NoWorker \in Workers \cup {NoWorker}
      BY <1>0, <1>2, <2>2 DEF RequestTaskCancellation, Kinds, Begun, Terminal
    <3>2. /\ Load(s, "cancel", t, NoWorker, CancelEntity(row[t]))
          /\ row' = row /\ starts' = starts /\ earlyLogs' = earlyLogs
      BY <1>2 DEF RequestTaskCancellation
    <3>3. QED
      BY <1>0, <2>1, <2>2, <2>3, <3>1, <3>2, LoadSafe
  <2>5. QED
    BY <1>2, <2>4, FrameSafe DEF RequestTaskCancellation
<1>3. ASSUME NEW b \in BOOLEAN, SetMaintenance(b)
      PROVE  SafeInv'
  BY <1>3 DEF SetMaintenance, SafeInv, RowsOK, SavesOK, RowsExist, SweepOK,
              NotEarly
<1>4. QED
  BY <1>1, <1>2, <1>3 DEF Operators

LEMMA SafeAgents == TypeInv /\ SafeInv /\ Agents => SafeInv'
<1> SUFFICES ASSUME TypeInv, SafeInv, Agents PROVE SafeInv'
  OBVIOUS
<1>0. Requests \subseteq Slots /\ SavesOK /\ RowsExist
  BY DEF Slots, SafeInv
<1>1. ASSUME NEW w \in Workers, NEW d \in BOOLEAN, ClaimNextTaskOnce(w, d)
      PROVE  SafeInv'
  <2>1. PICK t \in Tasks :
          /\ Claimable(t)
          /\ row' = [row EXCEPT ![t] =
                       [row[t] EXCEPT !.status = "accepted",
                                      !.claim = claims + 1]]
    BY <1>1 DEF ClaimNextTaskOnce
  <2>2. /\ row[t].status \in {"queued"} \cup Leased
        /\ row'[t].status = "accepted" /\ row'[t].claim # 0
        /\ \A u \in Tasks : u # t => row'[u] = row[u]
    BY <2>1 DEF Claimable, TypeInv, TypeOK, Rows
  <2>3. UNCHANGED <<starts, earlyLogs, published, sweep, slot>>
    BY <1>1 DEF ClaimNextTaskOnce
  <2>4. Monotone
    BY <2>2, <2>3 DEF Monotone, Leased, Begun, Terminal
  <2>5. SavesOK' /\ RowsExist'
    BY <1>0, <2>3, <2>4, QuietSafe
  <2>6. RowsOK'
    BY <2>2, <2>3 DEF SafeInv, RowsOK, Leased, Begun, Terminal
  <2>7. SweepOK' /\ NotEarly'
    BY <2>2, <2>3 DEF SafeInv, SweepOK, NotEarly, Leased, TypeInv, TypeOK
  <2>8. QED
    BY <2>5, <2>6, <2>7 DEF SafeInv
<1>2. ASSUME NEW s \in Requests, NEW w \in Workers, StartClaimedTask(s, w)
      PROVE  SafeInv'
  <2>1. worker[w].task \in Tasks /\ row[worker[w].task] \in Rows
    BY <1>2 DEF StartClaimedTask, TypeInv, TypeOK, Calls
  <2>2. CASE slot' = Abandoned(w)
    BY <1>0, <1>2, <2>2, AbandonSafe, FrameSafe DEF StartClaimedTask
  <2>3. CASE /\ row[worker[w].task].status \in Leased
             /\ Load(s, "start", worker[w].task, w, row[worker[w].task])
    <3>1. SavesOK' /\ RowsExist'
      BY <1>0, <1>2, <2>1, <2>3, LoadSafe
         DEF StartClaimedTask, Kinds, Saving, Leased
    <3>2. QED
      BY <1>2, <3>1, FrameSafe DEF StartClaimedTask
  <2>4. QED
    BY <1>2, <2>2, <2>3 DEF StartClaimedTask
<1>3. ASSUME NEW s \in Requests, NEW w \in Workers, AppendTaskLog(s, w)
      PROVE  SafeInv'
  <2>1. /\ worker[w].task \in Tasks /\ row[worker[w].task] \in Rows
        /\ row[worker[w].task].status = "running"
    BY <1>3 DEF AppendTaskLog, TypeInv, TypeOK, Calls
  <2>2. starts[worker[w].task] > 0
    BY <2>1 DEF SafeInv, RowsOK
  <2>3. SavesOK' /\ RowsExist'
    BY <1>0, <1>3, <2>1, <2>2, LoadSafe DEF AppendTaskLog, Kinds, Begun
  <2>4. QED
    BY <1>3, <2>3, FrameSafe DEF AppendTaskLog
<1>4. ASSUME NEW s \in Requests, NEW w \in Workers, NEW st \in Outcomes,
             CompleteClaimedTask(s, w, st)
      PROVE  SafeInv'
  <2> DEFINE t == worker[w].task
  <2>1. t \in Tasks /\ row[t] \in Rows
    BY <1>4 DEF CompleteClaimedTask, TypeInv, TypeOK, Calls
  <2>2. CASE slot' = Abandoned(w)
    BY <1>0, <1>4, <2>2, AbandonSafe, FrameSafe DEF CompleteClaimedTask
  <2>3. CASE /\ row[t].status \in {"running", "claimed"}
             /\ Load(s, "complete", t, w, CompleteEntity(row[t], st))
    <3>1. /\ CompleteEntity(row[t], st) \in Rows
          /\ CompleteEntity(row[t], st).status \in Terminal
      <4>1. st \in Terminal
        BY ConstantsAssumption
      <4>2. CompleteEntity(row[t], st).status = st
        BY <2>1 DEF CompleteEntity, Rows
      <4>3. QED
        BY <2>1, <4>1, <4>2, EntityTypes
    <3>2. SavesOK' /\ RowsExist'
      BY <1>0, <1>4, <2>1, <2>3, <3>1, LoadSafe
         DEF CompleteClaimedTask, Kinds, Begun, Terminal
    <3>3. QED
      BY <1>4, <3>2, FrameSafe DEF CompleteClaimedTask
  <2>4. QED
    BY <1>4, <2>2, <2>3 DEF CompleteClaimedTask
<1>5. ASSUME NEW w \in Workers, WorkerCrash(w)
      PROVE  SafeInv'
  BY <1>0, <1>5, AbandonSafe, FrameSafe DEF WorkerCrash
<1>6. QED
  BY <1>1, <1>2, <1>3, <1>4, <1>5 DEF Agents

LEMMA SafeDetector == TypeInv /\ SafeInv /\ StaleDetector => SafeInv'
<1> SUFFICES ASSUME TypeInv, SafeInv, StaleDetector PROVE SafeInv'
  OBVIOUS
<1>0. SavesOK /\ RowsExist
  BY DEF SafeInv
<1>1. CASE RequeueExpiredLeases
  <2>1. ASSUME NEW t \in Tasks
        PROVE  \/ row'[t] = row[t]
               \/ row[t].status \in Leased /\ row'[t].status = "queued"
    <3>1. row[t] \in Rows
      BY DEF TypeInv, TypeOK
    <3>2. [row[t] EXCEPT !.status = "queued", !.claim = 0].status = "queued"
      BY <3>1 DEF Rows
    <3>3. QED
      BY <1>1, <3>2 DEF RequeueExpiredLeases, Requeued
  <2>2. /\ UNCHANGED <<starts, earlyLogs, published, slot>>
        /\ sweep'.todo = sweep.todo /\ sweep'.entity = sweep.entity
    BY <1>1 DEF RequeueExpiredLeases, TypeInv, TypeOK
  <2>3. Monotone
    BY <2>1, <2>2 DEF Monotone, Leased, Begun, Terminal
  <2>4. SavesOK' /\ RowsExist'
    BY <1>0, <2>2, <2>3, QuietSafe
  <2>5. RowsOK'
    BY <2>1, <2>2 DEF SafeInv, RowsOK, Leased, Begun, Terminal
  <2>6. SweepOK' /\ NotEarly'
    BY <2>2, <2>3 DEF SafeInv, SweepOK, NotEarly, Monotone,
                      TypeInv, TypeOK
  <2>7. QED
    BY <2>4, <2>5, <2>6 DEF SafeInv
<1>2. CASE SelectStaleTasks
  <2>1. UNCHANGED <<row, starts, earlyLogs, published, slot>>
    BY <1>2 DEF SelectStaleTasks
  <2>2. ASSUME NEW t \in Tasks, Stale(t)
        PROVE  FailEntity(row[t]).status = "failed" /\ row[t].status # "none"
    BY <2>2 DEF Stale, FailEntity, TypeInv, TypeOK, Rows
  <2>3. SweepOK'
    BY <1>2, <2>1, <2>2 DEF SelectStaleTasks, SweepOK
  <2>4. QED
    BY <2>1, <2>3 DEF SafeInv, RowsOK, SavesOK, RowsExist, NotEarly
<1>3. ASSUME NEW t \in Tasks, FailStaleTask(t)
      PROVE  SafeInv'
  <2>1. /\ sweep.entity[t] \in Rows
        /\ sweep.entity[t].status = "failed"
        /\ row[t].status # "none"
    BY <1>3 DEF FailStaleTask, TypeInv, TypeOK, SafeInv, SweepOK
  <2>2. UNCHANGED <<row, starts, earlyLogs, published>>
    BY <1>3 DEF FailStaleTask
  <2>3. SavesOK' /\ RowsExist'
    BY <1>0, <1>3, <2>1, <2>2, LoadSafe
       DEF FailStaleTask, Kinds, Slots, Begun, Terminal
  <2>4. /\ sweep'.todo = sweep.todo \ {t}
        /\ \A u \in sweep'.todo : sweep'.entity[u] = sweep.entity[u]
    BY <1>3 DEF FailStaleTask, TypeInv, TypeOK
  <2>5. SweepOK'
    BY <2>2, <2>4 DEF SafeInv, SweepOK
  <2>6. QED
    BY <2>2, <2>3, <2>5 DEF SafeInv, RowsOK, NotEarly
<1>4. CASE SweepDone
  BY <1>4 DEF SweepDone, IdleSweep, SafeInv, RowsOK, SavesOK, RowsExist,
              SweepOK, NotEarly
<1>5. QED
  BY <1>1, <1>2, <1>3, <1>4 DEF StaleDetector

\* A handler that goes on, in a step that is otherwise monotone.
LEMMA AdvanceSafe ==
    ASSUME TypeInv, SavesOK, RowsExist, Monotone, NEW s \in Slots,
           slot[s].phase # "idle", NEW new \in SlotStates,
           slot' = [slot EXCEPT ![s] = new],
           new.phase # "idle", new.kind = slot[s].kind,
           new.task = slot[s].task, new.kind # "none",
           new.kind \in Saving => new.entity = slot[s].entity,
           new.entity.status = "running" => starts'[new.task] > 0,
           new.kind \in Saving /\ new.phase = "dirty"
             /\ "status" \notin new.dirty /\ new.task \notin earlyLogs'
           => row'[new.task].status \in Begun,
           new.kind # "create"
    PROVE  SavesOK' /\ RowsExist'
<1>1. slot'[s] = new /\ \A o \in Slots : o # s => slot'[o] = slot[o]
  BY DEF TypeInv, TypeOK
<1>2. \A o \in Slots :
        /\ slot[o].kind # "none" => slot[o].task \in Tasks
        /\ slot[o].phase # "idle" => slot[o].task \in Tasks
  BY DEF TypeInv, Calls, RowsExist
<1>3. SavesOK'
  BY <1>1, <1>2 DEF SavesOK, Monotone, Saving
<1>4. RowsExist'
  BY <1>1, <1>2 DEF RowsExist, Monotone
<1>5. QED
  BY <1>3, <1>4

\* What a save does to the status of its row.
LEMMA UpdatedStatus ==
    ASSUME NEW r, NEW entity, NEW dirty
    PROVE  /\ UpdateColumns(r, entity, dirty).status
                \in {r.status, entity.status}
           /\ "status" \in dirty
              => UpdateColumns(r, entity, dirty).status = entity.status
BY DEF UpdateColumns

\* If the status is not dirty then entity and row agreed on it.
LEMMA CleanStatus ==
    ASSUME NEW kind, NEW entity, NEW r,
           "status" \notin DiffColumns(kind, entity, r)
    PROVE  entity.status = r.status
BY DEF DiffColumns, Columns

LEMMA SafeHandler ==
    ASSUME NEW s \in Slots
    PROVE  TypeInv /\ SafeInv /\ Handler(s) => SafeInv'
<1> SUFFICES ASSUME TypeInv, SafeInv, Handler(s) PROVE SafeInv'
  OBVIOUS
<1> DEFINE t == slot[s].task
<1>0. /\ slot[s] \in SlotStates
      /\ slot[s].phase # "idle" => t \in Tasks /\ row[t] \in Rows
      /\ slot[s].entity \in Rows
      /\ SavesOK /\ RowsExist
  BY DEF TypeInv, TypeOK, Calls, SlotStates, SafeInv
<1>1. CASE QueueTaskInsert(s)
  <2> DEFINE queued == [NoRow EXCEPT !.status = "queued"]
  <2>1. /\ t \in Tasks
        /\ row[t].status = "none"
        /\ t \notin earlyLogs => starts[t] = 0
    BY <1>0, <1>1 DEF QueueTaskInsert, SafeInv, RowsOK, RowsExist, Begun,
                      Terminal, TypeInv, TypeOK
  <2>2. /\ row'[t].status = "queued"
        /\ \A u \in Tasks : u # t => row'[u] = row[u]
        /\ UNCHANGED <<starts, earlyLogs, published, sweep>>
    BY <1>1, <2>1 DEF QueueTaskInsert, NoRow, TypeInv, TypeOK
  <2>3. /\ slot'[s].kind = "create" /\ slot'[s].phase = "saved"
        /\ slot'[s].task = t /\ slot'[s].entity.status = "queued"
        /\ \A o \in Slots : o # s => slot'[o] = slot[o]
    BY <1>0, <1>1 DEF QueueTaskInsert, NoRow, TypeInv, TypeOK, SlotStates
  <2>4. \A o \in Slots : o # s =>
          /\ slot[o].kind = "create" => slot[o].task # t
          /\ slot[o].phase # "idle" /\ slot[o].kind # "create"
             => slot[o].task # t
    BY <1>1, <2>1 DEF QueueTaskInsert, SafeInv, RowsExist
  <2>5. \A o \in Slots :
          /\ slot[o].kind # "none" => slot[o].task \in Tasks
          /\ slot[o].phase # "idle" => slot[o].task \in Tasks
    BY DEF TypeInv, Calls, SafeInv, RowsExist
  <2>6. RowsOK'
    BY <2>1, <2>2 DEF SafeInv, RowsOK, Leased, Begun, Terminal
  <2>7. SavesOK'
    BY <2>2, <2>3, <2>4, <2>5 DEF SafeInv, SavesOK, Saving, RowsExist
  <2>8. RowsExist'
    BY <2>2, <2>3, <2>4, <2>5 DEF SafeInv, RowsExist
  <2>9. SweepOK' /\ NotEarly'
    BY <2>1, <2>2 DEF SafeInv, SweepOK, NotEarly, TypeInv, TypeOK
  <2>10. QED
    BY <2>6, <2>7, <2>8, <2>9 DEF SafeInv
<1>2. CASE StartUpdate(s)
  <2> DEFINE running == [row[t] EXCEPT !.status = "running",
                                       !.startedAt = TRUE, !.claim = 0]
             new == [slot[s] EXCEPT !.phase = "stored"]
  <2>1. /\ slot[s].phase = "loaded" /\ slot[s].kind = "start"
        /\ t \in Tasks /\ row[t] \in Rows
    BY <1>0, <1>2 DEF StartUpdate
  <2>2. CASE ~(row[t].status \in Leased /\ row[t].claim # 0)
    <3>1. Finish(s) /\ UNCHANGED <<row, starts, earlyLogs, published, sweep>>
      BY <1>2, <2>2 DEF StartUpdate
    <3>2. Monotone
      BY <3>1 DEF Monotone
    <3>3. QED
      BY <1>0, <3>1, <3>2, FinishSafe, FrameSafe
  <2>3. CASE row[t].status \in Leased /\ row[t].claim # 0
    <3>1. running \in Rows /\ running.status = "running"
      BY <2>1, RunningType DEF Rows
    <3>2. /\ row' = [row EXCEPT ![t] = running] /\ RecordStart(t)
          /\ UNCHANGED <<published, sweep>>
      BY <1>2, <2>3 DEF StartUpdate
    <3>3. slot' = [slot EXCEPT ![s] = new]
      BY <1>2, <2>3 DEF StartUpdate, TypeInv, TypeOK
    <3> HIDE DEF running
    <3>4. /\ new \in SlotStates /\ new.phase = "stored" /\ new.kind = "start"
          /\ new.task = t
      BY <1>0, <2>1 DEF SlotStates, Phases
    <3> HIDE DEF new
    <3>5. t \notin earlyLogs => starts[t] = 0
      BY <2>1, <2>3 DEF SafeInv, RowsOK, Leased, Begun, Terminal, TypeInv,
                        TypeOK
    <3>6. /\ starts'[t] > 0
          /\ t \notin earlyLogs => starts'[t] = 1
          /\ \A u \in Tasks : u # t => starts'[u] = starts[u]
          /\ earlyLogs' = earlyLogs
      BY <1>2, <2>1, <3>2, <3>5 DEF StartUpdate, RecordStart, TypeInv, TypeOK
    <3>7. /\ row'[t].status = "running"
          /\ \A u \in Tasks : u # t => row'[u] = row[u]
      BY <2>1, <3>1, <3>2 DEF TypeInv, TypeOK
    <3>8. Monotone
      BY <2>3, <3>5, <3>6, <3>7 DEF Monotone, Leased, Begun
    <3>9. SavesOK' /\ RowsExist'
      <4>1. /\ slot[s].phase # "idle" /\ new.phase # "idle"
            /\ new.kind = slot[s].kind /\ new.kind # "none"
            /\ new.kind # "create" /\ new.kind \notin Saving
        BY <2>1, <3>4 DEF Saving
      <4>2. starts'[new.task] > 0
        BY <3>4, <3>6
      <4>3. QED
        BY <1>0, <3>3, <3>4, <3>8, <4>1, <4>2, AdvanceSafe
    <3>10. RowsOK'
      BY <3>6, <3>7 DEF SafeInv, RowsOK, Begun, Leased
    <3>11. SweepOK' /\ NotEarly'
      BY <3>2, <3>8 DEF SafeInv, SweepOK, NotEarly, Monotone,
                        TypeInv, TypeOK
    <3>12. QED
      BY <3>9, <3>10, <3>11 DEF SafeInv
  <2>4. QED
    BY <2>2, <2>3
<1>3. CASE SaveReload(s)
  <2> DEFINE dirty == DiffColumns(slot[s].kind, slot[s].entity, row[t])
             new == [slot[s] EXCEPT !.phase = "dirty", !.dirty = dirty]
  <2>1. /\ slot' = [slot EXCEPT ![s] = new] /\ slot[s].phase # "idle"
        /\ slot[s].kind \in Saving
        /\ UNCHANGED <<row, starts, earlyLogs, published, sweep>>
    BY <1>3 DEF SaveReload, TypeInv, TypeOK
  <2>2. dirty \in SUBSET Columns
    BY DiffType
  <2>3. "status" \notin dirty /\ t \notin earlyLogs => row[t].status \in Begun
    BY <1>0, <2>1, CleanStatus DEF SavesOK
  <2> HIDE DEF dirty
  <2>4. /\ new \in SlotStates /\ new.phase = "dirty" /\ new.dirty = dirty
        /\ new.kind = slot[s].kind /\ new.task = t
        /\ new.entity = slot[s].entity
    BY <1>0, <2>2 DEF SlotStates, Phases
  <2> HIDE DEF new
  <2>5. Monotone
    BY <2>1 DEF Monotone
  <2>6. slot[s].entity.status = "running" => starts[t] > 0
    BY <1>0, <2>1 DEF SavesOK, Saving
  <2>7. SavesOK' /\ RowsExist'
    BY <1>0, <2>1, <2>3, <2>4, <2>5, <2>6, AdvanceSafe DEF Saving
  <2>8. QED
    BY <2>1, <2>7, FrameSafe
<1>4. CASE SaveUpdate(s)
  <2> DEFINE new == [slot[s] EXCEPT !.phase = "saved", !.dirty = {}]
             upd == UpdateColumns(row[t], slot[s].entity, slot[s].dirty)
  <2>1. /\ slot[s].phase = "dirty" /\ slot[s].kind \in Saving
        /\ t \in Tasks
        /\ UNCHANGED <<starts, earlyLogs, published, sweep>>
        /\ row' = [row EXCEPT ![t] = upd]
    BY <1>0, <1>4 DEF SaveUpdate
  <2>2. /\ t \notin earlyLogs => upd.status \in Begun
        /\ upd.status \in {row[t].status, slot[s].entity.status}
        /\ slot[s].entity.status # "none"
    BY <1>0, <2>1, UpdatedStatus DEF SavesOK
  <2>3. /\ row'[t] = upd
        /\ \A u \in Tasks : u # t => row'[u] = row[u]
    BY <2>1 DEF TypeInv, TypeOK
  <2> HIDE DEF upd
  <2>4. row[t].status # "none"
    BY <1>0, <2>1 DEF RowsExist, Saving
  <2>5. Monotone
    BY <2>1, <2>2, <2>3, <2>4 DEF Monotone, Begun, Terminal
  <2>6. slot[s].entity.status = "running" => starts[t] > 0
    BY <1>0, <2>1 DEF SavesOK, Saving
  <2>7. RowsOK'
    BY <2>1, <2>2, <2>3, <2>6 DEF SafeInv, RowsOK, Begun, Leased, Terminal
  <2>8. SweepOK' /\ NotEarly'
    BY <2>1, <2>5 DEF SafeInv, SweepOK, NotEarly, Monotone,
                      TypeInv, TypeOK
  <2>9. SavesOK' /\ RowsExist'
    <3>1. CASE slot[s].kind = "log"
      BY <1>0, <1>4, <2>5, <3>1, FinishSafe DEF SaveUpdate
    <3>2. CASE slot[s].kind # "log"
      <4>1. slot' = [slot EXCEPT ![s] = new]
        BY <1>4, <3>2 DEF SaveUpdate, TypeInv, TypeOK
      <4>2. /\ new \in SlotStates /\ new.phase = "saved"
            /\ new.kind = slot[s].kind /\ new.task = t
            /\ new.entity = slot[s].entity
        BY <1>0 DEF SlotStates, Phases
      <4> HIDE DEF new
      <4>3. QED
        BY <1>0, <2>1, <2>5, <2>6, <4>1, <4>2, AdvanceSafe DEF Saving
    <3>3. QED
      BY <3>1, <3>2
  <2>10. QED
    BY <2>7, <2>8, <2>9 DEF SafeInv
<1>5. CASE PublishTask(s)
  <2>1. /\ slot[s].phase = "saved" /\ t \in Tasks
        /\ published' = [published EXCEPT ![t] = @ \cup {slot[s].entity.status}]
        /\ Finish(s) /\ UNCHANGED <<row, starts, earlyLogs, sweep>>
    BY <1>0, <1>5 DEF PublishTask, Publish
  <2>2. Monotone
    BY <2>1 DEF Monotone
  <2>3. SavesOK' /\ RowsExist'
    BY <1>0, <2>1, <2>2, FinishSafe
  <2>4. /\ row[t].status # "none"
        /\ slot[s].entity.status = "running" => starts[t] > 0
    BY <1>0, <2>1 DEF RowsExist, SavesOK
  <2>5. NotEarly'
    BY <2>1, <2>4 DEF SafeInv, NotEarly, TypeInv, TypeOK
  <2>6. QED
    BY <2>1, <2>3, <2>5 DEF SafeInv, RowsOK, SweepOK
<1>6. CASE StartReload(s)
  <2> DEFINE new == [slot[s] EXCEPT !.phase = "saved", !.entity = row[t]]
  <2>1. /\ slot' = [slot EXCEPT ![s] = new] /\ slot[s].phase # "idle"
        /\ slot[s].kind = "start" /\ t \in Tasks
        /\ UNCHANGED <<row, starts, earlyLogs, published, sweep>>
    BY <1>0, <1>6 DEF StartReload, TypeInv, TypeOK
  <2>2. /\ new \in SlotStates /\ new.phase = "saved"
        /\ new.kind = "start" /\ new.task = t /\ new.entity = row[t]
    BY <1>0, <2>1 DEF SlotStates, Phases
  <2> HIDE DEF new
  <2>3. Monotone
    BY <2>1 DEF Monotone
  <2>4. row[t].status = "running" => starts'[t] > 0
    BY <2>1 DEF SafeInv, RowsOK
  <2>5. SavesOK' /\ RowsExist'
    BY <1>0, <2>1, <2>2, <2>3, <2>4, AdvanceSafe DEF Saving
  <2>6. QED
    BY <2>1, <2>5, FrameSafe
<1>7. CASE StartMissed(s)
  <2>1. Finish(s) /\ UNCHANGED <<row, starts, earlyLogs, published, sweep>>
    BY <1>7 DEF StartMissed
  <2>2. Monotone
    BY <2>1 DEF Monotone
  <2>3. QED
    BY <1>0, <2>1, <2>2, FinishSafe, FrameSafe
<1>8. QED
  BY <1>1, <1>2, <1>3, <1>4, <1>5, <1>6, <1>7 DEF Handler

LEMMA SafeHandlerDies ==
    ASSUME NEW s \in Slots
    PROVE  TypeInv /\ SafeInv /\ HandlerDies(s) => SafeInv'
<1> SUFFICES ASSUME TypeInv, SafeInv, HandlerDies(s) PROVE SafeInv'
  OBVIOUS
<1>1. /\ Finish(s) /\ UNCHANGED <<row, starts, earlyLogs, published>>
      /\ sweep' \in {sweep, IdleSweep}
  BY DEF HandlerDies
<1>2. Monotone
  BY <1>1 DEF Monotone
<1>3. SavesOK' /\ RowsExist'
  BY <1>1, <1>2, FinishSafe DEF SafeInv
<1>4. SweepOK'
  BY <1>1 DEF SafeInv, SweepOK, IdleSweep
<1>5. QED
  BY <1>1, <1>3, <1>4 DEF SafeInv, RowsOK, NotEarly

LEMMA SafeClock == TypeInv /\ SafeInv /\ Clock => SafeInv'
<1> SUFFICES ASSUME TypeInv, SafeInv, Clock PROVE SafeInv'
  OBVIOUS
<1>1. UNCHANGED <<row, starts, earlyLogs, published, sweep, slot>>
  BY DEF Clock, LeaseExpires, QueuedDeadlinePasses, RunningDeadlinePasses
<1>2. QED
  BY <1>1 DEF SafeInv, RowsOK, SavesOK, RowsExist, SweepOK, NotEarly

LEMMA SafeRealtime == TypeInv /\ SafeInv /\ RealtimeAgents => SafeInv'
<1> SUFFICES ASSUME TypeInv, SafeInv, RealtimeAgents PROVE SafeInv'
  OBVIOUS
<1>0. Requests \subseteq Slots /\ SavesOK /\ RowsExist
  BY DEF Slots, SafeInv
<1>1. ASSUME NEW w \in Workers, NEW t \in Tasks, DispatchTaskToNode(w, t)
      PROVE  SafeInv'
  BY <1>1 DEF DispatchTaskToNode, SafeInv, RowsOK, SavesOK, RowsExist, SweepOK,
              NotEarly
<1>2. ASSUME NEW s \in Requests, NEW w \in Workers, StartForAgent(s, w)
      PROVE  SafeInv'
  <2> DEFINE t == worker[w].task
             running == [row[t] EXCEPT !.status = "running",
                                       !.startedAt = TRUE,
                                       !.finishedAt = FALSE]
             new(phase) == [kind |-> "start", phase |-> phase, task |-> t,
                            worker |-> w, entity |-> row[t], dirty |-> {}]
  <2>1. /\ t \in Tasks /\ row[t] \in Rows /\ s \in Slots
        /\ UNCHANGED <<earlyLogs, published, sweep>>
    BY <1>0, <1>2 DEF StartForAgent, TypeInv, TypeOK, Calls
  <2>2. CASE row[t].status # "queued"
    <3>1. /\ slot' = [Abandoned(w) EXCEPT ![s] = new("missed")]
          /\ row[t].status # "none"
          /\ UNCHANGED <<row, starts>>
      BY <1>2, <2>2 DEF StartForAgent
    <3>2. EntityOK(new("missed"))
      BY <2>1, <3>1 DEF EntityOK, Saving, SafeInv, RowsOK
    <3>3. Monotone
      BY <2>1, <3>1 DEF Monotone
    <3>4. SavesOK' /\ RowsExist'
      BY <1>0, <2>1, <3>1, <3>2, <3>3, SlotTaken
    <3>5. QED
      BY <2>1, <3>1, <3>4, FrameSafe
  <2>3. CASE row[t].status = "queued"
    <3>1. running \in Rows /\ running.status = "running"
      BY <2>1, RunningType DEF Rows
    <3>2. /\ row' = [row EXCEPT ![t] = running] /\ RecordStart(t)
          /\ slot' = [Abandoned(w) EXCEPT ![s] = new("stored")]
      BY <1>2, <2>3 DEF StartForAgent
    <3> HIDE DEF running
    <3>4. /\ starts'[t] > 0
          /\ t \notin earlyLogs => starts[t] = 0 /\ starts'[t] = 1
          /\ \A u \in Tasks : u # t => starts'[u] = starts[u]
      <4>1. t \notin earlyLogs => starts[t] = 0
        BY <2>1, <2>3 DEF SafeInv, RowsOK, Begun, Terminal, TypeInv, TypeOK
      <4>2. QED
        BY <2>1, <3>2, <4>1 DEF RecordStart, TypeInv, TypeOK
    <3>5. /\ row'[t].status = "running"
          /\ \A u \in Tasks : u # t => row'[u] = row[u]
      BY <2>1, <3>1, <3>2 DEF TypeInv, TypeOK
    <3>6. Monotone
      BY <2>1, <2>3, <3>2, <3>4, <3>5 DEF Monotone, Begun
    <3>7. SavesOK' /\ RowsExist'
      <4>1. EntityOK(new("stored")) /\ row'[t].status # "none"
        BY <2>3, <3>4, <3>5 DEF EntityOK, Saving
      <4>2. QED
        BY <1>0, <2>1, <3>2, <3>6, <4>1, SlotTaken
    <3>8. RowsOK'
      BY <2>1, <3>2, <3>4, <3>5 DEF SafeInv, RowsOK, Begun, Leased
    <3>9. SweepOK' /\ NotEarly'
      BY <2>1, <3>2, <3>6 DEF SafeInv, SweepOK, NotEarly, Monotone,
                              TypeInv, TypeOK
    <3>10. QED
      BY <3>7, <3>8, <3>9 DEF SafeInv
  <2>4. QED
    BY <2>2, <2>3
<1>3. ASSUME NEW s \in Requests, NEW w \in Workers, AppendLogForAgent(s, w)
      PROVE  SafeInv'
  <2> DEFINE t == worker[w].task
  <2>1. /\ t \in Tasks /\ row[t] \in Rows
        /\ row[t].status \in Leased \cup {"running"}
        /\ row[t].status = "running" \/ t \in earlyLogs'
        /\ Load(s, "log", t, NoWorker, row[t])
        /\ earlyLogs \subseteq earlyLogs'
        /\ UNCHANGED <<row, starts, published, sweep>>
    BY <1>3 DEF AppendLogForAgent, TypeInv, TypeOK, Calls
  <2>2. row[t].status = "running" => starts[t] > 0
    BY <2>1 DEF SafeInv, RowsOK
  <2>3. row[t].status # "none"
    BY <2>1 DEF Leased
  <2>4. SavesOK' /\ RowsExist'
    BY <1>0, <2>1, <2>2, <2>3, LoadSafe DEF Kinds, Begun
  <2>5. QED
    BY <2>1, <2>4, FrameSafe
<1>4. ASSUME NEW s \in Requests, NEW w \in Workers, NEW st \in Outcomes,
             CompleteForAgent(s, w, st)
      PROVE  SafeInv'
  <2> DEFINE t == worker[w].task
             entity == [CompleteEntity(row[t], st) EXCEPT
                          !.claim = row[t].claim]
  <2>1. t \in Tasks /\ row[t] \in Rows
    BY <1>4 DEF CompleteForAgent, TypeInv, TypeOK, Calls
  <2>2. CASE slot' = Abandoned(w)
    BY <1>0, <1>4, <2>2, AbandonSafe, FrameSafe DEF CompleteForAgent
  <2>3. CASE row[t].status # "none" /\ Load(s, "complete", t, w, entity)
    <3>1. entity \in Rows /\ entity.status \in Terminal
      <4>1. st \in Terminal
        BY ConstantsAssumption
      <4>2. CompleteEntity(row[t], st) \in Rows
        BY <2>1, <4>1, EntityTypes
      <4>3. CompleteEntity(row[t], st).status = st
        BY <2>1 DEF CompleteEntity, Rows
      <4>4. QED
        BY <2>1, <4>1, <4>2, <4>3 DEF Rows
    <3>2. row[t].status # "none" /\ UNCHANGED <<row, starts, earlyLogs, published, sweep>>
      BY <1>4, <2>3 DEF CompleteForAgent
    <3> HIDE DEF entity
    <3>3. SavesOK' /\ RowsExist'
      BY <1>0, <2>1, <2>3, <3>1, <3>2, LoadSafe DEF Kinds, Begun, Terminal
    <3>4. QED
      BY <3>2, <3>3, FrameSafe
  <2>4. QED
    BY <1>4, <2>2, <2>3 DEF CompleteForAgent
<1>5. QED
  BY <1>1, <1>2, <1>3, <1>4 DEF RealtimeAgents

LEMMA SafeNext == TypeInv /\ SafeInv /\ [Next]_vars => SafeInv'
<1> SUFFICES ASSUME TypeInv, SafeInv, [Next]_vars PROVE SafeInv'
  OBVIOUS
<1>1. CASE UNCHANGED vars
  BY <1>1 DEF vars, SafeInv, RowsOK, SavesOK, RowsExist, SweepOK,
              NotEarly
<1>2. CASE Next
  BY <1>2, SafeOperators, SafeAgents, SafeRealtime, SafeDetector, SafeHandler,
     SafeHandlerDies, SafeClock DEF Next
<1>3. QED
  BY <1>1, <1>2

LEMMA AlwaysSafe == Spec => [](TypeInv /\ SafeInv)
BY TypeInit, TypeNext, SafeInit, SafeNext, PTL DEF Spec

-----------------------------------------------------------------------------
(* The theorems.                                                            *)

\* No interleaving of claims, expiring leases, crashes and saves of stale
\* entities lets a task be started twice, over HTTP, the socket or both, unless
\* a log was taken before its start.
THEOREM TaskStartedOnce == Spec => []StartedOnce
<1>1. TypeInv /\ SafeInv => StartedOnce
  BY DEF TypeInv, SafeInv, RowsOK, StartedOnce
<1>2. QED
  BY <1>1, AlwaysSafe, PTL

\* A task that was given to an agent can always be taken back by
\* requeueExpiredLeases: its lease is never cleared while it is leased.
THEOREM LeaseNeverLost == Spec => []LeasedHasLease
<1>1. SafeInv => LeasedHasLease
  BY DEF SafeInv, RowsOK, LeasedHasLease
<1>2. QED
  BY <1>1, AlwaysSafe, PTL

(***************************************************************************)
(* A finished row is announced, or about to be.  The handler about to do   *)
(* it holds the row's own status: only its UPDATE can have written it, a   *)
(* log never writes a terminal status, and a save that leaves the status   *)
(* alone leaves the announcement to the handler whose save wrote it.       *)
(***************************************************************************)
EndsAnnounced ==
    \A t \in Tasks :
        row[t].status \in Terminal \ published[t] =>
            \/ t \in silenced
            \/ \E s \in Slots : /\ slot[s].task = t /\ slot[s].phase = "saved"
                               /\ slot[s].entity.status = row[t].status

LogsUnfinished ==
    \A s \in Slots : slot[s].kind = "log" => slot[s].entity.status \notin Terminal

AnnouncedInv == EndsAnnounced /\ LogsUnfinished

\* A step that finishes no row and ends no handler about to announce one.
LEMMA AnnouncedKept ==
    ASSUME AnnouncedInv, published' = published, silenced \subseteq silenced',
           \A t \in Tasks : row'[t].status \in Terminal
                            => row'[t].status = row[t].status,
           \A o \in Slots :
             \/ slot'[o] = IdleSlot /\ slot[o].phase # "saved"
             \/ /\ slot'[o].kind = slot[o].kind
                /\ slot'[o].phase = slot[o].phase
                /\ slot'[o].task = slot[o].task
                /\ slot'[o].entity = slot[o].entity
             \/ /\ slot[o].phase # "saved"
                /\ slot'[o].kind = "log"
                   => slot'[o].entity.status \notin Terminal
    PROVE  AnnouncedInv'
<1>1. EndsAnnounced'
  <2> SUFFICES ASSUME NEW t \in Tasks, row'[t].status \in Terminal,
                      row'[t].status \notin published[t], t \notin silenced'
               PROVE  \E s \in Slots : /\ slot'[s].task = t
                                       /\ slot'[s].phase = "saved"
                                       /\ slot'[s].entity.status = row'[t].status
    BY DEF EndsAnnounced
  <2>1. row[t].status \in Terminal \ published[t] /\ t \notin silenced
    OBVIOUS
  <2>2. PICK s \in Slots : /\ slot[s].task = t /\ slot[s].phase = "saved"
                           /\ slot[s].entity.status = row[t].status
    BY <2>1 DEF AnnouncedInv, EndsAnnounced
  <2>3. QED
    BY <2>2
<1>2. LogsUnfinished'
  BY DEF AnnouncedInv, LogsUnfinished, IdleSlot
<1>3. QED
  BY <1>1, <1>2 DEF AnnouncedInv

\* A new call disturbs no announcement, and giving up on one does not either.
LEMMA AnnouncedLoad ==
    ASSUME TypeInv, AnnouncedInv, UNCHANGED <<row, published, silenced>>,
           NEW s \in Slots, NEW kind, NEW t, NEW w \in Workers \cup {NoWorker},
           NEW entity, Load(s, kind, t, w, entity),
           kind = "log" => entity.status \notin Terminal
    PROVE  AnnouncedInv'
<1> DEFINE new == [kind |-> kind, phase |-> "loaded", task |-> t,
                   worker |-> w, entity |-> entity, dirty |-> {}]
<1>1. Abandoned(w) \in [Slots -> SlotStates]
  BY AbandonedType DEF TypeInv
<1>2. slot' = [Abandoned(w) EXCEPT ![s] = new] /\ slot[s].phase = "idle"
  BY DEF Load
<1>3. new.kind = kind /\ new.entity = entity
  OBVIOUS
<1> HIDE DEF new
<1>4. slot'[s] = new /\ \A o \in Slots : o # s => slot'[o] = Abandoned(w)[o]
  BY <1>1, <1>2
<1>5. \A o \in Slots :
        \/ /\ slot'[o].kind = slot[o].kind
           /\ slot'[o].phase = slot[o].phase
           /\ slot'[o].task = slot[o].task
           /\ slot'[o].entity = slot[o].entity
        \/ /\ slot[o].phase # "saved"
           /\ slot'[o].kind = "log" => slot'[o].entity.status \notin Terminal
  BY <1>2, <1>3, <1>4, AbandonedType DEF TypeInv
<1>6. QED
  BY <1>5, AnnouncedKept

LEMMA AnnouncedAnswer ==
    ASSUME TypeInv, AnnouncedInv, UNCHANGED <<row, published, silenced>>,
           NEW w \in Workers \cup {NoWorker}, slot' = Abandoned(w)
    PROVE  AnnouncedInv'
BY AbandonedType, AnnouncedKept DEF TypeInv

\* Nor does the end of a handler that was not about to announce anything.
LEMMA AnnouncedFinish ==
    ASSUME TypeInv, AnnouncedInv, published' = published, silenced' = silenced,
           NEW s \in Slots, slot[s].phase # "saved", Finish(s),
           \A t \in Tasks : row'[t].status \in Terminal
                            => row'[t].status = row[t].status
    PROVE  AnnouncedInv'
<1>1. \A o \in Slots :
        \/ slot'[o] = IdleSlot /\ slot[o].phase # "saved"
        \/ slot'[o] = slot[o]
  BY DEF Finish, TypeInv, TypeOK
<1>2. QED
  BY <1>1, AnnouncedKept

\* Nor does one that goes on.
LEMMA AnnouncedAdvance ==
    ASSUME TypeInv, AnnouncedInv, published' = published, silenced' = silenced,
           NEW s \in Slots, slot[s].phase # "saved", NEW new,
           slot' = [slot EXCEPT ![s] = new],
           new.kind = "log" => new.entity.status \notin Terminal,
           \A t \in Tasks : row'[t].status \in Terminal
                            => row'[t].status = row[t].status
    PROVE  AnnouncedInv'
<1>1. slot'[s] = new /\ \A o \in Slots : o # s => slot'[o] = slot[o]
  BY DEF TypeInv, TypeOK
<1>2. QED
  BY <1>1, AnnouncedKept

LEMMA AnnouncedInit == Init => AnnouncedInv
BY ConstantsAssumption
   DEF Init, AnnouncedInv, EndsAnnounced, LogsUnfinished, NoRow, IdleSlot,
       Terminal

LEMMA AnnouncedCalls ==
    TypeInv /\ AnnouncedInv /\ (Operators \/ Agents) => AnnouncedInv'
<1> SUFFICES ASSUME TypeInv, AnnouncedInv, Operators \/ Agents
             PROVE  AnnouncedInv'
  OBVIOUS
<1>0. Requests \subseteq Slots
  BY DEF Slots
<1>1. ASSUME NEW s \in Requests, NEW t \in Tasks,
             QueueTaskCheck(s, t) \/ RequestTaskCancellation(s, t)
      PROVE  AnnouncedInv'
  <2>1. CASE QueueTaskCheck(s, t)
    BY <1>0, <2>1, AnnouncedLoad DEF QueueTaskCheck
  <2>2. CASE RequestTaskCancellation(s, t)
    BY <1>0, <2>2, AnnouncedLoad DEF RequestTaskCancellation
  <2>3. QED
    BY <1>1, <2>1, <2>2
<1>2. ASSUME NEW b \in BOOLEAN, SetMaintenance(b)
      PROVE  AnnouncedInv'
  BY <1>2, AnnouncedKept DEF SetMaintenance
<1>3. ASSUME NEW w \in Workers, NEW d \in BOOLEAN, ClaimNextTaskOnce(w, d)
      PROVE  AnnouncedInv'
  <2>1. PICK t \in Tasks :
          row' = [row EXCEPT ![t] = [row[t] EXCEPT !.status = "accepted",
                                                   !.claim = claims + 1]]
    BY <1>3 DEF ClaimNextTaskOnce
  <2>2. \A u \in Tasks : row'[u].status \in Terminal
                         => row'[u].status = row[u].status
    BY <2>1 DEF TypeInv, TypeOK, Rows, Terminal
  <2>3. QED
    BY <1>3, <2>2, AnnouncedKept DEF ClaimNextTaskOnce
<1>4. ASSUME NEW s \in Requests, NEW w \in Workers,
             StartClaimedTask(s, w) \/ AppendTaskLog(s, w)
      PROVE  AnnouncedInv'
  <2>1. CASE StartClaimedTask(s, w)
    BY <1>0, <2>1, AnnouncedLoad, AnnouncedAnswer DEF StartClaimedTask
  <2>2. CASE AppendTaskLog(s, w)
    <3>1. /\ Load(s, "log", worker[w].task, NoWorker, row[worker[w].task])
          /\ row[worker[w].task].status \notin Terminal
          /\ UNCHANGED <<row, published, silenced>>
      BY <2>2 DEF AppendTaskLog, Terminal
    <3>2. QED
      BY <1>0, <3>1, AnnouncedLoad
  <2>3. QED
    BY <1>4, <2>1, <2>2
<1>5. ASSUME NEW s \in Requests, NEW w \in Workers, NEW st \in Outcomes,
             CompleteClaimedTask(s, w, st)
      PROVE  AnnouncedInv'
  <2>1. CASE slot' = Abandoned(w)
    BY <1>5, <2>1, AnnouncedAnswer DEF CompleteClaimedTask
  <2>2. CASE Load(s, "complete", worker[w].task, w,
                  CompleteEntity(row[worker[w].task], st))
    BY <1>0, <1>5, <2>2, AnnouncedLoad DEF CompleteClaimedTask
  <2>3. QED
    BY <1>5, <2>1, <2>2 DEF CompleteClaimedTask
<1>6. ASSUME NEW w \in Workers, WorkerCrash(w)
      PROVE  AnnouncedInv'
  BY <1>6, AnnouncedAnswer DEF WorkerCrash
<1>7. QED
  BY <1>1, <1>2, <1>3, <1>4, <1>5, <1>6 DEF Operators, Agents

LEMMA AnnouncedRealtime == TypeInv /\ AnnouncedInv /\ RealtimeAgents => AnnouncedInv'
<1> SUFFICES ASSUME TypeInv, AnnouncedInv, RealtimeAgents PROVE AnnouncedInv'
  OBVIOUS
<1>0. Requests \subseteq Slots
  BY DEF Slots
<1>1. ASSUME NEW w \in Workers, NEW t \in Tasks, DispatchTaskToNode(w, t)
      PROVE  AnnouncedInv'
  BY <1>1, AnnouncedKept DEF DispatchTaskToNode
<1>2. ASSUME NEW s \in Requests, NEW w \in Workers, StartForAgent(s, w)
      PROVE  AnnouncedInv'
  <2> DEFINE t == worker[w].task
             call(phase) == [kind |-> "start", phase |-> phase, task |-> t,
                             worker |-> w, entity |-> row[t], dirty |-> {}]
  <2>1. PICK ph : slot' = [Abandoned(w) EXCEPT ![s] = call(ph)]
    BY <1>2 DEF StartForAgent
  <2>2. \A u \in Tasks : row'[u].status \in Terminal
                         => row'[u].status = row[u].status
    <3>1. CASE row' = row
      BY <3>1
    <3>2. CASE row' = [row EXCEPT ![t] =
                         [row[t] EXCEPT !.status = "running",
                                        !.startedAt = TRUE,
                                        !.finishedAt = FALSE]]
      <4>1. row'[t].status \notin Terminal \/ t \notin Tasks
        BY <3>2 DEF TypeInv, TypeOK, Rows, Terminal
      <4>2. \A u \in Tasks : u # t => row'[u] = row[u]
        BY <3>2 DEF TypeInv, TypeOK
      <4>3. QED
        BY <4>1, <4>2
    <3>3. QED
      BY <1>2, <3>1, <3>2 DEF StartForAgent
  <2>3. /\ published' = published /\ silenced' = silenced
        /\ slot[s].phase = "idle"
    BY <1>2 DEF StartForAgent
  <2>4. call(ph).kind # "log"
    OBVIOUS
  <2>5. Abandoned(w) \in [Slots -> SlotStates]
    BY AbandonedType DEF TypeInv
  <2> HIDE DEF call
  <2>6. slot'[s] = call(ph) /\ \A o \in Slots : o # s => slot'[o] = Abandoned(w)[o]
    BY <1>0, <2>1, <2>5
  <2>7. \A o \in Slots :
          \/ /\ slot'[o].kind = slot[o].kind
             /\ slot'[o].phase = slot[o].phase
             /\ slot'[o].task = slot[o].task
             /\ slot'[o].entity = slot[o].entity
          \/ slot[o].phase # "saved" /\ slot'[o].kind # "log"
    BY <2>3, <2>4, <2>6, AbandonedType DEF TypeInv
  <2>8. QED
    BY <2>2, <2>3, <2>7, AnnouncedKept
<1>3. ASSUME NEW s \in Requests, NEW w \in Workers, AppendLogForAgent(s, w)
      PROVE  AnnouncedInv'
  <2>1. /\ Load(s, "log", worker[w].task, NoWorker, row[worker[w].task])
        /\ row[worker[w].task].status \notin Terminal
        /\ UNCHANGED <<row, published, silenced>>
    BY <1>3 DEF AppendLogForAgent, Terminal, Leased
  <2>2. QED
    BY <1>0, <2>1, AnnouncedLoad
<1>4. ASSUME NEW s \in Requests, NEW w \in Workers, NEW st \in Outcomes,
             CompleteForAgent(s, w, st)
      PROVE  AnnouncedInv'
  BY <1>0, <1>4, AnnouncedLoad, AnnouncedAnswer DEF CompleteForAgent
<1>5. QED
  BY <1>1, <1>2, <1>3, <1>4 DEF RealtimeAgents

LEMMA AnnouncedDetector == TypeInv /\ AnnouncedInv /\ StaleDetector => AnnouncedInv'
<1> SUFFICES ASSUME TypeInv, AnnouncedInv, StaleDetector PROVE AnnouncedInv'
  OBVIOUS
<1>1. CASE RequeueExpiredLeases
  <2>1. \A t \in Tasks : row'[t].status \in Terminal
                         => row'[t].status = row[t].status
    BY <1>1 DEF RequeueExpiredLeases, TypeInv, TypeOK, Rows, Terminal
  <2>2. QED
    BY <1>1, <2>1, AnnouncedKept DEF RequeueExpiredLeases
<1>2. CASE SelectStaleTasks \/ SweepDone
  BY <1>2, AnnouncedKept DEF SelectStaleTasks, SweepDone
<1>3. ASSUME NEW t \in Tasks, FailStaleTask(t) PROVE AnnouncedInv'
  BY <1>3, AnnouncedLoad DEF FailStaleTask, Slots
<1>4. QED
  BY <1>1, <1>2, <1>3 DEF StaleDetector

LEMMA AnnouncedHandler ==
    ASSUME NEW s \in Slots
    PROVE  TypeInv /\ AnnouncedInv /\ Handler(s) => AnnouncedInv'
<1> SUFFICES ASSUME TypeInv, AnnouncedInv, Handler(s) PROVE AnnouncedInv'
  OBVIOUS
<1> DEFINE t == slot[s].task
<1>0. /\ slot[s] \in SlotStates
      /\ slot[s].phase # "idle" => t \in Tasks /\ row[t] \in Rows
      /\ slot[s].entity \in Rows
  BY DEF TypeInv, TypeOK, Calls, SlotStates
<1>1. CASE QueueTaskInsert(s)
  <2> DEFINE queued == [NoRow EXCEPT !.status = "queued"]
             new == [slot[s] EXCEPT !.phase = "saved", !.entity = queued]
  <2>1. \A u \in Tasks : row'[u].status \in Terminal
                         => row'[u].status = row[u].status
    BY <1>1 DEF QueueTaskInsert, TypeInv, TypeOK, NoRow, Terminal
  <2>2. /\ slot' = [slot EXCEPT ![s] = new]
        /\ slot[s].phase # "saved" /\ slot[s].kind = "create"
        /\ published' = published /\ silenced' = silenced
    BY <1>1 DEF QueueTaskInsert, TypeInv, TypeOK
  <2>3. new.kind # "log"
    BY <1>0, <2>2 DEF SlotStates
  <2> HIDE DEF new
  <2>4. QED
    BY <2>1, <2>2, <2>3, AnnouncedAdvance
<1>2. CASE StartUpdate(s)
  <2> DEFINE running == [row[t] EXCEPT !.status = "running",
                                       !.startedAt = TRUE, !.claim = 0]
             new == [slot[s] EXCEPT !.phase = "stored"]
  <2>1. /\ slot[s].phase = "loaded" /\ slot[s].kind = "start"
        /\ published' = published /\ silenced' = silenced /\ t \in Tasks
    BY <1>0, <1>2 DEF StartUpdate
  <2>2. CASE row' = row /\ Finish(s)
    BY <2>1, <2>2, AnnouncedFinish
  <2>3. CASE /\ row' = [row EXCEPT ![t] = running]
             /\ slot' = [slot EXCEPT ![s].phase = "stored"]
    <3>1. running.status \notin Terminal
      BY <1>0, <2>1 DEF Rows, Terminal
    <3>2. /\ row'[t] = running
          /\ \A u \in Tasks : u # t => row'[u] = row[u]
      BY <2>1, <2>3 DEF TypeInv, TypeOK
    <3> HIDE DEF running
    <3>3. \A u \in Tasks : row'[u].status \in Terminal
                           => row'[u].status = row[u].status
      BY <3>1, <3>2
    <3>4. slot' = [slot EXCEPT ![s] = new] /\ new.kind # "log"
      BY <1>0, <2>1, <2>3 DEF TypeInv, TypeOK, SlotStates
    <3> HIDE DEF new
    <3>5. QED
      BY <2>1, <3>3, <3>4, AnnouncedAdvance
  <2>4. QED
    BY <1>2, <2>2, <2>3 DEF StartUpdate
<1>3. CASE StartReload(s)
  <2> DEFINE new == [slot[s] EXCEPT !.phase = "saved", !.entity = row[t]]
  <2>1. /\ slot' = [slot EXCEPT ![s] = new]
        /\ slot[s].phase # "saved" /\ slot[s].kind = "start"
        /\ row' = row /\ published' = published /\ silenced' = silenced
    BY <1>3 DEF StartReload, TypeInv, TypeOK
  <2>2. new.kind # "log"
    BY <1>0, <2>1 DEF SlotStates
  <2> HIDE DEF new
  <2>3. QED
    BY <2>1, <2>2, AnnouncedAdvance
<1>4. CASE StartMissed(s)
  BY <1>4, AnnouncedFinish DEF StartMissed
<1>5. CASE SaveReload(s)
  <2> DEFINE dirty == DiffColumns(slot[s].kind, slot[s].entity, row[t])
             new == [slot[s] EXCEPT !.phase = "dirty", !.dirty = dirty]
  <2>1. /\ slot' = [slot EXCEPT ![s] = new] /\ slot[s].phase # "saved"
        /\ row' = row /\ published' = published /\ silenced' = silenced
    BY <1>5 DEF SaveReload, TypeInv, TypeOK
  <2> HIDE DEF dirty
  <2>2. new.kind = slot[s].kind /\ new.entity = slot[s].entity
    BY <1>0 DEF SlotStates
  <2> HIDE DEF new
  <2>3. new.kind = "log" => new.entity.status \notin Terminal
    BY <2>2 DEF AnnouncedInv, LogsUnfinished
  <2>4. QED
    BY <2>1, <2>3, AnnouncedAdvance
<1>6. CASE SaveUpdate(s)
  <2> DEFINE upd == UpdateColumns(row[t], slot[s].entity, slot[s].dirty)
  <2>1. /\ slot[s].phase = "dirty" /\ t \in Tasks
        /\ row' = [row EXCEPT ![t] = upd]
        /\ UNCHANGED <<published, silenced>>
    BY <1>0, <1>6 DEF SaveUpdate
  <2>2. upd.status \in {row[t].status, slot[s].entity.status}
    BY UpdatedStatus
  <2> HIDE DEF upd
  <2>3. /\ row'[t] = upd
        /\ \A u \in Tasks : u # t => row'[u] = row[u]
    BY <2>1 DEF TypeInv, TypeOK
  <2>4. CASE slot[s].kind = "log"
    <3>1. Finish(s)
      BY <1>6, <2>4 DEF SaveUpdate
    <3>2. slot[s].entity.status \notin Terminal
      BY <2>4 DEF AnnouncedInv, LogsUnfinished
    <3>3. \A u \in Tasks : row'[u].status \in Terminal
                           => row'[u].status = row[u].status
      BY <2>2, <2>3, <3>2
    <3>4. QED
      BY <2>1, <3>1, <3>3, AnnouncedFinish
  <2>5. CASE slot[s].kind # "log"
    <3>1. /\ slot'[s].phase = "saved" /\ slot'[s].task = t
          /\ slot'[s].kind = slot[s].kind
          /\ slot'[s].entity = slot[s].entity
          /\ \A o \in Slots : o # s => slot'[o] = slot[o]
      BY <1>0, <1>6, <2>5 DEF SaveUpdate, TypeInv, TypeOK, SlotStates
    <3>2. LogsUnfinished'
      BY <2>5, <3>1 DEF AnnouncedInv, LogsUnfinished
    <3>3. EndsAnnounced'
      <4> SUFFICES ASSUME NEW u \in Tasks, row'[u].status \in Terminal,
                          row'[u].status \notin published[u],
                          u \notin silenced
                   PROVE  \E o \in Slots :
                            /\ slot'[o].task = u /\ slot'[o].phase = "saved"
                            /\ slot'[o].entity.status = row'[u].status
        BY <2>1 DEF EndsAnnounced
      <4>1. CASE u = t /\ row'[t].status = slot[s].entity.status
        BY <3>1, <4>1
      <4>2. CASE row'[u].status = row[u].status
        <5>1. PICK o \in Slots :
                /\ slot[o].task = u /\ slot[o].phase = "saved"
                /\ slot[o].entity.status = row[u].status
          BY <4>2 DEF AnnouncedInv, EndsAnnounced
        <5>2. o # s
          BY <2>1, <5>1
        <5>3. QED
          BY <3>1, <4>2, <5>1, <5>2
      <4>3. QED
        BY <2>2, <2>3, <4>1, <4>2
    <3>4. QED
      BY <3>2, <3>3 DEF AnnouncedInv
  <2>6. QED
    BY <2>4, <2>5
<1>7. CASE PublishTask(s)
  <2>1. /\ t \in Tasks
        /\ published' = [published EXCEPT ![t] = @ \cup {slot[s].entity.status}]
        /\ row' = row /\ silenced' = silenced
        /\ slot' = [slot EXCEPT ![s] = IdleSlot]
    BY <1>0, <1>7 DEF PublishTask, Publish, Finish
  <2>2. /\ slot'[s] = IdleSlot
        /\ \A o \in Slots : o # s => slot'[o] = slot[o]
    BY <2>1 DEF TypeInv, TypeOK
  <2>3. /\ published'[t] = published[t] \cup {slot[s].entity.status}
        /\ \A u \in Tasks : u # t => published'[u] = published[u]
    BY <2>1 DEF TypeInv, TypeOK
  <2>4. LogsUnfinished'
    BY <2>2 DEF AnnouncedInv, LogsUnfinished, IdleSlot
  <2>5. EndsAnnounced'
    <3> SUFFICES ASSUME NEW u \in Tasks, row[u].status \in Terminal,
                        row[u].status \notin published'[u], u \notin silenced
                 PROVE  \E o \in Slots :
                          /\ slot'[o].task = u /\ slot'[o].phase = "saved"
                          /\ slot'[o].entity.status = row[u].status
      BY <2>1 DEF EndsAnnounced
    <3>1. row[u].status \notin published[u]
      BY <2>3
    <3>2. PICK o \in Slots :
            /\ slot[o].task = u /\ slot[o].phase = "saved"
            /\ slot[o].entity.status = row[u].status
      BY <3>1 DEF AnnouncedInv, EndsAnnounced
    <3>3. o # s
      BY <2>3, <3>2
    <3>4. QED
      BY <2>2, <3>2, <3>3
  <2>6. QED
    BY <2>4, <2>5 DEF AnnouncedInv
<1>8. QED
  BY <1>1, <1>2, <1>3, <1>4, <1>5, <1>6, <1>7 DEF Handler

LEMMA AnnouncedDeath ==
    ASSUME NEW s \in Slots
    PROVE  TypeInv /\ AnnouncedInv /\ HandlerDies(s) => AnnouncedInv'
<1> SUFFICES ASSUME TypeInv, AnnouncedInv, HandlerDies(s) PROVE AnnouncedInv'
  OBVIOUS
<1>1. /\ row' = row /\ published' = published
      /\ silenced \subseteq silenced'
      /\ slot[s].phase = "saved" => slot[s].task \in silenced'
      /\ slot' = [slot EXCEPT ![s] = IdleSlot]
  BY DEF HandlerDies, Finish
<1>2. /\ slot'[s] = IdleSlot
      /\ \A o \in Slots : o # s => slot'[o] = slot[o]
  BY <1>1 DEF TypeInv, TypeOK
<1>3. LogsUnfinished'
  BY <1>2 DEF AnnouncedInv, LogsUnfinished, IdleSlot
<1>4. EndsAnnounced'
  BY <1>1, <1>2 DEF AnnouncedInv, EndsAnnounced
<1>5. QED
  BY <1>3, <1>4 DEF AnnouncedInv

LEMMA AnnouncedNext == TypeInv /\ AnnouncedInv /\ [Next]_vars => AnnouncedInv'
<1> SUFFICES ASSUME TypeInv, AnnouncedInv, [Next]_vars PROVE AnnouncedInv'
  OBVIOUS
<1>1. CASE UNCHANGED vars
  BY <1>1, AnnouncedKept DEF vars
<1>2. CASE Clock
  BY <1>2, AnnouncedKept
     DEF Clock, LeaseExpires, QueuedDeadlinePasses, RunningDeadlinePasses
<1>3. CASE Next
  BY <1>2, <1>3, AnnouncedCalls, AnnouncedRealtime, AnnouncedDetector,
     AnnouncedHandler, AnnouncedDeath DEF Next
<1>4. QED
  BY <1>1, <1>3

\* publishTaskUpdated never announces a task before its insert nor a run
\* before its start, and the end of a task is announced or about to be unless
\* a handler died between its UPDATE and its event.
THEOREM EventsNeverEarly == Spec => []EventsFollowRow
<1>1. SafeInv /\ AnnouncedInv => EventsFollowRow
  BY DEF SafeInv, NotEarly, AnnouncedInv, EndsAnnounced, EventsFollowRow
<1>2. Spec => []AnnouncedInv
  BY TypeInit, TypeNext, AnnouncedInit, AnnouncedNext, PTL DEF Spec
<1>3. QED
  BY <1>1, <1>2, AlwaysSafe, PTL

NoEarlyLogs == earlyLogs = {}

\* appendClaimedTaskLogForAgent never stores a line for a task that no agent
\* has started.
THEOREM LogsNeedStart ==
    ASSUME Realtime = FALSE
    PROVE  Spec => []LogNeedsStart
<1>1. SafeInv /\ NoEarlyLogs => LogNeedsStart
  BY DEF SafeInv, SavesOK, LogNeedsStart, Saving, NoEarlyLogs
<1>2. Init => NoEarlyLogs
  BY DEF Init, NoEarlyLogs
<1>3. NoEarlyLogs /\ [Next]_vars => NoEarlyLogs'
  <2> SUFFICES ASSUME earlyLogs = {}, [Next]_vars PROVE earlyLogs' = {}
    BY DEF NoEarlyLogs
  <2>1. ~RealtimeAgents
    BY DEF RealtimeAgents, DispatchTaskToNode, StartForAgent,
           AppendLogForAgent, CompleteForAgent
  <2>2. CASE UNCHANGED vars
    BY <2>2 DEF vars
  <2>3. CASE Operators
    BY <2>3 DEF Operators, QueueTaskCheck, RequestTaskCancellation,
                SetMaintenance
  <2>4. CASE Agents
    BY <2>4 DEF Agents, ClaimNextTaskOnce, StartClaimedTask, AppendTaskLog,
                CompleteClaimedTask, WorkerCrash
  <2>5. CASE StaleDetector
    BY <2>5 DEF StaleDetector, RequeueExpiredLeases, SelectStaleTasks,
                FailStaleTask, SweepDone
  <2>6. ASSUME NEW s \in Slots, Handler(s) \/ HandlerDies(s)
        PROVE  earlyLogs' = {}
    BY <2>6 DEF Handler, QueueTaskInsert, StartUpdate, StartReload,
                StartMissed, SaveReload, SaveUpdate, PublishTask, HandlerDies
  <2>7. CASE Clock
    BY <2>7 DEF Clock, LeaseExpires, QueuedDeadlinePasses,
                RunningDeadlinePasses
  <2>8. QED
    BY <2>1, <2>2, <2>3, <2>4, <2>5, <2>6, <2>7 DEF Next
<1>4. QED
  BY <1>1, <1>2, <1>3, AlwaysSafe, PTL DEF Spec

\* One step never brings back a task that finished before its start.
LEMMA FinalStep ==
    ASSUME TypeInv, SafeInv, [Next]_vars, NEW t \in Tasks \ earlyLogs,
           row[t].status \in Terminal, starts[t] = 0
    PROVE  row'[t].status \in Terminal
<1>0. /\ row[t].status \notin Leased \cup {"none", "queued"}
      /\ row[t] \in Rows
  BY DEF Terminal, Leased, TypeInv, TypeOK
<1>1. CASE row' = row
  BY <1>1
<1>2. ASSUME NEW w \in Workers, NEW d \in BOOLEAN, ClaimNextTaskOnce(w, d)
      PROVE  row'[t].status \in Terminal
  <2>1. PICK u \in Tasks :
          /\ Claimable(u)
          /\ row' = [row EXCEPT ![u] =
                       [row[u] EXCEPT !.status = "accepted",
                                      !.claim = claims + 1]]
    BY <1>2 DEF ClaimNextTaskOnce
  <2>2. u # t
    BY <1>0, <2>1 DEF Claimable
  <2>3. QED
    BY <2>1, <2>2 DEF TypeInv, TypeOK
<1>3. CASE RequeueExpiredLeases
  BY <1>0, <1>3 DEF RequeueExpiredLeases, Requeued
<1>4. ASSUME NEW s \in Slots, QueueTaskInsert(s)
      PROVE  row'[t].status \in Terminal
  <2>1. slot[s].task # t
    BY <1>0, <1>4 DEF QueueTaskInsert, SafeInv, RowsExist
  <2>2. QED
    BY <1>4, <2>1 DEF QueueTaskInsert, TypeInv, TypeOK
<1>5. ASSUME NEW s \in Slots, StartUpdate(s)
      PROVE  row'[t].status \in Terminal
  BY <1>0, <1>5 DEF StartUpdate, TypeInv, TypeOK
<1>6. ASSUME NEW s \in Slots, SaveUpdate(s)
      PROVE  row'[t].status \in Terminal
  <2>1. CASE slot[s].task # t
    BY <1>6, <2>1 DEF SaveUpdate, TypeInv, TypeOK
  <2>2. CASE slot[s].task = t
    <3>1. row'[t] = UpdateColumns(row[t], slot[s].entity, slot[s].dirty)
      BY <1>6, <2>2 DEF SaveUpdate, TypeInv, TypeOK
    <3>2. slot[s].entity.status \in Begun
      BY <1>6, <2>2 DEF SaveUpdate, SafeInv, SavesOK
    <3>3. slot[s].entity.status # "running"
      <4>1. slot[s].kind # "none" /\ ~(starts[t] > 0)
        BY <1>6 DEF SaveUpdate, Saving
      <4>2. QED
        BY <2>2, <4>1 DEF SafeInv, SavesOK
    <3>4. QED
      BY <3>1, <3>2, <3>3, UpdatedStatus DEF Begun
  <2>3. QED
    BY <2>1, <2>2
<1>7. CASE RealtimeAgents
  <2>1. ASSUME NEW s \in Requests, NEW w \in Workers, StartForAgent(s, w)
        PROVE  row'[t].status \in Terminal
    BY <1>0, <2>1 DEF StartForAgent, TypeInv, TypeOK
  <2>2. QED
    BY <1>1, <1>7, <2>1 DEF RealtimeAgents, DispatchTaskToNode,
                            AppendLogForAgent, CompleteForAgent
<1>8. CASE Operators
  BY <1>1, <1>8 DEF Operators, QueueTaskCheck, RequestTaskCancellation,
                    SetMaintenance
<1>9. CASE Agents
  BY <1>1, <1>2, <1>9 DEF Agents, StartClaimedTask, AppendTaskLog,
                          CompleteClaimedTask, WorkerCrash
<1>10. CASE StaleDetector
  BY <1>1, <1>3, <1>10 DEF StaleDetector, SelectStaleTasks, FailStaleTask,
                           SweepDone
<1>11. ASSUME NEW s \in Slots, Handler(s)
       PROVE  row'[t].status \in Terminal
  BY <1>1, <1>4, <1>5, <1>6, <1>11
     DEF Handler, StartReload, StartMissed, SaveReload, PublishTask
<1>12. ASSUME NEW s \in Slots, HandlerDies(s)
       PROVE  row'[t].status \in Terminal
  BY <1>1, <1>12 DEF HandlerDies
<1>13. CASE Clock
  BY <1>1, <1>13 DEF Clock, LeaseExpires, QueuedDeadlinePasses,
                     RunningDeadlinePasses
<1>14. QED
  BY <1>1, <1>7, <1>8, <1>9, <1>10, <1>11, <1>12, <1>13 DEF Next, vars

\* A task that was cancelled or timed out before any start stays finished.
THEOREM UnstartedStaysFinished == Spec => UnstartedTerminalIsFinal
<1>1. TypeInv /\ SafeInv /\ [Next]_vars
      => [\A t \in Tasks \ earlyLogs :
             row[t].status \in Terminal /\ starts[t] = 0
                => row'[t].status \in Terminal]_vars
  BY FinalStep
<1>2. QED
  BY <1>1, AlwaysSafe, PTL DEF Spec, UnstartedTerminalIsFinal
=============================================================================
