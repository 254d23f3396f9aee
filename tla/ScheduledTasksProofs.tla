------------------------ MODULE ScheduledTasksProofs ------------------------
(***************************************************************************)
(* What the leases of scheduled tasks keep for every number of processes,  *)
(* schedules, nodes, requests and faults, with the cluster lock or without *)
(* it: the state stays well-formed, no occurrence is queued early, and as  *)
(* long as nothing spoils a schedule each of its occurrences is worked on  *)
(* by one process and queued once per node.  And that the occurrences are  *)
(* the calendar of the schedule's zone (Cadences).                         *)
(***************************************************************************)
EXTENDS ScheduledTasks, Cadences, TLAPS

-----------------------------------------------------------------------------
(* The inductive invariant.                                                  *)

\* From the claim of a schedule until the runner has done with it.
Working == {"targets", "check", "insert", "announce", "finish", "record",
            "release"}

\* Runner p has claimed schedule s and is not done with it.
WorksOn(p, s) == runner[p].phase \in Working /\ runner[p].sched = s

\* The claim of p is the one in the row, and nobody may take it over.
Leases(p, s) == row[s].token = p /\ s \notin leaseOld

\* What a runner has in its variables.
RunnerOK(p) ==
    /\ runner[p].phase \in Working => /\ runner[p].sched \in Schedules
                                      /\ runner[p].occ \in Nat
                                      /\ runner[p].occ <= now
    /\ runner[p].phase = "claim" => runner[p].sched \in Schedules
    /\ runner[p].phase \in {"idle", "select", "claim", "unlock", "targets"}
          => ~runner[p].made
    /\ runner[p].phase = "insert" => runner[p].node \subseteq runner[p].left
    /\ runner[p].phase = "record" => ~Holds(p)

\* Operators save a row without a claim.
RequestOK(r) ==
    request[r].phase # "idle" => /\ request[r].sched \in Schedules
                                 /\ request[r].entity.token = NoProcess

\* No two runners work on the same occurrence, and the one whose claim is in
\* the row works on the last one.
Apart(s) ==
    \A p, q \in Processes : WorksOn(p, s) /\ WorksOn(q, s) /\ p # q =>
        /\ runner[p].occ # runner[q].occ
        /\ row[s].token = p => runner[q].occ < runner[p].occ

\* The next occurrence comes after all that runners work on, or is the one
\* that the holder of the lease works on.
NextIsNew(s) ==
    row[s].next # NoRun =>
        \A p \in Processes : WorksOn(p, s) =>
            /\ runner[p].occ <= row[s].next
            /\ runner[p].occ = row[s].next => Leases(p, s)

\* Runner p has a lease for occurrence o of s and has queued tasks of it.
Queueing(p, s, o) ==
    WorksOn(p, s) /\ Leases(p, s) /\ runner[p].occ = o /\ runner[p].made

\* So do the occurrences that have tasks.
RunsBefore(s) ==
    \A o \in Occurrences, n \in Nodes : runs[s][o][n] > 0 =>
        /\ \A p \in Processes : WorksOn(p, s) /\ row[s].token = p
                                   => o <= runner[p].occ
        /\ row[s].next # NoRun =>
              /\ o <= row[s].next
              /\ o = row[s].next => \E p \in Processes : Queueing(p, s, o)

\* The targets that are left have no task of the occurrence.
LeftHaveNone(s) ==
    \A p \in Processes, n \in Nodes :
        WorksOn(p, s) /\ runs[s][runner[p].occ][n] > 0
           => runner[p].made /\ n \notin runner[p].left

SchedOK(s) == Apart(s) /\ NextIsNew(s) /\ RunsBefore(s) /\ LeftHaveNone(s)

ScheduleInv ==
    /\ TypeOK
    /\ \A p \in Processes : RunnerOK(p)
    /\ \A r \in Requests : RequestOK(r)
    /\ NeverEarly
    /\ OncePerOccurrence
    /\ \A s \in Schedules \ spoiled : SchedOK(s)

-----------------------------------------------------------------------------
(* Runners, rows and time.                                                   *)

LEMMA RunnerFields ==
    ASSUME NEW r \in RunnerStates
    PROVE  /\ r.phase \in Phases /\ r.sched \in Schedules \cup {NoSchedule}
           /\ r.occ \in Nat \cup {NoRun} /\ r.left \subseteq Nodes
           /\ r.denied \subseteq Nodes /\ r.node \subseteq Nodes
           /\ r.made \in BOOLEAN
  BY DEF RunnerStates

LEMMA IdleRunnerOK ==
    /\ IdleRunner \in RunnerStates /\ IdleRunner.phase = "idle"
    /\ IdleRunner.made = FALSE
  BY DEF IdleRunner, RunnerStates, Phases

\* A runner that starts its loop again or ends it.
LEMMA IdleInPhase ==
    ASSUME NEW ph \in Phases, NEW r, r = [IdleRunner EXCEPT !.phase = ph]
    PROVE  r \in RunnerStates /\ r.phase = ph /\ ~r.made
<1>1. IdleRunner \in RunnerStates
  BY IdleRunnerOK
<1>2. r \in RunnerStates
  BY <1>1, Zenon DEF RunnerStates
<1>3. r.phase = ph /\ r.made = FALSE
  BY Zenon DEF IdleRunner
<1> QED
  BY <1>2, <1>3

\* A runner that moves to another phase with its variables as they are.
LEMMA OtherPhase ==
    ASSUME NEW old \in RunnerStates, NEW ph \in Phases, NEW r,
           r = [old EXCEPT !.phase = ph]
    PROVE  /\ r \in RunnerStates /\ r.phase = ph /\ r.sched = old.sched
           /\ r.occ = old.occ /\ r.left = old.left /\ r.denied = old.denied
           /\ r.node = old.node /\ r.made = old.made
<1>1. r \in RunnerStates
  BY Zenon DEF RunnerStates
<1>2. DOMAIN old = {"phase", "sched", "occ", "left", "denied", "node", "made"}
  BY DEF RunnerStates
<1>3. r.phase = ph
  BY <1>2, Zenon
<1>4. /\ r.sched = old.sched /\ r.occ = old.occ /\ r.left = old.left
      /\ r.denied = old.denied /\ r.node = old.node /\ r.made = old.made
  BY <1>2, Zenon
<1> QED
  BY <1>1, <1>3, <1>4

LEMMA RowFields ==
    ASSUME NEW w \in Rows
    PROVE  /\ w.exists \in BOOLEAN /\ w.enabled \in BOOLEAN
           /\ w.next \in Nat \cup {NoRun}
           /\ w.token \in Processes \cup {NoProcess}
  BY DEF Rows

\* What the proofs below need to know of the state.
LEMMA Typed ==
    ASSUME TypeOK
    PROVE  /\ now \in Nat /\ now <= MaxTime /\ MaxTime \in Nat
           /\ runner \in [Processes -> RunnerStates]
           /\ \A p \in Processes : runner[p] \in RunnerStates
           /\ row \in [Schedules -> Rows]
           /\ \A s \in Schedules : row[s] \in Rows
           /\ NoRun \notin Nat /\ NoProcess \notin Processes
           /\ NoSchedule \notin Schedules
           /\ \A s \in Schedules : Interval[s] \in Nat /\ Interval[s] > 0
           /\ \A s \in Schedules, o \in Occurrences, n \in Nodes :
                 runs[s][o][n] \in 0 .. 2
  BY ScheduleAssumption, LockAssumption DEF TypeOK, Occurrences

\* One runner goes on, the others stay where they are.
LEMMA OneRunner ==
    ASSUME TypeOK, NEW p \in Processes, NEW r \in RunnerStates,
           runner' = [runner EXCEPT ![p] = r]
    PROVE  /\ runner' \in [Processes -> RunnerStates] /\ runner'[p] = r
           /\ \A q \in Processes \ {p} : runner'[q] = runner[q]
  BY DEF TypeOK

\* A runner inside its loop keeps the lock, or nobody does.
LEMMA StillInside ==
    ASSUME TypeOK, NEW p \in Processes, NEW r \in RunnerStates,
           runner' = [runner EXCEPT ![p] = r], UNCHANGED lockVars,
           runner[p].phase # "idle", r.phase # "idle"
    PROVE  LockTypeOK' /\ inside' = {q \in Processes : runner'[q].phase # "idle"}
  BY OneRunner DEF TypeOK, LockTypeOK, lockVars

\* The other runners are well-formed as long as time goes on and no process
\* but p enters its claim.
LEMMA SameRunnerOK ==
    ASSUME ScheduleInv, TypeOK', now <= now', NEW q \in Processes,
           runner'[q] = runner[q],
           \A s \in Schedules : row'[s].token = q => row[s].token = q
    PROVE  RunnerOK(q)'
<1>1. RunnerOK(q)
  BY DEF ScheduleInv
<1>2. now \in Nat /\ now' \in Nat
  BY DEF ScheduleInv, TypeOK
<1> QED
  BY <1>1, <1>2 DEF RunnerOK, Holds, Working

\* A schedule is as it was when its row and its tasks are and the runners go on
\* with it; a runner may leave it that has queued nothing or has lost its claim.
LEMMA Untouched ==
    ASSUME ScheduleInv, TypeOK', NEW s \in Schedules, s \notin spoiled,
           row'[s] = row[s], s \in leaseOld' => s \in leaseOld,
           runs'[s] = runs[s],
           \A p \in Processes : WorksOn(p, s)' =>
              /\ WorksOn(p, s) /\ runner'[p].occ = runner[p].occ
              /\ runner'[p].made = runner[p].made
              /\ runner'[p].left \subseteq runner[p].left \/ ~runner[p].made,
           \A p \in Processes :
              WorksOn(p, s) /\ row[s].token = p /\ runner[p].made
                 => WorksOn(p, s)'
    PROVE  SchedOK(s)'
<1>1. SchedOK(s)
  BY DEF ScheduleInv
<1>2. Apart(s)'
  BY <1>1 DEF SchedOK, Apart
<1>3. NextIsNew(s)'
  BY <1>1 DEF SchedOK, NextIsNew, Leases
<1>4. RunsBefore(s)'
  <2> SUFFICES ASSUME NEW o \in Occurrences, NEW n \in Nodes, runs'[s][o][n] > 0
               PROVE  /\ \A p \in Processes : WorksOn(p, s)' /\ row'[s].token = p
                                   => o <= runner'[p].occ
                      /\ row'[s].next # NoRun =>
                           /\ o <= row'[s].next
                           /\ o = row'[s].next =>
                                 \E p \in Processes : Queueing(p, s, o)'
    BY DEF RunsBefore
  <2>1. /\ \A p \in Processes : WorksOn(p, s) /\ row[s].token = p
                                   => o <= runner[p].occ
        /\ row[s].next # NoRun =>
              /\ o <= row[s].next
              /\ o = row[s].next => \E p \in Processes : Queueing(p, s, o)
    BY <1>1 DEF SchedOK, RunsBefore
  <2>2. \A p \in Processes : Queueing(p, s, o) => Queueing(p, s, o)'
    BY DEF Queueing, Leases
  <2> QED
    BY <2>1, <2>2
<1>5. LeftHaveNone(s)'
  BY <1>1 DEF SchedOK, LeftHaveNone
<1> QED
  BY <1>2, <1>3, <1>4, <1>5 DEF SchedOK

-----------------------------------------------------------------------------
(* Steps of a runner that leave rows, tasks and time alone.                  *)

LEMMA InitInv == Init => ScheduleInv
<1> SUFFICES ASSUME Init PROVE ScheduleInv
  OBVIOUS
<1>1. \A p \in Processes : runner[p] = IdleRunner
  BY DEF Init
<1>2. TypeOK
  <2>1. /\ IdleRequest \in RequestStates /\ NoRow \in Rows
    BY DEF IdleRequest, RequestStates, NoRow, Rows
  <2>2. inside = {p \in Processes : runner[p].phase # "idle"}
    BY <1>1, IdleRunnerOK DEF Init, LockInit
  <2>3. 0 \in 0 .. MaxTime
    BY ScheduleAssumption
  <2>4. runs \in [Schedules -> [Occurrences -> [Nodes -> 0 .. 2]]]
    BY DEF Init
  <2>5. /\ runner \in [Processes -> RunnerStates]
        /\ request \in [Requests -> RequestStates]
        /\ row \in [Schedules -> Rows]
    BY <2>1, IdleRunnerOK DEF Init
  <2>6. LockTypeOK /\ now \in 0 .. MaxTime /\ archived \in BOOLEAN
    BY <2>3 DEF Init, LockInit, LockTypeOK
  <2>7. /\ leaseOld \subseteq Schedules /\ spoiled \subseteq Schedules
        /\ maintenance \subseteq Nodes /\ rootDenied \subseteq Nodes
        /\ {faults, slow, ops, changes} \subseteq Nat
    BY DEF Init
  <2> QED
    BY <2>2, <2>4, <2>5, <2>6, <2>7 DEF TypeOK
<1>3. \A p \in Processes : RunnerOK(p) /\ \A s \in Schedules : ~WorksOn(p, s)
  BY <1>1, IdleRunnerOK DEF RunnerOK, WorksOn, Working
<1>4. \A r \in Requests : RequestOK(r)
  BY DEF Init, RequestOK, IdleRequest
<1>5. \A s \in Schedules, o \in Occurrences, n \in Nodes : runs[s][o][n] = 0
  BY DEF Init
<1>6. \A s \in Schedules : row[s].next = NoRun
  BY DEF Init, NoRow
<1>7. ASSUME NEW s \in Schedules PROVE SchedOK(s)
  <2>1. Apart(s) /\ NextIsNew(s) /\ LeftHaveNone(s)
    BY <1>3, <1>6 DEF Apart, NextIsNew, LeftHaveNone
  <2>2. RunsBefore(s)
    BY <1>5 DEF RunsBefore
  <2> QED
    BY <2>1, <2>2 DEF SchedOK
<1>8. NeverEarly /\ OncePerOccurrence
  BY <1>5 DEF NeverEarly, OncePerOccurrence
<1> QED
  BY <1>2, <1>3, <1>4, <1>7, <1>8 DEF ScheduleInv

\* Runner p goes on to r.  It may leave a schedule that it has queued nothing
\* of, that it holds no claim of, or that counts as spoiled from now on.
LEMMA RunnerStep ==
    ASSUME ScheduleInv, TypeOK', NEW p \in Processes, NEW r \in RunnerStates,
           runner' = [runner EXCEPT ![p] = r],
           UNCHANGED <<now, row, leaseOld, request, runs>>,
           spoiled \subseteq spoiled', RunnerOK(p)',
           r.phase \in Working =>
              /\ runner[p].phase \in Working /\ r.sched = runner[p].sched
              /\ r.occ = runner[p].occ /\ r.made = runner[p].made
              /\ r.left \subseteq runner[p].left \/ ~runner[p].made,
           runner[p].phase \in Working /\ r.phase \notin Working =>
              ~Holds(p) \/ ~runner[p].made \/ runner[p].sched \in spoiled'
    PROVE  ScheduleInv'
<1>1. TypeOK
  BY DEF ScheduleInv
<1>2. /\ runner'[p] = r
      /\ \A q \in Processes \ {p} : runner'[q] = runner[q]
  BY <1>1, OneRunner
<1>3. \A q \in Processes : RunnerOK(q)'
  BY <1>1, <1>2, SameRunnerOK DEF TypeOK
<1>4. \A q \in Requests : RequestOK(q)'
  BY DEF ScheduleInv, RequestOK
<1>5. NeverEarly' /\ OncePerOccurrence'
  BY DEF ScheduleInv, NeverEarly, OncePerOccurrence
<1>6. ASSUME NEW s \in Schedules, s \notin spoiled' PROVE SchedOK(s)'
  <2>1. \A q \in Processes : WorksOn(q, s)' =>
           /\ WorksOn(q, s) /\ runner'[q].occ = runner[q].occ
           /\ runner'[q].made = runner[q].made
           /\ runner'[q].left \subseteq runner[q].left \/ ~runner[q].made
    BY <1>2 DEF WorksOn
  <2>2. \A q \in Processes :
           WorksOn(q, s) /\ row[s].token = q /\ runner[q].made => WorksOn(q, s)'
    BY <1>2, <1>6 DEF WorksOn, Holds
  <2> QED
    BY <1>6, <2>1, <2>2, Untouched
<1> QED
  BY <1>3, <1>4, <1>5, <1>6 DEF ScheduleInv

LEMMA RunDueSchedulesInv ==
    ASSUME ScheduleInv, NEW p \in Processes, RunDueSchedules(p)
    PROVE  ScheduleInv'
<1>1. TypeOK /\ runner[p] \in RunnerStates /\ RunnerOK(p)
  BY Typed DEF ScheduleInv
<1>2. PICK r : r = [runner[p] EXCEPT !.phase = "select"]
  OBVIOUS
<1>3. /\ r \in RunnerStates /\ r.phase = "select" /\ r.made = runner[p].made
  BY <1>1, <1>2, OtherPhase DEF Phases
<1>4. /\ runner[p].phase = "idle" /\ Acquire(p)
      /\ runner' = [runner EXCEPT ![p] = r]
      /\ UNCHANGED <<now, row, leaseOld, request, world, history>>
  BY <1>2 DEF RunDueSchedules
<1>5. /\ runner' \in [Processes -> RunnerStates] /\ runner'[p] = r
      /\ \A q \in Processes \ {p} : runner'[q] = runner[q]
  BY <1>1, <1>3, <1>4, OneRunner
<1>6. TypeOK'
  <2>1. LockTypeOK' /\ inside' = {q \in Processes : runner'[q].phase # "idle"}
    BY <1>1, <1>3, <1>4, <1>5 DEF TypeOK, LockTypeOK, Acquire
  <2> QED
    BY <1>1, <1>4, <1>5, <2>1 DEF TypeOK, world, history
<1>7. RunnerOK(p)' /\ r.phase \notin Working /\ runner[p].phase \notin Working
  BY <1>1, <1>3, <1>4, <1>5 DEF RunnerOK, Working
<1> QED
  BY <1>3, <1>4, <1>6, <1>7, RunnerStep DEF history

LEMMA SelectDueInv ==
    ASSUME ScheduleInv, NEW p \in Processes, SelectDue(p) PROVE ScheduleInv'
<1>1. TypeOK /\ runner[p] \in RunnerStates /\ RunnerOK(p)
  BY Typed DEF ScheduleInv
<1>2. /\ runner[p].phase = "select"
      /\ UNCHANGED <<lockVars, now, row, leaseOld, request, world, history>>
  BY DEF SelectDue
<1>3. PICK r : /\ runner' = [runner EXCEPT ![p] = r] /\ r \in RunnerStates
               /\ r.made = runner[p].made
               /\ \/ r.phase = "unlock"
                  \/ r.phase = "claim" /\ r.sched \in Schedules
  <2>1. CASE runner' = [runner EXCEPT ![p].phase = "unlock"]
    <3>1. PICK r : r = [runner[p] EXCEPT !.phase = "unlock"]
      OBVIOUS
    <3>2. runner' = [runner EXCEPT ![p] = r]
      BY <2>1, <3>1
    <3>3. r \in RunnerStates /\ r.phase = "unlock" /\ r.made = runner[p].made
      BY <1>1, <3>1, OtherPhase DEF Phases
    <3> QED
      BY <3>2, <3>3
  <2>2. ASSUME NEW s \in Candidates,
               runner' = [runner EXCEPT ![p].phase = "claim", ![p].sched = s]
        PROVE  \E r : /\ runner' = [runner EXCEPT ![p] = r] /\ r \in RunnerStates
                      /\ r.made = runner[p].made /\ r.phase = "claim"
                      /\ r.sched \in Schedules
    <3>1. PICK r : r = [runner[p] EXCEPT !.phase = "claim", !.sched = s]
      OBVIOUS
    <3>2. runner' = [runner EXCEPT ![p] = r]
      BY <2>2, <3>1
    <3>3. s \in Schedules /\ "claim" \in Phases
      BY DEF Candidates, Phases
    <3>4. r \in RunnerStates
      BY <1>1, <3>1, <3>3, Zenon DEF RunnerStates
    <3>5. DOMAIN runner[p] = {"phase", "sched", "occ", "left", "denied", "node",
                              "made"}
      BY <1>1 DEF RunnerStates
    <3>6. r.phase = "claim" /\ r.sched = s /\ r.made = runner[p].made
      BY <3>1, <3>5, Zenon
    <3> QED
      BY <3>2, <3>3, <3>4, <3>6
  <2> QED
    BY <2>1, <2>2 DEF SelectDue
<1>4. /\ runner' \in [Processes -> RunnerStates] /\ runner'[p] = r
  BY <1>1, <1>3, OneRunner
<1>5. TypeOK'
  BY <1>1, <1>2, <1>3, <1>4, StillInside DEF TypeOK, world, history
<1>6. RunnerOK(p)' /\ r.phase \notin Working /\ runner[p].phase \notin Working
  BY <1>1, <1>2, <1>3, <1>4 DEF RunnerOK, Working
<1> QED
  BY <1>2, <1>3, <1>5, <1>6, RunnerStep DEF history

LEMMA ListTargetsInv ==
    ASSUME ScheduleInv, NEW p \in Processes, ListTargets(p) PROVE ScheduleInv'
<1>1. TypeOK /\ runner[p] \in RunnerStates /\ RunnerOK(p)
  BY Typed DEF ScheduleInv
<1>2. /\ runner[p].phase = "targets"
      /\ UNCHANGED <<lockVars, now, row, leaseOld, request, world, history>>
  BY DEF ListTargets
<1>3. runner[p].sched \in Schedules
  BY <1>1, <1>2 DEF RunnerOK, Working
<1>4. PICK targets, ph, denied :
         /\ targets \subseteq Nodes /\ denied \subseteq Nodes
         /\ ph \in {"finish", "check"}
         /\ runner' = [runner EXCEPT ![p].phase = ph, ![p].left = targets,
                                     ![p].denied = denied]
  <2>1. Target[runner[p].sched] \subseteq Nodes
    BY <1>3, ScheduleAssumption
  <2> QED
    BY <2>1 DEF ListTargets
<1>5. PICK r : r = [runner[p] EXCEPT !.phase = ph, !.left = targets,
                                     !.denied = denied]
  OBVIOUS
<1>6. runner' = [runner EXCEPT ![p] = r]
  BY <1>4, <1>5
<1>7. r \in RunnerStates
  <2>1. ph \in Phases
    BY <1>4 DEF Phases
  <2> QED
    BY <1>1, <1>4, <1>5, <2>1, Zenon DEF RunnerStates
<1>8. /\ r.phase = ph /\ r.sched = runner[p].sched /\ r.occ = runner[p].occ
      /\ r.made = runner[p].made
  <2>1. DOMAIN runner[p] = {"phase", "sched", "occ", "left", "denied", "node",
                            "made"}
    BY <1>1 DEF RunnerStates
  <2> QED
    BY <1>5, <2>1, Zenon
<1>9. /\ runner' \in [Processes -> RunnerStates] /\ runner'[p] = r
  BY <1>1, <1>6, <1>7, OneRunner
<1>10. TypeOK'
  BY <1>1, <1>2, <1>4, <1>6, <1>7, <1>8, <1>9, StillInside
     DEF TypeOK, world, history
<1>11. RunnerOK(p)' /\ r.phase \in Working /\ runner[p].phase \in Working
       /\ ~runner[p].made
  BY <1>1, <1>2, <1>4, <1>8, <1>9 DEF RunnerOK, Working
<1> QED
  BY <1>2, <1>6, <1>7, <1>8, <1>10, <1>11, RunnerStep DEF history

LEMMA QueueTaskCheckInv ==
    ASSUME ScheduleInv, NEW p \in Processes, NEW n \in Nodes,
           QueueTaskCheck(p, n)
    PROVE  ScheduleInv'
<1>1. TypeOK /\ runner[p] \in RunnerStates /\ RunnerOK(p)
  BY Typed DEF ScheduleInv
<1>2. /\ runner[p].phase = "check" /\ n \in runner[p].left
      /\ UNCHANGED <<lockVars, now, row, leaseOld, request, world, history>>
  BY DEF QueueTaskCheck
<1>3. PICK r : /\ runner' = [runner EXCEPT ![p] = r] /\ r \in RunnerStates
               /\ r.phase \in {"release", "insert"}
               /\ r.phase = "insert" => r.node = {n}
               /\ r.sched = runner[p].sched /\ r.occ = runner[p].occ
               /\ r.left = runner[p].left /\ r.made = runner[p].made
  <2>1. CASE runner' = [runner EXCEPT ![p].phase = "release"]
    <3>1. PICK r : r = [runner[p] EXCEPT !.phase = "release"]
      OBVIOUS
    <3>2. runner' = [runner EXCEPT ![p] = r]
      BY <2>1, <3>1
    <3>3. /\ r \in RunnerStates /\ r.phase = "release"
          /\ r.sched = runner[p].sched /\ r.occ = runner[p].occ
          /\ r.left = runner[p].left /\ r.made = runner[p].made
      BY <1>1, <3>1, OtherPhase DEF Phases
    <3> QED
      BY <3>2, <3>3
  <2>2. CASE runner' = [runner EXCEPT ![p].phase = "insert", ![p].node = {n}]
    <3>1. PICK r : r = [runner[p] EXCEPT !.phase = "insert", !.node = {n}]
      OBVIOUS
    <3>2. runner' = [runner EXCEPT ![p] = r]
      BY <2>2, <3>1
    <3>3. r \in RunnerStates
      <4>1. "insert" \in Phases /\ {n} \subseteq Nodes
        BY DEF Phases
      <4> QED
        BY <1>1, <3>1, <4>1, Zenon DEF RunnerStates
    <3>4. DOMAIN runner[p] = {"phase", "sched", "occ", "left", "denied", "node",
                              "made"}
      BY <1>1 DEF RunnerStates
    <3>5. /\ r.phase = "insert" /\ r.node = {n} /\ r.sched = runner[p].sched
          /\ r.occ = runner[p].occ /\ r.left = runner[p].left
          /\ r.made = runner[p].made
      BY <3>1, <3>4, Zenon
    <3> QED
      BY <3>2, <3>3, <3>5
  <2> QED
    BY <2>1, <2>2 DEF QueueTaskCheck
<1>4. runner' \in [Processes -> RunnerStates] /\ runner'[p] = r
  BY <1>1, <1>3, OneRunner
<1>5. TypeOK'
  <2>1. r.phase # "idle"
    BY <1>3
  <2> QED
    BY <1>1, <1>2, <1>3, <1>4, <2>1, StillInside DEF TypeOK, world, history
<1>6. RunnerOK(p)' /\ r.phase \in Working /\ runner[p].phase \in Working
  BY <1>1, <1>2, <1>3, <1>4 DEF RunnerOK, Working
<1> QED
  BY <1>2, <1>3, <1>5, <1>6, RunnerStep DEF history

LEMMA AnnounceInv ==
    ASSUME ScheduleInv, NEW p \in Processes, Announce(p) PROVE ScheduleInv'
<1>1. TypeOK /\ runner[p] \in RunnerStates /\ RunnerOK(p)
  BY Typed DEF ScheduleInv
<1>2. /\ runner[p].phase = "announce"
      /\ UNCHANGED <<lockVars, now, row, leaseOld, request, world, history>>
  BY DEF Announce
<1>3. PICK ph \in {"finish", "check"} :
         runner' = [runner EXCEPT ![p].phase = ph, ![p].node = {}]
  BY DEF Announce
<1>4. PICK r : r = [runner[p] EXCEPT !.phase = ph, !.node = {}]
  OBVIOUS
<1>5. runner' = [runner EXCEPT ![p] = r]
  BY <1>3, <1>4
<1>6. r \in RunnerStates
  <2>1. ph \in Phases
    BY <1>3 DEF Phases
  <2> QED
    BY <1>1, <1>4, <2>1, Zenon DEF RunnerStates
<1>7. /\ r.phase = ph /\ r.sched = runner[p].sched /\ r.occ = runner[p].occ
      /\ r.left = runner[p].left /\ r.made = runner[p].made
  <2>1. DOMAIN runner[p] = {"phase", "sched", "occ", "left", "denied", "node",
                            "made"}
    BY <1>1 DEF RunnerStates
  <2> QED
    BY <1>4, <2>1, Zenon
<1>8. runner' \in [Processes -> RunnerStates] /\ runner'[p] = r
  BY <1>1, <1>5, <1>6, OneRunner
<1>9. TypeOK'
  <2>1. r.phase # "idle"
    BY <1>3, <1>7
  <2> QED
    BY <1>1, <1>2, <1>5, <1>6, <1>8, <2>1, StillInside DEF TypeOK, world, history
<1>10. RunnerOK(p)' /\ r.phase \in Working /\ runner[p].phase \in Working
  BY <1>1, <1>2, <1>3, <1>7, <1>8 DEF RunnerOK, Working
<1> QED
  BY <1>2, <1>5, <1>6, <1>7, <1>9, <1>10, RunnerStep DEF history

LEMMA RecordTriggeredInv ==
    ASSUME ScheduleInv, NEW p \in Processes, RecordTriggered(p)
    PROVE  ScheduleInv'
<1>1. TypeOK /\ runner[p] \in RunnerStates /\ RunnerOK(p)
  BY Typed DEF ScheduleInv
<1>2. /\ runner[p].phase = "record"
      /\ UNCHANGED <<lockVars, now, row, leaseOld, request, world, history>>
  BY DEF RecordTriggered
<1>3. PICK r : r = [IdleRunner EXCEPT !.phase = "select"]
  OBVIOUS
<1>4. r \in RunnerStates /\ r.phase = "select" /\ ~r.made
  BY <1>3, IdleInPhase DEF Phases
<1>5. runner' = [runner EXCEPT ![p] = r]
  BY <1>3 DEF RecordTriggered
<1>6. runner' \in [Processes -> RunnerStates] /\ runner'[p] = r
  BY <1>1, <1>4, <1>5, OneRunner
<1>7. TypeOK'
  BY <1>1, <1>2, <1>4, <1>5, <1>6, StillInside DEF TypeOK, world, history
<1>8. RunnerOK(p)' /\ r.phase \notin Working /\ ~Holds(p)
  BY <1>1, <1>2, <1>4, <1>6 DEF RunnerOK, Working
<1> QED
  BY <1>2, <1>4, <1>5, <1>7, <1>8, RunnerStep DEF history

LEMMA ThrowsInv ==
    ASSUME ScheduleInv, NEW p \in Processes, Throws(p) PROVE ScheduleInv'
<1>1. TypeOK /\ runner[p] \in RunnerStates /\ RunnerOK(p)
  BY Typed DEF ScheduleInv
<1>2. /\ runner[p].phase \in {"targets", "check", "insert", "announce",
                              "finish", "record"}
      /\ faults' = faults + 1
      /\ UNCHANGED <<lockVars, now, row, leaseOld, request, world, runs,
                     spoiled, slow, ops, changes>>
  BY DEF Throws
<1>3. PICK r : r = [runner[p] EXCEPT !.phase = "release"]
  OBVIOUS
<1>4. /\ r \in RunnerStates /\ r.phase = "release"
      /\ r.sched = runner[p].sched /\ r.occ = runner[p].occ
      /\ r.left = runner[p].left /\ r.made = runner[p].made
  BY <1>1, <1>3, OtherPhase DEF Phases
<1>5. runner' = [runner EXCEPT ![p] = r]
  BY <1>3 DEF Throws
<1>6. runner' \in [Processes -> RunnerStates] /\ runner'[p] = r
  BY <1>1, <1>4, <1>5, OneRunner
<1>7. TypeOK'
  <2>1. runner[p].phase # "idle" /\ r.phase # "idle"
    BY <1>2, <1>4
  <2>2. {faults, slow, ops, changes}' \subseteq Nat
    BY <1>1, <1>2 DEF TypeOK
  <2> QED
    BY <1>1, <1>2, <1>4, <1>5, <1>6, <2>1, <2>2, StillInside DEF TypeOK, world
<1>8. RunnerOK(p)' /\ r.phase \in Working /\ runner[p].phase \in Working
  BY <1>1, <1>2, <1>4, <1>6 DEF RunnerOK, Working
<1> QED
  BY <1>2, <1>4, <1>5, <1>7, <1>8, RunnerStep

\* The lock is given back and the runner is idle.
LEMMA GoesIdle ==
    ASSUME TypeOK, NEW p \in Processes, Release(p),
           runner' = [runner EXCEPT ![p] = IdleRunner]
    PROVE  /\ LockTypeOK' /\ inside' = {q \in Processes : runner'[q].phase # "idle"}
           /\ runner' \in [Processes -> RunnerStates] /\ RunnerOK(p)'
           /\ IdleRunner.phase \notin Working
<1>1. /\ runner' \in [Processes -> RunnerStates] /\ runner'[p] = IdleRunner
      /\ \A q \in Processes \ {p} : runner'[q] = runner[q]
  BY IdleRunnerOK, OneRunner
<1>2. LockTypeOK'
  BY DEF TypeOK, LockTypeOK, Release
<1>3. inside' = {q \in Processes : runner'[q].phase # "idle"}
  BY <1>1, IdleRunnerOK DEF TypeOK, Release
<1>4. RunnerOK(p)' /\ IdleRunner.phase \notin Working
  BY <1>1, IdleRunnerOK DEF RunnerOK, Working
<1> QED
  BY <1>1, <1>2, <1>3, <1>4

LEMMA UnlockInv ==
    ASSUME ScheduleInv, NEW p \in Processes, Unlock(p) PROVE ScheduleInv'
<1>1. /\ runner[p].phase = "unlock" /\ Release(p) /\ TypeOK
      /\ runner' = [runner EXCEPT ![p] = IdleRunner]
      /\ UNCHANGED <<now, row, leaseOld, request, world, history>>
  BY DEF Unlock, ScheduleInv
<1>2. TypeOK'
  BY <1>1, GoesIdle DEF TypeOK, world, history
<1>3. RunnerOK(p)' /\ IdleRunner.phase \notin Working
  BY <1>1, GoesIdle
<1>4. runner[p].phase \notin Working
  BY <1>1 DEF Working
<1> QED
  BY <1>1, <1>2, <1>3, <1>4, IdleRunnerOK, RunnerStep DEF history

\* A process that dies with a claim and tasks queued spoils the schedule.
LEMMA ProcessDiesInv ==
    ASSUME ScheduleInv, NEW p \in Processes, ProcessDies(p) PROVE ScheduleInv'
<1>1. /\ Release(p) /\ TypeOK /\ faults' = faults + 1 /\ RunnerOK(p)
      /\ runner' = [runner EXCEPT ![p] = IdleRunner]
      /\ spoiled' = IF runner[p].made /\ Holds(p)
                    THEN spoiled \cup {runner[p].sched} ELSE spoiled
      /\ UNCHANGED <<now, row, leaseOld, request, world, runs, slow, ops,
                     changes>>
  BY DEF ProcessDies, ScheduleInv
<1>2. /\ runner[p].made => runner[p].phase \in Working
      /\ runner[p].phase \in Working => runner[p].sched \in Schedules
  BY <1>1, RunnerFields DEF RunnerOK, Working, Phases, TypeOK
<1>3. TypeOK'
  <2>1. spoiled' \subseteq Schedules
    BY <1>1, <1>2 DEF TypeOK
  <2>2. {faults, slow, ops, changes}' \subseteq Nat
    BY <1>1 DEF TypeOK
  <2> QED
    BY <1>1, <2>1, <2>2, GoesIdle DEF TypeOK, world
<1>4. RunnerOK(p)' /\ IdleRunner.phase \notin Working
  BY <1>1, GoesIdle
<1>5. /\ spoiled \subseteq spoiled'
      /\ ~Holds(p) \/ ~runner[p].made \/ runner[p].sched \in spoiled'
  BY <1>1
<1> QED
  BY <1>1, <1>3, <1>4, <1>5, IdleRunnerOK, RunnerStep

-----------------------------------------------------------------------------
(* Steps of a runner that write the row or the tasks of its schedule.        *)

\* A step of runner p with schedule s leaves the other schedules as they were.
LEMMA OneSchedule ==
    ASSUME ScheduleInv, TypeOK', NEW p \in Processes, NEW r \in RunnerStates,
           runner' = [runner EXCEPT ![p] = r],
           NEW s \in Schedules, runner[p].sched = s,
           r.phase \in Working => r.sched = s,
           UNCHANGED <<now, request>>, spoiled \subseteq spoiled',
           \A t \in Schedules \ {s} : /\ row'[t] = row[t] /\ runs'[t] = runs[t]
                                      /\ t \in leaseOld' => t \in leaseOld,
           row'[s].token \in {row[s].token, NoProcess, p},
           RunnerOK(p)', NeverEarly', OncePerOccurrence',
           s \notin spoiled' => SchedOK(s)'
    PROVE  ScheduleInv'
<1>1. TypeOK /\ NoProcess \notin Processes /\ now <= now'
  BY Typed DEF ScheduleInv
<1>2. /\ runner'[p] = r
      /\ \A q \in Processes \ {p} : runner'[q] = runner[q]
  BY <1>1, OneRunner
<1>3. ASSUME NEW q \in Processes PROVE RunnerOK(q)'
  <2>1. CASE q = p
    BY <2>1
  <2>2. CASE q # p
    <3>1. \A t \in Schedules : row'[t].token = q => row[t].token = q
      BY <1>1, <2>2
    <3> QED
      BY <1>1, <1>2, <2>2, <3>1, SameRunnerOK
  <2> QED
    BY <2>1, <2>2
<1>4. \A q \in Requests : RequestOK(q)'
  BY DEF ScheduleInv, RequestOK
<1>5. ASSUME NEW t \in Schedules, t # s, t \notin spoiled' PROVE SchedOK(t)'
  <2>1. \A q \in Processes : WorksOn(q, t)' <=> WorksOn(q, t) /\ q # p
    BY <1>2, <1>5 DEF WorksOn
  <2>2. \A q \in Processes : WorksOn(q, t) => q # p
    BY <1>5 DEF WorksOn
  <2> QED
    BY <1>2, <1>5, <2>1, <2>2, Untouched
<1> QED
  BY <1>3, <1>4, <1>5 DEF ScheduleInv

\* Whoever claims a schedule works on an occurrence that nobody works on and
\* that has no task.
LEMMA ClaimDueInv ==
    ASSUME ScheduleInv, NEW p \in Processes, ClaimDue(p) PROVE ScheduleInv'
<1>1. TypeOK /\ runner[p] \in RunnerStates /\ RunnerOK(p)
  BY Typed DEF ScheduleInv
<1>2. PICK s \in Schedules : s = runner[p].sched
  BY <1>1 DEF ClaimDue, RunnerOK
<1>3. /\ runner[p].phase = "claim" /\ ~runner[p].made
      /\ UNCHANGED <<lockVars, now, request, world, history>>
  BY <1>1 DEF ClaimDue, RunnerOK
<1>4. CASE ~Claimable(s)
  <2>1. /\ runner' = [runner EXCEPT ![p] = [IdleRunner EXCEPT !.phase = "select"]]
        /\ UNCHANGED <<row, leaseOld>>
    BY <1>2, <1>4 DEF ClaimDue
  <2>2. PICK r : r = [IdleRunner EXCEPT !.phase = "select"]
    OBVIOUS
  <2>3. r \in RunnerStates /\ r.phase = "select" /\ ~r.made
    BY <2>2, IdleInPhase DEF Phases
  <2>4. runner' = [runner EXCEPT ![p] = r]
    BY <2>1, <2>2
  <2>5. runner' \in [Processes -> RunnerStates] /\ runner'[p] = r
    BY <1>1, <2>3, <2>4, OneRunner
  <2>6. TypeOK'
    BY <1>1, <1>3, <2>1, <2>3, <2>4, <2>5, StillInside DEF TypeOK, world, history
  <2>7. /\ RunnerOK(p)' /\ r.phase \notin Working /\ runner[p].phase \notin Working
    BY <1>1, <1>3, <2>3, <2>5 DEF RunnerOK, Working
  <2> QED
    BY <1>3, <2>1, <2>3, <2>4, <2>6, <2>7, RunnerStep DEF history
<1>5. CASE Claimable(s)
  <2>1. /\ row' = [row EXCEPT ![s].token = p] /\ leaseOld' = leaseOld \ {s}
        /\ runner' = [runner EXCEPT ![p].phase = "targets",
                                    ![p].occ = row[s].next]
    BY <1>2, <1>5 DEF ClaimDue
  <2>2. PICK r : r = [runner[p] EXCEPT !.phase = "targets", !.occ = row[s].next]
    OBVIOUS
  <2>3. runner' = [runner EXCEPT ![p] = r]
    BY <2>1, <2>2
  <2>4. /\ row[s].next \in Nat /\ row[s].next <= now /\ row[s].next # NoRun
        /\ row[s].next \in Occurrences /\ row[s] \in Rows
        /\ row[s].token = NoProcess \/ s \in leaseOld
    BY <1>1, <1>5, Typed, RowFields DEF Claimable, Occurrences
  <2>5. r \in RunnerStates
    <3>1. "targets" \in Phases
      BY DEF Phases
    <3> QED
      BY <1>1, <2>2, <2>4, <3>1, Zenon DEF RunnerStates
  <2>6. DOMAIN runner[p] = {"phase", "sched", "occ", "left", "denied", "node",
                            "made"}
    BY <1>1 DEF RunnerStates
  <2>7. r.phase = "targets" /\ r.occ = row[s].next
    BY <2>2, <2>6, Zenon
  <2>8. r.sched = s /\ ~r.made
    <3>1. r.sched = runner[p].sched /\ r.made = runner[p].made
      BY <2>2, <2>6, Zenon
    <3> QED
      BY <1>2, <1>3, <3>1
  <2>9. /\ runner' \in [Processes -> RunnerStates] /\ runner'[p] = r
        /\ \A q \in Processes \ {p} : runner'[q] = runner[q]
    BY <1>1, <2>3, <2>5, OneRunner
  <2>10. PICK w : w = [row[s] EXCEPT !.token = p]
    OBVIOUS
  <2>11. w \in Rows /\ w.token = p /\ w.next = row[s].next
    <3>1. w \in Rows
      BY <2>4, <2>10, Zenon DEF Rows
    <3>2. DOMAIN row[s] = {"exists", "enabled", "next", "token"}
      BY <2>4 DEF Rows
    <3>3. w.token = p /\ w.next = row[s].next
      BY <2>10, <3>2, Zenon
    <3> QED
      BY <3>1, <3>3
  <2>12. /\ row' \in [Schedules -> Rows] /\ row'[s] = w
         /\ \A t \in Schedules \ {s} : row'[t] = row[t]
    BY <1>1, <2>1, <2>10, <2>11, Typed
  <2>13. TypeOK'
    BY <1>1, <1>3, <2>1, <2>3, <2>5, <2>7, <2>9, <2>12, StillInside
       DEF TypeOK, world, history
  <2>14. RunnerOK(p)'
    BY <1>1, <1>2, <1>3, <2>4, <2>7, <2>8, <2>9 DEF RunnerOK, Working
  <2>15. NeverEarly' /\ OncePerOccurrence'
    BY <1>3 DEF ScheduleInv, NeverEarly, OncePerOccurrence, history
  <2>16. ASSUME s \notin spoiled' PROVE SchedOK(s)'
    <3>1. SchedOK(s) /\ spoiled' = spoiled /\ runs' = runs
      BY <1>3, <2>16 DEF ScheduleInv, history
    <3>2. \A q \in Processes : ~Leases(q, s)
      BY <2>4, Typed, <1>1 DEF Leases
    <3>3. /\ ~WorksOn(p, s) /\ WorksOn(p, s)'
          /\ runner'[p].occ = row[s].next /\ ~runner'[p].made
          /\ \A q \in Processes \ {p} : /\ runner'[q] = runner[q]
                                        /\ WorksOn(q, s)' <=> WorksOn(q, s)
      BY <1>3, <2>7, <2>8, <2>9 DEF WorksOn, Working
    <3>4. \A q \in Processes : WorksOn(q, s) =>
             runner[q].occ \in Nat /\ runner[q].occ < row[s].next
      <4>1. \A q \in Processes : RunnerOK(q)
        BY DEF ScheduleInv
      <4>2. \A q \in Processes : WorksOn(q, s) =>
               /\ runner[q].occ \in Nat /\ runner[q].occ <= row[s].next
               /\ runner[q].occ # row[s].next
        BY <2>4, <3>1, <3>2, <4>1 DEF SchedOK, NextIsNew, RunnerOK, WorksOn
      <4> QED
        BY <2>4, <4>2
    <3>5. \A o \in Occurrences, n \in Nodes :
             runs[s][o][n] > 0 => o < row[s].next
      <4>1. \A o \in Occurrences, n \in Nodes :
               runs[s][o][n] > 0 => o <= row[s].next /\ o # row[s].next
        BY <2>4, <3>1, <3>2 DEF SchedOK, RunsBefore, Queueing
      <4> QED
        BY <2>4, <4>1 DEF Occurrences
    <3>6. row'[s].token = p /\ row'[s].next = row[s].next /\ s \notin leaseOld'
      BY <2>1, <2>11, <2>12
    <3>7. Apart(s)'
      BY <2>4, <3>1, <3>3, <3>4, <3>6 DEF SchedOK, Apart
    <3>8. NextIsNew(s)'
      BY <2>4, <3>3, <3>4, <3>6 DEF NextIsNew, Leases
    <3>9. RunsBefore(s)'
      BY <2>4, <3>1, <3>3, <3>5, <3>6 DEF RunsBefore, Occurrences
    <3>10. LeftHaveNone(s)'
      BY <2>4, <3>1, <3>3, <3>5 DEF SchedOK, LeftHaveNone
    <3> QED
      BY <3>7, <3>8, <3>9, <3>10 DEF SchedOK
  <2> QED
    BY <1>2, <1>3, <2>1, <2>3, <2>5, <2>8, <2>11, <2>12, <2>13, <2>14, <2>15,
       <2>16, OneSchedule DEF history
<1> QED
  BY <1>4, <1>5

\* A task is queued for a node that has none of this occurrence.
LEMMA QueueTaskInsertInv ==
    ASSUME ScheduleInv, NEW p \in Processes, QueueTaskInsert(p)
    PROVE  ScheduleInv'
<1>1. TypeOK /\ runner[p] \in RunnerStates /\ RunnerOK(p)
  BY Typed DEF ScheduleInv
<1>2. PICK n \in runner[p].node :
         /\ runs' = [runs EXCEPT ![runner[p].sched][runner[p].occ][n] =
                       IF @ < 2 THEN @ + 1 ELSE @]
         /\ runner' = [runner EXCEPT ![p].phase = "announce",
                                     ![p].left = @ \ {n}, ![p].made = TRUE]
  BY DEF QueueTaskInsert
<1>3. /\ runner[p].phase = "insert"
      /\ UNCHANGED <<lockVars, now, row, leaseOld, request, world, spoiled,
                     faults, slow, ops, changes>>
  BY DEF QueueTaskInsert
<1>4. PICK s \in Schedules, o \in Nat : s = runner[p].sched /\ o = runner[p].occ
  BY <1>1, <1>3 DEF RunnerOK, Working
<1>5. /\ o <= now /\ o \in Occurrences
      /\ runner[p].node \subseteq runner[p].left /\ n \in Nodes
      /\ n \in runner[p].left
  BY <1>1, <1>2, <1>3, <1>4, Typed, RunnerFields
     DEF RunnerOK, Working, Occurrences
<1>6. /\ \A t \in Schedules, i \in Occurrences, m \in Nodes :
            runs[t][i][m] \in 0 .. 2
      /\ runs' \in [Schedules -> [Occurrences -> [Nodes -> 0 .. 2]]]
      /\ \A t \in Schedules, i \in Occurrences, m \in Nodes :
            t # s \/ i # o \/ m # n => runs'[t][i][m] = runs[t][i][m]
      /\ runs'[s][o][n] > 0
      /\ runs[s][o][n] = 0 => runs'[s][o][n] = 1
      /\ \A t \in Schedules \ {s} : runs'[t] = runs[t]
  <2>1. runs \in [Schedules -> [Occurrences -> [Nodes -> 0 .. 2]]]
    BY <1>1 DEF TypeOK
  <2>2. runs[s][o][n] \in 0 .. 2
    BY <1>5, <2>1
  <2>3. PICK k \in 0 .. 2 : /\ k = IF runs[s][o][n] < 2 THEN runs[s][o][n] + 1
                                   ELSE runs[s][o][n]
    BY <2>2
  <2>4. runs' = [runs EXCEPT ![s][o][n] = k]
    BY <1>2, <1>4, <2>3
  <2>5. k > 0 /\ (runs[s][o][n] = 0 => k = 1)
    BY <2>2, <2>3
  <2>6. runs' \in [Schedules -> [Occurrences -> [Nodes -> 0 .. 2]]]
    BY <1>5, <2>1, <2>4
  <2>7. /\ runs'[s][o][n] = k
        /\ \A t \in Schedules, i \in Occurrences, m \in Nodes :
              t # s \/ i # o \/ m # n => runs'[t][i][m] = runs[t][i][m]
        /\ \A t \in Schedules \ {s} : runs'[t] = runs[t]
    BY <1>5, <2>1, <2>4
  <2> QED
    BY <1>1, <2>5, <2>6, <2>7, Typed
<1>7. PICK rest : rest = runner[p].left \ {n}
  OBVIOUS
<1>8. PICK r : r = [runner[p] EXCEPT !.phase = "announce", !.left = rest,
                                     !.made = TRUE]
  OBVIOUS
<1>9. runner' = [runner EXCEPT ![p] = r]
  BY <1>2, <1>7, <1>8
<1>10. r \in RunnerStates
  <2>1. "announce" \in Phases /\ rest \subseteq Nodes /\ TRUE \in BOOLEAN
    BY <1>1, <1>7, RunnerFields DEF Phases
  <2> QED
    BY <1>1, <1>8, <2>1, Zenon DEF RunnerStates
<1>11. DOMAIN runner[p] = {"phase", "sched", "occ", "left", "denied", "node",
                           "made"}
  BY <1>1 DEF RunnerStates
<1>12. r.phase = "announce" /\ r.left = rest /\ r.made = TRUE
  BY <1>8, <1>11, Zenon
<1>13. r.sched = s /\ r.occ = o
  <2>1. r.sched = runner[p].sched /\ r.occ = runner[p].occ
    BY <1>8, <1>11, Zenon
  <2> QED
    BY <1>4, <2>1
<1>14. /\ runner' \in [Processes -> RunnerStates] /\ runner'[p] = r
       /\ \A q \in Processes \ {p} : runner'[q] = runner[q]
  BY <1>1, <1>9, <1>10, OneRunner
<1>15. TypeOK'
  BY <1>1, <1>3, <1>6, <1>9, <1>10, <1>12, <1>14, StillInside DEF TypeOK, world
<1>16. RunnerOK(p)'
  BY <1>1, <1>3, <1>4, <1>5, <1>12, <1>13, <1>14 DEF RunnerOK, Working
<1>17. NeverEarly'
  <2> SUFFICES ASSUME NEW t \in Schedules, NEW i \in Occurrences, NEW m \in Nodes,
                      runs'[t][i][m] > 0
               PROVE  i <= now'
    BY DEF NeverEarly
  <2>1. i = o \/ runs[t][i][m] > 0
    BY <1>6
  <2> QED
    BY <1>3, <1>5, <2>1 DEF ScheduleInv, NeverEarly
<1>18. /\ WorksOn(p, s) /\ WorksOn(p, s)'
       /\ \A q \in Processes \ {p} : WorksOn(q, s)' <=> WorksOn(q, s)
  BY <1>3, <1>4, <1>12, <1>13, <1>14 DEF WorksOn, Working
<1>19. s \notin spoiled => runs[s][o][n] = 0
  <2>1. s \notin spoiled => ~(runs[s][o][n] > 0)
    BY <1>4, <1>5, <1>18 DEF ScheduleInv, SchedOK, LeftHaveNone
  <2> QED
    BY <1>5, <1>6, <2>1
<1>20. OncePerOccurrence'
  <2> SUFFICES ASSUME NEW t \in Schedules, t \notin spoiled,
                      NEW i \in Occurrences, NEW m \in Nodes
               PROVE  runs'[t][i][m] <= 1
    BY <1>3 DEF OncePerOccurrence
  <2>1. runs[t][i][m] <= 1
    BY DEF ScheduleInv, OncePerOccurrence
  <2> QED
    BY <1>5, <1>6, <1>19, <2>1
<1>21. ASSUME s \notin spoiled' PROVE SchedOK(s)'
  <2>1. SchedOK(s) /\ row' = row /\ leaseOld' = leaseOld
    BY <1>3, <1>21 DEF ScheduleInv
  <2>2. \A q \in Processes : runner'[q].occ = runner[q].occ
    BY <1>4, <1>13, <1>14
  <2>3. \A q \in Processes : WorksOn(q, s)' <=> WorksOn(q, s)
    BY <1>18
  <2>4. \A q \in Processes : q # p /\ WorksOn(q, s) =>
           runner[q].occ # o /\ (row[s].token = q => o < runner[q].occ)
    BY <1>4, <1>18, <2>1 DEF SchedOK, Apart
  <2>5. Apart(s)'
    BY <2>1, <2>2, <2>3 DEF SchedOK, Apart
  <2>6. NextIsNew(s)'
    BY <2>1, <2>2, <2>3 DEF SchedOK, NextIsNew, Leases
  <2>7. RunsBefore(s)'
    <3> SUFFICES ASSUME NEW i \in Occurrences, NEW m \in Nodes, runs'[s][i][m] > 0
                 PROVE  /\ \A q \in Processes : WorksOn(q, s)' /\ row'[s].token = q
                                     => i <= runner'[q].occ
                        /\ row'[s].next # NoRun =>
                             /\ i <= row'[s].next
                             /\ i = row'[s].next =>
                                   \E q \in Processes : Queueing(q, s, i)'
      BY DEF RunsBefore
    <3>1. CASE i = o
      <4>1. \A q \in Processes : WorksOn(q, s) /\ row[s].token = q
                                    => i <= runner[q].occ
        <5> SUFFICES ASSUME NEW q \in Processes, WorksOn(q, s), row[s].token = q
                     PROVE  i <= runner[q].occ
          OBVIOUS
        <5>1. runner[q].occ \in Nat
          BY DEF ScheduleInv, RunnerOK, WorksOn
        <5> QED
          BY <1>4, <2>4, <3>1, <5>1
      <4>2. row[s].next # NoRun =>
               /\ i <= row[s].next
               /\ i = row[s].next => Leases(p, s)
        BY <1>4, <1>18, <2>1, <3>1 DEF SchedOK, NextIsNew
      <4>3. Leases(p, s) => Queueing(p, s, i)'
        BY <1>12, <1>13, <1>14, <1>18, <2>1, <3>1 DEF Queueing, Leases
      <4> QED
        BY <2>1, <2>2, <2>3, <4>1, <4>2, <4>3
    <3>2. CASE i # o
      <4>1. runs[s][i][m] > 0
        BY <1>6, <3>2
      <4>2. /\ \A q \in Processes : WorksOn(q, s) /\ row[s].token = q
                                       => i <= runner[q].occ
            /\ row[s].next # NoRun =>
                  /\ i <= row[s].next
                  /\ i = row[s].next => \E q \in Processes : Queueing(q, s, i)
        BY <2>1, <4>1 DEF SchedOK, RunsBefore
      <4>3. \A q \in Processes : Queueing(q, s, i) => Queueing(q, s, i)'
        <5> SUFFICES ASSUME NEW q \in Processes, Queueing(q, s, i)
                     PROVE  Queueing(q, s, i)'
          OBVIOUS
        <5>1. q # p
          BY <1>4, <3>2 DEF Queueing
        <5> QED
          BY <1>14, <1>18, <2>1, <5>1 DEF Queueing, Leases
      <4> QED
        BY <2>1, <2>2, <2>3, <4>2, <4>3
    <3> QED
      BY <3>1, <3>2
  <2>8. LeftHaveNone(s)'
    <3> SUFFICES ASSUME NEW q \in Processes, NEW m \in Nodes, WorksOn(q, s)',
                        runs'[s][runner'[q].occ][m] > 0
                 PROVE  runner'[q].made /\ m \notin runner'[q].left
      BY DEF LeftHaveNone
    <3>1. runner[q].occ \in Occurrences /\ WorksOn(q, s)
      BY <2>3, Typed, <1>1 DEF ScheduleInv, RunnerOK, WorksOn, Occurrences
    <3>2. CASE q = p
      <4>1. m # n => runs[s][o][m] > 0
        BY <1>5, <1>6, <1>13, <1>14, <3>2
      <4>2. m # n => m \notin runner[p].left
        BY <1>4, <1>18, <2>1, <4>1 DEF SchedOK, LeftHaveNone
      <4> QED
        BY <1>7, <1>12, <1>14, <3>2, <4>2
    <3>3. CASE q # p
      <4>1. runs[s][runner[q].occ][m] > 0
        BY <1>6, <1>14, <2>4, <3>1, <3>3
      <4> QED
        BY <1>14, <2>1, <3>1, <3>3, <4>1 DEF SchedOK, LeftHaveNone
    <3> QED
      BY <3>2, <3>3
  <2> QED
    BY <2>5, <2>6, <2>7, <2>8 DEF SchedOK
<1> QED
  <2>1. UNCHANGED <<now, request, row, leaseOld, spoiled>>
    BY <1>3
  <2> QED
    BY <1>4, <1>6, <1>9, <1>10, <1>13, <1>15, <1>16, <1>17, <1>20, <1>21, <2>1,
       OneSchedule

\* The row of a schedule whose claim ends.
LEMMA TokenGone ==
    ASSUME NEW old \in Rows, NEW w, w = [old EXCEPT !.token = NoProcess]
    PROVE  w \in Rows /\ w.token = NoProcess /\ w.next = old.next
<1>1. NoProcess \in Processes \cup {NoProcess}
  OBVIOUS
<1>2. w \in Rows
  BY <1>1, Zenon DEF Rows
<1>3. DOMAIN old = {"exists", "enabled", "next", "token"}
  BY DEF Rows
<1>4. w.token = NoProcess /\ w.next = old.next
  BY <1>3, Zenon
<1> QED
  BY <1>2, <1>4

\* The holder of the claim has the last occurrence, so the one that follows it
\* is new.
LEMMA FinishRunInv ==
    ASSUME ScheduleInv, NEW p \in Processes, FinishRun(p) PROVE ScheduleInv'
<1>1. TypeOK /\ runner[p] \in RunnerStates /\ RunnerOK(p)
  BY Typed DEF ScheduleInv
<1>2. /\ runner[p].phase = "finish"
      /\ UNCHANGED <<lockVars, now, request, world, history>>
  BY DEF FinishRun
<1>3. PICK s \in Schedules, o \in Nat : s = runner[p].sched /\ o = runner[p].occ
  BY <1>1, <1>2 DEF RunnerOK, Working
<1>4. o <= now
  BY <1>1, <1>2, <1>3 DEF RunnerOK, Working
<1>5. PICK r : r = IF runner[p].made THEN [runner[p] EXCEPT !.phase = "record"]
                   ELSE [IdleRunner EXCEPT !.phase = "select"]
  OBVIOUS
<1>6. /\ r \in RunnerStates
      /\ \/ /\ r.phase = "record" /\ r.sched = runner[p].sched
            /\ r.occ = runner[p].occ /\ r.left = runner[p].left
            /\ r.made = runner[p].made /\ runner[p].made
         \/ r.phase = "select" /\ ~r.made /\ ~runner[p].made
  <2>1. CASE runner[p].made
    <3>1. r = [runner[p] EXCEPT !.phase = "record"]
      BY <1>5, <2>1
    <3>2. /\ r \in RunnerStates /\ r.phase = "record"
          /\ r.sched = runner[p].sched /\ r.occ = runner[p].occ
          /\ r.left = runner[p].left /\ r.made = runner[p].made
      BY <1>1, <3>1, OtherPhase DEF Phases
    <3> QED
      BY <2>1, <3>2
  <2>2. CASE ~runner[p].made
    <3>1. r = [IdleRunner EXCEPT !.phase = "select"]
      BY <1>5, <2>2
    <3> QED
      BY <2>2, <3>1, IdleInPhase DEF Phases
  <2> QED
    BY <2>1, <2>2
<1>7. runner' = [runner EXCEPT ![p] = r]
  BY <1>5 DEF FinishRun
<1>8. /\ runner' \in [Processes -> RunnerStates] /\ runner'[p] = r
      /\ \A q \in Processes \ {p} : runner'[q] = runner[q]
  BY <1>1, <1>6, <1>7, OneRunner
<1>9. LockTypeOK' /\ inside' = {q \in Processes : runner'[q].phase # "idle"}
  BY <1>1, <1>2, <1>6, <1>7, StillInside
<1>10. CASE ~Holds(p)
  <2>1. UNCHANGED <<row, leaseOld>>
    BY <1>10 DEF FinishRun
  <2>2. TypeOK'
    BY <1>1, <1>2, <1>8, <1>9, <2>1 DEF TypeOK, world, history
  <2>3. RunnerOK(p)'
    BY <1>1, <1>2, <1>3, <1>4, <1>6, <1>8, <1>10, <2>1
       DEF RunnerOK, Working, Holds
  <2>4. runner[p].phase \in Working
    BY <1>2 DEF Working
  <2>5. r.phase \in Working =>
           /\ r.sched = runner[p].sched /\ r.occ = runner[p].occ
           /\ r.made = runner[p].made /\ r.left = runner[p].left
    BY <1>6 DEF Working
  <2> QED
    BY <1>2, <1>6, <1>7, <1>10, <2>1, <2>2, <2>3, <2>4, <2>5, RunnerStep
       DEF history
<1>11. CASE Holds(p)
  <2>1. /\ row' = [row EXCEPT ![s].next = o + Interval[s],
                              ![s].token = NoProcess]
        /\ leaseOld' = leaseOld \ {s} /\ row[s].token = p
    BY <1>3, <1>11 DEF FinishRun, NextAfter, NextOccurrence, Holds
  <2>2. PICK i \in Nat : i = o + Interval[s] /\ i > o
    BY <1>1, Typed
  <2>3. PICK w : w = [row[s] EXCEPT !.next = i, !.token = NoProcess]
    OBVIOUS
  <2>4. row' = [row EXCEPT ![s] = w]
    BY <2>1, <2>2, <2>3
  <2>5. w \in Rows /\ w.token = NoProcess /\ w.next = i
    <3>1. row[s] \in Rows /\ NoProcess \in Processes \cup {NoProcess}
      BY <1>1, Typed
    <3>2. w \in Rows
      BY <2>2, <2>3, <3>1, Zenon DEF Rows
    <3>3. DOMAIN row[s] = {"exists", "enabled", "next", "token"}
      BY <3>1 DEF Rows
    <3>4. w.token = NoProcess /\ w.next = i
      BY <2>3, <3>3, Zenon
    <3> QED
      BY <3>2, <3>4
  <2>6. /\ row' \in [Schedules -> Rows] /\ row'[s] = w
        /\ \A t \in Schedules \ {s} : row'[t] = row[t]
    BY <1>1, <2>4, <2>5, Typed
  <2>7. TypeOK'
    BY <1>1, <1>2, <1>8, <1>9, <2>1, <2>6 DEF TypeOK, world, history
  <2>8. NoProcess \notin Processes
    BY <1>1, Typed
  <2>9. RunnerOK(p)'
    BY <1>2, <1>3, <1>4, <1>6, <1>8, <2>5, <2>6, <2>8
       DEF RunnerOK, Working, Holds
  <2>10. NeverEarly' /\ OncePerOccurrence'
    BY <1>2 DEF ScheduleInv, NeverEarly, OncePerOccurrence, history
  <2>11. ASSUME s \notin spoiled' PROVE SchedOK(s)'
    <3>1. SchedOK(s) /\ runs' = runs
      BY <1>2, <2>11 DEF ScheduleInv, history
    <3>2. /\ WorksOn(p, s)
          /\ \A q \in Processes : WorksOn(q, s)' =>
                /\ WorksOn(q, s) /\ runner'[q].occ = runner[q].occ
                /\ runner'[q].made = runner[q].made
                /\ runner'[q].left = runner[q].left
      BY <1>2, <1>3, <1>6, <1>8 DEF WorksOn, Working
    <3>3. \A q \in Processes : row'[s].token # q
      BY <2>5, <2>6, <2>8
    <3>4. \A q \in Processes : WorksOn(q, s) => runner[q].occ < i
      <4> SUFFICES ASSUME NEW q \in Processes, WorksOn(q, s)
                   PROVE  runner[q].occ < i
        OBVIOUS
      <4>1. runner[q].occ \in Nat
        BY DEF ScheduleInv, RunnerOK, WorksOn
      <4>2. CASE q = p
        BY <1>3, <2>2, <4>2
      <4>3. CASE q # p
        <5>1. runner[q].occ < o
          BY <1>3, <2>1, <3>1, <3>2, <4>3 DEF SchedOK, Apart
        <5> QED
          BY <2>2, <4>1, <5>1
      <4> QED
        BY <4>2, <4>3
    <3>5. \A j \in Occurrences, n \in Nodes : runs[s][j][n] > 0 => j < i
      <4>1. \A j \in Occurrences, n \in Nodes : runs[s][j][n] > 0 => j <= o
        BY <1>3, <2>1, <3>1, <3>2 DEF SchedOK, RunsBefore
      <4> QED
        BY <2>2, <4>1 DEF Occurrences
    <3>6. Apart(s)'
      BY <3>1, <3>2, <3>3 DEF SchedOK, Apart
    <3>7. NextIsNew(s)'
      <4>1. \A q \in Processes : WorksOn(q, s) => runner[q].occ \in Nat
        BY DEF ScheduleInv, RunnerOK, WorksOn
      <4> QED
        BY <2>2, <2>5, <2>6, <3>2, <3>4, <4>1 DEF NextIsNew
    <3>8. RunsBefore(s)'
      BY <2>2, <2>5, <2>6, <3>1, <3>3, <3>5 DEF RunsBefore, Occurrences
    <3>9. LeftHaveNone(s)'
      BY <3>1, <3>2 DEF SchedOK, LeftHaveNone
    <3> QED
      BY <3>6, <3>7, <3>8, <3>9 DEF SchedOK
  <2>12. r.phase \in Working => r.sched = s
    BY <1>3, <1>6 DEF Working
  <2> QED
    BY <1>2, <1>3, <1>6, <1>7, <2>1, <2>5, <2>6, <2>7, <2>9, <2>10, <2>11,
       <2>12, OneSchedule DEF history
<1> QED
  BY <1>10, <1>11

\* A claim that is given up after a task was queued spoils the schedule.
LEMMA ReleaseFailedInv ==
    ASSUME ScheduleInv, NEW p \in Processes, ReleaseFailed(p)
    PROVE  ScheduleInv'
<1>1. TypeOK /\ runner[p] \in RunnerStates /\ RunnerOK(p)
  BY Typed DEF ScheduleInv
<1>2. /\ runner[p].phase = "release"
      /\ UNCHANGED <<lockVars, now, request, world, runs, faults, slow, ops,
                     changes>>
  BY DEF ReleaseFailed
<1>3. PICK s \in Schedules : s = runner[p].sched
  BY <1>1, <1>2 DEF RunnerOK, Working
<1>4. PICK r : r = [IdleRunner EXCEPT !.phase = "unlock"]
  OBVIOUS
<1>5. r \in RunnerStates /\ r.phase = "unlock" /\ ~r.made
  BY <1>4, IdleInPhase DEF Phases
<1>6. runner' = [runner EXCEPT ![p] = r]
  BY <1>4 DEF ReleaseFailed
<1>7. /\ runner' \in [Processes -> RunnerStates] /\ runner'[p] = r
      /\ \A q \in Processes \ {p} : runner'[q] = runner[q]
  BY <1>1, <1>5, <1>6, OneRunner
<1>8. LockTypeOK' /\ inside' = {q \in Processes : runner'[q].phase # "idle"}
  BY <1>1, <1>2, <1>5, <1>6, StillInside
<1>9. RunnerOK(p)' /\ r.phase \notin Working
  BY <1>5, <1>7 DEF RunnerOK, Working
<1>10. CASE ~Holds(p)
  <2>1. UNCHANGED <<row, leaseOld, spoiled>>
    BY <1>10 DEF ReleaseFailed
  <2>2. TypeOK'
    BY <1>1, <1>2, <1>7, <1>8, <2>1 DEF TypeOK, world
  <2> QED
    BY <1>2, <1>5, <1>6, <1>9, <1>10, <2>1, <2>2, RunnerStep
<1>11. CASE Holds(p)
  <2>1. /\ row' = [row EXCEPT ![s].token = NoProcess]
        /\ leaseOld' = leaseOld \ {s} /\ row[s].token = p
        /\ spoiled' = IF runner[p].made THEN spoiled \cup {s} ELSE spoiled
    BY <1>3, <1>11 DEF ReleaseFailed, Holds
  <2>2. PICK w : w = [row[s] EXCEPT !.token = NoProcess]
    OBVIOUS
  <2>3. w \in Rows /\ w.token = NoProcess /\ w.next = row[s].next
    BY <1>1, <2>2, TokenGone, Typed
  <2>4. row' = [row EXCEPT ![s] = w]
    BY <2>1, <2>2
  <2>5. /\ row' \in [Schedules -> Rows] /\ row'[s] = w
        /\ \A t \in Schedules \ {s} : row'[t] = row[t]
    BY <1>1, <2>3, <2>4, Typed
  <2>6. TypeOK'
    BY <1>1, <1>2, <1>7, <1>8, <2>1, <2>5 DEF TypeOK, world
  <2>7. NeverEarly' /\ OncePerOccurrence'
    BY <1>2, <2>1 DEF ScheduleInv, NeverEarly, OncePerOccurrence
  <2>8. ASSUME s \notin spoiled' PROVE SchedOK(s)'
    <3>1. SchedOK(s) /\ runs' = runs /\ ~runner[p].made
      BY <1>2, <2>1, <2>8 DEF ScheduleInv
    <3>2. \A q \in Processes : WorksOn(q, s)' =>
             /\ WorksOn(q, s) /\ q # p /\ runner'[q] = runner[q]
      BY <1>7, <1>9 DEF WorksOn
    <3>3. \A q \in Processes : row'[s].token # q
      BY <1>1, <2>3, <2>5, Typed
    <3>4. Apart(s)'
      BY <3>1, <3>2, <3>3 DEF SchedOK, Apart
    <3>5. NextIsNew(s)'
      BY <2>1, <2>3, <2>5, <3>1, <3>2 DEF SchedOK, NextIsNew, Leases
    <3>6. RunsBefore(s)'
      <4>1. \A q \in Processes, o \in Occurrences : ~Queueing(q, s, o)
        BY <2>1, <3>1 DEF Queueing, Leases
      <4> QED
        BY <2>3, <2>5, <3>1, <3>3, <4>1 DEF SchedOK, RunsBefore
    <3>7. LeftHaveNone(s)'
      BY <3>1, <3>2 DEF SchedOK, LeftHaveNone
    <3> QED
      BY <3>4, <3>5, <3>6, <3>7 DEF SchedOK
  <2> QED
    BY <1>2, <1>3, <1>5, <1>6, <1>9, <2>1, <2>3, <2>5, <2>6, <2>7, <2>8,
       OneSchedule
<1> QED
  BY <1>10, <1>11

-----------------------------------------------------------------------------
(* Operators, the clock and the leases.                                      *)

\* Nobody works on s under the claim that is in its row.
Unclaimed(s) == \A p \in Processes : ~(WorksOn(p, s) /\ row[s].token = p)

\* What operators and the clock do to schedule s: nothing, or its lease ends
\* when nobody counts on it, or its next run is put into the future or taken
\* away and its claim may go, or it counts as spoiled from now on.
Allowed(s) ==
    \/ row'[s] = row[s] /\ (s \in leaseOld' => s \in leaseOld)
    \/ row'[s] = row[s] /\ Unclaimed(s)
    \/ /\ row'[s].next = NoRun \/ row'[s].next > now
       /\ row'[s].token \in {row[s].token, NoProcess}
    \/ s \in spoiled' /\ row'[s].token \in {row[s].token, NoProcess}

LEMMA OperatorStep ==
    ASSUME ScheduleInv, TypeOK', UNCHANGED <<runner, runs>>, now <= now',
           spoiled \subseteq spoiled', \A s \in Schedules : Allowed(s),
           \A r \in Requests : RequestOK(r)'
    PROVE  ScheduleInv'
<1>1. /\ TypeOK /\ NoProcess \notin Processes /\ now \in Nat /\ now' \in Nat
      /\ NoRun \notin Nat
  BY Typed DEF ScheduleInv, TypeOK
<1>2. \A q \in Processes : RunnerOK(q)'
  <2>1. \A s \in Schedules, q \in Processes : row'[s].token = q => row[s].token = q
    BY <1>1 DEF Allowed
  <2> QED
    BY <2>1, SameRunnerOK
<1>3. NeverEarly' /\ OncePerOccurrence'
  <2>1. OncePerOccurrence'
    BY DEF ScheduleInv, OncePerOccurrence
  <2>2. NeverEarly'
    BY <1>1 DEF ScheduleInv, NeverEarly, Occurrences
  <2> QED
    BY <2>1, <2>2
<1>4. ASSUME NEW s \in Schedules, s \notin spoiled' PROVE SchedOK(s)'
  <2>1. SchedOK(s) /\ s \notin spoiled
    BY <1>4 DEF ScheduleInv
  <2>2. \A q \in Processes : WorksOn(q, s)' <=> WorksOn(q, s)
    BY DEF WorksOn
  <2>3. CASE row'[s] = row[s] /\ (s \in leaseOld' => s \in leaseOld)
    BY <2>1, <2>2, <2>3, Untouched
  <2>4. CASE row'[s] = row[s] /\ Unclaimed(s)
    <3>1. Apart(s)' /\ LeftHaveNone(s)'
      BY <2>1, <2>2, <2>4 DEF SchedOK, Apart, LeftHaveNone
    <3>2. NextIsNew(s)'
      BY <2>1, <2>2, <2>4 DEF SchedOK, NextIsNew, Leases, Unclaimed
    <3>3. RunsBefore(s)'
      <4>1. \A q \in Processes, o \in Occurrences : ~Queueing(q, s, o)
        BY <2>4 DEF Unclaimed, Queueing, Leases
      <4> QED
        BY <2>1, <2>2, <2>4, <4>1 DEF SchedOK, RunsBefore
    <3> QED
      BY <3>1, <3>2, <3>3 DEF SchedOK
  <2>5. CASE /\ row'[s].next = NoRun \/ row'[s].next > now
             /\ row'[s].token \in {row[s].token, NoProcess}
    <3>1. \A q \in Processes : row'[s].token = q => row[s].token = q
      BY <1>1, <2>5
    <3>2. Apart(s)' /\ LeftHaveNone(s)'
      BY <2>1, <2>2, <3>1 DEF SchedOK, Apart, LeftHaveNone
    <3>3. row'[s].next # NoRun => row'[s].next \in Nat /\ row'[s].next > now
      BY <1>1, <2>5, RowFields DEF TypeOK
    <3>4. NextIsNew(s)'
      <4>1. \A q \in Processes : WorksOn(q, s) =>
               runner[q].occ \in Nat /\ runner[q].occ <= now
        BY DEF ScheduleInv, RunnerOK, WorksOn
      <4> QED
        BY <1>1, <2>2, <3>3, <4>1 DEF NextIsNew
    <3>5. RunsBefore(s)'
      <4>1. \A o \in Occurrences, n \in Nodes :
               runs[s][o][n] > 0 => o \in Nat /\ o <= now
        BY DEF ScheduleInv, NeverEarly, Occurrences
      <4>2. \A o \in Occurrences, n \in Nodes : runs[s][o][n] > 0 =>
               \A q \in Processes : WorksOn(q, s) /\ row'[s].token = q
                                       => o <= runner[q].occ
        BY <2>1, <3>1 DEF SchedOK, RunsBefore
      <4> QED
        BY <1>1, <2>2, <3>3, <4>1, <4>2 DEF RunsBefore
    <3> QED
      BY <3>2, <3>4, <3>5 DEF SchedOK
  <2> QED
    BY <1>4, <2>3, <2>4, <2>5 DEF Allowed
<1> QED
  BY <1>2, <1>3, <1>4 DEF ScheduleInv

\* Nothing but the requests and the bookkeeping changes.
LEMMA RequestsOnly ==
    ASSUME ScheduleInv, TypeOK',
           UNCHANGED <<runner, now, row, leaseOld, runs, spoiled>>,
           \A r \in Requests : RequestOK(r)'
    PROVE  ScheduleInv'
<1>1. (\A s \in Schedules : Allowed(s)) /\ now <= now'
  BY DEF Allowed, ScheduleInv, TypeOK
<1> QED
  BY <1>1, OperatorStep

LEMMA CreateScheduleInv ==
    ASSUME ScheduleInv, NEW s \in Schedules, CreateSchedule(s)
    PROVE  ScheduleInv'
<1>1. PICK w : w = [exists |-> TRUE, enabled |-> TRUE, token |-> NoProcess,
                    next |-> NextOccurrence(s, now)]
  OBVIOUS
<1>2. /\ row' = [row EXCEPT ![s] = w] /\ ops' = ops + 1
      /\ UNCHANGED <<lockVars, now, leaseOld, runner, request, world, runs,
                     spoiled, faults, slow, changes>>
  BY <1>1 DEF CreateSchedule
<1>3. /\ NextOccurrence(s, now) \in Nat /\ NextOccurrence(s, now) > now
      /\ TypeOK /\ now \in Nat
  BY Typed DEF ScheduleInv, NextOccurrence
<1>4. w \in Rows /\ w.token = NoProcess /\ w.next > now
  BY <1>1, <1>3 DEF Rows
<1>5. /\ row' \in [Schedules -> Rows] /\ row'[s] = w
      /\ \A t \in Schedules \ {s} : row'[t] = row[t]
  BY <1>2, <1>3, <1>4, Typed
<1>6. TypeOK'
  <2>1. {faults, slow, ops, changes}' \subseteq Nat
    BY <1>2, <1>3 DEF TypeOK
  <2> QED
    BY <1>2, <1>3, <1>5, <2>1 DEF TypeOK, LockTypeOK, lockVars, world
<1>7. \A t \in Schedules : Allowed(t)
  BY <1>2, <1>4, <1>5 DEF Allowed
<1>8. \A r \in Requests : RequestOK(r)'
  BY <1>2 DEF ScheduleInv, RequestOK
<1>9. now <= now'
  BY <1>2, <1>3
<1> QED
  BY <1>2, <1>6, <1>7, <1>8, <1>9, OperatorStep

LEMMA LoadScheduleInv ==
    ASSUME ScheduleInv, NEW r \in Requests, NEW kind \in Kinds,
           NEW s \in Schedules, LoadSchedule(r, kind, s)
    PROVE  ScheduleInv'
<1>1. PICK e : e = Entity(kind, s)
  OBVIOUS
<1>2. PICK q : q = [kind |-> kind, phase |-> "loaded", sched |-> s,
                    entity |-> e, dirty |-> {}]
  OBVIOUS
<1>3. /\ request' = [request EXCEPT ![r] = q] /\ ops' = ops + 1
      /\ UNCHANGED <<lockVars, now, row, leaseOld, runner, world, runs, spoiled,
                     faults, slow, changes>>
  BY <1>1, <1>2 DEF LoadSchedule
<1>4. /\ TypeOK /\ now \in Nat /\ NextOccurrence(s, now) \in Nat
      /\ row[s].enabled \in BOOLEAN
  BY Typed, RowFields DEF ScheduleInv, NextOccurrence
<1>5. e \in Rows /\ e.token = NoProcess
  <2>1. (IF kind = "timezone" THEN row[s].enabled ELSE kind = "enable") \in BOOLEAN
    BY <1>4
  <2> QED
    BY <1>1, <1>4, <2>1 DEF Entity, Rows
<1>6. /\ q \in RequestStates /\ q.sched = s /\ q.entity = e
  BY <1>2, <1>5 DEF RequestStates
<1>7. request' \in [Requests -> RequestStates] /\ request'[r] = q
      /\ \A t \in Requests \ {r} : request'[t] = request[t]
  BY <1>3, <1>4, <1>6 DEF TypeOK
<1>8. TypeOK'
  <2>1. {faults, slow, ops, changes}' \subseteq Nat
    BY <1>3, <1>4 DEF TypeOK
  <2> QED
    BY <1>3, <1>4, <1>7, <2>1 DEF TypeOK, LockTypeOK, lockVars, world
<1>9. \A t \in Requests : RequestOK(t)'
  BY <1>5, <1>6, <1>7 DEF ScheduleInv, RequestOK
<1> QED
  BY <1>3, <1>8, <1>9, RequestsOnly

LEMMA SaveReloadInv ==
    ASSUME ScheduleInv, NEW r \in Requests, SaveReload(r) PROVE ScheduleInv'
<1>1. TypeOK /\ request[r] \in RequestStates /\ RequestOK(r)
  BY DEF ScheduleInv, TypeOK
<1>2. /\ request[r].phase = "loaded"
      /\ UNCHANGED <<lockVars, now, row, leaseOld, runner, world, history>>
  BY DEF SaveReload
<1>3. PICK d \in SUBSET Columns :
         request' = [request EXCEPT ![r].phase = "dirty", ![r].dirty = d]
  BY DEF SaveReload
<1>4. PICK q : q = [request[r] EXCEPT !.phase = "dirty", !.dirty = d]
  OBVIOUS
<1>5. request' = [request EXCEPT ![r] = q]
  BY <1>3, <1>4
<1>6. q \in RequestStates
  BY <1>1, <1>4, Zenon DEF RequestStates
<1>7. q.sched = request[r].sched /\ q.entity = request[r].entity
  <2>1. DOMAIN request[r] = {"kind", "phase", "sched", "entity", "dirty"}
    BY <1>1 DEF RequestStates
  <2> QED
    BY <1>4, <2>1, Zenon
<1>8. request' \in [Requests -> RequestStates] /\ request'[r] = q
      /\ \A t \in Requests \ {r} : request'[t] = request[t]
  BY <1>1, <1>5, <1>6 DEF TypeOK
<1>9. TypeOK'
  BY <1>1, <1>2, <1>8 DEF TypeOK, LockTypeOK, lockVars, world, history
<1>10. \A t \in Requests : RequestOK(t)'
  BY <1>1, <1>2, <1>7, <1>8 DEF ScheduleInv, RequestOK
<1> QED
  BY <1>2, <1>9, <1>10, RequestsOnly DEF history

\* A request that is done.
LEMMA RequestDone ==
    ASSUME ScheduleInv, NEW r \in Requests,
           request' = [request EXCEPT ![r] = IdleRequest]
    PROVE  /\ request' \in [Requests -> RequestStates]
           /\ \A t \in Requests : RequestOK(t)'
<1>1. IdleRequest \in RequestStates /\ IdleRequest.phase = "idle"
  BY DEF IdleRequest, RequestStates, NoRow, Rows
<1>2. /\ request' \in [Requests -> RequestStates]
      /\ request'[r] = IdleRequest
      /\ \A t \in Requests \ {r} : request'[t] = request[t]
  BY <1>1 DEF ScheduleInv, TypeOK
<1> QED
  BY <1>1, <1>2 DEF ScheduleInv, RequestOK

\* A save that comes too late puts the next run into the past, which spoils the
\* schedule; any other puts it into the future or leaves it as it is.
LEMMA SaveUpdateInv ==
    ASSUME ScheduleInv, NEW r \in Requests, SaveUpdate(r) PROVE ScheduleInv'
<1>1. /\ TypeOK /\ request[r] \in RequestStates /\ RequestOK(r)
      /\ request[r].phase = "dirty"
      /\ request' = [request EXCEPT ![r] = IdleRequest]
      /\ UNCHANGED <<lockVars, now, runner, world, runs, faults, slow, ops,
                     changes>>
  BY DEF ScheduleInv, TypeOK, SaveUpdate
<1>2. /\ request' \in [Requests -> RequestStates]
      /\ \A t \in Requests : RequestOK(t)'
  BY <1>1, RequestDone
<1>3. PICK s \in Schedules : s = request[r].sched
  BY <1>1 DEF RequestOK
<1>4. PICK e \in Rows : e = request[r].entity /\ e.token = NoProcess
  BY <1>1 DEF RequestOK, RequestStates
<1>5. PICK new : new = [c \in Columns |-> IF c \in request[r].dirty THEN e[c]
                                          ELSE row[s][c]]
  OBVIOUS
<1>6. /\ row[s] \in Rows /\ row \in [Schedules -> Rows] /\ now \in Nat
      /\ NoRun \notin Nat /\ NoProcess \notin Processes
  BY <1>1, Typed
<1>7. /\ new \in Rows
      /\ new.token \in {row[s].token, NoProcess}
  <2>1. new.exists \in BOOLEAN /\ new.enabled \in BOOLEAN
    BY <1>4, <1>5, <1>6, RowFields DEF Columns
  <2>2. new.next \in Nat \cup {NoRun}
    BY <1>4, <1>5, <1>6, RowFields DEF Columns
  <2>3. /\ new.token \in {row[s].token, NoProcess}
        /\ new.token \in Processes \cup {NoProcess}
    BY <1>4, <1>5, <1>6, RowFields DEF Columns
  <2>4. new = [exists |-> new.exists, enabled |-> new.enabled,
               next |-> new.next, token |-> new.token]
    BY <1>5 DEF Columns
  <2> QED
    BY <2>1, <2>2, <2>3, <2>4 DEF Rows
<1>8. CASE row[s].exists # ("exists" \in request[r].dirty)
  <2>1. /\ row' = [row EXCEPT ![s] = new]
        /\ leaseOld' = IF new.token = NoProcess THEN leaseOld \ {s} ELSE leaseOld
        /\ spoiled' = IF new.next # NoRun /\ new.next <= now
                      THEN spoiled \cup {s} ELSE spoiled
    BY <1>3, <1>4, <1>5, <1>8 DEF SaveUpdate
  <2>2. /\ row' \in [Schedules -> Rows] /\ row'[s] = new
        /\ \A t \in Schedules \ {s} : row'[t] = row[t]
    BY <1>6, <1>7, <2>1
  <2>3. TypeOK'
    <3>1. leaseOld' \subseteq Schedules /\ spoiled' \subseteq Schedules
      BY <1>1, <2>1 DEF TypeOK
    <3> QED
      BY <1>1, <1>2, <2>2, <3>1 DEF TypeOK, LockTypeOK, lockVars, world
  <2>4. Allowed(s)
    <3>1. new.next # NoRun => new.next \in Nat
      BY <1>7, RowFields
    <3> QED
      BY <1>6, <1>7, <2>1, <2>2, <3>1 DEF Allowed
  <2>5. \A t \in Schedules \ {s} : Allowed(t)
    BY <2>1, <2>2 DEF Allowed
  <2>6. now <= now' /\ spoiled \subseteq spoiled'
    BY <1>1, <1>6, <2>1
  <2> QED
    BY <1>1, <1>2, <2>3, <2>4, <2>5, <2>6, OperatorStep
<1>9. CASE ~(row[s].exists # ("exists" \in request[r].dirty))
  <2>1. UNCHANGED <<row, leaseOld, spoiled>>
    BY <1>3, <1>9 DEF SaveUpdate
  <2>2. TypeOK'
    BY <1>1, <1>2, <2>1 DEF TypeOK, LockTypeOK, lockVars, world
  <2> QED
    BY <1>1, <1>2, <2>1, <2>2, RequestsOnly
<1> QED
  BY <1>8, <1>9

LEMMA DeleteScheduleInv ==
    ASSUME ScheduleInv, NEW r \in Requests, DeleteSchedule(r)
    PROVE  ScheduleInv'
<1>1. /\ TypeOK /\ RequestOK(r) /\ request[r].phase = "loaded"
      /\ row' = [row EXCEPT ![request[r].sched] = NoRow]
      /\ leaseOld' = leaseOld \ {request[r].sched}
      /\ request' = [request EXCEPT ![r] = IdleRequest]
      /\ UNCHANGED <<lockVars, now, runner, world, history>>
  BY DEF ScheduleInv, DeleteSchedule
<1>2. PICK s \in Schedules : s = request[r].sched
  BY <1>1 DEF RequestOK
<1>3. /\ request' \in [Requests -> RequestStates]
      /\ \A t \in Requests : RequestOK(t)'
  BY <1>1, RequestDone
<1>4. NoRow \in Rows /\ NoRow.token = NoProcess /\ NoRow.next = NoRun
  BY DEF NoRow, Rows
<1>5. /\ row' \in [Schedules -> Rows] /\ row'[s] = NoRow
      /\ \A t \in Schedules \ {s} : row'[t] = row[t]
  BY <1>1, <1>2, <1>4, Typed
<1>6. TypeOK'
  BY <1>1, <1>3, <1>5 DEF TypeOK, LockTypeOK, lockVars, world, history
<1>7. \A t \in Schedules : Allowed(t)
  BY <1>1, <1>2, <1>4, <1>5 DEF Allowed
<1>8. now <= now'
  BY <1>1 DEF TypeOK
<1> QED
  BY <1>1, <1>3, <1>6, <1>7, <1>8, OperatorStep DEF history

\* A lease that passes while its owner is busy spoils the schedule.
LEMMA LeaseExpiresInv ==
    ASSUME ScheduleInv, NEW s \in Schedules, LeaseExpires(s)
    PROVE  ScheduleInv'
<1>1. /\ TypeOK /\ row[s].token # NoProcess /\ leaseOld' = leaseOld \cup {s}
      /\ UNCHANGED <<lockVars, now, row, runner, request, world, runs, faults,
                     ops, changes>>
      /\ IF runner[row[s].token].sched = s
         THEN slow' = slow + 1 /\ spoiled' = spoiled \cup {s}
         ELSE UNCHANGED <<slow, spoiled>>
  BY DEF ScheduleInv, LeaseExpires
<1>2. TypeOK'
  <2>1. {faults, slow, ops, changes}' \subseteq Nat /\ spoiled' \subseteq Schedules
    BY <1>1 DEF TypeOK
  <2> QED
    BY <1>1, <2>1 DEF TypeOK, LockTypeOK, lockVars, world
<1>3. Allowed(s)
  BY <1>1 DEF Allowed, Unclaimed, WorksOn
<1>4. \A t \in Schedules \ {s} : Allowed(t)
  BY <1>1 DEF Allowed
<1>5. \A t \in Requests : RequestOK(t)'
  BY <1>1 DEF ScheduleInv, RequestOK
<1>6. now <= now' /\ spoiled \subseteq spoiled'
  BY <1>1 DEF TypeOK
<1> QED
  BY <1>1, <1>2, <1>3, <1>4, <1>5, <1>6, OperatorStep

\* Changes to nodes, the workspace and database sessions.
LEMMA WorldInv ==
    ASSUME ScheduleInv,
           \/ \E n \in Nodes : SetMaintenance(n) \/ SetRootAccess(n)
           \/ SetArchived
           \/ \E p \in Processes : LockSessionDrops(p)
    PROVE  ScheduleInv'
<1>1. TypeOK /\ \A r \in Requests : RequestOK(r)
  BY DEF ScheduleInv
<1>2. /\ UNCHANGED <<runner, now, row, leaseOld, request, runs, spoiled>>
      /\ UNCHANGED inside
  BY DEF SetMaintenance, SetRootAccess, SetArchived, LockSessionDrops, lockVars,
         world, history, SessionDrops
<1>3. LockTypeOK'
  BY <1>1, <1>2 DEF TypeOK, SetMaintenance, SetRootAccess, SetArchived,
     LockSessionDrops, lockVars, SessionDrops, LockTypeOK
<1>4. /\ maintenance' \subseteq Nodes /\ rootDenied' \subseteq Nodes
      /\ archived' \in BOOLEAN
  BY <1>1 DEF TypeOK, SetMaintenance, SetRootAccess, SetArchived,
     LockSessionDrops, world
<1>5. {faults, slow, ops, changes}' \subseteq Nat
  BY <1>1 DEF TypeOK, SetMaintenance, SetRootAccess, SetArchived,
     LockSessionDrops, history
<1>6. TypeOK'
  BY <1>1, <1>2, <1>3, <1>4, <1>5 DEF TypeOK
<1>7. \A r \in Requests : RequestOK(r)'
  BY <1>1, <1>2 DEF RequestOK
<1> QED
  BY <1>2, <1>6, <1>7, RequestsOnly

LEMMA TickInv == ASSUME ScheduleInv, Tick PROVE ScheduleInv'
<1>1. /\ TypeOK /\ now < MaxTime /\ now' = now + 1
      /\ UNCHANGED <<lockVars, row, leaseOld, runner, request, world, history>>
  BY DEF ScheduleInv, Tick
<1>2. TypeOK' /\ now <= now'
  <2>1. now' \in 0 .. MaxTime /\ now <= now'
    BY <1>1, Typed
  <2> QED
    BY <1>1, <2>1 DEF TypeOK, LockTypeOK, lockVars, world, history
<1>3. \A s \in Schedules : Allowed(s)
  BY <1>1 DEF Allowed
<1>4. \A r \in Requests : RequestOK(r)'
  BY <1>1 DEF ScheduleInv, RequestOK
<1> QED
  BY <1>1, <1>2, <1>3, <1>4, OperatorStep DEF history

-----------------------------------------------------------------------------
(* The theorem.                                                              *)

LEMMA StepInv == ScheduleInv /\ [Next]_vars => ScheduleInv'
<1> SUFFICES ASSUME ScheduleInv, [Next]_vars PROVE ScheduleInv'
  OBVIOUS
<1>1. ASSUME NEW p \in Processes, Runner(p) PROVE ScheduleInv'
  BY <1>1, RunDueSchedulesInv, SelectDueInv, ClaimDueInv, ListTargetsInv,
     QueueTaskCheckInv, QueueTaskInsertInv, AnnounceInv, FinishRunInv,
     RecordTriggeredInv, ReleaseFailedInv, UnlockInv DEF Runner
<1>2. CASE Operators
  BY <1>2, CreateScheduleInv, LoadScheduleInv, SaveReloadInv, SaveUpdateInv,
     DeleteScheduleInv, WorldInv DEF Operators, Save
<1>3. CASE Failures
  BY <1>3, ThrowsInv, ProcessDiesInv, WorldInv DEF Failures
<1>4. CASE UNCHANGED vars
  <2>1. UNCHANGED <<runner, now, row, leaseOld, request, runs, spoiled>>
    BY <1>4 DEF vars, history
  <2>2. TypeOK'
    BY <1>4 DEF ScheduleInv, TypeOK, LockTypeOK, vars, lockVars, world, history
  <2>3. \A r \in Requests : RequestOK(r)'
    BY <2>1 DEF ScheduleInv, RequestOK
  <2> QED
    BY <2>1, <2>2, <2>3, RequestsOnly
<1> QED
  BY <1>1, <1>2, <1>3, <1>4, TickInv, LeaseExpiresInv DEF Next

LEMMA AlwaysScheduleInv == Spec => []ScheduleInv
  BY InitInv, StepInv, PTL DEF Spec

\* Two runners of one occurrence would have the same occurrence of the same
\* schedule, which Apart excludes.
LEMMA InvOnce == ScheduleInv => OccurrencesOnce
<1> SUFFICES ASSUME ScheduleInv PROVE OccurrencesOnce
  OBVIOUS
<1>1. OneTrigger
  <2> SUFFICES ASSUME NEW s \in Schedules \ spoiled, NEW o \in Occurrences,
                      NEW p \in Triggering(s, o), NEW q \in Triggering(s, o),
                      p # q
               PROVE  FALSE
    BY DEF OneTrigger
  <2>1. /\ p \in Processes /\ q \in Processes /\ WorksOn(p, s) /\ WorksOn(q, s)
        /\ runner[p].occ = runner[q].occ
    BY DEF Triggering, WorksOn, Working
  <2> QED
    BY <2>1 DEF ScheduleInv, SchedOK, Apart
<1> QED
  BY <1>1 DEF ScheduleInv, OccurrencesOnce

\* Whatever processes run, die and lose their lock, whatever operators change
\* meanwhile: an occurrence is never queued before its time, and unless its
\* schedule is spoiled one process works on it and queues it once per node
\* (claimNextDueSchedule and triggerClaimedSchedule).
THEOREM OccurrenceRunsOnce == Spec => []OccurrencesOnce
  BY AlwaysScheduleInv, InvOnce, PTL

-----------------------------------------------------------------------------
(* Cadences.  The sets that computeNextScheduledRun and the calendar search  *)
(* are ranges of instants; their least members are found by linear           *)
(* arithmetic from the two offsets of a zone and the instant between them.   *)

\* Least members.
LEMMA MinIs ==
    ASSUME NEW S \in SUBSET Int, NEW m \in S, \A x \in S : m <= x
    PROVE  Min(S) = m
<1>1. \A x \in S : (\A y \in S : x =< y) => x = m
  OBVIOUS
<1> QED
  BY <1>1, Zenon DEF Min

\* Quotients and remainders.
LEMMA Division ==
    ASSUME NEW n \in Int, NEW k \in Nat \ {0}
    PROVE  /\ n \div k \in Int /\ n % k \in 0 .. k - 1
           /\ (n \div k) * k \in Int /\ n = (n \div k) * k + (n % k)
<1>1. n = k * (n \div k) + (n % k)
  OBVIOUS
<1> QED
  BY <1>1

LEMMA Products ==
    ASSUME NEW m \in Int, NEW n \in Int, NEW k \in Int
    PROVE  /\ m * k \in Int /\ n * k \in Int
           /\ (m + n) * k = m * k + n * k /\ (m - n) * k = m * k - n * k
OBVIOUS

LEMMA Multiples ==
    ASSUME NEW m \in Int, NEW n \in Int, NEW k \in Nat, m < n
    PROVE  m * k + k <= n * k
<1>1. (n - m - 1) * k >= 0
  OBVIOUS
<1>2. (n - m - 1) * k = n * k - m * k - k
  OBVIOUS
<1> QED
  BY <1>1, <1>2

LEMMA DivisionUnique ==
    ASSUME NEW q \in Int, NEW k \in Nat \ {0}, NEW r \in 0 .. k - 1
    PROVE  (q * k + r) \div k = q /\ (q * k + r) % k = r
<1> DEFINE n == q * k + r
           p == n \div k
<1>1. p \in Int /\ n % k \in 0 .. k - 1 /\ n = p * k + (n % k) /\ n \in Int
  BY Division
<1>2. ~(p < q)
  BY <1>1, Multiples
<1>3. ~(q < p)
  BY <1>1, Multiples
<1> QED
  BY <1>1, <1>2, <1>3

\* Shifted by whole periods, what is left is the same.
LEMMA Period ==
    ASSUME NEW x \in Int, NEW p \in Int, NEW k \in Nat \ {0}
    PROVE  (x + p * k) % k = x % k
<1> DEFINE q == x \div k
           r == x % k
<1>1. q \in Int /\ r \in 0 .. k - 1 /\ q * k \in Int /\ x = q * k + r
  BY Division
<1>2. (q + p) * k = q * k + p * k /\ p * k \in Int /\ q + p \in Int
  BY <1>1, Products
<1>3. ((q + p) * k + r) % k = r
  BY <1>1, <1>2, DivisionUnique
<1> HIDE DEF q, r
<1>4. x + p * k = (q + p) * k + r
  BY <1>1, <1>2
<1> QED
  BY <1>3, <1>4 DEF r

\* The first number from y on that has the minute of x.
After(x, y) == y + ((x - y) % PerHour)

\* Times with the same minute are hours apart, and hours later it is the same.
LEMMA SameMinute ==
    ASSUME NEW x \in Int, NEW y \in Int, MinuteOf(x) = MinuteOf(y), x < y
    PROVE  x + PerHour <= y
<1>1. PerHour \in Nat \ {0}
  BY CadenceAssumption
<1> DEFINE m == x \div PerHour
           n == y \div PerHour
           r == x % PerHour
<1>2. /\ m \in Int /\ m * PerHour \in Int /\ r \in Int
      /\ x = m * PerHour + r
  BY <1>1, Division
<1>3. /\ n \in Int /\ n * PerHour \in Int
      /\ y = n * PerHour + r
  BY <1>1, Division DEF MinuteOf
<1>4. /\ m < n => m * PerHour + PerHour <= n * PerHour
      /\ n < m => n * PerHour + PerHour <= m * PerHour
  BY <1>1, <1>2, <1>3, Multiples
<1> HIDE DEF m, n, r
<1>5. m < n \/ n < m \/ m = n
  BY <1>2, <1>3
<1> QED
  BY <1>1, <1>2, <1>3, <1>4, <1>5

LEMMA NextHour ==
    ASSUME NEW x \in Int
    PROVE  MinuteOf(x + PerHour) = MinuteOf(x)
<1>1. PerHour \in Nat \ {0}
  BY CadenceAssumption
<1>2. ASSUME NEW p \in Int, p = 1
      PROVE  (x + p * PerHour) % PerHour = x % PerHour
  BY <1>1, Period
<1>3. ASSUME NEW p \in Int, p = 1
      PROVE  x + p * PerHour = x + PerHour
  BY <1>1, <1>3
<1> QED
  BY <1>2, <1>3 DEF MinuteOf

LEMMA AfterIs ==
    ASSUME NEW x \in Int, NEW y \in Int
    PROVE  /\ After(x, y) \in y .. y + PerHour - 1
           /\ MinuteOf(After(x, y)) = MinuteOf(x)
           /\ \A j \in Int : j >= y /\ MinuteOf(j) = MinuteOf(x)
                               => j >= After(x, y)
<1> DEFINE i == After(x, y)
           q == (x - y) \div PerHour
           r == (x - y) % PerHour
<1>1. PerHour \in Nat \ {0}
  BY CadenceAssumption
<1>2. /\ q \in Int /\ r \in 0 .. PerHour - 1
      /\ q * PerHour \in Int /\ x - y = q * PerHour + r
  BY <1>1, Division
<1>3. i = y + r
  BY DEF After
<1> HIDE DEF i, q, r
<1>4. i \in y .. y + PerHour - 1 /\ i \in Int /\ i + q * PerHour = x
  BY <1>1, <1>2, <1>3
<1>5. MinuteOf(i) = MinuteOf(x)
  <2>1. (i + q * PerHour) % PerHour = i % PerHour
    BY <1>1, <1>2, <1>4, Period
  <2> QED
    BY <1>4, <2>1 DEF MinuteOf
<1>6. ASSUME NEW j \in Int, j >= y, MinuteOf(j) = MinuteOf(x)
      PROVE  j >= i
  <2>1. j < i => j + PerHour <= i
    BY <1>4, <1>5, <1>6, SameMinute
  <2> QED
    BY <1>1, <1>4, <1>6, <2>1
<1> QED
  BY <1>4, <1>5, <1>6 DEF i

\* Days follow each other.
LEMMA Days ==
    /\ Day \in Nat \ {0} /\ Day = 24 * PerHour /\ PerHour \in Nat \ {0}
    /\ \A x \in Int : /\ DayOf(x) \in Int /\ DayOf(x) * Day \in Int
                      /\ DayOf(x) * Day <= x /\ x < DayOf(x) * Day + Day
    /\ \A x, y \in Int : x <= y => DayOf(x) <= DayOf(y)
<1>1. Day \in Nat \ {0} /\ Day = 24 * PerHour /\ PerHour \in Nat \ {0}
  BY CadenceAssumption DEF Day
<1>2. ASSUME NEW x \in Int
      PROVE  /\ DayOf(x) \in Int /\ DayOf(x) * Day \in Int
             /\ DayOf(x) * Day <= x /\ x < DayOf(x) * Day + Day
  <2> DEFINE q == x \div Day
             r == x % Day
  <2>1. q \in Int /\ q * Day \in Int /\ r \in 0 .. Day - 1 /\ x = q * Day + r
    BY <1>1, Division
  <2> HIDE DEF r
  <2>2. q * Day <= x /\ x < q * Day + Day
    BY <1>1, <2>1
  <2> QED
    BY <2>1, <2>2 DEF DayOf
<1>3. ASSUME NEW x \in Int, NEW y \in Int, x <= y
      PROVE  DayOf(x) <= DayOf(y)
  <2>1. DayOf(y) < DayOf(x) => DayOf(y) * Day + Day <= DayOf(x) * Day
    BY <1>1, <1>2, Multiples
  <2> QED
    BY <1>1, <1>2, <1>3, <2>1
<1> QED
  BY <1>1, <1>2, <1>3

\* The run for a time of the zone's calendar: when the clock shows it first,
\* or, if it is jumped over, when the clock next shows its minute.
Entry(z, x) ==
    IF x < z.change + z.before THEN x - z.before
    ELSE IF x < z.change + z.after
         THEN After(x, z.change + z.after) - z.after
         ELSE x - z.after

LEMMA ZoneFacts ==
    ASSUME NEW z \in Zones
    PROVE  /\ z.before \in Int /\ z.after \in Int /\ z.change \in Int
           /\ -15 * PerHour <= z.before /\ z.before <= 15 * PerHour
           /\ -15 * PerHour <= z.after /\ z.after <= 15 * PerHour
           /\ z.before - z.after <= 2 * PerHour
           /\ z.after - z.before <= 3 * PerHour
           /\ \A i : GetZonedDateTimeParts(z, i)
                       = IF i < z.change THEN i + z.before ELSE i + z.after
<1>1. z.change \in Int /\ ClocksAsToday(z) /\ PerHour \in Nat \ {0}
  BY CadenceAssumption
<1>2. /\ {z.before, z.after} \subseteq -15 * PerHour .. 15 * PerHour
      /\ -(z.after - z.before) <= 2 * PerHour
  BY <1>1 DEF ClocksAsToday
<1>3. z.before \in Int /\ z.after \in Int
  BY <1>1, <1>2
<1>4. z.after - z.before > 0 => z.after - z.before <= 3 * PerHour
  BY <1>1, <1>3 DEF ClocksAsToday
<1>5. \A i : GetZonedDateTimeParts(z, i)
               = IF i < z.change THEN i + z.before ELSE i + z.after
  BY DEF GetZonedDateTimeParts, GetTimeZoneOffsetMinutes
<1> QED
  BY <1>1, <1>2, <1>3, <1>4, <1>5

\* A time that the clock jumps over.
LEMMA GapEntry ==
    ASSUME NEW z \in Zones, NEW x \in Int,
           x >= z.change + z.before, x < z.change + z.after
    PROVE  LET m == Entry(z, x) IN
           /\ m \in z.change .. z.change + PerHour - 1
           /\ MinuteOf(m + z.after) = MinuteOf(x)
           /\ x + PerHour <= m + z.after
           /\ \A i \in Int : i >= z.change /\ MinuteOf(i + z.after) = MinuteOf(x)
                               => i >= m
<1> DEFINE a == z.after
           y == z.change + a
           n == After(x, y)
           m == Entry(z, x)
<1>0. /\ z.before \in Int /\ a \in Int /\ z.change \in Int
      /\ PerHour \in Nat \ {0}
  BY ZoneFacts, CadenceAssumption, Zenon
<1>1. /\ z.before \in Int /\ a \in Int /\ z.change \in Int /\ y \in Int
      /\ PerHour \in Nat \ {0}
  BY <1>0
<1>2. /\ n \in y .. y + PerHour - 1 /\ MinuteOf(n) = MinuteOf(x)
      /\ \A j \in Int : j >= y /\ MinuteOf(j) = MinuteOf(x) => j >= n
  BY <1>1, AfterIs
<1> HIDE DEF n
<1>3. x + PerHour <= n
  BY <1>1, <1>2, SameMinute
<1>4. m = n - a
  BY <1>1, <1>2 DEF Entry, n
<1> HIDE DEF m
<1>5. ASSUME NEW i \in Int, i >= z.change, MinuteOf(i + a) = MinuteOf(x)
      PROVE  i >= m
  <2>1. i + a >= n
    BY <1>1, <1>2, <1>5
  <2> QED
    BY <1>1, <1>2, <1>4, <2>1
<1>6. m \in z.change .. z.change + PerHour - 1 /\ m + a = n
  BY <1>1, <1>2, <1>4
<1> QED
  BY <1>2, <1>3, <1>5, <1>6 DEF m

\* The instants that show a time, and which of them is the first one.
LEMMA Shows ==
    ASSUME NEW z \in Zones, NEW x \in Int, NEW i \in Int
    PROVE  /\ GetZonedDateTimeParts(z, i) = x
                <=> \/ i < z.change /\ i = x - z.before
                    \/ i >= z.change /\ i = x - z.after
           /\ GetZonedDateTimeParts(z, i) = x => i >= Entry(z, x)
           /\ Entry(z, x) \in Int
           /\ ~(x >= z.change + z.before /\ x < z.change + z.after)
                => GetZonedDateTimeParts(z, Entry(z, x)) = x
<1>1. /\ z.before \in Int /\ z.after \in Int /\ z.change \in Int
      /\ \A j : GetZonedDateTimeParts(z, j)
                  = IF j < z.change THEN j + z.before ELSE j + z.after
  BY ZoneFacts
<1>2. /\ GetZonedDateTimeParts(z, i) = x
           <=> \/ i < z.change /\ i = x - z.before
               \/ i >= z.change /\ i = x - z.after
  BY <1>1
<1>3. CASE x >= z.change + z.before /\ x < z.change + z.after
  <2>1. Entry(z, x) \in Int
    BY <1>1, <1>3, GapEntry, Days
  <2> QED
    BY <1>1, <1>2, <1>3, <2>1
<1>4. CASE ~(x >= z.change + z.before /\ x < z.change + z.after)
  <2>1. CASE x < z.change + z.before
    <3>1. Entry(z, x) = x - z.before
      BY <2>1 DEF Entry
    <3> QED
      BY <1>1, <1>2, <2>1, <3>1
  <2>2. CASE ~(x < z.change + z.before)
    <3>1. Entry(z, x) = x - z.after /\ x >= z.change + z.after
      BY <1>1, <1>4, <2>2 DEF Entry
    <3> QED
      BY <1>1, <1>2, <2>2, <3>1
  <2> QED
    BY <2>1, <2>2
<1> QED
  BY <1>3, <1>4

\* resolveLocalDateTime finds it: within three hours of its guess if the clock
\* shows the time, within the four hours after it if the clock jumps over it.
LEMMA ResolveIsEntry ==
    ASSUME NEW z \in Zones, NEW x \in Int
    PROVE  ResolveLocalDateTime(z, x) = Entry(z, x)
<1> DEFINE a == z.after
           b == z.before
           c == z.change
           m == Entry(z, x)
           guess == x - GetTimeZoneOffsetMinutes(z, x)
           exact == FindMatchingInstants(z, x, guess)
           sameMinute == FindGapFallbackInstants(z, x, guess, TRUE)
           future == FindGapFallbackInstants(z, x, guess, FALSE)
<1>0. PerHour \in Nat \ {0}
  BY CadenceAssumption
<1>1. /\ a \in Int /\ b \in Int /\ c \in Int
      /\ b - a <= 2 * PerHour /\ a - b <= 3 * PerHour
      /\ \A i \in Int : GetZonedDateTimeParts(z, i)
                          = IF i < c THEN i + b ELSE i + a
  BY ZoneFacts, Zenon
<1>2. guess = IF x < c THEN x - b ELSE x - a
  BY <1>1 DEF GetTimeZoneOffsetMinutes
<1>3. guess \in Int /\ m \in Int
  BY <1>1, <1>2, Shows
<1>4. ResolveLocalDateTime(z, x) =
        IF exact # {} THEN Min(exact)
        ELSE IF sameMinute # {} THEN Min(sameMinute)
        ELSE IF future # {} THEN Min(future) ELSE guess
  BY DEF ResolveLocalDateTime
<1>5. exact = {i \in guess - 3 * PerHour .. guess + 3 * PerHour :
                 GetZonedDateTimeParts(z, i) = x}
  BY DEF FindMatchingInstants
<1>6. /\ sameMinute = {i \in guess .. guess + 4 * PerHour :
                         /\ DayOf(GetZonedDateTimeParts(z, i)) = DayOf(x)
                         /\ MinuteOf(GetZonedDateTimeParts(z, i)) = MinuteOf(x)
                         /\ GetZonedDateTimeParts(z, i) > x}
      /\ future = {i \in guess .. guess + 4 * PerHour :
                     /\ DayOf(GetZonedDateTimeParts(z, i)) = DayOf(x)
                     /\ GetZonedDateTimeParts(z, i) > x}
  BY DEF FindGapFallbackInstants
<1> HIDE DEF guess, m, exact, sameMinute, future
<1>7. CASE ~(x >= c + b /\ x < c + a)
  <2>1. GetZonedDateTimeParts(z, m) = x
    BY <1>7, Shows DEF m
  <2>2. m = x - a \/ m = x - b
    BY <1>1, <1>3, <2>1
  <2>3. m \in guess - 3 * PerHour .. guess + 3 * PerHour
    BY <1>0, <1>1, <1>2, <1>3, <2>2
  <2>4. m \in exact /\ exact \in SUBSET Int
    BY <1>0, <1>3, <1>5, <2>1, <2>3
  <2>5. \A i \in exact : m <= i
    BY <1>3, <1>5, <2>4, Shows DEF m
  <2>6. Min(exact) = m
    BY <2>4, <2>5, MinIs
  <2> QED
    BY <1>4, <2>4, <2>6 DEF m
<1>8. CASE x >= c + b /\ x < c + a
  <2>1. /\ m \in c .. c + PerHour - 1 /\ MinuteOf(m + a) = MinuteOf(x)
        /\ x + PerHour <= m + a
        /\ \A i \in Int : i >= c /\ MinuteOf(i + a) = MinuteOf(x) => i >= m
    BY <1>8, GapEntry DEF m
  <2>2. exact = {}
    <3>1. \A i \in Int : GetZonedDateTimeParts(z, i) # x
      BY <1>1, <1>8
    <3> QED
      BY <1>0, <1>3, <1>5, <3>1
  <2>3. \A i \in Int : GetZonedDateTimeParts(z, i) > x
                         => i >= c /\ GetZonedDateTimeParts(z, i) = i + a
    BY <1>1, <1>8
  <2>4. sameMinute \in SUBSET Int /\ \A i \in sameMinute : m <= i
    BY <1>0, <1>3, <1>6, <2>1, <2>3
  <2>5. GetZonedDateTimeParts(z, m) = m + a /\ m + a > x
    BY <1>0, <1>1, <1>3, <2>1
  <2>6. ASSUME m \in guess .. guess + 4 * PerHour,
               DayOf(m + a) = DayOf(x)
        PROVE  ResolveLocalDateTime(z, x) = m
    <3>1. m \in sameMinute
      BY <1>6, <2>1, <2>5, <2>6
    <3>2. Min(sameMinute) = m
      BY <2>4, <3>1, MinIs
    <3> QED
      BY <1>4, <2>2, <3>1, <3>2
  <2>7. CASE /\ DayOf(c + a + PerHour - 1) = DayOf(c + b)
             /\ \/ a <= 0 /\ a - b <= PerHour
                \/ b >= 0 /\ a - b <= 3 * PerHour
    <3>1. m \in guess .. guess + 4 * PerHour
      BY <1>0, <1>1, <1>2, <1>3, <1>8, <2>1, <2>7
    <3>2. DayOf(m + a) = DayOf(x)
      <4>1. /\ {x, m + a, c + b, c + a + PerHour - 1} \subseteq Int
            /\ c + b <= x /\ x <= m + a /\ m + a <= c + a + PerHour - 1
        BY <1>0, <1>1, <1>3, <1>8, <2>1
      <4>2. /\ DayOf(c + b) <= DayOf(x) /\ DayOf(x) <= DayOf(m + a)
            /\ DayOf(m + a) <= DayOf(c + a + PerHour - 1)
            /\ DayOf(x) \in Int /\ DayOf(m + a) \in Int /\ DayOf(c + b) \in Int
        BY <4>1, Days
      <4> QED
        BY <2>7, <4>2
    <3> QED
      BY <2>6, <3>1, <3>2 DEF m
  <2>8. CASE a <= 0 /\ a - b = PerHour
    <3>1. guess = x + PerHour - a /\ guess >= c
      BY <1>0, <1>1, <1>2, <1>8, <2>8
    <3>2. MinuteOf(guess + a) = MinuteOf(x)
      <4>1. guess + a = x + PerHour
        BY <1>0, <1>1, <3>1
      <4> QED
        BY <4>1, NextHour
    <3>3. m = guess
      BY <1>0, <1>1, <1>3, <2>1, <3>1, <3>2
    <3>4. CASE DayOf(m + a) = DayOf(x)
      BY <1>0, <1>3, <2>6, <3>3, <3>4 DEF m
    <3>5. CASE DayOf(m + a) # DayOf(x)
      <4>1. ASSUME NEW i \in guess .. guess + 4 * PerHour
            PROVE  ~(/\ DayOf(GetZonedDateTimeParts(z, i)) = DayOf(x)
                     /\ GetZonedDateTimeParts(z, i) > x)
        <5>1. i \in Int /\ i >= m /\ GetZonedDateTimeParts(z, i) = i + a
          BY <1>0, <1>1, <1>3, <3>1, <3>3
        <5>2. /\ {x, m + a, i + a} \subseteq Int
              /\ x <= m + a /\ m + a <= i + a
          BY <1>0, <1>1, <1>3, <2>1, <5>1
        <5>3. /\ DayOf(x) <= DayOf(m + a) /\ DayOf(m + a) <= DayOf(i + a)
              /\ DayOf(x) \in Int /\ DayOf(m + a) \in Int /\ DayOf(i + a) \in Int
          BY <5>2, Days
        <5> QED
          BY <3>5, <5>1, <5>3
      <4>2. sameMinute = {} /\ future = {}
        BY <1>6, <4>1
      <4> QED
        BY <1>4, <2>2, <3>3, <4>2 DEF m
    <3> QED
      BY <3>4, <3>5
  <2>9. \/ a <= 0 /\ a - b = PerHour
        \/ /\ DayOf(c + a + PerHour - 1) = DayOf(c + b)
           /\ \/ a <= 0 /\ a - b <= PerHour
              \/ b >= 0 /\ a - b <= 3 * PerHour
    <3>1. a - b > 0
      BY <1>1, <1>8
    <3> QED
      BY <3>1, CadenceAssumption DEF ClocksAsToday
  <2> QED
    BY <2>7, <2>8, <2>9
<1> QED
  BY <1>7, <1>8

\* The times of a calendar: a day, and the time of the day.
TimeOn(t, d) == d * Day + Hour(t) * PerHour + Minute(t)

LEMMA TimeFacts ==
    ASSUME NEW t \in Timings, NEW d \in Int
    PROVE  /\ TimeOn(t, d) \in Int /\ d * Day \in Int
           /\ d * Day <= TimeOn(t, d) /\ TimeOn(t, d) < d * Day + Day
           /\ Hour(t) \in Int /\ Minute(t) \in 0 .. PerHour - 1
           /\ MinuteOf(TimeOn(t, d)) = Minute(t)
           /\ \A e \in Int : d < e => TimeOn(t, d) + Day <= TimeOn(t, e)
<1> DEFINE h == Hour(t)
           m == Minute(t)
<1>1. PerHour \in Nat \ {0} /\ Day \in Nat \ {0} /\ Day = 24 * PerHour
  BY Days
<1>2. t.minute \in Int /\ {t.hour} \subseteq Int \cup {Null}
  BY CadenceAssumption
<1>3. h \in 0 .. 23 /\ m \in 0 .. PerHour - 1
  BY <1>1, <1>2 DEF Hour, Minute, ClampOr, Clamp
<1> HIDE DEF h, m
<1>4. h * PerHour \in Int /\ 0 <= h * PerHour /\ h * PerHour <= 23 * PerHour
  <2>1. h < 23 => h * PerHour + PerHour <= 23 * PerHour
    BY <1>1, <1>3, Multiples
  <2>2. 0 < h => 0 * PerHour + PerHour <= h * PerHour
    BY <1>1, <1>3, Multiples
  <2>3. h = 0 => h * PerHour = 0
    BY <1>1
  <2> QED
    BY <1>1, <1>3, <2>1, <2>2, <2>3
<1>5. ASSUME NEW e \in Int
      PROVE  /\ TimeOn(t, e) \in Int /\ e * Day \in Int
             /\ TimeOn(t, e) = e * Day + h * PerHour + m
  BY <1>1, <1>3, <1>4 DEF TimeOn, h, m
<1>6. d * Day <= TimeOn(t, d) /\ TimeOn(t, d) < d * Day + Day
  BY <1>1, <1>3, <1>4, <1>5
<1>7. MinuteOf(TimeOn(t, d)) = m
  <2>1. d * Day = (24 * d) * PerHour
    BY <1>1
  <2>2. (24 * d + h) * PerHour = (24 * d) * PerHour + h * PerHour
    BY <1>1, <1>3, Products
  <2>3. TimeOn(t, d) = (24 * d + h) * PerHour + m
    BY <1>1, <1>3, <1>4, <1>5, <2>1, <2>2
  <2>4. 24 * d + h \in Int
    BY <1>3
  <2> QED
    BY <1>1, <1>3, <2>3, <2>4, DivisionUnique DEF MinuteOf
<1>8. ASSUME NEW e \in Int, d < e
      PROVE  TimeOn(t, d) + Day <= TimeOn(t, e)
  <2> DEFINE k == h * PerHour
             u == d * Day
             v == e * Day
  <2>1. u + Day <= v
    BY <1>1, <1>8, Multiples
  <2>2. TimeOn(t, d) = u + k + m /\ TimeOn(t, e) = v + k + m
    BY <1>5, <1>8
  <2>3. u \in Int /\ v \in Int /\ k \in Int /\ m \in Int
    BY <1>3, <1>4, <1>5, <1>8
  <2> HIDE DEF k, u, v
  <2> QED
    BY <1>1, <2>1, <2>2, <2>3
<1> QED
  BY <1>3, <1>5, <1>6, <1>7, <1>8 DEF h, m

\* The calendar of the property is the same one.
LEMMA RunIsEntry ==
    ASSUME NEW z \in Zones, NEW t \in Timings, NEW d \in Int
    PROVE  RunOfDay(z, t, d) = Entry(z, TimeOn(t, d))
<1> DEFINE a == z.after
           b == z.before
           c == z.change
           x == TimeOn(t, d)
           m == Entry(z, x)
           shown == {i \in Around(x) : GetZonedDateTimeParts(z, i) = x}
           later == {i \in Around(x) :
                       /\ GetZonedDateTimeParts(z, i) > x
                       /\ MinuteOf(GetZonedDateTimeParts(z, i)) = Minute(t)}
<1>1. /\ a \in Int /\ b \in Int /\ c \in Int
      /\ -15 * PerHour <= b /\ b <= 15 * PerHour
      /\ -15 * PerHour <= a /\ a <= 15 * PerHour
      /\ \A i \in Int : GetZonedDateTimeParts(z, i)
                          = IF i < c THEN i + b ELSE i + a
  BY ZoneFacts, Zenon
<1>2. x \in Int /\ MinuteOf(x) = Minute(t)
  BY TimeFacts
<1>3. PerHour \in Nat \ {0} /\ Day \in Nat \ {0} /\ Day = 24 * PerHour
  BY Days
<1>4. RunOfDay(z, t, d) = Min(IF shown # {} THEN shown ELSE later)
  BY DEF RunOfDay, TimeOn
<1> HIDE DEF x
<1>5. m \in Int
  BY <1>2, Shows
<1>6. Around(x) = x - Day .. x + Day
  BY DEF Around
<1> HIDE DEF m, shown, later
<1>7. CASE ~(x >= c + b /\ x < c + a)
  <2>1. GetZonedDateTimeParts(z, m) = x
    BY <1>2, <1>7, Shows DEF m
  <2>2. m = x - a \/ m = x - b
    BY <1>1, <1>2, <1>5, <2>1
  <2>3. m \in shown /\ shown \in SUBSET Int
    BY <1>1, <1>2, <1>3, <1>5, <1>6, <2>1, <2>2 DEF shown
  <2>4. \A i \in shown : m <= i
    BY <1>2, <2>3, Shows DEF m, shown
  <2>5. Min(shown) = m
    BY <2>3, <2>4, MinIs
  <2> QED
    BY <1>4, <2>3, <2>5 DEF m, x
<1>8. CASE x >= c + b /\ x < c + a
  <2>1. /\ m \in c .. c + PerHour - 1 /\ MinuteOf(m + a) = MinuteOf(x)
        /\ x + PerHour <= m + a
        /\ \A i \in Int : i >= c /\ MinuteOf(i + a) = MinuteOf(x) => i >= m
    BY <1>2, <1>8, GapEntry DEF m
  <2>2. shown = {}
    <3>1. \A i \in Int : GetZonedDateTimeParts(z, i) # x
      BY <1>1, <1>2, <1>8
    <3> QED
      BY <1>2, <1>3, <1>6, <3>1 DEF shown
  <2>3. GetZonedDateTimeParts(z, m) = m + a /\ m + a > x
    BY <1>1, <1>2, <1>3, <1>5, <2>1
  <2>4. m \in Around(x)
    <3>1. c <= m /\ m < c + PerHour
      BY <1>1, <1>3, <2>1
    <3>2. x - Day <= m /\ m <= x + Day
      BY <1>1, <1>2, <1>3, <1>5, <1>8, <3>1
    <3> QED
      BY <1>2, <1>3, <1>5, <1>6, <3>2
  <2>5. m \in later /\ later \in SUBSET Int
    BY <1>2, <1>3, <1>6, <2>1, <2>3, <2>4 DEF later
  <2>6. \A i \in later : m <= i
    <3>1. \A i \in Int : GetZonedDateTimeParts(z, i) > x
                           => i >= c /\ GetZonedDateTimeParts(z, i) = i + a
      BY <1>1, <1>2, <1>8
    <3> QED
      BY <1>2, <1>5, <2>1, <2>5, <3>1 DEF later
  <2>7. Min(later) = m
    BY <2>5, <2>6, MinIs
  <2> QED
    BY <1>4, <2>2, <2>7 DEF m, x
<1> QED
  BY <1>7, <1>8

LEMMA EntryFacts ==
    ASSUME NEW z \in Zones, NEW x \in Int
    PROVE  /\ Entry(z, x) \in Int
           /\ x < z.change + z.before => Entry(z, x) = x - z.before
           /\ x >= z.change + z.before /\ x < z.change + z.after
                => z.change <= Entry(z, x) /\ Entry(z, x) < z.change + PerHour
           /\ x >= z.change + z.before /\ x >= z.change + z.after
                => Entry(z, x) = x - z.after
<1>1. /\ z.after \in Int /\ z.before \in Int /\ z.change \in Int
      /\ PerHour \in Nat \ {0}
  BY ZoneFacts, CadenceAssumption, Zenon
<1>2. Entry(z, x) \in Int
  BY Shows
<1>3. x >= z.change + z.before /\ x < z.change + z.after
        => Entry(z, x) \in z.change .. z.change + PerHour - 1
  BY GapEntry
<1>4. /\ x < z.change + z.before => Entry(z, x) = x - z.before
      /\ x >= z.change + z.before /\ x >= z.change + z.after
           => Entry(z, x) = x - z.after
  BY <1>1 DEF Entry
<1> QED
  BY <1>1, <1>2, <1>3, <1>4

\* The entries of a calendar are in its order.
LEMMA EntryOrder ==
    ASSUME NEW z \in Zones, NEW x \in Int, NEW y \in Int, x + Day <= y
    PROVE  Entry(z, x) < Entry(z, y)
<1>1. /\ z.after \in Int /\ z.before \in Int /\ z.change \in Int
      /\ z.before - z.after <= 2 * PerHour /\ z.after - z.before <= 3 * PerHour
  BY ZoneFacts, Zenon
<1>2. PerHour \in Nat \ {0} /\ Day \in Nat \ {0} /\ Day = 24 * PerHour
  BY Days
<1> QED
  BY <1>1, <1>2, EntryFacts

\* Whether a run is still to come can be told from the clock, if the clocks
\* are settled or the last run was one of the calendar.
LEMMA EntryDue ==
    ASSUME NEW z \in Zones, NEW x \in Int, NEW f \in Int,
           \/ Settled(z, f)
           \/ \E y \in Int : /\ f = Entry(z, y)
                             /\ y = x \/ x + Day <= y \/ y + Day <= x
    PROVE  Entry(z, x) > f <=> x > GetZonedDateTimeParts(z, f)
<1> DEFINE a == z.after
           b == z.before
           c == z.change
           m == Entry(z, x)
<1>1. /\ a \in Int /\ b \in Int /\ c \in Int
      /\ b - a <= 2 * PerHour /\ a - b <= 3 * PerHour
      /\ GetZonedDateTimeParts(z, f) = IF f < c THEN f + b ELSE f + a
  BY ZoneFacts, Zenon
<1>2. PerHour \in Nat \ {0} /\ Day \in Nat \ {0} /\ Day = 24 * PerHour
  BY Days
<1>3. /\ m \in Int
      /\ x < c + b => m = x - b
      /\ x >= c + b /\ x < c + a => c <= m /\ m < c + PerHour
      /\ x >= c + b /\ x >= c + a => m = x - a
  BY EntryFacts
<1> HIDE DEF m
<1>4. CASE f < c
  BY <1>1, <1>2, <1>3, <1>4 DEF m
<1>5. CASE f >= c /\ Settled(z, f)
  <2>1. f >= c + 2 * PerHour
    BY <1>1, <1>2, <1>5 DEF Settled
  <2> QED
    BY <1>1, <1>2, <1>3, <1>5, <2>1 DEF m
<1>6. CASE f >= c /\ ~Settled(z, f)
  <2>1. PICK y \in Int : /\ f = Entry(z, y)
                         /\ y = x \/ x + Day <= y \/ y + Day <= x
    BY <1>6
  <2>2. /\ y < c + b => f = y - b
        /\ y >= c + b /\ y < c + a => c <= f /\ f < c + PerHour
        /\ y >= c + b /\ y >= c + a => f = y - a
    BY <2>1, EntryFacts
  <2>3. y >= c + b
    BY <1>1, <1>6, <2>2
  <2>4. CASE y = x
    <3>1. m = f
      BY <2>1, <2>4 DEF m
    <3>2. x <= f + a
      BY <1>1, <1>2, <1>6, <2>2, <2>3, <2>4
    <3> QED
      BY <1>1, <1>3, <1>6, <3>1, <3>2 DEF m
  <2>5. CASE x + Day <= y
    <3>1. m < f
      BY <2>1, <2>5, EntryOrder DEF m
    <3>2. x <= f + a
      BY <1>1, <1>2, <1>6, <2>2, <2>3, <2>5
    <3> QED
      BY <1>1, <1>3, <1>6, <3>1, <3>2 DEF m
  <2>6. CASE y + Day <= x
    <3>1. f < m
      BY <2>1, <2>6, EntryOrder DEF m
    <3>2. x > f + a
      BY <1>1, <1>2, <1>6, <2>2, <2>3, <2>6
    <3> QED
      BY <1>1, <1>3, <1>6, <3>1, <3>2 DEF m
  <2> QED
    BY <2>1, <2>4, <2>5, <2>6
<1> QED
  BY <1>1, <1>4, <1>5, <1>6

\* The first day whose time has not come is that of the next run.
LEMMA NextEntry ==
    ASSUME NEW z \in Zones, NEW t \in Timings, NEW f \in Int,
           NEW D \in SUBSET Int, NEW n \in D,
           \/ Settled(z, f)
           \/ \E d \in Int : f = RunOfDay(z, t, d),
           TimeOn(t, n) > GetZonedDateTimeParts(z, f),
           \A d \in D : d < n => TimeOn(t, d) <= GetZonedDateTimeParts(z, f)
    PROVE  /\ RunOfDay(z, t, n) > f
           /\ \A d \in Int : RunOfDay(z, t, d) \in Int
           /\ \A d \in D : RunOfDay(z, t, d) > f
                            => RunOfDay(z, t, n) <= RunOfDay(z, t, d)
<1> DEFINE L == GetZonedDateTimeParts(z, f)
           R(d) == RunOfDay(z, t, d)
<1>1. L \in Int
  <2>1. /\ z.before \in Int /\ z.after \in Int
        /\ L = IF f < z.change THEN f + z.before ELSE f + z.after
    BY ZoneFacts, Zenon
  <2> QED
    BY <2>1
<1>2. ASSUME NEW d \in Int
      PROVE  /\ R(d) = Entry(z, TimeOn(t, d)) /\ R(d) \in Int
             /\ TimeOn(t, d) \in Int
             /\ R(d) > f <=> TimeOn(t, d) > L
  <2>1. R(d) = Entry(z, TimeOn(t, d)) /\ TimeOn(t, d) \in Int
    BY RunIsEntry, TimeFacts
  <2>2. R(d) \in Int
    BY <2>1, EntryFacts
  <2>3. \/ Settled(z, f)
        \/ \E y \in Int : /\ f = Entry(z, y)
                          /\ \/ y = TimeOn(t, d) \/ TimeOn(t, d) + Day <= y
                             \/ y + Day <= TimeOn(t, d)
    <3>1. ASSUME NEW e \in Int, f = RunOfDay(z, t, e)
          PROVE  \E y \in Int : /\ f = Entry(z, y)
                                /\ \/ y = TimeOn(t, d) \/ TimeOn(t, d) + Day <= y
                                   \/ y + Day <= TimeOn(t, d)
      <4>1. f = Entry(z, TimeOn(t, e)) /\ TimeOn(t, e) \in Int
        BY <3>1, RunIsEntry, TimeFacts
      <4>2. /\ d < e => TimeOn(t, d) + Day <= TimeOn(t, e)
            /\ e < d => TimeOn(t, e) + Day <= TimeOn(t, d)
        BY TimeFacts
      <4>3. d < e \/ e < d \/ e = d
        OBVIOUS
      <4> QED
        BY <4>1, <4>2, <4>3
    <3> QED
      BY <3>1
  <2>4. Entry(z, TimeOn(t, d)) > f <=> TimeOn(t, d) > L
    BY <2>1, <2>3, EntryDue
  <2> QED
    BY <2>1, <2>2, <2>4
<1>3. R(n) > f
  BY <1>2
<1>4. ASSUME NEW d \in D, R(d) > f
      PROVE  R(n) <= R(d)
  <2>1. ~(d < n)
    BY <1>1, <1>2, <1>4
  <2>2. CASE d = n
    BY <1>2, <2>2
  <2>3. CASE n < d
    <3>1. TimeOn(t, n) + Day <= TimeOn(t, d)
      BY <2>3, TimeFacts
    <3>2. Entry(z, TimeOn(t, n)) < Entry(z, TimeOn(t, d))
      BY <1>2, <3>1, EntryOrder
    <3> QED
      BY <1>2, <3>2
  <2> QED
    BY <2>1, <2>2, <2>3
<1> QED
  BY <1>2, <1>3, <1>4

\* The clock shows a time of today.
LEMMA Today ==
    ASSUME NEW z \in Zones, NEW f \in Int
    PROVE  LET reference == GetZonedDateTimeParts(z, f)
               today == DayOf(reference) IN
           /\ reference \in Int /\ today \in Int
           /\ \A t \in Timings : TimeOn(t, today - 1) <= reference
           /\ \A t \in Timings : reference < TimeOn(t, today + 1)
<1> DEFINE reference == GetZonedDateTimeParts(z, f)
           today == DayOf(reference)
<1>1. reference \in Int
  <2>1. /\ z.before \in Int /\ z.after \in Int
        /\ reference = IF f < z.change THEN f + z.before ELSE f + z.after
    BY ZoneFacts, Zenon
  <2> QED
    BY <2>1
<1> HIDE DEF reference
<1>2. /\ today \in Int /\ today * Day \in Int /\ Day \in Nat \ {0}
      /\ today * Day <= reference /\ reference < today * Day + Day
  BY <1>1, Days
<1> HIDE DEF today
<1>3. /\ (today - 1) * Day + Day <= today * Day
      /\ today * Day + Day <= (today + 1) * Day
  BY <1>2, Multiples
<1>4. ASSUME NEW t \in Timings
      PROVE  TimeOn(t, today - 1) <= reference /\ reference < TimeOn(t, today + 1)
  <2> DEFINE p == today - 1
             n == today + 1
  <2>1. p \in Int /\ n \in Int
    BY <1>2
  <2>2. p * Day + Day <= today * Day /\ today * Day + Day <= n * Day
    BY <1>3
  <2> HIDE DEF p, n
  <2>3. /\ TimeOn(t, p) \in Int /\ p * Day \in Int
        /\ TimeOn(t, p) < p * Day + Day
    BY <2>1, TimeFacts
  <2>4. /\ TimeOn(t, n) \in Int /\ n * Day \in Int
        /\ n * Day <= TimeOn(t, n)
    BY <2>1, TimeFacts
  <2>5. TimeOn(t, p) <= reference /\ reference < TimeOn(t, n)
    BY <1>1, <1>2, <2>2, <2>3, <2>4
  <2> QED
    BY <2>5 DEF p, n
<1> QED
  BY <1>1, <1>2, <1>4 DEF reference, today

\* Days of a week: each weekday comes once.
LEMMA WeekFacts ==
    ASSUME NEW d \in Int, NEW w \in 0 .. 6
    PROVE  LET offset == (w - (d % 7)) % 7 IN
           /\ offset \in 0 .. 6 /\ (d + offset) % 7 = w
           /\ (d + offset + 7) % 7 = w
           /\ \A e \in Int : d <= e /\ e % 7 = w => d + offset <= e
           /\ \A e \in Int : e > d + offset /\ e % 7 = w => e >= d + offset + 7
BY Z3

\* The day of the next run.
NextDay(t, z, f) ==
    LET reference == GetZonedDateTimeParts(z, f)
        today == DayOf(reference)
        offset == IF t.cadence = "weekly" THEN (Weekday(t) - (today % 7)) % 7
                  ELSE 0
    IN  IF offset = 0 /\ TimeOn(t, today) <= reference
        THEN today + (IF t.cadence = "weekly" THEN 7 ELSE 1)
        ELSE today + offset

LEMMA NextDayFacts ==
    ASSUME NEW z \in Zones, NEW t \in Timings, NEW f \in Int,
           t.cadence \in {"daily", "weekly"}
    PROVE  LET n == NextDay(t, z, f)
               reference == GetZonedDateTimeParts(z, f) IN
           /\ n \in DaysOf(t, z, f) /\ DaysOf(t, z, f) \in SUBSET Int
           /\ TimeOn(t, n) > reference
           /\ \A d \in DaysOf(t, z, f) : d < n => TimeOn(t, d) <= reference
<1> DEFINE reference == GetZonedDateTimeParts(z, f)
           today == DayOf(reference)
           w == Weekday(t)
           offset == (w - (today % 7)) % 7
           n == NextDay(t, z, f)
           D == DaysOf(t, z, f)
<1>1. /\ reference \in Int /\ today \in Int
      /\ TimeOn(t, today - 1) <= reference /\ reference < TimeOn(t, today + 1)
  BY Today
<1>2. D = {d \in today - 1 .. today + 8 : t.cadence = "weekly" => d % 7 = w}
  BY DEF DaysOf
<1>3. /\ t.cadence = "daily"
           => n = IF TimeOn(t, today) <= reference THEN today + 1 ELSE today
      /\ t.cadence = "weekly"
           => n = IF offset = 0 /\ TimeOn(t, today) <= reference
                  THEN today + 7 ELSE today + offset
  BY <1>1 DEF NextDay
<1>4. w \in 0 .. 6
  <2>1. {t.dayOfWeek} \subseteq Int \cup {Null}
    BY CadenceAssumption
  <2> QED
    BY <2>1 DEF Weekday, ClampOr, Clamp
<1> HIDE DEF reference, today, w, n, D
<1>5. \A d \in Int : TimeOn(t, d) \in Int
  BY TimeFacts
<1>6. ASSUME NEW d \in Int, NEW e \in Int, d < e
      PROVE  TimeOn(t, d) < TimeOn(t, e)
  <2>1. TimeOn(t, d) + Day <= TimeOn(t, e) /\ Day \in Nat \ {0}
    BY <1>6, TimeFacts, Days
  <2> QED
    BY <1>5, <2>1
<1>7. \A d \in Int : d <= today - 1 => TimeOn(t, d) <= reference
  BY <1>1, <1>5, <1>6
<1>8. \A d \in Int : d >= today + 1 => TimeOn(t, d) > reference
  BY <1>1, <1>5, <1>6
<1>9. CASE t.cadence = "daily"
  BY <1>1, <1>2, <1>3, <1>5, <1>7, <1>8, <1>9
     DEF reference, n, D
<1>10. CASE t.cadence = "weekly"
  <2>1. /\ offset \in 0 .. 6 /\ (today + offset) % 7 = w
        /\ (today + offset + 7) % 7 = w
        /\ \A e \in Int : today <= e /\ e % 7 = w => today + offset <= e
        /\ \A e \in Int : e > today + offset /\ e % 7 = w
                            => e >= today + offset + 7
    BY <1>1, <1>4, WeekFacts
  <2> HIDE DEF offset
  <2>2. n \in D /\ D \in SUBSET Int
    BY <1>1, <1>2, <1>3, <1>10, <2>1
  <2>3. TimeOn(t, n) > reference
    BY <1>1, <1>3, <1>5, <1>8, <1>10, <2>1
  <2>4. ASSUME NEW d \in D, d < n
        PROVE  TimeOn(t, d) <= reference
    <3>1. d \in Int /\ d % 7 = w
      BY <1>1, <1>2, <1>10
    <3>2. d <= today - 1 \/ (d = today /\ TimeOn(t, today) <= reference)
      BY <1>1, <1>3, <1>10, <2>1, <2>4, <3>1
    <3> QED
      BY <1>7, <3>1, <3>2
  <2> QED
    BY <2>2, <2>3, <2>4 DEF reference, n, D
<1> QED
  BY <1>9, <1>10

LEMMA TimeShift ==
    ASSUME NEW t \in Timings, NEW d \in Int, NEW k \in Int
    PROVE  TimeOn(t, d + k) = TimeOn(t, d) + k * Day
<1> DEFINE h == Hour(t) * PerHour
           m == Minute(t)
           u == d * Day
           v == k * Day
<1>1. h \in Int /\ m \in Int
  <2>1. Hour(t) \in Int /\ m \in 0 .. PerHour - 1 /\ PerHour \in Nat
    BY TimeFacts, Days
  <2> QED
    BY <2>1
<1>2. (d + k) * Day = u + v /\ u \in Int /\ v \in Int
  BY Products, Days
<1>3. TimeOn(t, d) = u + h + m /\ TimeOn(t, d + k) = (d + k) * Day + h + m
  BY DEF TimeOn
<1> HIDE DEF h, m, u, v
<1>4. TimeOn(t, d + k) = TimeOn(t, d) + v
  BY <1>1, <1>2, <1>3
<1> QED
  BY <1>4 DEF v

\* computeDailyRun and computeWeeklyRun give the run of that day.
LEMMA WallClockRun ==
    ASSUME NEW z \in Zones, NEW t \in Timings, NEW f \in Int,
           t.cadence \in {"daily", "weekly"}
    PROVE  /\ ComputeNextScheduledRun(t, z, f)
                = RunOfDay(z, t, NextDay(t, z, f))
           /\ NextDay(t, z, f) \in Int
           /\ ComputeNextScheduledRun(t, z, f) \in Int
<1> DEFINE reference == GetZonedDateTimeParts(z, f)
           today == DayOf(reference)
           offset == (Weekday(t) - (today % 7)) % 7
           n == NextDay(t, z, f)
<1>1. reference \in Int /\ today \in Int
  BY Today
<1>2. n \in Int /\ n \in DaysOf(t, z, f)
  BY NextDayFacts
<1>3. Day \in Int
  BY Days
<1>4. offset \in Int
  <2>1. {t.dayOfWeek} \subseteq Int \cup {Null}
    BY CadenceAssumption
  <2>2. Weekday(t) \in 0 .. 6
    BY <2>1 DEF Weekday, ClampOr, Clamp
  <2> QED
    BY <1>1, <2>2, WeekFacts
<1>5. CASE t.cadence = "daily"
  <2>1. ComputeNextScheduledRun(t, z, f)
          = ComputeDailyRun(z, Hour(t), Minute(t), f)
    BY <1>5 DEF ComputeNextScheduledRun
  <2>2. ComputeDailyRun(z, Hour(t), Minute(t), f)
          = ResolveLocalDateTime(z, IF TimeOn(t, today) <= reference
                                    THEN TimeOn(t, today) + Day
                                    ELSE TimeOn(t, today))
    BY Zenon DEF ComputeDailyRun, TimeOn
  <2>3. n = IF TimeOn(t, today) <= reference THEN today + 1 ELSE today
    BY <1>1, <1>5 DEF NextDay
  <2>4. TimeOn(t, today + 1) = TimeOn(t, today) + Day
    BY <1>1, <1>3, TimeShift
  <2>5. ComputeNextScheduledRun(t, z, f) = ResolveLocalDateTime(z, TimeOn(t, n))
    BY <2>1, <2>2, <2>3, <2>4
  <2> QED
    BY <1>2, <2>5, ResolveIsEntry, RunIsEntry, TimeFacts, EntryFacts
<1>6. CASE t.cadence = "weekly"
  <2>1. ComputeNextScheduledRun(t, z, f)
          = ComputeWeeklyRun(z, Weekday(t), Hour(t), Minute(t), f)
    BY <1>6 DEF ComputeNextScheduledRun
  <2>2. ComputeWeeklyRun(z, Weekday(t), Hour(t), Minute(t), f)
          = ResolveLocalDateTime(z,
              IF offset = 0 /\ TimeOn(t, today + offset) <= reference
              THEN TimeOn(t, today + offset) + 7 * Day
              ELSE TimeOn(t, today + offset))
    BY Zenon DEF ComputeWeeklyRun, TimeOn, DayOfWeek
  <2>3. n = IF offset = 0 /\ TimeOn(t, today) <= reference
            THEN today + 7 ELSE today + offset
    BY <1>1, <1>6 DEF NextDay
  <2>4. TimeOn(t, today + 7) = TimeOn(t, today) + 7 * Day
    BY <1>1, TimeShift
  <2>5. offset = 0 => today + offset = today
    BY <1>1
  <2> HIDE DEF offset, today, reference
  <2>6. ComputeNextScheduledRun(t, z, f) = ResolveLocalDateTime(z, TimeOn(t, n))
    BY <2>1, <2>2, <2>3, <2>4, <2>5
  <2> QED
    BY <1>2, <2>6, ResolveIsEntry, RunIsEntry, TimeFacts, EntryFacts
<1> QED
  BY <1>5, <1>6

\* computeHourlyRun: the minute comes within two hours.
LEMMA HourlyRun ==
    ASSUME NEW z \in Zones, NEW t \in Timings, NEW f \in Int
    PROVE  LET n == ComputeHourlyRun(z, Minute(t), f) IN
           /\ n \in Int /\ n > f /\ n - f <= 2 * PerHour
           /\ MinuteOf(GetZonedDateTimeParts(z, n)) = Minute(t)
<1> DEFINE a == z.after
           b == z.before
           c == z.change
           m == Minute(t)
           S == {i \in f + 1 .. f + 3 * PerHour :
                   MinuteOf(GetZonedDateTimeParts(z, i)) = m}
<1>1. /\ a \in Int /\ b \in Int /\ c \in Int
      /\ \A i \in Int : GetZonedDateTimeParts(z, i)
                          = IF i < c THEN i + b ELSE i + a
  BY ZoneFacts, Zenon
<1>2. PerHour \in Nat \ {0}
  BY Days
<1>3. m \in Int /\ MinuteOf(m) = m
  <2>1. t.minute \in Int
    BY CadenceAssumption
  <2>2. m \in 0 .. PerHour - 1
    BY <1>2, <2>1 DEF Minute, Clamp
  <2>3. ASSUME NEW q \in Int, q = 0
        PROVE  (q * PerHour + m) % PerHour = m
    BY <1>2, <2>2, DivisionUnique
  <2>4. ASSUME NEW q \in Int, q = 0
        PROVE  q * PerHour + m = m
    BY <1>2, <2>2, <2>4
  <2> QED
    BY <1>2, <2>2, <2>3, <2>4 DEF MinuteOf
<1> HIDE DEF m
<1>4. ASSUME NEW y \in Int, NEW o \in Int
      PROVE  \E i \in y .. y + PerHour - 1 :
                /\ MinuteOf(i + o) = m
                /\ \A j \in Int : j >= y /\ MinuteOf(j + o) = m => j >= i
  <2> DEFINE w == y + o
             n == After(m, w)
  <2>0. w \in Int /\ w = y + o
    OBVIOUS
  <2> HIDE DEF w
  <2>1. /\ n \in w .. w + PerHour - 1 /\ MinuteOf(n) = m
        /\ \A j \in Int : j >= w /\ MinuteOf(j) = m => j >= n
    BY <1>3, <2>0, AfterIs
  <2> HIDE DEF n
  <2>2. n \in Int /\ n - o \in y .. y + PerHour - 1 /\ (n - o) + o = n
    BY <1>2, <2>0, <2>1
  <2>3. ASSUME NEW j \in Int, j >= y, MinuteOf(j + o) = m
        PROVE  j >= n - o
    <3>1. j + o >= n
      BY <2>0, <2>1, <2>3
    <3> QED
      BY <2>2, <3>1
  <2> QED
    BY <2>1, <2>2, <2>3
<1>5. \E i \in f + 1 .. f + 2 * PerHour :
         /\ MinuteOf(GetZonedDateTimeParts(z, i)) = m
         /\ \A j \in S : i <= j
  <2> DEFINE y == f + 1
  <2>0. y \in Int /\ y = f + 1
    OBVIOUS
  <2> HIDE DEF y
  <2>1. CASE f >= c
    <3>1. PICK i \in y .. y + PerHour - 1 :
             /\ MinuteOf(i + a) = m
             /\ \A j \in Int : j >= y /\ MinuteOf(j + a) = m => j >= i
      BY <1>1, <2>0, <1>4
    <3> QED
      BY <1>1, <1>2, <2>0, <2>1, <3>1
  <2>2. CASE f < c
    <3>1. PICK i \in y .. y + PerHour - 1 :
             /\ MinuteOf(i + b) = m
             /\ \A j \in Int : j >= y /\ MinuteOf(j + b) = m => j >= i
      BY <1>1, <2>0, <1>4
    <3>2. CASE i < c
      BY <1>1, <1>2, <2>0, <2>2, <3>1, <3>2
    <3>3. CASE i >= c
      <4>1. PICK k \in c .. c + PerHour - 1 :
               /\ MinuteOf(k + a) = m
               /\ \A j \in Int : j >= c /\ MinuteOf(j + a) = m => j >= k
        BY <1>1, <1>4
      <4>2. k \in f + 1 .. f + 2 * PerHour
        BY <1>1, <1>2, <2>0, <2>2, <3>1, <3>3, <4>1
      <4>3. MinuteOf(GetZonedDateTimeParts(z, k)) = m
        BY <1>1, <4>1
      <4>4. ASSUME NEW j \in S
            PROVE  k <= j
        BY <1>1, <1>2, <2>0, <2>2, <3>1, <3>3, <4>1
      <4> QED
        BY <4>2, <4>3, <4>4
    <3> QED
      BY <1>1, <1>2, <2>0, <3>1, <3>2, <3>3
  <2> QED
    BY <1>1, <2>1, <2>2
<1>6. PICK i \in f + 1 .. f + 2 * PerHour :
         /\ MinuteOf(GetZonedDateTimeParts(z, i)) = m
         /\ \A j \in S : i <= j
  BY <1>5
<1>7. i \in S /\ S \in SUBSET Int
  BY <1>2, <1>6
<1>8. ComputeHourlyRun(z, Minute(t), f) = i
  <2>1. ComputeHourlyRun(z, Minute(t), f) = Min(S)
    BY DEF ComputeHourlyRun, m
  <2> HIDE DEF S
  <2> QED
    BY <1>6, <1>7, <2>1, MinIs
<1> QED
  BY <1>2, <1>6, <1>8 DEF m

\* What computeNextScheduledRun returns, whatever the cadence.
LEMMA NextRun ==
    ASSUME NEW z \in Zones, NEW t \in Timings, NEW f \in Int
    PROVE  LET n == ComputeNextScheduledRun(t, z, f) IN
           /\ n \in Int
           /\ t.cadence \in {"daily", "weekly"}
                => \E d \in Int : n = RunOfDay(z, t, d)
           /\ t.cadence \notin {"daily", "weekly"} => n > f
           /\ t.cadence = "hourly" =>
                /\ MinuteOf(GetZonedDateTimeParts(z, n)) = Minute(t)
                /\ n - f <= 2 * PerHour
<1> DEFINE n == ComputeNextScheduledRun(t, z, f)
<1>1. CASE t.cadence \in {"daily", "weekly"}
  BY <1>1, WallClockRun
<1>2. CASE t.cadence = "minutely"
  BY <1>2 DEF ComputeNextScheduledRun, ComputeMinutelyRun
<1>3. CASE t.cadence = "custom"
  <2> DEFINE k == ClampOr(t.intervalMinutes, 1, 7 * Day, 1)
  <2>1. {t.intervalMinutes} \subseteq Int \cup {Null} /\ Day \in Nat \ {0}
    BY CadenceAssumption, Days
  <2>2. k \in Int /\ k >= 1
    BY <2>1 DEF ClampOr, Clamp
  <2>3. n = f + 1 + (k - 1)
    BY <1>3 DEF ComputeNextScheduledRun, ComputeCustomIntervalRun,
                ComputeMinutelyRun
  <2> HIDE DEF k
  <2> QED
    BY <1>3, <2>2, <2>3
<1>4. CASE t.cadence \notin {"daily", "weekly", "minutely", "custom"}
  <2>1. n = ComputeHourlyRun(z, Minute(t), f)
    BY <1>4 DEF ComputeNextScheduledRun
  <2> QED
    BY <1>4, <2>1, HourlyRun
<1> QED
  BY <1>1, <1>2, <1>3, <1>4

\* nextRunAt was computed from an instant that is, for the runs after the
\* first one, in the calendar of the zone itself.
CadenceInv ==
    /\ zone \in Zones /\ timing \in Timings /\ from \in Int
    /\ nextRunAt = ComputeNextScheduledRun(timing, zone, from)
    /\ chained /\ timing.cadence \in {"daily", "weekly"}
         => \E d \in Int : from = RunOfDay(zone, timing, d)

LEMMA CadenceInit == CadInit => CadenceInv
BY CadenceAssumption DEF CadInit, CadenceInv

LEMMA CadenceNext == CadenceInv /\ [Advance]_cadVars => CadenceInv'
<1> SUFFICES ASSUME CadenceInv, [Advance]_cadVars PROVE CadenceInv'
  OBVIOUS
<1>1. CASE Advance
  <2>1. nextRunAt \in Int
    BY NextRun DEF CadenceInv
  <2>2. timing.cadence \in {"daily", "weekly"}
          => \E d \in Int : nextRunAt = RunOfDay(zone, timing, d)
    BY NextRun DEF CadenceInv
  <2>3. /\ from' = nextRunAt /\ zone' = zone /\ timing' = timing
        /\ nextRunAt' = ComputeNextScheduledRun(timing, zone, nextRunAt)
    BY <1>1 DEF Advance
  <2> QED
    BY <2>1, <2>2, <2>3 DEF CadenceInv
<1>2. CASE UNCHANGED cadVars
  BY <1>2 DEF CadenceInv, cadVars
<1> QED
  BY <1>1, <1>2

\* The runs of a schedule are the calendar of its zone, whatever the clocks do
\* within what ClocksAsToday says of them: computeNextScheduledRun, applied to
\* the run before or at a time at which the clocks are settled, returns the
\* next entry, comes to no day twice and leaves none out.
THEOREM CalendarHolds == CadSpec => []CalendarKept
<1>1. CadenceInv => CalendarKept
  <2> SUFFICES ASSUME CadenceInv, chained \/ Settled(zone, from)
               PROVE  /\ nextRunAt > from
                      /\ timing.cadence \in {"daily", "weekly"} =>
                           nextRunAt =
                             Min({r \in {RunOfDay(zone, timing, d) :
                                           d \in DaysOf(timing, zone, from)} :
                                    r > from})
                      /\ timing.cadence = "hourly" =>
                           /\ MinuteOf(GetZonedDateTimeParts(zone, nextRunAt))
                                = Minute(timing)
                           /\ nextRunAt - from <= 2 * PerHour
    BY DEF CalendarKept
  <2>1. /\ zone \in Zones /\ timing \in Timings /\ from \in Int
        /\ nextRunAt = ComputeNextScheduledRun(timing, zone, from)
    BY DEF CadenceInv
  <2>2. CASE timing.cadence \notin {"daily", "weekly"}
    BY <2>1, <2>2, NextRun
  <2>3. CASE timing.cadence \in {"daily", "weekly"}
    <3> DEFINE n == NextDay(timing, zone, from)
               D == DaysOf(timing, zone, from)
    <3>1. nextRunAt = RunOfDay(zone, timing, n)
      BY <2>1, <2>3, WallClockRun
    <3>2. /\ n \in D /\ D \in SUBSET Int
          /\ TimeOn(timing, n) > GetZonedDateTimeParts(zone, from)
          /\ \A d \in D : d < n =>
                TimeOn(timing, d) <= GetZonedDateTimeParts(zone, from)
      BY <2>1, <2>3, NextDayFacts
    <3>3. \/ Settled(zone, from)
          \/ \E d \in Int : from = RunOfDay(zone, timing, d)
      BY <2>3 DEF CadenceInv
    <3> HIDE DEF n, D
    <3>4. /\ nextRunAt > from
          /\ nextRunAt = Min({r \in {RunOfDay(zone, timing, d) : d \in D} :
                                r > from})
      <4> DEFINE S == {r \in {RunOfDay(zone, timing, d) : d \in D} : r > from}
      <4>1. /\ RunOfDay(zone, timing, n) > from
            /\ \A d \in Int : RunOfDay(zone, timing, d) \in Int
            /\ \A d \in D : RunOfDay(zone, timing, d) > from =>
                  RunOfDay(zone, timing, n) <= RunOfDay(zone, timing, d)
        BY <2>1, <3>2, <3>3, NextEntry
      <4>2. /\ nextRunAt > from /\ nextRunAt \in S /\ S \in SUBSET Int
            /\ \A s \in S : nextRunAt <= s
        BY <3>1, <3>2, <4>1
      <4> HIDE DEF S
      <4>3. Min(S) = nextRunAt
        BY <4>2, MinIs
      <4> QED
        BY <4>2, <4>3 DEF S
    <3> QED
      BY <2>3, <3>4 DEF D
  <2> QED
    BY <2>2, <2>3
<1> QED
  BY <1>1, CadenceInit, CadenceNext, PTL DEF CadSpec
=============================================================================
