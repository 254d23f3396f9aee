---------------------------- MODULE PlatformProofs ----------------------------
(***************************************************************************)
(* Proofs about Installation, PlatformUpdates and Enrollments.             *)
(***************************************************************************)
EXTENDS Installation, PlatformUpdates, Enrollments, TLAPS

-----------------------------------------------------------------------------
(* Installation: the inductive invariant.                                    *)

JobStates ==
    {NoJob} \cup
    [pc : {"probe", "migrate", "transact", "admins", "spaces", "members", "files"}, d : Dtos]

\* The rows that a request has stored stay.
JobRows(q) ==
    /\ jobs[q].pc \in {"spaces", "members", "files"} => jobs[q].d \in dbRows["admins"]
    /\ jobs[q].pc \in {"members", "files"} => jobs[q].d \in dbRows["spaces"]
    /\ jobs[q].pc = "files" => jobs[q].d \in dbRows["members"]

Complete == dbRows["admins"] \cap dbRows["spaces"] \cap dbRows["members"] # {}

\* A process that runs installed has found the install state and a key.
Installed(p) ==
    /\ {"mode", "key"} \subseteq DOMAIN proc[p]
    /\ proc[p].mode = "installed" => inst # "none" /\ firstKey # NoKey

\* Unless installations overlap, one runs at a time and none after the files
\* are written.
OneInstall ==
    /\ \A q, k \in Installs : jobs[q] # NoJob /\ jobs[k] # NoJob => q = k
    /\ \A q \in Installs : jobs[q] # NoJob => inst = "none"

InsInv ==
    /\ InsTypeOK /\ ownKey \in Keys /\ disturbed \in BOOLEAN
    /\ jobs \in [Installs -> JobStates] /\ DOMAIN proc = Both
    /\ \A q \in Installs : JobRows(q)
    /\ inst # "none" => Complete
    /\ firstKey # NoKey => inst # "none"
    /\ \A p \in Both : Installed(p)
    /\ ~disturbed => OneInstall /\ KeyStaysTheSame

LEMMA NoJobIdle == NoJob.pc = "idle" /\ NoJob \in JobStates
  BY DEF NoJob, JobStates

\* The state of a request that goes on, and of one that is over.
LEMMA StepMade ==
    ASSUME InsInv, NEW q \in Installs, jobs[q] # NoJob,
           NEW pc \in {"probe", "migrate", "transact", "admins", "spaces", "members", "files"},
           Step(q, pc)
    PROVE  \E j \in JobStates : /\ jobs' = [jobs EXCEPT ![q] = j]
                                /\ j.pc = pc /\ j.d = jobs[q].d
<1>1. PICK j : j = [jobs[q] EXCEPT !.pc = pc]
  OBVIOUS
<1>2. jobs[q] \in [pc : {"probe", "migrate", "transact", "admins", "spaces", "members", "files"},
                   d : Dtos]
  BY DEF InsInv, JobStates
<1>3. DOMAIN jobs[q] = {"pc", "d"}
  BY <1>2
<1>4. j.pc = pc /\ j.d = jobs[q].d
  BY <1>1, <1>3, Zenon
<1>5. j \in [pc : {"probe", "migrate", "transact", "admins", "spaces", "members", "files"}, d : Dtos]
  BY <1>1, <1>2, Zenon
<1>6. jobs' = [jobs EXCEPT ![q] = j]
  BY <1>1 DEF Step
<1> QED
  BY <1>4, <1>5, <1>6 DEF JobStates

\* A step of one request that leaves files and processes alone.
LEMMA JobInv ==
    ASSUME InsInv, NEW q \in Installs, NEW j \in JobStates,
           jobs' = [jobs EXCEPT ![q] = j],
           UNCHANGED <<ownKey, inst, secrets, trans, restart, proc, firstKey>>,
           schema' \in {"none", "marked", "partial", "full"},
           dbRows' \in [{"admins", "spaces", "members"} -> SUBSET Dtos],
           \A t \in {"admins", "spaces", "members"} : dbRows[t] \subseteq dbRows'[t],
           JobRows(q)', disturbed' \in BOOLEAN, disturbed => disturbed',
           \/ disturbed' \/ j = NoJob \/ jobs[q] # NoJob
           \/ inst = "none" /\ \A k \in Installs : jobs[k] = NoJob
    PROVE  InsInv'
<1>1. /\ jobs' \in [Installs -> JobStates] /\ jobs'[q] = j
      /\ \A k \in Installs : k # q => jobs'[k] = jobs[k]
  BY DEF InsInv
<1>2. InsTypeOK'
  BY DEF InsInv, InsTypeOK
<1>3. \A k \in Installs : JobRows(k)'
  BY <1>1 DEF InsInv, JobRows
<1>4. inst' # "none" => Complete'
  BY DEF InsInv, Complete
<1>5. \A p \in Both : Installed(p)'
  BY DEF InsInv, Installed
<1>6. ASSUME ~disturbed' PROVE OneInstall' /\ KeyStaysTheSame'
  <2>1. OneInstall /\ KeyStaysTheSame
    BY <1>6 DEF InsInv
  <2>2. OneInstall'
    BY <1>1, <1>6, <2>1 DEF OneInstall
  <2>3. KeyStaysTheSame'
    BY <1>6, <2>1 DEF KeyStaysTheSame, KeyAtBoot, InsInv
  <2> QED
    BY <2>2, <2>3
<1> QED
  BY <1>1, <1>2, <1>3, <1>4, <1>5, <1>6 DEF InsInv

\* What a process that starts takes from the files.
Booted(w) ==
    /\ {"mode", "key"} \subseteq DOMAIN w
    /\ w.mode \in {"setup", "installed", "legacy"} /\ w.key = KeyAtBoot
    /\ w.mode = "installed" => inst # "none" /\ KeyAtBoot # NoKey
    /\ firstKey' = IF firstKey = NoKey /\ w.mode = "installed" THEN KeyAtBoot
                   ELSE firstKey

LEMMA BootMade ==
    ASSUME NEW p \in Both, NEW role, NEW state, Boot(p, role, state)
    PROVE  \E w : proc' = [proc EXCEPT ![p] = w] /\ Booted(w)
<1>1. PICK found : 
         LET mode == ResolveBootMode(role, found) IN
         /\ mode = "installed" => schema = "full" /\ KeyAtBoot # NoKey
         /\ proc' = [proc EXCEPT ![p] =
               [mode |-> mode, role |-> role, cfg |-> Prefer(ownCfg, state),
                key |-> KeyAtBoot, scheduled |-> FALSE]]
         /\ firstKey' = IF firstKey = NoKey /\ mode = "installed"
                        THEN KeyAtBoot ELSE firstKey
  BY DEF Boot
<1>2. PICK mode : mode = ResolveBootMode(role, found)
  OBVIOUS
<1>3. /\ mode \in {"setup", "installed", "legacy"}
      /\ mode = "installed" => inst # "none"
  BY <1>2 DEF ResolveBootMode
<1>4. PICK w : w = [mode |-> mode, role |-> role, cfg |-> Prefer(ownCfg, state),
                    key |-> KeyAtBoot, scheduled |-> FALSE]
  OBVIOUS
<1>5. w.mode = mode /\ w.key = KeyAtBoot /\ {"mode", "key"} \subseteq DOMAIN w
  BY <1>4
<1>6. proc' = [proc EXCEPT ![p] = w]
  BY <1>1, <1>2, <1>4
<1>7. Booted(w)
  BY <1>1, <1>2, <1>3, <1>5 DEF Booted
<1> QED
  BY <1>6, <1>7

LEMMA KeysTyped ==
    ASSUME InsInv
    PROVE  KeyAtBoot \in Keys /\ NoKey \in Keys /\ secrets.key \in Keys
  BY DEF InsInv, InsTypeOK, KeyAtBoot, Keys

\* A process starts; the requests of the setup may end with the one before it.
LEMMA BootInv ==
    ASSUME InsInv, NEW p \in Both, NEW role, NEW state, Boot(p, role, state),
           UNCHANGED <<ownKey, schema, dbRows, inst, secrets, disturbed>>,
           trans' \in BOOLEAN, restart' \subseteq Both,
           jobs' = jobs \/ jobs' = [q \in Installs |-> NoJob]
    PROVE  InsInv'
<1>1. PICK w : proc' = [proc EXCEPT ![p] = w] /\ Booted(w)
  BY BootMade
<1>2. DOMAIN proc' = Both /\ proc'[p] = w /\ \A x \in Both : x # p => proc'[x] = proc[x]
  BY <1>1 DEF InsInv
<1>3. /\ firstKey' \in Keys /\ w.key \in Keys
      /\ w.mode \in {"off", "setup", "installed", "legacy"}
  BY <1>1, KeysTyped DEF Booted, InsInv, InsTypeOK
<1>4. InsTypeOK'
  BY <1>2, <1>3 DEF InsInv, InsTypeOK
<1>5. jobs' \in [Installs -> JobStates] /\ \A q \in Installs : JobRows(q)'
  BY NoJobIdle DEF InsInv, JobRows
<1>6. (inst' # "none" => Complete') /\ (firstKey' # NoKey => inst' # "none")
  BY <1>1 DEF InsInv, Complete, Booted
<1>7. \A x \in Both : Installed(x)'
  BY <1>1, <1>2 DEF InsInv, Installed, Booted
<1>8. ASSUME ~disturbed PROVE OneInstall' /\ KeyStaysTheSame'
  <2>1. OneInstall /\ KeyStaysTheSame
    BY <1>8 DEF InsInv
  <2>2. OneInstall'
    BY <2>1 DEF OneInstall
  <2>3. KeyAtBoot' = KeyAtBoot
    BY DEF KeyAtBoot
  <2>4. ASSUME firstKey' # NoKey
        PROVE  /\ KeyAtBoot = firstKey'
               /\ \A x \in Both : proc'[x].mode = "installed" => proc'[x].key = firstKey'
    <3>1. CASE firstKey = NoKey
      <4>1. \A x \in Both : proc[x].mode # "installed"
        BY <3>1 DEF InsInv, Installed
      <4>2. w.mode = "installed" /\ firstKey' = KeyAtBoot
        BY <1>1, <2>4, <3>1 DEF Booted
      <4> QED
        BY <1>1, <1>2, <4>1, <4>2 DEF Booted
    <3>2. CASE firstKey # NoKey
      <4>1. /\ KeyAtBoot = firstKey /\ firstKey' = firstKey
            /\ \A x \in Both : proc[x].mode = "installed" => proc[x].key = firstKey
        BY <1>1, <1>8, <2>1, <3>2 DEF KeyStaysTheSame, Booted
      <4> QED
        BY <1>1, <1>2, <4>1 DEF Booted
    <3> QED
      BY <3>1, <3>2
  <2> QED
    BY <2>2, <2>3, <2>4 DEF KeyStaysTheSame
<1> QED
  BY <1>2, <1>4, <1>5, <1>6, <1>7, <1>8 DEF InsInv

LEMMA BootFirstInv == ASSUME InsInv, BootFirst PROVE InsInv'
<1>1. /\ \E role : Boot(Setup, role, inst)
      /\ UNCHANGED <<ownKey, schema, dbRows, inst, secrets, disturbed, trans,
                     restart, jobs>>
      /\ Setup \in Both
  BY DEF BootFirst, Both
<1>2. trans' \in BOOLEAN /\ restart' \subseteq Both
  BY <1>1 DEF InsInv, InsTypeOK
<1> QED
  BY <1>1, <1>2, BootInv

LEMMA PromoteInv == ASSUME InsInv, NEW p \in Both, Promote(p) PROVE InsInv'
<1>1. /\ \E role : Boot(p, role, inst)
      /\ UNCHANGED <<ownKey, schema, dbRows, inst, secrets, disturbed, trans, restart>>
      /\ jobs' = jobs \/ jobs' = [q \in Installs |-> NoJob]
  BY DEF Promote
<1>2. trans' \in BOOLEAN /\ restart' \subseteq Both
  BY <1>1 DEF InsInv, InsTypeOK
<1> QED
  BY <1>1, <1>2, BootInv

LEMMA RecreateInv == ASSUME InsInv, NEW p \in Both, Recreate(p) PROVE InsInv'
<1>1. /\ Boot(p, "runtime_ha", inst)
      /\ UNCHANGED <<ownKey, schema, dbRows, inst, secrets, disturbed, trans, jobs>>
      /\ restart' \subseteq restart
  BY DEF Recreate
<1>2. trans' \in BOOLEAN /\ restart' \subseteq Both
  BY <1>1 DEF InsInv, InsTypeOK
<1>3. jobs' = jobs \/ jobs' = [q \in Installs |-> NoJob]
  BY <1>1
<1>4. UNCHANGED <<ownKey, schema, dbRows, inst, secrets, disturbed>>
  BY <1>1
<1>5. PICK role : Boot(p, role, inst)
  BY <1>1
<1> QED
  BY <1>2, <1>3, <1>4, <1>5, BootInv

\* Nothing that the invariant speaks of changes but the mark that a process has
\* asked for a restart.
LEMMA MarkedInv ==
    ASSUME InsInv, UNCHANGED <<ownKey, schema, dbRows, inst, secrets, jobs, disturbed,
                               firstKey>>,
           trans' \in BOOLEAN, restart' \subseteq Both, DOMAIN proc' = Both,
           \A x \in Both : /\ proc'[x].mode = proc[x].mode /\ proc'[x].key = proc[x].key
                           /\ DOMAIN proc'[x] = DOMAIN proc[x]
    PROVE  InsInv'
<1>1. InsTypeOK' /\ \A x \in Both : Installed(x)'
  BY DEF InsInv, InsTypeOK, Installed
<1>2. (inst' # "none" => Complete') /\ \A q \in Installs : JobRows(q)'
  BY DEF InsInv, Complete, JobRows
<1>3. ~disturbed' => OneInstall' /\ KeyStaysTheSame'
  <2>1. KeyAtBoot' = KeyAtBoot
    BY DEF KeyAtBoot
  <2> QED
    BY <2>1 DEF InsInv, OneInstall, KeyStaysTheSame
<1> QED
  BY <1>1, <1>2, <1>3 DEF InsInv

LEMMA EndPromotionInv == ASSUME InsInv, EndPromotion PROVE InsInv'
<1>1. /\ UNCHANGED <<ownKey, schema, dbRows, inst, secrets, jobs, disturbed, firstKey,
                     proc, restart>>
      /\ trans' = FALSE
  BY DEF EndPromotion
<1>2. /\ trans' \in BOOLEAN /\ restart' \subseteq Both /\ DOMAIN proc' = Both
      /\ \A x \in Both : /\ proc'[x].mode = proc[x].mode /\ proc'[x].key = proc[x].key
                         /\ DOMAIN proc'[x] = DOMAIN proc[x]
  BY <1>1 DEF InsInv, InsTypeOK
<1> QED
  BY <1>1, <1>2, MarkedInv

LEMMA ScheduleApiRestartInv ==
    ASSUME InsInv, NEW p \in Both, ScheduleApiRestart(p) PROVE InsInv'
<1>1. /\ UNCHANGED <<ownKey, schema, dbRows, inst, secrets, trans, jobs, disturbed>>
      /\ proc[p].mode = "installed"
  BY DEF ScheduleApiRestart
<1>2. trans' \in BOOLEAN
  BY <1>1 DEF InsInv, InsTypeOK
<1>3. CASE proc[p].role = "runtime_ha"
  <2>1. /\ restart' = Both /\ firstKey' = firstKey
        /\ proc' = [proc EXCEPT ![p].scheduled = TRUE]
    BY <1>3 DEF ScheduleApiRestart
  <2>2. PICK w : w = [proc[p] EXCEPT !.scheduled = TRUE]
    OBVIOUS
  <2>3. proc' = [proc EXCEPT ![p] = w]
    BY <2>1, <2>2
  <2>4. "mode" \in DOMAIN proc[p] /\ "key" \in DOMAIN proc[p]
    BY DEF InsInv, Installed
  <2>5. w.mode = proc[p].mode /\ w.key = proc[p].key /\ DOMAIN w = DOMAIN proc[p]
    BY <2>2, <2>4, Zenon
  <2>6. /\ DOMAIN proc' = Both
        /\ \A x \in Both : /\ proc'[x].mode = proc[x].mode /\ proc'[x].key = proc[x].key
                           /\ DOMAIN proc'[x] = DOMAIN proc[x]
    BY <2>3, <2>5 DEF InsInv
  <2> QED
    BY <1>1, <1>2, <2>1, <2>6, MarkedInv
<1>4. CASE proc[p].role # "runtime_ha"
  <2>1. Boot(p, proc[p].role, inst) /\ restart' = restart
    BY <1>4 DEF ScheduleApiRestart
  <2>2. PICK role : Boot(p, role, inst)
    BY <2>1
  <2>3. restart' \subseteq Both /\ (jobs' = jobs \/ jobs' = [q \in Installs |-> NoJob])
    BY <1>1, <2>1 DEF InsInv, InsTypeOK
  <2> QED
    BY <1>1, <1>2, <2>2, <2>3, BootInv
<1> QED
  BY <1>3, <1>4

LEMMA RowsTyped ==
    ASSUME InsInv
    PROVE  /\ schema \in {"none", "marked", "partial", "full"} /\ disturbed \in BOOLEAN
           /\ dbRows \in [{"admins", "spaces", "members"} -> SUBSET Dtos]
  BY DEF InsInv, InsTypeOK

LEMMA OpenInv == ASSUME InsInv, NEW q \in Installs, Open(q) PROVE InsInv'
<1>1. /\ UNCHANGED <<ownKey, inst, secrets, trans, restart, proc, firstKey, schema, dbRows>>
      /\ disturbed' = (disturbed \/ \E k \in Installs : jobs[k] # NoJob)
      /\ inst = "none"
  BY DEF Open, InsRest, AssertSetupOpen
<1>2. PICK d \in Dtos : jobs' = [jobs EXCEPT ![q] = [pc |-> "probe", d |-> d]]
  BY DEF Open
<1>3. PICK j : j = [pc |-> "probe", d |-> d]
  OBVIOUS
<1>4. j \in JobStates /\ j.pc = "probe" /\ jobs' = [jobs EXCEPT ![q] = j]
  BY <1>2, <1>3 DEF JobStates
<1>5. JobRows(q)'
  BY <1>4 DEF JobRows, InsInv
<1>6. /\ disturbed' \in BOOLEAN /\ (disturbed => disturbed')
      /\ \/ disturbed' \/ j = NoJob \/ jobs[q] # NoJob
         \/ inst = "none" /\ \A k \in Installs : jobs[k] = NoJob
  BY <1>1, RowsTyped
<1>7. /\ schema' \in {"none", "marked", "partial", "full"}
      /\ dbRows' \in [{"admins", "spaces", "members"} -> SUBSET Dtos]
      /\ \A t \in {"admins", "spaces", "members"} : dbRows[t] \subseteq dbRows'[t]
  BY <1>1, RowsTyped
<1> QED
  BY <1>1, <1>4, <1>5, <1>6, <1>7, JobInv

\* A request ends, or takes a step that stores nothing.
LEMMA PlainJobInv ==
    ASSUME InsInv, NEW q \in Installs, NEW j \in JobStates, jobs[q] # NoJob,
           jobs' = [jobs EXCEPT ![q] = j], j.pc \notin {"spaces", "members", "files"},
           InsRest, schema' \in {"none", "marked", "partial", "full"},
           UNCHANGED <<dbRows, disturbed>>
    PROVE  InsInv'
<1>1. UNCHANGED <<ownKey, inst, secrets, trans, restart, proc, firstKey>>
  BY DEF InsRest
<1>2. JobRows(q)'
  BY DEF JobRows, InsInv
<1>3. /\ disturbed' \in BOOLEAN /\ (disturbed => disturbed')
      /\ \/ disturbed' \/ j = NoJob \/ jobs[q] # NoJob
         \/ inst = "none" /\ \A k \in Installs : jobs[k] = NoJob
  BY RowsTyped
<1>4. /\ dbRows' \in [{"admins", "spaces", "members"} -> SUBSET Dtos]
      /\ \A t \in {"admins", "spaces", "members"} : dbRows[t] \subseteq dbRows'[t]
  BY RowsTyped
<1> QED
  BY <1>1, <1>2, <1>3, <1>4, JobInv

LEMMA ProbePostgresInv ==
    ASSUME InsInv, NEW q \in Installs, ProbePostgres(q) PROVE InsInv'
<1>1. /\ jobs[q].pc = "probe" /\ InsRest
      /\ schema' = schema /\ UNCHANGED <<dbRows, disturbed>>
      /\ Step(q, "migrate") \/ jobs' = [jobs EXCEPT ![q] = NoJob]
  BY DEF ProbePostgres, At
<1>2. jobs[q] # NoJob /\ schema' \in {"none", "marked", "partial", "full"}
  BY <1>1, NoJobIdle, RowsTyped
<1>3. PICK j \in JobStates : /\ jobs' = [jobs EXCEPT ![q] = j]
                             /\ j.pc \notin {"spaces", "members", "files"}
  <2>1. CASE Step(q, "migrate")
    <3>1. PICK j \in JobStates : /\ jobs' = [jobs EXCEPT ![q] = j] /\ j.pc = "migrate"
      BY <1>2, <2>1, StepMade
    <3> QED
      BY <3>1
  <2>2. CASE jobs' = [jobs EXCEPT ![q] = NoJob]
    BY <2>2, NoJobIdle
  <2> QED
    BY <1>1, <2>1, <2>2
<1> QED
  BY <1>1, <1>2, <1>3, PlainJobInv

LEMMA CreateMigrationsTableInv ==
    ASSUME InsInv, NEW q \in Installs, CreateMigrationsTable(q) PROVE InsInv'
<1>1. /\ jobs[q].pc = "migrate" /\ InsRest /\ Step(q, "transact")
      /\ schema' \in {"marked", schema} /\ UNCHANGED <<dbRows, disturbed>>
  BY DEF CreateMigrationsTable, At
<1>2. jobs[q] # NoJob /\ schema' \in {"none", "marked", "partial", "full"}
  BY <1>1, NoJobIdle, RowsTyped
<1>3. PICK j \in JobStates : jobs' = [jobs EXCEPT ![q] = j] /\ j.pc = "transact"
  BY <1>1, <1>2, StepMade
<1>4. j.pc \notin {"spaces", "members", "files"}
  BY <1>3
<1> QED
  BY <1>1, <1>2, <1>3, <1>4, PlainJobInv

LEMMA RunMigrationsInv ==
    ASSUME InsInv, NEW q \in Installs, RunMigrations(q) PROVE InsInv'
<1>1. /\ jobs[q].pc = "transact" /\ InsRest /\ Step(q, "admins")
      /\ schema' = "full" /\ UNCHANGED <<dbRows, disturbed>>
  BY DEF RunMigrations, At
<1>2. jobs[q] # NoJob /\ schema' \in {"none", "marked", "partial", "full"}
  BY <1>1, NoJobIdle
<1>3. PICK j \in JobStates : jobs' = [jobs EXCEPT ![q] = j] /\ j.pc = "admins"
  BY <1>1, <1>2, StepMade
<1>4. j.pc \notin {"spaces", "members", "files"}
  BY <1>3
<1> QED
  BY <1>1, <1>2, <1>3, <1>4, PlainJobInv

LEMMA MigrationsFailInv ==
    ASSUME InsInv, NEW q \in Installs, MigrationsFail(q) PROVE InsInv'
<1>1. /\ jobs[q].pc = "transact" /\ jobs' = [jobs EXCEPT ![q] = NoJob]
      /\ UNCHANGED <<ownKey, inst, secrets, trans, restart, proc, firstKey>>
      /\ UNCHANGED <<schema, dbRows, disturbed>>
  BY DEF MigrationsFail, At
<1>2. /\ schema' \in {"none", "marked", "partial", "full"}
      /\ dbRows' \in [{"admins", "spaces", "members"} -> SUBSET Dtos]
      /\ \A t \in {"admins", "spaces", "members"} : dbRows[t] \subseteq dbRows'[t]
      /\ disturbed' \in BOOLEAN /\ (disturbed => disturbed')
  BY <1>1, RowsTyped
<1>3. JobRows(q)'
  BY <1>1, NoJobIdle DEF JobRows, InsInv
<1>4. PICK j \in JobStates : j = NoJob
  BY NoJobIdle
<1>5. jobs' = [jobs EXCEPT ![q] = j]
  BY <1>1, <1>4
<1>6. \/ disturbed' \/ j = NoJob \/ jobs[q] # NoJob
      \/ inst = "none" /\ \A k \in Installs : jobs[k] = NoJob
  BY <1>4
<1> QED
  BY <1>1, <1>2, <1>3, <1>5, <1>6, JobInv

LEMMA SaveRowInv == ASSUME InsInv, NEW q \in Installs, SaveRow(q) PROVE InsInv'
<1>1. PICK table \in {"admins", "spaces", "members"} :
         /\ At(q, table)
         /\ IF jobs[q].d \in dbRows[table]
            THEN /\ jobs' = [jobs EXCEPT ![q] = NoJob]
                 /\ UNCHANGED dbRows
            ELSE /\ dbRows' = [dbRows EXCEPT ![table] = @ \cup {jobs[q].d}]
                 /\ Step(q, After[table])
         /\ InsRest /\ UNCHANGED <<schema, spoilt, disturbed>>
  BY DEF SaveRow, After
<1>2. jobs[q].pc = table /\ jobs[q] # NoJob
  BY <1>1, NoJobIdle DEF At
<1>3. schema' \in {"none", "marked", "partial", "full"}
  BY <1>1, RowsTyped
<1>4. CASE jobs[q].d \in dbRows[table]
  <2>1. PICK j \in JobStates : j = NoJob
    BY NoJobIdle
  <2>2. /\ jobs' = [jobs EXCEPT ![q] = j] /\ UNCHANGED <<dbRows, disturbed>>
        /\ j.pc \notin {"spaces", "members", "files"} /\ InsRest
    BY <1>1, <1>4, <2>1, NoJobIdle
  <2> QED
    BY <1>2, <1>3, <2>2, PlainJobInv
<1>5. CASE jobs[q].d \notin dbRows[table]
  <2>1. PICK next : next = After[table]
    OBVIOUS
  <2>2. /\ next \in {"spaces", "members", "files"}
        /\ table = "admins" <=> next = "spaces"
        /\ table = "spaces" <=> next = "members"
        /\ table = "members" <=> next = "files"
    BY <2>1 DEF After
  <2>3. /\ dbRows' = [dbRows EXCEPT ![table] = @ \cup {jobs[q].d}]
        /\ Step(q, next)
    BY <1>1, <1>5, <2>1
  <2>4. PICK j \in JobStates : /\ jobs' = [jobs EXCEPT ![q] = j]
                               /\ j.pc = next /\ j.d = jobs[q].d
    BY <1>2, <2>2, <2>3, StepMade
  <2>5. jobs[q].d \in Dtos
    BY <1>2 DEF InsInv, JobStates
  <2>6. /\ dbRows' \in [{"admins", "spaces", "members"} -> SUBSET Dtos]
        /\ \A t \in {"admins", "spaces", "members"} : dbRows[t] \subseteq dbRows'[t]
        /\ jobs[q].d \in dbRows'[table]
    BY <2>3, <2>5, RowsTyped
  <2>7. JobRows(q)'
    <3>1. JobRows(q) /\ jobs'[q] = j
      BY <2>4 DEF InsInv
    <3> QED
      BY <1>2, <2>2, <2>4, <2>6, <3>1 DEF JobRows
  <2>8. /\ disturbed' \in BOOLEAN /\ (disturbed => disturbed')
        /\ UNCHANGED <<ownKey, inst, secrets, trans, restart, proc, firstKey>>
        /\ \/ disturbed' \/ j = NoJob \/ jobs[q] # NoJob
           \/ inst = "none" /\ \A k \in Installs : jobs[k] = NoJob
    BY <1>1, <1>2, RowsTyped DEF InsRest
  <2> QED
    BY <1>3, <2>4, <2>6, <2>7, <2>8, JobInv
<1> QED
  BY <1>4, <1>5

\* The secrets that an installation writes.
LEMMA EnvBuilt ==
    ASSUME InsInv, NEW q \in Installs, jobs[q].pc = "files"
    PROVE  /\ BuildRuntimeEnv(q) \in [cfg : {"none", "safe", "unsafe"}, key : Keys]
           /\ Complete
<1>1. jobs[q].d \in Dtos
  BY NoJobIdle DEF InsInv, JobStates
<1>2. BuildRuntimeEnv(q).key \in Keys
  BY <1>1 DEF BuildRuntimeEnv, InsInv, Keys
<1>3. BuildRuntimeEnv(q) \in [cfg : {"none", "safe", "unsafe"}, key : Keys]
  BY <1>1 DEF BuildRuntimeEnv, InsInv, Keys
<1>4. Complete
  BY DEF InsInv, JobRows, Complete
<1> QED
  BY <1>3, <1>4

LEMMA WriteFilesInv == ASSUME InsInv, NEW q \in Installs, WriteFiles(q) PROVE InsInv'
<1>1. /\ UNCHANGED <<ownKey, schema, dbRows, restart, proc, disturbed, firstKey>>
      /\ inst' = "safe" /\ trans' = TRUE /\ jobs[q].pc = "files"
      /\ secrets' = BuildRuntimeEnv(q)
      /\ jobs' = [jobs EXCEPT ![q] = NoJob]
  BY DEF WriteFiles, ReadyForFiles, At
<1>2. Complete /\ secrets' \in [cfg : {"none", "safe", "unsafe"}, key : Keys]
  BY <1>1, EnvBuilt
<1>3. InsTypeOK'
  BY <1>1, <1>2 DEF InsInv, InsTypeOK
<1>4. /\ jobs' \in [Installs -> JobStates] /\ jobs'[q] = NoJob
      /\ \A k \in Installs : k # q => jobs'[k] = jobs[k]
  BY <1>1, NoJobIdle DEF InsInv
<1>5. \A k \in Installs : JobRows(k)'
  BY <1>1, <1>4, NoJobIdle DEF InsInv, JobRows
<1>6. Complete' /\ \A p \in Both : Installed(p)'
  BY <1>1, <1>2 DEF InsInv, Complete, Installed
<1>7. ASSUME ~disturbed PROVE OneInstall' /\ KeyStaysTheSame'
  <2>1. OneInstall /\ jobs[q] # NoJob
    BY <1>1, <1>7, NoJobIdle DEF InsInv
  <2>2. \A k \in Installs : jobs'[k] = NoJob
    BY <1>4, <2>1 DEF OneInstall
  <2>3. firstKey = NoKey
    BY <2>1 DEF OneInstall, InsInv
  <2> QED
    BY <1>1, <2>2, <2>3 DEF OneInstall, KeyStaysTheSame
<1> QED
  BY <1>1, <1>3, <1>4, <1>5, <1>6, <1>7 DEF InsInv

LEMMA SetupDiesInv == ASSUME InsInv, SetupDies PROVE InsInv'
<1>1. /\ UNCHANGED <<ownKey, schema, dbRows, trans, restart, firstKey>>
      /\ jobs' = [q \in Installs |-> NoJob]
      /\ \/ UNCHANGED <<inst, secrets, disturbed>>
         \/ \E q \in Installs :
               /\ jobs[q].pc = "files" /\ inst' = "safe"
               /\ secrets' \in {secrets, BuildRuntimeEnv(q)} /\ disturbed' = TRUE
  BY DEF SetupDies, At
<1>2. PICK w : /\ w = [Down EXCEPT !.role = proc[Setup].role]
               /\ proc' = [proc EXCEPT ![Setup] = w]
  BY DEF SetupDies
<1>3. w.mode = "off" /\ w.key = NoKey /\ {"mode", "key"} \subseteq DOMAIN w
  BY <1>2 DEF Down
<1>4. /\ DOMAIN proc' = Both /\ proc'[Setup] = w
      /\ \A x \in Both : x # Setup => proc'[x] = proc[x]
  BY <1>2 DEF InsInv, Both
<1>5. /\ secrets' \in [cfg : {"none", "safe", "unsafe"}, key : Keys]
      /\ inst' \in {"none", "safe", "unsafe"} /\ disturbed' \in BOOLEAN
      /\ (inst' # "none" => Complete) /\ (inst # "none" => inst' # "none")
  <2>1. CASE UNCHANGED <<inst, secrets, disturbed>>
    BY <2>1 DEF InsInv, InsTypeOK
  <2>2. ASSUME NEW q \in Installs, jobs[q].pc = "files", inst' = "safe",
               secrets' \in {secrets, BuildRuntimeEnv(q)}, disturbed' = TRUE
        PROVE  /\ secrets' \in [cfg : {"none", "safe", "unsafe"}, key : Keys]
               /\ Complete
    BY <2>2, EnvBuilt DEF InsInv, InsTypeOK
  <2>3. \/ UNCHANGED <<inst, secrets, disturbed>>
        \/ /\ inst' = "safe" /\ disturbed' = TRUE /\ Complete
           /\ secrets' \in [cfg : {"none", "safe", "unsafe"}, key : Keys]
    BY <1>1, <2>2
  <2> QED
    BY <2>1, <2>3
<1>6. InsTypeOK'
  BY <1>1, <1>3, <1>4, <1>5, KeysTyped DEF InsInv, InsTypeOK
<1>7. jobs' \in [Installs -> JobStates] /\ \A q \in Installs : JobRows(q)'
  BY <1>1, NoJobIdle DEF JobRows
<1>8. /\ inst' # "none" => Complete'
      /\ firstKey' # NoKey => inst' # "none"
      /\ \A x \in Both : Installed(x)'
  BY <1>1, <1>3, <1>4, <1>5 DEF InsInv, Complete, Installed
<1>9. ASSUME ~disturbed' PROVE OneInstall' /\ KeyStaysTheSame'
  <2>1. UNCHANGED <<inst, secrets, disturbed>> /\ ~disturbed
    BY <1>1, <1>9
  <2>2. KeyStaysTheSame /\ KeyAtBoot' = KeyAtBoot
    BY <1>1, <2>1 DEF InsInv, KeyAtBoot
  <2>3. KeyStaysTheSame'
    BY <1>1, <1>3, <1>4, <2>1, <2>2 DEF KeyStaysTheSame
  <2> QED
    BY <1>1, <2>3 DEF OneInstall
<1> QED
  BY <1>1, <1>4, <1>5, <1>6, <1>7, <1>8, <1>9 DEF InsInv

LEMMA UpdateSettingsInv ==
    ASSUME InsInv, NEW p \in Both, NEW v \in {"safe", "unsafe"}, NEW torn \in BOOLEAN,
           UpdateSettings(p, v, torn)
    PROVE  InsInv'
<1>1. /\ UNCHANGED <<ownKey, schema, dbRows, trans, restart, jobs>>
      /\ inst # "none" /\ inst' = v
      /\ secrets' = IF torn THEN secrets ELSE [cfg |-> v, key |-> secrets.key]
      /\ torn => disturbed' = TRUE /\ Boot(p, proc[p].role, v)
      /\ ~torn => UNCHANGED <<disturbed, proc, firstKey>>
  BY DEF UpdateSettings, IsEditableDeployment, ReadCurrentRuntimeEnv
<1>2. /\ secrets' \in [cfg : {"none", "safe", "unsafe"}, key : Keys]
      /\ secrets'.key = secrets.key
  BY <1>1, KeysTyped DEF InsInv, InsTypeOK
<1>3. jobs' \in [Installs -> JobStates] /\ \A q \in Installs : JobRows(q)'
  BY <1>1 DEF InsInv, JobRows
<1>4. Complete' /\ inst' # "none"
  BY <1>1 DEF InsInv, Complete
<1>5. KeyAtBoot' = KeyAtBoot
  BY <1>1, <1>2 DEF KeyAtBoot
<1>6. CASE torn
  <2>1. PICK w : proc' = [proc EXCEPT ![p] = w] /\ Booted(w)
    BY <1>1, <1>6, BootMade
  <2>2. DOMAIN proc' = Both /\ proc'[p] = w /\ \A x \in Both : x # p => proc'[x] = proc[x]
    BY <2>1 DEF InsInv
  <2>3. /\ firstKey' \in Keys /\ w.key \in Keys
        /\ w.mode \in {"off", "setup", "installed", "legacy"}
    BY <2>1, KeysTyped DEF Booted, InsInv, InsTypeOK
  <2>4. InsTypeOK'
    BY <1>1, <1>2, <2>2, <2>3 DEF InsInv, InsTypeOK
  <2>5. \A x \in Both : Installed(x)'
    BY <1>4, <2>1, <2>2 DEF InsInv, Installed, Booted
  <2> QED
    BY <1>1, <1>3, <1>4, <1>6, <2>2, <2>4, <2>5 DEF InsInv
<1>7. CASE ~torn
  <2>1. InsTypeOK' /\ \A x \in Both : Installed(x)'
    BY <1>1, <1>2, <1>4, <1>7 DEF InsInv, InsTypeOK, Installed
  <2>2. ~disturbed => OneInstall' /\ KeyStaysTheSame'
    BY <1>1, <1>5, <1>7 DEF InsInv, OneInstall, KeyStaysTheSame
  <2> QED
    BY <1>1, <1>3, <1>4, <1>7, <2>1, <2>2 DEF InsInv
<1> QED
  BY <1>6, <1>7

LEMMA InsInitInv == InsInit => InsInv
<1> SUFFICES ASSUME InsInit PROVE InsInv
  OBVIOUS
<1>1. /\ ownKey \in {NoKey, OwnKey} /\ schema \in {"none", "marked", "partial", "full"}
      /\ dbRows = NoRows /\ inst = "none" /\ secrets = NoSecrets /\ trans = FALSE
      /\ restart = {} /\ proc = [p \in Both |-> Down]
      /\ jobs = [q \in Installs |-> NoJob] /\ disturbed = FALSE /\ firstKey = NoKey
  BY DEF InsInit
<1>2. NoRows \in [{"admins", "spaces", "members"} -> SUBSET Dtos]
  BY DEF NoRows
<1>3. NoSecrets \in [cfg : {"none", "safe", "unsafe"}, key : Keys]
  BY DEF NoSecrets, Keys
<1>4. Down.mode = "off" /\ Down.key = NoKey /\ {"mode", "key"} \subseteq DOMAIN Down
  BY DEF Down
<1>5. InsTypeOK
  BY <1>1, <1>2, <1>3, <1>4 DEF InsTypeOK, Keys
<1>6. jobs \in [Installs -> JobStates] /\ \A q \in Installs : JobRows(q)
  BY <1>1, NoJobIdle DEF JobRows
<1>7. \A p \in Both : Installed(p)
  BY <1>1, <1>4 DEF Installed
<1>8. OneInstall /\ KeyStaysTheSame
  BY <1>1 DEF OneInstall, KeyStaysTheSame
<1> QED
  BY <1>1, <1>5, <1>6, <1>7, <1>8 DEF InsInv, Keys

LEMMA InsStepInv == InsInv /\ [InsNext]_insVars => InsInv'
<1> SUFFICES ASSUME InsInv, [InsNext]_insVars PROVE InsInv'
  OBVIOUS
<1>1. CASE UNCHANGED insVars
  <2>1. /\ UNCHANGED <<ownKey, schema, dbRows, inst, secrets, jobs, disturbed, firstKey>>
        /\ trans' \in BOOLEAN /\ restart' \subseteq Both /\ DOMAIN proc' = Both
        /\ \A x \in Both : /\ proc'[x].mode = proc[x].mode /\ proc'[x].key = proc[x].key
                           /\ DOMAIN proc'[x] = DOMAIN proc[x]
    BY <1>1 DEF insVars, InsInv, InsTypeOK
  <2> QED
    BY <2>1, MarkedInv
<1>2. ASSUME NEW q \in Installs, Open(q) \/ InstallStep(q) \/ MigrationsFail(q)
      PROVE  InsInv'
  BY <1>2, OpenInv, ProbePostgresInv, CreateMigrationsTableInv, RunMigrationsInv,
     MigrationsFailInv, SaveRowInv, WriteFilesInv DEF InstallStep
<1>3. ASSUME NEW p \in Both,
             \/ Promote(p) \/ ScheduleApiRestart(p) \/ Recreate(p)
             \/ \E v \in {"safe", "unsafe"}, torn \in BOOLEAN : UpdateSettings(p, v, torn)
      PROVE  InsInv'
  BY <1>3, PromoteInv, ScheduleApiRestartInv, RecreateInv, UpdateSettingsInv
<1> QED
  BY <1>1, <1>2, <1>3, BootFirstInv, SetupDiesInv, EndPromotionInv DEF InsNext

\* Whatever overlaps or dies, and whatever settings are saved: a process that
\* boots as installed finds an admin of the default workspace, and the same
\* encryption key as the first one, unless the files were torn
\* (install of setup.service.ts, resolveBootMode, updateSettings).
THEOREM InstallationStarts == InsSpec => []InstallationConsistent
<1>1. InsInv => InstallationConsistent
  <2> SUFFICES ASSUME InsInv PROVE InstallationConsistent
    OBVIOUS
  <2>1. InstalledIsComplete
    BY DEF InsInv, Installed, Complete, InstalledIsComplete
  <2>2. KeyStaysTheSame
    BY DEF InsInv, KeyStaysTheSame
  <2> QED
    BY <2>1, <2>2 DEF InsInv, InstallationConsistent
<1> QED
  BY <1>1, InsInitInv, InsStepInv, PTL DEF InsSpec

-----------------------------------------------------------------------------
(* Updates: the inductive invariant.                                         *)

WorkStates ==
    [pc : {"idle", "feed", "rollout", "request"}, op : Operations \cup {"none"},
     s : StateFiles, r : RequestFiles]

\* What is prepared was downloaded, and so was what is to be applied.
FileOK(s) == s.prep \in Downloaded \cup {NoRelease}

RequestOK(r) == r.op = "apply" => r.target \in Downloaded

WorkOK(w) ==
    /\ FileOK(w.s) /\ RequestOK(w.r)
    /\ w.pc = "rollout" => w.r.op = "apply"

DownloadsFirst ==
    /\ \A p \in Procs : running[p] \in Downloaded /\ WorkOK(work[p])
    /\ FileOK(upd) /\ FileOK(monitor) /\ RequestOK(reqf) /\ RequestOK(sup)

\* A state that does not hide a request.
Shows(s) == s = NoFile \/ s.st \in {"queued", "busy"}

\* Whoever has found no operation is right, and between the two writes of a
\* request nobody else is at work.
Heedful(w) ==
    /\ w.pc = "feed" => ConcurrentOperation(w.s, w.r) \/ reqf = NoRequest
    /\ w.pc = "rollout" => reqf = NoRequest
    /\ w.pc = "request" =>
          /\ reqf = NoRequest /\ sup = NoRequest /\ monitor = NoFile
          /\ upd = NoFile \/ (upd.st = "queued" /\ ~upd.old)

\* A request is shown, and while one waits the supervisor and the monitor have
\* nothing in hand.
OneWriter ==
    /\ reqf # NoRequest => Shows(upd) /\ sup = NoRequest /\ monitor = NoFile
    /\ \A p \in Procs : Heedful(work[p])

UpdInv ==
    /\ UpdTypeOK /\ work \in [Procs -> WorkStates] /\ crossed \in BOOLEAN
    /\ DownloadsFirst
    /\ ~crossed => OneWriter

-----------------------------------------------------------------------------
(* Updates: the state files that the code makes out of others.               *)

Fields == {"op", "st", "target", "prep", "old", "audited"}

File(o, st, t, p, old, a) ==
    [op |-> o, st |-> st, target |-> t, prep |-> p, old |-> old, audited |-> a]

\* Age
LEMMA AgedFile ==
    ASSUME NEW s \in StateFiles
    PROVE  [s EXCEPT !.old = TRUE]
              = File(s.op, s.st, s.target, s.prep, TRUE, s.audited)
<1>1. DOMAIN s = Fields
  BY DEF StateFiles, NoFile, Fields
<1>2. PICK w : w = [s EXCEPT !.old = TRUE]
  OBVIOUS
<1>3. w = [x \in Fields |-> w[x]]
  BY <1>1, <1>2, Zenon
<1>4. w.op = s.op /\ w.st = s.st /\ w.target = s.target /\ w.prep = s.prep /\ w.old = TRUE /\ w.audited = s.audited
  BY <1>1, <1>2, Zenon DEF Fields
<1>5. w = File(s.op, s.st, s.target, s.prep, TRUE, s.audited)
  BY <1>3, <1>4 DEF File, Fields
<1> QED BY <1>2, <1>5, Zenon

\* reconcileTerminalAuditState
LEMMA AuditedFile ==
    ASSUME NEW s \in StateFiles
    PROVE  [s EXCEPT !.audited = TRUE]
              = File(s.op, s.st, s.target, s.prep, s.old, TRUE)
<1>1. DOMAIN s = Fields
  BY DEF StateFiles, NoFile, Fields
<1>2. PICK w : w = [s EXCEPT !.audited = TRUE]
  OBVIOUS
<1>3. w = [x \in Fields |-> w[x]]
  BY <1>1, <1>2, Zenon
<1>4. w.op = s.op /\ w.st = s.st /\ w.target = s.target /\ w.prep = s.prep /\ w.old = s.old /\ w.audited = TRUE
  BY <1>1, <1>2, Zenon DEF Fields
<1>5. w = File(s.op, s.st, s.target, s.prep, s.old, TRUE)
  BY <1>3, <1>4 DEF File, Fields
<1> QED BY <1>2, <1>5, Zenon

\* reconcileStaleActiveApplyState gives an application up.
LEMMA FailedFile ==
    ASSUME NEW s \in StateFiles
    PROVE  [s EXCEPT !.st = "failed"]
              = File(s.op, "failed", s.target, s.prep, s.old, s.audited)
<1>1. DOMAIN s = Fields
  BY DEF StateFiles, NoFile, Fields
<1>2. PICK w : w = [s EXCEPT !.st = "failed"]
  OBVIOUS
<1>3. w = [x \in Fields |-> w[x]]
  BY <1>1, <1>2, Zenon
<1>4. w.op = s.op /\ w.st = "failed" /\ w.target = s.target /\ w.prep = s.prep /\ w.old = s.old /\ w.audited = s.audited
  BY <1>1, <1>2, Zenon DEF Fields
<1>5. w = File(s.op, "failed", s.target, s.prep, s.old, s.audited)
  BY <1>3, <1>4 DEF File, Fields
<1> QED BY <1>2, <1>5, Zenon

\* reconcileStaleActiveApplyState finds an application installed.
LEMMA CompletedFile ==
    ASSUME NEW s \in StateFiles
    PROVE  [s EXCEPT !.st = "completed", !.prep = NoRelease]
              = File(s.op, "completed", s.target, NoRelease, s.old, s.audited)
<1>1. DOMAIN s = Fields
  BY DEF StateFiles, NoFile, Fields
<1>2. PICK w : w = [s EXCEPT !.st = "completed", !.prep = NoRelease]
  OBVIOUS
<1>3. w = [x \in Fields |-> w[x]]
  BY <1>1, <1>2, Zenon
<1>4. w.op = s.op /\ w.st = "completed" /\ w.target = s.target /\ w.prep = NoRelease /\ w.old = s.old /\ w.audited = s.audited
  BY <1>1, <1>2, Zenon DEF Fields
<1>5. w = File(s.op, "completed", s.target, NoRelease, s.old, s.audited)
  BY <1>3, <1>4 DEF File, Fields
<1> QED BY <1>2, <1>5, Zenon

\* The supervisor takes a request.
LEMMA StartedFile ==
    ASSUME NEW s \in StateFiles, NEW r \in RequestFiles
    PROVE  [s EXCEPT !.op = r.op, !.st = "busy", !.target = r.target,
                      !.old = FALSE, !.audited = FALSE]
              = File(r.op, "busy", r.target, s.prep, FALSE, FALSE)
<1>1. DOMAIN s = Fields
  BY DEF StateFiles, NoFile, Fields
<1>2. PICK w : w = [s EXCEPT !.op = r.op, !.st = "busy", !.target = r.target,
                      !.old = FALSE, !.audited = FALSE]
  OBVIOUS
<1>3. w = [x \in Fields |-> w[x]]
  BY <1>1, <1>2, Zenon
<1>4. w.op = r.op /\ w.st = "busy" /\ w.target = r.target /\ w.prep = s.prep /\ w.old = FALSE /\ w.audited = FALSE
  BY <1>1, <1>2, Zenon DEF Fields
<1>5. w = File(r.op, "busy", r.target, s.prep, FALSE, FALSE)
  BY <1>3, <1>4 DEF File, Fields
<1> QED BY <1>2, <1>5, Zenon

-----------------------------------------------------------------------------
(* Updates: what a summary makes of the files.                               *)

\* A summary keeps the request or drops it, and keeps the state, drops it, or
\* ends an old application whose request it drops.
LEMMA ReconciledFiles ==
    ASSUME UpdTypeOK, NEW p \in Procs
    PROVE  /\ Reconciled(p).s \in StateFiles
           /\ Reconciled(p).r \in {reqf, NoRequest}
           /\ Reconciled(p).s.prep \in {upd.prep, NoRelease}
           /\ Reconciled(p).s \in {upd, NoFile} \/ Reconciled(p).r = NoRequest
           /\ ~upd.old => Reconciled(p).s \in {upd, NoFile}
<1>1. upd \in StateFiles /\ NoFile \in StateFiles
  BY DEF UpdTypeOK, StateFiles
<1>2. PICK f : f = ReconcileStaleNoopApplyState(p, upd, reqf)
  OBVIOUS
<1>3. f.s \in {upd, NoFile} /\ f.r \in {reqf, NoRequest}
  BY <1>2 DEF ReconcileStaleNoopApplyState, Files
<1>4. f.s \in StateFiles /\ f.s.prep \in {upd.prep, NoRelease} /\ (~upd.old => ~f.s.old)
  <2>1. ~NoFile.old /\ NoFile.prep = NoRelease
    BY DEF NoFile
  <2>2. CASE f.s = upd
    BY <2>2, <1>1, Zenon
  <2>3. CASE f.s = NoFile
    BY <2>3, <2>1, <1>1, Zenon
  <2> QED BY <1>3, <2>2, <2>3
<1>5. PICK g : g = ReconcileStaleActiveApplyState(p, f.s, f.r)
  OBVIOUS
<1>6. Reconciled(p) = g
  BY <1>2, <1>5 DEF Reconciled
<1>7. PICK done : done = [f.s EXCEPT !.st = "completed", !.prep = NoRelease]
  OBVIOUS
<1>8. PICK failed : failed = [f.s EXCEPT !.st = "failed"]
  OBVIOUS
<1>9. \/ g = Files(f.s, f.r)
      \/ f.s.op = "apply" /\ f.s.old /\ g \in {Files(done, NoRequest), Files(failed, NoRequest)}
  BY <1>5, <1>7, <1>8, Zenon DEF ReconcileStaleActiveApplyState
<1>10. done = File(f.s.op, "completed", f.s.target, NoRelease, f.s.old, f.s.audited)
  BY <1>4, <1>7, CompletedFile
<1>11. failed = File(f.s.op, "failed", f.s.target, f.s.prep, f.s.old, f.s.audited)
  BY <1>4, <1>8, FailedFile
<1>12. CASE g = Files(f.s, f.r)
  BY <1>12, <1>6, <1>3, <1>4 DEF Files
<1>13. CASE f.s.op = "apply" /\ f.s.old /\ g \in {Files(done, NoRequest), Files(failed, NoRequest)}
  <2>1. g.r = NoRequest /\ g.s \in {done, failed}
    BY <1>13 DEF Files
  <2>2. f.s # NoFile /\ upd.old
    BY <1>13, <1>4 DEF NoFile
  <2>3. /\ f.s.op \in Operations /\ f.s.target \in Releases
        /\ f.s.prep \in Releases \cup {NoRelease} /\ f.s.old \in BOOLEAN
        /\ f.s.audited \in BOOLEAN
    BY <1>4, <2>2 DEF StateFiles
  <2>4. /\ done \in StateFiles /\ failed \in StateFiles
        /\ done.prep = NoRelease /\ failed.prep = f.s.prep
    BY <1>10, <1>11, <2>3 DEF File, StateFiles, Statuses
  <2> QED BY <1>6, <1>4, <2>1, <2>2, <2>4
<1> QED BY <1>9, <1>12, <1>13

LEMMA ReconciledPrepared ==
    ASSUME UpdTypeOK, FileOK(upd), NEW p \in Procs
    PROVE  FileOK(Reconciled(p).s)
BY ReconciledFiles DEF FileOK

\* A request that a summary keeps is shown in what it keeps of the state.
LEMMA ReconciledShows ==
    ASSUME UpdTypeOK, OneWriter, NEW p \in Procs, Reconciled(p).r # NoRequest
    PROVE  /\ Shows(Reconciled(p).s) /\ reqf # NoRequest
           /\ ConcurrentOperation(Reconciled(p).s, Reconciled(p).r)
<1>1. reqf # NoRequest /\ Shows(upd) /\ Reconciled(p).s \in {upd, NoFile}
  BY ReconciledFiles DEF OneWriter
<1>2. Shows(Reconciled(p).s)
  BY <1>1 DEF Shows
<1> QED BY <1>1, <1>2 DEF Shows, ConcurrentOperation

-----------------------------------------------------------------------------
(* Updates: the steps.                                                       *)

LEMMA Empty ==
    /\ NoFile \in StateFiles /\ NoRequest \in RequestFiles
    /\ NoFile.op = "none" /\ NoFile.st = "none" /\ NoFile.prep = NoRelease /\ ~NoFile.old
    /\ NoRequest.op = "none"
    /\ Unasked \in WorkStates /\ Unasked.pc = "idle"
    /\ Unasked.s = NoFile /\ Unasked.r = NoRequest
<1>1. NoFile \in StateFiles /\ NoRequest \in RequestFiles
  BY DEF StateFiles, RequestFiles
<1>2. NoFile.op = "none" /\ NoFile.st = "none" /\ NoFile.prep = NoRelease /\ ~NoFile.old
  BY DEF NoFile
<1>3. NoRequest.op = "none"
  BY DEF NoRequest
<1>4. Unasked.pc = "idle" /\ Unasked.s = NoFile /\ Unasked.r = NoRequest
  BY DEF Unasked
<1>5. Unasked \in WorkStates
  BY <1>1 DEF Unasked, WorkStates
<1> QED BY <1>1, <1>2, <1>3, <1>4, <1>5

\* What counts as downloaded stays so, unless a release gets another id.
LEMMA DownloadedKept ==
    ASSUME have \subseteq have', replaced => replaced'
    PROVE  Downloaded \subseteq Downloaded'
BY DEF Downloaded

LEMMA DownloadedSame ==
    ASSUME UNCHANGED <<have, replaced>>
    PROVE  Downloaded' = Downloaded
BY DEF Downloaded

\* The manifest names a release of a version that counts as downloaded.
LEMMA HydratedDownloaded ==
    ASSUME NEW l \in Downloaded \cup {NoRelease}, NEW h \in Hydrated(l),
           have' = have, replaced' = (replaced \/ h # l)
    PROVE  h \in Downloaded' \cup {NoRelease}
<1>1. CASE l = NoRelease
  BY <1>1 DEF Hydrated
<1>2. CASE l # NoRelease
  <2>1. h \in Releases /\ VersionOf[h] = VersionOf[l] /\ l \in Downloaded
    BY <1>2 DEF Hydrated
  <2> QED BY <2>1 DEF Downloaded
<1> QED BY <1>1, <1>2

LEMMA UpdInitInv == UpdInit => UpdInv
<1> SUFFICES ASSUME UpdInit PROVE UpdInv
  OBVIOUS
<1>1. UpdTypeOK /\ work \in [Procs -> WorkStates] /\ crossed \in BOOLEAN
  BY UpdatesAssumption, Empty DEF UpdInit, UpdTypeOK
<1>2. DownloadsFirst
  BY UpdatesAssumption, Empty DEF UpdInit, DownloadsFirst, FileOK, RequestOK, WorkOK, Downloaded
<1>3. OneWriter
  BY Empty DEF UpdInit, OneWriter, Heedful
<1> QED BY <1>1, <1>2, <1>3 DEF UpdInv

\* What a process may have in hand after a step of its own.
LEMMA WorkChanges ==
    ASSUME UpdInv, NEW p \in Procs, NEW w \in WorkStates, GoOn(p, w)
    PROVE  /\ work' \in [Procs -> WorkStates]
           /\ work'[p] = w
           /\ \A q \in Procs \ {p} : work'[q] = work[q]
BY DEF UpdInv, GoOn

LEMMA IdleOK ==
    ASSUME NEW p \in Procs
    PROVE  WorkOK(Unasked)' /\ Heedful(Unasked)'
BY Empty DEF WorkOK, Heedful, FileOK, RequestOK

\* A summary, with what the process has in hand after it.
LEMMA SummaryKeeps ==
    ASSUME UpdInv, NEW p \in Procs, ReadFiles(p),
           UNCHANGED <<running, monitor, sup, have, replaced, crossed>>,
           feed' = feed, cache' \in [Procs -> Releases \cup {NoRelease}],
           work' \in [Procs -> WorkStates],
           \A q \in Procs \ {p} : work'[q] = work[q],
           work'[p] # work[p] =>
              /\ work'[p].pc = "feed" /\ work'[p].s = Reconciled(p).s
              /\ work'[p].r = Reconciled(p).r
    PROVE  UpdInv'
<1>1. /\ UpdTypeOK /\ DownloadsFirst /\ crossed \in BOOLEAN /\ work \in [Procs -> WorkStates]
      /\ ~crossed => OneWriter
  BY DEF UpdInv
<1>2. upd' = Reconciled(p).s /\ reqf' = Reconciled(p).r
  BY DEF ReadFiles
<1>3. UpdTypeOK'
  BY <1>1, <1>2, ReconciledFiles, Empty DEF UpdTypeOK
<1>4. FileOK(upd)' /\ RequestOK(reqf)' /\ Downloaded' = Downloaded
  BY <1>1, <1>2, DownloadedSame, ReconciledFiles, Empty DEF DownloadsFirst, FileOK, RequestOK
<1>5. ASSUME NEW q \in Procs PROVE WorkOK(work[q])'
  <2>1. CASE work'[q] = work[q]
    BY <2>1, <1>1, <1>4 DEF DownloadsFirst, WorkOK, FileOK, RequestOK
  <2>2. CASE work'[q] # work[q]
    BY <2>2, <1>4, <1>2 DEF WorkOK, FileOK, RequestOK
  <2> QED BY <2>1, <2>2
<1>6. DownloadsFirst'
  BY <1>1, <1>4, <1>5 DEF DownloadsFirst, FileOK, RequestOK
<1>7. ASSUME ~crossed' PROVE OneWriter'
  <2>1. OneWriter
    BY <1>1, <1>7
  <2>2. reqf' # NoRequest => Shows(upd)' /\ reqf # NoRequest
                             /\ ConcurrentOperation(Reconciled(p).s, Reconciled(p).r)
    BY <2>1, <1>1, <1>2, ReconciledShows DEF Shows
  <2>3. ASSUME NEW q \in Procs PROVE Heedful(work[q])'
    <3>1. CASE work'[q] = work[q]
      <4>1. Heedful(work[q])
        BY <2>1 DEF OneWriter
      <4>2. reqf = NoRequest => reqf' = NoRequest
        BY <2>2
      <4>3. ASSUME upd = NoFile \/ (upd.st = "queued" /\ ~upd.old)
            PROVE  upd' = NoFile \/ (upd'.st = "queued" /\ ~upd'.old)
        <5>1. ~upd.old
          BY <4>3, Empty
        <5> QED BY <5>1, <4>3, <1>1, <1>2, ReconciledFiles, Zenon
      <4>4. work'[q].pc = "rollout" => reqf' = NoRequest
        BY <3>1, <4>1, <4>2 DEF Heedful
      <4>5. work'[q].pc = "feed" =>
               ConcurrentOperation(work'[q].s, work'[q].r) \/ reqf' = NoRequest
        BY <3>1, <4>1, <4>2 DEF Heedful
      <4>6. work'[q].pc = "request" =>
               /\ reqf' = NoRequest /\ sup' = NoRequest /\ monitor' = NoFile
               /\ upd' = NoFile \/ (upd'.st = "queued" /\ ~upd'.old)
        <5>1. SUFFICES ASSUME work'[q].pc = "request"
                       PROVE  /\ reqf' = NoRequest /\ sup' = NoRequest /\ monitor' = NoFile
                              /\ upd' = NoFile \/ (upd'.st = "queued" /\ ~upd'.old)
          OBVIOUS
        <5>2. /\ reqf = NoRequest /\ sup = NoRequest /\ monitor = NoFile
              /\ upd = NoFile \/ (upd.st = "queued" /\ ~upd.old)
          BY <5>1, <3>1, <4>1, Zenon DEF Heedful
        <5> QED BY <5>2, <4>2, <4>3, Zenon
      <4> QED BY <4>4, <4>5, <4>6, Zenon DEF Heedful, ConcurrentOperation
    <3>2. CASE work'[q] # work[q]
      <4>1. /\ work'[q].pc = "feed" /\ work'[q].s = Reconciled(p).s
            /\ work'[q].r = Reconciled(p).r
        BY <3>2
      <4> QED BY <4>1, <2>2 DEF Heedful, ConcurrentOperation
    <3> QED BY <3>1, <3>2
  <2> QED BY <2>1, <2>2, <2>3 DEF OneWriter
<1> QED BY <1>1, <1>3, <1>6, <1>7 DEF UpdInv

LEMMA GetSummaryInv == ASSUME UpdInv, NEW p \in Procs, GetSummary(p) PROVE UpdInv'
<1>1. cache' \in [Procs -> Releases \cup {NoRelease}]
  BY DEF GetSummary, GetLatestRelease, UpdInv, UpdTypeOK
<1>2. work' \in [Procs -> WorkStates]
  BY DEF GetSummary, UpdInv
<1> QED BY <1>1, <1>2, SummaryKeeps DEF GetSummary

LEMMA BeginInv ==
    ASSUME UpdInv, NEW p \in Procs, NEW op \in Operations, Begin(p, op)
    PROVE  UpdInv'
<1>1. PICK w : w = [pc |-> "feed", op |-> op, s |-> Reconciled(p).s, r |-> Reconciled(p).r]
  OBVIOUS
<1>2. w \in WorkStates
  BY <1>1, ReconciledFiles, Empty DEF WorkStates, UpdInv, UpdTypeOK
<1>3. GoOn(p, w)
  BY <1>1 DEF Begin
<1>4. work' \in [Procs -> WorkStates] /\ work'[p] = w /\ \A q \in Procs \ {p} : work'[q] = work[q]
  BY <1>2, <1>3, WorkChanges
<1>5. w.pc = "feed" /\ w.s = Reconciled(p).s /\ w.r = Reconciled(p).r
  BY <1>1
<1>6. cache' \in [Procs -> Releases \cup {NoRelease}]
  BY DEF Begin, UpdInv, UpdTypeOK
<1> QED BY <1>4, <1>5, <1>6, SummaryKeeps DEF Begin

\* Steps that leave the files alone, and give a process nothing in hand that it
\* must not have.
LEMMA FilesKept ==
    ASSUME UpdInv, NEW p \in Procs, NEW w \in WorkStates, GoOn(p, w),
           WorkOK(w)', ~crossed' => ~crossed, crossed' \in BOOLEAN,
           OneWriter => Heedful(w),
           UNCHANGED <<running, upd, reqf, monitor>>, feed' = feed,
           have \subseteq have', have' \subseteq Releases,
           replaced => replaced', replaced' \in BOOLEAN,
           sup' \in {sup, NoRequest},
           cache' \in [Procs -> Releases \cup {NoRelease}]
    PROVE  UpdInv'
<1>1. /\ UpdTypeOK /\ DownloadsFirst /\ crossed \in BOOLEAN /\ work \in [Procs -> WorkStates]
      /\ ~crossed => OneWriter
  BY DEF UpdInv
<1>2. work' \in [Procs -> WorkStates] /\ work'[p] = w /\ \A q \in Procs \ {p} : work'[q] = work[q]
  BY WorkChanges
<1>3. UpdTypeOK'
  BY <1>1, Empty DEF UpdTypeOK
<1>4. DownloadsFirst'
  <2> Downloaded \subseteq Downloaded'
    BY DownloadedKept
  <2>1. ASSUME NEW q \in Procs PROVE running'[q] \in Downloaded' /\ WorkOK(work[q])'
    BY <1>1, <1>2 DEF DownloadsFirst, WorkOK, FileOK, RequestOK
  <2>2. FileOK(upd)' /\ FileOK(monitor)' /\ RequestOK(reqf)' /\ RequestOK(sup)'
    BY <1>1, Empty DEF DownloadsFirst, FileOK, RequestOK
  <2> QED BY <2>1, <2>2 DEF DownloadsFirst
<1>5. ASSUME ~crossed' PROVE OneWriter'
  <2>1. OneWriter
    BY <1>1, <1>5
  <2>2. reqf' # NoRequest => Shows(upd)' /\ sup' = NoRequest /\ monitor' = NoFile
    BY <2>1 DEF OneWriter, Shows
  <2>3. ASSUME NEW q \in Procs PROVE Heedful(work[q])'
    <3>1. Heedful(work'[q])
      BY <2>1, <1>2 DEF OneWriter
    <3> QED BY <3>1 DEF Heedful, ConcurrentOperation
  <2> QED BY <2>2, <2>3 DEF OneWriter
<1> QED BY <1>1, <1>2, <1>3, <1>4, <1>5 DEF UpdInv

\* Unasked is something that every process may have in hand.
LEMMA UnaskedOK ==
    ASSUME NEW p \in Procs
    PROVE  WorkOK(Unasked) /\ Heedful(Unasked) /\ Unasked \in WorkStates
BY Empty DEF WorkOK, Heedful, FileOK, RequestOK

\* The first write of a request: it is decided on what nobody has changed.
LEMMA WriteQueuedInv ==
    ASSUME UpdInv, NEW p \in Procs, NEW op \in Operations, NEW target \in Releases,
           NEW prep \in Releases \cup {NoRelease}, WriteQueued(p, op, target, prep),
           prep \in Downloaded' \cup {NoRelease}, op = "apply" => target \in Downloaded',
           work[p].pc \in {"feed", "rollout"},
           OneWriter => reqf = NoRequest,
           UNCHANGED <<running, reqf, monitor, sup, have>>,
           replaced => replaced', replaced' \in BOOLEAN, feed' = feed,
           cache' \in [Procs -> Releases \cup {NoRelease}]
    PROVE  UpdInv'
<1>1. /\ UpdTypeOK /\ DownloadsFirst /\ crossed \in BOOLEAN /\ work \in [Procs -> WorkStates]
      /\ ~crossed => OneWriter
  BY DEF UpdInv
<1>2. PICK w : w = [Unasked EXCEPT !.pc = "request", !.r = [op |-> op, target |-> target]]
  OBVIOUS
<1>3. GoOn(p, w) /\ crossed' = (crossed \/ Overlapping(p))
  BY <1>2 DEF WriteQueued
<1>4. w = [pc |-> "request", op |-> "none", s |-> NoFile, r |-> [op |-> op, target |-> target]]
  BY <1>2 DEF Unasked
<1>5. w \in WorkStates
  BY <1>4, Empty DEF WorkStates, RequestFiles
<1>6. work' \in [Procs -> WorkStates] /\ work'[p] = w /\ \A q \in Procs \ {p} : work'[q] = work[q]
  BY <1>3, <1>5, WorkChanges
<1>7. /\ upd' = File(op, "queued", target, prep, FALSE, FALSE)
      /\ upd' \in StateFiles /\ upd'.st = "queued" /\ ~upd'.old /\ upd'.prep = prep
  BY DEF WriteQueued, File, StateFiles, Statuses
<1>8. UpdTypeOK'
  BY <1>1, <1>7 DEF UpdTypeOK
<1>9. WorkOK(w)'
  BY <1>4, Empty DEF WorkOK, FileOK, RequestOK
<1>10. DownloadsFirst'
  <2> Downloaded \subseteq Downloaded'
    BY DownloadedKept
  <2>1. ASSUME NEW q \in Procs PROVE running'[q] \in Downloaded' /\ WorkOK(work[q])'
    BY <1>1, <1>6, <1>9 DEF DownloadsFirst, WorkOK, FileOK, RequestOK
  <2>2. FileOK(upd)' /\ FileOK(monitor)' /\ RequestOK(reqf)' /\ RequestOK(sup)'
    BY <1>1, <1>7 DEF DownloadsFirst, FileOK, RequestOK
  <2> QED BY <2>1, <2>2 DEF DownloadsFirst
<1>11. ASSUME ~crossed' PROVE OneWriter'
  <2>1. /\ OneWriter /\ monitor = NoFile /\ sup = NoRequest
        /\ \A q \in Procs \ {p} : work[q].pc = "idle"
    BY <1>1, <1>3, <1>11 DEF Overlapping
  <2>2. reqf = NoRequest
    BY <2>1
  <2>3. ASSUME NEW q \in Procs PROVE Heedful(work[q])'
    <3>1. CASE q # p
      <4>1. work'[q].pc = "idle"
        BY <3>1, <2>1, <1>6
      <4> QED BY <4>1 DEF Heedful
    <3>2. CASE q = p
      <4>1. work'[q].pc = "request"
        BY <3>2, <1>4, <1>6
      <4>2. reqf' = NoRequest /\ sup' = NoRequest /\ monitor' = NoFile
        BY <2>1, <2>2
      <4> QED BY <4>1, <4>2, <1>7, Zenon DEF Heedful
    <3> QED BY <3>1, <3>2
  <2> QED BY <2>2, <2>3 DEF OneWriter
<1> QED BY <1>1, <1>3, <1>6, <1>8, <1>10, <1>11 DEF UpdInv

LEMMA QueueDownloadInv ==
    ASSUME UpdInv, NEW p \in Procs, QueueDownload(p)
    PROVE  UpdInv'
<1>1. /\ UpdTypeOK /\ DownloadsFirst /\ crossed \in BOOLEAN /\ work \in [Procs -> WorkStates]
      /\ work[p].pc = "feed" /\ UNCHANGED <<running, feed, reqf, monitor, sup, have>>
  BY DEF UpdInv, QueueDownload
<1>2. PICK l \in Releases \cup {NoRelease} :
         /\ GetLatestRelease(p, TRUE, l)
         /\ \E latest \in Hydrated(l), prep \in Hydrated(Prepared(p, work[p].s)),
               here \in Hydrated(running[p]) :
               /\ replaced' = (replaced \/ prep # Prepared(p, work[p].s))
               /\ IF \/ ConcurrentOperation(work[p].s, work[p].r) \/ latest = NoRelease
                     \/ latest \in {prep, here}
                  THEN GoOn(p, Unasked) /\ UNCHANGED <<upd, crossed>>
                  ELSE WriteQueued(p, "download", latest, prep)
  BY DEF QueueDownload
<1>3. PICK latest \in Hydrated(l), prep \in Hydrated(Prepared(p, work[p].s)) :
         /\ replaced' = (replaced \/ prep # Prepared(p, work[p].s))
         /\ \/ GoOn(p, Unasked) /\ UNCHANGED <<upd, crossed>>
            \/ /\ ~ConcurrentOperation(work[p].s, work[p].r) /\ latest # NoRelease
               /\ WriteQueued(p, "download", latest, prep)
  BY <1>2
<1>4. /\ cache' \in [Procs -> Releases \cup {NoRelease}]
      /\ replaced' \in BOOLEAN /\ (replaced => replaced') /\ have \subseteq have'
      /\ have' \subseteq Releases
  BY <1>1, <1>2, <1>3 DEF GetLatestRelease, UpdTypeOK
<1>5. CASE GoOn(p, Unasked) /\ UNCHANGED <<upd, crossed>>
  BY <1>5, <1>1, <1>4, UnaskedOK, IdleOK, FilesKept
<1>6. CASE /\ ~ConcurrentOperation(work[p].s, work[p].r) /\ latest # NoRelease
           /\ WriteQueued(p, "download", latest, prep)
  <2>1. Prepared(p, work[p].s) \in Downloaded \cup {NoRelease}
    BY <1>1 DEF DownloadsFirst, WorkOK, FileOK, Prepared
  <2>2. prep \in Downloaded' \cup {NoRelease}
    BY <2>1, <1>1, <1>3, HydratedDownloaded
  <2>3. latest \in Releases /\ "download" \in Operations /\ "download" # "apply"
    BY <1>6 DEF Operations, Hydrated
  <2>4. prep \in Releases \cup {NoRelease}
    BY <2>2 DEF Downloaded
  <2>5. OneWriter => reqf = NoRequest
    BY <1>1, <1>6 DEF OneWriter, Heedful
  <2> QED BY <1>1, <1>4, <1>6, <2>2, <2>3, <2>4, <2>5, WriteQueuedInv
<1> QED BY <1>3, <1>5, <1>6

LEMMA QueueApplyInv ==
    ASSUME UpdInv, NEW p \in Procs, QueueApply(p)
    PROVE  UpdInv'
<1>1. /\ UpdTypeOK /\ DownloadsFirst /\ crossed \in BOOLEAN /\ work \in [Procs -> WorkStates]
      /\ work[p].pc = "feed"
      /\ UNCHANGED <<running, feed, upd, reqf, monitor, sup, have, crossed>>
  BY DEF UpdInv, QueueApply
<1>2. cache' \in [Procs -> Releases \cup {NoRelease}]
  BY <1>1 DEF QueueApply, GetLatestRelease, UpdTypeOK
<1>3. PICK prep \in Hydrated(Prepared(p, work[p].s)) :
         /\ replaced' = (replaced \/ prep # Prepared(p, work[p].s))
         /\ \/ GoOn(p, Unasked)
            \/ /\ ~ConcurrentOperation(work[p].s, work[p].r) /\ prep # NoRelease
               /\ GoOn(p, [work[p] EXCEPT !.pc = "rollout",
                                         !.r = [op |-> "apply", target |-> prep]])
  BY Zenon DEF QueueApply
<1>4. /\ replaced' \in BOOLEAN /\ (replaced => replaced') /\ have \subseteq have'
      /\ have' \subseteq Releases
  BY <1>1, <1>3 DEF UpdTypeOK
<1>5. CASE GoOn(p, Unasked)
  BY <1>5, <1>1, <1>2, <1>4, UnaskedOK, IdleOK, FilesKept
<1>6. PICK r : r = [op |-> "apply", target |-> prep]
  OBVIOUS
<1>7. PICK w : w = [work[p] EXCEPT !.pc = "rollout", !.r = r]
  OBVIOUS
<1>8. CASE /\ ~ConcurrentOperation(work[p].s, work[p].r) /\ prep # NoRelease
           /\ GoOn(p, w)
  <2>1. DOMAIN work[p] = {"pc", "op", "s", "r"} /\ work[p] \in WorkStates
    BY <1>1 DEF WorkStates
  <2>2. /\ w = [x \in {"pc", "op", "s", "r"} |-> w[x]]
        /\ w.pc = "rollout" /\ w.op = work[p].op /\ w.s = work[p].s /\ w.r = r
    BY <2>1, <1>7, Zenon
  <2>3. Prepared(p, work[p].s) \in Downloaded \cup {NoRelease} /\ FileOK(work[p].s)
    BY <1>1 DEF DownloadsFirst, WorkOK, FileOK, Prepared
  <2>4. prep \in Downloaded'
    BY <2>3, <1>1, <1>3, <1>8, HydratedDownloaded
  <2>5. r \in RequestFiles /\ r.op = "apply" /\ r.target = prep
    BY <2>4, <1>6 DEF Downloaded, RequestFiles, Operations
  <2>6. w \in WorkStates
    BY <2>1, <2>2, <2>5 DEF WorkStates
  <2>7. Downloaded \subseteq Downloaded'
    BY <1>4, DownloadedKept
  <2>8. WorkOK(w)'
    BY <2>2, <2>3, <2>4, <2>5, <2>7 DEF WorkOK, FileOK, RequestOK
  <2>9. OneWriter => Heedful(w)
    BY <1>1, <1>8, <2>2 DEF OneWriter, Heedful
  <2> QED BY <1>1, <1>2, <1>4, <1>8, <2>6, <2>8, <2>9, FilesKept
<1> QED BY <1>3, <1>5, <1>6, <1>7, <1>8, Zenon

LEMMA ApplyUnlessRolloutInv ==
    ASSUME UpdInv, NEW p \in Procs, ApplyUnlessRollout(p)
    PROVE  UpdInv'
<1>1. /\ UpdTypeOK /\ DownloadsFirst /\ crossed \in BOOLEAN /\ work \in [Procs -> WorkStates]
      /\ work[p].pc = "rollout"
      /\ UNCHANGED <<running, feed, cache, reqf, monitor, sup, have, replaced>>
  BY DEF UpdInv, ApplyUnlessRollout
<1>2. /\ cache' \in [Procs -> Releases \cup {NoRelease}] /\ replaced' \in BOOLEAN
      /\ have' \subseteq Releases /\ have \subseteq have' /\ (replaced => replaced')
      /\ Downloaded' = Downloaded
  BY <1>1, DownloadedSame DEF UpdTypeOK
<1>3. CASE GoOn(p, Unasked) /\ UNCHANGED <<upd, crossed>>
  BY <1>3, <1>1, <1>2, UnaskedOK, IdleOK, FilesKept
<1>4. CASE WriteQueued(p, "apply", work[p].r.target, work[p].r.target)
  <2>1. work[p].r.target \in Downloaded
    BY <1>1 DEF DownloadsFirst, WorkOK, RequestOK
  <2>2. OneWriter => reqf = NoRequest
    BY <1>1 DEF OneWriter, Heedful
  <2>3. "apply" \in Operations /\ work[p].r.target \in Releases
    BY <2>1 DEF Operations, Downloaded
  <2> QED BY <1>1, <1>2, <1>4, <2>1, <2>2, <2>3, WriteQueuedInv
<1> QED BY <1>3, <1>4 DEF ApplyUnlessRollout

\* Steps that change nothing of what processes have in hand, or only take
\* something away; the files and the histories change.

LEMMA OthersKept ==
    ASSUME DownloadsFirst, Downloaded \subseteq Downloaded', running' = running, work' = work
    PROVE  \A q \in Procs : running'[q] \in Downloaded' /\ WorkOK(work[q])'
BY DEF DownloadsFirst, WorkOK, FileOK, RequestOK

\* The second write of a request.
LEMMA WriteRequestInv ==
    ASSUME UpdInv, NEW p \in Procs, WriteRequest(p)
    PROVE  UpdInv'
<1>1. /\ UpdTypeOK /\ DownloadsFirst /\ crossed \in BOOLEAN /\ work \in [Procs -> WorkStates]
      /\ ~crossed => OneWriter
  BY DEF UpdInv
<1>2. /\ work[p].pc = "request" /\ reqf' = work[p].r /\ GoOn(p, Unasked)
      /\ crossed' = (crossed \/ Overlapping(p))
      /\ UNCHANGED <<running, feed, cache, upd, monitor, sup, have, replaced>>
      /\ Downloaded' = Downloaded
  BY DownloadedSame DEF WriteRequest
<1>3. work' \in [Procs -> WorkStates] /\ work'[p] = Unasked /\ \A q \in Procs \ {p} : work'[q] = work[q]
  BY <1>2, UnaskedOK, WorkChanges
<1>4. UpdTypeOK'
  <2>1. work[p].r \in RequestFiles
    BY <1>1 DEF WorkStates
  <2> QED BY <1>1, <1>2, <2>1 DEF UpdTypeOK
<1>5. DownloadsFirst'
  <2>1. ASSUME NEW q \in Procs PROVE running'[q] \in Downloaded' /\ WorkOK(work[q])'
    <3>1. WorkOK(work'[q])
      BY <1>1, <1>3, UnaskedOK DEF DownloadsFirst
    <3> QED BY <3>1, <1>1, <1>2 DEF DownloadsFirst, WorkOK, FileOK, RequestOK
  <2>2. FileOK(upd)' /\ FileOK(monitor)' /\ RequestOK(reqf)' /\ RequestOK(sup)'
    BY <1>1, <1>2 DEF DownloadsFirst, FileOK, RequestOK, WorkOK
  <2> QED BY <2>1, <2>2 DEF DownloadsFirst
<1>6. ASSUME ~crossed' PROVE OneWriter'
  <2>1. /\ OneWriter /\ monitor = NoFile /\ sup = NoRequest
        /\ \A q \in Procs \ {p} : work[q].pc = "idle"
    BY <1>1, <1>2, <1>6 DEF Overlapping
  <2>2. upd = NoFile \/ upd.st = "queued"
    BY <2>1, <1>2 DEF OneWriter, Heedful
  <2>3. Shows(upd)'
    BY <2>2, <1>2 DEF Shows
  <2>4. ASSUME NEW q \in Procs PROVE Heedful(work[q])'
    <3>1. work'[q].pc = "idle"
      BY <2>1, <1>3, Empty
    <3> QED BY <3>1 DEF Heedful
  <2> QED BY <2>1, <2>3, <2>4, <1>2 DEF OneWriter
<1> QED BY <1>1, <1>2, <1>3, <1>4, <1>5, <1>6 DEF UpdInv

LEMMA ReadTerminalStateInv == ASSUME UpdInv, ReadTerminalState PROVE UpdInv'
<1>1. /\ UpdTypeOK /\ DownloadsFirst /\ crossed \in BOOLEAN /\ work \in [Procs -> WorkStates]
      /\ ~crossed => OneWriter
  BY DEF UpdInv
<1>2. /\ upd.st \in Ends /\ monitor' = upd
      /\ UNCHANGED <<running, feed, cache, upd, reqf, work, sup, have, replaced, crossed>>
      /\ Downloaded' = Downloaded
  BY DownloadedSame DEF ReadTerminalState
<1>3. UpdTypeOK'
  BY <1>1, <1>2 DEF UpdTypeOK
<1>4. DownloadsFirst'
  <2>1. FileOK(upd)' /\ FileOK(monitor)' /\ RequestOK(reqf)' /\ RequestOK(sup)'
    BY <1>1, <1>2 DEF DownloadsFirst, FileOK, RequestOK
  <2> QED BY <2>1, <1>1, <1>2, OthersKept DEF DownloadsFirst
<1>5. ASSUME ~crossed' PROVE OneWriter'
  <2>1. OneWriter /\ upd # NoFile /\ upd.st \notin {"queued", "busy"}
    BY <1>1, <1>2, <1>5, Empty DEF Ends
  <2>2. reqf = NoRequest
    BY <2>1 DEF OneWriter, Shows
  <2>3. ASSUME NEW q \in Procs PROVE Heedful(work[q])'
    <3>1. Heedful(work[q])
      BY <2>1 DEF OneWriter
    <3>2. work[q].pc # "request"
      BY <3>1, <2>1, Zenon DEF Heedful
    <3> QED BY <3>1, <3>2, <2>2, <1>2, Zenon DEF Heedful, ConcurrentOperation
  <2> QED BY <2>2, <2>3, <1>2 DEF OneWriter
<1> QED BY <1>1, <1>2, <1>3, <1>4, <1>5 DEF UpdInv

LEMMA ReconcileTerminalAuditStateInv ==
    ASSUME UpdInv, ReconcileTerminalAuditState PROVE UpdInv'
<1>1. /\ UpdTypeOK /\ DownloadsFirst /\ crossed \in BOOLEAN /\ work \in [Procs -> WorkStates]
      /\ ~crossed => OneWriter
  BY DEF UpdInv, UpdTypeOK
<1>2. /\ monitor # NoFile /\ monitor' = NoFile
      /\ UNCHANGED <<running, feed, cache, reqf, work, sup, have, replaced, crossed>>
      /\ Downloaded' = Downloaded
  BY DownloadedSame DEF ReconcileTerminalAuditState
<1>3. upd' = File(monitor.op, monitor.st, monitor.target, monitor.prep, monitor.old, TRUE)
  BY <1>1, AuditedFile DEF ReconcileTerminalAuditState, UpdTypeOK
<1>4. upd' \in StateFiles /\ upd'.prep = monitor.prep
  BY <1>1, <1>2, <1>3 DEF File, StateFiles, UpdTypeOK
<1>5. UpdTypeOK'
  BY <1>1, <1>2, <1>4, Empty DEF UpdTypeOK
<1>6. DownloadsFirst'
  <2>1. FileOK(upd)' /\ FileOK(monitor)' /\ RequestOK(reqf)' /\ RequestOK(sup)'
    BY <1>1, <1>2, <1>4, Empty DEF DownloadsFirst, FileOK, RequestOK
  <2> QED BY <2>1, <1>1, <1>2, OthersKept DEF DownloadsFirst
<1>7. ASSUME ~crossed' PROVE OneWriter'
  <2>1. OneWriter
    BY <1>1, <1>2, <1>7
  <2>2. reqf = NoRequest
    BY <2>1, <1>2 DEF OneWriter
  <2>3. ASSUME NEW q \in Procs PROVE Heedful(work[q])'
    <3>1. Heedful(work[q])
      BY <2>1 DEF OneWriter
    <3>2. work[q].pc # "request"
      BY <3>1, <1>2, Zenon DEF Heedful
    <3> QED BY <3>1, <3>2, <2>2, <1>2, Zenon DEF Heedful, ConcurrentOperation
  <2> QED BY <2>2, <2>3, <1>2 DEF OneWriter
<1> QED BY <1>1, <1>2, <1>5, <1>6, <1>7 DEF UpdInv

LEMMA SupervisorStartInv == ASSUME UpdInv, SupervisorStart PROVE UpdInv'
<1>1. /\ UpdTypeOK /\ DownloadsFirst /\ crossed \in BOOLEAN /\ work \in [Procs -> WorkStates]
      /\ ~crossed => OneWriter
  BY DEF UpdInv
<1>2. /\ reqf # NoRequest /\ sup' = reqf /\ reqf' = NoRequest
      /\ crossed' = (crossed \/ monitor # NoFile)
      /\ UNCHANGED <<running, feed, cache, work, monitor, have, replaced>>
      /\ Downloaded' = Downloaded
  BY DownloadedSame DEF SupervisorStart
<1>3. upd' = File(reqf.op, "busy", reqf.target, upd.prep, FALSE, FALSE)
  BY <1>1, StartedFile DEF SupervisorStart, UpdTypeOK
<1>4. upd.prep \in Releases \cup {NoRelease}
  BY <1>1, Empty DEF UpdTypeOK, StateFiles
<1>5. upd' \in StateFiles /\ upd'.prep = upd.prep
  BY <1>1, <1>2, <1>3, <1>4 DEF File, StateFiles, Statuses, RequestFiles, UpdTypeOK
<1>6. UpdTypeOK'
  BY <1>1, <1>2, <1>5, Empty DEF UpdTypeOK
<1>7. DownloadsFirst'
  <2>1. FileOK(upd)' /\ FileOK(monitor)' /\ RequestOK(reqf)' /\ RequestOK(sup)'
    BY <1>1, <1>2, <1>5, Empty DEF DownloadsFirst, FileOK, RequestOK
  <2> QED BY <2>1, <1>1, <1>2, OthersKept DEF DownloadsFirst
<1>8. ASSUME ~crossed' PROVE OneWriter'
  <2>1. OneWriter
    BY <1>1, <1>2, <1>8
  <2>2. ASSUME NEW q \in Procs PROVE Heedful(work[q])'
    <3>1. Heedful(work[q])
      BY <2>1 DEF OneWriter
    <3>2. work[q].pc # "request"
      BY <3>1, <1>2, Zenon DEF Heedful
    <3> QED BY <3>1, <3>2, <1>2, Zenon DEF Heedful, ConcurrentOperation
  <2> QED BY <2>2, <1>2 DEF OneWriter
<1> QED BY <1>1, <1>2, <1>6, <1>7, <1>8 DEF UpdInv

LEMMA SupervisorEndInv == ASSUME UpdInv, SupervisorEnd PROVE UpdInv'
<1>1. /\ UpdTypeOK /\ DownloadsFirst /\ crossed \in BOOLEAN /\ work \in [Procs -> WorkStates]
      /\ ~crossed => OneWriter
  BY DEF UpdInv
<1>2. /\ sup # NoRequest /\ sup' = NoRequest
      /\ UNCHANGED <<running, feed, cache, reqf, work, monitor, replaced, crossed>>
  BY DEF SupervisorEnd
<1>3. sup.op \in Operations /\ sup.target \in Releases /\ upd.prep \in Releases \cup {NoRelease}
  BY <1>1, <1>2, Empty DEF UpdTypeOK, RequestFiles, StateFiles
<1>4. PICK op \in Operations, st \in Statuses, prep \in Releases \cup {NoRelease} :
         /\ upd' = File(op, st, sup.target, prep, FALSE, FALSE)
         /\ \/ have' = have /\ prep \in {NoRelease, upd.prep}
            \/ have' = have \cup {sup.target} /\ prep = sup.target
  <2>1. CASE /\ have' = have \cup {sup.target}
             /\ upd' = File("download", "prepared", sup.target, sup.target, FALSE, FALSE)
    BY <2>1, <1>3 DEF Operations, Statuses
  <2>2. CASE /\ have' = have
             /\ upd' = File("apply", "completed", sup.target, NoRelease, FALSE, FALSE)
    BY <2>2, <1>3 DEF Operations, Statuses
  <2>3. CASE /\ have' = have
             /\ upd' = File(sup.op, "failed", sup.target, upd.prep, FALSE, FALSE)
    BY <2>3, <1>3 DEF Operations, Statuses
  <2> QED BY <2>1, <2>2, <2>3, Zenon DEF SupervisorEnd, File
<1>5. upd' \in StateFiles /\ upd'.prep = prep
  BY <1>3, <1>4 DEF File, StateFiles
<1>6. UpdTypeOK'
  BY <1>1, <1>2, <1>3, <1>4, <1>5, Empty DEF UpdTypeOK
<1>7. DownloadsFirst'
  <2>1. Downloaded \subseteq Downloaded'
    BY <1>2, <1>4, DownloadedKept
  <2>3. sup.target \in have' => sup.target \in Downloaded'
    BY <1>3 DEF Downloaded
  <2>2. FileOK(upd)' /\ FileOK(monitor)' /\ RequestOK(reqf)' /\ RequestOK(sup)'
    BY <1>1, <1>2, <1>4, <1>5, <2>1, <2>3, Empty DEF DownloadsFirst, FileOK, RequestOK
  <2> QED BY <2>1, <2>2, <1>1, <1>2, OthersKept DEF DownloadsFirst
<1>8. ASSUME ~crossed' PROVE OneWriter'
  <2>1. OneWriter
    BY <1>1, <1>2, <1>8
  <2>2. reqf = NoRequest
    BY <2>1, <1>2 DEF OneWriter
  <2>3. ASSUME NEW q \in Procs PROVE Heedful(work[q])'
    <3>1. Heedful(work[q])
      BY <2>1 DEF OneWriter
    <3>2. work[q].pc # "request"
      BY <3>1, <1>2, Zenon DEF Heedful
    <3> QED BY <3>1, <3>2, <2>2, <1>2, Zenon DEF Heedful, ConcurrentOperation
  <2> QED BY <2>2, <2>3, <1>2 DEF OneWriter
<1> QED BY <1>1, <1>2, <1>6, <1>7, <1>8 DEF UpdInv

LEMMA SupervisorRecreatesInv ==
    ASSUME UpdInv, NEW p \in Procs, SupervisorRecreates(p)
    PROVE  UpdInv'
<1>1. /\ UpdTypeOK /\ DownloadsFirst /\ crossed \in BOOLEAN /\ work \in [Procs -> WorkStates]
      /\ ~crossed => OneWriter
  BY DEF UpdInv
<1>2. /\ sup.op = "apply" /\ running' = [running EXCEPT ![p] = sup.target]
      /\ cache' = [cache EXCEPT ![p] = NoRelease]
      /\ crossed' = (crossed \/ work[p].pc = "request") /\ GoOn(p, Unasked)
      /\ UNCHANGED <<feed, upd, reqf, monitor, sup, have, replaced>>
      /\ Downloaded' = Downloaded
  BY DownloadedSame DEF SupervisorRecreates
<1>3. work' \in [Procs -> WorkStates] /\ work'[p] = Unasked /\ \A q \in Procs \ {p} : work'[q] = work[q]
  BY <1>2, UnaskedOK, WorkChanges
<1>4. sup.target \in Releases /\ sup.target \in Downloaded
  BY <1>1, <1>2, Empty DEF UpdTypeOK, RequestFiles, DownloadsFirst, RequestOK
<1>5. UpdTypeOK'
  BY <1>1, <1>2, <1>4 DEF UpdTypeOK
<1>6. DownloadsFirst'
  <2>1. ASSUME NEW q \in Procs PROVE running'[q] \in Downloaded' /\ WorkOK(work[q])'
    <3>1. CASE q = p
      <4>1. WorkOK(work[q])'
        BY <3>1, <1>3, IdleOK
      <4>2. running'[q] = sup.target
        BY <3>1, <1>1, <1>2 DEF UpdTypeOK
      <4> QED BY <4>1, <4>2, <1>2, <1>4
    <3>2. CASE q # p
      <4>1. running'[q] = running[q]
        BY <3>2, <1>1, <1>2 DEF UpdTypeOK
      <4> QED BY <4>1, <3>2, <1>1, <1>2, <1>3
              DEF DownloadsFirst, WorkOK, FileOK, RequestOK
    <3> QED BY <3>1, <3>2
  <2>2. FileOK(upd)' /\ FileOK(monitor)' /\ RequestOK(reqf)' /\ RequestOK(sup)'
    BY <1>1, <1>2 DEF DownloadsFirst, FileOK, RequestOK
  <2> QED BY <2>1, <2>2 DEF DownloadsFirst
<1>7. ASSUME ~crossed' PROVE OneWriter'
  <2>1. OneWriter
    BY <1>1, <1>2, <1>7
  <2>2. ASSUME NEW q \in Procs PROVE Heedful(work[q])'
    <3>1. Heedful(work'[q])
      BY <2>1, <1>3, UnaskedOK DEF OneWriter
    <3> QED BY <3>1, <1>2 DEF Heedful, ConcurrentOperation
  <2>3. reqf' # NoRequest => Shows(upd)' /\ sup' = NoRequest /\ monitor' = NoFile
    BY <2>1, <1>2 DEF OneWriter, Shows
  <2> QED BY <2>2, <2>3 DEF OneWriter
<1> QED BY <1>1, <1>2, <1>3, <1>5, <1>6, <1>7 DEF UpdInv

\* Steps that leave everything the invariant speaks of, except that the
\* supervisor may lose its operation and the feed its release.
LEMMA EndedSupervisor ==
    ASSUME UpdInv, sup' \in {sup, NoRequest}, feed' \in Releases \cup {NoRelease},
           UNCHANGED <<running, cache, upd, reqf, work, monitor, have, replaced, crossed>>
    PROVE  UpdInv'
<1>1. /\ UpdTypeOK /\ DownloadsFirst /\ crossed \in BOOLEAN /\ work \in [Procs -> WorkStates]
      /\ ~crossed => OneWriter
  BY DEF UpdInv
<1>2. UpdTypeOK'
  BY <1>1, Empty DEF UpdTypeOK
<1>3. DownloadsFirst'
  <2>1. FileOK(upd)' /\ FileOK(monitor)' /\ RequestOK(reqf)' /\ RequestOK(sup)'
    BY <1>1, DownloadedSame, Empty DEF DownloadsFirst, FileOK, RequestOK
  <2> QED BY <2>1, <1>1, DownloadedSame, OthersKept DEF DownloadsFirst
<1>4. ASSUME ~crossed' PROVE OneWriter'
  <2>1. OneWriter
    BY <1>1, <1>4
  <2>2. ASSUME NEW q \in Procs PROVE Heedful(work[q])'
    <3>1. Heedful(work[q])
      BY <2>1 DEF OneWriter
    <3> QED BY <3>1 DEF Heedful, ConcurrentOperation
  <2>3. reqf' # NoRequest => Shows(upd)' /\ sup' = NoRequest /\ monitor' = NoFile
    BY <2>1 DEF OneWriter, Shows
  <2> QED BY <2>2, <2>3 DEF OneWriter
<1> QED BY <1>1, <1>2, <1>3, <1>4 DEF UpdInv

LEMMA MishapInv == ASSUME UpdInv, Mishap PROVE UpdInv'
<1>1. UNCHANGED <<running, feed, cache, upd, reqf, monitor, have, replaced>>
  BY DEF Mishap
<1>2. CASE sup' = NoRequest /\ UNCHANGED <<work, crossed>>
  <2>1. feed' \in Releases \cup {NoRelease}
    BY <1>1 DEF UpdInv, UpdTypeOK
  <2> QED BY <1>1, <1>2, <2>1, EndedSupervisor
<1>3. ASSUME NEW p \in Procs, GoOn(p, Unasked), sup' = sup,
             crossed' = (crossed \/ work[p].pc = "request")
      PROVE  UpdInv'
  <2>1. ~crossed' => ~crossed
    BY <1>3
  <2>2. /\ crossed' \in BOOLEAN /\ cache' \in [Procs -> Releases \cup {NoRelease}]
        /\ have' \subseteq Releases /\ have \subseteq have' /\ replaced' \in BOOLEAN
        /\ replaced => replaced'
    BY <1>1, <1>3 DEF UpdInv, UpdTypeOK
  <2> QED BY <1>1, <1>3, <2>1, <2>2, UnaskedOK, IdleOK, FilesKept
<1> QED BY <1>2, <1>3 DEF Mishap

LEMMA AgeInv == ASSUME UpdInv, Age PROVE UpdInv'
<1>1. /\ UpdTypeOK /\ DownloadsFirst /\ crossed \in BOOLEAN /\ work \in [Procs -> WorkStates]
      /\ ~crossed => OneWriter
  BY DEF UpdInv
<1>2. /\ \A p \in Procs : work[p].pc # "request"
      /\ upd.st \in {"queued", "busy"}
      /\ UNCHANGED <<running, feed, cache, reqf, work, monitor, sup, have, replaced, crossed>>
      /\ Downloaded' = Downloaded
  BY DownloadedSame DEF Age
<1>3. upd' = File(upd.op, upd.st, upd.target, upd.prep, TRUE, upd.audited)
  BY <1>1, AgedFile DEF Age, UpdTypeOK
<1>4. upd # NoFile
  BY <1>2, Empty
<1>5. upd' \in StateFiles /\ upd'.prep = upd.prep /\ upd'.st = upd.st
  BY <1>1, <1>3, <1>4 DEF File, StateFiles, UpdTypeOK
<1>6. UpdTypeOK'
  BY <1>1, <1>2, <1>5 DEF UpdTypeOK
<1>7. DownloadsFirst'
  <2>1. FileOK(upd)' /\ FileOK(monitor)' /\ RequestOK(reqf)' /\ RequestOK(sup)'
    BY <1>1, <1>2, <1>5 DEF DownloadsFirst, FileOK, RequestOK
  <2> QED BY <2>1, <1>1, <1>2, OthersKept DEF DownloadsFirst
<1>8. ASSUME ~crossed' PROVE OneWriter'
  <2>1. OneWriter
    BY <1>1, <1>2, <1>8
  <2>2. ASSUME NEW q \in Procs PROVE Heedful(work[q])'
    <3>1. Heedful(work[q]) /\ work[q].pc # "request"
      BY <2>1, <1>2 DEF OneWriter
    <3> QED BY <3>1, <1>2, Zenon DEF Heedful, ConcurrentOperation
  <2>3. reqf' # NoRequest => Shows(upd)' /\ sup' = NoRequest /\ monitor' = NoFile
    BY <2>1, <1>2, <1>5 DEF OneWriter, Shows
  <2> QED BY <2>2, <2>3 DEF OneWriter
<1> QED BY <1>1, <1>2, <1>6, <1>7, <1>8 DEF UpdInv

LEMMA OutsideInv == ASSUME UpdInv, Outside PROVE UpdInv'
<1>1. UNCHANGED <<running, cache, upd, reqf, work, monitor, sup, have, replaced, crossed>>
  BY DEF Outside
<1>2. feed' \in Releases \cup {NoRelease}
  BY DEF Outside, UpdInv, UpdTypeOK
<1> QED BY <1>1, <1>2, EndedSupervisor

\* A summary that repairs one of the files only.
LEMMA DiesReconcilingInv ==
    ASSUME UpdInv, NEW p \in Procs, DiesReconciling(p)
    PROVE  UpdInv'
<1>1. /\ UpdTypeOK /\ DownloadsFirst /\ work \in [Procs -> WorkStates]
  BY DEF UpdInv
<1>2. /\ upd' \in {upd, Reconciled(p).s} /\ crossed' = TRUE
      /\ reqf' \in {reqf, NoRequest}
      /\ UNCHANGED <<running, feed, cache, work, monitor, sup, have, replaced>>
      /\ Downloaded' = Downloaded
  BY DownloadedSame DEF DiesReconciling, ReconcileStaleNoopApplyState, Files
<1>3. UpdTypeOK'
  BY <1>1, <1>2, ReconciledFiles, Empty DEF UpdTypeOK
<1>4. FileOK(upd)' /\ FileOK(monitor)' /\ RequestOK(reqf)' /\ RequestOK(sup)'
  BY <1>1, <1>2, ReconciledFiles, Empty DEF DownloadsFirst, FileOK, RequestOK
<1>5. DownloadsFirst'
  BY <1>1, <1>2, <1>4, OthersKept DEF DownloadsFirst
<1> QED BY <1>1, <1>2, <1>3, <1>5 DEF UpdInv

\* What the run checks follows from the invariant.
LEMMA UpdInvConsistent == UpdInv => UpdatesConsistent
<1> SUFFICES ASSUME UpdInv PROVE UpdatesConsistent
  OBVIOUS
<1>1. UpdTypeOK /\ DownloadsFirst /\ (~crossed => OneWriter)
  BY DEF UpdInv
<1>2. AppliedWasPrepared
  BY <1>1 DEF AppliedWasPrepared, DownloadsFirst, RequestOK
<1>3. PendingIsShown
  BY <1>1, ReconciledShows DEF PendingIsShown
<1> QED BY <1>1, <1>2, <1>3 DEF UpdatesConsistent

\* The files that the API processes and the supervisor share stay consistent:
\* whatever overlaps, is given up or dies, no version is applied that was not
\* downloaded before (and no release, as long as no manifest gives a prepared
\* release another id), and as long as no two writers overlap, queueDownload and
\* queueApply never miss a request that waits for the supervisor.
THEOREM UpdatesStayConsistent == UpdSpec => []UpdatesConsistent
<1>1. UpdInv /\ [UpdNext]_updVars => UpdInv'
  <2> SUFFICES ASSUME UpdInv, [UpdNext]_updVars PROVE UpdInv'
    OBVIOUS
  <2>1. ASSUME NEW p \in Procs,
               \/ GetSummary(p) \/ QueueDownload(p) \/ QueueApply(p)
               \/ DiesReconciling(p)
               \/ \E op \in Operations : Begin(p, op)
               \/ ApplyUnlessRollout(p) \/ WriteRequest(p) \/ SupervisorRecreates(p)
        PROVE  UpdInv'
    BY <2>1, GetSummaryInv, QueueDownloadInv, QueueApplyInv, DiesReconcilingInv, BeginInv,
       ApplyUnlessRolloutInv, WriteRequestInv, SupervisorRecreatesInv
  <2>2. CASE ReadTerminalState \/ ReconcileTerminalAuditState
    BY <2>2, ReadTerminalStateInv, ReconcileTerminalAuditStateInv
  <2>3. CASE SupervisorStart \/ SupervisorEnd \/ Mishap
    BY <2>3, SupervisorStartInv, SupervisorEndInv, MishapInv
  <2>4. CASE Age \/ Outside
    BY <2>4, AgeInv, OutsideInv
  <2>5. CASE UNCHANGED updVars
    <3>1. feed' \in Releases \cup {NoRelease}
      BY <2>5 DEF updVars, UpdInv, UpdTypeOK
    <3> QED BY <2>5, <3>1, EndedSupervisor DEF updVars
  <2> QED BY <2>1, <2>2, <2>3, <2>4, <2>5 DEF UpdNext
<1> QED BY <1>1, UpdInitInv, UpdInvConsistent, PTL DEF UpdSpec

-----------------------------------------------------------------------------
(* Enrollments: the inductive invariant.                                     *)

Columns == {"st", "late", "node", "cred"}

\* Columns of a table, all of them or some, with the values they may have.
ColumnsOK(ent, sts, creds) ==
    /\ DOMAIN ent \subseteq Columns
    /\ "st" \in DOMAIN ent => ent["st"] \in sts
    /\ "late" \in DOMAIN ent => ent["late"] \in BOOLEAN
    /\ "node" \in DOMAIN ent => ent["node"] \in 0 .. MaxNodes
    /\ "cred" \in DOMAIN ent => ent["cred"] \in creds

TokenColumnsOK(ent) ==
    ColumnsOK(ent, {"none", "pending", "approved", "revoked"}, 0 .. MaxNodes)

InstallColumnsOK(ent) ==
    ColumnsOK(ent, {"none", "pending", "installing", "completed", "failed", "expired"}, {0})

\* What a request has in hand.
EnrCallOK(r) ==
    /\ DOMAIN r = {"pc", "op", "ents", "host"} /\ r.host \in Hosts
    /\ r.op \in {"approve", "initiate", "revoke"} =>
          DOMAIN r.ents \subseteq Tokens /\ \A t \in DOMAIN r.ents : TokenColumnsOK(r.ents[t])
    /\ r.op = "approve" => r.host = Self
    /\ r.op \in {"consume", "expire", "report"} =>
          DOMAIN r.ents \subseteq NodeInstalls /\ \A i \in DOMAIN r.ents : InstallColumnsOK(r.ents[i])
    /\ r.op = "none" => DOMAIN r.ents = {}
    /\ r.pc \in {"create", "node"} =>
          /\ r.op \in {"approve", "consume"}
          /\ r.op = "approve" => \A t \in DOMAIN r.ents : DOMAIN r.ents[t] = Columns
    /\ r.op \in {"none", "approve", "initiate", "revoke", "consume", "expire", "report"}

Saving(r) == r.pc \in {"select", "update"}

Approves(r) == r.op = "approve" /\ Saving(r)

Revokes(r) == r.op \in {"initiate", "revoke"} /\ Saving(r)

NoneApproves == \A d \in DOMAIN ecalls : ~Approves(ecalls[d])

\* The columns that an approval and a revocation write.
ApprovalOK(ent) ==
    /\ {"st", "node", "cred"} \subseteq DOMAIN ent
    /\ ent["st"] = "approved" /\ ent["node"] = nodeOf[Self] /\ ent["cred"] = nodeOf[Self]

\* A revocation leaves the status out only for a row that is revoked, and it
\* clears the node only after the one approval there is.  It writes the
\* credential only of a token that was found expired.
RevocationOK(ent, pc, t, late) ==
    /\ "st" \in DOMAIN ent => ent["st"] = "revoked"
    /\ "node" \in DOMAIN ent => ent["node"] = 0
    /\ "cred" \in DOMAIN ent => ent["cred"] = 0 /\ t \in late
    /\ pc = "select" => "st" \in DOMAIN ent
    /\ "st" \notin DOMAIN ent /\ "node" \in DOMAIN ent =>
          rows[t].st = "revoked" /\ nodeOf[Self] # 0 /\ NoneApproves

\* A row of an enrollment.
EnrRowOK(t) ==
    /\ rows[t].st = "approved" => /\ rows[t].node = nodeOf[Self] /\ nodeOf[Self] # 0
                                  /\ rows[t].cred \in {0, nodeOf[Self]}
                                  /\ t \notin foundLate => rows[t].cred = nodeOf[Self]
    /\ rows[t].st \in {"none", "pending"} => rows[t].node = 0 /\ rows[t].cred = 0
    /\ rows[t].node # 0 \/ rows[t].cred # 0 => nodeOf[Self] # 0 /\ NoneApproves

\* As long as no node is removed: at most one request approves.
OneApproval ==
    /\ \A t \in Tokens : EnrRowOK(t)
    /\ \A c \in DOMAIN ecalls :
          /\ Approves(ecalls[c]) =>
                /\ nodeOf[Self] # 0
                /\ \A t \in DOMAIN ecalls[c].ents : ApprovalOK(ecalls[c].ents[t])
                /\ \A d \in DOMAIN ecalls : Approves(ecalls[d]) => d = c
          /\ Revokes(ecalls[c]) =>
                \A t \in DOMAIN ecalls[c].ents :
                    RevocationOK(ecalls[c].ents[t], ecalls[c].pc, t, foundLate)

EnrInv ==
    /\ EnrTypeOK /\ DOMAIN rows = Tokens \cup NodeInstalls
    /\ \A c \in DOMAIN ecalls : EnrCallOK(ecalls[c])
    /\ removed = {} => OneApproval

-----------------------------------------------------------------------------
(* Enrollments: rows and what requests have in hand.                         *)

LEMMA TokenRowColumns ==
    ASSUME NEW row \in EnrollmentRow
    PROVE  DOMAIN row = Columns /\ TokenColumnsOK(row)
BY DEF EnrollmentRow, Columns, TokenColumnsOK, ColumnsOK

LEMMA InstallRowColumns ==
    ASSUME NEW row \in NodeInstallRow
    PROVE  DOMAIN row = Columns /\ InstallColumnsOK(row)
BY DEF NodeInstallRow, Columns, InstallColumnsOK, ColumnsOK

\* An UPDATE writes the columns that it has, and keeps the others.
LEMMA OverRow ==
    ASSUME NEW ent, NEW row, DOMAIN ent \subseteq Columns, DOMAIN row = Columns
    PROVE  /\ DOMAIN Over(ent, row) = Columns
           /\ Over(ent, row) = [x \in Columns |-> Over(ent, row)[x]]
           /\ \A x \in Columns :
                 Over(ent, row)[x] = IF x \in DOMAIN ent THEN ent[x] ELSE row[x]
<1>1. DOMAIN ent \cup DOMAIN row = Columns
  OBVIOUS
<1> QED BY <1>1 DEF Over

LEMMA TokenOver ==
    ASSUME NEW ent, TokenColumnsOK(ent), NEW row \in EnrollmentRow
    PROVE  Over(ent, row) \in EnrollmentRow
<1>1. DOMAIN row = Columns /\ TokenColumnsOK(row) /\ DOMAIN ent \subseteq Columns
  BY TokenRowColumns DEF TokenColumnsOK, ColumnsOK
<1>2. PICK new : new = Over(ent, row)
  OBVIOUS
<1>3. /\ new = [x \in Columns |-> new[x]]
      /\ \A x \in Columns : new[x] = IF x \in DOMAIN ent THEN ent[x] ELSE row[x]
  BY <1>1, <1>2, OverRow
<1>4. /\ new["st"] \in {"none", "pending", "approved", "revoked"} /\ new["late"] \in BOOLEAN
      /\ new["node"] \in 0 .. MaxNodes /\ new["cred"] \in 0 .. MaxNodes
  <2>1. new["st"] \in {"none", "pending", "approved", "revoked"}
    BY <1>1, <1>3 DEF TokenColumnsOK, ColumnsOK, Columns
  <2>2. new["late"] \in BOOLEAN
    BY <1>1, <1>3, Zenon DEF TokenColumnsOK, ColumnsOK, Columns
  <2>3. new["node"] \in 0 .. MaxNodes
    BY <1>1, <1>3 DEF TokenColumnsOK, ColumnsOK, Columns
  <2>4. new["cred"] \in 0 .. MaxNodes
    BY <1>1, <1>3 DEF TokenColumnsOK, ColumnsOK, Columns
  <2> QED BY <2>1, <2>2, <2>3, <2>4
<1>5. new \in EnrollmentRow
  BY <1>3, <1>4 DEF EnrollmentRow, Columns
<1> QED BY <1>2, <1>5

LEMMA InstallOver ==
    ASSUME NEW ent, InstallColumnsOK(ent), NEW row \in NodeInstallRow
    PROVE  Over(ent, row) \in NodeInstallRow
<1>1. DOMAIN row = Columns /\ InstallColumnsOK(row) /\ DOMAIN ent \subseteq Columns
  BY InstallRowColumns DEF InstallColumnsOK, ColumnsOK
<1>2. PICK new : new = Over(ent, row)
  OBVIOUS
<1>3. /\ new = [x \in Columns |-> new[x]]
      /\ \A x \in Columns : new[x] = IF x \in DOMAIN ent THEN ent[x] ELSE row[x]
  BY <1>1, <1>2, OverRow
<1>4. /\ new["st"] \in {"none", "pending", "installing", "completed", "failed", "expired"}
      /\ new["late"] \in BOOLEAN
      /\ new["node"] \in 0 .. MaxNodes /\ new["cred"] \in {0}
  <2>1. new["st"] \in {"none", "pending", "installing", "completed", "failed", "expired"}
    BY <1>1, <1>3 DEF InstallColumnsOK, ColumnsOK, Columns
  <2>2. new["late"] \in BOOLEAN
    BY <1>1, <1>3, Zenon DEF InstallColumnsOK, ColumnsOK, Columns
  <2>3. new["node"] \in 0 .. MaxNodes
    BY <1>1, <1>3 DEF InstallColumnsOK, ColumnsOK, Columns
  <2>4. new["cred"] \in {0}
    BY <1>1, <1>3 DEF InstallColumnsOK, ColumnsOK, Columns
  <2> QED BY <2>1, <2>2, <2>3, <2>4
<1>5. new \in NodeInstallRow
  BY <1>3, <1>4 DEF NodeInstallRow, Columns
<1> QED BY <1>2, <1>5

LEMMA WaitingFields ==
    /\ DOMAIN Waiting = {"pc", "op", "ents", "host"} /\ Waiting.pc = "idle"
    /\ Waiting.op = "none" /\ DOMAIN Waiting.ents = {} /\ Waiting.host = Self
    /\ EnrCallOK(Waiting) /\ ~Saving(Waiting)
<1>1. /\ DOMAIN Waiting = {"pc", "op", "ents", "host"} /\ Waiting.pc = "idle"
      /\ Waiting.op = "none" /\ DOMAIN Waiting.ents = {} /\ Waiting.host = Self
  BY DEF Waiting
<1>2. EnrCallOK(Waiting) /\ ~Saving(Waiting)
  BY <1>1, EnrollmentsAssumption DEF EnrCallOK, Saving
<1> QED BY <1>1, <1>2

LEMMA SaveOfFields ==
    ASSUME NEW op, NEW ents
    PROVE  LET r == SaveOf(op, ents) IN
           /\ DOMAIN r = {"pc", "op", "ents", "host"} /\ r.pc = "select"
           /\ r.op = op /\ r.ents = ents /\ r.host = Self
<1>1. PICK w : w = Waiting
  OBVIOUS
<1>2. DOMAIN w = {"pc", "op", "ents", "host"} /\ w.host = Self
  BY <1>1, WaitingFields
<1>3. PICK r : r = [w EXCEPT !.pc = "select", !.op = op, !.ents = ents]
  OBVIOUS
<1>4. /\ DOMAIN r = {"pc", "op", "ents", "host"} /\ r.pc = "select"
      /\ r.op = op /\ r.ents = ents /\ r.host = Self
  BY <1>2, <1>3, Zenon
<1>5. r = SaveOf(op, ents)
  BY <1>1, <1>3, Zenon DEF SaveOf
<1> QED BY <1>4, <1>5, Zenon

\* The entities that are saved are of the table of the operation.
LEMMA SaveOfOK ==
    ASSUME NEW op, NEW ents,
           \/ /\ op \in {"initiate", "revoke", "approve"} /\ DOMAIN ents \subseteq Tokens
              /\ \A t \in DOMAIN ents : TokenColumnsOK(ents[t])
           \/ /\ op \in {"consume", "expire", "report"} /\ DOMAIN ents \subseteq NodeInstalls
              /\ \A i \in DOMAIN ents : InstallColumnsOK(ents[i])
    PROVE  EnrCallOK(SaveOf(op, ents))
<1>1. PICK r : r = SaveOf(op, ents)
  OBVIOUS
<1>2. /\ DOMAIN r = {"pc", "op", "ents", "host"} /\ r.pc = "select"
      /\ r.op = op /\ r.ents = ents /\ r.host = Self
  BY <1>1, SaveOfFields, Zenon
<1>3. EnrCallOK(r)
  BY <1>2, EnrollmentsAssumption DEF EnrCallOK
<1> QED BY <1>1, <1>3

-----------------------------------------------------------------------------
(* Enrollments: the steps.                                                   *)

LEMMA BlankFields ==
    /\ Blank \in EnrollmentRow /\ Blank \in NodeInstallRow
    /\ Blank.st = "none" /\ Blank.node = 0 /\ Blank.cred = 0
<1>1. 0 \in 0 .. MaxNodes
  BY EnrollmentsAssumption
<1>2. Blank.st = "none" /\ Blank.node = 0 /\ Blank.cred = 0
  BY DEF Blank
<1>3. Blank \in EnrollmentRow /\ Blank \in NodeInstallRow
  BY <1>1 DEF Blank, EnrollmentRow, NodeInstallRow
<1> QED BY <1>2, <1>3

LEMMA EnrInitInv == EnrInit => EnrInv
<1> SUFFICES ASSUME EnrInit PROVE EnrInv
  OBVIOUS
<1>1. /\ DOMAIN rows = Tokens \cup NodeInstalls
      /\ \A t \in Tokens \cup NodeInstalls : rows[t] = Blank
  BY DEF EnrInit
<1>2. DOMAIN ecalls = Callers \cup {Poller} /\ \A c \in DOMAIN ecalls : ecalls[c] = Waiting
  BY DEF EnrInit
<1>3. EnrTypeOK
  BY <1>1, <1>2, BlankFields, EnrollmentsAssumption DEF EnrInit, EnrTypeOK
<1>4. \A c \in DOMAIN ecalls : EnrCallOK(ecalls[c])
  BY <1>2, WaitingFields
<1>5. \A c \in DOMAIN ecalls : ~Approves(ecalls[c]) /\ ~Revokes(ecalls[c])
  BY <1>2, WaitingFields DEF Approves, Revokes
<1>6. \A t \in Tokens : EnrRowOK(t)
  BY <1>1, BlankFields DEF EnrRowOK
<1>7. OneApproval
  BY <1>5, <1>6 DEF OneApproval
<1> QED BY <1>1, <1>3, <1>4, <1>7 DEF EnrInv

\* A request goes on: with a call in order, which approves only if it did so
\* before, and which revokes what may be revoked.
LEMMA CallKept ==
    ASSUME EnrInv, NEW c \in DOMAIN ecalls, NEW r, Go(c, r), EnrCallOK(r),
           UNCHANGED <<rows, nodeOf, removed, created, writable>>,
           foundLate \subseteq foundLate', foundLate' \subseteq Tokens,
           OneApproval /\ Approves(r) =>
              /\ Approves(ecalls[c])
              /\ \A t \in DOMAIN r.ents : ApprovalOK(r.ents[t]),
           OneApproval /\ Revokes(r) =>
              \A t \in DOMAIN r.ents : RevocationOK(r.ents[t], r.pc, t, foundLate')
    PROVE  EnrInv'
<1>1. /\ EnrTypeOK /\ DOMAIN rows = Tokens \cup NodeInstalls
      /\ \A d \in DOMAIN ecalls : EnrCallOK(ecalls[d])
      /\ removed = {} => OneApproval
  BY DEF EnrInv
<1>2. DOMAIN ecalls' = DOMAIN ecalls /\ ecalls'[c] = r /\ \A d \in DOMAIN ecalls \ {c} : ecalls'[d] = ecalls[d]
  BY DEF Go
<1>3. /\ UNCHANGED <<rows, nodeOf, removed, created, writable>>
      /\ foundLate \subseteq foundLate' /\ foundLate' \subseteq Tokens
  OBVIOUS
<1>4. EnrTypeOK' /\ DOMAIN rows' = Tokens \cup NodeInstalls
  BY <1>1, <1>2, <1>3 DEF EnrTypeOK
<1>5. \A d \in DOMAIN ecalls' : EnrCallOK(ecalls'[d])
  BY <1>1, <1>2
<1>6. ASSUME removed' = {} PROVE OneApproval'
  <2>1. OneApproval
    BY <1>1, <1>3, <1>6
  <2>2. \A d \in DOMAIN ecalls : Approves(ecalls'[d]) => Approves(ecalls[d])
    BY <2>1, <1>2
  <2>3. NoneApproves => NoneApproves'
    BY <2>2, <1>2 DEF NoneApproves
  <2>4. ASSUME NEW t \in Tokens PROVE EnrRowOK(t)'
    <3>1. EnrRowOK(t)
      BY <2>1 DEF OneApproval
    <3> QED BY <3>1, <2>3, <1>3 DEF EnrRowOK
  <2>5. ASSUME NEW d \in DOMAIN ecalls', Approves(ecalls'[d])
        PROVE  /\ nodeOf'[Self] # 0
               /\ \A t \in DOMAIN ecalls'[d].ents : ApprovalOK(ecalls[d].ents[t])'
               /\ \A e \in DOMAIN ecalls' : Approves(ecalls'[e]) => e = d
    <3>1. Approves(ecalls[d]) /\ d \in DOMAIN ecalls
      BY <2>2, <2>5, <1>2
    <3>2. nodeOf'[Self] # 0 /\ \A e \in DOMAIN ecalls' : Approves(ecalls'[e]) => e = d
      BY <3>1, <2>1, <2>2, <1>2, <1>3 DEF OneApproval
    <3>3. \A t \in DOMAIN ecalls'[d].ents : ApprovalOK(ecalls'[d].ents[t])
      <4>1. CASE d = c
        BY <4>1, <2>1, <2>5, <1>2
      <4>2. CASE d # c
        BY <4>2, <3>1, <2>1, <1>2 DEF OneApproval
      <4> QED BY <4>1, <4>2
    <3>4. ASSUME NEW t \in DOMAIN ecalls'[d].ents PROVE ApprovalOK(ecalls[d].ents[t])'
      BY <3>3, <1>3 DEF ApprovalOK
    <3> QED BY <3>2, <3>4
  <2>6. ASSUME NEW d \in DOMAIN ecalls', Revokes(ecalls'[d]),
               NEW t \in DOMAIN ecalls'[d].ents
        PROVE  RevocationOK(ecalls[d].ents[t], ecalls[d].pc, t, foundLate)'
    <3>1. RevocationOK(ecalls'[d].ents[t], ecalls'[d].pc, t, foundLate')
      <4>1. CASE d = c
        BY <4>1, <2>1, <2>6, <1>2
      <4>2. CASE d # c
        <5>1. ecalls'[d] = ecalls[d] /\ d \in DOMAIN ecalls
          BY <4>2, <1>2
        <5>2. RevocationOK(ecalls'[d].ents[t], ecalls'[d].pc, t, foundLate)
          BY <5>1, <2>1, <2>6 DEF OneApproval
        <5> QED BY <5>2 DEF RevocationOK
      <4> QED BY <4>1, <4>2
    <3> QED BY <3>1, <2>3, <1>3 DEF RevocationOK
  <2> QED BY <2>4, <2>5, <2>6 DEF OneApproval
<1> QED BY <1>4, <1>5, <1>6 DEF EnrInv

\* Rows change: what is revoked stays so unless a request approves, and what
\* requests have in hand shrinks.
LEMMA RowsKept ==
    ASSUME EnrInv, UNCHANGED <<nodeOf, removed, created, writable, foundLate>>,
           DOMAIN rows' = DOMAIN rows, DOMAIN ecalls' = DOMAIN ecalls,
           \A t \in Tokens : rows'[t] \in EnrollmentRow,
           \A i \in NodeInstalls : rows'[i] \in NodeInstallRow,
           \A d \in DOMAIN ecalls :
              \/ ecalls'[d] = ecalls[d]
              \/ EnrCallOK(ecalls'[d]) /\ ~Saving(ecalls'[d]),
           OneApproval =>
              \A t \in Tokens :
                 /\ EnrRowOK(t)'
                 /\ NoneApproves /\ rows[t].st = "revoked" => rows'[t].st = "revoked"
    PROVE  EnrInv'
<1>1. /\ EnrTypeOK /\ DOMAIN rows = Tokens \cup NodeInstalls
      /\ \A d \in DOMAIN ecalls : EnrCallOK(ecalls[d])
      /\ removed = {} => OneApproval
  BY DEF EnrInv
<1>2. EnrTypeOK' /\ DOMAIN rows' = Tokens \cup NodeInstalls
  BY <1>1 DEF EnrTypeOK
<1>3. \A d \in DOMAIN ecalls' : EnrCallOK(ecalls'[d])
  BY <1>1
<1>4. ASSUME removed' = {} PROVE OneApproval'
  <2>1. OneApproval
    BY <1>1, <1>4
  <2>2. \A d \in DOMAIN ecalls' : Saving(ecalls'[d]) => ecalls'[d] = ecalls[d]
    OBVIOUS
  <2>3. NoneApproves => NoneApproves'
    BY <2>2 DEF NoneApproves, Approves
  <2>4. ASSUME NEW d \in DOMAIN ecalls', Approves(ecalls'[d])
        PROVE  /\ nodeOf'[Self] # 0
               /\ \A t \in DOMAIN ecalls'[d].ents : ApprovalOK(ecalls[d].ents[t])'
               /\ \A e \in DOMAIN ecalls' : Approves(ecalls'[e]) => e = d
    <3>1. ecalls'[d] = ecalls[d] /\ Approves(ecalls[d]) /\ d \in DOMAIN ecalls
      BY <2>2, <2>4 DEF Approves
    <3>2. nodeOf'[Self] # 0 /\ \A e \in DOMAIN ecalls' : Approves(ecalls'[e]) => e = d
      BY <3>1, <2>1, <2>2 DEF OneApproval, Approves
    <3>3. ASSUME NEW t \in DOMAIN ecalls'[d].ents PROVE ApprovalOK(ecalls[d].ents[t])'
      <4>1. ApprovalOK(ecalls'[d].ents[t])
        BY <3>1, <2>1 DEF OneApproval
      <4> QED BY <4>1 DEF ApprovalOK
    <3> QED BY <3>2, <3>3
  <2>5. ASSUME NEW d \in DOMAIN ecalls', Revokes(ecalls'[d]),
               NEW t \in DOMAIN ecalls'[d].ents
        PROVE  RevocationOK(ecalls[d].ents[t], ecalls[d].pc, t, foundLate)'
    <3>1. ecalls'[d] = ecalls[d] /\ Revokes(ecalls[d]) /\ d \in DOMAIN ecalls
      BY <2>2, <2>5 DEF Revokes
    <3>2. RevocationOK(ecalls'[d].ents[t], ecalls'[d].pc, t, foundLate)
      BY <3>1, <2>1 DEF OneApproval
    <3>3. t \in Tokens
      BY <3>1, <1>1 DEF EnrCallOK, Revokes
    <3>4. NoneApproves /\ rows[t].st = "revoked" => rows'[t].st = "revoked"
      BY <2>1, <3>3
    <3> QED BY <3>2, <3>4, <2>3 DEF RevocationOK
  <2>6. \A t \in Tokens : EnrRowOK(t)'
    BY <2>1
  <2> QED BY <2>4, <2>5, <2>6 DEF OneApproval
<1> QED BY <1>2, <1>3, <1>4 DEF EnrInv

\* The columns that SelectRows leaves of an entity.
Differing(ent, row) ==
    [x \in {y \in DOMAIN ent : y = "cred" \/ ent[y] # row[y]} |-> ent[x]]

LEMMA DifferingOK ==
    ASSUME NEW ent, NEW row
    PROVE  /\ DOMAIN Differing(ent, row) \subseteq DOMAIN ent
           /\ \A x \in DOMAIN Differing(ent, row) :
                 Differing(ent, row)[x] = ent[x] /\ (x = "cred" \/ ent[x] # row[x])
           /\ \A x \in DOMAIN ent : x \notin DOMAIN Differing(ent, row) => ent[x] = row[x]
           /\ TokenColumnsOK(ent) => TokenColumnsOK(Differing(ent, row))
           /\ InstallColumnsOK(ent) => InstallColumnsOK(Differing(ent, row))
<1>1. /\ DOMAIN Differing(ent, row) \subseteq DOMAIN ent
      /\ \A x \in DOMAIN Differing(ent, row) :
            Differing(ent, row)[x] = ent[x] /\ (x = "cred" \/ ent[x] # row[x])
      /\ \A x \in DOMAIN ent : x \notin DOMAIN Differing(ent, row) => ent[x] = row[x]
  BY DEF Differing
<1>2. ASSUME NEW sts, NEW creds, ColumnsOK(ent, sts, creds)
      PROVE  ColumnsOK(Differing(ent, row), sts, creds)
  <2>1. DOMAIN Differing(ent, row) \subseteq Columns
    BY <1>1, <1>2 DEF ColumnsOK
  <2>2. ASSUME NEW x \in DOMAIN Differing(ent, row)
        PROVE  x \in DOMAIN ent /\ Differing(ent, row)[x] = ent[x]
    BY <1>1
  <2> QED BY <2>1, <2>2, <1>2, Zenon DEF ColumnsOK
<1>3. TokenColumnsOK(ent) => TokenColumnsOK(Differing(ent, row))
  BY <1>2, Zenon DEF TokenColumnsOK
<1>4. InstallColumnsOK(ent) => InstallColumnsOK(Differing(ent, row))
  BY <1>2, Zenon DEF InstallColumnsOK
<1> QED BY <1>1, <1>3, <1>4

LEMMA SelectRowsInv ==
    ASSUME EnrInv, NEW c \in DOMAIN ecalls, SelectRows(c)
    PROVE  EnrInv'
<1>1. EnrCallOK(ecalls[c]) /\ ecalls[c].pc = "select"
  BY DEF EnrInv, SelectRows
<1>2. PICK ents : ents = [t \in DOMAIN ecalls[c].ents |-> Differing(ecalls[c].ents[t], rows[t])]
  OBVIOUS
<1>3. PICK r : r = [ecalls[c] EXCEPT !.pc = "update", !.ents = ents]
  OBVIOUS
<1>4. Go(c, r) /\ UNCHANGED tablesEnr
  BY <1>2, <1>3, Zenon DEF SelectRows, Differing
<1>5. /\ DOMAIN r = {"pc", "op", "ents", "host"} /\ r.pc = "update" /\ r.ents = ents
      /\ r.op = ecalls[c].op /\ r.host = ecalls[c].host
  BY <1>1, <1>3, Zenon DEF EnrCallOK
<1>6. /\ DOMAIN ents = DOMAIN ecalls[c].ents
      /\ \A t \in DOMAIN ents : ents[t] = Differing(ecalls[c].ents[t], rows[t])
  BY <1>2
<1>7. EnrCallOK(r)
  <2>1. \A t \in DOMAIN ents : /\ TokenColumnsOK(ecalls[c].ents[t]) => TokenColumnsOK(ents[t])
                               /\ InstallColumnsOK(ecalls[c].ents[t]) => InstallColumnsOK(ents[t])
    BY <1>6, DifferingOK
  <2> QED BY <2>1, <1>1, <1>5, <1>6 DEF EnrCallOK
<1>8. ASSUME OneApproval, Approves(r)
      PROVE  Approves(ecalls[c]) /\ \A t \in DOMAIN r.ents : ApprovalOK(r.ents[t])
  <2>1. Approves(ecalls[c])
    BY <1>8, <1>1, <1>5 DEF Approves, Saving
  <2>2. ASSUME NEW t \in DOMAIN ents PROVE ApprovalOK(ents[t])
    <3>1. ApprovalOK(ecalls[c].ents[t]) /\ nodeOf[Self] # 0
      BY <2>1, <2>2, <1>6, <1>8 DEF OneApproval
    <3>2. t \in Tokens
      BY <2>1, <2>2, <1>1, <1>6 DEF EnrCallOK, Approves
    <3>3. EnrRowOK(t) /\ ~NoneApproves
      BY <2>1, <3>2, <1>8 DEF OneApproval, NoneApproves
    <3>4. rows[t].st # "approved" /\ rows[t].node = 0 /\ rows[t].cred = 0
      BY <3>1, <3>3, Zenon DEF EnrRowOK
    <3>5. ents[t] = Differing(ecalls[c].ents[t], rows[t])
      BY <1>6, <2>2
    <3>6. {"st", "node", "cred"} \subseteq DOMAIN ents[t]
      BY <3>1, <3>4, <3>5, DifferingOK DEF ApprovalOK
    <3> QED BY <3>1, <3>5, <3>6, DifferingOK DEF ApprovalOK
  <2> QED BY <2>1, <2>2, <1>5
<1>9. ASSUME OneApproval, Revokes(r), NEW t \in DOMAIN r.ents
      PROVE  RevocationOK(r.ents[t], r.pc, t, foundLate)
  <2>1. Revokes(ecalls[c]) /\ t \in DOMAIN ecalls[c].ents
    BY <1>9, <1>1, <1>5, <1>6 DEF Revokes, Saving
  <2>2. RevocationOK(ecalls[c].ents[t], "select", t, foundLate)
    BY <2>1, <1>1, <1>9 DEF OneApproval
  <2>3. t \in Tokens
    BY <2>1, <1>1 DEF EnrCallOK, Revokes
  <2>4. EnrRowOK(t)
    BY <2>3, <1>9 DEF OneApproval
  <2>5. r.ents[t] = Differing(ecalls[c].ents[t], rows[t])
    BY <1>5, <1>6, <1>9
  <2>6. "st" \notin DOMAIN r.ents[t] => rows[t].st = "revoked"
    BY <2>2, <2>5, DifferingOK DEF RevocationOK
  <2>7. "node" \in DOMAIN r.ents[t] => r.ents[t]["node"] = 0 /\ rows[t].node # 0
    BY <2>2, <2>5, DifferingOK DEF RevocationOK
  <2>8. "cred" \in DOMAIN r.ents[t] => r.ents[t]["cred"] = 0 /\ t \in foundLate
    BY <2>2, <2>5, DifferingOK DEF RevocationOK
  <2>9. "st" \in DOMAIN r.ents[t] => r.ents[t]["st"] = "revoked"
    BY <2>2, <2>5, DifferingOK DEF RevocationOK
  <2>10. "node" \in DOMAIN r.ents[t] => nodeOf[Self] # 0 /\ NoneApproves
    BY <2>4, <2>7 DEF EnrRowOK
  <2> QED BY <2>6, <2>7, <2>8, <2>9, <2>10, <1>5 DEF RevocationOK
<1>10. UNCHANGED <<rows, nodeOf, removed, created, writable, foundLate>> /\ foundLate \subseteq Tokens
  BY <1>4 DEF tablesEnr, EnrInv, EnrTypeOK
<1> QED BY <1>4, <1>7, <1>8, <1>9, <1>10, CallKept

LEMMA UpdateRowsInv ==
    ASSUME EnrInv, NEW c \in DOMAIN ecalls, UpdateRows(c)
    PROVE  EnrInv'
<1>1. /\ EnrTypeOK /\ DOMAIN rows = Tokens \cup NodeInstalls
      /\ EnrCallOK(ecalls[c]) /\ ecalls[c].pc = "update"
      /\ UNCHANGED <<nodeOf, removed, created, writable, foundLate>>
      /\ \A d \in DOMAIN ecalls : EnrCallOK(ecalls[d])
  BY DEF EnrInv, UpdateRows
<1>2. PICK ents : ents = ecalls[c].ents
  OBVIOUS
<1>3. rows' = [t \in DOMAIN rows |->
                 IF t \in DOMAIN ents THEN Over(ents[t], rows[t]) ELSE rows[t]]
  BY <1>2 DEF UpdateRows
<1>4. /\ DOMAIN rows' = DOMAIN rows
      /\ \A t \in DOMAIN rows :
            rows'[t] = IF t \in DOMAIN ents THEN Over(ents[t], rows[t]) ELSE rows[t]
  BY <1>3
<1>5. \A t \in Tokens : rows'[t] \in EnrollmentRow
  <2> TAKE t \in Tokens
  <2>1. rows[t] \in EnrollmentRow
    BY <1>1 DEF EnrTypeOK
  <2>2. CASE t \in DOMAIN ents
    <3>1. TokenColumnsOK(ents[t])
      BY <2>2, <1>1, <1>2, EnrollmentsAssumption DEF EnrCallOK
    <3> QED BY <3>1, <2>1, <2>2, <1>1, <1>4, TokenOver
  <2>3. CASE t \notin DOMAIN ents
    BY <2>1, <2>3, <1>1, <1>4
  <2> QED BY <2>2, <2>3
<1>6. \A i \in NodeInstalls : rows'[i] \in NodeInstallRow
  <2> TAKE i \in NodeInstalls
  <2>1. rows[i] \in NodeInstallRow
    BY <1>1 DEF EnrTypeOK
  <2>2. CASE i \in DOMAIN ents
    <3>1. InstallColumnsOK(ents[i])
      BY <2>2, <1>1, <1>2, EnrollmentsAssumption DEF EnrCallOK
    <3> QED BY <3>1, <2>1, <2>2, <1>1, <1>4, InstallOver
  <2>3. CASE i \notin DOMAIN ents
    BY <2>1, <2>3, <1>1, <1>4
  <2> QED BY <2>2, <2>3
<1>7. PICK inserting : inserting = [Waiting EXCEPT !.pc = "insert"]
  OBVIOUS
<1>8. Go(c, Waiting) \/ Go(c, inserting)
  BY <1>7, Zenon DEF UpdateRows
<1>9. EnrCallOK(inserting) /\ ~Saving(inserting)
  <2>1. PICK w : w = Waiting
    OBVIOUS
  <2>2. /\ DOMAIN w = {"pc", "op", "ents", "host"} /\ w.op = "none"
        /\ DOMAIN w.ents = {} /\ w.host = Self
    BY <2>1, WaitingFields
  <2>3. inserting = [w EXCEPT !.pc = "insert"]
    BY <2>1, <1>7, Zenon
  <2>4. /\ DOMAIN inserting = {"pc", "op", "ents", "host"} /\ inserting.op = "none"
        /\ inserting.pc = "insert" /\ inserting.ents = w.ents /\ inserting.host = Self
    BY <2>2, <2>3, Zenon
  <2> QED BY <2>2, <2>4, EnrollmentsAssumption DEF EnrCallOK, Saving
<1>10. /\ DOMAIN ecalls' = DOMAIN ecalls
       /\ \A d \in DOMAIN ecalls : d # c => ecalls'[d] = ecalls[d]
       /\ EnrCallOK(ecalls'[c]) /\ ~Saving(ecalls'[c])
  BY <1>8, <1>9, WaitingFields DEF Go
<1>11. ASSUME OneApproval, NEW t \in Tokens
       PROVE  /\ EnrRowOK(t)'
              /\ NoneApproves /\ rows[t].st = "revoked" => rows'[t].st = "revoked"
  <2>1. EnrRowOK(t) /\ rows[t] \in EnrollmentRow
    BY <1>1, <1>11 DEF OneApproval, EnrTypeOK
  <2>2. ASSUME NoneApproves PROVE NoneApproves'
    BY <2>2, <1>10 DEF NoneApproves, Approves
  <2>3. CASE t \notin DOMAIN ents
    <3>1. rows'[t] = rows[t]
      BY <2>3, <1>1, <1>4
    <3> QED BY <3>1, <2>1, <2>2, <1>1 DEF EnrRowOK
  <2>4. CASE t \in DOMAIN ents
    <3>1. /\ rows'[t].st = IF "st" \in DOMAIN ents[t] THEN ents[t]["st"] ELSE rows[t].st
          /\ rows'[t].node = IF "node" \in DOMAIN ents[t] THEN ents[t]["node"] ELSE rows[t].node
          /\ rows'[t].cred = IF "cred" \in DOMAIN ents[t] THEN ents[t]["cred"] ELSE rows[t].cred
      <4>1. TokenColumnsOK(ents[t]) /\ DOMAIN rows[t] = Columns
        BY <2>1, <2>4, <1>1, <1>2, EnrollmentsAssumption, TokenRowColumns DEF EnrCallOK
      <4>2. rows'[t] = Over(ents[t], rows[t])
        BY <2>4, <1>1, <1>4
      <4> QED BY <4>1, <4>2, OverRow DEF TokenColumnsOK, ColumnsOK, Columns
    <3>2. ecalls[c].op \in {"approve", "initiate", "revoke"}
      BY <2>4, <1>1, <1>2, EnrollmentsAssumption DEF EnrCallOK
    <3>3. CASE ecalls[c].op = "approve"
      <4>1. Approves(ecalls[c])
        BY <3>3, <1>1 DEF Approves, Saving
      <4>2. ApprovalOK(ents[t]) /\ nodeOf[Self] # 0
        BY <4>1, <2>4, <1>2, <1>11 DEF OneApproval
      <4>3. \A d \in DOMAIN ecalls : Approves(ecalls[d]) => d = c
        BY <4>1, <1>11 DEF OneApproval
      <4>4. NoneApproves' /\ ~NoneApproves
        BY <4>1, <4>3, <1>10 DEF NoneApproves, Approves
      <4>5. rows'[t].st = "approved" /\ rows'[t].node = nodeOf[Self] /\ rows'[t].cred = nodeOf[Self]
        BY <4>2, <3>1 DEF ApprovalOK
      <4> QED BY <4>2, <4>4, <4>5, <1>1 DEF EnrRowOK
    <3>4. CASE ecalls[c].op \in {"initiate", "revoke"}
      <4>1. Revokes(ecalls[c])
        BY <3>4, <1>1 DEF Revokes, Saving
      <4>2. RevocationOK(ents[t], "update", t, foundLate)
        BY <4>1, <2>4, <1>1, <1>2, <1>11 DEF OneApproval
      <4>3. rows'[t].node \in {0, rows[t].node} /\ rows'[t].cred \in {0, rows[t].cred}
        BY <4>2, <3>1 DEF RevocationOK
      <4>4. CASE "st" \in DOMAIN ents[t]
        <5>1. rows'[t].st = "revoked"
          BY <4>2, <4>4, <3>1 DEF RevocationOK
        <5> QED BY <5>1, <4>3, <2>1, <2>2, <1>1 DEF EnrRowOK
      <4>5. CASE "st" \notin DOMAIN ents[t]
        <5>1. rows'[t].st = rows[t].st
          BY <4>5, <3>1
        <5>2. CASE "node" \in DOMAIN ents[t]
          <6>1. rows[t].st = "revoked"
            BY <5>2, <4>2, <4>5 DEF RevocationOK
          <6> QED BY <6>1, <5>1, <4>3, <2>1, <2>2, <1>1 DEF EnrRowOK
        <5>3. CASE "node" \notin DOMAIN ents[t]
          <6>1. rows'[t].node = rows[t].node
            BY <5>3, <3>1
          <6>2. rows'[t].cred # rows[t].cred => rows'[t].cred = 0 /\ t \in foundLate
            BY <3>1, <4>2 DEF RevocationOK
          <6> QED BY <6>1, <6>2, <5>1, <2>1, <2>2, <1>1 DEF EnrRowOK
        <5> QED BY <5>2, <5>3
      <4> QED BY <4>4, <4>5
    <3> QED BY <3>2, <3>3, <3>4
  <2> QED BY <2>3, <2>4
<1>12. \A d \in DOMAIN ecalls :
          \/ ecalls'[d] = ecalls[d]
          \/ EnrCallOK(ecalls'[d]) /\ ~Saving(ecalls'[d])
  BY <1>10
<1> QED BY <1>1, <1>4, <1>5, <1>6, <1>10, <1>11, <1>12, RowsKept

\* Entities that a query or a change of one makes.
LEMMA PartialOK ==
    ASSUME NEW t \in DOMAIN rows, DOMAIN rows[t] = Columns
    PROVE  /\ DOMAIN Partial(t) = {"st", "late", "node"}
           /\ \A x \in {"st", "late", "node"} : Partial(t)[x] = rows[t][x]
           /\ TokenColumnsOK(rows[t]) => TokenColumnsOK(Partial(t))
           /\ InstallColumnsOK(rows[t]) => InstallColumnsOK(Partial(t))
<1>1. /\ DOMAIN Partial(t) = {"st", "late", "node"}
      /\ \A x \in {"st", "late", "node"} : Partial(t)[x] = rows[t][x]
  BY DEF Partial
<1>2. \A sts, creds : ColumnsOK(rows[t], sts, creds) => ColumnsOK(Partial(t), sts, creds)
  BY <1>1, Zenon DEF ColumnsOK, Columns
<1> QED BY <1>1, <1>2 DEF TokenColumnsOK, InstallColumnsOK

LEMMA RevokedOK ==
    ASSUME NEW ent, TokenColumnsOK(ent), "st" \in DOMAIN ent
    PROVE  /\ TokenColumnsOK(Revoked(ent)) /\ DOMAIN Revoked(ent) = DOMAIN ent
           /\ Revoked(ent)["st"] = "revoked"
           /\ "node" \in DOMAIN ent => Revoked(ent)["node"] = ent["node"]
           /\ "cred" \in DOMAIN ent => Revoked(ent)["cred"] = ent["cred"]
<1>1. PICK e : e = [ent EXCEPT !.st = "revoked", !.late = TRUE]
  OBVIOUS
<1>2. Revoked(ent) = e
  BY <1>1, Zenon DEF Revoked
<1>3. DOMAIN e = DOMAIN ent
  BY <1>1, Zenon
<1>4. e["st"] = "revoked"
  BY <1>1, Zenon
<1>5. "node" \in DOMAIN ent => e["node"] = ent["node"]
  BY <1>1, Zenon
<1>6. "cred" \in DOMAIN ent => e["cred"] = ent["cred"]
  BY <1>1, Zenon
<1>7. "late" \in DOMAIN ent => e["late"] \in BOOLEAN
  BY <1>1, Zenon
<1>8. TokenColumnsOK(e)
  BY <1>3, <1>4, <1>5, <1>6, <1>7 DEF TokenColumnsOK, ColumnsOK
<1> QED BY <1>2, <1>3, <1>4, <1>5, <1>6, <1>8

\* A token that is revoked while it is pending, and before it has a node.
LEMMA RevokeInv ==
    ASSUME EnrInv, NEW c \in DOMAIN ecalls,
           UNCHANGED <<rows, nodeOf, removed, created, writable>>,
           foundLate \subseteq foundLate', foundLate' \subseteq Tokens,
           NEW op \in {"initiate", "revoke"}, NEW ents, Go(c, SaveOf(op, ents)),
           DOMAIN ents \subseteq Tokens,
           \A t \in DOMAIN ents : /\ rows[t].st = "pending"
                                  /\ \/ ents[t] = Revoked(Partial(t))
                                     \/ ents[t] = Revoked(rows[t]) /\ t \in foundLate'
    PROVE  EnrInv'
<1>1. \A t \in Tokens : rows[t] \in EnrollmentRow
  BY DEF EnrInv, EnrTypeOK
<1>2. ASSUME NEW t \in DOMAIN ents
      PROVE  /\ TokenColumnsOK(ents[t]) /\ "st" \in DOMAIN ents[t]
             /\ ents[t]["st"] = "revoked"
             /\ "node" \in DOMAIN ents[t] => ents[t]["node"] = rows[t].node
             /\ "cred" \in DOMAIN ents[t] => ents[t]["cred"] = rows[t].cred /\ t \in foundLate'
  <2>1. t \in DOMAIN rows /\ DOMAIN rows[t] = Columns /\ TokenColumnsOK(rows[t])
    BY <1>1, <1>2, TokenRowColumns DEF EnrInv
  <2>2. /\ TokenColumnsOK(Partial(t)) /\ DOMAIN Partial(t) = {"st", "late", "node"}
        /\ Partial(t)["node"] = rows[t].node
    BY <2>1, PartialOK
  <2>3. CASE ents[t] = Revoked(Partial(t))
    BY <2>2, <2>3, RevokedOK
  <2>4. CASE ents[t] = Revoked(rows[t]) /\ t \in foundLate'
    <3>1. "st" \in DOMAIN rows[t]
      BY <2>1 DEF Columns
    <3> QED BY <2>1, <2>4, <3>1, RevokedOK
  <2> QED BY <2>3, <2>4
<1>3. PICK r : r = SaveOf(op, ents)
  OBVIOUS
<1>4. r.pc = "select" /\ r.op = op /\ r.ents = ents /\ Go(c, r)
  <2>1. r.pc = "select" /\ r.op = op /\ r.ents = ents
    BY <1>3, SaveOfFields
  <2>2. Go(c, r)
    BY <1>3, Zenon
  <2> QED BY <2>1, <2>2
<1>5. EnrCallOK(r)
  BY <1>2, <1>3, SaveOfOK
<1>6. ~Approves(r)
  BY <1>4 DEF Approves
<1>7. ASSUME OneApproval, NEW t \in DOMAIN r.ents PROVE RevocationOK(r.ents[t], r.pc, t, foundLate')
  <2>1. t \in DOMAIN ents /\ EnrRowOK(t)
    BY <1>4, <1>7 DEF OneApproval
  <2>2. rows[t].node = 0 /\ rows[t].cred = 0
    BY <2>1 DEF EnrRowOK
  <2> QED BY <2>1, <2>2, <1>2, <1>4 DEF RevocationOK
<1> QED BY <1>4, <1>5, <1>6, <1>7, CallKept

LEMMA EnrInvParts ==
    ASSUME EnrInv
    PROVE  /\ DOMAIN ecalls = Callers \cup {Poller} /\ DOMAIN rows = Tokens \cup NodeInstalls
           /\ \A c \in DOMAIN ecalls : EnrCallOK(ecalls[c])
           /\ \A t \in Tokens : rows[t] \in EnrollmentRow
           /\ \A i \in NodeInstalls : rows[i] \in NodeInstallRow
           /\ foundLate \subseteq Tokens
BY DEF EnrInv, EnrTypeOK

\* A request that writes nothing.
LEMMA QuietInv ==
    ASSUME EnrInv, NEW c \in DOMAIN ecalls, NEW r, Go(c, r), UNCHANGED tablesEnr,
           EnrCallOK(r), ~Saving(r)
    PROVE  EnrInv'
<1>1. ~Approves(r) /\ ~Revokes(r)
  BY DEF Approves, Revokes
<1> QED BY <1>1, CallKept, EnrInvParts DEF tablesEnr

\* A save of an install writes no enrollment.
LEMMA SaveInstallInv ==
    ASSUME EnrInv, NEW c \in DOMAIN ecalls, UNCHANGED tablesEnr,
           NEW op \in {"consume", "expire", "report"}, NEW ents, Go(c, SaveOf(op, ents)),
           DOMAIN ents \subseteq NodeInstalls, \A i \in DOMAIN ents : InstallColumnsOK(ents[i])
    PROVE  EnrInv'
<1>1. PICK r : r = SaveOf(op, ents)
  OBVIOUS
<1>2. r.op = op /\ EnrCallOK(r) /\ Go(c, r)
  BY <1>1, SaveOfFields, SaveOfOK, Zenon
<1>3. ~Approves(r) /\ ~Revokes(r)
  BY <1>2 DEF Approves, Revokes
<1> QED BY <1>2, <1>3, CallKept, EnrInvParts DEF tablesEnr

LEMMA WaitingWith ==
    ASSUME NEW pc, NEW op, NEW ents, NEW h
    PROVE  /\ LET r == [Waiting EXCEPT !.pc = pc, !.op = op, !.ents = ents] IN
              /\ DOMAIN r = {"pc", "op", "ents", "host"} /\ r.pc = pc
              /\ r.op = op /\ r.ents = ents /\ r.host = Self
           /\ LET r == [Waiting EXCEPT !.pc = pc, !.op = op, !.host = h, !.ents = ents] IN
              /\ DOMAIN r = {"pc", "op", "ents", "host"} /\ r.pc = pc
              /\ r.op = op /\ r.ents = ents /\ r.host = h
           /\ LET r == [Waiting EXCEPT !.pc = pc] IN
              /\ DOMAIN r = {"pc", "op", "ents", "host"} /\ r.pc = pc
              /\ r.op = "none" /\ DOMAIN r.ents = {} /\ r.host = Self
<1>1. PICK w : w = Waiting
  OBVIOUS
<1>2. /\ DOMAIN w = {"pc", "op", "ents", "host"} /\ w.host = Self /\ w.op = "none"
      /\ DOMAIN w.ents = {}
  BY <1>1, WaitingFields
<1>3. LET r == [w EXCEPT !.pc = pc, !.op = op, !.ents = ents] IN
      /\ DOMAIN r = {"pc", "op", "ents", "host"} /\ r.pc = pc
      /\ r.op = op /\ r.ents = ents /\ r.host = Self
  BY <1>2, Zenon
<1>4. LET r == [w EXCEPT !.pc = pc, !.op = op, !.host = h, !.ents = ents] IN
      /\ DOMAIN r = {"pc", "op", "ents", "host"} /\ r.pc = pc
      /\ r.op = op /\ r.ents = ents /\ r.host = h
  BY <1>2, Zenon
<1>5. LET r == [w EXCEPT !.pc = pc] IN
      /\ DOMAIN r = {"pc", "op", "ents", "host"} /\ r.pc = pc
      /\ r.op = "none" /\ DOMAIN r.ents = {} /\ r.host = Self
  BY <1>2, Zenon
<1> QED BY <1>1, <1>3, <1>4, <1>5, Zenon

LEMMA InitiateInv ==
    ASSUME EnrInv, NEW c \in Callers, Initiate(c)
    PROVE  EnrInv'
<1>1. c \in DOMAIN ecalls /\ UNCHANGED tablesEnr
  BY EnrInvParts DEF Initiate
<1>2. CASE Go(c, SaveOf("initiate", RevokePendingByEmailAndHostname))
  <2>1. PICK ents : ents = RevokePendingByEmailAndHostname
    OBVIOUS
  <2>2. /\ DOMAIN ents = {u \in Tokens : rows[u].st = "pending"}
        /\ \A t \in DOMAIN ents : ents[t] = Revoked(Partial(t))
    BY <2>1 DEF RevokePendingByEmailAndHostname
  <2>3. Go(c, SaveOf("initiate", ents))
    BY <2>1, <1>2, Zenon
  <2> QED BY <1>1, <2>2, <2>3, RevokeInv, EnrInvParts DEF tablesEnr
<1>3. CASE Go(c, [Waiting EXCEPT !.pc = "insert"])
  <2>1. PICK r : r = [Waiting EXCEPT !.pc = "insert"]
    OBVIOUS
  <2>2. /\ DOMAIN r = {"pc", "op", "ents", "host"} /\ r.pc = "insert"
        /\ r.op = "none" /\ DOMAIN r.ents = {} /\ r.host = Self
    BY <2>1, WaitingWith, Zenon
  <2>3. EnrCallOK(r) /\ ~Saving(r)
    BY <2>2, EnrollmentsAssumption DEF EnrCallOK, Saving
  <2>4. Go(c, r)
    BY <2>1, <1>3, Zenon
  <2> QED BY <1>1, <2>3, <2>4, QuietInv
<1> QED BY <1>2, <1>3, Zenon DEF Initiate

LEMMA FinalizeInv ==
    ASSUME EnrInv, NEW c \in Callers, NEW t \in Tokens, Finalize(c, t)
    PROVE  EnrInv'
<1>1. /\ c \in DOMAIN ecalls /\ rows[t].st = "pending"
      /\ UNCHANGED <<rows, nodeOf, removed, created, writable>>
  BY EnrInvParts DEF Finalize
<1>2. CASE /\ Go(c, SaveOf("revoke", [u \in {t} |-> Revoked(rows[t])]))
           /\ foundLate' = foundLate \cup {t}
  <2>1. PICK ents : ents = [u \in {t} |-> Revoked(rows[t])]
    OBVIOUS
  <2>2. DOMAIN ents = {t} /\ ents[t] = Revoked(rows[t])
    BY <2>1
  <2>3. Go(c, SaveOf("revoke", ents))
    BY <2>1, <1>2, Zenon
  <2>4. /\ foundLate \subseteq foundLate' /\ foundLate' \subseteq Tokens
        /\ t \in foundLate'
    BY <1>2, EnrInvParts
  <2> QED BY <1>1, <2>2, <2>3, <2>4, RevokeInv
<1>3. CASE /\ Go(c, [Waiting EXCEPT !.pc = "create", !.op = "approve",
                                    !.ents = [u \in {t} |-> rows[t]]])
           /\ UNCHANGED foundLate
  <2>1. PICK ents : ents = [u \in {t} |-> rows[t]]
    OBVIOUS
  <2>2. DOMAIN ents = {t} /\ ents[t] = rows[t]
    BY <2>1
  <2>3. PICK r : r = [Waiting EXCEPT !.pc = "create", !.op = "approve", !.ents = ents]
    OBVIOUS
  <2>4. /\ DOMAIN r = {"pc", "op", "ents", "host"} /\ r.pc = "create"
        /\ r.op = "approve" /\ r.ents = ents /\ r.host = Self
    BY <2>3, WaitingWith, Zenon
  <2>5. TokenColumnsOK(ents[t]) /\ DOMAIN ents[t] = Columns
    BY <2>2, EnrInvParts, TokenRowColumns
  <2>6. EnrCallOK(r) /\ ~Saving(r)
    BY <2>2, <2>4, <2>5, EnrollmentsAssumption DEF EnrCallOK, Saving
  <2>7. Go(c, r)
    BY <2>1, <2>3, <1>3, Zenon
  <2> QED BY <1>1, <1>3, <2>6, <2>7, QuietInv DEF tablesEnr
<1> QED BY <1>2, <1>3, Zenon DEF Finalize

LEMMA GetStatusInv == ASSUME EnrInv, NEW t \in Tokens, GetStatus(t) PROVE EnrInv'
<1>1. /\ Poller \in DOMAIN ecalls /\ rows[t].st = "pending"
      /\ UNCHANGED <<rows, nodeOf, removed, created, writable>>
      /\ foundLate' = foundLate \cup {t}
      /\ Go(Poller, SaveOf("revoke", [u \in {t} |-> Revoked(rows[t])]))
  BY EnrInvParts DEF GetStatus
<1>2. PICK ents : ents = [u \in {t} |-> Revoked(rows[t])]
  OBVIOUS
<1>3. DOMAIN ents = {t} /\ ents[t] = Revoked(rows[t])
  BY <1>2
<1>4. Go(Poller, SaveOf("revoke", ents))
  BY <1>1, <1>2, Zenon
<1>5. foundLate \subseteq foundLate' /\ foundLate' \subseteq Tokens /\ t \in foundLate'
  BY <1>1, EnrInvParts
<1> QED BY <1>1, <1>3, <1>4, <1>5, RevokeInv

\* One column of a row changes, and nothing else.
LEMMA RowColumn ==
    ASSUME EnrInv, NEW t \in Tokens \cup NodeInstalls, NEW new, rows' = [rows EXCEPT ![t] = new],
           t \in Tokens => new \in EnrollmentRow, t \in NodeInstalls => new \in NodeInstallRow,
           t \in Tokens => /\ new.node = rows[t].node /\ new.cred = rows[t].cred
                           /\ new.st = rows[t].st \/ (rows[t].st = "none" /\ new.st = "pending"),
           UNCHANGED <<nodeOf, removed, created, writable, foundLate>>,
           DOMAIN ecalls' = DOMAIN ecalls,
           \A d \in DOMAIN ecalls : ecalls'[d] \in {ecalls[d], Waiting}
    PROVE  EnrInv'
<1>1. /\ DOMAIN rows' = DOMAIN rows /\ rows'[t] = new
      /\ \A u \in DOMAIN rows : u # t => rows'[u] = rows[u]
  BY EnrInvParts
<1>2. \A u \in Tokens : rows'[u] \in EnrollmentRow
  BY <1>1, EnrInvParts
<1>3. \A u \in NodeInstalls : rows'[u] \in NodeInstallRow
  BY <1>1, EnrInvParts
<1>4. \A d \in DOMAIN ecalls : \/ ecalls'[d] = ecalls[d]
                               \/ EnrCallOK(ecalls'[d]) /\ ~Saving(ecalls'[d])
  BY WaitingFields
<1>5. NoneApproves => NoneApproves'
  BY WaitingFields DEF NoneApproves, Approves
<1>6. ASSUME OneApproval, NEW u \in Tokens
      PROVE  /\ EnrRowOK(u)'
             /\ NoneApproves /\ rows[u].st = "revoked" => rows'[u].st = "revoked"
  <2>1. EnrRowOK(u)
    BY <1>6 DEF OneApproval
  <2>2. /\ rows'[u].node = rows[u].node /\ rows'[u].cred = rows[u].cred
        /\ rows'[u].st = rows[u].st \/ (rows[u].st = "none" /\ rows'[u].st = "pending")
    BY <1>1, EnrInvParts
  <2> QED BY <2>1, <2>2, <1>5 DEF EnrRowOK
<1> QED BY <1>1, <1>2, <1>3, <1>4, <1>6, RowsKept

\* A row with another status or another age.
LEMMA PendingRow ==
    ASSUME NEW row, row \in EnrollmentRow \/ row \in NodeInstallRow
    PROVE  LET new == [row EXCEPT !.st = "pending"] IN
           /\ row \in EnrollmentRow => new \in EnrollmentRow
           /\ row \in NodeInstallRow => new \in NodeInstallRow
           /\ new.st = "pending" /\ new.node = row.node /\ new.cred = row.cred
<1>1. DOMAIN row = {"st", "late", "node", "cred"}
  BY DEF EnrollmentRow, NodeInstallRow
<1>2. PICK new : new = [row EXCEPT !.st = "pending"]
  OBVIOUS
<1>3. /\ new.st = "pending" /\ new.late = row.late /\ new.node = row.node /\ new.cred = row.cred
      /\ new = [x \in {"st", "late", "node", "cred"} |-> new[x]]
  BY <1>1, <1>2, Zenon
<1>4. row \in EnrollmentRow => new \in EnrollmentRow
  BY <1>3 DEF EnrollmentRow
<1>5. row \in NodeInstallRow => new \in NodeInstallRow
  BY <1>3 DEF NodeInstallRow
<1> QED BY <1>2, <1>3, <1>4, <1>5, Zenon

LEMMA LateRow ==
    ASSUME NEW row, row \in EnrollmentRow \/ row \in NodeInstallRow
    PROVE  LET new == [row EXCEPT !.late = TRUE] IN
           /\ row \in EnrollmentRow => new \in EnrollmentRow
           /\ row \in NodeInstallRow => new \in NodeInstallRow
           /\ new.st = row.st /\ new.node = row.node /\ new.cred = row.cred
<1>1. DOMAIN row = {"st", "late", "node", "cred"}
  BY DEF EnrollmentRow, NodeInstallRow
<1>2. PICK new : new = [row EXCEPT !.late = TRUE]
  OBVIOUS
<1>3. /\ new.st = row.st /\ new.late = TRUE /\ new.node = row.node /\ new.cred = row.cred
      /\ new = [x \in {"st", "late", "node", "cred"} |-> new[x]]
  BY <1>1, <1>2, Zenon
<1>4. row \in EnrollmentRow => new \in EnrollmentRow
  BY <1>3 DEF EnrollmentRow
<1>5. row \in NodeInstallRow => new \in NodeInstallRow
  BY <1>3 DEF NodeInstallRow
<1> QED BY <1>2, <1>3, <1>4, <1>5, Zenon

LEMMA InsertTokenInv ==
    ASSUME EnrInv, NEW c \in DOMAIN ecalls, NEW t \in Tokens, InsertToken(c, t)
    PROVE  EnrInv'
<1>1. PICK new : new = [rows[t] EXCEPT !.st = "pending"]
  OBVIOUS
<1>2. /\ new \in EnrollmentRow /\ new.st = "pending"
      /\ new.node = rows[t].node /\ new.cred = rows[t].cred
  BY <1>1, EnrInvParts, PendingRow, Zenon
<1>3. rows' = [rows EXCEPT ![t] = new]
  BY <1>1, Zenon DEF InsertToken
<1>4. t \notin NodeInstalls
  BY EnrollmentsAssumption
<1>5. DOMAIN ecalls' = DOMAIN ecalls /\ \A d \in DOMAIN ecalls : ecalls'[d] \in {ecalls[d], Waiting}
  BY DEF InsertToken, Go
<1>6. UNCHANGED <<nodeOf, removed, created, writable, foundLate>> /\ rows[t].st = "none"
  BY DEF InsertToken
<1> QED BY <1>2, <1>3, <1>4, <1>5, <1>6, RowColumn

LEMMA CreateNodeInstallInv ==
    ASSUME EnrInv, NEW c \in Callers, NEW i \in NodeInstalls, CreateNodeInstall(c, i)
    PROVE  EnrInv'
<1>1. PICK new : new = [rows[i] EXCEPT !.st = "pending"]
  OBVIOUS
<1>2. new \in NodeInstallRow
  BY <1>1, EnrInvParts, PendingRow, Zenon
<1>3. rows' = [rows EXCEPT ![i] = new]
  BY <1>1, Zenon DEF CreateNodeInstall
<1>4. i \notin Tokens
  BY EnrollmentsAssumption
<1>5. UNCHANGED <<nodeOf, removed, created, writable, foundLate, ecalls>>
  BY DEF CreateNodeInstall
<1> QED BY <1>2, <1>3, <1>4, <1>5, RowColumn

LEMMA TokenLateInv ==
    ASSUME EnrInv, NEW t \in Tokens \cup NodeInstalls, TokenLate(t)
    PROVE  EnrInv'
<1>1. PICK new : new = [rows[t] EXCEPT !.late = TRUE]
  OBVIOUS
<1>2. rows[t] \in EnrollmentRow \/ rows[t] \in NodeInstallRow
  BY EnrInvParts
<1>3. /\ rows[t] \in EnrollmentRow => new \in EnrollmentRow
      /\ rows[t] \in NodeInstallRow => new \in NodeInstallRow
      /\ new.st = rows[t].st /\ new.node = rows[t].node /\ new.cred = rows[t].cred
  BY <1>1, <1>2, LateRow, Zenon
<1>4. rows' = [rows EXCEPT ![t] = new]
  BY <1>1, Zenon DEF TokenLate
<1>5. UNCHANGED <<nodeOf, removed, created, writable, foundLate, ecalls>>
  BY DEF TokenLate
<1>6. (t \in Tokens => new \in EnrollmentRow) /\ (t \in NodeInstalls => new \in NodeInstallRow)
  BY <1>3, EnrInvParts
<1> QED BY <1>3, <1>4, <1>5, <1>6, RowColumn

\* expireNodeInstall and reportNodeInstallProgress save an install.
LEMMA PartialInstallOK ==
    ASSUME EnrInv, NEW i \in NodeInstalls,
           NEW status \in {"installing", "completed", "failed", "expired"}
    PROVE  InstallColumnsOK([Partial(i) EXCEPT !.st = status])
<1>1. /\ InstallColumnsOK(Partial(i)) /\ DOMAIN Partial(i) = {"st", "late", "node"}
  BY EnrInvParts, InstallRowColumns, PartialOK
<1>2. PICK e : e = [Partial(i) EXCEPT !.st = status]
  OBVIOUS
<1>3. DOMAIN e = {"st", "late", "node"} /\ e["st"] = status /\ e["node"] = Partial(i)["node"]
  BY <1>1, <1>2, Zenon
<1>4. e["late"] = Partial(i)["late"]
  BY <1>1, <1>2, Zenon
<1>5. Partial(i)["late"] \in BOOLEAN
  BY <1>1, Zenon DEF InstallColumnsOK, ColumnsOK
<1>6. e["late"] \in BOOLEAN
  BY <1>4, <1>5, Zenon
<1>7. InstallColumnsOK(e)
  BY <1>1, <1>3, <1>6 DEF InstallColumnsOK, ColumnsOK, Columns
<1> QED BY <1>2, <1>7, Zenon

LEMMA ExpireInv ==
    ASSUME EnrInv, NEW c \in DOMAIN ecalls, NEW i \in NodeInstalls,
           Go(c, ExpireNodeInstall(i)), UNCHANGED tablesEnr
    PROVE  EnrInv'
<1>1. PICK ents : ents = [j \in {i} |-> [Partial(i) EXCEPT !.st = "expired"]]
  OBVIOUS
<1>2. DOMAIN ents = {i} /\ ents[i] = [Partial(i) EXCEPT !.st = "expired"]
  BY <1>1, Zenon
<1>3. \A j \in DOMAIN ents : InstallColumnsOK(ents[j])
  BY <1>2, PartialInstallOK
<1>4. Go(c, SaveOf("expire", ents))
  BY <1>1, Zenon DEF ExpireNodeInstall
<1> QED BY <1>2, <1>3, <1>4, SaveInstallInv

LEMMA GetNodeInstallStatusInv ==
    ASSUME EnrInv, NEW c \in Callers, NEW i \in NodeInstalls, GetNodeInstallStatus(c, i)
    PROVE  EnrInv'
<1>1. c \in DOMAIN ecalls
  BY EnrInvParts
<1> QED BY <1>1, ExpireInv DEF GetNodeInstallStatus

LEMMA ReportNodeInstallProgressInv ==
    ASSUME EnrInv, NEW c \in Callers, NEW i \in NodeInstalls,
           NEW status \in {"installing", "completed", "failed"},
           ReportNodeInstallProgress(c, i, status)
    PROVE  EnrInv'
<1>1. c \in DOMAIN ecalls /\ UNCHANGED tablesEnr
  BY EnrInvParts DEF ReportNodeInstallProgress
<1>2. CASE Go(c, ExpireNodeInstall(i))
  BY <1>1, <1>2, ExpireInv
<1>3. CASE Go(c, SaveOf("report", [j \in {i} |-> [Partial(i) EXCEPT !.st = status]]))
  <2>1. PICK ents : ents = [j \in {i} |-> [Partial(i) EXCEPT !.st = status]]
    OBVIOUS
  <2>2. DOMAIN ents = {i} /\ ents[i] = [Partial(i) EXCEPT !.st = status]
    BY <2>1, Zenon
  <2>3. \A j \in DOMAIN ents : InstallColumnsOK(ents[j])
    BY <2>2, PartialInstallOK
  <2>4. Go(c, SaveOf("report", ents))
    BY <2>1, <1>3, Zenon
  <2> QED BY <1>1, <2>2, <2>3, <2>4, SaveInstallInv
<1> QED BY <1>2, <1>3, Zenon DEF ReportNodeInstallProgress

LEMMA ConsumeNodeInstallInv ==
    ASSUME EnrInv, NEW c \in Callers, NEW i \in NodeInstalls, NEW h \in Hosts,
           ConsumeNodeInstall(c, i, h)
    PROVE  EnrInv'
<1>1. c \in DOMAIN ecalls /\ UNCHANGED tablesEnr
  BY EnrInvParts DEF ConsumeNodeInstall
<1>2. CASE Go(c, ExpireNodeInstall(i))
  BY <1>1, <1>2, ExpireInv
<1>3. CASE Go(c, [Waiting EXCEPT !.pc = "create", !.op = "consume", !.host = h,
                                 !.ents = [j \in {i} |-> Partial(i)]])
  <2>1. PICK ents : ents = [j \in {i} |-> Partial(i)]
    OBVIOUS
  <2>2. DOMAIN ents = {i} /\ ents[i] = Partial(i)
    BY <2>1
  <2>3. InstallColumnsOK(ents[i])
    BY <2>2, EnrInvParts, InstallRowColumns, PartialOK
  <2>4. PICK r : r = [Waiting EXCEPT !.pc = "create", !.op = "consume", !.host = h, !.ents = ents]
    OBVIOUS
  <2>5. /\ DOMAIN r = {"pc", "op", "ents", "host"} /\ r.pc = "create"
        /\ r.op = "consume" /\ r.ents = ents /\ r.host = h
    BY <2>4, WaitingWith, Zenon
  <2>6. EnrCallOK(r) /\ ~Saving(r)
    BY <2>2, <2>3, <2>5 DEF EnrCallOK, Saving
  <2>7. Go(c, r)
    BY <2>1, <2>4, <1>3, Zenon
  <2> QED BY <1>1, <2>6, <2>7, QuietInv
<1> QED BY <1>2, <1>3, Zenon DEF ConsumeNodeInstall

LEMMA CallDiesInv == ASSUME EnrInv, NEW c \in DOMAIN ecalls, CallDies(c) PROVE EnrInv'
BY WaitingFields, QuietInv DEF CallDies

\* The entities that a created node is written into.
LEMMA ApprovedOK ==
    ASSUME NEW ent, TokenColumnsOK(ent), DOMAIN ent = Columns, NEW n \in 0 .. MaxNodes
    PROVE  /\ TokenColumnsOK(Approved(ent, n)) /\ DOMAIN Approved(ent, n) = Columns
           /\ Approved(ent, n)["st"] = "approved"
           /\ Approved(ent, n)["node"] = n /\ Approved(ent, n)["cred"] = n
<1>1. PICK e : e = [ent EXCEPT !.st = "approved", !.late = TRUE, !.node = n, !.cred = n]
  OBVIOUS
<1>2. /\ DOMAIN e = Columns /\ e["st"] = "approved" /\ e["node"] = n /\ e["cred"] = n
      /\ e["late"] = TRUE
  BY <1>1, Zenon DEF Columns
<1>3. TokenColumnsOK(e)
  BY <1>2 DEF TokenColumnsOK, ColumnsOK
<1>4. e = Approved(ent, n)
  BY <1>1, Zenon DEF Approved
<1> QED BY <1>2, <1>3, <1>4, Zenon

LEMMA ConsumedOK ==
    ASSUME NEW ent, InstallColumnsOK(ent), NEW n \in 0 .. MaxNodes
    PROVE  InstallColumnsOK(Consumed(ent, n))
<1>1. PICK e : e = [ent EXCEPT !.st = "installing", !.node = n]
  OBVIOUS
<1>2. /\ DOMAIN e = DOMAIN ent
      /\ "st" \in DOMAIN e => e["st"] = "installing"
      /\ "node" \in DOMAIN e => e["node"] = n
      /\ "cred" \in DOMAIN e => e["cred"] = ent["cred"]
  BY <1>1, Zenon
<1>3. "late" \in DOMAIN e => e["late"] = ent["late"]
  BY <1>1, Zenon
<1>4. "late" \in DOMAIN e => e["late"] \in BOOLEAN
  BY <1>2, <1>3, Zenon DEF InstallColumnsOK, ColumnsOK
<1>5. InstallColumnsOK(e)
  BY <1>2, <1>4 DEF InstallColumnsOK, ColumnsOK
<1> QED BY <1>1, <1>5, Zenon DEF Consumed

\* A node is created for a free host; the request saves it in its entity.
LEMMA CreateInv ==
    ASSUME EnrInv, NEW c \in DOMAIN ecalls, NEW h \in Hosts, NEW n \in 1 .. MaxNodes,
           nodeOf[h] = 0, nodeOf' = [nodeOf EXCEPT ![h] = n], created' = n,
           UNCHANGED <<rows, removed, writable, foundLate>>,
           NEW r, Go(c, r), EnrCallOK(r), ~Revokes(r),
           Approves(r) => h = Self /\ \A t \in DOMAIN r.ents : ApprovalOK(r.ents[t])'
    PROVE  EnrInv'
<1>1. /\ EnrTypeOK /\ DOMAIN rows = Tokens \cup NodeInstalls
      /\ \A d \in DOMAIN ecalls : EnrCallOK(ecalls[d])
      /\ removed = {} => OneApproval
  BY DEF EnrInv
<1>2. DOMAIN ecalls' = DOMAIN ecalls /\ ecalls'[c] = r /\ \A d \in DOMAIN ecalls \ {c} : ecalls'[d] = ecalls[d]
  BY DEF Go
<1>3. n \in 0 .. MaxNodes /\ n # 0
  BY EnrollmentsAssumption
<1>4. EnrTypeOK' /\ DOMAIN rows' = Tokens \cup NodeInstalls
  BY <1>1, <1>2, <1>3 DEF EnrTypeOK
<1>5. \A d \in DOMAIN ecalls' : EnrCallOK(ecalls'[d])
  BY <1>1, <1>2
<1>6. ASSUME removed' = {} PROVE OneApproval'
  <2>1. OneApproval
    BY <1>1, <1>6
  <2>2. CASE h = Self
    <3>1. nodeOf[Self] = 0 /\ nodeOf'[Self] = n
      BY <2>2, <1>1 DEF EnrTypeOK
    <3>2. \A d \in DOMAIN ecalls : ~Approves(ecalls[d])
      BY <2>1, <3>1 DEF OneApproval
    <3>3. \A d \in DOMAIN ecalls' : Approves(ecalls'[d]) => d = c
      BY <3>2, <1>2
    <3>4. ASSUME NEW t \in Tokens PROVE EnrRowOK(t)'
      <4>1. EnrRowOK(t)
        BY <2>1 DEF OneApproval
      <4>2. rows[t].st # "approved" /\ rows[t].node = 0 /\ rows[t].cred = 0
        BY <4>1, <3>1 DEF EnrRowOK
      <4> QED BY <4>2 DEF EnrRowOK
    <3>5. ASSUME NEW d \in DOMAIN ecalls', Approves(ecalls'[d])
          PROVE  /\ nodeOf'[Self] # 0
                 /\ \A t \in DOMAIN ecalls'[d].ents : ApprovalOK(ecalls[d].ents[t])'
                 /\ \A e \in DOMAIN ecalls' : Approves(ecalls'[e]) => e = d
      <4>1. d = c /\ nodeOf'[Self] # 0
        BY <3>1, <3>3, <3>5, <1>3
      <4>2. ASSUME NEW t \in DOMAIN ecalls'[d].ents PROVE ApprovalOK(ecalls[d].ents[t])'
        <5>1. ApprovalOK(r.ents[t])'
          BY <4>1, <4>2, <3>5, <1>2
        <5> QED BY <5>1, <4>1, <1>2 DEF ApprovalOK
      <4> QED BY <4>1, <4>2, <3>3
    <3>6. ASSUME NEW d \in DOMAIN ecalls', Revokes(ecalls'[d]), NEW t \in DOMAIN ecalls'[d].ents
          PROVE  RevocationOK(ecalls[d].ents[t], ecalls[d].pc, t, foundLate)'
      <4>1. d # c /\ d \in DOMAIN ecalls /\ ecalls'[d] = ecalls[d]
        BY <3>6, <1>2
      <4>2. RevocationOK(ecalls[d].ents[t], ecalls[d].pc, t, foundLate)
        BY <4>1, <3>6, <2>1 DEF OneApproval
      <4> QED BY <4>1, <4>2, <3>1 DEF RevocationOK
    <3> QED BY <3>4, <3>5, <3>6 DEF OneApproval
  <2>3. CASE h # Self
    <3>1. nodeOf'[Self] = nodeOf[Self]
      BY <2>3, <1>1, EnrollmentsAssumption DEF EnrTypeOK
    <3>2. \A d \in DOMAIN ecalls' : Approves(ecalls'[d]) \/ Revokes(ecalls'[d]) =>
             d \in DOMAIN ecalls /\ ecalls'[d] = ecalls[d]
      BY <2>3, <1>2
    <3>3. NoneApproves => NoneApproves'
      BY <3>2, <1>2 DEF NoneApproves
    <3>4. ASSUME NEW t \in Tokens PROVE EnrRowOK(t)'
      <4>1. EnrRowOK(t)
        BY <2>1 DEF OneApproval
      <4> QED BY <4>1, <3>1, <3>3 DEF EnrRowOK
    <3>5. ASSUME NEW d \in DOMAIN ecalls', Approves(ecalls'[d])
          PROVE  /\ nodeOf'[Self] # 0
                 /\ \A t \in DOMAIN ecalls'[d].ents : ApprovalOK(ecalls[d].ents[t])'
                 /\ \A e \in DOMAIN ecalls' : Approves(ecalls'[e]) => e = d
      <4>1. d \in DOMAIN ecalls /\ ecalls'[d] = ecalls[d]
        BY <3>2, <3>5
      <4>2. /\ nodeOf[Self] # 0
            /\ \A e \in DOMAIN ecalls : Approves(ecalls[e]) => e = d
        BY <4>1, <3>5, <2>1 DEF OneApproval
      <4>3. ASSUME NEW t \in DOMAIN ecalls'[d].ents PROVE ApprovalOK(ecalls[d].ents[t])'
        <5>1. ApprovalOK(ecalls[d].ents[t])
          BY <4>1, <4>3, <3>5, <2>1 DEF OneApproval
        <5> QED BY <5>1, <4>1, <3>1 DEF ApprovalOK
      <4> QED BY <4>2, <4>3, <3>1, <3>2
    <3>6. ASSUME NEW d \in DOMAIN ecalls', Revokes(ecalls'[d]), NEW t \in DOMAIN ecalls'[d].ents
          PROVE  RevocationOK(ecalls[d].ents[t], ecalls[d].pc, t, foundLate)'
      <4>1. d \in DOMAIN ecalls /\ ecalls'[d] = ecalls[d]
        BY <3>2, <3>6
      <4>2. RevocationOK(ecalls[d].ents[t], ecalls[d].pc, t, foundLate)
        BY <4>1, <3>6, <2>1 DEF OneApproval
      <4> QED BY <4>1, <4>2, <3>1, <3>3 DEF RevocationOK
    <3> QED BY <3>4, <3>5, <3>6 DEF OneApproval
  <2> QED BY <2>2, <2>3
<1> QED BY <1>4, <1>5, <1>6 DEF EnrInv

LEMMA AssertHostnameAvailableInv ==
    ASSUME EnrInv, NEW c \in DOMAIN ecalls, AssertHostnameAvailable(c)
    PROVE  EnrInv'
<1>1. /\ EnrCallOK(ecalls[c]) /\ ecalls[c].pc = "create" /\ UNCHANGED tablesEnr
      /\ Go(c, [ecalls[c] EXCEPT !.pc = "node"]) \/ Go(c, Waiting)
  BY DEF EnrInv, AssertHostnameAvailable
<1>2. CASE Go(c, [ecalls[c] EXCEPT !.pc = "node"])
  <2>1. PICK r : r = [ecalls[c] EXCEPT !.pc = "node"]
    OBVIOUS
  <2>2. /\ DOMAIN r = {"pc", "op", "ents", "host"} /\ r.pc = "node" /\ r.op = ecalls[c].op
        /\ r.ents = ecalls[c].ents /\ r.host = ecalls[c].host
    BY <2>1, <1>1, Zenon DEF EnrCallOK
  <2>3. EnrCallOK(r) /\ ~Saving(r)
    BY <2>2, <1>1 DEF EnrCallOK, Saving
  <2>4. Go(c, r)
    BY <2>1, <1>2, Zenon
  <2> QED BY <1>1, <2>3, <2>4, QuietInv
<1>3. CASE Go(c, Waiting)
  BY <1>1, <1>3, WaitingFields, QuietInv
<1> QED BY <1>1, <1>2, <1>3

LEMMA CreateFromEnrollmentInv ==
    ASSUME EnrInv, NEW c \in DOMAIN ecalls, CreateFromEnrollment(c)
    PROVE  EnrInv'
<1>1. PICK r : r = ecalls[c]
  OBVIOUS
<1>2. PICK n : n = created + 1
  OBVIOUS
<1>3. r.pc = "node" /\ EnrCallOK(r) /\ r.host \in Hosts /\ EnrTypeOK
  BY <1>1 DEF CreateFromEnrollment, EnrInv, EnrCallOK
<1>4. PICK ents : ents = [t \in DOMAIN r.ents |-> IF r.op = "approve" THEN Approved(r.ents[t], n)
                                                  ELSE Consumed(r.ents[t], n)]
  OBVIOUS
<1>5. CASE nodeOf[r.host] = 0
  <2>1. /\ created < MaxNodes /\ created' = n /\ nodeOf' = [nodeOf EXCEPT ![r.host] = n]
        /\ UNCHANGED <<rows, removed, writable, foundLate>>
    BY <1>1, <1>2, <1>5 DEF CreateFromEnrollment
  <2>2. n \in 1 .. MaxNodes /\ n \in 0 .. MaxNodes
    BY <1>2, <1>3, <2>1, EnrollmentsAssumption DEF EnrTypeOK
  <2>3. Go(c, SaveOf(r.op, ents))
    BY <1>1, <1>2, <1>4, <1>5, Zenon DEF CreateFromEnrollment, NodeSaved
  <2>4. /\ DOMAIN ents = DOMAIN r.ents
        /\ \A t \in DOMAIN ents : ents[t] = IF r.op = "approve" THEN Approved(r.ents[t], n)
                                            ELSE Consumed(r.ents[t], n)
    BY <1>4
  <2>5. PICK s : s = SaveOf(r.op, ents)
    OBVIOUS
  <2>6. s.pc = "select" /\ s.op = r.op /\ s.ents = ents
    BY <2>5, SaveOfFields
  <2>7. Go(c, s)
    BY <2>3, <2>5, Zenon
  <2>8. CASE r.op = "approve"
    <3>1. r.host = Self /\ DOMAIN ents \subseteq Tokens
      BY <2>8, <2>4, <1>3 DEF EnrCallOK
    <3>2. ASSUME NEW t \in DOMAIN ents
          PROVE  /\ TokenColumnsOK(ents[t]) /\ DOMAIN ents[t] = Columns
                 /\ ents[t]["st"] = "approved" /\ ents[t]["node"] = n /\ ents[t]["cred"] = n
      <4>1. TokenColumnsOK(r.ents[t]) /\ DOMAIN r.ents[t] = Columns
        BY <2>4, <2>8, <3>2, <1>3 DEF EnrCallOK
      <4>2. ents[t] = Approved(r.ents[t], n)
        BY <2>4, <2>8, <3>2
      <4> QED BY <4>1, <4>2, <2>2, ApprovedOK
    <3>3. EnrCallOK(s)
      BY <2>5, <2>8, <3>1, <3>2, SaveOfOK
    <3>4. nodeOf'[Self] = n
      BY <3>1, <2>1, <1>3 DEF EnrTypeOK
    <3>5. \A t \in DOMAIN s.ents : ApprovalOK(s.ents[t])'
      <4> TAKE t \in DOMAIN s.ents
      <4>1. t \in DOMAIN ents /\ s.ents[t] = ents[t]
        BY <2>6
      <4> QED BY <4>1, <3>2, <3>4, <2>6 DEF ApprovalOK, Columns
    <3>6. ~Revokes(s)
      BY <2>6, <2>8 DEF Revokes
    <3> QED BY <1>3, <1>5, <2>1, <2>2, <2>7, <3>1, <3>3, <3>5, <3>6, CreateInv
  <2>9. CASE r.op # "approve"
    <3>1. r.op = "consume" /\ DOMAIN ents \subseteq NodeInstalls
      BY <2>9, <2>4, <1>3 DEF EnrCallOK
    <3>2. ASSUME NEW t \in DOMAIN ents PROVE InstallColumnsOK(ents[t])
      <4>1. InstallColumnsOK(r.ents[t])
        BY <2>4, <3>1, <3>2, <1>3 DEF EnrCallOK
      <4>2. ents[t] = Consumed(r.ents[t], n)
        BY <2>4, <2>9, <3>2
      <4> QED BY <4>1, <4>2, <2>2, ConsumedOK
    <3>3. EnrCallOK(s)
      BY <2>5, <3>1, <3>2, SaveOfOK
    <3>4. ~Revokes(s) /\ ~Approves(s)
      BY <2>6, <3>1 DEF Revokes, Approves
    <3> QED BY <1>3, <1>5, <2>1, <2>2, <2>7, <3>3, <3>4, CreateInv
  <2> QED BY <2>8, <2>9
<1>6. CASE nodeOf[r.host] # 0
  <2>1. Go(c, Waiting) /\ UNCHANGED tablesEnr
    BY <1>1, <1>6 DEF CreateFromEnrollment, tablesEnr
  <2> QED BY <2>1, WaitingFields, QuietInv
<1> QED BY <1>5, <1>6

\* A deletion ends what the invariant says of approvals.
LEMMA DeleteNodeInv ==
    ASSUME EnrInv, NEW c \in Callers, NEW h \in Hosts, DeleteNode(c, h)
    PROVE  EnrInv'
<1>1. /\ EnrTypeOK /\ DOMAIN rows = Tokens \cup NodeInstalls
      /\ \A d \in DOMAIN ecalls : EnrCallOK(ecalls[d])
      /\ nodeOf[h] # 0 /\ removed' = removed \cup {nodeOf[h]}
      /\ nodeOf' = [nodeOf EXCEPT ![h] = 0]
      /\ UNCHANGED <<rows, created, writable, foundLate, ecalls>>
  BY DEF EnrInv, DeleteNode
<1>2. nodeOf[h] \in 1 .. MaxNodes /\ 0 \in 0 .. MaxNodes
  BY <1>1, EnrollmentsAssumption DEF EnrTypeOK
<1>3. EnrTypeOK'
  BY <1>1, <1>2 DEF EnrTypeOK
<1>4. removed' # {}
  BY <1>1
<1> QED BY <1>1, <1>3, <1>4 DEF EnrInv

LEMMA EnrSame ==
    ASSUME EnrInv, UNCHANGED <<rows, nodeOf, removed, created, foundLate, ecalls>>, writable' \in BOOLEAN
    PROVE  EnrInv'
<1>1. EnrTypeOK'
  BY DEF EnrInv, EnrTypeOK
<1>2. ASSUME OneApproval PROVE OneApproval'
  <2>1. NoneApproves => NoneApproves'
    BY DEF NoneApproves
  <2>2. \A t \in Tokens : EnrRowOK(t)'
    BY <1>2, <2>1 DEF OneApproval, EnrRowOK
  <2>3. ASSUME NEW c \in DOMAIN ecalls', Approves(ecalls'[c])
        PROVE  /\ nodeOf'[Self] # 0
               /\ \A t \in DOMAIN ecalls'[c].ents : ApprovalOK(ecalls[c].ents[t])'
               /\ \A d \in DOMAIN ecalls' : Approves(ecalls'[d]) => d = c
    BY <1>2, <2>3 DEF OneApproval, ApprovalOK
  <2>4. ASSUME NEW c \in DOMAIN ecalls', Revokes(ecalls'[c]), NEW t \in DOMAIN ecalls'[c].ents
        PROVE  RevocationOK(ecalls[c].ents[t], ecalls[c].pc, t, foundLate)'
    <3>1. RevocationOK(ecalls[c].ents[t], ecalls[c].pc, t, foundLate)
      BY <1>2, <2>4 DEF OneApproval
    <3> QED BY <3>1, <2>1 DEF RevocationOK
  <2> QED BY <2>2, <2>3, <2>4 DEF OneApproval
<1> QED BY <1>1, <1>2 DEF EnrInv

\* What the run checks follows from the invariant.
LEMMA EnrInvApproved == EnrInv => ApprovedHasNode
BY DEF EnrInv, ApprovedHasNode, OneApproval, EnrRowOK

\* However many approvals, revocations, newer requests and polls overlap, an
\* approved enrollment names the node that was created for it and hands out its
\* credential or, if a request found the token expired, possibly none, until a
\* node is deleted.
THEOREM ApprovedEnrollmentHasNode == EnrSpec => []ApprovedHasNode
<1>1. EnrInv /\ [EnrNext]_enrVars => EnrInv'
  <2> SUFFICES ASSUME EnrInv, [EnrNext]_enrVars PROVE EnrInv'
    OBVIOUS
  <2>1. ASSUME NEW c \in Callers, TokenRequest(c) PROVE EnrInv'
    BY <2>1, InitiateInv, FinalizeInv DEF TokenRequest
  <2>2. ASSUME NEW c \in Callers, InstallerRequest(c) PROVE EnrInv'
    BY <2>2, ReportNodeInstallProgressInv, ConsumeNodeInstallInv DEF InstallerRequest
  <2>3. ASSUME NEW c \in Callers, OperatorRequest(c) PROVE EnrInv'
    BY <2>3, CreateNodeInstallInv, GetNodeInstallStatusInv, DeleteNodeInv DEF OperatorRequest
  <2>4. ASSUME NEW c \in Callers \cup {Poller}, CallStep(c) \/ CallDies(c) PROVE EnrInv'
    <3>1. c \in DOMAIN ecalls
      BY <2>4, EnrInvParts
    <3> QED BY <2>4, <3>1, SelectRowsInv, UpdateRowsInv, AssertHostnameAvailableInv,
               CreateFromEnrollmentInv, InsertTokenInv, CallDiesInv DEF CallStep
  <2>5. ASSUME NEW t \in Tokens, GetStatus(t) PROVE EnrInv'
    BY <2>5, GetStatusInv
  <2>6. ASSUME NEW t \in Tokens \cup NodeInstalls, TokenLate(t) PROVE EnrInv'
    BY <2>6, TokenLateInv
  <2>7. CASE ToggleWorkspace
    BY <2>7, EnrSame DEF ToggleWorkspace
  <2>8. CASE UNCHANGED enrVars
    <3>1. writable' \in BOOLEAN
      BY <2>8 DEF enrVars, EnrInv, EnrTypeOK
    <3> QED BY <2>8, <3>1, EnrSame DEF enrVars
  <2> QED BY <2>1, <2>2, <2>3, <2>4, <2>5, <2>6, <2>7, <2>8 DEF EnrNext
<1> QED BY <1>1, EnrInitInv, EnrInvApproved, PTL DEF EnrSpec
=============================================================================
