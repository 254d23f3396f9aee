----------------------------- MODULE Installation -----------------------------
(***************************************************************************)
(* The first installation and the settings it leaves (setup.service.ts,    *)
(* install-state.ts, boot-mode.ts, platform-settings.service.ts).  A       *)
(* process boots in setup mode, an operator installs, and the supervisor   *)
(* of the host (external) replaces the process by the runtime processes;   *)
(* later the operators change settings and restart.                        *)
(*                                                                         *)
(* A process may die between any two statements of an installation and     *)
(* between the files that it writes, and the migrations may fail.  No *)
(* other request of the process runs between its file writes, which are    *)
(* synchronous.                                                            *)
(***************************************************************************)
EXTENDS Naturals, FiniteSets

CONSTANTS
    Setup, Other,   \* processes: the first one, and a further runtime process
    Dtos,           \* admins and workspaces that operators ask for
    Installs,       \* concurrent requests to install
    NoKey, OwnKey,  \* encryption keys: none, and one of the environment
    MaxSaves, MaxDeaths

ASSUME InstallationAssumption ==
    Setup # Other /\ NoKey # OwnKey /\ {NoKey, OwnKey} \cap Dtos = {}
    /\ MaxSaves \in Nat /\ MaxDeaths \in Nat

VARIABLES
    ctx,       \* "installer", "plain" or "env": what the environment says
    ownKey, ownCfg,
    schema, dbRows,
    inst, secrets, trans, restart,   \* the files
    proc, jobs,
    spoilt,    \* history: a death or a failed migration has left what no
               \* installation gets over
    disturbed, \* history: installations have overlapped, or files are torn
    firstKey,  \* history: the key of the first runtime process
    saves, deaths

insVars == <<ctx, ownKey, ownCfg, schema, dbRows, inst, secrets, trans, restart,
             proc, jobs, spoilt, disturbed, firstKey, saves, deaths>>

Both == {Setup, Other}
Keys == Dtos \cup {NoKey, OwnKey}

\* install-state.json and install-secrets.json: the settings ("safe", "unsafe",
\* or "none" without the file) and the encryption key.
NoSecrets == [cfg |-> "none", key |-> NoKey]
Down == [mode |-> "off", role |-> "none", cfg |-> "none", key |-> NoKey,
         scheduled |-> FALSE]
NoJob == [pc |-> "idle", d |-> NoKey]
\* schema: "marked" is a database with the table of the migrations and no
\* other, "partial" one with some of the application's tables.
NoRows == [admins |-> {}, spaces |-> {}, members |-> {}]

InsTypeOK ==
    /\ schema \in {"none", "marked", "partial", "full"}
    /\ dbRows \in [{"admins", "spaces", "members"} -> SUBSET Dtos]
    /\ inst \in {"none", "safe", "unsafe"}
    /\ secrets \in [cfg : {"none", "safe", "unsafe"}, key : Keys]
    /\ trans \in BOOLEAN /\ restart \subseteq Both
    /\ \A p \in Both : proc[p].mode \in {"off", "setup", "installed", "legacy"}
                       /\ proc[p].key \in Keys
    /\ firstKey \in Keys

InsInit ==
    /\ ctx \in {"installer", "plain", "env"}
    /\ ownKey \in {NoKey, OwnKey} /\ ownCfg \in {"none", "safe"}
    /\ schema \in IF ctx = "env" THEN {"none", "partial", "full"} ELSE {"none"}
    /\ dbRows = NoRows /\ inst = "none" /\ secrets = NoSecrets /\ trans = FALSE
    /\ restart = {} /\ proc = [p \in Both |-> Down]
    /\ jobs = [q \in Installs |-> NoJob]
    /\ spoilt = (schema = "partial") /\ disturbed = FALSE
    /\ firstKey = NoKey /\ saves = 0 /\ deaths = 0

-----------------------------------------------------------------------------
(* Booting.                                                                  *)

\* detectLegacySchemaState; the database may be out of reach.
DetectLegacySchemaState ==
    {CASE schema = "full" -> "present" [] schema = "partial" -> "partial"
       [] OTHER -> "absent", "unknown"}

\* resolveBootMode: isInstallerSetupContext, the install state, or
\* hasLegacyRuntimeEnv with the schema that is found.
ResolveBootMode(role, found) ==
    IF role = "setup" THEN "setup"
    ELSE IF inst # "none" THEN "installed"
    ELSE IF ctx # "env" THEN "setup"
    ELSE IF found \in {"present", "unknown"} THEN "legacy" ELSE "setup"

\* applyInstallStateEnv with shouldPreferProcessEnvOverInstallState: a safe
\* value of the environment wins over an unsafe one.
Prefer(own, incoming) ==
    IF incoming = "none" \/ (own = "safe" /\ incoming = "unsafe") THEN own
    ELSE incoming

\* applyInstallSecretEnv
KeyAtBoot == IF secrets.key = NoKey THEN ownKey ELSE secrets.key

\* bootstrap of main.ts with prepareBootEnvironment.  An installed process
\* refuses to start without its schema (assertInstalledSchemaReady) or with
\* placeholders for its keys (assertSafeProductionConfiguration).  state is
\* the install state that it reads.
Boot(p, role, state) ==
    /\ \E found \in DetectLegacySchemaState :
       LET mode == ResolveBootMode(role, found) IN
       /\ mode = "installed" => schema = "full" /\ KeyAtBoot # NoKey
       /\ proc' = [proc EXCEPT ![p] =
             [mode |-> mode, role |-> role, cfg |-> Prefer(ownCfg, state),
              key |-> KeyAtBoot, scheduled |-> FALSE]]
       /\ firstKey' = IF firstKey = NoKey /\ mode = "installed"
                      THEN KeyAtBoot ELSE firstKey

\* The process that serves the setup starts, or comes back after its death.
BootFirst ==
    /\ proc[Setup].mode = "off" /\ ~(ctx = "installer" /\ trans)
    /\ proc[Setup].role # "runtime_ha"
    /\ Boot(Setup, IF ctx = "installer" THEN "setup" ELSE "none", inst)
    /\ UNCHANGED <<ctx, ownKey, ownCfg, schema, dbRows, inst, secrets, trans,
                   restart, jobs, spoilt, disturbed, saves, deaths>>

-----------------------------------------------------------------------------
(* install                                                                   *)

\* getStatus
GetSetupStatus(p) == IF trans THEN "promoting" ELSE proc[p].mode

\* assertSetupOpen
AssertSetupOpen == GetSetupStatus(Setup) = "setup" /\ inst = "none"

At(q, pc) == jobs[q].pc = pc /\ proc[Setup].mode = "setup"

Step(q, pc) == jobs' = [jobs EXCEPT ![q].pc = pc]

InsRest == UNCHANGED <<ctx, ownKey, ownCfg, inst, secrets, trans, restart, proc,
                       firstKey, saves, deaths>>

\* The request arrives and the database is asked for.
Open(q) ==
    /\ jobs[q] = NoJob /\ proc[Setup].mode = "setup" /\ AssertSetupOpen
    /\ \E d \in Dtos : jobs' = [jobs EXCEPT ![q] = [pc |-> "probe", d |-> d]]
    /\ disturbed' = (disturbed \/ \E k \in Installs : jobs[k] # NoJob)
    /\ InsRest /\ UNCHANGED <<schema, dbRows, spoilt>>

\* Mutant: what a death has left is never built on.
MutIsRecoverablePartialInstall == FALSE

\* isRecoverablePartialInstall
IsRecoverablePartialInstall == schema = "full" /\ dbRows = NoRows

\* probePostgres: the answer may be out of date when the migrations run.
ProbePostgres(q) ==
    /\ At(q, "probe")
    /\ IF schema = "none" \/ IsRecoverablePartialInstall
       THEN Step(q, "migrate") ELSE jobs' = [jobs EXCEPT ![q] = NoJob]
    /\ InsRest /\ UNCHANGED <<schema, dbRows, spoilt, disturbed>>

\* runMigrations: the table of the migrations is created on its own, the
\* migrations follow in one transaction.
CreateMigrationsTable(q) ==
    /\ At(q, "migrate") /\ Step(q, "transact")
    /\ schema' = IF schema = "none" THEN "marked" ELSE schema
    /\ InsRest /\ UNCHANGED <<dbRows, spoilt, disturbed>>

RunMigrations(q) ==
    /\ At(q, "transact") /\ schema' = "full" /\ Step(q, "admins")
    /\ InsRest /\ UNCHANGED <<dbRows, spoilt, disturbed>>

\* The database is neither empty nor recoverable, and none of the requests that
\* go on is beyond the probe that finds that.
Unrecoverable(on) ==
    schema = "marked" /\ \A q \in on : jobs[q].pc \notin {"migrate", "transact"}

\* A migration fails, and the transaction is rolled back; bounded like deaths.
MigrationsFail(q) ==
    /\ At(q, "transact") /\ deaths < MaxDeaths /\ deaths' = deaths + 1
    /\ jobs' = [jobs EXCEPT ![q] = NoJob]
    /\ spoilt' = (spoilt \/ Unrecoverable(Installs \ {q}))
    /\ UNCHANGED <<ctx, ownKey, ownCfg, schema, dbRows, inst, secrets, trans,
                   restart, proc, disturbed, firstKey, saves>>

After == [admins |-> "spaces", spaces |-> "members", members |-> "files"]

\* The admin, the workspace and the membership; e-mails and slugs are unique,
\* and a request that meets another's ends with an error.
SaveRow(q) ==
    \E table \in DOMAIN After :
        /\ At(q, table)
        /\ IF jobs[q].d \in dbRows[table]
           THEN /\ jobs' = [jobs EXCEPT ![q] = NoJob]
                /\ UNCHANGED dbRows
           ELSE /\ dbRows' = [dbRows EXCEPT ![table] = @ \cup {jobs[q].d}]
                /\ Step(q, After[table])
        /\ InsRest /\ UNCHANGED <<schema, spoilt, disturbed>>

\* Mutant: the files are written before the membership.
MutReadyForFiles(q) == At(q, "members") \/ At(q, "files")

ReadyForFiles(q) == At(q, "files")

\* buildRuntimeEnv: a key of the environment is kept, others are generated.
BuildRuntimeEnv(q) ==
    [cfg |-> "safe", key |-> IF ownKey = NoKey THEN jobs[q].d ELSE ownKey]

\* writeInstallState, writeInstallSecrets and writeInstallTransitionState.
WriteFiles(q) ==
    /\ ReadyForFiles(q)
    /\ inst' = "safe"
    /\ secrets' = BuildRuntimeEnv(q)
    /\ trans' = TRUE
    /\ jobs' = [jobs EXCEPT ![q] = NoJob]
    /\ UNCHANGED <<ctx, ownKey, ownCfg, schema, dbRows, restart, proc, spoilt,
                   disturbed, firstKey, saves, deaths>>

-----------------------------------------------------------------------------
(* Deaths, promotion and restarts.                                           *)

\* The process of the setup dies and its requests with it: somewhere between
\* two statements, or with the first file or two written.
SetupDies ==
    /\ proc[Setup].mode = "setup" /\ deaths < MaxDeaths /\ deaths' = deaths + 1
    /\ proc' = [proc EXCEPT ![Setup] = [Down EXCEPT !.role = proc[Setup].role]]
    /\ jobs' = [q \in Installs |-> NoJob]
    /\ \/ /\ UNCHANGED <<inst, secrets, disturbed>>
          /\ spoilt' = (spoilt \/ (inst = "none" /\
                  (Unrecoverable({}) \/ dbRows # NoRows \/ (ctx = "env" /\ schema = "full"))))
       \/ \E q \in Installs :
          /\ At(q, "files") /\ inst' = "safe"
          /\ secrets' \in {secrets, BuildRuntimeEnv(q)}
          /\ spoilt' = TRUE /\ disturbed' = TRUE
    /\ UNCHANGED <<ctx, ownKey, ownCfg, schema, dbRows, trans, restart, firstKey,
                   saves>>

\* The supervisor replaces the setup stack, or, without an installer, the
\* operator restarts the process.
Promote(p) ==
    /\ trans
    /\ IF ctx = "installer"
       THEN proc[p].role # "runtime_ha" /\ Boot(p, "runtime_ha", inst)
       ELSE p = Setup /\ proc[p].mode = "setup" /\ Boot(p, "none", inst)
    /\ jobs' = IF p = Setup THEN [q \in Installs |-> NoJob] ELSE jobs
    /\ spoilt' = (spoilt \/ (p = Setup /\ inst = "none" /\ dbRows # NoRows))
    /\ UNCHANGED <<ctx, ownKey, ownCfg, schema, dbRows, inst, secrets, trans,
                   restart, disturbed, saves, deaths>>

\* The supervisor ends the promotion once both runtime processes are there.
EndPromotion ==
    /\ trans /\ \A p \in Both : proc[p].role = "runtime_ha"
    /\ trans' = FALSE
    /\ UNCHANGED <<ctx, ownKey, ownCfg, schema, dbRows, inst, secrets, restart,
                   proc, jobs, spoilt, disturbed, firstKey, saves, deaths>>

\* scheduleApiRestart: in the runtime of the installer a request file that
\* restarts both processes, once until this process was restarted; elsewhere
\* the process exits and is started again.
ScheduleApiRestart(p) ==
    /\ proc[p].mode = "installed" /\ ~proc[p].scheduled
    /\ IF proc[p].role = "runtime_ha"
       THEN /\ restart' = Both
            /\ proc' = [proc EXCEPT ![p].scheduled = TRUE]
            /\ UNCHANGED firstKey
       ELSE Boot(p, proc[p].role, inst) /\ UNCHANGED restart
    /\ UNCHANGED <<ctx, ownKey, ownCfg, schema, dbRows, inst, secrets, trans,
                   jobs, spoilt, disturbed, saves, deaths>>

\* The supervisor recreates the processes one by one; or one of them dies and
\* is started again.
Recreate(p) ==
    /\ proc[p].role = "runtime_ha"
    /\ \/ p \in restart /\ restart' = restart \ {p} /\ UNCHANGED deaths
       \/ deaths < MaxDeaths /\ deaths' = deaths + 1 /\ UNCHANGED restart
    /\ Boot(p, "runtime_ha", inst)
    /\ UNCHANGED <<ctx, ownKey, ownCfg, schema, dbRows, inst, secrets, trans,
                   jobs, spoilt, disturbed, saves>>

-----------------------------------------------------------------------------
(* Settings.                                                                 *)

\* isEditableDeployment
IsEditableDeployment == inst # "none"

\* readCurrentRuntimeEnv: what of the secrets file is not among the settings.
\* PLATFORM_SETTINGS_ENV_KEYS does not name the encryption key.
ReadCurrentRuntimeEnv(p) == [cfg |-> inst, key |-> secrets.key]

\* updateSettings: writeInstallState and writeInstallSecrets; torn: the process
\* dies between them and comes back.
UpdateSettings(p, v, torn) ==
    /\ proc[p].mode = "installed" /\ IsEditableDeployment
    /\ saves < MaxSaves /\ saves' = saves + 1
    /\ inst' = v
    /\ secrets' = IF torn THEN secrets
                  ELSE [cfg |-> v, key |-> ReadCurrentRuntimeEnv(p).key]
    /\ IF torn THEN deaths < MaxDeaths /\ deaths' = deaths + 1 /\ disturbed' = TRUE
                    /\ Boot(p, proc[p].role, v)
       ELSE UNCHANGED <<deaths, disturbed, proc, firstKey>>
    /\ UNCHANGED <<ctx, ownKey, ownCfg, schema, dbRows, trans, restart, jobs,
                   spoilt>>

\* hasPendingRestart
HasPendingRestart(p) == proc[p].cfg # inst

InstallStep(q) ==
    \/ ProbePostgres(q) \/ CreateMigrationsTable(q) \/ RunMigrations(q)
    \/ SaveRow(q) \/ WriteFiles(q)

InsNext ==
    \/ BootFirst \/ SetupDies \/ EndPromotion
    \/ \E q \in Installs : Open(q) \/ InstallStep(q) \/ MigrationsFail(q)
    \/ \E p \in Both :
          \/ Promote(p) \/ ScheduleApiRestart(p) \/ Recreate(p)
          \/ \E v \in {"safe", "unsafe"}, torn \in BOOLEAN : UpdateSettings(p, v, torn)

InsSpec == InsInit /\ [][InsNext]_insVars

\* Processes are started again, requests run on, operators try again, and the
\* supervisor promotes and restarts.
InsFairness ==
    /\ WF_insVars(BootFirst) /\ WF_insVars(EndPromotion)
    /\ \A q \in Installs : WF_insVars(InstallStep(q))
    /\ WF_insVars(\E q \in Installs : Open(q))
    /\ \A p \in Both : WF_insVars(Promote(p)) /\ WF_insVars(p \in restart /\ Recreate(p))

InsFairSpec == InsSpec /\ InsFairness

-----------------------------------------------------------------------------
(* Properties.                                                               *)

\* Whatever overlaps or dies, a process that boots as installed finds an
\* admin who is a member of the default workspace.
InstalledIsComplete ==
    \A p \in Both : proc[p].mode = "installed" =>
        dbRows["admins"] \cap dbRows["spaces"] \cap dbRows["members"] # {}

\* Unless installations have overlapped or a death has torn the files apart,
\* the files give every process that starts the encryption key of the first
\* one, whatever settings were saved and whoever was restarted: updateSettings
\* keeps the secrets that it does not know.
KeyStaysTheSame ==
    ~disturbed /\ firstKey # NoKey =>
        /\ KeyAtBoot = firstKey
        /\ \A p \in Both : proc[p].mode = "installed" => proc[p].key = firstKey

\* What setup and settings leave behind is an installation that starts.
InstallationConsistent == InsTypeOK /\ InstalledIsComplete /\ KeyStaysTheSame

\* A setup ends with an installed process (or a legacy one) unless a death
\* or a failed migration has left tables, rows or files that no installation
\* gets over: what is left of migrations that were committed is built on
\* (isRecoverablePartialInstall).
SetupFinishes ==
    <>(spoilt \/ \E p \in Both : proc[p].mode \in {"installed", "legacy"})

\* README.md: "restartRequired=true means installer state differs from the
\* current process environment and a restart is still pending".
RestartClears ==
    [][\A p \in Both : proc'[p] # proc[p] /\ proc'[p].mode = "installed"
                       /\ ~proc'[p].scheduled => ~HasPendingRestart(p)']_insVars
=============================================================================
