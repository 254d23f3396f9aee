---------------------------- MODULE PlatformUpdates ----------------------------
(***************************************************************************)
(* Updates of the control plane (control-plane-updates.service.ts): API    *)
(* processes queue the download and the application of a release in two    *)
(* files, a supervisor on the host consumes the request file and writes    *)
(* the state file, every summary repairs what an application has left      *)
(* behind, and a monitor writes finished operations to the audit log.      *)
(*                                                                         *)
(* A request reads the files, waits for the release feed (and, before an   *)
(* application, for the rollouts) and then writes the two files one after  *)
(* the other; processes share nothing but the files.  The supervisor is    *)
(* not part of the repository: it is modelled from README.md and from the  *)
(* statuses of install-state.ts, with one "busy" for those in between.     *)
(***************************************************************************)
EXTENDS Naturals, FiniteSets

CONSTANTS
    Procs,        \* API processes
    Releases, First, NoRelease,
    VersionOf,    \* the version of every release; a release is built anew
                  \* under the same version with another id
    MaxQueued,    \* bound: requests of the operators
    MaxMishaps    \* bound: deaths of processes and of the supervisor

ASSUME UpdatesAssumption ==
    First \in Releases /\ NoRelease \notin Releases
    /\ MaxQueued \in Nat /\ MaxMishaps \in Nat

VARIABLES
    running,      \* the release of every process
    feed,         \* the latest release, or NoRelease if the feed is down
    cache,        \* the release every process has seen last
    upd,          \* platform-update-state.json
    reqf,         \* platform-update-request.json
    work,         \* the operator's request in every process
    monitor,      \* the state that reconcileTerminalAuditState has read
    promoting, rollout,
    sup,          \* the supervisor's operation
    have,         \* history: releases that were downloaded
    replaced,     \* history: a manifest gave a prepared release another id
    crossed,      \* history: writers of the files have overlapped, or died
    queued, mishaps

updVars == <<running, feed, cache, upd, reqf, work, monitor, promoting,
             rollout, sup, have, replaced, crossed, queued, mishaps>>

NoFile == [op |-> "none", st |-> "none", target |-> NoRelease,
           prep |-> NoRelease, old |-> FALSE, audited |-> FALSE]
NoRequest == [op |-> "none", target |-> NoRelease]
Unasked == [pc |-> "idle", op |-> "none", s |-> NoFile, r |-> NoRequest]

Operations == {"download", "apply"}
Statuses == {"queued", "busy", "prepared", "completed", "failed"}
Ends == {"completed", "failed"}

\* PlatformUpdateState; old: it is older than staleApplyTimeoutMs.
StateFiles ==
    {NoFile} \cup
    [op : Operations, st : Statuses, target : Releases,
     prep : Releases \cup {NoRelease}, old : BOOLEAN, audited : BOOLEAN]

\* PlatformUpdateRequestState
RequestFiles == {NoRequest} \cup [op : Operations, target : Releases]

UpdTypeOK ==
    /\ running \in [Procs -> Releases] /\ feed \in Releases \cup {NoRelease}
    /\ cache \in [Procs -> Releases \cup {NoRelease}]
    /\ upd \in StateFiles /\ reqf \in RequestFiles /\ sup \in RequestFiles
    /\ monitor \in StateFiles /\ have \subseteq Releases
    /\ replaced \in BOOLEAN

UpdInit ==
    /\ running = [p \in Procs |-> First] /\ feed = First
    /\ cache = [p \in Procs |-> NoRelease]
    /\ upd = NoFile /\ reqf = NoRequest
    /\ work = [p \in Procs |-> Unasked] /\ monitor = NoFile
    /\ promoting \in BOOLEAN /\ rollout = FALSE
    /\ sup = NoRequest /\ have = {First}
    /\ replaced = FALSE /\ crossed = FALSE /\ queued = 0 /\ mishaps = 0

-----------------------------------------------------------------------------
(* What a summary makes of the files (s and r are their contents).           *)

Files(s, r) == [s |-> s, r |-> r]

\* reconcileStaleNoopApplyState
ReconcileStaleNoopApplyState(p, s, r) ==
    LET here(target) == target = running[p]
        stateIsStaleNoop == s.op = "apply" /\ s.st \notin Ends
                            /\ here(s.target) /\ here(s.prep)
        requestIsInstalled == r.op = "apply" /\ here(r.target)
    IN  Files(IF stateIsStaleNoop THEN NoFile ELSE s,
              IF requestIsInstalled THEN NoRequest ELSE r)

\* Mutant: only an application that was started is given up.
MutReconcileStarted(p, s, r) ==
    IF s.op # "apply" \/ s.st # "busy" \/ ~s.old THEN Files(s, r)
    ELSE IF s.target = running[p]
         THEN Files([s EXCEPT !.st = "completed", !.prep = NoRelease], NoRequest)
         ELSE Files([s EXCEPT !.st = "failed"], NoRequest)

\* reconcileStaleActiveApplyState
ReconcileStaleActiveApplyState(p, s, r) ==
    IF s.op # "apply" \/ s.st \in Ends \/ ~s.old THEN Files(s, r)
    ELSE IF s.target = running[p]
         THEN Files([s EXCEPT !.st = "completed", !.prep = NoRelease], NoRequest)
         ELSE Files([s EXCEPT !.st = "failed"], NoRequest)

\* Both, on what safeReadPlatformUpdateState and safeReadPlatformUpdateRequest
\* have read.
Reconciled(p) ==
    LET f == ReconcileStaleNoopApplyState(p, upd, reqf)
    IN  ReconcileStaleActiveApplyState(p, f.s, f.r)

\* The preparedRelease of a summary, before its manifest is asked for.
Prepared(p, s) == IF s.prep = running[p] THEN NoRelease ELSE s.prep

\* hydrateRelease: the manifest of the version may name another release of it,
\* a manifest that cannot be had leaves the release as it is.
Hydrated(l) ==
    IF l = NoRelease THEN {NoRelease}
    ELSE {h \in Releases : VersionOf[h] = VersionOf[l]}

\* toOperationDto and assertNoConcurrentOperation: an operation is reported
\* that keeps others from being queued.
ConcurrentOperation(s, r) ==
    IF s # NoFile THEN s.st \in {"queued", "busy"} ELSE r # NoRequest

\* getSummary, up to the release feed.
ReadFiles(p) == upd' = Reconciled(p).s /\ reqf' = Reconciled(p).r

\* getLatestRelease: a failed lookup answers what was seen last.
GetLatestRelease(p, force, l) ==
    /\ l \in {cache[p]} \cup (IF force \/ cache[p] = NoRelease THEN {feed} ELSE {})
    /\ cache' = [cache EXCEPT ![p] = l]

\* GET /control-plane-updates/summary
GetSummary(p) ==
    /\ work[p] = Unasked
    /\ ReadFiles(p)
    /\ \E l \in Releases \cup {NoRelease} : GetLatestRelease(p, FALSE, l)
    /\ UNCHANGED <<running, feed, work, monitor, promoting, rollout, sup, have,
                   replaced, crossed, queued, mishaps>>

-----------------------------------------------------------------------------
(* The operators' requests.                                                  *)

GoOn(p, w) == work' = [work EXCEPT ![p] = w]

\* queueDownload and queueApply up to the first await.
Begin(p, op) ==
    /\ work[p] = Unasked /\ queued < MaxQueued /\ queued' = queued + 1
    /\ ReadFiles(p)
    /\ GoOn(p, [pc |-> "feed", op |-> op, s |-> Reconciled(p).s,
              r |-> Reconciled(p).r])
    /\ UNCHANGED <<running, feed, cache, monitor, promoting, rollout, sup, have,
                   replaced, crossed, mishaps>>

\* Another process, the monitor, or a supervisor that was given up has read
\* the files and will write them.
Overlapping(p) ==
    monitor # NoFile \/ sup # NoRequest \/ \E q \in Procs \ {p} : work[q].pc # "idle"

\* writePlatformUpdateState of a queued operation.
WriteQueued(p, op, target, prep) ==
    /\ upd' = [op |-> op, st |-> "queued", target |-> target, prep |-> prep,
               old |-> FALSE, audited |-> FALSE]
    /\ crossed' = (crossed \/ Overlapping(p))
    /\ GoOn(p, [Unasked EXCEPT !.pc = "request",
                             !.r = [op |-> op, target |-> target]])

\* queueDownload, once the feed and the manifests have answered.
QueueDownload(p) ==
    LET w == work[p] IN
    /\ w.pc = "feed" /\ w.op = "download"
    /\ \E l \in Releases \cup {NoRelease} :
          /\ GetLatestRelease(p, TRUE, l)
          /\ \E latest \in Hydrated(l), prep \in Hydrated(Prepared(p, w.s)),
                here \in Hydrated(running[p]) :
                /\ replaced' = (replaced \/ prep # Prepared(p, w.s))
                /\ IF \/ ConcurrentOperation(w.s, w.r) \/ latest = NoRelease
                      \/ latest \in {prep, here}
                   THEN GoOn(p, Unasked) /\ UNCHANGED <<upd, crossed>>
                   ELSE WriteQueued(p, "download", latest, prep)
    /\ UNCHANGED <<running, feed, reqf, monitor, promoting, rollout, sup, have,
                   queued, mishaps>>

\* queueApply, once the feed and the manifests have answered.
QueueApply(p) ==
    LET w == work[p] IN
    /\ w.pc = "feed" /\ w.op = "apply"
    /\ \E l \in Releases \cup {NoRelease} : GetLatestRelease(p, FALSE, l)
    /\ \E prep \in Hydrated(Prepared(p, w.s)), here \in Hydrated(running[p]) :
          /\ replaced' = (replaced \/ prep # Prepared(p, w.s))
          /\ IF \/ ConcurrentOperation(w.s, w.r) \/ promoting
                \/ prep \in {NoRelease, here}
             THEN GoOn(p, Unasked)
             ELSE GoOn(p, [w EXCEPT !.pc = "rollout",
                                    !.r = [op |-> "apply", target |-> prep]])
    /\ UNCHANGED <<running, feed, upd, reqf, monitor, promoting, rollout, sup,
                   have, crossed, queued, mishaps>>

\* Mutant: the latest release is applied, not the one that is prepared.
MutApplyUnlessRollout(p) ==
    LET w == work[p] IN
    /\ w.pc = "rollout"
    /\ IF rollout \/ cache[p] = NoRelease
       THEN GoOn(p, Unasked) /\ UNCHANGED <<upd, crossed>>
       ELSE WriteQueued(p, "apply", cache[p], cache[p])
    /\ UNCHANGED <<running, feed, cache, reqf, monitor, promoting, rollout, sup,
                   have, replaced, queued, mishaps>>

\* queueApply, once findActiveRollout has answered.
ApplyUnlessRollout(p) ==
    LET w == work[p] IN
    /\ w.pc = "rollout"
    /\ IF rollout
       THEN GoOn(p, Unasked) /\ UNCHANGED <<upd, crossed>>
       ELSE WriteQueued(p, "apply", w.r.target, w.r.target)
    /\ UNCHANGED <<running, feed, cache, reqf, monitor, promoting, rollout, sup,
                   have, replaced, queued, mishaps>>

\* writePlatformUpdateRequestState
WriteRequest(p) ==
    LET w == work[p] IN
    /\ w.pc = "request"
    /\ reqf' = w.r
    /\ crossed' = (crossed \/ Overlapping(p))
    /\ GoOn(p, Unasked)
    /\ UNCHANGED <<running, feed, cache, upd, monitor, promoting, rollout, sup,
                   have, replaced, queued, mishaps>>

-----------------------------------------------------------------------------
(* The monitor, in one process at a time (runWithLock).                      *)

\* reconcileTerminalAuditState up to the audit record.
ReadTerminalState ==
    /\ monitor = NoFile /\ upd.st \in Ends /\ ~upd.audited
    /\ monitor' = upd
    /\ UNCHANGED <<running, feed, cache, upd, reqf, work, promoting, rollout,
                   sup, have, replaced, crossed, queued, mishaps>>

\* It writes the state that it has read back.
ReconcileTerminalAuditState ==
    /\ monitor # NoFile
    /\ upd' = [monitor EXCEPT !.audited = TRUE]
    /\ monitor' = NoFile
    /\ UNCHANGED <<running, feed, cache, reqf, work, promoting, rollout, sup,
                   have, replaced, crossed, queued, mishaps>>

-----------------------------------------------------------------------------
(* The supervisor (external), the clock and mishaps.                         *)

\* It consumes the request file; what is prepared stays so.
SupervisorStart ==
    /\ sup = NoRequest /\ reqf # NoRequest
    /\ sup' = reqf /\ reqf' = NoRequest
    /\ upd' = [upd EXCEPT !.op = reqf.op, !.st = "busy", !.target = reqf.target,
                          !.old = FALSE, !.audited = FALSE]
    /\ crossed' = (crossed \/ monitor # NoFile)
    /\ UNCHANGED <<running, feed, cache, work, monitor, promoting, rollout,
                   have, replaced, queued, mishaps>>

\* A download or an application ends, with the state that is left.
SupervisorEnd ==
    /\ sup # NoRequest /\ sup' = NoRequest
    /\ \/ /\ sup.op = "download" /\ have' = have \cup {sup.target}
          /\ upd' = [op |-> "download", st |-> "prepared", target |-> sup.target,
                     prep |-> sup.target, old |-> FALSE, audited |-> FALSE]
       \/ /\ sup.op = "apply" /\ \A p \in Procs : running[p] = sup.target
          /\ upd' = [op |-> "apply", st |-> "completed", target |-> sup.target,
                     prep |-> NoRelease, old |-> FALSE, audited |-> FALSE]
          /\ UNCHANGED have
       \/ /\ sup.op = "download" \/ \A p \in Procs : running[p] # sup.target
          /\ upd' = [op |-> sup.op, st |-> "failed", target |-> sup.target,
                     prep |-> upd.prep, old |-> FALSE, audited |-> FALSE]
          /\ UNCHANGED have
    /\ UNCHANGED <<running, feed, cache, reqf, work, monitor, promoting,
                   rollout, replaced, crossed, queued, mishaps>>

\* An application recreates the processes one by one; a request in progress
\* ends with its process.
SupervisorRecreates(p) ==
    /\ sup.op = "apply" /\ running[p] # sup.target
    /\ running' = [running EXCEPT ![p] = sup.target]
    /\ cache' = [cache EXCEPT ![p] = NoRelease]
    /\ crossed' = (crossed \/ work[p].pc = "request")
    /\ GoOn(p, Unasked)
    /\ UNCHANGED <<feed, upd, reqf, monitor, promoting, rollout, sup, have,
                   replaced, queued, mishaps>>

\* The supervisor dies in the middle of an operation, or a process between its
\* two writes.
Mishap ==
    /\ mishaps < MaxMishaps /\ mishaps' = mishaps + 1
    /\ \/ sup # NoRequest /\ sup' = NoRequest /\ UNCHANGED <<work, crossed>>
       \/ \E p \in Procs : work[p].pc # "idle" /\ GoOn(p, Unasked)
          /\ crossed' = (crossed \/ work[p].pc = "request")
          /\ UNCHANGED sup
    /\ UNCHANGED <<running, feed, cache, upd, reqf, monitor, promoting, rollout,
                   have, replaced, queued>>

\* A process dies between the two files that a summary repairs.
DiesReconciling(p) ==
    LET f == ReconcileStaleNoopApplyState(p, upd, reqf) IN
    /\ mishaps < MaxMishaps /\ mishaps' = mishaps + 1
    /\ work[p] = Unasked
    /\ upd' \in {upd, Reconciled(p).s} /\ reqf' = f.r
    /\ crossed' = TRUE
    /\ UNCHANGED <<running, feed, cache, work, monitor, promoting, rollout, sup,
                   have, replaced, queued>>

\* Fifteen minutes have passed since the operation was requested or started;
\* the two writes of a request are not that far apart.
Age ==
    /\ \A p \in Procs : work[p].pc # "request"
    /\ upd.st \in {"queued", "busy"} /\ ~upd.old
    /\ upd' = [upd EXCEPT !.old = TRUE]
    /\ UNCHANGED <<running, feed, cache, reqf, work, monitor, promoting,
                   rollout, sup, have, replaced, crossed, queued, mishaps>>

\* A release comes out or the feed fails; the promotion ends; a rollout begins
\* or ends.
Outside ==
    /\ \/ feed' \in (Releases \cup {NoRelease}) \ {feed} /\ queued < MaxQueued
          /\ UNCHANGED <<promoting, rollout>>
       \/ promoting /\ promoting' = FALSE /\ UNCHANGED <<feed, rollout>>
       \/ rollout' = ~rollout /\ queued < MaxQueued /\ UNCHANGED <<feed, promoting>>
    /\ UNCHANGED <<running, cache, upd, reqf, work, monitor, sup, have,
                   replaced, crossed, queued, mishaps>>

UpdNext ==
    \/ \E p \in Procs :
          \/ GetSummary(p) \/ QueueDownload(p) \/ QueueApply(p)
          \/ DiesReconciling(p)
          \/ \E op \in Operations : Begin(p, op)
          \/ ApplyUnlessRollout(p) \/ WriteRequest(p) \/ SupervisorRecreates(p)
    \/ ReadTerminalState \/ ReconcileTerminalAuditState
    \/ SupervisorStart \/ SupervisorEnd \/ Mishap \/ Age \/ Outside

UpdSpec == UpdInit /\ [][UpdNext]_updVars

\* Requests and the monitor run on, time passes, and somebody asks for the
\* summary again and again.  Nothing is assumed of the supervisor.
UpdFairness ==
    /\ \A p \in Procs :
          /\ WF_updVars(GetSummary(p))
          /\ WF_updVars(QueueDownload(p) \/ QueueApply(p) \/ ApplyUnlessRollout(p)
                        \/ WriteRequest(p))
    /\ WF_updVars(ReconcileTerminalAuditState) /\ WF_updVars(Age)

UpdFairSpec == UpdSpec /\ UpdFairness

-----------------------------------------------------------------------------
(* Properties.                                                               *)

\* The releases that count as downloaded: of a version that was, and as long as
\* no manifest gave a prepared release another id, the very release that was.
Downloaded ==
    {r \in Releases : /\ \E h \in have : VersionOf[h] = VersionOf[r]
                      /\ ~replaced => r \in have}

\* Whatever overlaps or dies, no version is applied that was not downloaded
\* before: queueApply takes the release of the summary, whose id is the one that
\* the manifest of the version names at that moment.
AppliedWasPrepared ==
    /\ sup.op = "apply" => sup.target \in Downloaded
    /\ \A p \in Procs : running[p] \in Downloaded

\* Unless writers of the files have overlapped or died, a request that waits
\* for the supervisor is reported as an operation in progress, so that no
\* other one takes its place.
PendingIsShown ==
    ~crossed /\ reqf # NoRequest =>
        \A p \in Procs : LET f == Reconciled(p) IN
                         f.r # NoRequest => ConcurrentOperation(f.s, f.r)

\* The files that the API and the supervisor share stay consistent.
UpdatesConsistent == UpdTypeOK /\ AppliedWasPrepared /\ PendingIsShown

ApplyInProgress == upd.op = "apply" /\ upd.st \in {"queued", "busy"}

\* Even if the supervisor never answers, an application comes to an end in the
\* state file: reconcileStaleActiveApplyState gives it up.
ApplySettles == ApplyInProgress ~> ~ApplyInProgress

\* README.md: "Completed and failed control-plane update transitions are
\* written into audit logs."
EveryEndAudited ==
    [][upd.st \in Ends /\ ~upd.audited => upd' = upd \/ upd'.audited]_updVars
=============================================================================
