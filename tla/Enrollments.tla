------------------------------ MODULE Enrollments ------------------------------
(***************************************************************************)
(* How a node gets into the system (enrollments.service.ts with            *)
(* createFromEnrollment and delete of nodes.service.ts): an agent asks for *)
(* an enrollment token and polls it until an operator approves it, or an   *)
(* operator creates a bootstrap token for an installer, which reports its  *)
(* progress and trades the token for a node.                               *)
(*                                                                         *)
(* Enrollments and installs are loaded, changed and saved as entities;     *)
(* save is a SELECT that finds the columns to write and an UPDATE.  The    *)
(* agent's credential is a column that only some queries select, and the   *)
(* SELECT of save never does: an entity that has it writes it always.  A   *)
(* node is named by the credential it was created with; host names are     *)
(* unique.                                                                 *)
(***************************************************************************)
EXTENDS Naturals, FiniteSets

CONSTANTS
    Tokens,       \* enrollment tokens, all for the host Self
    NodeInstalls,     \* bootstrap tokens
    Hosts, Self,
    Callers,      \* concurrent requests
    Poller,       \* the agent that polls its enrollment
    MaxNodes,     \* bound: nodes created
    MaxEnrOps,    \* bound: requests other than polls
    MaxFaults     \* bound: requests that die, changes of the workspace

ASSUME EnrollmentsAssumption ==
    /\ Tokens \cap NodeInstalls = {} /\ Self \in Hosts /\ Poller \notin Callers
    /\ MaxNodes \in Nat /\ MaxEnrOps \in Nat /\ MaxFaults \in Nat

VARIABLES
    rows,         \* the tables of enrollments and installs
    nodeOf,       \* the node of each host, 0 for none
    removed,      \* nodes that were deleted
    created,      \* nodes created
    writable,     \* the workspace is not archived
    foundLate,    \* history: tokens that a poll or an approval found expired
    ecalls, enrOps, faults

enrVars == <<rows, nodeOf, removed, created, writable, foundLate,
             ecalls, enrOps, faults>>

Waiting == [pc |-> "idle", op |-> "none", ents |-> [t \in {} |-> 0], host |-> Self]

\* Columns of enrollment.entity.ts: late is expiresAt, as seen by the clock.
EnrollmentRow == [st : {"none", "pending", "approved", "revoked"},
                  late : BOOLEAN, node : 0 .. MaxNodes, cred : 0 .. MaxNodes]

\* Columns of node-install.entity.ts: consumedAt is set exactly with nodeId.
NodeInstallRow == [st : {"none", "pending", "installing", "completed",
                         "failed", "expired"},
                   late : BOOLEAN, node : 0 .. MaxNodes, cred : {0}]

EnrTypeOK ==
    /\ \A t \in Tokens : rows[t] \in EnrollmentRow
    /\ \A i \in NodeInstalls : rows[i] \in NodeInstallRow
    /\ nodeOf \in [Hosts -> 0 .. MaxNodes] /\ removed \subseteq 1 .. MaxNodes
    /\ created \in 0 .. MaxNodes /\ writable \in BOOLEAN
    /\ foundLate \subseteq Tokens
    /\ DOMAIN ecalls = Callers \cup {Poller}

Blank == [st |-> "none", late |-> FALSE, node |-> 0, cred |-> 0]

EnrInit ==
    /\ rows = [t \in Tokens \cup NodeInstalls |-> Blank]
    /\ nodeOf = [h \in Hosts |-> 0] /\ removed = {} /\ created = 0
    /\ writable = TRUE /\ foundLate = {}
    /\ ecalls = [c \in Callers \cup {Poller} |-> Waiting]
    /\ enrOps = 0 /\ faults = 0

-----------------------------------------------------------------------------
tablesEnr == <<rows, nodeOf, removed, created, writable, foundLate>>

EnrOp(c) ==
    /\ c \in Callers /\ ecalls[c] = Waiting
    /\ enrOps < MaxEnrOps /\ enrOps' = enrOps + 1

Go(c, r) == ecalls' = [ecalls EXCEPT ![c] = r]

\* A query that does not select the agent's credential.
Partial(t) == [x \in {"st", "late", "node"} |-> rows[t][x]]

SaveOf(op, ents) == [Waiting EXCEPT !.pc = "select", !.op = op, !.ents = ents]

\* save: the SELECT leaves the columns that differ, and the credential, which
\* it does not read.
SelectRows(c) ==
    LET ents == ecalls[c].ents IN
    /\ ecalls[c].pc = "select"
    /\ Go(c, [ecalls[c] EXCEPT !.pc = "update",
                !.ents = [t \in DOMAIN ents |->
                            [x \in {y \in DOMAIN ents[t] :
                                      y = "cred" \/ ents[t][y] # rows[t][y]}
                               |-> ents[t][x]]]])
    /\ UNCHANGED <<tablesEnr, enrOps, faults>>

\* The row with the columns of an entity.
Over(ent, r) == [x \in DOMAIN ent \cup DOMAIN r |->
                   IF x \in DOMAIN ent THEN ent[x] ELSE r[x]]

\* save: the UPDATE.  A request for a token inserts its own afterwards.
UpdateRows(c) ==
    LET ents == ecalls[c].ents IN
    /\ ecalls[c].pc = "update"
    /\ rows' = [t \in DOMAIN rows |->
                  IF t \in DOMAIN ents THEN Over(ents[t], rows[t]) ELSE rows[t]]
    /\ Go(c, IF ecalls[c].op = "initiate"
             THEN [Waiting EXCEPT !.pc = "insert"] ELSE Waiting)
    /\ UNCHANGED <<nodeOf, removed, created, writable, foundLate, enrOps, faults>>

-----------------------------------------------------------------------------
(* Enrollment tokens.                                                        *)

\* isExpired
IsExpired(t) == rows[t].late

\* revoke: of an entity.
Revoked(ent) == [ent EXCEPT !.st = "revoked", !.late = TRUE]

\* revokePendingByEmailAndHostname: the entities it saves.
RevokePendingByEmailAndHostname ==
    [t \in {u \in Tokens : rows[u].st = "pending"} |-> Revoked(Partial(t))]

\* initiate
Initiate(c) ==
    /\ EnrOp(c)
    /\ Go(c, IF \E t \in Tokens : rows[t].st = "pending"
             THEN SaveOf("initiate", RevokePendingByEmailAndHostname)
             ELSE [Waiting EXCEPT !.pc = "insert"])
    /\ UNCHANGED <<tablesEnr, faults>>

\* initiate: the new token.
InsertToken(c, t) ==
    /\ ecalls[c].pc = "insert" /\ rows[t].st = "none"
    /\ rows' = [rows EXCEPT ![t].st = "pending"]
    /\ Go(c, Waiting)
    /\ UNCHANGED <<nodeOf, removed, created, writable, foundLate, enrOps, faults>>

\* finalize: the entity and its checks.
Finalize(c, t) ==
    /\ EnrOp(c) /\ rows[t].st = "pending"
    /\ IsExpired(t) \/ writable
    /\ Go(c, IF IsExpired(t)
             THEN SaveOf("revoke", [u \in {t} |-> Revoked(rows[t])])
             ELSE [Waiting EXCEPT !.pc = "create", !.op = "approve",
                                  !.ents = [u \in {t} |-> rows[t]]])
    /\ foundLate' = IF IsExpired(t) THEN foundLate \cup {t} ELSE foundLate
    /\ UNCHANGED <<rows, nodeOf, removed, created, writable, faults>>

\* The entity with the node that was created for it.
Approved(ent, n) ==
    [ent EXCEPT !.st = "approved", !.late = TRUE, !.node = n, !.cred = n]

Consumed(ent, n) == [ent EXCEPT !.st = "installing", !.node = n]

\* createFromEnrollment: the host is looked up, then the workspace.
AssertHostnameAvailable(c) ==
    LET r == ecalls[c] IN
    /\ r.pc = "create"
    /\ Go(c, IF nodeOf[r.host] = 0 /\ writable
             THEN [r EXCEPT !.pc = "node"] ELSE Waiting)
    /\ UNCHANGED <<tablesEnr, enrOps, faults>>

NodeSaved(r, n) ==
    SaveOf(r.op, [t \in DOMAIN r.ents |->
                    IF r.op = "approve" THEN Approved(r.ents[t], n)
                    ELSE Consumed(r.ents[t], n)])

\* Mutant: host names are not unique in the table.
MutCreateFromEnrollment(c) ==
    LET r == ecalls[c]
        n == created + 1
    IN
    /\ r.pc = "node" /\ created < MaxNodes
    /\ created' = n
    /\ nodeOf' = [nodeOf EXCEPT ![r.host] = n]
    /\ Go(c, NodeSaved(r, n))
    /\ UNCHANGED <<rows, removed, writable, foundLate, enrOps, faults>>

\* createFromEnrollment: the INSERT, which the name of the host may refuse;
\* then the approval or the consumption is saved.
CreateFromEnrollment(c) ==
    LET r == ecalls[c]
        n == created + 1
        free == nodeOf[r.host] = 0
    IN
    /\ r.pc = "node" /\ (free => created < MaxNodes)
    /\ created' = IF free THEN n ELSE created
    /\ nodeOf' = IF free THEN [nodeOf EXCEPT ![r.host] = n] ELSE nodeOf
    /\ Go(c, IF free THEN NodeSaved(r, n) ELSE Waiting)
    /\ UNCHANGED <<rows, removed, writable, foundLate, enrOps, faults>>

\* Mutant: a poll does not look at the time.
MutGetStatus(t) == FALSE /\ UNCHANGED enrVars

\* getStatus, called by the agent: it revokes what has expired, and otherwise
\* answers without a change.
GetStatus(t) ==
    /\ ecalls[Poller] = Waiting
    /\ rows[t].st = "pending" /\ IsExpired(t)
    /\ Go(Poller, SaveOf("revoke", [u \in {t} |-> Revoked(rows[t])]))
    /\ foundLate' = foundLate \cup {t}
    /\ UNCHANGED <<rows, nodeOf, removed, created, writable, enrOps, faults>>

-----------------------------------------------------------------------------
(* Bootstrap tokens.                                                         *)

\* createNodeInstall
CreateNodeInstall(c, i) ==
    /\ EnrOp(c) /\ writable /\ rows[i].st = "none"
    /\ rows' = [rows EXCEPT ![i].st = "pending"]
    /\ UNCHANGED <<nodeOf, removed, created, writable, foundLate, ecalls, faults>>

\* isNodeInstallExpired
IsNodeInstallExpired(i) == rows[i].node = 0 /\ rows[i].late

\* expireNodeInstall: of the entity as it is loaded.
ExpireNodeInstall(i) ==
    SaveOf("expire", [j \in {i} |-> [Partial(i) EXCEPT !.st = "expired"]])

\* getNodeInstallStatus, as far as expireNodeInstallIfNeeded.
GetNodeInstallStatus(c, i) ==
    /\ EnrOp(c) /\ rows[i].st \notin {"none", "expired"}
    /\ IsNodeInstallExpired(i)
    /\ Go(c, ExpireNodeInstall(i))
    /\ UNCHANGED <<tablesEnr, faults>>

\* reportNodeInstallProgress: an ended install takes no other status.
ReportNodeInstallProgress(c, i, status) ==
    /\ EnrOp(c) /\ rows[i].st \notin {"none", "expired"}
    /\ \/ IsNodeInstallExpired(i)
       \/ rows[i].st \in {"completed", "failed"} => rows[i].st = status
    /\ Go(c, IF IsNodeInstallExpired(i) THEN ExpireNodeInstall(i)
             ELSE SaveOf("report", [j \in {i} |->
                                      [Partial(i) EXCEPT !.st = status]]))
    /\ UNCHANGED <<tablesEnr, faults>>

\* consumeNodeInstall: the entity and its checks.
ConsumeNodeInstall(c, i, h) ==
    /\ EnrOp(c) /\ rows[i].st # "none" /\ rows[i].node = 0
    /\ IsNodeInstallExpired(i) \/ writable
    /\ Go(c, IF IsNodeInstallExpired(i) THEN ExpireNodeInstall(i)
             ELSE [Waiting EXCEPT !.pc = "create", !.op = "consume",
                                  !.host = h,
                                  !.ents = [j \in {i} |-> Partial(i)]])
    /\ UNCHANGED <<tablesEnr, faults>>

-----------------------------------------------------------------------------
\* Fifteen minutes are over.
TokenLate(t) ==
    /\ rows[t].st # "none" /\ ~rows[t].late
    /\ rows' = [rows EXCEPT ![t].late = TRUE]
    /\ UNCHANGED <<nodeOf, removed, created, writable, foundLate, ecalls, enrOps,
                   faults>>

\* delete of a node, which frees the name of its host.
DeleteNode(c, h) ==
    /\ EnrOp(c) /\ nodeOf[h] # 0 /\ writable
    /\ removed' = removed \cup {nodeOf[h]}
    /\ nodeOf' = [nodeOf EXCEPT ![h] = 0]
    /\ UNCHANGED <<rows, created, writable, foundLate, ecalls, faults>>

Fault == faults < MaxFaults /\ faults' = faults + 1

\* The process dies, and the request with it.
CallDies(c) ==
    /\ Fault /\ ecalls[c] # Waiting
    /\ Go(c, Waiting)
    /\ UNCHANGED <<tablesEnr, enrOps>>

\* The workspace is archived or restored.
ToggleWorkspace ==
    /\ Fault /\ writable' = ~writable
    /\ UNCHANGED <<rows, nodeOf, removed, created, foundLate, ecalls, enrOps>>

CallStep(c) ==
    \/ SelectRows(c) \/ UpdateRows(c)
    \/ AssertHostnameAvailable(c) \/ CreateFromEnrollment(c)
    \/ \E t \in Tokens : InsertToken(c, t)

TokenRequest(c) ==
    \/ Initiate(c)
    \/ \E t \in Tokens : Finalize(c, t)

InstallerRequest(c) ==
    \E i \in NodeInstalls :
        \/ \E s \in {"installing", "completed", "failed"} :
              ReportNodeInstallProgress(c, i, s)
        \/ \E h \in Hosts : ConsumeNodeInstall(c, i, h)

OperatorRequest(c) ==
    \/ \E i \in NodeInstalls : CreateNodeInstall(c, i) \/ GetNodeInstallStatus(c, i)
    \/ \E h \in Hosts : DeleteNode(c, h)

EnrNext ==
    \/ \E c \in Callers :
          TokenRequest(c) \/ InstallerRequest(c) \/ OperatorRequest(c)
    \/ \E c \in Callers \cup {Poller} : CallStep(c) \/ CallDies(c)
    \/ \E t \in Tokens : GetStatus(t)
    \/ \E t \in Tokens \cup NodeInstalls : TokenLate(t)
    \/ ToggleWorkspace

\* The agent polls on, requests make progress and time passes.
EnrFairness ==
    /\ \A t \in Tokens : WF_enrVars(GetStatus(t)) /\ WF_enrVars(TokenLate(t))
    /\ \A c \in Callers \cup {Poller} : WF_enrVars(CallStep(c))

EnrSpec == EnrInit /\ [][EnrNext]_enrVars

EnrFairSpec == EnrSpec /\ EnrFairness

-----------------------------------------------------------------------------
(* Properties.                                                               *)

\* Until a node is deleted, an approved enrollment names the node that was
\* created for it and hands out its credential, however many approvals,
\* revocations and newer requests overlap.  A request that found the token
\* expired before it was approved may still clear the credential: it writes
\* the column that it had loaded empty.  No other credential is handed out.
ApprovedHasNode ==
    /\ EnrTypeOK
    /\ removed = {} =>
          \A t \in Tokens : rows[t].st = "approved" =>
             /\ rows[t].node # 0 /\ rows[t].node = nodeOf[Self]
             /\ rows[t].cred \in {0, nodeOf[Self]}
             /\ t \notin foundLate => rows[t].cred = nodeOf[Self]

\* An agent that polls its token is answered: nothing stays pending.
EnrollmentSettles ==
    \A t \in Tokens : rows[t].st = "pending" ~> rows[t].st # "pending"

\* consumeNodeInstall: "Bootstrap token has already been used".  With no
\* enrollment in sight, one token makes one node.
BootstrapOnce == created <= Cardinality(NodeInstalls)
=============================================================================
