------------------------------ MODULE Workspaces ------------------------------
(***************************************************************************)
(* Workspaces, their members and teams (workspaces.service.ts, with        *)
(* updateTeamAssignment of nodes.service.ts and the data bootstrap that    *)
(* legacy deployments run at every start).  The actors are platform admins *)
(* and one further user; there is one team, of the workspace Home, and one *)
(* node of Home that may be assigned to it.                                *)
(*                                                                         *)
(* A request reads everything that it checks in one step and writes in     *)
(* later ones.  save of an entity is a SELECT by id, which decides between *)
(* INSERT and UPDATE and which columns to write, and that statement.       *)
(* An installer-managed deployment has the constraints of the migrations   *)
(* only; a legacy one has those of workspace-schema.bootstrap.ts as well:  *)
(* a unique default workspace, and foreign keys of teams and nodes.        *)
(***************************************************************************)
EXTENDS Naturals

CONSTANTS
    Ids,          \* ids of workspaces
    Home,         \* the workspace of the team and of the node
    Spare,        \* an id that only the data bootstrap uses
    Reqs,         \* concurrent requests
    MaxWsOps,     \* bound: requests
    MaxRestarts   \* bound: restarts of the process

ASSUME WorkspacesAssumption ==
    /\ Home \in Ids /\ Spare \in Ids \ {Home}
    /\ MaxWsOps \in Nat /\ MaxRestarts \in Nat

VARIABLES
    legacy,       \* the deployment was not made by the installer
    ws,           \* the table of workspaces
    member,       \* the user's membership of every workspace
    team,         \* the team: "new", "there" or "gone"
    teamed,       \* the user's row in team_memberships
    assigned,     \* teamId of the node is set
    reqs, boot,
    overlap,      \* history: a request began while another was in progress
    wsOps, restarts

wsVars == <<legacy, ws, member, team, teamed, assigned, reqs, boot, overlap,
            wsOps, restarts>>

tables == <<ws, member, team, teamed, assigned>>

WsColumns == {"arch", "def", "slug"}

NoChange == [x \in {} |-> FALSE]
Nobody == [role |-> "none", id |-> 0]
Free == [pc |-> "idle", op |-> "none", w |-> Home, ent |-> NoChange,
         makeDefault |-> FALSE, snap |-> {}, mem |-> Nobody]

\* slug: the slug is "default".
WorkspaceRow == [st : {"new", "live", "gone"}, arch : BOOLEAN,
                 def : BOOLEAN, slug : BOOLEAN]

\* OWNER and ADMIN are "admin", MEMBER and VIEWER "member".
MembershipRow == [role : {"none", "member", "admin"}, id : 0 .. MaxWsOps + MaxRestarts]

WsTypeOK ==
    /\ legacy \in BOOLEAN /\ ws \in [Ids -> WorkspaceRow]
    /\ member \in [Ids -> MembershipRow]
    /\ team \in {"new", "there", "gone"}
    /\ teamed \in BOOLEAN /\ assigned \in BOOLEAN
    /\ DOMAIN reqs = Reqs
    /\ boot \in {"up", "workspace", "flag", "members", "teams"}

Absent == [st |-> "new", arch |-> FALSE, def |-> FALSE, slug |-> FALSE]

\* Home is the default workspace, with the slug that it was created with or
\* another one; the other workspaces but Spare exist or do not.
WsInit ==
    /\ legacy \in BOOLEAN
    /\ \E live \in SUBSET (Ids \ {Home, Spare}), slug \in BOOLEAN :
          ws = [w \in Ids |->
                  [Absent EXCEPT !.st = IF w \in live \cup {Home}
                                        THEN "live" ELSE "new",
                                 !.def = (w = Home),
                                 !.slug = (slug /\ w = Home)]]
    /\ member = [w \in Ids |-> IF w = Home THEN [role |-> "admin", id |-> 0]
                               ELSE Nobody]
    /\ team \in {"new", "there"}
    /\ teamed \in {FALSE, team = "there"} /\ assigned \in {FALSE, team = "there"}
    /\ reqs = [q \in Reqs |-> Free] /\ boot = "up"
    /\ overlap = FALSE /\ wsOps = 0 /\ restarts = 0

-----------------------------------------------------------------------------
Live(w) == ws[w].st = "live"

Defaults == {w \in Ids : Live(w) /\ ws[w].def}

\* assertWorkspaceAdmin
AssertWorkspaceAdmin(w, platform) == platform \/ member[w].role = "admin"

\* assertWorkspaceWritable
AssertWorkspaceWritable(w) == Live(w) /\ ~ws[w].arch

\* hasDefaultWorkspace
HasDefaultWorkspace == Defaults # {}

\* The request q has passed its checks and goes on with r.
Begin(q, r) ==
    /\ reqs[q] = Free /\ boot = "up"
    /\ wsOps < MaxWsOps /\ wsOps' = wsOps + 1
    /\ overlap' = (overlap \/ \E p \in Reqs : reqs[p] # Free)
    /\ reqs' = [reqs EXCEPT ![q] = r]
    /\ UNCHANGED <<legacy, tables, boot, restarts>>

WsEnd(q) == reqs' = [reqs EXCEPT ![q] = Free]

Quiet == UNCHANGED <<legacy, boot, overlap, wsOps, restarts>>

\* A slug is unique in every deployment, a default workspace in a legacy one.
Allowed(table) ==
    \A v, w \in {u \in Ids : table[u].st = "live"} :
        \/ table[v].slug /\ table[w].slug
        \/ legacy /\ table[v].def /\ table[w].def
        => v = w

-----------------------------------------------------------------------------
(* Workspaces.                                                               *)

\* createWorkspace, as far as the INSERT.
CreateWorkspace(q, w, isDefault, isArchived, slug) ==
    /\ ws[w].st = "new" /\ w # Spare
    /\ slug => ~ \E v \in Ids : Live(v) /\ ws[v].slug
    /\ Begin(q, [Free EXCEPT !.pc = "insert", !.op = "workspace", !.w = w,
                   !.ent = [arch |-> isArchived, def |-> FALSE, slug |-> slug],
                   !.makeDefault = isDefault \/ ~HasDefaultWorkspace])

\* isUnarchiveOnlyRequest
IsUnarchiveOnlyRequest(dto) == dto = [x \in {"arch"} |-> FALSE]

Asks(dto, x) == x \in DOMAIN dto /\ dto[x]

\* The columns of ent, written over a row.
Over(ent, row) == [x \in DOMAIN ent \cup DOMAIN row |->
                     IF x \in DOMAIN ent THEN ent[x] ELSE row[x]]

\* Mutant: the default workspace may be unset directly.
MutUpdateWorkspace(q, w, platform, dto) ==
    /\ Live(w) /\ AssertWorkspaceAdmin(w, platform)
    /\ ws[w].arch => IsUnarchiveOnlyRequest(dto)
    /\ Begin(q, [Free EXCEPT !.pc = "select", !.op = "workspace", !.w = w,
                   !.ent = Over(dto, [x \in WsColumns |-> ws[w][x]]),
                   !.makeDefault = Asks(dto, "def")])

\* updateWorkspace: dto holds the fields of the request that matter here.
\* isDefault is not assigned to the entity; setDefaultWorkspace follows the
\* save.
UpdateWorkspace(q, w, platform, dto) ==
    /\ Live(w) /\ AssertWorkspaceAdmin(w, platform)
    /\ ws[w].arch => IsUnarchiveOnlyRequest(dto)
    /\ "def" \in DOMAIN dto => platform /\ (dto["def"] \/ ~ws[w].def)
    /\ ~(Asks(dto, "arch") /\ ws[w].def)
    /\ ~(Asks(dto, "def") /\ (ws[w].arch \/ Asks(dto, "arch")))
    /\ Asks(dto, "slug") => ~ \E v \in Ids \ {w} : Live(v) /\ ws[v].slug
    /\ Begin(q, [Free EXCEPT !.pc = "select", !.op = "workspace", !.w = w,
                   !.ent = [x \in WsColumns |->
                              IF x \in DOMAIN dto /\ x # "def"
                              THEN dto[x] ELSE ws[w][x]],
                   !.makeDefault = Asks(dto, "def")])

\* save: the SELECT.  An entity whose row is gone is inserted again.
SelectWorkspace(q) ==
    LET r == reqs[q] IN
    /\ r.pc = "select" /\ r.op = "workspace"
    /\ reqs' = [reqs EXCEPT ![q] =
          IF Live(r.w)
          THEN [r EXCEPT !.pc = "update",
                  !.ent = [x \in {y \in WsColumns : r.ent[y] # ws[r.w][y]}
                             |-> r.ent[x]]]
          ELSE [r EXCEPT !.pc = "insert"]]
    /\ UNCHANGED tables /\ Quiet

\* save: the UPDATE or INSERT, refused if it breaks a unique index.
WriteWorkspace(q) ==
    LET r == reqs[q]
        next == IF r.pc = "insert"
                THEN [ws EXCEPT ![r.w] = Over(r.ent, [Absent EXCEPT !.st = "live"])]
                ELSE IF Live(r.w) THEN [ws EXCEPT ![r.w] = Over(r.ent, @)]
                ELSE ws
    IN
    /\ r.pc \in {"insert", "update"} /\ r.op = "workspace"
    /\ IF Allowed(next)
       THEN /\ ws' = next
            /\ IF r.makeDefault
               THEN reqs' = [reqs EXCEPT ![q].pc = "clear"]
               ELSE WsEnd(q)
       ELSE UNCHANGED ws /\ WsEnd(q)
    /\ UNCHANGED <<member, team, teamed, assigned>> /\ Quiet

\* setDefaultWorkspace: the snapshot of the statement that clears the flags.
ClearDefault(q) ==
    /\ reqs[q].pc = "clear"
    /\ reqs' = [reqs EXCEPT ![q].pc = "set", ![q].snap = Defaults]
    /\ UNCHANGED tables /\ Quiet

\* setDefaultWorkspace: the transaction waits for the rows of its snapshot,
\* clears them, sets its own and commits, unless the index refuses it.
SetDefaultWorkspace(q) ==
    LET r == reqs[q]
        next == [w \in Ids |->
                   IF w = r.w /\ Live(w) THEN [ws[w] EXCEPT !.def = TRUE]
                   ELSE IF w \in r.snap THEN [ws[w] EXCEPT !.def = FALSE]
                   ELSE ws[w]]
    IN
    /\ r.pc = "set"
    /\ ws' = IF Allowed(next) THEN next ELSE ws
    /\ WsEnd(q)
    /\ UNCHANGED <<member, team, teamed, assigned>> /\ Quiet

\* deleteWorkspace: the checks.
DeleteWorkspace(q, w, platform) ==
    /\ AssertWorkspaceWritable(w) /\ AssertWorkspaceAdmin(w, platform)
    /\ ~ws[w].def
    /\ Begin(q, [Free EXCEPT !.pc = "remove", !.op = "workspace", !.w = w])

\* remove: memberships go with the workspace everywhere, teams and nodes where
\* they have foreign keys.
RemoveWorkspace(q) ==
    LET w == reqs[q].w
        cascade == legacy /\ w = Home
    IN
    /\ reqs[q].pc = "remove" /\ reqs[q].op = "workspace"
    /\ ws' = [ws EXCEPT ![w].st = "gone"]
    /\ member' = [member EXCEPT ![w].role = "none"]
    /\ team' = IF cascade THEN "gone" ELSE team
    /\ teamed' = (teamed /\ ~cascade)
    /\ assigned' = (assigned /\ ~cascade)
    /\ WsEnd(q) /\ Quiet

-----------------------------------------------------------------------------
(* Members.                                                                  *)

\* addMember of an active user: the checks.
AddMember(q, w, platform, role) ==
    /\ AssertWorkspaceWritable(w) /\ AssertWorkspaceAdmin(w, platform)
    /\ member[w].role = "none"
    /\ Begin(q, [Free EXCEPT !.pc = "insert", !.op = "member", !.w = w,
                   !.mem = [role |-> role, id |-> wsOps + 1]])

\* updateMember: the checks and the entity.
UpdateMember(q, w, platform, role) ==
    /\ AssertWorkspaceWritable(w) /\ AssertWorkspaceAdmin(w, platform)
    /\ member[w].role # "none"
    /\ Begin(q, [Free EXCEPT !.pc = "save", !.op = "member", !.w = w,
                   !.mem = [role |-> role, id |-> member[w].id]])

\* The INSERT of addMember and the save of updateMember: a row with another id
\* is refused, a removed one is inserted again.
WriteMember(q) ==
    LET r == reqs[q]
        same == member[r.w].id = r.mem.id /\ r.pc = "save"
    IN
    /\ r.op = "member" /\ r.pc \in {"insert", "save"}
    /\ member' = IF Live(r.w) /\ (member[r.w].role = "none" \/ same)
                 THEN [member EXCEPT ![r.w] = r.mem] ELSE member
    /\ WsEnd(q)
    /\ UNCHANGED <<ws, team, teamed, assigned>> /\ Quiet

\* removeMember: the checks.
RemoveMember(q, w, platform) ==
    /\ AssertWorkspaceWritable(w) /\ AssertWorkspaceAdmin(w, platform)
    /\ member[w].role # "none"
    /\ Begin(q, [Free EXCEPT !.pc = "remove", !.op = "member", !.w = w,
                   !.mem = member[w]])

\* removeMember: the transaction.
DropMember(q) ==
    LET r == reqs[q]
        found == member[r.w].role # "none" /\ member[r.w].id = r.mem.id
    IN
    /\ r.op = "member" /\ r.pc = "remove"
    /\ member' = IF found THEN [member EXCEPT ![r.w].role = "none"] ELSE member
    /\ teamed' = (teamed /\ ~(found /\ r.w = Home /\ team = "there"))
    /\ WsEnd(q)
    /\ UNCHANGED <<ws, team, assigned>> /\ Quiet

-----------------------------------------------------------------------------
(* The team.                                                                 *)

\* createTeam: the checks.
CreateTeam(q, platform) ==
    /\ AssertWorkspaceWritable(Home) /\ AssertWorkspaceAdmin(Home, platform)
    /\ team = "new"
    /\ Begin(q, [Free EXCEPT !.pc = "save", !.op = "team"])

\* updateTeam: the checks and the entity.
UpdateTeam(q, platform) ==
    /\ AssertWorkspaceWritable(Home) /\ AssertWorkspaceAdmin(Home, platform)
    /\ team = "there"
    /\ Begin(q, [Free EXCEPT !.pc = "save", !.op = "team"])

\* The save of both: a team that was deleted meanwhile is inserted again.
WriteTeam(q) ==
    /\ reqs[q].op = "team" /\ reqs[q].pc = "save"
    /\ team' = IF legacy => Live(Home) THEN "there" ELSE team
    /\ WsEnd(q)
    /\ UNCHANGED <<ws, member, teamed, assigned>> /\ Quiet

\* deleteTeam: the checks, with the count of the team's nodes.
DeleteTeam(q, platform) ==
    /\ AssertWorkspaceWritable(Home) /\ AssertWorkspaceAdmin(Home, platform)
    /\ team = "there" /\ ~assigned
    /\ Begin(q, [Free EXCEPT !.pc = "remove", !.op = "team"])

\* remove: the foreign keys of a legacy deployment take the members along and
\* clear the node's teamId.
RemoveTeam(q) ==
    /\ reqs[q].op = "team" /\ reqs[q].pc = "remove"
    /\ team' = "gone"
    /\ teamed' = (teamed /\ ~legacy)
    /\ assigned' = (assigned /\ ~legacy)
    /\ WsEnd(q)
    /\ UNCHANGED <<ws, member>> /\ Quiet

\* addTeamMember: the checks.
AddTeamMember(q, platform) ==
    /\ AssertWorkspaceWritable(Home) /\ AssertWorkspaceAdmin(Home, platform)
    /\ team = "there" /\ member[Home].role # "none" /\ ~teamed
    /\ Begin(q, [Free EXCEPT !.pc = "insert", !.op = "teamed"])

\* removeTeamMember: the checks.
RemoveTeamMember(q, platform) ==
    /\ AssertWorkspaceWritable(Home) /\ AssertWorkspaceAdmin(Home, platform)
    /\ team = "there" /\ teamed
    /\ Begin(q, [Free EXCEPT !.pc = "remove", !.op = "teamed"])

\* The INSERT and the DELETE of the two.
WriteTeamMember(q) ==
    LET r == reqs[q] IN
    /\ r.op = "teamed"
    /\ teamed' = IF r.pc = "insert"
                 THEN teamed \/ (legacy => team = "there") ELSE FALSE
    /\ WsEnd(q)
    /\ UNCHANGED <<ws, member, team, assigned>> /\ Quiet

\* updateTeamAssignment of the node: findTeamOrFail and the entity.
UpdateTeamAssignment(q, platform, toTeam) ==
    /\ AssertWorkspaceWritable(Home) /\ AssertWorkspaceAdmin(Home, platform)
    /\ toTeam => team = "there"
    /\ Begin(q, [Free EXCEPT !.pc = IF toTeam THEN "insert" ELSE "remove",
                             !.op = "node"])

WriteNode(q) ==
    LET r == reqs[q] IN
    /\ r.op = "node"
    /\ assigned' = IF legacy /\ r.pc = "insert" /\ team # "there"
                   THEN assigned ELSE r.pc = "insert"
    /\ WsEnd(q)
    /\ UNCHANGED <<ws, member, team, teamed>> /\ Quiet

-----------------------------------------------------------------------------
(* Restart, and the data bootstrap of a legacy deployment.                   *)

\* The process dies with its requests and starts again.
RestartApi ==
    /\ restarts < MaxRestarts /\ restarts' = restarts + 1
    /\ reqs' = [q \in Reqs |-> Free]
    /\ boot' = IF legacy THEN "workspace" ELSE "up"
    /\ UNCHANGED <<legacy, tables, overlap, wsOps>>

Boot(from, to) ==
    /\ boot = from /\ boot' = to
    /\ UNCHANGED <<legacy, reqs, overlap, wsOps, restarts>>

\* ensureDefaultWorkspace inserts a default workspace if there is neither one
\* nor a workspace with the slug "default".
EnsureDefaultWorkspace ==
    /\ Boot("workspace", "flag")
    /\ ws' = IF \E w \in Ids : Live(w) /\ (ws[w].def \/ ws[w].slug) THEN ws
             ELSE [ws EXCEPT ![Spare] = [st |-> "live", arch |-> FALSE,
                                         def |-> TRUE, slug |-> TRUE]]
    /\ UNCHANGED <<member, team, teamed, assigned>>

\* Mutant: a workspace with the slug "default" is taken for the default one.
MutEnsureDefaultWorkspaceFlag ==
    /\ Boot("flag", "members")
    /\ UNCHANGED <<ws, member, team, teamed, assigned>>

\* ensureDefaultWorkspaceFlag makes the workspace with the slug the default
\* one if there is none.
EnsureDefaultWorkspaceFlag ==
    /\ Boot("flag", "members")
    /\ ws' = [w \in Ids |->
                IF ~HasDefaultWorkspace /\ Live(w) /\ ws[w].slug
                THEN [ws[w] EXCEPT !.def = TRUE] ELSE ws[w]]
    /\ UNCHANGED <<member, team, teamed, assigned>>

\* ensureDefaultMemberships: every user is a member of the default workspace.
EnsureDefaultMemberships ==
    /\ Boot("members", "teams")
    /\ member' = [w \in Ids |->
                    IF w \in Defaults /\ member[w].role = "none"
                    THEN [role |-> "member", id |-> MaxWsOps + restarts]
                    ELSE member[w]]
    /\ UNCHANGED <<ws, team, teamed, assigned>>

\* removeInvalidTeamMemberships
RemoveInvalidTeamMemberships ==
    /\ Boot("teams", "up")
    /\ teamed' = (teamed /\ ~(team = "there" /\ member[Home].role = "none"))
    /\ UNCHANGED <<ws, member, team, assigned>>

-----------------------------------------------------------------------------
Dtos == UNION {[S -> BOOLEAN] : S \in SUBSET WsColumns}

WorkspaceRequest(q, platform) ==
    \E w \in Ids :
       \/ \E d, a, s \in BOOLEAN : platform /\ CreateWorkspace(q, w, d, a, s)
       \/ \E dto \in Dtos : UpdateWorkspace(q, w, platform, dto)
       \/ DeleteWorkspace(q, w, platform)
       \/ \E role \in {"member", "admin"} :
             AddMember(q, w, platform, role) \/ UpdateMember(q, w, platform, role)
       \/ RemoveMember(q, w, platform)

TeamRequest(q, platform) ==
    \/ CreateTeam(q, platform) \/ UpdateTeam(q, platform)
    \/ DeleteTeam(q, platform)
    \/ AddTeamMember(q, platform) \/ RemoveTeamMember(q, platform)
    \/ \E to \in BOOLEAN : UpdateTeamAssignment(q, platform, to)

WriteStep(q) ==
    \/ SelectWorkspace(q) \/ WriteWorkspace(q)
    \/ ClearDefault(q) \/ SetDefaultWorkspace(q) \/ RemoveWorkspace(q)
    \/ WriteMember(q) \/ DropMember(q)
    \/ WriteTeam(q) \/ RemoveTeam(q) \/ WriteTeamMember(q) \/ WriteNode(q)

BootStep ==
    \/ EnsureDefaultWorkspace \/ EnsureDefaultWorkspaceFlag
    \/ EnsureDefaultMemberships \/ RemoveInvalidTeamMemberships

\* Who may begin, and how often: all that Begin asks for.
Comers == {q \in Reqs : reqs[q] = Free /\ boot = "up" /\ wsOps < MaxWsOps}

WsNext ==
    \/ \E q \in Comers, platform \in BOOLEAN :
          WorkspaceRequest(q, platform) \/ TeamRequest(q, platform)
    \/ \E q \in Reqs : WriteStep(q)
    \/ RestartApi \/ BootStep

WsSpec == WsInit /\ [][WsNext]_wsVars

-----------------------------------------------------------------------------
(* Properties.                                                               *)

\* There is exactly one default workspace as long as no two requests have
\* overlapped, restarts between their statements included; the index of a
\* legacy deployment keeps it at one at most whatever overlaps.
OneDefaultWorkspace ==
    /\ ~overlap => \E w \in Ids : Defaults = {w}
    /\ legacy => \A v, w \in Defaults : v = w

Strays == teamed /\ team = "there" /\ Live(Home) /\ member[Home].role = "none"

\* Only members of a workspace are in its teams, and a team that nodes are
\* assigned to exists (populateTeamMetadata fails for the whole list of nodes
\* if it does not), unless requests have overlapped.
TeamsConsistent ==
    ~overlap => /\ ~Strays
                /\ assigned /\ Live(Home) => team = "there"

\* The tables of workspaces, members and teams agree with each other: what the
\* service checks by hand where the database has no constraint.
WorkspacesConsistent == WsTypeOK /\ OneDefaultWorkspace /\ TeamsConsistent

\* Whatever overlapping requests have left behind, the data bootstrap of a
\* legacy deployment ends with a default workspace and no strays in a team.
BootRepairs ==
    [][boot = "teams" /\ boot' = "up" => HasDefaultWorkspace' /\ ~Strays']_wsVars

\* README: "The current default workspace cannot be archived until another
\* workspace becomes default."
DefaultNotArchived == \A w \in Defaults : ~ws[w].arch
=============================================================================
