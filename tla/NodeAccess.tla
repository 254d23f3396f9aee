------------------------------ MODULE NodeAccess ------------------------------
(***************************************************************************)
(* The access that the control plane and the agent of one node have to     *)
(* each other: the agent's token with its rotation and revocation, the     *)
(* root access profile with its grants, and the settings that are stored   *)
(* in the same row (nodes.service.ts, workspace-nodes.controller.ts,       *)
(* agent-auth.guard.ts, and the report of a claim in tasks.service.ts).    *)
(*                                                                         *)
(* Most operations load the entity, change it and save it.  save compares  *)
(* the entity with a SELECT of the row and updates the columns that        *)
(* differ, so that a column which someone else has changed since the load  *)
(* is written back.  The token columns are not selected by a plain load:   *)
(* an entity is a function on the columns it has.                          *)
(***************************************************************************)
EXTENDS Naturals, FiniteSets

CONSTANTS
    AgentCalls,   \* concurrent requests of the agent
    Requests,     \* concurrent requests of operators
    Cron,         \* the timer of expireRootAccessGrants
    Profiles,     \* root access profiles: sets of surfaces, {} is "off"
    MaxGrants,    \* bound: grants of root access
    MaxTokens,    \* bound: agent tokens
    MaxOps,       \* bound: requests of operators
    MaxRaces,     \* bound: entities loaded while another one is to be saved
    MaxMishaps    \* bound: lost messages, failures of the agent, crashes

ASSUME AccessAssumption ==
    /\ {} \in Profiles /\ Cron \notin AgentCalls \cup Requests
    /\ AgentCalls \cap Requests = {}
    /\ MaxGrants \in Nat /\ MaxTokens \in Nat \ {0}
    /\ MaxOps \in Nat /\ MaxRaces \in Nat /\ MaxMishaps \in Nat

VARIABLES
    row,       \* the row of the node
    calls,     \* requests in progress
    held,      \* the agent: its token, a newer one it was offered, the profile
               \* that it has applied and whether the last change failed
    past,      \* grants that have expired
    lapsed,    \* tokens whose pending time is over
    grants,    \* grants issued
    tokens,    \* tokens issued
    dead,      \* history: tokens that were revoked while no authentication
               \* was about to save them
    ops, races, mishaps

accessVars == <<row, calls, held, past, lapsed, grants, tokens, dead, ops,
          races, mishaps>>

history == <<past, lapsed, grants, tokens, dead>>

Calls == AgentCalls \cup Requests \cup {Cron}

TokenColumns == {"cur", "pend"}
PlainColumns == {"profile", "grant", "applied", "sync"}

NoEntity == [x \in {} |-> 0]
NoReport == [profile |-> {}, err |-> FALSE]
NoCall == [pc |-> "idle", op |-> "none", ent |-> NoEntity, tok |-> 0,
         rep |-> NoReport]

AccessTypeOK ==
    /\ DOMAIN row = TokenColumns \cup PlainColumns
    /\ row.cur \in 0 .. MaxTokens /\ row.pend \in 0 .. MaxTokens
    /\ row.profile \in Profiles /\ row.applied \in Profiles
    /\ row.grant \in 0 .. MaxGrants
    /\ row.sync \in {"pending", "applied", "failed"}
    /\ \A c \in Calls : DOMAIN calls[c].ent \subseteq DOMAIN row
    /\ held \in [mine : 0 .. MaxTokens, offer : 0 .. MaxTokens,
                  profile : Profiles, err : BOOLEAN]
    /\ past \subseteq 1 .. MaxGrants /\ lapsed \subseteq 1 .. MaxTokens
    /\ dead \subseteq 1 .. MaxTokens

\* The node as it was enrolled: token 1, root access off.
AccessInit ==
    /\ row = [cur |-> 1, pend |-> 0, profile |-> {}, grant |-> 0,
              applied |-> {}, sync |-> "pending"]
    /\ calls = [c \in Calls |-> NoCall]
    /\ held = [mine |-> 1, offer |-> 0, profile |-> {}, err |-> FALSE]
    /\ past = {} /\ lapsed = {} /\ grants = 0 /\ tokens = 1 /\ dead = {}
    /\ ops = 0 /\ races = 0 /\ mishaps = 0

-----------------------------------------------------------------------------
AtStep(c, pc) == calls[c].pc = pc

End(c) == calls' = [calls EXCEPT ![c] = NoCall]

Op == ops < MaxOps /\ ops' = ops + 1

Mishap == mishaps < MaxMishaps /\ mishaps' = mishaps + 1

\* Mutant: the token columns are selected like any other.
MutPlain == row

\* findOneOrFail: every column but those of the tokens.
Plain == [x \in PlainColumns |-> row[x]]

\* The row with the columns of an entity.
Over(ent, r) == [x \in DOMAIN ent \cup DOMAIN r |->
                   IF x \in DOMAIN ent THEN ent[x] ELSE r[x]]

\* An entity that was just loaded and changed is to be saved.
Save(c, op, ent) ==
    /\ IF \E d \in Calls \ {c} : calls[d].pc \in {"select", "update"}
       THEN races < MaxRaces /\ races' = races + 1
       ELSE UNCHANGED races
    /\ calls' = [calls EXCEPT ![c].pc = "select", ![c].op = op, ![c].ent = ent]

\* save, first part: the columns that differ from the row.
SaveSelect(c) ==
    LET ent == calls[c].ent IN
    /\ AtStep(c, "select")
    /\ calls' = [calls EXCEPT ![c].pc = "update",
                    ![c].ent = [x \in {y \in DOMAIN ent : ent[y] # row[y]}
                                  |-> ent[x]]]
    /\ UNCHANGED <<row, held, history, ops, races, mishaps>>

\* What comes after the save of each operation.
Continue(c) ==
    CASE calls[c].op = "auth" ->
            calls' = [calls EXCEPT ![c].pc = "report", ![c].op = "none",
                                   ![c].ent = NoEntity]
      [] calls[c].op = "report" ->
            calls' = [calls EXCEPT ![c].pc = "answer", ![c].op = "none",
                                   ![c].ent = NoEntity, ![c].rep = NoReport]
      [] calls[c].op = "grant" -> calls' = [calls EXCEPT ![c].pc = "push"]
      [] OTHER -> End(c)

\* save, second part: UPDATE of these columns.  The answer of a registration
\* takes the new token to the agent.
SaveUpdate(c) ==
    /\ AtStep(c, "update")
    /\ row' = Over(calls[c].ent, row)
    /\ Continue(c)
    /\ held' = IF calls[c].op = "register"
                THEN [held EXCEPT !.mine = row'.cur, !.offer = 0]
                ELSE held
    /\ UNCHANGED <<history, ops, races, mishaps>>

-----------------------------------------------------------------------------
(* The agent's requests.                                                     *)

\* AgentAuthGuard and the messages that carry a token: the agent presents the
\* token that it was offered, or else its own, and reports its profile.
AgentRequest(c) ==
    /\ calls[c] = NoCall /\ held.mine # 0
    /\ calls' = [calls EXCEPT ![c] =
          [NoCall EXCEPT !.pc = "auth",
              !.tok = IF held.offer # 0 THEN held.offer ELSE held.mine,
              !.rep = [profile |-> held.profile, err |-> held.err]]]
    /\ UNCHANGED <<row, held, history, ops, races, mishaps>>

\* authenticateAgent loads the row with its tokens.  The current token removes
\* a pending one that has lapsed; the pending token becomes the current one.
AuthenticateAgent(c) ==
    LET t == calls[c].tok IN
    /\ AtStep(c, "auth")
    /\ \/ /\ t = row.cur
          /\ IF row.pend \in lapsed
             THEN Save(c, "auth", [row EXCEPT !.pend = 0])
             ELSE /\ calls' = [calls EXCEPT ![c].pc = "report"]
                  /\ UNCHANGED races
          /\ UNCHANGED held
       \/ /\ t # row.cur /\ t = row.pend /\ t \notin lapsed
          /\ Save(c, "auth", [row EXCEPT !.cur = t, !.pend = 0])
          /\ UNCHANGED held
       \/ /\ t # row.cur /\ (t = row.pend => t \in lapsed)
          /\ held' = IF t = held.offer THEN [held EXCEPT !.offer = 0] ELSE held
          /\ End(c) /\ UNCHANGED races
    /\ UNCHANGED <<row, history, ops, mishaps>>

ResolveRootAccessSyncStatus(desired, applied, err) ==
    IF err THEN "failed" ELSE IF desired = applied THEN "applied" ELSE "pending"

\* recordAgentRootAccessState: the report is saved if it says anything new.
RecordAgentRootAccessState(c) ==
    LET r == calls[c].rep
        ent == [Plain EXCEPT !.applied = r.profile,
                   !.sync = ResolveRootAccessSyncStatus(row.profile, r.profile,
                                                        r.err)] IN
    /\ AtStep(c, "report")
    /\ IF ent = Plain
       THEN /\ calls' = [calls EXCEPT ![c].pc = "answer", ![c].rep = NoReport]
            /\ UNCHANGED races
       ELSE Save(c, "report", ent)
    /\ UNCHANGED <<row, held, history, ops, mishaps>>

\* The heartbeat of an online node saves the entity for lastSeenAt alone.
NodeMarkOnline(c) ==
    /\ AtStep(c, "report")
    /\ Save(c, "heartbeat", Plain)
    /\ UNCHANGED <<row, held, history, ops, mishaps>>

\* The agent tries to apply a profile it is told; accepted is its state after
\* the answer.
Apply(accepted, profile) ==
    \/ /\ held' = [accepted EXCEPT !.profile = profile, !.err = FALSE]
       /\ UNCHANGED mishaps
    \/ held' = [accepted EXCEPT !.err = TRUE] /\ Mishap

\* loadDesiredRootAccessSnapshot at the end of a claim, or the acknowledgement
\* of an authentication.  An offered token that was accepted is kept.
Answer(c) ==
    /\ AtStep(c, "answer")
    /\ Apply(IF calls[c].tok = held.offer
             THEN [held EXCEPT !.mine = held.offer, !.offer = 0] ELSE held,
             row.profile)
    /\ End(c)
    /\ UNCHANGED <<row, history, ops, races>>

-----------------------------------------------------------------------------
(* Root access: grants and their expiry.                                     *)

Off(ent) == [ent EXCEPT !.profile = {}, !.grant = 0, !.sync = "pending"]

UpdateRootAccessProfile(c, p) ==
    /\ calls[c] = NoCall /\ Op
    /\ \/ p = {} /\ Save(c, "grant", Off(Plain)) /\ UNCHANGED grants
       \/ /\ p # {} /\ grants < MaxGrants /\ grants' = grants + 1
          /\ Save(c, "grant", [Plain EXCEPT !.profile = p, !.grant = grants',
                                            !.sync = "pending"])
    /\ UNCHANGED <<row, held, past, lapsed, tokens, dead, mishaps>>

\* dispatchRootAccessUpdate: the saved profile arrives, or not.
DispatchRootAccessUpdate(c) ==
    /\ AtStep(c, "push")
    /\ \/ "profile" \in DOMAIN calls[c].ent /\ Apply(held, calls[c].ent.profile)
       \/ UNCHANGED <<held, mishaps>>
    /\ End(c)
    /\ UNCHANGED <<row, history, ops, races>>

GrantExpires(g) ==
    /\ g \in (1 .. grants) \ past /\ past' = past \cup {g}
    /\ UNCHANGED <<row, calls, held, lapsed, grants, tokens, dead, ops, races, mishaps>>

\* isRootAccessGrantExpired: a row without an expiry is not expired.
IsRootAccessGrantExpired(r) == r.grant \in past

\* Mutant: only grants that the agent has applied are looked for.
MutExpireRootAccessGrants(c) ==
    /\ calls[c] = NoCall
    /\ row.profile # {} /\ IsRootAccessGrantExpired(row) /\ row.sync = "applied"
    /\ Save(c, "expire", Off(Plain))
    /\ UNCHANGED <<row, held, history, ops, mishaps>>

\* Every minute on every process; the agent is not told.
ExpireRootAccessGrants(c) ==
    /\ calls[c] = NoCall
    /\ row.profile # {} /\ IsRootAccessGrantExpired(row)
    /\ Save(c, "expire", Off(Plain))
    /\ UNCHANGED <<row, held, history, ops, mishaps>>

\* assertNodeAllowsRootSurface and canNodeUse...Root.
AllowsRootSurface(r, surface) ==
    ~IsRootAccessGrantExpired(r) /\ surface \in r.applied

-----------------------------------------------------------------------------
(* Tokens: rotation, revocation, registration.                               *)

\* stageAgentTokenRotation: the new token is pending.
RotateAgentToken(c) ==
    /\ calls[c] = NoCall /\ Op
    /\ tokens < MaxTokens /\ tokens' = tokens + 1
    /\ row' = [row EXCEPT !.pend = tokens']
    /\ calls' = [calls EXCEPT ![c].pc = "deliver", ![c].tok = tokens']
    /\ UNCHANGED <<held, past, lapsed, grants, dead, races, mishaps>>

\* dispatchAgentTokenRotation: emitted, routed to a process that is gone, or
\* refused.
DispatchAgentTokenRotation(c) ==
    /\ AtStep(c, "deliver")
    /\ \/ held' = [held EXCEPT !.offer = calls[c].tok] /\ End(c)
       \/ End(c) /\ UNCHANGED held
       \/ calls' = [calls EXCEPT ![c].pc = "clear"] /\ UNCHANGED held
    /\ UNCHANGED <<row, history, ops, races, mishaps>>

\* clearPendingAgentTokenRotation clears whatever rotation is pending by now.
ClearPendingAgentTokenRotation(c) ==
    /\ AtStep(c, "clear")
    /\ row' = [row EXCEPT !.pend = 0] /\ End(c)
    /\ UNCHANGED <<held, history, ops, races, mishaps>>

\* AGENT_TOKEN_ROTATION_PENDING_MS after it was staged.
TokenLapses(t) ==
    /\ t \in (2 .. tokens) \ lapsed /\ t = row.pend
    /\ lapsed' = lapsed \cup {t}
    /\ UNCHANGED <<row, calls, held, past, grants, tokens, dead, ops, races, mishaps>>

\* Tokens that an authentication or a registration is about to store.
InFlight ==
    UNION {{calls[c].ent[x] : x \in DOMAIN calls[c].ent \cap TokenColumns} :
             c \in {d \in Calls : calls[d].op \in {"auth", "register"}}}

\* One UPDATE; then the agent is disconnected.
RevokeAgentToken(c) ==
    /\ calls[c] = NoCall /\ Op
    /\ row' = [row EXCEPT !.cur = 0, !.pend = 0]
    /\ dead' = dead \cup ({row.cur, row.pend} \ (InFlight \cup {0}))
    /\ UNCHANGED <<calls, held, past, lapsed, grants, tokens, races, mishaps>>

\* Registration of a host name that has a node: the entity is given a new
\* token and saved.
UpsertFromAgentRegistration(c) ==
    /\ calls[c] = NoCall /\ Op
    /\ tokens < MaxTokens /\ tokens' = tokens + 1
    /\ Save(c, "register", Over([cur |-> tokens', pend |-> 0], Plain))
    /\ UNCHANGED <<row, held, past, lapsed, grants, dead, mishaps>>

-----------------------------------------------------------------------------
(* Settings.  Each is in columns of its own, which are left out: what matters *)
(* is that the entity is loaded and saved.                                   *)

UpdateSettings(c) ==
    /\ calls[c] = NoCall /\ Op
    /\ Save(c, "settings", Plain)
    /\ UNCHANGED <<row, held, history, mishaps>>

EnableMaintenance(c) == UpdateSettings(c)
DisableMaintenance(c) == UpdateSettings(c)
UpdateTeamAssignment(c) == UpdateSettings(c)
UpdateNotificationSettings(c) == UpdateSettings(c)

\* A process dies, or a statement throws, in the middle of a request.
CallFails(c) ==
    /\ calls[c] # NoCall /\ Mishap /\ End(c)
    /\ UNCHANGED <<row, held, history, ops, races>>

-----------------------------------------------------------------------------
AgentStep(c) ==
    \/ AgentRequest(c) \/ AuthenticateAgent(c) \/ RecordAgentRootAccessState(c)
    \/ Answer(c) \/ SaveSelect(c) \/ SaveUpdate(c)

OperatorStep(c) ==
    \/ SaveSelect(c) \/ SaveUpdate(c)
    \/ DispatchRootAccessUpdate(c) \/ DispatchAgentTokenRotation(c)
    \/ ClearPendingAgentTokenRotation(c)

CronStep == ExpireRootAccessGrants(Cron) \/ SaveSelect(Cron) \/ SaveUpdate(Cron)

Request(c) ==
    \/ \E p \in Profiles : UpdateRootAccessProfile(c, p)
    \/ RotateAgentToken(c) \/ RevokeAgentToken(c)
    \/ UpsertFromAgentRegistration(c)
    \/ EnableMaintenance(c) \/ DisableMaintenance(c)
    \/ UpdateTeamAssignment(c) \/ UpdateNotificationSettings(c)

AccessNext ==
    \/ \E c \in AgentCalls : AgentStep(c) \/ NodeMarkOnline(c)
    \/ \E c \in Requests : Request(c) \/ OperatorStep(c)
    \/ CronStep
    \/ \E g \in 1 .. MaxGrants : GrantExpires(g)
    \/ \E t \in 1 .. MaxTokens : TokenLapses(t)
    \/ \E c \in Calls : CallFails(c)

AccessSpec == AccessInit /\ [][AccessNext]_accessVars

\* Requests run on, the timer fires and time passes.  The agent claims in a loop
\* of its own: of its requests, ever again one is a claim.
AccessFairSpec ==
    /\ AccessSpec
    /\ \A c \in AgentCalls : /\ WF_accessVars(AgentStep(c))
                             /\ SF_accessVars(RecordAgentRootAccessState(c))
    /\ \A c \in Requests : WF_accessVars(OperatorStep(c))
    /\ SF_accessVars(CronStep)
    /\ \A g \in 1 .. MaxGrants : WF_accessVars(GrantExpires(g))

-----------------------------------------------------------------------------
(* Properties.                                                               *)

\* Once revoked a token stays so: no save of a request that overlaps, be it a
\* setting, a heartbeat, a report, a grant or its expiry, brings back a token
\* of before the revocation.  The one exception is an authentication that had
\* loaded the tokens and was about to save them (revokeAgentToken,
\* authenticateAgent; the token columns are "select: false").
NoRevival == AccessTypeOK /\ {row.cur, row.pend} \cap dead = {}

\* Root access ends: when no operator asks any more, every grant, also one that
\* a stale save has written back, is taken away, and after a grant an agent that
\* can authenticate ends with nothing applied and the row says so
\* (expireRootAccessGrants, recordAgentRootAccessState).
RootEnds ==
    /\ <>[](row.profile = {})
    /\ <>(grants > 0) /\ <>[](held.mine = row.cur) =>
          <>[](row.applied = {} /\ row.sync = "applied")

\* Work as root is admitted under an active grant only: otherwise it is refused
\* with "does not have an active root access grant" (nodes.service.ts:1457).
RootNeedsGrant ==
    \A p \in Profiles : \A surface \in p :
        AllowsRootSurface(row, surface) => row.grant # 0
=============================================================================
