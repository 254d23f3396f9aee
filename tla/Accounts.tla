------------------------------- MODULE Accounts -------------------------------
(***************************************************************************)
(* User accounts (users.service.ts, auth.service.ts): login with and       *)
(* without a second factor, the session version that ends older tokens,    *)
(* recovery codes, invitation and reset links, and the platform admins.    *)
(*                                                                         *)
(* Operations load a user, change the entity and save it; a save writes    *)
(* every column of the entity that differs from the row, so that it undoes *)
(* what others have stored since the load (a lost update, recorded in      *)
(* stale), and inserts a row that was deleted.  Passwords, secrets and     *)
(* codes are columns that only some queries select.                        *)
(***************************************************************************)
EXTENDS Naturals, FiniteSets

CONSTANTS
    Root, Guest,   \* two accounts
    Links,         \* invitation and reset links of Guest
    AccReqs,       \* concurrent requests that change an account
    MaxAccOps,     \* bound: such requests
    MaxCodes       \* bound: recovery codes issued

ASSUME AccountsAssumption ==
    /\ Root # Guest /\ MaxAccOps \in Nat /\ MaxCodes \in Nat \ {0}
    /\ Links \cap (1 .. MaxCodes) = {}

VARIABLES
    acct,       \* the table of users
    invites, resets,
    toks,       \* access tokens issued: user and session version
    challenges, \* MFA challenge tokens issued
    areqs,
    dead,       \* history: tokens that a change of the account has ended
    uses,       \* history: how often each code and link has been used
    stale,      \* history: a save has overwritten an update
    crossed,    \* history: two removals of an admin have overlapped
    lastCode, accOps

accVars == <<acct, invites, resets, toks, challenges, areqs, dead, uses,
             stale, crossed, lastCode, accOps>>

Users == {Root, Guest}

Codes == 1 .. MaxCodes

Plainly == {"admin", "active", "accepted", "activated", "sv", "mfa"}
WithPassword == Plainly \cup {"pw"}
WithMfa == Plainly \cup {"pend", "codes"}

\* Columns of user.entity.ts, live if the row exists.
UserRow == [live : BOOLEAN, admin : BOOLEAN, active : BOOLEAN,
            accepted : BOOLEAN, activated : BOOLEAN, sv : Nat,
            mfa : BOOLEAN, pw : BOOLEAN, pend : BOOLEAN, codes : SUBSET Codes]

LinkStates == {"none", "pending", "used", "revoked", "late"}

AccTypeOK ==
    /\ acct \in [Users -> UserRow]
    /\ invites \in [Links -> LinkStates] /\ resets \in [Links -> LinkStates]
    /\ toks \subseteq Users \X Nat /\ challenges \subseteq Users \X Nat
    /\ dead \subseteq toks /\ lastCode \in 0 .. MaxCodes

NewUser == [live |-> TRUE, admin |-> FALSE, active |-> FALSE,
            accepted |-> FALSE, activated |-> FALSE, sv |-> 0, mfa |-> FALSE,
            pw |-> FALSE, pend |-> FALSE, codes |-> {}]

Resting == [op |-> "none", u |-> Root, ent |-> [x \in {} |-> 0],
            seen |-> NewUser, ends |-> FALSE, use |-> {}]

Active == [NewUser EXCEPT !.admin = TRUE, !.active = TRUE, !.accepted = TRUE,
                          !.activated = TRUE, !.pw = TRUE]

\* Root is as ensureDefaultAdmin or the installer has created it; Guest was
\* invited, or is an admin with a second factor.
AccInit ==
    /\ \/ /\ acct = [u \in Users |-> IF u = Root THEN Active ELSE NewUser]
          /\ \E l \in Links :
                invites = [k \in Links |-> IF k = l THEN "pending" ELSE "none"]
       \/ /\ acct = [u \in Users |->
                       IF u = Root THEN Active
                       ELSE [Active EXCEPT !.mfa = TRUE, !.codes = {1}]]
          /\ invites = [k \in Links |-> "none"]
    /\ resets = [k \in Links |-> "none"]
    /\ toks = {} /\ challenges = {}
    /\ areqs = [r \in AccReqs |-> Resting]
    /\ dead = {} /\ uses = [x \in Codes \cup Links |-> 0]
    /\ stale = FALSE /\ crossed = FALSE /\ lastCode = 1 /\ accOps = 0

-----------------------------------------------------------------------------
\* validateJwtPayload: the tokens of u that are accepted.
ValidateJwtPayload(u, v) == acct[u].live /\ acct[u].active /\ acct[u].sv = v

\* Challenges are signed like sessions, and the strategy asks for no type.
Signed(u) ==
    <<u, acct[u].sv>> \in toks \cup challenges /\ acct[u].live /\ acct[u].active

SignedAdmin(u) == Signed(u) /\ acct[u].admin

\* login: a session, or a challenge if there is a second factor.
Login(u) ==
    /\ acct[u].live /\ acct[u].pw /\ acct[u].active
    /\ IF acct[u].mfa
       THEN challenges' = challenges \cup {<<u, acct[u].sv>>} /\ UNCHANGED toks
       ELSE toks' = toks \cup {<<u, acct[u].sv>>} /\ UNCHANGED challenges
    /\ UNCHANGED <<acct, invites, resets, areqs, dead, uses, stale, crossed,
                   lastCode, accOps>>

\* verifyMfaChallengeToken
VerifyMfaChallengeToken(u) ==
    acct[u].live /\ acct[u].active /\ <<u, acct[u].sv>> \in challenges

\* verifyMfaChallenge with a right code.
VerifyMfaChallenge(u) ==
    /\ VerifyMfaChallengeToken(u) /\ acct[u].mfa
    /\ toks' = toks \cup {<<u, acct[u].sv>>}
    /\ UNCHANGED <<acct, invites, resets, challenges, areqs, dead, uses,
                   stale, crossed, lastCode, accOps>>

-----------------------------------------------------------------------------
(* Loading and saving.                                                       *)

\* Request r has loaded these columns of u and changed some of them.  ends: it
\* is meant to end the sessions of u; use: the code or link that it consumes.
Change(r, op, u, columns, changes, ends, use) ==
    /\ areqs[r] = Resting
    /\ accOps < MaxAccOps /\ accOps' = accOps + 1
    /\ areqs' = [areqs EXCEPT ![r] =
          [op |-> op, u |-> u, ends |-> ends, use |-> use, seen |-> acct[u],
           ent |-> [x \in columns \cup DOMAIN changes |->
                      IF x \in DOMAIN changes THEN changes[x] ELSE acct[u][x]]]]

Resume(r) == areqs' = [areqs EXCEPT ![r] = Resting]

\* The row after the save of r.
Stored(r) ==
    LET q == areqs[r] IN
    [x \in DOMAIN NewUser |->
       IF x = "live" THEN TRUE
       ELSE IF x \in DOMAIN q.ent THEN q.ent[x]
       ELSE IF acct[q.u].live THEN acct[q.u][x] ELSE NewUser[x]]

\* The save of r, and what it means for the tokens.
StoreUser(r) ==
    LET q == areqs[r] IN
    /\ acct' = [acct EXCEPT ![q.u] = Stored(r)]
    /\ stale' = (stale \/ acct[q.u] # q.seen)
    /\ dead' = IF q.ends THEN dead \cup {t \in toks : t[1] = q.u} ELSE dead
    /\ uses' = [x \in DOMAIN uses |-> uses[x] + Cardinality({x} \cap q.use)]

\* The session version of u after a change that ends its sessions.
Bump(u) == acct[u].sv + 1

Rest == UNCHANGED <<invites, resets, toks, challenges, dead, uses, stale,
                    crossed, lastCode>>

-----------------------------------------------------------------------------
(* The user's own requests.                                                  *)

\* updatePreferences changes columns that nothing depends on.
UpdatePreferences(r, u) ==
    /\ Signed(u)
    /\ Change(r, "save", u, Plainly, [x \in {} |-> 0], FALSE, {})
    /\ UNCHANGED acct /\ Rest

\* Mutant: a new password leaves the sessions alone.
MutChangePassword(r, u) ==
    /\ Signed(u) /\ acct[u].pw
    /\ Change(r, "save", u, WithPassword, [pw |-> TRUE], TRUE, {})
    /\ UNCHANGED acct /\ Rest

\* changePassword
ChangePassword(r, u) ==
    /\ Signed(u) /\ acct[u].pw
    /\ Change(r, "save", u, WithPassword, [sv |-> Bump(u), pw |-> TRUE], TRUE, {})
    /\ UNCHANGED acct /\ Rest

\* initiateMfaSetup
InitiateMfaSetup(r, u) ==
    /\ Signed(u)
    /\ Change(r, "save", u, WithMfa, [pend |-> TRUE], FALSE, {})
    /\ UNCHANGED acct /\ Rest

\* confirmMfaSetup with a right code, and a new list of recovery codes.
ConfirmMfaSetup(r, u) ==
    /\ Signed(u) /\ acct[u].pend /\ lastCode < MaxCodes
    /\ Change(r, "save", u, WithMfa,
              [sv |-> Bump(u), mfa |-> TRUE, pend |-> FALSE,
               codes |-> {lastCode + 1}], TRUE, {})
    /\ lastCode' = lastCode + 1
    /\ UNCHANGED <<acct, invites, resets, toks, challenges, dead, uses,
                   stale, crossed>>

\* regenerateMfaRecoveryCodes
RegenerateMfaRecoveryCodes(r, u) ==
    /\ Signed(u) /\ acct[u].mfa /\ lastCode < MaxCodes
    /\ Change(r, "save", u, WithMfa,
              [sv |-> Bump(u), codes |-> {lastCode + 1}], TRUE, {})
    /\ lastCode' = lastCode + 1
    /\ UNCHANGED <<acct, invites, resets, toks, challenges, dead, uses,
                   stale, crossed>>

\* disableMfa
DisableMfa(r, u) ==
    /\ Signed(u) /\ acct[u].mfa
    /\ Change(r, "save", u, WithMfa,
              [sv |-> Bump(u), mfa |-> FALSE, pend |-> FALSE, codes |-> {}],
              TRUE, {})
    /\ UNCHANGED acct /\ Rest

\* Mutant: a recovery code stays in the list.
MutVerifyMfaRecovery(r, u, k) ==
    /\ VerifyMfaChallengeToken(u) /\ k \in acct[u].codes
    /\ Change(r, "recover", u, WithMfa, [x \in {} |-> 0], FALSE, {k})
    /\ UNCHANGED acct /\ Rest

\* verifyMfaRecovery: the code is taken off the list that was loaded, and the
\* session is issued after the save.
VerifyMfaRecovery(r, u, k) ==
    /\ VerifyMfaChallengeToken(u) /\ k \in acct[u].codes
    /\ Change(r, "recover", u, WithMfa, [codes |-> acct[u].codes \ {k}], FALSE, {k})
    /\ UNCHANGED acct /\ Rest

-----------------------------------------------------------------------------
(* The admins' requests.                                                     *)

ActiveAdmins == {u \in Users : acct[u].live /\ acct[u].active /\ acct[u].admin}

Retires(u, admin, active) == u \in ActiveAdmins /\ ~(admin /\ active)

\* assertPlatformAdminRetention
AssertPlatformAdminRetention(u, admin, active) ==
    Retires(u, admin, active) => Cardinality(ActiveAdmins) > 1

\* assertSelfMutationAllowed
AssertSelfMutationAllowed(actor, u, admin, active) ==
    actor = u => admin /\ active

Crossing(u, admin, active) ==
    crossed' = (crossed \/ (Retires(u, admin, active) /\
                              \E r \in AccReqs : areqs[r].op \in {"update", "delete"}))

\* Mutant: the checks take the state that the account has for the new one.
MutUpdate(r, actor, u, admin, active) ==
    /\ SignedAdmin(actor) /\ acct[u].live
    /\ AssertPlatformAdminRetention(u, admin, acct[u].active)
    /\ actor = u => admin /\ acct[u].active
    /\ active => acct[u].accepted
    /\ Crossing(u, admin, active)
    /\ LET changed == admin # acct[u].admin \/ active # acct[u].active IN
       Change(r, "update", u, Plainly,
              [sv |-> IF changed THEN Bump(u) ELSE acct[u].sv,
               admin |-> admin, active |-> active],
              changed, {})
    /\ UNCHANGED <<acct, invites, resets, toks, challenges, dead, uses, stale,
                   lastCode>>

\* update: the role and whether the account is active.
Update(r, actor, u, admin, active) ==
    /\ SignedAdmin(actor) /\ acct[u].live
    /\ AssertPlatformAdminRetention(u, admin, active)
    /\ AssertSelfMutationAllowed(actor, u, admin, active)
    /\ active => acct[u].accepted
    /\ Crossing(u, admin, active)
    /\ LET changed == admin # acct[u].admin \/ active # acct[u].active IN
       Change(r, "update", u, Plainly,
              [sv |-> IF changed THEN Bump(u) ELSE acct[u].sv,
               admin |-> admin, active |-> active,
               activated |-> acct[u].activated \/ active],
              changed, {})
    /\ UNCHANGED <<acct, invites, resets, toks, challenges, dead, uses, stale,
                   lastCode>>

\* delete: the checks, for a user with no memberships and schedules.
Delete(r, actor, u) ==
    /\ SignedAdmin(actor) /\ acct[u].live /\ actor # u
    /\ AssertPlatformAdminRetention(u, FALSE, FALSE)
    /\ Crossing(u, FALSE, FALSE)
    /\ Change(r, "delete", u, Plainly, [x \in {} |-> 0], TRUE, {})
    /\ UNCHANGED <<acct, invites, resets, toks, challenges, dead, uses, stale,
                   lastCode>>

\* A link that has not been sent to anyone.
Fresh(l) == invites[l] = "none" /\ resets[l] = "none"

\* createInvitationRecord, createPasswordResetRecord: what was pending is
\* revoked.
Issue(links, l) ==
    [k \in Links |-> IF k = l THEN "pending"
                     ELSE IF links[k] = "pending" THEN "revoked" ELSE links[k]]

\* A link was used: revokePendingInvitations, revokePendingPasswordResetTokens
\* for the others.
Spend(links, used) ==
    [k \in Links |-> IF k \in used THEN "used"
                     ELSE IF links[k] = "pending" THEN "revoked" ELSE links[k]]

\* create: a user and an invitation in one transaction, with the mail.  The
\* new user has another id: here the version goes on and the links of the
\* deleted one are revoked, so that none of its tokens fits.
Create(r, actor, l) ==
    /\ SignedAdmin(actor) /\ ~acct[Guest].live /\ Fresh(l)
    /\ areqs[r] = Resting /\ accOps < MaxAccOps /\ accOps' = accOps + 1
    /\ \E admin \in BOOLEAN :
          acct' = [acct EXCEPT ![Guest] = [NewUser EXCEPT !.admin = admin,
                                                          !.sv = acct[Guest].sv]]
    /\ invites' = Issue(invites, l) /\ resets' = Spend(resets, {})
    /\ UNCHANGED <<toks, challenges, areqs, dead, uses, stale, crossed,
                   lastCode>>

\* resendInvite: the check.
ResendInvite(r, actor) ==
    /\ SignedAdmin(actor) /\ acct[Guest].live
    /\ ~(acct[Guest].accepted /\ acct[Guest].activated)
    /\ Change(r, "invite", Guest, {}, [accepted |-> FALSE], FALSE, {})
    /\ UNCHANGED acct /\ Rest

-----------------------------------------------------------------------------
(* Links.                                                                    *)

\* assertInvitationAvailable
AssertInvitationAvailable(l) == invites[l] = "pending"

\* assertPasswordResetAvailable
AssertPasswordResetAvailable(l) == resets[l] = "pending"

\* acceptInvitation: the checks, and the entity.
AcceptInvitation(r, l) ==
    /\ AssertInvitationAvailable(l) /\ acct[Guest].live
    /\ ~(acct[Guest].accepted /\ acct[Guest].activated)
    /\ Change(r, "accept", Guest, Plainly,
              [sv |-> Bump(Guest), pw |-> TRUE, active |-> TRUE,
               accepted |-> TRUE, activated |-> TRUE], TRUE, {l})
    /\ UNCHANGED acct /\ Rest

\* requestPasswordReset
RequestPasswordReset(r, l) ==
    /\ acct[Guest].live /\ acct[Guest].active /\ acct[Guest].accepted
    /\ acct[Guest].pw /\ Fresh(l)
    /\ areqs[r] = Resting /\ accOps < MaxAccOps /\ accOps' = accOps + 1
    /\ resets' = Issue(resets, l)
    /\ UNCHANGED <<acct, invites, toks, challenges, areqs, dead, uses, stale,
                   crossed, lastCode>>

\* resetPassword: the checks, and the entity.
ResetPassword(r, l) ==
    /\ AssertPasswordResetAvailable(l) /\ acct[Guest].live
    /\ acct[Guest].active /\ acct[Guest].accepted
    /\ Change(r, "reset", Guest, Plainly, [sv |-> Bump(Guest), pw |-> TRUE], TRUE, {l})
    /\ UNCHANGED acct /\ Rest

\* Seventy-two hours or one are over.
LinkLate(l) ==
    /\ accOps < MaxAccOps
    /\ \/ invites[l] = "pending" /\ invites' = [invites EXCEPT ![l] = "late"]
          /\ UNCHANGED resets
       \/ resets[l] = "pending" /\ resets' = [resets EXCEPT ![l] = "late"]
          /\ UNCHANGED invites
    /\ UNCHANGED <<acct, toks, challenges, areqs, dead, uses, stale, crossed,
                   lastCode, accOps>>

-----------------------------------------------------------------------------
\* The write of a request: a save, with the session that follows a recovery.
Save(r) ==
    /\ areqs[r].op \in {"save", "update", "recover"}
    /\ StoreUser(r)
    /\ toks' = IF areqs[r].op = "recover"
               THEN toks \cup {<<areqs[r].u, areqs[r].ent["sv"]>>} ELSE toks
    /\ Resume(r)
    /\ UNCHANGED <<invites, resets, challenges, crossed, lastCode, accOps>>

\* The transactions of acceptInvitation and resetPassword.
SaveWithLink(r) ==
    LET q == areqs[r] IN
    /\ q.op \in {"accept", "reset"}
    /\ StoreUser(r)
    /\ invites' = IF q.op = "accept" THEN Spend(invites, q.use) ELSE invites
    /\ resets' = IF q.op = "reset" THEN Spend(resets, q.use) ELSE resets
    /\ Resume(r)
    /\ UNCHANGED <<toks, challenges, crossed, lastCode, accOps>>

\* The transaction of resendInvite: an UPDATE and the new invitation.
SaveInvite(r, l) ==
    /\ areqs[r].op = "invite" /\ Fresh(l)
    /\ acct' = [acct EXCEPT ![Guest].accepted = FALSE]
    /\ stale' = (stale \/ acct[Guest] # areqs[r].seen)
    /\ invites' = Issue(invites, l)
    /\ Resume(r)
    /\ UNCHANGED <<resets, toks, challenges, dead, uses, crossed, lastCode, accOps>>

\* remove
Remove(r) ==
    LET u == areqs[r].u IN
    /\ areqs[r].op = "delete"
    /\ acct' = [acct EXCEPT ![u] = [NewUser EXCEPT !.live = FALSE,
                                                   !.sv = acct[u].sv + 1]]
    /\ dead' = dead \cup {t \in toks : t[1] = u}
    /\ Resume(r)
    /\ UNCHANGED <<invites, resets, toks, challenges, uses, stale, crossed,
                   lastCode, accOps>>

\* The process dies, and the request with it.
RequestDies(r) ==
    /\ areqs[r] # Resting /\ Resume(r)
    /\ UNCHANGED <<acct, invites, resets, toks, challenges, dead, uses, stale,
                   crossed, lastCode, accOps>>

OwnRequest(r, u) ==
    \/ UpdatePreferences(r, u) \/ ChangePassword(r, u)
    \/ InitiateMfaSetup(r, u) \/ ConfirmMfaSetup(r, u)
    \/ RegenerateMfaRecoveryCodes(r, u) \/ DisableMfa(r, u)
    \/ \E k \in Codes : VerifyMfaRecovery(r, u, k)

AdminRequest(r, actor) ==
    \/ \E u \in Users :
          \/ \E admin, active \in BOOLEAN : Update(r, actor, u, admin, active)
          \/ Delete(r, actor, u)
    \/ \E l \in Links : Create(r, actor, l)
    \/ ResendInvite(r, actor)

LinkRequest(r, l) ==
    AcceptInvitation(r, l) \/ RequestPasswordReset(r, l) \/ ResetPassword(r, l)

AccNext ==
    \/ \E u \in Users : Login(u) \/ VerifyMfaChallenge(u)
    \/ \E r \in AccReqs :
          \/ \E u \in Users : OwnRequest(r, u) \/ AdminRequest(r, u)
          \/ \E l \in Links : LinkRequest(r, l) \/ SaveInvite(r, l)
          \/ Save(r) \/ SaveWithLink(r) \/ Remove(r) \/ RequestDies(r)
    \/ \E l \in Links : LinkLate(l)

AccSpec == AccInit /\ [][AccNext]_accVars

-----------------------------------------------------------------------------
(* Properties.                                                               *)

\* Unless a save has overwritten an update, no token is accepted that was
\* issued before a change of the password, of the second factor, of the role
\* or of the state of its account.
SessionsEnd ==
    ~stale => \A t \in dead : ~ValidateJwtPayload(t[1], t[2])

\* Unless a save has overwritten an update, a recovery code, an invitation and
\* a reset link work once.
OneTimeSecrets == ~stale => \A x \in DOMAIN uses : uses[x] <= 1

\* Unless two removals have overlapped or an update was lost, an active
\* platform admin remains.
AdminRemains == AccTypeOK /\ (~crossed /\ ~stale => ActiveAdmins # {})

\* assertPlatformAdminRetention: "At least one active platform admin must
\* remain."
AnAdminRemains == ActiveAdmins # {}
=============================================================================
