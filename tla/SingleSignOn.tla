----------------------------- MODULE SingleSignOn -----------------------------
(***************************************************************************)
(* Single sign-on (the OIDC part of auth.service.ts): identity providers   *)
(* that admins create, change and delete, logins that start at one and     *)
(* come back from it later, and the identities that link an account of a   *)
(* provider (its subject) to a user.                                       *)
(*                                                                         *)
(* The provider is external: it answers with a subject and the e-mail that *)
(* the subject has there at that moment.  E-mails move between the users   *)
(* and at the provider while logins are under way.  Only a legacy          *)
(* deployment has the foreign keys of auth-schema.bootstrap.ts.            *)
(***************************************************************************)
EXTENDS Naturals, FiniteSets

CONSTANTS
    Providers, Slugs,   \* ids of providers, and their slugs
    People, Emails, Subjects,
    Flows,              \* logins
    MaxChanges          \* bound: changes of providers, users and e-mails

ASSUME SsoAssumption == Emails # {} /\ MaxChanges \in Nat

VARIABLES
    keyed,       \* the deployment is a legacy one, with foreign keys
    prov,        \* oidc_providers
    emailOf,     \* the e-mail of every user, {} if deleted
    emailClaims,      \* the e-mail of every subject at the providers
    identities,  \* oidc_identities
    flows,
    sessions,    \* history: who was logged in as what
    changes

ssoVars == <<keyed, prov, emailOf, emailClaims, identities, flows, sessions, changes>>

\* OidcProviderEntity: enabled, disabled, or no row (yet, or any more).
ProviderRow == [st : {"none", "on", "off", "gone"}, slug : Slugs]

\* OidcIdentityEntity, unique by provider and subject.
IdentityRow == [provider : Providers, subject : Subjects, user : People]

AtRest == [pc |-> "idle"]

SsoTypeOK ==
    /\ prov \in [Providers -> ProviderRow]
    /\ DOMAIN emailOf = People /\ emailClaims \in [Subjects -> Emails]
    /\ identities \subseteq IdentityRow /\ DOMAIN flows = Flows

SsoInit ==
    /\ keyed \in BOOLEAN
    /\ prov \in [Providers -> [st : {"none"}, slug : Slugs]]
    /\ \E f \in [People -> Emails] :
          (\A u, v \in People : u # v => f[u] # f[v]) /\ emailOf = [u \in People |-> {f[u]}]
    /\ emailClaims \in [Subjects -> Emails]
    /\ identities = {} /\ flows = [f \in Flows |-> AtRest]
    /\ sessions = {} /\ changes = 0

-----------------------------------------------------------------------------
(* Providers.                                                                *)

Exists(i) == prov[i].st \in {"on", "off"}

\* assertOidcProviderSlugAvailable, which the unique constraint backs.
AssertOidcProviderSlugAvailable(i, slug) ==
    \A k \in Providers \ {i} : Exists(k) => prov[k].slug # slug

Changing == changes < MaxChanges /\ changes' = changes + 1 /\ UNCHANGED keyed

\* ON DELETE CASCADE of both foreign keys: the identities of a row that is
\* deleted go with it.
Cascade(orphans) == identities' = identities \ (IF keyed THEN orphans ELSE {})

SsoRest == UNCHANGED <<emailOf, emailClaims, identities, flows, sessions>>

\* createOidcProvider
CreateOidcProvider(i, on) ==
    /\ prov[i].st = "none" /\ AssertOidcProviderSlugAvailable(i, prov[i].slug)
    /\ Changing
    /\ prov' = [prov EXCEPT ![i].st = IF on THEN "on" ELSE "off"]
    /\ SsoRest

\* updateOidcProvider
UpdateOidcProvider(i, slug, on) ==
    /\ Exists(i) /\ AssertOidcProviderSlugAvailable(i, slug)
    /\ Changing
    /\ prov' = [prov EXCEPT ![i] = [st |-> IF on THEN "on" ELSE "off",
                                    slug |-> slug]]
    /\ SsoRest

\* deleteOidcProvider: the identities go or stay.
DeleteOidcProvider(i) ==
    /\ Exists(i) /\ Changing
    /\ prov' = [prov EXCEPT ![i].st = "gone"]
    /\ Cascade({n \in identities : n.provider = i})
    /\ UNCHANGED <<emailOf, emailClaims, flows, sessions>>

\* E-mails move: a user is given a free one or is deleted, or a subject has
\* another one at the provider.
EmailMoves ==
    /\ Changing
    /\ \/ \E u \in People, e \in SUBSET Emails :
             /\ Cardinality(e) <= 1 /\ emailOf[u] # {}
             /\ \A v \in People \ {u} : emailOf[v] \cap e = {}
             /\ emailOf' = [emailOf EXCEPT ![u] = e] /\ UNCHANGED emailClaims
       \/ \E x \in Subjects, e \in Emails :
             emailClaims' = [emailClaims EXCEPT ![x] = e] /\ UNCHANGED emailOf
    /\ Cascade({n \in identities : emailOf'[n.user] = {}})
    /\ UNCHANGED <<prov, flows, sessions>>

-----------------------------------------------------------------------------
(* Logins.                                                                   *)

\* getOidcProviderBySlugOrFail
ProviderBySlug(slug) == {i \in Providers : prov[i].st = "on" /\ prov[i].slug = slug}

Continue(f, x) ==
    /\ flows' = [flows EXCEPT ![f] = x]
    /\ UNCHANGED <<keyed, prov, emailOf, emailClaims, changes>>

\* startOidcLogin: the state token names the provider.
StartOidcLogin(f, slug) ==
    /\ flows[f] = AtRest
    /\ \E i \in ProviderBySlug(slug) : Continue(f, [pc |-> "away", provider |-> i])
    /\ UNCHANGED <<identities, sessions>>

\* handleOidcCallback: verifyOidcStateToken, and the provider that has the
\* slug of the callback now.
CallbackArrives(f, slug) ==
    /\ flows[f].pc = "away"
    /\ flows[f].provider \in ProviderBySlug(slug)
    /\ Continue(f, [flows[f] EXCEPT !.pc = "profile"])
    /\ UNCHANGED <<identities, sessions>>

\* exchangeOidcCode and resolveOidcProfile answer for subject x, and the user
\* with that e-mail is found.
ProfileArrives(f, x) ==
    /\ flows[f].pc = "profile"
    /\ \E u \in People :
          /\ emailClaims[x] \in emailOf[u]
          /\ Continue(f, [pc |-> "identity", provider |-> flows[f].provider,
                          subject |-> x, user |-> u])
    /\ UNCHANGED <<identities, sessions>>

Linked(f) == {n \in identities : n.provider = flows[f].provider
                                 /\ n.subject = flows[f].subject}

SsoLogin(f) ==
    sessions' = sessions \cup {[provider |-> flows[f].provider,
                                subject |-> flows[f].subject,
                                user |-> flows[f].user]}

\* Mutant: an identity of another user will do.
MutFindIdentity(f) ==
    /\ flows[f].pc = "identity"
    /\ IF Linked(f) = {}
       THEN Continue(f, [flows[f] EXCEPT !.pc = "link"]) /\ UNCHANGED sessions
       ELSE Continue(f, AtRest) /\ SsoLogin(f)
    /\ UNCHANGED identities

\* The identity is looked up: the session follows, or a new identity, or an
\* error if it is another user's.
FindIdentity(f) ==
    /\ flows[f].pc = "identity"
    /\ \/ /\ Linked(f) = {}
          /\ Continue(f, [flows[f] EXCEPT !.pc = "link"]) /\ UNCHANGED sessions
       \/ /\ \E n \in Linked(f) : n.user = flows[f].user
          /\ Continue(f, AtRest) /\ SsoLogin(f)
       \/ /\ \E n \in Linked(f) : n.user # flows[f].user
          /\ Continue(f, AtRest) /\ UNCHANGED sessions
    /\ UNCHANGED identities

\* The identity is inserted, unless the index has it already or a foreign key
\* is in the way, and the session is issued (createAccessSession).
LinkIdentity(f) ==
    /\ flows[f].pc = "link"
    /\ Continue(f, AtRest)
    /\ IF /\ Linked(f) = {}
          /\ keyed => Exists(flows[f].provider) /\ emailOf[flows[f].user] # {}
       THEN /\ identities' = identities \cup
                  {[provider |-> flows[f].provider, subject |-> flows[f].subject,
                    user |-> flows[f].user]}
            /\ SsoLogin(f)
       ELSE UNCHANGED <<identities, sessions>>

\* A login that is refused on the way, or abandoned.
EndLogin(f) ==
    /\ flows[f] # AtRest /\ Continue(f, AtRest)
    /\ UNCHANGED <<identities, sessions>>

SsoNext ==
    \/ \E i \in Providers :
          \/ \E on \in BOOLEAN :
                \/ CreateOidcProvider(i, on)
                \/ \E slug \in Slugs : UpdateOidcProvider(i, slug, on)
          \/ DeleteOidcProvider(i)
    \/ EmailMoves
    \/ \E f \in Flows :
          \/ \E slug \in Slugs : StartOidcLogin(f, slug) \/ CallbackArrives(f, slug)
          \/ \E x \in Subjects : ProfileArrives(f, x)
          \/ FindIdentity(f) \/ LinkIdentity(f) \/ EndLogin(f)

SsoSpec == SsoInit /\ [][SsoNext]_ssoVars

-----------------------------------------------------------------------------
(* Properties.                                                               *)

\* However e-mails move and logins overlap, an account of a provider logs in
\* one user only: the one whom handleOidcCallback has linked to it first, as
\* long as that user exists.
SubjectOneUser ==
    /\ SsoTypeOK
    /\ \A s, t \in sessions :
          /\ s.provider = t.provider /\ s.subject = t.subject
          /\ emailOf[s.user] # {} /\ emailOf[t.user] # {}
          => s.user = t.user
=============================================================================
