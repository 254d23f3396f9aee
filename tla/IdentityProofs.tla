---------------------------- MODULE IdentityProofs ----------------------------
(***************************************************************************)
(* What holds of accounts, of single sign-on and of workspaces for every   *)
(* number of requests, links, recovery codes, providers, users, subjects,  *)
(* logins and workspaces.                                                  *)
(***************************************************************************)
EXTENDS Accounts, SingleSignOn, Workspaces, FiniteSetTheorems, TLAPS

-----------------------------------------------------------------------------
(* Single sign-on: the inductive invariant.                                  *)

\* What a login has in its state token and its variables.
AwayStates == [pc : {"away", "profile"}, provider : Providers]
UserStates == [pc : {"identity", "link"}, provider : Providers,
               subject : Subjects, user : People]
FlowStates == {AtRest} \cup AwayStates \cup UserStates

\* The index of oidc_identities.
OneIdentity ==
    \A m, n \in identities :
        m.provider = n.provider /\ m.subject = n.subject => m = n

\* The foreign keys of a legacy deployment.
KeysHold ==
    keyed => \A n \in identities : Exists(n.provider) /\ emailOf[n.user] # {}

\* Who has logged in is linked for as long as the user and the provider exist,
\* and without foreign keys for ever.
SessionLinked(s) ==
    \/ s \in identities
    \/ keyed /\ ~Exists(s.provider) /\ prov[s.provider].st # "none"
    \/ keyed /\ emailOf[s.user] = {}

SsoInv ==
    /\ SubjectOneUser
    /\ emailOf \in [People -> SUBSET Emails]
    /\ flows \in [Flows -> FlowStates]
    /\ sessions \subseteq IdentityRow
    /\ OneIdentity /\ KeysHold
    /\ \A s \in sessions : SessionLinked(s)

LEMMA SsoInitInv == SsoInit => SsoInv
<1> SUFFICES ASSUME SsoInit PROVE SsoInv
  OBVIOUS
<1>1. PICK f \in [People -> Emails] : emailOf = [u \in People |-> {f[u]}]
  BY DEF SsoInit
<1>2. emailOf \in [People -> SUBSET Emails]
  BY <1>1
<1>3. prov \in [Providers -> ProviderRow]
  BY DEF SsoInit, ProviderRow
<1>4. SsoTypeOK
  BY <1>2, <1>3 DEF SsoInit, SsoTypeOK
<1> QED
  BY <1>2, <1>4 DEF SsoInit, SsoInv, SubjectOneUser, FlowStates, OneIdentity,
                    KeysHold

\* Nothing but providers that stay and e-mails that stay: sessions, identities
\* and users are as they were.
LEMMA SsoKept ==
    ASSUME SsoInv, SsoTypeOK', UNCHANGED <<keyed, emailOf, identities, sessions>>,
           flows' \in [Flows -> FlowStates],
           \A i \in Providers : /\ Exists(i) => Exists(i)'
                                /\ prov[i].st = "gone" => prov'[i].st = "gone"
    PROVE  SsoInv'
<1>1. prov \in [Providers -> ProviderRow] /\ identities \subseteq IdentityRow
  BY DEF SsoInv, SubjectOneUser, SsoTypeOK
<1>2. \A s \in sessions : SessionLinked(s)'
  <2>1. \A i \in Providers : ~Exists(i) /\ prov[i].st # "none" => prov[i].st = "gone"
    BY <1>1 DEF Exists, ProviderRow
  <2> QED
    BY <2>1 DEF SsoInv, SessionLinked, IdentityRow, Exists
<1>3. KeysHold'
  BY <1>1 DEF SsoInv, KeysHold, IdentityRow
<1>4. OneIdentity'
  BY DEF SsoInv, OneIdentity
<1>5. SubjectOneUser'
  BY DEF SsoInv, SubjectOneUser
<1> QED
  BY <1>2, <1>3, <1>4, <1>5 DEF SsoInv

LEMMA CreateOidcProviderInv ==
    ASSUME SsoInv, NEW i \in Providers, NEW on \in BOOLEAN,
           CreateOidcProvider(i, on)
    PROVE  SsoInv'
<1> DEFINE st == IF on THEN "on" ELSE "off"
           w == [prov[i] EXCEPT !.st = st]
<1>1. prov \in [Providers -> ProviderRow] /\ prov[i] \in ProviderRow
  BY DEF SsoInv, SubjectOneUser, SsoTypeOK
<1>2. w \in ProviderRow /\ w.st = st
  <2>1. st \in {"none", "on", "off", "gone"}
    OBVIOUS
  <2> HIDE DEF st
  <2>2. w \in ProviderRow
    BY <1>1, <2>1, Zenon DEF ProviderRow
  <2>3. DOMAIN prov[i] = {"st", "slug"}
    BY <1>1 DEF ProviderRow
  <2>4. w.st = st
    BY <2>3, Zenon
  <2> QED
    BY <2>2, <2>4
<1>3. /\ prov' = [prov EXCEPT ![i] = w] /\ prov[i].st = "none"
      /\ UNCHANGED <<keyed, emailOf, emailClaims, identities, flows, sessions>>
  BY DEF CreateOidcProvider, Changing, SsoRest
<1> HIDE DEF w
<1>4. /\ prov' \in [Providers -> ProviderRow] /\ prov'[i] = w
      /\ \A k \in Providers \ {i} : prov'[k] = prov[k]
  BY <1>1, <1>2, <1>3
<1>5. SsoTypeOK' /\ flows' \in [Flows -> FlowStates]
  BY <1>3, <1>4 DEF SsoInv, SubjectOneUser, SsoTypeOK
<1>6. \A k \in Providers : /\ Exists(k) => Exists(k)'
                           /\ prov[k].st = "gone" => prov'[k].st = "gone"
  BY <1>2, <1>3, <1>4 DEF Exists
<1> QED
  BY <1>3, <1>5, <1>6, SsoKept

LEMMA UpdateOidcProviderInv ==
    ASSUME SsoInv, NEW i \in Providers, NEW slug \in Slugs, NEW on \in BOOLEAN,
           UpdateOidcProvider(i, slug, on)
    PROVE  SsoInv'
<1> DEFINE w == [st |-> IF on THEN "on" ELSE "off", slug |-> slug]
<1>1. /\ prov' = [prov EXCEPT ![i] = w] /\ Exists(i)
      /\ UNCHANGED <<keyed, emailOf, emailClaims, identities, flows, sessions>>
  BY DEF UpdateOidcProvider, Changing, SsoRest
<1>2. w \in ProviderRow /\ w.st \in {"on", "off"}
  BY DEF ProviderRow
<1> HIDE DEF w
<1>3. /\ prov' \in [Providers -> ProviderRow] /\ prov'[i] = w
      /\ \A k \in Providers \ {i} : prov'[k] = prov[k]
  BY <1>1, <1>2 DEF SsoInv, SubjectOneUser, SsoTypeOK
<1>4. SsoTypeOK' /\ flows' \in [Flows -> FlowStates]
  BY <1>1, <1>3 DEF SsoInv, SubjectOneUser, SsoTypeOK
<1>5. \A k \in Providers : /\ Exists(k) => Exists(k)'
                           /\ prov[k].st = "gone" => prov'[k].st = "gone"
  BY <1>1, <1>2, <1>3 DEF Exists
<1> QED
  BY <1>1, <1>4, <1>5, SsoKept

\* The provider is gone for good, and with foreign keys its identities are.
LEMMA DeleteOidcProviderInv ==
    ASSUME SsoInv, NEW i \in Providers, DeleteOidcProvider(i) PROVE SsoInv'
<1> DEFINE w == [prov[i] EXCEPT !.st = "gone"]
<1>1. /\ prov \in [Providers -> ProviderRow] /\ prov[i] \in ProviderRow
      /\ identities \subseteq IdentityRow
  BY DEF SsoInv, SubjectOneUser, SsoTypeOK
<1>2. w \in ProviderRow /\ w.st = "gone"
  <2>1. w \in ProviderRow
    BY <1>1, Zenon DEF ProviderRow
  <2>2. DOMAIN prov[i] = {"st", "slug"}
    BY <1>1 DEF ProviderRow
  <2>3. w.st = "gone"
    BY <2>2, Zenon
  <2> QED
    BY <2>1, <2>3
<1>3. /\ prov' = [prov EXCEPT ![i] = w] /\ Exists(i)
      /\ identities' = identities \ (IF keyed THEN {n \in identities : n.provider = i}
                                     ELSE {})
      /\ UNCHANGED <<keyed, emailOf, emailClaims, flows, sessions>>
  BY DEF DeleteOidcProvider, Changing, Cascade
<1> HIDE DEF w
<1>4. /\ prov' \in [Providers -> ProviderRow] /\ prov'[i] = w
      /\ \A k \in Providers \ {i} : prov'[k] = prov[k]
  BY <1>1, <1>2, <1>3
<1>5. SubjectOneUser' /\ flows' \in [Flows -> FlowStates]
  BY <1>3, <1>4 DEF SsoInv, SubjectOneUser, SsoTypeOK
<1>6. OneIdentity' /\ KeysHold'
  BY <1>1, <1>3, <1>4 DEF SsoInv, OneIdentity, KeysHold, Exists, IdentityRow
<1>7. \A s \in sessions : SessionLinked(s)'
  BY <1>1, <1>2, <1>3, <1>4 DEF SsoInv, SessionLinked, Exists, IdentityRow
<1> QED
  BY <1>3, <1>5, <1>6, <1>7 DEF SsoInv

LEMMA EmailMovesInv == ASSUME SsoInv, EmailMoves PROVE SsoInv'
<1>1. /\ identities' = identities \
            (IF keyed THEN {n \in identities : emailOf'[n.user] = {}} ELSE {})
      /\ UNCHANGED <<keyed, prov, flows, sessions>>
  BY DEF EmailMoves, Changing, Cascade
<1>2. /\ emailOf' \in [People -> SUBSET Emails]
      /\ emailClaims' \in [Subjects -> Emails]
      /\ \A u \in People : emailOf[u] = {} => emailOf'[u] = {}
  BY DEF EmailMoves, SsoInv, SubjectOneUser, SsoTypeOK
<1>3. SsoTypeOK'
  BY <1>1, <1>2 DEF SsoInv, SubjectOneUser, SsoTypeOK
<1>4. SubjectOneUser'
  BY <1>1, <1>2, <1>3 DEF SsoInv, SubjectOneUser, IdentityRow
<1>5. OneIdentity' /\ KeysHold'
  BY <1>1 DEF SsoInv, OneIdentity, KeysHold, Exists
<1>6. \A s \in sessions : SessionLinked(s)'
  BY <1>1, <1>2 DEF SsoInv, SessionLinked, Exists, IdentityRow
<1> QED
  BY <1>1, <1>2, <1>4, <1>5, <1>6 DEF SsoInv

\* A login that goes on to another state and logs nobody in.
LEMMA LoginGoesOn ==
    ASSUME SsoInv, NEW f \in Flows, NEW x \in FlowStates, Continue(f, x),
           UNCHANGED <<identities, sessions>>
    PROVE  SsoInv'
<1>1. flows' \in [Flows -> FlowStates]
  BY DEF Continue, SsoInv
<1>2. SsoTypeOK'
  BY <1>1 DEF Continue, SsoInv, SubjectOneUser, SsoTypeOK
<1>3. \A i \in Providers : Exists(i)' <=> Exists(i)
  BY DEF Continue, Exists
<1> QED
  BY <1>1, <1>2, <1>3, SsoKept DEF Continue

LEMMA FlowFields ==
    ASSUME SsoInv, NEW f \in Flows
    PROVE  /\ flows[f].pc \in {"away", "profile"} => flows[f] \in AwayStates
           /\ flows[f].pc \in {"identity", "link"} => flows[f] \in UserStates
           /\ flows[f].pc \in {"identity", "link"} =>
                 /\ flows[f].provider \in Providers
                 /\ flows[f].subject \in Subjects /\ flows[f].user \in People
<1>1. flows[f] \in FlowStates
  BY DEF SsoInv
<1>2. AtRest.pc = "idle"
  BY DEF AtRest
<1>3. /\ \A x \in AwayStates : x.pc \in {"away", "profile"}
      /\ \A x \in UserStates : x.pc \in {"identity", "link"} /\ x.provider \in Providers
                               /\ x.subject \in Subjects /\ x.user \in People
  BY DEF AwayStates, UserStates
<1> QED
  BY <1>1, <1>2, <1>3 DEF FlowStates

LEMMA LoginStepInv ==
    ASSUME SsoInv, NEW f \in Flows,
           \/ \E slug \in Slugs : StartOidcLogin(f, slug) \/ CallbackArrives(f, slug)
           \/ \E x \in Subjects : ProfileArrives(f, x)
           \/ EndLogin(f)
    PROVE  SsoInv'
<1>1. AtRest \in FlowStates
  BY DEF FlowStates
<1>2. ASSUME NEW slug \in Slugs, StartOidcLogin(f, slug) PROVE SsoInv'
  <2>1. PICK i \in Providers : Continue(f, [pc |-> "away", provider |-> i])
    BY <1>2 DEF StartOidcLogin, ProviderBySlug
  <2>2. [pc |-> "away", provider |-> i] \in FlowStates
    BY DEF FlowStates, AwayStates
  <2> QED
    BY <1>2, <2>1, <2>2, LoginGoesOn DEF StartOidcLogin
<1>3. ASSUME NEW slug \in Slugs, CallbackArrives(f, slug) PROVE SsoInv'
  <2>1. PICK x : x = [flows[f] EXCEPT !.pc = "profile"]
    OBVIOUS
  <2>2. flows[f] \in AwayStates
    BY <1>3, FlowFields DEF CallbackArrives
  <2>3. x \in AwayStates
    BY <2>1, <2>2, Zenon DEF AwayStates
  <2>4. x \in FlowStates
    BY <2>3 DEF FlowStates
  <2> QED
    BY <1>3, <2>1, <2>4, LoginGoesOn DEF CallbackArrives
<1>4. ASSUME NEW x \in Subjects, ProfileArrives(f, x) PROVE SsoInv'
  <2>1. PICK u \in People :
           Continue(f, [pc |-> "identity", provider |-> flows[f].provider,
                        subject |-> x, user |-> u])
    BY <1>4 DEF ProfileArrives
  <2>2. flows[f].provider \in Providers
    BY <1>4, FlowFields DEF ProfileArrives, AwayStates
  <2>3. [pc |-> "identity", provider |-> flows[f].provider, subject |-> x,
         user |-> u] \in FlowStates
    BY <2>2 DEF FlowStates, UserStates
  <2> QED
    BY <1>4, <2>1, <2>3, LoginGoesOn DEF ProfileArrives
<1>5. ASSUME EndLogin(f) PROVE SsoInv'
  BY <1>1, <1>5, LoginGoesOn DEF EndLogin
<1> QED
  BY <1>2, <1>3, <1>4, <1>5

\* A session of the user whom an identity names, which the index makes the only
\* one of the subject.
LEMMA LoginLinked ==
    ASSUME SsoInv, NEW f \in Flows, flows[f].pc \in {"identity", "link"},
           Continue(f, AtRest), SsoLogin(f),
           NEW n, n = [provider |-> flows[f].provider,
                       subject |-> flows[f].subject, user |-> flows[f].user],
           n \in identities', identities \subseteq identities',
           identities' \subseteq IdentityRow, OneIdentity', KeysHold'
    PROVE  SsoInv'
<1>1. n \in IdentityRow /\ sessions' = sessions \cup {n}
  BY FlowFields DEF IdentityRow, SsoLogin
<1>2. UNCHANGED <<keyed, prov, emailOf, emailClaims, changes>>
  BY DEF Continue
<1>3. flows' \in [Flows -> FlowStates]
  BY DEF Continue, SsoInv, FlowStates
<1>4. SsoTypeOK'
  BY <1>2, <1>3 DEF SsoInv, SubjectOneUser, SsoTypeOK
<1>5. sessions' \subseteq IdentityRow
  BY <1>1 DEF SsoInv
<1>6. \A s \in sessions' : SessionLinked(s)'
  BY <1>1, <1>2 DEF SsoInv, SessionLinked, Exists
<1>7. ASSUME NEW s \in sessions, s.provider = n.provider, s.subject = n.subject,
             emailOf[s.user] # {}
      PROVE  s.user = n.user
  <2>1. s \in identities'
    BY <1>2, <1>7 DEF SsoInv, SessionLinked, KeysHold, Exists
  <2> QED
    BY <1>7, <2>1 DEF OneIdentity
<1>8. SubjectOneUser'
  BY <1>1, <1>2, <1>4, <1>7 DEF SsoInv, SubjectOneUser
<1> QED
  BY <1>2, <1>3, <1>5, <1>6, <1>8 DEF SsoInv

LEMMA FindIdentityInv ==
    ASSUME SsoInv, NEW f \in Flows, FindIdentity(f) PROVE SsoInv'
<1>1. flows[f] \in UserStates /\ identities' = identities
  BY FlowFields DEF FindIdentity
<1>2. CASE Continue(f, [flows[f] EXCEPT !.pc = "link"]) /\ UNCHANGED sessions
  <2>1. PICK x : x = [flows[f] EXCEPT !.pc = "link"]
    OBVIOUS
  <2>2. x \in UserStates
    BY <1>1, <2>1, Zenon DEF UserStates
  <2>3. x \in FlowStates
    BY <2>2 DEF FlowStates
  <2> QED
    BY <1>1, <1>2, <2>1, <2>3, LoginGoesOn
<1>3. CASE Continue(f, AtRest) /\ UNCHANGED sessions
  BY <1>1, <1>3, LoginGoesOn DEF FlowStates
<1>4. ASSUME NEW n \in Linked(f), n.user = flows[f].user, Continue(f, AtRest),
             SsoLogin(f)
      PROVE  SsoInv'
  <2>1. n = [provider |-> flows[f].provider, subject |-> flows[f].subject,
             user |-> flows[f].user]
    BY <1>4 DEF Linked, SsoInv, SubjectOneUser, SsoTypeOK, IdentityRow
  <2>2. /\ n \in identities' /\ identities' \subseteq IdentityRow
        /\ OneIdentity' /\ KeysHold'
    BY <1>1, <1>4 DEF Linked, SsoInv, SubjectOneUser, SsoTypeOK, OneIdentity,
                      KeysHold, Continue, Exists
  <2> QED
    BY <1>1, <1>4, <2>1, <2>2, LoginLinked DEF FindIdentity
<1> QED
  BY <1>2, <1>3, <1>4 DEF FindIdentity

LEMMA LinkIdentityInv ==
    ASSUME SsoInv, NEW f \in Flows, LinkIdentity(f) PROVE SsoInv'
<1> DEFINE free == /\ Linked(f) = {}
                   /\ keyed => Exists(flows[f].provider)
                               /\ emailOf[flows[f].user] # {}
<1>1. flows[f].pc = "link" /\ Continue(f, AtRest)
  BY DEF LinkIdentity
<1>2. CASE ~free
  <2>1. UNCHANGED <<identities, sessions>>
    BY <1>2 DEF LinkIdentity
  <2> QED
    BY <1>1, <2>1, LoginGoesOn DEF FlowStates
<1>3. CASE free
  <2>1. PICK n : n = [provider |-> flows[f].provider,
                      subject |-> flows[f].subject, user |-> flows[f].user]
    OBVIOUS
  <2>2. n \in IdentityRow /\ identities' = identities \cup {n} /\ SsoLogin(f)
    BY <1>1, <1>3, <2>1, FlowFields DEF LinkIdentity, IdentityRow
  <2>3. identities' \subseteq IdentityRow
    BY <2>2 DEF SsoInv, SubjectOneUser, SsoTypeOK
  <2>4. OneIdentity'
    BY <1>3, <2>1, <2>2 DEF SsoInv, OneIdentity, Linked
  <2>5. KeysHold'
    BY <1>1, <1>3, <2>1, <2>2 DEF SsoInv, KeysHold, Continue, Exists
  <2> QED
    BY <1>1, <2>1, <2>2, <2>3, <2>4, <2>5, LoginLinked
<1> QED
  BY <1>2, <1>3

LEMMA SsoStepInv == SsoInv /\ [SsoNext]_ssoVars => SsoInv'
<1> SUFFICES ASSUME SsoInv, [SsoNext]_ssoVars PROVE SsoInv'
  OBVIOUS
<1>1. CASE UNCHANGED ssoVars
  <2>1. SsoTypeOK' /\ flows' \in [Flows -> FlowStates]
    BY <1>1 DEF SsoInv, SubjectOneUser, SsoTypeOK, ssoVars
  <2>2. \A i \in Providers : Exists(i)' <=> Exists(i)
    BY <1>1 DEF ssoVars, Exists
  <2> QED
    BY <1>1, <2>1, <2>2, SsoKept DEF ssoVars
<1> QED
  BY <1>1, CreateOidcProviderInv, UpdateOidcProviderInv, DeleteOidcProviderInv,
     EmailMovesInv, LoginStepInv, FindIdentityInv, LinkIdentityInv DEF SsoNext

\* However logins, e-mails and providers move, with the foreign keys or without
\* them: an account of a provider logs in one user only as long as that user
\* exists (handleOidcCallback and the index of oidc_identities).
THEOREM SubjectLogsInOneUser == SsoSpec => []SubjectOneUser
<1>1. SsoInv => SubjectOneUser
  BY DEF SsoInv
<1> QED
  BY <1>1, SsoInitInv, SsoStepInv, PTL DEF SsoSpec

-----------------------------------------------------------------------------
(* Accounts: the inductive invariant.                                        *)

Columns == DOMAIN NewUser

\* Requests whose write is a save of the entity they have loaded.
Saving == {"save", "update", "recover", "accept", "reset"}

\* The entity of a request: columns of the account as it was loaded, with a new
\* session version if the change ends sessions.  Only an update changes the role
\* or takes the account out of use.
Carries(q) ==
    /\ {"sv", "admin", "active"} \subseteq DOMAIN q.ent
    /\ DOMAIN q.ent \subseteq Columns \ {"live"}
    /\ \A x \in DOMAIN q.ent \ {"sv", "codes"} : q.ent[x] \in BOOLEAN
    /\ q.ent["sv"] = IF q.ends THEN q.seen.sv + 1 ELSE q.seen.sv
    /\ "codes" \in DOMAIN q.ent => q.ent["codes"] \subseteq Codes
    /\ q.op # "update" => /\ q.ent["admin"] = q.seen.admin
                          /\ q.seen.active => q.ent["active"] = TRUE

\* What a request has in its variables.
ChangeOK(q) ==
    q.op # "none" =>
       /\ q.op \in Saving \cup {"invite", "delete"}
       /\ q.u \in Users /\ q.seen \in UserRow /\ q.seen.live
       /\ q.ends \in BOOLEAN
       /\ q.op \in Saving => Carries(q)
       /\ q.op = "recover" =>
             /\ ~q.ends /\ "codes" \in DOMAIN q.ent
             /\ \E k \in q.seen.codes : /\ q.use = {k}
                                        /\ q.ent["codes"] = q.seen.codes \ {k}
       /\ q.op \in {"accept", "reset"} =>
             q.u = Guest /\ q.ends /\ \E l \in Links : q.use = {l}
       /\ q.op \in {"save", "update"} => q.use = {}

\* Request r stores code k, which its account does not have yet.
Adds(r, k) ==
    /\ areqs[r].op \in Saving
    /\ "codes" \in DOMAIN areqs[r].ent /\ k \in areqs[r].ent["codes"]
    /\ k \notin areqs[r].seen.codes

\* Session versions never go back.
SeenBefore ==
    \A r \in AccReqs : areqs[r].op # "none" =>
        areqs[r].seen.sv <= acct[areqs[r].u].sv

TokensOK ==
    /\ \A t \in toks : t[2] <= acct[t[1]].sv
    /\ \A t \in dead : t[2] < acct[t[1]].sv

\* A code is in one list at most until it is used, and is in none before the
\* request that issues it is stored.
Unissued(k) == uses[k] = 0 /\ \A u \in Users : k \notin acct[u].codes

CodeOK(k) ==
    /\ uses[k] <= 1
    /\ uses[k] > 0 => \A u \in Users : k \notin acct[u].codes
    /\ k > lastCode => Unissued(k)
    /\ k \notin acct[Root].codes \/ k \notin acct[Guest].codes
    /\ \A r \in AccReqs : Adds(r, k) => k <= lastCode /\ Unissued(k)
    /\ \A r, s \in AccReqs : Adds(r, k) /\ Adds(s, k) => r = s

\* A link that was used is marked, and who has seen it before its use has seen
\* an account that has changed since.
LinkOK(l) ==
    /\ uses[l] <= 1
    /\ invites[l] = "none" \/ resets[l] = "none"
    /\ uses[l] > 0 => "used" \in {invites[l], resets[l]}
    /\ \A r \in AccReqs : areqs[r].op \in {"accept", "reset"} /\ l \in areqs[r].use =>
          /\ areqs[r].op = "accept" => invites[l] # "none"
          /\ areqs[r].op = "reset" => resets[l] # "none"
          /\ uses[l] > 0 => areqs[r].seen.sv < acct[Guest].sv

\* Request r takes an active admin out of use.
Retiring(r) ==
    /\ areqs[r].u \in ActiveAdmins
    /\ \/ areqs[r].op = "delete"
       \/ /\ areqs[r].op = "update"
          /\ ~(areqs[r].ent["admin"] /\ areqs[r].ent["active"])

\* An admin whom a request takes out of use is not the last one, and no two
\* requests do so with two admins.
AdminsOK ==
    /\ ActiveAdmins # {}
    /\ \A r \in AccReqs : Retiring(r) => ActiveAdmins = Users
    /\ \A r, s \in AccReqs : Retiring(r) /\ Retiring(s) => areqs[r].u = areqs[s].u

AccInv ==
    /\ AccTypeOK
    /\ DOMAIN areqs = AccReqs /\ \A r \in AccReqs : ChangeOK(areqs[r])
    /\ uses \in [Codes \cup Links -> Nat] /\ {stale, crossed} \subseteq BOOLEAN
    /\ ~stale => /\ SeenBefore /\ TokensOK
                 /\ \A k \in Codes : CodeOK(k)
                 /\ \A l \in Links : LinkOK(l)
                 /\ ~crossed => AdminsOK

-----------------------------------------------------------------------------
(* Accounts as they are and as they are saved.                               *)

LEMMA NewUserOK ==
    /\ NewUser \in UserRow /\ NewUser.live /\ ~NewUser.active
    /\ NewUser.codes = {} /\ NewUser.sv = 0
    /\ Columns = {"live", "admin", "active", "accepted", "activated", "sv",
                  "mfa", "pw", "pend", "codes"}
  BY DEF NewUser, UserRow, Columns

LEMMA UserFields ==
    ASSUME NEW w \in UserRow
    PROVE  /\ DOMAIN w = Columns /\ w.sv \in Nat /\ w.codes \subseteq Codes
           /\ \A x \in Columns \ {"sv", "codes"} : w[x] \in BOOLEAN
           /\ {w.live, w.admin, w.active, w.accepted, w.activated} \subseteq BOOLEAN
  BY NewUserOK DEF UserRow

LEMMA AnyColumns ==
    ASSUME NEW w, w = [x \in Columns |-> w[x]], w["sv"] \in Nat,
           w["codes"] \subseteq Codes,
           \A x \in Columns \ {"sv", "codes"} : w[x] \in BOOLEAN
    PROVE  w \in UserRow
<1>1. w = [live |-> w.live, admin |-> w.admin, active |-> w.active,
           accepted |-> w.accepted, activated |-> w.activated, sv |-> w.sv,
           mfa |-> w.mfa, pw |-> w.pw, pend |-> w.pend, codes |-> w.codes]
  BY NewUserOK
<1>2. /\ w.live \in BOOLEAN /\ w.admin \in BOOLEAN /\ w.active \in BOOLEAN
      /\ w.accepted \in BOOLEAN /\ w.activated \in BOOLEAN /\ w.mfa \in BOOLEAN
      /\ w.pw \in BOOLEAN /\ w.pend \in BOOLEAN
  BY NewUserOK
<1> QED
  BY <1>1, <1>2 DEF UserRow

LEMMA Accounts2 ==
    ASSUME AccInv
    PROVE  /\ acct \in [Users -> UserRow] /\ \A u \in Users : acct[u] \in UserRow
           /\ Root # Guest /\ Users = {Root, Guest} /\ Guest \in Users
           /\ Root \in Users /\ Links \cap Codes = {}
           /\ lastCode \in Nat
           /\ \A t \in toks : t[1] \in Users /\ t[2] \in Nat
           /\ \A x \in Codes \cup Links : uses[x] \in Nat
  BY AccountsAssumption DEF AccInv, AccTypeOK, Users, Codes

LEMMA OneRequest ==
    ASSUME AccInv, NEW r \in AccReqs, NEW q, areqs' = [areqs EXCEPT ![r] = q]
    PROVE  /\ DOMAIN areqs' = AccReqs /\ areqs'[r] = q
           /\ \A s \in AccReqs \ {r} : areqs'[s] = areqs[s]
  BY DEF AccInv

LEMMA RestingOK == Resting.op = "none" /\ ChangeOK(Resting)
  BY DEF Resting, ChangeOK

\* The admins are two or one of them or none.
LEMMA BothAdmins ==
    ASSUME AccInv, Cardinality(ActiveAdmins) > 1 PROVE ActiveAdmins = Users
<1>1. ActiveAdmins \subseteq {Root, Guest}
  BY DEF ActiveAdmins, Users
<1>2. CASE ActiveAdmins = {}
  BY <1>2, FS_EmptySet
<1>3. ASSUME NEW u, ActiveAdmins = {u} PROVE FALSE
  <2>1. Cardinality({u}) = 1
    BY FS_Singleton
  <2> QED
    BY <1>3, <2>1
<1> QED
  BY <1>1, <1>2, <1>3 DEF Users

LEMMA AccInitInv == AccInit => AccInv
<1> SUFFICES ASSUME AccInit PROVE AccInv
  OBVIOUS
<1> DEFINE second == [Active EXCEPT !.mfa = TRUE, !.codes = {1}]
<1>1. MaxCodes \in Nat /\ MaxCodes > 0 /\ Root # Guest
  BY AccountsAssumption
<1>2. /\ Active \in UserRow /\ Active.live /\ Active.active /\ Active.admin
      /\ Active.codes = {}
  <2>1. Active \in UserRow
    BY NewUserOK, Zenon DEF Active, UserRow
  <2>2. DOMAIN NewUser = {"live", "admin", "active", "accepted", "activated", "sv",
                          "mfa", "pw", "pend", "codes"}
    BY NewUserOK DEF Columns
  <2>3. Active.admin = TRUE /\ Active.active = TRUE
    BY <2>2, Zenon DEF Active
  <2>4. Active.codes = NewUser.codes /\ Active.live = NewUser.live
    BY <2>2, Zenon DEF Active
  <2> QED
    BY <2>1, <2>3, <2>4, NewUserOK
<1>3. second \in UserRow /\ second.codes = {1}
  <2>1. {1} \subseteq Codes
    BY <1>1 DEF Codes
  <2>2. second \in UserRow
    BY <1>2, <2>1, Zenon DEF UserRow
  <2>3. DOMAIN Active = {"live", "admin", "active", "accepted", "activated", "sv",
                         "mfa", "pw", "pend", "codes"}
    BY <1>2 DEF UserRow
  <2>4. second.codes = {1}
    BY <2>3, Zenon
  <2> QED
    BY <2>2, <2>4
<1> HIDE DEF second
<1>4. /\ acct \in [Users -> UserRow] /\ acct[Root] = Active
      /\ acct[Guest].codes \subseteq {1}
  <2>1. PICK w \in {NewUser, second} :
           acct = [u \in Users |-> IF u = Root THEN Active ELSE w]
    BY DEF AccInit, second
  <2> QED
    BY <1>1, <1>2, <1>3, <2>1, NewUserOK DEF Users
<1>5. /\ invites \in [Links -> {"none", "pending"}]
      /\ resets = [k \in Links |-> "none"] /\ toks = {} /\ challenges = {}
      /\ dead = {} /\ lastCode = 1 /\ uses = [x \in Codes \cup Links |-> 0]
      /\ areqs = [r \in AccReqs |-> Resting] /\ stale = FALSE /\ crossed = FALSE
  BY DEF AccInit
<1>6. AccTypeOK
  BY <1>1, <1>4, <1>5 DEF AccTypeOK, LinkStates
<1>7. \A r \in AccReqs : areqs[r].op = "none" /\ ChangeOK(areqs[r])
  BY <1>5, RestingOK
<1>8. SeenBefore /\ TokensOK
  BY <1>5, <1>7 DEF SeenBefore, TokensOK
<1>9. ASSUME NEW k \in Codes PROVE CodeOK(k)
  <2>1. k \in Nat /\ uses[k] = 0 /\ \A r \in AccReqs : ~Adds(r, k)
    BY <1>5, <1>7 DEF Adds, Saving, Codes
  <2>2. k \notin acct[Root].codes
    BY <1>2, <1>4
  <2>3. k > lastCode => \A u \in Users : k \notin acct[u].codes
    BY <1>2, <1>4, <1>5, <2>1 DEF Users
  <2> QED
    BY <2>1, <2>2, <2>3 DEF CodeOK, Unissued
<1>10. ASSUME NEW l \in Links PROVE LinkOK(l)
  BY <1>5, <1>7 DEF LinkOK
<1>11. AdminsOK
  <2>1. Root \in ActiveAdmins
    BY <1>2, <1>4 DEF ActiveAdmins, Users
  <2> QED
    BY <1>7, <2>1 DEF AdminsOK, Retiring
<1>12. DOMAIN areqs = AccReqs /\ uses \in [Codes \cup Links -> Nat]
  BY <1>5
<1> QED
  BY <1>5, <1>6, <1>7, <1>8, <1>9, <1>10, <1>11, <1>12 DEF AccInv

-----------------------------------------------------------------------------
(* Requests that load an account.                                            *)

\* What Change puts into the variables of a request.
Loaded(q, op, u, columns, c, ends, use) ==
    /\ q.op = op /\ q.u = u /\ q.seen = acct[u] /\ q.ends = ends /\ q.use = use
    /\ DOMAIN q.ent = columns \cup DOMAIN c
    /\ \A x \in DOMAIN q.ent :
          q.ent[x] = IF x \in DOMAIN c THEN c[x] ELSE acct[u][x]

LEMMA ChangeMade ==
    ASSUME AccInv, NEW r \in AccReqs, NEW op, NEW u \in Users, NEW columns,
           NEW change, NEW ends, NEW use,
           Change(r, op, u, columns, change, ends, use)
    PROVE  /\ areqs[r].op = "none"
           /\ \E q : /\ areqs' = [areqs EXCEPT ![r] = q]
                     /\ Loaded(q, op, u, columns, change, ends, use)
<1> DEFINE e == [x \in columns \cup DOMAIN change |->
                   IF x \in DOMAIN change THEN change[x] ELSE acct[u][x]]
           q == [op |-> op, u |-> u, ends |-> ends, use |-> use,
                 seen |-> acct[u], ent |-> e]
<1>1. areqs[r].op = "none" /\ areqs' = [areqs EXCEPT ![r] = q]
  BY RestingOK DEF Change
<1>2. /\ DOMAIN e = columns \cup DOMAIN change
      /\ \A x \in DOMAIN e :
            e[x] = IF x \in DOMAIN change THEN change[x] ELSE acct[u][x]
  OBVIOUS
<1> HIDE DEF e
<1>3. /\ q.op = op /\ q.u = u /\ q.seen = acct[u] /\ q.ends = ends
      /\ q.use = use /\ q.ent = e
  OBVIOUS
<1> HIDE DEF q
<1>4. Loaded(q, op, u, columns, change, ends, use)
  BY <1>2, <1>3 DEF Loaded
<1> QED
  BY <1>1, <1>4

\* Someone else's load leaves a request as it was.
LEMMA OthersAdd ==
    ASSUME NEW s \in AccReqs, areqs'[s] = areqs[s], NEW k
    PROVE  Adds(s, k)' <=> Adds(s, k)
  BY DEF Adds

\* The codes that a request is about to store: of the account, or a new one.
CodesToStore(q) ==
    q.op \in Saving /\ "codes" \in DOMAIN q.ent =>
        \A k \in q.ent["codes"] :
            k \in acct[q.u].codes \/ (k = lastCode + 1 /\ k = lastCode')

\* The link that a request has found is pending.
LinkFound(q) ==
    \A l \in Links : q.op \in {"accept", "reset"} /\ l \in q.use =>
        /\ q.op = "accept" => invites[l] = "pending"
        /\ q.op = "reset" => resets[l] = "pending"

\* An admin that a request is about to take out of use is not the last one, and
\* no other removal is under way.
AnotherAdmin(q) ==
    ~crossed' /\ q.op \in {"update", "delete"} =>
        (q.u \in ActiveAdmins /\ (q.op = "delete" \/ ~(q.ent["admin"] /\ q.ent["active"])) =>
            /\ ActiveAdmins = Users
            /\ \A s \in AccReqs : areqs[s].op \notin {"update", "delete"})

LEMMA LoadInv ==
    ASSUME AccInv, NEW r \in AccReqs, NEW q, areqs[r].op = "none",
           areqs' = [areqs EXCEPT ![r] = q],
           UNCHANGED <<acct, invites, resets, toks, challenges, dead, uses, stale>>,
           lastCode' \in 0 .. MaxCodes, lastCode <= lastCode',
           crossed' \in BOOLEAN, crossed => crossed',
           ChangeOK(q), q.op # "none", q.seen = acct[q.u],
           CodesToStore(q), LinkFound(q), AnotherAdmin(q)
    PROVE  AccInv'
<1>1. /\ DOMAIN areqs' = AccReqs /\ areqs'[r] = q
      /\ \A s \in AccReqs \ {r} : areqs'[s] = areqs[s]
  BY OneRequest
<1>2. AccTypeOK'
  BY DEF AccInv, AccTypeOK
<1>3. \A s \in AccReqs : ChangeOK(areqs'[s])
  BY <1>1 DEF AccInv
<1>4. uses' \in [Codes \cup Links -> Nat] /\ {stale, crossed}' \subseteq BOOLEAN
  BY DEF AccInv
<1>5. ASSUME ~stale PROVE SeenBefore' /\ TokensOK'
  <2>1. SeenBefore /\ TokensOK
    BY <1>5 DEF AccInv
  <2>2. q.u \in Users /\ acct[q.u].sv \in Nat
    BY Accounts2, UserFields DEF ChangeOK
  <2>3. SeenBefore'
    BY <1>1, <2>1, <2>2 DEF SeenBefore
  <2>4. TokensOK'
    BY <2>1 DEF TokensOK
  <2> QED
    BY <2>3, <2>4
<1>6. ASSUME ~stale, NEW k \in Codes PROVE CodeOK(k)'
  <2>1. CodeOK(k)
    BY <1>6 DEF AccInv
  <2>2. k \in Nat /\ lastCode \in Nat /\ lastCode' \in Nat
    BY Accounts2 DEF Codes
  <2>3. Unissued(k)' <=> Unissued(k)
    BY DEF Unissued
  <2>4. \A s \in AccReqs : s # r => (Adds(s, k)' <=> Adds(s, k))
    BY <1>1, OthersAdd
  <2>5. Adds(r, k)' => k = lastCode + 1 /\ k = lastCode'
    BY <1>1 DEF Adds, CodesToStore
  <2>6. ~Adds(r, k)
    BY DEF Adds, Saving
  <2>7. k > lastCode' => Unissued(k)'
    BY <2>1, <2>2, <2>3 DEF CodeOK
  <2>8. ASSUME NEW s \in AccReqs, Adds(s, k)' PROVE k <= lastCode' /\ Unissued(k)'
    <3>1. CASE s = r
      BY <2>1, <2>2, <2>3, <2>5, <2>8, <3>1 DEF CodeOK
    <3>2. CASE s # r
      BY <2>1, <2>2, <2>3, <2>4, <2>8, <3>2 DEF CodeOK
    <3> QED
      BY <3>1, <3>2
  <2>9. ASSUME NEW s \in AccReqs, NEW t \in AccReqs, Adds(s, k)', Adds(t, k)'
        PROVE  s = t
    <3>1. \A x \in AccReqs : Adds(x, k) => k <= lastCode
      BY <2>1 DEF CodeOK
    <3>2. \A x, y \in AccReqs : Adds(x, k) /\ Adds(y, k) => x = y
      BY <2>1 DEF CodeOK
    <3> QED
      BY <2>2, <2>4, <2>5, <2>9, <3>1, <3>2
  <2> QED
    BY <2>1, <2>7, <2>8, <2>9 DEF CodeOK
<1>7. ASSUME ~stale, NEW l \in Links PROVE LinkOK(l)'
  <2>1. LinkOK(l) /\ uses[l] \in Nat
    BY <1>7, Accounts2 DEF AccInv
  <2>2. q.op \in {"accept", "reset"} /\ l \in q.use =>
           /\ q.op = "accept" => invites[l] # "none"
           /\ q.op = "reset" => resets[l] # "none"
           /\ ~(uses[l] > 0)
    BY <2>1 DEF LinkOK, LinkFound
  <2> QED
    BY <1>1, <2>1, <2>2 DEF LinkOK
<1>8. ASSUME ~stale, ~crossed' PROVE AdminsOK'
  <2>1. AdminsOK /\ ActiveAdmins' = ActiveAdmins
    BY <1>8 DEF AccInv, ActiveAdmins
  <2>2. \A s \in AccReqs : s # r => (Retiring(s)' <=> Retiring(s))
    BY <1>1, <2>1 DEF Retiring
  <2>3. Retiring(r)' => /\ ActiveAdmins = Users
                        /\ \A s \in AccReqs : ~Retiring(s)
    BY <1>1, <1>8, <2>1 DEF Retiring, AnotherAdmin
  <2> QED
    BY <1>8, <2>1, <2>2, <2>3 DEF AdminsOK
<1> QED
  BY <1>1, <1>2, <1>3, <1>4, <1>5, <1>6, <1>7, <1>8 DEF AccInv

\* The common case: a request that issues no code and removes no admin.
LEMMA PlainLoadInv ==
    ASSUME AccInv, NEW r \in AccReqs, NEW q, areqs[r].op = "none",
           areqs' = [areqs EXCEPT ![r] = q],
           UNCHANGED acct, Rest, ChangeOK(q),
           q.op \notin {"none", "update", "delete"}, q.seen = acct[q.u],
           CodesToStore(q), LinkFound(q)
    PROVE  AccInv'
<1>1. AnotherAdmin(q)
  BY DEF AnotherAdmin
<1>2. /\ lastCode' \in 0 .. MaxCodes /\ lastCode <= lastCode'
      /\ crossed' \in BOOLEAN /\ (crossed => crossed')
  BY Accounts2 DEF Rest, AccInv, AccTypeOK
<1>3. UNCHANGED <<acct, invites, resets, toks, challenges, dead, uses, stale>>
  BY DEF Rest
<1>4. q.op # "none"
  OBVIOUS
<1> QED
  BY <1>1, <1>2, <1>3, <1>4, LoadInv

\* What the changes of an own request of user u may be.
Changes(c, u, ends) ==
    /\ DOMAIN c \subseteq Columns \ {"live", "admin"}
    /\ \A x \in DOMAIN c \ {"sv", "codes"} : c[x] \in BOOLEAN
    /\ "active" \in DOMAIN c => c["active"] = TRUE
    /\ "codes" \in DOMAIN c => c["codes"] \subseteq Codes
    /\ ends \in BOOLEAN /\ (ends => "sv" \in DOMAIN c /\ c["sv"] = Bump(u))
    /\ "sv" \in DOMAIN c => ends

\* The same for an own request, which carries what its account has.
SavesOwn(q, op, u, c, ends, use) ==
    /\ q.op = op /\ q.u = u /\ q.seen = acct[u] /\ q.ends = ends /\ q.use = use
    /\ q.seen \in UserRow /\ q.seen.live /\ Carries(q)
    /\ "codes" \in DOMAIN c => "codes" \in DOMAIN q.ent /\ q.ent["codes"] = c["codes"]
    /\ "codes" \in DOMAIN q.ent /\ "codes" \notin DOMAIN c =>
          q.ent["codes"] = acct[u].codes

LEMMA SaveMade ==
    ASSUME AccInv, NEW r \in AccReqs, NEW u \in Users, acct[u].live,
           NEW op \in Saving \ {"update"}, NEW use,
           NEW columns, Plainly \subseteq columns, columns \subseteq Columns \ {"live"},
           NEW c, NEW ends, Changes(c, u, ends),
           Change(r, op, u, columns, c, ends, use)
    PROVE  /\ areqs[r].op = "none"
           /\ \E q : /\ areqs' = [areqs EXCEPT ![r] = q]
                     /\ SavesOwn(q, op, u, c, ends, use)
<1>1. areqs[r].op = "none"
  BY ChangeMade
<1>2. PICK q : /\ areqs' = [areqs EXCEPT ![r] = q]
               /\ Loaded(q, op, u, columns, c, ends, use)
  BY ChangeMade
<1>3. /\ acct[u] \in UserRow /\ acct[u].sv \in Nat /\ acct[u].codes \subseteq Codes
      /\ \A x \in Columns \ {"sv", "codes"} : acct[u][x] \in BOOLEAN
      /\ acct[u].sv = acct[u]["sv"] /\ acct[u].codes = acct[u]["codes"]
  <2>1. acct[u] \in UserRow
    BY Accounts2
  <2> QED
    BY <2>1, UserFields
<1>4. DOMAIN q.ent \subseteq Columns \ {"live"} /\ Plainly \subseteq DOMAIN q.ent
  BY <1>2 DEF Changes, Loaded
<1>5. {"sv", "admin", "active"} \subseteq DOMAIN q.ent
  BY <1>4 DEF Plainly
<1>6. \A x \in DOMAIN q.ent \ {"sv", "codes"} : q.ent[x] \in BOOLEAN
  BY <1>2, <1>3, <1>4 DEF Changes, Loaded
<1>7. q.ent["sv"] = IF q.ends THEN q.seen.sv + 1 ELSE q.seen.sv
  BY <1>2, <1>3, <1>5 DEF Changes, Bump, Loaded
<1>8. "codes" \in DOMAIN q.ent => q.ent["codes"] \subseteq Codes
  BY <1>2, <1>3 DEF Changes, Loaded
<1>9. q.ent["admin"] = q.seen.admin /\ (q.seen.active => q.ent["active"] = TRUE)
  <2>1. q.ent["admin"] = acct[u]["admin"]
    BY <1>2, <1>5 DEF Changes, Loaded
  <2>2. acct[u]["active"] = TRUE => q.ent["active"] = TRUE
    BY <1>2, <1>5 DEF Changes, Loaded
  <2> QED
    BY <1>2, <2>1, <2>2 DEF Loaded
<1>10. Carries(q)
  BY <1>4, <1>5, <1>6, <1>7, <1>8, <1>9 DEF Carries
<1>11. SavesOwn(q, op, u, c, ends, use)
  BY <1>2, <1>3, <1>10 DEF SavesOwn, Loaded
<1> QED
  BY <1>1, <1>2, <1>11

\* A request of the user's own that consumes nothing.
LEMMA OwnSaveInv ==
    ASSUME AccInv, NEW r \in AccReqs, NEW u \in Users, Signed(u),
           NEW columns, Plainly \subseteq columns, columns \subseteq Columns \ {"live"},
           NEW c, NEW ends, Changes(c, u, ends),
           Change(r, "save", u, columns, c, ends, {}),
           "codes" \in DOMAIN c =>
              \A k \in c["codes"] : k = lastCode + 1 /\ k = lastCode',
           lastCode' \in 0 .. MaxCodes, lastCode <= lastCode',
           UNCHANGED <<acct, invites, resets, toks, challenges, dead, uses, stale,
                       crossed>>
    PROVE  AccInv'
<1>1. acct[u].live /\ "save" \in Saving \ {"update"}
  BY DEF Signed, Saving
<1>2. areqs[r].op = "none"
  BY <1>1, SaveMade
<1>3. PICK q : /\ areqs' = [areqs EXCEPT ![r] = q]
               /\ SavesOwn(q, "save", u, c, ends, {})
  BY <1>1, SaveMade
<1>4. ChangeOK(q)
  BY <1>1, <1>3 DEF ChangeOK, Changes, SavesOwn
<1>5. CodesToStore(q) /\ LinkFound(q) /\ AnotherAdmin(q)
  BY <1>3 DEF CodesToStore, LinkFound, AnotherAdmin, SavesOwn
<1>6. q.op # "none" /\ q.seen = acct[q.u]
  BY <1>3 DEF SavesOwn
<1>7. crossed' \in BOOLEAN /\ (crossed => crossed')
  BY DEF AccInv
<1>8. areqs' = [areqs EXCEPT ![r] = q]
  BY <1>3
<1>9. UNCHANGED <<acct, invites, resets, toks, challenges, dead, uses, stale>>
  OBVIOUS
<1> QED
  BY <1>2, <1>4, <1>5, <1>6, <1>7, <1>8, <1>9, LoadInv

LEMMA SomeColumns ==
    /\ Plainly \subseteq WithPassword /\ WithPassword \subseteq Columns \ {"live"}
    /\ Plainly \subseteq WithMfa /\ WithMfa \subseteq Columns \ {"live"}
    /\ Plainly \subseteq Columns \ {"live"}
  BY NewUserOK DEF Plainly, WithPassword, WithMfa

LEMMA RestKept ==
    ASSUME AccInv, Rest
    PROVE  /\ lastCode' \in 0 .. MaxCodes /\ lastCode <= lastCode'
           /\ UNCHANGED <<invites, resets, toks, challenges, dead, uses, stale,
                          crossed>>
  BY Accounts2 DEF Rest, AccInv, AccTypeOK

LEMMA UpdatePreferencesInv ==
    ASSUME AccInv, NEW r \in AccReqs, NEW u \in Users, UpdatePreferences(r, u)
    PROVE  AccInv'
<1>1. PICK c : c = [x \in {} |-> 0]
  OBVIOUS
<1>2. DOMAIN c = {}
  BY <1>1
<1>3. Changes(c, u, FALSE)
  BY <1>2 DEF Changes
<1>4. Signed(u) /\ Change(r, "save", u, Plainly, c, FALSE, {}) /\ UNCHANGED acct /\ Rest
  BY <1>1 DEF UpdatePreferences
<1> QED
  BY <1>2, <1>3, <1>4, SomeColumns, RestKept, OwnSaveInv

LEMMA ChangePasswordInv ==
    ASSUME AccInv, NEW r \in AccReqs, NEW u \in Users, ChangePassword(r, u)
    PROVE  AccInv'
<1>1. PICK c : c = [sv |-> Bump(u), pw |-> TRUE]
  OBVIOUS
<1>2. DOMAIN c = {"sv", "pw"} /\ c["sv"] = Bump(u) /\ c["pw"] = TRUE
  BY <1>1
<1>3. Changes(c, u, TRUE)
  BY <1>2, NewUserOK DEF Changes
<1>4. Signed(u) /\ Change(r, "save", u, WithPassword, c, TRUE, {}) /\ UNCHANGED acct /\ Rest
  BY <1>1 DEF ChangePassword
<1> QED
  BY <1>2, <1>3, <1>4, SomeColumns, RestKept, OwnSaveInv

LEMMA InitiateMfaSetupInv ==
    ASSUME AccInv, NEW r \in AccReqs, NEW u \in Users, InitiateMfaSetup(r, u)
    PROVE  AccInv'
<1>1. PICK c : c = [pend |-> TRUE]
  OBVIOUS
<1>2. DOMAIN c = {"pend"} /\ c["pend"] = TRUE
  BY <1>1
<1>3. Changes(c, u, FALSE)
  BY <1>2, NewUserOK DEF Changes
<1>4. Signed(u) /\ Change(r, "save", u, WithMfa, c, FALSE, {}) /\ UNCHANGED acct /\ Rest
  BY <1>1 DEF InitiateMfaSetup
<1> QED
  BY <1>2, <1>3, <1>4, SomeColumns, RestKept, OwnSaveInv

LEMMA NextCode ==
    ASSUME AccInv, lastCode < MaxCodes, lastCode' = lastCode + 1
    PROVE  /\ {lastCode + 1} \subseteq Codes /\ lastCode' \in 0 .. MaxCodes
           /\ lastCode <= lastCode'
  BY AccountsAssumption DEF AccInv, AccTypeOK, Codes

LEMMA ConfirmMfaSetupInv ==
    ASSUME AccInv, NEW r \in AccReqs, NEW u \in Users, ConfirmMfaSetup(r, u)
    PROVE  AccInv'
<1>1. PICK c : c = [sv |-> Bump(u), mfa |-> TRUE, pend |-> FALSE,
                    codes |-> {lastCode + 1}]
  OBVIOUS
<1>2. /\ DOMAIN c = {"sv", "mfa", "pend", "codes"} /\ c["sv"] = Bump(u)
      /\ c["mfa"] = TRUE /\ c["pend"] = FALSE /\ c["codes"] = {lastCode + 1}
  BY <1>1
<1>3. Signed(u) /\ Change(r, "save", u, WithMfa, c, TRUE, {})
  BY <1>1 DEF ConfirmMfaSetup
<1>4. /\ lastCode < MaxCodes /\ lastCode' = lastCode + 1
      /\ UNCHANGED <<acct, invites, resets, toks, challenges, dead, uses, stale, crossed>>
  BY DEF ConfirmMfaSetup
<1>5. Changes(c, u, TRUE)
  BY <1>2, <1>4, NextCode, NewUserOK DEF Changes
<1>6. \A k \in c["codes"] : k = lastCode + 1 /\ k = lastCode'
  BY <1>2, <1>4
<1> QED
  BY <1>3, <1>4, <1>5, <1>6, NextCode, SomeColumns, OwnSaveInv

LEMMA RegenerateMfaRecoveryCodesInv ==
    ASSUME AccInv, NEW r \in AccReqs, NEW u \in Users,
           RegenerateMfaRecoveryCodes(r, u)
    PROVE  AccInv'
<1>1. PICK c : c = [sv |-> Bump(u), codes |-> {lastCode + 1}]
  OBVIOUS
<1>2. /\ DOMAIN c = {"sv", "codes"} /\ c["sv"] = Bump(u)
      /\ c["codes"] = {lastCode + 1}
  BY <1>1
<1>3. Signed(u) /\ Change(r, "save", u, WithMfa, c, TRUE, {})
  BY <1>1 DEF RegenerateMfaRecoveryCodes
<1>4. /\ lastCode < MaxCodes /\ lastCode' = lastCode + 1
      /\ UNCHANGED <<acct, invites, resets, toks, challenges, dead, uses, stale, crossed>>
  BY DEF RegenerateMfaRecoveryCodes
<1>5. Changes(c, u, TRUE)
  BY <1>2, <1>4, NextCode, NewUserOK DEF Changes
<1>6. \A k \in c["codes"] : k = lastCode + 1 /\ k = lastCode'
  BY <1>2, <1>4
<1> QED
  BY <1>3, <1>4, <1>5, <1>6, NextCode, SomeColumns, OwnSaveInv

LEMMA DisableMfaInv ==
    ASSUME AccInv, NEW r \in AccReqs, NEW u \in Users, DisableMfa(r, u)
    PROVE  AccInv'
<1>1. PICK c : c = [sv |-> Bump(u), mfa |-> FALSE, pend |-> FALSE, codes |-> {}]
  OBVIOUS
<1>2. /\ DOMAIN c = {"sv", "mfa", "pend", "codes"} /\ c["sv"] = Bump(u)
      /\ c["mfa"] = FALSE /\ c["pend"] = FALSE /\ c["codes"] = {}
  BY <1>1
<1>3. Changes(c, u, TRUE)
  BY <1>2, NewUserOK DEF Changes
<1>4. Signed(u) /\ Change(r, "save", u, WithMfa, c, TRUE, {}) /\ UNCHANGED acct /\ Rest
  BY <1>1 DEF DisableMfa
<1> QED
  BY <1>2, <1>3, <1>4, SomeColumns, RestKept, OwnSaveInv

LEMMA VerifyMfaRecoveryInv ==
    ASSUME AccInv, NEW r \in AccReqs, NEW u \in Users, NEW k \in Codes,
           VerifyMfaRecovery(r, u, k)
    PROVE  AccInv'
<1>1. acct[u].live /\ acct[u].codes \subseteq Codes /\ k \in acct[u].codes
      /\ UNCHANGED acct /\ Rest
  BY Accounts2, UserFields DEF VerifyMfaRecovery, VerifyMfaChallengeToken
<1>2. PICK c : c = [codes |-> acct[u].codes \ {k}]
  OBVIOUS
<1>3. DOMAIN c = {"codes"} /\ c["codes"] = acct[u].codes \ {k}
  BY <1>2
<1>4. Changes(c, u, FALSE)
  BY <1>1, <1>3, NewUserOK DEF Changes
<1>5. Change(r, "recover", u, WithMfa, c, FALSE, {k})
  BY <1>2 DEF VerifyMfaRecovery
<1>6. "recover" \in Saving \ {"update"}
  BY DEF Saving
<1>7. PICK q : /\ areqs' = [areqs EXCEPT ![r] = q]
               /\ SavesOwn(q, "recover", u, c, FALSE, {k})
  BY <1>1, <1>4, <1>5, <1>6, SomeColumns, SaveMade
<1>8. ChangeOK(q)
  BY <1>1, <1>3, <1>6, <1>7 DEF ChangeOK, SavesOwn
<1>9. CodesToStore(q) /\ LinkFound(q)
  BY <1>3, <1>7 DEF CodesToStore, LinkFound, SavesOwn
<1>10. q.op \notin {"none", "update", "delete"} /\ q.seen = acct[q.u]
  BY <1>7 DEF SavesOwn
<1>11. areqs[r].op = "none" /\ areqs' = [areqs EXCEPT ![r] = q]
  BY <1>5, <1>7, ChangeMade
<1> QED
  BY <1>1, <1>8, <1>9, <1>10, <1>11, PlainLoadInv

\* The link that an operation looks up is pending.
LinkFor(op, l) ==
    /\ op \in {"accept", "reset"}
    /\ op = "accept" => invites[l] = "pending"
    /\ op = "reset" => resets[l] = "pending"

\* acceptInvitation and resetPassword: an entity that ends the sessions of Guest
\* and uses a link.
LEMMA LinkLoadInv ==
    ASSUME AccInv, NEW r \in AccReqs, NEW l \in Links, NEW op, NEW c,
           LinkFor(op, l), acct[Guest].live,
           Changes(c, Guest, TRUE), "codes" \notin DOMAIN c,
           Change(r, op, Guest, Plainly, c, TRUE, {l}), UNCHANGED acct, Rest
    PROVE  AccInv'
<1>1. Guest \in Users /\ op \in Saving \ {"update"}
  BY Accounts2 DEF Saving, LinkFor
<1>2. PICK q : /\ areqs' = [areqs EXCEPT ![r] = q]
               /\ SavesOwn(q, op, Guest, c, TRUE, {l})
  BY <1>1, SomeColumns, SaveMade
<1>3. ChangeOK(q)
  BY <1>1, <1>2 DEF ChangeOK, SavesOwn, LinkFor
<1>4. CodesToStore(q) /\ LinkFound(q)
  BY <1>2 DEF CodesToStore, LinkFound, SavesOwn, LinkFor
<1>5. q.op \notin {"none", "update", "delete"} /\ q.seen = acct[q.u]
  BY <1>2 DEF SavesOwn, LinkFor
<1>6. areqs[r].op = "none" /\ areqs' = [areqs EXCEPT ![r] = q]
  BY <1>1, <1>2, ChangeMade
<1> QED
  BY <1>3, <1>4, <1>5, <1>6, PlainLoadInv

LEMMA AcceptInvitationInv ==
    ASSUME AccInv, NEW r \in AccReqs, NEW l \in Links, AcceptInvitation(r, l)
    PROVE  AccInv'
<1>1. PICK c : c = [sv |-> Bump(Guest), pw |-> TRUE, active |-> TRUE,
                    accepted |-> TRUE, activated |-> TRUE]
  OBVIOUS
<1>2. /\ DOMAIN c = {"sv", "pw", "active", "accepted", "activated"}
      /\ c["sv"] = Bump(Guest) /\ c["pw"] = TRUE /\ c["active"] = TRUE
      /\ c["accepted"] = TRUE /\ c["activated"] = TRUE
  BY <1>1
<1>3. Changes(c, Guest, TRUE)
  BY <1>2, NewUserOK DEF Changes
<1>4. "codes" \notin DOMAIN c
  BY <1>2
<1>5. /\ Change(r, "accept", Guest, Plainly, c, TRUE, {l}) /\ UNCHANGED acct /\ Rest
      /\ acct[Guest].live /\ invites[l] = "pending"
  BY <1>1 DEF AcceptInvitation, AssertInvitationAvailable
<1>6. PICK op : op = "accept"
  OBVIOUS
<1>7. LinkFor(op, l)
  BY <1>5, <1>6 DEF LinkFor
<1>8. Change(r, op, Guest, Plainly, c, TRUE, {l})
  BY <1>5, <1>6
<1> QED
  BY <1>3, <1>4, <1>5, <1>7, <1>8, LinkLoadInv

LEMMA ResetPasswordInv ==
    ASSUME AccInv, NEW r \in AccReqs, NEW l \in Links, ResetPassword(r, l)
    PROVE  AccInv'
<1>1. PICK c : c = [sv |-> Bump(Guest), pw |-> TRUE]
  OBVIOUS
<1>2. DOMAIN c = {"sv", "pw"} /\ c["sv"] = Bump(Guest) /\ c["pw"] = TRUE
  BY <1>1
<1>3. Changes(c, Guest, TRUE)
  BY <1>2, NewUserOK DEF Changes
<1>4. "codes" \notin DOMAIN c
  BY <1>2
<1>5. /\ Change(r, "reset", Guest, Plainly, c, TRUE, {l}) /\ UNCHANGED acct /\ Rest
      /\ acct[Guest].live /\ resets[l] = "pending"
  BY <1>1 DEF ResetPassword, AssertPasswordResetAvailable
<1>6. PICK op : op = "reset"
  OBVIOUS
<1>7. LinkFor(op, l)
  BY <1>5, <1>6 DEF LinkFor
<1>8. Change(r, op, Guest, Plainly, c, TRUE, {l})
  BY <1>5, <1>6
<1> QED
  BY <1>3, <1>4, <1>5, <1>7, <1>8, LinkLoadInv

LEMMA ResendInviteInv ==
    ASSUME AccInv, NEW r \in AccReqs, NEW actor \in Users, ResendInvite(r, actor)
    PROVE  AccInv'
<1>1. PICK c : c = [accepted |-> FALSE]
  OBVIOUS
<1>2. /\ Change(r, "invite", Guest, {}, c, FALSE, {}) /\ UNCHANGED acct /\ Rest
      /\ acct[Guest].live
  BY <1>1 DEF ResendInvite
<1>3. Guest \in Users /\ acct[Guest] \in UserRow
  BY Accounts2
<1>4. PICK q : /\ areqs' = [areqs EXCEPT ![r] = q]
               /\ Loaded(q, "invite", Guest, {}, c, FALSE, {})
  BY <1>2, <1>3, ChangeMade
<1>5. ChangeOK(q)
  BY <1>2, <1>3, <1>4 DEF ChangeOK, Loaded, Saving
<1>6. CodesToStore(q) /\ LinkFound(q)
  BY <1>4 DEF CodesToStore, LinkFound, Loaded, Saving
<1>7. q.op \notin {"none", "update", "delete"} /\ q.seen = acct[q.u]
  BY <1>4 DEF Loaded
<1>8. areqs[r].op = "none" /\ areqs' = [areqs EXCEPT ![r] = q]
  BY <1>2, <1>3, <1>4, ChangeMade
<1> QED
  BY <1>2, <1>5, <1>6, <1>7, <1>8, PlainLoadInv

\* The checks of an update and of a removal leave another admin.
LEMMA AdminLeft ==
    ASSUME AccInv, NEW u \in Users, NEW admin \in BOOLEAN, NEW active \in BOOLEAN,
           AssertPlatformAdminRetention(u, admin, active),
           Crossing(u, admin, active), u \in ActiveAdmins, ~(admin /\ active)
    PROVE  /\ ActiveAdmins = Users
           /\ ~crossed' => \A s \in AccReqs : areqs[s].op \notin {"update", "delete"}
  BY BothAdmins DEF AssertPlatformAdminRetention, Crossing, Retires

LEMMA CrossingKept ==
    ASSUME AccInv, NEW u, NEW admin, NEW active, Crossing(u, admin, active)
    PROVE  crossed' \in BOOLEAN /\ (crossed => crossed')
  BY DEF AccInv, Crossing

LEMMA DeleteInv ==
    ASSUME AccInv, NEW r \in AccReqs, NEW actor \in Users, NEW u \in Users,
           Delete(r, actor, u)
    PROVE  AccInv'
<1>1. PICK c : c = [x \in {} |-> 0]
  OBVIOUS
<1>2. /\ Change(r, "delete", u, Plainly, c, TRUE, {})
      /\ UNCHANGED <<acct, invites, resets, toks, challenges, dead, uses, stale,
                     lastCode>>
      /\ acct[u].live /\ AssertPlatformAdminRetention(u, FALSE, FALSE)
      /\ Crossing(u, FALSE, FALSE)
  BY <1>1 DEF Delete
<1>3. acct[u] \in UserRow /\ lastCode \in 0 .. MaxCodes
  BY Accounts2 DEF AccInv, AccTypeOK
<1>4. PICK q : /\ areqs' = [areqs EXCEPT ![r] = q]
               /\ Loaded(q, "delete", u, Plainly, c, TRUE, {})
  BY <1>2, ChangeMade
<1>5. ChangeOK(q)
  BY <1>2, <1>3, <1>4 DEF ChangeOK, Loaded, Saving
<1>6. CodesToStore(q) /\ LinkFound(q)
  BY <1>4 DEF CodesToStore, LinkFound, Loaded, Saving
<1>7. u \in ActiveAdmins =>
         /\ ActiveAdmins = Users
         /\ ~crossed' => \A s \in AccReqs : areqs[s].op \notin {"update", "delete"}
  BY <1>2, AdminLeft
<1>8. AnotherAdmin(q)
  BY <1>4, <1>7 DEF AnotherAdmin, Loaded
<1>9. q.op # "none" /\ q.seen = acct[q.u]
  BY <1>4 DEF Loaded
<1>10. areqs[r].op = "none" /\ areqs' = [areqs EXCEPT ![r] = q]
  BY <1>2, <1>4, ChangeMade
<1>11. crossed' \in BOOLEAN /\ (crossed => crossed')
  BY <1>2, CrossingKept
<1>12. /\ UNCHANGED <<acct, invites, resets, toks, challenges, dead, uses, stale>>
       /\ lastCode' \in 0 .. MaxCodes /\ lastCode <= lastCode'
  BY <1>2, <1>3
<1> QED
  BY <1>5, <1>6, <1>8, <1>9, <1>10, <1>11, <1>12, LoadInv

LEMMA UpdateInv ==
    ASSUME AccInv, NEW r \in AccReqs, NEW actor \in Users, NEW u \in Users,
           NEW admin \in BOOLEAN, NEW active \in BOOLEAN,
           Update(r, actor, u, admin, active)
    PROVE  AccInv'
<1>1. PICK ends \in BOOLEAN :
         ends = (admin # acct[u].admin \/ active # acct[u].active)
  OBVIOUS
<1>2. PICK c : c = [sv |-> IF ends THEN Bump(u) ELSE acct[u].sv,
                    admin |-> admin, active |-> active,
                    activated |-> acct[u].activated \/ active]
  OBVIOUS
<1>3. /\ Change(r, "update", u, Plainly, c, ends, {})
      /\ UNCHANGED <<acct, invites, resets, toks, challenges, dead, uses, stale,
                     lastCode>>
      /\ acct[u].live /\ AssertPlatformAdminRetention(u, admin, active)
      /\ Crossing(u, admin, active)
  BY <1>1, <1>2 DEF Update
<1>4. /\ DOMAIN c = {"sv", "admin", "active", "activated"}
      /\ c["admin"] = admin /\ c["active"] = active
      /\ c["sv"] = IF ends THEN Bump(u) ELSE acct[u].sv
      /\ c["activated"] = (acct[u].activated \/ active)
  BY <1>2
<1>5. acct[u] \in UserRow /\ lastCode \in 0 .. MaxCodes
  BY Accounts2 DEF AccInv, AccTypeOK
<1>6. \A x \in Columns \ {"sv", "codes"} : acct[u][x] \in BOOLEAN
  BY <1>5, UserFields
<1>7. PICK q : /\ areqs' = [areqs EXCEPT ![r] = q]
               /\ Loaded(q, "update", u, Plainly, c, ends, {})
  BY <1>3, ChangeMade
<1>8. q.op = "update" /\ q.u = u /\ q.seen = acct[u] /\ q.ends = ends /\ q.use = {}
  BY <1>7 DEF Loaded
<1>9. DOMAIN q.ent = Plainly
  BY <1>4, <1>7 DEF Loaded, Plainly
<1>10. /\ q.ent["admin"] = admin /\ q.ent["active"] = active
       /\ q.ent["sv"] = c["sv"] /\ q.ent["activated"] = c["activated"]
       /\ \A x \in Plainly \ {"sv", "admin", "active", "activated"} :
             q.ent[x] = acct[u][x]
  BY <1>4, <1>7, <1>9 DEF Loaded, Plainly
<1>11. Carries(q)
  <2>1. \A x \in DOMAIN q.ent \ {"sv", "codes"} : q.ent[x] \in BOOLEAN
    BY <1>4, <1>6, <1>9, <1>10, NewUserOK DEF Plainly
  <2>2. q.ent["sv"] = IF q.ends THEN q.seen.sv + 1 ELSE q.seen.sv
    BY <1>4, <1>8, <1>10 DEF Bump
  <2>3. "codes" \notin DOMAIN q.ent /\ {"sv", "admin", "active"} \subseteq DOMAIN q.ent
    BY <1>9 DEF Plainly
  <2>4. DOMAIN q.ent \subseteq Columns \ {"live"}
    BY <1>9, SomeColumns
  <2> QED
    BY <1>8, <2>1, <2>2, <2>3, <2>4 DEF Carries
<1>12. ChangeOK(q)
  BY <1>3, <1>5, <1>8, <1>11 DEF ChangeOK, Saving
<1>13. CodesToStore(q) /\ LinkFound(q)
  BY <1>8, <1>9 DEF CodesToStore, LinkFound, Plainly
<1>14. u \in ActiveAdmins /\ ~(admin /\ active) =>
         /\ ActiveAdmins = Users
         /\ ~crossed' => \A s \in AccReqs : areqs[s].op \notin {"update", "delete"}
  BY <1>3, AdminLeft
<1>15. AnotherAdmin(q)
  BY <1>8, <1>10, <1>14 DEF AnotherAdmin
<1>16. q.op # "none" /\ q.seen = acct[q.u]
  BY <1>8
<1>17. areqs[r].op = "none" /\ areqs' = [areqs EXCEPT ![r] = q]
  BY <1>3, <1>7, ChangeMade
<1>18. crossed' \in BOOLEAN /\ (crossed => crossed')
  BY <1>3, CrossingKept
<1>19. /\ UNCHANGED <<acct, invites, resets, toks, challenges, dead, uses, stale>>
       /\ lastCode' \in 0 .. MaxCodes /\ lastCode <= lastCode'
  BY <1>3, <1>5
<1> QED
  BY <1>12, <1>13, <1>15, <1>16, <1>17, <1>18, <1>19, LoadInv

-----------------------------------------------------------------------------
(* Writes: one account changes at most, and requests end.                    *)

RequestsEnd ==
    /\ DOMAIN areqs' = AccReqs
    /\ \A s \in AccReqs : areqs'[s] = areqs[s] \/ areqs'[s] = Resting

OneAccount(u) == \A v \in Users \ {u} : acct'[v] = acct[v]

\* Versions go on; a session is issued for the new one, and tokens are ended
\* with a higher one.
VersionsOn(u) ==
    /\ acct[u].sv <= acct'[u].sv
    /\ toks' \subseteq toks \cup {<<u, acct'[u].sv>>}
    /\ \A t \in dead' \ dead : t \in toks /\ t[1] = u /\ acct[u].sv < acct'[u].sv

\* New codes are those of a request that ends; a code that is used leaves the
\* list.
CodesOn(u) ==
    \A k \in Codes :
       /\ k \in acct'[u].codes /\ k \notin acct[u].codes =>
             \E r \in AccReqs : Adds(r, k) /\ areqs'[r] = Resting
       /\ uses'[k] # uses[k] =>
             /\ uses'[k] = uses[k] + 1
             /\ k \in acct[u].codes /\ k \notin acct'[u].codes

\* A link is sent once, as one kind; its use is marked and bumps the version.
LinksOn ==
    \A l \in Links :
       /\ invites[l] # "none" => invites'[l] # "none"
       /\ resets[l] # "none" => resets'[l] # "none"
       /\ invites'[l] = "none" \/ resets'[l] = "none"
       /\ "used" \in {invites[l], resets[l]} \/ uses'[l] # uses[l] =>
             "used" \in {invites'[l], resets'[l]}
       /\ uses'[l] # uses[l] =>
             uses[l] = 0 /\ uses'[l] = 1 /\ acct[Guest].sv < acct'[Guest].sv

\* Who is taken out of use is so by a request that ends.
AdminsOn(u) ==
    u \in ActiveAdmins /\ u \notin ActiveAdmins' =>
        \E r \in AccReqs : Retiring(r) /\ areqs[r].u = u /\ areqs'[r] = Resting

LEMMA VersionsKept ==
    ASSUME AccInv, AccTypeOK', RequestsEnd, NEW u \in Users, OneAccount(u),
           ~stale, VersionsOn(u)
    PROVE  /\ SeenBefore' /\ TokensOK'
           /\ \A v \in Users : acct[v].sv \in Nat /\ acct'[v].sv \in Nat
                               /\ acct[v].sv <= acct'[v].sv
<1>1. SeenBefore /\ TokensOK /\ toks \subseteq Users \X Nat
  BY DEF AccInv, AccTypeOK
<1>2. \A v \in Users : acct[v] \in UserRow /\ acct'[v] \in UserRow
  BY Accounts2 DEF AccTypeOK
<1>3. \A v \in Users : acct[v].sv \in Nat /\ acct'[v].sv \in Nat
  BY <1>2, UserFields
<1>4. \A v \in Users : acct[v].sv <= acct'[v].sv
  BY <1>3 DEF OneAccount, VersionsOn
<1>5. ASSUME NEW s \in AccReqs, areqs'[s].op # "none"
      PROVE  areqs'[s].seen.sv <= acct'[areqs'[s].u].sv
  <2>1. areqs'[s] = areqs[s]
    BY <1>5, RestingOK DEF RequestsEnd
  <2>2. areqs[s].u \in Users /\ areqs[s].seen \in UserRow
    BY <1>5, <2>1 DEF AccInv, ChangeOK
  <2>3. areqs[s].seen.sv \in Nat
    BY <2>2, UserFields
  <2>4. areqs[s].seen.sv <= acct[areqs[s].u].sv
    BY <1>1, <1>5, <2>1 DEF SeenBefore
  <2> QED
    BY <1>3, <1>4, <2>1, <2>2, <2>3, <2>4
<1>6. \A t \in toks' : t[2] <= acct'[t[1]].sv
  <2> SUFFICES ASSUME NEW t \in toks' PROVE t[2] <= acct'[t[1]].sv
    OBVIOUS
  <2>1. CASE t \in toks
    <3>1. t[1] \in Users /\ t[2] \in Nat /\ t[2] <= acct[t[1]].sv
      BY <1>1, <2>1 DEF TokensOK
    <3> QED
      BY <1>3, <1>4, <3>1
  <2>2. CASE t = <<u, acct'[u].sv>>
    BY <1>3, <2>2
  <2> QED
    BY <2>1, <2>2 DEF VersionsOn
<1>7. \A t \in dead' : t[2] < acct'[t[1]].sv
  <2> SUFFICES ASSUME NEW t \in dead' PROVE t[2] < acct'[t[1]].sv
    OBVIOUS
  <2>1. dead \subseteq toks
    BY DEF AccInv, AccTypeOK
  <2>2. t \in toks
    BY <2>1 DEF VersionsOn
  <2>3. t[1] \in Users /\ t[2] \in Nat /\ t[2] <= acct[t[1]].sv
    BY <1>1, <2>2 DEF TokensOK
  <2>4. CASE t \in dead
    <3>1. t[2] < acct[t[1]].sv
      BY <1>1, <2>4 DEF TokensOK
    <3> QED
      BY <1>3, <1>4, <2>3, <3>1
  <2>5. CASE t \notin dead
    <3>1. t[1] = u /\ acct[u].sv < acct'[u].sv
      BY <2>5 DEF VersionsOn
    <3> QED
      BY <1>3, <2>3, <3>1
  <2> QED
    BY <2>4, <2>5
<1> QED
  BY <1>3, <1>4, <1>5, <1>6, <1>7 DEF SeenBefore, TokensOK

LEMMA CodesKept ==
    ASSUME AccInv, AccTypeOK', RequestsEnd, NEW u \in Users, OneAccount(u),
           ~stale, CodesOn(u), lastCode' = lastCode, NEW k \in Codes
    PROVE  CodeOK(k)'
<1>1. CodeOK(k) /\ uses[k] \in Nat /\ k \in Nat
  BY Accounts2 DEF AccInv, Codes
<1>2. Users = {Root, Guest}
  BY DEF Users
<1>3. \A s \in AccReqs : Adds(s, k)' => Adds(s, k) /\ areqs'[s] # Resting
  BY RestingOK DEF RequestsEnd, Adds, Saving
<1>4. /\ uses[k] <= 1
      /\ uses[k] > 0 => \A v \in Users : k \notin acct[v].codes
      /\ k > lastCode => Unissued(k)
      /\ k \notin acct[Root].codes \/ k \notin acct[Guest].codes
      /\ \A r \in AccReqs : Adds(r, k) => k <= lastCode /\ Unissued(k)
      /\ \A r, s \in AccReqs : Adds(r, k) /\ Adds(s, k) => r = s
  BY <1>1 DEF CodeOK
<1>5. /\ k \in acct'[u].codes /\ k \notin acct[u].codes =>
           \E r \in AccReqs : Adds(r, k) /\ areqs'[r] = Resting
      /\ uses'[k] # uses[k] =>
           uses'[k] = uses[k] + 1 /\ k \in acct[u].codes /\ k \notin acct'[u].codes
  BY DEF CodesOn
<1>6. \A v \in Users : v # u => acct'[v] = acct[v]
  BY DEF OneAccount
<1>7. uses'[k] <= 1
  BY <1>1, <1>4, <1>5
<1>8. ASSUME uses'[k] > 0, NEW v \in Users PROVE k \notin acct'[v].codes
  <2>1. CASE uses'[k] = uses[k]
    BY <1>4, <1>5, <1>6, <1>8, <2>1 DEF Unissued
  <2>2. CASE uses'[k] # uses[k]
    BY <1>2, <1>4, <1>5, <1>6, <1>8, <2>2
  <2> QED
    BY <2>1, <2>2
<1>9. ASSUME Unissued(k), \A r \in AccReqs : Adds(r, k) => areqs'[r] # Resting
      PROVE  Unissued(k)'
  BY <1>5, <1>6, <1>9 DEF Unissued
<1>10. k > lastCode => Unissued(k)'
  BY <1>1, <1>4, <1>9, Accounts2
<1>11. k \notin acct'[Root].codes \/ k \notin acct'[Guest].codes
  <2>1. CASE k \in acct'[u].codes /\ k \notin acct[u].codes
    BY <1>2, <1>4, <1>5, <1>6, <2>1, Accounts2 DEF Unissued
  <2>2. CASE k \in acct'[u].codes => k \in acct[u].codes
    BY <1>2, <1>4, <1>6, <2>2
  <2> QED
    BY <2>1, <2>2
<1>12. ASSUME NEW s \in AccReqs, Adds(s, k)'
       PROVE  k <= lastCode' /\ Unissued(k)'
  <2>1. Adds(s, k) /\ areqs'[s] # Resting
    BY <1>3, <1>12
  <2> QED
    BY <1>4, <1>9, <2>1
<1>13. \A r, s \in AccReqs : Adds(r, k)' /\ Adds(s, k)' => r = s
  BY <1>3, <1>4
<1> QED
  BY <1>7, <1>8, <1>10, <1>11, <1>12, <1>13 DEF CodeOK

LEMMA LinksKept ==
    ASSUME AccInv, AccTypeOK', RequestsEnd, ~stale, LinksOn, NEW l \in Links,
           acct[Guest].sv \in Nat, acct'[Guest].sv \in Nat,
           acct[Guest].sv <= acct'[Guest].sv
    PROVE  LinkOK(l)'
<1>1. LinkOK(l) /\ uses[l] \in Nat /\ SeenBefore
  BY Accounts2 DEF AccInv
<1>2. /\ invites[l] # "none" => invites'[l] # "none"
      /\ resets[l] # "none" => resets'[l] # "none"
      /\ invites'[l] = "none" \/ resets'[l] = "none"
      /\ "used" \in {invites[l], resets[l]} \/ uses'[l] # uses[l] =>
            "used" \in {invites'[l], resets'[l]}
      /\ uses'[l] # uses[l] =>
            uses[l] = 0 /\ uses'[l] = 1 /\ acct[Guest].sv < acct'[Guest].sv
  BY DEF LinksOn
<1>3. uses'[l] <= 1 /\ (uses'[l] > 0 => "used" \in {invites'[l], resets'[l]})
  BY <1>1, <1>2 DEF LinkOK
<1>4. ASSUME NEW s \in AccReqs, areqs'[s].op \in {"accept", "reset"},
             l \in areqs'[s].use
      PROVE  /\ areqs'[s].op = "accept" => invites'[l] # "none"
             /\ areqs'[s].op = "reset" => resets'[l] # "none"
             /\ uses'[l] > 0 => areqs'[s].seen.sv < acct'[Guest].sv
  <2>1. areqs'[s] = areqs[s]
    BY <1>4, RestingOK DEF RequestsEnd
  <2>2. areqs[s].u = Guest /\ areqs[s].seen \in UserRow
    BY <1>4, <2>1 DEF AccInv, ChangeOK
  <2>3. areqs[s].seen.sv \in Nat
    BY <2>2, UserFields
  <2>4. areqs[s].seen.sv <= acct[Guest].sv
    BY <1>1, <1>4, <2>1, <2>2 DEF SeenBefore
  <2>5. /\ areqs[s].op = "accept" => invites[l] # "none"
        /\ areqs[s].op = "reset" => resets[l] # "none"
        /\ uses[l] > 0 => areqs[s].seen.sv < acct[Guest].sv
    BY <1>1, <1>4, <2>1 DEF LinkOK
  <2> QED
    BY <1>1, <1>2, <2>1, <2>3, <2>4, <2>5
<1> QED
  BY <1>2, <1>3, <1>4 DEF LinkOK

LEMMA AdminsKept ==
    ASSUME AccInv, AccTypeOK', RequestsEnd, NEW u \in Users, OneAccount(u),
           ~stale, ~crossed, AdminsOn(u)
    PROVE  AdminsOK'
<1>1. AdminsOK
  BY DEF AccInv
<1>2. /\ ActiveAdmins # {} /\ ActiveAdmins \subseteq Users /\ ActiveAdmins' \subseteq Users
      /\ \A r \in AccReqs : Retiring(r) => ActiveAdmins = Users
      /\ \A r, s \in AccReqs : Retiring(r) /\ Retiring(s) => areqs[r].u = areqs[s].u
  BY <1>1 DEF AdminsOK, ActiveAdmins
<1>3. \A v \in Users : v # u => (v \in ActiveAdmins' <=> v \in ActiveAdmins)
  BY DEF OneAccount, ActiveAdmins
<1>4. Users = {Root, Guest} /\ Root # Guest
  BY Accounts2
<1>5. ASSUME NEW s \in AccReqs, Retiring(s)'
      PROVE  /\ areqs'[s] = areqs[s] /\ areqs[s].u \in ActiveAdmins'
             /\ areqs[s].u \in ActiveAdmins => Retiring(s)
             /\ areqs'[s] # Resting
  BY <1>5, RestingOK DEF RequestsEnd, Retiring
<1>6. CASE u \in ActiveAdmins /\ u \notin ActiveAdmins'
  <2>1. PICK r \in AccReqs : Retiring(r) /\ areqs[r].u = u
    BY <1>6 DEF AdminsOn
  <2>2. ActiveAdmins = Users /\ ActiveAdmins' # {}
    BY <1>2, <1>3, <1>4, <2>1
  <2>3. ASSUME NEW s \in AccReqs, Retiring(s)' PROVE FALSE
    <3>1. areqs[s].u \in ActiveAdmins' /\ Retiring(s)
      BY <1>2, <1>5, <2>2, <2>3
    <3> QED
      BY <1>2, <1>6, <2>1, <3>1
  <2> QED
    BY <2>2, <2>3 DEF AdminsOK
<1>7. CASE u \notin ActiveAdmins /\ u \in ActiveAdmins'
  <2>1. \A s \in AccReqs : ~Retiring(s)
    BY <1>2, <1>7
  <2>2. ActiveAdmins' = Users
    BY <1>2, <1>3, <1>4, <1>7
  <2>3. \A s \in AccReqs : Retiring(s)' => areqs'[s].u = u
    BY <1>2, <1>3, <1>5, <2>1
  <2> QED
    BY <1>7, <2>2, <2>3 DEF AdminsOK
<1>8. CASE u \in ActiveAdmins <=> u \in ActiveAdmins'
  <2>1. ActiveAdmins' = ActiveAdmins
    BY <1>2, <1>3, <1>8
  <2>2. \A s \in AccReqs : Retiring(s)' => Retiring(s) /\ areqs'[s] = areqs[s]
    BY <1>5, <2>1
  <2> QED
    BY <1>2, <2>1, <2>2 DEF AdminsOK
<1> QED
  BY <1>6, <1>7, <1>8

LEMMA WriteInv ==
    ASSUME AccInv, AccTypeOK', RequestsEnd, NEW u \in Users, OneAccount(u),
           lastCode' = lastCode, crossed' = crossed, stale' \in BOOLEAN,
           stale => stale', uses' \in [Codes \cup Links -> Nat],
           ~stale' => VersionsOn(u) /\ CodesOn(u) /\ LinksOn /\ AdminsOn(u)
    PROVE  AccInv'
<1>1. \A r \in AccReqs : ChangeOK(areqs'[r])
  BY RestingOK DEF RequestsEnd, AccInv
<1>2. crossed \in BOOLEAN
  BY DEF AccInv
<1>3. ASSUME ~stale'
      PROVE  /\ SeenBefore' /\ TokensOK'
             /\ \A k \in Codes : CodeOK(k)'
             /\ \A l \in Links : LinkOK(l)'
             /\ ~crossed' => AdminsOK'
  <2>1. ~stale /\ VersionsOn(u) /\ CodesOn(u) /\ LinksOn /\ AdminsOn(u)
    BY <1>3
  <2>2. /\ SeenBefore' /\ TokensOK'
        /\ \A v \in Users : acct[v].sv \in Nat /\ acct'[v].sv \in Nat
                            /\ acct[v].sv <= acct'[v].sv
    BY <2>1, VersionsKept
  <2>3. \A k \in Codes : CodeOK(k)'
    BY <2>1, CodesKept
  <2>4. \A l \in Links : LinkOK(l)'
    BY <2>1, <2>2, Accounts2, LinksKept
  <2>5. ~crossed' => AdminsOK'
    BY <2>1, AdminsKept
  <2> QED
    BY <2>2, <2>3, <2>4, <2>5
<1> QED
  BY <1>1, <1>2, <1>3 DEF AccInv, RequestsEnd

LEMMA ResumeEnds ==
    ASSUME AccInv, NEW r \in AccReqs, Resume(r)
    PROVE  RequestsEnd /\ areqs'[r] = Resting
  BY DEF AccInv, Resume, RequestsEnd

LEMMA LinksSame ==
    ASSUME AccInv, ~stale, UNCHANGED <<invites, resets, uses>> PROVE LinksOn
<1>1. \A l \in Links : invites[l] = "none" \/ resets[l] = "none"
  BY DEF AccInv, LinkOK
<1> QED
  BY <1>1 DEF LinksOn

\* The account is left alone.
LEMMA QuietInv ==
    ASSUME AccInv, AccTypeOK', RequestsEnd, NEW u \in Users,
           UNCHANGED <<acct, dead, uses, stale, crossed, lastCode>>,
           toks' \subseteq toks \cup {<<u, acct[u].sv>>}, ~stale => LinksOn
    PROVE  AccInv'
<1>1. acct[u].sv \in Nat
  BY Accounts2, UserFields
<1>2. OneAccount(u) /\ CodesOn(u) /\ AdminsOn(u)
  BY DEF OneAccount, CodesOn, AdminsOn, ActiveAdmins
<1>3. VersionsOn(u)
  BY <1>1 DEF VersionsOn
<1>4. stale' \in BOOLEAN /\ uses' \in [Codes \cup Links -> Nat]
  BY DEF AccInv
<1> QED
  BY <1>2, <1>3, <1>4, WriteInv

LEMMA SessionInv ==
    ASSUME AccInv, NEW u \in Users, Login(u) \/ VerifyMfaChallenge(u)
    PROVE  AccInv'
<1>1. /\ UNCHANGED <<acct, invites, resets, areqs, dead, uses, stale, crossed, lastCode>>
      /\ toks \subseteq toks' /\ toks' \subseteq toks \cup {<<u, acct[u].sv>>}
      /\ challenges' \subseteq challenges \cup {<<u, acct[u].sv>>}
  BY DEF Login, VerifyMfaChallenge
<1>2. acct[u].sv \in Nat
  BY Accounts2, UserFields
<1>3. AccTypeOK'
  BY <1>1, <1>2 DEF AccInv, AccTypeOK
<1>4. RequestsEnd
  BY <1>1 DEF AccInv, RequestsEnd
<1>5. ~stale => LinksOn
  BY <1>1, LinksSame
<1> QED
  BY <1>1, <1>3, <1>4, <1>5, QuietInv

LEMMA RequestDiesInv ==
    ASSUME AccInv, NEW r \in AccReqs, RequestDies(r) PROVE AccInv'
<1>1. /\ UNCHANGED <<acct, invites, resets, toks, challenges, dead, uses, stale,
                     crossed, lastCode>>
      /\ Resume(r)
  BY DEF RequestDies
<1>2. AccTypeOK'
  BY <1>1 DEF AccInv, AccTypeOK
<1>3. RequestsEnd /\ Root \in Users
  BY <1>1, ResumeEnds DEF Users
<1>4. ~stale => LinksOn
  BY <1>1, LinksSame
<1>5. toks' \subseteq toks \cup {<<Root, acct[Root].sv>>}
  BY <1>1
<1> QED
  BY <1>1, <1>2, <1>3, <1>4, <1>5, QuietInv

LEMMA LinkLateInv ==
    ASSUME AccInv, NEW l \in Links, LinkLate(l) PROVE AccInv'
<1>1. /\ UNCHANGED <<acct, toks, challenges, areqs, dead, uses, stale, crossed,
                     lastCode>>
      /\ \/ invites[l] = "pending" /\ invites' = [invites EXCEPT ![l] = "late"]
            /\ UNCHANGED resets
         \/ resets[l] = "pending" /\ resets' = [resets EXCEPT ![l] = "late"]
            /\ UNCHANGED invites
  BY DEF LinkLate
<1>2. invites \in [Links -> LinkStates] /\ resets \in [Links -> LinkStates]
  BY DEF AccInv, AccTypeOK
<1>3. AccTypeOK'
  BY <1>1, <1>2 DEF AccInv, AccTypeOK, LinkStates
<1>4. RequestsEnd /\ Root \in Users
  BY <1>1 DEF AccInv, RequestsEnd, Users
<1>5. ASSUME ~stale PROVE LinksOn
  <2>1. \A k \in Links : invites[k] = "none" \/ resets[k] = "none"
    BY <1>5 DEF AccInv, LinkOK
  <2> QED
    BY <1>1, <1>2, <2>1 DEF LinksOn
<1>6. toks' \subseteq toks \cup {<<Root, acct[Root].sv>>}
  BY <1>1
<1> QED
  BY <1>1, <1>3, <1>4, <1>5, <1>6, QuietInv

\* A link that is sent revokes those that are pending; none is sent again.
LEMMA LinksIssued ==
    ASSUME NEW links \in [Links -> LinkStates], NEW l \in Links
    PROVE  /\ Issue(links, l) \in [Links -> LinkStates]
           /\ Issue(links, l)[l] = "pending"
           /\ \A k \in Links \ {l} :
                 /\ links[k] = "none" <=> Issue(links, l)[k] = "none"
                 /\ links[k] = "used" <=> Issue(links, l)[k] = "used"
  BY DEF Issue, LinkStates

LEMMA LinksSpent ==
    ASSUME NEW links \in [Links -> LinkStates], NEW used
    PROVE  /\ Spend(links, used) \in [Links -> LinkStates]
           /\ \A k \in Links :
                 /\ k \in used => Spend(links, used)[k] = "used"
                 /\ links[k] = "used" => Spend(links, used)[k] = "used"
                 /\ k \notin used =>
                       (links[k] = "none" <=> Spend(links, used)[k] = "none")
  BY DEF Spend, LinkStates

LEMMA RequestPasswordResetInv ==
    ASSUME AccInv, NEW r \in AccReqs, NEW l \in Links, RequestPasswordReset(r, l)
    PROVE  AccInv'
<1>1. /\ UNCHANGED <<acct, invites, toks, challenges, areqs, dead, uses, stale,
                     crossed, lastCode>>
      /\ resets' = Issue(resets, l) /\ invites[l] = "none" /\ resets[l] = "none"
  BY DEF RequestPasswordReset, Fresh
<1>2. invites \in [Links -> LinkStates] /\ resets \in [Links -> LinkStates]
  BY DEF AccInv, AccTypeOK
<1>3. AccTypeOK'
  BY <1>1, <1>2, LinksIssued DEF AccInv, AccTypeOK
<1>4. RequestsEnd /\ Root \in Users
  BY <1>1 DEF AccInv, RequestsEnd, Users
<1>5. ASSUME ~stale PROVE LinksOn
  <2>1. \A k \in Links : invites[k] = "none" \/ resets[k] = "none"
    BY <1>5 DEF AccInv, LinkOK
  <2>2. /\ resets'[l] = "pending"
        /\ \A k \in Links \ {l} : /\ resets[k] = "none" <=> resets'[k] = "none"
                                  /\ resets[k] = "used" <=> resets'[k] = "used"
    BY <1>1, <1>2, LinksIssued
  <2> QED
    BY <1>1, <2>1, <2>2 DEF LinksOn
<1>6. toks' \subseteq toks \cup {<<Root, acct[Root].sv>>}
  BY <1>1
<1> QED
  BY <1>1, <1>3, <1>4, <1>5, <1>6, QuietInv

LEMMA CreateInv ==
    ASSUME AccInv, NEW r \in AccReqs, NEW actor \in Users, NEW l \in Links,
           Create(r, actor, l)
    PROVE  AccInv'
<1>1. /\ UNCHANGED <<toks, challenges, areqs, dead, uses, stale, crossed, lastCode>>
      /\ invites' = Issue(invites, l) /\ resets' = Spend(resets, {})
      /\ invites[l] = "none" /\ resets[l] = "none" /\ ~acct[Guest].live
  BY DEF Create, Fresh
<1>2. PICK w : /\ acct' = [acct EXCEPT ![Guest] = w]
               /\ \E admin \in BOOLEAN :
                     w = [NewUser EXCEPT !.admin = admin, !.sv = acct[Guest].sv]
  BY DEF Create
<1>3. acct \in [Users -> UserRow] /\ Guest \in Users /\ acct[Guest].sv \in Nat
  BY Accounts2, UserFields
<1>4. w \in UserRow /\ w.sv = acct[Guest].sv /\ w.codes = {}
  <2>1. PICK admin \in BOOLEAN :
           w = [NewUser EXCEPT !.admin = admin, !.sv = acct[Guest].sv]
    BY <1>2
  <2>2. w \in UserRow
    BY <1>3, <2>1, NewUserOK, Zenon DEF UserRow
  <2>3. DOMAIN NewUser = {"live", "admin", "active", "accepted", "activated", "sv",
                          "mfa", "pw", "pend", "codes"}
    BY NewUserOK DEF Columns
  <2>4. w.sv = acct[Guest].sv /\ w.codes = NewUser.codes
    BY <2>1, <2>3, Zenon
  <2> QED
    BY <2>2, <2>4, NewUserOK
<1>5. acct' \in [Users -> UserRow] /\ acct'[Guest] = w /\ OneAccount(Guest)
  BY <1>2, <1>3, <1>4 DEF OneAccount
<1>6. invites \in [Links -> LinkStates] /\ resets \in [Links -> LinkStates]
  BY DEF AccInv, AccTypeOK
<1>7. AccTypeOK'
  BY <1>1, <1>5, <1>6, LinksIssued, LinksSpent DEF AccInv, AccTypeOK
<1>8. RequestsEnd
  BY <1>1 DEF AccInv, RequestsEnd
<1>9. VersionsOn(Guest) /\ CodesOn(Guest) /\ AdminsOn(Guest)
  BY <1>1, <1>3, <1>4, <1>5 DEF VersionsOn, CodesOn, AdminsOn, ActiveAdmins
<1>10. ASSUME ~stale PROVE LinksOn
  <2>1. \A k \in Links : invites[k] = "none" \/ resets[k] = "none"
    BY <1>10 DEF AccInv, LinkOK
  <2>2. /\ invites'[l] = "pending"
        /\ \A k \in Links \ {l} : /\ invites[k] = "none" <=> invites'[k] = "none"
                                  /\ invites[k] = "used" <=> invites'[k] = "used"
    BY <1>1, <1>6, LinksIssued
  <2>3. \A k \in Links : /\ resets[k] = "none" <=> resets'[k] = "none"
                         /\ resets[k] = "used" => resets'[k] = "used"
    BY <1>1, <1>6, LinksSpent
  <2> QED
    BY <1>1, <2>1, <2>2, <2>3 DEF LinksOn
<1>11. stale' \in BOOLEAN /\ uses' \in [Codes \cup Links -> Nat]
  BY <1>1 DEF AccInv
<1> QED
  BY <1>1, <1>3, <1>5, <1>7, <1>8, <1>9, <1>10, <1>11, WriteInv

LEMMA SaveInviteInv ==
    ASSUME AccInv, NEW r \in AccReqs, NEW l \in Links, SaveInvite(r, l)
    PROVE  AccInv'
<1>1. /\ UNCHANGED <<resets, toks, challenges, dead, uses, crossed, lastCode>>
      /\ invites' = Issue(invites, l) /\ Resume(r)
      /\ stale' = (stale \/ acct[Guest] # areqs[r].seen)
      /\ invites[l] = "none" /\ resets[l] = "none"
  BY DEF SaveInvite, Fresh
<1>2. PICK w : /\ acct' = [acct EXCEPT ![Guest] = w]
               /\ w = [acct[Guest] EXCEPT !.accepted = FALSE]
  BY DEF SaveInvite
<1>3. /\ acct \in [Users -> UserRow] /\ Guest \in Users
      /\ acct[Guest] \in UserRow /\ acct[Guest].sv \in Nat
  BY Accounts2, UserFields
<1>4. /\ w \in UserRow /\ w.sv = acct[Guest].sv /\ w.codes = acct[Guest].codes
      /\ w.live = acct[Guest].live /\ w.active = acct[Guest].active
      /\ w.admin = acct[Guest].admin
  <2>1. w \in UserRow
    BY <1>2, <1>3, Zenon DEF UserRow
  <2>2. DOMAIN acct[Guest] = {"live", "admin", "active", "accepted", "activated",
                              "sv", "mfa", "pw", "pend", "codes"}
    BY <1>3 DEF UserRow
  <2> QED
    BY <1>2, <2>1, <2>2, Zenon
<1>5. acct' \in [Users -> UserRow] /\ acct'[Guest] = w /\ OneAccount(Guest)
  BY <1>2, <1>3, <1>4 DEF OneAccount
<1>6. invites \in [Links -> LinkStates]
  BY DEF AccInv, AccTypeOK
<1>7. AccTypeOK'
  BY <1>1, <1>5, <1>6, LinksIssued DEF AccInv, AccTypeOK
<1>8. RequestsEnd
  BY <1>1, ResumeEnds
<1>9. VersionsOn(Guest) /\ CodesOn(Guest) /\ AdminsOn(Guest)
  BY <1>1, <1>3, <1>4, <1>5 DEF VersionsOn, CodesOn, AdminsOn, ActiveAdmins
<1>10. ASSUME ~stale PROVE LinksOn
  <2>1. \A k \in Links : invites[k] = "none" \/ resets[k] = "none"
    BY <1>10 DEF AccInv, LinkOK
  <2>2. /\ invites'[l] = "pending"
        /\ \A k \in Links \ {l} : /\ invites[k] = "none" <=> invites'[k] = "none"
                                  /\ invites[k] = "used" <=> invites'[k] = "used"
    BY <1>1, <1>6, LinksIssued
  <2> QED
    BY <1>1, <2>1, <2>2 DEF LinksOn
<1>11. /\ stale' \in BOOLEAN /\ (stale => stale')
       /\ uses' \in [Codes \cup Links -> Nat]
  BY <1>1 DEF AccInv
<1> QED
  BY <1>1, <1>3, <1>5, <1>7, <1>8, <1>9, <1>10, <1>11, WriteInv

LEMMA RemoveInv ==
    ASSUME AccInv, NEW r \in AccReqs, Remove(r) PROVE AccInv'
<1>1. PICK u : u = areqs[r].u
  OBVIOUS
<1>2. /\ UNCHANGED <<invites, resets, toks, challenges, uses, stale, crossed, lastCode>>
      /\ dead' = dead \cup {t \in toks : t[1] = u} /\ Resume(r)
      /\ areqs[r].op = "delete"
  BY <1>1 DEF Remove
<1>3. PICK w : /\ acct' = [acct EXCEPT ![u] = w]
               /\ w = [NewUser EXCEPT !.live = FALSE, !.sv = acct[u].sv + 1]
  BY <1>1 DEF Remove
<1>4. u \in Users
  BY <1>1, <1>2 DEF AccInv, ChangeOK
<1>5. acct \in [Users -> UserRow] /\ acct[u].sv \in Nat
  BY <1>4, Accounts2, UserFields
<1>6. w \in UserRow /\ w.sv = acct[u].sv + 1 /\ w.codes = {}
  <2>1. acct[u].sv + 1 \in Nat
    BY <1>5
  <2>2. w \in UserRow
    BY <1>3, <2>1, NewUserOK, Zenon DEF UserRow
  <2>3. DOMAIN NewUser = {"live", "admin", "active", "accepted", "activated", "sv",
                          "mfa", "pw", "pend", "codes"}
    BY NewUserOK DEF Columns
  <2>4. w.sv = acct[u].sv + 1 /\ w.codes = NewUser.codes
    BY <1>3, <2>3, Zenon
  <2> QED
    BY <2>2, <2>4, NewUserOK
<1>7. acct' \in [Users -> UserRow] /\ acct'[u] = w /\ OneAccount(u)
  BY <1>3, <1>4, <1>5, <1>6 DEF OneAccount
<1>8. AccTypeOK'
  BY <1>2, <1>7 DEF AccInv, AccTypeOK
<1>9. RequestsEnd /\ areqs'[r] = Resting
  BY <1>2, ResumeEnds
<1>10. VersionsOn(u) /\ CodesOn(u)
  BY <1>2, <1>5, <1>6, <1>7 DEF VersionsOn, CodesOn
<1>11. AdminsOn(u)
  BY <1>1, <1>2, <1>9 DEF AdminsOn, Retiring
<1>12. ~stale => LinksOn
  BY <1>2, LinksSame
<1>13. stale' \in BOOLEAN /\ uses' \in [Codes \cup Links -> Nat]
  BY <1>2 DEF AccInv
<1> QED
  BY <1>2, <1>4, <1>7, <1>8, <1>9, <1>10, <1>11, <1>12, <1>13, WriteInv

\* The row that a save stores.
Saved(w, q) ==
    /\ w \in UserRow /\ w.live = TRUE
    /\ w.sv = q.ent["sv"] /\ w.admin = q.ent["admin"] /\ w.active = q.ent["active"]
    /\ w.codes = IF "codes" \in DOMAIN q.ent THEN q.ent["codes"]
                 ELSE IF acct[q.u].live THEN acct[q.u].codes ELSE {}

LEMMA StoredRow ==
    ASSUME AccInv, NEW r \in AccReqs, areqs[r].op \in Saving
    PROVE  Saved(Stored(r), areqs[r])
<1>1. PICK q : q = areqs[r]
  OBVIOUS
<1>2. PICK w : w = Stored(r)
  OBVIOUS
<1>3. w = [x \in Columns |->
             IF x = "live" THEN TRUE
             ELSE IF x \in DOMAIN q.ent THEN q.ent[x]
             ELSE IF acct[q.u].live THEN acct[q.u][x] ELSE NewUser[x]]
  BY <1>1, <1>2 DEF Stored, Columns
<1>4. ChangeOK(q) /\ q.op \in Saving /\ q.op # "none"
  BY <1>1 DEF AccInv, Saving
<1>5. q.u \in Users /\ Carries(q) /\ q.seen \in UserRow /\ q.ends \in BOOLEAN
  BY <1>4 DEF ChangeOK
<1>6. /\ \A x \in Columns \ {"sv", "codes"} : acct[q.u][x] \in BOOLEAN
      /\ acct[q.u].sv \in Nat /\ acct[q.u].codes \subseteq Codes
      /\ acct[q.u].live \in BOOLEAN /\ q.seen.sv \in Nat
  BY <1>5, Accounts2, UserFields
<1>7. \A x \in Columns \ {"sv", "codes"} : NewUser[x] \in BOOLEAN
  BY NewUserOK, UserFields
<1>8. /\ {"sv", "admin", "active"} \subseteq DOMAIN q.ent
      /\ DOMAIN q.ent \subseteq Columns \ {"live"}
      /\ \A x \in DOMAIN q.ent \ {"sv", "codes"} : q.ent[x] \in BOOLEAN
      /\ q.ent["sv"] = IF q.ends THEN q.seen.sv + 1 ELSE q.seen.sv
      /\ "codes" \in DOMAIN q.ent => q.ent["codes"] \subseteq Codes
  BY <1>5 DEF Carries
<1>9. w.live = TRUE /\ w.sv = q.ent["sv"] /\ w.admin = q.ent["admin"]
      /\ w.active = q.ent["active"]
  BY <1>3, <1>8, NewUserOK
<1>10. w.codes = IF "codes" \in DOMAIN q.ent THEN q.ent["codes"]
                ELSE IF acct[q.u].live THEN acct[q.u].codes ELSE {}
  BY <1>3, NewUserOK
<1>11. w["sv"] \in Nat /\ w["codes"] \subseteq Codes
  BY <1>6, <1>8, <1>9, <1>10
<1>12. \A x \in Columns \ {"sv", "codes"} : w[x] \in BOOLEAN
  BY <1>3, <1>6, <1>7, <1>8
<1>13. w = [x \in Columns |-> w[x]]
  BY <1>3
<1>14. w \in UserRow
  BY <1>11, <1>12, <1>13, AnyColumns
<1> QED
  BY <1>1, <1>2, <1>9, <1>10, <1>14 DEF Saved

\* How often a code or link has been used, after a request that uses some.
LEMMA UsesCounted ==
    ASSUME NEW use, NEW x
    PROVE  /\ x \notin use => Cardinality({x} \cap use) = 0
           /\ x \in use => Cardinality({x} \cap use) = 1
<1>1. ASSUME x \notin use PROVE Cardinality({x} \cap use) = 0
  <2>1. {x} \cap use = {}
    BY <1>1
  <2> QED
    BY <2>1, FS_EmptySet
<1>2. ASSUME x \in use PROVE Cardinality({x} \cap use) = 1
  <2>1. {x} \cap use = {x}
    BY <1>2
  <2>2. Cardinality({x}) = 1
    BY FS_Singleton
  <2> QED
    BY <2>1, <2>2
<1> QED
  BY <1>1, <1>2

\* A save, whatever it means for the sessions and the links.
LEMMA StoreInv ==
    ASSUME AccInv, NEW r \in AccReqs, areqs[r].op \in Saving, StoreUser(r), Resume(r),
           UNCHANGED <<challenges, crossed, lastCode>>,
           invites' \in [Links -> LinkStates], resets' \in [Links -> LinkStates],
           toks \subseteq toks',
           toks' \subseteq toks \cup {<<areqs[r].u, areqs[r].ent["sv"]>>},
           ~stale' => LinksOn
    PROVE  AccInv'
<1>1. PICK q : q = areqs[r]
  OBVIOUS
<1>2. PICK w : w = Stored(r)
  OBVIOUS
<1>3. ChangeOK(q) /\ q.op \in Saving /\ q.op # "none"
  BY <1>1 DEF AccInv, Saving
<1>4. q.u \in Users /\ Carries(q) /\ q.seen \in UserRow /\ q.ends \in BOOLEAN
  BY <1>3 DEF ChangeOK
<1>5. /\ acct' = [acct EXCEPT ![q.u] = w]
      /\ stale' = (stale \/ acct[q.u] # q.seen)
      /\ dead' = IF q.ends THEN dead \cup {t \in toks : t[1] = q.u} ELSE dead
      /\ uses' = [x \in DOMAIN uses |-> uses[x] + Cardinality({x} \cap q.use)]
  BY <1>1, <1>2 DEF StoreUser
<1>6. /\ w \in UserRow /\ w.live = TRUE
      /\ w.sv = q.ent["sv"] /\ w.admin = q.ent["admin"]
      /\ w.active = q.ent["active"]
      /\ w.codes = IF "codes" \in DOMAIN q.ent THEN q.ent["codes"]
                   ELSE IF acct[q.u].live THEN acct[q.u].codes ELSE {}
  <2>1. Saved(w, q)
    BY <1>1, <1>2, StoredRow
  <2> QED
    BY <2>1 DEF Saved
<1>7. acct \in [Users -> UserRow] /\ acct[q.u].sv \in Nat /\ q.seen.sv \in Nat
  BY <1>4, Accounts2, UserFields
<1>8. acct' \in [Users -> UserRow] /\ acct'[q.u] = w /\ OneAccount(q.u)
  BY <1>4, <1>5, <1>6, <1>7 DEF OneAccount
<1>9. w.sv = (IF q.ends THEN q.seen.sv + 1 ELSE q.seen.sv) /\ w.sv \in Nat
  BY <1>4, <1>6, <1>7 DEF Carries
<1>10. RequestsEnd /\ areqs'[r] = Resting
  BY ResumeEnds
<1>11. toks' \subseteq toks \cup {<<q.u, w.sv>>}
  BY <1>1, <1>6
<1>12. AccTypeOK'
  BY <1>4, <1>5, <1>8, <1>9, <1>11 DEF AccInv, AccTypeOK
<1>13. /\ DOMAIN uses = Codes \cup Links /\ \A x \in DOMAIN uses : uses[x] \in Nat
       /\ DOMAIN uses' = Codes \cup Links
       /\ \A x \in Codes \cup Links :
             uses'[x] = IF x \in q.use THEN uses[x] + 1 ELSE uses[x]
  <2>1. DOMAIN uses = Codes \cup Links /\ \A x \in DOMAIN uses : uses[x] \in Nat
    BY DEF AccInv
  <2>2. \A x \in DOMAIN uses : uses'[x] = uses[x] + Cardinality({x} \cap q.use)
    BY <1>5
  <2>3. \A x \in DOMAIN uses :
           uses'[x] = IF x \in q.use THEN uses[x] + 1 ELSE uses[x]
    <3> SUFFICES ASSUME NEW x \in DOMAIN uses
                 PROVE  uses'[x] = IF x \in q.use THEN uses[x] + 1 ELSE uses[x]
      OBVIOUS
    <3>1. Cardinality({x} \cap q.use) = IF x \in q.use THEN 1 ELSE 0
      BY UsesCounted
    <3> QED
      BY <2>1, <2>2, <3>1
  <2> QED
    BY <1>5, <2>1, <2>3
<1>14. uses' \in [Codes \cup Links -> Nat]
  <2>1. uses' = [x \in Codes \cup Links |-> uses'[x]]
    BY <1>5, <1>13
  <2>2. \A x \in Codes \cup Links : uses'[x] \in Nat
    BY <1>13
  <2> QED
    BY <2>1, <2>2
<1>15. stale' \in BOOLEAN /\ (stale => stale')
  BY <1>5 DEF AccInv
<1>16. ASSUME ~stale' PROVE VersionsOn(q.u)
  <2>1. acct[q.u] = q.seen
    BY <1>5, <1>16
  <2> QED
    BY <1>5, <1>7, <1>8, <1>9, <1>11, <2>1 DEF VersionsOn
<1>17. ASSUME ~stale' PROVE CodesOn(q.u)
  <2>1. acct[q.u] = q.seen /\ q.seen.live
    BY <1>3, <1>5, <1>16, <1>17 DEF ChangeOK
  <2>2. w.codes = IF "codes" \in DOMAIN q.ent THEN q.ent["codes"] ELSE acct[q.u].codes
    BY <1>6, <2>1
  <2>3. ASSUME NEW k \in Codes, k \in w.codes, k \notin acct[q.u].codes
        PROVE  Adds(r, k) /\ areqs'[r] = Resting
    BY <1>1, <1>10, <2>1, <2>2, <2>3 DEF Adds
  <2>4. ASSUME NEW k \in Codes, uses'[k] # uses[k]
        PROVE  /\ uses'[k] = uses[k] + 1
               /\ k \in acct[q.u].codes /\ k \notin w.codes
    <3>1. k \in q.use /\ uses'[k] = uses[k] + 1
      BY <1>13, <2>4
    <3>2. Links \cap Codes = {}
      BY Accounts2
    <3>3. q.op = "recover"
      BY <1>3, <3>1, <3>2 DEF ChangeOK, Saving
    <3>4. PICK j \in q.seen.codes : q.use = {j} /\ q.ent["codes"] = q.seen.codes \ {j}
      BY <1>3, <3>3 DEF ChangeOK
    <3>5. "codes" \in DOMAIN q.ent
      BY <1>3, <3>3 DEF ChangeOK
    <3> QED
      BY <2>1, <2>2, <3>1, <3>4, <3>5
  <2> QED
    BY <1>8, <2>3, <2>4 DEF CodesOn
<1>18. ASSUME ~stale' PROVE AdminsOn(q.u)
  <2>1. acct[q.u] = q.seen
    BY <1>5, <1>18
  <2>2. ASSUME q.u \in ActiveAdmins, q.u \notin ActiveAdmins'
        PROVE  Retiring(r)
    <3>1. q.seen.active /\ q.seen.admin
      BY <2>1, <2>2 DEF ActiveAdmins
    <3>2. ~(w.active /\ w.admin)
      BY <1>4, <1>6, <1>8, <2>2 DEF ActiveAdmins
    <3>3. q.op = "update"
      BY <1>4, <1>6, <3>1, <3>2 DEF Carries
    <3> QED
      BY <1>1, <1>6, <2>2, <3>2, <3>3 DEF Retiring
  <2> QED
    BY <1>1, <1>10, <2>2 DEF AdminsOn
<1>19. lastCode' = lastCode /\ crossed' = crossed
  OBVIOUS
<1> QED
  BY <1>4, <1>8, <1>10, <1>12, <1>14, <1>15, <1>16, <1>17, <1>18, <1>19, WriteInv

LEMMA SaveInv ==
    ASSUME AccInv, NEW r \in AccReqs, Save(r) PROVE AccInv'
<1>1. /\ areqs[r].op \in {"save", "update", "recover"} /\ StoreUser(r) /\ Resume(r)
      /\ UNCHANGED <<invites, resets, challenges, crossed, lastCode>>
      /\ toks \subseteq toks'
      /\ toks' \subseteq toks \cup {<<areqs[r].u, areqs[r].ent["sv"]>>}
  BY DEF Save
<1>2. areqs[r].op \in Saving
  BY <1>1 DEF Saving
<1>3. invites' \in [Links -> LinkStates] /\ resets' \in [Links -> LinkStates]
  BY <1>1 DEF AccInv, AccTypeOK
<1>4. ASSUME ~stale' PROVE LinksOn
  <2>1. ~stale /\ \A l \in Links : uses[l] \in Nat
    BY <1>1, <1>4, Accounts2 DEF StoreUser
  <2>2. \A l \in Links : l \notin areqs[r].use
    <3>1. ChangeOK(areqs[r]) /\ Links \cap Codes = {}
      BY Accounts2 DEF AccInv
    <3>2. CASE areqs[r].op \in {"save", "update"}
      BY <3>1, <3>2 DEF ChangeOK
    <3>3. CASE areqs[r].op = "recover"
      <4>1. PICK k \in areqs[r].seen.codes : areqs[r].use = {k}
        BY <3>1, <3>3 DEF ChangeOK
      <4>2. areqs[r].seen \in UserRow
        BY <3>1, <3>3 DEF ChangeOK
      <4>3. k \in Codes
        BY <4>2, UserFields
      <4> QED
        BY <3>1, <4>1, <4>3
    <3> QED
      BY <1>1, <3>2, <3>3
  <2>3. \A l \in Links : uses'[l] = uses[l]
    <3> SUFFICES ASSUME NEW l \in Links PROVE uses'[l] = uses[l]
      OBVIOUS
    <3>1. uses'[l] = uses[l] + Cardinality({l} \cap areqs[r].use)
      BY <1>1 DEF StoreUser, AccInv
    <3>2. Cardinality({l} \cap areqs[r].use) = 0
      BY <2>2, UsesCounted
    <3> QED
      BY <2>1, <3>1, <3>2
  <2>4. \A l \in Links : invites[l] = "none" \/ resets[l] = "none"
    BY <2>1 DEF AccInv, LinkOK
  <2> QED
    BY <1>1, <2>3, <2>4 DEF LinksOn
<1> QED
  BY <1>1, <1>2, <1>3, <1>4, StoreInv

LEMMA SaveWithLinkInv ==
    ASSUME AccInv, NEW r \in AccReqs, SaveWithLink(r) PROVE AccInv'
<1>1. PICK q : q = areqs[r]
  OBVIOUS
<1>2. /\ q.op \in {"accept", "reset"} /\ StoreUser(r) /\ Resume(r)
      /\ UNCHANGED <<toks, challenges, crossed, lastCode>>
      /\ invites' = IF q.op = "accept" THEN Spend(invites, q.use) ELSE invites
      /\ resets' = IF q.op = "reset" THEN Spend(resets, q.use) ELSE resets
  BY <1>1 DEF SaveWithLink
<1>3. areqs[r].op \in Saving /\ ChangeOK(q)
  BY <1>1, <1>2 DEF Saving, AccInv
<1>4. invites \in [Links -> LinkStates] /\ resets \in [Links -> LinkStates]
  BY DEF AccInv, AccTypeOK
<1>5. invites' \in [Links -> LinkStates] /\ resets' \in [Links -> LinkStates]
  BY <1>2, <1>4, LinksSpent
<1>6. PICK l \in Links : q.use = {l} /\ q.u = Guest /\ q.ends
                         /\ q.seen \in UserRow /\ Carries(q)
  BY <1>2, <1>3 DEF ChangeOK, Saving
<1>7. ASSUME ~stale' PROVE LinksOn
  <2>1. ~stale /\ acct[Guest] = q.seen
    BY <1>1, <1>2, <1>6, <1>7 DEF StoreUser
  <2>2. \A k \in Links : LinkOK(k) /\ uses[k] \in Nat
    BY <2>1, Accounts2 DEF AccInv
  <2>3. /\ q.op = "accept" => invites[l] # "none"
        /\ q.op = "reset" => resets[l] # "none"
        /\ uses[l] > 0 => q.seen.sv < acct[Guest].sv
    BY <1>1, <1>2, <1>6, <2>2 DEF LinkOK
  <2>4. acct[Guest].sv \in Nat /\ Guest \in Users
    BY Accounts2, UserFields
  <2>5. uses[l] = 0
    BY <2>1, <2>2, <2>3, <2>4
  <2>6. \A k \in Links :
           uses'[k] = IF k = l THEN uses[k] + 1 ELSE uses[k]
    <3> SUFFICES ASSUME NEW k \in Links
                 PROVE  uses'[k] = IF k = l THEN uses[k] + 1 ELSE uses[k]
      OBVIOUS
    <3>1. uses'[k] = uses[k] + Cardinality({k} \cap q.use)
      BY <1>1, <1>2 DEF StoreUser, AccInv
    <3>2. Cardinality({k} \cap q.use) = IF k = l THEN 1 ELSE 0
      BY <1>6, UsesCounted
    <3> QED
      BY <2>2, <3>1, <3>2
  <2>7. acct[Guest].sv < acct'[Guest].sv
    <3>1. PICK w : w = Stored(r)
      OBVIOUS
    <3>2. w.sv = q.ent["sv"]
      BY <1>1, <1>3, <3>1, StoredRow DEF Saved
    <3>3. acct' = [acct EXCEPT ![Guest] = w]
      BY <1>1, <1>2, <1>6, <3>1 DEF StoreUser
    <3>4. acct'[Guest] = w
      BY <2>4, <3>3, Accounts2
    <3>5. q.ent["sv"] = q.seen.sv + 1
      BY <1>6 DEF Carries
    <3> QED
      BY <2>1, <2>4, <3>2, <3>4, <3>5
  <2>8. \A k \in Links :
           /\ k # l => /\ invites[k] = "none" <=> invites'[k] = "none"
                       /\ resets[k] = "none" <=> resets'[k] = "none"
           /\ invites[k] = "used" => invites'[k] = "used"
           /\ resets[k] = "used" => resets'[k] = "used"
    BY <1>2, <1>4, <1>6, LinksSpent
  <2>9. /\ q.op = "accept" => invites'[l] = "used" /\ resets'[l] = resets[l]
        /\ q.op = "reset" => resets'[l] = "used" /\ invites'[l] = invites[l]
    BY <1>2, <1>4, <1>6, LinksSpent
  <2>10. \A k \in Links : invites[k] = "none" \/ resets[k] = "none"
    BY <2>2 DEF LinkOK
  <2> QED
    BY <1>2, <2>3, <2>5, <2>6, <2>7, <2>8, <2>9, <2>10 DEF LinksOn
<1>8. toks \subseteq toks' /\ toks' \subseteq toks \cup {<<areqs[r].u, areqs[r].ent["sv"]>>}
  BY <1>2
<1> QED
  BY <1>2, <1>3, <1>5, <1>7, <1>8, StoreInv

-----------------------------------------------------------------------------
(* Accounts: the theorems.                                                   *)

LEMMA AccStepInv == AccInv /\ [AccNext]_accVars => AccInv'
<1> SUFFICES ASSUME AccInv, [AccNext]_accVars PROVE AccInv'
  OBVIOUS
<1>1. CASE UNCHANGED accVars
  <2>1. /\ UNCHANGED <<acct, invites, resets, toks, challenges, areqs, dead, uses,
                       stale, crossed, lastCode>>
        /\ Root \in Users
    BY <1>1 DEF accVars, Users
  <2>2. AccTypeOK' /\ RequestsEnd
    BY <2>1 DEF AccInv, AccTypeOK, RequestsEnd
  <2>3. ~stale => LinksOn
    BY <2>1, LinksSame
  <2>4. toks' \subseteq toks \cup {<<Root, acct[Root].sv>>}
    BY <2>1
  <2> QED
    BY <2>1, <2>2, <2>3, <2>4, QuietInv
<1>2. CASE \E u \in Users : Login(u) \/ VerifyMfaChallenge(u)
  BY <1>2, SessionInv
<1>3. ASSUME NEW r \in AccReqs, NEW u \in Users, OwnRequest(r, u) PROVE AccInv'
  BY <1>3, UpdatePreferencesInv, ChangePasswordInv, InitiateMfaSetupInv,
     ConfirmMfaSetupInv, RegenerateMfaRecoveryCodesInv, DisableMfaInv,
     VerifyMfaRecoveryInv DEF OwnRequest
<1>4. ASSUME NEW r \in AccReqs, NEW u \in Users, AdminRequest(r, u) PROVE AccInv'
  BY <1>4, UpdateInv, DeleteInv, CreateInv, ResendInviteInv DEF AdminRequest
<1>5. ASSUME NEW r \in AccReqs, NEW l \in Links, LinkRequest(r, l) PROVE AccInv'
  BY <1>5, AcceptInvitationInv, RequestPasswordResetInv, ResetPasswordInv
     DEF LinkRequest
<1>6. ASSUME NEW r \in AccReqs,
             \/ \E l \in Links : SaveInvite(r, l)
             \/ Save(r) \/ SaveWithLink(r) \/ Remove(r) \/ RequestDies(r)
      PROVE  AccInv'
  BY <1>6, SaveInviteInv, SaveInv, SaveWithLinkInv, RemoveInv, RequestDiesInv
<1>7. CASE \E l \in Links : LinkLate(l)
  BY <1>7, LinkLateInv
<1> QED
  BY <1>1, <1>2, <1>3, <1>4, <1>5, <1>6, <1>7 DEF AccNext

LEMMA AccInvariant == AccSpec => []AccInv
  BY AccInitInv, AccStepInv, PTL DEF AccSpec

\* changePassword, confirmMfaSetup, disableMfa, regenerateMfaRecoveryCodes,
\* update, remove, acceptInvitation and resetPassword end the sessions of their
\* user for good, as long as no save writes back an account that has changed
\* since it was loaded.
THEOREM EndedSessionsStayEnded == AccSpec => []SessionsEnd
<1>1. AccInv => SessionsEnd
  <2> SUFFICES ASSUME AccInv, ~stale, NEW t \in dead
               PROVE  ~ValidateJwtPayload(t[1], t[2])
    BY DEF SessionsEnd
  <2>1. t[1] \in Users /\ t[2] \in Nat /\ t[2] < acct[t[1]].sv
    BY DEF AccInv, AccTypeOK, TokensOK
  <2> QED
    BY <2>1 DEF ValidateJwtPayload
<1> QED
  BY <1>1, AccInvariant, PTL

\* A recovery code (verifyMfaRecovery), an invitation (acceptInvitation) and a
\* reset link (resetPassword) work once, however the requests that present them
\* overlap, under the same condition.
THEOREM SecretsWorkOnce == AccSpec => []OneTimeSecrets
<1>1. AccInv => OneTimeSecrets
  BY DEF AccInv, OneTimeSecrets, CodeOK, LinkOK
<1> QED
  BY <1>1, AccInvariant, PTL

\* assertPlatformAdminRetention keeps an active admin, unless two removals of
\* admins overlap or a save has overwritten an update.
THEOREM AdminRemainsUnlessCrossed == AccSpec => []AdminRemains
<1>1. AccInv => AdminRemains
  BY DEF AccInv, AdminRemains, AdminsOK
<1> QED
  BY <1>1, AccInvariant, PTL

-----------------------------------------------------------------------------
(* Workspaces: the inductive invariant.                                      *)

Entities == UNION {[S -> BOOLEAN] : S \in SUBSET WsColumns}

WsRequests ==
    [pc : {"idle", "select", "insert", "update", "clear", "set", "remove", "save"},
     op : {"none", "workspace", "member", "team", "teamed", "node"},
     w : Ids, ent : Entities, makeDefault : BOOLEAN, snap : SUBSET Ids,
     mem : MembershipRow]

\* An entity that is saved as a whole has all columns, and no role is stored
\* that is none.
WsRequestOK(r) ==
    /\ r \in WsRequests
    /\ r.pc \in {"select", "update", "clear", "set"} => r.op = "workspace"
    /\ r.op = "workspace" /\ r.pc \in {"select", "insert"}
          => DOMAIN r.ent = WsColumns
    /\ r.op = "member" => r.mem.role # "none"

\* What a request of nobody else has found is still so.
WorkspaceSeen(r) ==
    r.op = "workspace" =>
       /\ r.pc = "insert" => ws[r.w].st = "new" /\ ~r.ent["def"]
       /\ r.pc = "select" => Live(r.w) /\ r.ent["def"] = ws[r.w].def
       /\ r.pc = "update" => Live(r.w) /\ "def" \notin DOMAIN r.ent
       /\ r.pc = "clear" => Live(r.w)
       /\ r.pc = "set" => Live(r.w) /\ r.snap = Defaults
       /\ r.pc = "remove" => ~ws[r.w].def

TeamSeen(r) ==
    /\ r.op = "team" /\ r.pc = "save" => team # "gone"
    /\ r.op = "team" /\ r.pc = "remove" => ~assigned
    /\ r.op = "teamed" /\ r.pc = "insert"
          => team = "there" /\ member[Home].role # "none"
    /\ r.op = "node" /\ r.pc = "insert" => team = "there"

\* The indexes, and what the boot has to start from.
Indexed ==
    /\ \A v, w \in Ids : Live(v) /\ Live(w) /\ ws[v].slug /\ ws[w].slug => v = w
    /\ legacy => \A v, w \in Defaults : v = w
    /\ ws[Home].st # "new"

BootOK ==
    /\ boot # "up" => legacy /\ \A q \in Reqs : reqs[q] = Free
    /\ boot = "flag" => \E w \in Ids : Live(w) /\ (ws[w].def \/ ws[w].slug)
    /\ boot \in {"members", "teams"} => HasDefaultWorkspace

\* No two requests have overlapped.
Alone ==
    /\ \A p, q \in Reqs : reqs[p] # Free /\ reqs[q] # Free => p = q
    /\ \A q \in Reqs : WorkspaceSeen(reqs[q]) /\ TeamSeen(reqs[q])
    /\ \E w \in Ids : Defaults = {w}
    /\ team = "new" => ~teamed /\ ~assigned
    /\ ~Strays
    /\ assigned /\ Live(Home) => team = "there"

WsInv ==
    /\ WsTypeOK
    /\ wsOps \in 0 .. MaxWsOps /\ restarts \in 0 .. MaxRestarts
    /\ \A q \in Reqs : WsRequestOK(reqs[q])
    /\ reqs \in [Reqs -> WsRequests] /\ overlap \in BOOLEAN
    /\ Indexed /\ BootOK
    /\ ~overlap => Alone

-----------------------------------------------------------------------------
(* Workspaces: requests.                                                     *)

LEMMA FreeOK ==
    /\ Free \in WsRequests /\ WsRequestOK(Free) /\ Free.op = "none" /\ Free.pc = "idle"
    /\ Nobody \in MembershipRow /\ NoChange \in Entities
<1>1. NoChange \in Entities
  BY DEF NoChange, Entities
<1>2. Nobody \in MembershipRow
  BY WorkspacesAssumption DEF Nobody, MembershipRow
<1> QED
  BY <1>1, <1>2, WorkspacesAssumption DEF Free, WsRequests, WsRequestOK

LEMMA WsTyped ==
    ASSUME WsInv
    PROVE  /\ ws \in [Ids -> WorkspaceRow] /\ member \in [Ids -> MembershipRow]
           /\ Home \in Ids /\ Spare \in Ids /\ Home # Spare
           /\ team \in {"new", "there", "gone"} /\ legacy \in BOOLEAN
           /\ teamed \in BOOLEAN /\ assigned \in BOOLEAN
           /\ wsOps \in Nat /\ restarts \in Nat /\ overlap \in BOOLEAN
           /\ \A q \in Reqs : WsRequestOK(reqs[q]) /\ reqs[q] \in WsRequests
  BY WorkspacesAssumption DEF WsInv, WsTypeOK, WsRequestOK

\* A request that goes on, and one that is over.
LEMMA WsStep ==
    ASSUME NEW r \in WsRequests, NEW pc \in {"update", "clear", "set", "insert"}
    PROVE  LET n == [r EXCEPT !.pc = pc] IN
           /\ n \in WsRequests /\ n.pc = pc /\ n.op = r.op /\ n.w = r.w
           /\ n.ent = r.ent /\ n.makeDefault = r.makeDefault /\ n.mem = r.mem
           /\ n.snap = r.snap
<1>1. PICK n : n = [r EXCEPT !.pc = pc]
  OBVIOUS
<1>2. DOMAIN r = {"pc", "op", "w", "ent", "makeDefault", "snap", "mem"}
  BY DEF WsRequests
<1>3. /\ n.pc = pc /\ n.op = r.op /\ n.w = r.w /\ n.ent = r.ent
      /\ n.makeDefault = r.makeDefault /\ n.mem = r.mem /\ n.snap = r.snap
  BY <1>1, <1>2, Zenon
<1>4. n = [x \in {"pc", "op", "w", "ent", "makeDefault", "snap", "mem"} |-> n[x]]
  BY <1>1, <1>2, Zenon
<1>5. n \in WsRequests
  BY <1>3, <1>4 DEF WsRequests
<1> QED
  BY <1>1, <1>3, <1>5

\* What a request has found, of tables that stay.
LEMMA BeginInv ==
    ASSUME WsInv, NEW q \in Reqs, NEW r, Begin(q, r), WsRequestOK(r),
           WorkspaceSeen(r), TeamSeen(r)
    PROVE  WsInv'
<1>1. /\ reqs[q] = Free /\ boot = "up" /\ boot' = boot /\ legacy' = legacy /\ UNCHANGED tables
      /\ reqs' = [reqs EXCEPT ![q] = r] /\ restarts' = restarts
      /\ wsOps < MaxWsOps /\ wsOps' = wsOps + 1
      /\ overlap' = (overlap \/ \E p \in Reqs : reqs[p] # Free)
      /\ UNCHANGED <<ws, member, team, teamed, assigned>>
  BY DEF Begin, tables
<1>2. /\ WsTypeOK' /\ Indexed' /\ BootOK'
  BY <1>1 DEF WsInv, WsTypeOK, Indexed, BootOK, Live, Defaults, HasDefaultWorkspace
<1>3. /\ wsOps' \in 0 .. MaxWsOps /\ restarts' \in 0 .. MaxRestarts
  BY <1>1, WorkspacesAssumption DEF WsInv
<1>4. reqs' \in [Reqs -> WsRequests] /\ \A p \in Reqs : WsRequestOK(reqs'[p])
  BY <1>1 DEF WsInv, WsRequestOK
<1>5. overlap' \in BOOLEAN
  BY <1>1, Zenon
<1>6. ASSUME ~overlap' PROVE Alone'
  <2>1. ~overlap /\ \A p \in Reqs : reqs[p] = Free
    BY <1>1, <1>6
  <2>2. /\ \A p \in Reqs : p # q => reqs'[p] = Free
        /\ reqs'[q] = r
    BY <1>1, <2>1 DEF WsInv
  <2>3. WorkspaceSeen(r)' /\ TeamSeen(r)'
    BY <1>1 DEF WorkspaceSeen, TeamSeen, Live, Defaults
  <2>4. WorkspaceSeen(Free)' /\ TeamSeen(Free)'
    BY FreeOK DEF WorkspaceSeen, TeamSeen
  <2>5. \A p \in Reqs : WorkspaceSeen(reqs[p])' /\ TeamSeen(reqs[p])'
    BY <2>2, <2>3, <2>4
  <2>6. Alone
    BY <2>1 DEF WsInv
  <2>7. /\ \E w \in Ids : Defaults' = {w}
        /\ team' = "new" => ~teamed' /\ ~assigned'
        /\ ~Strays'
        /\ assigned' /\ Live(Home)' => team' = "there"
    BY <1>1, <2>6 DEF Alone, Defaults, Live, Strays
  <2> QED
    BY <2>2, <2>5, <2>7 DEF Alone
<1> QED
  BY <1>2, <1>3, <1>4, <1>5, <1>6 DEF WsInv

\* The tables of which Alone speaks.
TablesAgree ==
    /\ \E w \in Ids : Defaults = {w}
    /\ team = "new" => ~teamed /\ ~assigned
    /\ ~Strays
    /\ assigned /\ Live(Home) => team = "there"

\* A statement of request q, after which the request is r.
LEMMA WsWriteInv ==
    ASSUME WsInv, NEW q \in Reqs, reqs[q] # Free, NEW r, WsRequestOK(r),
           reqs' = [reqs EXCEPT ![q] = r], Quiet, WsTypeOK', Indexed',
           ~overlap => TablesAgree' /\ WorkspaceSeen(r)' /\ TeamSeen(r)'
    PROVE  WsInv'
<1>1. boot = "up" /\ UNCHANGED <<legacy, boot, overlap, wsOps, restarts>>
  BY DEF WsInv, BootOK, Quiet, WsTypeOK
<1>2. BootOK'
  BY <1>1 DEF BootOK
<1>3. reqs' \in [Reqs -> WsRequests] /\ \A p \in Reqs : WsRequestOK(reqs'[p])
  BY DEF WsInv, WsRequestOK
<1>4. ASSUME ~overlap' PROVE Alone'
  <2>1. Alone
    BY <1>1, <1>4 DEF WsInv
  <2>2. /\ \A p \in Reqs : p # q => reqs'[p] = Free
        /\ reqs'[q] = r
    BY <1>1, <2>1 DEF WsInv, Alone
  <2>3. WorkspaceSeen(r)' /\ TeamSeen(r)' /\ TablesAgree'
    BY <1>1, <1>4
  <2>4. WorkspaceSeen(Free)' /\ TeamSeen(Free)'
    BY FreeOK DEF WorkspaceSeen, TeamSeen
  <2>5. \A p \in Reqs : WorkspaceSeen(reqs[p])' /\ TeamSeen(reqs[p])'
    BY <2>2, <2>3, <2>4
  <2> QED
    BY <2>2, <2>3, <2>5 DEF Alone, TablesAgree
<1> QED
  BY <1>1, <1>2, <1>3, <1>4 DEF WsInv

LEMMA WsInitInv == WsInit => WsInv
<1> SUFFICES ASSUME WsInit PROVE WsInv
  OBVIOUS
<1>1. Home \in Ids /\ Spare \in Ids /\ Home # Spare /\ MaxWsOps \in Nat /\ MaxRestarts \in Nat
  BY WorkspacesAssumption
<1>2. PICK live \in SUBSET (Ids \ {Home, Spare}), slug \in BOOLEAN :
        ws = [w \in Ids |->
                [Absent EXCEPT !.st = IF w \in live \cup {Home} THEN "live" ELSE "new",
                               !.def = (w = Home), !.slug = (slug /\ w = Home)]]
  BY DEF WsInit
<1>3. ASSUME NEW w \in Ids
      PROVE  /\ ws[w] \in WorkspaceRow
             /\ ws[w].st = IF w \in live \cup {Home} THEN "live" ELSE "new"
             /\ ws[w].def <=> w = Home
             /\ ws[w].slug <=> (slug /\ w = Home)
  <2>1. PICK d \in BOOLEAN, s \in BOOLEAN : (d <=> w = Home) /\ (s <=> slug /\ w = Home)
    <3>1. CASE slug
      BY <3>1
    <3>2. CASE ~slug
      BY <3>2
    <3> QED BY <3>1, <3>2
  <2>2. d = (w = Home) /\ s = (slug /\ w = Home)
    BY <2>1, Zenon
  <2>3. PICK st \in {"live", "new"} : st = IF w \in live \cup {Home} THEN "live" ELSE "new"
    OBVIOUS
  <2>4. ws[w] = [Absent EXCEPT !.st = st, !.def = d, !.slug = s]
    BY <1>2, <2>2, <2>3, Zenon
  <2>5. ws[w] = [st |-> st, arch |-> FALSE, def |-> d, slug |-> s]
    BY <2>4 DEF Absent
  <2> QED
    BY <2>1, <2>3, <2>5 DEF WorkspaceRow
<1>4. ws \in [Ids -> WorkspaceRow]
  <2>1. DOMAIN ws = Ids /\ ws = [w \in Ids |-> ws[w]]
    BY <1>2, Zenon
  <2> QED
    BY <1>3, <2>1
<1>5. member \in [Ids -> MembershipRow]
  <2>1. [role |-> "admin", id |-> 0] \in MembershipRow
    BY <1>1 DEF MembershipRow
  <2> QED
    BY <2>1, FreeOK DEF WsInit
<1>6. /\ team \in {"new", "there"} /\ legacy \in BOOLEAN /\ teamed \in BOOLEAN /\ assigned \in BOOLEAN
      /\ (teamed => team = "there") /\ (assigned => team = "there")
  <2>1. /\ team \in {"new", "there"} /\ legacy \in BOOLEAN
    BY DEF WsInit
  <2>2. teamed \in BOOLEAN /\ (teamed => team = "there")
    BY Zenon DEF WsInit
  <2>3. assigned \in BOOLEAN /\ (assigned => team = "there")
    BY Zenon DEF WsInit
  <2> QED
    BY <2>1, <2>2, <2>3
<1>7. WsTypeOK
  BY <1>4, <1>5, <1>6 DEF WsInit, WsTypeOK
<1>8. Defaults = {Home}
  BY <1>1, <1>3 DEF Defaults, Live
<1>9. Indexed
  BY <1>1, <1>3, <1>8 DEF Indexed
<1>10. member[Home].role = "admin"
  BY <1>1 DEF WsInit
<1>11. Alone
  <2>1. \A q \in Reqs : reqs[q] = Free
    BY DEF WsInit
  <2>2. WorkspaceSeen(Free) /\ TeamSeen(Free)
    BY FreeOK DEF WorkspaceSeen, TeamSeen
  <2> QED
    BY <1>1, <1>6, <1>8, <1>10, <2>1, <2>2 DEF Alone, Strays
<1>12. reqs \in [Reqs -> WsRequests] /\ \A q \in Reqs : WsRequestOK(reqs[q])
  BY FreeOK DEF WsInit
<1>13. BootOK /\ overlap \in BOOLEAN /\ wsOps = 0 /\ restarts = 0
  BY DEF WsInit, BootOK
<1> QED
  BY <1>1, <1>7, <1>9, <1>11, <1>12, <1>13 DEF WsInv

-----------------------------------------------------------------------------
(* Workspaces: requests begin.                                               *)

LEMMA AsksDto ==
    ASSUME NEW dto \in Entities
    PROVE  /\ DOMAIN dto \subseteq WsColumns
           /\ \A x \in DOMAIN dto : dto[x] \in BOOLEAN
           /\ \A x \in WsColumns : Asks(dto, x) \in BOOLEAN
<1>1. PICK S \in SUBSET WsColumns : dto \in [S -> BOOLEAN]
  BY DEF Entities
<1> QED
  BY <1>1 DEF Asks

LEMMA CreateWorkspaceInv ==
    ASSUME WsInv, NEW q \in Reqs, NEW w \in Ids, NEW d \in BOOLEAN, NEW a \in BOOLEAN,
           NEW s \in BOOLEAN, CreateWorkspace(q, w, d, a, s)
    PROVE  WsInv'
<1> DEFINE ent == [arch |-> a, def |-> FALSE, slug |-> s]
<1>1. PICK m \in BOOLEAN : m = (d \/ ~HasDefaultWorkspace)
  <2>1. (d \/ ~HasDefaultWorkspace) \in BOOLEAN
    BY Zenon
  <2> QED
    BY <2>1, Zenon
<1>2. PICK r : r = [Free EXCEPT !.pc = "insert", !.op = "workspace", !.w = w,
                      !.ent = ent, !.makeDefault = m]
  OBVIOUS
<1>3. Begin(q, r)
  BY <1>1, <1>2, Zenon DEF CreateWorkspace
<1>4. ent \in Entities /\ DOMAIN ent = WsColumns /\ ~ent["def"]
  <2>1. DOMAIN ent = WsColumns /\ ~ent["def"] /\ ent = [x \in WsColumns |-> ent[x]]
    BY DEF WsColumns
  <2>2. \A x \in WsColumns : ent[x] \in BOOLEAN
    <3>1. ent["arch"] = a /\ ent["def"] = FALSE /\ ent["slug"] = s
      OBVIOUS
    <3> HIDE DEF ent
    <3> QED
      BY <3>1, Zenon DEF WsColumns
  <2> HIDE DEF ent
  <2> QED
    BY <2>1, <2>2 DEF Entities
<1>5. r = [pc |-> "insert", op |-> "workspace", w |-> w, ent |-> ent, makeDefault |-> m,
           snap |-> {}, mem |-> Nobody]
  BY <1>2 DEF Free
<1> HIDE DEF ent
<1>6. WsRequestOK(r)
  BY <1>4, <1>5, FreeOK DEF WsRequestOK, WsRequests
<1>7. ws[w].st = "new"
  BY DEF CreateWorkspace
<1>8. WorkspaceSeen(r) /\ TeamSeen(r)
  BY <1>4, <1>5, <1>7 DEF WorkspaceSeen, TeamSeen
<1> QED
  BY <1>3, <1>6, <1>8, BeginInv

LEMMA UpdateWorkspaceInv ==
    ASSUME WsInv, NEW q \in Reqs, NEW w \in Ids, NEW platform, NEW dto \in Entities,
           UpdateWorkspace(q, w, platform, dto)
    PROVE  WsInv'
<1>1. PICK ent : ent = [x \in WsColumns |-> IF x \in DOMAIN dto /\ x # "def"
                                            THEN dto[x] ELSE ws[w][x]]
  OBVIOUS
<1>2. PICK m : m = Asks(dto, "def")
  OBVIOUS
<1>3. PICK r : r = [Free EXCEPT !.pc = "select", !.op = "workspace", !.w = w,
                      !.ent = ent, !.makeDefault = m]
  OBVIOUS
<1>4. Begin(q, r)
  BY <1>1, <1>2, <1>3, Zenon DEF UpdateWorkspace
<1>5. ws[w] \in WorkspaceRow
  BY WsTyped
<1>6. /\ DOMAIN ent = WsColumns /\ ent = [x \in WsColumns |-> ent[x]]
      /\ ent["def"] = ws[w].def
      /\ \A x \in WsColumns : ent[x] \in BOOLEAN
  <2>1. DOMAIN ent = WsColumns /\ ent = [x \in WsColumns |-> ent[x]]
    BY <1>1, Zenon
  <2>2. "def" \in WsColumns
    BY DEF WsColumns
  <2>3. ent["def"] = ws[w].def
    BY <1>1, <2>2, Zenon
  <2>4. ASSUME NEW x \in WsColumns PROVE ent[x] \in BOOLEAN
    <3>1. ws[w][x] \in BOOLEAN
      BY <1>5 DEF WorkspaceRow, WsColumns
    <3>2. CASE x \in DOMAIN dto /\ x # "def"
      BY <1>1, <3>2, AsksDto, Zenon
    <3>3. CASE ~(x \in DOMAIN dto /\ x # "def")
      BY <1>1, <3>1, <3>3, Zenon
    <3> QED BY <3>2, <3>3
  <2> QED BY <2>1, <2>3, <2>4
<1>7. ent \in Entities
  BY <1>6 DEF Entities
<1>8. m \in BOOLEAN
  BY <1>2, AsksDto, Zenon DEF WsColumns
<1>9. r = [pc |-> "select", op |-> "workspace", w |-> w, ent |-> ent, makeDefault |-> m,
           snap |-> {}, mem |-> Nobody]
  BY <1>3 DEF Free
<1>10. WsRequestOK(r)
  BY <1>6, <1>7, <1>8, <1>9, FreeOK DEF WsRequestOK, WsRequests
<1>11. Live(w)
  BY DEF UpdateWorkspace
<1>12. WorkspaceSeen(r) /\ TeamSeen(r)
  BY <1>6, <1>9, <1>11 DEF WorkspaceSeen, TeamSeen
<1> QED
  BY <1>4, <1>10, <1>12, BeginInv

LEMMA DeleteWorkspaceInv ==
    ASSUME WsInv, NEW q \in Reqs, NEW w \in Ids, NEW platform, DeleteWorkspace(q, w, platform)
    PROVE  WsInv'
<1>1. PICK r : r = [Free EXCEPT !.pc = "remove", !.op = "workspace", !.w = w]
  OBVIOUS
<1>2. r = [pc |-> "remove", op |-> "workspace", w |-> w, ent |-> NoChange,
           makeDefault |-> FALSE, snap |-> {}, mem |-> Nobody]
  BY <1>1 DEF Free
<1>3. Begin(q, r) /\ ~ws[w].def
  BY <1>1 DEF DeleteWorkspace
<1>4. WsRequestOK(r) /\ WorkspaceSeen(r) /\ TeamSeen(r)
  BY <1>2, <1>3, FreeOK DEF WsRequestOK, WsRequests, WorkspaceSeen, TeamSeen
<1> QED
  BY <1>3, <1>4, BeginInv

\* addMember, updateMember and removeMember.
LEMMA MemberBegins ==
    ASSUME WsInv, NEW q \in Reqs, NEW w \in Ids, NEW mem \in MembershipRow,
           mem.role # "none", NEW pc \in {"insert", "save", "remove"},
           Begin(q, [Free EXCEPT !.pc = pc, !.op = "member", !.w = w, !.mem = mem])
    PROVE  WsInv'
<1>1. PICK r : r = [Free EXCEPT !.pc = pc, !.op = "member", !.w = w, !.mem = mem]
  OBVIOUS
<1>2. r = [pc |-> pc, op |-> "member", w |-> w, ent |-> NoChange,
           makeDefault |-> FALSE, snap |-> {}, mem |-> mem]
  BY <1>1 DEF Free
<1>3. WsRequestOK(r) /\ WorkspaceSeen(r) /\ TeamSeen(r)
  BY <1>2, FreeOK DEF WsRequestOK, WsRequests, WorkspaceSeen, TeamSeen
<1> QED
  BY <1>1, <1>3, BeginInv

LEMMA MemberRequestInv ==
    ASSUME WsInv, NEW q \in Reqs, NEW w \in Ids, NEW platform,
           \/ \E role \in {"member", "admin"} :
                 AddMember(q, w, platform, role) \/ UpdateMember(q, w, platform, role)
           \/ RemoveMember(q, w, platform)
    PROVE  WsInv'
<1>1. member[w] \in MembershipRow
  BY WsTyped
<1>2. ASSUME NEW role \in {"member", "admin"}, AddMember(q, w, platform, role) PROVE WsInv'
  <2>1. wsOps < MaxWsOps /\ wsOps \in Nat
    BY <1>2, WsTyped DEF AddMember, Begin
  <2>2. PICK mem : mem = [role |-> role, id |-> wsOps + 1]
    OBVIOUS
  <2>3. mem \in MembershipRow /\ mem.role # "none"
    BY <2>1, <2>2, WorkspacesAssumption DEF MembershipRow
  <2> QED
    BY <1>2, <2>2, <2>3, MemberBegins DEF AddMember
<1>3. ASSUME NEW role \in {"member", "admin"}, UpdateMember(q, w, platform, role) PROVE WsInv'
  <2>1. PICK mem : mem = [role |-> role, id |-> member[w].id]
    OBVIOUS
  <2>2. mem \in MembershipRow /\ mem.role # "none"
    BY <1>1, <2>1 DEF MembershipRow
  <2> QED
    BY <1>3, <2>1, <2>2, MemberBegins DEF UpdateMember
<1>4. CASE RemoveMember(q, w, platform)
  BY <1>1, <1>4, MemberBegins DEF RemoveMember
<1> QED
  BY <1>2, <1>3, <1>4

LEMMA TeamBegins ==
    ASSUME WsInv, NEW q \in Reqs, NEW pc \in {"insert", "save", "remove"},
           NEW op \in {"team", "teamed", "node"},
           Begin(q, [Free EXCEPT !.pc = pc, !.op = op]),
           op = "team" /\ pc = "save" => team # "gone",
           op = "team" /\ pc = "remove" => ~assigned,
           op = "teamed" /\ pc = "insert" => team = "there" /\ member[Home].role # "none",
           op = "node" /\ pc = "insert" => team = "there"
    PROVE  WsInv'
<1>1. PICK r : r = [Free EXCEPT !.pc = pc, !.op = op]
  OBVIOUS
<1>2. r = [pc |-> pc, op |-> op, w |-> Home, ent |-> NoChange,
           makeDefault |-> FALSE, snap |-> {}, mem |-> Nobody]
  BY <1>1 DEF Free
<1>3. WsRequestOK(r) /\ WorkspaceSeen(r) /\ TeamSeen(r)
  BY <1>2, FreeOK, WorkspacesAssumption DEF WsRequestOK, WsRequests, WorkspaceSeen, TeamSeen
<1> QED
  BY <1>1, <1>3, BeginInv

LEMMA TeamRequestInv ==
    ASSUME WsInv, NEW q \in Reqs, NEW platform, TeamRequest(q, platform)
    PROVE  WsInv'
<1>1. CASE CreateTeam(q, platform)
  BY <1>1, TeamBegins DEF CreateTeam
<1>2. CASE UpdateTeam(q, platform)
  BY <1>2, TeamBegins DEF UpdateTeam
<1>3. CASE DeleteTeam(q, platform)
  BY <1>3, TeamBegins DEF DeleteTeam
<1>4. CASE AddTeamMember(q, platform)
  BY <1>4, TeamBegins DEF AddTeamMember
<1>5. CASE RemoveTeamMember(q, platform)
  BY <1>5, TeamBegins DEF RemoveTeamMember
<1>6. ASSUME NEW to \in BOOLEAN, UpdateTeamAssignment(q, platform, to) PROVE WsInv'
  <2>1. PICK pc : pc = IF to THEN "insert" ELSE "remove"
    OBVIOUS
  <2>2. pc \in {"insert", "remove"} /\ Begin(q, [Free EXCEPT !.pc = pc, !.op = "node"])
        /\ (pc = "insert" => team = "there")
    BY <1>6, <2>1 DEF UpdateTeamAssignment
  <2> QED
    BY <2>2, TeamBegins
<1> QED
  BY <1>1, <1>2, <1>3, <1>4, <1>5, <1>6 DEF TeamRequest

-----------------------------------------------------------------------------
(* Workspaces: statements.                                                   *)

LEMMA InUse ==
    ASSUME WsInv, NEW q \in Reqs, reqs[q].op # "none"
    PROVE  /\ reqs[q] # Free /\ reqs[q] \in WsRequests /\ reqs[q].w \in Ids
           /\ WsRequestOK(reqs[q]) /\ WsRequestOK(Free)
           /\ WorkspaceSeen(Free)' /\ TeamSeen(Free)'
           /\ ~overlap => /\ TablesAgree /\ WorkspaceSeen(reqs[q]) /\ TeamSeen(reqs[q])
<1>1. reqs[q] # Free /\ reqs[q] \in WsRequests /\ WsRequestOK(reqs[q])
  BY FreeOK, WsTyped
<1>2. reqs[q].w \in Ids
  BY <1>1 DEF WsRequests
<1>3. WorkspaceSeen(Free)' /\ TeamSeen(Free)'
  BY FreeOK DEF WorkspaceSeen, TeamSeen
<1> QED
  BY <1>1, <1>2, <1>3, FreeOK DEF WsInv, Alone, TablesAgree

LEMMA SelectWorkspaceInv ==
    ASSUME WsInv, NEW q \in Reqs, SelectWorkspace(q) PROVE WsInv'
<1>1. /\ reqs[q].pc = "select" /\ reqs[q].op = "workspace" /\ Quiet
      /\ UNCHANGED <<ws, member, team, teamed, assigned>> /\ legacy' = legacy
  BY DEF SelectWorkspace, tables, Quiet
<1>2. WsTypeOK' /\ Indexed' /\ (TablesAgree => TablesAgree')
  <2>1. boot' = boot /\ DOMAIN reqs' = Reqs
    BY DEF SelectWorkspace, Quiet, WsInv, WsTypeOK
  <2>2. WsTypeOK'
    BY <1>1, <2>1 DEF WsInv, WsTypeOK
  <2>3. Indexed' /\ (TablesAgree => TablesAgree')
    BY <1>1 DEF WsInv, Indexed, TablesAgree, Live, Defaults, Strays
  <2> QED BY <2>2, <2>3
<1> DEFINE r == reqs[q]
<1>3. /\ r # Free /\ r \in WsRequests /\ r.w \in Ids /\ WsRequestOK(r)
      /\ DOMAIN r.ent = WsColumns /\ r.ent \in Entities
  BY <1>1, InUse DEF WsRequestOK, WsRequests
<1>4. ws[r.w] \in WorkspaceRow
  BY <1>3, WsTyped
<1>5. CASE Live(r.w)
  <2>1. PICK ent : ent = [x \in {y \in WsColumns : r.ent[y] # ws[r.w][y]} |-> r.ent[x]]
    OBVIOUS
  <2>2. PICK n : n = [r EXCEPT !.pc = "update", !.ent = ent]
    OBVIOUS
  <2>3. reqs' = [reqs EXCEPT ![q] = n]
    BY <1>5, <2>1, <2>2, Zenon DEF SelectWorkspace
  <2>4. PICK S : S = {y \in WsColumns : r.ent[y] # ws[r.w][y]}
    OBVIOUS
  <2>5. ent \in [S -> BOOLEAN] /\ S \subseteq WsColumns
    <3>1. \A x \in WsColumns : r.ent[x] \in BOOLEAN
      BY <1>3 DEF Entities
    <3>2. ent = [x \in S |-> r.ent[x]] /\ S \subseteq WsColumns
      BY <2>1, <2>4
    <3> QED
      BY <3>1, <3>2, Zenon
  <2>6. ent \in Entities
    BY <2>5 DEF Entities
  <2>7. DOMAIN r = {"pc", "op", "w", "ent", "makeDefault", "snap", "mem"}
    BY <1>3 DEF WsRequests
  <2>8. /\ n.pc = "update" /\ n.op = r.op /\ n.w = r.w /\ n.ent = ent
        /\ n.makeDefault = r.makeDefault /\ n.mem = r.mem /\ n.snap = r.snap
        /\ n = [x \in {"pc", "op", "w", "ent", "makeDefault", "snap", "mem"} |-> n[x]]
    BY <2>2, <2>7, Zenon
  <2>9. WsRequestOK(n)
    BY <1>1, <1>3, <2>6, <2>8 DEF WsRequestOK, WsRequests
  <2>10. ASSUME ~overlap PROVE WorkspaceSeen(n)' /\ TeamSeen(n)'
    <3>1. r.ent["def"] = ws[r.w].def
      BY <1>1, <2>10, InUse DEF WorkspaceSeen
    <3>2. "def" \notin DOMAIN ent
      BY <3>1, <2>4, <2>5
    <3>3. WorkspaceSeen(n)'
      BY <1>1, <1>5, <2>8, <3>2 DEF WorkspaceSeen, Live
    <3>4. TeamSeen(n)'
      BY <1>1, <2>8 DEF TeamSeen
    <3> QED BY <3>3, <3>4
  <2>11. ~overlap => TablesAgree'
    BY <1>1, <1>2, InUse
  <2> QED
    BY <1>1, <1>2, <1>3, <2>3, <2>9, <2>10, <2>11, WsWriteInv
<1>6. CASE ~Live(r.w)
  <2>1. PICK n : n = [r EXCEPT !.pc = "insert"]
    OBVIOUS
  <2>2. reqs' = [reqs EXCEPT ![q] = n]
    BY <1>6, <2>1, Zenon DEF SelectWorkspace
  <2>3. /\ n \in WsRequests /\ n.pc = "insert" /\ n.op = r.op /\ n.ent = r.ent
        /\ n.mem = r.mem
    BY <1>3, <2>1, WsStep
  <2>4. WsRequestOK(n)
    BY <1>1, <1>3, <2>3 DEF WsRequestOK
  <2>5. overlap
    BY <1>1, <1>6, InUse DEF WorkspaceSeen
  <2> QED
    BY <1>1, <1>2, <1>3, <2>2, <2>4, <2>5, WsWriteInv
<1> QED
  BY <1>5, <1>6

\* The indexes of a table.
UniqueRows(table) ==
    \A v, w \in Ids :
        /\ table[v].st = "live" /\ table[w].st = "live"
        /\ \/ table[v].slug /\ table[w].slug
           \/ legacy /\ table[v].def /\ table[w].def
        => v = w

LEMMA AllowedRows == ASSUME NEW table, Allowed(table) PROVE UniqueRows(table)
<1> SUFFICES ASSUME NEW v \in Ids, NEW w \in Ids,
                    table[v].st = "live", table[w].st = "live",
                    (table[v].slug /\ table[w].slug) \/ (legacy /\ table[v].def /\ table[w].def)
             PROVE  v = w
  BY Zenon DEF UniqueRows
<1> QED
  BY Zenon DEF Allowed

LEMMA UniqueIndexed ==
    ASSUME UniqueRows(ws)', ws'[Home].st # "new", legacy' = legacy PROVE Indexed'
<1>1. ASSUME NEW v \in Ids, NEW w \in Ids, Live(v)', Live(w)', ws'[v].slug, ws'[w].slug
      PROVE  v = w
  BY <1>1, Zenon DEF UniqueRows, Live
<1>2. ASSUME legacy', NEW v \in Defaults', NEW w \in Defaults' PROVE v = w
  <2>1. v \in Ids /\ w \in Ids /\ Live(v)' /\ Live(w)' /\ ws'[v].def /\ ws'[w].def
    BY <1>2, Zenon DEF Defaults
  <2> QED
    BY <1>2, <2>1, Zenon DEF UniqueRows, Live
<1> QED
  BY <1>1, <1>2, Zenon DEF Indexed

LEMMA WsColumn ==
    ASSUME NEW row \in WorkspaceRow
    PROVE  /\ \A d \in BOOLEAN : LET n == [row EXCEPT !.def = d] IN
                /\ n \in WorkspaceRow /\ n.st = row.st /\ n.def = d /\ n.slug = row.slug
           /\ LET n == [row EXCEPT !.st = "gone"] IN
                n \in WorkspaceRow /\ n.st = "gone"
<1>1. /\ DOMAIN row = {"st", "arch", "def", "slug"}
      /\ row.st \in {"new", "live", "gone"}
      /\ row.arch \in BOOLEAN /\ row.def \in BOOLEAN /\ row.slug \in BOOLEAN
  BY DEF WorkspaceRow
<1>2. ASSUME NEW d \in BOOLEAN
      PROVE  LET n == [row EXCEPT !.def = d] IN
                /\ n \in WorkspaceRow /\ n.st = row.st /\ n.def = d /\ n.slug = row.slug
  <2>1. PICK n : n = [row EXCEPT !.def = d]
    OBVIOUS
  <2>2. /\ n.st = row.st /\ n.def = d /\ n.slug = row.slug /\ n.arch = row.arch
        /\ n = [x \in {"st", "arch", "def", "slug"} |-> n[x]]
    BY <1>1, <2>1, Zenon
  <2>3. n \in WorkspaceRow
    BY <1>1, <2>2 DEF WorkspaceRow
  <2> QED BY <2>1, <2>2, <2>3
<1>3. LET n == [row EXCEPT !.st = "gone"] IN n \in WorkspaceRow /\ n.st = "gone"
  <2>1. PICK n : n = [row EXCEPT !.st = "gone"]
    OBVIOUS
  <2>2. /\ n.st = "gone" /\ n.def = row.def /\ n.slug = row.slug /\ n.arch = row.arch
        /\ n = [x \in {"st", "arch", "def", "slug"} |-> n[x]]
    BY <1>1, <2>1, Zenon
  <2>3. n \in WorkspaceRow
    BY <1>1, <2>2 DEF WorkspaceRow
  <2> QED BY <2>1, <2>2, <2>3
<1> QED BY <1>2, <1>3

\* What an INSERT or an UPDATE leaves in a row of workspaces.
LEMMA WorkspaceOver ==
    ASSUME NEW ent \in Entities, NEW row \in WorkspaceRow
    PROVE  /\ Over(ent, row) \in WorkspaceRow /\ Over(ent, row).st = row.st
           /\ "def" \notin DOMAIN ent => Over(ent, row).def = row.def
           /\ "def" \in DOMAIN ent => Over(ent, row).def = ent["def"]
<1>1. /\ DOMAIN row = {"st", "arch", "def", "slug"}
      /\ row.st \in {"new", "live", "gone"}
      /\ row.arch \in BOOLEAN /\ row.def \in BOOLEAN /\ row.slug \in BOOLEAN
  BY DEF WorkspaceRow
<1>2. DOMAIN ent \subseteq {"arch", "def", "slug"} /\ \A x \in DOMAIN ent : ent[x] \in BOOLEAN
  BY AsksDto DEF WsColumns
<1>3. PICK n : n = Over(ent, row)
  OBVIOUS
<1>4. DOMAIN ent \cup DOMAIN row = {"st", "arch", "def", "slug"}
  BY <1>1, <1>2
<1>5. n = [x \in {"st", "arch", "def", "slug"} |-> IF x \in DOMAIN ent THEN ent[x] ELSE row[x]]
  BY <1>3, <1>4 DEF Over
<1>6. n = [x \in {"st", "arch", "def", "slug"} |-> n[x]]
  BY <1>5, Zenon
<1>7. \A x \in {"st", "arch", "def", "slug"} :
         n[x] = IF x \in DOMAIN ent THEN ent[x] ELSE row[x]
  BY <1>5, Zenon
<1>8. n["st"] = row.st
  BY <1>2, <1>7
<1>9. \A x \in {"arch", "def", "slug"} : n[x] \in BOOLEAN
  BY <1>1, <1>2, <1>7, Zenon
<1>10. n \in WorkspaceRow
  BY <1>1, <1>6, <1>8, <1>9 DEF WorkspaceRow
<1> QED
  BY <1>3, <1>7, <1>8, <1>10

LEMMA LiveRow ==
    LET row == [Absent EXCEPT !.st = "live"] IN row \in WorkspaceRow /\ row.st = "live"
BY DEF Absent, WorkspaceRow

LEMMA WriteWorkspaceInv ==
    ASSUME WsInv, NEW q \in Reqs, WriteWorkspace(q) PROVE WsInv'
<1> DEFINE r == reqs[q]
<1>1. /\ r.pc \in {"insert", "update"} /\ r.op = "workspace" /\ Quiet
      /\ UNCHANGED <<member, team, teamed, assigned>> /\ legacy' = legacy
  BY DEF WriteWorkspace, Quiet
<1>2. /\ r # Free /\ r \in WsRequests /\ r.w \in Ids /\ WsRequestOK(r) /\ r.ent \in Entities
      /\ r.pc = "insert" => DOMAIN r.ent = WsColumns
  BY <1>1, InUse DEF WsRequestOK, WsRequests
<1>3. ws \in [Ids -> WorkspaceRow] /\ ws[r.w] \in WorkspaceRow
  BY <1>2, WsTyped
<1>4. PICK row \in WorkspaceRow :
         /\ IF r.pc = "insert" THEN row = Over(r.ent, [Absent EXCEPT !.st = "live"])
            ELSE IF Live(r.w) THEN row = Over(r.ent, ws[r.w])
            ELSE row = ws[r.w]
  BY <1>2, <1>3, WorkspaceOver, LiveRow, Zenon
<1>5. /\ r.pc = "insert" => row.st = "live" /\ row.def = r.ent["def"]
      /\ r.pc = "update" => row.st = ws[r.w].st
      /\ r.pc = "update" /\ "def" \notin DOMAIN r.ent => row.def = ws[r.w].def
  <2>1. CASE r.pc = "insert"
    <3>1. row = Over(r.ent, [Absent EXCEPT !.st = "live"]) /\ "def" \in DOMAIN r.ent
      BY <1>2, <1>4, <2>1 DEF WsColumns
    <3> QED
      BY <1>2, <2>1, <3>1, WorkspaceOver, LiveRow
  <2>2. CASE r.pc # "insert"
    BY <1>2, <1>3, <1>4, <2>2, WorkspaceOver
  <2> QED
    BY <2>1, <2>2
<1>6. PICK next : next = [ws EXCEPT ![r.w] = row]
  OBVIOUS
<1>7. /\ \/ ws' = next /\ Allowed(next)
            /\ reqs' = [reqs EXCEPT ![q] = IF r.makeDefault THEN [r EXCEPT !.pc = "clear"]
                                           ELSE Free]
         \/ ws' = ws /\ reqs' = [reqs EXCEPT ![q] = Free]
  <2>1. next = IF r.pc = "insert"
               THEN [ws EXCEPT ![r.w] = Over(r.ent, [Absent EXCEPT !.st = "live"])]
               ELSE IF Live(r.w) THEN [ws EXCEPT ![r.w] = Over(r.ent, @)]
               ELSE ws
    <3>1. CASE r.pc = "insert"
      BY <1>4, <1>6, <3>1
    <3>2. CASE r.pc # "insert" /\ Live(r.w)
      BY <1>4, <1>6, <3>2
    <3>3. CASE r.pc # "insert" /\ ~Live(r.w)
      BY <1>2, <1>3, <1>4, <1>6, <3>3
    <3> QED
      BY <3>1, <3>2, <3>3
  <2>2. IF Allowed(next)
        THEN /\ ws' = next
             /\ IF r.makeDefault THEN reqs' = [reqs EXCEPT ![q].pc = "clear"]
                ELSE reqs' = [reqs EXCEPT ![q] = Free]
        ELSE ws' = ws /\ reqs' = [reqs EXCEPT ![q] = Free]
    BY <2>1, Zenon DEF WriteWorkspace, WsEnd
  <2> QED
    BY <2>2, Zenon
<1>8. PICK n : /\ reqs' = [reqs EXCEPT ![q] = n]
               /\ \/ n = Free
                  \/ n = [r EXCEPT !.pc = "clear"] /\ ws' = next
  BY <1>7
<1>9. /\ WsRequestOK(n)
      /\ \/ n = Free
         \/ n.pc = "clear" /\ n.op = "workspace" /\ n.w = r.w /\ ws' = next
  <2>1. CASE n = Free
    BY <2>1, FreeOK
  <2>2. CASE n = [r EXCEPT !.pc = "clear"] /\ ws' = next
    BY <1>1, <1>2, <2>2, WsStep DEF WsRequestOK
  <2> QED BY <1>8, <2>1, <2>2
<1>10. WsTypeOK'
  <2>1. ws' \in [Ids -> WorkspaceRow]
    BY <1>2, <1>3, <1>6, <1>7
  <2>2. boot' = boot /\ DOMAIN reqs' = Reqs
    BY <1>1, <1>8 DEF Quiet, WsInv, WsTypeOK
  <2> QED
    BY <1>1, <2>1, <2>2 DEF WsInv, WsTypeOK
<1>11. CASE ws' = ws
  <2>1. Indexed' /\ (TablesAgree => TablesAgree')
    BY <1>1, <1>11 DEF WsInv, Indexed, TablesAgree, Live, Defaults, Strays
  <2>2. ASSUME ~overlap PROVE WorkspaceSeen(n)' /\ TeamSeen(n)'
    <3>1. CASE n = Free
      BY <1>1, <1>2, <3>1, InUse
    <3>2. CASE n.pc = "clear" /\ n.op = "workspace" /\ n.w = r.w /\ ws' = next
      <4>1. row = ws[r.w]
        BY <1>2, <1>3, <1>6, <1>11, <3>2
      <4>2. Live(r.w)
        BY <1>1, <1>2, <1>5, <2>2, <4>1, InUse DEF WorkspaceSeen, Live
      <4> QED
        BY <1>11, <3>2, <4>2 DEF WorkspaceSeen, TeamSeen, Live
    <3> QED BY <1>9, <3>1, <3>2
  <2>3. ~overlap => TablesAgree'
    BY <1>1, <2>1, InUse
  <2> QED
    BY <1>1, <1>2, <1>8, <1>9, <1>10, <2>1, <2>2, <2>3, WsWriteInv
<1>12. CASE ws' = next /\ Allowed(next)
  <2>1. \A v \in Ids : ws'[v] = IF v = r.w THEN row ELSE ws[v]
    BY <1>2, <1>3, <1>6, <1>12
  <2>2. Indexed'
    <3>1. UniqueRows(ws)'
      <4>1. UniqueRows(next)
        BY <1>12, AllowedRows
      <4> QED
        BY <1>1, <1>12, <4>1 DEF UniqueRows
    <3>2. ws'[Home].st # "new"
      BY <1>1, <1>5, <2>1, WsTyped DEF WsInv, Indexed
    <3> QED
      BY <1>1, <3>1, <3>2, UniqueIndexed
  <2>3. ASSUME ~overlap
        PROVE  /\ ws'[r.w].st = "live"
               /\ \A v \in Ids : Live(v)' /\ ws'[v].def <=> Live(v) /\ ws[v].def
               /\ Live(Home)' <=> Live(Home)
    <3>1. r.pc = "insert" => ws[r.w].st = "new" /\ ~r.ent["def"]
      BY <1>1, <2>3, InUse DEF WorkspaceSeen
    <3>2. r.pc = "update" => Live(r.w) /\ "def" \notin DOMAIN r.ent
      BY <1>1, <2>3, InUse DEF WorkspaceSeen
    <3>3. CASE r.pc = "insert"
      <4>1. ws[Home].st # "new" /\ row.st = "live" /\ ~row.def
        BY <1>5, <3>1, <3>3 DEF WsInv, Indexed
      <4> QED
        BY <1>2, <2>1, <3>1, <3>3, <4>1, WsTyped DEF Live
    <3>4. CASE r.pc = "update"
      <4>1. row.st = "live" /\ ws[r.w].st = "live" /\ row.def = ws[r.w].def
        BY <1>5, <3>2, <3>4 DEF Live
      <4> QED
        BY <1>2, <2>1, <4>1, WsTyped DEF Live
    <3> QED BY <1>1, <3>3, <3>4
  <2>4. ASSUME ~overlap PROVE TablesAgree' /\ WorkspaceSeen(n)' /\ TeamSeen(n)'
    <3>1. Defaults' = Defaults
      BY <2>3, <2>4 DEF Defaults
    <3>2. TablesAgree
      BY <1>1, <2>4, InUse
    <3>3. TablesAgree'
      BY <1>1, <2>3, <2>4, <3>1, <3>2 DEF TablesAgree, Strays
    <3>4. WorkspaceSeen(n)' /\ TeamSeen(n)'
      <4>1. CASE n = Free
        BY <1>1, <4>1, InUse
      <4>2. CASE n.pc = "clear" /\ n.op = "workspace" /\ n.w = r.w
        BY <2>3, <2>4, <4>2 DEF WorkspaceSeen, TeamSeen, Live
      <4> QED BY <1>9, <4>1, <4>2
    <3> QED BY <3>3, <3>4
  <2> QED
    BY <1>1, <1>2, <1>8, <1>9, <1>10, <2>2, <2>4, WsWriteInv
<1> QED
  BY <1>7, <1>11, <1>12

LEMMA ClearDefaultInv ==
    ASSUME WsInv, NEW q \in Reqs, ClearDefault(q) PROVE WsInv'
<1> DEFINE r == reqs[q]
<1>1. /\ r.pc = "clear" /\ Quiet
      /\ UNCHANGED <<ws, member, team, teamed, assigned>> /\ legacy' = legacy
  BY DEF ClearDefault, tables, Quiet
<1>2. r # Free /\ r \in WsRequests /\ WsRequestOK(r)
  BY <1>1, FreeOK, WsTyped
<1>3. PICK n : n = [r EXCEPT !.pc = "set", !.snap = Defaults]
  OBVIOUS
<1>4. reqs' = [reqs EXCEPT ![q] = n]
  BY <1>3 DEF ClearDefault, WsInv
<1>5. DOMAIN r = {"pc", "op", "w", "ent", "makeDefault", "snap", "mem"}
  BY <1>2 DEF WsRequests
<1>6. /\ n.pc = "set" /\ n.op = r.op /\ n.w = r.w /\ n.ent = r.ent
      /\ n.makeDefault = r.makeDefault /\ n.mem = r.mem /\ n.snap = Defaults
      /\ n = [x \in {"pc", "op", "w", "ent", "makeDefault", "snap", "mem"} |-> n[x]]
  BY <1>3, <1>5, Zenon
<1>7. Defaults \subseteq Ids /\ Defaults' = Defaults
  BY <1>1 DEF Defaults, Live
<1>8. WsRequestOK(n)
  <2>1. n \in WsRequests
    BY <1>2, <1>6, <1>7 DEF WsRequests
  <2> QED
    BY <1>1, <1>2, <1>6, <2>1 DEF WsRequestOK
<1>9. WsTypeOK' /\ Indexed' /\ (TablesAgree => TablesAgree')
  <2>1. boot' = boot /\ DOMAIN reqs' = Reqs
    BY <1>4 DEF ClearDefault, Quiet, WsInv, WsTypeOK
  <2>2. WsTypeOK'
    BY <1>1, <2>1 DEF WsInv, WsTypeOK
  <2>3. Indexed' /\ (TablesAgree => TablesAgree')
    BY <1>1 DEF WsInv, Indexed, TablesAgree, Live, Defaults, Strays
  <2> QED BY <2>2, <2>3
<1>10. ASSUME ~overlap PROVE TablesAgree' /\ WorkspaceSeen(n)' /\ TeamSeen(n)'
  <2>1. TablesAgree /\ WorkspaceSeen(r)
    BY <1>10 DEF WsInv, Alone, TablesAgree
  <2>2. WorkspaceSeen(n)' /\ TeamSeen(n)'
    BY <1>1, <1>6, <1>7, <2>1 DEF WorkspaceSeen, TeamSeen, Live
  <2> QED BY <1>9, <2>1, <2>2
<1> QED
  BY <1>1, <1>2, <1>4, <1>8, <1>9, <1>10, WsWriteInv

LEMMA SetDefaultWorkspaceInv ==
    ASSUME WsInv, NEW q \in Reqs, SetDefaultWorkspace(q) PROVE WsInv'
<1> DEFINE r == reqs[q]
<1>1. /\ r.pc = "set" /\ Quiet /\ reqs' = [reqs EXCEPT ![q] = Free]
      /\ UNCHANGED <<member, team, teamed, assigned>> /\ legacy' = legacy
      /\ boot' = boot
  BY DEF SetDefaultWorkspace, WsEnd, Quiet
<1>2. r # Free /\ r \in WsRequests /\ WsRequestOK(r) /\ r.w \in Ids
  <2>1. r # Free /\ r \in WsRequests /\ WsRequestOK(r)
    BY <1>1, FreeOK, WsTyped
  <2> QED BY <2>1 DEF WsRequests
<1>3. PICK next : next = [w \in Ids |->
                            IF w = r.w /\ Live(w) THEN [ws[w] EXCEPT !.def = TRUE]
                            ELSE IF w \in r.snap THEN [ws[w] EXCEPT !.def = FALSE]
                            ELSE ws[w]]
  OBVIOUS
<1>4. (ws' = next /\ Allowed(next)) \/ ws' = ws
  BY <1>3 DEF SetDefaultWorkspace
<1>5. \A w \in Ids : /\ next[w] \in WorkspaceRow /\ next[w].st = ws[w].st
                     /\ next[w].def <=> \/ w = r.w /\ Live(w)
                                        \/ w \notin r.snap /\ ws[w].def
  <2> SUFFICES ASSUME NEW w \in Ids
               PROVE  /\ next[w] \in WorkspaceRow /\ next[w].st = ws[w].st
                      /\ next[w].def <=> \/ w = r.w /\ Live(w)
                                         \/ w \notin r.snap /\ ws[w].def
    OBVIOUS
  <2>1. ws[w] \in WorkspaceRow
    BY WsTyped
  <2>2. \A d \in BOOLEAN : LET n == [ws[w] EXCEPT !.def = d] IN
           n \in WorkspaceRow /\ n.st = ws[w].st /\ n.def = d
    BY <2>1, WsColumn
  <2>3. CASE w = r.w /\ Live(w)
    BY <1>3, <2>2, <2>3
  <2>4. CASE ~(w = r.w /\ Live(w)) /\ w \in r.snap
    BY <1>3, <2>2, <2>4
  <2>5. CASE ~(w = r.w /\ Live(w)) /\ w \notin r.snap
    BY <1>3, <2>1, <2>5
  <2> QED BY <2>3, <2>4, <2>5
<1>6. WsTypeOK' /\ Indexed'
  <2>1. DOMAIN reqs' = Reqs
    BY <1>1 DEF WsInv, WsTypeOK
  <2>2. ws' \in [Ids -> WorkspaceRow]
    BY <1>3, <1>4, <1>5, WsTyped
  <2>3. WsTypeOK'
    BY <1>1, <2>1, <2>2 DEF WsInv, WsTypeOK
  <2>4. CASE ws' = ws
    BY <1>1, <2>3, <2>4 DEF WsInv, Indexed, Live, Defaults
  <2>5. CASE ws' = next /\ Allowed(next)
    <3>1. UniqueRows(ws)'
      <4>1. UniqueRows(next)
        BY <2>5, AllowedRows
      <4> QED
        BY <1>1, <2>5, <4>1 DEF UniqueRows
    <3>2. ws'[Home].st # "new"
      BY <1>5, <2>5, WsTyped DEF WsInv, Indexed
    <3> QED
      BY <1>1, <2>3, <3>1, <3>2, UniqueIndexed
  <2> QED BY <1>4, <2>4, <2>5
<1>7. ASSUME ~overlap PROVE TablesAgree' /\ WorkspaceSeen(Free)' /\ TeamSeen(Free)'
  <2>1. TablesAgree /\ Live(r.w) /\ r.snap = Defaults
    BY <1>1, <1>2, <1>7 DEF WsInv, Alone, TablesAgree, WorkspaceSeen, WsRequestOK
  <2>2. WorkspaceSeen(Free)' /\ TeamSeen(Free)'
    BY FreeOK DEF WorkspaceSeen, TeamSeen
  <2>3. Live(Home)' <=> Live(Home)
    BY <1>4, <1>5, WsTyped DEF Live
  <2>4. \E w \in Ids : Defaults' = {w}
    <3>1. CASE ws' = ws
      BY <2>1, <3>1 DEF TablesAgree, Defaults, Live
    <3>2. CASE ws' = next
      <4>1. Defaults' = {r.w}
        BY <1>2, <1>5, <2>1, <3>2 DEF Defaults, Live
      <4> QED BY <1>2, <4>1
    <3> QED BY <1>4, <3>1, <3>2
  <2> QED
    BY <1>1, <2>1, <2>2, <2>3, <2>4 DEF TablesAgree, Strays
<1> QED
  BY <1>1, <1>2, <1>6, <1>7, FreeOK, WsWriteInv

LEMMA RemoveWorkspaceInv ==
    ASSUME WsInv, NEW q \in Reqs, RemoveWorkspace(q) PROVE WsInv'
<1>1. PICK w \in Ids : w = reqs[q].w
  BY InUse DEF RemoveWorkspace
<1>2. /\ reqs[q].pc = "remove" /\ reqs[q].op = "workspace"
      /\ Quiet /\ reqs' = [reqs EXCEPT ![q] = Free] /\ legacy' = legacy /\ boot' = boot
      /\ ws' = [ws EXCEPT ![w].st = "gone"]
      /\ member' = [member EXCEPT ![w].role = "none"]
      /\ team' = IF legacy /\ w = Home THEN "gone" ELSE team
      /\ teamed' = (teamed /\ ~(legacy /\ w = Home))
      /\ assigned' = (assigned /\ ~(legacy /\ w = Home))
  BY <1>1, Zenon DEF RemoveWorkspace, WsEnd, Quiet
<1>3. /\ reqs[q] # Free /\ WsRequestOK(Free) /\ WorkspaceSeen(Free)' /\ TeamSeen(Free)'
  BY <1>2, InUse
<1>4. /\ teamed' \in BOOLEAN /\ assigned' \in BOOLEAN
      /\ teamed' <=> teamed /\ ~(legacy /\ w = Home)
      /\ assigned' <=> assigned /\ ~(legacy /\ w = Home)
  BY <1>2, Zenon
<1>5. /\ ws' \in [Ids -> WorkspaceRow] /\ ws'[w].st = "gone"
      /\ \A v \in Ids : v # w => ws'[v] = ws[v]
  <2>1. PICK row : row = [ws[w] EXCEPT !.st = "gone"]
    OBVIOUS
  <2>2. row \in WorkspaceRow /\ row.st = "gone" /\ ws' = [ws EXCEPT ![w] = row]
    BY <1>2, <2>1, WsTyped, WsColumn
  <2> QED
    BY <2>2, WsTyped
<1>6. /\ member' \in [Ids -> MembershipRow]
      /\ \A v \in Ids : v # w => member'[v] = member[v]
  <2>1. member[w] \in MembershipRow
    BY WsTyped
  <2>2. PICK row : row = [member[w] EXCEPT !.role = "none"]
    OBVIOUS
  <2>3. row \in MembershipRow
    BY <2>1, <2>2 DEF MembershipRow
  <2>4. member' = [member EXCEPT ![w] = row]
    BY <1>2, <2>2
  <2> QED
    BY <2>3, <2>4, WsTyped
<1>7. WsTypeOK'
  <2>1. DOMAIN reqs' = Reqs
    BY <1>2 DEF WsInv, WsTypeOK
  <2> QED
    BY <1>2, <1>4, <1>5, <1>6, <2>1 DEF WsInv, WsTypeOK
<1>8. Defaults' = Defaults \ {w} /\ \A v \in Ids : Live(v)' <=> Live(v) /\ v # w
  BY <1>5 DEF Defaults, Live
<1>9. Indexed'
  <2>1. \A v \in Ids : Live(v)' => ws'[v] = ws[v] /\ Live(v)
    BY <1>5, <1>8
  <2>2. ws'[Home].st # "new"
    BY <1>5, WsTyped DEF WsInv, Indexed
  <2> QED
    BY <1>2, <1>8, <2>1, <2>2 DEF WsInv, Indexed
<1>10. ASSUME ~overlap PROVE TablesAgree'
  <2>1. TablesAgree /\ ~ws[w].def
    BY <1>1, <1>2, <1>10, InUse DEF WorkspaceSeen
  <2>2. Defaults' = Defaults
    BY <1>8, <2>1 DEF Defaults
  <2>3. (team' = "new" => ~teamed' /\ ~assigned')
    BY <1>2, <1>4, <2>1 DEF TablesAgree
  <2>4. ~Strays' /\ (assigned' /\ Live(Home)' => team' = "there")
    <3>1. CASE w = Home
      BY <1>8, <3>1, WsTyped DEF Strays
    <3>2. CASE w # Home
      BY <1>2, <1>4, <1>6, <1>8, <2>1, <3>2, WsTyped DEF TablesAgree, Strays
    <3> QED BY <3>1, <3>2
  <2> QED
    BY <2>1, <2>2, <2>3, <2>4 DEF TablesAgree
<1> QED
  BY <1>2, <1>3, <1>7, <1>9, <1>10, WsWriteInv

\* Statements that end a request and leave workspaces alone.
LEMMA SmallWriteInv ==
    ASSUME WsInv, NEW q \in Reqs, reqs[q].op # "none", WsEnd(q), Quiet, ws' = ws,
           member' \in [Ids -> MembershipRow], team' \in {"new", "there", "gone"},
           teamed' \in BOOLEAN, assigned' \in BOOLEAN,
           ~overlap => /\ team' = "new" => ~teamed' /\ ~assigned'
                       /\ ~Strays'
                       /\ assigned' /\ Live(Home) => team' = "there"
    PROVE  WsInv'
<1>1. /\ reqs' = [reqs EXCEPT ![q] = Free] /\ legacy' = legacy /\ boot' = boot
  BY DEF WsEnd, Quiet
<1>2. /\ reqs[q] # Free /\ WsRequestOK(Free) /\ WorkspaceSeen(Free)' /\ TeamSeen(Free)'
  BY InUse
<1>3. WsTypeOK'
  <2>1. DOMAIN reqs' = Reqs
    BY <1>1 DEF WsInv, WsTypeOK
  <2> QED
    BY <1>1, <2>1 DEF WsInv, WsTypeOK
<1>4. Indexed' /\ Defaults' = Defaults /\ (Live(Home)' <=> Live(Home))
  BY <1>1 DEF WsInv, Indexed, Live, Defaults
<1>5. ASSUME ~overlap PROVE TablesAgree'
  <2>1. TablesAgree
    BY <1>5, InUse
  <2> QED
    BY <1>4, <1>5, <2>1 DEF TablesAgree
<1> QED
  BY <1>1, <1>2, <1>3, <1>4, <1>5, WsWriteInv

LEMMA WriteMemberInv ==
    ASSUME WsInv, NEW q \in Reqs, WriteMember(q) PROVE WsInv'
<1> DEFINE r == reqs[q]
<1>1. /\ r.op = "member" /\ WsEnd(q) /\ Quiet
      /\ UNCHANGED <<ws, team, teamed, assigned>>
      /\ member' = [member EXCEPT ![r.w] = r.mem] \/ member' = member
  BY Zenon DEF WriteMember
<1>2. r.mem \in MembershipRow /\ r.w \in Ids /\ r.mem.role # "none"
  BY <1>1, InUse DEF WsRequestOK, WsRequests
<1>3. /\ member' \in [Ids -> MembershipRow]
      /\ \A v \in Ids : member[v].role # "none" => member'[v].role # "none"
  BY <1>1, <1>2, WsTyped
<1>4. ~overlap => TablesAgree
  BY <1>1, InUse
<1> QED
  BY <1>1, <1>3, <1>4, WsTyped, SmallWriteInv DEF TablesAgree, Strays, Live

LEMMA DropMemberInv ==
    ASSUME WsInv, NEW q \in Reqs, DropMember(q) PROVE WsInv'
<1> DEFINE r == reqs[q]
<1>1. PICK found \in BOOLEAN : found = (member[r.w].role # "none" /\ member[r.w].id = r.mem.id)
  <2>1. (member[r.w].role # "none" /\ member[r.w].id = r.mem.id) \in BOOLEAN
    OBVIOUS
  <2> QED BY <2>1, Zenon
<1>2. /\ r.op = "member" /\ WsEnd(q) /\ Quiet
      /\ UNCHANGED <<ws, team, assigned>>
      /\ member' = IF found THEN [member EXCEPT ![r.w].role = "none"] ELSE member
      /\ teamed' = (teamed /\ ~(found /\ r.w = Home /\ team = "there"))
  BY <1>1, Zenon DEF DropMember
<1>3. /\ teamed' \in BOOLEAN
      /\ teamed' <=> teamed /\ ~(found /\ r.w = Home /\ team = "there")
  BY <1>2, Zenon
<1>4. r.w \in Ids
  BY <1>2, InUse
<1>5. /\ member' \in [Ids -> MembershipRow]
      /\ \A v \in Ids : ~found \/ v # r.w => member'[v] = member[v]
  <2>1. member[r.w] \in MembershipRow
    BY <1>4, WsTyped
  <2>2. PICK row : row = [member[r.w] EXCEPT !.role = "none"]
    OBVIOUS
  <2>3. row \in MembershipRow
    BY <2>1, <2>2 DEF MembershipRow
  <2>4. member' = [member EXCEPT ![r.w] = row] \/ (~found /\ member' = member)
    BY <1>2, <2>2
  <2>5. member' \in [Ids -> MembershipRow]
    BY <1>4, <2>3, <2>4, WsTyped
  <2>6. ASSUME NEW v \in Ids, ~found \/ v # r.w PROVE member'[v] = member[v]
    <3>1. CASE ~found
      BY <1>2, <3>1
    <3>2. CASE v # r.w
      BY <2>4, <3>2, WsTyped
    <3> QED BY <2>6, <3>1, <3>2
  <2> QED
    BY <2>5, <2>6
<1>6. ~overlap => TablesAgree
  BY <1>2, InUse
<1>7. ~overlap => /\ team' = "new" => ~teamed' /\ ~assigned'
                  /\ ~Strays'
                  /\ assigned' /\ Live(Home) => team' = "there"
  <2>1. CASE found /\ r.w = Home
    BY <1>2, <1>3, <1>6, <2>1 DEF TablesAgree, Strays
  <2>2. CASE ~(found /\ r.w = Home)
    <3>1. member'[Home] = member[Home] /\ Live(Home)' = Live(Home)
      BY <1>2, <1>5, <2>2, WsTyped DEF Live
    <3> QED
      BY <1>2, <1>3, <1>6, <3>1 DEF TablesAgree, Strays
  <2> QED BY <2>1, <2>2
<1> QED
  BY <1>2, <1>3, <1>5, <1>7, WsTyped, SmallWriteInv

LEMMA WriteTeamInv ==
    ASSUME WsInv, NEW q \in Reqs, WriteTeam(q) PROVE WsInv'
<1>1. /\ reqs[q].op = "team" /\ reqs[q].pc = "save" /\ WsEnd(q) /\ Quiet
      /\ team' \in {team, "there"} /\ UNCHANGED <<ws, member, teamed, assigned>>
  BY DEF WriteTeam
<1>2. ~overlap => TablesAgree /\ team # "gone"
  BY <1>1, InUse DEF TeamSeen
<1>3. ~overlap => /\ team' = "new" => ~teamed' /\ ~assigned'
                  /\ ~Strays'
                  /\ assigned' /\ Live(Home) => team' = "there"
  BY <1>1, <1>2, WsTyped DEF TablesAgree, Strays, Live
<1> QED
  BY <1>1, <1>3, WsTyped, SmallWriteInv

LEMMA RemoveTeamInv ==
    ASSUME WsInv, NEW q \in Reqs, RemoveTeam(q) PROVE WsInv'
<1>1. /\ reqs[q].op = "team" /\ reqs[q].pc = "remove" /\ WsEnd(q) /\ Quiet
      /\ team' = "gone" /\ UNCHANGED <<ws, member>>
  BY DEF RemoveTeam
<1>2. /\ teamed' \in BOOLEAN /\ assigned' \in BOOLEAN /\ (assigned' => assigned)
  BY Zenon DEF RemoveTeam
<1>3. ~overlap => ~assigned
  BY <1>1, InUse DEF TeamSeen
<1> QED
  BY <1>1, <1>2, <1>3, WsTyped, SmallWriteInv DEF Strays

LEMMA WriteTeamMemberInv ==
    ASSUME WsInv, NEW q \in Reqs, WriteTeamMember(q) PROVE WsInv'
<1>1. /\ reqs[q].op = "teamed" /\ WsEnd(q) /\ Quiet
      /\ UNCHANGED <<ws, member, team, assigned>>
  BY DEF WriteTeamMember
<1>2. teamed' \in BOOLEAN /\ (reqs[q].pc # "insert" => ~teamed')
  BY Zenon DEF WriteTeamMember
<1>3. ~overlap => TablesAgree
  BY <1>1, InUse
<1>4. ~overlap /\ reqs[q].pc = "insert" => team = "there" /\ member[Home].role # "none"
  BY <1>1, InUse DEF TeamSeen
<1>5. ~overlap => /\ team' = "new" => ~teamed' /\ ~assigned'
                  /\ ~Strays'
                  /\ assigned' /\ Live(Home) => team' = "there"
  BY <1>1, <1>2, <1>3, <1>4 DEF TablesAgree, Strays
<1> QED
  BY <1>1, <1>2, <1>5, WsTyped, SmallWriteInv

LEMMA WriteNodeInv ==
    ASSUME WsInv, NEW q \in Reqs, WriteNode(q) PROVE WsInv'
<1>1. /\ reqs[q].op = "node" /\ WsEnd(q) /\ Quiet
      /\ UNCHANGED <<ws, member, team, teamed>>
  BY DEF WriteNode
<1>2. /\ assigned' \in BOOLEAN /\ (assigned' => assigned \/ reqs[q].pc = "insert")
  BY WsTyped, Zenon DEF WriteNode
<1>3. ~overlap => TablesAgree
  BY <1>1, InUse
<1>4. ~overlap /\ reqs[q].pc = "insert" => team = "there"
  BY <1>1, InUse DEF TeamSeen
<1>5. ~overlap => /\ team' = "new" => ~teamed' /\ ~assigned'
                  /\ ~Strays'
                  /\ assigned' /\ Live(Home) => team' = "there"
  BY <1>1, <1>2, <1>3, <1>4 DEF TablesAgree, Strays, Live
<1> QED
  BY <1>1, <1>2, <1>5, WsTyped, SmallWriteInv

-----------------------------------------------------------------------------
(* Workspaces: restarts and the data bootstrap.                              *)

LEMMA RestartApiInv == ASSUME WsInv, RestartApi PROVE WsInv'
<1>1. /\ restarts < MaxRestarts /\ restarts' = restarts + 1
      /\ reqs' = [q \in Reqs |-> Free]
      /\ boot' = IF legacy THEN "workspace" ELSE "up"
      /\ UNCHANGED <<legacy, ws, member, team, teamed, assigned, overlap, wsOps>>
  BY DEF RestartApi, tables
<1>2. /\ WsTypeOK' /\ Indexed'
  <2>1. WsTypeOK'
    BY <1>1, WsTyped DEF WsInv, WsTypeOK
  <2>2. Indexed'
    BY <1>1 DEF WsInv, Indexed, Live, Defaults
  <2> QED BY <2>1, <2>2
<1>3. restarts' \in 0 .. MaxRestarts
  BY <1>1, WorkspacesAssumption DEF WsInv
<1>4. reqs' \in [Reqs -> WsRequests] /\ \A q \in Reqs : WsRequestOK(reqs'[q]) /\ reqs'[q] = Free
  BY <1>1, FreeOK
<1>5. BootOK'
  BY <1>1, <1>4 DEF BootOK
<1>6. ASSUME ~overlap' PROVE Alone'
  <2>1. TablesAgree
    BY <1>1, <1>6 DEF WsInv, Alone, TablesAgree
  <2>2. TablesAgree'
    BY <1>1, <2>1 DEF TablesAgree, Strays, Live, Defaults
  <2>3. WorkspaceSeen(Free)' /\ TeamSeen(Free)'
    BY FreeOK DEF WorkspaceSeen, TeamSeen
  <2> QED
    BY <1>4, <2>2, <2>3 DEF Alone, TablesAgree
<1> QED
  BY <1>1, <1>2, <1>3, <1>4, <1>5, <1>6 DEF WsInv

\* A step of the data bootstrap: no request is in progress.
LEMMA BootInv ==
    ASSUME WsInv, NEW from \in {"workspace", "flag", "members", "teams"},
           NEW to \in {"flag", "members", "teams", "up"}, Boot(from, to),
           ws' \in [Ids -> WorkspaceRow], member' \in [Ids -> MembershipRow],
           teamed' \in BOOLEAN, UNCHANGED <<team, assigned>>, Indexed',
           to = "flag" => (\E w \in Ids : Live(w) /\ (ws[w].def \/ ws[w].slug))',
           to \in {"members", "teams"} => HasDefaultWorkspace',
           ~overlap => TablesAgree'
    PROVE  WsInv'
<1>1. /\ boot = from /\ boot' = to /\ UNCHANGED <<legacy, reqs, overlap, wsOps, restarts>>
  BY DEF Boot
<1>2. legacy /\ \A q \in Reqs : reqs[q] = Free
  BY <1>1 DEF WsInv, BootOK
<1>3. WsTypeOK' /\ BootOK'
  BY <1>1, <1>2, WsTyped DEF WsInv, WsTypeOK, BootOK
<1>4. \A q \in Reqs : WsRequestOK(reqs'[q]) /\ reqs'[q] = Free
  BY <1>1, <1>2, FreeOK
<1>5. ASSUME ~overlap' PROVE Alone'
  <2>1. WorkspaceSeen(Free)' /\ TeamSeen(Free)'
    BY FreeOK DEF WorkspaceSeen, TeamSeen
  <2> QED
    BY <1>1, <1>4, <1>5, <2>1 DEF Alone, TablesAgree
<1> QED
  BY <1>1, <1>3, <1>4, <1>5 DEF WsInv

LEMMA BootTables == ASSUME WsInv, ~overlap PROVE TablesAgree
  BY DEF WsInv, Alone, TablesAgree

LEMMA EnsureDefaultWorkspaceInv == ASSUME WsInv, EnsureDefaultWorkspace PROVE WsInv'
<1>1. Boot("workspace", "flag") /\ UNCHANGED <<member, team, teamed, assigned>>
  BY DEF EnsureDefaultWorkspace
<1>2. legacy' = legacy
  BY <1>1 DEF Boot
<1>3. CASE \E w \in Ids : Live(w) /\ (ws[w].def \/ ws[w].slug)
  <2>1. ws' = ws
    BY <1>3 DEF EnsureDefaultWorkspace
  <2>2. Indexed' /\ (\E w \in Ids : Live(w) /\ (ws[w].def \/ ws[w].slug))'
    BY <1>2, <1>3, <2>1 DEF WsInv, Indexed, Live, Defaults
  <2>3. ~overlap => TablesAgree'
    BY <1>1, <2>1, BootTables DEF TablesAgree, Strays, Live, Defaults
  <2> QED
    BY <1>1, <2>1, <2>2, <2>3, WsTyped, BootInv
<1>4. CASE ~ \E w \in Ids : Live(w) /\ (ws[w].def \/ ws[w].slug)
  <2>1. PICK row : row = [st |-> "live", arch |-> FALSE, def |-> TRUE, slug |-> TRUE]
    OBVIOUS
  <2>2. row \in WorkspaceRow /\ row.st = "live" /\ row.def /\ row.slug
    BY <2>1 DEF WorkspaceRow
  <2>3. ws' = [ws EXCEPT ![Spare] = row]
    BY <1>4, <2>1 DEF EnsureDefaultWorkspace
  <2>4. /\ ws' \in [Ids -> WorkspaceRow] /\ ws'[Spare] = row
        /\ \A w \in Ids : w # Spare => ws'[w] = ws[w]
    BY <2>2, <2>3, WsTyped
  <2>5. \A w \in Ids : Live(w)' /\ (ws'[w].def \/ ws'[w].slug) => w = Spare
    BY <1>4, <2>4 DEF Live
  <2>6. ws'[Home].st # "new"
    BY <2>2, <2>4, WsTyped DEF WsInv, Indexed
  <2>7. Indexed'
    BY <2>5, <2>6 DEF Indexed, Defaults
  <2>8. (\E w \in Ids : Live(w) /\ (ws[w].def \/ ws[w].slug))'
    BY <2>2, <2>4, WsTyped DEF Live
  <2>9. overlap
    <3>1. Defaults = {}
      BY <1>4 DEF Defaults
    <3> QED
      BY <3>1, BootTables, WsTyped DEF TablesAgree
  <2> QED
    BY <1>1, <2>4, <2>7, <2>8, <2>9, WsTyped, BootInv
<1> QED
  BY <1>3, <1>4

LEMMA EnsureDefaultWorkspaceFlagInv ==
    ASSUME WsInv, EnsureDefaultWorkspaceFlag PROVE WsInv'
<1>1. /\ Boot("flag", "members") /\ UNCHANGED <<member, team, teamed, assigned>>
      /\ legacy' = legacy /\ boot = "flag"
  BY DEF EnsureDefaultWorkspaceFlag, Boot
<1>2. CASE HasDefaultWorkspace
  <2>1. ws' = ws
    <3>1. ws' = [w \in Ids |-> ws[w]]
      BY <1>2 DEF EnsureDefaultWorkspaceFlag
    <3> QED
      BY <3>1, WsTyped
  <2>2. Indexed' /\ HasDefaultWorkspace'
    BY <1>1, <1>2, <2>1 DEF WsInv, Indexed, Live, Defaults, HasDefaultWorkspace
  <2>3. ~overlap => TablesAgree'
    BY <1>1, <2>1, BootTables DEF TablesAgree, Strays, Live, Defaults
  <2> QED
    BY <1>1, <2>1, <2>2, <2>3, WsTyped, BootInv
<1>3. CASE ~HasDefaultWorkspace
  <2>1. PICK d \in Ids : Live(d) /\ ws[d].slug
    BY <1>1, <1>3 DEF WsInv, BootOK, HasDefaultWorkspace, Defaults
  <2>2. PICK row : row = [ws[d] EXCEPT !.def = TRUE]
    OBVIOUS
  <2>3. /\ row \in WorkspaceRow /\ row.st = ws[d].st /\ row.def = TRUE
        /\ row.slug = ws[d].slug
    <3>1. ws[d] \in WorkspaceRow
      BY WsTyped
    <3> QED
      BY <2>2, <3>1, WsColumn
  <2>4. ASSUME NEW w \in Ids, Live(w), ws[w].slug PROVE w = d
    BY <2>1, <2>4 DEF WsInv, Indexed
  <2>5. ws' = [w \in Ids |-> IF w = d THEN row ELSE ws[w]]
    <3>1. ws' = [w \in Ids |-> IF Live(w) /\ ws[w].slug
                               THEN [ws[w] EXCEPT !.def = TRUE] ELSE ws[w]]
      BY <1>3 DEF EnsureDefaultWorkspaceFlag
    <3>2. \A w \in Ids : Live(w) /\ ws[w].slug <=> w = d
      BY <2>1, <2>4
    <3> QED
      BY <2>2, <3>1, <3>2
  <2>6. ws' \in [Ids -> WorkspaceRow] /\ ws'[d] = row /\ \A w \in Ids : w # d => ws'[w] = ws[w]
    BY <2>3, <2>5, WsTyped
  <2>7. \A w \in Ids : /\ ws'[w].st = ws[w].st
                       /\ ws'[w].slug = ws[w].slug
    BY <2>3, <2>6
  <2>8. Defaults' = {d}
    <3>1. \A w \in Ids : Live(w) => ~ws[w].def
      BY <1>3 DEF HasDefaultWorkspace, Defaults
    <3> QED
      BY <2>1, <2>3, <2>6, <3>1 DEF Defaults, Live
  <2>9. Indexed'
    BY <2>7, <2>8, WsTyped DEF WsInv, Indexed, Live
  <2>10. overlap
    BY <1>3, BootTables, WsTyped DEF TablesAgree, HasDefaultWorkspace
  <2> QED
    BY <1>1, <2>6, <2>8, <2>9, <2>10, WsTyped, BootInv DEF HasDefaultWorkspace
<1> QED
  BY <1>2, <1>3

LEMMA EnsureDefaultMembershipsInv ==
    ASSUME WsInv, EnsureDefaultMemberships PROVE WsInv'
<1>1. /\ Boot("members", "teams") /\ UNCHANGED <<ws, team, teamed, assigned>>
      /\ legacy' = legacy /\ boot = "members"
  BY DEF EnsureDefaultMemberships, Boot
<1>2. PICK row : row = [role |-> "member", id |-> MaxWsOps + restarts]
  OBVIOUS
<1>3. row \in MembershipRow /\ row.role # "none"
  <2>1. restarts \in 0 .. MaxRestarts
    BY DEF WsInv
  <2> QED
    BY <1>2, <2>1, WorkspacesAssumption DEF MembershipRow
<1>4. member' = [w \in Ids |-> IF w \in Defaults /\ member[w].role = "none"
                               THEN row ELSE member[w]]
  BY <1>2 DEF EnsureDefaultMemberships
<1>5. /\ member' \in [Ids -> MembershipRow]
      /\ \A w \in Ids : member[w].role # "none" => member'[w].role # "none"
  BY <1>3, <1>4, WsTyped
<1>6. Indexed' /\ HasDefaultWorkspace'
  BY <1>1 DEF WsInv, Indexed, Live, Defaults, HasDefaultWorkspace, BootOK
<1>7. ~overlap => TablesAgree'
  BY <1>1, <1>5, BootTables, WsTyped DEF TablesAgree, Strays, Live, Defaults
<1> QED
  BY <1>1, <1>5, <1>6, <1>7, WsTyped, BootInv

LEMMA RemoveInvalidTeamMembershipsInv ==
    ASSUME WsInv, RemoveInvalidTeamMemberships
    PROVE  WsInv' /\ HasDefaultWorkspace' /\ ~Strays'
<1>1. /\ Boot("teams", "up") /\ UNCHANGED <<ws, member, team, assigned>>
      /\ legacy' = legacy /\ boot = "teams"
  BY DEF RemoveInvalidTeamMemberships, Boot
<1>2. /\ teamed' \in BOOLEAN
      /\ teamed' <=> teamed /\ ~(team = "there" /\ member[Home].role = "none")
  BY Zenon DEF RemoveInvalidTeamMemberships
<1>3. Indexed' /\ HasDefaultWorkspace'
  BY <1>1 DEF WsInv, Indexed, Live, Defaults, HasDefaultWorkspace, BootOK
<1>4. ~Strays'
  BY <1>1, <1>2 DEF Strays
<1>5. ~overlap => TablesAgree'
  BY <1>1, <1>2, <1>4, BootTables DEF TablesAgree, Live, Defaults
<1> QED
  BY <1>1, <1>2, <1>3, <1>4, <1>5, WsTyped, BootInv

LEMMA WsNextInv == ASSUME WsInv, WsNext PROVE WsInv'
<1>1. ASSUME NEW q \in Reqs, NEW platform \in BOOLEAN, WorkspaceRequest(q, platform)
      PROVE  WsInv'
  <2>1. PICK w \in Ids :
           \/ \E d, a, s \in BOOLEAN : CreateWorkspace(q, w, d, a, s)
           \/ \E dto \in Dtos : UpdateWorkspace(q, w, platform, dto)
           \/ DeleteWorkspace(q, w, platform)
           \/ \E role \in {"member", "admin"} :
                 AddMember(q, w, platform, role) \/ UpdateMember(q, w, platform, role)
           \/ RemoveMember(q, w, platform)
    BY <1>1, Zenon DEF WorkspaceRequest
  <2>2. Dtos = Entities
    BY DEF Dtos, Entities
  <2>3. CASE \E d, a, s \in BOOLEAN : CreateWorkspace(q, w, d, a, s)
    BY <2>3, CreateWorkspaceInv
  <2>4. CASE \E dto \in Dtos : UpdateWorkspace(q, w, platform, dto)
    BY <2>2, <2>4, UpdateWorkspaceInv
  <2>5. CASE DeleteWorkspace(q, w, platform)
    BY <2>5, DeleteWorkspaceInv
  <2> QED
    BY <2>1, <2>3, <2>4, <2>5, MemberRequestInv
<1>2. ASSUME NEW q \in Reqs, WriteStep(q) PROVE WsInv'
  BY <1>2, SelectWorkspaceInv, WriteWorkspaceInv, ClearDefaultInv,
     SetDefaultWorkspaceInv, RemoveWorkspaceInv, WriteMemberInv, DropMemberInv,
     WriteTeamInv, RemoveTeamInv, WriteTeamMemberInv, WriteNodeInv DEF WriteStep
<1>3. CASE BootStep
  BY <1>3, EnsureDefaultWorkspaceInv, EnsureDefaultWorkspaceFlagInv,
     EnsureDefaultMembershipsInv, RemoveInvalidTeamMembershipsInv DEF BootStep
<1> QED
  BY <1>1, <1>2, <1>3, RestartApiInv, TeamRequestInv DEF WsNext, Comers

LEMMA WsStutter == ASSUME WsInv, UNCHANGED wsVars PROVE WsInv'
<1>1. UNCHANGED <<legacy, ws, member, team, teamed, assigned, reqs, boot, overlap,
                  wsOps, restarts>>
  BY DEF wsVars
<1>2. WsTypeOK' /\ Indexed' /\ BootOK'
  BY <1>1 DEF WsInv, WsTypeOK, Indexed, BootOK, Live, Defaults, HasDefaultWorkspace
<1>3. ~overlap' => Alone'
  BY <1>1 DEF WsInv, Alone, WorkspaceSeen, TeamSeen, Live, Defaults, Strays
<1> QED
  BY <1>1, <1>2, <1>3 DEF WsInv

\* Whatever overlaps, dies or restarts: the tables of workspaces, members and
\* teams agree with each other as long as no two requests have overlapped, and
\* the index of a legacy deployment keeps the default workspace unique even
\* then (setDefaultWorkspace, removeMember, deleteTeam, updateTeamAssignment).
THEOREM WorkspacesStayConsistent == WsSpec => []WorkspacesConsistent
<1>1. WsInit => WsInv
  BY WsInitInv
<1>2. WsInv /\ [WsNext]_wsVars => WsInv'
  BY WsNextInv, WsStutter
<1>3. WsInv => WorkspacesConsistent
  BY DEF WsInv, WorkspacesConsistent, OneDefaultWorkspace, TeamsConsistent, Indexed, Alone
<1> QED
  BY <1>1, <1>2, <1>3, PTL DEF WsSpec

\* The data bootstrap of a legacy deployment ends with a default workspace and
\* without strays, whatever overlapping requests have left behind: each of its
\* four statements finds what the one before it has ensured.
THEOREM BootstrapRepairs == WsSpec => BootRepairs
<1>1. WsInit => WsInv
  BY WsInitInv
<1>2. WsInv /\ [WsNext]_wsVars => WsInv'
  BY WsNextInv, WsStutter
<1>3. ASSUME WsInv, [WsNext]_wsVars
      PROVE  [boot = "teams" /\ boot' = "up" => HasDefaultWorkspace' /\ ~Strays']_wsVars
  <2> SUFFICES ASSUME WsNext, boot = "teams", boot' = "up"
               PROVE  HasDefaultWorkspace' /\ ~Strays'
    BY <1>3
  <2>1. legacy /\ \A q \in Reqs : reqs[q] = Free
    BY <1>3 DEF WsInv, BootOK
  <2>2. ASSUME NEW q \in Reqs, WriteStep(q) PROVE FALSE
    <3>1. reqs[q] = Free /\ Free.op = "none" /\ Free.pc = "idle"
      BY <2>1, FreeOK
    <3> QED
      BY <2>2, <3>1 DEF WriteStep, SelectWorkspace, WriteWorkspace, ClearDefault,
         SetDefaultWorkspace, RemoveWorkspace, WriteMember, DropMember, WriteTeam,
         RemoveTeam, WriteTeamMember, WriteNode
  <2>3. ~RestartApi
    BY <2>1 DEF RestartApi
  <2>4. BootStep
    BY <2>2, <2>3 DEF WsNext, Comers
  <2>5. RemoveInvalidTeamMemberships
    BY <2>4 DEF BootStep, EnsureDefaultWorkspace, EnsureDefaultWorkspaceFlag,
                EnsureDefaultMemberships, Boot
  <2> QED
    BY <1>3, <2>5, RemoveInvalidTeamMembershipsInv
<1> QED
  BY <1>1, <1>2, <1>3, PTL DEF WsSpec, BootRepairs
=============================================================================
