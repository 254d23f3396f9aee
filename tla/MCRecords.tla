------------------------------ MODULE MCRecords ------------------------------
(***************************************************************************)
(* Instances of TaskLifecycle (without the socket path), AgentEvents,      *)
(* Workspaces, Accounts and SingleSignOn for TLC.  They share no state: in *)
(* every behaviour one of them moves and the others stay in an initial     *)
(* state.  part says which one moves.                                      *)
(***************************************************************************)
EXTENDS TaskLifecycle, AgentEvents, Workspaces, Accounts, SingleSignOn

VARIABLE part

RecordsInit ==
    /\ part \in {"tasks", "events", "workspaces", "accounts", "sso"}
    /\ Init /\ EvInit /\ WsInit /\ AccInit /\ SsoInit
    /\ part # "events" => \A e \in Events : stamp[e] = 1
    /\ part # "workspaces" => /\ ~legacy /\ team = "new" /\ ~ws[Home].slug
                              /\ \A w \in Ids \ {Home} : ~Live(w)
    /\ part # "accounts" => acct[Guest].mfa
    /\ part # "sso" => /\ ~keyed
                       /\ emailOf = CHOOSE f \in [People -> {{e} : e \in Emails}] :
                             \A u, v \in People : u # v => f[u] # f[v]
                       /\ emailClaims = [x \in Subjects |-> CHOOSE e \in Emails : TRUE]

RecordsNext ==
    \/ /\ part = "tasks" /\ Next
       /\ UNCHANGED <<part, evVars, wsVars, accVars, ssoVars>>
    \/ /\ part = "events" /\ EvNext
       /\ UNCHANGED <<part, vars, wsVars, accVars, ssoVars>>
    \/ /\ part = "workspaces" /\ WsNext
       /\ UNCHANGED <<part, vars, evVars, accVars, ssoVars>>
    \/ /\ part = "accounts" /\ AccNext
       /\ UNCHANGED <<part, vars, evVars, wsVars, ssoVars>>
    \/ /\ part = "sso" /\ SsoNext
       /\ UNCHANGED <<part, vars, evVars, wsVars, accVars>>

\* Fairness of TaskLifecycle, for the behaviours in which tasks move.
Working(A) == part = "tasks" /\ A

RecordsSpec ==
    /\ RecordsInit /\ [][RecordsNext]_<<part, vars, evVars, wsVars, accVars, ssoVars>>
    /\ \A s \in Slots : WF_vars(Working(Handler(s)))
    /\ WF_vars(Working(StaleDetector))
    /\ \A k \in 1 .. MaxClaims : WF_vars(Working(LeaseExpires(k)))
    /\ \A t \in Tasks : /\ WF_vars(Working(QueuedDeadlinePasses(t)))
                         /\ WF_vars(Working(RunningDeadlinePasses(t)))
=============================================================================
