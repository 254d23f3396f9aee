----------------------------- MODULE MCPlatform -----------------------------
(***************************************************************************)
(* Instances of Installation, PlatformUpdates and Enrollments for TLC.     *)
(* The three share no state: in every behaviour one of them moves and the  *)
(* others stay in an initial state.  part says which one moves.            *)
(***************************************************************************)
EXTENDS Installation, PlatformUpdates, Enrollments

VARIABLE part

CONSTANTS Rebuilt

\* One release was built anew under the version of another.
Versions ==
    [r \in Releases |-> IF r \in Rebuilt THEN Rebuilt ELSE {r}]

PlatformInit ==
    /\ part \in {"installation", "updates", "enrollments"}
    /\ InsInit /\ UpdInit /\ EnrInit
    /\ part # "installation" => /\ ctx = "env" /\ schema = "partial"
                                /\ ownKey = NoKey /\ ownCfg = "none"
    /\ part # "updates" => ~promoting

PlatformNext ==
    \/ part = "installation" /\ InsNext /\ UNCHANGED <<part, updVars, enrVars>>
    \/ part = "updates" /\ UpdNext /\ UNCHANGED <<part, insVars, enrVars>>
    \/ part = "enrollments" /\ EnrNext /\ UNCHANGED <<part, insVars, updVars>>

\* InsFairness, UpdFairness and EnrFairness, each for the behaviours in which
\* its part moves.
Installing(A) == part = "installation" /\ A
Updating(A) == part = "updates" /\ A
Enrolling(A) == part = "enrollments" /\ A

PlatformSpec ==
    /\ PlatformInit /\ [][PlatformNext]_<<part, insVars, updVars, enrVars>>
    /\ WF_insVars(Installing(BootFirst)) /\ WF_insVars(Installing(EndPromotion))
    /\ \A q \in Installs : WF_insVars(Installing(InstallStep(q)))
    /\ WF_insVars(Installing(\E q \in Installs : Open(q)))
    /\ \A p \in Both : /\ WF_insVars(Installing(Promote(p)))
                       /\ WF_insVars(Installing(p \in restart /\ Recreate(p)))
    /\ \A p \in Procs :
          /\ WF_updVars(Updating(GetSummary(p)))
          /\ WF_updVars(Updating(QueueDownload(p) \/ QueueApply(p)
                                 \/ ApplyUnlessRollout(p) \/ WriteRequest(p)))
    /\ WF_updVars(Updating(ReconcileTerminalAuditState))
    /\ WF_updVars(Updating(Age))
    /\ \A t \in Tokens : /\ WF_enrVars(Enrolling(GetStatus(t)))
                         /\ WF_enrVars(Enrolling(TokenLate(t)))
    /\ \A c \in Callers \cup {Poller} : WF_enrVars(Enrolling(CallStep(c)))
=============================================================================
