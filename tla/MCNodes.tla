------------------------------- MODULE MCNodes -------------------------------
(***************************************************************************)
(* Instances of AgentConnections and NodeAccess for TLC, the two modules   *)
(* about one node and its agent.  They share no state: in every behaviour  *)
(* one of them moves and the other one stays in its initial state.  part   *)
(* says which one moves.                                                   *)
(***************************************************************************)
EXTENDS AgentConnections, NodeAccess

VARIABLE part

NodesInit == part \in {"connections", "access"} /\ Init /\ AccessInit

NodesNext ==
    \/ part = "connections" /\ Next /\ UNCHANGED <<part, accessVars>>
    \/ part = "access" /\ AccessNext /\ UNCHANGED <<part, vars>>

Connecting(A) == part = "connections" /\ A
Accessing(A) == part = "access" /\ A

\* FairSpec and AccessFairSpec, each for the behaviours in which its part moves.
NodesSpec ==
    /\ NodesInit /\ [][NodesNext]_<<part, vars, accessVars>>
    /\ WF_vars(Connecting(SocketHandlers))
    /\ WF_vars(Connecting(HeartbeatHandler)) /\ WF_vars(Connecting(Timers))
    /\ \A k \in Sockets : WF_vars(Connecting(RegisterPing(k)))
    /\ \A c \in AgentCalls :
          /\ WF_accessVars(Accessing(AgentStep(c)))
          /\ SF_accessVars(Accessing(RecordAgentRootAccessState(c)))
    /\ \A c \in Requests : WF_accessVars(Accessing(OperatorStep(c)))
    /\ SF_accessVars(Accessing(CronStep))
    /\ \A g \in 1 .. MaxGrants : WF_accessVars(Accessing(GrantExpires(g)))
=============================================================================
