----------------------- MODULE TerminalSessionsProofs -----------------------
(* Type correctness of TerminalSessions, and the proofs that the controller  *)
(* count never misses an attached socket, that an ended session stays ended  *)
(* and that the grace window spares controllers, for every number of         *)
(* processes, sockets and calls in progress.                                 *)
EXTENDS TerminalSessions, FiniteSetTheorems, TLAPS

SlotType == [pc : Pcs, p : Processes \cup {NoProcess},
             sock : Sockets \cup {NoSocket}, ent : {"none"} \cup Ended]

\* The steps of attachController and detachController.
ControlPcs == {"attach", "control", "incr", "decr", "clamp"}

\* A handler in progress runs on a process; an attach or a detach has a socket
\* of that process, and what will end the session knows the status it will
\* write.
Good == {e \in SlotType :
           /\ e.pc # "idle" => e.p \in Processes
           /\ e.pc \in ControlPcs => e.sock \in Sockets /\ e.p = Home[e.sock]
           /\ e.pc \in {"close", "terminate", "armend", "stop", "detached",
                        "detachload", "ending"} => e.ent \in Ended}

\* TypeOK, but for the slots.
RestOK ==
    /\ status \in Statuses
    /\ timers \subseteq Timers
    /\ attached \subseteq Sockets
    /\ count \in Int /\ gone \subseteq Sockets
    /\ ahead \in [Slots -> SUBSET Slots]
    /\ toAgent \in Seq({"start", "stop"})
    /\ fromAgent \in Seq({"opened", "exited", "error"})
    /\ shell \in {"none", "open", "over"}
    /\ calls \in Nat /\ lost \in Nat /\ crashes \in Nat /\ misses \in Nat
    /\ overlaps \in Nat

TypeInv == RestOK /\ slot \in [Slots -> Good]

\* The strengthened invariant implies the type invariant.
LEMMA TypeInvImplies == TypeInv => TypeOK
BY DEF TypeInv, RestOK, TypeOK, Good, SlotType

-----------------------------------------------------------------------------
(* The steps of a slot.                                                      *)

\* The idle slot is well-formed.
LEMMA IdleGood == Idle \in Good
BY DEF Idle, Good, SlotType, Pcs, ControlPcs

\* A slot that goes on keeps a well-formed entry.
LEMMA GotoGood ==
    ASSUME NEW s \in Slots, NEW pc \in Pcs, TypeInv, Goto(s, pc),
           slot[s].pc # "idle",
           pc \in ControlPcs =>
              slot[s].sock \in Sockets /\ slot[s].p = Home[slot[s].sock],
           pc \in {"close", "terminate", "armend", "stop", "detached",
                   "detachload", "ending"} => slot[s].ent \in Ended
    PROVE  /\ slot' \in [Slots -> Good]
           /\ calls' = calls /\ overlaps' = overlaps
<1>1. slot[s] \in Good
  BY DEF TypeInv
<1>2. [slot[s] EXCEPT !.pc = pc] \in Good
  BY <1>1 DEF Good, SlotType
<1> QED
  BY <1>2 DEF Goto, TypeInv

\* A handler that returns leaves an idle slot.
LEMMA EndGood ==
    ASSUME NEW s \in Slots, TypeInv, End(s)
    PROVE  /\ slot' \in [Slots -> Good]
           /\ calls' = calls /\ overlaps' = overlaps
BY IdleGood DEF End, TypeInv

\* A handler that is called gets a well-formed slot and is counted.
LEMMA BeginGood ==
    ASSUME NEW s \in Slots, NEW p \in Processes, NEW pc \in Pcs,
           NEW k \in Sockets \cup {NoSocket}, NEW ent \in {"none"} \cup Ended,
           NEW n \in Nat, TypeInv, Begin(s, p, pc, k, ent, n),
           pc \in ControlPcs => k \in Sockets /\ p = Home[k],
           pc \in {"close", "terminate", "armend", "stop", "detached",
                   "detachload", "ending"} => ent \in Ended
    PROVE  /\ slot' \in [Slots -> Good]
           /\ calls' \in Nat /\ overlaps' \in Nat
<1>1. [pc |-> pc, p |-> p, sock |-> k, ent |-> ent] \in Good
  BY DEF Good, SlotType
<1>2. slot' \in [Slots -> Good]
  BY <1>1 DEF Begin, TypeInv
<1>3. calls' \in Nat /\ overlaps' \in Nat
  BY DEF Begin, Overlap, TypeInv, RestOK
<1> QED
  BY <1>2, <1>3

\* closeSession clears timers and keeps the slot well-formed.
LEMMA CloseGood ==
    ASSUME NEW s \in Slots, NEW ent \in Ended, TypeInv, CloseSession(s, ent),
           slot[s].pc # "idle"
    PROVE  /\ slot' \in [Slots -> Good] /\ timers' \subseteq Timers
           /\ calls' = calls /\ overlaps' = overlaps
<1>1. slot[s] \in Good /\ "close" \in Pcs
  BY DEF TypeInv, Pcs
<1>2. [[slot[s] EXCEPT !.pc = "close"] EXCEPT !.ent = ent] \in Good
  BY <1>1 DEF Good, SlotType, ControlPcs
<1>3. slot' = [slot EXCEPT ![s] = [[slot[s] EXCEPT !.pc = "close"]
                                     EXCEPT !.ent = ent]]
  BY DEF CloseSession, TypeInv
<1>4. slot' \in [Slots -> Good]
  BY <1>2, <1>3 DEF TypeInv
<1> QED
  BY <1>4 DEF CloseSession, TypeInv, RestOK

\* A command that is sent, or executed, leaves a well-formed order behind.
LEMMA SendType ==
    ASSUME TypeInv, NEW s \in Slots, NEW p, Send(s, p)
    PROVE  ahead' \in [Slots -> SUBSET Slots]
BY DEF Send, Commands, TypeInv, RestOK

LEMMA ExecutedType ==
    ASSUME TypeInv, NEW s \in Slots, Executed(s)
    PROVE  ahead' \in [Slots -> SUBSET Slots]
BY DEF Executed, TypeInv, RestOK

\* detachController returns, or goes back to the attach it was called by.
LEMMA DetachedGood ==
    ASSUME NEW s \in Slots, NEW n \in Int, TypeInv, Detached(s, n),
           slot[s].pc \in {"decr", "clamp"}
    PROVE  /\ slot' \in [Slots -> Good] /\ timers' \subseteq Timers
           /\ calls' = calls /\ overlaps' = overlaps
<1>1. slot[s] \in Good /\ slot[s].pc \in ControlPcs
  BY DEF TypeInv, ControlPcs
<1>2. /\ slot[s].sock \in Sockets /\ slot[s].p = Home[slot[s].sock]
      /\ slot[s].p \in Processes /\ slot[s].pc # "idle"
  BY <1>1 DEF Good
<1>3. /\ slot' \in [Slots -> Good]
      /\ calls' = calls /\ overlaps' = overlaps
  <2>1. "attach" \in Pcs
    BY DEF Pcs
  <2> QED
    BY <1>2, <2>1, GotoGood, EndGood DEF Detached
<1>4. <<slot[s].p, "detach">> \in Timers
  BY <1>2 DEF Timers, Kinds
<1> QED
  BY <1>3, <1>4 DEF Detached, TypeInv, RestOK

-----------------------------------------------------------------------------
(* Type correctness.                                                         *)

\* The initial state is well-formed.
LEMMA InitType == Init => TypeInv
BY IdleGood DEF Init, TypeInv, RestOK, Statuses

\* Every step of a handler keeps the state well-formed.
LEMMA HandlerType ==
    ASSUME TypeInv, NEW s \in Slots, Handler(s)
    PROVE  TypeInv'
<1> USE DEF ctrlVars, agentVars, bounds
<1>t. slot[s] \in Good
  BY DEF TypeInv
<1>p. ASSUME slot[s].pc # "idle"
      PROVE  \A k \in Kinds : <<slot[s].p, k>> \in Timers
  BY <1>t, <1>p DEF Good, Timers
<1>c. "start" \in Pcs /\ "fail" \in Pcs /\ "armend" \in Pcs /\ "stop" \in Pcs
      /\ "control" \in Pcs /\ "detachload" \in Pcs /\ "terminate" \in Pcs
      /\ "incr" \in Pcs /\ "clamp" \in Pcs /\ "attach" \in Pcs
      /\ \A pc \in {"start", "fail", "armend", "stop", "detachload", "terminate"} :
            pc \notin ControlPcs
  BY DEF Pcs, ControlPcs
<1>1. CASE SchedulePendingOpenTimeout(s)
  <2>1. slot[s].pc = "arm" /\ Goto(s, "start")
    BY <1>1 DEF SchedulePendingOpenTimeout, At
  <2>2. slot' \in [Slots -> Good] /\ calls' = calls /\ overlaps' = overlaps
    BY <1>c, <2>1, GotoGood
  <2>3. <<slot[s].p, "open">> \in Timers
    BY <1>p, <2>1 DEF Kinds
  <2> QED
    BY <1>1, <2>2, <2>3 DEF SchedulePendingOpenTimeout, TypeInv, RestOK
<1>2. CASE StartTerminalSession(s)
  <2>1. slot[s].pc = "start"
    BY <1>2 DEF StartTerminalSession, At
  <2>2. \/ End(s) /\ timers' = timers /\ lost' = lost
           /\ toAgent' = Append(toAgent, "start")
        \/ (End(s) \/ Goto(s, "fail")) /\ timers' = timers /\ lost' = lost + 1
           /\ toAgent' = toAgent
    BY <1>2 DEF StartTerminalSession, Emit
  <2>3. slot' \in [Slots -> Good] /\ calls' = calls /\ overlaps' = overlaps
    BY <1>c, <2>1, <2>2, GotoGood, EndGood
  <2>4. toAgent' \in Seq({"start", "stop"}) /\ lost' \in Nat /\ timers' \subseteq Timers
    <3>1. /\ toAgent \in Seq({"start", "stop"}) /\ lost \in Nat
          /\ toAgent' \in {toAgent, Append(toAgent, "start")}
          /\ lost' \in {lost, lost + 1} /\ timers' \subseteq Timers
      BY <2>2 DEF TypeInv, RestOK
    <3>2. Append(toAgent, "start") \in Seq({"start", "stop"})
      BY <3>1
    <3> QED
      BY <3>1, <3>2
  <2>5. UNCHANGED <<status, ctrlVars, fromAgent, shell, crashes, misses>>
    BY <1>2 DEF StartTerminalSession
  <2> QED
    BY <2>3, <2>4, <2>5 DEF TypeInv, RestOK
<1>3. CASE MarkFailed(s)
  <2>1. slot[s].pc = "fail" /\ "failed" \in Ended
    BY <1>3 DEF MarkFailed, At, Ended
  <2>2. /\ slot' \in [Slots -> Good] /\ timers' \subseteq Timers
        /\ calls' = calls /\ overlaps' = overlaps
    BY <1>3, <2>1, CloseGood, EndGood DEF MarkFailed, TypeInv, RestOK
  <2> QED
    BY <1>3, <2>2 DEF MarkFailed, TypeInv, RestOK
<1>4. CASE CloseUpdate(s)
  <2>1. slot[s].ent \in Statuses /\ End(s)
    BY <1>4, <1>t DEF CloseUpdate, At, Good, Statuses
  <2> QED
    BY <1>4, <2>1, EndGood DEF CloseUpdate, TypeInv, RestOK
<1>5. CASE UpdateTerminating(s)
  <2>1. slot[s].pc = "terminate" /\ Goto(s, "armend") /\ slot[s].ent \in Ended
    BY <1>5, <1>t DEF UpdateTerminating, At, Good
  <2>2. slot' \in [Slots -> Good] /\ calls' = calls /\ overlaps' = overlaps
    BY <1>c, <2>1, GotoGood
  <2> QED
    BY <1>5, <2>2 DEF UpdateTerminating, TypeInv, RestOK, Statuses
<1>6. CASE ScheduleTerminationTimeout(s)
  <2>1. slot[s].pc = "armend" /\ Goto(s, "stop") /\ slot[s].ent \in Ended
    BY <1>6, <1>t DEF ScheduleTerminationTimeout, At, Good
  <2>2. slot' \in [Slots -> Good] /\ calls' = calls /\ overlaps' = overlaps
    BY <1>c, <2>1, GotoGood
  <2>3. <<slot[s].p, "end">> \in Timers
    BY <1>p, <2>1 DEF Kinds
  <2> QED
    BY <1>6, <2>2, <2>3 DEF ScheduleTerminationTimeout, TypeInv, RestOK
<1>7. CASE StopTerminalSession(s)
  <2>1. slot[s].pc = "stop" /\ slot[s].ent \in Ended
    BY <1>7, <1>t DEF StopTerminalSession, At, Good
  <2>2. \/ End(s) /\ timers' = timers /\ lost' = lost
           /\ toAgent' = Append(toAgent, "stop")
        \/ /\ (End(s) /\ timers' = timers) \/ CloseSession(s, slot[s].ent)
           /\ lost' = lost + 1 /\ toAgent' = toAgent
    BY <1>7 DEF StopTerminalSession, Emit
  <2>3. /\ slot' \in [Slots -> Good] /\ timers' \subseteq Timers
        /\ calls' = calls /\ overlaps' = overlaps
    BY <2>1, <2>2, CloseGood, EndGood DEF TypeInv, RestOK
  <2>4. toAgent' \in Seq({"start", "stop"}) /\ lost' \in Nat
    <3>1. /\ toAgent \in Seq({"start", "stop"}) /\ lost \in Nat
          /\ toAgent' \in {toAgent, Append(toAgent, "stop")}
          /\ lost' \in {lost, lost + 1}
      BY <2>2 DEF TypeInv, RestOK
    <3>2. Append(toAgent, "stop") \in Seq({"start", "stop"})
      BY <3>1
    <3> QED
      BY <3>1, <3>2
  <2>5. UNCHANGED <<status, ctrlVars, fromAgent, shell, crashes, misses>>
    BY <1>7 DEF StopTerminalSession
  <2> QED
    BY <2>3, <2>4, <2>5 DEF TypeInv, RestOK
<1>8. CASE AttachLoad(s)
  <2>1. /\ slot[s].pc = "attach" /\ slot[s].sock \in Sockets
        /\ slot[s].p = Home[slot[s].sock]
    BY <1>8, <1>t DEF AttachLoad, At, Good, ControlPcs
  <2>2. slot' \in [Slots -> Good] /\ calls' = calls /\ overlaps' = overlaps
    BY <1>8, <1>c, <2>1, GotoGood, EndGood DEF AttachLoad
  <2> QED
    BY <1>8, <2>2 DEF AttachLoad, TypeInv, RestOK
<1>9. CASE Attach(s)
  <2>1. /\ slot[s].pc = "control" /\ slot[s].sock \in Sockets
        /\ slot[s].p = Home[slot[s].sock] /\ Goto(s, "incr")
    BY <1>9, <1>t DEF Attach, At, Good, ControlPcs
  <2>2. slot' \in [Slots -> Good] /\ calls' = calls /\ overlaps' = overlaps
    BY <1>c, <2>1, GotoGood
  <2>3. ahead' \in [Slots -> SUBSET Slots]
    BY <1>9, SendType DEF Attach
  <2> QED
    BY <1>9, <2>1, <2>2, <2>3 DEF Attach, TypeInv, RestOK
<1>10. CASE SendToShell(s)
  <2>1. slot[s].pc = "send" /\ (End(s) \/ Goto(s, "fail"))
    BY <1>10 DEF SendToShell, At
  <2>2. slot' \in [Slots -> Good] /\ calls' = calls /\ overlaps' = overlaps
    BY <1>c, <2>1, GotoGood, EndGood
  <2> QED
    BY <1>10, <2>2 DEF SendToShell, TypeInv, RestOK
<1>11. CASE OpenedUpdate(s)
  BY <1>11, EndGood DEF OpenedUpdate, TypeInv, RestOK, Statuses
<1>12. CASE HandleDetachTimeout(s)
  <2>1. slot[s].pc = "detached" /\ slot[s].ent \in Ended
    BY <1>12, <1>t DEF HandleDetachTimeout, At, Good
  <2>2. slot' \in [Slots -> Good] /\ calls' = calls /\ overlaps' = overlaps
    BY <1>12, <1>c, <2>1, GotoGood, EndGood DEF HandleDetachTimeout
  <2> QED
    BY <1>12, <2>2 DEF HandleDetachTimeout, Miss, TypeInv, RestOK
<1>13. CASE DetachTimeoutLoad(s)
  <2>1. slot[s].pc = "detachload" /\ slot[s].ent \in Ended
    BY <1>13, <1>t DEF DetachTimeoutLoad, At, Good
  <2>2. slot' \in [Slots -> Good] /\ calls' = calls /\ overlaps' = overlaps
    BY <1>13, <1>c, <2>1, GotoGood, EndGood DEF DetachTimeoutLoad
  <2> QED
    BY <1>13, <2>2 DEF DetachTimeoutLoad, TypeInv, RestOK
<1>14. CASE HandleTerminationTimeout(s)
  <2>1. slot[s].pc = "ending" /\ "closed" \in Ended
    BY <1>14 DEF HandleTerminationTimeout, At, Ended
  <2>2. /\ slot' \in [Slots -> Good] /\ timers' \subseteq Timers
        /\ calls' = calls /\ overlaps' = overlaps
    BY <1>14, <2>1, CloseGood, EndGood
       DEF HandleTerminationTimeout, TypeInv, RestOK
  <2> QED
    BY <1>14, <2>2 DEF HandleTerminationTimeout, TypeInv, RestOK
<1>15. CASE IncrementControllerCount(s)
  <2>1. ahead' \in [Slots -> SUBSET Slots]
    BY <1>15, ExecutedType DEF IncrementControllerCount
  <2>2. slot' \in [Slots -> Good] /\ calls' = calls /\ overlaps' = overlaps
    BY <1>15, EndGood DEF IncrementControllerCount
  <2>3. count' \in Int /\ misses' \in Nat
    BY <1>15 DEF IncrementControllerCount, Miss, TypeInv, RestOK
  <2> QED
    BY <1>15, <2>1, <2>2, <2>3 DEF IncrementControllerCount, TypeInv, RestOK
<1>16. CASE DecrementControllerCount(s)
  <2>1. slot[s].pc = "decr"
    BY <1>16 DEF DecrementControllerCount, At
  <2>2. ahead' \in [Slots -> SUBSET Slots]
    BY <1>16, ExecutedType DEF DecrementControllerCount
  <2>3. /\ slot' \in [Slots -> Good] /\ timers' \subseteq Timers
        /\ calls' = calls /\ overlaps' = overlaps
    <3>1. \/ Goto(s, "clamp") /\ UNCHANGED timers
          \/ \E n \in Int : Detached(s, n)
      BY <1>16 DEF DecrementControllerCount, TypeInv, RestOK
    <3>2. CASE Goto(s, "clamp") /\ UNCHANGED timers
      <4>1. slot[s].sock \in Sockets /\ slot[s].p = Home[slot[s].sock]
        BY <1>t, <2>1 DEF Good, ControlPcs
      <4> QED
        BY <1>c, <2>1, <3>2, <4>1, GotoGood DEF TypeInv, RestOK
    <3>3. ASSUME NEW n \in Int, Detached(s, n)
          PROVE  /\ slot' \in [Slots -> Good] /\ timers' \subseteq Timers
                 /\ calls' = calls /\ overlaps' = overlaps
      BY <2>1, <3>3, DetachedGood
    <3> QED
      BY <3>1, <3>2, <3>3
  <2>4. count' \in Int /\ misses' \in Nat
    BY <1>16 DEF DecrementControllerCount, Miss, TypeInv, RestOK
  <2> QED
    BY <1>16, <2>2, <2>3, <2>4 DEF DecrementControllerCount, TypeInv, RestOK
<1>17. CASE ClampControllerCount(s)
  <2>1. slot[s].pc = "clamp" /\ Detached(s, 0)
    BY <1>17 DEF ClampControllerCount, At
  <2>2. /\ slot' \in [Slots -> Good] /\ timers' \subseteq Timers
        /\ calls' = calls /\ overlaps' = overlaps
    BY <2>1, DetachedGood
  <2> QED
    BY <1>17, <2>2 DEF ClampControllerCount, TypeInv, RestOK
<1> QED
  BY <1>1, <1>2, <1>3, <1>4, <1>5, <1>6, <1>7, <1>8, <1>9, <1>10, <1>11,
     <1>12, <1>13, <1>14, <1>15, <1>16, <1>17 DEF Handler

\* Every step keeps the state well-formed.
LEMMA NextType == TypeInv /\ [Next]_vars => TypeInv'
<1> SUFFICES ASSUME TypeInv, [Next]_vars PROVE TypeInv'
  OBVIOUS
<1> USE DEF ctrlVars, agentVars, bounds
<1>c. /\ Calls \subseteq Slots /\ Timers \subseteq Slots
      /\ Ended = {"closed", "failed"} /\ Ended \subseteq {"none"} \cup Ended
      /\ "arm" \in Pcs /\ "terminate" \in Pcs /\ "attach" \in Pcs
      /\ "send" \in Pcs /\ "opened" \in Pcs /\ "close" \in Pcs
      /\ "fail" \in Pcs /\ "detached" \in Pcs /\ "ending" \in Pcs
      /\ "decr" \in Pcs /\ Sockets \subseteq Slots
      /\ \A pc \in {"arm", "terminate", "send", "opened", "close", "fail",
                     "detached", "ending"} : pc \notin ControlPcs
      /\ 0 \in Nat /\ 1 \in Nat
  BY DEF Slots, Pcs, Ended, ControlPcs
<1>k. \A k \in Sockets : /\ Home[k] \in Processes
                         /\ <<Home[k], "detach">> \in Timers
  BY TerminalSessionsAssumption DEF Timers, Kinds
<1>1. ASSUME NEW s \in Calls, NEW p \in Processes, CreateSession(s, p)
      PROVE  TypeInv'
  <2>1. slot' \in [Slots -> Good] /\ calls' \in Nat /\ overlaps' \in Nat
    <3>1. Begin(s, p, "arm", NoSocket, "none", 1)
      BY <1>1 DEF CreateSession
    <3> QED
      BY <1>c, <3>1, BeginGood
  <2> QED
    BY <1>1, <2>1 DEF CreateSession, TypeInv, RestOK, Statuses
<1>2. ASSUME NEW s \in Calls, NEW p \in Processes, TerminateSession(s, p)
      PROVE  TypeInv'
  <2>1. slot' \in [Slots -> Good] /\ calls' \in Nat /\ overlaps' \in Nat
    <3>1. Begin(s, p, "terminate", NoSocket, "closed", 1)
      BY <1>2 DEF TerminateSession
    <3> QED
      BY <1>c, <3>1, BeginGood
  <2> QED
    BY <1>2, <2>1 DEF TerminateSession, TypeInv, RestOK
<1>3. ASSUME NEW s \in Calls, NEW k \in Sockets, AttachController(s, k)
      PROVE  TypeInv'
  <2>1. slot' \in [Slots -> Good] /\ calls' \in Nat /\ overlaps' \in Nat
    <3>1. \/ Begin(s, Home[k], "attach", k, "none", 1)
          \/ Begin(s, Home[k], "decr", k, "none", 1)
      BY <1>3 DEF AttachController
    <3>2. CASE Begin(s, Home[k], "attach", k, "none", 1)
      BY <1>c, <1>k, <3>2, BeginGood
    <3>3. CASE Begin(s, Home[k], "decr", k, "none", 1)
      BY <1>c, <1>k, <3>3, BeginGood
    <3> QED
      BY <3>1, <3>2, <3>3
  <2>2. attached' \subseteq Sockets /\ ahead' \in [Slots -> SUBSET Slots]
    BY <1>3, <1>c, SendType DEF AttachController, TypeInv, RestOK
  <2> QED
    BY <1>3, <2>1, <2>2 DEF AttachController, TypeInv, RestOK
<1>4. ASSUME NEW s \in Calls, NEW k \in Sockets, ControllerMessage(s, k)
      PROVE  TypeInv'
  <2>1. slot' \in [Slots -> Good] /\ calls' \in Nat /\ overlaps' \in Nat
    <3>1. Begin(s, Home[k], "send", k, "none", 1)
      BY <1>4 DEF ControllerMessage
    <3> QED
      BY <1>c, <1>k, <3>1, BeginGood
  <2> QED
    BY <1>4, <2>1 DEF ControllerMessage, TypeInv, RestOK
<1>5. ASSUME NEW s \in Calls, HandleAgentEvent(s)
      PROVE  TypeInv'
  <2>p. AgentHome \in Processes
    BY TerminalSessionsAssumption
  <2>1. \/ Begin(s, AgentHome, "opened", NoSocket, "none", 0)
        \/ \E ent \in Ended : Begin(s, AgentHome, "close", NoSocket, ent, 0)
        \/ UNCHANGED slotVars
    BY <1>5, <1>c DEF HandleAgentEvent
  <2>2. slot' \in [Slots -> Good] /\ calls' \in Nat /\ overlaps' \in Nat
    <3>1. CASE Begin(s, AgentHome, "opened", NoSocket, "none", 0)
      BY <1>c, <2>p, <3>1, BeginGood
    <3>2. ASSUME NEW ent \in Ended,
                 Begin(s, AgentHome, "close", NoSocket, ent, 0)
          PROVE  /\ slot' \in [Slots -> Good]
                 /\ calls' \in Nat /\ overlaps' \in Nat
      BY <1>c, <2>p, <3>2, BeginGood
    <3>3. CASE UNCHANGED slotVars
      BY <3>3 DEF slotVars, TypeInv, RestOK
    <3> QED
      BY <2>1, <3>1, <3>2, <3>3
  <2>3. timers' \subseteq Timers
    BY <1>5 DEF HandleAgentEvent, TypeInv, RestOK
  <2>4. fromAgent' \in Seq({"opened", "exited", "error"})
    BY <1>5 DEF HandleAgentEvent, TypeInv, RestOK
  <2>5. UNCHANGED <<status, ctrlVars, toAgent, shell, bounds>>
    BY <1>5 DEF HandleAgentEvent
  <2> QED
    BY <2>2, <2>3, <2>4, <2>5 DEF TypeInv, RestOK
<1>6. ASSUME NEW s \in Calls, HandleAgentOutput(s)
      PROVE  TypeInv'
  <2>1. slot' \in [Slots -> Good] /\ calls' \in Nat /\ overlaps' \in Nat
    <3>1. /\ Begin(s, AgentHome, "terminate", NoSocket, "failed", 1)
          /\ AgentHome \in Processes
      BY <1>6, TerminalSessionsAssumption DEF HandleAgentOutput
    <3> QED
      BY <1>c, <3>1, BeginGood
  <2> QED
    BY <1>6, <2>1 DEF HandleAgentOutput, TypeInv, RestOK
<1>7. ASSUME NEW t \in Timers, TimerFires(t)
      PROVE  TypeInv'
  <2>1. PICK pc \in {"fail", "detached", "ending"} :
           Begin(t, t[1], pc, NoSocket, "closed", 0)
    BY <1>7 DEF TimerFires, Timers, Kinds
  <2>2. slot' \in [Slots -> Good] /\ calls' \in Nat /\ overlaps' \in Nat
    <3>1. t[1] \in Processes
      BY DEF Timers
    <3> QED
      BY <1>c, <2>1, <3>1, BeginGood
  <2> QED
    BY <1>7, <2>2 DEF TimerFires, TypeInv, RestOK
<1>8. ASSUME NEW k \in Sockets, DetachController(k)
      PROVE  TypeInv'
  <2>1. attached' \subseteq Sockets /\ ahead' \in [Slots -> SUBSET Slots]
    BY <1>8, <1>c, SendType DEF DetachController, TypeInv, RestOK
  <2>2. slot' \in [Slots -> Good] /\ calls' \in Nat /\ overlaps' \in Nat
    <3>1. CASE Begin(k, Home[k], "decr", k, "none", 0)
      BY <1>c, <1>k, <3>1, BeginGood
    <3>2. CASE Overlap /\ UNCHANGED <<slot, calls>>
      BY <3>2 DEF Overlap, TypeInv, RestOK
    <3> QED
      BY <1>8, <3>1, <3>2 DEF DetachController
  <2> QED
    BY <1>8, <2>1, <2>2 DEF DetachController, TypeInv, RestOK
<1>9. CASE AgentReceives
  <2>1. toAgent' \in Seq({"start", "stop"})
    BY <1>9 DEF AgentReceives, TypeInv, RestOK
  <2>2. /\ \/ fromAgent' = fromAgent
           \/ \E m \in {"opened", "exited", "error"} :
                 fromAgent' = Append(fromAgent, m)
        /\ shell' \in {"none", "open", "over"}
    BY <1>9 DEF AgentReceives, TypeInv, RestOK
  <2>3. fromAgent' \in Seq({"opened", "exited", "error"})
    <3>1. fromAgent \in Seq({"opened", "exited", "error"})
      BY DEF TypeInv, RestOK
    <3>2. ASSUME NEW M, NEW q \in Seq(M), NEW m \in M
          PROVE  Append(q, m) \in Seq(M)
      OBVIOUS
    <3> QED
      BY <2>2, <3>1, <3>2
  <2>4. UNCHANGED <<status, timers, ctrlVars, slotVars, bounds>>
    BY <1>9 DEF AgentReceives
  <2> QED
    BY <2>1, <2>2, <2>3, <2>4 DEF TypeInv, RestOK, slotVars
<1>10. CASE ShellExits
  <2>1. fromAgent' \in Seq({"opened", "exited", "error"})
    BY <1>10 DEF ShellExits, TypeInv, RestOK
  <2> QED
    BY <1>10, <2>1 DEF ShellExits, TypeInv, RestOK, slotVars
<1>11. CASE ConnectionBreaks
  BY <1>11 DEF ConnectionBreaks, TypeInv, RestOK, slotVars
<1>12. ASSUME NEW p \in Processes, ProcessDies(p)
       PROVE  TypeInv'
  <2>1. slot' \in [Slots -> Good]
    BY <1>12, IdleGood DEF ProcessDies, TypeInv
  <2>2. ahead' \in [Slots -> SUBSET Slots]
    BY <1>12 DEF ProcessDies, TypeInv, RestOK
  <2> QED
    BY <1>12, <2>1, <2>2 DEF ProcessDies, TypeInv, RestOK
<1>13. CASE CountExpires
  BY <1>13 DEF CountExpires, Miss, TypeInv, RestOK, slotVars
<1>14. ASSUME NEW s \in Slots, Handler(s)
       PROVE  TypeInv'
  BY <1>14, HandlerType
<1>15. CASE UNCHANGED vars
  BY <1>15 DEF vars, slotVars, TypeInv, RestOK
<1> QED
  BY <1>1, <1>2, <1>3, <1>4, <1>5, <1>6, <1>7, <1>8, <1>9, <1>10, <1>11,
     <1>12, <1>13, <1>14, <1>15 DEF Next, Requests, AgentEvents

\* TypeOK is an invariant: a handler that will end the session always knows
\* the status it will write, a timer belongs to a process and the controller
\* count is never negative (decrementControllerCount).
THEOREM SessionTypeCorrect == Spec => []TypeOK
<1>1. TypeInv => TypeOK
  BY TypeInvImplies
<1> QED
  BY <1>1, InitType, NextType, PTL DEF Spec

\* The slots after a step of a handler.
LEMMA SlotGoto ==
    ASSUME NEW s \in Slots, NEW pc, TypeInv, Goto(s, pc)
    PROVE  /\ slot'[s].pc = pc /\ overlaps' = overlaps
           /\ \A o \in Slots : o # s => slot'[o] = slot[o]
<1>1. slot[s] \in SlotType
  BY DEF TypeInv, Good
<1> QED
  BY <1>1 DEF Goto, TypeInv, SlotType

LEMMA SlotEnd ==
    ASSUME NEW s \in Slots, TypeInv, End(s)
    PROVE  /\ slot'[s] = Idle /\ slot'[s].pc = "idle" /\ overlaps' = overlaps
           /\ \A o \in Slots : o # s => slot'[o] = slot[o]
BY DEF End, TypeInv, Idle

LEMMA SlotClose ==
    ASSUME NEW s \in Slots, NEW ent, TypeInv, CloseSession(s, ent)
    PROVE  /\ slot'[s].pc = "close" /\ overlaps' = overlaps
           /\ \A o \in Slots : o # s => slot'[o] = slot[o]
<1>1. slot[s] \in SlotType
  BY DEF TypeInv, Good
<1> QED
  BY <1>1 DEF CloseSession, TypeInv, SlotType

-----------------------------------------------------------------------------
(* The controller count.                                                     *)

\* The INCR and DECR about a socket that Redis has not executed yet.
Pending(k) == {s \in Slots : slot[s].pc \in {"incr", "decr"} /\ slot[s].sock = k}

\* Only commands wait, and only for commands of their own process.
AheadOK(s) ==
    /\ slot[s].pc \notin {"incr", "decr"} => ahead[s] = {}
    /\ ahead[s] \subseteq Commands(slot[s].p)

\* The commands about a socket are executed one after the other, no DECR comes
\* directly after a DECR, and the last one about an attached socket is an INCR.
OrderInv ==
    /\ \A s \in Slots : AheadOK(s)
    /\ \A k \in Sockets : \A a, b \in Pending(k) :
          a = b \/ a \in ahead[b] \/ b \in ahead[a]
    /\ \A k \in Sockets : \A a, b \in Pending(k) :
          slot[a].pc = "decr" /\ slot[b].pc = "decr" /\ a \in ahead[b] =>
             \E i \in Pending(k) :
                slot[i].pc = "incr" /\ a \in ahead[i] /\ i \in ahead[b]
    /\ \A k \in attached :
          \/ Pending(k) = {}
          \/ \E i \in Pending(k) :
                slot[i].pc = "incr" /\ \A o \in Pending(k) : o = i \/ o \in ahead[i]

\* The sockets that the count holds: they are attached with nothing on its way,
\* or a DECR comes first.
Counted ==
    {k \in Sockets :
       \/ k \in attached /\ Pending(k) = {}
       \/ \E d \in Pending(k) :
             slot[d].pc = "decr" /\ ahead[d] \cap Pending(k) = {}}

\* Until a command is dropped or the key expires: the count is never short, and
\* so it is never clamped.
CountInv ==
    /\ OrderInv
    /\ misses = 0 => /\ Cardinality(Counted) <= count
                     /\ \A s \in Slots : slot[s].pc # "clamp"

LEMMA CountedFinite ==
    /\ IsFiniteSet(Counted) /\ Cardinality(Counted) \in Nat
    /\ IsFiniteSet(Counted') /\ Cardinality(Counted') \in Nat
<1>1. /\ IsFiniteSet(Sockets) /\ Counted \subseteq Sockets
      /\ Counted' \subseteq Sockets
  BY TerminalSessionsAssumption DEF Counted
<1> QED
  BY <1>1, FS_Subset, FS_CardinalityType

\* The commands about a socket are sent by its process.
LEMMA PendingCommands ==
    ASSUME TypeInv, NEW k \in Sockets
    PROVE  Pending(k) \subseteq Commands(Home[k])
<1>1. \A s \in Slots : slot[s] \in Good
  BY DEF TypeInv
<1> QED
  BY <1>1 DEF Pending, Commands, Good, ControlPcs

\* A step that leaves the sockets and the commands on their way alone.
LEMMA OrderFrame ==
    ASSUME TypeInv, OrderInv, attached' = attached, ahead' = ahead,
           \A s \in Slots : \/ slot'[s] = slot[s]
                            \/ /\ slot[s].pc \notin {"incr", "decr"}
                               /\ slot'[s].pc \notin {"incr", "decr"}
    PROVE  OrderInv' /\ Counted' = Counted
<1>1. \A k \in Sockets : Pending(k)' = Pending(k)
  BY DEF Pending
<1>3. \A k \in Sockets : \A s \in Pending(k) : slot'[s] = slot[s] /\ s \in Slots
  BY DEF Pending
<1>5. \A s \in Slots : AheadOK(s)'
  BY DEF OrderInv, AheadOK, Commands
<1>6. attached \subseteq Sockets
  BY DEF TypeInv, RestOK
<1>7. OrderInv'
  BY <1>1, <1>3, <1>5, <1>6 DEF OrderInv
<1>8. Counted' = Counted
  BY <1>1, <1>3 DEF Counted
<1> QED
  BY <1>7, <1>8

\* A command about k goes out behind those that are on their way; a DECR only
\* for an attached socket, which it leaves unattached.
LEMMA OrderSend ==
    ASSUME TypeInv, OrderInv, NEW s \in Slots, NEW k \in Sockets,
           slot[s].pc \notin {"incr", "decr"}, Send(s, Home[k]),
           \A o \in Slots : o # s => slot'[o] = slot[o],
           slot'[s].p = Home[k], slot'[s].sock = k,
           \/ slot'[s].pc = "incr" /\ attached' = attached \cup {k}
           \/ /\ slot'[s].pc = "decr"
              /\ k \in attached /\ attached' = attached \ {k}
    PROVE  OrderInv' /\ Counted' \subseteq Counted
<1>1. \A j \in Sockets \ {k} : Pending(j)' = Pending(j)
  BY DEF Pending
<1>2. Pending(k)' = Pending(k) \cup {s} /\ s \notin Pending(k)
  BY DEF Pending
<1>4. /\ ahead'[s] = Commands(Home[k])
      /\ \A o \in Slots : o # s => ahead'[o] = ahead[o]
  BY DEF Send, TypeInv, RestOK
<1>5. \A o \in Slots : s \notin ahead[o]
  BY DEF OrderInv, AheadOK, Commands
<1>6. Pending(k) \subseteq ahead'[s] /\ s \notin ahead'[s]
  BY <1>4, PendingCommands DEF Commands
<1>7. \A j \in Sockets : Pending(j) \subseteq Slots /\ Pending(j)' \subseteq Slots
  BY DEF Pending
<1>8. \A j \in Sockets \ {k} : \A o \in Pending(j) :
         o \in Slots /\ slot'[o] = slot[o] /\ ahead'[o] = ahead[o]
  BY <1>4 DEF Pending
<1>9. \A o \in Pending(k) :
         o \in Slots /\ slot'[o] = slot[o] /\ ahead'[o] = ahead[o]
  BY <1>2, <1>4 DEF Pending
<1>10. attached \subseteq Sockets
  BY DEF TypeInv, RestOK
<1>11. \A o \in Slots : AheadOK(o)'
  BY <1>4 DEF OrderInv, AheadOK, Commands
<1>12. \A j \in Sockets : \A a, b \in Pending(j)' :
          a = b \/ a \in ahead'[b] \/ b \in ahead'[a]
  <2>1. ASSUME NEW j \in Sockets \ {k}, NEW a \in Pending(j), NEW b \in Pending(j)
        PROVE  a = b \/ a \in ahead'[b] \/ b \in ahead'[a]
    BY <1>8 DEF OrderInv
  <2>2. ASSUME NEW a \in Pending(k), NEW b \in Pending(k)
        PROVE  a = b \/ a \in ahead'[b] \/ b \in ahead'[a]
    BY <1>9 DEF OrderInv
  <2> QED
    BY <1>1, <1>2, <1>6, <2>1, <2>2
<1>13. \A j \in Sockets : \A a, b \in Pending(j)' :
          slot'[a].pc = "decr" /\ slot'[b].pc = "decr" /\ a \in ahead'[b] =>
             \E i \in Pending(j)' :
                slot'[i].pc = "incr" /\ a \in ahead'[i] /\ i \in ahead'[b]
  <2>1. ASSUME NEW j \in Sockets \ {k}, NEW a \in Pending(j), NEW b \in Pending(j),
               slot[a].pc = "decr", slot[b].pc = "decr", a \in ahead[b]
        PROVE  \E i \in Pending(j) :
                  slot'[i].pc = "incr" /\ a \in ahead'[i] /\ i \in ahead'[b]
    BY <1>8, <2>1 DEF OrderInv
  <2>2. ASSUME NEW a \in Pending(k), NEW b \in Pending(k),
               slot[a].pc = "decr", slot[b].pc = "decr", a \in ahead[b]
        PROVE  \E i \in Pending(k) :
                  slot'[i].pc = "incr" /\ a \in ahead'[i] /\ i \in ahead'[b]
    BY <1>9, <2>2 DEF OrderInv
  <2>3. ASSUME NEW a \in Pending(k), slot[a].pc = "decr", slot'[s].pc = "decr"
        PROVE  \E i \in Pending(k) :
                  slot'[i].pc = "incr" /\ a \in ahead'[i] /\ i \in ahead'[s]
    <3>1. PICK i \in Pending(k) :
             slot[i].pc = "incr" /\ \A o \in Pending(k) : o = i \/ o \in ahead[i]
      BY <2>3 DEF OrderInv
    <3> QED
      BY <1>6, <1>9, <2>3, <3>1
  <2>4. \A b \in Pending(k) : s \notin ahead'[b]
    BY <1>5, <1>9
  <2> QED
    BY <1>1, <1>2, <1>6, <1>8, <1>9, <2>1, <2>2, <2>3, <2>4
<1>14. \A j \in attached' :
          \/ Pending(j)' = {}
          \/ \E i \in Pending(j)' :
                /\ slot'[i].pc = "incr"
                /\ \A o \in Pending(j)' : o = i \/ o \in ahead'[i]
  <2>1. ASSUME NEW j \in attached \ {k}
        PROVE  \/ Pending(j)' = {}
               \/ \E i \in Pending(j)' :
                     /\ slot'[i].pc = "incr"
                     /\ \A o \in Pending(j)' : o = i \/ o \in ahead'[i]
    BY <1>1, <1>8, <1>10, <2>1 DEF OrderInv
  <2>2. k \in attached' => slot'[s].pc = "incr"
    OBVIOUS
  <2> QED
    BY <1>2, <1>6, <2>1, <2>2
<1>15. OrderInv'
  BY <1>11, <1>12, <1>13, <1>14 DEF OrderInv
<1>16. Counted' \subseteq Counted
  <2>1. ASSUME NEW j \in Sockets \ {k}, j \in Counted' PROVE j \in Counted
    BY <1>1, <1>8, <2>1 DEF Counted
  <2>2. ASSUME k \in Counted' PROVE k \in Counted
    <3>1. PICK d \in Pending(k)' :
             slot'[d].pc = "decr" /\ ahead'[d] \cap Pending(k)' = {}
      BY <1>2, <2>2 DEF Counted
    <3>2. CASE d = s
      BY <1>2, <1>6, <3>1, <3>2 DEF Counted
    <3>3. CASE d \in Pending(k)
      BY <1>2, <1>9, <3>1, <3>3 DEF Counted
    <3> QED
      BY <1>2, <3>1, <3>2, <3>3
  <2> QED
    BY <2>1, <2>2 DEF Counted
<1> QED
  BY <1>15, <1>16

\* A command is executed, or dropped.  A DECR finds its socket counted.
LEMMA OrderExecuted ==
    ASSUME TypeInv, OrderInv, NEW s \in Slots, NEW k \in Sockets,
           slot[s].pc \in {"incr", "decr"}, slot[s].sock = k, Executed(s),
           \A o \in Slots : o # s => slot'[o] = slot[o],
           slot'[s].pc \notin {"incr", "decr"}, attached' = attached
    PROVE  /\ OrderInv' /\ Counted' \subseteq Counted \cup {k}
           /\ slot[s].pc = "decr" => k \in Counted /\ Counted' \subseteq Counted \ {k}
<1>1. \A j \in Sockets \ {k} : Pending(j)' = Pending(j) /\ s \notin Pending(j)
  BY DEF Pending
<1>2. Pending(k)' = Pending(k) \ {s} /\ s \in Pending(k)
  BY DEF Pending
<1>4. ahead[s] = {} /\ \A o \in Slots : ahead'[o] = ahead[o] \ {s}
  BY DEF Executed
<1>5. \A j \in Sockets : \A o \in Pending(j) : o \in Slots
  BY DEF Pending
<1>6. attached \subseteq Sockets
  BY DEF TypeInv, RestOK
<1>7. \A o \in Slots : AheadOK(o)'
  BY <1>4 DEF OrderInv, AheadOK, Commands
<1>8. \A j \in Sockets : \A a, b \in Pending(j)' :
         a = b \/ a \in ahead'[b] \/ b \in ahead'[a]
  BY <1>1, <1>2, <1>4, <1>5 DEF OrderInv
<1>9. ASSUME NEW j \in Sockets, NEW a \in Pending(j)', NEW b \in Pending(j)',
             slot'[a].pc = "decr", slot'[b].pc = "decr", a \in ahead'[b]
      PROVE  \E i \in Pending(j)' :
                slot'[i].pc = "incr" /\ a \in ahead'[i] /\ i \in ahead'[b]
  <2>1. a \in Pending(j) /\ b \in Pending(j) /\ a # s /\ b # s /\ a \in ahead[b]
    BY <1>1, <1>2, <1>4, <1>5, <1>9
  <2>2. PICK i \in Pending(j) :
           slot[i].pc = "incr" /\ a \in ahead[i] /\ i \in ahead[b]
    BY <1>5, <1>9, <2>1 DEF OrderInv
  <2>3. i # s
    BY <1>4, <2>2
  <2> QED
    BY <1>1, <1>2, <1>4, <1>5, <2>1, <2>2, <2>3
<1>10. ASSUME NEW j \in attached
       PROVE  \/ Pending(j)' = {}
              \/ \E i \in Pending(j)' :
                    /\ slot'[i].pc = "incr"
                    /\ \A o \in Pending(j)' : o = i \/ o \in ahead'[i]
  <2>1. CASE Pending(j) = {}
    BY <1>1, <1>2, <1>6, <2>1
  <2>2. CASE Pending(j) # {}
    <3>1. PICK i \in Pending(j) :
             slot[i].pc = "incr" /\ \A o \in Pending(j) : o = i \/ o \in ahead[i]
      BY <2>2 DEF OrderInv
    <3>2. CASE i = s
      BY <1>1, <1>2, <1>4, <1>6, <3>1, <3>2
    <3>3. CASE i # s
      BY <1>1, <1>2, <1>4, <1>5, <1>6, <3>1, <3>3
    <3> QED
      BY <3>2, <3>3
  <2> QED
    BY <2>1, <2>2
<1>11. OrderInv'
  BY <1>7, <1>8, <1>9, <1>10 DEF OrderInv
<1>12. ASSUME NEW j \in Sockets \ {k}, j \in Counted' PROVE j \in Counted
  <2>1. CASE j \in attached /\ Pending(j)' = {}
    BY <1>1, <2>1 DEF Counted
  <2>2. ASSUME NEW d \in Pending(j)', slot'[d].pc = "decr",
               ahead'[d] \cap Pending(j)' = {}
        PROVE  j \in Counted
    BY <1>1, <1>4, <1>5, <2>2 DEF Counted
  <2> QED
    BY <1>12, <2>1, <2>2 DEF Counted
<1>13. Counted' \subseteq Counted \cup {k}
  BY <1>12 DEF Counted
<1>14. ASSUME slot[s].pc = "decr" PROVE k \in Counted
  BY <1>2, <1>4, <1>14 DEF Counted
<1>15. ASSUME slot[s].pc = "decr", k \in Counted' PROVE FALSE
  <2>1. CASE k \in attached /\ Pending(k)' = {}
    BY <1>2, <1>15, <2>1 DEF OrderInv
  <2>2. ASSUME NEW d \in Pending(k)', slot'[d].pc = "decr",
               ahead'[d] \cap Pending(k)' = {}
        PROVE  FALSE
    <3>1. d \in Pending(k) /\ d # s /\ slot[d].pc = "decr" /\ d \in Slots
      BY <1>2, <1>5, <2>2
    <3>2. s \in ahead[d]
      BY <1>2, <1>4, <3>1 DEF OrderInv
    <3>3. PICK i \in Pending(k) : slot[i].pc = "incr" /\ i \in ahead[d]
      BY <1>2, <1>15, <3>1, <3>2 DEF OrderInv
    <3>4. i \in Pending(k)' /\ i \in ahead'[d]
      BY <1>2, <1>4, <1>15, <3>1, <3>3
    <3> QED
      BY <2>2, <3>4
  <2> QED
    BY <1>15, <2>1, <2>2 DEF Counted
<1> QED
  BY <1>11, <1>13, <1>14, <1>15

\* A process dies with its commands and its sockets.
LEMMA OrderDies ==
    ASSUME TypeInv, OrderInv, NEW p \in Processes, ProcessDies(p)
    PROVE  OrderInv' /\ Counted' \subseteq Counted
<1> USE DEF ctrlVars
<1>1. /\ attached' = attached \ {k \in Sockets : Home[k] = p}
      /\ \A s \in Slots : /\ slot'[s] = IF slot[s].p = p THEN Idle ELSE slot[s]
                          /\ ahead'[s] = IF slot[s].p = p THEN {} ELSE ahead[s]
  BY DEF ProcessDies
<1>2. Idle.pc \notin {"incr", "decr"}
  BY DEF Idle
<1>3. \A k \in Sockets : \A s \in Pending(k) : s \in Slots /\ slot[s].p = Home[k]
  BY PendingCommands DEF Commands
<1>4. \A k \in Sockets : Home[k] = p => Pending(k)' = {}
  BY <1>1, <1>2, <1>3 DEF Pending
<1>5. \A k \in Sockets : Home[k] # p => Pending(k)' = Pending(k)
  BY <1>1, <1>2, <1>3 DEF Pending
<1>6. \A k \in Sockets : Home[k] # p => \A s \in Pending(k) :
         s \in Slots /\ slot'[s] = slot[s] /\ ahead'[s] = ahead[s]
  BY <1>1, <1>3
<1>8. attached \subseteq Sockets
  BY DEF TypeInv, RestOK
<1>9. \A s \in Slots : AheadOK(s)'
  BY <1>1 DEF OrderInv, AheadOK, Commands
<1>10. ASSUME NEW k \in Sockets
       PROVE  /\ \A a, b \in Pending(k)' :
                    a = b \/ a \in ahead'[b] \/ b \in ahead'[a]
              /\ \A a, b \in Pending(k)' :
                    /\ slot'[a].pc = "decr" /\ slot'[b].pc = "decr"
                    /\ a \in ahead'[b]
                    => \E i \in Pending(k)' :
                          /\ slot'[i].pc = "incr"
                          /\ a \in ahead'[i] /\ i \in ahead'[b]
  <2>1. CASE Home[k] = p
    BY <1>4, <2>1
  <2>2. CASE Home[k] # p
    BY <1>5, <1>6, <2>2 DEF OrderInv
  <2> QED
    BY <2>1, <2>2
<1>11. ASSUME NEW k \in attached'
       PROVE  \/ Pending(k)' = {}
              \/ \E i \in Pending(k)' :
                    /\ slot'[i].pc = "incr"
                    /\ \A o \in Pending(k)' : o = i \/ o \in ahead'[i]
  BY <1>1, <1>5, <1>6, <1>8 DEF OrderInv
<1>12. OrderInv'
  BY <1>9, <1>10, <1>11 DEF OrderInv
<1>13. ASSUME NEW k \in Sockets, k \in Counted' PROVE k \in Counted
  <2>1. CASE Home[k] = p
    BY <1>1, <1>4, <1>13, <2>1 DEF Counted
  <2>2. CASE Home[k] # p
    BY <1>1, <1>5, <1>6, <1>13, <2>2 DEF Counted
  <2> QED
    BY <2>1, <2>2
<1> QED
  BY <1>12, <1>13 DEF Counted

-----------------------------------------------------------------------------
(* Its steps.                                                                *)

\* A step that counts no more sockets and changes neither the count nor the
\* clamping keeps the invariant of the count.
LEMMA CountStep ==
    ASSUME TypeInv, CountInv, OrderInv', Counted' \subseteq Counted,
           count' = count, misses' = 0 => misses = 0,
           \A s \in Slots : slot'[s].pc = "clamp" => slot[s].pc = "clamp"
    PROVE  CountInv'
<1>1. Cardinality(Counted') <= Cardinality(Counted)
  BY CountedFinite, FS_Subset
<1> QED
  BY <1>1, CountedFinite DEF CountInv, TypeInv, RestOK

\* A step that touches no command keeps it.
LEMMA CountFrame ==
    ASSUME TypeInv, CountInv, attached' = attached, ahead' = ahead,
           count' = count, misses' = 0 => misses = 0,
           \A s \in Slots : \/ slot'[s] = slot[s]
                            \/ /\ slot[s].pc \notin {"incr", "decr"}
                               /\ slot'[s].pc \notin {"incr", "decr", "clamp"}
    PROVE  CountInv'
BY OrderFrame, CountStep DEF CountInv

\* Handlers that have nothing to do with controllers.
LEMMA SlotBegin ==
    ASSUME NEW s \in Slots, NEW p, NEW pc, NEW k, NEW ent, NEW n, TypeInv,
           Begin(s, p, pc, k, ent, n)
    PROVE  /\ slot[s].pc = "idle" /\ slot'[s].pc = pc
           /\ slot'[s].p = p /\ slot'[s].sock = k
           /\ \A o \in Slots : o # s => slot'[o] = slot[o]
BY DEF Begin, TypeInv, Idle

LEMMA CountBegin ==
    ASSUME TypeInv, CountInv, NEW s \in Slots, NEW p, NEW pc, NEW k, NEW ent,
           NEW n, Begin(s, p, pc, k, ent, n),
           pc \notin {"incr", "decr", "clamp"},
           UNCHANGED <<attached, ahead, count, misses>>
    PROVE  CountInv'
BY SlotBegin, CountFrame

\* detachController is called for an attached socket.
LEMMA CountDetach ==
    ASSUME TypeInv, CountInv, NEW s \in Slots, NEW k \in attached, NEW n,
           Begin(s, Home[k], "decr", k, "none", n), Send(s, Home[k]),
           attached' = attached \ {k}, UNCHANGED <<count, misses>>
    PROVE  CountInv'
<1>1. k \in Sockets
  BY DEF TypeInv, RestOK
<1>2. /\ slot[s].pc = "idle" /\ slot'[s].pc = "decr"
      /\ slot'[s].p = Home[k] /\ slot'[s].sock = k
      /\ \A o \in Slots : o # s => slot'[o] = slot[o]
  BY SlotBegin
<1>3. OrderInv' /\ Counted' \subseteq Counted
  BY <1>1, <1>2, OrderSend DEF CountInv
<1> QED
  BY <1>2, <1>3, CountStep

\* Every step of a handler keeps the invariant of the count.
LEMMA HandlerCount ==
    ASSUME TypeInv, CountInv, NEW s \in Slots, Handler(s)
    PROVE  CountInv'
<1> USE DEF ctrlVars, bounds
<1>t. slot[s] \in Good
  BY DEF TypeInv
<1>1. CASE \/ SchedulePendingOpenTimeout(s) \/ StartTerminalSession(s)
           \/ MarkFailed(s) \/ CloseUpdate(s) \/ UpdateTerminating(s)
           \/ ScheduleTerminationTimeout(s) \/ StopTerminalSession(s)
           \/ AttachLoad(s) \/ SendToShell(s) \/ OpenedUpdate(s)
           \/ HandleDetachTimeout(s) \/ DetachTimeoutLoad(s)
           \/ HandleTerminationTimeout(s)
  <2>1. /\ slot[s].pc \notin {"incr", "decr"}
        /\ \/ End(s)
           \/ \E pc \in {"start", "fail", "armend", "stop", "control",
                         "detachload", "terminate"} : Goto(s, pc)
           \/ \E ent : CloseSession(s, ent)
    BY <1>1 DEF SchedulePendingOpenTimeout, StartTerminalSession, MarkFailed,
                CloseUpdate, UpdateTerminating, ScheduleTerminationTimeout,
                StopTerminalSession, AttachLoad, SendToShell, OpenedUpdate,
                HandleDetachTimeout, DetachTimeoutLoad,
                HandleTerminationTimeout, At, Emit
  <2>2. /\ \A o \in Slots : o # s => slot'[o] = slot[o]
        /\ slot'[s].pc \notin {"incr", "decr", "clamp"}
    BY <2>1, SlotEnd, SlotGoto, SlotClose
  <2>3. /\ UNCHANGED <<attached, ahead, count>>
        /\ misses' = misses \/ misses' = misses + 1
    BY <1>1 DEF SchedulePendingOpenTimeout, StartTerminalSession, MarkFailed,
                CloseUpdate, UpdateTerminating, ScheduleTerminationTimeout,
                StopTerminalSession, AttachLoad, SendToShell, OpenedUpdate,
                HandleDetachTimeout, DetachTimeoutLoad,
                HandleTerminationTimeout, Miss
  <2>4. misses' = 0 => misses = 0
    BY <2>3 DEF TypeInv, RestOK
  <2> QED
    BY <2>1, <2>2, <2>3, <2>4, CountFrame
<1>2. CASE Attach(s)
  <2>1. /\ slot[s].pc = "control" /\ slot[s].sock \in Sockets
        /\ slot[s].p = Home[slot[s].sock] /\ Goto(s, "incr")
    BY <1>2, <1>t DEF Attach, At, Good, ControlPcs
  <2>2. /\ slot'[s].pc = "incr" /\ \A o \in Slots : o # s => slot'[o] = slot[o]
        /\ slot'[s].p = slot[s].p /\ slot'[s].sock = slot[s].sock
    BY <2>1, <1>t, SlotGoto DEF Goto, Good, SlotType, TypeInv
  <2>3. OrderInv' /\ Counted' \subseteq Counted
    BY <1>2, <2>1, <2>2, OrderSend DEF Attach, CountInv
  <2> QED
    BY <1>2, <2>2, <2>3, CountStep DEF Attach
<1>3. CASE IncrementControllerCount(s)
  <2> DEFINE k == slot[s].sock
  <2>1. /\ slot[s].pc = "incr" /\ k \in Sockets /\ Executed(s) /\ End(s)
        /\ attached' = attached
    BY <1>3, <1>t DEF IncrementControllerCount, At, Good, ControlPcs
  <2>2. slot'[s].pc = "idle" /\ \A o \in Slots : o # s => slot'[o] = slot[o]
    BY <2>1, SlotEnd
  <2>3. OrderInv' /\ Counted' \subseteq Counted \cup {k}
    BY <2>1, <2>2, OrderExecuted DEF CountInv
  <2>4. Cardinality(Counted') <= Cardinality(Counted) + 1
    <3> HIDE DEF k
    <3>1. /\ IsFiniteSet(Counted \cup {k})
          /\ Cardinality(Counted \cup {k}) =
                IF k \in Counted THEN Cardinality(Counted)
                ELSE Cardinality(Counted) + 1
      BY CountedFinite, FS_AddElement
    <3>2. Cardinality(Counted') <= Cardinality(Counted \cup {k})
      BY <2>3, <3>1, FS_Subset
    <3> QED
      BY <3>1, <3>2, CountedFinite
  <2>5. \/ count' = count + 1 /\ misses' = misses
        \/ misses' = misses + 1
    BY <1>3 DEF IncrementControllerCount, Miss
  <2> QED
    BY <2>2, <2>3, <2>4, <2>5, CountedFinite DEF CountInv, TypeInv, RestOK
<1>4. CASE DecrementControllerCount(s)
  <2> DEFINE k == slot[s].sock
  <2>1. /\ slot[s].pc = "decr" /\ k \in Sockets /\ Executed(s)
        /\ attached' = attached
    BY <1>4, <1>t DEF DecrementControllerCount, At, Good, ControlPcs
  <2>2. \/ Goto(s, "clamp") /\ count' < 0 /\ count' = count - 1
        \/ Goto(s, "attach") \/ End(s)
    BY <1>4 DEF DecrementControllerCount, Detached
  <2>3. /\ \A o \in Slots : o # s => slot'[o] = slot[o]
        /\ slot'[s].pc \in {"idle", "attach", "clamp"}
        /\ slot'[s].pc = "clamp" => count' < 0 /\ count' = count - 1
    BY <2>2, SlotGoto, SlotEnd
  <2>4. /\ OrderInv' /\ k \in Counted /\ Counted' \subseteq Counted \ {k}
    BY <2>1, <2>3, OrderExecuted DEF CountInv
  <2>5. Cardinality(Counted') <= Cardinality(Counted) - 1
    <3> HIDE DEF k
    <3>1. /\ IsFiniteSet(Counted \ {k})
          /\ Cardinality(Counted \ {k}) = Cardinality(Counted) - 1
      BY <2>4, CountedFinite, FS_RemoveElement
    <3> QED
      BY <2>4, <3>1, FS_Subset
  <2>6. \/ count' = count - 1 /\ misses' = misses
        \/ misses' = misses + 1
    BY <1>4 DEF DecrementControllerCount, Miss
  <2> QED
    BY <2>3, <2>4, <2>5, <2>6, CountedFinite DEF CountInv, TypeInv, RestOK
<1>5. CASE ClampControllerCount(s)
  <2>1. /\ slot[s].pc = "clamp" /\ (Goto(s, "attach") \/ End(s))
        /\ UNCHANGED <<attached, ahead, misses>>
    BY <1>5 DEF ClampControllerCount, At, Detached
  <2>2. /\ \A o \in Slots : o # s => slot'[o] = slot[o]
        /\ slot'[s].pc \in {"idle", "attach"}
    BY <2>1, SlotGoto, SlotEnd
  <2>3. OrderInv'
    BY <2>1, <2>2, OrderFrame DEF CountInv
  <2>4. misses # 0
    BY <2>1 DEF CountInv
  <2> QED
    BY <2>1, <2>3, <2>4 DEF CountInv
<1> QED
  BY <1>1, <1>2, <1>3, <1>4, <1>5 DEF Handler

\* Every step keeps the invariant of the count.
LEMMA NextCount == TypeInv /\ CountInv /\ [Next]_vars => CountInv'
<1> SUFFICES ASSUME TypeInv, CountInv, [Next]_vars PROVE CountInv'
  OBVIOUS
<1> USE DEF ctrlVars, bounds
<1>s. Calls \subseteq Slots /\ Timers \subseteq Slots /\ Sockets \subseteq Slots
  BY DEF Slots
<1>1. ASSUME NEW s \in Calls, NEW k \in Sockets, AttachController(s, k)
      PROVE  CountInv'
  <2>1. UNCHANGED <<count, misses>>
    BY <1>1 DEF AttachController
  <2>2. CASE k \in attached
    BY <1>1, <1>s, <2>1, <2>2, CountDetach DEF AttachController, HasAttachment
  <2>3. CASE k \notin attached
    BY <1>1, <1>s, <2>1, <2>3, CountBegin DEF AttachController, HasAttachment
  <2> QED
    BY <2>2, <2>3
<1>2. ASSUME NEW k \in Sockets, DetachController(k)
      PROVE  CountInv'
  <2>1. UNCHANGED <<count, misses>>
    BY <1>2 DEF DetachController
  <2>2. CASE k \in attached
    BY <1>2, <1>s, <2>1, <2>2, CountDetach DEF DetachController, HasAttachment
  <2>3. CASE k \notin attached
    BY <1>2, <2>1, <2>3, CountFrame DEF DetachController, HasAttachment
  <2> QED
    BY <2>2, <2>3
<1>3. ASSUME NEW s \in Slots, Handler(s)
      PROVE  CountInv'
  BY <1>3, HandlerCount
<1>4. ASSUME NEW p \in Processes, ProcessDies(p)
      PROVE  CountInv'
  <2>1. UNCHANGED <<count, misses>>
    BY <1>4 DEF ProcessDies
  <2>2. \A s \in Slots : slot'[s].pc = "clamp" => slot[s].pc = "clamp"
    BY <1>4 DEF ProcessDies, Idle
  <2> QED
    BY <1>4, <2>1, <2>2, OrderDies, CountStep DEF CountInv
<1>5. CASE CountExpires
  <2>1. /\ UNCHANGED <<attached, ahead, slot>> /\ misses' = misses + 1
    BY <1>5 DEF CountExpires, Miss, slotVars
  <2>2. OrderInv' /\ misses' # 0
    BY <2>1, OrderFrame DEF CountInv, TypeInv, RestOK
  <2> QED
    BY <2>2 DEF CountInv
<1>6. ASSUME NEW s \in Calls, NEW p \in Processes,
             CreateSession(s, p) \/ TerminateSession(s, p)
      PROVE  CountInv'
  BY <1>6, <1>s, CountBegin DEF CreateSession, TerminateSession
<1>7. ASSUME NEW s \in Calls, NEW k \in Sockets, ControllerMessage(s, k)
      PROVE  CountInv'
  BY <1>7, <1>s, CountBegin DEF ControllerMessage
<1>8. ASSUME NEW s \in Calls, HandleAgentEvent(s)
      PROVE  CountInv'
  <2>1. UNCHANGED <<attached, ahead, count, misses>>
    BY <1>8 DEF HandleAgentEvent
  <2>2. \/ \E pc \in {"opened", "close"}, ent \in {"none"} \cup Ended :
              Begin(s, AgentHome, pc, NoSocket, ent, 0)
        \/ UNCHANGED slot
    BY <1>8 DEF HandleAgentEvent, slotVars, Ended
  <2>3. CASE UNCHANGED slot
    BY <2>1, <2>3, CountFrame
  <2>4. ASSUME NEW pc \in {"opened", "close"}, NEW ent,
               Begin(s, AgentHome, pc, NoSocket, ent, 0)
        PROVE  CountInv'
    BY <1>s, <2>1, <2>4, CountBegin
  <2> QED
    BY <2>2, <2>3, <2>4
<1>9. ASSUME NEW s \in Calls, HandleAgentOutput(s)
      PROVE  CountInv'
  BY <1>9, <1>s, CountBegin DEF HandleAgentOutput
<1>10. ASSUME NEW t \in Timers, TimerFires(t)
       PROVE  CountInv'
  <2>1. PICK pc \in {"fail", "detached", "ending"} :
           Begin(t, t[1], pc, NoSocket, "closed", 0)
    BY <1>10 DEF TimerFires, Timers, Kinds
  <2>2. UNCHANGED <<attached, ahead, count, misses>>
    BY <1>10 DEF TimerFires
  <2> QED
    BY <1>s, <2>1, <2>2, CountBegin
<1>11. CASE AgentReceives \/ ShellExits \/ ConnectionBreaks \/ UNCHANGED vars
  <2>1. UNCHANGED <<attached, ahead, count, misses, slot>>
    BY <1>11 DEF AgentReceives, ShellExits, ConnectionBreaks, vars, slotVars
  <2> QED
    BY <2>1, CountFrame
<1> QED
  BY <1>1, <1>2, <1>3, <1>4, <1>5, <1>6, <1>7, <1>8, <1>9, <1>10, <1>11
     DEF Next, Requests, AgentEvents

LEMMA InitCount == Init => CountInv
<1> SUFFICES ASSUME Init PROVE CountInv
  OBVIOUS
<1>1. /\ \A s \in Slots : slot[s].pc = "idle" /\ ahead[s] = {}
      /\ attached = {} /\ count = 0
  BY DEF Init, Idle
<1>2. \A k : Pending(k) = {}
  BY <1>1 DEF Pending
<1>3. Counted = {}
  BY <1>1, <1>2 DEF Counted
<1> QED
  BY <1>1, <1>2, <1>3, FS_EmptySet DEF CountInv, OrderInv, AheadOK

\* The invariant says what the count is worth.
LEMMA CountEnough == TypeInv /\ CountInv => NeverUndercounted
<1> SUFFICES ASSUME TypeInv, CountInv, misses = 0
             PROVE  Cardinality(attached \ BeingCounted) <= count
  BY DEF NeverUndercounted
<1>1. attached \ BeingCounted \subseteq Counted
  <2> SUFFICES ASSUME NEW k \in attached, k \notin BeingCounted
               PROVE  k \in Counted
    OBVIOUS
  <2>1. k \in Sockets
    BY DEF TypeInv, RestOK
  <2>2. \A i \in Pending(k) : slot[i].pc # "incr"
    BY DEF Pending, BeingCounted, At
  <2>3. Pending(k) = {}
    BY <2>2 DEF CountInv, OrderInv
  <2> QED
    BY <2>1, <2>3 DEF Counted
<1>2. Cardinality(attached \ BeingCounted) <= Cardinality(Counted)
  BY <1>1, CountedFinite, FS_Subset
<1>3. Cardinality(attached \ BeingCounted) \in Nat
  BY <1>1, CountedFinite, FS_Subset, FS_CardinalityType
<1> QED
  BY <1>2, <1>3, CountedFinite DEF CountInv, TypeInv, RestOK

\* For any number of processes, controllers and calls in progress the count
\* in Redis is at least the number of attached controllers whose INCR has been
\* executed, until a command is dropped or the key expires: no INCR is undone
\* by another socket's DECR or by the clamp (incrementControllerCount,
\* decrementControllerCount, attachController, detachController).
THEOREM ControllersCounted == Spec => []NeverUndercounted
BY CountEnough, InitCount, InitType, NextType, NextCount, PTL DEF Spec
-----------------------------------------------------------------------------
(* Without overlapping handlers.                                             *)

\* Handlers that are about to write the row of a session that has not ended.
LiveAt == {"opened", "terminate", "armend", "stop", "close"}

\* What the end of a grace window has been told, unless something was missed.
NoneCounted == misses = 0 => count <= 0

\* As long as no handler has begun next to another one: one runs at most, the
\* session has not ended when one is about to write its row, and the grace
\* window that goes on to end it has found the count at zero.
AloneInv ==
    Calm =>
      /\ \A s1, s2 \in Slots : slot[s1] # Idle /\ slot[s2] # Idle => s1 = s2
      /\ \A s \in Slots : slot[s].pc \in LiveAt => Live
      /\ \A p \in Processes :
            slot[<<p, "detach">>].pc \in {"detachload", "terminate"}
              => NoneCounted

\* The grace window's callback runs in a slot of its own.
LEMMA DetachSlots ==
    /\ \A p \in Processes : <<p, "detach">> \in Slots
    /\ \A p \in Processes, s \in Calls : s # <<p, "detach">>
    /\ \A p \in Processes, k \in Sockets : k # <<p, "detach">>
    /\ Calls \subseteq Slots /\ Timers \subseteq Slots
    /\ Sockets \subseteq Slots
BY TerminalSessionsAssumption DEF Slots, Timers, Kinds

\* A step of the one handler keeps the invariant if its own slot does.
LEMMA AloneStep ==
    ASSUME TypeInv, AloneInv, NEW s \in Slots, slot[s].pc # "idle",
           overlaps' = overlaps,
           \A o \in Slots : o # s => slot'[o] = slot[o],
           slot'[s].pc \in LiveAt /\ Calm => Live',
           \A p \in Processes :
              s = <<p, "detach">> /\ Calm
                /\ slot'[s].pc \in {"detachload", "terminate"} => NoneCounted'
    PROVE  AloneInv'
<1> SUFFICES ASSUME Calm' PROVE AloneInv'
  BY DEF AloneInv
<1>1. Calm /\ slot[s] # Idle
  BY DEF Calm, Idle
<1>2. \A o \in Slots : o # s => slot'[o] = Idle
  BY <1>1 DEF AloneInv
<1>3. Idle.pc = "idle" /\ "idle" \notin LiveAt
  BY DEF Idle, LiveAt
<1>4. \A o \in Slots : slot'[o].pc \in LiveAt => Live'
  BY <1>1, <1>2, <1>3
<1>5. ASSUME NEW p \in Processes,
             slot'[<<p, "detach">>].pc \in {"detachload", "terminate"}
      PROVE  NoneCounted'
  <2>1. s = <<p, "detach">>
    BY <1>2, <1>3, <1>5, DetachSlots
  <2> QED
    BY <1>1, <1>5, <2>1
<1> QED
  BY <1>2, <1>4, <1>5 DEF AloneInv

\* A handler that begins alone keeps the invariant if its own slot does.
LEMMA AloneBegin ==
    ASSUME TypeInv, AloneInv, NEW s \in Slots, NEW p, NEW pc, NEW k, NEW ent,
           NEW n, Begin(s, p, pc, k, ent, n),
           pc \in LiveAt => Live',
           \A q \in Processes :
              s = <<q, "detach">> => pc \notin {"detachload", "terminate"}
    PROVE  AloneInv'
<1> SUFFICES ASSUME Calm' PROVE AloneInv'
  BY DEF AloneInv
<1>1. \A o \in Slots : slot[o] = Idle
  BY DEF Begin, Overlap, Calm, TypeInv, RestOK
<1>2. slot'[s].pc = pc /\ \A o \in Slots : o # s => slot'[o] = Idle
  BY <1>1 DEF Begin, TypeInv
<1>3. Idle.pc = "idle" /\ "idle" \notin LiveAt
  BY DEF Idle, LiveAt
<1>4. \A q \in Processes :
         slot'[<<q, "detach">>].pc \notin {"detachload", "terminate"}
  BY <1>2, <1>3, DetachSlots
<1>5. \A o \in Slots : slot'[o].pc \in LiveAt => Live'
  BY <1>2, <1>3
<1> QED
  BY <1>2, <1>4, <1>5 DEF AloneInv

\* A step that begins no handler, goes on with none, and leaves the row and
\* the count alone while there is one.
LEMMA AloneFrame ==
    ASSUME TypeInv, AloneInv, Calm' => Calm,
           \A s \in Slots : slot'[s] = slot[s] \/ slot'[s] = Idle,
           \/ status' = status /\ count' = count /\ misses' = misses
           \/ Calm' => \A s \in Slots : slot[s] = Idle
    PROVE  AloneInv'
<1> SUFFICES ASSUME Calm' PROVE AloneInv'
  BY DEF AloneInv
<1>1. Idle.pc \notin LiveAt /\ Idle.pc \notin {"detachload", "terminate"}
  BY DEF Idle, LiveAt
<1>2. CASE status' = status /\ count' = count /\ misses' = misses
  BY <1>1, <1>2, DetachSlots DEF AloneInv, Live, NoneCounted
<1>3. CASE \A s \in Slots : slot[s] = Idle
  BY <1>1, <1>3, DetachSlots DEF AloneInv
<1> QED
  BY <1>2, <1>3

LEMMA AloneHandler ==
    ASSUME TypeInv, AloneInv, NEW s \in Slots, Handler(s)
    PROVE  AloneInv'
<1> USE DEF ctrlVars, bounds
<1>a. Calm /\ slot[s].pc \in LiveAt => Live
  BY DEF AloneInv
<1>c. \A p \in Processes :
         s = <<p, "detach">> /\ Calm
           /\ slot[s].pc \in {"detachload", "terminate"} => NoneCounted
  BY DEF AloneInv
<1>1. CASE \/ SchedulePendingOpenTimeout(s) \/ StartTerminalSession(s)
           \/ MarkFailed(s) \/ AttachLoad(s) \/ Attach(s) \/ SendToShell(s)
           \/ HandleTerminationTimeout(s) \/ IncrementControllerCount(s)
           \/ DecrementControllerCount(s) \/ ClampControllerCount(s)
  <2>1. /\ slot[s].pc # "idle" /\ status' = status
        /\ \/ End(s)
           \/ \E pc \in {"start", "fail", "attach", "control", "incr", "clamp"} :
                 Goto(s, pc)
           \/ Live /\ \E ent \in Ended : CloseSession(s, ent)
    BY <1>1 DEF SchedulePendingOpenTimeout, StartTerminalSession, MarkFailed,
                AttachLoad, Attach, SendToShell, HandleTerminationTimeout,
                IncrementControllerCount, DecrementControllerCount,
                ClampControllerCount, Detached, At, Emit, Live, Ended
  <2>2. /\ overlaps' = overlaps
        /\ \A o \in Slots : o # s => slot'[o] = slot[o]
        /\ slot'[s].pc \in {"idle", "start", "fail", "attach", "control",
                           "incr", "clamp", "close"}
        /\ slot'[s].pc = "close" => Live
    BY <2>1, SlotEnd, SlotGoto, SlotClose
  <2> QED
    BY <2>1, <2>2, AloneStep DEF LiveAt, Live
<1>2. CASE CloseUpdate(s) \/ OpenedUpdate(s)
  <2>1. slot[s].pc # "idle" /\ End(s)
    BY <1>2 DEF CloseUpdate, OpenedUpdate, At
  <2>2. /\ slot'[s].pc = "idle" /\ overlaps' = overlaps
        /\ \A o \in Slots : o # s => slot'[o] = slot[o]
    BY <2>1, SlotEnd
  <2> QED
    BY <2>1, <2>2, AloneStep DEF LiveAt
<1>3. CASE UpdateTerminating(s)
  <2>1. /\ slot[s].pc = "terminate" /\ Goto(s, "armend")
        /\ status' = "terminating" /\ count' = count
    BY <1>3 DEF UpdateTerminating, At
  <2>2. Live' /\ "armend" \notin {"detachload", "terminate"}
    BY <2>1 DEF Live, Ended
  <2>3. /\ slot'[s].pc = "armend" /\ overlaps' = overlaps
        /\ \A o \in Slots : o # s => slot'[o] = slot[o]
    BY <2>1, SlotGoto
  <2> QED
    BY <2>1, <2>2, <2>3, AloneStep
<1>4. CASE ScheduleTerminationTimeout(s)
  <2>1. /\ slot[s].pc = "armend" /\ Goto(s, "stop") /\ status' = status
    BY <1>4 DEF ScheduleTerminationTimeout, At
  <2>2. /\ slot'[s].pc = "stop" /\ overlaps' = overlaps
        /\ \A o \in Slots : o # s => slot'[o] = slot[o]
    BY <2>1, SlotGoto
  <2>3. Calm => Live'
    BY <1>a, <2>1 DEF LiveAt, Live
  <2> QED
    BY <2>1, <2>2, <2>3, AloneStep
<1>5. CASE StopTerminalSession(s)
  <2>1. /\ slot[s].pc = "stop" /\ status' = status
        /\ End(s) \/ CloseSession(s, slot[s].ent)
    BY <1>5 DEF StopTerminalSession, At, Emit
  <2>2. /\ slot'[s].pc \in {"idle", "close"} /\ overlaps' = overlaps
        /\ \A o \in Slots : o # s => slot'[o] = slot[o]
    BY <2>1, SlotEnd, SlotClose
  <2>3. Calm => Live'
    BY <1>a, <2>1 DEF LiveAt, Live
  <2> QED
    BY <2>1, <2>2, <2>3, AloneStep
<1>6. CASE HandleDetachTimeout(s)
  <2>1. /\ slot[s].pc = "detached" /\ status' = status
        /\ End(s) \/ (Goto(s, "detachload") /\ NoneCounted')
    BY <1>6 DEF HandleDetachTimeout, At, Uncontrolled, Miss, NoneCounted,
                TypeInv, RestOK
  <2>2. /\ slot'[s].pc = "idle" \/ (slot'[s].pc = "detachload" /\ NoneCounted')
        /\ overlaps' = overlaps
        /\ \A o \in Slots : o # s => slot'[o] = slot[o]
    BY <2>1, SlotEnd, SlotGoto
  <2> QED
    BY <2>1, <2>2, AloneStep DEF LiveAt
<1>7. CASE DetachTimeoutLoad(s)
  <2>1. /\ slot[s].pc = "detachload" /\ status' = status
        /\ NoneCounted' = NoneCounted
        /\ End(s) \/ (Goto(s, "terminate") /\ Live)
    BY <1>7 DEF DetachTimeoutLoad, At, NoneCounted
  <2>2. /\ slot'[s].pc = "idle" \/ (slot'[s].pc = "terminate" /\ Live)
        /\ overlaps' = overlaps
        /\ \A o \in Slots : o # s => slot'[o] = slot[o]
    BY <2>1, SlotEnd, SlotGoto
  <2>3. slot'[s].pc \in LiveAt => Live'
    BY <2>1, <2>2 DEF LiveAt, Live
  <2> QED
    BY <1>c, <2>1, <2>2, <2>3, AloneStep
<1> QED
  BY <1>1, <1>2, <1>3, <1>4, <1>5, <1>6, <1>7 DEF Handler

\* Every step keeps the invariant.
LEMMA NextAlone == TypeInv /\ AloneInv /\ [Next]_vars => AloneInv'
<1> SUFFICES ASSUME TypeInv, AloneInv, [Next]_vars PROVE AloneInv'
  OBVIOUS
<1> USE DEF ctrlVars, bounds
<1>c. /\ "arm" \notin LiveAt /\ "decr" \notin LiveAt /\ "attach" \notin LiveAt /\ "send" \notin LiveAt
      /\ "fail" \notin LiveAt /\ "detached" \notin LiveAt
      /\ "ending" \notin LiveAt
  BY DEF LiveAt
<1>1. ASSUME NEW s \in Calls, Requests(s)
      PROVE  AloneInv'
  <2>1. ASSUME NEW p \in Processes, CreateSession(s, p)
        PROVE  AloneInv'
    <3>1. Begin(s, p, "arm", NoSocket, "none", 1)
      BY <2>1 DEF CreateSession
    <3> QED
      BY <1>c, <3>1, AloneBegin, DetachSlots
  <2>2. ASSUME NEW p \in Processes, TerminateSession(s, p)
        PROVE  AloneInv'
    <3>1. Begin(s, p, "terminate", NoSocket, "closed", 1) /\ Live'
      BY <2>2 DEF TerminateSession, Live
    <3> QED
      BY <3>1, AloneBegin, DetachSlots
  <2>3. ASSUME NEW k \in Sockets, AttachController(s, k)
        PROVE  AloneInv'
    <3>1. \E pc \in {"attach", "decr"} : Begin(s, Home[k], pc, k, "none", 1)
      BY <2>3 DEF AttachController
    <3> QED
      BY <1>c, <3>1, AloneBegin, DetachSlots
  <2>4. ASSUME NEW k \in Sockets, ControllerMessage(s, k)
        PROVE  AloneInv'
    <3>1. Begin(s, Home[k], "send", k, "none", 1)
      BY <2>4 DEF ControllerMessage
    <3> QED
      BY <1>c, <3>1, AloneBegin, DetachSlots
  <2> QED
    BY <1>1, <2>1, <2>2, <2>3, <2>4 DEF Requests
<1>2. ASSUME NEW s \in Calls, HandleAgentEvent(s)
      PROVE  AloneInv'
  <2>1. CASE UNCHANGED slotVars
    BY <1>2, <2>1, AloneFrame DEF HandleAgentEvent, slotVars, Calm
  <2>2. CASE ~UNCHANGED slotVars
    <3>1. PICK pc \in {"opened", "close"}, ent \in {"none"} \cup Ended :
             Begin(s, AgentHome, pc, NoSocket, ent, 0) /\ Live
      BY <1>2, <2>2 DEF HandleAgentEvent, Accepts, Ended
    <3>2. Live'
      BY <1>2, <3>1 DEF HandleAgentEvent, Live
    <3> QED
      BY <3>1, <3>2, AloneBegin, DetachSlots
  <2> QED
    BY <2>1, <2>2
<1>3. ASSUME NEW s \in Calls, HandleAgentOutput(s)
      PROVE  AloneInv'
  <2>1. Begin(s, AgentHome, "terminate", NoSocket, "failed", 1) /\ Live'
    BY <1>3 DEF HandleAgentOutput, Live
  <2> QED
    BY <2>1, AloneBegin, DetachSlots
<1>4. ASSUME NEW t \in Timers, TimerFires(t)
      PROVE  AloneInv'
  <2>1. PICK pc \in {"fail", "detached", "ending"} :
           Begin(t, t[1], pc, NoSocket, "closed", 0)
    BY <1>4 DEF TimerFires, Timers, Kinds
  <2>2. pc \notin LiveAt /\ pc \notin {"detachload", "terminate"}
    BY <1>c, <2>1
  <2> QED
    BY <2>1, <2>2, AloneBegin, DetachSlots
<1>5. ASSUME NEW k \in Sockets, DetachController(k)
      PROVE  AloneInv'
  <2>1. CASE Begin(k, Home[k], "decr", k, "none", 0)
    BY <1>c, <2>1, AloneBegin, DetachSlots
  <2>2. CASE Overlap /\ UNCHANGED slot
    <3>1. /\ Calm' => Calm
          /\ Calm' => \A s \in Slots : slot[s] = Idle
      BY <2>2 DEF Overlap, Calm, TypeInv, RestOK
    <3> QED
      BY <2>2, <3>1, AloneFrame
  <2> QED
    BY <1>5, <2>1, <2>2 DEF DetachController
<1>6. CASE AgentReceives \/ ShellExits \/ ConnectionBreaks \/ UNCHANGED vars
  <2>1. /\ status' = status /\ count' = count /\ misses' = misses
        /\ slot' = slot /\ overlaps' = overlaps
    BY <1>6 DEF AgentReceives, ShellExits, ConnectionBreaks, vars, slotVars
  <2> QED
    BY <2>1, AloneFrame DEF Calm
<1>7. ASSUME NEW p \in Processes, ProcessDies(p)
      PROVE  AloneInv'
  BY <1>7, AloneFrame DEF ProcessDies, Calm
<1>8. CASE CountExpires
  BY <1>8, AloneFrame DEF CountExpires, Calm, slotVars
<1>9. ASSUME NEW s \in Slots, Handler(s)
      PROVE  AloneInv'
  BY <1>9, AloneHandler
<1> QED
  BY <1>1, <1>2, <1>3, <1>4, <1>5, <1>6, <1>7, <1>8, <1>9
     DEF Next, AgentEvents

LEMMA InitAlone == Init => AloneInv
BY DetachSlots DEF Init, AloneInv, Idle, LiveAt

\* The steps that write the row, and the handler that takes them.
LEMMA StatusWritten ==
    ASSUME [Next]_vars, status' # status
    PROVE  \/ \E s \in Calls, p \in Processes : CreateSession(s, p)
           \/ \E s \in Slots : \/ CloseUpdate(s) \/ UpdateTerminating(s)
                               \/ OpenedUpdate(s)
<1> USE DEF ctrlVars, bounds, slotVars
<1>1. ASSUME NEW s \in Calls, Requests(s) \/ AgentEvents(s)
      PROVE  \E p \in Processes : CreateSession(s, p)
  BY <1>1 DEF Requests, TerminateSession, AttachController,
              ControllerMessage, AgentEvents, HandleAgentEvent,
              HandleAgentOutput
<1>2. ASSUME NEW s \in Slots, Handler(s)
      PROVE  CloseUpdate(s) \/ UpdateTerminating(s) \/ OpenedUpdate(s)
  BY <1>2 DEF Handler, SchedulePendingOpenTimeout, StartTerminalSession,
              MarkFailed, ScheduleTerminationTimeout, StopTerminalSession,
              AttachLoad, Attach, SendToShell, HandleDetachTimeout,
              DetachTimeoutLoad, HandleTerminationTimeout,
              IncrementControllerCount, DecrementControllerCount,
              ClampControllerCount
<1>3. ~(\E t \in Timers : TimerFires(t))
  BY DEF TimerFires
<1>4. ~(\E k \in Sockets : DetachController(k))
  BY DEF DetachController
<1>5. /\ ~AgentReceives /\ ~ShellExits /\ ~ConnectionBreaks
      /\ ~(\E p \in Processes : ProcessDies(p)) /\ ~CountExpires
      /\ ~UNCHANGED vars
  BY DEF AgentReceives, ShellExits, ConnectionBreaks, ProcessDies,
         CountExpires, vars
<1> QED
  BY <1>1, <1>2, <1>3, <1>4, <1>5 DEF Next

\* overlaps never goes back.
LEMMA CalmBefore == TypeInv /\ [Next]_vars /\ Calm' => Calm
<1> SUFFICES ASSUME TypeInv, [Next]_vars, Calm' PROVE Calm
  OBVIOUS
<1> USE DEF slotVars
<1>1. overlaps' = overlaps \/ overlaps' = overlaps + 1
  <2>1. ASSUME NEW s \in Calls, Requests(s) \/ AgentEvents(s)
        PROVE  overlaps' = overlaps \/ overlaps' = overlaps + 1
    BY <2>1 DEF Requests, CreateSession, TerminateSession, AttachController,
                ControllerMessage, AgentEvents, HandleAgentEvent,
                HandleAgentOutput, Begin, Overlap
  <2>2. ASSUME NEW s \in Slots, Handler(s)
        PROVE  overlaps' = overlaps
    BY <2>2 DEF Handler, SchedulePendingOpenTimeout, StartTerminalSession,
                MarkFailed, CloseUpdate, UpdateTerminating,
                ScheduleTerminationTimeout, StopTerminalSession, AttachLoad,
                Attach, SendToShell, OpenedUpdate, HandleDetachTimeout,
                DetachTimeoutLoad, HandleTerminationTimeout,
                IncrementControllerCount, DecrementControllerCount,
                ClampControllerCount, Detached, Goto, End, Emit, CloseSession
  <2>3. ASSUME NEW t \in Timers, TimerFires(t)
        PROVE  overlaps' = overlaps \/ overlaps' = overlaps + 1
    BY <2>3 DEF TimerFires, Begin, Overlap
  <2>4. ASSUME NEW k \in Sockets, DetachController(k)
        PROVE  overlaps' = overlaps \/ overlaps' = overlaps + 1
    BY <2>4 DEF DetachController, Begin, Overlap
  <2>5. ASSUME \/ AgentReceives \/ ShellExits \/ ConnectionBreaks
               \/ (\E p \in Processes : ProcessDies(p)) \/ CountExpires
               \/ UNCHANGED vars
        PROVE  overlaps' = overlaps
    BY <2>5 DEF AgentReceives, ShellExits, ConnectionBreaks, ProcessDies,
                CountExpires, vars
  <2> QED
    BY <2>1, <2>2, <2>3, <2>4, <2>5 DEF Next
<1> QED
  BY <1>1 DEF Calm, TypeInv, RestOK

\* As long as handlers do not overlap, an ended session stays ended in every
\* behaviour: agent events, requests, timers and closeSession all find it
\* ended before they write (handleAgentOpened, terminateSession,
\* handleTerminationTimeout).
THEOREM EndedStaysEnded == Spec => EndIsFinal
<1>1. TypeInv /\ AloneInv /\ [Next]_vars =>
        (Calm' /\ status \in Ended => status' = status)
  <2> SUFFICES ASSUME TypeInv, AloneInv, [Next]_vars, Calm', status \in Ended,
                      status' # status
               PROVE  FALSE
    OBVIOUS
  <2>1. PICK s \in Slots : slot[s].pc \in LiveAt
    BY StatusWritten DEF CreateSession, Ended, CloseUpdate,
                         UpdateTerminating, OpenedUpdate, At, LiveAt
  <2>2. Live
    BY <2>1, CalmBefore DEF AloneInv
  <2> QED
    BY <2>2 DEF Live
<1> QED
  BY <1>1, InitType, NextType, InitAlone, NextAlone, PTL
     DEF Spec, EndIsFinal

\* As long as handlers do not overlap and the count's key lives, the grace
\* window of a process never takes a session from a controller of any process
\* (handleDetachTimeout).
THEOREM GraceSparesControllers == Spec => GraceKeepsControllers
<1>1. ASSUME TypeInv, CountInv, misses = 0, count <= 0, BeingCounted = {}
      PROVE  attached = {}
  <2>1. attached \subseteq Sockets /\ IsFiniteSet(Sockets)
    BY <1>1, TerminalSessionsAssumption DEF TypeInv, RestOK
  <2>2. IsFiniteSet(attached) /\ Cardinality(attached) \in Nat
    BY <2>1, FS_Subset, FS_CardinalityType
  <2>3. Cardinality(attached) <= count
    BY <1>1, CountEnough DEF NeverUndercounted
  <2>4. Cardinality(attached) = 0
    BY <1>1, <2>2, <2>3 DEF TypeInv, RestOK
  <2> QED
    BY <2>2, <2>4, FS_EmptySet
<1>2. TypeInv /\ CountInv /\ AloneInv /\ [Next]_vars =>
        (Calm' /\ misses = 0 =>
           \A p \in Processes :
              LET t == <<p, "detach">> IN
              At(t, "terminate") /\ ~(slot'[t].pc = "terminate")
                 /\ status' = "terminating" => attached = {})
  <2> SUFFICES ASSUME TypeInv, CountInv, AloneInv, [Next]_vars, Calm',
                      misses = 0, NEW p \in Processes,
                      slot[<<p, "detach">>].pc = "terminate"
               PROVE  attached = {}
    BY DEF At
  <2>1. Calm
    BY CalmBefore
  <2>2. count <= 0
    BY <2>1 DEF AloneInv, NoneCounted
  <2>3. <<p, "detach">> \in Slots /\ slot[<<p, "detach">>] # Idle
    BY DetachSlots DEF Idle
  <2>4. \A s \in Slots : slot[s].pc # "incr"
    BY <2>1, <2>3 DEF AloneInv, Idle
  <2>5. BeingCounted = {}
    BY <2>4 DEF BeingCounted, At
  <2> QED
    BY <1>1, <2>2, <2>5
<1> QED
  BY <1>2, InitType, NextType, InitAlone, NextAlone, InitCount, NextCount, PTL
     DEF Spec, GraceKeepsControllers
=============================================================================
