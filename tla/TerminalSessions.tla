-------------------------- MODULE TerminalSessions --------------------------
(* One interactive terminal session: its row, the controllers attached to    *)
(* it from several API processes, the agent that runs the shell, and the     *)
(* timers that end a session which does not open, which nobody controls any  *)
(* more, or whose shell does not confirm its end.                            *)
(*                                                                           *)
(* Timers and socketToAttachment live in the memory of a process, the row    *)
(* and the controller count (Redis) are shared.  A handler loads the row,    *)
(* checks what it has loaded and writes unconditionally later, so it is one  *)
(* action per statement.  The code between two awaits is one step, taken     *)
(* together with the statement whose answer it uses.                         *)
EXTENDS Integers, Sequences, FiniteSets

CONSTANTS
    Processes,     \* API processes
    Sockets,       \* controller sockets, each connects once
    Home,          \* the process that a socket is connected to
    AgentHome,     \* the process that the agent is connected to
    Calls,         \* requests, socket messages and agent events in progress
    NoProcess, NoSocket,
    MaxCalls,      \* bound: requests and messages of controllers
    MaxOverlaps,   \* bound: handlers that begin while another is in progress
    MaxTroubles    \* bound: messages to or from the agent that are refused or
                   \* lost, processes that die, misses of the count

\* pendingOpenTimers, detachTimers, terminationTimers
Kinds == {"open", "detach", "end"}
Timers == Processes \X Kinds

ASSUME TerminalSessionsAssumption ==
    /\ NoProcess \notin Processes /\ NoSocket \notin Sockets
    /\ IsFiniteSet(Sockets) /\ Home \in [Sockets -> Processes]
    /\ AgentHome \in Processes
    /\ Calls \cap Timers = {} /\ Sockets \cap (Calls \cup Timers) = {}
    /\ MaxCalls \in Nat /\ MaxOverlaps \in Nat /\ MaxTroubles \in Nat

Ended == {"closed", "failed"}
Statuses == {"none", "pending", "open", "terminating"} \cup Ended

\* A timer's callback and the disconnect of a socket run in slots of their own.
Slots == Calls \cup Timers \cup Sockets

VARIABLES
    status,      \* status column of the session row
    timers,      \* armed timers
    attached,    \* socketToAttachment of all processes
    count,       \* controller count in Redis
    ahead,       \* slots whose INCR or DECR a process has sent before a slot's
    gone,        \* sockets that have disconnected
    slot,        \* handlers in progress
    toAgent,     \* messages on their way to the agent
    fromAgent,   \* and back
    shell,       \* the shell of the agent: "none", "open", "over"
    calls, lost, crashes,
    misses,      \* the key of the count expired, or Redis was not ready
    overlaps     \* handlers that began while another was in progress

agentVars == <<toAgent, fromAgent, shell>>
bounds == <<lost, crashes, misses>>
ctrlVars == <<attached, count, ahead, gone>>
slotVars == <<slot, calls, overlaps>>
vars == <<status, timers, ctrlVars, slotVars, agentVars, bounds>>

Idle == [pc |-> "idle", p |-> NoProcess, sock |-> NoSocket, ent |-> "none"]

Pcs == {"idle", "arm", "start", "fail", "close", "terminate", "armend", "stop",
        "attach", "control", "incr", "decr", "clamp", "send", "opened",
        "detached", "detachload", "ending"}

TypeOK ==
    /\ status \in Statuses
    /\ timers \subseteq Timers
    /\ attached \subseteq Sockets
    /\ count \in Int /\ gone \subseteq Sockets
    /\ ahead \in [Slots -> SUBSET Slots]
    /\ slot \in [Slots -> [pc : Pcs, p : Processes \cup {NoProcess},
                           sock : Sockets \cup {NoSocket},
                           ent : {"none"} \cup Ended]]
    /\ toAgent \in Seq({"start", "stop"})
    /\ fromAgent \in Seq({"opened", "exited", "error"})
    /\ shell \in {"none", "open", "over"}
    /\ calls \in Nat /\ lost \in Nat /\ crashes \in Nat /\ misses \in Nat
    /\ overlaps \in Nat

Init ==
    /\ status = "none" /\ timers = {}
    /\ attached = {} /\ count = 0 /\ gone = {}
    /\ ahead = [s \in Slots |-> {}]
    /\ slot = [s \in Slots |-> Idle]
    /\ toAgent = <<>> /\ fromAgent = <<>> /\ shell = "none"
    /\ calls = 0 /\ lost = 0 /\ crashes = 0 /\ misses = 0
    /\ overlaps = 0

-----------------------------------------------------------------------------
(* Slots.                                                                    *)

At(s, pc) == slot[s].pc = pc

Trouble == lost + crashes + misses < MaxTroubles

Live == status \notin {"none"} \cup Ended

Goto(s, pc) ==
    slot' = [slot EXCEPT ![s].pc = pc] /\ UNCHANGED <<calls, overlaps>>

End(s) == slot' = [slot EXCEPT ![s] = Idle] /\ UNCHANGED <<calls, overlaps>>

Overlap ==
    /\ overlaps' = IF \E s \in Slots : slot[s] # Idle THEN overlaps + 1
                   ELSE overlaps
    /\ overlaps' <= MaxOverlaps

\* A handler is called on process p; n calls of controllers are counted.
Begin(s, p, pc, k, ent, n) ==
    /\ slot[s] = Idle
    /\ s \in Calls => s = CHOOSE q \in Calls : slot[q] = Idle
    /\ slot' = [slot EXCEPT ![s] = [pc |-> pc, p |-> p, sock |-> k,
                                    ent |-> ent]]
    /\ Overlap
    /\ calls' = calls + n
    /\ n > 0 => calls' <= MaxCalls

OfProcess(p) == {t \in Timers : t[1] = p}

\* closeSession up to its UPDATE: the timers of this process are cleared.
CloseSession(s, ent) ==
    /\ timers' = timers \ OfProcess(slot[s].p)
    /\ slot' = [slot EXCEPT ![s].pc = "close", ![s].ent = ent]
    /\ UNCHANGED <<calls, overlaps>>

\* emitEventToNode answers TRUE for a message that is on its way, or lost in
\* a broken connection, and FALSE if there is no route to the agent.
Emit(s, m, refused) ==
    \/ toAgent' = Append(toAgent, m) /\ End(s) /\ UNCHANGED <<timers, lost>>
    \/ /\ Trouble /\ lost' = lost + 1 /\ UNCHANGED toAgent
       /\ \/ End(s) /\ UNCHANGED timers
          \/ refused

-----------------------------------------------------------------------------
(* createSession.                                                            *)

CreateSession(s, p) ==
    /\ status = "none"
    /\ status' = "pending"
    /\ Begin(s, p, "arm", NoSocket, "none", 1)
    /\ UNCHANGED <<timers, ctrlVars, agentVars, bounds>>

SchedulePendingOpenTimeout(s) ==
    /\ At(s, "arm")
    /\ timers' = timers \cup {<<slot[s].p, "open">>}
    /\ Goto(s, "start")
    /\ UNCHANGED <<status, ctrlVars, agentVars, bounds>>

StartTerminalSession(s) ==
    /\ At(s, "start")
    /\ Emit(s, "start", Goto(s, "fail") /\ UNCHANGED timers)
    /\ UNCHANGED <<status, ctrlVars, fromAgent, shell, crashes, misses>>

-----------------------------------------------------------------------------
(* markFailed and closeSession.                                              *)

MarkFailed(s) ==
    /\ At(s, "fail")
    /\ \/ Live /\ CloseSession(s, "failed")
       \/ ~Live /\ End(s) /\ UNCHANGED timers
    /\ UNCHANGED <<status, ctrlVars, agentVars, bounds>>

CloseUpdate(s) ==
    /\ At(s, "close")
    /\ status' = slot[s].ent
    /\ End(s)
    /\ UNCHANGED <<timers, ctrlVars, agentVars, bounds>>

-----------------------------------------------------------------------------
(* terminateSession; the steps after the check are also those of the grace   *)
(* window and of a full transcript.                                          *)

TerminateSession(s, p) ==
    /\ Live
    /\ Begin(s, p, "terminate", NoSocket, "closed", 1)
    /\ UNCHANGED <<status, timers, ctrlVars, agentVars, bounds>>

UpdateTerminating(s) ==
    /\ At(s, "terminate")
    /\ status' = "terminating"
    /\ Goto(s, "armend")
    /\ UNCHANGED <<timers, ctrlVars, agentVars, bounds>>

\* The mutant relies on the agent's answer alone.
MutNoTerminationTimeout(s) ==
    /\ At(s, "armend")
    /\ Goto(s, "stop")
    /\ UNCHANGED <<status, timers, ctrlVars, agentVars, bounds>>

ScheduleTerminationTimeout(s) ==
    /\ At(s, "armend")
    /\ timers' = timers \cup {<<slot[s].p, "end">>}
    /\ Goto(s, "stop")
    /\ UNCHANGED <<status, ctrlVars, agentVars, bounds>>

StopTerminalSession(s) ==
    /\ At(s, "stop")
    /\ Emit(s, "stop", CloseSession(s, slot[s].ent))
    /\ UNCHANGED <<status, ctrlVars, fromAgent, shell, crashes, misses>>

-----------------------------------------------------------------------------
(* Controllers.                                                              *)

\* The mutant decrements for every socket that disconnects.
MutHasAttachment(k) == TRUE

HasAttachment(k) == k \in attached

\* The mutant waits for a count below zero, which the clamp rules out.
MutLastDetached(n) == n < 0

\* The session is left alone: the grace window begins.
LastDetached(n) == n <= 0

\* The INCR and DECR of a process go over one connection, in the order in
\* which the process has sent them.
Commands(p) == {s \in Slots : slot[s].p = p /\ slot[s].pc \in {"incr", "decr"}}

Send(s, p) == ahead' = [ahead EXCEPT ![s] = Commands(p)]

Executed(s) ==
    /\ ahead[s] = {}
    /\ ahead' = [o \in Slots |-> ahead[o] \ {s}]

\* The client of a process is not ready: a command is dropped without an error.
Miss == Trouble /\ misses' = misses + 1

\* attachController: a socket that is attached already is detached first.
AttachController(s, k) ==
    /\ k \notin gone /\ status # "none"
    /\ \/ /\ HasAttachment(k)
          /\ attached' = attached \ {k} /\ Send(s, Home[k])
          /\ Begin(s, Home[k], "decr", k, "none", 1)
       \/ /\ ~HasAttachment(k) /\ UNCHANGED <<attached, ahead>>
          /\ Begin(s, Home[k], "attach", k, "none", 1)
    /\ UNCHANGED <<status, timers, count, gone, agentVars, bounds>>

\* The row is loaded and checked; the workspace is checked next ...
AttachLoad(s) ==
    /\ At(s, "attach")
    /\ IF Live THEN Goto(s, "control") ELSE End(s)
    /\ UNCHANGED <<status, timers, ctrlVars, agentVars, bounds>>

\* ... and the socket is attached, still connected or not, and then counted.
Attach(s) ==
    /\ At(s, "control")
    /\ timers' = timers \ {<<slot[s].p, "detach">>}
    /\ attached' = attached \cup {slot[s].sock}
    /\ Send(s, slot[s].p)
    /\ Goto(s, "incr")
    /\ UNCHANGED <<status, count, gone, agentVars, bounds>>

IncrementControllerCount(s) ==
    /\ At(s, "incr") /\ Executed(s)
    /\ \/ count' = count + 1 /\ UNCHANGED misses
       \/ Miss /\ UNCHANGED count
    /\ End(s)
    /\ UNCHANGED <<status, timers, attached, gone, agentVars, lost, crashes>>

\* handleDisconnect and detachController, which finds the socket attached or
\* its attach still under way.
DetachController(k) ==
    /\ k \in attached \/ \E s \in Slots : slot[s].sock = k
    /\ k \notin gone /\ gone' = gone \cup {k}
    /\ \/ /\ HasAttachment(k)
          /\ attached' = attached \ {k} /\ Send(k, Home[k])
          /\ Begin(k, Home[k], "decr", k, "none", 0)
       \/ /\ ~HasAttachment(k) /\ Overlap
          /\ UNCHANGED <<attached, ahead, slot, calls>>
    /\ UNCHANGED <<status, timers, count, agentVars, bounds>>

\* detachController goes on with the count n that it was told; the attach that
\* has called it goes on in turn.
Detached(s, n) ==
    /\ timers' = timers \cup {t \in {<<slot[s].p, "detach">>} : LastDetached(n)}
    /\ IF s \in Calls THEN Goto(s, "attach") ELSE End(s)

DecrementControllerCount(s) ==
    /\ At(s, "decr") /\ Executed(s)
    /\ \/ /\ count' = count - 1 /\ UNCHANGED misses
          /\ IF count' < 0 THEN Goto(s, "clamp") /\ UNCHANGED timers
             ELSE Detached(s, count')
       \/ Miss /\ UNCHANGED count /\ Detached(s, 0)
    /\ UNCHANGED <<status, attached, gone, agentVars, lost, crashes>>

\* The rest of decrementControllerCount: a negative count, which has missed
\* something before, is set to 0, or the SET is dropped as well.
ClampControllerCount(s) ==
    /\ At(s, "clamp")
    /\ count' \in {0, count}
    /\ Detached(s, 0)
    /\ UNCHANGED <<status, attached, ahead, gone, agentVars, bounds>>

\* handleControllerInput and handleControllerResize of an open session; a
\* resize of a pending one changes the size columns only.
ControllerMessage(s, k) ==
    /\ k \notin gone /\ status = "open"
    /\ Begin(s, Home[k], "send", k, "none", 1)
    /\ UNCHANGED <<status, timers, ctrlVars, agentVars, bounds>>

SendToShell(s) ==
    /\ At(s, "send")
    /\ \/ End(s) /\ UNCHANGED lost
       \/ Trouble /\ lost' = lost + 1 /\ Goto(s, "fail")
    /\ UNCHANGED <<status, timers, ctrlVars, agentVars, crashes, misses>>

-----------------------------------------------------------------------------
(* Events of the agent, handled by the process that it is connected to.      *)

\* The mutant opens whatever session the agent names.
MutAccepts == TRUE

\* A session that has ended takes no more events.
Accepts == Live

\* handleAgentOpened, handleAgentExited, handleAgentError
HandleAgentEvent(s) ==
    LET p == AgentHome IN
    /\ fromAgent # <<>> /\ fromAgent' = Tail(fromAgent)
    /\ \/ /\ Head(fromAgent) = "opened" /\ Accepts
          /\ timers' = timers \ {<<p, "open">>}
          /\ Begin(s, p, "opened", NoSocket, "none", 0)
       \/ /\ Head(fromAgent) \in {"exited", "error"} /\ Live
          /\ timers' = timers \ OfProcess(p)
          /\ Begin(s, p, "close", NoSocket,
                   IF Head(fromAgent) = "exited" THEN "closed" ELSE "failed", 0)
       \/ /\ IF Head(fromAgent) = "opened" THEN ~Accepts ELSE ~Live
          /\ UNCHANGED <<timers, slotVars>>
    /\ UNCHANGED <<status, ctrlVars, toAgent, shell, bounds>>

OpenedUpdate(s) ==
    /\ At(s, "opened")
    /\ status' = "open"
    /\ End(s)
    /\ UNCHANGED <<timers, ctrlVars, agentVars, bounds>>

\* handleAgentOutput: output that fits is stored, output that does not ends
\* the session.
HandleAgentOutput(s) ==
    /\ shell = "open" /\ Live
    /\ Begin(s, AgentHome, "terminate", NoSocket, "failed", 1)
    /\ UNCHANGED <<status, timers, ctrlVars, agentVars, bounds>>

-----------------------------------------------------------------------------
(* Timers.                                                                   *)

\* The callback begins: markFailed, handleDetachTimeout (its count) or
\* handleTerminationTimeout.
TimerFires(t) ==
    LET pc == [open |-> "fail", detach |-> "detached", end |-> "ending"] IN
    /\ t \in timers /\ timers' = timers \ {t}
    /\ Begin(t, t[1], pc[t[2]], NoSocket, "closed", 0)
    /\ UNCHANGED <<status, ctrlVars, agentVars, bounds>>

\* The mutant does not ask whether a controller has come back, to this or to
\* another process.
MutUncontrolled == TRUE

Uncontrolled == count <= 0

\* getControllerCount takes the answer of a client that is not ready for 0.
HandleDetachTimeout(s) ==
    /\ At(s, "detached")
    /\ \/ /\ IF Uncontrolled THEN Goto(s, "detachload") ELSE End(s)
          /\ UNCHANGED misses
       \/ Miss /\ Goto(s, "detachload")
    /\ UNCHANGED <<status, timers, ctrlVars, agentVars, lost, crashes>>

DetachTimeoutLoad(s) ==
    /\ At(s, "detachload")
    /\ IF Live THEN Goto(s, "terminate") ELSE End(s)
    /\ UNCHANGED <<status, timers, ctrlVars, agentVars, bounds>>

HandleTerminationTimeout(s) ==
    /\ At(s, "ending")
    /\ \/ status = "terminating" /\ CloseSession(s, "closed")
       \/ status # "terminating" /\ End(s) /\ UNCHANGED timers
    /\ UNCHANGED <<status, ctrlVars, agentVars, bounds>>

-----------------------------------------------------------------------------
(* The agent and the world.                                                  *)

\* The agent takes the next message: it opens a shell or reports an error,
\* or stops its shell and reports the exit.
AgentReceives ==
    /\ toAgent # <<>> /\ toAgent' = Tail(toAgent)
    /\ \/ /\ Head(toAgent) = "start"
          /\ \/ shell' = "open" /\ fromAgent' = Append(fromAgent, "opened")
             \/ shell' = "over" /\ fromAgent' = Append(fromAgent, "error")
       \/ /\ Head(toAgent) = "stop" /\ shell = "open"
          /\ shell' = "over" /\ fromAgent' = Append(fromAgent, "exited")
       \/ /\ Head(toAgent) = "stop" /\ shell # "open"
          /\ UNCHANGED <<shell, fromAgent>>
    /\ UNCHANGED <<status, timers, ctrlVars, slotVars, bounds>>

ShellExits ==
    /\ shell = "open" /\ shell' = "over"
    /\ fromAgent' = Append(fromAgent, "exited")
    /\ UNCHANGED <<status, timers, ctrlVars, slotVars, toAgent, bounds>>

\* The agent's connection breaks: what was under way is lost.
ConnectionBreaks ==
    /\ Trouble /\ lost' = lost + 1
    /\ toAgent \o fromAgent # <<>>
    /\ toAgent' = <<>> /\ fromAgent' = <<>>
    /\ UNCHANGED <<status, timers, ctrlVars, slotVars, shell, crashes,
                   misses>>

\* A process dies with its timers, its handlers and its sockets; nobody
\* takes its controllers off the count.
ProcessDies(p) ==
    LET on == {k \in Sockets : Home[k] = p} IN
    /\ status # "none"
    /\ Trouble /\ crashes' = crashes + 1
    /\ timers' = timers \ OfProcess(p)
    /\ attached' = attached \ on /\ gone' = gone \cup on
    /\ slot' = [s \in Slots |-> IF slot[s].p = p THEN Idle ELSE slot[s]]
    /\ ahead' = [s \in Slots |-> IF slot[s].p = p THEN {} ELSE ahead[s]]
    /\ UNCHANGED <<status, count, calls, overlaps, agentVars, lost, misses>>

\* Four grace windows without an attach or a detach: the key expires.
CountExpires ==
    /\ count # 0 /\ count' = 0
    /\ Miss
    /\ \A s \in Slots : slot[s] = Idle
    /\ UNCHANGED <<status, timers, attached, ahead, gone, slotVars, agentVars,
                   lost, crashes>>

-----------------------------------------------------------------------------
Requests(s) ==
    \/ \E p \in Processes : CreateSession(s, p) \/ TerminateSession(s, p)
    \/ \E k \in Sockets : \/ AttachController(s, k)
                          \/ ControllerMessage(s, k)

AgentEvents(s) == HandleAgentEvent(s) \/ HandleAgentOutput(s)

Handler(s) ==
    \/ SchedulePendingOpenTimeout(s) \/ StartTerminalSession(s)
    \/ MarkFailed(s) \/ CloseUpdate(s)
    \/ UpdateTerminating(s) \/ ScheduleTerminationTimeout(s)
    \/ StopTerminalSession(s)
    \/ AttachLoad(s) \/ Attach(s) \/ IncrementControllerCount(s)
    \/ DecrementControllerCount(s) \/ ClampControllerCount(s)
    \/ SendToShell(s)
    \/ OpenedUpdate(s)
    \/ HandleDetachTimeout(s) \/ DetachTimeoutLoad(s)
    \/ HandleTerminationTimeout(s)

Next ==
    \/ \E s \in Calls : Requests(s) \/ AgentEvents(s)
    \/ \E s \in Slots : Handler(s)
    \/ \E t \in Timers : TimerFires(t)
    \/ \E k \in Sockets : DetachController(k)
    \/ AgentReceives \/ ShellExits \/ ConnectionBreaks
    \/ \E p \in Processes : ProcessDies(p)
    \/ CountExpires

Spec == Init /\ [][Next]_vars

\* What goes on without a controller: handlers run on, timers fire, the agent
\* takes what reaches it, and what it reports is handled.
Progress ==
    \/ \E s \in Slots : Handler(s)
    \/ \E t \in Timers : TimerFires(t)
    \/ AgentReceives
    \/ \E s \in Calls : HandleAgentEvent(s)

\* Progress does not stop while there is some to make; nothing is assumed of
\* whose turn it is.
FairSpec == Spec /\ WF_vars(Progress)

-----------------------------------------------------------------------------
(* Properties.                                                               *)

\* No handler has run next to another one.
Calm == overlaps = 0

\* Sockets whose INCR has not been executed yet.
BeingCounted == {slot[s].sock : s \in {o \in Slots : At(o, "incr")}}

\* The count that decides over a session misses no controller whose INCR has
\* been executed, however attaches, disconnects and crashes interleave: a
\* socket is set attached before it is counted and taken off before the count
\* goes down, it counts once for every attach, and a count that other sockets
\* need is never decremented or reset for it (attachController,
\* detachController, decrementControllerCount).
NeverUndercounted ==
    misses = 0 => Cardinality(attached \ BeingCounted) <= count

\* The grace window ends a session only if no controller is attached to any
\* process, although a timer is cleared only by attaches to its own process
\* (handleDetachTimeout).
GraceKeepsControllers ==
    [][Calm' /\ misses = 0 =>
         \A p \in Processes :
            LET t == <<p, "detach">> IN
            At(t, "terminate") /\ ~(slot'[t].pc = "terminate")
               /\ status' = "terminating" => attached = {}]_vars

\* An ended session stays ended: late events of the agent, of controllers and
\* of timers are turned away.
EndIsFinal == [][Calm' /\ status \in Ended => status' = status]_vars

\* No session waits for ever to be opened or to be ended, in whatever order
\* requests, events and timers are handled, as long as no process dies.
NoLimbo ==
    status \in {"pending", "terminating"}
      ~> (status \in {"open"} \cup Ended \/ crashes > 0)

\* A session that its last controller has left is closed after the grace
\* window, unless somebody comes back.
AbandonedEnds ==
    (status = "open" /\ attached = {} /\ gone # {})
      ~> \/ status # "open" \/ attached # {}
         \/ ~Calm \/ crashes > 0 \/ lost > 0 \/ misses > 0

\* "Terminal session did not open before the startup timeout elapsed": the
\* startup timeout fails no session that has opened.
StartupTimeoutMeansNotOpened ==
    [][Calm' => \A p \in Processes :
         LET t == <<p, "open">> IN
         At(t, "close") /\ slot'[t] = Idle /\ status' = "failed"
            => status # "open"]_vars
=============================================================================
