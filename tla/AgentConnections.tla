--------------------------- MODULE AgentConnections ---------------------------
(***************************************************************************)
(* The connections of one node's agent to the processes of the API         *)
(* (agent-realtime.gateway.ts, agent-realtime.service.ts), the route that  *)
(* the processes share in Redis, and the presence of the node              *)
(* (nodes.service.ts, agents.service.ts, node-offline-detector).           *)
(*                                                                         *)
(* A socket belongs to one process.  Code between two awaits is one step;  *)
(* what a handler has loaded stays in its slot.  The commands a process    *)
(* sends to Redis are executed in the order in which it sends them, so a   *)
(* SET belongs to the step that issues it.  The save of an entity compares *)
(* and updates single columns: of the status alone, it is one step.        *)
(***************************************************************************)
EXTENDS Naturals, FiniteSets

CONSTANTS
    Processes,    \* processes of the API
    Sockets,      \* connections
    NoSocket,
    NoProcess,
    MaxBusy,      \* bound: handlers of sockets in progress when another one
                  \* authenticates
    MaxTroubles   \* bound: broken connections, dead processes, failing
                  \* statements, late pings and heartbeats, operators' requests

ASSUME ConnectionsAssumption ==
    /\ NoSocket \notin Sockets /\ NoProcess \notin Processes
    /\ MaxBusy \in Nat /\ MaxTroubles \in Nat

VARIABLES
    home,       \* the process that a socket is connected to
    agent,      \* the agent's program: "up" or "down" for good
    sock,       \* "lost": the agent is gone and the process does not know
    session,    \* socketToSession, of all processes
    current,    \* nodeToSocketId of each process
    route,      \* the Redis key of the node: the socket, and so its process
    kick,       \* a routed agent.disconnect: the process it is published to
    status,     \* nodes.status
    slot,       \* handlers in progress
    troubles

vars == <<home, agent, sock, session, current, route, kick, status,
          slot, troubles>>

links == <<home, agent, sock, session, current, route, kick>>

Beats == <<NoSocket, "beat">>
Slots == (Sockets \X {"auth", "close"}) \cup {Beats}

Idle == [pc |-> "idle", prev |-> NoSocket, ent |-> "none"]

Pcs == {"idle", "check", "online", "save", "root", "rsave", "tell",
        "route", "del", "offline", "oload", "osave"}

TypeOK ==
    /\ home \in [Sockets -> Processes \cup {NoProcess}]
    /\ agent \in {"up", "down"}
    /\ sock \in [Sockets -> {"new", "open", "lost", "closed"}]
    /\ session \subseteq Sockets
    /\ current \in [Processes -> Sockets \cup {NoSocket}]
    /\ route \in Sockets \cup {NoSocket}
    /\ kick \in Processes \cup {NoProcess}
    /\ status \in {"online", "offline"}
    /\ slot \in [Slots -> [pc : Pcs, prev : Sockets \cup {NoSocket},
                           ent : {"none", "online", "offline"}]]
    /\ troubles \in 0 .. MaxTroubles

Init ==
    /\ home = [k \in Sockets |-> NoProcess]
    /\ agent = "up" /\ sock = [k \in Sockets |-> "new"]
    /\ session = {}
    /\ current = [p \in Processes |-> NoSocket]
    /\ route = NoSocket /\ kick = NoProcess
    /\ status = "offline"
    /\ slot = [s \in Slots |-> Idle]
    /\ troubles = 0

-----------------------------------------------------------------------------
At(s, pc) == slot[s].pc = pc

Goto(s, pc) == slot' = [slot EXCEPT ![s].pc = pc]

Trouble == troubles < MaxTroubles /\ troubles' = troubles + 1

\* The socket is in the namespace's map, whether or not its agent is there.
Present(k) == sock[k] \in {"open", "lost"}

\* handleSocketDisconnect up to its first await, on a socket that slots s
\* has changed to: the session goes, and the node's entry if it is this
\* socket's; "Ignore stale disconnects" otherwise.
HandleSocketDisconnect(k, s) ==
    /\ session' = session \ {k}
    /\ IF k \in session /\ current[home[k]] = k
       THEN /\ current' = [current EXCEPT ![home[k]] = NoSocket]
            /\ slot' = [s EXCEPT ![<<k, "close">>] =
                           [Idle EXCEPT !.pc = "route"]]
       ELSE UNCHANGED current /\ slot' = s

\* client.disconnect(true) and a connection that is found broken: the
\* "disconnect" event is handled at once.
Drop(k, s) ==
    /\ sock' = [sock EXCEPT ![k] = "closed"]
    /\ HandleSocketDisconnect(k, s)

\* As Drop, if there is such a socket.
DropIfPresent(k, s) ==
    IF k # NoSocket /\ Present(k) THEN Drop(k, s)
    ELSE slot' = s /\ UNCHANGED <<sock, session, current>>

-----------------------------------------------------------------------------
(* Agents and the network (external).                                        *)

\* The agent opens a connection when it has none as far as it knows, to any
\* process; of the first one, which process it is makes no difference.
Connect(k, p) ==
    /\ agent = "up"
    /\ sock[k] = "new" /\ k = CHOOSE j \in Sockets : sock[j] = "new"
    /\ \A j \in Sockets : sock[j] # "open"
    /\ (\A j \in Sockets : sock[j] = "new") => p = CHOOSE q \in Processes : TRUE
    /\ sock' = [sock EXCEPT ![k] = "open"]
    /\ home' = [home EXCEPT ![k] = p]
    /\ UNCHANGED <<agent, session, current, route, kick, status, slot,
                   troubles>>

ConnectionBreaks(k) ==
    /\ sock[k] = "open" /\ Trouble
    /\ sock' = [sock EXCEPT ![k] = "lost"]
    /\ UNCHANGED <<home, agent, session, current, route, kick, status, slot>>

AgentStops ==
    /\ agent = "up" /\ agent' = "down"
    /\ sock' = [k \in Sockets |-> IF sock[k] = "open" THEN "lost" ELSE sock[k]]
    /\ UNCHANGED <<home, session, current, route, kick, status, slot, troubles>>

\* The transport reports the broken connection, or the agent closes it.
SocketCloses(k) ==
    /\ sock[k] = "lost"
    /\ Drop(k, slot)
    /\ UNCHANGED <<home, agent, route, kick, status, troubles>>

-----------------------------------------------------------------------------
(* handleAgentAuth and authenticateSocket.                                   *)

HandleAgentAuth(k) ==
    LET s == <<k, "auth">> IN
    /\ sock[k] = "open" /\ k \notin session /\ slot[s] = Idle
    /\ Cardinality({b \in Slots \ {Beats} : slot[b] # Idle}) <= MaxBusy
    /\ Goto(s, "check")
    /\ UNCHANGED <<links, status, troubles>>

\* Mutant: the session of the socket that is replaced stays.
MutAuthenticateSocket(k) ==
    LET s == <<k, "auth">> p == home[k] IN
    /\ At(s, "check")
    /\ session' = session \cup {k}
    /\ current' = [current EXCEPT ![p] = k]
    /\ route' = k
    /\ slot' = [slot EXCEPT ![s].pc = "online", ![s].prev = current[p]]
    /\ UNCHANGED <<home, agent, sock, kick, status, troubles>>

\* After authenticateAgent: the maps of the process, whether or not the socket
\* is still there, and upsertNodeRoute.
AuthenticateSocket(k) ==
    LET s == <<k, "auth">> p == home[k] IN
    /\ At(s, "check")
    /\ session' = (session \ {current[p]}) \cup {k}
    /\ current' = [current EXCEPT ![p] = k]
    /\ route' = k
    /\ slot' = [slot EXCEPT ![s].pc = "online", ![s].prev = current[p]]
    /\ UNCHANGED <<home, agent, sock, kick, status, troubles>>

\* recordAgentRootAccessState loads the node and, if the agent reports
\* anything new, saves the whole entity, its status too.
RootReportLoad(s) ==
    /\ At(s, "root")
    /\ \/ Goto(s, "tell")
       \/ slot' = [slot EXCEPT ![s].pc = "rsave", ![s].ent = status]
    /\ UNCHANGED <<links, status, troubles>>

RootReportSave(s) ==
    /\ At(s, "rsave")
    /\ status' = slot[s].ent
    /\ slot' = [slot EXCEPT ![s].pc = "tell", ![s].ent = "none"]
    /\ UNCHANGED <<links, troubles>>

\* The end of handleAgentAuth: the status is broadcast and the socket that was
\* replaced is disconnected.
AuthAcknowledged(k) ==
    LET s == <<k, "auth">> j == slot[s].prev IN
    /\ At(s, "tell")
    /\ DropIfPresent(IF j = k THEN NoSocket ELSE j,
                     [slot EXCEPT ![s] = Idle])
    /\ UNCHANGED <<home, agent, route, kick, status, troubles>>

-----------------------------------------------------------------------------
(* markOnline and markOffline.                                               *)

\* After it, a heartbeat is answered and an authentication goes on.
AfterOnline(s) ==
    IF s = Beats THEN Idle ELSE [slot[s] EXCEPT !.pc = "root"]

\* The UPDATE of an offline node; the node it returns is only broadcast.
MarkOnline(s) ==
    /\ At(s, "online")
    /\ IF status = "offline"
       THEN /\ status' = "online"
            /\ slot' = [slot EXCEPT ![s] = AfterOnline(s)]
       ELSE UNCHANGED status /\ Goto(s, "save")
    /\ UNCHANGED <<links, troubles>>

\* Otherwise the node is loaded, set to online and saved.
MarkOnlineSave(s) ==
    /\ At(s, "save")
    /\ status' = "online"
    /\ slot' = [slot EXCEPT ![s] = AfterOnline(s)]
    /\ UNCHANGED <<links, troubles>>

\* clearNodeRouteIfOwned: GET, then DEL of the key whatever it has become.
ClearNodeRouteIfOwned(k) ==
    LET s == <<k, "close">> IN
    /\ At(s, "route")
    /\ Goto(s, IF route = k THEN "del" ELSE "offline")
    /\ UNCHANGED <<links, status, troubles>>

DeleteRoute(k) ==
    LET s == <<k, "close">> IN
    /\ At(s, "del")
    /\ route' = NoSocket /\ Goto(s, "offline")
    /\ UNCHANGED <<home, agent, sock, session, current, kick, status, troubles>>

MarkOffline(s) ==
    /\ At(s, "offline")
    /\ IF status = "online"
       THEN status' = "offline" /\ slot' = [slot EXCEPT ![s] = Idle]
       ELSE UNCHANGED status /\ Goto(s, "oload")
    /\ UNCHANGED <<links, troubles>>

\* The UPDATE found no online node; one that has come online since is saved
\* as offline.
MarkOfflineLoad(s) ==
    /\ At(s, "oload")
    /\ slot' = IF status = "offline" THEN [slot EXCEPT ![s] = Idle]
               ELSE [slot EXCEPT ![s].pc = "osave"]
    /\ UNCHANGED <<links, status, troubles>>

MarkOfflineSave(s) ==
    /\ At(s, "osave")
    /\ status' = "offline"
    /\ slot' = [slot EXCEPT ![s] = Idle]
    /\ UNCHANGED <<links, troubles>>

-----------------------------------------------------------------------------
(* Pings, heartbeats and metrics.                                            *)

\* Mutant: a ping does not refresh the route.
MutRegisterPing(k) == sock[k] = "open" /\ k \in session /\ UNCHANGED vars

\* registerPing: lastPingAt, and the route is set again.
RegisterPing(k) ==
    /\ sock[k] = "open" /\ k \in session
    /\ route' = k
    /\ UNCHANGED <<home, agent, sock, session, current, kick, status, slot, troubles>>

\* A message of a socket without a session disconnects it.
MessageBeforeAuth(k) ==
    /\ sock[k] = "open" /\ k \notin session /\ slot[<<k, "auth">>] = Idle
    /\ Trouble /\ Drop(k, slot)
    /\ UNCHANGED <<home, agent, route, kick, status>>

\* A heartbeat over HTTP, on whatever process: authenticateAgent, markOnline.
Heartbeat ==
    /\ agent = "up" /\ slot[Beats] = Idle
    /\ Goto(Beats, "online")
    /\ UNCHANGED <<links, status, troubles>>

\* Metrics go through authenticateAgent and markOnline, too, twice if they name
\* the agent's version; the ping that they count as is RegisterPing.
HandleAgentMetrics(k) ==
    /\ sock[k] = "open" /\ k \in session
    /\ Heartbeat

\* Registration with the enrollment token of the configuration: the node of
\* this host name is loaded, set to online and saved.
Register ==
    /\ agent = "up" /\ slot[Beats] = Idle
    /\ Goto(Beats, "save")
    /\ UNCHANGED <<links, status, troubles>>

-----------------------------------------------------------------------------
(* Timers.                                                                   *)

\* Mutant: only sockets that are still there are looked at.
MutEnforceHeartbeatTimeouts(k) ==
    /\ k \in session /\ Present(k)
    /\ IF sock[k] = "open" THEN Trouble ELSE UNCHANGED troubles
    /\ Drop(k, slot)
    /\ UNCHANGED <<home, agent, route, kick, status>>

\* A session without a ping for realtimePingTimeoutSeconds: the socket is
\* disconnected, or just the session removed if there is no socket.
EnforceHeartbeatTimeouts(k) ==
    /\ k \in session
    /\ IF sock[k] = "open" THEN Trouble ELSE UNCHANGED troubles
    /\ IF Present(k) THEN Drop(k, slot)
       ELSE HandleSocketDisconnect(k, slot) /\ UNCHANGED sock
    /\ UNCHANGED <<home, agent, route, kick, status>>

\* AGENT_REALTIME_ROUTE_TTL_SECONDS without a ping of that socket.
RouteExpires ==
    /\ route # NoSocket
    /\ IF sock[route] = "open" /\ route \in session THEN Trouble
       ELSE UNCHANGED troubles
    /\ route' = NoSocket
    /\ UNCHANGED <<home, agent, sock, session, current, kick, status, slot>>

\* Mutant: the detector looks at nodes with a route only.
MutMarkStaleNodesOffline ==
    /\ status = "online" /\ route # NoSocket
    /\ IF agent = "up" THEN Trouble ELSE UNCHANGED troubles
    /\ status' = "offline"
    /\ UNCHANGED <<links, slot>>

\* markStaleNodesOffline: one UPDATE of a node that was not seen for
\* heartbeatTimeoutSeconds, then events and broadcasts.
MarkStaleNodesOffline ==
    /\ status = "online"
    /\ IF agent = "up" THEN Trouble ELSE UNCHANGED troubles
    /\ status' = "offline"
    /\ UNCHANGED <<links, slot>>

-----------------------------------------------------------------------------
(* Operators and failures.                                                   *)

\* disconnectNode on process p, of which agent tokens are revoked.
DisconnectNode(p) ==
    /\ Trouble
    /\ IF current[p] # NoSocket
       THEN DropIfPresent(current[p], slot) /\ UNCHANGED kick
       ELSE /\ route # NoSocket /\ home[route] # p /\ kick = NoProcess
            /\ kick' = home[route]
            /\ UNCHANGED <<sock, session, current, slot>>
    /\ UNCHANGED <<home, agent, route, status>>

HandleRoutedEventMessage ==
    /\ kick # NoProcess /\ kick' = NoProcess
    /\ DropIfPresent(current[kick], slot)
    /\ UNCHANGED <<home, agent, route, status, troubles>>

\* A statement throws.  authenticateSocket's caller disconnects the client.
HandlerThrows(s) ==
    /\ slot[s] # Idle /\ Trouble
    /\ IF s \in Sockets \X {"auth"}
       THEN DropIfPresent(s[1], [slot EXCEPT ![s] = Idle])
       ELSE /\ slot' = [slot EXCEPT ![s] = Idle]
            /\ UNCHANGED <<sock, session, current>>
    /\ UNCHANGED <<home, agent, route, kick, status>>

\* A process dies with its sockets, its maps and its handlers.
ProcessDies(p) ==
    LET K == {k \in Sockets : home[k] = p} IN
    /\ \E k \in K : Present(k) \/ k \in session
    /\ Trouble
    /\ sock' = [k \in Sockets |-> IF k \in K /\ sock[k] # "new" THEN "closed"
                                  ELSE sock[k]]
    /\ session' = session \ K
    /\ current' = [current EXCEPT ![p] = NoSocket]
    /\ slot' = [s \in Slots |-> IF s \in K \X {"auth", "close"} THEN Idle
                                ELSE slot[s]]
    /\ UNCHANGED <<home, agent, route, kick, status>>

-----------------------------------------------------------------------------
Handler(s) ==
    \/ MarkOnline(s) \/ MarkOnlineSave(s)
    \/ RootReportLoad(s) \/ RootReportSave(s)
    \/ MarkOffline(s) \/ MarkOfflineLoad(s) \/ MarkOfflineSave(s)

\* Handlers that have begun run on.
SocketHandlers ==
    \/ \E k \in Sockets :
          \/ AuthenticateSocket(k) \/ AuthAcknowledged(k)
          \/ ClearNodeRouteIfOwned(k) \/ DeleteRoute(k)
          \/ Handler(<<k, "auth">>) \/ Handler(<<k, "close">>)
    \/ HandleRoutedEventMessage

HeartbeatHandler == Heartbeat \/ Handler(Beats)

Timers ==
    \/ \E k \in Sockets : EnforceHeartbeatTimeouts(k) /\ sock[k] # "open"
    \/ MarkStaleNodesOffline /\ agent = "down"

Next ==
    \/ SocketHandlers \/ HeartbeatHandler \/ Timers
    \/ \E k \in Sockets :
          \/ \E p \in Processes : Connect(k, p)
          \/ ConnectionBreaks(k) \/ SocketCloses(k)
          \/ HandleAgentAuth(k) \/ MessageBeforeAuth(k) \/ RegisterPing(k)
          \/ HandleAgentMetrics(k) \/ EnforceHeartbeatTimeouts(k)
    \/ Register \/ AgentStops \/ RouteExpires \/ MarkStaleNodesOffline
    \/ \E p \in Processes : DisconnectNode(p) \/ ProcessDies(p)
    \/ \E s \in Slots : HandlerThrows(s)

Spec == Init /\ [][Next]_vars

\* Handlers run on, timers fire, and an agent that is up sends heartbeats and
\* pings its socket.
FairSpec ==
    /\ Spec
    /\ WF_vars(SocketHandlers) /\ WF_vars(HeartbeatHandler) /\ WF_vars(Timers)
    /\ \A k \in Sockets : WF_vars(RegisterPing(k))

-----------------------------------------------------------------------------
(* Properties.                                                               *)

Connected(k) == sock[k] = "open" /\ k \in session

\* A process has one session of the node at most, that of its current socket:
\* a socket that was replaced speaks for the node no more, in whatever order
\* authentications and disconnects of its process are handled
\* (authenticateSocket, handleSocketDisconnect).
OneSessionPerProcess == TypeOK /\ \A k \in session : current[home[k]] = k

\* A session outlives its connection for the ping timeout at most, also if the
\* socket was closed while it authenticated (enforceHeartbeatTimeouts).
NoZombieSession ==
    \A k \in Sockets : [](sock[k] = "closed" => <>(k \notin session))

\* A connection that stays is the one that messages are routed to, and its
\* node is online, whatever late disconnects, other processes, detectors and
\* stale saves have done before (registerPing, heartbeat, markOnline).
ConnectedIsReachable ==
    \A k \in Sockets :
        <>[]Connected(k) => <>[](route = k) /\ []<>(status = "online")

\* The node of an agent that is gone is offline in the end and stays offline,
\* although handlers that began before may bring it online once more
\* (markStaleNodesOffline, markOffline).
GoneIsOffline == agent = "down" ~> [](status = "offline")
=============================================================================
