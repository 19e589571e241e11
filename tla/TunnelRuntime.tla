---------------------------- MODULE TunnelRuntime ----------------------------
(***************************************************************************)
(* The tunnels of one SSH session (serctl_core/src/ssh.rs): local, dynamic *)
(* and remote forwards, each a task with its flows, and the routes by      *)
(* which the session loop hands server-opened channels to remote forwards. *)
(*                                                                         *)
(* The server is an actor at the other end of two ordered streams: it      *)
(* grants, refuses and retires listeners, opens channels on the listeners  *)
(* it has, or says nothing.  Once the session is closed both streams stop. *)
(***************************************************************************)
EXTENDS Naturals, Sequences, FiniteSets

CONSTANTS
  Tunnels,
  Conns,         \* connections to the listeners: bounds the flows of a behaviour
  Ports,
  Nobody,
  Requests,      \* what each tunnel may be asked to be: a mode, and for a remote
                 \* one the port to bind; 0 lets the server choose
  MaxFlows,      \* max_connections of a tunnel
  Pending,       \* MAX_REMOTE_FORWARD_PENDING
  SessionFlows,  \* the session's flow permits
  Faults         \* subset of FaultKinds

FaultKinds == {"disconnect", "refuse", "duplicate", "accept", "abandon", "bind"}

Modes == {"local", "dynamic", "remote"}

ASSUME TunnelAssumption ==
  /\ Nobody \notin Tunnels \cup Conns
  /\ IsFiniteSet(Conns)
  /\ Ports \subseteq Nat \ {0}
  /\ Requests \in [Tunnels -> SUBSET [mode : Modes, bind : Ports \cup {0}]]
  /\ MaxFlows \in Nat /\ Pending \in Nat /\ SessionFlows \in Nat
  /\ Faults \subseteq FaultKinds

VARIABLES
  closed,      \* is_closed of the session
  routes,      \* generation registered for a port, 0 for none
  generation,  \* next_generation
  setup,       \* the holder of remote_forward_setup
  tunnel,      \* the tasks
  cancelled,   \* the tunnels whose token is set
  conn,        \* the connections
  toServer, toClient,
  listening,   \* the server's listeners: the tunnels each was granted to
  twice        \* history: it has granted a port it was still listening on

vars == <<closed, routes, generation, setup, tunnel, cancelled, conn,
          toServer, toClient, listening, twice>>
wires == <<toServer, toClient, listening, twice>>
registry == <<routes, generation>>

remote(t) == tunnel[t].mode = "remote"

Flowing == {"spawned", "socks", "opening", "accepting", "bridged"}

TypeOK ==
  /\ closed \in BOOLEAN
  /\ routes \in [Ports -> Nat]
  /\ generation \in Nat
  /\ setup \in Tunnels \cup {Nobody}
  /\ tunnel \in [Tunnels ->
       [pc : {"new", "setup", "requested", "running", "retire", "drain", "ended", "refused"},
        mode : Modes, port : Ports \cup {0}, gen : Nat, armed : BOOLEAN,
        reply : {"none", "granted", "failed"}, result : {"ok", "error"}]]
  /\ cancelled \subseteq Tunnels
  /\ conn \in [Conns ->
       [stage : {"unused", "wire", "queued", "gone"} \cup Flowing,
        tunnel : Tunnels \cup {Nobody}, for : SUBSET Tunnels, aborted : BOOLEAN]]
  /\ toServer \in Seq([kind : {"forward", "cancel"}, tunnel : Tunnels, port : Ports \cup {0}])
  /\ toClient \in Seq([kind : {"granted", "failed", "open"}, tunnel : Tunnels \cup {Nobody},
                       port : Ports \cup {0}, conn : Conns \cup {Nobody}])
  /\ listening \in [Ports -> SUBSET Tunnels]
  /\ twice \in BOOLEAN

Init ==
  /\ closed = FALSE
  /\ routes = [p \in Ports |-> 0]
  /\ generation = 0
  /\ setup = Nobody
  /\ tunnel = [t \in Tunnels |-> [pc |-> "new", mode |-> "local", port |-> 0, gen |-> 0, armed |-> FALSE,
                                  reply |-> "none", result |-> "ok"]]
  /\ cancelled = {}
  /\ conn = [c \in Conns |-> [stage |-> "unused", tunnel |-> Nobody, for |-> {},
                              aborted |-> FALSE]]
  /\ toServer = <<>> /\ toClient = <<>>
  /\ listening = [p \in Ports |-> {}]
  /\ twice = FALSE

contains_port(p) == routes[p] # 0

\* The tunnels a channel on this port may go to.
sender_for(p) == {t \in Tunnels : contains_port(p) /\ tunnel[t].gen = routes[p]}

\* The session is marked unusable first and torn down afterwards.
invalidate == closed' = TRUE

At(t, pc) == tunnel[t].pc = pc
Goto(t, pc) == tunnel' = [tunnel EXCEPT ![t].pc = pc]
Stage(c, stage) == conn' = [conn EXCEPT ![c].stage = stage]

-----------------------------------------------------------------------------
(* start_tunnel and setup_remote_forward                                   *)

\* bind_tunnel_listener_until, for a local or a dynamic tunnel
Bound == IF "bind" \in Faults THEN {"running", "refused"} ELSE {"running"}

Start(t) ==
  /\ At(t, "new")
  /\ \E r \in Requests[t] :
       \E pc \in IF r.mode = "remote" THEN {"setup"} ELSE Bound :
         tunnel' = [tunnel EXCEPT ![t].pc = pc, ![t].mode = r.mode, ![t].port = r.bind]
  /\ UNCHANGED <<closed, registry, setup, cancelled, conn, wires>>

\* The route of the new tunnel; its lease is armed.
register(t) ==
  /\ generation' = generation + 1
  /\ routes' = [routes EXCEPT ![tunnel[t].port] = generation']
  /\ tunnel' = [tunnel EXCEPT ![t].pc = "running", ![t].gen = generation', ![t].armed = TRUE]

\* The mutex is ours: the port is looked up and the request is sent, unless
\* the deadline passed meanwhile or the session is gone.
RequestForward(t) ==
  /\ At(t, "setup")
  /\ setup = Nobody
  /\ \/ /\ tunnel[t].port # 0 => ~contains_port(tunnel[t].port)
        /\ ~closed
        /\ toServer' = Append(toServer,
                              [kind |-> "forward", tunnel |-> t, port |-> tunnel[t].port])
        /\ Goto(t, "requested")
        /\ setup' = t
     \/ /\ Goto(t, "refused")
        /\ UNCHANGED <<setup, toServer>>
  /\ UNCHANGED <<closed, registry, cancelled, conn, toClient, listening, twice>>

\* The grant: a port that is registered already retires the whole session.
RegisterForward(t) ==
  /\ At(t, "requested")
  /\ tunnel[t].reply = "granted"
  /\ IF contains_port(tunnel[t].port)
     THEN /\ invalidate
          /\ Goto(t, "refused")
          /\ UNCHANGED registry
     ELSE register(t) /\ UNCHANGED closed
  /\ setup' = Nobody
  /\ UNCHANGED <<cancelled, conn, wires>>

ForwardRefused(t) ==
  /\ At(t, "requested")
  /\ tunnel[t].reply = "failed" \/ closed
  /\ Goto(t, "refused")
  /\ setup' = Nobody
  /\ UNCHANGED <<closed, registry, cancelled, conn, wires>>

\* Mutant: a request that was given up leaves the session alive.
SetupDeadlineQuietly(t) ==
  /\ At(t, "requested")
  /\ Goto(t, "refused")
  /\ setup' = Nobody
  /\ UNCHANGED <<closed, registry, cancelled, conn, wires>>

\* The request's deadline passes, or the answer names no valid port.
SetupDeadline(t) ==
  /\ At(t, "requested")
  /\ Goto(t, "refused")
  /\ setup' = Nobody
  /\ invalidate
  /\ UNCHANGED <<registry, cancelled, conn, wires>>

\* The caller of start_tunnel goes away (serve_tunnel): the future is dropped.
AbandonSetup(t) ==
  /\ "abandon" \in Faults
  /\ tunnel[t].pc \in {"setup", "requested"}
  /\ Goto(t, "refused")
  /\ setup' = IF setup = t THEN Nobody ELSE setup
  /\ closed' = (closed \/ At(t, "requested"))
  /\ UNCHANGED <<registry, cancelled, conn, wires>>

-----------------------------------------------------------------------------
(* The server, and the session loop that reads what it sends.              *)

Answer(kind, t, port, c) ==
  toClient' = Append(toClient, [kind |-> kind, tunnel |-> t, port |-> port, conn |-> c])

ServerGrants ==
  /\ ~closed /\ toServer # <<>> /\ Head(toServer).kind = "forward"
  /\ LET m == Head(toServer)
     IN \E p \in Ports :
          /\ m.port \in {0, p}
          /\ \/ listening[p] = {}
             \/ m.port = 0 /\ "duplicate" \in Faults
          /\ listening' = [listening EXCEPT ![p] = @ \cup {m.tunnel}]
          /\ twice' = (twice \/ listening[p] # {})
          /\ Answer("granted", m.tunnel, p, Nobody)
  /\ toServer' = Tail(toServer)
  /\ UNCHANGED <<closed, registry, setup, tunnel, cancelled, conn>>

ServerRetires ==
  /\ ~closed /\ toServer # <<>> /\ Head(toServer).kind = "cancel"
  /\ listening' = [listening EXCEPT ![Head(toServer).port] = {}]
  /\ Answer("granted", Head(toServer).tunnel, Head(toServer).port, Nobody)
  /\ toServer' = Tail(toServer)
  /\ UNCHANGED <<closed, registry, setup, tunnel, cancelled, conn, twice>>

ServerRefuses ==
  /\ ~closed /\ toServer # <<>>
  /\ LET m == Head(toServer)
     IN /\ \/ "refuse" \in Faults
           \/ m.kind = "forward" /\ m.port # 0 /\ listening[m.port] # {}
        /\ Answer("failed", m.tunnel, m.port, Nobody)
  /\ toServer' = Tail(toServer)
  /\ UNCHANGED <<closed, registry, setup, tunnel, cancelled, conn, listening, twice>>

ServerOpens(c, p) ==
  /\ ~closed /\ conn[c].stage = "unused" /\ listening[p] # {}
  /\ conn' = [conn EXCEPT ![c].stage = "wire", ![c].for = listening[p]]
  /\ Answer("open", Nobody, p, c)
  /\ UNCHANGED <<closed, registry, setup, tunnel, cancelled, toServer, listening, twice>>

DeliverReply ==
  /\ ~closed /\ toClient # <<>> /\ Head(toClient).kind # "open"
  /\ LET m == Head(toClient)
     IN tunnel' = IF tunnel[m.tunnel].pc \in {"requested", "retire"}
                  THEN [tunnel EXCEPT ![m.tunnel].reply = m.kind, ![m.tunnel].port = m.port]
                  ELSE tunnel
  /\ toClient' = Tail(toClient)
  /\ UNCHANGED <<closed, registry, setup, cancelled, conn, toServer, listening, twice>>

Queued(t) == {c \in Conns : conn[c].stage = "queued" /\ conn[c].tunnel = t}

\* server_channel_open_forwarded_tcpip: never waits, drops what has no route
\* or finds its route's queue full or closed.
DeliverOpen ==
  /\ ~closed /\ toClient # <<>> /\ Head(toClient).kind = "open"
  /\ LET m == Head(toClient)
         takers == {t \in sender_for(m.port) : /\ At(t, "running")
                                               /\ Cardinality(Queued(t)) < Pending
                                               /\ Cardinality(Queued(t)) < MaxFlows}
     IN \/ \E t \in takers :
             conn' = [conn EXCEPT ![m.conn].stage = "queued", ![m.conn].tunnel = t]
        \/ takers = {} /\ Stage(m.conn, "gone")
  /\ toClient' = Tail(toClient)
  /\ UNCHANGED <<closed, registry, setup, tunnel, cancelled, toServer, listening, twice>>

Disconnect ==
  /\ "disconnect" \in Faults /\ ~closed
  /\ closed' = TRUE
  /\ UNCHANGED <<registry, setup, tunnel, cancelled, conn, wires>>

-----------------------------------------------------------------------------
(* The flows of a tunnel: serve_{local,dynamic,remote}_forward_connection. *)

Flows(t) == {c \in Conns : conn[c].stage \in Flowing /\ conn[c].tunnel = t}
AllFlows == {c \in Conns : conn[c].stage \in Flowing}
Permitted(t) == Cardinality(Flows(t)) < MaxFlows /\ Cardinality(AllFlows) < SessionFlows

\* A connection reaches the listener of a local or dynamic tunnel, or waits in
\* the queue of a remote one; the cancellation branch of the select comes first.
Admit(t, c) ==
  /\ At(t, "running") /\ t \notin cancelled
  /\ \/ ~remote(t) /\ conn[c].stage = "unused"
     \/ remote(t) /\ c \in Queued(t)
  /\ conn' = [conn EXCEPT ![c].stage = IF Permitted(t) THEN "spawned" ELSE "gone",
                          ![c].tunnel = t,
                          ![c].for = IF remote(t) THEN @ ELSE {t}]
  /\ UNCHANGED <<closed, registry, setup, tunnel, cancelled, wires>>

\* The next stage of a flow that meets no error.
After(c) ==
  CASE conn[c].stage = "spawned" -> IF tunnel[conn[c].tunnel].mode = "dynamic" THEN "socks" ELSE "opening"
    [] conn[c].stage = "socks"   -> "opening"
    [] conn[c].stage = "opening" -> IF remote(conn[c].tunnel) THEN "accepting" ELSE "bridged"
    [] OTHER                     -> "bridged"

FlowAdvances(c) ==
  /\ conn[c].stage \in Flowing \ {"bridged"} /\ ~conn[c].aborted
  /\ conn[c].stage = "accepting" \/ conn[c].tunnel \notin cancelled
  /\ conn[c].stage = "opening" /\ ~remote(conn[c].tunnel) => ~closed
  /\ Stage(c, After(c))
  /\ UNCHANGED <<closed, registry, setup, tunnel, cancelled, wires>>

\* The peer, the SOCKS request, the server or the local target ends it.
FlowEnds(c) ==
  /\ conn[c].stage \in {"socks", "opening", "bridged"} /\ ~conn[c].aborted
  /\ Stage(c, "gone")
  /\ UNCHANGED <<closed, registry, setup, tunnel, cancelled, wires>>

\* Dropping this flow's future trips the transport: a channel-open request or
\* an acceptance is under way and its fate is unknown.
Uncertain(c) ==
  \/ conn[c].stage = "accepting"
  \/ conn[c].stage = "opening" /\ ~remote(conn[c].tunnel)

\* Its deadline passes during the uncertain part: the session is given up.
FlowDeadline(c) ==
  /\ conn[c].stage \in Flowing /\ ~conn[c].aborted
  /\ Uncertain(c)
  /\ Stage(c, "gone")
  /\ invalidate
  /\ UNCHANGED <<registry, setup, tunnel, cancelled, wires>>

\* The tunnel's token is seen.  A remote flow rejects its channel first, and
\* that too trips the transport when it takes too long.
FlowCancelled(c) ==
  /\ conn[c].stage \in Flowing \ {"accepting"} /\ ~conn[c].aborted
  /\ conn[c].tunnel \in cancelled
  /\ Stage(c, "gone")
  /\ \/ closed' = (closed \/ Uncertain(c))
     \/ remote(conn[c].tunnel) /\ conn[c].stage # "bridged" /\ closed' = TRUE
  /\ UNCHANGED <<registry, setup, tunnel, cancelled, wires>>

\* A task aborted together with its tunnel is dropped when it is next scheduled.
FlowAborted(c) ==
  /\ conn[c].stage \in Flowing /\ conn[c].aborted
  /\ Stage(c, "gone")
  /\ closed' = (closed \/ Uncertain(c))
  /\ UNCHANGED <<registry, setup, tunnel, cancelled, wires>>

-----------------------------------------------------------------------------
(* run_{local,dynamic,remote}_forward, RemoteForwardLease and              *)
(* RunningTunnel.                                                          *)

Stop(t) ==
  /\ tunnel[t].pc \in {"running", "retire", "drain"} /\ t \notin cancelled
  /\ cancelled' = cancelled \cup {t}
  /\ UNCHANGED <<closed, registry, setup, tunnel, conn, wires>>

\* remove_if_generation
Unrouted(t) ==
  [p \in Ports |-> IF remote(t) /\ p = tunnel[t].port /\ routes[p] = tunnel[t].gen
                   THEN 0 ELSE routes[p]]

\* The loop is left: a remote tunnel closes its queue, drops its route and asks
\* the server to retire the listener.
LeaveLoop(t) ==
  /\ LET asked == remote(t) /\ ~closed
     IN /\ tunnel' = [tunnel EXCEPT ![t].pc = IF asked THEN "retire" ELSE "drain",
                                    ![t].reply = "none",
                                    ![t].armed = asked,
                                    ![t].result = IF t \in cancelled THEN "ok" ELSE "error"]
        /\ toServer' = IF asked
                       THEN Append(toServer, [kind |-> "cancel", tunnel |-> t,
                                              port |-> tunnel[t].port])
                       ELSE toServer
  /\ routes' = Unrouted(t)
  /\ cancelled' = cancelled \cup {t}
  /\ UNCHANGED <<closed, generation, setup, conn, toClient, listening, twice>>

\* The cancellation is seen, or the session is found closed.
LoopEnds(t) ==
  /\ At(t, "running")
  /\ t \in cancelled \/ closed
  /\ LeaveLoop(t)

\* accept fails.
AcceptFails(t) ==
  /\ "accept" \in Faults
  /\ At(t, "running") /\ ~remote(t)
  /\ LeaveLoop(t)

\* cancel_remote_forward_until: anything but a success (a refusal, a closed
\* session, the deadline) invalidates the session.
Retire(t) ==
  /\ At(t, "retire")
  /\ LET retired == tunnel[t].reply = "granted"
     IN /\ tunnel' = [tunnel EXCEPT ![t].pc = "drain", ![t].armed = FALSE,
                         ![t].result = IF retired THEN @ ELSE "error"]
        /\ closed' = (closed \/ ~retired)
  /\ UNCHANGED <<registry, setup, cancelled, conn, wires>>

\* The end of the task: the queue goes with its receiver.
EndTask(t, result, left) ==
  /\ tunnel' = [tunnel EXCEPT ![t].pc = "ended", ![t].result = result, ![t].armed = FALSE]
  /\ conn' = [c \in Conns |-> IF c \in Queued(t) THEN [conn[c] EXCEPT !.stage = "gone"]
                              ELSE IF c \in Flows(t) THEN left[c] ELSE conn[c]]

\* drain_tunnel_flows: all flows ended, or were aborted and joined.
Drained(t) ==
  /\ At(t, "drain")
  /\ EndTask(t, tunnel[t].result, [c \in Conns |-> [conn[c] EXCEPT !.stage = "gone"]])
  /\ closed' = (closed \/ \E c \in Flows(t) : Uncertain(c))
  /\ UNCHANGED <<registry, setup, cancelled, wires>>

\* Mutant: a tunnel that was stopped too late counts as stopped.
StopTimeoutQuietly(t) ==
  /\ tunnel[t].pc \in {"running", "retire", "drain"}
  /\ t \in cancelled
  /\ EndTask(t, "ok", [c \in Conns |-> [conn[c] EXCEPT !.aborted = TRUE]])
  /\ closed' = (closed \/ tunnel[t].armed)
  /\ routes' = Unrouted(t)
  /\ UNCHANGED <<generation, setup, cancelled, wires>>

\* RunningTunnel::wait gives up after TUNNEL_STOP_TIMEOUT and aborts the task;
\* an armed lease trips the transport as it is dropped.
StopTimeout(t) ==
  /\ tunnel[t].pc \in {"running", "retire", "drain"}
  /\ t \in cancelled
  /\ EndTask(t, "error", [c \in Conns |-> [conn[c] EXCEPT !.aborted = TRUE]])
  /\ closed' = (closed \/ tunnel[t].armed)
  /\ routes' = Unrouted(t)
  /\ UNCHANGED <<generation, setup, cancelled, wires>>

TaskStep(t) ==
  \/ RequestForward(t) \/ RegisterForward(t) \/ ForwardRefused(t) \/ SetupDeadline(t)
  \/ LoopEnds(t) \/ Retire(t) \/ Drained(t) \/ StopTimeout(t)

FlowStep(c) == FlowAdvances(c) \/ FlowEnds(c) \/ FlowDeadline(c) \/ FlowCancelled(c) \/ FlowAborted(c)

Next ==
  \/ \E t \in Tunnels :
       \/ TaskStep(t) \/ Start(t) \/ AcceptFails(t) \/ AbandonSetup(t) \/ Stop(t)
       \/ \E c \in Conns : Admit(t, c)
  \/ \E c \in Conns : FlowStep(c) \/ \E p \in Ports : ServerOpens(c, p)
  \/ ServerGrants \/ ServerRetires \/ ServerRefuses
  \/ DeliverReply \/ DeliverOpen \/ Disconnect

Spec == Init /\ [][Next]_vars

\* Tasks run and their timers fire; nothing obliges the server, a flow or the
\* one who holds the tunnel.
FairSpec ==
  /\ Spec
  /\ \A t \in Tunnels : WF_vars(TaskStep(t))

-----------------------------------------------------------------------------
\* A channel the server opened on a listener reaches the tunnel that asked for
\* that listener or nobody, although ports are used again: routes carry a
\* generation, are dropped before the listener is, and messages keep their order.
\* (Unless the server has granted a port twice: a cancellation by port then ends
\* both listeners, and the port may be granted again while a route to it is left.)
OwnChannelsOnly ==
  ~twice => \A c \in Conns :
    conn[c].stage \in Flowing \cup {"queued"} => conn[c].tunnel \in conn[c].for

\* On a session that is still used every listener of the server has a tunnel
\* that is setting it up, serving it or retiring it: whatever deadline, abort
\* or refusal ends a tunnel, no remote listener is left behind.
NoOrphanListener ==
  ~closed => \A p \in Ports : \A t \in listening[p] :
    \/ At(t, "requested")
    \/ At(t, "running") /\ tunnel[t].port = p /\ routes[p] = tunnel[t].gen
    \/ At(t, "retire") /\ tunnel[t].port = p

\* Listeners and their channels belong to tunnels that are at work.
ListenersAreOwned == OwnChannelsOnly /\ NoOrphanListener

\* A tunnel whose end was reported as clean has no flow left, and no more flows
\* run at once than the tunnel's and the session's permits allow.
FlowsBounded ==
  /\ \A t \in Tunnels :
       /\ At(t, "ended") /\ tunnel[t].result = "ok" => Flows(t) = {}
       /\ Cardinality(Flows(t)) <= MaxFlows
  /\ Cardinality(AllFlows) <= SessionFlows

\* Whoever waits for the mutex of the session's setups gets past it: every way
\* a setup ends releases it.
SetupEnds ==
  \A t \in Tunnels : At(t, "setup") ~> tunnel[t].pc \notin {"setup", "requested"}

\* The task of a tunnel keeps the promise of a RunningTunnel, once it is set up.
phase ==
  [t \in Tunnels |->
     CASE tunnel[t].pc \in {"new", "setup", "requested"} -> "none"
       [] tunnel[t].pc \in {"retire", "drain"} ->
            IF tunnel[t].result = "ok" THEN "running" ELSE "failing"
       [] tunnel[t].pc = "ended" -> tunnel[t].result
       [] OTHER -> tunnel[t].pc]
Promise == INSTANCE Tunnel
KeepsPromise == Promise!TunnelSpec /\ SetupEnds

==============================================================================
