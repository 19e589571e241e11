------------------------- MODULE TunnelRuntimeProofs --------------------------
(***************************************************************************)
(* Proofs about the tunnels of a session, for any number of tunnels,        *)
(* connections and ports, whatever tunnels are asked for, any limits and    *)
(* any set of faults.                                                       *)
(***************************************************************************)
EXTENDS TunnelRuntime, FiniteSetTheorems, TLAPS

\* SMT first, Z3 by its own name next, then Zenon, for every leaf that names no prover.
USE SMTT(60), Z3T(60), ZenonT(60)

(* The inductive invariant.                                                 *)

Before == {"new", "setup", "requested", "refused"}

\* What the place of a tunnel's task says of its record.
Task(t) ==
  /\ tunnel[t].pc \in Before \/ ~remote(t) => tunnel[t].gen = 0
  /\ tunnel[t].pc \in {"setup", "requested", "retire"} => remote(t)
  /\ tunnel[t].pc \in {"new", "setup"} => tunnel[t].reply = "none"
  /\ At(t, "requested") /\ tunnel[t].reply = "granted" => tunnel[t].port \in Ports
  /\ At(t, "running") /\ remote(t) =>
       /\ tunnel[t].port \in Ports /\ tunnel[t].armed
       /\ tunnel[t].gen # 0 /\ routes[tunnel[t].port] = tunnel[t].gen
  /\ At(t, "retire") => tunnel[t].port \in Ports /\ tunnel[t].armed
  /\ tunnel[t].pc \in {"retire", "drain"} => t \in cancelled

\* A generation names one tunnel, and a route leads to the port of its tunnel.
Generations ==
  /\ \A p \in Ports : routes[p] <= generation
  /\ \A t \in Tunnels : tunnel[t].gen <= generation
  /\ \A t, u \in Tunnels : tunnel[t].gen = tunnel[u].gen /\ tunnel[t].gen # 0 => t = u
  /\ \A p \in Ports, t \in Tunnels :
       routes[p] # 0 /\ tunnel[t].gen = routes[p] => tunnel[t].port = p

Unheard(t) == \A p \in Ports : t \notin listening[p]
OnlyOn(t, q) == \A p \in Ports : t \in listening[p] => p = q

\* A request on its way to the server.
Request(m) ==
  /\ tunnel[m.tunnel].reply = "none" /\ tunnel[m.tunnel].port = m.port
  /\ m.kind = "forward" => At(m.tunnel, "requested") /\ Unheard(m.tunnel)
  /\ m.kind = "cancel" => At(m.tunnel, "retire")

\* An answer on its way to the client.
Reply(m) ==
  /\ m.tunnel \in Tunnels
  /\ tunnel[m.tunnel].reply = "none" /\ tunnel[m.tunnel].pc \in {"requested", "retire"}
  /\ At(m.tunnel, "requested") => IF m.kind = "granted" THEN m.port \in Ports /\ OnlyOn(m.tunnel, m.port)
                                  ELSE Unheard(m.tunnel)
  /\ At(m.tunnel, "retire") => m.port = tunnel[m.tunnel].port /\ (m.kind = "granted" => Unheard(m.tunnel))

\* A channel on its way to the client.
Opening(m) == m.conn \in Conns /\ m.port \in Ports /\ conn[m.conn].stage = "wire"

\* What is on the wire was asked for by a task that waits for it, and once.
Asked ==
  /\ \A i \in DOMAIN toServer : Request(toServer[i])
  /\ \A i \in DOMAIN toClient : IF toClient[i].kind = "open" THEN Opening(toClient[i]) ELSE Reply(toClient[i])

Once ==
  /\ \A i, j \in DOMAIN toServer : toServer[i].tunnel = toServer[j].tunnel => i = j
  /\ \A i, j \in DOMAIN toClient :
       /\ toClient[i].kind # "open" /\ toClient[j].kind # "open"
       /\ toClient[i].tunnel = toClient[j].tunnel
       => i = j
  /\ \A i, j \in DOMAIN toClient :
       /\ toClient[i].kind = "open" /\ toClient[j].kind = "open"
       /\ toClient[i].conn = toClient[j].conn
       => i = j
  /\ \A i \in DOMAIN toServer, j \in DOMAIN toClient :
       toClient[j].kind # "open" => toServer[i].tunnel # toClient[j].tunnel

\* The listeners a tunnel may have, by what it was told.
Heard(t) ==
  /\ \A p \in Ports : t \in listening[p] =>
       \/ At(t, "requested")
       \/ At(t, "running") /\ remote(t) /\ tunnel[t].port = p
       \/ At(t, "retire") /\ tunnel[t].port = p
  /\ At(t, "requested") /\ tunnel[t].reply = "granted" => OnlyOn(t, tunnel[t].port)
  /\ At(t, "requested") /\ tunnel[t].reply = "failed" => Unheard(t)
  /\ At(t, "retire") /\ tunnel[t].reply = "granted" => Unheard(t)

\* The tunnels that have, or are about to learn that they have, a port.
Has(t, p) ==
  \/ At(t, "running") /\ remote(t) /\ tunnel[t].port = p
  \/ At(t, "requested") /\ tunnel[t].reply = "granted" /\ tunnel[t].port = p
Granted(i, t, p) ==
  /\ toClient[i].kind = "granted" /\ toClient[i].tunnel = t /\ toClient[i].port = p
  /\ At(t, "requested")

\* A port granted once at a time: its listener is the tunnel's that has it,
\* until the cancellation arrives.
Single ==
  /\ \A p \in Ports : \A t, u \in listening[p] : t = u
  /\ \A p \in Ports, t \in Tunnels : Has(t, p) => t \in listening[p]
  /\ \A p \in Ports, t \in Tunnels, i \in DOMAIN toClient : Granted(i, t, p) => t \in listening[p]
  /\ \A i \in DOMAIN toServer : toServer[i].kind = "cancel" => toServer[i].tunnel \in listening[toServer[i].port]

\* A channel on its way was opened for whoever has its port when it arrives.
Ordered ==
  \A i \in DOMAIN toClient, t \in Tunnels :
    toClient[i].kind = "open" =>
      /\ Has(t, toClient[i].port) => t \in conn[toClient[i].conn].for
      /\ \A j \in 1..(i - 1) : Granted(j, t, toClient[i].port) => t \in conn[toClient[i].conn].for

\* A tunnel that ended well has no flow.
Clean(t) == At(t, "ended") /\ tunnel[t].result = "ok" => Flows(t) = {}

Wired == Asked /\ Once /\ \A t \in Tunnels : Heard(t)

RuntimeInv ==
  /\ TypeOK
  /\ \A t \in Tunnels : Task(t) /\ Clean(t)
  /\ Generations
  /\ ~closed => Wired
  /\ ~closed /\ ~twice => Single /\ Ordered
  /\ OwnChannelsOnly

-----------------------------------------------------------------------------
(* Streams and records.                                                     *)

Up == [kind : {"forward", "cancel"}, tunnel : Tunnels, port : Ports \cup {0}]
Down == [kind : {"granted", "failed", "open"}, tunnel : Tunnels \cup {Nobody},
         port : Ports \cup {0}, conn : Conns \cup {Nobody}]
Records ==
  [pc : {"new", "setup", "requested", "running", "retire", "drain", "ended", "refused"},
   mode : Modes, port : Ports \cup {0}, gen : Nat, armed : BOOLEAN,
   reply : {"none", "granted", "failed"}, result : {"ok", "error"}]
Links ==
  [stage : {"unused", "wire", "queued", "gone"} \cup Flowing,
   tunnel : Tunnels \cup {Nobody}, for : SUBSET Tunnels, aborted : BOOLEAN]

LEMMA Typed ==
  TypeOK <=> /\ closed \in BOOLEAN /\ routes \in [Ports -> Nat] /\ generation \in Nat
             /\ setup \in Tunnels \cup {Nobody} /\ tunnel \in [Tunnels -> Records]
             /\ cancelled \subseteq Tunnels /\ conn \in [Conns -> Links]
             /\ toServer \in Seq(Up) /\ toClient \in Seq(Down)
             /\ listening \in [Ports -> SUBSET Tunnels] /\ twice \in BOOLEAN
  BY ZenonT(60) DEF TypeOK, Records, Links, Up, Down

\* The same one step later.
LEMMA TypedNext ==
  TypeOK' <=> /\ closed' \in BOOLEAN /\ routes' \in [Ports -> Nat] /\ generation' \in Nat
              /\ setup' \in Tunnels \cup {Nobody} /\ tunnel' \in [Tunnels -> Records]
              /\ cancelled' \subseteq Tunnels /\ conn' \in [Conns -> Links]
              /\ toServer' \in Seq(Up) /\ toClient' \in Seq(Down)
              /\ listening' \in [Ports -> SUBSET Tunnels] /\ twice' \in BOOLEAN
  BY ZenonT(60) DEF TypeOK, Records, Links, Up, Down

LEMMA Appended ==
  ASSUME NEW S, NEW s \in Seq(S), NEW e \in S
  PROVE  /\ Append(s, e) \in Seq(S) /\ Len(s) \in Nat
         /\ DOMAIN s = 1..Len(s) /\ DOMAIN Append(s, e) = 1..(Len(s) + 1)
         /\ \A i \in DOMAIN s : Append(s, e)[i] = s[i]
         /\ Append(s, e)[Len(s) + 1] = e
  OBVIOUS

LEMMA Shifted ==
  ASSUME NEW S, NEW s \in Seq(S), s # <<>>
  PROVE  /\ Tail(s) \in Seq(S) /\ Len(s) \in Nat /\ Len(s) > 0
         /\ DOMAIN s = 1..Len(s) /\ DOMAIN Tail(s) = 1..(Len(s) - 1)
         /\ 1 \in DOMAIN s /\ Head(s) = s[1] /\ s[1] \in S
         /\ \A i \in DOMAIN Tail(s) : i + 1 \in DOMAIN s /\ Tail(s)[i] = s[i + 1]
  OBVIOUS

\* One entry of a table of records is replaced.
LEMMA Replaced ==
  ASSUME NEW S, NEW D, NEW f \in [D -> S], NEW d \in D, NEW n \in S, NEW g, g = [f EXCEPT ![d] = n]
  PROVE  g \in [D -> S] /\ g[d] = n /\ \A e \in D : e # d => g[e] = f[e]
  OBVIOUS

-----------------------------------------------------------------------------
(* The permits.                                                             *)

\* The semaphores' counts, for every tunnel and for the session.
Permits ==
  /\ \A t \in Tunnels : Cardinality(Flows(t)) <= MaxFlows
  /\ Cardinality(AllFlows) <= SessionFlows

LEMMA FiniteFlows ==
  ASSUME NEW S, S \subseteq Conns
  PROVE  IsFiniteSet(S) /\ Cardinality(S) \in Nat
  BY TunnelAssumption, FS_Subset, FS_CardinalityType

\* A step that starts no flow gives back permits or none.
LEMMA FewerFlows ==
  ASSUME Permits,
         \A d \in Conns : conn'[d].stage \in Flowing => conn[d].stage \in Flowing /\ conn'[d].tunnel = conn[d].tunnel
  PROVE  Permits'
  <1>1. ASSUME NEW t \in Tunnels PROVE Cardinality(Flows(t)') <= MaxFlows
    <2>1. Flows(t)' \subseteq Flows(t)
      BY DEF Flows
    <2>2. IsFiniteSet(Flows(t)) /\ Cardinality(Flows(t)) \in Nat
      BY FiniteFlows DEF Flows
    <2>3. Cardinality(Flows(t)') <= Cardinality(Flows(t)) /\ Cardinality(Flows(t)') \in Nat
      BY <2>1, <2>2, FS_Subset, FS_CardinalityType
    <2>4. Cardinality(Flows(t)) <= MaxFlows
      BY DEF Permits
    <2> QED
      BY <2>2, <2>3, <2>4, TunnelAssumption
  <1>2. Cardinality(AllFlows') <= SessionFlows
    <2>1. AllFlows' \subseteq AllFlows
      BY DEF AllFlows
    <2>2. IsFiniteSet(AllFlows) /\ Cardinality(AllFlows) \in Nat
      BY FiniteFlows DEF AllFlows
    <2>3. Cardinality(AllFlows') <= Cardinality(AllFlows) /\ Cardinality(AllFlows') \in Nat
      BY <2>1, <2>2, FS_Subset, FS_CardinalityType
    <2>4. Cardinality(AllFlows) <= SessionFlows
      BY DEF Permits
    <2> QED
      BY <2>2, <2>3, <2>4, TunnelAssumption
  <1> QED
    BY <1>1, <1>2 DEF Permits

LEMMA OneMore ==
  ASSUME NEW S, S \subseteq Conns, NEW c \in Conns, NEW T, T \subseteq S \cup {c}, NEW n \in Nat, Cardinality(S) < n
  PROVE  Cardinality(T) <= n
  <1>1. IsFiniteSet(S) /\ Cardinality(S) \in Nat
    BY FiniteFlows
  <1>2. /\ IsFiniteSet(S \cup {c}) /\ Cardinality(S \cup {c}) \in Nat
        /\ Cardinality(S \cup {c}) = Cardinality(S) \/ Cardinality(S \cup {c}) = Cardinality(S) + 1
    BY <1>1, FS_AddElement, FS_CardinalityType
  <1>3. Cardinality(T) <= Cardinality(S \cup {c}) /\ Cardinality(T) \in Nat
    BY <1>2, FS_Subset, FS_CardinalityType
  <1> QED
    BY <1>1, <1>2, <1>3

LEMMA AdmitPermits ==
  ASSUME TypeOK, Permits, NEW t \in Tunnels, NEW c \in Conns, Admit(t, c)
  PROVE  Permits'
  <1>1. conn \in [Conns -> Links]
    BY Typed
  <1>2. PICK stage, for : /\ stage = IF Permitted(t) THEN "spawned" ELSE "gone"
                          /\ for = IF remote(t) THEN conn[c].for ELSE {t}
    BY ZenonT(60)
  <1>3. /\ \A d \in Conns : d # c => conn'[d] = conn[d]
        /\ conn'[c].stage = stage /\ conn'[c].tunnel = t
    <2>1. conn' = [conn EXCEPT ![c].stage = stage, ![c].tunnel = t, ![c].for = for]
      BY <1>1, <1>2 DEF Admit
    <2> QED
      BY <1>1, <2>1 DEF Links
  <1>4. CASE ~Permitted(t)
    <2>1. conn'[c].stage = "gone" /\ "gone" \notin Flowing
      BY <1>2, <1>3, <1>4 DEF Flowing
    <2>2. \A d \in Conns : conn'[d].stage \in Flowing => conn[d].stage \in Flowing /\ conn'[d].tunnel = conn[d].tunnel
      BY <1>3, <2>1, ZenonT(60)
    <2> QED
      BY <2>2, FewerFlows
  <1>5. CASE Permitted(t)
    <2>1. /\ Cardinality(Flows(t)) < MaxFlows /\ Cardinality(AllFlows) < SessionFlows
          /\ MaxFlows \in Nat /\ SessionFlows \in Nat
      BY <1>5, TunnelAssumption DEF Permitted
    <2>2. Flows(t)' \subseteq Flows(t) \cup {c} /\ Flows(t) \subseteq Conns
      BY <1>3 DEF Flows
    <2>3. AllFlows' \subseteq AllFlows \cup {c} /\ AllFlows \subseteq Conns
      BY <1>3 DEF AllFlows
    <2>4. Cardinality(Flows(t)') <= MaxFlows
      BY <2>1, <2>2, OneMore
    <2>5. Cardinality(AllFlows') <= SessionFlows
      BY <2>1, <2>3, OneMore
    <2>6. ASSUME NEW u \in Tunnels, u # t PROVE Cardinality(Flows(u)') <= MaxFlows
      <3>1. Flows(u)' \subseteq Flows(u)
        BY <1>3, <2>6 DEF Flows
      <3>2. IsFiniteSet(Flows(u)) /\ Cardinality(Flows(u)) \in Nat /\ Cardinality(Flows(u)) <= MaxFlows
        BY FiniteFlows DEF Flows, Permits
      <3>3. Cardinality(Flows(u)') <= Cardinality(Flows(u)) /\ Cardinality(Flows(u)') \in Nat
        BY <3>1, <3>2, FS_Subset, FS_CardinalityType, ZenonT(60)
      <3> QED
        BY <2>1, <3>2, <3>3
    <2> QED
      BY <2>4, <2>5, <2>6 DEF Permits
  <1> QED
    BY <1>4, <1>5

\* Every step but an admission starts no flow.
LEMMA NoFlowStarts ==
  ASSUME RuntimeInv, [Next]_vars, \A t \in Tunnels, c \in Conns : ~Admit(t, c), NEW d \in Conns,
         conn'[d].stage \in Flowing
  PROVE  conn[d].stage \in Flowing /\ conn'[d].tunnel = conn[d].tunnel
  <1>1. conn \in [Conns -> Links] /\ "gone" \notin Flowing /\ "wire" \notin Flowing /\ "queued" \notin Flowing
    BY Typed DEF RuntimeInv, Flowing
  <1>2. CASE conn' = conn
    BY <1>2
  <1>3. ASSUME NEW c \in Conns, NEW stage, Stage(c, stage), stage \in Flowing => conn[c].stage \in Flowing
        PROVE  conn[d].stage \in Flowing /\ conn'[d].tunnel = conn[d].tunnel
    BY <1>1, <1>3, ZenonT(60) DEF Stage, Links
  <1>4. ASSUME NEW c \in Conns, FlowStep(c)
        PROVE  conn[d].stage \in Flowing /\ conn'[d].tunnel = conn[d].tunnel
    <2>1. /\ Stage(c, After(c)) \/ Stage(c, "gone")
          /\ conn[c].stage \in Flowing
      BY <1>4 DEF FlowStep, FlowAdvances, FlowEnds, FlowDeadline, FlowCancelled, FlowAborted, Flowing
    <2> QED
      BY <1>1, <1>3, <2>1, ZenonT(60)
  <1>5. ASSUME NEW t \in Tunnels, Drained(t) \/ StopTimeout(t)
        PROVE  \E left : /\ left[d].tunnel = conn[d].tunnel
                         /\ conn'[d] = IF d \in Queued(t) THEN [conn[d] EXCEPT !.stage = "gone"]
                                       ELSE IF d \in Flows(t) THEN left[d] ELSE conn[d]
    <2>1. conn[d] \in Links
      BY <1>1, ZenonT(60)
    <2>2. PICK left : /\ left \in {[c \in Conns |-> [conn[c] EXCEPT !.stage = "gone"]],
                                   [c \in Conns |-> [conn[c] EXCEPT !.aborted = TRUE]]}
                      /\ conn' = [c \in Conns |-> IF c \in Queued(t) THEN [conn[c] EXCEPT !.stage = "gone"]
                                                  ELSE IF c \in Flows(t) THEN left[c] ELSE conn[c]]
      BY <1>5, ZenonT(60) DEF Drained, StopTimeout, EndTask
    <2>3. left[d] \in {[conn[d] EXCEPT !.stage = "gone"], [conn[d] EXCEPT !.aborted = TRUE]}
      BY <2>2, ZenonT(60)
    <2>4. left[d].tunnel = conn[d].tunnel
      BY <2>1, <2>3 DEF Links
    <2> QED
      BY <2>2, <2>4, ZenonT(60)
  <1>6. ASSUME NEW t \in Tunnels, Drained(t) \/ StopTimeout(t)
        PROVE  conn[d].stage \in Flowing /\ conn'[d].tunnel = conn[d].tunnel
    <2>1. PICK left : /\ left[d].tunnel = conn[d].tunnel
                      /\ conn'[d] = IF d \in Queued(t) THEN [conn[d] EXCEPT !.stage = "gone"]
                                    ELSE IF d \in Flows(t) THEN left[d] ELSE conn[d]
      BY <1>5, <1>6, ZenonT(60)
    <2>2. CASE d \in Queued(t)
      <3>1. conn'[d] = [conn[d] EXCEPT !.stage = "gone"]
        BY <2>1, <2>2
      <3>2. conn'[d].stage = "gone"
        BY <1>1, <3>1 DEF Links
      <3> QED
        BY <1>1, <3>2
    <2>3. CASE d \notin Queued(t) /\ d \in Flows(t)
      BY <2>1, <2>3 DEF Flows
    <2>4. CASE d \notin Queued(t) /\ d \notin Flows(t)
      BY <2>1, <2>4
    <2> QED
      BY <2>2, <2>3, <2>4, ZenonT(60)
  <1>7. ASSUME NEW c \in Conns, NEW p \in Ports, ServerOpens(c, p)
        PROVE  conn[d].stage \in Flowing /\ conn'[d].tunnel = conn[d].tunnel
    <2>1. conn' = [conn EXCEPT ![c].stage = "wire", ![c].for = listening[p]]
      BY <1>7 DEF ServerOpens
    <2>2. (d # c => conn'[d] = conn[d]) /\ conn'[c].stage = "wire"
      BY <1>1, <2>1 DEF Links
    <2> QED
      BY <1>1, <2>2
  <1>8. CASE DeliverOpen
    <2>1. PICK c : c = Head(toClient).conn
      OBVIOUS
    <2>2. \/ \E t \in Tunnels : conn' = [conn EXCEPT ![c].stage = "queued", ![c].tunnel = t]
          \/ Stage(c, "gone")
      BY <1>8, <2>1, ZenonT(60) DEF DeliverOpen, sender_for
    <2>3. d # c => conn'[d] = conn[d]
      BY <1>1, <2>2 DEF Stage, Links
    <2>4. c \in Conns => conn'[c].stage \in {"queued", "gone"}
      BY <1>1, <2>2, ZenonT(60) DEF Stage, Links
    <2> QED
      BY <1>1, <2>3, <2>4
  <1>9. ASSUME NEW t \in Tunnels, TaskStep(t) \/ Start(t) \/ AcceptFails(t) \/ AbandonSetup(t) \/ Stop(t)
        PROVE  conn' = conn \/ Drained(t) \/ StopTimeout(t)
    BY <1>9, ZenonT(60) DEF TaskStep, RequestForward, RegisterForward, ForwardRefused, SetupDeadline, LoopEnds, Retire,
         Start, AcceptFails, AbandonSetup, Stop, LeaveLoop
  <1>10. CASE ServerGrants \/ ServerRetires \/ ServerRefuses \/ DeliverReply \/ Disconnect
    BY <1>2, <1>10, ZenonT(60) DEF ServerGrants, ServerRetires, ServerRefuses, DeliverReply, Disconnect
  <1>11. CASE UNCHANGED vars
    BY <1>2, <1>11 DEF vars
  <1> QED
    BY <1>2, <1>4, <1>6, <1>7, <1>8, <1>9, <1>10, <1>11, ZenonT(60) DEF Next

-----------------------------------------------------------------------------
(* The promise of a RunningTunnel.                                          *)

LEMMA PhaseIs ==
  ASSUME NEW t \in Tunnels
  PROVE  /\ tunnel[t].pc \in {"new", "setup", "requested"} => phase[t] = "none"
         /\ tunnel[t].pc \in {"retire", "drain"} =>
              phase[t] = IF tunnel[t].result = "ok" THEN "running" ELSE "failing"
         /\ tunnel[t].pc = "ended" => phase[t] = tunnel[t].result
         /\ tunnel[t].pc \in {"running", "refused"} => phase[t] = tunnel[t].pc
  BY DEF phase

\* The same one step later.
LEMMA PhaseNext ==
  ASSUME NEW t \in Tunnels
  PROVE  /\ tunnel'[t].pc \in {"new", "setup", "requested"} => phase'[t] = "none"
         /\ tunnel'[t].pc \in {"retire", "drain"} =>
              phase'[t] = IF tunnel'[t].result = "ok" THEN "running" ELSE "failing"
         /\ tunnel'[t].pc = "ended" => phase'[t] = tunnel'[t].result
         /\ tunnel'[t].pc \in {"running", "refused"} => phase'[t] = tunnel'[t].pc
  BY DEF phase

\* A step of one tunnel moves that tunnel's phase.
LEMMA PhaseMoves ==
  ASSUME NEW t \in Tunnels, \A u \in Tunnels : u # t => tunnel'[u] = tunnel[u]
  PROVE  /\ \A x : phase'[t] = x => phase' = [phase EXCEPT ![t] = x]
         /\ phase'[t] = phase[t] => phase' = phase
  <1>1. \A u \in Tunnels : u # t => phase'[u] = phase[u]
    BY DEF phase
  <1>2. DOMAIN phase = Tunnels /\ DOMAIN phase' = Tunnels
    BY DEF phase
  <1>3. phase = [u \in Tunnels |-> phase[u]] /\ phase' = [u \in Tunnels |-> phase'[u]]
    BY DEF phase
  <1> HIDE DEF phase
  <1> QED
    BY <1>1, <1>2, <1>3

\* A step that changes no tunnel's place or result.
LEMMA PhaseStays ==
  ASSUME \A u \in Tunnels : tunnel'[u].pc = tunnel[u].pc /\ tunnel'[u].result = tunnel[u].result,
         cancelled' = cancelled
  PROVE  UNCHANGED Promise!tunnelVars
  <1>1. phase' = phase
    BY DEF phase
  <1> QED
    BY <1>1 DEF Promise!tunnelVars

Promised == Promise!TunnelNext \/ UNCHANGED Promise!tunnelVars

LEMMA SetupPromise ==
  ASSUME RuntimeInv, NEW t \in Tunnels,
         \/ RequestForward(t) \/ RegisterForward(t) \/ ForwardRefused(t) \/ SetupDeadline(t)
         \/ Start(t) \/ AbandonSetup(t)
  PROVE  Promised
  <1>1. tunnel \in [Tunnels -> Records]
    BY Typed DEF RuntimeInv
  <1>2. tunnel[t].pc \in {"new", "setup", "requested"} /\ cancelled' = cancelled
    BY ZenonT(60) DEF RequestForward, RegisterForward, ForwardRefused, SetupDeadline, Start, AbandonSetup, At
  <1>3. /\ \A u \in Tunnels : u # t => tunnel'[u] = tunnel[u]
        /\ tunnel'[t].pc \in {"setup", "requested", "running", "refused"}
    <2>1. CASE RequestForward(t)
      BY <1>1, <2>1, ZenonT(60) DEF RequestForward, Goto, Records
    <2>2. CASE RegisterForward(t)
      BY <1>1, <2>2 DEF RegisterForward, register, Goto, Records
    <2>3. CASE ForwardRefused(t) \/ SetupDeadline(t) \/ AbandonSetup(t)
      BY <1>1, <2>3 DEF ForwardRefused, SetupDeadline, AbandonSetup, Goto, Records
    <2>4. CASE Start(t)
      <3>1. PICK r \in Requests[t], pc \in {"setup", "running", "refused"} :
              tunnel' = [tunnel EXCEPT ![t].pc = pc, ![t].mode = r.mode, ![t].port = r.bind]
        BY <2>4, ZenonT(60) DEF Start, Bound
      <3> QED
        BY <1>1, <3>1 DEF Records
    <2> QED
      BY <2>1, <2>2, <2>3, <2>4, ZenonT(60)
  <1>4. phase[t] = "none" /\ phase'[t] \in {"none", "running", "refused"}
    BY <1>2, <1>3, PhaseIs, PhaseNext, ZenonT(60)
  <1>5. /\ \A x : phase'[t] = x => phase' = [phase EXCEPT ![t] = x]
        /\ phase'[t] = phase[t] => phase' = phase
    BY <1>3, PhaseMoves, ZenonT(60)
  <1>6. CASE phase'[t] = "none"
    BY <1>2, <1>4, <1>5, <1>6 DEF Promised, Promise!tunnelVars
  <1>7. CASE phase'[t] = "running"
    BY <1>2, <1>4, <1>5, <1>7, ZenonT(60) DEF Promised, Promise!TunnelNext, Promise!Open
  <1>8. CASE phase'[t] = "refused"
    BY <1>2, <1>4, <1>5, <1>8, ZenonT(60) DEF Promised, Promise!TunnelNext, Promise!Refuse
  <1> QED
    BY <1>4, <1>6, <1>7, <1>8, ZenonT(60)

LEMMA StopPromise ==
  ASSUME RuntimeInv, NEW t \in Tunnels, Stop(t)
  PROVE  Promised
  <1>1. tunnel \in [Tunnels -> Records]
    BY Typed DEF RuntimeInv
  <1>2. tunnel[t].pc \in {"running", "retire", "drain"} /\ cancelled' = cancelled \cup {t} /\ tunnel' = tunnel
    BY DEF Stop
  <1>3. phase' = phase
    BY <1>2 DEF phase
  <1>4. phase[t] \in {"running", "failing"} \cup Promise!Over
    BY <1>1, <1>2, PhaseIs, ZenonT(60) DEF Records
  <1> QED
    BY <1>2, <1>3, <1>4, ZenonT(60) DEF Promised, Promise!TunnelNext, Promise!Cancel

LEMMA LeavePromise ==
  ASSUME RuntimeInv, NEW t \in Tunnels, At(t, "running"), LeaveLoop(t)
  PROVE  Promised
  <1>1. tunnel \in [Tunnels -> Records]
    BY Typed DEF RuntimeInv
  <1>2. PICK pc, armed, result :
          /\ pc = IF remote(t) /\ ~closed THEN "retire" ELSE "drain"
          /\ armed = (remote(t) /\ ~closed)
          /\ result = IF t \in cancelled THEN "ok" ELSE "error"
    OBVIOUS
  <1>3. /\ tunnel' = [tunnel EXCEPT ![t].pc = pc, ![t].reply = "none", ![t].armed = armed, ![t].result = result]
        /\ cancelled' = cancelled \cup {t}
    BY <1>2, ZenonT(60) DEF LeaveLoop
  <1>4. /\ \A u \in Tunnels : u # t => tunnel'[u] = tunnel[u]
        /\ tunnel'[t].pc = pc /\ tunnel'[t].result = result
    BY <1>1, <1>3 DEF Records
  <1>5. phase[t] = "running" /\ phase'[t] = IF result = "ok" THEN "running" ELSE "failing"
    BY <1>2, <1>4, PhaseIs, PhaseNext, ZenonT(60) DEF At
  <1>6. /\ \A x : phase'[t] = x => phase' = [phase EXCEPT ![t] = x]
        /\ phase'[t] = phase[t] => phase' = phase
    BY <1>4, PhaseMoves
  <1>7. CASE t \in cancelled
    <2>1. cancelled' = cancelled /\ phase' = phase
      BY <1>2, <1>3, <1>5, <1>6, <1>7, ZenonT(60)
    <2> QED
      BY <2>1, ZenonT(60) DEF Promised, Promise!tunnelVars
  <1>8. CASE t \notin cancelled
    <2>1. phase' = [phase EXCEPT ![t] = "failing"]
      BY <1>2, <1>5, <1>6, <1>8
    <2> QED
      BY <1>3, <1>5, <2>1, ZenonT(60) DEF Promised, Promise!TunnelNext, Promise!Fail
  <1> QED
    BY <1>7, <1>8

LEMMA RetirePromise ==
  ASSUME RuntimeInv, NEW t \in Tunnels, Retire(t)
  PROVE  Promised
  <1>1. tunnel \in [Tunnels -> Records] /\ Task(t)
    BY Typed DEF RuntimeInv
  <1>2. At(t, "retire") /\ cancelled' = cancelled /\ t \in cancelled
    BY <1>1 DEF Retire, Task, At
  <1>3. PICK result : result = IF tunnel[t].reply = "granted" THEN tunnel[t].result ELSE "error"
    OBVIOUS
  <1>4. tunnel' = [tunnel EXCEPT ![t].pc = "drain", ![t].armed = FALSE, ![t].result = result]
    BY <1>1, <1>3, ZenonT(60) DEF Retire
  <1>5. /\ \A u \in Tunnels : u # t => tunnel'[u] = tunnel[u]
        /\ tunnel'[t].pc = "drain" /\ tunnel'[t].result = result
    BY <1>1, <1>4 DEF Records
  <1>6. /\ phase[t] = IF tunnel[t].result = "ok" THEN "running" ELSE "failing"
        /\ phase'[t] = IF result = "ok" THEN "running" ELSE "failing"
    BY <1>2, <1>5, PhaseIs, PhaseNext, ZenonT(60) DEF At
  <1>7. /\ \A x : phase'[t] = x => phase' = [phase EXCEPT ![t] = x]
        /\ phase'[t] = phase[t] => phase' = phase
    BY <1>5, PhaseMoves
  <1>8. CASE phase'[t] = phase[t]
    BY <1>2, <1>7, <1>8, ZenonT(60) DEF Promised, Promise!tunnelVars
  <1>9. CASE phase'[t] # phase[t]
    <2>1. phase[t] = "running" /\ phase'[t] = "failing"
      BY <1>3, <1>6, <1>9, ZenonT(60)
    <2>2. phase' = [phase EXCEPT ![t] = "failing"] /\ cancelled' = cancelled \cup {t}
      BY <1>2, <1>7, <2>1
    <2> QED
      BY <2>1, <2>2, ZenonT(60) DEF Promised, Promise!TunnelNext, Promise!Fail
  <1> QED
    BY <1>8, <1>9

LEMMA EndPromise ==
  ASSUME RuntimeInv, NEW t \in Tunnels, Drained(t) \/ StopTimeout(t)
  PROVE  Promised
  <1>1. tunnel \in [Tunnels -> Records] /\ Task(t)
    BY Typed DEF RuntimeInv
  <1>2. /\ tunnel[t].pc \in {"running", "retire", "drain"} /\ cancelled' = cancelled /\ t \in cancelled
    BY <1>1 DEF Drained, StopTimeout, Task, At
  <1>3. PICK result \in {"ok", "error"} :
          /\ tunnel' = [tunnel EXCEPT ![t].pc = "ended", ![t].result = result, ![t].armed = FALSE]
          /\ result = "ok" => tunnel[t].pc = "drain" /\ tunnel[t].result = "ok"
    <2>1. tunnel[t].result \in {"ok", "error"}
      BY <1>1 DEF Records
    <2> QED
      BY <2>1, ZenonT(60) DEF Drained, StopTimeout, EndTask, At
  <1>4. /\ \A u \in Tunnels : u # t => tunnel'[u] = tunnel[u]
        /\ tunnel'[t].pc = "ended" /\ tunnel'[t].result = result
    BY <1>1, <1>3 DEF Records
  <1>5. phase'[t] = result /\ phase[t] \in {"running", "failing"} /\ (result = "ok" => phase[t] = "running")
    BY <1>1, <1>2, <1>3, <1>4, PhaseIs, PhaseNext, ZenonT(60) DEF Records
  <1>6. phase' = [phase EXCEPT ![t] = result]
    BY <1>4, <1>5, PhaseMoves
  <1>7. Promise!End(t)
    BY <1>2, <1>3, <1>5, <1>6, ZenonT(60) DEF Promise!End
  <1> QED
    BY <1>7 DEF Promised, Promise!TunnelNext

LEMMA NextPromise ==
  ASSUME RuntimeInv, [Next]_vars
  PROVE  Promised
  <1>1. ASSUME NEW t \in Tunnels, TaskStep(t) \/ Start(t) \/ AcceptFails(t) \/ AbandonSetup(t) \/ Stop(t)
        PROVE  Promised
    <2>1. CASE LoopEnds(t) \/ AcceptFails(t)
      BY <2>1, LeavePromise DEF LoopEnds, AcceptFails
    <2> QED
      BY <1>1, <2>1, SetupPromise, StopPromise, RetirePromise, EndPromise, ZenonT(60) DEF TaskStep
  <1>2. CASE tunnel' = tunnel /\ cancelled' = cancelled
    BY <1>2, PhaseStays, ZenonT(60) DEF Promised
  <1>3. ASSUME NEW t \in Tunnels, NEW c \in Conns, Admit(t, c) PROVE Promised
    BY <1>2, <1>3 DEF Admit
  <1>4. ASSUME NEW c \in Conns, FlowStep(c) PROVE Promised
    BY <1>2, <1>4, ZenonT(60) DEF FlowStep, FlowAdvances, FlowEnds, FlowDeadline, FlowCancelled, FlowAborted
  <1>5. ASSUME NEW c \in Conns, NEW p \in Ports, ServerOpens(c, p) PROVE Promised
    BY <1>2, <1>5, ZenonT(60) DEF ServerOpens
  <1>6. CASE ServerGrants \/ ServerRetires \/ ServerRefuses \/ DeliverOpen \/ Disconnect
    BY <1>2, <1>6, ZenonT(60) DEF ServerGrants, ServerRetires, ServerRefuses, DeliverOpen, Disconnect
  <1>7. CASE DeliverReply
    <2>1. tunnel \in [Tunnels -> Records]
      BY Typed DEF RuntimeInv
    <2>2. PICK t, p, kind : tunnel' = tunnel \/ tunnel' = [tunnel EXCEPT ![t].reply = kind, ![t].port = p]
      BY <1>7, ZenonT(60) DEF DeliverReply
    <2>3. \A u \in Tunnels : tunnel'[u].pc = tunnel[u].pc /\ tunnel'[u].result = tunnel[u].result
      BY <2>1, <2>2 DEF Records
    <2>4. cancelled' = cancelled
      BY <1>7 DEF DeliverReply
    <2> QED
      BY <2>3, <2>4, PhaseStays DEF Promised
  <1>8. CASE UNCHANGED vars
    BY <1>2, <1>8, ZenonT(60) DEF vars
  <1> QED
    BY <1>1, <1>3, <1>4, <1>5, <1>6, <1>7, <1>8, ZenonT(60) DEF Next

-----------------------------------------------------------------------------
(* Steps that put nothing on the wire.                                      *)

\* Nothing on the wire concerns the tunnel.
Silent(t) ==
  /\ \A i \in DOMAIN toServer : toServer[i].tunnel # t
  /\ \A i \in DOMAIN toClient : toClient[i].kind # "open" => toClient[i].tunnel # t

LEMMA SilentWhen ==
  ASSUME TypeOK, Asked, NEW t \in Tunnels,
         tunnel[t].pc \notin {"requested", "retire"} \/ tunnel[t].reply # "none"
  PROVE  Silent(t)
  <1>1. ASSUME NEW i \in DOMAIN toServer PROVE toServer[i].tunnel # t
    <2>1. toServer[i] \in Up
      BY Typed
    <2> QED
      BY <2>1, ZenonT(60) DEF Asked, Request, At, Up
  <1>2. ASSUME NEW i \in DOMAIN toClient, toClient[i].kind # "open" PROVE toClient[i].tunnel # t
    BY <1>2, ZenonT(60) DEF Asked, Reply
  <1> QED
    BY <1>1, <1>2, ZenonT(60) DEF Silent

\* A tunnel whose record stays, or that nothing on the wire concerns.
Undisturbed(u) ==
  \/ tunnel'[u] = tunnel[u]
  \/ Silent(u) /\ Heard(u)' /\ \A p \in Ports : Has(u, p)' => Has(u, p)

LEMMA Framed ==
  ASSUME RuntimeInv, ~closed, UNCHANGED wires, \A u \in Tunnels : Undisturbed(u),
         \A c \in Conns : conn[c].stage = "wire" => conn'[c] = conn[c]
  PROVE  Wired' /\ (~twice' => Single' /\ Ordered')
  <1>1. /\ Asked /\ Once /\ \A u \in Tunnels : Heard(u)
        /\ ~twice => Single /\ Ordered
        /\ toServer \in Seq(Up) /\ toClient \in Seq(Down)
        /\ toServer' = toServer /\ toClient' = toClient /\ listening' = listening /\ twice' = twice
    BY Typed, ZenonT(60) DEF RuntimeInv, Wired, wires
  <1>2. ASSUME NEW i \in DOMAIN toServer
        PROVE  /\ toServer[i].tunnel \in Tunnels /\ Request(toServer[i])
               /\ tunnel'[toServer[i].tunnel] = tunnel[toServer[i].tunnel]
    <2>1. toServer \in Seq(Up)
      BY <1>1, ZenonT(60)
    <2>2. toServer[i] \in Up
      BY <2>1
    <2>3. toServer[i].tunnel \in Tunnels
      BY <2>2 DEF Up
    <2> QED
      BY <1>1, <2>3, ZenonT(60) DEF Undisturbed, Silent, Asked
  <1>3. ASSUME NEW i \in DOMAIN toClient, toClient[i].kind # "open"
        PROVE  /\ toClient[i].tunnel \in Tunnels /\ Reply(toClient[i])
               /\ tunnel'[toClient[i].tunnel] = tunnel[toClient[i].tunnel]
    BY <1>1, <1>3, ZenonT(60) DEF Undisturbed, Silent, Asked, Reply
  <1>4. Asked'
    <2>1. ASSUME NEW i \in DOMAIN toServer PROVE Request(toServer[i])'
      BY <1>1, <1>2, ZenonT(60) DEF Request, At, Unheard
    <2>2. ASSUME NEW i \in DOMAIN toClient, toClient[i].kind # "open" PROVE Reply(toClient[i])'
      BY <1>1, <1>3, <2>2, ZenonT(60) DEF Reply, At, Unheard, OnlyOn
    <2>3. ASSUME NEW i \in DOMAIN toClient, toClient[i].kind = "open" PROVE Opening(toClient[i])'
      BY <1>1, <2>3, ZenonT(60) DEF Asked, Opening
    <2> QED
      BY <1>1, <2>1, <2>2, <2>3, ZenonT(60) DEF Asked
  <1>5. Once'
    BY <1>1, ZenonT(60) DEF Once
  <1>6. ASSUME NEW u \in Tunnels PROVE Heard(u)'
    <2>1. CASE tunnel'[u] = tunnel[u]
      BY <1>1, <2>1 DEF Heard, At, remote, OnlyOn, Unheard
    <2> QED
      BY <2>1 DEF Undisturbed
  <1>7. ASSUME NEW u \in Tunnels, NEW p \in Ports, Has(u, p)' PROVE Has(u, p)
    BY <1>7, ZenonT(60) DEF Undisturbed, Has, At, remote
  <1>8. ASSUME NEW u \in Tunnels, NEW p \in Ports, NEW i \in DOMAIN toClient, Granted(i, u, p)'
        PROVE  Granted(i, u, p)
    BY <1>1, <1>3, <1>8, ZenonT(60) DEF Granted, At
  <1>9. ASSUME ~twice PROVE Single'
    BY <1>1, <1>7, <1>8, <1>9, ZenonT(60) DEF Single
  <1>10. ASSUME ~twice PROVE Ordered'
    <2> SUFFICES ASSUME NEW i \in DOMAIN toClient, NEW u \in Tunnels, toClient[i].kind = "open"
                 PROVE  /\ Has(u, toClient[i].port)' => u \in conn'[toClient[i].conn].for
                        /\ \A j \in 1..(i - 1) : Granted(j, u, toClient[i].port)' =>
                             u \in conn'[toClient[i].conn].for
      BY <1>1 DEF Ordered
    <2>1. toClient[i].port \in Ports /\ conn'[toClient[i].conn] = conn[toClient[i].conn]
      BY <1>1, ZenonT(60) DEF Asked, Opening
    <2>2. \A j \in 1..(i - 1) : j \in DOMAIN toClient
      BY <1>1
    <2> QED
      BY <1>1, <1>7, <1>8, <1>10, <2>1, <2>2, ZenonT(60) DEF Ordered
  <1> QED
    BY <1>1, <1>4, <1>5, <1>6, <1>9, <1>10, ZenonT(60) DEF Wired

\* A task that does not move is where it was, whatever is cancelled meanwhile.
LEMMA TaskStays ==
  ASSUME NEW u \in Tunnels, Task(u), tunnel'[u] = tunnel[u], cancelled \subseteq cancelled',
         At(u, "running") /\ remote(u) => routes'[tunnel[u].port] = routes[tunnel[u].port]
  PROVE  Task(u)'
  BY ZenonT(60) DEF Task, At, remote

LEMMA CleanStays ==
  ASSUME NEW u \in Tunnels, Clean(u),
         (tunnel'[u].pc = tunnel[u].pc /\ tunnel'[u].result = tunnel[u].result) \/ tunnel'[u].pc # "ended",
         \A c \in Conns : conn'[c].stage \in Flowing /\ conn'[c].tunnel = u =>
                            \/ conn[c].stage \in Flowing /\ conn[c].tunnel = u
                            \/ ~At(u, "ended")
  PROVE  Clean(u)'
  BY ZenonT(60) DEF Clean, At, Flows

LEMMA GenerationsStay ==
  ASSUME Generations, UNCHANGED registry, \A u \in Tunnels : tunnel'[u].gen = tunnel[u].gen,
         \A u \in Tunnels : tunnel[u].gen # 0 => tunnel'[u].port = tunnel[u].port
  PROVE  Generations'
  BY ZenonT(60) DEF Generations, registry

-----------------------------------------------------------------------------
(* The flows.                                                               *)

LEMMA FlowKeeps ==
  ASSUME RuntimeInv, NEW c \in Conns, conn' \in [Conns -> Links],
         \A d \in Conns : d # c => conn'[d] = conn[d],
         conn[c].stage # "wire",
         ~twice /\ conn'[c].stage \in Flowing \cup {"queued"} => conn'[c].tunnel \in conn'[c].for,
         conn'[c].stage \in Flowing => \/ At(conn'[c].tunnel, "running")
                                       \/ conn[c].stage \in Flowing /\ conn[c].tunnel = conn'[c].tunnel,
         closed' \in BOOLEAN, closed => closed',
         UNCHANGED <<registry, setup, tunnel, cancelled, wires>>
  PROVE  RuntimeInv'
  <1>1. TypeOK'
    BY Typed, TypedNext, ZenonT(60) DEF RuntimeInv, registry, wires
  <1>2. ASSUME NEW t \in Tunnels PROVE Task(t)' /\ Clean(t)'
    <2>1. Task(t) /\ Clean(t) /\ tunnel'[t] = tunnel[t] /\ routes' = routes /\ cancelled' = cancelled
      BY ZenonT(60) DEF RuntimeInv, registry
    <2>2. \A d \in Conns : conn'[d].stage \in Flowing /\ conn'[d].tunnel = t =>
                             (conn[d].stage \in Flowing /\ conn[d].tunnel = t) \/ ~At(t, "ended")
      BY DEF At
    <2> QED
      BY <2>1, <2>2, TaskStays, CleanStays, ZenonT(60)
  <1>3. Generations'
    BY GenerationsStay, ZenonT(60) DEF RuntimeInv
  <1>4. ASSUME ~closed' PROVE Wired' /\ (~twice' => Single' /\ Ordered')
    <2>1. \A d \in Conns : conn[d].stage = "wire" => conn'[d] = conn[d]
      OBVIOUS
    <2>2. \A u \in Tunnels : Undisturbed(u)
      BY ZenonT(60) DEF Undisturbed
    <2> QED
      BY <1>4, <2>1, <2>2, Framed, ZenonT(60)
  <1>5. OwnChannelsOnly'
    BY DEF RuntimeInv, OwnChannelsOnly, wires
  <1> QED
    BY <1>1, <1>2, <1>3, <1>4, <1>5, ZenonT(60) DEF RuntimeInv

LEMMA AdmitKeeps ==
  ASSUME RuntimeInv, NEW t \in Tunnels, NEW c \in Conns, Admit(t, c)
  PROVE  RuntimeInv'
  <1>1. conn \in [Conns -> Links] /\ closed \in BOOLEAN
    BY Typed DEF RuntimeInv
  <1> DEFINE stage == IF Permitted(t) THEN "spawned" ELSE "gone"
             for == IF remote(t) THEN conn[c].for ELSE {t}
  <1>2. /\ conn' = [conn EXCEPT ![c].stage = stage, ![c].tunnel = t, ![c].for = for]
        /\ stage \in {"spawned", "gone"} /\ for \in SUBSET Tunnels
        /\ At(t, "running") /\ closed' = closed
        /\ UNCHANGED <<registry, setup, tunnel, cancelled, wires>>
    BY <1>1 DEF Admit, Links
  <1>3. conn[c].stage # "wire" /\ (~twice => t \in for)
    BY DEF Admit, Queued, RuntimeInv, OwnChannelsOnly
  <1> HIDE DEF stage, for
  <1>4. conn'[c] = [conn[c] EXCEPT !.stage = stage, !.tunnel = t, !.for = for]
        /\ \A d \in Conns : d # c => conn'[d] = conn[d]
    BY <1>1, <1>2
  <1>5. conn'[c].stage = stage /\ conn'[c].tunnel = t /\ conn'[c].for = for
    BY <1>1, <1>4 DEF Links
  <1>6. conn' \in [Conns -> Links]
    <2>1. conn[c] \in Links
      BY <1>1, ZenonT(60)
    <2>2. PICK n : n = [conn[c] EXCEPT !.stage = stage, !.tunnel = t, !.for = for]
      BY ZenonT(60)
    <2>3. n \in Links
      BY <1>2, <2>1, <2>2, ZenonT(60) DEF Links, Flowing
    <2>4. conn' = [conn EXCEPT ![c] = n]
      BY <1>2, <2>2, ZenonT(60)
    <2> QED
      BY <1>1, <2>3, <2>4, Replaced, ZenonT(60)
  <1>7. /\ ~twice /\ conn'[c].stage \in Flowing \cup {"queued"} => conn'[c].tunnel \in conn'[c].for
        /\ conn'[c].stage \in Flowing => At(conn'[c].tunnel, "running")
    BY <1>2, <1>3, <1>5
  <1>8. closed' \in BOOLEAN /\ (closed => closed')
    BY <1>1, <1>2, ZenonT(60)
  <1> QED
    BY <1>2, <1>3, <1>4, <1>6, <1>7, <1>8, FlowKeeps, ZenonT(60)

\* The steps of a flow change its stage and nothing else of the connections.
LEMMA FlowStepKeeps ==
  ASSUME RuntimeInv, NEW c \in Conns, FlowStep(c)
  PROVE  RuntimeInv'
  <1>1. conn \in [Conns -> Links] /\ closed \in BOOLEAN
    BY Typed, ZenonT(60) DEF RuntimeInv
  <1>2. PICK stage \in Flowing \cup {"gone"} : Stage(c, stage)
    BY DEF FlowStep, FlowAdvances, FlowEnds, FlowDeadline, FlowCancelled, FlowAborted, After, Flowing
  <1>3. conn[c].stage \in Flowing /\ UNCHANGED <<registry, setup, tunnel, cancelled, wires>>
    BY DEF FlowStep, FlowAdvances, FlowEnds, FlowDeadline, FlowCancelled, FlowAborted, Flowing
  <1>4. closed' \in BOOLEAN /\ (closed => closed')
    BY <1>1, ZenonT(60) DEF FlowStep, FlowAdvances, FlowEnds, FlowDeadline, FlowCancelled, FlowAborted, invalidate
  <1>5. /\ conn'[c].stage = stage /\ conn'[c].tunnel = conn[c].tunnel /\ conn'[c].for = conn[c].for
        /\ \A d \in Conns : d # c => conn'[d] = conn[d]
    BY <1>1, <1>2, ZenonT(60) DEF Stage, Links
  <1>6. conn' \in [Conns -> Links]
    BY <1>1, <1>2, ZenonT(60) DEF Stage, Links, Flowing
  <1>7. conn[c].stage # "wire" /\ (~twice => conn[c].tunnel \in conn[c].for)
    BY <1>3, ZenonT(60) DEF RuntimeInv, OwnChannelsOnly, Flowing
  <1> QED
    BY <1>3, <1>4, <1>5, <1>6, <1>7, FlowKeeps, ZenonT(60)

-----------------------------------------------------------------------------
(* Steps of a task that change its record only.                             *)

LEMMA LocalKeeps ==
  ASSUME RuntimeInv, NEW t \in Tunnels, tunnel' \in [Tunnels -> Records],
         \A u \in Tunnels : u # t => tunnel'[u] = tunnel[u],
         Task(t)', ~closed' => Undisturbed(t),
         tunnel'[t].pc # "ended", tunnel'[t].gen = tunnel[t].gen,
         tunnel[t].gen # 0 => tunnel'[t].port = tunnel[t].port,
         setup' \in Tunnels \cup {Nobody}, closed' \in BOOLEAN, closed => closed',
         UNCHANGED <<registry, cancelled, conn, wires>>
  PROVE  RuntimeInv'
  <1>1. TypeOK'
    BY Typed, TypedNext, ZenonT(60) DEF RuntimeInv, registry, wires
  <1>2. ASSUME NEW u \in Tunnels PROVE Task(u)' /\ Clean(u)'
    <2>1. Task(u) /\ Clean(u) /\ routes' = routes /\ cancelled' = cancelled /\ conn' = conn
      BY ZenonT(60) DEF RuntimeInv, registry
    <2>2. Task(u)'
      BY <2>1, TaskStays, ZenonT(60)
    <2>3. (tunnel'[u].pc = tunnel[u].pc /\ tunnel'[u].result = tunnel[u].result) \/ tunnel'[u].pc # "ended"
      BY ZenonT(60)
    <2> QED
      BY <2>1, <2>2, <2>3, CleanStays, ZenonT(60)
  <1>3. Generations'
    <2>1. \A u \in Tunnels : tunnel'[u].gen = tunnel[u].gen
      BY ZenonT(60)
    <2>2. \A u \in Tunnels : tunnel[u].gen # 0 => tunnel'[u].port = tunnel[u].port
      BY ZenonT(60)
    <2> QED
      BY <2>1, <2>2, GenerationsStay, ZenonT(60) DEF RuntimeInv
  <1>4. ASSUME ~closed' PROVE Wired' /\ (~twice' => Single' /\ Ordered')
    <2>1. \A u \in Tunnels : Undisturbed(u)
      BY <1>4, ZenonT(60) DEF Undisturbed
    <2>2. \A d \in Conns : conn[d].stage = "wire" => conn'[d] = conn[d]
      OBVIOUS
    <2> QED
      BY <1>4, <2>1, <2>2, Framed, ZenonT(60)
  <1>5. OwnChannelsOnly'
    BY ZenonT(60) DEF RuntimeInv, OwnChannelsOnly, wires
  <1> QED
    BY <1>1, <1>2, <1>3, <1>4, <1>5, ZenonT(60) DEF RuntimeInv

LEMMA StartKeeps ==
  ASSUME RuntimeInv, NEW t \in Tunnels, Start(t)
  PROVE  RuntimeInv'
  <1>1. /\ tunnel \in [Tunnels -> Records] /\ closed \in BOOLEAN /\ setup \in Tunnels \cup {Nobody}
        /\ Task(t) /\ (~closed => Asked /\ Heard(t)) /\ TypeOK
    BY Typed DEF RuntimeInv, Wired
  <1>2. PICK r \in Requests[t] : \E pc \in IF r.mode = "remote" THEN {"setup"} ELSE Bound :
          tunnel' = [tunnel EXCEPT ![t].pc = pc, ![t].mode = r.mode, ![t].port = r.bind]
    BY ZenonT(60) DEF Start
  <1>3. PICK pc \in IF r.mode = "remote" THEN {"setup"} ELSE Bound :
          tunnel' = [tunnel EXCEPT ![t].pc = pc, ![t].mode = r.mode, ![t].port = r.bind]
    BY <1>2, ZenonT(60)
  <1>4. /\ r.mode \in Modes /\ r.bind \in Ports \cup {0}
        /\ pc \in {"setup", "running", "refused"} /\ (r.mode = "remote" <=> pc = "setup")
    BY <1>3, TunnelAssumption DEF Bound
  <1>5. At(t, "new") /\ UNCHANGED <<closed, registry, setup, cancelled, conn, wires>>
    BY DEF Start
  <1>6. /\ tunnel' \in [Tunnels -> Records] /\ \A u \in Tunnels : u # t => tunnel'[u] = tunnel[u]
        /\ tunnel'[t].pc = pc /\ tunnel'[t].mode = r.mode
        /\ tunnel'[t].gen = tunnel[t].gen /\ tunnel'[t].reply = tunnel[t].reply
    <2>a. PICK n : n = [tunnel[t] EXCEPT !.pc = pc, !.mode = r.mode, !.port = r.bind]
      BY ZenonT(60)
    <2>b. tunnel' = [tunnel EXCEPT ![t] = n]
      BY <2>a, <1>3, ZenonT(60)
    <2>c. tunnel[t] \in Records
      BY <1>1, ZenonT(60)
    <2>d. n \in Records
      BY <2>a, <2>c, <1>4, ZenonT(60) DEF Records
    <2>e. n.pc = pc /\ n.mode = r.mode /\ n.gen = tunnel[t].gen /\ n.reply = tunnel[t].reply
      BY <2>a, <2>c DEF Records
    <2>f. tunnel' \in [Tunnels -> Records] /\ tunnel'[t] = n /\ \A u \in Tunnels : u # t => tunnel'[u] = tunnel[u]
      BY <1>1, <2>b, <2>d, Replaced, ZenonT(60)
    <2> QED
      BY <2>e, <2>f
  <1>7. tunnel[t].gen = 0 /\ tunnel[t].reply = "none"
    BY <1>1, <1>5 DEF Task, At, Before
  <1>8. Task(t)'
    BY <1>4, <1>6, <1>7, ZenonT(60) DEF Task, At, remote, Before
  <1>9. ASSUME ~closed' PROVE Undisturbed(t)
    <2>1. Silent(t)
      BY <1>1, <1>5, <1>9, SilentWhen, ZenonT(60) DEF At
    <2>2. Unheard(t) /\ listening' = listening
      BY <1>1, <1>5, <1>9, ZenonT(60) DEF Heard, At, Unheard, wires
    <2>3. Heard(t)' /\ \A p \in Ports : ~Has(t, p)'
      BY <1>4, <1>6, <2>2, ZenonT(60) DEF Heard, At, Unheard, Has, remote
    <2> QED
      BY <2>1, <2>3 DEF Undisturbed
  <1> QED
    BY <1>1, <1>4, <1>5, <1>6, <1>7, <1>8, <1>9, LocalKeeps, ZenonT(60)

\* A setup that ends in a refusal leaves nothing behind: the server has answered
\* nothing that it would have to take back, or the session is given up.
LEMMA RefusedKeeps ==
  ASSUME RuntimeInv, NEW t \in Tunnels, tunnel[t].pc \in {"setup", "requested"}, Goto(t, "refused"),
         \/ At(t, "setup") \/ closed' \/ tunnel[t].reply = "failed",
         setup' \in Tunnels \cup {Nobody}, closed' \in BOOLEAN, closed => closed',
         UNCHANGED <<registry, cancelled, conn, wires>>
  PROVE  RuntimeInv'
  <1>1. /\ tunnel \in [Tunnels -> Records] /\ Task(t) /\ (~closed => Asked /\ Heard(t)) /\ TypeOK
    BY Typed, ZenonT(60) DEF RuntimeInv, Wired
  <1>2. /\ tunnel' \in [Tunnels -> Records] /\ \A u \in Tunnels : u # t => tunnel'[u] = tunnel[u]
        /\ tunnel'[t].pc = "refused" /\ tunnel'[t].mode = tunnel[t].mode
        /\ tunnel'[t].gen = tunnel[t].gen /\ tunnel'[t].reply = tunnel[t].reply
    BY <1>1, ZenonT(60) DEF Goto, Records
  <1>3. tunnel[t].gen = 0
    BY <1>1, ZenonT(60) DEF Task, Before
  <1>4. Task(t)'
    BY <1>2, <1>3, ZenonT(60) DEF Task, At, Before
  <1>5. ASSUME ~closed' PROVE Undisturbed(t)
    <2>1. At(t, "setup") \/ (At(t, "requested") /\ tunnel[t].reply = "failed")
      BY <1>5 DEF At
    <2>2. Silent(t)
      BY <1>1, <1>5, <2>1, SilentWhen, ZenonT(60) DEF At
    <2>3. Unheard(t) /\ listening' = listening
      BY <1>1, <1>5, <2>1, ZenonT(60) DEF Heard, At, Unheard, wires
    <2>4. Heard(t)' /\ \A p \in Ports : ~Has(t, p)'
      BY <1>2, <2>3, ZenonT(60) DEF Heard, At, Unheard, Has
    <2> QED
      BY <2>2, <2>4, ZenonT(60) DEF Undisturbed
  <1> QED
    BY <1>2, <1>3, <1>4, <1>5, LocalKeeps, ZenonT(60)

LEMMA ForwardRefusedKeeps ==
  ASSUME RuntimeInv, NEW t \in Tunnels, ForwardRefused(t) \/ SetupDeadline(t) \/ AbandonSetup(t)
  PROVE  RuntimeInv'
  <1>1. closed \in BOOLEAN /\ setup \in Tunnels \cup {Nobody}
    BY Typed, ZenonT(60) DEF RuntimeInv
  <1>2. /\ tunnel[t].pc \in {"setup", "requested"} /\ Goto(t, "refused")
        /\ At(t, "setup") \/ closed' \/ tunnel[t].reply = "failed"
        /\ UNCHANGED <<registry, cancelled, conn, wires>>
    BY <1>1, ZenonT(60) DEF ForwardRefused, SetupDeadline, AbandonSetup, At, invalidate
  <1>3. setup' \in Tunnels \cup {Nobody} /\ closed' \in BOOLEAN /\ (closed => closed')
    BY <1>1, ZenonT(60) DEF ForwardRefused, SetupDeadline, AbandonSetup, At, invalidate
  <1> QED
    BY <1>2, <1>3, RefusedKeeps, ZenonT(60)

LEMMA RetireKeeps ==
  ASSUME RuntimeInv, NEW t \in Tunnels, Retire(t)
  PROVE  RuntimeInv'
  <1>1. /\ tunnel \in [Tunnels -> Records] /\ closed \in BOOLEAN /\ setup \in Tunnels \cup {Nobody}
        /\ Task(t) /\ (~closed => Asked /\ Heard(t)) /\ TypeOK
    BY Typed DEF RuntimeInv, Wired
  <1>2. /\ At(t, "retire") /\ closed' = (closed \/ tunnel[t].reply # "granted")
        /\ UNCHANGED <<registry, setup, cancelled, conn, wires>>
    BY ZenonT(60) DEF Retire
  <1>3. /\ tunnel' \in [Tunnels -> Records] /\ \A u \in Tunnels : u # t => tunnel'[u] = tunnel[u]
        /\ tunnel'[t].pc = "drain" /\ tunnel'[t].mode = tunnel[t].mode /\ tunnel'[t].port = tunnel[t].port
        /\ tunnel'[t].gen = tunnel[t].gen /\ tunnel'[t].reply = tunnel[t].reply
    <2>1. PICK result \in {"ok", "error"} :
            tunnel' = [tunnel EXCEPT ![t].pc = "drain", ![t].armed = FALSE, ![t].result = result]
      <3>1. tunnel[t].result \in {"ok", "error"}
        BY <1>1 DEF Records
      <3>2. PICK result : result = IF tunnel[t].reply = "granted" THEN tunnel[t].result ELSE "error"
        BY ZenonT(60)
      <3>3. tunnel' = [tunnel EXCEPT ![t].pc = "drain", ![t].armed = FALSE, ![t].result = result]
        BY <1>1, <3>2 DEF Retire
      <3> QED
        BY <3>1, <3>2, <3>3, ZenonT(60)
    <2>a. PICK n : n = [tunnel[t] EXCEPT !.pc = "drain", !.armed = FALSE, !.result = result]
      BY ZenonT(60)
    <2>b. tunnel' = [tunnel EXCEPT ![t] = n]
      BY <2>a, <2>1, ZenonT(60)
    <2>c. tunnel[t] \in Records
      BY <1>1, ZenonT(60)
    <2>d. n \in Records
      BY <2>a, <2>c, ZenonT(60) DEF Records
    <2>e. n.pc = "drain" /\ n.mode = tunnel[t].mode /\ n.port = tunnel[t].port /\ n.gen = tunnel[t].gen /\ n.reply = tunnel[t].reply
      BY <2>a, <2>c, ZenonT(60) DEF Records
    <2>f. tunnel' \in [Tunnels -> Records] /\ tunnel'[t] = n /\ \A u \in Tunnels : u # t => tunnel'[u] = tunnel[u]
      BY <1>1, <2>b, <2>d, Replaced, ZenonT(60)
    <2> QED
      BY <2>e, <2>f
  <1>4. Task(t)'
    BY <1>1, <1>2, <1>3, ZenonT(60) DEF Task, At, Before, remote
  <1>5. ASSUME ~closed' PROVE Undisturbed(t)
    <2>1. Silent(t)
      BY <1>1, <1>2, <1>5, SilentWhen, ZenonT(60)
    <2>2. Unheard(t) /\ listening' = listening
      BY <1>1, <1>2, <1>5, ZenonT(60) DEF Heard, At, Unheard, wires
    <2>3. Heard(t)' /\ \A p \in Ports : ~Has(t, p)'
      BY <1>3, <2>2, ZenonT(60) DEF Heard, At, Unheard, Has
    <2> QED
      BY <2>1, <2>3 DEF Undisturbed
  <1>6. closed' \in BOOLEAN /\ (closed => closed') /\ setup' \in Tunnels \cup {Nobody}
    BY <1>1, <1>2
  <1> QED
    BY <1>2, <1>3, <1>4, <1>5, <1>6, LocalKeeps, ZenonT(60)

-----------------------------------------------------------------------------
(* Steps that change routes, tokens or the session.                         *)

LEMMA StopKeeps ==
  ASSUME RuntimeInv, NEW t \in Tunnels, Stop(t)
  PROVE  RuntimeInv'
  <1>1. cancelled' = cancelled \cup {t} /\ UNCHANGED <<closed, registry, setup, tunnel, conn, wires>>
    BY DEF Stop
  <1>2. TypeOK'
    BY <1>1, Typed, TypedNext, ZenonT(60) DEF RuntimeInv, registry, wires
  <1>3. ASSUME NEW u \in Tunnels PROVE Task(u)' /\ Clean(u)'
    <2>1. Task(u) /\ Clean(u) /\ routes' = routes /\ cancelled \subseteq cancelled' /\ tunnel' = tunnel /\ conn' = conn
      BY <1>1, ZenonT(60) DEF RuntimeInv, registry
    <2> QED
      BY <2>1, TaskStays, CleanStays, ZenonT(60)
  <1>4. Generations'
    BY <1>1, GenerationsStay, ZenonT(60) DEF RuntimeInv
  <1>5. ASSUME ~closed' PROVE Wired' /\ (~twice' => Single' /\ Ordered')
    <2>1. \A u \in Tunnels : Undisturbed(u)
      BY <1>1, ZenonT(60) DEF Undisturbed
    <2> QED
      BY <1>1, <1>5, <2>1, Framed, ZenonT(60)
  <1>6. OwnChannelsOnly'
    BY <1>1, ZenonT(60) DEF RuntimeInv, OwnChannelsOnly, wires
  <1> QED
    BY <1>2, <1>3, <1>4, <1>5, <1>6, ZenonT(60) DEF RuntimeInv

LEMMA DisconnectKeeps ==
  ASSUME RuntimeInv, Disconnect
  PROVE  RuntimeInv'
  <1>1. closed' = TRUE /\ UNCHANGED <<registry, setup, tunnel, cancelled, conn, wires>>
    BY ZenonT(60) DEF Disconnect
  <1>2. TypeOK'
    BY <1>1, Typed, TypedNext, ZenonT(60) DEF RuntimeInv, registry, wires
  <1>3. ASSUME NEW u \in Tunnels PROVE Task(u)' /\ Clean(u)'
    <2>1. Task(u) /\ Clean(u) /\ routes' = routes /\ cancelled \subseteq cancelled' /\ tunnel' = tunnel /\ conn' = conn
      BY <1>1, ZenonT(60) DEF RuntimeInv, registry
    <2> QED
      BY <2>1, TaskStays, CleanStays, ZenonT(60)
  <1>4. Generations'
    BY <1>1, GenerationsStay, ZenonT(60) DEF RuntimeInv
  <1>5. OwnChannelsOnly'
    BY <1>1, ZenonT(60) DEF RuntimeInv, OwnChannelsOnly, wires
  <1> QED
    BY <1>1, <1>2, <1>3, <1>4, <1>5, ZenonT(60) DEF RuntimeInv

\* The grant is taken up: its port has no route yet, so no running tunnel has it.
LEMMA RegisterKeeps ==
  ASSUME RuntimeInv, NEW t \in Tunnels, RegisterForward(t)
  PROVE  RuntimeInv'
  <1>1. /\ tunnel \in [Tunnels -> Records] /\ closed \in BOOLEAN /\ routes \in [Ports -> Nat] /\ generation \in Nat
        /\ Task(t) /\ (~closed => Asked /\ Heard(t)) /\ TypeOK /\ Generations
    BY Typed DEF RuntimeInv, Wired
  <1>2. At(t, "requested") /\ tunnel[t].reply = "granted" /\ setup' = Nobody /\ UNCHANGED <<cancelled, conn, wires>>
    BY ZenonT(60) DEF RegisterForward
  <1>3. CASE contains_port(tunnel[t].port)
    <2>1. Goto(t, "refused") /\ closed' /\ UNCHANGED registry
      BY <1>3, ZenonT(60) DEF RegisterForward, invalidate
    <2> QED
      BY <1>2, <1>3, <2>1, RefusedKeeps, ZenonT(60) DEF At, RegisterForward, invalidate
  <1>4. CASE ~contains_port(tunnel[t].port)
    <2> DEFINE q == tunnel[t].port
               n == generation + 1
    <2>1. /\ generation' = n /\ routes' = [routes EXCEPT ![q] = n]
          /\ tunnel' = [tunnel EXCEPT ![t].pc = "running", ![t].gen = n, ![t].armed = TRUE]
          /\ closed' = closed
      BY <1>4 DEF RegisterForward, register
    <2>2. q \in Ports /\ remote(t) /\ routes[q] = 0 /\ n \in Nat /\ n # 0 /\ tunnel[t].gen = 0
      BY <1>1, <1>2, <1>4 DEF Task, At, contains_port, Before
    <2> HIDE DEF n, q
    <2>3. /\ tunnel' \in [Tunnels -> Records] /\ \A u \in Tunnels : u # t => tunnel'[u] = tunnel[u]
          /\ tunnel'[t].pc = "running" /\ tunnel'[t].mode = tunnel[t].mode /\ tunnel'[t].port = q
          /\ tunnel'[t].gen = n /\ tunnel'[t].armed = TRUE
      BY <1>1, <2>1, <2>2 DEF Records, q
    <2>4. routes' \in [Ports -> Nat] /\ routes'[q] = n /\ \A p \in Ports : p # q => routes'[p] = routes[p]
      BY <1>1, <2>1, <2>2, ZenonT(60)
    <2>5. TypeOK'
      BY <1>1, <1>2, <2>1, <2>2, <2>3, <2>4, Typed, TypedNext, ZenonT(60) DEF wires
    <2>6. Task(t)'
      BY <2>2, <2>3, <2>4, ZenonT(60) DEF Task, At, remote, Before
    <2>7. ASSUME NEW u \in Tunnels PROVE Task(u)' /\ Clean(u)'
      <3>1. Task(u) /\ Clean(u)
        BY ZenonT(60) DEF RuntimeInv
      <3>2. u # t => Task(u)'
        <4>1. u # t /\ At(u, "running") /\ remote(u) => routes'[tunnel[u].port] = routes[tunnel[u].port]
          BY <2>2, <2>4, <3>1, ZenonT(60) DEF Task
        <4> QED
          BY <1>2, <2>3, <3>1, <4>1, TaskStays, ZenonT(60)
      <3>3. Clean(u)'
        BY <1>2, <2>3, <3>1, CleanStays, ZenonT(60)
      <3> QED
        BY <2>6, <3>2, <3>3
    <2>8. Generations'
      <3>1. \A u \in Tunnels : tunnel[u].gen < n
        BY <1>1 DEF Generations, n, Records
      <3>2. \A p \in Ports : routes[p] < n
        BY <1>1 DEF Generations, n
      <3>3. \A p \in Ports : routes'[p] <= n
        BY <1>1, <2>2, <2>4, <3>2
      <3>4. \A u \in Tunnels : tunnel'[u].gen <= n
        BY <1>1, <2>2, <2>3, <3>1 DEF Records
      <3>5. \A u, v \in Tunnels : tunnel'[u].gen = tunnel'[v].gen /\ tunnel'[u].gen # 0 => u = v
        BY <1>1, <2>2, <2>3, <3>1 DEF Generations, Records
      <3>6. \A p \in Ports, u \in Tunnels : routes'[p] # 0 /\ tunnel'[u].gen = routes'[p] => tunnel'[u].port = p
        BY <1>1, <2>2, <2>3, <2>4, <3>1, <3>2 DEF Generations, Records
      <3> QED
        BY <2>1, <3>3, <3>4, <3>5, <3>6, ZenonT(60) DEF Generations
    <2>9. ASSUME ~closed' PROVE Wired' /\ (~twice' => Single' /\ Ordered')
      <3>1. Silent(t)
        BY <1>1, <1>2, <2>1, <2>9, SilentWhen, ZenonT(60)
      <3>2. Heard(t)' /\ \A p \in Ports : Has(t, p)' => Has(t, p)
        BY <1>1, <1>2, <2>1, <2>2, <2>3, <2>9, ZenonT(60) DEF Heard, At, OnlyOn, Has, remote, wires, q
      <3>3. \A u \in Tunnels : Undisturbed(u)
        BY <2>3, <3>1, <3>2, ZenonT(60) DEF Undisturbed
      <3> QED
        BY <1>2, <2>1, <2>9, <3>3, Framed, ZenonT(60)
    <2>10. OwnChannelsOnly'
      BY <1>2, ZenonT(60) DEF RuntimeInv, OwnChannelsOnly, wires
    <2> QED
      BY <2>5, <2>7, <2>8, <2>9, <2>10, ZenonT(60) DEF RuntimeInv
  <1> QED
    BY <1>3, <1>4, ZenonT(60)

-----------------------------------------------------------------------------
(* Requests to the server.                                                  *)

\* A task that nothing on the wire concerns sends a request.
LEMMA Sent ==
  ASSUME RuntimeInv, ~closed, NEW t \in Tunnels, Silent(t), NEW m \in Up, m.tunnel = t,
         toServer' = Append(toServer, m), UNCHANGED <<toClient, listening, twice, conn>>,
         \A u \in Tunnels : u # t => tunnel'[u] = tunnel[u],
         Request(m)', Heard(t)', \A p \in Ports : Has(t, p)' => Has(t, p),
         ~twice /\ m.kind = "cancel" => t \in listening[m.port]
  PROVE  Wired' /\ (~twice' => Single' /\ Ordered')
  <1>1. Asked /\ Once /\ \A u \in Tunnels : Heard(u)
    BY ZenonT(60) DEF RuntimeInv, Wired
  <1>2. ~twice => Single /\ Ordered
    BY ZenonT(60) DEF RuntimeInv
  <1>3. toServer \in Seq(Up) /\ toClient \in Seq(Down)
    BY Typed, ZenonT(60) DEF RuntimeInv
  <1>4. /\ Len(toServer) \in Nat /\ DOMAIN toServer = 1..Len(toServer)
        /\ DOMAIN toServer' = 1..(Len(toServer) + 1)
        /\ \A i \in DOMAIN toServer : toServer'[i] = toServer[i]
        /\ toServer'[Len(toServer) + 1] = m
    BY <1>3, Appended
  <1>5. \A i \in DOMAIN toServer' : i \in DOMAIN toServer \/ i = Len(toServer) + 1
    BY <1>4
  <1>6. ASSUME NEW i \in DOMAIN toServer
        PROVE  /\ toServer[i].tunnel \in Tunnels /\ Request(toServer[i])
               /\ tunnel'[toServer[i].tunnel] = tunnel[toServer[i].tunnel] /\ toServer[i].tunnel # t
    <2>1. toServer[i] \in Up
      BY <1>3
    <2>2. toServer[i].tunnel \in Tunnels
      BY <2>1 DEF Up
    <2> QED
      BY <1>1, <2>2, ZenonT(60) DEF Silent, Asked
  <1>7. ASSUME NEW i \in DOMAIN toClient, toClient[i].kind # "open"
        PROVE  /\ toClient[i].tunnel \in Tunnels /\ Reply(toClient[i])
               /\ tunnel'[toClient[i].tunnel] = tunnel[toClient[i].tunnel] /\ toClient[i].tunnel # t
    BY <1>1, <1>7, ZenonT(60) DEF Silent, Asked, Reply
  <1>8. Asked'
    <2>1. ASSUME NEW i \in DOMAIN toServer' PROVE Request(toServer[i])'
      <3>1. CASE i \in DOMAIN toServer
        <4>1. toServer'[i] = toServer[i] /\ Request(toServer[i]) /\ toServer[i].tunnel \in Tunnels
              /\ tunnel'[toServer[i].tunnel] = tunnel[toServer[i].tunnel]
          BY <1>4, <1>6, <3>1, ZenonT(60)
        <4> QED
          BY <4>1 DEF Request, At, Unheard
      <3>2. CASE i = Len(toServer) + 1
        BY <1>4, <3>2, ZenonT(60) DEF Request, At, Unheard
      <3> QED
        BY <1>5, <3>1, <3>2, ZenonT(60)
    <2>2. ASSUME NEW i \in DOMAIN toClient, toClient[i].kind # "open" PROVE Reply(toClient[i])'
      BY <1>7, <2>2, ZenonT(60) DEF Reply, At, Unheard, OnlyOn
    <2>3. ASSUME NEW i \in DOMAIN toClient, toClient[i].kind = "open" PROVE Opening(toClient[i])'
      BY <1>1, <2>3, ZenonT(60) DEF Asked, Opening
    <2> QED
      BY <2>1, <2>2, <2>3, ZenonT(60) DEF Asked
  <1>9. Once'
    <2>1. ASSUME NEW i \in DOMAIN toServer', NEW j \in DOMAIN toServer', toServer'[i].tunnel = toServer'[j].tunnel
          PROVE  i = j
      <3>1. CASE i \in DOMAIN toServer /\ j \in DOMAIN toServer
        BY <1>1, <1>4, <2>1, <3>1, ZenonT(60) DEF Once
      <3>2. CASE i = Len(toServer) + 1 \/ j = Len(toServer) + 1
        BY <1>4, <1>5, <1>6, <2>1, <3>2, ZenonT(60)
      <3> QED
        BY <1>5, <3>1, <3>2, ZenonT(60)
    <2>2. ASSUME NEW i \in DOMAIN toServer', NEW j \in DOMAIN toClient, toClient[j].kind # "open"
          PROVE  toServer'[i].tunnel # toClient[j].tunnel
      <3>1. CASE i \in DOMAIN toServer
        <4>1. toServer'[i] = toServer[i]
          BY <1>4, <3>1, ZenonT(60)
        <4>2. toClient[j].kind # "open" => toServer[i].tunnel # toClient[j].tunnel
          BY <1>1, <3>1, ZenonT(60) DEF Once
        <4> QED
          BY <2>2, <4>1, <4>2, ZenonT(60)
      <3>2. CASE i = Len(toServer) + 1
        BY <1>4, <1>7, <2>2, <3>2, ZenonT(60)
      <3> QED
        BY <1>5, <3>1, <3>2, ZenonT(60)
    <2> QED
      BY <1>1, <2>1, <2>2, ZenonT(60) DEF Once
  <1>10. ASSUME NEW u \in Tunnels PROVE Heard(u)'
    <2>1. CASE u # t
      BY <1>1, <2>1 DEF Heard, At, remote, OnlyOn, Unheard
    <2> QED
      BY <2>1, ZenonT(60)
  <1>11. ASSUME NEW u \in Tunnels, NEW p \in Ports, Has(u, p)' PROVE Has(u, p)
    <2>1. CASE u # t
      BY <1>11, <2>1, ZenonT(60) DEF Has, At, remote
    <2> QED
      BY <1>11, <2>1
  <1>12. ASSUME NEW u \in Tunnels, NEW p \in Ports, NEW i \in DOMAIN toClient, Granted(i, u, p)'
         PROVE  Granted(i, u, p)
    BY <1>7, <1>12, ZenonT(60) DEF Granted, At
  <1>13. ASSUME ~twice PROVE Single'
    <2>1. \A i \in DOMAIN toServer' :
            toServer'[i].kind = "cancel" => toServer'[i].tunnel \in listening[toServer'[i].port]
      BY <1>2, <1>4, <1>5, <1>13, ZenonT(60) DEF Single
    <2> QED
      BY <1>2, <1>11, <1>12, <1>13, <2>1, ZenonT(60) DEF Single
  <1>14. ASSUME ~twice PROVE Ordered'
    <2> SUFFICES ASSUME NEW i \in DOMAIN toClient, NEW u \in Tunnels, toClient[i].kind = "open"
                 PROVE  /\ Has(u, toClient[i].port)' => u \in conn[toClient[i].conn].for
                        /\ \A j \in 1..(i - 1) : Granted(j, u, toClient[i].port)' =>
                             u \in conn[toClient[i].conn].for
      BY ZenonT(60) DEF Ordered
    <2>1. toClient[i].port \in Ports
      BY <1>1, ZenonT(60) DEF Asked, Opening
    <2>2. \A j \in 1..(i - 1) : j \in DOMAIN toClient
      BY <1>3
    <2> QED
      BY <1>2, <1>11, <1>12, <1>14, <2>1, <2>2, ZenonT(60) DEF Ordered
  <1> QED
    BY <1>8, <1>9, <1>10, <1>13, <1>14, ZenonT(60) DEF Wired

LEMMA RequestKeeps ==
  ASSUME RuntimeInv, NEW t \in Tunnels, RequestForward(t)
  PROVE  RuntimeInv'
  <1>1. /\ tunnel \in [Tunnels -> Records] /\ closed \in BOOLEAN /\ toServer \in Seq(Up)
        /\ Task(t) /\ (~closed => Asked /\ Heard(t)) /\ TypeOK
    BY Typed, ZenonT(60) DEF RuntimeInv, Wired
  <1>2. At(t, "setup") /\ UNCHANGED <<closed, registry, cancelled, conn, toClient, listening, twice>>
    BY DEF RequestForward
  <1>3. CASE Goto(t, "refused") /\ UNCHANGED <<setup, toServer>>
    <2>1. setup' \in Tunnels \cup {Nobody} /\ tunnel[t].pc \in {"setup", "requested"}
      BY <1>1, <1>2, <1>3, Typed, ZenonT(60) DEF At
    <2> QED
      BY <1>1, <1>2, <1>3, <2>1, RefusedKeeps, ZenonT(60) DEF wires
  <1>m. PICK m : m = [kind |-> "forward", tunnel |-> t, port |-> tunnel[t].port]
    BY ZenonT(60)
  <1>4. CASE ~closed /\ toServer' = Append(toServer, m) /\ Goto(t, "requested") /\ setup' = t
    <2>1. /\ tunnel' \in [Tunnels -> Records] /\ \A u \in Tunnels : u # t => tunnel'[u] = tunnel[u]
          /\ tunnel'[t].pc = "requested" /\ tunnel'[t].mode = tunnel[t].mode /\ tunnel'[t].port = tunnel[t].port
          /\ tunnel'[t].gen = tunnel[t].gen /\ tunnel'[t].reply = tunnel[t].reply
      <3>a. PICK n : n = [tunnel[t] EXCEPT !.pc = "requested"]
        BY ZenonT(60)
      <3>b. tunnel' = [tunnel EXCEPT ![t] = n]
        BY <3>a, <1>4, ZenonT(60) DEF Goto
      <3>c. tunnel[t] \in Records
        BY <1>1, ZenonT(60)
      <3>d. n \in Records
        BY <3>a, <3>c, ZenonT(60) DEF Records
      <3>e. n.pc = "requested" /\ n.mode = tunnel[t].mode /\ n.port = tunnel[t].port /\ n.gen = tunnel[t].gen /\ n.reply = tunnel[t].reply
        BY <3>a, <3>c, ZenonT(60) DEF Records
      <3>f. tunnel' \in [Tunnels -> Records] /\ tunnel'[t] = n /\ \A u \in Tunnels : u # t => tunnel'[u] = tunnel[u]
        BY <1>1, <3>b, <3>d, Replaced, ZenonT(60)
      <3> QED
        BY <3>e, <3>f
    <2>2. tunnel[t].gen = 0 /\ tunnel[t].reply = "none" /\ remote(t)
      BY <1>1, <1>2, ZenonT(60) DEF Task, At, Before
    <2>3. m \in Up /\ m.tunnel = t /\ m.kind = "forward" /\ m.port = tunnel[t].port
      BY <1>1, <1>m DEF Up, Records
    <2>4. Silent(t)
      BY <1>1, <1>2, <1>4, SilentWhen, ZenonT(60) DEF At
    <2>5. Unheard(t)
      BY <1>1, <1>2, <1>4, ZenonT(60) DEF Heard, At, Unheard
    <2>6. Request(m)' /\ Heard(t)' /\ \A p \in Ports : ~Has(t, p)'
      BY <1>2, <2>1, <2>2, <2>3, <2>5, ZenonT(60) DEF Request, Heard, At, Unheard, Has
    <2>7. Wired' /\ (~twice' => Single' /\ Ordered')
      <3>1. ~twice /\ m.kind = "cancel" => t \in listening[m.port]
        BY <2>3
      <3> QED
        BY <1>2, <1>4, <2>1, <2>3, <2>4, <2>6, <3>1, Sent, ZenonT(60)
    <2>8. TypeOK'
      <3>1. toServer' \in Seq(Up)
        BY <1>1, <1>4, <2>3, Appended, ZenonT(60)
      <3> QED
        BY <1>1, <1>2, <1>4, <2>1, <3>1, Typed, TypedNext, ZenonT(60) DEF registry
    <2>9. ASSUME NEW u \in Tunnels PROVE Task(u)' /\ Clean(u)'
      <3>1. Task(u) /\ Clean(u) /\ routes' = routes /\ cancelled' = cancelled /\ conn' = conn
        BY <1>2, ZenonT(60) DEF RuntimeInv, registry
      <3>2. u # t => Task(u)'
        BY <2>1, <3>1, TaskStays, ZenonT(60)
      <3>3. Task(t)'
        BY <2>1, <2>2 DEF Task, At, remote, Before
      <3>4. Clean(u)'
        BY <2>1, <3>1, CleanStays, ZenonT(60)
      <3> QED
        BY <3>2, <3>3, <3>4, ZenonT(60)
    <2>10. Generations'
      BY <1>2, <2>1, GenerationsStay, ZenonT(60) DEF RuntimeInv
    <2>11. OwnChannelsOnly'
      BY <1>2, ZenonT(60) DEF RuntimeInv, OwnChannelsOnly
    <2> QED
      BY <2>7, <2>8, <2>9, <2>10, <2>11, ZenonT(60) DEF RuntimeInv
  <1> QED
    BY <1>3, <1>4, <1>m, ZenonT(60) DEF RequestForward

\* remove_if_generation takes no other tunnel's route.
LEMMA Unrouting ==
  ASSUME RuntimeInv, NEW t \in Tunnels, routes' = Unrouted(t)
  PROVE  /\ routes' \in [Ports -> Nat]
         /\ \A p \in Ports : routes'[p] = 0 \/ routes'[p] = routes[p]
         /\ \A u \in Tunnels : u # t /\ At(u, "running") /\ remote(u) =>
              routes'[tunnel[u].port] = routes[tunnel[u].port]
  <1>1. routes \in [Ports -> Nat] /\ Generations /\ \A u \in Tunnels : Task(u)
    BY Typed, ZenonT(60) DEF RuntimeInv
  <1>2. ASSUME NEW u \in Tunnels, u # t, At(u, "running"), remote(u)
        PROVE  routes'[tunnel[u].port] = routes[tunnel[u].port]
    BY <1>1, <1>2 DEF Unrouted, Task, Generations
  <1> QED
    BY <1>1, <1>2, ZenonT(60) DEF Unrouted

LEMMA GenerationsShrink ==
  ASSUME Generations, routes \in [Ports -> Nat], generation \in Nat, generation' = generation,
         \A p \in Ports : routes'[p] = 0 \/ routes'[p] = routes[p],
         \A u \in Tunnels : tunnel'[u].gen = tunnel[u].gen,
         \A u \in Tunnels : tunnel[u].gen # 0 => tunnel'[u].port = tunnel[u].port
  PROVE  Generations'
  <1>1. \A p \in Ports : routes'[p] <= generation
    BY DEF Generations
  <1>2. \A u \in Tunnels : tunnel'[u].gen <= generation
    BY ZenonT(60) DEF Generations
  <1>3. ASSUME NEW u \in Tunnels, NEW v \in Tunnels, tunnel'[u].gen = tunnel'[v].gen, tunnel'[u].gen # 0
        PROVE  u = v
    BY <1>3, ZenonT(60) DEF Generations
  <1>4. ASSUME NEW p \in Ports, NEW u \in Tunnels, routes'[p] # 0, tunnel'[u].gen = routes'[p]
        PROVE  tunnel'[u].port = p
    <2>1. routes'[p] = routes[p] /\ tunnel[u].gen = routes[p] /\ routes[p] # 0
      BY <1>4, ZenonT(60)
    <2>2. tunnel[u].port = p
      BY <2>1, ZenonT(60) DEF Generations
    <2> QED
      BY <2>1, <2>2, ZenonT(60)
  <1> QED
    BY <1>1, <1>2, <1>3, <1>4, ZenonT(60) DEF Generations

LEMMA LeaveKeeps ==
  ASSUME RuntimeInv, NEW t \in Tunnels, At(t, "running"), LeaveLoop(t)
  PROVE  RuntimeInv'
  <1>1. /\ tunnel \in [Tunnels -> Records] /\ closed \in BOOLEAN /\ toServer \in Seq(Up)
        /\ routes \in [Ports -> Nat] /\ generation \in Nat /\ cancelled \subseteq Tunnels
        /\ Task(t) /\ (~closed => Asked /\ Heard(t)) /\ TypeOK /\ Generations
    BY Typed DEF RuntimeInv, Wired
  <1>2. /\ routes' = Unrouted(t) /\ cancelled' = cancelled \cup {t}
        /\ UNCHANGED <<closed, generation, setup, conn, toClient, listening, twice>>
    BY ZenonT(60) DEF LeaveLoop
  <1>3. /\ routes' \in [Ports -> Nat] /\ \A p \in Ports : routes'[p] = 0 \/ routes'[p] = routes[p]
        /\ \A u \in Tunnels : u # t /\ At(u, "running") /\ remote(u) =>
             routes'[tunnel[u].port] = routes[tunnel[u].port]
    BY <1>2, Unrouting
  <1> DEFINE asked == remote(t) /\ ~closed
  <1>4. /\ tunnel' \in [Tunnels -> Records] /\ \A u \in Tunnels : u # t => tunnel'[u] = tunnel[u]
        /\ tunnel'[t].pc = IF asked THEN "retire" ELSE "drain"
        /\ tunnel'[t].mode = tunnel[t].mode /\ tunnel'[t].port = tunnel[t].port
        /\ tunnel'[t].gen = tunnel[t].gen /\ tunnel'[t].reply = "none" /\ tunnel'[t].armed = asked
    <2> DEFINE pc == IF asked THEN "retire" ELSE "drain"
               result == IF t \in cancelled THEN "ok" ELSE "error"
    <2>1. tunnel' = [tunnel EXCEPT ![t].pc = pc, ![t].reply = "none", ![t].armed = asked, ![t].result = result]
      BY ZenonT(60) DEF LeaveLoop
    <2>2. pc \in {"retire", "drain"} /\ result \in {"ok", "error"} /\ asked \in BOOLEAN
      BY <1>1, ZenonT(60)
    <2> HIDE DEF pc, result, asked
    <2>3. /\ tunnel' \in [Tunnels -> Records] /\ \A u \in Tunnels : u # t => tunnel'[u] = tunnel[u]
          /\ tunnel'[t].pc = pc /\ tunnel'[t].mode = tunnel[t].mode /\ tunnel'[t].port = tunnel[t].port
          /\ tunnel'[t].gen = tunnel[t].gen /\ tunnel'[t].reply = "none" /\ tunnel'[t].armed = asked
      <3>a. PICK n : n = [tunnel[t] EXCEPT !.pc = pc, !.reply = "none", !.armed = asked, !.result = result]
        BY ZenonT(60)
      <3>b. tunnel' = [tunnel EXCEPT ![t] = n]
        BY <3>a, <2>1, ZenonT(60)
      <3>c. tunnel[t] \in Records
        BY <1>1, ZenonT(60)
      <3>d. n \in Records
        BY <3>a, <3>c, <2>2, ZenonT(60) DEF Records
      <3>e. n.pc = pc /\ n.mode = tunnel[t].mode /\ n.port = tunnel[t].port /\ n.gen = tunnel[t].gen /\ n.reply = "none" /\ n.armed = asked
        BY <3>a, <3>c, ZenonT(60) DEF Records
      <3>f. tunnel' \in [Tunnels -> Records] /\ tunnel'[t] = n /\ \A u \in Tunnels : u # t => tunnel'[u] = tunnel[u]
        BY <1>1, <3>b, <3>d, Replaced, ZenonT(60)
      <3> QED
        BY <3>e, <3>f
    <2> QED
      BY <2>3, ZenonT(60) DEF pc
  <1>5. Task(t)'
    BY <1>1, <1>2, <1>4, ZenonT(60) DEF Task, At, remote, Before
  <1>6. ASSUME NEW u \in Tunnels PROVE Task(u)' /\ Clean(u)'
    <2>1. Task(u) /\ Clean(u) /\ cancelled \subseteq cancelled' /\ conn' = conn
      BY <1>2, ZenonT(60) DEF RuntimeInv
    <2>2. u # t => Task(u)'
      BY <1>3, <1>4, <2>1, TaskStays, ZenonT(60)
    <2>3. tunnel'[t].pc # "ended"
      BY <1>4, ZenonT(60)
    <2>4. Clean(u)'
      BY <1>4, <2>1, <2>3, CleanStays, ZenonT(60)
    <2> QED
      BY <1>5, <2>2, <2>4, ZenonT(60)
  <1>7. Generations'
    BY <1>1, <1>2, <1>3, <1>4, GenerationsShrink, ZenonT(60)
  <1>8. OwnChannelsOnly'
    BY <1>2, ZenonT(60) DEF RuntimeInv, OwnChannelsOnly
  <1>m. PICK m : m = [kind |-> "cancel", tunnel |-> t, port |-> tunnel[t].port]
    BY ZenonT(60)
  <1>9. toServer' = (IF asked THEN Append(toServer, m) ELSE toServer)
    BY <1>m, ZenonT(60) DEF LeaveLoop
  <1>10. m \in Up /\ m.tunnel = t /\ m.kind = "cancel" /\ m.port = tunnel[t].port
    BY <1>1, <1>m, ZenonT(60) DEF Up, Records
  <1>11. TypeOK'
    <2>1. toServer' \in Seq(Up)
      BY <1>1, <1>9, <1>10, Appended, ZenonT(60)
    <2>2. cancelled' \subseteq Tunnels
      BY <1>1, <1>2, ZenonT(60)
    <2> QED
      BY <1>1, <1>2, <1>3, <1>4, <2>1, <2>2, Typed, TypedNext, ZenonT(60)
  <1>12. ASSUME ~closed' PROVE Wired' /\ (~twice' => Single' /\ Ordered')
    <2>1. ~closed /\ Silent(t)
      BY <1>1, <1>2, <1>12, SilentWhen, ZenonT(60) DEF At
    <2>2. \A p \in Ports : ~Has(t, p)'
      BY <1>4, ZenonT(60) DEF Has, At
    <2>3. CASE remote(t)
      <3>1. toServer' = Append(toServer, m) /\ tunnel'[t].pc = "retire"
        BY <1>4, <1>9, <2>1, <2>3, ZenonT(60)
      <3>2. Request(m)' /\ Heard(t)'
        BY <1>1, <1>2, <1>4, <1>10, <2>1, <2>3, <3>1, ZenonT(60) DEF Request, Heard, At
      <3>3. ~twice => t \in listening[m.port]
        <4>1. Has(t, m.port) /\ m.port \in Ports
          BY <1>1, <1>10, <2>3 DEF Has, Task
        <4> QED
          BY <2>1, <4>1, ZenonT(60) DEF RuntimeInv, Single
      <3> QED
        BY <1>2, <1>4, <1>10, <2>1, <2>2, <3>1, <3>2, <3>3, Sent, ZenonT(60)
    <2>4. CASE ~remote(t)
      <3>1. toServer' = toServer /\ tunnel'[t].pc = "drain"
        BY <1>4, <1>9, <2>4, ZenonT(60)
      <3>2. Unheard(t)
        BY <1>1, <2>1, <2>4, ZenonT(60) DEF Heard, At, Unheard
      <3>3. Heard(t)'
        BY <1>2, <3>1, <3>2, ZenonT(60) DEF Heard, At, Unheard
      <3>4. \A u \in Tunnels : Undisturbed(u)
        BY <1>4, <2>1, <2>2, <3>3, ZenonT(60) DEF Undisturbed
      <3> QED
        BY <1>2, <2>1, <3>1, <3>4, Framed, ZenonT(60) DEF wires
    <2> QED
      BY <2>3, <2>4, ZenonT(60)
  <1> QED
    BY <1>6, <1>7, <1>8, <1>11, <1>12, ZenonT(60) DEF RuntimeInv

-----------------------------------------------------------------------------
(* The end of a task.                                                       *)

LEMMA EndKeeps ==
  ASSUME RuntimeInv, NEW t \in Tunnels, NEW result \in {"ok", "error"}, NEW left \in [Conns -> Links],
         EndTask(t, result, left),
         \A c \in Conns : /\ left[c].tunnel = conn[c].tunnel /\ left[c].for = conn[c].for
                          /\ left[c].stage = "gone" \/ (left[c].stage = conn[c].stage /\ result = "error"),
         routes' = routes \/ routes' = Unrouted(t), generation' = generation,
         closed' \in BOOLEAN, closed => closed',
         ~closed' => At(t, "drain") \/ (At(t, "running") /\ ~remote(t)),
         UNCHANGED <<setup, cancelled, wires>>, tunnel[t].pc \in {"running", "retire", "drain"}
  PROVE  RuntimeInv'
  <1>1. /\ tunnel \in [Tunnels -> Records] /\ closed \in BOOLEAN /\ conn \in [Conns -> Links]
        /\ routes \in [Ports -> Nat] /\ generation \in Nat
        /\ Task(t) /\ (~closed => Asked /\ Heard(t)) /\ TypeOK /\ Generations
    BY Typed, ZenonT(60) DEF RuntimeInv, Wired
  <1>2. /\ tunnel' \in [Tunnels -> Records] /\ \A u \in Tunnels : u # t => tunnel'[u] = tunnel[u]
        /\ tunnel'[t].pc = "ended" /\ tunnel'[t].mode = tunnel[t].mode /\ tunnel'[t].port = tunnel[t].port
        /\ tunnel'[t].gen = tunnel[t].gen /\ tunnel'[t].result = result
    <2>a. PICK n : n = [tunnel[t] EXCEPT !.pc = "ended", !.result = result, !.armed = FALSE]
      BY ZenonT(60)
    <2>b. tunnel' = [tunnel EXCEPT ![t] = n]
      BY <2>a, ZenonT(60) DEF EndTask
    <2>c. tunnel[t] \in Records
      BY <1>1, ZenonT(60)
    <2>d. n \in Records
      BY <2>a, <2>c, ZenonT(60) DEF Records
    <2>e. n.pc = "ended" /\ n.mode = tunnel[t].mode /\ n.port = tunnel[t].port /\ n.gen = tunnel[t].gen /\ n.result = result
      BY <2>a, <2>c, ZenonT(60) DEF Records
    <2>f. tunnel' \in [Tunnels -> Records] /\ tunnel'[t] = n /\ \A u \in Tunnels : u # t => tunnel'[u] = tunnel[u]
      BY <1>1, <2>b, <2>d, Replaced, ZenonT(60)
    <2> QED
      BY <2>e, <2>f, ZenonT(60)
  <1>3. ASSUME NEW c \in Conns
        PROVE  /\ conn'[c] \in Links /\ conn'[c].tunnel = conn[c].tunnel /\ conn'[c].for = conn[c].for
               /\ conn'[c].stage = "gone" \/ conn'[c].stage = conn[c].stage
               /\ conn[c].stage = "wire" => conn'[c] = conn[c]
               /\ result = "ok" /\ c \in Flows(t) => conn'[c].stage = "gone"
    BY <1>1, ZenonT(60) DEF EndTask, Queued, Flows, Links, Flowing
  <1>4. conn' \in [Conns -> Links]
    BY <1>3, ZenonT(60) DEF EndTask
  <1>5. /\ routes' \in [Ports -> Nat] /\ \A p \in Ports : routes'[p] = 0 \/ routes'[p] = routes[p]
        /\ \A u \in Tunnels : u # t /\ At(u, "running") /\ remote(u) =>
             routes'[tunnel[u].port] = routes[tunnel[u].port]
    BY <1>1, Unrouting, ZenonT(60)
  <1>6. TypeOK'
    BY <1>1, <1>2, <1>4, <1>5, Typed, TypedNext DEF wires
  <1>7. ASSUME NEW u \in Tunnels PROVE Task(u)' /\ Clean(u)'
    <2>1. Task(u) /\ Clean(u) /\ cancelled' = cancelled
      BY ZenonT(60) DEF RuntimeInv
    <2>2. u # t => Task(u)'
      BY <1>2, <1>5, <2>1, TaskStays, ZenonT(60)
    <2>3. Task(t)'
      BY <1>1, <1>2, ZenonT(60) DEF Task, At, remote, Before
    <2>4. \A c \in Conns : conn'[c].stage \in Flowing /\ conn'[c].tunnel = u =>
                             conn[c].stage \in Flowing /\ conn[c].tunnel = u
      BY <1>3, ZenonT(60) DEF Flowing
    <2>5. u # t => Clean(u)'
      BY <1>2, <2>1, <2>4, CleanStays, ZenonT(60)
    <2>6. Clean(t)'
      BY <1>2, <1>3, ZenonT(60) DEF Clean, Flows, Flowing
    <2> QED
      BY <2>2, <2>3, <2>5, <2>6, ZenonT(60)
  <1>8. Generations'
    BY <1>1, <1>2, <1>5, GenerationsShrink, ZenonT(60)
  <1>9. ASSUME ~closed' PROVE Wired' /\ (~twice' => Single' /\ Ordered')
    <2>1. ~closed /\ Silent(t)
      BY <1>1, <1>9, SilentWhen, ZenonT(60) DEF At
    <2>2. Unheard(t) /\ listening' = listening
      BY <1>1, <1>9, <2>1, ZenonT(60) DEF Heard, At, Unheard, wires
    <2>3. Heard(t)' /\ \A p \in Ports : ~Has(t, p)'
      BY <1>2, <2>2, ZenonT(60) DEF Heard, At, Unheard, Has
    <2>4. \A u \in Tunnels : Undisturbed(u)
      BY <1>2, <2>1, <2>3, ZenonT(60) DEF Undisturbed
    <2> QED
      BY <1>3, <2>1, <2>4, Framed, ZenonT(60)
  <1>10. OwnChannelsOnly'
    BY <1>3, ZenonT(60) DEF RuntimeInv, OwnChannelsOnly, wires, Flowing
  <1> QED
    BY <1>6, <1>7, <1>8, <1>9, <1>10, ZenonT(60) DEF RuntimeInv

LEMMA DrainedKeeps ==
  ASSUME RuntimeInv, NEW t \in Tunnels, Drained(t)
  PROVE  RuntimeInv'
  <1>1. /\ tunnel \in [Tunnels -> Records] /\ closed \in BOOLEAN /\ conn \in [Conns -> Links]
    BY Typed, ZenonT(60) DEF RuntimeInv
  <1>2. PICK left, result : /\ left = [c \in Conns |-> [conn[c] EXCEPT !.stage = "gone"]]
                            /\ result = tunnel[t].result
    BY ZenonT(60)
  <1>3. result \in {"ok", "error"} /\ left \in [Conns -> Links]
    <2>1. tunnel[t].result \in {"ok", "error"}
      BY <1>1 DEF Records
    <2>2. ASSUME NEW c \in Conns PROVE [conn[c] EXCEPT !.stage = "gone"] \in Links
      <3>1. conn[c] \in Links
        BY <1>1, ZenonT(60)
      <3> QED
        BY <3>1, ZenonT(60) DEF Links
    <2> QED
      BY <1>2, <2>1, <2>2, ZenonT(60)
  <1>4. \A c \in Conns : /\ left[c].tunnel = conn[c].tunnel /\ left[c].for = conn[c].for
                         /\ left[c].stage = "gone"
    BY <1>1, <1>2, ZenonT(60) DEF Links
  <1>5. /\ At(t, "drain") /\ EndTask(t, result, left)
        /\ UNCHANGED <<registry, setup, cancelled, wires>>
    BY <1>2 DEF Drained
  <1>6. closed' \in BOOLEAN /\ (closed => closed')
    BY <1>1, ZenonT(60) DEF Drained
  <1>7. tunnel[t].pc \in {"running", "retire", "drain"} /\ routes' = routes /\ generation' = generation
    BY <1>5 DEF At, registry
  <1> QED
    BY <1>3, <1>4, <1>5, <1>6, <1>7, EndKeeps, ZenonT(60)

LEMMA StopTimeoutKeeps ==
  ASSUME RuntimeInv, NEW t \in Tunnels, StopTimeout(t)
  PROVE  RuntimeInv'
  <1>1. /\ tunnel \in [Tunnels -> Records] /\ closed \in BOOLEAN /\ conn \in [Conns -> Links] /\ Task(t)
    BY Typed DEF RuntimeInv
  <1>2. PICK left : left = [c \in Conns |-> [conn[c] EXCEPT !.aborted = TRUE]]
    BY ZenonT(60)
  <1>3. left \in [Conns -> Links]
    BY <1>1, <1>2, ZenonT(60) DEF Links
  <1>4. \A c \in Conns : /\ left[c].tunnel = conn[c].tunnel /\ left[c].for = conn[c].for
                         /\ left[c].stage = conn[c].stage
    BY <1>1, <1>2, ZenonT(60) DEF Links
  <1>5. /\ EndTask(t, "error", left) /\ tunnel[t].pc \in {"running", "retire", "drain"}
        /\ routes' = Unrouted(t) /\ UNCHANGED <<generation, setup, cancelled, wires>>
    BY <1>2 DEF StopTimeout
  <1>6. closed' \in BOOLEAN /\ (closed => closed') /\ (tunnel[t].armed => closed')
    BY <1>1, ZenonT(60) DEF StopTimeout
  <1>7. ~closed' => At(t, "drain") \/ (At(t, "running") /\ ~remote(t))
    BY <1>1, <1>5, <1>6, ZenonT(60) DEF Task, At
  <1>8. \A c \in Conns : /\ left[c].tunnel = conn[c].tunnel /\ left[c].for = conn[c].for
                         /\ left[c].stage = "gone" \/ (left[c].stage = conn[c].stage /\ "error" = "error")
    BY <1>4, ZenonT(60)
  <1> QED
    BY <1>3, <1>5, <1>6, <1>7, <1>8, EndKeeps, ZenonT(60)

-----------------------------------------------------------------------------
(* The server.                                                              *)

\* The server answers the request at the head of its stream.
LEMMA Answered ==
  ASSUME RuntimeInv, ~closed, toServer # <<>>, NEW t \in Tunnels, t = Head(toServer).tunnel,
         NEW r \in Down, r.kind # "open", r.tunnel = t,
         toServer' = Tail(toServer), toClient' = Append(toClient, r),
         UNCHANGED <<tunnel, conn>>,
         \A p \in Ports, u \in Tunnels : u # t /\ u \in listening'[p] => u \in listening[p],
         Reply(r)', Heard(t)'
  PROVE  Wired'
  <1>1. Asked /\ Once /\ \A u \in Tunnels : Heard(u)
    BY ZenonT(60) DEF RuntimeInv, Wired
  <1>2. toServer \in Seq(Up) /\ toClient \in Seq(Down)
    BY Typed, ZenonT(60) DEF RuntimeInv
  <1>3. /\ 1 \in DOMAIN toServer /\ Head(toServer) = toServer[1]
        /\ \A i \in DOMAIN toServer' : i + 1 \in DOMAIN toServer /\ toServer'[i] = toServer[i + 1]
        /\ \A i \in DOMAIN toServer' : i \in Nat /\ i + 1 # 1
    BY <1>2, Shifted
  <1>4. /\ Len(toClient) \in Nat /\ DOMAIN toClient = 1..Len(toClient)
        /\ DOMAIN toClient' = 1..(Len(toClient) + 1)
        /\ \A i \in DOMAIN toClient : toClient'[i] = toClient[i]
        /\ toClient'[Len(toClient) + 1] = r
    BY <1>2, Appended
  <1>5. \A i \in DOMAIN toClient' : i \in DOMAIN toClient \/ i = Len(toClient) + 1
    BY <1>4
  <1>6. ASSUME NEW i \in DOMAIN toServer' PROVE toServer'[i].tunnel # t
    <2>1. toServer[i + 1].tunnel = toServer[1].tunnel => i + 1 = 1
      BY <1>1, <1>3, ZenonT(60) DEF Once
    <2> QED
      BY <1>3, <2>1
  <1>7. \A i \in DOMAIN toClient : toClient[i].kind # "open" => toClient[i].tunnel # t
    <2>1. t = toServer[1].tunnel
      BY <1>3, ZenonT(60)
    <2>2. \A i \in DOMAIN toClient : toClient[i].kind # "open" => toServer[1].tunnel # toClient[i].tunnel
      BY <1>1, <1>3, ZenonT(60) DEF Once
    <2> QED
      BY <2>1, <2>2, ZenonT(60)
  <1>8. Asked'
    <2>1. ASSUME NEW i \in DOMAIN toServer' PROVE Request(toServer[i])'
      <3>1. PICK m : m = toServer'[i] /\ m = toServer[i + 1]
        BY <1>3, ZenonT(60)
      <3>2. m \in Up
        BY <1>2, <1>3, <3>1
      <3>3. Request(m) /\ m.tunnel # t /\ m.tunnel \in Tunnels
        BY <1>1, <1>3, <1>6, <3>1, <3>2, ZenonT(60) DEF Asked, Up
      <3>4. Unheard(m.tunnel) => Unheard(m.tunnel)'
        BY <3>3, ZenonT(60) DEF Unheard
      <3>5. Request(m)'
        BY <3>3, <3>4, ZenonT(60) DEF Request, At
      <3> QED
        BY <3>1, <3>5, ZenonT(60) DEF Request, At, Unheard
    <2>2. ASSUME NEW i \in DOMAIN toClient'
          PROVE  IF toClient'[i].kind = "open" THEN Opening(toClient[i])' ELSE Reply(toClient[i])'
      <3>1. CASE i \in DOMAIN toClient /\ toClient[i].kind = "open"
        BY <1>1, <1>4, <3>1, ZenonT(60) DEF Asked, Opening
      <3>2. CASE i \in DOMAIN toClient /\ toClient[i].kind # "open"
        <4>1. PICK m : m = toClient'[i] /\ m = toClient[i]
          BY <1>4, <3>2, ZenonT(60)
        <4>2. Reply(m) /\ m.tunnel # t /\ m.kind # "open"
          BY <1>1, <1>7, <3>2, <4>1, ZenonT(60) DEF Asked
        <4>3. /\ Unheard(m.tunnel) => Unheard(m.tunnel)'
              /\ OnlyOn(m.tunnel, m.port) => OnlyOn(m.tunnel, m.port)'
          BY <4>2, ZenonT(60) DEF Unheard, OnlyOn, Reply
        <4>4. Reply(m)'
          BY <4>2, <4>3, ZenonT(60) DEF Reply, At
        <4> QED
          BY <4>1, <4>2, <4>4, ZenonT(60) DEF Reply, At, Unheard, OnlyOn
      <3>3. CASE i = Len(toClient) + 1
        BY <1>4, <3>3, ZenonT(60) DEF Reply, At, Unheard, OnlyOn
      <3> QED
        BY <1>5, <3>1, <3>2, <3>3
    <2> QED
      BY <2>1, <2>2, ZenonT(60) DEF Asked
  <1>9. Once'
    <2>1. ASSUME NEW i \in DOMAIN toServer', NEW j \in DOMAIN toServer', toServer'[i].tunnel = toServer'[j].tunnel
          PROVE  i = j
      <3>1. /\ i + 1 \in DOMAIN toServer /\ j + 1 \in DOMAIN toServer
            /\ toServer[i + 1].tunnel = toServer[j + 1].tunnel
        BY <1>3, <2>1, ZenonT(60)
      <3>2. i + 1 = j + 1
        BY <1>1, <3>1, ZenonT(60) DEF Once
      <3> QED
        BY <1>3, <3>2
    <2>2. ASSUME NEW i \in DOMAIN toClient', NEW j \in DOMAIN toClient', toClient'[i].kind # "open",
                 toClient'[j].kind # "open", toClient'[i].tunnel = toClient'[j].tunnel
          PROVE  i = j
      <3>1. CASE i \in DOMAIN toClient /\ j \in DOMAIN toClient
        BY <1>1, <1>4, <2>2, <3>1, ZenonT(60) DEF Once
      <3>2. CASE i = Len(toClient) + 1 \/ j = Len(toClient) + 1
        BY <1>4, <1>5, <1>7, <2>2, <3>2, ZenonT(60)
      <3> QED
        BY <1>5, <3>1, <3>2, ZenonT(60)
    <2>3. ASSUME NEW i \in DOMAIN toClient', NEW j \in DOMAIN toClient', toClient'[i].kind = "open",
                 toClient'[j].kind = "open", toClient'[i].conn = toClient'[j].conn
          PROVE  i = j
      <3>1. i \in DOMAIN toClient /\ j \in DOMAIN toClient
        BY <1>4, <1>5, <2>3, ZenonT(60)
      <3> QED
        BY <1>1, <1>4, <2>3, <3>1, ZenonT(60) DEF Once
    <2>4. ASSUME NEW i \in DOMAIN toServer', NEW j \in DOMAIN toClient', toClient'[j].kind # "open"
          PROVE  toServer'[i].tunnel # toClient'[j].tunnel
      <3>1. CASE j \in DOMAIN toClient
        <4>1. i + 1 \in DOMAIN toServer /\ toServer'[i] = toServer[i + 1] /\ toClient'[j] = toClient[j]
          BY <1>3, <1>4, <3>1, ZenonT(60)
        <4> QED
          BY <1>1, <2>4, <3>1, <4>1, ZenonT(60) DEF Once
      <3>2. CASE j = Len(toClient) + 1
        BY <1>4, <1>6, <3>2, ZenonT(60)
      <3> QED
        BY <1>5, <3>1, <3>2, ZenonT(60)
    <2> QED
      BY <2>1, <2>2, <2>3, <2>4, ZenonT(60) DEF Once
  <1>10. ASSUME NEW u \in Tunnels PROVE Heard(u)'
    <2>1. CASE u # t
      <3>1. /\ \A p \in Ports : u \in listening'[p] => u \in listening[p]
            /\ Heard(u) /\ tunnel'[u] = tunnel[u]
        BY <1>1, <2>1, ZenonT(60)
      <3> QED
        BY <3>1, ZenonT(60) DEF Heard, At, remote, OnlyOn, Unheard
    <2> QED
      BY <2>1, ZenonT(60)
  <1> QED
    BY <1>8, <1>9, <1>10, ZenonT(60) DEF Wired

\* The answer to a request keeps the one listener of each port.
LEMMA AnsweredOnce ==
  ASSUME RuntimeInv, ~closed, ~twice, toServer # <<>>, NEW t \in Tunnels, t = Head(toServer).tunnel,
         NEW r \in Down, r.kind # "open", r.tunnel = t,
         toServer' = Tail(toServer), toClient' = Append(toClient, r),
         UNCHANGED <<tunnel, conn>>,
         \A p \in Ports : \A u, v \in listening'[p] : u = v,
         \A p \in Ports, u \in Tunnels : u # t /\ u \in listening[p] => u \in listening'[p],
         r.kind = "granted" /\ At(t, "requested") => t \in listening'[r.port]
  PROVE  Single' /\ Ordered'
  <1>1. Asked /\ Once /\ Single /\ Ordered
    BY ZenonT(60) DEF RuntimeInv, Wired
  <1>2. toServer \in Seq(Up) /\ toClient \in Seq(Down)
    BY Typed, ZenonT(60) DEF RuntimeInv
  <1>3. /\ 1 \in DOMAIN toServer /\ Head(toServer) = toServer[1] /\ toServer[1] \in Up
        /\ \A i \in DOMAIN toServer' : i + 1 \in DOMAIN toServer /\ toServer'[i] = toServer[i + 1]
        /\ \A i \in DOMAIN toServer' : i \in Nat /\ i + 1 # 1
    BY <1>2, Shifted
  <1>4. /\ Len(toClient) \in Nat /\ DOMAIN toClient = 1..Len(toClient)
        /\ DOMAIN toClient' = 1..(Len(toClient) + 1)
        /\ \A i \in DOMAIN toClient : toClient'[i] = toClient[i]
        /\ toClient'[Len(toClient) + 1] = r
    BY <1>2, Appended
  <1>5. \A i \in DOMAIN toClient' : i \in DOMAIN toClient \/ i = Len(toClient) + 1
    BY <1>4
  <1>6. ASSUME NEW p \in Ports, Has(t, p) PROVE FALSE
    <2>1. Request(toServer[1]) /\ toServer[1].tunnel = t /\ toServer[1].kind \in {"forward", "cancel"}
      BY <1>1, <1>3, ZenonT(60) DEF Asked, Up
    <2> QED
      BY <1>6, <2>1, ZenonT(60) DEF Request, Has, At
  <1>7. \A i \in DOMAIN toClient : toClient[i].kind # "open" => toClient[i].tunnel # t
    <2>1. t = toServer[1].tunnel
      BY <1>3, ZenonT(60)
    <2>2. \A i \in DOMAIN toClient : toClient[i].kind # "open" => toServer[1].tunnel # toClient[i].tunnel
      BY <1>1, <1>3, ZenonT(60) DEF Once
    <2> QED
      BY <2>1, <2>2, ZenonT(60)
  <1>8. ASSUME NEW u \in Tunnels, NEW p \in Ports, Has(u, p)' PROVE Has(u, p) /\ u # t
    BY <1>6, <1>8, ZenonT(60) DEF Has, At, remote
  <1>9. ASSUME NEW u \in Tunnels, NEW p \in Ports, NEW i \in DOMAIN toClient, Granted(i, u, p)'
        PROVE  Granted(i, u, p) /\ u # t
    <2>1. toClient'[i] = toClient[i]
      BY <1>4, ZenonT(60)
    <2>2. Granted(i, u, p)
      BY <1>9, <2>1, ZenonT(60) DEF Granted, At
    <2>3. toClient[i].kind # "open" /\ toClient[i].tunnel = u
      BY <2>2 DEF Granted
    <2> QED
      BY <1>7, <2>2, <2>3, ZenonT(60)
  <1>10. Single'
    <2>1. ASSUME NEW p \in Ports, NEW u \in Tunnels, Has(u, p)' PROVE u \in listening'[p]
      BY <1>1, <1>8, <2>1, ZenonT(60) DEF Single
    <2>2. ASSUME NEW p \in Ports, NEW u \in Tunnels, NEW i \in DOMAIN toClient', Granted(i, u, p)'
          PROVE  u \in listening'[p]
      <3>1. CASE i \in DOMAIN toClient
        <4>1. Granted(i, u, p) /\ u # t
          BY <1>9, <2>2, <3>1, ZenonT(60)
        <4>2. u \in listening[p]
          BY <1>1, <3>1, <4>1, ZenonT(60) DEF Single
        <4> QED
          BY <4>1, <4>2, ZenonT(60)
      <3>2. CASE i = Len(toClient) + 1
        <4>1. u = t /\ p = r.port /\ r.kind = "granted" /\ At(t, "requested")
          BY <1>4, <2>2, <3>2, ZenonT(60) DEF Granted, At
        <4> QED
          BY <4>1, ZenonT(60)
      <3> QED
        BY <1>5, <3>1, <3>2, ZenonT(60)
    <2>3. ASSUME NEW i \in DOMAIN toServer', toServer'[i].kind = "cancel"
          PROVE  toServer'[i].tunnel \in listening'[toServer'[i].port]
      <3>1. PICK m : m = toServer'[i] /\ m = toServer[i + 1]
        BY <1>3, ZenonT(60)
      <3>2. m \in Up /\ i + 1 \in DOMAIN toServer
        BY <1>2, <1>3, <3>1
      <3>3. m.tunnel \in Tunnels
        BY <3>2, ZenonT(60) DEF Up
      <3>4. m.tunnel # t
        <4>1. toServer[i + 1].tunnel = toServer[1].tunnel => i + 1 = 1
          BY <1>1, <1>3, ZenonT(60) DEF Once
        <4> QED
          BY <1>3, <3>1, <4>1, ZenonT(60)
      <3>5. m.tunnel \in listening[m.port] /\ Request(m)
        <4>1. \A k \in DOMAIN toServer :
                /\ toServer[k].kind = "cancel" => toServer[k].tunnel \in listening[toServer[k].port]
                /\ Request(toServer[k])
          BY <1>1, ZenonT(60) DEF Single, Asked
        <4>2. /\ toServer[i + 1].kind = "cancel" => toServer[i + 1].tunnel \in listening[toServer[i + 1].port]
              /\ Request(toServer[i + 1])
          BY <3>2, <4>1, ZenonT(60)
        <4>3. m.kind = "cancel"
          BY <2>3, <3>1, ZenonT(60)
        <4>4. m.kind = "cancel" => m.tunnel \in listening[m.port]
          BY <3>1, <4>2, ZenonT(60)
        <4>5. Request(m)
          BY <3>1, <4>2 DEF Request
        <4> QED
          BY <4>3, <4>4, <4>5, ZenonT(60)
      <3>6. m.port \in Ports
        <4>1. At(m.tunnel, "retire") /\ tunnel[m.tunnel].port = m.port
          BY <2>3, <3>1, <3>5, ZenonT(60) DEF Request
        <4> QED
          BY <3>3, <4>1, ZenonT(60) DEF RuntimeInv, Task
      <3> QED
        BY <3>1, <3>3, <3>4, <3>5, <3>6, ZenonT(60)
    <2> QED
      BY <2>1, <2>2, <2>3, ZenonT(60) DEF Single
  <1>11. Ordered'
    <2> SUFFICES ASSUME NEW i \in DOMAIN toClient', NEW u \in Tunnels, toClient'[i].kind = "open"
                 PROVE  /\ Has(u, toClient[i].port)' => u \in conn[toClient'[i].conn].for
                        /\ \A j \in 1..(i - 1) : Granted(j, u, toClient[i].port)' =>
                             u \in conn[toClient'[i].conn].for
      BY ZenonT(60) DEF Ordered
    <2>1. i \in DOMAIN toClient /\ toClient'[i] = toClient[i] /\ toClient[i].kind = "open"
      BY <1>4, <1>5, ZenonT(60)
    <2>2. PICK p : p = toClient[i].port
      OBVIOUS
    <2>3. p \in Ports /\ toClient'[i].port = p
      BY <1>1, <2>1, <2>2, ZenonT(60) DEF Asked, Opening
    <2>4. \A j \in 1..(i - 1) : j \in DOMAIN toClient
      BY <1>4, <2>1
    <2>5. Has(u, p)' => u \in conn[toClient[i].conn].for
      BY <1>1, <1>8, <2>1, <2>2, <2>3, ZenonT(60) DEF Ordered
    <2>6. ASSUME NEW j \in 1..(i - 1), Granted(j, u, p)' PROVE u \in conn[toClient[i].conn].for
      <3>1. Granted(j, u, p)
        BY <1>9, <2>3, <2>4, <2>6, ZenonT(60)
      <3>2. Granted(j, u, toClient[i].port) => u \in conn[toClient[i].conn].for
        BY <1>1, <2>1, ZenonT(60) DEF Ordered
      <3> QED
        BY <2>2, <3>1, <3>2, ZenonT(60)
    <2>7. Has(u, toClient[i].port)' => Has(u, p)'
      BY <2>3, ZenonT(60) DEF Has, At, remote
    <2>8. \A j \in 1..(i - 1) : Granted(j, u, toClient[i].port)' => Granted(j, u, p)'
      BY <2>3, ZenonT(60) DEF Granted, At
    <2> QED
      BY <2>1, <2>5, <2>6, <2>7, <2>8, ZenonT(60)
  <1> QED
    BY <1>10, <1>11, ZenonT(60)

\* A step of the server leaves the client's records alone.
LEMMA ServerKeeps ==
  ASSUME RuntimeInv, UNCHANGED <<closed, registry, setup, tunnel, cancelled, conn>>,
         toServer' \in Seq(Up), toClient' \in Seq(Down), listening' \in [Ports -> SUBSET Tunnels],
         twice' \in BOOLEAN, twice => twice', Wired', ~twice' => Single' /\ Ordered'
  PROVE  RuntimeInv'
  <1>1. TypeOK'
    BY Typed, TypedNext, ZenonT(60) DEF RuntimeInv, registry
  <1>2. ASSUME NEW u \in Tunnels PROVE Task(u)' /\ Clean(u)'
    <2>1. Task(u) /\ Clean(u) /\ routes' = routes
      BY ZenonT(60) DEF RuntimeInv, registry
    <2>2. Task(u)'
      BY <2>1, TaskStays, ZenonT(60)
    <2> QED
      BY <2>1, <2>2, CleanStays, ZenonT(60)
  <1>3. Generations'
    BY GenerationsStay, ZenonT(60) DEF RuntimeInv
  <1>4. OwnChannelsOnly'
    BY ZenonT(60) DEF RuntimeInv, OwnChannelsOnly
  <1> QED
    BY <1>1, <1>2, <1>3, <1>4, ZenonT(60) DEF RuntimeInv

LEMMA ServerGrantsKeeps ==
  ASSUME RuntimeInv, ServerGrants
  PROVE  RuntimeInv'
  <1>1. /\ ~closed /\ toServer # <<>> /\ Head(toServer).kind = "forward" /\ toServer' = Tail(toServer)
        /\ UNCHANGED <<closed, registry, setup, tunnel, cancelled, conn>>
    BY ZenonT(60) DEF ServerGrants
  <1>2. /\ toServer \in Seq(Up) /\ toClient \in Seq(Down) /\ listening \in [Ports -> SUBSET Tunnels]
        /\ twice \in BOOLEAN
    BY Typed, ZenonT(60) DEF RuntimeInv
  <1>3. PICK t : t = Head(toServer).tunnel
    BY ZenonT(60)
  <1>4. /\ t \in Tunnels /\ Request(Head(toServer)) /\ toServer' \in Seq(Up)
    <2>1. Head(toServer) = toServer[1] /\ 1 \in DOMAIN toServer /\ toServer[1] \in Up /\ toServer' \in Seq(Up)
      BY <1>1, <1>2, Shifted, ZenonT(60)
    <2>2. toServer[1].tunnel \in Tunnels
      BY <2>1 DEF Up
    <2>3. Request(toServer[1])
      BY <1>1, <2>1, ZenonT(60) DEF RuntimeInv, Wired, Asked
    <2> QED
      BY <1>3, <2>1, <2>2, <2>3, ZenonT(60)
  <1>5. At(t, "requested") /\ Unheard(t) /\ tunnel[t].reply = "none"
    BY <1>1, <1>3, <1>4, ZenonT(60) DEF Request
  <1>6. PICK p \in Ports : /\ listening' = [listening EXCEPT ![p] = @ \cup {t}]
                           /\ twice' = (twice \/ listening[p] # {}) /\ Answer("granted", t, p, Nobody)
    BY <1>3, ZenonT(60) DEF ServerGrants
  <1>7. PICK r : r = [kind |-> "granted", tunnel |-> t, port |-> p, conn |-> Nobody]
    BY ZenonT(60)
  <1>8. /\ r \in Down /\ r.kind = "granted" /\ r.tunnel = t /\ r.port = p
        /\ toClient' = Append(toClient, r)
    BY <1>4, <1>6, <1>7, ZenonT(60) DEF Down, Answer
  <1>9. /\ listening' \in [Ports -> SUBSET Tunnels] /\ listening'[p] = listening[p] \cup {t}
        /\ \A q \in Ports : q # p => listening'[q] = listening[q]
    BY <1>2, <1>4, <1>6, ZenonT(60)
  <1>10. twice' \in BOOLEAN /\ (twice => twice') /\ (~twice' => listening[p] = {})
    BY <1>2, <1>6, ZenonT(60)
  <1>11. toClient' \in Seq(Down)
    BY <1>2, <1>8, Appended
  <1>12. Reply(r)' /\ Heard(t)'
    <2>1. OnlyOn(t, p)'
      BY <1>5, <1>9, ZenonT(60) DEF OnlyOn, Unheard
    <2>2. At(t, "requested")' /\ tunnel'[t].reply = "none" /\ tunnel'[t].pc = "requested"
      BY <1>1, <1>5, ZenonT(60) DEF At
    <2>3. Heard(t)'
      BY <2>2, ZenonT(60) DEF Heard, At
    <2>4. Reply(r)'
      BY <1>4, <1>8, <2>1, <2>2, ZenonT(60) DEF Reply, At, OnlyOn
    <2> QED
      BY <2>3, <2>4, ZenonT(60)
  <1>13. Wired'
    <2>1. \A q \in Ports, u \in Tunnels : u # t /\ u \in listening'[q] => u \in listening[q]
      BY <1>9, ZenonT(60)
    <2>2. r.kind # "open"
      BY <1>8
    <2> QED
      BY <1>1, <1>3, <1>4, <1>8, <1>12, <2>1, <2>2, Answered, ZenonT(60)
  <1>14. ASSUME ~twice' PROVE Single' /\ Ordered'
    <2>1. ~twice /\ Single /\ listening[p] = {} /\ r.kind # "open"
      BY <1>1, <1>8, <1>10, <1>14, ZenonT(60) DEF RuntimeInv
    <2>2. \A q \in Ports : \A u, v \in listening'[q] : u = v
      BY <1>9, <2>1 DEF Single
    <2>3. \A q \in Ports, u \in Tunnels : u # t /\ u \in listening[q] => u \in listening'[q]
      BY <1>9, ZenonT(60)
    <2>4. r.kind = "granted" /\ At(t, "requested") => t \in listening'[r.port]
      BY <1>8, <1>9, ZenonT(60)
    <2> QED
      BY <1>1, <1>3, <1>4, <1>8, <2>1, <2>2, <2>3, <2>4, AnsweredOnce, ZenonT(60)
  <1> QED
    BY <1>1, <1>4, <1>9, <1>10, <1>11, <1>13, <1>14, ServerKeeps, ZenonT(60)

LEMMA ServerRetiresKeeps ==
  ASSUME RuntimeInv, ServerRetires
  PROVE  RuntimeInv'
  <1>1. /\ ~closed /\ toServer # <<>> /\ Head(toServer).kind = "cancel" /\ toServer' = Tail(toServer)
        /\ UNCHANGED <<closed, registry, setup, tunnel, cancelled, conn>> /\ twice' = twice
    BY ZenonT(60) DEF ServerRetires
  <1>2. /\ toServer \in Seq(Up) /\ toClient \in Seq(Down) /\ listening \in [Ports -> SUBSET Tunnels]
        /\ twice \in BOOLEAN
    BY Typed, ZenonT(60) DEF RuntimeInv
  <1>3. PICK t, p : t = Head(toServer).tunnel /\ p = Head(toServer).port
    BY ZenonT(60)
  <1>4. /\ t \in Tunnels /\ Request(Head(toServer)) /\ toServer' \in Seq(Up)
        /\ ~twice => Single /\ t \in listening[p]
    <2>1. Head(toServer) = toServer[1] /\ 1 \in DOMAIN toServer /\ toServer[1] \in Up /\ toServer' \in Seq(Up)
      BY <1>1, <1>2, Shifted
    <2>2. toServer[1].tunnel \in Tunnels
      BY <2>1 DEF Up
    <2>3. Request(toServer[1])
      BY <1>1, <2>1, ZenonT(60) DEF RuntimeInv, Wired, Asked
    <2>4. ~twice => Single
      BY <1>1, ZenonT(60) DEF RuntimeInv
    <2>5. toServer[1].kind = "cancel" /\ t = toServer[1].tunnel /\ p = toServer[1].port
      BY <1>1, <1>3, <2>1, ZenonT(60)
    <2>6. Single => t \in listening[p]
      BY <2>1, <2>5, ZenonT(60) DEF Single
    <2> QED
      BY <1>3, <2>1, <2>2, <2>3, <2>4, <2>6, ZenonT(60)
  <1>5. At(t, "retire") /\ tunnel[t].port = p /\ tunnel[t].reply = "none"
    BY <1>1, <1>3, <1>4, ZenonT(60) DEF Request
  <1>6. p \in Ports /\ Heard(t)
    BY <1>1, <1>4, <1>5, ZenonT(60) DEF RuntimeInv, Task, Wired
  <1>7. PICK r : r = [kind |-> "granted", tunnel |-> t, port |-> p, conn |-> Nobody]
    BY ZenonT(60)
  <1>8. /\ r \in Down /\ r.kind = "granted" /\ r.tunnel = t /\ r.port = p
        /\ toClient' = Append(toClient, r)
    BY <1>3, <1>4, <1>6, <1>7, ZenonT(60) DEF Down, Answer, ServerRetires
  <1>9. /\ listening' \in [Ports -> SUBSET Tunnels] /\ listening'[p] = {}
        /\ \A q \in Ports : q # p => listening'[q] = listening[q]
    BY <1>2, <1>3, <1>6, ZenonT(60) DEF ServerRetires
  <1>10. toClient' \in Seq(Down)
    BY <1>2, <1>8, Appended, ZenonT(60)
  <1>11. Unheard(t)'
    <2>1. ASSUME NEW q \in Ports, t \in listening'[q] PROVE FALSE
      <3>1. q # p /\ t \in listening[q]
        BY <1>9, <2>1, ZenonT(60)
      <3> QED
        BY <1>5, <1>6, <3>1 DEF Heard, At
    <2> QED
      BY <2>1, ZenonT(60) DEF Unheard
  <1>12. Reply(r)' /\ Heard(t)'
    <2>1. At(t, "retire")' /\ tunnel'[t].reply = "none" /\ tunnel'[t].pc = "retire" /\ tunnel'[t].port = p
      BY <1>1, <1>5, ZenonT(60) DEF At
    <2>2. Heard(t)'
      BY <1>11, <2>1 DEF Heard, At, Unheard
    <2>3. Reply(r)'
      BY <1>4, <1>8, <1>11, <2>1, ZenonT(60) DEF Reply, At, Unheard
    <2> QED
      BY <2>2, <2>3, ZenonT(60)
  <1>13. r.kind # "open"
    BY <1>8
  <1>14. Wired'
    <2>1. \A q \in Ports, u \in Tunnels : u # t /\ u \in listening'[q] => u \in listening[q]
      BY <1>9, ZenonT(60)
    <2> QED
      BY <1>1, <1>3, <1>4, <1>8, <1>12, <1>13, <2>1, Answered, ZenonT(60)
  <1>15. ASSUME ~twice' PROVE Single' /\ Ordered'
    <2>1. ~twice /\ Single /\ t \in listening[p]
      BY <1>1, <1>4, <1>15, ZenonT(60)
    <2>2. \A q \in Ports : \A u, v \in listening'[q] : u = v
      BY <1>9, <2>1 DEF Single
    <2>3. \A q \in Ports, u \in Tunnels : u # t /\ u \in listening[q] => u \in listening'[q]
      BY <1>6, <1>9, <2>1, ZenonT(60) DEF Single
    <2>4. r.kind = "granted" /\ At(t, "requested") => t \in listening'[r.port]
      BY <1>5 DEF At
    <2> QED
      BY <1>1, <1>3, <1>4, <1>8, <1>13, <2>1, <2>2, <2>3, <2>4, AnsweredOnce, ZenonT(60)
  <1> QED
    BY <1>1, <1>2, <1>4, <1>9, <1>10, <1>14, <1>15, ServerKeeps, ZenonT(60)

LEMMA ServerRefusesKeeps ==
  ASSUME RuntimeInv, ServerRefuses
  PROVE  RuntimeInv'
  <1>1. /\ ~closed /\ toServer # <<>> /\ toServer' = Tail(toServer)
        /\ UNCHANGED <<closed, registry, setup, tunnel, cancelled, conn>>
        /\ twice' = twice /\ listening' = listening
    BY ZenonT(60) DEF ServerRefuses
  <1>2. /\ toServer \in Seq(Up) /\ toClient \in Seq(Down) /\ listening \in [Ports -> SUBSET Tunnels]
        /\ twice \in BOOLEAN
    BY Typed, ZenonT(60) DEF RuntimeInv
  <1>3. PICK t, p : t = Head(toServer).tunnel /\ p = Head(toServer).port
    OBVIOUS
  <1>4. /\ t \in Tunnels /\ Request(Head(toServer)) /\ toServer' \in Seq(Up) /\ Head(toServer) \in Up
    <2>1. Head(toServer) = toServer[1] /\ 1 \in DOMAIN toServer /\ toServer[1] \in Up /\ toServer' \in Seq(Up)
      BY <1>1, <1>2, Shifted, ZenonT(60)
    <2>2. toServer[1].tunnel \in Tunnels
      BY <2>1 DEF Up
    <2>3. Request(toServer[1])
      BY <1>1, <2>1, ZenonT(60) DEF RuntimeInv, Wired, Asked
    <2> QED
      BY <1>3, <2>1, <2>2, <2>3, ZenonT(60)
  <1>5. /\ tunnel[t].port = p /\ tunnel[t].reply = "none" /\ p \in Ports \cup {0}
        /\ At(t, "retire") \/ (At(t, "requested") /\ Unheard(t))
    BY <1>3, <1>4, ZenonT(60) DEF Request, Up
  <1>6. Heard(t)
    BY <1>1, <1>4, ZenonT(60) DEF RuntimeInv, Wired
  <1>7. PICK r : r = [kind |-> "failed", tunnel |-> t, port |-> p, conn |-> Nobody]
    BY ZenonT(60)
  <1>8. /\ r \in Down /\ r.kind = "failed" /\ r.kind # "open" /\ r.tunnel = t /\ r.port = p
        /\ toClient' = Append(toClient, r)
    BY <1>3, <1>4, <1>5, <1>7, ZenonT(60) DEF Down, Answer, ServerRefuses
  <1>9. toClient' \in Seq(Down)
    BY <1>2, <1>8, Appended, ZenonT(60)
  <1>10. Reply(r)' /\ Heard(t)'
    <2>1. Heard(t)'
      BY <1>1, <1>6, ZenonT(60) DEF Heard, At, Unheard, OnlyOn, remote
    <2>2. Reply(r)'
      BY <1>1, <1>4, <1>5, <1>8, ZenonT(60) DEF Reply, At, Unheard
    <2> QED
      BY <2>1, <2>2
  <1>11. Wired'
    BY <1>1, <1>3, <1>4, <1>8, <1>10, Answered, ZenonT(60)
  <1>12. ASSUME ~twice' PROVE Single' /\ Ordered'
    <2>1. ~twice /\ Single
      BY <1>1, <1>12, ZenonT(60) DEF RuntimeInv
    <2>2. \A q \in Ports : \A u, v \in listening'[q] : u = v
      BY <1>1, <2>1, ZenonT(60) DEF Single
    <2>3. r.kind = "granted" /\ At(t, "requested") => t \in listening'[r.port]
      BY <1>8
    <2> QED
      BY <1>1, <1>3, <1>4, <1>8, <2>1, <2>2, <2>3, AnsweredOnce, ZenonT(60)
  <1> QED
    BY <1>1, <1>2, <1>4, <1>9, <1>11, <1>12, ServerKeeps, ZenonT(60)

LEMMA ServerOpensKeeps ==
  ASSUME RuntimeInv, NEW c \in Conns, NEW p \in Ports, ServerOpens(c, p)
  PROVE  RuntimeInv'
  <1>1. /\ ~closed /\ conn[c].stage = "unused" /\ Answer("open", Nobody, p, c)
        /\ UNCHANGED <<closed, registry, setup, tunnel, cancelled, toServer, listening, twice>>
    BY DEF ServerOpens
  <1>2. /\ conn \in [Conns -> Links] /\ toClient \in Seq(Down) /\ listening \in [Ports -> SUBSET Tunnels]
        /\ Asked /\ Once /\ \A u \in Tunnels : Heard(u)
        /\ ~twice => Single /\ Ordered
    BY <1>1, Typed, ZenonT(60) DEF RuntimeInv, Wired
  <1>3. /\ conn' \in [Conns -> Links] /\ conn'[c].stage = "wire" /\ conn'[c].for = listening[p]
        /\ \A d \in Conns : d # c => conn'[d] = conn[d]
    <2>1. PICK n : n = [conn[c] EXCEPT !.stage = "wire", !.for = listening[p]]
      BY ZenonT(60)
    <2>2. conn' = [conn EXCEPT ![c] = n]
      BY <2>1, ZenonT(60) DEF ServerOpens
    <2>3. conn[c] \in Links /\ listening[p] \in SUBSET Tunnels
      BY <1>2, ZenonT(60)
    <2>4. n \in Links
      BY <2>1, <2>3, ZenonT(60) DEF Links
    <2>5. n.stage = "wire" /\ n.for = listening[p]
      BY <2>1, <2>3, ZenonT(60) DEF Links
    <2> QED
      BY <1>2, <2>2, <2>4, <2>5, Replaced, ZenonT(60)
  <1>4. PICK r : r = [kind |-> "open", tunnel |-> Nobody, port |-> p, conn |-> c]
    BY ZenonT(60)
  <1>5. /\ r \in Down /\ r.kind = "open" /\ r.port = p /\ r.conn = c /\ toClient' = Append(toClient, r)
    BY <1>1, <1>4, ZenonT(60) DEF Down, Answer
  <1>6. /\ Len(toClient) \in Nat /\ DOMAIN toClient = 1..Len(toClient)
        /\ DOMAIN toClient' = 1..(Len(toClient) + 1)
        /\ \A i \in DOMAIN toClient : toClient'[i] = toClient[i]
        /\ toClient'[Len(toClient) + 1] = r /\ toClient' \in Seq(Down)
    BY <1>2, <1>5, Appended
  <1>7. \A i \in DOMAIN toClient' : i \in DOMAIN toClient \/ i = Len(toClient) + 1
    BY <1>6
  <1>8. ASSUME NEW i \in DOMAIN toClient, toClient[i].kind = "open"
        PROVE  /\ toClient[i].conn \in Conns /\ toClient[i].conn # c /\ toClient[i].port \in Ports
               /\ conn'[toClient[i].conn] = conn[toClient[i].conn] /\ conn[toClient[i].conn].stage = "wire"
    <2>1. Opening(toClient[i])
      BY <1>2, <1>8, ZenonT(60) DEF Asked
    <2> QED
      BY <1>1, <1>3, <2>1, ZenonT(60) DEF Opening
  <1>9. Asked'
    <2>1. \A i \in DOMAIN toServer : Request(toServer[i])'
      BY <1>1, <1>2, ZenonT(60) DEF Asked, Request, At, Unheard
    <2>2. ASSUME NEW i \in DOMAIN toClient'
          PROVE  IF toClient'[i].kind = "open" THEN Opening(toClient[i])' ELSE Reply(toClient[i])'
      <3>1. CASE i \in DOMAIN toClient /\ toClient[i].kind = "open"
        BY <1>6, <1>8, <3>1, ZenonT(60) DEF Opening
      <3>2. CASE i \in DOMAIN toClient /\ toClient[i].kind # "open"
        <4>1. Reply(toClient[i]) /\ toClient'[i] = toClient[i]
          BY <1>2, <1>6, <3>2, ZenonT(60) DEF Asked
        <4> QED
          BY <1>1, <3>2, <4>1, ZenonT(60) DEF Reply, At, Unheard, OnlyOn
      <3>3. CASE i = Len(toClient) + 1
        BY <1>3, <1>5, <1>6, <3>3, ZenonT(60) DEF Opening
      <3> QED
        BY <1>7, <3>1, <3>2, <3>3, ZenonT(60)
    <2> QED
      BY <1>1, <2>1, <2>2, ZenonT(60) DEF Asked
  <1>10. Once'
    <2>1. ASSUME NEW i \in DOMAIN toClient', NEW j \in DOMAIN toClient', toClient'[i].kind # "open",
                 toClient'[j].kind # "open", toClient'[i].tunnel = toClient'[j].tunnel
          PROVE  i = j
      <3>1. i \in DOMAIN toClient /\ j \in DOMAIN toClient
        BY <1>5, <1>6, <1>7, <2>1, ZenonT(60)
      <3> QED
        BY <1>2, <1>6, <2>1, <3>1, ZenonT(60) DEF Once
    <2>2. ASSUME NEW i \in DOMAIN toClient', NEW j \in DOMAIN toClient', toClient'[i].kind = "open",
                 toClient'[j].kind = "open", toClient'[i].conn = toClient'[j].conn
          PROVE  i = j
      <3>1. CASE i \in DOMAIN toClient /\ j \in DOMAIN toClient
        BY <1>2, <1>6, <2>2, <3>1, ZenonT(60) DEF Once
      <3>2. ASSUME NEW k \in DOMAIN toClient, toClient'[k].kind = "open" PROVE toClient'[k].conn # c
        BY <1>6, <1>8, <3>2, ZenonT(60)
      <3>3. toClient'[Len(toClient) + 1].conn = c
        BY <1>5, <1>6, ZenonT(60)
      <3>4. CASE i = Len(toClient) + 1
        BY <1>7, <2>2, <3>2, <3>3, <3>4, ZenonT(60)
      <3>5. CASE j = Len(toClient) + 1
        BY <1>7, <2>2, <3>2, <3>3, <3>5, ZenonT(60)
      <3> QED
        BY <1>7, <3>1, <3>4, <3>5, ZenonT(60)
    <2>3. ASSUME NEW i \in DOMAIN toServer, NEW j \in DOMAIN toClient', toClient'[j].kind # "open"
          PROVE  toServer[i].tunnel # toClient'[j].tunnel
      <3>1. j \in DOMAIN toClient /\ toClient'[j] = toClient[j]
        BY <1>5, <1>6, <1>7, <2>3, ZenonT(60)
      <3> QED
        BY <1>2, <2>3, <3>1, ZenonT(60) DEF Once
    <2> QED
      BY <1>1, <1>2, <2>1, <2>2, <2>3, ZenonT(60) DEF Once
  <1>11. ASSUME NEW u \in Tunnels, NEW q, NEW i \in DOMAIN toClient', Granted(i, u, q)'
         PROVE  i \in DOMAIN toClient /\ Granted(i, u, q)
    <2>1. CASE i \in DOMAIN toClient
      BY <1>1, <1>6, <1>11, <2>1, ZenonT(60) DEF Granted, At
    <2>2. CASE i = Len(toClient) + 1
      BY <1>5, <1>6, <1>11, <2>2, ZenonT(60) DEF Granted
    <2> QED
      BY <1>7, <2>1, <2>2, ZenonT(60)
  <1>12. \A u \in Tunnels : \A q : Has(u, q)' => Has(u, q)
    BY <1>1, ZenonT(60) DEF Has, At, remote
  <1>13. ASSUME ~twice PROVE Single'
    BY <1>1, <1>2, <1>11, <1>12, <1>13, ZenonT(60) DEF Single
  <1>14. ASSUME ~twice PROVE Ordered'
    <2>1. ASSUME NEW i \in DOMAIN toClient', NEW u \in Tunnels, toClient'[i].kind = "open"
          PROVE  /\ Has(u, toClient[i].port)' => u \in conn'[toClient'[i].conn].for
                 /\ \A j \in 1..(i - 1) : Granted(j, u, toClient[i].port)' =>
                      u \in conn'[toClient'[i].conn].for
      <3>1. PICK q : q = toClient'[i].port
        BY ZenonT(60)
      <3>2. \A j \in 1..(i - 1) : j \in DOMAIN toClient'
        BY <1>6
      <3>3. (Has(u, toClient[i].port)' => Has(u, q))
        BY <1>12, <3>1, ZenonT(60) DEF Has, At, remote
      <3>4. ASSUME NEW j \in 1..(i - 1), Granted(j, u, toClient[i].port)'
            PROVE  Granted(j, u, q) /\ j \in DOMAIN toClient
        <4>1. Granted(j, u, q)'
          BY <3>1, <3>4, ZenonT(60) DEF Granted, At
        <4> QED
          BY <1>11, <3>2, <4>1, ZenonT(60)
      <3>5. CASE i \in DOMAIN toClient
        <4>1. toClient'[i] = toClient[i] /\ conn'[toClient[i].conn] = conn[toClient[i].conn] /\ q = toClient[i].port
          BY <1>6, <1>8, <2>1, <3>1, <3>5, ZenonT(60)
        <4>2. /\ Has(u, q) => u \in conn[toClient[i].conn].for
              /\ \A j \in 1..(i - 1) : Granted(j, u, q) => u \in conn[toClient[i].conn].for
          BY <1>2, <1>14, <2>1, <3>5, <4>1, ZenonT(60) DEF Ordered
        <4> QED
          BY <3>3, <3>4, <4>1, <4>2, ZenonT(60)
      <3>6. CASE i = Len(toClient) + 1
        <4>1. q = p /\ conn'[toClient'[i].conn].for = listening[p]
          BY <1>3, <1>5, <1>6, <3>1, <3>6, ZenonT(60)
        <4>2. Has(u, p) => u \in listening[p]
          BY <1>2, <1>14, ZenonT(60) DEF Single
        <4>3. \A j \in DOMAIN toClient : Granted(j, u, p) => u \in listening[p]
          BY <1>2, <1>14, ZenonT(60) DEF Single
        <4> QED
          BY <3>3, <3>4, <4>1, <4>2, <4>3, ZenonT(60)
      <3> QED
        BY <1>7, <3>5, <3>6, ZenonT(60)
    <2> QED
      BY <2>1, ZenonT(60) DEF Ordered
  <1>15. Wired'
    <2>1. \A u \in Tunnels : Heard(u)'
      BY <1>1, <1>2, ZenonT(60) DEF Heard, At, remote, OnlyOn, Unheard
    <2> QED
      BY <1>9, <1>10, <2>1, ZenonT(60) DEF Wired
  <1>16. TypeOK'
    BY <1>1, <1>3, <1>6, Typed, TypedNext, ZenonT(60) DEF RuntimeInv, registry
  <1>17. ASSUME NEW u \in Tunnels PROVE Task(u)' /\ Clean(u)'
    <2>1. Task(u) /\ Clean(u) /\ routes' = routes
      BY <1>1, ZenonT(60) DEF RuntimeInv, registry
    <2>2. Task(u)'
      BY <1>1, <2>1, TaskStays, ZenonT(60)
    <2>3. "wire" \notin Flowing
      BY ZenonT(60) DEF Flowing
    <2>4. \A d \in Conns : conn'[d].stage \in Flowing => d # c /\ conn'[d] = conn[d]
      BY <1>3, <2>3, ZenonT(60)
    <2>5. Clean(u)'
      BY <1>1, <2>1, <2>4, CleanStays, ZenonT(60)
    <2> QED
      BY <2>2, <2>5
  <1>18. Generations'
    BY <1>1, GenerationsStay, ZenonT(60) DEF RuntimeInv
  <1>19. OwnChannelsOnly'
    <2>1. "wire" \notin Flowing \cup {"queued"}
      BY DEF Flowing
    <2> QED
      BY <1>1, <1>3, <2>1, ZenonT(60) DEF RuntimeInv, OwnChannelsOnly
  <1> QED
    BY <1>1, <1>13, <1>14, <1>15, <1>16, <1>17, <1>18, <1>19, ZenonT(60) DEF RuntimeInv

-----------------------------------------------------------------------------
(* The session loop reads the next message.                                 *)

LEMMA Received ==
  ASSUME RuntimeInv, ~closed, toClient # <<>>, toClient' = Tail(toClient),
         UNCHANGED <<toServer, listening, twice>>,
         \A u \in Tunnels : \/ tunnel'[u] = tunnel[u]
                            \/ /\ Head(toClient).kind # "open" /\ Head(toClient).tunnel = u
                               /\ tunnel'[u].pc = tunnel[u].pc /\ Heard(u)'
                               /\ \A p \in Ports : Has(u, p)' => Granted(1, u, p),
         \A d \in Conns : \/ conn'[d] = conn[d]
                          \/ Head(toClient).kind = "open" /\ Head(toClient).conn = d
  PROVE  Wired' /\ (~twice' => Single' /\ Ordered')
  <1>1. /\ Asked /\ Once /\ \A u \in Tunnels : Heard(u)
        /\ ~twice => Single /\ Ordered
        /\ toServer \in Seq(Up) /\ toClient \in Seq(Down)
    BY Typed, ZenonT(60) DEF RuntimeInv, Wired
  <1>2. /\ 1 \in DOMAIN toClient /\ Head(toClient) = toClient[1]
        /\ \A i \in DOMAIN toClient' : i + 1 \in DOMAIN toClient /\ toClient'[i] = toClient[i + 1]
        /\ \A i \in DOMAIN toClient' : i \in Nat /\ i + 1 # 1
        /\ \A i \in DOMAIN toClient' : \A j \in 1..(i - 1) :
             j \in DOMAIN toClient' /\ j + 1 \in 1..((i + 1) - 1) /\ 1 \in 1..((i + 1) - 1)
        /\ \A i \in DOMAIN toClient' : 1 \in 1..((i + 1) - 1)
    BY <1>1, Shifted
  <1>3. ASSUME NEW u \in Tunnels PROVE tunnel'[u].pc = tunnel[u].pc
    BY ZenonT(60)
  <1>4. ASSUME NEW i \in DOMAIN toServer
        PROVE  toServer[i].tunnel \in Tunnels /\ tunnel'[toServer[i].tunnel] = tunnel[toServer[i].tunnel]
    <2>1. toServer[i] \in Up
      BY <1>1
    <2>2. toServer[i].tunnel \in Tunnels
      BY <2>1, ZenonT(60) DEF Up
    <2>3. toClient[1].kind # "open" => toServer[i].tunnel # toClient[1].tunnel
      BY <1>1, <1>2, ZenonT(60) DEF Once
    <2> QED
      BY <1>2, <2>2, <2>3, ZenonT(60)
  <1>5. ASSUME NEW i \in DOMAIN toClient', toClient'[i].kind # "open"
        PROVE  /\ Reply(toClient[i + 1]) /\ toClient[i + 1].tunnel \in Tunnels
               /\ tunnel'[toClient[i + 1].tunnel] = tunnel[toClient[i + 1].tunnel]
    <2>1. i + 1 \in DOMAIN toClient /\ toClient[i + 1].kind # "open" /\ i + 1 # 1
      BY <1>2, <1>5, ZenonT(60)
    <2>2. Reply(toClient[i + 1])
      BY <1>1, <2>1, ZenonT(60) DEF Asked
    <2>3. toClient[1].kind # "open" => toClient[i + 1].tunnel # toClient[1].tunnel
      BY <1>1, <1>2, <2>1, ZenonT(60) DEF Once
    <2>4. toClient[i + 1].tunnel \in Tunnels
      BY <2>2, ZenonT(60) DEF Reply
    <2> QED
      BY <1>2, <2>2, <2>3, <2>4, ZenonT(60)
  <1>6. ASSUME NEW i \in DOMAIN toClient', toClient'[i].kind = "open"
        PROVE  /\ Opening(toClient[i + 1]) /\ toClient[i + 1].conn \in Conns /\ toClient[i + 1].port \in Ports
               /\ conn'[toClient[i + 1].conn] = conn[toClient[i + 1].conn]
    <2>1. i + 1 \in DOMAIN toClient /\ toClient[i + 1].kind = "open" /\ i + 1 # 1
      BY <1>2, <1>6, ZenonT(60)
    <2>2. Opening(toClient[i + 1])
      BY <1>1, <2>1, ZenonT(60) DEF Asked
    <2>3. toClient[1].kind = "open" => toClient[i + 1].conn # toClient[1].conn
      BY <1>1, <1>2, <2>1, ZenonT(60) DEF Once
    <2>4. toClient[i + 1].conn \in Conns /\ toClient[i + 1].port \in Ports
      BY <2>2, ZenonT(60) DEF Opening
    <2> QED
      BY <1>2, <2>2, <2>3, <2>4, ZenonT(60)
  <1>7. Asked'
    <2>1. ASSUME NEW i \in DOMAIN toServer PROVE Request(toServer[i])'
      <3>1. Request(toServer[i])
        BY <1>1, ZenonT(60) DEF Asked
      <3> QED
        BY <1>4, <3>1, ZenonT(60) DEF Request, At, Unheard
    <2>2. ASSUME NEW i \in DOMAIN toClient', toClient'[i].kind # "open" PROVE Reply(toClient[i])'
      <3>1. PICK m : m = toClient[i + 1] /\ m = toClient'[i]
        BY <1>2, ZenonT(60)
      <3>2. Reply(m) /\ tunnel'[m.tunnel] = tunnel[m.tunnel]
        BY <1>5, <2>2, <3>1, ZenonT(60)
      <3>3. Reply(m)'
        BY <3>2, ZenonT(60) DEF Reply, At, Unheard, OnlyOn
      <3> QED
        BY <3>1, <3>3, ZenonT(60) DEF Reply, At, Unheard, OnlyOn
    <2>3. ASSUME NEW i \in DOMAIN toClient', toClient'[i].kind = "open" PROVE Opening(toClient[i])'
      <3>1. toClient'[i] = toClient[i + 1]
        BY <1>2, ZenonT(60)
      <3> QED
        BY <1>6, <2>3, <3>1, ZenonT(60) DEF Opening
    <2> QED
      BY <2>1, <2>2, <2>3, ZenonT(60) DEF Asked
  <1>8. Once'
    <2>1. ASSUME NEW i \in DOMAIN toClient', NEW j \in DOMAIN toClient', i + 1 = j + 1 PROVE i = j
      BY <1>2, <2>1
    <2>2. ASSUME NEW i \in DOMAIN toClient', NEW j \in DOMAIN toClient', toClient'[i].kind # "open",
                 toClient'[j].kind # "open", toClient'[i].tunnel = toClient'[j].tunnel
          PROVE  i = j
      <3>1. /\ i + 1 \in DOMAIN toClient /\ j + 1 \in DOMAIN toClient
            /\ toClient[i + 1].kind # "open" /\ toClient[j + 1].kind # "open"
            /\ toClient[i + 1].tunnel = toClient[j + 1].tunnel
        BY <1>2, <2>2, ZenonT(60)
      <3>2. i + 1 = j + 1
        BY <1>1, <3>1, ZenonT(60) DEF Once
      <3> QED
        BY <2>1, <3>2, ZenonT(60)
    <2>3. ASSUME NEW i \in DOMAIN toClient', NEW j \in DOMAIN toClient', toClient'[i].kind = "open",
                 toClient'[j].kind = "open", toClient'[i].conn = toClient'[j].conn
          PROVE  i = j
      <3>1. /\ i + 1 \in DOMAIN toClient /\ j + 1 \in DOMAIN toClient
            /\ toClient[i + 1].kind = "open" /\ toClient[j + 1].kind = "open"
            /\ toClient[i + 1].conn = toClient[j + 1].conn
        BY <1>2, <2>3, ZenonT(60)
      <3>2. i + 1 = j + 1
        BY <1>1, <3>1, ZenonT(60) DEF Once
      <3> QED
        BY <2>1, <3>2
    <2>4. ASSUME NEW i \in DOMAIN toServer, NEW j \in DOMAIN toClient', toClient'[j].kind # "open"
          PROVE  toServer[i].tunnel # toClient'[j].tunnel
      <3>1. j + 1 \in DOMAIN toClient /\ toClient'[j] = toClient[j + 1]
        BY <1>2, ZenonT(60)
      <3>2. toClient[j + 1].kind # "open" => toServer[i].tunnel # toClient[j + 1].tunnel
        BY <1>1, <3>1, ZenonT(60) DEF Once
      <3> QED
        BY <2>4, <3>1, <3>2, ZenonT(60)
    <2> QED
      BY <1>1, <2>2, <2>3, <2>4, ZenonT(60) DEF Once
  <1>9. ASSUME NEW u \in Tunnels PROVE Heard(u)'
    <2>1. CASE tunnel'[u] = tunnel[u]
      <3>1. Heard(u) /\ tunnel'[u] = tunnel[u] /\ listening' = listening
        BY <1>1, <2>1, ZenonT(60)
      <3> QED
        BY <3>1, ZenonT(60) DEF Heard, At, remote, OnlyOn, Unheard
    <2> QED
      BY <2>1, ZenonT(60)
  <1>10. ASSUME NEW u \in Tunnels, NEW p \in Ports, Has(u, p)' PROVE Has(u, p) \/ Granted(1, u, p)
    <2>1. CASE tunnel'[u] = tunnel[u]
      BY <1>10, <2>1, ZenonT(60) DEF Has, At, remote
    <2> QED
      BY <1>10, <2>1, ZenonT(60)
  <1>11. ASSUME NEW u \in Tunnels, NEW p, NEW i \in DOMAIN toClient', Granted(i, u, p)'
         PROVE  Granted(i + 1, u, p)
    BY <1>2, <1>3, <1>11, ZenonT(60) DEF Granted, At
  <1>12. ASSUME ~twice PROVE Single'
    <2>1. Single
      BY <1>1, <1>12, ZenonT(60)
    <2>2. ASSUME NEW p \in Ports, NEW u \in Tunnels, Has(u, p)' PROVE u \in listening[p]
      BY <1>2, <1>10, <2>1, <2>2, ZenonT(60) DEF Single
    <2>3. ASSUME NEW p \in Ports, NEW u \in Tunnels, NEW i \in DOMAIN toClient', Granted(i, u, p)'
          PROVE  u \in listening[p]
      <3>1. i + 1 \in DOMAIN toClient /\ Granted(i + 1, u, p)
        BY <1>2, <1>11, <2>3, ZenonT(60)
      <3> QED
        BY <2>1, <3>1, ZenonT(60) DEF Single
    <2> QED
      BY <2>1, <2>2, <2>3, ZenonT(60) DEF Single
  <1>13. ASSUME ~twice PROVE Ordered'
    <2>1. ASSUME NEW i \in DOMAIN toClient', NEW u \in Tunnels, toClient'[i].kind = "open"
          PROVE  /\ Has(u, toClient[i].port)' => u \in conn'[toClient'[i].conn].for
                 /\ \A j \in 1..(i - 1) : Granted(j, u, toClient[i].port)' =>
                      u \in conn'[toClient'[i].conn].for
      <3>1. PICK q : q = toClient'[i].port /\ q = toClient[i + 1].port
        BY <1>2, ZenonT(60)
      <3>2. PICK for : for = conn'[toClient'[i].conn].for /\ for = conn[toClient[i + 1].conn].for
        BY <1>2, <1>6, <2>1, ZenonT(60)
      <3>3. q \in Ports /\ i + 1 \in DOMAIN toClient /\ toClient[i + 1].kind = "open"
        BY <1>2, <1>6, <2>1, <3>1, ZenonT(60)
      <3>4. /\ Has(u, q) => u \in for
            /\ \A j \in 1..((i + 1) - 1) : Granted(j, u, q) => u \in for
        <4>1. /\ Has(u, toClient[i + 1].port) => u \in conn[toClient[i + 1].conn].for
              /\ \A j \in 1..((i + 1) - 1) :
                   Granted(j, u, toClient[i + 1].port) => u \in conn[toClient[i + 1].conn].for
          BY <1>1, <1>13, <3>3, ZenonT(60) DEF Ordered
        <4> QED
          BY <3>1, <3>2, <4>1, ZenonT(60)
      <3>5. Has(u, toClient[i].port)' => Has(u, q)'
        BY <3>1, ZenonT(60) DEF Has, At, remote
      <3>6. Has(u, q)' => u \in for
        BY <1>2, <1>10, <3>3, <3>4, ZenonT(60)
      <3>7. ASSUME NEW j \in 1..(i - 1), Granted(j, u, toClient[i].port)' PROVE u \in for
        <4>1. Granted(j, u, q)'
          BY <3>1, <3>7, ZenonT(60) DEF Granted, At
        <4>2. Granted(j + 1, u, q) /\ j + 1 \in 1..((i + 1) - 1)
          BY <1>2, <1>11, <4>1, ZenonT(60)
        <4> QED
          BY <3>4, <4>2, ZenonT(60)
      <3> QED
        BY <3>2, <3>5, <3>6, <3>7, ZenonT(60)
    <2> QED
      BY <2>1, ZenonT(60) DEF Ordered
  <1> QED
    BY <1>7, <1>8, <1>9, <1>12, <1>13, ZenonT(60) DEF Wired

LEMMA DeliverReplyKeeps ==
  ASSUME RuntimeInv, DeliverReply
  PROVE  RuntimeInv'
  <1>1. /\ ~closed /\ toClient # <<>> /\ Head(toClient).kind # "open" /\ toClient' = Tail(toClient)
        /\ UNCHANGED <<closed, registry, setup, cancelled, conn, toServer, listening, twice>>
    BY DEF DeliverReply
  <1>2. /\ tunnel \in [Tunnels -> Records] /\ toClient \in Seq(Down) /\ Asked /\ \A u \in Tunnels : Heard(u)
    BY <1>1, Typed, ZenonT(60) DEF RuntimeInv, Wired
  <1>3. PICK t, p, kind : t = Head(toClient).tunnel /\ p = Head(toClient).port /\ kind = Head(toClient).kind
    BY ZenonT(60)
  <1>4. /\ Head(toClient) = toClient[1] /\ 1 \in DOMAIN toClient /\ toClient[1] \in Down /\ toClient' \in Seq(Down)
    BY <1>1, <1>2, Shifted, ZenonT(60)
  <1>5. kind \in {"granted", "failed"} /\ p \in Ports \cup {0}
    BY <1>1, <1>3, <1>4, ZenonT(60) DEF Down
  <1>6. /\ t \in Tunnels /\ tunnel[t].reply = "none" /\ tunnel[t].pc \in {"requested", "retire"}
        /\ At(t, "requested") => IF kind = "granted" THEN p \in Ports /\ OnlyOn(t, p) ELSE Unheard(t)
        /\ At(t, "retire") => p = tunnel[t].port /\ (kind = "granted" => Unheard(t))
    <2>1. Reply(toClient[1])
      BY <1>1, <1>2, <1>4, ZenonT(60) DEF Asked
    <2>2. t = toClient[1].tunnel /\ p = toClient[1].port /\ kind = toClient[1].kind
      BY <1>3, <1>4, ZenonT(60)
    <2> QED
      BY <2>1, <2>2, ZenonT(60) DEF Reply
  <1>7. tunnel' = [tunnel EXCEPT ![t].reply = kind, ![t].port = p]
    BY <1>3, <1>6, ZenonT(60) DEF DeliverReply
  <1>8. /\ tunnel' \in [Tunnels -> Records] /\ \A u \in Tunnels : u # t => tunnel'[u] = tunnel[u]
        /\ tunnel'[t].pc = tunnel[t].pc /\ tunnel'[t].mode = tunnel[t].mode /\ tunnel'[t].port = p
        /\ tunnel'[t].gen = tunnel[t].gen /\ tunnel'[t].reply = kind /\ tunnel'[t].armed = tunnel[t].armed
        /\ tunnel'[t].result = tunnel[t].result
    <2>1. PICK n : n = [tunnel[t] EXCEPT !.reply = kind, !.port = p]
      BY ZenonT(60)
    <2>2. tunnel' = [tunnel EXCEPT ![t] = n]
      BY <1>7, <2>1, ZenonT(60)
    <2>3. tunnel[t] \in Records
      BY <1>2, <1>6, ZenonT(60)
    <2>4. n \in Records
      BY <1>5, <2>1, <2>3, ZenonT(60) DEF Records
    <2>5. /\ n.pc = tunnel[t].pc /\ n.mode = tunnel[t].mode /\ n.port = p /\ n.gen = tunnel[t].gen
          /\ n.reply = kind /\ n.armed = tunnel[t].armed /\ n.result = tunnel[t].result
      BY <2>1, <2>3, ZenonT(60) DEF Records
    <2>6. tunnel' \in [Tunnels -> Records] /\ tunnel'[t] = n /\ \A u \in Tunnels : u # t => tunnel'[u] = tunnel[u]
      BY <1>2, <1>6, <2>2, <2>4, Replaced, ZenonT(60)
    <2> QED
      BY <2>5, <2>6, ZenonT(60)
  <1>9. Task(t) /\ Heard(t)
    BY <1>2, <1>6, ZenonT(60) DEF RuntimeInv
  <1>10. Heard(t)'
    BY <1>1, <1>6, <1>8, <1>9, ZenonT(60) DEF Heard, At, remote, OnlyOn, Unheard
  <1>11. ASSUME NEW q \in Ports, Has(t, q)' PROVE Granted(1, t, q)
    <2>1. At(t, "requested") /\ kind = "granted" /\ p = q
      BY <1>6, <1>8, <1>11, ZenonT(60) DEF Has, At
    <2> QED
      BY <1>3, <1>4, <2>1, ZenonT(60) DEF Granted
  <1>12. Wired' /\ (~twice' => Single' /\ Ordered')
    <2>1. \A u \in Tunnels : \/ tunnel'[u] = tunnel[u]
                             \/ /\ Head(toClient).kind # "open" /\ Head(toClient).tunnel = u
                                /\ tunnel'[u].pc = tunnel[u].pc /\ Heard(u)'
                                /\ \A q \in Ports : Has(u, q)' => Granted(1, u, q)
      BY <1>1, <1>3, <1>8, <1>10, <1>11, ZenonT(60)
    <2> QED
      BY <1>1, <2>1, Received, ZenonT(60)
  <1>13. TypeOK'
    BY <1>1, <1>4, <1>8, Typed, TypedNext, ZenonT(60) DEF RuntimeInv, registry
  <1>14. ASSUME NEW u \in Tunnels PROVE Task(u)' /\ Clean(u)'
    <2>1. Task(u) /\ Clean(u) /\ routes' = routes
      BY <1>1, ZenonT(60) DEF RuntimeInv, registry
    <2>2. u # t => Task(u)'
      BY <1>1, <1>8, <2>1, TaskStays, ZenonT(60)
    <2>3. Task(t)'
      BY <1>1, <1>6, <1>8, <1>9, ZenonT(60) DEF Task, At, remote, Before
    <2>4. Clean(u)'
      BY <1>1, <1>8, <2>1, CleanStays, ZenonT(60)
    <2> QED
      BY <2>2, <2>3, <2>4, ZenonT(60)
  <1>15. Generations'
    <2>1. tunnel[t].gen # 0 => tunnel'[t].port = tunnel[t].port
      BY <1>6, <1>8, <1>9, ZenonT(60) DEF Task, At, Before
    <2>2. \A u \in Tunnels : /\ tunnel'[u].gen = tunnel[u].gen
                             /\ tunnel[u].gen # 0 => tunnel'[u].port = tunnel[u].port
      BY <1>8, <2>1, ZenonT(60)
    <2> QED
      BY <1>1, <2>2, GenerationsStay, ZenonT(60) DEF RuntimeInv
  <1>16. OwnChannelsOnly'
    BY <1>1, ZenonT(60) DEF RuntimeInv, OwnChannelsOnly
  <1> QED
    BY <1>12, <1>13, <1>14, <1>15, <1>16, ZenonT(60) DEF RuntimeInv

LEMMA DeliverOpenKeeps ==
  ASSUME RuntimeInv, DeliverOpen
  PROVE  RuntimeInv'
  <1>1. /\ ~closed /\ toClient # <<>> /\ Head(toClient).kind = "open" /\ toClient' = Tail(toClient)
        /\ UNCHANGED <<closed, registry, setup, tunnel, cancelled, toServer, listening, twice>>
    BY ZenonT(60) DEF DeliverOpen
  <1>2. /\ conn \in [Conns -> Links] /\ toClient \in Seq(Down) /\ Asked /\ (~twice => Ordered)
    BY <1>1, Typed, ZenonT(60) DEF RuntimeInv, Wired
  <1>3. PICK c, p : c = Head(toClient).conn /\ p = Head(toClient).port
    BY ZenonT(60)
  <1>4. /\ Head(toClient) = toClient[1] /\ 1 \in DOMAIN toClient /\ toClient' \in Seq(Down)
    BY <1>1, <1>2, Shifted, ZenonT(60)
  <1>5. /\ c \in Conns /\ p \in Ports /\ conn[c].stage = "wire"
        /\ c = toClient[1].conn /\ p = toClient[1].port /\ toClient[1].kind = "open"
    <2>1. Opening(toClient[1])
      BY <1>1, <1>2, <1>4, ZenonT(60) DEF Asked
    <2> QED
      BY <1>1, <1>3, <1>4, <2>1, ZenonT(60) DEF Opening
  <1>6. \/ \E t \in Tunnels : /\ t \in sender_for(p) /\ At(t, "running")
                              /\ conn' = [conn EXCEPT ![c].stage = "queued", ![c].tunnel = t]
        \/ Stage(c, "gone")
    BY <1>3, ZenonT(60) DEF DeliverOpen, sender_for
  <1>7. /\ conn' \in [Conns -> Links] /\ \A d \in Conns : d # c => conn'[d] = conn[d]
        /\ conn'[c].stage \in {"queued", "gone"} /\ conn'[c].for = conn[c].for
        /\ conn'[c].stage = "queued" => \E t \in sender_for(p) : At(t, "running") /\ conn'[c].tunnel = t
    <2>1. CASE Stage(c, "gone")
      BY <1>2, <1>5, <2>1, ZenonT(60) DEF Stage, Links
    <2>2. ASSUME NEW t \in Tunnels, t \in sender_for(p), At(t, "running"),
                 conn' = [conn EXCEPT ![c].stage = "queued", ![c].tunnel = t]
          PROVE  /\ conn' \in [Conns -> Links] /\ \A d \in Conns : d # c => conn'[d] = conn[d]
                 /\ conn'[c].stage = "queued" /\ conn'[c].for = conn[c].for /\ conn'[c].tunnel = t
      <3>1. PICK n : n = [conn[c] EXCEPT !.stage = "queued", !.tunnel = t]
        BY ZenonT(60)
      <3>2. conn' = [conn EXCEPT ![c] = n]
        BY <2>2, <3>1, ZenonT(60)
      <3>3. conn[c] \in Links
        BY <1>2, <1>5, ZenonT(60)
      <3>4. n \in Links
        BY <3>1, <3>3, ZenonT(60) DEF Links
      <3>5. n.stage = "queued" /\ n.for = conn[c].for /\ n.tunnel = t
        BY <3>1, <3>3, ZenonT(60) DEF Links
      <3> QED
        BY <1>2, <1>5, <3>2, <3>4, <3>5, Replaced, ZenonT(60)
    <2> QED
      BY <1>6, <2>1, <2>2, ZenonT(60)
  <1>8. "queued" \notin Flowing /\ "gone" \notin Flowing \cup {"queued"}
    BY ZenonT(60) DEF Flowing
  <1>9. Wired' /\ (~twice' => Single' /\ Ordered')
    <2>1. \A d \in Conns : conn'[d] = conn[d] \/ (Head(toClient).kind = "open" /\ Head(toClient).conn = d)
      BY <1>1, <1>3, <1>7, ZenonT(60)
    <2> QED
      BY <1>1, <2>1, Received, ZenonT(60)
  <1>10. TypeOK'
    BY <1>1, <1>4, <1>7, Typed, TypedNext, ZenonT(60) DEF RuntimeInv, registry
  <1>11. ASSUME NEW u \in Tunnels PROVE Task(u)' /\ Clean(u)'
    <2>1. Task(u) /\ Clean(u) /\ routes' = routes
      BY <1>1, ZenonT(60) DEF RuntimeInv, registry
    <2>2. Task(u)'
      BY <1>1, <2>1, TaskStays, ZenonT(60)
    <2>3. \A d \in Conns : conn'[d].stage \in Flowing => d # c /\ conn'[d] = conn[d]
      BY <1>7, <1>8, ZenonT(60)
    <2>4. Clean(u)'
      BY <1>1, <2>1, <2>3, CleanStays, ZenonT(60)
    <2> QED
      BY <2>2, <2>4, ZenonT(60)
  <1>12. Generations'
    BY <1>1, GenerationsStay, ZenonT(60) DEF RuntimeInv
  <1>13. OwnChannelsOnly'
    <2>1. ASSUME ~twice, conn'[c].stage = "queued" PROVE conn'[c].tunnel \in conn'[c].for
      <3>1. PICK t \in Tunnels : /\ routes[p] # 0 /\ tunnel[t].gen = routes[p] /\ At(t, "running")
                                 /\ conn'[c].tunnel = t
        BY <1>7, <2>1, ZenonT(60) DEF sender_for, contains_port
      <3>2. remote(t) /\ tunnel[t].port = p
        <4>1. Task(t) /\ Generations
          BY ZenonT(60) DEF RuntimeInv
        <4> QED
          BY <1>5, <3>1, <4>1, ZenonT(60) DEF Task, Generations
      <3>3. Has(t, p)
        BY <3>1, <3>2, ZenonT(60) DEF Has
      <3>4. t \in conn[c].for
        BY <1>2, <1>4, <1>5, <2>1, <3>3, ZenonT(60) DEF Ordered
      <3> QED
        BY <1>7, <3>1, <3>4
    <2>2. ASSUME ~twice, NEW d \in Conns, conn'[d].stage \in Flowing \cup {"queued"}
          PROVE  conn'[d].tunnel \in conn'[d].for
      <3>1. CASE d = c
        BY <1>7, <1>8, <2>1, <2>2, <3>1, ZenonT(60)
      <3>2. CASE d # c
        BY <1>7, <2>2, <3>2, ZenonT(60) DEF RuntimeInv, OwnChannelsOnly
      <3> QED
        BY <3>1, <3>2, ZenonT(60)
    <2> QED
      BY <1>1, <2>2, ZenonT(60) DEF OwnChannelsOnly
  <1> QED
    BY <1>9, <1>10, <1>11, <1>12, <1>13, ZenonT(60) DEF RuntimeInv

-----------------------------------------------------------------------------
(* The invariant.                                                           *)

LEMMA InitHolds ==
  ASSUME Init
  PROVE  RuntimeInv
  <1>1. TypeOK
    <2>1. closed \in BOOLEAN /\ generation \in Nat /\ setup \in Tunnels \cup {Nobody} /\ twice \in BOOLEAN
      BY ZenonT(60) DEF Init
    <2>2. routes \in [Ports -> Nat] /\ cancelled \subseteq Tunnels /\ listening \in [Ports -> SUBSET Tunnels]
      BY ZenonT(60) DEF Init
    <2>3. tunnel \in [Tunnels -> Records]
      BY ZenonT(60) DEF Init, Records, Modes
    <2>4. conn \in [Conns -> Links]
      BY ZenonT(60) DEF Init, Links
    <2>5. toServer \in Seq(Up) /\ toClient \in Seq(Down)
      BY DEF Init
    <2> QED
      BY <2>1, <2>2, <2>3, <2>4, <2>5, Typed, ZenonT(60)
  <1>2. /\ \A t \in Tunnels : /\ tunnel[t].pc = "new" /\ tunnel[t].mode = "local" /\ tunnel[t].gen = 0
                              /\ tunnel[t].reply = "none"
        /\ \A c \in Conns : conn[c].stage = "unused"
        /\ \A p \in Ports : listening[p] = {} /\ routes[p] = 0
        /\ generation = 0
    BY ZenonT(60) DEF Init
  <1>3. toServer = <<>> /\ toClient = <<>> /\ DOMAIN toServer = {} /\ DOMAIN toClient = {}
    BY DEF Init
  <1>4. ASSUME NEW t \in Tunnels PROVE Task(t) /\ Clean(t) /\ Heard(t)
    BY <1>2, ZenonT(60) DEF Task, Clean, Heard, At, Before
  <1>5. Generations
    BY <1>2 DEF Generations
  <1>6. Asked /\ Once /\ Single /\ Ordered
    <2>1. Asked /\ Once /\ Ordered
      BY <1>3, ZenonT(60) DEF Asked, Once, Ordered
    <2>2. Single
      BY <1>2, <1>3, ZenonT(60) DEF Single, Has, At
    <2> QED
      BY <2>1, <2>2, ZenonT(60)
  <1>7. OwnChannelsOnly
    BY <1>2 DEF OwnChannelsOnly, Flowing
  <1> QED
    BY <1>1, <1>4, <1>5, <1>6, <1>7 DEF RuntimeInv, Wired

LEMMA StutterKeeps ==
  ASSUME RuntimeInv, UNCHANGED vars
  PROVE  RuntimeInv'
  <1>1. UNCHANGED <<closed, registry, setup, tunnel, cancelled, conn>> /\ UNCHANGED wires
    BY ZenonT(60) DEF vars, registry, wires
  <1>2. closed' = closed /\ tunnel' = tunnel /\ conn' = conn /\ UNCHANGED wires /\ twice' = twice
    BY <1>1, ZenonT(60) DEF wires
  <1>3. ~closed => Wired' /\ (~twice' => Single' /\ Ordered')
    BY <1>2, Framed, ZenonT(60) DEF Undisturbed
  <1>4. TypeOK'
    BY <1>1, Typed, TypedNext, ZenonT(60) DEF RuntimeInv, registry, wires
  <1>5. \A u \in Tunnels : Task(u)' /\ Clean(u)'
    BY <1>1, TaskStays, CleanStays, ZenonT(60) DEF RuntimeInv, registry
  <1>6. Generations'
    BY <1>1, GenerationsStay, ZenonT(60) DEF RuntimeInv
  <1>7. OwnChannelsOnly'
    BY <1>2, ZenonT(60) DEF RuntimeInv, OwnChannelsOnly
  <1> QED
    BY <1>2, <1>3, <1>4, <1>5, <1>6, <1>7, ZenonT(60) DEF RuntimeInv

LEMMA NextKeeps ==
  ASSUME RuntimeInv, Next
  PROVE  RuntimeInv'
  <1>1. ASSUME NEW t \in Tunnels, TaskStep(t)
        PROVE  RuntimeInv'
    <2>1. CASE RequestForward(t)
      BY <2>1, RequestKeeps
    <2>2. CASE RegisterForward(t)
      BY <2>2, RegisterKeeps
    <2>3. CASE ForwardRefused(t) \/ SetupDeadline(t)
      BY <2>3, ForwardRefusedKeeps, ZenonT(60)
    <2>4. CASE LoopEnds(t)
      BY <2>4, LeaveKeeps, ZenonT(60) DEF LoopEnds
    <2>5. CASE Retire(t)
      BY <2>5, RetireKeeps
    <2>6. CASE Drained(t)
      BY <2>6, DrainedKeeps
    <2>7. CASE StopTimeout(t)
      BY <2>7, StopTimeoutKeeps
    <2> QED
      BY <1>1, <2>1, <2>2, <2>3, <2>4, <2>5, <2>6, <2>7, ZenonT(60) DEF TaskStep
  <1>2. ASSUME NEW t \in Tunnels, Start(t) PROVE RuntimeInv'
    BY <1>2, StartKeeps
  <1>3. ASSUME NEW t \in Tunnels, AcceptFails(t) PROVE RuntimeInv'
    BY <1>3, LeaveKeeps, ZenonT(60) DEF AcceptFails
  <1>4. ASSUME NEW t \in Tunnels, AbandonSetup(t) PROVE RuntimeInv'
    BY <1>4, ForwardRefusedKeeps, ZenonT(60)
  <1>5. ASSUME NEW t \in Tunnels, Stop(t) PROVE RuntimeInv'
    BY <1>5, StopKeeps
  <1>6. ASSUME NEW t \in Tunnels, NEW c \in Conns, Admit(t, c) PROVE RuntimeInv'
    BY <1>6, AdmitKeeps, ZenonT(60)
  <1>7. ASSUME NEW c \in Conns, FlowStep(c) PROVE RuntimeInv'
    BY <1>7, FlowStepKeeps
  <1>8. ASSUME NEW c \in Conns, NEW p \in Ports, ServerOpens(c, p) PROVE RuntimeInv'
    BY <1>8, ServerOpensKeeps, ZenonT(60)
  <1>9. CASE ServerGrants
    BY <1>9, ServerGrantsKeeps, ZenonT(60)
  <1>10. CASE ServerRetires
    BY <1>10, ServerRetiresKeeps, ZenonT(60)
  <1>11. CASE ServerRefuses
    BY <1>11, ServerRefusesKeeps, ZenonT(60)
  <1>12. CASE DeliverReply
    BY <1>12, DeliverReplyKeeps
  <1>13. CASE DeliverOpen
    BY <1>13, DeliverOpenKeeps
  <1>14. CASE Disconnect
    BY <1>14, DisconnectKeeps
  <1> QED
    BY <1>1, <1>2, <1>3, <1>4, <1>5, <1>6, <1>7, <1>8, <1>9, <1>10, <1>11, <1>12, <1>13, <1>14, ZenonT(60) DEF Next

\* The inductive invariant of the tunnels of a session: the records of the tasks,
\* the generations of the routes, what is on the two streams, and the server's
\* listeners, for any number of tunnels, ports and connections.
THEOREM RuntimeInvariant == Spec => []RuntimeInv
  <1>1. Init => RuntimeInv
    BY InitHolds, ZenonT(60)
  <1>2. RuntimeInv /\ [Next]_vars => RuntimeInv'
    BY NextKeeps, StutterKeeps, ZenonT(60)
  <1> QED
    BY <1>1, <1>2, PTL DEF Spec

\* The state of the tunnels stays of its type.
THEOREM TypeCorrect == Spec => []TypeOK
  <1>1. RuntimeInv => TypeOK
    BY DEF RuntimeInv
  <1> QED
    BY <1>1, RuntimeInvariant, PTL

\* Whatever refusals, deadlines, aborts, stops and lost sessions do to the tunnels
\* of a session: while the session is used no listener of the server is left without
\* a tunnel that sets it up, serves it or retires it (setup_remote_forward,
\* cancel_remote_forward_until, RemoteForwardLease), and a channel goes to the
\* tunnel that asked for its listener or to nobody, although ports are used again
\* (RemoteForwardRoutes and server_channel_open_forwarded_tcpip).
THEOREM ListenersSafe == Spec => []ListenersAreOwned
  <1>1. RuntimeInv => ListenersAreOwned
    <2> SUFFICES ASSUME RuntimeInv PROVE ListenersAreOwned
      BY ZenonT(60)
    <2>1. OwnChannelsOnly
      BY DEF RuntimeInv
    <2>2. ASSUME ~closed, NEW p \in Ports, NEW t \in listening[p]
          PROVE  \/ At(t, "requested")
                 \/ At(t, "running") /\ tunnel[t].port = p /\ routes[p] = tunnel[t].gen
                 \/ At(t, "retire") /\ tunnel[t].port = p
      <3>1. t \in Tunnels
        BY Typed, ZenonT(60) DEF RuntimeInv
      <3>2. Task(t) /\ Heard(t)
        BY <2>2, <3>1, ZenonT(60) DEF RuntimeInv, Wired
      <3> QED
        BY <2>2, <3>2, ZenonT(60) DEF Task, Heard
    <2>3. NoOrphanListener
      BY <2>2 DEF NoOrphanListener
    <2> QED
      BY <2>1, <2>3, ZenonT(60) DEF ListenersAreOwned
  <1> QED
    BY <1>1, RuntimeInvariant, PTL

\* The flows of a tunnel never exceed max_connections and those of the session
\* never exceed its permits, and a tunnel whose end was reported as clean has none
\* left: drain_tunnel_flows joins or aborts what the loop had spawned.
THEOREM FlowsSafe == Spec => []FlowsBounded
  <1>1. Init => Permits
    <2> SUFFICES ASSUME Init PROVE Permits
      OBVIOUS
    <2>1. \A c \in Conns : conn[c].stage = "unused"
      BY ZenonT(60) DEF Init
    <2>2. AllFlows = {} /\ \A t \in Tunnels : Flows(t) = {}
      BY <2>1 DEF AllFlows, Flows, Flowing
    <2> QED
      BY <2>2, FS_EmptySet, TunnelAssumption DEF Permits
  <1>2. RuntimeInv /\ Permits /\ [Next]_vars => Permits'
    <2> SUFFICES ASSUME RuntimeInv, Permits, [Next]_vars PROVE Permits'
      BY ZenonT(60)
    <2>1. CASE \E t \in Tunnels, c \in Conns : Admit(t, c)
      BY <2>1, AdmitPermits, ZenonT(60) DEF RuntimeInv
    <2>2. CASE ~\E t \in Tunnels, c \in Conns : Admit(t, c)
      <3>1. \A d \in Conns :
              conn'[d].stage \in Flowing => conn[d].stage \in Flowing /\ conn'[d].tunnel = conn[d].tunnel
        BY <2>2, NoFlowStarts, ZenonT(60)
      <3> QED
        BY <3>1, FewerFlows, ZenonT(60)
    <2> QED
      BY <2>1, <2>2, ZenonT(60)
  <1>3. RuntimeInv /\ Permits => FlowsBounded
    BY DEF RuntimeInv, Permits, FlowsBounded, Clean
  <1> QED
    BY <1>1, <1>2, <1>3, RuntimeInvariant, PTL DEF Spec

\* The tasks of a session's tunnels implement, step by step, what a RunningTunnel
\* promises to whoever holds it (Tunnel): a tunnel is opened or refused once, ends
\* only after it was cancelled, ends well only if it did not fail before, and a
\* tunnel that fails has set its own token.
THEOREM ImplementsTunnel ==
  Spec => Promise!TunnelInit /\ [][Promise!TunnelNext]_(Promise!tunnelVars)
  <1>1. Init => Promise!TunnelInit
    BY DEF Init, Promise!TunnelInit, phase
  <1>2. RuntimeInv /\ [Next]_vars => [Promise!TunnelNext]_(Promise!tunnelVars)
    BY NextPromise DEF Promised
  <1> QED
    BY <1>1, <1>2, RuntimeInvariant, PTL DEF Spec

===============================================================================
