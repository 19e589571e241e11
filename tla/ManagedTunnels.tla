---------------------------- MODULE ManagedTunnels ----------------------------
(***************************************************************************)
(* Who ends a tunnel of the daemon (daemon.rs): the registry of managed    *)
(* tunnels (`ManagedTunnelRegistry'), the worker that watches each of them,*)
(* the requests that open, list and cancel them, the handler that holds a  *)
(* tunnel for as long as its control connection lives (`serve_tunnel'),    *)
(* and the daemon's shutdown.  A tunnel itself is the one of Tunnel.       *)
(***************************************************************************)
EXTENDS Tunnel, Naturals, FiniteSets

CONSTANTS
  Owners,         \* profile and generation
  Owner,          \* of each tunnel
  Contexts,       \* the tunnels that carry an operation context when they are managed
  Callers,        \* requests to cancel
  Main,           \* shutdown_all
  None,
  ActivePerOwner, ActiveGlobal, FinishedPerOwner, FinishedGlobal,
  Slots,          \* TUNNEL_CONTROL_LIMIT
  Faults          \* subset of {"age", "refuse"}

ASSUME ManagedAssumption ==
  /\ IsFiniteSet(Tunnels) /\ Owner \in [Tunnels -> Owners]
  /\ Contexts \subseteq Tunnels
  /\ Main \notin Callers /\ None \notin Tunnels
  /\ {ActivePerOwner, ActiveGlobal, FinishedPerOwner, FinishedGlobal, Slots} \subseteq Nat \ {0}
  /\ Faults \subseteq {"age", "refuse"}

VARIABLES
  managed,    \* the tunnels asked for with ManagedTunnelOpen; the others with TunnelOpen
  records,    \* by tunnel id; ids are random and never used again
  order,      \* next_finished_order
  notified,   \* the tunnels whose completion was signalled
  handler,    \* the request that opens each tunnel
  worker,     \* spawn_managed_tunnel_worker
  caller,     \* cancel_and_wait, of each caller and of shutdown_all
  shutdown,   \* the shutdown channel
  todo        \* what shutdown_all still has to wait for

registry == <<records, order, notified>>
vars == <<phase, cancelled, managed, records, order, notified, handler, worker, caller, shutdown, todo>>

Active == {"Ready", "Cancelling"}
Terminal == {"Closed", "Unknown"}
Nothing == [stage |-> "absent", revision |-> 0, finished |-> 0, discovered |-> FALSE]

TypeOK ==
  /\ phase \in [Tunnels -> Phases] /\ cancelled \subseteq Tunnels
  /\ records \in [Tunnels -> [stage : {"absent"} \cup Active \cup Terminal, revision : Nat,
                              finished : Nat, discovered : BOOLEAN]]
  /\ order \in Nat
  /\ managed \subseteq Tunnels /\ notified \subseteq managed /\ todo \subseteq managed
  /\ handler \in [Tunnels -> {"idle", "starting", "started", "serving", "stopping", "done"}]
  /\ worker \in [Tunnels -> {"none", "wait", "over"}]
  /\ caller \in [Callers \cup {Main} ->
       [pc : {"idle", "mark", "next", "arm", "look", "wait", "final", "fail", "done"},
        tunnel : Tunnels \cup {None}, heard : BOOLEAN, answer : {"none", "error"} \cup Active \cup Terminal]]
  /\ shutdown \in BOOLEAN

Init ==
  /\ TunnelInit
  /\ managed = {}
  /\ records = [t \in Tunnels |-> Nothing]
  /\ order = 0
  /\ notified = {} /\ todo = {}
  /\ handler = [t \in Tunnels |-> "idle"]
  /\ worker = [t \in Tunnels |-> "none"]
  /\ caller = [k \in Callers \cup {Main} |->
                 [pc |-> "idle", tunnel |-> None, heard |-> FALSE, answer |-> "none"]]
  /\ shutdown = FALSE

-----------------------------------------------------------------------------
(* The registry.                                                           *)

\* prune_locked: records finish in the order of their times, so those past
\* the retention are the oldest ones.
Ages == IF "age" \in Faults THEN 0..order ELSE {0}
Pruned(age) ==
  [t \in Tunnels |-> IF records[t].finished \in 1..age THEN Nothing ELSE records[t]]

Count(rs, stages, owners) ==
  Cardinality({t \in Tunnels : rs[t].stage \in stages /\ Owner[t] \in owners})

\* remove_oldest_finished_locked until at most cap are left
Newest(rs, owners, cap) ==
  [t \in Tunnels |->
     IF /\ rs[t].stage \in Terminal /\ Owner[t] \in owners
        /\ cap <= Cardinality({u \in Tunnels : /\ rs[u].stage \in Terminal
                                               /\ Owner[u] \in owners
                                               /\ rs[u].finished > rs[t].finished})
     THEN Nothing ELSE rs[t]]

enforce_finished_caps_locked(rs, owner) ==
  Newest(Newest(rs, {owner}, FinishedPerOwner), Owners, FinishedGlobal)

Revised(t, r) == IF t \in Contexts THEN r.revision + 1 ELSE r.revision

\* Mutant: a record that is finished already is finished again.
FinishAnyway(t, stage) ==
  \E age \in Ages :
    LET rs == Pruned(age)
    IN /\ order' = order + 1
       /\ IF rs[t].stage \in Active \cup Terminal
          THEN /\ records' = enforce_finished_caps_locked(
                    [rs EXCEPT ![t].stage = stage, ![t].finished = order',
                               ![t].revision = Revised(t, rs[t])], Owner[t])
               /\ notified' = notified \cup {t}
          ELSE records' = rs /\ UNCHANGED notified

\* finish_worker: a record that is gone or finished is left as it is.
finish_worker(t, stage) ==
  \E age \in Ages :
    LET rs == Pruned(age)
    IN /\ order' = order + 1
       /\ IF rs[t].stage \in Active
          THEN /\ records' = enforce_finished_caps_locked(
                    [rs EXCEPT ![t].stage = stage, ![t].finished = order',
                               ![t].revision = Revised(t, rs[t])], Owner[t])
               /\ notified' = notified \cup {t}
          ELSE records' = rs /\ UNCHANGED notified

\* request_cancel, for a record that is not finished
Mark(t, r) ==
  IF r.stage = "Ready" THEN [r EXCEPT !.stage = "Cancelling", !.revision = Revised(t, r)] ELSE r

-----------------------------------------------------------------------------
(* ManagedTunnelOpen and TunnelOpen.                                       *)

Handle(t, pc) == handler' = [handler EXCEPT ![t] = pc]
Busy == {t \in Tunnels : handler[t] \notin {"idle", "done"}}

\* acquire_tunnel_control_slot: not once the daemon shuts down; one that never
\* gets a slot before its deadline leaves nothing behind.
AcquireSlot(t) ==
  /\ handler[t] = "idle" /\ ~shutdown
  /\ Cardinality(Busy) < Slots
  /\ Handle(t, "starting")
  /\ managed' \in {managed, managed \cup {t}}
  /\ UNCHANGED <<tunnelVars, registry, worker, caller, shutdown, todo>>

StartTunnel(t) ==
  /\ handler[t] = "starting"
  /\ \/ Open(t) /\ Handle(t, "started")
     \/ "refuse" \in Faults /\ Refuse(t) /\ Handle(t, "done")
  /\ UNCHANGED <<registry, worker, caller, shutdown, todo, managed>>

\* serve_tunnel: the peer goes away or the daemon shuts down during the setup.
AbandonStart(t) ==
  /\ handler[t] = "starting" /\ t \notin managed
  /\ Refuse(t)
  /\ Handle(t, "done")
  /\ UNCHANGED <<registry, worker, caller, shutdown, todo, managed>>

\* Mutant: the tunnel of a refused registration is let go of.
RefuseRegistration(t) ==
  /\ Handle(t, "done")
  /\ UNCHANGED <<tunnelVars, worker>>

\* begin refuses: the handler stops the tunnel and waits for its end.
StopRefused(t) ==
  /\ Cancel(t)
  /\ Handle(t, "stopping")
  /\ UNCHANGED worker

\* begin, and the worker that takes the tunnel over.
Register(t) ==
  /\ handler[t] = "started" /\ t \in managed
  /\ \E age \in Ages :
       LET rs == Pruned(age)
           room == /\ Count(rs, Active, Owners) < ActiveGlobal
                   /\ Count(rs, Active, {Owner[t]}) < ActivePerOwner
       IN \/ /\ room
             /\ records' = [rs EXCEPT ![t] =
                  [Nothing EXCEPT !.stage = "Ready", !.revision = IF t \in Contexts THEN 1 ELSE 0]]
             /\ worker' = [worker EXCEPT ![t] = "wait"]
             /\ Handle(t, "done")
             /\ UNCHANGED tunnelVars
          \/ /\ ~room
             /\ records' = rs
             /\ StopRefused(t)
  /\ UNCHANGED <<order, notified, caller, shutdown, todo, managed>>

\* The operation context or the status cannot be made: the tunnel is dropped.
ContextFails(t) ==
  /\ "refuse" \in Faults
  /\ handler[t] = "started" /\ t \in managed
  /\ Cancel(t)
  /\ Handle(t, "done")
  /\ UNCHANGED <<registry, worker, caller, shutdown, todo, managed>>

\* TunnelReady is written, or the tunnel is stopped.
ReportReady(t) ==
  /\ handler[t] = "started" /\ t \notin managed
  /\ \/ ~shutdown /\ Handle(t, "serving") /\ UNCHANGED tunnelVars
     \/ Cancel(t) /\ Handle(t, "stopping")
  /\ UNCHANGED <<registry, worker, caller, shutdown, todo, managed>>

\* TunnelStop, any other frame, the end of the connection or a read error.
ControlStops(t) ==
  /\ handler[t] = "serving"
  /\ Cancel(t)
  /\ Handle(t, "stopping")
  /\ UNCHANGED <<registry, worker, caller, shutdown, todo, managed>>

ServeShutdown(t) == shutdown /\ ControlStops(t)

HandlerEnds(t) ==
  /\ handler[t] \in {"serving", "stopping"}
  /\ phase[t] \in Over
  /\ Handle(t, "done")
  /\ UNCHANGED <<tunnelVars, registry, worker, caller, shutdown, todo, managed>>

\* snapshots for ManagedTunnelStatus with an exact id; without the context it
\* is answered once.
snapshots(rs, t) ==
  IF rs[t].stage # "absent" /\ t \in Contexts THEN [rs EXCEPT ![t].discovered = TRUE] ELSE rs

Status(t) ==
  /\ records[t].stage # "absent"
  /\ \E age \in Ages : records' = snapshots(Pruned(age), t)
  /\ UNCHANGED <<tunnelVars, order, notified, handler, worker, caller, shutdown, todo, managed>>

-----------------------------------------------------------------------------
(* cancel_and_wait: the notification is armed before the record is read.   *)

At(k, pc) == caller[k].pc = pc
Goto(k, pc) == caller' = [caller EXCEPT ![k].pc = pc]

\* cancel_and_wait returns: to a request that is answered, or to shutdown_all,
\* which goes on with its next tunnel, after an error with finish_worker.
Returned(k, t, answer) ==
  caller' = [caller EXCEPT ![k].tunnel = t, ![k].answer = answer,
               ![k].pc = IF k # Main THEN "done" ELSE IF answer = "error" THEN "fail" ELSE "next"]

\* request_cancel; a request may name another profile's tunnel or lack the
\* context.
CancelRequest(k, t) ==
  /\ At(k, IF k = Main THEN "next" ELSE "idle")
  /\ k = Main => t \in todo
  /\ todo' = IF k = Main THEN todo \ {t} ELSE todo
  /\ \/ /\ records[t].stage \in Active
        /\ records' = [records EXCEPT ![t] = Mark(t, @)]
        /\ cancelled' = IF records[t].stage = "Ready" THEN cancelled \cup {t} ELSE cancelled
        /\ caller' = [caller EXCEPT ![k].tunnel = t, ![k].pc = "arm", ![k].answer = "none"]
     \/ /\ records[t].stage \in Terminal
        /\ Returned(k, t, records[t].stage)
        /\ UNCHANGED <<records, cancelled>>
     \/ /\ k # Main \/ records[t].stage = "absent"
        /\ Returned(k, t, "error")
        /\ UNCHANGED <<records, cancelled>>
  /\ UNCHANGED <<phase, order, notified, handler, worker, shutdown, managed>>

\* completion.notified()
Arm(k) ==
  /\ At(k, "arm")
  /\ caller' = [caller EXCEPT ![k].pc = "look", ![k].heard = caller[k].tunnel \in notified]
  /\ UNCHANGED <<tunnelVars, registry, handler, worker, shutdown, todo, managed>>

\* snapshots of the one tunnel
Look(k) ==
  /\ At(k, "look")
  /\ \E age \in Ages :
       LET stage == Pruned(age)[caller[k].tunnel].stage
       IN /\ records' = Pruned(age)
          /\ \/ stage = "absent" /\ Returned(k, caller[k].tunnel, "error")
             \/ stage \in Terminal /\ Returned(k, caller[k].tunnel, stage)
             \/ stage \in Active /\ Goto(k, "wait")
  /\ UNCHANGED <<tunnelVars, order, notified, handler, worker, shutdown, todo, managed>>

Heard(k) == caller[k].tunnel \in notified /\ ~caller[k].heard

Woken(k) ==
  /\ At(k, "wait")
  /\ Heard(k)
  /\ Goto(k, "arm")
  /\ UNCHANGED <<tunnelVars, registry, handler, worker, shutdown, todo, managed>>

\* The deadline: the tunnel counts as Unknown from here on.
Expire(k) ==
  /\ At(k, "wait")
  /\ ~Heard(k)
  /\ finish_worker(caller[k].tunnel, "Unknown")
  /\ IF records[caller[k].tunnel].stage = "absent"
     THEN Returned(k, caller[k].tunnel, "error")
     ELSE Goto(k, "final")
  /\ UNCHANGED <<tunnelVars, handler, worker, shutdown, todo, managed>>

Final(k) ==
  /\ At(k, "final")
  /\ \E age \in Ages :
       LET stage == Pruned(age)[caller[k].tunnel].stage
       IN /\ records' = Pruned(age)
          /\ Returned(k, caller[k].tunnel, IF stage = "absent" THEN "error" ELSE stage)
  /\ UNCHANGED <<tunnelVars, order, notified, handler, worker, shutdown, todo, managed>>

-----------------------------------------------------------------------------
(* The worker of a tunnel, and the end of the daemon.                      *)

\* The tunnel's own deadline.
WorkerDeadline(t) ==
  /\ worker[t] = "wait" /\ t \notin cancelled
  /\ Cancel(t)
  /\ UNCHANGED <<registry, handler, worker, caller, shutdown, todo, managed>>

WorkerShutdown(t) == shutdown /\ WorkerDeadline(t)

\* Mutant: the result of the task is not looked at.
WorkerEndsClosed(t) ==
  /\ worker[t] = "wait"
  /\ phase[t] \in Over
  /\ finish_worker(t, "Closed")
  /\ worker' = [worker EXCEPT ![t] = "over"]
  /\ UNCHANGED <<tunnelVars, handler, caller, shutdown, todo, managed>>

WorkerEnds(t) ==
  /\ worker[t] = "wait"
  /\ phase[t] \in Over
  /\ finish_worker(t, IF phase[t] = "ok" THEN "Closed" ELSE "Unknown")
  /\ worker' = [worker EXCEPT ![t] = "over"]
  /\ UNCHANGED <<tunnelVars, handler, caller, shutdown, todo, managed>>

\* shutdown_tx.send(true)
Shutdown ==
  /\ At(Main, "idle")
  /\ shutdown' = TRUE
  /\ Goto(Main, "mark")
  /\ UNCHANGED <<tunnelVars, registry, handler, worker, todo, managed>>

\* shutdown_all marks and cancels every tunnel before it waits for any.
MarkAll ==
  /\ At(Main, "mark")
  /\ \E age \in Ages :
       LET active == {t \in Tunnels : Pruned(age)[t].stage \in Active}
       IN /\ records' = [t \in Tunnels |->
               IF t \in active
               THEN [records[t] EXCEPT !.stage = "Cancelling", !.revision = Revised(t, records[t])]
               ELSE Pruned(age)[t]]
          /\ cancelled' = cancelled \cup active
          /\ todo' = active
  /\ Goto(Main, "next")
  /\ UNCHANGED <<phase, order, notified, handler, worker, shutdown, managed>>

MainFails ==
  /\ At(Main, "fail")
  /\ finish_worker(caller[Main].tunnel, "Unknown")
  /\ Goto(Main, "next")
  /\ UNCHANGED <<tunnelVars, handler, worker, shutdown, todo, managed>>

\* All waited for: the handlers are drained, and those left after
\* HANDLER_SHUTDOWN_GRACE aborted; a tunnel one of them holds is dropped.
AbortHandlers ==
  /\ At(Main, "next") /\ todo = {}
  /\ handler' = [t \in Tunnels |-> IF t \in Busy THEN "done" ELSE handler[t]]
  /\ cancelled' = cancelled \cup {t \in Busy : phase[t] \in {"running", "failing"}}
  /\ Goto(Main, "done")
  /\ UNCHANGED <<phase, registry, worker, shutdown, todo, managed>>

\* The tunnel's task.
TunnelFails(t) == Fail(t) /\ UNCHANGED <<registry, handler, worker, caller, shutdown, todo, managed>>
TunnelEnds(t) == End(t) /\ UNCHANGED <<registry, handler, worker, caller, shutdown, todo, managed>>

HandlerStep(t) ==
  \/ StartTunnel(t) \/ Register(t) \/ ReportReady(t) \/ ServeShutdown(t) \/ HandlerEnds(t)
WorkerStep(t) == WorkerShutdown(t) \/ WorkerEnds(t)
CallerStep(k) == Arm(k) \/ Look(k) \/ Woken(k) \/ Expire(k) \/ Final(k)
MainStep ==
  \/ MarkAll \/ MainFails \/ AbortHandlers
  \/ \E t \in Tunnels : CancelRequest(Main, t)

Next ==
  \/ \E t \in Tunnels :
       \/ HandlerStep(t) \/ WorkerStep(t)
       \/ AcquireSlot(t) \/ AbandonStart(t) \/ ContextFails(t) \/ ControlStops(t)
       \/ Status(t) \/ WorkerDeadline(t) \/ TunnelFails(t) \/ TunnelEnds(t)
       \/ \E k \in Callers : CancelRequest(k, t)
  \/ \E k \in Callers \cup {Main} : CallerStep(k)
  \/ MainStep \/ Shutdown

Spec == Init /\ [][Next]_vars

\* Spawned tasks run, timers fire, a cancelled tunnel ends; nobody has to open,
\* to cancel or to shut down.
FairSpec ==
  /\ Spec
  /\ \A t \in Tunnels : WF_vars(HandlerStep(t)) /\ WF_vars(WorkerStep(t)) /\ WF_vars(TunnelEnds(t))
  /\ \A k \in Callers \cup {Main} : WF_vars(CallerStep(k))
  /\ WF_vars(MainStep)

-----------------------------------------------------------------------------
\* No tunnel runs on its own: as long as one that nobody has cancelled runs, the
\* handler of its control connection holds it, or its record is active and its
\* worker waits for it.
NoRunawayTunnel ==
  \A t \in Tunnels :
    phase[t] = "running" /\ t \notin cancelled =>
      \/ handler[t] \in {"started", "serving"}
      \/ records[t].stage = "Ready" /\ worker[t] = "wait"

\* Whoever cancels a tunnel is never told that it is Closed unless its task has
\* ended well, and never gets a stage that may still change; nor does a record
\* say Closed too early.
AnswersAreTrue ==
  /\ \A k \in Callers : At(k, "done") => caller[k].answer \notin Active
  /\ \A k \in Callers \cup {Main} :
       caller[k].answer = "Closed" => phase[caller[k].tunnel] = "ok"
  /\ \A t \in Tunnels : records[t].stage = "Closed" => phase[t] = "ok"

\* The caps on active and on finished records hold together with the slots.
CapsHold ==
  /\ Cardinality(Busy) <= Slots
  /\ Count(records, Active, Owners) <= ActiveGlobal
  /\ Count(records, Terminal, Owners) <= FinishedGlobal
  /\ \A o \in Owners :
       /\ Count(records, Active, {o}) <= ActivePerOwner
       /\ Count(records, Terminal, {o}) <= FinishedPerOwner

\* Every tunnel that runs is accounted for, within the caps of the registry.
TunnelsAreKept == NoRunawayTunnel /\ CapsHold

\* A record only moves forward: what is finished stays as it was until it is
\* forgotten, a stage never goes back, and the revision of a record with a
\* context rises with every change of stage.
Rank(stage) == CASE stage = "Ready" -> 1 [] stage = "Cancelling" -> 2 [] OTHER -> 3
RecordsMonotone ==
  [][\A t \in Tunnels :
       LET old == records[t]  new == records'[t]
       IN old.stage # "absent" /\ new.stage # "absent" =>
            /\ Rank(old.stage) <= Rank(new.stage)
            /\ old.stage \in Terminal => new = [old EXCEPT !.discovered = new.discovered]
            /\ old.stage # new.stage /\ t \in Contexts => new.revision > old.revision
            /\ old.discovered => new.discovered]_vars

\* A tunnel that is over does not stay active in the registry, and every
\* cancellation that was asked for is answered.
RecordsSettle ==
  /\ \A t \in Tunnels : (phase[t] \in Over) ~> (records[t].stage \notin Active)
  /\ \A k \in Callers : (~At(k, "idle")) ~> At(k, "done")

\* Records go forward, and as far as the tunnels and their callers need.
RecordsAdvance == RecordsMonotone /\ RecordsSettle

==============================================================================
