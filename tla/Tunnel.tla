-------------------------------- MODULE Tunnel --------------------------------
(***************************************************************************)
(* What a running SSH tunnel promises to whoever holds it (`RunningTunnel' *)
(* in serctl_core/src/ssh.rs): it ends once it is cancelled, it ends well  *)
(* only if somebody asked for the end, and a tunnel that fails cancels     *)
(* itself.  TunnelRuntime implements it; ManagedTunnels is built on it.    *)
(***************************************************************************)
CONSTANT Tunnels

VARIABLES
  phase,      \* of each tunnel's task
  cancelled   \* the tunnels whose cancellation token is set

tunnelVars == <<phase, cancelled>>

Phases == {"none", "refused", "running", "failing", "ok", "error"}
Over == {"ok", "error"}

TunnelInit ==
  /\ phase = [t \in Tunnels |-> "none"]
  /\ cancelled = {}

\* start_tunnel returns a handle, or an error.
Open(t) ==
  /\ phase[t] = "none"
  /\ phase' = [phase EXCEPT ![t] = "running"]
  /\ UNCHANGED cancelled

Refuse(t) ==
  /\ phase[t] = "none"
  /\ phase' = [phase EXCEPT ![t] = "refused"]
  /\ UNCHANGED cancelled

\* RunningTunnel::stop, its Drop, or a clone of its token.
Cancel(t) ==
  /\ phase[t] \in {"running", "failing"} \cup Over
  /\ cancelled' = cancelled \cup {t}
  /\ UNCHANGED phase

\* The session is lost, the listener fails, or the cleanup does.
Fail(t) ==
  /\ phase[t] = "running"
  /\ phase' = [phase EXCEPT ![t] = "failing"]
  /\ cancelled' = cancelled \cup {t}

\* The task has ended, or was aborted after TUNNEL_STOP_TIMEOUT.
End(t) ==
  /\ t \in cancelled
  /\ \/ /\ phase[t] = "running"
        /\ phase' = [phase EXCEPT ![t] = "ok"]
     \/ /\ phase[t] \in {"running", "failing"}
        /\ phase' = [phase EXCEPT ![t] = "error"]
  /\ UNCHANGED cancelled

TunnelNext ==
  \E t \in Tunnels : Open(t) \/ Refuse(t) \/ Cancel(t) \/ Fail(t) \/ End(t)

TunnelSpec ==
  /\ TunnelInit
  /\ [][TunnelNext]_tunnelVars
  /\ \A t \in Tunnels : WF_tunnelVars(End(t))

==============================================================================
