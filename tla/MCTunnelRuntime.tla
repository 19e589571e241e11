--------------------------- MODULE MCTunnelRuntime ---------------------------
EXTENDS TunnelRuntime, TLC

MCRequests ==
  (1 :> {[mode |-> "remote", bind |-> 0]}) @@
  (2 :> {[mode |-> "remote", bind |-> 8001], [mode |-> "dynamic", bind |-> 0]})

==============================================================================
