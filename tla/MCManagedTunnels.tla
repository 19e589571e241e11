--------------------------- MODULE MCManagedTunnels ---------------------------
EXTENDS ManagedTunnels, TLC

MCOwner == (1 :> "a") @@ (2 :> "a")

==============================================================================
