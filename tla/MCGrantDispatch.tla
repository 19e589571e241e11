--------------------------- MODULE MCGrantDispatch ----------------------------
(***************************************************************************)
(* Two connections, two request ids and two unlocks.  Deadlines and        *)
(* shutdowns happen only in behaviours that stay with one request id and   *)
(* one unlock, and not both in one behaviour; crashes and I/O errors       *)
(* happen in all of them.                                                  *)
(***************************************************************************)
EXTENDS GrantDispatch

CONSTANTS c1, c2, g1, r1, r2

MCGenesis == [phase |-> "Administrative", id |-> GenesisId, binding |-> "ssh.exec", decision |-> "Allowed"]

Hurried == late # {} \/ passed # {} \/ stopping = "stopping"

Chosen ==
    /\ Hurried => unlocks <= 1 /\ \A c \in Conns : conn[c].id # r2
    /\ stopping = "stopping" => late = {} /\ passed = {}

\* Every choice is the environment's: none keeps a request or a worker from its
\* next step.
MCNext == Next /\ Chosen'

MCSpec == Init /\ [][MCNext]_vars /\ Fairness

===============================================================================
