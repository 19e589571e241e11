---------------------------- MODULE MCAuditLedger -----------------------------
(* Small instances of AuditLedger for TLC. *)
EXTENDS AuditLedger, TLC

CONSTANTS w1, w2, r1, r2, b1, b2

MCGenesis == [phase |-> "Administrative", id |-> GenesisId, binding |-> b1, decision |-> "Allowed"]

Symmetry == Permutations({w1, w2}) \cup Permutations({r1, r2})

===============================================================================
