------------------------------ MODULE AuditChain ------------------------------
(***************************************************************************)
(* What the authenticated audit ledger promises to its callers             *)
(* (crates/serctl_core/src/audit.rs).  A profile generation owns one chain *)
(* of records.  A record is admitted only if it keeps the chain well       *)
(* formed, and a record that the checkpoint certifies is never lost.       *)
(***************************************************************************)
EXTENDS AuditRecords

VARIABLES chain,   \* the records a reader of the log sees
          cert     \* how many leading records a durable checkpoint certifies

chainVars == <<chain, cert>>

ChainInit ==
    /\ cert = Len(chain)
    /\ chain \in {<<>>} \cup {<<g>> : g \in Administrative}

Extend(e) ==
    /\ Admissible(chain, e)
    /\ chain' = Append(chain, e)
    /\ UNCHANGED cert

Certify ==
    /\ cert' = Len(chain)
    /\ UNCHANGED chain

\* A crash may drop records whose append never returned, and may leave a
\* checkpoint that certifies some of them.
LoseUncertified ==
    \E k \in cert..Len(chain) :
        /\ chain' = SubSeq(chain, 1, k)
        /\ cert' \in cert..k

ChainNext == (\E e \in Events : Extend(e)) \/ Certify \/ LoseUncertified

ChainSpec == ChainInit /\ [][ChainNext]_chainVars

===============================================================================
