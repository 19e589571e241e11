-------------------------- MODULE MCTransferServing --------------------------
(***************************************************************************)
(* Two requests, chosen so that every case happens without the product of  *)
(* all of them: either they compete for one id, with contexts disclosed or *)
(* requests cancelled at any moment, or they are of the kinds that can     *)
(* leave their record behind, on one id or on two.                         *)
(***************************************************************************)
EXTENDS TransferServing, TLC

CONSTANTS s1, s2, i1, i2, o1

Disclosing ==
  \/ \E s \in Servers : shown[s] > 0
  \/ \E i \in Ids : records[i] # Nothing /\ records[i].discovered = "yes"

Cancelling == \E s \in Servers : server[s].cancelled = "yes"

Competing ==
  /\ \A s \in Servers :
       /\ server[s].id = i1
       /\ server[s].kind \in {"native_push", "sftp_pull"}
       /\ ~At(s, "left")
  /\ Disclosing => ~Cancelling

Leaving ==
  /\ \A s \in Servers : server[s].kind \in {"sftp_push", "native_pull"}
  /\ server[s1].id = i1
  /\ ~Cancelling /\ ~Disclosing

Chosen == Competing \/ Leaving

MCInit == Init /\ Chosen

\* Every choice is the environment's: none keeps a handler from its next step.
MCNext == Next /\ Chosen' /\ vars' # vars

MCSpec == MCInit /\ [][MCNext]_vars /\ Fairness
=============================================================================
