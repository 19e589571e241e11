----------------------------- MODULE AuditRecords -----------------------------
(***************************************************************************)
(* The records of a profile generation's audit chain and what makes a      *)
(* chain well formed (crates/serctl_core/src/audit.rs).                    *)
(*                                                                         *)
(* Hashes, MACs, timestamps and digests are abstracted: the head hash of a *)
(* chain is the chain itself, and the operation kind, policy digest and    *)
(* intent digest that bind an Outcome to its Intent are one `binding`.     *)
(***************************************************************************)
EXTENDS Naturals, Sequences

CONSTANTS RequestIds,   \* 16-byte request ids of audited operations
          Bindings,     \* (operation kind, policy digest, intent digest)
          GenesisId,    \* the id an administrative record carries
          Decisions     \* the terminal decisions an Outcome may carry

ASSUME RecordsAssumption ==
    /\ GenesisId \notin RequestIds
    /\ Decisions \subseteq {"Allowed", "Denied", "Succeeded", "Failed", "Unknown"}
    /\ "Unknown" \in Decisions

\* AuditEvent::validate: an Intent is pending, every other record is terminal.
Intents == [phase : {"Intent"}, id : RequestIds, binding : Bindings, decision : {"Pending"}]

Outcomes == [phase : {"Outcome"}, id : RequestIds, binding : Bindings, decision : Decisions]

Administrative == [phase : {"Administrative"}, id : {GenesisId}, binding : Bindings, decision : {"Allowed"}]

Events == Intents \cup Outcomes \cup Administrative

IntentOf(id, b) == [phase |-> "Intent", id |-> id, binding |-> b, decision |-> "Pending"]

OutcomeOf(id, b, d) == [phase |-> "Outcome", id |-> id, binding |-> b, decision |-> d]

-------------------------------------------------------------------------------
\* VerifiedLog.seen_intents
SeenIntents(l) == {l[i].id : i \in {j \in 1..Len(l) : l[j].phase = "Intent"}}

ClosedIntents(l) == {l[i].id : i \in {j \in 1..Len(l) : l[j].phase = "Outcome"}}

\* VerifiedLog.pending_intents
PendingIntents(l) == SeenIntents(l) \ ClosedIntents(l)

\* PendingIntentBinding::ensure_matches_outcome
BindingMatches(l, e) ==
    \E i \in 1..Len(l) : l[i].phase = "Intent" /\ l[i].id = e.id /\ l[i].binding = e.binding

\* What verify_log accepts: an Intent id is used once, and an Outcome closes an
\* Intent that is still pending and that carries its binding.
WellFormed(l) ==
    \A j \in 1..Len(l) :
        /\ l[j].phase = "Intent" =>
             \A i \in 1..(j - 1) : ~(l[i].phase = "Intent" /\ l[i].id = l[j].id)
        /\ l[j].phase = "Outcome" =>
             /\ \E i \in 1..(j - 1) :
                  l[i].phase = "Intent" /\ l[i].id = l[j].id /\ l[i].binding = l[j].binding
             /\ \A i \in 1..(j - 1) : ~(l[i].phase = "Outcome" /\ l[i].id = l[j].id)

\* The phase check of append_locked_with_checkpoint_mode.
Admissible(l, e) ==
    /\ e.phase = "Intent" => e.id \notin SeenIntents(l)
    /\ e.phase = "Outcome" => e.id \in PendingIntents(l) /\ BindingMatches(l, e)

\* The checkpoint's (sequence, hash) occurs in the log at its sequence.
OnChain(c, l) == Len(c) <= Len(l) /\ \A i \in 1..Len(c) : c[i] = l[i]

===============================================================================
