---------------------------- MODULE GrantDispatch -----------------------------
(***************************************************************************)
(* How the daemon serves requests on one unlocked profile                  *)
(* (crates/serctl_daemon/src/daemon.rs): unlock, grant issuance and        *)
(* expiry, the budget, the authoritative Intent and Outcome of every       *)
(* grant-bound request, quarantine, deadlines, shutdown and crashes.       *)
(*                                                                         *)
(* Every connection carries one root request.  The ledger is the chain of  *)
(* AuditChain; an append runs in a blocking worker that can outlive the    *)
(* request waiting for it.  The binding of a record is the request's       *)
(* operation kind.                                                         *)
(***************************************************************************)
EXTENDS AuditChain, FiniteSets

CONSTANTS Conns,        \* connections, one root request each
          Admin,        \* the offline `audit resolve` process
          Grants,       \* grant ids
          NoGrant,      \* a request authorised by the profile call proof
          Budget,       \* budget of every grant
          GrantLimit,   \* GRANT_REGISTRY_LIMIT
          MaxUnlocks,   \* bound: unlocks of the profile
          Genesis,      \* the first record of the generation
          Faults        \* subset of {"io", "deadline", "shutdown", "crash"}

ASSUME DispatchAssumption ==
    /\ NoGrant \notin Grants
    /\ Admin \notin Conns
    /\ Budget \in Nat \ {0}
    /\ GrantLimit \in Nat
    /\ MaxUnlocks \in Nat
    /\ Genesis \in Administrative
    /\ "Denied" \in Decisions
    /\ Faults \subseteq {"io", "deadline", "shutdown", "crash"}

VARIABLES broken,       \* "intact", or "torn": the log ends with a partial record
          worker,       \* the ledger append of each connection
          conn,         \* the request of each connection
          late,         \* connections whose authorization deadline has passed
          spent,        \* connections that claimed a budget unit
          effects,      \* connections whose operation reached the remote side
          reg,          \* GrantRegistry: where each grant is
          passed,       \* grants whose expiry has passed
          remaining,    \* GrantRecord.remaining
          bound,        \* GrantRecord.entry
          pool,         \* the entry in ProfilePool, 0 when locked
          unlocks,      \* entries created so far
          unlocking,    \* "idle", or "connecting" after the ledger was verified
          quarantined,  \* entries whose quarantine flag is set
          stopping      \* "up", or "stopping" once shutdown was signalled

ledger == <<chain, cert, broken>>
registry == <<reg, passed, remaining, bound>>
entries == <<pool, unlocks, unlocking>>
vars == <<ledger, worker, conn, late, spent, effects, registry, entries, quarantined, stopping>>

Entries == 1..MaxUnlocks

\* AuditEvent::validate accepts an operation kind of [a-z0-9._-] only.
Auditable(kind) ==
    kind \notin {"forward.local/open", "forward.remote/open", "forward.dynamic/open"}

AllowedWhileQuarantined(kind) ==
    kind \in {"daemon.status", "ssh.connection-identity", "sftp.list", "transfer.read", "transfer.status"}

Stages == {"new", "intent", "check", "spend", "exhaust", "dispatch", "outcome", "finalize", "final", "deny",
           "done", "dead"}

NoWork == [st |-> "none", ev |-> Genesis]

NoRequest == [pc |-> "new", id |-> GenesisId, kind |-> Genesis.binding, grant |-> NoGrant, entry |-> 0,
              audit |-> "PENDING", reply |-> "none"]

Init ==
    /\ chain = <<Genesis>> /\ cert = 1 /\ broken = "intact"
    /\ worker = [c \in Conns \cup {Admin} |-> NoWork]
    /\ conn = [c \in Conns |-> NoRequest]
    /\ late = {} /\ spent = {} /\ effects = {}
    /\ reg = [g \in Grants |-> "none"] /\ passed = {}
    /\ remaining = [g \in Grants |-> 0] /\ bound = [g \in Grants |-> 0]
    /\ pool = 0 /\ unlocks = 0 /\ unlocking = "idle"
    /\ quarantined = {} /\ stopping = "up"

-------------------------------------------------------------------------------
(* The ledger append of GrantAuditOperation::append, in a blocking worker.  *)
(* An abandoned worker ("orphan") still runs to its end.                    *)

Appending(w) == worker[w].st \in {"written", "writtenOrphan"}

LedgerWrite(w) ==
    /\ worker[w].st \in {"queued", "orphan"}
    /\ \A v \in DOMAIN worker : ~Appending(v)
    /\ broken = "intact"
    /\ Auditable(worker[w].ev.binding)
    /\ Extend(worker[w].ev)
    /\ worker' = [worker EXCEPT ![w].st = IF @ = "queued" THEN "written" ELSE "writtenOrphan"]
    /\ UNCHANGED <<broken, conn, late, spent, effects, registry, entries, quarantined, stopping>>

\* The append returns; nobody hears an orphan.
Returned(w, result) ==
    worker' = [worker EXCEPT ![w] = IF @.st \in {"orphan", "writtenOrphan"} THEN NoWork
                                    ELSE [@ EXCEPT !.st = result]]

LedgerCertify(w) ==
    /\ Appending(w)
    /\ Certify
    /\ Returned(w, "ok")
    /\ UNCHANGED <<broken, conn, late, spent, effects, registry, entries, quarantined, stopping>>

LedgerRefuse(w) ==
    /\ worker[w].st \in {"queued", "orphan"}
    /\ \A v \in DOMAIN worker : ~Appending(v)
    /\ \/ broken = "torn"
       \/ ~Auditable(worker[w].ev.binding)
       \/ ~Admissible(chain, worker[w].ev)
    /\ Returned(w, "err")
    /\ UNCHANGED <<ledger, conn, late, spent, effects, registry, entries, quarantined, stopping>>

\* An I/O error before, in or after the write: the record may stay uncertified,
\* and a checkpoint whose directory could not be synced certifies it all the same.
LedgerFail(w) ==
    /\ "io" \in Faults
    /\ \/ /\ worker[w].st \in {"queued", "orphan"} /\ \A v \in DOMAIN worker : ~Appending(v)
          /\ broken' \in {broken, "torn"} /\ UNCHANGED cert
       \/ Appending(w) /\ cert' \in {cert, Len(chain)} /\ UNCHANGED broken
    /\ Returned(w, "err")
    /\ UNCHANGED <<chain, conn, late, spent, effects, registry, entries, quarantined, stopping>>

\* The request stops waiting for a worker that is still running.
Detach(c) ==
    /\ worker[c].st \in {"queued", "written"}
    /\ worker' = [worker EXCEPT ![c].st = IF @ = "queued" THEN "orphan" ELSE "writtenOrphan"]

\* abort() after the deadline: a worker that has not started never runs.
Abort(c) ==
    /\ c \in late
    /\ \/ Detach(c)
       \/ worker[c].st = "queued" /\ worker' = [worker EXCEPT ![c] = NoWork]

\* Persistence is refused once the deadline has passed.
Submit(c, event) ==
    worker' = [worker EXCEPT ![c] = [st |-> IF c \in late THEN "err" ELSE "queued", ev |-> event]]

-------------------------------------------------------------------------------
(* Unlock, issue, expire.                                                   *)

Leased ==
    \/ pool # 0 \/ unlocking # "idle"
    \/ \E g \in Grants : reg[g] = "live"
    \/ \E c \in Conns : conn[c].pc \notin {"new", "done", "dead"}

\* Mutant: the chain is verified, but not that every Intent is closed.
UnlockVerifyPending ==
    /\ unlocking = "idle" /\ stopping = "up"
    /\ unlocks < MaxUnlocks
    /\ worker[Admin].st = "none"
    /\ \A w \in DOMAIN worker : ~Appending(w)
    /\ broken = "intact" /\ cert = Len(chain)
    /\ unlocking' = "connecting"
    /\ UNCHANGED <<ledger, worker, conn, late, spent, effects, registry, pool, unlocks, quarantined, stopping>>

\* unlock_profile up to the verified ledger (verify_complete).
UnlockVerify ==
    /\ unlocking = "idle" /\ stopping = "up"
    /\ unlocks < MaxUnlocks
    /\ worker[Admin].st = "none"
    /\ \A w \in DOMAIN worker : ~Appending(w)
    /\ broken = "intact" /\ PendingIntents(chain) = {} /\ cert = Len(chain)
    /\ unlocking' = "connecting"
    /\ UNCHANGED <<ledger, worker, conn, late, spent, effects, registry, pool, unlocks, quarantined, stopping>>

\* connect_unlocked_session succeeded: the new entry replaces the old one.
UnlockPublish ==
    /\ unlocking = "connecting"
    /\ unlocks' = unlocks + 1
    /\ pool' = unlocks + 1
    /\ unlocking' = "idle"
    /\ UNCHANGED <<ledger, worker, conn, late, spent, effects, registry, quarantined, stopping>>

UnlockFail ==
    /\ unlocking = "connecting"
    /\ unlocking' = "idle"
    /\ UNCHANGED <<ledger, worker, conn, late, spent, effects, registry, pool, unlocks, quarantined, stopping>>

\* The credential lease of the pooled entry ends.
PoolExpire ==
    /\ "deadline" \in Faults
    /\ pool # 0
    /\ pool' = 0
    /\ late' = late \cup {c \in Conns : conn[c].grant = NoGrant /\ conn[c].entry = pool}
    /\ UNCHANGED <<ledger, worker, conn, spent, effects, registry, unlocks, unlocking, quarantined, stopping>>

\* GrantRegistry::prune_locked
Pruned == [g \in Grants |-> IF reg[g] = "live" /\ g \in passed THEN "Expired" ELSE reg[g]]

\* issue_grant and GrantRegistry::insert
IssueGrant(g) ==
    /\ stopping = "up"
    /\ pool # 0
    /\ reg[g] = "none"
    /\ Cardinality({h \in Grants : Pruned[h] \in {"live", "Exhausted", "Expired"}}) < GrantLimit
    /\ reg' = [Pruned EXCEPT ![g] = "live"]
    /\ remaining' = [remaining EXCEPT ![g] = Budget]
    /\ bound' = [bound EXCEPT ![g] = pool]
    /\ UNCHANGED <<ledger, worker, conn, late, spent, effects, passed, entries, quarantined, stopping>>

\* Time reaches the expiry of a grant.
GrantExpires(g) ==
    /\ "deadline" \in Faults
    /\ reg[g] \in {"live", "Exhausted"} /\ g \notin passed
    /\ passed' = passed \cup {g}
    /\ late' = late \cup {c \in Conns : conn[c].grant = g}
    /\ UNCHANGED <<ledger, worker, conn, spent, effects, reg, remaining, bound, entries, quarantined, stopping>>

\* The periodic sweep; a tombstone is forgotten after its time to live.
PruneExpired ==
    /\ \E old \in SUBSET {g \in passed : Pruned[g] \in {"Exhausted", "Expired"}} :
         reg' = [g \in Grants |-> IF g \in old THEN "forgotten" ELSE Pruned[g]]
    /\ reg' # reg
    /\ UNCHANGED <<ledger, worker, conn, late, spent, effects, passed, remaining, bound, entries, quarantined,
                   stopping>>

\* GrantRegistry::mark_terminal_if_same
Terminated(g, kind) == [Pruned EXCEPT ![g] = IF @ = "live" THEN kind ELSE @]

-------------------------------------------------------------------------------
(* One request, handle_global_conn.                                         *)

Goto(c, stage) == conn' = [conn EXCEPT ![c].pc = stage]

Finish(c, reply) == conn' = [conn EXCEPT ![c].pc = "done", ![c].reply = reply]

Quarantine(c) == quarantined' = quarantined \cup {conn[c].entry}

\* A request with a valid profile call proof.
AcceptDirect(c, id, kind) ==
    /\ conn[c].pc = "new" /\ stopping = "up"
    /\ pool # 0
    /\ conn' = [conn EXCEPT ![c] = [NoRequest EXCEPT !.pc = "check", !.id = id, !.kind = kind, !.entry = pool]]
    /\ UNCHANGED <<ledger, worker, late, spent, effects, registry, entries, quarantined, stopping>>

\* Lookup, validate_request and the deadline passed: the Intent is appended.
AcceptGrant(c, id, kind, g) ==
    /\ conn[c].pc = "new" /\ stopping = "up"
    /\ reg' = Pruned
    /\ reg'[g] = "live"
    /\ conn' = [conn EXCEPT ![c] = [NoRequest EXCEPT !.pc = "intent", !.id = id, !.kind = kind, !.grant = g,
                                                     !.entry = bound[g]]]
    /\ Submit(c, IntentOf(id, kind))
    /\ UNCHANGED <<ledger, late, spent, effects, passed, remaining, bound, entries, quarantined, stopping>>

\* The grant is terminal or unknown, or the request does not fit it.
RejectGrant(c) ==
    /\ conn[c].pc = "new" /\ stopping = "up"
    /\ reg' = Pruned
    /\ Finish(c, "error")
    /\ UNCHANGED <<ledger, worker, late, spent, effects, passed, remaining, bound, entries, quarantined, stopping>>

DeadlinePasses(c) ==
    /\ "deadline" \in Faults
    /\ conn[c].pc \notin {"new", "done", "dead"} /\ c \notin late
    /\ late' = late \cup {c}
    /\ UNCHANGED <<ledger, worker, conn, spent, effects, registry, entries, quarantined, stopping>>

IntentPersisted(c) ==
    /\ conn[c].pc = "intent" /\ worker[c].st = "ok"
    /\ Goto(c, "check")
    /\ worker' = [worker EXCEPT ![c] = NoWork]
    /\ UNCHANGED <<ledger, late, spent, effects, registry, entries, quarantined, stopping>>

\* Mutant: a request whose Intent failed is served all the same.
IntentFailedOpen(c) ==
    /\ conn[c].pc = "intent"
    /\ \/ worker[c].st = "err" /\ worker' = [worker EXCEPT ![c] = NoWork]
       \/ Abort(c)
    /\ Goto(c, "check")
    /\ UNCHANGED <<ledger, late, spent, effects, registry, entries, quarantined, stopping>>

IntentFailed(c) ==
    /\ conn[c].pc = "intent"
    /\ \/ worker[c].st = "err" /\ worker' = [worker EXCEPT ![c] = NoWork]
       \/ Abort(c)
    /\ Quarantine(c)
    /\ Finish(c, "error")
    /\ UNCHANGED <<ledger, late, spent, effects, registry, entries, stopping>>

\* record_outcome from AUDIT_STATE_PENDING.
BeginOutcome(c, decision, stage) ==
    /\ conn[c].audit = "PENDING"
    /\ conn' = [conn EXCEPT ![c].audit = "FINALIZING", ![c].pc = stage]
    /\ Submit(c, OutcomeOf(conn[c].id, conn[c].kind, decision))

\* The quarantine gate.
CheckQuarantine(c) ==
    /\ conn[c].pc = "check"
    /\ IF conn[c].entry \in quarantined /\ ~AllowedWhileQuarantined(conn[c].kind)
       THEN IF conn[c].grant = NoGrant
            THEN Finish(c, "Denied") /\ UNCHANGED worker
            ELSE BeginOutcome(c, "Denied", "deny")
       ELSE Goto(c, IF conn[c].grant = NoGrant THEN "dispatch" ELSE "spend") /\ UNCHANGED worker
    /\ UNCHANGED <<ledger, late, spent, effects, registry, entries, quarantined, stopping>>

\* Mutant: the budget is read, and written back in a later step.
SpendBudgetNotAtomic(c) ==
    /\ conn[c].pc = "spend"
    /\ remaining[conn[c].grant] > 0
    /\ spent' = spent \cup {c}
    /\ remaining' = [remaining EXCEPT ![conn[c].grant] =
                       IF \E d \in Conns \ {c} : conn[d].pc = "spend" THEN @ ELSE @ - 1]
    /\ Goto(c, IF remaining'[conn[c].grant] = 0 THEN "exhaust" ELSE "dispatch")
    /\ UNCHANGED <<ledger, worker, late, effects, reg, passed, bound, entries, quarantined, stopping>>

\* spend_budget: one compare_exchange.
SpendBudget(c) ==
    /\ conn[c].pc = "spend"
    /\ remaining[conn[c].grant] > 0
    /\ spent' = spent \cup {c}
    /\ remaining' = [remaining EXCEPT ![conn[c].grant] = @ - 1]
    /\ Goto(c, IF remaining'[conn[c].grant] = 0 THEN "exhaust" ELSE "dispatch")
    /\ UNCHANGED <<ledger, worker, late, effects, reg, passed, bound, entries, quarantined, stopping>>

\* The last unit was claimed: the registry drops its record.
Exhaust(c) ==
    /\ conn[c].pc = "exhaust"
    /\ reg' = Terminated(conn[c].grant, "Exhausted")
    /\ Goto(c, "dispatch")
    /\ UNCHANGED <<ledger, worker, late, spent, effects, passed, remaining, bound, entries, quarantined, stopping>>

SpendFails(c) ==
    /\ conn[c].pc = "spend"
    /\ remaining[conn[c].grant] = 0
    /\ reg' = Terminated(conn[c].grant, "Exhausted")
    /\ BeginOutcome(c, "Denied", "deny")
    /\ UNCHANGED <<ledger, late, spent, effects, passed, remaining, bound, entries, quarantined, stopping>>

\* dispatch_root_request: the operation reaches the remote side.
Effect(c) ==
    /\ conn[c].pc = "dispatch"
    /\ effects' = effects \cup {c}
    /\ UNCHANGED <<ledger, worker, conn, late, spent, registry, entries, quarantined, stopping>>

\* Mutant: the terminal frame is released before the Outcome is persisted.
TerminalFrameEarly(c, decision) ==
    /\ conn[c].pc = "dispatch"
    /\ decision = "Succeeded" => c \in effects
    /\ conn' = [conn EXCEPT ![c].audit = "FINALIZING", ![c].pc = "outcome", ![c].reply = decision]
    /\ Submit(c, OutcomeOf(conn[c].id, conn[c].kind, decision))
    /\ UNCHANGED <<ledger, late, spent, effects, registry, entries, quarantined, stopping>>

\* The handler writes its terminal frame: write_frame_until first persists the
\* Outcome of a grant-bound request.
TerminalFrame(c, decision) ==
    /\ conn[c].pc = "dispatch"
    /\ decision = "Succeeded" => c \in effects
    /\ IF conn[c].grant = NoGrant
       THEN Finish(c, decision) /\ UNCHANGED worker
       ELSE BeginOutcome(c, decision, "outcome")
    /\ UNCHANGED <<ledger, late, spent, effects, registry, entries, quarantined, stopping>>

\* Dispatch ends without a terminal frame: the client is gone, the deadline or
\* the shutdown dropped it.
DispatchEnds(c) ==
    /\ conn[c].pc = "dispatch"
    /\ Goto(c, IF conn[c].grant = NoGrant THEN "done" ELSE "finalize")
    /\ UNCHANGED <<ledger, worker, late, spent, effects, registry, entries, quarantined, stopping>>

\* The Outcome is durable; its frame may still fail to reach the client.
OutcomePersisted(c) ==
    /\ conn[c].pc \in {"outcome", "final", "deny"} /\ worker[c].st = "ok"
    /\ worker' = [worker EXCEPT ![c] = NoWork]
    /\ \E reply \in IF conn[c].pc = "final" THEN {"none"} ELSE {"none", worker[c].ev.decision} :
         conn' = [conn EXCEPT ![c].audit = "COMPLETE",
                              ![c].pc = IF @ = "outcome" THEN "finalize" ELSE "done",
                              ![c].reply = reply]
    /\ UNCHANGED <<ledger, late, spent, effects, registry, entries, quarantined, stopping>>

\* The Outcome failed: quarantine, and an "outcome is unknown" frame instead.
OutcomeFailed(c) ==
    /\ conn[c].pc \in {"outcome", "final", "deny"}
    /\ \/ worker[c].st = "err" /\ worker' = [worker EXCEPT ![c] = NoWork]
       \/ Abort(c)
    /\ Quarantine(c)
    /\ conn' = [conn EXCEPT ![c].audit = "FAILED",
                            ![c].pc = IF @ = "outcome" THEN "finalize" ELSE "done",
                            ![c].reply = IF conn[c].pc = "final" THEN "none" ELSE "error"]
    /\ UNCHANGED <<ledger, late, spent, effects, registry, entries, stopping>>

\* The authorization deadline or a shutdown drops the write in progress.
OutcomeInterrupted(c) ==
    /\ conn[c].pc = "outcome"
    /\ c \in late \/ stopping = "stopping"
    /\ Detach(c)
    /\ Goto(c, "finalize")
    /\ UNCHANGED <<ledger, late, spent, effects, registry, entries, quarantined, stopping>>

\* Mutant: an interrupted Outcome counts as finished.
FinalizeIgnoresInterrupted(c) ==
    /\ conn[c].pc = "finalize"
    /\ IF conn[c].audit = "PENDING"
       THEN BeginOutcome(c, "Unknown", "final") /\ UNCHANGED quarantined
       ELSE Goto(c, "done") /\ UNCHANGED <<quarantined, worker>>
    /\ UNCHANGED <<ledger, late, spent, effects, registry, entries, stopping>>

\* finalize_unknown_if_pending
Finalize(c) ==
    /\ conn[c].pc = "finalize"
    /\ CASE conn[c].audit = "PENDING" ->
              BeginOutcome(c, "Unknown", "final") /\ UNCHANGED quarantined
         [] conn[c].audit = "FINALIZING" ->
              /\ conn' = [conn EXCEPT ![c].audit = "FAILED", ![c].pc = "done"]
              /\ Quarantine(c)
              /\ UNCHANGED worker
         [] OTHER ->
              Goto(c, "done") /\ UNCHANGED <<quarantined, worker>>
    /\ UNCHANGED <<ledger, late, spent, effects, registry, entries, stopping>>

-------------------------------------------------------------------------------
(* Shutdown, crash, and the offline resolution of pending Intents.          *)

Shutdown ==
    /\ "shutdown" \in Faults
    /\ stopping = "up"
    /\ stopping' = "stopping"
    /\ UNCHANGED <<ledger, worker, conn, late, spent, effects, registry, entries, quarantined>>

\* The daemon dies and is started again: grants, entries and quarantine flags
\* die with it.  A worker that was writing may leave a partial record.
Crash ==
    /\ \/ "crash" \in Faults /\ (Leased \/ \E c \in Conns : worker[c].st # "none")
       \/ stopping = "stopping"
    /\ conn' = [c \in Conns |-> IF conn[c].pc \in {"new", "done"} THEN conn[c] ELSE [conn[c] EXCEPT !.pc = "dead"]]
    /\ worker' = [w \in DOMAIN worker |-> IF w = Admin THEN worker[w] ELSE NoWork]
    /\ \/ UNCHANGED broken
       \/ /\ \A w \in DOMAIN worker : ~Appending(w)
          /\ \E c \in Conns : worker[c].st \in {"queued", "orphan"}
          /\ broken' = "torn"
    /\ reg' = [g \in Grants |-> IF reg[g] = "none" THEN "none" ELSE "forgotten"]
    /\ pool' = 0 /\ unlocking' = "idle" /\ stopping' = "up"
    /\ UNCHANGED <<chain, cert, late, spent, effects, passed, remaining, bound, unlocks, quarantined>>

\* resolve_pending_as_unknown for one pending Intent, under the exclusive
\* profile lease.
ResolveBegin(id) ==
    /\ ~Leased
    /\ worker[Admin].st = "none"
    /\ \A w \in DOMAIN worker : ~Appending(w)
    /\ broken = "intact" /\ cert = Len(chain)
    /\ id \in PendingIntents(chain)
    /\ \E i \in 1..Len(chain) :
         /\ chain[i].phase = "Intent" /\ chain[i].id = id
         /\ worker' = [worker EXCEPT ![Admin] = [st |-> "queued", ev |-> OutcomeOf(id, chain[i].binding, "Unknown")]]
    /\ UNCHANGED <<ledger, conn, late, spent, effects, registry, entries, quarantined, stopping>>

ResolveEnd ==
    /\ worker[Admin].st \in {"ok", "err"}
    /\ worker' = [worker EXCEPT ![Admin] = NoWork]
    /\ UNCHANGED <<ledger, conn, late, spent, effects, registry, entries, quarantined, stopping>>

-------------------------------------------------------------------------------
LedgerStep(w) == LedgerWrite(w) \/ LedgerCertify(w) \/ LedgerRefuse(w)

\* What the daemon does for a request once it is accepted.
Serve(c) ==
    \/ IntentPersisted(c) \/ IntentFailed(c) \/ CheckQuarantine(c)
    \/ SpendBudget(c) \/ Exhaust(c) \/ SpendFails(c)
    \/ (\E d \in Decisions \ {"Denied", "Allowed"} : TerminalFrame(c, d)) \/ DispatchEnds(c)
    \/ OutcomePersisted(c) \/ OutcomeFailed(c) \/ OutcomeInterrupted(c) \/ Finalize(c)

Environment ==
    \/ \E w \in Conns \cup {Admin} : LedgerFail(w)
    \/ UnlockVerify \/ UnlockPublish \/ UnlockFail \/ PoolExpire \/ PruneExpired
    \/ \E g \in Grants : IssueGrant(g) \/ GrantExpires(g)
    \/ \E c \in Conns :
         \/ \E id \in RequestIds, kind \in Bindings :
              AcceptDirect(c, id, kind) \/ \E g \in Grants : AcceptGrant(c, id, kind, g)
         \/ RejectGrant(c) \/ DeadlinePasses(c) \/ Effect(c)
    \/ Shutdown \/ Crash
    \/ (\E id \in RequestIds : ResolveBegin(id)) \/ ResolveEnd

Next ==
    \/ \E w \in Conns \cup {Admin} : LedgerStep(w)
    \/ \E c \in Conns : Serve(c)
    \/ Environment

Spec == Init /\ [][Next]_vars

\* The runtime polls every ready task and runs every blocking worker.
Fairness ==
    /\ \A w \in Conns \cup {Admin} : SF_vars(LedgerStep(w))
    /\ \A c \in Conns : WF_vars(Serve(c))

FairSpec == Spec /\ Fairness

-------------------------------------------------------------------------------
Works == [st : {"none", "queued", "written", "ok", "err", "orphan", "writtenOrphan"}, ev : Events]

Requests == [pc : Stages, id : RequestIds \cup {GenesisId}, kind : Bindings, grant : Grants \cup {NoGrant},
             entry : Entries \cup {0}, audit : {"PENDING", "FINALIZING", "COMPLETE", "FAILED"},
             reply : Decisions \cup {"none", "error", "Denied"}]

TypeOK ==
    /\ chain \in Seq(Events) /\ cert \in 0..Len(chain) /\ broken \in {"intact", "torn"}
    /\ worker \in [Conns \cup {Admin} -> Works]
    /\ conn \in [Conns -> Requests]
    /\ late \subseteq Conns /\ spent \subseteq Conns /\ effects \subseteq Conns
    /\ reg \in [Grants -> {"none", "live", "Exhausted", "Expired", "forgotten"}]
    /\ passed \subseteq Grants
    /\ remaining \in [Grants -> 0..Budget] /\ bound \in [Grants -> Entries \cup {0}]
    /\ pool \in Entries \cup {0} /\ unlocks \in 0..MaxUnlocks /\ unlocking \in {"idle", "connecting"}
    /\ quarantined \subseteq Entries /\ stopping \in {"up", "stopping"}

Certified(e) == \E i \in 1..cert : chain[i] = e

Granted(c) == conn[c].grant # NoGrant

\* No interleaving of concurrent requests carries out more operations under a
\* grant than its budget (spend_budget).
BudgetRespected ==
    \A g \in Grants : Cardinality({c \in effects : conn[c].grant = g}) <= Budget

\* A grant-bound operation reaches the remote side only after its own Intent is
\* certified in the ledger, where it stays through crashes; and a request id is
\* carried out at most once in the life of the generation, by any grant, across
\* reconnects and daemon restarts: its second Intent is refused.
EffectsAudited ==
    /\ \A c \in effects : Granted(c) => Certified(IntentOf(conn[c].id, conn[c].kind))
    /\ \A c, d \in effects : Granted(c) /\ Granted(d) /\ conn[c].id = conn[d].id => c = d

\* The client sees a terminal decision on a grant-bound request only when the
\* ledger certifies that very Outcome (write_frame_until); and a request that has
\* ended without closing its Intent leaves its entry quarantined, whichever of the
\* timeout, the interruption or the error ended it.
EndsAudited ==
    \A c \in Conns : Granted(c) =>
        /\ conn[c].reply \in Decisions \cup {"Denied"} =>
              Certified(OutcomeOf(conn[c].id, conn[c].kind, conn[c].reply))
        /\ conn[c].pc = "done" /\ conn[c].id \in PendingIntents(chain) =>
              conn[c].entry \in quarantined

\* An operation that reached the remote side and lost its daemon before its
\* Outcome was written stays in doubt, and while it does nobody uses the profile:
\* no unlock, no live grant and no request in progress until the offline
\* resolution has closed its Intent (unlock_profile's verify_complete).
InDoubtStaysLocked ==
    \A c \in effects : Granted(c) /\ conn[c].pc = "dead" /\ conn[c].id \in PendingIntents(chain) => ~Leased

\* An Intent does not stay open behind an entry that still serves mutations: it is
\* closed, or its entry is quarantined.
IntentsClose ==
    \A c \in Conns :
        (conn[c].pc = "check" /\ Granted(c)) ~>
            (conn[c].id \notin PendingIntents(chain) \/ conn[c].entry \in quarantined \/ conn[c].pc = "dead")

===============================================================================
