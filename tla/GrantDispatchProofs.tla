------------------------- MODULE GrantDispatchProofs --------------------------
(***************************************************************************)
(* Proofs about grant dispatch, for every set of connections, grants,      *)
(* request ids and operation kinds, every budget and every set of faults.  *)
(***************************************************************************)
EXTENDS GrantDispatch, FiniteSetTheorems, TLAPS

\* SMT first, Z3 by its own name next, then Zenon, for every leaf that names no prover.
USE SMTT(60), Z3T(60), ZenonT(60)

(* The inductive invariant.                                                 *)

Written(e) == \E i \in 1..Len(chain) : chain[i] = e

Before == {"new", "intent", "check", "spend"}

\* The stages between a certified Intent and the end of the request.
Served == {"check", "spend", "exhaust", "dispatch", "outcome", "finalize", "final", "deny"}

\* What a blocking worker reports is true of the log.
WorkersTrue ==
    \A w \in Conns \cup {Admin} :
        /\ Appending(w) => Written(worker[w].ev)
        /\ worker[w].st = "ok" => Certified(worker[w].ev)

\* Where the entry of a grant or of a request comes from.
EntriesKnown ==
    /\ unlocking = "connecting" => unlocks < MaxUnlocks
    /\ \A g \in Grants : reg[g] = "live" => bound[g] \in Entries

\* The fields of a request that its stage determines.
RequestShape(c) ==
    /\ conn[c].pc = "new" => ~Granted(c)
    /\ conn[c].pc \in {"intent", "spend", "exhaust", "outcome", "finalize", "final", "deny"} => Granted(c)
    /\ Granted(c) => conn[c].id \in RequestIds /\ conn[c].entry \in Entries /\ reg[conn[c].grant] # "none"
    /\ conn[c].pc = "intent" => worker[c].ev = IntentOf(conn[c].id, conn[c].kind)
    /\ conn[c].pc \in {"outcome", "final", "deny"} =>
         worker[c].ev = OutcomeOf(conn[c].id, conn[c].kind, worker[c].ev.decision)
    /\ conn[c].pc \in {"intent", "outcome", "final", "deny"} => worker[c].st \notin {"orphan", "writtenOrphan"}

\* What the certified prefix l[1..n] and the quarantine flags q hold of request r;
\* carried says whether its operation reached the remote side.
AuditedBy(r, carried, l, n, q) ==
    r.grant # NoGrant =>
        /\ r.pc \in Served \/ carried => \E i \in 1..n : l[i] = IntentOf(r.id, r.kind)
        /\ r.reply \in Decisions \cup {"Denied"} => \E i \in 1..n : l[i] = OutcomeOf(r.id, r.kind, r.reply)
        /\ r.audit = "COMPLETE" => r.id \in ClosedIntents(l)
        /\ r.audit = "FAILED" => r.entry \in q
        /\ r.pc = "done" => r.id \in ClosedIntents(l) \/ r.entry \in q

RequestAudited(c) == AuditedBy(conn[c], c \in effects, chain, cert, quarantined)

\* The request whose append put the Intent of its id into the log.
Owns(c) ==
    /\ Granted(c)
    /\ \/ conn[c].pc = "intent" /\ worker[c].st \in {"written", "ok"}
       \/ conn[c].pc \in Served
       \/ c \in effects

\* No two requests own the Intent of one id.
OneOwner == \A c, d \in Conns : Owns(c) /\ Owns(d) /\ conn[c].id = conn[d].id => c = d

\* A request claims its unit of the budget before its operation is dispatched.
ClaimsFirst(c) ==
    /\ conn[c].pc \in Before => c \notin spent /\ c \notin effects
    /\ Granted(c) /\ (conn[c].pc \in {"exhaust", "dispatch"} \/ c \in effects) => c \in spent

DispatchInv ==
    /\ TypeOK
    /\ WorkersTrue
    /\ EntriesKnown
    /\ \A c \in Conns : RequestShape(c) /\ RequestAudited(c) /\ ClaimsFirst(c)
    /\ OneOwner

-------------------------------------------------------------------------------
(* Types.                                                                   *)

LEMMA IntentTyped ==
  ASSUME NEW id \in RequestIds, NEW kind \in Bindings
  PROVE  IntentOf(id, kind) \in Events
  BY DEF IntentOf, Events, Intents

LEMMA OutcomeTyped ==
  ASSUME NEW id \in RequestIds, NEW kind \in Bindings, NEW d \in Decisions
  PROVE  OutcomeOf(id, kind, d) \in Events
  BY DEF OutcomeOf, Events, Outcomes

LEMMA NoWorkTyped == NoWork \in Works
  BY DispatchAssumption DEF NoWork, Works, Events

LEMMA NoRequestTyped == NoRequest \in Requests
  BY DispatchAssumption DEF NoRequest, Requests, Stages, Administrative

\* A worker that was idle, queued, done or abandoned stays a worker.
LEMMA WorkerTyped ==
  ASSUME TypeOK, NEW w \in Conns \cup {Admin}, NEW v \in Works, worker' = [worker EXCEPT ![w] = v]
  PROVE  worker' \in [Conns \cup {Admin} -> Works]
  BY DEF TypeOK

LEMMA StateTyped ==
  ASSUME TypeOK, NEW w \in Conns \cup {Admin},
         NEW st \in {"none", "queued", "written", "ok", "err", "orphan", "writtenOrphan"},
         worker' = [worker EXCEPT ![w].st = st]
  PROVE  worker' \in [Conns \cup {Admin} -> Works]
  BY ZenonT(60) DEF TypeOK, Works

LEMMA ReturnedTyped ==
  ASSUME TypeOK, NEW w \in Conns \cup {Admin}, NEW result \in {"ok", "err"}, Returned(w, result)
  PROVE  worker' \in [Conns \cup {Admin} -> Works]
  <1>1. worker[w] \in Works /\ [worker[w] EXCEPT !.st = result] \in Works
    BY ZenonT(60) DEF TypeOK, Works
  <1> QED
    BY <1>1, NoWorkTyped DEF TypeOK, Returned

LEMMA AbortTyped ==
  ASSUME TypeOK, NEW c \in Conns, Abort(c) \/ Detach(c)
  PROVE  worker' \in [Conns \cup {Admin} -> Works]
  <1>1. CASE Detach(c)
    BY <1>1, ZenonT(60) DEF Detach, TypeOK, Works
  <1>2. CASE worker' = [worker EXCEPT ![c] = NoWork]
    BY <1>2, NoWorkTyped DEF TypeOK
  <1> QED
    BY <1>1, <1>2 DEF Abort

LEMMA SubmitTyped ==
  ASSUME TypeOK, NEW c \in Conns, NEW e \in Events, Submit(c, e)
  PROVE  worker' \in [Conns \cup {Admin} -> Works]
  BY DEF TypeOK, Submit, Works

\* record_outcome on a grant-bound request.
LEMMA BeginOutcomeTyped ==
  ASSUME TypeOK, NEW c \in Conns, RequestShape(c), Granted(c), NEW d \in Decisions, NEW stage \in Stages,
         BeginOutcome(c, d, stage)
  PROVE  conn' \in [Conns -> Requests] /\ worker' \in [Conns \cup {Admin} -> Works]
  <1>1. conn[c] \in Requests /\ conn[c].id \in RequestIds /\ conn[c].kind \in Bindings
    BY DEF TypeOK, RequestShape, Requests
  <1>2. OutcomeOf(conn[c].id, conn[c].kind, d) \in Events
    BY <1>1, OutcomeTyped
  <1>3. worker' \in [Conns \cup {Admin} -> Works]
    BY <1>2, SubmitTyped DEF BeginOutcome
  <1>4. [conn[c] EXCEPT !.audit = "FINALIZING", !.pc = stage] \in Requests
    BY <1>1, ZenonT(60) DEF Requests
  <1>5. conn' = [conn EXCEPT ![c] = [conn[c] EXCEPT !.audit = "FINALIZING", !.pc = stage]]
    BY ZenonT(60) DEF BeginOutcome
  <1> QED
    BY <1>3, <1>4, <1>5 DEF TypeOK

\* The registry after a sweep.
LEMMA PrunedTyped ==
  TypeOK => Pruned \in [Grants -> {"none", "live", "Exhausted", "Expired", "forgotten"}]
  BY DEF TypeOK, Pruned

LEMMA InitTyped == Init => TypeOK
  <1> SUFFICES ASSUME Init PROVE TypeOK
    OBVIOUS
  <1>1. Genesis \in Events
    BY DispatchAssumption DEF Events
  <1>2. chain \in Seq(Events) /\ cert \in 0..Len(chain)
    BY <1>1 DEF Init
  <1> QED
    BY <1>2, NoWorkTyped, NoRequestTyped, DispatchAssumption DEF Init, TypeOK, Entries

\* A request that only changes its stage and its reply.
LEMMA RequestTyped ==
  ASSUME TypeOK, NEW c \in Conns, NEW stage \in Stages,
         NEW audit \in {"PENDING", "FINALIZING", "COMPLETE", "FAILED"},
         NEW reply \in Decisions \cup {"none", "error", "Denied"},
         conn' = [conn EXCEPT ![c] = [conn[c] EXCEPT !.pc = stage, !.audit = audit, !.reply = reply]]
  PROVE  conn' \in [Conns -> Requests]
  <1>1. conn[c] \in Requests
    BY DEF TypeOK
  <1>2. [conn[c] EXCEPT !.pc = stage, !.audit = audit, !.reply = reply] \in Requests
    BY <1>1, ZenonT(60) DEF Requests
  <1> QED
    BY <1>2 DEF TypeOK

LEMMA GotoTyped ==
  ASSUME TypeOK, NEW c \in Conns, NEW stage \in Stages, Goto(c, stage)
  PROVE  conn' \in [Conns -> Requests]
  <1>1. conn[c] \in Requests
    BY DEF TypeOK
  <1>2. [conn[c] EXCEPT !.pc = stage] \in Requests
    BY <1>1 DEF Requests
  <1> QED
    BY <1>2 DEF TypeOK, Goto

LEMMA FinishTyped ==
  ASSUME TypeOK, NEW c \in Conns, NEW reply \in Decisions \cup {"none", "error", "Denied"}, Finish(c, reply)
  PROVE  conn' \in [Conns -> Requests]
  <1>1. conn[c] \in Requests
    BY DEF TypeOK
  <1>2. [conn[c] EXCEPT !.pc = "done", !.reply = reply] \in Requests
    BY <1>1, ZenonT(60) DEF Requests, Stages
  <1>3. conn' = [conn EXCEPT ![c] = [conn[c] EXCEPT !.pc = "done", !.reply = reply]]
    BY ZenonT(60) DEF Finish
  <1> QED
    BY <1>2, <1>3 DEF TypeOK

\* The ledger's own steps preserve the types.
LEMMA LedgerTyped ==
  ASSUME TypeOK, NEW w \in Conns \cup {Admin}, LedgerStep(w) \/ LedgerFail(w)
  PROVE  TypeOK'
  <1>1. worker[w].ev \in Events /\ worker[w] \in Works
    BY DEF TypeOK, Works
  <1>2. CASE LedgerWrite(w)
    <2>1. chain' \in Seq(Events) /\ cert' \in 0..Len(chain')
      BY <1>1, <1>2 DEF LedgerWrite, Extend, TypeOK
    <2>2. worker' \in [Conns \cup {Admin} -> Works]
      BY <1>2, StateTyped, ZenonT(60) DEF LedgerWrite
    <2> QED
      BY <1>2, <2>1, <2>2 DEF LedgerWrite, TypeOK, registry, entries
  <1>3. CASE LedgerCertify(w)
    <2>1. chain' \in Seq(Events) /\ cert' \in 0..Len(chain')
      BY <1>3 DEF LedgerCertify, Certify, TypeOK
    <2>2. worker' \in [Conns \cup {Admin} -> Works]
      BY <1>3, ReturnedTyped, ZenonT(60) DEF LedgerCertify
    <2> QED
      BY <1>3, <2>1, <2>2 DEF LedgerCertify, TypeOK, registry, entries
  <1>4. CASE LedgerRefuse(w)
    <2>1. worker' \in [Conns \cup {Admin} -> Works]
      BY <1>4, ReturnedTyped, ZenonT(60) DEF LedgerRefuse
    <2> QED
      BY <1>4, <2>1 DEF LedgerRefuse, TypeOK, ledger, registry, entries
  <1>5. CASE LedgerFail(w)
    <2>1. worker' \in [Conns \cup {Admin} -> Works]
      BY <1>5, ReturnedTyped DEF LedgerFail
    <2>2. broken' \in {"intact", "torn"}
      BY <1>5 DEF LedgerFail, TypeOK
    <2> QED
      BY <1>5, <2>1, <2>2 DEF LedgerFail, TypeOK, registry, entries
  <1> QED
    BY <1>2, <1>3, <1>4, <1>5 DEF LedgerStep

\* The steps of unlock and of the registry preserve the types.
LEMMA RegistryTyped ==
  ASSUME TypeOK, EntriesKnown,
         \/ UnlockVerify \/ UnlockPublish \/ UnlockFail \/ PoolExpire \/ PruneExpired
         \/ \E g \in Grants : IssueGrant(g) \/ GrantExpires(g)
  PROVE  TypeOK'
  <1> USE DispatchAssumption
  <1>1. CASE UnlockVerify \/ UnlockFail
    BY <1>1 DEF UnlockVerify, UnlockFail, TypeOK, ledger, registry
  <1>2. CASE UnlockPublish
    <2>1. unlocks + 1 \in Entries /\ unlocks + 1 \in 0..MaxUnlocks
      BY <1>2 DEF UnlockPublish, EntriesKnown, TypeOK, Entries
    <2> QED
      BY <1>2, <2>1, ZenonT(60) DEF UnlockPublish, TypeOK, ledger, registry
  <1>3. CASE PoolExpire
    BY <1>3, ZenonT(60) DEF PoolExpire, TypeOK, ledger, registry
  <1>4. ASSUME NEW g \in Grants, IssueGrant(g) PROVE TypeOK'
    <2>1. reg' \in [Grants -> {"none", "live", "Exhausted", "Expired", "forgotten"}]
      BY <1>4, PrunedTyped, ZenonT(60) DEF IssueGrant
    <2>2. remaining' \in [Grants -> 0..Budget] /\ bound' \in [Grants -> Entries \cup {0}]
      BY <1>4 DEF IssueGrant, TypeOK
    <2> QED
      BY <1>4, <2>1, <2>2 DEF IssueGrant, TypeOK, ledger, entries
  <1>5. ASSUME NEW g \in Grants, GrantExpires(g) PROVE TypeOK'
    BY <1>5, ZenonT(60) DEF GrantExpires, TypeOK, ledger, entries
  <1>6. CASE PruneExpired
    <2>1. reg' \in [Grants -> {"none", "live", "Exhausted", "Expired", "forgotten"}]
      BY <1>6, PrunedTyped, ZenonT(60) DEF PruneExpired
    <2> QED
      BY <1>6, <2>1 DEF PruneExpired, TypeOK, ledger, entries
  <1> QED
    BY <1>1, <1>2, <1>3, <1>4, <1>5, <1>6, ZenonT(60)

\* The steps that take or end a request preserve the types.
LEMMA AcceptTyped ==
  ASSUME TypeOK, EntriesKnown, NEW c \in Conns,
         \/ \E id \in RequestIds, kind \in Bindings :
              AcceptDirect(c, id, kind) \/ \E g \in Grants : AcceptGrant(c, id, kind, g)
         \/ RejectGrant(c) \/ DeadlinePasses(c) \/ Effect(c)
  PROVE  TypeOK'
  <1>1. ASSUME NEW id \in RequestIds, NEW kind \in Bindings, AcceptDirect(c, id, kind) PROVE TypeOK'
    <2>1. [NoRequest EXCEPT !.pc = "check", !.id = id, !.kind = kind, !.entry = pool] \in Requests
      BY NoRequestTyped, ZenonT(60) DEF TypeOK, Requests, Stages
    <2>2. conn' \in [Conns -> Requests]
      BY <1>1, <2>1, ZenonT(60) DEF AcceptDirect, TypeOK
    <2> QED
      BY <1>1, <2>2, ZenonT(60) DEF AcceptDirect, TypeOK, ledger, registry, entries
  <1>2. ASSUME NEW id \in RequestIds, NEW kind \in Bindings, NEW g \in Grants, AcceptGrant(c, id, kind, g)
        PROVE  TypeOK'
    <2>1. [NoRequest EXCEPT !.pc = "intent", !.id = id, !.kind = kind, !.grant = g, !.entry = bound[g]] \in Requests
      BY NoRequestTyped, ZenonT(60) DEF TypeOK, Requests, Stages
    <2>2. conn' \in [Conns -> Requests]
      BY <1>2, <2>1, ZenonT(60) DEF AcceptGrant, TypeOK
    <2>3. worker' \in [Conns \cup {Admin} -> Works]
      BY <1>2, IntentTyped, SubmitTyped, ZenonT(60) DEF AcceptGrant
    <2>4. reg' \in [Grants -> {"none", "live", "Exhausted", "Expired", "forgotten"}]
      BY <1>2, PrunedTyped, ZenonT(60) DEF AcceptGrant
    <2> QED
      BY <1>2, <2>2, <2>3, <2>4, ZenonT(60) DEF AcceptGrant, TypeOK, ledger, entries
  <1>3. CASE RejectGrant(c)
    <2>1. conn' \in [Conns -> Requests]
      BY <1>3, FinishTyped, ZenonT(60) DEF RejectGrant
    <2>2. reg' \in [Grants -> {"none", "live", "Exhausted", "Expired", "forgotten"}]
      BY <1>3, PrunedTyped DEF RejectGrant
    <2> QED
      BY <1>3, <2>1, <2>2, ZenonT(60) DEF RejectGrant, TypeOK, ledger, entries
  <1>4. CASE DeadlinePasses(c)
    BY <1>4, ZenonT(60) DEF DeadlinePasses, TypeOK, ledger, registry, entries
  <1>5. CASE Effect(c)
    BY <1>5 DEF Effect, TypeOK, ledger, registry, entries
  <1> QED
    BY <1>1, <1>2, <1>3, <1>4, <1>5

\* The daemon's own steps preserve the types.
LEMMA ServeTyped ==
  ASSUME TypeOK, NEW c \in Conns, RequestShape(c), Serve(c)
  PROVE  TypeOK'
  <1> USE DispatchAssumption
  <1>a. conn[c] \in Requests /\ worker[c] \in Works /\ {"check", "spend", "exhaust", "dispatch", "outcome", "finalize",
        "final", "deny", "done"} \subseteq Stages
    BY DEF TypeOK, Stages
  <1>b. conn[c].entry \in Entries \cup {0} /\ conn[c].grant \in Grants \cup {NoGrant} /\ conn[c].reply \in Decisions \cup {"none", "error", "Denied"}
    BY <1>a, ZenonT(60) DEF Requests
  <1>c. worker[c].ev \in Events
    BY <1>a DEF Works
  <1>1. CASE IntentPersisted(c)
    <2>1. conn' \in [Conns -> Requests]
      BY <1>1, <1>a, GotoTyped DEF IntentPersisted
    <2>2. worker' \in [Conns \cup {Admin} -> Works]
      BY <1>1, NoWorkTyped, WorkerTyped, ZenonT(60) DEF IntentPersisted
    <2> QED
      BY <1>1, <2>1, <2>2, ZenonT(60) DEF IntentPersisted, TypeOK, ledger, registry, entries
  <1>2. CASE IntentFailed(c)
    <2>1. conn' \in [Conns -> Requests]
      BY <1>2, FinishTyped, ZenonT(60) DEF IntentFailed
    <2>2. worker' \in [Conns \cup {Admin} -> Works]
      BY <1>2, NoWorkTyped, WorkerTyped, AbortTyped, ZenonT(60) DEF IntentFailed
    <2>3. quarantined' \subseteq Entries
      BY <1>2, ZenonT(60) DEF IntentFailed, Quarantine, RequestShape, TypeOK
    <2> QED
      BY <1>2, <2>1, <2>2, <2>3, ZenonT(60) DEF IntentFailed, TypeOK, ledger, registry, entries
  <1>3. CASE CheckQuarantine(c)
    <2>1. conn' \in [Conns -> Requests] /\ worker' \in [Conns \cup {Admin} -> Works]
      <3>1. CASE Finish(c, "Denied") /\ UNCHANGED worker
        BY <3>1, FinishTyped, ZenonT(60) DEF TypeOK
      <3>2. CASE Granted(c) /\ BeginOutcome(c, "Denied", "deny")
        BY <3>2, <1>a, BeginOutcomeTyped, ZenonT(60)
      <3>3. CASE Goto(c, IF conn[c].grant = NoGrant THEN "dispatch" ELSE "spend") /\ UNCHANGED worker
        BY <3>3, <1>a, GotoTyped, ZenonT(60) DEF TypeOK
      <3> QED
        BY <1>3, <3>1, <3>2, <3>3, ZenonT(60) DEF CheckQuarantine, Granted
    <2> QED
      BY <1>3, <2>1, ZenonT(60) DEF CheckQuarantine, TypeOK, ledger, registry, entries
  <1>4. CASE SpendBudget(c)
    <2>1. conn' \in [Conns -> Requests]
      BY <1>4, <1>a, GotoTyped DEF SpendBudget
    <2>2. remaining' \in [Grants -> 0..Budget]
      BY <1>4, <1>b DEF SpendBudget, RequestShape, Granted, TypeOK
    <2> QED
      BY <1>4, <2>1, <2>2, ZenonT(60) DEF SpendBudget, TypeOK, ledger, entries
  <1>5. CASE Exhaust(c)
    <2>1. conn' \in [Conns -> Requests]
      BY <1>5, <1>a, GotoTyped, ZenonT(60) DEF Exhaust
    <2>2. reg' \in [Grants -> {"none", "live", "Exhausted", "Expired", "forgotten"}]
      BY <1>5, PrunedTyped, ZenonT(60) DEF Exhaust, Terminated
    <2> QED
      BY <1>5, <2>1, <2>2, ZenonT(60) DEF Exhaust, TypeOK, ledger, entries
  <1>6. CASE SpendFails(c)
    <2>1. conn' \in [Conns -> Requests] /\ worker' \in [Conns \cup {Admin} -> Works]
      BY <1>6, <1>a, BeginOutcomeTyped, ZenonT(60) DEF SpendFails, RequestShape
    <2>2. reg' \in [Grants -> {"none", "live", "Exhausted", "Expired", "forgotten"}]
      BY <1>6, PrunedTyped, ZenonT(60) DEF SpendFails, Terminated
    <2> QED
      BY <1>6, <2>1, <2>2, ZenonT(60) DEF SpendFails, TypeOK, ledger, entries
  <1>7. ASSUME NEW d \in Decisions, TerminalFrame(c, d) PROVE TypeOK'
    <2>1. conn' \in [Conns -> Requests] /\ worker' \in [Conns \cup {Admin} -> Works]
      <3>1. CASE Finish(c, d) /\ UNCHANGED worker
        BY <3>1, FinishTyped, ZenonT(60) DEF TypeOK
      <3>2. CASE Granted(c) /\ BeginOutcome(c, d, "outcome")
        BY <3>2, <1>a, BeginOutcomeTyped, ZenonT(60)
      <3> QED
        BY <1>7, <3>1, <3>2, ZenonT(60) DEF TerminalFrame, Granted
    <2> QED
      BY <1>7, <2>1, ZenonT(60) DEF TerminalFrame, TypeOK, ledger, registry, entries
  <1>8. CASE DispatchEnds(c)
    <2>1. conn' \in [Conns -> Requests]
      BY <1>8, <1>a, GotoTyped, ZenonT(60) DEF DispatchEnds
    <2> QED
      BY <1>8, <2>1, ZenonT(60) DEF DispatchEnds, TypeOK, ledger, registry, entries
  <1>9. CASE OutcomePersisted(c)
    <2>1. worker' \in [Conns \cup {Admin} -> Works]
      BY <1>9, NoWorkTyped, WorkerTyped, ZenonT(60) DEF OutcomePersisted
    <2>2. worker[c].ev.decision \in Decisions
      <3>1. worker[c].ev.phase = "Outcome"
        BY <1>9 DEF OutcomePersisted, RequestShape, OutcomeOf
      <3> QED
        BY <3>1, <1>c DEF Events, Intents, Outcomes, Administrative
    <2>3. PICK reply \in {"none", worker[c].ev.decision} :
            conn' = [conn EXCEPT ![c] = [conn[c] EXCEPT !.pc = IF conn[c].pc = "outcome" THEN "finalize" ELSE "done",
                                                        !.audit = "COMPLETE", !.reply = reply]]
      BY <1>9, <1>a DEF OutcomePersisted, TypeOK, Requests
    <2>4. conn' \in [Conns -> Requests]
      BY <2>2, <2>3, <1>a, RequestTyped, ZenonT(60)
    <2> QED
      BY <1>9, <2>1, <2>4 DEF OutcomePersisted, TypeOK, ledger, registry, entries
  <1>10. CASE OutcomeFailed(c)
    <2>1. worker' \in [Conns \cup {Admin} -> Works]
      BY <1>10, NoWorkTyped, WorkerTyped, AbortTyped, ZenonT(60) DEF OutcomeFailed
    <2>2. conn' = [conn EXCEPT ![c] = [conn[c] EXCEPT !.pc = IF conn[c].pc = "outcome" THEN "finalize" ELSE "done",
                                                      !.audit = "FAILED",
                                                      !.reply = IF conn[c].pc = "final" THEN "none" ELSE "error"]]
      BY <1>10, <1>a DEF OutcomeFailed, TypeOK, Requests
    <2>3. conn' \in [Conns -> Requests]
      BY <2>2, <1>a, RequestTyped, ZenonT(60)
    <2>4. quarantined' \subseteq Entries
      BY <1>10 DEF OutcomeFailed, Quarantine, RequestShape, TypeOK
    <2> QED
      BY <1>10, <2>1, <2>3, <2>4, ZenonT(60) DEF OutcomeFailed, TypeOK, ledger, registry, entries
  <1>11. CASE OutcomeInterrupted(c)
    <2>1. conn' \in [Conns -> Requests]
      BY <1>11, <1>a, GotoTyped, ZenonT(60) DEF OutcomeInterrupted
    <2>2. worker' \in [Conns \cup {Admin} -> Works]
      BY <1>11, AbortTyped, ZenonT(60) DEF OutcomeInterrupted
    <2> QED
      BY <1>11, <2>1, <2>2, ZenonT(60) DEF OutcomeInterrupted, TypeOK, ledger, registry, entries
  <1>12. CASE Finalize(c)
    <2>1. CASE BeginOutcome(c, "Unknown", "final") /\ UNCHANGED quarantined
      <3>1. conn' \in [Conns -> Requests] /\ worker' \in [Conns \cup {Admin} -> Works]
        BY <1>12, <2>1, <1>a, BeginOutcomeTyped, RecordsAssumption, ZenonT(60) DEF Finalize, RequestShape
      <3> QED
        BY <1>12, <2>1, <3>1, ZenonT(60) DEF Finalize, TypeOK, ledger, registry, entries
    <2>2. CASE /\ conn' = [conn EXCEPT ![c].audit = "FAILED", ![c].pc = "done"]
               /\ Quarantine(c)
               /\ UNCHANGED worker
      <3>1. [conn[c] EXCEPT !.audit = "FAILED", !.pc = "done"] \in Requests
        BY <1>a, ZenonT(60) DEF Requests
      <3>2. conn' \in [Conns -> Requests]
        BY <2>2, <3>1, ZenonT(60) DEF TypeOK
      <3>3. quarantined' \subseteq Entries
        BY <1>12, <2>2 DEF Finalize, Quarantine, RequestShape, TypeOK
      <3> QED
        BY <1>12, <2>2, <3>2, <3>3, ZenonT(60) DEF Finalize, TypeOK, ledger, registry, entries
    <2>3. CASE Goto(c, "done") /\ UNCHANGED <<quarantined, worker>>
      <3>1. conn' \in [Conns -> Requests]
        BY <2>3, <1>a, GotoTyped
      <3> QED
        BY <1>12, <2>3, <3>1, ZenonT(60) DEF Finalize, TypeOK, ledger, registry, entries
    <2> QED
      BY <1>12, <2>1, <2>2, <2>3 DEF Finalize
  <1> QED
    BY <1>1, <1>2, <1>3, <1>4, <1>5, <1>6, <1>7, <1>8, <1>9, <1>10, <1>11, <1>12, ZenonT(60) DEF Serve

\* Shutdown, a crash and the offline resolution preserve the types.
LEMMA OutageTyped ==
  ASSUME TypeOK, Shutdown \/ Crash \/ (\E id \in RequestIds : ResolveBegin(id)) \/ ResolveEnd
  PROVE  TypeOK'
  <1>1. CASE Shutdown
    BY <1>1 DEF Shutdown, TypeOK, ledger, registry, entries
  <1>2. CASE Crash
    <2>a. \A c \in Conns : conn[c] \in Requests
      BY DEF TypeOK
    <2>b. \A r \in Requests : [r EXCEPT !.pc = "dead"] \in Requests
      BY ZenonT(60) DEF Requests, Stages
    <2>1. \A c \in Conns : [conn[c] EXCEPT !.pc = "dead"] \in Requests
      BY <2>a, <2>b, ZenonT(60)
    <2>2. conn' \in [Conns -> Requests]
      BY <1>2, <2>1, <2>a, ZenonT(60) DEF Crash
    <2>3. worker' \in [Conns \cup {Admin} -> Works]
      BY <1>2, NoWorkTyped DEF Crash, TypeOK
    <2>4. reg' \in [Grants -> {"none", "live", "Exhausted", "Expired", "forgotten"}]
      BY <1>2, ZenonT(60) DEF Crash
    <2>5. broken' \in {"intact", "torn"} /\ pool' \in Entries \cup {0} /\ unlocking' \in {"idle", "connecting"}
          /\ stopping' \in {"up", "stopping"}
      BY <1>2, ZenonT(60) DEF Crash, TypeOK
    <2> QED
      BY <1>2, <2>2, <2>3, <2>4, <2>5, ZenonT(60) DEF Crash, TypeOK
  <1>3. ASSUME NEW id \in RequestIds, ResolveBegin(id) PROVE TypeOK'
    <2>1. PICK i \in 1..Len(chain) :
            worker' = [worker EXCEPT ![Admin] = [st |-> "queued", ev |-> OutcomeOf(id, chain[i].binding, "Unknown")]]
      BY <1>3, ZenonT(60) DEF ResolveBegin
    <2>2. chain[i] \in Events
      BY DEF TypeOK
    <2>3. chain[i].binding \in Bindings
      BY <2>2 DEF Events, Intents, Outcomes, Administrative
    <2>4. [st |-> "queued", ev |-> OutcomeOf(id, chain[i].binding, "Unknown")] \in Works
      BY <2>3, OutcomeTyped, RecordsAssumption, ZenonT(60) DEF Works
    <2>5. worker' \in [Conns \cup {Admin} -> Works]
      BY <2>1, <2>4, WorkerTyped, ZenonT(60)
    <2> QED
      BY <1>3, <2>5, ZenonT(60) DEF ResolveBegin, TypeOK, ledger, registry, entries
  <1>4. CASE ResolveEnd
    <2>1. worker' \in [Conns \cup {Admin} -> Works]
      BY <1>4, NoWorkTyped, WorkerTyped, ZenonT(60) DEF ResolveEnd
    <2> QED
      BY <1>4, <2>1, ZenonT(60) DEF ResolveEnd, TypeOK, ledger, registry, entries
  <1> QED
    BY <1>1, <1>2, <1>3, <1>4, ZenonT(60)

\* Every step preserves the types.
LEMMA StepTyped == DispatchInv /\ [Next]_vars => TypeOK'
  <1> SUFFICES ASSUME DispatchInv, [Next]_vars PROVE TypeOK'
    OBVIOUS
  <1>1. TypeOK /\ EntriesKnown /\ \A c \in Conns : RequestShape(c)
    BY ZenonT(60) DEF DispatchInv
  <1>2. CASE UNCHANGED vars
    BY <1>1, <1>2 DEF vars, ledger, registry, entries, TypeOK
  <1>3. CASE Environment
    BY <1>1, <1>3, LedgerTyped, RegistryTyped, AcceptTyped, OutageTyped, ZenonT(60) DEF Environment
  <1> QED
    BY <1>1, <1>2, <1>3, LedgerTyped, ServeTyped, ZenonT(60) DEF Next

-------------------------------------------------------------------------------
(* The ledger only grows.                                                   *)

Grows ==
    /\ Len(chain) <= Len(chain') /\ cert <= cert'
    /\ \A i \in 1..Len(chain) : chain'[i] = chain[i]

LEMMA AppendGrows ==
  ASSUME NEW l \in Seq(Events), NEW e \in Events
  PROVE  /\ Len(Append(l, e)) = Len(l) + 1 /\ Len(l) \in Nat
         /\ Append(l, e)[Len(l) + 1] = e
         /\ \A i \in 1..Len(l) : Append(l, e)[i] = l[i]
  OBVIOUS

\* Only a write changes the chain, and only a certification, or a checkpoint that
\* failed after its rename, the certified length.
LEMMA LedgerSteps ==
  ASSUME [Next]_vars
  PROVE  \/ \E w \in Conns \cup {Admin} : LedgerWrite(w)
         \/ \E w \in Conns \cup {Admin} : LedgerCertify(w)
         \/ UNCHANGED chain /\ cert' \in {cert, Len(chain)}
         \/ UNCHANGED chainVars
  <1> USE DEF ledger, chainVars
  <1>1. ASSUME NEW w \in Conns \cup {Admin}, LedgerRefuse(w) PROVE UNCHANGED chainVars
    BY <1>1, ZenonT(60) DEF LedgerRefuse
  <1>9. ASSUME NEW w \in Conns \cup {Admin}, LedgerFail(w) PROVE UNCHANGED chain /\ cert' \in {cert, Len(chain)}
    BY <1>9, ZenonT(60) DEF LedgerFail
  <1>2. ASSUME NEW c \in Conns, Serve(c) PROVE UNCHANGED chainVars
    BY <1>2 DEF Serve, IntentPersisted, IntentFailed, CheckQuarantine, SpendBudget, Exhaust, SpendFails, TerminalFrame,
                DispatchEnds, OutcomePersisted, OutcomeFailed, OutcomeInterrupted, Finalize
  <1>3. CASE UnlockVerify \/ UnlockPublish \/ UnlockFail \/ PoolExpire \/ PruneExpired \/ Shutdown \/ Crash \/ ResolveEnd
    BY <1>3, ZenonT(60) DEF UnlockVerify, UnlockPublish, UnlockFail, PoolExpire, PruneExpired, Shutdown, Crash, ResolveEnd
  <1>4. ASSUME NEW g \in Grants, IssueGrant(g) \/ GrantExpires(g) PROVE UNCHANGED chainVars
    BY <1>4 DEF IssueGrant, GrantExpires
  <1>5. ASSUME NEW c \in Conns, NEW id \in RequestIds, NEW kind \in Bindings,
               AcceptDirect(c, id, kind) \/ \E g \in Grants : AcceptGrant(c, id, kind, g)
        PROVE  UNCHANGED chainVars
    BY <1>5, ZenonT(60) DEF AcceptDirect, AcceptGrant
  <1>6. ASSUME NEW c \in Conns, RejectGrant(c) \/ DeadlinePasses(c) \/ Effect(c) PROVE UNCHANGED chainVars
    BY <1>6, ZenonT(60) DEF RejectGrant, DeadlinePasses, Effect
  <1>7. ASSUME NEW id \in RequestIds, ResolveBegin(id) PROVE UNCHANGED chainVars
    BY <1>7, ZenonT(60) DEF ResolveBegin
  <1>8. CASE UNCHANGED vars
    BY <1>8 DEF vars
  <1> QED
    BY <1>1, <1>2, <1>3, <1>4, <1>5, <1>6, <1>7, <1>8, <1>9, ZenonT(60) DEF Next, LedgerStep, Environment

LEMMA LedgerGrows == TypeOK /\ [Next]_vars => Grows
  <1> SUFFICES ASSUME TypeOK, [Next]_vars PROVE Grows
    OBVIOUS
  <1>1. chain \in Seq(Events) /\ cert \in 0..Len(chain) /\ Len(chain) \in Nat
    BY DEF TypeOK
  <1>2. ASSUME NEW w \in Conns \cup {Admin}, LedgerWrite(w) PROVE Grows
    <2>1. worker[w].ev \in Events
      BY DEF TypeOK, Works
    <2>2. chain' = Append(chain, worker[w].ev) /\ cert' = cert
      BY <1>2 DEF LedgerWrite, Extend
    <2> QED
      BY <1>1, <2>1, <2>2, AppendGrows DEF Grows
  <1>3. ASSUME NEW w \in Conns \cup {Admin}, LedgerCertify(w) PROVE Grows
    BY <1>1, <1>3 DEF LedgerCertify, Certify, Grows
  <1>4. CASE UNCHANGED chainVars
    BY <1>1, <1>4 DEF chainVars, Grows
  <1>5. CASE UNCHANGED chain /\ cert' \in {cert, Len(chain)}
    BY <1>1, <1>5 DEF Grows
  <1> QED
    BY <1>2, <1>3, <1>4, <1>5, LedgerSteps, ZenonT(60)

\* What the ledger holds or certifies it keeps.
LEMMA Persist ==
  ASSUME TypeOK, TypeOK', Grows
  PROVE  /\ \A e : Written(e) => Written(e)'
         /\ \A e : Certified(e) => Certified(e)'
         /\ \A id : id \in ClosedIntents(chain) => id \in ClosedIntents(chain)'
  <1>1. Len(chain) \in Nat /\ Len(chain') \in Nat /\ cert \in 0..Len(chain) /\ cert' \in 0..Len(chain')
    BY DEF TypeOK
  <1>2. 1..Len(chain) \subseteq 1..Len(chain') /\ 1..cert \subseteq 1..cert' /\ 1..cert \subseteq 1..Len(chain)
    BY <1>1 DEF Grows
  <1> QED
    BY <1>2, ZenonT(60) DEF Grows, Written, Certified, ClosedIntents

\* How a worker changes without writing, certifying or reporting.
WorkerKept(w) ==
    \/ worker'[w] = worker[w]
    \/ worker'[w].st \in {"none", "queued", "err", "orphan"}
    \/ worker[w].st = "written" /\ worker'[w].st = "writtenOrphan" /\ worker'[w].ev = worker[w].ev

AllKept == \A w \in Conns \cup {Admin} : WorkerKept(w)

LEMMA KeptTrue ==
  ASSUME TypeOK, TypeOK', WorkersTrue, Grows, NEW w \in Conns \cup {Admin}, WorkerKept(w)
  PROVE  /\ Appending(w)' => Written(worker[w].ev)'
         /\ worker'[w].st = "ok" => Certified(worker[w].ev)'
  <1>1. CASE worker'[w] = worker[w]
    <2>1. Written(worker[w].ev) => Written(worker[w].ev)'
      BY <1>1, Persist, ZenonT(60) DEF Written
    <2>2. Certified(worker[w].ev) => Certified(worker[w].ev)'
      BY <1>1, Persist, ZenonT(60) DEF Certified
    <2> QED
      BY <1>1, <2>1, <2>2, ZenonT(60) DEF WorkersTrue, Appending
  <1>2. CASE worker'[w].st \in {"none", "queued", "err", "orphan"}
    BY <1>2 DEF Appending
  <1>3. CASE worker[w].st = "written" /\ worker'[w].st = "writtenOrphan" /\ worker'[w].ev = worker[w].ev
    <2>1. Written(worker[w].ev)
      BY <1>3 DEF WorkersTrue, Appending
    <2>2. Written(worker[w].ev)'
      BY <1>3, <2>1, Persist, ZenonT(60) DEF Written
    <2> QED
      BY <1>3, <2>2, ZenonT(60)
  <1> QED
    BY <1>1, <1>2, <1>3, ZenonT(60) DEF WorkerKept

\* Apart from a write and a certification, no step makes a worker claim more.
LEMMA OtherSteps ==
  ASSUME TypeOK, [Next]_vars
  PROVE  \/ \E w \in Conns \cup {Admin} : LedgerWrite(w)
         \/ \E w \in Conns \cup {Admin} : LedgerCertify(w)
         \/ AllKept
  <1>a. worker \in [Conns \cup {Admin} -> Works] /\ Conns \cup {Admin} = DOMAIN worker
    BY ZenonT(60) DEF TypeOK
  <1>b. UNCHANGED worker => AllKept
    BY DEF AllKept, WorkerKept
  <1>c. ASSUME NEW w \in Conns \cup {Admin}, worker' = [worker EXCEPT ![w] = NoWork] PROVE AllKept
    BY <1>a, <1>c, ZenonT(60) DEF AllKept, WorkerKept, NoWork
  <1>d. ASSUME NEW c \in Conns, NEW e, Submit(c, e) PROVE AllKept
    BY <1>a, <1>d DEF AllKept, WorkerKept, Submit
  <1>e. ASSUME NEW c \in Conns, Detach(c) PROVE AllKept
    BY <1>a, <1>e, ZenonT(60) DEF AllKept, WorkerKept, Detach, Works
  <1>f. ASSUME NEW c \in Conns, Abort(c) PROVE AllKept
    BY <1>c, <1>e, <1>f DEF Abort
  <1>g. ASSUME NEW w \in Conns \cup {Admin}, Returned(w, "err") PROVE AllKept
    BY <1>a, <1>g, ZenonT(60) DEF AllKept, WorkerKept, Returned, NoWork, Works
  <1>h. ASSUME NEW c \in Conns, NEW d, NEW stage, BeginOutcome(c, d, stage) PROVE AllKept
    BY <1>d, <1>h, ZenonT(60) DEF BeginOutcome
  <1>1. ASSUME NEW w \in Conns \cup {Admin}, LedgerRefuse(w) \/ LedgerFail(w) PROVE AllKept
    BY <1>1, <1>g, ZenonT(60) DEF LedgerRefuse, LedgerFail
  <1>2. ASSUME NEW c \in Conns, Serve(c) PROVE AllKept
    <2>1. CASE IntentPersisted(c) \/ IntentFailed(c)
      BY <2>1, <1>c, <1>f, ZenonT(60) DEF IntentPersisted, IntentFailed
    <2>2. CASE CheckQuarantine(c)
      BY <2>2, <1>b, <1>h DEF CheckQuarantine
    <2>3. CASE SpendBudget(c) \/ Exhaust(c) \/ SpendFails(c)
      BY <2>3, <1>b, <1>h, ZenonT(60) DEF SpendBudget, Exhaust, SpendFails
    <2>4. ASSUME NEW d \in Decisions, TerminalFrame(c, d) PROVE AllKept
      BY <2>4, <1>b, <1>h, ZenonT(60) DEF TerminalFrame
    <2>5. CASE DispatchEnds(c)
      BY <2>5, <1>b, ZenonT(60) DEF DispatchEnds
    <2>6. CASE OutcomePersisted(c) \/ OutcomeFailed(c) \/ OutcomeInterrupted(c)
      BY <2>6, <1>c, <1>e, <1>f DEF OutcomePersisted, OutcomeFailed, OutcomeInterrupted
    <2>7. CASE Finalize(c)
      BY <2>7, <1>b, <1>h, ZenonT(60) DEF Finalize
    <2> QED
      BY <1>2, <2>1, <2>2, <2>3, <2>4, <2>5, <2>6, <2>7, ZenonT(60) DEF Serve
  <1>3. CASE UnlockVerify \/ UnlockPublish \/ UnlockFail \/ PoolExpire \/ PruneExpired \/ Shutdown
    BY <1>3, <1>b DEF UnlockVerify, UnlockPublish, UnlockFail, PoolExpire, PruneExpired, Shutdown
  <1>4. ASSUME NEW g \in Grants, IssueGrant(g) \/ GrantExpires(g) PROVE AllKept
    BY <1>4, <1>b, ZenonT(60) DEF IssueGrant, GrantExpires
  <1>5. ASSUME NEW c \in Conns, NEW id \in RequestIds, NEW kind \in Bindings,
               AcceptDirect(c, id, kind) \/ \E g \in Grants : AcceptGrant(c, id, kind, g)
        PROVE  AllKept
    BY <1>5, <1>b, <1>d, ZenonT(60) DEF AcceptDirect, AcceptGrant
  <1>6. ASSUME NEW c \in Conns, RejectGrant(c) \/ DeadlinePasses(c) \/ Effect(c) PROVE AllKept
    BY <1>6, <1>b, ZenonT(60) DEF RejectGrant, DeadlinePasses, Effect
  <1>7. CASE Crash
    BY <1>7, <1>a, ZenonT(60) DEF Crash, AllKept, WorkerKept, NoWork
  <1>8. ASSUME NEW id \in RequestIds, ResolveBegin(id) PROVE AllKept
    BY <1>8, <1>a DEF ResolveBegin, AllKept, WorkerKept
  <1>9. CASE ResolveEnd
    BY <1>9, <1>c, ZenonT(60) DEF ResolveEnd
  <1>10. CASE UNCHANGED vars
    BY <1>10, <1>b, ZenonT(60) DEF vars
  <1> QED
    BY <1>1, <1>2, <1>3, <1>4, <1>5, <1>6, <1>7, <1>8, <1>9, <1>10, ZenonT(60) DEF Next, LedgerStep, Environment

\* No worker reports a record that is not in the log.
LEMMA StepWorkers == DispatchInv /\ [Next]_vars => WorkersTrue'
  <1> SUFFICES ASSUME DispatchInv, [Next]_vars PROVE WorkersTrue'
    OBVIOUS
  <1>1. TypeOK /\ TypeOK' /\ WorkersTrue /\ Grows
    BY StepTyped, LedgerGrows, ZenonT(60) DEF DispatchInv
  <1>2. chain \in Seq(Events) /\ Len(chain) \in Nat /\ worker \in [Conns \cup {Admin} -> Works]
    BY <1>1 DEF TypeOK
  <1> SUFFICES ASSUME NEW v \in Conns \cup {Admin}
               PROVE  /\ Appending(v)' => Written(worker[v].ev)'
                      /\ worker'[v].st = "ok" => Certified(worker[v].ev)'
    BY ZenonT(60) DEF WorkersTrue
  <1>3. ASSUME NEW w \in Conns \cup {Admin}, LedgerWrite(w), v = w
        PROVE  worker'[v].st # "ok" /\ Written(worker[v].ev)'
    <2>1. worker[w].ev \in Events /\ worker'[w].ev = worker[w].ev /\ worker'[w].st # "ok"
      BY <1>2, <1>3, ZenonT(60) DEF LedgerWrite, Works
    <2>2. chain' = Append(chain, worker[w].ev)
      BY <1>3 DEF LedgerWrite, Extend
    <2>3. Len(chain') = Len(chain) + 1 /\ chain'[Len(chain) + 1] = worker'[w].ev
      BY <1>2, <2>1, <2>2, AppendGrows, ZenonT(60)
    <2> QED
      BY <1>2, <1>3, <2>1, <2>3 DEF Written
  <1>4. ASSUME NEW w \in Conns \cup {Admin}, LedgerCertify(w), v = w
        PROVE  ~Appending(v)' /\ (worker'[v].st = "ok" => Certified(worker[v].ev)')
    <2>1. worker'[w] = NoWork \/ worker'[w] = [worker[w] EXCEPT !.st = "ok"]
      BY <1>2, <1>4, ZenonT(60) DEF LedgerCertify, Returned
    <2>2. ~Appending(w)' /\ (worker'[w].st = "ok" => worker'[w].ev = worker[w].ev)
      BY <1>2, <2>1 DEF Appending, NoWork, Works
    <2>3. Written(worker[w].ev) /\ cert' = Len(chain) /\ chain' = chain
      BY <1>1, <1>4, ZenonT(60) DEF LedgerCertify, Certify, WorkersTrue
    <2> QED
      BY <1>4, <2>2, <2>3 DEF Written, Certified
  <1>5. ASSUME NEW w \in Conns \cup {Admin}, LedgerWrite(w) \/ LedgerCertify(w), v # w
        PROVE  WorkerKept(v)
    BY <1>2, <1>5 DEF LedgerWrite, LedgerCertify, Returned, WorkerKept
  <1> QED
    BY <1>1, <1>3, <1>4, <1>5, KeptTrue, OtherSteps, ZenonT(60) DEF AllKept

-------------------------------------------------------------------------------
(* The registry, the pool and the quarantine flags.                         *)

\* A grant once issued is never unissued, and a live one is bound to an entry.
RegistryKept ==
    \A g \in Grants :
        /\ reg[g] # "none" => reg'[g] # "none"
        /\ reg'[g] = "live" => bound'[g] \in Entries

\* The steps that do not issue leave the live grants among the live ones.
LEMMA NotIssued ==
  ASSUME EntriesKnown, UNCHANGED bound,
         \A g \in Grants : (reg[g] # "none" => reg'[g] # "none") /\ (reg'[g] = "live" => reg[g] = "live")
  PROVE  RegistryKept
  BY ZenonT(60) DEF RegistryKept, EntriesKnown

\* An unlock in progress has room for its entry.
UnlockRoom == unlocking' = "connecting" => unlocks' < MaxUnlocks

LEMMA StepEntries == DispatchInv /\ [Next]_vars => RegistryKept /\ UnlockRoom /\ quarantined \subseteq quarantined'
  <1> SUFFICES ASSUME DispatchInv, [Next]_vars
               PROVE  RegistryKept /\ UnlockRoom /\ quarantined \subseteq quarantined'
    OBVIOUS
  <1> DEFINE Goal == RegistryKept /\ UnlockRoom /\ quarantined \subseteq quarantined'
  <1>a. TypeOK /\ EntriesKnown
    BY DEF DispatchInv
  <1>b. reg \in [Grants -> {"none", "live", "Exhausted", "Expired", "forgotten"}]
    BY <1>a, ZenonT(60) DEF TypeOK
  <1>c. ASSUME UNCHANGED <<reg, bound>> PROVE RegistryKept
    BY <1>a, <1>c, NotIssued
  <1>d. ASSUME UNCHANGED <<unlocks, unlocking>> PROVE UnlockRoom
    BY <1>a, <1>d, ZenonT(60) DEF UnlockRoom, EntriesKnown
  <1>e. ASSUME reg' = Pruned, UNCHANGED bound PROVE RegistryKept
    BY <1>a, <1>b, <1>e, NotIssued, ZenonT(60) DEF Pruned
  <1>f. ASSUME NEW g \in Grants, reg' = Terminated(g, "Exhausted"), UNCHANGED bound PROVE RegistryKept
    BY <1>a, <1>b, <1>f, NotIssued, ZenonT(60) DEF Terminated, Pruned
  <1>1. ASSUME NEW w \in Conns \cup {Admin}, LedgerStep(w) \/ LedgerFail(w) PROVE Goal
    BY <1>1, <1>c, <1>d, ZenonT(60) DEF LedgerStep, LedgerWrite, LedgerCertify, LedgerRefuse, LedgerFail, registry, entries
  <1>2. ASSUME NEW c \in Conns, Serve(c) PROVE Goal
    <2>1. CASE SpendBudget(c)
      BY <2>1, <1>c, <1>d DEF SpendBudget, entries
    <2>2. CASE Exhaust(c) \/ SpendFails(c)
      <3>1. conn[c].grant \in Grants
        BY <1>a, <2>2, ZenonT(60) DEF DispatchInv, RequestShape, Granted, TypeOK, Requests, Exhaust, SpendFails
      <3> QED
        BY <2>2, <3>1, <1>d, <1>f, ZenonT(60) DEF Exhaust, SpendFails, entries
    <2>3. CASE IntentPersisted(c) \/ IntentFailed(c) \/ CheckQuarantine(c) \/ DispatchEnds(c) \/ OutcomePersisted(c)
               \/ OutcomeFailed(c) \/ OutcomeInterrupted(c) \/ Finalize(c) \/ \E d \in Decisions : TerminalFrame(c, d)
      BY <2>3, <1>c, <1>d, ZenonT(60) DEF IntentPersisted, IntentFailed, CheckQuarantine, TerminalFrame, DispatchEnds,
                              OutcomePersisted, OutcomeFailed, OutcomeInterrupted, Finalize, Quarantine, registry, entries
    <2> QED
      BY <1>2, <2>1, <2>2, <2>3, ZenonT(60) DEF Serve
  <1>3. CASE UnlockVerify \/ UnlockPublish \/ UnlockFail \/ PoolExpire \/ Shutdown \/ ResolveEnd
    BY <1>3, <1>c, <1>d, ZenonT(60) DEF UnlockVerify, UnlockPublish, UnlockFail, PoolExpire, Shutdown, ResolveEnd, registry, entries,
                            UnlockRoom
  <1>4. ASSUME NEW g \in Grants, IssueGrant(g) PROVE Goal
    <2>1. pool \in Entries
      BY <1>4, <1>a, ZenonT(60) DEF IssueGrant, TypeOK
    <2>2. RegistryKept
      BY <1>4, <1>a, <1>b, <2>1, ZenonT(60) DEF IssueGrant, Pruned, RegistryKept, EntriesKnown, TypeOK
    <2> QED
      BY <1>4, <1>d, <2>2, ZenonT(60) DEF IssueGrant, entries
  <1>5. ASSUME NEW g \in Grants, GrantExpires(g) PROVE Goal
    BY <1>5, <1>c, <1>d, ZenonT(60) DEF GrantExpires, entries
  <1>6. CASE PruneExpired
    <2>1. RegistryKept
      BY <1>6, <1>a, <1>b, NotIssued DEF PruneExpired, Pruned
    <2> QED
      BY <1>6, <1>d, <2>1, ZenonT(60) DEF PruneExpired, entries
  <1>7. ASSUME NEW c \in Conns, NEW id \in RequestIds, NEW kind \in Bindings,
               AcceptDirect(c, id, kind) \/ \E g \in Grants : AcceptGrant(c, id, kind, g)
        PROVE  Goal
    BY <1>7, <1>c, <1>d, <1>e, ZenonT(60) DEF AcceptDirect, AcceptGrant, registry, entries
  <1>8. ASSUME NEW c \in Conns, RejectGrant(c) \/ DeadlinePasses(c) \/ Effect(c) PROVE Goal
    BY <1>8, <1>c, <1>d, <1>e DEF RejectGrant, DeadlinePasses, Effect, registry, entries
  <1>9. CASE Crash
    <2>1. RegistryKept
      BY <1>9, <1>a, <1>b, NotIssued, ZenonT(60) DEF Crash
    <2> QED
      BY <1>9, <2>1, ZenonT(60) DEF Crash, UnlockRoom
  <1>10. ASSUME NEW id \in RequestIds, ResolveBegin(id) PROVE Goal
    BY <1>10, <1>c, <1>d, ZenonT(60) DEF ResolveBegin, registry, entries
  <1>11. CASE UNCHANGED vars
    BY <1>11, <1>c, <1>d, ZenonT(60) DEF vars, registry, entries
  <1> QED
    BY <1>1, <1>2, <1>3, <1>4, <1>5, <1>6, <1>7, <1>8, <1>9, <1>10, <1>11, ZenonT(60) DEF Next, Environment

-------------------------------------------------------------------------------
(* The requests.                                                            *)

\* What is certified or closed, and what is quarantined, stays so.
LEMMA AuditedGrows ==
  ASSUME NEW r, NEW carried, NEW l, NEW m, NEW n, NEW k, NEW q, NEW p,
         \A i \in 1..n : i \in 1..k /\ m[i] = l[i],
         ClosedIntents(l) \subseteq ClosedIntents(m), q \subseteq p,
         AuditedBy(r, carried, l, n, q)
  PROVE  AuditedBy(r, carried, m, k, p)
  BY ZenonT(60) DEF AuditedBy

\* A step that leaves the request of d alone.
Untouched(d) ==
    /\ conn'[d] = conn[d]
    /\ worker'[d].ev = worker[d].ev \/ worker[d].st \in {"orphan", "writtenOrphan"}
    /\ worker'[d].st \in {"orphan", "writtenOrphan"} => worker[d].st \in {"orphan", "writtenOrphan"}
    /\ d \in effects' <=> d \in effects

LEMMA UntouchedKept ==
  ASSUME DispatchInv, [Next]_vars, NEW d \in Conns, Untouched(d)
  PROVE  RequestShape(d)' /\ RequestAudited(d)'
  <1>1. TypeOK /\ TypeOK' /\ Grows /\ RegistryKept /\ quarantined \subseteq quarantined'
    BY StepTyped, LedgerGrows, StepEntries, ZenonT(60) DEF DispatchInv
  <1>2. RequestShape(d) /\ RequestAudited(d)
    BY ZenonT(60) DEF DispatchInv
  <1>3. RequestShape(d)'
    <2>1. conn[d].grant # NoGrant => conn[d].grant \in Grants
      BY <1>1, ZenonT(60) DEF TypeOK, Requests
    <2> QED
      BY <1>1, <1>2, <2>1, ZenonT(60) DEF RequestShape, Granted, Untouched, RegistryKept
  <1>4. \A i \in 1..cert : i \in 1..cert' /\ chain'[i] = chain[i]
    <2>1. cert \in 0..Len(chain) /\ cert' \in 0..Len(chain') /\ Len(chain) \in Nat /\ Len(chain') \in Nat
      BY <1>1 DEF TypeOK
    <2> QED
      BY <1>1, <2>1 DEF Grows
  <1>5. ClosedIntents(chain) \subseteq ClosedIntents(chain')
    BY <1>1, Persist, ZenonT(60)
  <1>6. AuditedBy(conn[d], d \in effects, chain', cert', quarantined')
    BY <1>1, <1>2, <1>4, <1>5, AuditedGrows, ZenonT(60) DEF RequestAudited
  <1>7. (d \in effects) = (d \in effects')
    BY DEF Untouched
  <1>8. RequestAudited(d)'
    BY <1>6, <1>7, ZenonT(60) DEF RequestAudited, Untouched
  <1> QED
    BY <1>3, <1>8

\* The ledger, the registry and the environment leave every request alone.
LEMMA AllUntouched ==
  ASSUME TypeOK, NEW d \in Conns,
         \/ \E w \in Conns \cup {Admin} : LedgerStep(w) \/ LedgerFail(w)
         \/ UnlockVerify \/ UnlockPublish \/ UnlockFail \/ PoolExpire \/ PruneExpired
         \/ \E g \in Grants : IssueGrant(g) \/ GrantExpires(g)
         \/ \E c \in Conns : DeadlinePasses(c)
         \/ Shutdown \/ (\E id \in RequestIds : ResolveBegin(id)) \/ ResolveEnd
         \/ UNCHANGED vars
  PROVE  Untouched(d)
  <1>a. worker \in [Conns \cup {Admin} -> Works] /\ Admin # d
    BY DispatchAssumption DEF TypeOK
  <1>1. ASSUME NEW w \in Conns \cup {Admin}, LedgerStep(w) \/ LedgerFail(w) PROVE Untouched(d)
    <2>1. CASE LedgerWrite(w)
      BY <2>1, <1>a DEF LedgerWrite, Untouched, Works
    <2>2. ASSUME NEW result \in {"ok", "err"}, Returned(w, result), UNCHANGED <<conn, effects>> PROVE Untouched(d)
      <3>1. CASE w = d
        BY <2>2, <3>1, <1>a DEF Returned, Untouched, NoWork, Works
      <3>2. CASE w # d
        BY <2>2, <3>2, <1>a, ZenonT(60) DEF Returned, Untouched
      <3> QED
        BY <3>1, <3>2, ZenonT(60)
    <2> QED
      BY <1>1, <2>1, <2>2, ZenonT(60) DEF LedgerStep, LedgerCertify, LedgerRefuse, LedgerFail
  <1>2. CASE UnlockVerify \/ UnlockPublish \/ UnlockFail \/ PoolExpire \/ PruneExpired \/ Shutdown
    BY <1>2, ZenonT(60) DEF UnlockVerify, UnlockPublish, UnlockFail, PoolExpire, PruneExpired, Shutdown, Untouched
  <1>3. ASSUME NEW g \in Grants, IssueGrant(g) \/ GrantExpires(g) PROVE Untouched(d)
    BY <1>3 DEF IssueGrant, GrantExpires, Untouched
  <1>4. ASSUME NEW c \in Conns, DeadlinePasses(c) PROVE Untouched(d)
    BY <1>4, ZenonT(60) DEF DeadlinePasses, Untouched
  <1>5. ASSUME NEW id \in RequestIds, ResolveBegin(id) PROVE Untouched(d)
    BY <1>5, <1>a, ZenonT(60) DEF ResolveBegin, Untouched
  <1>6. CASE ResolveEnd
    BY <1>6, <1>a, ZenonT(60) DEF ResolveEnd, Untouched
  <1>7. CASE UNCHANGED vars
    BY <1>7, ZenonT(60) DEF vars, Untouched
  <1> QED
    BY <1>1, <1>2, <1>3, <1>4, <1>5, <1>6, <1>7, ZenonT(60)

\* Its worker too.
Bystander(d) == conn'[d] = conn[d] /\ worker'[d] = worker[d] /\ (d \in effects' <=> d \in effects)

LEMMA BystanderUntouched == \A d \in Conns : Bystander(d) => Untouched(d)
  BY ZenonT(60) DEF Bystander, Untouched

\* A request's own steps leave the other requests alone.
LEMMA OthersUntouched ==
  ASSUME TypeOK, NEW c \in Conns, NEW d \in Conns \ {c},
         \/ Serve(c)
         \/ \E id \in RequestIds, kind \in Bindings :
              AcceptDirect(c, id, kind) \/ \E g \in Grants : AcceptGrant(c, id, kind, g)
         \/ RejectGrant(c) \/ Effect(c)
  PROVE  Bystander(d)
  <1>a. worker \in [Conns \cup {Admin} -> Works] /\ conn \in [Conns -> Requests]
    BY ZenonT(60) DEF TypeOK
  <1>1. ASSUME UNCHANGED worker \/ (\E v : worker' = [worker EXCEPT ![c] = v]) \/ (\E v : worker' = [worker EXCEPT ![c].st = v])
        PROVE  worker'[d] = worker[d]
    BY <1>1, <1>a, ZenonT(60)
  <1>2. ASSUME NEW e, Submit(c, e) PROVE worker'[d] = worker[d]
    BY <1>2, <1>a, ZenonT(60) DEF Submit
  <1>3. ASSUME Abort(c) \/ Detach(c) PROVE worker'[d] = worker[d]
    BY <1>3, <1>a DEF Abort, Detach
  <1>4. ASSUME NEW stage, Goto(c, stage) PROVE conn'[d] = conn[d]
    BY <1>4, <1>a, ZenonT(60) DEF Goto
  <1>5. ASSUME NEW reply, Finish(c, reply) PROVE conn'[d] = conn[d]
    BY <1>5, <1>a DEF Finish
  <1>6. ASSUME NEW x, NEW stage, BeginOutcome(c, x, stage) PROVE conn'[d] = conn[d] /\ worker'[d] = worker[d]
    BY <1>6, <1>2, <1>a, ZenonT(60) DEF BeginOutcome
  <1>7. SUFFICES conn'[d] = conn[d] /\ worker'[d] = worker[d] /\ (d \in effects' <=> d \in effects)
    BY ZenonT(60) DEF Bystander
  <1>8. CASE IntentPersisted(c) \/ IntentFailed(c) \/ OutcomeInterrupted(c)
    BY <1>8, <1>1, <1>3, <1>4, <1>5, ZenonT(60) DEF IntentPersisted, IntentFailed, OutcomeInterrupted
  <1>9. CASE CheckQuarantine(c) \/ \E x \in Decisions : TerminalFrame(c, x)
    BY <1>9, <1>4, <1>5, <1>6, ZenonT(60) DEF CheckQuarantine, TerminalFrame
  <1>10. CASE SpendBudget(c) \/ Exhaust(c) \/ SpendFails(c) \/ DispatchEnds(c)
    BY <1>10, <1>4, <1>6, ZenonT(60) DEF SpendBudget, Exhaust, SpendFails, DispatchEnds
  <1>11. CASE OutcomePersisted(c)
    BY <1>11, <1>1, <1>a, ZenonT(60) DEF OutcomePersisted
  <1>12. CASE OutcomeFailed(c)
    BY <1>12, <1>1, <1>3, <1>a, ZenonT(60) DEF OutcomeFailed
  <1>13. CASE Finalize(c)
    BY <1>13, <1>4, <1>6, <1>a, ZenonT(60) DEF Finalize
  <1>14. ASSUME NEW id \in RequestIds, NEW kind \in Bindings,
                AcceptDirect(c, id, kind) \/ \E g \in Grants : AcceptGrant(c, id, kind, g)
         PROVE  conn'[d] = conn[d] /\ worker'[d] = worker[d] /\ (d \in effects' <=> d \in effects)
    BY <1>14, <1>2, <1>a, ZenonT(60) DEF AcceptDirect, AcceptGrant
  <1>15. CASE RejectGrant(c)
    BY <1>15, <1>5, ZenonT(60) DEF RejectGrant
  <1>16. CASE Effect(c)
    BY <1>16, ZenonT(60) DEF Effect
  <1> QED
    BY <1>8, <1>9, <1>10, <1>11, <1>12, <1>13, <1>14, <1>15, <1>16, ZenonT(60) DEF Serve

\* What a request's next step may do to its record without a new claim: the
\* Intent stays certified and the reply stays backed.
LEMMA StageAudited ==
  ASSUME NEW r, NEW s, NEW carried, NEW l, NEW n, NEW q, NEW p, AuditedBy(r, carried, l, n, q), q \subseteq p,
         s.grant = r.grant, s.id = r.id, s.kind = r.kind, s.entry = r.entry, s.reply = r.reply,
         r.pc \in Served \/ s.pc \notin Served,
         s.audit = r.audit \/ s.audit \in {"PENDING", "FINALIZING"},
         s.pc = "done" => r.audit \in {"COMPLETE", "FAILED"} \/ r.entry \in p
  PROVE  AuditedBy(s, carried, l, n, p)
  BY ZenonT(60) DEF AuditedBy

\* A request that no grant authorises claims nothing.
LEMMA DirectAudited ==
  ASSUME NEW r, NEW carried, NEW l, NEW n, NEW q, r.grant = NoGrant
  PROVE  AuditedBy(r, carried, l, n, q)
  BY DEF AuditedBy

\* The steps of one request keep what its stage says of it.
LEMMA ServeShape ==
  ASSUME DispatchInv, TypeOK', RegistryKept, NEW c \in Conns, Serve(c)
  PROVE  RequestShape(c)'
  <1>a. /\ conn \in [Conns -> Requests] /\ worker \in [Conns \cup {Admin} -> Works] /\ conn[c] \in Requests
        /\ conn[c].grant # NoGrant => conn[c].grant \in Grants
    BY DEF DispatchInv, TypeOK, Requests
  <1>b. RequestShape(c)
    BY DEF DispatchInv
  <1>c. ASSUME Granted(c) PROVE conn[c].id \in RequestIds /\ conn[c].entry \in Entries /\ reg'[conn[c].grant] # "none"
    BY <1>a, <1>b, <1>c, ZenonT(60) DEF RequestShape, Granted, RegistryKept
  <1>d. ASSUME NEW stage \in {"check", "spend", "exhaust", "dispatch", "finalize", "done"}, Goto(c, stage),
               stage \in {"check", "dispatch", "done"} \/ Granted(c)
        PROVE  RequestShape(c)'
    BY <1>a, <1>c, <1>d DEF Goto, RequestShape, Granted, Requests
  <1>e. ASSUME NEW reply, Finish(c, reply) PROVE RequestShape(c)'
    BY <1>a, <1>c, <1>e, ZenonT(60) DEF Finish, RequestShape, Granted, Requests
  <1>f. ASSUME NEW x, NEW stage \in {"outcome", "final", "deny"}, BeginOutcome(c, x, stage), Granted(c)
        PROVE  RequestShape(c)'
    <2>1. /\ conn'[c].pc = stage /\ conn'[c].id = conn[c].id /\ conn'[c].kind = conn[c].kind
          /\ conn'[c].entry = conn[c].entry /\ conn'[c].grant = conn[c].grant
      BY <1>a, <1>f, ZenonT(60) DEF BeginOutcome, Requests
    <2>2. worker'[c].st \in {"err", "queued"} /\ worker'[c].ev = OutcomeOf(conn[c].id, conn[c].kind, x)
      BY <1>a, <1>f, ZenonT(60) DEF BeginOutcome, Submit
    <2>3. worker'[c].ev.decision = x
      BY <2>2 DEF OutcomeOf
    <2> QED
      BY <1>c, <1>f, <2>1, <2>2, <2>3, ZenonT(60) DEF RequestShape, Granted
  <1>1. CASE IntentPersisted(c)
    BY <1>1, <1>d DEF IntentPersisted
  <1>2. CASE IntentFailed(c)
    BY <1>2, <1>e, ZenonT(60) DEF IntentFailed
  <1>3. CASE CheckQuarantine(c)
    BY <1>3, <1>d, <1>e, <1>f DEF CheckQuarantine, Granted
  <1>4. CASE SpendBudget(c) \/ Exhaust(c)
    BY <1>4, <1>b, <1>d, ZenonT(60) DEF SpendBudget, Exhaust, RequestShape
  <1>5. CASE SpendFails(c)
    BY <1>5, <1>b, <1>f, ZenonT(60) DEF SpendFails, RequestShape
  <1>6. ASSUME NEW x \in Decisions, TerminalFrame(c, x) PROVE RequestShape(c)'
    BY <1>6, <1>e, <1>f, ZenonT(60) DEF TerminalFrame, Granted
  <1>7. CASE DispatchEnds(c)
    BY <1>7, <1>d, ZenonT(60) DEF DispatchEnds, Granted
  <1>8. CASE OutcomePersisted(c) \/ OutcomeFailed(c)
    <2>1. Granted(c)
      BY <1>8, <1>b DEF OutcomePersisted, OutcomeFailed, RequestShape
    <2>2. /\ conn'[c].pc \in {"finalize", "done"} /\ conn'[c].id = conn[c].id
          /\ conn'[c].entry = conn[c].entry /\ conn'[c].grant = conn[c].grant
      BY <1>a, <1>8 DEF OutcomePersisted, OutcomeFailed, Requests
    <2> QED
      BY <1>c, <2>1, <2>2, ZenonT(60) DEF RequestShape, Granted
  <1>9. CASE OutcomeInterrupted(c)
    BY <1>9, <1>b, <1>d, ZenonT(60) DEF OutcomeInterrupted, RequestShape
  <1>10. CASE Finalize(c)
    <2>1. Granted(c)
      BY <1>10, <1>b, ZenonT(60) DEF Finalize, RequestShape
    <2>2. CASE conn' = [conn EXCEPT ![c].audit = "FAILED", ![c].pc = "done"]
      BY <1>a, <1>c, <2>1, <2>2, ZenonT(60) DEF RequestShape, Granted, Requests
    <2> QED
      BY <1>10, <1>d, <1>f, <2>1, <2>2, ZenonT(60) DEF Finalize
  <1> QED
    BY <1>1, <1>2, <1>3, <1>4, <1>5, <1>6, <1>7, <1>8, <1>9, <1>10, ZenonT(60) DEF Serve

\* The steps of one request keep what the ledger holds of it.
LEMMA ServeAudited ==
  ASSUME DispatchInv, TypeOK', NEW c \in Conns, Serve(c)
  PROVE  RequestAudited(c)'
  <1>a. /\ conn \in [Conns -> Requests] /\ worker \in [Conns \cup {Admin} -> Works] /\ conn[c] \in Requests
        /\ conn[c].audit \in {"PENDING", "FINALIZING", "COMPLETE", "FAILED"}
    BY ZenonT(60) DEF DispatchInv, TypeOK, Requests
  <1>b. RequestShape(c) /\ AuditedBy(conn[c], c \in effects, chain, cert, quarantined)
    BY ZenonT(60) DEF DispatchInv, RequestAudited
  <1>c. chain' = chain /\ cert' = cert /\ effects' = effects
    BY ZenonT(60) DEF Serve, IntentPersisted, IntentFailed, CheckQuarantine, SpendBudget, Exhaust, SpendFails, TerminalFrame,
           DispatchEnds, OutcomePersisted, OutcomeFailed, OutcomeInterrupted, Finalize, ledger
  <1>d. SUFFICES AuditedBy(conn'[c], c \in effects, chain, cert, quarantined')
    BY <1>c, ZenonT(60) DEF RequestAudited
  <1>e. cert \in 0..Len(chain) /\ Len(chain) \in Nat
    BY DEF DispatchInv, TypeOK
  <1>f. ASSUME NEW stage \in Served, Goto(c, stage), conn[c].pc \in Served, UNCHANGED quarantined
        PROVE  AuditedBy(conn'[c], c \in effects, chain, cert, quarantined')
    <2>1. /\ conn'[c].pc = stage /\ conn'[c].id = conn[c].id /\ conn'[c].kind = conn[c].kind
          /\ conn'[c].entry = conn[c].entry /\ conn'[c].grant = conn[c].grant /\ conn'[c].reply = conn[c].reply
          /\ conn'[c].audit = conn[c].audit
      BY <1>a, <1>f, ZenonT(60) DEF Goto, Requests
    <2>2. stage # "done"
      BY <1>f DEF Served
    <2> QED
      BY <1>b, <1>f, <2>1, <2>2, StageAudited, ZenonT(60)
  <1>g. ASSUME NEW x, NEW stage \in {"outcome", "final", "deny"}, BeginOutcome(c, x, stage), conn[c].pc \in Served,
               UNCHANGED quarantined
        PROVE  AuditedBy(conn'[c], c \in effects, chain, cert, quarantined')
    <2>1. /\ conn'[c].pc = stage /\ conn'[c].id = conn[c].id /\ conn'[c].kind = conn[c].kind
          /\ conn'[c].entry = conn[c].entry /\ conn'[c].grant = conn[c].grant /\ conn'[c].reply = conn[c].reply
          /\ conn'[c].audit = "FINALIZING"
      BY <1>a, <1>g DEF BeginOutcome, Requests
    <2> QED
      BY <1>b, <1>g, <2>1, StageAudited, ZenonT(60)
  <1>h. ASSUME NEW x, Finish(c, x), conn[c].grant = NoGrant
        PROVE  AuditedBy(conn'[c], c \in effects, chain, cert, quarantined')
    <2>1. conn'[c].grant = NoGrant
      BY <1>a, <1>h DEF Finish, Requests
    <2> QED
      BY <2>1, DirectAudited, ZenonT(60)
  <1>1. CASE IntentPersisted(c)
    <2>1. Certified(IntentOf(conn[c].id, conn[c].kind))
      BY <1>1, <1>b, ZenonT(60) DEF IntentPersisted, RequestShape, DispatchInv, WorkersTrue
    <2>2. /\ conn'[c].pc = "check" /\ conn'[c].id = conn[c].id /\ conn'[c].kind = conn[c].kind
          /\ conn'[c].entry = conn[c].entry /\ conn'[c].grant = conn[c].grant /\ conn'[c].reply = conn[c].reply
          /\ conn'[c].audit = conn[c].audit /\ quarantined' = quarantined
      BY <1>a, <1>1, ZenonT(60) DEF IntentPersisted, Goto, Requests
    <2> QED
      BY <1>b, <2>1, <2>2, ZenonT(60) DEF AuditedBy, Certified
  <1>2. CASE IntentFailed(c)
    <2>1. /\ conn'[c].pc = "done" /\ conn'[c].id = conn[c].id /\ conn'[c].kind = conn[c].kind
          /\ conn'[c].entry = conn[c].entry /\ conn'[c].grant = conn[c].grant /\ conn'[c].reply = "error"
          /\ conn'[c].audit = conn[c].audit /\ conn[c].entry \in quarantined' /\ quarantined \subseteq quarantined'
      BY <1>a, <1>2, ZenonT(60) DEF IntentFailed, Finish, Quarantine, Requests
    <2> QED
      BY <1>b, <2>1, RecordsAssumption, ZenonT(60) DEF AuditedBy, Served
  <1>3. CASE CheckQuarantine(c)
    BY <1>3, <1>f, <1>g, <1>h, ZenonT(60) DEF CheckQuarantine, Served
  <1>4. CASE SpendBudget(c) \/ Exhaust(c)
    BY <1>4, <1>f, ZenonT(60) DEF SpendBudget, Exhaust, Served
  <1>5. CASE SpendFails(c)
    BY <1>5, <1>g, ZenonT(60) DEF SpendFails, Served
  <1>6. ASSUME NEW x \in Decisions, TerminalFrame(c, x)
        PROVE  AuditedBy(conn'[c], c \in effects, chain, cert, quarantined')
    BY <1>6, <1>g, <1>h, ZenonT(60) DEF TerminalFrame, Served
  <1>7. CASE DispatchEnds(c)
    <2>1. CASE conn[c].grant = NoGrant
      <3>1. conn'[c].grant = NoGrant
        BY <1>a, <1>7, <2>1, ZenonT(60) DEF DispatchEnds, Goto, Requests
      <3> QED
        BY <3>1, DirectAudited
    <2>2. CASE conn[c].grant # NoGrant
      BY <1>7, <2>2, <1>f DEF DispatchEnds, Served
    <2> QED
      BY <2>1, <2>2, ZenonT(60)
  <1>8. CASE OutcomePersisted(c)
    <2>1. /\ Certified(worker[c].ev)
          /\ worker[c].ev = OutcomeOf(conn[c].id, conn[c].kind, worker[c].ev.decision)
      BY <1>8, <1>b, ZenonT(60) DEF OutcomePersisted, RequestShape, DispatchInv, WorkersTrue
    <2>2. conn[c].id \in ClosedIntents(chain)
      <3>1. PICK i \in 1..cert : chain[i] = worker[c].ev
        BY <2>1, ZenonT(60) DEF Certified
      <3> DEFINE o == OutcomeOf(conn[c].id, conn[c].kind, worker[c].ev.decision)
      <3>2. o.phase = "Outcome" /\ o.id = conn[c].id
        BY DEF OutcomeOf
      <3>3. i \in 1..Len(chain)
        BY <1>e
      <3>4. chain[i].phase = "Outcome" /\ chain[i].id = conn[c].id
        BY <2>1, <3>1, <3>2, ZenonT(60)
      <3> QED
        BY <3>3, <3>4, ZenonT(60) DEF ClosedIntents
    <2>3. /\ conn'[c].id = conn[c].id /\ conn'[c].kind = conn[c].kind /\ conn'[c].audit = "COMPLETE"
          /\ conn'[c].entry = conn[c].entry /\ conn'[c].grant = conn[c].grant
          /\ conn'[c].reply \in {"none", worker[c].ev.decision}
          /\ conn[c].pc \in Served /\ quarantined' = quarantined
      BY <1>a, <1>8 DEF OutcomePersisted, Requests, Served
    <2>4. conn'[c].reply \in Decisions \cup {"Denied"} =>
            \E i \in 1..cert : chain[i] = OutcomeOf(conn[c].id, conn[c].kind, conn'[c].reply)
      BY <2>1, <2>3, RecordsAssumption, ZenonT(60) DEF Certified
    <2> QED
      BY <1>b, <2>2, <2>3, <2>4, ZenonT(60) DEF AuditedBy
  <1>9. CASE OutcomeFailed(c)
    <2>1. /\ conn'[c].id = conn[c].id /\ conn'[c].kind = conn[c].kind /\ conn'[c].audit = "FAILED"
          /\ conn'[c].entry = conn[c].entry /\ conn'[c].grant = conn[c].grant
          /\ conn'[c].reply \in {"none", "error"} /\ conn[c].pc \in Served
          /\ conn[c].entry \in quarantined' /\ quarantined \subseteq quarantined'
      BY <1>a, <1>9, ZenonT(60) DEF OutcomeFailed, Quarantine, Requests, Served
    <2> QED
      BY <1>b, <2>1, RecordsAssumption, ZenonT(60) DEF AuditedBy
  <1>10. CASE OutcomeInterrupted(c)
    BY <1>10, <1>f, ZenonT(60) DEF OutcomeInterrupted, Served
  <1>11. CASE Finalize(c)
    <2>1. CASE conn[c].audit = "PENDING"
      BY <1>11, <2>1, <1>g DEF Finalize, Served
    <2>2. CASE conn[c].audit = "FINALIZING"
      <3>1. /\ conn'[c].id = conn[c].id /\ conn'[c].kind = conn[c].kind /\ conn'[c].audit = "FAILED"
            /\ conn'[c].entry = conn[c].entry /\ conn'[c].grant = conn[c].grant
            /\ conn'[c].reply = conn[c].reply /\ conn[c].pc \in Served
            /\ conn[c].entry \in quarantined' /\ quarantined \subseteq quarantined'
        BY <1>a, <1>11, <2>2 DEF Finalize, Quarantine, Requests, Served
      <3> QED
        BY <1>b, <3>1, ZenonT(60) DEF AuditedBy
    <2>3. CASE conn[c].audit \in {"COMPLETE", "FAILED"}
      <3>1. /\ conn'[c].pc = "done" /\ conn'[c].id = conn[c].id /\ conn'[c].kind = conn[c].kind
            /\ conn'[c].entry = conn[c].entry /\ conn'[c].grant = conn[c].grant /\ conn'[c].reply = conn[c].reply
            /\ conn'[c].audit = conn[c].audit /\ quarantined' = quarantined /\ conn[c].pc \in Served
        BY <1>a, <1>11, <2>3 DEF Finalize, Goto, Requests, Served
      <3> QED
        BY <1>b, <2>3, <3>1, StageAudited, ZenonT(60)
    <2> QED
      BY <1>a, <2>1, <2>2, <2>3, ZenonT(60)
  <1> QED
    BY <1>1, <1>2, <1>3, <1>4, <1>5, <1>6, <1>7, <1>8, <1>9, <1>10, <1>11, ZenonT(60) DEF Serve

\* So do taking a request, the operation itself and a crash.
LEMMA EnvironmentKept ==
  ASSUME DispatchInv, TypeOK', RegistryKept, NEW c \in Conns,
         \/ \E id \in RequestIds, kind \in Bindings :
              AcceptDirect(c, id, kind) \/ \E g \in Grants : AcceptGrant(c, id, kind, g)
         \/ RejectGrant(c) \/ Effect(c) \/ Crash
  PROVE  RequestShape(c)' /\ RequestAudited(c)'
  <1>a. /\ conn \in [Conns -> Requests] /\ worker \in [Conns \cup {Admin} -> Works] /\ conn[c] \in Requests
        /\ conn[c].grant # NoGrant => conn[c].grant \in Grants
    BY ZenonT(60) DEF DispatchInv, TypeOK, Requests
  <1>b. RequestShape(c) /\ AuditedBy(conn[c], c \in effects, chain, cert, quarantined)
    BY DEF DispatchInv, RequestAudited
  <1>1. ASSUME NEW id \in RequestIds, NEW kind \in Bindings, AcceptDirect(c, id, kind)
        PROVE  RequestShape(c)' /\ RequestAudited(c)'
    <2>1. conn'[c].pc = "check" /\ conn'[c].grant = NoGrant
      BY <1>a, <1>1, ZenonT(60) DEF AcceptDirect, NoRequest
    <2> QED
      BY <2>1, DirectAudited, ZenonT(60) DEF RequestShape, RequestAudited, Granted
  <1>2. ASSUME NEW id \in RequestIds, NEW kind \in Bindings, NEW g \in Grants, AcceptGrant(c, id, kind, g)
        PROVE  RequestShape(c)' /\ RequestAudited(c)'
    <2>1. /\ conn'[c].pc = "intent" /\ conn'[c].grant = g /\ conn'[c].id = id /\ conn'[c].kind = kind
          /\ conn'[c].entry = bound[g] /\ conn'[c].reply = "none" /\ conn'[c].audit = "PENDING"
      BY <1>a, <1>2, ZenonT(60) DEF AcceptGrant, NoRequest
    <2>2. worker'[c].ev = IntentOf(id, kind) /\ worker'[c].st \in {"err", "queued"}
      BY <1>a, <1>2, ZenonT(60) DEF AcceptGrant, Submit
    <2>3. bound[g] \in Entries /\ reg'[g] = "live"
      BY <1>2, ZenonT(60) DEF AcceptGrant, RegistryKept
    <2>4. c \notin effects'
      BY <1>2, ZenonT(60) DEF AcceptGrant, DispatchInv, ClaimsFirst, Before
    <2>5. RequestShape(c)'
      BY <2>1, <2>2, <2>3, DispatchAssumption, ZenonT(60) DEF RequestShape, Granted
    <2>6. RequestAudited(c)'
      BY <2>1, <2>4, RecordsAssumption, ZenonT(60) DEF RequestAudited, AuditedBy, Served
    <2> QED
      BY <2>5, <2>6, ZenonT(60)
  <1>3. CASE RejectGrant(c)
    <2>1. conn'[c].pc = "done" /\ conn'[c].grant = NoGrant
      BY <1>a, <1>b, <1>3, ZenonT(60) DEF RejectGrant, Finish, RequestShape, Granted, Requests
    <2> QED
      BY <2>1, DirectAudited, ZenonT(60) DEF RequestShape, RequestAudited, Granted
  <1>4. CASE Effect(c)
    <2>1. conn' = conn /\ worker' = worker /\ reg' = reg /\ chain' = chain /\ cert' = cert /\ quarantined' = quarantined
      BY <1>4, ZenonT(60) DEF Effect, ledger, registry
    <2>2. conn[c].pc \in Served
      BY <1>4, ZenonT(60) DEF Effect, Served
    <2>3. AuditedBy(conn[c], c \in effects', chain, cert, quarantined)
      BY <1>b, <2>2, ZenonT(60) DEF AuditedBy
    <2>4. RequestShape(c)'
      BY <1>b, <2>1, ZenonT(60) DEF RequestShape, Granted
    <2> QED
      BY <2>1, <2>3, <2>4 DEF RequestAudited
  <1>5. CASE Crash
    <2>1. /\ chain' = chain /\ cert' = cert /\ quarantined' = quarantined /\ effects' = effects
          /\ conn'[c].id = conn[c].id /\ conn'[c].kind = conn[c].kind /\ conn'[c].grant = conn[c].grant
          /\ conn'[c].entry = conn[c].entry /\ conn'[c].reply = conn[c].reply /\ conn'[c].audit = conn[c].audit
      BY <1>a, <1>5 DEF Crash, Requests
    <2>2. conn'[c].pc \in {"new", "done", "dead"} /\ (conn'[c].pc # "dead" => conn'[c].pc = conn[c].pc)
      BY <1>a, <1>5, ZenonT(60) DEF Crash, Requests
    <2>3. RequestShape(c)'
      BY <1>a, <1>b, <2>1, <2>2, ZenonT(60) DEF RequestShape, Granted, RegistryKept
    <2>4. AuditedBy(conn'[c], c \in effects, chain, cert, quarantined)
      BY <1>b, <2>1, <2>2, ZenonT(60) DEF AuditedBy, Served
    <2> QED
      BY <2>1, <2>3, <2>4, ZenonT(60) DEF RequestAudited
  <1> QED
    BY <1>1, <1>2, <1>3, <1>4, <1>5, ZenonT(60)

LEMMA StepRequests ==
  DispatchInv /\ [Next]_vars => \A c \in Conns : RequestShape(c)' /\ RequestAudited(c)'
  <1> SUFFICES ASSUME DispatchInv, [Next]_vars, NEW d \in Conns PROVE RequestShape(d)' /\ RequestAudited(d)'
    BY ZenonT(60)
  <1>1. TypeOK /\ TypeOK' /\ RegistryKept
    BY StepTyped, StepEntries DEF DispatchInv
  <1>2. ASSUME NEW c \in Conns, Serve(c) PROVE RequestShape(d)' /\ RequestAudited(d)'
    <2>1. CASE c = d
      BY <1>1, <1>2, <2>1, ServeShape, ServeAudited, ZenonT(60)
    <2>2. CASE c # d
      BY <1>1, <1>2, <2>2, OthersUntouched, BystanderUntouched, UntouchedKept, ZenonT(60)
    <2> QED
      BY <2>1, <2>2, ZenonT(60)
  <1>3. ASSUME NEW c \in Conns,
               \/ \E id \in RequestIds, kind \in Bindings :
                    AcceptDirect(c, id, kind) \/ \E g \in Grants : AcceptGrant(c, id, kind, g)
               \/ RejectGrant(c) \/ Effect(c)
        PROVE  RequestShape(d)' /\ RequestAudited(d)'
    <2>1. CASE c = d
      BY <1>1, <1>3, <2>1, EnvironmentKept, ZenonT(60)
    <2>2. CASE c # d
      <3>1. Bystander(d)
        BY <1>1, <1>3, <2>2, OthersUntouched, ZenonT(60)
      <3> QED
        BY <3>1, BystanderUntouched, UntouchedKept, ZenonT(60)
    <2> QED
      BY <2>1, <2>2
  <1>4. CASE Crash
    BY <1>1, <1>4, EnvironmentKept, ZenonT(60)
  <1>5. ASSUME Untouched(d) PROVE RequestShape(d)' /\ RequestAudited(d)'
    BY <1>5, UntouchedKept
  <1> QED
    BY <1>1, <1>2, <1>3, <1>4, <1>5, AllUntouched, ZenonT(60) DEF Next, Environment

-------------------------------------------------------------------------------
(* One owner per Intent, and one unit per operation.                        *)

\* An owner's Intent is in the log.
LEMMA OwnersWrote ==
  ASSUME DispatchInv, NEW d \in Conns, Owns(d)
  PROVE  conn[d].id \in SeenIntents(chain)
  <1>1. \E i \in 1..Len(chain) : chain[i] = IntentOf(conn[d].id, conn[d].kind)
    <2>1. cert \in 0..Len(chain) /\ Len(chain) \in Nat
      BY DEF DispatchInv, TypeOK
    <2>2. 1..cert \subseteq 1..Len(chain)
      BY <2>1
    <2>3. CASE conn[d].pc = "intent" /\ worker[d].st \in {"written", "ok"}
      BY <2>2, <2>3, ZenonT(60) DEF DispatchInv, RequestShape, WorkersTrue, Appending, Written, Certified
    <2>4. CASE conn[d].pc \in Served \/ d \in effects
      BY <2>2, <2>4, ZenonT(60) DEF DispatchInv, RequestAudited, AuditedBy, Owns, Granted
    <2> QED
      BY <2>3, <2>4, ZenonT(60) DEF Owns
  <1> QED
    BY <1>1 DEF IntentOf, SeenIntents

\* The only step that makes an owner writes an Intent.
LEMMA NewOwner ==
  ASSUME DispatchInv, [Next]_vars, NEW d \in Conns, Owns(d)'
  PROVE  /\ conn'[d].id = conn[d].id
         /\ Owns(d) \/ (LedgerWrite(d) /\ worker[d].ev = IntentOf(conn[d].id, conn[d].kind))
  <1> DEFINE Goal == conn'[d].id = conn[d].id
                     /\ (Owns(d) \/ (LedgerWrite(d) /\ worker[d].ev = IntentOf(conn[d].id, conn[d].kind)))
  <1>a. /\ TypeOK /\ conn \in [Conns -> Requests] /\ worker \in [Conns \cup {Admin} -> Works] /\ conn[d] \in Requests
        /\ RequestShape(d) /\ Admin # d
    BY DispatchAssumption, ZenonT(60) DEF DispatchInv, TypeOK
  <1>b. ASSUME conn'[d] = conn[d], d \in effects' <=> d \in effects,
               worker'[d].st \in {"written", "ok"} => worker[d].st \in {"written", "ok"}
        PROVE  Goal
    BY <1>b, ZenonT(60) DEF Owns, Granted
  <1>1. ASSUME NEW w \in Conns \cup {Admin}, LedgerStep(w) \/ LedgerFail(w) PROVE Goal
    <2>1. UNCHANGED <<conn, effects>>
      BY <1>1, ZenonT(60) DEF LedgerStep, LedgerWrite, LedgerCertify, LedgerRefuse, LedgerFail
    <2>2. CASE w # d
      <3>1. worker'[d] = worker[d]
        BY <1>1, <1>a, <2>2, ZenonT(60) DEF LedgerStep, LedgerWrite, LedgerCertify, LedgerRefuse, LedgerFail, Returned
      <3> QED
        BY <1>b, <2>1, <3>1, ZenonT(60)
    <2>3. CASE w = d /\ LedgerWrite(w)
      <3>1. CASE Owns(d)
        BY <2>1, <3>1
      <3>2. CASE ~Owns(d)
        <4>1. conn[d].pc = "intent"
          BY <2>1, <3>2 DEF Owns, Granted
        <4> QED
          BY <1>a, <2>1, <2>3, <4>1, ZenonT(60) DEF RequestShape
      <3> QED
        BY <3>1, <3>2, ZenonT(60)
    <2>4. CASE w = d /\ LedgerCertify(w)
      <3>1. worker[d].st \in {"written", "writtenOrphan"}
        BY <2>4 DEF LedgerCertify, Appending
      <3>2. CASE worker[d].st = "written"
        BY <1>b, <2>1, <3>2, ZenonT(60)
      <3>3. CASE worker[d].st = "writtenOrphan"
        BY <1>a, <1>b, <2>1, <2>4, <3>3, ZenonT(60) DEF LedgerCertify, Returned, NoWork
      <3> QED
        BY <3>1, <3>2, <3>3, ZenonT(60)
    <2>5. CASE w = d /\ (LedgerRefuse(w) \/ LedgerFail(w))
      <3>1. worker'[d].st \in {"none", "err"}
        BY <1>a, <2>5 DEF LedgerRefuse, LedgerFail, Returned, NoWork, Works
      <3> QED
        BY <1>b, <2>1, <3>1, ZenonT(60)
    <2> QED
      BY <1>1, <2>2, <2>3, <2>4, <2>5, ZenonT(60) DEF LedgerStep
  <1>2. CASE \/ UnlockVerify \/ UnlockPublish \/ UnlockFail \/ PoolExpire \/ PruneExpired
             \/ (\E g \in Grants : IssueGrant(g) \/ GrantExpires(g))
             \/ (\E c \in Conns : DeadlinePasses(c))
             \/ Shutdown \/ UNCHANGED vars
    <2>1. UNCHANGED <<conn, effects, worker>>
      BY <1>2, ZenonT(60) DEF UnlockVerify, UnlockPublish, UnlockFail, PoolExpire, PruneExpired, IssueGrant, GrantExpires,
                  DeadlinePasses, Shutdown, vars
    <2> QED
      BY <1>b, <2>1
  <1>3. CASE (\E id \in RequestIds : ResolveBegin(id)) \/ ResolveEnd
    <2>1. UNCHANGED <<conn, effects>> /\ worker'[d] = worker[d]
      BY <1>3, <1>a DEF ResolveBegin, ResolveEnd
    <2> QED
      BY <1>b, <2>1, ZenonT(60)
  <1>4. ASSUME NEW c \in Conns, c # d, Serve(c) \/ RejectGrant(c) \/ Effect(c)
                 \/ \E id \in RequestIds, kind \in Bindings :
                      AcceptDirect(c, id, kind) \/ \E g \in Grants : AcceptGrant(c, id, kind, g)
        PROVE  Goal
    <2>1. Bystander(d)
      BY <1>a, <1>4, OthersUntouched
    <2> QED
      BY <1>b, <2>1, ZenonT(60) DEF Bystander
  <1>5. CASE Serve(d)
    <2>1. /\ conn'[d].grant = conn[d].grant /\ conn'[d].id = conn[d].id
          /\ effects' = effects /\ conn[d].pc \in Served \cup {"intent"}
      BY <1>a, <1>5 DEF Serve, IntentPersisted, IntentFailed, CheckQuarantine, SpendBudget, Exhaust, SpendFails,
                        TerminalFrame, DispatchEnds, OutcomePersisted, OutcomeFailed, OutcomeInterrupted, Finalize,
                        Goto, Finish, BeginOutcome, Requests, Served
    <2>2. Granted(d)
      BY <2>1, ZenonT(60) DEF Owns, Granted
    <2>3. CASE conn[d].pc \in Served \/ worker[d].st = "ok"
      BY <2>1, <2>2, <2>3, ZenonT(60) DEF Owns
    <2>4. CASE conn[d].pc = "intent" /\ worker[d].st # "ok"
      <3>1. IntentFailed(d)
        BY <1>5, <2>4, ZenonT(60) DEF Serve, IntentPersisted, CheckQuarantine, SpendBudget, Exhaust, SpendFails,
                        TerminalFrame, DispatchEnds, OutcomePersisted, OutcomeFailed, OutcomeInterrupted, Finalize
      <3>2. conn'[d].pc = "done" /\ d \notin effects
        BY <1>a, <2>4, <3>1 DEF IntentFailed, Finish, DispatchInv, ClaimsFirst, Before, Requests
      <3> QED
        BY <2>1, <3>2, ZenonT(60) DEF Owns, Served
    <2> QED
      BY <2>1, <2>3, <2>4, ZenonT(60)
  <1>6. ASSUME NEW id \in RequestIds, NEW kind \in Bindings,
               AcceptDirect(d, id, kind) \/ \E g \in Grants : AcceptGrant(d, id, kind, g)
        PROVE  Goal
    <2>1. CASE AcceptDirect(d, id, kind)
      BY <1>a, <2>1, ZenonT(60) DEF AcceptDirect, NoRequest, Owns, Granted
    <2>2. ASSUME NEW g \in Grants, AcceptGrant(d, id, kind, g) PROVE Goal
      <3>1. conn'[d].pc = "intent" /\ worker'[d].st \in {"err", "queued"}
        BY <1>a, <2>2, ZenonT(60) DEF AcceptGrant, Submit, NoRequest
      <3>2. d \notin effects'
        BY <2>2, ZenonT(60) DEF AcceptGrant, DispatchInv, ClaimsFirst, Before
      <3> QED
        BY <3>1, <3>2, ZenonT(60) DEF Owns, Served
    <2> QED
      BY <1>6, <2>1, <2>2, ZenonT(60)
  <1>7. CASE RejectGrant(d)
    <2>1. conn'[d].grant = NoGrant
      BY <1>a, <1>7, ZenonT(60) DEF RejectGrant, Finish, RequestShape, Granted, Requests
    <2> QED
      BY <2>1 DEF Owns, Granted
  <1>8. CASE Effect(d)
    <2>1. conn' = conn /\ conn[d].pc \in Served
      BY <1>8, ZenonT(60) DEF Effect, Served
    <2> QED
      BY <2>1, ZenonT(60) DEF Owns, Granted
  <1>9. CASE Crash
    <2>1. /\ conn'[d].id = conn[d].id /\ conn'[d].grant = conn[d].grant /\ effects' = effects
          /\ conn'[d].pc \in {"new", "done", "dead"}
      BY <1>a, <1>9 DEF Crash, Requests
    <2> QED
      BY <2>1 DEF Owns, Granted, Served
  <1>10. ASSUME NEW c \in Conns, Serve(c) \/ RejectGrant(c) \/ Effect(c)
                 \/ \E id \in RequestIds, kind \in Bindings :
                      AcceptDirect(c, id, kind) \/ \E g \in Grants : AcceptGrant(c, id, kind, g)
         PROVE  Goal
    BY <1>4, <1>5, <1>6, <1>7, <1>8, <1>10, ZenonT(60)
  <1> QED
    BY <1>1, <1>2, <1>3, <1>9, <1>10, ZenonT(60) DEF Next, Environment

\* A second Intent for an id is refused, so an id never gets a second owner.
LEMMA StepOwner == DispatchInv /\ [Next]_vars => OneOwner'
  <1> SUFFICES ASSUME DispatchInv, [Next]_vars, NEW c \in Conns, NEW d \in Conns, Owns(c)', Owns(d)',
                      conn'[c].id = conn'[d].id, c # d
               PROVE  FALSE
    BY ZenonT(60) DEF OneOwner
  <1>a. worker \in [Conns \cup {Admin} -> Works]
    BY ZenonT(60) DEF DispatchInv, TypeOK
  <1>1. conn[c].id = conn[d].id
    BY NewOwner, ZenonT(60)
  <1>2. ~(Owns(c) /\ Owns(d))
    BY <1>1, ZenonT(60) DEF DispatchInv, OneOwner
  <1>3. ASSUME NEW x \in Conns, NEW y \in Conns, x # y, conn[x].id = conn[y].id, Owns(y)',
               LedgerWrite(x), worker[x].ev = IntentOf(conn[x].id, conn[x].kind)
        PROVE  FALSE
    <2>1. conn[x].id \notin SeenIntents(chain)
      BY <1>3 DEF LedgerWrite, Extend, Admissible, IntentOf
    <2>2. ~LedgerWrite(y)
      <3>1. SUFFICES ASSUME LedgerWrite(y) PROVE FALSE
        BY ZenonT(60)
      <3>2. worker'[x].st \in {"written", "writtenOrphan"} /\ worker[x].st \in {"queued", "orphan"}
        BY <1>a, <1>3, ZenonT(60) DEF LedgerWrite, Works
      <3>3. worker'[x] = worker[x]
        BY <1>a, <1>3, <3>1, ZenonT(60) DEF LedgerWrite
      <3> QED
        BY <3>2, <3>3, ZenonT(60)
    <2>3. Owns(y)
      BY <1>3, <2>2, NewOwner, ZenonT(60)
    <2> QED
      BY <1>3, <2>1, <2>3, OwnersWrote, ZenonT(60)
  <1>4. CASE ~Owns(c)
    BY <1>1, <1>3, <1>4, NewOwner, ZenonT(60)
  <1>5. CASE ~Owns(d)
    BY <1>1, <1>3, <1>5, NewOwner, ZenonT(60)
  <1> QED
    BY <1>2, <1>4, <1>5, ZenonT(60)

\* Requests keep their grant, and claim a unit before they dispatch.
LEMMA StepClaims ==
  ASSUME DispatchInv, [Next]_vars
  PROVE  /\ \A d \in Conns : ClaimsFirst(d)'
         /\ \A d \in spent : conn'[d].grant = conn[d].grant
         /\ spent' = spent \/ \E c \in Conns : SpendBudget(c)
  <1> DEFINE Goal(d) == ClaimsFirst(d)' /\ (d \in spent => conn'[d].grant = conn[d].grant)
             Same == spent' = spent
  <1>a. TypeOK /\ conn \in [Conns -> Requests] /\ spent \subseteq Conns
    BY DEF DispatchInv, TypeOK
  <1>b. \A d \in Conns : ClaimsFirst(d) /\ RequestShape(d) /\ conn[d] \in Requests
    BY <1>a, ZenonT(60) DEF DispatchInv
  <1>c. ASSUME NEW d \in Conns, conn'[d] = conn[d], d \in effects' <=> d \in effects, d \in spent' <=> d \in spent
        PROVE  Goal(d)
    BY <1>b, <1>c, ZenonT(60) DEF ClaimsFirst, Granted
  <1>1. CASE \/ \E w \in Conns \cup {Admin} : LedgerStep(w) \/ LedgerFail(w)
             \/ UnlockVerify \/ UnlockPublish \/ UnlockFail \/ PoolExpire \/ PruneExpired
             \/ \E g \in Grants : IssueGrant(g) \/ GrantExpires(g)
             \/ \E c \in Conns : DeadlinePasses(c)
             \/ Shutdown \/ (\E id \in RequestIds : ResolveBegin(id)) \/ ResolveEnd
             \/ UNCHANGED vars
    <2>1. UNCHANGED <<conn, effects, spent>>
      BY <1>1, ZenonT(60) DEF LedgerStep, LedgerWrite, LedgerCertify, LedgerRefuse, LedgerFail, UnlockVerify, UnlockPublish,
                  UnlockFail, PoolExpire, PruneExpired, IssueGrant, GrantExpires, DeadlinePasses, Shutdown,
                  ResolveBegin, ResolveEnd, vars
    <2> QED
      BY <1>a, <1>c, <2>1, ZenonT(60)
  <1>2. CASE Crash
    <2>1. UNCHANGED <<effects, spent>>
      BY <1>2, ZenonT(60) DEF Crash
    <2>2. ASSUME NEW d \in Conns PROVE Goal(d)
      <3>1. conn'[d].grant = conn[d].grant /\ (conn'[d].pc = "dead" \/ conn'[d].pc = conn[d].pc)
        BY <1>b, <1>2, ZenonT(60) DEF Crash, Requests
      <3> QED
        BY <1>b, <2>1, <3>1, ZenonT(60) DEF ClaimsFirst, Granted, Before
    <2> QED
      BY <1>a, <2>1, <2>2, ZenonT(60)
  <1>3. ASSUME NEW c \in Conns, Serve(c) \/ RejectGrant(c) \/ Effect(c)
                 \/ \E id \in RequestIds, kind \in Bindings :
                      AcceptDirect(c, id, kind) \/ \E g \in Grants : AcceptGrant(c, id, kind, g)
        PROVE  (\A d \in Conns : Goal(d)) /\ (Same \/ SpendBudget(c))
    <2>1. Same \/ (SpendBudget(c) /\ spent' = spent \cup {c})
      BY <1>3, ZenonT(60) DEF Serve, IntentPersisted, IntentFailed, CheckQuarantine, SpendBudget, Exhaust, SpendFails, TerminalFrame,
                  DispatchEnds, OutcomePersisted, OutcomeFailed, OutcomeInterrupted, Finalize, RejectGrant, Effect,
                  AcceptDirect, AcceptGrant
    <2>2. ASSUME NEW d \in Conns, d # c PROVE Goal(d)
      BY <1>a, <1>c, <1>3, <2>1, <2>2, OthersUntouched, ZenonT(60) DEF Bystander
    <2>3. ASSUME Serve(c) PROVE Goal(c)
      <3>1. conn'[c].grant = conn[c].grant /\ effects' = effects
        BY <1>a, <1>b, <2>3 DEF Serve, IntentPersisted, IntentFailed, CheckQuarantine, SpendBudget, Exhaust, SpendFails,
                        TerminalFrame, DispatchEnds, OutcomePersisted, OutcomeFailed, OutcomeInterrupted, Finalize,
                        Goto, Finish, BeginOutcome, Requests
      <3>2. CASE SpendBudget(c)
        <4>1. conn'[c].pc \in {"exhaust", "dispatch"} /\ c \in spent' /\ c \notin spent
          BY <1>a, <1>b, <3>2 DEF SpendBudget, Goto, Requests, ClaimsFirst, Before
        <4> QED
          BY <1>b, <3>1, <4>1, ZenonT(60) DEF ClaimsFirst, Before, Granted
      <3>3. CASE Same
        <4>1. conn'[c].pc \in Before => conn[c].pc \in Before
          BY <1>a, <1>b, <2>3 DEF Serve, IntentPersisted, IntentFailed, CheckQuarantine, SpendBudget, Exhaust, SpendFails,
                        TerminalFrame, DispatchEnds, OutcomePersisted, OutcomeFailed, OutcomeInterrupted, Finalize,
                        Goto, Finish, BeginOutcome, Requests, Before
        <4>2. Granted(c) /\ conn'[c].pc \in {"exhaust", "dispatch"} => conn[c].pc = "exhaust" \/ SpendBudget(c)
          BY <1>a, <1>b, <2>3 DEF Serve, IntentPersisted, IntentFailed, CheckQuarantine, Exhaust, SpendFails,
                        TerminalFrame, DispatchEnds, OutcomePersisted, OutcomeFailed, OutcomeInterrupted, Finalize,
                        Goto, Finish, BeginOutcome, Requests, Granted
        <4>3. SpendBudget(c) => c \in spent
          BY <3>3 DEF SpendBudget
        <4> QED
          BY <1>b, <3>1, <3>3, <4>1, <4>2, <4>3, ZenonT(60) DEF ClaimsFirst, Granted
      <3> QED
        BY <2>1, <3>2, <3>3, ZenonT(60)
    <2>4. ASSUME RejectGrant(c) PROVE Goal(c)
      <3>1. conn'[c].grant = conn[c].grant /\ conn'[c].pc = "done" /\ ~Granted(c) /\ spent' = spent
        BY <1>a, <1>b, <2>4, ZenonT(60) DEF RejectGrant, Finish, Requests, RequestShape
      <3> QED
        BY <3>1 DEF ClaimsFirst, Granted, Before
    <2>5. ASSUME Effect(c) PROVE Goal(c)
      BY <1>b, <2>5, ZenonT(60) DEF Effect, ClaimsFirst, Granted, Before
    <2>6. ASSUME NEW id \in RequestIds, NEW kind \in Bindings,
                 AcceptDirect(c, id, kind) \/ \E g \in Grants : AcceptGrant(c, id, kind, g)
          PROVE  Goal(c)
      <3>1. c \notin spent /\ c \notin effects /\ spent' = spent /\ effects' = effects
        BY <1>b, <2>6, ZenonT(60) DEF AcceptDirect, AcceptGrant, ClaimsFirst, Before
      <3>2. conn'[c].pc \in {"check", "intent"}
        BY <1>a, <2>6, ZenonT(60) DEF AcceptDirect, AcceptGrant, NoRequest
      <3> QED
        BY <3>1, <3>2, ZenonT(60) DEF ClaimsFirst
    <2> HIDE DEF Goal, Same
    <2> QED
      BY <1>3, <2>1, <2>2, <2>3, <2>4, <2>5, <2>6, ZenonT(60)
  <1>4. (\A d \in Conns : Goal(d)) /\ (Same \/ \E c \in Conns : SpendBudget(c))
    <2>1. CASE \E c \in Conns : Serve(c) \/ RejectGrant(c) \/ Effect(c)
                 \/ \E id \in RequestIds, kind \in Bindings :
                      AcceptDirect(c, id, kind) \/ \E g \in Grants : AcceptGrant(c, id, kind, g)
      BY <1>3, <2>1, ZenonT(60)
    <2> QED
      BY <1>1, <1>2, <2>1, <1>a, ZenonT(60) DEF Next, Environment
  <1> QED
    BY <1>a, <1>4, ZenonT(60)

-------------------------------------------------------------------------------
(* The theorems.                                                            *)

LEMMA InitInv == Init => DispatchInv
  <1> SUFFICES ASSUME Init PROVE DispatchInv
    OBVIOUS
  <1>1. TypeOK
    BY InitTyped, ZenonT(60)
  <1>2. \A c \in Conns : conn[c].pc = "new" /\ conn[c].grant = NoGrant
    BY ZenonT(60) DEF Init, NoRequest
  <1>3. \A w \in Conns \cup {Admin} : worker[w].st = "none"
    BY ZenonT(60) DEF Init, NoWork
  <1>4. WorkersTrue /\ EntriesKnown
    BY <1>3, ZenonT(60) DEF Init, WorkersTrue, EntriesKnown, Appending
  <1>5. \A c \in Conns : RequestShape(c) /\ RequestAudited(c)
    BY <1>2, DirectAudited, ZenonT(60) DEF RequestShape, RequestAudited, Granted
  <1>6. OneOwner
    BY <1>2, ZenonT(60) DEF OneOwner, Owns, Granted
  <1>7. \A c \in Conns : ClaimsFirst(c)
    BY <1>2 DEF Init, ClaimsFirst, Granted
  <1> QED
    BY <1>1, <1>4, <1>5, <1>6, <1>7, ZenonT(60) DEF DispatchInv

\* The inductive invariant holds in every reachable state.
THEOREM DispatchInvariant == Spec => []DispatchInv
  <1>1. DispatchInv /\ [Next]_vars => DispatchInv'
    <2> SUFFICES ASSUME DispatchInv, [Next]_vars PROVE DispatchInv'
      BY ZenonT(60)
    <2>1. TypeOK' /\ WorkersTrue' /\ OneOwner'
      BY StepTyped, StepWorkers, StepOwner, ZenonT(60)
    <2>2. EntriesKnown'
      BY StepEntries, ZenonT(60) DEF EntriesKnown, RegistryKept, UnlockRoom
    <2>3. \A c \in Conns : RequestShape(c)' /\ RequestAudited(c)' /\ ClaimsFirst(c)'
      BY StepRequests, StepClaims
    <2> QED
      BY <2>1, <2>2, <2>3 DEF DispatchInv
  <1> QED
    BY <1>1, InitInv, PTL DEF Spec

\* The variables keep their types.
THEOREM TypeCorrect == Spec => []TypeOK
  <1>1. DispatchInv => TypeOK
    BY DEF DispatchInv
  <1> QED
    BY <1>1, DispatchInvariant, PTL

\* A grant-bound operation follows its certified Intent, and a request id is
\* carried out at most once, whatever the connections, restarts and faults.
THEOREM EffectsSafe == Spec => []EffectsAudited
  <1>1. DispatchInv => EffectsAudited
    <2> SUFFICES ASSUME DispatchInv PROVE EffectsAudited
      BY ZenonT(60)
    <2>1. effects \subseteq Conns
      BY DEF DispatchInv, TypeOK
    <2>2. ASSUME NEW c \in effects, Granted(c) PROVE Certified(IntentOf(conn[c].id, conn[c].kind))
      BY <2>1, <2>2, ZenonT(60) DEF DispatchInv, RequestAudited, AuditedBy, Granted, Certified
    <2>3. ASSUME NEW c \in effects, NEW d \in effects, Granted(c), Granted(d), conn[c].id = conn[d].id PROVE c = d
      BY <2>1, <2>3, ZenonT(60) DEF DispatchInv, OneOwner, Owns
    <2> QED
      BY <2>2, <2>3 DEF EffectsAudited
  <1> QED
    BY <1>1, DispatchInvariant, PTL

\* A terminal decision that a client sees is certified, and a request that ended
\* without closing its Intent left its entry quarantined.
THEOREM EndsSafe == Spec => []EndsAudited
  <1>1. DispatchInv => EndsAudited
    <2> SUFFICES ASSUME DispatchInv, NEW c \in Conns, Granted(c)
                 PROVE  /\ conn[c].reply \in Decisions \cup {"Denied"} =>
                             Certified(OutcomeOf(conn[c].id, conn[c].kind, conn[c].reply))
                        /\ conn[c].pc = "done" /\ conn[c].id \in PendingIntents(chain) => conn[c].entry \in quarantined
      BY ZenonT(60) DEF EndsAudited
    <2>1. AuditedBy(conn[c], c \in effects, chain, cert, quarantined)
      BY ZenonT(60) DEF DispatchInv, RequestAudited
    <2> QED
      BY <2>1, ZenonT(60) DEF AuditedBy, Granted, Certified, PendingIntents
  <1> QED
    BY <1>1, DispatchInvariant, PTL

\* A crash takes the leases with it.
LEMMA CrashUnleases ==
  ASSUME TypeOK, Crash
  PROVE  ~Leased'
  <1>1. pool' = 0 /\ unlocking' = "idle"
    BY ZenonT(60) DEF Crash
  <1>2. \A g \in Grants : reg'[g] # "live"
    BY DEF Crash, TypeOK
  <1>3. \A c \in Conns : conn'[c].pc \in {"new", "done", "dead"}
    BY DEF Crash, TypeOK, Requests
  <1> QED
    BY <1>1, <1>2, <1>3, ZenonT(60) DEF Leased

\* A profile that nobody uses is taken into use by unlock_profile alone.
LEMMA StaysUnleased ==
  ASSUME TypeOK, [Next]_vars, ~Leased, PendingIntents(chain) # {}
  PROVE  ~Leased'
  <1> DEFINE Idle == UNCHANGED <<conn, reg, pool, unlocking>>
  <1>a. /\ pool = 0 /\ unlocking = "idle"
        /\ \A g \in Grants : reg[g] # "live"
        /\ \A c \in Conns : conn[c].pc \in {"new", "done", "dead"}
    BY ZenonT(60) DEF Leased
  <1>b. Idle => ~Leased'
    BY ZenonT(60) DEF Leased
  <1> USE DEF registry, entries
  <1>1. ASSUME NEW w \in Conns \cup {Admin}, LedgerStep(w) \/ LedgerFail(w) PROVE Idle
    BY <1>1, ZenonT(60) DEF LedgerStep, LedgerWrite, LedgerCertify, LedgerRefuse, LedgerFail
  <1>2. ASSUME NEW c \in Conns PROVE ~Serve(c) /\ ~Effect(c)
    BY <1>a, <1>2 DEF Serve, Effect, IntentPersisted, IntentFailed, CheckQuarantine, SpendBudget, Exhaust, SpendFails,
                TerminalFrame, DispatchEnds, OutcomePersisted, OutcomeFailed, OutcomeInterrupted, Finalize
  <1>3. ~UnlockVerify /\ ~UnlockPublish /\ ~UnlockFail /\ ~PoolExpire
    BY <1>a, ZenonT(60) DEF UnlockVerify, UnlockPublish, UnlockFail, PoolExpire
  <1>4. \A g \in Grants : Pruned[g] # "live"
    BY <1>a DEF Pruned
  <1>5. ASSUME PruneExpired PROVE ~Leased'
    <2>1. \A g \in Grants : reg'[g] # "live"
      BY <1>4, <1>5, ZenonT(60) DEF PruneExpired
    <2>2. UNCHANGED <<conn, pool, unlocking>>
      BY <1>5, ZenonT(60) DEF PruneExpired
    <2> QED
      BY <1>a, <2>1, <2>2, ZenonT(60) DEF Leased
  <1>6. ASSUME NEW g \in Grants, IssueGrant(g) \/ GrantExpires(g) PROVE Idle
    BY <1>a, <1>6, ZenonT(60) DEF IssueGrant, GrantExpires
  <1>7. ASSUME NEW c \in Conns, NEW id \in RequestIds, NEW kind \in Bindings
        PROVE  ~AcceptDirect(c, id, kind) /\ \A g \in Grants : ~AcceptGrant(c, id, kind, g)
    BY <1>a, <1>4, ZenonT(60) DEF AcceptDirect, AcceptGrant
  <1>8. ASSUME NEW c \in Conns, RejectGrant(c) PROVE ~Leased'
    <2>1. UNCHANGED <<pool, unlocking>> /\ \A g \in Grants : reg'[g] # "live"
      BY <1>4, <1>8, ZenonT(60) DEF RejectGrant
    <2>2. \A d \in Conns : conn'[d].pc \in {"new", "done", "dead"}
      BY <1>a, <1>8 DEF RejectGrant, Finish, TypeOK, Requests
    <2> QED
      BY <1>a, <2>1, <2>2, ZenonT(60) DEF Leased
  <1>9. ASSUME NEW c \in Conns, DeadlinePasses(c) PROVE Idle
    BY <1>9, ZenonT(60) DEF DeadlinePasses
  <1>10. Shutdown \/ ResolveEnd \/ (\E id \in RequestIds : ResolveBegin(id)) => Idle
    BY ZenonT(60) DEF Shutdown, ResolveEnd, ResolveBegin
  <1>11. Crash => ~Leased'
    BY CrashUnleases, ZenonT(60)
  <1>12. UNCHANGED vars => Idle
    BY ZenonT(60) DEF vars
  <1> HIDE DEF Idle
  <1> QED
    BY <1>b, <1>1, <1>2, <1>3, <1>5, <1>6, <1>7, <1>8, <1>9, <1>10, <1>11, <1>12, ZenonT(60)
       DEF Next, Environment

\* Only a crash leaves a request dead, and only a dispatched request has effects.
LEMMA DeadByCrash ==
  ASSUME DispatchInv, [Next]_vars, ~Crash, NEW c \in Conns, conn'[c].pc = "dead"
  PROVE  /\ conn[c].pc = "dead" /\ conn'[c] = conn[c]
         /\ c \in effects' => c \in effects
  <1>1. conn \in [Conns -> Requests] /\ effects \subseteq Conns
    BY DEF DispatchInv, TypeOK
  <1> DEFINE Goal == conn[c].pc = "dead" /\ conn'[c] = conn[c] /\ (c \in effects' => c \in effects)
  <1>2. ASSUME UNCHANGED <<conn, effects>> PROVE Goal
    BY <1>2, ZenonT(60)
  <1>3. ASSUME NEW w \in Conns \cup {Admin}, LedgerStep(w) \/ LedgerFail(w) PROVE UNCHANGED <<conn, effects>>
    BY <1>3, ZenonT(60) DEF LedgerStep, LedgerWrite, LedgerCertify, LedgerRefuse, LedgerFail
  <1>4. ASSUME NEW d \in Conns, Serve(d) PROVE Goal
    <2>1. effects' = effects /\ \A b \in Conns \ {d} : conn'[b] = conn[b]
      BY <1>1, <1>4 DEF Serve, IntentPersisted, IntentFailed, CheckQuarantine, SpendBudget, Exhaust, SpendFails,
                TerminalFrame, DispatchEnds, OutcomePersisted, OutcomeFailed, OutcomeInterrupted, Finalize,
                Goto, Finish, BeginOutcome
    <2>2. conn'[d].pc # "dead"
      BY <1>1, <1>4 DEF Serve, IntentPersisted, IntentFailed, CheckQuarantine, SpendBudget, Exhaust, SpendFails,
                TerminalFrame, DispatchEnds, OutcomePersisted, OutcomeFailed, OutcomeInterrupted, Finalize,
                Goto, Finish, BeginOutcome, Requests
    <2> QED
      BY <2>1, <2>2, ZenonT(60)
  <1>5. ASSUME NEW d \in Conns, RejectGrant(d) \/ DeadlinePasses(d) \/ Effect(d) PROVE Goal
    BY <1>1, <1>5 DEF RejectGrant, DeadlinePasses, Effect, Finish, Requests
  <1>6. ASSUME NEW d \in Conns, NEW id \in RequestIds, NEW kind \in Bindings,
               AcceptDirect(d, id, kind) \/ \E g \in Grants : AcceptGrant(d, id, kind, g)
        PROVE  Goal
    <2>1. effects' = effects /\ (\A b \in Conns \ {d} : conn'[b] = conn[b]) /\ conn'[d].pc # "dead"
      BY <1>1, <1>6, ZenonT(60) DEF AcceptDirect, AcceptGrant, NoRequest
    <2> QED
      BY <2>1, ZenonT(60)
  <1>7. ASSUME UnlockVerify \/ UnlockPublish \/ UnlockFail \/ PoolExpire \/ PruneExpired \/ Shutdown \/ ResolveEnd
        PROVE  UNCHANGED <<conn, effects>>
    BY <1>7, ZenonT(60) DEF UnlockVerify, UnlockPublish, UnlockFail, PoolExpire, PruneExpired, Shutdown, ResolveEnd
  <1>8. ASSUME NEW g \in Grants, IssueGrant(g) \/ GrantExpires(g) PROVE UNCHANGED <<conn, effects>>
    BY <1>8, ZenonT(60) DEF IssueGrant, GrantExpires
  <1>9. ASSUME NEW id \in RequestIds, ResolveBegin(id) PROVE UNCHANGED <<conn, effects>>
    BY <1>9, ZenonT(60) DEF ResolveBegin
  <1>10. ASSUME UNCHANGED vars PROVE Goal
    BY <1>2, <1>10, ZenonT(60) DEF vars
  <1> HIDE DEF Goal
  <1>11. Goal
    <2>1. CASE \E w \in Conns \cup {Admin} : LedgerStep(w) \/ LedgerFail(w)
      BY <1>2, <1>3, <2>1, ZenonT(60)
    <2>2. CASE \E d \in Conns : Serve(d) \/ RejectGrant(d) \/ DeadlinePasses(d) \/ Effect(d)
      BY <1>4, <1>5, <2>2, ZenonT(60)
    <2>3. CASE \E d \in Conns, id \in RequestIds, kind \in Bindings :
                 AcceptDirect(d, id, kind) \/ \E g \in Grants : AcceptGrant(d, id, kind, g)
      BY <1>6, <2>3, ZenonT(60)
    <2>4. CASE (\E g \in Grants : IssueGrant(g) \/ GrantExpires(g)) \/ \E id \in RequestIds : ResolveBegin(id)
      BY <1>2, <1>8, <1>9, <2>4, ZenonT(60)
    <2> QED
      BY <1>2, <1>7, <1>10, <2>1, <2>2, <2>3, <2>4, ZenonT(60) DEF Next, Environment
  <1> QED
    BY <1>11, ZenonT(60) DEF Goal

\* While an operation that a crash left in doubt has no Outcome, nobody unlocks
\* the profile, holds a live grant of it or is served on it, whatever the number
\* of restarts: verify_complete refuses every unlock until the resolution.
THEOREM InDoubtLocked == Spec => []InDoubtStaysLocked
  <1>1. DispatchInv /\ InDoubtStaysLocked /\ [Next]_vars => InDoubtStaysLocked'
    <2> SUFFICES ASSUME DispatchInv, InDoubtStaysLocked, [Next]_vars, NEW c \in effects', Granted(c)',
                        conn'[c].pc = "dead", conn'[c].id \in PendingIntents(chain)'
                 PROVE  ~Leased'
      BY ZenonT(60) DEF InDoubtStaysLocked
    <2>1. TypeOK /\ TypeOK' /\ Grows /\ c \in Conns
      BY StepTyped, LedgerGrows, ZenonT(60) DEF DispatchInv, TypeOK
    <2>2. CASE Crash
      BY <2>1, <2>2, CrashUnleases, ZenonT(60)
    <2>3. CASE ~Crash
      <3>1. conn[c].pc = "dead" /\ conn'[c] = conn[c] /\ c \in effects /\ Granted(c)
        BY <2>1, <2>3, DeadByCrash, ZenonT(60) DEF Granted
      <3>2. \E i \in 1..cert : chain[i] = IntentOf(conn[c].id, conn[c].kind)
        BY <2>1, <3>1, ZenonT(60) DEF DispatchInv, RequestAudited, AuditedBy, Granted
      <3>3. conn[c].id \notin ClosedIntents(chain)
        BY <2>1, <3>1, Persist, ZenonT(60) DEF PendingIntents
      <3>4. conn[c].id \in PendingIntents(chain)
        <4>1. PICK i \in 1..cert : chain[i] = IntentOf(conn[c].id, conn[c].kind)
          BY <3>2
        <4>2. i \in 1..Len(chain)
          BY <2>1 DEF TypeOK
        <4>3. chain[i].phase = "Intent" /\ chain[i].id = conn[c].id
          BY <4>1 DEF IntentOf
        <4> QED
          BY <3>3, <4>2, <4>3, ZenonT(60) DEF PendingIntents, SeenIntents
      <3>5. ~Leased
        BY <3>1, <3>4, ZenonT(60) DEF InDoubtStaysLocked
      <3> QED
        BY <2>1, <3>4, <3>5, StaysUnleased, ZenonT(60)
    <2> QED
      BY <2>2, <2>3
  <1>2. Init => InDoubtStaysLocked
    BY ZenonT(60) DEF Init, InDoubtStaysLocked
  <1> QED
    BY <1>1, <1>2, DispatchInvariant, PTL DEF Spec

-----------------------------------------------------------------------------
(* The budget of a grant, for every set of connections and grants: counting *)
(* what DispatchInv says of single requests.                                *)

Claimed(g) == {c \in spent : conn[c].grant = g}

\* Every unit that left a budget was claimed by a request of its own.
BudgetKept ==
    /\ IsFiniteSet(spent)
    /\ \A g \in Grants : Cardinality(Claimed(g)) = IF reg[g] = "none" THEN 0 ELSE Budget - remaining[g]

\* Only spend_budget takes units, and only issue_grant provides them.
LEMMA RemainingSteps ==
  ASSUME DispatchInv, [Next]_vars, NEW g \in Grants
  PROVE  \/ \E c \in Conns : SpendBudget(c)
         \/ IssueGrant(g)
         \/ remaining'[g] = remaining[g] /\ (reg'[g] = "none" <=> reg[g] = "none")
  <1> DEFINE Goal == remaining'[g] = remaining[g] /\ (reg'[g] = "none" <=> reg[g] = "none")
  <1>a. /\ reg \in [Grants -> {"none", "live", "Exhausted", "Expired", "forgotten"}]
        /\ remaining \in [Grants -> 0..Budget]
    BY ZenonT(60) DEF DispatchInv, TypeOK
  <1>b. ASSUME reg' = Pruned, UNCHANGED remaining PROVE Goal
    BY <1>a, <1>b, ZenonT(60) DEF Pruned
  <1>c. ASSUME UNCHANGED <<reg, remaining>> PROVE Goal
    BY <1>c
  <1>1. ASSUME NEW w \in Conns \cup {Admin}, LedgerStep(w) \/ LedgerFail(w) PROVE Goal
    BY <1>1, ZenonT(60) DEF LedgerStep, LedgerWrite, LedgerCertify, LedgerRefuse, LedgerFail, registry
  <1>2. ASSUME NEW c \in Conns, Serve(c) PROVE SpendBudget(c) \/ Goal
    <2>1. CASE Exhaust(c) \/ SpendFails(c)
      BY <1>a, <2>1, ZenonT(60) DEF Exhaust, SpendFails, Terminated, Pruned
    <2>2. CASE IntentPersisted(c) \/ IntentFailed(c) \/ CheckQuarantine(c) \/ DispatchEnds(c) \/ OutcomePersisted(c)
               \/ OutcomeFailed(c) \/ OutcomeInterrupted(c) \/ Finalize(c) \/ \E d \in Decisions : TerminalFrame(c, d)
      BY <2>2, ZenonT(60) DEF IntentPersisted, IntentFailed, CheckQuarantine, TerminalFrame, DispatchEnds,
                  OutcomePersisted, OutcomeFailed, OutcomeInterrupted, Finalize, registry
    <2> QED
      BY <1>2, <2>1, <2>2, ZenonT(60) DEF Serve
  <1>3. ASSUME UnlockVerify \/ UnlockPublish \/ UnlockFail \/ PoolExpire \/ Shutdown \/ ResolveEnd \/ UNCHANGED vars
        PROVE  Goal
    BY <1>3, ZenonT(60) DEF UnlockVerify, UnlockPublish, UnlockFail, PoolExpire, Shutdown, ResolveEnd, registry, vars
  <1>4. ASSUME NEW h \in Grants, IssueGrant(h), h # g PROVE Goal
    BY <1>a, <1>4, ZenonT(60) DEF IssueGrant, Pruned
  <1>5. ASSUME NEW h \in Grants, GrantExpires(h) PROVE Goal
    BY <1>5, ZenonT(60) DEF GrantExpires
  <1>6. ASSUME PruneExpired \/ Crash PROVE Goal
    BY <1>a, <1>6, ZenonT(60) DEF PruneExpired, Crash, Pruned
  <1>7. ASSUME NEW c \in Conns, NEW id \in RequestIds, NEW kind \in Bindings,
               AcceptDirect(c, id, kind) \/ \E h \in Grants : AcceptGrant(c, id, kind, h)
        PROVE  Goal
    BY <1>7, <1>b, <1>c, ZenonT(60) DEF AcceptDirect, AcceptGrant, registry
  <1>8. ASSUME NEW c \in Conns, RejectGrant(c) \/ DeadlinePasses(c) \/ Effect(c) PROVE Goal
    BY <1>8, <1>b, <1>c, ZenonT(60) DEF RejectGrant, DeadlinePasses, Effect, registry
  <1>9. ASSUME NEW id \in RequestIds, ResolveBegin(id) PROVE Goal
    BY <1>9, ZenonT(60) DEF ResolveBegin, registry
  <1> HIDE DEF Goal
  <1>10. (\E c \in Conns : SpendBudget(c)) \/ IssueGrant(g) \/ Goal
    BY <1>1, <1>2, <1>3, <1>4, <1>5, <1>6, <1>7, <1>8, <1>9, ZenonT(60) DEF Next, Environment
  <1> QED
    BY <1>10, ZenonT(60) DEF Goal

LEMMA StepBudget == DispatchInv /\ BudgetKept /\ [Next]_vars => BudgetKept'
  <1> SUFFICES ASSUME DispatchInv, BudgetKept, [Next]_vars PROVE BudgetKept'
    OBVIOUS
  <1> USE DispatchAssumption
  <1>1. /\ \A d \in spent : conn'[d].grant = conn[d].grant
        /\ spent' = spent \/ \E c \in Conns : SpendBudget(c)
    BY StepClaims, ZenonT(60)
  <1>2. /\ IsFiniteSet(spent) /\ remaining \in [Grants -> 0..Budget] /\ conn \in [Conns -> Requests] /\ spent \subseteq Conns
        /\ \A c \in Conns : ClaimsFirst(c) /\ RequestShape(c)
        /\ \A g \in Grants : Cardinality(Claimed(g)) = IF reg[g] = "none" THEN 0 ELSE Budget - remaining[g]
    BY ZenonT(60) DEF DispatchInv, BudgetKept, TypeOK
  <1>3. ASSUME NEW c \in Conns, SpendBudget(c) PROVE BudgetKept'
    <2> DEFINE h == conn[c].grant
    <2>1. h \in Grants /\ reg[h] # "none" /\ c \notin spent
      <3>1. conn[c] \in Requests /\ Granted(c)
        BY <1>2, <1>3, ZenonT(60) DEF SpendBudget, RequestShape
      <3> QED
        BY <1>2, <1>3, <3>1, ZenonT(60) DEF SpendBudget, RequestShape, Granted, Requests, ClaimsFirst, Before
    <2>2. spent' = spent \cup {c} /\ reg' = reg /\ remaining' = [remaining EXCEPT ![h] = @ - 1]
      BY <1>3, ZenonT(60) DEF SpendBudget
    <2>3. \A d \in Conns : conn'[d].grant = conn[d].grant
      <3>1. conn' = [conn EXCEPT ![c].pc = IF remaining'[h] = 0 THEN "exhaust" ELSE "dispatch"]
        BY <1>3, ZenonT(60) DEF SpendBudget, Goto
      <3> QED
        BY <1>2, <3>1, ZenonT(60) DEF Requests
    <2>4. IsFiniteSet(spent')
      BY <1>2, <2>2, FS_AddElement, ZenonT(60)
    <2>5. ASSUME NEW g \in Grants
          PROVE  Cardinality(Claimed(g))' = IF reg'[g] = "none" THEN 0 ELSE Budget - remaining'[g]
      <3>1. CASE g = h
        <4>1. Claimed(g)' = Claimed(g) \cup {c}
          BY <1>2, <2>2, <2>3, <3>1, ZenonT(60) DEF Claimed
        <4>2. c \notin Claimed(g) /\ IsFiniteSet(Claimed(g))
          BY <1>2, <2>1, FS_Subset, ZenonT(60) DEF Claimed
        <4>3. Cardinality(Claimed(g) \cup {c}) = Cardinality(Claimed(g)) + 1
          BY <4>2, FS_AddElement, ZenonT(60)
        <4>4. remaining'[g] = remaining[g] - 1 /\ remaining[g] \in 0..Budget
          BY <1>2, <2>2, <3>1, ZenonT(60)
        <4>5. Cardinality(Claimed(g)) = Budget - remaining[g]
          BY <1>2, <2>1, <3>1, ZenonT(60)
        <4> QED
          BY <2>1, <2>2, <3>1, <4>1, <4>3, <4>4, <4>5
      <3>2. CASE g # h
        <4>1. Claimed(g)' = Claimed(g)
          BY <1>2, <2>2, <2>3, <3>2, ZenonT(60) DEF Claimed
        <4> QED
          BY <1>2, <2>2, <3>2, <4>1, ZenonT(60)
      <3> QED
        BY <3>1, <3>2, ZenonT(60)
    <2> QED
      BY <2>4, <2>5, ZenonT(60) DEF BudgetKept
  <1>4. CASE ~\E c \in Conns : SpendBudget(c)
    <2>1. spent' = spent
      BY <1>1, <1>4, ZenonT(60)
    <2>2. ASSUME NEW g \in Grants
          PROVE  Cardinality(Claimed(g))' = IF reg'[g] = "none" THEN 0 ELSE Budget - remaining'[g]
      <3>1. Claimed(g)' = Claimed(g)
        BY <1>1, <2>1, ZenonT(60) DEF Claimed
      <3>2. CASE IssueGrant(g)
        <4>1. reg[g] = "none" /\ remaining'[g] = Budget
          BY <1>2, <3>2, ZenonT(60) DEF IssueGrant
        <4> QED
          BY <1>2, <3>1, <4>1
      <3>3. CASE remaining'[g] = remaining[g] /\ (reg'[g] = "none" <=> reg[g] = "none")
        BY <1>2, <3>1, <3>3, ZenonT(60)
      <3> QED
        BY <1>4, <3>2, <3>3, RemainingSteps, ZenonT(60)
    <2> QED
      BY <1>2, <2>1, <2>2, ZenonT(60) DEF BudgetKept
  <1> QED
    BY <1>3, <1>4, ZenonT(60)

\* What left a budget is what requests claimed, in every reachable state.
THEOREM BudgetInvariant == Spec => []BudgetKept
  <1>1. Init => BudgetKept
    <2> SUFFICES ASSUME Init PROVE BudgetKept
      OBVIOUS
    <2>1. \A g \in Grants : Claimed(g) = {}
      BY DEF Init, Claimed
    <2> QED
      BY <2>1, FS_EmptySet, ZenonT(60) DEF Init, BudgetKept
  <1> QED
    BY <1>1, StepBudget, DispatchInvariant, PTL DEF Spec

\* No grant is used for more operations than its budget: an operation is
\* dispatched only by a request that took a unit for itself (spend_budget).
THEOREM BudgetSafe == Spec => []BudgetRespected
  <1>1. DispatchInv /\ BudgetKept => BudgetRespected
    <2> SUFFICES ASSUME DispatchInv, BudgetKept, NEW g \in Grants
                 PROVE  Cardinality({c \in effects : conn[c].grant = g}) <= Budget
      BY ZenonT(60) DEF BudgetRespected
    <2> DEFINE E == {c \in effects : conn[c].grant = g}
    <2>1. IsFiniteSet(Claimed(g)) /\ Cardinality(Claimed(g)) \in Nat
      BY FS_Subset, FS_CardinalityType, ZenonT(60) DEF BudgetKept, Claimed
    <2>2. E \subseteq Claimed(g)
      BY DispatchAssumption, ZenonT(60) DEF DispatchInv, ClaimsFirst, Claimed, Granted, TypeOK
    <2>3. Cardinality(E) <= Cardinality(Claimed(g)) /\ Cardinality(E) \in Nat
      BY <2>1, <2>2, FS_Subset, FS_CardinalityType, ZenonT(60)
    <2>4. Cardinality(Claimed(g)) <= Budget
      BY DispatchAssumption DEF DispatchInv, BudgetKept, TypeOK
    <2> QED
      BY <2>1, <2>3, <2>4, DispatchAssumption
  <1> QED
    BY <1>1, DispatchInvariant, BudgetInvariant, PTL

===============================================================================
