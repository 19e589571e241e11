--------------------------- MODULE TransferServing ---------------------------
(***************************************************************************)
(* The daemon's handling of a transfer request: the Download and           *)
(* UploadBegin arms of `dispatch_root_request_inner' and the four          *)
(* functions that move the bytes (`serve_native_download',                 *)
(* `serve_download', `serve_native_upload', `serve_upload'), together with *)
(* the status and cancel requests other connections make meanwhile.        *)
(*                                                                         *)
(* Each request is a process; a step of it ends where the code awaits.     *)
(* The destination (remote file or, for a pull, the client's file) is an   *)
(* actor of its own: it acknowledges chunks, and once asked to commit it   *)
(* may do so at any later moment, whether or not anyone still listens.     *)
(***************************************************************************)
EXTENDS TransferRegistry

CONSTANTS
  Kinds,       \* subset of {"native_push", "sftp_push", "native_pull", "sftp_pull"}
  Callers,     \* subset of {"grant", "person"}
  Faults       \* subset of {"io", "timeout", "write", "setup", "expiry", "age"}

ASSUME ServingAssumption ==
  /\ Kinds \subseteq {"native_push", "sftp_push", "native_pull", "sftp_pull"}
  /\ Callers \subseteq {"grant", "person"}
  /\ Faults \subseteq {"io", "timeout", "write", "setup", "expiry", "age"}

VARIABLES
  server,  \* the requests
  dest,    \* what each request's destination has done
  shown    \* how often a request's context was told to somebody who did not know it

vars == <<records, order, server, dest, shown>>

Waiting == {"open", "chunk", "verify", "commit", "learn"}

Labels ==
  Waiting \cup {"begin", "announce", "negotiate", "announce_backend", "setup",
                "cleanup", "report", "conclude", "expire", "closed", "left"}

Request ==
  [pc: Labels, id: Ids, owner: Owners, kind: Kinds,
   context: Servers \cup {Nothing},
   stage: Stages, confirmed: 0..Size,   \* the handler's copy of the progress
   sent: {"yes", "no"},                 \* commit_sent / commit_started
   cancelled: {"yes", "no"}]            \* the shared cancellation flag

TypeOK ==
  /\ RegistryTypeOK
  /\ server \in [Servers -> Request]
  /\ dest \in [Servers -> [acked: 0..Size, commit: {"no", "asked", "yes"}]]
  /\ shown \in [Servers -> 0..2]

Init ==
  /\ RegistryInit
  /\ server \in [Servers ->
       {[pc |-> "begin", id |-> i, owner |-> o, kind |-> k, context |-> c,
         stage |-> "negotiating", confirmed |-> 0, sent |-> "no",
         cancelled |-> "no"] :
            i \in Ids, o \in Owners, k \in Kinds, c \in Servers \cup {Nothing}}]
  /\ \A s \in Servers :
       server[s].context \in
         {s : c \in Callers \cap {"grant"}} \cup {Nothing : c \in Callers \cap {"person"}}
  /\ dest = [s \in Servers |-> [acked |-> 0, commit |-> "no"]]
  /\ shown = [s \in Servers |-> 0]

-----------------------------------------------------------------------------
At(s, label) == server[s].pc = label
Goto(s, label) == server' = [server EXCEPT ![s].pc = label]
Push(s) == server[s].kind \in {"native_push", "sftp_push"}
Native(s) == server[s].kind \in {"native_push", "native_pull"}

ProgressOf(q, event) ==
  [stage |-> q.stage, event |-> event, confirmed |-> q.confirmed,
   context |-> q.context]

\* The handler changes its own copy to q and calls `registry.update(...)?'.
Update(s, q, event, label, failed) ==
  LET p == ProgressOf(q, event)
      ok == Accepts(records[q.id], q.owner, p)
  IN  /\ \/ RegistryUpdate(q.id, q.owner, p)
         \/ ~ok /\ UNCHANGED registryVars
      /\ server' = [server EXCEPT ![s] =
                      [q EXCEPT !.pc = IF ok THEN label ELSE failed]]

\* The same with `registry.finish(...)?'.
Finish(s, stage, event, label, failed) ==
  LET q == [server[s] EXCEPT !.stage = stage]
      p == ProgressOf(q, event)
  IN  /\ RegistryFinish(q.id, q.owner, p)
      /\ server' = [server EXCEPT ![s] =
           [q EXCEPT !.pc = IF MayFinish(q.id, q.owner, p) THEN label ELSE failed]]

\* The handler reaches stage with n bytes confirmed.
Reach(s, stage, n, label) ==
  Update(s, [server[s] EXCEPT !.stage = stage, !.confirmed = n],
         "progress", label, "conclude")

\* Both error arms show the stall before they finish the record.
ShowStall(s, label) ==
  Update(s, [server[s] EXCEPT !.stage = "stalled"], "stalled", label, "closed")

-----------------------------------------------------------------------------
\* The request is accepted on an authenticated session and registered.
Begin(s) ==
  /\ At(s, "begin")
  /\ \/ /\ RegistryBegin(server[s].id, server[s].owner, s,
                         ProgressOf(server[s], "progress"))
        /\ Goto(s, "announce")
     \/ /\ ~MayBegin(server[s].id, server[s].owner)
        /\ RegistryPrune
        /\ Goto(s, "closed")
  /\ UNCHANGED <<dest, shown>>

\* The first progress frame; when it cannot be written the record is finished.
Announce(s) ==
  /\ At(s, "announce")
  /\ \/ Goto(s, "negotiate") /\ UNCHANGED registryVars
     \/ /\ "write" \in Faults
        /\ Finish(s, "failed", "failed", "closed", "closed")
  /\ UNCHANGED <<dest, shown>>

Negotiate(s) ==
  /\ At(s, "negotiate")
  /\ \/ Reach(s, "negotiating", 0, "announce_backend")
     \/ "io" \in Faults /\ Finish(s, "failed", "failed", "closed", "closed")
  /\ UNCHANGED <<dest, shown>>

\* The second progress frame is written with a bare `?': a request that has
\* "left" returned past the arms that finish the record.
AnnounceBackend(s) ==
  /\ At(s, "announce_backend")
  /\ \/ Goto(s, IF server[s].kind = "sftp_push" THEN "setup" ELSE "open")
     \/ "write" \in Faults /\ Goto(s, "left")
  /\ UNCHANGED <<registryVars, dest, shown>>

\* `serve_upload' opens its SFTP channel before its guarded block.
Setup(s) ==
  /\ At(s, "setup")
  /\ \/ Goto(s, "open")
     \/ "setup" \in Faults /\ Goto(s, "left")
  /\ UNCHANGED <<registryVars, dest, shown>>

\* The helper, or the SFTP server, accepts the transfer.  A native one may
\* start at the offset the destination already holds; that is its end when the
\* helper finds the receipt of a push which an earlier request committed.
Open(s) ==
  /\ At(s, "open")
  /\ \E n \in 0..Size :
       /\ n > 0 => Native(s)
       /\ dest' = [dest EXCEPT ![s].acked = n]
       /\ IF server[s].kind = "sftp_push"
          THEN Goto(s, "chunk") /\ UNCHANGED registryVars
          ELSE Reach(s, "transferring", n, "chunk")
  /\ UNCHANGED shown

\* The destination takes the next chunk and acknowledges it.
Acknowledge(s) ==
  /\ At(s, "chunk")
  /\ dest[s].acked = server[s].confirmed
  /\ dest[s].acked < Size
  /\ dest' = [dest EXCEPT ![s].acked = @ + 1]
  /\ UNCHANGED <<registryVars, server, shown>>

Confirm(s) ==
  /\ At(s, "chunk")
  /\ dest[s].acked > server[s].confirmed
  /\ Reach(s, "transferring", dest[s].acked, "chunk")
  /\ UNCHANGED <<dest, shown>>

\* All data is there: the size and hash checks, then Verifying.
EndOfData(s) ==
  /\ At(s, "chunk")
  /\ server[s].confirmed = Size
  /\ Reach(s, "verifying", Size, "verify")
  /\ UNCHANGED <<dest, shown>>

\* A pull tells the client that it has everything; the client commits.
AskClient(s) ==
  /\ At(s, "verify")
  /\ ~Push(s)
  /\ dest' = [dest EXCEPT ![s].commit = "asked"]
  /\ Goto(s, "learn")
  /\ UNCHANGED <<registryVars, shown>>

\* A push marks the commit as started before it asks for it.
StartCommit(s) ==
  /\ At(s, "verify")
  /\ Push(s)
  /\ Update(s, [server[s] EXCEPT !.stage = "committing", !.sent = "yes"],
            "progress", "commit", "conclude")
  /\ UNCHANGED <<dest, shown>>

\* The helper's Commit, or the hardlink request.
AskRemote(s) ==
  /\ At(s, "commit")
  /\ dest' = [dest EXCEPT ![s].commit = "asked"]
  /\ Goto(s, "learn")
  /\ UNCHANGED <<registryVars, shown>>

Commits(s) ==
  /\ dest[s].commit = "asked"
  /\ dest' = [dest EXCEPT ![s].commit = "yes"]
  /\ UNCHANGED <<registryVars, server, shown>>

\* Mutant of Learn: the request counts as the answer.
LearnUnproven(s) ==
  /\ At(s, "learn")
  /\ IF server[s].kind = "sftp_push"
     THEN Goto(s, "cleanup") /\ UNCHANGED registryVars
     ELSE Finish(s, "completed", "completed", "report", "conclude")
  /\ UNCHANGED <<dest, shown>>

\* The proof of the commit arrives.  `serve_upload' still removes its partial
\* file before it finishes the record; the others finish it here.
Learn(s) ==
  /\ At(s, "learn")
  /\ dest[s].commit = "yes"
  /\ IF server[s].kind = "sftp_push"
     THEN Goto(s, "cleanup") /\ UNCHANGED registryVars
     ELSE Finish(s, "completed", "completed", "report", "conclude")
  /\ UNCHANGED <<dest, shown>>

\* However the cleanup ends, `remote_committed' decides.
FinishCommitted(s) ==
  /\ At(s, "cleanup")
  /\ Finish(s, "completed", "completed", "report", "closed")
  /\ UNCHANGED <<dest, shown>>

\* The terminal frames.  Only `serve_upload' writes them outside the block
\* whose errors are turned into a terminal record.
Report(s) ==
  /\ At(s, "report")
  /\ \/ Goto(s, "closed") /\ UNCHANGED registryVars
     \/ /\ "write" \in Faults
        /\ \/ /\ Goto(s, IF server[s].kind = "sftp_push" THEN "closed" ELSE "conclude")
              /\ UNCHANGED registryVars
           \/ /\ server[s].kind # "sftp_push"
              /\ server[s].cancelled = "no"
              /\ ShowStall(s, "conclude")
  /\ UNCHANGED <<dest, shown>>

-----------------------------------------------------------------------------
\* Reads of the client and of the helper, and every remote step of
\* `serve_upload', also wait for the cancellation flag.
CancelSeen(s) ==
  /\ server[s].cancelled = "yes"
  /\ server[s].pc \in {"open", "chunk", "learn"} \/ server[s].kind = "sftp_push"

\* Cancellation, a disconnect, a helper error, daemon shutdown.
Bail(s) ==
  /\ server[s].pc \in Waiting
  /\ "io" \in Faults \/ CancelSeen(s)
  /\ Goto(s, "conclude")
  /\ UNCHANGED <<registryVars, dest, shown>>

\* An idle timeout.
Stall(s) ==
  /\ server[s].pc \in Waiting
  /\ "timeout" \in Faults
  /\ server[s].cancelled = "no"
  /\ ShowStall(s, "conclude")
  /\ UNCHANGED <<dest, shown>>

\* The deadline of the whole operation; in `serve_upload' it is one more
\* error of the block, and too late once the commit is known.
Deadline(s) ==
  /\ server[s].pc \in Waiting \cup {"report"}
  /\ server[s].kind # "sftp_push"
  /\ "timeout" \in Faults
  /\ ShowStall(s, "expire")
  /\ UNCHANGED <<dest, shown>>

InDoubt(s) == server[s].kind = "native_push" /\ server[s].sent = "yes"

\* Mutant of Conclude: a cancelled request is forgotten.
ConcludeSilently(s) ==
  /\ At(s, "conclude")
  /\ IF server[s].cancelled = "yes"
     THEN Goto(s, "closed") /\ UNCHANGED registryVars
     ELSE Finish(s, "failed", IF InDoubt(s) THEN "outcome_unknown" ELSE "failed",
                 "closed", "closed")
  /\ UNCHANGED <<dest, shown>>

\* The error arm, after the stalled frame was written or not.
Conclude(s) ==
  /\ At(s, "conclude")
  /\ IF InDoubt(s)
     THEN Finish(s, "failed", "outcome_unknown", "closed", "closed")
     ELSE IF server[s].cancelled = "yes"
     THEN Finish(s, "cancelled", "cancelled", "closed", "closed")
     ELSE Finish(s, "failed", "failed", "closed", "closed")
  /\ UNCHANGED <<dest, shown>>

Expire(s) ==
  /\ At(s, "expire")
  /\ Finish(s, "failed", IF InDoubt(s) THEN "outcome_unknown" ELSE "failed",
            "closed", "closed")
  /\ UNCHANGED <<dest, shown>>

\* The profile authorisation lapses: `dispatch_root_request' drops the handler.
Dropped(s) ==
  /\ "expiry" \in Faults
  /\ server[s].pc \notin {"begin", "closed", "left"}
  /\ Goto(s, "left")
  /\ UNCHANGED <<registryVars, dest, shown>>

-----------------------------------------------------------------------------
\* A reply hands out the contexts of the records in D.
Tell(r, D) ==
  shown' = [s \in Servers |->
    IF server[s].id \in D /\ r[server[s].id].by = s /\ shown[s] < 2
    THEN shown[s] + 1 ELSE shown[s]]

\* May this caller see record i of table r?
Unseen(r, i, caller, ctx) ==
  r[i].progress.context # Nothing =>
    IF ctx # Nothing THEN r[i].progress.context = ctx
    ELSE caller = "grant" => r[i].discovered = "no"

\* Contexts cannot be guessed: one is known from a status reply or from the
\* frames of the request itself.
Known(ctx) ==
  \/ ctx = Nothing
  \/ ctx # Nothing /\ shown[ctx] > 0
  \/ ctx # Nothing /\ server[ctx].pc \notin {"begin", "announce"}

\* `snapshots' visits the owner's records in no particular order and marks the
\* contexts it discloses as it goes; a record it may not show ends the call,
\* and the marks stay.  A context names one id.
Status(o, which, caller, ctx) ==
  LET r == Pruned(records)
      asked == {i \in Ids : r[i] # Nothing /\ r[i].owner = o /\ which \in {i, Nothing}}
      fresh == {i \in asked : caller = "grant" /\ ctx = Nothing
                              /\ r[i].progress.context # Nothing}
      hidden == {i \in asked : ~Unseen(r, i, caller, ctx)}
  IN  /\ Known(ctx)
      /\ ctx # Nothing => which # Nothing
      /\ \/ hidden = {} /\ RegistryDiscover(fresh) /\ Tell(r, fresh)
         \/ /\ hidden # {}
            /\ \E visited \in SUBSET (fresh \ hidden) : RegistryDiscover(visited)
            /\ UNCHANGED shown
      /\ UNCHANGED <<server, dest>>

\* A cancel request of an agent must name the context.  Bound: the first one
\* that is accepted; a second only raises the revision again.
Cancel(o, i, caller, ctx) ==
  /\ Known(ctx)
  /\ caller = "grant" => ctx # Nothing
  /\ RegistryCancel(i, o, ctx)
  /\ server[records[i].by].cancelled = "no"
  /\ server' = [server EXCEPT ![records[i].by].cancelled = "yes"]
  /\ UNCHANGED <<dest, shown>>

\* Retention is minutes and the terminal frames of a request take seconds, so
\* a record outlives the handler that finished it.
Age ==
  /\ "age" \in Faults
  /\ \E i \in Done(records) :
       /\ \A j \in Done(records) : records[j].done <= records[i].done =>
            server[records[j].by].pc \in {"closed", "left"}
       /\ RegistryAge(records[i].done)
  /\ UNCHANGED <<server, dest, shown>>

Serve(s) ==
  \/ Begin(s) \/ Announce(s) \/ Negotiate(s) \/ AnnounceBackend(s) \/ Setup(s)
  \/ Open(s) \/ Confirm(s) \/ EndOfData(s) \/ AskClient(s) \/ StartCommit(s)
  \/ AskRemote(s) \/ Learn(s) \/ FinishCommitted(s) \/ Report(s)
  \/ Bail(s) \/ Stall(s) \/ Deadline(s) \/ Conclude(s) \/ Expire(s)

Next ==
  \/ \E s \in Servers : Serve(s) \/ Acknowledge(s) \/ Commits(s) \/ Dropped(s)
  \/ \E o \in Owners, caller \in Callers, ctx \in Servers \cup {Nothing} :
       \/ \E which \in Ids \cup {Nothing} : Status(o, which, caller, ctx)
       \/ \E i \in Ids : Cancel(o, i, caller, ctx)
  \/ Age

Spec == Init /\ [][Next]_vars

\* Handlers keep running, each of their waits has a timeout; only those of
\* cancelled requests need to.
Fairness ==
  \A s \in Servers : WF_vars(server[s].cancelled = "yes" /\ Serve(s))

FairSpec == Spec /\ Fairness

-----------------------------------------------------------------------------
Bound(i) == records[i] # Nothing /\ records[i].progress.context # Nothing

\* A record of an agent's transfer never counts bytes as confirmed that the
\* destination has not acknowledged, and calls the transfer completed only when
\* all bytes are there and the destination has committed.
ClaimsAreProven ==
  \A i \in Ids : Bound(i) =>
    LET s == records[i].by
    IN  /\ records[i].progress.confirmed <= dest[s].acked
        /\ records[i].progress.stage = "completed" =>
             dest[s].commit = "yes" /\ records[i].progress.confirmed = Size

\* Only an agent's own request ends its record, also when the id was used
\* before by a request that is still writing its last frames: the request
\* behind a finished record has left its transfer loop.
EndedByItself ==
  \A i \in Ids : Bound(i) /\ i \in Done(records) =>
    /\ records[i].progress.context = records[i].by
    /\ server[records[i].by].pc \in {"report", "conclude", "expire", "closed", "left"}

\* A record that calls an agent's native push failed or cancelled, rather than
\* unknown, belongs to a request for which the destination did not commit:
\* serve_native_upload remembers that its Commit was sent.  What an earlier
\* request with the same id committed is not denied by it.
PushDenialsAreTrue ==
  \A i \in Ids :
    /\ Bound(i) /\ server[records[i].by].kind = "native_push"
    /\ records[i].progress.event \in {"failed", "cancelled"}
    => dest[records[i].by].commit # "yes"

\* What a record says of the transfer behind it is true.
ClaimsAreTrue == ClaimsAreProven /\ PushDenialsAreTrue

\* An operation context is handed to a caller that does not know it at most
\* once.
ContextShownOnce == \A s \in Servers : shown[s] <= 1

\* An active record of an agent belongs to a request that is still being handled,
\* or that left by one of the three exits that do not finish it: the second
\* progress frame, the SFTP setup of `serve_upload' and the end of the
\* authorisation.
ActiveIsServed ==
  \A i \in Active(records) : Bound(i) => ~At(records[i].by, "closed")

\* The registry holds what is being served and what has ended, within its caps,
\* and gives no context away twice.
RegistryIsSound == CapsHold /\ ActiveIsServed /\ EndedByItself /\ ContextShownOnce

\* An accepted cancellation ends: the record stops being active, unless the
\* handler was dropped or left by a bare `?'.
CancelEnds ==
  \A s \in Servers :
    (server[s].cancelled = "yes") ~>
      At(s, "left") \/ ~\E i \in Active(records) : records[i].by = s
=============================================================================
