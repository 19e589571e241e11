------------------------------ MODULE RemoteJob ------------------------------
(***************************************************************************)
(* One remote job: the helper process that runs it on the server, the child *)
(* it supervises, the journal and the receipt it leaves on disk, the relay  *)
(* to the controller, and the controller as the session validators of the   *)
(* protocol and the reconciliation of the jobs library define it.           *)
(*                                                                          *)
(* A helper session is one serctl-remote process.  A controller that lost   *)
(* one may start another for the same job, or ask by "receipt --stdio" what *)
(* became of it.  MACs and digests are ideal: a receipt is what the helper  *)
(* that wrote it put there, and an output digest stands for how much of the *)
(* stream it covers.                                                        *)
(***************************************************************************)
EXTENDS Policy

CONSTANTS
  Sessions,        \* bound: helper sessions of the job
  Streams,         \* stdout and stderr
  MaxOutputBytes,  \* the job's output budget, in chunks
  Chunks,          \* bound: chunks the child writes to each stream
  QueueCapacity,   \* frames the output relay holds (8 in the code)
  Remote, Relay, Retention,  \* the three deadlines
  MaxTime,         \* bound: the clock
  MaxBeats,        \* bound: heartbeats of a session
  Uid,             \* the helper's effective UID
  Requests, Plain, \* what Start frames ask for; Plain, one that is in order
  MaxFaults        \* bound: kills, failed writes and reads, lost links, a clock set
                   \* back, cancels

ASSUME JobAssumption ==
  /\ Remote \in Nat /\ Relay \in Nat /\ Retention \in Nat /\ MaxTime \in Nat
  /\ 0 < Remote /\ Remote <= Relay /\ Relay <= Retention
  /\ MaxOutputBytes \in Nat \ {0} /\ QueueCapacity \in Nat \ {0}

VARIABLES
  now,         \* the server's clock
  faults,      \* of these so far
  journal,     \* <job>.journal
  receipt,     \* <job>.receipt
  helper,      \* the sessions
  child,       \* the process each session started
  queue,       \* frames of each session on the way to the controller
  request,     \* what the Start frame on its way to a helper asks for
  linked,      \* the session's relay is connected
  cancelled,   \* a Cancel frame is in the session's input
  controller   \* the controller's session, validator and record

Fault == faults < MaxFaults /\ faults' = faults + 1

disk == <<journal, receipt>>
link == <<linked, cancelled, request>>
vars == <<now, faults, disk, helper, child, queue, link, controller>>

Helpers == 1..Sessions
Zero == [s \in Streams |-> 0]
NoJournal == [stage |-> "none", ordinal |-> 0, updated |-> 0]
NoReceipt == [outcome |-> "none", completed |-> 0, out |-> Zero]
NoChild == [state |-> "none", signalled |-> FALSE, written |-> Zero, taken |-> Zero,
            unread |-> {}]
NoHelper ==
  [pc |-> "off", record |-> NoJournal, termination |-> "none",
   status |-> "none", closed |-> {}, out |-> Zero, available |-> TRUE]
NoSession ==
  [session |-> 0, phase |-> "none", out |-> Zero, ordinal |-> 0,
   terminal |-> NoReceipt, stage |-> "none"]

Terminal == {"Completed", "Failed", "Cancelled"}

\* The stage a receipt's outcome stands for: exit 0, a cancellation, anything else.
StageOf(outcome) ==
  CASE outcome = "exit0" -> "Completed"
    [] outcome = "cancelled" -> "Cancelled"
    [] OTHER -> "Failed"

-----------------------------------------------------------------------------
(* The clock rules of a job's deadlines and of its record.                  *)

validate_at == now < Remote /\ Remote <= Relay /\ Relay <= Retention

submitted == [stage |-> "Submitted", ordinal |-> 0, updated |-> now]

CanRun(record) == record.stage = "Submitted" /\ now >= record.updated /\ now < Remote
mark_running(record) == [record EXCEPT !.stage = "Running", !.updated = now]

CanBeat(record, ordinal, out) ==
  /\ record.stage \in {"Running", "Cancelling"}
  /\ ordinal > record.ordinal
  /\ SumFunction(out) <= MaxOutputBytes
  /\ now >= record.updated
observe_heartbeat(record, ordinal) == [record EXCEPT !.ordinal = ordinal, !.updated = now]

CanForget(record) == record.stage \notin Terminal /\ now >= record.updated
mark_unknown(record) == [record EXCEPT !.stage = "Unknown", !.updated = now]

\* What the holder of the token accepts, now, as the job's result.
verify(r) == r.outcome # "none" /\ r.completed <= Relay /\ r.completed <= now /\ now <= Retention

\* A missing receipt leaves the outcome open; an authentic one settles it.
reconcile(r) == IF r.outcome = "none" THEN "Unknown" ELSE StageOf(r.outcome)

-----------------------------------------------------------------------------
(* The helper's output relay: a bounded queue and the thread that drains it. *)

\* try_frame never waits: it fails on a full queue and once the output thread
\* stopped at a broken pipe (what it still takes before that goes nowhere).
CanQueue(h) == linked[h] /\ Len(queue[h]) < QueueCapacity

\* A frame offered while delivery is on.  A failed offer turns delivery off.
Offered(h) == helper[h].available /\ CanQueue(h)
try_frame(h, frame) ==
  queue' = IF Offered(h) THEN [queue EXCEPT ![h] = Append(@, frame)] ELSE queue

\* The process is over: what its relay had not yet written is lost.
Ends(h) ==
  /\ helper' = [helper EXCEPT ![h] = [NoHelper EXCEPT !.pc = "gone"]]
  /\ \E n \in 0..Len(queue[h]) : queue' = [queue EXCEPT ![h] = SubSeq(@, 1, n)]

-----------------------------------------------------------------------------
(* The helper: serve_stdio, then run_job.                                   *)

Frame(kind) == [kind |-> kind, stream |-> "none", at |-> 0, ordinal |-> 0, out |-> Zero,
                terminal |-> NoReceipt]

\* The intent prepare puts to the policy: the request as a process to run under
\* the helper's own UID, for the time left to the remote deadline.
Intent(start) ==
  [capability |-> "ProcessRun", run_as |-> [kind |-> "uid", is |-> Uid],
   program |-> {start.program}, argv |-> start.argv, env |-> start.env, paths |-> start.cwd,
   deadline |-> IF now < Remote THEN Remote - now ELSE 0,
   budget |-> [l \in Limits |-> CASE l = "output" -> MaxOutputBytes
                                  [] l \in {"parallel", "operations"} -> 1
                                  [] OTHER -> 0]]

\* Both digests, the deadlines, the UID and the policy are in order.
Admitted(start) ==
  LET ir == compile_policy(start.document) IN
  /\ start.intact
  /\ ir # Denied /\ ir = compile_policy(start.named)
  /\ validate_at
  /\ Uid # "0" /\ start.uid = Uid
  /\ evaluate_intent(ir, Intent(start))

\* serve_stdio answers the Hello before it reads the Start.
Greet(h) ==
  /\ helper[h].pc = "hello"
  /\ try_frame(h, Frame("Hello"))
  /\ helper' = [helper EXCEPT ![h].pc = "start"]
  /\ UNCHANGED <<now, faults, disk, child, link, controller>>

\* The Start is admitted and its executable, directory and store are found.
prepare(h) ==
  /\ helper[h].pc = "start" /\ Admitted(request)
  /\ helper' = [helper EXCEPT ![h].pc = "create"]
  /\ request' = Plain
  /\ UNCHANGED <<now, faults, disk, child, queue, linked, cancelled, controller>>

\* Or it is refused: executable, directory and store may be at fault too.
DenyStart(h) ==
  /\ helper[h].pc = "start"
  /\ try_frame(h, Frame("Error"))
  /\ helper' = [helper EXCEPT ![h].pc = "flush"]
  /\ request' = Plain
  /\ UNCHANGED <<now, faults, disk, child, linked, cancelled, controller>>

\* Mutant: the journal of an earlier session is replaced.
CreateOrReplace(h) ==
  /\ helper[h].pc = "create"
  /\ journal' = submitted
  /\ helper' = [helper EXCEPT ![h].pc = "mark", ![h].record = submitted]
  /\ UNCHANGED <<now, faults, receipt, child, queue, link, controller>>

\* The journal is created, never replaced: the job id is taken from here on.
create_journal(h) ==
  /\ helper[h].pc = "create"
  /\ IF validate_at /\ journal = NoJournal
     THEN /\ journal' = submitted
          /\ helper' = [helper EXCEPT ![h].pc = "mark", ![h].record = submitted]
          /\ UNCHANGED queue
     ELSE Ends(h) /\ UNCHANGED journal
  /\ UNCHANGED <<now, faults, receipt, child, link, controller>>

MarkRunning(h) ==
  /\ helper[h].pc = "mark"
  /\ LET r == mark_running(helper[h].record) IN
     IF CanRun(helper[h].record)
     THEN /\ journal' = r
          /\ helper' = [helper EXCEPT ![h].pc = "spawn", ![h].record = r]
          /\ UNCHANGED queue
     ELSE Ends(h) /\ UNCHANGED journal
  /\ UNCHANGED <<now, faults, receipt, child, link, controller>>

Spawn(h) ==
  /\ helper[h].pc = "spawn"
  /\ child' = [child EXCEPT ![h] = [NoChild EXCEPT !.state = "running"]]
  /\ helper' = [helper EXCEPT ![h].pc = "loop"]
  /\ UNCHANGED <<now, faults, disk, queue, link, controller>>

\* Mutant: a job without a remote deadline.
ReasonToCancel(h) ==
  CASE helper[h].termination # "none" -> helper[h].termination
    [] cancelled[h] -> "cancelled"
    [] OTHER -> "none"

\* A reason to end the job, once found, is kept.  The input has one frame to find,
\* this job's Cancel: read_input's validator makes an error of any other, which ends
\* the relay and not the job, so that ProtocolViolation is never the reason.
Reason(h) ==
  CASE helper[h].termination # "none" -> helper[h].termination
    [] now >= Remote -> "deadline"
    [] cancelled[h] -> "cancelled"
    [] OTHER -> "none"

\* The loop's parts, in whatever order the world lets them find something: first
\* the deadlines, the input, and the kill they may call for.
Supervise(h) ==
  /\ helper[h].pc = "loop"
  /\ helper' = [helper EXCEPT ![h].termination = Reason(h),
                              ![h].available = @ /\ now <= Relay /\ linked[h]]
  /\ child' = [child EXCEPT
                 ![h].signalled = @ \/ (Reason(h) # "none" /\ helper[h].status = "none")]
  /\ UNCHANGED <<now, faults, disk, queue, link, controller>>

\* The child outlives its kill by CANCEL_WAIT: the outcome is unknown.
GiveUp(h) ==
  /\ helper[h].pc = "loop" /\ child[h].signalled /\ child[h].state = "running"
  /\ journal' = IF CanForget(helper[h].record) THEN mark_unknown(helper[h].record) ELSE journal
  /\ Ends(h)
  /\ UNCHANGED <<now, faults, receipt, child, link, controller>>

\* One chunk of output: beyond the budget it is dropped and ends the job,
\* within it is hashed, counted and offered to the relay.
TakeChunk(h, s) ==
  /\ helper[h].pc = "loop"
  /\ child[h].taken[s] < child[h].written[s] /\ s \notin child[h].unread
  /\ child' = [child EXCEPT ![h].taken[s] = @ + 1]
  /\ LET frame == [Frame("Output") EXCEPT !.stream = s, !.at = helper[h].out[s]] IN
     IF SumFunction(helper[h].out) + 1 > MaxOutputBytes
     THEN /\ helper' = [helper EXCEPT
                          ![h].termination = IF @ = "none" THEN "limit" ELSE @]
          /\ UNCHANGED queue
     ELSE /\ helper' = [helper EXCEPT ![h].out[s] = @ + 1, ![h].available = Offered(h)]
          /\ try_frame(h, frame)
  /\ UNCHANGED <<now, faults, disk, link, controller>>

\* The stream's reader saw the end of the pipe.
TakeClosed(h, s) ==
  /\ helper[h].pc = "loop" /\ s \notin helper[h].closed /\ s \notin child[h].unread
  /\ child[h].state \notin {"none", "running"} /\ child[h].taken[s] = child[h].written[s]
  /\ helper' = [helper EXCEPT ![h].closed = @ \cup {s}]
  /\ UNCHANGED <<now, faults, disk, child, queue, link, controller>>

\* The stream's reader failed: the stream counts as failed, not as closed.
TakeReadFailed(h, s) ==
  /\ Fault
  /\ helper[h].pc = "loop" /\ s \notin helper[h].closed \cup child[h].unread
  /\ child' = [child EXCEPT ![h].unread = @ \cup {s}]
  /\ helper' = [helper EXCEPT ![h].termination = IF @ = "none" THEN "unreadable" ELSE @]
  /\ UNCHANGED <<now, disk, queue, link, controller>>

\* The wait status a poll finds.
try_wait(h) ==
  IF helper[h].status = "none" /\ child[h].state # "running"
  THEN child[h].state ELSE helper[h].status

\* Status and both ends of output known: the loop is left.
Over(h) == try_wait(h) # "none" /\ helper[h].closed = Streams

\* Then the child's status, and whether the loop is over.
Poll(h) ==
  /\ helper[h].pc = "loop"
  /\ helper' = [helper EXCEPT ![h].status = try_wait(h),
                              ![h].pc = IF Over(h) THEN "issue" ELSE "loop"]
  /\ UNCHANGED <<now, faults, disk, child, queue, link, controller>>

\* The same with a heartbeat that is due: journal first, then the relay.
Beat(h) ==
  LET n == helper[h].record.ordinal + 1
      frame == [Frame("Heartbeat") EXCEPT !.ordinal = n, !.out = helper[h].out]
      r == observe_heartbeat(helper[h].record, n) IN
  /\ helper[h].pc = "loop" /\ helper[h].record.ordinal < MaxBeats
  /\ IF CanBeat(helper[h].record, n, helper[h].out)
     THEN /\ journal' = r
          /\ try_frame(h, frame)
          /\ helper' = [helper EXCEPT ![h].status = try_wait(h), ![h].record = r,
                                      ![h].available = Offered(h),
                                      ![h].pc = IF Over(h) THEN "issue" ELSE "loop"]
     ELSE Ends(h) /\ UNCHANGED journal
  /\ UNCHANGED <<now, faults, receipt, child, link, controller>>

\* The outcome: a reason to end decides before the child's own status.
Outcome(h) ==
  CASE helper[h].termination = "cancelled" -> "cancelled"
    [] helper[h].termination = "deadline" -> "deadline"
    [] helper[h].termination # "none" -> "exit125"
    [] helper[h].status = "killed" -> "exit125"
    [] OTHER -> helper[h].status

\* The receipt is created, never replaced.
persist_receipt(h) ==
  /\ helper[h].pc = "issue"
  /\ IF receipt = NoReceipt
     THEN /\ receipt' = [outcome |-> Outcome(h), completed |-> now, out |-> helper[h].out]
          /\ helper' = [helper EXCEPT ![h].pc = "finish"]
          /\ UNCHANGED queue
     ELSE Ends(h) /\ UNCHANGED receipt
  /\ UNCHANGED <<now, faults, journal, child, link, controller>>

\* Then the journal's stage follows it.
FinishJournal(h) ==
  /\ helper[h].pc = "finish"
  /\ LET r == [helper[h].record EXCEPT !.stage = StageOf(receipt.outcome),
                                       !.updated = receipt.completed] IN
     /\ journal' = r
     /\ helper' = [helper EXCEPT ![h].pc = "deliver", ![h].record = r]
  /\ UNCHANGED <<now, faults, receipt, child, queue, link, controller>>

\* The receipt, then the exit, as far as the queue takes them; the relay may write
\* in between.
try_final(h) ==
  /\ helper[h].pc = "deliver"
  /\ try_frame(h, [Frame("Receipt") EXCEPT !.terminal = receipt])
  /\ helper' = [helper EXCEPT ![h].pc = IF Offered(h) THEN "exit" ELSE "flush"]
  /\ UNCHANGED <<now, faults, disk, child, link, controller>>

OfferExit(h) ==
  /\ helper[h].pc = "exit"
  /\ try_frame(h, [Frame("Exit") EXCEPT !.terminal = receipt])
  /\ helper' = [helper EXCEPT ![h].pc = "flush"]
  /\ UNCHANGED <<now, faults, disk, child, link, controller>>

\* The process ends, once acknowledged or after 500 ms without.
Exit(h) ==
  /\ helper[h].pc = "flush"
  /\ Ends(h)
  /\ UNCHANGED <<now, faults, disk, child, link, controller>>

-----------------------------------------------------------------------------
(* What can go wrong with a helper session.                                 *)

Alive(h) == helper[h].pc \notin {"off", "gone"}

\* A journal or receipt write fails: the session ends with the error.
WriteFails(h) ==
  /\ Fault
  /\ \/ helper[h].pc \in {"create", "mark", "spawn", "issue", "finish"}
     \/ helper[h].pc = "loop" /\ helper[h].record.ordinal < MaxBeats
  /\ Ends(h)
  /\ UNCHANGED <<now, disk, child, link, controller>>

\* The process is killed, or its host restarts and takes the child with it.
Kill(h) ==
  /\ Fault /\ Alive(h)
  /\ Ends(h)
  /\ \/ UNCHANGED child
     \/ child[h].state = "running" /\ child' = [child EXCEPT ![h].state = "killed"]
  /\ UNCHANGED <<now, disk, link, controller>>

LinkLost(h) ==
  /\ Fault /\ linked[h] /\ Alive(h)
  /\ linked' = [linked EXCEPT ![h] = FALSE]
  /\ queue' = [queue EXCEPT ![h] = <<>>]
  /\ UNCHANGED <<now, disk, helper, child, cancelled, request, controller>>

-----------------------------------------------------------------------------
(* The child.                                                               *)

Write(h, s) ==
  /\ Alive(h) /\ child[h].state = "running" /\ child[h].written[s] < Chunks
  /\ child' = [child EXCEPT ![h].written[s] = @ + 1]
  /\ UNCHANGED <<now, faults, disk, helper, queue, link, controller>>

ExitByItself(h) ==
  /\ child[h].state = "running"
  /\ \E code \in {"exit0", "exit1"} : child' = [child EXCEPT ![h].state = code]
  /\ UNCHANGED <<now, faults, disk, helper, queue, link, controller>>

Die(h) ==
  /\ child[h].state = "running" /\ child[h].signalled
  /\ child' = [child EXCEPT ![h].state = "killed"]
  /\ UNCHANGED <<now, faults, disk, helper, queue, link, controller>>

-----------------------------------------------------------------------------
(* The clock.                                                               *)

Tick ==
  /\ now < MaxTime /\ now' = now + 1
  /\ UNCHANGED <<faults, disk, helper, child, queue, link, controller>>

SetBack ==
  /\ Fault /\ now > 0
  /\ now' = now - 1
  /\ UNCHANGED <<disk, helper, child, queue, link, controller>>

-----------------------------------------------------------------------------
(* The controller.                                                          *)

\* A session with a new helper: Hello and Start are on their way.  The first
\* session's Start is any of Requests, a later one asks for the plain job.
Start(h) ==
  /\ helper[h].pc = "off" /\ (h > 1 => helper[h - 1].pc # "off")
  /\ controller.stage \in {"none", "Unknown"}
  /\ helper' = [helper EXCEPT ![h].pc = "hello"]
  /\ linked' = [linked EXCEPT ![h] = TRUE]
  /\ request' \in IF h = 1 THEN Requests ELSE {Plain}
  /\ controller' = [NoSession EXCEPT !.session = h, !.phase = "hello", !.stage = "Running"]
  /\ UNCHANGED <<now, faults, disk, child, queue, cancelled>>

\* request_cancel and the Cancel frame; the controller sends nothing after it.
RequestCancel ==
  LET h == controller.session IN
  /\ Fault /\ controller.stage = "Running"
  /\ controller' = [controller EXCEPT !.stage = "Cancelling"]
  /\ cancelled' = IF linked[h] THEN [cancelled EXCEPT ![h] = TRUE] ELSE cancelled
  /\ UNCHANGED <<now, disk, helper, child, queue, linked, request>>

\* What the session validator accepts: output at the offset it expects and within
\* the budget, a heartbeat that counts what was delivered, the exit of the receipt.
AcceptsOutput(c, frame) ==
  frame.at = c.out[frame.stream] /\ SumFunction(c.out) + 1 <= MaxOutputBytes
AcceptsHeartbeat(c, frame) == frame.ordinal > c.ordinal /\ frame.out = c.out
AcceptsExit(c, frame) == c.phase = "authenticated" /\ frame.terminal = c.terminal

\* The receipt's MAC and bindings are verified before any Exit is accepted.
authenticate_receipt(c, r) ==
  [c EXCEPT !.phase = IF verify(r) THEN "authenticated" ELSE "denied", !.terminal = r]

\* The validator's next state, or a rejection.
validate(c, frame) ==
  CASE c.phase = "hello" /\ frame.kind = "Hello" -> [c EXCEPT !.phase = "streaming"]
    [] c.phase = "streaming" /\ frame.kind = "Output" /\ AcceptsOutput(c, frame)
       -> [c EXCEPT !.out[frame.stream] = @ + 1]
    [] c.phase = "streaming" /\ frame.kind = "Heartbeat" /\ AcceptsHeartbeat(c, frame)
       -> [c EXCEPT !.ordinal = frame.ordinal]
    [] c.phase = "streaming" /\ frame.kind = "Receipt" -> authenticate_receipt(c, frame.terminal)
    [] c.phase = "streaming" /\ frame.kind = "Error" -> [c EXCEPT !.phase = "refused"]
    [] frame.kind = "Exit" /\ AcceptsExit(c, frame)
       -> [NoSession EXCEPT !.phase = "terminal", !.stage = reconcile(c.terminal)]
    [] OTHER -> [c EXCEPT !.phase = "rejected"]

Receive ==
  LET h == controller.session IN
  /\ controller.phase \in {"hello", "streaming", "authenticated"}
  /\ queue[h] # <<>>
  /\ controller' = validate(controller, Head(queue[h]))
  /\ queue' = [queue EXCEPT ![h] = Tail(@)]
  /\ UNCHANGED <<now, faults, disk, helper, child, link>>

\* A disconnect, the relay deadline or an unverifiable receipt is inconclusive.
Disconnect ==
  LET h == controller.session IN
  /\ controller.stage \in {"Running", "Cancelling"}
  /\ \/ ~linked[h] \/ now > Relay \/ controller.phase \in {"refused", "denied"}
     \/ helper[h].pc = "gone" /\ queue[h] = <<>>
  /\ controller' = [NoSession EXCEPT !.stage = "Unknown"]
  /\ linked' = [linked EXCEPT ![h] = FALSE]
  /\ queue' = [queue EXCEPT ![h] = <<>>]
  /\ UNCHANGED <<now, faults, disk, helper, child, cancelled, request>>

\* receipt_stdio: with a journal that is not past its retention and a receipt
\* that verifies, the answer settles the record; any other answer, and a lost
\* one, leaves it unknown.
receipt_stdio ==
  /\ controller.stage = "Unknown"
  /\ journal # NoJournal /\ now <= Retention /\ verify(receipt)
  /\ controller' = [controller EXCEPT !.stage = reconcile(receipt)]
  /\ UNCHANGED <<now, faults, disk, helper, child, queue, link>>

-----------------------------------------------------------------------------
Init ==
  /\ now = 0 /\ faults = 0
  /\ journal = NoJournal /\ receipt = NoReceipt
  /\ helper = [h \in Helpers |-> NoHelper]
  /\ child = [h \in Helpers |-> NoChild]
  /\ queue = [h \in Helpers |-> <<>>]
  /\ linked = [h \in Helpers |-> FALSE] /\ cancelled = [h \in Helpers |-> FALSE]
  /\ request = Plain
  /\ controller = NoSession

Turn(h) ==
  \/ Supervise(h)
  \/ \E s \in Streams : TakeChunk(h, s) \/ TakeClosed(h, s)
  \/ Poll(h) \/ Beat(h)

Serve(h) ==
  \/ Greet(h) \/ prepare(h) \/ DenyStart(h)
  \/ create_journal(h) \/ MarkRunning(h) \/ Spawn(h)
  \/ Turn(h)
  \/ persist_receipt(h) \/ FinishJournal(h) \/ try_final(h) \/ OfferExit(h) \/ Exit(h)

Disturb(h) ==
  \/ GiveUp(h) \/ WriteFails(h) \/ Kill(h) \/ LinkLost(h)
  \/ \E s \in Streams : TakeReadFailed(h, s)

Work(h) ==
  \/ \E s \in Streams : Write(h, s)
  \/ ExitByItself(h) \/ Die(h)

Control == RequestCancel \/ Receive \/ Disconnect \/ receipt_stdio

Next ==
  \/ \E h \in Helpers : Start(h) \/ Serve(h) \/ Disturb(h) \/ Work(h)
  \/ Tick \/ SetBack
  \/ Control

Spec == Init /\ [][Next]_vars

FairSpec ==
  /\ Spec
  /\ WF_vars(Tick)
  /\ \A h \in Helpers : WF_vars(Serve(h)) /\ WF_vars(Die(h))
-----------------------------------------------------------------------------
(* Properties.                                                              *)

Stages == {"none", "Submitted", "Running", "Cancelling", "Unknown"} \cup Terminal
Counts == [Streams -> 0..Chunks]

TypeOK ==
  /\ now \in 0..MaxTime /\ faults \in 0..MaxFaults
  /\ journal \in [stage : Stages, ordinal : 0..MaxBeats, updated : 0..MaxTime]
  /\ receipt.completed \in 0..MaxTime /\ receipt.out \in Counts
  /\ \A h \in Helpers :
       /\ helper[h].closed \subseteq Streams /\ helper[h].out \in Counts
       /\ child[h].taken \in Counts /\ child[h].written \in Counts
       /\ Len(queue[h]) <= QueueCapacity

\* A receipt on disk is the truth about a job that is over (run_job persists it
\* only after the child was reaped and both pipes were read to their end): no
\* child of the job runs any more, and one that says "exited 0" means that the
\* child exited so by itself, was never signalled, and that the digests cover
\* everything it wrote.
ReceiptIsTrue ==
  receipt # NoReceipt =>
    \E h \in Helpers :
      /\ child[h].state \notin {"none", "running"}
      /\ receipt.outcome = "exit0" =>
           /\ child[h].state = "exit0" /\ ~child[h].signalled
           /\ receipt.out = child[h].written

\* However often the controller starts the job again after losing a session, one
\* child at most is ever started for it (create_journal never replaces).
RunsOnce ==
  \A g, h \in Helpers : child[g].state # "none" /\ child[h].state # "none" => g = h

\* Nobody knows more than the receipt: a terminal stage, in the helper's journal
\* or in the controller's record, is the stage of the one receipt on disk.  A
\* crash, a lost session or a missing receipt leaves the job running or unknown.
KnownByReceipt ==
  \A stage \in {journal.stage, controller.stage} \cap Terminal :
    receipt # NoReceipt /\ stage = StageOf(receipt.outcome)

\* The controller's validator accepts every stream the helper's relay can
\* produce: a frame lost to a full queue, to the relay deadline or to a broken
\* pipe is never followed by another, so offsets and heartbeats stay in step.
HonestStreamAccepted == controller.phase # "rejected"

\* What is known of a job is true, and it ran once.
JobIsKnown == ReceiptIsTrue /\ RunsOnce /\ KnownByReceipt /\ HonestStreamAccepted

\* Whatever a helper goes on to run lies within the document it was sent, and the
\* document within its base (prepare, compile_policy, evaluate_intent): never as
\* root nor as another user, a program the base has, under whatever spelling, and
\* that no rule denies under whatever spelling, no flag that hands it a command line, no key of the environment beyond
\* the selection, the remote deadline no further off than the narrowed limit.
\* And a policy that is another one than the controller named runs nothing.
AdmittedWithinPolicy ==
  [][\A h \in Helpers :
       helper[h].pc = "start" /\ helper'[h].pc = "create" =>
         LET d == request.document
             program == normalize_program_identifier(request.program) IN
         /\ d.base = "Red" /\ request.uid # "0" /\ [kind |-> "uid", is |-> request.uid] \in d.run_as
         /\ program \in template_programs(d.base)
         /\ \A rule \in Rules(d, "program") : normalize_program_identifier(rule) # program
         /\ \A i \in DOMAIN request.argv : ~is_shell_command_flag(request.argv[i])
         /\ "ProcessRun" \notin Rules(d, "capability")
         /\ d.programs # Inherit =>
              \E p \in d.programs : normalize_program_identifier(p) = program
         /\ ToSet(request.env) \subseteq
              (IF d.env_keys = Inherit THEN template_env_keys(d.base) ELSE d.env_keys)
         /\ now + (IF d.limits["deadline"] = Inherit THEN template_limits(d.base)["deadline"]
                   ELSE d.limits["deadline"]) >= Remote
         /\ compile_policy(request.named) = compile_policy(d)]_vars

\* A job that was committed ends: by itself, by its cancel or at its remote
\* deadline, and the helper with it, whatever becomes of the relay.  A stream
\* whose reader failed is the exception: the loop then waits for its end for ever.
JobEnds == []<>(\A h \in Helpers : Alive(h) => child[h].unread # {})
=============================================================================
