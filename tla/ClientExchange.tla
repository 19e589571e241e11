--------------------------- MODULE ClientExchange ---------------------------
(***************************************************************************)
(* One-shot commands: exec, create-directory and list-directory, from the  *)
(* client that must tell its user what happened, through the daemon's      *)
(* handler, to the SSH session all handlers of a profile share.            *)
(*                                                                         *)
(*   client   exec_capture_with_timeout_inner, create_dir and list_dir of  *)
(*            serctl_cli/src/client.rs                                     *)
(*   handler  the Exec, CreateDir and ListDir branches of                  *)
(*            dispatch_root_request_inner, serctl_daemon/src/daemon.rs     *)
(*   session  SessionManager (daemon.rs) over SshSession                   *)
(*            (serctl_core/src/ssh.rs)                                     *)
(*                                                                         *)
(* A request travels over a channel that delivers it once or not at all    *)
(* (SecureChannel).  Every wait of the client and of the handler may end   *)
(* in its deadline, and a handler notices that its client has gone.        *)
(***************************************************************************)
EXTENDS Naturals, FiniteSets

CONSTANTS
    Clients,     \* the clients, one command each
    Commands,    \* the commands a client may have been started for
    Slots,       \* buffered_operation_slots: exec and list hold one each
    MaxSessions, \* bound: how many SSH sessions are ever established
    Nobody       \* no client

VARIABLES
    command,   \* what each client was started for
    phase,     \* how far the client is
    submitted, \* ExecSubmissionState, CreateDirSubmissionState of the client
    outcome,   \* what the client told its user
    request,   \* the request on its way: "none", "sent", "taken"
    reply,     \* the daemon's answer on its way back
    handler,   \* how far the daemon's handler is
    session,   \* the SSH session the handler works on
    retried,   \* the handler has used its second channel acquisition
    current,   \* SessionManager.current
    closed,    \* the sessions that are invalidated or disconnected
    reconnect, \* who holds SessionManager.reconnect
    pending,   \* the requests a transport has taken and the host has not
    effects,   \* how often the host carried the command out
    answer,    \* what the host answered
    stopping   \* the daemon shuts down

clientSide == <<command, phase, submitted, outcome>>
pipes      == <<request, reply>>
sessions   == <<current, closed, reconnect>>
host       == <<pending, effects, answer>>
handlers   == <<handler, session, retried>>
exchange   == <<clientSide, pipes, handlers, sessions, host, stopping>>

-----------------------------------------------------------------------------
ExchangeInit ==
    /\ command \in [Clients -> Commands]
    /\ phase = [c \in Clients |-> "start"]
    /\ submitted = [c \in Clients |-> FALSE]
    /\ outcome = [c \in Clients |-> "none"]
    /\ request = [c \in Clients |-> "none"]
    /\ reply = [c \in Clients |-> "none"]
    /\ handler = [c \in Clients |-> "none"]
    /\ session = [c \in Clients |-> 0]
    /\ retried = [c \in Clients |-> FALSE]
    /\ current = 1
    /\ closed = {}
    /\ reconnect = Nobody
    /\ pending = {}
    /\ effects = [c \in Clients |-> 0]
    /\ answer = [c \in Clients |-> "none"]
    /\ stopping = FALSE

-----------------------------------------------------------------------------
(* The client.                                                              *)

Ends(c, o) ==
    /\ phase' = [phase EXCEPT ![c] = "done"]
    /\ outcome' = [outcome EXCEPT ![c] = o]

\* classify: an error is definite while the request cannot have reached the
\* daemon, and unknown after that.  A listing changes nothing and has no such
\* state: its errors are plain.
classify(c) == IF submitted[c] /\ command[c] # "list_dir" THEN "unknown" ELSE "definite"

\* The daemon is found or started, the profile unlocked and the channel
\* opened, or one of these fails before anything was asked for.
Connects(c) ==
    /\ phase[c] = "start"
    /\ \/ /\ ~stopping
          /\ phase' = [phase EXCEPT ![c] = "connected"]
          /\ UNCHANGED outcome
       \/ Ends(c, "definite")
    /\ UNCHANGED <<command, submitted, pipes, handlers, sessions, host, stopping>>

\* write_frame_limited_with_written_callback: length and body are accepted by
\* the writer, and only then is the request noted as submitted.
WriteRequest(c) ==
    /\ phase[c] = "connected"
    /\ submitted' = [submitted EXCEPT ![c] = TRUE]
    /\ phase' = [phase EXCEPT ![c] = "flushing"]
    /\ UNCHANGED <<command, outcome, pipes, handlers, sessions, host, stopping>>

\* The flush hands the record to the transport.
FlushRequest(c) ==
    /\ phase[c] = "flushing"
    /\ request' = [request EXCEPT ![c] = "sent"]
    /\ phase' = [phase EXCEPT ![c] = "reading"]
    /\ UNCHANGED <<command, submitted, outcome, reply, handlers, sessions, host, stopping>>

\* DeadlineAwareWriter and the deadline around the reader: the client gives up
\* at any poll, or its transport fails.  A flush may fail with the record sent.
GiveUp(c) ==
    /\ phase[c] \in {"connected", "flushing", "reading"}
    /\ Ends(c, classify(c))
    /\ IF phase[c] = "flushing" THEN request' \in {request, [request EXCEPT ![c] = "sent"]}
                                ELSE UNCHANGED request
    /\ UNCHANGED <<command, submitted, reply, handlers, sessions, host, stopping>>

\* An Error frame is definite unless it carries the outcome-unknown prefix; a
\* stream that ends without a terminal frame is classified like any failure.
Verdict(c) ==
    CASE reply[c] = "result"  -> "ok"
      [] reply[c] = "error"   -> "definite"
      [] reply[c] = "unknown" -> "unknown"
      [] OTHER                -> classify(c)

Reads(c, what) ==
    /\ command[c] = what
    /\ phase[c] = "reading"
    /\ reply[c] # "none"
    /\ Ends(c, Verdict(c))
    /\ UNCHANGED <<command, submitted, pipes, handlers, sessions, host, stopping>>

read_exec_response(c) == Reads(c, "exec")

read_create_dir_response(c) == Reads(c, "create_dir")

list_dir_inner(c) == Reads(c, "list_dir")

-----------------------------------------------------------------------------
(* The daemon's handler.                                                    *)

At(c, where) == handler[c] = where

Goes(c, where) == handler' = [handler EXCEPT ![c] = where]

\* The handler ends with this frame, or with none when the write fails.
Answers(c, frame) ==
    /\ Goes(c, "done")
    /\ reply' \in {[reply EXCEPT ![c] = frame], [reply EXCEPT ![c] = "cut"]}

\* The handler ends without a word.
Silent(c) ==
    /\ Goes(c, "done")
    /\ reply' = [reply EXCEPT ![c] = "cut"]

InUse == Cardinality({c \in Clients : command[c] # "create_dir"
                        /\ handler[c] \in {"session", "connect", "channel", "request", "finish"}})

\* As a lock kept by a handler that was cancelled while connecting.
ReleasedNever(c) == reconnect

Released(c) == IF reconnect = c THEN Nobody ELSE reconnect

\* validate_request_frame and the timeout bounds, then the branch's first wait.
Dispatch(c) ==
    /\ request[c] = "sent"
    /\ request' = [request EXCEPT ![c] = "taken"]
    /\ \/ /\ Goes(c, IF command[c] = "create_dir" THEN "session" ELSE "slot")
          /\ UNCHANGED reply
       \/ Answers(c, "error")
    /\ UNCHANGED <<clientSide, session, retried, sessions, host, stopping>>

\* acquire_buffered_operation_slot
AcquireSlot(c) ==
    /\ At(c, "slot")
    /\ ~stopping
    /\ InUse < Slots
    /\ Goes(c, "session")
    /\ UNCHANGED <<clientSide, pipes, session, retried, sessions, host, stopping>>

\* current_until: the current session if it is not closed; else whoever gets
\* the lock connects again.
UseCurrent(c) ==
    /\ At(c, "session")
    /\ current \notin closed
    /\ session' = [session EXCEPT ![c] = current]
    /\ Goes(c, "channel")
    /\ UNCHANGED <<clientSide, pipes, retried, sessions, host, stopping>>

LockReconnect(c) ==
    /\ At(c, "session")
    /\ current \in closed
    /\ reconnect = Nobody
    /\ reconnect' = c
    /\ Goes(c, "connect")
    /\ UNCHANGED <<clientSide, pipes, session, retried, current, closed, host, stopping>>

Reconnect(c) ==
    /\ At(c, "connect")
    /\ reconnect' = Nobody
    /\ \/ /\ current < MaxSessions
          /\ current' = current + 1
          /\ session' = [session EXCEPT ![c] = current + 1]
          /\ Goes(c, "channel")
          /\ UNCHANGED reply
       \/ Answers(c, "error") /\ UNCHANGED <<current, session>>
    /\ UNCHANGED <<clientSide, request, retried, closed, host, stopping>>

\* open_exec_until: opened; rejected for this channel alone; or too late or lost
\* with its transport, which trips the session.
OpenExec(c) ==
    /\ At(c, "channel")
    /\ command[c] = "exec"
    /\ \/ /\ session[c] \notin closed
          /\ Goes(c, "request")
          /\ UNCHANGED <<reply, closed>>
       \/ /\ Answers(c, "error")
          /\ closed' \in {closed, closed \cup {session[c]}}
    /\ UNCHANGED <<clientSide, request, session, retried, current, reconnect, host, stopping>>

\* SessionManager::open_exec_until: after a lost transport the acquisition is
\* tried once more, on whatever session is current then.
ReopenExec(c) ==
    /\ At(c, "channel")
    /\ command[c] = "exec"
    /\ ~retried[c]
    /\ closed' = closed \cup {session[c]}
    /\ retried' = [retried EXCEPT ![c] = TRUE]
    /\ Goes(c, "session")
    /\ UNCHANGED <<clientSide, pipes, session, current, reconnect, host, stopping>>

\* open_sftp_channel_until: the channel and its subsystem.  A channel that was
\* refused the subsystem is closed, and the session with it where that is not
\* confirmed.
OpenSftp(c) ==
    /\ At(c, "channel")
    /\ command[c] # "exec"
    /\ \/ /\ session[c] \notin closed
          /\ Goes(c, IF command[c] = "create_dir" THEN "init" ELSE "request")
          /\ UNCHANGED <<reply, closed>>
       \/ /\ Answers(c, "error")
          /\ closed' \in {closed, closed \cup {session[c]}}
    /\ UNCHANGED <<clientSide, request, session, retried, current, reconnect, host, stopping>>

\* sftp_until: SFTP initialisation; its failure invalidates the session.
SftpInit(c) ==
    /\ At(c, "init")
    /\ \/ /\ session[c] \notin closed
          /\ Goes(c, "request")
          /\ UNCHANGED <<reply, closed>>
       \/ /\ Answers(c, "error")
          /\ closed' = closed \cup {session[c]}
    /\ UNCHANGED <<clientSide, request, session, retried, current, reconnect, host, stopping>>

\* request_exec_until, the first poll of create_dir, the first packet of a
\* listing: the transport takes the request over.
Submit(c) ==
    /\ At(c, "request")
    /\ pending' = pending \cup {c}
    /\ Goes(c, "finish")
    /\ UNCHANGED <<clientSide, pipes, session, retried, sessions, effects, answer, stopping>>

\* terminate_channel may go unconfirmed, and then trips the transport.
MayTrip(c) == closed' \in {closed, closed \cup {session[c]}}

\* await_exec_request_queued_until: an error or the deadline before the queue
\* took the request.
ExecNotQueued(c) ==
    /\ At(c, "request")
    /\ command[c] = "exec"
    /\ Answers(c, "error")
    /\ MayTrip(c)
    /\ UNCHANGED <<clientSide, request, session, retried, current, reconnect, host, stopping>>

\* RunningCommand::finish: output and exit status.
Finish(c) ==
    /\ At(c, "finish")
    /\ command[c] = "exec"
    /\ answer[c] = "done"
    /\ Answers(c, "result")
    /\ UNCHANGED <<clientSide, request, session, retried, sessions, host, stopping>>

\* No exit status before the deadline, or the session gone.
FinishFails(c) ==
    /\ At(c, "finish")
    /\ command[c] = "exec"
    /\ Answers(c, "unknown")
    /\ MayTrip(c)
    /\ UNCHANGED <<clientSide, request, session, retried, current, reconnect, host, stopping>>

\* create_dir_until: the host's STATUS, a refusal being a definite failure; or no
\* answer in time or none that can be read, after which the session goes.
create_dir_until(c) ==
    /\ At(c, "finish")
    /\ command[c] = "create_dir"
    /\ \/ answer[c] = "done" /\ Answers(c, "result") /\ UNCHANGED closed
       \/ answer[c] = "refused" /\ Answers(c, "error") /\ UNCHANGED closed
       \/ Answers(c, "unknown") /\ closed' = closed \cup {session[c]}
    /\ UNCHANGED <<clientSide, request, session, retried, current, reconnect, host, stopping>>

\* list_dir_until: the names, all of them and within the limits of a listing; or
\* an error, after which the stream may be out of phase and its session goes.
list_dir_until(c) ==
    /\ At(c, "finish")
    /\ command[c] = "list_dir"
    /\ \/ answer[c] = "done" /\ Answers(c, "result") /\ UNCHANGED closed
       \/ Answers(c, "error") /\ closed' = closed \cup {session[c]}
    /\ UNCHANGED <<clientSide, request, session, retried, current, reconnect, host, stopping>>

\* A deadline in the waits before the channel is asked for.
SetupLate(c) ==
    /\ handler[c] \in {"slot", "session", "connect"}
    /\ Answers(c, "error")
    /\ reconnect' = Released(c)
    /\ UNCHANGED <<clientSide, request, session, retried, current, closed, host, stopping>>

\* The peer's end of the stream, or the shutdown, wins a select: the work is
\* cancelled, and the session with it where the channel cannot be closed.
PeerGone(c) ==
    /\ handler[c] \notin {"none", "done"}
    /\ phase[c] = "done" \/ stopping
    /\ Silent(c)
    /\ reconnect' = Released(c)
    /\ CASE handler[c] \in {"slot", "session", "connect"} -> UNCHANGED closed
         [] handler[c] \in {"request", "finish"} /\ command[c] = "exec" -> MayTrip(c)
         [] OTHER -> closed' = closed \cup {session[c]}
    /\ UNCHANGED <<clientSide, request, session, retried, current, host, stopping>>

\* dispatch_root_request: the authorization lease runs out under a handler.
\* Whatever session is current now is invalidated.
LeaseEnds(c) ==
    /\ handler[c] \notin {"none", "done"}
    /\ Silent(c)
    /\ reconnect' = Released(c)
    /\ closed' = closed \cup {current} \cup (IF At(c, "channel") THEN {session[c]} ELSE {})
    /\ UNCHANGED <<clientSide, request, session, retried, current, host, stopping>>

Shutdown ==
    /\ ~stopping
    /\ stopping' = TRUE
    /\ UNCHANGED <<clientSide, pipes, handlers, sessions, host>>

\* A connection the shutdown left unserved.
Unserved(c) ==
    /\ stopping
    /\ request[c] = "sent"
    /\ request' = [request EXCEPT ![c] = "taken"]
    /\ Silent(c)
    /\ UNCHANGED <<clientSide, session, retried, sessions, host, stopping>>

-----------------------------------------------------------------------------
(* The SSH host, external.                                                  *)

\* A request that left may be carried out whatever became of the session
\* since; exec may end without an exit status, mkdir may be refused.
HostServes(c) ==
    /\ c \in pending
    /\ pending' = pending \ {c}
    /\ \E ran \in BOOLEAN, said \in {"done", "refused", "nothing"} :
          /\ (said = "done") => ran
          /\ (said = "refused") => command[c] = "create_dir" /\ ~ran
          /\ effects' = [effects EXCEPT ![c] = IF ran THEN @ + 1 ELSE @]
          /\ answer' = [answer EXCEPT ![c] = said]
    /\ UNCHANGED <<clientSide, pipes, handlers, sessions, stopping>>

SessionLost ==
    /\ current \notin closed
    /\ closed' = closed \cup {current}
    /\ UNCHANGED <<clientSide, pipes, handlers, current, reconnect, host, stopping>>

ExchangeStep(c) ==
    \/ Connects(c) \/ WriteRequest(c) \/ FlushRequest(c) \/ GiveUp(c)
    \/ read_exec_response(c) \/ read_create_dir_response(c) \/ list_dir_inner(c)
    \/ Dispatch(c) \/ AcquireSlot(c) \/ UseCurrent(c) \/ LockReconnect(c) \/ Reconnect(c)
    \/ OpenExec(c) \/ ReopenExec(c) \/ OpenSftp(c) \/ SftpInit(c) \/ Submit(c) \/ ExecNotQueued(c)
    \/ Finish(c) \/ FinishFails(c) \/ create_dir_until(c) \/ list_dir_until(c)
    \/ SetupLate(c) \/ PeerGone(c) \/ LeaseEnds(c) \/ Unserved(c)
    \/ HostServes(c)

ExchangeNext == (\E c \in Clients : ExchangeStep(c)) \/ Shutdown \/ SessionLost

ExchangeSpec == ExchangeInit /\ [][ExchangeNext]_exchange

-----------------------------------------------------------------------------
\* Every variable keeps its type.
ExchangeTypeOK ==
    /\ command \in [Clients -> Commands]
    /\ phase \in [Clients -> {"start", "connected", "flushing", "reading", "done"}]
    /\ outcome \in [Clients -> {"none", "ok", "definite", "unknown"}]
    /\ request \in [Clients -> {"none", "sent", "taken"}]
    /\ reply \in [Clients -> {"none", "result", "error", "unknown", "cut"}]
    /\ current \in 1..MaxSessions
    /\ closed \subseteq 1..MaxSessions
    /\ reconnect \in Clients \cup {Nobody}

\* What a client tells its user of a command that changes the host is true,
\* then and ever after: a success was carried out, a definite error never is,
\* whatever happens to the session it shared, and no command is carried out
\* twice although the channel acquisition is retried on a new session.
OutcomeIsTrue ==
    \A c \in Clients : command[c] # "list_dir" =>
        /\ effects[c] <= 1
        /\ outcome[c] = "ok" => effects[c] = 1
        /\ outcome[c] = "definite" => effects[c] = 0

\* The lock that serialises reconnects is held by a handler that is
\* connecting and by nobody else: one that times out, loses its client or its
\* lease there gives it back, so later requests are not wedged; and a session
\* is only replaced once it is closed.
ReconnectIsHeld ==
    /\ reconnect # Nobody => handler[reconnect] = "connect"
    /\ \A c \in Clients : handler[c] = "connect" => reconnect = c /\ current \in closed
    /\ \A s \in 1..(current - 1) : s \in closed
    /\ InUse <= Slots

\* Commands over a shared session end as they are reported, and leave it usable.
ExchangeIsSound == OutcomeIsTrue /\ ReconnectIsHeld

=============================================================================
