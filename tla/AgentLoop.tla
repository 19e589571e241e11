----------------------------- MODULE AgentLoop -----------------------------
(***************************************************************************)
(* The agent gateway of the command line (serctl_cli/src/client.rs): a     *)
(* grant is issued to a fresh key and written to a file                    *)
(* (issue_grant_with_ttl_to_output_until), an agent process loads the file *)
(* (load_agent_grant) and answers JSONL requests with it                   *)
(* (agent_stdio_loop_with_credentials, dispatch_agent_request and the      *)
(* agent_*_until operations).                                              *)
(*                                                                         *)
(* The daemon is seen only through what it answers; how it dispatches a    *)
(* granted request is GrantDispatch's subject.  Time is the wall clock     *)
(* both processes read: it may be set to anything, 0 being "unavailable".  *)
(***************************************************************************)
EXTENDS Naturals, Sequences, FiniteSets

CONSTANTS
    Scopes,      \* the operation sets grants are issued for
    Ttl,         \* the lifetime asked for
    MaxClock, MaxLines, MaxIssues, \* bounds
    NoGrant      \* no grant

VARIABLES
    clock,       \* now_unix_ms
    generation,  \* the generation of the stored profile
    issuing,     \* an issuance under way: how far, and what it knows
    issues,      \* issuances so far; the number is the key generated
    granted,     \* the grants in the daemon's book
    grantFile,   \* the agent grant file
    loop,        \* how far the agent process is
    credentials, \* the grant and key the agent loaded
    line,        \* the request being served
    touched,     \* what was touched for it: a local file, the catalog, the resume
                 \* journal, the daemon, the host
    readLines,   \* the ids of the requests read
    told         \* the result lines written, and what was done for each

issuance == <<issuing, issues, grantFile>>
agent == <<loop, credentials, line, touched, readLines, told>>
gateway == <<clock, generation, issuance, granted, agent>>

\* The operations, alike ones as one: exec stands for list-dir, create-dir and
\* daemon status, status for transfer-status and transfer-cancel, forward for the
\* three opens, watch for forward-status and forward-cancel.
Kinds == {"exec", "push", "pull", "status", "forward", "watch", "identity"}

LocalKinds == {"push", "pull"}
DatedKinds == {"forward", "watch"}

Idle == [at |-> "idle", scope |-> {}, knows |-> 0, reply |-> NoGrant]
NoLine == [id |-> 0, kind |-> "none", since |-> 0, until |-> 0, resume |-> FALSE]

AgentInit ==
    /\ clock = 1
    /\ generation = 1
    /\ issuing = Idle
    /\ issues = 0
    /\ granted = {}
    /\ grantFile = NoGrant
    /\ loop = "off"
    /\ credentials = NoGrant
    /\ line = NoLine
    /\ touched = {}
    /\ readLines = << >>
    /\ told = << >>

-----------------------------------------------------------------------------
(* Issuing a grant.                                                         *)

IssueAt(where) == issuing.at = where /\ UNCHANGED <<clock, generation, agent>>

\* The TTL is checked, then the profile is authenticated read-only before any
\* daemon is resolved or launched.
Preflight ==
    /\ IssueAt("idle")
    /\ issues < MaxIssues
    /\ issues' = issues + 1
    /\ \E scope \in Scopes :
          issuing' = [Idle EXCEPT !.at = "activate", !.scope = scope, !.knows = generation]
    /\ UNCHANGED <<granted, grantFile>>

\* The catalog shows the identity the preflight saw.
validate_expected_catalog_identity == issuing.knows = generation

\* ensure_daemon_until, then the catalog is asked.
Activate ==
    /\ IssueAt("activate")
    /\ issuing' = IF validate_expected_catalog_identity THEN [issuing EXCEPT !.at = "unlock"] ELSE Idle
    /\ UNCHANGED <<issues, granted, grantFile>>

\* ensure_profile_unlocked and the IssueGrant request, which the daemon serves
\* under the generation it then finds.  The key was generated by this process.
Issued == [key |-> issues, scope |-> issuing.scope, generation |-> generation,
           issued |-> clock, expires |-> clock + Ttl]

UnlockAndIssue ==
    /\ IssueAt("unlock")
    /\ clock > 0
    /\ granted' = granted \cup {Issued}
    /\ issuing' = [issuing EXCEPT !.at = "answered", !.reply = Issued]
    /\ UNCHANGED <<issues, grantFile>>

\* The reply is checked against the TTL asked for and written with its key to a
\* file created anew; an existing file is never overwritten.  A write that
\* fails leaves the new file behind, incomplete.
policy_ttl(g) == g.expires - g.issued

write_agent_grant_file ==
    /\ IssueAt("answered")
    /\ issuing' = Idle
    /\ grantFile' \in IF grantFile = NoGrant /\ policy_ttl(issuing.reply) = Ttl
                      THEN {[issuing.reply EXCEPT !.key = k] : k \in {issuing.reply.key, 0}}
                      ELSE {grantFile}
    /\ UNCHANGED <<issues, granted>>

\* Any step fails, or the process dies.  The daemon may have issued the grant
\* whose reply was lost; nobody holds its key then.
IssueFails ==
    /\ issuing.at # "idle"
    /\ issuing' = Idle
    /\ granted' \in {granted} \cup
                    (IF issuing.at = "unlock" /\ clock > 0 THEN {granted \cup {Issued}} ELSE {})
    /\ UNCHANGED <<clock, generation, issues, grantFile, agent>>

-----------------------------------------------------------------------------
(* Loading it, and reading requests.                                        *)

is_expired(g) == clock >= g.expires

\* decode_agent_grant: a complete file whose key is the holder's, not expired.
\* A damaged file (key 0) fails to parse.
load_agent_grant ==
    /\ loop = "off"
    /\ grantFile # NoGrant
    /\ IF grantFile.key # 0 /\ ~is_expired(grantFile)
       THEN loop' = "reading" /\ credentials' = grantFile
       ELSE UNCHANGED <<loop, credentials>>
    /\ UNCHANGED <<clock, generation, issuance, granted, line, touched, readLines, told>>

Result(id, code, did) == [id |-> id, code |-> code, touched |-> did]

\* One result line is written and flushed; a failing write ends the loop.
AgentResultLine(result) ==
    /\ \/ loop' = "reading" /\ told' = Append(told, result)
       \/ loop' = "ended" /\ told' = told
    /\ line' = NoLine
    /\ touched' = {}
    /\ UNCHANGED <<clock, generation, issuance, granted, credentials>>

\* read_bounded_agent_line: end of input, a read error or an oversized line.
\* A blank line changes nothing.
InputEnds ==
    /\ loop = "reading"
    /\ loop' = "ended"
    /\ UNCHANGED <<clock, generation, issuance, granted, credentials, line, touched,
                   readLines, told>>

\* A line that is not a request is answered under id 0.
InvalidLine ==
    /\ loop = "reading"
    /\ Len(readLines) < MaxLines
    /\ readLines' = Append(readLines, 0)
    /\ AgentResultLine(Result(0, "invalid", touched))

require_agent_operation_scope(kind) == kind \in credentials.scope

\* dispatch_agent_request: the schema, the clock and the expiry, the scope, and
\* only then the operation.
Denial(l, schemaKnown) ==
    IF ~schemaKnown THEN "schema_unsupported"
    ELSE IF clock = 0 \/ is_expired(credentials) THEN "expired"
    ELSE IF ~require_agent_operation_scope(l.kind) THEN "scope_denied"
    ELSE "none"

dispatch_agent_request ==
    /\ loop = "reading"
    /\ Len(readLines) < MaxLines
    /\ \E kind \in Kinds, until \in 1..MaxClock, resume, schemaKnown \in BOOLEAN :
          LET l == [id |-> Len(readLines) + 1, kind |-> kind, since |-> clock, until |-> until,
                    resume |-> resume]
              denial == Denial(l, schemaKnown)
          IN  /\ resume => kind \in LocalKinds
              /\ readLines' = Append(readLines, l.id)
              /\ IF denial = "none"
                 THEN /\ loop' = "admitted"
                      /\ line' = l
                      /\ UNCHANGED <<clock, generation, issuance, granted, credentials,
                                     touched, told>>
                 ELSE AgentResultLine(Result(l.id, denial, touched))

-----------------------------------------------------------------------------
(* The operations.                                                          *)

LoopAt(where) == loop = where /\ UNCHANGED readLines

Prepare(kind) ==
    /\ LoopAt("admitted")
    /\ line.kind = kind
    /\ touched' = touched \cup {"local"}
    /\ loop' = IF line.resume THEN "resuming" ELSE "prepared"
    /\ UNCHANGED <<clock, generation, issuance, granted, credentials, line, told>>

\* A push opens and hashes its source.
agent_transfer_push_until == Prepare("push")

\* A pull looks whether its destination exists.
agent_transfer_pull_until == Prepare("pull")

\* With --resume a daemon is found or launched and asked for the profile, for as
\* long as the request allows and whatever has become of the grant meanwhile; the
\* journal is read or written only for the generation of the grant.
PrepareResume ==
    /\ LoopAt("resuming")
    /\ IF generation = credentials.generation
       THEN /\ touched' = touched \cup {"catalog", "journal"}
            /\ loop' = "prepared"
            /\ UNCHANGED <<clock, generation, issuance, granted, credentials, line, told>>
       ELSE AgentResultLine(Result(line.id, "failed", touched \cup {"catalog"}))

\* The deadline in the prelude: an absolute one is the request's own and lies in
\* the future, a relative one starts now; both end before the grant does.
requested_deadline == IF line.kind \in DatedKinds THEN line.until ELSE clock + line.until

\* As FitsGrant with the boundary let in.
FitsGrantInclusive ==
    /\ line.kind \in DatedKinds => clock > 0 /\ line.until > clock
    /\ requested_deadline <= credentials.expires

FitsGrant ==
    /\ line.kind \in DatedKinds => clock > 0 /\ line.until > clock
    /\ requested_deadline < credentials.expires

\* connect_grant_request_until, connect_grant_request_at_deadline: the prelude
\* names the grant and the deadline and is signed with the agent's key.
connect_grant_request ==
    /\ LoopAt(IF line.kind \in LocalKinds THEN "prepared" ELSE "admitted")
    /\ FitsGrant
    /\ touched' = touched \cup {"daemon"}
    /\ line' = [line EXCEPT !.until = requested_deadline]
    /\ loop' = "sent"
    /\ UNCHANGED <<clock, generation, issuance, granted, credentials, told>>

\* The daemon takes the request: the grant is in its book, covers the kind, is
\* for the profile it serves, and neither it nor the deadline has passed.
DaemonServes ==
    /\ LoopAt("sent")
    /\ credentials \in granted
    /\ line.kind \in credentials.scope
    /\ credentials.generation = generation
    /\ clock < line.until
    /\ ~is_expired(credentials)
    /\ touched' = touched \cup {"done"}
    /\ loop' = "served"
    /\ UNCHANGED <<clock, generation, issuance, granted, credentials, line, told>>

\* An answer that is the expected frame and passes its checks is a success.
Completes(kinds, valid) ==
    /\ LoopAt("served")
    /\ line.kind \in kinds
    /\ AgentResultLine(Result(line.id, IF valid THEN "ok" ELSE "failed", touched))

\* agent_exec_until, agent_list_until, agent_create_dir_until: the answer carries
\* the operation context the daemon accepted.
agent_exec_until == \E bound \in BOOLEAN : Completes({"exec"}, bound)

\* The same of the last progress of a push or a pull.
TransferCompletes == \E bound \in BOOLEAN : Completes(LocalKinds, bound)

\* agent_transfer_status_until, agent_transfer_cancel_until: about the transfer
\* asked for, or an empty list.
agent_transfer_status_until == \E asAsked \in BOOLEAN : Completes({"status"}, asAsked)

\* agent_forward_open_until: validate_agent_tunnel_status, and the mode, stage and
\* deadline asked for.
agent_forward_open_until ==
    \E bound, asAsked \in BOOLEAN : Completes({"forward"}, bound /\ asAsked)

\* agent_forward_status_until, agent_forward_cancel_until: the tunnel and the
\* context asked for, each once.
agent_forward_status_until ==
    \E bound, asAsked \in BOOLEAN : Completes({"watch"}, bound /\ asAsked)

\* validate_agent_connection_identity: the grant's profile and generation.
agent_connection_identity_until ==
    \E bound \in BOOLEAN :
        Completes({"identity"}, bound /\ generation = credentials.generation)

\* Every other end: arguments refused after the scope check, a local error, a
\* replaced profile, a deadline past the grant's, no daemon, a refusal, a lost
\* answer, a timeout.  All detail is withheld (agent_visible_operation_error).
OperationFails ==
    /\ loop \in {"admitted", "resuming", "prepared", "sent", "served"}
    /\ UNCHANGED readLines
    /\ AgentResultLine(Result(line.id, "failed", touched))

-----------------------------------------------------------------------------
(* The surroundings.                                                        *)

ClockMoves ==
    /\ clock' \in {c \in 0..MaxClock : c # clock}
    /\ UNCHANGED <<generation, issuance, granted, agent>>

\* The profile is re-sealed under its next generation; its grants are revoked.
ProfileReplaced ==
    /\ generation = 1
    /\ generation' = 2
    /\ granted' = {}
    /\ UNCHANGED <<clock, issuance, agent>>

AgentNext ==
    \/ Preflight \/ Activate \/ UnlockAndIssue \/ write_agent_grant_file \/ IssueFails
    \/ load_agent_grant \/ InputEnds \/ InvalidLine \/ dispatch_agent_request
    \/ agent_transfer_push_until \/ agent_transfer_pull_until \/ PrepareResume
    \/ connect_grant_request \/ DaemonServes
    \/ agent_exec_until \/ TransferCompletes \/ agent_transfer_status_until
    \/ agent_forward_open_until \/ agent_forward_status_until
    \/ agent_connection_identity_until \/ OperationFails
    \/ ClockMoves \/ ProfileReplaced

AgentSpec == AgentInit /\ [][AgentNext]_gateway

-----------------------------------------------------------------------------
Grants == [key : 0..MaxIssues, scope : Scopes, generation : 1..2,
           issued : 0..MaxClock, expires : 0..MaxClock + Ttl]

\* Every variable of the gateway keeps its type.
AgentTypeOK ==
    /\ clock \in 0..MaxClock
    /\ generation \in 1..2
    /\ issuing.at \in {"idle", "activate", "unlock", "answered"}
    /\ issuing.scope \in Scopes \cup {{}}
    /\ issuing.reply \in Grants \cup {NoGrant}
    /\ issues \in 0..MaxIssues
    /\ granted \subseteq Grants
    /\ grantFile \in Grants \cup {NoGrant}
    /\ loop \in {"off", "reading", "admitted", "resuming", "prepared", "sent", "served", "ended"}
    /\ credentials \in Grants \cup {NoGrant}
    /\ line.kind \in Kinds \cup {"none"}
    /\ touched \subseteq {"local", "catalog", "journal", "daemon", "done"}
    /\ Len(readLines) \in 0..MaxLines
    /\ Len(told) \in 0..MaxLines

\* The result lines answer the requests one for one, in order and under their
\* ids, and are true: a refused request touched neither a local file nor the
\* daemon whatever the clock did meanwhile, and a success was performed
\* (agent_stdio_loop_with_credentials, dispatch_agent_request).
AnswersAreTrue ==
    /\ Len(readLines) - Len(told) \in IF loop = "reading" THEN {0} ELSE {0, 1}
    /\ \A i \in DOMAIN told :
          /\ told[i].id = readLines[i]
          /\ told[i].code \notin {"ok", "failed"} => told[i].touched = {}
          /\ told[i].code = "ok" => "done" \in told[i].touched

\* An agent acts under the grant the daemon issued to the key it holds, although
\* the file was written by another process and may be incomplete or stale, the
\* clock may be set and the profile replaced at any time: whatever a request does
\* to a local file, asks of the catalog or asks of the daemon is of a kind in the
\* grant's scope and was admitted before its end; what is signed for the daemon to
\* perform has a deadline before its end, however long the preparation took; and
\* what the host performs, it performs for a grant in the daemon's book, or for
\* one revoked with its profile since.  Only the preparation itself is not held
\* to the grant's end: a source may be hashed and the catalog asked after it
\* (decode_agent_grant, dispatch_agent_request, connect_grant_request_until).
ActsWithinGrant ==
    /\ touched # {} => line.kind \in credentials.scope /\ line.since < credentials.expires
    /\ "daemon" \in touched => line.until < credentials.expires
    /\ credentials # NoGrant =>
          /\ credentials.key \in 1..issues
          /\ generation = credentials.generation => credentials \in granted

\* The gateway answers truly for what its grant allows.
GatewayIsSound == AnswersAreTrue /\ ActsWithinGrant
=============================================================================
