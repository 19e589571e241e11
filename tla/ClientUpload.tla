---------------------------- MODULE ClientUpload ----------------------------
(***************************************************************************)
(* Uploads of one local file to one remote path, by client processes that  *)
(* may overlap, be killed and be run again: serctl_cli/src/client.rs,      *)
(* upload_file_with_timeout_inner and upload_file_via_daemon, with the     *)
(* resume journal and the commit phase.                                    *)
(*                                                                         *)
(* Of the daemon (serctl_daemon/src/daemon.rs, serve_native_upload) and    *)
(* the remote helper behind it there is what the client can tell apart     *)
(* (NativeUpload and TransferServing have the rest): the offset a          *)
(* connection has reached, a durable prefix per transfer id, progress and  *)
(* Ack, and a commit that publishes without replacing, carried out by the  *)
(* helper whether or not the daemon still waits for it.                    *)
(***************************************************************************)
EXTENDS Naturals, FiniteSets

CONSTANTS
    Uploaders,   \* client processes, one upload each
    UploadModes, \* the resume modes in use, out of "auto" and "never"
    Chunks,      \* length of the source
    MaxLost,     \* bound: remote partials that are lost
    NoUpload     \* nothing there

VARIABLES
    upMode,      \* TransferOptions.resume
    upStage,     \* how far the process is
    upEnded,     \* what the process told its user
    upJournal,   \* the journal file: transfer id and durable offset
    upMemory,    \* the process's UploadTransferJournal
    resumeAt,    \* resume_offset: the greatest durable offset announced
    position,    \* chunks of the source sent and acknowledged
    asked,       \* the frame on its way to the daemon or being served, with its id
                 \* or the part of the source it carries
    answered,    \* the frame on its way back, with its durable offset
    held,        \* the transfer id a connection is being served for
    confirmed,   \* where the next chunk of the connection is written
    stored,      \* durable prefix on the host, by transfer id
    commits,     \* commits the helper is at work on
    published,   \* whose commit installed the remote path, for which id
    lostPartials \* remote partials lost so far

upClient == <<upMode, upStage, upEnded, upMemory, resumeAt, position>>
upHost == <<stored, commits, published, lostPartials>>
upServed == <<held, confirmed, upHost>>
upload == <<upClient, upJournal, asked, answered, upServed>>

Nothing == [frame |-> "none", durable |-> 0]

UploadInit ==
    /\ upMode \in [Uploaders -> UploadModes]
    /\ upStage = [p \in Uploaders |-> "start"]
    /\ upEnded = [p \in Uploaders |-> "none"]
    /\ upJournal = NoUpload
    /\ upMemory = [p \in Uploaders |-> NoUpload]
    /\ resumeAt = [p \in Uploaders |-> 0]
    /\ position = [p \in Uploaders |-> 0]
    /\ asked = [p \in Uploaders |-> [frame |-> "none", at |-> 0]]
    /\ answered = [p \in Uploaders |-> Nothing]
    /\ held = [p \in Uploaders |-> NoUpload]
    /\ confirmed = [p \in Uploaders |-> 0]
    /\ stored = [i \in Uploaders |-> 0]
    /\ commits = {}
    /\ published = NoUpload
    /\ lostPartials = 0

UpGoes(p, where) == upStage' = [upStage EXCEPT ![p] = where]
Asks(p, frame, at) == asked' = [asked EXCEPT ![p] = [frame |-> frame, at |-> at]]
Taken(p) == Asks(p, "none", 0)
Says(p, frame, durable) ==
    answered' = [answered EXCEPT ![p] =
                    IF upStage[p] = "end" THEN Nothing ELSE [frame |-> frame, durable |-> durable]]
Consumed(p) == answered' = [answered EXCEPT ![p] = Nothing]

\* The process has an answer for its user and drops the stream.
UpEnds(p, result) ==
    /\ UpGoes(p, "end")
    /\ upEnded' = [upEnded EXCEPT ![p] = result]
    /\ upMemory' = [upMemory EXCEPT ![p] = NoUpload]
    /\ resumeAt' = [resumeAt EXCEPT ![p] = 0]
    /\ position' = [position EXCEPT ![p] = 0]

-----------------------------------------------------------------------------
(* The client.                                                              *)

\* The source is opened once and hashed through that handle, which later sends
\* it; or it cannot be, in time.
hash_stable_upload_source(p) ==
    /\ upStage[p] = "start"
    /\ \/ /\ UpGoes(p, "hashed")
          /\ UNCHANGED <<upEnded, upMemory, resumeAt, position>>
       \/ UpEnds(p, "failed")
    /\ UNCHANGED <<upMode, upJournal, asked, answered, upServed>>

\* prepare_upload_resume_journal_in reads the journal of this source and target
\* or makes a new one.
prepare_upload_resume_journal(p) ==
    IF upMode[p] = "auto" /\ upJournal # NoUpload THEN upJournal ELSE [id |-> p, durable |-> 0]

\* The journal is prepared, the daemon connected to and the request written.
\* Or one of these fails.
UploadBegin(p) ==
    /\ upStage[p] = "hashed"
    /\ LET mine == prepare_upload_resume_journal(p)
       IN  /\ upJournal' \in (IF upMode[p] = "auto" THEN {mine, upJournal} ELSE {upJournal})
           /\ \/ /\ upMode[p] = "auto" => upJournal' = mine
                 /\ upMemory' = [upMemory EXCEPT ![p] = mine]
                 /\ Asks(p, "begin", mine.id)
                 /\ UpGoes(p, "opening")
                 /\ UNCHANGED <<upEnded, resumeAt, position>>
              \/ UpEnds(p, "failed") /\ UNCHANGED asked
    /\ UNCHANGED <<upMode, answered, upServed>>

\* observe: the journal follows the greatest durable offset, on disk first.
observe(p, durable) ==
    IF upMode[p] = "auto" /\ durable > upMemory[p].durable
    THEN LET now == [upMemory[p] EXCEPT !.durable = durable]
         IN  upMemory' = [upMemory EXCEPT ![p] = now] /\ upJournal' = now
    ELSE UNCHANGED <<upMemory, upJournal>>

\* Progress and Ack of the request: the daemon must continue where the
\* journal is, and at the start where there is none.
Accepted(p) ==
    LET at == answered[p].durable
        expected == IF upMode[p] = "auto" /\ at < upMemory[p].durable
                    THEN upMemory[p].durable ELSE IF upMode[p] = "auto" THEN at ELSE 0
    IN  /\ upStage[p] = "opening"
        /\ answered[p].frame = "ack"
        /\ Consumed(p)
        /\ \/ /\ at = expected
              /\ observe(p, at)
              /\ resumeAt' = [resumeAt EXCEPT ![p] = at]
              /\ position' = [position EXCEPT ![p] = at]
              /\ UpGoes(p, "sending")
              /\ UNCHANGED upEnded
           \/ /\ at # expected
              /\ UpEnds(p, "failed")
              /\ UNCHANGED upJournal
        /\ UNCHANGED <<upMode, asked, upServed>>

\* One chunk is outstanding at a time.
SendChunk(p) ==
    /\ upStage[p] = "sending"
    /\ position[p] < Chunks
    /\ Asks(p, "chunk", position[p])
    /\ UpGoes(p, "waiting")
    /\ UNCHANGED <<upMode, upEnded, upMemory, resumeAt, position>>
    /\ UNCHANGED <<upJournal, answered, upServed>>

ChunkAcknowledged(p) ==
    /\ upStage[p] = "waiting"
    /\ answered[p].frame = "ack"
    /\ Consumed(p)
    /\ observe(p, answered[p].durable)
    /\ position' = [position EXCEPT ![p] = @ + 1]
    /\ UpGoes(p, "sending")
    /\ UNCHANGED <<upMode, upEnded, resumeAt, asked, upServed>>

\* upload_end_started is set, then UploadEnd written: all of it, or as much
\* as the deadline or the cancellation allowed.
SendEnd(p) ==
    /\ upStage[p] = "sending"
    /\ position[p] = Chunks
    /\ asked' \in {asked, [asked EXCEPT ![p].frame = "end"]}
    /\ UpGoes(p, "committing")
    /\ UNCHANGED <<upMode, upEnded, upMemory, resumeAt, position>>
    /\ UNCHANGED <<upJournal, answered, upServed>>

\* Before the commit phase every failure is a plain error.
BeforeCommitFails(p) ==
    /\ upStage[p] \in {"opening", "sending", "waiting"}
    /\ UpEnds(p, "failed")
    /\ Consumed(p)
    /\ UNCHANGED <<upMode, upJournal, asked, upServed>>

\* read_daemon_upload_commit_response: Done is success, after which the journal
\* is removed or a warning given; an Error ends the upload with the daemon's own
\* words, which say that the outcome is unknown when the commit was sent; the end
\* of the stream is an UploadCommitOutcomeUnknown.  (A progress frame that does
\* not validate and a Done of another size, both plain errors, are never sent.)
CommitAnswered(p) ==
    /\ upStage[p] = "committing"
    /\ answered[p].frame # "none"
    /\ Consumed(p)
    /\ UpEnds(p, CASE answered[p].frame = "done"    -> "ok"
                   [] answered[p].frame = "error"   -> "failed"
                   [] answered[p].frame = "unknown" -> "saidUnknown"
                   [] answered[p].frame = "eof"     -> "unknown")
    /\ upJournal' \in (IF upMode[p] = "auto" /\ answered[p].frame = "done"
                       THEN {NoUpload, upJournal} ELSE {upJournal})
    /\ UNCHANGED <<upMode, asked, upServed>>

\* As CommitUnanswered would be if a timeout were an ordinary error.
CommitUnansweredPlainly(p) ==
    /\ upStage[p] = "committing"
    /\ UpEnds(p, "failed")
    /\ UNCHANGED <<upMode, upJournal, asked, answered, upServed>>

\* Deadline or cancellation, then the reconciliation grace.
CommitUnanswered(p) ==
    /\ upStage[p] = "committing"
    /\ UpEnds(p, "unknown")
    /\ UNCHANGED <<upMode, upJournal, asked, answered, upServed>>

UploadKilled(p) ==
    /\ upStage[p] \notin {"start", "end"}
    /\ UpEnds(p, "none")
    /\ Consumed(p)
    /\ UNCHANGED <<upMode, upJournal, asked, upServed>>

-----------------------------------------------------------------------------
(* The daemon and the helper.                                               *)

Announced(i) == IF published # NoUpload /\ published.id = i THEN Chunks ELSE stored[i]

\* serve_native_upload up to its Ack.  An id that the daemon's registry still
\* lists, or whose lock file another helper holds, is refused; a transfer that is
\* committed is taken up at its end from the receipt.
ServeBegin(p) ==
    LET i == asked[p].at
    IN  /\ asked[p].frame = "begin"
        /\ Taken(p)
        /\ \/ /\ \A q \in Uploaders : held[q] # i
              /\ \A c \in commits : c.id # i
              /\ LET at == IF upMode[p] = "auto" THEN Announced(i) ELSE 0
                 IN  /\ held' = [held EXCEPT ![p] = i]
                     /\ confirmed' = [confirmed EXCEPT ![p] = at]
                     /\ Says(p, "ack", at)
           \/ /\ Says(p, "error", 0) \/ Says(p, "eof", 0)
              /\ UNCHANGED <<held, confirmed>>
        /\ UNCHANGED <<upClient, upJournal, upHost>>

\* A chunk is written where the connection is, whether or not its client is
\* still there.  The helper syncs and records the prefix at the end of a window;
\* progress goes with the Ack when the last one is old enough.
ServeChunk(p) ==
    LET i == held[p]
        next == confirmed[p] + 1
    IN  /\ asked[p].frame = "chunk"
        /\ i # NoUpload
        /\ confirmed[p] < Chunks
        /\ Taken(p)
        /\ confirmed' = [confirmed EXCEPT ![p] = next]
        /\ stored' \in {stored, [stored EXCEPT ![i] = next]}
        /\ Says(p, "ack", stored'[i]) \/ Says(p, "ack", 0)
        /\ UNCHANGED <<upClient, upJournal, held, commits, published, lostPartials>>

\* The connection is over: a partial with a sidecar stays, another is removed.
HostReleases(p) ==
    /\ held' = [held EXCEPT ![p] = NoUpload]
    /\ confirmed' = [confirmed EXCEPT ![p] = 0]
    /\ stored' = IF upMode[p] = "auto" THEN stored ELSE [stored EXCEPT ![held[p]] = 0]

\* UploadEnd: with every chunk there, Commit is sent to the helper.  Or the
\* daemon stops before: chunks are missing, it is cancelled or shut down.
ServeEnd(p) ==
    /\ asked[p].frame = "end"
    /\ held[p] # NoUpload
    /\ \/ /\ confirmed[p] = Chunks
          /\ Asks(p, "commit", 0)
          /\ commits' = commits \cup {[by |-> p, id |-> held[p]]}
          /\ UNCHANGED <<answered, held, confirmed, stored>>
       \/ Taken(p) /\ Says(p, "error", 0) /\ HostReleases(p) /\ UNCHANGED commits
    /\ UNCHANGED <<upClient, upJournal, published, lostPartials>>

\* The helper installs the target where there is none, or fails.
HelperCommits(c) ==
    /\ c \in commits
    /\ commits' = commits \ {c}
    /\ published' \in IF published = NoUpload THEN {c, NoUpload} ELSE {published}
    /\ UNCHANGED <<upClient, upJournal, asked, answered, held, confirmed, stored, lostPartials>>

\* The helper's Completed is passed on as Done, which may not get through.  Its
\* error, the end of its channel, a timeout, a cancellation or a shutdown, before
\* or after it has published, is an Error that calls the outcome unknown.
CommitEnds(p) ==
    /\ asked[p].frame = "commit"
    /\ held[p] # NoUpload
    /\ Taken(p)
    /\ \/ /\ [by |-> p, id |-> held[p]] \notin commits
          /\ published # NoUpload
          /\ published.id = held[p]
          /\ Says(p, "done", Chunks) \/ Says(p, "eof", 0)
       \/ Says(p, "unknown", 0)
    /\ HostReleases(p)
    /\ UNCHANGED <<upClient, upJournal, commits, published, lostPartials>>

\* The connection, the daemon or the helper's channel is gone.
ServiceEnds(p) ==
    /\ held[p] # NoUpload
    /\ Taken(p)
    /\ Says(p, "eof", 0)
    /\ HostReleases(p)
    /\ UNCHANGED <<upClient, upJournal, commits, published, lostPartials>>

PartialLost(i) ==
    /\ lostPartials < MaxLost
    /\ stored[i] > 0
    /\ stored' = [stored EXCEPT ![i] = 0]
    /\ lostPartials' = lostPartials + 1
    /\ UNCHANGED <<upClient, upJournal, asked, answered, held, confirmed, commits, published>>

UploadStep(p) ==
    \/ hash_stable_upload_source(p) \/ UploadBegin(p) \/ Accepted(p) \/ SendChunk(p) \/ ChunkAcknowledged(p) \/ SendEnd(p)
    \/ BeforeCommitFails(p) \/ CommitAnswered(p) \/ CommitUnanswered(p) \/ UploadKilled(p)
    \/ ServeBegin(p) \/ ServeChunk(p) \/ ServeEnd(p) \/ CommitEnds(p) \/ ServiceEnds(p)

UploadNext ==
    \/ \E p \in Uploaders : UploadStep(p) \/ PartialLost(p)
    \/ \E c \in commits : HelperCommits(c)

UploadSpec == UploadInit /\ [][UploadNext]_upload

-----------------------------------------------------------------------------
\* Every variable keeps its type.
UploadTypeOK ==
    /\ upEnded \in [Uploaders -> {"none", "ok", "failed", "saidUnknown", "unknown"}]
    /\ position \in [Uploaders -> 0..Chunks]
    /\ resumeAt \in [Uploaders -> 0..Chunks]
    /\ stored \in [Uploaders -> 0..Chunks]
    /\ confirmed \in [Uploaders -> 0..Chunks]
    /\ published = NoUpload \/ published \in [by : Uploaders, id : Uploaders]

\* What a client says of its upload is true and stays true: a success was
\* published, by it or by an earlier attempt it resumed; and an error that does
\* not call the outcome unknown, in the client's words or in the daemon's, means
\* that it published nothing and nothing still under way will, however late the
\* helper carries a commit out and whoever gave up waiting for it.
UploadOutcomeIsTrue ==
    \A p \in Uploaders :
        /\ upEnded[p] = "ok" =>
              published # NoUpload /\ (upMode[p] = "never" => published.by = p)
        /\ upEnded[p] = "failed" =>
              /\ asked[p].frame \notin {"end", "commit"}
              /\ \A c \in commits : c.by # p
              /\ published # NoUpload => published.by # p

\* The journal never runs ahead of what the host has made durable while the host
\* loses nothing, so that a later attempt is not refused for good; and the chunk
\* a process sends, which carries no offset, is the one that belongs where its
\* connection is.
UploadJournalBehindHost ==
    /\ (lostPartials = 0 /\ upJournal # NoUpload) => upJournal.durable <= Announced(upJournal.id)
    /\ \A p \in Uploaders :
          (asked[p].frame = "chunk" /\ held[p] # NoUpload) => asked[p].at = confirmed[p]

\* Answer, journal and host of an upload agree.
UploadIsSound == UploadOutcomeIsTrue /\ UploadJournalBehindHost

=============================================================================
