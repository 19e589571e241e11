--------------------------- MODULE ClientDownload ---------------------------
(***************************************************************************)
(* Downloads of one remote file to one local path, by client processes     *)
(* that may overlap, be killed and be run again: serctl_cli/src/client.rs, *)
(* download_file_worker and what it calls, with the resume journal and the *)
(* no-replace publication by hard link.                                    *)
(*                                                                         *)
(* A file is a sequence of blocks, the data of one FileChunk; a block is   *)
(* the version of the remote file it was read from, or Lost when a power   *)
(* failure took it.  The descriptor a process holds is read-write when it  *)
(* created the partial and read-only when it found it                      *)
(* (security::open_existing_protected_file): writes and truncations        *)
(* through the latter fail.  As tokio's File does, write_all only starts a *)
(* write; its error comes back from the next write or from flush, and      *)
(* sync_data says nothing of it.                                           *)
(***************************************************************************)
EXTENDS Naturals, Sequences, FiniteSets

CONSTANTS
    Procs,      \* client processes, one download each
    Modes,      \* the resume modes in use, out of "auto" and "never"
    Blocks,     \* length of the remote file
    Window,     \* DOWNLOAD_DURABLE_WINDOW_BYTES, in blocks
    Versions,   \* what the remote file may hold; the first one is 1
    MaxPower,   \* bound: power failures
    MaxDisk,    \* bound: local writes that fail on a full disk
    NoFile      \* no such name

VARIABLES
    mode,       \* TransferOptions.resume
    stage,      \* how far the process is
    ended,      \* what the process told its user
    journal,    \* the journal file
    memory,     \* the process's DownloadTransferJournal
    writable,   \* the descriptor may write
    received,   \* the blocks hashed so far
    writeError, \* an error the descriptor has still to report
    digest,     \* the version TransferDigest named, 0 before it came
    partial,    \* the partial files, by the transfer id in their name
    target,     \* the local destination
    linking,    \* hard links the kernel may still perform
    remote,     \* what the remote file holds
    lasting,    \* the names of the destination's directory that are on disk:
                \* ids of partials, and "target"
    power,      \* power failures so far
    badWrites   \* local writes that failed so far

procState == <<mode, stage, ended, memory, writable, received, writeError, digest>>
download == <<procState, journal, partial, target, linking, lasting, remote, power, badWrites>>

Lost == 0
Whole(v) == [i \in 1..Blocks |-> v]
Foreign == [by |-> NoFile, data |-> << >>]

DownloadInit ==
    /\ mode \in [Procs -> Modes]
    /\ stage = [p \in Procs |-> "start"]
    /\ ended = [p \in Procs |-> "none"]
    /\ memory = [p \in Procs |-> NoFile]
    /\ writable = [p \in Procs |-> FALSE]
    /\ received = [p \in Procs |-> << >>]
    /\ writeError = [p \in Procs |-> FALSE]
    /\ digest = [p \in Procs |-> 0]
    /\ journal = NoFile
    /\ partial = [p \in Procs |-> NoFile]
    /\ target = NoFile
    /\ linking = {}
    /\ lasting = {}
    /\ remote = 1
    /\ power = 0
    /\ badWrites = 0

-----------------------------------------------------------------------------
(* Steps and ends of a process.  What a process that has ended remembered  *)
(* is forgotten.                                                            *)

Goto(p, where) == stage' = [stage EXCEPT ![p] = where]

Forget(p) ==
    /\ memory' = [memory EXCEPT ![p] = NoFile]
    /\ writable' = [writable EXCEPT ![p] = FALSE]
    /\ received' = [received EXCEPT ![p] = << >>]
    /\ writeError' = [writeError EXCEPT ![p] = FALSE]
    /\ digest' = [digest EXCEPT ![p] = 0]

EndsWith(p, result) ==
    /\ Goto(p, "end")
    /\ ended' = [ended EXCEPT ![p] = result]
    /\ Forget(p)
    /\ UNCHANGED mode

Own(p) == memory[p].id

\* LocalPartialCleanup: remove_file with retries until its own deadline.
Removed(i) == partial' \in {[partial EXCEPT ![i] = NoFile], partial}

\* A partial of resume=never is removed; one with a journal stays.
Abandons(p, result) ==
    /\ EndsWith(p, result)
    /\ IF mode[p] = "never" THEN Removed(Own(p)) ELSE UNCHANGED partial

\* The error branch of download_file_inner: a partial with a journal is opened
\* once more and cut to its durable prefix.  That descriptor is read-only, the
\* cut fails, and its error is the one reported.
Interrupts(p) == Abandons(p, IF mode[p] = "auto" THEN "interrupted" ELSE "failed")

Unmoved(p) == UNCHANGED <<mode, ended, memory, writable, received, writeError, digest>>

-----------------------------------------------------------------------------
(* Before the transfer.                                                     *)

\* download_file_worker: an existing destination is refused before anything
\* else; prepare_download_resume_journal_in reads the journal of this source
\* and destination, or writes a new one naming a new partial.
prepare_download_resume_journal(p) ==
    IF mode[p] = "auto" /\ journal # NoFile THEN journal
    ELSE [id |-> p, durable |-> 0, identity |-> 0]

Begin(p) ==
    /\ stage[p] = "start"
    /\ IF target # NoFile
       THEN EndsWith(p, "failed") /\ UNCHANGED journal
       ELSE LET mine == prepare_download_resume_journal(p)
            IN  /\ memory' = [memory EXCEPT ![p] = mine]
                /\ journal' = IF mode[p] = "auto" THEN mine ELSE journal
                /\ Goto(p, "connecting")
                /\ UNCHANGED <<mode, ended, writable, received, writeError, digest>>
    /\ UNCHANGED <<partial, target, linking, lasting, remote, power, badWrites>>

\* The daemon cannot be reached, refuses, or the request is cancelled or late.
ConnectFails(p) ==
    /\ stage[p] = "connecting"
    /\ EndsWith(p, "failed")
    /\ UNCHANGED <<journal, partial, target, linking, lasting, remote, power, badWrites>>

\* A new file, open for writing; one that exists is never taken over.
create_local_download_partial(p, i) ==
    /\ partial[i] = NoFile
    /\ partial' = [partial EXCEPT ![i] = [data |-> << >>, synced |-> 0]]
    /\ writable' = [writable EXCEPT ![p] = TRUE]
    /\ lasting' = lasting \ {i}

\* The file of that name, open for reading only.
open_existing_protected_file(p, i) ==
    /\ partial[i] # NoFile
    /\ writable' = [writable EXCEPT ![p] = FALSE]
    /\ UNCHANGED <<partial, lasting>>

\* download_file_inner: the partial is created, or the one the journal names
\* is opened.  It must exist where the journal promises a prefix and must not
\* be shorter; a longer one would have to be cut, which its descriptor refuses.
OpenPartial(p) ==
    LET i == Own(p)
        durable == memory[p].durable
    IN  /\ stage[p] = "connecting"
        /\ \/ /\ target = NoFile
              /\ durable = 0
              /\ create_local_download_partial(p, i)
              /\ Goto(p, "requesting")
              /\ UNCHANGED <<mode, ended, memory, received, writeError, digest>>
           \/ /\ target = NoFile
              /\ mode[p] = "auto"
              /\ open_existing_protected_file(p, i)
              /\ Len(partial[i].data) = durable
              /\ received' = [received EXCEPT ![p] = partial[i].data]
              /\ Goto(p, "requesting")
              /\ UNCHANGED <<mode, ended, memory, writeError, digest>>
           \/ /\ \/ target # NoFile
                 \/ partial[i] = NoFile /\ durable > 0
                 \/ partial[i] # NoFile /\ (mode[p] = "never" \/ Len(partial[i].data) # durable)
              /\ EndsWith(p, "failed")
              /\ UNCHANGED <<partial, lasting>>
        /\ UNCHANGED <<journal, target, linking, remote, power, badWrites>>

-----------------------------------------------------------------------------
(* download_via_daemon_until.                                               *)

Transferring(p) ==
    stage[p] \in {"requesting", "receiving", "written", "synced", "lastWindow", "lastSynced"}

\* The daemon serves a transfer id once at a time.
Served(p) == \A q \in Procs \ {p} :
                (Transferring(q) /\ stage[q] # "requesting") => Own(q) # Own(p)

\* The daemon announces size and SHA-256.  record_remote_identity writes the
\* first identity into the journal and refuses another one later.
TransferDigest(p) ==
    LET known == memory[p].identity
        named == [memory[p] EXCEPT !.identity = remote]
    IN  /\ stage[p] = "requesting"
        /\ Served(p)
        /\ \/ /\ mode[p] = "never" \/ known \in {0, remote}
              /\ digest' = [digest EXCEPT ![p] = remote]
              /\ memory' = [memory EXCEPT ![p] = named]
              /\ journal' = IF mode[p] = "auto" /\ known = 0 THEN named ELSE journal
              /\ Goto(p, "receiving")
              /\ UNCHANGED <<mode, ended, writable, received, writeError, partial>>
           \/ /\ mode[p] = "auto"
              /\ known \notin {0, remote}
              /\ Interrupts(p)
              /\ UNCHANGED journal
        /\ UNCHANGED <<target, linking, lasting, remote, power, badWrites>>

\* A FileChunk: an earlier write's error surfaces here; else the block is
\* hashed and its write started, which fails on a read-only descriptor or a
\* full disk.
FileChunk(p) ==
    LET i == Own(p)
    IN  /\ stage[p] = "receiving"
        /\ Len(received[p]) < Blocks
        /\ ~writeError[p]
        /\ received' = [received EXCEPT ![p] = Append(@, remote)]
        /\ \/ /\ writable[p]
              /\ partial' = IF partial[i] = NoFile THEN partial
                            ELSE [partial EXCEPT ![i].data = Append(@, remote)]
              /\ UNCHANGED <<writeError, badWrites>>
           \/ /\ ~writable[p] \/ badWrites < MaxDisk
              /\ writeError' = [writeError EXCEPT ![p] = TRUE]
              /\ badWrites' = IF badWrites < MaxDisk THEN badWrites + 1 ELSE badWrites
              /\ UNCHANGED partial
        /\ Goto(p, IF mode[p] = "auto" /\ Len(received[p]) + 1 - memory[p].durable >= Window
                   THEN "written" ELSE "receiving")
        /\ UNCHANGED <<mode, ended, memory, writable, digest, journal, target, linking, lasting, remote, power>>

\* (A file whose name another process removed is written and synced in vain.)
Synced(i) == IF partial[i] = NoFile THEN partial
             ELSE [partial EXCEPT ![i].synced = Len(partial[i].data)]

\* sync_data at the end of a window, and after the last byte.
SyncData(p) ==
    /\ stage[p] \in {"written", "lastWindow"}
    /\ partial' = Synced(Own(p))
    /\ Goto(p, IF stage[p] = "written" THEN "synced" ELSE "lastSynced")
    /\ Unmoved(p)
    /\ UNCHANGED <<journal, target, linking, lasting, remote, power, badWrites>>

\* record_durable: the synced offset, never less than before.
RecordDurable(p) ==
    LET now == [memory[p] EXCEPT !.durable = Len(received[p])]
    IN  /\ stage[p] \in {"synced", "lastSynced"}
        /\ memory' = [memory EXCEPT ![p] = now]
        /\ journal' = IF Len(received[p]) > memory[p].durable THEN now ELSE journal
        /\ Goto(p, IF stage[p] = "synced" THEN "receiving" ELSE "flushing")
        /\ UNCHANGED <<mode, ended, writable, received, writeError, digest>>
        /\ UNCHANGED <<partial, target, linking, lasting, remote, power, badWrites>>

\* TransferDone with the number of bytes received, and their SHA-256 is the
\* one announced.
TransferDone(p) ==
    /\ stage[p] = "receiving"
    /\ Len(received[p]) = Blocks
    /\ received[p] = Whole(digest[p])
    /\ Goto(p, IF mode[p] = "auto" THEN "lastWindow" ELSE "flushing")
    /\ Unmoved(p)
    /\ UNCHANGED <<journal, partial, target, linking, lasting, remote, power, badWrites>>

\* A mismatch, a write error, the daemon's error or its end, the deadline or
\* the cancellation.
TransferFails(p) ==
    /\ Transferring(p)
    /\ Interrupts(p)
    /\ UNCHANGED <<journal, target, linking, lasting, remote, power, badWrites>>

-----------------------------------------------------------------------------
(* finalize_local_download and commit_local_no_replace_with_hook.           *)

\* flush reports what write_all left unsaid, sync_all makes the file durable.
Flush(p) ==
    /\ stage[p] = "flushing"
    /\ \/ /\ ~writeError[p]
          /\ partial' = Synced(Own(p))
          /\ Goto(p, "committing")
          /\ Unmoved(p)
       \/ /\ EndsWith(p, "failed")
          /\ IF mode[p] = "never" THEN Removed(Own(p)) ELSE UNCHANGED partial
    /\ UNCHANGED <<journal, target, linking, lasting, remote, power, badWrites>>

\* Past its deadline the commit does not start; before, the link is handed to
\* a blocking task nobody can call back.
StartLink(p) ==
    /\ stage[p] = "committing"
    /\ \/ /\ linking' = linking \cup {[by |-> p, of |-> Own(p)]}
          /\ Goto(p, "linking")
          /\ Unmoved(p)
          /\ UNCHANGED partial
       \/ Abandons(p, "failed") /\ UNCHANGED linking
    /\ UNCHANGED <<journal, target, lasting, remote, power, badWrites>>

\* hard_link: it installs the name, or fails where the name exists.
HardLink(l) ==
    /\ l \in linking
    /\ linking' = linking \ {l}
    /\ target' = IF target = NoFile /\ partial[l.of] # NoFile
                 THEN [by |-> l.by, data |-> partial[l.of].data] ELSE target
    /\ UNCHANGED <<procState, journal, partial, lasting, remote, power, badWrites>>

InFlight(p) == \E l \in linking : l.by = p

\* The task's result: an error is a conflict when the destination exists.
LinkReturns(p) ==
    /\ stage[p] = "linking"
    /\ ~InFlight(p)
    /\ IF target # NoFile /\ target.by = p
       THEN Goto(p, "linked") /\ Unmoved(p) /\ UNCHANGED partial
       ELSE Abandons(p, IF target = NoFile THEN "failed" ELSE "conflict")
    /\ UNCHANGED <<journal, target, linking, lasting, remote, power, badWrites>>

\* As LinkTimesOut would be if a timeout were an ordinary error.
LinkTimesOutPlainly(p) ==
    /\ stage[p] = "linking"
    /\ Abandons(p, "failed")
    /\ UNCHANGED <<journal, target, linking, lasting, remote, power, badWrites>>

\* abort keeps a queued task from starting; it does not stop a running one.
Aborted(p) == linking' \in {linking, {l \in linking : l.by # p}}

\* Deadline and reconciliation grace go by without a result, and the name is
\* probed.  It is this file: the commit goes on.  Nothing is there: the error
\* says that the operation may still complete.  Its identity cannot be
\* verified, or is another's: a conflict with a timed-out commit.  The probe is
\* late itself: a plain error, and the task is left to itself.
LinkTimesOut(p) ==
    /\ stage[p] = "linking"
    /\ \/ /\ target # NoFile
          /\ target.by = p
          /\ Goto(p, "linked")
          /\ Unmoved(p)
          /\ UNCHANGED <<partial, linking>>
       \/ target = NoFile /\ Abandons(p, "mayComplete") /\ Aborted(p)
       \/ target # NoFile /\ Abandons(p, "unreconciled") /\ Aborted(p)
       \/ Abandons(p, "unreconciled") /\ UNCHANGED linking
    /\ UNCHANGED <<journal, target, lasting, remote, power, badWrites>>

Names(partials, destination) ==
    {i \in Procs : partials[i] # NoFile} \cup (IF destination = NoFile THEN {} ELSE {"target"})

\* sync_parent_directory: every name there is on disk; or it fails or is late,
\* which is a warning.
DirectorySynced == lasting' = Names(partial', target)

\* The identity of the installed file is verified, the directory synced, the
\* temporary name removed; only the first of these can fail the download.
AfterLink(p) ==
    /\ stage[p] = "linked"
    /\ \/ Goto(p, "confirming") /\ Unmoved(p) /\ Removed(Own(p)) /\ DirectorySynced
       \/ Goto(p, "unsynced") /\ Unmoved(p) /\ Removed(Own(p)) /\ UNCHANGED lasting
       \/ Abandons(p, "unconfirmed") /\ UNCHANGED lasting
    /\ UNCHANGED <<journal, target, linking, remote, power, badWrites>>

\* The journal file is removed, or a warning says that it was not.
RemoveJournal(p) == journal' \in IF mode[p] = "auto" THEN {NoFile, journal} ELSE {journal}

\* Ack, and the daemon's Completed.  The Ack cannot be written, or the answer
\* is an Error, another frame or the end of the stream: a plain error, though
\* the destination is installed.  A partial that is still there is removed now.
Confirm(p) ==
    /\ stage[p] \in {"confirming", "unsynced"}
    /\ \/ EndsWith(p, IF stage[p] = "confirming" THEN "ok" ELSE "okWarned") /\ RemoveJournal(p)
       \/ EndsWith(p, "unconfirmed") /\ UNCHANGED journal
    /\ Removed(Own(p))
    /\ UNCHANGED <<target, linking, lasting, remote, power, badWrites>>

-----------------------------------------------------------------------------
(* What else happens.                                                       *)

Kill(p) ==
    /\ stage[p] \notin {"start", "end"}
    /\ EndsWith(p, "none")
    /\ UNCHANGED <<journal, partial, target, linking, lasting, remote, power, badWrites>>

\* What a power failure leaves of a file: what was not synced may be gone, or
\* its blocks empty.
Leftover(file, keep, empty) ==
    LET length == IF keep < file.synced THEN file.synced
                  ELSE IF keep < Len(file.data) THEN keep ELSE Len(file.data)
    IN  [data |-> [b \in 1..length |-> IF b > file.synced /\ empty THEN Lost ELSE file.data[b]],
         synced |-> length]

\* A name that is not on disk may be gone as well.  (That a removed name comes
\* back is the removal that failed.)  The journal was replaced atomically and
\* synced with its directory.
PowerFailure ==
    /\ power < MaxPower
    /\ power' = power + 1
    /\ stage' = [p \in Procs |-> IF stage[p] = "start" THEN "start" ELSE "end"]
    /\ memory' = [p \in Procs |-> NoFile]
    /\ writable' = [p \in Procs |-> FALSE]
    /\ received' = [p \in Procs |-> << >>]
    /\ writeError' = [p \in Procs |-> FALSE]
    /\ digest' = [p \in Procs |-> 0]
    /\ linking' = {}
    /\ \E gone \in SUBSET (Names(partial, target) \ lasting) :
         /\ partial' \in {[i \in Procs |-> IF partial[i] = NoFile \/ i \in gone THEN NoFile
                                           ELSE Leftover(partial[i], keep, empty)] :
                            keep \in 0..Blocks, empty \in BOOLEAN}
         /\ target' = IF "target" \in gone THEN NoFile ELSE target
    /\ lasting' = Names(partial', target')
    /\ UNCHANGED <<mode, ended, journal, remote, badWrites>>

\* Another program creates the destination; the remote file is changed.
OtherCreates ==
    /\ target = NoFile
    /\ target' = Foreign
    /\ UNCHANGED <<procState, journal, partial, linking, lasting, remote, power, badWrites>>

RemoteChanges ==
    /\ remote + 1 \in Versions
    /\ remote' = remote + 1
    /\ UNCHANGED <<procState, journal, partial, target, linking, lasting, power, badWrites>>

DownloadStep(p) ==
    \/ Begin(p) \/ ConnectFails(p) \/ OpenPartial(p)
    \/ TransferDigest(p) \/ FileChunk(p) \/ SyncData(p) \/ RecordDurable(p)
    \/ TransferDone(p) \/ TransferFails(p)
    \/ Flush(p) \/ StartLink(p) \/ LinkReturns(p) \/ LinkTimesOut(p) \/ AfterLink(p) \/ Confirm(p)
    \/ Kill(p)

DownloadNext ==
    \/ \E p \in Procs : DownloadStep(p)
    \/ \E l \in linking : HardLink(l)
    \/ PowerFailure \/ OtherCreates \/ RemoteChanges

DownloadSpec == DownloadInit /\ [][DownloadNext]_download

-----------------------------------------------------------------------------
Contents == UNION {[1..n -> Versions \cup {Lost}] : n \in 0..Blocks}

\* Every variable keeps its type.
DownloadTypeOK ==
    /\ mode \in [Procs -> Modes]
    /\ ended \in [Procs -> {"none", "ok", "okWarned", "failed", "interrupted", "conflict",
                          "mayComplete", "unreconciled", "unconfirmed"}]
    /\ \A p \in Procs : received[p] \in Contents /\ digest[p] \in Versions \cup {0}
    /\ \A i \in Procs : partial[i] # NoFile =>
          partial[i].data \in Contents /\ partial[i].synced \in 0..Len(partial[i].data)
    /\ target = NoFile \/ target = Foreign \/ target.by \in Procs
    /\ remote \in Versions

\* The destination is only ever given a complete file: every block of it from
\* the one version whose SHA-256 was verified, whatever was interrupted,
\* resumed, lost by a power failure or half written by a full disk before,
\* and although write errors surface late.  A success means that it was, and
\* no power failure takes it back, unless a warning said that its directory
\* was not synced.
PublishedWhole ==
    /\ target # NoFile /\ target # Foreign => \E v \in Versions : target.data = Whole(v)
    /\ \A p \in Procs :
          (ended[p] = "ok" \/ (ended[p] = "okWarned" /\ power = 0)) => target # NoFile /\ target.by = p

\* An error from before the link was started, a cancellation among them, and the
\* error of a link that failed mean that the destination is not this process's
\* work and never becomes it.  An error from after the link means the opposite:
\* the file is installed though the download is reported as failed.  Only the
\* errors of a link that ran out of time leave it open: "may still complete",
\* and the two that do not say so, of a probe that was late and of a destination
\* whose identity could not be verified.
ErrorsAreDefinite ==
    \A p \in Procs :
        /\ ended[p] \in {"failed", "interrupted", "conflict"} =>
              (target # NoFile => target.by # p) /\ ~InFlight(p)
        /\ (ended[p] = "unconfirmed" /\ power = 0) => target # NoFile /\ target.by = p

\* The journal never promises a prefix that is not on disk: what it calls
\* durable is synced and is the version it names, until that partial has been
\* published or a local write has failed unnoticed by sync_data.  Only the name
\* of the partial, which nothing syncs, may be lost to a power failure: the next
\* attempt then stops at the missing file.
JournalBehindDisk ==
    (journal # NoFile /\ journal.durable > 0 /\ badWrites = 0) =>
        LET file == partial[journal.id]
        IN  \/ target # NoFile
            \/ file = NoFile /\ power > 0
            \/ /\ file # NoFile
               /\ journal.durable <= file.synced
               /\ \A b \in 1..journal.durable : file.data[b] # Lost

\* Destination, answer and journal of a download agree.
DownloadIsSound == PublishedWhole /\ ErrorsAreDefinite /\ JournalBehindDisk

\* "Only the synced contiguous local prefix is kept" (docs/serctl-user-guide.md,
\* section on --resume auto): once an interrupted download has returned and no
\* process is at work, the partial its journal names ends at the durable
\* offset, where the next attempt continues.
KeepsDurablePrefix ==
    (/\ \E p \in Procs : ended[p] = "interrupted"
     /\ \A p \in Procs : stage[p] \in {"start", "end"} /\ (stage[p] = "end" => ended[p] # "none")
     /\ journal # NoFile) =>
        \/ partial[journal.id] = NoFile
        \/ Len(partial[journal.id].data) = journal.durable

=============================================================================
