----------------------------- MODULE AuditLedger ------------------------------
(***************************************************************************)
(* The audit ledger of one profile generation on disk                      *)
(* (crates/serctl_core/src/audit.rs): a log file, an authenticated         *)
(* checkpoint file, and the processes that append to them under an         *)
(* exclusive file lock.  The daemon appends from several blocking threads; *)
(* an administrator process initialises the generation, resolves pending   *)
(* Intents and reconciles a lagging checkpoint.  Between any two steps a   *)
(* process may be killed or the machine may lose power.                    *)
(***************************************************************************)
EXTENDS AuditRecords, FiniteSets

CONSTANTS Workers,      \* blocking threads of the daemon that append
          Admin,        \* the administrative process
          Free,         \* the lock has no holder
          Genesis,      \* the generation's first record
          MaxLog,       \* MAX_AUDIT_LOG_BYTES, counted in records
          Faults,       \* subset of {"kill", "io", "power"}
          AdminOps      \* subset of {"initialize", "resolve", "reconcile"}

ASSUME LedgerAssumption ==
    /\ Admin \notin Workers
    /\ Free \notin Workers \cup {Admin}
    /\ Genesis \in Administrative
    /\ MaxLog \in Nat
    /\ Faults \subseteq {"kill", "io", "power"}
    /\ AdminOps \subseteq {"initialize", "resolve", "reconcile"}

VARIABLES logFile,    \* "absent", "clean", or "torn" (ends with a partial record)
          log,        \* the whole records of the log file, as a reader sees them
          synced,     \* how many of them a power loss cannot take
          entry,      \* the log's directory entry: "volatile" until it is synced
          ckptFile,   \* "absent", "torn" or "ok", as a reader sees it
          ckpt,       \* the chain whose head the checkpoint authenticates
          firm,       \* the checkpoint of the last synced directory
          loose,      \* those that took its place since: a rename is not durable by itself
          lock,       \* holder of the exclusive lock on the log
          job,        \* what each process runs, and where it is in it
          acked       \* events whose append returned Ok

record == <<logFile, log, synced, entry>>
certificate == <<ckptFile, ckpt, firm, loose>>
disk == <<record, certificate>>
vars == <<disk, lock, job, acked>>

Procs == Workers \cup {Admin}

Kinds == {"append", "init", "resolve", "reconcile"}

Steps == {"idle", "blocked", "locked", "checked", "written", "entry", "synced", "create", "fill", "renamed"}

\* todo: the events still to append; cur: the one being appended.
Jobs == [kind : Kinds, pc : Steps, todo : SUBSET Events, cur : Events]

Version(file, chain) == [file |-> file, chain |-> chain]

Versions == [file : {"absent", "torn", "ok"}, chain : Seq(Events)]

Idle == [kind |-> "append", pc |-> "idle", todo |-> {}, cur |-> Genesis]

\* A generation exists once initialize_generation has returned.
Init ==
    /\ IF "initialize" \in AdminOps
       THEN logFile = "absent" /\ log = <<>> /\ ckptFile = "absent" /\ entry = "volatile"
       ELSE logFile = "clean" /\ log = <<Genesis>> /\ ckptFile = "ok" /\ entry = "durable"
    /\ synced = Len(log)
    /\ ckpt = log
    /\ firm = Version(ckptFile, ckpt)
    /\ loose = {}
    /\ lock = Free
    /\ job = [p \in Procs |-> Idle]
    /\ acked = {}

-------------------------------------------------------------------------------
Start(p, k, events, step) ==
    /\ job[p].pc = "idle"
    /\ job' = [job EXCEPT ![p] = [kind |-> k, pc |-> step, todo |-> events, cur |-> Genesis]]

Goto(p, step) == job' = [job EXCEPT ![p].pc = step]

\* The operation returns: the file lock is released on every path.
Return(p) ==
    /\ job' = [job EXCEPT ![p] = Idle]
    /\ lock' = Free

\* AuditLedger::append, up to the lock.
BeginAppend(w, e) ==
    /\ logFile # "absent"
    /\ Start(w, "append", {e}, "blocked")
    /\ UNCHANGED <<disk, lock, acked>>

BeginResolve ==
    /\ "resolve" \in AdminOps
    /\ logFile # "absent"
    /\ Start(Admin, "resolve", {}, "blocked")
    /\ UNCHANGED <<disk, lock, acked>>

BeginReconcile ==
    /\ "reconcile" \in AdminOps
    /\ logFile # "absent"
    /\ Start(Admin, "reconcile", {}, "blocked")
    /\ UNCHANGED <<disk, lock, acked>>

\* initialize_generation with neither file: initialize_create_new.
BeginCreate ==
    /\ "initialize" \in AdminOps
    /\ logFile = "absent" /\ ckptFile = "absent"
    /\ lock = Free
    /\ Start(Admin, "init", {Genesis}, "locked")
    /\ logFile' = "clean"
    /\ lock' = Admin
    /\ UNCHANGED <<log, synced, entry, certificate, acked>>

\* initialize_generation with a log and no checkpoint:
\* resume_generation_initialization.
BeginResume ==
    /\ "initialize" \in AdminOps
    /\ logFile # "absent" /\ ckptFile = "absent"
    /\ Start(Admin, "init", {Genesis}, "blocked")
    /\ UNCHANGED <<disk, lock, acked>>

\* Mutant: the lock is taken over from its holder.
LockExclusiveUnguarded(p) ==
    /\ job[p].pc = "blocked"
    /\ lock' = p
    /\ Goto(p, "locked")
    /\ UNCHANGED <<disk, acked>>

\* lock_exclusive blocks until the lock is free.
LockExclusive(p) ==
    /\ job[p].pc = "blocked"
    /\ lock = Free
    /\ lock' = p
    /\ Goto(p, "locked")
    /\ UNCHANGED <<disk, acked>>

-------------------------------------------------------------------------------
\* verify_log: a partial last record is refused.
VerifyLog == logFile = "clean" /\ WellFormed(log)

\* verify_checkpoint_against_log
CheckpointAccepted(allowLagging) ==
    /\ ckptFile = "ok"
    /\ OnChain(ckpt, log)
    /\ allowLagging \/ Len(ckpt) = Len(log)

\* The checks of append_locked_with_checkpoint_mode for event e.
AppendAccepted(p, e) ==
    /\ VerifyLog
    /\ IF job[p].kind = "init" THEN log = <<>> /\ ckptFile = "absent" ELSE CheckpointAccepted(TRUE)
    /\ Admissible(log, e)
    /\ Len(log) < MaxLog

VerifyAppend(p) ==
    /\ job[p].pc = "locked"
    /\ \E e \in job[p].todo :
         /\ AppendAccepted(p, e)
         /\ job' = [job EXCEPT ![p].cur = e, ![p].pc = "checked"]
    /\ UNCHANGED <<disk, lock, acked>>

\* resume_generation_initialization finds the exact single transition.
VerifyResume ==
    /\ job[Admin].pc = "locked" /\ job[Admin].kind = "init"
    /\ VerifyLog /\ log = <<Genesis>>
    /\ Goto(Admin, "create")
    /\ UNCHANGED <<disk, lock, acked>>

\* resolve_pending_as_unknown: the Unknown Outcome of every pending Intent.
UnknownOutcomes ==
    {OutcomeOf(log[i].id, log[i].binding, "Unknown") :
        i \in {j \in 1..Len(log) : log[j].phase = "Intent" /\ log[j].id \in PendingIntents(log)}}

VerifyResolve ==
    /\ job[Admin].pc = "locked" /\ job[Admin].kind = "resolve" /\ job[Admin].todo = {}
    /\ VerifyLog /\ CheckpointAccepted(FALSE)
    /\ IF UnknownOutcomes = {}
       THEN Return(Admin)
       ELSE job' = [job EXCEPT ![Admin].todo = UnknownOutcomes] /\ UNCHANGED lock
    /\ UNCHANGED <<disk, acked>>

\* reconcile accepts a checkpoint that lags on the same chain.
ReconcileAccepted ==
    /\ VerifyLog
    /\ \/ ckptFile = "ok" /\ OnChain(ckpt, log)
       \/ ckptFile = "absent" /\ log = <<>>

VerifyReconcile ==
    /\ job[Admin].pc = "locked" /\ job[Admin].kind = "reconcile"
    /\ ReconcileAccepted
    /\ Goto(Admin, "synced")
    /\ UNCHANGED <<disk, lock, acked>>

\* Mutant: an early return that skips the unlock.
RefuseHoldingLock(p) ==
    /\ job[p].pc = "locked"
    /\ \A e \in job[p].todo : ~AppendAccepted(p, e)
    /\ job[p].kind = "init" => ~(VerifyLog /\ log = <<Genesis>>)
    /\ job[p].kind = "resolve" /\ job[p].todo = {} => ~(VerifyLog /\ CheckpointAccepted(FALSE))
    /\ job[p].kind = "reconcile" => ~ReconcileAccepted
    /\ job' = [job EXCEPT ![p] = Idle]
    /\ UNCHANGED <<disk, lock, acked>>

\* Any refused check returns the error before the files are touched.
Refuse(p) ==
    /\ job[p].pc = "locked"
    /\ \A e \in job[p].todo : ~AppendAccepted(p, e)
    /\ job[p].kind = "init" => ~(VerifyLog /\ log = <<Genesis>>)
    /\ job[p].kind = "resolve" /\ job[p].todo = {} => ~(VerifyLog /\ CheckpointAccepted(FALSE))
    /\ job[p].kind = "reconcile" => ~ReconcileAccepted
    /\ Return(p)
    /\ UNCHANGED <<disk, acked>>

-------------------------------------------------------------------------------
\* Mutant: the record is written over the last one instead of at the end.
WriteRecordOverLast(p) ==
    /\ job[p].pc = "checked"
    /\ log' = IF log = <<>> THEN <<job[p].cur>> ELSE [log EXCEPT ![Len(log)] = job[p].cur]
    /\ Goto(p, "written")
    /\ UNCHANGED <<logFile, synced, entry, certificate, lock, acked>>

\* write_all: from here on every reader sees the record.
WriteRecord(p) ==
    /\ job[p].pc = "checked"
    /\ log' = Append(log, job[p].cur)
    /\ Goto(p, "written")
    /\ UNCHANGED <<logFile, synced, entry, certificate, lock, acked>>

\* Mutant: sync_data is missing.
SyncRecordSkipped(p) ==
    /\ job[p].pc = "written"
    /\ Goto(p, IF job[p].kind = "init" THEN "entry" ELSE "synced")
    /\ UNCHANGED <<disk, lock, acked>>

\* sync_data; a new log then syncs its directory entry.
SyncRecord(p) ==
    /\ job[p].pc = "written"
    /\ synced' = Len(log)
    /\ Goto(p, IF job[p].kind = "init" THEN "entry" ELSE "synced")
    /\ UNCHANGED <<logFile, log, entry, certificate, lock, acked>>

SyncEntry(p) ==
    /\ job[p].pc = "entry"
    /\ entry' = "durable"
    /\ Goto(p, "create")
    /\ UNCHANGED <<logFile, log, synced, certificate, lock, acked>>

\* persist_checkpoint writes and syncs a temporary file and renames it over the
\* checkpoint.
RenameCheckpoint(p) ==
    /\ job[p].pc = "synced"
    /\ ckptFile' = "ok"
    /\ ckpt' = log
    /\ loose' = loose \cup {Version("ok", log)}
    /\ Goto(p, "renamed")
    /\ UNCHANGED <<record, firm, lock, acked>>

\* persist_checkpoint_create_new: an empty file first, then its contents.
CreateCheckpoint(p) ==
    /\ job[p].pc = "create"
    /\ ckptFile = "absent"
    /\ ckptFile' = "torn"
    /\ loose' = loose \cup {Version("torn", ckpt)}
    /\ Goto(p, "fill")
    /\ UNCHANGED <<record, ckpt, firm, lock, acked>>

FillCheckpoint(p) ==
    /\ job[p].pc = "fill"
    /\ ckptFile' = "ok"
    /\ ckpt' = log
    /\ loose' = {Version("ok", log)}
    /\ Goto(p, "renamed")
    /\ UNCHANGED <<record, firm, lock, acked>>

\* An event is acknowledged and the next one taken up, or the operation returns.
Acknowledge(p) ==
    /\ acked' = IF job[p].kind = "reconcile" THEN acked ELSE acked \cup {job[p].cur}
    /\ IF job[p].todo \subseteq {job[p].cur}
       THEN Return(p)
       ELSE /\ job' = [job EXCEPT ![p].todo = @ \ {job[p].cur}, ![p].pc = "locked"]
            /\ UNCHANGED lock

\* Mutant: commit returns once the rename is done.
SyncDirectorySkipped(p) ==
    /\ job[p].pc = "renamed"
    /\ Acknowledge(p)
    /\ UNCHANGED disk

\* The last step of commit, and of the creation: the parent directory is synced.
SyncDirectory(p) ==
    /\ job[p].pc = "renamed"
    /\ firm' = Version(ckptFile, ckpt)
    /\ loose' = {}
    /\ Acknowledge(p)
    /\ UNCHANGED <<record, ckptFile, ckpt>>

-------------------------------------------------------------------------------
\* A failed read, sync, directory sync or file creation: the error is returned
\* and what was already written, or renamed, stays.
IoError(p) ==
    /\ "io" \in Faults
    /\ job[p].pc \in {"locked", "written", "entry", "synced", "create", "fill", "renamed"}
    /\ Return(p)
    /\ UNCHANGED <<disk, acked>>

\* write_all fails after part of the record reached the file.
TornWrite(p) ==
    /\ "io" \in Faults
    /\ job[p].pc = "checked"
    /\ logFile' = "torn"
    /\ Return(p)
    /\ UNCHANGED <<log, synced, entry, certificate, acked>>

\* The process of p dies: the system releases its locks.  A record it was
\* writing may be left partial.
Kill(ps) ==
    /\ "kill" \in Faults
    /\ \E p \in ps : job[p].pc # "idle"
    /\ job' = [p \in Procs |-> IF p \in ps THEN Idle ELSE job[p]]
    /\ lock' = IF lock \in ps THEN Free ELSE lock
    /\ \/ UNCHANGED logFile
       \/ (\E p \in ps : job[p].pc = "checked") /\ logFile' = "torn"
    /\ UNCHANGED <<log, synced, entry, certificate, acked>>

KillDaemon == Kill(Workers)

KillAdmin == Kill({Admin})

\* Every process dies and what was not synced may be gone: the last records of
\* the log, a new file's directory entry, or the renames of the checkpoint.
PowerLoss ==
    /\ "power" \in Faults
    /\ logFile # "absent"
    /\ job' = [p \in Procs |-> Idle]
    /\ lock' = Free
    /\ \E v \in {firm} \cup loose :
         ckptFile' = v.file /\ ckpt' = v.chain /\ firm' = v /\ loose' = {}
    /\ \/ \E k \in synced..Len(log) :
            /\ log' = SubSeq(log, 1, k)
            /\ synced' = k
            /\ logFile' \in IF logFile = "torn" \/ k < Len(log) THEN {"clean", "torn"} ELSE {"clean"}
            /\ entry' = "durable"
       \/ /\ entry = "volatile"
          /\ logFile' = "absent" /\ log' = <<>> /\ synced' = 0
          /\ entry' = "volatile"
    /\ UNCHANGED acked

-------------------------------------------------------------------------------
Step(p) ==
    \/ LockExclusive(p) \/ VerifyAppend(p) \/ Refuse(p)
    \/ WriteRecord(p) \/ SyncRecord(p) \/ SyncEntry(p)
    \/ RenameCheckpoint(p) \/ CreateCheckpoint(p) \/ FillCheckpoint(p) \/ SyncDirectory(p)

AdminStep == VerifyResume \/ VerifyResolve \/ VerifyReconcile

Fault == (\E p \in Procs : IoError(p) \/ TornWrite(p))
         \/ KillDaemon \/ KillAdmin \/ PowerLoss

Next ==
    \/ \E w \in Workers, e \in Intents \cup Outcomes : BeginAppend(w, e)
    \/ BeginResolve \/ BeginReconcile \/ BeginCreate \/ BeginResume
    \/ \E p \in Procs : Step(p)
    \/ AdminStep
    \/ Fault

Spec == Init /\ [][Next]_vars

\* Every call the code makes in an operation returns, and the kernel serves
\* the waiters of the file lock.
Fairness ==
    /\ \A p \in Procs : WF_vars(Step(p)) /\ SF_vars(LockExclusive(p))
    /\ WF_vars(AdminStep)

FairSpec == Spec /\ Fairness

-------------------------------------------------------------------------------
TypeOK ==
    /\ logFile \in {"absent", "clean", "torn"}
    /\ log \in Seq(Events)
    /\ synced \in 0..Len(log)
    /\ entry \in {"volatile", "durable"}
    /\ ckptFile \in {"absent", "torn", "ok"}
    /\ ckpt \in Seq(Events)
    /\ firm \in Versions
    /\ loose \subseteq Versions
    /\ lock \in Procs \cup {Free}
    /\ job \in [Procs -> Jobs]
    /\ acked \subseteq Events

\* reconcile and resume_generation_initialization certify the records they read
\* without syncing the log again.  A power loss can then take a certified
\* record, unless the generation is only appended to and resolved.
CertifiesOnlySynced == "power" \notin Faults \/ AdminOps \subseteq {"resolve"}

\* Whatever the interleaving of appenders and crashes, the log never holds a
\* second Intent for a request id, a second Outcome, or an Outcome whose Intent
\* or binding is missing: verify_log is run and the record written under one
\* exclusive lock (append, resolve_pending_as_unknown).
ChainWellFormed == WellFormed(log)

\* The authenticated checkpoint is never ahead of the log and never diverges
\* from it: the record is synced before the checkpoint is replaced
\* (append_locked_with_checkpoint_mode).
CheckpointOnChain == CertifiesOnlySynced /\ ckptFile = "ok" => OnChain(ckpt, log)

Holds(chain, events) == \A e \in events : \E i \in 1..Len(chain) : chain[i] = e

\* An event whose append returned Ok stays in the log across kills, I/O errors
\* and power losses.
AckedNeverLost == CertifiesOnlySynced => Holds(log, acked)

\* A checkpoint is only ever replaced by one that extends the same chain.  A
\* power loss may bring an earlier one back, but only while the directory of a
\* rename is not synced, and never one that misses an acknowledged event: the
\* operation returns Ok after AtomicWriteFile::commit has synced the directory.
CheckpointKept ==
    [][CertifiesOnlySynced /\ ckptFile = "ok" =>
         /\ ckptFile' = "ok"
         /\ OnChain(ckpt, ckpt') \/ (loose # {} /\ OnChain(ckpt', ckpt))
         /\ Holds(ckpt', acked')]_vars

\* Every operation returns: no caller waits forever for the file lock.
OperationsReturn == \A p \in Procs : job[p].pc # "idle" ~> job[p].pc = "idle"

\* The inductive invariant behind the three invariants above.
Holding == Steps \ {"idle", "blocked"}

\* Every process past the lock holds it, alone.
LockHeld == \A p \in Procs : job[p].pc \in Holding => lock = p

\* Only the administrator initialises and reconciles, if it does at all; an
\* initialisation runs while there is no usable checkpoint but its own.
AdminJobs ==
    \A p \in Procs :
        /\ job[p].kind \in {"init", "reconcile"} => p = Admin
        /\ job[p].kind = "reconcile" => "reconcile" \in AdminOps
        /\ job[p].kind = "init" =>
             /\ "initialize" \in AdminOps
             /\ ckptFile # "ok" \/ job[p].pc = "renamed"
             /\ job[p].todo = {Genesis} /\ job[p].cur = Genesis

\* What a process verified still holds when it writes, what it wrote is still in
\* the log when it certifies, and what it certified is the log.
VerifiedStaysTrue ==
    \A p \in Procs :
        /\ job[p].pc = "checked" => Admissible(log, job[p].cur)
        /\ job[p].pc \in {"checked", "written", "synced"} /\ job[p].kind \in {"append", "resolve"} =>
             ckptFile = "ok"
        /\ job[p].pc \in {"written", "entry", "create", "fill", "synced", "renamed"}
             /\ job[p].kind # "reconcile" => \E i \in 1..Len(log) : log[i] = job[p].cur
        /\ job[p].pc \in {"entry", "create", "fill"} => job[p].kind = "init"
        /\ job[p].pc = "synced" => job[p].kind # "init"
        /\ job[p].pc = "renamed" => ckptFile = "ok" /\ ckpt = log

\* With power losses in play the certified records are synced.
CertifiedSynced ==
    CertifiesOnlySynced /\ "power" \in Faults =>
        /\ entry = "durable"
        /\ firm.file = "ok"
        /\ Len(ckpt) <= synced
        /\ \A p \in Procs : job[p].pc = "synced" => synced = Len(log)

\* The checkpoints a power loss may bring back lie on the chain of the present
\* one, none of them before the last whose directory is synced.
VersionsOnChain ==
    CertifiesOnlySynced =>
        /\ OnChain(ckpt, log)
        /\ Version(ckptFile, ckpt) \in {firm} \cup loose
        /\ \A v \in {firm} \cup loose :
             /\ OnChain(firm.chain, v.chain) /\ OnChain(v.chain, ckpt)
             /\ firm.file = "ok" => v.file = "ok"

\* Acknowledged events are certified by a checkpoint no power loss can undo.
AckedCertified ==
    CertifiesOnlySynced /\ acked # {} => firm.file = "ok" /\ Holds(firm.chain, acked)

LedgerInv ==
    /\ TypeOK
    /\ LockHeld
    /\ AdminJobs
    /\ VerifiedStaysTrue
    /\ ChainWellFormed
    /\ CheckpointOnChain
    /\ CertifiedSynced
    /\ VersionsOnChain
    /\ AckedCertified

\* The ledger keeps the promise of AuditChain, reading the log as the chain and
\* the sequence of the last synced checkpoint as the certified length.
Chain == INSTANCE AuditChain WITH chain <- log, cert <- Len(firm.chain)

KeepsChainPromise == Chain!ChainSpec

===============================================================================
