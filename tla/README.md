# serctl: models, checks and proofs

serctl keeps SSH credentials in a local vault and lets people and agents use them through one
background daemon. A command opens an encrypted local connection to the daemon and sends one
request; the daemon authorises it (with the profile passphrase, or with a signed grant whose every
use is audited), carries it out over a pooled SSH session, and reports. Files can also be moved by
a helper that runs on the remote host, and another helper runs jobs there.

This directory holds TLA+ models of the parts of serctl where the order of steps of several actors,
crashes, lost answers and limits decide whether the program is right, the TLC configurations that
check them on small instances, and TLAPS proofs of what matters most for instances of any size.
Paths below are relative to the repository's root.

    tlasany M.tla                      parse a module
    tlc -workers 2 -config X.cfg M     run X (PROJECT.json names the module of every cfg)
    tlapm M.tla                        check the proofs of M

| component | modules | run | proofs |
|---|---|---|---|
| audit ledger | `AuditRecords`, `AuditChain`, `AuditLedger` | `audit_crash`, `audit_power` | `AuditLedgerProofs` |
| grants and audited dispatch | `GrantDispatch` (on `AuditChain`) | `grants` | `GrantDispatchProofs` |
| native upload on the remote host | `NativeUpload` | `uploads` | `NativeUploadSteps`, `NativeUploadProofs` |
| daemon lifecycle, runtime files | `DaemonRuntime` | `daemon_runtime` | `DaemonRuntimeProofs` |
| transfers in the daemon | `TransferRegistry`, `TransferServing` | `transfers` | `TransferServingProofs` |
| tunnels | `Tunnel`, `TunnelRuntime`, `ManagedTunnels` | `tunnel_runtime`, `tunnel_managed` | `TunnelRuntimeProofs`, `ManagedTunnelsProofs` |
| profile vault | `ProfileVault` | `profile_vault` | - |
| remote jobs and their policy | `RemoteJob`, `Policy` | `remote_job` | - |
| encrypted channel, client commands, client transfers, connecting, agent gateway, workbench | `SecureChannel`, `ClientExchange`, `ClientDownload`, `ClientUpload`, `SshConnect`, `AgentLoop`, `Workbench` | `client`, `download_resume` | - |

`MC...` modules give model values, symmetry sets, and predicates that choose which combinations of
the environment's decisions an instance has; they replace no definition. In every module a
definition whose comment starts with "Mutant" is not part of the specification: it is the form a
plausible bug would give the definition after it, kept to show that the properties notice.
## The parts and how they interact

A **command** (`serctl_cli/src/client.rs`) finds or launches the **daemon** through two runtime files
and a startup lock (`DaemonRuntime`), connects over the **encrypted channel** (`SecureChannel`) and
sends one root request. The daemon (`serctl_daemon/src/daemon.rs`) unlocks the profile from the
**vault** (`ProfileVault`), connects **SSH** (`SshConnect`), and serves: commands
(`ClientExchange`), transfers (`TransferRegistry`, `TransferServing`), tunnels (`ManagedTunnels`
over `TunnelRuntime`). An **agent** (`AgentLoop`) uses a grant instead of a passphrase; the daemon
validates it, spends its budget and writes an Intent and an Outcome to the profile generation's
**ledger** (`GrantDispatch`, `AuditLedger`). On the remote host **serctl-xfer** receives uploads
(`NativeUpload`) and **serctl-remote** runs jobs under a policy (`RemoteJob`, `Policy`). The client's
half of a transfer, with its resume journal, is `ClientDownload` and `ClientUpload`; the desktop
**workbench** (`Workbench`) drives all of it from one event loop.

What composes with what: `AuditLedger` implements `AuditChain`, and `GrantDispatch` is written on
`AuditChain`; `TransferServing` runs the operators of `TransferRegistry`; `TunnelRuntime` implements
`Tunnel`, and `ManagedTunnels` is built on `Tunnel`; `RemoteJob` calls the operators of `Policy`;
`ClientExchange` and the transfers assume a channel that delivers once or not at all, which is what
`SecureChannel` shows.

Not modelled: the helper's download side (`serve_pull`: reads one file and streams it, no persistent
state) and its frame codec; argument parsing and output of the command line (`main.rs`); file
hardening and inherited handles (`security.rs`, `inherited_io.rs`), which the models use as atomic
create, replace, link and sync; the terminal dialogue of `audit_recovery.rs` (the ledger operation
behind it is modelled); the v5 authentication that only tests still use; build, provenance, scripts
and fuzz targets. The workbench leaves out layout, texts and progress bars.
## The audit ledger

*Source:* `crates/serctl_core/src/audit.rs`. *Modules:* `AuditRecords`, `AuditChain`,
`AuditLedger`, `MCAuditLedger`, `AuditLedgerProofs`.

Every grantable operation is written to the profile generation's ledger twice: an Intent before
it is dispatched and an Outcome before its terminal frame is released. The ledger is two files:
an append-only log of MAC-chained records and an authenticated checkpoint naming the last
certified (sequence, hash). An append takes the file lock, re-reads and re-verifies the whole log
and the checkpoint, writes one record, syncs it, and only then replaces the checkpoint.

| code | model |
|---|---|
| records, hash chain, MACs | `log`, a sequence of `Events`; the head hash of a chain is the chain |
| operation kind, policy digest, intent digest | one `binding` |
| page cache and disk | `log` is what a reader sees, `synced` the part a power loss cannot take, `entry` the directory entry |
| checkpoint file | `ckptFile`, `ckpt` (the chain whose head it authenticates); `firm` is the version that a synced directory names, `loose` the versions that took its place since |
| `lock_exclusive` on the log | `lock` |
| a call in progress | `job[p]`: which operation, at which of its I/O calls |
| `Ok` returned to the caller | `acked` (history) |

Actions are the I/O calls an operation makes, because a kill or a power loss can fall between any
two: `LockExclusive`, `VerifyAppend` (read and verify), `WriteRecord`, `SyncRecord`, `SyncEntry`
(first record only), `RenameCheckpoint` or `CreateCheckpoint` and `FillCheckpoint`, and
`SyncDirectory`, which makes the new checkpoint durable. The daemon's
blocking threads are `Workers`; the administrator's process initialises a generation
(`BeginCreate`, `BeginResume`), resolves pending Intents (`BeginResolve`, `VerifyResolve`) and
reconciles (`BeginReconcile`, `VerifyReconcile`). Faults are `IoError` (before any
of these calls, so also between the rename and the directory sync), `TornWrite`, `KillDaemon`,
`KillAdmin` and `PowerLoss`, which keeps the synced records and any one of the checkpoint versions
`{firm} \cup loose`; the constant `Faults` says which classes an instance has.

`AuditChain` is the promise to callers: records are added only when admissible, and a certified
record is never lost. `KeepsChainPromise` is that specification with `chain <- log` and
`cert <- Len(firm.chain)`: only what a durable checkpoint names counts as certified.

*Runs.* `audit_crash` (2 daemon threads, administrator, 2 request ids, 4 records, kills and I/O
errors, every administrative operation, Outcomes of one decision) checks `ChainWellFormed` and `KeepsChainPromise`;
`audit_power` (as well power losses, two bindings, an initialised generation) `AckedNeverLost`,
`CheckpointKept` (the checkpoint moves along its chain, goes back only over a rename whose directory
was not synced, and holds every acknowledged record whichever version survives) and
`OperationsReturn`. Two request ids and four records are enough for a
duplicate Intent, a second Outcome, an Outcome with the wrong binding and a full log; two threads and
the administrator for every pair of operations to contend.

*Fairness.* Every system call returns (`WF` on each step of a process) and the kernel does not
starve a waiter of the file lock (`SF` on `LockExclusive`). Nothing is assumed of the callers.

*Proved* for every set of workers, request ids and bindings, every log bound and every set of
faults: `TypeCorrect`, `LedgerInvariant`, `ChainSafe`, `CheckpointSafe`, `AckedSafe`,
`CheckpointSurvives`, `LedgerImplementsChain`. `ChainWellFormed` is not inductive: nothing in it
says that the record about to be written was checked against the log it is written to. `LedgerInv`
adds that a process past the lock is its only holder (`LockHeld`), that what it verified is still
true when it writes and what it wrote is still there when it certifies (`VerifiedStaysTrue`), that
only the administrator initialises and reconciles (`AdminJobs`), that certified records are synced
(`CertifiedSynced`), that every checkpoint version a power loss may bring back lies on one chain and
holds the acknowledged records (`VersionsOnChain`) and that acknowledged records are certified
(`AckedCertified`). The step that appends a
record rests on `AppendWellFormed`, the step that loses power on `PrefixWellFormed`.
`CheckpointOnChain`, `AckedNeverLost`, `CheckpointKept` and the refinement hold under
`CertifiesOnlySynced`: no power loss, or a generation that is only appended to and resolved.

That exception is real: `resume_generation_initialization` (`audit.rs:526`) and `reconcile` certify the
records they read without syncing the log. Kill the initialising process between `write_all` and
`sync_data`, retry, lose power: the checkpoint is durable, its record is not, and the generation can
never be opened or initialised again, where the doc comment (`audit.rs:437`) says "retry completes
that pair". The sketch is a behaviour of the model with "power" and "initialize" in one instance.

## Grants and audited dispatch

*Source:* `serctl_daemon/src/daemon.rs` (unlock_profile, issue_grant, GrantRegistry,
GrantAuditOperation, handle_global_conn), `serctl_protocol/src/grant.rs`. *Modules:*
`GrantDispatch`, `MCGrantDispatch`, `GrantDispatchProofs`; extends `AuditChain`.

One unlocked profile, its grants, and connections that carry one root request each. The ledger is
the chain that `AuditChain` promises and `AuditLedger` implements; what is modelled here is how the
daemon drives it through blocking workers: an append is `queued`, `written`, and then `ok` or `err`
(an `err` may still have replaced the checkpoint); the request that waits for it may be gone by then (`orphan`). A request moves
through the code's stages: Intent (`AcceptGrant`, `IntentPersisted`, `IntentFailed`), the quarantine
gate (`CheckQuarantine`), the budget (`SpendBudget` is one compare-exchange; `Exhaust` the separate
registry update), dispatch (`Effect`, `TerminalFrame`, `DispatchEnds`), the Outcome
(`OutcomePersisted`, `OutcomeFailed`, `OutcomeInterrupted`) and `Finalize`. Signatures, proofs and
request validation are reduced to their verdict.

*Run* `grants`: 2 connections, 2 request ids, one grant of budget 1, 2 unlocks, I/O errors, deadlines,
shutdown and crashes. Two connections are enough for a race on a budget, an id or an entry, the
second unlock for a restart. `MCGrantDispatch` lets deadlines and shutdowns happen only in
behaviours with one id and one unlock, and not both in one; crashes and I/O errors happen in all.
`InDoubtStaysLocked` says what a crash between
effect and Outcome costs: the Intent stays pending, and until `audit resolve` has closed it nobody
unlocks the profile, holds a live grant of it or is served on it.
*Fairness*: the runtime polls ready tasks (`WF` on `Serve`), and a blocking worker that wants the
ledger's lock gets it (`SF` on `LedgerStep`).

*Proved* for every set of connections, grants, ids and kinds, every budget and every set of faults:
`DispatchInvariant`, `TypeCorrect`, `EffectsSafe`, `EndsSafe`, `InDoubtLocked`, `BudgetInvariant` and `BudgetSafe`. `EffectsAudited` is not inductive: that no id
is carried out twice depends on who wrote its Intent while nothing had happened yet. `DispatchInv`
says what a worker's state means for the log (`WorkersTrue`), which fields a stage fixes
(`RequestShape`), which records of a request are certified at each stage and when its entry must be
quarantined (`RequestAudited`), that one request owns the Intent of an id (`OneOwner`), and that a
unit is claimed before the operation is dispatched (`ClaimsFirst`). The budget then is counting:
`BudgetKept` says that the units gone from a grant are as many as the requests that claimed one.
Constants: the budget is positive, the genesis record administrative, names of nothing are nothing's.
`IntentsClose` is liveness and stays with TLC.

Met while modelling: the grantable kinds `forward.*/open` contain a `/`, which `validate_token` of the
ledger (`audit.rs:936`) refuses; such a request is rejected on a healthy ledger and its entry
quarantined, although `daemon.rs:4409` and `docs/v1-beta-agent-jsonl.md:39` list it.

## Native upload on the remote host

*Source:* `serctl_xfer/src/main.rs`, `serve_push` and what it calls. *Modules:* `NativeUpload`,
`MCNativeUpload`, `NativeUploadSteps`, `NativeUploadProofs`.

Every attempt is a process (`helper[h]`) at one of the code's system calls. All names are in one
directory: `live` is what the kernel shows, `kept` the set of directories a power loss may leave
(updates reach the disk in order; a directory fsync empties the set to what is live). A file's
contents are chunks with a firm prefix, and `PowerLoss` may lose what is not firm. A write may fail
without anybody noticing at once: tokio's `write_all` only starts it, `sync_data` and `sync_all` wait
for it and keep its error, and the next write reports it (`WriteFailed`, `ReceiveAfterFailure`). Such
a chunk is `"failed"`: the file ends before it (`FileLength`), and `"zeros"` once the cleanup has set
the file to the length the sidecar counts (`Filled`). Attempts lock
(`Begin` ...), look at what earlier ones left (`ObserveTarget`, `ObservePartial`), receive
(`ReceiveData`, `SyncWindow`, `MarkWindow`), commit (`ReceiveCommit`, `SyncAll`, `VerifyOnDisk`,
`Link`, `SyncLink`, `PersistReceipt`, `RemovePartial` ...), recover a commit an earlier attempt did
not finish (`RecoverSync` ...), and clean up after an error (`CleanupPartial` ...). The rebinding
check of the parent directory (`ensure_still_bound`) is folded into the step that fails.

So a sidecar may count a chunk that never reached the file, when the last write of a window failed.
`DurablePrefix` and `SidecarIsResumable` except exactly such chunks (`Dropped`): every other byte a
sidecar counts survives. What remains of the promise is that the chunk is never published:
`VerifyOnDisk` reads the file again before the link, so `TargetWhole` and `CompletedStays` hold
without exception. The price is a transfer id that no retry can complete (see below). A write still
in flight when its attempt ends is taken to land, or to fail, before the cleanup.

*Run* `uploads`: 2 attempts, files of 2 chunks, negotiated windows of 1 or 2 chunks, kills, power
losses, I/O errors at every step, failed writes, wrong data, and the user at the target. Either both
attempts are of one transfer, with equal or different intents, or one of each of two transfers, one of
them without resume. Two attempts are one that leaves a mess and one that must cope with it; two
chunks give a partial window, and a window of 1 a sidecar written between two chunks. Failed writes,
wrong data and the window of 1 are in the behaviours of one transfer only, where the second attempt
meets them. No fairness: these are safety properties.

*Proved* for any number of attempts, transfers and intents, any size, windows and set of
faults: `UploadInvariant`, `TypeCorrect`, `TargetSafe`, `SidecarSafe`, `CompletedSafe`,
`PublishesSafe`; every property of the run. None of them is inductive. `UploadInv` speaks of every
directory in `kept`, since a power loss may choose any of them, and of each attempt:

* `Exclusive`: the lock file admits one attempt of a transfer, so an attempt's step leaves what the
  others know of their own transfer alone.
* `Own(h)`: the fields its place determines (`Shape`); its counters describe the file it owns and no
  record in any kept directory counts more of that file than it has marked (`OnRecord`); what the
  checks it has passed established (`Progress`: synced before `verify`, whole before `link`, not yet
  the target while streaming); what a Completed answer may rest on (`Settled`); and, unless somebody
  interfered, where its partial is (`Ready`). `Unwritten` says that nothing is written before the
  first record.
* `Sound(d)` for every kept directory: names belong to the transfer that made them (`NamesMade`), a
  sidecar counts synced bytes (`Vouched`) and never more than the live one of the same file
  (`Advances`: this is why an earlier directory coming back is harmless), a published file is whole
  and no record of it is short (`Sealed`), and a transfer whose attempts all resume can go on
  (`Resumable`).

The proof has one lemma per action (`...Keeps`): `NativeUploadSteps` has the invariant and the
actions that write no name of the directory, `NativeUploadProofs` the others and the theorems. Steps
that change a file go through `FileSound`, steps that change an entry through `EntriesSound` and its
special cases, steps that do neither through `QuietStep`; attempts other than the one that moves are
covered by `BystanderKept`.

## Transfers in the daemon

*Source:* `serctl_daemon/src/daemon.rs` (TransferRegistry, the Download and UploadBegin arms,
serve_native_download, serve_download, serve_native_upload, serve_upload, status and cancel).
*Modules:* `TransferRegistry`, `TransferServing`, `MCTransferServing`, `TransferServingProofs`.

`TransferRegistry` has one operator for each method: `RegistryBegin`, `RegistryUpdate`,
`RegistryFinish`, `RegistryCancel`, `RegistryDiscover` (what a status request marks), `RegistryAge`
and `RegistryPrune`; each prunes first, as the code does. `TransferServing` runs requests through
the registry, a step ending where the code awaits. The destination is an actor: it acknowledges
chunks (`Acknowledge`), and once asked it may commit at any later time (`Commits`), whether or not
anyone still listens.

*Run* `transfers`: 2 requests of all four kinds on 2 ids, one owner, caps of one (two for the active records of all owners), errors, stalls, cancels, status
requests, dropped handlers, lost frames, ageing. `MCTransferServing` splits the instance in two:
requests that compete for one id, with contexts disclosed or requests cancelled, and requests of the
kinds that can leave their record behind. The caps of the code (8 and more) are constants; one
record reaches them. *Fairness*: `WF` on `Serve`, since each wait of a handler has a timeout.

*Proved* for any number of requests, ids and owners, any size and caps and any set of faults:
`ServingInvariant`, `TypeCorrect`, `ClaimsSafe`, `RegistrySafe`, `RecordsForward`; every safety property
of the run. `CancelEnds` is liveness and stays with TLC. None of the properties is inductive:
`ServingInv` adds

* for the table (`RegistryGood`): its types, completion orders that are distinct and not in the future,
  and the caps. That `Newest` leaves at most `cap` records is a counting argument
  (`NewestWithinCap`): the numbers of records finished since each of them are distinct and lie in
  `1..cap`. They are distinct because the completion orders are;
* for a record (`Rightful`, `RecordTrue`): it carries the id, owner and context of the request that made
  it, counts no more than that request has confirmed, is finished only when the request has left its
  loop and always before the request closes, and says failed or cancelled of a native push only if no Commit was sent;
* for a request (`RequestTrue`): it has confirmed no more than the destination acknowledged, all bytes
  from `verify` on, and a push whose Commit was not sent has an uncommitted destination;
* for a context (`ShownOnce`): one that was told is marked in its record, as long as there is one.

Each method of the registry has a lemma (`BeginCall`, `UpdateCall`, `FinishCall`, ...) that gives
`RegistryKept`; `RequestMoves` lifts it to a step of one request. `AcceptedIsOwn` is where the context
matters: progress is accepted only with the record's own context, and a context names one request,
so no other request touches the record. A person's transfer has no context: a finished request that is
still writing its last frames can change the next record of the same id. That is why the claims are
stated for records with a context (`Bound`). `RegistryAssumption` wants caps on finished records of
at least one (16 and 256 in the code): with zero the record just finished would be evicted at once.

`dest` belongs to a request. A helper that finds the receipt of a push which an earlier request with
the same id has committed accepts the new request at its end (`Open` with all bytes) and confirms its
Commit; that the target was there before is not in `dest`. `PushDenialsAreTrue` is about the request
itself: a record that says failed of such a second request denies its own commit, not the first one's.

Met while modelling: three exits leave a record active until the daemon exits, holding one of the
profile's slots: the second progress frame, written with a bare `?` outside the block that finishes
the record (`daemon.rs:3790`), the SFTP setup of `serve_upload`, and the end of the authorisation.
`ActiveIsServed` and `CancelEnds` except them by name (`left`).
## Daemon lifecycle

*Source:* `serctl_core/src/daemon_runtime.rs`, `serctl_daemon/src/daemon.rs`
(run_global_with_idle_timeout), `serctl_cli/src/launcher.rs`, `serctl_cli/src/client.rs`
(resolve_daemon_until, ensure_daemon_until, down). *Modules:* `DaemonRuntime`,
`DaemonRuntimeProofs`.

Instance id, pid and secret are fresh for every launch, so one name stands for all three. `desc` and
`secret` say whose descriptor and secret are on disk; every access to a file is a step, because
commands read without the lock. A command is at a `stage` (first look, under the lock, waiting for
the child, `down`) and at a step of the resolve procedure the stages share; a daemon goes from
`lock` over `reconcile`, `publish` to `serve`, and from `drain` over `relock` to `cleanup`.
`PidTaken` lets a dead daemon's pid answer `kill(pid, 0)` once: reuse, or a child its launcher has
not reaped.

*Run* `daemon_runtime`: 2 daemons, 2 commands, connection limit 1, crashes, kills, write errors,
deadlines and reused pids. Two daemons and two commands are the smallest instance with a race
between launches and one between a stop and a launch.

*Fairness*: `WF` on the steps of each process; no deadline, fault, Ctrl-C or idle window is obliged
to come. The lock is polled, and with finitely many commands a poller is not kept out for ever.

*Proved* for any number of daemons and commands and any set of faults: `TypeCorrect`,
`SingleDaemon`, `GenuineAccess`, `TrueDown`, `PublishedFilesStay`. None of the four safety
properties is inductive. `RuntimeInv` adds who holds the lock at which point (`LockInv`), what the
files hold at each point of a daemon's life (`FilesInv`), and that a daemon a command has seen in
the descriptor never publishes again (`SeenInv`); the last is what makes the two unlocked reads
safe: the descriptor read first names a daemon that had already published its secret, and another
secret can appear only after that daemon is gone. The proof has one case per action; the steps of a
command that touch no file are reduced to `ClientMoves`.


## Tunnels

*Source:* `serctl_core/src/ssh.rs` (start_tunnel and the tunnel tasks, remote-forward routes),
`daemon.rs` (ManagedTunnelRegistry, its worker, open, status, cancel, shutdown, serve_tunnel).
*Modules:* `Tunnel`, `TunnelRuntime`, `MCTunnelRuntime`, `TunnelRuntimeProofs`,
`ManagedTunnels`, `MCManagedTunnels`, `ManagedTunnelsProofs`.

`Tunnel` is what a `RunningTunnel` promises whoever holds it: it ends once it is cancelled, it ends
well only if somebody asked for the end, a tunnel that fails cancels itself. `TunnelRuntime` has the
tasks, flows and permits of local, dynamic and remote forwards on one session, the setup mutex, and
the routes by which channels the server opens reach a forward; the server is an actor at the end of
two ordered streams. `KeepsPromise` is `Tunnel` with `phase` as the refinement mapping, together with
the end of every wait for the setup mutex. `ManagedTunnels` puts the daemon's registry, workers,
cancel requests and shutdown on top of `Tunnel`.

*Runs.* `tunnel_runtime`: one forward whose port the server chooses, one remote on a fixed port or
dynamic, 2 connections, one port, one flow permit, a server that refuses, answers late, repeats a
port or hangs up; `tunnel_managed`: 2 tunnels of one owner, caps of one, one cancel request and the
shutdown. One port and caps of one make every conflict happen. *Fairness*: tasks run and their
timers fire (`WF` on the steps of a task, a worker, a handler, a caller); nothing obliges the server,
a flow, or whoever holds the tunnel.

*Proved* (`ManagedTunnelsProofs`, for any number of tunnels, owners and callers, any caps, any
faults): `TunnelsAreKept`, `AnswersAreTrue` and the action half of `RecordsAdvance`
(`RecordsMonotone`). `ManagedInv` adds what the two invariants need to be inductive. The registry's
part is `Orderly`: a record has a completion order exactly when it is finished, none is in the future
and no two records share one. Only then does evicting the oldest leave no more than the cap; the
argument counts, for each record left, those that finished later (`NewestWithinCap`). The tunnels'
part is `Placed`: the handler has let go of a tunnel that has a worker, an active record has a worker
that still waits, and a record that says Cancelling has a cancelled tunnel. The callers' part is
`Informed`: a caller that waits has had its tunnel cancelled, and one that reads a last time finds no
active record. `RecordsSettle`, the liveness half of `RecordsAdvance`, stays with the run.

The proof covers what the run with caps of one does not reach: `shutdown_all` waiting for several
tunnels one after the other, each answer with its own tunnel.

*Proved* (`TunnelRuntimeProofs`, for any number of tunnels, ports and connections, any permits, any
faults): `ListenersAreOwned`, `FlowsBounded` (flows within their permits, none left after a clean
end) and the refinement of `Tunnel`, step by step (`ImplementsTunnel`, the safety half of
`KeepsPromise`; its fairness and `SetupEnds` stay with the run). `RuntimeInv` says what each place of
a task knows (`Task`), that a generation names one tunnel and a route leads to its tunnel's port
(`Generations`), and, as long as the session is used, what is on the two streams: a request or an
answer belongs to a task that waits for it, and there is one of a tunnel at most (`Asked`, `Once`),
and the server listens for a tunnel only where that tunnel's place allows it (`Heard`). `Ordered` is
the heart of it: a channel on its way was opened for whoever has its port when it arrives, or will
have it through an answer that is ahead of it in the same stream. Without it `OwnChannelsOnly` is not
inductive; with it, it follows from the order of the streams.

The invariant also shows where the claim ends. When the server grants a port whose route is still
registered, `setup_remote_forward` invalidates the session; a server that grants it a second time
while the first forward is being retired goes unnoticed. The cancellation names a port and not a
forward, so it ends both listeners, and a third grant of the port can put the third tunnel's channels
on the second's route until that grant is read. It takes three tunnels, and TLC finds it there in 21
steps. `twice` records that the server has granted a port it was listening on, and `OwnChannelsOnly`
speaks of the sessions in which it has not; `NoOrphanListener` and the rest hold in any case.

## Profile vault

*Source:* `serctl_core/src/vault.rs`, `recovery.rs`. *Modules:* `ProfileVault`, `MCProfileVault`.

Processes share the vault file, its lock, a use or exclusive lease per profile and the runtime
barrier. Each of the fifteen commands (use, start and stop the daemon, create, update, rename, remove,
change, reset and recover a passphrase, resolve and initialise an audit generation, set and rotate
the administrator's recovery, migrate) is a sequence of file operations between which a process may
be killed. A profile is its sealed key package, endpoint and pin, and a copy sealed for recovery; a
ledger is what a change of generation looks at. A record is appended before the checkpoint that covers
it, and the first checkpoint of a generation is created before it is filled: a process killed in
between leaves a checkpoint that lags or does not parse, and an I/O error a part of a record. Every
later command that verifies that ledger is refused, as in the code, where nothing calls `reconcile`
(`audit_recovery.rs:7`); only another append of a live session brings a lagging checkpoint up to date.

*Run* `profile_vault`: 2 processes, 3 commands (2 while there are two profiles; the third
on its own on a profile of an earlier release), on six vaults: new,
old formats, working, with an open Intent. `VaultIsSound`: a session's snapshot stays true while it
holds its lease (`SnapshotsStayTrue`); generations form one chain (`GenerationsLinked`: a generation is
succeeded only when its ledger is complete and nothing in it lies beyond the checkpoint that the
successor's first record names, and no profile is marked initialised before its first record is
covered); and the current recovery medium and passphrase open what the vault holds (`SecretsKept`). `PinsKept`: no generation returns, no pin changes except with
its endpoint. Three commands are two that race and one that finds what they left.

## Remote jobs and policy

*Source:* `serctl_remote/src/main.rs`, `serctl_jobs/src/lib.rs`,
`serctl_remote_protocol/src/lib.rs`, `serctl_policy/src/lib.rs`. *Modules:* `RemoteJob`, `Policy`,
`MCRemoteJob`.

A session is one `serctl-remote` process: it admits a Start (`Policy` compiles the document it carries
and decides the intent), creates the journal, starts and supervises the child, relays its output
through a bounded queue, writes the receipt and then the journal's end. A controller that lost a
session may start another or query the receipt.

*Run* `remote_job`: 2 sessions, one stream, a queue of one frame (so that one frame can be lost and the
next fit), one fault anywhere, and several hundred requests that differ from a plain one in one or two
places. `JobIsKnown`: receipts are true, the job
runs once, nobody knows more than the receipt says, an honest stream is never rejected.
`AdmittedWithinPolicy` compares what runs with the document itself rather than with the compiled
policy. `JobEnds` under `WF` on the clock and on the helper's steps. `Termination::ProtocolViolation`
(`main.rs:747`) is not a reason of the model: `read_input` passes every frame through
`ControllerSessionValidator`, which accepts nothing but this job's Cancel after its Start, so any other
frame reaches the loop as an input error, which ends the relay and not the job.

## The client and the workbench

*Modules:* `SecureChannel` (`serctl_protocol/src/v6.rs`), `ClientExchange`, `ClientDownload`,
`ClientUpload`, `AgentLoop` (`serctl_cli/src/client.rs`, with the daemon's half where it decides),
`SshConnect` (`ssh.rs`, `daemon.rs`, `vault.rs`), `Workbench` (`serctl_cli/src/ui.rs`), `MCClient`.

| property | says |
|---|---|
| `DeliveredAsSent` | the handler gets exactly the first frames the client finished, beginning with the committed root request, although writes are abandoned half way and the transport damages, repeats, loses or cuts records |
| `ExchangeIsSound` | a command reported as done was done, one reported as not done was not, anything else is called unknown; a session is replaced only once closed and the reconnect lock always has a living holder |
| `DownloadIsSound` | a download reported as done is there, whole, and survives a power failure unless the report carried the warning that the directory was not synced; an error that denies publication is right; the journal counts only synced bytes |
| `UploadIsSound` | a plain failure means that the host neither has committed nor ever will, success that it has; the journal never gets ahead of the host, and a chunk goes where the host's connection stands |
| `ConnectIsSound` | the password is sent only to a host whose key is the pinned one, and the reserved time suffices for pin and password |
| `GatewayIsSound` | an agent line is answered once and truly; a line outside the grant's scope, or read after its end, touches nothing; what reaches the daemon does so within the grant |
| `WorkbenchIsSound` | what is shown, held and stored is current, authorised and confirmed, and no worker runs unseen |

*Run* `client`: the seven components do not share state, so one instance explores each of them alone
(`part`). 3 frames; 2 clients with one buffered slot; 2 downloads of 3 blocks with a window of 2, a
changing source, one power cut or failed write; 2 uploads of 2 chunks; 2 connects; 2 agent lines; 2
profiles and 2 tasks of the workbench with the user on the panels `Sessions` lists. `Sorted` picks one
of the assignments that only permute processes; `Chosen` names the combinations left out.

The errors a user sees are kept apart as the code words them. A download ends in success, in success
with a warning (`okWarned`), in an error that denies publication (`failed`, `interrupted`, `conflict`),
in one that says the link may still complete (`mayComplete`), in the two of a commit that could not be
reconciled (`unreconciled`), or in an error after the link (`unconfirmed`), of which nothing is claimed
but that the file is there. Directory entries are volatile until `sync_parent_directory` (`lasting`);
this is the unix build, elsewhere that function does nothing. An upload whose Commit was sent ends in
`unknown` (the client's own UploadCommitOutcomeUnknown) or `saidUnknown` (the daemon's error, whose text
says so). The host's half of an upload, `ServeBegin` to `CommitEnds`, is `serve_native_upload` and the
helper behind it, at the grain of `NativeUpload`'s results; failures of the registry after a commit (a
poisoned lock, an exhausted revision) are left out.

In `AgentLoop` a push or pull is prepared (source hashed, destination looked for, and with `--resume`
the catalog asked and the journal opened) after the line was admitted and before the deadline is
compared with the grant again (`connect_grant_request`): preparation may outlast the grant, a request
to the daemon may not. `ActsWithinGrant` says exactly that.

*Finding* (`download_resume`): after an interrupted download with `--resume auto` the partial is not
cut to its durable prefix, where `docs/serctl-user-guide.md:304` says that only the synced prefix is
kept: it is reopened read-only (`client.rs:5841`, `security.rs:405`), so neither the truncation nor the
first write of the next attempt can succeed. The run has two processes and no other fault.

## Disagreements seen

One is a run (above). These were met while modelling and are kept here without one:

* **Re-unlock.** The comment at `daemon.rs:4908` says "The global pool permits independent CLI
  processes to re-verify and share one live profile session". `unlock_profile` calls
  `verify_complete`, which refuses any pending Intent: while one granted operation is in flight no
  other process can unlock the profile.
* **Interrupted SFTP push.** `docs/v1-beta-agent-jsonl.md:103`: where "commit state is uncertain, the
  result must remain explicit unknown". `serve_upload`, interrupted while its hard-link request is
  in flight (`daemon.rs:7371`), records failed or cancelled; `serve_native_upload` records unknown.
  `PushDenialsAreTrue` is therefore stated for native pushes.
* **Completed pull.** A pull is recorded as completed, then the last progress frame is written
  inside the guarded block (`daemon.rs:6279`); when that write fails, failed overwrites completed.
* **Revisions in frames.** The same document: status "always carries ... a positive monotonic
  `revision`". `replace_progress` (`daemon.rs:192`) advances the registry's copy only; the frames a
  transfer writes to its own client repeat an earlier revision.
* **Discovery.** `docs/v1-beta-agent-jsonl.md:37` lets the first lookup of an id omit its context. A
  status request over all ids marks records as discovered while it iterates and may then fail on
  one of them (`daemon.rs:313`); the marks stay although the contexts were never returned.
* **Unknown after a recovered upload.** `README.md:268` reserves `outcome_unknown` for a link whose
  check or parent fsync could not be finished. A retry that has verified and synced the target
  answers it too when the client leaves before its Commit frame (`serctl_xfer/src/main.rs:1048`).
* **`down` and an unreadable descriptor.** The doc comment of `wait_for_daemon_exit`
  (`client.rs:4132`) calls an unreadable descriptor a release signal. `read_descriptor` checks that
  the file exists and then reads it; when the daemon removes it in between, the error fails a `down`
  that has worked (`ReadExit`, `failed`).
* **Working directories.** `template_allowed_paths` is empty for every base, so a Start with a working
  directory is always denied, although `validate_intent_shape` lets a process intent carry one.
* **Jobs.** After a failed read of a child's stream `run_job` waits for ever (`JobEnds` excepts it). A
  heartbeat's failing journal write, or a clock set back, ends the session with the child running and
  no receipt. A receipt completed after the relay deadline can never verify, although a comment near
  `serctl_remote/src/main.rs:733` says "a receipt can be recovered later". Reconciling without a
  receipt makes even a terminal record Unknown, where `mark_unknown` refuses terminal ones.
* **Vault.** After a crash between the successor's ledger and the vault write, once the current
  generation's ledger has grown, every later change of the profile fails in
  `verify_single_generation_event`; the comment at `audit.rs:434` expects a retry to complete it.
* **Native uploads.** The write of a window's last chunk may fail behind the `sync_data` that follows it
  (`serctl_xfer/src/main.rs:1171-1176`); the sidecar then counts a chunk the file does not have. A
  retry fails on the length or on the digest for ever, under that transfer id, and publishes nothing.
* **Client transfers.** `write_all` of an asynchronous file only starts the write and `sync_data` does
  not report its error, so a failed last write may be counted durable until the final flush. A
  download that fails after its hard link reports an error though it is published. The name of a new
  partial is not synced, so a power failure may leave a journal whose partial is missing, and every
  later attempt stops there until the journal is removed. A commit probe
  that times out (`client.rs:6131`) leaves the link task behind and reports a plain timeout, contrary
  to the comment at 6110. An upload journal ahead of the host fails every retry (`client.rs:5107`).
* **Workbench.** Locking everything neither advances the refresh epoch nor clears the rows' daemon
  status, unlike leaving one profile; an expiry drops a refresh under way without starting another;
  leaving one profile cancels the transfers of all.

## What is proved, what is only checked

Proved by TLAPS for all values of the constants: the theorems of the ledger, of grant dispatch and its
budget, of native uploads, of transfers in the daemon, of the tunnels of a session and of managed
tunnels, and of the daemon's lifecycle, with the lemmas they rest on. Their assumptions are the named ASSUMEs of the modules, which TLC evaluates in every run of the component
(process sets are disjoint, bounds and budgets are natural numbers, the genesis record is
administrative, markers such as `Nothing` are none of the things they mark the absence of), and, for
four ledger theorems, `CertifiesOnlySynced`. Each inductive invariant was first checked by TLC as an
invariant of the component's run.

Only model-checked, on the instances above:

* liveness under fairness (`OperationsReturn`, `IntentsClose`, `StartIsAnswered`, `CancelEnds`,
  `RecordsAdvance`, `JobEnds`, the second half of `KeepsPromise`): the prover has no ENABLED;
* what the policy's operators compute over sequences, which would need induction over data;
* the vault, jobs and the client, for which no proof has been written.

## Abstractions that apply everywhere

* Hashes, MACs, signatures and ciphers are ideal: a value stands for what it authenticates.
* Time is an event that may happen (`deadline`, `age`, expiry) wherever only its order matters, so a
  property holds for every timeout value; where a duration decides (`SshConnect`, `AgentLoop`,
  `RemoteJob`) it is counted in units. Retention outlasts a request's last frames (minutes against
  seconds).
* Counters that the code cannot reach (revisions, orders) are bounded by named constants.
* A process is killed between any two steps; a step is a system call or the code between two awaits.
