--------------------------- MODULE DaemonRuntime ---------------------------
(***************************************************************************)
(* The life of the global daemon: the startup singleton lock, the two      *)
(* runtime files (descriptor and activation secret), the daemons that      *)
(* publish and withdraw them, and the clients that look for a daemon,      *)
(* launch one, talk to it, or stop it.                                     *)
(*                                                                         *)
(* A daemon process stands for its instance id, its pid and its activation *)
(* secret at once: each is fresh for every launch.  Every access to a file *)
(* is a step of its own, because clients read without the lock.            *)
(***************************************************************************)
EXTENDS Naturals, FiniteSets

CONSTANTS Daemons,     \* the daemon processes that may ever be launched
          Clients,     \* the client commands, each run once
          Nobody,      \* no process: an absent file, a free lock
          ConnLimit,   \* GLOBAL_CONNECTION_LIMIT
          Faults       \* subset of FaultKinds

FaultKinds == {"crash", "kill", "io", "deadline", "pid"}

ASSUME RuntimeAssumption ==
    /\ Nobody \notin Daemons \cup Clients
    /\ Daemons \cap Clients = {}
    /\ ConnLimit \in Nat
    /\ Faults \subseteq FaultKinds

VARIABLES desc,        \* the daemon the descriptor file names, or Nobody
          secret,      \* whose secret the secret file holds, or Nobody
          lock,        \* the holder of the startup lock, or Nobody
          daemon,      \* where each daemon process is
          stopping,    \* daemons whose shutdown channel was signalled
          reuse,       \* whether a dead daemon's pid answers pid_is_alive
          client       \* [pc, stage, seen, key] of each client command

vars == <<desc, secret, lock, daemon, stopping, reuse, client>>
files == <<desc, secret>>

Starting  == {"reconcile", "sweep", "publish", "describe"}
Published == {"serve", "drain", "relock", "cleanup"}
DaemonPCs == {"unborn", "lock", "cleanupkey", "dead"} \cup Starting \cup Published

Resolving == {"look", "read", "stale", "sweep", "sweepkey", "key", "readkey"}
Ended     == {"served", "absent", "stopped", "failed"}
ClientPCs == {"idle", "trylock", "spawn", "connect", "talk", "exit", "exitread"}
                 \cup Resolving \cup Ended
KnowsDaemon == {"stale", "key", "readkey", "connect", "talk", "exit", "exitread", "stopped"}
Stages    == {"first", "locked", "wait", "down"}

TypeOK ==
    /\ desc \in Daemons \cup {Nobody}
    /\ secret \in Daemons \cup {Nobody}
    /\ lock \in Daemons \cup Clients \cup {Nobody}
    /\ daemon \in [Daemons -> DaemonPCs]
    /\ stopping \subseteq Daemons
    /\ reuse \in [Daemons -> {"before", "now", "after"}]
    /\ client \in [Clients -> [pc : ClientPCs, stage : Stages,
                               seen : Daemons \cup {Nobody},
                               key : Daemons \cup {Nobody}]]
    /\ \A c \in Clients :
          /\ client[c].pc \in KnowsDaemon => client[c].seen # Nobody
          /\ client[c].pc \in {"connect", "talk"} => client[c].key # Nobody

Rest == [pc |-> "idle", stage |-> "first", seen |-> Nobody, key |-> Nobody]

Init ==
    /\ desc = Nobody
    /\ secret = Nobody
    /\ lock = Nobody
    /\ daemon = [d \in Daemons |-> "unborn"]
    /\ stopping = {}
    /\ reuse = [d \in Daemons |-> "before"]
    /\ client = [c \in Clients |-> Rest]

Running(d) == daemon[d] \notin {"unborn", "dead"}

\* kill(pid, 0): a dead daemon's pid answers too once another process has it,
\* or while its launcher has not reaped it.
pid_is_alive(d) == Running(d) \/ reuse[d] = "now"

FreedBy(p) == IF lock = p THEN Nobody ELSE lock

-----------------------------------------------------------------------------
(* The daemon process.                                                     *)

\* The process ends, with or without an error; the OS drops its lock.
ExitDaemon(d) ==
    /\ daemon' = [daemon EXCEPT ![d] = "dead"]
    /\ lock' = FreedBy(d)

Goto(d, pc) == daemon' = [daemon EXCEPT ![d] = pc]

\* Mutant: the daemon trusts its launcher and starts without the lock.
StartWithoutLock(d) ==
    /\ daemon[d] = "lock"
    /\ Goto(d, "reconcile")
    /\ UNCHANGED <<files, lock, stopping, reuse, client>>

AcquireStartupLock(d) ==
    /\ daemon[d] = "lock"
    /\ lock = Nobody
    /\ lock' = d
    /\ Goto(d, "reconcile")
    /\ UNCHANGED <<files, stopping, reuse, client>>

\* acquire_startup_lock_until gives up, at start or before the cleanup.
LockDeadline(d) ==
    /\ "deadline" \in Faults
    /\ daemon[d] \in {"lock", "relock"}
    /\ lock # Nobody
    /\ ExitDaemon(d)
    /\ UNCHANGED <<files, stopping, reuse, client>>

\* Mutant: any descriptor that is found is taken for a stale one.
ReconcileAny(d) ==
    /\ daemon[d] = "reconcile"
    /\ desc' = Nobody
    /\ Goto(d, "sweep")
    /\ UNCHANGED <<secret, lock, stopping, reuse, client>>

\* reconcile_runtime, first file: a live descriptor wins, a dead one goes.
ReconcileDescriptor(d) ==
    /\ daemon[d] = "reconcile"
    /\ IF desc # Nobody /\ pid_is_alive(desc)
       THEN /\ ExitDaemon(d)
            /\ UNCHANGED desc
       ELSE /\ desc' = Nobody
            /\ Goto(d, "sweep")
            /\ UNCHANGED lock
    /\ UNCHANGED <<secret, stopping, reuse, client>>

\* Second file: the secret that went with it, or an orphan.
ReconcileSecret(d) ==
    /\ daemon[d] = "sweep"
    /\ secret' = Nobody
    /\ Goto(d, "publish")
    /\ UNCHANGED <<desc, lock, stopping, reuse, client>>

\* bind, then the first half of publish_runtime.  A failed write is rolled
\* back; when the rollback fails too the secret stays.
PublishSecret(d) ==
    /\ daemon[d] = "publish"
    /\ IF desc = Nobody /\ secret = Nobody
       THEN \/ /\ secret' = d
               /\ Goto(d, "describe")
               /\ UNCHANGED lock
            \/ /\ "io" \in Faults
               /\ secret' \in {Nobody, d}
               /\ ExitDaemon(d)
       ELSE /\ ExitDaemon(d)
            /\ UNCHANGED secret
    /\ UNCHANGED <<desc, stopping, reuse, client>>

\* The readiness record; the lock is dropped before serving.  A write that
\* fails after replacing the file is withdrawn, descriptor before secret.
PublishDescriptor(d) ==
    /\ daemon[d] = "describe"
    /\ \/ /\ desc' = d
          /\ Goto(d, "serve")
          /\ lock' = FreedBy(d)
          /\ UNCHANGED secret
       \/ /\ "io" \in Faults
          /\ secret' \in {Nobody, d}
          /\ desc' \in {Nobody, secret'}
          /\ ExitDaemon(d)
    /\ UNCHANGED <<stopping, reuse, client>>

\* Connections whose handler holds an idle guard.
Work(d) == {c \in Clients : client[c].pc = "talk" /\ client[c].seen = d}

\* The loop of run_global ends: shutdown requested, Ctrl-C or an accept error,
\* or the idle window passed with no work (re-checked after the wake).
StopRequested(d) ==
    /\ daemon[d] = "serve"
    /\ d \in stopping
    /\ stopping' = stopping \ {d}
    /\ Goto(d, "drain")
    /\ UNCHANGED <<files, lock, reuse, client>>

CtrlC(d) ==
    /\ daemon[d] = "serve"
    /\ Goto(d, "drain")
    /\ UNCHANGED <<files, lock, stopping, reuse, client>>

IdleExit(d) ==
    /\ daemon[d] = "serve"
    /\ Work(d) = {}
    /\ Goto(d, "drain")
    /\ UNCHANGED <<files, lock, stopping, reuse, client>>

\* Handlers were joined, or aborted after the grace period.
Drained(d) ==
    /\ daemon[d] = "drain"
    /\ Goto(d, "relock")
    /\ UNCHANGED <<files, lock, stopping, reuse, client>>

AcquireCleanupLock(d) ==
    /\ daemon[d] = "relock"
    /\ lock = Nobody
    /\ lock' = d
    /\ Goto(d, "cleanup")
    /\ UNCHANGED <<files, stopping, reuse, client>>

\* cleanup_runtime_if_owner: only when both records are still this daemon's.
CleanupDescriptor(d) ==
    /\ daemon[d] = "cleanup"
    /\ IF desc = d /\ secret = d
       THEN \/ /\ desc' = Nobody
               /\ Goto(d, "cleanupkey")
               /\ UNCHANGED lock
            \/ /\ "io" \in Faults
               /\ ExitDaemon(d)
               /\ UNCHANGED desc
       ELSE /\ ExitDaemon(d)
            /\ UNCHANGED desc
    /\ UNCHANGED <<secret, stopping, reuse, client>>

\* remove_secret_if_matches
CleanupSecret(d) ==
    /\ daemon[d] = "cleanupkey"
    /\ \/ secret' = IF secret = d THEN Nobody ELSE secret
       \/ "io" \in Faults /\ UNCHANGED secret
    /\ ExitDaemon(d)
    /\ UNCHANGED <<desc, stopping, reuse, client>>

Crash(d) ==
    /\ "crash" \in Faults
    /\ Running(d)
    /\ ExitDaemon(d)
    /\ UNCHANGED <<files, stopping, reuse, client>>

\* The pid of a dead daemon answers again (reuse, or an unreaped child), and
\* stops answering: once for each daemon.
PidTaken(d) ==
    /\ "pid" \in Faults
    /\ daemon[d] = "dead"
    /\ reuse[d] = "before"
    /\ reuse' = [reuse EXCEPT ![d] = "now"]
    /\ UNCHANGED <<files, lock, daemon, stopping, client>>

PidFreed(d) ==
    /\ reuse[d] = "now"
    /\ reuse' = [reuse EXCEPT ![d] = "after"]
    /\ UNCHANGED <<files, lock, daemon, stopping, client>>

\* `serctl up`: a daemon in the foreground, launched without the lock.
Up ==
    \E d \in Daemons :
        /\ daemon[d] = "unborn"
        /\ Goto(d, "lock")
        /\ UNCHANGED <<files, lock, stopping, reuse, client>>

-----------------------------------------------------------------------------
(* The client commands.                                                    *)

At(c, pc) == client[c].pc = pc

\* A command that has ended without stopping a daemon keeps nothing.
Move(c, pc) ==
    client' = [client EXCEPT ![c] =
                  [(IF pc \in Ended \ {"stopped"} THEN Rest ELSE @) EXCEPT !.pc = pc]]

\* The command ends; a lock it holds is dropped.
EndWith(c, result) ==
    /\ Move(c, result)
    /\ lock' = FreedBy(c)

Begin(c, stage) ==
    /\ At(c, "idle")
    /\ client' = [client EXCEPT ![c].pc = "look", ![c].stage = stage]
    /\ UNCHANGED <<files, lock, daemon, stopping, reuse>>

\* resolve_daemon_until returns None to one of its four callers.
AfterNone == [first |-> "trylock", locked |-> "spawn", wait |-> "look"]
NoneFound(c) ==
    IF client[c].stage = "down"
    THEN Move(c, "absent")
    ELSE client' = [client EXCEPT ![c].pc = AfterNone[client[c].stage],
                                  ![c].seen = Nobody]

\* read_descriptor: the file is seen to exist, then read.
LookForDescriptor(c) ==
    /\ At(c, "look")
    /\ IF desc = Nobody THEN NoneFound(c) ELSE Move(c, "read")
    /\ UNCHANGED <<files, lock, daemon, stopping, reuse>>

ReadDescriptor(c) ==
    /\ At(c, "read")
    /\ IF desc = Nobody
       THEN EndWith(c, "failed")
       ELSE /\ client' = [client EXCEPT
                             ![c].pc = IF pid_is_alive(desc) THEN "key" ELSE "stale",
                             ![c].seen = desc]
            /\ UNCHANGED lock
    /\ UNCHANGED <<files, daemon, stopping, reuse>>

\* A dead pid: clean up if the lock is free (one's own lock counts as held).
TryStaleLock(c) ==
    /\ At(c, "stale")
    /\ IF lock = Nobody
       THEN lock' = c /\ Move(c, "sweep")
       ELSE UNCHANGED lock /\ NoneFound(c)
    /\ UNCHANGED <<files, daemon, stopping, reuse>>

\* Mutant: the pid read before the lock was taken is still believed dead.
SweepSeen(c) ==
    /\ At(c, "sweep")
    /\ desc' = Nobody
    /\ Move(c, "sweepkey")
    /\ UNCHANGED <<secret, lock, daemon, stopping, reuse>>

\* cleanup_stale_runtime_if_dead reads the descriptor again under the lock.
SweepDescriptor(c) ==
    /\ At(c, "sweep")
    /\ IF desc # Nobody /\ pid_is_alive(desc)
       THEN /\ lock' = Nobody
            /\ NoneFound(c)
            /\ UNCHANGED desc
       ELSE /\ desc' = Nobody
            /\ Move(c, "sweepkey")
            /\ UNCHANGED lock
    /\ UNCHANGED <<secret, daemon, stopping, reuse>>

SweepSecret(c) ==
    /\ At(c, "sweepkey")
    /\ secret' = Nobody
    /\ lock' = Nobody
    /\ NoneFound(c)
    /\ UNCHANGED <<desc, daemon, stopping, reuse>>

\* read_secret: the file is seen to exist, then read.
LookForSecret(c) ==
    /\ At(c, "key")
    /\ IF secret = Nobody THEN NoneFound(c) ELSE Move(c, "readkey")
    /\ UNCHANGED <<files, lock, daemon, stopping, reuse>>

ReadSecret(c) ==
    /\ At(c, "readkey")
    /\ IF secret = Nobody
       THEN EndWith(c, "failed")
       ELSE /\ client' = [client EXCEPT ![c].pc = "connect", ![c].key = secret]
            /\ lock' = FreedBy(c)
    /\ UNCHANGED <<files, daemon, stopping, reuse>>

\* ensure_daemon_until: resolve again under the lock, or sleep and retry.
TryStartupLock(c) ==
    /\ At(c, "trylock")
    /\ IF lock = Nobody
       THEN /\ lock' = c
            /\ client' = [client EXCEPT ![c].pc = "look", ![c].stage = "locked"]
       ELSE /\ Move(c, "look")
            /\ UNCHANGED lock
    /\ UNCHANGED <<files, daemon, stopping, reuse>>

\* Mutant: the launcher keeps the lock until the daemon is published.
SpawnHoldingLock(c) ==
    /\ At(c, "spawn")
    /\ \E d \in Daemons :
          /\ daemon[d] = "unborn"
          /\ Goto(d, "lock")
    /\ client' = [client EXCEPT ![c].pc = "look", ![c].stage = "wait"]
    /\ UNCHANGED <<files, lock, stopping, reuse>>

\* spawn_global_daemon, then the lock is dropped and the wait begins.
Spawn(c) ==
    /\ At(c, "spawn")
    /\ \E d \in Daemons :
          /\ daemon[d] = "unborn"
          /\ Goto(d, "lock")
    /\ client' = [client EXCEPT ![c].pc = "look", ![c].stage = "wait"]
    /\ lock' = Nobody
    /\ UNCHANGED <<files, stopping, reuse>>

\* The executable cannot be started (in the model: no process is left).
SpawnFails(c) ==
    /\ At(c, "spawn")
    /\ \/ "io" \in Faults
       \/ \A d \in Daemons : daemon[d] # "unborn"
    /\ EndWith(c, "failed")
    /\ UNCHANGED <<files, daemon, stopping, reuse>>

\* connect_v6_until: accepted and the handshake proves the same secret.
Connect(c) ==
    LET d == client[c].seen
        accepted == /\ daemon[d] = "serve"
                    /\ Cardinality(Work(d)) < ConnLimit
                    /\ client[c].key = d
    IN  /\ At(c, "connect")
        /\ Move(c, IF accepted THEN "talk" ELSE "failed")
        /\ UNCHANGED <<files, lock, daemon, stopping, reuse>>

\* Any other request is answered.
Answered(c) ==
    /\ At(c, "talk")
    /\ client[c].stage # "down"
    /\ daemon[client[c].seen] \in {"serve", "drain"}
    /\ Move(c, "served")
    /\ UNCHANGED <<files, lock, daemon, stopping, reuse>>

Serving == {d \in Daemons : daemon[d] = "serve"}

\* daemon.shutdown: the passphrase verified, Ack written, shutdown signalled;
\* or rejected.
ShutdownAcked(c) ==
    /\ At(c, "talk")
    /\ client[c].stage = "down"
    /\ daemon[client[c].seen] \in {"serve", "drain"}
    /\ stopping' = stopping \cup ({client[c].seen} \cap Serving)
    /\ Move(c, "exit")
    /\ UNCHANGED <<files, lock, daemon, reuse>>

ShutdownRejected(c) ==
    /\ At(c, "talk")
    /\ client[c].stage = "down"
    /\ daemon[client[c].seen] \in {"serve", "drain"}
    /\ Move(c, "failed")
    /\ UNCHANGED <<files, lock, daemon, stopping, reuse>>

\* The connection ends without an answer.  reconcile_shutdown_exchange waits
\* for the exit only if the request frame had been written in full.
ConnectionLost(c) ==
    /\ At(c, "talk")
    /\ \/ daemon[client[c].seen] \notin {"serve", "drain"}
       \/ "deadline" \in Faults
    /\ \E result \in {"failed"} \cup (IF client[c].stage = "down" THEN {"exit"} ELSE {}) :
          Move(c, result)
    /\ UNCHANGED <<files, lock, daemon, stopping, reuse>>

\* Mutant: an acknowledged request is taken for a stopped daemon.
AckIsExit(c) ==
    /\ At(c, "exit")
    /\ Move(c, "stopped")
    /\ UNCHANGED <<files, lock, daemon, stopping, reuse>>

\* wait_for_daemon_exit: the descriptor is gone, or names a dead pid.
LookForExit(c) ==
    /\ At(c, "exit")
    /\ Move(c, IF desc = Nobody THEN "stopped" ELSE "exitread")
    /\ UNCHANGED <<files, lock, daemon, stopping, reuse>>

ReadExit(c) ==
    /\ At(c, "exitread")
    /\ Move(c, IF desc = Nobody THEN "failed"
               ELSE IF pid_is_alive(desc) THEN "exit" ELSE "stopped")
    /\ UNCHANGED <<files, lock, daemon, stopping, reuse>>

\* The command is killed, or a deadline ends it wherever it waits; only the
\* blocking thread that holds the lock to sweep stale files runs to its end.
GiveUp(c) ==
    /\ client[c].pc \notin Ended \cup {"idle"}
    /\ \/ "kill" \in Faults
       \/ "deadline" \in Faults /\ client[c].pc \notin {"talk", "sweep", "sweepkey"}
    /\ EndWith(c, "failed")
    /\ UNCHANGED <<files, daemon, stopping, reuse>>

-----------------------------------------------------------------------------
DaemonStep(d) ==
    \/ AcquireStartupLock(d) \/ ReconcileDescriptor(d) \/ ReconcileSecret(d)
    \/ PublishSecret(d) \/ PublishDescriptor(d)
    \/ StopRequested(d) \/ Drained(d)
    \/ AcquireCleanupLock(d) \/ CleanupDescriptor(d) \/ CleanupSecret(d)

DaemonEvent(d) ==
    \/ LockDeadline(d) \/ CtrlC(d) \/ IdleExit(d) \/ Crash(d)
    \/ PidTaken(d) \/ PidFreed(d)

ClientStep(c) ==
    \/ LookForDescriptor(c) \/ ReadDescriptor(c)
    \/ TryStaleLock(c) \/ SweepDescriptor(c) \/ SweepSecret(c)
    \/ LookForSecret(c) \/ ReadSecret(c)
    \/ TryStartupLock(c) \/ Spawn(c) \/ SpawnFails(c)
    \/ Connect(c) \/ Answered(c) \/ ShutdownAcked(c) \/ ShutdownRejected(c)
    \/ ConnectionLost(c) \/ LookForExit(c) \/ ReadExit(c)

ClientEvent(c) ==
    \/ Begin(c, "first") \/ Begin(c, "down")
    \/ GiveUp(c)

Next ==
    \/ \E d \in Daemons : DaemonStep(d) \/ DaemonEvent(d)
    \/ \E c \in Clients : ClientStep(c) \/ ClientEvent(c)
    \/ Up

Spec == Init /\ [][Next]_vars

\* Processes keep running: the scheduler runs each of them, and every file
\* operation returns.  Nothing obliges a deadline, a fault, a Ctrl-C or an
\* idle window to come.
FairSpec ==
    /\ Spec
    /\ \A d \in Daemons : WF_vars(DaemonStep(d))
    /\ \A c \in Clients : WF_vars(ClientStep(c))

-----------------------------------------------------------------------------
\* At most one daemon has published itself and not yet withdrawn, whatever
\* launchers, crashes, lost locks and reused pids do: the startup arbitration
\* of run_global_with_idle_timeout.
OneDaemon ==
    \A d, e \in Daemons :
        /\ daemon[d] \in Published
        /\ daemon[e] \in Published \cup {"describe", "cleanupkey"}
        => d = e

\* A client that is about to connect to a daemon still serving holds that
\* daemon's secret: resolve_daemon_until reads the two files without the lock
\* and never pairs one daemon's descriptor with another's secret.
AccessIsGenuine ==
    \A c \in Clients :
        /\ At(c, "connect")
        /\ daemon[client[c].seen] \in Published
        => client[c].key = client[c].seen

\* When `down` reports that the daemon stopped, the daemon it asked no longer
\* serves, whether the Ack arrived or was lost (wait_for_daemon_exit).
DownIsTrue ==
    \A c \in Clients :
        At(c, "stopped") => daemon[client[c].seen] \notin Published

\* "A competing daemon can never be harmed": the files of a published daemon
\* are removed by nobody but that daemon at its own cleanup.
FilesOfTheLivingStay ==
    [][\A d \in Daemons :
          /\ daemon[d] \in {"serve", "drain", "relock"}
          /\ daemon'[d] \in Published
          => desc' = d /\ secret' = d]_vars

\* The inductive invariant behind the four properties above: who may hold the
\* lock, what the files hold at each point of a daemon's life, and that a
\* daemon once seen in the descriptor never publishes again.
LockInv ==
    /\ \A d \in Daemons :
          daemon[d] \in Starting \cup {"cleanup", "cleanupkey"} => lock = d
    /\ \A c \in Clients :
          \/ client[c].pc \in {"sweep", "sweepkey", "spawn"}
          \/ client[c].stage = "locked" /\ client[c].pc \in Resolving
          => lock = c
    /\ \A c \in Clients :
          client[c].pc \in {"trylock", "sweep", "sweepkey"} => client[c].stage # "locked"

FilesInv ==
    /\ \A d \in Daemons :
          /\ daemon[d] \in Published => desc = d /\ secret = d
          /\ daemon[d] \in {"sweep", "publish", "describe", "cleanupkey"} => desc = Nobody
          /\ daemon[d] = "describe" => secret = d
    /\ desc # Nobody => daemon[desc] \in Published \cup {"dead"}
    /\ \A c \in Clients : At(c, "sweepkey") => desc = Nobody

SeenInv ==
    \A c \in Clients :
        client[c].seen # Nobody =>
            daemon[client[c].seen] \in Published \cup {"cleanupkey", "dead"}

RuntimeInv == LockInv /\ FilesInv /\ SeenInv /\ AccessIsGenuine /\ DownIsTrue

\* A daemon that waits for the singleton lock, to start or to clean up, gets
\* past it: nobody keeps the lock while waiting for the daemon that needs it.
LockIsGranted ==
    \A d \in Daemons :
        (daemon[d] \in {"lock", "relock"}) ~> (daemon[d] \notin {"lock", "relock"})

\* A client that waits for the daemon it launched, or for the sibling that
\* won, finds one, unless no daemon process is left (or none is publishing).
WaitIsAnswered ==
    \A c \in Clients :
        (client[c].stage = "wait" /\ client[c].pc \in Resolving)
            ~> (client[c].pc \notin Resolving \/ \A d \in Daemons : ~Running(d))

\* Nobody waits for ever for the lock, or for a daemon that is coming up.
StartIsAnswered == LockIsGranted /\ WaitIsAnswered
=============================================================================
