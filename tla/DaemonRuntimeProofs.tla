------------------------ MODULE DaemonRuntimeProofs ------------------------
(* Proofs about DaemonRuntime, for any number of daemons and clients.      *)
EXTENDS DaemonRuntime, TLAPS

\* SMT first, Z3 by its own name next, then Zenon, for every leaf that names no prover.
USE SMTT(60), Z3T(60), ZenonT(60)

ClientRecords == [pc : ClientPCs, stage : Stages,
                  seen : Daemons \cup {Nobody}, key : Daemons \cup {Nobody}]

\* Move changes one client's record, and forgets what an ended command knew.
LEMMA MoveFields ==
    ASSUME client \in [Clients -> ClientRecords],
           NEW c \in Clients, NEW pc \in ClientPCs, Move(c, pc)
    PROVE  /\ client' \in [Clients -> ClientRecords]
           /\ client'[c].pc = pc
           /\ \A e \in Clients \ {c} : client'[e] = client[e]
           /\ pc \in Ended \ {"stopped"} =>
                 /\ client'[c].stage = "first"
                 /\ client'[c].seen = Nobody
                 /\ client'[c].key = Nobody
           /\ pc \notin Ended \ {"stopped"} =>
                 /\ client'[c].stage = client[c].stage
                 /\ client'[c].seen = client[c].seen
                 /\ client'[c].key = client[c].key
<1>1. Rest \in ClientRecords
  BY DEF Rest, ClientRecords, ClientPCs, Stages
<1>2. CASE pc \in Ended \ {"stopped"}
  BY <1>1, <1>2 DEF Move, ClientRecords, Rest
<1>3. CASE pc \notin Ended \ {"stopped"}
  BY <1>3 DEF Move, ClientRecords
<1> QED BY <1>2, <1>3

\* The two steps that also change the stage of a command.
LEMMA StageFields ==
    ASSUME client \in [Clients -> ClientRecords],
           NEW c \in Clients, NEW pc \in ClientPCs, NEW stage \in Stages,
           client' = [client EXCEPT ![c].pc = pc, ![c].stage = stage]
    PROVE  /\ client' \in [Clients -> ClientRecords]
           /\ client'[c].pc = pc
           /\ client'[c].stage = stage
           /\ client'[c].seen = client[c].seen
           /\ \A e \in Clients \ {c} : client'[e] = client[e]
BY ZenonT(60) DEF ClientRecords

\* resolve_daemon_until's None sends the client on without a daemon.
LEMMA NoneFoundFields ==
    ASSUME client \in [Clients -> ClientRecords], NEW c \in Clients, NoneFound(c)
    PROVE  /\ client' \in [Clients -> ClientRecords]
           /\ client'[c].pc \in {"trylock", "spawn", "look", "absent"}
           /\ client'[c].pc = "spawn" => client[c].stage = "locked"
           /\ client'[c].pc = "look" => client[c].stage = "wait"
           /\ client'[c].pc = "trylock" => client'[c].stage = "first"
           /\ client'[c].seen = Nobody
           /\ client'[c].stage \in {client[c].stage, "first"}
           /\ \A e \in Clients \ {c} : client'[e] = client[e]
<1>1. CASE client[c].stage = "down"
  <2>1. Move(c, "absent") BY <1>1 DEF NoneFound
  <2>2. "absent" \in ClientPCs /\ "absent" \in Ended \ {"stopped"} BY DEF ClientPCs, Ended
  <2> QED BY <2>1, <2>2, MoveFields
<1>2. CASE client[c].stage # "down"
  BY <1>2 DEF NoneFound, AfterNone, ClientRecords, Stages, ClientPCs, Resolving
<1> QED BY <1>1, <1>2

-----------------------------------------------------------------------------
ClientTypes ==
    /\ client \in [Clients -> ClientRecords]
    /\ \A c \in Clients :
          /\ client[c].pc \in KnowsDaemon => client[c].seen # Nobody
          /\ client[c].pc \in {"connect", "talk"} => client[c].key # Nobody

OtherTypes ==
    /\ desc \in Daemons \cup {Nobody}
    /\ secret \in Daemons \cup {Nobody}
    /\ lock \in Daemons \cup Clients \cup {Nobody}
    /\ daemon \in [Daemons -> DaemonPCs]
    /\ stopping \subseteq Daemons
    /\ reuse \in [Daemons -> {"before", "now", "after"}]

LEMMA TypeParts == TypeOK <=> OtherTypes /\ ClientTypes
BY DEF TypeOK, OtherTypes, ClientTypes, ClientRecords

\* A daemon step leaves the clients alone and keeps the other types.
LEMMA DaemonTypes ==
    ASSUME OtherTypes, NEW d \in Daemons, DaemonStep(d) \/ DaemonEvent(d)
    PROVE  OtherTypes' /\ UNCHANGED client
<1> USE DEF OtherTypes, DaemonPCs, Starting, Published, ExitDaemon, FreedBy, Goto, files
<1>1. CASE AcquireStartupLock(d)  BY <1>1 DEF AcquireStartupLock
<1>2. CASE ReconcileDescriptor(d)  BY <1>2 DEF ReconcileDescriptor
<1>3. CASE ReconcileSecret(d)  BY <1>3 DEF ReconcileSecret
<1>4. CASE PublishSecret(d)  BY <1>4 DEF PublishSecret
<1>5. CASE PublishDescriptor(d)  BY <1>5 DEF PublishDescriptor
<1>6. CASE StopRequested(d)  BY <1>6 DEF StopRequested
<1>7. CASE Drained(d)  BY <1>7 DEF Drained
<1>8. CASE AcquireCleanupLock(d)  BY <1>8 DEF AcquireCleanupLock
<1>9. CASE CleanupDescriptor(d)  BY <1>9 DEF CleanupDescriptor
<1>10. CASE CleanupSecret(d)  BY <1>10 DEF CleanupSecret
<1>11. CASE LockDeadline(d)  BY <1>11 DEF LockDeadline
<1>12. CASE CtrlC(d)  BY <1>12 DEF CtrlC
<1>13. CASE IdleExit(d)  BY <1>13 DEF IdleExit
<1>14. CASE Crash(d)  BY <1>14 DEF Crash
<1>15. CASE PidTaken(d)  BY <1>15 DEF PidTaken
<1>16. CASE PidFreed(d)  BY <1>16 DEF PidFreed
<1> QED BY <1>1, <1>2, <1>3, <1>4, <1>5, <1>6, <1>7, <1>8, <1>9, <1>10, <1>11, <1>12, <1>13, <1>14, <1>15, <1>16 DEF DaemonStep, DaemonEvent

\* What a step of daemon d does to the lock and to its own place, whatever it
\* does to the files: it touches no other daemon, takes a free lock or drops
\* its own, and once it has been published it only ever withdraws.
DaemonMove(d) ==
    /\ client' = client
    /\ \A e \in Daemons \ {d} : daemon'[e] = daemon[e]
    /\ \/ lock' = lock
       \/ lock = Nobody /\ lock' = d
       \/ lock = d /\ lock' = Nobody
    /\ daemon'[d] \in Starting \cup {"cleanup", "cleanupkey"} => lock' = d
    /\ daemon[d] \in Published \cup {"cleanupkey", "dead"} =>
          daemon'[d] \in Published \cup {"cleanupkey", "dead"}
    /\ daemon'[d] \in Published => daemon[d] \in Published \cup {"describe"}

LEMMA DaemonMoves ==
    ASSUME OtherTypes, ClientTypes, RuntimeInv, NEW d \in Daemons, DaemonMove(d)
    PROVE  LockInv' /\ SeenInv' /\ AccessIsGenuine' /\ DownIsTrue'
<1>0. /\ \A c \in Clients : client[c].seen \in Daemons \cup {Nobody}
      /\ \A c \in Clients : client[c].pc \in {"connect", "stopped"} => client[c].seen # Nobody
  BY DEF ClientTypes, ClientRecords, KnowsDaemon
<1>1. LockInv'
  BY RuntimeAssumption DEF RuntimeInv, LockInv, DaemonMove
<1>2. SeenInv'
  BY <1>0 DEF RuntimeInv, SeenInv, DaemonMove
<1>3. \A c \in Clients : client[c].seen # Nobody /\ daemon'[client[c].seen] \in Published
                            => daemon[client[c].seen] \in Published
  BY <1>0 DEF RuntimeInv, SeenInv, DaemonMove, Published
<1>4. AccessIsGenuine'
  BY <1>0, <1>3 DEF RuntimeInv, AccessIsGenuine, At, DaemonMove
<1>5. DownIsTrue'
  BY <1>0, <1>3 DEF RuntimeInv, DownIsTrue, At, DaemonMove
<1> QED BY <1>1, <1>2, <1>4, <1>5

\* A daemon step that leaves both files alone keeps what is known of them when
\* its new place fits what they hold.
LEMMA DaemonFiles ==
    ASSUME FilesInv, NEW d \in Daemons, DaemonMove(d), UNCHANGED files,
           daemon'[d] \in Published => desc = d /\ secret = d,
           daemon'[d] \in {"sweep", "publish", "describe", "cleanupkey"} => desc = Nobody,
           daemon'[d] = "describe" => secret = d,
           desc = d => daemon'[d] \in Published \cup {"dead"},
           desc \in Daemons \cup {Nobody}
    PROVE  FilesInv'
BY DEF FilesInv, files, At, DaemonMove

\* Every step of a daemon keeps the runtime invariant: what it does to a file
\* or to its own place it does under the lock, or while it owns both files.
LEMMA DaemonInv ==
    ASSUME OtherTypes, ClientTypes, RuntimeInv,
           NEW d \in Daemons, DaemonStep(d) \/ DaemonEvent(d)
    PROVE  RuntimeInv'
<1> USE RuntimeAssumption
<1>0. /\ daemon \in [Daemons -> DaemonPCs]
      /\ desc \in Daemons \cup {Nobody}
      /\ secret \in Daemons \cup {Nobody}
      /\ lock \in Daemons \cup Clients \cup {Nobody}
      /\ \A e \in Daemons : daemon[e] \in Starting \cup {"cleanup", "cleanupkey"} => lock = e
      /\ FilesInv
      /\ client' = client
  BY DaemonTypes DEF OtherTypes, RuntimeInv, LockInv
<1>1. CASE AcquireStartupLock(d)
  <2>1. DaemonMove(d)
    BY <1>0, <1>1 DEF AcquireStartupLock, DaemonMove, Starting, Published, ExitDaemon, FreedBy, Goto
  <2>2. FilesInv'
    BY <1>0, <1>1, <2>1, DaemonFiles
       DEF AcquireStartupLock, FilesInv, Starting, Published, ExitDaemon, Goto, files
  <2> QED BY <2>1, <2>2, DaemonMoves DEF RuntimeInv
<1>2. CASE ReconcileDescriptor(d)
  <2>1. DaemonMove(d)
    BY <1>0, <1>2 DEF ReconcileDescriptor, DaemonMove, Starting, Published, ExitDaemon, FreedBy, Goto, pid_is_alive, Running
  <2>2. FilesInv'
    BY <1>0, <1>2 DEF ReconcileDescriptor, FilesInv, Starting, Published, ExitDaemon, Goto, At, pid_is_alive, Running
  <2> QED BY <2>1, <2>2, DaemonMoves DEF RuntimeInv
<1>3. CASE ReconcileSecret(d)
  <2>1. DaemonMove(d)
    BY <1>0, <1>3 DEF ReconcileSecret, DaemonMove, Starting, Published, ExitDaemon, FreedBy, Goto
  <2>2. FilesInv'
    BY <1>0, <1>3 DEF ReconcileSecret, FilesInv, Starting, Published, ExitDaemon, Goto, At
  <2> QED BY <2>1, <2>2, DaemonMoves DEF RuntimeInv
<1>4. CASE PublishSecret(d)
  <2>1. DaemonMove(d)
    BY <1>0, <1>4 DEF PublishSecret, DaemonMove, Starting, Published, ExitDaemon, FreedBy, Goto
  <2>2. FilesInv'
    BY <1>0, <1>4 DEF PublishSecret, FilesInv, Starting, Published, ExitDaemon, Goto, At
  <2> QED BY <2>1, <2>2, DaemonMoves DEF RuntimeInv
<1>5. CASE PublishDescriptor(d)
  <2>1. DaemonMove(d)
    BY <1>0, <1>5 DEF PublishDescriptor, DaemonMove, Starting, Published, ExitDaemon, FreedBy, Goto
  <2>2. FilesInv'
    <3>1. lock = d
      BY <1>0, <1>5 DEF PublishDescriptor, Starting
    <3>2. \A c \in Clients : client[c].pc # "sweepkey"
      BY <3>1 DEF RuntimeInv, LockInv
    <3>3. \A e \in Daemons \ {d} :
             daemon[e] \notin Published \cup {"sweep", "publish", "describe", "cleanupkey"}
      BY <1>0, <1>5, <3>1 DEF PublishDescriptor, FilesInv, Starting, Published
    <3> QED BY <1>0, <1>5, <3>2, <3>3 DEF PublishDescriptor, FilesInv, Starting, Published,
                                          ExitDaemon, Goto, At
  <2> QED BY <2>1, <2>2, DaemonMoves DEF RuntimeInv
<1>6. CASE StopRequested(d)
  <2>1. DaemonMove(d)
    BY <1>0, <1>6 DEF StopRequested, DaemonMove, Starting, Published, ExitDaemon, FreedBy, Goto
  <2>2. FilesInv'
    BY <1>0, <1>6, <2>1, DaemonFiles
       DEF StopRequested, FilesInv, Starting, Published, ExitDaemon, Goto, files
  <2> QED BY <2>1, <2>2, DaemonMoves DEF RuntimeInv
<1>7. CASE Drained(d)
  <2>1. DaemonMove(d)
    BY <1>0, <1>7 DEF Drained, DaemonMove, Starting, Published, ExitDaemon, FreedBy, Goto
  <2>2. FilesInv'
    BY <1>0, <1>7, <2>1, DaemonFiles
       DEF Drained, FilesInv, Starting, Published, ExitDaemon, Goto, files
  <2> QED BY <2>1, <2>2, DaemonMoves DEF RuntimeInv
<1>8. CASE AcquireCleanupLock(d)
  <2>1. DaemonMove(d)
    BY <1>0, <1>8 DEF AcquireCleanupLock, DaemonMove, Starting, Published, ExitDaemon, FreedBy, Goto
  <2>2. FilesInv'
    BY <1>0, <1>8, <2>1, DaemonFiles
       DEF AcquireCleanupLock, FilesInv, Starting, Published, ExitDaemon, Goto, files
  <2> QED BY <2>1, <2>2, DaemonMoves DEF RuntimeInv
<1>9. CASE CleanupDescriptor(d)
  <2>1. DaemonMove(d)
    BY <1>0, <1>9 DEF CleanupDescriptor, DaemonMove, Starting, Published, ExitDaemon, FreedBy, Goto
  <2>2. FilesInv'
    BY <1>0, <1>9 DEF CleanupDescriptor, FilesInv, Starting, Published, ExitDaemon, Goto, At
  <2> QED BY <2>1, <2>2, DaemonMoves DEF RuntimeInv
<1>10. CASE CleanupSecret(d)
  <2>1. DaemonMove(d)
    BY <1>0, <1>10 DEF CleanupSecret, DaemonMove, Starting, Published, ExitDaemon, FreedBy, Goto
  <2>2. FilesInv'
    BY <1>0, <1>10 DEF CleanupSecret, FilesInv, Starting, Published, ExitDaemon, Goto, At
  <2> QED BY <2>1, <2>2, DaemonMoves DEF RuntimeInv
<1>11. CASE LockDeadline(d)
  <2>1. DaemonMove(d)
    BY <1>0, <1>11 DEF LockDeadline, DaemonMove, Starting, Published, ExitDaemon, FreedBy, Goto
  <2>2. FilesInv'
    BY <1>0, <1>11, <2>1, DaemonFiles
       DEF LockDeadline, FilesInv, Starting, Published, ExitDaemon, Goto, files
  <2> QED BY <2>1, <2>2, DaemonMoves DEF RuntimeInv
<1>12. CASE CtrlC(d)
  <2>1. DaemonMove(d)
    BY <1>0, <1>12 DEF CtrlC, DaemonMove, Starting, Published, ExitDaemon, FreedBy, Goto
  <2>2. FilesInv'
    BY <1>0, <1>12, <2>1, DaemonFiles
       DEF CtrlC, FilesInv, Starting, Published, ExitDaemon, Goto, files
  <2> QED BY <2>1, <2>2, DaemonMoves DEF RuntimeInv
<1>13. CASE IdleExit(d)
  <2>1. DaemonMove(d)
    BY <1>0, <1>13 DEF IdleExit, DaemonMove, Starting, Published, ExitDaemon, FreedBy, Goto
  <2>2. FilesInv'
    BY <1>0, <1>13, <2>1, DaemonFiles
       DEF IdleExit, FilesInv, Starting, Published, ExitDaemon, Goto, files
  <2> QED BY <2>1, <2>2, DaemonMoves DEF RuntimeInv
<1>14. CASE Crash(d)
  <2>1. DaemonMove(d)
    BY <1>0, <1>14 DEF Crash, DaemonMove, Starting, Published, ExitDaemon, FreedBy, Goto, Running
  <2>2. FilesInv'
    BY <1>0, <1>14, <2>1, DaemonFiles
       DEF Crash, FilesInv, Starting, Published, ExitDaemon, Goto, files, Running
  <2> QED BY <2>1, <2>2, DaemonMoves DEF RuntimeInv
<1>15. CASE PidTaken(d)
  <2>1. DaemonMove(d)
    BY <1>0, <1>15 DEF PidTaken, DaemonMove, Starting, Published, ExitDaemon, FreedBy, Goto
  <2>2. FilesInv'
    BY <1>0, <1>15, <2>1, DaemonFiles
       DEF PidTaken, FilesInv, Starting, Published, ExitDaemon, Goto, files
  <2> QED BY <2>1, <2>2, DaemonMoves DEF RuntimeInv
<1>16. CASE PidFreed(d)
  <2>1. DaemonMove(d)
    BY <1>0, <1>16 DEF PidFreed, DaemonMove, Starting, Published, ExitDaemon, FreedBy, Goto
  <2>2. FilesInv'
    BY <1>0, <1>16, <2>1, DaemonFiles
       DEF PidFreed, FilesInv, Starting, Published, ExitDaemon, Goto, files
  <2> QED BY <2>1, <2>2, DaemonMoves DEF RuntimeInv
<1> QED BY <1>1, <1>2, <1>3, <1>4, <1>5, <1>6, <1>7, <1>8, <1>9, <1>10, <1>11, <1>12, <1>13, <1>14, <1>15, <1>16 DEF DaemonStep, DaemonEvent

\* What a step of client c must show when it changes nothing but c's record
\* and takes or drops the lock for c.
ClientFits(c) ==
    /\ client[c].pc \in KnowsDaemon => client[c].seen # Nobody
    /\ client[c].pc \in {"connect", "talk"} => client[c].key # Nobody
    /\ \/ client[c].pc \in {"sweep", "sweepkey", "spawn"}
       \/ client[c].stage = "locked" /\ client[c].pc \in Resolving
       => lock = c
    /\ client[c].pc \in {"trylock", "sweep", "sweepkey"} => client[c].stage # "locked"
    /\ client[c].pc = "sweepkey" => desc = Nobody
    /\ client[c].seen # Nobody =>
          daemon[client[c].seen] \in Published \cup {"cleanupkey", "dead"}
    /\ client[c].pc = "connect" /\ daemon[client[c].seen] \in Published
          => client[c].key = client[c].seen
    /\ client[c].pc = "stopped" => daemon[client[c].seen] \notin Published

\* Move keeps the client's record fitting when the place it moves to asks for
\* no more than the client knows and holds.
LEMMA MoveFits ==
    ASSUME client \in [Clients -> ClientRecords],
           NEW c \in Clients, NEW pc \in ClientPCs \ {"connect"}, Move(c, pc),
           ClientFits(c), UNCHANGED daemon,
           pc \in KnowsDaemon => client[c].seen # Nobody,
           pc = "talk" => client[c].key # Nobody,
           \/ pc \in {"sweep", "sweepkey", "spawn"}
           \/ client[c].stage = "locked" /\ pc \in Resolving
           => lock' = c,
           pc \in {"trylock", "sweep", "sweepkey"} => client[c].stage # "locked",
           pc = "sweepkey" => desc' = Nobody,
           pc = "stopped" => daemon[client[c].seen] \notin Published
    PROVE  ClientFits(c)'
<1>1. /\ client'[c].pc = pc
      /\ pc \in Ended \ {"stopped"} => client'[c].seen = Nobody
      /\ pc \notin Ended \ {"stopped"} =>
            /\ client'[c].stage = client[c].stage
            /\ client'[c].seen = client[c].seen
            /\ client'[c].key = client[c].key
  BY MoveFields, ZenonT(60)
<1>2. CASE pc \in Ended \ {"stopped"}
  BY <1>1, <1>2 DEF ClientFits, Ended, KnowsDaemon, Resolving
<1>3. CASE pc \notin Ended \ {"stopped"}
  BY <1>1, <1>3 DEF ClientFits
<1> QED BY <1>2, <1>3

\* Every step of a client that leaves files and daemons alone keeps the types
\* and the runtime invariant, if the client's new record fits.
LEMMA ClientMoves ==
    ASSUME OtherTypes, ClientTypes, RuntimeInv, NEW c \in Clients,
           UNCHANGED <<desc, secret, daemon, reuse>>,
           stopping' \subseteq Daemons,
           lock' \in {lock, Nobody, c},
           lock \notin {c, Nobody} => lock' = lock,
           client' \in [Clients -> ClientRecords],
           \A e \in Clients \ {c} : client'[e] = client[e],
           ClientFits(c)'
    PROVE  OtherTypes' /\ ClientTypes' /\ RuntimeInv'
<1> USE RuntimeAssumption
<1>1. OtherTypes'
  BY DEF OtherTypes
<1>2. ClientTypes'
  BY DEF ClientTypes, ClientFits
<1>3. LockInv'
  <2>1. \A d \in Daemons : lock = d => lock' = d
    BY DEF OtherTypes
  <2>2. \A e \in Clients \ {c} : lock = e => lock' = e
    BY DEF OtherTypes
  <2> QED BY <2>1, <2>2 DEF RuntimeInv, LockInv, ClientFits
<1>4. FilesInv'
  BY DEF RuntimeInv, FilesInv, ClientFits, At
<1>5. SeenInv'
  BY DEF RuntimeInv, SeenInv, ClientFits
<1>6. AccessIsGenuine' /\ DownIsTrue'
  BY DEF RuntimeInv, AccessIsGenuine, DownIsTrue, ClientFits, At
<1> QED BY <1>1, <1>2, <1>3, <1>4, <1>5, <1>6 DEF RuntimeInv

\* The same for the client that holds the lock and sweeps what a dead daemon
\* left: it may remove the descriptor, and after it the secret.
LEMMA SweepMoves ==
    ASSUME OtherTypes, ClientTypes, RuntimeInv, NEW c \in Clients,
           lock = c, lock' \in {c, Nobody},
           desc' = Nobody, secret' \in {secret, Nobody},
           secret' # secret => desc = Nobody,
           UNCHANGED <<daemon, reuse, stopping>>,
           \A d \in Daemons : daemon[d] \notin Published,
           client' \in [Clients -> ClientRecords],
           \A e \in Clients \ {c} : client'[e] = client[e],
           ClientFits(c)'
    PROVE  OtherTypes' /\ ClientTypes' /\ RuntimeInv'
<1> USE RuntimeAssumption
<1>1. OtherTypes'
  BY DEF OtherTypes
<1>2. ClientTypes'
  BY ZenonT(60) DEF ClientTypes, ClientFits
<1>3. LockInv'
  BY DEF RuntimeInv, LockInv, ClientFits
<1>4. FilesInv'
  <2>1. \A d \in Daemons : daemon[d] \notin Starting
    BY DEF RuntimeInv, LockInv
  <2> QED BY <2>1, ZenonT(60) DEF RuntimeInv, FilesInv, ClientFits, Starting, At
<1>5. SeenInv'
  BY DEF RuntimeInv, SeenInv, ClientFits
<1>6. AccessIsGenuine'
  BY DEF RuntimeInv, AccessIsGenuine, ClientFits, At
<1>7. DownIsTrue'
  BY ZenonT(60) DEF RuntimeInv, DownIsTrue, ClientFits, At
<1> QED BY <1>1, <1>2, <1>3, <1>4, <1>5, <1>6, <1>7 DEF RuntimeInv

\* Every step of a client keeps the types and the runtime invariant.
LEMMA ClientInv ==
    ASSUME OtherTypes, ClientTypes, RuntimeInv,
           NEW c \in Clients, ClientStep(c) \/ ClientEvent(c)
    PROVE  OtherTypes' /\ ClientTypes' /\ RuntimeInv'
<1> USE RuntimeAssumption DEF files, At
<1>0. /\ client \in [Clients -> ClientRecords]
      /\ client[c].seen \in Daemons \cup {Nobody}
      /\ ClientFits(c)
  BY ZenonT(60) DEF ClientTypes, ClientRecords, RuntimeInv, LockInv, FilesInv, SeenInv,
     AccessIsGenuine, DownIsTrue, ClientFits
<1> USE DEF Resolving, Ended, KnowsDaemon, ClientPCs
<1>1. CASE LookForDescriptor(c)
  <2>1. CASE desc = Nobody
    <3>1. NoneFound(c) /\ UNCHANGED <<desc, secret, daemon, reuse, stopping, lock>>
      BY <1>1, <2>1, ZenonT(60) DEF LookForDescriptor
    <3>2. ClientFits(c)'
      BY <1>0, <1>1, <2>1, <3>1, NoneFoundFields, ZenonT(60) DEF LookForDescriptor, ClientFits
    <3> QED BY <1>0, <3>1, <3>2, NoneFoundFields, ClientMoves, ZenonT(60) DEF OtherTypes
  <2>2. CASE desc # Nobody
    <3>1. Move(c, "read") BY <1>1, <2>2, ZenonT(60) DEF LookForDescriptor, EndWith
    <3>2. /\ UNCHANGED <<desc, secret, daemon, reuse>> /\ stopping' \subseteq Daemons
          /\ lock' \in {lock, Nobody, c} /\ (lock \notin {c, Nobody} => lock' = lock)
      BY <1>1, <2>2, ZenonT(60) DEF LookForDescriptor, EndWith, FreedBy, OtherTypes, Serving
    <3>3. ClientFits(c)'
      BY <1>0, <1>1, <2>2, <3>1, <3>2, MoveFits, ZenonT(60) DEF LookForDescriptor, ClientFits
    <3> QED BY <1>0, <3>1, <3>2, <3>3, MoveFields, ClientMoves
  <2> QED BY <1>1, <2>1, <2>2, ZenonT(60) DEF LookForDescriptor
<1>2. CASE ReadDescriptor(c)
  <2>1. CASE desc = Nobody
    <3>1. Move(c, "failed") BY <1>2, <2>1 DEF ReadDescriptor, EndWith
    <3>2. /\ UNCHANGED <<desc, secret, daemon, reuse>> /\ stopping' \subseteq Daemons
          /\ lock' \in {lock, Nobody, c} /\ (lock \notin {c, Nobody} => lock' = lock)
      BY <1>2, <2>1, ZenonT(60) DEF ReadDescriptor, EndWith, FreedBy, OtherTypes, Serving
    <3>3. ClientFits(c)'
      BY <1>0, <1>2, <2>1, <3>1, <3>2, MoveFits, ZenonT(60) DEF ReadDescriptor, ClientFits
    <3> QED BY <1>0, <3>1, <3>2, <3>3, MoveFields, ClientMoves
  <2>2. CASE desc # Nobody
    <3>1. /\ client' \in [Clients -> ClientRecords]
          /\ client'[c].pc \in {"key", "stale"}
          /\ client'[c].stage = client[c].stage
          /\ client'[c].seen = desc
          /\ \A e \in Clients \ {c} : client'[e] = client[e]
      BY <1>0, <1>2, <2>2 DEF ReadDescriptor, ClientRecords, OtherTypes
    <3>2. /\ UNCHANGED <<desc, secret, daemon, reuse, stopping>>
          /\ lock' \in {lock, Nobody, c} /\ (lock \notin {c, Nobody} => lock' = lock)
      BY <1>2, <2>2 DEF ReadDescriptor, FreedBy
    <3>3. ClientFits(c)'
      BY <1>0, <1>2, <2>2, <3>1, <3>2, ZenonT(60) DEF ReadDescriptor, ClientFits, OtherTypes, RuntimeInv, FilesInv
    <3> QED BY <1>0, <3>1, <3>2, <3>3, ClientMoves DEF OtherTypes
  <2> QED BY <1>2, <2>1, <2>2, ZenonT(60) DEF ReadDescriptor
<1>3. CASE TryStaleLock(c)
  <2>1. CASE lock = Nobody
    <3>1. Move(c, "sweep") BY <1>3, <2>1 DEF TryStaleLock, EndWith
    <3>2. /\ UNCHANGED <<desc, secret, daemon, reuse>> /\ stopping' \subseteq Daemons
          /\ lock' \in {lock, Nobody, c} /\ (lock \notin {c, Nobody} => lock' = lock)
      BY <1>3, <2>1, ZenonT(60) DEF TryStaleLock, EndWith, FreedBy, OtherTypes, Serving
    <3>3. ClientFits(c)'
      BY <1>0, <1>3, <2>1, <3>1, <3>2, MoveFits, ZenonT(60) DEF TryStaleLock, ClientFits
    <3> QED BY <1>0, <3>1, <3>2, <3>3, MoveFields, ClientMoves
  <2>2. CASE lock # Nobody
    <3>1. NoneFound(c) /\ UNCHANGED <<desc, secret, daemon, reuse, stopping, lock>>
      BY <1>3, <2>2, ZenonT(60) DEF TryStaleLock
    <3>2. ClientFits(c)'
      BY <1>0, <1>3, <2>2, <3>1, NoneFoundFields DEF TryStaleLock, ClientFits
    <3> QED BY <1>0, <3>1, <3>2, NoneFoundFields, ClientMoves DEF OtherTypes
  <2> QED BY <1>3, <2>1, <2>2, ZenonT(60) DEF TryStaleLock
<1>4. CASE SweepDescriptor(c)
  <2>0. lock = c BY <1>0, <1>4, ZenonT(60) DEF SweepDescriptor, ClientFits
  <2>1. CASE desc # Nobody /\ pid_is_alive(desc)
    <3>1. /\ NoneFound(c) /\ lock' = Nobody
          /\ UNCHANGED <<desc, secret, daemon, reuse, stopping>>
      BY <1>4, <2>1, ZenonT(60) DEF SweepDescriptor
    <3>2. ClientFits(c)'
      BY <1>0, <1>4, <3>1, NoneFoundFields, ZenonT(60) DEF SweepDescriptor, ClientFits
    <3> QED BY <1>0, <2>0, <3>1, <3>2, NoneFoundFields, ClientMoves, ZenonT(60) DEF OtherTypes
  <2>2. CASE ~(desc # Nobody /\ pid_is_alive(desc))
    <3>1. /\ Move(c, "sweepkey") /\ desc' = Nobody
          /\ UNCHANGED <<secret, lock, daemon, reuse, stopping>>
      BY <1>4, <2>2, ZenonT(60) DEF SweepDescriptor
    <3>2. \A d \in Daemons : daemon[d] \notin Published
      BY <2>2, ZenonT(60) DEF RuntimeInv, FilesInv, pid_is_alive, Running, Published
    <3>3. ClientFits(c)'
      BY <1>0, <1>4, <2>0, <3>1, MoveFits, ZenonT(60) DEF SweepDescriptor, ClientFits
    <3>4. /\ client' \in [Clients -> ClientRecords]
          /\ \A e \in Clients \ {c} : client'[e] = client[e]
      BY <1>0, <3>1, MoveFields
    <3> QED BY <2>0, <3>1, <3>2, <3>3, <3>4, SweepMoves, ZenonT(60)
  <2> QED BY <2>1, <2>2, ZenonT(60)
<1>5. CASE SweepSecret(c)
  <2>0. lock = c /\ desc = Nobody BY <1>0, <1>5 DEF SweepSecret, ClientFits
  <2>1. /\ NoneFound(c) /\ lock' = Nobody /\ secret' = Nobody
        /\ UNCHANGED <<desc, daemon, reuse, stopping>>
    BY <1>5, ZenonT(60) DEF SweepSecret
  <2>2. \A d \in Daemons : daemon[d] \notin Published \cup {"describe"}
    BY <2>0, ZenonT(60) DEF RuntimeInv, FilesInv, LockInv, Starting
  <2>3. ClientFits(c)'
    BY <1>0, <1>5, <2>1, NoneFoundFields DEF SweepSecret, ClientFits
  <2>4. /\ client' \in [Clients -> ClientRecords]
        /\ \A e \in Clients \ {c} : client'[e] = client[e]
    BY <1>0, <2>1, NoneFoundFields
  <2> QED BY <2>0, <2>1, <2>2, <2>3, <2>4, SweepMoves, ZenonT(60)
<1>6. CASE LookForSecret(c)
  <2>1. CASE secret = Nobody
    <3>1. NoneFound(c) /\ UNCHANGED <<desc, secret, daemon, reuse, stopping, lock>>
      BY <1>6, <2>1, ZenonT(60) DEF LookForSecret
    <3>2. ClientFits(c)'
      BY <1>0, <1>6, <2>1, <3>1, NoneFoundFields, ZenonT(60) DEF LookForSecret, ClientFits
    <3> QED BY <1>0, <3>1, <3>2, NoneFoundFields, ClientMoves DEF OtherTypes
  <2>2. CASE secret # Nobody
    <3>1. Move(c, "readkey") BY <1>6, <2>2, ZenonT(60) DEF LookForSecret, EndWith
    <3>2. /\ UNCHANGED <<desc, secret, daemon, reuse>> /\ stopping' \subseteq Daemons
          /\ lock' \in {lock, Nobody, c} /\ (lock \notin {c, Nobody} => lock' = lock)
      BY <1>6, <2>2, ZenonT(60) DEF LookForSecret, EndWith, FreedBy, OtherTypes, Serving
    <3>3. ClientFits(c)'
      BY <1>0, <1>6, <2>2, <3>1, <3>2, MoveFits DEF LookForSecret, ClientFits
    <3> QED BY <1>0, <3>1, <3>2, <3>3, MoveFields, ClientMoves
  <2> QED BY <1>6, <2>1, <2>2, ZenonT(60) DEF LookForSecret
<1>7. CASE ReadSecret(c)
  <2>1. CASE secret = Nobody
    <3>1. Move(c, "failed") BY <1>7, <2>1 DEF ReadSecret, EndWith
    <3>2. /\ UNCHANGED <<desc, secret, daemon, reuse>> /\ stopping' \subseteq Daemons
          /\ lock' \in {lock, Nobody, c} /\ (lock \notin {c, Nobody} => lock' = lock)
      BY <1>7, <2>1 DEF ReadSecret, EndWith, FreedBy, OtherTypes, Serving
    <3>3. ClientFits(c)'
      BY <1>0, <1>7, <2>1, <3>1, <3>2, MoveFits, ZenonT(60) DEF ReadSecret, ClientFits
    <3> QED BY <1>0, <3>1, <3>2, <3>3, MoveFields, ClientMoves
  <2>2. CASE secret # Nobody
    <3>1. /\ client' \in [Clients -> ClientRecords]
          /\ client'[c].pc = "connect"
          /\ client'[c].seen = client[c].seen
          /\ client'[c].key = secret
          /\ \A e \in Clients \ {c} : client'[e] = client[e]
      BY <1>0, <1>7, <2>2 DEF ReadSecret, ClientRecords, OtherTypes
    <3>2. /\ UNCHANGED <<desc, secret, daemon, reuse, stopping>>
          /\ lock' \in {lock, Nobody, c} /\ (lock \notin {c, Nobody} => lock' = lock)
      BY <1>7, <2>2 DEF ReadSecret, FreedBy
    <3>3. ClientFits(c)'
      BY <1>0, <1>7, <2>2, <3>1, <3>2 DEF ReadSecret, ClientFits, OtherTypes, RuntimeInv, FilesInv
    <3> QED BY <1>0, <3>1, <3>2, <3>3, ClientMoves DEF OtherTypes
  <2> QED BY <1>7, <2>1, <2>2 DEF ReadSecret
<1>8. CASE TryStartupLock(c)
  <2>1. CASE lock = Nobody
    <3>1. /\ client' \in [Clients -> ClientRecords]
          /\ client'[c].pc = "look"
          /\ client'[c].stage = "locked"
          /\ client'[c].seen = client[c].seen
          /\ \A e \in Clients \ {c} : client'[e] = client[e]
      BY <1>0, <1>8, <2>1, StageFields, ZenonT(60) DEF TryStartupLock, Stages
    <3>2. /\ UNCHANGED <<desc, secret, daemon, reuse, stopping>>
          /\ lock' \in {lock, Nobody, c} /\ (lock \notin {c, Nobody} => lock' = lock)
      BY <1>8, <2>1, ZenonT(60) DEF TryStartupLock, FreedBy
    <3>3. ClientFits(c)'
      BY <1>0, <1>8, <2>1, <3>1, <3>2, ZenonT(60) DEF TryStartupLock, ClientFits, OtherTypes, RuntimeInv, FilesInv
    <3> QED BY <1>0, <3>1, <3>2, <3>3, ClientMoves, ZenonT(60) DEF OtherTypes
  <2>2. CASE lock # Nobody
    <3>1. Move(c, "look") BY <1>8, <2>2 DEF TryStartupLock, EndWith
    <3>2. /\ UNCHANGED <<desc, secret, daemon, reuse>> /\ stopping' \subseteq Daemons
          /\ lock' \in {lock, Nobody, c} /\ (lock \notin {c, Nobody} => lock' = lock)
      BY <1>8, <2>2 DEF TryStartupLock, EndWith, FreedBy, OtherTypes, Serving
    <3>3. ClientFits(c)'
      BY <1>0, <1>8, <2>2, <3>1, <3>2, MoveFits DEF TryStartupLock, ClientFits
    <3> QED BY <1>0, <3>1, <3>2, <3>3, MoveFields, ClientMoves
  <2> QED BY <1>8, <2>1, <2>2 DEF TryStartupLock
<1>9. CASE Spawn(c)
  <2>0. lock = c BY <1>0, <1>9, ZenonT(60) DEF Spawn, ClientFits
  <2>1. /\ client' \in [Clients -> ClientRecords]
        /\ client'[c].pc = "look"
        /\ client'[c].stage = "wait"
        /\ client'[c].seen = client[c].seen
        /\ \A e \in Clients \ {c} : client'[e] = client[e]
    BY <1>0, <1>9, StageFields, ZenonT(60) DEF Spawn, Stages
  <2>2. PICK d \in Daemons : daemon[d] = "unborn" /\ daemon' = [daemon EXCEPT ![d] = "lock"]
    BY <1>9, ZenonT(60) DEF Spawn, Goto
  <2>3. lock' = Nobody /\ UNCHANGED <<desc, secret, stopping, reuse>>
    BY <1>9, ZenonT(60) DEF Spawn
  <2>4. \A e \in Clients : client'[e].seen = client[e].seen /\ client[e].seen \in Daemons \cup {Nobody}
    BY <2>1 DEF ClientTypes, ClientRecords
  <2>5. OtherTypes' /\ ClientTypes'
    BY <2>1, <2>2, <2>3, ZenonT(60) DEF OtherTypes, ClientTypes, DaemonPCs
  <2>6. LockInv'
    BY <2>0, <2>1, <2>2, <2>3 DEF RuntimeInv, LockInv, OtherTypes, Starting
  <2>7. FilesInv'
    BY <2>1, <2>2, <2>3, ZenonT(60) DEF RuntimeInv, FilesInv, OtherTypes, Published
  <2>8. SeenInv'
    BY <2>2, <2>4 DEF RuntimeInv, SeenInv, OtherTypes, Published
  <2>9. AccessIsGenuine' /\ DownIsTrue'
    BY <2>1, <2>2, <2>4 DEF RuntimeInv, AccessIsGenuine, DownIsTrue, OtherTypes, ClientTypes, Published
  <2> QED BY <2>5, <2>6, <2>7, <2>8, <2>9 DEF RuntimeInv
<1>10. CASE SpawnFails(c)
  <2>1. Move(c, "failed") BY <1>10 DEF SpawnFails, EndWith
  <2>2. /\ UNCHANGED <<desc, secret, daemon, reuse>> /\ stopping' \subseteq Daemons
        /\ lock' \in {lock, Nobody, c} /\ (lock \notin {c, Nobody} => lock' = lock)
    BY <1>10, ZenonT(60) DEF SpawnFails, EndWith, FreedBy, OtherTypes, Serving
  <2>3. ClientFits(c)'
    BY <1>0, <1>10, <2>1, <2>2, MoveFits, ZenonT(60) DEF SpawnFails, ClientFits
  <2> QED BY <1>0, <2>1, <2>2, <2>3, MoveFields, ClientMoves
<1>11. CASE Connect(c)
  <2>1. Move(c, "talk") \/ Move(c, "failed") BY <1>11, ZenonT(60) DEF Connect
  <2>2. UNCHANGED <<desc, secret, daemon, reuse, stopping, lock>> BY <1>11, ZenonT(60) DEF Connect
  <2>3. ClientFits(c)'
    BY <1>0, <1>11, <2>1, <2>2, MoveFits, ZenonT(60) DEF Connect, ClientFits
  <2> QED BY <1>0, <2>1, <2>2, <2>3, MoveFields, ClientMoves, ZenonT(60) DEF OtherTypes
<1>12. CASE Answered(c)
  <2>1. Move(c, "served") BY <1>12, ZenonT(60) DEF Answered, EndWith
  <2>2. /\ UNCHANGED <<desc, secret, daemon, reuse>> /\ stopping' \subseteq Daemons
        /\ lock' \in {lock, Nobody, c} /\ (lock \notin {c, Nobody} => lock' = lock)
    BY <1>12, ZenonT(60) DEF Answered, EndWith, FreedBy, OtherTypes, Serving
  <2>3. ClientFits(c)'
    BY <1>0, <1>12, <2>1, <2>2, MoveFits, ZenonT(60) DEF Answered, ClientFits
  <2> QED BY <1>0, <2>1, <2>2, <2>3, MoveFields, ClientMoves
<1>13. CASE ShutdownAcked(c)
  <2>1. Move(c, "exit") BY <1>13 DEF ShutdownAcked, EndWith
  <2>2. /\ UNCHANGED <<desc, secret, daemon, reuse>> /\ stopping' \subseteq Daemons
        /\ lock' \in {lock, Nobody, c} /\ (lock \notin {c, Nobody} => lock' = lock)
    BY <1>13 DEF ShutdownAcked, EndWith, FreedBy, OtherTypes, Serving
  <2>3. ClientFits(c)'
    BY <1>0, <1>13, <2>1, <2>2, MoveFits, ZenonT(60) DEF ShutdownAcked, ClientFits
  <2> QED BY <1>0, <2>1, <2>2, <2>3, MoveFields, ClientMoves
<1>14. CASE ShutdownRejected(c)
  <2>1. Move(c, "failed") BY <1>14 DEF ShutdownRejected, EndWith
  <2>2. /\ UNCHANGED <<desc, secret, daemon, reuse>> /\ stopping' \subseteq Daemons
        /\ lock' \in {lock, Nobody, c} /\ (lock \notin {c, Nobody} => lock' = lock)
    BY <1>14, ZenonT(60) DEF ShutdownRejected, EndWith, FreedBy, OtherTypes, Serving
  <2>3. ClientFits(c)'
    BY <1>0, <1>14, <2>1, <2>2, MoveFits, ZenonT(60) DEF ShutdownRejected, ClientFits
  <2> QED BY <1>0, <2>1, <2>2, <2>3, MoveFields, ClientMoves
<1>15. CASE ConnectionLost(c)
  <2>1. CASE Move(c, "failed")
    <3>1. Move(c, "failed") BY <1>15, <2>1 DEF ConnectionLost, EndWith
    <3>2. /\ UNCHANGED <<desc, secret, daemon, reuse>> /\ stopping' \subseteq Daemons
          /\ lock' \in {lock, Nobody, c} /\ (lock \notin {c, Nobody} => lock' = lock)
      BY <1>15, <2>1, ZenonT(60) DEF ConnectionLost, EndWith, FreedBy, OtherTypes, Serving
    <3>3. ClientFits(c)'
      BY <1>0, <1>15, <2>1, <3>1, <3>2, MoveFits, ZenonT(60) DEF ConnectionLost, ClientFits
    <3> QED BY <1>0, <3>1, <3>2, <3>3, MoveFields, ClientMoves
  <2>2. CASE Move(c, "exit")
    <3>1. Move(c, "exit") BY <1>15, <2>2 DEF ConnectionLost, EndWith
    <3>2. /\ UNCHANGED <<desc, secret, daemon, reuse>> /\ stopping' \subseteq Daemons
          /\ lock' \in {lock, Nobody, c} /\ (lock \notin {c, Nobody} => lock' = lock)
      BY <1>15, <2>2, ZenonT(60) DEF ConnectionLost, EndWith, FreedBy, OtherTypes, Serving
    <3>3. ClientFits(c)'
      BY <1>0, <1>15, <2>2, <3>1, <3>2, MoveFits, ZenonT(60) DEF ConnectionLost, ClientFits
    <3> QED BY <1>0, <3>1, <3>2, <3>3, MoveFields, ClientMoves
  <2> QED BY <1>15, <2>1, <2>2, ZenonT(60) DEF ConnectionLost
<1>16. CASE LookForExit(c)
  <2>1. CASE desc = Nobody
    <3>1. Move(c, "stopped") BY <1>16, <2>1 DEF LookForExit, EndWith
    <3>2. /\ UNCHANGED <<desc, secret, daemon, reuse>> /\ stopping' \subseteq Daemons
          /\ lock' \in {lock, Nobody, c} /\ (lock \notin {c, Nobody} => lock' = lock)
      BY <1>16, <2>1, ZenonT(60) DEF LookForExit, EndWith, FreedBy, OtherTypes, Serving
    <3>3. ClientFits(c)'
      BY <1>0, <1>16, <2>1, <3>1, <3>2, MoveFits, ZenonT(60) DEF LookForExit, ClientFits, RuntimeInv, FilesInv
    <3> QED BY <1>0, <3>1, <3>2, <3>3, MoveFields, ClientMoves
  <2>2. CASE desc # Nobody
    <3>1. Move(c, "exitread") BY <1>16, <2>2 DEF LookForExit, EndWith
    <3>2. /\ UNCHANGED <<desc, secret, daemon, reuse>> /\ stopping' \subseteq Daemons
          /\ lock' \in {lock, Nobody, c} /\ (lock \notin {c, Nobody} => lock' = lock)
      BY <1>16, <2>2, ZenonT(60) DEF LookForExit, EndWith, FreedBy, OtherTypes, Serving
    <3>3. ClientFits(c)'
      BY <1>0, <1>16, <2>2, <3>1, <3>2, MoveFits, ZenonT(60) DEF LookForExit, ClientFits, RuntimeInv, FilesInv
    <3> QED BY <1>0, <3>1, <3>2, <3>3, MoveFields, ClientMoves, ZenonT(60)
  <2> QED BY <1>16, <2>1, <2>2, ZenonT(60) DEF LookForExit
<1>17. CASE ReadExit(c)
  <2>1. CASE desc = Nobody
    <3>1. Move(c, "failed") BY <1>17, <2>1 DEF ReadExit, EndWith
    <3>2. /\ UNCHANGED <<desc, secret, daemon, reuse>> /\ stopping' \subseteq Daemons
          /\ lock' \in {lock, Nobody, c} /\ (lock \notin {c, Nobody} => lock' = lock)
      BY <1>17, <2>1, ZenonT(60) DEF ReadExit, EndWith, FreedBy, OtherTypes, Serving
    <3>3. ClientFits(c)'
      BY <1>0, <1>17, <2>1, <3>1, <3>2, MoveFits, ZenonT(60) DEF ReadExit, ClientFits, RuntimeInv, FilesInv, pid_is_alive, Running, Published
    <3> QED BY <1>0, <3>1, <3>2, <3>3, MoveFields, ClientMoves
  <2>2. CASE desc # Nobody /\ pid_is_alive(desc)
    <3>1. Move(c, "exit") BY <1>17, <2>2 DEF ReadExit, EndWith
    <3>2. /\ UNCHANGED <<desc, secret, daemon, reuse>> /\ stopping' \subseteq Daemons
          /\ lock' \in {lock, Nobody, c} /\ (lock \notin {c, Nobody} => lock' = lock)
      BY <1>17, <2>2, ZenonT(60) DEF ReadExit, EndWith, FreedBy, OtherTypes, Serving
    <3>3. ClientFits(c)'
      BY <1>0, <1>17, <2>2, <3>1, <3>2, MoveFits, ZenonT(60) DEF ReadExit, ClientFits, RuntimeInv, FilesInv, pid_is_alive, Running, Published
    <3> QED BY <1>0, <3>1, <3>2, <3>3, MoveFields, ClientMoves
  <2>3. CASE desc # Nobody /\ ~pid_is_alive(desc)
    <3>1. Move(c, "stopped") BY <1>17, <2>3 DEF ReadExit, EndWith
    <3>2. /\ UNCHANGED <<desc, secret, daemon, reuse>> /\ stopping' \subseteq Daemons
          /\ lock' \in {lock, Nobody, c} /\ (lock \notin {c, Nobody} => lock' = lock)
      BY <1>17, <2>3, ZenonT(60) DEF ReadExit, EndWith, FreedBy, OtherTypes, Serving
    <3>3. ClientFits(c)'
      BY <1>0, <1>17, <2>3, <3>1, <3>2, MoveFits, ZenonT(60) DEF ReadExit, ClientFits, RuntimeInv, FilesInv, pid_is_alive, Running, Published
    <3> QED BY <1>0, <3>1, <3>2, <3>3, MoveFields, ClientMoves
  <2> QED BY <1>17, <2>1, <2>2, <2>3 DEF ReadExit
<1>18. CASE GiveUp(c)
  <2>1. Move(c, "failed") BY <1>18 DEF GiveUp, EndWith
  <2>2. /\ UNCHANGED <<desc, secret, daemon, reuse>> /\ stopping' \subseteq Daemons
        /\ lock' \in {lock, Nobody, c} /\ (lock \notin {c, Nobody} => lock' = lock)
    BY <1>18, ZenonT(60) DEF GiveUp, EndWith, FreedBy, OtherTypes, Serving
  <2>3. ClientFits(c)'
    BY <1>0, <1>18, <2>1, <2>2, MoveFits, ZenonT(60) DEF GiveUp, ClientFits
  <2> QED BY <1>0, <2>1, <2>2, <2>3, MoveFields, ClientMoves
<1>19. ASSUME NEW stage \in Stages \ {"locked"}, Begin(c, stage)
      PROVE  OtherTypes' /\ ClientTypes' /\ RuntimeInv'
  <2>1. /\ client' \in [Clients -> ClientRecords]
        /\ client'[c].pc = "look"
        /\ client'[c].stage = stage
        /\ client'[c].seen = client[c].seen
        /\ \A e \in Clients \ {c} : client'[e] = client[e]
    BY <1>0, <1>19, StageFields, ZenonT(60) DEF Begin
  <2>2. UNCHANGED <<desc, secret, daemon, reuse, stopping, lock>> BY <1>19, ZenonT(60) DEF Begin
  <2>3. ClientFits(c)' BY <1>0, <2>1, <2>2 DEF ClientFits
  <2> QED BY <1>0, <2>1, <2>2, <2>3, ClientMoves, ZenonT(60) DEF OtherTypes
<1> QED BY <1>1, <1>2, <1>3, <1>4, <1>5, <1>6, <1>7, <1>8, <1>9, <1>10, <1>11, <1>12, <1>13, <1>14, <1>15, <1>16, <1>17, <1>18, <1>19, ZenonT(60) DEF ClientStep, ClientEvent, Stages

\* `serctl up' launches a daemon and disturbs nothing else.
LEMMA UpInv ==
    ASSUME OtherTypes, ClientTypes, RuntimeInv, Up
    PROVE  OtherTypes' /\ ClientTypes' /\ RuntimeInv'
<1>1. PICK d \in Daemons : /\ daemon[d] = "unborn"
                           /\ daemon' = [daemon EXCEPT ![d] = "lock"]
                           /\ UNCHANGED <<desc, secret, lock, stopping, reuse, client>>
  BY ZenonT(60) DEF Up, Goto, files
<1>2. OtherTypes' /\ ClientTypes'
  BY <1>1 DEF OtherTypes, ClientTypes, DaemonPCs
<1>3. \A c \in Clients : client[c].seen \in Daemons \cup {Nobody}
  BY DEF ClientTypes, ClientRecords
<1>4. \A c \in Clients : client[c].pc \in {"connect", "stopped"} => client[c].seen # Nobody
  BY ZenonT(60) DEF ClientTypes, KnowsDaemon
<1>5. RuntimeInv'
  BY <1>1, <1>3, <1>4 DEF OtherTypes, RuntimeInv, LockInv, FilesInv, SeenInv,
     AccessIsGenuine, DownIsTrue, Starting, Published, At
<1> QED BY <1>2, <1>5

LEMMA InitInv == Init => OtherTypes /\ ClientTypes /\ RuntimeInv
<1> SUFFICES ASSUME Init PROVE OtherTypes /\ ClientTypes /\ RuntimeInv
  OBVIOUS
<1>1. \A c \in Clients : /\ client[c].pc = "idle"
                         /\ client[c].seen = Nobody
                         /\ client[c].stage = "first"
  BY DEF Init, Rest
<1>2. OtherTypes
  BY DEF Init, OtherTypes, DaemonPCs
<1>3. ClientTypes
  BY <1>1 DEF Init, Rest, ClientTypes, ClientRecords, ClientPCs, Stages, KnowsDaemon
<1>4. RuntimeInv
  BY <1>1 DEF Init, RuntimeInv, LockInv, FilesInv, SeenInv, AccessIsGenuine, DownIsTrue,
     Starting, Published, Resolving, At
<1> QED BY <1>2, <1>3, <1>4

\* The types and the runtime invariant are inductive.
LEMMA InvStep ==
    ASSUME OtherTypes, ClientTypes, RuntimeInv, [Next]_vars
    PROVE  OtherTypes' /\ ClientTypes' /\ RuntimeInv'
<1>1. ASSUME NEW d \in Daemons, DaemonStep(d) \/ DaemonEvent(d)
      PROVE  OtherTypes' /\ ClientTypes' /\ RuntimeInv'
  <2>1. OtherTypes' /\ UNCHANGED client BY <1>1, DaemonTypes
  <2>2. ClientTypes' BY <2>1 DEF ClientTypes
  <2> QED BY <1>1, <2>1, <2>2, DaemonInv
<1>2. ASSUME NEW c \in Clients, ClientStep(c) \/ ClientEvent(c)
      PROVE  OtherTypes' /\ ClientTypes' /\ RuntimeInv'
  BY <1>2, ClientInv, ZenonT(60)
<1>3. CASE Up
  BY <1>3, UpInv, ZenonT(60)
<1>4. CASE UNCHANGED vars
  BY <1>4 DEF vars, OtherTypes, ClientTypes, RuntimeInv, LockInv, FilesInv, SeenInv,
     AccessIsGenuine, DownIsTrue, At
<1> QED BY <1>1, <1>2, <1>3, <1>4 DEF Next

LEMMA Invariance == Spec => [](OtherTypes /\ ClientTypes /\ RuntimeInv)
BY InitInv, InvStep, PTL DEF Spec

-----------------------------------------------------------------------------
\* The variables keep their types: no client connects without a descriptor and
\* a secret it has read.
THEOREM TypeCorrect == Spec => []TypeOK
BY Invariance, TypeParts, PTL

\* At most one daemon is published at a time, for any number of daemons and
\* clients and under every fault (run_global_with_idle_timeout).
THEOREM SingleDaemon == Spec => []OneDaemon
<1>1. ASSUME OtherTypes, RuntimeInv PROVE OneDaemon
  BY <1>1, RuntimeAssumption DEF OtherTypes, RuntimeInv, LockInv, FilesInv, OneDaemon, Published, Starting
<1> QED BY <1>1, Invariance, PTL

\* A client never pairs one daemon's descriptor with another daemon's secret
\* while the first still serves (resolve_daemon_until).
THEOREM GenuineAccess == Spec => []AccessIsGenuine
<1>1. RuntimeInv => AccessIsGenuine BY DEF RuntimeInv
<1> QED BY <1>1, Invariance, PTL

\* `down' never reports a daemon as stopped that still serves
\* (reconcile_shutdown_exchange, wait_for_daemon_exit).
THEOREM TrueDown == Spec => []DownIsTrue
<1>1. RuntimeInv => DownIsTrue BY DEF RuntimeInv
<1> QED BY <1>1, Invariance, PTL

\* Nobody removes or replaces the files of a published daemon but that daemon
\* at its own cleanup (cleanup_runtime_if_owner, reconcile_runtime).
THEOREM PublishedFilesStay == Spec => FilesOfTheLivingStay
<1> DEFINE Stay == \A d \in Daemons :
                      /\ daemon[d] \in {"serve", "drain", "relock"}
                      /\ daemon'[d] \in Published
                      => desc' = d /\ secret' = d
<1>1. ASSUME RuntimeInv' PROVE Stay
  BY <1>1 DEF RuntimeInv, FilesInv
<1>2. ASSUME OtherTypes, ClientTypes, RuntimeInv, [Next]_vars PROVE [Stay]_vars
  BY <1>1, <1>2, InvStep
<1> QED BY <1>2, Invariance, PTL DEF Spec, FilesOfTheLivingStay
=============================================================================
