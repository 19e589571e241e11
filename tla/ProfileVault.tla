---------------------------- MODULE ProfileVault -----------------------------
(***************************************************************************)
(* The encrypted vault of profiles, as processes on one machine share it:   *)
(* the leases and the vault lock they take, the commands that create,       *)
(* change, rename, recover and remove profiles, the vault-wide recovery     *)
(* policy, and the audit generations a profile leaves behind.  A process    *)
(* may be killed between any two file operations.                           *)
(*                                                                          *)
(* A profile is the key package sealed under its passphrase, the endpoint   *)
(* and host-key pin, and a copy of the package sealed for recovery.  A      *)
(* ledger is reduced to what a change of generation looks at: how many      *)
(* records it has, how many its checkpoint covers, how many Intents are     *)
(* open, whether a file of it was written in part, and the transition its   *)
(* first record states.  A record is written before the checkpoint that     *)
(* covers it.  The ciphers are ideal: a package opens with its passphrase   *)
(* and under no other.                                                      *)
(***************************************************************************)
EXTENDS Integers, FiniteSets, TLC

CONSTANTS
  Procs,         \* processes that use the vault, one command at a time
  Nobody,        \* no process
  Names,         \* profile names, ordered as their strings are
  Passphrases,   \* passphrases users choose
  Generated,     \* the passphrase a command generates and writes to a file
  AdminPasswords,
  Endpoints,     \* host and port
  Pins,          \* host-key fingerprints
  NoPin,
  Wanted,        \* endpoint and pin a user may ask for
  Commands,      \* the commands that are run
  Starts,        \* vaults and ledgers the installation may begin with
  MaxProfiles,   \* MAX_PROFILES
  MaxCommands,   \* bound: commands in a behaviour
  MaxRecords,    \* bound: records in a ledger
  Faults         \* what may go wrong: "kill", "io"

ASSUME ConstantsAssumption ==
  /\ Names \subseteq Nat
  /\ MaxProfiles \in Nat /\ MaxCommands \in Nat /\ MaxRecords \in Nat
  /\ Faults \subseteq {"kill", "io"}

VARIABLES
  vault,      \* vault.json
  ledgers,    \* the audit ledger of each <<profile id, generation>> that has files
  saved,      \* secrets written outside the vault: recovery media, generated passphrases
  writer,     \* who holds the vault lock exclusively
  proc,       \* what each process is doing
  nextId, nextConfig, commands

vars == <<vault, ledgers, saved, writer, proc, nextId, nextConfig, commands>>
files == <<vault, ledgers, saved>>
counters == <<nextId, nextConfig, commands>>

(***************************************************************************)
(* Packages, profiles, ledgers                                              *)

Seeds == {"none", "legacy", "random"}
Creds == [endpoint : Endpoints, pin : Pins \cup {NoPin}]

new_key_package(id) == [id |-> id, gen |-> 1, seed |-> "random", init |-> FALSE]

\* Only the audit seed goes on to the next generation.
next_key_package(pkg) == [pkg EXCEPT !.gen = @ + 1, !.init = TRUE]

\* The seed of a package from before audits is derived from its own key: the
\* same at every try.
initialize_legacy_audit_seed(pkg) ==
  IF pkg.seed = "none" THEN [pkg EXCEPT !.seed = "legacy"] ELSE pkg

identity(profile) == <<profile.pkg.id, profile.pkg.gen>>

\* wrap_profile_v3 and seal_package: the package is sealed twice, for the
\* passphrase and for the recovery configuration of the vault.
wrap_profile(pkg, creds, pass, config) ==
  [format |-> "audit", pkg |-> pkg, creds |-> creds, pass |-> pass,
   envelope |-> [config |-> config, pkg |-> pkg]]

\* open_package, with the matching medium
open_package(profile, config, medium) ==
  medium = config /\ profile.envelope.config = config
    /\ <<profile.envelope.pkg.id, profile.envelope.pkg.gen>> = identity(profile)

\* profile_call_key_v3: the key of a ledger is derived from the seed and the name.
LedgerKey(name, pkg) == [seed |-> pkg.seed, name |-> name]
LedgerOf(pkg) == <<pkg.id, pkg.gen>>
Exists(pkg) == LedgerOf(pkg) \in DOMAIN ledgers

\* verify_log and verify_checkpoint_against_log: a checkpoint that lags behind
\* the log is refused.
Verifies(name, pkg) ==
  /\ Exists(pkg)
  /\ ~ledgers[LedgerOf(pkg)].torn
  /\ ledgers[LedgerOf(pkg)].key = LedgerKey(name, pkg)
  /\ ledgers[LedgerOf(pkg)].checkpoint > 0
  /\ ledgers[LedgerOf(pkg)].checkpoint = ledgers[LedgerOf(pkg)].records

\* Mutant: verify() where verify_complete() is meant.
VerifyAnyEnd(name, pkg) == Verifies(name, pkg)

verify_complete(name, pkg) == Verifies(name, pkg) /\ ledgers[LedgerOf(pkg)].pending = 0

\* generation_transition_event
Genesis(name) == [prev |-> 0, old |-> name, new |-> name]
Transition(pkg, old, new) ==
  [prev |-> ledgers[LedgerOf(pkg)].checkpoint, old |-> old, new |-> new]

(***************************************************************************)
(* The vault file                                                           *)

Modern(v) == v.version \in {"pre", "audit"}

validate_loaded_vault(v) ==
  /\ Cardinality(DOMAIN v.profiles) <= MaxProfiles
  /\ \A n \in DOMAIN v.profiles :
       IF Modern(v)
       THEN /\ v.profiles[n].format \in {"envelope", "audit"}
            /\ (v.profiles[n].envelope.config # 0) = (v.recovery # 0)
       ELSE v.profiles[n].format = "v2"
  /\ Modern(v) => /\ (v.admin.config # 0) = (v.recovery # 0)
                  /\ DOMAIN v.profiles # {} => v.admin.config # 0
  /\ ~Modern(v) => v.admin.config = 0 /\ v.recovery = 0

With(v, name, profile) == [v EXCEPT !.profiles = (name :> profile) @@ @]
Without(v, name) == [v EXCEPT !.profiles = [n \in DOMAIN @ \ {name} |-> @[n]]]

\* authenticate_profile_v3 behind require_v3 and require_identity
Authentic(v, name, pass, expected) ==
  /\ Modern(v)
  /\ name \in DOMAIN v.profiles
  /\ expected # <<0, 0>> => identity(v.profiles[name]) = expected
  /\ v.profiles[name].pass = pass
  /\ v.profiles[name].envelope.config = v.recovery

\* open_admin_policy
AdminOk(v, password) ==
  v.recovery # 0 /\ v.admin.config = v.recovery /\ v.admin.pass = password

(***************************************************************************)
(* Processes                                                                *)

NoVault == [version |-> "none", admin |-> [pass |-> "none", config |-> 0],
            recovery |-> 0, profiles |-> <<>>]

Idle ==
  [kind |-> "none", pc |-> "idle", name |-> 0, new |-> 0, pass |-> "none",
   newpass |-> "none", admin |-> "none", medium |-> 0, want |-> [endpoint |-> "none", pin |-> NoPin],
   expected |-> <<0, 0>>, snap |-> NoVault, leases |-> <<>>, barrier |-> FALSE,
   creds |-> [endpoint |-> "none", pin |-> NoPin], pin |-> NoPin, open |-> 0, fills |-> FALSE]

At(p, pc) == proc[p].pc = pc
Goto(p, pc) == proc' = [proc EXCEPT ![p].pc = pc]

\* The process answers its caller and drops every lock it holds.
Leave(p) ==
  /\ proc' = [proc EXCEPT ![p] = Idle]
  /\ writer' = IF writer = p THEN Nobody ELSE writer

Fail(p) == Leave(p) /\ UNCHANGED <<files, counters>>

Init ==
  /\ \E s \in Starts : vault = s.vault /\ ledgers = s.ledgers /\ saved = s.saved
  /\ writer = Nobody
  /\ proc = [p \in Procs |-> Idle]
  /\ nextId = 3 /\ nextConfig = 2 /\ commands = 0

(***************************************************************************)
(* Starting a command                                                       *)


\* Commands on the whole vault, behind the exclusive runtime barrier
VaultWide == {"initialize", "admin", "rotate", "migrate"}
\* Commands an administrator authorizes on a snapshot of the vault
ByAdmin == {"create", "reset", "recover", "rotate", "admin"}
\* Commands that name an identity: their caller has read the profile's metadata
Identified == {"update", "rename", "remove", "passphrase", "reset", "recover"}
\* Commands a profile's passphrase opens; "use" is a session of the daemon,
\* "daemon" a daemon of one profile, "shutdown" the proof daemon.shutdown asks for
ByPassphrase ==
  {"use", "daemon", "shutdown", "update", "rename", "remove", "passphrase", "resolve", "migrate"}

Unless(cond, S, default) == IF cond THEN S ELSE {default}

\* What a user may name and type for a command (run_cli and the run_*_command
\* functions; the forms of the desktop)
Requests(kind) ==
  LET Known == Passphrases \cup saved.passphrases IN
  [kind    : {kind},
   name    : Unless(kind \notin VaultWide, Names, 0),
   new     : Unless(kind = "rename", Names, 0),
   pass    : Unless(kind \in ByPassphrase, Known, "none"),
   newpass : CASE kind \in {"passphrase", "recover"} -> Passphrases \cup {Generated}
               [] kind \in {"create", "migrate"} -> Passphrases
               [] kind = "admin" -> AdminPasswords
               [] OTHER -> {"none"},
   admin   : Unless(kind \in ByAdmin \cup VaultWide, AdminPasswords, "none"),
   medium  : Unless(kind \in {"recover", "rotate"}, saved.media, 0),
   want    : Unless(kind \in {"create", "update", "rename"}, Wanted, Idle.want)]

FirstStep(r) ==
  CASE r.newpass = Generated -> "persist"
    [] r.newpass # Generated /\ r.kind \in ByAdmin \cup {"migrate"} -> "authorize"
    [] r.kind = "initialize" -> "barrier"
    [] r.kind = "shutdown" -> "open"
    [] OTHER -> "lease"

Begin(p) ==
  /\ At(p, "idle") /\ writer = Nobody /\ commands < MaxCommands
  /\ \E kind \in Commands : \E r \in Requests(kind) :
       /\ kind \in Identified => r.name \in DOMAIN vault.profiles
       /\ kind = "rename" => r.name # r.new
       /\ proc' = [proc EXCEPT ![p] =
            [pc |-> FirstStep(r),
             expected |-> IF kind \in Identified THEN identity(vault.profiles[r.name])
                          ELSE <<0, 0>>] @@ r @@ Idle]
  /\ commands' = commands + 1
  /\ UNCHANGED <<files, writer, nextId, nextConfig>>

\* commit_generated_profile_passphrase: the generated passphrase is on disk
\* before the vault is touched.
PersistPassphrase(p) ==
  /\ At(p, "persist")
  /\ \/ /\ saved' = [saved EXCEPT !.passphrases = @ \cup {Generated}]
        /\ Goto(p, IF proc[p].kind = "recover" THEN "authorize" ELSE "lease")
        /\ UNCHANGED <<vault, ledgers, writer, counters>>
     \/ "io" \in Faults /\ Fail(p)

\* What the first, unlocked reading of the vault must show.
Authorized(v, c) ==
  CASE c.kind = "create" -> AdminOk(v, c.admin) /\ c.name \notin DOMAIN v.profiles
    [] c.kind = "reset" -> /\ AdminOk(v, c.admin) /\ c.name \in DOMAIN v.profiles
                           /\ identity(v.profiles[c.name]) = c.expected
    [] c.kind = "recover" -> /\ AdminOk(v, c.admin) /\ c.name \in DOMAIN v.profiles
                             /\ identity(v.profiles[c.name]) = c.expected
                             /\ open_package(v.profiles[c.name], v.recovery, c.medium)
    [] c.kind = "rotate" -> /\ AdminOk(v, c.admin)
                            /\ \A n \in DOMAIN v.profiles :
                                 open_package(v.profiles[n], v.recovery, c.medium)
    [] c.kind = "admin" -> AdminOk(v, c.admin)
    [] c.kind = "migrate" -> /\ v.version = "v2" /\ DOMAIN v.profiles # {}
                             /\ \A n \in DOMAIN v.profiles : v.profiles[n].pass = c.pass

\* load_vault waits for the vault lock: a reader sees no half-made change.  The
\* digest of what it read is kept, and compared once the vault is locked.
Authorize(p) ==
  /\ At(p, "authorize") /\ writer = Nobody
  /\ IF Authorized(vault, proc[p]) /\ (Modern(vault) \/ proc[p].kind = "migrate")
     THEN /\ proc' = [proc EXCEPT ![p].snap = vault,
                        ![p].pc = IF proc[p].kind \in VaultWide THEN "barrier" ELSE "lease"]
          /\ UNCHANGED <<files, writer, counters>>
     ELSE Fail(p)

(***************************************************************************)
(* Leases                                                                   *)

Others(p) == Procs \ {p}
BarrierTaken(p) == \E q \in Others(p) : proc[q].barrier
LeaseTaken(p, n, mode) ==
  \E q \in Others(p) : n \in DOMAIN proc[q].leases
                         /\ "exclusive" \in {mode, proc[q].leases[n]}

\* acquire_rename_leases: the smaller name first
NextLease(c) ==
  LET wanted == {c.name} \cup (IF c.kind = "rename" THEN {c.new} ELSE {})
      left == wanted \ DOMAIN c.leases
  IN CHOOSE n \in left : \A m \in left : n <= m

AfterLease(c) ==
  IF c.kind = "rename" /\ c.leases = <<>> THEN "lease"
  ELSE CASE c.kind \in {"use", "daemon", "update", "rename", "passphrase"} -> "open"
         [] c.kind = "resolve" -> "recovery_key"
         [] OTHER -> "lock"

\* acquire_runtime_lease, acquire_profile_use_lease, acquire_profile_mutation_lease:
\* the barrier shared, then the profile's own file; neither waits.
Lease(p) ==
  /\ At(p, "lease")
  /\ LET c == proc[p]
         n == NextLease(c)
         mode == IF c.kind = "use" THEN "shared" ELSE "exclusive"
     IN IF BarrierTaken(p) \/ LeaseTaken(p, n, mode)
        THEN Fail(p)
        ELSE /\ proc' = [proc EXCEPT ![p].leases = (n :> mode) @@ @, ![p].pc = AfterLease(c)]
             /\ UNCHANGED <<files, writer, counters>>

\* acquire_runtime_barrier_exclusive
Barrier(p) ==
  /\ At(p, "barrier")
  /\ IF BarrierTaken(p) \/ \E q \in Others(p) : DOMAIN proc[q].leases # {}
     THEN Fail(p)
     ELSE /\ proc' = [proc EXCEPT ![p].barrier = TRUE, ![p].pc = "lock"]
          /\ UNCHANGED <<files, writer, counters>>

\* lock_vault_with_timeout, for the exclusive lock of mutate_vault
Lock(p) ==
  /\ proc[p].pc \in {"open_lock", "pin_lock", "lock"}
  /\ writer = Nobody
  /\ writer' = p
  /\ Goto(p, CASE At(p, "open_lock") -> "opening"
               [] At(p, "pin_lock") -> "pinning"
               [] OTHER -> "mutate")
  /\ UNCHANGED <<files, counters>>

\* Any wait for the vault lock, shared or exclusive, is given up at its deadline.
LockTimeout(p) ==
  /\ proc[p].pc \in {"authorize", "open", "recovery_key", "open_lock", "pin_lock", "lock"}
  /\ writer \notin {Nobody, p}
  /\ Fail(p)

(***************************************************************************)
(* Opening a profile                                                        *)

Opens(p) == Authentic(vault, proc[p].name, proc[p].pass, proc[p].expected)
Profile(p) == vault.profiles[proc[p].name]

\* An append holds the lock of the log from its record to its checkpoint; who
\* verifies the ledger waits for it.
LogFree(l) ==
  \A q \in Procs : proc[q].pc \in {"checkpoint", "resolved"} => proc[q].expected # l

AfterOpen(c) ==
  CASE c.kind \in {"use", "daemon"} -> "using"
    [] c.kind = "resolve" -> "resolve"
    [] OTHER -> "lock"

\* The caller has the credentials and the call key; daemon.shutdown is content
\* with the proof.
Opened(p) ==
  IF proc[p].kind = "shutdown" THEN Leave(p)
  ELSE /\ proc' = [proc EXCEPT ![p].pc = AfterOpen(proc[p]), ![p].creds = Profile(p).creds,
                               ![p].expected = identity(Profile(p))]
       /\ writer' = IF writer = p THEN Nobody ELSE writer

\* decrypt_with_call_key_with_lock_timeout up to the point where it drops what
\* it has read: only a profile with nothing to initialize or upgrade is opened
\* from the shared reading.
Open(p) ==
  /\ At(p, "open") /\ writer = Nobody
  /\ Opens(p) => LogFree(identity(Profile(p)))
  /\ IF ~Opens(p) THEN Fail(p)
     ELSE IF Profile(p).pkg.init /\ vault.version = "audit" /\ Profile(p).format = "audit"
     THEN IF verify_complete(proc[p].name, Profile(p).pkg)
          THEN Opened(p) /\ UNCHANGED <<files, counters>>
          ELSE Fail(p)
     ELSE Goto(p, "open_lock") /\ UNCHANGED <<files, writer, counters>>

\* The second half, under the exclusive lock: everything is read and checked again.
OpenAgain(p) ==
  /\ At(p, "opening")
  /\ Opens(p) => LogFree(identity(Profile(p)))
  /\ IF ~Opens(p) THEN Fail(p)
     ELSE IF Profile(p).pkg.init
     THEN IF verify_complete(proc[p].name, Profile(p).pkg)
          THEN Goto(p, "open_save") /\ UNCHANGED <<files, writer, counters>>
          ELSE Fail(p)
     ELSE Goto(p, "open_genesis") /\ UNCHANGED <<files, writer, counters>>

\* derive_profile_audit_recovery_key_with_lock_timeout: an initialized ledger is
\* not verified here, recovery is for the ledgers that do not verify.
RecoveryKey(p) ==
  /\ At(p, "recovery_key") /\ writer = Nobody
  /\ IF ~Opens(p) THEN Fail(p)
     ELSE /\ proc' = [proc EXCEPT ![p].pc = IF Profile(p).pkg.init THEN "resolve" ELSE "open",
                                  ![p].expected = identity(Profile(p))]
          /\ UNCHANGED <<files, writer, counters>>

\* resolve_pending_as_unknown: one record after the other closes the Intents
\* that are open.  A ledger that does not verify is refused: nothing but another
\* append of a live session brings a lagging checkpoint up to the log.
Resolve(p) ==
  /\ At(p, "resolve")
  /\ LET l == proc[p].expected
         wanted == Verifies(proc[p].name, Profile(p).pkg) /\ ledgers[l].pending > 0
     IN \/ /\ wanted
           /\ ledgers' = [ledgers EXCEPT ![l].pending = @ - 1, ![l].records = @ + 1]
           /\ Goto(p, "resolved") /\ UNCHANGED writer
        \/ /\ wanted /\ "io" \in Faults
           /\ ledgers' = [ledgers EXCEPT ![l].torn = TRUE]
           /\ Leave(p)
        \/ ~wanted /\ Leave(p) /\ UNCHANGED ledgers
  /\ UNCHANGED <<vault, saved, counters>>

\* persist_checkpoint: an error may come after the file was replaced.
Covered(l) == [ledgers EXCEPT ![l].checkpoint = ledgers[l].records]

ResolveCheckpoint(p) ==
  /\ At(p, "resolved")
  /\ LET l == proc[p].expected
     IN \/ ledgers' = Covered(l) /\ Goto(p, "resolve") /\ UNCHANGED writer
        \/ "io" \in Faults /\ ledgers' \in {ledgers, Covered(l)} /\ Leave(p)
  /\ UNCHANGED <<vault, saved, counters>>

(***************************************************************************)
(* Starting a ledger: one file operation at a time                          *)

Legacy(pkg) == initialize_legacy_audit_seed(pkg)

\* The ledger initialize_generation is called for, its key and first record
Starting(p) ==
  LET c == proc[p]
      pkg == Legacy(Profile(p).pkg)
      new == IF c.kind = "rename" THEN c.new ELSE c.name
  IN IF c.pc \in {"open_genesis", "genesis"}
     THEN [at |-> LedgerOf(pkg), key |-> LedgerKey(c.name, pkg), origin |-> Genesis(c.name)]
     ELSE [at |-> LedgerOf(next_key_package(pkg)), key |-> LedgerKey(new, next_key_package(pkg)),
           origin |-> Transition(pkg, c.name, new)]

AfterStarting(c) ==
  CASE c.pc = "open_genesis" -> "open_save"
    [] c.pc = "genesis" -> "successor"
    [] OTHER -> "save"

NewLedger(g) ==
  [records |-> 0, checkpoint |-> 0, pending |-> 0, torn |-> FALSE, key |-> g.key, origin |-> g.origin]

\* initialize_create_new, resume_generation_initialization and
\* verify_single_generation_event: the log is created, its one record written,
\* the checkpoint created and filled; a retry goes on from what it finds, if that
\* is its own and none of it was written in part.
InitializeGeneration(p) ==
  /\ proc[p].pc \in {"open_genesis", "genesis", "successor"}
  /\ LET g == Starting(p)
         l == ledgers[g.at]
         found == g.at \in DOMAIN ledgers /\ ~l.torn
         own == found /\ l.records = 1 /\ l.key = g.key /\ l.origin = g.origin
     IN \/ /\ g.at \notin DOMAIN ledgers
           /\ ledgers' = (g.at :> NewLedger(g)) @@ ledgers
           /\ UNCHANGED <<proc, writer>>
        \/ /\ found /\ l.records = 0
           /\ ledgers' = [ledgers EXCEPT ![g.at] = [NewLedger(g) EXCEPT !.records = 1]]
           /\ UNCHANGED <<proc, writer>>
        \/ /\ own /\ l.checkpoint = 0
           /\ ledgers' = [ledgers EXCEPT ![g.at].torn = TRUE]
           /\ proc' = [proc EXCEPT ![p].fills = TRUE] /\ UNCHANGED writer
        \/ /\ proc[p].fills
           /\ ledgers' = [ledgers EXCEPT ![g.at].torn = FALSE, ![g.at].checkpoint = 1]
           /\ proc' = [proc EXCEPT ![p].fills = FALSE, ![p].pc = AfterStarting(proc[p])]
           /\ UNCHANGED writer
        \/ /\ own /\ l.checkpoint = 1
           /\ Goto(p, AfterStarting(proc[p])) /\ UNCHANGED <<ledgers, writer>>
        \/ /\ g.at \in DOMAIN ledgers /\ ~proc[p].fills
           /\ l.torn \/ (l.records > 0 /\ ~own)
           /\ Leave(p) /\ UNCHANGED ledgers
        \/ /\ "io" \in Faults
           /\ ledgers' \in {ledgers} \cup
                {[ledgers EXCEPT ![k].torn = TRUE] : k \in {g.at} \cap {a \in DOMAIN ledgers : ledgers[a].records = 0}}
           /\ Leave(p)
  /\ UNCHANGED <<vault, saved, counters>>

(***************************************************************************)
(* Changing the vault                                                       *)

\* vault_state_digest is compared with that of the snapshot.  Two vaults with
\* the same contents are one vault here; their nonces are not modelled.
Unchanged(p) == vault = proc[p].snap

\* mutate_vault: a change raises the version of the file.
Replaced(v) == [v EXCEPT !.version = "audit"]

\* Mutant: the request decides.
RequestedPin(old, want) == want.pin

\* The pin a new version of a profile has (update_profile, rename_profile_v3)
KeptPin(old, want) ==
  IF old.endpoint = want.endpoint /\ old.pin # NoPin THEN old.pin ELSE want.pin
PinConflict(old, want) ==
  old.endpoint = want.endpoint /\ old.pin # NoPin /\ want.pin \notin {NoPin, old.pin}

\* The checks of each command once it has the vault lock
Allowed(p) ==
  LET c == proc[p] IN
  CASE c.kind = "create" -> Unchanged(p) /\ c.name \notin DOMAIN vault.profiles
                              /\ Cardinality(DOMAIN vault.profiles) < MaxProfiles
    [] c.kind \in {"update", "rename", "passphrase"} ->
         /\ Opens(p)
         /\ c.kind = "rename" => c.new \notin DOMAIN vault.profiles
         /\ Profile(p).pkg.init /\ verify_complete(c.name, Profile(p).pkg)
         /\ c.kind # "passphrase" => ~PinConflict(Profile(p).creds, c.want)
    [] c.kind = "remove" ->
         /\ Modern(vault)
         /\ c.name \in DOMAIN vault.profiles =>
              Opens(p) /\ ~Profile(p).pkg.init /\ ~Exists(Profile(p).pkg)
    [] c.kind = "recover" ->
         /\ Unchanged(p)
         /\ Profile(p).pkg.init => verify_complete(c.name, Profile(p).pkg)
    [] c.kind = "initialize" -> /\ Modern(vault) /\ vault.recovery = 0
                                /\ DOMAIN vault.profiles = {}
    [] c.kind \in {"admin", "rotate", "migrate"} -> Unchanged(p)
    [] c.kind = "reset" -> FALSE

AfterCheck(p) ==
  CASE proc[p].kind \in {"update", "rename", "passphrase"} -> "successor"
    [] proc[p].kind = "recover" -> IF Profile(p).pkg.init THEN "successor" ELSE "genesis"
    [] proc[p].kind \in {"initialize", "rotate", "migrate"} -> "media"
    [] OTHER -> "save"

Mutate(p) ==
  /\ At(p, "mutate")
  /\ IF Allowed(p)
     THEN Goto(p, AfterCheck(p)) /\ UNCHANGED <<files, writer, counters>>
     ELSE Fail(p)

\* persist_new_recovery_media, called inside the mutation and before it is saved
PersistMedia(p) ==
  /\ At(p, "media")
  /\ \/ /\ saved' = [saved EXCEPT !.media = @ \cup {nextConfig}]
        /\ nextConfig' = nextConfig + 1
        /\ proc' = [proc EXCEPT ![p].medium = nextConfig, ![p].pc = "save"]
        /\ UNCHANGED <<vault, ledgers, writer, nextId, commands>>
     \/ "io" \in Faults /\ Fail(p)

\* The vault each command writes
create_profile(c, v) ==
  With(v, c.name, wrap_profile(new_key_package(nextId), c.want, c.newpass, v.recovery))

Succeeding(v, name) == next_key_package(Legacy(v.profiles[name].pkg))
Asked(c, v) == [c.want EXCEPT !.pin = KeptPin(v.profiles[c.name].creds, c.want)]

update_profile(c, v) ==
  With(v, c.name, wrap_profile(Succeeding(v, c.name), Asked(c, v), c.pass, v.recovery))

rename_profile_v3(c, v) ==
  With(Without(v, c.name), c.new,
       wrap_profile(Succeeding(v, c.name), Asked(c, v), c.pass, v.recovery))

change_profile_passphrase(c, v) ==
  With(v, c.name,
       wrap_profile(Succeeding(v, c.name), v.profiles[c.name].creds, c.newpass, v.recovery))

recover_profile_with_media(c, v) ==
  With(v, c.name,
       wrap_profile(Succeeding(c.snap, c.name), c.snap.profiles[c.name].creds, c.newpass, v.recovery))

remove_profile(c, v) == Without(v, c.name)

change_admin_password(c, v) == [v EXCEPT !.admin.pass = c.newpass]

\* seal_admin_policy, for a new recovery configuration
Governed(c, v) ==
  [v EXCEPT !.admin = [pass |-> c.admin, config |-> c.medium], !.recovery = c.medium]

\* The packages in the new recovery copies are those of the snapshot.
rotate_recovery(c, v) ==
  [Governed(c, v) EXCEPT !.profiles = [n \in DOMAIN @ |->
     [@[n] EXCEPT !.envelope = [config |-> c.medium, pkg |-> c.snap.profiles[n].envelope.pkg]]]]

migrate_v2(c, v) ==
  [Governed(c, v) EXCEPT !.profiles = [n \in DOMAIN @ |->
     wrap_profile(new_key_package(nextId + n), @[n].creds, c.newpass, c.medium)]]

Replacement(p) ==
  LET c == proc[p]
      v == Replaced(vault)
  IN CASE c.kind = "create" -> create_profile(c, v)
       [] c.kind = "update" -> update_profile(c, v)
       [] c.kind = "rename" -> rename_profile_v3(c, v)
       [] c.kind = "passphrase" -> change_profile_passphrase(c, v)
       [] c.kind = "recover" -> recover_profile_with_media(c, v)
       [] c.kind = "remove" -> remove_profile(c, v)
       [] c.kind = "admin" -> change_admin_password(c, v)
       [] c.kind = "initialize" -> Governed(c, v)
       [] c.kind = "rotate" -> rotate_recovery(c, v)
       [] c.kind = "migrate" -> migrate_v2(c, v)

IdsUsed(c) == CASE c.kind = "create" -> 1 [] c.kind = "migrate" -> Cardinality(Names) + 1 [] OTHER -> 0

\* The end of mutate_vault: the protected atomic replacement of the file, and
\* with it every lock is released.
Save(p) ==
  /\ At(p, "save")
  /\ \/ /\ validate_loaded_vault(Replacement(p))
        /\ vault' = Replacement(p)
        /\ nextId' = nextId + IdsUsed(proc[p])
        /\ Leave(p)
        /\ UNCHANGED <<ledgers, saved, nextConfig, commands>>
     \/ /\ "io" \in Faults \/ ~validate_loaded_vault(Replacement(p))
        /\ Fail(p)

\* ... of the opening: the rewrapped profile, marked initialized
OpenSave(p) ==
  /\ At(p, "open_save")
  /\ \/ LET pkg == [Legacy(Profile(p).pkg) EXCEPT !.init = TRUE] IN
        /\ vault' = With(Replaced(vault), proc[p].name,
                         wrap_profile(pkg, Profile(p).creds, proc[p].pass, vault.recovery))
        /\ Opened(p) /\ UNCHANGED <<ledgers, saved, counters>>
     \/ "io" \in Faults /\ Fail(p)

(***************************************************************************)
(* A session                                                                *)

\* The server shows a key nobody has pinned yet: it is pinned on first use.
SeeHostKey(p) ==
  /\ At(p, "using") /\ proc[p].creds.pin = NoPin
  /\ \E k \in Pins : proc' = [proc EXCEPT ![p].pin = k, ![p].pc = "pin_lock"]
  /\ UNCHANGED <<files, writer, counters>>

\* set_pinned_fp_with_lock_timeout and apply_host_pin: an absent pin is filled,
\* the same pin accepted, another one refused, which ends the session.
SetPin(p) ==
  /\ At(p, "pinning")
  /\ LET c == proc[p]
         fits == Authentic(vault, c.name, c.pass, <<0, 0>>) /\ Profile(p).creds.pin \in {NoPin, c.pin}
     IN \/ /\ fits
           /\ vault' = With(Replaced(vault), c.name,
                            [Profile(p) EXCEPT !.creds.pin = c.pin])
           /\ proc' = [proc EXCEPT ![p].creds.pin = c.pin, ![p].pc = "using"]
           /\ writer' = Nobody
           /\ UNCHANGED <<ledgers, saved, counters>>
        \/ (~fits \/ "io" \in Faults) /\ Fail(p)

\* A privileged request of the session: an Intent, then its Outcome
\* (append_locked_with_checkpoint_mode).  A write that fails may leave a part.
Record(p) ==
  /\ At(p, "using") /\ proc[p].creds.pin # NoPin
  /\ LET l == proc[p].expected IN
     /\ LogFree(l) /\ ~ledgers[l].torn /\ ledgers[l].records < MaxRecords
     /\ \/ \E change \in {1} \cup (IF proc[p].open > 0 THEN {-1} ELSE {}) :
             /\ ledgers' = [ledgers EXCEPT ![l].records = @ + 1, ![l].pending = @ + change]
             /\ proc' = [proc EXCEPT ![p].pc = "checkpoint", ![p].open = @ + change]
        \/ /\ "io" \in Faults
           /\ ledgers' = [ledgers EXCEPT ![l].torn = TRUE]
           /\ UNCHANGED proc
  /\ UNCHANGED <<vault, saved, writer, counters>>

\* The checkpoint is replaced once the record is synced.  When that fails the
\* session goes on, quarantined, and its next append may still cover the record.
Checkpoint(p) ==
  /\ At(p, "checkpoint")
  /\ \/ ledgers' = Covered(proc[p].expected)
     \/ "io" \in Faults /\ UNCHANGED ledgers
  /\ Goto(p, "using")
  /\ UNCHANGED <<vault, saved, writer, counters>>

End(p) == At(p, "using") /\ Fail(p)

Kill(p) == "kill" \in Faults /\ ~At(p, "idle") /\ Fail(p)

Step(p) ==
  \/ PersistPassphrase(p) \/ Authorize(p) \/ Lease(p) \/ Barrier(p) \/ Lock(p)
  \/ LockTimeout(p) \/ Open(p) \/ OpenAgain(p) \/ RecoveryKey(p) \/ Resolve(p)
  \/ ResolveCheckpoint(p) \/ Checkpoint(p) \/ InitializeGeneration(p) \/ Mutate(p) \/ PersistMedia(p) \/ Save(p) \/ OpenSave(p)
  \/ SetPin(p)

Next == \E p \in Procs : Begin(p) \/ Step(p) \/ SeeHostKey(p) \/ Record(p) \/ End(p) \/ Kill(p)

Spec == Init /\ [][Next]_vars

(***************************************************************************)
(* Properties                                                               *)

Profiles == {vault.profiles[n] : n \in DOMAIN vault.profiles}
InSession(p) == proc[p].pc \in {"using", "pin_lock", "pinning", "checkpoint"}

\* The shape of the files and of what the processes hold.
TypeOK ==
  /\ vault.version \in {"v2", "pre", "audit"} /\ DOMAIN vault.profiles \subseteq Names
  /\ \A q \in Profiles : /\ q.pkg.seed \in Seeds /\ q.pkg.init \in BOOLEAN
                         /\ q.creds \in Creds /\ q.pass \in Passphrases \cup {Generated}
  /\ writer \in Procs \cup {Nobody}
  /\ \A p \in Procs : DOMAIN proc[p].leases \subseteq Names

\* A session works on what it decrypted when it was opened: as long as its
\* lease lasts the vault keeps that profile, in that generation, with that
\* endpoint, and no pin but the one the session was given or has seen
\* (connect_unlocked_session and the per-profile daemon never read it again).
SnapshotsStayTrue ==
  \A p \in Procs : InSession(p) =>
    /\ proc[p].name \in DOMAIN vault.profiles
    /\ identity(Profile(p)) = proc[p].expected
    /\ Profile(p).creds.endpoint = proc[p].creds.endpoint
    /\ proc[p].creds.pin # NoPin => Profile(p).creds.pin = proc[p].creds.pin

\* The audit history of a profile has no gap and no fork, whatever crashed on
\* the way.  A profile marked initialized has a ledger under its current name and
\* key with a first record that a checkpoint covers; and when it has had an
\* earlier generation, that ledger was complete, nothing in it lies beyond its
\* last checkpoint, and the first record names exactly that checkpoint
\* (initialize_generation, mutate_vault).
GenerationsLinked ==
  \A n \in DOMAIN vault.profiles :
    LET pkg == vault.profiles[n].pkg
        ledger == ledgers[LedgerOf(pkg)]
        prev == <<pkg.id, pkg.gen - 1>>
    IN pkg.init =>
         /\ Exists(pkg) /\ ledger.key = LedgerKey(n, pkg) /\ ledger.origin.new = n
         /\ ledger.checkpoint \in 1..ledger.records
         /\ IF prev \in DOMAIN ledgers
            THEN /\ ~ledgers[prev].torn /\ ledgers[prev].pending = 0
                 /\ ledger.origin.prev = ledgers[prev].checkpoint
                 /\ ledgers[prev].checkpoint = ledgers[prev].records
            ELSE ledger.origin.prev = 0

\* Whatever fails or is killed, no secret in force is lost (a ledger that does not
\* verify locks its profile all the same): the recovery medium of the
\* configuration in force was written before it, every profile's recovery copy is
\* sealed for that configuration and holds the current package, and a generated
\* passphrase in force is on disk (rotate_recovery, wrap_profile_v3,
\* commit_generated_profile_passphrase).
SecretsKept ==
  /\ vault.recovery # 0 => vault.recovery \in saved.media /\ vault.admin.config = vault.recovery
  /\ \A q \in Profiles : /\ Modern(vault) => q.envelope = [config |-> vault.recovery, pkg |-> q.pkg]
                         /\ q.pass = Generated => Generated \in saved.passphrases

\* The three promises of the vault's files hold together.
VaultIsSound == SnapshotsStayTrue /\ GenerationsLinked /\ SecretsKept

\* A profile's identity goes on or ends, it never returns to an earlier
\* generation, and its pin changes only together with the endpoint or from none.
PinsKept ==
  [][\A n \in DOMAIN vault.profiles, m \in DOMAIN vault'.profiles :
       LET old == vault.profiles[n]
           new == vault'.profiles[m]
       IN old.pkg.id = new.pkg.id =>
            /\ new.pkg.gen \in {old.pkg.gen, old.pkg.gen + 1}
            /\ \/ old.creds.pin \in {NoPin, new.creds.pin}
               \/ old.creds.endpoint # new.creds.endpoint]_vars
=============================================================================
