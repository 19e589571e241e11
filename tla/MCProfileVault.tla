--------------------------- MODULE MCProfileVault ---------------------------
EXTENDS ProfileVault

MCCommands == {"use", "daemon", "shutdown", "create", "update", "rename", "remove",
               "passphrase", "reset", "recover", "resolve", "initialize", "admin", "rotate",
               "migrate"}

ProcSymmetry == Permutations(Procs)

MCWanted == {[endpoint |-> "e1", pin |-> NoPin], [endpoint |-> "e1", pin |-> "k2"],
             [endpoint |-> "e2", pin |-> NoPin]}

Stored(format, pkg, config, pin) ==
  [format |-> format, pkg |-> pkg, pass |-> "p", creds |-> [endpoint |-> "e1", pin |-> pin],
   envelope |-> [config |-> config, pkg |-> pkg]]
Package(id, gen, seed, init) == [id |-> id, gen |-> gen, seed |-> seed, init |-> init]
Seedless == Package(1, 3, "none", FALSE)
Current == Package(1, 1, "random", TRUE)
LedgerWith(records, checkpoint, pending, key, origin) ==
  [records |-> records, checkpoint |-> checkpoint, pending |-> pending, torn |-> FALSE, key |-> key,
   origin |-> origin]

Begun(version, config, profiles, ledgerOf) ==
  [vault |-> [version |-> version, recovery |-> config, profiles |-> profiles,
              admin |-> [pass |-> IF config = 0 THEN "none" ELSE "a", config |-> config]],
   ledgers |-> ledgerOf,
   saved |-> [media |-> {config} \ {0}, passphrases |-> {}]]
InUse(pin, ledgerOf) == Begun("audit", 1, 1 :> Stored("audit", Current, 1, pin), ledgerOf)
First(records, pending) ==
  <<1, 1>> :> LedgerWith(records, records, pending, LedgerKey(1, Current), Genesis(1))

MCStarts ==
  {\* a new installation
   Begun("audit", 0, <<>>, <<>>),
   \* a vault with one master passphrase for all profiles
   Begun("v2", 0, 1 :> Stored("v2", Seedless, 0, NoPin), <<>>),
   \* a vault of the release before audits
   Begun("pre", 1, 1 :> Stored("envelope", Seedless, 1, NoPin), <<>>),
   \* a profile created and never opened, next to one in use
   Begun("audit", 1, 1 :> Stored("audit", Current, 1, "k1")
                     @@ 2 :> Stored("audit", Package(2, 1, "random", FALSE), 1, NoPin), First(1, 0)),
   \* a profile in use; one whose daemon died with an Intent open
   InUse(NoPin, First(1, 0)),
   InUse("k1", First(2, 1))}

\* Three commands on one profile, two while there are two.  On a profile whose
\* audit key comes from an earlier release, the third runs on its own.
Chosen ==
  /\ Cardinality(DOMAIN vault.profiles) = 2 => commands <= 2
  /\ commands = 3 /\ (\E n \in DOMAIN vault.profiles : vault.profiles[n].pkg.seed # "random")
       => Cardinality({p \in Procs : ~At(p, "idle")}) <= 1
MCSpec == Init /\ [][Next /\ Chosen']_vars
=============================================================================
