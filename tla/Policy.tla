------------------------------- MODULE Policy -------------------------------
(***************************************************************************)
(* The policy compiler and the decision it takes about one typed intent.    *)
(*                                                                          *)
(* A document chooses a base template and narrows it; compile_policy either *)
(* refuses the document or returns the policy proper (the IR), whose digest *)
(* is ideal: it is the IR.  evaluate_intent decides an intent against it.   *)
(* A refusal is the value Denied; which reason code it carries is left out. *)
(*                                                                          *)
(* Spellings: a program identifier is [id, upper, exe], its letters, whether *)
(* some are capitals and how often ".exe" ends it; a path is [flavor,       *)
(* absolute, ambiguous, parts]; "odd" is any text with a control character, *)
(* a byte outside its alphabet, or too long.                                *)
(***************************************************************************)
EXTENDS Naturals, Sequences, SequencesExt, FiniteSets

CONSTANTS
  Denied,       \* a refusal, whatever its reason code
  Inherit,      \* a selection or a limit the document leaves to its base
  Ceilings      \* the limits of the three base templates, in the model's units

Limits == {"deadline", "bytes", "output", "parallel", "operations"}
Bases == {"Green", "Yellow", "Red"}

ASSUME CeilingsAssumption == Ceilings \in [Bases -> [Limits -> Nat \ {0}]]

-----------------------------------------------------------------------------
(* The immutable ceilings of a base template.                               *)

template_capabilities(base) ==
  IF base = "Red" THEN {"ProcessInspect", "ProcessRun"} ELSE {"ProcessInspect"}

\* An identity is [kind, is]: a UID or a user name.
InsideCeiling(base, id) ==
  IF base = "Red" THEN id.kind = "uid" ELSE id.kind = "user" /\ id.is = "nobody"

\* Empty for every base, so that no intent with a path is ever allowed.
template_allowed_paths(base) == {}

capability_uses_path(c) ==
  c \in {"FsList", "FsRead", "FsWriteNew", "TransferRead", "TransferWrite"}

template_programs(base) ==
  IF base = "Red" THEN {"id", "true", "uname", "uptime", "whoami"} \X {0} ELSE {}

template_env_keys(base) == IF base = "Red" THEN {"LANG", "LC_ALL", "TZ"} ELSE {}

template_limits(base) == Ceilings[base]

-----------------------------------------------------------------------------
(* Normalisation and the denials no document can lift.                      *)

\* UID 0, "root" in any case and a number that parses to 0 are one identity.
validate_run_as(id) ==
  IF id.is \in {"0", "000", "root", "ROOT", "odd"} THEN Denied ELSE id

is_command_interpreter(p) ==
  p[2] = 0 /\ p[1] \in {"sh", "bash", "zsh", "cmd", "powershell", "python3", "perl", "node"}

is_dangerous_program(p) ==
  p[1] = "mkfs." \/ (p[2] = 0 /\ p[1] \in {"rm", "dd", "mkfs", "chmod", "mount", "sudo", "reg"})

\* Lower case, and one ".exe" less.
normalize_program_identifier(raw) ==
  IF raw.id = "odd" THEN Denied
  ELSE <<raw.id, IF raw.exe = 0 THEN 0 ELSE raw.exe - 1>>

validate_program_invariant(p) == ~is_command_interpreter(p) /\ ~is_dangerous_program(p)

is_dangerous_env_key(key) ==
  key \in {"PATH", "IFS", "ENV", "BASH_ENV", "SHELLOPTS", "PYTHONPATH", "LD_", "DYLD_"}

normalize_env_key(key) == IF key = "odd" \/ is_dangerous_env_key(key) THEN Denied ELSE key

\* An argument is a word and whether some of its letters are capitals, which
\* to_ascii_lowercase takes away before the words are compared.
is_shell_command_flag(argument) ==
  argument.word \in {"-c", "/c", "--command", "-command", "-encodedcommand"}

\* Empty components go, dot components refuse; on Windows the drive is the first
\* part, and a reserved or ambiguous component refuses too.
Components(path) == SelectSeq(path.parts, LAMBDA c : c # "")

normalize_posix_path(path) ==
  IF ~path.absolute \/ ToSet(path.parts) \cap {".", ".."} # {} THEN Denied ELSE Components(path)

normalize_windows_path(path) ==
  IF ~path.absolute \/ ToSet(path.parts) \cap {".", "..", "CON", "COM1", "x."} # {}
  THEN Denied ELSE Components(path)

normalize_path(path) ==
  LET parts == IF path.flavor = "Posix" THEN normalize_posix_path(path)
               ELSE normalize_windows_path(path) IN
  IF path.ambiguous \/ parts = Denied THEN Denied
  ELSE [flavor |-> path.flavor, parts |-> parts]

path_prefix_matches(prefix, path) ==
  prefix.flavor = path.flavor /\ IsPrefix(prefix.parts, path.parts)

-----------------------------------------------------------------------------
(* The compiler: every selection is a subset of what the base grants.       *)

Each(f(_), selected) == {f(x) : x \in selected}
Narrowed(chosen, inherited) ==
  IF chosen \subseteq inherited THEN chosen ELSE Denied

compile_identity_selection(base, selected) ==
  IF \A id \in selected : validate_run_as(id) # Denied /\ InsideCeiling(base, id)
  THEN selected ELSE Denied

\* Nonzero, and never above the base's.
narrow_limit(selected, inherited) ==
  CASE selected = Inherit -> inherited
    [] selected # Inherit /\ selected \in 1..inherited -> selected
    [] OTHER -> Denied

compile_limits(base, overlay) ==
  [l \in Limits |-> narrow_limit(overlay[l], template_limits(base)[l])]

compile_program_selection(selected, inherited) ==
  IF selected = Inherit THEN inherited
  ELSE LET programs == Each(normalize_program_identifier, selected) IN
       IF \A p \in programs : p # Denied /\ validate_program_invariant(p)
       THEN Narrowed(programs, inherited) ELSE Denied

compile_env_selection(selected, inherited) ==
  IF selected = Inherit THEN inherited
  ELSE Narrowed(Each(normalize_env_key, selected), inherited)

\* What the deny rules of one kind name; Denied among them refuses the document.
Rules(document, kind) == {r.is : r \in {d \in document.deny : d.kind = kind}}

\* Mutant: a program is denied under the spelling the rule uses.
DeniedAsSpelled(document) ==
  {<<r.id, r.exe>> : r \in Rules(document, "program")}

DeniedPrograms(document) == Each(normalize_program_identifier, Rules(document, "program"))
DeniedPaths(document) == Each(normalize_path, Rules(document, "path"))

\* Deny rules come last: they take away from what the selections left.
compile_policy(document) ==
  LET base == document.base
      inherited == template_capabilities(base)
      selected == IF document.capabilities = Inherit THEN inherited
                  ELSE Narrowed(document.capabilities, inherited)
      runAs == compile_identity_selection(base, document.run_as)
      limits == compile_limits(base, document.limits)
      programs == compile_program_selection(document.programs, template_programs(base))
      keys == compile_env_selection(document.env_keys, template_env_keys(base))
      capabilities == selected \ Rules(document, "capability")
      runs == "ProcessRun" \in capabilities IN
  IF \/ document.schema_version # 1 \/ document.run_as = {}
     \/ selected = Denied \/ runAs = Denied \/ programs = Denied \/ keys = Denied
     \/ \E l \in Limits : limits[l] = Denied
     \/ Denied \in DeniedPrograms(document) \/ Denied \in DeniedPaths(document)
     \/ /\ \E c \in capabilities : capability_uses_path(c)
        /\ template_allowed_paths(base) = {}
  THEN Denied
  ELSE [base |-> base, capabilities |-> capabilities, run_as |-> runAs, limits |-> limits,
        programs |-> IF runs THEN programs \ DeniedPrograms(document) ELSE {},
        env_keys |-> IF runs THEN keys ELSE {},
        allowed |-> template_allowed_paths(base), denied |-> DeniedPaths(document)]

-----------------------------------------------------------------------------
(* The decision.                                                            *)

validate_intent_identity(id) == validate_run_as(id) # Denied

\* Lengths are abstracted into "odd"; what is left is what an argument may not be.
validate_intent_collections(intent) ==
  \A i \in DOMAIN intent.argv :
    intent.argv[i].word # "odd" /\ ~is_shell_command_flag(intent.argv[i])

validate_intent_shape(intent) ==
  CASE capability_uses_path(intent.capability) ->
         /\ intent.program = {} /\ intent.argv = <<>> /\ intent.env = <<>>
         /\ Cardinality(intent.paths) = 1
    [] intent.capability = "ProcessInspect" ->
         /\ intent.program = {} /\ intent.argv = <<>> /\ intent.env = <<>> /\ intent.paths = {}
    [] OTHER -> intent.program # {} /\ Cardinality(intent.paths) <= 1

validate_intent_deadline_and_budget(limits, intent) ==
  /\ intent.deadline # 0 /\ intent.deadline <= limits["deadline"]
  /\ intent.budget["parallel"] # 0 /\ intent.budget["operations"] # 0
  /\ \A l \in Limits \ {"deadline"} : intent.budget[l] <= limits[l]

\* An intent's program and paths are sets of at most one element, its environment
\* the sequence of its keys; a key that comes twice is refused.
evaluate_intent(ir, intent) ==
  LET programs == Each(normalize_program_identifier, intent.program)
      keys == Each(normalize_env_key, ToSet(intent.env))
      paths == Each(normalize_path, intent.paths) IN
  /\ validate_intent_identity(intent.run_as)
  /\ validate_intent_collections(intent)
  /\ \A p \in programs : p # Denied /\ validate_program_invariant(p)
  /\ Denied \notin keys /\ IsInjective(intent.env)
  /\ Denied \notin paths
  /\ validate_intent_shape(intent)
  /\ intent.capability \in ir.capabilities
  /\ intent.run_as \in ir.run_as
  /\ validate_intent_deadline_and_budget(ir.limits, intent)
  /\ programs \subseteq ir.programs
  /\ keys \subseteq ir.env_keys
  /\ \A path \in paths :
       /\ \E prefix \in ir.allowed : path_prefix_matches(prefix, path)
       /\ ~\E prefix \in ir.denied : path_prefix_matches(prefix, path)
=============================================================================
