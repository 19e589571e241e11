-------------------------- MODULE TransferRegistry --------------------------
(***************************************************************************)
(* The daemon's registry of transfers (`TransferRegistry' of daemon.rs):   *)
(* one table under one mutex, so every call is one step.  A record is      *)
(* active until `finish' stamps it with a completion order; active and     *)
(* finished records are capped per owner and globally, and finished ones   *)
(* are dropped once they are fifteen minutes old.                          *)
(*                                                                         *)
(* The specification lets any caller make any call at any time.            *)
(***************************************************************************)
EXTENDS Integers, FiniteSets

CONSTANTS
  Ids,             \* transfer ids; the caller chooses them
  Owners,          \* `transfer_owner_key': profile id and generation
  Servers,         \* requests; a request's name is its operation context
  Nothing,         \* no record, or no operation context
  Size,            \* bytes of a transfer, in chunks
  ActivePerOwner,  \* MAX_ACTIVE_TRANSFERS_PER_PROFILE
  ActiveGlobal,    \* MAX_ACTIVE_TRANSFERS_GLOBAL
  DonePerOwner,    \* MAX_COMPLETED_TRANSFERS_PER_PROFILE
  DoneGlobal       \* MAX_COMPLETED_TRANSFERS_GLOBAL

VARIABLES
  records,  \* the table
  order     \* next_finished_order

registryVars == <<records, order>>

Stages ==
  {"negotiating", "transferring", "verifying", "committing", "stalled",
   "completed", "failed", "cancelled"}

Events ==
  {"progress", "stalled", "cancel_requested", "completed", "failed",
   "cancelled", "outcome_unknown"}

Progress ==
  [stage: Stages, event: Events, confirmed: 0..Size,
   context: Servers \cup {Nothing}]

Record ==
  [owner: Owners,
   by: Servers,                       \* whose cancellation handle it holds
   progress: Progress,
   revision: Nat,
   done: Nat,                         \* completion order + 1, 0 while active
   old: {"yes", "no"},                \* finished more than the retention ago
   discovered: {"yes", "no"}]

ASSUME RegistryAssumption ==
  /\ IsFiniteSet(Ids)
  /\ Nothing \notin Record \cup Servers \cup Ids
  /\ Size \in Nat
  /\ ActivePerOwner \in Nat /\ ActiveGlobal \in Nat
  /\ DonePerOwner \in Nat \ {0} /\ DoneGlobal \in Nat \ {0}

RegistryTypeOK ==
  /\ records \in [Ids -> Record \cup {Nothing}]
  /\ order \in Nat

-----------------------------------------------------------------------------
Active(r) == {i \in Ids : r[i] # Nothing /\ r[i].done = 0}
Done(r) == {i \in Ids : r[i] # Nothing /\ r[i].done > 0}
Of(r, o, S) == {i \in S : r[i].owner = o}

Without(r, S) == [i \in Ids |-> IF i \in S THEN Nothing ELSE r[i]]

\* Every call but `update' and `cancel' first drops what is past retention.
Pruned(r) == Without(r, {i \in Done(r) : r[i].old = "yes"})

\* The `cap' most recently finished records of S.
Newest(r, S, cap) ==
  {i \in S : Cardinality({j \in S : r[j].done >= r[i].done}) <= cap}

Capped(r, o) ==
  LET mine == Of(r, o, Done(r))
      own == Without(r, mine \ Newest(r, mine, DonePerOwner))
  IN  Without(own, Done(own) \ Newest(own, Done(own), DoneGlobal))

\* Mutant of HasRoom: off by one.
HasRoomForOneMore(r, o) ==
  /\ Cardinality(Active(r)) < ActiveGlobal
  /\ Cardinality(Of(r, o, Active(r))) <= ActivePerOwner

HasRoom(r, o) ==
  /\ Cardinality(Active(r)) < ActiveGlobal
  /\ Cardinality(Of(r, o, Active(r))) < ActivePerOwner

\* `replace_progress' accepts progress p from owner o.
Accepts(record, o, p) ==
  /\ record # Nothing
  /\ record.owner = o
  /\ p.confirmed >= record.progress.confirmed
  /\ p.context = record.progress.context

Replaced(record, p) ==
  [record EXCEPT !.progress = p, !.revision = @ + 1]

Fresh(o, s, p) ==
  [owner |-> o, by |-> s, progress |-> p,
   revision |-> IF p.context = Nothing THEN 0 ELSE 1,
   done |-> 0, old |-> "no", discovered |-> "no"]

-----------------------------------------------------------------------------
MayBegin(i, o) == HasRoom(Pruned(records), o) /\ Pruned(records)[i] = Nothing

RegistryBegin(i, o, s, p) ==
  /\ MayBegin(i, o)
  /\ records' = [Pruned(records) EXCEPT ![i] = Fresh(o, s, p)]
  /\ UNCHANGED order

\* A refused `begin', and a status request, still prune.
RegistryPrune == records' = Pruned(records) /\ UNCHANGED order

RegistryUpdate(i, o, p) ==
  /\ Accepts(records[i], o, p)
  /\ records' = [records EXCEPT ![i] = Replaced(@, p)]
  /\ UNCHANGED order

MayFinish(i, o, p) == Accepts(Pruned(records)[i], o, p)

\* The completion order is taken before the record is looked up.
RegistryFinish(i, o, p) ==
  LET r == Pruned(records)
      stamped == [Replaced(r[i], p) EXCEPT !.done = order + 1, !.old = "no"]
  IN  /\ order' = order + 1
      /\ records' = IF Accepts(r[i], o, p)
                    THEN Capped([r EXCEPT ![i] = stamped], o) ELSE r

MayCancel(i, o, ctx) ==
  /\ records[i] # Nothing
  /\ records[i].owner = o
  /\ ctx # Nothing => records[i].progress.context = ctx
  /\ records[i].done = 0

\* Mutant of RegistryCancel: the request is not a revision.
RegistryCancelUnrevised(i, o, ctx) ==
  /\ MayCancel(i, o, ctx)
  /\ records' = [records EXCEPT ![i].progress.event = "cancel_requested"]
  /\ UNCHANGED order

RegistryCancel(i, o, ctx) ==
  /\ MayCancel(i, o, ctx)
  /\ records' = [records EXCEPT ![i].revision = @ + 1,
                                ![i].progress.event = "cancel_requested"]
  /\ UNCHANGED order

\* The part of `snapshots' that changes the table: S is shown for the first
\* time to a caller that did not present a context.
RegistryDiscover(S) ==
  /\ records' = [i \in Ids |-> IF i \in S /\ Pruned(records)[i] # Nothing
                               THEN [Pruned(records)[i] EXCEPT !.discovered = "yes"]
                               ELSE Pruned(records)[i]]
  /\ UNCHANGED order

\* Fifteen minutes pass for the records that finished first.
RegistryAge(n) ==
  /\ records' = [i \in Ids |-> IF i \in Done(records) /\ records[i].done <= n
                               THEN [records[i] EXCEPT !.old = "yes"]
                               ELSE records[i]]
  /\ UNCHANGED order

RegistryInit == records = [i \in Ids |-> Nothing] /\ order = 0

RegistryNext ==
  \/ \E i \in Ids, o \in Owners, s \in Servers, p \in Progress :
       RegistryBegin(i, o, s, p)
  \/ \E i \in Ids, o \in Owners, p \in Progress :
       RegistryUpdate(i, o, p) \/ RegistryFinish(i, o, p)
  \/ \E i \in Ids, o \in Owners, ctx \in Servers \cup {Nothing} :
       RegistryCancel(i, o, ctx)
  \/ \E S \in SUBSET Ids : RegistryDiscover(S)
  \/ \E n \in 1..order : RegistryAge(n)
  \/ RegistryPrune

RegistrySpec == RegistryInit /\ [][RegistryNext]_registryVars

-----------------------------------------------------------------------------
\* No interleaving of requests holds more active or more finished records
\* than the limits of daemon.rs allow, for one owner or in total.
CapsHold ==
  /\ Cardinality(Active(records)) <= ActiveGlobal
  /\ Cardinality(Done(records)) <= DoneGlobal
  /\ \A o \in Owners :
       /\ Cardinality(Of(records, o, Active(records))) <= ActivePerOwner
       /\ Cardinality(Of(records, o, Done(records))) <= DonePerOwner

\* Two finished records never share a completion order, so "the oldest" that
\* `remove_oldest_finished_locked' evicts is one definite record.
OrdersDistinct ==
  /\ \A i \in Done(records) : records[i].done <= order
  /\ \A i, j \in Done(records) : records[i].done = records[j].done => i = j

\* Eviction never reaches an active record, nor a finished record that is
\* newer than one it leaves behind for the same owner.
EvictsOldestFirst ==
  [][\A i \in Ids :
       records[i] # Nothing /\ records'[i] = Nothing =>
         /\ i \in Done(records)
         /\ \A j \in Done(records') :
              records[i].old = "no" /\ records'[j].owner = records[i].owner =>
                records'[j].done > records[i].done]_registryVars

\* What a status caller sees of one registration never goes back: every change
\* raises the revision, the confirmed count does not fall, the owner and the
\* operation context do not change, and a finished record stays finished.
RegistrationMonotone ==
  [][\A i \in Ids :
       LET old == records[i]
           new == records'[i]
       IN  old # Nothing /\ new # Nothing /\ old.by = new.by =>
             /\ new.progress # old.progress => new.revision > old.revision
             /\ new.revision >= old.revision
             /\ new.progress.confirmed >= old.progress.confirmed
             /\ new.owner = old.owner
             /\ new.progress.context = old.progress.context
             /\ old.done > 0 => new.done >= old.done
             /\ old.discovered = "yes" => new.discovered = "yes"]_registryVars

\* A record goes forward until it is the oldest one to be forgotten.
RecordsGoForward == RegistrationMonotone /\ EvictsOldestFirst
=============================================================================
