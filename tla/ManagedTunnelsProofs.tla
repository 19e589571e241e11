------------------------- MODULE ManagedTunnelsProofs -------------------------
(***************************************************************************)
(* What the registry of managed tunnels, the handlers, workers and callers *)
(* of ManagedTunnels keep true, for any number of tunnels, owners and      *)
(* callers, any caps and any set of faults.                                *)
(*                                                                         *)
(* The registry's part is counting, as for transfers: what is left of the  *)
(* finished records is no more than the cap.  The tunnels' part is Placed: *)
(* at every moment exactly one of the handler, the worker and nobody is    *)
(* responsible for a tunnel, and nobody only for one that is cancelled.    *)
(***************************************************************************)
EXTENDS ManagedTunnels, FiniteSetTheorems, TLAPS

USE DEF registry, tunnelVars

\* SMT first, Z3 by its own name next, then Zenon, for every leaf that names no prover.
USE SMTT(60), Z3T(60), ZenonT(60)

Table == [Tunnels -> [stage : {"absent"} \cup Active \cup Terminal, revision : Nat,
                      finished : Nat, discovered : BOOLEAN]]

\* A record has a completion order exactly when it is finished, none is in the
\* future, and no two records share one.
Orderly(r, n) ==
  \A t \in Tunnels :
    /\ r[t].finished <= n
    /\ r[t].stage \in Terminal <=> r[t].finished > 0
    /\ \A u \in Tunnels : r[t].finished > 0 /\ r[t].finished = r[u].finished => t = u

Within(r) ==
  /\ Count(r, Active, Owners) <= ActiveGlobal
  /\ Count(r, Terminal, Owners) <= FinishedGlobal
  /\ \A o \in Owners :
       /\ Count(r, Active, {o}) <= ActivePerOwner
       /\ Count(r, Terminal, {o}) <= FinishedPerOwner

\* From table r to table q a record only moves forward.
Forward(r, q) ==
  \A t \in Tunnels : r[t].stage # "absent" /\ q[t].stage # "absent" =>
    /\ Rank(r[t].stage) <= Rank(q[t].stage)
    /\ r[t].stage \in Terminal => q[t] = [r[t] EXCEPT !.discovered = q[t].discovered]
    /\ r[t].stage # q[t].stage /\ t \in Contexts => q[t].revision > r[t].revision
    /\ r[t].discovered => q[t].discovered

\* The worker of a registered tunnel waits for it, and a tunnel that runs
\* uncancelled is held by its handler or by its worker.
Placed(t) ==
  /\ worker[t] # "none" => handler[t] = "done" /\ t \in managed
  /\ records[t].stage # "absent" => worker[t] # "none"
  /\ records[t].stage \in Active => worker[t] = "wait"
  /\ records[t].stage = "Cancelling" => t \in cancelled
  /\ records[t].stage = "Closed" => phase[t] = "ok"
  /\ phase[t] = "running" /\ t \notin cancelled =>
       \/ handler[t] \in {"started", "serving"}
       \/ records[t].stage = "Ready" /\ worker[t] = "wait"

\* A caller that waits has had its tunnel cancelled, and what it answers is
\* final.
Informed(k) ==
  /\ caller[k].pc \in {"arm", "look", "wait", "final", "fail"} =>
       caller[k].tunnel \in Tunnels /\ caller[k].tunnel \in cancelled
  /\ caller[k].pc \in {"arm", "look", "wait", "final"} => worker[caller[k].tunnel] # "none"
  /\ caller[k].pc = "final" => records[caller[k].tunnel].stage \notin Active
  /\ caller[k].pc = "done" /\ k # Main => caller[k].answer \notin Active
  /\ caller[k].answer = "Closed" => caller[k].tunnel \in Tunnels /\ phase[caller[k].tunnel] = "ok"

ManagedInv ==
  /\ TypeOK
  /\ Orderly(records, order)
  /\ CapsHold
  /\ todo \subseteq cancelled
  /\ \A t \in Tunnels : Placed(t)
  /\ \A k \in Callers \cup {Main} : Informed(k)

-----------------------------------------------------------------------------
(* Counting.                                                               *)

Members(r, stages, owners) == {t \in Tunnels : r[t].stage \in stages /\ Owner[t] \in owners}

LEMMA Counted ==
  ASSUME NEW r, NEW stages, NEW owners
  PROVE  /\ Count(r, stages, owners) = Cardinality(Members(r, stages, owners))
         /\ Members(r, stages, owners) \in SUBSET Tunnels
  BY DEF Count, Members

\* Sets of tunnels are finite: their cardinalities are numbers, and grow with
\* them.
LEMMA Counts ==
  ASSUME NEW T \in SUBSET Tunnels, NEW S \in SUBSET T
  PROVE  /\ IsFiniteSet(T) /\ Cardinality(T) \in Nat /\ Cardinality(S) \in Nat
         /\ Cardinality(S) <= Cardinality(T)
         /\ Cardinality(S) = Cardinality(T) => S = T
  <1>1. IsFiniteSet(Tunnels)
    BY ManagedAssumption
  <1>2. IsFiniteSet(T) /\ S \in SUBSET T
    BY <1>1, FS_Subset
  <1>3. IsFiniteSet(S) /\ Cardinality(S) <= Cardinality(T) /\ (Cardinality(S) = Cardinality(T) => S = T)
    BY <1>2, FS_Subset
  <1> QED
    BY <1>2, <1>3, FS_CardinalityType

\* One more tunnel is at most one more.
LEMMA OneMore ==
  ASSUME NEW T \in SUBSET Tunnels, NEW t \in Tunnels, NEW S \in SUBSET (T \cup {t}), NEW cap \in Nat,
         Cardinality(T) < cap
  PROVE  Cardinality(S) <= cap
  <1>1. IsFiniteSet(T) /\ Cardinality(T) \in Nat
    BY Counts
  <1>2. T \cup {t} \in SUBSET Tunnels
    OBVIOUS
  <1>3. Cardinality(S) <= Cardinality(T \cup {t}) /\ Cardinality(S) \in Nat /\ Cardinality(T \cup {t}) \in Nat
    BY <1>2, Counts
  <1>4. Cardinality(T \cup {t}) = IF t \in T THEN Cardinality(T) ELSE Cardinality(T) + 1
    BY <1>1, FS_AddElement, ZenonT(60)
  <1> QED
    BY <1>1, <1>3, <1>4

LEMMA CapsAreNumbers ==
  /\ ActivePerOwner \in Nat /\ ActiveGlobal \in Nat /\ FinishedPerOwner \in Nat
  /\ FinishedGlobal \in Nat /\ Slots \in Nat
  BY ManagedAssumption

\* The finished records of these owners that finished after t.
After(r, owners, t) ==
  {u \in Tunnels : r[u].stage \in Terminal /\ Owner[u] \in owners /\ r[u].finished > r[t].finished}

LEMMA TableFacts ==
  ASSUME NEW r \in Table, NEW t \in Tunnels
  PROVE  /\ r[t].finished \in Nat /\ r[t].revision \in Nat /\ r[t].discovered \in BOOLEAN
         /\ r[t].stage \in {"absent", "Ready", "Cancelling", "Closed", "Unknown"}
  BY DEF Table, Active, Terminal

LEMMA LaterIsFewer ==
  ASSUME NEW r \in Table, NEW owners, NEW t \in Tunnels, NEW u \in Members(r, Terminal, owners),
         r[t].finished < r[u].finished
  PROVE  Cardinality(After(r, owners, u)) < Cardinality(After(r, owners, t))
  <1>1. After(r, owners, u) \in SUBSET After(r, owners, t) /\ After(r, owners, t) \in SUBSET Tunnels
    BY TableFacts DEF After, Members
  <1>2. u \in After(r, owners, t) /\ u \notin After(r, owners, u)
    BY TableFacts DEF After, Members
  <1> QED
    BY <1>1, <1>2, Counts

\* `remove_oldest_finished_locked' until the cap leaves no more than the cap: the
\* numbers of records after each of those left are different, and below the
\* cap.
LEMMA NewestWithinCap ==
  ASSUME NEW r \in Table, NEW n \in Nat, Orderly(r, n), NEW owners, NEW cap \in Nat
  PROVE  Count(Newest(r, owners, cap), Terminal, owners) <= cap
  <1> DEFINE N == Members(Newest(r, owners, cap), Terminal, owners)
             f == [t \in N |-> Cardinality(After(r, owners, t))]
             I == 0..(cap - 1)
  <1>1. IsFiniteSet(N) /\ Cardinality(N) \in Nat /\ N \in SUBSET Tunnels
    BY Counted, Counts
  <1>2. IsFiniteSet(I) /\ Cardinality(I) = cap
    BY FS_Interval
  <1>3. ASSUME NEW t \in N PROVE t \in Members(r, Terminal, owners) /\ f[t] \in I
    <2>1. t \in Tunnels /\ Newest(r, owners, cap)[t].stage \in Terminal /\ Owner[t] \in owners
      BY DEF Members
    <2>2. Newest(r, owners, cap)[t] = IF /\ r[t].stage \in Terminal /\ Owner[t] \in owners
                                         /\ cap <= Cardinality(After(r, owners, t))
                                      THEN Nothing ELSE r[t]
      BY <2>1, ZenonT(60) DEF Newest, After
    <2>3. Nothing.stage \notin Terminal
      BY DEF Nothing, Terminal
    <2>4. r[t].stage \in Terminal /\ ~(cap <= Cardinality(After(r, owners, t)))
      BY <2>1, <2>2, <2>3
    <2>5. Cardinality(After(r, owners, t)) \in Nat
      BY Counts DEF After
    <2> QED
      BY <2>1, <2>4, <2>5 DEF Members
  <1>4. f \in [N -> I]
    BY <1>3
  <1>5. SUFFICES ASSUME cap < Cardinality(N) PROVE FALSE
    BY <1>1, Counted
  <1>6. PICK x \in N, y \in N : x # y /\ f[x] = f[y]
    <2> HIDE DEF N, f, I
    <2> QED
      BY <1>1, <1>2, <1>4, <1>5, FS_PigeonHole
  <1>7. /\ x \in Members(r, Terminal, owners) /\ y \in Members(r, Terminal, owners)
        /\ Cardinality(After(r, owners, x)) = Cardinality(After(r, owners, y))
    BY <1>3, <1>6
  <1>8. x \in Tunnels /\ y \in Tunnels /\ r[x].stage \in Terminal /\ r[y].stage \in Terminal
    BY <1>7 DEF Members
  <1>9. r[x].finished < r[y].finished \/ r[y].finished < r[x].finished
    BY <1>6, <1>8, TableFacts DEF Orderly
  <1>10. Cardinality(After(r, owners, x)) \in Nat
    BY Counts DEF After
  <1> QED
    BY <1>7, <1>8, <1>9, <1>10, LaterIsFewer

-----------------------------------------------------------------------------
(* Tables, and what is left of one.                                        *)

\* In q some finished records of r are gone.
Drops(r, q) ==
  /\ q \in Table
  /\ \A t \in Tunnels : q[t] = r[t] \/ (q[t] = Nothing /\ r[t].stage \in Terminal)

LEMMA NothingFacts ==
  /\ Nothing.stage = "absent" /\ Nothing.finished = 0 /\ Nothing.revision = 0 /\ Nothing.discovered = FALSE
  /\ Nothing \in [stage : {"absent"} \cup Active \cup Terminal, revision : Nat, finished : Nat, discovered : BOOLEAN]
  /\ "absent" \notin Active /\ "absent" \notin Terminal
  /\ \A s : s \in Active => s \notin Terminal
  BY DEF Nothing, Active, Terminal

LEMMA DropsMembers ==
  ASSUME NEW r \in Table, NEW q, Drops(r, q), NEW owners
  PROVE  /\ Members(q, Terminal, owners) \in SUBSET Members(r, Terminal, owners)
         /\ Members(q, Active, owners) = Members(r, Active, owners)
         /\ Count(q, Terminal, owners) <= Count(r, Terminal, owners)
         /\ Count(q, Active, owners) = Count(r, Active, owners)
         /\ Count(r, Terminal, owners) \in Nat /\ Count(q, Terminal, owners) \in Nat
  <1>1. Members(q, Terminal, owners) \in SUBSET Members(r, Terminal, owners)
    BY NothingFacts DEF Members, Drops
  <1>2. Members(q, Active, owners) = Members(r, Active, owners)
    BY NothingFacts DEF Members, Drops
  <1> QED
    BY <1>1, <1>2, Counts, Counted

LEMMA DropsOrderly ==
  ASSUME NEW r \in Table, NEW q, Drops(r, q), NEW n \in Nat, Orderly(r, n)
  PROVE  Orderly(q, n)
  <1> SUFFICES ASSUME NEW t \in Tunnels
               PROVE  /\ q[t].finished <= n
                      /\ q[t].stage \in Terminal <=> q[t].finished > 0
                      /\ \A u \in Tunnels : q[t].finished > 0 /\ q[t].finished = q[u].finished => t = u
    BY ZenonT(60) DEF Orderly
  <1>1. CASE q[t] = Nothing
    BY <1>1, NothingFacts
  <1>2. CASE q[t] = r[t]
    <2>1. q[t].finished <= n /\ (q[t].stage \in Terminal <=> q[t].finished > 0)
      BY <1>2 DEF Orderly
    <2>2. ASSUME NEW u \in Tunnels, q[t].finished > 0, q[t].finished = q[u].finished PROVE t = u
      <3>1. q[u] = r[u]
        BY <2>2, NothingFacts DEF Drops
      <3> QED
        BY <1>2, <2>2, <3>1 DEF Orderly
    <2> QED
      BY <2>1, <2>2
  <1> QED
    BY <1>1, <1>2 DEF Drops

\* A record that stays as it is has moved forward.
LEMMA SameForward ==
  ASSUME NEW r \in Table, NEW t \in Tunnels
  PROVE  /\ Rank(r[t].stage) <= Rank(r[t].stage)
         /\ r[t] = [r[t] EXCEPT !.discovered = r[t].discovered]
  <1>1. Rank(r[t].stage) \in {1, 2, 3}
    BY DEF Rank
  <1>2. r[t] = [r[t] EXCEPT !.discovered = r[t].discovered]
    BY DEF Table
  <1> QED
    BY <1>1, <1>2

LEMMA DropsForward ==
  ASSUME NEW r \in Table, NEW q, Drops(r, q)
  PROVE  Forward(r, q)
  <1> SUFFICES ASSUME NEW t \in Tunnels, r[t].stage # "absent", q[t].stage # "absent"
               PROVE  /\ Rank(r[t].stage) <= Rank(q[t].stage)
                      /\ r[t].stage \in Terminal => q[t] = [r[t] EXCEPT !.discovered = q[t].discovered]
                      /\ r[t].stage # q[t].stage /\ t \in Contexts => q[t].revision > r[t].revision
                      /\ r[t].discovered => q[t].discovered
    BY DEF Forward
  <1>1. q[t] = r[t]
    BY NothingFacts DEF Drops
  <1> QED
    BY <1>1, SameForward

LEMMA DropsWithin ==
  ASSUME NEW r \in Table, NEW q, Drops(r, q), Within(r)
  PROVE  Within(q)
  BY DropsMembers, CapsAreNumbers DEF Within

LEMMA PrunedDrops ==
  ASSUME records \in Table, order \in Nat, Orderly(records, order), NEW age \in Ages
  PROVE  Drops(records, Pruned(age))
  <1>1. ASSUME NEW t \in Tunnels
        PROVE  Pruned(age)[t] = records[t] \/ (Pruned(age)[t] = Nothing /\ records[t].stage \in Terminal)
    <2>1. age \in Nat
      BY DEF Ages
    <2>2. records[t].finished \in 1..age => records[t].stage \in Terminal
      BY <2>1, TableFacts DEF Orderly
    <2> QED
      BY <2>2 DEF Pruned
  <1>2. Pruned(age) \in Table
    BY NothingFacts DEF Pruned, Table
  <1> QED
    BY <1>1, <1>2 DEF Drops

LEMMA NewestDrops ==
  ASSUME NEW r \in Table, NEW owners, NEW cap
  PROVE  Drops(r, Newest(r, owners, cap))
  <1>1. Newest(r, owners, cap) \in Table
    BY NothingFacts, ZenonT(60) DEF Newest, Table
  <1> QED
    BY <1>1, ZenonT(60) DEF Drops, Newest

LEMMA DropsTwice ==
  ASSUME NEW r \in Table, NEW q, NEW p, Drops(r, q), Drops(q, p)
  PROVE  Drops(r, p)
  BY NothingFacts DEF Drops

\* `enforce_finished_caps_locked' restores both caps after one owner finished.
LEMMA CapsCall ==
  ASSUME NEW r \in Table, NEW n \in Nat, Orderly(r, n), NEW o \in Owners,
         Count(r, Active, Owners) <= ActiveGlobal,
         \A w \in Owners : Count(r, Active, {w}) <= ActivePerOwner,
         \A w \in Owners : w # o => Count(r, Terminal, {w}) <= FinishedPerOwner
  PROVE  LET q == enforce_finished_caps_locked(r, o)
         IN  Drops(r, q) /\ Within(q) /\ Orderly(q, n)
  <1> DEFINE p == Newest(r, {o}, FinishedPerOwner)
             q == Newest(p, Owners, FinishedGlobal)
  <1>1. Drops(r, p) /\ Count(p, Terminal, {o}) <= FinishedPerOwner
    BY NewestDrops, NewestWithinCap, CapsAreNumbers
  <1> HIDE DEF p
  <1>2. p \in Table /\ Orderly(p, n)
    BY <1>1, DropsOrderly DEF Drops
  <1>3. Drops(p, q) /\ Count(q, Terminal, Owners) <= FinishedGlobal
    BY <1>2, NewestDrops, NewestWithinCap, CapsAreNumbers
  <1>4. q = enforce_finished_caps_locked(r, o)
    BY DEF enforce_finished_caps_locked, p
  <1> HIDE DEF q
  <1>5. Drops(r, q) /\ Orderly(q, n)
    BY <1>1, <1>2, <1>3, DropsTwice, DropsOrderly
  <1>6. ASSUME NEW w \in Owners PROVE Count(q, Terminal, {w}) <= FinishedPerOwner
    <2>1. CASE w = o
      BY <1>1, <1>2, <1>3, <2>1, DropsMembers, CapsAreNumbers
    <2>2. CASE w # o
      BY <1>5, <2>2, DropsMembers, CapsAreNumbers
    <2> QED
      BY <2>1, <2>2
  <1>7. Within(q)
    BY <1>3, <1>5, <1>6, DropsMembers DEF Within
  <1> QED
    BY <1>4, <1>5, <1>7

-----------------------------------------------------------------------------
(* What an action does to the registry.                                    *)

\* From the table r, with n records finished so far, to the table q, with m.
RegistryStep(r, n, q, m) ==
  /\ q \in Table /\ m \in Nat /\ n <= m
  /\ Orderly(q, m) /\ Within(q)
  /\ Forward(r, q)

RegistryGood == records \in Table /\ order \in Nat /\ Orderly(records, order) /\ Within(records)

LEMMA Good ==
  ASSUME ManagedInv
  PROVE  RegistryGood
  BY ZenonT(60) DEF ManagedInv, RegistryGood, TypeOK, Table, CapsHold, Within

LEMMA DropsStep ==
  ASSUME RegistryGood, NEW q, Drops(records, q)
  PROVE  RegistryStep(records, order, q, order)
  <1>1. q \in Table /\ order \in Nat /\ order <= order
    BY DEF Drops, RegistryGood
  <1>2. Orderly(q, order) /\ Within(q) /\ Forward(records, q)
    BY DropsOrderly, DropsWithin, DropsForward DEF RegistryGood
  <1> QED
    BY <1>1, <1>2 DEF RegistryStep

LEMMA PruneStep ==
  ASSUME RegistryGood, NEW age \in Ages
  PROVE  /\ Drops(records, Pruned(age))
         /\ RegistryStep(records, order, Pruned(age), order)
  BY PrunedDrops, DropsStep DEF RegistryGood

LEMMA IdleStep ==
  ASSUME RegistryGood
  PROVE  Drops(records, records) /\ RegistryStep(records, order, records, order)
  <1>1. Drops(records, records)
    BY DEF Drops, RegistryGood
  <1> QED
    BY <1>1, DropsStep

\* The record of t after finish_worker.
Ended(t, stage, q) ==
  /\ q[t].stage \notin Active
  /\ \/ q[t].stage = "absent"
     \/ q[t] = records[t]
     \/ records[t].stage \in Active /\ q[t].stage = stage
  /\ records[t].stage = "absent" => q[t].stage = "absent"

LEMMA RevisedRises ==
  ASSUME NEW r \in Table, NEW t \in Tunnels
  PROVE  /\ Revised(t, r[t]) \in Nat /\ r[t].revision <= Revised(t, r[t])
         /\ t \in Contexts => r[t].revision < Revised(t, r[t])
  BY TableFacts DEF Revised

\* What `finish_worker' writes before it enforces the caps.
FinishedTable(rs, t, stage, n) ==
  [rs EXCEPT ![t].stage = stage, ![t].finished = n, ![t].revision = Revised(t, rs[t])]

LEMMA FinishedEntry ==
  ASSUME NEW rs \in Table, NEW t \in Tunnels, NEW stage \in Terminal, NEW n \in Nat
  PROVE  LET b == FinishedTable(rs, t, stage, n)
         IN  /\ b \in Table
             /\ b[t].stage = stage /\ b[t].finished = n /\ b[t].revision = Revised(t, rs[t])
             /\ b[t].discovered = rs[t].discovered
             /\ \A u \in Tunnels : u # t => b[u] = rs[u]
  <1>1. Revised(t, rs[t]) \in Nat
    BY RevisedRises
  <1> QED
    BY <1>1, ZenonT(60) DEF FinishedTable, Table

LEMMA FinishedOrderly ==
  ASSUME NEW rs \in Table, NEW t \in Tunnels, NEW stage \in Terminal, order \in Nat, Orderly(rs, order)
  PROVE  Orderly(FinishedTable(rs, t, stage, order + 1), order + 1)
  <1> DEFINE b == FinishedTable(rs, t, stage, order + 1)
  <1>1. /\ b \in Table
        /\ b[t].stage = stage /\ b[t].finished = order + 1
        /\ \A u \in Tunnels : u # t => b[u] = rs[u]
    BY FinishedEntry
  <1> HIDE DEF b
  <1>2. \A u \in Tunnels : /\ rs[u].finished \in Nat /\ rs[u].finished <= order
                           /\ rs[u].stage \in Terminal <=> rs[u].finished > 0
    BY TableFacts DEF Orderly
  <1>3. ASSUME NEW u \in Tunnels
        PROVE  b[u].finished <= order + 1 /\ (b[u].stage \in Terminal <=> b[u].finished > 0)
    BY <1>1, <1>2
  <1>4. ASSUME NEW u \in Tunnels, NEW v \in Tunnels, b[u].finished > 0, b[u].finished = b[v].finished PROVE u = v
    <2>1. CASE u # t /\ v # t
      BY <1>1, <1>4, <2>1 DEF Orderly
    <2>2. CASE u = t /\ v # t
      BY <1>1, <1>2, <1>4, <2>2
    <2>3. CASE u # t /\ v = t
      BY <1>1, <1>2, <1>4, <2>3
    <2> QED
      BY <2>1, <2>2, <2>3
  <1>5. Orderly(b, order + 1)
    BY <1>3, <1>4, ZenonT(60) DEF Orderly
  <1> QED
    BY <1>5 DEF b

LEMMA FinishedCounts ==
  ASSUME NEW rs \in Table, NEW t \in Tunnels, NEW stage \in Terminal, NEW n \in Nat,
         Within(rs), rs[t].stage \in Active
  PROVE  LET b == FinishedTable(rs, t, stage, n)
         IN  /\ Count(b, Active, Owners) <= ActiveGlobal
             /\ \A w \in Owners : Count(b, Active, {w}) <= ActivePerOwner
             /\ \A w \in Owners : w # Owner[t] => Count(b, Terminal, {w}) <= FinishedPerOwner
  <1> DEFINE b == FinishedTable(rs, t, stage, n)
  <1>1. b[t].stage = stage /\ (\A u \in Tunnels : u # t => b[u] = rs[u])
    BY FinishedEntry
  <1> HIDE DEF b
  <1>2. ASSUME NEW owners PROVE Count(b, Active, owners) <= Count(rs, Active, owners)
                                /\ Count(b, Active, owners) \in Nat /\ Count(rs, Active, owners) \in Nat
    <2>1. Members(b, Active, owners) \in SUBSET Members(rs, Active, owners)
      BY <1>1, NothingFacts DEF Members
    <2> QED
      BY <2>1, Counted, Counts
  <1>3. ASSUME NEW w \in Owners, w # Owner[t] PROVE Count(b, Terminal, {w}) <= FinishedPerOwner
    <2>1. Members(b, Terminal, {w}) = Members(rs, Terminal, {w})
      BY <1>1, <1>3 DEF Members
    <2>2. Count(b, Terminal, {w}) = Count(rs, Terminal, {w})
      BY <2>1, Counted
    <2> QED
      BY <2>2, ZenonT(60) DEF Within
  <1>4. Count(b, Active, Owners) <= ActiveGlobal
    BY <1>2, CapsAreNumbers DEF Within
  <1>5. ASSUME NEW w \in Owners PROVE Count(b, Active, {w}) <= ActivePerOwner
    BY <1>2, CapsAreNumbers DEF Within
  <1> QED
    BY <1>3, <1>4, <1>5 DEF b

\* An active record that is finished, and the finished records that go, are
\* moves forward.
LEMMA FinishedForward ==
  ASSUME NEW r \in Table, NEW rs, Drops(r, rs), NEW t \in Tunnels, NEW stage \in Terminal, NEW n \in Nat,
         rs[t].stage \in Active, NEW q, Drops(FinishedTable(rs, t, stage, n), q)
  PROVE  /\ Forward(r, q)
         /\ \A u \in Tunnels : u # t => q[u] = r[u] \/ (q[u] = Nothing /\ r[u].stage \in Terminal)
         /\ r[t].stage \in Active
         /\ q[t].stage \in {"absent", stage}
  <1> DEFINE b == FinishedTable(rs, t, stage, n)
  <1>0. rs \in Table
    BY DEF Drops
  <1>1. /\ b \in Table
        /\ b[t].stage = stage /\ b[t].revision = Revised(t, rs[t])
        /\ b[t].discovered = rs[t].discovered
        /\ \A u \in Tunnels : u # t => b[u] = rs[u]
    BY <1>0, FinishedEntry
  <1>2. q \in Table /\ \A u \in Tunnels : q[u] = b[u] \/ (q[u] = Nothing /\ b[u].stage \in Terminal)
    BY DEF Drops
  <1> HIDE DEF b
  <1>3. rs[t] = r[t] /\ r[t].stage \in Active /\ r[t].stage \notin Terminal
    BY NothingFacts DEF Drops
  <1>4. ASSUME NEW u \in Tunnels, u # t
        PROVE  q[u] = r[u] \/ (q[u] = Nothing /\ r[u].stage \in Terminal)
    <2>1. b[u] = rs[u]
      BY <1>1, <1>4
    <2>2. q[u] = rs[u] \/ (q[u] = Nothing /\ rs[u].stage \in Terminal)
      BY <1>2, <2>1
    <2>3. rs[u] = r[u] \/ (rs[u] = Nothing /\ r[u].stage \in Terminal)
      BY DEF Drops
    <2> QED
      BY <2>2, <2>3, NothingFacts
  <1>5. q[t] = b[t] \/ q[t].stage = "absent"
    BY <1>2, NothingFacts
  <1>6. ASSUME NEW u \in Tunnels, r[u].stage # "absent", q[u].stage # "absent"
        PROVE  /\ Rank(r[u].stage) <= Rank(q[u].stage)
               /\ r[u].stage \in Terminal => q[u] = [r[u] EXCEPT !.discovered = q[u].discovered]
               /\ r[u].stage # q[u].stage /\ u \in Contexts => q[u].revision > r[u].revision
               /\ r[u].discovered => q[u].discovered
    <2>1. CASE u # t
      <3>1. q[u] = r[u]
        BY <1>4, <1>6, <2>1, NothingFacts, ZenonT(60)
      <3> QED
        BY <3>1, SameForward
    <2>2. CASE u = t
      <3>1. q[t] = b[t]
        BY <1>5, <1>6, <2>2
      <3>2. Rank(q[t].stage) = 3 /\ Rank(r[t].stage) <= 3
        BY <1>1, <3>1 DEF Rank, Terminal
      <3>3. t \in Contexts => q[t].revision > r[t].revision
        BY <1>1, <1>3, <3>1, RevisedRises, TableFacts, ZenonT(60)
      <3>4. q[t].discovered = r[t].discovered
        BY <1>1, <1>3, <3>1
      <3> QED
        BY <1>3, <2>2, <3>2, <3>3, <3>4
    <2> QED
      BY <2>1, <2>2
  <1>7. Forward(r, q)
    BY <1>6 DEF Forward
  <1> QED
    BY <1>1, <1>3, <1>4, <1>5, <1>7

\* `finish_worker': the record of t is not active afterwards, what was finished
\* stays as it was, and only finished records go.
LEMMA FinishCall ==
  ASSUME RegistryGood, NEW t \in Tunnels, NEW stage \in Terminal, finish_worker(t, stage)
  PROVE  /\ RegistryStep(records, order, records', order')
         /\ notified' = notified \/ (notified' = notified \cup {t} /\ records[t].stage \in Active)
         /\ \A u \in Tunnels : u # t =>
              records'[u] = records[u] \/ (records'[u] = Nothing /\ records[u].stage \in Terminal)
         /\ Ended(t, stage, records')
  <1>1. PICK age \in Ages :
          /\ order' = order + 1
          /\ IF Pruned(age)[t].stage \in Active
             THEN /\ records' = enforce_finished_caps_locked(
                                  FinishedTable(Pruned(age), t, stage, order'), Owner[t])
                  /\ notified' = notified \cup {t}
             ELSE records' = Pruned(age) /\ UNCHANGED notified
    BY ZenonT(60) DEF finish_worker, FinishedTable
  <1>2. Drops(records, Pruned(age)) /\ RegistryStep(records, order, Pruned(age), order)
    BY PruneStep
  <1>3. order \in Nat /\ order' \in Nat /\ order <= order' /\ order' = order + 1 /\ records \in Table
    BY <1>1 DEF RegistryGood
  <1>4. Pruned(age) \in Table /\ Orderly(Pruned(age), order) /\ Within(Pruned(age)) /\ Forward(records, Pruned(age))
    BY <1>2 DEF RegistryStep
  <1>5. \A u \in Tunnels : Pruned(age)[u] = records[u] \/ (Pruned(age)[u] = Nothing /\ records[u].stage \in Terminal)
    BY <1>2, ZenonT(60) DEF Drops
  <1> DEFINE rs == Pruned(age)
             b == FinishedTable(rs, t, stage, order')
  <1> HIDE DEF rs
  <1>6. CASE rs[t].stage \in Active
    <2>1. records' = enforce_finished_caps_locked(b, Owner[t]) /\ notified' = notified \cup {t}
      BY <1>1, <1>6, ZenonT(60) DEF rs
    <2>2. rs \in Table /\ Orderly(rs, order) /\ Within(rs) /\ Drops(records, rs)
      BY <1>2, <1>4 DEF rs
    <2>3. b \in Table /\ Orderly(b, order')
      BY <1>3, <2>2, FinishedEntry, FinishedOrderly, ZenonT(60)
    <2>4. /\ Count(b, Active, Owners) <= ActiveGlobal
          /\ \A w \in Owners : Count(b, Active, {w}) <= ActivePerOwner
          /\ \A w \in Owners : w # Owner[t] => Count(b, Terminal, {w}) <= FinishedPerOwner
      BY <1>3, <1>6, <2>2, FinishedCounts
    <2>5. Owner[t] \in Owners
      BY ManagedAssumption, ZenonT(60)
    <2>6. Drops(b, records') /\ Within(records') /\ Orderly(records', order')
      <3> HIDE DEF b
      <3> QED
        BY <1>3, <2>1, <2>3, <2>4, <2>5, CapsCall, ZenonT(60)
    <2>7. records' \in Table
      BY <2>6 DEF Drops
    <2>8. /\ Forward(records, records')
          /\ \A u \in Tunnels : u # t =>
               records'[u] = records[u] \/ (records'[u] = Nothing /\ records[u].stage \in Terminal)
          /\ records[t].stage \in Active
          /\ records'[t].stage \in {"absent", stage}
      BY <1>3, <1>6, <2>2, <2>6, FinishedForward, ZenonT(60)
    <2>9. Ended(t, stage, records')
      BY <2>8, NothingFacts DEF Ended
    <2> QED
      BY <1>3, <2>1, <2>6, <2>7, <2>8, <2>9, ZenonT(60) DEF RegistryStep
  <1>7. CASE rs[t].stage \notin Active
    <2>1. records' = rs /\ notified' = notified
      BY <1>1, <1>7 DEF rs
    <2>2. rs \in Table /\ Orderly(rs, order) /\ Within(rs) /\ Forward(records, rs)
      BY <1>4, ZenonT(60) DEF rs
    <2>3. Orderly(rs, order')
      BY <1>3, <2>2, TableFacts DEF Orderly
    <2>4. \A u \in Tunnels : records'[u] = records[u] \/ (records'[u] = Nothing /\ records[u].stage \in Terminal)
      BY <1>5, <2>1, ZenonT(60) DEF rs
    <2>5. Ended(t, stage, records')
      BY <1>7, <2>1, <2>4, NothingFacts DEF Ended
    <2> QED
      BY <1>3, <2>1, <2>2, <2>3, <2>4, <2>5, ZenonT(60) DEF RegistryStep
  <1> QED
    BY <1>6, <1>7

-----------------------------------------------------------------------------
(* The steps.  What every one of them has to show.                         *)

Kept == ManagedInv' /\ Forward(records, records')

LEMMA Assemble ==
  ASSUME TypeOK', RegistryStep(records, order, records', order'), Cardinality(Busy') <= Slots,
         todo' \subseteq cancelled', \A t \in Tunnels : Placed(t)', \A k \in Callers \cup {Main} : Informed(k)'
  PROVE  Kept
  <1>1. Orderly(records, order)' /\ Within(records)' /\ Forward(records, records')
    BY DEF RegistryStep
  <1>2. CapsHold'
    BY <1>1, ZenonT(60) DEF CapsHold, Within
  <1> QED
    BY <1>1, <1>2 DEF Kept, ManagedInv

\* Nothing that a caller relies on is taken back: no cancellation, no success,
\* no worker, and no record of a worker becomes active again.
Steady ==
  /\ cancelled \subseteq cancelled'
  /\ \A t \in Tunnels : phase[t] = "ok" => phase'[t] = "ok"
  /\ \A t \in Tunnels : worker[t] # "none" =>
       worker'[t] # "none" /\ (records[t].stage \notin Active => records'[t].stage \notin Active)

LEMMA InformedStays ==
  ASSUME ManagedInv, Steady, NEW k \in Callers \cup {Main}, caller'[k] = caller[k]
  PROVE  Informed(k)'
  <1>1. Informed(k)
    BY DEF ManagedInv
  <1> QED
    BY <1>1 DEF Informed, Steady

\* The stage of a record stays, or the finished record goes.
Stays(t) ==
  \/ records'[t].stage = records[t].stage
  \/ records'[t].stage = "absent" /\ records[t].stage \in Terminal

LEMMA DropsStays ==
  ASSUME Drops(records, records')
  PROVE  \A t \in Tunnels : Stays(t)
  BY NothingFacts DEF Drops, Stays

LEMMA PlacedStays ==
  ASSUME ManagedInv, NEW t \in Tunnels, phase'[t] = phase[t], handler'[t] = handler[t], worker'[t] = worker[t],
         cancelled \subseteq cancelled', managed \subseteq managed', Stays(t)
  PROVE  Placed(t)'
  <1>1. Placed(t)
    BY DEF ManagedInv
  <1>2. CASE records'[t].stage = records[t].stage
    BY <1>1, <1>2, ZenonT(60) DEF Placed
  <1>3. CASE records'[t].stage = "absent" /\ records[t].stage \in Terminal
    <2>1. records[t].stage \notin Active /\ records[t].stage # "Ready"
      BY <1>3 DEF Terminal, Active
    <2>2. records'[t].stage \notin Active /\ records'[t].stage \notin {"Cancelling", "Closed"}
      BY <1>3 DEF Active
    <2> QED
      BY <1>1, <1>3, <2>1, <2>2, ZenonT(60) DEF Placed
  <1> QED
    BY <1>2, <1>3 DEF Stays

LEMMA StaysSteady ==
  ASSUME ManagedInv, \A t \in Tunnels : Stays(t), phase' = phase, worker' = worker, cancelled \subseteq cancelled'
  PROVE  Steady
  BY NothingFacts DEF Steady, Stays

LEMMA BusyShrinks ==
  ASSUME ManagedInv, \A t \in Tunnels : handler'[t] \notin {"idle", "done"} => handler[t] \notin {"idle", "done"}
  PROVE  Cardinality(Busy') <= Slots
  <1>1. Busy' \in SUBSET Busy /\ Busy \in SUBSET Tunnels
    BY DEF Busy
  <1>2. Cardinality(Busy) <= Slots
    BY DEF ManagedInv, CapsHold
  <1> QED
    BY <1>1, <1>2, Counts, CapsAreNumbers

\* The steps of a tunnel, its handler and its deadline that leave the registry
\* and the callers alone.
TunnelMoves(t) ==
  /\ phase' \in [Tunnels -> Phases] /\ cancelled \subseteq cancelled' /\ cancelled' \subseteq Tunnels
  /\ handler' \in [Tunnels -> {"idle", "starting", "started", "serving", "stopping", "done"}]
  /\ phase[t] # "ok" \/ phase'[t] = "ok"
  /\ handler'[t] \notin {"idle", "done"} => handler[t] \notin {"idle", "done"}
  /\ \A u \in Tunnels : u # t => phase'[u] = phase[u] /\ handler'[u] = handler[u]
  /\ UNCHANGED <<records, order, notified, worker, caller, shutdown, todo, managed>>

LEMMA TunnelMove ==
  ASSUME ManagedInv, NEW t \in Tunnels, TunnelMoves(t), Placed(t)'
  PROVE  Kept
  <1>1. RegistryStep(records, order, records', order')
    BY Good, IdleStep DEF TunnelMoves
  <1>2. TypeOK'
    BY DEF TunnelMoves, ManagedInv, TypeOK
  <1>3. Cardinality(Busy') <= Slots
    BY BusyShrinks DEF TunnelMoves
  <1>4. todo' \subseteq cancelled'
    BY DEF TunnelMoves, ManagedInv
  <1>5. ASSUME NEW u \in Tunnels PROVE Placed(u)'
    BY PlacedStays DEF TunnelMoves, Stays
  <1>6. Steady
    BY DEF Steady, TunnelMoves
  <1>7. ASSUME NEW k \in Callers \cup {Main} PROVE Informed(k)'
    BY <1>6, InformedStays DEF TunnelMoves
  <1> QED
    BY <1>1, <1>2, <1>3, <1>4, <1>5, <1>7, Assemble, ZenonT(60)

LEMMA TunnelTypes ==
  ASSUME ManagedInv
  PROVE  /\ phase \in [Tunnels -> Phases] /\ cancelled \subseteq Tunnels
         /\ handler \in [Tunnels -> {"idle", "starting", "started", "serving", "stopping", "done"}]
  BY DEF ManagedInv, TypeOK

LEMMA StartTunnelKeeps ==
  ASSUME ManagedInv, NEW t \in Tunnels, StartTunnel(t)
  PROVE  Kept
  <1>1. Placed(t)
    BY DEF ManagedInv
  <1>2. TunnelMoves(t)
    BY TunnelTypes DEF TunnelMoves, StartTunnel, Open, Refuse, Handle, Phases
  <1>3. Placed(t)'
    BY <1>1, TunnelTypes, ZenonT(60) DEF Placed, StartTunnel, Open, Refuse, Handle, Active
  <1> QED
    BY <1>2, <1>3, TunnelMove

LEMMA AbandonStartKeeps ==
  ASSUME ManagedInv, NEW t \in Tunnels, AbandonStart(t)
  PROVE  Kept
  <1>1. Placed(t)
    BY DEF ManagedInv
  <1>2. TunnelMoves(t)
    BY TunnelTypes DEF TunnelMoves, AbandonStart, Refuse, Handle, Phases
  <1>3. Placed(t)'
    BY <1>1, TunnelTypes, ZenonT(60) DEF Placed, AbandonStart, Refuse, Handle
  <1> QED
    BY <1>2, <1>3, TunnelMove

LEMMA ContextFailsKeeps ==
  ASSUME ManagedInv, NEW t \in Tunnels, ContextFails(t)
  PROVE  Kept
  <1>1. Placed(t)
    BY DEF ManagedInv
  <1>2. TunnelMoves(t)
    BY TunnelTypes DEF TunnelMoves, ContextFails, Cancel, Handle
  <1>3. Placed(t)'
    BY <1>1, TunnelTypes, ZenonT(60) DEF Placed, ContextFails, Cancel, Handle
  <1> QED
    BY <1>2, <1>3, TunnelMove

LEMMA ReportReadyKeeps ==
  ASSUME ManagedInv, NEW t \in Tunnels, ReportReady(t)
  PROVE  Kept
  <1>1. Placed(t)
    BY DEF ManagedInv
  <1>2. TunnelMoves(t)
    BY TunnelTypes DEF TunnelMoves, ReportReady, Cancel, Handle
  <1>3. Placed(t)'
    BY <1>1, TunnelTypes, ZenonT(60) DEF Placed, ReportReady, Cancel, Handle
  <1> QED
    BY <1>2, <1>3, TunnelMove

LEMMA ControlStopsKeeps ==
  ASSUME ManagedInv, NEW t \in Tunnels, ControlStops(t)
  PROVE  Kept
  <1>1. Placed(t)
    BY DEF ManagedInv
  <1>2. TunnelMoves(t)
    BY TunnelTypes DEF TunnelMoves, ControlStops, Cancel, Handle
  <1>3. Placed(t)'
    BY <1>1, TunnelTypes, ZenonT(60) DEF Placed, ControlStops, Cancel, Handle
  <1> QED
    BY <1>2, <1>3, TunnelMove

LEMMA HandlerEndsKeeps ==
  ASSUME ManagedInv, NEW t \in Tunnels, HandlerEnds(t)
  PROVE  Kept
  <1>1. Placed(t)
    BY DEF ManagedInv
  <1>2. TunnelMoves(t)
    BY TunnelTypes DEF TunnelMoves, HandlerEnds, Handle
  <1>3. Placed(t)'
    BY <1>1, TunnelTypes, ZenonT(60) DEF Placed, HandlerEnds, Handle, Over
  <1> QED
    BY <1>2, <1>3, TunnelMove

LEMMA WorkerDeadlineKeeps ==
  ASSUME ManagedInv, NEW t \in Tunnels, WorkerDeadline(t)
  PROVE  Kept
  <1>1. Placed(t)
    BY DEF ManagedInv
  <1>2. TunnelMoves(t)
    BY TunnelTypes DEF TunnelMoves, WorkerDeadline, Cancel
  <1>3. Placed(t)'
    BY <1>1, TunnelTypes, ZenonT(60) DEF Placed, WorkerDeadline, Cancel
  <1> QED
    BY <1>2, <1>3, TunnelMove

LEMMA TunnelFailsKeeps ==
  ASSUME ManagedInv, NEW t \in Tunnels, TunnelFails(t)
  PROVE  Kept
  <1>1. Placed(t)
    BY DEF ManagedInv
  <1>2. TunnelMoves(t)
    BY TunnelTypes DEF TunnelMoves, TunnelFails, Fail, Phases
  <1>3. Placed(t)'
    BY <1>1, TunnelTypes, ZenonT(60) DEF Placed, TunnelFails, Fail
  <1> QED
    BY <1>2, <1>3, TunnelMove

LEMMA TunnelEndsKeeps ==
  ASSUME ManagedInv, NEW t \in Tunnels, TunnelEnds(t)
  PROVE  Kept
  <1>1. Placed(t)
    BY DEF ManagedInv
  <1>2. TunnelMoves(t)
    BY TunnelTypes DEF TunnelMoves, TunnelEnds, End, Phases
  <1>3. Placed(t)'
    BY <1>1, TunnelTypes, ZenonT(60) DEF Placed, TunnelEnds, End
  <1> QED
    BY <1>2, <1>3, TunnelMove

-----------------------------------------------------------------------------
(* The steps that change the registry.                                     *)

CallerRecord ==
  [pc : {"idle", "mark", "next", "arm", "look", "wait", "final", "fail", "done"},
   tunnel : Tunnels \cup {None}, heard : BOOLEAN, answer : {"none", "error"} \cup Active \cup Terminal]

RegistryMoves ==
  /\ RegistryStep(records, order, records', order')
  /\ notified' \subseteq managed /\ todo' \subseteq managed /\ todo' \subseteq cancelled'
  /\ cancelled \subseteq cancelled' /\ cancelled' \subseteq Tunnels
  /\ worker' \in [Tunnels -> {"none", "wait", "over"}]
  /\ caller' \in [Callers \cup {Main} -> CallerRecord]
  /\ UNCHANGED <<phase, handler, shutdown, managed>>

LEMMA RegistryMove ==
  ASSUME ManagedInv, RegistryMoves, \A t \in Tunnels : Placed(t)', \A k \in Callers \cup {Main} : Informed(k)'
  PROVE  Kept
  <1>1. TypeOK'
    BY ZenonT(60) DEF RegistryMoves, RegistryStep, ManagedInv, TypeOK, Table, CallerRecord
  <1>2. Cardinality(Busy') <= Slots
    BY BusyShrinks DEF RegistryMoves
  <1> QED
    BY <1>1, <1>2, Assemble DEF RegistryMoves

\* A caller's step, after which every record is as it was or gone.
LEMMA CallerMove ==
  ASSUME ManagedInv, RegistryMoves, worker' = worker, \A t \in Tunnels : Stays(t),
         NEW k \in Callers \cup {Main}, \A j \in Callers \cup {Main} : j # k => caller'[j] = caller[j],
         Informed(k)'
  PROVE  Kept
  <1>1. ASSUME NEW t \in Tunnels PROVE Placed(t)'
    BY PlacedStays DEF RegistryMoves
  <1>2. Steady
    BY StaysSteady, ZenonT(60) DEF RegistryMoves
  <1>3. ASSUME NEW j \in Callers \cup {Main} PROVE Informed(j)'
    BY <1>2, InformedStays
  <1> QED
    BY <1>1, <1>3, RegistryMove, ZenonT(60)

LEMMA Types ==
  ASSUME ManagedInv
  PROVE  /\ phase \in [Tunnels -> Phases] /\ cancelled \subseteq Tunnels
         /\ records \in Table /\ order \in Nat
         /\ managed \subseteq Tunnels /\ notified \subseteq managed
         /\ todo \subseteq managed /\ todo \subseteq cancelled
         /\ worker \in [Tunnels -> {"none", "wait", "over"}]
         /\ caller \in [Callers \cup {Main} -> CallerRecord]
  BY DEF ManagedInv, TypeOK, Table, CallerRecord

\* q is rs but for changes of active records and of what was discovered.
Adjusts(rs, q) ==
  /\ q \in Table /\ Forward(rs, q)
  /\ \A t \in Tunnels : /\ q[t].finished = rs[t].finished
                        /\ q[t].stage \in Terminal <=> rs[t].stage \in Terminal
                        /\ q[t].stage \in Active <=> rs[t].stage \in Active

LEMMA AdjustStep ==
  ASSUME RegistryGood, NEW rs, Drops(records, rs), NEW q, Adjusts(rs, q)
  PROVE  RegistryStep(records, order, q, order)
  <1>1. rs \in Table /\ order \in Nat /\ order <= order /\ q \in Table
    BY DEF Drops, RegistryGood, Adjusts
  <1>2. Orderly(rs, order) /\ Within(rs)
    BY DropsStep DEF RegistryStep
  <1>3. Orderly(q, order)
    BY <1>2, ZenonT(60) DEF Orderly, Adjusts
  <1>4. ASSUME NEW owners
        PROVE  Count(q, Active, owners) = Count(rs, Active, owners) /\ Count(q, Terminal, owners) = Count(rs, Terminal, owners)
    BY ZenonT(60) DEF Count, Adjusts
  <1>5. Within(q)
    BY <1>2, <1>4, ZenonT(60) DEF Within
  <1>6. ASSUME NEW t \in Tunnels, records[t].stage # "absent", q[t].stage # "absent"
        PROVE  rs[t] = records[t] /\ rs[t].stage # "absent"
    <2>1. q[t].stage \in Active \cup Terminal
      BY <1>1, <1>6, ZenonT(60) DEF Table
    <2>2. rs[t].stage \in Active \cup Terminal
      BY <2>1 DEF Adjusts
    <2> QED
      BY <2>2, NothingFacts DEF Drops
  <1>7. Forward(records, q)
    BY <1>6, ZenonT(60) DEF Forward, Adjusts
  <1> QED
    BY <1>1, <1>3, <1>5, <1>7 DEF RegistryStep

LEMMA StatusKeeps ==
  ASSUME ManagedInv, NEW t \in Tunnels, Status(t)
  PROVE  Kept
  <1>1. PICK age \in Ages : records' = snapshots(Pruned(age), t)
    BY DEF Status
  <1> DEFINE rs == Pruned(age)
  <1>2. Drops(records, rs) /\ RegistryGood
    BY Good, PruneStep
  <1> HIDE DEF rs
  <1>3. rs \in Table
    BY <1>2 DEF Drops
  <1>4. \A u \in Tunnels : \/ records'[u] = rs[u]
                           \/ records'[u] = [rs[u] EXCEPT !.discovered = TRUE]
    BY <1>1, <1>3, ZenonT(60) DEF snapshots, Table, rs
  <1>5. records' \in Table
    BY <1>1, <1>3, ZenonT(60) DEF snapshots, Table, rs
  <1>6. \A u \in Tunnels : /\ records'[u].stage = rs[u].stage /\ records'[u].finished = rs[u].finished
                           /\ records'[u].revision = rs[u].revision
                           /\ rs[u].discovered => records'[u].discovered
                           /\ records'[u] = [rs[u] EXCEPT !.discovered = records'[u].discovered]
    BY <1>3, <1>4, ZenonT(60) DEF Table
  <1>7. ASSUME NEW u \in Tunnels PROVE Rank(rs[u].stage) <= Rank(records'[u].stage)
    <2>1. records'[u].stage = rs[u].stage
      BY <1>6, ZenonT(60)
    <2> QED
      BY <2>1 DEF Rank
  <1>8. Adjusts(rs, records')
    BY <1>5, <1>6, <1>7, ZenonT(60) DEF Adjusts, Forward
  <1>9. RegistryStep(records, order, records', order')
    BY <1>2, <1>8, AdjustStep DEF Status
  <1>10. \A u \in Tunnels : Stays(u)
    BY <1>2, <1>6, NothingFacts, ZenonT(60) DEF Drops, Stays
  <1>11. RegistryMoves
    BY <1>9, Types DEF RegistryMoves, Status
  <1>12. ASSUME NEW u \in Tunnels PROVE Placed(u)'
    BY <1>10, PlacedStays, ZenonT(60) DEF Status
  <1>13. Steady
    BY <1>10, StaysSteady DEF Status
  <1>14. ASSUME NEW k \in Callers \cup {Main} PROVE Informed(k)'
    BY <1>13, InformedStays, ZenonT(60) DEF Status
  <1> QED
    BY <1>11, <1>12, <1>14, RegistryMove

\* acquire_tunnel_control_slot: one more handler is busy, and no more than slots.
LEMMA AcquireSlotKeeps ==
  ASSUME ManagedInv, NEW t \in Tunnels, AcquireSlot(t)
  PROVE  Kept
  <1>1. TypeOK'
    BY DEF ManagedInv, TypeOK, AcquireSlot, Handle
  <1>2. RegistryStep(records, order, records', order')
    BY Good, IdleStep DEF AcquireSlot
  <1>3. Cardinality(Busy') <= Slots
    <2>1. Busy \in SUBSET Tunnels /\ Busy' \in SUBSET (Busy \cup {t}) /\ Cardinality(Busy) < Slots
      BY TunnelTypes DEF AcquireSlot, Handle, Busy
    <2> QED
      BY <2>1, OneMore, CapsAreNumbers, ZenonT(60)
  <1>4. todo' \subseteq cancelled'
    BY Types, ZenonT(60) DEF AcquireSlot
  <1>5. ASSUME NEW u \in Tunnels PROVE Placed(u)'
    <2>1. CASE u # t
      <3>1. handler'[u] = handler[u] /\ Stays(u) /\ managed \subseteq managed'
        BY <2>1, TunnelTypes, ZenonT(60) DEF AcquireSlot, Handle, Stays
      <3> QED
        BY <3>1, PlacedStays, ZenonT(60) DEF AcquireSlot
    <2>2. CASE u = t
      <3>1. Placed(t)
        BY DEF ManagedInv
      <3> QED
        BY <2>2, <3>1, TunnelTypes, ZenonT(60) DEF Placed, AcquireSlot, Handle
    <2> QED
      BY <2>1, <2>2
  <1>6. Steady
    BY DEF Steady, AcquireSlot
  <1>7. ASSUME NEW k \in Callers \cup {Main} PROVE Informed(k)'
    BY <1>6, InformedStays DEF AcquireSlot
  <1> QED
    BY <1>1, <1>2, <1>3, <1>4, <1>5, <1>7, Assemble, ZenonT(60)

LEMMA ArmKeeps ==
  ASSUME ManagedInv, NEW k \in Callers \cup {Main}, Arm(k)
  PROVE  Kept
  <1>1. caller' \in [Callers \cup {Main} -> CallerRecord]
    BY Types DEF Arm, CallerRecord
  <1>2. RegistryMoves
    BY <1>1, Types, Good, IdleStep DEF Arm, RegistryMoves
  <1>3. Informed(k)
    BY DEF ManagedInv
  <1>4. /\ caller'[k].pc = "look" /\ caller'[k].tunnel = caller[k].tunnel /\ caller'[k].answer = caller[k].answer
        /\ \A j \in Callers \cup {Main} : j # k => caller'[j] = caller[j]
    BY Types DEF Arm, CallerRecord
  <1>5. Informed(k)'
    BY <1>3, <1>4 DEF Arm, At, Informed
  <1>6. \A t \in Tunnels : Stays(t)
    BY ZenonT(60) DEF Arm, Stays
  <1> QED
    BY <1>2, <1>4, <1>5, <1>6, CallerMove, ZenonT(60) DEF Arm

LEMMA WokenKeeps ==
  ASSUME ManagedInv, NEW k \in Callers \cup {Main}, Woken(k)
  PROVE  Kept
  <1>1. caller' \in [Callers \cup {Main} -> CallerRecord]
    BY Types, ZenonT(60) DEF Woken, Goto, CallerRecord
  <1>2. RegistryMoves
    BY <1>1, Types, Good, IdleStep DEF Woken, RegistryMoves
  <1>3. Informed(k)
    BY DEF ManagedInv
  <1>4. /\ caller'[k].pc = "arm" /\ caller'[k].tunnel = caller[k].tunnel /\ caller'[k].answer = caller[k].answer
        /\ \A j \in Callers \cup {Main} : j # k => caller'[j] = caller[j]
    BY Types, ZenonT(60) DEF Woken, Goto, CallerRecord
  <1>5. Informed(k)'
    BY <1>3, <1>4 DEF Woken, At, Informed
  <1>6. \A t \in Tunnels : Stays(t)
    BY ZenonT(60) DEF Woken, Stays
  <1> QED
    BY <1>2, <1>4, <1>5, <1>6, CallerMove DEF Woken

LEMMA ShutdownKeeps ==
  ASSUME ManagedInv, Shutdown
  PROVE  Kept
  <1>1. caller' \in [Callers \cup {Main} -> CallerRecord]
    BY Types, ZenonT(60) DEF Shutdown, Goto, CallerRecord
  <1>2. TypeOK'
    BY <1>1 DEF Shutdown, ManagedInv, TypeOK, CallerRecord
  <1>3. RegistryStep(records, order, records', order') /\ todo' \subseteq cancelled'
    BY Types, Good, IdleStep, ZenonT(60) DEF Shutdown
  <1>4. Cardinality(Busy') <= Slots
    BY BusyShrinks DEF Shutdown
  <1>5. ASSUME NEW t \in Tunnels PROVE Placed(t)'
    BY PlacedStays, ZenonT(60) DEF Shutdown, Stays
  <1>6. /\ caller'[Main].pc = "mark" /\ caller'[Main].tunnel = caller[Main].tunnel
        /\ caller'[Main].answer = caller[Main].answer
        /\ \A j \in Callers \cup {Main} : j # Main => caller'[j] = caller[j]
    BY Types, ZenonT(60) DEF Shutdown, Goto, CallerRecord
  <1>7. Informed(Main)'
    <2>1. Informed(Main)
      BY DEF ManagedInv
    <2> QED
      BY <1>6, <2>1, ZenonT(60) DEF Shutdown, Informed
  <1>8. Steady
    BY ZenonT(60) DEF Steady, Shutdown
  <1>9. ASSUME NEW k \in Callers \cup {Main} PROVE Informed(k)'
    BY <1>6, <1>7, <1>8, InformedStays
  <1> QED
    BY <1>2, <1>3, <1>4, <1>5, <1>9, Assemble

\* What a caller that gets its answer looks like.
LEMMA ReturnedFacts ==
  ASSUME ManagedInv, NEW k \in Callers \cup {Main}, NEW t \in Tunnels,
         NEW answer \in {"none", "error"} \cup Active \cup Terminal, Returned(k, t, answer)
  PROVE  /\ caller' \in [Callers \cup {Main} -> CallerRecord]
         /\ caller'[k].tunnel = t /\ caller'[k].answer = answer
         /\ caller'[k].pc = IF k # Main THEN "done" ELSE IF answer = "error" THEN "fail" ELSE "next"
         /\ \A j \in Callers \cup {Main} : j # k => caller'[j] = caller[j]
  <1>1. caller \in [Callers \cup {Main} -> CallerRecord]
    BY Types
  <1> QED
    BY <1>1 DEF Returned, CallerRecord

\* An error, or a finished stage that is true, may be answered.
LEMMA ReturnedInformed ==
  ASSUME ManagedInv, NEW k \in Callers \cup {Main}, NEW t \in Tunnels,
         NEW answer \in {"error"} \cup Terminal, Returned(k, t, answer),
         answer = "Closed" => phase'[t] = "ok",
         k = Main => t \in cancelled'
  PROVE  Informed(k)'
  <1>1. answer \notin Active /\ answer \in {"none", "error"} \cup Active \cup Terminal
    BY DEF Active, Terminal
  <1>2. /\ caller'[k].tunnel = t /\ caller'[k].answer = answer
        /\ caller'[k].pc = IF k # Main THEN "done" ELSE IF answer = "error" THEN "fail" ELSE "next"
    BY <1>1, ReturnedFacts
  <1> QED
    BY <1>1, <1>2, ZenonT(60) DEF Informed

\* A caller that only prunes the table.
LEMMA PruningMove ==
  ASSUME ManagedInv, NEW k \in Callers \cup {Main}, NEW age \in Ages, records' = Pruned(age),
         caller' \in [Callers \cup {Main} -> CallerRecord],
         \A j \in Callers \cup {Main} : j # k => caller'[j] = caller[j], Informed(k)',
         UNCHANGED <<tunnelVars, order, notified, handler, worker, shutdown, todo, managed>>
  PROVE  Kept
  <1>1. Drops(records, records') /\ RegistryStep(records, order, records', order')
    BY Good, PruneStep, ZenonT(60)
  <1>2. RegistryMoves
    BY <1>1, Types DEF RegistryMoves
  <1>3. \A t \in Tunnels : Stays(t)
    BY <1>1, DropsStays, ZenonT(60)
  <1> QED
    BY <1>2, <1>3, CallerMove

\* The stage a caller reads in the pruned table.
LEMMA ReadStage ==
  ASSUME ManagedInv, NEW age \in Ages, NEW t \in Tunnels
  PROVE  LET stage == Pruned(age)[t].stage
         IN  /\ stage \in {"absent"} \cup Active \cup Terminal
             /\ stage = "Closed" => phase[t] = "ok"
             /\ stage \in {"absent", records[t].stage}
  <1>1. Drops(records, Pruned(age))
    BY Good, PruneStep
  <1>2. Placed(t)
    BY DEF ManagedInv
  <1>3. Pruned(age)[t].stage \in {"absent"} \cup Active \cup Terminal
    BY <1>1, ZenonT(60) DEF Drops, Table
  <1>4. Pruned(age)[t].stage \in {"absent", records[t].stage}
    BY <1>1, NothingFacts, ZenonT(60) DEF Drops
  <1> QED
    BY <1>2, <1>3, <1>4 DEF Placed

LEMMA LookKeeps ==
  ASSUME ManagedInv, NEW k \in Callers \cup {Main}, Look(k)
  PROVE  Kept
  <1> DEFINE t == caller[k].tunnel
  <1>1. Informed(k) /\ t \in Tunnels /\ t \in cancelled
    BY ZenonT(60) DEF ManagedInv, Informed, Look, At
  <1>2. PICK age \in Ages :
          /\ records' = Pruned(age)
          /\ \/ Pruned(age)[t].stage = "absent" /\ Returned(k, t, "error")
             \/ Pruned(age)[t].stage \in Terminal /\ Returned(k, t, Pruned(age)[t].stage)
             \/ Pruned(age)[t].stage \in Active /\ Goto(k, "wait")
    BY ZenonT(60) DEF Look
  <1>3. UNCHANGED <<tunnelVars, order, notified, handler, worker, shutdown, todo, managed>>
    BY ZenonT(60) DEF Look
  <1>4. Pruned(age)[t].stage = "Closed" => phase'[t] = "ok"
    BY <1>1, <1>3, ReadStage
  <1>5. CASE Pruned(age)[t].stage \in Active /\ Goto(k, "wait")
    <2>1. /\ caller' \in [Callers \cup {Main} -> CallerRecord]
          /\ caller'[k].pc = "wait" /\ caller'[k].tunnel = t /\ caller'[k].answer = caller[k].answer
          /\ \A j \in Callers \cup {Main} : j # k => caller'[j] = caller[j]
      BY <1>5, Types, ZenonT(60) DEF Goto, CallerRecord
    <2>2. Informed(k)'
      BY <1>1, <1>3, <2>1, ZenonT(60) DEF Informed, Look, At
    <2> QED
      BY <1>2, <1>3, <2>1, <2>2, PruningMove, ZenonT(60)
  <1>6. ASSUME NEW answer \in {"error"} \cup Terminal, Returned(k, t, answer), answer = "Closed" => phase'[t] = "ok"
        PROVE  Kept
    <2>1. Informed(k)'
      BY <1>1, <1>3, <1>6, ReturnedInformed
    <2>2. answer \in {"none", "error"} \cup Active \cup Terminal
      BY ZenonT(60)
    <2>3. /\ caller' \in [Callers \cup {Main} -> CallerRecord]
          /\ \A j \in Callers \cup {Main} : j # k => caller'[j] = caller[j]
      BY <1>1, <1>6, <2>2, ReturnedFacts, ZenonT(60)
    <2> QED
      BY <1>2, <1>3, <2>1, <2>3, PruningMove, ZenonT(60)
  <1> HIDE DEF t
  <1>7. CASE Pruned(age)[t].stage = "absent" /\ Returned(k, t, "error")
    BY <1>6, <1>7
  <1>8. CASE Pruned(age)[t].stage \in Terminal /\ Returned(k, t, Pruned(age)[t].stage)
    BY <1>4, <1>6, <1>8, ZenonT(60)
  <1> QED
    BY <1>2, <1>5, <1>7, <1>8, ZenonT(60)

LEMMA FinalKeeps ==
  ASSUME ManagedInv, NEW k \in Callers \cup {Main}, Final(k)
  PROVE  Kept
  <1> DEFINE t == caller[k].tunnel
  <1>1. t \in Tunnels /\ t \in cancelled /\ records[t].stage \notin Active
    BY ZenonT(60) DEF ManagedInv, Informed, Final, At
  <1>2. PICK age \in Ages :
          /\ records' = Pruned(age)
          /\ Returned(k, t, IF Pruned(age)[t].stage = "absent" THEN "error" ELSE Pruned(age)[t].stage)
    BY ZenonT(60) DEF Final
  <1>3. UNCHANGED <<tunnelVars, order, notified, handler, worker, shutdown, todo, managed>>
    BY DEF Final
  <1> DEFINE answer == IF Pruned(age)[t].stage = "absent" THEN "error" ELSE Pruned(age)[t].stage
  <1>4. answer \in {"error"} \cup Terminal /\ (answer = "Closed" => phase'[t] = "ok")
    BY <1>1, <1>3, ReadStage, ZenonT(60)
  <1>5. answer \in {"none", "error"} \cup Active \cup Terminal /\ Returned(k, t, answer)
    BY <1>2, <1>4, ZenonT(60)
  <1> HIDE DEF answer, t
  <1>6. Informed(k)'
    BY <1>1, <1>3, <1>4, <1>5, ReturnedInformed, ZenonT(60)
  <1>7. /\ caller' \in [Callers \cup {Main} -> CallerRecord]
        /\ \A j \in Callers \cup {Main} : j # k => caller'[j] = caller[j]
    BY <1>1, <1>5, ReturnedFacts, ZenonT(60)
  <1> QED
    BY <1>2, <1>3, <1>6, <1>7, PruningMove, ZenonT(60)

\* The record of the tunnel that finish_worker was called for.
LEMMA FinishPlaced ==
  ASSUME ManagedInv, NEW t \in Tunnels, NEW stage \in Terminal, Ended(t, stage, records'),
         stage = "Closed" => phase[t] = "ok",
         phase[t] # "running" \/ t \in cancelled,
         worker'[t] = "none" <=> worker[t] = "none",
         UNCHANGED <<phase, cancelled, handler, managed>>
  PROVE  Placed(t)'
  <1>1. Placed(t)
    BY ZenonT(60) DEF ManagedInv
  <1>2. records'[t].stage \notin Active /\ records'[t].stage # "Cancelling"
    BY ZenonT(60) DEF Ended, Active
  <1>3. records'[t].stage # "absent" => worker'[t] # "none"
    BY <1>1, ZenonT(60) DEF Ended, Placed
  <1>4. records'[t].stage = "Closed" => phase'[t] = "ok"
    BY <1>1, NothingFacts, ZenonT(60) DEF Ended, Placed
  <1> QED
    BY <1>1, <1>2, <1>3, <1>4, ZenonT(60) DEF Placed

\* finish_worker takes nothing back, and signals a managed tunnel.
LEMMA FinishSteady ==
  ASSUME ManagedInv, NEW t \in Tunnels, NEW stage \in Terminal, finish_worker(t, stage),
         UNCHANGED <<phase, cancelled>>, \A u \in Tunnels : worker[u] # "none" => worker'[u] # "none"
  PROVE  /\ Steady /\ notified' \subseteq managed
         /\ RegistryStep(records, order, records', order')
         /\ Ended(t, stage, records')
         /\ \A u \in Tunnels : u # t => Stays(u)
  <1>1. /\ RegistryStep(records, order, records', order')
        /\ notified' = notified \/ (notified' = notified \cup {t} /\ records[t].stage \in Active)
        /\ \A u \in Tunnels : u # t =>
             records'[u] = records[u] \/ (records'[u] = Nothing /\ records[u].stage \in Terminal)
        /\ Ended(t, stage, records')
    BY Good, FinishCall, ZenonT(60)
  <1>2. Placed(t)
    BY ZenonT(60) DEF ManagedInv
  <1>3. notified' \subseteq managed
    BY <1>1, <1>2, Types, NothingFacts, ZenonT(60) DEF Placed
  <1>4. \A u \in Tunnels : u # t => Stays(u)
    BY <1>1, NothingFacts, ZenonT(60) DEF Stays
  <1>5. \A u \in Tunnels : records[u].stage \notin Active => records'[u].stage \notin Active
    BY <1>1, <1>4, NothingFacts, ZenonT(60) DEF Stays, Ended
  <1>6. Steady
    BY <1>5 DEF Steady
  <1> QED
    BY <1>1, <1>3, <1>4, <1>6, ZenonT(60)

LEMMA ExpireKeeps ==
  ASSUME ManagedInv, NEW k \in Callers \cup {Main}, Expire(k)
  PROVE  Kept
  <1> DEFINE t == caller[k].tunnel
  <1>1. Informed(k) /\ t \in Tunnels /\ t \in cancelled /\ worker[t] # "none"
    BY ZenonT(60) DEF ManagedInv, Informed, Expire, At
  <1>2. UNCHANGED <<phase, cancelled, handler, worker, shutdown, todo, managed>>
    BY ZenonT(60) DEF Expire
  <1>3. "Unknown" \in Terminal /\ finish_worker(t, "Unknown")
    BY ZenonT(60) DEF Terminal, Expire
  <1>4. /\ Steady /\ notified' \subseteq managed
        /\ RegistryStep(records, order, records', order')
        /\ Ended(t, "Unknown", records')
        /\ \A u \in Tunnels : u # t => Stays(u)
    BY <1>1, <1>2, <1>3, FinishSteady, ZenonT(60)
  <1>5. ASSUME NEW u \in Tunnels PROVE Placed(u)'
    <2>1. CASE u = t
      BY <1>1, <1>2, <1>3, <1>4, <2>1, FinishPlaced, ZenonT(60)
    <2>2. CASE u # t
      BY <1>2, <1>4, <2>2, PlacedStays, ZenonT(60)
    <2> QED
      BY <2>1, <2>2
  <1>6. /\ caller' \in [Callers \cup {Main} -> CallerRecord]
        /\ \A j \in Callers \cup {Main} : j # k => caller'[j] = caller[j]
        /\ Informed(k)'
    <2>1. CASE Returned(k, t, "error")
      <3>1. "error" \in {"error"} \cup Terminal /\ "error" \in {"none", "error"} \cup Active \cup Terminal
        BY ZenonT(60)
      <3> HIDE DEF t
      <3> QED
        BY <1>1, <1>2, <2>1, <3>1, ReturnedFacts, ReturnedInformed, ZenonT(60)
    <2>2. CASE Goto(k, "final")
      <3>1. /\ caller' \in [Callers \cup {Main} -> CallerRecord]
            /\ caller'[k].pc = "final" /\ caller'[k].tunnel = t /\ caller'[k].answer = caller[k].answer
            /\ \A j \in Callers \cup {Main} : j # k => caller'[j] = caller[j]
        BY <2>2, Types, ZenonT(60) DEF Goto, CallerRecord
      <3>2. records'[t].stage \notin Active
        BY <1>4, ZenonT(60) DEF Ended
      <3> QED
        BY <1>1, <1>2, <3>1, <3>2, ZenonT(60) DEF Informed
    <2> QED
      BY <2>1, <2>2, ZenonT(60) DEF Expire
  <1>7. ASSUME NEW j \in Callers \cup {Main} PROVE Informed(j)'
    BY <1>4, <1>6, InformedStays, ZenonT(60)
  <1>8. RegistryMoves
    BY <1>2, <1>4, <1>6, Types, ZenonT(60) DEF RegistryMoves
  <1> QED
    BY <1>5, <1>7, <1>8, RegistryMove, ZenonT(60)

LEMMA MainFailsKeeps ==
  ASSUME ManagedInv, MainFails
  PROVE  Kept
  <1> DEFINE t == caller[Main].tunnel
  <1>1. Informed(Main) /\ t \in Tunnels /\ t \in cancelled
    BY ZenonT(60) DEF ManagedInv, Informed, MainFails, At
  <1>2. UNCHANGED <<phase, cancelled, handler, worker, shutdown, todo, managed>>
    BY DEF MainFails
  <1>3. "Unknown" \in Terminal /\ finish_worker(t, "Unknown")
    BY ZenonT(60) DEF Terminal, MainFails
  <1>4. /\ Steady /\ notified' \subseteq managed
        /\ RegistryStep(records, order, records', order')
        /\ Ended(t, "Unknown", records')
        /\ \A u \in Tunnels : u # t => Stays(u)
    BY <1>1, <1>2, <1>3, FinishSteady, ZenonT(60)
  <1>5. ASSUME NEW u \in Tunnels PROVE Placed(u)'
    <2>1. CASE u = t
      BY <1>1, <1>2, <1>3, <1>4, <2>1, FinishPlaced, ZenonT(60)
    <2>2. CASE u # t
      BY <1>2, <1>4, <2>2, PlacedStays
    <2> QED
      BY <2>1, <2>2, ZenonT(60)
  <1>6. /\ caller' \in [Callers \cup {Main} -> CallerRecord]
        /\ caller'[Main].pc = "next" /\ caller'[Main].tunnel = t /\ caller'[Main].answer = caller[Main].answer
        /\ \A j \in Callers \cup {Main} : j # Main => caller'[j] = caller[j]
    BY Types, ZenonT(60) DEF Goto, CallerRecord, MainFails
  <1>7. Informed(Main)'
    BY <1>1, <1>2, <1>6, ZenonT(60) DEF Informed
  <1>8. ASSUME NEW j \in Callers \cup {Main} PROVE Informed(j)'
    BY <1>4, <1>6, <1>7, InformedStays, ZenonT(60)
  <1>9. RegistryMoves
    BY <1>2, <1>4, <1>6, Types DEF RegistryMoves
  <1> QED
    BY <1>5, <1>8, <1>9, RegistryMove

LEMMA WorkerEndsKeeps ==
  ASSUME ManagedInv, NEW t \in Tunnels, WorkerEnds(t)
  PROVE  Kept
  <1> DEFINE stage == IF phase[t] = "ok" THEN "Closed" ELSE "Unknown"
  <1>1. UNCHANGED <<phase, cancelled, handler, caller, shutdown, todo, managed>>
    BY DEF WorkerEnds
  <1>2. stage \in Terminal /\ finish_worker(t, stage) /\ (stage = "Closed" => phase[t] = "ok")
    BY ZenonT(60) DEF Terminal, WorkerEnds
  <1>3. /\ worker' \in [Tunnels -> {"none", "wait", "over"}]
        /\ worker[t] # "none" /\ worker'[t] # "none" /\ phase[t] # "running"
        /\ \A u \in Tunnels : u # t => worker'[u] = worker[u]
    BY Types, ZenonT(60) DEF WorkerEnds, Over
  <1> HIDE DEF stage
  <1>4. /\ Steady /\ notified' \subseteq managed
        /\ RegistryStep(records, order, records', order')
        /\ Ended(t, stage, records')
        /\ \A u \in Tunnels : u # t => Stays(u)
    BY <1>1, <1>2, <1>3, FinishSteady, ZenonT(60)
  <1>5. ASSUME NEW u \in Tunnels PROVE Placed(u)'
    <2>1. CASE u = t
      BY <1>1, <1>2, <1>3, <1>4, <2>1, FinishPlaced, ZenonT(60)
    <2>2. CASE u # t
      BY <1>1, <1>3, <1>4, <2>2, PlacedStays, ZenonT(60)
    <2> QED
      BY <2>1, <2>2, ZenonT(60)
  <1>6. ASSUME NEW j \in Callers \cup {Main} PROVE Informed(j)'
    BY <1>1, <1>4, InformedStays, ZenonT(60)
  <1>7. RegistryMoves
    BY <1>1, <1>3, <1>4, Types DEF RegistryMoves
  <1> QED
    BY <1>5, <1>6, <1>7, RegistryMove, ZenonT(60)

\* An active record becomes, or stays, Cancelling.
Marked(t, r) == [r EXCEPT !.stage = "Cancelling", !.revision = Revised(t, r)]

LEMMA MarkAdjusts ==
  ASSUME NEW rs \in Table, NEW q, DOMAIN q = Tunnels, q = [t \in Tunnels |-> q[t]],
         \A t \in Tunnels : q[t] = rs[t] \/ (rs[t].stage \in Active /\ q[t] = Marked(t, rs[t]))
  PROVE  Adjusts(rs, q)
  <1>1. ASSUME NEW t \in Tunnels
        PROVE  /\ q[t] \in [stage : {"absent"} \cup Active \cup Terminal, revision : Nat,
                            finished : Nat, discovered : BOOLEAN]
               /\ q[t].finished = rs[t].finished
               /\ q[t].stage \in Terminal <=> rs[t].stage \in Terminal
               /\ q[t].stage \in Active <=> rs[t].stage \in Active
               /\ Rank(rs[t].stage) <= Rank(q[t].stage)
               /\ rs[t].stage \in Terminal => q[t] = [rs[t] EXCEPT !.discovered = q[t].discovered]
               /\ rs[t].stage # q[t].stage /\ t \in Contexts => q[t].revision > rs[t].revision
               /\ rs[t].discovered => q[t].discovered
    <2>1. CASE q[t] = rs[t]
      BY <2>1, SameForward, ZenonT(60) DEF Table
    <2>2. CASE rs[t].stage \in Active /\ q[t] = Marked(t, rs[t])
      <3>1. Revised(t, rs[t]) \in Nat /\ (t \in Contexts => rs[t].revision < Revised(t, rs[t]))
        BY RevisedRises
      <3>2. /\ q[t].stage = "Cancelling" /\ q[t].revision = Revised(t, rs[t]) /\ q[t].finished = rs[t].finished
            /\ q[t].discovered = rs[t].discovered
            /\ q[t] \in [stage : {"absent"} \cup Active \cup Terminal, revision : Nat,
                         finished : Nat, discovered : BOOLEAN]
        <4> DEFINE v == Revised(t, rs[t])
        <4>1. q[t] = [rs[t] EXCEPT !.stage = "Cancelling", !.revision = v] /\ v \in Nat
          BY <2>2, <3>1, ZenonT(60) DEF Marked
        <4> HIDE DEF v
        <4>2. rs[t] \in [stage : {"absent"} \cup Active \cup Terminal, revision : Nat,
                         finished : Nat, discovered : BOOLEAN]
          BY DEF Table
        <4>3. "Cancelling" \in {"absent"} \cup Active \cup Terminal
          BY DEF Active
        <4>4. /\ q[t].stage = "Cancelling" /\ q[t].revision = v /\ q[t].finished = rs[t].finished
              /\ q[t].discovered = rs[t].discovered
              /\ q[t] \in [stage : {"absent"} \cup Active \cup Terminal, revision : Nat,
                           finished : Nat, discovered : BOOLEAN]
          BY <4>1, <4>2, <4>3, ZenonT(60)
        <4> QED
          BY <4>4 DEF v
      <3>3. Rank(q[t].stage) = 2 /\ Rank(rs[t].stage) \in {1, 2}
        BY <2>2, <3>2, ZenonT(60) DEF Rank, Active
      <3>4. q[t].stage \in Active /\ q[t].stage \notin Terminal /\ rs[t].stage \notin Terminal
        BY <2>2, <3>2 DEF Active, Terminal
      <3>5. Rank(rs[t].stage) <= Rank(q[t].stage)
        BY <3>3
      <3>6. t \in Contexts => q[t].revision > rs[t].revision
        BY <3>1, <3>2, TableFacts
      <3> QED
        BY <2>2, <3>2, <3>4, <3>5, <3>6
    <2> QED
      BY <2>1, <2>2
  <1>2. q \in Table
    BY <1>1, ZenonT(60) DEF Table
  <1> QED
    BY <1>1, <1>2, ZenonT(60) DEF Adjusts, Forward

\* A record that is active, with its worker, stays so when it is marked and its
\* tunnel cancelled.
LEMMA MarkPlaced ==
  ASSUME ManagedInv, NEW t \in Tunnels, records[t].stage \in Active, records'[t].stage = "Cancelling",
         t \in cancelled', UNCHANGED <<phase, handler, worker, managed>>
  PROVE  Placed(t)'
  <1>1. Placed(t)
    BY ZenonT(60) DEF ManagedInv
  <1>2. worker[t] = "wait" /\ handler[t] = "done" /\ t \in managed
    BY <1>1 DEF Placed
  <1>3. records'[t].stage # "Closed"
    OBVIOUS
  <1> QED
    BY <1>1, <1>2, <1>3 DEF Placed

LEMMA MarkStage ==
  ASSUME NEW r \in Table, NEW t \in Tunnels
  PROVE  Marked(t, r[t]).stage = "Cancelling"
  BY DEF Marked, Table

LEMMA CancelRequestKeeps ==
  ASSUME ManagedInv, NEW k \in Callers \cup {Main}, NEW t \in Tunnels, CancelRequest(k, t)
  PROVE  Kept
  <1>1. /\ UNCHANGED <<phase, order, notified, handler, worker, shutdown, managed>>
        /\ todo' \subseteq todo
        /\ k = Main => t \in todo
    BY DEF CancelRequest
  <1>2. Placed(t) /\ RegistryGood
    BY Good, ZenonT(60) DEF ManagedInv
  <1>3. ASSUME NEW answer \in {"error"} \cup Terminal, Returned(k, t, answer), answer = "Closed" => phase'[t] = "ok",
               UNCHANGED <<records, cancelled>>
        PROVE  Kept
    <2>1. Informed(k)'
      BY <1>1, <1>3, Types, ReturnedInformed
    <2>2. answer \in {"none", "error"} \cup Active \cup Terminal
      OBVIOUS
    <2>3. /\ caller' \in [Callers \cup {Main} -> CallerRecord]
          /\ \A j \in Callers \cup {Main} : j # k => caller'[j] = caller[j]
      BY <1>3, <2>2, ReturnedFacts, ZenonT(60)
    <2>4. RegistryStep(records, order, records', order') /\ \A u \in Tunnels : Stays(u)
      BY <1>1, <1>2, <1>3, IdleStep, ZenonT(60) DEF Stays
    <2>5. RegistryMoves
      BY <1>1, <1>3, <2>3, <2>4, Types, ZenonT(60) DEF RegistryMoves
    <2> QED
      BY <1>1, <2>1, <2>3, <2>4, <2>5, CallerMove, ZenonT(60)
  <1>4. CASE Returned(k, t, "error") /\ UNCHANGED <<records, cancelled>>
    BY <1>3, <1>4
  <1>5. CASE records[t].stage \in Terminal /\ Returned(k, t, records[t].stage) /\ UNCHANGED <<records, cancelled>>
    <2>1. records[t].stage = "Closed" => phase'[t] = "ok"
      BY <1>1, <1>2, ZenonT(60) DEF Placed
    <2> QED
      BY <1>3, <1>5, <2>1, ZenonT(60)
  <1>6. CASE /\ records[t].stage \in Active
             /\ records' = [records EXCEPT ![t] = Mark(t, @)]
             /\ cancelled' = IF records[t].stage = "Ready" THEN cancelled \cup {t} ELSE cancelled
             /\ caller' = [caller EXCEPT ![k].tunnel = t, ![k].pc = "arm", ![k].answer = "none"]
    <2>1. /\ caller' \in [Callers \cup {Main} -> CallerRecord]
          /\ caller'[k].tunnel = t /\ caller'[k].pc = "arm" /\ caller'[k].answer = "none"
          /\ \A j \in Callers \cup {Main} : j # k => caller'[j] = caller[j]
      BY <1>6, Types, ZenonT(60) DEF CallerRecord
    <2>2. records \in Table
      BY Types
    <2>3. /\ DOMAIN records' = Tunnels /\ records' = [u \in Tunnels |-> records'[u]]
          /\ \A u \in Tunnels : u # t => records'[u] = records[u]
          /\ records'[t] = IF records[t].stage = "Ready" THEN Marked(t, records[t]) ELSE records[t]
      BY <1>6, <2>2, ZenonT(60) DEF Mark, Marked, Table
    <2>4. \A u \in Tunnels : \/ records'[u] = records[u]
                             \/ records[u].stage \in Active /\ records'[u] = Marked(u, records[u])
      BY <1>6, <2>3
    <2>5. Adjusts(records, records')
      BY <2>2, <2>3, <2>4, MarkAdjusts
    <2>6. RegistryStep(records, order, records', order')
      BY <1>1, <1>2, <2>5, IdleStep, AdjustStep
    <2>7. records'[t].stage = "Cancelling"
      BY <1>6, <2>2, <2>3, MarkStage, ZenonT(60) DEF Active
    <2>8. t \in cancelled' /\ cancelled \subseteq cancelled' /\ cancelled' \subseteq Tunnels
      BY <1>2, <1>6, Types DEF Placed, Active
    <2>9. ASSUME NEW u \in Tunnels PROVE Placed(u)'
      <3>1. CASE u = t
        BY <1>1, <1>6, <2>7, <2>8, <3>1, MarkPlaced, ZenonT(60)
      <3>2. CASE u # t
        BY <1>1, <2>3, <2>8, <3>2, PlacedStays, ZenonT(60) DEF Stays
      <3> QED
        BY <3>1, <3>2, ZenonT(60)
    <2>10. Steady
      BY <1>1, <1>6, <2>3, <2>8, ZenonT(60) DEF Steady
    <2>11. Informed(k)'
      <3>1. worker[t] # "none"
        BY <1>2, <1>6 DEF Placed
      <3> QED
        BY <1>1, <2>1, <2>8, <3>1, ZenonT(60) DEF Informed
    <2>12. ASSUME NEW j \in Callers \cup {Main} PROVE Informed(j)'
      BY <2>1, <2>10, <2>11, InformedStays, ZenonT(60)
    <2>13. RegistryMoves
      BY <1>1, <2>1, <2>6, <2>8, Types, ZenonT(60) DEF RegistryMoves
    <2> QED
      BY <2>9, <2>12, <2>13, RegistryMove
  <1> QED
    BY <1>4, <1>5, <1>6, ZenonT(60) DEF CancelRequest

LEMMA MarkAllKeeps ==
  ASSUME ManagedInv, MarkAll
  PROVE  Kept
  <1>1. PICK age \in Ages :
          LET active == {t \in Tunnels : Pruned(age)[t].stage \in Active}
          IN /\ records' = [t \in Tunnels |->
                  IF t \in active THEN Marked(t, records[t]) ELSE Pruned(age)[t]]
             /\ cancelled' = cancelled \cup active
             /\ todo' = active
    BY ZenonT(60) DEF MarkAll, Marked
  <1>2. UNCHANGED <<phase, order, notified, handler, worker, shutdown, managed>>
    BY ZenonT(60) DEF MarkAll
  <1> DEFINE rs == Pruned(age)
             active == {t \in Tunnels : rs[t].stage \in Active}
  <1>3. /\ \A t \in Tunnels : records'[t] = IF t \in active THEN Marked(t, records[t]) ELSE rs[t]
        /\ DOMAIN records' = Tunnels /\ records' = [t \in Tunnels |-> records'[t]]
        /\ cancelled' = cancelled \cup active /\ todo' = active
    BY <1>1
  <1>4. Drops(records, rs) /\ RegistryGood
    BY Good, PruneStep
  <1> HIDE DEF rs
  <1>5. rs \in Table /\ records \in Table
    BY <1>4, Types DEF Drops
  <1>6. \A t \in active : t \in Tunnels /\ rs[t] = records[t] /\ records[t].stage \in Active
    BY <1>4, NothingFacts, ZenonT(60) DEF Drops
  <1>7. \A t \in Tunnels : records'[t] = rs[t] \/ (rs[t].stage \in Active /\ records'[t] = Marked(t, rs[t]))
    BY <1>3, <1>6, ZenonT(60)
  <1>8. RegistryStep(records, order, records', order')
    BY <1>2, <1>3, <1>4, <1>5, <1>7, MarkAdjusts, AdjustStep
  <1>9. /\ caller' \in [Callers \cup {Main} -> CallerRecord]
        /\ caller'[Main].pc = "next" /\ caller'[Main].tunnel = caller[Main].tunnel
        /\ caller'[Main].answer = caller[Main].answer
        /\ \A j \in Callers \cup {Main} : j # Main => caller'[j] = caller[j]
    <2>1. caller' = [caller EXCEPT ![Main].pc = "next"] /\ caller \in [Callers \cup {Main} -> CallerRecord]
      BY Types, ZenonT(60) DEF MarkAll, Goto
    <2> QED
      BY <2>1 DEF CallerRecord
  <1>10. ASSUME NEW t \in Tunnels PROVE Placed(t)'
    <2>1. CASE t \in active
      BY <1>2, <1>3, <1>5, <1>6, <2>1, MarkStage, MarkPlaced
    <2>2. CASE t \notin active
      <3>1. Stays(t)
        BY <1>3, <1>4, <2>2, NothingFacts, ZenonT(60) DEF Stays, Drops
      <3> QED
        BY <1>2, <1>3, <3>1, PlacedStays
    <2> QED
      BY <2>1, <2>2
  <1>11. \A t \in Tunnels : records[t].stage \notin Active => records'[t].stage \notin Active
    BY <1>3, <1>4, <1>6, NothingFacts DEF Drops
  <1>12. Steady
    BY <1>2, <1>3, <1>11, ZenonT(60) DEF Steady
  <1>13. Informed(Main)'
    <2>1. Informed(Main)
      BY DEF ManagedInv
    <2> QED
      BY <1>2, <1>9, <2>1 DEF Informed
  <1>14. ASSUME NEW j \in Callers \cup {Main} PROVE Informed(j)'
    BY <1>9, <1>12, <1>13, InformedStays, ZenonT(60)
  <1>15. ASSUME NEW t \in active PROVE t \in managed
    <2>1. Placed(t) /\ records[t].stage \in Active
      BY <1>6 DEF ManagedInv
    <2> QED
      BY <2>1, NothingFacts DEF Placed
  <1>16. RegistryMoves
    BY <1>2, <1>3, <1>8, <1>9, <1>15, Types, ZenonT(60) DEF RegistryMoves
  <1> QED
    BY <1>10, <1>14, <1>16, RegistryMove

\* `begin' adds one active record while there is room for one.
LEMMA BeginStep ==
  ASSUME RegistryGood, NEW rs, Drops(records, rs), NEW t \in Tunnels, records[t].stage = "absent",
         Count(rs, Active, Owners) < ActiveGlobal, Count(rs, Active, {Owner[t]}) < ActivePerOwner,
         NEW q \in Table, q[t].stage = "Ready", q[t].finished = 0, \A u \in Tunnels : u # t => q[u] = rs[u]
  PROVE  RegistryStep(records, order, q, order)
  <1>1. rs \in Table /\ order \in Nat /\ order <= order
    BY DEF Drops, RegistryGood
  <1>2. Orderly(rs, order) /\ Within(rs) /\ Forward(records, rs)
    BY DropsStep DEF RegistryStep
  <1>3. q[t].stage \in Active /\ q[t].stage \notin Terminal /\ rs[t].stage \notin Terminal /\ rs[t].stage = "absent"
    BY NothingFacts, ZenonT(60) DEF Active, Terminal, Drops
  <1>4. Orderly(q, order)
    <2>1. ASSUME NEW u \in Tunnels PROVE q[u].finished <= order /\ (q[u].stage \in Terminal <=> q[u].finished > 0)
      BY <1>1, <1>2, <1>3 DEF Orderly
    <2>2. ASSUME NEW u \in Tunnels, NEW v \in Tunnels, q[u].finished > 0, q[u].finished = q[v].finished PROVE u = v
      <3>1. u # t /\ v # t
        BY <2>2
      <3> QED
        BY <1>2, <2>2, <3>1 DEF Orderly
    <2> QED
      BY <2>1, <2>2, ZenonT(60) DEF Orderly
  <1>5. ASSUME NEW owners
        PROVE  /\ Count(q, Terminal, owners) = Count(rs, Terminal, owners)
               /\ Members(q, Active, owners) \in SUBSET (Members(rs, Active, owners) \cup {t})
               /\ Owner[t] \notin owners => Count(q, Active, owners) = Count(rs, Active, owners)
    <2>1. Members(q, Terminal, owners) = Members(rs, Terminal, owners)
      BY <1>3 DEF Members
    <2>2. Members(q, Active, owners) \in SUBSET (Members(rs, Active, owners) \cup {t})
      BY DEF Members
    <2>3. Owner[t] \notin owners => Members(q, Active, owners) = Members(rs, Active, owners)
      BY ZenonT(60) DEF Members
    <2> QED
      BY <2>1, <2>2, <2>3, Counted, ZenonT(60)
  <1>6. ASSUME NEW owners, NEW cap \in Nat, Count(rs, Active, owners) < cap PROVE Count(q, Active, owners) <= cap
    BY <1>5, <1>6, Counted, OneMore, ZenonT(60)
  <1>7. Count(q, Active, Owners) <= ActiveGlobal
    BY <1>6, CapsAreNumbers, ZenonT(60)
  <1>8. ASSUME NEW o \in Owners PROVE Count(q, Active, {o}) <= ActivePerOwner
    <2>1. CASE o = Owner[t]
      BY <1>6, <2>1, CapsAreNumbers, ZenonT(60)
    <2>2. CASE o # Owner[t]
      <3>1. Owner[t] \notin {o}
        BY <2>2, ZenonT(60)
      <3> QED
        BY <1>2, <1>5, <3>1, ZenonT(60) DEF Within
    <2> QED
      BY <2>1, <2>2, ZenonT(60)
  <1>9. Within(q)
    BY <1>2, <1>5, <1>7, <1>8, ZenonT(60) DEF Within
  <1>10. Forward(records, q)
    BY <1>2 DEF Forward
  <1> QED
    BY <1>1, <1>4, <1>9, <1>10 DEF RegistryStep

LEMMA RegisterKeeps ==
  ASSUME ManagedInv, NEW t \in Tunnels, Register(t)
  PROVE  Kept
  <1>1. Placed(t) /\ RegistryGood
    BY Good DEF ManagedInv
  <1>2. /\ handler[t] = "started" /\ t \in managed /\ worker[t] = "none" /\ records[t].stage = "absent"
        /\ UNCHANGED <<order, notified, caller, shutdown, todo, managed>>
    BY <1>1 DEF Register, Placed
  <1>3. PICK age \in Ages :
          \/ /\ Count(Pruned(age), Active, Owners) < ActiveGlobal
             /\ Count(Pruned(age), Active, {Owner[t]}) < ActivePerOwner
             /\ records' = [Pruned(age) EXCEPT ![t] =
                  [Nothing EXCEPT !.stage = "Ready", !.revision = IF t \in Contexts THEN 1 ELSE 0]]
             /\ worker' = [worker EXCEPT ![t] = "wait"]
             /\ Handle(t, "done")
             /\ UNCHANGED tunnelVars
          \/ records' = Pruned(age) /\ StopRefused(t)
    BY DEF Register
  <1> DEFINE rs == Pruned(age)
  <1>4. Drops(records, rs) /\ RegistryStep(records, order, rs, order)
    BY <1>1, PruneStep
  <1>5. rs \in Table
    BY <1>4 DEF Drops
  <1>6. CASE records' = rs /\ StopRefused(t)
    <2>1. \A u \in Tunnels : Stays(u)
      BY <1>4, <1>6, DropsStays
    <2>2. /\ cancelled' = cancelled \cup {t} /\ phase' = phase /\ worker' = worker
          /\ handler' = [handler EXCEPT ![t] = "stopping"]
      BY <1>6, ZenonT(60) DEF StopRefused, Cancel, Handle
    <2>3. TypeOK'
      BY <1>2, <1>5, <1>6, <2>2, ZenonT(60) DEF ManagedInv, TypeOK, Table
    <2>4. Cardinality(Busy') <= Slots
      BY <1>2, <2>2, BusyShrinks, TunnelTypes
    <2>5. ASSUME NEW u \in Tunnels PROVE Placed(u)'
      <3>1. CASE u # t
        BY <1>2, <2>1, <2>2, <3>1, PlacedStays, TunnelTypes, ZenonT(60)
      <3>2. CASE u = t
        <4>1. records'[t].stage = "absent" /\ "absent" \notin Active
          BY <1>2, <2>1, NothingFacts DEF Stays
        <4>2. worker'[t] = "none" /\ t \in cancelled'
          BY <1>2, <2>2
        <4> QED
          BY <3>2, <4>1, <4>2, ZenonT(60) DEF Placed
      <3> QED
        BY <3>1, <3>2, ZenonT(60)
    <2>6. Steady
      BY <2>1, <2>2, StaysSteady
    <2>7. ASSUME NEW k \in Callers \cup {Main} PROVE Informed(k)'
      BY <1>2, <2>6, InformedStays, ZenonT(60)
    <2>8. todo' \subseteq cancelled' /\ RegistryStep(records, order, records', order')
      BY <1>2, <1>4, <1>6, <2>2, Types, ZenonT(60)
    <2> QED
      BY <2>3, <2>4, <2>5, <2>7, <2>8, Assemble
  <1>7. CASE /\ Count(rs, Active, Owners) < ActiveGlobal
             /\ Count(rs, Active, {Owner[t]}) < ActivePerOwner
             /\ records' = [rs EXCEPT ![t] =
                  [Nothing EXCEPT !.stage = "Ready", !.revision = IF t \in Contexts THEN 1 ELSE 0]]
             /\ worker' = [worker EXCEPT ![t] = "wait"]
             /\ Handle(t, "done")
             /\ UNCHANGED tunnelVars
    <2> HIDE DEF rs
    <2> DEFINE new == [Nothing EXCEPT !.stage = "Ready", !.revision = IF t \in Contexts THEN 1 ELSE 0]
    <2>1. /\ new.stage = "Ready" /\ new.finished = 0
          /\ new \in [stage : {"absent"} \cup Active \cup Terminal, revision : Nat, finished : Nat, discovered : BOOLEAN]
      BY ZenonT(60) DEF Nothing, Active
    <2>2. records' = [rs EXCEPT ![t] = new]
      BY <1>7
    <2> HIDE DEF new
    <2>3. /\ records' \in Table /\ records'[t].stage = "Ready" /\ records'[t].finished = 0
          /\ \A u \in Tunnels : u # t => records'[u] = rs[u]
      BY <1>5, <2>1, <2>2, ZenonT(60) DEF Table
    <2>4. RegistryStep(records, order, records', order')
      <3>1. Count(rs, Active, Owners) < ActiveGlobal /\ Count(rs, Active, {Owner[t]}) < ActivePerOwner
        BY <1>7, ZenonT(60)
      <3>2. records[t].stage = "absent" /\ order' = order /\ RegistryGood /\ Drops(records, rs)
        BY <1>1, <1>2, <1>4, ZenonT(60)
      <3>3. RegistryStep(records, order, records', order)
        BY <2>3, <3>1, <3>2, BeginStep, ZenonT(60)
      <3> QED
        BY <3>2, <3>3
    <2>5. /\ phase' = phase /\ cancelled' = cancelled
          /\ handler' = [handler EXCEPT ![t] = "done"] /\ worker' = [worker EXCEPT ![t] = "wait"]
      BY <1>7, ZenonT(60) DEF Handle
    <2>6. TypeOK'
      BY <1>2, <2>3, <2>5, ZenonT(60) DEF ManagedInv, TypeOK, Table
    <2>7. Cardinality(Busy') <= Slots
      BY <2>5, BusyShrinks, TunnelTypes, ZenonT(60)
    <2>8. ASSUME NEW u \in Tunnels PROVE Placed(u)'
      <3>1. CASE u # t
        <4>1. Stays(u)
          BY <1>4, <2>3, <3>1, NothingFacts, ZenonT(60) DEF Stays, Drops
        <4>2. handler'[u] = handler[u] /\ worker'[u] = worker[u]
          BY <2>5, <3>1, TunnelTypes, Types, ZenonT(60)
        <4> QED
          BY <1>2, <2>5, <4>1, <4>2, PlacedStays, ZenonT(60)
      <3>2. CASE u = t
        <4>1. handler'[t] = "done" /\ worker'[t] = "wait" /\ t \in managed'
          BY <1>2, <2>5, TunnelTypes, Types, ZenonT(60)
        <4> QED
          BY <2>3, <3>2, <4>1, ZenonT(60) DEF Placed
      <3> QED
        BY <3>1, <3>2
    <2>9. Steady
      <3>1. ASSUME NEW u \in Tunnels, worker[u] # "none"
            PROVE  worker'[u] # "none" /\ (records[u].stage \notin Active => records'[u].stage \notin Active)
        BY <1>2, <1>4, <2>3, <2>5, <3>1, Types, NothingFacts, ZenonT(60) DEF Drops
      <3> QED
        BY <2>5, <3>1, ZenonT(60) DEF Steady
    <2>10. ASSUME NEW k \in Callers \cup {Main} PROVE Informed(k)'
      BY <1>2, <2>9, InformedStays, ZenonT(60)
    <2>11. todo' \subseteq cancelled'
      BY <1>2, <2>5, Types
    <2> QED
      BY <2>4, <2>6, <2>7, <2>8, <2>10, <2>11, Assemble, ZenonT(60)
  <1> QED
    BY <1>3, <1>6, <1>7

LEMMA AbortHandlersKeeps ==
  ASSUME ManagedInv, AbortHandlers
  PROVE  Kept
  <1>1. UNCHANGED <<phase, records, order, notified, worker, shutdown, todo, managed>>
    BY DEF AbortHandlers
  <1>2. /\ handler' = [t \in Tunnels |-> IF t \in Busy THEN "done" ELSE handler[t]]
        /\ cancelled' = cancelled \cup {t \in Busy : phase[t] \in {"running", "failing"}}
    BY DEF AbortHandlers
  <1>3. /\ caller' \in [Callers \cup {Main} -> CallerRecord]
        /\ caller'[Main].pc = "done" /\ caller'[Main].tunnel = caller[Main].tunnel
        /\ caller'[Main].answer = caller[Main].answer
        /\ \A j \in Callers \cup {Main} : j # Main => caller'[j] = caller[j]
    <2>1. caller' = [caller EXCEPT ![Main].pc = "done"] /\ caller \in [Callers \cup {Main} -> CallerRecord]
      BY Types DEF AbortHandlers, Goto
    <2> QED
      BY <2>1 DEF CallerRecord
  <1>4. cancelled \subseteq cancelled' /\ cancelled' \subseteq Tunnels
    BY <1>2, Types DEF Busy
  <1>5. handler' \in [Tunnels -> {"idle", "starting", "started", "serving", "stopping", "done"}]
    BY <1>2, TunnelTypes, ZenonT(60)
  <1>6. TypeOK'
    BY <1>1, <1>3, <1>4, <1>5, ZenonT(60) DEF ManagedInv, TypeOK, CallerRecord
  <1>7. Cardinality(Busy') <= Slots
    BY <1>2, BusyShrinks DEF Busy
  <1>8. ASSUME NEW t \in Tunnels PROVE Placed(t)'
    <2>1. Placed(t)
      BY DEF ManagedInv
    <2>2. CASE t \in Busy
      <3>1. handler'[t] = "done" /\ (phase[t] = "running" => t \in cancelled') /\ handler[t] # "done"
        BY <1>2, <2>2 DEF Busy
      <3> QED
        BY <1>1, <2>1, <3>1, ZenonT(60) DEF Placed
    <2>3. CASE t \notin Busy
      <3>1. handler'[t] = handler[t]
        BY <1>2, <2>3, ZenonT(60)
      <3> QED
        BY <1>1, <1>4, <3>1, PlacedStays, ZenonT(60) DEF Stays
    <2> QED
      BY <2>2, <2>3
  <1>9. Steady
    BY <1>1, <1>4, ZenonT(60) DEF Steady
  <1>10. Informed(Main)'
    <2>1. Informed(Main)
      BY DEF ManagedInv
    <2> QED
      BY <1>1, <1>3, <2>1, ZenonT(60) DEF Informed
  <1>11. ASSUME NEW j \in Callers \cup {Main} PROVE Informed(j)'
    BY <1>3, <1>9, <1>10, InformedStays, ZenonT(60)
  <1>12. todo' \subseteq cancelled' /\ RegistryStep(records, order, records', order')
    BY <1>1, <1>4, Types, Good, IdleStep, ZenonT(60)
  <1> QED
    BY <1>6, <1>7, <1>8, <1>11, <1>12, Assemble, ZenonT(60)

-----------------------------------------------------------------------------
(* The theorems.                                                           *)

LEMMA InitHolds ==
  ASSUME Init
  PROVE  ManagedInv
  <1>1. TypeOK
    BY ManagedAssumption, ZenonT(60) DEF Init, TunnelInit, TypeOK, Nothing, Phases, Active, Terminal
  <1>2. \A t \in Tunnels : records[t].stage = "absent" /\ records[t].finished = 0
    BY NothingFacts, ZenonT(60) DEF Init
  <1>3. Orderly(records, order)
    <2>1. order = 0 /\ "absent" \notin Terminal
      BY NothingFacts, ZenonT(60) DEF Init
    <2>2. ASSUME NEW t \in Tunnels
          PROVE  records[t].finished <= 0 /\ ~(records[t].finished > 0) /\ records[t].stage \notin Terminal
      BY <1>2, <2>1
    <2> QED
      BY <2>1, <2>2, ZenonT(60) DEF Orderly
  <1>4. ASSUME NEW owners PROVE Count(records, Active, owners) = 0 /\ Count(records, Terminal, owners) = 0
    <2>1. Members(records, Active, owners) = {} /\ Members(records, Terminal, owners) = {}
      BY <1>2, NothingFacts DEF Members
    <2> QED
      BY <2>1, Counted, FS_EmptySet, ZenonT(60)
  <1>5. Cardinality(Busy) = 0
    <2>1. Busy = {}
      BY DEF Busy, Init
    <2> QED
      BY <2>1, FS_EmptySet
  <1>6. CapsHold
    BY <1>4, <1>5, CapsAreNumbers DEF CapsHold
  <1>7. \A t \in Tunnels : Placed(t)
    BY <1>2, NothingFacts, ZenonT(60) DEF Placed, Init, TunnelInit
  <1>8. \A k \in Callers \cup {Main} : Informed(k)
    BY ZenonT(60) DEF Informed, Init
  <1> QED
    BY <1>1, <1>3, <1>6, <1>7, <1>8, ZenonT(60) DEF ManagedInv, Init

LEMMA StutterKeeps ==
  ASSUME ManagedInv, UNCHANGED vars
  PROVE  Kept
  <1>1. TypeOK' /\ CapsHold' /\ Orderly(records, order)' /\ todo' \subseteq cancelled'
    BY ZenonT(60) DEF vars, ManagedInv, TypeOK, CapsHold, Busy, Orderly, Count
  <1>2. \A t \in Tunnels : Placed(t)'
    BY ZenonT(60) DEF vars, ManagedInv, Placed
  <1>3. \A k \in Callers \cup {Main} : Informed(k)'
    BY ZenonT(60) DEF vars, ManagedInv, Informed
  <1>4. Forward(records, records')
    BY Good, IdleStep DEF vars, RegistryStep
  <1> QED
    BY <1>1, <1>2, <1>3, <1>4 DEF Kept, ManagedInv

LEMMA NextKeeps ==
  ASSUME ManagedInv, [Next]_vars
  PROVE  Kept
  <1>1. CASE UNCHANGED vars
    BY <1>1, StutterKeeps
  <1>2. ASSUME NEW t \in Tunnels, HandlerStep(t) PROVE Kept
    BY <1>2, StartTunnelKeeps, RegisterKeeps, ReportReadyKeeps, ControlStopsKeeps, HandlerEndsKeeps, ZenonT(60)
       DEF HandlerStep, ServeShutdown
  <1>3. ASSUME NEW t \in Tunnels, WorkerStep(t) PROVE Kept
    BY <1>3, WorkerDeadlineKeeps, WorkerEndsKeeps DEF WorkerStep, WorkerShutdown
  <1>4. ASSUME NEW t \in Tunnels,
               \/ AcquireSlot(t) \/ AbandonStart(t) \/ ContextFails(t) \/ ControlStops(t)
               \/ Status(t) \/ WorkerDeadline(t) \/ TunnelFails(t) \/ TunnelEnds(t)
        PROVE  Kept
    BY <1>4, AcquireSlotKeeps, AbandonStartKeeps, ContextFailsKeeps, ControlStopsKeeps, StatusKeeps,
       WorkerDeadlineKeeps, TunnelFailsKeeps, TunnelEndsKeeps, ZenonT(60)
  <1>5. ASSUME NEW t \in Tunnels, NEW k \in Callers, CancelRequest(k, t) PROVE Kept
    BY <1>5, CancelRequestKeeps
  <1>6. ASSUME NEW k \in Callers \cup {Main}, CallerStep(k) PROVE Kept
    BY <1>6, ArmKeeps, LookKeeps, WokenKeeps, ExpireKeeps, FinalKeeps, ZenonT(60) DEF CallerStep
  <1>7. CASE MainStep
    BY <1>7, MarkAllKeeps, MainFailsKeeps, AbortHandlersKeeps, CancelRequestKeeps DEF MainStep
  <1>8. CASE Shutdown
    BY <1>8, ShutdownKeeps
  <1> QED
    BY <1>1, <1>2, <1>3, <1>4, <1>5, <1>6, <1>7, <1>8, ZenonT(60) DEF Next

\* The registry of managed tunnels, the handlers, the workers, the callers and
\* the daemon's shutdown keep ManagedInv.
THEOREM ManagedInvariant == Spec => []ManagedInv
  <1>1. Init => ManagedInv
    BY InitHolds
  <1>2. ManagedInv /\ [Next]_vars => ManagedInv'
    BY NextKeeps DEF Kept
  <1> QED
    BY <1>1, <1>2, PTL DEF Spec

\* Every variable keeps its type.
THEOREM TypeCorrect == Spec => []TypeOK
  <1>1. ManagedInv => TypeOK
    BY DEF ManagedInv
  <1> QED
    BY <1>1, ManagedInvariant, PTL

\* No tunnel runs on its own: one that nobody has cancelled is held by the handler
\* of its control connection or watched by its worker with an active record; and
\* the caps on active and finished records and on control slots hold.
THEOREM TunnelsSafe == Spec => []TunnelsAreKept
  <1>1. ManagedInv => TunnelsAreKept
    BY ZenonT(60) DEF ManagedInv, Placed, TunnelsAreKept, NoRunawayTunnel
  <1> QED
    BY <1>1, ManagedInvariant, PTL

\* `cancel_and_wait' never answers Closed for a tunnel whose task has not ended well,
\* and never a stage that may still change; nor does a record say Closed too early.
THEOREM AnswersSafe == Spec => []AnswersAreTrue
  <1>1. ManagedInv => AnswersAreTrue
    <2> SUFFICES ASSUME ManagedInv PROVE AnswersAreTrue
      BY ZenonT(60)
    <2>1. \A k \in Callers : At(k, "done") => caller[k].answer \notin Active
      BY ManagedAssumption, ZenonT(60) DEF ManagedInv, Informed, At
    <2>2. \A k \in Callers \cup {Main} : caller[k].answer = "Closed" => phase[caller[k].tunnel] = "ok"
      BY ZenonT(60) DEF ManagedInv, Informed
    <2>3. \A t \in Tunnels : records[t].stage = "Closed" => phase[t] = "ok"
      BY DEF ManagedInv, Placed
    <2> QED
      BY <2>1, <2>2, <2>3 DEF AnswersAreTrue
  <1> QED
    BY <1>1, ManagedInvariant, PTL

\* A record of the registry only moves forward: a finished one stays as it was until
\* it is forgotten, no stage goes back, and a revision rises with its stage.
THEOREM RecordsForward == Spec => RecordsMonotone
  <1>1. ManagedInv /\ [Next]_vars => Forward(records, records')
    BY NextKeeps DEF Kept
  <1>2. ManagedInv /\ [Next]_vars =>
          [\A t \in Tunnels :
             LET old == records[t]  new == records'[t]
             IN old.stage # "absent" /\ new.stage # "absent" =>
                  /\ Rank(old.stage) <= Rank(new.stage)
                  /\ old.stage \in Terminal => new = [old EXCEPT !.discovered = new.discovered]
                  /\ old.stage # new.stage /\ t \in Contexts => new.revision > old.revision
                  /\ old.discovered => new.discovered]_vars
    BY <1>1 DEF Forward
  <1> QED
    BY <1>2, ManagedInvariant, PTL DEF Spec, RecordsMonotone

===============================================================================
