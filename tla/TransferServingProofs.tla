------------------------ MODULE TransferServingProofs ------------------------
(***************************************************************************)
(* What the registry of transfers and the handlers of TransferServing keep *)
(* true, for any number of requests, ids and owners, any size and caps and *)
(* any set of faults.                                                      *)
(*                                                                         *)
(* The registry's part is counting: `Newest' leaves at most `cap' records, *)
(* and the records it drops are older than those it leaves.  The handlers' *)
(* part is `RecordTrue': what a record may say follows from where the      *)
(* request that made it is, and nobody else can change a record that       *)
(* carries an operation context.                                           *)
(***************************************************************************)
EXTENDS TransferServing, FiniteSetTheorems, TLAPS

USE DEF registryVars

\* SMT first, Z3 by its own name next, then Zenon, for every leaf that names no prover.
USE SMTT(60), Z3T(60), ZenonT(60)

Ended == {"report", "conclude", "expire", "closed", "left"}
Early == {"begin", "announce", "negotiate", "announce_backend", "setup", "open"}
Whole == {"verify", "commit", "learn", "cleanup", "report"}

\* Record rec of id i is the one of request q.
Rightful(i, rec, q) ==
  /\ q.id = i /\ q.owner = rec.owner /\ q.context = rec.progress.context
  /\ q.pc # "begin"

\* What record rec says is true of its request q and of the destination d.
RecordTrue(rec, q, d) ==
  /\ rec.progress.confirmed <= q.confirmed
  /\ rec.done > 0 => q.pc \in Ended
  /\ rec.done = 0 => q.pc \notin {"report", "closed"}
  /\ rec.progress.stage = "completed" =>
       rec.done > 0 /\ d.commit = "yes" /\ rec.progress.confirmed = Size
  /\ rec.progress.event \in {"failed", "cancelled"} =>
       rec.done > 0 /\ (q.kind = "native_push" => q.sent = "no")

\* Request q of s knows no more than its destination d has told it.
RequestTrue(s, q, d) ==
  /\ q.context \in {s, Nothing}
  /\ q.confirmed <= d.acked
  /\ q.pc \in Early => q.confirmed = 0 /\ q.sent = "no" /\ d.commit = "no"
  /\ q.pc \in Whole => q.confirmed = Size
  /\ q.pc \in {"cleanup", "report"} => d.commit = "yes"
  /\ q.pc = "commit" => q.sent = "yes"
  /\ q.kind \in {"native_push", "sftp_push"} /\ q.sent = "no" => d.commit = "no"

\* A context that was told is marked as told as long as its record is there.
ShownOnce(s) ==
  /\ shown[s] <= 1
  /\ shown[s] = 1 => ~At(s, "begin")
  /\ \A i \in Ids : shown[s] = 1 /\ records[i] # Nothing /\ records[i].by = s =>
       records[i].discovered = "yes"

ServingInv ==
  /\ TypeOK
  /\ OrdersDistinct
  /\ CapsHold
  /\ \A i \in Ids : records[i] # Nothing => Rightful(i, records[i], server[records[i].by])
  /\ \A i \in Ids : Bound(i) => RecordTrue(records[i], server[records[i].by], dest[records[i].by])
  /\ \A s \in Servers : RequestTrue(s, server[s], dest[s]) /\ ShownOnce(s)
  /\ \A s \in Servers : At(s, "begin") => server[s].stage = "negotiating"

-----------------------------------------------------------------------------
(* Counting.                                                               *)

\* Sets of ids are finite: their cardinalities are numbers, and grow with them.
LEMMA Counts ==
  ASSUME NEW T \in SUBSET Ids, NEW S \in SUBSET T
  PROVE  /\ IsFiniteSet(T) /\ Cardinality(T) \in Nat /\ Cardinality(S) \in Nat
         /\ Cardinality(S) <= Cardinality(T)
         /\ Cardinality(S) = Cardinality(T) => S = T
  <1>1. IsFiniteSet(Ids)
    BY RegistryAssumption
  <1>2. IsFiniteSet(T) /\ S \in SUBSET T
    BY <1>1, FS_Subset
  <1>3. IsFiniteSet(S) /\ Cardinality(S) <= Cardinality(T) /\ (Cardinality(S) = Cardinality(T) => S = T)
    BY <1>2, FS_Subset
  <1> QED
    BY <1>2, <1>3, FS_CardinalityType

\* The records of S that finished no earlier than i.
Since(r, S, i) == {j \in S : r[j].done >= r[i].done}

\* Of records with different completion orders the later has the fewer after it.
LEMMA LaterIsFewer ==
  ASSUME NEW S \in SUBSET Ids, NEW r, \A i \in S : r[i].done \in Nat,
         NEW i \in S, NEW j \in S, r[i].done < r[j].done
  PROVE  /\ Since(r, S, j) \in SUBSET Since(r, S, i)
         /\ Cardinality(Since(r, S, j)) < Cardinality(Since(r, S, i))
  <1>1. Since(r, S, j) \in SUBSET Since(r, S, i) /\ Since(r, S, i) \in SUBSET Ids
    BY DEF Since
  <1>2. i \in Since(r, S, i) /\ i \notin Since(r, S, j)
    BY DEF Since
  <1>3. /\ Cardinality(Since(r, S, i)) \in Nat /\ Cardinality(Since(r, S, j)) \in Nat
        /\ Cardinality(Since(r, S, j)) <= Cardinality(Since(r, S, i))
        /\ Cardinality(Since(r, S, j)) # Cardinality(Since(r, S, i))
    BY <1>1, <1>2, Counts
  <1> QED
    BY <1>1, <1>3

\* What `remove_oldest_finished_locked' leaves is no more than the cap: the
\* numbers of records since each of them are different, and at most the cap.
LEMMA NewestWithinCap ==
  ASSUME NEW S \in SUBSET Ids, NEW r, \A i \in S : r[i].done \in Nat,
         \A i, j \in S : r[i].done = r[j].done => i = j, NEW cap \in Nat
  PROVE  Cardinality(Newest(r, S, cap)) <= cap
  <1> DEFINE N == Newest(r, S, cap)
             f == [i \in N |-> Cardinality(Since(r, S, i))]
  <1>1. N \in SUBSET S /\ N \in SUBSET Ids
    BY DEF Newest
  <1>2. IsFiniteSet(N) /\ Cardinality(N) \in Nat
    BY <1>1, Counts
  <1>3. IsFiniteSet(1..cap) /\ Cardinality(1..cap) = cap
    BY FS_Interval
  <1>4. ASSUME NEW i \in N PROVE f[i] \in 1..cap
    <2>1. i \in S /\ Cardinality(Since(r, S, i)) <= cap
      BY DEF Newest, Since
    <2>2. {i} \in SUBSET Since(r, S, i) /\ Since(r, S, i) \in SUBSET Ids
      BY <2>1 DEF Since
    <2>3. Cardinality({i}) = 1
      BY FS_Singleton, ZenonT(60)
    <2>4. Cardinality(Since(r, S, i)) \in Nat /\ 1 <= Cardinality(Since(r, S, i))
      BY <2>2, <2>3, Counts
    <2> QED
      BY <2>1, <2>4
  <1>5. f \in [N -> 1..cap]
    BY <1>4
  <1>6. SUFFICES ASSUME cap < Cardinality(N) PROVE FALSE
    BY <1>2
  <1>7. PICK x \in N, y \in N : x # y /\ f[x] = f[y]
    <2> HIDE DEF N, f
    <2> QED
      BY <1>2, <1>3, <1>5, <1>6, FS_PigeonHole
  <1>8. Cardinality(Since(r, S, x)) = Cardinality(Since(r, S, y)) /\ x \in S /\ y \in S
    BY <1>1, <1>7
  <1>9. r[x].done < r[y].done \/ r[y].done < r[x].done
    BY <1>7, <1>8
  <1>10. Cardinality(Since(r, S, x)) \in Nat /\ Cardinality(Since(r, S, y)) \in Nat
    BY Counts DEF Since
  <1> QED
    BY <1>8, <1>9, <1>10, LaterIsFewer

-----------------------------------------------------------------------------
(* The first state.                                                        *)

LEMMA InitHolds ==
  ASSUME Init
  PROVE  ServingInv
  <1>1. records = [i \in Ids |-> Nothing] /\ order = 0 /\ \A i \in Ids : records[i] = Nothing
    BY DEF Init, RegistryInit
  <1>2. Active(records) = {} /\ Done(records) = {}
    BY <1>1 DEF Active, Done
  <1>3. OrdersDistinct
    BY <1>2 DEF OrdersDistinct
  <1>4. CapsHold
    <2>1. Cardinality({}) = 0
      BY FS_EmptySet
    <2>2. \A o \in Owners : Of(records, o, {}) = {}
      BY DEF Of
    <2>3. 0 <= ActiveGlobal /\ 0 <= DoneGlobal /\ 0 <= ActivePerOwner /\ 0 <= DonePerOwner
      BY RegistryAssumption
    <2> QED
      BY <1>2, <2>1, <2>2, <2>3 DEF CapsHold
  <1>5. ASSUME NEW s \in Servers
        PROVE  /\ server[s] \in Request /\ server[s].pc = "begin" /\ server[s].stage = "negotiating"
               /\ server[s].confirmed = 0 /\ server[s].sent = "no" /\ server[s].context \in {s, Nothing}
               /\ dest[s] = [acked |-> 0, commit |-> "no"] /\ shown[s] = 0
    <2> DEFINE Starts == {[pc |-> "begin", id |-> i, owner |-> o, kind |-> k, context |-> c,
                           stage |-> "negotiating", confirmed |-> 0, sent |-> "no", cancelled |-> "no"] :
                             i \in Ids, o \in Owners, k \in Kinds, c \in Servers \cup {Nothing}}
    <2>1. server[s] \in Starts
      <3>1. server \in [Servers -> Starts]
        BY DEF Init
      <3> HIDE DEF Starts
      <3> QED
        BY <3>1
    <2>2. PICK i \in Ids, o \in Owners, k \in Kinds, c \in Servers \cup {Nothing} :
            server[s] = [pc |-> "begin", id |-> i, owner |-> o, kind |-> k, context |-> c,
                         stage |-> "negotiating", confirmed |-> 0, sent |-> "no", cancelled |-> "no"]
      BY <2>1
    <2>3. 0 \in 0..Size /\ "begin" \in Labels /\ "negotiating" \in Stages
      BY RegistryAssumption DEF Labels, Stages
    <2>4. server[s].context \in {s, Nothing}
      BY DEF Init
    <2>5. dest[s] = [acked |-> 0, commit |-> "no"] /\ shown[s] = 0
      BY DEF Init
    <2> QED
      BY <2>2, <2>3, <2>4, <2>5 DEF Request
  <1>6. TypeOK
    <2>1. RegistryTypeOK
      BY <1>1 DEF RegistryTypeOK
    <2>2. server \in [Servers -> Request]
      <3>1. server = [s \in Servers |-> server[s]]
        BY DEF Init
      <3> QED
        BY <1>5, <3>1
    <2>3. 0 \in 0..Size
      BY RegistryAssumption
    <2>4. dest \in [Servers -> [acked: 0..Size, commit: {"no", "asked", "yes"}]]
      BY <2>3 DEF Init
    <2>5. shown \in [Servers -> 0..2]
      BY DEF Init
    <2> QED
      BY <2>1, <2>2, <2>4, <2>5 DEF TypeOK
  <1>7. ASSUME NEW s \in Servers PROVE RequestTrue(s, server[s], dest[s]) /\ ShownOnce(s)
    <2>1. dest[s].acked = 0 /\ dest[s].commit = "no"
      BY <1>5
    <2> QED
      BY <1>1, <1>5, <2>1 DEF RequestTrue, ShownOnce, Early, Whole
  <1> QED
    BY <1>1, <1>3, <1>4, <1>5, <1>6, <1>7 DEF ServingInv, Bound, At

-----------------------------------------------------------------------------
(* Tables, and what is left of one.                                        *)

Table == [Ids -> Record \cup {Nothing}]

Orderly(r, n) ==
  /\ \A i \in Done(r) : r[i].done <= n
  /\ \A i, j \in Done(r) : r[i].done = r[j].done => i = j

Within(r) ==
  /\ Cardinality(Active(r)) <= ActiveGlobal
  /\ Cardinality(Done(r)) <= DoneGlobal
  /\ \A o \in Owners :
       /\ Cardinality(Of(r, o, Active(r))) <= ActivePerOwner
       /\ Cardinality(Of(r, o, Done(r))) <= DonePerOwner

\* Some records of r are gone in q.
Shrinks(r, q) == q \in Table /\ \A i \in Ids : q[i] = r[i] \/ q[i] = Nothing

\* The records of r and of q have the same owners and the same orders.
Alike(r, q) ==
  /\ q \in Table
  /\ \A i \in Ids :
       /\ q[i] = Nothing <=> r[i] = Nothing
       /\ r[i] # Nothing => q[i].owner = r[i].owner /\ q[i].done = r[i].done

\* What q has dropped of r had finished, before whatever q keeps of its owner.
DropsOldest(r, q) ==
  \A i \in Ids : r[i] # Nothing /\ q[i] = Nothing =>
    /\ i \in Done(r)
    /\ \A j \in Done(q) : r[i].old = "no" /\ q[j].owner = r[i].owner => q[j].done > r[i].done

LEMMA TableFacts ==
  ASSUME NEW r \in Table
  PROVE  /\ \A i \in Ids : r[i] # Nothing => r[i] \in Record /\ r[i].done \in Nat /\ r[i].owner \in Owners
         /\ Active(r) \in SUBSET Ids /\ Done(r) \in SUBSET Ids
         /\ \A o, S : Of(r, o, S) \in SUBSET S
  BY DEF Table, Record, Active, Done, Of

LEMMA ShrinkFacts ==
  ASSUME NEW r \in Table, NEW q, Shrinks(r, q)
  PROVE  /\ q \in Table /\ Active(q) \in SUBSET Active(r) /\ Done(q) \in SUBSET Done(r)
         /\ \A i \in Active(q) \cup Done(q) : q[i] = r[i]
         /\ \A o : /\ Of(q, o, Active(q)) \in SUBSET Of(r, o, Active(r))
                   /\ Of(q, o, Done(q)) \in SUBSET Of(r, o, Done(r))
  BY DEF Shrinks, Active, Done, Of

LEMMA ShrinkKeeps ==
  ASSUME NEW r \in Table, NEW q, Shrinks(r, q), NEW n \in Nat
  PROVE  /\ Orderly(r, n) => Orderly(q, n)
         /\ Within(r) => Within(q)
  <1>1. Orderly(r, n) => Orderly(q, n)
    BY ShrinkFacts, ZenonT(60) DEF Orderly
  <1>2. ASSUME NEW T \in SUBSET Ids, NEW S \in SUBSET T, NEW c \in Nat, Cardinality(T) <= c
        PROVE  Cardinality(S) <= c
    BY <1>2, Counts
  <1>3. ASSUME Within(r) PROVE Within(q)
    <2>1. Cardinality(Active(q)) <= ActiveGlobal /\ Cardinality(Done(q)) <= DoneGlobal
      BY <1>2, <1>3, ShrinkFacts, TableFacts, RegistryAssumption DEF Within
    <2>2. ASSUME NEW o \in Owners
          PROVE  /\ Cardinality(Of(q, o, Active(q))) <= ActivePerOwner
                 /\ Cardinality(Of(q, o, Done(q))) <= DonePerOwner
      <3>1. Of(r, o, Active(r)) \in SUBSET Ids /\ Of(r, o, Done(r)) \in SUBSET Ids
        BY TableFacts
      <3>2. ActivePerOwner \in Nat /\ DonePerOwner \in Nat
        BY RegistryAssumption
      <3> QED
        BY <1>2, <1>3, <3>1, <3>2, ShrinkFacts DEF Within
    <2> QED
      BY <2>1, <2>2, ZenonT(60) DEF Within
  <1> QED
    BY <1>1, <1>3

LEMMA AlikeKeeps ==
  ASSUME NEW r \in Table, NEW q, Alike(r, q), NEW n \in Nat
  PROVE  /\ Active(q) = Active(r) /\ Done(q) = Done(r)
         /\ Orderly(r, n) => Orderly(q, n)
         /\ Within(r) => Within(q)
         /\ DropsOldest(r, q)
  <1>1. Active(q) = Active(r) /\ Done(q) = Done(r)
    BY DEF Alike, Active, Done
  <1>2. \A i \in Active(r) \cup Done(r) : q[i].owner = r[i].owner /\ q[i].done = r[i].done
    BY DEF Alike, Active, Done
  <1>3. \A o : Of(q, o, Active(q)) = Of(r, o, Active(r)) /\ Of(q, o, Done(q)) = Of(r, o, Done(r))
    BY <1>1, <1>2 DEF Of
  <1>4. Orderly(r, n) => Orderly(q, n)
    BY <1>1, <1>2 DEF Orderly
  <1>5. Within(r) => Within(q)
    BY <1>1, <1>3 DEF Within
  <1>6. DropsOldest(r, q)
    BY DEF Alike, DropsOldest
  <1> QED
    BY <1>1, <1>4, <1>5, <1>6

\* `prune_locked' drops finished records past retention and nothing else.
LEMMA PrunedFacts ==
  ASSUME NEW r \in Table
  PROVE  /\ Shrinks(r, Pruned(r)) /\ Pruned(r) \in Table
         /\ Active(Pruned(r)) = Active(r)
         /\ \A i \in Ids : r[i] # Nothing /\ Pruned(r)[i] = Nothing =>
              i \in Done(r) /\ r[i].done > 0 /\ r[i].old = "yes"
  <1>1. Shrinks(r, Pruned(r))
    BY DEF Shrinks, Pruned, Without, Table
  <1>2. \A i \in Ids : r[i] # Nothing /\ Pruned(r)[i] = Nothing =>
          i \in Done(r) /\ r[i].done > 0 /\ r[i].old = "yes"
    BY DEF Pruned, Without, Done
  <1>3. Active(Pruned(r)) = Active(r)
    BY DEF Pruned, Without, Active, Done
  <1> QED
    BY <1>1, <1>2, <1>3 DEF Shrinks

\* q is what is left of r without the finished records of S but for the newest
\* `cap'; n is the order given last.
Trimmed(r, n, S, cap, q) ==
  /\ Shrinks(r, q)
  /\ Active(q) = Active(r)
  /\ Done(q) \cap S = Newest(r, S, cap)
  /\ Cardinality(Newest(r, S, cap)) <= cap
  /\ \A i \in Ids : r[i] # Nothing /\ q[i] = Nothing =>
       /\ i \in S
       /\ \A j \in Done(q) \cap S : r[j].done > r[i].done
  /\ \A k \in Done(r) : r[k].done = n => q[k] = r[k]

\* `remove_oldest_finished_locked', as often as the cap demands.
LEMMA TrimFacts ==
  ASSUME NEW r \in Table, NEW n \in Nat, Orderly(r, n), NEW S \in SUBSET Done(r),
         NEW cap \in Nat \ {0}, NEW q, q = Without(r, S \ Newest(r, S, cap))
  PROVE  Trimmed(r, n, S, cap, q)
  <1>1. Shrinks(r, q)
    BY DEF Shrinks, Without, Table
  <1>2. Active(q) = Active(r)
    BY DEF Without, Active, Done
  <1>3. Newest(r, S, cap) \in SUBSET S /\ S \in SUBSET Ids
    BY DEF Newest, Done
  <1>4. Done(q) \cap S = Newest(r, S, cap)
    BY <1>3, RegistryAssumption DEF Without, Done
  <1>5. \A i \in S : r[i].done \in Nat
    BY <1>3, TableFacts DEF Done
  <1>6. Cardinality(Newest(r, S, cap)) <= cap
    BY <1>3, <1>5, NewestWithinCap DEF Orderly
  <1>7. ASSUME NEW i \in Ids, r[i] # Nothing, q[i] = Nothing
        PROVE  /\ i \in S
               /\ \A j \in Done(q) \cap S : r[j].done > r[i].done
    <2>1. i \in S /\ i \notin Newest(r, S, cap)
      BY <1>7 DEF Without
    <2>2. ASSUME NEW j \in Newest(r, S, cap), ~(r[j].done > r[i].done) PROVE FALSE
      <3>1. j \in S /\ Cardinality(Since(r, S, j)) <= cap /\ ~(Cardinality(Since(r, S, i)) <= cap)
        BY <2>1 DEF Newest, Since
      <3>2. r[i].done \in Nat /\ r[j].done \in Nat /\ i # j
        BY <1>5, <2>1, <3>1
      <3>3. r[j].done < r[i].done
        BY <1>3, <2>1, <2>2, <3>1, <3>2 DEF Orderly
      <3>4. Cardinality(Since(r, S, i)) < Cardinality(Since(r, S, j))
        BY <1>3, <1>5, <2>1, <3>1, <3>3, LaterIsFewer
      <3>5. Cardinality(Since(r, S, i)) \in Nat /\ Cardinality(Since(r, S, j)) \in Nat
        BY <1>3, Counts DEF Since
      <3> QED
        BY <3>1, <3>4, <3>5
    <2> QED
      BY <1>4, <2>1, <2>2, ZenonT(60)
  <1>8. ASSUME NEW k \in Done(r), r[k].done = n PROVE q[k] = r[k]
    <2>1. SUFFICES ASSUME k \in S PROVE k \in Newest(r, S, cap)
      BY DEF Without, Done
    <2>2. Since(r, S, k) = {k}
      BY <1>5, <1>8, <2>1 DEF Since, Orderly
    <2>3. Cardinality(Since(r, S, k)) <= cap
      <3>1. Cardinality({k}) = 1
        BY FS_Singleton, ZenonT(60)
      <3> QED
        BY <2>2, <3>1
    <2> QED
      BY <2>1, <2>3 DEF Newest, Since
  <1> QED
    BY <1>1, <1>2, <1>4, <1>6, <1>7, <1>8, ZenonT(60) DEF Trimmed

\* The caps on finished records, after a record of owner o has finished.
LEMMA CappedFacts ==
  ASSUME NEW r \in Table, NEW n \in Nat, Orderly(r, n), NEW o \in Owners
  PROVE  /\ Shrinks(r, Capped(r, o))
         /\ Active(Capped(r, o)) = Active(r)
         /\ Cardinality(Of(Capped(r, o), o, Done(Capped(r, o)))) <= DonePerOwner
         /\ Cardinality(Done(Capped(r, o))) <= DoneGlobal
         /\ \A i \in Ids : r[i] # Nothing /\ Capped(r, o)[i] = Nothing =>
              /\ i \in Done(r)
              /\ \A j \in Done(Capped(r, o)) : r[j].owner = r[i].owner => r[j].done > r[i].done
         /\ \A k \in Done(r) : r[k].done = n => Capped(r, o)[k] = r[k]
  <1> DEFINE mine == Of(r, o, Done(r))
             own == Without(r, mine \ Newest(r, mine, DonePerOwner))
             q == Without(own, Done(own) \ Newest(own, Done(own), DoneGlobal))
  <1>1. q = Capped(r, o)
    BY DEF Capped
  <1>2. mine \in SUBSET Done(r) /\ DonePerOwner \in Nat \ {0} /\ DoneGlobal \in Nat \ {0}
    BY TableFacts, RegistryAssumption
  <1> HIDE DEF q
  <1>3. Trimmed(r, n, mine, DonePerOwner, own)
    BY <1>2, TrimFacts
  <1> HIDE DEF own
  <1>4. own \in Table /\ Orderly(own, n)
    BY <1>3, ShrinkFacts, ShrinkKeeps DEF Trimmed
  <1>5. Trimmed(own, n, Done(own), DoneGlobal, q)
    BY <1>2, <1>4, TrimFacts DEF q
  <1>6. Shrinks(r, q)
    BY <1>3, <1>5, ZenonT(60) DEF Shrinks, Trimmed
  <1>7. Done(q) \in SUBSET Done(own) /\ Done(own) \in SUBSET Done(r) /\ \A j \in Done(q) : own[j] = r[j] /\ q[j] = r[j]
    BY <1>3, <1>4, <1>5, ShrinkFacts DEF Trimmed
  <1>8. Cardinality(Done(q)) <= DoneGlobal
    <2>1. Done(q) \cap Done(own) = Done(q)
      BY <1>7
    <2> QED
      BY <1>5, <2>1 DEF Trimmed
  <1>9. Cardinality(Of(q, o, Done(q))) <= DonePerOwner
    <2>1. Of(q, o, Done(q)) \in SUBSET Newest(r, mine, DonePerOwner)
      BY <1>3, <1>7 DEF Of, Trimmed
    <2>2. Newest(r, mine, DonePerOwner) \in SUBSET Ids
      BY <1>2, TableFacts DEF Newest
    <2> QED
      BY <1>2, <1>3, <2>1, <2>2, Counts DEF Trimmed
  <1>10. ASSUME NEW i \in Ids, r[i] # Nothing, q[i] = Nothing
         PROVE  /\ i \in Done(r)
                /\ \A j \in Done(q) : r[j].owner = r[i].owner => r[j].done > r[i].done
    <2>1. CASE own[i] = Nothing
      BY <1>2, <1>3, <1>7, <1>10, <2>1, ZenonT(60) DEF Of, Trimmed
    <2>2. CASE own[i] # Nothing
      <3>1. own[i] = r[i] /\ i \in Done(own)
        BY <1>3, <1>5, <1>10, <2>2 DEF Shrinks, Trimmed
      <3> QED
        BY <1>5, <1>7, <1>10, <2>2, <3>1 DEF Trimmed
    <2> QED
      BY <2>1, <2>2
  <1>11. ASSUME NEW k \in Done(r), r[k].done = n PROVE q[k] = r[k]
    <2>1. own[k] = r[k] /\ k \in Done(own)
      BY <1>3, <1>11 DEF Done, Trimmed
    <2> QED
      BY <1>5, <1>11, <2>1, ZenonT(60) DEF Trimmed
  <1>12. Active(q) = Active(r)
    BY <1>3, <1>5 DEF Trimmed
  <1> QED
    BY <1>1, <1>6, <1>8, <1>9, <1>10, <1>11, <1>12

-----------------------------------------------------------------------------
(* The calls of the registry.                                              *)

\* From table r to table q a registration only goes forward.
MovesForward(r, q) ==
  \A i \in Ids : r[i] # Nothing /\ q[i] # Nothing /\ r[i].by = q[i].by =>
    /\ q[i].progress # r[i].progress => q[i].revision > r[i].revision
    /\ q[i].revision >= r[i].revision
    /\ q[i].progress.confirmed >= r[i].progress.confirmed
    /\ q[i].owner = r[i].owner
    /\ q[i].progress.context = r[i].progress.context
    /\ r[i].done > 0 => q[i].done >= r[i].done
    /\ r[i].discovered = "yes" => q[i].discovered = "yes"

RegistryGood == records \in Table /\ order \in Nat /\ Orderly(records, order) /\ Within(records)

\* What every call does to a good registry.
RegistryKept == RegistryGood' /\ DropsOldest(records, records') /\ MovesForward(records, records')

\* A record that stays as it is has gone forward.
LEMMA SameForward ==
  ASSUME NEW r \in Table, NEW i \in Ids, r[i] # Nothing
  PROVE  /\ r[i].revision >= r[i].revision
         /\ r[i].progress.confirmed >= r[i].progress.confirmed
         /\ r[i].done >= r[i].done
  <1>1. r[i].revision \in Nat /\ r[i].done \in Nat /\ r[i].progress.confirmed \in 0..Size /\ Size \in Nat
    BY RegistryAssumption DEF Table, Record, Progress
  <1> QED
    BY <1>1

LEMMA ShrinkForward ==
  ASSUME NEW r \in Table, NEW q, Shrinks(r, q)
  PROVE  MovesForward(r, q)
  BY SameForward DEF Shrinks, MovesForward

\* A call that first prunes, and then changes no owner and no order.
LEMMA PrunedAlike ==
  ASSUME RegistryGood, NEW q, Alike(Pruned(records), q)
  PROVE  q \in Table /\ Orderly(q, order) /\ Within(q) /\ DropsOldest(records, q)
  <1> DEFINE r == Pruned(records)
  <1>1. /\ Shrinks(records, r) /\ r \in Table
        /\ \A i \in Ids : records[i] # Nothing /\ r[i] = Nothing =>
             i \in Done(records) /\ records[i].done > 0 /\ records[i].old = "yes"
    BY PrunedFacts DEF RegistryGood
  <1> HIDE DEF r
  <1>2. Orderly(r, order) /\ Within(r)
    BY <1>1, ShrinkKeeps DEF RegistryGood
  <1>3. Orderly(q, order) /\ Within(q) /\ q \in Table
    BY <1>1, <1>2, AlikeKeeps DEF RegistryGood, Alike, r
  <1>4. DropsOldest(records, q)
    BY <1>1 DEF DropsOldest, Alike, r
  <1> QED
    BY <1>3, <1>4

LEMMA PruneCall ==
  ASSUME RegistryGood, RegistryPrune
  PROVE  RegistryKept /\ Shrinks(records, records')
  <1>1. Shrinks(records, Pruned(records)) /\ Pruned(records) \in Table
    BY PrunedFacts DEF RegistryGood
  <1>2. Alike(Pruned(records), Pruned(records))
    BY <1>1 DEF Alike
  <1> QED
    BY <1>1, <1>2, PrunedAlike, ShrinkForward DEF RegistryPrune, RegistryKept, RegistryGood

LEMMA DiscoverCall ==
  ASSUME RegistryGood, NEW S, RegistryDiscover(S)
  PROVE  /\ RegistryKept
         /\ \A i \in Ids : records'[i] # Nothing =>
              /\ records[i] # Nothing /\ Pruned(records)[i] = records[i]
              /\ records'[i] = IF i \in S THEN [records[i] EXCEPT !.discovered = "yes"] ELSE records[i]
  <1> DEFINE r == Pruned(records)
  <1>1. Shrinks(records, r) /\ r \in Table /\ records \in Table
    BY PrunedFacts DEF RegistryGood
  <1>2. \A i \in Ids : records'[i] = IF i \in S /\ r[i] # Nothing
                                     THEN [r[i] EXCEPT !.discovered = "yes"] ELSE r[i]
    BY DEF RegistryDiscover
  <1> HIDE DEF r
  <1>3. ASSUME NEW i \in Ids, r[i] # Nothing
        PROVE  /\ [r[i] EXCEPT !.discovered = "yes"] \in Record
               /\ [r[i] EXCEPT !.discovered = "yes"] # Nothing
               /\ [r[i] EXCEPT !.discovered = "yes"].owner = r[i].owner
               /\ [r[i] EXCEPT !.discovered = "yes"].done = r[i].done
               /\ [r[i] EXCEPT !.discovered = "yes"].by = r[i].by
               /\ [r[i] EXCEPT !.discovered = "yes"].progress = r[i].progress
               /\ [r[i] EXCEPT !.discovered = "yes"].revision = r[i].revision
               /\ [r[i] EXCEPT !.discovered = "yes"].discovered = "yes"
    <2>1. r[i] \in Record
      BY <1>1, <1>3 DEF Table
    <2> QED
      BY <2>1, RegistryAssumption DEF Record
  <1>4. Alike(r, records')
    <2>1. records' \in Table
      BY <1>1, <1>2, <1>3 DEF Table, RegistryDiscover, r
    <2> QED
      BY <1>2, <1>3, <2>1, ZenonT(60) DEF Alike
  <1>5. RegistryGood' /\ DropsOldest(records, records')
    BY <1>4, PrunedAlike DEF RegistryGood, RegistryDiscover, r
  <1>6. ASSUME NEW i \in Ids, records'[i] # Nothing
        PROVE  /\ records[i] # Nothing /\ r[i] = records[i]
               /\ records'[i] = IF i \in S THEN [records[i] EXCEPT !.discovered = "yes"] ELSE records[i]
    <2>1. r[i] # Nothing
      BY <1>2, <1>6, ZenonT(60)
    <2>2. r[i] = records[i]
      BY <1>1, <2>1, ZenonT(60) DEF Shrinks
    <2> QED
      BY <1>2, <2>1, <2>2, ZenonT(60)
  <1>7. MovesForward(records, records')
    <2> SUFFICES ASSUME NEW i \in Ids, records[i] # Nothing, records'[i] # Nothing
                 PROVE  /\ records'[i].progress = records[i].progress /\ records'[i].revision = records[i].revision
                        /\ records'[i].owner = records[i].owner /\ records'[i].done = records[i].done
                        /\ records[i].discovered = "yes" => records'[i].discovered = "yes"
      BY <1>1, SameForward DEF MovesForward
    <2>1. CASE i \in S
      <3>1. r[i] = records[i] /\ r[i] # Nothing /\ records'[i] = [r[i] EXCEPT !.discovered = "yes"]
        BY <1>6, <2>1, ZenonT(60)
      <3> QED
        BY <1>3, <3>1
    <2>2. CASE i \notin S
      BY <1>6, <2>2, ZenonT(60)
    <2> QED
      BY <2>1, <2>2
  <1> QED
    BY <1>5, <1>6, <1>7 DEF RegistryKept, r

LEMMA AgeCall ==
  ASSUME RegistryGood, NEW n, RegistryAge(n)
  PROVE  /\ RegistryKept
         /\ \A i \in Ids : records'[i] # Nothing =>
              /\ records[i] # Nothing
              /\ records'[i] = [records[i] EXCEPT !.old = "yes"] \/ records'[i] = records[i]
  <1>1. records \in Table
    BY DEF RegistryGood
  <1>2. \A i \in Ids : records'[i] = IF i \in Done(records) /\ records[i].done <= n
                                     THEN [records[i] EXCEPT !.old = "yes"] ELSE records[i]
    BY DEF RegistryAge
  <1>3. ASSUME NEW i \in Ids, records[i] # Nothing
        PROVE  /\ records'[i] \in Record /\ records'[i] # Nothing
               /\ records'[i].owner = records[i].owner /\ records'[i].done = records[i].done
               /\ records'[i].progress = records[i].progress /\ records'[i].revision = records[i].revision
               /\ records'[i].discovered = records[i].discovered
    <2>1. records[i] \in Record
      BY <1>1, <1>3 DEF Table
    <2>2. records'[i] = [records[i] EXCEPT !.old = "yes"] \/ records'[i] = records[i]
      BY <1>2
    <2> QED
      BY <2>1, <2>2, RegistryAssumption DEF Record
  <1>4. \A i \in Ids : records[i] = Nothing => records'[i] = Nothing
    BY <1>2, ZenonT(60) DEF Done
  <1>5. Alike(records, records')
    <2>1. records' \in Table
      BY <1>3, <1>4 DEF Table, RegistryAge
    <2> QED
      BY <1>3, <1>4, <2>1 DEF Alike
  <1>6. RegistryGood' /\ DropsOldest(records, records')
    BY <1>5, AlikeKeeps, ZenonT(60) DEF RegistryGood, RegistryAge, Alike
  <1>7. MovesForward(records, records')
    BY <1>1, <1>3, SameForward DEF MovesForward
  <1> QED
    BY <1>2, <1>4, <1>6, <1>7 DEF RegistryKept

\* A record that takes new progress with its old owner and order.
LEMMA ReplaceCall ==
  ASSUME RegistryGood, NEW i \in Ids, NEW x \in Record, records[i] # Nothing,
         x.owner = records[i].owner, x.done = records[i].done, x.discovered = records[i].discovered,
         x.revision = records[i].revision + 1, x.progress.context = records[i].progress.context,
         x.progress.confirmed >= records[i].progress.confirmed,
         records' = [records EXCEPT ![i] = x], order' = order
  PROVE  RegistryKept
  <1>1. records \in Table /\ x # Nothing /\ records' \in Table
    BY RegistryAssumption DEF RegistryGood, Table
  <1>2. Alike(records, records')
    BY <1>1 DEF Alike, Table
  <1>3. RegistryGood' /\ DropsOldest(records, records')
    BY <1>2, AlikeKeeps, ZenonT(60) DEF RegistryGood, Alike
  <1>4. MovesForward(records, records')
    <2>1. records[i].revision \in Nat /\ records[i].done \in Nat
      BY <1>1 DEF Table, Record
    <2>2. x.revision > records[i].revision /\ x.revision >= records[i].revision /\ x.done >= records[i].done
      BY <2>1
    <2>3. records'[i] = x /\ \A j \in Ids : j # i => records'[j] = records[j]
      BY <1>1 DEF Table
    <2> QED
      BY <1>1, <2>2, <2>3, SameForward DEF MovesForward
  <1> QED
    BY <1>3, <1>4 DEF RegistryKept

LEMMA ReplacedFacts ==
  ASSUME NEW rec \in Record, NEW p \in Progress
  PROVE  /\ Replaced(rec, p) \in Record
         /\ Replaced(rec, p).owner = rec.owner /\ Replaced(rec, p).by = rec.by
         /\ Replaced(rec, p).done = rec.done /\ Replaced(rec, p).old = rec.old
         /\ Replaced(rec, p).discovered = rec.discovered /\ Replaced(rec, p).progress = p
         /\ Replaced(rec, p).revision = rec.revision + 1
  <1>1. rec.revision + 1 \in Nat
    BY DEF Record
  <1>2. Replaced(rec, p) \in Record
    BY <1>1, ZenonT(60) DEF Replaced, Record
  <1> QED
    BY <1>2 DEF Replaced, Record

LEMMA UpdateCall ==
  ASSUME RegistryGood, NEW i \in Ids, NEW o, NEW p \in Progress, RegistryUpdate(i, o, p)
  PROVE  /\ RegistryKept
         /\ \A j \in Ids : j # i => records'[j] = records[j]
         /\ records'[i] = Replaced(records[i], p)
  <1>1. records \in Table /\ records[i] \in Record /\ records[i] # Nothing
    BY DEF RegistryGood, Table, RegistryUpdate, Accepts
  <1>2. records' = [records EXCEPT ![i] = Replaced(records[i], p)] /\ order' = order
    BY <1>1 DEF RegistryUpdate, Table
  <1>3. p.confirmed >= records[i].progress.confirmed /\ p.context = records[i].progress.context
    BY DEF RegistryUpdate, Accepts
  <1>4. RegistryKept
    BY <1>1, <1>2, <1>3, ReplacedFacts, ReplaceCall, ZenonT(60)
  <1> QED
    BY <1>1, <1>2, <1>4 DEF Table

LEMMA CancelCall ==
  ASSUME RegistryGood, NEW i \in Ids, NEW o, NEW ctx, RegistryCancel(i, o, ctx)
  PROVE  /\ RegistryKept
         /\ \A j \in Ids : j # i => records'[j] = records[j]
         /\ records[i] # Nothing /\ records[i].done = 0
         /\ records'[i] = Replaced(records[i], [records[i].progress EXCEPT !.event = "cancel_requested"])
  <1> DEFINE p == [records[i].progress EXCEPT !.event = "cancel_requested"]
  <1>1. records \in Table /\ records[i] \in Record /\ records[i] # Nothing /\ records[i].done = 0
    BY DEF RegistryGood, Table, RegistryCancel, MayCancel
  <1>2. records[i].progress \in Progress /\ records[i].progress.confirmed \in 0..Size
    BY <1>1 DEF Record, Progress
  <1>3. /\ p \in Progress /\ p.context = records[i].progress.context
        /\ p.confirmed = records[i].progress.confirmed
    BY <1>2 DEF Progress, Events
  <1>4. p.confirmed >= records[i].progress.confirmed
    BY <1>2, <1>3, RegistryAssumption
  <1>5. records' = [records EXCEPT ![i] = Replaced(records[i], p)] /\ order' = order
    BY <1>1, ZenonT(60) DEF RegistryCancel, Table, Replaced, Record
  <1>6. RegistryKept
    BY <1>1, <1>3, <1>4, <1>5, ReplacedFacts, ReplaceCall, ZenonT(60)
  <1> QED
    BY <1>1, <1>5, <1>6 DEF Table

\* `begin': HasRoom leaves a place for one more active record.
LEMMA BeginCall ==
  ASSUME RegistryGood, NEW i \in Ids, NEW o \in Owners, NEW s \in Servers, NEW p \in Progress,
         \A j \in Ids : records[j] # Nothing => records[j].by # s,
         RegistryBegin(i, o, s, p)
  PROVE  /\ RegistryKept
         /\ \A j \in Ids : j # i => records'[j] = records[j] \/ records'[j] = Nothing
         /\ records'[i] = Fresh(o, s, p)
  <1> DEFINE r == Pruned(records)
             x == Fresh(o, s, p)
  <1>1. /\ Shrinks(records, r) /\ r \in Table /\ records \in Table
        /\ \A j \in Ids : records[j] # Nothing /\ r[j] = Nothing =>
             j \in Done(records) /\ records[j].done > 0 /\ records[j].old = "yes"
    BY PrunedFacts DEF RegistryGood
  <1>2. Orderly(r, order) /\ Within(r)
    BY <1>1, ShrinkKeeps DEF RegistryGood
  <1>3. HasRoom(r, o) /\ r[i] = Nothing /\ records' = [r EXCEPT ![i] = x] /\ order' = order
    BY ZenonT(60) DEF RegistryBegin, MayBegin
  <1>4. x \in Record /\ x # Nothing /\ x.done = 0 /\ x.owner = o /\ x.by = s
    <2>1. x \in Record
      BY DEF Fresh, Record
    <2> QED
      BY <2>1, RegistryAssumption DEF Fresh
  <1> HIDE DEF r, x
  <1>5. /\ records' \in Table /\ records'[i] = x /\ \A j \in Ids : j # i => records'[j] = r[j]
    BY <1>1, <1>3, <1>4 DEF Table
  <1>6. Done(records') = Done(r) /\ Active(records') = Active(r) \cup {i} /\ i \notin Active(r)
    BY <1>3, <1>4, <1>5 DEF Done, Active
  <1>7. /\ \A u : Of(records', u, Done(records')) = Of(r, u, Done(r))
        /\ \A u : u # o => Of(records', u, Active(records')) = Of(r, u, Active(r))
        /\ Of(records', o, Active(records')) = Of(r, o, Active(r)) \cup {i}
    <2>1. \A j \in Done(r) \cup Active(r) : records'[j] = r[j] /\ j # i
      BY <1>3, <1>5, ZenonT(60) DEF Done, Active
    <2> QED
      BY <1>4, <1>5, <1>6, <2>1 DEF Of
  <1>8. ASSUME NEW S \in SUBSET Active(r), NEW cap \in Nat, Cardinality(S) < cap
        PROVE  Cardinality(S \cup {i}) <= cap
    <2>1. S \in SUBSET Ids /\ i \notin S
      BY <1>6 DEF Active
    <2>2. IsFiniteSet(S) /\ Cardinality(S) \in Nat
      BY <2>1, Counts
    <2>3. Cardinality(S \cup {i}) = Cardinality(S) + 1
      BY <2>1, <2>2, FS_AddElement, ZenonT(60)
    <2> QED
      BY <1>8, <2>2, <2>3
  <1>9. Within(records')
    <2>1. Cardinality(Active(records')) <= ActiveGlobal
      BY <1>3, <1>6, <1>8, RegistryAssumption, ZenonT(60) DEF HasRoom
    <2>2. Cardinality(Of(records', o, Active(records'))) <= ActivePerOwner
      <3>1. Of(r, o, Active(r)) \in SUBSET Active(r) /\ Cardinality(Of(r, o, Active(r))) < ActivePerOwner
        BY <1>3, ZenonT(60) DEF Of, HasRoom
      <3> QED
        BY <1>7, <1>8, <3>1, RegistryAssumption
    <2> QED
      BY <1>2, <1>6, <1>7, <2>1, <2>2 DEF Within
  <1>10. Orderly(records', order)
    BY <1>2, <1>3, <1>5, <1>6 DEF Orderly, Done
  <1>11. DropsOldest(records, records')
    BY <1>1, <1>4, <1>5, ZenonT(60) DEF DropsOldest
  <1>12. MovesForward(records, records')
    BY <1>1, <1>4, <1>5, SameForward DEF MovesForward, Shrinks
  <1>13. RegistryKept
    BY <1>3, <1>5, <1>9, <1>10, <1>11, <1>12, ZenonT(60) DEF RegistryKept, RegistryGood
  <1> QED
    BY <1>1, <1>5, <1>13 DEF Shrinks, x

\* `finish': the record is stamped with the next order, so it is the newest and
\* the caps evict others.
LEMMA FinishCall ==
  ASSUME RegistryGood, NEW i \in Ids, NEW o \in Owners, NEW p \in Progress, RegistryFinish(i, o, p)
  PROVE  /\ RegistryKept
         /\ ~MayFinish(i, o, p) => records' = Pruned(records)
         /\ MayFinish(i, o, p) =>
              /\ records[i] \in Record /\ Accepts(records[i], o, p)
              /\ \A j \in Ids : j # i => records'[j] = records[j] \/ records'[j] = Nothing
              /\ records'[i] = [Replaced(records[i], p) EXCEPT !.done = order + 1, !.old = "no"]
  <1> DEFINE r == Pruned(records)
             x == [Replaced(r[i], p) EXCEPT !.done = order + 1, !.old = "no"]
             m == [r EXCEPT ![i] = x]
  <1>1. /\ Shrinks(records, r) /\ r \in Table /\ records \in Table /\ order \in Nat
        /\ \A j \in Ids : records[j] # Nothing /\ r[j] = Nothing =>
             j \in Done(records) /\ records[j].done > 0 /\ records[j].old = "yes"
    BY PrunedFacts DEF RegistryGood
  <1>2. Orderly(r, order) /\ Within(r)
    BY <1>1, ShrinkKeeps DEF RegistryGood
  <1>3. /\ order' = order + 1
        /\ records' = IF Accepts(r[i], o, p) THEN Capped(m, o) ELSE r
        /\ MayFinish(i, o, p) <=> Accepts(r[i], o, p)
    BY DEF RegistryFinish, MayFinish
  <1>4. CASE ~Accepts(r[i], o, p)
    <2>1. records' = r /\ ~MayFinish(i, o, p)
      BY <1>3, <1>4, ZenonT(60)
    <2>2. Orderly(r, order + 1)
      <3>1. \A j \in Done(r) : r[j].done \in Nat
        BY <1>1, TableFacts, ZenonT(60) DEF Done
      <3> HIDE DEF r
      <3> QED
        BY <1>1, <1>2, <3>1 DEF Orderly
    <2>3. DropsOldest(records, r)
      BY <1>1 DEF DropsOldest
    <2>4. MovesForward(records, r)
      BY <1>1, ShrinkForward, ZenonT(60)
    <2>5. RegistryKept
      BY <1>1, <1>2, <1>3, <2>1, <2>2, <2>3, <2>4 DEF RegistryKept, RegistryGood
    <2> QED
      BY <1>1, <2>1, <2>5
  <1>5. CASE Accepts(r[i], o, p)
    <2>1. r[i] \in Record /\ r[i] # Nothing /\ r[i] = records[i] /\ r[i].owner = o
      BY <1>1, <1>5 DEF Accepts, Shrinks, Table
    <2>2. /\ x \in Record /\ x # Nothing /\ x.done = order + 1 /\ x.owner = o /\ x.by = r[i].by
          /\ x.progress = p /\ x.revision = r[i].revision + 1 /\ x.discovered = r[i].discovered
      <3>1. order + 1 \in Nat /\ Replaced(r[i], p) \in Record
        BY <1>1, <2>1, ReplacedFacts
      <3>2. x \in Record
        BY <3>1, ZenonT(60) DEF Record
      <3>3. x # Nothing
        BY <3>2, RegistryAssumption
      <3>4. /\ x.done = order + 1 /\ x.owner = Replaced(r[i], p).owner /\ x.by = Replaced(r[i], p).by
            /\ x.progress = Replaced(r[i], p).progress /\ x.revision = Replaced(r[i], p).revision
            /\ x.discovered = Replaced(r[i], p).discovered
        BY <3>1 DEF Record
      <3> QED
        BY <2>1, <3>2, <3>3, <3>4, ReplacedFacts, ZenonT(60)
    <2>3. x = [Replaced(records[i], p) EXCEPT !.done = order + 1, !.old = "no"]
      BY <2>1
    <2> HIDE DEF x, r
    <2>4. m \in Table /\ m[i] = x /\ \A j \in Ids : j # i => m[j] = r[j]
      BY <1>1, <2>2 DEF Table
    <2> HIDE DEF m
    <2>5. Done(m) = Done(r) \cup {i} /\ Active(m) = Active(r) \ {i} /\ i \in Done(m)
      BY <1>1, <2>2, <2>4 DEF Done, Active
    <2>6. Orderly(m, order + 1)
      <3>1. \A j \in Done(r) : r[j].done \in Nat /\ r[j].done <= order
        BY <1>1, <1>2, TableFacts, ZenonT(60) DEF Done, Orderly
      <3> QED
        BY <1>1, <1>2, <2>2, <2>4, <2>5, <3>1 DEF Orderly, Done
    <2> DEFINE q == Capped(m, o)
    <2>7. /\ Shrinks(m, q) /\ Active(q) = Active(m)
          /\ Cardinality(Of(q, o, Done(q))) <= DonePerOwner
          /\ Cardinality(Done(q)) <= DoneGlobal
          /\ \A j \in Ids : m[j] # Nothing /\ q[j] = Nothing =>
               /\ j \in Done(m)
               /\ \A k \in Done(q) : m[k].owner = m[j].owner => m[k].done > m[j].done
          /\ \A k \in Done(m) : m[k].done = order + 1 => q[k] = m[k]
      BY <1>1, <2>4, <2>6, CappedFacts
    <2> HIDE DEF q
    <2>8. q[i] = x
      BY <2>2, <2>4, <2>5, <2>7, ZenonT(60)
    <2>9. q \in Table /\ Orderly(q, order + 1)
      BY <1>1, <2>4, <2>6, <2>7, ShrinkFacts, ShrinkKeeps
    <2>10. Within(q)
      <3>1. ASSUME NEW T \in SUBSET Ids, NEW S \in SUBSET T, NEW c \in Nat, Cardinality(T) <= c
            PROVE  Cardinality(S) <= c
        BY <3>1, Counts
      <3>2. Active(q) \in SUBSET Active(r) /\ Active(r) \in SUBSET Ids
        BY <1>1, <2>5, <2>7, TableFacts
      <3>3. ASSUME NEW u \in Owners
            PROVE  Of(q, u, Active(q)) \in SUBSET Of(r, u, Active(r)) /\ Of(r, u, Active(r)) \in SUBSET Ids
        <4>1. \A j \in Active(q) : q[j] = m[j] /\ m[j] = r[j]
          BY <2>4, <2>5, <2>7, <3>2 DEF Shrinks, Active
        <4> QED
          BY <3>2, <4>1 DEF Of
      <3>4. ASSUME NEW u \in Owners, u # o
            PROVE  Of(q, u, Done(q)) \in SUBSET Of(r, u, Done(r)) /\ Of(r, u, Done(r)) \in SUBSET Ids
        <4>1. Done(q) \in SUBSET Done(m) /\ \A j \in Done(q) : q[j] = m[j]
          BY <2>4, <2>7, ShrinkFacts
        <4>2. Done(r) \in SUBSET Ids
          BY <1>1, TableFacts
        <4> QED
          BY <2>2, <2>4, <2>5, <3>4, <4>1, <4>2, ZenonT(60) DEF Of
      <3>5. Cardinality(Active(q)) <= ActiveGlobal
        BY <1>2, <3>1, <3>2, RegistryAssumption DEF Within
      <3>6. ASSUME NEW u \in Owners PROVE Cardinality(Of(q, u, Active(q))) <= ActivePerOwner
        BY <1>2, <3>1, <3>3, RegistryAssumption DEF Within
      <3>7. ASSUME NEW u \in Owners PROVE Cardinality(Of(q, u, Done(q))) <= DonePerOwner
        <4>1. CASE u = o
          BY <2>7, <4>1
        <4>2. CASE u # o
          BY <1>2, <3>1, <3>4, <4>2, RegistryAssumption, ZenonT(60) DEF Within
        <4> QED
          BY <4>1, <4>2
      <3> QED
        BY <2>7, <3>5, <3>6, <3>7 DEF Within
    <2>11. \A j \in Ids : j # i => q[j] = records[j] \/ q[j] = Nothing
      BY <1>1, <2>4, <2>7, ZenonT(60) DEF Shrinks
    <2>12. DropsOldest(records, q)
      <3> SUFFICES ASSUME NEW j \in Ids, records[j] # Nothing, q[j] = Nothing
                   PROVE  /\ j \in Done(records)
                          /\ \A k \in Done(q) : records[j].old = "no" /\ q[k].owner = records[j].owner =>
                               q[k].done > records[j].done
        BY DEF DropsOldest
      <3>1. CASE r[j] = Nothing
        BY <1>1, <3>1, ZenonT(60)
      <3>2. CASE r[j] # Nothing
        <4>1. j # i
          BY <2>2, <2>8, ZenonT(60)
        <4>2. m[j] = records[j] /\ m[j] # Nothing
          BY <1>1, <2>4, <3>2, <4>1, ZenonT(60) DEF Shrinks
        <4>3. j \in Done(m) /\ \A k \in Done(q) : m[k].owner = m[j].owner => m[k].done > m[j].done
          BY <2>7, <4>2, ZenonT(60)
        <4>4. \A k \in Done(q) : q[k] = m[k]
          BY <2>4, <2>7, ShrinkFacts
        <4> QED
          BY <4>2, <4>3, <4>4, ZenonT(60) DEF Done
      <3> QED
        BY <3>1, <3>2
    <2>13. MovesForward(records, q)
      <3>1. records[i].revision \in Nat /\ (records[i].done > 0 => records[i].done \in Nat /\ records[i].done <= order)
        BY <1>1, <2>1, TableFacts, ZenonT(60) DEF RegistryGood, Orderly, Done, Record
      <3>2. x.revision > records[i].revision /\ x.revision >= records[i].revision
            /\ (records[i].done > 0 => x.done >= records[i].done)
        BY <1>1, <2>1, <2>2, <3>1
      <3>3. p.confirmed >= records[i].progress.confirmed /\ p.context = records[i].progress.context
        BY <1>5, <2>1 DEF Accepts
      <3> QED
        BY <1>1, <2>1, <2>2, <2>8, <2>11, <3>2, <3>3, SameForward, ZenonT(60) DEF MovesForward
    <2>14. records' = q /\ MayFinish(i, o, p)
      BY <1>3, <1>5, ZenonT(60) DEF q
    <2>15. RegistryKept
      BY <1>1, <1>3, <2>9, <2>10, <2>12, <2>13, <2>14 DEF RegistryKept, RegistryGood
    <2> QED
      BY <1>5, <2>1, <2>3, <2>8, <2>11, <2>14, <2>15, ZenonT(60)
  <1> QED
    BY <1>4, <1>5, ZenonT(60)

-----------------------------------------------------------------------------
(* A step of a request.                                                    *)

Destination == [acked: 0..Size, commit: {"no", "asked", "yes"}]

\* Requests q and p are the same but for where they are and what they know.
SameRequest(q, p) ==
  q.id = p.id /\ q.owner = p.owner /\ q.kind = p.kind /\ q.context = p.context

\* Records stay whose they are, and those with a context that are not of request
\* s stay as they are.
Touches(s) ==
  \A i \in Ids : records'[i] # Nothing =>
    /\ records[i] # Nothing
    /\ records'[i].by = records[i].by /\ records'[i].owner = records[i].owner
    /\ records'[i].discovered = records[i].discovered
    /\ records'[i].progress.context = records[i].progress.context
    /\ records'[i] = records[i] \/ records'[i].progress.context = Nothing \/ records'[i].by = s

\* The records of request s, if they carry a context, are true of q and d.
OwnTrue(s, q, d) ==
  \A i \in Ids : records'[i] # Nothing /\ records'[i].by = s /\ records'[i].progress.context # Nothing =>
    RecordTrue(records'[i], q, d)

LEMMA ServingFacts ==
  ASSUME ServingInv
  PROVE  /\ RegistryGood
         /\ \A s \in Servers : server[s] \in Request /\ dest[s] \in Destination /\ shown[s] \in 0..2
         /\ \A i \in Ids : records[i] # Nothing =>
              records[i] \in Record /\ records[i].by \in Servers /\ records[i].progress \in Progress
  <1>1. RegistryGood
    BY DEF ServingInv, TypeOK, RegistryTypeOK, RegistryGood, Table, OrdersDistinct, Orderly, CapsHold, Within
  <1> QED
    BY <1>1 DEF ServingInv, TypeOK, RegistryTypeOK, Destination, Record

LEMMA GoodRegistry ==
  ASSUME RegistryGood'
  PROVE  (RegistryTypeOK /\ OrdersDistinct /\ CapsHold)'
  BY ZenonT(60) DEF RegistryTypeOK, RegistryGood, Table, OrdersDistinct, Orderly, CapsHold, Within

\* The invariant after a step in which only request s and its destination move.
LEMMA RequestMoves ==
  ASSUME ServingInv, NEW s \in Servers, NEW q \in Request, NEW d \in Destination,
         SameRequest(q, server[s]), q.pc # "begin",
         server' = [server EXCEPT ![s] = q], dest' = [dest EXCEPT ![s] = d], shown' = shown,
         RegistryKept, Touches(s), RequestTrue(s, q, d), OwnTrue(s, q, d)
  PROVE  ServingInv'
  <1>1. /\ server \in [Servers -> Request] /\ dest \in [Servers -> Destination]
        /\ shown \in [Servers -> 0..2]
    BY DEF ServingInv, TypeOK, Destination
  <1>2. /\ server'[s] = q /\ dest'[s] = d
        /\ \A t \in Servers : t # s => server'[t] = server[t] /\ dest'[t] = dest[t]
    BY <1>1
  <1>3. TypeOK' /\ OrdersDistinct' /\ CapsHold'
    <2>1. server' \in [Servers -> Request] /\ dest' \in [Servers -> Destination]
      BY <1>1, ZenonT(60)
    <2> QED
      BY <1>1, <2>1, GoodRegistry, ZenonT(60) DEF TypeOK, Destination, RegistryKept
  <1>4. ASSUME NEW i \in Ids, records'[i] # Nothing PROVE Rightful(i, records'[i], server'[records'[i].by])
    <2>1. /\ records[i] # Nothing /\ records'[i].by = records[i].by /\ records'[i].owner = records[i].owner
          /\ records'[i].progress.context = records[i].progress.context
      BY <1>4, ZenonT(60) DEF Touches
    <2>2. Rightful(i, records[i], server[records[i].by]) /\ records[i].by \in Servers
      BY <2>1, ServingFacts, ZenonT(60) DEF ServingInv
    <2> QED
      BY <1>2, <2>1, <2>2, ZenonT(60) DEF Rightful, SameRequest
  <1>5. ASSUME NEW i \in Ids, records'[i] # Nothing, records'[i].progress.context # Nothing
        PROVE  RecordTrue(records'[i], server'[records'[i].by], dest'[records'[i].by])
    <2>1. CASE records'[i].by = s
      BY <1>2, <1>5, <2>1 DEF OwnTrue
    <2>2. CASE records'[i].by # s
      <3>1. records'[i] = records[i] /\ records[i] # Nothing
        BY <1>5, <2>2 DEF Touches
      <3>2. RecordTrue(records[i], server[records[i].by], dest[records[i].by]) /\ records[i].by \in Servers
        BY <1>5, <3>1, ServingFacts, ZenonT(60) DEF ServingInv, Bound
      <3> QED
        BY <1>2, <2>2, <3>1, <3>2, ZenonT(60)
    <2> QED
      BY <2>1, <2>2, ZenonT(60)
  <1>6. ASSUME NEW t \in Servers PROVE RequestTrue(t, server'[t], dest'[t]) /\ ShownOnce(t)'
    <2>1. RequestTrue(t, server[t], dest[t]) /\ ShownOnce(t)
      BY DEF ServingInv
    <2>2. RequestTrue(t, server'[t], dest'[t])
      BY <1>2, <2>1
    <2>3. server[t].pc # "begin" => server'[t].pc # "begin"
      BY <1>2, ZenonT(60)
    <2> QED
      BY <2>1, <2>2, <2>3, ZenonT(60) DEF ShownOnce, Touches, At
  <1>7. ASSUME NEW t \in Servers, server'[t].pc = "begin" PROVE server'[t].stage = "negotiating"
    BY <1>2, <1>7 DEF ServingInv, At
  <1> QED
    BY <1>3, <1>4, <1>5, <1>6, <1>7, ZenonT(60) DEF ServingInv, Bound, At

\* A step that does not call the registry.
LEMMA NoCall ==
  ASSUME ServingInv, records' = records, order' = order
  PROVE  RegistryKept /\ \A s : Touches(s)
  <1>1. RegistryGood /\ RegistryGood' /\ records \in Table
    BY ServingFacts DEF RegistryGood
  <1>2. Shrinks(records, records')
    BY <1>1 DEF Shrinks
  <1>3. DropsOldest(records, records') /\ MovesForward(records, records')
    BY <1>1, <1>2, ShrinkForward, ZenonT(60) DEF DropsOldest
  <1> QED
    BY <1>1, <1>3 DEF RegistryKept, Touches

\* What request s knows of a record with its name on it.
LEMMA OwnRecord ==
  ASSUME ServingInv, NEW s \in Servers, NEW i \in Ids, records[i] # Nothing, records[i].by = s
  PROVE  /\ i = server[s].id /\ records[i].owner = server[s].owner
         /\ records[i].progress.context = server[s].context /\ server[s].pc # "begin"
         /\ records[i].progress.context # Nothing => RecordTrue(records[i], server[s], dest[s])
  BY DEF ServingInv, Bound, Rightful

\* A step without a call to a place where the record may be as it is.
LEMMA PlainMove ==
  ASSUME ServingInv, NEW s \in Servers, NEW q \in Request, NEW d \in Destination,
         SameRequest(q, server[s]), server[s].pc # "begin", q.pc # "begin",
         server' = [server EXCEPT ![s] = q], dest' = [dest EXCEPT ![s] = d], shown' = shown,
         records' = records, order' = order, RequestTrue(s, q, d),
         q.confirmed = server[s].confirmed, q.sent = server[s].sent,
         q.pc \notin {"report", "closed"} \/ server[s].pc \in {"report", q.pc},
         server[s].pc \in Ended => q.pc \in Ended /\ (dest[s].commit = "yes" => d.commit = "yes")
  PROVE  ServingInv' /\ RegistryKept
  <1>1. RegistryKept /\ Touches(s)
    BY NoCall, ZenonT(60)
  <1>2. OwnTrue(s, q, d)
    <2> SUFFICES ASSUME NEW i \in Ids, records[i] # Nothing, records[i].by = s, records[i].progress.context # Nothing
                 PROVE  RecordTrue(records[i], q, d)
      BY ZenonT(60) DEF OwnTrue
    <2>1. RecordTrue(records[i], server[s], dest[s])
      BY OwnRecord, ZenonT(60)
    <2>2. records[i].done \in Nat
      BY ServingFacts, ZenonT(60) DEF Record
    <2> QED
      BY <2>1, <2>2, ZenonT(60) DEF RecordTrue, SameRequest, Ended
  <1> QED
    BY <1>1, <1>2, RequestMoves, ZenonT(60)

\* A record with a context accepts progress from its own request only.
LEMMA AcceptedIsOwn ==
  ASSUME ServingInv, NEW s \in Servers, NEW i \in Ids, NEW o, NEW p,
         p.context = server[s].context, Accepts(records[i], o, p)
  PROVE  records[i] # Nothing /\ (p.context = Nothing \/ records[i].by = s)
  <1>1. records[i] # Nothing /\ p.context = records[i].progress.context
    BY DEF Accepts
  <1>2. records[i].by \in Servers /\ p.context = server[records[i].by].context
    BY <1>1, ServingFacts, ZenonT(60) DEF ServingInv, Rightful
  <1>3. p.context \in {s, Nothing} /\ p.context \in {records[i].by, Nothing}
    BY <1>2, ZenonT(60) DEF ServingInv, RequestTrue
  <1> QED
    BY <1>1, <1>3

LEMMA ProgressFacts ==
  ASSUME NEW q \in Request, NEW event \in Events
  PROVE  /\ ProgressOf(q, event) \in Progress
         /\ ProgressOf(q, event).stage = q.stage /\ ProgressOf(q, event).event = event
         /\ ProgressOf(q, event).confirmed = q.confirmed /\ ProgressOf(q, event).context = q.context
  BY DEF ProgressOf, Progress, Request

LEMMA AtFacts ==
  ASSUME NEW q \in Request, NEW label \in Labels
  PROVE  /\ [q EXCEPT !.pc = label] \in Request
         /\ [q EXCEPT !.pc = label].pc = label /\ SameRequest([q EXCEPT !.pc = label], q)
         /\ [q EXCEPT !.pc = label].confirmed = q.confirmed /\ [q EXCEPT !.pc = label].sent = q.sent
         /\ [q EXCEPT !.pc = label].stage = q.stage /\ [q EXCEPT !.pc = label].cancelled = q.cancelled
  BY DEF Request, SameRequest

\* A call of `update' with the request's copy q of the progress.
LEMMA UpdateMove ==
  ASSUME ServingInv, NEW s \in Servers, NEW q \in Request, NEW d \in Destination,
         NEW event \in {"progress", "stalled"}, NEW label \in Labels, NEW failed \in Labels,
         SameRequest(q, server[s]), server[s].pc # "begin", q.stage # "completed",
         server[s].confirmed <= q.confirmed,
         Update(s, q, event, label, failed), dest' = [dest EXCEPT ![s] = d], shown' = shown,
         label # "begin", failed # "begin", label \notin {"report", "closed"},
         server[s].pc \in Ended => label \in Ended,
         RequestTrue(s, [q EXCEPT !.pc = label], d), RequestTrue(s, [q EXCEPT !.pc = failed], d)
  PROVE  ServingInv' /\ RegistryKept
  <1> DEFINE p == ProgressOf(q, event)
             i == q.id
             ok == Accepts(records[i], q.owner, p)
             x == [q EXCEPT !.pc = IF ok THEN label ELSE failed]
  <1>1. RegistryGood /\ server[s] \in Request /\ i \in Ids /\ event \in Events
    BY ServingFacts DEF Request, Events
  <1>2. /\ p \in Progress /\ p.stage = q.stage /\ p.event = event /\ p.confirmed = q.confirmed
        /\ p.context = server[s].context
    BY <1>1, ProgressFacts DEF SameRequest
  <1>3. server' = [server EXCEPT ![s] = x]
    BY DEF Update
  <1>4. RegistryUpdate(i, q.owner, p) \/ (~ok /\ records' = records /\ order' = order)
    BY DEF Update
  <1>5. /\ x \in Request /\ SameRequest(x, server[s]) /\ x.pc # "begin" /\ RequestTrue(s, x, d)
        /\ x.confirmed = q.confirmed /\ (ok => x.pc = label)
    BY AtFacts DEF SameRequest
  <1> HIDE DEF x, p
  <1>6. ASSUME NEW j \in Ids, records[j] # Nothing, records[j].by = s, records[j].progress.context # Nothing
        PROVE  j = i /\ ok /\ RecordTrue(records[j], server[s], dest[s])
    <2>1. /\ j = server[s].id /\ records[j].owner = server[s].owner
          /\ records[j].progress.context = server[s].context
          /\ RecordTrue(records[j], server[s], dest[s])
      BY <1>6, OwnRecord
    <2>2. /\ records[j].progress.confirmed \in 0..Size /\ server[s].confirmed \in 0..Size
          /\ q.confirmed \in 0..Size /\ Size \in Nat
      BY <1>1, <1>6, ServingFacts, RegistryAssumption, ZenonT(60) DEF Progress, Request
    <2>3. q.confirmed >= records[j].progress.confirmed
      BY <2>1, <2>2 DEF RecordTrue
    <2> QED
      BY <1>2, <1>6, <2>1, <2>3, ZenonT(60) DEF Accepts, SameRequest
  <1>7. CASE RegistryUpdate(i, q.owner, p)
    <2>1. /\ RegistryKept /\ \A j \in Ids : j # i => records'[j] = records[j]
          /\ records'[i] = Replaced(records[i], p)
      BY <1>1, <1>2, <1>7, UpdateCall, ZenonT(60)
    <2>2. ok /\ records[i] # Nothing /\ records[i] \in Record /\ p.context = records[i].progress.context
          /\ (p.context = Nothing \/ records[i].by = s)
      <3>1. ok
        BY <1>7, ZenonT(60) DEF RegistryUpdate
      <3>2. records[i] # Nothing /\ (p.context = Nothing \/ records[i].by = s)
        BY <1>1, <1>2, <3>1, AcceptedIsOwn
      <3> QED
        BY <1>1, <3>1, <3>2, ServingFacts DEF Accepts
    <2>3. /\ records'[i].owner = records[i].owner /\ records'[i].by = records[i].by
          /\ records'[i].done = records[i].done /\ records'[i].discovered = records[i].discovered
          /\ records'[i].progress = p
      BY <1>2, <2>1, <2>2, ReplacedFacts
    <2>4. Touches(s)
      BY <2>1, <2>2, <2>3, ZenonT(60) DEF Touches
    <2>5. OwnTrue(s, x, d)
      <3> SUFFICES ASSUME NEW j \in Ids, records'[j] # Nothing, records'[j].by = s,
                          records'[j].progress.context # Nothing
                   PROVE  RecordTrue(records'[j], x, d)
        BY DEF OwnTrue
      <3>1. records[j] # Nothing /\ records[j].by = s /\ records[j].progress.context # Nothing
        BY <2>4 DEF Touches
      <3>2. j = i /\ RecordTrue(records[j], server[s], dest[s])
        BY <1>6, <3>1
      <3>3. q.confirmed \in 0..Size /\ Size \in Nat
        BY RegistryAssumption DEF Request
      <3>4. q.confirmed <= q.confirmed
        BY <3>3
      <3> QED
        BY <1>2, <1>5, <2>2, <2>3, <3>2, <3>4 DEF RecordTrue
    <2> QED
      BY <1>3, <1>5, <2>1, <2>4, <2>5, RequestMoves, ZenonT(60)
  <1>8. CASE ~ok /\ records' = records /\ order' = order
    <2>1. RegistryKept /\ Touches(s)
      BY <1>8, NoCall
    <2>2. OwnTrue(s, x, d)
      BY <1>6, <1>8 DEF OwnTrue
    <2> QED
      BY <1>3, <1>5, <2>1, <2>2, RequestMoves, ZenonT(60)
  <1> QED
    BY <1>4, <1>7, <1>8

\* A call of `finish'; s is done with its transfer once it has made it.
LEMMA FinishMove ==
  ASSUME ServingInv, NEW s \in Servers, NEW d \in Destination, d = dest[s],
         NEW stage \in Stages, NEW event \in Events, NEW label \in Ended, NEW failed \in Labels,
         server[s].pc # "begin", failed # "begin",
         Finish(s, stage, event, label, failed), dest' = dest, shown' = shown,
         RequestTrue(s, [server[s] EXCEPT !.pc = label], d),
         RequestTrue(s, [server[s] EXCEPT !.pc = failed], d),
         stage = "completed" => d.commit = "yes" /\ server[s].confirmed = Size,
         event \in {"failed", "cancelled"} /\ server[s].kind = "native_push" => server[s].sent = "no"
  PROVE  ServingInv' /\ RegistryKept
  <1> DEFINE q == [server[s] EXCEPT !.stage = stage]
             p == ProgressOf(q, event)
             i == q.id
             ok == MayFinish(i, q.owner, p)
             x == [q EXCEPT !.pc = IF ok THEN label ELSE failed]
  <1>1. RegistryGood /\ server[s] \in Request /\ label \in Labels
    BY ServingFacts DEF Ended, Labels
  <1>2. q \in Request /\ SameRequest(q, server[s]) /\ q.confirmed = server[s].confirmed
        /\ q.stage = stage /\ q.sent = server[s].sent
    BY <1>1 DEF Request, SameRequest
  <1>3. /\ server' = [server EXCEPT ![s] = x] /\ RegistryFinish(i, q.owner, p)
    BY DEF Finish
  <1>4. /\ x \in Request /\ SameRequest(x, q) /\ x.confirmed = q.confirmed /\ x.sent = q.sent
        /\ x.pc = IF ok THEN label ELSE failed
    <2> HIDE DEF q
    <2> QED
      BY <1>1, <1>2, AtFacts
  <1>5. SameRequest(x, server[s]) /\ x.pc # "begin"
    BY <1>2, <1>4 DEF SameRequest, Ended
  <1>6. RequestTrue(s, x, d)
    <2>1. CASE ok
      <3>1. /\ [server[s] EXCEPT !.pc = label].pc = label /\ SameRequest([server[s] EXCEPT !.pc = label], server[s])
            /\ [server[s] EXCEPT !.pc = label].confirmed = server[s].confirmed
            /\ [server[s] EXCEPT !.pc = label].sent = server[s].sent
        BY <1>1, AtFacts
      <3> HIDE DEF x, q
      <3> QED
        BY <1>2, <1>4, <2>1, <3>1 DEF RequestTrue, SameRequest
    <2>2. CASE ~ok
      <3>1. /\ [server[s] EXCEPT !.pc = failed].pc = failed /\ SameRequest([server[s] EXCEPT !.pc = failed], server[s])
            /\ [server[s] EXCEPT !.pc = failed].confirmed = server[s].confirmed
            /\ [server[s] EXCEPT !.pc = failed].sent = server[s].sent
        BY <1>1, AtFacts
      <3> HIDE DEF x, q
      <3> QED
        BY <1>2, <1>4, <2>2, <3>1 DEF RequestTrue, SameRequest
    <2> QED
      BY <2>1, <2>2
  <1>7. /\ p \in Progress /\ p.stage = stage /\ p.event = event /\ p.confirmed = server[s].confirmed
        /\ p.context = server[s].context
    <2> HIDE DEF q
    <2> QED
      BY <1>2, ProgressFacts DEF SameRequest
  <1>8. i = server[s].id /\ q.owner = server[s].owner /\ i \in Ids /\ q.owner \in Owners
    BY <1>1, <1>2 DEF SameRequest, Request
  <1> HIDE DEF q, p, x
  <1>9. /\ RegistryKept
        /\ ~ok => records' = Pruned(records)
        /\ ok => /\ records[i] \in Record /\ Accepts(records[i], q.owner, p)
                 /\ \A j \in Ids : j # i => records'[j] = records[j] \/ records'[j] = Nothing
                 /\ records'[i] = [Replaced(records[i], p) EXCEPT !.done = order + 1, !.old = "no"]
    BY <1>1, <1>3, <1>7, <1>8, FinishCall, ZenonT(60)
  <1>10. server[s].confirmed \in 0..Size /\ Size \in Nat /\ server[s].confirmed <= server[s].confirmed
    <2>1. server[s].confirmed \in 0..Size /\ Size \in Nat
      BY <1>1, RegistryAssumption DEF Request
    <2> QED
      BY <2>1
  <1>11. dest' = [dest EXCEPT ![s] = d]
    BY DEF ServingInv, TypeOK
  <1>12. CASE ok
    <2>1. records[i] # Nothing /\ (p.context = Nothing \/ records[i].by = s) /\ p.context = records[i].progress.context
      BY <1>7, <1>8, <1>9, <1>12, AcceptedIsOwn DEF Accepts
    <2>2. /\ records'[i].owner = records[i].owner /\ records'[i].by = records[i].by
          /\ records'[i].done = order + 1 /\ records'[i].discovered = records[i].discovered
          /\ records'[i].progress = p
      <3> DEFINE y == Replaced(records[i], p)
      <3>1. y \in Record /\ y.owner = records[i].owner /\ y.by = records[i].by
            /\ y.discovered = records[i].discovered /\ y.progress = p
        BY <1>7, <1>9, <1>12, ReplacedFacts
      <3>2. records'[i] = [y EXCEPT !.done = order + 1, !.old = "no"]
        BY <1>9, <1>12
      <3> HIDE DEF y
      <3> QED
        BY <3>1, <3>2 DEF Record
    <2>3. order + 1 > 0 /\ order + 1 # 0
      BY <1>1 DEF RegistryGood
    <2>4. Touches(s)
      BY <1>8, <1>9, <1>12, <2>1, <2>2, ZenonT(60) DEF Touches
    <2>5. OwnTrue(s, x, d)
      <3> SUFFICES ASSUME NEW j \in Ids, records'[j] # Nothing, records'[j].by = s,
                          records'[j].progress.context # Nothing
                   PROVE  RecordTrue(records'[j], x, d)
        BY DEF OwnTrue
      <3>1. records[j] # Nothing /\ records[j].by = s
        BY <2>4, ZenonT(60) DEF Touches
      <3>2. j = i
        BY <1>8, <3>1, OwnRecord, ZenonT(60)
      <3> QED
        BY <1>2, <1>4, <1>5, <1>7, <1>10, <1>12, <2>2, <2>3, <3>2, ZenonT(60) DEF RecordTrue, SameRequest
    <2> QED
      BY <1>3, <1>4, <1>5, <1>6, <1>9, <1>11, <2>4, <2>5, RequestMoves, ZenonT(60)
  <1>13. CASE ~ok
    <2>1. records' = Pruned(records) /\ Shrinks(records, records')
      BY <1>1, <1>9, <1>13, PrunedFacts, ZenonT(60) DEF RegistryGood
    <2>2. Touches(s)
      BY <2>1, ZenonT(60) DEF Shrinks, Touches
    <2>3. OwnTrue(s, x, d)
      <3> SUFFICES ASSUME NEW j \in Ids, records'[j] # Nothing, records'[j].by = s,
                          records'[j].progress.context # Nothing
                   PROVE  FALSE
        BY DEF OwnTrue
      <3>1. records[j] = records'[j]
        BY <2>1, ZenonT(60) DEF Shrinks
      <3>2. /\ j = i /\ records[j].owner = server[s].owner
            /\ records[j].progress.context = server[s].context
            /\ RecordTrue(records[j], server[s], dest[s])
        BY <1>8, <3>1, OwnRecord
      <3>3. records[j].progress.confirmed \in 0..Size
        BY <3>1, ServingFacts, ZenonT(60) DEF Progress
      <3>4. server[s].confirmed >= records[j].progress.confirmed
        BY <1>10, <3>2, <3>3 DEF RecordTrue
      <3> QED
        BY <1>7, <1>8, <1>13, <2>1, <3>1, <3>2, <3>4, ZenonT(60) DEF MayFinish, Accepts
    <2> QED
      BY <1>3, <1>4, <1>5, <1>6, <1>9, <1>11, <2>2, <2>3, RequestMoves, ZenonT(60)
  <1> QED
    BY <1>12, <1>13

-----------------------------------------------------------------------------
(* The actions.                                                            *)

Kept == ServingInv' /\ RegistryKept

\* Request s may go to label with what it and its destination know now.
Fits(s, label) ==
  /\ label \in Labels
  /\ label \in Early => server[s].pc \in Early
  /\ label \in Whole => server[s].pc \in Whole
  /\ label \in {"cleanup", "report"} => dest[s].commit = "yes"
  /\ label = "commit" => server[s].sent = "yes"

LEMMA FitsTrue ==
  ASSUME ServingInv, NEW s \in Servers, NEW label, Fits(s, label)
  PROVE  RequestTrue(s, [server[s] EXCEPT !.pc = label], dest[s])
  <1>1. server[s] \in Request /\ label \in Labels /\ RequestTrue(s, server[s], dest[s])
    BY ServingFacts, ZenonT(60) DEF ServingInv, Fits
  <1>2. /\ [server[s] EXCEPT !.pc = label].pc = label /\ SameRequest([server[s] EXCEPT !.pc = label], server[s])
        /\ [server[s] EXCEPT !.pc = label].confirmed = server[s].confirmed
        /\ [server[s] EXCEPT !.pc = label].sent = server[s].sent
    BY <1>1, AtFacts
  <1> QED
    BY <1>1, <1>2, ZenonT(60) DEF RequestTrue, SameRequest, Fits

LEMMA SameDest ==
  ASSUME ServingInv, NEW s \in Servers, dest' = dest
  PROVE  dest' = [dest EXCEPT ![s] = dest[s]] /\ dest[s] \in Destination
  BY ZenonT(60) DEF ServingInv, TypeOK, Destination

LEMMA GoesTo ==
  ASSUME ServingInv, NEW s \in Servers, NEW label, Goto(s, label), Fits(s, label),
         dest' = dest, shown' = shown, records' = records, order' = order,
         server[s].pc # "begin", label # "begin",
         label \notin {"report", "closed"} \/ server[s].pc = "report",
         server[s].pc \in Ended => label \in Ended
  PROVE  Kept
  <1> DEFINE q == [server[s] EXCEPT !.pc = label]
  <1>1. server[s] \in Request /\ label \in Labels
    BY ServingFacts DEF Fits
  <1>2. server' = [server EXCEPT ![s] = q]
    BY DEF Goto, ServingInv, TypeOK
  <1>3. q \in Request /\ q.pc = label /\ SameRequest(q, server[s]) /\ q.confirmed = server[s].confirmed
        /\ q.sent = server[s].sent
    BY <1>1, AtFacts
  <1>4. RequestTrue(s, q, dest[s])
    BY FitsTrue
  <1>5. dest' = [dest EXCEPT ![s] = dest[s]] /\ dest[s] \in Destination
    BY SameDest
  <1> HIDE DEF q
  <1> QED
    BY <1>2, <1>3, <1>4, <1>5, PlainMove, ZenonT(60) DEF Kept

\* The stages that end a request, with the events they may carry.
LEMMA Finishes ==
  ASSUME ServingInv, NEW s \in Servers, NEW stage \in Stages, NEW event \in Events,
         NEW label \in Ended, NEW failed \in Labels,
         Finish(s, stage, event, label, failed), dest' = dest, shown' = shown,
         server[s].pc # "begin", failed # "begin", Fits(s, label), Fits(s, failed),
         stage = "completed" => dest[s].commit = "yes" /\ server[s].confirmed = Size,
         event \in {"failed", "cancelled"} /\ server[s].kind = "native_push" => server[s].sent = "no"
  PROVE  Kept
  BY FitsTrue, SameDest, FinishMove, ZenonT(60) DEF Kept

\* The same call that shows progress, with nothing new known.
LEMMA Shows ==
  ASSUME ServingInv, NEW s \in Servers, NEW q \in Request, NEW event \in {"progress", "stalled"},
         NEW label \in Labels, NEW failed \in Labels,
         SameRequest(q, server[s]), q.confirmed = server[s].confirmed, q.stage # "completed",
         q.sent = server[s].sent,
         Update(s, q, event, label, failed), dest' = dest, shown' = shown,
         server[s].pc # "begin", label # "begin", failed # "begin", label \notin {"report", "closed"},
         server[s].pc \in Ended => label \in Ended, Fits(s, label), Fits(s, failed)
  PROVE  Kept
  <1>1. server[s].confirmed <= q.confirmed
    <2>1. server[s].confirmed \in 0..Size /\ Size \in Nat
      BY ServingFacts, RegistryAssumption DEF Request
    <2> QED
      BY <2>1
  <1>2. ASSUME NEW l \in {label, failed} PROVE RequestTrue(s, [q EXCEPT !.pc = l], dest[s])
    <2>1. RequestTrue(s, [server[s] EXCEPT !.pc = l], dest[s]) /\ server[s] \in Request
      BY FitsTrue, ServingFacts
    <2>2. /\ [server[s] EXCEPT !.pc = l].pc = l /\ SameRequest([server[s] EXCEPT !.pc = l], server[s])
          /\ [server[s] EXCEPT !.pc = l].confirmed = server[s].confirmed
          /\ [server[s] EXCEPT !.pc = l].sent = server[s].sent
      BY <2>1, AtFacts
    <2>3. /\ [q EXCEPT !.pc = l].pc = l /\ SameRequest([q EXCEPT !.pc = l], q)
          /\ [q EXCEPT !.pc = l].confirmed = q.confirmed /\ [q EXCEPT !.pc = l].sent = q.sent
      BY AtFacts
    <2> QED
      BY <2>1, <2>2, <2>3, ZenonT(60) DEF RequestTrue, SameRequest
  <1>3. dest' = [dest EXCEPT ![s] = dest[s]] /\ dest[s] \in Destination
    BY SameDest, ZenonT(60)
  <1> QED
    BY <1>1, <1>2, <1>3, UpdateMove, ZenonT(60) DEF Kept

\* Both error arms first show the stall.
LEMMA ShowsStall ==
  ASSUME ServingInv, NEW s \in Servers, NEW label \in {"conclude", "expire"}, ShowStall(s, label),
         dest' = dest, shown' = shown, server[s].pc # "begin"
  PROVE  Kept
  <1> DEFINE q == [server[s] EXCEPT !.stage = "stalled"]
  <1>1. server[s] \in Request
    BY ServingFacts
  <1>2. q \in Request /\ SameRequest(q, server[s]) /\ q.confirmed = server[s].confirmed
        /\ q.stage # "completed" /\ q.sent = server[s].sent
    BY <1>1 DEF Request, SameRequest, Stages
  <1>3. Update(s, q, "stalled", label, "closed")
    BY ZenonT(60) DEF ShowStall
  <1>4. Fits(s, label) /\ Fits(s, "closed") /\ label \in Ended /\ label # "begin" /\ label \notin {"report", "closed"}
        /\ label \in Labels /\ "closed" \in Labels
    BY DEF Fits, Labels, Early, Whole, Ended
  <1> HIDE DEF q
  <1> QED
    BY <1>2, <1>3, <1>4, Shows

LEMMA BeginKeeps ==
  ASSUME ServingInv, NEW s \in Servers, Begin(s)
  PROVE  Kept
  <1> DEFINE i == server[s].id
             o == server[s].owner
             p == ProgressOf(server[s], "progress")
  <1>1. /\ server[s] \in Request /\ server[s].pc = "begin" /\ server[s].stage = "negotiating"
        /\ RegistryGood /\ i \in Ids /\ o \in Owners /\ dest' = dest /\ shown' = shown
        /\ RequestTrue(s, server[s], dest[s]) /\ server[s].confirmed = 0
    BY ServingFacts, ZenonT(60) DEF Begin, At, ServingInv, Request, RequestTrue, Early
  <1>2. /\ p \in Progress /\ p.stage = "negotiating" /\ p.event = "progress" /\ p.confirmed = 0
        /\ p.context = server[s].context
    BY <1>1, ProgressFacts, ZenonT(60) DEF Events
  <1> HIDE DEF p
  <1>3. \A j \in Ids : records[j] # Nothing => records[j].by # s
    BY <1>1, OwnRecord
  <1>4. CASE /\ ~MayBegin(i, o) /\ RegistryPrune /\ Goto(s, "closed")
    <2> DEFINE q == [server[s] EXCEPT !.pc = "closed"]
    <2>1. RegistryKept /\ Shrinks(records, records')
      BY <1>1, <1>4, PruneCall, ZenonT(60)
    <2>2. Touches(s) /\ \A d : OwnTrue(s, q, d)
      BY <1>3, <2>1 DEF Shrinks, Touches, OwnTrue
    <2>3. "closed" \in Labels /\ Fits(s, "closed")
      BY ZenonT(60) DEF Labels, Fits, Early, Whole
    <2>4. q \in Request /\ q.pc = "closed" /\ SameRequest(q, server[s]) /\ RequestTrue(s, q, dest[s])
      BY <1>1, <2>3, AtFacts, FitsTrue
    <2>5. server' = [server EXCEPT ![s] = q]
      BY <1>4, ZenonT(60) DEF Goto, ServingInv, TypeOK
    <2> HIDE DEF q
    <2> QED
      BY <1>1, <2>1, <2>2, <2>4, <2>5, SameDest, RequestMoves, ZenonT(60) DEF Kept
  <1>5. CASE RegistryBegin(i, o, s, p) /\ Goto(s, "announce")
    <2> DEFINE q == [server[s] EXCEPT !.pc = "announce"]
               x == Fresh(o, s, p)
    <2>1. /\ RegistryKept
          /\ \A j \in Ids : j # i => records'[j] = records[j] \/ records'[j] = Nothing
          /\ records'[i] = x
      BY <1>1, <1>2, <1>3, <1>5, BeginCall, ZenonT(60)
    <2>2. x.by = s /\ x.owner = o /\ x.progress = p /\ x.done = 0 /\ x.discovered = "no"
      BY DEF Fresh
    <2>3. "announce" \in Labels /\ Fits(s, "announce")
      BY <1>1, ZenonT(60) DEF Labels, Fits, Early, Whole
    <2>4. /\ q \in Request /\ q.pc = "announce" /\ SameRequest(q, server[s])
          /\ q.confirmed = 0 /\ RequestTrue(s, q, dest[s])
      BY <1>1, <2>3, AtFacts, FitsTrue
    <2>5. server' = [server EXCEPT ![s] = q]
      BY <1>5, ZenonT(60) DEF Goto, ServingInv, TypeOK
    <2> HIDE DEF q, x
    <2>6. server' \in [Servers -> Request] /\ server'[s] = q /\ \A t \in Servers : t # s => server'[t] = server[t]
      BY <2>4, <2>5 DEF ServingInv, TypeOK
    <2>7. TypeOK' /\ OrdersDistinct' /\ CapsHold'
      BY <1>1, <2>1, <2>6, GoodRegistry, ZenonT(60) DEF TypeOK, ServingInv, RegistryKept
    <2>8. ASSUME NEW j \in Ids, records'[j] # Nothing, j # i
          PROVE  /\ records'[j] = records[j] /\ records[j] # Nothing /\ records[j].by \in Servers
                 /\ records[j].by # s
      BY <1>3, <2>1, <2>8, ServingFacts
    <2>9. ASSUME NEW j \in Ids, records'[j] # Nothing
          PROVE  Rightful(j, records'[j], server'[records'[j].by])
      <3>1. CASE j = i
        BY <1>2, <2>1, <2>2, <2>4, <2>6, <3>1, ZenonT(60) DEF Rightful, SameRequest
      <3>2. CASE j # i
        BY <2>6, <2>8, <2>9, <3>2, ZenonT(60) DEF ServingInv
      <3> QED
        BY <3>1, <3>2, ZenonT(60)
    <2>10. ASSUME NEW j \in Ids, records'[j] # Nothing, records'[j].progress.context # Nothing
           PROVE  RecordTrue(records'[j], server'[records'[j].by], dest'[records'[j].by])
      <3>1. CASE j = i
        <4>1. records'[j] = x /\ records'[j].by = s /\ server'[s] = q
          BY <2>1, <2>2, <2>6, <3>1
        <4>2. /\ x.progress.confirmed = 0 /\ x.progress.stage = "negotiating" /\ x.progress.event = "progress"
              /\ x.done = 0
          BY <1>2, <2>2, ZenonT(60)
        <4>3. RecordTrue(x, q, dest'[s])
          BY <2>4, <4>2 DEF RecordTrue
        <4> QED
          BY <4>1, <4>3, ZenonT(60)
      <3>2. CASE j # i
        BY <1>1, <2>6, <2>8, <2>10, <3>2, ZenonT(60) DEF ServingInv, Bound
      <3> QED
        BY <3>1, <3>2
    <2>11. ASSUME NEW t \in Servers
           PROVE  /\ RequestTrue(t, server'[t], dest'[t]) /\ ShownOnce(t)'
                  /\ server'[t].pc = "begin" => server'[t].stage = "negotiating"
      <3>1. CASE t = s
        <4>1. shown[s] <= 1 /\ shown[s] # 1
          BY <1>1, ZenonT(60) DEF ServingInv, ShownOnce, At
        <4> QED
          BY <1>1, <2>4, <2>6, <3>1, <4>1, ZenonT(60) DEF ShownOnce
      <3>2. CASE t # s
        <4>1. RequestTrue(t, server[t], dest[t]) /\ ShownOnce(t) /\ (server[t].pc = "begin" => server[t].stage = "negotiating")
          BY ZenonT(60) DEF ServingInv, At
        <4>2. \A j \in Ids : records'[j] # Nothing /\ records'[j].by = t => records'[j] = records[j]
          BY <2>1, <2>2, <2>8, <3>2, ZenonT(60)
        <4> QED
          BY <1>1, <2>6, <3>2, <4>1, <4>2, ZenonT(60) DEF ShownOnce, At
      <3> QED
        BY <3>1, <3>2, ZenonT(60)
    <2> QED
      BY <2>1, <2>7, <2>9, <2>10, <2>11, ZenonT(60) DEF Kept, ServingInv, Bound, At
  <1> QED
    BY <1>4, <1>5, ZenonT(60) DEF Begin, p

LEMMA AnnounceKeeps ==
  ASSUME ServingInv, NEW s \in Servers, Announce(s) \/ AnnounceBackend(s) \/ Setup(s)
  PROVE  Kept
  <1>1. CASE \E label \in {"negotiate", "setup", "open", "left"} :
               /\ Goto(s, label)
               /\ server[s].pc \in {"announce", "announce_backend", "setup"}
               /\ UNCHANGED <<registryVars, dest, shown>>
    <2>1. PICK label \in {"negotiate", "setup", "open", "left"} :
               /\ Goto(s, label)
               /\ server[s].pc \in {"announce", "announce_backend", "setup"}
               /\ UNCHANGED <<registryVars, dest, shown>>
      BY <1>1
    <2>2. Fits(s, label) /\ server[s].pc \notin Ended /\ server[s].pc # "begin" /\ label # "begin"
          /\ label \notin {"report", "closed"}
      BY <2>1, ZenonT(60) DEF Fits, Labels, Waiting, Early, Whole, Ended
    <2> QED
      BY <2>1, <2>2, GoesTo, ZenonT(60)
  <1>2. CASE Announce(s) /\ Finish(s, "failed", "failed", "closed", "closed")
    <2>1. server[s].pc = "announce" /\ RequestTrue(s, server[s], dest[s]) /\ dest' = dest /\ shown' = shown
      BY <1>2, ZenonT(60) DEF Announce, At, ServingInv
    <2>2. Fits(s, "closed") /\ "closed" \in Ended /\ "closed" \in Labels /\ "failed" \in Stages /\ "failed" \in Events
      BY ZenonT(60) DEF Fits, Labels, Early, Whole, Ended, Stages, Events
    <2>3. server[s].sent = "no"
      BY <2>1, ZenonT(60) DEF RequestTrue, Early
    <2> QED
      BY <1>2, <2>1, <2>2, <2>3, Finishes, ZenonT(60)
  <1> QED
    BY <1>1, <1>2 DEF Announce, AnnounceBackend, Setup, At

\* The handler learns that n bytes are there and shows it.
LEMMA Reaches ==
  ASSUME ServingInv, NEW s \in Servers, NEW stage \in Stages, NEW n \in 0..Size, NEW d \in Destination,
         NEW label \in {"announce_backend", "chunk", "verify"}, Reach(s, stage, n, label),
         dest' = [dest EXCEPT ![s] = d], shown' = shown, stage # "completed",
         server[s].pc \notin Ended, server[s].pc # "begin",
         server[s].confirmed <= n, n <= d.acked, d.commit = dest[s].commit,
         label = "announce_backend" => n = 0 /\ server[s].pc \in Early,
         label = "verify" => n = Size
  PROVE  Kept
  <1> DEFINE q == [server[s] EXCEPT !.stage = stage, !.confirmed = n]
  <1>1. server[s] \in Request /\ RequestTrue(s, server[s], dest[s])
    BY ServingFacts, ZenonT(60) DEF ServingInv
  <1>2. /\ q \in Request /\ SameRequest(q, server[s]) /\ q.confirmed = n /\ q.stage = stage
        /\ q.sent = server[s].sent
    BY <1>1, ZenonT(60) DEF Request, SameRequest
  <1>3. Update(s, q, "progress", label, "conclude")
    BY ZenonT(60) DEF Reach
  <1> HIDE DEF q
  <1>4. label \in Labels /\ "conclude" \in Labels
    BY DEF Labels, Waiting
  <1>5. ASSUME NEW l \in {label, "conclude"} PROVE RequestTrue(s, [q EXCEPT !.pc = l], d)
    <2>1. /\ [q EXCEPT !.pc = l].pc = l /\ SameRequest([q EXCEPT !.pc = l], q)
          /\ [q EXCEPT !.pc = l].confirmed = n /\ [q EXCEPT !.pc = l].sent = server[s].sent
      BY <1>2, <1>4, AtFacts
    <2> QED
      BY <1>1, <1>2, <2>1, ZenonT(60) DEF RequestTrue, SameRequest, Early, Whole
  <1> QED
    BY <1>2, <1>3, <1>4, <1>5, UpdateMove, ZenonT(60) DEF Kept

\* The destination goes on while the request is where it is.
LEMMA DestinationMoves ==
  ASSUME ServingInv, NEW s \in Servers, NEW d \in Destination, server[s].pc \notin Early,
         dest' = [dest EXCEPT ![s] = d], server' = server, shown' = shown,
         records' = records, order' = order, RequestTrue(s, server[s], d),
         dest[s].commit = "yes" => d.commit = "yes"
  PROVE  Kept
  <1>1. server[s] \in Request /\ server[s].pc # "begin" /\ SameRequest(server[s], server[s])
    BY ServingFacts DEF Early, SameRequest
  <1>2. server' = [server EXCEPT ![s] = server[s]]
    BY ZenonT(60) DEF ServingInv, TypeOK
  <1> QED
    BY <1>1, <1>2, PlainMove, ZenonT(60) DEF Kept

LEMMA Numbers ==
  ASSUME ServingInv, NEW s \in Servers
  PROVE  /\ server[s].confirmed \in 0..Size /\ dest[s].acked \in 0..Size /\ Size \in Nat
         /\ dest[s].commit \in {"no", "asked", "yes"} /\ server[s].sent \in {"yes", "no"}
         /\ RequestTrue(s, server[s], dest[s])
  BY ServingFacts, RegistryAssumption, ZenonT(60) DEF Request, Destination, ServingInv

LEMMA NegotiateKeeps ==
  ASSUME ServingInv, NEW s \in Servers, Negotiate(s)
  PROVE  Kept
  <1>1. /\ server[s].pc = "negotiate" /\ dest' = dest /\ shown' = shown
        /\ server[s].pc \in Early /\ server[s].pc \notin Ended /\ server[s].pc # "begin"
    BY ZenonT(60) DEF Negotiate, At, Early, Ended
  <1>2. server[s].confirmed = 0 /\ server[s].sent = "no"
    BY <1>1, Numbers, ZenonT(60) DEF RequestTrue
  <1>3. CASE Reach(s, "negotiating", 0, "announce_backend")
    <2>1. 0 \in 0..Size /\ server[s].confirmed <= 0 /\ 0 <= dest[s].acked
      BY <1>2, Numbers
    <2>2. dest' = [dest EXCEPT ![s] = dest[s]] /\ dest[s] \in Destination
      BY <1>1, SameDest
    <2>3. "negotiating" \in Stages
      BY ZenonT(60) DEF Stages
    <2> QED
      BY <1>1, <1>3, <2>1, <2>2, <2>3, Reaches, ZenonT(60)
  <1>4. CASE Finish(s, "failed", "failed", "closed", "closed")
    <2>1. Fits(s, "closed") /\ "closed" \in Ended /\ "closed" \in Labels /\ "failed" \in Stages /\ "failed" \in Events
      BY DEF Fits, Labels, Early, Whole, Ended, Stages, Events
    <2> QED
      BY <1>1, <1>2, <1>4, <2>1, Finishes, ZenonT(60)
  <1> QED
    BY <1>3, <1>4, ZenonT(60) DEF Negotiate

LEMMA OpenKeeps ==
  ASSUME ServingInv, NEW s \in Servers, Open(s)
  PROVE  Kept
  <1>1. PICK n \in 0..Size :
          /\ n > 0 => Native(s)
          /\ dest' = [dest EXCEPT ![s].acked = n]
          /\ IF server[s].kind = "sftp_push"
             THEN Goto(s, "chunk") /\ UNCHANGED registryVars
             ELSE Reach(s, "transferring", n, "chunk")
    BY ZenonT(60) DEF Open
  <1>2. /\ server[s].pc = "open" /\ shown' = shown
        /\ server[s].pc \in Early /\ server[s].pc \notin Ended /\ server[s].pc # "begin"
    BY DEF Open, At, Early, Ended
  <1> DEFINE d == [dest[s] EXCEPT !.acked = n]
  <1>3. d \in Destination /\ d.acked = n /\ d.commit = dest[s].commit /\ dest' = [dest EXCEPT ![s] = d]
    BY <1>1, ServingFacts, ZenonT(60) DEF Destination, ServingInv, TypeOK
  <1>4. server[s].confirmed = 0 /\ server[s].confirmed <= n /\ n <= d.acked /\ n \in Nat
    BY <1>2, <1>3, Numbers DEF RequestTrue
  <1> HIDE DEF d
  <1>5. CASE server[s].kind # "sftp_push"
    <2>1. "transferring" \in Stages /\ Reach(s, "transferring", n, "chunk")
      BY <1>1, <1>5 DEF Stages
    <2> QED
      BY <1>2, <1>3, <1>4, <2>1, Reaches, ZenonT(60)
  <1>6. CASE server[s].kind = "sftp_push"
    <2> DEFINE q == [server[s] EXCEPT !.pc = "chunk"]
    <2>1. server' = [server EXCEPT ![s] = q] /\ records' = records /\ order' = order
      BY <1>1, <1>6 DEF Goto, ServingInv, TypeOK
    <2>2. q \in Request /\ q.pc = "chunk" /\ SameRequest(q, server[s]) /\ q.confirmed = server[s].confirmed
          /\ q.sent = server[s].sent
      <3>1. server[s] \in Request /\ "chunk" \in Labels
        BY ServingFacts, ZenonT(60) DEF Labels, Waiting
      <3> QED
        BY <3>1, AtFacts, ZenonT(60)
    <2> HIDE DEF q
    <2>3. RequestTrue(s, q, d)
      BY <1>3, <1>4, <2>2, Numbers, ZenonT(60) DEF RequestTrue, SameRequest, Early, Whole
    <2> QED
      BY <1>2, <1>3, <2>1, <2>2, <2>3, PlainMove, ZenonT(60) DEF Kept
  <1> QED
    BY <1>5, <1>6

LEMMA ChunkKeeps ==
  ASSUME ServingInv, NEW s \in Servers, Acknowledge(s) \/ Confirm(s) \/ EndOfData(s)
  PROVE  Kept
  <1>1. /\ server[s].pc = "chunk" /\ shown' = shown
        /\ server[s].pc \notin Early /\ server[s].pc \notin Ended /\ server[s].pc # "begin"
    BY DEF Acknowledge, Confirm, EndOfData, At, Early, Ended
  <1>2. "transferring" \in Stages /\ "verifying" \in Stages
    BY DEF Stages
  <1>3. CASE Acknowledge(s)
    <2> DEFINE d == [dest[s] EXCEPT !.acked = @ + 1]
    <2>1. dest[s].acked + 1 \in 0..Size /\ server[s].confirmed <= dest[s].acked + 1
      BY <1>3, Numbers DEF Acknowledge
    <2>2. d \in Destination /\ d.acked = dest[s].acked + 1 /\ d.commit = dest[s].commit
          /\ dest' = [dest EXCEPT ![s] = d]
      BY <1>3, <2>1, ServingFacts, ZenonT(60) DEF Destination, ServingInv, TypeOK, Acknowledge
    <2> HIDE DEF d
    <2>3. RequestTrue(s, server[s], d)
      BY <2>1, <2>2, Numbers DEF RequestTrue
    <2>4. server' = server /\ records' = records /\ order' = order
      BY <1>3 DEF Acknowledge
    <2> QED
      BY <1>1, <2>2, <2>3, <2>4, DestinationMoves, ZenonT(60)
  <1>4. CASE Confirm(s)
    <2>1. server[s].confirmed <= dest[s].acked /\ dest[s].acked <= dest[s].acked /\ dest[s].acked \in 0..Size
      BY Numbers DEF RequestTrue
    <2>2. dest' = [dest EXCEPT ![s] = dest[s]] /\ dest[s] \in Destination
      BY <1>4, SameDest DEF Confirm
    <2> QED
      BY <1>1, <1>2, <1>4, <2>1, <2>2, Reaches, ZenonT(60) DEF Confirm
  <1>5. CASE EndOfData(s)
    <2>1. server[s].confirmed <= Size /\ Size <= dest[s].acked /\ Size \in 0..Size
      BY <1>5, Numbers DEF RequestTrue, EndOfData
    <2>2. dest' = [dest EXCEPT ![s] = dest[s]] /\ dest[s] \in Destination
      BY <1>5, SameDest DEF EndOfData
    <2> QED
      BY <1>1, <1>2, <1>5, <2>1, <2>2, Reaches, ZenonT(60) DEF EndOfData
  <1> QED
    BY <1>3, <1>4, <1>5

LEMMA StartCommitKeeps ==
  ASSUME ServingInv, NEW s \in Servers, StartCommit(s)
  PROVE  Kept
  <1> DEFINE q == [server[s] EXCEPT !.stage = "committing", !.sent = "yes"]
  <1>1. /\ server[s].pc = "verify" /\ shown' = shown /\ dest' = dest
        /\ server[s].pc \notin Ended /\ server[s].pc # "begin" /\ server[s].pc \in Whole
    BY ZenonT(60) DEF StartCommit, At, Whole, Ended
  <1>2. server[s] \in Request /\ server[s].confirmed = Size
    BY <1>1, Numbers, ServingFacts, ZenonT(60) DEF RequestTrue
  <1>3. /\ q \in Request /\ SameRequest(q, server[s]) /\ q.confirmed = Size /\ q.stage = "committing"
        /\ q.sent = "yes"
    BY <1>2, ZenonT(60) DEF Request, SameRequest, Stages
  <1>4. Update(s, q, "progress", "commit", "conclude")
    BY DEF StartCommit
  <1> HIDE DEF q
  <1>5. "commit" \in Labels /\ "conclude" \in Labels
    BY DEF Labels, Waiting
  <1>6. ASSUME NEW l \in {"commit", "conclude"} PROVE RequestTrue(s, [q EXCEPT !.pc = l], dest[s])
    <2>1. /\ [q EXCEPT !.pc = l].pc = l /\ SameRequest([q EXCEPT !.pc = l], q)
          /\ [q EXCEPT !.pc = l].confirmed = Size /\ [q EXCEPT !.pc = l].sent = "yes"
      BY <1>3, <1>5, AtFacts
    <2> QED
      BY <1>2, <1>3, <2>1, Numbers, ZenonT(60) DEF RequestTrue, SameRequest, Early, Whole
  <1>7. dest' = [dest EXCEPT ![s] = dest[s]] /\ dest[s] \in Destination
    BY <1>1, SameDest, ZenonT(60)
  <1>8. server[s].confirmed <= q.confirmed
    BY <1>2, <1>3, Numbers
  <1> QED
    BY <1>1, <1>3, <1>4, <1>5, <1>6, <1>7, <1>8, UpdateMove, ZenonT(60) DEF Kept

LEMMA AskKeeps ==
  ASSUME ServingInv, NEW s \in Servers, AskClient(s) \/ AskRemote(s)
  PROVE  Kept
  <1> DEFINE q == [server[s] EXCEPT !.pc = "learn"]
             d == [dest[s] EXCEPT !.commit = "asked"]
  <1>1. /\ server[s].pc \in {"verify", "commit"} /\ shown' = shown /\ records' = records /\ order' = order
        /\ Goto(s, "learn") /\ dest' = [dest EXCEPT ![s].commit = "asked"]
        /\ server[s].pc = "verify" => server[s].kind \notin {"native_push", "sftp_push"}
    BY DEF AskClient, AskRemote, At, Push
  <1>2. server[s].pc \notin Ended /\ server[s].pc # "begin" /\ server[s].pc \in Whole
    BY <1>1 DEF Whole, Ended
  <1>3. server' = [server EXCEPT ![s] = q] /\ dest' = [dest EXCEPT ![s] = d]
    BY <1>1 DEF Goto, ServingInv, TypeOK
  <1>4. d \in Destination /\ d.acked = dest[s].acked /\ d.commit = "asked"
    BY ServingFacts, ZenonT(60) DEF Destination
  <1>5. q \in Request /\ q.pc = "learn" /\ SameRequest(q, server[s]) /\ q.confirmed = server[s].confirmed
        /\ q.sent = server[s].sent
    <2>1. server[s] \in Request /\ "learn" \in Labels
      BY ServingFacts, ZenonT(60) DEF Labels, Waiting
    <2> QED
      BY <2>1, AtFacts
  <1> HIDE DEF q, d
  <1>6. RequestTrue(s, q, d)
    BY <1>1, <1>2, <1>4, <1>5, Numbers DEF RequestTrue, SameRequest, Early
  <1> QED
    BY <1>1, <1>2, <1>3, <1>4, <1>5, <1>6, PlainMove, ZenonT(60) DEF Kept

LEMMA CommitsKeeps ==
  ASSUME ServingInv, NEW s \in Servers, Commits(s)
  PROVE  Kept
  <1> DEFINE d == [dest[s] EXCEPT !.commit = "yes"]
  <1>1. /\ dest[s].commit = "asked" /\ dest' = [dest EXCEPT ![s].commit = "yes"]
        /\ server' = server /\ records' = records /\ order' = order /\ shown' = shown
    BY DEF Commits
  <1>2. d \in Destination /\ d.acked = dest[s].acked /\ d.commit = "yes" /\ dest' = [dest EXCEPT ![s] = d]
    BY <1>1, ServingFacts, ZenonT(60) DEF Destination, ServingInv, TypeOK
  <1> HIDE DEF d
  <1>3. RequestTrue(s, server[s], d) /\ server[s].pc \notin Early
    BY <1>1, <1>2, Numbers DEF RequestTrue
  <1> QED
    BY <1>1, <1>2, <1>3, DestinationMoves, ZenonT(60)

LEMMA LearnKeeps ==
  ASSUME ServingInv, NEW s \in Servers, Learn(s) \/ FinishCommitted(s)
  PROVE  Kept
  <1>1. /\ server[s].pc \in {"learn", "cleanup"} /\ shown' = shown /\ dest' = dest
        /\ server[s].pc = "learn" => dest[s].commit = "yes"
    BY DEF Learn, FinishCommitted, At
  <1>2. server[s].pc \notin Ended /\ server[s].pc # "begin" /\ server[s].pc \in Whole
    BY <1>1, ZenonT(60) DEF Whole, Ended
  <1>3. dest[s].commit = "yes" /\ server[s].confirmed = Size
    BY <1>1, <1>2, Numbers, ZenonT(60) DEF RequestTrue
  <1>4. /\ Fits(s, "report") /\ Fits(s, "conclude") /\ Fits(s, "closed") /\ Fits(s, "cleanup")
        /\ "report" \in Ended /\ "closed" \in Labels /\ "conclude" \in Labels
        /\ "completed" \in Stages /\ "completed" \in Events
    BY <1>2, <1>3, ZenonT(60) DEF Fits, Labels, Waiting, Early, Whole, Ended, Stages, Events
  <1>5. CASE Goto(s, "cleanup") /\ records' = records /\ order' = order
    BY <1>1, <1>2, <1>4, <1>5, GoesTo, ZenonT(60)
  <1>6. CASE \E failed \in {"conclude", "closed"} : Finish(s, "completed", "completed", "report", failed)
    BY <1>1, <1>2, <1>3, <1>4, <1>6, Finishes, ZenonT(60)
  <1> QED
    BY <1>5, <1>6, ZenonT(60) DEF Learn, FinishCommitted

LEMMA ReportKeeps ==
  ASSUME ServingInv, NEW s \in Servers, Report(s) \/ Bail(s) \/ Stall(s) \/ Deadline(s) \/ Dropped(s)
  PROVE  Kept
  <1>1. /\ server[s].pc # "begin" /\ shown' = shown /\ dest' = dest
    BY ZenonT(60) DEF Report, Bail, Stall, Deadline, Dropped, At, Waiting
  <1>2. Fits(s, "closed") /\ Fits(s, "conclude") /\ Fits(s, "left")
    BY DEF Fits, Labels, Early, Whole
  <1>3. CASE \E label \in {"conclude", "expire"} : ShowStall(s, label)
    BY <1>1, <1>3, ShowsStall, ZenonT(60)
  <1>4. CASE /\ \E label \in {"closed", "conclude", "left"} :
                  Goto(s, label) /\ (label = "closed" => server[s].pc = "report")
             /\ records' = records /\ order' = order
    BY <1>1, <1>2, <1>4, GoesTo, ZenonT(60) DEF Ended
  <1> QED
    BY <1>3, <1>4, ZenonT(60) DEF Report, Bail, Stall, Deadline, Dropped, At

LEMMA ConcludeKeeps ==
  ASSUME ServingInv, NEW s \in Servers, Conclude(s) \/ Expire(s)
  PROVE  Kept
  <1>1. server[s].pc # "begin" /\ shown' = shown /\ dest' = dest
    BY DEF Conclude, Expire, At
  <1>2. /\ Fits(s, "closed") /\ "closed" \in Ended /\ "closed" \in Labels
        /\ "failed" \in Stages /\ "cancelled" \in Stages
        /\ "failed" \in Events /\ "cancelled" \in Events /\ "outcome_unknown" \in Events
    BY ZenonT(60) DEF Fits, Labels, Early, Whole, Ended, Stages, Events
  <1>3. ~InDoubt(s) /\ server[s].kind = "native_push" => server[s].sent = "no"
    BY Numbers, ZenonT(60) DEF InDoubt
  <1>4. PICK stage \in {"failed", "cancelled"}, event \in {"failed", "cancelled", "outcome_unknown"} :
          /\ Finish(s, stage, event, "closed", "closed")
          /\ InDoubt(s) => event = "outcome_unknown"
    BY ZenonT(60) DEF Conclude, Expire
  <1> QED
    BY <1>1, <1>2, <1>3, <1>4, Finishes, ZenonT(60)

\* A step of the table alone, which leaves every record that stays with its
\* owner, its request, its progress and its end.
LEMMA TableMoves ==
  ASSUME ServingInv, RegistryKept, server' = server, dest' = dest, shown' \in [Servers -> 0..2],
         \A i \in Ids : records'[i] # Nothing =>
           /\ records[i] # Nothing /\ records'[i].by = records[i].by /\ records'[i].owner = records[i].owner
           /\ records'[i].progress = records[i].progress /\ records'[i].done = records[i].done,
         \A s \in Servers : ShownOnce(s)'
  PROVE  Kept
  <1>1. TypeOK' /\ OrdersDistinct' /\ CapsHold'
    BY GoodRegistry, ZenonT(60) DEF TypeOK, ServingInv, RegistryKept
  <1>2. ASSUME NEW i \in Ids, records'[i] # Nothing PROVE Rightful(i, records'[i], server'[records'[i].by])
    <2>1. Rightful(i, records[i], server[records[i].by])
      BY <1>2, ZenonT(60) DEF ServingInv
    <2> QED
      BY <1>2, <2>1, ZenonT(60) DEF Rightful
  <1>3. ASSUME NEW i \in Ids, records'[i] # Nothing, records'[i].progress.context # Nothing
        PROVE  RecordTrue(records'[i], server'[records'[i].by], dest'[records'[i].by])
    <2>1. RecordTrue(records[i], server[records[i].by], dest[records[i].by])
      BY <1>3, ZenonT(60) DEF ServingInv, Bound
    <2> QED
      BY <1>3, <2>1, ZenonT(60) DEF RecordTrue
  <1>4. \A s \in Servers : RequestTrue(s, server'[s], dest'[s]) /\ (server'[s].pc = "begin" => server'[s].stage = "negotiating")
    BY ZenonT(60) DEF ServingInv, At
  <1> QED
    BY <1>1, <1>2, <1>3, <1>4, ZenonT(60) DEF Kept, ServingInv, Bound, At

LEMMA AgeKeeps ==
  ASSUME ServingInv, Age
  PROVE  Kept
  <1>1. PICK n : RegistryAge(n)
    BY DEF Age
  <1>2. /\ RegistryKept
        /\ \A i \in Ids : records'[i] # Nothing =>
             /\ records[i] # Nothing
             /\ records'[i] = [records[i] EXCEPT !.old = "yes"] \/ records'[i] = records[i]
    BY <1>1, AgeCall, ServingFacts
  <1>3. ASSUME NEW i \in Ids, records'[i] # Nothing
        PROVE  /\ records[i] # Nothing /\ records'[i].by = records[i].by /\ records'[i].owner = records[i].owner
               /\ records'[i].progress = records[i].progress /\ records'[i].done = records[i].done
               /\ records'[i].discovered = records[i].discovered
    BY <1>2, <1>3, ServingFacts, ZenonT(60) DEF Record
  <1>4. server' = server /\ dest' = dest /\ shown' = shown /\ shown \in [Servers -> 0..2]
    BY ZenonT(60) DEF Age, ServingInv, TypeOK
  <1>5. ASSUME NEW s \in Servers PROVE ShownOnce(s)'
    <2>1. ShownOnce(s)
      BY DEF ServingInv
    <2> QED
      BY <1>3, <1>4, <2>1, ZenonT(60) DEF ShownOnce, At
  <1> QED
    BY <1>2, <1>3, <1>4, <1>5, TableMoves, ZenonT(60)

LEMMA CancelKeeps ==
  ASSUME ServingInv, NEW o, NEW i \in Ids, NEW caller, NEW ctx, Cancel(o, i, caller, ctx)
  PROVE  Kept
  <1> DEFINE b == records[i].by
             q == [server[b] EXCEPT !.cancelled = "yes"]
             p == [records[i].progress EXCEPT !.event = "cancel_requested"]
  <1>1. /\ RegistryKept
        /\ \A j \in Ids : j # i => records'[j] = records[j]
        /\ records[i] # Nothing /\ records[i].done = 0
        /\ records'[i] = Replaced(records[i], p)
    BY CancelCall, ServingFacts DEF Cancel
  <1>2. b \in Servers /\ records[i] \in Record /\ records[i].progress \in Progress
    BY <1>1, ServingFacts, ZenonT(60)
  <1>3. /\ p \in Progress /\ p.context = records[i].progress.context /\ p.confirmed = records[i].progress.confirmed
        /\ p.stage = records[i].progress.stage /\ p.event = "cancel_requested"
    BY <1>2, ZenonT(60) DEF Progress, Events
  <1> HIDE DEF p
  <1>4. /\ records'[i].owner = records[i].owner /\ records'[i].by = b /\ records'[i].done = 0
        /\ records'[i].discovered = records[i].discovered /\ records'[i].progress = p
    BY <1>1, <1>2, <1>3, ReplacedFacts
  <1>5. /\ server' = [server EXCEPT ![b] = q] /\ dest' = dest /\ shown' = shown
    BY <1>2 DEF Cancel, ServingInv, TypeOK
  <1>6. /\ q \in Request /\ q.pc = server[b].pc /\ SameRequest(q, server[b])
        /\ q.confirmed = server[b].confirmed /\ q.sent = server[b].sent
    BY <1>2, ServingFacts, ZenonT(60) DEF Request, SameRequest
  <1>7. RequestTrue(b, q, dest[b])
    <2> HIDE DEF q, b
    <2> QED
      BY <1>2, <1>6, Numbers, ZenonT(60) DEF RequestTrue, SameRequest
  <1>8. Touches(b)
    BY <1>1, <1>3, <1>4, ZenonT(60) DEF Touches
  <1>9. OwnTrue(b, q, dest[b])
    <2> SUFFICES ASSUME NEW j \in Ids, records'[j] # Nothing, records'[j].by = b,
                        records'[j].progress.context # Nothing
                 PROVE  RecordTrue(records'[j], q, dest[b])
      BY ZenonT(60) DEF OwnTrue
    <2>1. records[j] # Nothing /\ records[j].by = b /\ records[j].progress.context # Nothing
      BY <1>8, ZenonT(60) DEF Touches
    <2>2. j = server[b].id /\ i = server[b].id /\ RecordTrue(records[j], server[b], dest[b])
      BY <1>1, <1>2, <2>1, OwnRecord, ZenonT(60)
    <2> HIDE DEF q, b
    <2> QED
      BY <1>1, <1>3, <1>4, <1>6, <2>2, ZenonT(60) DEF RecordTrue, SameRequest
  <1>10. server[b].pc # "begin" /\ dest' = [dest EXCEPT ![b] = dest[b]] /\ dest[b] \in Destination
    BY <1>1, <1>2, <1>5, OwnRecord, SameDest
  <1> HIDE DEF q, b
  <1> QED
    BY <1>1, <1>2, <1>5, <1>6, <1>7, <1>8, <1>9, <1>10, RequestMoves, ZenonT(60) DEF Kept

LEMMA StatusKeeps ==
  ASSUME ServingInv, NEW o, NEW which, NEW caller, NEW ctx, Status(o, which, caller, ctx)
  PROVE  Kept
  <1> DEFINE r == Pruned(records)
             asked == {i \in Ids : r[i] # Nothing /\ r[i].owner = o /\ which \in {i, Nothing}}
             fresh == {i \in asked : caller = "grant" /\ ctx = Nothing /\ r[i].progress.context # Nothing}
             hidden == {i \in asked : ~Unseen(r, i, caller, ctx)}
  <1>1. PICK S \in SUBSET fresh :
          /\ RegistryDiscover(S) /\ server' = server /\ dest' = dest
          /\ \/ hidden = {} /\ S = fresh /\ Tell(r, fresh)
             \/ shown' = shown
    BY ZenonT(60) DEF Status
  <1>2. /\ RegistryKept
        /\ \A i \in Ids : records'[i] # Nothing =>
             /\ records[i] # Nothing /\ r[i] = records[i]
             /\ records'[i] = IF i \in S THEN [records[i] EXCEPT !.discovered = "yes"] ELSE records[i]
    BY <1>1, DiscoverCall, ServingFacts, ZenonT(60)
  <1>3. ASSUME NEW i \in Ids, records'[i] # Nothing
        PROVE  /\ records[i] # Nothing /\ records'[i].by = records[i].by /\ records'[i].owner = records[i].owner
               /\ records'[i].progress = records[i].progress /\ records'[i].done = records[i].done
               /\ records[i].discovered = "yes" \/ i \in S => records'[i].discovered = "yes"
    BY <1>2, <1>3, ServingFacts, ZenonT(60) DEF Record
  <1>4. \A i \in Ids : r[i] # Nothing => r[i] = records[i]
    BY PrunedFacts, ServingFacts, ZenonT(60) DEF RegistryGood, Shrinks
  <1>5. ASSUME NEW i \in fresh, hidden = {} PROVE i \in Ids /\ r[i] # Nothing /\ r[i].discovered = "no"
    BY <1>5, ZenonT(60) DEF Unseen
  <1> HIDE DEF r, fresh, hidden
  <1>6. ASSUME NEW s \in Servers, hidden = {}, S = fresh, Tell(r, fresh)
        PROVE  ShownOnce(s)' /\ shown'[s] \in 0..2
    <2>1. ShownOnce(s) /\ shown[s] \in 0..2
      BY ServingFacts, ZenonT(60) DEF ServingInv
    <2>2. CASE server[s].id \in fresh /\ r[server[s].id].by = s /\ shown[s] < 2
      <3> DEFINE i == server[s].id
      <3>1. i \in Ids /\ r[i] # Nothing /\ r[i] = records[i] /\ r[i].discovered = "no"
        BY <1>4, <1>5, <1>6, <2>2
      <3>2. records[i] # Nothing /\ records[i].by = s /\ records[i].discovered # "yes" /\ server[s].pc # "begin"
        BY <2>2, <3>1, OwnRecord, ZenonT(60)
      <3>3. shown[s] # 1
        BY <2>1, <3>1, <3>2, ZenonT(60) DEF ShownOnce
      <3>4. shown'[s] = 1
        <4>1. shown'[s] = shown[s] + 1
          BY <1>6, <2>2, ZenonT(60) DEF Tell
        <4>2. shown[s] = 0
          BY <2>1, <3>3 DEF ShownOnce
        <4> QED
          BY <4>1, <4>2
      <3>5. ASSUME NEW j \in Ids, records'[j] # Nothing, records'[j].by = s PROVE records'[j].discovered = "yes"
        <4>1. j = i
          BY <1>3, <3>5, OwnRecord
        <4> QED
          BY <1>3, <1>6, <2>2, <3>5, <4>1, ZenonT(60)
      <3> QED
        BY <1>1, <3>2, <3>4, <3>5 DEF ShownOnce, At
    <2>3. CASE ~(server[s].id \in fresh /\ r[server[s].id].by = s /\ shown[s] < 2)
      <3>1. shown'[s] = shown[s]
        BY <1>6, <2>3, ZenonT(60) DEF Tell
      <3> QED
        BY <1>1, <1>3, <2>1, <3>1, ZenonT(60) DEF ShownOnce, At
    <2> QED
      BY <2>2, <2>3, ZenonT(60)
  <1>7. ASSUME NEW s \in Servers, shown' = shown PROVE ShownOnce(s)'
    <2>1. ShownOnce(s)
      BY ZenonT(60) DEF ServingInv
    <2> QED
      BY <1>1, <1>3, <1>7, <2>1, ZenonT(60) DEF ShownOnce, At
  <1>8. shown' \in [Servers -> 0..2] /\ \A s \in Servers : ShownOnce(s)'
    <2>1. CASE hidden = {} /\ S = fresh /\ Tell(r, fresh)
      <3>1. \A s \in Servers : shown'[s] \in 0..2
        BY <1>6, <2>1, ZenonT(60)
      <3> QED
        BY <1>6, <2>1, <3>1 DEF Tell
    <2>2. CASE shown' = shown
      BY <1>7, <2>2 DEF ServingInv, TypeOK
    <2> QED
      BY <1>1, <2>1, <2>2, ZenonT(60)
  <1> QED
    BY <1>1, <1>2, <1>3, <1>8, TableMoves, ZenonT(60)

LEMMA NextKeeps ==
  ASSUME ServingInv, [Next]_vars
  PROVE  Kept
  <1>1. CASE vars' = vars
    <2>1. records' = records /\ order' = order /\ server' = server /\ dest' = dest /\ shown' = shown
      BY <1>1 DEF vars
    <2>2. RegistryKept
      BY <2>1, NoCall
    <2>3. shown' \in [Servers -> 0..2] /\ \A s \in Servers : ShownOnce(s)'
      BY <2>1, ZenonT(60) DEF ServingInv, TypeOK, ShownOnce, At
    <2> QED
      BY <2>1, <2>2, <2>3, TableMoves
  <1>2. ASSUME NEW s \in Servers, Serve(s) PROVE Kept
    BY <1>2, BeginKeeps, AnnounceKeeps, NegotiateKeeps, OpenKeeps, ChunkKeeps, StartCommitKeeps, AskKeeps,
       LearnKeeps, ReportKeeps, ConcludeKeeps, ZenonT(60) DEF Serve
  <1>3. ASSUME NEW s \in Servers, Acknowledge(s) \/ Commits(s) \/ Dropped(s) PROVE Kept
    BY <1>3, ChunkKeeps, CommitsKeeps, ReportKeeps, ZenonT(60)
  <1>4. ASSUME NEW o \in Owners, NEW caller \in Callers, NEW ctx \in Servers \cup {Nothing},
               \/ \E which \in Ids \cup {Nothing} : Status(o, which, caller, ctx)
               \/ \E i \in Ids : Cancel(o, i, caller, ctx)
        PROVE  Kept
    BY <1>4, StatusKeeps, CancelKeeps
  <1>5. CASE Age
    BY <1>5, AgeKeeps, ZenonT(60)
  <1> QED
    BY <1>1, <1>2, <1>3, <1>4, <1>5, ZenonT(60) DEF Next

-----------------------------------------------------------------------------
(* The theorems.                                                           *)

\* Every step of a handler, of a destination and of another connection keeps
\* what is known of the table and of the requests.
THEOREM ServingInvariant == Spec => []ServingInv
  <1>1. Init => ServingInv
    BY InitHolds
  <1>2. ServingInv /\ [Next]_vars => ServingInv'
    BY NextKeeps DEF Kept
  <1> QED
    BY <1>1, <1>2, PTL DEF Spec

\* The variables keep their types.
THEOREM TypeCorrect == Spec => []TypeOK
  <1>1. ServingInv => TypeOK
    BY DEF ServingInv
  <1> QED
    BY <1>1, ServingInvariant, PTL

\* What a record of an agent's transfer says of confirmed bytes, completion,
\* failure and cancellation is true of the destination.
THEOREM ClaimsSafe == Spec => []ClaimsAreTrue
  <1>1. ServingInv => ClaimsAreTrue
    <2> SUFFICES ASSUME ServingInv PROVE ClaimsAreTrue
      OBVIOUS
    <2>1. ASSUME NEW i \in Ids, Bound(i)
          PROVE  /\ records[i].by \in Servers
                 /\ RecordTrue(records[i], server[records[i].by], dest[records[i].by])
                 /\ RequestTrue(records[i].by, server[records[i].by], dest[records[i].by])
                 /\ records[i].progress.confirmed \in 0..Size
      BY <2>1, ServingFacts, ZenonT(60) DEF ServingInv, Bound, Progress
    <2>2. ASSUME NEW i \in Ids, Bound(i) PROVE records[i].progress.confirmed <= dest[records[i].by].acked
      <3>1. server[records[i].by].confirmed \in 0..Size /\ dest[records[i].by].acked \in 0..Size /\ Size \in Nat
        BY <2>1, <2>2, Numbers
      <3>2. /\ records[i].progress.confirmed <= server[records[i].by].confirmed
            /\ server[records[i].by].confirmed <= dest[records[i].by].acked
        BY <2>1, <2>2, ZenonT(60) DEF RecordTrue, RequestTrue
      <3> QED
        BY <2>1, <2>2, <3>1, <3>2
    <2>3. ClaimsAreProven
      BY <2>1, <2>2, ZenonT(60) DEF ClaimsAreProven, RecordTrue
    <2>4. PushDenialsAreTrue
      BY <2>1, ZenonT(60) DEF PushDenialsAreTrue, RecordTrue, RequestTrue
    <2> QED
      BY <2>3, <2>4 DEF ClaimsAreTrue
  <1> QED
    BY <1>1, ServingInvariant, PTL

\* The registry stays within its caps, keeps active what is being served, is
\* told of the end by the request itself, and gives no context away twice.
THEOREM RegistrySafe == Spec => []RegistryIsSound
  <1>1. ServingInv => RegistryIsSound
    <2> SUFFICES ASSUME ServingInv PROVE RegistryIsSound
      OBVIOUS
    <2>1. ASSUME NEW i \in Ids, Bound(i)
          PROVE  /\ RecordTrue(records[i], server[records[i].by], dest[records[i].by])
                 /\ records[i].progress.context = records[i].by
      <3>1. records[i] # Nothing /\ records[i].progress.context # Nothing /\ records[i].by \in Servers
        BY <2>1, ServingFacts, ZenonT(60) DEF Bound
      <3>2. records[i].progress.context = server[records[i].by].context
        BY <3>1 DEF ServingInv, Rightful
      <3>3. server[records[i].by].context \in {records[i].by, Nothing}
        BY <3>1, ZenonT(60) DEF ServingInv, RequestTrue
      <3> QED
        BY <2>1, <3>1, <3>2, <3>3, ZenonT(60) DEF ServingInv
    <2>2. CapsHold /\ ContextShownOnce
      BY ZenonT(60) DEF ServingInv, ShownOnce, ContextShownOnce
    <2>3. ActiveIsServed
      BY <2>1, ZenonT(60) DEF ActiveIsServed, Active, RecordTrue, At
    <2>4. EndedByItself
      BY <2>1 DEF EndedByItself, Done, RecordTrue, Ended
    <2> QED
      BY <2>2, <2>3, <2>4 DEF RegistryIsSound
  <1> QED
    BY <1>1, ServingInvariant, PTL

\* A registration only goes forward, whatever the requests for it interleave
\* with, until `remove_oldest_finished_locked' or the retention drops it.
THEOREM RecordsForward == Spec => RecordsGoForward
  <1> DEFINE Forward ==
        \A i \in Ids :
          LET old == records[i]
              new == records'[i]
          IN  old # Nothing /\ new # Nothing /\ old.by = new.by =>
                /\ new.progress # old.progress => new.revision > old.revision
                /\ new.revision >= old.revision
                /\ new.progress.confirmed >= old.progress.confirmed
                /\ new.owner = old.owner
                /\ new.progress.context = old.progress.context
                /\ old.done > 0 => new.done >= old.done
                /\ old.discovered = "yes" => new.discovered = "yes"
             Oldest ==
        \A i \in Ids :
          records[i] # Nothing /\ records'[i] = Nothing =>
            /\ i \in Done(records)
            /\ \A j \in Done(records') :
                 records[i].old = "no" /\ records'[j].owner = records[i].owner =>
                   records'[j].done > records[i].done
  <1>1. ServingInv /\ [Next]_vars => [Forward]_registryVars /\ [Oldest]_registryVars
    <2> SUFFICES ASSUME ServingInv, [Next]_vars PROVE Forward /\ Oldest
      OBVIOUS
    <2>1. MovesForward(records, records') /\ DropsOldest(records, records')
      BY NextKeeps DEF Kept, RegistryKept
    <2> QED
      BY <2>1, ZenonT(60) DEF MovesForward, DropsOldest
  <1> QED
    BY <1>1, ServingInvariant, PTL DEF Spec, RecordsGoForward, RegistrationMonotone, EvictsOldestFirst

===============================================================================
