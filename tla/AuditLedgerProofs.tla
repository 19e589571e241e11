--------------------------- MODULE AuditLedgerProofs --------------------------
(***************************************************************************)
(* Proofs about the audit ledger on disk, for every set of request ids,    *)
(* bindings and workers, every log bound and every set of faults.          *)
(***************************************************************************)
EXTENDS AuditLedger, TLAPS

\* SMT first, Z3 by its own name next, then Zenon, for every leaf that names no prover.
USE SMTT(60), Z3T(60), ZenonT(60)

(* Well-formed chains.                                                      *)

\* verify_log's condition on the record at position j.
RecordOK(l, j) ==
    /\ l[j].phase = "Intent" =>
         \A i \in 1..(j - 1) : ~(l[i].phase = "Intent" /\ l[i].id = l[j].id)
    /\ l[j].phase = "Outcome" =>
         /\ \E i \in 1..(j - 1) :
              l[i].phase = "Intent" /\ l[i].id = l[j].id /\ l[i].binding = l[j].binding
         /\ \A i \in 1..(j - 1) : ~(l[i].phase = "Outcome" /\ l[i].id = l[j].id)

\* A chain is well formed when each of its records is.
LEMMA WellFormedPointwise ==
  ASSUME NEW l
  PROVE  WellFormed(l) <=> \A j \in 1..Len(l) : RecordOK(l, j)
  BY DEF WellFormed, RecordOK

\* The condition on a record only reads the records up to it.
LEMMA RecordOKLocal ==
  ASSUME NEW l, NEW m, NEW j \in Nat \ {0}, RecordOK(l, j), \A i \in 1..j : m[i] = l[i]
  PROVE  RecordOK(m, j)
  <1>1. m[j] = l[j]
    OBVIOUS
  <1>2. \A i \in 1..(j - 1) : m[i] = l[i]
    OBVIOUS
  <1> QED
    BY <1>1, <1>2 DEF RecordOK

\* An id that an Intent of the chain carries has been seen.
LEMMA SeenIntentsMember ==
  ASSUME NEW l, NEW i \in 1..Len(l), l[i].phase = "Intent"
  PROVE  l[i].id \in SeenIntents(l)
  BY DEF SeenIntents

\* An id that an Outcome of the chain carries is closed.
LEMMA ClosedIntentsMember ==
  ASSUME NEW l, NEW i \in 1..Len(l), l[i].phase = "Outcome"
  PROVE  l[i].id \in ClosedIntents(l)
  BY DEF ClosedIntents

\* A record that passes the phase check of append keeps the chain acceptable to
\* verify_log.
LEMMA AppendWellFormed ==
  ASSUME NEW l \in Seq(Events), NEW e \in Events, WellFormed(l), Admissible(l, e)
  PROVE  WellFormed(Append(l, e))
  <1> DEFINE m == Append(l, e)
  <1>1. Len(m) = Len(l) + 1 /\ Len(l) \in Nat /\ m[Len(l) + 1] = e
    OBVIOUS
  <1>2. \A i \in 1..Len(l) : m[i] = l[i]
    OBVIOUS
  <1> HIDE DEF m
  <1>3. ASSUME NEW j \in 1..Len(m)
        PROVE  RecordOK(m, j)
    <2>1. CASE j \in 1..Len(l)
      <3>1. \A i \in 1..j : m[i] = l[i]
        BY <1>1, <1>2, <2>1
      <3>2. RecordOK(l, j)
        BY <2>1, WellFormedPointwise
      <3> QED
        BY <2>1, <3>1, <3>2, RecordOKLocal
    <2>2. CASE j = Len(l) + 1
      <3>1. m[j] = e
        BY <1>1, <2>2
      <3>2. \A i \in 1..(j - 1) : i \in 1..Len(l) /\ m[i] = l[i]
        BY <1>1, <1>2, <2>2
      <3>3. ASSUME e.phase = "Intent", NEW i \in 1..(j - 1), m[i].phase = "Intent", m[i].id = e.id
            PROVE  FALSE
        BY <3>2, <3>3, SeenIntentsMember DEF Admissible
      <3>4. ASSUME e.phase = "Outcome", NEW i \in 1..(j - 1), m[i].phase = "Outcome", m[i].id = e.id
            PROVE  FALSE
        BY <3>2, <3>4, ClosedIntentsMember DEF Admissible, PendingIntents
      <3>5. ASSUME e.phase = "Outcome"
            PROVE  \E i \in 1..(j - 1) :
                     m[i].phase = "Intent" /\ m[i].id = e.id /\ m[i].binding = e.binding
        <4>1. PICK i \in 1..Len(l) : l[i].phase = "Intent" /\ l[i].id = e.id /\ l[i].binding = e.binding
          BY <3>5 DEF Admissible, BindingMatches
        <4>2. i \in 1..(j - 1)
          BY <1>1, <2>2
        <4> QED
          BY <1>2, <4>1, <4>2
      <3> QED
        BY <3>1, <3>3, <3>4, <3>5 DEF RecordOK
    <2> QED
      BY <1>1, <2>1, <2>2
  <1> QED
    BY <1>3, WellFormedPointwise, ZenonT(60) DEF m

\* What a crash leaves of a well-formed log is well formed.
LEMMA PrefixWellFormed ==
  ASSUME NEW l \in Seq(Events), NEW k \in 0..Len(l), WellFormed(l)
  PROVE  WellFormed(SubSeq(l, 1, k))
  <1> DEFINE m == SubSeq(l, 1, k)
  <1>1. Len(m) = k /\ Len(l) \in Nat /\ \A i \in 1..k : m[i] = l[i]
    OBVIOUS
  <1> HIDE DEF m
  <1>2. ASSUME NEW j \in 1..Len(m) PROVE RecordOK(m, j)
    <2>1. j \in 1..Len(l) /\ \A i \in 1..j : m[i] = l[i]
      BY <1>1
    <2>2. RecordOK(l, j)
      BY <2>1, WellFormedPointwise
    <2> QED
      BY <2>1, <2>2, RecordOKLocal
  <1> QED
    BY <1>2, WellFormedPointwise, ZenonT(60) DEF m

-------------------------------------------------------------------------------
(* The ledger on disk.                                                      *)

\* The Unknown Outcomes that resolve_pending_as_unknown appends are events.
LEMMA UnknownOutcomesTyped == TypeOK => UnknownOutcomes \subseteq Events
  <1> SUFFICES ASSUME TypeOK, NEW j \in 1..Len(log), log[j].phase = "Intent"
               PROVE  OutcomeOf(log[j].id, log[j].binding, "Unknown") \in Events
    BY DEF UnknownOutcomes
  <1>1. log[j] \in Events
    BY DEF TypeOK
  <1>2. log[j].id \in RequestIds /\ log[j].binding \in Bindings
    BY <1>1 DEF Events, Intents, Outcomes, Administrative
  <1> QED
    BY <1>2, RecordsAssumption DEF Events, Outcomes, OutcomeOf

LEMMA IdleTyped == Idle \in Jobs
  BY LedgerAssumption DEF Idle, Jobs, Kinds, Steps, Events

\* A job that moves on stays a job.
LEMMA GotoTyped ==
    ASSUME job \in [Procs -> Jobs], NEW p \in Procs, NEW step \in Steps, Goto(p, step)
    PROVE  job' \in [Procs -> Jobs]
  BY DEF Goto, Jobs

LEMMA VersionTyped ==
    ASSUME NEW f \in {"absent", "torn", "ok"}, NEW c \in Seq(Events)
    PROVE  Version(f, c) \in Versions /\ Version(f, c).file = f /\ Version(f, c).chain = c
  BY DEF Version, Versions

\* Lying on a chain is transitive.
LEMMA OnChainTransitive ==
    ASSUME NEW a \in Seq(Events), NEW b \in Seq(Events), NEW c \in Seq(Events), OnChain(a, b), OnChain(b, c)
    PROVE  OnChain(a, c)
  BY DEF OnChain

LEMMA OnChainReflexive == \A c \in Seq(Events) : OnChain(c, c)
  BY DEF OnChain

\* What a chain holds, every chain it lies on holds.
LEMMA HoldsOnChain ==
    ASSUME NEW a \in Seq(Events), NEW b \in Seq(Events), OnChain(a, b), NEW E, Holds(a, E)
    PROVE  Holds(b, E)
  BY DEF OnChain, Holds

\* Init establishes the types of the variables.
LEMMA InitTyped == Init => TypeOK
  <1> SUFFICES ASSUME Init PROVE TypeOK
    OBVIOUS
  <1>1. Genesis \in Events
    BY LedgerAssumption DEF Events
  <1>2. log \in Seq(Events) /\ Len(log) \in Nat
    <2>1. <<>> \in Seq(Events) /\ <<Genesis>> \in Seq(Events)
      BY <1>1
    <2>2. log = <<>> \/ log = <<Genesis>>
      BY DEF Init
    <2> QED
      BY <2>1, <2>2, ZenonT(60)
  <1>3. synced \in 0..Len(log)
    BY <1>2 DEF Init
  <1>4. firm \in Versions /\ loose \subseteq Versions
    BY <1>2, VersionTyped DEF Init
  <1> QED
    BY <1>2, <1>3, <1>4, IdleTyped DEF Init, TypeOK

\* Every action, fault and stuttering step preserves the types.
LEMMA StepTyped == TypeOK /\ [Next]_vars => TypeOK'
  <1> SUFFICES ASSUME TypeOK, [Next]_vars PROVE TypeOK'
    OBVIOUS
  <1> USE LedgerAssumption
  <1>1. ASSUME NEW w \in Workers, NEW e \in Intents \cup Outcomes, BeginAppend(w, e) PROVE TypeOK'
    BY <1>1 DEF BeginAppend, Start, TypeOK, Jobs, Kinds, Steps, Events, disk, record, certificate, Procs
  <1>2. CASE BeginResolve \/ BeginReconcile \/ BeginResume
    BY <1>2 DEF BeginResolve, BeginReconcile, BeginResume, Start, TypeOK, Jobs, Kinds, Steps, Events, disk, record, certificate, Procs
  <1>3. CASE BeginCreate
    BY <1>3 DEF BeginCreate, Start, TypeOK, Jobs, Kinds, Steps, Events, Procs, certificate
  <1>4. ASSUME NEW p \in Procs, LockExclusive(p) PROVE TypeOK'
    BY <1>4, ZenonT(60) DEF LockExclusive, Goto, TypeOK, Jobs, Steps, disk, record, certificate
  <1>5. ASSUME NEW p \in Procs, VerifyAppend(p) PROVE TypeOK'
    BY <1>5 DEF VerifyAppend, TypeOK, Jobs, Steps, disk, record, certificate
  <1>6. ASSUME NEW p \in Procs, Refuse(p) PROVE TypeOK'
    BY <1>6, IdleTyped DEF Refuse, Return, TypeOK, disk, record, certificate
  <1>7. ASSUME NEW p \in Procs, WriteRecord(p) PROVE TypeOK'
    <2>1. job[p].cur \in Events
      BY DEF TypeOK, Jobs
    <2>2. log' \in Seq(Events) /\ synced' \in 0..Len(log')
      BY <1>7, <2>1 DEF WriteRecord, TypeOK
    <2>3. job' \in [Procs -> Jobs]
      BY <1>7, GotoTyped DEF WriteRecord, TypeOK, Steps
    <2> QED
      BY <1>7, <2>2, <2>3 DEF WriteRecord, TypeOK, certificate
  <1>8. ASSUME NEW p \in Procs, SyncRecord(p) PROVE TypeOK'
    <2>1. synced' \in 0..Len(log')
      BY <1>8 DEF SyncRecord, TypeOK
    <2>2. job' \in [Procs -> Jobs]
      BY <1>8, GotoTyped DEF SyncRecord, TypeOK, Steps
    <2> QED
      BY <1>8, <2>1, <2>2 DEF SyncRecord, TypeOK, certificate
  <1>9. ASSUME NEW p \in Procs, SyncEntry(p) PROVE TypeOK'
    BY <1>9, ZenonT(60) DEF SyncEntry, Goto, TypeOK, Jobs, Steps, certificate
  <1>10. ASSUME NEW p \in Procs, RenameCheckpoint(p) PROVE TypeOK'
    <2>1. loose' \subseteq Versions
      BY <1>10, VersionTyped DEF RenameCheckpoint, TypeOK
    <2>2. job' \in [Procs -> Jobs]
      BY <1>10, GotoTyped DEF RenameCheckpoint, TypeOK, Steps
    <2> QED
      BY <1>10, <2>1, <2>2 DEF RenameCheckpoint, TypeOK, record
  <1>11. ASSUME NEW p \in Procs, CreateCheckpoint(p) PROVE TypeOK'
    <2>1. loose' \subseteq Versions
      BY <1>11, VersionTyped DEF CreateCheckpoint, TypeOK
    <2>2. job' \in [Procs -> Jobs]
      BY <1>11, GotoTyped DEF CreateCheckpoint, TypeOK, Steps
    <2> QED
      BY <1>11, <2>1, <2>2 DEF CreateCheckpoint, TypeOK, record
  <1>12. ASSUME NEW p \in Procs, FillCheckpoint(p) PROVE TypeOK'
    <2>1. loose' \subseteq Versions
      BY <1>12, VersionTyped DEF FillCheckpoint, TypeOK
    <2>2. job' \in [Procs -> Jobs]
      BY <1>12, GotoTyped DEF FillCheckpoint, TypeOK, Steps
    <2> QED
      BY <1>12, <2>1, <2>2 DEF FillCheckpoint, TypeOK, record
  <1>19. ASSUME NEW p \in Procs, SyncDirectory(p) PROVE TypeOK'
    <2>1. job' \in [Procs -> Jobs] /\ lock' \in Procs \cup {Free}
      <3>1. CASE job[p].todo \subseteq {job[p].cur}
        BY <1>19, <3>1, IdleTyped DEF SyncDirectory, Acknowledge, Return, TypeOK
      <3>2. CASE ~(job[p].todo \subseteq {job[p].cur})
        BY <1>19, <3>2 DEF SyncDirectory, Acknowledge, TypeOK, Jobs, Steps
      <3> QED
        BY <3>1, <3>2
    <2>2. acked' \subseteq Events
      BY <1>19 DEF SyncDirectory, Acknowledge, TypeOK, Jobs
    <2>3. firm' \in Versions /\ loose' \subseteq Versions
      BY <1>19, VersionTyped DEF SyncDirectory, TypeOK
    <2> QED
      BY <1>19, <2>1, <2>2, <2>3 DEF SyncDirectory, TypeOK, record
  <1>13. CASE VerifyResume \/ VerifyReconcile
    BY <1>13 DEF VerifyResume, VerifyReconcile, Goto, TypeOK, Jobs, Steps, disk, record, certificate, Procs
  <1>14. CASE VerifyResolve
    BY <1>14, IdleTyped, UnknownOutcomesTyped DEF VerifyResolve, Return, TypeOK, Jobs, disk, record, certificate, Procs
  <1>15. ASSUME NEW p \in Procs, IoError(p) \/ TornWrite(p) PROVE TypeOK'
    BY <1>15, IdleTyped DEF IoError, TornWrite, Return, TypeOK, disk, record, certificate
  <1>16. CASE KillDaemon \/ KillAdmin
    BY <1>16, IdleTyped DEF KillDaemon, KillAdmin, Kill, TypeOK, Procs, certificate
  <1>17. CASE PowerLoss
    <2>1. log' \in Seq(Events) /\ synced' \in 0..Len(log')
      <3>1. CASE \E k \in synced..Len(log) : log' = SubSeq(log, 1, k) /\ synced' = k
        BY <3>1 DEF TypeOK
      <3>2. CASE log' = <<>> /\ synced' = 0
        BY <3>2
      <3> QED
        BY <1>17, <3>1, <3>2 DEF PowerLoss
    <2>2. firm' \in Versions /\ loose' \subseteq Versions /\ ckptFile' \in {"absent", "torn", "ok"} /\ ckpt' \in Seq(Events)
      BY <1>17 DEF PowerLoss, TypeOK, Versions
    <2> QED
      BY <1>17, <2>1, <2>2, IdleTyped DEF PowerLoss, TypeOK
  <1>18. CASE UNCHANGED vars
    BY <1>18 DEF vars, disk, record, certificate, TypeOK
  <1> QED
    BY <1>1, <1>2, <1>3, <1>4, <1>5, <1>6, <1>7, <1>8, <1>9, <1>10, <1>11, <1>12, <1>13,
       <1>14, <1>15, <1>16, <1>17, <1>18, <1>19, ZenonT(60) DEF Next, Step, AdminStep, Fault

\* Type correctness of the ledger: log, checkpoint, lock and jobs keep their types.
THEOREM TypeCorrect == Spec => []TypeOK
  BY InitTyped, StepTyped, PTL DEF Spec

\* Every step keeps the exclusive lock exclusive.
LEMMA StepLockHeld == LedgerInv /\ [Next]_vars => LockHeld'
  <1> SUFFICES ASSUME LedgerInv, [Next]_vars PROVE LockHeld'
    OBVIOUS
  <1> USE LedgerAssumption DEF LedgerInv, LockHeld, Holding, Steps, Procs, TypeOK, Jobs, disk, record, certificate
  <1>1. ASSUME NEW w \in Workers, NEW e \in Intents \cup Outcomes, BeginAppend(w, e) PROVE LockHeld'
    BY <1>1 DEF BeginAppend, Start
  <1>2. CASE BeginResolve
    BY <1>2 DEF BeginResolve, Start
  <1>3. CASE BeginReconcile
    BY <1>3 DEF BeginReconcile, Start
  <1>4. CASE BeginCreate
    BY <1>4 DEF BeginCreate, Start
  <1>5. CASE BeginResume
    BY <1>5 DEF BeginResume, Start
  <1>6. ASSUME NEW p \in Procs, LockExclusive(p) PROVE LockHeld'
    BY <1>6 DEF LockExclusive, Goto
  <1>7. ASSUME NEW p \in Procs, VerifyAppend(p) PROVE LockHeld'
    BY <1>7 DEF VerifyAppend
  <1>8. ASSUME NEW p \in Procs, Refuse(p) PROVE LockHeld'
    BY <1>8 DEF Refuse, Return, Idle
  <1>9. ASSUME NEW p \in Procs, WriteRecord(p) PROVE LockHeld'
    BY <1>9 DEF WriteRecord, Goto
  <1>10. ASSUME NEW p \in Procs, SyncRecord(p) PROVE LockHeld'
    BY <1>10 DEF SyncRecord, Goto
  <1>11. ASSUME NEW p \in Procs, SyncEntry(p) PROVE LockHeld'
    BY <1>11 DEF SyncEntry, Goto
  <1>12. ASSUME NEW p \in Procs, RenameCheckpoint(p) PROVE LockHeld'
    BY <1>12 DEF RenameCheckpoint, Goto
  <1>13. ASSUME NEW p \in Procs, CreateCheckpoint(p) PROVE LockHeld'
    BY <1>13 DEF CreateCheckpoint, Goto
  <1>14. ASSUME NEW p \in Procs, FillCheckpoint(p) PROVE LockHeld'
    BY <1>14 DEF FillCheckpoint, Goto
  <1>15. CASE VerifyResume
    BY <1>15 DEF VerifyResume, Goto
  <1>16. CASE VerifyResolve
    BY <1>16 DEF VerifyResolve, Return, Idle
  <1>17. CASE VerifyReconcile
    BY <1>17 DEF VerifyReconcile, Goto
  <1>18. ASSUME NEW p \in Procs, IoError(p) PROVE LockHeld'
    BY <1>18 DEF IoError, Return, Idle
  <1>19. ASSUME NEW p \in Procs, TornWrite(p) PROVE LockHeld'
    BY <1>19 DEF TornWrite, Return, Idle
  <1>20. ASSUME NEW p \in Procs, SyncDirectory(p) PROVE LockHeld'
    BY <1>20 DEF SyncDirectory, Acknowledge, Return, Idle
  <1>21. CASE KillDaemon
    BY <1>21 DEF KillDaemon, Kill, Idle
  <1>22. CASE KillAdmin
    BY <1>22 DEF KillAdmin, Kill, Idle
  <1>23. CASE PowerLoss
    BY <1>23 DEF PowerLoss, Idle
  <1>24. CASE UNCHANGED vars
    BY <1>24 DEF vars
  <1> QED
    BY <1>1, <1>2, <1>3, <1>4, <1>5, <1>6, <1>7, <1>8, <1>9, <1>10, <1>11, <1>12, <1>13, <1>14,
       <1>15, <1>16, <1>17, <1>18, <1>19, <1>20, <1>21, <1>22, <1>23, <1>24, ZenonT(60) DEF Next, Step,
       AdminStep, Fault

\* Every step keeps initialisation and reconciliation to the administrator.
LEMMA StepAdminJobs == LedgerInv /\ [Next]_vars => AdminJobs'
  <1> SUFFICES ASSUME LedgerInv, [Next]_vars PROVE AdminJobs'
    OBVIOUS
  <1> USE LedgerAssumption DEF LedgerInv, AdminJobs, VerifiedStaysTrue, Procs, TypeOK, Jobs, Kinds, disk, record, certificate
  <1>1. ASSUME NEW w \in Workers, NEW e \in Intents \cup Outcomes, BeginAppend(w, e) PROVE AdminJobs'
    BY <1>1 DEF BeginAppend, Start
  <1>2. CASE BeginResolve
    BY <1>2 DEF BeginResolve, Start
  <1>3. CASE BeginReconcile
    BY <1>3 DEF BeginReconcile, Start
  <1>4. CASE BeginCreate
    BY <1>4 DEF BeginCreate, Start
  <1>5. CASE BeginResume
    BY <1>5 DEF BeginResume, Start
  <1>6. ASSUME NEW p \in Procs, LockExclusive(p) PROVE AdminJobs'
    BY <1>6 DEF LockExclusive, Goto
  <1>7. ASSUME NEW p \in Procs, VerifyAppend(p) PROVE AdminJobs'
    BY <1>7 DEF VerifyAppend
  <1>8. ASSUME NEW p \in Procs, Refuse(p) PROVE AdminJobs'
    BY <1>8 DEF Refuse, Return, Idle
  <1>9. ASSUME NEW p \in Procs, WriteRecord(p) PROVE AdminJobs'
    BY <1>9 DEF WriteRecord, Goto
  <1>10. ASSUME NEW p \in Procs, SyncRecord(p) PROVE AdminJobs'
    BY <1>10 DEF SyncRecord, Goto
  <1>11. ASSUME NEW p \in Procs, SyncEntry(p) PROVE AdminJobs'
    BY <1>11 DEF SyncEntry, Goto
  <1>12. ASSUME NEW p \in Procs, RenameCheckpoint(p) PROVE AdminJobs'
    BY <1>12 DEF RenameCheckpoint, Goto
  <1>13. ASSUME NEW p \in Procs, CreateCheckpoint(p) PROVE AdminJobs'
    BY <1>13 DEF CreateCheckpoint, Goto
  <1>14. ASSUME NEW p \in Procs, FillCheckpoint(p) PROVE AdminJobs'
    BY <1>14 DEF FillCheckpoint, Goto
  <1>15. CASE VerifyResume
    BY <1>15 DEF VerifyResume, Goto
  <1>16. CASE VerifyResolve
    BY <1>16 DEF VerifyResolve, Return, Idle
  <1>17. CASE VerifyReconcile
    BY <1>17 DEF VerifyReconcile, Goto
  <1>18. ASSUME NEW p \in Procs, IoError(p) PROVE AdminJobs'
    BY <1>18, ZenonT(60) DEF IoError, Return, Idle
  <1>19. ASSUME NEW p \in Procs, TornWrite(p) PROVE AdminJobs'
    BY <1>19 DEF TornWrite, Return, Idle
  <1>20. ASSUME NEW p \in Procs, SyncDirectory(p) PROVE AdminJobs'
    BY <1>20 DEF SyncDirectory, Acknowledge, Return, Idle
  <1>21. CASE KillDaemon
    BY <1>21 DEF KillDaemon, Kill, Idle
  <1>22. CASE KillAdmin
    BY <1>22 DEF KillAdmin, Kill, Idle
  <1>23. CASE PowerLoss
    BY <1>23 DEF PowerLoss, Idle
  <1>24. CASE UNCHANGED vars
    BY <1>24, ZenonT(60) DEF vars
  <1> QED
    BY <1>1, <1>2, <1>3, <1>4, <1>5, <1>6, <1>7, <1>8, <1>9, <1>10, <1>11, <1>12, <1>13, <1>14,
       <1>15, <1>16, <1>17, <1>18, <1>19, <1>20, <1>21, <1>22, <1>23, <1>24, ZenonT(60) DEF Next, Step,
       AdminStep, Fault

\* No step of another process invalidates what the lock holder verified or wrote.
LEMMA StepVerified == LedgerInv /\ [Next]_vars => VerifiedStaysTrue'
  <1> SUFFICES ASSUME LedgerInv, [Next]_vars PROVE VerifiedStaysTrue'
    OBVIOUS
  <1> USE LedgerAssumption DEF LedgerInv, VerifiedStaysTrue, LockHeld, Holding, AdminJobs, Steps, Procs, TypeOK,
                                Jobs, Kinds, disk, record, certificate, VerifyLog, AppendAccepted, CheckpointAccepted
  <1>1. ASSUME NEW w \in Workers, NEW e \in Intents \cup Outcomes, BeginAppend(w, e) PROVE VerifiedStaysTrue'
    BY <1>1, ZenonT(60) DEF BeginAppend, Start
  <1>2. CASE BeginResolve
    BY <1>2 DEF BeginResolve, Start
  <1>3. CASE BeginReconcile
    BY <1>3, ZenonT(60) DEF BeginReconcile, Start
  <1>4. CASE BeginCreate
    BY <1>4 DEF BeginCreate, Start
  <1>5. CASE BeginResume
    BY <1>5 DEF BeginResume, Start
  <1>6. ASSUME NEW p \in Procs, LockExclusive(p) PROVE VerifiedStaysTrue'
    BY <1>6 DEF LockExclusive, Goto
  <1>7. ASSUME NEW p \in Procs, VerifyAppend(p) PROVE VerifiedStaysTrue'
    BY <1>7 DEF VerifyAppend
  <1>8. ASSUME NEW p \in Procs, Refuse(p) PROVE VerifiedStaysTrue'
    BY <1>8 DEF Refuse, Return, Idle
  <1>9. ASSUME NEW p \in Procs, WriteRecord(p) PROVE VerifiedStaysTrue'
    BY <1>9 DEF WriteRecord, Goto
  <1>10. ASSUME NEW p \in Procs, SyncRecord(p) PROVE VerifiedStaysTrue'
    BY <1>10 DEF SyncRecord, Goto
  <1>11. ASSUME NEW p \in Procs, SyncEntry(p) PROVE VerifiedStaysTrue'
    BY <1>11 DEF SyncEntry, Goto
  <1>12. ASSUME NEW p \in Procs, RenameCheckpoint(p) PROVE VerifiedStaysTrue'
    BY <1>12 DEF RenameCheckpoint, Goto
  <1>13. ASSUME NEW p \in Procs, CreateCheckpoint(p) PROVE VerifiedStaysTrue'
    BY <1>13 DEF CreateCheckpoint, Goto
  <1>14. ASSUME NEW p \in Procs, FillCheckpoint(p) PROVE VerifiedStaysTrue'
    BY <1>14 DEF FillCheckpoint, Goto
  <1>15. CASE VerifyResume
    BY <1>15 DEF VerifyResume, Goto
  <1>16. CASE VerifyResolve
    BY <1>16 DEF VerifyResolve, Return, Idle
  <1>17. CASE VerifyReconcile
    BY <1>17 DEF VerifyReconcile, Goto
  <1>18. ASSUME NEW p \in Procs, IoError(p) PROVE VerifiedStaysTrue'
    BY <1>18 DEF IoError, Return, Idle
  <1>19. ASSUME NEW p \in Procs, TornWrite(p) PROVE VerifiedStaysTrue'
    BY <1>19, ZenonT(60) DEF TornWrite, Return, Idle
  <1>20. ASSUME NEW p \in Procs, SyncDirectory(p) PROVE VerifiedStaysTrue'
    BY <1>20 DEF SyncDirectory, Acknowledge, Return, Idle
  <1>21. CASE KillDaemon
    BY <1>21, ZenonT(60) DEF KillDaemon, Kill, Idle
  <1>22. CASE KillAdmin
    BY <1>22 DEF KillAdmin, Kill, Idle
  <1>23. CASE PowerLoss
    BY <1>23 DEF PowerLoss, Idle
  <1>24. CASE UNCHANGED vars
    BY <1>24 DEF vars
  <1> QED
    BY <1>1, <1>2, <1>3, <1>4, <1>5, <1>6, <1>7, <1>8, <1>9, <1>10, <1>11, <1>12, <1>13, <1>14,
       <1>15, <1>16, <1>17, <1>18, <1>19, <1>20, <1>21, <1>22, <1>23, <1>24, ZenonT(60) DEF Next, Step,
       AdminStep, Fault

\* The record written was verified, and what a crash leaves is a prefix.
LEMMA StepChain == LedgerInv /\ [Next]_vars => ChainWellFormed'
  <1> SUFFICES ASSUME LedgerInv, [Next]_vars PROVE ChainWellFormed'
    OBVIOUS
  <1> USE LedgerAssumption DEF LedgerInv, ChainWellFormed, TypeOK, disk, record, certificate
  <1>1. CASE BeginResolve \/ BeginReconcile \/ BeginCreate \/ BeginResume
    BY <1>1 DEF BeginResolve, BeginReconcile, BeginCreate, BeginResume
  <1>2. ASSUME NEW w \in Workers, NEW e \in Intents \cup Outcomes, BeginAppend(w, e)
        PROVE  ChainWellFormed'
    BY <1>2 DEF BeginAppend
  <1>3. ASSUME NEW p \in Procs, LockExclusive(p) \/ VerifyAppend(p) \/ Refuse(p)
        PROVE  ChainWellFormed'
    BY <1>3, ZenonT(60) DEF LockExclusive, VerifyAppend, Refuse
  <1>4. CASE VerifyResume \/ VerifyResolve \/ VerifyReconcile
    BY <1>4, ZenonT(60) DEF VerifyResume, VerifyResolve, VerifyReconcile
  <1>5. ASSUME NEW p \in Procs, WriteRecord(p)
        PROVE  ChainWellFormed'
    <2>1. job[p].cur \in Events
      BY ZenonT(60) DEF Jobs
    <2>2. Admissible(log, job[p].cur)
      BY <1>5 DEF WriteRecord, VerifiedStaysTrue
    <2> QED
      BY <1>5, <2>1, <2>2, AppendWellFormed DEF WriteRecord
  <1>6. ASSUME NEW p \in Procs, SyncRecord(p) \/ SyncEntry(p) \/ CreateCheckpoint(p)
        PROVE  ChainWellFormed'
    BY <1>6 DEF SyncRecord, SyncEntry, CreateCheckpoint
  <1>7. ASSUME NEW p \in Procs, RenameCheckpoint(p) \/ FillCheckpoint(p) \/ SyncDirectory(p)
        PROVE  ChainWellFormed'
    BY <1>7 DEF RenameCheckpoint, FillCheckpoint, SyncDirectory
  <1>8. ASSUME NEW p \in Procs, IoError(p) \/ TornWrite(p)
        PROVE  ChainWellFormed'
    BY <1>8 DEF IoError, TornWrite
  <1>9. CASE KillDaemon \/ KillAdmin
    BY <1>9 DEF KillDaemon, KillAdmin, Kill
  <1>10. CASE PowerLoss
    <2>1. CASE log' = <<>>
      BY <2>1 DEF WellFormed
    <2>2. CASE \E k \in synced..Len(log) : log' = SubSeq(log, 1, k)
      BY <2>2, PrefixWellFormed
    <2> QED
      BY <1>10, <2>1, <2>2 DEF PowerLoss
  <1>11. CASE UNCHANGED vars
    BY <1>11 DEF vars
  <1> QED
    BY <1>1, <1>2, <1>3, <1>4, <1>5, <1>6, <1>7, <1>8, <1>9, <1>10, <1>11, ZenonT(60)
       DEF Next, Step, AdminStep, Fault

\* The log grows past the checkpoint, a checkpoint is replaced by the log it lies
\* on, and a power loss takes neither a certified record nor the last checkpoint
\* whose directory is synced.
LEMMA StepVersions == LedgerInv /\ [Next]_vars => VersionsOnChain'
  <1> SUFFICES ASSUME LedgerInv, [Next]_vars, CertifiesOnlySynced PROVE VersionsOnChain'
    BY DEF VersionsOnChain, CertifiesOnlySynced
  <1>0. /\ log \in Seq(Events) /\ ckpt \in Seq(Events) /\ firm \in Versions /\ loose \subseteq Versions
        /\ ckptFile \in {"absent", "torn", "ok"} /\ firm.chain \in Seq(Events)
        /\ \A v \in loose : v.chain \in Seq(Events)
    BY DEF LedgerInv, TypeOK, Versions
  <1>v. /\ OnChain(ckpt, log)
        /\ Version(ckptFile, ckpt) \in {firm} \cup loose
        /\ \A v \in {firm} \cup loose :
             /\ OnChain(firm.chain, v.chain) /\ OnChain(v.chain, ckpt)
             /\ firm.file = "ok" => v.file = "ok"
    BY DEF LedgerInv, VersionsOnChain
  <1>f. firm.file = "ok" => ckptFile = "ok"
    BY <1>0, <1>v, VersionTyped
  <1>1. CASE UNCHANGED <<log, certificate>>
    BY <1>1, <1>v, ZenonT(60) DEF certificate, VersionsOnChain
  <1>2. ASSUME NEW p \in Procs, WriteRecord(p)
        PROVE  VersionsOnChain'
    <2>1. OnChain(ckpt, log')
      BY <1>0, <1>2, <1>v DEF WriteRecord, OnChain, LedgerInv, TypeOK, Jobs
    <2> QED
      BY <1>2, <2>1, <1>v, ZenonT(60) DEF WriteRecord, certificate, VersionsOnChain
  <1>3. ASSUME NEW p \in Procs, RenameCheckpoint(p)
        PROVE  VersionsOnChain'
    <2>1. log' = log /\ ckptFile' = "ok" /\ ckpt' = log /\ firm' = firm /\ loose' = loose \cup {Version("ok", log)}
      BY <1>3 DEF RenameCheckpoint, record
    <2>2. Version("ok", log).file = "ok" /\ Version("ok", log).chain = log
      BY <1>0, VersionTyped
    <2>3. ASSUME NEW v \in {firm} \cup loose
          PROVE  OnChain(firm.chain, v.chain) /\ OnChain(v.chain, log) /\ (firm.file = "ok" => v.file = "ok")
      BY <1>0, <1>v, OnChainTransitive
    <2>4. OnChain(log, log) /\ OnChain(firm.chain, log)
      BY <1>0, <2>3, OnChainReflexive
    <2> QED
      BY <2>1, <2>2, <2>3, <2>4 DEF VersionsOnChain
  <1>4. ASSUME NEW p \in Procs, CreateCheckpoint(p)
        PROVE  VersionsOnChain'
    <2>1. log' = log /\ ckptFile' = "torn" /\ ckpt' = ckpt /\ firm' = firm /\ loose' = loose \cup {Version("torn", ckpt)}
      BY <1>4 DEF CreateCheckpoint, record
    <2>2. Version("torn", ckpt).chain = ckpt /\ firm.file # "ok"
      BY <1>0, <1>4, <1>f, VersionTyped DEF CreateCheckpoint
    <2>3. OnChain(ckpt, ckpt)
      BY <1>0, OnChainReflexive
    <2> QED
      BY <2>1, <2>2, <2>3, <1>v DEF VersionsOnChain
  <1>5. ASSUME NEW p \in Procs, FillCheckpoint(p)
        PROVE  VersionsOnChain'
    <2>1. log' = log /\ ckptFile' = "ok" /\ ckpt' = log /\ firm' = firm /\ loose' = {Version("ok", log)}
      BY <1>5 DEF FillCheckpoint, record
    <2>2. Version("ok", log).file = "ok" /\ Version("ok", log).chain = log
      BY <1>0, VersionTyped
    <2>3. OnChain(log, log) /\ OnChain(firm.chain, firm.chain) /\ OnChain(firm.chain, log)
      BY <1>0, <1>v, OnChainReflexive, OnChainTransitive
    <2> QED
      BY <2>1, <2>2, <2>3 DEF VersionsOnChain
  <1>6. ASSUME NEW p \in Procs, SyncDirectory(p)
        PROVE  VersionsOnChain'
    <2>1. log' = log /\ ckptFile' = ckptFile /\ ckpt' = ckpt /\ firm' = Version(ckptFile, ckpt) /\ loose' = {}
      BY <1>6 DEF SyncDirectory, record
    <2>2. firm'.chain = ckpt
      BY <1>0, <2>1, VersionTyped
    <2>3. OnChain(ckpt, ckpt)
      BY <1>0, OnChainReflexive
    <2> QED
      BY <2>1, <2>2, <2>3, <1>v DEF VersionsOnChain
  <1>7. CASE PowerLoss
    <2>1. entry = "durable" /\ Len(ckpt) <= synced /\ synced \in 0..Len(log) /\ Len(ckpt) \in Nat /\ Len(log) \in Nat
      BY <1>7, <1>0 DEF PowerLoss, LedgerInv, CertifiedSynced, TypeOK
    <2>2. PICK k \in synced..Len(log) : log' = SubSeq(log, 1, k)
      BY <1>7, <2>1 DEF PowerLoss
    <2>3. PICK v \in {firm} \cup loose : ckptFile' = v.file /\ ckpt' = v.chain /\ firm' = v /\ loose' = {}
      BY <1>7 DEF PowerLoss
    <2>4. OnChain(ckpt, log')
      BY <1>0, <1>v, <2>1, <2>2 DEF OnChain
    <2>5. log' \in Seq(Events) /\ v.chain \in Seq(Events)
      BY <1>0, <2>1, <2>2
    <2>6. OnChain(v.chain, log') /\ OnChain(v.chain, v.chain)
      BY <1>0, <1>v, <2>4, <2>5, OnChainTransitive, OnChainReflexive
    <2>7. Version(v.file, v.chain) = v
      BY <1>0 DEF Version, Versions
    <2> QED
      BY <2>3, <2>6, <2>7 DEF VersionsOnChain
  <1>8. CASE BeginResolve \/ BeginReconcile \/ BeginCreate \/ BeginResume
    BY <1>1, <1>8, ZenonT(60) DEF BeginResolve, BeginReconcile, BeginCreate, BeginResume, disk, record
  <1>9. ASSUME NEW w \in Workers, NEW e \in Intents \cup Outcomes, BeginAppend(w, e)
        PROVE  VersionsOnChain'
    BY <1>1, <1>9, ZenonT(60) DEF BeginAppend, disk, record
  <1>10. ASSUME NEW p \in Procs, LockExclusive(p) \/ VerifyAppend(p) \/ Refuse(p) \/ SyncRecord(p) \/ SyncEntry(p)
         PROVE  VersionsOnChain'
    BY <1>1, <1>10, ZenonT(60) DEF LockExclusive, VerifyAppend, Refuse, SyncRecord, SyncEntry, disk, record
  <1>11. CASE VerifyResume \/ VerifyResolve \/ VerifyReconcile
    BY <1>1, <1>11, ZenonT(60) DEF VerifyResume, VerifyResolve, VerifyReconcile, disk, record
  <1>12. ASSUME NEW p \in Procs, IoError(p) \/ TornWrite(p)
         PROVE  VersionsOnChain'
    BY <1>1, <1>12, ZenonT(60) DEF IoError, TornWrite, disk, record
  <1>13. CASE KillDaemon \/ KillAdmin
    BY <1>1, <1>13, ZenonT(60) DEF KillDaemon, KillAdmin, Kill
  <1>14. CASE UNCHANGED vars
    BY <1>1, <1>14, ZenonT(60) DEF vars, disk, record
  <1> QED
    BY <1>2, <1>3, <1>4, <1>5, <1>6, <1>7, <1>8, <1>9, <1>10, <1>11, <1>12, <1>13, <1>14, ZenonT(60)
       DEF Next, Step, AdminStep, Fault

\* The checkpoint a reader sees is one of those versions.
LEMMA StepCheckpoint == LedgerInv /\ [Next]_vars => CheckpointOnChain'
  BY StepVersions DEF VersionsOnChain, CheckpointOnChain

\* Only a synced log is certified.
LEMMA StepSynced == LedgerInv /\ [Next]_vars => CertifiedSynced'
  <1> SUFFICES ASSUME LedgerInv, [Next]_vars PROVE CertifiedSynced'
    OBVIOUS
  <1> USE LedgerAssumption DEF LedgerInv, CertifiedSynced, CertifiesOnlySynced, AdminJobs, LockHeld, Holding,
                                VerifiedStaysTrue, TypeOK, Procs, Jobs, Steps, Kinds, disk, record, certificate
  <1>1. ASSUME NEW w \in Workers, NEW e \in Intents \cup Outcomes, BeginAppend(w, e) PROVE CertifiedSynced'
    BY <1>1, ZenonT(60) DEF BeginAppend, Start
  <1>2. CASE BeginResolve
    BY <1>2, ZenonT(60) DEF BeginResolve, Start
  <1>3. CASE BeginReconcile
    BY <1>3, ZenonT(60) DEF BeginReconcile, Start
  <1>4. CASE BeginCreate
    BY <1>4 DEF BeginCreate, Start
  <1>5. CASE BeginResume
    BY <1>5 DEF BeginResume, Start
  <1>6. ASSUME NEW p \in Procs, LockExclusive(p) PROVE CertifiedSynced'
    BY <1>6 DEF LockExclusive, Goto
  <1>7. ASSUME NEW p \in Procs, VerifyAppend(p) PROVE CertifiedSynced'
    BY <1>7 DEF VerifyAppend
  <1>8. ASSUME NEW p \in Procs, Refuse(p) PROVE CertifiedSynced'
    BY <1>8, ZenonT(60) DEF Refuse, Return, Idle
  <1>9. ASSUME NEW p \in Procs, WriteRecord(p) PROVE CertifiedSynced'
    <2>1. job'[p].pc = "written" /\ \A q \in Procs \ {p} : job'[q] = job[q]
      BY <1>9 DEF WriteRecord, Goto
    <2>2. \A q \in Procs \ {p} : job[q].pc # "synced"
      BY <1>9, ZenonT(60) DEF WriteRecord
    <2>3. \A q \in Procs : job'[q].pc # "synced"
      BY <2>1, <2>2
    <2> QED
      BY <1>9, <2>3, ZenonT(60) DEF WriteRecord
  <1>10. ASSUME NEW p \in Procs, SyncRecord(p) PROVE CertifiedSynced'
    BY <1>10 DEF SyncRecord, Goto
  <1>11. ASSUME NEW p \in Procs, SyncEntry(p) PROVE CertifiedSynced'
    BY <1>11 DEF SyncEntry, Goto
  <1>12. ASSUME NEW p \in Procs, RenameCheckpoint(p) PROVE CertifiedSynced'
    <2>1. \A q \in Procs \ {p} : job[q].pc # "synced"
      BY <1>12, ZenonT(60) DEF RenameCheckpoint
    <2>2. \A q \in Procs : job'[q].pc # "synced"
      BY <1>12, <2>1 DEF RenameCheckpoint, Goto
    <2>3. "power" \in Faults /\ CertifiesOnlySynced => synced = Len(log)
      BY <1>12 DEF RenameCheckpoint
    <2> QED
      BY <1>12, <2>2, <2>3 DEF RenameCheckpoint
  <1>13. ASSUME NEW p \in Procs, CreateCheckpoint(p) PROVE CertifiedSynced'
    BY <1>13, ZenonT(60) DEF CreateCheckpoint, Goto
  <1>14. ASSUME NEW p \in Procs, FillCheckpoint(p) PROVE CertifiedSynced'
    BY <1>14 DEF FillCheckpoint, Goto
  <1>15. CASE VerifyResume
    BY <1>15 DEF VerifyResume, Goto
  <1>16. CASE VerifyResolve
    BY <1>16 DEF VerifyResolve, Return, Idle
  <1>17. CASE VerifyReconcile
    BY <1>17, ZenonT(60) DEF VerifyReconcile, Goto
  <1>18. ASSUME NEW p \in Procs, IoError(p) PROVE CertifiedSynced'
    BY <1>18, ZenonT(60) DEF IoError, Return, Idle
  <1>19. ASSUME NEW p \in Procs, TornWrite(p) PROVE CertifiedSynced'
    BY <1>19, ZenonT(60) DEF TornWrite, Return, Idle
  <1>20. ASSUME NEW p \in Procs, SyncDirectory(p) PROVE CertifiedSynced'
    <2>1. firm'.file = "ok"
      BY <1>20, VersionTyped DEF SyncDirectory
    <2>2. \A q \in Procs : job'[q].pc = "synced" => job[q].pc = "synced"
      BY <1>20 DEF SyncDirectory, Acknowledge, Return, Idle
    <2> QED
      BY <1>20, <2>1, <2>2, ZenonT(60) DEF SyncDirectory
  <1>21. CASE KillDaemon
    BY <1>21, ZenonT(60) DEF KillDaemon, Kill, Idle
  <1>22. CASE KillAdmin
    BY <1>22, ZenonT(60) DEF KillAdmin, Kill, Idle
  <1>23. CASE PowerLoss
    <2> SUFFICES ASSUME CertifiesOnlySynced, "power" \in Faults
                 PROVE  /\ entry' = "durable" /\ firm'.file = "ok" /\ Len(ckpt') <= synced'
                        /\ \A p \in Procs : job'[p].pc # "synced"
      OBVIOUS
    <2>1. PICK k \in synced..Len(log) : synced' = k /\ entry' = "durable"
      BY <1>23 DEF PowerLoss
    <2>2. PICK v \in {firm} \cup loose : ckpt' = v.chain /\ firm' = v
      BY <1>23 DEF PowerLoss
    <2>3. OnChain(v.chain, ckpt) /\ v.file = "ok" /\ v.chain \in Seq(Events)
      BY DEF VersionsOnChain, Versions
    <2>4. \A p \in Procs : job'[p].pc # "synced"
      BY <1>23 DEF PowerLoss, Idle
    <2> QED
      BY <2>1, <2>2, <2>3, <2>4 DEF OnChain
  <1>24. CASE UNCHANGED vars
    BY <1>24, ZenonT(60) DEF vars
  <1> QED
    BY <1>1, <1>2, <1>3, <1>4, <1>5, <1>6, <1>7, <1>8, <1>9, <1>10, <1>11, <1>12, <1>13, <1>14,
       <1>15, <1>16, <1>17, <1>18, <1>19, <1>20, <1>21, <1>22, <1>23, <1>24, ZenonT(60) DEF Next, Step,
       AdminStep, Fault

\* An append returns Ok only after its record is certified.
LEMMA StepAcked == LedgerInv /\ [Next]_vars => AckedCertified'
  <1> SUFFICES ASSUME LedgerInv, [Next]_vars PROVE AckedCertified'
    OBVIOUS
  <1> USE LedgerAssumption DEF LedgerInv, AckedCertified, disk, record, certificate
  <1>1. ASSUME NEW w \in Workers, NEW e \in Intents \cup Outcomes, BeginAppend(w, e) PROVE AckedCertified'
    BY <1>1 DEF BeginAppend, Start
  <1>2. CASE BeginResolve
    BY <1>2 DEF BeginResolve, Start
  <1>3. CASE BeginReconcile
    BY <1>3, ZenonT(60) DEF BeginReconcile, Start
  <1>4. CASE BeginCreate
    BY <1>4 DEF BeginCreate, Start
  <1>5. CASE BeginResume
    BY <1>5 DEF BeginResume, Start
  <1>6. ASSUME NEW p \in Procs, LockExclusive(p) PROVE AckedCertified'
    BY <1>6 DEF LockExclusive, Goto
  <1>7. ASSUME NEW p \in Procs, VerifyAppend(p) PROVE AckedCertified'
    BY <1>7 DEF VerifyAppend
  <1>8. ASSUME NEW p \in Procs, Refuse(p) PROVE AckedCertified'
    BY <1>8 DEF Refuse, Return, Idle
  <1>9. ASSUME NEW p \in Procs, WriteRecord(p) PROVE AckedCertified'
    BY <1>9 DEF WriteRecord, Goto
  <1>10. ASSUME NEW p \in Procs, SyncRecord(p) PROVE AckedCertified'
    BY <1>10 DEF SyncRecord, Goto
  <1>11. ASSUME NEW p \in Procs, SyncEntry(p) PROVE AckedCertified'
    BY <1>11 DEF SyncEntry, Goto
  <1>12. ASSUME NEW p \in Procs, RenameCheckpoint(p) PROVE AckedCertified'
    BY <1>12 DEF RenameCheckpoint
  <1>13. ASSUME NEW p \in Procs, CreateCheckpoint(p) PROVE AckedCertified'
    BY <1>13 DEF CreateCheckpoint
  <1>14. ASSUME NEW p \in Procs, FillCheckpoint(p) PROVE AckedCertified'
    BY <1>14 DEF FillCheckpoint
  <1>15. CASE VerifyResume
    BY <1>15 DEF VerifyResume, Goto
  <1>16. CASE VerifyResolve
    BY <1>16 DEF VerifyResolve, Return, Idle
  <1>17. CASE VerifyReconcile
    BY <1>17 DEF VerifyReconcile, Goto
  <1>18. ASSUME NEW p \in Procs, IoError(p) PROVE AckedCertified'
    BY <1>18 DEF IoError, Return, Idle
  <1>19. ASSUME NEW p \in Procs, TornWrite(p) PROVE AckedCertified'
    BY <1>19 DEF TornWrite, Return, Idle
  <1>20. ASSUME NEW p \in Procs, SyncDirectory(p) PROVE AckedCertified'
    <2>1. ckptFile = "ok" /\ ckpt = log /\ firm' = Version(ckptFile, ckpt)
      BY <1>20 DEF SyncDirectory, VerifiedStaysTrue
    <2>2. firm'.file = "ok" /\ firm'.chain = log
      BY <2>1, VersionTyped DEF TypeOK
    <2> SUFFICES ASSUME CertifiesOnlySynced, NEW e \in acked'
                 PROVE  \E i \in 1..Len(log) : log[i] = e
      BY <2>2 DEF Holds
    <2>3. CASE e \in acked
      <3>1. Holds(firm.chain, acked)
        BY <2>3
      <3>2. OnChain(firm.chain, log) /\ firm.chain \in Seq(Events) /\ log \in Seq(Events)
        BY <2>1 DEF VersionsOnChain, TypeOK, Versions
      <3>3. Holds(log, acked)
        BY <3>1, <3>2, HoldsOnChain
      <3> QED
        BY <2>3, <3>3 DEF Holds
    <2>4. CASE job[p].kind # "reconcile" /\ e = job[p].cur
      BY <1>20, <2>4 DEF SyncDirectory, VerifiedStaysTrue
    <2> QED
      BY <1>20, <2>3, <2>4 DEF SyncDirectory, Acknowledge
  <1>21. CASE KillDaemon
    BY <1>21 DEF KillDaemon, Kill, Idle
  <1>22. CASE KillAdmin
    BY <1>22, ZenonT(60) DEF KillAdmin, Kill, Idle
  <1>23. CASE PowerLoss
    <2> SUFFICES ASSUME CertifiesOnlySynced, acked # {}
                 PROVE  firm'.file = "ok" /\ Holds(firm'.chain, acked)
      BY <1>23 DEF PowerLoss
    <2>1. PICK v \in {firm} \cup loose : firm' = v
      BY <1>23 DEF PowerLoss
    <2>2. firm.file = "ok" /\ Holds(firm.chain, acked)
      OBVIOUS
    <2>3. OnChain(firm.chain, v.chain) /\ v.file = "ok" /\ v.chain \in Seq(Events) /\ firm.chain \in Seq(Events)
      BY <2>2 DEF VersionsOnChain, TypeOK, Versions
    <2> QED
      BY <2>1, <2>2, <2>3, HoldsOnChain
  <1>24. CASE UNCHANGED vars
    BY <1>24 DEF vars
  <1> QED
    BY <1>1, <1>2, <1>3, <1>4, <1>5, <1>6, <1>7, <1>8, <1>9, <1>10, <1>11, <1>12, <1>13, <1>14,
       <1>15, <1>16, <1>17, <1>18, <1>19, <1>20, <1>21, <1>22, <1>23, <1>24, ZenonT(60) DEF Next, Step,
       AdminStep, Fault

\* The ledger's inductive invariant: the lock excludes other writers, what was
\* verified under it stays true, the chain is well formed and on it lies a
\* checkpoint that only covers synced records and every acknowledged event.
THEOREM LedgerInvariant == Spec => []LedgerInv
  <1>1. Init => LedgerInv
    <2> SUFFICES ASSUME Init PROVE LedgerInv
      OBVIOUS
    <2>1. TypeOK
      BY InitTyped
    <2>2. LockHeld /\ AdminJobs /\ VerifiedStaysTrue
      BY DEF Init, LockHeld, Holding, AdminJobs, VerifiedStaysTrue, Idle
    <2>3. ChainWellFormed
      <3>1. log = <<>> \/ log = <<Genesis>>
        BY DEF Init
      <3>2. Genesis.phase = "Administrative"
        BY LedgerAssumption DEF Administrative
      <3> QED
        BY <3>1, <3>2 DEF ChainWellFormed, WellFormed
    <2>4. CheckpointOnChain
      BY <2>1 DEF Init, CheckpointOnChain, OnChain, TypeOK
    <2>5. CertifiedSynced
      <3>1. CertifiesOnlySynced /\ "power" \in Faults => "initialize" \notin AdminOps
        BY DEF CertifiesOnlySynced
      <3> QED
        BY <2>1, <3>1, VersionTyped DEF Init, CertifiedSynced, Idle, TypeOK
    <2>6. AckedCertified
      BY DEF Init, AckedCertified
    <2>7. VersionsOnChain
      <3>1. firm.chain = ckpt /\ OnChain(ckpt, ckpt)
        BY <2>1, VersionTyped, OnChainReflexive DEF Init, TypeOK
      <3> QED
        BY <3>1 DEF Init, VersionsOnChain
    <2> QED
      BY <2>1, <2>2, <2>3, <2>4, <2>5, <2>6, <2>7 DEF LedgerInv
  <1>2. LedgerInv /\ [Next]_vars => LedgerInv'
    BY StepTyped, StepLockHeld, StepAdminJobs, StepVerified, StepChain, StepCheckpoint,
       StepSynced, StepVersions, StepAcked DEF LedgerInv
  <1> QED
    BY <1>1, <1>2, PTL DEF Spec

\* The log never holds a second Intent for a request id, a second Outcome, or an
\* Outcome without its Intent, whatever the interleaving of appenders and crashes.
THEOREM ChainSafe == Spec => []ChainWellFormed
  <1>1. LedgerInv => ChainWellFormed
    BY DEF LedgerInv
  <1> QED
    BY <1>1, LedgerInvariant, PTL

\* The authenticated checkpoint is never ahead of the log and never diverges from it.
THEOREM CheckpointSafe == Spec => []CheckpointOnChain
  <1>1. LedgerInv => CheckpointOnChain
    BY DEF LedgerInv
  <1> QED
    BY <1>1, LedgerInvariant, PTL

\* An event whose append returned Ok is never lost: a checkpoint that no power
\* loss can undo certifies it, and that checkpoint lies on the log.
THEOREM AckedSafe == Spec => []AckedNeverLost
  <1>1. LedgerInv => AckedNeverLost
    <2> SUFFICES ASSUME LedgerInv, CertifiesOnlySynced, acked # {}
                 PROVE  Holds(log, acked)
      BY DEF AckedNeverLost, Holds
    <2>1. /\ OnChain(firm.chain, ckpt) /\ OnChain(ckpt, log) /\ Holds(firm.chain, acked)
          /\ firm.chain \in Seq(Events) /\ ckpt \in Seq(Events) /\ log \in Seq(Events)
      BY DEF LedgerInv, AckedCertified, VersionsOnChain, TypeOK, Versions
    <2> QED
      BY <2>1, OnChainTransitive, HoldsOnChain
  <1> QED
    BY <1>1, LedgerInvariant, PTL

\* A checkpoint gives way only to one that extends it, except that a power loss
\* may bring back an earlier one whose replacement was never acknowledged.
THEOREM CheckpointSurvives == Spec => CheckpointKept
  <1> DEFINE Kept == CertifiesOnlySynced /\ ckptFile = "ok" =>
                        /\ ckptFile' = "ok"
                        /\ OnChain(ckpt, ckpt') \/ (loose # {} /\ OnChain(ckpt', ckpt))
                        /\ Holds(ckpt', acked')
  <1>1. LedgerInv /\ LedgerInv' /\ [Next]_vars => [Kept]_vars
    <2> SUFFICES ASSUME LedgerInv, LedgerInv', Next, CertifiesOnlySynced, ckptFile = "ok"
                 PROVE  /\ ckptFile' = "ok"
                        /\ OnChain(ckpt, ckpt') \/ (loose # {} /\ OnChain(ckpt', ckpt))
                        /\ Holds(ckpt', acked')
      OBVIOUS
    <2>1. OnChain(ckpt, log) /\ OnChain(ckpt, ckpt)
      BY OnChainReflexive DEF LedgerInv, VersionsOnChain, TypeOK
    <2>2. Holds(ckpt', acked')
      <3>1. CertifiesOnlySynced'
        BY DEF CertifiesOnlySynced
      <3>2. CASE acked' = {}
        BY <3>2 DEF Holds
      <3>3. CASE acked' # {}
        <4>1. Holds(firm'.chain, acked') /\ OnChain(firm'.chain, ckpt')
          BY <3>1, <3>3 DEF LedgerInv, AckedCertified, VersionsOnChain
        <4>2. firm'.chain \in Seq(Events) /\ ckpt' \in Seq(Events)
          BY DEF LedgerInv, TypeOK, Versions
        <4> QED
          BY <4>1, <4>2, HoldsOnChain
      <3> QED
        BY <3>2, <3>3
    <2>3. CASE PowerLoss
      <3>1. PICK v \in {firm} \cup loose : ckptFile' = v.file /\ ckpt' = v.chain
        BY <2>3 DEF PowerLoss
      <3>2. v.file = "ok" /\ OnChain(v.chain, ckpt)
        BY <2>3 DEF PowerLoss, LedgerInv, CertifiedSynced, VersionsOnChain
      <3>3. loose = {} => v.chain = ckpt
        <4>1. loose = {} => Version(ckptFile, ckpt) = v
          BY <3>1 DEF LedgerInv, VersionsOnChain
        <4> QED
          BY <4>1, VersionTyped DEF LedgerInv, TypeOK
      <3> QED
        BY <2>1, <2>2, <3>1, <3>2, <3>3
    <2>4. CASE ~PowerLoss
      <3> SUFFICES ckptFile' = "ok" /\ (ckpt' = ckpt \/ ckpt' = log)
        BY <2>1, <2>2
      <3>1. CASE (\E w \in Workers, e \in Intents \cup Outcomes : BeginAppend(w, e))
                 \/ BeginResolve \/ BeginReconcile \/ BeginCreate \/ BeginResume \/ AdminStep
        BY <3>1, ZenonT(60) DEF BeginAppend, BeginResolve, BeginReconcile, BeginCreate, BeginResume,
                    AdminStep, VerifyResume, VerifyResolve, VerifyReconcile, disk, certificate
      <3>2. ASSUME NEW p \in Procs, Step(p)
            PROVE  ckptFile' = "ok" /\ (ckpt' = ckpt \/ ckpt' = log)
        BY <3>2, ZenonT(60) DEF Step, LockExclusive, VerifyAppend, Refuse, WriteRecord, SyncRecord, SyncEntry,
                    RenameCheckpoint, CreateCheckpoint, FillCheckpoint, SyncDirectory, disk, certificate
      <3>3. CASE Fault
        BY <2>4, <3>3, ZenonT(60) DEF Fault, IoError, TornWrite, KillDaemon, KillAdmin, Kill, disk, certificate
      <3> QED
        BY <3>1, <3>2, <3>3 DEF Next
    <2> QED
      BY <2>3, <2>4
  <1> QED
    BY <1>1, LedgerInvariant, PTL DEF Spec, CheckpointKept

\* The ledger on disk implements the chain it promises, when no operation
\* certifies a record that a power loss can still take.
THEOREM LedgerImplementsChain ==
  ASSUME CertifiesOnlySynced
  PROVE  Spec => KeepsChainPromise
  <1>1. Init => Chain!ChainInit
    <2> SUFFICES ASSUME Init PROVE Chain!ChainInit
      OBVIOUS
    <2>1. Len(firm.chain) = Len(log)
      BY InitTyped, VersionTyped DEF Init, TypeOK
    <2> QED
      BY <2>1, LedgerAssumption DEF Init, Chain!ChainInit, Administrative, Chain!Administrative
  <1>2. LedgerInv /\ [Next]_vars => [Chain!ChainNext]_(Chain!chainVars)
    <2> SUFFICES ASSUME LedgerInv, Next
                 PROVE  Chain!ChainNext \/ UNCHANGED <<log, firm>>
      BY DEF Chain!chainVars, vars, disk, record, certificate
    <2> USE DEF Chain!ChainNext
    <2>1. CASE (\E w \in Workers, e \in Intents \cup Outcomes : BeginAppend(w, e))
               \/ BeginResolve \/ BeginReconcile \/ BeginCreate \/ BeginResume \/ AdminStep
      BY <2>1, ZenonT(60) DEF BeginAppend, BeginResolve, BeginReconcile, BeginCreate, BeginResume,
                  AdminStep, VerifyResume, VerifyResolve, VerifyReconcile, disk, record, certificate
    <2>2. ASSUME NEW p \in Procs, Step(p)
          PROVE  Chain!ChainNext \/ UNCHANGED <<log, firm>>
      <3>1. CASE WriteRecord(p)
        <4>1. job[p].cur \in Events /\ Admissible(log, job[p].cur)
          BY <3>1 DEF WriteRecord, LedgerInv, VerifiedStaysTrue, TypeOK, Jobs
        <4>2. job[p].cur \in Chain!Events
          BY <4>1, ZenonT(60) DEF Events, Intents, Outcomes, Administrative,
                      Chain!Events, Chain!Intents, Chain!Outcomes, Chain!Administrative
        <4>3. Chain!Admissible(log, job[p].cur)
          BY <4>1 DEF Admissible, SeenIntents, ClosedIntents, PendingIntents, BindingMatches,
                      Chain!Admissible, Chain!SeenIntents, Chain!ClosedIntents,
                      Chain!PendingIntents, Chain!BindingMatches
        <4> QED
          BY <3>1, <4>2, <4>3 DEF WriteRecord, Chain!Extend, certificate
      <3>2. CASE SyncDirectory(p)
        <4>1. ckpt = log /\ firm' = Version(ckptFile, ckpt) /\ log' = log
          BY <3>2 DEF SyncDirectory, record, LedgerInv, VerifiedStaysTrue
        <4>2. firm'.chain = log
          BY <4>1, VersionTyped DEF LedgerInv, TypeOK
        <4> QED
          BY <4>1, <4>2 DEF Chain!Certify
      <3> QED
        BY <2>2, <3>1, <3>2, ZenonT(60) DEF Step, LockExclusive, VerifyAppend, Refuse, SyncRecord, SyncEntry,
                                RenameCheckpoint, CreateCheckpoint, FillCheckpoint, disk, record, certificate
    <2>3. ASSUME NEW p \in Procs, IoError(p) \/ TornWrite(p)
          PROVE  Chain!ChainNext \/ UNCHANGED <<log, firm>>
      BY <2>3 DEF IoError, TornWrite, disk, record, certificate
    <2>4. CASE KillDaemon \/ KillAdmin
      BY <2>4 DEF KillDaemon, KillAdmin, Kill, certificate
    <2>5. CASE PowerLoss
      <3>1. /\ entry = "durable" /\ Len(ckpt) <= synced /\ synced \in Nat /\ log \in Seq(Events)
            /\ ckpt \in Seq(Events) /\ firm.chain \in Seq(Events)
        BY <2>5 DEF PowerLoss, LedgerInv, CertifiedSynced, TypeOK, Versions
      <3>2. PICK k \in synced..Len(log) : log' = SubSeq(log, 1, k)
        BY <2>5, <3>1 DEF PowerLoss
      <3>3. PICK v \in {firm} \cup loose : firm' = v
        BY <2>5 DEF PowerLoss
      <3>4. OnChain(firm.chain, v.chain) /\ OnChain(v.chain, ckpt) /\ v.chain \in Seq(Events)
        BY DEF LedgerInv, VersionsOnChain, TypeOK, Versions
      <3>5. k \in Len(firm.chain)..Len(log) /\ Len(v.chain) \in Len(firm.chain)..k
        BY <3>1, <3>2, <3>4 DEF OnChain
      <3> QED
        BY <3>2, <3>3, <3>5 DEF Chain!LoseUncertified
    <2> QED
      BY <2>1, <2>2, <2>3, <2>4, <2>5 DEF Next, Fault
  <1> QED
    BY <1>1, <1>2, LedgerInvariant, PTL DEF Spec, KeepsChainPromise, Chain!ChainSpec

===============================================================================
