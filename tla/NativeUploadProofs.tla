-------------------------- MODULE NativeUploadProofs --------------------------
(***************************************************************************)
(* Proofs about the receiving side of an upload, for every set of attempts, *)
(* transfers and intents, every size and window and every set of faults:    *)
(* the steps that write names keep the invariant of NativeUploadSteps, and  *)
(* what follows from it.                                                    *)
(***************************************************************************)
EXTENDS NativeUploadSteps

\* SMT first, Z3 by its own name next, then Zenon, for every leaf that names no prover.
USE SMTT(60), Z3T(60), ZenonT(60)

(* The actions that write a name of the directory.                          *)

\* A step that changes the entries of the attempt's own transfer.
LEMMA EntryStep ==
  ASSUME TypeOK, inode' = inode, chosen' = chosen, NEW h \in Helpers,
         helper' \in [Helpers -> Request], \A g \in Helpers : g # h => helper'[g] = helper[g],
         Grows(helper[h], helper'[h]), helper[h].pc \in Locked,
         live' \in Entries, live' \in kept', kept' \subseteq kept \cup {live'}, live'.target = live.target,
         \A u \in Transfers : u # helper[h].id =>
           live'.sidecar[u] = live.sidecar[u] /\ live'.partial[u] = live.partial[u]
  PROVE  Step(h)
  BY ZenonT(60) DEF TypeOK, Step

LEMMA SidecarWritten ==
  ASSUME TypeOK, NEW h \in Helpers, NEW r \in Receipts \cup {Nothing, Torn},
         Update(WithSidecar(h, r)) \/ UpdateSynced(WithSidecar(h, r))
  PROVE  /\ live' \in Entries /\ live' \in kept' /\ kept' \subseteq kept \cup {live'}
         /\ live'.sidecar[helper[h].id] = r
         /\ \A u \in Transfers : u # helper[h].id => live'.sidecar[u] = live.sidecar[u]
         /\ live'.partial = live.partial /\ live'.target = live.target
  <1>1. live \in Entries /\ helper[h].id \in Transfers
    BY DEF TypeOK, Request
  <1>2. live' = [live EXCEPT !.sidecar[helper[h].id] = r] /\ live' \in kept' /\ kept' \subseteq kept \cup {live'}
    BY DEF Update, UpdateSynced, WithSidecar
  <1> QED
    BY <1>1, <1>2 DEF Entries

LEMMA PartialWritten ==
  ASSUME TypeOK, NEW h \in Helpers, NEW f \in Helpers \cup {Nothing},
         Update(WithPartial(h, f)) \/ UpdateSynced(WithPartial(h, f))
  PROVE  /\ live' \in Entries /\ live' \in kept' /\ kept' \subseteq kept \cup {live'}
         /\ live'.partial[helper[h].id] = f
         /\ \A u \in Transfers : u # helper[h].id => live'.partial[u] = live.partial[u]
         /\ live'.sidecar = live.sidecar /\ live'.target = live.target
  <1>1. live \in Entries /\ helper[h].id \in Transfers
    BY DEF TypeOK, Request
  <1>2. live' = [live EXCEPT !.partial[helper[h].id] = f] /\ live' \in kept' /\ kept' \subseteq kept \cup {live'}
    BY DEF Update, UpdateSynced, WithPartial
  <1> QED
    BY <1>1, <1>2 DEF Entries

LEMMA SidecarSound ==
  ASSUME UploadInv, NEW h \in Helpers, Step(h), NEW t \in Transfers, t = helper[h].id, NEW r,
         live'.sidecar[t] = r, \A u \in Transfers : u # t => live'.sidecar[u] = live.sidecar[u],
         live'.partial = live.partial, live'.target = live.target, inode' = inode,
         r \in Receipts => GoodRecord(r, t),
         r \in Receipts /\ ~(Excused(t)') =>
           IF live.target = r.file THEN r.offset = Size ELSE r.state = "receiving" /\ live.partial[t] = r.file
  PROVE  \A d \in kept' : Sound(d)'
  <1>1. PICK e \in kept : e = live
    BY DEF UploadInv, TypeOK
  <1>2. NamesMade(e)' /\ e.partial[t] \in Helpers \cup {Nothing}
    BY NamesStay, ZenonT(60) DEF UploadInv, TypeOK, Entries
  <1>3. \A g \in Helpers : helper'[g].id = helper[g].id
    BY ZenonT(60) DEF Step, Grows
  <1>4. live.partial[t] # Nothing =>
          live.partial[t] \in Helpers /\ helper[live.partial[t]].id = t /\ helper'[live.partial[t]].pc \notin Unmade
    BY <1>1, <1>2, <1>3, ZenonT(60) DEF NamesMade
  <1> QED
    BY <1>4, EntriesSound, ZenonT(60)

LEMMA PartialSound ==
  ASSUME UploadInv, NEW h \in Helpers, Step(h), NEW t \in Transfers, t = helper[h].id, NEW f,
         live'.partial[t] = f, \A u \in Transfers : u # t => live'.partial[u] = live.partial[u],
         live'.sidecar = live.sidecar, live'.target = live.target, inode' = inode,
         f # Nothing => f \in Helpers /\ helper[f].id = t /\ helper'[f].pc \notin Unmade,
         live.sidecar[t] \in Receipts /\ ~(Excused(t)') => live.target = live.sidecar[t].file
  PROVE  \A d \in kept' : Sound(d)'
  <1>1. PICK e \in kept : e = live
    BY ZenonT(60) DEF UploadInv, TypeOK
  <1>2. Resumable(e, t)'
    BY ResumableStays, ZenonT(60)
  <1>3. live.sidecar[t] \in Receipts => GoodRecord(live.sidecar[t], t)
    BY RecordStaysGood, ZenonT(60)
  <1>4. live.sidecar[t] \in Receipts /\ ~(Excused(t)') =>
          live.target = live.sidecar[t].file /\ live.sidecar[t].offset = Size
    BY <1>1, <1>2, ZenonT(60) DEF Resumable
  <1> QED
    BY <1>3, <1>4, EntriesSound, ZenonT(60)

\* The record an attempt writes first is good: nothing knew its file before.
LEMMA FirstRecord ==
  ASSUME UploadInv, NEW h \in Helpers, Step(h), helper[h].pc \in {"sidecar", "write_sidecar"},
         helper'[h].pc \notin Unrecorded, NEW r \in Receipts, r.file = h, r.offset = 0
  PROVE  GoodRecord(r, helper[h].id) /\ \A d \in kept : d.target # h
  <1>1. helper[h].pc \in Unrecorded /\ helper[h].id \in Transfers /\ inode[h] \in Contents
    BY ZenonT(60) DEF UploadInv, TypeOK, Request, Unrecorded
  <1>2. ASSUME NEW d \in kept
        PROVE  ~(d.sidecar[helper[h].id] \in Receipts /\ d.sidecar[helper[h].id].file = h) /\ d.target # h
    <2>1. NamesMade(d)
      BY ZenonT(60) DEF UploadInv, Sound
    <2> QED
      BY <1>1, <2>1, ZenonT(60) DEF NamesMade
  <1>3. inode[h].firm >= 0 /\ \A k \in 1..0 : inode[h].data[k] # "lost"
    BY <1>1 DEF Contents
  <1> QED
    BY <1>2, <1>3, ZenonT(60) DEF GoodRecord

LEMMA RecordTyped ==
  ASSUME NEW i \in Intents, NEW n \in 0..Size, NEW f \in Helpers, NEW s \in {"receiving", "committed"}
  PROVE  /\ Receipt(i, n, f, s) \in Receipts /\ Receipt(i, n, f, s).file = f
         /\ Receipt(i, n, f, s).offset = n /\ Receipt(i, n, f, s).state = s
  BY DEF Receipt, Receipts

LEMMA CreatePartialKeeps ==
  ASSUME UploadInv, NEW h \in Helpers, CreatePartial(h)
  PROVE  UploadInv'
  <1>1. TypeOK /\ Own(h) /\ helper[h] \in Request /\ helper[h].pc = "observe" /\ helper[h].result = "none"
        /\ inode' = inode /\ chosen' = chosen /\ helper[h].pc \in Locked
    BY ZenonT(60) DEF UploadInv, TypeOK, CreatePartial, At, Own, Shape, Cleaning, Locked
  <1>2. CASE PartialOf(h) # Nothing
    <2>1. Quiet
      BY <1>1, <1>2, QuietWhenUnchanged DEF CreatePartial, Untouched
    <2>2. MovesTo(h, "done", "transfer_failed")
      BY <1>1, <1>2, MoveMade, ZenonT(60) DEF CreatePartial, Answer, Places, Replies
    <2> QED
      BY <1>1, <2>1, <2>2, QuietEnd
  <1>3. CASE PartialOf(h) = Nothing
    <2>1. /\ live' \in Entries /\ live' \in kept' /\ kept' \subseteq kept \cup {live'}
          /\ live'.partial[helper[h].id] = h
          /\ \A u \in Transfers : u # helper[h].id => live'.partial[u] = live.partial[u]
          /\ live'.sidecar = live.sidecar /\ live'.target = live.target
      BY <1>1, <1>3, PartialWritten, ZenonT(60) DEF CreatePartial
    <2>2. "sidecar" \in Places /\ helper[h].result \in Replies
      BY <1>1 DEF Places, Locked, Replies
    <2>3. MovesTo(h, "sidecar", "none")
      BY <1>1, <1>3, <2>2, MoveMade, ZenonT(60) DEF CreatePartial
    <2>4. Grows(helper[h], helper'[h])
      BY <1>1, <2>3 DEF Grows, MovesTo, Unmade, Unrecorded
    <2>5. Step(h)
      BY <1>1, <2>1, <2>3, <2>4, EntryStep, ZenonT(60) DEF MovesTo
    <2>6. SidecarOf(h)' = SidecarOf(h) /\ PartialOf(h)' = h
      BY <2>1, <2>3, ZenonT(60) DEF MovesTo, SidecarOf, PartialOf
    <2>7. ~Excused(helper[h].id) => SidecarOf(h) = Nothing
      BY ZenonT(60) DEF Excused, CreatePartial, Continuing
    <2>8. Shape(h)'
      BY <1>1, <2>3, ZenonT(60) DEF Own, MovesTo, Shape, Unrecorded, Unmade, Recovering, Owning, Committed, Streaming, Cleaning
    <2>9. OnRecord(h)' /\ Progress(h)' /\ Settled(h)'
      BY <2>3, ZenonT(60) DEF MovesTo, OnRecord, Progress, Settled, At, Owning, Committed, Streaming, Cleaning, Recovering
    <2>10. Ready(h)'
      <3>1. ~(Excused(helper[h].id)') => ~Excused(helper[h].id)
        BY <2>5, StillUnexcused, ZenonT(60)
      <3> QED
        BY <2>3, <2>6, <2>7, <3>1, ZenonT(60) DEF MovesTo, Ready, At, Streaming, Committed, Recovering
    <2>11. \A d \in kept' : Sound(d)'
      <3>1. PICK t \in Transfers : t = helper[h].id
        BY <1>1 DEF Request
      <3>2. ~(Excused(t)') => ~Excused(t)
        BY <1>1, <2>5, ExcusedStays, ZenonT(60)
      <3>3. live.sidecar[t] \in Receipts => Excused(t)'
        BY <2>7, <3>1, <3>2, UploadAssumption DEF SidecarOf
      <3>4. helper'[h].pc \notin Unmade
        BY <2>3 DEF MovesTo, Unmade
      <3> QED
        BY <1>1, <2>1, <2>5, <3>1, <3>3, <3>4, PartialSound, ZenonT(60)
    <2> QED
      BY <1>1, <2>5, <2>8, <2>9, <2>10, <2>11, Closes, ZenonT(60) DEF UploadInv, Own
  <1> QED
    BY <1>2, <1>3

LEMMA CreateSidecarKeeps ==
  ASSUME UploadInv, NEW h \in Helpers, CreateSidecar(h)
  PROVE  UploadInv'
  <1>1. TypeOK /\ Own(h) /\ helper[h] \in Request /\ helper[h].pc = "sidecar" /\ helper[h].result = "none"
        /\ inode' = inode /\ chosen' = chosen /\ helper[h].pc \in Locked
    BY DEF UploadInv, TypeOK, CreateSidecar, At, Own, Shape, Cleaning, Locked
  <1>2. PICK t \in Transfers : t = helper[h].id
    BY <1>1, ZenonT(60) DEF Request
  <1>3. CASE SidecarOf(h) = Nothing
    <2>1. /\ live' \in Entries /\ live' \in kept' /\ kept' \subseteq kept \cup {live'}
          /\ live'.sidecar[helper[h].id] = Torn
          /\ \A u \in Transfers : u # helper[h].id => live'.sidecar[u] = live.sidecar[u]
          /\ live'.partial = live.partial /\ live'.target = live.target
      BY <1>1, <1>3, SidecarWritten DEF CreateSidecar
    <2>2. "write_sidecar" \in Places /\ helper[h].result \in Replies
      BY <1>1 DEF Places, Locked, Replies
    <2>3. MovesTo(h, "write_sidecar", "none")
      BY <1>1, <1>3, <2>2, MoveMade, ZenonT(60) DEF CreateSidecar
    <2>4. Grows(helper[h], helper'[h])
      BY <1>1, <2>3 DEF Grows, MovesTo, Unmade, Unrecorded
    <2>5. Step(h)
      BY <1>1, <2>1, <2>3, <2>4, EntryStep, ZenonT(60) DEF MovesTo
    <2>6. PartialOf(h)' = PartialOf(h)
      BY <2>1, <2>3, ZenonT(60) DEF MovesTo, PartialOf
    <2>7. Shape(h)'
      BY <1>1, <2>3, ZenonT(60) DEF Own, MovesTo, Shape, Unrecorded, Unmade, Recovering, Owning, Committed, Streaming, Cleaning
    <2>8. OnRecord(h)' /\ Progress(h)' /\ Settled(h)'
      BY <2>3, ZenonT(60) DEF MovesTo, OnRecord, Progress, Settled, At, Owning, Committed, Streaming, Cleaning, Recovering
    <2>9. Ready(h)'
      <3>1. ~(Excused(helper[h].id)') => ~Excused(helper[h].id)
        BY <2>5, StillUnexcused, ZenonT(60)
      <3>2. ~Excused(helper[h].id) => PartialOf(h) = h
        BY <1>1, ZenonT(60) DEF Own, Ready
      <3> QED
        BY <2>3, <2>6, <3>1, <3>2, ZenonT(60) DEF MovesTo, Ready, At, Streaming, Committed, Recovering
    <2>10. \A d \in kept' : Sound(d)'
      <3>1. Torn \notin Receipts
        BY UploadAssumption, ZenonT(60)
      <3> QED
        BY <1>1, <1>2, <2>1, <2>5, <3>1, SidecarSound, ZenonT(60)
    <2> QED
      BY <1>1, <2>5, <2>7, <2>8, <2>9, <2>10, Closes, ZenonT(60) DEF UploadInv, Own
  <1>4. CASE SidecarOf(h) # Nothing
    <2>1. /\ live' \in Entries /\ live' \in kept' /\ kept' \subseteq kept \cup {live'}
          /\ live'.partial[helper[h].id] = Nothing
          /\ \A u \in Transfers : u # helper[h].id => live'.partial[u] = live.partial[u]
          /\ live'.sidecar = live.sidecar /\ live'.target = live.target
      BY <1>1, <1>4, PartialWritten, ZenonT(60) DEF CreateSidecar
    <2>2. MovesTo(h, "done", "transfer_failed")
      BY <1>1, <1>4, MoveMade, ZenonT(60) DEF CreateSidecar, Answer, Places, Replies
    <2>3. Grows(helper[h], helper'[h])
      BY <1>1, <2>2, ZenonT(60) DEF Grows, MovesTo, Unmade, Unrecorded
    <2>4. Step(h)
      BY <1>1, <2>1, <2>2, <2>3, EntryStep, ZenonT(60) DEF MovesTo
    <2>5. Own(h)'
      BY <2>2, <2>4, EndOwn, ZenonT(60) DEF MovesTo
    <2>6. Excused(t)'
      <3>1. Excused(t)
        BY <1>1, <1>2, <1>4, ZenonT(60) DEF Own, Ready, At
      <3> QED
        BY <1>1, <2>4, <3>1, ExcusedStays, ZenonT(60)
    <2>7. \A d \in kept' : Sound(d)'
      BY <1>1, <1>2, <2>1, <2>4, <2>6, PartialSound, ZenonT(60)
    <2> QED
      BY <1>1, <2>4, <2>5, <2>7, Closes, ZenonT(60) DEF UploadInv
  <1> QED
    BY <1>3, <1>4, ZenonT(60)

LEMMA WriteSidecarKeeps ==
  ASSUME UploadInv, NEW h \in Helpers, WriteSidecar(h)
  PROVE  UploadInv'
  <1> DEFINE q == Receipt(helper[h].intent, 0, h, "receiving")
             r == [helper[h] EXCEPT !.pc = "receive", !.owned = h]
  <1>1. TypeOK /\ Own(h) /\ Unwritten(h) /\ helper[h] \in Request /\ helper[h].pc = "write_sidecar"
        /\ inode' = inode /\ chosen' = chosen /\ helper[h].pc \in Locked /\ live \in kept
    BY DEF UploadInv, TypeOK, WriteSidecar, At, Locked
  <1>2. /\ helper[h].result = "none" /\ helper[h].applied = "no" /\ helper[h].owned = Nothing
        /\ inode[h].len = 0 /\ helper[h].confirmed = 0 /\ helper[h].durable = 0 /\ helper[h].marked = 0
    BY <1>1, ZenonT(60) DEF Own, Shape, Unwritten, Unrecorded, Cleaning
  <1>3. PICK t \in Transfers : t = helper[h].id
    BY <1>1 DEF Request
  <1>4. q \in Receipts /\ q.file = h /\ q.offset = 0 /\ q.state = "receiving"
    <2>1. helper[h].intent \in Intents /\ 0 \in 0..Size
      BY <1>1, UploadAssumption DEF Request
    <2> QED
      BY <2>1, RecordTyped
  <1>5. helper' = [helper EXCEPT ![h] = r]
    BY <1>1, ZenonT(60) DEF WriteSidecar, Request
  <1>6. r \in Request
    BY <1>1, ZenonT(60) DEF Request, Locked
  <1>7. helper' \in [Helpers -> Request] /\ (\A g \in Helpers : g # h => helper'[g] = helper[g]) /\ helper'[h] = r
    BY <1>1, <1>5, <1>6 DEF TypeOK
  <1>8. /\ helper'[h].pc = "receive" /\ helper'[h].id = t /\ helper'[h].intent = helper[h].intent
        /\ helper'[h].mode = helper[h].mode /\ helper'[h].owned = h /\ helper'[h].applied = "no"
        /\ helper'[h].result = "none" /\ helper'[h].confirmed = 0 /\ helper'[h].durable = 0
        /\ helper'[h].marked = 0
    BY <1>1, <1>2, <1>3, <1>7, ZenonT(60) DEF Request
  <1>9. UpdateSynced(WithSidecar(h, q))
    BY ZenonT(60) DEF WriteSidecar
  <1> HIDE DEF q, r
  <1>10. /\ live' \in Entries /\ live' \in kept' /\ kept' \subseteq kept \cup {live'}
         /\ live'.sidecar[t] = q
         /\ \A u \in Transfers : u # t => live'.sidecar[u] = live.sidecar[u]
         /\ live'.partial = live.partial /\ live'.target = live.target
    BY <1>1, <1>3, <1>4, <1>9, SidecarWritten, ZenonT(60)
  <1>11. Grows(helper[h], helper'[h])
    BY <1>1, <1>2, <1>3, <1>8 DEF Grows, Unmade, Unrecorded
  <1>12. Step(h)
    BY <1>1, <1>3, <1>7, <1>10, <1>11, EntryStep, ZenonT(60)
  <1>13. GoodRecord(q, t) /\ \A d \in kept : d.target # h
    BY <1>1, <1>3, <1>4, <1>8, <1>12, FirstRecord DEF Unrecorded, Unmade
  <1>14. h # Nothing
    BY UploadAssumption
  <1>15. Shape(h)'
    BY <1>8, <1>14 DEF Shape, Unrecorded, Unmade, Recovering, Committed, Streaming, Cleaning
  <1>16. SidecarOf(h)' = q /\ PartialOf(h)' = PartialOf(h)
    BY <1>3, <1>8, <1>10, ZenonT(60) DEF SidecarOf, PartialOf
  <1>17. OnRecord(h)'
    <2>1. ASSUME NEW d \in kept'
          PROVE  /\ d.sidecar[t] \in Receipts /\ d.sidecar[t].file = h => d.sidecar[t].offset <= 0
                 /\ d.target # h
      <3>1. CASE d = live'
        BY <1>1, <1>4, <1>10, <1>13, <3>1
      <3>2. CASE d \in kept
        BY <1>4, <1>13, <3>2, ZenonT(60) DEF GoodRecord
      <3> QED
        BY <1>10, <3>1, <3>2, ZenonT(60)
    <2>2. inode[h] \in Contents
      BY <1>1 DEF TypeOK
    <2>3. 0 <= 0 /\ 0 <= inode[h].firm /\ (\A k \in 1..0 : FALSE)
      BY <2>2 DEF Contents
    <2> QED
      BY <1>1, <1>2, <1>4, <1>8, <1>16, <2>1, <2>3, ZenonT(60) DEF OnRecord
  <1>18. Progress(h)'
    BY <1>1, <1>8, <1>10, <1>13, ZenonT(60) DEF Progress, At, Committed, Recovering, Cleaning
  <1>19. Settled(h)'
    BY <1>8 DEF Settled, At, Committed, Recovering
  <1>20. ~(Excused(t)') => PartialOf(h) = h
    <2>1. ~(Excused(t)') => ~Excused(t)
      BY <1>1, <1>12, ExcusedStays, ZenonT(60)
    <2> QED
      BY <1>1, <1>3, <2>1, ZenonT(60) DEF Own, Ready
  <1>21. Ready(h)'
    <2>1. ~(Excused(helper[h].id)') => PartialOf(h)' = h
      BY <1>8, <1>16, <1>20, ZenonT(60) DEF Excused
    <2> QED
      BY <1>8, <2>1, ZenonT(60) DEF Ready, At, Committed, Recovering
  <1>22. \A d \in kept' : Sound(d)'
    <2>1. live.target # q.file
      BY <1>1, <1>4, <1>13, ZenonT(60)
    <2>2. ~(Excused(t)') => live.partial[t] = q.file
      BY <1>3, <1>4, <1>20, ZenonT(60) DEF PartialOf
    <2> QED
      BY <1>1, <1>3, <1>4, <1>10, <1>12, <1>13, <2>1, <2>2, SidecarSound, ZenonT(60)
  <1> QED
    BY <1>1, <1>12, <1>15, <1>17, <1>18, <1>19, <1>21, <1>22, Closes, ZenonT(60) DEF UploadInv, Own

LEMMA InitialSidecarFailsKeeps ==
  ASSUME UploadInv, NEW h \in Helpers, InitialSidecarFails(h)
  PROVE  UploadInv'
  <1> DEFINE q == Receipt(helper[h].intent, 0, h, "receiving")
  <1>1. TypeOK /\ Own(h) /\ helper[h] \in Request /\ helper[h].pc \in {"sidecar", "write_sidecar"}
        /\ inode' = inode /\ chosen' = chosen /\ helper[h].result = "none" /\ live \in kept /\ live \in Entries
    BY DEF UploadInv, TypeOK, InitialSidecarFails, Own, Shape, Cleaning
  <1>2. helper[h].pc \in Locked
    BY <1>1 DEF Locked
  <1>3. PICK t \in Transfers : t = helper[h].id
    BY <1>1 DEF Request
  <1>4. q \in Receipts /\ q.file = h /\ q.offset = 0
    <2>1. helper[h].intent \in Intents /\ 0 \in 0..Size
      BY <1>1, UploadAssumption DEF Request
    <2> QED
      BY <2>1, RecordTyped
  <1> DEFINE Written == {SidecarOf(h)} \cup (IF At(h, "sidecar") THEN {} ELSE {Nothing, q})
             Left(f, record) == [live EXCEPT !.partial[helper[h].id] = f, !.sidecar[helper[h].id] = record]
  <1>16. PICK f \in {Nothing, h}, record \in Written :
           \/ f = Nothing /\ record \notin Receipts /\ UpdateSynced(Left(f, record)) /\ Answer(h, "transfer_failed")
           \/ At(h, "sidecar") /\ Left(f, record) = live /\ Update(Left(f, record)) /\ Answer(h, "transfer_failed")
           \/ Update(Left(f, record)) /\ Answer(h, "cleanup_incomplete")
    BY ZenonT(60) DEF InitialSidecarFails
  <1>5. PICK code \in {"transfer_failed", "cleanup_incomplete"} :
          /\ live' = [live EXCEPT !.partial[helper[h].id] = f, !.sidecar[helper[h].id] = record]
          /\ live' \in kept' /\ kept' \subseteq kept \cup {live'}
          /\ Answer(h, code)
          /\ code = "transfer_failed" /\ At(h, "write_sidecar") => record \notin Receipts
          /\ record \in Written
    <2>1. At(h, "sidecar") => ~At(h, "write_sidecar")
      BY DEF At
    <2> QED
      BY <1>16, <2>1, ZenonT(60) DEF Update, UpdateSynced
  <1> HIDE DEF q
  <1>6. record \in Receipts \cup {Nothing, Torn} /\ record \in {live.sidecar[t], Nothing, q}
    BY <1>1, <1>3, <1>4, <1>5 DEF SidecarOf, Entries
  <1>7. /\ live' \in Entries /\ live'.target = live.target
        /\ live'.sidecar[t] = record /\ \A u \in Transfers : u # t => live'.sidecar[u] = live.sidecar[u]
        /\ live'.partial[t] = f /\ \A u \in Transfers : u # t => live'.partial[u] = live.partial[u]
    <2>1. f \in Helpers \cup {Nothing}
      BY <1>5, ZenonT(60)
    <2> QED
      BY <1>1, <1>3, <1>5, <1>6, <2>1, ZenonT(60) DEF Entries
  <1>8. MovesTo(h, "done", code)
    BY <1>1, <1>5, MoveMade, ZenonT(60) DEF Answer, Places, Replies
  <1>9. Grows(helper[h], helper'[h])
    BY <1>1, <1>8 DEF Grows, MovesTo, Unmade, Unrecorded
  <1>10. Step(h)
    BY <1>1, <1>2, <1>3, <1>5, <1>7, <1>8, <1>9, EntryStep, ZenonT(60) DEF MovesTo
  <1>11. Own(h)'
    BY <1>8, <1>10, EndOwn, ZenonT(60) DEF MovesTo
  <1>12. helper'[h].pc \notin Unrecorded /\ helper'[h].pc \notin Unmade
    BY <1>8 DEF MovesTo, Unrecorded, Unmade
  <1>13. record \in Receipts => GoodRecord(record, t)
    <2>1. GoodRecord(q, t)
      BY <1>1, <1>3, <1>4, <1>10, <1>12, FirstRecord, ZenonT(60)
    <2>2. live.sidecar[t] \in Receipts => GoodRecord(live.sidecar[t], t)
      BY <1>10, RecordStaysGood, ZenonT(60)
    <2> QED
      BY <1>6, <2>1, <2>2, UploadAssumption, ZenonT(60)
  <1>14. record \in Receipts => Excused(t)'
    <2>1. CASE code = "cleanup_incomplete"
      BY <1>3, <1>8, <2>1, ZenonT(60) DEF MovesTo, Excused
    <2>2. CASE code = "transfer_failed"
      <3>1. CASE At(h, "write_sidecar")
        BY <1>5, <2>2, <3>1, ZenonT(60)
      <3>2. CASE At(h, "sidecar")
        <4>1. record = SidecarOf(h)
          BY <1>5, <3>2, ZenonT(60)
        <4>2. ~(Excused(t)') => SidecarOf(h) = Nothing
          BY <1>1, <1>3, <1>10, <3>2, ExcusedStays, ZenonT(60) DEF Own, Ready
        <4> QED
          BY <4>1, <4>2, UploadAssumption
      <3> QED
        BY <1>1, <3>1, <3>2 DEF At
    <2> QED
      BY <1>5, <2>1, <2>2
  <1>15. \A d \in kept' : Sound(d)'
    <2>1. f # Nothing => f \in Helpers /\ helper[f].id = t /\ helper'[f].pc \notin Unmade
      BY <1>3, <1>5, <1>12
    <2>2. inode' = inode
      BY <1>1
    <2> QED
      BY <1>3, <1>7, <1>10, <1>13, <1>14, <2>1, <2>2, EntriesSound, ZenonT(60)
  <1> QED
    BY <1>1, <1>10, <1>11, <1>15, Closes, ZenonT(60) DEF UploadInv

LEMMA MarkKeeps ==
  ASSUME UploadInv, NEW h \in Helpers, MarkWindow(h) \/ MarkFull(h)
  PROVE  UploadInv'
  <1> DEFINE f == helper[h].owned
             c == inode[f]
             q == Receipt(helper[h].intent, helper[h].durable, f, "receiving")
  <1>1. TypeOK /\ Own(h) /\ helper[h] \in Request /\ helper[h].pc \in {"mark_window", "mark_full"}
        /\ inode' = inode /\ chosen' = chosen /\ live \in kept
    BY DEF UploadInv, TypeOK, MarkWindow, MarkFull, At
  <1>2. helper[h].pc \in Owning /\ helper[h].pc \in Locked /\ helper[h].pc \in Streaming
    BY <1>1 DEF Owning, Streaming, Locked
  <1>3. CASE ~Unaltered(h, "receiving")
    <2>1. Quiet /\ Raise(h)
      BY <1>1, <1>3, QuietWhenUnchanged, ZenonT(60) DEF MarkWindow, MarkFull, Untouched
    <2> QED
      BY <1>1, <2>1, Raised DEF Locked, Cleaning
  <1>4. CASE Unaltered(h, "receiving")
    <2>1. /\ f \in Helpers /\ f # Nothing /\ helper[f].id = helper[h].id /\ helper[f].pc \notin Unrecorded
          /\ c \in Contents /\ c.firm <= c.len /\ helper[h].confirmed \in 0..Size
          /\ helper[h].durable \in 0..Size /\ helper[h].marked \in 0..Size
      BY <1>2, OwnedFacts, ZenonT(60)
    <2>2. PICK t \in Transfers : t = helper[h].id
      BY <1>1 DEF Request
    <2>3. /\ helper[h].marked <= helper[h].durable /\ helper[h].durable <= helper[h].confirmed
          /\ helper[h].durable <= c.firm /\ c.len = helper[h].confirmed
          /\ \A k \in 1..helper[h].confirmed : c.data[k] # "lost"
          /\ \A d \in kept :
               /\ d.sidecar[t] \in Receipts /\ d.sidecar[t].file = f => d.sidecar[t].offset <= helper[h].marked
               /\ d.target = f => helper[h].durable = Size
      BY <1>1, <1>2, <2>2, ZenonT(60) DEF Own, OnRecord
    <2>4. live.target # f /\ (At(h, "mark_full") => helper[h].durable = Size /\ c.firm = Size)
      BY <1>1, <1>2, ZenonT(60) DEF Own, Progress, At
    <2>5. PICK label \in {"receive", "verify"} :
            /\ Update(WithSidecar(h, q))
            /\ helper' = [helper EXCEPT ![h].pc = label, ![h].marked = helper[h].durable]
            /\ label = "verify" => helper[h].durable = Size /\ c.firm = Size
      BY <1>4, <2>4 DEF MarkWindow, MarkFull
    <2> DEFINE r == [helper[h] EXCEPT !.pc = label, !.marked = helper[h].durable]
    <2>6. label \in Locked /\ label \in Streaming
      BY <2>5 DEF Locked, Streaming
    <2>7. helper' = [helper EXCEPT ![h] = r]
      BY <1>1, <2>5, ZenonT(60) DEF Request
    <2>8. r \in Request
      BY <1>1, <2>1, <2>6, ZenonT(60) DEF Request
    <2>9. helper' \in [Helpers -> Request] /\ (\A g \in Helpers : g # h => helper'[g] = helper[g]) /\ helper'[h] = r
      BY <1>1, <2>7, <2>8, ZenonT(60) DEF TypeOK
    <2>10. /\ helper'[h].pc = label /\ helper'[h].id = t /\ helper'[h].intent = helper[h].intent
           /\ helper'[h].mode = helper[h].mode /\ helper'[h].owned = f /\ helper'[h].applied = helper[h].applied
           /\ helper'[h].result = helper[h].result /\ helper'[h].digest = helper[h].digest
           /\ helper'[h].confirmed = helper[h].confirmed /\ helper'[h].durable = helper[h].durable
           /\ helper'[h].marked = helper[h].durable
      BY <1>1, <2>2, <2>9, ZenonT(60) DEF Request
    <2>11. q \in Receipts /\ q.file = f /\ q.offset = helper[h].durable /\ q.state = "receiving"
      <3>1. helper[h].intent \in Intents
        BY <1>1 DEF Request
      <3> QED
        BY <2>1, <3>1, RecordTyped
    <2> HIDE DEF r, q
    <2>12. /\ live' \in Entries /\ live' \in kept' /\ kept' \subseteq kept \cup {live'}
           /\ live'.sidecar[t] = q
           /\ \A u \in Transfers : u # t => live'.sidecar[u] = live.sidecar[u]
           /\ live'.partial = live.partial /\ live'.target = live.target
      BY <1>1, <2>2, <2>5, <2>11, SidecarWritten, ZenonT(60)
    <2>13. Grows(helper[h], helper'[h])
      BY <1>1, <2>2, <2>5, <2>10 DEF Grows, Unmade, Unrecorded
    <2>14. Step(h)
      BY <1>1, <1>2, <2>2, <2>9, <2>12, <2>13, EntryStep, ZenonT(60)
    <2>15. SidecarOf(h)' = q /\ PartialOf(h)' = PartialOf(h)
      BY <2>2, <2>10, <2>12, ZenonT(60) DEF SidecarOf, PartialOf
    <2>16. OnRecord(h)'
      <3>1. ASSUME NEW d \in kept'
            PROVE  /\ d.sidecar[t] \in Receipts /\ d.sidecar[t].file = f => d.sidecar[t].offset <= helper[h].durable
                   /\ d.target = f => helper[h].durable = Size
        <4>1. CASE d = live'
          BY <2>1, <2>4, <2>11, <2>12, <4>1
        <4>2. CASE d \in kept
          <5>1. \A o \in Receipts : o.offset \in 0..Size
            BY ZenonT(60) DEF Receipts
          <5>2. d.sidecar[t] \in Receipts /\ d.sidecar[t].file = f =>
                  d.sidecar[t].offset <= helper[h].marked /\ d.sidecar[t].offset \in 0..Size
            BY <2>1, <2>3, <4>2, <5>1, ZenonT(60)
          <5>3. /\ helper[h].marked <= helper[h].durable /\ (d.target = f => helper[h].durable = Size)
                /\ helper[h].marked \in 0..Size /\ helper[h].durable \in 0..Size /\ Size \in Nat
            BY <2>1, <2>3, <4>2, <5>1, UploadAssumption, ZenonT(60)
          <5> QED
            BY <5>2, <5>3
        <4> QED
          BY <2>12, <4>1, <4>2, ZenonT(60)
      <3>2. helper[h].durable <= helper[h].durable
        BY <2>1
      <3> QED
        BY <1>1, <2>3, <2>10, <2>11, <2>15, <3>1, <3>2, ZenonT(60) DEF OnRecord
    <2>17. Progress(h)'
      BY <1>1, <2>4, <2>5, <2>10, <2>11, <2>12, <2>15, ZenonT(60) DEF Progress, At, Committed, Recovering, Cleaning
    <2>18. Own(h)'
      BY <1>2, <2>6, <2>10, <2>14, <2>15, <2>16, <2>17, StreamingOwn, ZenonT(60)
    <2>19. GoodRecord(q, t)
      <3>1. helper[f].id = t /\ helper'[f].pc \notin Unrecorded
        BY <2>1, <2>2, <2>14, ZenonT(60) DEF Step, Grows
      <3>2. c.firm >= helper[h].durable /\ \A k \in 1..helper[h].durable : c.data[k] # "lost"
        <4>1. /\ helper[h].durable <= helper[h].confirmed /\ helper[h].durable <= c.firm
              /\ \A k \in 1..helper[h].confirmed : c.data[k] # "lost"
              /\ helper[h].durable \in 0..Size /\ helper[h].confirmed \in 0..Size /\ c.firm \in 0..Size
          BY <2>1, <2>3, ZenonT(60) DEF Contents
        <4> QED
          BY <4>1, UploadAssumption
      <3>3. ASSUME NEW d \in kept
            PROVE  /\ d.sidecar[t] \in Receipts /\ d.sidecar[t].file = f => d.sidecar[t].offset <= helper[h].durable
                   /\ d.target = f => helper[h].durable = Size
        <4>1. \A o \in Receipts : o.offset \in 0..Size
          BY DEF Receipts
        <4>2. d.sidecar[t] \in Receipts /\ d.sidecar[t].file = f =>
                d.sidecar[t].offset <= helper[h].marked /\ d.sidecar[t].offset \in 0..Size
          BY <2>1, <2>3, <4>1, ZenonT(60)
        <4>3. /\ helper[h].marked <= helper[h].durable /\ (d.target = f => helper[h].durable = Size)
              /\ helper[h].marked \in 0..Size /\ helper[h].durable \in 0..Size /\ Size \in Nat
          BY <2>1, <2>3, <4>1, UploadAssumption, ZenonT(60)
        <4> QED
          BY <4>2, <4>3
      <3> QED
        BY <2>11, <3>1, <3>2, <3>3, ZenonT(60) DEF GoodRecord
    <2>20. ~(Excused(t)') => live.partial[t] = f
      <3>1. ~(Excused(t)') => ~Excused(t)
        BY <1>1, <2>14, ExcusedStays, ZenonT(60)
      <3>2. helper[h].applied = "no"
        BY <1>1, <1>2, ZenonT(60) DEF Own, Shape
      <3> QED
        BY <1>1, <1>2, <2>2, <3>1, <3>2, ZenonT(60) DEF Own, Ready, PartialOf
    <2>21. \A d \in kept' : Sound(d)'
      <3>1. inode' = inode /\ live.target # q.file
        BY <1>1, <2>4, <2>11, ZenonT(60)
      <3> QED
        BY <2>2, <2>11, <2>12, <2>14, <2>19, <2>20, <3>1, SidecarSound, ZenonT(60)
    <2> QED
      BY <1>1, <2>14, <2>18, <2>21, Closes, ZenonT(60) DEF UploadInv
  <1> QED
    BY <1>3, <1>4

LEMMA LinkKeeps ==
  ASSUME UploadInv, NEW h \in Helpers, Link(h)
  PROVE  UploadInv'
  <1> DEFINE f == helper[h].owned
             c == inode[f]
  <1>1. TypeOK /\ Own(h) /\ helper[h] \in Request /\ helper[h].pc = "link"
        /\ inode' = inode /\ chosen' = chosen /\ live \in kept /\ live \in Entries
    BY DEF UploadInv, TypeOK, Link, At
  <1>2. helper[h].pc \in Owning /\ helper[h].pc \in Locked /\ helper[h].pc \in Streaming
    BY <1>1 DEF Owning, Streaming, Locked
  <1>3. CASE live.target # Nothing
    <2>1. Quiet /\ Raise(h)
      BY <1>1, <1>3, QuietWhenUnchanged DEF Link, Untouched
    <2> QED
      BY <1>1, <2>1, Raised, ZenonT(60) DEF Locked, Cleaning
  <1>4. CASE live.target = Nothing
    <2>1. /\ f \in Helpers /\ f # Nothing /\ helper[f].id = helper[h].id /\ helper[f].pc \notin Unrecorded
          /\ helper[h].id \in Transfers
      BY <1>2, OwnedFacts, ZenonT(60)
    <2>2. /\ helper[h].durable = Size /\ c.firm = Size /\ Whole(c)
          /\ SidecarOf(h) \in Receipts => SidecarOf(h).offset = Size
      BY <1>1 DEF Own, Progress
    <2>3. live' = [live EXCEPT !.target = f] /\ kept' = kept \cup {live'}
      BY <1>4, ZenonT(60) DEF Link, Update
    <2>4. live' \in Entries /\ live'.target = f /\ live'.sidecar = live.sidecar /\ live'.partial = live.partial
      BY <1>1, <2>1, <2>3, TargetEntry, ZenonT(60)
    <2>5. "sync_link" \in Places /\ helper[h].result \in Replies
      BY <1>1 DEF Places, Locked, Request
    <2>6. MovesTo(h, "sync_link", helper[h].result)
      BY <1>1, <1>4, <2>5, MoveMade, ZenonT(60) DEF Link
    <2>7. Grows(helper[h], helper'[h])
      BY <1>1, <2>6 DEF Grows, MovesTo, Unmade, Unrecorded
    <2>8. Step(h)
      BY <1>1, <1>2, <1>4, <2>1, <2>3, <2>4, <2>6, <2>7, ZenonT(60) DEF TypeOK, Step, MovesTo
    <2>9. helper'[f].id = helper[h].id /\ helper'[f].pc \notin Unrecorded
      BY <2>1, <2>8, ZenonT(60) DEF Step, Grows
    <2>10. Shape(h)'
      BY <1>1, <1>2, <2>1, <2>6, <2>9, ZenonT(60)
         DEF Own, Shape, MovesTo, Unrecorded, Unmade, Recovering, Committed, Streaming, Cleaning
    <2>11. SidecarOf(h)' = SidecarOf(h)
      BY <2>4, <2>6, ZenonT(60) DEF MovesTo, SidecarOf
    <2>12. OnRecord(h)'
      <3>1. OnRecord(h)
        BY <1>1, ZenonT(60) DEF Own
      <3>2. ASSUME NEW d \in kept'
            PROVE  d.sidecar[helper[h].id] \in Receipts /\ d.sidecar[helper[h].id].file = f
                     => d.sidecar[helper[h].id].offset <= helper[h].marked
        <4>1. PICK e \in kept : d.sidecar = e.sidecar
          BY <1>1, <2>3, <2>4, ZenonT(60)
        <4> QED
          BY <1>2, <3>1, <4>1, ZenonT(60) DEF OnRecord
      <3> QED
        BY <1>1, <1>2, <2>2, <2>6, <2>11, <3>1, <3>2, ZenonT(60) DEF OnRecord, MovesTo
    <2>13. Progress(h)'
      BY <1>1, <2>2, <2>6, <2>11, ZenonT(60) DEF MovesTo, Progress, At, Committed, Recovering, Cleaning, Streaming
    <2>14. Settled(h)'
      BY <1>1, <1>2, <2>6, ZenonT(60) DEF Own, Shape, MovesTo, Settled, At, Committed, Recovering, Streaming, Cleaning
    <2>15. Ready(h)'
      BY <2>4, <2>6, ZenonT(60) DEF MovesTo, Ready, At, Committed, Recovering, Streaming
    <2>16. Full(live.sidecar[helper[h].id], f)
      BY <2>2, ZenonT(60) DEF Full, SidecarOf
    <2>17. \A d \in kept' : Sound(d)'
      BY <1>1, <1>4, <2>1, <2>2, <2>4, <2>8, <2>9, <2>16, LinkSound, ZenonT(60)
    <2> QED
      BY <1>1, <2>8, <2>10, <2>12, <2>13, <2>14, <2>15, <2>17, Closes, ZenonT(60) DEF UploadInv, Own
  <1> QED
    BY <1>3, <1>4

\* The steps of an attempt after its commit that change an entry.
LEMMA CommittedOwn ==
  ASSUME UploadInv, NEW h \in Helpers, Step(h), helper[h].pc \in Committed, NEW label \in Committed,
         MovesTo(h, label, helper[h].result), inode' = inode, live'.target = live.target,
         \/ SidecarOf(h)' = SidecarOf(h)
         \/ SidecarOf(h)' \notin Receipts
         \/ SidecarOf(h)'.file = helper[h].owned /\ SidecarOf(h)'.offset = Size /\ helper[h].marked = Size
  PROVE  Own(h)'
  <1>1. TypeOK /\ Own(h) /\ live \in kept /\ kept' \subseteq kept \cup {live'} /\ helper[h].pc \in Owning
        /\ Size \in Nat
    BY UploadAssumption, ZenonT(60) DEF UploadInv, TypeOK, Step, Owning
  <1>2. /\ helper[h].owned \in Helpers /\ helper[h].owned # Nothing /\ helper[h].id \in Transfers
        /\ helper[helper[h].owned].id = helper[h].id /\ helper[helper[h].owned].pc \notin Unrecorded
    BY <1>1, OwnedFacts, ZenonT(60)
  <1>3. helper[h].result = "none" /\ helper[h].applied = "yes"
    BY <1>1, ZenonT(60) DEF Own, Shape, Committed, Cleaning
  <1>4. Shape(h)'
    <2>1. helper'[helper[h].owned].id = helper[h].id /\ helper'[helper[h].owned].pc \notin Unrecorded
      BY <1>2, ZenonT(60) DEF Step, Grows
    <2> QED
      BY <1>2, <1>3, <2>1, ZenonT(60) DEF MovesTo, Shape, Unrecorded, Unmade, Recovering, Committed, Streaming, Cleaning
  <1>5. SidecarOf(h)' = live'.sidecar[helper[h].id]
    BY ZenonT(60) DEF MovesTo, SidecarOf
  <1>6. OnRecord(h)'
    <2>1. OnRecord(h)
      BY <1>1, ZenonT(60) DEF Own
    <2>2. /\ \A d \in kept :
               /\ d.sidecar[helper[h].id] \in Receipts /\ d.sidecar[helper[h].id].file = helper[h].owned
                    => d.sidecar[helper[h].id].offset <= helper[h].marked
               /\ d.target = helper[h].owned => helper[h].durable = Size
          /\ SidecarOf(h) \in Receipts => SidecarOf(h).file = helper[h].owned
      BY <1>1, <2>1, ZenonT(60) DEF OnRecord
    <2>3. ASSUME NEW d \in kept'
          PROVE  /\ d.sidecar[helper[h].id] \in Receipts /\ d.sidecar[helper[h].id].file = helper[h].owned
                      => d.sidecar[helper[h].id].offset <= helper[h].marked
                 /\ d.target = helper[h].owned => helper[h].durable = Size
      <3>1. CASE d = live'
        <4>1. d.target = helper[h].owned => helper[h].durable = Size
          BY <1>1, <2>2, <3>1, ZenonT(60)
        <4>2. CASE SidecarOf(h)' = SidecarOf(h)
          BY <1>1, <1>5, <2>2, <3>1, <4>1, <4>2, ZenonT(60) DEF SidecarOf
        <4>3. CASE SidecarOf(h)' \notin Receipts
          BY <1>5, <3>1, <4>1, <4>3, ZenonT(60)
        <4>4. CASE SidecarOf(h)'.file = helper[h].owned /\ SidecarOf(h)'.offset = Size /\ helper[h].marked = Size
          <5>1. Size <= Size
            BY <1>1
          <5> QED
            BY <1>5, <3>1, <4>1, <4>4, <5>1, ZenonT(60)
        <4> QED
          BY <4>2, <4>3, <4>4, ZenonT(60)
      <3>2. CASE d \in kept
        BY <2>2, <3>2, ZenonT(60)
      <3> QED
        BY <1>1, <3>1, <3>2, ZenonT(60)
    <2>4. SidecarOf(h)' \in Receipts => SidecarOf(h)'.file = helper[h].owned
      BY <2>2, ZenonT(60)
    <2> QED
      BY <1>1, <2>1, <2>3, <2>4, ZenonT(60) DEF OnRecord, MovesTo
  <1>7. Progress(h)'
    <2>1. /\ helper[h].durable = Size /\ inode[helper[h].owned].firm = Size /\ Whole(inode[helper[h].owned])
          /\ SidecarOf(h)' \in Receipts => SidecarOf(h)'.offset = Size
      BY <1>1, ZenonT(60) DEF Own, Progress
    <2> QED
      BY <2>1, ZenonT(60) DEF MovesTo, Progress, At, Committed, Recovering, Cleaning, Streaming
  <1>8. Settled(h)'
    <2>1. chosen # "removed" => \A d \in kept' : d.target = helper[h].owned
      BY <1>1, <1>2, ZenonT(60) DEF Own, Settled
    <2> QED
      BY <1>3, <2>1, ZenonT(60) DEF MovesTo, Settled, At, Recovering, Committed, Step
  <1>9. Ready(h)'
    <2>1. ~(Excused(helper[h].id)') => ~Excused(helper[h].id)
      BY StillUnexcused, ZenonT(60)
    <2>2. ~Excused(helper[h].id) => live.target = helper[h].owned
      BY <1>1, <1>3, ZenonT(60) DEF Own, Ready
    <2> QED
      BY <2>1, <2>2, ZenonT(60) DEF MovesTo, Ready, At, Streaming, Recovering, Committed
  <1> QED
    BY <1>4, <1>6, <1>7, <1>8, <1>9, ZenonT(60) DEF Own

\* What the steps after the commit have in common.
LEMMA CommittedFacts ==
  ASSUME UploadInv, NEW h \in Helpers, helper[h].pc \in Committed
  PROVE  /\ TypeOK /\ helper[h].result \in Replies /\ helper[h].pc \in Locked
         /\ helper[h].owned \in Helpers /\ helper[helper[h].owned].id = helper[h].id
         /\ helper[helper[h].owned].pc \notin Unrecorded /\ helper[h].id \in Transfers
         /\ inode[helper[h].owned].firm = Size /\ Whole(inode[helper[h].owned])
         /\ ~Excused(helper[h].id) => live.target = helper[h].owned
         /\ SidecarOf(h) \in Receipts => SidecarOf(h).file = helper[h].owned /\ SidecarOf(h).offset = Size
  <1>1. Own(h) /\ helper[h] \in Request /\ helper[h].pc \in Owning /\ helper[h].pc \in Locked
    BY DEF UploadInv, TypeOK, Owning, Committed, Locked
  <1>2. /\ helper[h].owned \in Helpers /\ helper[helper[h].owned].id = helper[h].id
        /\ helper[helper[h].owned].pc \notin Unrecorded /\ helper[h].id \in Transfers
    BY <1>1, OwnedFacts, ZenonT(60)
  <1>3. helper[h].result \in Replies /\ helper[h].applied = "yes"
    BY <1>1, ZenonT(60) DEF Request, Own, Shape
  <1>4. ~Excused(helper[h].id) => live.target = helper[h].owned
    BY <1>1, <1>3, ZenonT(60) DEF Own, Ready
  <1>5. SidecarOf(h) \in Receipts => SidecarOf(h).file = helper[h].owned /\ SidecarOf(h).offset = Size
    BY <1>1, ZenonT(60) DEF Own, OnRecord, Progress
  <1>6. inode[helper[h].owned].firm = Size /\ Whole(inode[helper[h].owned])
    BY <1>1, ZenonT(60) DEF Own, Progress
  <1> QED
    BY <1>1, <1>2, <1>3, <1>4, <1>5, <1>6, ZenonT(60) DEF UploadInv

LEMMA PersistReceiptKeeps ==
  ASSUME UploadInv, NEW h \in Helpers, PersistReceipt(h)
  PROVE  UploadInv'
  <1> DEFINE f == helper[h].owned
             q == Receipt(helper[h].intent, Size, f, "committed")
  <1>1. helper[h].pc = "receipt" /\ helper[h].pc \in Committed /\ inode' = inode /\ chosen' = chosen
    BY DEF PersistReceipt, At, Committed
  <1>2. /\ TypeOK /\ helper[h].result \in Replies /\ helper[h].pc \in Locked
        /\ f \in Helpers /\ helper[f].id = helper[h].id /\ helper[f].pc \notin Unrecorded
        /\ helper[h].id \in Transfers /\ inode[f].firm = Size /\ Whole(inode[f])
        /\ ~Excused(helper[h].id) => live.target = f
        /\ SidecarOf(h) \in Receipts => SidecarOf(h).file = f /\ SidecarOf(h).offset = Size
    BY <1>1, CommittedFacts, ZenonT(60)
  <1>3. CASE ~Unaltered(h, "receiving")
    <2>1. Quiet /\ Raise(h)
      BY <1>2, <1>3, QuietWhenUnchanged, ZenonT(60) DEF PersistReceipt, Untouched
    <2> QED
      BY <1>1, <2>1, Raised, ZenonT(60) DEF Locked, Cleaning
  <1>4. CASE Unaltered(h, "receiving")
    <2>1. q \in Receipts /\ q.file = f /\ q.offset = Size
      <3>1. helper[h].intent \in Intents /\ Size \in 0..Size
        <4>1. helper[h] \in Request
          BY <1>2, ZenonT(60) DEF TypeOK
        <4> QED
          BY <4>1, UploadAssumption DEF Request
      <3>2. f \in Helpers
        BY <1>2, ZenonT(60)
      <3> QED
        BY <3>1, <3>2, RecordTyped
    <2>2. Update(WithSidecar(h, q)) /\ Goto(h, "remove_partial")
      BY <1>4, ZenonT(60) DEF PersistReceipt
    <2> HIDE DEF q
    <2>3. PICK t \in Transfers : t = helper[h].id
      BY <1>2, ZenonT(60)
    <2>4. /\ live' \in Entries /\ live' \in kept' /\ kept' \subseteq kept \cup {live'}
          /\ live'.sidecar[t] = q
          /\ \A u \in Transfers : u # t => live'.sidecar[u] = live.sidecar[u]
          /\ live'.partial = live.partial /\ live'.target = live.target
      BY <1>2, <2>1, <2>2, <2>3, SidecarWritten, ZenonT(60)
    <2>5. "remove_partial" \in Places /\ "remove_partial" \in Committed
      BY DEF Places, Locked, Committed
    <2>6. MovesTo(h, "remove_partial", helper[h].result)
      BY <1>2, <2>2, <2>5, MoveMade, ZenonT(60)
    <2>7. Grows(helper[h], helper'[h])
      BY <1>1, <2>6 DEF Grows, MovesTo, Unmade, Unrecorded
    <2>8. Step(h)
      BY <1>1, <1>2, <2>3, <2>4, <2>6, <2>7, EntryStep, ZenonT(60) DEF MovesTo
    <2>9. helper[h].marked = Size
      BY <1>2, <1>4, ZenonT(60) DEF Unaltered, Validates
    <2>10. SidecarOf(h)' = q
      BY <2>3, <2>4, <2>6, ZenonT(60) DEF MovesTo, SidecarOf
    <2>11. Own(h)'
      BY <1>1, <2>1, <2>4, <2>5, <2>6, <2>8, <2>9, <2>10, CommittedOwn, ZenonT(60)
    <2>12. GoodRecord(q, t)
      <3>1. helper'[f].pc \notin Unrecorded
        BY <1>2, <2>8, ZenonT(60) DEF Step, Grows
      <3>2. Size >= Size /\ \A k \in 1..Size : inode[f].data[k] # "lost"
        <4>1. \A k \in 1..Size : inode[f].data[k] = "right"
          BY <1>2, ZenonT(60) DEF Whole
        <4>2. Size >= Size
          BY UploadAssumption
        <4> QED
          BY <4>1, <4>2, ZenonT(60)
      <3>3. \A o \in Receipts : o.offset <= Size
        BY UploadAssumption DEF Receipts
      <3> QED
        BY <1>2, <2>1, <2>3, <3>1, <3>2, <3>3, ZenonT(60) DEF GoodRecord
    <2>13. ~(Excused(t)') => live.target = f
      BY <1>2, <2>3, <2>8, ExcusedStays, ZenonT(60)
    <2>14. \A d \in kept' : Sound(d)'
      BY <1>1, <2>1, <2>3, <2>4, <2>8, <2>12, <2>13, SidecarSound, ZenonT(60)
    <2> QED
      BY <1>1, <2>8, <2>11, <2>14, Closes, ZenonT(60) DEF UploadInv
  <1> QED
    BY <1>3, <1>4

LEMMA RemovePartialKeeps ==
  ASSUME UploadInv, NEW h \in Helpers, RemovePartial(h)
  PROVE  UploadInv'
  <1> DEFINE f == helper[h].owned
  <1>1. helper[h].pc = "remove_partial" /\ helper[h].pc \in Committed /\ inode' = inode /\ chosen' = chosen
    BY DEF RemovePartial, At, Committed
  <1>2. /\ TypeOK /\ helper[h].result \in Replies /\ helper[h].pc \in Locked /\ helper[h].id \in Transfers
        /\ ~Excused(helper[h].id) => live.target = f
        /\ SidecarOf(h) \in Receipts => SidecarOf(h).file = f
    BY <1>1, CommittedFacts, ZenonT(60)
  <1>3. CASE PartialOf(h) # f
    <2>1. Quiet /\ Raise(h)
      BY <1>2, <1>3, QuietWhenUnchanged, ZenonT(60) DEF RemovePartial, Untouched
    <2> QED
      BY <1>1, <2>1, Raised DEF Locked, Cleaning
  <1>4. CASE PartialOf(h) = f
    <2>1. PICK t \in Transfers : t = helper[h].id
      BY <1>2, ZenonT(60)
    <2>2. Update(WithPartial(h, Nothing)) /\ Goto(h, "sync_partial")
      BY <1>4, ZenonT(60) DEF RemovePartial
    <2>3. /\ live' \in Entries /\ live' \in kept' /\ kept' \subseteq kept \cup {live'}
          /\ live'.partial[t] = Nothing
          /\ \A u \in Transfers : u # t => live'.partial[u] = live.partial[u]
          /\ live'.sidecar = live.sidecar /\ live'.target = live.target
      BY <1>2, <2>1, <2>2, PartialWritten
    <2>4. "sync_partial" \in Places /\ "sync_partial" \in Committed
      BY DEF Places, Locked, Committed
    <2>5. MovesTo(h, "sync_partial", helper[h].result)
      BY <1>2, <2>2, <2>4, MoveMade, ZenonT(60)
    <2>6. Grows(helper[h], helper'[h])
      BY <1>1, <2>5 DEF Grows, MovesTo, Unmade, Unrecorded
    <2>7. Step(h)
      BY <1>1, <1>2, <2>1, <2>3, <2>5, <2>6, EntryStep, ZenonT(60) DEF MovesTo
    <2>8. SidecarOf(h)' = SidecarOf(h)
      BY <2>3, <2>5, ZenonT(60) DEF MovesTo, SidecarOf
    <2>9. Own(h)'
      BY <1>1, <2>3, <2>4, <2>5, <2>7, <2>8, CommittedOwn, ZenonT(60)
    <2>10. live.sidecar[t] \in Receipts /\ ~(Excused(t)') => live.target = live.sidecar[t].file
      BY <1>2, <2>1, <2>7, ExcusedStays, ZenonT(60) DEF SidecarOf
    <2>11. \A d \in kept' : Sound(d)'
      BY <1>1, <2>1, <2>3, <2>7, <2>10, PartialSound, ZenonT(60)
    <2> QED
      BY <1>1, <2>7, <2>9, <2>11, Closes, ZenonT(60) DEF UploadInv
  <1> QED
    BY <1>3, <1>4

LEMMA RemoveSidecarKeeps ==
  ASSUME UploadInv, NEW h \in Helpers, RemoveSidecar(h)
  PROVE  UploadInv'
  <1>1. helper[h].pc = "remove_sidecar" /\ helper[h].pc \in Committed /\ inode' = inode /\ chosen' = chosen
    BY DEF RemoveSidecar, At, Committed
  <1>2. TypeOK /\ helper[h].result \in Replies /\ helper[h].pc \in Locked /\ helper[h].id \in Transfers
    BY <1>1, CommittedFacts, ZenonT(60)
  <1>3. CASE ~Validates(h, helper[h].owned)
    <2>1. Quiet /\ Raise(h)
      BY <1>2, <1>3, QuietWhenUnchanged DEF RemoveSidecar, Untouched
    <2> QED
      BY <1>1, <2>1, Raised, ZenonT(60) DEF Locked, Cleaning
  <1>4. CASE Validates(h, helper[h].owned)
    <2>1. PICK t \in Transfers : t = helper[h].id
      BY <1>2
    <2>2. Update(WithSidecar(h, Nothing)) /\ Goto(h, "sync_sidecar")
      BY <1>4, ZenonT(60) DEF RemoveSidecar
    <2>3. /\ live' \in Entries /\ live' \in kept' /\ kept' \subseteq kept \cup {live'}
          /\ live'.sidecar[t] = Nothing
          /\ \A u \in Transfers : u # t => live'.sidecar[u] = live.sidecar[u]
          /\ live'.partial = live.partial /\ live'.target = live.target
      BY <1>2, <2>1, <2>2, SidecarWritten
    <2>4. "sync_sidecar" \in Places /\ "sync_sidecar" \in Committed /\ Nothing \notin Receipts
      BY UploadAssumption, ZenonT(60) DEF Places, Locked, Committed
    <2>5. MovesTo(h, "sync_sidecar", helper[h].result)
      BY <1>2, <2>2, <2>4, MoveMade, ZenonT(60)
    <2>6. Grows(helper[h], helper'[h])
      BY <1>1, <2>5, ZenonT(60) DEF Grows, MovesTo, Unmade, Unrecorded
    <2>7. Step(h)
      BY <1>1, <1>2, <2>1, <2>3, <2>5, <2>6, EntryStep, ZenonT(60) DEF MovesTo
    <2>8. SidecarOf(h)' = Nothing
      BY <2>1, <2>3, <2>5, ZenonT(60) DEF MovesTo, SidecarOf
    <2>9. Own(h)'
      BY <1>1, <2>3, <2>4, <2>5, <2>7, <2>8, CommittedOwn, ZenonT(60)
    <2>10. \A d \in kept' : Sound(d)'
      BY <1>1, <2>1, <2>3, <2>4, <2>7, SidecarSound, ZenonT(60)
    <2> QED
      BY <1>1, <2>7, <2>9, <2>10, Closes, ZenonT(60) DEF UploadInv
  <1> QED
    BY <1>3, <1>4

\* The steps of a recovery that change an entry.
LEMMA RecoveryOwn ==
  ASSUME UploadInv, NEW h \in Helpers, Step(h), helper[h].pc \in Recovering, NEW label \in Recovering,
         MovesTo(h, label, helper[h].result), live'.target = live.target,
         SidecarOf(h)' \in Receipts, SidecarOf(h)'.offset = Size, SidecarOf(h)'.file = SidecarOf(h).file
  PROVE  Own(h)'
  <1>1. Own(h) /\ live \in kept /\ kept' \subseteq kept \cup {live'}
    BY ZenonT(60) DEF UploadInv, TypeOK, Step
  <1>2. helper[h].result = "none" /\ helper[h].owned = Nothing /\ helper[h].applied = "yes"
    BY <1>1, ZenonT(60) DEF Own, Shape, Recovering, Cleaning
  <1>3. Shape(h)'
    BY <1>2, ZenonT(60) DEF MovesTo, Shape, Unrecorded, Unmade, Recovering, Owning, Committed, Streaming, Cleaning
  <1>4. OnRecord(h)' /\ Progress(h)'
    BY ZenonT(60) DEF MovesTo, OnRecord, Progress, At, Owning, Committed, Streaming, Cleaning, Recovering
  <1>5. Settled(h)'
    <2>1. chosen # "removed" => \A d \in kept' : d.target \in Helpers
      BY <1>1, ZenonT(60) DEF Own, Settled
    <2> QED
      BY <1>2, <2>1, ZenonT(60) DEF MovesTo, Settled, At, Recovering, Step
  <1>6. Ready(h)'
    <2>1. ~(Excused(helper[h].id)') => ~Excused(helper[h].id)
      BY StillUnexcused, ZenonT(60)
    <2>2. ~Excused(helper[h].id) => live.target = SidecarOf(h).file
      BY <1>1, ZenonT(60) DEF Own, Ready
    <2> QED
      BY <2>1, <2>2, ZenonT(60) DEF MovesTo, Ready, At, Streaming, Recovering, Committed
  <1> QED
    BY <1>3, <1>4, <1>5, <1>6, ZenonT(60) DEF Own

LEMMA RecoveryFacts ==
  ASSUME UploadInv, NEW h \in Helpers, helper[h].pc \in Recovering
  PROVE  /\ TypeOK /\ helper[h].result \in Replies /\ helper[h].pc \in Locked /\ helper[h].id \in Transfers
         /\ SidecarOf(h) \in Receipts /\ SidecarOf(h).offset = Size
         /\ ~Excused(helper[h].id) => live.target = SidecarOf(h).file
  <1>1. TypeOK /\ Own(h) /\ helper[h] \in Request
    BY ZenonT(60) DEF UploadInv, TypeOK
  <1>2. helper[h].result \in Replies /\ helper[h].pc \in Locked /\ helper[h].id \in Transfers
    BY <1>1 DEF Request, Recovering, Locked
  <1> QED
    BY <1>1, <1>2, ZenonT(60) DEF Own, Progress, Ready

LEMMA RecoverReceiptKeeps ==
  ASSUME UploadInv, NEW h \in Helpers, RecoverReceipt(h)
  PROVE  UploadInv'
  <1> DEFINE q == [SidecarOf(h) EXCEPT !.state = "committed"]
  <1>1. helper[h].pc = "recover_receipt" /\ helper[h].pc \in Recovering /\ inode' = inode /\ chosen' = chosen
    BY DEF RecoverReceipt, At, Recovering
  <1>2. /\ TypeOK /\ helper[h].result \in Replies /\ helper[h].pc \in Locked
        /\ SidecarOf(h) \in Receipts /\ SidecarOf(h).offset = Size
        /\ ~Excused(helper[h].id) => live.target = SidecarOf(h).file
    BY <1>1, RecoveryFacts, ZenonT(60)
  <1>3. PICK t \in Transfers : t = helper[h].id
    BY <1>1, RecoveryFacts, ZenonT(60)
  <1>4. q \in Receipts /\ q.file = SidecarOf(h).file /\ q.offset = SidecarOf(h).offset
    BY <1>2, ZenonT(60) DEF Receipts
  <1>5. Update(WithSidecar(h, q)) /\ Goto(h, "recover_partial")
    BY ZenonT(60) DEF RecoverReceipt
  <1> HIDE DEF q
  <1>6. /\ live' \in Entries /\ live' \in kept' /\ kept' \subseteq kept \cup {live'}
        /\ live'.sidecar[t] = q
        /\ \A u \in Transfers : u # t => live'.sidecar[u] = live.sidecar[u]
        /\ live'.partial = live.partial /\ live'.target = live.target
    BY <1>2, <1>3, <1>4, <1>5, SidecarWritten, ZenonT(60)
  <1>7. "recover_partial" \in Places /\ "recover_partial" \in Recovering
    BY DEF Places, Locked, Recovering
  <1>8. MovesTo(h, "recover_partial", helper[h].result)
    BY <1>2, <1>5, <1>7, MoveMade, ZenonT(60)
  <1>9. Grows(helper[h], helper'[h])
    BY <1>1, <1>8 DEF Grows, MovesTo, Unmade, Unrecorded
  <1>10. Step(h)
    BY <1>1, <1>2, <1>3, <1>6, <1>8, <1>9, EntryStep, ZenonT(60) DEF MovesTo
  <1>11. SidecarOf(h)' = q
    BY <1>3, <1>6, <1>8, ZenonT(60) DEF MovesTo, SidecarOf
  <1>12. Own(h)'
    BY <1>1, <1>2, <1>4, <1>6, <1>7, <1>8, <1>10, <1>11, RecoveryOwn, ZenonT(60)
  <1>13. GoodRecord(q, t)
    <2>1. GoodRecord(SidecarOf(h), t)
      BY <1>2, <1>3, <1>10, RecordStaysGood, ZenonT(60) DEF SidecarOf
    <2> QED
      BY <1>4, <2>1, ZenonT(60) DEF GoodRecord
  <1>14. ~(Excused(t)') => live.target = q.file
    BY <1>2, <1>3, <1>4, <1>10, ExcusedStays, ZenonT(60)
  <1>15. \A d \in kept' : Sound(d)'
    BY <1>1, <1>2, <1>3, <1>4, <1>6, <1>10, <1>13, <1>14, SidecarSound, ZenonT(60)
  <1> QED
    BY <1>1, <1>10, <1>12, <1>15, Closes, ZenonT(60) DEF UploadInv

LEMMA RecoverPartialKeeps ==
  ASSUME UploadInv, NEW h \in Helpers, RecoverPartial(h)
  PROVE  UploadInv'
  <1>1. helper[h].pc = "recover_partial" /\ helper[h].pc \in Recovering /\ inode' = inode /\ chosen' = chosen
    BY ZenonT(60) DEF RecoverPartial, At, Recovering
  <1>2. /\ TypeOK /\ helper[h].result \in Replies /\ helper[h].pc \in Locked
        /\ SidecarOf(h) \in Receipts /\ SidecarOf(h).offset = Size
        /\ ~Excused(helper[h].id) => live.target = SidecarOf(h).file
    BY <1>1, RecoveryFacts, ZenonT(60)
  <1>3. CASE Goto(h, "recover_ready") /\ Untouched
    <2>1. Quiet
      BY <1>1, <1>2, <1>3, QuietWhenUnchanged DEF Untouched
    <2>2. "recover_ready" \in Places /\ "recover_ready" \in Recovering
      BY ZenonT(60) DEF Places, Locked, Recovering
    <2>3. MovesTo(h, "recover_ready", helper[h].result)
      BY <1>2, <1>3, <2>2, MoveMade, ZenonT(60)
    <2> QED
      BY <1>1, <2>1, <2>2, <2>3, RecoveryMove, ZenonT(60) DEF MovesTo
  <1>4. CASE Raise(h) /\ Untouched
    <2>1. Quiet
      BY <1>1, <1>2, <1>4, QuietWhenUnchanged DEF Untouched
    <2> QED
      BY <1>1, <1>4, <2>1, Raised, ZenonT(60) DEF Locked, Cleaning
  <1>5. CASE Update(WithPartial(h, Nothing)) /\ Goto(h, "recover_sync_partial")
    <2>1. PICK t \in Transfers : t = helper[h].id
      BY <1>1, RecoveryFacts, ZenonT(60)
    <2>2. /\ live' \in Entries /\ live' \in kept' /\ kept' \subseteq kept \cup {live'}
          /\ live'.partial[t] = Nothing
          /\ \A u \in Transfers : u # t => live'.partial[u] = live.partial[u]
          /\ live'.sidecar = live.sidecar /\ live'.target = live.target
      BY <1>2, <1>5, <2>1, PartialWritten
    <2>3. "recover_sync_partial" \in Places /\ "recover_sync_partial" \in Recovering
      BY DEF Places, Locked, Recovering
    <2>4. MovesTo(h, "recover_sync_partial", helper[h].result)
      BY <1>2, <1>5, <2>3, MoveMade, ZenonT(60)
    <2>5. Grows(helper[h], helper'[h])
      BY <1>1, <2>4 DEF Grows, MovesTo, Unmade, Unrecorded
    <2>6. Step(h)
      BY <1>1, <1>2, <2>1, <2>2, <2>4, <2>5, EntryStep, ZenonT(60) DEF MovesTo
    <2>7. SidecarOf(h)' = SidecarOf(h)
      BY <2>2, <2>4, ZenonT(60) DEF MovesTo, SidecarOf
    <2>8. Own(h)'
      BY <1>1, <1>2, <2>2, <2>3, <2>4, <2>6, <2>7, RecoveryOwn, ZenonT(60)
    <2>9. ~(Excused(t)') => live.target = live.sidecar[t].file
      BY <1>2, <2>1, <2>6, ExcusedStays, ZenonT(60) DEF SidecarOf
    <2>10. \A d \in kept' : Sound(d)'
      BY <1>1, <2>1, <2>2, <2>6, <2>9, PartialSound, ZenonT(60)
    <2> QED
      BY <1>1, <2>6, <2>8, <2>10, Closes, ZenonT(60) DEF UploadInv
  <1> QED
    BY <1>3, <1>4, <1>5, ZenonT(60) DEF RecoverPartial

\* A cleanup that goes on to the sidecar.
LEMMA CleaningOwn ==
  ASSUME UploadInv, NEW h \in Helpers, Step(h), helper[h].pc = "cleanup", NEW code,
         MovesTo(h, "cleanup_sidecar", code), code # "completed",
         code = "transfer_failed" => helper[h].result = "transfer_failed",
         inode' = inode, SidecarOf(h)' = SidecarOf(h), live'.target = live.target,
         \A d \in kept' : \E e \in kept : d.sidecar = e.sidecar /\ d.target = e.target
  PROVE  Own(h)'
  <1>1. Own(h) /\ helper[h].pc \in Owning
    BY ZenonT(60) DEF UploadInv, Owning, Cleaning
  <1>2. /\ helper[h].owned \in Helpers /\ helper[h].owned # Nothing
        /\ helper[helper[h].owned].id = helper[h].id /\ helper[helper[h].owned].pc \notin Unrecorded
    BY <1>1, OwnedFacts, ZenonT(60)
  <1>3. Shape(h)'
    <2>1. helper'[helper[h].owned].id = helper[h].id /\ helper'[helper[h].owned].pc \notin Unrecorded
      BY <1>2, ZenonT(60) DEF Step, Grows
    <2> QED
      BY <1>2, <2>1, ZenonT(60) DEF MovesTo, Shape, Unrecorded, Unmade, Recovering, Committed, Streaming, Cleaning
  <1>4. OnRecord(h)'
    BY <1>1, OnRecordKept, ZenonT(60) DEF MovesTo
  <1>5. Progress(h)'
    BY <1>1, ZenonT(60) DEF Own, MovesTo, Progress, At, Committed, Recovering, Streaming, Cleaning
  <1>6. Settled(h)'
    BY ZenonT(60) DEF MovesTo, Settled, At, Committed, Recovering
  <1>7. Ready(h)'
    BY ZenonT(60) DEF MovesTo, Ready, At, Committed, Recovering, Streaming
  <1> QED
    BY <1>3, <1>4, <1>5, <1>6, <1>7, ZenonT(60) DEF Own

LEMMA CleaningFacts ==
  ASSUME UploadInv, NEW h \in Helpers, helper[h].pc \in Cleaning
  PROVE  /\ TypeOK /\ helper[h].pc \in Locked /\ helper[h].id \in Transfers /\ helper[h].owned \in Helpers
         /\ helper[h].result \in Replies /\ helper[h].result # "completed"
         /\ Incomplete(h) \in Replies /\ Incomplete(h) # "completed" /\ Incomplete(h) # "transfer_failed"
         /\ helper[h].result = "cleanup_incomplete" => Incomplete(h) = "cleanup_incomplete"
  <1>1. TypeOK /\ Own(h) /\ helper[h] \in Request /\ helper[h].pc \in Owning /\ helper[h].pc \in Locked
    BY DEF UploadInv, TypeOK, Owning, Cleaning, Locked
  <1>2. helper[h].owned \in Helpers /\ helper[h].id \in Transfers
    BY <1>1, OwnedFacts, ZenonT(60)
  <1>3. helper[h].result \in Replies /\ helper[h].result # "completed"
    BY <1>1, ZenonT(60) DEF Own, Shape, Request
  <1> QED
    BY <1>1, <1>2, <1>3, ZenonT(60) DEF Incomplete, Replies

LEMMA CleanupFailsKeeps ==
  ASSUME UploadInv, NEW h \in Helpers, CleanupFails(h)
  PROVE  UploadInv'
  <1>1. helper[h].pc \in Cleaning /\ UNCHANGED <<live, kept, inode, chosen>>
    BY DEF CleanupFails, Cleaning
  <1>2. /\ TypeOK /\ helper[h].pc \in Locked
        /\ Incomplete(h) \in Replies /\ Incomplete(h) # "completed" /\ Incomplete(h) # "transfer_failed"
        /\ helper[h].result = "cleanup_incomplete" => Incomplete(h) = "cleanup_incomplete"
    BY <1>1, CleaningFacts, ZenonT(60)
  <1>3. Quiet
    BY <1>1, <1>2, QuietWhenUnchanged, ZenonT(60)
  <1>4. CASE At(h, "cleanup") /\ helper[h].mode = "fresh"
    <2>1. "cleanup_sidecar" \in Places
      BY DEF Places, Locked
    <2>2. MovesTo(h, "cleanup_sidecar", Incomplete(h))
      BY <1>2, <1>4, <2>1, MoveMade, ZenonT(60) DEF CleanupFails
    <2>3. Grows(helper[h], helper'[h])
      BY <1>2, <1>4, <2>2 DEF Grows, MovesTo, Unmade, Unrecorded, At
    <2>4. Step(h)
      BY <1>2, <1>3, <2>2, <2>3, QuietStep, ZenonT(60) DEF MovesTo
    <2>5. /\ SidecarOf(h)' = SidecarOf(h) /\ live'.target = live.target /\ inode' = inode
          /\ \A d \in kept' : \E e \in kept : d.sidecar = e.sidecar /\ d.target = e.target
      BY <1>3, <2>2, QuietViews, ZenonT(60) DEF MovesTo
    <2>6. Own(h)'
      BY <1>2, <1>4, <2>2, <2>4, <2>5, CleaningOwn, ZenonT(60) DEF At
    <2> QED
      BY <1>3, <2>4, <2>6, QuietCloses, ZenonT(60)
  <1>5. CASE ~(At(h, "cleanup") /\ helper[h].mode = "fresh")
    <2>1. MovesTo(h, "done", Incomplete(h))
      BY <1>2, <1>5, MoveMade, ZenonT(60) DEF CleanupFails, Places
    <2> QED
      BY <1>2, <1>3, <2>1, QuietEnd
  <1> QED
    BY <1>4, <1>5

LEMMA CleanupSidecarKeeps ==
  ASSUME UploadInv, NEW h \in Helpers, CleanupSidecar(h)
  PROVE  UploadInv'
  <1>1. helper[h].pc = "cleanup_sidecar" /\ helper[h].pc \in Cleaning /\ inode' = inode /\ chosen' = chosen
    BY DEF CleanupSidecar, At, Cleaning
  <1>2. /\ TypeOK /\ helper[h].pc \in Locked /\ helper[h].id \in Transfers
        /\ helper[h].result \in Replies /\ helper[h].result # "completed"
        /\ Incomplete(h) \in Replies /\ Incomplete(h) # "completed"
        /\ helper[h].result = "cleanup_incomplete" => Incomplete(h) = "cleanup_incomplete"
    BY <1>1, CleaningFacts, ZenonT(60)
  <1>3. CASE ~Validates(h, helper[h].owned)
    <2>1. Quiet
      BY <1>1, <1>2, <1>3, QuietWhenUnchanged, ZenonT(60) DEF CleanupSidecar, Untouched
    <2>2. MovesTo(h, "done", Incomplete(h))
      BY <1>2, <1>3, MoveMade, ZenonT(60) DEF CleanupSidecar, Answer, Places
    <2> QED
      BY <1>2, <2>1, <2>2, QuietEnd, ZenonT(60)
  <1>4. CASE Validates(h, helper[h].owned)
    <2>1. PICK t \in Transfers : t = helper[h].id
      BY <1>2
    <2>2. UpdateSynced(WithSidecar(h, Nothing)) /\ Answer(h, helper[h].result)
      BY <1>4, ZenonT(60) DEF CleanupSidecar
    <2>3. /\ live' \in Entries /\ live' \in kept' /\ kept' \subseteq kept \cup {live'}
          /\ live'.sidecar[t] = Nothing
          /\ \A u \in Transfers : u # t => live'.sidecar[u] = live.sidecar[u]
          /\ live'.partial = live.partial /\ live'.target = live.target
      BY <1>2, <2>1, <2>2, SidecarWritten
    <2>4. MovesTo(h, "done", helper[h].result)
      BY <1>2, <2>2, MoveMade, ZenonT(60) DEF Answer, Places
    <2>5. Grows(helper[h], helper'[h])
      BY <1>1, <2>4 DEF Grows, MovesTo, Unmade, Unrecorded
    <2>6. Step(h)
      BY <1>1, <1>2, <2>1, <2>3, <2>4, <2>5, EntryStep, ZenonT(60) DEF MovesTo
    <2>7. Own(h)'
      BY <1>2, <2>4, <2>6, EndOwn DEF MovesTo
    <2>8. Nothing \notin Receipts
      BY UploadAssumption, ZenonT(60)
    <2>9. \A d \in kept' : Sound(d)'
      BY <1>1, <2>1, <2>3, <2>6, <2>8, SidecarSound, ZenonT(60)
    <2> QED
      BY <1>1, <2>6, <2>7, <2>9, Closes, ZenonT(60) DEF UploadInv
  <1> QED
    BY <1>3, <1>4

LEMMA CleanupPartialKeeps ==
  ASSUME UploadInv, NEW h \in Helpers, CleanupPartial(h)
  PROVE  UploadInv'
  <1> DEFINE fits == PartialOf(h) = helper[h].owned
             label == IF helper[h].mode = "fresh" THEN "cleanup_sidecar" ELSE "done"
             code == IF fits THEN helper[h].result ELSE Incomplete(h)
  <1>1. helper[h].pc = "cleanup" /\ helper[h].pc \in Cleaning /\ inode' = inode /\ chosen' = chosen
        /\ (helper[h].applied = "yes" \/ helper[h].mode = "fresh")
    BY DEF CleanupPartial, At, Cleaning
  <1>2. /\ TypeOK /\ helper[h].pc \in Locked /\ helper[h].id \in Transfers
        /\ helper[h].result \in Replies /\ helper[h].result # "completed"
        /\ Incomplete(h) \in Replies /\ Incomplete(h) # "completed" /\ Incomplete(h) # "transfer_failed"
        /\ helper[h].result = "cleanup_incomplete" => Incomplete(h) = "cleanup_incomplete"
    BY <1>1, CleaningFacts, ZenonT(60)
  <1>3. /\ code \in Replies /\ code # "completed" /\ (code = "transfer_failed" => helper[h].result = "transfer_failed")
        /\ helper[h].result = "cleanup_incomplete" => code = "cleanup_incomplete"
    BY <1>2
  <1>4. label \in Places /\ label \in {"done", "cleanup_sidecar"}
    BY DEF Places, Locked
  <1>5. helper' = [helper EXCEPT ![h].pc = label, ![h].result = code]
    <2>1. helper[h] \in Request /\ helper \in [Helpers -> Request]
      BY <1>2, ZenonT(60) DEF TypeOK
    <2> QED
      BY <2>1 DEF CleanupPartial, Request
  <1> HIDE DEF label, code
  <1>6. MovesTo(h, label, code)
    BY <1>2, <1>3, <1>4, <1>5, MoveMade, ZenonT(60)
  <1>7. Grows(helper[h], helper'[h])
    BY <1>1, <1>3, <1>4, <1>6, ZenonT(60) DEF Grows, MovesTo, Unmade, Unrecorded
  <1>8. CASE ~fits
    <2>1. Quiet
      BY <1>1, <1>2, <1>8, QuietWhenUnchanged, ZenonT(60) DEF CleanupPartial, Untouched
    <2>2. CASE label = "done"
      BY <1>3, <1>6, <2>1, <2>2, QuietEnd, ZenonT(60)
    <2>3. CASE label = "cleanup_sidecar"
      <3>1. Step(h)
        BY <1>2, <1>6, <1>7, <2>1, QuietStep, ZenonT(60) DEF MovesTo
      <3>2. /\ SidecarOf(h)' = SidecarOf(h) /\ live'.target = live.target /\ inode' = inode
            /\ \A d \in kept' : \E e \in kept : d.sidecar = e.sidecar /\ d.target = e.target
        BY <1>6, <2>1, QuietViews, ZenonT(60) DEF MovesTo
      <3>3. Own(h)'
        BY <1>1, <1>3, <1>6, <2>3, <3>1, <3>2, CleaningOwn, ZenonT(60)
      <3> QED
        BY <2>1, <3>1, <3>3, QuietCloses, ZenonT(60)
    <2> QED
      BY <1>4, <2>2, <2>3
  <1>9. CASE fits
    <2>1. PICK t \in Transfers : t = helper[h].id
      BY <1>2, ZenonT(60)
    <2>2. UpdateSynced(WithPartial(h, Nothing))
      BY <1>9, ZenonT(60) DEF CleanupPartial
    <2>3. /\ live' \in Entries /\ live' \in kept' /\ kept' \subseteq kept \cup {live'}
          /\ live'.partial[t] = Nothing
          /\ \A u \in Transfers : u # t => live'.partial[u] = live.partial[u]
          /\ live'.sidecar = live.sidecar /\ live'.target = live.target
      BY <1>2, <2>1, <2>2, PartialWritten, ZenonT(60)
    <2>4. Step(h)
      BY <1>1, <1>2, <1>6, <1>7, <2>1, <2>3, EntryStep, ZenonT(60) DEF MovesTo
    <2>5. Own(h)'
      <3>1. CASE label = "done"
        BY <1>3, <1>6, <2>4, <3>1, EndOwn DEF MovesTo
      <3>2. CASE label = "cleanup_sidecar"
        <4>1. SidecarOf(h)' = SidecarOf(h)
          BY <1>6, <2>3, ZenonT(60) DEF MovesTo, SidecarOf
        <4>2. \A d \in kept' : \E e \in kept : d.sidecar = e.sidecar /\ d.target = e.target
          BY <1>2, <2>3, ZenonT(60) DEF TypeOK
        <4> QED
          BY <1>1, <1>3, <1>6, <2>3, <2>4, <3>2, <4>1, <4>2, CleaningOwn, ZenonT(60)
      <3> QED
        BY <1>4, <3>1, <3>2, ZenonT(60)
    <2>6. live.sidecar[t] \in Receipts /\ ~(Excused(t)') => live.target = live.sidecar[t].file
      <3>1. Own(h) /\ helper[h].pc \in Owning
        BY <1>1, ZenonT(60) DEF UploadInv, Owning
      <3>2. ~(Excused(t)') => ~Excused(t)
        BY <1>2, <2>4, ExcusedStays, ZenonT(60)
      <3>3. ~Excused(t) => helper[h].mode = "resume"
        BY <2>1, ZenonT(60) DEF Excused
      <3>4. ~Excused(t) => live.target = helper[h].owned
        BY <1>1, <2>1, <3>1, <3>3, ZenonT(60) DEF Own, Ready
      <3>5. live.sidecar[t] \in Receipts => live.sidecar[t].file = helper[h].owned
        BY <2>1, <3>1, ZenonT(60) DEF Own, OnRecord, SidecarOf
      <3> QED
        BY <3>2, <3>4, <3>5, ZenonT(60)
    <2>7. \A d \in kept' : Sound(d)'
      BY <1>1, <2>1, <2>3, <2>4, <2>6, PartialSound, ZenonT(60)
    <2> QED
      BY <1>1, <2>4, <2>5, <2>7, Closes, ZenonT(60) DEF UploadInv
  <1> QED
    BY <1>8, <1>9

-------------------------------------------------------------------------------
(* The steps of the surroundings.                                           *)

LEMMA UserKeeps ==
  ASSUME UploadInv, UserCreates \/ UserRemoves
  PROVE  UploadInv'
  <1>1. PICK x \in {Nothing, Foreign} :
          /\ live' = [live EXCEPT !.target = x] /\ kept' = kept \cup {live'}
          /\ chosen' \in {"created", "removed"}
          /\ chosen' = "created" => chosen = "nothing" /\ live.target = Nothing
          /\ inode' = inode /\ helper' = helper
    BY DEF UserCreates, UserRemoves, Update
  <1>2. TypeOK /\ live \in Entries /\ live \in kept /\ x \in Helpers \cup {Nothing, Foreign}
    BY <1>1, ZenonT(60) DEF UploadInv, TypeOK
  <1>3. /\ live' \in Entries /\ live'.target = x /\ live'.target \notin Helpers
        /\ live'.sidecar = live.sidecar /\ live'.partial = live.partial
    BY <1>1, <1>2, TargetEntry, UploadAssumption
  <1>4. TypeOK' /\ Exclusive'
    BY <1>1, <1>2, <1>3, ZenonT(60) DEF UploadInv, TypeOK, Exclusive
  <1>5. \A t \in Transfers : Excused(t)'
    BY <1>1 DEF Excused
  <1>6. ASSUME NEW h \in Helpers PROVE Own(h)' /\ Unwritten(h)'
    <2>1. Own(h) /\ Unwritten(h) /\ helper[h] \in Request
      BY <1>2 DEF UploadInv, TypeOK
    <2>2. SidecarOf(h)' = SidecarOf(h) /\ helper[h].owned \in Helpers \cup {Nothing}
      BY <1>1, <1>3, <2>1, ZenonT(60) DEF SidecarOf, Request
    <2>3. Shape(h)' /\ Unwritten(h)'
      BY <1>1, <2>1, ZenonT(60) DEF Own, Shape, Unwritten
    <2>4. OnRecord(h)'
      <3> SUFFICES ASSUME helper[h].pc \in Owning PROVE OnRecord(h)'
        BY <1>1, ZenonT(60) DEF OnRecord
      <3>1. helper[h].owned \in Helpers
        BY OwnedFacts, ZenonT(60)
      <3>2. OnRecord(h)
        BY <2>1, ZenonT(60) DEF Own
      <3>3. ASSUME NEW d \in kept'
            PROVE  /\ d.sidecar[helper[h].id] \in Receipts /\ d.sidecar[helper[h].id].file = helper[h].owned
                        => d.sidecar[helper[h].id].offset <= helper[h].marked
                   /\ d.target = helper[h].owned => helper[h].durable = Size
        <4>1. CASE d \in kept
          BY <3>2, <4>1, ZenonT(60) DEF OnRecord
        <4>2. CASE d = live'
          BY <1>2, <1>3, <3>1, <3>2, <4>2, ZenonT(60) DEF OnRecord
        <4> QED
          BY <1>1, <4>1, <4>2, ZenonT(60)
      <3> QED
        BY <1>1, <2>2, <3>2, <3>3, ZenonT(60) DEF OnRecord
    <2>5. Progress(h)'
      <3>1. helper[h].pc \in Streaming \cup Cleaning => live'.target # helper[h].owned
        BY <1>3, OwnedFacts, ZenonT(60) DEF Owning
      <3> QED
        BY <1>1, <2>1, <2>2, <3>1, ZenonT(60) DEF Own, Progress, At
    <2>6. Settled(h)'
      <3> SUFFICES ASSUME chosen' = "created" PROVE Settled(h)'
        BY <1>1, ZenonT(60) DEF Settled
      <3>1. chosen # "removed" /\ live.target = Nothing /\ Nothing \notin Helpers
        BY <1>1, UploadAssumption
      <3>2. ~(helper[h].owned # Nothing /\ (helper[h].pc \in Committed \/ helper[h].result = "completed"))
        BY <1>2, <2>1, <3>1, ZenonT(60) DEF Own, Settled
      <3>3. ~(helper[h].pc \in Recovering \/ helper[h].result = "completed") /\ ~At(h, "recover_sync")
        BY <1>2, <2>1, <3>1, ZenonT(60) DEF Own, Settled
      <3> QED
        BY <1>1, <3>2, <3>3, ZenonT(60) DEF Settled, At
    <2>7. Ready(h)'
      <3>1. Excused(helper[h].id)'
        BY <1>1 DEF Excused
      <3> QED
        BY <3>1, ZenonT(60) DEF Ready
    <2> QED
      BY <2>3, <2>4, <2>5, <2>6, <2>7, ZenonT(60) DEF Own
  <1>7. ASSUME NEW d \in kept' PROVE Sound(d)'
    <2>1. PICK e \in kept :
            /\ d.sidecar = e.sidecar /\ d.partial = e.partial
            /\ d.target \in Helpers => d.target = e.target
      BY <1>1, <1>2, <1>3, ZenonT(60)
    <2>2. Sound(e)
      BY ZenonT(60) DEF UploadInv
    <2>3. NamesMade(d)'
      BY <1>1, <2>1, <2>2, ZenonT(60) DEF Sound, NamesMade
    <2>4. Sealed(d)'
      BY <1>1, <1>3, <2>1, <2>2, ZenonT(60) DEF Sound, Sealed
    <2>5. \A t \in Transfers : Vouched(d, t)' /\ Advances(d, t)'
      BY <1>1, <1>3, <2>1, <2>2, ZenonT(60) DEF Sound, Vouched, Advances
    <2>6. \A t \in Transfers : Resumable(d, t)'
      BY <1>5, ZenonT(60) DEF Resumable
    <2> QED
      BY <2>3, <2>4, <2>5, <2>6, ZenonT(60) DEF Sound
  <1> QED
    BY <1>1, <1>4, <1>6, <1>7, ZenonT(60) DEF UploadInv

LEMMA PowerLossKeeps ==
  ASSUME UploadInv, PowerLoss
  PROVE  UploadInv'
  <1>1. PICK d \in kept : /\ live' = d /\ kept' = {d}
                          /\ \E intact, n \in [Named(d) -> 0..Size] :
                               /\ \A h \in Named(d) :
                                    inode[h].firm <= intact[h] /\ intact[h] <= n[h] /\ n[h] <= inode[h].len
                               /\ inode' = [h \in Helpers |->
                                    IF h \in Named(d) THEN Survives(inode[h], intact[h], n[h])
                                    ELSE inode[h]]
    BY ZenonT(60) DEF PowerLoss, UpdateSynced
  <1>2. PICK intact \in [Named(d) -> 0..Size], n \in [Named(d) -> 0..Size] :
          /\ \A h \in Named(d) : inode[h].firm <= intact[h] /\ intact[h] <= n[h] /\ n[h] <= inode[h].len
          /\ inode' = [h \in Helpers |->
               IF h \in Named(d) THEN Survives(inode[h], intact[h], n[h]) ELSE inode[h]]
    BY <1>1, ZenonT(60)
  <1>3. TypeOK /\ d \in Entries /\ Sound(d) /\ chosen' = chosen /\ Size \in Nat
    BY UploadAssumption, ZenonT(60) DEF UploadInv, TypeOK, PowerLoss
  <1>4. ASSUME NEW h \in Helpers
        PROVE  /\ helper'[h] \in Request /\ helper'[h].pc \in {"idle", "done", "dead"}
               /\ helper'[h].pc = "idle" => helper'[h] = helper[h]
               /\ helper'[h].id = helper[h].id /\ helper'[h].mode = helper[h].mode
               /\ helper'[h].owned = helper[h].owned /\ helper'[h].result = helper[h].result
               /\ helper[h].pc \notin Unmade => helper'[h].pc \notin Unmade
               /\ helper[h].pc \notin Unrecorded => helper'[h].pc \notin Unrecorded
    <2>1. helper[h] \in Request
      BY <1>3, ZenonT(60) DEF TypeOK
    <2>2. CASE helper[h].pc \in {"idle", "done", "dead"}
      BY <2>1, <2>2 DEF PowerLoss
    <2>3. CASE helper[h].pc \notin {"idle", "done", "dead"}
      <3>1. helper'[h] = [helper[h] EXCEPT !.pc = "dead"]
        BY <2>3 DEF PowerLoss
      <3>2. [helper[h] EXCEPT !.pc = "dead"] \in Request
        BY <2>1, ZenonT(60) DEF Request
      <3>3. /\ helper'[h].pc = "dead" /\ helper'[h].id = helper[h].id /\ helper'[h].mode = helper[h].mode
            /\ helper'[h].owned = helper[h].owned /\ helper'[h].result = helper[h].result
        BY <2>1, <3>1, ZenonT(60) DEF Request
      <3> QED
        BY <3>1, <3>2, <3>3, ZenonT(60) DEF Unmade, Unrecorded
    <2> QED
      BY <2>2, <2>3, ZenonT(60)
  <1>5. ASSUME NEW f \in Helpers
        PROVE  /\ inode'[f] \in Contents /\ inode'[f].firm <= inode'[f].len
               /\ inode'[f].firm >= inode[f].firm /\ inode'[f].len <= inode[f].len
               /\ \A k \in 1..inode[f].firm : inode'[f].data[k] = inode[f].data[k]
               /\ f \notin Named(d) => inode'[f] = inode[f]
    <2>1. inode[f] \in Contents /\ inode[f].firm <= inode[f].len
      BY <1>3, ZenonT(60) DEF UploadInv, TypeOK
    <2>2. CASE f \notin Named(d)
      BY <1>2, <2>1, <2>2 DEF Contents
    <2>3. CASE f \in Named(d)
      <3>1. /\ intact[f] \in 0..Size /\ n[f] \in 0..Size
            /\ inode[f].firm <= intact[f] /\ intact[f] <= n[f] /\ n[f] <= inode[f].len
        BY <1>2, <2>3, ZenonT(60)
      <3>2. inode'[f] = Survives(inode[f], intact[f], n[f])
        BY <1>2, <2>3
      <3> QED
        BY <1>3, <2>1, <2>3, <3>1, <3>2 DEF Contents, Survives
    <2> QED
      BY <2>2, <2>3, ZenonT(60)
  <1>6. TypeOK'
    <2>1. helper' \in [Helpers -> Request]
      BY <1>4, ZenonT(60) DEF PowerLoss
    <2>2. inode' \in [Helpers -> Contents]
      BY <1>2, <1>5, ZenonT(60)
    <2> QED
      BY <1>1, <1>3, <2>1, <2>2, ZenonT(60) DEF TypeOK
  <1>7. Exclusive'
    BY <1>4 DEF Exclusive, Locked
  <1>8. ASSUME NEW t \in Transfers, ~(Excused(t)') PROVE ~Excused(t)
    BY <1>3, <1>4, <1>8, ZenonT(60) DEF Excused
  <1>9. ASSUME NEW h \in Helpers PROVE Own(h)'
    <2>1. Own(h) /\ helper[h].owned \in Helpers \cup {Nothing}
      BY <1>3, ZenonT(60) DEF UploadInv, TypeOK, Request
    <2>2. Shape(h)'
      <3>1. helper[h].owned # Nothing =>
              helper'[helper[h].owned].id = helper'[h].id /\ helper'[helper[h].owned].pc \notin Unrecorded
        BY <1>4, <2>1, ZenonT(60) DEF Own, Shape
      <3>2. CASE helper'[h].pc = "idle"
        BY <1>4, <2>1, <3>1, <3>2, ZenonT(60) DEF Own, Shape
      <3>3. CASE helper'[h].pc # "idle"
        BY <1>4, <3>1, <3>3, ZenonT(60) DEF Shape, Unrecorded, Unmade, Recovering, Owning, Committed, Streaming, Cleaning
      <3> QED
        BY <3>2, <3>3
    <2>3. OnRecord(h)' /\ Progress(h)'
      BY <1>4, ZenonT(60) DEF OnRecord, Progress, At, Owning, Committed, Streaming, Cleaning, Recovering
    <2>4. Settled(h)'
      <3>1. helper'[h].pc \notin Committed /\ helper'[h].pc \notin Recovering /\ helper'[h].pc # "recover_sync"
        BY <1>4 DEF Committed, Recovering
      <3> QED
        BY <1>1, <1>3, <1>4, <2>1, <3>1, ZenonT(60) DEF Own, Settled, At
    <2>5. Ready(h)'
      BY <1>4, ZenonT(60) DEF Ready, At, Committed, Streaming, Recovering
    <2> QED
      BY <2>2, <2>3, <2>4, <2>5, ZenonT(60) DEF Own
  <1>10. ASSUME NEW h \in Helpers PROVE Unwritten(h)'
    <2> SUFFICES ASSUME helper'[h].pc \in Unrecorded PROVE Unwritten(h)'
      BY ZenonT(60) DEF Unwritten
    <2>1. helper'[h] = helper[h] /\ helper[h].pc \in Unmade /\ helper[h].pc \in Unrecorded
      BY <1>4 DEF Unrecorded, Unmade
    <2>2. h \notin Named(d)
      <3>1. \A t \in Transfers : d.partial[t] = h => h = Nothing
        BY <1>3, <2>1, ZenonT(60) DEF Sound, NamesMade
      <3>2. d.target # h
        BY <1>3, <2>1, ZenonT(60) DEF Sound, NamesMade
      <3>3. h # Nothing
        BY UploadAssumption
      <3> QED
        BY <3>1, <3>2, <3>3, ZenonT(60) DEF Named
    <2> QED
      BY <1>5, <2>1, <2>2, ZenonT(60) DEF UploadInv, Unwritten
  <1>11. Sound(d)'
    <2>0. \A t \in Transfers : d.partial[t] \in Helpers \cup {Nothing}
      BY <1>3 DEF Entries
    <2>1. NamesMade(d)'
      <3>1. \A r \in Receipts : r.file \in Helpers
        BY DEF Receipts
      <3> QED
        BY <1>3, <1>4, <2>0, <3>1, ZenonT(60) DEF Sound, NamesMade
    <2>2. Sealed(d)'
      <3> SUFFICES ASSUME d.target \in Helpers PROVE Sealed(d)'
        BY ZenonT(60) DEF Sealed
      <3>1. Sealed(d) /\ inode[d.target] \in Contents
        BY <1>3, ZenonT(60) DEF Sound, TypeOK
      <3>2. Whole(inode[d.target]) /\ inode[d.target].firm = Size
        BY <3>1, ZenonT(60) DEF Sealed
      <3>3. Whole(inode'[d.target]) /\ inode'[d.target].firm = Size
        <4> DEFINE c == inode[d.target]
                   e == inode'[d.target]
        <4>1. /\ e \in Contents /\ e.firm <= e.len /\ e.firm >= c.firm /\ e.len <= c.len
              /\ \A k \in 1..c.firm : e.data[k] = c.data[k]
          BY <1>5, ZenonT(60)
        <4>2. c.len = Size /\ c.firm = Size /\ \A k \in 1..Size : c.data[k] = "right"
          BY <3>2, ZenonT(60) DEF Whole
        <4>3. e.firm \in 0..Size /\ e.len \in 0..Size
          BY <4>1 DEF Contents
        <4> HIDE DEF c, e
        <4>4. e.firm = Size /\ e.len = Size
          BY <4>1, <4>2, <4>3, UploadAssumption
        <4>5. Whole(e)
          BY <4>1, <4>2, <4>4, ZenonT(60) DEF Whole
        <4> QED
          BY <4>4, <4>5, ZenonT(60) DEF e
      <3> QED
        BY <1>1, <1>4, <3>1, <3>3, ZenonT(60) DEF Sealed
    <2>3. ASSUME NEW t \in Transfers PROVE Vouched(d, t)'
      <3> SUFFICES ASSUME d.sidecar[t] \in Receipts PROVE Vouched(d, t)'
        BY ZenonT(60) DEF Vouched
      <3>1. d.sidecar[t].file \in Helpers /\ d.sidecar[t].offset \in 0..Size
        BY ZenonT(60) DEF Receipts
      <3>2. inode[d.sidecar[t].file] \in Contents
        BY <1>3, <3>1 DEF TypeOK
      <3>3. /\ inode[d.sidecar[t].file].firm >= d.sidecar[t].offset
            /\ \A k \in 1..d.sidecar[t].offset : inode[d.sidecar[t].file].data[k] # "lost"
        BY <1>3, ZenonT(60) DEF Sound, Vouched
      <3>4. /\ inode'[d.sidecar[t].file].firm >= d.sidecar[t].offset
            /\ \A k \in 1..d.sidecar[t].offset : inode'[d.sidecar[t].file].data[k] # "lost"
        <4> DEFINE f == d.sidecar[t].file
                   n0 == d.sidecar[t].offset
        <4>1. /\ inode'[f].firm >= inode[f].firm /\ inode[f].firm >= n0
              /\ inode'[f].firm \in 0..Size /\ inode[f].firm \in 0..Size /\ n0 \in 0..Size
          BY <1>5, <3>1, <3>2, <3>3, ZenonT(60) DEF Contents
        <4>2. inode'[f].firm >= n0 /\ \A k \in 1..n0 : k \in 1..inode[f].firm
          BY <1>3, <4>1
        <4> QED
          BY <1>5, <3>1, <3>3, <4>2, ZenonT(60)
      <3> QED
        BY <3>4, ZenonT(60) DEF Vouched
    <2>4. ASSUME NEW t \in Transfers PROVE Advances(d, t)'
      <3>1. \A r \in Receipts : r.offset <= r.offset
        BY <1>3 DEF Receipts
      <3> QED
        BY <1>1, <3>1, ZenonT(60) DEF Advances
    <2>5. ASSUME NEW t \in Transfers PROVE Resumable(d, t)'
      BY <1>3, <1>8, ZenonT(60) DEF Sound, Resumable
    <2> QED
      BY <2>1, <2>2, <2>3, <2>4, <2>5, ZenonT(60) DEF Sound
  <1> QED
    BY <1>1, <1>5, <1>6, <1>7, <1>9, <1>10, <1>11, ZenonT(60) DEF UploadInv

-------------------------------------------------------------------------------
(* The invariant holds.                                                     *)

LEMMA InitHolds ==
  ASSUME Init
  PROVE  UploadInv
  <1>1. ASSUME NEW h \in Helpers
        PROVE  /\ helper[h] \in Request /\ helper[h].pc = "idle" /\ helper[h].owned = Nothing
               /\ helper[h].applied = "no" /\ helper[h].result = "none"
               /\ helper[h].confirmed = 0 /\ helper[h].durable = 0 /\ helper[h].marked = 0
    <2>1. PICK t \in Transfers, i \in Intents, m \in Modes, w \in Windows :
            helper[h] = [pc |-> "idle", id |-> t, intent |-> i, mode |-> m, window |-> w, created |-> "no",
                         owned |-> Nothing, applied |-> "no", confirmed |-> 0, durable |-> 0,
                         marked |-> 0, digest |-> "right", result |-> "none"]
      BY DEF Init
    <2>2. 0 \in 0..Size /\ "none" \in Replies
      BY UploadAssumption DEF Replies
    <2> QED
      BY <2>1, <2>2 DEF Request
  <1>2. Bare \in Entries /\ Empty \in Contents /\ Empty.len = 0 /\ Empty.firm = 0
    BY UploadAssumption DEF Bare, Entries, Empty, Contents
  <1>3. TypeOK
    BY <1>1, <1>2 DEF Init, TypeOK
  <1>4. Exclusive
    BY <1>1, ZenonT(60) DEF Exclusive, Locked
  <1>5. ASSUME NEW h \in Helpers PROVE Own(h) /\ Unwritten(h)
    <2>1. helper[h].pc \notin Owning \cup Recovering \cup Committed \cup Cleaning \cup Streaming
            \cup {"recover_sync", "cleanup", "sync_link", "sidecar", "write_sidecar", "sync_all", "mark_window", "mark_full", "verify", "link"}
      BY <1>1, ZenonT(60) DEF Owning, Recovering, Committed, Cleaning, Streaming
    <2>2. Shape(h)
      BY <1>1, <2>1 DEF Shape
    <2>3. OnRecord(h) /\ Progress(h) /\ Ready(h)
      <3>1. OnRecord(h)
        BY <2>1, ZenonT(60) DEF OnRecord
      <3>2. Progress(h)
        <4> HIDE DEF Whole
        <4> QED
          BY <2>1, ZenonT(60) DEF Progress, At
      <3>3. Ready(h)
        <4> SUFFICES ASSUME ~Excused(helper[h].id) PROVE Ready(h)
          BY ZenonT(60) DEF Ready
        <4> QED
          BY <2>1 DEF Ready, At
      <3> QED
        BY <3>1, <3>2, <3>3, ZenonT(60)
    <2>4. Settled(h)
      BY <1>1, <2>1 DEF Settled, At
    <2>5. Unwritten(h)
      BY <1>1, <1>2, ZenonT(60) DEF Init, Unwritten
    <2> QED
      BY <2>2, <2>3, <2>4, <2>5, ZenonT(60) DEF Own
  <1>6. \A f \in Helpers : inode[f].firm <= inode[f].len
    <2>1. \A f \in Helpers : inode[f] = Empty
      BY ZenonT(60) DEF Init
    <2>2. Empty.firm <= Empty.len
      BY <1>2
    <2> QED
      BY <2>1, <2>2, ZenonT(60)
  <1>7. ASSUME NEW d \in kept PROVE Sound(d)
    <2>1. /\ d = Bare /\ d.target = Nothing /\ Nothing \notin Helpers
          /\ \A t \in Transfers : d.partial[t] = Nothing /\ d.sidecar[t] = Nothing
      <3>1. d = Bare
        BY ZenonT(60) DEF Init
      <3> QED
        BY <3>1, UploadAssumption, ZenonT(60) DEF Bare
    <2>2. Nothing \notin Receipts
      BY UploadAssumption DEF Receipts
    <2> QED
      BY <2>1, <2>2, ZenonT(60) DEF Sound, NamesMade, Sealed, Vouched, Advances, Resumable
  <1> QED
    BY <1>3, <1>4, <1>5, <1>6, <1>7, ZenonT(60) DEF UploadInv

LEMMA NextKeeps ==
  ASSUME UploadInv, [Next]_vars
  PROVE  UploadInv'
  <1>1. CASE UNCHANGED vars
    <2>1. ASSUME NEW t \in Transfers PROVE Excused(t)' <=> Excused(t)
      BY <1>1, ZenonT(60) DEF vars, Excused
    <2>2. ASSUME NEW h \in Helpers PROVE (Own(h) /\ Unwritten(h))'
      <3>1. Own(h) /\ Unwritten(h)
        BY ZenonT(60) DEF UploadInv
      <3> QED
        <4>1. Shape(h)' /\ Unwritten(h)'
          BY <1>1, <3>1, ZenonT(60) DEF vars, Own, Shape, Unwritten
        <4>2. SidecarOf(h)' = SidecarOf(h) /\ PartialOf(h)' = PartialOf(h)
          BY <1>1, ZenonT(60) DEF vars, SidecarOf, PartialOf
        <4>3. OnRecord(h)'
          BY <1>1, <3>1, <4>2, ZenonT(60) DEF vars, Own, OnRecord
        <4>4. Progress(h)'
          BY <1>1, <3>1, <4>2, ZenonT(60) DEF vars, Own, Progress, At
        <4>5. Settled(h)'
          BY <1>1, <3>1, ZenonT(60) DEF vars, Own, Settled, At
        <4>6. Ready(h)'
          <5>1. Excused(helper[h].id)' <=> Excused(helper[h].id)
            BY <1>1, ZenonT(60) DEF vars, Excused
          <5> QED
            BY <1>1, <3>1, <4>2, <5>1, ZenonT(60) DEF vars, Own, Ready, At
        <4> QED
          BY <4>1, <4>3, <4>4, <4>5, <4>6, ZenonT(60) DEF Own
    <2>3. ASSUME NEW d \in kept PROVE Sound(d)'
      <3>1. Sound(d)
        BY ZenonT(60) DEF UploadInv
      <3> QED
        BY <1>1, <2>1, <3>1, ZenonT(60) DEF vars, Sound, NamesMade, Sealed, Vouched, Advances, Resumable
    <2>4. TypeOK' /\ Exclusive'
      BY <1>1, ZenonT(60) DEF vars, UploadInv, TypeOK, Exclusive
    <2> QED
      BY <1>1, <2>2, <2>3, <2>4, ZenonT(60) DEF vars, UploadInv
  <1>2. ASSUME NEW h \in Helpers, Begin(h) PROVE UploadInv'
    BY <1>2, BeginKeeps, ZenonT(60)
  <1>3. ASSUME NEW h \in Helpers, Serve(h) PROVE UploadInv'
    <2>1. CASE OpenLock(h) \/ LockBusy(h) \/ WriteLockRecord(h) \/ CheckLockRecord(h)
      BY <2>1, OpenLockKeeps, LockBusyKeeps, WriteLockRecordKeeps, CheckLockRecordKeeps, ZenonT(60)
    <2>2. CASE ObserveTarget(h) \/ ObservePartial(h)
      BY <2>2, ObserveTargetKeeps, ObservePartialKeeps, ZenonT(60)
    <2>3. CASE CreatePartial(h) \/ CreateSidecar(h) \/ WriteSidecar(h)
      BY <2>3, CreatePartialKeeps, CreateSidecarKeeps, WriteSidecarKeeps, ZenonT(60)
    <2>12. CASE ReceiveAfterFailure(h)
      BY <2>12, ClientGoneKeeps DEF ReceiveAfterFailure, ClientGone, At
    <2>4. CASE ReceiveData(h) \/ ReceiveCommit(h) \/ VerifyOnDisk(h)
      BY <2>4, ReceiveDataKeeps, ReceiveCommitKeeps, VerifyOnDiskKeeps, ZenonT(60)
    <2>5. CASE SyncWindow(h) \/ SyncAll(h)
      BY <2>5, SyncKeeps, ZenonT(60)
    <2>6. CASE MarkWindow(h) \/ MarkFull(h)
      BY <2>6, MarkKeeps, ZenonT(60)
    <2>7. CASE Link(h) \/ SyncLink(h) \/ PersistReceipt(h)
      BY <2>7, LinkKeeps, SyncLinkKeeps, PersistReceiptKeeps, ZenonT(60)
    <2>8. CASE RemovePartial(h) \/ RemoveSidecar(h) \/ SyncPartial(h) \/ SyncSidecar(h)
      BY <2>8, RemovePartialKeeps, RemoveSidecarKeeps, CommittedSyncKeeps, ZenonT(60)
    <2>9. CASE Finish(h) \/ RecoverCommit(h)
      BY <2>9, AnswerKeeps, ZenonT(60)
    <2>10. CASE RecoverSync(h) \/ RecoverReceipt(h) \/ RecoverPartial(h) \/ RecoverSyncPartial(h)
      BY <2>10, RecoverSyncKeeps, RecoverReceiptKeeps, RecoverPartialKeeps, ZenonT(60)
    <2>11. CASE CleanupPartial(h) \/ CleanupSidecar(h) \/ CleanupKeep(h)
      BY <2>11, CleanupPartialKeeps, CleanupSidecarKeeps, CleanupKeepKeeps, ZenonT(60)
    <2> QED
      BY <1>3, <2>1, <2>2, <2>3, <2>4, <2>5, <2>6, <2>7, <2>8, <2>9, <2>10, <2>11, <2>12, ZenonT(60) DEF Serve
  <1>4. ASSUME NEW h \in Helpers, Disturb(h) PROVE UploadInv'
    <2>1. CASE ClientGone(h) \/ StepFails(h) \/ LockFails(h) \/ Kill(h)
      BY <2>1, ClientGoneKeeps, StepFailsKeeps, LockFailsKeeps, KillKeeps, ZenonT(60)
    <2>2. CASE InitialSidecarFails(h) \/ CleanupFails(h)
      BY <2>2, InitialSidecarFailsKeeps, CleanupFailsKeeps, ZenonT(60)
    <2> QED
      BY <1>4, <2>1, <2>2, ZenonT(60) DEF Disturb
  <1>5. CASE PowerLoss
    BY <1>5, PowerLossKeeps, ZenonT(60)
  <1>6. CASE UserCreates \/ UserRemoves
    BY <1>6, UserKeeps, ZenonT(60)
  <1> QED
    BY <1>1, <1>2, <1>3, <1>4, <1>5, <1>6, ZenonT(60) DEF Next

\* For every number of attempts and transfers, whatever fails, whoever is
\* killed and whenever the power goes: the lock admits one attempt of a
\* transfer, each attempt's counters describe the file it owns, and every
\* directory a power loss may leave is sound.
THEOREM UploadInvariant == Spec => []UploadInv
  <1>1. Init => UploadInv
    BY InitHolds
  <1>2. UploadInv /\ [Next]_vars => UploadInv'
    BY NextKeeps
  <1> QED
    BY <1>1, <1>2, PTL DEF Spec

\* The state of `serve_push' and of its directory stays within its types.
THEOREM TypeCorrect == Spec => []TypeOK
  <1>1. UploadInv => TypeOK
    BY DEF UploadInv
  <1> QED
    BY <1>1, UploadInvariant, PTL

\* A file under the target name is complete and synced in every directory a
\* power loss may leave: `linkat' comes after the sync and the re-read.
THEOREM TargetSafe == Spec => []TargetWhole
  <1>1. UploadInv => TargetWhole
    BY ZenonT(60) DEF UploadInv, Sound, Sealed, TargetWhole
  <1> QED
    BY <1>1, UploadInvariant, PTL

\* A sidecar counts only bytes that survive, and what it describes can be
\* found by whoever resumes.
THEOREM SidecarSafe == Spec => []SidecarIsTrue
  <1>1. UploadInv => DurablePrefix
    <2> SUFFICES ASSUME UploadInv, NEW d \in kept, NEW t \in Transfers, d.sidecar[t] \in Receipts
                 PROVE  LET c == inode[d.sidecar[t].file]
                        IN /\ c.firm >= d.sidecar[t].offset
                           /\ \A k \in 1..d.sidecar[t].offset : c.data[k] \in {"right", "wrong"} \/ Dropped(c, k)
      BY ZenonT(60) DEF DurablePrefix
    <2> DEFINE c == inode[d.sidecar[t].file]
    <2>1. c.firm >= d.sidecar[t].offset /\ \A k \in 1..d.sidecar[t].offset : c.data[k] # "lost"
      BY ZenonT(60) DEF UploadInv, Sound, Vouched
    <2>2. d.sidecar[t].file \in Helpers /\ d.sidecar[t].offset \in 0..Size
      BY ZenonT(60) DEF Receipts
    <2>3. c.data \in [1..Size -> {"right", "wrong", "lost", "failed", "zeros"}]
      BY <2>2, ZenonT(60) DEF UploadInv, TypeOK, Contents
    <2>4. \A k \in 1..d.sidecar[t].offset : k \in 1..Size
      BY <2>2, UploadAssumption
    <2> HIDE DEF c
    <2>5. ASSUME NEW k \in 1..d.sidecar[t].offset PROVE c.data[k] \in {"right", "wrong"} \/ Dropped(c, k)
      BY <2>1, <2>3, <2>4 DEF Dropped
    <2> QED
      BY <2>1, <2>5, ZenonT(60) DEF c
  <1>2. UploadInv => SidecarIsResumable
    <2> SUFFICES ASSUME UploadInv, NEW t \in Transfers, chosen = "nothing",
                        \A h \in Helpers : helper[h].id = t =>
                          helper[h].mode = "resume" /\ helper[h].result # "cleanup_incomplete",
                        live.sidecar[t] \in Receipts, live.target # live.sidecar[t].file
                          \/ live.sidecar[t].offset # Size
                 PROVE  /\ live.target # live.sidecar[t].file
                        /\ live.sidecar[t].state = "receiving"
                        /\ live.partial[t] = live.sidecar[t].file
                        /\ \/ FileLength(inode[live.sidecar[t].file]) >= live.sidecar[t].offset
                           \/ Dropped(inode[live.sidecar[t].file], live.sidecar[t].offset)
      BY ZenonT(60) DEF SidecarIsResumable
    <2>1. live \in kept /\ ~Excused(t)
      BY ZenonT(60) DEF UploadInv, TypeOK, Excused
    <2>2. Resumable(live, t) /\ Vouched(live, t)
      BY <2>1, ZenonT(60) DEF UploadInv, Sound
    <2>3. \/ FileLength(inode[live.sidecar[t].file]) >= live.sidecar[t].offset
          \/ Dropped(inode[live.sidecar[t].file], live.sidecar[t].offset)
      <3>1. live.sidecar[t].file \in Helpers /\ live.sidecar[t].offset \in 0..Size
        BY ZenonT(60) DEF Receipts
      <3>2. /\ inode[live.sidecar[t].file] \in Contents
            /\ inode[live.sidecar[t].file].firm <= inode[live.sidecar[t].file].len
        BY <3>1, ZenonT(60) DEF UploadInv, TypeOK
      <3>3. inode[live.sidecar[t].file].firm >= live.sidecar[t].offset
        BY <2>2, ZenonT(60) DEF Vouched
      <3> QED
        BY <3>1, <3>2, <3>3, UploadAssumption DEF Contents, FileLength, Dropped
    <2> QED
      BY <2>1, <2>2, <2>3, ZenonT(60) DEF Resumable
  <1> QED
    BY <1>1, <1>2, UploadInvariant, PTL DEF SidecarIsTrue

\* Once an attempt has answered Completed its file keeps the target name in
\* every directory a power loss may leave, until the user removes it.
THEOREM CompletedSafe == Spec => []CompletedStays
  <1>1. UploadInv => CompletedStays
    BY ZenonT(60) DEF UploadInv, Own, Settled, CompletedStays
  <1> QED
    BY <1>1, UploadInvariant, PTL

-------------------------------------------------------------------------------
(* What a step publishes.                                                   *)

\* A step of attempt h touches no other attempt, answers with the plain failure
\* code only when the file it owns is not the target, and replaces no target.
Honest(h) ==
  /\ \A g \in Helpers : g # h => helper'[g] = helper[g]
  /\ helper'[h].pc = "done" /\ helper'[h].result = "transfer_failed" /\ helper'[h].owned # Nothing =>
       live'.target # helper'[h].owned
  /\ live'.target # live.target => Nothing \in {live.target, live'.target}

\* An attempt that owns no file yet.
LEMMA EarlyHonest ==
  ASSUME NEW h \in Helpers, UploadInv,
         \/ Begin(h) \/ OpenLock(h) \/ LockBusy(h) \/ WriteLockRecord(h) \/ CheckLockRecord(h)
         \/ ObserveTarget(h) \/ CreatePartial(h) \/ CreateSidecar(h) \/ LockFails(h)
         \/ InitialSidecarFails(h)
  PROVE  Honest(h)
  <1>1. /\ live \in Entries /\ helper \in [Helpers -> Request] /\ helper[h].pc \in Unrecorded
    BY ZenonT(60) DEF UploadInv, TypeOK, Unrecorded, Unmade, At, Begin, OpenLock, LockBusy, WriteLockRecord,
           CheckLockRecord, ObserveTarget, CreatePartial, CreateSidecar, LockFails, InitialSidecarFails
  <1>2. helper[h].owned = Nothing
    BY <1>1, ZenonT(60) DEF UploadInv, Own, Shape
  <1>3. /\ helper'[h].owned = helper[h].owned /\ \A g \in Helpers : g # h => helper'[g] = helper[g]
    <2>1. CASE Begin(h) \/ OpenLock(h) \/ LockBusy(h) \/ LockFails(h)
      BY <1>1, <2>1 DEF Request, Goto, Answer, Begin, OpenLock, LockBusy, LockFails
    <2>2. CASE WriteLockRecord(h) \/ CheckLockRecord(h)
      BY <1>1, <2>2, ZenonT(60) DEF Request, Goto, Answer, WriteLockRecord, CheckLockRecord
    <2>3. CASE ObserveTarget(h)
      BY <1>1, <2>3 DEF Request, Answer, ObserveTarget
    <2>4. CASE CreatePartial(h) \/ CreateSidecar(h)
      BY <1>1, <2>4, ZenonT(60) DEF Request, Goto, Answer, CreatePartial, CreateSidecar
    <2>5. CASE InitialSidecarFails(h)
      <3>1. PICK code : Answer(h, code)
        BY <2>5, ZenonT(60) DEF InitialSidecarFails
      <3> QED
        BY <1>1, <3>1 DEF Request, Answer
    <2> QED
      BY <2>1, <2>2, <2>3, <2>4, <2>5, ZenonT(60)
  <1>4. live'.target = live.target
    BY <1>1, ZenonT(60) DEF Entries, Update, UpdateSynced, Untouched, WithPartial, WithSidecar, Begin, OpenLock,
           LockBusy, WriteLockRecord, CheckLockRecord, ObserveTarget, CreatePartial, CreateSidecar,
           LockFails, InitialSidecarFails
  <1> QED
    BY <1>2, <1>3, <1>4, ZenonT(60) DEF Honest

\* A step that goes on, or raises an error.
LEMMA RaiseHonest ==
  ASSUME NEW h \in Helpers, UploadInv, Raise(h), live'.target = live.target
  PROVE  Honest(h)
  <1>1. helper \in [Helpers -> Request]
    BY DEF UploadInv, TypeOK
  <1>2. PICK code \in ErrorCodes(h) :
          helper' = [helper EXCEPT ![h].result = code,
                       ![h].pc = IF helper[h].owned # Nothing /\ ~Preserved(h) THEN "cleanup" ELSE "done"]
    BY ZenonT(60) DEF Raise
  <1>3. /\ \A g \in Helpers : g # h => helper'[g] = helper[g]
        /\ helper'[h].result = code /\ helper'[h].owned = helper[h].owned
        /\ helper'[h].pc = IF helper[h].owned # Nothing /\ ~Preserved(h) THEN "cleanup" ELSE "done"
    BY <1>1, <1>2 DEF Request
  <1>4. Preserved(h) => code # "transfer_failed"
    BY DEF Preserved, ErrorCodes, At
  <1> QED
    BY <1>3, <1>4, ZenonT(60) DEF Honest

LEMMA GoesOnHonest ==
  ASSUME NEW h \in Helpers,
         \A g \in Helpers : g # h => helper'[g] = helper[g],
         helper'[h].pc # "done" \/ helper'[h].result # "transfer_failed",
         live'.target # live.target => Nothing \in {live.target, live'.target}
  PROVE  Honest(h)
  BY ZenonT(60) DEF Honest

LEMMA StreamingHonest ==
  ASSUME NEW h \in Helpers, UploadInv,
         \/ ObservePartial(h) \/ WriteSidecar(h) \/ ReceiveData(h) \/ ReceiveAfterFailure(h)
         \/ ReceiveCommit(h) \/ ClientGone(h)
         \/ SyncWindow(h) \/ SyncAll(h) \/ MarkWindow(h) \/ MarkFull(h) \/ VerifyOnDisk(h) \/ Link(h)
         \/ StepFails(h)
  PROVE  Honest(h)
  <1>1. live \in Entries /\ helper \in [Helpers -> Request]
    BY DEF UploadInv, TypeOK
  <1>2. live'.target # live.target => Nothing \in {live.target, live'.target}
    BY <1>1, ZenonT(60) DEF Entries, Update, UpdateSynced, Untouched, WithSidecar, ObservePartial, WriteSidecar,
           ReceiveData, ReceiveAfterFailure, ReceiveCommit, ClientGone, SyncWindow, SyncAll, MarkWindow, MarkFull,
           VerifyOnDisk, Link, StepFails
  <1>3. CASE ObservePartial(h) /\ Answer(h, "transfer_failed")
    <2>1. helper[h].pc \in Unrecorded
      BY <1>3, ZenonT(60) DEF ObservePartial, At, Unrecorded, Unmade
    <2>2. helper[h].owned = Nothing
      BY <2>1, ZenonT(60) DEF UploadInv, Own, Shape
    <2>3. helper'[h].owned = Nothing /\ \A g \in Helpers : g # h => helper'[g] = helper[g]
      BY <1>1, <1>3, <2>2, ZenonT(60) DEF Answer, Request
    <2> QED
      BY <1>2, <2>3, ZenonT(60) DEF Honest
  <1>4. CASE Raise(h) /\ live'.target = live.target
    BY <1>4, RaiseHonest
  <1>5. ASSUME ~(ObservePartial(h) /\ Answer(h, "transfer_failed")), ~(Raise(h) /\ live'.target = live.target)
        PROVE  helper'[h].pc # "done" /\ \A g \in Helpers : g # h => helper'[g] = helper[g]
    <2>1. CASE ObservePartial(h)
      BY <1>1, <1>5, <2>1 DEF ObservePartial, Request
    <2>7. CASE WriteSidecar(h)
      BY <1>1, <1>5, <2>7, ZenonT(60) DEF WriteSidecar, Request
    <2>2. CASE SyncWindow(h) \/ SyncAll(h)
      BY <1>1, <2>2, ZenonT(60) DEF SyncWindow, SyncAll, Request
    <2>6. CASE ReceiveData(h)
      <3> DEFINE next == helper[h].confirmed + 1
      <3>1. PICK b \in {"right"} \cup (Faults \cap {"wrong"}) :
              helper' = [helper EXCEPT ![h].confirmed = next,
                                       ![h].digest = IF b = "right" THEN @ ELSE "wrong",
                                       ![h].pc = IF next - helper[h].durable >= helper[h].window THEN "sync_window" ELSE "receive"]
        BY <2>6, ZenonT(60) DEF ReceiveData
      <3> QED
        BY <1>1, <3>1 DEF Request
    <2>3. CASE ReceiveAfterFailure(h) \/ ReceiveCommit(h) \/ ClientGone(h) \/ VerifyOnDisk(h) \/ StepFails(h)
      BY <1>1, <1>5, <2>3 DEF ReceiveAfterFailure, ReceiveCommit, ClientGone, VerifyOnDisk, StepFails, Goto, Request
    <2>4. CASE MarkWindow(h) \/ MarkFull(h)
      BY <1>1, <1>5, <2>4 DEF MarkWindow, MarkFull, Untouched, Request
    <2>5. CASE Link(h)
      BY <1>1, <1>5, <2>5 DEF Link, Untouched, Goto, Request
    <2> QED
      BY <2>1, <2>2, <2>3, <2>4, <2>5, <2>6, <2>7, ZenonT(60)
  <1> QED
    BY <1>2, <1>3, <1>4, <1>5, GoesOnHonest, ZenonT(60)

LEMMA CommittedHonest ==
  ASSUME NEW h \in Helpers, UploadInv,
         \/ SyncLink(h) \/ PersistReceipt(h) \/ RemovePartial(h) \/ SyncPartial(h) \/ RemoveSidecar(h)
         \/ SyncSidecar(h) \/ Finish(h) \/ RecoverSync(h) \/ RecoverReceipt(h) \/ RecoverPartial(h)
         \/ RecoverSyncPartial(h) \/ RecoverCommit(h) \/ Kill(h)
  PROVE  Honest(h)
  <1>1. live \in Entries /\ helper \in [Helpers -> Request]
    BY ZenonT(60) DEF UploadInv, TypeOK
  <1>2. live'.target = live.target
    BY <1>1, ZenonT(60) DEF Entries, Update, UpdateSynced, Untouched, WithSidecar, WithPartial, SyncLink,
           PersistReceipt, RemovePartial, SyncPartial, RemoveSidecar, SyncSidecar, Finish, RecoverSync,
           RecoverReceipt, RecoverPartial, RecoverSyncPartial, RecoverCommit, Kill
  <1>3. CASE Raise(h)
    BY <1>2, <1>3, RaiseHonest
  <1>4. ASSUME ~Raise(h)
        PROVE  /\ helper'[h].pc # "done" \/ helper'[h].result # "transfer_failed"
               /\ \A g \in Helpers : g # h => helper'[g] = helper[g]
    <2>1. CASE SyncLink(h) \/ PersistReceipt(h) \/ RemovePartial(h) \/ RemoveSidecar(h)
      BY <1>1, <1>4, <2>1 DEF SyncLink, PersistReceipt, RemovePartial, RemoveSidecar, Goto, Request
    <2>2. CASE SyncPartial(h) \/ SyncSidecar(h) \/ RecoverSync(h) \/ RecoverSyncPartial(h) \/ Kill(h)
      BY <1>1, <2>2 DEF SyncPartial, SyncSidecar, RecoverSync, RecoverSyncPartial, Kill, Goto, Request
    <2>3. CASE RecoverReceipt(h) \/ RecoverPartial(h)
      BY <1>1, <1>4, <2>3, ZenonT(60) DEF RecoverReceipt, RecoverPartial, Goto, Request
    <2>4. CASE Finish(h) \/ RecoverCommit(h)
      BY <1>1, <2>4 DEF Finish, RecoverCommit, Answer, Request
    <2> QED
      BY <2>1, <2>2, <2>3, <2>4, ZenonT(60)
  <1> QED
    BY <1>2, <1>3, <1>4, GoesOnHonest, ZenonT(60)

\* Cleaning up a plain failure: the file is not the target, and stays so.
LEMMA CleaningHonest ==
  ASSUME NEW h \in Helpers, UploadInv,
         CleanupPartial(h) \/ CleanupSidecar(h) \/ CleanupKeep(h) \/ CleanupFails(h)
  PROVE  Honest(h)
  <1>1. live \in Entries /\ helper \in [Helpers -> Request] /\ helper[h].pc \in Cleaning
    BY ZenonT(60) DEF UploadInv, TypeOK, CleanupPartial, CleanupSidecar, CleanupKeep, CleanupFails, At, Cleaning
  <1>2. live'.target = live.target
    BY <1>1 DEF Entries, UpdateSynced, Untouched, WithSidecar, WithPartial, CleanupPartial,
           CleanupSidecar, CleanupKeep, CleanupFails
  <1>3. /\ helper'[h].owned = helper[h].owned /\ \A g \in Helpers : g # h => helper'[g] = helper[g]
        /\ helper'[h].result = "transfer_failed" => helper[h].result = "transfer_failed"
    BY <1>1 DEF CleanupPartial, CleanupSidecar, CleanupKeep, CleanupFails, Answer, Incomplete, Request
  <1>4. helper[h].result = "transfer_failed" => live.target # helper[h].owned
    BY <1>1, ZenonT(60) DEF UploadInv, Own, Progress
  <1> QED
    BY <1>2, <1>3, <1>4, ZenonT(60) DEF Honest

\* An attempt that answers with the plain failure code did not publish, and
\* nothing that holds the target name is replaced: `linkat' refuses an entry
\* that is there, and every error after it is reported as unknown or incomplete.
THEOREM PublishesSafe == Spec => PublishesHonestly
  <1> DEFINE Plain == \A h \in Helpers :
               /\ helper[h].pc # "done"
               /\ helper'[h].pc = "done" /\ helper'[h].result = "transfer_failed"
               /\ helper'[h].owned # Nothing
               => live'.target # helper'[h].owned
             Kept == live'.target # live.target /\ live' \notin kept
                       => Nothing \in {live.target, live'.target}
  <1>1. UploadInv /\ [Next]_vars => [Plain]_vars /\ [Kept]_vars
    <2> SUFFICES ASSUME UploadInv, Next PROVE Plain /\ Kept
      BY ZenonT(60)
    <2>1. ASSUME NEW h \in Helpers, Begin(h) \/ Serve(h) \/ Disturb(h) PROVE Honest(h)
      BY <2>1, EarlyHonest, StreamingHonest, CommittedHonest, CleaningHonest, ZenonT(60) DEF Serve, Disturb
    <2>2. CASE \E h \in Helpers : Honest(h)
      BY <2>2, ZenonT(60) DEF Honest
    <2>3. CASE PowerLoss
      <3>1. live' \in kept
        BY <2>3, ZenonT(60) DEF PowerLoss, UpdateSynced
      <3>2. ASSUME NEW h \in Helpers, helper[h].pc # "done" PROVE helper'[h].pc # "done"
        <4>1. helper[h] \in Request
          BY ZenonT(60) DEF UploadInv, TypeOK
        <4> QED
          BY <2>3, <3>2, <4>1, ZenonT(60) DEF PowerLoss, Request
      <3> QED
        BY <3>1, <3>2, ZenonT(60)
    <2>4. CASE UserCreates \/ UserRemoves
      <3>1. helper' = helper /\ (live.target = Nothing \/ live'.target = Nothing)
        BY <2>4 DEF UserCreates, UserRemoves, Update, UploadInv, TypeOK, Entries
      <3> QED
        BY <3>1
    <2> QED
      BY <2>1, <2>2, <2>3, <2>4, ZenonT(60) DEF Next
  <1> QED
    BY <1>1, UploadInvariant, PTL DEF Spec, PublishesHonestly, FailureDidNotPublish, NoReplace

===============================================================================
