-------------------------- MODULE NativeUploadSteps ---------------------------
(***************************************************************************)
(* The receiving side of an upload, for every set of attempts, transfers    *)
(* and intents, every size and window and every set of faults: its inductive *)
(* invariant, what a step of one attempt leaves to the others, and that the  *)
(* steps that write no name of the directory keep the invariant.             *)
(***************************************************************************)
EXTENDS NativeUpload, TLAPS

\* SMT first, Z3 by its own name next, then Zenon, for every leaf that names no prover.
USE SMTT(60), Z3T(60), ZenonT(60)

(* The inductive invariant.                                                 *)

\* Where an attempt stands: its file does not exist, has no record, grows, is
\* published, is left to be cleaned up; or the commit of an earlier attempt is
\* finished.
Unmade == {"idle", "open_lock", "flock", "observe"}
Unrecorded == Unmade \cup {"sidecar", "write_sidecar"}
Streaming == {"receive", "sync_window", "mark_window", "sync_all", "mark_full", "verify", "link"}
Committed == {"receipt", "remove_partial", "sync_partial", "remove_sidecar", "sync_sidecar", "finish"}
Recovering == {"recover_receipt", "recover_partial", "recover_sync_partial", "recover_ready"}
Cleaning == {"cleanup", "cleanup_sidecar"}
Owning == Streaming \cup Committed \cup Cleaning \cup {"sync_link"}

\* The lock file admits one attempt of a transfer at a time.
Exclusive ==
  \A g, h \in Helpers :
    helper[g].pc \in Locked /\ helper[h].pc \in Locked /\ helper[g].id = helper[h].id => g = h

\* A name in the directory belongs to the transfer of the attempt that made it.
NamesMade(d) ==
  /\ \A t \in Transfers :
       /\ d.partial[t] # Nothing =>
            helper[d.partial[t]].id = t /\ helper[d.partial[t]].pc \notin Unmade
       /\ d.sidecar[t] \in Receipts =>
            /\ helper[d.sidecar[t].file].id = t
            /\ helper[d.sidecar[t].file].pc \notin Unrecorded
  /\ d.target \in Helpers => helper[d.target].pc \notin Unrecorded

\* The fields of an attempt that its place determines.
Shape(h) ==
  /\ helper[h].owned # Nothing =>
       /\ helper[helper[h].owned].id = helper[h].id
       /\ helper[helper[h].owned].pc \notin Unrecorded
  /\ helper[h].pc \in Owning => helper[h].owned # Nothing
  /\ helper[h].pc \in Unrecorded \cup Recovering \cup {"recover_sync"} => helper[h].owned = Nothing
  /\ helper[h].pc \in Unrecorded \cup Streaming \cup {"sync_link"} => helper[h].applied = "no"
  /\ helper[h].pc \in Committed \cup Recovering \cup {"recover_sync"} => helper[h].applied = "yes"
  /\ helper[h].pc \notin {"done", "dead"} \cup Cleaning => helper[h].result = "none"
  /\ helper[h].pc \in Cleaning => helper[h].result # "completed"

\* The counters of an attempt describe the file it owns, and no record in the
\* directory says more of that file than the attempt has marked.
OnRecord(h) ==
  helper[h].pc \in Owning =>
    LET c == inode[helper[h].owned]
    IN /\ helper[h].marked <= helper[h].durable
       /\ helper[h].durable <= helper[h].confirmed
       /\ helper[h].durable <= c.firm
       /\ c.len = helper[h].confirmed
       /\ \A k \in 1..helper[h].confirmed : c.data[k] # "lost"
       /\ \A d \in kept :
            /\ d.sidecar[helper[h].id] \in Receipts /\ d.sidecar[helper[h].id].file = helper[h].owned
                 => d.sidecar[helper[h].id].offset <= helper[h].marked
            /\ d.target = helper[h].owned => helper[h].durable = Size
       /\ SidecarOf(h) \in Receipts => SidecarOf(h).file = helper[h].owned

Progress(h) ==
  LET c == inode[helper[h].owned]
  IN /\ At(h, "sync_all") => helper[h].confirmed = Size /\ helper[h].digest = "right"
     /\ At(h, "mark_window") => helper[h].durable = helper[h].confirmed
     /\ helper[h].pc \in {"mark_full", "verify", "link", "sync_link"} \cup Committed =>
          helper[h].durable = Size /\ c.firm = Size
     /\ helper[h].pc \in {"verify", "link", "sync_link"} \cup Committed /\ SidecarOf(h) \in Receipts =>
          SidecarOf(h).offset = Size
     /\ helper[h].pc \in {"link", "sync_link"} \cup Committed => Whole(c)
     /\ helper[h].pc \in Recovering \cup {"recover_sync"} => SidecarOf(h) \in Receipts /\ SidecarOf(h).offset = Size
     /\ helper[h].pc \in Streaming => live.target # helper[h].owned
     /\ helper[h].pc \in Cleaning /\ helper[h].result = "transfer_failed" => live.target # helper[h].owned

\* Before its first record an attempt has written nothing.
Unwritten(h) ==
  helper[h].pc \in Unrecorded =>
    /\ inode[h].len = 0
    /\ helper[h].confirmed = 0 /\ helper[h].durable = 0 /\ helper[h].marked = 0

\* What an attempt may answer Completed for.
Settled(h) ==
  chosen # "removed" =>
    /\ helper[h].owned # Nothing /\ (helper[h].pc \in Committed \/ helper[h].result = "completed") =>
         \A d \in kept : d.target = helper[h].owned
    /\ helper[h].pc \in Recovering \/ helper[h].result = "completed" => \A d \in kept : d.target \in Helpers
    /\ At(h, "recover_sync") => live.target \in Helpers

\* Nobody is locked out of transfer t by what its attempts leave, unless the
\* user interfered, a request did without resume, or a cleanup was incomplete.
Excused(t) ==
  \/ chosen # "nothing"
  \/ \E h \in Helpers :
       helper[h].id = t /\ (helper[h].mode # "resume" \/ helper[h].result = "cleanup_incomplete")

Ready(h) ==
  ~Excused(helper[h].id) =>
    /\ At(h, "sidecar") => SidecarOf(h) = Nothing
    /\ helper[h].pc \in {"sidecar", "write_sidecar"} => PartialOf(h) = h
    /\ helper[h].pc \in Streaming \cup {"cleanup"} /\ helper[h].applied = "no" => PartialOf(h) = helper[h].owned
    /\ At(h, "sync_link") \/ (helper[h].pc \in Committed \cup {"cleanup"} /\ helper[h].applied = "yes")
         => live.target = helper[h].owned
    /\ helper[h].pc \in Recovering \cup {"recover_sync"} => live.target = SidecarOf(h).file

Own(h) == Shape(h) /\ OnRecord(h) /\ Progress(h) /\ Settled(h) /\ Ready(h)

\* Of every directory a power loss may leave: its sidecars count durable bytes
\* and no more of them than the live one of the same file; a published file is
\* complete, and so is what a record says of it; and a transfer can go on.
Vouched(d, t) ==
  d.sidecar[t] \in Receipts =>
    LET c == inode[d.sidecar[t].file]
    IN /\ c.firm >= d.sidecar[t].offset
       /\ \A k \in 1..d.sidecar[t].offset : c.data[k] # "lost"

Advances(d, t) ==
  /\ live.sidecar[t] \in Receipts /\ d.sidecar[t] \in Receipts
  /\ d.sidecar[t].file = live.sidecar[t].file
  => d.sidecar[t].offset <= live.sidecar[t].offset

Full(r, f) == r \in Receipts /\ r.file = f => r.offset = Size

Sealed(d) ==
  d.target \in Helpers =>
    /\ Whole(inode[d.target]) /\ inode[d.target].firm = Size
    /\ Full(d.sidecar[helper[d.target].id], d.target)
    /\ Full(live.sidecar[helper[d.target].id], d.target)

Resumable(d, t) ==
  d.sidecar[t] \in Receipts /\ ~Excused(t) =>
    IF d.target = d.sidecar[t].file THEN d.sidecar[t].offset = Size
    ELSE d.sidecar[t].state = "receiving" /\ d.partial[t] = d.sidecar[t].file

Sound(d) ==
  /\ NamesMade(d)
  /\ Sealed(d)
  /\ \A t \in Transfers : Vouched(d, t) /\ Advances(d, t) /\ Resumable(d, t)

UploadInv ==
  /\ TypeOK
  /\ Exclusive
  /\ \A h \in Helpers : Own(h) /\ Unwritten(h)
  /\ \A f \in Helpers : inode[f].firm <= inode[f].len
  /\ \A d \in kept : Sound(d)

-------------------------------------------------------------------------------
(* Types.                                                                   *)

Places == {"idle", "open_lock", "flock", "done", "dead"} \cup Locked

\* What an attempt may never do to its own fields in a step.
Grows(r, s) ==
  /\ s.id = r.id /\ s.intent = r.intent /\ s.mode = r.mode
  /\ r.pc \notin Unmade => s.pc \notin Unmade
  /\ r.pc \notin Unrecorded => s.pc \notin Unrecorded
  /\ r.owned # Nothing => s.owned = r.owned
  /\ r.result = "cleanup_incomplete" => s.result = "cleanup_incomplete"
  /\ s.pc \in Unrecorded =>
       s.confirmed = r.confirmed /\ s.durable = r.durable /\ s.marked = r.marked

\* The directory after one entry changed.
LEMMA LockEntry ==
  ASSUME NEW d \in Entries, NEW t \in Transfers, NEW r \in Intents \cup {Nothing, Torn}
  PROVE  LET e == [d EXCEPT !.lock[t] = r]
         IN  /\ e \in Entries
             /\ e.sidecar = d.sidecar /\ e.partial = d.partial /\ e.target = d.target
  BY DEF Entries

LEMMA TargetEntry ==
  ASSUME NEW d \in Entries, NEW f \in Helpers \cup {Nothing, Foreign}
  PROVE  LET e == [d EXCEPT !.target = f]
         IN  /\ e \in Entries
             /\ e.target = f
             /\ e.sidecar = d.sidecar /\ e.partial = d.partial
  BY DEF Entries

-------------------------------------------------------------------------------
(* A step of one attempt, seen by the others.                               *)

SameEntries(d, e) == e.sidecar = d.sidecar /\ e.partial = d.partial /\ e.target = d.target

\* The attempt h moves on; it touches the entries of its own transfer, only
\* files of that transfer, and only under the lock.
Step(h) ==
  /\ helper' \in [Helpers -> Request]
  /\ \A g \in Helpers : g # h => helper'[g] = helper[g]
  /\ Grows(helper[h], helper'[h])
  /\ helper[h].pc \notin Locked /\ helper'[h].pc \in Locked => ~Held(helper[h].id)
  /\ inode' \in [Helpers -> Contents]
  /\ \A f \in Helpers : inode'[f] # inode[f] =>
       helper[f].id = helper[h].id /\ helper[f].pc \notin Unrecorded /\ helper[h].pc \in Locked
  /\ live' \in Entries /\ live' \in kept' /\ kept' \subseteq kept \cup {live'}
  /\ \A t \in Transfers : t # helper[h].id \/ helper[h].pc \notin Locked =>
       live'.sidecar[t] = live.sidecar[t] /\ live'.partial[t] = live.partial[t]
  /\ live'.target # live.target =>
       /\ live.target = Nothing /\ live'.target \in Helpers
       /\ helper[live'.target].id = helper[h].id /\ helper[h].pc \in Locked
  /\ chosen' = chosen

LEMMA StepTyped ==
  ASSUME TypeOK, NEW h \in Helpers, Step(h)
  PROVE  TypeOK'
  BY DEF TypeOK, Step

LEMMA StepExclusive ==
  ASSUME TypeOK, Exclusive, NEW h \in Helpers, Step(h)
  PROVE  Exclusive'
  <1> SUFFICES ASSUME NEW f \in Helpers, NEW g \in Helpers, helper'[f].pc \in Locked,
                      helper'[g].pc \in Locked, helper'[f].id = helper'[g].id
               PROVE  f = g
    BY DEF Exclusive
  <1>1. ASSUME NEW k \in Helpers PROVE helper'[k].id = helper[k].id
    BY DEF Step, Grows
  <1>2. ASSUME NEW k \in Helpers, k # h, helper'[k].pc \in Locked, helper'[h].pc \in Locked,
               helper'[k].id = helper'[h].id
        PROVE  FALSE
    <2>1. helper[k].pc \in Locked /\ helper[k].id = helper[h].id
      BY <1>1, <1>2, ZenonT(60) DEF Step
    <2>2. helper[h].pc \in Locked
      BY <2>1, <1>2, ZenonT(60) DEF Step, Held
    <2> QED
      BY <2>1, <2>2, <1>2, ZenonT(60) DEF Exclusive
  <1>3. CASE f # h /\ g # h
    BY <1>3, <1>1, ZenonT(60) DEF Step, Exclusive
  <1> QED
    BY <1>2, <1>3, ZenonT(60)

LEMMA ExcusedStays ==
  ASSUME TypeOK, NEW h \in Helpers, Step(h), NEW t \in Transfers, ~(Excused(t)')
  PROVE  ~Excused(t)
  <1> SUFFICES ASSUME Excused(t) PROVE Excused(t)'
    OBVIOUS
  <1>1. CASE chosen # "nothing"
    BY <1>1, ZenonT(60) DEF Excused, Step
  <1>2. ASSUME NEW g \in Helpers, helper[g].id = t,
               helper[g].mode # "resume" \/ helper[g].result = "cleanup_incomplete"
        PROVE  Excused(t)'
    <2>1. /\ helper'[g].id = t
          /\ helper'[g].mode # "resume" \/ helper'[g].result = "cleanup_incomplete"
      BY <1>2, ZenonT(60) DEF Step, Grows
    <2> QED
      BY <2>1, ZenonT(60) DEF Excused
  <1> QED
    BY <1>1, <1>2, ZenonT(60) DEF Excused

\* What an attempt under the lock, or at rest, sees of the step of another one.
Unmoved(g) ==
  /\ helper'[g] = helper[g]
  /\ helper[g].pc \in Locked =>
       /\ SidecarOf(g)' = SidecarOf(g) /\ PartialOf(g)' = PartialOf(g)
       /\ helper[g].owned # Nothing => inode'[helper[g].owned] = inode[helper[g].owned]
       /\ \A d \in kept' : \E e \in kept :
            /\ d.sidecar[helper[g].id] = e.sidecar[helper[g].id]
            /\ helper[g].owned # Nothing => (d.target = helper[g].owned <=> e.target = helper[g].owned)
       /\ helper[g].owned # Nothing => (live'.target = helper[g].owned <=> live.target = helper[g].owned)
  /\ live.target # Nothing => live'.target = live.target
  /\ (\A d \in kept : d.target # Nothing) => \A d \in kept' : \E e \in kept : d.target = e.target

LEMMA BystanderUnmoved ==
  ASSUME UploadInv, NEW h \in Helpers, Step(h), NEW g \in Helpers, g # h
  PROVE  Unmoved(g)
  <1>1. helper'[g] = helper[g] /\ helper[g] \in Request /\ helper[h] \in Request /\ live \in kept /\ live \in Entries
    BY ZenonT(60) DEF UploadInv, TypeOK, Step
  <1>2. helper[g].id \in Transfers /\ helper[h].id \in Transfers
    BY <1>1 DEF Request
  <1>3. live.target # Nothing => live'.target = live.target
    BY ZenonT(60) DEF Step
  <1>4. ASSUME \A d \in kept : d.target # Nothing, NEW d \in kept' PROVE \E e \in kept : d.target = e.target
    BY <1>1, <1>3, <1>4 DEF Step
  <1>5. ASSUME helper[g].pc \in Locked, helper[h].pc \in Locked PROVE helper[g].id # helper[h].id
    BY <1>5, ZenonT(60) DEF UploadInv, Exclusive
  <1>6. ASSUME helper[g].pc \in Locked
        PROVE  live'.sidecar[helper[g].id] = live.sidecar[helper[g].id]
               /\ live'.partial[helper[g].id] = live.partial[helper[g].id]
    BY <1>2, <1>5, <1>6, ZenonT(60) DEF Step
  <1>7. ASSUME helper[g].pc \in Locked, helper[g].owned # Nothing
        PROVE  /\ inode'[helper[g].owned] = inode[helper[g].owned]
               /\ live'.target = helper[g].owned <=> live.target = helper[g].owned
    <2>1. helper[g].owned \in Helpers
      BY <1>1, <1>7 DEF Request
    <2>2. helper[helper[g].owned].id = helper[g].id
      BY <1>7, ZenonT(60) DEF UploadInv, Own, Shape
    <2>3. inode'[helper[g].owned] = inode[helper[g].owned]
      BY <2>1, <2>2, <1>5, <1>7, ZenonT(60) DEF Step
    <2>4. ASSUME live'.target # live.target
          PROVE  live'.target # helper[g].owned /\ live.target # helper[g].owned
      BY <2>1, <2>2, <2>4, <1>5, <1>7, ZenonT(60) DEF Step
    <2> QED
      BY <2>3, <2>4, ZenonT(60)
  <1>8. ASSUME helper[g].pc \in Locked, NEW d \in kept'
        PROVE  \E e \in kept :
                 /\ d.sidecar[helper[g].id] = e.sidecar[helper[g].id]
                 /\ helper[g].owned # Nothing => (d.target = helper[g].owned <=> e.target = helper[g].owned)
    <2>1. CASE d \in kept
      BY <2>1
    <2>2. CASE d = live'
      BY <2>2, <1>1, <1>6, <1>7, <1>8
    <2> QED
      BY <2>1, <2>2 DEF Step
  <1> QED
    BY <1>1, <1>3, <1>4, <1>6, <1>7, <1>8, ZenonT(60) DEF Unmoved, SidecarOf, PartialOf

LEMMA PlacesLocked ==
  /\ Owning \subseteq Locked /\ Recovering \subseteq Locked
  /\ {"sidecar", "write_sidecar", "recover_sync"} \subseteq Locked
  /\ Streaming \subseteq Owning /\ Committed \subseteq Owning /\ Cleaning \subseteq Owning
  BY DEF Owning, Streaming, Committed, Cleaning, Recovering, Locked

LEMMA BystanderKept ==
  ASSUME UploadInv, NEW h \in Helpers, Step(h), NEW g \in Helpers, g # h
  PROVE  Own(g)'
  <1>1. Unmoved(g) /\ helper'[g] = helper[g] /\ Own(g)
    BY BystanderUnmoved, ZenonT(60) DEF UploadInv, Unmoved
  <1>2. helper[g] \in Request /\ helper[g].owned \in Helpers \cup {Nothing} /\ helper[g].id \in Transfers
    BY DEF UploadInv, TypeOK, Request
  <1>3. Shape(g)'
    <2>1. ASSUME NEW f \in Helpers PROVE helper'[f].id = helper[f].id /\ (helper[f].pc \notin Unrecorded => helper'[f].pc \notin Unrecorded)
      BY ZenonT(60) DEF Step, Grows
    <2>2. helper[g].owned # Nothing =>
            /\ helper'[helper[g].owned].id = helper[g].id
            /\ helper'[helper[g].owned].pc \notin Unrecorded
      BY <1>1, <1>2, <2>1, ZenonT(60) DEF Own, Shape
    <2> QED
      BY <1>1, <2>2, ZenonT(60) DEF Own, Shape
  <1>4. OnRecord(g)'
    <2> SUFFICES ASSUME helper[g].pc \in Owning PROVE OnRecord(g)'
      BY <1>1, ZenonT(60) DEF OnRecord
    <2>1. helper[g].owned # Nothing /\ helper[g].pc \in Locked
      BY <1>1, PlacesLocked, ZenonT(60) DEF Own, Shape
    <2>2. inode'[helper[g].owned] = inode[helper[g].owned] /\ SidecarOf(g)' = SidecarOf(g)
      BY <1>1, <2>1, ZenonT(60) DEF Unmoved
    <2>3. ASSUME NEW d \in kept'
          PROVE  /\ d.sidecar[helper[g].id] \in Receipts /\ d.sidecar[helper[g].id].file = helper[g].owned
                      => d.sidecar[helper[g].id].offset <= helper[g].marked
                 /\ d.target = helper[g].owned => helper[g].durable = Size
      <3>1. PICK e \in kept :
              /\ d.sidecar[helper[g].id] = e.sidecar[helper[g].id]
              /\ d.target = helper[g].owned <=> e.target = helper[g].owned
        BY <1>1, <2>1, ZenonT(60) DEF Unmoved
      <3> QED
        BY <1>1, <3>1, ZenonT(60) DEF Own, OnRecord
    <2> QED
      BY <1>1, <2>2, <2>3, ZenonT(60) DEF Own, OnRecord
  <1>5. Progress(g)'
    <2>1. CASE helper[g].pc \in Owning
      <3>1. helper[g].owned # Nothing /\ helper[g].pc \in Locked
        BY <1>1, <2>1, PlacesLocked, ZenonT(60) DEF Own, Shape
      <3>2. inode'[helper[g].owned] = inode[helper[g].owned] /\ SidecarOf(g)' = SidecarOf(g)
            /\ (live'.target = helper[g].owned <=> live.target = helper[g].owned)
        BY <1>1, <3>1, ZenonT(60) DEF Unmoved
      <3> QED
        BY <1>1, <3>2, ZenonT(60) DEF Own, Progress, At
    <2>2. CASE helper[g].pc \notin Owning
      <3>1. ASSUME helper[g].pc \in Recovering \cup {"recover_sync"}
            PROVE  SidecarOf(g)' \in Receipts /\ SidecarOf(g)'.offset = Size
        BY <1>1, <3>1, PlacesLocked, ZenonT(60) DEF Own, Progress, Unmoved
      <3> QED
        BY <1>1, <2>2, <3>1 DEF Progress, At, Owning, Streaming, Committed, Cleaning
    <2> QED
      BY <2>1, <2>2
  <1>6. Settled(g)'
    <2>1. Nothing \notin Helpers
      BY UploadAssumption
    <2> SUFFICES ASSUME chosen # "removed" PROVE Settled(g)'
      BY ZenonT(60) DEF Settled, Step
    <2>2. ASSUME helper[g].owned # Nothing, helper[g].pc \in Committed \/ helper[g].result = "completed", NEW d \in kept'
          PROVE  d.target = helper[g].owned
      <3>1. \A e \in kept : e.target = helper[g].owned
        BY <1>1, <2>2, ZenonT(60) DEF Own, Settled
      <3>2. PICK e \in kept : d.target = e.target
        BY <1>1, <2>2, <3>1, ZenonT(60) DEF Unmoved
      <3> QED
        BY <3>1, <3>2
    <2>3. ASSUME helper[g].pc \in Recovering \/ helper[g].result = "completed", NEW d \in kept'
          PROVE  d.target \in Helpers
      <3>1. \A e \in kept : e.target \in Helpers
        BY <1>1, <2>3, ZenonT(60) DEF Own, Settled
      <3>2. PICK e \in kept : d.target = e.target
        BY <1>1, <2>1, <3>1, ZenonT(60) DEF Unmoved
      <3> QED
        BY <3>1, <3>2
    <2>4. ASSUME helper[g].pc = "recover_sync" PROVE live'.target \in Helpers
      BY <1>1, <2>1, <2>4, ZenonT(60) DEF Own, Settled, Unmoved, At
    <2> QED
      BY <1>1, <2>2, <2>3, <2>4, ZenonT(60) DEF Settled, At
  <1>7. Ready(g)'
    <2> SUFFICES ASSUME ~(Excused(helper[g].id)') PROVE Ready(g)'
      BY <1>1, ZenonT(60) DEF Ready
    <2>1. ~Excused(helper[g].id)
      <3>1. PICK t \in Transfers : t = helper[g].id
        BY <1>2
      <3>2. ~(Excused(t)')
        BY <1>1, <3>1, ZenonT(60) DEF Excused
      <3> QED
        BY <3>1, <3>2, ExcusedStays, ZenonT(60) DEF UploadInv
    <2>2. CASE helper[g].pc \notin Locked
      BY <1>1, <2>2, PlacesLocked, ZenonT(60) DEF Ready, At, Owning, Cleaning
    <2>3. CASE helper[g].pc \in Locked
      <3>1. SidecarOf(g)' = SidecarOf(g) /\ PartialOf(g)' = PartialOf(g)
        BY <1>1, <2>3, ZenonT(60) DEF Unmoved
      <3>2. ASSUME At(g, "sync_link") \/ (helper[g].pc \in Committed \cup {"cleanup"} /\ helper[g].applied = "yes")
            PROVE  live'.target = helper[g].owned
        <4>1. live.target = helper[g].owned
          BY <1>1, <2>1, <3>2, ZenonT(60) DEF Own, Ready
        <4>2. helper[g].owned # Nothing
          BY <1>1, <3>2 DEF Own, Shape, At, Owning, Cleaning
        <4> QED
          BY <1>1, <4>1, <4>2, ZenonT(60) DEF Unmoved
      <3>3. ASSUME helper[g].pc \in Recovering \cup {"recover_sync"}
            PROVE  live'.target = SidecarOf(g).file
        <4>1. SidecarOf(g) \in Receipts /\ live.target = SidecarOf(g).file
          BY <1>1, <2>1, <3>3, ZenonT(60) DEF Own, Ready, Progress
        <4>2. live.target # Nothing
          BY <4>1, UploadAssumption DEF Receipts
        <4> QED
          BY <1>1, <4>1, <4>2, ZenonT(60) DEF Unmoved
      <3> QED
        BY <1>1, <2>1, <3>1, <3>2, <3>3, ZenonT(60) DEF Own, Ready, At
    <2> QED
      BY <2>2, <2>3
  <1> QED
    BY <1>3, <1>4, <1>5, <1>6, <1>7 DEF Own

-------------------------------------------------------------------------------
(* The directories a step leaves.                                           *)

LEMMA NamesStay ==
  ASSUME UploadInv, NEW h \in Helpers, Step(h), NEW d \in kept
  PROVE  NamesMade(d)'
  <1>1. ASSUME NEW f \in Helpers
        PROVE  /\ helper'[f].id = helper[f].id
               /\ helper[f].pc \notin Unmade => helper'[f].pc \notin Unmade
               /\ helper[f].pc \notin Unrecorded => helper'[f].pc \notin Unrecorded
    BY ZenonT(60) DEF Step, Grows
  <1>2. NamesMade(d) /\ d \in Entries
    BY ZenonT(60) DEF UploadInv, Sound, TypeOK
  <1>3. \A t \in Transfers : d.partial[t] \in Helpers \cup {Nothing}
    BY <1>2 DEF Entries
  <1>4. \A r \in Receipts : r.file \in Helpers
    BY DEF Receipts
  <1> QED
    BY <1>1, <1>2, <1>3, <1>4, ZenonT(60) DEF NamesMade

LEMMA ResumableStays ==
  ASSUME UploadInv, NEW h \in Helpers, Step(h), NEW d \in kept, NEW t \in Transfers
  PROVE  Resumable(d, t)'
  <1>1. ~(Excused(t)') => ~Excused(t)
    BY ExcusedStays, ZenonT(60) DEF UploadInv
  <1>2. Resumable(d, t)
    BY ZenonT(60) DEF UploadInv, Sound
  <1> QED
    BY <1>1, <1>2, ZenonT(60) DEF Resumable

\* What makes a record of transfer t good for the directories of a power loss.
GoodRecord(r, t) ==
  /\ helper[r.file].id = t /\ helper'[r.file].pc \notin Unrecorded
  /\ inode[r.file].firm >= r.offset
  /\ \A k \in 1..r.offset : inode[r.file].data[k] # "lost"
  /\ \A d \in kept : /\ d.sidecar[t] \in Receipts /\ d.sidecar[t].file = r.file => d.sidecar[t].offset <= r.offset
                     /\ d.target = r.file => r.offset = Size

LEMMA RecordStaysGood ==
  ASSUME UploadInv, NEW h \in Helpers, Step(h), NEW t \in Transfers, live.sidecar[t] \in Receipts
  PROVE  GoodRecord(live.sidecar[t], t)
  <1> DEFINE r == live.sidecar[t]
  <1>1. live \in kept /\ r.file \in Helpers
    BY DEF UploadInv, TypeOK, Receipts
  <1>2. NamesMade(live) /\ Vouched(live, t)
    BY <1>1, ZenonT(60) DEF UploadInv, Sound
  <1>3. helper[r.file].id = t /\ helper'[r.file].pc \notin Unrecorded
    BY <1>1, <1>2, ZenonT(60) DEF NamesMade, Step, Grows
  <1>4. inode[r.file].firm >= r.offset /\ \A k \in 1..r.offset : inode[r.file].data[k] # "lost"
    BY <1>2, ZenonT(60) DEF Vouched
  <1>5. ASSUME NEW d \in kept
        PROVE  /\ d.sidecar[t] \in Receipts /\ d.sidecar[t].file = r.file => d.sidecar[t].offset <= r.offset
               /\ d.target = r.file => r.offset = Size
    <2>1. Advances(d, t) /\ Sealed(d)
      BY ZenonT(60) DEF UploadInv, Sound
    <2>2. d.sidecar[t] \in Receipts /\ d.sidecar[t].file = r.file => d.sidecar[t].offset <= r.offset
      BY <2>1, ZenonT(60) DEF Advances
    <2>3. d.target = r.file => r.offset = Size
      BY <2>1, <1>1, <1>3, ZenonT(60) DEF Sealed, Full
    <2> QED
      BY <2>2, <2>3
  <1> QED
    BY <1>3, <1>4, <1>5, ZenonT(60) DEF GoodRecord

\* A step that writes the record r and the partial f of transfer t.
LEMMA EntriesSound ==
  ASSUME UploadInv, NEW h \in Helpers, Step(h), NEW t \in Transfers, t = helper[h].id, NEW r, NEW f,
         live'.sidecar[t] = r, \A u \in Transfers : u # t => live'.sidecar[u] = live.sidecar[u],
         live'.partial[t] = f, \A u \in Transfers : u # t => live'.partial[u] = live.partial[u],
         live'.target = live.target, inode' = inode,
         f # Nothing => f \in Helpers /\ helper[f].id = t /\ helper'[f].pc \notin Unmade,
         r \in Receipts => GoodRecord(r, t),
         r \in Receipts /\ ~(Excused(t)') =>
           IF live.target = r.file THEN r.offset = Size ELSE r.state = "receiving" /\ f = r.file
  PROVE  \A d \in kept' : Sound(d)'
  <1>1. live \in kept /\ live \in Entries /\ \A d \in kept : d \in Entries /\ Sound(d)
    BY ZenonT(60) DEF UploadInv, TypeOK
  <1>2. \A g \in Helpers : helper'[g].id = helper[g].id
    BY ZenonT(60) DEF Step, Grows
  <1>3. \A q \in Receipts : q.file \in Helpers
    BY DEF Receipts
  <1>4. ASSUME NEW d \in kept PROVE Sound(d)'
    <2>1. NamesMade(d)' /\ \A u \in Transfers : Resumable(d, u)'
      BY NamesStay, ResumableStays, ZenonT(60)
    <2>2. \A u \in Transfers : Vouched(d, u)'
      BY <1>1, ZenonT(60) DEF Sound, Vouched
    <2>3. Sealed(d)'
      <3> SUFFICES ASSUME d.target \in Helpers PROVE Sealed(d)'
        BY ZenonT(60) DEF Sealed
      <3>1. PICK u \in Transfers : u = helper[d.target].id
        BY DEF UploadInv, TypeOK, Request
      <3>2. Full(live'.sidecar[u], d.target)
        <4>1. CASE u = t
          BY <4>1, ZenonT(60) DEF Full, GoodRecord
        <4>2. CASE u # t
          BY <4>2, <1>1, <3>1, ZenonT(60) DEF Sound, Sealed
        <4> QED
          BY <4>1, <4>2
      <3> QED
        BY <1>1, <1>2, <3>1, <3>2, ZenonT(60) DEF Sound, Sealed
    <2>4. ASSUME NEW u \in Transfers PROVE Advances(d, u)'
      <3>1. CASE u = t
        BY <3>1, ZenonT(60) DEF Advances, GoodRecord
      <3>2. CASE u # t
        BY <3>2, <1>1, ZenonT(60) DEF Sound, Advances
      <3> QED
        BY <3>1, <3>2
    <2> QED
      BY <2>1, <2>2, <2>3, <2>4, ZenonT(60) DEF Sound
  <1>5. ASSUME NEW d \in kept', d = live' PROVE Sound(d)'
    <2>0. PICK e \in kept : e = live
      BY <1>1
    <2>1. NamesMade(d)'
      <3>1. NamesMade(e)'
        BY NamesStay, ZenonT(60)
      <3>2. \A u \in Transfers : u # t => d.partial[u] = e.partial[u] /\ d.sidecar[u] = e.sidecar[u]
        BY <1>5, <2>0
      <3>3. d.partial[t] = f /\ d.sidecar[t] = r /\ d.target = e.target
        BY <1>5, <2>0, ZenonT(60)
      <3>4. ASSUME NEW u \in Transfers
            PROVE  /\ d.partial[u] # Nothing =>
                        helper'[d.partial[u]].id = u /\ helper'[d.partial[u]].pc \notin Unmade
                   /\ d.sidecar[u] \in Receipts =>
                        /\ helper'[d.sidecar[u].file].id = u
                        /\ helper'[d.sidecar[u].file].pc \notin Unrecorded
        <4>1. CASE u = t
          BY <1>2, <1>3, <3>3, <4>1, ZenonT(60) DEF GoodRecord
        <4>2. CASE u # t
          BY <3>1, <3>2, <4>2, ZenonT(60) DEF NamesMade
        <4> QED
          BY <4>1, <4>2
      <3> QED
        BY <3>1, <3>3, <3>4, ZenonT(60) DEF NamesMade
    <2>2. ASSUME NEW u \in Transfers PROVE Vouched(d, u)'
      <3>1. CASE u = t
        BY <1>5, <3>1, ZenonT(60) DEF Vouched, GoodRecord
      <3>2. CASE u # t
        <4>1. d.sidecar[u] = e.sidecar[u] /\ Vouched(e, u)
          BY <1>1, <1>5, <2>0, <3>2, ZenonT(60) DEF Sound
        <4> QED
          BY <4>1, ZenonT(60) DEF Vouched
      <3> QED
        BY <3>1, <3>2
    <2>3. Sealed(d)'
      <3>1. Sealed(e)'
        BY <1>4, ZenonT(60) DEF Sound
      <3> QED
        BY <1>5, <2>0, <3>1, ZenonT(60) DEF Sealed
    <2>4. ASSUME NEW u \in Transfers PROVE Advances(d, u)'
      <3>1. \A q \in Receipts : q.offset <= q.offset
        BY UploadAssumption DEF Receipts
      <3> QED
        BY <1>5, <3>1, ZenonT(60) DEF Advances
    <2>5. ASSUME NEW u \in Transfers PROVE Resumable(d, u)'
      <3>1. CASE u = t
        BY <1>5, <3>1, ZenonT(60) DEF Resumable
      <3>2. CASE u # t
        <4>1. Resumable(e, u)'
          BY ResumableStays, ZenonT(60)
        <4> QED
          BY <1>5, <2>0, <4>1, <3>2, ZenonT(60) DEF Resumable
      <3> QED
        BY <3>1, <3>2
    <2> QED
      BY <2>1, <2>2, <2>3, <2>4, <2>5, ZenonT(60) DEF Sound
  <1> QED
    BY <1>4, <1>5, ZenonT(60) DEF Step

\* A step that changes no entry of consequence and no contents.
LEMMA UnchangedSound ==
  ASSUME UploadInv, NEW h \in Helpers, Step(h), SameEntries(live, live'), inode' = inode
  PROVE  \A d \in kept' : Sound(d)'
  <1>1. PICK t \in Transfers : t = helper[h].id
    BY DEF UploadInv, TypeOK, Request
  <1>2. PICK e \in kept : e = live
    BY DEF UploadInv, TypeOK
  <1>3. NamesMade(e)' /\ Resumable(e, t)'
    BY NamesStay, ResumableStays, ZenonT(60)
  <1>4. e.partial[t] # Nothing =>
          e.partial[t] \in Helpers /\ helper[e.partial[t]].id = t /\ helper'[e.partial[t]].pc \notin Unmade
    <2>1. e.partial[t] \in Helpers \cup {Nothing}
      BY DEF UploadInv, TypeOK, Entries
    <2>2. \A g \in Helpers : helper'[g].id = helper[g].id
      BY ZenonT(60) DEF Step, Grows
    <2> QED
      BY <1>3, <2>1, <2>2, ZenonT(60) DEF NamesMade
  <1>5. live.sidecar[t] \in Receipts => GoodRecord(live.sidecar[t], t)
    BY RecordStaysGood, ZenonT(60)
  <1>6. live.sidecar[t] \in Receipts /\ ~(Excused(t)') =>
          IF live.target = live.sidecar[t].file THEN live.sidecar[t].offset = Size
          ELSE live.sidecar[t].state = "receiving" /\ live.partial[t] = live.sidecar[t].file
    BY <1>2, <1>3, ZenonT(60) DEF Resumable
  <1>7. live'.sidecar = live.sidecar /\ live'.partial = live.partial /\ live'.target = live.target
    BY DEF SameEntries
  <1> QED
    BY <1>1, <1>2, <1>4, <1>5, <1>6, <1>7, EntriesSound, ZenonT(60)

\* A step that publishes the file f of its own transfer.
LEMMA LinkSound ==
  ASSUME UploadInv, NEW h \in Helpers, Step(h), NEW f \in Helpers, helper[f].id = helper[h].id,
         live.target = Nothing, live'.target = f, live'.sidecar = live.sidecar, live'.partial = live.partial,
         inode' = inode, Whole(inode[f]), inode[f].firm = Size, helper'[f].pc \notin Unrecorded,
         Full(live.sidecar[helper[h].id], f)
  PROVE  \A d \in kept' : Sound(d)'
  <1>1. live \in kept /\ live \in Entries /\ \A d \in kept : d \in Entries /\ Sound(d)
    BY ZenonT(60) DEF UploadInv, TypeOK
  <1>2. \A g \in Helpers : helper'[g].id = helper[g].id
    BY ZenonT(60) DEF Step, Grows
  <1>3. ASSUME NEW d \in kept PROVE Sound(d)'
    <2>1. NamesMade(d)' /\ \A u \in Transfers : Resumable(d, u)'
      BY NamesStay, ResumableStays, ZenonT(60)
    <2>2. \A u \in Transfers : Vouched(d, u)' /\ Advances(d, u)'
      BY <1>1, ZenonT(60) DEF Sound, Vouched, Advances
    <2>3. Sealed(d)'
      BY <1>1, <1>2, ZenonT(60) DEF Sound, Sealed
    <2> QED
      BY <2>1, <2>2, <2>3, ZenonT(60) DEF Sound
  <1>4. ASSUME NEW d \in kept', d = live' PROVE Sound(d)'
    <2>0. PICK e \in kept : e = live
      BY <1>1
    <2>1. d.partial = e.partial /\ d.sidecar = e.sidecar /\ d.target = f /\ Sound(e)' /\ e.target = Nothing
      BY <1>3, <1>4, <2>0
    <2>2. NamesMade(d)'
      BY <2>1, ZenonT(60) DEF Sound, NamesMade
    <2>3. Sealed(d)'
      BY <1>2, <1>4, <2>0, <2>1, ZenonT(60) DEF Sealed
    <2>4. ASSUME NEW u \in Transfers PROVE Vouched(d, u)' /\ Advances(d, u)'
      BY <2>1, ZenonT(60) DEF Sound, Vouched, Advances
    <2>5. ASSUME NEW u \in Transfers, d.sidecar[u] \in Receipts, ~(Excused(u)')
          PROVE  IF f = d.sidecar[u].file THEN d.sidecar[u].offset = Size
                 ELSE d.sidecar[u].state = "receiving" /\ d.partial[u] = d.sidecar[u].file
      <3>1. CASE f = d.sidecar[u].file
        <4>1. helper[f].id = u
          <5>1. NamesMade(e)'
            BY <2>1, ZenonT(60) DEF Sound
          <5> QED
            BY <1>2, <2>1, <2>5, <3>1, <5>1 DEF NamesMade
        <4> QED
          BY <2>0, <2>1, <2>5, <3>1, <4>1, ZenonT(60) DEF Full
      <3>2. CASE f # d.sidecar[u].file
        <4>1. Resumable(e, u)'
          BY <2>1, ZenonT(60) DEF Sound
        <4>2. d.sidecar[u].file # Nothing
          BY <2>5, UploadAssumption DEF Receipts
        <4> QED
          BY <2>1, <2>5, <3>2, <4>1, <4>2, ZenonT(60) DEF Resumable
      <3> QED
        BY <3>1, <3>2, ZenonT(60)
    <2> QED
      BY <2>1, <2>2, <2>3, <2>4, <2>5, ZenonT(60) DEF Sound, Resumable
  <1> QED
    BY <1>3, <1>4, ZenonT(60) DEF Step

\* A step that changes the contents of the file f of its own transfer.
LEMMA FileSound ==
  ASSUME UploadInv, NEW h \in Helpers, Step(h), live' = live, kept' = kept,
         NEW t \in Transfers, t = helper[h].id, NEW f \in Helpers, helper[f].id = t,
         \A g \in Helpers : g # f => inode'[g] = inode[g],
         \A d \in kept : d.target = f => Whole(inode'[f]) /\ inode'[f].firm = Size,
         \A d \in kept : d.sidecar[t] \in Receipts /\ d.sidecar[t].file = f =>
           /\ inode'[f].firm >= d.sidecar[t].offset
           /\ \A k \in 1..d.sidecar[t].offset : inode'[f].data[k] # "lost"
  PROVE  \A d \in kept' : Sound(d)'
  <1> SUFFICES ASSUME NEW d \in kept PROVE Sound(d)'
    OBVIOUS
  <1>1. Sound(d) /\ \A r \in Receipts : r.file \in Helpers
    BY DEF UploadInv, Receipts
  <1>2. \A g \in Helpers : helper'[g].id = helper[g].id
    BY ZenonT(60) DEF Step, Grows
  <1>3. NamesMade(d)' /\ \A u \in Transfers : Resumable(d, u)'
    BY NamesStay, ResumableStays, ZenonT(60)
  <1>4. Sealed(d)'
    <2> SUFFICES ASSUME d.target \in Helpers PROVE Sealed(d)'
      BY ZenonT(60) DEF Sealed
    <2>1. Whole(inode'[d.target]) /\ inode'[d.target].firm = Size
      BY <1>1, ZenonT(60) DEF Sound, Sealed
    <2> QED
      BY <1>1, <1>2, <2>1, ZenonT(60) DEF Sound, Sealed
  <1>5. ASSUME NEW u \in Transfers, d.sidecar[u] \in Receipts
        PROVE  /\ inode'[d.sidecar[u].file].firm >= d.sidecar[u].offset
               /\ \A k \in 1..d.sidecar[u].offset : inode'[d.sidecar[u].file].data[k] # "lost"
    <2>1. CASE d.sidecar[u].file = f
      <3>1. u = t
        BY <1>1, <1>5, <2>1, ZenonT(60) DEF Sound, NamesMade
      <3> QED
        BY <1>5, <2>1, <3>1, ZenonT(60)
    <2>2. CASE d.sidecar[u].file # f
      BY <1>1, <1>5, <2>2, ZenonT(60) DEF Sound, Vouched
    <2> QED
      BY <2>1, <2>2
  <1>6. \A u \in Transfers : Vouched(d, u)' /\ Advances(d, u)'
    BY <1>1, <1>5, ZenonT(60) DEF Sound, Vouched, Advances
  <1> QED
    BY <1>3, <1>4, <1>6, ZenonT(60) DEF Sound

-------------------------------------------------------------------------------
(* The attempt that takes the step.                                         *)

LEMMA Closes ==
  ASSUME UploadInv, NEW h \in Helpers, Step(h), Own(h)', \A d \in kept' : Sound(d)',
         \A f \in Helpers : inode'[f].firm <= inode'[f].len
  PROVE  UploadInv'
  <1>1. TypeOK' /\ Exclusive'
    BY StepTyped, StepExclusive, ZenonT(60) DEF UploadInv
  <1>2. \A g \in Helpers : Own(g)'
    BY BystanderKept, ZenonT(60)
  <1>3. ASSUME NEW g \in Helpers PROVE Unwritten(g)'
    <2> SUFFICES ASSUME helper'[g].pc \in Unrecorded PROVE Unwritten(g)'
      BY ZenonT(60) DEF Unwritten
    <2>1. helper[g].pc \in Unrecorded
      BY ZenonT(60) DEF Step, Grows
    <2>2. Unwritten(g) /\ inode'[g] = inode[g]
      BY <2>1, ZenonT(60) DEF UploadInv, Step
    <2>3. helper'[g].confirmed = helper[g].confirmed /\ helper'[g].durable = helper[g].durable
          /\ helper'[g].marked = helper[g].marked
      BY ZenonT(60) DEF Step, Grows
    <2> QED
      BY <2>1, <2>2, <2>3, ZenonT(60) DEF Unwritten
  <1> QED
    BY <1>1, <1>2, <1>3, ZenonT(60) DEF UploadInv

\* The attempt h moves to label with the answer code and changes nothing else
\* of itself: what Goto, Answer and Raise do.
MovesTo(h, label, code) ==
  /\ helper' \in [Helpers -> Request]
  /\ \A g \in Helpers : g # h => helper'[g] = helper[g]
  /\ helper'[h].pc = label /\ helper'[h].result = code
  /\ helper'[h].id = helper[h].id /\ helper'[h].intent = helper[h].intent /\ helper'[h].mode = helper[h].mode
  /\ helper'[h].owned = helper[h].owned /\ helper'[h].applied = helper[h].applied
  /\ helper'[h].digest = helper[h].digest /\ helper'[h].confirmed = helper[h].confirmed
  /\ helper'[h].durable = helper[h].durable /\ helper'[h].marked = helper[h].marked

LEMMA MoveMade ==
  ASSUME TypeOK, NEW h \in Helpers, NEW label \in Places, NEW code \in Replies,
         \/ Goto(h, label) /\ code = helper[h].result
         \/ helper' = [helper EXCEPT ![h].pc = label, ![h].result = code]
         \/ helper' = [helper EXCEPT ![h].result = code, ![h].pc = label]
  PROVE  MovesTo(h, label, code)
  <1>1. helper \in [Helpers -> Request] /\ helper[h] \in Request
    BY DEF TypeOK
  <1>2. helper' = [helper EXCEPT ![h] = [helper[h] EXCEPT !.pc = label, !.result = code]]
    BY <1>1, ZenonT(60) DEF Request, Goto
  <1>a. [helper[h] EXCEPT !.pc = label, !.result = code] \in Request
    BY <1>1, ZenonT(60) DEF Request, Places
  <1>b. /\ helper' \in [Helpers -> Request]
        /\ \A g \in Helpers : g # h => helper'[g] = helper[g]
        /\ helper'[h] = [helper[h] EXCEPT !.pc = label, !.result = code]
    BY <1>1, <1>2, <1>a
  <1>3. /\ helper'[h].pc = label /\ helper'[h].result = code
        /\ helper'[h].id = helper[h].id /\ helper'[h].intent = helper[h].intent
        /\ helper'[h].mode = helper[h].mode
        /\ helper'[h].owned = helper[h].owned /\ helper'[h].applied = helper[h].applied
        /\ helper'[h].digest = helper[h].digest /\ helper'[h].confirmed = helper[h].confirmed
        /\ helper'[h].durable = helper[h].durable /\ helper'[h].marked = helper[h].marked
    BY <1>1, <1>b DEF Request
  <1> QED
    BY <1>b, <1>3, ZenonT(60) DEF MovesTo

\* No entry of consequence changes, and no contents.
Quiet ==
  /\ inode' = inode /\ chosen' = chosen
  /\ live' \in Entries /\ SameEntries(live, live') /\ live' \in kept' /\ kept' \subseteq kept \cup {live'}

LEMMA QuietWhenUnchanged ==
  ASSUME TypeOK, UNCHANGED <<live, kept, inode, chosen>>
  PROVE  Quiet
  BY DEF TypeOK, Quiet, SameEntries

LEMMA QuietStep ==
  ASSUME TypeOK, Quiet, NEW h \in Helpers, helper' \in [Helpers -> Request],
         \A g \in Helpers : g # h => helper'[g] = helper[g], Grows(helper[h], helper'[h]),
         helper[h].pc \notin Locked /\ helper'[h].pc \in Locked => ~Held(helper[h].id)
  PROVE  Step(h)
  BY ZenonT(60) DEF TypeOK, Quiet, SameEntries, Step

\* An attempt that ends without a Completed answer leaves nothing of its own
\* to be kept.
LEMMA EndOwn ==
  ASSUME UploadInv, NEW h \in Helpers, Step(h), helper'[h].pc \in {"done", "dead"},
         helper'[h].result # "completed", helper'[h].owned = helper[h].owned
  PROVE  Own(h)'
  <1>1. Own(h) /\ helper[h].owned \in Helpers \cup {Nothing}
    BY DEF UploadInv, TypeOK, Request
  <1>2. helper[h].owned # Nothing =>
          /\ helper'[helper[h].owned].id = helper'[h].id
          /\ helper'[helper[h].owned].pc \notin Unrecorded
    BY <1>1, ZenonT(60) DEF Own, Shape, Step, Grows
  <1>3. Shape(h)'
    BY <1>2 DEF Shape, Unrecorded, Unmade, Recovering, Owning, Committed, Streaming, Cleaning
  <1>4. OnRecord(h)'
    BY DEF OnRecord, Owning, Committed, Streaming, Cleaning
  <1>5. Progress(h)'
    BY DEF Progress, At, Committed, Streaming, Cleaning, Recovering
  <1>6. Settled(h)'
    BY DEF Settled, At, Committed, Recovering
  <1>7. Ready(h)'
    BY DEF Ready, At, Committed, Streaming, Recovering
  <1> QED
    BY <1>3, <1>4, <1>5, <1>6, <1>7, ZenonT(60) DEF Own

LEMMA QuietEnd ==
  ASSUME UploadInv, Quiet, NEW h \in Helpers, NEW label \in {"done", "dead"}, NEW code,
         code # "completed", helper[h].result = "cleanup_incomplete" => code = "cleanup_incomplete",
         MovesTo(h, label, code)
  PROVE  UploadInv'
  <1>1. Grows(helper[h], helper'[h])
    BY DEF Grows, MovesTo, Unrecorded, Unmade
  <1>2. helper'[h].pc \notin Locked
    BY DEF MovesTo, Locked
  <1>3. Step(h)
    BY <1>1, <1>2, QuietStep, ZenonT(60) DEF UploadInv, MovesTo
  <1>4. Own(h)'
    BY <1>3, EndOwn, ZenonT(60) DEF MovesTo
  <1>5. \A d \in kept' : Sound(d)'
    BY <1>3, UnchangedSound, ZenonT(60) DEF Quiet
  <1> QED
    BY <1>3, <1>4, <1>5, Closes, ZenonT(60) DEF UploadInv, Quiet

\* What stays true of the acting attempt in a quiet step.
LEMMA QuietViews ==
  ASSUME UploadInv, Quiet, NEW h \in Helpers, helper'[h].id = helper[h].id
  PROVE  /\ SidecarOf(h)' = SidecarOf(h) /\ PartialOf(h)' = PartialOf(h)
         /\ live'.target = live.target /\ inode' = inode
         /\ \A d \in kept' : \E e \in kept : d.sidecar = e.sidecar /\ d.target = e.target
  <1>1. live \in kept
    BY DEF UploadInv, TypeOK
  <1> QED
    BY <1>1, ZenonT(60) DEF Quiet, SameEntries, SidecarOf, PartialOf

LEMMA OnRecordKept ==
  ASSUME UploadInv, NEW h \in Helpers, helper[h].pc \in Owning,
         helper'[h].id = helper[h].id, helper'[h].owned = helper[h].owned,
         helper'[h].digest = helper[h].digest, helper'[h].confirmed = helper[h].confirmed,
         helper'[h].durable = helper[h].durable, helper'[h].marked = helper[h].marked,
         inode' = inode, SidecarOf(h)' = SidecarOf(h),
         \A d \in kept' : \E e \in kept : d.sidecar = e.sidecar /\ d.target = e.target
  PROVE  OnRecord(h)'
  <1>1. OnRecord(h)
    BY ZenonT(60) DEF UploadInv, Own
  <1>2. ASSUME NEW d \in kept'
        PROVE  /\ d.sidecar[helper[h].id] \in Receipts /\ d.sidecar[helper[h].id].file = helper[h].owned
                    => d.sidecar[helper[h].id].offset <= helper[h].marked
               /\ d.target = helper[h].owned => helper[h].durable = Size
    BY <1>1, ZenonT(60) DEF OnRecord
  <1> QED
    BY <1>1, <1>2, ZenonT(60) DEF OnRecord

LEMMA StillUnexcused ==
  ASSUME UploadInv, NEW h \in Helpers, Step(h), ~(Excused(helper[h].id)')
  PROVE  ~Excused(helper[h].id)
  <1>1. PICK t \in Transfers : t = helper[h].id
    BY DEF UploadInv, TypeOK, Request
  <1>2. ~(Excused(t)')
    BY <1>1, ZenonT(60) DEF Excused, Step, Grows
  <1> QED
    BY <1>1, <1>2, ExcusedStays, ZenonT(60) DEF UploadInv

\* An error before the answer: the attempt ends, or goes to clean up the file
\* it owns.
LEMMA Raised ==
  ASSUME UploadInv, Quiet, NEW h \in Helpers, Raise(h),
         helper[h].pc \in Locked \ ({"sidecar", "write_sidecar", "finish"} \cup Cleaning)
  PROVE  UploadInv'
  <1> DEFINE leaves == helper[h].owned # Nothing /\ ~Preserved(h)
  <1>1. PICK code \in ErrorCodes(h) :
          helper' = [helper EXCEPT ![h].result = code, ![h].pc = IF leaves THEN "cleanup" ELSE "done"]
    BY ZenonT(60) DEF Raise
  <1>2. code \in Replies /\ code # "completed"
    BY DEF ErrorCodes, Replies
  <1>3. TypeOK /\ Own(h) /\ helper[h].result = "none" /\ helper[h] \in Request
    BY DEF UploadInv, TypeOK, Own, Shape, Locked, Cleaning
  <1>4. CASE ~leaves
    <2>1. MovesTo(h, "done", code)
      BY <1>1, <1>2, <1>3, <1>4, MoveMade, ZenonT(60) DEF Places
    <2> QED
      BY <1>2, <1>3, <2>1, QuietEnd
  <1>5. CASE leaves
    <2>1. "cleanup" \in Places
      BY ZenonT(60) DEF Places, Locked
    <2>2. MovesTo(h, "cleanup", code)
      BY <1>1, <1>2, <1>3, <1>5, <2>1, MoveMade, ZenonT(60)
    <2>3. helper[h].pc \in Streaming \cup Committed
      BY <1>3, <1>5 DEF Own, Shape, Locked, Streaming, Committed, Cleaning, Recovering, Unrecorded, Unmade,
                        Preserved, At
    <2>4. Grows(helper[h], helper'[h])
      BY <1>3, <2>2 DEF Grows, MovesTo, Unrecorded, Unmade
    <2>5. Step(h)
      BY <2>2, <2>4, <1>3, QuietStep, ZenonT(60) DEF MovesTo
    <2>6. /\ SidecarOf(h)' = SidecarOf(h) /\ PartialOf(h)' = PartialOf(h)
          /\ live'.target = live.target /\ inode' = inode
          /\ \A d \in kept' : \E e \in kept : d.sidecar = e.sidecar /\ d.target = e.target
      BY <2>2, QuietViews, ZenonT(60) DEF MovesTo
    <2>7. helper[h].owned \in Helpers /\ helper[h].pc \in Owning
      BY <1>3, <1>5, <2>3, ZenonT(60) DEF Request, Owning
    <2>8. Shape(h)'
      <3>1. /\ helper'[helper[h].owned].id = helper[h].id
            /\ helper'[helper[h].owned].pc \notin Unrecorded
        BY <1>3, <2>5, <2>7, <1>5, ZenonT(60) DEF Own, Shape, Step, Grows
      <3> QED
        BY <1>2, <1>5, <2>2, <3>1 DEF MovesTo, Shape, Unrecorded, Unmade, Recovering, Committed, Streaming, Cleaning
    <2>9. OnRecord(h)'
      BY <2>2, <2>6, <2>7, OnRecordKept, ZenonT(60) DEF MovesTo
    <2>10. Progress(h)'
      <3>1. code = "transfer_failed" => live.target # helper[h].owned
        BY <1>3, <2>3 DEF ErrorCodes, Own, Shape, Progress, Streaming, Committed
      <3> QED
        BY <2>2, <2>6, <3>1, ZenonT(60) DEF MovesTo, Progress, At, Committed, Streaming, Recovering
    <2>11. Settled(h)'
      BY <1>2, <2>2, ZenonT(60) DEF MovesTo, Settled, At, Committed, Recovering
    <2>12. Ready(h)'
      <3> SUFFICES ASSUME ~(Excused(helper[h].id)') PROVE Ready(h)'
        BY <2>2, ZenonT(60) DEF Ready, MovesTo
      <3>1. ~Excused(helper[h].id)
        BY <2>5, StillUnexcused, ZenonT(60)
      <3>2. helper[h].applied = "no" => PartialOf(h) = helper[h].owned
        BY <1>3, <2>3, <3>1, ZenonT(60) DEF Own, Ready, Shape
      <3>3. helper[h].applied = "yes" => live.target = helper[h].owned
        BY <1>3, <2>3, <3>1 DEF Own, Ready, Shape
      <3> QED
        BY <2>2, <2>6, <3>2, <3>3 DEF Ready, MovesTo, At, Streaming, Recovering, Committed
    <2>13. \A d \in kept' : Sound(d)'
      BY <2>5, UnchangedSound, ZenonT(60) DEF Quiet
    <2> QED
      BY <2>5, <2>6, <2>8, <2>9, <2>10, <2>11, <2>12, <2>13, Closes, ZenonT(60) DEF UploadInv, Own
  <1> QED
    BY <1>4, <1>5

\* A quiet step keeps the invariant when it keeps the attempt's own part of it.
LEMMA QuietCloses ==
  ASSUME UploadInv, Quiet, NEW h \in Helpers, Step(h), Own(h)'
  PROVE  UploadInv'
  <1>1. \A d \in kept' : Sound(d)'
    BY UnchangedSound, ZenonT(60) DEF Quiet
  <1> QED
    BY <1>1, Closes, ZenonT(60) DEF UploadInv, Quiet

\* On the way to the lock an attempt has nothing yet.
LEMMA EarlyMove ==
  ASSUME UploadInv, Quiet, NEW h \in Helpers, helper' \in [Helpers -> Request],
         \A g \in Helpers : g # h => helper'[g] = helper[g],
         helper[h].pc \in {"idle", "open_lock", "flock"}, helper'[h].pc \in {"open_lock", "flock", "observe"},
         helper'[h].pc = "observe" => ~Held(helper[h].id),
         helper'[h].id = helper[h].id, helper'[h].intent = helper[h].intent, helper'[h].mode = helper[h].mode,
         helper'[h].owned = helper[h].owned, helper'[h].applied = helper[h].applied,
         helper'[h].result = helper[h].result, helper'[h].confirmed = helper[h].confirmed,
         helper'[h].durable = helper[h].durable, helper'[h].marked = helper[h].marked
  PROVE  UploadInv'
  <1>1. Grows(helper[h], helper'[h])
    BY DEF Grows, Unmade, Unrecorded
  <1>2. helper'[h].pc \in Locked => ~Held(helper[h].id)
    BY DEF Locked
  <1>3. Step(h)
    BY <1>1, <1>2, QuietStep, ZenonT(60) DEF UploadInv
  <1>4. Shape(h)
    BY DEF UploadInv, Own
  <1>5. helper[h].owned = Nothing /\ helper[h].applied = "no" /\ helper[h].result = "none"
    BY <1>4, ZenonT(60) DEF Shape, Unrecorded, Unmade, Cleaning
  <1>6. Shape(h)'
    BY <1>5, ZenonT(60) DEF Shape, Unrecorded, Unmade, Recovering, Owning, Committed, Streaming, Cleaning
  <1>7. OnRecord(h)' /\ Progress(h)'
    BY ZenonT(60) DEF OnRecord, Progress, At, Owning, Committed, Streaming, Cleaning, Recovering
  <1>8. Settled(h)' /\ Ready(h)'
    BY <1>5 DEF Settled, Ready, At, Committed, Recovering, Streaming
  <1> QED
    BY <1>3, <1>6, <1>7, <1>8, QuietCloses, ZenonT(60) DEF Own

\* The steps of an attempt after its commit that change no entry.
LEMMA CommittedMove ==
  ASSUME UploadInv, Quiet, NEW h \in Helpers, helper' \in [Helpers -> Request],
         \A g \in Helpers : g # h => helper'[g] = helper[g],
         helper[h].pc \in Committed \cup {"sync_link"}, helper'[h].pc \in Committed,
         helper[h].pc = "sync_link" => kept' = {live'} /\ live.target = helper[h].owned,
         helper'[h].id = helper[h].id, helper'[h].intent = helper[h].intent, helper'[h].mode = helper[h].mode,
         helper'[h].owned = helper[h].owned, helper'[h].applied = "yes", helper'[h].result = helper[h].result,
         helper'[h].digest = helper[h].digest, helper'[h].confirmed = helper[h].confirmed,
         helper'[h].durable = helper[h].durable, helper'[h].marked = helper[h].marked
  PROVE  UploadInv'
  <1>1. TypeOK /\ Own(h) /\ helper[h] \in Request
    BY ZenonT(60) DEF UploadInv, TypeOK
  <1>2. helper[h].result = "none" /\ helper[h].owned \in Helpers /\ helper[h].owned # Nothing
    BY <1>1, UploadAssumption, ZenonT(60) DEF Own, Shape, Request, Committed, Owning, Cleaning
  <1>3. Grows(helper[h], helper'[h])
    BY DEF Grows, Unmade, Unrecorded, Committed
  <1>4. helper[h].pc \in Locked /\ helper[h].pc \in Owning
    BY DEF Locked, Owning, Committed
  <1>5. Step(h)
    BY <1>1, <1>3, <1>4, QuietStep, ZenonT(60)
  <1>6. /\ SidecarOf(h)' = SidecarOf(h) /\ PartialOf(h)' = PartialOf(h)
        /\ live'.target = live.target /\ inode' = inode
        /\ \A d \in kept' : \E e \in kept : d.sidecar = e.sidecar /\ d.target = e.target
    BY QuietViews, ZenonT(60)
  <1>7. Shape(h)'
    <2>1. helper'[helper[h].owned].id = helper[h].id /\ helper'[helper[h].owned].pc \notin Unrecorded
      BY <1>1, <1>2, <1>5, ZenonT(60) DEF Own, Shape, Step, Grows
    <2> QED
      BY <1>2, <2>1 DEF Shape, Unrecorded, Unmade, Recovering, Committed, Streaming, Cleaning
  <1>8. OnRecord(h)'
    BY <1>4, <1>6, OnRecordKept, ZenonT(60)
  <1>9. Progress(h)'
    BY <1>1, <1>6, ZenonT(60) DEF Own, Progress, At, Committed, Streaming, Cleaning, Recovering
  <1>10. Settled(h)'
    <2>1. chosen # "removed" => \A d \in kept' : d.target = helper[h].owned
      BY <1>1, <1>2, <1>6, ZenonT(60) DEF Own, Settled
    <2> QED
      BY <1>2, <2>1 DEF Settled, At, Recovering, Committed, Quiet
  <1>11. Ready(h)'
    <2> SUFFICES ASSUME ~(Excused(helper[h].id)') PROVE Ready(h)'
      BY ZenonT(60) DEF Ready
    <2>1. ~Excused(helper[h].id)
      BY <1>5, StillUnexcused, ZenonT(60)
    <2>2. live.target = helper[h].owned
      BY <1>1, <2>1, ZenonT(60) DEF Own, Ready, Shape, At
    <2> QED
      BY <1>6, <2>2 DEF Ready, At, Streaming, Recovering, Committed
  <1> QED
    BY <1>5, <1>7, <1>8, <1>9, <1>10, <1>11, QuietCloses, ZenonT(60) DEF Own

\* The steps of a recovery that change no entry.
LEMMA RecoveryMove ==
  ASSUME UploadInv, Quiet, NEW h \in Helpers, helper' \in [Helpers -> Request],
         \A g \in Helpers : g # h => helper'[g] = helper[g],
         helper[h].pc \in Recovering \cup {"recover_sync"}, helper'[h].pc \in Recovering,
         helper[h].pc = "recover_sync" => kept' = {live'},
         helper'[h].id = helper[h].id, helper'[h].intent = helper[h].intent, helper'[h].mode = helper[h].mode,
         helper'[h].owned = helper[h].owned, helper'[h].applied = helper[h].applied,
         helper'[h].result = helper[h].result
  PROVE  UploadInv'
  <1>1. TypeOK /\ Own(h) /\ helper[h] \in Request
    BY ZenonT(60) DEF UploadInv, TypeOK
  <1>2. helper[h].result = "none" /\ helper[h].owned = Nothing /\ helper[h].applied = "yes"
    BY <1>1, ZenonT(60) DEF Own, Shape, Recovering, Cleaning
  <1>3. Grows(helper[h], helper'[h])
    BY DEF Grows, Unmade, Unrecorded, Recovering
  <1>4. helper[h].pc \in Locked
    BY DEF Locked, Recovering
  <1>5. Step(h)
    BY <1>1, <1>3, <1>4, QuietStep, ZenonT(60)
  <1>6. /\ SidecarOf(h)' = SidecarOf(h)
        /\ live'.target = live.target
        /\ \A d \in kept' : \E e \in kept : d.sidecar = e.sidecar /\ d.target = e.target
    BY QuietViews, ZenonT(60)
  <1>7. Shape(h)'
    BY <1>2, ZenonT(60) DEF Shape, Unrecorded, Unmade, Recovering, Owning, Committed, Streaming, Cleaning
  <1>8. OnRecord(h)' /\ Progress(h)'
    BY <1>1, <1>6, ZenonT(60) DEF Own, OnRecord, Progress, At, Owning, Committed, Streaming, Cleaning, Recovering
  <1>9. Settled(h)'
    <2>1. chosen # "removed" => \A d \in kept' : d.target \in Helpers
      BY <1>1, <1>6, ZenonT(60) DEF Own, Settled, At
    <2> QED
      BY <1>2, <2>1 DEF Settled, At, Recovering, Quiet
  <1>10. Ready(h)'
    <2> SUFFICES ASSUME ~(Excused(helper[h].id)') PROVE Ready(h)'
      BY ZenonT(60) DEF Ready
    <2>1. ~Excused(helper[h].id)
      BY <1>5, StillUnexcused, ZenonT(60)
    <2>2. live.target = SidecarOf(h).file
      BY <1>1, <2>1, ZenonT(60) DEF Own, Ready
    <2> QED
      BY <1>6, <2>2 DEF Ready, At, Streaming, Recovering, Committed
  <1> QED
    BY <1>5, <1>7, <1>8, <1>9, <1>10, QuietCloses, ZenonT(60) DEF Own

-------------------------------------------------------------------------------
(* The actions that leave the directory's names as they are.                *)

LEMMA BeginKeeps ==
  ASSUME UploadInv, NEW h \in Helpers, Begin(h)
  PROVE  UploadInv'
  <1>1. TypeOK /\ Quiet /\ helper[h].result \in Replies
    BY QuietWhenUnchanged DEF UploadInv, Begin, TypeOK, Request
  <1>2. MovesTo(h, "open_lock", helper[h].result)
    BY <1>1, MoveMade, ZenonT(60) DEF Begin, Places
  <1> QED
    BY <1>1, <1>2, EarlyMove DEF MovesTo, Begin, At

LEMMA OpenLockKeeps ==
  ASSUME UploadInv, NEW h \in Helpers, OpenLock(h)
  PROVE  UploadInv'
  <1>1. TypeOK /\ helper[h] \in Request /\ live \in Entries /\ live \in kept /\ helper[h].pc = "open_lock"
    BY DEF UploadInv, TypeOK, OpenLock, At
  <1>2. helper[h].id \in Transfers /\ helper[h].result \in Replies
    BY <1>1 DEF Request
  <1>3. CASE live.lock[helper[h].id] = Nothing
    <2>1. Quiet
      <3>1. live' = [live EXCEPT !.lock[helper[h].id] = Torn] /\ kept' = kept \cup {live'}
            /\ inode' = inode /\ chosen' = chosen
        BY <1>3, ZenonT(60) DEF OpenLock, Update
      <3>2. live' \in Entries /\ SameEntries(live, live')
        BY <1>1, <1>2, <3>1, LockEntry, ZenonT(60) DEF SameEntries
      <3> QED
        BY <3>1, <3>2 DEF Quiet
    <2> DEFINE r == [helper[h] EXCEPT !.pc = "flock", !.created = "yes"]
    <2>2. helper' = [helper EXCEPT ![h] = r]
      BY <1>1, <1>3, ZenonT(60) DEF OpenLock, Request
    <2>3. r \in Request
      BY <1>1, ZenonT(60) DEF Request
    <2>4. /\ helper' \in [Helpers -> Request] /\ \A g \in Helpers : g # h => helper'[g] = helper[g]
          /\ helper'[h] = r
      BY <1>1, <2>2, <2>3 DEF TypeOK
    <2>5. /\ r.pc = "flock" /\ r.id = helper[h].id /\ r.intent = helper[h].intent /\ r.mode = helper[h].mode
          /\ r.owned = helper[h].owned /\ r.applied = helper[h].applied /\ r.result = helper[h].result
          /\ r.confirmed = helper[h].confirmed /\ r.durable = helper[h].durable /\ r.marked = helper[h].marked
      BY <1>1, ZenonT(60) DEF Request
    <2> QED
      BY <1>1, <2>1, <2>4, <2>5, EarlyMove, ZenonT(60)
  <1>4. CASE live.lock[helper[h].id] # Nothing
    <2>1. Quiet
      BY <1>1, <1>4, QuietWhenUnchanged DEF OpenLock, Untouched
    <2>2. MovesTo(h, "flock", helper[h].result)
      BY <1>1, <1>2, <1>4, MoveMade, ZenonT(60) DEF OpenLock, Places
    <2> QED
      BY <1>1, <2>1, <2>2, EarlyMove DEF MovesTo
  <1> QED
    BY <1>3, <1>4, ZenonT(60)

LEMMA LockBusyKeeps ==
  ASSUME UploadInv, NEW h \in Helpers, LockBusy(h)
  PROVE  UploadInv'
  <1>1. TypeOK /\ Quiet
    BY QuietWhenUnchanged DEF UploadInv, LockBusy
  <1>2. MovesTo(h, "done", "transfer_busy")
    BY <1>1, MoveMade, ZenonT(60) DEF LockBusy, Answer, Places, Replies
  <1>3. helper[h].result = "none"
    BY DEF UploadInv, Own, Shape, LockBusy, At, Cleaning
  <1> QED
    BY <1>1, <1>2, <1>3, QuietEnd

LEMMA WriteLockRecordKeeps ==
  ASSUME UploadInv, NEW h \in Helpers, WriteLockRecord(h)
  PROVE  UploadInv'
  <1>1. TypeOK /\ helper[h] \in Request /\ live \in Entries /\ live \in kept
    BY DEF UploadInv, TypeOK
  <1>2. helper[h].id \in Transfers /\ helper[h].result \in Replies /\ helper[h].intent \in Intents
    BY <1>1 DEF Request
  <1>3. Quiet
    <2>1. live' = [live EXCEPT !.lock[helper[h].id] = helper[h].intent] /\ kept' = {live'}
          /\ inode' = inode /\ chosen' = chosen
      BY ZenonT(60) DEF WriteLockRecord, UpdateSynced
    <2>2. live' \in Entries /\ SameEntries(live, live')
      BY <1>1, <1>2, <2>1, LockEntry, ZenonT(60) DEF SameEntries
    <2> QED
      BY <2>1, <2>2 DEF Quiet
  <1>4. "observe" \in Places
    BY DEF Places, Locked
  <1>5. MovesTo(h, "observe", helper[h].result)
    BY <1>1, <1>2, <1>4, MoveMade, ZenonT(60) DEF WriteLockRecord
  <1> QED
    BY <1>3, <1>5, EarlyMove, ZenonT(60) DEF MovesTo, WriteLockRecord, At

LEMMA CheckLockRecordKeeps ==
  ASSUME UploadInv, NEW h \in Helpers, CheckLockRecord(h)
  PROVE  UploadInv'
  <1>1. TypeOK /\ Quiet /\ helper[h].result \in Replies /\ helper[h].pc = "flock"
    BY QuietWhenUnchanged, ZenonT(60) DEF UploadInv, TypeOK, Request, CheckLockRecord, At
  <1>2. CASE live.lock[helper[h].id] = helper[h].intent
    <2>1. "observe" \in Places
      BY DEF Places, Locked
    <2>2. MovesTo(h, "observe", helper[h].result)
      BY <1>1, <1>2, <2>1, MoveMade, ZenonT(60) DEF CheckLockRecord
    <2> QED
      BY <1>1, <2>2, EarlyMove DEF MovesTo, CheckLockRecord
  <1>3. CASE live.lock[helper[h].id] # helper[h].intent
    <2>1. MovesTo(h, "done", "transfer_failed")
      BY <1>1, <1>3, MoveMade, ZenonT(60) DEF CheckLockRecord, Answer, Places, Replies
    <2>2. helper[h].result = "none"
      BY <1>1 DEF UploadInv, Own, Shape, Cleaning
    <2> QED
      BY <1>1, <2>1, <2>2, QuietEnd
  <1> QED
    BY <1>2, <1>3

LEMMA LockFailsKeeps ==
  ASSUME UploadInv, NEW h \in Helpers, LockFails(h)
  PROVE  UploadInv'
  <1>1. TypeOK /\ Quiet
    BY QuietWhenUnchanged DEF UploadInv, LockFails
  <1>2. MovesTo(h, "done", "transfer_failed")
    BY <1>1, MoveMade, ZenonT(60) DEF LockFails, Answer, Places, Replies
  <1>3. helper[h].result = "none"
    BY DEF UploadInv, Own, Shape, LockFails, Cleaning
  <1> QED
    BY <1>1, <1>2, <1>3, QuietEnd

LEMMA KillKeeps ==
  ASSUME UploadInv, NEW h \in Helpers, Kill(h)
  PROVE  UploadInv'
  <1>1. TypeOK /\ Quiet /\ helper[h].result \in Replies
    BY QuietWhenUnchanged DEF UploadInv, TypeOK, Request, Kill
  <1>2. MovesTo(h, "dead", helper[h].result)
    BY <1>1, MoveMade, ZenonT(60) DEF Kill, Places
  <1>3. helper[h].result # "completed"
    BY DEF UploadInv, Own, Shape, Kill
  <1> QED
    BY <1>1, <1>2, <1>3, QuietEnd, ZenonT(60)

LEMMA ClientGoneKeeps ==
  ASSUME UploadInv, NEW h \in Helpers, ClientGone(h)
  PROVE  UploadInv'
  <1>1. Quiet /\ Raise(h)
    BY QuietWhenUnchanged DEF UploadInv, ClientGone
  <1>2. helper[h].pc \in Locked \ ({"sidecar", "write_sidecar", "finish"} \cup Cleaning)
    BY ZenonT(60) DEF ClientGone, Locked, Cleaning
  <1> QED
    BY <1>1, <1>2, Raised, ZenonT(60)

LEMMA StepFailsKeeps ==
  ASSUME UploadInv, NEW h \in Helpers, StepFails(h)
  PROVE  UploadInv'
  <1>1. Quiet /\ Raise(h)
    BY QuietWhenUnchanged DEF UploadInv, StepFails
  <1>2. helper[h].pc \in Locked \ ({"sidecar", "write_sidecar", "finish"} \cup Cleaning)
    BY DEF StepFails, Cleaning
  <1> QED
    BY <1>1, <1>2, Raised, ZenonT(60)

\* The Completed answer.
LEMMA CompletedMove ==
  ASSUME UploadInv, Quiet, NEW h \in Helpers, helper[h].pc \in {"finish", "recover_ready"},
         MovesTo(h, "done", "completed")
  PROVE  UploadInv'
  <1>1. TypeOK /\ Own(h) /\ helper[h] \in Request
    BY ZenonT(60) DEF UploadInv, TypeOK
  <1>2. helper[h].owned \in Helpers \cup {Nothing} /\ helper[h].result = "none"
    BY <1>1 DEF Own, Shape, Request, Cleaning
  <1>3. Grows(helper[h], helper'[h])
    BY <1>2 DEF Grows, MovesTo, Unrecorded, Unmade
  <1>4. helper'[h].pc \notin Locked
    BY DEF MovesTo, Locked
  <1>5. Step(h)
    BY <1>1, <1>3, <1>4, QuietStep, ZenonT(60) DEF MovesTo
  <1>6. \A d \in kept' : \E e \in kept : d.sidecar = e.sidecar /\ d.target = e.target
    BY QuietViews, ZenonT(60) DEF MovesTo
  <1>7. Shape(h)'
    <2>1. helper[h].owned # Nothing =>
            /\ helper'[helper[h].owned].id = helper[h].id
            /\ helper'[helper[h].owned].pc \notin Unrecorded
      BY <1>1, <1>2, <1>5, ZenonT(60) DEF Own, Shape, Step, Grows
    <2> QED
      BY <2>1, ZenonT(60) DEF MovesTo, Shape, Unrecorded, Unmade, Recovering, Owning, Committed, Streaming, Cleaning
  <1>8. OnRecord(h)' /\ Progress(h)'
    BY ZenonT(60) DEF MovesTo, OnRecord, Progress, At, Owning, Committed, Streaming, Cleaning, Recovering
  <1>9. Ready(h)'
    BY DEF MovesTo, Ready, At, Committed, Streaming, Recovering
  <1>10. Settled(h)'
    <2> SUFFICES ASSUME chosen # "removed", NEW d \in kept'
                 PROVE  d.target \in Helpers /\ (helper[h].owned # Nothing => d.target = helper[h].owned)
      BY DEF MovesTo, Settled, At, Quiet
    <2>1. CASE helper[h].pc = "finish"
      <3>1. helper[h].owned # Nothing /\ helper[h].pc \in Committed
        BY <1>1, <2>1 DEF Own, Shape, Owning, Committed
      <3>2. \A e \in kept : e.target = helper[h].owned
        BY <1>1, <3>1, ZenonT(60) DEF Own, Settled
      <3> QED
        BY <1>2, <1>6, <3>1, <3>2, ZenonT(60)
    <2>2. CASE helper[h].pc = "recover_ready"
      <3>1. helper[h].owned = Nothing /\ helper[h].pc \in Recovering
        BY <1>1, <2>2, ZenonT(60) DEF Own, Shape, Recovering
      <3>2. \A e \in kept : e.target \in Helpers
        BY <1>1, <3>1, ZenonT(60) DEF Own, Settled
      <3> QED
        BY <1>6, <3>1, <3>2, ZenonT(60)
    <2> QED
      BY <2>1, <2>2, ZenonT(60)
  <1> QED
    BY <1>5, <1>7, <1>8, <1>9, <1>10, QuietCloses, ZenonT(60) DEF Own

LEMMA AnswerKeeps ==
  ASSUME UploadInv, NEW h \in Helpers, Finish(h) \/ RecoverCommit(h)
  PROVE  UploadInv'
  <1>1. TypeOK /\ Quiet /\ helper[h].pc \in {"finish", "recover_ready"}
    BY QuietWhenUnchanged, ZenonT(60) DEF UploadInv, Finish, RecoverCommit, At
  <1>2. helper[h].result = "none"
    BY <1>1 DEF UploadInv, Own, Shape, Cleaning
  <1>3. PICK code \in {"completed", "outcome_unknown"} : Answer(h, code)
    BY ZenonT(60) DEF Finish, RecoverCommit
  <1>4. MovesTo(h, "done", code)
    BY <1>1, <1>3, MoveMade, ZenonT(60) DEF Answer, Places, Replies
  <1> QED
    BY <1>1, <1>2, <1>3, <1>4, QuietEnd, CompletedMove, ZenonT(60)

LEMMA SyncLinkKeeps ==
  ASSUME UploadInv, NEW h \in Helpers, SyncLink(h)
  PROVE  UploadInv'
  <1>1. TypeOK /\ helper[h] \in Request /\ live \in kept /\ live \in Entries /\ helper[h].pc = "sync_link"
    BY DEF UploadInv, TypeOK, SyncLink, At
  <1>2. CASE live.target = helper[h].owned
    <2>1. Quiet /\ kept' = {live'}
      BY <1>1, <1>2 DEF SyncLink, UpdateSynced, Quiet, SameEntries
    <2> DEFINE label == IF helper[h].mode = "resume" THEN "receipt" ELSE "remove_partial"
    <2> DEFINE r == [helper[h] EXCEPT !.applied = "yes", !.pc = label]
    <2>2. label \in Committed /\ label \in Locked
      BY DEF Committed, Locked
    <2> HIDE DEF label
    <2>3. helper' = [helper EXCEPT ![h] = r]
      BY <1>1, <1>2 DEF SyncLink, Request, label
    <2>4. r \in Request
      BY <1>1, <2>2, ZenonT(60) DEF Request
    <2>5. /\ helper' \in [Helpers -> Request] /\ \A g \in Helpers : g # h => helper'[g] = helper[g]
          /\ helper'[h] = r
      BY <1>1, <2>3, <2>4 DEF TypeOK
    <2>6. /\ helper'[h].pc = label /\ helper'[h].id = helper[h].id /\ helper'[h].intent = helper[h].intent
          /\ helper'[h].mode = helper[h].mode /\ helper'[h].owned = helper[h].owned
          /\ helper'[h].applied = "yes" /\ helper'[h].result = helper[h].result
          /\ helper'[h].digest = helper[h].digest /\ helper'[h].confirmed = helper[h].confirmed
          /\ helper'[h].durable = helper[h].durable /\ helper'[h].marked = helper[h].marked
      BY <1>1, <2>5 DEF Request
    <2>7. helper[h].pc \in Committed \cup {"sync_link"}
      BY <1>1, ZenonT(60)
    <2> HIDE DEF r
    <2> QED
      BY <1>2, <2>1, <2>2, <2>5, <2>6, <2>7, CommittedMove, ZenonT(60)
  <1>3. CASE live.target # helper[h].owned
    <2>1. Quiet /\ Raise(h)
      BY <1>1, <1>3, QuietWhenUnchanged, ZenonT(60) DEF SyncLink, Untouched
    <2> QED
      BY <1>1, <2>1, Raised DEF Locked, Cleaning
  <1> QED
    BY <1>2, <1>3

LEMMA CommittedSyncKeeps ==
  ASSUME UploadInv, NEW h \in Helpers, SyncPartial(h) \/ SyncSidecar(h)
  PROVE  UploadInv'
  <1>1. TypeOK /\ helper[h].result \in Replies /\ live \in kept /\ live \in Entries
        /\ helper[h].pc \in {"sync_partial", "sync_sidecar"}
    BY DEF UploadInv, TypeOK, Request, SyncPartial, SyncSidecar, At
  <1>2. Quiet
    BY <1>1 DEF SyncPartial, SyncSidecar, UpdateSynced, Quiet, SameEntries
  <1>3. PICK label \in {"finish", "remove_sidecar"} : Goto(h, label)
    BY ZenonT(60) DEF SyncPartial, SyncSidecar
  <1>4. label \in Places /\ label \in Committed
    BY <1>3 DEF Places, Locked, Committed
  <1>5. MovesTo(h, label, helper[h].result)
    BY <1>1, <1>3, <1>4, MoveMade, ZenonT(60)
  <1>6. helper[h].applied = "yes" /\ helper[h].pc \in Committed /\ helper[h].pc # "sync_link"
    BY <1>1 DEF UploadInv, Own, Shape, Committed
  <1> QED
    BY <1>2, <1>4, <1>5, <1>6, CommittedMove, ZenonT(60) DEF MovesTo

LEMMA RecoverSyncKeeps ==
  ASSUME UploadInv, NEW h \in Helpers, RecoverSync(h) \/ RecoverSyncPartial(h)
  PROVE  UploadInv'
  <1>1. TypeOK /\ helper[h].result \in Replies /\ live \in kept /\ live \in Entries
        /\ helper[h].pc \in {"recover_sync", "recover_sync_partial"}
    BY DEF UploadInv, TypeOK, Request, RecoverSync, RecoverSyncPartial, At
  <1>2. Quiet /\ kept' = {live'}
    BY <1>1 DEF RecoverSync, RecoverSyncPartial, UpdateSynced, Quiet, SameEntries
  <1>3. PICK label \in {"recover_receipt", "recover_ready"} : Goto(h, label)
    BY ZenonT(60) DEF RecoverSync, RecoverSyncPartial
  <1>4. label \in Places /\ label \in Recovering
    BY <1>3, ZenonT(60) DEF Places, Locked, Recovering
  <1>5. MovesTo(h, label, helper[h].result)
    BY <1>1, <1>3, <1>4, MoveMade, ZenonT(60)
  <1>6. helper[h].pc \in Recovering \cup {"recover_sync"}
    BY <1>1 DEF Recovering
  <1> QED
    BY <1>2, <1>4, <1>5, <1>6, RecoveryMove, ZenonT(60) DEF MovesTo

LEMMA ObserveTargetKeeps ==
  ASSUME UploadInv, NEW h \in Helpers, ObserveTarget(h)
  PROVE  UploadInv'
  <1>1. TypeOK /\ Quiet /\ helper[h] \in Request /\ helper[h].pc = "observe" /\ Own(h)
    BY QuietWhenUnchanged, ZenonT(60) DEF UploadInv, TypeOK, ObserveTarget, At
  <1>2. helper[h].result = "none" /\ helper[h].owned = Nothing
    BY <1>1 DEF Own, Shape, Unrecorded, Unmade, Cleaning
  <1>3. CASE ~Recoverable(h)
    <2>1. MovesTo(h, "done", "transfer_failed")
      BY <1>1, <1>3, MoveMade, ZenonT(60) DEF ObserveTarget, Answer, Places, Replies
    <2> QED
      BY <1>1, <1>2, <2>1, QuietEnd
  <1>4. CASE Recoverable(h)
    <2> DEFINE r == [helper[h] EXCEPT !.pc = "recover_sync", !.applied = "yes"]
    <2>1. helper' = [helper EXCEPT ![h] = r]
      BY <1>1, <1>4, ZenonT(60) DEF ObserveTarget, Request
    <2>2. r \in Request
      BY <1>1, ZenonT(60) DEF Request, Locked
    <2>3. /\ helper' \in [Helpers -> Request] /\ \A g \in Helpers : g # h => helper'[g] = helper[g]
          /\ helper'[h] = r
      BY <1>1, <2>1, <2>2 DEF TypeOK
    <2>4. /\ helper'[h].pc = "recover_sync" /\ helper'[h].id = helper[h].id
          /\ helper'[h].intent = helper[h].intent /\ helper'[h].mode = helper[h].mode
          /\ helper'[h].owned = Nothing /\ helper'[h].applied = "yes" /\ helper'[h].result = "none"
      BY <1>1, <1>2, <2>3, ZenonT(60) DEF Request
    <2> HIDE DEF r
    <2>5. Grows(helper[h], helper'[h]) /\ helper[h].pc \in Locked
      BY <1>1, <1>2, <2>4 DEF Grows, Unmade, Unrecorded, Locked
    <2>6. Step(h)
      BY <1>1, <2>3, <2>5, QuietStep, ZenonT(60)
    <2>7. SidecarOf(h)' = SidecarOf(h) /\ live'.target = live.target
      BY <1>1, <2>4, QuietViews, ZenonT(60)
    <2>8. live.target \in Helpers /\ SidecarOf(h) \in Receipts /\ SidecarOf(h).offset = Size
          /\ SidecarOf(h).file = live.target
      BY <1>4, ZenonT(60) DEF Recoverable, Validates
    <2>9. Shape(h)'
      BY <2>4, ZenonT(60) DEF Shape, Unrecorded, Unmade, Recovering, Owning, Committed, Streaming, Cleaning
    <2>10. OnRecord(h)' /\ Progress(h)'
      BY <2>4, <2>7, <2>8, ZenonT(60) DEF OnRecord, Progress, At, Owning, Committed, Streaming, Cleaning
    <2>11. Settled(h)' /\ Ready(h)'
      BY <2>4, <2>7, <2>8 DEF Settled, Ready, At, Committed, Recovering, Streaming
    <2> QED
      BY <1>1, <2>6, <2>9, <2>10, <2>11, QuietCloses, ZenonT(60) DEF Own
  <1> QED
    BY <1>3, <1>4

\* An attempt that goes on streaming into its file.
LEMMA StreamingOwn ==
  ASSUME UploadInv, NEW h \in Helpers, Step(h), helper[h].pc \in Streaming, helper'[h].pc \in Streaming,
         helper'[h].owned = helper[h].owned, helper'[h].applied = helper[h].applied,
         helper'[h].result = helper[h].result, PartialOf(h)' = PartialOf(h), OnRecord(h)', Progress(h)'
  PROVE  Own(h)'
  <1>1. Own(h) /\ helper[h].owned \in Helpers \cup {Nothing} /\ helper'[h].id = helper[h].id
    BY ZenonT(60) DEF UploadInv, TypeOK, Request, Step, Grows
  <1>2. helper[h].owned # Nothing /\ helper[h].applied = "no" /\ helper[h].result = "none"
    BY <1>1 DEF Own, Shape, Owning, Streaming, Cleaning
  <1>3. helper'[helper[h].owned].id = helper[h].id /\ helper'[helper[h].owned].pc \notin Unrecorded
    BY <1>1, <1>2, ZenonT(60) DEF Own, Shape, Step, Grows
  <1>4. Shape(h)'
    BY <1>1, <1>2, <1>3, ZenonT(60) DEF Shape, Unrecorded, Unmade, Recovering, Committed, Streaming, Cleaning
  <1>5. Settled(h)'
    BY <1>2, ZenonT(60) DEF Settled, At, Committed, Recovering, Streaming
  <1>6. Ready(h)'
    <2> SUFFICES ASSUME ~(Excused(helper[h].id)') PROVE Ready(h)'
      BY <1>1, ZenonT(60) DEF Ready
    <2>1. ~Excused(helper[h].id)
      BY StillUnexcused, ZenonT(60)
    <2>2. PartialOf(h) = helper[h].owned
      BY <1>1, <1>2, <2>1, ZenonT(60) DEF Own, Ready
    <2> QED
      BY <1>2, <2>2 DEF Ready, At, Streaming, Recovering, Committed
  <1> QED
    BY <1>4, <1>5, <1>6, ZenonT(60) DEF Own

LEMMA StreamingMove ==
  ASSUME UploadInv, Quiet, NEW h \in Helpers, NEW label \in Streaming, helper[h].pc \in Streaming,
         Goto(h, label),
         label = "sync_all" => helper[h].confirmed = Size /\ helper[h].digest = "right",
         label = "link" => helper[h].pc = "verify" /\ Whole(inode[helper[h].owned]),
         label \in {"sync_all", "link"}
  PROVE  UploadInv'
  <1>1. TypeOK /\ Own(h) /\ helper[h].result \in Replies /\ helper[h].pc \in Locked /\ helper[h].pc \in Owning
    BY ZenonT(60) DEF UploadInv, TypeOK, Request, Streaming, Owning, Locked
  <1>2. label \in Places
    BY DEF Places, Streaming, Locked
  <1>3. MovesTo(h, label, helper[h].result)
    BY <1>1, <1>2, MoveMade, ZenonT(60)
  <1>4. Grows(helper[h], helper'[h])
    BY <1>3 DEF Grows, MovesTo, Unmade, Unrecorded, Streaming
  <1>5. Step(h)
    BY <1>1, <1>3, <1>4, QuietStep, ZenonT(60) DEF MovesTo
  <1>6. /\ SidecarOf(h)' = SidecarOf(h) /\ PartialOf(h)' = PartialOf(h)
        /\ live'.target = live.target /\ inode' = inode
        /\ \A d \in kept' : \E e \in kept : d.sidecar = e.sidecar /\ d.target = e.target
    BY <1>3, QuietViews, ZenonT(60) DEF MovesTo
  <1>7. OnRecord(h)'
    BY <1>1, <1>3, <1>6, OnRecordKept, ZenonT(60) DEF MovesTo
  <1>8. Progress(h)'
    BY <1>1, <1>3, <1>6, ZenonT(60) DEF Own, MovesTo, Progress, At, Committed, Recovering, Cleaning, Streaming
  <1>9. Own(h)'
    BY <1>3, <1>5, <1>6, <1>7, <1>8, StreamingOwn, ZenonT(60) DEF MovesTo
  <1> QED
    BY <1>5, <1>9, QuietCloses, ZenonT(60)

LEMMA ReceiveCommitKeeps ==
  ASSUME UploadInv, NEW h \in Helpers, ReceiveCommit(h)
  PROVE  UploadInv'
  <1>1. Quiet /\ helper[h].pc = "receive"
    BY QuietWhenUnchanged DEF UploadInv, ReceiveCommit, At
  <1>2. CASE helper[h].confirmed = Size /\ helper[h].digest = "right"
    <2>1. Goto(h, "sync_all")
      BY <1>2, ZenonT(60) DEF ReceiveCommit
    <2> QED
      BY <1>1, <1>2, <2>1, StreamingMove, ZenonT(60) DEF Streaming
  <1>3. CASE ~(helper[h].confirmed = Size /\ helper[h].digest = "right")
    <2>1. Raise(h)
      BY <1>3, ZenonT(60) DEF ReceiveCommit
    <2> QED
      BY <1>1, <2>1, Raised DEF Locked, Cleaning
  <1> QED
    BY <1>2, <1>3, ZenonT(60)

LEMMA VerifyOnDiskKeeps ==
  ASSUME UploadInv, NEW h \in Helpers, VerifyOnDisk(h)
  PROVE  UploadInv'
  <1>1. Quiet /\ helper[h].pc = "verify"
    BY QuietWhenUnchanged, ZenonT(60) DEF UploadInv, VerifyOnDisk, At
  <1>2. CASE Whole(inode[helper[h].owned])
    <2>1. Goto(h, "link")
      BY <1>2, ZenonT(60) DEF VerifyOnDisk
    <2> QED
      BY <1>1, <1>2, <2>1, StreamingMove, ZenonT(60) DEF Streaming
  <1>3. CASE ~Whole(inode[helper[h].owned])
    <2>1. Raise(h)
      BY <1>3, ZenonT(60) DEF VerifyOnDisk
    <2> QED
      BY <1>1, <2>1, Raised DEF Locked, Cleaning
  <1> QED
    BY <1>2, <1>3, ZenonT(60)

\* A step that changes the contents of one file of the attempt's transfer.
LEMMA FileStep ==
  ASSUME TypeOK, live' = live, kept' = kept, chosen' = chosen, NEW h \in Helpers,
         helper' \in [Helpers -> Request], \A g \in Helpers : g # h => helper'[g] = helper[g],
         Grows(helper[h], helper'[h]), helper[h].pc \in Locked,
         NEW f \in Helpers, helper[f].id = helper[h].id, helper[f].pc \notin Unrecorded,
         inode' \in [Helpers -> Contents], \A g \in Helpers : g # f => inode'[g] = inode[g]
  PROVE  Step(h)
  BY ZenonT(60) DEF TypeOK, Step

\* What an attempt that owns a file knows of it.
LEMMA OwnedFacts ==
  ASSUME UploadInv, NEW h \in Helpers, helper[h].pc \in Owning
  PROVE  /\ helper[h].owned \in Helpers /\ helper[h].owned # Nothing
         /\ helper[helper[h].owned].id = helper[h].id /\ helper[helper[h].owned].pc \notin Unrecorded
         /\ helper[h].id \in Transfers /\ inode[helper[h].owned] \in Contents
         /\ inode[helper[h].owned].firm <= inode[helper[h].owned].len
         /\ helper[h].confirmed \in 0..Size /\ helper[h].durable \in 0..Size /\ helper[h].marked \in 0..Size
  BY UploadAssumption DEF UploadInv, TypeOK, Request, Own, Shape

LEMMA ReceiveDataKeeps ==
  ASSUME UploadInv, NEW h \in Helpers, ReceiveData(h)
  PROVE  UploadInv'
  <1> DEFINE f == helper[h].owned
             next == helper[h].confirmed + 1
             c == inode[f]
  <1>1. TypeOK /\ Own(h) /\ helper[h] \in Request /\ helper[h].pc = "receive" /\ helper[h].confirmed < Size
        /\ live' = live /\ kept' = kept /\ chosen' = chosen
    BY ZenonT(60) DEF UploadInv, TypeOK, ReceiveData, At
  <1>2. helper[h].pc \in Owning /\ helper[h].pc \in Locked /\ helper[h].pc \in Streaming
    BY <1>1, ZenonT(60) DEF Owning, Streaming, Locked
  <1>3. /\ f \in Helpers /\ f # Nothing /\ helper[f].id = helper[h].id /\ helper[f].pc \notin Unrecorded
        /\ helper[h].id \in Transfers
        /\ c \in Contents /\ c.firm <= c.len /\ helper[h].confirmed \in 0..Size
        /\ helper[h].durable \in 0..Size /\ helper[h].marked \in 0..Size
    BY <1>2, OwnedFacts, ZenonT(60)
  <1>4. next \in 1..Size /\ next \in 0..Size /\ Size \in Nat
    BY <1>1, <1>3, UploadAssumption
  <1>5. PICK b \in {"right", "wrong"}, chunk \in {"right", "wrong", "failed"} :
          /\ inode' = [inode EXCEPT ![f].data[next] = chunk, ![f].len = next]
          /\ helper' = [helper EXCEPT ![h].confirmed = next,
                                      ![h].digest = IF b = "right" THEN @ ELSE "wrong",
                                      ![h].pc = IF next - helper[h].durable >= helper[h].window THEN "sync_window" ELSE "receive"]
    BY ZenonT(60) DEF ReceiveData
  <1> HIDE DEF next
  <1> DEFINE label == IF next - helper[h].durable >= helper[h].window THEN "sync_window" ELSE "receive"
             digest == IF b = "right" THEN helper[h].digest ELSE "wrong"
             r == [helper[h] EXCEPT !.confirmed = next, !.digest = digest, !.pc = label]
             e == [c EXCEPT !.data[next] = chunk, !.len = next]
  <1>6. label \in {"sync_window", "receive"} /\ digest \in {"right", "wrong"}
    BY <1>1, ZenonT(60) DEF Request
  <1>7. label \in Locked /\ label \in Streaming
    BY <1>6 DEF Locked, Streaming
  <1>8. helper' = [helper EXCEPT ![h] = r]
    BY <1>1, <1>5, ZenonT(60) DEF Request
  <1> HIDE DEF label, digest
  <1>9. r \in Request
    BY <1>1, <1>4, <1>6, <1>7, ZenonT(60) DEF Request
  <1>10. helper' \in [Helpers -> Request] /\ (\A g \in Helpers : g # h => helper'[g] = helper[g]) /\ helper'[h] = r
    BY <1>1, <1>8, <1>9 DEF TypeOK
  <1>11. /\ helper'[h].pc = label /\ helper'[h].id = helper[h].id /\ helper'[h].intent = helper[h].intent
         /\ helper'[h].mode = helper[h].mode /\ helper'[h].owned = f /\ helper'[h].applied = helper[h].applied
         /\ helper'[h].result = helper[h].result /\ helper'[h].digest = digest
         /\ helper'[h].confirmed = next /\ helper'[h].durable = helper[h].durable
         /\ helper'[h].marked = helper[h].marked
    BY <1>1, <1>10 DEF Request
  <1>12. inode' = [inode EXCEPT ![f] = e]
    BY <1>1, <1>3, <1>5, ZenonT(60) DEF TypeOK
  <1>13. e \in Contents /\ e.len = next /\ e.firm = c.firm
         /\ \A k \in 1..Size : e.data[k] = IF k = next THEN chunk ELSE c.data[k]
    <2> DEFINE data == [c.data EXCEPT ![next] = chunk]
    <2>1. c.data \in [1..Size -> {"right", "wrong", "lost", "failed", "zeros"}] /\ c.firm \in 0..Size
      BY <1>3, ZenonT(60) DEF Contents
    <2>2. data \in [1..Size -> {"right", "wrong", "lost", "failed", "zeros"}]
          /\ \A k \in 1..Size : data[k] = IF k = next THEN chunk ELSE c.data[k]
      BY <1>4, <1>5, <2>1
    <2>3. e = [c EXCEPT !.data = data, !.len = next]
      BY <1>3, ZenonT(60) DEF Contents
    <2> HIDE DEF data
    <2> QED
      BY <1>3, <1>4, <2>1, <2>2, <2>3, ZenonT(60) DEF Contents
  <1>14. /\ inode' \in [Helpers -> Contents] /\ inode'[f] = e
         /\ \A g \in Helpers : g # f => inode'[g] = inode[g]
    BY <1>1, <1>3, <1>12, <1>13, ZenonT(60) DEF TypeOK
  <1> HIDE DEF r, e
  <1>15. Grows(helper[h], helper'[h])
    BY <1>1, <1>6, <1>11, ZenonT(60) DEF Grows, Unmade, Unrecorded
  <1>16. Step(h)
    BY <1>1, <1>2, <1>3, <1>10, <1>14, <1>15, FileStep, ZenonT(60)
  <1>17. /\ helper[h].marked <= helper[h].durable /\ helper[h].durable <= helper[h].confirmed
         /\ helper[h].durable <= c.firm /\ c.len = helper[h].confirmed
         /\ \A k \in 1..helper[h].confirmed : c.data[k] # "lost"
         /\ \A d \in kept :
              /\ d.sidecar[helper[h].id] \in Receipts /\ d.sidecar[helper[h].id].file = f
                   => d.sidecar[helper[h].id].offset <= helper[h].marked
              /\ d.target = f => helper[h].durable = Size
         /\ SidecarOf(h) \in Receipts => SidecarOf(h).file = f
    BY <1>1, <1>2, ZenonT(60) DEF Own, OnRecord
  <1>18. SidecarOf(h)' = SidecarOf(h) /\ PartialOf(h)' = PartialOf(h)
    BY <1>1, <1>11, ZenonT(60) DEF SidecarOf, PartialOf
  <1>19. OnRecord(h)'
    <2>1. helper[h].durable <= next /\ helper[h].durable <= e.firm /\ e.len = next
      <3>1. helper[h].durable <= helper[h].confirmed /\ e.firm = c.firm /\ helper[h].durable <= c.firm /\ e.len = next
        BY <1>13, <1>17, ZenonT(60)
      <3>2. helper[h].durable \in 0..Size /\ helper[h].confirmed \in 0..Size
        BY <1>3, ZenonT(60)
      <3> QED
        BY <3>1, <3>2, UploadAssumption DEF next
    <2>2. ASSUME NEW k \in 1..next PROVE e.data[k] # "lost"
      <3>1. k \in 1..Size /\ (k # next => k \in 1..helper[h].confirmed)
        BY <1>3, <1>4 DEF next
      <3> QED
        BY <1>5, <1>6, <1>13, <1>17, <3>1, ZenonT(60)
    <2> QED
      BY <1>1, <1>11, <1>14, <1>17, <1>18, <2>1, <2>2, ZenonT(60) DEF OnRecord
  <1>20. Progress(h)'
    BY <1>1, <1>2, <1>6, <1>11, ZenonT(60) DEF Own, Progress, At, Committed, Recovering, Cleaning
  <1>21. Own(h)'
    BY <1>2, <1>7, <1>11, <1>16, <1>18, <1>19, <1>20, StreamingOwn, ZenonT(60)
  <1>22. ASSUME NEW d \in kept
         PROVE  /\ d.target # f
                /\ d.sidecar[helper[h].id] \in Receipts /\ d.sidecar[helper[h].id].file = f =>
                     /\ inode'[f].firm >= d.sidecar[helper[h].id].offset
                     /\ \A k \in 1..d.sidecar[helper[h].id].offset : inode'[f].data[k] # "lost"
    <2>1. d.target # f
      <3>1. /\ d.target = f => helper[h].durable = Size
            /\ helper[h].durable <= helper[h].confirmed /\ helper[h].confirmed < Size
            /\ helper[h].confirmed \in 0..Size /\ Size \in Nat
        BY <1>1, <1>3, <1>4, <1>17, ZenonT(60)
      <3> QED
        BY <3>1
    <2>2. ASSUME d.sidecar[helper[h].id] \in Receipts, d.sidecar[helper[h].id].file = f
          PROVE  /\ e.firm >= d.sidecar[helper[h].id].offset
                 /\ \A k \in 1..d.sidecar[helper[h].id].offset : e.data[k] # "lost"
      <3>1. Vouched(d, helper[h].id) /\ d.sidecar[helper[h].id].offset \in 0..Size
        BY <1>3, <2>2 DEF UploadInv, Sound, Receipts
      <3>2. c.firm >= d.sidecar[helper[h].id].offset
            /\ \A k \in 1..d.sidecar[helper[h].id].offset : c.data[k] # "lost"
        BY <2>2, <3>1, ZenonT(60) DEF Vouched
      <3>3. \A k \in 1..d.sidecar[helper[h].id].offset : k \in 1..Size
        BY <1>4, <3>1
      <3>4. chunk # "lost"
        BY <1>5
      <3> QED
        BY <1>13, <3>2, <3>3, <3>4, ZenonT(60)
    <2> QED
      BY <1>14, <2>1, <2>2, ZenonT(60)
  <1>23. \A d \in kept' : Sound(d)'
    <2>1. live' = live /\ kept' = kept /\ f \in Helpers /\ helper[f].id = helper[h].id /\ helper[h].id \in Transfers
      BY <1>1, <1>3, ZenonT(60)
    <2> QED
      BY <2>1, <1>14, <1>16, <1>22, FileSound, ZenonT(60)
  <1>24. \A g \in Helpers : inode'[g].firm <= inode'[g].len
    <2>1. e.firm <= e.len
      <3>1. e.firm = c.firm /\ e.len = next /\ c.firm <= c.len /\ c.len = helper[h].confirmed
        BY <1>3, <1>13, <1>17, ZenonT(60)
      <3>2. helper[h].confirmed \in 0..Size /\ c.firm \in 0..Size /\ c.len \in 0..Size
        BY <1>3 DEF Contents
      <3> QED
        BY <3>1, <3>2, UploadAssumption DEF next
    <2> QED
      BY <1>14, <2>1, ZenonT(60) DEF UploadInv
  <1> QED
    BY <1>16, <1>21, <1>23, <1>24, Closes, ZenonT(60)

LEMMA SyncKeeps ==
  ASSUME UploadInv, NEW h \in Helpers, SyncWindow(h) \/ SyncAll(h)
  PROVE  UploadInv'
  <1> DEFINE f == helper[h].owned
             c == inode[f]
             e == [c EXCEPT !.firm = c.len]
  <1>1. TypeOK /\ Own(h) /\ helper[h] \in Request /\ helper[h].pc \in {"sync_window", "sync_all"}
        /\ live' = live /\ kept' = kept /\ chosen' = chosen
    BY DEF UploadInv, TypeOK, SyncWindow, SyncAll, At
  <1>2. helper[h].pc \in Owning /\ helper[h].pc \in Locked /\ helper[h].pc \in Streaming
    BY <1>1 DEF Owning, Streaming, Locked
  <1>3. /\ f \in Helpers /\ f # Nothing /\ helper[f].id = helper[h].id /\ helper[f].pc \notin Unrecorded
        /\ helper[h].id \in Transfers
        /\ c \in Contents /\ c.firm <= c.len /\ helper[h].confirmed \in 0..Size
        /\ helper[h].durable \in 0..Size /\ helper[h].marked \in 0..Size
    BY <1>2, OwnedFacts, ZenonT(60)
  <1>4. /\ helper[h].marked <= helper[h].durable /\ helper[h].durable <= helper[h].confirmed
        /\ helper[h].durable <= c.firm /\ c.len = helper[h].confirmed
        /\ \A k \in 1..helper[h].confirmed : c.data[k] # "lost"
        /\ \A d \in kept :
             /\ d.sidecar[helper[h].id] \in Receipts /\ d.sidecar[helper[h].id].file = f
                  => d.sidecar[helper[h].id].offset <= helper[h].marked
             /\ d.target = f => helper[h].durable = Size
        /\ SidecarOf(h) \in Receipts => SidecarOf(h).file = f
    BY <1>1, <1>2, ZenonT(60) DEF Own, OnRecord
  <1>5. At(h, "sync_all") => helper[h].confirmed = Size
    BY <1>1, ZenonT(60) DEF Own, Progress
  <1>6. PICK label \in {"mark_window", "mark_full"} :
          /\ helper' = [helper EXCEPT ![h].pc = label, ![h].durable = helper[h].confirmed]
          /\ label = "mark_full" => helper[h].confirmed = Size
    BY <1>5 DEF SyncWindow, SyncAll
  <1> DEFINE r == [helper[h] EXCEPT !.pc = label, !.durable = helper[h].confirmed]
  <1>7. label \in Locked /\ label \in Streaming
    BY <1>6 DEF Locked, Streaming
  <1>8. helper' = [helper EXCEPT ![h] = r]
    BY <1>1, <1>6, ZenonT(60) DEF Request
  <1>9. r \in Request
    BY <1>1, <1>3, <1>7, ZenonT(60) DEF Request
  <1>10. helper' \in [Helpers -> Request] /\ (\A g \in Helpers : g # h => helper'[g] = helper[g]) /\ helper'[h] = r
    BY <1>1, <1>8, <1>9 DEF TypeOK
  <1>11. /\ helper'[h].pc = label /\ helper'[h].id = helper[h].id /\ helper'[h].intent = helper[h].intent
         /\ helper'[h].mode = helper[h].mode /\ helper'[h].owned = f /\ helper'[h].applied = helper[h].applied
         /\ helper'[h].result = helper[h].result /\ helper'[h].digest = helper[h].digest
         /\ helper'[h].confirmed = helper[h].confirmed /\ helper'[h].durable = helper[h].confirmed
         /\ helper'[h].marked = helper[h].marked
    BY <1>1, <1>10 DEF Request
  <1>12. inode' = [inode EXCEPT ![f] = e]
    BY <1>1, <1>3 DEF TypeOK, SyncWindow, SyncAll
  <1>13. e \in Contents /\ e.len = c.len /\ e.firm = c.len /\ e.data = c.data
    BY <1>3 DEF Contents
  <1>14. /\ inode' \in [Helpers -> Contents] /\ inode'[f] = e
         /\ \A g \in Helpers : g # f => inode'[g] = inode[g]
    BY <1>1, <1>3, <1>12, <1>13 DEF TypeOK
  <1> HIDE DEF r, e
  <1>15. Grows(helper[h], helper'[h])
    BY <1>1, <1>6, <1>11 DEF Grows, Unmade, Unrecorded
  <1>16. Step(h)
    BY <1>1, <1>2, <1>3, <1>10, <1>14, <1>15, FileStep, ZenonT(60)
  <1>18. SidecarOf(h)' = SidecarOf(h) /\ PartialOf(h)' = PartialOf(h)
    BY <1>1, <1>11, ZenonT(60) DEF SidecarOf, PartialOf
  <1>19. OnRecord(h)'
    <2>1. helper[h].marked <= helper[h].confirmed /\ helper[h].confirmed <= helper[h].confirmed
          /\ helper[h].confirmed <= e.firm /\ e.len = helper[h].confirmed
      <3>1. helper[h].marked <= helper[h].durable /\ helper[h].durable <= helper[h].confirmed
            /\ e.firm = helper[h].confirmed /\ e.len = helper[h].confirmed
        BY <1>4, <1>13, ZenonT(60)
      <3>2. helper[h].marked \in 0..Size /\ helper[h].durable \in 0..Size /\ helper[h].confirmed \in 0..Size
        BY <1>3, ZenonT(60)
      <3> QED
        BY <3>1, <3>2, UploadAssumption
    <2>2. ASSUME NEW d \in kept, d.target = f PROVE helper[h].confirmed = Size
      <3>1. helper[h].durable = Size /\ helper[h].durable <= helper[h].confirmed
        BY <1>4, <2>2, ZenonT(60)
      <3>2. helper[h].confirmed \in 0..Size
        BY <1>3, ZenonT(60)
      <3> QED
        BY <3>1, <3>2, UploadAssumption
    <2> QED
      BY <1>1, <1>4, <1>11, <1>13, <1>14, <1>18, <2>1, <2>2, ZenonT(60) DEF OnRecord
  <1>20. Progress(h)'
    <2>1. label = "mark_full" => e.firm = Size
      BY <1>4, <1>6, <1>13
    <2> QED
      BY <1>1, <1>2, <1>6, <1>11, <1>14, <2>1, ZenonT(60) DEF Own, Progress, At, Committed, Recovering, Cleaning
  <1>21. Own(h)'
    BY <1>2, <1>7, <1>11, <1>16, <1>18, <1>19, <1>20, StreamingOwn, ZenonT(60)
  <1>22. ASSUME NEW d \in kept
         PROVE  /\ d.target = f => Whole(inode'[f]) /\ inode'[f].firm = Size
                /\ d.sidecar[helper[h].id] \in Receipts /\ d.sidecar[helper[h].id].file = f =>
                     /\ inode'[f].firm >= d.sidecar[helper[h].id].offset
                     /\ \A k \in 1..d.sidecar[helper[h].id].offset : inode'[f].data[k] # "lost"
    <2>1. d.target = f => Whole(e) /\ e.firm = Size
      <3>1. d.target = f => Whole(c)
        BY <1>3, ZenonT(60) DEF UploadInv, Sound, Sealed
      <3> QED
        BY <1>13, <3>1 DEF Whole
    <2>2. ASSUME d.sidecar[helper[h].id] \in Receipts, d.sidecar[helper[h].id].file = f
          PROVE  /\ e.firm >= d.sidecar[helper[h].id].offset
                 /\ \A k \in 1..d.sidecar[helper[h].id].offset : e.data[k] # "lost"
      <3>1. Vouched(d, helper[h].id) /\ d.sidecar[helper[h].id].offset \in 0..Size
        BY <1>3, <2>2 DEF UploadInv, Sound, Receipts
      <3>2. c.firm >= d.sidecar[helper[h].id].offset
            /\ \A k \in 1..d.sidecar[helper[h].id].offset : c.data[k] # "lost"
        BY <2>2, <3>1, ZenonT(60) DEF Vouched
      <3> QED
        <4>1. /\ e.firm = c.len /\ e.data = c.data /\ c.firm <= c.len /\ c.firm >= d.sidecar[helper[h].id].offset
              /\ c.firm \in 0..Size /\ c.len \in 0..Size /\ d.sidecar[helper[h].id].offset \in 0..Size
          BY <1>3, <1>13, <3>1, <3>2, ZenonT(60) DEF Contents
        <4>2. e.firm >= d.sidecar[helper[h].id].offset
          BY <4>1, UploadAssumption
        <4> QED
          BY <3>2, <4>1, <4>2, ZenonT(60)
    <2> QED
      BY <1>14, <2>1, <2>2, ZenonT(60)
  <1>23. \A d \in kept' : Sound(d)'
    <2>1. live' = live /\ kept' = kept /\ f \in Helpers /\ helper[f].id = helper[h].id /\ helper[h].id \in Transfers
      BY <1>1, <1>3, ZenonT(60)
    <2> QED
      BY <2>1, <1>14, <1>16, <1>22, FileSound, ZenonT(60)
  <1>24. \A g \in Helpers : inode'[g].firm <= inode'[g].len
    <2>1. e.firm <= e.len
      BY <1>13 DEF Contents
    <2> QED
      BY <1>14, <2>1, ZenonT(60) DEF UploadInv
  <1> QED
    BY <1>16, <1>21, <1>23, <1>24, Closes, ZenonT(60)

LEMMA CleanupKeepKeeps ==
  ASSUME UploadInv, NEW h \in Helpers, CleanupKeep(h)
  PROVE  UploadInv'
  <1> DEFINE f == helper[h].owned
             c == inode[f]
             e == [c EXCEPT !.data = Filled(@), !.len = helper[h].durable, !.firm = helper[h].durable]
  <1>1. TypeOK /\ Own(h) /\ helper[h] \in Request /\ helper[h].pc = "cleanup"
        /\ live' = live /\ kept' = kept /\ chosen' = chosen
    BY DEF UploadInv, TypeOK, CleanupKeep, At
  <1>2. helper[h].pc \in Owning /\ helper[h].pc \in Locked
    BY <1>1 DEF Owning, Cleaning, Locked
  <1>3. /\ f \in Helpers /\ f # Nothing /\ helper[f].id = helper[h].id /\ helper[f].pc \notin Unrecorded
        /\ helper[h].id \in Transfers
        /\ c \in Contents /\ c.firm <= c.len /\ helper[h].confirmed \in 0..Size
        /\ helper[h].durable \in 0..Size /\ helper[h].marked \in 0..Size
    BY <1>2, OwnedFacts, ZenonT(60)
  <1>4. helper[h].result \in Replies /\ helper[h].result # "completed" /\ Incomplete(h) \in Replies
        /\ Incomplete(h) # "completed" /\ (helper[h].result = "cleanup_incomplete" => Incomplete(h) = "cleanup_incomplete")
    BY <1>1, ZenonT(60) DEF Own, Shape, Request, Cleaning, Incomplete, Replies
  <1>5. CASE PartialOf(h) # f
    <2>1. Quiet
      BY <1>1, <1>5, QuietWhenUnchanged DEF CleanupKeep
    <2>2. MovesTo(h, "done", Incomplete(h))
      BY <1>1, <1>4, <1>5, MoveMade, ZenonT(60) DEF CleanupKeep, Answer, Places
    <2> QED
      BY <1>4, <2>1, <2>2, QuietEnd
  <1>6. CASE PartialOf(h) = f
    <2>1. MovesTo(h, "done", helper[h].result)
      BY <1>1, <1>4, <1>6, MoveMade, ZenonT(60) DEF CleanupKeep, Answer, Places
    <2>2. inode' = [inode EXCEPT ![f] = e]
      BY <1>1, <1>3, <1>6, ZenonT(60) DEF TypeOK, CleanupKeep
    <2>3. e \in Contents /\ e.len = helper[h].durable /\ e.firm = helper[h].durable
          /\ \A k \in 1..Size : (c.data[k] # "lost" => e.data[k] # "lost") /\ (c.data[k] = "right" => e.data[k] = "right")
      <3> DEFINE data == Filled(c.data)
      <3>1. data \in [1..Size -> {"right", "wrong", "lost", "failed", "zeros"}]
            /\ \A k \in 1..Size : (c.data[k] # "lost" => data[k] # "lost") /\ (c.data[k] = "right" => data[k] = "right")
        BY <1>3 DEF Contents, Filled
      <3>2. e = [c EXCEPT !.data = data, !.len = helper[h].durable, !.firm = helper[h].durable]
        BY ZenonT(60)
      <3> HIDE DEF data, e
      <3> QED
        BY <1>3, <3>1, <3>2 DEF Contents
    <2>4. /\ inode' \in [Helpers -> Contents] /\ inode'[f] = e
          /\ \A g \in Helpers : g # f => inode'[g] = inode[g]
      BY <1>1, <1>3, <2>2, <2>3, ZenonT(60) DEF TypeOK
    <2> HIDE DEF e
    <2>5. Grows(helper[h], helper'[h])
      BY <1>1, <2>1 DEF Grows, MovesTo, Unmade, Unrecorded
    <2>6. Step(h)
      BY <1>1, <1>2, <1>3, <2>1, <2>4, <2>5, FileStep, ZenonT(60) DEF MovesTo
    <2>7. Own(h)'
      BY <1>4, <2>1, <2>6, EndOwn DEF MovesTo
    <2>8. /\ helper[h].marked <= helper[h].durable
          /\ \A d \in kept :
               /\ d.sidecar[helper[h].id] \in Receipts /\ d.sidecar[helper[h].id].file = f
                    => d.sidecar[helper[h].id].offset <= helper[h].marked
               /\ d.target = f => helper[h].durable = Size
      BY <1>1, <1>2, ZenonT(60) DEF Own, OnRecord
    <2>9. ASSUME NEW d \in kept
          PROVE  /\ d.target = f => Whole(inode'[f]) /\ inode'[f].firm = Size
                 /\ d.sidecar[helper[h].id] \in Receipts /\ d.sidecar[helper[h].id].file = f =>
                      /\ inode'[f].firm >= d.sidecar[helper[h].id].offset
                      /\ \A k \in 1..d.sidecar[helper[h].id].offset : inode'[f].data[k] # "lost"
      <3>1. d.target = f => Whole(e) /\ e.firm = Size
        <4>1. d.target = f => Whole(c)
          BY <1>3, ZenonT(60) DEF UploadInv, Sound, Sealed
        <4> QED
          BY <2>3, <2>8, <4>1, ZenonT(60) DEF Whole
      <3>2. ASSUME d.sidecar[helper[h].id] \in Receipts, d.sidecar[helper[h].id].file = f
            PROVE  /\ e.firm >= d.sidecar[helper[h].id].offset
                   /\ \A k \in 1..d.sidecar[helper[h].id].offset : e.data[k] # "lost"
        <4>1. Vouched(d, helper[h].id) /\ d.sidecar[helper[h].id].offset \in 0..Size
          BY <1>3, <3>2 DEF UploadInv, Sound, Receipts
        <4>2. \A k \in 1..d.sidecar[helper[h].id].offset : k \in 1..Size /\ c.data[k] # "lost"
          <5>1. \A k \in 1..d.sidecar[helper[h].id].offset : k \in 1..Size
            BY <4>1, UploadAssumption
          <5> QED
            BY <3>2, <4>1, <5>1, ZenonT(60) DEF Vouched
        <4>3. d.sidecar[helper[h].id].offset <= helper[h].marked
          BY <2>8, <3>2, ZenonT(60)
        <4>4. helper[h].marked <= helper[h].durable /\ helper[h].marked \in 0..Size
              /\ helper[h].durable \in 0..Size /\ e.firm = helper[h].durable
          BY <1>3, <2>3, <2>8, ZenonT(60)
        <4>5. e.firm >= d.sidecar[helper[h].id].offset
          BY <4>1, <4>3, <4>4, UploadAssumption
        <4> QED
          BY <2>3, <4>2, <4>5, ZenonT(60)
      <3> QED
        BY <2>4, <3>1, <3>2, ZenonT(60)
    <2>10. \A d \in kept' : Sound(d)'
      BY <1>1, <1>3, <2>4, <2>6, <2>9, FileSound, ZenonT(60)
    <2>11. \A g \in Helpers : inode'[g].firm <= inode'[g].len
      <3>1. e.firm = helper[h].durable /\ e.len = helper[h].durable /\ helper[h].durable \in 0..Size
        BY <1>3, <2>3, ZenonT(60)
      <3>2. \A n \in 0..Size : n <= n
        BY UploadAssumption
      <3>3. e.firm <= e.len
        BY <3>1, <3>2, ZenonT(60)
      <3> QED
        BY <2>4, <3>3, ZenonT(60) DEF UploadInv
    <2> QED
      BY <2>6, <2>7, <2>10, <2>11, Closes, ZenonT(60)
  <1> QED
    BY <1>5, <1>6

LEMMA ObservePartialKeeps ==
  ASSUME UploadInv, NEW h \in Helpers, ObservePartial(h)
  PROVE  UploadInv'
  <1>1. TypeOK /\ Own(h) /\ helper[h] \in Request /\ helper[h].pc = "observe" /\ live.target = Nothing
        /\ live' = live /\ kept' = kept /\ chosen' = chosen /\ live \in kept /\ live \in Entries
    BY DEF UploadInv, TypeOK, ObservePartial, At
  <1>2. helper[h].result = "none" /\ helper[h].owned = Nothing /\ helper[h].applied = "no" /\ helper[h].pc \in Locked
    BY <1>1, ZenonT(60) DEF Own, Shape, Unrecorded, Unmade, Cleaning, Locked
  <1>3. CASE ~Continuable(h)
    <2>1. Quiet
      BY <1>1, <1>3, QuietWhenUnchanged DEF ObservePartial
    <2>2. MovesTo(h, "done", "transfer_failed")
      BY <1>1, <1>3, MoveMade, ZenonT(60) DEF ObservePartial, Answer, Places, Replies
    <2> QED
      BY <1>2, <2>1, <2>2, QuietEnd
  <1>4. CASE Continuable(h)
    <2> DEFINE f == PartialOf(h)
               offset == SidecarOf(h).offset
               c == inode[f]
               digest == IF \A k \in 1..offset : inode[f].data[k] = "right" THEN "right" ELSE "wrong"
               r == [helper[h] EXCEPT !.pc = "receive", !.owned = f, !.confirmed = offset, !.durable = offset,
                                      !.marked = offset, !.digest = digest]
    <2>1. helper[h].id \in Transfers
      BY <1>1 DEF Request
    <2>2. /\ SidecarOf(h) \in Receipts /\ SidecarOf(h).file = f /\ f # Nothing
          /\ FileLength(c) >= offset
      BY <1>4, ZenonT(60) DEF Continuable, Validates
    <2>3. f \in Helpers /\ offset \in 0..Size /\ c \in Contents /\ c.firm <= c.len
      <3>1. f \in Helpers /\ offset \in 0..Size
        BY <2>2 DEF Receipts
      <3> QED
        BY <1>1, <3>1, ZenonT(60) DEF TypeOK, UploadInv
    <2>4. Sound(live)
      BY <1>1, ZenonT(60) DEF UploadInv
    <2>5. helper[f].id = helper[h].id /\ helper[f].pc \notin Unrecorded
      BY <2>1, <2>2, <2>4, ZenonT(60) DEF Sound, NamesMade, SidecarOf
    <2>6. c.firm >= offset /\ \A k \in 1..offset : c.data[k] # "lost"
      BY <2>1, <2>2, <2>4, ZenonT(60) DEF Sound, Vouched, SidecarOf
    <2>7. /\ inode' = IF c.len = offset THEN inode ELSE [inode EXCEPT ![f].len = offset, ![f].firm = offset]
          /\ helper' = [helper EXCEPT
               ![h].pc = "receive", ![h].owned = f, ![h].confirmed = offset, ![h].durable = offset,
               ![h].marked = offset, ![h].digest = digest]
      BY <1>4, ZenonT(60) DEF ObservePartial
    <2>8. digest \in {"right", "wrong"}
      OBVIOUS
    <2> HIDE DEF digest, f, offset
    <2>9. helper' = [helper EXCEPT ![h] = r]
      BY <1>1, <2>7, ZenonT(60) DEF Request
    <2>10. r \in Request
      BY <1>1, <2>3, <2>8, ZenonT(60) DEF Request, Locked
    <2>11. helper' \in [Helpers -> Request] /\ (\A g \in Helpers : g # h => helper'[g] = helper[g]) /\ helper'[h] = r
      BY <1>1, <2>9, <2>10 DEF TypeOK
    <2>12. /\ helper'[h].pc = "receive" /\ helper'[h].id = helper[h].id /\ helper'[h].intent = helper[h].intent
           /\ helper'[h].mode = helper[h].mode /\ helper'[h].owned = f /\ helper'[h].applied = "no"
           /\ helper'[h].result = "none" /\ helper'[h].digest = digest
           /\ helper'[h].confirmed = offset /\ helper'[h].durable = offset /\ helper'[h].marked = offset
      BY <1>1, <1>2, <2>11 DEF Request
    <2>13. inode' = [inode EXCEPT ![f] = [c EXCEPT !.len = offset, !.firm = offset]]
      <3>1. CASE c.len = offset
        <4>1. c.firm = offset
          BY <2>3, <2>6, <3>1 DEF Contents
        <4>2. [c EXCEPT !.len = offset, !.firm = offset] = c
          BY <2>3, <3>1, <4>1, ZenonT(60) DEF Contents
        <4> QED
          BY <1>1, <2>3, <2>7, <3>1, <4>2 DEF TypeOK
      <3>2. CASE c.len # offset
        BY <1>1, <2>3, <2>7, <3>2, ZenonT(60) DEF TypeOK
      <3> QED
        BY <3>1, <3>2
    <2> DEFINE e == [c EXCEPT !.len = offset, !.firm = offset]
    <2>14. e \in Contents /\ e.len = offset /\ e.firm = offset /\ e.data = c.data
      BY <2>3, ZenonT(60) DEF Contents
    <2>15. /\ inode' \in [Helpers -> Contents] /\ inode'[f] = e
           /\ \A g \in Helpers : g # f => inode'[g] = inode[g]
      BY <1>1, <2>3, <2>13, <2>14, ZenonT(60) DEF TypeOK
    <2> HIDE DEF r, e, c
    <2>16. Grows(helper[h], helper'[h])
      BY <1>1, <1>2, <2>12, ZenonT(60) DEF Grows, Unmade, Unrecorded
    <2>17. Step(h)
      BY <1>1, <1>2, <2>3, <2>5, <2>11, <2>15, <2>16, FileStep, ZenonT(60)
    <2>18. SidecarOf(h)' = SidecarOf(h) /\ PartialOf(h)' = f
      BY <1>1, <2>12, ZenonT(60) DEF SidecarOf, PartialOf, f
    <2>19. ASSUME NEW d \in kept
           PROVE  /\ d.sidecar[helper[h].id] \in Receipts /\ d.sidecar[helper[h].id].file = f
                       => d.sidecar[helper[h].id].offset <= offset
                  /\ d.target = f => offset = Size
      <3>1. Advances(d, helper[h].id) /\ Sealed(d)
        BY <2>1, ZenonT(60) DEF UploadInv, Sound
      <3>2. live.sidecar[helper[h].id] \in Receipts /\ live.sidecar[helper[h].id].file = f
            /\ live.sidecar[helper[h].id].offset = offset
        BY <2>2, ZenonT(60) DEF SidecarOf, offset
      <3>3. d.target = f => offset = Size
        BY <2>3, <2>5, <3>1, <3>2, ZenonT(60) DEF Sealed, Full
      <3> QED
        BY <3>1, <3>2, <3>3, ZenonT(60) DEF Advances
    <2>20. Shape(h)'
      <3>1. helper'[f].id = helper[h].id /\ helper'[f].pc \notin Unrecorded
        BY <2>3, <2>5, <2>17, ZenonT(60) DEF Step, Grows
      <3> QED
        BY <2>2, <2>12, <3>1, ZenonT(60) DEF Shape, Unrecorded, Unmade, Recovering, Committed, Streaming, Cleaning
    <2>21. OnRecord(h)'
      <3>1. offset <= offset /\ offset <= e.firm /\ e.len = offset
        BY <2>3, <2>14
      <3> QED
        BY <1>1, <2>2, <2>6, <2>8, <2>12, <2>14, <2>15, <2>18, <2>19, <3>1, ZenonT(60) DEF OnRecord, c, f
    <2>22. Progress(h)'
      BY <1>1, <2>2, <2>12, ZenonT(60) DEF Progress, At, Committed, Recovering, Cleaning
    <2>23. Settled(h)'
      BY <2>12, ZenonT(60) DEF Settled, At, Committed, Recovering
    <2>24. Ready(h)'
      BY <2>12, <2>18 DEF Ready, At, Committed, Recovering
    <2>25. ASSUME NEW d \in kept
           PROVE  /\ d.target = f => Whole(inode'[f]) /\ inode'[f].firm = Size
                  /\ d.sidecar[helper[h].id] \in Receipts /\ d.sidecar[helper[h].id].file = f =>
                       /\ inode'[f].firm >= d.sidecar[helper[h].id].offset
                       /\ \A k \in 1..d.sidecar[helper[h].id].offset : inode'[f].data[k] # "lost"
      <3>1. d.target = f => Whole(e) /\ e.firm = Size
        <4>1. d.target = f => Whole(c)
          BY <2>3, ZenonT(60) DEF UploadInv, Sound, Sealed, c
        <4> QED
          BY <2>14, <2>19, <4>1 DEF Whole
      <3>2. ASSUME d.sidecar[helper[h].id] \in Receipts, d.sidecar[helper[h].id].file = f
            PROVE  /\ e.firm >= d.sidecar[helper[h].id].offset
                   /\ \A k \in 1..d.sidecar[helper[h].id].offset : e.data[k] # "lost"
        <4>1. Vouched(d, helper[h].id) /\ d.sidecar[helper[h].id].offset \in 0..Size
          BY <2>1, <3>2 DEF UploadInv, Sound, Receipts
        <4>2. \A k \in 1..d.sidecar[helper[h].id].offset : c.data[k] # "lost"
          BY <3>2, <4>1, ZenonT(60) DEF Vouched, c
        <4> QED
          BY <2>3, <2>14, <2>19, <3>2, <4>1, <4>2, ZenonT(60)
      <3> QED
        BY <2>15, <3>1, <3>2, ZenonT(60)
    <2>26. \A d \in kept' : Sound(d)'
      BY <1>1, <2>1, <2>3, <2>5, <2>15, <2>17, <2>25, FileSound, ZenonT(60)
    <2>27. \A g \in Helpers : inode'[g].firm <= inode'[g].len
      <3>1. e.firm <= e.len
        BY <2>3, <2>14
      <3> QED
        BY <2>15, <3>1, ZenonT(60) DEF UploadInv
    <2> QED
      BY <2>17, <2>20, <2>21, <2>22, <2>23, <2>24, <2>26, <2>27, Closes, ZenonT(60) DEF Own
  <1> QED
    BY <1>3, <1>4

===============================================================================
