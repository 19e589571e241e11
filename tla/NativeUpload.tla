---------------------------- MODULE NativeUpload ----------------------------
(***************************************************************************)
(* The receiving side of a native upload: `serve_push` of the serctl-xfer  *)
(* helper.  Every attempt is a helper process of its own; attempts of one  *)
(* transfer id exclude each other with a lock file, stream into a private  *)
(* partial file, record the durable prefix in a sidecar file, and publish  *)
(* the finished file with a hard link that replaces nothing.               *)
(*                                                                         *)
(* All names live in one parent directory.  `live' is what the running     *)
(* kernel shows, `kept' the states a power loss may leave it in: updates   *)
(* of the directory reach the disk in order, and a directory fsync waits   *)
(* for them.  Contents are the chunks written so far, with a firm          *)
(* (fsynced) prefix; a chunk whose write failed is not in the file.        *)
(***************************************************************************)
EXTENDS Integers

CONSTANTS
  Helpers,      \* attempts; a file's identity is the attempt that created it
  Transfers,    \* transfer ids, all aimed at one target
  Intents,      \* what (token, target, size, digest) a request asks for
  Nothing,      \* no directory entry
  Torn,         \* a file without the record it should hold
  Foreign,      \* a file some other program put at the target
  Size,         \* declared size, in chunks
  Windows,      \* negotiated windows: chunks between two durability points
  Modes,        \* the values of `resume' that requests use
  Faults        \* subset of {"kill", "power", "io", "user", "wrong"}

Receipt(i, offset, file, state) ==
  [intent |-> i, offset |-> offset, file |-> file, state |-> state]

Receipts ==
  [intent: Intents, offset: 0..Size, file: Helpers,
   state: {"receiving", "committed"}]

ASSUME UploadAssumption ==
  /\ Size \in Nat \ {0}
  /\ Windows \subseteq 1..Size
  /\ Modes \subseteq {"resume", "fresh"}
  /\ Nothing \notin Helpers \cup Intents \cup Receipts \cup {Foreign, Torn}
  /\ Torn \notin Intents \cup Receipts
  /\ Foreign \notin Helpers
  /\ Faults \subseteq {"kill", "power", "io", "user", "wrong"}

VARIABLES
  live,     \* directory entries as the kernel shows them
  kept,     \* what a power loss may make of them
  inode,    \* contents of the file each attempt created
  helper,   \* the attempts
  chosen    \* what the user did to the target: nothing, created or removed it

vars == <<live, kept, inode, helper, chosen>>

Entries ==
  [lock: [Transfers -> Intents \cup {Nothing, Torn}],
   sidecar: [Transfers -> Receipts \cup {Nothing, Torn}],
   partial: [Transfers -> Helpers \cup {Nothing}],
   target: Helpers \cup {Nothing, Foreign}]

\* "failed": the write of the chunk failed and the file ends before it;
\* "zeros": the file was extended over such a chunk.
Contents ==
  [data: [1..Size -> {"right", "wrong", "lost", "failed", "zeros"}],
   len: 0..Size, firm: 0..Size]

Locked ==
  {"observe", "sidecar", "write_sidecar", "receive", "sync_window",
   "mark_window", "sync_all", "mark_full", "verify", "link", "sync_link",
   "receipt", "remove_partial", "sync_partial", "remove_sidecar",
   "sync_sidecar", "finish", "recover_sync", "recover_receipt",
   "recover_partial", "recover_sync_partial", "recover_ready", "cleanup",
   "cleanup_sidecar"}

Replies ==
  {"completed", "transfer_failed", "outcome_unknown", "cleanup_incomplete",
   "transfer_busy", "none"}

Request ==
  [pc: {"idle", "open_lock", "flock", "done", "dead"} \cup Locked,
   id: Transfers, intent: Intents, mode: Modes, window: Windows,
   created: {"yes", "no"},          \* this attempt created the lock file
   owned: Helpers \cup {Nothing},   \* owned_identity
   applied: {"yes", "no"},          \* commit_applied
   confirmed: 0..Size, durable: 0..Size, marked: 0..Size,
   digest: {"right", "wrong"},      \* the running hash of what was streamed
   result: Replies]

TypeOK ==
  /\ live \in Entries
  /\ live \in kept
  /\ \A d \in kept : d \in Entries
  /\ inode \in [Helpers -> Contents]
  /\ helper \in [Helpers -> Request]
  /\ chosen \in {"nothing", "created", "removed"}

-----------------------------------------------------------------------------
Empty == [data |-> [k \in 1..Size |-> "lost"], len |-> 0, firm |-> 0]

Bare ==
  [lock |-> [t \in Transfers |-> Nothing],
   sidecar |-> [t \in Transfers |-> Nothing],
   partial |-> [t \in Transfers |-> Nothing],
   target |-> Nothing]

Init ==
  /\ live = Bare
  /\ kept = {Bare}
  /\ inode = [h \in Helpers |-> Empty]
  /\ helper \in [Helpers ->
       {[pc |-> "idle", id |-> t, intent |-> i, mode |-> m, window |-> w, created |-> "no",
         owned |-> Nothing, applied |-> "no", confirmed |-> 0, durable |-> 0,
         marked |-> 0, digest |-> "right", result |-> "none"] :
            t \in Transfers, i \in Intents, m \in Modes, w \in Windows}]
  /\ chosen = "nothing"

\* The file holds exactly the bytes its digest promises.
Whole(c) == c.len = Size /\ \A k \in 1..Size : c.data[k] = "right"

\* The length of the file: a failed write has added nothing.
FileLength(c) == IF c.len > 0 /\ c.data[c.len] = "failed" THEN c.len - 1 ELSE c.len

SidecarOf(h) == live.sidecar[helper[h].id]
PartialOf(h) == live.partial[helper[h].id]

\* `ResumeSidecar::validate': a readable record of this intent and this file.
Validates(h, file) ==
  /\ SidecarOf(h) \in Receipts
  /\ SidecarOf(h).intent = helper[h].intent
  /\ SidecarOf(h).file = file
  /\ SidecarOf(h).state = "committed" => SidecarOf(h).offset = Size

At(h, label) == helper[h].pc = label
Goto(h, label) == helper' = [helper EXCEPT ![h].pc = label]
Answer(h, code) == helper' = [helper EXCEPT ![h].pc = "done", ![h].result = code]

WithSidecar(h, record) == [live EXCEPT !.sidecar[helper[h].id] = record]
WithPartial(h, file) == [live EXCEPT !.partial[helper[h].id] = file]

\* A directory update, and one that is fsynced before the code goes on.
Update(d) == live' = d /\ kept' = kept \cup {d}

UpdateSynced(d) == live' = d /\ kept' = {d}
Untouched == UNCHANGED <<live, kept>>

\* The way an error leaves the handler.  `normalize_post_commit_result' turns
\* an error after the commit into an unknown outcome, and the owned leftovers
\* are cleaned up unless they are the evidence of an unproven link.
Preserved(h) == At(h, "sync_link")

\* Mutant of ErrorCodes: an error between link and fsync is a plain failure.
ErrorCodesEarly(h) ==
  IF helper[h].applied = "yes" THEN {"outcome_unknown"} ELSE {"transfer_failed"}

ErrorCodes(h) ==
  CASE helper[h].pc \in {"receipt", "remove_partial", "sync_partial",
                         "remove_sidecar", "sync_sidecar", "recover_receipt",
                         "recover_partial", "recover_sync_partial"}
         -> {"cleanup_incomplete", "outcome_unknown"}
    [] helper[h].applied = "yes" \/ At(h, "sync_link") -> {"outcome_unknown"}
    [] OTHER -> {"transfer_failed"}

Raise(h) ==
  \E code \in ErrorCodes(h) :
    helper' = [helper EXCEPT
      ![h].result = code,
      ![h].pc = IF helper[h].owned # Nothing /\ ~Preserved(h)
                THEN "cleanup" ELSE "done"]

-----------------------------------------------------------------------------
\* `NativeTransferGuard::acquire': create the lock file or open the one there.
OpenLock(h) ==
  /\ At(h, "open_lock")
  /\ IF live.lock[helper[h].id] = Nothing
     THEN /\ Update([live EXCEPT !.lock[helper[h].id] = Torn])
          /\ helper' = [helper EXCEPT ![h].pc = "flock", ![h].created = "yes"]
     ELSE Goto(h, "flock") /\ Untouched
  /\ UNCHANGED <<inode, chosen>>

Held(t) == \E g \in Helpers : helper[g].pc \in Locked /\ helper[g].id = t

LockBusy(h) ==
  /\ At(h, "flock")
  /\ Held(helper[h].id)
  /\ Answer(h, "transfer_busy")
  /\ UNCHANGED <<live, kept, inode, chosen>>

\* The creator writes the record, syncs it and its directory entry.
WriteLockRecord(h) ==
  /\ At(h, "flock")
  /\ ~Held(helper[h].id)
  /\ helper[h].created = "yes"
  /\ UpdateSynced([live EXCEPT !.lock[helper[h].id] = helper[h].intent])
  /\ Goto(h, "observe")
  /\ UNCHANGED <<inode, chosen>>

\* Everyone else must find the record of exactly its own intent.
CheckLockRecord(h) ==
  /\ At(h, "flock")
  /\ ~Held(helper[h].id)
  /\ helper[h].created = "no"
  /\ IF live.lock[helper[h].id] = helper[h].intent
     THEN Goto(h, "observe")
     ELSE Answer(h, "transfer_failed")
  /\ UNCHANGED <<live, kept, inode, chosen>>

Begin(h) ==
  /\ At(h, "idle")
  /\ Goto(h, "open_lock")
  /\ UNCHANGED <<live, kept, inode, chosen>>

-----------------------------------------------------------------------------
\* The target exists: only the receipt of this very file, fully durable and
\* still matching the digest, proves that an earlier attempt committed it.
Recoverable(h) ==
  /\ helper[h].mode = "resume"
  /\ live.target \in Helpers
  /\ Validates(h, live.target)
  /\ SidecarOf(h).offset = Size
  /\ Whole(inode[live.target])

ObserveTarget(h) ==
  /\ At(h, "observe")
  /\ live.target # Nothing
  /\ IF Recoverable(h)
     THEN helper' = [helper EXCEPT ![h].pc = "recover_sync", ![h].applied = "yes"]
     ELSE Answer(h, "transfer_failed")
  /\ UNCHANGED <<live, kept, inode, chosen>>

Continuing(h) == helper[h].mode = "resume" /\ SidecarOf(h) # Nothing

Continuable(h) ==
  /\ PartialOf(h) # Nothing
  /\ Validates(h, PartialOf(h))
  /\ SidecarOf(h).state = "receiving"
  /\ FileLength(inode[PartialOf(h)]) >= SidecarOf(h).offset

\* Resume: cut the partial back to its durable prefix, sync it, hash it.
ObservePartial(h) ==
  /\ At(h, "observe")
  /\ live.target = Nothing
  /\ Continuing(h)
  /\ IF Continuable(h)
     THEN LET file == PartialOf(h)
              offset == SidecarOf(h).offset
          IN /\ inode' = IF inode[file].len = offset
                         THEN inode
                         ELSE [inode EXCEPT ![file].len = offset,
                                            ![file].firm = offset]
             /\ helper' = [helper EXCEPT
                  ![h].pc = "receive", ![h].owned = file,
                  ![h].confirmed = offset, ![h].durable = offset,
                  ![h].marked = offset,
                  ![h].digest = IF \A k \in 1..offset :
                                     inode[file].data[k] = "right"
                                THEN "right" ELSE "wrong"]
     ELSE Answer(h, "transfer_failed") /\ UNCHANGED inode
  /\ UNCHANGED <<live, kept, chosen>>

\* A first attempt: a new private partial, which must not exist yet.
CreatePartial(h) ==
  /\ At(h, "observe")
  /\ live.target = Nothing
  /\ ~Continuing(h)
  /\ IF PartialOf(h) = Nothing
     THEN Update(WithPartial(h, h)) /\ Goto(h, "sidecar")
     ELSE Answer(h, "transfer_failed") /\ Untouched
  /\ UNCHANGED <<inode, chosen>>

\* The ownership record is created exactly once; a leftover one is an error,
\* and the partial just created is removed again.
CreateSidecar(h) ==
  /\ At(h, "sidecar")
  /\ IF SidecarOf(h) = Nothing
     THEN Update(WithSidecar(h, Torn)) /\ Goto(h, "write_sidecar")
     ELSE /\ UpdateSynced(WithPartial(h, Nothing))
          /\ Answer(h, "transfer_failed")
  /\ UNCHANGED <<inode, chosen>>

WriteSidecar(h) ==
  /\ At(h, "write_sidecar")
  /\ UpdateSynced(WithSidecar(h, Receipt(helper[h].intent, 0, h, "receiving")))
  /\ helper' = [helper EXCEPT ![h].pc = "receive", ![h].owned = h]
  /\ UNCHANGED <<inode, chosen>>

\* `reconcile_initial_sidecar_failure': what was just created is removed; if
\* that fails too, whatever is left is reported as incomplete cleanup.  A check
\* that fails right after a file was created leaves that file behind.
InitialSidecarFails(h) ==
  /\ "io" \in Faults
  /\ helper[h].pc \in {"sidecar", "write_sidecar"}
  /\ \E file \in {Nothing, h},
        record \in {SidecarOf(h)} \cup
          (IF At(h, "sidecar") THEN {}
           ELSE {Nothing, Receipt(helper[h].intent, 0, h, "receiving")}) :
       LET d == [live EXCEPT !.partial[helper[h].id] = file,
                             !.sidecar[helper[h].id] = record]
       IN \/ /\ file = Nothing /\ record \notin Receipts
             /\ UpdateSynced(d)
             /\ Answer(h, "transfer_failed")
          \/ /\ At(h, "sidecar") /\ d = live
             /\ Update(d)
             /\ Answer(h, "transfer_failed")
          \/ /\ Update(d)
             /\ Answer(h, "cleanup_incomplete")
  /\ UNCHANGED <<inode, chosen>>

-----------------------------------------------------------------------------
\* A write that failed reports its error with the next one: tokio's File only
\* starts a write, and its sync_data and sync_all keep the error of the write
\* they wait for.
WriteFailed(h) ==
  /\ helper[h].confirmed > 0
  /\ inode[helper[h].owned].data[helper[h].confirmed] = "failed"

\* One data frame, in order; the window decides whether it is made durable.
ReceiveData(h) ==
  /\ At(h, "receive")
  /\ helper[h].confirmed < Size
  /\ ~WriteFailed(h)
  /\ LET next == helper[h].confirmed + 1
     IN \E b \in {"right"} \cup (Faults \cap {"wrong"}) :
          /\ \E chunk \in {b} \cup (IF "io" \in Faults THEN {"failed"} ELSE {}) :
               inode' = [inode EXCEPT ![helper[h].owned].data[next] = chunk,
                                      ![helper[h].owned].len = next]
          /\ helper' = [helper EXCEPT
               ![h].confirmed = next,
               ![h].digest = IF b = "right" THEN @ ELSE "wrong",
               ![h].pc = IF next - helper[h].durable >= helper[h].window
                         THEN "sync_window" ELSE "receive"]
  /\ UNCHANGED <<live, kept, chosen>>

\* The frame after a failed write.
ReceiveAfterFailure(h) ==
  /\ At(h, "receive")
  /\ helper[h].confirmed < Size
  /\ WriteFailed(h)
  /\ Raise(h)
  /\ UNCHANGED <<live, kept, inode, chosen>>

\* Mutant of SyncWindow: the window is counted as durable without a sync.
SyncWindowSkipped(h) ==
  /\ At(h, "sync_window")
  /\ helper' = [helper EXCEPT ![h].pc = "mark_window",
                              ![h].durable = helper[h].confirmed]
  /\ UNCHANGED <<live, kept, inode, chosen>>

\* The sync succeeds although the write it waited for has failed.
SyncWindow(h) ==
  /\ At(h, "sync_window")
  /\ inode' = [inode EXCEPT ![helper[h].owned].firm = inode[helper[h].owned].len]
  /\ helper' = [helper EXCEPT ![h].pc = "mark_window",
                              ![h].durable = helper[h].confirmed]
  /\ UNCHANGED <<live, kept, chosen>>

\* `replace_verified_resume_sidecar': an atomic rename over the record that
\* still says what this attempt last wrote; the rename itself is not synced.
Unaltered(h, state) ==
  /\ Validates(h, helper[h].owned)
  /\ SidecarOf(h).offset = helper[h].marked
  /\ SidecarOf(h).state = state

MarkWindow(h) ==
  /\ At(h, "mark_window")
  /\ IF Unaltered(h, "receiving")
     THEN /\ Update(WithSidecar(h, Receipt(helper[h].intent, helper[h].durable,
                                           helper[h].owned, "receiving")))
          /\ helper' = [helper EXCEPT ![h].pc = "receive",
                                      ![h].marked = helper[h].durable]
     ELSE Raise(h) /\ Untouched
  /\ UNCHANGED <<inode, chosen>>

\* Mutant of ReceiveCommit: the digests are not compared.
ReceiveCommitUnchecked(h) ==
  /\ At(h, "receive")
  /\ helper' = [helper EXCEPT ![h].pc =
       IF helper[h].confirmed = Size THEN "link" ELSE "cleanup"]
  /\ UNCHANGED <<live, kept, inode, chosen>>

\* The client's Commit: refused unless everything arrived with its digest.
ReceiveCommit(h) ==
  /\ At(h, "receive")
  /\ IF helper[h].confirmed = Size /\ helper[h].digest = "right"
     THEN Goto(h, "sync_all")
     ELSE Raise(h)
  /\ UNCHANGED <<live, kept, inode, chosen>>

\* Cancel, an unexpected frame or a disconnect.
ClientGone(h) ==
  /\ helper[h].pc \in {"receive", "recover_ready"}
  /\ Raise(h)
  /\ UNCHANGED <<live, kept, inode, chosen>>

SyncAll(h) ==
  /\ At(h, "sync_all")
  /\ inode' = [inode EXCEPT ![helper[h].owned].firm = inode[helper[h].owned].len]
  /\ helper' = [helper EXCEPT ![h].pc = "mark_full", ![h].durable = Size]
  /\ UNCHANGED <<live, kept, chosen>>

MarkFull(h) ==
  /\ At(h, "mark_full")
  /\ IF Unaltered(h, "receiving")
     THEN /\ Update(WithSidecar(h, Receipt(helper[h].intent, Size,
                                           helper[h].owned, "receiving")))
          /\ helper' = [helper EXCEPT ![h].pc = "verify", ![h].marked = Size]
     ELSE Raise(h) /\ Untouched
  /\ UNCHANGED <<inode, chosen>>

\* Re-read the file through the same handle before it is published.
VerifyOnDisk(h) ==
  /\ At(h, "verify")
  /\ IF Whole(inode[helper[h].owned]) THEN Goto(h, "link") ELSE Raise(h)
  /\ UNCHANGED <<live, kept, inode, chosen>>

\* Mutant of Link: a rename instead of a link that replaces nothing.
LinkReplaces(h) ==
  /\ At(h, "link")
  /\ Update([live EXCEPT !.target = helper[h].owned])
  /\ Goto(h, "sync_link")
  /\ UNCHANGED <<inode, chosen>>

\* linkat never replaces: an entry already there is a definite non-commit.
Link(h) ==
  /\ At(h, "link")
  /\ IF live.target = Nothing
     THEN /\ Update([live EXCEPT !.target = helper[h].owned])
          /\ Goto(h, "sync_link")
     ELSE Raise(h) /\ Untouched
  /\ UNCHANGED <<inode, chosen>>

\* The entry is opened, synced, and opened again: it must be this file.
SyncLink(h) ==
  /\ At(h, "sync_link")
  /\ IF live.target = helper[h].owned
     THEN /\ UpdateSynced(live)
          /\ helper' = [helper EXCEPT ![h].applied = "yes",
               ![h].pc = IF helper[h].mode = "resume" THEN "receipt"
                         ELSE "remove_partial"]
     ELSE Raise(h) /\ Untouched
  /\ UNCHANGED <<inode, chosen>>

PersistReceipt(h) ==
  /\ At(h, "receipt")
  /\ IF Unaltered(h, "receiving")
     THEN /\ Update(WithSidecar(h, Receipt(helper[h].intent, Size,
                                           helper[h].owned, "committed")))
          /\ Goto(h, "remove_partial")
     ELSE Raise(h) /\ Untouched
  /\ UNCHANGED <<inode, chosen>>

\* `remove_owned_partial': only the file with the remembered identity.
RemovePartial(h) ==
  /\ At(h, "remove_partial")
  /\ IF PartialOf(h) = helper[h].owned
     THEN Update(WithPartial(h, Nothing)) /\ Goto(h, "sync_partial")
     ELSE Raise(h) /\ Untouched
  /\ UNCHANGED <<inode, chosen>>

SyncPartial(h) ==
  /\ At(h, "sync_partial")
  /\ UpdateSynced(live)
  /\ Goto(h, IF helper[h].mode = "resume" THEN "finish" ELSE "remove_sidecar")
  /\ UNCHANGED <<inode, chosen>>

RemoveSidecar(h) ==
  /\ At(h, "remove_sidecar")
  /\ IF Validates(h, helper[h].owned)
     THEN Update(WithSidecar(h, Nothing)) /\ Goto(h, "sync_sidecar")
     ELSE Raise(h) /\ Untouched
  /\ UNCHANGED <<inode, chosen>>

SyncSidecar(h) ==
  /\ At(h, "sync_sidecar")
  /\ UpdateSynced(live)
  /\ Goto(h, "finish")
  /\ UNCHANGED <<inode, chosen>>

\* The Completed frame; when it cannot be written the outcome is unknown, and
\* nothing is owned any more that would have to be cleaned up.
Finish(h) ==
  /\ At(h, "finish")
  /\ \E code \in {"completed"} \cup
               (IF "io" \in Faults THEN {"outcome_unknown"} ELSE {}) :
       Answer(h, code)
  /\ UNCHANGED <<live, kept, inode, chosen>>

-----------------------------------------------------------------------------
\* An earlier attempt's commit, proved by its receipt: finish what it left.
RecoverSync(h) ==
  /\ At(h, "recover_sync")
  /\ UpdateSynced(live)
  /\ Goto(h, "recover_receipt")
  /\ UNCHANGED <<inode, chosen>>

RecoverReceipt(h) ==
  /\ At(h, "recover_receipt")
  /\ Update(WithSidecar(h, [SidecarOf(h) EXCEPT !.state = "committed"]))
  /\ Goto(h, "recover_partial")
  /\ UNCHANGED <<inode, chosen>>

RecoverPartial(h) ==
  /\ At(h, "recover_partial")
  /\ \/ /\ PartialOf(h) = Nothing
        /\ Goto(h, "recover_ready") /\ Untouched
     \/ /\ PartialOf(h) = SidecarOf(h).file
        /\ Update(WithPartial(h, Nothing))
        /\ Goto(h, "recover_sync_partial")
     \/ /\ PartialOf(h) \notin {Nothing, SidecarOf(h).file}
        /\ Raise(h) /\ Untouched
  /\ UNCHANGED <<inode, chosen>>

RecoverSyncPartial(h) ==
  /\ At(h, "recover_sync_partial")
  /\ UpdateSynced(live)
  /\ Goto(h, "recover_ready")
  /\ UNCHANGED <<inode, chosen>>

RecoverCommit(h) ==
  /\ At(h, "recover_ready")
  /\ \E code \in {"completed"} \cup
               (IF "io" \in Faults THEN {"outcome_unknown"} ELSE {}) :
       Answer(h, code)
  /\ UNCHANGED <<live, kept, inode, chosen>>

-----------------------------------------------------------------------------
\* `cleanup_failed_upload'.  What cannot be removed or cut back is reported,
\* unless the outcome is unknown anyway.
Incomplete(h) ==
  IF helper[h].result = "outcome_unknown"
  THEN "outcome_unknown" ELSE "cleanup_incomplete"

\* Discarding: the partial, and for a request without resume the sidecar too.
CleanupPartial(h) ==
  /\ At(h, "cleanup")
  /\ helper[h].applied = "yes" \/ helper[h].mode = "fresh"
  /\ LET fits == PartialOf(h) = helper[h].owned
     IN /\ IF fits THEN UpdateSynced(WithPartial(h, Nothing)) ELSE Untouched
        /\ helper' = [helper EXCEPT
             ![h].pc = IF helper[h].mode = "fresh" THEN "cleanup_sidecar" ELSE "done",
             ![h].result = IF fits THEN @ ELSE Incomplete(h)]
  /\ UNCHANGED <<inode, chosen>>

CleanupSidecar(h) ==
  /\ At(h, "cleanup_sidecar")
  /\ IF Validates(h, helper[h].owned)
     THEN UpdateSynced(WithSidecar(h, Nothing)) /\ Answer(h, helper[h].result)
     ELSE Answer(h, Incomplete(h)) /\ Untouched
  /\ UNCHANGED <<inode, chosen>>

\* A file of fewer bytes is filled with zeros.
Filled(data) ==
  [k \in 1..Size |-> IF data[k] = "failed" THEN "zeros" ELSE data[k]]

\* Keeping: set the partial to the length that the sidecar vouches for.
CleanupKeep(h) ==
  /\ At(h, "cleanup")
  /\ helper[h].applied = "no" /\ helper[h].mode = "resume"
  /\ IF PartialOf(h) = helper[h].owned
     THEN /\ inode' = [inode EXCEPT ![helper[h].owned].data = Filled(@),
                                    ![helper[h].owned].len = helper[h].durable,
                                    ![helper[h].owned].firm = helper[h].durable]
          /\ Answer(h, helper[h].result)
     ELSE Answer(h, Incomplete(h)) /\ UNCHANGED inode
  /\ UNCHANGED <<live, kept, chosen>>

CleanupFails(h) ==
  /\ "io" \in Faults
  /\ helper[h].pc \in {"cleanup", "cleanup_sidecar"}
  /\ helper' = [helper EXCEPT
       ![h].pc = IF At(h, "cleanup") /\ helper[h].mode = "fresh"
                 THEN "cleanup_sidecar" ELSE "done",
       ![h].result = Incomplete(h)]
  /\ UNCHANGED <<live, kept, inode, chosen>>

-----------------------------------------------------------------------------
\* An I/O error, or a lost binding of the lock or the parent, at a step that
\* then changes nothing.
StepFails(h) ==
  /\ "io" \in Faults
  /\ helper[h].pc \in Locked \ {"sidecar", "write_sidecar", "cleanup", "cleanup_sidecar", "finish"}
  /\ Raise(h)
  /\ UNCHANGED <<live, kept, inode, chosen>>

\* The lock record could not be written or synced: the file stays as it is.
LockFails(h) ==
  /\ "io" \in Faults
  /\ helper[h].pc \in {"open_lock", "flock"}
  /\ Answer(h, "transfer_failed")
  /\ UNCHANGED <<live, kept, inode, chosen>>

\* The helper process dies where it stands; the kernel drops its lock.
Kill(h) ==
  /\ "kill" \in Faults
  /\ helper[h].pc \notin {"idle", "done", "dead"}
  /\ Goto(h, "dead")
  /\ UNCHANGED <<live, kept, inode, chosen>>

\* The machine stops.  Contents past the firm prefix may be there, be missing
\* or be garbage; only files that still have a name matter.
Named(d) == Helpers \cap ({d.partial[t] : t \in Transfers} \cup {d.target})

Survives(c, intact, n) ==
  [data |-> [k \in 1..Size |-> IF k <= intact THEN c.data[k] ELSE "lost"],
   len |-> n, firm |-> n]

PowerLoss ==
  /\ "power" \in Faults
  /\ \E d \in kept :
       /\ UpdateSynced(d)
       /\ \E intact, n \in [Named(d) -> 0..Size] :
            /\ \A h \in Named(d) :
                 inode[h].firm <= intact[h] /\ intact[h] <= n[h] /\ n[h] <= inode[h].len
            /\ inode' = [h \in Helpers |->
                 IF h \in Named(d) THEN Survives(inode[h], intact[h], n[h])
                 ELSE inode[h]]
  /\ helper' = [h \in Helpers |->
       IF helper[h].pc \in {"idle", "done", "dead"} THEN helper[h]
       ELSE [helper[h] EXCEPT !.pc = "dead"]]
  /\ UNCHANGED chosen

\* The user of the host puts a file of theirs at the target, or removes what
\* is there.
UserCreates ==
  /\ "user" \in Faults
  /\ chosen = "nothing" /\ live.target = Nothing
  /\ Update([live EXCEPT !.target = Foreign])
  /\ chosen' = "created"
  /\ UNCHANGED <<inode, helper>>

UserRemoves ==
  /\ "user" \in Faults
  /\ chosen = "nothing" /\ live.target # Nothing
  /\ Update([live EXCEPT !.target = Nothing])
  /\ chosen' = "removed"
  /\ UNCHANGED <<inode, helper>>

-----------------------------------------------------------------------------
Serve(h) ==
  \/ OpenLock(h) \/ LockBusy(h) \/ WriteLockRecord(h) \/ CheckLockRecord(h)
  \/ ObserveTarget(h) \/ ObservePartial(h) \/ CreatePartial(h)
  \/ CreateSidecar(h) \/ WriteSidecar(h)
  \/ ReceiveData(h) \/ ReceiveAfterFailure(h) \/ ReceiveCommit(h) \/ SyncWindow(h) \/ MarkWindow(h)
  \/ SyncAll(h) \/ MarkFull(h) \/ VerifyOnDisk(h) \/ Link(h) \/ SyncLink(h)
  \/ PersistReceipt(h) \/ RemovePartial(h) \/ SyncPartial(h)
  \/ RemoveSidecar(h) \/ SyncSidecar(h) \/ Finish(h)
  \/ RecoverSync(h) \/ RecoverReceipt(h) \/ RecoverPartial(h)
  \/ RecoverSyncPartial(h) \/ RecoverCommit(h)
  \/ CleanupPartial(h) \/ CleanupSidecar(h) \/ CleanupKeep(h)

Disturb(h) ==
  \/ ClientGone(h) \/ InitialSidecarFails(h) \/ StepFails(h) \/ LockFails(h)
  \/ CleanupFails(h) \/ Kill(h)

Next ==
  \/ \E h \in Helpers : Begin(h) \/ Serve(h) \/ Disturb(h)
  \/ PowerLoss \/ UserCreates \/ UserRemoves

Spec == Init /\ [][Next]_vars

-----------------------------------------------------------------------------
\* A file under the target name is complete and fsynced from the first moment
\* it is visible, and after any power loss (hash, sync and re-read come before
\* the link).
TargetWhole ==
  \A d \in kept : d.target \in Helpers =>
    Whole(inode[d.target]) /\ inode[d.target].firm = Size

\* A chunk that never reached its file.
Dropped(c, k) == c.data[k] \in {"failed", "zeros"}

\* A sidecar never vouches for bytes that a power loss could take: the data is
\* synced first, the record is replaced second.  The one exception is a chunk
\* whose write failed behind that sync, which TargetWhole keeps unpublished.
DurablePrefix ==
  \A d \in kept, t \in Transfers : d.sidecar[t] \in Receipts =>
    LET c == inode[d.sidecar[t].file]
    IN /\ c.firm >= d.sidecar[t].offset
       /\ \A k \in 1..d.sidecar[t].offset : c.data[k] \in {"right", "wrong"} \/ Dropped(c, k)

\* A Completed answer is final: no later crash of any attempt, and no power
\* loss, takes the published file away; only the user can.
CompletedStays ==
  \A h \in Helpers :
    helper[h].result = "completed" /\ chosen # "removed" =>
      \A d \in kept : /\ d.target \in Helpers
                      /\ helper[h].owned # Nothing => d.target = helper[h].owned

\* A sidecar left behind by attempts that could resume is always usable: either
\* its file is published and the receipt proves it, or the partial is still
\* there with every byte the record counts, but for a chunk whose write failed.
\* A retry is never locked out of a transfer that had begun to receive, unless
\* an attempt reported that its cleanup stayed incomplete or met such a failure.
SidecarIsResumable ==
  \A t \in Transfers :
    /\ chosen = "nothing"
    /\ \A h \in Helpers : helper[h].id = t =>
         helper[h].mode = "resume" /\ helper[h].result # "cleanup_incomplete"
    /\ live.sidecar[t] \in Receipts /\ ~Held(t)
    => LET r == live.sidecar[t]
       IN IF live.target = r.file
         THEN r.offset = Size
         ELSE /\ r.state = "receiving"
              /\ live.partial[t] = r.file
              /\ \/ FileLength(inode[r.file]) >= r.offset
                 \/ Dropped(inode[r.file], r.offset)

\* What a sidecar says is on disk, and whoever finds it can go on from it.
SidecarIsTrue == DurablePrefix /\ SidecarIsResumable

\* An attempt that answers with the plain failure code did not publish: once
\* the link exists every error is reported as unknown or incomplete.
FailureDidNotPublish ==
  [][\A h \in Helpers :
       /\ helper[h].pc # "done"
       /\ helper'[h].pc = "done" /\ helper'[h].result = "transfer_failed"
       /\ helper'[h].owned # Nothing
       => live'.target # helper'[h].owned]_vars

\* Whatever holds the target name is never replaced by another file; only a
\* power loss can bring back an entry the user had just removed.
NoReplace ==
  [][live'.target # live.target /\ live' \notin kept
       => Nothing \in {live.target, live'.target}]_vars

\* A file is published by the attempt that says so, and in nobody's place.
PublishesHonestly == FailureDidNotPublish /\ NoReplace
=============================================================================
