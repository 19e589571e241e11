----------------------------- MODULE Workbench -----------------------------
(***************************************************************************)
(* The desktop workbench: one event-loop thread that owns the application  *)
(* state (ui), background tasks that answer it with one message each, the  *)
(* workers behind an open shell or tunnel, and a vault that other commands *)
(* change at the same time.                                                *)
(*                                                                         *)
(* A task's slot is also its operation id, its tunnel instance and, once   *)
(* it has opened a shell or tunnel, its worker: the code takes each from a *)
(* counter of its own and only ever compares ids of one kind.  The counters*)
(* that are compared for equality (profile generation, refresh epoch,      *)
(* directory generation) are kept as flags of the contexts that hold them: *)
(* advancing a counter clears the flag of every context issued before.     *)
(* Deadlines are kept as the time that is left.  What the user types into  *)
(* a form is valid: a refused form changes nothing.                        *)
(***************************************************************************)
EXTENDS Naturals, FiniteSets, FiniteSetsExt

CONSTANTS Profiles,    \* profile names: numbers, in the order of the list
          None,        \* an absent value
          MaxVersion,  \* bound on the identities the vault issues, to one name after another
          GrantTtl,    \* UI_AUTHORIZATION_TTL
          AdminTtl,    \* UI_ADMIN_AUTHORIZATION_TTL
          Ids,         \* slots for tasks and workers: bounds how many exist at once
          Tokens,      \* the passphrases the workbench may generate
          MaxInstance, \* bound on the times a daemon is started for one profile
          Sessions,    \* bound: the sets of features a user turns to in one session
          Windows      \* the platform: creating and recovering need the administrator

ASSUME WorkbenchAssumption ==
    /\ Profiles \subseteq Nat \ {0} /\ IsFiniteSet(Profiles)
    /\ Ids \subseteq Nat \ {0} /\ Tokens \subseteq Nat \ {0}
    /\ MaxVersion \in Nat /\ GrantTtl \in Nat \ {0} /\ AdminTtl \in Nat \ {0}
    /\ MaxInstance \in Nat /\ Windows \in BOOLEAN

VARIABLES ui,      \* SerctlApp, its tasks and its workers
          vault,   \* the identity of every profile, its generated passphrase, the admin policy
          uses,    \* the features this session turns to
          fate     \* what became of each generated passphrase, as the user was told

desktop == <<ui, vault, uses, fate>>

-----------------------------------------------------------------------------
(* Reading the state                                                       *)

RandomActions == {"passphrase", "recover", "reset"}

\* ProfileIdentity of a listed profile; 0 when the list has no such row.
profile_identity(u, p) == IF p = None THEN 0 ELSE u.rows[p]

is_busy(u) == u.active # {}

\* UiAuthorizations::get: a grant is for one name and one identity, and ends.
GrantOf(u, p, v) == /\ u.grants[p] # None
                    /\ u.grants[p].ident = v
                    /\ u.grants[p].left > 0

profile_is_authorized_at(u, p) == /\ p # None
                                  /\ u.rows[p] # 0
                                  /\ GrantOf(u, p, u.rows[p])

\* Mutant: the generation is not compared.
operation_is_current_any_visit(u, t) ==
    /\ t.profile = None \/ u.selected = t.profile
    /\ t.ident = 0 \/ profile_identity(u, t.profile) = t.ident

operation_is_current(u, t) ==
    /\ t.current
    /\ t.profile = None \/ u.selected = t.profile
    /\ t.ident = 0 \/ profile_identity(u, t.profile) = t.ident

protected_operation_is_current_at(u, t) ==
    /\ operation_is_current(u, t)
    /\ t.profile # None /\ t.ident # 0
    /\ GrantOf(u, t.profile, t.ident)

\* The panels behind an open dialog, or behind a vault to migrate, are not drawn.
Workspace(u) == /\ u.phase = "open"
                /\ ~u.legacy /\ ~u.adminDialog
                /\ u.security = None /\ u.editor = None /\ u.deleting = None

Dialogs(u) == u.phase = "open" /\ ~u.legacy /\ ~u.adminDialog

tunnel_for_profile_is_active_or_stopping(u, p) ==
    \/ u.pending # 0 /\ u.tasks[u.pending].profile = p
    \/ u.tunnel # None /\ u.tunnel.profile = p
    \/ \E i \in Ids : u.stops[i] = p

\* What must be disconnected before a profile's passphrase may change.
Attached(u, p) == \/ tunnel_for_profile_is_active_or_stopping(u, p)
                  \/ u.shell # None /\ u.shell.profile = p
                  \/ u.owned[p] # 0

HeldIds(u) == {h.id : h \in {u.shell, u.tunnel} \ {None}}
FreeIds(u) == {i \in Ids : u.tasks[i] = None /\ i \notin u.workers /\ u.stops[i] = None}
                  \ HeldIds(u)

-----------------------------------------------------------------------------
(* Pieces of the handlers, as functions of the application state           *)

\* UiOperations::begin and send_future: the operation is active until it is
\* finished, and its task ends by sending one message.
Task(kind, p, v, arg) ==
    [kind |-> kind, profile |-> p, ident |-> v, arg |-> arg, current |-> TRUE,
     fresh |-> TRUE, phase |-> "running", left |-> 0, aborted |-> FALSE]

begin(u, t) == LET i == Min(FreeIds(u))
               IN  [u EXCEPT !.tasks[i] = t, !.active = @ \cup {i}]

finish(u, i) == [u EXCEPT !.active = @ \ {i}, !.tasks[i] = None]

\* The outstanding operations of some kinds, and what a later comparison with
\* their context will find.
Outstanding(u, kinds) == {i \in Ids : u.tasks[i] # None /\ u.tasks[i].kind \in kinds}

Mark(u, S, field, value) ==
    [u EXCEPT !.tasks = [i \in Ids |-> IF i \in S THEN [@[i] EXCEPT ![field] = value] ELSE @[i]]]

Outdated(u, kinds) == Mark(u, Outstanding(u, kinds), "fresh", FALSE)

next_refresh_epoch(u) == Outdated(u, {"refresh"})

advance_profile_generation(u) ==
    Mark(u, {i \in Ids : u.tasks[i] # None} \ Outstanding(u, {"refresh"}), "current", FALSE)

cancel_transfers(u) == Mark(u, Outstanding(u, {"transfer"}), "aborted", TRUE)

invalidate_directory_context(u) == [Outdated(u, {"list", "mkdir"}) EXCEPT !.listing = None]

\* GuiShell::cancel, GuiTunnel::cancel, and the Drop of either.
Drop(u, h) == [u EXCEPT !.workers = @ \ {h.id}]

close_shell(u) == IF u.shell = None THEN u
                  ELSE [Drop(u, u.shell) EXCEPT !.shell = None]

\* The operation ends here; the aborted task may still send its message.
cancel_pending_tunnel_start(u) ==
    IF u.pending = 0 THEN u
    ELSE [u EXCEPT !.active = @ \ {u.pending},
                   !.tasks[u.pending].aborted = TRUE,
                   !.stops[u.pending] = u.tasks[u.pending].profile,
                   !.pending = 0]

stop_active_tunnel(u) ==
    IF u.tunnel = None THEN u
    ELSE [Drop(u, u.tunnel) EXCEPT !.stops[u.tunnel.id] = u.tunnel.profile, !.tunnel = None]

stop_tunnel_for_profile(u, p) ==
    LET a == IF u.pending # 0 /\ u.tasks[u.pending].profile = p
             THEN cancel_pending_tunnel_start(u) ELSE u
    IN  IF a.tunnel # None /\ a.tunnel.profile = p THEN stop_active_tunnel(a) ELSE a

clear_protected_profile_workspace(u, p) ==
    LET a == cancel_transfers(next_refresh_epoch(u))
        b == IF a.shell # None /\ a.shell.profile = p THEN close_shell(a) ELSE a
        c == stop_tunnel_for_profile(b, p)
        d == IF c.selected = p
             THEN [invalidate_directory_context(c) EXCEPT !.output = None] ELSE c
    IN  [d EXCEPT !.status = @ \ {p},
                  !.security = IF @ # None /\ @.profile = p THEN None ELSE @,
                  !.editor = None, !.deleting = None]

clear_all_protected_sessions(u) ==
    [invalidate_directory_context(stop_active_tunnel(cancel_pending_tunnel_start(
        close_shell(cancel_transfers(u)))))
        EXCEPT !.output = None, !.editor = None, !.deleting = None]

revoke_profile(u, p) == [u EXCEPT !.grants[p] = None]

expire_authorizations_and_protected_sessions(u) ==
    LET gone == {p \in Profiles : u.grants[p] # None /\ u.grants[p].left = 0}
    IN  FoldSet(LAMBDA p, v : clear_protected_profile_workspace(revoke_profile(v, p), p), u, gone)

expire_admin_authorization(u) == [u EXCEPT !.admin = IF @ = 0 THEN None ELSE @]

\* A tunnel is revoked before the generation advances, so that no hidden
\* listener survives a switch.
invalidate_profile_context(u) ==
    LET a == advance_profile_generation(stop_active_tunnel(cancel_pending_tunnel_start(u)))
        b == close_shell(invalidate_directory_context(cancel_transfers(a)))
    IN  [b EXCEPT !.security = None, !.output = None, !.deleting = None]

select_profile(u, p) ==
    IF u.selected = p THEN u ELSE invalidate_profile_context([u EXCEPT !.selected = p])

refresh(u) ==
    IF u.legacy THEN u
    ELSE LET a == next_refresh_epoch(expire_authorizations_and_protected_sessions(u))
             keys == [p \in Profiles |-> IF a.grants[p] = None THEN 0 ELSE a.grants[p].ident]
         IN  begin(a, Task("refresh", None, 0, [keys |-> keys, rows |-> None, up |-> {}]))

open_admin_dialog(u) ==
    begin([u EXCEPT !.adminDialog = TRUE, !.adminStatus = None], Task("adminstatus", None, 0, 0))

AdminValid(u) == u.admin # None /\ u.admin > 0

\* The editor may be emptied by the expiry that the check of the grant runs:
\* the credentials are read from it only afterwards.
save_profile(u, name) ==
    LET from == u.editor.original
        affected == IF from # None THEN from ELSE u.selected
        v == IF from = None THEN u ELSE expire_authorizations_and_protected_sessions(u)
    IN  IF \/ affected # None /\ tunnel_for_profile_is_active_or_stopping(u, affected)
           \/ from # None /\ u.rows[from] # u.editor.ident
        THEN u
        ELSE IF from = None /\ Windows /\ ~AdminValid(u)
        THEN open_admin_dialog([u EXCEPT !.pendingCreate = TRUE, !.admin = None])
        ELSE IF from # None /\ ~profile_is_authorized_at(v, from)
        THEN v
        ELSE begin(v, Task("save", v.selected, u.editor.ident,
                           [from |-> from, to |-> name, blank |-> v.editor = None]))

remove_cached_profile_rows(u, from, to) ==
    [u EXCEPT !.rows = [p \in Profiles |-> IF p \in {from, to} THEN 0 ELSE @[p]],
              !.status = @ \ {from, to}]

\* security_dialog_identity: the row must still be the one the dialog was opened on.
DialogIsCurrent(u) == u.rows[u.security.profile] = u.security.ident

submit_profile_passphrase_change(u, token) ==
    LET p == u.security.profile
    IN  IF Attached(u, p) THEN u
        ELSE begin(revoke_profile(u, p), Task("passphrase", p, u.security.ident, token))

submit_profile_recovery(u, token) ==
    LET p == u.security.profile
    IN  IF Attached(u, p) THEN u
        ELSE IF ~AdminValid(u) THEN expire_admin_authorization(u)
        ELSE begin(u, Task("recover", p, u.security.ident, token))

submit_destructive_profile_reset(u, token) ==
    LET p == u.security.profile
    IN  IF Attached(u, p) THEN u
        ELSE IF ~AdminValid(u) THEN expire_admin_authorization(u)
        ELSE begin(u, Task("reset", p, u.security.ident, token))

SubmitSecurity(u, action, token) ==
    CASE action = "passphrase" -> submit_profile_passphrase_change(u, token)
      [] action = "recover"    -> submit_profile_recovery(u, token)
      [] action = "reset"      -> submit_destructive_profile_reset(u, token)

-----------------------------------------------------------------------------
(* The program starts                                                      *)

Blank(legacy) ==
    [phase |-> "open", legacy |-> legacy,
     rows |-> [p \in Profiles |-> 0], status |-> {}, selected |-> None,
     grants |-> [p \in Profiles |-> None], admin |-> None,
     editor |-> None, security |-> None, deleting |-> None,
     adminDialog |-> FALSE, adminStatus |-> None, pendingCreate |-> FALSE,
     output |-> None, listing |-> None, shell |-> None, tunnel |-> None,
     pending |-> 0, stops |-> [i \in Ids |-> None], owned |-> [p \in Profiles |-> 0],
     active |-> {}, tasks |-> [i \in Ids |-> None], workers |-> {}]

WorkbenchInit ==
    /\ uses \in Sessions
    /\ vault \in [ident : {[p \in Profiles |-> 1]}, last : {1},
                  key : {[p \in Profiles |-> 0]}, ready : BOOLEAN,
                  legacy : BOOLEAN]
    /\ vault.legacy => ~vault.ready
    /\ "admin" \in uses \/ vault.ready \/ vault.legacy
    /\ ui = refresh(Blank(vault.legacy))
    /\ fate = [k \in Tokens |-> "unused"]

-----------------------------------------------------------------------------
(* The user                                                                *)

Staged(u, k) == /\ u.security # None /\ u.security.random # None
                /\ u.security.random.token = k
PassphraseInFlight(u, k) == \E i \in Ids : /\ u.tasks[i] # None /\ u.tasks[i].kind \in RandomActions
                                 /\ u.tasks[i].arg = k

\* A generated passphrase that leaves the dialog was submitted or dropped; the
\* user had said that it is kept safe, or had not.
Told == /\ fate' = [k \in Tokens |->
               IF Staged(ui', k) THEN IF ui'.security.random.saved THEN "kept" ELSE "shown"
               ELSE IF fate[k] \notin {"shown", "kept"} THEN fate[k]
               ELSE IF ~PassphraseInFlight(ui', k) THEN "dropped"
               ELSE IF fate[k] = "kept" THEN "submitted" ELSE "unasked"]
        /\ UNCHANGED uses

Do(u) == ui' = u /\ UNCHANGED vault /\ Told
Ready == ~is_busy(ui) /\ FreeIds(ui) # {}

SelectProfile == \E p \in Profiles :
    /\ Workspace(ui) /\ ui.rows[p] # 0 /\ ui.selected # p
    /\ Do(select_profile(ui, p))

authorize ==
    /\ Workspace(ui) /\ Ready /\ profile_identity(ui, ui.selected) # 0
    /\ Do(begin(ui, Task("authorize", ui.selected, ui.rows[ui.selected], 0)))

revoke_profile_authorization ==
    /\ Workspace(ui) /\ Ready /\ profile_is_authorized_at(ui, ui.selected)
    /\ Do([clear_protected_profile_workspace(revoke_profile(ui, ui.selected), ui.selected)
              EXCEPT !.security = None])

revoke_all_authorizations ==
    /\ Workspace(ui) /\ Ready
    /\ Cardinality({p \in Profiles : ui.grants[p] # None}) > 1
    /\ Do(clear_all_protected_sessions([ui EXCEPT !.grants = [p \in Profiles |-> None]]))

Refresh == Workspace(ui) /\ Ready /\ Do(refresh(ui))

\* What has expired is cleared first; the operation goes on from there.
Unexpired == expire_authorizations_and_protected_sessions(ui)

required_authorized_profile_grant(feature) ==
    /\ feature \in uses /\ Workspace(ui) /\ Ready
    /\ profile_is_authorized_at(Unexpired, Unexpired.selected)

\* An operation on the selected profile is begun.
Ask(kind, u, arg) == begin(u, Task(kind, u.selected, u.rows[u.selected], arg))

execute ==
    /\ required_authorized_profile_grant("command")
    /\ Do([Ask("command", Unexpired, 0) EXCEPT !.output = None])

refresh_directory ==
    /\ required_authorized_profile_grant("files")
    /\ Do(Ask("list", Outdated(Unexpired, {"list", "mkdir"}), 0))

create_remote_directory ==
    required_authorized_profile_grant("files") /\ Do(Ask("mkdir", Unexpired, 0))

EditPath == Workspace(ui) /\ ui.listing # None /\ Do(invalidate_directory_context(ui))

start_upload ==
    required_authorized_profile_grant("transfer") /\ Do(Ask("transfer", Unexpired, 0))

start_download ==
    /\ ui.listing # None /\ required_authorized_profile_grant("transfer")
    /\ Do(Ask("transfer", Unexpired, 0))

CancelTransfers ==
    /\ ui.phase = "open"
    /\ \E i \in Ids : ui.tasks[i] # None /\ ui.tasks[i].kind = "transfer" /\ ~ui.tasks[i].aborted
    /\ Do(cancel_transfers(ui))

start_shell ==
    /\ ui.shell = None /\ required_authorized_profile_grant("shell")
    /\ Do(Ask("shell", Unexpired, 0))

CloseShell == Workspace(ui) /\ ui.shell # None /\ Do(close_shell(ui))

start_tunnel ==
    /\ ui.tunnel = None /\ ui.pending = 0 /\ \A i \in Ids : ui.stops[i] = None
    /\ required_authorized_profile_grant("tunnel")
    /\ Do([Ask("tunnel", Unexpired, 0) EXCEPT !.pending = Min(FreeIds(Unexpired))])

StopTunnel ==
    /\ Workspace(ui) /\ profile_is_authorized_at(ui, ui.selected)
    /\ ui.tunnel # None \/ ui.pending # 0
    /\ \A i \in Ids : ui.stops[i] = None
    /\ Do(stop_tunnel_for_profile(ui, ui.selected))

start_daemon ==
    /\ ui.selected # None /\ ui.selected \notin ui.status
    /\ ui.owned[ui.selected] < MaxInstance
    /\ required_authorized_profile_grant("daemon")
    /\ Do(Ask("start", Unexpired, Unexpired.owned[Unexpired.selected] + 1))

stop_daemon ==
    /\ ui.selected \in ui.status
    /\ required_authorized_profile_grant("daemon")
    /\ Do(Ask("stop", stop_tunnel_for_profile(Unexpired, Unexpired.selected),
              Unexpired.owned[Unexpired.selected]))

-----------------------------------------------------------------------------
(* The dialogs                                                             *)

Unlocked == Workspace(ui) /\ Ready /\ profile_is_authorized_at(ui, ui.selected)

\* A new profile, or the selected one when it is not connected.
open_editor ==
    /\ "editor" \in uses /\ Workspace(ui) /\ Ready
    /\ \/ Do([ui EXCEPT !.pendingCreate = FALSE, !.editor = [original |-> None, ident |-> 0]])
       \/ /\ Unlocked /\ ui.selected \notin ui.status
          /\ Do([ui EXCEPT !.pendingCreate = FALSE,
                           !.editor = [original |-> ui.selected, ident |-> ui.rows[ui.selected]]])

Save == \E name \in Profiles :
    /\ Dialogs(ui) /\ ui.editor # None /\ Ready
    /\ Do(save_profile(ui, name))

CancelEditor ==
    /\ Dialogs(ui) /\ ui.editor # None
    /\ Do([ui EXCEPT !.pendingCreate = FALSE, !.editor = None])

AskDelete == "delete" \in uses /\ Unlocked /\ Do([ui EXCEPT !.deleting = ui.selected])

CancelDelete == Dialogs(ui) /\ ui.deleting # None /\ Do([ui EXCEPT !.deleting = None])

\* A profile whose tunnel runs, or whose grant is gone, stays a candidate.
remove_profile ==
    LET p == ui.deleting
        v == expire_authorizations_and_protected_sessions([ui EXCEPT !.deleting = None])
    IN  /\ Dialogs(ui) /\ p # None /\ Ready
        /\ Do(IF tunnel_for_profile_is_active_or_stopping(ui, p) THEN ui
              ELSE IF ~profile_is_authorized_at(v, p) THEN [v EXCEPT !.deleting = p]
              ELSE begin(v, Task("remove", p, v.rows[p], 0)))

open_security_dialog ==
    /\ "security" \in uses /\ Unlocked /\ ui.selected \notin ui.status
    /\ Do([ui EXCEPT !.security = [profile |-> ui.selected, ident |-> ui.rows[ui.selected],
                                   random |-> None]])

Security == Dialogs(ui) /\ ui.security # None

change_profile_passphrase ==
    /\ Security /\ Ready /\ ui.security.random = None /\ DialogIsCurrent(ui)
    /\ Do(submit_profile_passphrase_change(ui, 0))

recover_profile_preserving_credentials ==
    /\ Security /\ Ready /\ ui.security.random = None /\ DialogIsCurrent(ui) /\ Windows
    /\ AdminValid(ui)
    /\ Do(submit_profile_recovery(ui, 0))

destructively_reset_profile ==
    /\ Security /\ Ready /\ ui.security.random = None /\ DialogIsCurrent(ui)
    /\ AdminValid(ui)
    /\ Do(submit_destructive_profile_reset(ui, 0))

\* The generated passphrase is shown; the vault is not changed yet.
stage_random_profile_passphrase == \E a \in RandomActions, k \in Tokens :
    /\ Security /\ Ready /\ ui.security.random = None /\ DialogIsCurrent(ui)
    /\ ~Attached(ui, ui.security.profile)
    /\ a # "passphrase" => AdminValid(ui)
    /\ a = "recover" => Windows
    /\ fate[k] = "unused"
    /\ Do([ui EXCEPT !.security.random =
              [action |-> a, ident |-> ui.security.ident, token |-> k, saved |-> FALSE]])

ConfirmSaved ==
    /\ Security /\ ui.security.random # None /\ ~ui.security.random.saved
    /\ Do([ui EXCEPT !.security.random.saved = TRUE])

\* The passphrase leaves the dialog whether or not the operation starts.
commit_pending_random_profile_action ==
    LET r == ui.security.random
        v == [ui EXCEPT !.security.random = None]
    IN  /\ Security /\ Ready /\ r # None /\ r.saved
        /\ Do(IF ui.security.ident # r.ident \/ ui.rows[ui.security.profile] # r.ident THEN v
              ELSE SubmitSecurity(v, r.action, r.token))

discard_pending_random_profile_action ==
    /\ Security /\ ~is_busy(ui) /\ ui.security.random # None
    /\ Do([ui EXCEPT !.security.random = None])

CloseSecurity == Security /\ ~is_busy(ui) /\ Do([ui EXCEPT !.security = None])

\* From the sidebar, and from a dialog whose action needs the administrator.
OpenAdmin ==
    /\ \/ Workspace(ui) /\ ~is_busy(ui)
       \/ Security /\ ui.security.random = None /\ ~AdminValid(ui)
    /\ "admin" \in uses /\ FreeIds(ui) # {}
    /\ Do(open_admin_dialog([ui EXCEPT !.pendingCreate = FALSE]))

AdminForm == ui.phase = "open" /\ ~ui.legacy /\ ui.adminDialog /\ Ready

authorize_admin ==
    /\ AdminForm
    /\ \/ ui.adminStatus = "ready" /\ ~AdminValid(ui)
       \/ ui.adminStatus = "uninitialized" /\ ~Windows
    /\ Do(begin(ui, Task("admin", None, 0, 0)))

initialize_admin_and_recovery ==
    /\ AdminForm /\ ui.adminStatus = "uninitialized" /\ Windows
    /\ Do(begin(ui, Task("admininit", None, 0, 0)))

change_admin_password ==
    /\ AdminForm /\ ui.adminStatus = "ready" /\ Windows /\ AdminValid(ui)
    /\ Do(begin(ui, Task("adminchange", None, 0, 0)))

rotate_recovery_media ==
    /\ AdminForm /\ ui.adminStatus = "ready" /\ Windows /\ AdminValid(ui)
    /\ Do(begin(ui, Task("rotate", None, 0, 0)))

RevokeAdmin ==
    /\ ui.phase = "open" /\ ui.adminDialog /\ ui.adminStatus = "ready" /\ AdminValid(ui)
    /\ Do([ui EXCEPT !.admin = None])

CloseAdmin ==
    /\ ui.phase = "open" /\ ui.adminDialog /\ ~is_busy(ui)
    /\ Do([ui EXCEPT !.pendingCreate = FALSE, !.adminDialog = FALSE])

submit_v2_migration ==
    /\ ui.phase = "open" /\ ui.legacy /\ Windows /\ Ready
    /\ Do(begin(ui, Task("migrate", None, 0, 0)))

-----------------------------------------------------------------------------
(* Background tasks: each ends with one message                            *)

Answered(i, phase) == [ui EXCEPT !.tasks[i].phase = phase]

Running(i, kinds) == /\ ui.tasks[i] # None
                     /\ ui.tasks[i].phase = "running"
                     /\ ui.tasks[i].kind \in kinds

\* Nothing but the message tells how these ended: it is settled when it arrives.
Remote == {"command", "start", "stop", "list", "mkdir", "transfer", "adminchange", "rotate"}

\* A refusal, a timeout, a join error.
TaskFails == \E i \in Ids :
    /\ ui.tasks[i] # None /\ ui.tasks[i].phase = "running"
    /\ ui.tasks[i].kind \notin Remote /\ ~ui.tasks[i].aborted
    /\ Do(Answered(i, "failed"))

verify_ui_authorization == \E i \in Ids :
    /\ Running(i, {"authorize"})
    /\ vault.ident[ui.tasks[i].profile] = ui.tasks[i].ident
    /\ Do([Answered(i, "ok") EXCEPT !.tasks[i].left = GrantTtl])

verify_ui_admin_authorization == \E i \in Ids :
    /\ Running(i, {"admin"})
    /\ Do([Answered(i, "ok") EXCEPT !.tasks[i].left = AdminTtl])

ReadAdminStatus == \E i \in Ids :
    /\ Running(i, {"adminstatus"})
    /\ Do([Answered(i, "ok") EXCEPT
              !.tasks[i].arg = IF vault.ready THEN "ready" ELSE "uninitialized"])

\* Only a profile whose grant was cached for the listed identity is probed.
load_profile_rows == \E i \in Ids :
    /\ Running(i, {"refresh"})
    /\ \E up \in SUBSET {p \in Profiles : /\ vault.ident[p] # 0
                                          /\ ui.tasks[i].arg.keys[p] = vault.ident[p]} :
          Do([Answered(i, "ok") EXCEPT !.tasks[i].arg.rows = vault.ident, !.tasks[i].arg.up = up])

open_gui_shell_or_tunnel == \E i \in Ids :
    /\ Running(i, {"shell", "tunnel"})
    /\ Do([Answered(i, "ok") EXCEPT !.workers = @ \cup {i}])

\* An aborted start is dropped with what it had opened.
AbortTunnelStart == \E i \in Ids :
    /\ Running(i, {"tunnel"}) /\ ui.tasks[i].aborted
    /\ Do([ui EXCEPT !.tasks[i] = None])

\* The vault commits, and the caller may still be told of an error.
Commit(i, v) == /\ vault' = v
                /\ ui' \in {Answered(i, "ok"), Answered(i, "failed")}
                /\ Told

CanChange == vault.last < MaxVersion
Changed(v, p, k) == [v EXCEPT !.ident[p] = v.last + 1, !.last = v.last + 1, !.key[p] = k]

\* create_profile, update_profile, rename_profile_v3: none takes empty credentials.
SaveCommits == \E i \in Ids :
    /\ Running(i, {"save"})
    /\ LET t == ui.tasks[i]
           from == t.arg.from
           to == t.arg.to
       IN  /\ ~t.arg.blank /\ CanChange
           /\ to # from => vault.ident[to] = 0
           /\ from # None => vault.ident[from] = t.ident
           /\ Commit(i, Changed(IF from = None \/ from = to THEN vault
                                ELSE [vault EXCEPT !.ident[from] = 0], to,
                                IF from = None THEN 0 ELSE vault.key[from]))

\* change_profile_passphrase, recover_profile_with_media, admin_reset_profile.
PassphraseCommits == \E i \in Ids :
    /\ Running(i, RandomActions)
    /\ LET t == ui.tasks[i]
       IN  /\ vault.ident[t.profile] = t.ident /\ CanChange
           /\ t.kind = "recover" => vault.ready
           /\ Commit(i, Changed(vault, t.profile, t.arg))

RemoveCommits == \E i \in Ids :
    /\ Running(i, {"remove"})
    /\ vault.ident[ui.tasks[i].profile] = ui.tasks[i].ident
    /\ Commit(i, [vault EXCEPT !.ident[ui.tasks[i].profile] = 0, !.key[ui.tasks[i].profile] = 0])

AdminCommits == \E i \in Ids :
    \/ Running(i, {"admininit"}) /\ ~vault.ready /\ Commit(i, [vault EXCEPT !.ready = TRUE])
    \/ /\ Running(i, {"migrate"}) /\ vault.legacy
       /\ Commit(i, [vault EXCEPT !.legacy = FALSE, !.ready = TRUE])

-----------------------------------------------------------------------------
(* receive_messages: one action per message                                *)

\* The messages of a kind that may be received now, each with its operation as
\* it ended.  They arrive in any order: a send may be delayed for as long as one likes.
Received(kind) ==
    {m \in {[id |-> i, task |-> [ui.tasks[i] EXCEPT !.phase = end]] :
               i \in Outstanding(ui, {kind}), end \in {"ok", "failed"}} :
        ui.phase = "open" /\ (kind \in Remote \/ ui.tasks[m.id].phase = m.task.phase)}

Shown(t) == [profile |-> t.profile, ident |-> t.ident, visit |-> t.current]
Held(t, i) == [id |-> i, profile |-> t.profile, ident |-> t.ident]

ReceiveAuthorization == \E m \in Received("authorize") :
    LET u == finish(ui, m.id)
        t == m.task
    IN  Do(IF ~operation_is_current(u, t) \/ t.phase = "failed" THEN u
           ELSE refresh([u EXCEPT !.grants[t.profile] = [ident |-> t.ident, left |-> t.left]]))

\* The save that opened the dialog goes on by itself, if its editor is still there.
ReceiveAdminAuthorization == \E name \in Profiles, m \in Received("admin") :
    LET u == finish(ui, m.id)
        t == m.task
        v == [u EXCEPT !.pendingCreate = FALSE, !.admin = t.left]
    IN  Do(IF ~operation_is_current(u, t) THEN [u EXCEPT !.pendingCreate = FALSE]
           ELSE IF t.phase = "failed" THEN u
           ELSE IF u.pendingCreate /\ u.editor # None /\ u.editor.original = None
           THEN save_profile([v EXCEPT !.adminDialog = FALSE], name)
           ELSE v)

ReceiveAdminStatus == \E m \in Received("adminstatus") :
    LET u == finish(ui, m.id)
        t == m.task
    IN  Do(IF ~operation_is_current(u, t) \/ t.phase = "failed" THEN u
           ELSE [u EXCEPT !.adminStatus = t.arg])

ReceiveAdminInitialized == \E m \in Received("admininit") :
    LET u == finish(ui, m.id)
        t == m.task
    IN  Do(IF t.phase = "failed" THEN u
           ELSE [open_admin_dialog([u EXCEPT !.admin = None]) EXCEPT !.legacy = vault.legacy])

ReceiveAdminPasswordChanged == \E m \in Received("adminchange") : Do([finish(ui, m.id) EXCEPT !.admin = None])

ReceiveRecoveryRotated == \E m \in Received("rotate") : Do([finish(ui, m.id) EXCEPT !.admin = None])

ReceiveMigrated == \E m \in Received("migrate") :
    LET u == finish(ui, m.id)
        t == m.task
    IN  Do(IF t.phase = "failed" THEN u ELSE refresh([u EXCEPT !.legacy = vault.legacy]))

ProfileReset(u, t) ==
    LET v == [revoke_profile(u, t.profile) EXCEPT !.admin = None]
    IN  IF t.phase = "failed" THEN v
        ELSE refresh([clear_protected_profile_workspace(v, t.profile) EXCEPT !.security = None])

ReceiveProfileRecovered == \E m \in Received("recover") : Do(ProfileReset(finish(ui, m.id), m.task))
ReceiveProfileReset == \E m \in Received("reset") : Do(ProfileReset(finish(ui, m.id), m.task))

\* Only the newest refresh counts.  Grants, dialogs and the selection follow the list.
Listed(u, rows, up) ==
    LET sel == u.selected
        Stale(d) == d # None /\ rows[d.profile] # d.ident
        a == [u EXCEPT !.rows = rows, !.status = up,
                  !.security = IF Stale(@) THEN None ELSE @,
                  !.editor = IF @ # None /\ @.original # None /\ rows[@.original] # @.ident
                             THEN None ELSE @,
                  !.grants = [p \in Profiles |->
                                 IF @[p] # None /\ @[p].ident # rows[p] THEN None ELSE @[p]]]
        lost == a.grants # u.grants
        b == IF lost /\ sel # None /\ rows[sel] # 0 /\ ~profile_is_authorized_at(a, sel)
             THEN clear_protected_profile_workspace(a, sel) ELSE a
        there == {p \in Profiles : rows[p] # 0}
    IN  IF sel = None \/ sel \notin there
        THEN select_profile(b, IF there = {} THEN None ELSE Min(there))
        ELSE IF u.rows[sel] # 0 /\ rows[sel] # u.rows[sel] THEN invalidate_profile_context(b)
        ELSE b

NewestOnly(t) == t.fresh /\ t.phase = "ok"

ReceiveProfiles == \E m \in Received("refresh") :
    LET u == finish(ui, m.id)
        t == m.task
    IN  Do(IF NewestOnly(t) THEN Listed(u, t.arg.rows, t.arg.up) ELSE u)

ReceiveSaved == \E m \in Received("save") :
    LET u == finish(ui, m.id)
        t == m.task
        current == operation_is_current(u, t)
        names == {t.arg.from, t.arg.to} \ {None}
        a == [remove_cached_profile_rows(u, t.arg.from, t.arg.to) EXCEPT !.pendingCreate = FALSE,
                 !.grants = [p \in Profiles |-> IF p \in names THEN None ELSE @[p]]]
        b == IF current \/ u.selected \in names THEN invalidate_profile_context(a) ELSE a
        c == IF current THEN select_profile([b EXCEPT !.editor = None], t.arg.to) ELSE b
    IN  Do(IF t.phase = "failed" THEN u ELSE refresh(c))

ReceivePassphraseChanged == \E m \in Received("passphrase") :
    LET u == finish(ui, m.id)
        t == m.task
        v == revoke_profile(u, t.profile)
        w == clear_protected_profile_workspace(v, t.profile)
    IN  Do(IF t.phase = "failed" THEN v
           ELSE refresh([w EXCEPT !.security = IF operation_is_current(u, t) THEN None ELSE @]))

ReceiveRemoved == \E m \in Received("remove") :
    LET u == finish(ui, m.id)
        t == m.task
        a == [revoke_profile(u, t.profile) EXCEPT !.owned[t.profile] = 0]
        b == IF a.shell # None /\ a.shell.profile = t.profile THEN close_shell(a) ELSE a
    IN  Do(IF t.phase = "failed" THEN u
           ELSE refresh(IF operation_is_current(u, t) THEN select_profile(b, None) ELSE b))

\* The output, or the error in its place.
ReceiveCommand == \E m \in Received("command") :
    LET u == finish(ui, m.id)
        t == m.task
    IN  Do(IF protected_operation_is_current_at(u, t) THEN [u EXCEPT !.output = Shown(t)] ELSE u)

record_owned_daemon(u, p, n) == [u EXCEPT !.owned[p] = IF @ > n THEN @ ELSE n]

ReceiveDaemonStarted == \E m \in Received("start") :
    LET u == finish(ui, m.id)
        t == m.task
    IN  Do(IF t.phase = "failed" THEN u ELSE refresh(record_owned_daemon(u, t.profile, t.arg)))

\* Only the end of the instance that is owned now closes what runs through it.
remove_owned_daemon(u, p, n) ==
    LET a == [u EXCEPT !.owned[p] = 0]
        b == IF a.shell # None /\ a.shell.profile = p THEN close_shell(a) ELSE a
    IN  IF u.owned[p] = n THEN stop_tunnel_for_profile(b, p) ELSE u

ReceiveDaemonStopped == \E m \in Received("stop") :
    LET u == finish(ui, m.id)
        t == m.task
    IN  Do(IF t.phase = "failed" THEN u ELSE refresh(remove_owned_daemon(u, t.profile, t.arg)))

ReceiveDirectory == \E m \in Received("list") :
    LET u == finish(ui, m.id)
        t == m.task
    IN  Do(IF protected_operation_is_current_at(u, t) /\ t.fresh /\ t.phase = "ok"
           THEN [u EXCEPT !.listing = Shown(t)] ELSE u)

ReceiveDirectoryCreated == \E m \in Received("mkdir") : Do(finish(ui, m.id))

ReceiveTransfer == \E m \in Received("transfer") : Do(finish(ui, m.id))

\* A shell that comes too late is cancelled.
ReceiveShellOpened == \E m \in Received("shell") :
    LET u == finish(ui, m.id)
        t == m.task
    IN  Do(IF t.phase = "failed" THEN u
           ELSE IF ~protected_operation_is_current_at(u, t) THEN Drop(u, Held(t, m.id))
           ELSE [close_shell(u) EXCEPT !.shell = Held(t, m.id)])

\* So is a tunnel, and one whose start was cancelled or that would be the second.
ReceiveTunnelStarted == \E m \in Received("tunnel") :
    LET u == finish(ui, m.id)
        t == m.task
        adopt == u.pending = m.id /\ u.tunnel = None /\ protected_operation_is_current_at(u, t)
        v == [u EXCEPT !.pending = IF @ = m.id THEN 0 ELSE @]
    IN  Do(IF t.phase = "failed" THEN v
           ELSE IF adopt THEN [v EXCEPT !.tunnel = Held(t, m.id)]
           ELSE Drop(v, Held(t, m.id)))

\* Sent when the tunnel has ended, or after TUNNEL_EXIT_GRACE.
ReceiveTunnelEnded == \E i \in Ids :
    /\ ui.phase = "open" /\ ui.stops[i] # None
    /\ Do([ui EXCEPT !.stops[i] = None])

receive_shell_events ==
    /\ ui.phase = "open" /\ ui.shell # None /\ ui.shell.id \notin ui.workers
    /\ Do(close_shell(ui))

receive_tunnel_events ==
    /\ ui.phase = "open" /\ ui.tunnel # None /\ ui.tunnel.id \notin ui.workers
    /\ Do(stop_active_tunnel(ui))

\* The head of every frame: the administrator's grant waits for the profiles'.
logic ==
    LET v == expire_authorizations_and_protected_sessions(ui)
    IN  /\ ui.phase = "open"
        /\ v # ui \/ ui.admin = 0
        /\ Do(IF v # ui THEN v ELSE expire_admin_authorization(ui))

-----------------------------------------------------------------------------
(* Time, other commands, workers, the end                                  *)

Down(n) == IF n > 0 THEN n - 1 ELSE 0

Tick == /\ ui.phase = "open"
        /\ \/ \E p \in Profiles : ui.grants[p] # None /\ ui.grants[p].left > 0
           \/ AdminValid(ui)
           \/ \E i \in Ids : ui.tasks[i] # None /\ ui.tasks[i].left > 0
        /\ Do([ui EXCEPT
              !.grants = [p \in Profiles |-> IF @[p] = None THEN None
                                             ELSE [@[p] EXCEPT !.left = Down(@)]],
              !.admin = IF @ = None THEN None ELSE Down(@),
              !.tasks = [i \in Ids |-> IF @[i] = None THEN None
                                       ELSE [@[i] EXCEPT !.left = Down(@)]]])

\* Another command creates, changes or removes a profile.
OtherCommand == \E p \in Profiles :
    /\ ui.phase = "open" /\ ~vault.legacy /\ CanChange
    /\ LET v == Changed(vault, p, 0) IN vault' \in {v, [v EXCEPT !.ident[p] = 0]}
    /\ UNCHANGED ui /\ Told

\* The remote side closes: noticed once the worker is held.
WorkerEnds == \E i \in ui.workers \cap HeldIds(ui) : Do([ui EXCEPT !.workers = @ \ {i}])

\* The window closes: everything that runs is cancelled before the wait begins.
on_exit ==
    /\ ui.phase = "open"
    /\ LET a == stop_active_tunnel(cancel_pending_tunnel_start(close_shell(cancel_transfers(ui))))
       IN  Do([Blank(FALSE) EXCEPT !.phase = "exiting", !.tasks = a.tasks, !.workers = a.workers])

\* The grace periods end, the messages nobody read are dropped, the runtime ends.
shutdown == ui.phase = "exiting" /\ Do([Blank(FALSE) EXCEPT !.phase = "exited"])

-----------------------------------------------------------------------------
(* The specification                                                       *)

User ==
    \/ SelectProfile \/ authorize \/ revoke_profile_authorization \/ revoke_all_authorizations
    \/ Refresh \/ execute \/ refresh_directory \/ create_remote_directory \/ EditPath
    \/ start_upload \/ start_download \/ CancelTransfers \/ start_shell \/ CloseShell
    \/ start_tunnel \/ StopTunnel \/ start_daemon \/ stop_daemon
    \/ open_editor \/ Save \/ CancelEditor \/ AskDelete \/ CancelDelete \/ remove_profile
    \/ open_security_dialog \/ change_profile_passphrase
    \/ recover_profile_preserving_credentials \/ destructively_reset_profile
    \/ stage_random_profile_passphrase \/ ConfirmSaved \/ commit_pending_random_profile_action
    \/ discard_pending_random_profile_action \/ CloseSecurity
    \/ OpenAdmin \/ authorize_admin \/ initialize_admin_and_recovery \/ change_admin_password
    \/ rotate_recovery_media \/ RevokeAdmin \/ CloseAdmin \/ submit_v2_migration

Background ==
    \/ TaskFails \/ verify_ui_authorization \/ verify_ui_admin_authorization
    \/ ReadAdminStatus \/ load_profile_rows \/ open_gui_shell_or_tunnel \/ AbortTunnelStart
    \/ SaveCommits \/ PassphraseCommits \/ RemoveCommits \/ AdminCommits

receive_messages ==
    \/ ReceiveAuthorization \/ ReceiveAdminAuthorization \/ ReceiveAdminStatus
    \/ ReceiveAdminInitialized \/ ReceiveAdminPasswordChanged \/ ReceiveRecoveryRotated
    \/ ReceiveMigrated \/ ReceiveProfileRecovered \/ ReceiveProfileReset \/ ReceiveProfiles
    \/ ReceiveSaved \/ ReceivePassphraseChanged \/ ReceiveRemoved \/ ReceiveCommand
    \/ ReceiveDaemonStarted \/ ReceiveDaemonStopped \/ ReceiveDirectory
    \/ ReceiveDirectoryCreated \/ ReceiveTransfer \/ ReceiveShellOpened
    \/ ReceiveTunnelStarted \/ ReceiveTunnelEnded

WorkbenchNext ==
        \/ User \/ Background \/ receive_messages
        \/ receive_shell_events \/ receive_tunnel_events \/ logic
        \/ Tick \/ OtherCommand \/ WorkerEnds \/ on_exit \/ shutdown

WorkbenchSpec == WorkbenchInit /\ [][WorkbenchNext]_desktop

-----------------------------------------------------------------------------
(* Properties                                                              *)

WorkbenchTypeOK ==
    /\ DOMAIN ui = DOMAIN Blank(FALSE)
    /\ ui.phase \in {"open", "exiting", "exited"}
    /\ ui.rows \in [Profiles -> 0..MaxVersion] /\ ui.status \subseteq Profiles
    /\ ui.selected \in Profiles \cup {None} /\ ui.active \subseteq Ids
    /\ ui.workers \subseteq Ids
    /\ vault.ident \in [Profiles -> 0..MaxVersion] /\ vault.key \in [Profiles -> Tokens \cup {0}]
    /\ fate \in [Tokens -> {"unused", "shown", "kept", "submitted", "unasked", "dropped"}]

\* A shell, a tunnel and a running transfer belong to the selected profile, to
\* the identity the list shows for it and to a grant that is still cached: they
\* end with the switch, the revocation, the expiry and the change of identity.
HeldIsAuthorized ==
    LET transfers == {ui.tasks[i] : i \in {j \in Ids : /\ ui.tasks[j] # None
                                                       /\ ui.tasks[j].kind = "transfer"
                                                       /\ ~ui.tasks[j].aborted}}
        Backed(h) == /\ ui.selected = h.profile /\ ui.rows[h.profile] = h.ident
                     /\ ui.grants[h.profile] # None
                     /\ ui.grants[h.profile].ident = h.ident
    IN  ui.phase = "open" =>
            \A h \in ({ui.shell, ui.tunnel} \ {None}) \cup transfers : Backed(h)

\* The output and the listing on the screen are those of this visit to the
\* selected profile, as it is listed: a late answer to an earlier one is dropped.
ShownIsCurrent == \A h \in {ui.output, ui.listing} \ {None} :
    h.visit /\ h.profile = ui.selected /\ h.ident = ui.rows[h.profile]

\* No hidden listener: a worker that nobody cancelled is in the application's
\* hands or in a message it has yet to read, and none is left after the end.
NoHiddenWorker == \A i \in ui.workers : i \in HeldIds(ui) \/ ui.tasks[i] # None

\* The vault holds a generated passphrase only if the user had confirmed to have
\* kept it and then submitted it, never one that was only shown or was reported as
\* dropped ("vault not modified"): closing, discarding, expiry and a profile that
\* changed meanwhile included.
VaultAsConfirmed == \A p \in Profiles :
    vault.key[p] # 0 => fate[vault.key[p]] = "submitted"

\* Whatever keeps the workbench busy has a task that will still report: every
\* path that drops a task's message also ends its operation.
BusyWhileTasked == \A i \in ui.active : ui.tasks[i] # None /\ (ui.tasks[i].aborted => ui.tasks[i].kind # "tunnel")

\* What the workbench shows, holds and stores is current, granted and confirmed,
\* and nothing runs that it does not know of.
WorkbenchIsSound ==
    HeldIsAuthorized /\ ShownIsCurrent /\ VaultAsConfirmed /\ NoHiddenWorker /\ BusyWhileTasked

=============================================================================
