----------------------------- MODULE SshConnect -----------------------------
(***************************************************************************)
(* Establishing the SSH session of a profile: one transport attempt, at    *)
(* most one reconnect before authentication, the first-use host-key pin,   *)
(* and the password (serctl_core/src/ssh.rs, connect_key_exchange_until    *)
(* and authenticate_password_until; serctl_daemon/src/daemon.rs,           *)
(* connect_unlocked_session; serctl_core/src/vault.rs, apply_host_pin).    *)
(*                                                                         *)
(* Several unlocks of one profile may be under way: they share a use lease *)
(* and the vault.  Time is counted in units from the start of a connect,   *)
(* and every wait may take any time up to its deadline.                    *)
(***************************************************************************)
EXTENDS Naturals, Sequences

CONSTANTS
    Connectors,   \* unlocks under way
    Limits,       \* the total deadlines in use
    Keys,         \* host keys the peers may show
    NoKey,        \* no key
    FirstKex, RetryKex, Backoff, Cleanup, Margin, \* MIN_FIRST_KEX_WINDOW, MIN_RETRY_KEX_WINDOW,
                  \* PRE_AUTH_RETRY_BACKOFF, TRANSPORT_CLEANUP_TIMEOUT, RETRY_SCHEDULING_MARGIN
    PinWindow, AuthWindow, \* MIN_TOFU_PIN_WINDOW, MIN_PASSWORD_AUTH_WINDOW
    EofBackoff, EofWindow  \* EARLY_EOF_RETRY_BACKOFF, MIN_EARLY_EOF_RETRY_WINDOW

VARIABLES
    limit,     \* the absolute deadline
    spent,     \* time since the connect began
    link,      \* how far the connect is
    tries,     \* transport attempts so far
    hurried,   \* the second attempt is the early-EOF one
    record,    \* SshAttemptRecord of the attempt that failed
    expected,  \* creds.host_key when the profile was decrypted
    shown,     \* the fingerprint observed
    live,      \* transports of this connect that are not released
    pinned,    \* the pin in the vault
    latePins,  \* pins a worker may still store although its connect gave up
    sentTo     \* the keys of the hosts the password was sent to

connecting == <<limit, spent, link, tries, hurried, record, expected, shown, live,
                pinned, latePins, sentTo>>

NoRecord == [heard |-> FALSE, kind |-> "none", confirmed |-> FALSE, released |-> FALSE]

\* What SshAttemptRecord::capture may note of an attempt that failed: whether
\* the peer was heard, the category, whether the local shutdown was confirmed
\* and the transport released.
AttemptRecords == {r \in [heard : BOOLEAN, kind : {"terminal", "eof", "deadline", "other"},
                          confirmed : BOOLEAN, released : BOOLEAN] : r.kind = "eof" => ~r.heard}

ConnectInit ==
    /\ limit \in [Connectors -> Limits]
    /\ spent = [c \in Connectors |-> 0]
    /\ link = [c \in Connectors |-> "start"]
    /\ tries = [c \in Connectors |-> 0]
    /\ hurried = [c \in Connectors |-> FALSE]
    /\ record = [c \in Connectors |-> NoRecord]
    /\ expected = [c \in Connectors |-> NoKey]
    /\ shown = [c \in Connectors |-> NoKey]
    /\ live = [c \in Connectors |-> 0]
    /\ pinned \in {NoKey} \cup Keys
    /\ latePins = {}
    /\ sentTo = [c \in Connectors |-> << >>]

-----------------------------------------------------------------------------
(* ssh_connect_budget.                                                      *)

post_kex_window(c) == AuthWindow + IF expected[c] = NoKey THEN PinWindow ELSE 0

retry_reserve(c) == Cleanup + Backoff + RetryKex + Margin + post_kex_window(c)

retry_enabled(c) == limit[c] >= FirstKex + retry_reserve(c)

first_attempt_deadline(c) ==
    IF retry_enabled(c) THEN limit[c] - retry_reserve(c)
    ELSE IF limit[c] >= FirstKex + post_kex_window(c) THEN limit[c] - post_kex_window(c)
    ELSE limit[c]

retry_attempt_deadline(c) == limit[c] - post_kex_window(c)

attempt_deadline(c) ==
    IF tries[c] = 1 THEN first_attempt_deadline(c)
    ELSE IF hurried[c] THEN limit[c] ELSE retry_attempt_deadline(c)

-----------------------------------------------------------------------------
LinkGoes(c, where) == link' = [link EXCEPT ![c] = where]

\* Time passes, up to a deadline; a wake-up may come Margin late.
Takes(c, until) == \E t \in spent[c]..until : spent' = [spent EXCEPT ![c] = t]

\* The connect is over; what it remembered is forgotten.
LinkEnds(c, how) ==
    /\ LinkGoes(c, how)
    /\ record' = [record EXCEPT ![c] = NoRecord]
    /\ shown' = [shown EXCEPT ![c] = NoKey]
    /\ spent' = [spent EXCEPT ![c] = 0]
    /\ hurried' = [hurried EXCEPT ![c] = FALSE]

\* unlock_profile decrypts the credentials, with the pin they then hold, and
\* starts the first attempt.
StartConnect(c) ==
    /\ link[c] = "start"
    /\ expected' = [expected EXCEPT ![c] = pinned]
    /\ tries' = [tries EXCEPT ![c] = 1]
    /\ live' = [live EXCEPT ![c] = 1]
    /\ LinkGoes(c, "kex")
    /\ UNCHANGED <<limit, spent, hurried, record, shown, pinned, latePins, sentTo>>

\* connect_key_exchange_once_until fails: no TCP connection, a transport error
\* with or without bytes heard, an end of stream before any byte, the attempt's
\* deadline.  stop_and_wait shuts the socket down and waits for its release.
KexFails(c) ==
    /\ link[c] = "kex"
    /\ \E r \in AttemptRecords, cleaning \in 0..Cleanup :
          /\ ~r.released => cleaning = Cleanup
          /\ live' = [live EXCEPT ![c] = IF r.released THEN @ - 1 ELSE @]
          /\ \/ /\ tries[c] = 1
                /\ LinkGoes(c, "failed")
                /\ record' = [record EXCEPT ![c] = r]
                /\ IF r.kind = "deadline"
                   THEN \E late \in 0..Margin :
                           spent' = [spent EXCEPT ![c] = attempt_deadline(c) + cleaning + late]
                   ELSE \E t \in spent[c]..attempt_deadline(c) :
                           spent' = [spent EXCEPT ![c] = t + cleaning]
                /\ UNCHANGED <<hurried, shown>>
             \/ tries[c] = 2 /\ LinkEnds(c, "out")
    /\ UNCHANGED <<limit, tries, expected, pinned, latePins, sentTo>>

\* should_retry_pre_auth_failure
should_retry(r) == /\ ~r.heard
                   /\ r.confirmed
                   /\ r.released
                   /\ r.kind \in {"terminal", "eof", "deadline"}

window_after_backoff(c, deadline, backoff, window) == spent[c] + backoff + window <= deadline

\* connect_key_exchange_with_one_reconnect_until: the reserved retry, or the
\* short one after an early end of stream where the budget reserved none.  The
\* window is checked before the backoff and again after it.
Retry(c) ==
    /\ link[c] = "failed"
    /\ should_retry(record[c])
    /\ \E late \in 0..Margin :
         \/ /\ retry_enabled(c)
            /\ window_after_backoff(c, retry_attempt_deadline(c), Backoff, RetryKex)
            /\ spent[c] + Backoff + late + RetryKex <= retry_attempt_deadline(c)
            /\ spent' = [spent EXCEPT ![c] = @ + Backoff + late]
            /\ UNCHANGED hurried
         \/ /\ ~retry_enabled(c)
            /\ record[c].kind = "eof"
            /\ window_after_backoff(c, limit[c], EofBackoff, EofWindow)
            /\ spent[c] + EofBackoff + late + EofWindow <= limit[c]
            /\ spent' = [spent EXCEPT ![c] = @ + EofBackoff + late]
            /\ hurried' = [hurried EXCEPT ![c] = TRUE]
    /\ tries' = [tries EXCEPT ![c] = 2]
    /\ live' = [live EXCEPT ![c] = @ + 1]
    /\ record' = [record EXCEPT ![c] = NoRecord]
    /\ LinkGoes(c, "kex")
    /\ UNCHANGED <<limit, expected, shown, pinned, latePins, sentTo>>

\* The first error is the answer where there is no retry.
GiveUpConnect(c) ==
    /\ link[c] = "failed"
    /\ LinkEnds(c, "out")
    /\ UNCHANGED <<limit, tries, expected, live, pinned, latePins, sentTo>>

\* check_server_key: any key on first use, else the pinned one.
KeyShown(c) ==
    /\ link[c] = "kex"
    /\ \E k \in Keys :
         \/ /\ expected[c] \in {NoKey, k}
            /\ Takes(c, attempt_deadline(c))
            /\ shown' = [shown EXCEPT ![c] = k]
            /\ LinkGoes(c, IF expected[c] = NoKey THEN "pin" ELSE "auth")
            /\ UNCHANGED <<record, live, hurried>>
         \/ /\ expected[c] \notin {NoKey, k}
            /\ LinkEnds(c, "out")
            /\ live' = [live EXCEPT ![c] = @ - 1]
    /\ UNCHANGED <<limit, tries, expected, pinned, latePins, sentTo>>

\* As apply_host_pin would be if the last unlock won.
apply_host_pin_last(k) == pinned' = k

\* apply_host_pin: fills an absent pin, accepts the same, rejects another.
apply_host_pin(k) == IF pinned = NoKey THEN pinned' = k ELSE pinned = k /\ UNCHANGED pinned

PersistPin(c) ==
    /\ link[c] = "pin"
    /\ Takes(c, limit[c])
    /\ apply_host_pin(shown[c])
    /\ LinkGoes(c, "auth")
    /\ UNCHANGED <<limit, tries, hurried, record, expected, shown, live, latePins, sentTo>>

\* Another fingerprint is stored, the vault cannot be written, or the deadline
\* passes with the blocking worker still running: it may store its pin later.
PinFails(c) ==
    /\ link[c] = "pin"
    /\ latePins' \in {latePins, latePins \cup {shown[c]}}
    /\ LinkEnds(c, "out")
    /\ live' = [live EXCEPT ![c] = @ - 1]
    /\ UNCHANGED <<limit, tries, expected, pinned, sentTo>>

LatePin(k) ==
    /\ k \in latePins
    /\ latePins' = latePins \ {k}
    /\ pinned' = IF pinned = NoKey THEN k ELSE pinned
    /\ UNCHANGED <<limit, spent, link, tries, hurried, record, expected, shown, live, sentTo>>

\* authenticate_password_until: the password is enqueued before the deadline
\* or not at all; accepted, rejected or unanswered.
Authenticate(c) ==
    /\ link[c] = "auth"
    /\ \/ /\ spent[c] < limit[c]
          /\ sentTo' = [sentTo EXCEPT ![c] = <<shown[c]>> \o @]
       \/ UNCHANGED sentTo
    /\ \/ LinkEnds(c, "in") /\ UNCHANGED live /\ sentTo' # sentTo
       \/ LinkEnds(c, "out") /\ live' = [live EXCEPT ![c] = @ - 1]
    /\ UNCHANGED <<limit, tries, expected, pinned, latePins>>

ConnectNext ==
    \/ \E c \in Connectors :
          \/ StartConnect(c) \/ KexFails(c) \/ Retry(c) \/ GiveUpConnect(c)
          \/ KeyShown(c) \/ PersistPin(c) \/ PinFails(c) \/ Authenticate(c)
    \/ \E k \in latePins : LatePin(k)

ConnectSpec == ConnectInit /\ [][ConnectNext]_connecting

-----------------------------------------------------------------------------
\* Every variable keeps its type.
ConnectTypeOK ==
    /\ link \in [Connectors -> {"start", "kex", "failed", "pin", "auth", "in", "out"}]
    /\ tries \in [Connectors -> 0..2]
    /\ pinned \in Keys \cup {NoKey}
    /\ latePins \subseteq Keys

\* The password leaves at most once per connect, and only for a host whose key
\* is the one the vault pins, although other unlocks of the profile fill the
\* pin at the same time or late; and the transport of a first attempt is gone
\* before the second begins.
PasswordFollowsPin ==
    \A c \in Connectors :
        /\ sentTo[c] \in {<< >>, <<pinned>>}
        /\ live[c] <= 1

\* The reserve of the budget is large enough: a first attempt that runs into
\* its deadline, is cleaned up at the slowest and is woken late still has its
\* whole retry window, and whichever attempt reaches the host key in a budget
\* with room for it leaves the time set aside for the pin and the password.
ReserveSuffices ==
    \A c \in Connectors :
        /\ (link[c] = "failed" /\ retry_enabled(c)) =>
              window_after_backoff(c, retry_attempt_deadline(c), Backoff, RetryKex)
        /\ (link[c] \in {"pin", "auth"} /\ ~hurried[c] /\ limit[c] >= FirstKex + post_kex_window(c)) =>
              spent[c] + (IF link[c] = "pin" THEN post_kex_window(c)
                          ELSE IF expected[c] = NoKey THEN 0 ELSE AuthWindow) <= limit[c]

\* A connect keeps its secrets and its budget.
ConnectIsSound == PasswordFollowsPin /\ ReserveSuffices

=============================================================================
