---------------------------- MODULE PushDelivery ----------------------------
(***************************************************************************)
(* Notices of new mail.  A delta sync that hydrated new mail writes one    *)
(* outbox row and one job for each device before its history cursor moves  *)
(* on (db/push_notifications.py, queue_new_mail); a job hands its notice   *)
(* to the provider under the account's shared lock                         *)
(* (services/push_notifications.py, deliver_push_notification); devices    *)
(* register and rotate their tokens meanwhile (register_device), and the   *)
(* account may be deleted.                                                 *)
(***************************************************************************)
EXTENDS Integers, FiniteSets

CONSTANTS Mails, Devices, Sessions, Tokens,
          NoToken,      \* the token of a device that is not registered
          MaxAttempts,  \* background_jobs.max_attempts of a notice
          MaxCrashes    \* bound: how often a worker dies

(* The token of a device that is not registered is no provider's.          *)
PushAssumption == NoToken \notin Tokens

VARIABLES device,       \* push_devices: token, session, whether enabled
          enrolling,    \* the registration whose transaction is open
          live,         \* app_sessions not revoked
          mail,         \* each new message and its delta sync
          notice,       \* push_deliveries and their jobs
          account,      \* ready, or its data being deleted, or deleted
          dead,         \* the tokens the provider no longer knows
          owed,         \* history: devices that could be told of a message ever since it came
          crashes

vars == <<device, enrolling, live, mail, notice, account, dead, owed, crashes>>

Notices == Mails \X Devices
(* after holds the outbox rows that were created before the registration   *)
(* began: what the comparison of updated_at with created_at tells.         *)
(* exposed is history: a notice was created while the registration's       *)
(* transaction was open.                                                   *)
NoDevice == [token |-> NoToken, session |-> NoToken, enabled |-> FALSE, after |-> {}, exposed |-> FALSE]
NoNotice == [status |-> "none", session |-> NoToken, job |-> "none", attempts |-> 0,
             token |-> NoToken, result |-> "none"]
Idle == [device |-> NoToken]

(* A device that can be told of new mail.                                  *)
Reachable(d) == device[d].enabled /\ device[d].session \in live

TypeOK ==
  /\ \A d \in Devices : /\ device[d].token \in Tokens \cup {NoToken}
                        /\ device[d].after \subseteq Notices
  /\ live \subseteq Sessions /\ dead \subseteq Tokens
  /\ \A m \in Mails : mail[m] \in [sync : {"none", "listed", "hydrated", "queued", "passed"},
                                   unread : BOOLEAN, fresh : BOOLEAN, recent : BOOLEAN]
  /\ \A n \in Notices :
       /\ notice[n].status \in {"none", "pending", "sent", "invalid_token", "skipped"}
       /\ notice[n].job \in {"none", "queued", "loaded", "sending", "answered", "ended"}
       /\ notice[n].attempts \in 0..MaxAttempts
  /\ account \in {"ready", "deleting", "deleted"}

Init ==
  /\ device = [d \in Devices |-> NoDevice]
  /\ enrolling = Idle
  /\ live = Sessions
  /\ mail = [m \in Mails |-> [sync |-> "none", unread |-> TRUE, fresh |-> FALSE,
                           recent |-> TRUE]]
  /\ notice = [n \in Notices |-> NoNotice]
  /\ account = "ready"
  /\ dead = {}
  /\ owed = [m \in Mails |-> {}]
  /\ crashes = 0

Owing(S) == owed' = [m \in Mails |-> owed[m] \cap S]

---------------------------------------------------------------------------
(* Devices and sessions.                                                   *)

(* The app registers a token of its own; its transaction, and updated_at,  *)
(* start here.                                                             *)
BeginRegister(d, s, t) ==
  /\ enrolling = Idle /\ s \in live /\ t \notin dead
  /\ enrolling' = [device |-> d, session |-> s, token |-> t,
                   after |-> {n \in Notices : notice[n].status # "none"}]
  /\ UNCHANGED <<device, live, mail, notice, account, dead, owed, crashes>>

(* The row is replaced, and any other row with the same token removed.     *)
Register ==
  /\ enrolling # Idle
  /\ device' = [d \in Devices |->
       IF d = enrolling.device
         THEN [token |-> enrolling.token, session |-> enrolling.session, enabled |-> TRUE,
               after |-> enrolling.after,
               exposed |-> \E n \in Notices : /\ n[2] = d /\ n \notin enrolling.after
                                              /\ notice[n].status = "pending"]
         ELSE IF device[d].token = enrolling.token THEN NoDevice ELSE device[d]]
  /\ enrolling' = Idle
  /\ Owing({d \in Devices : d # enrolling.device /\ device[d].token # enrolling.token}
           \cup (IF enrolling.session \in live THEN {enrolling.device} ELSE {}))
  /\ UNCHANGED <<live, mail, notice, account, dead, crashes>>

Unregister(d) ==
  /\ device[d].token # NoToken
  /\ device' = [device EXCEPT ![d] = NoDevice]
  /\ Owing(Devices \ {d})
  /\ UNCHANGED <<enrolling, live, mail, notice, account, dead, crashes>>

SignOut(s) ==
  /\ s \in live
  /\ live' = live \ {s}
  /\ Owing({d \in Devices : device[d].session # s})
  /\ UNCHANGED <<device, enrolling, mail, notice, account, dead, crashes>>

TokenDies(t) ==
  /\ t \notin dead
  /\ dead' = dead \cup {t}
  /\ UNCHANGED <<device, enrolling, live, mail, notice, account, owed, crashes>>

---------------------------------------------------------------------------
(* The delta sync of a new message.                                        *)

Arrives(m) ==
  /\ mail[m].sync = "none" /\ account = "ready"
  /\ mail' = [mail EXCEPT ![m].sync = "listed"]
  /\ owed' = [owed EXCEPT ![m] = {d \in Devices : Reachable(d)}]
  /\ UNCHANGED <<device, enrolling, live, notice, account, dead, crashes>>

ReadElsewhere(m) ==
  /\ mail[m].sync # "none" /\ mail[m].unread
  /\ mail' = [mail EXCEPT ![m].unread = FALSE]
  /\ owed' = [owed EXCEPT ![m] = {}]
  /\ UNCHANGED <<device, enrolling, live, notice, account, dead, crashes>>

(* Fifteen minutes after it was received a message is no news.             *)
Ages(m) ==
  /\ mail[m].sync # "none" /\ mail[m].recent
  /\ mail' = [mail EXCEPT ![m].recent = FALSE]
  /\ owed' = [owed EXCEPT ![m] = {}]
  /\ UNCHANGED <<device, enrolling, live, notice, account, dead, crashes>>

Hydrate(m) ==
  /\ mail[m].sync = "listed"
  /\ mail' = [mail EXCEPT ![m].sync = "hydrated", ![m].fresh = mail[m].unread]
  /\ UNCHANGED <<device, enrolling, live, notice, account, dead, owed, crashes>>

(* One transaction: an outbox row and a job for every device that can be   *)
(* told, unless an earlier attempt of the sync wrote them.                 *)
QueueNewMail(m) ==
  /\ mail[m].sync = "hydrated" /\ account = "ready"
  /\ notice' = [n \in Notices |->
       IF n[1] = m /\ mail[m].fresh /\ mail[m].recent /\ Reachable(n[2]) /\ notice[n].status = "none"
         THEN [NoNotice EXCEPT !.status = "pending", !.session = device[n[2]].session,
                               !.job = "queued"]
         ELSE notice[n]]
  /\ mail' = [mail EXCEPT ![m].sync = "queued"]
  /\ UNCHANGED <<device, enrolling, live, account, dead, owed, crashes>>

PassesEarly(m) == mail[m].sync = "hydrated"

(* mark_history_delta_completed comes after the outbox.                    *)
Passes(m) == mail[m].sync = "queued"

CursorPasses(m) ==
  /\ Passes(m)
  /\ mail' = [mail EXCEPT ![m].sync = "passed"]
  /\ UNCHANGED <<device, enrolling, live, notice, account, dead, owed, crashes>>

(* The sync dies; its job runs it again from the same cursor.              *)
SyncDies(m) ==
  /\ mail[m].sync \in {"hydrated", "queued"} /\ crashes < MaxCrashes
  /\ mail' = [mail EXCEPT ![m].sync = "listed"]
  /\ crashes' = crashes + 1
  /\ UNCHANGED <<device, enrolling, live, notice, account, dead, owed>>

---------------------------------------------------------------------------
(* The job of a notice.                                                    *)

(* load_delivery: what it takes for a notice to be sent still, its age     *)
(* aside.                                                                  *)
Sendable(n) ==
  /\ notice[n].status = "pending"
  /\ device[n[2]].enabled /\ device[n[2]].session = notice[n].session
  /\ notice[n].session \in live
  /\ mail[n[1]].unread /\ account = "ready"

Skipped(n) == [notice EXCEPT ![n].status = IF @ = "pending" THEN "skipped" ELSE @,
                             ![n].job = "ended"]

Load(n) ==
  /\ notice[n].job = "queued"
  /\ notice' = IF Sendable(n)
                 THEN [notice EXCEPT ![n].job = "loaded", ![n].attempts = @ + 1]
                 ELSE Skipped(n)
  /\ UNCHANGED <<device, enrolling, live, mail, account, dead, owed, crashes>>

Retried(n) ==
  notice' = [notice EXCEPT ![n].job = IF notice[n].attempts < MaxAttempts THEN "queued" ELSE "ended",
                           ![n].token = NoToken, ![n].result = "none"]

(* The shared lock is refused once deletion was asked for; under it the    *)
(* notice is loaded again.                                                 *)
Lock(n) ==
  /\ notice[n].job = "loaded"
  /\ IF account # "ready" THEN Retried(n)
     ELSE notice' = IF Sendable(n)
                      THEN [notice EXCEPT ![n].job = "sending", ![n].token = device[n[2]].token]
                      ELSE Skipped(n)
  /\ UNCHANGED <<device, enrolling, live, mail, account, dead, owed, crashes>>

(* Either time the notice is loaded, it may be older than fifteen minutes. *)
Expires(n) ==
  /\ notice[n].job = "queued" \/ (notice[n].job = "loaded" /\ account = "ready")
  /\ notice' = Skipped(n)
  /\ UNCHANGED <<device, enrolling, live, mail, account, dead, owed, crashes>>

Send(n) ==
  /\ notice[n].job = "sending"
  /\ notice' = [notice EXCEPT ![n].job = "answered",
                  ![n].result = IF notice[n].token \in dead THEN "invalid_token" ELSE "sent"]
  /\ UNCHANGED <<device, enrolling, live, mail, account, dead, owed, crashes>>

DisablesAnyway(n) == TRUE

(* A token the app refreshed during delivery is not disabled.              *)
Disables(n) == n \notin device[n[2]].after

Finish(n) ==
  /\ notice[n].job = "answered"
  /\ notice' = [notice EXCEPT ![n].status = IF @ = "pending" THEN notice[n].result ELSE @,
                              ![n].job = "ended"]
  /\ LET disabled == /\ notice[n].status = "pending" /\ notice[n].result = "invalid_token"
                     /\ device[n[2]].session = notice[n].session
                     /\ Disables(n)
     IN /\ device' = IF disabled THEN [device EXCEPT ![n[2]].enabled = FALSE] ELSE device
        /\ Owing(IF disabled THEN Devices \ {n[2]} ELSE Devices)
  /\ UNCHANGED <<enrolling, live, mail, account, dead, crashes>>

(* The provider is unavailable or refuses the request.                     *)
ProviderFails(n) ==
  /\ notice[n].job = "sending"
  /\ Retried(n)
  /\ UNCHANGED <<device, enrolling, live, mail, account, dead, owed, crashes>>

(* The worker dies, and its lease expires.                                 *)
WorkerDies(n) ==
  /\ notice[n].job \in {"loaded", "sending", "answered"} /\ crashes < MaxCrashes
  /\ Retried(n)
  /\ crashes' = crashes + 1
  /\ UNCHANGED <<device, enrolling, live, mail, account, dead, owed>>

---------------------------------------------------------------------------
(* The account is deleted: the request is recorded, then the exclusive     *)
(* lock waits for the provider work under way.                             *)
RequestDeletion ==
  /\ account = "ready"
  /\ account' = "deleting"
  /\ UNCHANGED <<device, enrolling, live, mail, notice, dead, owed, crashes>>

DrainsNothing == TRUE

Drained == \A n \in Notices : notice[n].job \notin {"sending", "answered"}

Purge ==
  /\ account = "deleting" /\ Drained
  /\ account' = "deleted"
  /\ UNCHANGED <<device, enrolling, live, mail, notice, dead, owed, crashes>>

Next ==
  \/ \E d \in Devices, s \in Sessions, t \in Tokens : BeginRegister(d, s, t)
  \/ Register
  \/ \E d \in Devices : Unregister(d)
  \/ \E s \in Sessions : SignOut(s)
  \/ \E t \in Tokens : TokenDies(t)
  \/ \E m \in Mails : \/ Arrives(m) \/ ReadElsewhere(m) \/ Ages(m) \/ Hydrate(m)
                      \/ QueueNewMail(m) \/ CursorPasses(m) \/ SyncDies(m)
  \/ \E n \in Notices : \/ Load(n) \/ Lock(n) \/ Expires(n) \/ Send(n) \/ Finish(n)
                        \/ ProviderFails(n) \/ WorkerDies(n)
  \/ RequestDeletion \/ Purge

Spec == Init /\ [][Next]_vars

---------------------------------------------------------------------------
(* Once the history cursor has passed a message, every device that could   *)
(* be told of it ever since it came has its outbox row, although the sync  *)
(* may die at any step: unless it took longer than a message is news.      *)
PassedMeansQueued ==
  \A m \in Mails : mail[m].sync = "passed" =>
    \A d \in owed[m] : notice[<<m, d>>].status # "none"

(* No notice is on its way to the provider once the account is deleted.    *)
NothingAfterPurge ==
  account = "deleted" => \A n \in Notices : notice[n].job \notin {"sending", "answered"}

(* A registered device is only disabled while the provider refuses its     *)
(* token, with the exception of a registration whose transaction began     *)
(* before the notice was created and ended after its token was loaded.     *)
FreshTokenStaysEnabled ==
  \A d \in Devices :
    /\ device[d].token \in Tokens /\ ~device[d].enabled
    /\ ~device[d].exposed
    => device[d].token \in dead
=============================================================================
