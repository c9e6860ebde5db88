--------------------------- MODULE GrantLifecycle ---------------------------
(***************************************************************************)
(* The life of the Google OAuth grants of one Google subject: sign-in       *)
(* callbacks that receive a grant and store it, requests that disconnect    *)
(* Google or delete the account, the worker that revokes abandoned grants,  *)
(* and the refresh of the stored credential.  From                          *)
(* src/backend/app/api/routes/auth_google.py,                               *)
(* services/integrations/google.py, db/repository.py, db/jobs.py,           *)
(* db/user_mail_guard.py and the triggers of migration 0023.                *)
(*                                                                          *)
(* Every database call is a step of its own, so processes meet between any  *)
(* two of them; what keeps them apart is the subject lock (one holder) and  *)
(* below it the mail lock of the user (shared by provider work, exclusive   *)
(* for requests and callbacks).  A login stands for one OAuth attempt, its  *)
(* callback request and the grant it receives; a user is named by the       *)
(* login that created it.  Revoking a live grant invalidates every grant of *)
(* the subject (google.py:738), one that is dead already answers            *)
(* invalid_token.                                                           *)
(***************************************************************************)
EXTENDS Naturals, FiniteSets

CONSTANTS
  Logins,               \* OAuth attempts, and the grants they are issued
  Disconnects,          \* requests DELETE /v1/auth/google
  Deletions,            \* requests DELETE /v1/auth/account
  Workers,              \* worker threads that run google_token_revoke jobs
  Reader,               \* a thread that refreshes the stored credential
  None,
  Crashable,            \* the processes that may die between two steps
  LockTimeouts,         \* may waiting for an advisory lock time out?
  UnlockedRevocations,  \* may the revocations outside the subject lock happen?
  MaxFaults             \* bound on faults of every kind

Requests == Disconnects \cup Deletions
Processes == Logins \cup Requests \cup Workers \cup {Reader}

ASSUME GrantAssumption ==
  /\ MaxFaults \in Nat
  /\ LockTimeouts \in BOOLEAN /\ UnlockedRevocations \in BOOLEAN
  /\ Crashable \subseteq Processes
  /\ None \notin Processes
  /\ Logins \cap (Requests \cup Workers \cup {Reader}) = {}
  /\ Workers \cap (Requests \cup {Reader}) = {}
  /\ Disconnects \cap Deletions = {} /\ Reader \notin Requests
  /\ Workers \cap {"none", "queued", "succeeded"} = {}

VARIABLES
  pc,          \* where each process is
  uid,         \* the user id a callback or a request works on
  target,      \* the grant a process revokes or refreshes
  started,     \* oauth_login_sessions.started_epoch
  epoch,       \* google_identity_event_epoch_seq
  tombstone,   \* google_subject_deletion_tombstones.deleted_epoch, 0 for no row
  user,        \* the row of the subject in users, None when there is none
  guarded,     \* users.google_disconnected_at or a deletion mark is set
  stored,      \* google_oauth_tokens of the user
  job,         \* google_token_revoke jobs: status, a worker when running
  subjectLock, \* holder of exclusive_google_subject_lock
  mailLock,    \* holder of exclusive_user_mail_lock
  live,        \* grants Google honours
  killed,      \* grants a revocation of this program invalidated
  expired,     \* grants Google let lapse by itself
  dropped,     \* grants whose token row a callback overwrote or deleted
  lost,        \* grants whose only holder died or gave up
  fence,       \* epoch at which the last completed request had begun
  faults

procVars  == <<pc, uid, target>>
rowVars   == <<user, guarded, stored>>
barrier   == <<epoch, tombstone>>
locks     == <<subjectLock, mailLock>>
google    == <<live, killed, expired>>
history   == <<dropped, lost, fence>>
vars == <<procVars, started, rowVars, barrier, job, locks, google, history, faults>>

Stages ==
  {"idle", "consent", "unverified", "exchanged", "checking", "fresh", "upserting",
   "upserted", "storing", "cleanup", "severing", "severed", "revoking", "allRevoked",
   "oneInvalid", "completeAll", "completeOne", "fallback", "direct", "resolved", "waiting",
   "recording", "draining", "reading", "marking", "deleting", "claimed", "verifying",
   "refreshed", "blocked", "done"}

TypeOK ==
  /\ pc \in [Processes -> Stages]
  /\ uid \in [Logins \cup Requests -> Logins \cup {None}]
  /\ target \in [Processes -> Logins \cup {None}]
  /\ started \in [Logins -> Nat]
  /\ epoch \in Nat /\ tombstone \in Nat /\ fence \in Nat
  /\ user \in Logins \cup {None} /\ stored \in Logins \cup {None} /\ guarded \in BOOLEAN
  /\ job \in [Logins -> {"none", "queued", "succeeded"} \cup Workers]
  /\ subjectLock \in Processes \cup {None} /\ mailLock \in Processes \cup {None}
  /\ live \subseteq Logins /\ killed \subseteq Logins /\ expired \subseteq Logins
  /\ dropped \subseteq Logins /\ lost \subseteq Logins
  /\ faults \in 0 .. MaxFaults

Init ==
  /\ pc = [p \in Processes |-> "idle"]
  /\ uid = [p \in Logins \cup Requests |-> None]
  /\ target = [p \in Processes |-> None]
  /\ started = [l \in Logins |-> 0]
  /\ epoch = 0 /\ tombstone = 0 /\ fence = 0
  /\ user = None /\ stored = None /\ guarded = FALSE
  /\ job = [l \in Logins |-> "none"]
  /\ subjectLock = None /\ mailLock = None
  /\ live = {} /\ killed = {} /\ expired = {}
  /\ dropped = {} /\ lost = {}
  /\ faults = 0

-----------------------------------------------------------------------------
(* Helpers.                                                                *)

At(p, stage) == pc[p] = stage
Goto(p, stage) == pc' = [pc EXCEPT ![p] = stage]
Fault == faults < MaxFaults /\ faults' = faults + 1

Active(g) == job[g] \in {"queued"} \cup Workers
\* Mutant: only jobs no worker has claimed count as pending.
PendingIfQueued == \E g \in Logins : job[g] = "queued"

PendingRevocation == \E g \in Logins : Active(g)

\* Mutant: the callback and the triggers do not compare epochs.
FreshAlways(l) == TRUE

\* started_epoch is newer than the tombstone: the test of the callback and,
\* again, of the triggers on users and google_oauth_tokens.
Fresh(l) == started[l] > tombstone

\* record_google_subject_revocation, and what the triggers write.
RaiseBarrier == epoch' = epoch + 1 /\ tombstone' = epoch + 1

\* A guard column goes from NULL to set: the trigger raises the barrier.
SetGuard ==
  /\ guarded' = (user # None)
  /\ IF user # None /\ ~guarded THEN RaiseBarrier ELSE UNCHANGED barrier

MailFree == mailLock = None /\ At(Reader, "idle")

\* End of the `with exclusive_google_subject_lock` block of a process.
LeaveSubject(p) ==
  /\ subjectLock' = None
  /\ mailLock' = IF mailLock = p THEN None ELSE mailLock

\* Where a process goes once its revocation is over: a request still has the
\* local disconnect before it, under the locks it holds.
AfterRevocation(p) ==
  IF p \in Requests
  THEN Goto(p, "marking") /\ UNCHANGED locks
  ELSE Goto(p, IF p \in Workers THEN "idle" ELSE "done") /\ LeaveSubject(p)

\* Google processed a revocation of the live grant g.
ProjectRevoked == live' = {} /\ killed' = killed \cup live /\ UNCHANGED expired

\* No usable answer: Google may have processed the revocation of g.
Unanswered(g) == UNCHANGED google \/ (g \in live /\ ProjectRevoked)

-----------------------------------------------------------------------------
(* The sign-in callback.                                                   *)

\* save_oauth_login_session: the attempt takes its epoch from the sequence.
StartLogin(l) ==
  /\ At(l, "idle")
  /\ epoch' = epoch + 1
  /\ started' = [started EXCEPT ![l] = epoch + 1]
  /\ Goto(l, "consent")
  /\ UNCHANGED <<uid, target, rowVars, tombstone, job, locks, google, history, faults>>

\* handle_google_callback: the code becomes a grant, and its identity is read.
ExchangeCode(l) ==
  /\ At(l, "consent")
  /\ live' = live \cup {l}
  /\ \/ Goto(l, "exchanged")
     \/ UnlockedRevocations /\ Goto(l, "unverified")
  /\ UNCHANGED <<uid, target, started, rowVars, barrier, job, locks, killed, expired, history, faults>>

\* handle_google_callback's except: the identity could not be read, and the new
\* grant is revoked on the spot, its subject unknown and no lock held.
RevokeUnverified(l) ==
  /\ At(l, "unverified")
  /\ Goto(l, "done")
  /\ \/ /\ IF l \in live THEN ProjectRevoked ELSE UNCHANGED google
        /\ UNCHANGED <<lost, faults>>
     \/ Fault /\ lost' = lost \cup {l} /\ UNCHANGED google
  /\ UNCHANGED <<uid, target, started, rowVars, barrier, job, locks, dropped, fence>>

LoginEnters(l) ==
  /\ At(l, "exchanged") /\ subjectLock = None
  /\ subjectLock' = l
  /\ Goto(l, "checking")
  /\ UNCHANGED <<uid, target, started, rowVars, barrier, job, mailLock, google, history, faults>>

\* The existing user is read, the session deleted, its epoch compared with the
\* tombstone.
CheckFresh(l) ==
  /\ At(l, "checking")
  /\ uid' = [uid EXCEPT ![l] = user]
  /\ Goto(l, IF Fresh(l) THEN "fresh" ELSE "cleanup")
  /\ UNCHANGED <<target, started, rowVars, barrier, job, locks, google, history, faults>>

\* has_active_google_token_revocation.
CheckPending(l) ==
  /\ At(l, "fresh")
  /\ Goto(l, IF PendingRevocation THEN "cleanup" ELSE "upserting")
  /\ UNCHANGED <<uid, target, started, rowVars, barrier, job, locks, google, history, faults>>

\* upsert_user: a new row must be newer than the tombstone (trigger), and the
\* address may belong to another account (IdentityConflictError).
UpsertUser(l) ==
  /\ At(l, "upserting")
  /\ \/ /\ user = None => Fresh(l)
        /\ user' = IF user = None THEN l ELSE user
        /\ uid' = [uid EXCEPT ![l] = user']
        /\ Goto(l, "upserted")
        /\ UNCHANGED faults
     \/ user = None /\ ~Fresh(l) /\ Goto(l, "cleanup") /\ UNCHANGED <<user, uid, faults>>
     \/ Fault /\ Goto(l, "cleanup") /\ UNCHANGED <<user, uid>>
  /\ UNCHANGED <<target, started, guarded, stored, barrier, job, locks, google, history>>

LoginLocksMail(l) ==
  /\ At(l, "upserted") /\ MailFree
  /\ mailLock' = l
  /\ Goto(l, "storing")
  /\ UNCHANGED <<uid, target, started, rowVars, barrier, job, subjectLock, google, history, faults>>

\* reconnect_google_oauth_token: guards cleared and token overwritten in one
\* transaction, which the triggers abort unless the login is still fresh.
Reconnect(l) ==
  /\ At(l, "storing")
  /\ \/ /\ Fresh(l)
        /\ guarded' = FALSE /\ stored' = l
        /\ dropped' = dropped \cup ({stored} \ {None})
        /\ Goto(l, "done") /\ LeaveSubject(l)
     \/ /\ ~Fresh(l)
        /\ Goto(l, "cleanup")
        /\ mailLock' = None
        /\ UNCHANGED <<guarded, stored, dropped, subjectLock>>
  /\ UNCHANGED <<uid, target, started, user, barrier, job, google, lost, fence, faults>>

-----------------------------------------------------------------------------
(* Tracked revocation, of a callback that kept its grant and of a request    *)
(* that takes the stored one (_revoke_tracked_google_token_payload).         *)

\* One queued or running job per credential: enqueue_job's dedupe key.
Enqueue(g) == job' = IF Active(g) THEN job ELSE [job EXCEPT ![g] = "queued"]

\* The callback's finally: track its grant, then cut the user's connection.
TrackUnstored(l) ==
  /\ At(l, "cleanup")
  /\ Enqueue(l)
  /\ target' = [target EXCEPT ![l] = l]
  /\ Goto(l, IF uid[l] = None THEN "revoking" ELSE "severing")
  /\ UNCHANGED <<uid, started, rowVars, barrier, locks, google, history, faults>>

\* _disconnect_callback_google_connection: under the exclusive mail lock the
\* token is deleted, then the user marked disconnected.
DeleteSeveredToken(l) ==
  /\ At(l, "severing") /\ MailFree
  /\ mailLock' = l
  /\ stored' = None
  /\ dropped' = dropped \cup ({stored} \ {None})
  /\ Goto(l, "severed")
  /\ UNCHANGED <<uid, target, started, user, guarded, barrier, job, subjectLock, google, lost, fence, faults>>
MarkSevered(l) ==
  /\ At(l, "severed")
  /\ SetGuard
  /\ mailLock' = None
  /\ Goto(l, "revoking")
  /\ UNCHANGED <<uid, target, started, user, stored, job, subjectLock, google, history, faults>>

\* _revoke_google_token_payload_outcome under the subject lock: 200, invalid_token,
\* or no usable answer, in which case Google may have processed the request.
AskGoogle(p, onRevoked, onInvalid, onRetry) ==
  \/ target[p] \in live /\ ProjectRevoked /\ onRevoked /\ UNCHANGED faults
  \/ target[p] \notin live /\ UNCHANGED google /\ onInvalid /\ UNCHANGED faults
  \/ Fault /\ onRetry /\ Unanswered(target[p])

\* The grant is revoked only while its job is queued or running.
RevokeTracked(p) ==
  /\ p \in Logins \cup Requests /\ At(p, "revoking") /\ Active(target[p])
  /\ AskGoogle(p, Goto(p, "allRevoked") /\ UNCHANGED locks,
                  Goto(p, "oneInvalid") /\ UNCHANGED locks,
                  AfterRevocation(p))
  /\ UNCHANGED <<uid, target, started, rowVars, barrier, job, history>>

\* The barrier goes up before the jobs are completed.
RecordRevocation(p) ==
  /\ \/ At(p, "allRevoked") /\ Goto(p, "completeAll")
     \/ At(p, "oneInvalid") /\ Goto(p, "completeOne")
  /\ RaiseBarrier
  /\ UNCHANGED <<uid, target, started, rowVars, job, locks, google, history, faults>>

\* complete_google_token_revocations_for_subject after a 200,
\* complete_google_token_revocation_job after invalid_token.
CompletedJobs(p) == {g \in Logins : Active(g) /\ (At(p, "completeAll") \/ g = target[p])}

CompleteRevocation(p) ==
  /\ pc[p] \in {"completeAll", "completeOne"}
  /\ job' = [g \in Logins |-> IF g \in CompletedJobs(p) THEN "succeeded" ELSE job[g]]
  /\ AfterRevocation(p)
  /\ UNCHANGED <<uid, target, started, rowVars, barrier, google, history, faults>>

-----------------------------------------------------------------------------
(* Waiting for a lock times out (AdvisoryLockUnavailable).                  *)

\* The callback never entered the subject lock: the outermost finally tries to
\* enter once more, knowing no user; when that times out too it only enqueues.
LoginTimesOut(l) ==
  /\ LockTimeouts /\ Fault
  /\ \/ At(l, "exchanged") /\ subjectLock # None
        /\ Goto(l, "fallback") /\ UNCHANGED <<target, job>>
     \/ At(l, "fallback") /\ subjectLock # None
        /\ Enqueue(l) /\ Goto(l, "done") /\ UNCHANGED target
     \/ At(l, "upserted") /\ ~MailFree
        /\ Goto(l, "cleanup") /\ UNCHANGED <<target, job>>
     \/ At(l, "severing") /\ ~MailFree
        /\ Goto(l, "direct") /\ UNCHANGED <<target, job>>
  /\ UNCHANGED <<uid, started, rowVars, barrier, locks, google, history>>

FallbackEnters(l) ==
  /\ At(l, "fallback") /\ subjectLock = None
  /\ subjectLock' = l
  /\ target' = [target EXCEPT ![l] = l]
  /\ Goto(l, "direct")
  /\ UNCHANGED <<uid, started, rowVars, barrier, job, mailLock, google, history, faults>>

\* _cleanup_unpersisted_callback_grant: without a user to disconnect, or after
\* the second attempt to disconnect one failed, the grant is revoked anyway.
RevokeUnstored(l) ==
  /\ At(l, "direct")
  /\ AskGoogle(l, Goto(l, "resolved") /\ UNCHANGED <<locks, lost>>,
                  Goto(l, "resolved") /\ UNCHANGED <<locks, lost>>,
                  /\ Goto(l, "done") /\ LeaveSubject(l)
                  /\ lost' = IF Active(l) THEN lost ELSE lost \cup {l})
  /\ UNCHANGED <<uid, target, started, rowVars, barrier, job, dropped, fence>>

RecordUnstored(l) ==
  /\ At(l, "resolved")
  /\ RaiseBarrier
  /\ Goto(l, "done") /\ LeaveSubject(l)
  /\ UNCHANGED <<uid, target, started, rowVars, job, google, history, faults>>

RequestTimesOut(r) ==
  /\ LockTimeouts /\ Fault
  /\ \/ At(r, "waiting") /\ subjectLock # None /\ UNCHANGED locks
     \/ At(r, "draining") /\ ~MailFree /\ LeaveSubject(r)
  /\ Goto(r, "done")
  /\ UNCHANGED <<uid, target, started, rowVars, barrier, job, google, history>>

-----------------------------------------------------------------------------
(* The requests that disconnect Google and delete the account.              *)

Request(r) ==
  /\ At(r, "idle") /\ user # None
  /\ uid' = [uid EXCEPT ![r] = user]
  /\ Goto(r, "waiting")
  /\ UNCHANGED <<target, started, rowVars, barrier, job, locks, google, history, faults>>

RequestEnters(r) ==
  /\ At(r, "waiting") /\ subjectLock = None
  /\ subjectLock' = r
  /\ Goto(r, "recording")
  /\ UNCHANGED <<uid, target, started, rowVars, barrier, job, mailLock, google, history, faults>>

RecordRequest(r) ==
  /\ At(r, "recording")
  /\ RaiseBarrier
  /\ Goto(r, "draining")
  /\ UNCHANGED <<uid, target, started, rowVars, job, locks, google, history, faults>>

\* The exclusive mail lock drains the readers.  A user deleted since the request
\* arrived has no token, no row to mark and none to delete.
DrainMail(r) ==
  /\ At(r, "draining")
  /\ \/ uid[r] = user /\ MailFree /\ mailLock' = r /\ UNCHANGED subjectLock
        /\ Goto(r, "reading")
     \/ uid[r] # user /\ Goto(r, "done") /\ LeaveSubject(r)
  /\ UNCHANGED <<uid, target, started, rowVars, barrier, job, google, history, faults>>

\* revoke_or_enqueue_stored_google_token reads the token and tracks it.
TrackStored(r) ==
  /\ At(r, "reading")
  /\ IF stored = None
     THEN Goto(r, "marking") /\ UNCHANGED <<job, target>>
     ELSE Enqueue(stored) /\ target' = [target EXCEPT ![r] = stored] /\ Goto(r, "revoking")
  /\ UNCHANGED <<uid, started, rowVars, barrier, locks, google, history, faults>>

\* Mutant: the token is deleted although its cleanup could not be secured.
CannotSecureDeletes(r) ==
  /\ Fault /\ At(r, "reading") /\ stored # None
  /\ SetGuard /\ stored' = None
  /\ Goto(r, "done") /\ LeaveSubject(r)
  /\ UNCHANGED <<uid, target, started, user, job, google, history>>

\* _prepare_google_token_revocation_or_fail: the stored token could not be read
\* or tracked, so the user is marked disconnected, the token kept, 503 answered.
CannotSecure(r) ==
  /\ Fault /\ At(r, "reading") /\ stored # None
  /\ SetGuard
  /\ Goto(r, "done") /\ LeaveSubject(r)
  /\ UNCHANGED <<uid, target, started, user, stored, job, google, history>>

\* mark_google_disconnected, or for an account the deletion marks that
\* delete_user_mail_data sets.
MarkDisconnected(r) ==
  /\ At(r, "marking")
  /\ SetGuard
  /\ Goto(r, "deleting")
  /\ UNCHANGED <<uid, target, started, user, stored, job, locks, google, history, faults>>

\* delete_google_oauth_token; for an account the user row and, by cascade, the
\* token, the trigger raising the barrier.
DeleteStored(r) ==
  /\ At(r, "deleting")
  /\ stored' = None
  /\ IF r \in Deletions THEN user' = None /\ guarded' = FALSE /\ RaiseBarrier
                        ELSE UNCHANGED <<user, guarded, barrier>>
  /\ fence' = tombstone
  /\ Goto(r, "done") /\ LeaveSubject(r)
  /\ UNCHANGED <<uid, target, started, job, google, dropped, lost, faults>>

-----------------------------------------------------------------------------
(* The worker (retry_encrypted_google_token_revocation).                    *)

ClaimRevocation(w, g) ==
  /\ At(w, "idle") /\ job[g] = "queued"
  /\ job' = [job EXCEPT ![g] = w]
  /\ target' = [target EXCEPT ![w] = g]
  /\ Goto(w, "claimed")
  /\ UNCHANGED <<uid, started, rowVars, barrier, locks, google, history, faults>>

WorkerEnters(w) ==
  /\ At(w, "claimed") /\ subjectLock = None
  /\ subjectLock' = w
  /\ Goto(w, "verifying")
  /\ UNCHANGED <<uid, target, started, rowVars, barrier, job, mailLock, google, history, faults>>

\* Mutants: a failed revocation counts as done, or is never tried again.
GiveBackDone(w) == [job EXCEPT ![target[w]] = "succeeded"]
GiveBackDead(w) == [job EXCEPT ![target[w]] = "dead"]

\* A job no longer running is left alone; fail_job gives an own claim back.
GiveBack(w) == IF job[target[w]] = w THEN [job EXCEPT ![target[w]] = "queued"] ELSE job

\* Mutant: the early return keeps the lock.
WorkerVerifiesKeepsLock(w) ==
  /\ At(w, "verifying")
  /\ Goto(w, IF job[target[w]] \in Workers THEN "revoking" ELSE "idle")
  /\ UNCHANGED <<uid, target, started, rowVars, barrier, job, locks, google, history, faults>>

WorkerVerifies(w) ==
  /\ At(w, "verifying")
  /\ IF job[target[w]] \in Workers
     THEN Goto(w, "revoking") /\ UNCHANGED locks
     ELSE Goto(w, "idle") /\ LeaveSubject(w)
  /\ UNCHANGED <<uid, target, started, rowVars, barrier, job, google, history, faults>>

\* The handler failed after RETRY or a lock timeout: fail_job requeues the job.
WorkerFails(w) ==
  /\ Fault
  /\ \/ At(w, "revoking") /\ LeaveSubject(w)
        /\ Unanswered(target[w])
     \/ LockTimeouts /\ At(w, "claimed") /\ subjectLock # None /\ UNCHANGED <<locks, google>>
  /\ job' = GiveBack(w)
  /\ Goto(w, "idle")
  /\ UNCHANGED <<uid, target, started, rowVars, barrier, history>>

WorkerRevokes(w) ==
  /\ At(w, "revoking")
  /\ \/ target[w] \in live /\ ProjectRevoked /\ Goto(w, "allRevoked")
     \/ target[w] \notin live /\ UNCHANGED google /\ Goto(w, "oneInvalid")
  /\ UNCHANGED <<uid, target, started, rowVars, barrier, job, locks, history, faults>>

\* The lease of a running job expires and another claim may take it: its worker
\* died, or is slow.
LeaseExpires(g) ==
  /\ job[g] \in Workers
  /\ IF target[job[g]] = g /\ ~At(job[g], "idle") THEN Fault ELSE UNCHANGED faults
  /\ job' = [job EXCEPT ![g] = "queued"]
  /\ UNCHANGED <<procVars, started, rowVars, barrier, locks, google, history>>

-----------------------------------------------------------------------------
(* Refreshing the stored credential, and losing it.                         *)

\* Under the shared mail lock, the guard checked after it is held
\* (shared_user_mail_lock): the token is read and refreshed at Google.
RefreshCredential ==
  /\ At(Reader, "idle") /\ mailLock = None
  /\ stored # None /\ ~guarded /\ stored \in live
  /\ target' = [target EXCEPT ![Reader] = stored]
  /\ Goto(Reader, "refreshed")
  /\ UNCHANGED <<uid, started, rowVars, barrier, job, locks, google, history, faults>>

\* update_connected_google_oauth_token, guarded: it replaces the token row by
\* the payload refreshed, or is blocked.
PersistRefresh ==
  /\ At(Reader, "refreshed")
  /\ IF stored # None /\ ~guarded
     THEN stored' = target[Reader] /\ Goto(Reader, "idle")
     ELSE UNCHANGED stored /\ Goto(Reader, IF UnlockedRevocations THEN "blocked" ELSE "idle")
  /\ UNCHANGED <<uid, target, started, user, guarded, barrier, job, locks, google, history, faults>>

\* UserMailWorkBlocked: the refreshed payload is revoked, the shared mail lock
\* still held, no subject lock, no job and no barrier.
RevokeRefreshed ==
  /\ At(Reader, "blocked")
  /\ IF target[Reader] \in live THEN ProjectRevoked ELSE UNCHANGED google
  /\ Goto(Reader, "idle")
  /\ UNCHANGED <<uid, target, started, rowVars, barrier, job, locks, history, faults>>

\* _mark_gmail_reauthorization_required: a worker's Gmail call was refused and
\* the user is marked disconnected, without any lock.
LoseAuthorization ==
  /\ Fault /\ user # None /\ ~guarded
  /\ SetGuard
  /\ UNCHANGED <<procVars, started, user, stored, job, locks, google, history>>

\* Google lets one grant lapse (limits on grants, expiry); its siblings live on.
GrantExpires(g) ==
  /\ Fault /\ g \in live
  /\ live' = live \ {g} /\ expired' = expired \cup {g}
  /\ UNCHANGED <<procVars, started, rowVars, barrier, job, locks, killed, history>>

\* A process dies: its locks go with its connection, what it held in memory too.
HoldsGrant(l) ==
  pc[l] \in {"exchanged", "unverified", "checking", "fresh", "upserting", "upserted", "storing",
             "cleanup", "fallback"} \/ (pc[l] = "direct" /\ ~Active(l))

Crash(p) ==
  /\ p \in Crashable /\ pc[p] \notin {"idle", "consent", "done"}
  /\ Fault
  /\ Goto(p, IF p \in Workers \cup {Reader} THEN "idle" ELSE "done")
  /\ subjectLock' = IF subjectLock = p THEN None ELSE subjectLock
  /\ mailLock' = IF mailLock = p THEN None ELSE mailLock
  /\ lost' = IF p \in Logins /\ HoldsGrant(p) THEN lost \cup {p} ELSE lost
  /\ UNCHANGED <<uid, target, started, rowVars, barrier, job, google, dropped, fence>>

-----------------------------------------------------------------------------
LoginStep(l) ==
  \/ StartLogin(l) \/ ExchangeCode(l) \/ RevokeUnverified(l) \/ LoginEnters(l)
  \/ CheckFresh(l) \/ CheckPending(l) \/ UpsertUser(l) \/ LoginLocksMail(l) \/ Reconnect(l)
  \/ TrackUnstored(l) \/ DeleteSeveredToken(l) \/ MarkSevered(l)
  \/ LoginTimesOut(l) \/ FallbackEnters(l) \/ RevokeUnstored(l) \/ RecordUnstored(l)

RequestStep(r) ==
  \/ Request(r) \/ RequestEnters(r) \/ RecordRequest(r) \/ DrainMail(r) \/ TrackStored(r)
  \/ CannotSecure(r) \/ MarkDisconnected(r) \/ DeleteStored(r) \/ RequestTimesOut(r)

WorkerStep(w) ==
  \/ \E g \in Logins : ClaimRevocation(w, g)
  \/ WorkerEnters(w) \/ WorkerVerifies(w) \/ WorkerFails(w) \/ WorkerRevokes(w)

RevocationStep(p) == RevokeTracked(p) \/ RecordRevocation(p) \/ CompleteRevocation(p)

ReaderStep == RefreshCredential \/ PersistRefresh \/ RevokeRefreshed

Next ==
  \/ \E l \in Logins : LoginStep(l) \/ GrantExpires(l) \/ LeaseExpires(l)
  \/ \E r \in Requests : RequestStep(r)
  \/ \E w \in Workers : WorkerStep(w)
  \/ \E p \in Processes : RevocationStep(p) \/ Crash(p)
  \/ ReaderStep
  \/ LoseAuthorization

Spec == Init /\ [][Next]_vars

\* A request under way and a running worker go on, the sweep requeues a job
\* whose lease is over; nobody must start a login, press a button or fail.
Fairness ==
  /\ \A l \in Logins : WF_vars(LoginStep(l) /\ ~At(l, "idle") /\ ~At(l, "consent"))
                       /\ SF_vars(LoginLocksMail(l) \/ DeleteSeveredToken(l))
  /\ \A r \in Requests : WF_vars(RequestStep(r) /\ ~At(r, "idle")) /\ SF_vars(DrainMail(r))
  /\ \A w \in Workers : WF_vars(WorkerStep(w)) /\ SF_vars(WorkerEnters(w))
  /\ \A p \in Processes : WF_vars(RevocationStep(p))
  /\ \A g \in Logins : WF_vars(LeaseExpires(g) /\ UNCHANGED faults)
  /\ WF_vars(PersistRefresh \/ RevokeRefreshed)

FairSpec == Spec /\ Fairness

-----------------------------------------------------------------------------
(* Properties.                                                             *)

\* Nobody is in the middle of changing the connection.
Settled == subjectLock = None /\ mailLock = None /\ At(Reader, "idle")

Connected == stored # None /\ ~guarded

\* The grant of a connected user is not one that a revocation of this program
\* invalidated: a callback that got its grant before a revocation must exchange
\* a new code (google.py:731), and a stored grant is made unusable before a
\* callback's cleanup can revoke the subject (auth_google.py:112).
StoredGrantIsLive == Settled /\ Connected => stored \notin killed

\* A user is connected only through a login begun after the last disconnect or
\* account deletion that completed: none resurrects the connection it removed.
NoLoginSurvivesItsFence == Settled /\ Connected => started[stored] > fence

\* A live grant is stored, has a revocation job, is in the hands of a running
\* callback, was replaced or deleted by a callback, or went down with its process.
GrantsAreAccountedFor ==
  \A g \in live : g = stored \/ Active(g) \/ HoldsGrant(g) \/ g \in dropped \cup lost

\* A revocation job that succeeded belongs to a grant that is dead.
SucceededMeansDead == \A g \in Logins : job[g] = "succeeded" => g \notin live

\* A grant whose revocation is queued or running is eventually dead.
RevocationEnds == \A g \in Logins : Active(g) ~> g \notin live

\* Whoever holds the subject lock gives it back, and waiting for one lock while
\* holding the other blocks nobody for ever.
SubjectLockReturns == \A p \in Processes : subjectLock = p ~> subjectLock # p
=============================================================================
