------------------------------ MODULE JobQueue ------------------------------
(***************************************************************************)
(* The Postgres-backed durable queue (backend/app/db/jobs.py) and the      *)
(* worker cycle that drains it (backend/app/workers/main.py).              *)
(*                                                                         *)
(* Every database operation of jobs.py is one transaction and so one       *)
(* action.  Wall-clock time is abstracted to two flags per row: whether    *)
(* run_after has passed (ready) and whether lease_expires_at has passed    *)
(* (lease = "expired"); time may flip either at any moment.  claim_job     *)
(* orders candidates by priority but skips rows that any other transaction *)
(* has locked, so a claim may return any claimable row.                    *)
(***************************************************************************)
EXTENDS Naturals, FiniteSets

CONSTANTS
    Jobs,         \* row identities (uuid4 values not drawn yet)
    Workers,      \* worker process identities ("worker-" + uuid4)
    Survivors,    \* processes that are never killed: a restarted container
    Requests,     \* classes of enqueue calls: account, kind and dedupe key
    Deduped,      \* the classes that carry a dedupe key
    Revocations,  \* the google_token_revoke classes (of one Google subject)
    Users,        \* application users
    UserOf,       \* [Requests -> Users \cup {NoUser}]
    QueueOf,      \* [Requests -> queue name]
    QueuesOf,     \* [Workers -> set of queue names]
    MaxAttempts,  \* background_jobs.max_attempts
    ClaimBound,   \* bound: attempts up to which a row's cycles are disturbed
    NoUser, NoWorker, NoRequest, NoJob

ASSUME QueueAssumption ==
    /\ Survivors \subseteq Workers
    /\ Deduped \subseteq Requests
    /\ Revocations \subseteq Requests
    /\ NoWorker \notin Workers
    /\ NoRequest \notin Requests
    /\ NoJob \notin Jobs
    /\ NoUser \notin Users
    /\ UserOf \in [Requests -> Users \cup {NoUser}]
    /\ MaxAttempts \in Nat \ {0}
    /\ ClaimBound \in Nat
    /\ MaxAttempts <= ClaimBound

VARIABLES
    status,    \* status[j]: background_jobs.status, or "absent" / "deleted"
    request,   \* request[j]: the class the row was enqueued for
    ready,     \* ready[j]: run_after <= now()
    attempts,  \* attempts[j]: attempt_count
    owner,     \* owner[j]: lease_owner
    lease,     \* lease[j]: "none" | "valid" | "expired" (lease_expires_at)
    phase,     \* phase[w]: "idle" | "running" | "stopped"
    claim,     \* claim[w]: the BackgroundJob snapshot claim_job returned
    allowed    \* allowed: users whose Gmail-derived work is allowed

rows == <<status, request, ready, attempts, owner, lease>>
vars == <<rows, phase, claim, allowed>>

Active   == {"queued", "running"}
Terminal == {"succeeded", "dead", "cancelled"}
NoClaim  == [job |-> NoJob, attempt |-> 0]

TypeOK ==
    /\ status \in [Jobs -> Active \cup Terminal \cup {"absent", "deleted"}]
    /\ request \in [Jobs -> Requests \cup {NoRequest}]
    /\ ready \in [Jobs -> BOOLEAN]
    /\ attempts \in [Jobs -> Nat]
    /\ owner \in [Jobs -> Workers \cup {NoWorker}]
    /\ lease \in [Jobs -> {"none", "valid", "expired"}]
    /\ phase \in [Workers -> {"idle", "running", "stopped"}]
    /\ claim \in [Workers -> [job : Jobs \cup {NoJob}, attempt : Nat]]
    /\ allowed \in SUBSET Users

Init ==
    /\ status = [j \in Jobs |-> "absent"]
    /\ request = [j \in Jobs |-> NoRequest]
    /\ ready = [j \in Jobs |-> FALSE]
    /\ attempts = [j \in Jobs |-> 0]
    /\ owner = [j \in Jobs |-> NoWorker]
    /\ lease = [j \in Jobs |-> "none"]
    /\ phase = [w \in Workers |-> "idle"]
    /\ claim = [w \in Workers |-> NoClaim]
    /\ allowed = Users

-----------------------------------------------------------------------------
(* The API and scheduler side of the queue.                                *)

(* What enqueue_job reads for a class that carries a dedupe key.           *)
ActiveForQueuedOnly(r) == {j \in Jobs : status[j] = "queued" /\ request[j] = r}
ActiveFor(r) == {j \in Jobs : status[j] \in Active /\ request[j] = r}

(* guard_user_mail_write: user-owned jobs need a connected user.           *)
MayEnqueue(r) == UserOf[r] \in Users => UserOf[r] \in allowed

(* enqueue_job onto an active duplicate: a queued row is woken when        *)
(* wake_existing is set and run_after moves forward, a running row is      *)
(* returned as it is.                                                      *)
WakeExisting(r, delayed) ==
    /\ MayEnqueue(r)
    /\ r \in Deduped
    /\ \E j \in ActiveFor(r) :
          /\ status[j] = "queued"
          /\ ready' = [ready EXCEPT ![j] = ready[j] \/ ~delayed]
    /\ UNCHANGED <<status, request, attempts, owner, lease, phase, claim, allowed>>

(* enqueue_job without an active duplicate: INSERT ... ON CONFLICT DO      *)
(* NOTHING under the partial unique index on active dedupe keys.           *)
Insert(r, delayed) ==
    /\ MayEnqueue(r)
    /\ r \in Deduped => ActiveFor(r) = {}
    /\ \E j \in Jobs :
          /\ status[j] = "absent"
          /\ status' = [status EXCEPT ![j] = "queued"]
          /\ request' = [request EXCEPT ![j] = r]
          /\ ready' = [ready EXCEPT ![j] = ~delayed]
    /\ UNCHANGED <<attempts, owner, lease, phase, claim, allowed>>

(* Close every job of a set: the columns all terminal updates share.       *)
SettleKeepingLease(S, outcome) ==
    /\ status' = [j \in Jobs |-> IF j \in S THEN outcome ELSE status[j]]
    /\ owner' = [j \in Jobs |-> IF j \in S THEN NoWorker ELSE owner[j]]
    /\ UNCHANGED lease

Settle(S, outcome) ==
    /\ status' = [j \in Jobs |-> IF j \in S THEN outcome ELSE status[j]]
    /\ owner' = [j \in Jobs |-> IF j \in S THEN NoWorker ELSE owner[j]]
    /\ lease' = [j \in Jobs |-> IF j \in S THEN "none" ELSE lease[j]]

(* complete_google_token_revocations_for_subject: Google confirmed that    *)
(* every grant of the subject is revoked.                                  *)
ResolveSubject ==
    LET S == {j \in Jobs : status[j] \in Active /\ request[j] \in Revocations}
    IN  /\ S # {}
        /\ Settle(S, "succeeded")
    /\ UNCHANGED <<request, ready, attempts, phase, claim, allowed>>

(* complete_google_token_revocation_job: one unusable credential.          *)
ResolveOne(j) ==
    /\ status[j] \in Active
    /\ request[j] \in Revocations
    /\ Settle({j}, "succeeded")
    /\ UNCHANGED <<request, ready, attempts, phase, claim, allowed>>

(* cancel_user_jobs: disconnect and deletion sweep the user's active rows. *)
CancelUserJobs(u) ==
    LET S == {j \in Jobs : status[j] \in Active /\ request[j] \in Requests
                           /\ UserOf[request[j]] = u}
    IN  /\ S # {}
        /\ Settle(S, "cancelled")
    /\ UNCHANGED <<request, ready, attempts, phase, claim, allowed>>

(* cleanup_old_jobs: retention removes rows that settled long ago.         *)
CleanupOldJobs ==
    /\ \E S \in SUBSET {j \in Jobs : status[j] \in Terminal} :
          /\ S # {}
          /\ status' = [j \in Jobs |-> IF j \in S THEN "deleted" ELSE status[j]]
    /\ UNCHANGED <<request, ready, attempts, owner, lease, phase, claim, allowed>>

(* The durable guard is raised by a disconnect and cleared by a new        *)
(* Google authorization.                                                   *)
SetAllowed(u) ==
    /\ allowed' = IF u \in allowed THEN allowed \ {u} ELSE allowed \cup {u}
    /\ UNCHANGED <<rows, phase, claim>>

-----------------------------------------------------------------------------
(* Time.                                                                   *)

BecomeReady(j) ==
    /\ status[j] = "queued"
    /\ ~ready[j]
    /\ ready' = [ready EXCEPT ![j] = TRUE]
    /\ UNCHANGED <<status, request, attempts, owner, lease, phase, claim, allowed>>

(* claim_job never looks at max_attempts, so rows whose cycles are always  *)
(* cut short would be claimed forever.  ClaimBound bounds the disturbances *)
(* of one row: a cycle that dies, or outlives its lease.                   *)
Disturbable(j) == attempts[j] < ClaimBound

(* The condition every worker-side update of a row repeats.                *)
HoldsUnfenced(w, j) == status[j] = "running"
HoldsById(w, j) == j \in Jobs
Holds(w, j) == status[j] = "running" /\ owner[j] = w

(* A cycle whose heartbeat thread renews the row's lease.                  *)
Beating(j) == \E w \in Workers : phase[w] = "running" /\ claim[w].job = j /\ Holds(w, j)

LeaseExpires(j) ==
    /\ lease[j] = "valid"
    /\ Beating(j) => Disturbable(j)
    /\ lease' = [lease EXCEPT ![j] = "expired"]
    /\ UNCHANGED <<status, request, ready, attempts, owner, phase, claim, allowed>>

-----------------------------------------------------------------------------
(* The worker cycle.                                                       *)

ClaimableQueuedOnly(j) == status[j] = "queued" /\ ready[j]

Claimable(j) ==
    \/ status[j] = "queued" /\ ready[j]
    \/ status[j] = "running" /\ lease[j] = "expired"

(* claim_job: take a due row, or steal a running one whose lease lapsed.   *)
(* The worker keeps a snapshot of the row it claimed.                      *)
ClaimJob(w) ==
    /\ phase[w] = "idle"
    /\ \E j \in Jobs :
          /\ Claimable(j)
          /\ QueueOf[request[j]] \in QueuesOf[w]
          /\ status' = [status EXCEPT ![j] = "running"]
          /\ owner' = [owner EXCEPT ![j] = w]
          /\ lease' = [lease EXCEPT ![j] = "valid"]
          /\ attempts' = [attempts EXCEPT ![j] = @ + 1]
          /\ claim' = [claim EXCEPT ![w] = [job |-> j, attempt |-> attempts[j] + 1]]
    /\ phase' = [phase EXCEPT ![w] = "running"]
    /\ UNCHANGED <<request, ready, allowed>>

(* renew_heartbeat with current_job_id.  A worker that lost its claim      *)
(* updates no row.                                                         *)
Heartbeat(w) ==
    LET j == claim[w].job
    IN  /\ phase[w] = "running"
        /\ Holds(w, j)
        /\ lease' = [lease EXCEPT ![j] = "valid"]
    /\ UNCHANGED <<status, request, ready, attempts, owner, phase, claim, allowed>>

(* The heartbeat thread is joined for one second only: one renewal that    *)
(* was under way may still commit after the cycle ended.                   *)
LateHeartbeat(w) ==
    LET j == claim[w].job
    IN  /\ phase[w] = "idle"
        /\ j \in Jobs
        /\ lease' = IF Holds(w, j) THEN [lease EXCEPT ![j] = "valid"] ELSE lease
    /\ claim' = [claim EXCEPT ![w] = NoClaim]
    /\ UNCHANGED <<status, request, ready, attempts, owner, phase, allowed>>

EndCycle(w) == phase' = [phase EXCEPT ![w] = "idle"]

(* complete_job *)
CompleteJobMisspelt(w) ==
    LET j == claim[w].job
    IN  /\ phase[w] = "running"
        /\ Settle(IF Holds(w, j) THEN {j} ELSE {}, "completed")
    /\ EndCycle(w)
    /\ UNCHANGED <<request, ready, attempts, claim, allowed>>

CompleteJob(w) ==
    LET j == claim[w].job
    IN  /\ phase[w] = "running"
        /\ Settle(IF Holds(w, j) THEN {j} ELSE {}, "succeeded")
    /\ EndCycle(w)
    /\ UNCHANGED <<request, ready, attempts, claim, allowed>>

(* cancel_claimed_job: the handler met the user-mail guard, or Google      *)
(* refused the credentials.                                                *)
CancelClaimedJob(w) ==
    LET j == claim[w].job
    IN  /\ phase[w] = "running"
        /\ Settle(IF Holds(w, j) THEN {j} ELSE {}, "cancelled")
    /\ EndCycle(w)
    /\ UNCHANGED <<request, ready, attempts, claim, allowed>>

(* retry_backoff_seconds *)
BackoffSeconds(n) == <<0, 30, 120, 600, 3600>>[(IF n > 4 THEN 4 ELSE n) + 1]

(* fail_job: decided on the snapshot's attempt, not on the row's.  The     *)
(* retry delay of the caller can only lengthen the backoff.                *)
IsFinalOffByOne(c) == c.attempt > MaxAttempts
IsFinal(c) == c.attempt >= MaxAttempts

FailJob(w) ==
    LET j == claim[w].job
    IN  /\ phase[w] = "running"
        /\ \/ /\ IsFinal(claim[w])
              /\ Settle(IF Holds(w, j) THEN {j} ELSE {}, "dead")
              /\ UNCHANGED ready
           \/ /\ ~IsFinal(claim[w])
              /\ Settle(IF Holds(w, j) THEN {j} ELSE {}, "queued")
              /\ ready' = IF Holds(w, j)
                          THEN [ready EXCEPT ![j] = BackoffSeconds(claim[w].attempt) = 0]
                          ELSE ready
    /\ EndCycle(w)
    /\ UNCHANGED <<request, attempts, claim, allowed>>

(* A database error escapes the cycle (the first heartbeat after a claim,  *)
(* or both complete_job and fail_job): the loop goes on, the row stays     *)
(* leased to a worker that no longer runs it.                              *)
AbandonClaim(w) ==
    /\ phase[w] = "running"
    /\ Holds(w, claim[w].job) => Disturbable(claim[w].job)
    /\ EndCycle(w)
    /\ UNCHANGED <<rows, claim, allowed>>

(* The process is killed, or SIGTERM ends the loop between two cycles.     *)
StopWorker(w) ==
    /\ w \notin Survivors
    /\ phase[w] # "stopped"
    /\ (phase[w] = "running" /\ Holds(w, claim[w].job)) => Disturbable(claim[w].job)
    /\ phase' = [phase EXCEPT ![w] = "stopped"]
    /\ UNCHANGED <<rows, claim, allowed>>

-----------------------------------------------------------------------------
Api ==
    \/ \E r \in Requests, delayed \in BOOLEAN : WakeExisting(r, delayed) \/ Insert(r, delayed)
    \/ ResolveSubject
    \/ \E j \in Jobs : ResolveOne(j)
    \/ \E u \in Users : CancelUserJobs(u) \/ SetAllowed(u)
    \/ CleanupOldJobs

Time == \E j \in Jobs : BecomeReady(j) \/ LeaseExpires(j)

Finish(w) == CompleteJob(w) \/ CancelClaimedJob(w) \/ FailJob(w)

Work(w) ==
    \/ ClaimJob(w) \/ Heartbeat(w) \/ LateHeartbeat(w)
    \/ Finish(w) \/ AbandonClaim(w) \/ StopWorker(w)

Next == Api \/ Time \/ \E w \in Workers : Work(w)

Spec == Init /\ [][Next]_vars

(* Surviving workers poll, every cycle ends unless its process dies, and   *)
(* time passes.  A lease lapses for certain only when no running cycle     *)
(* renews it.                                                              *)
Fairness ==
    /\ \A w \in Survivors : WF_vars(ClaimJob(w))
    /\ \A w \in Workers : WF_vars(Finish(w))
    /\ \A j \in Jobs : /\ WF_vars(BecomeReady(j))
                       /\ WF_vars(LeaseExpires(j) /\ ~Beating(j))

FairSpec == Spec /\ Fairness

-----------------------------------------------------------------------------
(* Properties.                                                             *)

(* At most one row per dedupe key is queued or running, whatever order     *)
(* enqueues, steals, retries and sweeps take (the partial unique index     *)
(* idx_background_jobs_active_account_dedupe never has to refuse an        *)
(* UPDATE that puts a row back to 'queued').                               *)
OneActivePerKey ==
    \A i, j \in Jobs :
        (/\ i # j
         /\ status[i] \in Active /\ status[j] \in Active
         /\ request[i] = request[j])
        => request[i] \notin Deduped

(* A row has an owner and a lease exactly while it is running: a sweep or  *)
(* a retry never leaves a lease behind that claim_job could misread.       *)
LeaseMatchesStatus ==
    \A j \in Jobs : /\ owner[j] # NoWorker <=> status[j] = "running"
                    /\ lease[j] # "none" <=> status[j] = "running"

(* The fencing argument behind `lease_owner = :worker_id`: a worker whose  *)
(* update would still match the row holds the newest claim of it.          *)
ClaimIsCurrent ==
    \A w \in Workers :
        phase[w] = "running" =>
            /\ claim[w].job \in Jobs
            /\ Holds(w, claim[w].job) => claim[w].attempt = attempts[claim[w].job]

(* fail_job's choice between 'dead' and 'queued' reads a snapshot that may *)
(* be old; the row nevertheless dies exactly when its own attempts are     *)
(* used up.                                                                *)
RetryBudget ==
    \A j \in Jobs : /\ status[j] = "queued" => attempts[j] < MaxAttempts
                    /\ status[j] = "dead" => attempts[j] >= MaxAttempts

(* A settled job is never revived or settled again: late workers, sweeps   *)
(* and revocation confirmations race on the same row.                      *)
SettledOnce ==
    [][\A j \in Jobs : status[j] \in Terminal => status'[j] \in {status[j], "deleted"}]_vars

(* Whoever takes a running row out of 'running' by finishing a cycle is    *)
(* the worker of the newest claim; only sweeps may do it without one.      *)
OnlyNewestClaimFinishes ==
    [][\A j \in Jobs, w \in Workers :
          (/\ status[j] = "running" /\ status'[j] # "running"
           /\ phase[w] = "running" /\ phase'[w] = "idle")
          => claim[w] = [job |-> j, attempt |-> attempts[j]]]_vars

(* The queue implements its promise: a job's fate is decided once, one job *)
(* per dedupe key is pending, through steals, retries, sweeps and crashes. *)
Promise == INSTANCE JobPromise WITH
    pending <- {j \in Jobs : status[j] \in Active},
    decided <- {j \in Jobs : status[j] \in Terminal},
    gone    <- {j \in Jobs : status[j] = "deleted"}

ImplementsPromise == Promise!Spec

(* Every accepted job is settled in the end, through crashes, abandoned    *)
(* cycles and lapsed leases.                                               *)
EveryJobSettles == Promise!Answered
=============================================================================
