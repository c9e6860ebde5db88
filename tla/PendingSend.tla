----------------------------- MODULE PendingSend -----------------------------
(***************************************************************************)
(* One outgoing mail of the primary account: its gmail_pending_sends row   *)
(* (backend/app/db/mail_groups.py), the API requests and the durable job   *)
(* that try to deliver it (backend/app/services/mailbox_sends.py) and the  *)
(* Gmail mailbox they share.                                               *)
(*                                                                         *)
(* Every attempt holds the provider lock in shared mode only, so attempts  *)
(* interleave between their database and provider calls; each action is    *)
(* one such call.  A row is 'queued' with an error only through            *)
(* mark_pending_send_queued, which nothing calls, so the row's error is    *)
(* set exactly in state 'failed' and is not a variable.  Deduplication,    *)
(* claims and retries of the job are those of JobQueue, reduced to the one *)
(* active row the send's dedupe key allows.                                *)
(***************************************************************************)
EXTENDS Naturals, FiniteSets

CONSTANTS
    Callers,        \* API request threads: compose, reply, retry
    Workers,        \* worker processes
    MaxAttempts,    \* max_attempts of the gmail_send_message job
    MaxFaults,      \* bound: crashes, steals from live workers, disconnects
    StaleRejection, \* may Gmail refuse the search made for a failed record?
    NoWorker

Actors == Callers \cup Workers

VARIABLES
    state,    \* gmail_pending_sends.state, or "none" before the upsert
    copies,   \* messages Gmail accepted under the stable Message-ID
    indexed,  \* how many of them Gmail's search already returns
    pc,       \* pc[a]: the next call of the attempt actor a runs
    seen,     \* seen[a]: the state the attempt read under the lock
    outcome,  \* outcome[w]: how the worker's cycle is about to end
    job,      \* the active background_jobs row of this send
    allowed,  \* the durable user-mail guard
    faults    \* faults so far

vars == <<state, copies, indexed, pc, seen, outcome, job, allowed, faults>>

NoJob  == [st |-> "none", n |-> 0, owner |-> NoWorker, lapsed |-> FALSE]
NewJob == [st |-> "queued", n |-> 0, owner |-> NoWorker, lapsed |-> FALSE]

(* Where an attempt holds the shared provider lock.                        *)
Locked == {"search", "enqueue", "claim", "send", "finalize"}

JobRows == [st : {"none", "queued", "running"}, n : Nat,
            owner : Workers \cup {NoWorker}, lapsed : BOOLEAN]

TypeOK ==
    /\ state \in {"none", "queued", "sending", "sent", "failed"}
    /\ copies \in Nat
    /\ indexed \in Nat
    /\ pc \in [Actors -> Locked \cup {"idle", "enter", "reject", "finish"}]
    /\ seen \in [Actors -> {"none", "queued", "sending", "sent", "failed"}]
    /\ outcome \in [Workers -> {"complete", "retry", "cancel", "auth"}]
    /\ job \in JobRows
    /\ allowed \in BOOLEAN
    /\ faults \in Nat

Init ==
    /\ state = "none" /\ copies = 0 /\ indexed = 0
    /\ pc = [a \in Actors |-> "idle"]
    /\ seen = [a \in Actors |-> "none"]
    /\ outcome = [w \in Workers |-> "complete"]
    /\ job = NoJob /\ allowed = TRUE /\ faults = 0

-----------------------------------------------------------------------------
(* How an attempt ends: a request returns to the client, a worker goes on  *)
(* to close its cycle.                                                     *)
Goto(a, where) == pc' = [pc EXCEPT ![a] = where] /\ UNCHANGED outcome

End(a, o) ==
    /\ pc' = [pc EXCEPT ![a] = IF a \in Workers THEN "finish" ELSE "idle"]
    /\ outcome' = IF a \in Workers THEN [outcome EXCEPT ![a] = o] ELSE outcome

(* UserMailWorkBlocked: the guard is down when the call is made.           *)
Blocked(a, at) ==
    /\ pc[a] = at
    /\ ~allowed
    /\ End(a, "cancel")
    /\ UNCHANGED <<state, copies, indexed, seen, job, allowed, faults>>

(* A record returned while its delivery is unconfirmed makes the worker    *)
(* retry (MailSendConfirmationPending); any other one completes the job.   *)
EndWith(a, s) == End(a, IF s = "sending" THEN "retry" ELSE "complete")

(* Only 'sending' is an ambiguous outcome at the provider.                 *)
Ambiguous(s) == s = "sending"

-----------------------------------------------------------------------------
(* upsert_pending_send, idempotent by client_send_id: the row of an earlier *)
(* request stays as it is.                                                 *)
Upserted == IF state = "none" THEN "queued" ELSE state

(* send_compose, send_reply; retry_send: the row exists.  A row that is    *)
(* 'sent' answers at once.                                                 *)
Request(c) ==
    /\ pc[c] = "idle"
    /\ state = "none" => allowed
    /\ state' = Upserted
    /\ Goto(c, IF state = "sent" THEN "idle" ELSE "enter")
    /\ UNCHANGED <<copies, indexed, seen, job, allowed, faults>>

(* claim_job: a due row, or a running one whose lease lapsed.              *)
Pick(w) ==
    /\ pc[w] = "idle"
    /\ job.st = "queued" \/ (job.st = "running" /\ job.lapsed)
    /\ job' = [st |-> "running", n |-> job.n + 1, owner |-> w, lapsed |-> FALSE]
    /\ Goto(w, "enter")
    /\ UNCHANGED <<state, copies, indexed, seen, allowed, faults>>

(* "current.state == 'sending' or current.error" ...                        *)
NeedsSearchIfError(s) == s = "failed"
NeedsSearch(s) == s \in {"sending", "failed"}

(* _perform_send takes the shared lock, checks the guard and re-reads the  *)
(* row; only a first or a failed delivery may go on without a search.      *)
Enter(a) ==
    /\ pc[a] = "enter"
    /\ \/ /\ state = "sent"
          /\ EndWith(a, state)
          /\ UNCHANGED seen
       \/ /\ state # "sent"
          /\ allowed
          /\ seen' = [seen EXCEPT ![a] = state]
          /\ Goto(a, IF NeedsSearch(state) THEN "search" ELSE "enqueue")
    /\ UNCHANGED <<state, copies, indexed, job, allowed, faults>>

(* AdvisoryLockUnavailable, or a database error: nothing changed.  While a *)
(* refusal is recorded, the error's context still holds the 401 or 403.    *)
Unavailable(a) ==
    /\ pc[a] \in {"enter", "enqueue", "claim", "reject"}
    /\ End(a, "retry") \/ (pc[a] = "reject" /\ End(a, "auth"))
    /\ UNCHANGED <<state, copies, indexed, seen, job, allowed, faults>>

(* find_sent_gmail_message_by_rfc822_message_id.  An empty answer about an *)
(* ambiguous delivery ends the attempt: it never authorizes a second send. *)
SearchFinds(a) ==
    /\ pc[a] = "search"
    /\ indexed = 1
    /\ Goto(a, "finalize")
    /\ UNCHANGED <<state, copies, indexed, seen, job, allowed, faults>>

SearchMisses(a) ==
    /\ pc[a] = "search"
    /\ indexed = 0
    /\ IF Ambiguous(seen[a]) THEN EndWith(a, seen[a]) ELSE Goto(a, "enqueue")
    /\ UNCHANGED <<state, copies, indexed, seen, job, allowed, faults>>

(* Several Sent messages share the Message-ID, or Gmail cannot be asked.   *)
(* With an ambiguous row the failure is kept away from the classification  *)
(* below; the worker still finds a 401 or 403 in the exception's causes.   *)
SearchFails(a) ==
    /\ pc[a] = "search"
    /\ \/ End(a, "retry")
       \/ Ambiguous(seen[a]) /\ End(a, "auth")
       \/ ~Ambiguous(seen[a]) /\ StaleRejection /\ Goto(a, "reject")
    /\ UNCHANGED <<state, copies, indexed, seen, job, allowed, faults>>

(* _enqueue_send_job, 150 seconds ahead: wakes or keeps an active row.     *)
Enqueue(a) ==
    /\ pc[a] = "enqueue"
    /\ allowed
    /\ job' = IF job.st = "none" THEN NewJob ELSE job
    /\ Goto(a, "claim")
    /\ UNCHANGED <<state, copies, indexed, seen, allowed, faults>>

(* claim_pending_send: compare-and-set on the row's state.                 *)
ClaimableUnlessSent(s) == s # "sent"
ClaimableEver(s) == TRUE
Claimable(s) == s \in {"queued", "failed"}

Claim(a) ==
    /\ pc[a] = "claim"
    /\ allowed
    /\ IF Claimable(state)
       THEN state' = "sending" /\ Goto(a, "send")
       ELSE EndWith(a, state) /\ UNCHANGED state
    /\ UNCHANGED <<copies, indexed, seen, job, allowed, faults>>

(* send_gmail_raw_message: Gmail accepts the mail and answers ...          *)
SendAccepted(a) ==
    /\ pc[a] = "send"
    /\ copies' = copies + 1
    /\ Goto(a, "finalize")
    /\ UNCHANGED <<state, indexed, seen, job, allowed, faults>>

(* A classification that takes an unanswered call for a refusal.           *)
SendUnansweredIsRefusal(a) ==
    /\ pc[a] = "send"
    /\ copies' \in {copies, copies + 1}
    /\ Goto(a, "reject")
    /\ UNCHANGED <<state, indexed, seen, job, allowed, faults>>

(* ... or the answer is lost, whether it accepted the mail or not: the row *)
(* stays 'sending' ...                                                     *)
SendUnanswered(a) ==
    /\ pc[a] = "send"
    /\ copies' \in {copies, copies + 1}
    /\ End(a, "retry")
    /\ UNCHANGED <<state, indexed, seen, job, allowed, faults>>

(* ... or it refuses: no credentials, 401, 403 or another definite 4xx.    *)
SendRefused(a) ==
    /\ pc[a] = "send"
    /\ Goto(a, "reject")
    /\ UNCHANGED <<state, copies, indexed, seen, job, allowed, faults>>

(* mark_pending_send_sent, whatever the state.                             *)
MarkSent == allowed /\ state' = "sent"

(* _finalize_sent_message: a database error leaves the row as it is.        *)
FinalizeMisspelt(a) ==
    /\ pc[a] = "finalize"
    /\ state' = "delivered"
    /\ EndWith(a, "sent")
    /\ UNCHANGED <<copies, indexed, seen, job, allowed, faults>>

Finalize(a) ==
    /\ pc[a] = "finalize"
    /\ \/ /\ MarkSent
          /\ EndWith(a, "sent")
       \/ /\ End(a, "retry")
          /\ UNCHANGED state
    /\ UNCHANGED <<copies, indexed, seen, job, allowed, faults>>

(* mark_pending_send_failed, outside the lock, whatever the state.  A      *)
(* worker without credentials disconnects the user and cancels its job.    *)
Reject(a) ==
    /\ pc[a] = "reject"
    /\ allowed
    /\ state' = "failed"
    /\ End(a, "complete") \/ End(a, "auth")
    /\ UNCHANGED <<copies, indexed, seen, job, allowed, faults>>

(* The end of the worker's cycle, fenced by the lease owner.  An           *)
(* authorization failure first disconnects the user (no lock is taken).    *)
FinishJob(w) ==
    /\ pc[w] = "finish"
    /\ allowed' = (allowed /\ outcome[w] # "auth")
    /\ IF job.st = "running" /\ job.owner = w
       THEN \/ /\ outcome[w] = "retry" /\ job.n < MaxAttempts
               /\ job' = [job EXCEPT !.st = "queued", !.owner = NoWorker, !.lapsed = FALSE]
            \/ /\ outcome[w] = "retry" => job.n >= MaxAttempts
               /\ job' = NoJob
       ELSE UNCHANGED job
    /\ Goto(w, "idle")
    /\ UNCHANGED <<state, copies, indexed, seen, faults>>

-----------------------------------------------------------------------------
(* Gmail, time, faults and the user's connection.                          *)

Index ==
    /\ indexed < copies
    /\ indexed' = indexed + 1
    /\ UNCHANGED <<state, copies, pc, seen, outcome, job, allowed, faults>>

(* A lease lapses under a dead worker, or (a fault) under a live one.      *)
Lapse ==
    /\ job.st = "running" /\ ~job.lapsed
    /\ job' = [job EXCEPT !.lapsed = TRUE]
    /\ IF pc[job.owner] = "idle" THEN UNCHANGED faults
       ELSE faults < MaxFaults /\ faults' = faults + 1
    /\ UNCHANGED <<state, copies, indexed, pc, seen, outcome, allowed>>

Crash(a) ==
    /\ pc[a] # "idle"
    /\ faults < MaxFaults
    /\ faults' = faults + 1
    /\ Goto(a, "idle")
    /\ UNCHANGED <<state, copies, indexed, seen, job, allowed>>

(* The disconnect endpoint drains every attempt that holds the lock, then  *)
(* raises the guard and cancels the user's jobs.                           *)
Disconnect ==
    /\ \A a \in Actors : pc[a] \notin Locked
    /\ faults < MaxFaults
    /\ faults' = faults + 1
    /\ allowed' = FALSE
    /\ job' = NoJob
    /\ UNCHANGED <<state, copies, indexed, pc, seen, outcome>>

Reconnect ==
    /\ ~allowed
    /\ allowed' = TRUE
    /\ UNCHANGED <<state, copies, indexed, pc, seen, outcome, job, faults>>

Advance(a) ==
    \/ Enter(a) \/ SearchMisses(a) \/ SearchFinds(a) \/ SearchFails(a) \/ Enqueue(a) \/ Claim(a)
    \/ SendAccepted(a) \/ SendUnanswered(a) \/ SendRefused(a) \/ Finalize(a) \/ Reject(a)
    \/ Unavailable(a)
    \/ \E at \in {"enter", "enqueue", "claim", "finalize", "reject"} : Blocked(a, at)

Next ==
    \/ \E c \in Callers : Request(c)
    \/ \E w \in Workers : Pick(w) \/ FinishJob(w)
    \/ \E a \in Actors : Advance(a) \/ Crash(a)
    \/ Index \/ Lapse \/ Disconnect \/ Reconnect

Spec == Init /\ [][Next]_vars

(* The user keeps retrying and reconnects, attempts go on, Gmail's index   *)
(* catches up and Gmail does not refuse every search and every write.      *)
Fairness ==
    /\ \A c \in Callers : WF_vars(Request(c))
    /\ \A a \in Actors : /\ WF_vars(Advance(a))
                         /\ SF_vars(Enter(a))
                         /\ SF_vars(SearchFinds(a))
                         /\ SF_vars(Finalize(a) /\ state' = "sent")
    /\ \A w \in Workers : WF_vars(Pick(w)) /\ WF_vars(FinishJob(w))
    /\ WF_vars(Index) /\ WF_vars(Lapse) /\ WF_vars(Reconnect)

FairSpec == Spec /\ Fairness

-----------------------------------------------------------------------------
(* Properties.                                                             *)

(* "an empty result may mean Gmail's index has not caught up and must      *)
(* never authorize a second send": no interleaving of requests, retries,   *)
(* workers, crashes and lost answers delivers two copies.                  *)
AtMostOneCopy == copies <= 1

(* 'failed' lets a retry deliver again, so it must be conclusive ("queued  *)
(* or conclusively failed", claim_pending_send), and 'sent' must be true.  *)
FailedIsConclusive ==
    /\ state \in {"none", "queued", "failed"} => copies = 0
    /\ state = "sent" => copies > 0

(* A row that is 'sent' stays 'sent': "must never turn a sent mail back    *)
(* into a retryable send".                                                 *)
SentIsFinal == [][state = "sent" => state' = "sent"]_vars

(* The delivery implements at-most-once delivery of one message.           *)
Delivery == INSTANCE AtMostOnceDelivery WITH
    answer <- CASE state \in {"queued", "sending"} -> "pending" [] OTHER -> state

ImplementsAtMostOnce == Delivery!Spec

(* A mail that Gmail delivered is reported as sent in the end.             *)
DeliveredIsConfirmed == copies > 0 ~> state = "sent"
=============================================================================
