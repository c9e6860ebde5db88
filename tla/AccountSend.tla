----------------------------- MODULE AccountSend -----------------------------
(***************************************************************************)
(* One outgoing mail of an additional Gmail account: its gmail_pending_    *)
(* sends row (backend/app/db/account_mail.py) and the durable job that     *)
(* delivers it (backend/app/services/account_mailbox_writes.py).           *)
(*                                                                         *)
(* Requests only record the mail and queue the job, so attempts meet only  *)
(* when a job is taken from a worker that still runs it: its lease lapses  *)
(* under a live worker, or a disconnect cancels it (Overlap = TRUE).  The  *)
(* row is not claimed by a compare-and-set as in PendingSend, and once a   *)
(* delivery failed it is only ever searched for.  As there, an error is    *)
(* recorded exactly in 'failed' (or in 'sending', where it changes         *)
(* nothing) and is not a variable.                                         *)
(***************************************************************************)
EXTENDS Naturals, FiniteSets

CONSTANTS
    Workers,      \* worker processes
    MaxAttempts,  \* max_attempts of the job
    MaxFaults,    \* bound: crashes, lapses under live workers, disconnects
    Overlap,      \* may a job be taken from a worker that still runs it?
    NoWorker      \* lease_owner is NULL

ASSUME NullIsNoWorker == NoWorker \notin Workers

VARIABLES
    state,    \* gmail_pending_sends.state, or "none"
    copies,   \* messages Gmail accepted under the stable Message-ID
    indexed,  \* how many of them Gmail's search already returns
    pc,       \* pc[w]: the next call of the worker's cycle
    seen,     \* seen[w]: the state the exception handler read
    outcome,  \* outcome[w]: how the cycle is about to end
    job,      \* the active background_jobs row of this send
    allowed,  \* the durable guards of the user and of the account
    faults

vars == <<state, copies, indexed, pc, seen, outcome, job, allowed, faults>>

States == {"none", "queued", "sending", "sent", "failed"}

(* Where a worker holds the shared provider locks of user and account.     *)
Locked == {"search", "claim", "send", "confirm"}

NoJob == [st |-> "none", n |-> 0, owner |-> NoWorker, lapsed |-> FALSE]

TypeOK ==
    /\ state \in States
    /\ copies \in Nat
    /\ indexed \in Nat
    /\ pc \in [Workers -> Locked \cup {"idle", "enter", "recover", "record", "finish"}]
    /\ seen \in [Workers -> States]
    /\ outcome \in [Workers -> {"complete", "retry", "cancel", "auth"}]
    /\ job \in [st : {"none", "queued", "running"}, n : Nat,
                owner : Workers \cup {NoWorker}, lapsed : BOOLEAN]
    /\ allowed \in BOOLEAN
    /\ faults \in Nat

Init ==
    /\ state = "none" /\ copies = 0 /\ indexed = 0
    /\ pc = [w \in Workers |-> "idle"]
    /\ seen = [w \in Workers |-> "none"]
    /\ outcome = [w \in Workers |-> "complete"]
    /\ job = NoJob /\ allowed = TRUE /\ faults = 0

-----------------------------------------------------------------------------
(* Requests.                                                               *)

(* create_or_get_send: the row is unique per client_send_id.               *)
Created == state = "none" /\ allowed /\ state' = "queued"

(* send_compose, send_reply: a request that is valid and new.               *)
Create ==
    /\ Created
    /\ UNCHANGED <<copies, indexed, pc, seen, outcome, job, allowed, faults>>

(* _queue_delivery, from a first request, a repeated one or retry_send.    *)
(* The request's snapshot of the row may predate 'sent'.                   *)
Queue ==
    /\ state # "none" /\ allowed
    /\ job.st = "none"
    /\ job' = [NoJob EXCEPT !.st = "queued"]
    /\ UNCHANGED <<state, copies, indexed, pc, seen, outcome, allowed, faults>>

-----------------------------------------------------------------------------
(* The worker's cycle.                                                     *)

Goto(w, where) == pc' = [pc EXCEPT ![w] = where]

Ends(w, o) == Goto(w, "finish") /\ outcome' = [outcome EXCEPT ![w] = o]

Pick(w) ==
    /\ pc[w] = "idle"
    /\ job.st = "queued" \/ (job.st = "running" /\ job.lapsed)
    /\ job' = [st |-> "running", n |-> job.n + 1, owner |-> w, lapsed |-> FALSE]
    /\ Goto(w, "enter")
    /\ UNCHANGED <<state, copies, indexed, seen, outcome, allowed, faults>>

(* "current.state == 'sending' or current.error": search, never send.      *)
NeedsSearchIfSending(s) == s = "sending"
NeedsSearch(s) == s \in {"sending", "failed"}

(* _deliver takes both shared locks, checks both guards, reads the row.    *)
Enter(w) ==
    /\ pc[w] = "enter"
    /\ \/ state = "sent" /\ Ends(w, "complete")
       \/ /\ state # "sent" /\ allowed
          /\ Goto(w, IF NeedsSearch(state) THEN "search" ELSE "claim")
          /\ UNCHANGED outcome
    /\ UNCHANGED <<state, copies, indexed, seen, job, allowed, faults>>

(* A lock timeout, a closed guard, a database or a provider error, or a    *)
(* search that finds nothing: the exception handler takes over.            *)
RaiseError(w) ==
    /\ pc[w] \in {"enter", "claim", "confirm"} \/ (pc[w] = "search" /\ indexed # 1)
    /\ Goto(w, "recover")
    /\ UNCHANGED <<state, copies, indexed, seen, outcome, job, allowed, faults>>

SearchFinds(w) ==
    /\ pc[w] = "search" /\ indexed = 1
    /\ Goto(w, "confirm")
    /\ UNCHANGED <<state, copies, indexed, seen, outcome, job, allowed, faults>>

(* update_send(state="sending"), whatever the row's state is by now.       *)
Claim(w) ==
    /\ pc[w] = "claim" /\ allowed
    /\ state' = "sending"
    /\ Goto(w, "send")
    /\ UNCHANGED <<copies, indexed, seen, outcome, job, allowed, faults>>

(* messages().send: accepted and answered, or unanswered or refused.       *)
Send(w) ==
    /\ pc[w] = "send"
    /\ \/ copies' = copies + 1 /\ Goto(w, "confirm")
       \/ copies' \in {copies, copies + 1} /\ Goto(w, "recover")
    /\ UNCHANGED <<state, indexed, seen, outcome, job, allowed, faults>>

(* update_send(state="sent"); releasing the locks may fail after it.       *)
Confirm(w) ==
    /\ pc[w] = "confirm" /\ allowed
    /\ state' = "sent"
    /\ Ends(w, "complete") \/ (Goto(w, "recover") /\ UNCHANGED outcome)
    /\ UNCHANGED <<copies, indexed, seen, job, allowed, faults>>

(* The exception handler, outside the locks: read the row ...              *)
Recover(w) ==
    /\ pc[w] = "recover"
    /\ seen' = [seen EXCEPT ![w] = state]
    /\ Goto(w, "record")
    /\ UNCHANGED <<state, copies, indexed, outcome, job, allowed, faults>>

(* ... and record 'sending' again if the send had been claimed, 'failed'   *)
(* otherwise, before the error goes on to the worker.                      *)
AfterErrorRequeued(s) == IF s = "sending" THEN "queued" ELSE "failed"
AfterErrorAmbiguous(s) == IF s = "sending" THEN "ambiguous" ELSE "failed"
AfterError(s) == IF s = "sending" THEN "sending" ELSE "failed"

Record(w) ==
    /\ pc[w] = "record" /\ allowed
    /\ state' = AfterError(seen[w])
    /\ \E o \in {"retry", "cancel", "auth"} : Ends(w, o)
    /\ UNCHANGED <<copies, indexed, seen, job, allowed, faults>>

RecordFails(w) ==
    /\ pc[w] = "record"
    /\ Ends(w, IF allowed THEN "retry" ELSE "cancel")
    /\ UNCHANGED <<state, copies, indexed, seen, job, allowed, faults>>

(* complete_job, fail_job and cancel_claimed_job, fenced by the owner; an  *)
(* authorization failure first marks the account reauth_required.          *)
FinishJob(w) ==
    /\ pc[w] = "finish"
    /\ allowed' = (allowed /\ outcome[w] # "auth")
    /\ job' = IF ~(job.st = "running" /\ job.owner = w) THEN job
              ELSE IF outcome[w] = "retry" /\ job.n < MaxAttempts
                   THEN [job EXCEPT !.st = "queued", !.owner = NoWorker, !.lapsed = FALSE]
                   ELSE NoJob
    /\ Goto(w, "idle")
    /\ UNCHANGED <<state, copies, indexed, seen, outcome, faults>>

-----------------------------------------------------------------------------
(* Gmail, time, faults and the account's connection.                       *)

Index ==
    /\ indexed < copies
    /\ indexed' = indexed + 1
    /\ UNCHANGED <<state, copies, pc, seen, outcome, job, allowed, faults>>

Lapse ==
    /\ job.st = "running" /\ ~job.lapsed
    /\ job' = [job EXCEPT !.lapsed = TRUE]
    /\ IF pc[job.owner] = "idle" THEN UNCHANGED faults
       ELSE Overlap /\ faults < MaxFaults /\ faults' = faults + 1
    /\ UNCHANGED <<state, copies, indexed, pc, seen, outcome, allowed>>

Crash(w) ==
    /\ pc[w] # "idle"
    /\ faults < MaxFaults /\ faults' = faults + 1
    /\ Goto(w, "idle")
    /\ UNCHANGED <<state, copies, indexed, seen, outcome, job, allowed>>

(* The disconnect drains the lock holders and cancels the account's jobs.  *)
Disconnect ==
    /\ \A w \in Workers : pc[w] \notin Locked /\ (pc[w] = "idle" \/ Overlap)
    /\ faults < MaxFaults /\ faults' = faults + 1
    /\ allowed' = FALSE
    /\ job' = NoJob
    /\ UNCHANGED <<state, copies, indexed, pc, seen, outcome>>

Reconnect ==
    /\ ~allowed
    /\ allowed' = TRUE
    /\ UNCHANGED <<state, copies, indexed, pc, seen, outcome, job, faults>>

Cycle(w) ==
    \/ Enter(w) \/ RaiseError(w) \/ SearchFinds(w) \/ Claim(w) \/ Send(w) \/ Confirm(w)
    \/ Recover(w) \/ Record(w) \/ RecordFails(w) \/ FinishJob(w)

Next ==
    \/ Create \/ Queue \/ Index \/ Lapse \/ Disconnect \/ Reconnect
    \/ \E w \in Workers : Pick(w) \/ Cycle(w) \/ Crash(w)

Spec == Init /\ [][Next]_vars

(* The user retries and reconnects, workers run, Gmail's index catches up, *)
(* and no call fails every time it is made.                                *)
Fairness ==
    /\ WF_vars(Create) /\ WF_vars(Queue) /\ WF_vars(Index) /\ WF_vars(Lapse) /\ WF_vars(Reconnect)
    /\ \A w \in Workers :
         /\ WF_vars(Pick(w)) /\ WF_vars(Cycle(w))
         /\ SF_vars(Enter(w)) /\ SF_vars(SearchFinds(w)) /\ SF_vars(Claim(w))
         /\ SF_vars(Send(w) /\ copies' > copies)
         /\ SF_vars(Confirm(w) /\ pc'[w] = "finish")

FairSpec == Spec /\ Fairness

-----------------------------------------------------------------------------
(* Properties.                                                             *)

(* "every retry reconciles by Message-ID and cannot issue a duplicate      *)
(* provider send": through crashes, lost answers, retries and disconnects  *)
(* the mail leaves at most once.                                           *)
AtMostOneCopy == copies <= 1

(* A delivery may only start from 'queued', so a row that is still         *)
(* 'queued' must never have reached Gmail, nor be about to.                *)
QueuedIsUnsent ==
    state \in {"none", "queued"} =>
        copies = 0 /\ \A w \in Workers : pc[w] \notin {"send", "confirm"}

(* Both: a mail goes out at most once, and not at all while its row says    *)
(* that it has yet to go.                                                  *)
AccountSendHolds == AtMostOneCopy /\ QueuedIsUnsent

(* "Please try again": a recorded mail of a user who goes on retrying      *)
(* reaches its recipient.                                                  *)
RetryDelivers == state = "failed" ~> copies > 0
=============================================================================
