---------------------------- MODULE AccountActions ----------------------------
(***************************************************************************)
(* One mailbox action of an additional Gmail account: its gmail_pending_   *)
(* thread_actions row (backend/app/db/account_mail.py) and the job that    *)
(* carries it out (backend/app/services/account_mailbox_writes.py).        *)
(*                                                                         *)
(* The row is no claim: whoever has the job writes 'applying', 'applied'   *)
(* or 'failed' over whatever is there.                                     *)
(***************************************************************************)
EXTENDS Naturals

CONSTANTS
    ActionWorkers,   \* worker processes
    ActionAttempts,  \* max_attempts of the job
    MaxAsks,         \* bound: requests for the action
    MaxMishaps,      \* bound: crashes, lapses under live workers, errors of the handler
    Nobody

VARIABLES
    action,    \* gmail_pending_thread_actions.state, or "none"
    done,      \* Gmail has carried the action out
    asking,    \* requests that have recorded the action and not yet queued the job
    errand,    \* the active background_jobs row of the action
    step,      \* step[w]: the next call of the worker
    ending,    \* ending[w]: how its cycle is about to end
    abandoned, \* history: the last attempt or request ended without a word
    asks, mishaps

vars == <<action, done, asking, errand, step, ending, abandoned, asks, mishaps>>

NoErrand == [st |-> "none", n |-> 0, owner |-> Nobody]

TypeOK ==
    /\ action \in {"none", "queued", "applying", "applied", "failed"}
    /\ done \in BOOLEAN /\ abandoned \in BOOLEAN
    /\ asking \in 0..MaxAsks
    /\ errand \in [st : {"none", "queued", "running", "lapsed"}, n : 0..ActionAttempts, owner : ActionWorkers \cup {Nobody}]
    /\ step \in [ActionWorkers -> {"idle", "read", "begin", "call", "record", "handle", "finish"}]
    /\ ending \in [ActionWorkers -> {"complete", "retry"}]

Init ==
    /\ action = "none" /\ done = FALSE /\ asking = 0
    /\ errand = NoErrand
    /\ step = [w \in ActionWorkers |-> "idle"]
    /\ ending = [w \in ActionWorkers |-> "complete"]
    /\ abandoned = FALSE
    /\ asks = 0 /\ mishaps = 0

-----------------------------------------------------------------------------
Mishap == mishaps < MaxMishaps /\ mishaps' = mishaps + 1 /\ UNCHANGED asks
NoMishap == UNCHANGED <<asks, mishaps>>
Goto(w, s) == step' = [step EXCEPT ![w] = s]

(* create_or_get_action: a repeated request finds the row.                   *)
Request ==
    /\ asks < MaxAsks /\ asks' = asks + 1 /\ UNCHANGED mishaps
    /\ action' = IF action = "none" THEN "queued" ELSE action
    /\ asking' = asking + 1
    /\ UNCHANGED <<done, errand, step, ending, abandoned>>

(* enqueue_action queues the job, whatever the row's state.                  *)
Enqueue ==
    /\ asking > 0
    /\ asking' = asking - 1
    /\ errand' = IF errand.st = "none" THEN [NoErrand EXCEPT !.st = "queued"] ELSE errand
    /\ UNCHANGED <<action, done, step, ending, abandoned>> /\ NoMishap

RequestDies ==
    /\ asking > 0 /\ Mishap
    /\ asking' = asking - 1
    /\ abandoned' = TRUE
    /\ UNCHANGED <<action, done, errand, step, ending>>

-----------------------------------------------------------------------------
Exhausted == errand.n >= ActionAttempts

Take(w) ==
    /\ step[w] = "idle"
    /\ errand.st \in {"queued", "lapsed"} /\ ~Exhausted
    /\ errand' = [st |-> "running", n |-> errand.n + 1, owner |-> w]
    /\ Goto(w, "read")
    /\ UNCHANGED <<action, done, asking, ending, abandoned>> /\ NoMishap

(* A lapsed job without attempts left is dead, whatever its row says.         *)
Bury ==
    /\ errand.st = "lapsed" /\ Exhausted
    /\ errand' = NoErrand
    /\ abandoned' = TRUE
    /\ UNCHANGED <<action, done, asking, step, ending>> /\ NoMishap

(* deliver_pending_action and _apply_action: nothing to do for 'applied'.     *)
Read(w) ==
    /\ step[w] = "read"
    /\ IF action = "applied"
         THEN Goto(w, "finish") /\ ending' = [ending EXCEPT ![w] = "complete"]
         ELSE Goto(w, "begin") /\ UNCHANGED ending
    /\ UNCHANGED <<action, done, asking, errand, abandoned>> /\ NoMishap

(* Under the shared lock; or the lock, or the credentials, are not to be had. *)
Begin(w) ==
    /\ step[w] = "begin"
    /\ \/ action' = "applying" /\ Goto(w, "call")
       \/ UNCHANGED action /\ Goto(w, "handle")
    /\ UNCHANGED <<done, asking, errand, ending, abandoned>> /\ NoMishap

(* Gmail answers, or refuses, or its answer is lost.                         *)
CallUnchecked(w) ==
    /\ step[w] = "call"
    /\ done' \in {done, TRUE} /\ Goto(w, "record")
    /\ UNCHANGED <<action, asking, errand, ending, abandoned>> /\ NoMishap
Call(w) ==
    /\ step[w] = "call"
    /\ \/ done' = TRUE /\ Goto(w, "record")
       \/ done' \in {done, TRUE} /\ Goto(w, "handle")
    /\ UNCHANGED <<action, asking, errand, ending, abandoned>> /\ NoMishap

(* 'applied'; releasing the lock may fail after it.                          *)
Record(w) ==
    /\ step[w] = "record"
    /\ action' = "applied"
    /\ \/ Goto(w, "finish") /\ ending' = [ending EXCEPT ![w] = "complete"]
       \/ Goto(w, "handle") /\ UNCHANGED ending
    /\ UNCHANGED <<done, asking, errand, abandoned>> /\ NoMishap

(* The exception handler records 'failed' without looking.                   *)
AfterErrorUnrecorded == action
AfterError == "failed"
Handle(w) ==
    /\ step[w] = "handle"
    /\ action' = AfterError
    /\ Goto(w, "finish") /\ ending' = [ending EXCEPT ![w] = "retry"]
    /\ UNCHANGED <<done, asking, errand, abandoned>> /\ NoMishap

(* ... unless the database fails it.                                        *)
HandleFails(w) ==
    /\ step[w] = "handle" /\ Mishap
    /\ Goto(w, "finish") /\ ending' = [ending EXCEPT ![w] = "retry"]
    /\ abandoned' = (abandoned \/ Exhausted \/ errand.owner # w)
    /\ UNCHANGED <<action, done, asking, errand>>

(* complete_job or fail_job, by the owner only.                              *)
Finish(w) ==
    /\ step[w] = "finish"
    /\ errand' = IF ~(errand.st = "running" /\ errand.owner = w) THEN errand
                 ELSE IF ending[w] = "retry" /\ ~Exhausted THEN [errand EXCEPT !.st = "queued", !.owner = Nobody]
                 ELSE NoErrand
    /\ Goto(w, "idle")
    /\ UNCHANGED <<action, done, asking, ending, abandoned>> /\ NoMishap

(* A worker dies: nobody retries for one whose job another has taken.          *)
Crash(w) ==
    /\ step[w] # "idle" /\ Mishap
    /\ Goto(w, "idle")
    /\ abandoned' = (abandoned \/ errand.owner # w)
    /\ UNCHANGED <<action, done, asking, errand, ending>>

(* The lease lapses, of a dead worker or of one that goes on.                *)
Lapse ==
    /\ errand.st = "running"
    /\ errand' = [errand EXCEPT !.st = "lapsed"]
    /\ IF step[errand.owner] = "idle" THEN NoMishap ELSE Mishap
    /\ UNCHANGED <<action, done, asking, step, ending, abandoned>>

Next ==
    \/ Request \/ Enqueue \/ RequestDies \/ Bury \/ Lapse
    \/ \E w \in ActionWorkers : Take(w) \/ Read(w) \/ Begin(w) \/ Call(w) \/ Record(w)
                                \/ Handle(w) \/ HandleFails(w) \/ Finish(w) \/ Crash(w)

Spec == Init /\ [][Next]_vars

-----------------------------------------------------------------------------
(* An action that nobody works on any more tells how it ended, unless the     *)
(* last attempt, or the request, ended without a word: the row does not stay *)
(* 'queued' or 'applying' with no job behind it.                            *)
ActionSettles ==
    (errand.st = "none" /\ asking = 0 /\ ~abandoned /\ \A w \in ActionWorkers : step[w] = "idle")
        => action \in {"none", "applied", "failed"}

(* 'applied' is only said of what Gmail did, by overlapping attempts too.      *)
AppliedIsDone == action = "applied" => done

=============================================================================
