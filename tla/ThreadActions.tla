---------------------------- MODULE ThreadActions ----------------------------
(***************************************************************************)
(* Mailbox actions on one conversation: archive, read, star, trash, spam   *)
(* and their inverses.  An API request changes the local labels at once    *)
(* and leaves a durable job; a worker repeats the change at Gmail, and     *)
(* undoes the local one when the job has used up its attempts.  From       *)
(* src/backend/app/services/mailbox_actions.py, workers/main.py, db/jobs.py *)
(* and the row updates of db/mail_groups.py.                               *)
(*                                                                         *)
(* The conversation is one message.  Its label list is a set: the code     *)
(* removes duplicates and compares membership, and the position a label    *)
(* is put back at shows nowhere.  Every database or provider call is a     *)
(* step of its own.  The importer overwrites the local labels only with    *)
(* those of a newer history id of the message, which Gmail issues when its *)
(* labels change.  A request repeated with its client_action_id finds the  *)
(* row and changes nothing.  delete_forever is not modelled.               *)
(***************************************************************************)
EXTENDS Naturals, FiniteSets

CONSTANTS
    Actions,        \* client action ids
    Kind,           \* what each action does
    Workers,
    NoWorker, NoAction,
    InitialLabels,  \* the conversation's labels, in both places
    OutsideLabels,  \* labels another Gmail client switches
    MaxOutside,     \* bound on these switches
    MaxAttempts,    \* max_attempts of the gmail_thread_action job
    MaxFaults       \* bound on crashes, steals from live workers, revocations

Labels == {"INBOX", "UNREAD", "STARRED", "TRASH", "SPAM"}

(* _labels_after_action: the labels a kind takes away and puts on.         *)
Removes ==
    [archive |-> {"INBOX"}, unarchive |-> {}, mark_read |-> {"UNREAD"}, mark_unread |-> {},
     move_trash |-> {"INBOX", "SPAM"}, restore_trash |-> {"TRASH"},
     mark_spam |-> {"INBOX", "TRASH"}, not_spam |-> {"SPAM"}, star |-> {}, unstar |-> {"STARRED"}]

Adds ==
    [archive |-> {}, unarchive |-> {"INBOX"}, mark_read |-> {}, mark_unread |-> {"UNREAD"},
     move_trash |-> {"TRASH"}, restore_trash |-> {"INBOX"},
     mark_spam |-> {"SPAM"}, not_spam |-> {"INBOX"}, star |-> {"STARRED"}, unstar |-> {}]

ActionAssumption ==
    /\ Kind \in [Actions -> DOMAIN Adds]
    /\ NoWorker \notin Workers /\ NoAction \notin Actions
    /\ InitialLabels \subseteq Labels /\ OutsideLabels \subseteq Labels
    /\ MaxOutside \in Nat /\ MaxFaults \in Nat /\ MaxAttempts \in Nat \ {0}

VARIABLES
    local,     \* gmail_messages.label_ids_json
    remote,    \* the labels at Gmail
    unseen,    \* Gmail's history id of the message is newer than the row's
    request,   \* request[a]: how far the API request has come
    base,      \* base[a]: labels the request read; previous_labels_json
    state,     \* state[a]: gmail_pending_thread_actions.state
    job,       \* job[a]: the background_jobs row of the action
    pc,        \* pc[w]: the next call of worker w
    task,      \* task[w]: the action it works on
    outcome,   \* outcome[w]: how its cycle is about to end
    draft,     \* draft[w]: labels its rollback is about to write
    reached,   \* history: actions Gmail has carried out
    undone,    \* history: actions whose rollback came to its end
    allowed,   \* the durable user-mail guard
    outside, faults

mail == <<local, remote, unseen>>
api == <<request, base>>
worker == <<pc, task, outcome, draft>>
ghost == <<reached, undone>>
world == <<allowed, outside, faults>>
vars == <<mail, api, state, job, worker, ghost, world>>

JobRows == [st : {"none", "queued", "running", "succeeded", "dead", "cancelled"},
            n : Nat, owner : Workers \cup {NoWorker}, lapsed : BOOLEAN]

TypeOK ==
    /\ local \subseteq Labels /\ remote \subseteq Labels /\ unseen \in BOOLEAN
    /\ request \in [Actions -> {"none", "read", "upserted", "optimistic", "accepted", "lost"}]
    /\ base \in [Actions -> SUBSET Labels]
    /\ state \in [Actions -> {"none", "queued", "applying", "applied", "failed"}]
    /\ job \in [Actions -> JobRows]
    /\ pc \in [Workers -> {"idle", "look", "begin", "call", "applied", "failing", "finish",
                           "rollback", "restore"}]
    /\ task \in [Workers -> Actions \cup {NoAction}]
    /\ outcome \in [Workers -> {"complete", "retry", "cancel", "auth"}]
    /\ draft \in [Workers -> SUBSET Labels]
    /\ reached \subseteq Actions /\ undone \subseteq Actions
    /\ allowed \in BOOLEAN /\ outside \in 0 .. MaxOutside /\ faults \in 0 .. MaxFaults

NoJob == [st |-> "none", n |-> 0, owner |-> NoWorker, lapsed |-> FALSE]

Init ==
    /\ local = InitialLabels /\ remote = InitialLabels /\ unseen = FALSE
    /\ request = [a \in Actions |-> "none"]
    /\ base = [a \in Actions |-> {}]
    /\ state = [a \in Actions |-> "none"]
    /\ job = [a \in Actions |-> NoJob]
    /\ pc = [w \in Workers |-> "idle"]
    /\ task = [w \in Workers |-> NoAction]
    /\ outcome = [w \in Workers |-> "complete"]
    /\ draft = [w \in Workers |-> {}]
    /\ reached = {} /\ undone = {}
    /\ allowed = TRUE /\ outside = 0 /\ faults = 0

-----------------------------------------------------------------------------
(* Labels.                                                                 *)

After(labels, k) == (labels \ Removes[k]) \cup Adds[k]

(* What Gmail makes of the call for the kind: its spam call leaves TRASH   *)
(* alone, and untrash may or may not bring the message back to the inbox.  *)
AtGmail(labels, k) ==
    CASE k = "mark_spam"     -> {(labels \ {"INBOX"}) \cup {"SPAM"}}
      [] k = "restore_trash" -> {labels \ {"TRASH"}, (labels \ {"TRASH"}) \cup {"INBOX"}}
      [] OTHER               -> {After(labels, k)}

Affected(labels, k) ==
    (labels \ After(labels, k)) \cup (After(labels, k) \ labels)

(* A rollback that puts nothing back: it only takes away what was put on.  *)
UndoAdditions(current, previous, k) == current \ Affected(previous, k)

(* _labels_after_failed_action.                                            *)
Undo(current, previous, k) ==
    (current \ Affected(previous, k)) \cup (previous \cap Affected(previous, k))

Fault == faults < MaxFaults /\ faults' = faults + 1

-----------------------------------------------------------------------------
(* The API request, enqueue_thread_action.                                 *)

Step(a, from, to) == request[a] = from /\ request' = [request EXCEPT ![a] = to]

(* _resolve_action_messages: what is read here is written back later.      *)
Read(a) ==
    /\ Step(a, "none", "read")
    /\ base' = [base EXCEPT ![a] = local]
    /\ UNCHANGED <<mail, state, job, worker, ghost, world>>

Upsert(a) ==
    /\ allowed
    /\ Step(a, "read", "upserted")
    /\ state' = [state EXCEPT ![a] = "queued"]
    /\ UNCHANGED <<mail, base, job, worker, ghost, world>>

(* _apply_local_action writes the whole list, if the action changes it.    *)
ApplyLocally(a) ==
    /\ allowed
    /\ Step(a, "upserted", "optimistic")
    /\ local' = IF After(base[a], Kind[a]) = base[a] THEN local ELSE After(base[a], Kind[a])
    /\ UNCHANGED <<remote, unseen, base, state, job, worker, ghost, world>>

Enqueue(a) ==
    /\ allowed
    /\ Step(a, "optimistic", "accepted")
    /\ job' = [job EXCEPT ![a] = [NoJob EXCEPT !.st = "queued"]]
    /\ UNCHANGED <<mail, base, state, worker, ghost, world>>

(* The process dies, or the guard refuses a write.  Before the row exists  *)
(* the client's retry starts afresh; from then on it finds the row.        *)
Abandon(a) ==
    /\ request[a] \in {"read", "upserted", "optimistic"}
    /\ IF allowed THEN Fault ELSE UNCHANGED faults
    /\ request' = [request EXCEPT ![a] = IF @ = "read" THEN "none" ELSE "lost"]
    /\ UNCHANGED <<mail, base, state, job, worker, ghost, allowed, outside>>

-----------------------------------------------------------------------------
(* The worker.                                                             *)

Goto(w, where) == pc' = [pc EXCEPT ![w] = where]
Ending(w, o) == Goto(w, "finish") /\ outcome' = [outcome EXCEPT ![w] = o]
At(w, where) == pc[w] = where
Rest(w) ==
    /\ Goto(w, "idle")
    /\ task' = [task EXCEPT ![w] = NoAction]
    /\ outcome' = [outcome EXCEPT ![w] = "complete"]
    /\ draft' = [draft EXCEPT ![w] = {}]

(* claim_job: a queued row, or a running one whose lease lapsed.           *)
Due(a) == job[a].st = "queued" \/ (job[a].st = "running" /\ job[a].lapsed)

Pick(w, a) ==
    /\ At(w, "idle") /\ Due(a)
    /\ job' = [job EXCEPT ![a] = [st |-> "running", n |-> @.n + 1, owner |-> w, lapsed |-> FALSE]]
    /\ task' = [task EXCEPT ![w] = a]
    /\ Goto(w, "look")
    /\ UNCHANGED <<mail, api, state, outcome, draft, ghost, world>>

(* run_pending_thread_action: an applied action is done ...                *)
Look(w) ==
    /\ At(w, "look")
    /\ IF state[task[w]] = "applied" THEN Ending(w, "complete")
       ELSE Goto(w, "begin") /\ UNCHANGED outcome
    /\ UNCHANGED <<mail, api, state, job, task, draft, ghost, world>>

(* A misspelt state.                                                       *)
BeginUnknown(w) ==
    /\ At(w, "begin") /\ allowed
    /\ state' = [state EXCEPT ![task[w]] = "running"]
    /\ Goto(w, "call")
    /\ UNCHANGED <<mail, api, job, task, outcome, draft, ghost, world>>

(* ... any other is marked 'applying' under the shared lock, whatever it   *)
(* has become, and called at Gmail.                                        *)
Begin(w) ==
    /\ At(w, "begin") /\ allowed
    /\ state' = [state EXCEPT ![task[w]] = "applying"]
    /\ Goto(w, "call")
    /\ UNCHANGED <<mail, api, job, task, outcome, draft, ghost, world>>

(* The row cannot be read, or the lock is not to be had.                   *)
Unavailable(w) ==
    /\ pc[w] \in {"look", "begin"}
    /\ Goto(w, IF At(w, "look") THEN "finish" ELSE "failing")
    /\ outcome' = [outcome EXCEPT ![w] = "retry"]
    /\ UNCHANGED <<mail, api, state, job, task, draft, ghost, world>>

(* UserMailWorkBlocked: nothing is recorded and the job is cancelled.      *)
Blocked(w) ==
    /\ pc[w] \in {"begin", "applied", "failing"} /\ ~allowed
    /\ Ending(w, "cancel")
    /\ UNCHANGED <<mail, api, state, job, task, draft, ghost, world>>

Carry(a) ==
    /\ remote' \in AtGmail(remote, Kind[a])
    /\ unseen' = (unseen \/ remote' # remote)
    /\ reached' = reached \cup {a}
    /\ UNCHANGED <<local, undone>>

Answered(w) ==
    /\ At(w, "call")
    /\ Carry(task[w])
    /\ Goto(w, "applied")
    /\ UNCHANGED <<api, state, job, task, outcome, draft, world>>

(* A call that takes any answer, or none, for success.                     *)
UnansweredIsApplied(w) ==
    /\ At(w, "call")
    /\ UNCHANGED <<mail, ghost>>
    /\ Goto(w, "applied")
    /\ UNCHANGED <<api, state, job, task, outcome, draft, world>>

(* The call fails, and Gmail may have carried it out all the same.         *)
Unanswered(w) ==
    /\ At(w, "call")
    /\ Carry(task[w]) \/ UNCHANGED <<mail, ghost>>
    /\ Goto(w, "failing")
    /\ outcome' = [outcome EXCEPT ![w] = "retry"]
    /\ UNCHANGED <<api, state, job, task, draft, world>>

(* GoogleCredentialsUnavailable, 401 or 403.                               *)
Unauthorized(w) ==
    /\ At(w, "call")
    /\ Fault
    /\ Goto(w, "failing")
    /\ outcome' = [outcome EXCEPT ![w] = "auth"]
    /\ UNCHANGED <<mail, api, state, job, task, draft, ghost, allowed, outside>>

(* _update_pending_thread_action_state, whatever the state has become.      *)
Marked(a, s) == allowed /\ state' = [state EXCEPT ![a] = s]

(* mark_pending_thread_action_applied, or a database error before or after  *)
(* its commit.                                                             *)
MarkApplied(w) ==
    /\ At(w, "applied")
    /\ \/ /\ Marked(task[w], "applied")
          /\ Ending(w, "complete")
       \/ /\ UNCHANGED state \/ Marked(task[w], "applied")
          /\ Goto(w, "failing")
          /\ outcome' = [outcome EXCEPT ![w] = "retry"]
    /\ UNCHANGED <<mail, api, job, task, draft, ghost, world>>

(* mark_pending_thread_action_failed, outside the lock; the first error     *)
(* counts when this fails as well.                                         *)
MarkFailed(w) ==
    /\ At(w, "failing") /\ allowed
    /\ Marked(task[w], "failed") \/ UNCHANGED state
    /\ Goto(w, "finish")
    /\ UNCHANGED <<mail, api, job, task, outcome, draft, ghost, world>>

Close(a, status) == job' = [job EXCEPT ![a] = [st |-> status, n |-> @.n, owner |-> NoWorker, lapsed |-> FALSE]]
Owns(w) == job[task[w]].st = "running" /\ job[task[w]].owner = w
Final(w) == job[task[w]].n >= MaxAttempts

(* The end of the cycle, fenced by the lease owner; an authorization       *)
(* failure first takes the mailbox off line.  Only a job that died here    *)
(* of its last error is rolled back.                                       *)
Finish(w) ==
    LET a == task[w] IN
    /\ At(w, "finish")
    /\ allowed' = (allowed /\ outcome[w] # "auth")
    /\ IF ~Owns(w) THEN Rest(w) /\ UNCHANGED job
       ELSE \/ outcome[w] = "complete" /\ Close(a, "succeeded") /\ Rest(w)
            \/ outcome[w] \in {"cancel", "auth"} /\ Close(a, "cancelled") /\ Rest(w)
            \/ outcome[w] = "retry" /\ ~Final(w) /\ Close(a, "queued") /\ Rest(w)
            \/ outcome[w] = "retry" /\ Final(w) /\ Close(a, "dead") /\ Goto(w, "rollback")
                /\ UNCHANGED <<task, outcome, draft>>
    /\ UNCHANGED <<mail, api, state, ghost, outside, faults>>

(* rollback_failed_thread_action reads the row and the labels ...          *)
RollBack(w) ==
    LET a == task[w]
        labels == Undo(local, base[a], Kind[a])
    IN /\ At(w, "rollback")
       /\ IF state[a] = "applied" \/ labels = local
          THEN Rest(w) /\ undone' = undone \cup {a}
          ELSE /\ Goto(w, "restore")
               /\ draft' = [draft EXCEPT ![w] = labels]
               /\ UNCHANGED <<task, outcome, undone>>
       /\ UNCHANGED <<mail, api, state, job, reached, world>>

(* ... and writes the whole list, unless the guard refuses.                *)
Restore(w) ==
    /\ At(w, "restore")
    /\ IF allowed THEN local' = draft[w] /\ undone' = undone \cup {task[w]} ELSE UNCHANGED <<local, undone>>
    /\ Rest(w)
    /\ UNCHANGED <<remote, unseen, api, state, job, reached, world>>

-----------------------------------------------------------------------------
(* Faults, Gmail and the importer.                                         *)

Crash(w) ==
    /\ ~At(w, "idle")
    /\ Fault
    /\ Rest(w)
    /\ UNCHANGED <<mail, api, state, job, ghost, allowed, outside>>

(* A lease lapses under a dead worker or, a fault, under a live one.       *)
Lapse(a) ==
    /\ job[a].st = "running" /\ ~job[a].lapsed
    /\ job' = [job EXCEPT ![a].lapsed = TRUE]
    /\ IF task[job[a].owner] # a THEN UNCHANGED faults ELSE Fault
    /\ UNCHANGED <<mail, api, state, worker, ghost, allowed, outside>>

Switch(l) ==
    /\ outside < MaxOutside
    /\ outside' = outside + 1
    /\ remote' = IF l \in remote THEN remote \ {l} ELSE remote \cup {l}
    /\ unseen' = TRUE
    /\ UNCHANGED <<local, api, state, job, worker, ghost, allowed, faults>>

(* An importer that adds Gmail's labels and keeps the local ones.          *)
SyncMerges ==
    /\ allowed /\ unseen
    /\ local' = local \cup remote /\ unseen' = FALSE
    /\ UNCHANGED <<remote, api, state, job, worker, ghost, world>>

(* upsert_gmail_messages: a newer history id brings its labels.            *)
Sync ==
    /\ allowed /\ unseen
    /\ local' = remote /\ unseen' = FALSE
    /\ UNCHANGED <<remote, api, state, job, worker, ghost, world>>

Reconnect ==
    /\ ~allowed /\ allowed' = TRUE
    /\ UNCHANGED <<mail, api, state, job, worker, ghost, outside, faults>>

Advance(w) ==
    \/ Look(w) \/ Begin(w) \/ Unavailable(w) \/ Blocked(w) \/ Answered(w) \/ Unanswered(w) \/ Unauthorized(w)
    \/ MarkApplied(w) \/ MarkFailed(w) \/ Finish(w) \/ RollBack(w) \/ Restore(w)

Serve(a) == Upsert(a) \/ ApplyLocally(a) \/ Enqueue(a)

Done ==
    /\ \A a \in Actions : request[a] \in {"accepted", "lost"} /\ job[a].st \notin {"queued", "running"}
    /\ \A w \in Workers : At(w, "idle")
    /\ UNCHANGED vars

Next ==
    \/ \E a \in Actions : Read(a) \/ Serve(a) \/ Abandon(a) \/ Lapse(a)
    \/ \E w \in Workers : Advance(w) \/ Crash(w) \/ \E a \in Actions : Pick(w, a)
    \/ \E l \in OutsideLabels : Switch(l)
    \/ Sync \/ Reconnect \/ Done

Spec == Init /\ [][Next]_vars

-----------------------------------------------------------------------------
(* Properties.                                                             *)

Requested == {a \in Actions : request[a] # "none"}

(* No request, job or rollback is under way and the importer has seen      *)
(* every change at Gmail.                                                  *)
Settled ==
    /\ \A a \in Requested : request[a] = "accepted" /\ job[a].st \notin {"queued", "running"}
    /\ \A w \in Workers : At(w, "idle")
    /\ ~unseen

Footprint(a) == Removes[Kind[a]] \cup Adds[Kind[a]]

(* Different actions, and other Gmail clients, touch different labels.     *)
Separate ==
    \A a \in Actions :
        /\ Footprint(a) \cap OutsideLabels = {}
        /\ \A b \in Actions \ {a} : Footprint(a) \cap Footprint(b) = {}

(* An action that changes the labels here changes them at Gmail, which     *)
(* mark_spam does not on spam in TRASH, nor restore_trash outside TRASH.   *)
Felt ==
    \A a \in Actions :
        After(InitialLabels, Kind[a]) # InitialLabels =>
          InitialLabels \notin AtGmail(InitialLabels, Kind[a])

(* Once every job has succeeded and the importer has caught up, the        *)
(* mailbox shows Gmail's labels, although concurrent requests and syncs    *)
(* overwrite one another's label lists on the way                          *)
(* (force_update_gmail_message_labels, upsert_gmail_messages).  A job that *)
(* died may have been rolled back over an action a slow worker applied.    *)
AppliedViewsAgree ==
    Separate /\ Settled /\ (\A a \in Requested : job[a].st = "succeeded") => local = remote

(* An action answered as 'applied' was carried out by Gmail, whatever      *)
(* crashes, lost answers and second workers did to its job                 *)
(* (run_pending_thread_action).                                            *)
AppliedMeansDone == \A a \in Actions : state[a] = "applied" => a \in reached

(* The only action there was never reached Gmail and was rolled back: the  *)
(* labels it touches are Gmail's again (rollback_failed_thread_action).    *)
LoneFailureLeavesNoTrace ==
    \A a \in Actions :
        /\ Separate /\ Settled
        /\ Requested = {a} /\ a \in undone \ reached
        => local \cap Footprint(a) = remote \cap Footprint(a)

(* "Restore canonical labels after a terminal optimistic-action failure":  *)
(* once every action is applied or rolled back and the importer has caught *)
(* up, the mailbox shows Gmail's labels (rollback_failed_thread_action).   *)
RolledBackViewsAgree ==
    Settled /\ (\A a \in Requested : state[a] = "applied" \/ a \in undone) => local = remote
=============================================================================
