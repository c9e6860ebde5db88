------------------------------- MODULE MailSync -------------------------------
(***************************************************************************)
(* The mirror of one Gmail mailbox: delta syncs, recent syncs and full     *)
(* reconciliations of src/backend/app/services/gmail_importer.py, on the   *)
(* gmail_import_state row, gmail_messages and gmail_reconcile_seen of      *)
(* db/mail_groups.py, with the outbox of db/push_notifications.py and the  *)
(* poller that queues the jobs.                                            *)
(*                                                                         *)
(* A message is its history id: the version of its last change at Gmail,   *)
(* and of the row the mirror stores.  A worker's task is one job; every    *)
(* transaction and every call to Gmail is a step, and any step may fail or *)
(* the worker die, which queues the job again.  Jobs of one kind have      *)
(* several dedupe keys, so two workers may run the same kind at once.      *)
(***************************************************************************)
EXTENDS Naturals, FiniteSets

CONSTANTS
    Workers,      \* the workers
    Message,      \* messages the mailbox ever has
    Initially,    \* those it begins with
    PageOf,       \* the page of Gmail's listing a message stands on
    Pages,        \* pages of the listing
    MaxHistory,   \* bound on Gmail's history ids
    MaxScans,     \* bound on reconciliations started
    MaxFaults,    \* bound on failed steps, rejected tokens, lost histories and
                  \* deltas queued out of turn
    StaleRestart  \* may a scan restart under its name while a worker holds
                  \* a page of the scan before it?

SyncAssumption ==
    /\ Initially \subseteq Message
    /\ Pages \in Nat \ {0}
    /\ PageOf \in [Message -> 1..Pages]
    /\ MaxHistory \in Nat \ {0}
    /\ MaxScans \in Nat  /\ MaxFaults \in Nat
    /\ StaleRestart \in BOOLEAN

VARIABLES
    gmail,    \* gmail[m]: born and died, and the version of the last change
    now,      \* Gmail's history id
    floor,    \* the oldest id history.list still starts from
    mirror,   \* mirror[m]: the stored version, 0 when there is no row
    state,    \* the gmail_import_state row
    seen,     \* gmail_reconcile_seen of the scan in progress
    outbox,   \* messages with a push_deliveries row
    caughtUp, \* the last history id that a reconciliation published
    jobs,     \* kinds of jobs that are queued
    task,     \* task[w]: the job worker w runs
    scans,    \* reconciliations started so far
    faults    \* faults so far

vars == <<gmail, now, floor, mirror, state, seen, outbox, caughtUp, jobs, task, scans, faults>>
gmailVars == <<gmail, now, floor>>

History == 0..MaxHistory
Kinds   == {"delta", "import", "reconcile"}
NoScan  == 0
Bootstrap == 1        \* the scan named after the progressive import
Scans   == 0..(MaxScans + 1)
Done    == 0          \* a NULL reconcile_cursor: every page was listed

Nothing == [m \in Message |-> 0]

Idle == [job |-> "none", pc |-> "idle", gen |-> NoScan, base |-> 0, page |-> Done,
         from |-> 0, upto |-> 0, gone |-> {}, changed |-> {}, added |-> {}, got |-> Nothing]

Mails  == [born : History, died : History, ver : History]
States == [last : History, auth : BOOLEAN, gen : Scans, page : 0..Pages,
           base : History, pending : BOOLEAN]
Tasks  == [job : Kinds \cup {"none"},
           pc : {"idle", "list", "remove", "hydrate", "store", "push", "publish", "ensure",
                 "start", "recent", "keep", "hand", "page", "rows", "check", "see",
                 "finish", "reset"},
           gen : Scans, base : History, page : 0..Pages, from : History, upto : History,
           gone : SUBSET Message, changed : SUBSET Message, added : SUBSET Message,
           got : [Message -> History]]

TypeOK ==
    /\ gmail \in [Message -> Mails]
    /\ now \in History /\ floor \in History
    /\ mirror \in [Message -> History]
    /\ state \in States
    /\ seen \in SUBSET Message /\ outbox \in SUBSET Message
    /\ caughtUp \in History
    /\ jobs \in SUBSET Kinds
    /\ task \in [Workers -> Tasks]
    /\ scans \in 0..MaxScans /\ faults \in 0..MaxFaults

(* The progressive import stored some of the messages the mailbox began    *)
(* with, and left behind the scan it began before, or a reset one.         *)
Init ==
    /\ gmail = [m \in Message |-> IF m \in Initially THEN [born |-> 1, died |-> 0, ver |-> 1]
                                                     ELSE [born |-> 0, died |-> 0, ver |-> 0]]
    /\ \E stored \in SUBSET Initially : mirror = [m \in Message |-> IF m \in stored THEN 1 ELSE 0]
    /\ now = 1 /\ floor = 0
    /\ state \in {[last |-> 0, auth |-> FALSE, gen |-> Bootstrap, page |-> 1, base |-> 1, pending |-> TRUE],
                 [last |-> 0, auth |-> FALSE, gen |-> NoScan, page |-> Done, base |-> 0, pending |-> TRUE]}
    /\ seen = {} /\ outbox = {} /\ caughtUp = 0 /\ jobs = {}
    /\ task = [w \in Workers |-> Idle]
    /\ scans = 0 /\ faults = 0

-----------------------------------------------------------------------------
(* Gmail.                                                                   *)

Present(m) == gmail[m].born # 0 /\ gmail[m].died = 0
There == {m \in Message : Present(m)}

Fault == faults < MaxFaults /\ faults' = faults + 1

Tick == now < MaxHistory /\ now' = now + 1

Others == UNCHANGED <<floor, mirror, state, seen, outbox, caughtUp, jobs, task, scans, faults>>

Arrive(m) ==
    /\ gmail[m].born = 0
    /\ Tick
    /\ gmail' = [gmail EXCEPT ![m] = [born |-> now + 1, died |-> 0, ver |-> now + 1]]
    /\ Others

Relabel(m) ==
    /\ Present(m)
    /\ Tick
    /\ gmail' = [gmail EXCEPT ![m].ver = now + 1]
    /\ Others

Expunge(m) ==
    /\ Present(m)
    /\ Tick
    /\ gmail' = [gmail EXCEPT ![m].died = now + 1]
    /\ Others

ForgetHistory ==
    /\ floor < now
    /\ Fault
    /\ floor' = now
    /\ UNCHANGED <<gmail, now, mirror, state, seen, outbox, caughtUp, jobs, task, scans>>

AddedUnseen(h) == {m \in There : gmail[m].born > h /\ mirror[m] = 0}
(* What history.list tells of the changes after an id.                     *)
ChangedSince(h) == {m \in There : gmail[m].ver > h}
AddedSince(h) == {m \in There : gmail[m].born > h}
GoneSince(h) == {m \in Message : gmail[m].died > h}

(* The payloads of a set of messages, at the version they have now.        *)
Payloads(ms) == [m \in Message |-> IF m \in ms THEN gmail[m].ver ELSE 0]
Carried(g) == {m \in Message : g[m] # 0}

-----------------------------------------------------------------------------
(* The mirror.  An upsert never goes back to an older version.             *)
Newer(a, b) == IF a > b THEN a ELSE b
Upserted(g) == [m \in Message |-> Newer(mirror[m], g[m])]
Without(ms) == [m \in Message |-> IF m \in ms THEN 0 ELSE mirror[m]]

Goto(w, where) == task' = [task EXCEPT ![w].pc = where]
Stop(w) == task' = [task EXCEPT ![w] = Idle]

(* ---- the jobs begin ---------------------------------------------------- *)

Claim(w, k) ==
    /\ task[w].pc = "idle"
    /\ k \in jobs
    /\ jobs' = jobs \ {k}

(* run_gmail_delta_sync and run_gmail_import_batch: read the state once.    *)
BeginDelta(w) ==
    /\ Claim(w, "delta")
    /\ task' = [task EXCEPT ![w] = [Idle EXCEPT !.job = "delta", !.from = state.last,
                                   !.pc = IF state.auth THEN "list" ELSE "ensure"]]
    /\ UNCHANGED <<gmailVars, mirror, state, seen, outbox, caughtUp, scans, faults>>

BeginImport(w) ==
    /\ Claim(w, "import")
    /\ task' = [task EXCEPT ![w] = [Idle EXCEPT !.job = "import",
                                   !.pc = IF state.auth THEN "recent" ELSE "ensure"]]
    /\ UNCHANGED <<gmailVars, mirror, state, seen, outbox, caughtUp, scans, faults>>

(* Where a scan goes on: its next page, or, every page listed, the changes  *)
(* since its baseline.                                                     *)
Resume(g, h, page) ==
    IF page = Done THEN [Idle EXCEPT !.job = "reconcile", !.pc = "list", !.gen = g, !.from = h]
    ELSE [Idle EXCEPT !.job = "reconcile", !.pc = "page", !.gen = g, !.base = h, !.page = page]

(* run_gmail_full_reconciliation: resume the scan, or take a baseline.      *)
BeginReconcile(w) ==
    /\ Claim(w, "reconcile")
    /\ task' = [task EXCEPT ![w] =
                  IF state.gen # NoScan
                    THEN Resume(state.gen, state.base, state.page)
                    ELSE [Idle EXCEPT !.job = "reconcile", !.pc = "start", !.base = now]]
    /\ UNCHANGED <<gmailVars, mirror, state, seen, outbox, caughtUp, scans, faults>>

(* _ensure_gmail_reconciliation_started: the baseline is Gmail's history id *)
(* before anything is listed.                                              *)
Ensure(w) ==
    /\ task[w].pc = "ensure"
    /\ task' = [task EXCEPT ![w].base = now,
                            ![w].pc = IF state.gen = NoScan THEN "start" ELSE "recent"]
    /\ UNCHANGED <<gmailVars, mirror, state, seen, outbox, caughtUp, jobs, scans, faults>>

(* The import's history is still to be scanned: the scan takes its name.    *)
Name == IF state.pending THEN Bootstrap ELSE scans + 2

MayRestart(g) == StaleRestart \/ \A x \in Workers : task[x].gen # g

(* start_gmail_reconciliation: only when no scan is in progress.            *)
Start(w) ==
    /\ task[w].pc = "start"
    /\ IF state.gen = NoScan
         THEN /\ scans < MaxScans
              /\ MayRestart(Name)
              /\ scans' = scans + 1
              /\ seen' = {}
              /\ state' = [state EXCEPT !.auth = FALSE, !.gen = Name, !.page = 1,
                                        !.base = task[w].base]
         ELSE UNCHANGED <<scans, seen, state>>
    /\ task' = [task EXCEPT ![w] = IF @.job = "reconcile"
                                     THEN Resume(state'.gen, state'.base, state'.page)
                                     ELSE [@ EXCEPT !.pc = "recent"]]
    /\ UNCHANGED <<gmailVars, mirror, outbox, caughtUp, jobs, faults>>

(* ---- the newest messages ----------------------------------------------- *)

(* _run_recent_metadata_sync: the first page of the listing, newest first.  *)
Newest == {m \in There : \A x \in There : gmail[x].born <= gmail[m].born}

FetchRecent(w) ==
    /\ task[w].pc = "recent"
    /\ task' = [task EXCEPT ![w].got = Payloads(Newest), ![w].pc = "keep"]
    /\ UNCHANGED <<gmailVars, mirror, state, seen, outbox, caughtUp, jobs, scans, faults>>

(* A task without a baseline is the import of an authoritative mirror.      *)
KeepRecent(w) ==
    /\ task[w].pc = "keep"
    /\ mirror' = Upserted(task[w].got)
    /\ IF task[w].base = 0
         THEN Stop(w)
         ELSE task' = [task EXCEPT ![w] = [Idle EXCEPT !.job = task[w].job, !.pc = "hand"]]
    /\ UNCHANGED <<gmailVars, state, seen, outbox, caughtUp, jobs, scans, faults>>

(* enqueue_gmail_full_reconciliation, also after a reset and between pages. *)
HandOver(w) ==
    /\ task[w].pc = "hand"
    /\ jobs' = jobs \cup {"reconcile"}
    /\ Stop(w)
    /\ UNCHANGED <<gmailVars, mirror, state, seen, outbox, caughtUp, scans, faults>>

(* ---- history deltas ------------------------------------------------------ *)

Scanning(w) == task[w].job = "reconcile"

(* A delta that cannot go on falls back to a scan.                         *)
Rescan(w) == task' = [task EXCEPT ![w] = [Idle EXCEPT !.job = "delta", !.pc = "ensure"]]

(* _list_history_delta, from the cursor or from the scan's baseline.        *)
ListHistory(w) ==
    /\ task[w].pc = "list"
    /\ task[w].from >= floor
    /\ task' = [task EXCEPT ![w].upto = Newer(task[w].from, now),
                            ![w].gone = GoneSince(task[w].from),
                            ![w].changed = ChangedSince(task[w].from),
                            ![w].added = AddedSince(task[w].from),
                            ![w].from = 0, ![w].pc = "remove"]
    /\ UNCHANGED <<gmailVars, mirror, state, seen, outbox, caughtUp, jobs, scans, faults>>

(* The cursor expired, or the gap is too large to walk.                     *)
LoseHistory(w) ==
    /\ task[w].pc = "list"
    /\ \/ task[w].from < floor /\ UNCHANGED faults
       \/ task[w].from >= floor /\ Fault
    /\ IF Scanning(w) THEN Goto(w, "reset") ELSE Rescan(w)
    /\ UNCHANGED <<gmailVars, mirror, state, seen, outbox, caughtUp, jobs, scans>>

(* delete_gmail_messages.                                                  *)
Remove(w) ==
    /\ task[w].pc = "remove"
    /\ mirror' = Without(task[w].gone)
    /\ task' = [task EXCEPT ![w].gone = {}, ![w].pc = "hydrate"]
    /\ UNCHANGED <<gmailVars, state, seen, outbox, caughtUp, jobs, scans, faults>>

(* _hydrate_message_ids.  A reconciliation skips what is gone by now; a     *)
(* delta takes Gmail's 404 for an expired cursor.                          *)
Hydrate(w) ==
    /\ task[w].pc = "hydrate"
    /\ IF Scanning(w) \/ task[w].changed \subseteq There
         THEN task' = [task EXCEPT ![w].got = Payloads(task[w].changed \cap There),
                                   ![w].changed = {}, ![w].pc = "store"]
         ELSE Rescan(w)
    /\ UNCHANGED <<gmailVars, mirror, state, seen, outbox, caughtUp, jobs, scans, faults>>

Store(w) ==
    /\ task[w].pc = "store"
    /\ mirror' = Upserted(task[w].got)
    /\ Goto(w, IF Scanning(w) THEN "see" ELSE "push")
    /\ UNCHANGED <<gmailVars, state, seen, outbox, caughtUp, jobs, scans, faults>>

(* queue_new_mail: the outbox rows, each with its job.                      *)
Push(w) ==
    /\ task[w].pc = "push"
    /\ outbox' = outbox \cup (task[w].added \cap Carried(task[w].got))
    /\ task' = [task EXCEPT ![w].added = {}, ![w].got = Nothing, ![w].pc = "publish"]
    /\ UNCHANGED <<gmailVars, mirror, state, seen, caughtUp, jobs, scans, faults>>

PublishedProfile(h) == [state EXCEPT !.last = now, !.auth = TRUE]
(* The row's cursor after a traversal that ended at h.                      *)
Published(h) == [state EXCEPT !.last = IF state.auth THEN Newer(@, h) ELSE h, !.auth = TRUE]

(* mark_history_delta_completed.                                           *)
Publish(w) ==
    /\ task[w].pc = "publish"
    /\ state' = Published(task[w].upto)
    /\ Stop(w)
    /\ UNCHANGED <<gmailVars, mirror, seen, outbox, caughtUp, jobs, scans, faults>>

(* ---- full reconciliation ------------------------------------------------- *)

(* This worker's scan is the one in progress, at the cursor it expects.     *)
Current(w, page) == state.gen = task[w].gen /\ state.page = page

FollowingNever(page) == page + 1
Following(page) == IF page = Pages THEN Done ELSE page + 1

(* A listing shows what was there when it began; of what arrived since, any *)
(* part.                                                                   *)
Old(h)  == {m \in There : gmail[m].born <= h}
FetchPage(w) ==
    /\ task[w].pc = "page"
    /\ \E ms \in SUBSET (There \ Old(task[w].base)) :
         task' = [task EXCEPT
                    ![w].got = Payloads(ms \cup {m \in Old(task[w].base) : PageOf[m] = task[w].page}),
                    ![w].pc = IF task[w].gen = Bootstrap THEN "check" ELSE "rows"]
    /\ UNCHANGED <<gmailVars, mirror, state, seen, outbox, caughtUp, jobs, scans, faults>>

(* Gmail rejects a continuation token, or repeats it.                       *)
RejectToken(w) ==
    /\ task[w].pc = "page"
    /\ task[w].page # 1
    /\ Fault
    /\ Goto(w, "reset")
    /\ UNCHANGED <<gmailVars, mirror, state, seen, outbox, caughtUp, jobs, scans>>

(* A message listing stores its rows first and compares the cursor after.   *)
KeepRows(w) ==
    /\ task[w].pc = "rows"
    /\ mirror' = Upserted(task[w].got)
    /\ Goto(w, "check")
    /\ UNCHANGED <<gmailVars, state, seen, outbox, caughtUp, jobs, scans, faults>>

(* commit_gmail_reconciliation_metadata_page, of a thread listing, stores   *)
(* the rows in the transaction that records the page.                      *)
RowsWith(w) == IF task[w].gen = Bootstrap THEN Upserted(task[w].got) ELSE mirror

(* A page is recorded by the worker that finds the cursor it expects; one    *)
(* that lost the race ends, one that spent its page budget hands over.      *)
Checkpoint(w) ==
    /\ task[w].pc = "check"
    /\ IF Current(w, task[w].page)
         THEN /\ state' = [state EXCEPT !.page = Following(@)]
              /\ seen' = seen \cup Carried(task[w].got)
              /\ mirror' = RowsWith(w)
              /\ \/ task' = [task EXCEPT ![w] = Resume(@.gen, @.base, Following(@.page))]
                 \/ /\ task[w].page # Pages
                    /\ task' = [task EXCEPT ![w] = [Idle EXCEPT !.job = "reconcile", !.pc = "hand"]]
         ELSE /\ Stop(w)
              /\ UNCHANGED <<state, seen, mirror>>
    /\ UNCHANGED <<gmailVars, outbox, caughtUp, jobs, scans, faults>>

SeeNothing(w) ==
    /\ task[w].pc = "see"
    /\ task' = [task EXCEPT ![w].got = Nothing, ![w].pc = "finish"]
    /\ UNCHANGED <<gmailVars, mirror, state, seen, outbox, caughtUp, jobs, scans, faults>>
(* record_gmail_reconciliation_seen: nothing to record is no reason to end. *)
See(w) ==
    /\ task[w].pc = "see"
    /\ IF Carried(task[w].got) = {} \/ Current(w, Done)
         THEN /\ seen' = seen \cup Carried(task[w].got)
              /\ task' = [task EXCEPT ![w].got = Nothing, ![w].pc = "finish"]
         ELSE Stop(w) /\ UNCHANGED seen
    /\ UNCHANGED <<gmailVars, mirror, state, outbox, caughtUp, jobs, scans, faults>>

(* The rows the scan proves absent.                                        *)
Swept(h) == {m \in Message \ seen : mirror[m] <= h}

(* The row of a scan that ended at h.                                      *)
Concluded(h) == [Published(h) EXCEPT !.gen = NoScan, !.base = 0, !.pending = FALSE]

(* finalize_gmail_reconciliation: sweep and publish in one transaction.     *)
Finish(w) ==
    /\ task[w].pc = "finish"
    /\ IF Current(w, Done)
         THEN /\ mirror' = Without(Swept(task[w].upto))
              /\ state' = Concluded(task[w].upto)
              /\ seen' = {}
              /\ caughtUp' = Newer(caughtUp, task[w].upto)
         ELSE UNCHANGED <<mirror, state, seen, caughtUp>>
    /\ Stop(w)
    /\ UNCHANGED <<gmailVars, outbox, jobs, scans, faults>>

(* reset_gmail_reconciliation: only the scan this worker holds.             *)
Reset(w) ==
    /\ task[w].pc = "reset"
    /\ IF state.gen = task[w].gen
         THEN /\ state' = [state EXCEPT !.gen = NoScan, !.page = Done, !.base = 0, !.auth = FALSE]
              /\ seen' = {}
         ELSE UNCHANGED <<state, seen>>
    /\ task' = [task EXCEPT ![w] = [Idle EXCEPT !.job = "reconcile", !.pc = "hand"]]
    /\ UNCHANGED <<gmailVars, mirror, outbox, caughtUp, jobs, scans, faults>>

(* ---- the queue ------------------------------------------------------------ *)

(* A call fails, or the worker dies and its lease expires: the job is       *)
(* queued again.                                                           *)
Fail(w) ==
    /\ task[w].pc # "idle"
    /\ Fault
    /\ jobs' = jobs \cup {task[w].job}
    /\ Stop(w)
    /\ UNCHANGED <<gmailVars, mirror, state, seen, outbox, caughtUp, scans>>

WantedImport == IF state.gen # NoScan THEN "reconcile" ELSE "import"
(* poll_once: a scan in progress is resumed when nobody has it, a mirror    *)
(* without a cursor is imported, and otherwise a delta catches up.          *)
Wanted == IF state.gen # NoScan THEN "reconcile" ELSE IF state.auth THEN "delta" ELSE "import"

Poll ==
    /\ Wanted \notin jobs
    /\ \A w \in Workers : task[w].job # Wanted
    /\ jobs' = jobs \cup {Wanted}
    /\ UNCHANGED <<gmailVars, mirror, state, seen, outbox, caughtUp, task, scans, faults>>

(* mailbox_pubsub: a push of Gmail's watch queues a delta whatever the      *)
(* state, under a key of its own.                                          *)
Notify ==
    /\ Fault
    /\ "delta" \notin jobs
    /\ jobs' = jobs \cup {"delta"}
    /\ UNCHANGED <<gmailVars, mirror, state, seen, outbox, caughtUp, task, scans>>

(* enqueue_mailbox_sync: a client asks; a scan in progress is not looked at. *)
Asked == IF state.auth THEN "delta" ELSE "import"
Ask ==
    /\ Fault
    /\ Asked \notin jobs
    /\ jobs' = jobs \cup {Asked}
    /\ UNCHANGED <<gmailVars, mirror, state, seen, outbox, caughtUp, task, scans>>

-----------------------------------------------------------------------------
Mailbox == (\E m \in Message : Arrive(m) \/ Relabel(m) \/ Expunge(m)) \/ ForgetHistory

Begin(w) == BeginDelta(w) \/ BeginImport(w) \/ BeginReconcile(w)

Work(w) ==
    \/ Ensure(w) \/ Start(w) \/ FetchRecent(w) \/ KeepRecent(w) \/ HandOver(w)
    \/ ListHistory(w) \/ Remove(w) \/ Hydrate(w) \/ Store(w) \/ Push(w) \/ Publish(w)
    \/ FetchPage(w) \/ KeepRows(w) \/ Checkpoint(w) \/ See(w) \/ Finish(w)
    \/ Reset(w)

Next ==
    \/ Mailbox \/ Poll \/ Notify \/ Ask
    \/ \E w \in Workers : Begin(w) \/ Work(w) \/ LoseHistory(w) \/ RejectToken(w) \/ Fail(w)

(* The poller runs, workers finish what they began, and the queue, which    *)
(* hands out by priority and age, starves no kind of job.                   *)
Fairness ==
    /\ WF_vars(Poll)
    /\ \A w \in Workers :
         /\ WF_vars(Work(w) \/ LoseHistory(w))
         /\ SF_vars(BeginDelta(w)) /\ SF_vars(BeginImport(w)) /\ SF_vars(BeginReconcile(w))

Spec == Init /\ [][Next]_vars /\ Fairness

-----------------------------------------------------------------------------
(* What the mirror holds of the changes up to history id h.                 *)
Covered(h) == \A m \in There : gmail[m].ver <= h => mirror[m] >= gmail[m].ver

(* Once published, the cursor has passed no change that the mirror misses:  *)
(* every message Gmail still has, changed at or before the cursor, is       *)
(* stored at that change or a later one.  Delta syncs, scans that restart,  *)
(* and workers that raced, failed or died included.                         *)
NothingLost == state.auth => Covered(state.last)

(* No sweep and no deletion removes the row of a message Gmail still has:   *)
(* finalize_gmail_reconciliation "deletes only authoritatively absent rows".*)
RowsOutliveScans == [][\A m \in There : mirror[m] # 0 => mirror'[m] # 0]_vars

(* A message that arrived after the last scan and that the cursor passed    *)
(* has its push in the outbox: a delta that fails before it moves the       *)
(* cursor is repeated whole.                                               *)
PushedBeforePassed ==
    state.auth => \A m \in There :
        gmail[m].born > caughtUp /\ gmail[m].born <= state.last => m \in outbox

(* Every change of a message at Gmail is mirrored in the end, or the        *)
(* message is gone.                                                        *)
MailArrives ==
    \A m \in Message : Present(m) ~> (~ Present(m) \/ mirror[m] = gmail[m].ver)
=============================================================================
