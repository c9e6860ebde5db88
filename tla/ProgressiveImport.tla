-------------------------- MODULE ProgressiveImport --------------------------
(***************************************************************************)
(* Setting up a mailbox: the progressive import of                         *)
(* src/backend/app/services/gmail_importer.py.  A bootstrap job takes a    *)
(* reconciliation's generation, lists the newest conversations once as the *)
(* window of that generation, stores them in batches, each batch the work  *)
(* of one job that queues the next, and hands over to the reconciliation,  *)
(* which stores the rest.  Polls and app sessions queue what is missing,   *)
(* so bootstraps, reconciliations and imports run side by side; every      *)
(* sign-in queues a first run, which begins anew what was complete.        *)
(*                                                                         *)
(* A message is its conversation, a listing has one page, and what         *)
(* deltas, bodies and sweeps do is left to MailSync and BodyHydration.     *)
(***************************************************************************)
EXTENDS Naturals, FiniteSets

CONSTANTS
    Workers,    \* the workers
    Thread,     \* conversations the mailbox begins with
    BatchSize,  \* conversations a bootstrap job stores
    MaxGen,     \* bound on generations
    MaxFaults   \* bound on failures, exhausted jobs, rejected tokens, deletions,
                \* sign-ins and reconciliations that overtake a bootstrap

ImportAssumption ==
    /\ IsFiniteSet(Thread)
    /\ BatchSize \in Nat \ {0} /\ MaxGen \in Nat \ {0} /\ MaxFaults \in Nat

VARIABLES
    gmail,    \* conversations Gmail has
    row,      \* the gmail_import_state row
    entries,  \* gmail_initial_window_entries: <<generation, conversation>>
    ready,    \* those with metadata_ready_at
    stored,   \* conversations with a row in gmail_messages
    jobs,     \* queued jobs
    task,     \* task[w]: the job worker w runs
    gens,     \* generations named so far
    overtaken, \* did a reconciliation reach its end before the bootstrap?
    faults    \* faults so far

bounds == <<overtaken, faults>>
window == <<entries, ready>>
vars == <<gmail, row, window, stored, jobs, task, gens, bounds>>

NoGen == 0
Gens == 0..MaxGen
(* Dedupe keys of gmail_import_batch with first_run: the first run that a    *)
(* sign-in queues, the one that a poll does, and those that go on.          *)
FirstRuns  == {"signin", "first"}
Successors == {"resume", "next"}
Boot == FirstRuns \cup Successors
Jobs == Boot \cup {"import", "reconcile"}
Entries == (1..MaxGen) \X Thread

Idle == [job |-> "none", pc |-> "idle", gen |-> NoGen, batch |-> {}]

Rows  == [rec : Gens, threads : BOOLEAN, listed : BOOLEAN, sync : Gens, count : 0..Cardinality(Thread),
          window : BOOLEAN, meta : BOOLEAN, first : BOOLEAN, auth : BOOLEAN]
Tasks == [job : Jobs \cup {"none"},
          pc : {"idle", "start", "progress", "list", "discover", "pending", "commit",
                "next", "complete", "hand", "recent", "poll", "page", "finish", "reset"},
          gen : Gens, batch : SUBSET Thread]

TypeOK ==
    /\ gmail \in SUBSET Thread /\ stored \in SUBSET Thread
    /\ row \in Rows
    /\ entries \in SUBSET Entries /\ ready \in SUBSET Entries
    /\ jobs \in SUBSET Jobs
    /\ task \in [Workers -> Tasks]
    /\ gens \in Gens /\ overtaken \in BOOLEAN /\ faults \in 0..MaxFaults

(* A new account, or one whose mail was imported before imports were        *)
(* progressive.                                                            *)
NewAccount == [rec |-> NoGen, threads |-> FALSE, listed |-> FALSE, sync |-> NoGen, count |-> 0,
               window |-> FALSE, meta |-> FALSE, first |-> FALSE, auth |-> FALSE]

Init ==
    /\ gmail = Thread
    /\ \/ row = NewAccount /\ stored = {} /\ jobs = {"signin"}
       \/ /\ \E auth \in BOOLEAN : row = [NewAccount EXCEPT !.first = TRUE, !.auth = auth]
          /\ stored \in SUBSET Thread \ {{}}
          /\ jobs = {}
    /\ entries = {} /\ ready = {}
    /\ task = [w \in Workers |-> Idle]
    /\ gens = 0 /\ overtaken = FALSE /\ faults = 0

-----------------------------------------------------------------------------
Counted == faults < MaxFaults /\ faults' = faults + 1
Fault == Counted /\ UNCHANGED overtaken

Of(es, g) == {t \in Thread : <<g, t>> \in es}
Tagged(g, ts) == {<<g, t>> : t \in ts}

Goto(w, where) == task' = [task EXCEPT ![w].pc = where]
Stop(w) == task' = [task EXCEPT ![w] = Idle]

(* A job of these kinds is queued or runs.                                 *)
Active(kinds) == \/ jobs \cap kinds # {}
                 \/ \E w \in Workers : task[w].job \in kinds

(* enqueue_job: a dedupe key has one active job.                           *)
Enqueue(ks) == jobs' = jobs \cup {k \in ks : ~Active({k})}

Claim(w, k) == task[w].pc = "idle" /\ k \in jobs /\ jobs' = jobs \ {k}

(* ---- a reconciliation begins -------------------------------------------- *)

Pending == row.sync # NoGen /\ ~row.meta

(* run_gmail_import_batch and run_gmail_full_reconciliation read the state.  *)
Begin(w, k) ==
    /\ Claim(w, k)
    /\ task' = [task EXCEPT ![w] =
         [Idle EXCEPT !.job = k, !.gen = row.rec,
                      !.pc = IF row.rec = NoGen /\ (k # "import" \/ ~row.auth) THEN "start"
                             ELSE CASE k \in Boot -> "progress"
                                    [] k = "import" -> IF row.auth THEN "poll" ELSE "recent"
                                    [] k = "reconcile" -> IF row.listed THEN "finish" ELSE "page"]]
    /\ UNCHANGED <<gmail, row, window, stored, gens, bounds>>

(* start_gmail_reconciliation, under the import's generation while its       *)
(* history is pending, and a fresh one otherwise.                           *)
Start(w) ==
    /\ task[w].pc = "start"
    /\ IF row.rec = NoGen
         THEN /\ IF Pending THEN UNCHANGED gens ELSE gens < MaxGen /\ gens' = gens + 1
              /\ row' = [row EXCEPT !.rec = IF Pending THEN row.sync ELSE gens + 1,
                                    !.threads = (task[w].job \in Boot \/ Pending),
                                    !.listed = FALSE, !.auth = FALSE]
         ELSE UNCHANGED <<row, gens>>
    /\ task' = [task EXCEPT ![w].gen = row'.rec,
                            ![w].pc = CASE @ = "start" /\ task[w].job \in Boot -> "progress"
                                        [] task[w].job = "import" -> "recent"
                                        [] task[w].job = "reconcile" -> IF row'.listed THEN "finish" ELSE "page"]
    /\ UNCHANGED <<gmail, window, stored, jobs, bounds>>

(* ---- the bootstrap -------------------------------------------------------- *)

AlwaysAnew(g) == FALSE
(* The progress is of this generation already.                              *)
Continues(g) == row.sync = g
Restarted(g) == [row EXCEPT !.sync = g, !.count = 0, !.window = FALSE, !.meta = FALSE]

(* start_gmail_sync_progress: progress follows the generation in progress,   *)
(* and starts over with it, late if the scan has listed all already.        *)
Progress(w) ==
    LET g == task[w].gen
    IN /\ task[w].pc = "progress"
       /\ IF row.rec = g
            THEN /\ row' = IF Continues(g) THEN row ELSE Restarted(g)
                 /\ entries' = Tagged(g, Of(entries, g))
                 /\ ready' = Tagged(g, Of(ready, g))
                 /\ Goto(w, IF Of(entries, g) = {} /\ ~row'.window THEN "list" ELSE "pending")
                 /\ overtaken' = (overtaken \/ (row.listed /\ ~Continues(g)))
            ELSE /\ Stop(w)
                 /\ UNCHANGED <<row, window, overtaken>>
       /\ UNCHANGED <<gmail, stored, jobs, gens, faults>>

(* _list_initial_window_threads.                                           *)
List(w) ==
    /\ task[w].pc = "list"
    /\ task' = [task EXCEPT ![w].batch = gmail, ![w].pc = "discover"]
    /\ UNCHANGED <<gmail, row, window, stored, jobs, gens, bounds>>

Rediscovered(g) == FALSE
(* Was the window of this generation listed before?                        *)
Discovered(g) == Of(entries, g) # {} \/ row.window

(* initialize_gmail_initial_window.                                        *)
Discover(w) ==
    LET g == task[w].gen
    IN /\ task[w].pc = "discover"
       /\ IF row.sync # g
            THEN Stop(w) /\ UNCHANGED <<row, entries>>
            ELSE /\ task' = [task EXCEPT ![w].batch = {}, ![w].pc = "pending"]
                 /\ IF Discovered(g)
                      THEN UNCHANGED <<row, entries>>
                      ELSE /\ entries' = entries \cup Tagged(g, task[w].batch)
                           /\ row' = [row EXCEPT !.window = (task[w].batch = {}),
                                                 !.first = @ \/ task[w].batch = {}]
       /\ UNCHANGED <<gmail, ready, stored, jobs, gens, bounds>>

(* list_pending_gmail_initial_window_entries.                              *)
Batches(g) ==
    LET left == Of(entries \ ready, g)
    IN {ts \in SUBSET left : Cardinality(ts) = IF Cardinality(left) < BatchSize
                                                 THEN Cardinality(left) ELSE BatchSize}

Select(w) ==
    /\ task[w].pc = "pending"
    /\ \E ts \in Batches(task[w].gen) :
         task' = [task EXCEPT ![w].batch = ts,
                              ![w].pc = IF ts = {} THEN "complete" ELSE "commit"]
    /\ UNCHANGED <<gmail, row, window, stored, jobs, gens, bounds>>

CommitUnfenced(g) == TRUE
Fenced(g) == row.sync = g

(* commit_gmail_initial_window_metadata_batch, with what Gmail still has of  *)
(* the batch: the rest is resolved as missing.                             *)
CommitBatch(w) ==
    LET g     == task[w].gen
        batch == task[w].batch
    IN /\ task[w].pc = "commit"
       /\ IF Fenced(g)
            THEN /\ stored' = stored \cup (batch \cap gmail)
                 /\ ready' = ready \cup (Tagged(g, batch) \cap entries)
                 /\ LET n == Cardinality(Of(ready', g))
                    IN row' = [row EXCEPT !.count = IF n > @ THEN n ELSE @,
                                          !.window = @ \/ Of(entries, g) = Of(ready', g),
                                          !.first = TRUE]
                 /\ task' = [task EXCEPT ![w].batch = {},
                                         ![w].pc = IF row'.window THEN "complete" ELSE "next"]
            ELSE /\ Stop(w)
                 /\ UNCHANGED <<row, ready, stored>>
       /\ UNCHANGED <<gmail, entries, jobs, gens, bounds>>

(* _finish_progressive_gmail_metadata_batch: a successor for the next batch. *)
QueueNext(w) ==
    /\ task[w].pc = "next"
    /\ jobs' = jobs \cup {"next"}
    /\ Stop(w)
    /\ UNCHANGED <<gmail, row, window, stored, gens, bounds>>

(* _run_recent_metadata_sync stores some of the newest conversations; an      *)
(* import without a cursor asks for a reconciliation too.                   *)
Recent(w) ==
    /\ task[w].pc \in {"recent", "poll"}
    /\ \E ts \in SUBSET gmail : stored' = stored \cup ts
    /\ IF task[w].pc = "recent" THEN Goto(w, "hand") ELSE Stop(w)
    /\ UNCHANGED <<gmail, row, window, jobs, gens, bounds>>

(* mark_import_completed: not bound to the generation.                      *)
Complete(w) ==
    /\ task[w].pc = "complete"
    /\ row' = [row EXCEPT !.first = TRUE]
    /\ Goto(w, "hand")
    /\ UNCHANGED <<gmail, window, stored, jobs, gens, bounds>>

(* enqueue_gmail_full_reconciliation: the key names generation and cursor,   *)
(* so a running job does not hold a new one back.                          *)
HandOver(w) ==
    /\ task[w].pc = "hand"
    /\ jobs' = jobs \cup {"reconcile"}
    /\ Stop(w)
    /\ UNCHANGED <<gmail, row, window, stored, gens, bounds>>

(* ---- the reconciliation ---------------------------------------------------- *)

(* A page of conversations is stored with its checkpoint, and only for the   *)
(* generation the progress follows; one of messages before it.  A job whose  *)
(* budget of pages is spent queues the next.  A mailbox of few pages can     *)
(* come to its last one before the bootstrap is done.                       *)
Advances(w) == row.rec = task[w].gen /\ ~row.listed
Stores(w) == row.threads => Advances(w) /\ row.sync = task[w].gen

ChecksAlone(w) == Advances(w)
ChecksPoint(w) == Advances(w) /\ Stores(w)

Bootstrapping == \E w \in Workers : task[w].job \in Boot
Due == row.window /\ ~Bootstrapping /\ jobs \cap Successors = {}
Last(last) == \/ last = Due /\ UNCHANGED bounds
              \/ last /\ ~Due /\ Counted /\ overtaken' = TRUE

Page(w, last) ==
    /\ task[w].pc = "page"
    /\ Last(last)
    /\ \E ts \in IF last THEN {gmail} ELSE SUBSET gmail :
         stored' = IF Stores(w) THEN stored \cup ts ELSE stored
    /\ IF ChecksPoint(w)
         THEN /\ row' = [row EXCEPT !.listed = last]
              /\ Goto(w, IF last THEN "finish" ELSE "hand")
         ELSE Stop(w) /\ UNCHANGED row
    /\ UNCHANGED <<gmail, window, jobs, gens>>

Finished == [row EXCEPT !.rec = NoGen, !.listed = FALSE, !.threads = FALSE, !.meta = TRUE, !.auth = TRUE]

(* finalize_gmail_reconciliation.                                          *)
Finish(w) ==
    /\ task[w].pc = "finish"
    /\ row' = IF row.rec = task[w].gen /\ row.listed THEN Finished ELSE row
    /\ Stop(w)
    /\ UNCHANGED <<gmail, window, stored, jobs, gens, bounds>>

(* A rejected token discards the scan: _queue_clean_reconciliation_restart.  *)
RejectToken(w) ==
    /\ task[w].pc = "page"
    /\ Fault
    /\ Goto(w, "reset")
    /\ UNCHANGED <<gmail, row, window, stored, jobs, gens>>

Reset(w) ==
    /\ task[w].pc = "reset"
    /\ row' = IF row.rec = task[w].gen
                THEN [row EXCEPT !.rec = NoGen, !.listed = FALSE, !.threads = FALSE, !.auth = FALSE]
                ELSE row
    /\ Goto(w, "hand")
    /\ UNCHANGED <<gmail, window, stored, jobs, gens, bounds>>

(* ---- failures ---------------------------------------------------------------- *)

(* A step fails or the worker dies, and the job is tried again, or it was    *)
(* its last attempt.                                                        *)
Fail(w) ==
    /\ task[w].pc # "idle"
    /\ Fault
    /\ \/ jobs' = jobs \cup {task[w].job}
       \/ UNCHANGED jobs
    /\ Stop(w)
    /\ UNCHANGED <<gmail, row, window, stored, gens>>

(* The lease of a running job expires: another worker takes the job up.       *)
Expire(w) ==
    /\ task[w].job \in Boot \ jobs
    /\ Fault
    /\ jobs' = jobs \cup {task[w].job}
    /\ UNCHANGED <<gmail, row, window, stored, task, gens>>

(* ---- polls, sessions and Gmail ------------------------------------------------- *)

(* activate_existing_gmail_progressive_sync: the window of an account that   *)
(* was imported before is made from its rows, and its history is complete    *)
(* if the old backfill got to its end.                                      *)
Legacy == row.first /\ row.sync = NoGen
Activate ==
    LET g == IF row.rec # NoGen THEN row.rec ELSE gens + 1
    IN /\ Legacy
       /\ IF row.rec # NoGen THEN UNCHANGED gens ELSE gens < MaxGen /\ gens' = gens + 1
       /\ entries' = entries \cup Tagged(g, stored)
       /\ ready' = ready \cup Tagged(g, stored)
       /\ \E full \in BOOLEAN :
            /\ full => gmail \subseteq stored
            /\ row' = [row EXCEPT !.sync = g, !.count = Cardinality(stored), !.window = TRUE,
                                  !.meta = full]
       /\ UNCHANGED <<gmail, stored, jobs, task, bounds>>

FillingFirst == row.rec # NoGen /\ row.sync = row.rec /\ ~row.first
(* The window is not all there, and its reconciliation goes on.             *)
Filling == row.rec # NoGen /\ row.sync = row.rec /\ ~row.window

(* ensure_background_import_work: which jobs the state asks for.            *)
Missing ==
    IF Filling
      THEN {k \in {"resume"} : ~Active(Boot \cup {"import"})}
      ELSE {k \in {"reconcile"} : /\ ~Active({"reconcile"})
                                  /\ row.rec # NoGen \/ Pending \/ (row.first /\ ~row.auth)}
           \cup {k \in {"first"} : ~row.first}

EnsureQueued == ~Legacy /\ Enqueue(Missing)
Ensure ==
    /\ EnsureQueued
    /\ UNCHANGED <<gmail, row, window, stored, task, gens, bounds>>

(* poll_once, after it: a scan in progress is resumed whatever the import    *)
(* does, and a mailbox without a cursor is imported.                        *)
Poll ==
    /\ ~Legacy
    /\ Enqueue(IF row.rec # NoGen THEN {k \in {"reconcile"} : ~Active({"reconcile"})}
                                 ELSE {k \in {"import"} : ~row.auth})
    /\ UNCHANGED <<gmail, row, window, stored, task, gens, bounds>>

(* enqueue_first_run, of every sign-in and set-up of an account: whether it  *)
(* is imported already is not looked at.                                   *)
SignIn ==
    /\ ~Active({"signin"})
    /\ Fault
    /\ jobs' = jobs \cup {"signin"}
    /\ UNCHANGED <<gmail, row, window, stored, task, gens>>

(* A conversation is deleted at Gmail.                                      *)
Expunge(t) ==
    /\ t \in gmail
    /\ Fault
    /\ gmail' = gmail \ {t}
    /\ UNCHANGED <<row, window, stored, jobs, task, gens>>

-----------------------------------------------------------------------------
Work(w) ==
    \/ Start(w) \/ Progress(w) \/ List(w) \/ Discover(w) \/ Select(w) \/ CommitBatch(w)
    \/ QueueNext(w) \/ Recent(w) \/ Complete(w) \/ HandOver(w) \/ (\E last \in BOOLEAN : Page(w, last)) \/ Finish(w) \/ Reset(w)

Next ==
    \/ \E w \in Workers : \/ \E k \in Jobs : Begin(w, k)
                          \/ Work(w) \/ RejectToken(w) \/ Fail(w) \/ Expire(w)
    \/ Activate \/ Ensure \/ Poll \/ SignIn
    \/ \E t \in Thread : Expunge(t)

(* Workers claim every job in the end and finish what they begin; polls go   *)
(* on.                                                                      *)
Fairness ==
    /\ \A w \in Workers : WF_vars(Work(w))
    /\ SF_vars(\E w \in Workers, k \in Boot : Begin(w, k))
    /\ SF_vars(\E w \in Workers : Begin(w, "reconcile"))
    /\ SF_vars(\E w \in Workers : Begin(w, "import"))
    /\ WF_vars(Activate) /\ WF_vars(Ensure) /\ WF_vars(Poll)

Spec == Init /\ [][Next]_vars /\ Fairness

-----------------------------------------------------------------------------
(* What setting up promises.                                               *)

(* The row and the window agree: the entries are those of the generation     *)
(* the progress follows, the counter counts the stored ones, a complete      *)
(* window has no other, and an entry is ready once its conversation is       *)
(* stored, unless Gmail deleted it.                                        *)
WindowAgrees ==
    /\ \A e \in entries : e[1] = row.sync
    /\ ready \subseteq entries
    /\ row.count = Cardinality(ready)
    /\ row.window => ready = entries
    /\ \A e \in ready : e[2] \in stored \/ e[2] \notin gmail

(* A listing of the window is kept as it was while its generation lasts,     *)
(* whatever another job listed meanwhile.                                   *)
DiscoveredOnce ==
    [][entries # {} /\ row'.sync = row.sync => entries' = entries]_vars

(* A mailbox that says its history is complete has every conversation that   *)
(* Gmail has.                                                               *)
CompleteHistory == row.meta => gmail \subseteq stored

(* A first run took a scan of conversations and was lost for good before    *)
(* the progress followed it: no page of the scan is kept, and nothing but   *)
(* the next sign-in queues a first run.                                    *)
Stranded == row.first /\ row.rec # NoGen /\ row.rec # row.sync /\ row.threads /\ ~Active(Boot)

(* Setup is over in the end, after every sign-in: the window and the history *)
(* are complete and the mailbox has a cursor to go on from, unless a         *)
(* reconciliation was over before the bootstrap, or its first run was lost   *)
(* for good between taking the scan and following it.                       *)
SetUp == row.window /\ row.meta /\ row.auth /\ row.first
SetupFinishes == <>[](SetUp \/ overtaken \/ Stranded)

(* A complete window stays so for its generation.  Only a first run, of a    *)
(* sign-in or a poll, begins another generation over it; the jobs that go on *)
(* with a bootstrap, retried or late, do not, unless a reconciliation was    *)
(* over before the bootstrap.                                               *)
SetupNeverRegresses ==
    [][row.window /\ ~row'.window =>
         /\ row'.sync # row.sync
         /\ overtaken \/ \E w \in Workers : /\ task[w].job \in FirstRuns
                                            /\ task[w].pc = "progress" /\ task'[w].pc # "progress"]_vars

=============================================================================
