---------------------------- MODULE BodyHydration ----------------------------
(***************************************************************************)
(* How the stored mail of one Gmail account gets its bodies: the body jobs *)
(* and the body backfill of src/backend/app/services/gmail_importer.py on  *)
(* the rows of db/mail_groups.py, while the importer stores mail and       *)
(* ensure_background_import_work queues what is missing.                   *)
(*                                                                         *)
(* A body job marks the bodies it lacks as pending, downloads them under   *)
(* the account's advisory lock, where it reads the rows again, and stores  *)
(* each outcome in a transaction of its own after the lock is released.    *)
(* Transactions take the user's mail lock in shared mode only, so those of *)
(* two processes overlap: what one computes from a query may be older than *)
(* what it commits over.                                                   *)
(***************************************************************************)
EXTENDS Naturals, FiniteSets

CONSTANTS
    Workers,    \* the workers
    Message,    \* messages the mailbox ever has
    Thread,     \* their conversations
    ThreadOf,   \* ThreadOf[m]: the conversation of a message
    Window,     \* the conversations of the initial window
    Doomed,     \* messages that may be deleted at Gmail
    Malformed,  \* messages whose payload cannot be parsed
    BatchSize,  \* messages of a backfill page
    MaxFaults   \* bound on failed steps, lost workers, rows stored again and
                \* conversations opened

ASSUME BodyAssumption ==
    /\ ThreadOf \in [Message -> Thread]
    /\ Window \subseteq Thread
    /\ Malformed \subseteq Message /\ Doomed \subseteq Message
    /\ BatchSize \in Nat \ {0}
    /\ MaxFaults \in Nat

VARIABLES
    gmail,    \* messages Gmail has
    body,     \* body[m]: the row's body_fetch_status, "none" without a row
    listed,   \* window entries with metadata_ready_at
    ready,    \* window entries with body_ready_at
    count,    \* initial_body_ready_count
    metaDone, \* history_metadata_complete
    bodyDone, \* history_body_complete
    fetches,  \* conversations with an active gmail_body_fetch job
    backfill, \* is a gmail_body_backfill job active?
    lock,     \* who holds the account's download lock
    task,     \* task[w]: the body job worker w runs
    importer, \* what the importing worker does
    crossed,  \* conversations two open transactions wrote rows of at once
    faults    \* faults so far

past == <<crossed, faults>>
vars == <<gmail, body, listed, ready, count, metaDone, bodyDone, fetches, backfill, lock, task,
          importer, past>>
rows == <<body, listed, ready, count, metaDone, bodyDone>>
jobs == <<fetches, backfill>>

Final    == {"fetched", "unavailable"}
Statuses == Final \cup {"missing", "pending", "stale"}   \* stale: pending for 15 minutes

NoJob == "none"
NoTx == [on |-> FALSE, own |-> {}, as |-> "none", marks |-> {}, tally |-> 0, clear |-> FALSE]
Idle == [job |-> NoJob, pc |-> "idle", want |-> {}, got |-> {}, bad |-> {}, lost |-> {},
         left |-> {}, tx |-> NoTx]

Txs   == [on : BOOLEAN, own : SUBSET Message, as : Statuses \cup {"none"}, marks : SUBSET Thread,
          tally : 0..Cardinality(Window), clear : BOOLEAN]
Tasks == [job : Thread \cup {"backfill", NoJob},
          pc : {"idle", "pend", "lock", "download", "drop", "persist", "trigger", "spoil",
                "recount", "return", "settle", "chain"},
          want : SUBSET Message, got : SUBSET Message, bad : SUBSET Message,
          lost : SUBSET Message, left : SUBSET Message, tx : Txs]

Resting == [pc |-> "idle", ms |-> {}, meta |-> {}, tx |-> NoTx]
Imports == [pc : {"idle", "store", "remove", "conclude", "ensure", "trigger"},
            ms : SUBSET Message, meta : SUBSET Thread, tx : Txs]

TypeOK ==
    /\ gmail \in SUBSET Message
    /\ body \in [Message -> Statuses \cup {"none"}]
    /\ listed \in SUBSET Window /\ ready \in SUBSET Window
    /\ count \in 0..Cardinality(Window)
    /\ metaDone \in BOOLEAN /\ bodyDone \in BOOLEAN
    /\ fetches \in SUBSET Thread /\ backfill \in BOOLEAN
    /\ lock \in Workers \cup {NoJob}
    /\ task \in [Workers -> Tasks]
    /\ importer \in Imports
    /\ crossed \in SUBSET Thread /\ faults \in 0..MaxFaults

(* The bootstrap has listed the window and stored nothing yet.             *)
Init ==
    /\ gmail = Message
    /\ body = [m \in Message |-> "none"]
    /\ listed = {} /\ ready = {} /\ count = 0
    /\ metaDone = FALSE /\ bodyDone = FALSE
    /\ fetches = {} /\ backfill = FALSE /\ lock = NoJob
    /\ task = [w \in Workers |-> Idle]
    /\ importer = Resting
    /\ crossed = {} /\ faults = 0

-----------------------------------------------------------------------------
In(t) == {m \in Message : ThreadOf[m] = t}
Stored(b) == {m \in Message : b[m] # "none"}
Lacking(b) == {m \in Stored(b) : b[m] \notin Final}

Fault == faults < MaxFaults /\ faults' = faults + 1 /\ UNCHANGED crossed

(* ---- transactions: the statements, then the commit -------------------- *)

Written(ms, s) == [m \in Message |-> IF m \in ms THEN s ELSE body[m]]

(* A row that an open transaction wrote is locked until it commits.         *)
OpenTxs == {task[x].tx : x \in Workers} \cup {importer.tx}
Free(ms) == \A tx \in OpenTxs : tx.own \cap ms = {}

(* Conversations with rows of this transaction and of one that is open.      *)
Crossed(tx) == {t \in Thread : tx.own \cap In(t) # {} /\ ~Free(In(t))}

(* Entries of some conversations that the rows a transaction sees resolve.  *)
Resolved(b, ts) == {t \in Window \cap ts : In(t) \cap Lacking(b) = {}}

(* The statements of a transaction that writes these rows, with those of    *)
(* _update_gmail_body_progress_on_connection.                              *)
TxOf(own, s, ts) ==
    LET after == Written(own, s)
        marks == Resolved(after, ts)
    IN [on |-> TRUE, own |-> own, as |-> s, marks |-> marks,
        tally |-> Cardinality(ready \cup marks), clear |-> Lacking(after) = {}]

Summed(a, b) == a + b
Larger(a, b) == IF a > b THEN a ELSE b

Commit(tx) ==
    /\ body' = Written(tx.own, tx.as)
    /\ ready' = ready \cup tx.marks
    /\ count' = Larger(count, tx.tally)

(* The row is complete from the first time its history is and no body lacks. *)
Completed(tx) == bodyDone \/ (metaDone /\ tx.clear)

WindowComplete == listed = Window
(* Every body of the window is there, as far as the row's counters say.     *)
WindowReady == count >= Cardinality(Window)

(* ---- the worker's body jobs --------------------------------------------- *)

importing == <<gmail, listed, metaDone, importer>>

Running(j) == \E w \in Workers : task[w].job = j
Goto(w, where) == task' = [task EXCEPT ![w].pc = where]

(* The job ends; one that fails or loses its worker stays active.           *)
End(w) ==
    /\ task' = [task EXCEPT ![w] = Idle]
    /\ fetches' = fetches \ {task[w].job}
    /\ backfill' = (backfill /\ task[w].job # "backfill")

(* run_gmail_body_fetch: the bodies the conversation lacks.                 *)
BeginFetch(w, t) ==
    /\ task[w].pc = "idle"
    /\ t \in fetches /\ ~Running(t)
    /\ IF In(t) \cap Lacking(body) = {}
         THEN /\ fetches' = fetches \ {t}
              /\ UNCHANGED <<task, backfill>>
         ELSE /\ task' = [task EXCEPT ![w] = [Idle EXCEPT !.job = t, !.pc = "pend",
                                                !.want = In(t) \cap Lacking(body)]]
              /\ UNCHANGED jobs
    /\ UNCHANGED <<rows, gmail, lock, importer, past>>

(* list_messages_needing_body_fetch: a page, without what is being fetched. *)
SelectMissing == {m \in Message : body[m] = "missing"}
Selectable == {m \in Message : body[m] \in {"missing", "stale"}}
Page == {ms \in SUBSET Selectable :
           Cardinality(ms) = IF Cardinality(Selectable) < BatchSize THEN Cardinality(Selectable)
                                                                  ELSE BatchSize}

BeginBackfill(w) ==
    /\ task[w].pc = "idle"
    /\ backfill /\ ~Running("backfill")
    /\ \E ms \in Page :
         task' = [task EXCEPT ![w] = [Idle EXCEPT !.job = "backfill", !.want = ms,
                                        !.pc = IF ms = {} THEN "settle" ELSE "pend"]]
    /\ UNCHANGED <<rows, gmail, jobs, lock, importer, past>>

MarkAll(ms, s) == Written(ms \cap Stored(body), s)
(* mark_gmail_messages_body_fetch_state: never over a final state.          *)
Mark(ms, s) == Written(ms \cap Lacking(body), s)

Pend(w) ==
    /\ task[w].pc = "pend"
    /\ Free(task[w].want)
    /\ body' = Mark(task[w].want, "pending")
    /\ Goto(w, "lock")
    /\ UNCHANGED <<importing, ready, count, bodyDone, jobs, lock, past>>

(* What to do next with the outcomes of a download.                        *)
Onward(t) ==
    CASE t.lost # {} -> "drop"
      [] t.lost = {} /\ t.got # {} -> "persist"
      [] t.lost \cup t.got = {} /\ t.bad # {} -> "spoil"
      [] t.lost \cup t.got \cup t.bad = {} -> IF t.left # {} THEN "return" ELSE "settle"
Then(w, t) == task' = [task EXCEPT ![w] = [t EXCEPT !.pc = Onward(t)]]

(* _download_gmail_body_messages: the rows are read again under the lock.   *)
Lock(w) ==
    /\ task[w].pc = "lock"
    /\ lock = NoJob
    /\ LET left == task[w].want \cap Lacking(body)
       IN IF left = {}
            THEN Then(w, [task[w] EXCEPT !.want = {}]) /\ UNCHANGED lock
            ELSE /\ lock' = w
                 /\ task' = [task EXCEPT ![w].want = left, ![w].pc = "download"]
    /\ UNCHANGED <<rows, gmail, jobs, importer, past>>

(* Gmail's answers; the messages whose download fails are left for later.   *)
Download(w) ==
    /\ task[w].pc = "download"
    /\ lock' = NoJob
    /\ \E left \in SUBSET task[w].want :
         LET told == task[w].want \ left
         IN /\ Then(w, [task[w] EXCEPT !.want = {}, !.left = left, !.lost = told \ gmail,
                                       !.got = (told \cap gmail) \ Malformed,
                                       !.bad = told \cap gmail \cap Malformed])
            /\ IF left = {} THEN UNCHANGED past ELSE Fault
    /\ UNCHANGED <<rows, gmail, jobs, importer>>

DeleteQuietly(ms) == [TxOf(ms \cap Stored(body), "none", {}) EXCEPT !.tally = 0, !.clear = FALSE]
(* delete_gmail_messages resolves the entries of the conversations it       *)
(* touches, and counts again only if it found one.                         *)
DeleteTx(ms) ==
    LET own == ms \cap Stored(body)
        tx  == TxOf(own, "none", {ThreadOf[m] : m \in own})
    IN IF tx.marks = {} THEN [tx EXCEPT !.tally = 0, !.clear = FALSE] ELSE tx
Emptied(tx) == {t \in tx.marks : In(t) \cap Stored(Written(tx.own, tx.as)) = {}}

(* update_gmail_message_bodies, mark_..._state(unavailable) and, after it,   *)
(* mark_gmail_history_body_complete_if_ready.                               *)
PersistTx(ms) == TxOf({m \in ms : body[m] \notin {"none", "fetched"}}, "fetched",
                      {ThreadOf[m] : m \in ms})
SpoilTx(ms) ==
    LET own == ms \cap Lacking(body)
    IN IF own = {} THEN [NoTx EXCEPT !.on = TRUE] ELSE TxOf(own, "unavailable", {ThreadOf[m] : m \in own})
CountTx == TxOf({}, "none", {})

TxAt(t) ==
    CASE t.pc = "drop"    -> DeleteTx(t.lost)
      [] t.pc = "persist" -> PersistTx(t.got)
      [] t.pc = "spoil"   -> SpoilTx(t.bad)
      [] t.pc \in {"recount", "settle"} -> CountTx

(* The statements run.                                                     *)
Open(w) ==
    /\ ~task[w].tx.on
    /\ \/ task[w].pc \in {"drop", "persist", "spoil", "recount"}
       \/ task[w].pc = "settle" /\ task[w].job = "backfill"
    /\ Free(task[w].lost \cup task[w].got \cup task[w].bad)
    /\ task' = [task EXCEPT ![w].tx = TxAt(task[w])]
    /\ crossed' = crossed \cup Crossed(TxAt(task[w]))
    /\ UNCHANGED <<rows, gmail, jobs, lock, importer, faults>>

Tx(w) == task[w].tx
Committed(w) == /\ Tx(w).on
                /\ Commit(Tx(w))
                /\ bodyDone' = Completed(Tx(w))

CloseDrop(w) ==
    /\ task[w].pc = "drop"
    /\ Committed(w)
    /\ listed' = listed \cup Emptied(Tx(w))
    /\ Then(w, [task[w] EXCEPT !.lost = {}, !.tx = NoTx])
    /\ UNCHANGED <<gmail, metaDone, jobs, lock, importer, past>>

(* _persist_hydrated_body_messages: once the window's bodies are there, a   *)
(* body job starts the backfill.                                           *)
ClosePersist(w) ==
    /\ task[w].pc = "persist"
    /\ Committed(w)
    /\ LET t == [task[w] EXCEPT !.got = {}, !.tx = NoTx]
       IN IF /\ t.job # "backfill" /\ Tx(w).own # {}
             /\ WindowComplete /\ count' >= Cardinality(Window) /\ ~bodyDone'
            THEN task' = [task EXCEPT ![w] = [t EXCEPT !.pc = "trigger"]]
            ELSE Then(w, t)
    /\ UNCHANGED <<importing, jobs, lock, past>>

(* enqueue_gmail_body_backfill without a continuation: coalesced.           *)
Trigger(w) ==
    /\ task[w].pc = "trigger"
    /\ backfill' = TRUE
    /\ Then(w, task[w])
    /\ UNCHANGED <<rows, gmail, fetches, lock, importer, past>>

CloseSpoil(w) ==
    /\ task[w].pc = "spoil"
    /\ Committed(w)
    /\ task' = [task EXCEPT ![w].bad = {}, ![w].tx = NoTx, ![w].pc = "recount"]
    /\ UNCHANGED <<importing, jobs, lock, past>>

CloseRecount(w) ==
    /\ task[w].pc = "recount"
    /\ Committed(w)
    /\ Then(w, [task[w] EXCEPT !.tx = NoTx])
    /\ UNCHANGED <<importing, jobs, lock, past>>

(* What is unresolved goes back to be selected again, and the job fails.    *)
Return(w) ==
    /\ task[w].pc = "return"
    /\ Free(task[w].left)
    /\ body' = Mark(task[w].left, "missing")
    /\ task' = [task EXCEPT ![w] = Idle]
    /\ UNCHANGED <<importing, ready, count, bodyDone, jobs, lock, past>>

(* A body job ends; a backfill counts and goes on with the next page.       *)
Finish(w) ==
    /\ task[w].pc = "settle" /\ task[w].job # "backfill"
    /\ End(w)
    /\ UNCHANGED <<rows, gmail, lock, importer, past>>

CloseSettle(w) ==
    /\ task[w].pc = "settle" /\ task[w].job = "backfill"
    /\ Committed(w)
    /\ task' = [task EXCEPT ![w].pc = "chain", ![w].tx = NoTx]
    /\ UNCHANGED <<importing, jobs, lock, past>>

(* The successor has a dedupe key of its own.                              *)
Chain(w) ==
    /\ task[w].pc = "chain"
    /\ task' = [task EXCEPT ![w] = Idle]
    /\ backfill' = (Selectable # {})
    /\ UNCHANGED <<rows, gmail, fetches, lock, importer, past>>

(* The worker dies: its transaction and its lock go, its job stays.         *)
Die(w) ==
    /\ task[w].pc # "idle"
    /\ Fault
    /\ task' = [task EXCEPT ![w] = Idle]
    /\ lock' = IF lock = w THEN NoJob ELSE lock
    /\ UNCHANGED <<rows, gmail, jobs, importer>>

(* ---- the importer stores mail -------------------------------------------- *)

(* _upsert_gmail_messages_on_connection: a row without a final body is      *)
(* missing again, and the history is no longer complete.                    *)
StoreTx(ms, ts) ==
    LET tx == TxOf({m \in ms : body[m] \notin Final}, "missing", ts)
    IN [tx EXCEPT !.clear = @ \/ ms = {} \/ ~metaDone,
                  !.tally = IF ts = {} THEN 0 ELSE @]

(* commit_gmail_initial_window_metadata_batch, of a conversation.           *)
FetchEntry(t) ==
    /\ importer.pc = "idle"
    /\ t \in Window \ listed
    /\ importer' = [Resting EXCEPT !.pc = "store", !.ms = In(t) \cap gmail, !.meta = {t}]
    /\ UNCHANGED <<rows, gmail, jobs, lock, task, past>>

(* upsert_gmail_messages, of a delta, a recent sync or a reconciliation.    *)
FetchMessage(m) ==
    /\ importer.pc = "idle"
    /\ m \in gmail
    /\ IF body[m] = "none" THEN UNCHANGED past ELSE Fault
    /\ importer' = [Resting EXCEPT !.pc = "store", !.ms = {m}]
    /\ UNCHANGED <<rows, gmail, jobs, lock, task>>

(* delete_gmail_messages, of a delta or a reconciliation.                   *)
FindGone(m) ==
    /\ importer.pc = "idle"
    /\ m \in Stored(body) \ gmail
    /\ importer' = [Resting EXCEPT !.pc = "remove", !.ms = {m}]
    /\ UNCHANGED <<rows, gmail, jobs, lock, task, past>>

(* finalize_gmail_reconciliation, once.                                    *)
EndScan ==
    /\ importer.pc = "idle"
    /\ ~metaDone
    /\ importer' = [Resting EXCEPT !.pc = "conclude"]
    /\ UNCHANGED <<rows, gmail, jobs, lock, task, past>>

ImportTxAt(i) ==
    CASE i.pc = "store"    -> StoreTx(i.ms, i.meta)
      [] i.pc = "remove"   -> DeleteTx(i.ms)
      [] i.pc = "conclude" -> [CountTx EXCEPT !.tally = 0]

OpenImport ==
    /\ ~importer.tx.on
    /\ importer.pc \in {"store", "remove", "conclude"}
    /\ Free(importer.ms)
    /\ importer' = [importer EXCEPT !.tx = ImportTxAt(importer)]
    /\ crossed' = crossed \cup Crossed(ImportTxAt(importer))
    /\ UNCHANGED <<rows, gmail, jobs, lock, task, faults>>

ImportTx == importer.tx
MayClose == importer.tx.on

CloseStore ==
    /\ importer.pc = "store" /\ MayClose
    /\ Commit(ImportTx)
    /\ listed' = listed \cup importer.meta
    /\ bodyDone' = (bodyDone /\ ImportTx.clear)
    /\ importer' = [Resting EXCEPT !.pc = IF importer.meta # {} THEN "ensure" ELSE "trigger"]
    /\ UNCHANGED <<gmail, metaDone, jobs, lock, task, past>>

CloseRemove ==
    /\ importer.pc = "remove" /\ MayClose
    /\ Commit(ImportTx)
    /\ bodyDone' = Completed(ImportTx)
    /\ listed' = listed \cup Emptied(ImportTx)
    /\ importer' = [Resting EXCEPT !.pc = "trigger"]
    /\ UNCHANGED <<gmail, metaDone, jobs, lock, task, past>>

CloseConclude ==
    /\ importer.pc = "conclude" /\ MayClose
    /\ metaDone' = TRUE
    /\ bodyDone' = ImportTx.clear
    /\ importer' = [Resting EXCEPT !.pc = "trigger"]
    /\ UNCHANGED <<gmail, body, listed, ready, count, jobs, lock, task, past>>

(* _ensure_initial_window_body_jobs, and the backfill after the last entry.  *)
Owed == listed \ ready

EnsureJobs ==
    /\ importer.pc = "ensure"
    /\ fetches' = fetches \cup Owed
    /\ backfill' = (backfill \/ (WindowComplete /\ WindowReady))
    /\ importer' = Resting
    /\ UNCHANGED <<rows, gmail, lock, task, past>>

(* A delta starts the backfill once the window's bodies are there, the end   *)
(* of the reconciliation when the history's are not.                        *)
TriggerBackfill ==
    /\ importer.pc = "trigger"
    /\ backfill' = (backfill \/ (metaDone /\ (WindowReady \/ ~bodyDone)))
    /\ importer' = Resting
    /\ UNCHANGED <<rows, gmail, fetches, lock, task, past>>

(* The importing worker dies.  A bootstrap that is tried again begins by    *)
(* queueing the body jobs; a delta may find that it had published.          *)
DieImporting ==
    /\ importer.pc # "idle"
    /\ Fault
    /\ importer' = [Resting EXCEPT !.pc = IF importer.pc = "ensure" \/ importer.meta # {}
                                            THEN "ensure" ELSE "idle"]
    /\ UNCHANGED <<rows, gmail, jobs, lock, task>>

(* ---- polls, readers, time and Gmail --------------------------------------- *)

(* ensure_background_import_work, on every poll and every app session.      *)
Ensure ==
    LET bodies == IF ~bodyDone /\ fetches = {} THEN Owed ELSE {}
        more   == WindowComplete /\ metaDone /\ ~bodyDone /\ ~backfill
    IN /\ bodies # {} \/ more
       /\ fetches' = fetches \cup bodies
       /\ backfill' = (backfill \/ more)
       /\ UNCHANGED <<rows, gmail, lock, task, importer, past>>

(* A reader opens a conversation whose bodies are not all there.            *)
Read(t) ==
    /\ In(t) \cap Lacking(body) # {}
    /\ t \notin fetches
    /\ Fault
    /\ fetches' = fetches \cup {t}
    /\ UNCHANGED <<rows, gmail, backfill, lock, task, importer>>

(* Fifteen minutes pass since the row was marked.                          *)
Age(m) ==
    /\ body[m] = "pending"
    /\ Free({m})
    /\ body' = [body EXCEPT ![m] = "stale"]
    /\ UNCHANGED <<importing, ready, count, bodyDone, jobs, lock, task, past>>

Expunge(m) ==
    /\ m \in gmail \cap Doomed
    /\ gmail' = gmail \ {m}
    /\ UNCHANGED <<rows, jobs, lock, task, importer, past>>

-----------------------------------------------------------------------------
Work(w) ==
    \/ Pend(w) \/ Lock(w) \/ Download(w) \/ Open(w)
    \/ CloseDrop(w) \/ ClosePersist(w) \/ Trigger(w) \/ CloseSpoil(w) \/ CloseRecount(w)
    \/ Return(w) \/ Finish(w) \/ CloseSettle(w) \/ Chain(w)

Import == \/ OpenImport \/ CloseStore \/ CloseRemove \/ CloseConclude
          \/ EnsureJobs \/ TriggerBackfill

Next ==
    \/ \E w \in Workers : \/ \E t \in Thread : BeginFetch(w, t)
                          \/ BeginBackfill(w) \/ Work(w) \/ Die(w)
    \/ \E t \in Thread : FetchEntry(t) \/ Read(t)
    \/ \E m \in Message : FetchMessage(m) \/ FindGone(m) \/ Age(m) \/ Expunge(m)
    \/ EndScan \/ Import \/ DieImporting \/ Ensure

(* Workers claim the jobs that are queued and finish what they begin; polls, *)
(* which also queue the import until it is through, and time go on.          *)
Spec ==
    /\ Init /\ [][Next]_vars
    /\ \A w \in Workers : WF_vars(Work(w))
    /\ WF_vars(\E w \in Workers : BeginBackfill(w))
    /\ \A t \in Thread : WF_vars(\E w \in Workers : BeginFetch(w, t))
    /\ WF_vars(Import \/ EndScan \/ \E t \in Thread : FetchEntry(t))
    /\ WF_vars(Ensure) /\ WF_vars(\E m \in Message : Age(m))

-----------------------------------------------------------------------------
(* What the mailbox is promised.                                           *)

(* history_body_complete, which stops the polls from queueing any more body *)
(* work, is never set over a body that is still to come.                    *)
CompleteMeansComplete == bodyDone => Lacking(body) = {}

(* An entry of the window that is not ready has a body to wait for, so that  *)
(* the jobs that are queued for it until it is ready can make it so, unless  *)
(* two transactions that wrote rows of its conversation overlapped.         *)
EntriesSettle == \A t \in (listed \ ready) \ crossed : In(t) \cap Lacking(body) # {}

(* A body that is stored or known to be unreadable is not given up: not by   *)
(* a job that selected the row before, nor by an import that stores the row *)
(* again; only a deletion at Gmail takes the row.                           *)
BodySticks ==
    [][\A m \in Message : body[m] \in Final =>
         \/ body'[m] \in {body[m], "fetched"}
         \/ body'[m] = "none" /\ m \notin gmail]_vars

(* Once no more mail comes every stored message has its body, was found      *)
(* unreadable or went, whatever job failed or died on the way, unless the    *)
(* history was called complete too early.                                   *)
BodiesArrive ==
    []CompleteMeansComplete => <>[](\A m \in Message : body[m] \in Final \cup {"none"})

=============================================================================
