------------------------------- MODULE Signals -------------------------------
(***************************************************************************)
(* How a change of the mailbox reaches the screen.  A job writes mail,     *)
(* rebuilds the app-session snapshot and appends an event                  *)
(* (workers/main.py); the event stream (api/routes/mailbox.py,             *)
(* mailbox_events) hands the events to the client, which reads the mailbox *)
(* anew (InboxStore.swift).  The links are weak one by one: event ids are  *)
(* drawn before their rows are committed, the mailbox revision is the      *)
(* newest start of a transaction and not its end, a snapshot built early   *)
(* may be stored late, and a refresh asked for during a refresh is         *)
(* dropped.  What makes up for them is the poller, whose delta syncs       *)
(* refresh and signal whether or not anything changed.                     *)
(***************************************************************************)
EXTENDS Integers, FiniteSets, FiniteSetsExt

CONSTANTS Writers,      \* jobs that write mail, each once
          Orders,       \* those that refresh Gmail's order and signal mailbox-changed
          Poll,         \* the poller's delta syncs, one after the other
          MaxLog        \* bound: the poller waits while the client is this far behind

VARIABLES mail,      \* gmail_messages: the committed writes, and when each transaction began
          job,       \* the jobs that are running
          snapshot,  \* app_session_snapshots: the writes the stored snapshot shows
          log,       \* mailbox_events beyond the client's last event id
          client     \* the client: what it shows and what it is waiting for

vars == <<mail, job, snapshot, log, client>>

Jobs == Writers \cup {Poll}
Kinds == {"dashboard-changed", "mailbox-changed"}

(* Ids and stamps count from what the client last saw: only their order    *)
(* matters.                                                                *)
Pending == [step |-> "queued", began |-> 0, built |-> {}, id |-> 0, revision |-> 0]
Steps == {"queued", "writing", "building", "storing", "drawing", "inserting", "done"}

TypeOK ==
  /\ mail.visible \subseteq Writers /\ mail.stamp \in [Writers -> Nat]
  /\ \A j \in Jobs : job[j].step \in Steps /\ job[j].built \subseteq Writers
  /\ snapshot \subseteq Writers
  /\ \A e \in log : e.id \in Nat \ {0} /\ e.kind \in Kinds
  /\ client.shown \subseteq Writers
  /\ client.flight \in {"none", "asked", "paged"}

(* A client that has just started loads the mailbox and then opens the     *)
(* stream.                                                                 *)
Init ==
  /\ mail = [visible |-> {}, stamp |-> [w \in Writers |-> 0]]
  /\ job = [j \in Jobs |-> Pending]
  /\ snapshot = {}
  /\ log = {}
  /\ client = [shown |-> {}, revision |-> 0, scheduled |-> FALSE, flight |-> "asked",
               page |-> {}, connected |-> FALSE]

---------------------------------------------------------------------------
(* The jobs.                                                               *)

To(j, step) == job' = [job EXCEPT ![j].step = step]

BeginWrite(w) ==
  /\ job[w].step = "queued" /\ w \notin mail.visible
  /\ job' = [job EXCEPT ![w].step = "writing",
                        ![w].began = 1 + Max({mail.stamp[v] : v \in Writers}
                                             \cup {job[v].began : v \in Writers})]
  /\ UNCHANGED <<mail, snapshot, log, client>>

(* The rows are stamped with the start of the transaction, and become      *)
(* visible at its end.                                                     *)
CommitWrite(w) ==
  /\ job[w].step = "writing"
  /\ mail' = [visible |-> mail.visible \cup {w}, stamp |-> [mail.stamp EXCEPT ![w] = job[w].began]]
  /\ job' = [job EXCEPT ![w].step = "building", ![w].began = 0]
  /\ UNCHANGED <<snapshot, log, client>>

PollOnlyIfUnseen == \E w \in mail.visible : w \notin snapshot

(* A delta sync that finds nothing new still refreshes and signals.        *)
PollRefreshes == TRUE

StartPoll ==
  /\ job[Poll].step = "queued" /\ PollRefreshes /\ Cardinality(log) < MaxLog
  /\ To(Poll, "building")
  /\ UNCHANGED <<mail, snapshot, log, client>>

BuiltFrom == IF snapshot # {} THEN snapshot ELSE mail.visible

(* What refresh_app_session_snapshot reads.                                *)
Built == mail.visible

(* It reads the mailbox and later overwrites the snapshot, whatever        *)
(* another job stored since.                                               *)
Build(j) ==
  /\ job[j].step = "building"
  /\ job' = [job EXCEPT ![j].step = "storing", ![j].built = Built]
  /\ UNCHANGED <<mail, snapshot, log, client>>

Store(j) ==
  /\ job[j].step = "storing"
  /\ snapshot' = job[j].built
  /\ job' = [job EXCEPT ![j].step = "drawing", ![j].built = {}]
  /\ UNCHANGED <<mail, log, client>>

(* The newest stamp of the visible rows.                                   *)
Revision == Max({0} \cup {mail.stamp[w] : w \in mail.visible})

(* The event carries the revision of its time.  Its insert draws the next  *)
(* id of the sequence, and its row is seen when the transaction ends.  An  *)
(* id of zero is one the client has already passed.                        *)
DrawId(j) ==
  /\ job[j].step = "drawing"
  /\ job' = [job EXCEPT ![j].step = "inserting", ![j].revision = Revision,
                        ![j].id = 1 + Max({0} \cup {e.id : e \in log} \cup {job[k].id : k \in Jobs})]
  /\ UNCHANGED <<mail, snapshot, log, client>>

Signal(j) == [id |-> job[j].id, revision |-> job[j].revision,
              kind |-> IF j \in Orders THEN "mailbox-changed" ELSE "dashboard-changed"]

(* The job ends; the poller queues the next delta sync.                    *)
InsertEvent(j) ==
  /\ job[j].step = "inserting"
  /\ log' = IF job[j].id > 0 THEN log \cup {Signal(j)} ELSE log
  /\ job' = [job EXCEPT ![j] = [Pending EXCEPT !.step = IF j = Poll THEN "queued" ELSE "done"]]
  /\ UNCHANGED <<mail, snapshot, client>>

(* A job that wrote its mail ends without a word: it is out of attempts,   *)
(* or it is a reconciliation, which gives up the refresh rather than scan  *)
(* the mailbox again.  One that is retried instead finds nothing left to   *)
(* write, and refreshes and signals again, as the poller does.             *)
GiveUp(w) ==
  /\ job[w].step \in {"building", "storing", "drawing", "inserting"}
  /\ job' = [job EXCEPT ![w] = [Pending EXCEPT !.step = "done"]]
  /\ UNCHANGED <<mail, snapshot, log, client>>

---------------------------------------------------------------------------
(* The stream and the client.                                              *)

(* The log and the ids on their way, once the client has passed the first  *)
(* n ids.                                                                  *)
Passed(n) ==
  /\ log' = {[e EXCEPT !.id = @ - n] : e \in {f \in log : f.id > n}}
  /\ job' = [j \in Jobs |-> [job[j] EXCEPT !.id = IF @ > n THEN @ - n ELSE 0]]

(* The stream of a client that has just started begins right before the    *)
(* latest event.  A stream that breaks only delays what follows: the       *)
(* client resumes after the last event it was given.                       *)
Connect ==
  /\ ~client.connected /\ client.flight = "none"
  /\ client' = [client EXCEPT !.connected = TRUE]
  /\ IF log # {}
       THEN Passed(Max({e.id : e \in log}) - 1)
       ELSE UNCHANGED <<log, job>>
  /\ UNCHANGED <<mail, snapshot>>

(* dashboard-changed always asks for a refresh, mailbox-changed only with  *)
(* a revision the client has not seen.                                     *)
Wants(e) == e.kind = "dashboard-changed" \/ e.revision # client.revision

Deliver ==
  /\ client.connected /\ log # {}
  /\ LET e == CHOOSE f \in log : \A g \in log : f.id <= g.id
     IN /\ client' = [client EXCEPT !.scheduled = @ \/ Wants(e)]
        /\ Passed(e.id)
  /\ UNCHANGED <<mail, snapshot>>

(* The handshake of the stream, the sync-state of every fifteenth tick,    *)
(* and the client's own poll while the stream is down.                     *)
SyncState ==
  /\ client.connected /\ Revision # client.revision
  /\ client' = [client EXCEPT !.scheduled = TRUE]
  /\ UNCHANGED <<mail, job, snapshot, log>>

(* The refresh that was scheduled starts; one asked for while another is   *)
(* in flight is left to that one.                                          *)
PerformRefresh ==
  /\ client.scheduled
  /\ client' = [client EXCEPT !.scheduled = FALSE,
                              !.flight = IF @ = "none" THEN "asked" ELSE @]
  /\ UNCHANGED <<mail, job, snapshot, log>>

(* build_mailbox_response reads the page and, transactions later, the      *)
(* revision.                                                               *)
AnswerPage ==
  /\ client.flight = "asked"
  /\ client' = [client EXCEPT !.flight = "paged", !.page = mail.visible]
  /\ UNCHANGED <<mail, job, snapshot, log>>

AnswerRevision ==
  /\ client.flight = "paged"
  /\ client' = [client EXCEPT !.flight = "none", !.shown = client.page, !.page = {},
                              !.revision = Revision]
  /\ UNCHANGED <<mail, job, snapshot, log>>

JobSteps(j) ==
  \/ Build(j) \/ Store(j) \/ DrawId(j) \/ InsertEvent(j)

ClientSteps == PerformRefresh \/ AnswerPage \/ AnswerRevision

Next ==
  \/ \E w \in Writers : BeginWrite(w) \/ CommitWrite(w) \/ GiveUp(w)
  \/ StartPoll
  \/ \E j \in Jobs : JobSteps(j)
  \/ Connect \/ Deliver \/ SyncState
  \/ ClientSteps

(* Jobs that started go on (a failure is a step of its own), the poller    *)
(* polls, the client reconnects, reads its stream and finishes a refresh.  *)
Fairness ==
  /\ \A w \in Writers : WF_vars(CommitWrite(w))
  /\ \A j \in Jobs : WF_vars(JobSteps(j))
  /\ WF_vars(StartPoll) /\ WF_vars(Connect) /\ WF_vars(Deliver)
  /\ WF_vars(PerformRefresh) /\ WF_vars(AnswerPage) /\ WF_vars(AnswerRevision)

Spec == Init /\ [][Next]_vars /\ Fairness

---------------------------------------------------------------------------
(* The client comes to show all committed mail and goes on showing it,     *)
(* although signals are skipped, refreshes dropped and revisions collide.  *)
ClientCatchesUp == <>[](mail.visible \subseteq client.shown)

(* So does the snapshot, although an older one may overwrite a newer.      *)
SnapshotCatchesUp == <>[](mail.visible \subseteq snapshot)
=============================================================================
