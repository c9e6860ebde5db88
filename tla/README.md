# A verified model of the electronic-mail backend

This directory holds TLA+ modules that model the mail server in `src/backend`
(and the part of the Apple client that keeps the inbox fresh), TLC configurations
that model-check them on small instances, and theorems with proofs that TLAPS
checks for every value of the constants. `PROJECT.json` is the machine-readable
index: for every definition the lines of the source it stands for, for every
property a mutation of the model that breaks it, the hazards of the code with the
properties that would notice them going wrong, and the theorems.

The server is a FastAPI application and a worker process over one PostgreSQL
database. It mirrors Gmail mailboxes, answers the Apple and web clients from the
mirror, groups mail into matters with the help of language models, and repeats what
users do (send, archive, save a draft) at Gmail. Almost nothing in it is protected
by one transaction: a request writes a row, commits, calls Google, commits again,
while other requests, a worker, a restarted worker and Gmail itself do the same.
What holds it together is a small set of disciplines: leases, compare-and-set
updates, advisory locks in a fixed order, epochs, generations, a cursor that is
moved last, a stable Message-ID to search for. The models are about these.

Run a check with `tlc -config MC_X.cfg MC_X` and a proof with `tlapm XProofs.tla`.

## 1. Inventory

Paths are relative to `src/backend/app/`. For each component: its state, its
operations, what is hard about it, and the module that models it.

### Jobs
| Component | State | Operations | Hard behaviour | Module |
|---|---|---|---|---|
| Durable job queue `db/jobs.py` | `background_jobs`: status, attempts, lease | enqueue by dedupe key, claim, heartbeat, complete, fail, cancel, sweeps, retention | leases that lapse under live workers, steals, late heartbeats, sweeps racing finishes | `JobQueue`, `JobPromise` |
| Worker cycle `workers/main.py` | the claim snapshot of each process | claim, run the handler, finish, roll back, crash | the row changes under a running handler; the process dies anywhere | `JobQueue`; reduced copies in the others |

### Writing to Gmail
| Component | State | Operations | Hard behaviour | Module |
|---|---|---|---|---|
| Outgoing mail, primary account `services/mailbox_sends.py` | `gmail_pending_sends`, Gmail's Sent mail | request, retry, claim, send, search, finalize, fail | lost answers, a search index that lags, retries racing the worker | `PendingSend`, `AtMostOnceDelivery` |
| Outgoing mail, additional accounts `services/account_mailbox_writes.py` | the same rows | queue, deliver, recover from an exception | a claim that is no compare-and-set, a handler outside the lock | `AccountSend` |
| Actions and drafts of additional accounts, same file | action and draft rows | apply, fail; save, delete, send | rows that claim nothing; requests without locks | `AccountActions`, `AccountDrafts` |
| Mailbox actions `services/mailbox_actions.py` | local labels, action rows | optimistic update, Gmail call, rollback; the importer's label rule | label lists written back transactions after they were read | `ThreadActions` |
| Client drafts `services/mailbox_drafts.py` | draft rows, Gmail drafts, two session locks | save, read, delete, send | a create whose answer is lost; a lock whose name is learnt while another is held | `ClientDrafts` |

### Accounts
| Component | State | Operations | Hard behaviour | Module |
|---|---|---|---|---|
| Google grants `api/routes/auth_google.py`, `services/integrations/google.py` | token, user, tombstone epochs, revocation jobs, two locks | callback, disconnect, deletion, revocation, refresh | Google revokes every grant of a subject at once; locks time out | `GrantLifecycle` |
| Sessions, native sign-in and hand-off, `services/auth.py`, `db/repository.py` | OAuth visits, hand-off row, login codes, app sessions | callback, poll, exchange, sign out | repeated callbacks, concurrent polls and exchanges | `NativeSignIn` |
| Linking and setting up accounts `api/routes/gmail_accounts.py` | `gmail_accounts`, import jobs | link, set up, publish, pause | the limit under concurrent callbacks; 'importing' with no job | `LinkedAccounts` |

### Mirroring Gmail
| Component | State | Operations | Hard behaviour | Module |
|---|---|---|---|---|
| Importer `services/gmail_importer.py` and poller `workers/gmail_poller.py` | messages, history cursor, scan rows | delta, recent sync, reconciliation, poll | two workers on one page, a history that expired, replays | `MailSync` |
| Progressive import, same file | generation, window, progress | bootstrap, batches, hand-over, activation | a reclaimed job beside its slow predecessor | `ProgressiveImport` |
| Message bodies, same file, `db/mail_groups.py` | body status, window entries, completion flags | body jobs, backfill, recount | rows stored anew or deleted during a download | `BodyHydration` |
| Remote search `services/mailbox_search.py` | continuation jobs | walk, announce, continue | page tokens that repeat, retries | `RemoteSearch` |

### Showing mail
| Component | State | Operations | Hard behaviour | Module |
|---|---|---|---|---|
| Mailbox list `db/mail_groups.py` | rank generations, the date order, cursors | refresh, resolve, page | generations replaced under a cursor | `MailboxPages` |
| Conversation reader, replica batch | message rows, documents | page by offset, whole, rebuild | offsets that shift | `ThreadReader` |
| Push notices `services/push_notifications.py`, `db/push_notifications.py` | devices, outbox | register, queue, deliver, purge | a dying sync, a refused token that was replaced | `PushDelivery` |
| Events, stream, app-session snapshot, client refresh (`Core/InboxStore.swift`) | event ids, revision, snapshot, the client's state | write, signal, stream, refresh, poll | ids drawn before commit, stale snapshots, dropped refreshes | `Signals` |

### AI inbox
| Component | State | Operations | Hard behaviour | Module |
|---|---|---|---|---|
| Matters `services/ai_inbox.py`, `db/ai_inbox.py` | semantics, members, locks, separations | organise, merge, confirm, separate, move, trash | choices overtaken by decisions | `Matters` |
| Generations, same files | profile, generations, bootstrap pages | enable, rebuild, shadow, promote, delete | late jobs, counts read early | `Generations` |
| To-dos `services/ai_todos.py`, `db/ai_todos.py` | subgoals, items, extraction jobs | extract, project, list, tick | two reads, no check at the write | `Todos` |

Not modelled (section 8): push watch and attachment descriptors, mail groups and
tasks, rate limits, content processing, classification, encryption, configuration,
migrations, the web application, shared types and scripts, and of the Apple clients
everything but the refresh.

How they interact: requests and the poller write rows and **enqueue** jobs; the
**worker** claims a job and runs the handler of its kind; handlers take the shared
**provider lock** of the user (disconnect takes it exclusively), check the
**user-mail guard**, call **Gmail** and write rows; the **importer** overwrites what
the handlers changed optimistically, and queues body jobs, notices, events and
organise jobs for what it stored; **events** tell clients to read again. The grants
component raises the guard and cancels jobs under the feet of all others. Where two
components share state their interplay is modelled in one module: the importer's
label rule in `ThreadActions`, the storing of rows in `BodyHydration`, the
reconciliation in `ProgressiveImport`, the job of a mail in `PendingSend`, the poller in
`MailSync` and `Signals`. Elsewhere a module stands for its partner by an action
that does whatever the partner may do.

## 2. The modules

Every database transaction and every provider call is one action; what stands
between two of them is not atomic. Time is a nondeterministic step (a lease lapses,
a delay is over, an index catches up). Gmail is modelled by what its answers allow
the code to conclude: a call may be carried out and answered, carried out and
unanswered, not carried out, or refused. A counter of faults (crashes, steals
from live workers, refusals) is bounded by a constant; each cfg names its bounds.
What a language model answers is a free choice.

Where the code does not keep a promise in a rare race, the model performs the
race and a **history variable** records that it happened, so that the property says
exactly what is left: everything but the recorded case. Where a race would
spoil everything behind it, a **named constant** switches it on. Section 6 lists both.

**JobQueue, JobPromise.** `status`, `request`, `ready`, `attempts`, `owner`, `lease` are the
columns of `background_jobs`; `claim[w]` is the snapshot `claim_job` returned to worker
`w`. `Insert`/`WakeExisting` are the two ends of `enqueue_job`; `ClaimJob`, `Heartbeat`,
`LateHeartbeat`, `CompleteJob`, `CancelClaimedJob`, `FailJob` are the worker's updates, each
fenced by `Holds` (`status = 'running' AND lease_owner = :worker_id`); `CancelUserJobs`,
`ResolveSubject`, `ResolveOne` are sweeps that need no claim. `LateHeartbeat` is there because
the heartbeat thread is joined for one second only. `JobPromise` is what callers rely
on: a job is accepted, pending, decided once, forgotten.

**PendingSend, AtMostOnceDelivery.** One mail. `pc[a]` is the next call of an attempt,
made by a request thread or a worker; `seen[a]` the state it read under the lock;
`copies` and `indexed` are Gmail's side. `Claim` is `claim_pending_send`, the compare-and-set
everything rests on; `SearchFinds`/`SearchMisses` the search by Message-ID. `job` is the one
active row the dedupe key allows, a reduction of `JobQueue`. The abstract
specification knows only what the user is told and how many copies left.

**AccountSend, AccountActions, AccountDrafts.** The other implementation of the writes.
`AccountSend.Claim` writes 'sending' whatever the row's state is, and `Recover`/`Record` are an
exception handler that reads and writes in transactions of its own. In `AccountActions`
whoever has the job writes 'applying', 'applied' or 'failed' over whatever is
there. In `AccountDrafts` each request reads the row, calls Gmail and writes the row,
without a lock.

**ThreadActions.** One conversation, its labels locally and at Gmail, and `unseen`: whether
Gmail's history id is newer than the row's. `Read`, `Upsert`, `ApplyLocally`, `Enqueue` are the
four transactions of a request; `Look` to `Restore` the worker and the rollback; `Sync`
the importer. `After`, `AtGmail` and `Undo` are the label functions, for ten kinds of action.

**ClientDrafts.** `row[k]` binds identity `k` to a Gmail draft; `draft[i]` is Gmail's draft;
`task[r]` a request with the locks it wants. `Acquire` is `_ClientDraftLockHandle.acquire`,
`Adopt` is `adopt_gmail_draft_id`, which lets the identity's lock go and takes both in order.

**GrantLifecycle.** A login is one OAuth attempt, its callback, and the grant it gets.
`started`, `epoch` and `tombstone` decide which logins are stale; `subjectLock` and `mailLock`
are the advisory locks; `live`, `killed`, `expired` what Google thinks of each grant. The
triggers of migration 0023 run inside the actions that update the rows they guard
(`SetGuard`, `UpsertUser`, `Reconnect`). A process may die between any two steps.

**NativeSignIn.** The app polls one hand-off; the browser visits the sign-in page, perhaps
twice, and may repeat a callback. `login[v]` is the OAuth session of a visit, `request[c]`
the callback, `code[c]` the login code it issues, `handoff` the row between browser and app.

**LinkedAccounts.** Callbacks link, reconnect or sign in with a subject; `LockUser` to
`StoreLink` are the transaction that counts accounts under the row lock of the user.
`setup[s]` is the request that verifies, marks 'importing' and enqueues; `worker[w]` the import
as far as it publishes, pauses or gives up.

**MailSync.** A message is its history id. `mirror[m]` is the stored version, `state` the
`gmail_import_state` row with its cursor, generation and checkpoint. `BeginDelta` to `Publish` is
`run_history_delta_sync` with listing, removal, hydration, push and the cursor moved
last; `Start` to `Finish` a reconciliation with its pages, the rows it saw, the sweep and the
new cursor; `Poll` and `Ask` decide what is queued. Jobs of one kind have several dedupe
keys, so two workers may run the same kind.

**ProgressiveImport.** The window of a generation: `List`, `Discover`, `Select`, `CommitBatch`,
`QueueNext`, `Complete`, `HandOver` are the bootstrap; `Page` and `Finish` the reconciliation as
far as it writes the same row; `Activate`, `Ensure`, `Poll` whoever queues what is missing. `SignIn` is a
later sign-in, whose first run nobody checks against what is complete: `Progress` sets a finished
window and history back under a new generation.

**BodyHydration.** `body[m]` is `body_fetch_status`, `listed`/`ready` the window's entries, `fetches`
and `backfill` the active jobs, `lock` the account's download lock. A transaction is
opened and closed (`Open`, `ClosePersist`, ...): it computes from what it read at its beginning, and those of
several jobs and the importer overlap, since the user-mail guard is a shared lock; only the rows
they wrote keep them apart (`Free`). `crossed` records the conversations that two open ones wrote rows of. A
download settles some messages of a batch and leaves others.

**MailboxPages, ThreadReader, PushDelivery, RemoteSearch.** `ranks`/`order` are the order
generations and `walk` a reader whose page request is two transactions (`ResolveCursor`,
`FetchPage`); a page is the beginning of what lies ahead of the cursor, in the walk's order.
`ThreadReader` reads by offset with a revision, or whole after a preflight.
`PushDelivery` has the outbox written before the cursor, a registration whose transaction
is open (`enrolling`), and the purge that waits for provider work; a message ages out of being news (`Ages`),
a notice too (`Expires`). `RemoteSearch` has an
arbitrary but fixed page graph, so that tokens may repeat.

**Signals.** A write becomes visible at its commit but its revision is its start;
`DrawId` and `InsertEvent` are separate; `Build` and `Store` of the snapshot too; the client
schedules, performs and drops refreshes.

**Matters, Generations, Todos.** `Begin`, `Choose`, `Complete`, `Assign` are the four steps of
organising with provider calls between them; `Pick`, `Merge` a reconciliation;
`Confirm`, `Separate`, `Move`, `Trash` the user, on the matter as it was when it was
looked at; with `LateFailures` organising fails although its message is in a matter already.
`Generations` has the profile, generations and their jobs with priorities; `ListPage`
pages by offset; `Count`, `ReadStatus`, `End` are the three transactions of
`finalize_generation`. In `Todos` an extraction reads the matter (`ReadMatter`), then its subgoals
(`ReadContext`), and writes what a model answered (`Project`). A matter's status follows its subgoals, and
without any is the classifier's own (`Derive`, `needy`).

## 3. The runs

Each run asks one question of the system, or several of parts that share no state. In
the latter case (`grants`, `writes`, `client`, `drafts`, `mail_sync`, `signals`, `matters`) the MC module declares the variables
of all parts, the initial state chooses a part, and only its actions are enabled: the
reachable states are the union of those of the parts, never a product, and each
invariant speaks of the variables of one. `mail_sync` has the mirror, the grants and the import as parts, `matters`
the matters, the to-dos and the generations; `import` and the second part of `signals` then ask only for the
liveness of two of them. Parts use the same names for their actors, so
that a permutation of the names is a symmetry of every part. Symmetry is used only where
no liveness is checked. Every run ends within four minutes with two workers.

| Run | Distinct states | Question | Answer |
|---|---|---|---|
| `queue` | 219,060 | Is a job's fate decided once, by its newest claim, and decided at all, through leases that lapse, steals, sweeps and retention? | yes, and the queue implements `JobPromise` |
| `grants` | 74,345 | Does a connected user stand on a live grant, is no live grant forgotten, is each tracked one revoked, and does a native app's code sign it in once? | yes, unless locks time out or revocations go round them (5.4) |
| `writes` | 869,082 | Do optimistic label changes agree with Gmail in the end, and are the writes of additional accounts made once and told truly? | yes, but for the recorded cases (6) |
| `drafts` | 658,207 | Is there one Gmail draft, does its row tell what Gmail has, do the locks never wait in a circle, and are limit and states of additional accounts kept? | yes, without lost updates (5.7) |
| `mail_sync` | 1,989,125 | Does the cursor pass no change, does no scan delete a row of existing mail, do window and row of an import agree, is a history called complete that is, and does no login outlive a disconnect? | yes, the first two without stale restarts (5.8), the import but for overtaken batches (6), the last with every fault |
| `bodies` | 500,417 | Is no window entry stranded, no body given up, and does every body come, whatever transactions overlap? | yes, but for entries of conversations written twice at once (6) and, for the last, a history called complete too early (5.2) |
| `import` | 473,768 | Does setup end, through batches, reconciliations, polls, repeated sign-ins and faults? | yes, but for the recorded cases (6) |
| `client` | 1,887,210 | Does a mail leave once and is only what did not leave called failed? Do lists, readers, notices and searches miss nothing? | yes, but for the recorded cases (6) |
| `signals` | 398,317 | Do client and snapshot come to show all mail although ids, revisions and refreshes are lost on the way? Does a rebuild of the AI inbox end? | yes, thanks to the unconditional refresh of the poller; yes |
| `matters` | 2,728,171 | Do the user's corrections stand, is every message placed, do finished to-dos leave, does no generation return, and does the active one organise every message? | yes, but for the recorded cases (6) |
| `bodies_complete` | a violation | Is a history called complete only when no body is to come? | **no** (5.2) |
| `generations_consent` | a violation | Is AI processing enabled only with the user's consent? | **no** (5.1) |

`CHECK_DEADLOCK FALSE` stands where the system really comes to rest: no more rows,
requests, mail or faults within the bounds.

### Bounds, and why they are enough
* `queue`: two rows, two workers, two deduplicated classes (one swept by subject),
  `MaxAttempts = 2`, `ClaimBound = 3`: a steal needs two workers, a dedupe conflict two rows,
  and the third claim takes a row past its budget. Safety is proved for all values.
* `client`: two request threads and a worker make the three-way race on the claim of a
  mail, with one fault: a crash, a steal or a disconnect (safety proved for all
  values). Three conversations and pages of one; three generations of order while no
  mail moves put a cursor over a generation that is replaced twice, two while mail
  moves put it over one that changed; three messages read by pages of one
  and a batch limit of two reach the shifted offset and the oversized batch. Two sessions
  and two tokens are what a replaced token needs; three page tokens and a budget of two
  make a search continue and a token come back.
* `writes`: two actions on separate labels, two workers, and one disturbance, a fault or a
  change by another client: two actions are needed for the overwriting of label lists,
  two workers for a stolen job (proved for all sets of actions and all numbers). The
  mail of an additional account: two workers, three faults, two attempts: a crash in every
  state and one more (proved for all values without overlap). Four requests on a draft:
  two first saves, a send and its retry (proved for all numbers). An action of an
  additional account: two workers, two attempts, two requests, two mishaps (proved for
  all numbers).
* `drafts`: two Gmail drafts, so that a second create would show; three requests at once, so
  that one can run in the gap of another's handoff while a third waits; two faults. Accounts:
  two users, two subjects, three callbacks, a limit of one: two callbacks at the limit and a
  third that takes the subject away (proved for all numbers).
* `grants`: two logins are one stored grant and one newcomer; one disconnect, one worker, two
  faults. In `mail_sync` the same module has every fault, a deletion besides the disconnect, and
  no liveness. Safety is proved for all numbers. Beside it the native sign-in: two visits,
  two callbacks, which repeat one visit or belong to both (proved for all numbers).
* `mail_sync`: two messages on two pages, two workers, two scans, and two changes at Gmail
  without a fault or one change and one fault: a page in hand while the scan restarts,
  two deltas, a scan beside a delta (proved for all numbers).
* `bodies`: one conversation of two messages, one that may be deleted and one malformed, so
  that entries, completion and the download meet every outcome; two workers and an importer, whose three
  transactions may be open at once, one fault. The same instance is that of `bodies_complete`.
* `import`: two conversations in batches of one (a batch and its successor), two workers,
  eight generations, two faults, of which a sign-in is one. Its safety is a part of `mail_sync` (proved for all numbers).
* `signals`: two writers, so that one id and one start can overtake another; the poller
  waits while one event is outstanding (`MaxLog`), which bounds the log without dropping polls.
* `matters`: two messages and three matters are what merging, separating and moving need;
  two workers, two decisions, one fault, no late failures (`LateFailures = TRUE` has a million states more and no
  violation either; the theorems cover both). To-dos: two matters, one subgoal name, three events
  (a touched item that hides a lost extraction, section 6, takes two names and four; the theorem covers it).
* `signals`, rebuilds: two messages on pages of one, one of them recent; two generations, two requests
  and one fault; one worker, since jobs only meet through the rows and a worker's three
  transactions interleave with all requests. The safety of the generations is a part of `matters`, with
  two workers, since one may organise a message while another pages past it, and no fault (proved for
  all numbers, faults included).

### Fairness, and why the code justifies it
* `queue`: surviving workers poll (the loop of `main.py` never stops claiming), every cycle ends,
  delays and leases run out by the clock. A lease lapses for certain only if nobody
  renews it. Other workers may die for good.
* `grants`: a request under way goes on; the worker claims; strong fairness of taking a lock,
  because PostgreSQL queues waiters for an advisory lock in order. Nobody has to sign
  in, press a button or fail.
* `bodies`, `import`, `signals`' rebuilds: workers finish what they began (weak), queued jobs are
  claimed, polls and the importer go on, what waits for a retry is due in the end. In `import`
  claiming is strongly fair: the claim takes the oldest due job of the highest
  priority, so a job that is queued again and again is not passed over for ever.
* `signals`: jobs that started go on (giving up is a step of its own), the poller polls, the
  client reconnects, reads its stream and finishes a refresh. Nobody has to write mail.
* The other runs check safety only. `MailSync` and `PendingSend` state their fairness
  (`Fairness`) for the liveness properties `MailArrives` and `DeliveredIsConfirmed`, which no run checks.

### What the properties say
* **Queue.** `OnlyNewestClaimFinishes`: a running row is ended by a worker only under its newest
  claim. `ImplementsPromise`: the queue refines `JobPromise`. `EveryJobSettles`: accepted jobs end.
* **Sends.** `ImplementsAtMostOnce`: at most one copy, and what the user was told stays true.
  `FailedIsConclusive`: a row a retry may deliver has no copy. `AccountSendHolds`: one copy at
  most, none while 'queued'.
* **Actions.** `AppliedViewsAgree`: at rest, local labels and Gmail's agree. `LoneFailureLeavesNoTrace`: an action
  that failed alone leaves the labels as they were. `ActionSettles`: no row stays open without a job.
* **Drafts.** `OneDraft`; `RowTellsGmail`: a saved row's content is stored, an editable one unsent,
  a deleted one gone; `NoWaitCycle`; `DraftSentOnce`.
* **Grants.** `StoredGrantIsLive`, `GrantsAreAccountedFor` (no live grant is forgotten), `RevocationEnds`,
  `NoLoginSurvivesItsFence` (no login begun before a completed disconnect leaves the user connected).
* **Accounts.** `SignInHolds`: a code the app was given works, no session without a consumed code,
  one code per visit. `AccountsHold`: the limit, and 'importing' means that somebody will publish.
* **Mirror.** `NothingLost`: the cursor passes no change the mirror misses. `RowsOutliveScans`: no row
  of a message Gmail has is deleted. `SetupIsTrue`, `WindowStands`, `SetupFinishes`: window and row
  agree, a complete history is complete, a window is listed once and, once complete, begun anew only by a first
  run under another generation, setup ends. `EntriesSettle`, `BodySticks`, `BodiesArrive`: no window entry waits
  for nothing, no body that came is given up, every body comes. `CompleteMeansComplete`, which is violated: bodies
  are not called complete too early. `SearchIsComplete`: a search that is over announced every page.
* **Reading.** `ListedOnceEach`, `ReadAsItIs`, `NoticesHold` (no notice lost by a dying sync, none
  after a purge), `FreshTokenStaysEnabled`, `MailIsShown` (client and snapshot come to show all mail and
  keep doing so).
* **AI.** `CorrectionsHold` and `ChoicesStand`: what the user decided stands; `EveryMessageIsPlaced`: none
  hidden or unorganised; `FinishedLeaves`: finished to-dos go; `NeverReturns`, `RebuildEnds`,
  `EveryMessageOrganised` of the generations.

The modules also state properties that no run checks, each kept because a proof rests on it or
because a reader will ask: the type invariants; `SettledOnce`, `SentIsFinal`, `AppliedMeansDone`,
`EndedIsGone`, `AppliedIsDone`, `PushedBeforePassed`, `FinalIsFinal` and `OneActive`, which are proved;
`MailArrives`, `DeliveredIsConfirmed` and `GivenUpForAReason`; and `RolledBackViewsAgree` and
`NeverRecombine`, which the code does not keep (sections 5 and 6).

## 4. What is proved

TLAPS checks these for every value of the constants that satisfies the assumption named with
them. `QueueAssumption`, `SendAssumption`, `ActionAssumption`, `DraftAssumption`, `GrantAssumption`,
`NullIsNoWorker` and the like say what the constants are (disjoint names, positive budgets) and are
evaluated by TLC on the instances. No fact is taken without proof. Where a theorem has a further
hypothesis, the hypothesis is the exact case of a defect or of an excluded race, and section 5 says
what happens without it; each run sets its constants so that the hypothesis holds.

A proof module extends the MC module of the run that checks the same property, so the theorem and
the run are about one definition. Parts of a composed run are proved about as instances (`T!`, `X!`,
`D!`, `M!`, `I!`, `N!`, `G!`, `L!`, `R!`, `P!`, `S!`): each part's own `Spec` implies its property.

**JobQueueProofs.** `TypeCorrect`; `QueueSafe` (one active row per key, leases exactly on
running rows, fenced finishes, death exactly at the budget); `FateIsFinal`; `NewestClaimFinishes`;
`QueueImplementsPromise`. The invariant is
`TypeOK /\ LeaseMatchesStatus /\ ClaimIsCurrent /\ RetryBudget /\ OneActivePerKey /\ AbsentIsFresh`.
`RetryBudget` alone is not inductive: `FailJob` decides on the snapshot, so one needs
that a worker whose update still matches the row has the newest attempt
(`ClaimIsCurrent`), and that needs an owner on running rows only (`LeaseMatchesStatus`). The
refinement maps active, terminal and deleted rows to pending, decided and gone jobs; one
lemma (`StepShape`) says what any step may do to the columns, and the action properties and the
refinement follow from it.

**ClientProofs, sends.** `SendTypeCorrect`, `SendInvariant`, `SendsAtMostOnce`, `FailureIsConclusive`,
`SentStaysSent`, `DeliversAtMostOnce`. All but the first assume `~StaleRejection` (5.3). `AtMostOneCopy`
is not inductive: a second copy is prevented long before the send. The invariant says that
an attempt between its claim and the record of its outcome finds the row 'sending' and no
copy at Gmail (`ClaimsUnresolved`), that there is one such attempt at most
(`ClaimIsExclusive`), that whoever is about to record 'sent' has its one copy
(`FinalizeIsTrue`), and how the copies fit the state (`CopiesMatchState`).

**ClientProofs, push notices.** `NoticesAreHeld` and `FreshTokensStayEnabled` need only that the absent token is no
token. A cursor may pass because every device that could be told has its row (`OutboxWritten`);
`queue_new_mail` writes those for the devices it finds reachable at that moment, so `owed` must shrink
with every device that signs out, loses its token or is taken over (`OwedIsOwed`). An answer from the
provider names the token the job loaded under the account's lock (`TokenIsLoaded`), and a refusal is only
ever of a dead one (`AnswersHold`): the comparison with the device's present token does the rest, except
for the row a registration could not see.

**ClientProofs, search.** `SearchesAreComplete`. What is to be announced is everything the first page leads to, along
"next" tokens that may come back to an earlier page. An induction over the length of that path is avoided by
speaking of sets: `JobsCover` says that every set of pages that is closed under "next" and has the first pages of the
jobs still at work becomes, with the announced pages, a set that is closed and has the first page of
the search. When no job is left the empty set is such a set, so what was announced is closed, and a
page on the path that is not in a closed set has no first one (a least counterexample). The rest is
what a walk may rely on: the pages it left behind were announced and lead to one another (`TrailTold`), and it
stays on what its first page leads to (`TrailLeads`), so that the job it queues for the remainder
covers no less than its own did.

**ClientProofs, reader.** `ReadersSeeTheConversation`. As long as a reader's pages came under one revision, they are the conversation
of that revision up to the offset, in order (`WalkHolds`, `UpTo`), because the revision is read with the page
and names every message with its content; a page whose offset has shifted comes with another revision.
For the replica, what the preflight counted is not what is read later:
`RequestHolds` says what survives of it when the answer is whole.

**ClientProofs, list.** `ListsMissNothing`. `NothingLost`: a conversation that was there at the start and was left alone is
shown, or the cursor leaves it ahead (`Below`, in either order), as long as the walk's ranks exist; when
they were deleted between the two transactions of a request, the walk is recorded as `outrun`. `NothingTwice`: what
is shown is ahead no more; in the date order that holds only of what no synchronisation moved. The generation a cursor names
keeps its ranks while it is active or previous, and generations are never numbered anew (`OrdersKept`). That a cursor cuts a page off
cleanly (`PageSplit`, `CursorMeans`) and that reader and list have an order at all
(`AscendingExists`, `AscendingNames`) are lemmas about listing a finite set along a strict total order.

**WritesProofs, additional accounts.** `AccountMailLeavesOnce` (assuming `~Overlap`): whoever is in a cycle owns the
running job (`OneCycle`), so one worker is, and it claimed a mail nobody had sent (`ClaimedUnsent`).
`DraftLeavesOnce`, `EndedStaysGone`: a draft has one name until two first saves fork it. `ActionsEnd`,
`AppliedIsTrue`: as long as an action's row is open, somebody who holds its job or its
request will say how it ended (`SomebodyWillSay`, `GoesOn`), unless one ended without a word.

**WritesProofs, mailbox actions.** `UndoRestores` and `UndoIsLocal` are about the label functions for every
kind of action and every label set: a rollback straight after the action is its
inverse, and it never touches a label outside the action's footprint. `AppliedIsDone`: an action
recorded 'applied' was carried out, because a worker about to record it has had Gmail's
answer (`AnswerSeen`). `FailureLeavesNoTrace` and `ViewsAgree` are the convergence argument. Label lists are
copied around: a request reads one and writes it back three transactions later, a
rollback reads another, the importer a third. `ViewInv` speaks of every copy in anybody's hands:
restricted to the labels of one action it shows them as they were or as the action
leaves them (`Faced`), and as they were wherever the action cannot have been yet
(`Untouched`). `Viewed` then says that a local list that differs from Gmail's is about to be refreshed,
or has an action on its way or failed. `ViewsAgree` assumes `Felt`: what changes the labels
here changes them at Gmail. That is so for eight of the ten kinds whatever the labels, for
`mark_spam` except on spam in TRASH and for `restore_trash` on what is in TRASH. Without it Gmail issues
no new history id and the importer has no reason to look (5.6). `Separate` is part of the two
properties themselves: actions that share a label may truly end differently here and there.

**ClientDraftsProofs.** `DraftTypes` and `LocksAreOrdered`: no group of requests of any size waits in a
circle. The strengthening is `LockOrder`: who waits for the lock of a Gmail draft holds
nothing, who waits for the lock of an identity holds at most that of a Gmail draft.
Every step under the locks is shown to be one of four `Move`s. `OneDraftOnly`, `FinalRowsAreFinal`,
`SentAndDeletedAreFinalAtGmail` and, assuming `~LostUpdates` (5.7), `RowsTellGmail` rest on `BookInv`: a request past
its locks holds them (`LocksHeld`), an identity and a Gmail draft are bound once and for good (`RowsBound`), a
created draft has left its trace in the row (`CreatedOnce`), and at each place a request knows what it
read of row and draft is still so (`Placed`). Others keep that because what a step may touch is
bounded by its locks (`Stays`). A first save runs without the draft's lock until the create answers, so
its handoff is the hard case: `ContentKept` says that the created draft still has the request's content
unless somebody is about to record newer, as long as the row is 'creating'.

**ClientDraftsProofs, accounts.** `AccountsAreHeld`: a count made under the user's row lock still stands at the insert
(`UserHeld`, `CountStands`), and an account that is importing has a job or a request in hand that is past
the point where it may still give up (`OneWorker`, `SetupKnown`, `PastPublishing`).

**SignInProofs.** `CodesHold` for the native sign-in, from who was offered, given and has exchanged
which code. Of the grants: `GroundHolds` and `LoginsStopAtTheFence` hold with every fault the module
knows. `Ground` says which process holds which lock at which stage (`LocksHeld`, `ReaderKeeps`), where
grants come from (`GrantsCome`), and that a login that still may store one has the epochs of its
beginning (`Barrier`). `GrantsHaveAHolder` and `ConnectedGrantLives` assume nothing of the constants either: locks
time out, revocations go round them and processes die. They speak of the behaviours without certain steps, and so
say which steps do harm: `Spec /\ [][~A]_vars => []P`. For the first (`Accounted`: who answers for each live grant) the one
step is `GivesUp`, a callback that could not enter the subject lock a second time either and enqueues its
revocation outside it. For the second the steps are `Strays`: a revocation outside the lock that kills a live
grant, a callback that gave up on a lock it needs for its cleanup, and the death of the process that was about
to disconnect the connected user. `Live` is the invariant: no revocation is pending while a callback past its check
stores (`NonePends`), a killed grant is too old to be stored unless a pending job says so (`KilledIsOld`), and a
connected user with a killed grant, or with a revocation pending, is being cut off by the process in the lock
(`BeingCut`). Section 5.4 tells where the code takes those steps.

**MailSyncProofs.** Of the mirror, assuming `~StaleRestart` (5.8): `CursorPassesNothing`, `ScansSpareRows`,
`PushesPrecedeTheCursor` follow from one invariant that says of each task what it may rely on at its
stage (`DeltaHolds`, `PageHolds`, `ScanHolds`, `PushHolds`): which messages it has seen, which rows
are younger than what it read, what the cursor it will write is worth. Other workers
and Gmail move between any two of its steps, so the proof is by rely and guarantee:
first what every step of anybody grants the tasks it does not run (`Grows`, `ScanGoesOn`), then that a
task keeps its part under any such step (`Unmoved`), then each action for its own task.

**MailSyncProofs, import.** `SetupTellsTheTruth` and `WindowsStand` need no such hypothesis. That entries, counter and row agree is
inductive by itself; that a complete history has all of Gmail's conversations needs what each task in
hand knows of the row it read (`TasksKnown`, `RowKnown`, `ListedIsStored`). A window is listed once because
bootstraps come first (`BootstrapsFirst`): a listing ends only when no bootstrap fills the window. A complete
window does not last: every completed sign-in and account setup enqueues a first run (`api/routes/auth_google.py:698`,
`gmail_accounts.py:291`) that nothing checks, and `start_gmail_sync_progress` sets window and history back.
`WindowsStand` says that nothing else does, and that it takes another generation: no successor, retry,
reconciliation, activation or poll, unless a reconciliation was over before a bootstrap (`overtaken`, section 6).

**BodyHydrationProofs.** `EntriesAlwaysSettle` and `BodiesStick` assume a finite window, and let the transactions of
jobs, reads and imports overlap as they like. A transaction decides at its statements, not at its
commit: which bodies will lack, hence which entries it resolves. Meanwhile others commit. What keeps them apart
are the rows they wrote, which are locked until they end, so that two open ones never own a row in common (`Apart`); and
of a conversation in which it alone wrote rows, what lacks a body does not shrink under a transaction, so that its
marks are still right when it commits (`Sees`). What two of them wrote rows of is `crossed`, and there the statement
fails: each sees the other's body as still to come, neither resolves the entry (5.2). `Gone` adds that what
a job or the importer is about to delete is no longer at Gmail, and `TaskFine` what a job's open transaction may
still do, from which `BodiesStick` follows.

**MattersProofs.** `MessagesAreKept` and `TheUserIsRight` come from one invariant, `MattersInv`. Three model calls
pass between a worker's choice of a matter and the assignment, so its heart is what a
choice is still worth when it is carried out: one that an event overtook, because the matter
was merged away, hidden, or has become the home of a message it was separated from, is `excused`
(`OvertakenExcused`). All other steps leave choices as good as they were (`QuietMatters`), and where a message
lands follows (`Landing`). `UnderstoodIsPlaced` carries the rest: a message that is recorded as understood
before it is assigned is in no matter only as long as its worker lives. `FinishedToDosLeave` and `TicksStand` are about
the to-dos and rest on `TodosInv`. An extraction reads a matter twice and writes without a check, so it
says when a read is still true (`ReadsTrue`), that of the jobs of a matter only one has not lost its lease
(`OneExtraction`), and that an extraction about to write an older state is not the last one
(`OldReadsKnown`, `LeftOversKnown`).

**MattersProofs, generations.** `OneGenerationIsActive` is inductive as it stands, `GenerationsNeverReturn` follows from what each
action may do to a status (`StatusMoves`) together with what a finalisation read of it before (`ReadsKnown`).
`MessagesAreOrganised` accounts for every message of a live generation that is not organised (`AllAccounted`): it
is excused, has a job, is about to be asked for by a request, or lies ahead of the offset of the one
bootstrap job of its scope (`OneBootEach`, `BootsOnce`). The bootstrap lists with an offset what is not
organised yet, so a message organised elsewhere moves all later ones towards the front; `PlacesFill` counts that
without such a move the page at an offset begins where the page before it ended. The proof is how the race was
found (section 6).

**Only model-checked.** All liveness (`EveryJobSettles`, `RevocationEnds`, `BodiesArrive`, `SetupFinishes`,
`MailIsShown`, `RebuildEnds`): fairness is beyond the prover. Every safety invariant and action property
that a passing run checks is also a theorem, under the hypotheses told above.

## 5. Findings

1. **Consent withdrawn during a rebuild is given back** (run `generations_consent`,
   `db/ai_inbox.py:402`). `promote_generation` sets `enabled = TRUE` whatever the profile says by
   then; `db/ai_inbox.py:244` says "AI processing consent is required before enabling AI Inbox".
2. **A history is called complete over a missing body** (run `bodies_complete`, `db/mail_groups.py:2552`). The recount's
   `NOT EXISTS` sees the snapshot of its statement, and a transaction that stores a message without its body, and
   takes the flag back, commits before it: the flag ends TRUE, and `ensure_background_import_work` queues no more
   body work. The lock both hold is shared (`db/user_mail_guard.py:97-110`).
   `tests/test_existing_account_progressive_upgrade.py:63` and 156 ask for FALSE while a body is to come. In the same
   way two transactions that write bodies of one conversation at once each leave its entry to the other
   (`EntriesSettle` without `crossed`; the docstring at `db/mail_groups.py:1269` counts on the body job of such an entry).

The others are shown by setting the named constant and running the same cfg:

3. *A refused search turns a sent mail into a retryable one* (`StaleRejection = TRUE`,
   `services/mailbox_sends.py:319`). The comment at 468-470 rules out a second
   send on an empty search, and 508-510 forbids turning a sent mail back; a 401, 403 or
   definite 4xx of the search made for a *failed* record is nevertheless recorded by an
   unconditional update, over a concurrent retry's 'sending' or 'sent'.
4. *A dead grant behind a connected user.* `LockTimeouts = TRUE` violates `StoredGrantIsLive`: the fallback of a
   callback that never got the subject lock knows no user, so it revokes without
   disconnecting (`api/routes/auth_google.py:813`; the comment at 112 says otherwise).
   `UnlockedRevocations = TRUE` does too: an unverifiable identity or a blocked refresh revokes outside
   the lock. A request that dies between the revocation and its local marks leaves the
   same until Gmail refuses the token (`auth_google.py:288`). `ConnectedGrantLives` shows that with all these faults
   there is no other way. After a lock timeout a live grant may be forgotten too: the job the fallback enqueues
   outside the lock is completed by a request that asked Google before the grant was issued.
5. *Sends of additional accounts.* A delivery that failed before it reached Gmail is searched for, never
   sent, by all later attempts (`services/account_mailbox_writes.py:292`), although the user is told to
   try again. `Overlap = TRUE`: two workers that both read 'queued' send twice (:318).
6. *A rollback over the truth* (`services/mailbox_actions.py:232`). After lost answers the labels from
   before the action replace Gmail's, and the importer, whose history id is equal, keeps
   them: `RolledBackViewsAgree` fails. Likewise an action that Gmail does not feel (not `Felt`), such as restoring a
   message that is in no trash: the optimistic `INBOX` stays.
7. *A stale hash* (`LostUpdates = TRUE` violates `RowTellsGmail`). An update of a saved draft that loses its
   answer, or dies before its record, leaves the old hash over the new content, and a
   later save of the old content is answered without calling Gmail, whereas
   `services/mailbox_drafts.py:580-584` reasons that a completed save's hash is known to match.
8. *A restart under the same name* (`StaleRestart = TRUE` violates `RowsOutliveScans`). A reconciliation
   restarted with the generation of an earlier one lets a slow worker of that one go on
   (`services/gmail_importer.py:993`, `db/mail_groups.py:1760`), and the sweep removes rows only it had seen.

## 6. Races the properties except

A history variable records the race; the property holds of everything else.

* `overtaken` (`ProgressiveImport`): a reconciliation of a small mailbox reaches its last page before
  the bootstrap is done, and finishes over its window (`services/mail_groups.py:421-425`,
  `db/mail_groups.py:1330`).
* `Stranded` (`ProgressiveImport`): the first run of a later sign-in takes over a scan
  (`services/gmail_importer.py:973-1000`) and is given up before the progress follows it: nothing queues a bootstrap
  for that generation, nor any page, and the window stays as it was. The first run may also adopt a scan that was listed
  already, which is `overtaken`.
* `crossed` (`BodyHydration`): two open transactions wrote rows of one conversation; neither counts the
  other's body as come, so neither resolves the conversation's entry (5.2).
* `outrun` (`MailboxPages`): two order generations are published between the two transactions of one
  page request (`db/mail_groups.py:4230`): the page comes back empty and without a cursor.
* `exposed` (`PushDelivery`): a notice is created while the transaction of a registration is open, so the
  comparison of times takes the new token for the old (`db/push_notifications.py:122-127`).
* `givenUp` (`RemoteSearch`): a job of the search was given up, because Gmail failed it, its pages
  went round or were too many (`GivenUpForAReason`).
* `excused` (`Matters`): a worker dies between `complete_message_semantics` and `apply_matter_assignment`
  (`services/ai_inbox.py:869-883`): the message is organised and in no matter. A requeue is absorbed by
  dedupe, or its request dies (`api/routes/ai_inbox.py:518-527`). A matter is hidden, merged or separated
  after a worker chose it (`expected_revision` does not notice): the message follows into the hidden
  matter, or rejoins what was separated, so `NeverRecombine` fails (`db/ai_inbox.py:2728`, 2766). Trashing
  a matter hides members that came to it since (`services/ai_inbox_actions.py:60-68`).
* `excused` (`Generations`): a request dies between the profile and the bootstrap job; a message is organised
  while a page of a bootstrap that has it in scope lies ahead of an offset, by another worker or between two
  pages: the pages are `LIMIT`/`OFFSET` over what is still to be organised, so every later message moves up and
  one is passed over (`db/ai_inbox.py:2540`; the priority that `services/ai_inbox.py:392-394` gives the
  pages against this orders the jobs of one worker only); mail arrives, or its job runs, while the inbox is off.
* `excused` (`LinkedAccounts`): a stale job marks a relinked account (`workers/main.py:289-303`); an enqueue
  is absorbed by a job that is ending, given up or dies, and leaves 'importing' with no job.
* `missed` (`Todos`): the wish for an extraction is lost, on a running job that has read the matter already,
  with an organiser that dies first, or in `merge_reconciled_matters` (`db/ai_inbox.py:1794-1897`). The next
  listing repairs that, unless the matter needs the user no more, or an item the user touched makes its
  projection look current: a late extraction overwrites the other items, the touched one keeps the
  present revision (`db/ai_todos.py:200`), and one such item is enough for `pending_todo_matter_ids` (:52-59).
* `forked` (`AccountDrafts`): two first saves, or one with a lost answer, make two drafts
  (`services/account_mailbox_writes.py:537-543`); an overlapping save may write 'saved' over 'sent'.
* `abandoned` (`AccountActions`): the last attempt, or a request, ended without a word.
* `void` (`NativeSignIn`): the failure of a repeated callback overwrites a 'ready' hand-off; a second
  success replaces the code; an exchange cut off after consuming the code loses it.

Behaviour that no property excludes and no document forbids: the delayed safety-net job of a
mail is absorbed by its own row while that runs (`services/mailbox_sends.py:474`); a stale callback's
cleanup severs a newer stored grant; a reader's rebuild may store a row again that a delta
deleted (`services/mail_groups.py:3221`); a revision is the start of the newest transaction, read after
the page (:1545), and a refresh asked for while a forced one is under way is dropped (`InboxStore.swift:2115-2124`), so that
only the unconditional refresh of the poller repairs what the comment at
`api/routes/mailbox.py:526-528` takes for granted.

## 7. Hazards without a property

`PROJECT.json` lists the hazards the properties answer for, and the gravest that none answers for.
These are the others met so far, at the line where they bite:

* `api/routes/auth_google.py:288`: a disconnect dies between the revocation and its local marks: the
  user looks connected with a dead token until Gmail refuses it.
* `db/jobs.py:105`: an enqueue absorbed by a running duplicate starts no further run: what
  changed after that run read its inputs waits for another trigger.
* `db/mail_groups.py:5121`: `update_manual_task` writes back what it read a transaction earlier.
* `services/mailbox_actions.py:193`: an older action that is retried reaches Gmail after a newer
  one on the same label and wins.
* `services/mailbox_actions.py:98`: a crash between the upsert and `enqueue_job` leaves the row
  'queued' with no job; the client's retry finds the row and enqueues nothing.
* `services/mailbox_actions.py:409`: the rollback restores every label of its action, so an archive
  rolled back after a later trash puts `INBOX` on a trashed conversation.
* `services/mailbox_drafts.py:164`: a create that never reached Gmail leaves 'creating' behind,
  and every retry is told to retry shortly.
* `services/mailbox_drafts.py:580`: another client opens the draft between a lost create and its
  retry: its row 'gmail:<id>' takes the Gmail id, and every later save of the composing
  client breaks the UNIQUE constraint.
* `services/mailbox_drafts.py:657`: a delete dies after Gmail's deletion and before the row's: a
  later send of the row finds no draft and stays 'sending'.
* `services/mailbox_drafts.py:793`: a draft opened by its Gmail id is sent unchanged, so it carries
  another identity's Message-ID: if the answer is lost, the reconciliation searches for one
  that no message has.
* `services/mailbox_sends.py:474`: the safety-net enqueue meets its own job while it runs and is
  absorbed by it: if that job then completes, a request that claims the row and loses
  Gmail's answer leaves 'sending' with no job to reconcile it.
* `workers/main.py:203`: an authorization failure cancels the job without a rollback: after
  reconnecting, the optimistic labels stay although Gmail never changed.
* `workers/main.py:220`: a crash between `fail_job` and the rollback leaves the optimistic labels for
  good: the job is dead and Gmail's history does not move.
* `workers/main.py:318`: the user is marked disconnected first, and the guarded write of the import
  error that follows refuses disconnected users: the event that tells the clients to sign
  in again is never inserted.

## 8. Not modelled

What each unmodelled component is, and why, stands in `PROJECT.json`. In short: content
processing, classification, encryption, schemas and the web proxy have no control to explore;
rate limits are one upsert; the push watch and attachment descriptors have one writer each; mail
groups are unreachable (`_ai_grouping_enabled` returns False) and manual tasks are single rows; the Apple
clients' offline store and sync coordinator would be a project of their own.

Inside the modelled components these are left out: the dispatch of the worker and its retry
delay classes, which only lengthen a backoff; message construction; conversations of several Gmail threads and
`delete_forever`; database errors in the middle of grant transactions; the best-effort
projection after a draft's durable step; snoozing of to-dos; what a language model is
asked and how its answer is validated beyond what the answer may decide; locks and separations made while another
generation of matters is being built.

## 9. Plan

1. `ApplePending`: the Apple client's offline store and sync coordinator.
2. A fair specification of `ClientDrafts` for its stuck cases.
