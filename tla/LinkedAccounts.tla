---------------------------- MODULE LinkedAccounts ----------------------------
(***************************************************************************)
(* The Gmail accounts of the users: linked by a callback of Google, set up *)
(* on request, imported by a job, paused when their grant is refused.      *)
(* src/backend/app/db/repository.py, api/routes/gmail_accounts.py and      *)
(* auth_google.py, workers/main.py.                                        *)
(*                                                                         *)
(* An account is named after its Google subject.  A callback works under   *)
(* the subject's lock and stores under the row lock of the user; the user  *)
(* row is locked before the accounts are counted.  The first import and    *)
(* its successors are one job (ProgressiveImport).                         *)
(***************************************************************************)
EXTENDS Naturals, FiniteSets

CONSTANTS
    Users, NoUser,
    Subjects, NoSubject,  \* Google subjects that may be linked
    Links,                \* callbacks that link or sign in with an account
    Setups,               \* requests to set an account up
    Workers,
    MaxAccounts,          \* accounts of a user, besides the primary one
    MaxFaults             \* bound on refused grants, failures and deaths

VARIABLES
    owner,     \* owner[g]: gmail_accounts.user_id, or none without a row
    state,     \* state[g]: gmail_accounts.state
    grant,     \* grant[g]: the stored credential: "none", "good" or "bad"
    imported,  \* accounts whose window and cursor are durable
    job,       \* job[g]: the import job of the account
    link,      \* link[c]: what callback c does
    userLock,  \* userLock[u]: the callback that holds the row of u
    setup,     \* setup[s]: what request s does
    worker,    \* worker[w]: what worker w does
    excused,   \* accounts a race or a fault left importing without a job
    faults

vars == <<owner, state, grant, imported, job, link, userLock, setup, worker, excused, faults>>

NoLink  == [pc |-> "idle", g |-> NoSubject, u |-> NoUser, count |-> 0]
NoSetup == [pc |-> "idle", g |-> NoSubject]
NoWork  == [pc |-> "idle", g |-> NoSubject]
States  == {"none", "connecting", "importing", "ready", "reauth_required"}

TypeOK ==
    /\ owner \in [Subjects -> Users \cup {NoUser}]
    /\ state \in [Subjects -> States]
    /\ grant \in [Subjects -> {"none", "good", "bad"}]
    /\ imported \subseteq Subjects /\ excused \subseteq Subjects
    /\ job \in [Subjects -> {"none", "queued", "running"}]
    /\ link \in [Links -> [pc : {"idle", "look", "lock", "count", "store", "done"},
                           g : Subjects \cup {NoSubject}, u : Users \cup {NoUser}, count : Nat]]
    /\ userLock \in [Users -> Links \cup {NoUser}]
    /\ setup \in [Setups -> [pc : {"idle", "verify", "mark", "enqueue", "done"}, g : Subjects \cup {NoSubject}]]
    /\ worker \in [Workers -> [pc : {"idle", "run", "publish", "complete", "reauth", "cancel"},
                               g : Subjects \cup {NoSubject}]]
    /\ faults \in Nat

Init ==
    /\ owner = [g \in Subjects |-> NoUser]
    /\ state = [g \in Subjects |-> "none"]
    /\ grant = [g \in Subjects |-> "none"]
    /\ imported = {} /\ excused = {}
    /\ job = [g \in Subjects |-> "none"]
    /\ link = [c \in Links |-> NoLink]
    /\ userLock = [u \in Users |-> NoUser]
    /\ setup = [s \in Setups |-> NoSetup]
    /\ worker = [w \in Workers |-> NoWork]
    /\ faults = 0

-----------------------------------------------------------------------------
Fault == faults < MaxFaults /\ faults' = faults + 1

accounts == <<owner, state, grant, imported>>
Owned(u) == {g \in Subjects : owner[g] = u}

(* ---- linking ------------------------------------------------------------------ *)

(* GET /auth/google/callback enters under the subject's lock.  The request that *)
(* began it, gmail-accounts/link, counted the accounts there were then; so any *)
(* number of callbacks may be under way.                                     *)
SubjectFree(g) == \A c \in Links : link[c].g = g => link[c].pc \in {"idle", "done"}
BeginLink(c, u, g) ==
    /\ link[c].pc = "idle" /\ SubjectFree(g)
    /\ link' = [link EXCEPT ![c] = [pc |-> "look", g |-> g, u |-> u, count |-> 0]]
    /\ UNCHANGED <<accounts, job, userLock, setup, worker, excused, faults>>

(* An account that is another user's stays so: its grant is refreshed in place *)
(* for that user and the link fails.                                         *)
LookForOwner(c) ==
    /\ link[c].pc = "look"
    /\ link' = [link EXCEPT ![c].pc = "lock",
                            ![c].u = IF owner[link[c].g] = NoUser THEN @ ELSE owner[link[c].g]]
    /\ UNCHANGED <<accounts, job, userLock, setup, worker, excused, faults>>

Unlocked(u) == TRUE
(* SELECT ... FROM users ... FOR UPDATE.                                      *)
Free(u) == userLock[u] = NoUser
LockUser(c) ==
    LET u == link[c].u IN
    /\ link[c].pc = "lock" /\ Free(u)
    /\ userLock' = [userLock EXCEPT ![u] = c]
    /\ link' = [link EXCEPT ![c].pc = "count"]
    /\ UNCHANGED <<accounts, job, setup, worker, excused, faults>>

Left(u, c) == [userLock EXCEPT ![u] = IF @ = c THEN NoUser ELSE @]

(* The count of a new account; an account of the user's own is not counted.    *)
CountAccounts(c) ==
    LET u == link[c].u IN
    /\ link[c].pc = "count"
    /\ IF owner[link[c].g] = NoUser /\ Cardinality(Owned(u)) >= MaxAccounts
         THEN /\ link' = [link EXCEPT ![c].pc = "done"]
              /\ userLock' = Left(u, c)
         ELSE /\ link' = [link EXCEPT ![c].pc = "store"]
              /\ UNCHANGED userLock
    /\ UNCHANGED <<accounts, job, setup, worker, excused, faults>>

(* link_gmail_account: a new row, or the same one reconnected; ready and        *)
(* importing accounts go on.                                                *)
Relinked(s) == IF s \in {"ready", "importing"} THEN s ELSE "connecting"
StoreLink(c) ==
    LET g == link[c].g
        u == link[c].u
    IN /\ link[c].pc = "store"
       /\ owner' = [owner EXCEPT ![g] = u]
       /\ state' = [state EXCEPT ![g] = Relinked(@)]
       /\ grant' = [grant EXCEPT ![g] = "good"]
       /\ userLock' = Left(u, c)
       /\ link' = [link EXCEPT ![c].pc = "done"]
       /\ UNCHANGED <<imported, job, setup, worker, excused, faults>>

DieLinking(c) ==
    /\ link[c].pc \notin {"idle", "done"} /\ Fault
    /\ userLock' = IF link[c].pc \in {"count", "store"} THEN Left(link[c].u, c) ELSE userLock
    /\ link' = [link EXCEPT ![c].pc = "done"]
    /\ UNCHANGED <<accounts, job, setup, worker, excused>>

(* ---- setting up ---------------------------------------------------------------- *)

BeginSetup(s, g) ==
    /\ setup[s].pc = "idle" /\ owner[g] # NoUser
    /\ setup' = [setup EXCEPT ![s] = [pc |-> "verify", g |-> g]]
    /\ UNCHANGED <<accounts, job, link, userLock, worker, excused, faults>>

(* verify_account_mailbox_access: a call to Gmail with the account's credential.*)
Verify(s) ==
    /\ setup[s].pc = "verify"
    /\ setup' = [setup EXCEPT ![s].pc = IF grant[setup[s].g] = "good" THEN "mark" ELSE "done"]
    /\ UNCHANGED <<accounts, job, link, userLock, worker, excused, faults>>

(* mark_gmail_account_importing, also of an account that is ready.              *)
MarkImporting(s) ==
    LET g == setup[s].g IN
    /\ setup[s].pc = "mark"
    /\ IF state[g] \in {"connecting", "importing", "ready"}
         THEN /\ state' = [state EXCEPT ![g] = "importing"]
              /\ setup' = [setup EXCEPT ![s].pc = "enqueue"]
         ELSE /\ setup' = [setup EXCEPT ![s].pc = "done"]
              /\ UNCHANGED state
    /\ UNCHANGED <<owner, grant, imported, job, link, userLock, worker, excused, faults>>

(* A job that will publish no more still absorbs a new one.                     *)
Ending(g) == job[g] = "running" /\ \A w \in Workers : worker[w].g = g => worker[w].pc \in {"complete", "cancel"}

(* enqueue_first_run.                                                        *)
EnqueueFirstRun(s) ==
    LET g == setup[s].g IN
    /\ setup[s].pc = "enqueue"
    /\ job' = [job EXCEPT ![g] = IF @ = "none" THEN "queued" ELSE @]
    /\ excused' = IF Ending(g) THEN excused \cup {g} ELSE excused \ {g}
    /\ setup' = [setup EXCEPT ![s].pc = "done"]
    /\ UNCHANGED <<accounts, link, userLock, worker, faults>>

DieSettingUp(s) ==
    /\ setup[s].pc = "enqueue" /\ Fault
    /\ excused' = excused \cup {setup[s].g}
    /\ setup' = [setup EXCEPT ![s].pc = "done"]
    /\ UNCHANGED <<accounts, job, link, userLock, worker>>

(* ---- the job --------------------------------------------------------------------- *)

Claim(w, g) ==
    /\ worker[w].pc = "idle" /\ job[g] = "queued"
    /\ job' = [job EXCEPT ![g] = "running"]
    /\ worker' = [worker EXCEPT ![w] = [pc |-> "run", g |-> g]]
    /\ UNCHANGED <<accounts, link, userLock, setup, excused, faults>>

(* The import reads the account's credential and brings the mail in; it ends    *)
(* with a successor until window and cursor are there.                        *)
Run(w) ==
    LET g == worker[w].g IN
    /\ worker[w].pc = "run"
    /\ IF grant[g] = "good"
         THEN /\ imported' \in {imported, imported \cup {g}}
              /\ worker' = [worker EXCEPT ![w].pc = "publish"]
         ELSE /\ worker' = [worker EXCEPT ![w].pc = "reauth"]
              /\ UNCHANGED imported
    /\ UNCHANGED <<owner, state, grant, job, link, userLock, setup, excused, faults>>

NeverReady(g) == state
(* mark_gmail_account_ready_if_imported.                                      *)
ReadyIfImported(g) ==
    IF g \in imported /\ state[g] \in {"importing", "ready"} THEN [state EXCEPT ![g] = "ready"] ELSE state
Publish(w) ==
    /\ worker[w].pc = "publish"
    /\ state' = ReadyIfImported(worker[w].g)
    /\ worker' = [worker EXCEPT ![w].pc = "complete"]
    /\ UNCHANGED <<owner, grant, imported, job, link, userLock, setup, excused, faults>>

Complete(w) ==
    LET g == worker[w].g IN
    /\ worker[w].pc = "complete"
    /\ job' = [job EXCEPT ![g] = IF g \in imported THEN "none" ELSE "queued"]
    /\ worker' = [worker EXCEPT ![w] = NoWork]
    /\ UNCHANGED <<accounts, link, userLock, setup, excused, faults>>

(* _mark_gmail_reauthorization_required: whatever was linked meanwhile.         *)
PauseAccount(w) ==
    /\ worker[w].pc = "reauth"
    /\ state' = [state EXCEPT ![worker[w].g] = "reauth_required"]
    /\ worker' = [worker EXCEPT ![w].pc = "cancel"]
    /\ UNCHANGED <<owner, grant, imported, job, link, userLock, setup, excused, faults>>

Cancel(w) ==
    /\ worker[w].pc = "cancel"
    /\ job' = [job EXCEPT ![worker[w].g] = "none"]
    /\ worker' = [worker EXCEPT ![w] = NoWork]
    /\ UNCHANGED <<accounts, link, userLock, setup, excused, faults>>

(* The job fails or its worker dies: it is tried again, or was the last try.    *)
Fail(w) ==
    LET g == worker[w].g IN
    /\ worker[w].pc # "idle" /\ Fault
    /\ \/ job' = [job EXCEPT ![g] = "queued"] /\ UNCHANGED excused
       \/ job' = [job EXCEPT ![g] = "none"] /\ excused' = excused \cup {g}
    /\ worker' = [worker EXCEPT ![w] = NoWork]
    /\ UNCHANGED <<accounts, link, userLock, setup>>

(* Google stops honouring a credential.                                       *)
GrantDies(g) ==
    /\ grant[g] = "good" /\ Fault
    /\ grant' = [grant EXCEPT ![g] = "bad"]
    /\ UNCHANGED <<owner, state, imported, job, link, userLock, setup, worker, excused>>

-----------------------------------------------------------------------------
Linking(c) == (\E u \in Users, g \in Subjects : BeginLink(c, u, g))
              \/ LookForOwner(c) \/ LockUser(c) \/ CountAccounts(c) \/ StoreLink(c) \/ DieLinking(c)
SettingUp(s) == (\E g \in Subjects : BeginSetup(s, g))
                \/ Verify(s) \/ MarkImporting(s) \/ EnqueueFirstRun(s) \/ DieSettingUp(s)
Importing(w) == (\E g \in Subjects : Claim(w, g))
                \/ Run(w) \/ Publish(w) \/ Complete(w) \/ PauseAccount(w) \/ Cancel(w) \/ Fail(w)

Next ==
    \/ \E c \in Links : Linking(c)
    \/ \E s \in Setups : SettingUp(s)
    \/ \E w \in Workers : Importing(w)
    \/ \E g \in Subjects : GrantDies(g)

Spec == Init /\ [][Next]_vars

-----------------------------------------------------------------------------
(* No user has more accounts than the limit, however many callbacks link at    *)
(* once.                                                                    *)
AccountLimit == \A u \in Users : Cardinality(Owned(u)) <= MaxAccounts

(* An account that is importing is going to be published: its job is there, or  *)
(* the request that brings it; unless that request or the last try died, or   *)
(* the job that absorbed it was past the point where it publishes.            *)
ImportGoesOn ==
    \A g \in Subjects \ excused :
        state[g] = "importing" => \/ job[g] # "none"
                                  \/ \E s \in Setups : setup[s].pc = "enqueue" /\ setup[s].g = g

(* Both.                                                                     *)
AccountsHold == AccountLimit /\ ImportGoesOn
=============================================================================
