---------------------------- MODULE MailSyncProofs ----------------------------
(***************************************************************************)
(* Theorems about the mirror of a mailbox (MailSync, the part M of          *)
(* MC_MailSync), for every number of workers, messages, pages, scans,       *)
(* history ids and faults: nothing the cursor passed is lost, no row of a   *)
(* message Gmail still has is taken, and pushes precede the cursor, as      *)
(* long as no scan restarts under a name a worker still holds.  And about   *)
(* the setting up of one (ProgressiveImport, the part I), at the end: what  *)
(* the state row says of the window and of the history is so, and a window  *)
(* is listed once and never completed twice.                                *)
(*                                                                          *)
(* The invariant of the mirror says of each task what it may rely on at its *)
(* stage.  The other workers and Gmail may step in between, so the proof    *)
(* first shows what every step grants the tasks it does not run (Grows,     *)
(* ScanGoesOn), and that a task keeps its part under any such step          *)
(* (Unmoved).  Each action then only accounts for its own task and the rows *)
(* it writes.                                                               *)
(***************************************************************************)
EXTENDS MC_MailSync, FiniteSetTheorems, TLAPS

-----------------------------------------------------------------------------
(* The inductive invariant.                                                 *)

(* What is known of Gmail: a message that is there was born, changes later  *)
(* than it is born, and one that died was born.                             *)
GmailHolds ==
    \A m \in Message :
        /\ gmail[m].died # 0 => gmail[m].born # 0
        /\ M!Present(m) => gmail[m].born <= gmail[m].ver /\ gmail[m].ver <= now

(* No version is older than its message.                                    *)
Genuine(g) == \A m \in Message : g[m] # 0 => gmail[m].born # 0 /\ gmail[m].born <= g[m]

(* What a task at work carries: a kind of job, history ids Gmail has given, *)
(* deletions that happened and payloads that were fetched.                  *)
Sound(t) ==
    /\ t.pc # "idle" => t.job \in M!Kinds
    /\ t.base <= now /\ t.from <= now /\ t.upto <= now
    /\ \A m \in t.gone : gmail[m].died # 0
    /\ Genuine(t.got)

Mirrored(m) == gmail[m].ver <= mirror[m]

(* A traversal of Gmail's history: up to the id it set out from, and in the *)
(* end up to the one it reached, the mirror holds every change but those the *)
(* task still has to bring.                                                 *)
DeltaHolds(t) ==
    /\ t.pc = "list" => M!Covered(t.from)
    /\ t.pc \in {"remove", "hydrate"} =>
         \A m \in M!There : gmail[m].ver <= t.upto => m \in t.changed \/ Mirrored(m)
    /\ t.pc = "store" =>
         \A m \in M!There : gmail[m].ver <= t.upto => gmail[m].ver <= t.got[m] \/ Mirrored(m)
    /\ t.pc \in {"push", "publish", "see", "finish"} => M!Covered(t.upto)

(* A page of the listing: what was there at the baseline and stands on it is *)
(* in the task's hands, and then in the mirror.                             *)
PageHolds(t) ==
    t.pc \in {"page", "rows", "check"} =>
        /\ t.gen # M!NoScan /\ t.page # M!Done
        /\ t.gen = state.gen => t.base = state.base
        /\ t.pc # "page" => \A m \in M!There :
             gmail[m].born <= t.base /\ PageOf[m] = t.page =>
               t.got[m] # 0 /\ (gmail[m].ver <= t.base => gmail[m].ver <= t.got[m])
        /\ t.pc = "check" /\ t.gen # M!Bootstrap => \A m \in M!There :
             gmail[m].ver <= t.base /\ PageOf[m] = t.page => Mirrored(m)

(* The traversal that ends a scan: every message there that is no newer than *)
(* its end is in the scan's seen set, or on its way there.                  *)
ScanHolds(t) ==
    t.gen # M!NoScan /\ t.gen = state.gen =>
        /\ t.pc = "list" => t.from = state.base /\ state.page = M!Done
        /\ t.pc \in {"remove", "hydrate"} =>
             \A m \in M!There : gmail[m].born <= t.upto => m \in seen \/ m \in t.changed
        /\ t.pc \in {"store", "see"} =>
             \A m \in M!There : gmail[m].born <= t.upto => m \in seen \/ t.got[m] # 0
        /\ t.pc = "finish" => \A m \in M!There : gmail[m].born <= t.upto => m \in seen

(* Only a delta and a scan traverse history; the pushes of the messages it  *)
(* passes are in the outbox, or the task still has to queue them.           *)
PushHolds(t) ==
    /\ t.pc \in {"list", "remove", "hydrate", "store"} =>
         t.job = "delta" \/ (t.job = "reconcile" /\ t.gen # M!NoScan)
    /\ t.pc \in {"see", "finish"} => t.gen # M!NoScan
    /\ t.job = "delta" /\ t.pc = "list" => \A m \in M!There :
         caughtUp < gmail[m].born /\ gmail[m].born <= t.from => m \in outbox
    /\ t.job = "delta" /\ t.pc \in {"remove", "hydrate"} =>
         /\ t.added \subseteq t.changed
         /\ \A m \in M!There : caughtUp < gmail[m].born /\ gmail[m].born <= t.upto =>
                             m \in outbox \/ m \in t.added
    /\ (t.job = "delta" /\ t.pc = "store") \/ t.pc = "push" =>
         /\ \A m \in t.added : t.got[m] # 0
         /\ \A m \in M!There : caughtUp < gmail[m].born /\ gmail[m].born <= t.upto =>
                             m \in outbox \/ m \in t.added
    /\ t.pc = "publish" => \A m \in M!There :
         caughtUp < gmail[m].born /\ gmail[m].born <= t.upto => m \in outbox

(* The pages listed so far, for the scan in progress.                       *)
Listed(m) == state.page = M!Done \/ PageOf[m] < state.page

PagesHold ==
    state.gen # M!NoScan => \A m \in M!There : Listed(m) =>
        /\ gmail[m].born <= state.base => m \in seen
        /\ gmail[m].ver <= state.base => Mirrored(m)

(* The row's cursors are ids Gmail has given, and the mirror holds only     *)
(* versions Gmail had.                                                      *)
RowHolds == state.last <= now /\ state.base <= now /\ Genuine(mirror)

TaskHolds(t) == Sound(t) /\ DeltaHolds(t) /\ PageHolds(t) /\ ScanHolds(t) /\ PushHolds(t)

IInv ==
    /\ M!TypeOK /\ GmailHolds /\ RowHolds /\ PagesHold /\ M!NothingLost /\ M!PushedBeforePassed
    /\ \A w \in MailWorkers : TaskHolds(task[w])

-----------------------------------------------------------------------------
(* Types.                                                                   *)

LEMMA ConstantsTyped ==
    /\ MaxHistory \in Nat \ {0} /\ MaxScans \in Nat /\ SyncFaults \in Nat /\ Pages \in Nat \ {0}
    /\ 0 \in M!History /\ 1 \in M!History /\ M!NoScan \in M!Scans /\ M!Bootstrap \in M!Scans
    /\ M!Done \in 0..Pages /\ 1 \in 0..Pages
    /\ PageOf \in [Message -> 1..Pages]
  BY MailAssumption DEF M!SyncAssumption, M!History, M!Scans, M!NoScan, M!Bootstrap, M!Done

LEMMA NewerTyped == \A a, b \in M!History : M!Newer(a, b) \in M!History /\ a <= M!Newer(a, b) /\ b <= M!Newer(a, b)
                                          /\ (M!Newer(a, b) = a \/ M!Newer(a, b) = b)
  BY ConstantsTyped DEF M!Newer, M!History

LEMMA IdleTyped == M!Idle \in M!Tasks
  BY ConstantsTyped DEF M!Idle, M!Tasks, M!Kinds, M!Nothing, M!NoScan, M!Done

LEMMA PayloadsTyped ==
  ASSUME M!TypeOK, NEW ms
  PROVE  M!Payloads(ms) \in [Message -> M!History]
  BY ConstantsTyped DEF M!TypeOK, M!Payloads, M!Mails

LEMMA UpsertedTyped ==
  ASSUME M!TypeOK, NEW g \in [Message -> M!History]
  PROVE  /\ M!Upserted(g) \in [Message -> M!History]
         /\ \A m \in Message : M!Upserted(g)[m] = M!Newer(mirror[m], g[m])
         /\ \A m \in Message : mirror[m] <= M!Upserted(g)[m] /\ g[m] <= M!Upserted(g)[m]
         /\ \A m \in Message : M!Upserted(g)[m] = mirror[m] \/ M!Upserted(g)[m] = g[m]
  BY NewerTyped DEF M!TypeOK, M!Upserted

LEMMA ResumeTyped ==
  ASSUME NEW g \in M!Scans, NEW h \in M!History, NEW page \in 0..Pages
  PROVE  M!Resume(g, h, page) \in M!Tasks
<1>1. CASE page = M!Done
  BY <1>1, ConstantsTyped, IdleTyped DEF M!Resume, M!Idle, M!Tasks, M!Kinds, M!Nothing, M!NoScan, M!Done
<1>2. CASE page # M!Done
  BY <1>2, ConstantsTyped, IdleTyped DEF M!Resume, M!Idle, M!Tasks, M!Kinds, M!Nothing, M!NoScan, M!Done
<1> QED BY <1>1, <1>2

LEMMA FollowingTyped == \A page \in 0..Pages : M!Following(page) \in 0..Pages
  BY ConstantsTyped DEF M!Following, M!Done

(* A worker's step changes its own task only.                               *)
Steps(w, t) == task' = [task EXCEPT ![w] = t]

LEMMA StepTyped ==
  ASSUME M!TypeOK, NEW w \in MailWorkers, NEW t \in M!Tasks, Steps(w, t)
  PROVE  /\ task' \in [MailWorkers -> M!Tasks] /\ task'[w] = t
         /\ \A x \in MailWorkers \ {w} : task'[x] = task[x]
  BY DEF Steps, M!TypeOK

(* The stages of a task, kept closed where only membership matters.         *)
PCs == {"idle", "list", "remove", "hydrate", "store", "push", "publish", "ensure",
        "start", "recent", "keep", "hand", "page", "rows", "check", "see",
        "finish", "reset"}

LEMMA TasksAre ==
    M!Tasks = [job : M!Kinds \cup {"none"}, pc : PCs, gen : M!Scans, base : M!History, page : 0..Pages,
             from : M!History, upto : M!History, gone : SUBSET Message, changed : SUBSET Message,
             added : SUBSET Message, got : [Message -> M!History]]
  BY DEF M!Tasks, PCs

(* Changing the fields that the steps change keeps a task a task.           *)
LEMMA FieldsTyped ==
  ASSUME NEW t \in M!Tasks, NEW to \in PCs
  PROVE  /\ [t EXCEPT !.pc = to] \in M!Tasks
         /\ \A h \in M!History : [t EXCEPT !.base = h, !.pc = to] \in M!Tasks
         /\ \A v \in [Message -> M!History] : [t EXCEPT !.got = v, !.pc = to] \in M!Tasks
         /\ [t EXCEPT !.gone = {}, !.pc = to] \in M!Tasks
         /\ \A v \in [Message -> M!History] : [t EXCEPT !.got = v, !.changed = {}, !.pc = to] \in M!Tasks
         /\ \A v \in [Message -> M!History] : [t EXCEPT !.added = {}, !.got = v, !.pc = to] \in M!Tasks
         /\ \A h, k \in M!History, a, b, c \in SUBSET Message :
              [t EXCEPT !.upto = h, !.gone = a, !.changed = b, !.added = c, !.from = k, !.pc = to] \in M!Tasks
         /\ \A k \in M!Kinds, h \in M!History : [M!Idle EXCEPT !.job = k, !.from = h, !.pc = to] \in M!Tasks
         /\ \A k \in M!Kinds, h \in M!History : [M!Idle EXCEPT !.job = k, !.pc = to, !.base = h] \in M!Tasks
         /\ \A k \in M!Kinds \cup {"none"} : [M!Idle EXCEPT !.job = k, !.pc = to] \in M!Tasks
<1> HIDE DEF PCs
<1>1. t \in M!Tasks /\ M!Idle \in M!Tasks /\ M!Kinds \subseteq M!Kinds \cup {"none"}
  BY IdleTyped
<1> HIDE DEF M!Idle
<1>a. [t EXCEPT !.pc = to] \in M!Tasks
  BY <1>1, TasksAre
<1>b. \A h \in M!History : [t EXCEPT !.base = h, !.pc = to] \in M!Tasks
  BY <1>1, TasksAre
<1>c. \A v \in [Message -> M!History] : [t EXCEPT !.got = v, !.pc = to] \in M!Tasks
  BY <1>1, TasksAre
<1>d. [t EXCEPT !.gone = {}, !.pc = to] \in M!Tasks
  BY <1>1, TasksAre
<1>e. \A v \in [Message -> M!History] : [t EXCEPT !.got = v, !.changed = {}, !.pc = to] \in M!Tasks
  BY <1>1, TasksAre
<1>f. \A v \in [Message -> M!History] : [t EXCEPT !.added = {}, !.got = v, !.pc = to] \in M!Tasks
  BY <1>1, TasksAre
<1>g. \A h, k \in M!History, a, b, c \in SUBSET Message :
        [t EXCEPT !.upto = h, !.gone = a, !.changed = b, !.added = c, !.from = k, !.pc = to] \in M!Tasks
  BY <1>1, TasksAre
<1>h. \A k \in M!Kinds, h \in M!History : [M!Idle EXCEPT !.job = k, !.from = h, !.pc = to] \in M!Tasks
  BY <1>1, TasksAre
<1>i. \A k \in M!Kinds, h \in M!History : [M!Idle EXCEPT !.job = k, !.pc = to, !.base = h] \in M!Tasks
  BY <1>1, TasksAre
<1>j. \A k \in M!Kinds \cup {"none"} : [M!Idle EXCEPT !.job = k, !.pc = to] \in M!Tasks
  BY <1>1, TasksAre
<1> QED BY <1>a, <1>b, <1>c, <1>d, <1>e, <1>f, <1>g, <1>h, <1>i, <1>j

-----------------------------------------------------------------------------
(* What every step grants the tasks it does not run: Gmail's history only   *)
(* grows, no row of a message that is there goes back, pushes stay, and a   *)
(* scan goes on, ends, or is one the task knows nothing of.                 *)
MailGrows ==
    /\ now <= now'
    /\ \A m \in Message :
         \/ /\ gmail'[m].born = gmail[m].born
            /\ gmail[m].died # 0 => gmail'[m].died # 0
            /\ gmail'[m].ver = gmail[m].ver \/ now < gmail'[m].ver
         \/ gmail[m].born = 0 /\ now < gmail'[m].born /\ now < gmail'[m].ver
MirrorGrows == \A m \in M!There : mirror[m] <= mirror'[m]
OutboxGrows == outbox \subseteq outbox' /\ caughtUp <= caughtUp'
ScanGoesOn(t) ==
    \/ /\ state'.gen = state.gen /\ state'.base = state.base
       /\ seen \subseteq seen' /\ (state.page = M!Done => state'.page = M!Done)
    \/ state'.gen = M!NoScan
    \/ t.gen # state'.gen

Grows == M!TypeOK' /\ MailGrows /\ MirrorGrows /\ OutboxGrows

LEMMA TaskFields ==
  ASSUME M!TypeOK, NEW x \in MailWorkers
  PROVE  /\ task[x].base \in Nat /\ task[x].from \in Nat /\ task[x].upto \in Nat
         /\ task[x].gone \subseteq Message /\ task[x].got \in [Message -> Nat]
         /\ task[x].page \in Nat /\ task[x].pc \in PCs
  BY ConstantsTyped, TasksAre DEF M!TypeOK, M!History

LEMMA RowFields ==
  ASSUME M!TypeOK
  PROVE  /\ now \in Nat /\ floor \in Nat /\ caughtUp \in Nat /\ mirror \in [Message -> Nat]
         /\ state.last \in Nat /\ state.base \in Nat /\ state.page \in Nat /\ state.auth \in BOOLEAN
         /\ \A m \in Message : gmail[m].born \in Nat /\ gmail[m].died \in Nat /\ gmail[m].ver \in Nat
  BY ConstantsTyped DEF M!TypeOK, M!History, M!States, M!Mails

(* The messages that are there after a step.                                *)
LEMMA ThereAfter ==
  ASSUME M!TypeOK, GmailHolds, MailGrows, M!TypeOK', NEW m \in M!There'
  PROVE  /\ m \in Message
         /\ \/ /\ m \in M!There
               /\ gmail'[m].born = gmail[m].born
               /\ gmail'[m].ver = gmail[m].ver \/ now < gmail'[m].ver
            \/ now < gmail'[m].born /\ now < gmail'[m].ver
<1>1. m \in Message /\ gmail'[m].born # 0 /\ gmail'[m].died = 0
  BY DEF M!There, M!Present
<1>2. gmail[m].born = 0 => gmail[m].died = 0
  BY <1>1 DEF GmailHolds
<1>3. gmail[m].died \in Nat /\ gmail[m].born \in Nat
  BY <1>1, RowFields
<1> QED BY <1>1, <1>2, <1>3 DEF MailGrows, M!There, M!Present

(* A message there after a step, whose change is no newer than an id that   *)
(* had passed, was there before, as it is.                                  *)
LEMMA OldChange ==
  ASSUME M!TypeOK, GmailHolds, MailGrows, M!TypeOK', NEW m \in M!There', NEW h \in Nat, h <= now
  PROVE  /\ gmail'[m].ver <= h => m \in M!There /\ gmail'[m].ver = gmail[m].ver /\ gmail'[m].born = gmail[m].born
         /\ gmail'[m].born <= h => m \in M!There /\ gmail'[m].born = gmail[m].born
<1>1. gmail'[m].ver \in Nat /\ gmail'[m].born \in Nat /\ now \in Nat
  BY ThereAfter, RowFields, M!TypeOK' DEF M!TypeOK, M!Mails, M!History
<1> QED BY <1>1, ThereAfter

LEMMA GenuineAfter ==
  ASSUME M!TypeOK, GmailHolds, MailGrows, M!TypeOK', NEW v, Genuine(v)
  PROVE  \A m \in Message : v[m] # 0 => gmail'[m].born # 0 /\ gmail'[m].born <= v[m]
  BY RowFields DEF Genuine, MailGrows

LEMMA Unmoved ==
  ASSUME M!TypeOK, GmailHolds, RowHolds, Grows,
         NEW x \in MailWorkers, task'[x] = task[x], ScanGoesOn(task[x]), TaskHolds(task[x])
  PROVE  TaskHolds(task[x])'
<1>0. /\ task[x].base \in Nat /\ task[x].from \in Nat /\ task[x].upto \in Nat
      /\ now \in Nat /\ now' \in Nat /\ now <= now'
      /\ task[x].base <= now /\ task[x].from <= now /\ task[x].upto <= now
  BY TaskFields, RowFields, ConstantsTyped DEF TaskHolds, Sound, Grows, M!TypeOK, M!History, MailGrows
<1>k. ASSUME NEW h \in Nat, h <= now
      PROVE  \A m \in M!There' :
               /\ gmail'[m].ver <= h => /\ m \in M!There /\ gmail'[m].ver = gmail[m].ver
                                        /\ gmail[m].ver <= mirror[m] => gmail[m].ver <= mirror'[m]
               /\ gmail'[m].born <= h => m \in M!There /\ gmail'[m].born = gmail[m].born
  <2>0. SUFFICES ASSUME NEW m \in M!There'
                 PROVE  /\ gmail'[m].ver <= h => /\ m \in M!There /\ gmail'[m].ver = gmail[m].ver
                                                 /\ gmail[m].ver <= mirror[m] => gmail[m].ver <= mirror'[m]
                        /\ gmail'[m].born <= h => m \in M!There /\ gmail'[m].born = gmail[m].born
    OBVIOUS
  <2>1. m \in Message /\ (m \in M!There => mirror[m] <= mirror'[m])
    BY ThereAfter DEF Grows, MirrorGrows
  <2>2. mirror[m] \in Nat /\ mirror'[m] \in Nat /\ gmail[m].ver \in Nat
    BY <2>1, RowFields, ConstantsTyped DEF Grows, M!TypeOK, M!History
  <2> QED BY <1>k, <2>1, <2>2, OldChange DEF Grows
<1>u. \A m \in M!There' :
        /\ gmail'[m].ver <= task[x].upto => /\ m \in M!There /\ gmail'[m].ver = gmail[m].ver
                                            /\ gmail[m].ver <= mirror[m] => gmail[m].ver <= mirror'[m]
        /\ gmail'[m].born <= task[x].upto => m \in M!There /\ gmail'[m].born = gmail[m].born
  BY <1>0, <1>k
<1>f. \A m \in M!There' :
        /\ gmail'[m].ver <= task[x].from => /\ m \in M!There /\ gmail'[m].ver = gmail[m].ver
                                            /\ gmail[m].ver <= mirror[m] => gmail[m].ver <= mirror'[m]
        /\ gmail'[m].born <= task[x].from => m \in M!There /\ gmail'[m].born = gmail[m].born
  BY <1>0, <1>k
<1>1. Sound(task[x])'
  <2>1. \A m \in task[x].gone : gmail'[m].died # 0
    BY TaskFields, RowFields DEF TaskHolds, Sound, Grows, MailGrows, GmailHolds
  <2>2. \A m \in Message : task[x].got[m] # 0 => gmail'[m].born # 0 /\ gmail'[m].born <= task[x].got[m]
    BY GenuineAfter DEF TaskHolds, Sound, Grows
  <2>3. task[x].base <= now' /\ task[x].from <= now' /\ task[x].upto <= now'
    BY <1>0
  <2>4. task[x].pc # "idle" => task[x].job \in M!Kinds
    BY DEF TaskHolds, Sound
  <2> QED BY <2>1, <2>2, <2>3, <2>4, task'[x] = task[x] DEF Sound, Genuine
<1>2. DeltaHolds(task[x])'
  <2>0. DeltaHolds(task[x])
    BY DEF TaskHolds
  <2>1. task[x].pc = "list" => \A m \in M!There' : gmail'[m].ver <= task[x].from => mirror'[m] >= gmail'[m].ver
    BY <1>f, <2>0 DEF DeltaHolds, M!Covered
  <2>2. task[x].pc \in {"remove", "hydrate"} => \A m \in M!There' :
          gmail'[m].ver <= task[x].upto => m \in task[x].changed \/ gmail'[m].ver <= mirror'[m]
    <3>1. SUFFICES ASSUME task[x].pc \in {"remove", "hydrate"}, NEW m \in M!There',
                          gmail'[m].ver <= task[x].upto
                   PROVE  m \in task[x].changed \/ gmail'[m].ver <= mirror'[m]
      OBVIOUS
    <3>2. \A n \in M!There : gmail[n].ver <= task[x].upto => n \in task[x].changed \/ gmail[n].ver <= mirror[n]
      BY <2>0, <3>1 DEF DeltaHolds, Mirrored
    <3>3. /\ m \in M!There /\ gmail'[m].ver = gmail[m].ver
          /\ gmail[m].ver <= mirror[m] => gmail[m].ver <= mirror'[m]
      BY <1>u, <3>1
    <3> QED BY <3>1, <3>2, <3>3
  <2>3. task[x].pc = "store" => \A m \in M!There' :
          gmail'[m].ver <= task[x].upto => gmail'[m].ver <= task[x].got[m] \/ gmail'[m].ver <= mirror'[m]
    BY <1>u, <2>0 DEF DeltaHolds, Mirrored
  <2>4. task[x].pc \in {"push", "publish", "see", "finish"} =>
          \A m \in M!There' : gmail'[m].ver <= task[x].upto => mirror'[m] >= gmail'[m].ver
    BY <1>u, <2>0 DEF DeltaHolds, M!Covered
  <2>5. task'[x] = task[x] OBVIOUS
  <2> QED BY <2>1, <2>2, <2>3, <2>4, <2>5 DEF DeltaHolds, M!Covered, Mirrored
<1>3. PageHolds(task[x])'
  BY <1>0, <1>k DEF TaskHolds, PageHolds, Mirrored, ScanGoesOn
<1>4. ScanHolds(task[x])'
  <2>0. ScanHolds(task[x]) /\ task'[x] = task[x]
    BY DEF TaskHolds
  <2>1. SUFFICES ASSUME task[x].gen # M!NoScan, task[x].gen = state'.gen
                 PROVE  ScanHolds(task[x])'
    BY <2>0 DEF ScanHolds
  <2>2. /\ state'.gen = state.gen /\ state'.base = state.base
        /\ seen \subseteq seen' /\ (state.page = M!Done => state'.page = M!Done)
    BY <2>1 DEF ScanGoesOn
  <2>3. \A m \in M!There' : gmail'[m].born <= task[x].upto => m \in M!There /\ gmail'[m].born = gmail[m].born
    BY <1>0, <1>k
  <2> QED BY <2>0, <2>1, <2>2, <2>3 DEF ScanHolds
<1>5. PushHolds(task[x])'
  <2>0. PushHolds(task[x]) /\ task'[x] = task[x] /\ outbox \subseteq outbox' /\ caughtUp <= caughtUp'
    BY DEF TaskHolds, Grows, OutboxGrows
  <2>1. caughtUp \in Nat /\ caughtUp' \in Nat /\ \A m \in M!There' : gmail'[m].born \in Nat
    BY ConstantsTyped DEF Grows, M!TypeOK, M!History, M!Mails, M!There
  <2>2. \A m \in M!There' : gmail'[m].born <= task[x].upto =>
          m \in M!There /\ gmail'[m].born = gmail[m].born
    BY <1>0, <1>k
  <2>3. \A m \in M!There' : gmail'[m].born <= task[x].from =>
          m \in M!There /\ gmail'[m].born = gmail[m].born
    BY <1>0, <1>k
  <2>4. \A m \in M!There' : caughtUp' < gmail'[m].born => caughtUp < gmail'[m].born
    BY <2>0, <2>1
  <2>5. task[x].job = "delta" /\ task[x].pc = "list" => \A m \in M!There' :
          caughtUp' < gmail'[m].born /\ gmail'[m].born <= task[x].from => m \in outbox'
    BY <2>0, <2>3, <2>4 DEF PushHolds
  <2>6. task[x].job = "delta" /\ task[x].pc \in {"remove", "hydrate"} =>
          /\ task[x].added \subseteq task[x].changed
          /\ \A m \in M!There' : caughtUp' < gmail'[m].born /\ gmail'[m].born <= task[x].upto =>
               m \in outbox' \/ m \in task[x].added
    BY <2>0, <2>2, <2>4 DEF PushHolds
  <2>7. (task[x].job = "delta" /\ task[x].pc = "store") \/ task[x].pc = "push" =>
          /\ \A m \in task[x].added : task[x].got[m] # 0
          /\ \A m \in M!There' : caughtUp' < gmail'[m].born /\ gmail'[m].born <= task[x].upto =>
               m \in outbox' \/ m \in task[x].added
    BY <2>0, <2>2, <2>4 DEF PushHolds
  <2>8. task[x].pc = "publish" => \A m \in M!There' :
          caughtUp' < gmail'[m].born /\ gmail'[m].born <= task[x].upto => m \in outbox'
    BY <2>0, <2>2, <2>4 DEF PushHolds
  <2>9. task'[x] = task[x] OBVIOUS
  <2>10. /\ task[x].pc \in {"list", "remove", "hydrate", "store"} =>
              task[x].job = "delta" \/ (task[x].job = "reconcile" /\ task[x].gen # M!NoScan)
         /\ task[x].pc \in {"see", "finish"} => task[x].gen # M!NoScan
    BY <2>0 DEF PushHolds
  <2> QED BY <2>5, <2>6, <2>7, <2>8, <2>9, <2>10 DEF PushHolds
<1> QED BY <1>1, <1>2, <1>3, <1>4, <1>5 DEF TaskHolds

-----------------------------------------------------------------------------
(* The parts of a step.                                                     *)

LEMMA SameMail ==
  ASSUME M!TypeOK, GmailHolds, UNCHANGED M!gmailVars
  PROVE  GmailHolds' /\ MailGrows /\ M!There' = M!There
<1>1. gmail' = gmail /\ now' = now /\ now <= now'
  BY RowFields DEF M!gmailVars
<1> QED BY <1>1 DEF GmailHolds, MailGrows, M!There, M!Present

LEMMA RowsStand ==
  ASSUME M!TypeOK, GmailHolds, RowHolds, Grows, PagesHold, M!NothingLost, M!PushedBeforePassed,
         state' = state, seen \subseteq seen'
  PROVE  PagesHold' /\ M!NothingLost' /\ M!PushedBeforePassed'
<1>0. state.last \in Nat /\ state.base \in Nat /\ state.last <= now /\ state.base <= now
      /\ MailGrows /\ M!TypeOK'
  BY RowFields DEF RowHolds, Grows
<1>1. \A m \in M!There' : /\ gmail'[m].ver <= state.last => m \in M!There /\ gmail'[m].ver = gmail[m].ver
                          /\ gmail'[m].born <= state.last => m \in M!There /\ gmail'[m].born = gmail[m].born
  BY <1>0, OldChange
<1>2. \A m \in M!There' : /\ gmail'[m].ver <= state.base => m \in M!There /\ gmail'[m].ver = gmail[m].ver
                          /\ gmail'[m].born <= state.base => m \in M!There /\ gmail'[m].born = gmail[m].born
  BY <1>0, OldChange
<1>3. ASSUME NEW m \in M!There'
      PROVE  m \in M!There /\ gmail[m].ver <= mirror[m] => gmail[m].ver <= mirror'[m]
  <2>1. m \in Message /\ (m \in M!There => mirror[m] <= mirror'[m])
    BY <1>0, ThereAfter DEF Grows, MirrorGrows
  <2>2. mirror[m] \in Nat /\ mirror'[m] \in Nat /\ gmail[m].ver \in Nat
    BY <2>1, RowFields, ConstantsTyped DEF Grows, M!TypeOK, M!History
  <2> QED BY <2>1, <2>2
<1>4. M!NothingLost'
  <2>1. SUFFICES ASSUME state.auth, NEW m \in M!There', gmail'[m].ver <= state.last
                 PROVE  mirror'[m] >= gmail'[m].ver
    BY DEF M!NothingLost, M!Covered
  <2>2. m \in M!There /\ gmail'[m].ver = gmail[m].ver
    BY <1>1, <2>1
  <2>3. mirror[m] >= gmail[m].ver
    BY <2>1, <2>2 DEF M!NothingLost, M!Covered
  <2>4. mirror[m] \in Nat /\ mirror'[m] \in Nat /\ gmail[m].ver \in Nat
    BY <2>2, RowFields, ConstantsTyped DEF Grows, M!TypeOK, M!History, M!There
  <2> QED BY <1>3, <2>2, <2>3, <2>4
<1>5. PagesHold'
  BY <1>2, <1>3 DEF PagesHold, Listed, Mirrored
<1>6. M!PushedBeforePassed'
  <2>1. caughtUp \in Nat /\ caughtUp' \in Nat /\ caughtUp <= caughtUp' /\ outbox \subseteq outbox'
        /\ \A m \in M!There : gmail[m].born \in Nat
    BY RowFields, ConstantsTyped DEF Grows, OutboxGrows, M!TypeOK, M!History, M!There
  <2> QED BY <1>1, <2>1 DEF M!PushedBeforePassed
<1> QED BY <1>4, <1>5, <1>6

(* A step of worker w, whose part is to keep its own task right.            *)
LEMMA Frame ==
  ASSUME IInv, Grows, GmailHolds', RowHolds', PagesHold', M!NothingLost', M!PushedBeforePassed',
         NEW w \in MailWorkers, TaskHolds(task[w])',
         \A x \in MailWorkers \ {w} : task'[x] = task[x] /\ ScanGoesOn(task[x])
  PROVE  IInv'
<1>1. ASSUME NEW x \in MailWorkers \ {w} PROVE TaskHolds(task[x])'
  BY <1>1, Unmoved DEF IInv
<1>2. \A x \in MailWorkers : TaskHolds(task[x])'
  BY <1>1
<1> QED BY <1>2 DEF IInv, Grows

(* ... and that leaves the state row as it is.                              *)
LEMMA RowFrame ==
  ASSUME IInv, Grows, UNCHANGED M!gmailVars, Genuine(mirror)', state' = state, seen \subseteq seen',
         NEW w \in MailWorkers, TaskHolds(task[w])', \A x \in MailWorkers \ {w} : task'[x] = task[x]
  PROVE  IInv'
<1>1. \A x \in MailWorkers : ScanGoesOn(task[x])
  BY DEF ScanGoesOn
<1>2. GmailHolds' /\ now' = now
  BY SameMail DEF IInv, M!gmailVars
<1>3. RowHolds'
  BY <1>2 DEF IInv, RowHolds
<1>4. PagesHold' /\ M!NothingLost' /\ M!PushedBeforePassed'
  BY RowsStand DEF IInv
<1> QED BY <1>1, <1>2, <1>3, <1>4, Frame

(* Tasks at these stages know nothing that could be wrong.                  *)
Quiet == {"idle", "ensure", "start", "recent", "keep", "hand", "reset"}

LEMMA QuietHolds ==
  ASSUME NEW w \in MailWorkers, task'[w].pc \in Quiet, Sound(task[w])'
  PROVE  TaskHolds(task[w])'
<1>1. DeltaHolds(task[w])'
  BY DEF Quiet, DeltaHolds
<1>2. PageHolds(task[w])'
  BY DEF Quiet, PageHolds
<1>3. ScanHolds(task[w])'
  BY DEF Quiet, ScanHolds
<1>4. PushHolds(task[w])'
  BY DEF Quiet, PushHolds
<1> QED BY <1>1, <1>2, <1>3, <1>4 DEF TaskHolds

LEMMA BlankSound ==
  ASSUME NEW w \in MailWorkers, task'[w].gone = {}, task'[w].got = M!Nothing,
         task'[w].base <= now', task'[w].from <= now', task'[w].upto <= now',
         task'[w].pc = "idle" \/ task'[w].job \in M!Kinds
  PROVE  Sound(task[w])'
  BY DEF Sound, Genuine, M!Nothing

LEMMA ResumeHolds ==
  ASSUME M!TypeOK', RowHolds', PagesHold', NEW w \in MailWorkers, state'.gen # M!NoScan,
         task'[w] = M!Resume(state'.gen, state'.base, state'.page)
  PROVE  TaskHolds(task[w])'
<1>0. state'.base \in Nat /\ now' \in Nat /\ state'.base <= now'
  BY ConstantsTyped DEF M!TypeOK, M!States, M!History, RowHolds
<1>1. CASE state'.page = M!Done
  <2>1. task'[w] = [M!Idle EXCEPT !.job = "reconcile", !.pc = "list", !.gen = state'.gen, !.from = state'.base]
    BY <1>1 DEF M!Resume
  <2>2. /\ task'[w].job = "reconcile" /\ task'[w].pc = "list" /\ task'[w].gen = state'.gen
        /\ task'[w].from = state'.base /\ task'[w].base = 0 /\ task'[w].upto = 0
        /\ task'[w].gone = {} /\ task'[w].got = M!Nothing
    BY <2>1 DEF M!Idle
  <2>3. Sound(task[w])'
    BY <1>0, <2>2, BlankSound DEF M!Kinds
  <2>4. DeltaHolds(task[w])'
    BY <1>0, <1>1, <2>2, ConstantsTyped DEF DeltaHolds, M!Covered, PagesHold, Listed, Mirrored, M!TypeOK, M!There, M!Mails, M!History
  <2>5. PageHolds(task[w])' /\ ScanHolds(task[w])' /\ PushHolds(task[w])'
    BY <1>1, <2>2 DEF PageHolds, ScanHolds, PushHolds
  <2> QED BY <2>3, <2>4, <2>5 DEF TaskHolds
<1>2. CASE state'.page # M!Done
  <2>1. task'[w] = [M!Idle EXCEPT !.job = "reconcile", !.pc = "page", !.gen = state'.gen,
                                !.base = state'.base, !.page = state'.page]
    BY <1>2 DEF M!Resume
  <2>2. /\ task'[w].job = "reconcile" /\ task'[w].pc = "page" /\ task'[w].gen = state'.gen
        /\ task'[w].from = 0 /\ task'[w].base = state'.base /\ task'[w].upto = 0
        /\ task'[w].page = state'.page /\ task'[w].gone = {} /\ task'[w].got = M!Nothing
    BY <2>1 DEF M!Idle
  <2>3. Sound(task[w])'
    BY <1>0, <2>2, BlankSound DEF M!Kinds
  <2>4. DeltaHolds(task[w])'
    BY <2>2 DEF DeltaHolds
  <2>5. PageHolds(task[w])' /\ ScanHolds(task[w])' /\ PushHolds(task[w])'
    BY <1>2, <2>2 DEF PageHolds, ScanHolds, PushHolds
  <2> QED BY <2>3, <2>4, <2>5 DEF TaskHolds
<1> QED BY <1>1, <1>2

-----------------------------------------------------------------------------
(* Steps of a worker that leave the state row as it is.                     *)
LEMMA MailStep ==
  ASSUME IInv, NEW w \in MailWorkers, NEW t \in M!Tasks, Steps(w, t),
         UNCHANGED <<M!gmailVars, state, caughtUp>>,
         mirror' \in [Message -> M!History], MirrorGrows, Genuine(mirror)',
         seen \subseteq seen', seen' \subseteq Message, outbox \subseteq outbox', outbox' \subseteq Message,
         jobs' \subseteq M!Kinds, scans' \in 0..MaxScans, syncFaults' \in 0..SyncFaults,
         TaskHolds(task[w])'
  PROVE  IInv'
<1>1. M!TypeOK
  BY DEF IInv
<1>2. task' \in [MailWorkers -> M!Tasks] /\ \A x \in MailWorkers \ {w} : task'[x] = task[x]
  BY <1>1, StepTyped
<1>3. M!TypeOK'
  BY <1>1, <1>2 DEF M!TypeOK, M!gmailVars
<1>4. MailGrows
  BY <1>1, SameMail DEF IInv
<1>5. OutboxGrows
  BY <1>1, RowFields DEF OutboxGrows
<1> QED BY <1>2, <1>3, <1>4, <1>5, RowFrame DEF Grows

LEMMA Standing ==
  ASSUME M!TypeOK, RowHolds, mirror' = mirror, UNCHANGED M!gmailVars
  PROVE  mirror' \in [Message -> M!History] /\ MirrorGrows /\ Genuine(mirror)'
<1>1. \A m \in Message : mirror[m] \in Nat
  BY RowFields
<1> QED BY <1>1 DEF M!TypeOK, RowHolds, MirrorGrows, Genuine, M!gmailVars, M!There

LEMMA Upserting ==
  ASSUME M!TypeOK, RowHolds, NEW v \in [Message -> M!History], Genuine(v), mirror' = M!Upserted(v),
         UNCHANGED M!gmailVars
  PROVE  /\ mirror' \in [Message -> M!History] /\ MirrorGrows /\ Genuine(mirror)'
         /\ \A m \in Message : v[m] <= mirror'[m] /\ mirror[m] <= mirror'[m]
<1>1. /\ M!Upserted(v) \in [Message -> M!History]
      /\ \A m \in Message : mirror[m] <= M!Upserted(v)[m] /\ v[m] <= M!Upserted(v)[m]
      /\ \A m \in Message : M!Upserted(v)[m] = mirror[m] \/ M!Upserted(v)[m] = v[m]
  BY UpsertedTyped
<1>2. Genuine(mirror)'
  BY <1>1 DEF RowHolds, Genuine, M!gmailVars
<1> QED BY <1>1, <1>2 DEF MirrorGrows, M!There

LEMMA QuietStep ==
  ASSUME IInv, NEW w \in MailWorkers, NEW t \in M!Tasks, Steps(w, t), t.pc \in Quiet, Sound(task[w])',
         UNCHANGED <<M!gmailVars, mirror, state, seen, outbox, caughtUp>>,
         jobs' \subseteq M!Kinds, scans' \in 0..MaxScans, syncFaults' \in 0..SyncFaults
  PROVE  IInv'
<1>1. M!TypeOK /\ RowHolds
  BY DEF IInv
<1>2. mirror' \in [Message -> M!History] /\ MirrorGrows /\ Genuine(mirror)'
  BY <1>1, Standing
<1>3. TaskHolds(task[w])'
  BY <1>1, StepTyped, QuietHolds
<1>4. seen \subseteq seen' /\ seen' \subseteq Message /\ outbox \subseteq outbox' /\ outbox' \subseteq Message
  BY <1>1 DEF M!TypeOK
<1> QED BY <1>2, <1>3, <1>4, MailStep

(* A step to a blank task at a quiet stage.                                 *)
Blank(t) ==
    /\ t \in M!Tasks /\ t.pc \in Quiet /\ (t.pc = "idle" \/ t.job \in M!Kinds)
    /\ t.gone = {} /\ t.got = M!Nothing /\ t.base <= now /\ t.from = 0 /\ t.upto = 0

LEMMA Blanks ==
  ASSUME M!TypeOK
  PROVE  /\ Blank(M!Idle)
         /\ \A k \in M!Kinds, to \in Quiet : Blank([M!Idle EXCEPT !.job = k, !.pc = to])
         /\ \A k \in M!Kinds : Blank([M!Idle EXCEPT !.job = k, !.pc = "start", !.base = now])
<1>0. 0 <= now /\ now <= now /\ now \in M!History /\ Quiet \subseteq PCs /\ "start" \in Quiet /\ "start" \in PCs
  BY RowFields DEF M!TypeOK, Quiet, PCs
<1>1. Blank(M!Idle)
  BY <1>0, IdleTyped DEF Blank, M!Idle, Quiet
<1>2. ASSUME NEW k \in M!Kinds, NEW to \in Quiet
      PROVE  Blank([M!Idle EXCEPT !.job = k, !.pc = to])
  <2> DEFINE t == [M!Idle EXCEPT !.job = k, !.pc = to]
  <2>1. t \in M!Tasks
    BY <1>0, IdleTyped, FieldsTyped
  <2>2. t.pc = to /\ t.job = k /\ t.gone = {} /\ t.got = M!Nothing /\ t.base = 0 /\ t.from = 0 /\ t.upto = 0
    BY DEF M!Idle
  <2> HIDE DEF t
  <2>3. Blank(t)
    BY <1>0, <2>1, <2>2 DEF Blank
  <2> QED BY <2>3 DEF t
<1>3. ASSUME NEW k \in M!Kinds
      PROVE  Blank([M!Idle EXCEPT !.job = k, !.pc = "start", !.base = now])
  <2> DEFINE t == [M!Idle EXCEPT !.job = k, !.pc = "start", !.base = now]
  <2>1. t \in M!Tasks
    BY <1>0, IdleTyped, FieldsTyped
  <2>2. t.pc = "start" /\ t.job = k /\ t.gone = {} /\ t.got = M!Nothing /\ t.base = now /\ t.from = 0 /\ t.upto = 0
    BY DEF M!Idle
  <2> HIDE DEF t
  <2>3. Blank(t)
    BY <1>0, <2>1, <2>2 DEF Blank
  <2> QED BY <2>3 DEF t
<1> QED BY <1>1, <1>2, <1>3

LEMMA BlankStep ==
  ASSUME IInv, NEW w \in MailWorkers, NEW t, Blank(t), Steps(w, t),
         UNCHANGED <<M!gmailVars, mirror, state, seen, outbox, caughtUp>>,
         jobs' \subseteq M!Kinds, scans' \in 0..MaxScans, syncFaults' \in 0..SyncFaults
  PROVE  IInv'
<1>1. t \in M!Tasks /\ t.pc \in Quiet
  BY DEF Blank
<1>2. task'[w] = t /\ now' = now
  BY <1>1, StepTyped DEF IInv, M!gmailVars
<1>3. Sound(task[w])'
  <2>1. 0 <= now
    BY RowFields DEF IInv
  <2> QED BY <1>2, <2>1, BlankSound DEF Blank
<1> QED BY <1>1, <1>3, QuietStep

-----------------------------------------------------------------------------
(* The steps, one by one.                                                   *)

LEMMA Counts ==
  ASSUME M!TypeOK
  PROVE  /\ jobs \subseteq M!Kinds /\ scans \in 0..MaxScans /\ syncFaults \in 0..SyncFaults
         /\ M!Fault => syncFaults' \in 0..SyncFaults
         /\ \A k : jobs \ {k} \subseteq M!Kinds
         /\ \A k \in M!Kinds : jobs \cup {k} \subseteq M!Kinds
         /\ "delta" \in M!Kinds /\ "import" \in M!Kinds /\ "reconcile" \in M!Kinds
<1>1. jobs \subseteq M!Kinds /\ scans \in 0..MaxScans /\ syncFaults \in 0..SyncFaults
  BY DEF M!TypeOK
<1>2. M!Fault => syncFaults' \in 0..SyncFaults
  BY <1>1, ConstantsTyped DEF M!Fault
<1>3. "delta" \in M!Kinds /\ "import" \in M!Kinds /\ "reconcile" \in M!Kinds
  BY DEF M!Kinds
<1> QED BY <1>1, <1>2, <1>3

LEMMA Zero == IInv => 0 \in M!History /\ 0 <= now
  BY ConstantsTyped, RowFields DEF IInv

LEMMA BeginDeltaKeeps ==
  ASSUME IInv, NEW w \in MailWorkers, M!BeginDelta(w)
  PROVE  IInv'
<1> DEFINE t == [M!Idle EXCEPT !.job = "delta", !.from = state.last, !.pc = IF state.auth THEN "list" ELSE "ensure"]
<1>0. M!TypeOK /\ RowHolds /\ now \in Nat /\ state.last \in Nat /\ state.last \in M!History
  BY RowFields DEF IInv, M!TypeOK, M!States
<1>1. t \in M!Tasks
  BY <1>0, FieldsTyped, IdleTyped, Counts DEF PCs
<1>2. Steps(w, t)
  BY DEF M!BeginDelta, Steps
<1>3. /\ UNCHANGED <<M!gmailVars, mirror, state, seen, outbox, caughtUp, scans, syncFaults>>
      /\ jobs' = jobs \ {"delta"}
  BY DEF M!BeginDelta, M!Claim
<1>4. t.gone = {} /\ t.got = M!Nothing /\ t.base = 0 /\ t.from = state.last /\ t.upto = 0 /\ t.job = "delta"
      /\ t.gen = M!NoScan
  BY DEF M!Idle
<1>5. t.pc = IF state.auth THEN "list" ELSE "ensure"
  BY DEF M!Idle
<1> HIDE DEF t
<1>6. task'[w] = t /\ now' = now /\ state' = state
  BY <1>0, <1>1, <1>2, <1>3, StepTyped DEF M!gmailVars
<1>7. Sound(task[w])'
  BY <1>0, <1>4, <1>6, BlankSound, RowFields DEF RowHolds, M!Kinds
<1>8. TaskHolds(task[w])'
  <2>1. CASE state.auth
    <3>1. M!There' = M!There /\ gmail' = gmail /\ mirror' = mirror
      BY <1>0, <1>3, SameMail DEF IInv, M!gmailVars
    <3>2. M!Covered(state.last)
      BY <2>1 DEF IInv, M!NothingLost
    <3>3. t.pc = "list"
      BY <1>5, <2>1
    <3>4. DeltaHolds(task[w])'
      BY <1>4, <1>6, <3>1, <3>2, <3>3 DEF DeltaHolds, M!Covered
    <3>5. PushHolds(task[w])'
      <4>1. \A m \in M!There : caughtUp < gmail[m].born /\ gmail[m].born <= state.last => m \in outbox
        BY <2>1 DEF IInv, M!PushedBeforePassed
      <4> QED BY <1>3, <1>4, <1>6, <3>1, <3>3, <4>1 DEF PushHolds
    <3>6. PageHolds(task[w])' /\ ScanHolds(task[w])'
      BY <1>4, <1>6, <3>3 DEF PageHolds, ScanHolds
    <3> QED BY <1>7, <3>4, <3>5, <3>6 DEF TaskHolds
  <2>2. CASE ~state.auth
    BY <1>5, <1>6, <1>7, <2>2, QuietHolds DEF Quiet
  <2> QED BY <2>1, <2>2
<1>9. mirror' \in [Message -> M!History] /\ MirrorGrows /\ Genuine(mirror)'
  BY <1>0, <1>3, Standing
<1> QED BY <1>0, <1>1, <1>2, <1>3, <1>8, <1>9, Counts, MailStep DEF M!TypeOK

LEMMA BeginImportKeeps ==
  ASSUME IInv, NEW w \in MailWorkers, M!BeginImport(w)
  PROVE  IInv'
<1>1. M!TypeOK
  BY DEF IInv
<1> DEFINE to == IF state.auth THEN "recent" ELSE "ensure"
<1>2. to \in Quiet
  BY DEF Quiet
<1>3. /\ Steps(w, [M!Idle EXCEPT !.job = "import", !.pc = to])
      /\ UNCHANGED <<M!gmailVars, mirror, state, seen, outbox, caughtUp, scans, syncFaults>>
      /\ jobs' = jobs \ {"import"}
  BY DEF M!BeginImport, M!Claim, Steps
<1> HIDE DEF to
<1>4. Blank([M!Idle EXCEPT !.job = "import", !.pc = to])
  BY <1>1, <1>2, Blanks, Counts
<1> QED BY <1>1, <1>3, <1>4, Counts, BlankStep

LEMMA BeginReconcileKeeps ==
  ASSUME IInv, NEW w \in MailWorkers, M!BeginReconcile(w)
  PROVE  IInv'
<1>0. M!TypeOK /\ RowHolds /\ PagesHold
  BY DEF IInv
<1>1. /\ UNCHANGED <<M!gmailVars, mirror, state, seen, outbox, caughtUp, scans, syncFaults>>
      /\ jobs' = jobs \ {"reconcile"}
  BY DEF M!BeginReconcile, M!Claim
<1>2. CASE state.gen = M!NoScan
  <2>1. Steps(w, [M!Idle EXCEPT !.job = "reconcile", !.pc = "start", !.base = now])
    BY <1>2 DEF M!BeginReconcile, Steps
  <2>2. Blank([M!Idle EXCEPT !.job = "reconcile", !.pc = "start", !.base = now])
    BY <1>0, Blanks, Counts
  <2> QED BY <1>0, <1>1, <2>1, <2>2, Counts, BlankStep
<1>3. CASE state.gen # M!NoScan
  <2> DEFINE t == M!Resume(state.gen, state.base, state.page)
  <2>1. Steps(w, t)
    BY <1>3 DEF M!BeginReconcile, Steps
  <2>2. t \in M!Tasks
    BY <1>0, ResumeTyped DEF M!TypeOK, M!States
  <2>3. task'[w] = t /\ state' = state
    BY <1>0, <1>1, <2>1, <2>2, StepTyped
  <2>4. M!TypeOK'
    BY <1>0, <1>1, <2>1, <2>2, StepTyped, Counts DEF M!TypeOK, M!gmailVars
  <2>5. RowHolds' /\ PagesHold'
    BY <1>0, <1>1 DEF RowHolds, PagesHold, M!gmailVars, Genuine, M!There, M!Present, Listed, Mirrored
  <2>6. TaskHolds(task[w])'
    BY <1>3, <2>3, <2>4, <2>5, ResumeHolds
  <2>7. mirror' \in [Message -> M!History] /\ MirrorGrows /\ Genuine(mirror)'
    BY <1>0, <1>1, Standing
  <2> HIDE DEF t
  <2> QED BY <1>0, <1>1, <2>1, <2>2, <2>6, <2>7, Counts, MailStep DEF M!TypeOK
<1> QED BY <1>2, <1>3

LEMMA EnsureKeeps ==
  ASSUME IInv, NEW w \in MailWorkers, M!Ensure(w)
  PROVE  IInv'
<1> DEFINE to == IF state.gen = M!NoScan THEN "start" ELSE "recent"
           t == [task[w] EXCEPT !.base = now, !.pc = to]
<1>0. M!TypeOK /\ now \in M!History /\ TaskHolds(task[w]) /\ task[w] \in M!Tasks /\ task[w].pc = "ensure"
  BY DEF IInv, M!TypeOK, M!Ensure
<1>1. Steps(w, t)
  BY DEF M!Ensure, Steps
<1>2. t \in M!Tasks
  BY <1>0, FieldsTyped DEF PCs
<1>3. t.base = now /\ t.pc = to /\ t.from = task[w].from /\ t.upto = task[w].upto /\ t.gone = task[w].gone
      /\ t.got = task[w].got /\ t.job = task[w].job
  BY <1>0 DEF M!Tasks
<1> HIDE DEF t
<1>4. UNCHANGED <<M!gmailVars, mirror, state, seen, outbox, caughtUp, jobs, scans, syncFaults>>
  BY DEF M!Ensure
<1>5. task'[w] = t /\ now' = now /\ gmail' = gmail
  BY <1>0, <1>1, <1>2, <1>4, StepTyped DEF M!gmailVars
<1>6. Sound(task[w])'
  BY <1>0, <1>3, <1>5, RowFields DEF TaskHolds, Sound, Genuine
<1> QED BY <1>0, <1>1, <1>2, <1>3, <1>4, <1>6, Counts, QuietStep DEF Quiet

(* The payloads of messages that are there are genuine.                     *)
LEMMA PayloadsGenuine ==
  ASSUME M!TypeOK, GmailHolds, NEW ms \in SUBSET M!There
  PROVE  /\ M!Payloads(ms) \in [Message -> M!History] /\ Genuine(M!Payloads(ms))
         /\ \A m \in ms : m \in Message /\ M!Payloads(ms)[m] = gmail[m].ver /\ M!Payloads(ms)[m] # 0
         /\ \A m \in Message \ ms : M!Payloads(ms)[m] = 0
<1>1. \A m \in ms : m \in Message /\ gmail[m].born # 0 /\ gmail[m].born <= gmail[m].ver
                    /\ gmail[m].born \in Nat /\ gmail[m].ver \in Nat
  BY RowFields DEF M!There, M!Present, GmailHolds
<1>2. \A m \in Message : M!Payloads(ms)[m] = IF m \in ms THEN gmail[m].ver ELSE 0
  BY DEF M!Payloads
<1> QED BY <1>1, <1>2, PayloadsTyped DEF Genuine

LEMMA FetchRecentKeeps ==
  ASSUME IInv, NEW w \in MailWorkers, M!FetchRecent(w)
  PROVE  IInv'
<1> DEFINE v == M!Payloads(M!Newest)
           t == [task[w] EXCEPT !.got = v, !.pc = "keep"]
<1>0. M!TypeOK /\ GmailHolds /\ TaskHolds(task[w]) /\ task[w] \in M!Tasks /\ M!Newest \subseteq M!There
      /\ task[w].pc = "recent"
  BY DEF IInv, M!TypeOK, M!Newest, M!FetchRecent
<1>1. v \in [Message -> M!History] /\ Genuine(v)
  BY <1>0, PayloadsGenuine
<1>2. Steps(w, t)
  BY DEF M!FetchRecent, Steps
<1> HIDE DEF v
<1>3. t \in M!Tasks
  BY <1>0, <1>1, FieldsTyped DEF PCs
<1>4. t.base = task[w].base /\ t.pc = "keep" /\ t.from = task[w].from /\ t.upto = task[w].upto
      /\ t.gone = task[w].gone /\ t.got = v /\ t.job = task[w].job
  BY <1>0 DEF M!Tasks
<1> HIDE DEF t
<1>5. UNCHANGED <<M!gmailVars, mirror, state, seen, outbox, caughtUp, jobs, scans, syncFaults>>
  BY DEF M!FetchRecent
<1>6. task'[w] = t /\ now' = now /\ gmail' = gmail
  BY <1>0, <1>2, <1>3, <1>5, StepTyped DEF M!gmailVars
<1>7. Sound(task[w])'
  BY <1>0, <1>1, <1>4, <1>6 DEF TaskHolds, Sound, Genuine
<1> QED BY <1>0, <1>2, <1>3, <1>4, <1>5, <1>7, Counts, QuietStep DEF Quiet

LEMMA KeepRecentKeeps ==
  ASSUME IInv, NEW w \in MailWorkers, M!KeepRecent(w)
  PROVE  IInv'
<1> DEFINE t == IF task[w].base = 0 THEN M!Idle ELSE [M!Idle EXCEPT !.job = task[w].job, !.pc = "hand"]
<1>0. M!TypeOK /\ RowHolds /\ TaskHolds(task[w]) /\ task[w] \in M!Tasks /\ task[w].pc = "keep"
  BY DEF IInv, M!TypeOK, M!KeepRecent
<1>1. task[w].got \in [Message -> M!History] /\ Genuine(task[w].got) /\ task[w].job \in M!Kinds
  BY <1>0 DEF M!Tasks, TaskHolds, Sound
<1>2. Steps(w, t)
  BY DEF M!KeepRecent, M!Stop, Steps
<1>3. t \in M!Tasks
  BY <1>1, FieldsTyped, IdleTyped DEF PCs
<1>4. t.gone = {} /\ t.got = M!Nothing /\ t.base = 0 /\ t.from = 0 /\ t.upto = 0 /\ t.pc \in Quiet
      /\ (t.pc = "idle" \/ t.job \in M!Kinds)
  BY <1>1 DEF M!Idle, Quiet
<1> HIDE DEF t
<1>5. UNCHANGED <<M!gmailVars, state, seen, outbox, caughtUp, jobs, scans, syncFaults>> /\ mirror' = M!Upserted(task[w].got)
  BY DEF M!KeepRecent
<1>6. mirror' \in [Message -> M!History] /\ MirrorGrows /\ Genuine(mirror)'
  BY <1>0, <1>1, <1>5, Upserting
<1>7. task'[w] = t /\ now' = now /\ 0 <= now
  BY <1>0, <1>2, <1>3, <1>5, StepTyped, Zero DEF M!gmailVars
<1>8. TaskHolds(task[w])'
  BY <1>4, <1>7, BlankSound, QuietHolds
<1> QED BY <1>0, <1>2, <1>3, <1>5, <1>6, <1>8, Counts, MailStep DEF M!TypeOK

LEMMA HandOverKeeps ==
  ASSUME IInv, NEW w \in MailWorkers, M!HandOver(w)
  PROVE  IInv'
<1>1. M!TypeOK
  BY DEF IInv
<1>2. Steps(w, M!Idle) /\ Blank(M!Idle)
  BY <1>1, Blanks DEF M!HandOver, M!Stop, Steps
<1>3. jobs' \subseteq M!Kinds
  BY <1>1, Counts DEF M!HandOver
<1> QED BY <1>1, <1>2, <1>3, Counts, BlankStep DEF M!HandOver

LEMMA FailKeeps ==
  ASSUME IInv, NEW w \in MailWorkers, M!Fail(w)
  PROVE  IInv'
<1>1. M!TypeOK
  BY DEF IInv
<1>2. Steps(w, M!Idle) /\ Blank(M!Idle)
  BY <1>1, Blanks DEF M!Fail, M!Stop, Steps
<1>3. task[w].job \in M!Kinds
  BY DEF M!Fail, IInv, TaskHolds, Sound
<1>4. jobs' \subseteq M!Kinds
  BY <1>1, <1>3, Counts DEF M!Fail
<1> QED BY <1>1, <1>2, <1>4, Counts, BlankStep DEF M!Fail

(* A step that moves a task to another stage and changes nothing else of it. *)
LEMMA Went ==
  ASSUME M!TypeOK, NEW w \in MailWorkers, NEW to \in PCs, M!Goto(w, to)
  PROVE  /\ [task[w] EXCEPT !.pc = to] \in M!Tasks /\ Steps(w, [task[w] EXCEPT !.pc = to])
         /\ task'[w].pc = to /\ task'[w].job = task[w].job /\ task'[w].gen = task[w].gen
         /\ task'[w].base = task[w].base /\ task'[w].page = task[w].page /\ task'[w].from = task[w].from
         /\ task'[w].upto = task[w].upto /\ task'[w].gone = task[w].gone
         /\ task'[w].changed = task[w].changed /\ task'[w].added = task[w].added
         /\ task'[w].got = task[w].got
<1> DEFINE t == [task[w] EXCEPT !.pc = to]
<1>1. task[w] \in M!Tasks
  BY DEF M!TypeOK
<1>2. t \in M!Tasks
  BY <1>1, FieldsTyped
<1>3. Steps(w, t)
  BY DEF M!Goto, Steps
<1>4. task'[w] = t
  BY <1>2, <1>3, StepTyped
<1>5. /\ t.pc = to /\ t.job = task[w].job /\ t.gen = task[w].gen
      /\ t.base = task[w].base /\ t.page = task[w].page /\ t.from = task[w].from
      /\ t.upto = task[w].upto /\ t.gone = task[w].gone
      /\ t.changed = task[w].changed /\ t.added = task[w].added /\ t.got = task[w].got
  BY <1>1 DEF M!Tasks
<1> HIDE DEF t
<1>6. t \in M!Tasks /\ Steps(w, t)
      /\ task'[w].pc = to /\ task'[w].job = task[w].job /\ task'[w].gen = task[w].gen
      /\ task'[w].base = task[w].base /\ task'[w].page = task[w].page /\ task'[w].from = task[w].from
      /\ task'[w].upto = task[w].upto /\ task'[w].gone = task[w].gone
      /\ task'[w].changed = task[w].changed /\ task'[w].added = task[w].added
      /\ task'[w].got = task[w].got
  BY <1>2, <1>3, <1>4, <1>5
<1> QED BY <1>6 DEF t

(* ... to a quiet stage.                                                    *)
LEMMA WentQuiet ==
  ASSUME IInv, NEW w \in MailWorkers, NEW to \in Quiet, to # "idle", task[w].pc # "idle", M!Goto(w, to),
         UNCHANGED <<M!gmailVars, mirror, state, seen, outbox, caughtUp>>,
         jobs' \subseteq M!Kinds, scans' \in 0..MaxScans, syncFaults' \in 0..SyncFaults
  PROVE  IInv'
<1> DEFINE t == [task[w] EXCEPT !.pc = to]
<1>0. M!TypeOK /\ Sound(task[w]) /\ to \in PCs
  BY DEF IInv, TaskHolds, Quiet, PCs
<1>1. t \in M!Tasks /\ Steps(w, t) /\ task'[w].pc = to
  BY <1>0, Went
<1>2. Sound(task[w])'
  BY <1>0, Went DEF Sound, Genuine, M!gmailVars
<1>3. task'[w] = t
  BY <1>0, <1>1, StepTyped
<1> HIDE DEF t
<1> QED BY <1>0, <1>1, <1>2, <1>3, QuietStep

LEMMA RejectTokenKeeps ==
  ASSUME IInv, NEW w \in MailWorkers, M!RejectToken(w)
  PROVE  IInv'
<1>1. M!TypeOK /\ "reset" \in Quiet
  BY DEF IInv, Quiet
<1>2. task[w].pc # "idle" /\ M!Goto(w, "reset")
      /\ UNCHANGED <<M!gmailVars, mirror, state, seen, outbox, caughtUp, jobs, scans>> /\ M!Fault
  BY DEF M!RejectToken
<1> QED BY <1>1, <1>2, Counts, WentQuiet

LEMMA LoseHistoryKeeps ==
  ASSUME IInv, NEW w \in MailWorkers, M!LoseHistory(w)
  PROVE  IInv'
<1>1. M!TypeOK /\ "reset" \in Quiet /\ "ensure" \in Quiet
  BY DEF IInv, Quiet
<1>2. task[w].pc # "idle" /\ UNCHANGED <<M!gmailVars, mirror, state, seen, outbox, caughtUp, jobs, scans>>
  BY DEF M!LoseHistory
<1>3. syncFaults' \in 0..SyncFaults
  BY <1>1, Counts DEF M!LoseHistory
<1>4. CASE M!Scanning(w)
  <2>1. M!Goto(w, "reset")
    BY <1>4 DEF M!LoseHistory
  <2> QED BY <1>1, <1>2, <1>3, <2>1, Counts, WentQuiet
<1>5. CASE ~M!Scanning(w)
  <2>1. Steps(w, [M!Idle EXCEPT !.job = "delta", !.pc = "ensure"])
    BY <1>5 DEF M!LoseHistory, M!Rescan, Steps
  <2>2. Blank([M!Idle EXCEPT !.job = "delta", !.pc = "ensure"])
    BY <1>1, Blanks, Counts
  <2> QED BY <1>1, <1>2, <1>3, <2>1, <2>2, Counts, BlankStep
<1> QED BY <1>4, <1>5

LEMMA ListHistoryKeeps ==
  ASSUME IInv, NEW w \in MailWorkers, M!ListHistory(w)
  PROVE  IInv'
<1> DEFINE from == task[w].from
           t == [task[w] EXCEPT !.upto = M!Newer(from, now), !.gone = M!GoneSince(from),
                                !.changed = M!ChangedSince(from), !.added = M!AddedSince(from),
                                !.from = 0, !.pc = "remove"]
<1>0. M!TypeOK /\ RowHolds /\ GmailHolds /\ PagesHold /\ TaskHolds(task[w]) /\ task[w] \in M!Tasks /\ task[w].pc = "list"
  BY DEF IInv, M!TypeOK, M!ListHistory
<1>1. /\ from \in M!History /\ now \in M!History /\ from \in Nat /\ now \in Nat /\ from <= now
      /\ task[w].job = "delta" \/ (task[w].job = "reconcile" /\ task[w].gen # M!NoScan)
  BY <1>0, RowFields, TaskFields DEF TaskHolds, Sound, PushHolds, M!TypeOK, M!Tasks
<1>2. M!Newer(from, now) = now
  BY <1>1 DEF M!Newer
<1>3. /\ M!GoneSince(from) \subseteq Message /\ M!ChangedSince(from) \subseteq Message
      /\ M!AddedSince(from) \subseteq Message /\ 0 \in M!History
  BY ConstantsTyped DEF M!GoneSince, M!ChangedSince, M!AddedSince, M!There
<1>4. t \in M!Tasks
  BY <1>0, <1>1, <1>2, <1>3, FieldsTyped DEF PCs
<1>5. Steps(w, t)
  BY DEF M!ListHistory, Steps
<1>6. /\ t.upto = now /\ t.gone = M!GoneSince(from) /\ t.changed = M!ChangedSince(from)
      /\ t.added = M!AddedSince(from) /\ t.from = 0 /\ t.pc = "remove"
      /\ t.job = task[w].job /\ t.gen = task[w].gen /\ t.base = task[w].base /\ t.got = task[w].got
  BY <1>0, <1>2 DEF M!Tasks
<1> HIDE DEF t
<1>7. UNCHANGED <<M!gmailVars, mirror, state, seen, outbox, caughtUp, jobs, scans, syncFaults>>
  BY DEF M!ListHistory
<1>8. task'[w] = t /\ now' = now /\ gmail' = gmail /\ M!There' = M!There
  BY <1>0, <1>4, <1>5, <1>7, StepTyped, SameMail DEF M!gmailVars
<1>9. \A m \in M!There : /\ m \in Message /\ gmail[m].born \in Nat /\ gmail[m].ver \in Nat
                         /\ gmail[m].born <= gmail[m].ver
  BY <1>0, RowFields DEF M!There, GmailHolds
<1>10. Sound(task[w])'
  <2>1. \A m \in M!GoneSince(from) : gmail[m].died # 0
    BY <1>0, <1>1, RowFields DEF M!GoneSince
  <2> QED BY <1>0, <1>1, <1>6, <1>8, <2>1 DEF TaskHolds, Sound, Genuine
<1>11. DeltaHolds(task[w])'
  <2>1. \A m \in M!There : m \in M!ChangedSince(from) \/ Mirrored(m)
    BY <1>0, <1>1, <1>9, RowFields DEF TaskHolds, DeltaHolds, M!Covered, M!ChangedSince, Mirrored
  <2> QED BY <1>6, <1>7, <1>8, <2>1 DEF DeltaHolds, Mirrored
<1>12. ScanHolds(task[w])'
  <2>1. ASSUME task[w].gen # M!NoScan, task[w].gen = state.gen, NEW m \in M!There
        PROVE  m \in seen \/ m \in M!ChangedSince(from)
    <3>1. from = state.base /\ state.page = M!Done /\ state.gen # M!NoScan
      BY <1>0, <2>1 DEF TaskHolds, ScanHolds
    <3>2. gmail[m].born <= state.base => m \in seen
      BY <1>0, <2>1, <3>1 DEF PagesHold, Listed
    <3> QED BY <1>1, <1>9, <2>1, <3>1, <3>2 DEF M!ChangedSince
  <2> QED BY <1>6, <1>7, <1>8, <2>1 DEF ScanHolds
<1>13. PushHolds(task[w])'
  <2>1. M!AddedSince(from) \subseteq M!ChangedSince(from)
    BY <1>1, <1>9 DEF M!AddedSince, M!ChangedSince
  <2>2. task[w].job = "delta" => \A m \in M!There :
          caughtUp < gmail[m].born => m \in outbox \/ m \in M!AddedSince(from)
    BY <1>0, <1>1, <1>9 DEF TaskHolds, PushHolds, M!AddedSince
  <2> QED BY <1>1, <1>6, <1>7, <1>8, <2>1, <2>2 DEF PushHolds
<1>14. PageHolds(task[w])'
  BY <1>6, <1>8 DEF PageHolds
<1>15. TaskHolds(task[w])'
  BY <1>10, <1>11, <1>12, <1>13, <1>14 DEF TaskHolds
<1>16. mirror' \in [Message -> M!History] /\ MirrorGrows /\ Genuine(mirror)'
  BY <1>0, <1>7, Standing
<1> QED BY <1>0, <1>4, <1>5, <1>7, <1>15, <1>16, Counts, MailStep DEF M!TypeOK

LEMMA RemoveKeeps ==
  ASSUME IInv, NEW w \in MailWorkers, M!Remove(w)
  PROVE  IInv'
<1> DEFINE t == [task[w] EXCEPT !.gone = {}, !.pc = "hydrate"]
<1>0. M!TypeOK /\ RowHolds /\ TaskHolds(task[w]) /\ task[w] \in M!Tasks /\ task[w].pc = "remove"
  BY DEF IInv, M!TypeOK, M!Remove
<1>1. t \in M!Tasks
  BY <1>0, FieldsTyped DEF PCs
<1>2. Steps(w, t)
  BY DEF M!Remove, Steps
<1>3. /\ t.pc = "hydrate" /\ t.gone = {} /\ t.job = task[w].job /\ t.gen = task[w].gen /\ t.base = task[w].base
      /\ t.from = task[w].from /\ t.upto = task[w].upto /\ t.changed = task[w].changed
      /\ t.added = task[w].added /\ t.got = task[w].got
  BY <1>0 DEF M!Tasks
<1> HIDE DEF t
<1>4. /\ UNCHANGED <<M!gmailVars, state, seen, outbox, caughtUp, jobs, scans, syncFaults>>
      /\ mirror' = M!Without(task[w].gone)
  BY DEF M!Remove
<1>5. task'[w] = t /\ now' = now /\ gmail' = gmail /\ M!There' = M!There
  BY <1>0, <1>1, <1>2, <1>4, StepTyped, SameMail DEF IInv, M!gmailVars
<1>6. \A m \in M!There : mirror'[m] = mirror[m] /\ mirror[m] \in Nat
  <2>1. \A m \in M!There : m \in Message /\ m \notin task[w].gone
    BY <1>0 DEF M!There, M!Present, TaskHolds, Sound
  <2> QED BY <1>0, <1>4, <2>1, RowFields DEF M!Without
<1>7. mirror' \in [Message -> M!History] /\ MirrorGrows /\ Genuine(mirror)'
  <2>1. mirror' \in [Message -> M!History]
    BY <1>0, <1>4, ConstantsTyped DEF M!Without, M!TypeOK
  <2>2. \A m \in Message : mirror'[m] = 0 \/ mirror'[m] = mirror[m]
    BY <1>4 DEF M!Without
  <2> QED BY <1>0, <1>5, <1>6, <2>1, <2>2 DEF MirrorGrows, Genuine, RowHolds
<1>8. Sound(task[w])'
  BY <1>0, <1>3, <1>5 DEF TaskHolds, Sound, Genuine
<1>9. DeltaHolds(task[w])'
  BY <1>0, <1>3, <1>5, <1>6 DEF TaskHolds, DeltaHolds, Mirrored
<1>10. ScanHolds(task[w])'
  BY <1>0, <1>3, <1>4, <1>5 DEF TaskHolds, ScanHolds
<1>11. PushHolds(task[w])'
  BY <1>0, <1>3, <1>4, <1>5 DEF TaskHolds, PushHolds
<1>12. PageHolds(task[w])'
  BY <1>3, <1>5 DEF PageHolds
<1>13. TaskHolds(task[w])'
  BY <1>8, <1>9, <1>10, <1>11, <1>12 DEF TaskHolds
<1> QED BY <1>0, <1>1, <1>2, <1>4, <1>7, <1>13, Counts, MailStep DEF M!TypeOK

LEMMA HydrateKeeps ==
  ASSUME IInv, NEW w \in MailWorkers, M!Hydrate(w)
  PROVE  IInv'
<1> DEFINE ms == task[w].changed \cap M!There
           v == M!Payloads(ms)
           t == [task[w] EXCEPT !.got = v, !.changed = {}, !.pc = "store"]
<1>0. M!TypeOK /\ RowHolds /\ GmailHolds /\ TaskHolds(task[w]) /\ task[w] \in M!Tasks /\ task[w].pc = "hydrate"
      /\ ms \in SUBSET M!There
  BY DEF IInv, M!TypeOK, M!Hydrate
<1>1. UNCHANGED <<M!gmailVars, mirror, state, seen, outbox, caughtUp, jobs, scans, syncFaults>>
  BY DEF M!Hydrate
<1>2. CASE ~ (M!Scanning(w) \/ task[w].changed \subseteq M!There)
  <2>1. Steps(w, [M!Idle EXCEPT !.job = "delta", !.pc = "ensure"])
    BY <1>2 DEF M!Hydrate, M!Rescan, Steps
  <2>2. Blank([M!Idle EXCEPT !.job = "delta", !.pc = "ensure"])
    BY <1>0, Blanks, Counts DEF Quiet
  <2> QED BY <1>0, <1>1, <2>1, <2>2, Counts, BlankStep
<1>3. CASE M!Scanning(w) \/ task[w].changed \subseteq M!There
  <2>1. /\ v \in [Message -> M!History] /\ Genuine(v)
        /\ \A m \in task[w].changed : m \in M!There => v[m] = gmail[m].ver /\ v[m] # 0
    BY <1>0, PayloadsGenuine
  <2>2. Steps(w, t)
    BY <1>3 DEF M!Hydrate, Steps
  <2> HIDE DEF v
  <2>3. t \in M!Tasks
    BY <1>0, <2>1, FieldsTyped DEF PCs
  <2>4. /\ t.pc = "store" /\ t.got = v /\ t.job = task[w].job /\ t.gen = task[w].gen /\ t.base = task[w].base
        /\ t.from = task[w].from /\ t.upto = task[w].upto /\ t.gone = task[w].gone
        /\ t.added = task[w].added
    BY <1>0 DEF M!Tasks
  <2> HIDE DEF t
  <2>5. task'[w] = t /\ now' = now /\ gmail' = gmail /\ M!There' = M!There
    BY <1>0, <1>1, <2>2, <2>3, StepTyped, SameMail DEF M!gmailVars
  <2>6. \A m \in M!There : gmail[m].ver \in Nat
    BY <1>0, RowFields DEF M!There
  <2>7. Sound(task[w])'
    BY <1>0, <2>1, <2>4, <2>5 DEF TaskHolds, Sound, Genuine
  <2>8. DeltaHolds(task[w])'
    <3>1. \A m \in M!There : gmail[m].ver <= task[w].upto => gmail[m].ver <= v[m] \/ Mirrored(m)
      BY <1>0, <2>1, <2>6 DEF TaskHolds, DeltaHolds
    <3> QED BY <1>1, <2>4, <2>5, <3>1 DEF DeltaHolds, Mirrored
  <2>9. ScanHolds(task[w])'
    <3>1. task[w].gen # M!NoScan /\ task[w].gen = state.gen =>
            \A m \in M!There : gmail[m].born <= task[w].upto => m \in seen \/ v[m] # 0
      BY <1>0, <2>1 DEF TaskHolds, ScanHolds
    <3> QED BY <1>1, <2>4, <2>5, <3>1 DEF ScanHolds
  <2>10. PushHolds(task[w])'
    <3>1. task[w].job = "delta" => \A m \in task[w].added : v[m] # 0
      BY <1>0, <1>3, <2>1 DEF TaskHolds, PushHolds, M!Scanning
    <3> QED BY <1>0, <1>1, <2>4, <2>5, <3>1 DEF TaskHolds, PushHolds
  <2>11. PageHolds(task[w])'
    BY <2>4, <2>5 DEF PageHolds
  <2>12. TaskHolds(task[w])'
    BY <2>7, <2>8, <2>9, <2>10, <2>11 DEF TaskHolds
  <2>13. mirror' \in [Message -> M!History] /\ MirrorGrows /\ Genuine(mirror)'
    BY <1>0, <1>1, Standing
  <2> QED BY <1>0, <1>1, <2>2, <2>3, <2>12, <2>13, Counts, MailStep DEF M!TypeOK
<1> QED BY <1>2, <1>3

LEMMA StoreKeeps ==
  ASSUME IInv, NEW w \in MailWorkers, M!Store(w)
  PROVE  IInv'
<1> DEFINE to == IF M!Scanning(w) THEN "see" ELSE "push"
           t == [task[w] EXCEPT !.pc = to]
<1>0. M!TypeOK /\ RowHolds /\ GmailHolds /\ TaskHolds(task[w]) /\ task[w] \in M!Tasks /\ task[w].pc = "store"
      /\ task[w].got \in [Message -> M!History] /\ Genuine(task[w].got) /\ to \in PCs
  BY DEF IInv, M!TypeOK, M!Store, M!Tasks, TaskHolds, Sound, PCs
<1>1. /\ UNCHANGED <<M!gmailVars, state, seen, outbox, caughtUp, jobs, scans, syncFaults>>
      /\ mirror' = M!Upserted(task[w].got) /\ M!Goto(w, to)
  BY DEF M!Store
<1>2. /\ mirror' \in [Message -> M!History] /\ MirrorGrows /\ Genuine(mirror)'
      /\ \A m \in Message : task[w].got[m] <= mirror'[m] /\ mirror[m] <= mirror'[m]
  BY <1>0, <1>1, Upserting
<1>3. M!There' = M!There /\ now' = now /\ gmail' = gmail
  BY <1>0, <1>1, SameMail DEF M!gmailVars
<1>4. to \in {"see", "push"} /\ (to = "see" <=> task[w].job = "reconcile")
  BY DEF M!Scanning
<1> HIDE DEF to
<1>5. /\ t \in M!Tasks /\ Steps(w, t)
      /\ task'[w].pc = to /\ task'[w].job = task[w].job /\ task'[w].gen = task[w].gen
      /\ task'[w].base = task[w].base /\ task'[w].from = task[w].from
      /\ task'[w].upto = task[w].upto /\ task'[w].gone = task[w].gone
      /\ task'[w].added = task[w].added /\ task'[w].got = task[w].got
  BY <1>0, <1>1, Went
<1>6. Sound(task[w])'
  BY <1>0, <1>3, <1>5 DEF TaskHolds, Sound, Genuine
<1>7. DeltaHolds(task[w])'
  <2>1. \A m \in M!There : /\ m \in Message /\ gmail[m].ver \in Nat /\ task[w].got[m] \in Nat
                           /\ mirror[m] \in Nat /\ mirror'[m] \in Nat
    BY <1>0, <1>2, RowFields, TaskFields, ConstantsTyped DEF M!There, M!History
  <2>2. \A m \in M!There : gmail[m].ver <= task[w].upto => mirror'[m] >= gmail[m].ver
    BY <1>0, <1>2, <2>1 DEF TaskHolds, DeltaHolds, Mirrored
  <2> QED BY <1>3, <1>4, <1>5, <2>2 DEF DeltaHolds, M!Covered
<1>8. ScanHolds(task[w])'
  BY <1>0, <1>1, <1>3, <1>4, <1>5 DEF TaskHolds, ScanHolds
<1>9. PushHolds(task[w])'
  BY <1>0, <1>1, <1>3, <1>4, <1>5 DEF TaskHolds, PushHolds
<1>10. PageHolds(task[w])'
  BY <1>4, <1>5 DEF PageHolds
<1>11. TaskHolds(task[w])'
  BY <1>6, <1>7, <1>8, <1>9, <1>10 DEF TaskHolds
<1> HIDE DEF t
<1> QED BY <1>0, <1>1, <1>2, <1>5, <1>11, Counts, MailStep DEF M!TypeOK

LEMMA PushKeeps ==
  ASSUME IInv, NEW w \in MailWorkers, M!Push(w)
  PROVE  IInv'
<1> DEFINE t == [task[w] EXCEPT !.added = {}, !.got = M!Nothing, !.pc = "publish"]
<1>0. M!TypeOK /\ RowHolds /\ GmailHolds /\ TaskHolds(task[w]) /\ task[w] \in M!Tasks /\ task[w].pc = "push"
      /\ M!Nothing \in [Message -> M!History]
  BY ConstantsTyped DEF IInv, M!TypeOK, M!Push, M!Nothing
<1>1. t \in M!Tasks
  BY <1>0, FieldsTyped DEF PCs
<1>2. Steps(w, t)
  BY DEF M!Push, Steps
<1>3. /\ t.pc = "publish" /\ t.got = M!Nothing /\ t.job = task[w].job /\ t.base = task[w].base
      /\ t.from = task[w].from /\ t.upto = task[w].upto /\ t.gone = task[w].gone
  BY <1>0 DEF M!Tasks
<1> HIDE DEF t
<1>4. /\ UNCHANGED <<M!gmailVars, mirror, state, seen, caughtUp, jobs, scans, syncFaults>>
      /\ outbox' = outbox \cup (task[w].added \cap M!Carried(task[w].got))
  BY DEF M!Push
<1>5. task'[w] = t /\ now' = now /\ gmail' = gmail /\ M!There' = M!There
  BY <1>0, <1>1, <1>2, <1>4, StepTyped, SameMail DEF M!gmailVars
<1>6. outbox \subseteq outbox' /\ outbox' \subseteq Message
  BY <1>0, <1>4 DEF M!TypeOK, M!Carried
<1>7. Sound(task[w])'
  BY <1>0, <1>3, <1>5 DEF TaskHolds, Sound, Genuine, M!Nothing
<1>8. DeltaHolds(task[w])'
  BY <1>0, <1>3, <1>4, <1>5 DEF TaskHolds, DeltaHolds, M!Covered
<1>9. PushHolds(task[w])'
  <2>1. \A m \in M!There : caughtUp < gmail[m].born /\ gmail[m].born <= task[w].upto => m \in outbox'
    BY <1>0, <1>4 DEF TaskHolds, PushHolds, M!Carried, M!There
  <2> QED BY <1>3, <1>4, <1>5, <2>1 DEF PushHolds
<1>10. PageHolds(task[w])' /\ ScanHolds(task[w])'
  BY <1>3, <1>5 DEF PageHolds, ScanHolds
<1>11. TaskHolds(task[w])'
  BY <1>7, <1>8, <1>9, <1>10 DEF TaskHolds
<1>12. mirror' \in [Message -> M!History] /\ MirrorGrows /\ Genuine(mirror)'
  BY <1>0, <1>4, Standing
<1> QED BY <1>0, <1>1, <1>2, <1>4, <1>6, <1>11, <1>12, Counts, MailStep DEF M!TypeOK

LEMMA FetchPageKeeps ==
  ASSUME IInv, NEW w \in MailWorkers, M!FetchPage(w)
  PROVE  IInv'
<1> DEFINE to == IF task[w].gen = M!Bootstrap THEN "check" ELSE "rows"
           mine == {m \in M!Old(task[w].base) : PageOf[m] = task[w].page}
<1>0. M!TypeOK /\ RowHolds /\ GmailHolds /\ TaskHolds(task[w]) /\ task[w] \in M!Tasks /\ task[w].pc = "page"
      /\ to \in PCs
  BY DEF IInv, M!TypeOK, M!FetchPage, PCs
<1>1. UNCHANGED <<M!gmailVars, mirror, state, seen, outbox, caughtUp, jobs, scans, syncFaults>>
  BY DEF M!FetchPage
<1>2. PICK late \in SUBSET (M!There \ M!Old(task[w].base)) :
        Steps(w, [task[w] EXCEPT !.got = M!Payloads(late \cup mine), !.pc = to])
  BY DEF M!FetchPage, Steps
<1> DEFINE v == M!Payloads(late \cup mine)
           t == [task[w] EXCEPT !.got = v, !.pc = to]
<1>3. /\ v \in [Message -> M!History] /\ Genuine(v)
      /\ \A m \in late \cup mine : v[m] = gmail[m].ver /\ v[m] # 0
  BY <1>0, PayloadsGenuine DEF M!Old
<1>4. Steps(w, t)
  BY <1>2
<1> HIDE DEF v
<1>5. to \in {"check", "rows"} /\ (to = "check" <=> task[w].gen = M!Bootstrap)
  OBVIOUS
<1> HIDE DEF to
<1>6. t \in M!Tasks
  BY <1>0, <1>3, FieldsTyped
<1>7. /\ t.pc = to /\ t.got = v /\ t.job = task[w].job /\ t.gen = task[w].gen /\ t.base = task[w].base
      /\ t.from = task[w].from /\ t.upto = task[w].upto /\ t.gone = task[w].gone /\ t.page = task[w].page
  BY <1>0 DEF M!Tasks
<1> HIDE DEF t
<1>8. task'[w] = t /\ now' = now /\ gmail' = gmail /\ M!There' = M!There
  BY <1>0, <1>1, <1>4, <1>6, StepTyped, SameMail DEF M!gmailVars
<1>9. Sound(task[w])'
  BY <1>0, <1>3, <1>7, <1>8 DEF TaskHolds, Sound, Genuine
<1>10. PageHolds(task[w])'
  <2>1. \A m \in M!There : gmail[m].born <= task[w].base /\ PageOf[m] = task[w].page =>
          v[m] # 0 /\ gmail[m].ver = v[m] /\ gmail[m].ver \in Nat
    BY <1>0, <1>3, RowFields DEF M!Old, M!There
  <2>2. task[w].gen # M!NoScan /\ task[w].page # M!Done /\ (task[w].gen = state.gen => task[w].base = state.base)
    BY <1>0 DEF TaskHolds, PageHolds
  <2> QED BY <1>1, <1>5, <1>7, <1>8, <2>1, <2>2 DEF PageHolds
<1>11. DeltaHolds(task[w])' /\ ScanHolds(task[w])' /\ PushHolds(task[w])'
  BY <1>5, <1>7, <1>8 DEF DeltaHolds, ScanHolds, PushHolds
<1>12. TaskHolds(task[w])'
  BY <1>9, <1>10, <1>11 DEF TaskHolds
<1>13. mirror' \in [Message -> M!History] /\ MirrorGrows /\ Genuine(mirror)'
  BY <1>0, <1>1, Standing
<1> QED BY <1>0, <1>1, <1>4, <1>6, <1>12, <1>13, Counts, MailStep DEF M!TypeOK

LEMMA KeepRowsKeeps ==
  ASSUME IInv, NEW w \in MailWorkers, M!KeepRows(w)
  PROVE  IInv'
<1> DEFINE t == [task[w] EXCEPT !.pc = "check"]
<1>0. M!TypeOK /\ RowHolds /\ GmailHolds /\ TaskHolds(task[w]) /\ task[w] \in M!Tasks /\ task[w].pc = "rows"
      /\ task[w].got \in [Message -> M!History] /\ Genuine(task[w].got) /\ "check" \in PCs
  BY DEF IInv, M!TypeOK, M!KeepRows, M!Tasks, TaskHolds, Sound, PCs
<1>1. /\ UNCHANGED <<M!gmailVars, state, seen, outbox, caughtUp, jobs, scans, syncFaults>>
      /\ mirror' = M!Upserted(task[w].got) /\ M!Goto(w, "check")
  BY DEF M!KeepRows
<1>2. /\ mirror' \in [Message -> M!History] /\ MirrorGrows /\ Genuine(mirror)'
      /\ \A m \in Message : task[w].got[m] <= mirror'[m] /\ mirror[m] <= mirror'[m]
  BY <1>0, <1>1, Upserting
<1>3. M!There' = M!There /\ now' = now /\ gmail' = gmail
  BY <1>0, <1>1, SameMail DEF M!gmailVars
<1>4. /\ t \in M!Tasks /\ Steps(w, t)
      /\ task'[w].pc = "check" /\ task'[w].job = task[w].job /\ task'[w].gen = task[w].gen
      /\ task'[w].base = task[w].base /\ task'[w].page = task[w].page /\ task'[w].from = task[w].from
      /\ task'[w].upto = task[w].upto /\ task'[w].gone = task[w].gone /\ task'[w].got = task[w].got
  BY <1>0, <1>1, Went
<1>5. Sound(task[w])'
  BY <1>0, <1>3, <1>4 DEF TaskHolds, Sound, Genuine
<1>6. PageHolds(task[w])'
  <2>1. \A m \in M!There : gmail[m].born <= task[w].base /\ PageOf[m] = task[w].page =>
          task[w].got[m] # 0 /\ (gmail[m].ver <= task[w].base => gmail[m].ver <= task[w].got[m])
    BY <1>0 DEF TaskHolds, PageHolds
  <2>2. \A m \in M!There : gmail[m].ver <= task[w].base /\ PageOf[m] = task[w].page => gmail[m].ver <= mirror'[m]
    <3>1. \A m \in M!There : /\ m \in Message /\ gmail[m].ver \in Nat /\ gmail[m].born \in Nat
                             /\ gmail[m].born <= gmail[m].ver /\ task[w].got[m] \in Nat /\ mirror'[m] \in Nat
      BY <1>0, <1>2, RowFields, TaskFields, ConstantsTyped DEF M!There, M!History, GmailHolds
    <3> QED BY <1>0, <1>2, <2>1, <3>1, TaskFields
  <2>3. task[w].gen # M!NoScan /\ task[w].page # M!Done /\ (task[w].gen = state.gen => task[w].base = state.base)
    BY <1>0 DEF TaskHolds, PageHolds
  <2> QED BY <1>1, <1>3, <1>4, <2>1, <2>2, <2>3 DEF PageHolds, Mirrored
<1>7. DeltaHolds(task[w])' /\ ScanHolds(task[w])' /\ PushHolds(task[w])'
  BY <1>4 DEF DeltaHolds, ScanHolds, PushHolds
<1>8. TaskHolds(task[w])'
  BY <1>5, <1>6, <1>7 DEF TaskHolds
<1> HIDE DEF t
<1> QED BY <1>0, <1>1, <1>2, <1>4, <1>8, Counts, MailStep DEF M!TypeOK

LEMMA SeeKeeps ==
  ASSUME IInv, NEW w \in MailWorkers, M!See(w)
  PROVE  IInv'
<1> DEFINE t == [task[w] EXCEPT !.got = M!Nothing, !.pc = "finish"]
<1>0. M!TypeOK /\ RowHolds /\ GmailHolds /\ TaskHolds(task[w]) /\ task[w] \in M!Tasks /\ task[w].pc = "see"
      /\ M!Nothing \in [Message -> M!History] /\ "finish" \in PCs
  BY ConstantsTyped DEF IInv, M!TypeOK, M!See, M!Nothing, PCs
<1>1. UNCHANGED <<M!gmailVars, mirror, state, outbox, caughtUp, jobs, scans, syncFaults>>
  BY DEF M!See
<1>2. CASE ~ (M!Carried(task[w].got) = {} \/ M!Current(w, M!Done))
  <2>1. Steps(w, M!Idle) /\ seen' = seen
    BY <1>2 DEF M!See, M!Stop, Steps
  <2>2. Blank(M!Idle)
    BY <1>0, Blanks
  <2> QED BY <1>0, <1>1, <2>1, <2>2, Counts, BlankStep
<1>3. CASE M!Carried(task[w].got) = {} \/ M!Current(w, M!Done)
  <2>1. Steps(w, t) /\ seen' = seen \cup M!Carried(task[w].got)
    BY <1>3 DEF M!See, Steps
  <2>2. t \in M!Tasks
    BY <1>0, FieldsTyped
  <2>3. /\ t.pc = "finish" /\ t.got = M!Nothing /\ t.job = task[w].job /\ t.base = task[w].base /\ t.gen = task[w].gen
        /\ t.from = task[w].from /\ t.upto = task[w].upto /\ t.gone = task[w].gone
    BY <1>0 DEF M!Tasks
  <2> HIDE DEF t
  <2>4. task'[w] = t /\ now' = now /\ gmail' = gmail /\ M!There' = M!There
    BY <1>0, <1>1, <2>1, <2>2, StepTyped, SameMail DEF M!gmailVars
  <2>5. seen \subseteq seen' /\ seen' \subseteq Message
    BY <1>0, <2>1 DEF M!TypeOK, M!Carried
  <2>6. Sound(task[w])'
    BY <1>0, <2>3, <2>4 DEF TaskHolds, Sound, Genuine, M!Nothing
  <2>7. DeltaHolds(task[w])'
    BY <1>0, <1>1, <2>3, <2>4 DEF TaskHolds, DeltaHolds, M!Covered
  <2>8. ScanHolds(task[w])'
    <3>1. task[w].gen # M!NoScan /\ task[w].gen = state.gen =>
            \A m \in M!There : gmail[m].born <= task[w].upto => m \in seen'
      BY <1>0, <2>1 DEF TaskHolds, ScanHolds, M!Carried, M!There
    <3> QED BY <1>1, <2>3, <2>4, <3>1 DEF ScanHolds
  <2>9. PageHolds(task[w])' /\ PushHolds(task[w])'
    BY <1>0, <2>3, <2>4 DEF TaskHolds, PageHolds, PushHolds
  <2>10. TaskHolds(task[w])'
    BY <2>6, <2>7, <2>8, <2>9 DEF TaskHolds
  <2>11. mirror' \in [Message -> M!History] /\ MirrorGrows /\ Genuine(mirror)'
    BY <1>0, <1>1, Standing
  <2> QED BY <1>0, <1>1, <2>1, <2>2, <2>5, <2>10, <2>11, Counts, MailStep DEF M!TypeOK
<1> QED BY <1>2, <1>3

-----------------------------------------------------------------------------
(* The steps that change the state row.                                     *)
LEMMA RowStep ==
  ASSUME IInv, NEW w \in MailWorkers, NEW t \in M!Tasks, Steps(w, t), UNCHANGED M!gmailVars,
         mirror' \in [Message -> M!History], MirrorGrows, OutboxGrows, caughtUp' \in M!History,
         state' \in M!States, seen' \subseteq Message, outbox' \subseteq Message,
         jobs' \subseteq M!Kinds, scans' \in 0..MaxScans, syncFaults' \in 0..SyncFaults
  PROVE  /\ M!TypeOK' /\ Grows /\ GmailHolds' /\ now' = now /\ gmail' = gmail /\ M!There' = M!There
         /\ task'[w] = t /\ \A x \in MailWorkers \ {w} : task'[x] = task[x]
<1>1. M!TypeOK /\ GmailHolds
  BY DEF IInv
<1>2. task' \in [MailWorkers -> M!Tasks] /\ task'[w] = t /\ \A x \in MailWorkers \ {w} : task'[x] = task[x]
  BY <1>1, StepTyped
<1>3. M!TypeOK'
  BY <1>1, <1>2 DEF M!TypeOK, M!gmailVars
<1>4. MailGrows /\ GmailHolds' /\ M!There' = M!There
  BY <1>1, SameMail
<1> QED BY <1>2, <1>3, <1>4 DEF Grows, M!gmailVars

LEMMA BlankHolds ==
  ASSUME NEW w \in MailWorkers, Blank(task'[w]), M!TypeOK, now' = now
  PROVE  TaskHolds(task[w])'
<1>1. 0 <= now
  BY RowFields
<1>2. Sound(task[w])'
  BY <1>1, BlankSound DEF Blank
<1> QED BY <1>2, QuietHolds DEF Blank

LEMMA PublishedRow ==
  ASSUME M!TypeOK, NEW h \in M!History
  PROVE  /\ M!Published(h) \in M!States /\ M!Published(h).auth = TRUE
         /\ M!Published(h).gen = state.gen /\ M!Published(h).base = state.base /\ M!Published(h).page = state.page
         /\ M!Published(h).last = h \/ (state.auth /\ M!Published(h).last = state.last /\ h <= state.last)
         /\ h <= M!Published(h).last
<1>1. state \in M!States /\ state.last \in M!History /\ state.auth \in BOOLEAN
  BY DEF M!TypeOK, M!States
<1> DEFINE last == IF state.auth THEN M!Newer(state.last, h) ELSE h
<1>2. last \in M!History /\ h <= last /\ (last = h \/ (state.auth /\ last = state.last /\ h <= state.last))
  BY <1>1, ConstantsTyped DEF M!Newer, M!History
<1>3. M!Published(h) = [state EXCEPT !.last = last, !.auth = TRUE]
  BY <1>1 DEF M!Published, M!States
<1> HIDE DEF last
<1> QED BY <1>1, <1>2, <1>3 DEF M!States

LEMMA PublishKeeps ==
  ASSUME IInv, NEW w \in MailWorkers, M!Publish(w)
  PROVE  IInv'
<1> DEFINE h == task[w].upto
<1>0. M!TypeOK /\ RowHolds /\ TaskHolds(task[w]) /\ task[w].pc = "publish" /\ h \in M!History /\ h \in Nat /\ h <= now
  BY TaskFields DEF IInv, M!TypeOK, M!Publish, M!Tasks, TaskHolds, Sound
<1>1. /\ UNCHANGED <<M!gmailVars, mirror, seen, outbox, caughtUp, jobs, scans, syncFaults>>
      /\ state' = M!Published(h) /\ Steps(w, M!Idle) /\ Blank(M!Idle)
  BY <1>0, Blanks DEF M!Publish, M!Stop, Steps
<1>2. mirror' \in [Message -> M!History] /\ MirrorGrows /\ Genuine(mirror)'
  BY <1>0, <1>1, Standing
<1>3. OutboxGrows
  BY <1>0, <1>1, RowFields DEF OutboxGrows
<1>4. /\ M!TypeOK' /\ Grows /\ GmailHolds' /\ now' = now /\ gmail' = gmail /\ M!There' = M!There
      /\ task'[w] = M!Idle /\ \A x \in MailWorkers \ {w} : task'[x] = task[x]
  BY <1>0, <1>1, <1>2, <1>3, PublishedRow, IdleTyped, Counts, RowStep DEF M!TypeOK
<1>5. /\ state'.auth /\ state'.gen = state.gen /\ state'.base = state.base /\ state'.page = state.page
      /\ state'.last = h \/ (state.auth /\ state'.last = state.last)
  BY <1>0, <1>1, PublishedRow
<1>6. RowHolds'
  BY <1>0, <1>2, <1>4, <1>5 DEF RowHolds
<1>7. PagesHold'
  BY <1>1, <1>4, <1>5 DEF PagesHold, Listed, Mirrored, IInv
<1>8. M!NothingLost'
  BY <1>0, <1>1, <1>4, <1>5 DEF M!NothingLost, M!Covered, IInv, TaskHolds, DeltaHolds
<1>9. M!PushedBeforePassed'
  <2>1. \A m \in M!There : gmail[m].born \in Nat /\ caughtUp \in Nat
    BY <1>0, RowFields DEF M!There
  <2> QED BY <1>0, <1>1, <1>4, <1>5, <2>1 DEF M!PushedBeforePassed, IInv, TaskHolds, PushHolds
<1>10. TaskHolds(task[w])'
  BY <1>0, <1>1, <1>4, BlankHolds
<1>11. \A x \in MailWorkers : ScanGoesOn(task[x])
  BY <1>1, <1>5 DEF ScanGoesOn
<1> QED BY <1>4, <1>6, <1>7, <1>8, <1>9, <1>10, <1>11, Frame

LEMMA ResetKeeps ==
  ASSUME IInv, NEW w \in MailWorkers, M!Reset(w)
  PROVE  IInv'
<1> DEFINE t == [M!Idle EXCEPT !.job = "reconcile", !.pc = "hand"]
<1>0. M!TypeOK /\ RowHolds
  BY DEF IInv
<1>1. UNCHANGED <<M!gmailVars, mirror, outbox, caughtUp, jobs, scans, syncFaults>> /\ Steps(w, t)
  BY DEF M!Reset, Steps
<1>2. Blank(t) /\ t \in M!Tasks
  BY <1>0, Blanks, Counts DEF Quiet, Blank
<1> HIDE DEF t
<1>3. CASE state.gen # task[w].gen
  <2>1. UNCHANGED <<state, seen>>
    BY <1>3 DEF M!Reset
  <2> QED BY <1>0, <1>1, <1>2, <2>1, Counts, BlankStep
<1>4. CASE state.gen = task[w].gen
  <2>1. state' = [state EXCEPT !.gen = M!NoScan, !.page = M!Done, !.base = 0, !.auth = FALSE] /\ seen' = {}
    BY <1>4 DEF M!Reset
  <2>2. state' \in M!States /\ state'.gen = M!NoScan /\ state'.base = 0 /\ state'.last = state.last /\ ~state'.auth
    BY <1>0, <2>1, ConstantsTyped DEF M!TypeOK, M!States
  <2>3. mirror' \in [Message -> M!History] /\ MirrorGrows /\ Genuine(mirror)'
    BY <1>0, <1>1, Standing
  <2>4. OutboxGrows
    BY <1>0, <1>1, RowFields DEF OutboxGrows
  <2>5. /\ M!TypeOK' /\ Grows /\ GmailHolds' /\ now' = now
        /\ task'[w] = t /\ \A x \in MailWorkers \ {w} : task'[x] = task[x]
    BY <1>0, <1>1, <1>2, <2>1, <2>2, <2>3, <2>4, Counts, RowStep DEF M!TypeOK
  <2>6. RowHolds' /\ PagesHold' /\ M!NothingLost' /\ M!PushedBeforePassed'
    BY <1>0, <2>2, <2>3, <2>5, RowFields DEF RowHolds, PagesHold, M!NothingLost, M!PushedBeforePassed
  <2>7. TaskHolds(task[w])'
    BY <1>0, <1>2, <2>5, BlankHolds
  <2>8. \A x \in MailWorkers : ScanGoesOn(task[x])
    BY <2>2 DEF ScanGoesOn
  <2> QED BY <2>5, <2>6, <2>7, <2>8, Frame
<1> QED BY <1>3, <1>4

(* What a finished scan sweeps is no row of a message that is there.        *)
LEMMA SweepSpares ==
  ASSUME IInv, NEW w \in MailWorkers, task[w].pc = "finish", M!Current(w, M!Done), NEW m \in M!There,
         m \in M!Swept(task[w].upto)
  PROVE  mirror[m] = 0
<1>1. M!TypeOK /\ RowHolds /\ TaskHolds(task[w]) /\ task[w].upto \in Nat
  BY TaskFields DEF IInv
<1>2. m \in Message /\ m \notin seen /\ mirror[m] <= task[w].upto
  BY DEF M!Swept
<1>3. gmail[m].born <= task[w].upto => m \in seen
  BY <1>1 DEF M!Current, TaskHolds, ScanHolds, PushHolds
<1>4. mirror[m] # 0 => gmail[m].born <= mirror[m]
  BY <1>1, <1>2 DEF RowHolds, Genuine
<1> QED BY <1>1, <1>2, <1>3, <1>4, RowFields

(* Nor does a delta delete one.                                             *)
LEMMA DeletionSpares ==
  ASSUME IInv, NEW w \in MailWorkers, NEW m \in M!There
  PROVE  m \notin task[w].gone
  BY DEF IInv, TaskHolds, Sound, M!There, M!Present

LEMMA FinishKeeps ==
  ASSUME IInv, NEW w \in MailWorkers, M!Finish(w)
  PROVE  IInv'
<1> DEFINE h == task[w].upto
<1>0. M!TypeOK /\ RowHolds /\ TaskHolds(task[w]) /\ task[w].pc = "finish" /\ h \in M!History /\ h \in Nat /\ h <= now
      /\ caughtUp \in M!History
  BY TaskFields DEF IInv, M!TypeOK, M!Finish, M!Tasks, TaskHolds, Sound
<1>1. UNCHANGED <<M!gmailVars, outbox, jobs, scans, syncFaults>> /\ Steps(w, M!Idle) /\ Blank(M!Idle)
  BY <1>0, Blanks DEF M!Finish, M!Stop, Steps
<1>2. CASE ~ M!Current(w, M!Done)
  <2>1. UNCHANGED <<mirror, state, seen, caughtUp>>
    BY <1>2 DEF M!Finish
  <2> QED BY <1>0, <1>1, <2>1, Counts, BlankStep
<1>3. CASE M!Current(w, M!Done)
  <2>1. /\ mirror' = M!Without(M!Swept(h)) /\ state' = M!Concluded(h) /\ seen' = {}
        /\ caughtUp' = M!Newer(caughtUp, h)
    BY <1>3 DEF M!Finish
  <2>2. /\ state' \in M!States /\ state'.gen = M!NoScan /\ state'.base = 0 /\ state'.auth
        /\ state'.last = h \/ (state.auth /\ state'.last = state.last)
    <3> DEFINE p == M!Published(h)
    <3>1. p \in M!States /\ p.auth = TRUE /\ (p.last = h \/ (state.auth /\ p.last = state.last))
      BY <1>0, PublishedRow
    <3>2. state' = [p EXCEPT !.gen = M!NoScan, !.base = 0, !.pending = FALSE]
      BY <2>1 DEF M!Concluded
    <3> HIDE DEF p
    <3> QED BY <3>1, <3>2, ConstantsTyped DEF M!States
  <2>3. \A m \in M!There : mirror'[m] = mirror[m]
    <3>1. \A m \in M!There : m \in Message /\ (m \in M!Swept(h) => mirror[m] = 0)
      BY <1>0, <1>3, SweepSpares DEF M!There
    <3> QED BY <2>1, <3>1 DEF M!Without
  <2>4. mirror' \in [Message -> M!History] /\ MirrorGrows /\ Genuine(mirror)'
    <3>1. mirror' \in [Message -> M!History]
      BY <1>0, <2>1, ConstantsTyped DEF M!Without, M!TypeOK
    <3>2. \A m \in Message : mirror'[m] = 0 \/ mirror'[m] = mirror[m]
      BY <2>1 DEF M!Without
    <3>3. \A m \in M!There : mirror[m] \in Nat
      BY <1>0, RowFields DEF M!There
    <3> QED BY <1>0, <1>1, <2>3, <3>1, <3>2, <3>3 DEF MirrorGrows, Genuine, RowHolds, M!gmailVars
  <2>5. OutboxGrows /\ caughtUp' \in M!History /\ caughtUp <= caughtUp' /\ h <= caughtUp'
    BY <1>0, <1>1, <2>1, NewerTyped DEF OutboxGrows
  <2>6. /\ M!TypeOK' /\ Grows /\ GmailHolds' /\ now' = now /\ gmail' = gmail /\ M!There' = M!There
        /\ task'[w] = M!Idle /\ \A x \in MailWorkers \ {w} : task'[x] = task[x]
    BY <1>0, <1>1, <2>1, <2>2, <2>4, <2>5, IdleTyped, Counts, RowStep DEF M!TypeOK
  <2>7. RowHolds' /\ PagesHold'
    BY <1>0, <2>2, <2>4, <2>6, RowFields DEF RowHolds, PagesHold
  <2>8. M!NothingLost'
    BY <1>0, <2>2, <2>3, <2>6 DEF M!NothingLost, M!Covered, IInv, TaskHolds, DeltaHolds
  <2>9. M!PushedBeforePassed'
    <3>1. \A m \in M!There : gmail[m].born \in Nat
      BY <1>0, RowFields DEF M!There
    <3>2. caughtUp \in Nat /\ caughtUp' \in Nat
      BY <2>5, <1>0, ConstantsTyped DEF M!History
    <3> QED BY <1>0, <1>1, <2>2, <2>5, <2>6, <3>1, <3>2 DEF M!PushedBeforePassed, IInv
  <2>10. TaskHolds(task[w])'
    BY <1>0, <1>1, <2>6, BlankHolds
  <2>11. \A x \in MailWorkers : ScanGoesOn(task[x])
    BY <2>2 DEF ScanGoesOn
  <2> QED BY <2>6, <2>7, <2>8, <2>9, <2>10, <2>11, Frame
<1> QED BY <1>2, <1>3

LEMMA StartKeeps ==
  ASSUME ~StaleRestart, IInv, NEW w \in MailWorkers, M!Start(w)
  PROVE  IInv'
<1> DEFINE after == [task[w] EXCEPT !.pc = "recent"]
           t == IF task[w].job = "reconcile" THEN M!Resume(state'.gen, state'.base, state'.page) ELSE after
<1>0. M!TypeOK /\ RowHolds /\ PagesHold /\ TaskHolds(task[w]) /\ task[w] \in M!Tasks /\ task[w].pc = "start"
      /\ task[w].base \in M!History /\ task[w].base <= now /\ state \in M!States
  BY DEF IInv, M!TypeOK, M!Start, TaskHolds, Sound, M!Tasks
<1>1. UNCHANGED <<M!gmailVars, mirror, outbox, caughtUp, jobs, syncFaults>> /\ Steps(w, t)
  BY DEF M!Start, Steps
<1>2. /\ state' \in M!States /\ scans' \in 0..MaxScans /\ seen' \subseteq Message
      /\ state'.gen # M!NoScan
      /\ state'.base <= now /\ state'.last = state.last
      /\ \/ state' = state /\ seen' = seen
         \/ /\ seen' = {} /\ ~state'.auth /\ state'.page = 1
            /\ \A x \in MailWorkers : task[x].gen # state'.gen
  <2>1. CASE state.gen = M!NoScan
    <3>1. /\ scans < MaxScans /\ scans' = scans + 1 /\ seen' = {}
          /\ state' = [state EXCEPT !.auth = FALSE, !.gen = M!Name, !.page = 1, !.base = task[w].base]
          /\ \A x \in MailWorkers : task[x].gen # M!Name
      BY <2>1 DEF M!Start, M!MayRestart
    <3>2. scans \in 0..MaxScans
      BY <1>0 DEF M!TypeOK
    <3>3. M!Name \in M!Scans /\ M!Name # M!NoScan
      BY <3>1, <3>2, ConstantsTyped DEF M!Name, M!Scans, M!NoScan, M!Bootstrap
    <3>4. scans' \in 0..MaxScans
      BY <3>1, <3>2, ConstantsTyped
    <3>5. /\ state' \in M!States /\ state'.gen = M!Name /\ state'.base = task[w].base
          /\ state'.last = state.last /\ ~state'.auth /\ state'.page = 1
      BY <1>0, <3>1, <3>3, ConstantsTyped DEF M!States
    <3> QED BY <1>0, <3>1, <3>3, <3>4, <3>5
  <2>2. CASE state.gen # M!NoScan
    <3>1. UNCHANGED <<scans, seen, state>>
      BY <2>2 DEF M!Start
    <3> QED BY <1>0, <2>2, <3>1 DEF M!TypeOK, RowHolds
  <2> QED BY <2>1, <2>2
<1>3. t \in M!Tasks
  <2>1. after \in M!Tasks
    BY <1>0, FieldsTyped DEF PCs
  <2>2. M!Resume(state'.gen, state'.base, state'.page) \in M!Tasks
    BY <1>2, ResumeTyped DEF M!States
  <2> QED BY <2>1, <2>2
<1>4. mirror' \in [Message -> M!History] /\ MirrorGrows /\ Genuine(mirror)'
  BY <1>0, <1>1, Standing
<1>5. OutboxGrows
  BY <1>0, <1>1, RowFields DEF OutboxGrows
<1>6. after.pc = "recent" /\ after.job = task[w].job /\ after.base = task[w].base /\ after.from = task[w].from
      /\ after.upto = task[w].upto /\ after.gone = task[w].gone /\ after.got = task[w].got
  BY <1>0 DEF M!Tasks
<1>7. /\ task[w].job = "reconcile" => t = M!Resume(state'.gen, state'.base, state'.page)
      /\ task[w].job # "reconcile" => t = after
  OBVIOUS
<1> HIDE DEF t, after
<1>8. /\ M!TypeOK' /\ Grows /\ GmailHolds' /\ now' = now /\ gmail' = gmail /\ M!There' = M!There
      /\ task'[w] = t /\ \A x \in MailWorkers \ {w} : task'[x] = task[x]
  BY <1>0, <1>1, <1>2, <1>3, <1>4, <1>5, Counts, RowStep DEF M!TypeOK
<1>9. RowHolds'
  BY <1>0, <1>2, <1>4, <1>8 DEF RowHolds
<1>10. PagesHold' /\ M!NothingLost' /\ M!PushedBeforePassed'
  <2>1. CASE state' = state /\ seen' = seen
    BY <1>1, <1>8, <2>1 DEF IInv, PagesHold, Listed, Mirrored, M!NothingLost, M!Covered, M!PushedBeforePassed
  <2>2. CASE ~state'.auth /\ state'.page = 1
    <3>1. \A m \in M!There : PageOf[m] \in Nat /\ 1 <= PageOf[m]
      BY ConstantsTyped DEF M!There
    <3> QED BY <1>8, <2>2, <3>1 DEF PagesHold, Listed, M!NothingLost, M!PushedBeforePassed, M!Done
  <2> QED BY <1>2, <2>1, <2>2
<1>11. TaskHolds(task[w])'
  <2>1. CASE task[w].job = "reconcile"
    BY <1>2, <1>7, <1>8, <1>9, <1>10, <2>1, ResumeHolds
  <2>2. CASE task[w].job # "reconcile"
    <3>1. Sound(task[w])'
      BY <1>0, <1>6, <1>7, <1>8, <2>2 DEF TaskHolds, Sound, Genuine
    <3> QED BY <1>6, <1>7, <1>8, <2>2, <3>1, QuietHolds DEF Quiet
  <2> QED BY <2>1, <2>2
<1>12. \A x \in MailWorkers : ScanGoesOn(task[x])
  BY <1>2 DEF ScanGoesOn
<1> QED BY <1>8, <1>9, <1>10, <1>11, <1>12, Frame

LEMMA CheckpointKeeps ==
  ASSUME IInv, NEW w \in MailWorkers, M!Checkpoint(w)
  PROVE  IInv'
<1> DEFINE g == task[w].got
           page == task[w].page
<1>0. /\ M!TypeOK /\ RowHolds /\ PagesHold /\ GmailHolds /\ TaskHolds(task[w]) /\ task[w] \in M!Tasks
      /\ task[w].pc = "check" /\ g \in [Message -> M!History] /\ Genuine(g) /\ state \in M!States
      /\ page \in 0..Pages /\ task[w].base \in M!History /\ task[w].gen \in M!Scans
  BY DEF IInv, M!TypeOK, M!Checkpoint, TaskHolds, Sound, M!Tasks
<1>1. UNCHANGED <<M!gmailVars, outbox, caughtUp, jobs, scans, syncFaults>>
  BY DEF M!Checkpoint
<1>2. CASE ~ M!Current(w, page)
  <2>1. Steps(w, M!Idle) /\ UNCHANGED <<state, seen, mirror>>
    BY <1>2 DEF M!Checkpoint, M!Stop, Steps
  <2>2. Blank(M!Idle)
    BY <1>0, Blanks
  <2> QED BY <1>0, <1>1, <2>1, <2>2, Counts, BlankStep
<1>3. CASE M!Current(w, page)
  <2>1. /\ state.gen = task[w].gen /\ state.page = page /\ task[w].gen # M!NoScan /\ page # M!Done
        /\ task[w].base = state.base
        /\ \A m \in M!There : gmail[m].born <= state.base /\ PageOf[m] = page =>
             g[m] # 0 /\ (gmail[m].ver <= state.base => gmail[m].ver <= g[m])
        /\ task[w].gen # M!Bootstrap => \A m \in M!There :
             gmail[m].ver <= state.base /\ PageOf[m] = page => Mirrored(m)
    BY <1>0, <1>3 DEF M!Current, TaskHolds, PageHolds
  <2>2. /\ state' = [state EXCEPT !.page = M!Following(page)]
        /\ seen' = seen \cup M!Carried(g)
        /\ mirror' = IF task[w].gen = M!Bootstrap THEN M!Upserted(g) ELSE mirror
    BY <1>0, <1>3, <2>1 DEF M!Checkpoint, M!RowsWith, M!States
  <2>3. /\ state' \in M!States /\ state'.gen = state.gen /\ state'.base = state.base
        /\ state'.last = state.last /\ state'.auth = state.auth /\ state'.page = M!Following(page)
    BY <1>0, <2>2, FollowingTyped DEF M!States
  <2>4. seen \subseteq seen' /\ seen' \subseteq Message
    BY <1>0, <2>2 DEF M!TypeOK, M!Carried
  <2>5. /\ mirror' \in [Message -> M!History] /\ MirrorGrows /\ Genuine(mirror)'
        /\ task[w].gen = M!Bootstrap => \A m \in Message : g[m] <= mirror'[m]
    <3>1. CASE task[w].gen = M!Bootstrap
      BY <1>0, <1>1, <2>2, <3>1, Upserting
    <3>2. CASE task[w].gen # M!Bootstrap
      BY <1>0, <1>1, <2>2, <3>2, Standing
    <3> QED BY <3>1, <3>2
  <2>6. OutboxGrows
    BY <1>0, <1>1, RowFields DEF OutboxGrows
  <2> DEFINE on == M!Resume(task[w].gen, task[w].base, M!Following(page))
             hand == [M!Idle EXCEPT !.job = "reconcile", !.pc = "hand"]
  <2>7. Steps(w, on) \/ Steps(w, hand)
    BY <1>3 DEF M!Checkpoint, Steps
  <2>8. on \in M!Tasks /\ hand \in M!Tasks /\ Blank(hand)
    BY <1>0, ResumeTyped, FollowingTyped, Blanks, Counts DEF Quiet, Blank
  <2>9. on = M!Resume(state'.gen, state'.base, state'.page)
    BY <2>1, <2>3
  <2> HIDE DEF on, hand
  <2>10. PICK t \in {on, hand} : Steps(w, t)
    BY <2>7
  <2>11. t \in M!Tasks
    BY <2>8
  <2>12. /\ M!TypeOK' /\ Grows /\ GmailHolds' /\ now' = now /\ gmail' = gmail /\ M!There' = M!There
         /\ task'[w] = t /\ \A x \in MailWorkers \ {w} : task'[x] = task[x]
    BY <1>0, <1>1, <2>3, <2>4, <2>5, <2>6, <2>10, <2>11, Counts, RowStep DEF M!TypeOK
  <2>13. RowHolds'
    BY <1>0, <2>3, <2>5, <2>12 DEF RowHolds
  <2>14. \A m \in M!There : /\ m \in Message /\ gmail[m].ver \in Nat /\ gmail[m].born \in Nat /\ g[m] \in Nat
                            /\ mirror[m] \in Nat /\ mirror'[m] \in Nat /\ mirror[m] <= mirror'[m]
                            /\ gmail[m].born <= gmail[m].ver /\ PageOf[m] \in 1..Pages
    BY <1>0, <2>5, RowFields, TaskFields, ConstantsTyped DEF M!There, M!History, MirrorGrows, GmailHolds
  <2>15. PagesHold'
    <3>1. SUFFICES ASSUME NEW m \in M!There, M!Following(page) = M!Done \/ PageOf[m] < M!Following(page)
                   PROVE  /\ gmail[m].born <= state.base => m \in seen'
                          /\ gmail[m].ver <= state.base => gmail[m].ver <= mirror'[m]
      BY <2>3, <2>12 DEF PagesHold, Listed, Mirrored
    <3>2. PageOf[m] < page \/ PageOf[m] = page
      BY <1>0, <2>1, <2>14, <3>1, ConstantsTyped DEF M!Following, M!Done
    <3>3. CASE PageOf[m] < page
      <4>1. /\ gmail[m].born <= state.base => m \in seen
            /\ gmail[m].ver <= state.base => gmail[m].ver <= mirror[m]
        BY <1>0, <2>1, <3>3 DEF PagesHold, Listed, Mirrored
      <4> QED BY <2>4, <2>14, <4>1
    <3>4. CASE PageOf[m] = page
      <4>1. gmail[m].born <= state.base => m \in seen'
        BY <2>1, <2>2, <2>14, <3>4 DEF M!Carried
      <4>2. ASSUME gmail[m].ver <= state.base PROVE gmail[m].ver <= mirror'[m]
        <5>1. CASE task[w].gen # M!Bootstrap
          BY <2>1, <2>14, <3>4, <4>2, <5>1 DEF Mirrored
        <5>2. CASE task[w].gen = M!Bootstrap
          <6>1. gmail[m].born <= state.base
            BY <1>0, <2>14, <4>2, RowFields
          <6>2. gmail[m].ver <= g[m] /\ g[m] <= mirror'[m]
            BY <2>1, <2>5, <2>14, <3>4, <4>2, <5>2, <6>1
          <6> QED BY <2>14, <6>2
        <5> QED BY <5>1, <5>2
      <4> QED BY <4>1, <4>2
    <3> QED BY <3>2, <3>3, <3>4
  <2>16. M!NothingLost'
    <3>1. \A m \in M!There : mirror[m] >= gmail[m].ver => mirror'[m] >= gmail[m].ver
      BY <2>14
    <3> QED BY <2>3, <2>12, <3>1 DEF IInv, M!NothingLost, M!Covered
  <2>17. M!PushedBeforePassed'
    BY <1>1, <2>3, <2>12 DEF IInv, M!PushedBeforePassed
  <2>18. TaskHolds(task[w])'
    <3>1. CASE t = on
      BY <2>1, <2>3, <2>9, <2>12, <2>13, <2>15, <3>1, ResumeHolds
    <3>2. CASE t = hand
      BY <1>0, <2>8, <2>12, <3>2, BlankHolds
    <3> QED BY <3>1, <3>2
  <2>19. \A x \in MailWorkers : ScanGoesOn(task[x])
    BY <2>1, <2>3, <2>4 DEF ScanGoesOn
  <2> QED BY <2>12, <2>13, <2>15, <2>16, <2>17, <2>18, <2>19, Frame
<1> QED BY <1>2, <1>3

-----------------------------------------------------------------------------
(* The steps of Gmail and of the queue change no row and no task.           *)
LEMMA WorldStep ==
  ASSUME IInv, M!TypeOK', GmailHolds', MailGrows, UNCHANGED <<mirror, state, seen, outbox, caughtUp, task>>
  PROVE  IInv'
<1>1. \A m \in M!There : mirror[m] \in Nat
  BY RowFields DEF IInv, M!There
<1>2. caughtUp \in Nat /\ now \in Nat /\ now' \in Nat /\ state.last \in Nat /\ state.base \in Nat
  BY RowFields, ConstantsTyped DEF IInv, M!TypeOK, M!History
<1>3. Grows
  BY <1>1, <1>2 DEF Grows, MirrorGrows, OutboxGrows
<1>4. RowHolds'
  BY <1>2, GenuineAfter DEF IInv, RowHolds, MailGrows, Genuine
<1>5. PagesHold' /\ M!NothingLost' /\ M!PushedBeforePassed'
  BY <1>3, RowsStand DEF IInv
<1>6. \A x \in MailWorkers : TaskHolds(task[x])'
  BY <1>3, Unmoved DEF IInv, ScanGoesOn
<1> QED BY <1>4, <1>5, <1>6 DEF IInv

LEMMA ChangeKeeps ==
  ASSUME IInv, NEW m \in Message, M!Arrive(m) \/ M!Relabel(m) \/ M!Expunge(m)
  PROVE  IInv'
<1>0. M!TypeOK /\ GmailHolds /\ gmail[m] \in M!Mails
  BY DEF IInv, M!TypeOK
<1>1. /\ now' = now + 1 /\ now' \in M!History /\ now \in Nat
      /\ UNCHANGED <<floor, mirror, state, seen, outbox, caughtUp, jobs, task, scans, syncFaults>>
  BY <1>0, ConstantsTyped DEF M!Arrive, M!Relabel, M!Expunge, M!Tick, M!Others, M!TypeOK, M!History
<1>2. PICK g \in M!Mails :
        /\ gmail' = [gmail EXCEPT ![m] = g]
        /\ \/ gmail[m].born = 0 /\ g.born = now + 1 /\ g.ver = now + 1 /\ g.died = 0
           \/ M!Present(m) /\ g.born = gmail[m].born /\ g.ver = now + 1 /\ g.died = 0
           \/ M!Present(m) /\ g.born = gmail[m].born /\ g.ver = gmail[m].ver /\ g.died = now + 1
  <2>1. CASE M!Arrive(m)
    <3> DEFINE g == [born |-> now + 1, died |-> 0, ver |-> now + 1]
    <3>1. g \in M!Mails /\ gmail' = [gmail EXCEPT ![m] = g] /\ gmail[m].born = 0
      BY <1>1, <2>1, ConstantsTyped DEF M!Arrive, M!Mails
    <3> QED BY <3>1
  <2>2. CASE M!Relabel(m)
    <3> DEFINE g == [gmail[m] EXCEPT !.ver = now + 1]
    <3>1. gmail' = [gmail EXCEPT ![m] = g] /\ M!Present(m)
      BY <2>2 DEF M!Relabel
    <3>2. g \in M!Mails /\ g.born = gmail[m].born /\ g.ver = now + 1 /\ g.died = gmail[m].died
      BY <1>0, <1>1 DEF M!Mails
    <3> HIDE DEF g
    <3> QED BY <3>1, <3>2 DEF M!Present
  <2>3. CASE M!Expunge(m)
    <3> DEFINE g == [gmail[m] EXCEPT !.died = now + 1]
    <3>1. gmail' = [gmail EXCEPT ![m] = g] /\ M!Present(m)
      BY <2>3 DEF M!Expunge
    <3>2. g \in M!Mails /\ g.born = gmail[m].born /\ g.ver = gmail[m].ver /\ g.died = now + 1
      BY <1>0, <1>1 DEF M!Mails
    <3> HIDE DEF g
    <3> QED BY <3>1, <3>2
  <2> QED BY <2>1, <2>2, <2>3
<1>3. gmail' \in [Message -> M!Mails] /\ gmail'[m] = g /\ \A n \in Message \ {m} : gmail'[n] = gmail[n]
  BY <1>0, <1>2 DEF M!TypeOK
<1>4. M!TypeOK'
  BY <1>0, <1>1, <1>3 DEF M!TypeOK
<1>5. MailGrows
  BY <1>0, <1>1, <1>2, <1>3, RowFields DEF MailGrows, M!Present
<1>6. GmailHolds'
  <2>1. ASSUME NEW n \in Message
        PROVE  /\ gmail'[n].died # 0 => gmail'[n].born # 0
               /\ gmail'[n].born # 0 /\ gmail'[n].died = 0 =>
                    gmail'[n].born <= gmail'[n].ver /\ gmail'[n].ver <= now'
    <3>1. /\ gmail[n].died # 0 => gmail[n].born # 0
          /\ gmail[n].born # 0 /\ gmail[n].died = 0 => gmail[n].born <= gmail[n].ver /\ gmail[n].ver <= now
          /\ gmail[n].born \in Nat /\ gmail[n].ver \in Nat
      BY <1>0, RowFields DEF GmailHolds, M!Present
    <3>2. CASE n # m
      BY <1>1, <1>3, <3>1, <3>2
    <3>3. CASE n = m
      BY <1>1, <1>2, <1>3, <3>1, <3>3 DEF M!Present
    <3> QED BY <3>2, <3>3
  <2> QED BY <2>1 DEF GmailHolds, M!Present
<1> QED BY <1>1, <1>4, <1>5, <1>6, WorldStep

LEMMA QueueKeeps ==
  ASSUME IInv, M!ForgetHistory \/ M!Poll \/ M!Notify \/ M!Ask \/ UNCHANGED M!vars
  PROVE  IInv'
<1>0. M!TypeOK /\ GmailHolds
  BY DEF IInv
<1>1. UNCHANGED <<gmail, now, mirror, state, seen, outbox, caughtUp, task, scans>>
  BY DEF M!ForgetHistory, M!Poll, M!Notify, M!Ask, M!vars, M!gmailVars
<1>2. floor' \in M!History /\ jobs' \subseteq M!Kinds /\ syncFaults' \in 0..SyncFaults
  <2>1. M!Wanted \in M!Kinds /\ M!Asked \in M!Kinds
    BY DEF M!Wanted, M!Asked, M!Kinds
  <2> QED BY <1>0, <2>1, Counts DEF M!ForgetHistory, M!Poll, M!Notify, M!Ask, M!vars, M!gmailVars, M!TypeOK
<1>3. M!TypeOK'
  BY <1>0, <1>1, <1>2 DEF M!TypeOK
<1>4. MailGrows /\ GmailHolds'
  <2>1. now <= now'
    BY <1>0, <1>1, RowFields
  <2> QED BY <1>0, <1>1, <2>1 DEF MailGrows, GmailHolds, M!Present
<1> QED BY <1>1, <1>3, <1>4, WorldStep

LEMMA StepKeepsIInv == ~StaleRestart /\ IInv /\ [M!Next]_(M!vars) => IInv'
<1> SUFFICES ASSUME ~StaleRestart, IInv, [M!Next]_(M!vars) PROVE IInv'
  OBVIOUS
<1>1. CASE M!Mailbox \/ M!Poll \/ M!Notify \/ M!Ask \/ UNCHANGED M!vars
  BY <1>1, ChangeKeeps, QueueKeeps DEF M!Mailbox
<1>2. ASSUME NEW w \in MailWorkers, M!Begin(w) PROVE IInv'
  BY <1>2, BeginDeltaKeeps, BeginImportKeeps, BeginReconcileKeeps DEF M!Begin
<1>3. ASSUME NEW w \in MailWorkers, M!Work(w) PROVE IInv'
  BY <1>3, EnsureKeeps, StartKeeps, FetchRecentKeeps, KeepRecentKeeps, HandOverKeeps, ListHistoryKeeps,
     RemoveKeeps, HydrateKeeps, StoreKeeps, PushKeeps, PublishKeeps, FetchPageKeeps, KeepRowsKeeps,
     CheckpointKeeps, SeeKeeps, FinishKeeps, ResetKeeps DEF M!Work
<1>4. ASSUME NEW w \in MailWorkers, M!LoseHistory(w) \/ M!RejectToken(w) \/ M!Fail(w) PROVE IInv'
  BY <1>4, LoseHistoryKeeps, RejectTokenKeeps, FailKeeps
<1> QED BY <1>1, <1>2, <1>3, <1>4 DEF M!Next

-----------------------------------------------------------------------------
(* No step takes the row of a message that is there, or puts it back.       *)
LEMMA StepKeepsRows == IInv /\ [M!Next]_(M!vars) => MirrorGrows
<1> SUFFICES ASSUME IInv, [M!Next]_(M!vars) PROVE MirrorGrows
  OBVIOUS
<1>0. M!TypeOK
  BY DEF IInv
<1>1. \A m \in M!There : m \in Message /\ mirror[m] \in Nat
  BY <1>0, RowFields DEF M!There
<1>2. ASSUME mirror' = mirror PROVE MirrorGrows
  BY <1>1, <1>2 DEF MirrorGrows
<1>3. ASSUME NEW w \in MailWorkers, mirror' = M!Upserted(task[w].got) PROVE MirrorGrows
  <2>1. task[w].got \in [Message -> M!History]
    BY <1>0 DEF M!TypeOK, M!Tasks
  <2> QED BY <1>0, <1>1, <1>3, <2>1, UpsertedTyped DEF MirrorGrows
<1>4. ASSUME NEW w \in MailWorkers, M!Remove(w) PROVE MirrorGrows
  BY <1>1, <1>4, DeletionSpares DEF M!Remove, M!Without, MirrorGrows
<1>5. ASSUME NEW w \in MailWorkers, M!Finish(w) PROVE MirrorGrows
  <2>1. CASE M!Current(w, M!Done)
    <3>1. mirror' = M!Without(M!Swept(task[w].upto)) /\ task[w].pc = "finish"
      BY <1>5, <2>1 DEF M!Finish
    <3>2. \A m \in M!There : m \in M!Swept(task[w].upto) => mirror[m] = 0
      BY <2>1, <3>1, SweepSpares
    <3> QED BY <1>1, <3>1, <3>2 DEF M!Without, MirrorGrows
  <2>2. CASE ~ M!Current(w, M!Done)
    BY <1>2, <1>5, <2>2 DEF M!Finish
  <2> QED BY <2>1, <2>2
<1>6. ASSUME NEW w \in MailWorkers, M!Work(w) PROVE MirrorGrows
  <2>1. CASE M!KeepRecent(w) \/ M!Store(w) \/ M!KeepRows(w)
    BY <1>3, <2>1 DEF M!KeepRecent, M!Store, M!KeepRows
  <2>2. CASE M!Checkpoint(w)
    <3>1. mirror' = mirror \/ mirror' = M!Upserted(task[w].got)
      BY <2>2 DEF M!Checkpoint, M!RowsWith
    <3> QED BY <1>2, <1>3, <3>1
  <2>3. CASE M!Ensure(w) \/ M!Start(w) \/ M!FetchRecent(w) \/ M!HandOver(w) \/ M!ListHistory(w)
    BY <1>2, <2>3 DEF M!Ensure, M!Start, M!FetchRecent, M!HandOver, M!ListHistory
  <2>4. CASE M!Hydrate(w) \/ M!Push(w) \/ M!Publish(w) \/ M!FetchPage(w) \/ M!See(w) \/ M!Reset(w)
    BY <1>2, <2>4 DEF M!Hydrate, M!Push, M!Publish, M!FetchPage, M!See, M!Reset
  <2> QED BY <1>4, <1>5, <1>6, <2>1, <2>2, <2>3, <2>4 DEF M!Work
<1>7. ASSUME NEW w \in MailWorkers, M!Begin(w) PROVE mirror' = mirror
  BY <1>7 DEF M!Begin, M!BeginDelta, M!BeginImport, M!BeginReconcile
<1>8. ASSUME NEW w \in MailWorkers, M!LoseHistory(w) \/ M!RejectToken(w) \/ M!Fail(w) PROVE mirror' = mirror
  BY <1>8 DEF M!LoseHistory, M!RejectToken, M!Fail
<1>9. CASE M!Mailbox \/ M!Poll \/ M!Notify \/ M!Ask \/ UNCHANGED M!vars
  BY <1>2, <1>9 DEF M!Mailbox, M!Arrive, M!Relabel, M!Expunge, M!Others, M!ForgetHistory, M!Poll, M!Notify, M!Ask, M!vars
<1> QED BY <1>2, <1>6, <1>7, <1>8, <1>9 DEF M!Next

-----------------------------------------------------------------------------
LEMMA InitIInv == M!Init => IInv
<1> SUFFICES ASSUME M!Init PROVE IInv
  OBVIOUS
<1>1. \A m \in Message : /\ gmail[m] \in M!Mails /\ gmail[m].died = 0
                         /\ gmail[m].born \in {0, 1} /\ gmail[m].ver = gmail[m].born
                         /\ m \in Initially => gmail[m].born = 1
  BY ConstantsTyped DEF M!Init, M!Mails
<1>2. gmail \in [Message -> M!Mails]
  BY <1>1 DEF M!Init
<1>3. PICK first \in SUBSET Initially : mirror = [m \in Message |-> IF m \in first THEN 1 ELSE 0]
  BY DEF M!Init
<1>4. mirror \in [Message -> M!History] /\ Genuine(mirror)
  BY <1>1, <1>3, ConstantsTyped DEF Genuine
<1>5. /\ state \in M!States /\ state.last = 0 /\ ~state.auth /\ state.base <= 1
      /\ state.gen # M!NoScan => state.page = 1
  <2>1. CASE state = [last |-> 0, auth |-> FALSE, gen |-> M!Bootstrap, page |-> 1, base |-> 1, pending |-> TRUE]
    BY <2>1, ConstantsTyped DEF M!States
  <2>2. CASE state = [last |-> 0, auth |-> FALSE, gen |-> M!NoScan, page |-> M!Done, base |-> 0, pending |-> TRUE]
    BY <2>2, ConstantsTyped DEF M!States
  <2> QED BY <2>1, <2>2 DEF M!Init
<1>6. M!TypeOK
  <2>1. task \in [MailWorkers -> M!Tasks]
    BY IdleTyped DEF M!Init
  <2>2. scans \in 0..MaxScans /\ syncFaults \in 0..SyncFaults
    BY ConstantsTyped DEF M!Init
  <2> QED BY <1>2, <1>4, <1>5, <2>1, <2>2, ConstantsTyped DEF M!Init, M!TypeOK
<1>7. GmailHolds
  BY <1>1 DEF M!Init, GmailHolds, M!Present
<1>8. RowHolds
  BY <1>4, <1>5 DEF M!Init, RowHolds
<1>9. PagesHold
  <2>1. \A m \in M!There : PageOf[m] \in Nat /\ 1 <= PageOf[m]
    BY ConstantsTyped DEF M!There
  <2> QED BY <1>5, <2>1 DEF PagesHold, Listed, M!Done
<1>10. M!NothingLost /\ M!PushedBeforePassed
  BY <1>5 DEF M!NothingLost, M!PushedBeforePassed
<1>11. ASSUME NEW w \in MailWorkers PROVE TaskHolds(task[w])
  <2>1. /\ task[w].pc = "idle" /\ task[w].gone = {} /\ task[w].got = M!Nothing
        /\ task[w].base = 0 /\ task[w].from = 0 /\ task[w].upto = 0 /\ now = 1
    BY DEF M!Init, M!Idle
  <2>2. Sound(task[w])
    BY <2>1 DEF Sound, Genuine, M!Nothing
  <2> QED BY <2>1, <2>2 DEF TaskHolds, DeltaHolds, PageHolds, ScanHolds, PushHolds
<1> QED BY <1>6, <1>7, <1>8, <1>9, <1>10, <1>11 DEF IInv

(* The types, and with them everything the steps rely on, hold for any      *)
(* number of workers, messages, pages and faults, when no scan restarts     *)
(* under a name that a worker still holds.                                  *)
THEOREM MailIsKept ==
  ASSUME ~StaleRestart
  PROVE  M!Spec => []IInv
<1>1. IInv /\ [M!Next]_(M!vars) => IInv'
  BY StepKeepsIInv
<1> QED
  BY <1>1, InitIInv, PTL DEF M!Spec

(* The cursor that a delta sync or a reconciliation publishes has passed no *)
(* change of a message that the mirror misses (mark_history_delta_completed, *)
(* finalize_gmail_reconciliation), whatever ran beside it, failed or died.  *)
THEOREM CursorPassesNothing ==
  ASSUME ~StaleRestart
  PROVE  M!Spec => []NothingLost
<1>1. IInv => NothingLost
  BY DEF IInv, NothingLost
<1> QED
  BY <1>1, MailIsKept, PTL

(* No sweep (finalize_gmail_reconciliation) and no deletion                 *)
(* (delete_gmail_messages) takes the row of a message Gmail still has.      *)
THEOREM ScansSpareRows ==
  ASSUME ~StaleRestart
  PROVE  M!Spec => RowsOutliveScans
<1>1. ASSUME IInv, [M!Next]_(M!vars) PROVE \A m \in M!There : mirror[m] # 0 => mirror'[m] # 0
  <2>1. MirrorGrows
    BY <1>1, StepKeepsRows
  <2>2. \A m \in M!There : mirror[m] \in Nat
    BY <1>1, RowFields DEF IInv, M!There
  <2> QED BY <2>1, <2>2 DEF MirrorGrows
<1>2. IInv /\ [M!Next]_(M!vars) => [\A m \in M!There : mirror[m] # 0 => mirror'[m] # 0]_(M!vars)
  BY <1>1
<1> QED
  BY <1>2, MailIsKept, PTL DEF M!Spec, M!RowsOutliveScans, RowsOutliveScans

(* A message that the cursor passed and that no finished scan caught up with *)
(* has its push in the outbox (queue_new_mail before                        *)
(* mark_history_delta_completed).                                           *)
THEOREM PushesPrecedeTheCursor ==
  ASSUME ~StaleRestart
  PROVE  M!Spec => []M!PushedBeforePassed
<1>1. IInv => M!PushedBeforePassed
  BY DEF IInv
<1> QED
  BY <1>1, MailIsKept, PTL

-----------------------------------------------------------------------------
(* Setting up a mailbox (ProgressiveImport, the part I of MC_MailSync).     *)
(*                                                                          *)
(* That the window agrees with the row is inductive as it stands.  What     *)
(* begins a complete window anew rests on an order: a listing comes to its   *)
(* end only once the jobs that go on with a bootstrap are over, none of them *)
(* is queued again while the window is complete, and until the history is    *)
(* complete the generation a bootstrap finds in the row is the one the      *)
(* progress follows.  A first run that finds another restarts both, window   *)
(* and history, so it leaves no history complete behind an open window.     *)

Booting == {"progress", "list", "discover", "pending", "commit", "next", "complete"}

(* What the task of a worker relies on: a bootstrap works under a           *)
(* generation, and the progress follows one once it is past that step.      *)
TasksKnown ==
    \A w \in MailWorkers :
        /\ work[w].pc # "idle" => work[w].job \in I!Jobs
        /\ work[w].pc \in Booting => work[w].job \in I!Boot /\ work[w].gen # I!NoGen
        /\ work[w].pc \in Booting \ {"progress"} => row.sync # I!NoGen

(* Before the progress follows a generation no bootstrap goes on from        *)
(* another; a complete window has a generation; while the history is         *)
(* pending, a reconciliation in progress is the one the progress follows.   *)
RowKnown ==
    /\ row.sync = I!NoGen => ~I!Active(I!Successors)
    /\ row.window => row.sync # I!NoGen /\ row.first
    /\ row.sync # I!NoGen /\ row.rec # I!NoGen /\ ~row.meta => row.rec = row.sync

(* What was listed to its end is stored.                                    *)
ListedIsStored == row.listed => threads \subseteq kept

(* No bootstrap goes on from another, and none is between the listing of a   *)
(* window and its last batch.                                               *)
Filling == {"list", "discover", "commit", "next"}
NoneFills ==
    /\ ~I!Active(I!Successors)
    /\ \A w \in MailWorkers : work[w].pc \notin Filling

(* A reconciliation comes to its end, and the history with it, after the    *)
(* window is filled, unless it overtook a bootstrap.                        *)
BootstrapsFirst == ~overtaken /\ (row.listed \/ row.meta) => row.window /\ NoneFills

ImportInv ==
    /\ I!TypeOK
    /\ SetupIsTrue /\ ListedIsStored
    /\ TasksKnown /\ RowKnown /\ BootstrapsFirst

LEMMA ImportCardinality == \A S : I!Cardinality(S) = Cardinality(S) /\ I!IsFiniteSet(S) = IsFiniteSet(S)
  BY DEF I!Cardinality, Cardinality, I!IsFiniteSet, IsFiniteSet

LEMMA CountIsTyped ==
  ASSUME NEW S \in SUBSET Conversations
  PROVE  I!Cardinality(S) \in 0..I!Cardinality(Conversations)
<1>1. IsFiniteSet(Conversations)
  BY SetupAssumption, ImportCardinality DEF I!ImportAssumption
<1>2. Cardinality(S) \in Nat /\ Cardinality(Conversations) \in Nat /\ Cardinality(S) <= Cardinality(Conversations)
  BY <1>1, FS_Subset, FS_CardinalityType
<1> QED BY <1>2, ImportCardinality

LEMMA InitImportInv == I!Init => ImportInv
<1> SUFFICES ASSUME I!Init PROVE ImportInv
  OBVIOUS
<1>0. PICK f, a \in BOOLEAN :
        row = [rec |-> 0, threads |-> FALSE, listed |-> FALSE, sync |-> 0, count |-> 0,
               window |-> FALSE, meta |-> FALSE, first |-> f, auth |-> a]
  <2>1. CASE row = I!NewAccount
    BY <2>1 DEF I!NewAccount, I!NoGen
  <2>2. ASSUME NEW auth \in BOOLEAN, row = [I!NewAccount EXCEPT !.first = TRUE, !.auth = auth]
        PROVE  row = [rec |-> 0, threads |-> FALSE, listed |-> FALSE, sync |-> 0, count |-> 0,
                      window |-> FALSE, meta |-> FALSE, first |-> TRUE, auth |-> auth]
    BY <2>2 DEF I!NewAccount, I!NoGen
  <2> QED BY <2>1, <2>2 DEF I!Init
<1>1. I!TypeOK
  <2>1. 0 \in 0..I!Cardinality(Conversations)
    BY CountIsTyped, FS_EmptySet, ImportCardinality
  <2>2. 0 \in 0..MaxGen /\ 0 \in 0..ImportFaults
    BY SetupAssumption DEF I!ImportAssumption
  <2>3. row \in I!Rows
    BY <1>0, <2>1, <2>2 DEF I!Rows, I!Gens
  <2>4. I!Idle \in I!Tasks
    BY <2>2 DEF I!Idle, I!Tasks, I!Gens, I!NoGen
  <2>5. work \in [MailWorkers -> I!Tasks]
    BY <2>4 DEF I!Init
  <2>6. kept \in SUBSET Conversations /\ queue \in SUBSET I!Jobs
    BY DEF I!Init, I!Jobs, I!Boot, I!FirstRuns
  <2> QED BY <2>2, <2>3, <2>5, <2>6 DEF I!Init, I!TypeOK, I!Gens
<1>a. entries = {} /\ filed = {} /\ \A w \in MailWorkers : work[w] = I!Idle
  BY DEF I!Init
<1>2. SetupIsTrue
  BY <1>0, <1>a, FS_EmptySet, ImportCardinality DEF SetupIsTrue, I!WindowAgrees, I!CompleteHistory
<1>3. ListedIsStored /\ TasksKnown
  BY <1>0, <1>a DEF ListedIsStored, TasksKnown, I!Idle, Booting
<1>4. RowKnown
  <2>1. queue \subseteq {"signin"}
    BY DEF I!Init
  <2> QED BY <1>0, <1>a, <2>1 DEF RowKnown, I!Active, I!Idle, I!Successors, I!NoGen
<1>5. BootstrapsFirst
  BY <1>0 DEF BootstrapsFirst
<1> QED BY <1>1, <1>2, <1>3, <1>4, <1>5 DEF ImportInv

(* ---- types -------------------------------------------------------------- *)

LEMMA ImportStepTyped ==
  ASSUME ImportInv, [I!Next]_(I!vars)
  PROVE  I!TypeOK'
<1> USE DEF I!bounds, I!window, I!NoGen, I!FirstRuns, I!Successors
<1>0. I!TypeOK /\ TasksKnown /\ SetupIsTrue
  BY DEF ImportInv
<1>a. MaxGen \in Nat \ {0} /\ ImportFaults \in Nat /\ 0 \in I!Gens
  BY SetupAssumption DEF I!ImportAssumption, I!Gens
<1>g. \A g \in I!Gens : g # 0 => g \in 1..MaxGen
  BY <1>a DEF I!Gens
<1>b. I!Idle \in I!Tasks
  BY <1>a DEF I!Idle, I!Tasks
<1>c. \A w \in MailWorkers : I!Stop(w) => work' \in [MailWorkers -> I!Tasks]
  BY <1>0, <1>b DEF I!Stop, I!TypeOK
<1>1. ASSUME NEW w \in MailWorkers, NEW k \in I!Jobs, I!Begin(w, k) PROVE I!TypeOK'
  <2> DEFINE p == IF row.rec = 0 /\ (k # "import" \/ ~row.auth) THEN "start"
                             ELSE CASE k \in I!Boot -> "progress"
                                    [] k = "import" -> IF row.auth THEN "poll" ELSE "recent"
                                    [] k = "reconcile" -> IF row.listed THEN "finish" ELSE "page"
  <2>1. p \in {"start", "progress", "poll", "recent", "finish", "page"}
    BY DEF I!Jobs
  <2>2. work' = [work EXCEPT ![w] = [I!Idle EXCEPT !.job = k, !.gen = row.rec, !.pc = p]]
    BY <1>1 DEF I!Begin
  <2> HIDE DEF p
  <2>3. [I!Idle EXCEPT !.job = k, !.gen = row.rec, !.pc = p] \in I!Tasks
    BY <1>0, <2>1 DEF I!TypeOK, I!Rows, I!Idle, I!Tasks
  <2>4. work' \in [MailWorkers -> I!Tasks]
    BY <1>0, <2>2, <2>3 DEF I!TypeOK
  <2> QED BY <1>0, <1>1, <2>4 DEF I!Begin, I!Claim, I!TypeOK
<1>2. ASSUME NEW w \in MailWorkers, I!Start(w) PROVE I!TypeOK'
  <2> DEFINE g == IF I!Pending THEN row.sync ELSE gens + 1
             b == (work[w].job \in I!Boot \/ I!Pending)
  <2>a. b \in BOOLEAN
    OBVIOUS
  <2>1. row' \in I!Rows /\ gens' \in I!Gens
    <3>1. CASE row.rec = 0
      <4>1. g \in I!Gens /\ gens' \in I!Gens
        BY <1>0, <1>2, <1>a, <3>1 DEF I!Start, I!TypeOK, I!Rows, I!Gens
      <4>2. row' = [row EXCEPT !.rec = g, !.threads = b, !.listed = FALSE, !.auth = FALSE]
        BY <1>2, <3>1 DEF I!Start
      <4> HIDE DEF g, b
      <4> QED BY <1>0, <2>a, <4>1, <4>2 DEF I!TypeOK, I!Rows
    <3>2. CASE row.rec # 0
      BY <1>0, <1>2, <3>2 DEF I!Start, I!TypeOK
    <3> QED BY <3>1, <3>2
  <2> HIDE DEF g, b
  <2> DEFINE p == CASE work[w].pc = "start" /\ work[w].job \in I!Boot -> "progress"
                                        [] work[w].job = "import" -> "recent"
                                        [] work[w].job = "reconcile" -> IF row'.listed THEN "finish" ELSE "page"
  <2>2. p \in {"progress", "recent", "finish", "page"}
    BY <1>0, <1>2 DEF I!Start, TasksKnown, I!Jobs
  <2>3. work' = [work EXCEPT ![w].gen = row'.rec, ![w].pc = p]
    BY <1>0, <1>2 DEF I!Start, I!TypeOK, I!Tasks
  <2> HIDE DEF p
  <2>4. work' \in [MailWorkers -> I!Tasks]
    <3>1. row'.rec \in I!Gens
      BY <2>1 DEF I!Rows
    <3> QED BY <1>0, <2>2, <2>3, <3>1 DEF I!TypeOK, I!Tasks
  <2> QED BY <1>0, <1>2, <2>1, <2>4 DEF I!Start, I!TypeOK
<1>3. ASSUME NEW w \in MailWorkers, I!Progress(w) PROVE I!TypeOK'
  <2>1. row' \in I!Rows
    <3>1. I!Restarted(work[w].gen) \in I!Rows
      <4>1. 0 \in 0..I!Cardinality(Conversations)
        BY CountIsTyped, FS_EmptySet, ImportCardinality
      <4> QED BY <1>0, <4>1 DEF I!Restarted, I!TypeOK, I!Rows, I!Tasks
    <3> QED BY <1>0, <1>3, <3>1 DEF I!Progress, I!TypeOK
  <2>2. entries' \subseteq entries /\ filed' \subseteq filed
    <3>1. \A es, g : I!Tagged(g, I!Of(es, g)) \subseteq es
      BY DEF I!Tagged, I!Of
    <3> QED BY <1>3, <3>1 DEF I!Progress
  <2>3. work' \in [MailWorkers -> I!Tasks]
    BY <1>0, <1>3, <1>c DEF I!Progress, I!Goto, I!TypeOK, I!Tasks
  <2>4. overtaken' \in BOOLEAN
    BY <1>0, <1>3 DEF I!Progress, I!TypeOK, I!Rows
  <2> QED BY <1>0, <1>3, <2>1, <2>2, <2>3, <2>4 DEF I!Progress, I!TypeOK
<1>4. ASSUME NEW w \in MailWorkers, I!List(w) PROVE I!TypeOK'
  <2>1. work' \in [MailWorkers -> I!Tasks]
    BY <1>0, <1>4 DEF I!List, I!TypeOK, I!Tasks
  <2> QED BY <1>0, <1>4, <2>1 DEF I!List, I!TypeOK
<1>5. ASSUME NEW w \in MailWorkers, I!Discover(w) PROVE I!TypeOK'
  <2>1. work[w].gen \in 1..MaxGen
    BY <1>0, <1>5, <1>a DEF I!Discover, TasksKnown, Booting, I!TypeOK, I!Tasks, I!Gens
  <2>2. I!Tagged(work[w].gen, work[w].batch) \subseteq I!Entries
    BY <1>0, <2>1 DEF I!Tagged, I!Entries, I!TypeOK, I!Tasks
  <2>3. entries' \subseteq I!Entries
    BY <1>0, <1>5, <2>2 DEF I!Discover, I!TypeOK
  <2>4. row' \in I!Rows
    BY <1>0, <1>5 DEF I!Discover, I!TypeOK, I!Rows
  <2>5. work' \in [MailWorkers -> I!Tasks]
    BY <1>0, <1>5, <1>c DEF I!Discover, I!TypeOK, I!Tasks
  <2> QED BY <1>0, <1>5, <2>3, <2>4, <2>5 DEF I!Discover, I!TypeOK
<1>6. ASSUME NEW w \in MailWorkers, I!Select(w) PROVE I!TypeOK'
  <2>1. PICK ts \in I!Batches(work[w].gen) :
          work' = [work EXCEPT ![w].batch = ts, ![w].pc = IF ts = {} THEN "complete" ELSE "commit"]
    BY <1>6 DEF I!Select
  <2>2. ts \in SUBSET Conversations
    BY <2>1 DEF I!Batches, I!Of
  <2>3. work' \in [MailWorkers -> I!Tasks]
    <3> DEFINE p == IF ts = {} THEN "complete" ELSE "commit"
    <3>1. p \in {"complete", "commit"} /\ work' = [work EXCEPT ![w].batch = ts, ![w].pc = p]
      BY <2>1
    <3> HIDE DEF p
    <3> QED BY <1>0, <2>2, <3>1 DEF I!TypeOK, I!Tasks
  <2> QED BY <1>0, <1>6, <2>3 DEF I!Select, I!TypeOK
<1>7. ASSUME NEW w \in MailWorkers, I!CommitBatch(w) PROVE I!TypeOK'
  <2>1. I!Cardinality(I!Of(filed', work[w].gen)) \in 0..I!Cardinality(Conversations)
    BY CountIsTyped DEF I!Of
  <2>2. row' \in I!Rows
    BY <1>0, <1>7, <2>1 DEF I!CommitBatch, I!TypeOK, I!Rows
  <2>3. work' \in [MailWorkers -> I!Tasks]
    BY <1>0, <1>7, <1>c DEF I!CommitBatch, I!TypeOK, I!Tasks
  <2>4. kept' \subseteq Conversations /\ filed' \subseteq I!Entries
    BY <1>0, <1>7 DEF I!CommitBatch, I!TypeOK
  <2> QED BY <1>0, <1>7, <2>2, <2>3, <2>4 DEF I!CommitBatch, I!TypeOK
<1>8. ASSUME NEW w \in MailWorkers, I!QueueNext(w) PROVE I!TypeOK'
  BY <1>0, <1>8, <1>c DEF I!QueueNext, I!TypeOK, I!Jobs, I!Boot
<1>9. ASSUME NEW w \in MailWorkers, I!Recent(w) PROVE I!TypeOK'
  <2>1. work' \in [MailWorkers -> I!Tasks]
    BY <1>0, <1>9, <1>c DEF I!Recent, I!Goto, I!TypeOK, I!Tasks
  <2> QED BY <1>0, <1>9, <2>1 DEF I!Recent, I!TypeOK
<1>10. ASSUME NEW w \in MailWorkers, I!Complete(w) PROVE I!TypeOK'
  <2>1. work' \in [MailWorkers -> I!Tasks]
    BY <1>0, <1>10 DEF I!Complete, I!Goto, I!TypeOK, I!Tasks
  <2>2. row' \in I!Rows
    BY <1>0, <1>10 DEF I!Complete, I!TypeOK, I!Rows
  <2> QED BY <1>0, <1>10, <2>1, <2>2 DEF I!Complete, I!TypeOK
<1>11. ASSUME NEW w \in MailWorkers, I!HandOver(w) PROVE I!TypeOK'
  BY <1>0, <1>11, <1>c DEF I!HandOver, I!TypeOK, I!Jobs
<1>12. ASSUME NEW w \in MailWorkers, NEW last \in BOOLEAN, I!Page(w, last) PROVE I!TypeOK'
  <2>1. work' \in [MailWorkers -> I!Tasks]
    BY <1>0, <1>12, <1>c DEF I!Page, I!Goto, I!TypeOK, I!Tasks
  <2>2. row' \in I!Rows
    BY <1>0, <1>12 DEF I!Page, I!TypeOK, I!Rows
  <2>3. overtaken' \in BOOLEAN /\ mishaps' \in 0..ImportFaults
    <3>1. CASE UNCHANGED I!bounds
      BY <1>0, <3>1 DEF I!TypeOK
    <3>2. CASE I!Counted /\ overtaken' = TRUE
      BY <1>0, <1>a, <3>2 DEF I!Counted, I!TypeOK
    <3> QED BY <1>12, <3>1, <3>2 DEF I!Page, I!Last
  <2>4. kept' \subseteq Conversations
    BY <1>0, <1>12 DEF I!Page, I!TypeOK
  <2> QED BY <1>0, <1>12, <2>1, <2>2, <2>3, <2>4 DEF I!Page, I!TypeOK
<1>13. ASSUME NEW w \in MailWorkers, I!Finish(w) PROVE I!TypeOK'
  <2>1. row' \in I!Rows
    BY <1>0, <1>13, <1>a DEF I!Finish, I!Finished, I!TypeOK, I!Rows
  <2> QED BY <1>0, <1>13, <1>c, <2>1 DEF I!Finish, I!TypeOK
<1>14. ASSUME NEW w \in MailWorkers, I!RejectToken(w) PROVE I!TypeOK'
  <2>1. work' \in [MailWorkers -> I!Tasks]
    BY <1>0, <1>14 DEF I!RejectToken, I!Goto, I!TypeOK, I!Tasks
  <2> QED BY <1>0, <1>14, <1>a, <2>1 DEF I!RejectToken, I!Fault, I!Counted, I!TypeOK
<1>15. ASSUME NEW w \in MailWorkers, I!Reset(w) PROVE I!TypeOK'
  <2>1. work' \in [MailWorkers -> I!Tasks]
    BY <1>0, <1>15 DEF I!Reset, I!Goto, I!TypeOK, I!Tasks
  <2>2. row' \in I!Rows
    BY <1>0, <1>15, <1>a DEF I!Reset, I!TypeOK, I!Rows
  <2> QED BY <1>0, <1>15, <2>1, <2>2 DEF I!Reset, I!TypeOK
<1>16. ASSUME NEW w \in MailWorkers, I!Fail(w) PROVE I!TypeOK'
  BY <1>0, <1>16, <1>a, <1>c DEF I!Fail, I!Fault, I!Counted, I!TypeOK, TasksKnown
<1>17. ASSUME NEW w \in MailWorkers, I!Expire(w) PROVE I!TypeOK'
  BY <1>0, <1>17, <1>a DEF I!Expire, I!Fault, I!Counted, I!TypeOK, I!Jobs
<1>18. ASSUME I!Activate PROVE I!TypeOK'
  <2> DEFINE g == IF row.rec # 0 THEN row.rec ELSE gens + 1
  <2>1. g \in 1..MaxGen /\ gens' \in I!Gens
    BY <1>0, <1>18, <1>a DEF I!Activate, I!TypeOK, I!Rows, I!Gens
  <2>2. I!Cardinality(kept) \in 0..I!Cardinality(Conversations)
    BY <1>0, CountIsTyped DEF I!TypeOK
  <2>3. entries' = entries \cup I!Tagged(g, kept) /\ filed' = filed \cup I!Tagged(g, kept)
    BY <1>18 DEF I!Activate
  <2>4. PICK full \in BOOLEAN :
          row' = [row EXCEPT !.sync = g, !.count = I!Cardinality(kept), !.window = TRUE, !.meta = full]
    BY <1>18 DEF I!Activate
  <2> HIDE DEF g
  <2>5. row' \in I!Rows
    <3>1. g \in I!Gens
      BY <2>1 DEF I!Gens
    <3> QED BY <1>0, <2>2, <2>4, <3>1 DEF I!TypeOK, I!Rows
  <2>6. entries' \subseteq I!Entries /\ filed' \subseteq I!Entries
    BY <1>0, <2>1, <2>3 DEF I!TypeOK, I!Tagged, I!Entries
  <2> QED BY <1>0, <1>18, <2>1, <2>5, <2>6 DEF I!Activate, I!TypeOK
<1>19. ASSUME I!Ensure PROVE I!TypeOK'
  BY <1>0, <1>19 DEF I!Ensure, I!EnsureQueued, I!Enqueue, I!Missing, I!TypeOK, I!Jobs, I!Boot
<1>20. ASSUME I!Poll PROVE I!TypeOK'
  BY <1>0, <1>20 DEF I!Poll, I!Enqueue, I!TypeOK, I!Jobs
<1>21. ASSUME NEW t \in Conversations, I!Expunge(t) PROVE I!TypeOK'
  BY <1>0, <1>21, <1>a DEF I!Expunge, I!Fault, I!Counted, I!TypeOK
<1>23. ASSUME I!SignIn PROVE I!TypeOK'
  BY <1>0, <1>23, <1>a DEF I!SignIn, I!Fault, I!Counted, I!TypeOK, I!Jobs, I!Boot
<1>22. CASE UNCHANGED I!vars
  BY <1>0, <1>22 DEF I!vars, I!TypeOK
<1> QED
  BY <1>1, <1>2, <1>3, <1>4, <1>5, <1>6, <1>7, <1>8, <1>9, <1>10, <1>11, <1>12, <1>13, <1>14,
     <1>15, <1>16, <1>17, <1>18, <1>19, <1>20, <1>21, <1>22, <1>23 DEF I!Next, I!Work

(* ---- what steps leave alone --------------------------------------------- *)

(* Only a poll that finds the window incomplete, and a bootstrap that has a   *)
(* batch left, queue another that goes on.                                  *)
LEMMA SuccessorsStay ==
  ASSUME ImportInv, [I!Next]_(I!vars), ~I!Ensure, \A w \in MailWorkers : ~I!QueueNext(w)
  PROVE  I!Active(I!Successors)' => I!Active(I!Successors)
<1> USE DEF I!bounds, I!window, I!NoGen
<1>0. I!TypeOK /\ TasksKnown
  BY DEF ImportInv
<1>b. \A k \in {"import", "reconcile", "signin", "none"} : k \notin I!Successors
  BY DEF I!Successors
<1>a. ASSUME NEW w \in MailWorkers,
             \A v \in MailWorkers \ {w} : work'[v].job = work[v].job,
             work'[w].job \in {work[w].job, "none"},
             \A k \in queue' \cap I!Successors : k \in queue \/ k = work[w].job
      PROVE  I!Active(I!Successors)' => I!Active(I!Successors)
  BY <1>a, <1>b DEF I!Active
<1>c. ASSUME queue' \cap I!Successors \subseteq queue, UNCHANGED work
      PROVE  I!Active(I!Successors)' => I!Active(I!Successors)
  BY <1>c DEF I!Active
<1>i. I!Idle.job = "none"
  BY DEF I!Idle
<1>s. \A w \in MailWorkers : I!Stop(w) =>
        (\A v \in MailWorkers \ {w} : work'[v].job = work[v].job) /\ work'[w].job = "none"
  BY <1>0, <1>i DEF I!Stop, I!TypeOK
<1>g. \A w \in MailWorkers : \A p : I!Goto(w, p) => \A v \in MailWorkers : work'[v].job = work[v].job
  BY <1>0 DEF I!Goto, I!TypeOK, I!Tasks
<1>1. ASSUME NEW w \in MailWorkers, NEW k \in I!Jobs, I!Begin(w, k)
      PROVE  I!Active(I!Successors)' => I!Active(I!Successors)
  <2>1. \A v \in MailWorkers \ {w} : work'[v].job = work[v].job
    BY <1>0, <1>1 DEF I!Begin, I!TypeOK
  <2>2. work'[w].job = k
    BY <1>0, <1>1 DEF I!Begin, I!TypeOK, I!Idle
  <2>3. k \in queue /\ queue' \subseteq queue
    BY <1>1 DEF I!Begin, I!Claim
  <2> QED BY <2>1, <2>2, <2>3 DEF I!Active
<1>2. ASSUME NEW w \in MailWorkers, I!Start(w) PROVE I!Active(I!Successors)' => I!Active(I!Successors)
  <2>1. \A v \in MailWorkers : work'[v].job = work[v].job
    BY <1>0, <1>2 DEF I!Start, I!TypeOK, I!Tasks
  <2> QED BY <1>a, <1>2, <2>1 DEF I!Start
<1>3. ASSUME NEW w \in MailWorkers, I!Progress(w) PROVE I!Active(I!Successors)' => I!Active(I!Successors)
  <2>1. (\A v \in MailWorkers \ {w} : work'[v].job = work[v].job) /\ work'[w].job \in {work[w].job, "none"}
    BY <1>3, <1>s, <1>g DEF I!Progress
  <2> QED BY <1>a, <1>3, <2>1 DEF I!Progress
<1>4. ASSUME NEW w \in MailWorkers, I!List(w) PROVE I!Active(I!Successors)' => I!Active(I!Successors)
  <2>1. \A v \in MailWorkers : work'[v].job = work[v].job
    BY <1>0, <1>4 DEF I!List, I!TypeOK, I!Tasks
  <2> QED BY <1>a, <1>4, <2>1 DEF I!List
<1>5. ASSUME NEW w \in MailWorkers, I!Discover(w) PROVE I!Active(I!Successors)' => I!Active(I!Successors)
  <2>1. (\A v \in MailWorkers \ {w} : work'[v].job = work[v].job) /\ work'[w].job \in {work[w].job, "none"}
    <3>1. CASE I!Stop(w)
      BY <3>1, <1>s
    <3>2. CASE work' = [work EXCEPT ![w].batch = {}, ![w].pc = "pending"]
      BY <1>0, <3>2 DEF I!TypeOK, I!Tasks
    <3> QED BY <1>5, <3>1, <3>2 DEF I!Discover
  <2> QED BY <1>a, <1>5, <2>1 DEF I!Discover
<1>6. ASSUME NEW w \in MailWorkers, I!Select(w) PROVE I!Active(I!Successors)' => I!Active(I!Successors)
  <2>1. \A v \in MailWorkers : work'[v].job = work[v].job
    BY <1>0, <1>6 DEF I!Select, I!TypeOK, I!Tasks
  <2> QED BY <1>a, <1>6, <2>1 DEF I!Select
<1>7. ASSUME NEW w \in MailWorkers, I!CommitBatch(w) PROVE I!Active(I!Successors)' => I!Active(I!Successors)
  <2>1. (\A v \in MailWorkers \ {w} : work'[v].job = work[v].job) /\ work'[w].job \in {work[w].job, "none"}
    <3>1. CASE I!Stop(w)
      BY <3>1, <1>s
    <3>2. ASSUME NEW p, work' = [work EXCEPT ![w].batch = {}, ![w].pc = p]
          PROVE  \A v \in MailWorkers : work'[v].job = work[v].job
      BY <1>0, <3>2 DEF I!TypeOK, I!Tasks
    <3> QED BY <1>7, <3>1, <3>2 DEF I!CommitBatch
  <2> QED BY <1>a, <1>7, <2>1 DEF I!CommitBatch
<1>9. ASSUME NEW w \in MailWorkers, I!Recent(w) PROVE I!Active(I!Successors)' => I!Active(I!Successors)
  BY <1>9, <1>a, <1>s, <1>g DEF I!Recent
<1>10. ASSUME NEW w \in MailWorkers, I!Complete(w) PROVE I!Active(I!Successors)' => I!Active(I!Successors)
  BY <1>10, <1>a, <1>g DEF I!Complete
<1>11. ASSUME NEW w \in MailWorkers, I!HandOver(w) PROVE I!Active(I!Successors)' => I!Active(I!Successors)
  <2>1. \A k \in queue' \cap I!Successors : k \in queue
    BY <1>11, <1>b DEF I!HandOver
  <2> QED BY <1>11, <1>a, <1>s, <2>1 DEF I!HandOver
<1>12. ASSUME NEW w \in MailWorkers, NEW last \in BOOLEAN, I!Page(w, last)
       PROVE  I!Active(I!Successors)' => I!Active(I!Successors)
  <2>1. (\A v \in MailWorkers \ {w} : work'[v].job = work[v].job) /\ work'[w].job \in {work[w].job, "none"}
    BY <1>12, <1>s, <1>g DEF I!Page
  <2> QED BY <1>a, <1>12, <2>1 DEF I!Page
<1>13. ASSUME NEW w \in MailWorkers, I!Finish(w) PROVE I!Active(I!Successors)' => I!Active(I!Successors)
  BY <1>13, <1>a, <1>s DEF I!Finish
<1>14. ASSUME NEW w \in MailWorkers, I!RejectToken(w) PROVE I!Active(I!Successors)' => I!Active(I!Successors)
  BY <1>14, <1>a, <1>g DEF I!RejectToken
<1>15. ASSUME NEW w \in MailWorkers, I!Reset(w) PROVE I!Active(I!Successors)' => I!Active(I!Successors)
  BY <1>15, <1>a, <1>g DEF I!Reset
<1>16. ASSUME NEW w \in MailWorkers, I!Fail(w) PROVE I!Active(I!Successors)' => I!Active(I!Successors)
  <2>1. \A k \in queue' \cap I!Successors : k \in queue \/ k = work[w].job
    BY <1>16 DEF I!Fail
  <2> QED BY <1>16, <1>a, <1>s, <2>1 DEF I!Fail
<1>17. ASSUME NEW w \in MailWorkers, I!Expire(w) PROVE I!Active(I!Successors)' => I!Active(I!Successors)
  <2>1. UNCHANGED work /\ queue' = queue \cup {work[w].job}
    BY <1>17 DEF I!Expire
  <2> QED BY <1>a, <2>1
<1>18. ASSUME I!Activate PROVE I!Active(I!Successors)' => I!Active(I!Successors)
  BY <1>18, <1>c DEF I!Activate
<1>20. ASSUME I!Poll PROVE I!Active(I!Successors)' => I!Active(I!Successors)
  <2>1. queue' \cap I!Successors \subseteq queue
    BY <1>20, <1>b DEF I!Poll, I!Enqueue
  <2> QED BY <1>20, <1>c, <2>1 DEF I!Poll
<1>21. ASSUME NEW t \in Conversations, I!Expunge(t) PROVE I!Active(I!Successors)' => I!Active(I!Successors)
  BY <1>21, <1>c DEF I!Expunge
<1>23. ASSUME I!SignIn PROVE I!Active(I!Successors)' => I!Active(I!Successors)
  BY <1>23, <1>b, <1>c DEF I!SignIn
<1>22. CASE UNCHANGED I!vars
  BY <1>22, <1>c DEF I!vars
<1> QED
  BY <1>1, <1>2, <1>3, <1>4, <1>5, <1>6, <1>7, <1>9, <1>10, <1>11, <1>12, <1>13, <1>14,
     <1>15, <1>16, <1>17, <1>18, <1>20, <1>21, <1>22, <1>23 DEF I!Next, I!Work

(* What is stored stays, and Gmail gets no new conversation.                *)
LEMMA OnlyMoreIsKept ==
  ASSUME [I!Next]_(I!vars)
  PROVE  kept \subseteq kept' /\ threads' \subseteq threads
BY DEF I!Next, I!vars, I!bounds, I!window, I!Begin, I!Work, I!Start, I!Progress, I!List, I!Discover, I!Select, I!CommitBatch,
       I!QueueNext, I!Recent, I!Complete, I!HandOver, I!Page, I!Finish, I!Reset, I!RejectToken, I!Fail,
       I!Expire, I!Activate, I!Ensure, I!Poll, I!SignIn, I!Expunge

(* The entries of the window, and what the row says of it, change by four   *)
(* steps only.                                                              *)
LEMMA WindowSteps ==
  ASSUME I!TypeOK, [I!Next]_(I!vars)
  PROVE  \/ \E w \in MailWorkers : I!Progress(w) \/ I!Discover(w) \/ I!CommitBatch(w)
         \/ I!Activate
         \/ /\ UNCHANGED <<entries, filed>>
            /\ row'.sync = row.sync /\ row'.count = row.count /\ row'.window = row.window
<1> USE DEF I!bounds, I!window, I!NoGen, I!TypeOK, I!Rows
<1>1. ASSUME NEW w \in MailWorkers,
             I!Start(w) \/ I!Complete(w) \/ I!Finish(w) \/ I!Reset(w) \/ (\E last \in BOOLEAN : I!Page(w, last))
      PROVE  /\ UNCHANGED <<entries, filed>>
             /\ row'.sync = row.sync /\ row'.count = row.count /\ row'.window = row.window
  <2>1. CASE I!Start(w)
    BY <2>1 DEF I!Start
  <2>2. CASE I!Complete(w)
    BY <2>2 DEF I!Complete
  <2>3. CASE I!Finish(w)
    BY <2>3 DEF I!Finish, I!Finished
  <2>4. CASE I!Reset(w)
    BY <2>4 DEF I!Reset
  <2>5. ASSUME NEW last \in BOOLEAN, I!Page(w, last)
        PROVE  /\ UNCHANGED <<entries, filed>>
               /\ row'.sync = row.sync /\ row'.count = row.count /\ row'.window = row.window
    BY <2>5 DEF I!Page
  <2> QED BY <1>1, <2>1, <2>2, <2>3, <2>4, <2>5
<1>2. ASSUME NEW w \in MailWorkers,
             \/ \E k \in I!Jobs : I!Begin(w, k)
             \/ I!List(w) \/ I!Select(w) \/ I!QueueNext(w) \/ I!Recent(w) \/ I!HandOver(w)
             \/ I!RejectToken(w) \/ I!Fail(w) \/ I!Expire(w)
      PROVE  UNCHANGED <<entries, filed, row>>
  BY <1>2 DEF I!Begin, I!List, I!Select, I!QueueNext, I!Recent, I!HandOver, I!RejectToken, I!Fail, I!Expire
<1>3. ASSUME I!Ensure \/ I!Poll \/ I!SignIn \/ (\E t \in Conversations : I!Expunge(t)) \/ UNCHANGED I!vars
      PROVE  UNCHANGED <<entries, filed, row>>
  BY <1>3 DEF I!Ensure, I!Poll, I!SignIn, I!Expunge, I!vars
<1> QED BY <1>1, <1>2, <1>3 DEF I!Next, I!Work

(* ---- the window ------------------------------------------------------------ *)

LEMMA TaggedSize ==
  ASSUME NEW g, NEW ts \in SUBSET Conversations
  PROVE  I!Cardinality(I!Tagged(g, ts)) = I!Cardinality(ts)
<1> DEFINE tag == [t \in ts |-> <<g, t>>]
<1>1. IsFiniteSet(ts)
  BY SetupAssumption, ImportCardinality, FS_Subset DEF I!ImportAssumption
<1>2. tag \in Bijection(ts, I!Tagged(g, ts))
  <2>1. tag \in [ts -> I!Tagged(g, ts)] /\ \A t, u \in ts : tag[t] = tag[u] => t = u
    BY DEF I!Tagged
  <2>2. \A e \in I!Tagged(g, ts) : \E t \in ts : tag[t] = e
    BY DEF I!Tagged
  <2> HIDE DEF tag
  <2> QED BY <2>1, <2>2 DEF Bijection, Injection, Surjection, IsInjective
<1>3. ExistsBijection(ts, I!Tagged(g, ts))
  BY <1>2 DEF ExistsBijection
<1>4. Cardinality(I!Tagged(g, ts)) = Cardinality(ts)
  BY <1>1, <1>3, FS_Bijection
<1> QED BY <1>4, ImportCardinality

(* The entries of one generation are named by their conversations.          *)
LEMMA OneGeneration ==
  ASSUME NEW g, NEW es \in SUBSET I!Entries, \A e \in es : e[1] = g
  PROVE  I!Tagged(g, I!Of(es, g)) = es /\ I!Cardinality(I!Of(es, g)) = I!Cardinality(es)
<1>1. I!Tagged(g, I!Of(es, g)) = es
  <2>1. \A e \in es : e[2] \in Conversations /\ e = <<g, e[2]>>
    BY DEF I!Entries
  <2> QED BY <2>1 DEF I!Tagged, I!Of
<1>2. I!Of(es, g) \subseteq Conversations
  BY DEF I!Of
<1> QED BY <1>1, <1>2, TaggedSize

(* Entries of a generation the progress does not follow are none.           *)
LEMMA OtherGeneration ==
  ASSUME NEW g, NEW h, NEW es, \A e \in es : e[1] = h, g # h
  PROVE  I!Of(es, g) = {} /\ I!Tagged(g, I!Of(es, g)) = {}
BY DEF I!Of, I!Tagged

LEMMA WindowKept ==
  ASSUME ImportInv, [I!Next]_(I!vars)
  PROVE  /\ I!WindowAgrees'
         /\ entries # {} /\ row'.sync = row.sync => entries' = entries
<1> USE DEF I!bounds, I!window, I!NoGen
<1>0. I!TypeOK /\ TasksKnown /\ I!WindowAgrees /\ RowKnown
  BY DEF ImportInv, SetupIsTrue
<1>m. kept \subseteq kept' /\ threads' \subseteq threads
  BY OnlyMoreIsKept
<1>r. row \in I!Rows /\ entries \in SUBSET I!Entries /\ filed \in SUBSET I!Entries /\ kept \in SUBSET Conversations
  BY <1>0 DEF I!TypeOK
<1>1. ASSUME NEW w \in MailWorkers, I!Progress(w)
      PROVE  /\ I!WindowAgrees'
             /\ entries # {} /\ row'.sync = row.sync => entries' = entries
  <2> DEFINE g == work[w].gen
  <2>1. CASE row.rec = g /\ row.sync = g
    <3>1. row' = row /\ entries' = I!Tagged(g, I!Of(entries, g)) /\ filed' = I!Tagged(g, I!Of(filed, g))
      BY <1>1, <2>1 DEF I!Progress, I!Continues
    <3>2. I!Tagged(g, I!Of(entries, g)) = entries
      BY <1>0, <1>r, <2>1, OneGeneration DEF I!WindowAgrees
    <3>3. I!Tagged(g, I!Of(filed, g)) = filed
      BY <1>0, <1>r, <2>1, OneGeneration DEF I!WindowAgrees
    <3> QED BY <1>0, <1>m, <3>1, <3>2, <3>3 DEF I!WindowAgrees
  <2>2. CASE row.rec = g /\ row.sync # g
    <3>1. row' = I!Restarted(g) /\ entries' = I!Tagged(g, I!Of(entries, g)) /\ filed' = I!Tagged(g, I!Of(filed, g))
      BY <1>1, <2>2 DEF I!Progress, I!Continues
    <3>2. I!Tagged(g, I!Of(entries, g)) = {}
      BY <1>0, <2>2, OtherGeneration DEF I!WindowAgrees
    <3>3. I!Tagged(g, I!Of(filed, g)) = {}
      BY <1>0, <2>2, OtherGeneration DEF I!WindowAgrees
    <3>4. row'.sync = g /\ row'.count = 0 /\ row'.window = FALSE
      BY <1>r, <3>1 DEF I!Restarted, I!Rows
    <3> QED BY <2>2, <3>1, <3>2, <3>3, <3>4, FS_EmptySet, ImportCardinality DEF I!WindowAgrees
  <2>3. CASE row.rec # g
    <3>1. UNCHANGED <<row, entries, filed>>
      BY <1>1, <2>3 DEF I!Progress
    <3> QED BY <1>0, <1>m, <3>1 DEF I!WindowAgrees
  <2> QED BY <2>1, <2>2, <2>3
<1>2. ASSUME NEW w \in MailWorkers, I!Discover(w)
      PROVE  /\ I!WindowAgrees'
             /\ entries # {} /\ row'.sync = row.sync => entries' = entries
  <2> DEFINE g == work[w].gen
  <2>1. CASE row.sync # g \/ I!Discovered(g)
    <3>1. UNCHANGED <<row, entries, filed>>
      BY <1>2, <2>1 DEF I!Discover
    <3> QED BY <1>0, <1>m, <3>1 DEF I!WindowAgrees
  <2>2. CASE row.sync = g /\ ~I!Discovered(g)
    <3>1. entries = {} /\ filed = {}
      <4>1. I!Tagged(g, I!Of(entries, g)) = entries
        BY <1>0, <1>r, <2>2, OneGeneration DEF I!WindowAgrees
      <4>2. I!Of(entries, g) = {}
        BY <2>2 DEF I!Discovered
      <4> QED BY <1>0, <4>1, <4>2 DEF I!Tagged, I!WindowAgrees
    <3>2. entries' = I!Tagged(g, work[w].batch) /\ filed' = {}
      BY <1>2, <2>2, <3>1 DEF I!Discover
    <3>3. row'.sync = g /\ row'.count = row.count /\ row'.window = (work[w].batch = {})
      BY <1>2, <1>r, <2>2 DEF I!Discover, I!Rows
    <3>4. \A e \in entries' : e[1] = g
      BY <3>2 DEF I!Tagged
    <3>5. row'.window => entries' = {}
      BY <3>2, <3>3 DEF I!Tagged
    <3> QED BY <1>0, <3>1, <3>2, <3>3, <3>4, <3>5 DEF I!WindowAgrees
  <2> QED BY <2>1, <2>2
<1>3. ASSUME NEW w \in MailWorkers, I!CommitBatch(w)
      PROVE  /\ I!WindowAgrees'
             /\ entries # {} /\ row'.sync = row.sync => entries' = entries
  <2> DEFINE g == work[w].gen
             ts == work[w].batch
             n == I!Cardinality(I!Of(filed', g))
  <2>1. CASE ~I!Fenced(g)
    <3>1. UNCHANGED <<row, entries, filed>>
      BY <1>3, <2>1 DEF I!CommitBatch
    <3> QED BY <1>0, <1>m, <3>1 DEF I!WindowAgrees
  <2>2. CASE I!Fenced(g)
    <3>1. /\ entries' = entries /\ kept' = kept \cup (ts \cap threads) /\ threads' = threads
          /\ filed' = filed \cup (I!Tagged(g, ts) \cap entries)
          /\ row' = [row EXCEPT !.count = IF n > @ THEN n ELSE @,
                                !.window = @ \/ I!Of(entries, g) = I!Of(filed', g),
                                !.first = TRUE]
      BY <1>3, <2>2 DEF I!CommitBatch
    <3>2. row.sync = g
      BY <2>2 DEF I!Fenced
    <3>3. filed \subseteq filed' /\ filed' \subseteq entries /\ filed' \in SUBSET I!Entries
      BY <1>0, <1>r, <3>1 DEF I!WindowAgrees
    <3>4. \A e \in filed' : e[1] = g
      BY <1>0, <3>2, <3>3 DEF I!WindowAgrees
    <3>5. n = I!Cardinality(filed') /\ I!Tagged(g, I!Of(filed', g)) = filed'
      BY <3>3, <3>4, OneGeneration
    <3>6. I!Tagged(g, I!Of(entries, g)) = entries
      BY <1>0, <1>r, <3>2, OneGeneration DEF I!WindowAgrees
    <3>7. row.count <= n /\ n \in Nat
      <4>1. I!Of(filed, g) \subseteq I!Of(filed', g) /\ I!Of(filed', g) \subseteq Conversations
        BY <3>3 DEF I!Of
      <4>2. row.count = I!Cardinality(I!Of(filed, g))
        BY <1>0, <1>r, <3>2, OneGeneration DEF I!WindowAgrees
      <4>3. IsFiniteSet(I!Of(filed', g))
        BY <4>1, SetupAssumption, ImportCardinality, FS_Subset DEF I!ImportAssumption
      <4>4. Cardinality(I!Of(filed, g)) <= Cardinality(I!Of(filed', g)) /\ Cardinality(I!Of(filed', g)) \in Nat
        BY <4>1, <4>3, FS_Subset, FS_CardinalityType
      <4> QED BY <4>2, <4>4, ImportCardinality
    <3> HIDE DEF n
    <3>8. row'.sync = g /\ row'.count = n
      <4>1. row.count \in Nat
        BY <1>0, <1>r, FS_CardinalityType, <3>2, CountIsTyped, SetupAssumption, ImportCardinality, FS_Subset DEF I!Rows, I!ImportAssumption
      <4> QED BY <1>r, <3>1, <3>2, <3>7, <4>1 DEF I!Rows
    <3>9. row'.window => filed' = entries
      <4>1. CASE row.window
        BY <1>0, <3>3, <4>1 DEF I!WindowAgrees
      <4>2. CASE I!Of(entries, g) = I!Of(filed', g)
        BY <3>5, <3>6, <4>2
      <4> QED BY <1>r, <3>1, <4>1, <4>2 DEF I!Rows
    <3>10. \A e \in filed' : e[2] \in kept' \/ e[2] \notin threads'
      <4>1. \A e \in I!Tagged(g, ts) : e[2] \in ts
        BY DEF I!Tagged
      <4> QED BY <1>0, <3>1, <4>1 DEF I!WindowAgrees
    <3> QED BY <1>0, <3>1, <3>2, <3>3, <3>5, <3>8, <3>9, <3>10 DEF I!WindowAgrees
  <2> QED BY <2>1, <2>2
<1>4. ASSUME I!Activate
      PROVE  /\ I!WindowAgrees'
             /\ entries # {} /\ row'.sync = row.sync => entries' = entries
  <2> DEFINE g == IF row.rec # 0 THEN row.rec ELSE gens + 1
  <2>1. PICK full \in BOOLEAN :
          row' = [row EXCEPT !.sync = g, !.count = I!Cardinality(kept), !.window = TRUE, !.meta = full]
    BY <1>4 DEF I!Activate
  <2>2. entries' = entries \cup I!Tagged(g, kept) /\ filed' = filed \cup I!Tagged(g, kept) /\ kept' = kept
    BY <1>4 DEF I!Activate
  <2>3. entries = {} /\ filed = {}
    <3>1. \A e \in I!Entries : e[1] # 0
      BY DEF I!Entries
    <3>2. row.sync = 0
      BY <1>4 DEF I!Activate, I!Legacy
    <3> QED BY <1>0, <1>r, <3>1, <3>2 DEF I!WindowAgrees
  <2>4. row'.sync = g /\ row'.count = I!Cardinality(kept)
    BY <1>r, <2>1 DEF I!Rows
  <2>5. \A e \in I!Tagged(g, kept) : e[1] = g /\ e[2] \in kept
    BY DEF I!Tagged
  <2>6. I!Cardinality(I!Tagged(g, kept)) = I!Cardinality(kept)
    BY <1>r, TaggedSize
  <2> QED BY <2>2, <2>3, <2>4, <2>5, <2>6 DEF I!WindowAgrees
<1>5. CASE /\ UNCHANGED <<entries, filed>>
           /\ row'.sync = row.sync /\ row'.count = row.count /\ row'.window = row.window
  BY <1>0, <1>m, <1>5 DEF I!WindowAgrees
<1> QED BY <1>0, <1>1, <1>2, <1>3, <1>4, <1>5, WindowSteps

(* ---- the history ----------------------------------------------------------- *)

LEMMA HistoryKept ==
  ASSUME ImportInv, [I!Next]_(I!vars)
  PROVE  ListedIsStored' /\ I!CompleteHistory'
<1> USE DEF I!bounds, I!window, I!NoGen, ListedIsStored, I!CompleteHistory
<1>0. I!TypeOK /\ ListedIsStored /\ I!CompleteHistory /\ row \in I!Rows
  BY DEF ImportInv, SetupIsTrue, I!TypeOK
<1>m. kept \subseteq kept' /\ threads' \subseteq threads
  BY OnlyMoreIsKept
<1>n. (row'.listed => row.listed) /\ (row'.meta => row.meta) => ListedIsStored' /\ I!CompleteHistory'
  BY <1>0, <1>m
<1>1. ASSUME NEW w \in MailWorkers, NEW last \in BOOLEAN, I!Page(w, last)
      PROVE  ListedIsStored' /\ I!CompleteHistory'
  <2>1. row'.meta = row.meta
    BY <1>0, <1>1 DEF I!Page, I!Rows
  <2>2. CASE ~last \/ ~I!ChecksPoint(w)
    <3>1. row'.listed => row.listed
      BY <1>0, <1>1, <2>2 DEF I!Page, I!Rows
    <3> QED BY <1>n, <2>1, <3>1
  <2>3. CASE last /\ I!ChecksPoint(w)
    <3>1. kept' = kept \cup threads
      BY <1>1, <2>3 DEF I!Page, I!ChecksPoint
    <3> QED BY <1>m, <3>1
  <2> QED BY <2>2, <2>3
<1>2. ASSUME NEW w \in MailWorkers, I!Finish(w) PROVE ListedIsStored' /\ I!CompleteHistory'
  <2>1. CASE row' = row
    BY <1>n, <2>1
  <2>2. CASE row.listed
    BY <1>0, <1>m, <2>2
  <2> QED BY <1>2, <2>1, <2>2 DEF I!Finish
<1>3. ASSUME I!Activate PROVE ListedIsStored' /\ I!CompleteHistory'
  <2>1. row'.listed = row.listed
    BY <1>0, <1>3 DEF I!Activate, I!Rows
  <2>2. row'.meta => threads \subseteq kept
    <3>1. PICK full \in BOOLEAN :
            /\ full => threads \subseteq kept
            /\ row' = [row EXCEPT !.sync = IF row.rec # 0 THEN row.rec ELSE gens + 1, !.count = I!Cardinality(kept),
                                  !.window = TRUE, !.meta = full]
      BY <1>3 DEF I!Activate
    <3> QED BY <1>0, <3>1 DEF I!Rows
  <2> QED BY <1>0, <1>m, <2>1, <2>2
<1>4. ASSUME NEW w \in MailWorkers,
             I!Start(w) \/ I!Progress(w) \/ I!Discover(w) \/ I!CommitBatch(w) \/ I!Complete(w) \/ I!Reset(w)
      PROVE  (row'.listed => row.listed) /\ (row'.meta => row.meta)
  <2>1. CASE I!Start(w)
    BY <1>0, <2>1 DEF I!Start, I!Rows
  <2>2. CASE I!Progress(w)
    BY <1>0, <2>2 DEF I!Progress, I!Restarted, I!Rows
  <2>3. CASE I!Discover(w)
    BY <1>0, <2>3 DEF I!Discover, I!Rows
  <2>4. CASE I!CommitBatch(w)
    BY <1>0, <2>4 DEF I!CommitBatch, I!Rows
  <2>5. CASE I!Complete(w)
    BY <1>0, <2>5 DEF I!Complete, I!Rows
  <2>6. CASE I!Reset(w)
    BY <1>0, <2>6 DEF I!Reset, I!Rows
  <2> QED BY <1>4, <2>1, <2>2, <2>3, <2>4, <2>5, <2>6
<1>5. ASSUME NEW w \in MailWorkers,
             \/ \E k \in I!Jobs : I!Begin(w, k)
             \/ I!List(w) \/ I!Select(w) \/ I!QueueNext(w) \/ I!Recent(w) \/ I!HandOver(w)
             \/ I!RejectToken(w) \/ I!Fail(w) \/ I!Expire(w)
      PROVE  row' = row
  BY <1>5 DEF I!Begin, I!List, I!Select, I!QueueNext, I!Recent, I!HandOver, I!RejectToken, I!Fail, I!Expire
<1>6. ASSUME I!Ensure \/ I!Poll \/ I!SignIn \/ (\E t \in Conversations : I!Expunge(t)) \/ UNCHANGED I!vars PROVE row' = row
  BY <1>6 DEF I!Ensure, I!Poll, I!SignIn, I!Expunge, I!vars
<1> QED BY <1>n, <1>1, <1>2, <1>3, <1>4, <1>5, <1>6 DEF I!Next, I!Work

(* ---- tasks, and the order of bootstraps and reconciliations ----------------- *)

(* A generation, once followed, is followed by another one only.            *)
LEMMA SyncStays ==
  ASSUME ImportInv, [I!Next]_(I!vars)
  PROVE  /\ row.sync # I!NoGen => row'.sync # I!NoGen
         /\ row.first => row'.first
<1> USE DEF I!bounds, I!window, I!NoGen
<1>0. I!TypeOK /\ TasksKnown /\ row \in I!Rows /\ MaxGen \in Nat
  BY SetupAssumption DEF ImportInv, I!TypeOK, I!ImportAssumption
<1>f. row.first => row'.first
  <2>1. ASSUME NEW w \in MailWorkers,
               \/ I!Start(w) \/ I!Discover(w) \/ I!Complete(w) \/ I!Finish(w) \/ I!Reset(w)
               \/ (\E last \in BOOLEAN : I!Page(w, last))
        PROVE  row.first => row'.first
    <3>1. CASE I!Start(w)
      BY <1>0, <3>1 DEF I!Start, I!Rows
    <3>2. CASE I!Discover(w)
      BY <1>0, <3>2 DEF I!Discover, I!Rows
    <3>3. CASE I!Complete(w)
      BY <1>0, <3>3 DEF I!Complete, I!Rows
    <3>4. CASE I!Finish(w)
      BY <1>0, <3>4 DEF I!Finish, I!Finished, I!Rows
    <3>5. CASE I!Reset(w)
      BY <1>0, <3>5 DEF I!Reset, I!Rows
    <3>6. ASSUME NEW last \in BOOLEAN, I!Page(w, last) PROVE row.first => row'.first
      BY <1>0, <3>6 DEF I!Page, I!Rows
    <3> QED BY <2>1, <3>1, <3>2, <3>3, <3>4, <3>5, <3>6
  <2>2. ASSUME NEW w \in MailWorkers, I!Progress(w) PROVE row.first => row'.first
    BY <1>0, <2>2 DEF I!Progress, I!Restarted, I!Rows
  <2>3. ASSUME NEW w \in MailWorkers, I!CommitBatch(w) PROVE row.first => row'.first
    BY <1>0, <2>3 DEF I!CommitBatch, I!Rows
  <2>4. ASSUME I!Activate PROVE row.first => row'.first
    BY <1>0, <2>4 DEF I!Activate, I!Rows
  <2>5. ASSUME NEW w \in MailWorkers,
               \/ \E k \in I!Jobs : I!Begin(w, k)
               \/ I!List(w) \/ I!Select(w) \/ I!QueueNext(w) \/ I!Recent(w) \/ I!HandOver(w)
               \/ I!RejectToken(w) \/ I!Fail(w) \/ I!Expire(w)
        PROVE  row' = row
    BY <2>5 DEF I!Begin, I!List, I!Select, I!QueueNext, I!Recent, I!HandOver, I!RejectToken, I!Fail, I!Expire
  <2>6. ASSUME I!Ensure \/ I!Poll \/ I!SignIn \/ (\E t \in Conversations : I!Expunge(t)) \/ UNCHANGED I!vars PROVE row' = row
    BY <2>6 DEF I!Ensure, I!Poll, I!SignIn, I!Expunge, I!vars
  <2> QED BY <2>1, <2>2, <2>3, <2>4, <2>5, <2>6 DEF I!Next, I!Work
<1>1. ASSUME NEW w \in MailWorkers, I!Progress(w) PROVE row.sync # 0 => row'.sync # 0
  BY <1>0, <1>1 DEF I!Progress, I!Restarted, I!Continues, TasksKnown, Booting, I!Rows
<1>2. ASSUME NEW w \in MailWorkers, I!Discover(w) \/ I!CommitBatch(w) PROVE row'.sync = row.sync
  <2>1. CASE I!Discover(w)
    BY <1>0, <2>1 DEF I!Discover, I!Rows
  <2>2. CASE I!CommitBatch(w)
    BY <1>0, <2>2 DEF I!CommitBatch, I!Rows
  <2> QED BY <1>2, <2>1, <2>2
<1>3. ASSUME I!Activate PROVE row.sync # 0 => row'.sync # 0
  BY <1>3 DEF I!Activate, I!Legacy
<1> QED BY <1>0, <1>f, <1>1, <1>2, <1>3, WindowSteps

LEMMA TasksStayKnown ==
  ASSUME ImportInv, [I!Next]_(I!vars)
  PROVE  TasksKnown'
<1> USE DEF I!bounds, I!window, I!NoGen
<1>0. I!TypeOK /\ TasksKnown /\ row \in I!Rows
  BY DEF ImportInv, I!TypeOK
<1>m. row.sync # 0 => row'.sync # 0
  BY SyncStays
<1>i. I!Idle.pc = "idle"
  BY DEF I!Idle
(* The stages a worker comes to, one at a time.                             *)
<1>a. ASSUME NEW w \in MailWorkers,
             \A v \in MailWorkers \ {w} : work'[v] = work[v],
             \/ work'[w].pc = "idle"
             \/ /\ work'[w].pc \notin Booting \cup {"idle"}
                /\ work'[w].job \in I!Jobs
             \/ /\ work'[w].pc \in Booting
                /\ work'[w].job \in I!Boot /\ work'[w].gen # 0
                /\ work'[w].pc # "progress" => row'.sync # 0
      PROVE  TasksKnown'
  BY <1>0, <1>m, <1>a DEF TasksKnown, Booting, I!Jobs
<1>c. ASSUME UNCHANGED work PROVE TasksKnown'
  BY <1>0, <1>m, <1>c DEF TasksKnown
<1>s. \A w \in MailWorkers : I!Stop(w) =>
        (\A v \in MailWorkers \ {w} : work'[v] = work[v]) /\ work'[w].pc = "idle"
  BY <1>0, <1>i DEF I!Stop, I!TypeOK
<1>g. \A w \in MailWorkers : \A p : I!Goto(w, p) =>
        /\ \A v \in MailWorkers \ {w} : work'[v] = work[v]
        /\ work'[w].pc = p /\ work'[w].job = work[w].job /\ work'[w].gen = work[w].gen
  BY <1>0 DEF I!Goto, I!TypeOK, I!Tasks
<1>1. ASSUME NEW w \in MailWorkers, NEW k \in I!Jobs, I!Begin(w, k) PROVE TasksKnown'
  <2> DEFINE p == IF row.rec = 0 /\ (k # "import" \/ ~row.auth) THEN "start"
                             ELSE CASE k \in I!Boot -> "progress"
                                    [] k = "import" -> IF row.auth THEN "poll" ELSE "recent"
                                    [] k = "reconcile" -> IF row.listed THEN "finish" ELSE "page"
  <2>1. /\ p \in {"start", "progress", "poll", "recent", "finish", "page"}
        /\ p = "progress" => k \in I!Boot /\ row.rec # 0
    BY DEF I!Jobs, I!Boot
  <2>2. work' = [work EXCEPT ![w] = [I!Idle EXCEPT !.job = k, !.gen = row.rec, !.pc = p]]
    BY <1>1 DEF I!Begin
  <2> HIDE DEF p
  <2>3. work'[w].pc = p /\ work'[w].job = k /\ work'[w].gen = row.rec
    BY <1>0, <2>2 DEF I!TypeOK, I!Idle
  <2>4. \A v \in MailWorkers \ {w} : work'[v] = work[v]
    BY <1>0, <2>2 DEF I!TypeOK
  <2> QED BY <1>a, <2>1, <2>3, <2>4 DEF Booting
<1>2. ASSUME NEW w \in MailWorkers, I!Start(w) PROVE TasksKnown'
  <2> DEFINE p == CASE work[w].pc = "start" /\ work[w].job \in I!Boot -> "progress"
                                        [] work[w].job = "import" -> "recent"
                                        [] work[w].job = "reconcile" -> IF row'.listed THEN "finish" ELSE "page"
  <2>0. work[w].job \in I!Jobs
    BY <1>0, <1>2 DEF I!Start, TasksKnown
  <2>1. p \in {"progress", "recent", "finish", "page"} /\ (p = "progress" => work[w].job \in I!Boot)
    BY <1>2, <2>0 DEF I!Start, I!Jobs, I!Boot
  <2>2. work' = [work EXCEPT ![w].gen = row'.rec, ![w].pc = p]
    BY <1>0, <1>2 DEF I!Start, I!TypeOK, I!Tasks
  <2>3. row'.rec # 0
    <3>1. CASE row.rec # 0
      BY <1>2, <3>1 DEF I!Start
    <3>2. CASE row.rec = 0
      <4> DEFINE g == IF I!Pending THEN row.sync ELSE gens + 1
      <4>1. g # 0
        BY <1>0 DEF I!TypeOK, I!Gens, I!Pending
      <4>2. row' = [row EXCEPT !.rec = g, !.threads = (work[w].job \in I!Boot \/ I!Pending),
                               !.listed = FALSE, !.auth = FALSE]
        BY <1>2, <3>2 DEF I!Start
      <4> HIDE DEF g
      <4> QED BY <1>0, <4>1, <4>2 DEF I!Rows
    <3> QED BY <3>1, <3>2
  <2> HIDE DEF p
  <2>4. work'[w].pc = p /\ work'[w].job = work[w].job /\ work'[w].gen = row'.rec
    BY <1>0, <2>2 DEF I!TypeOK, I!Tasks
  <2>5. \A v \in MailWorkers \ {w} : work'[v] = work[v]
    BY <1>0, <2>2 DEF I!TypeOK
  <2> QED BY <1>a, <2>0, <2>1, <2>3, <2>4, <2>5 DEF Booting
<1>3. ASSUME NEW w \in MailWorkers, I!Progress(w) PROVE TasksKnown'
  <2>1. work[w].job \in I!Boot /\ work[w].gen # 0
    BY <1>0, <1>3 DEF I!Progress, TasksKnown, Booting
  <2>2. CASE I!Stop(w)
    BY <1>a, <1>s, <2>2
  <2>3. ASSUME NEW p \in {"list", "pending"}, I!Goto(w, p), row.rec = work[w].gen PROVE TasksKnown'
    <3>1. row'.sync # 0
      BY <1>0, <1>3, <2>1, <2>3 DEF I!Progress, I!Restarted, I!Continues, I!Rows
    <3> QED BY <1>a, <1>g, <2>1, <2>3, <3>1 DEF Booting
  <2> QED BY <1>3, <2>2, <2>3 DEF I!Progress
<1>4. ASSUME NEW w \in MailWorkers, I!List(w) PROVE TasksKnown'
  <2>1. /\ \A v \in MailWorkers \ {w} : work'[v] = work[v]
        /\ work'[w].pc = "discover" /\ work'[w].job = work[w].job /\ work'[w].gen = work[w].gen
    BY <1>0, <1>4 DEF I!List, I!TypeOK, I!Tasks
  <2>2. work[w].pc = "list"
    BY <1>4 DEF I!List
  <2> QED BY <1>0, <1>a, <1>m, <2>1, <2>2 DEF Booting, TasksKnown
<1>5. ASSUME NEW w \in MailWorkers, I!Discover(w) PROVE TasksKnown'
  <2>1. CASE I!Stop(w)
    BY <1>a, <1>s, <2>1
  <2>2. CASE work' = [work EXCEPT ![w].batch = {}, ![w].pc = "pending"]
    <3>1. /\ \A v \in MailWorkers \ {w} : work'[v] = work[v]
          /\ work'[w].pc = "pending" /\ work'[w].job = work[w].job /\ work'[w].gen = work[w].gen
      BY <1>0, <2>2 DEF I!TypeOK, I!Tasks
    <3>2. work[w].pc = "discover"
      BY <1>5 DEF I!Discover
    <3> QED BY <1>0, <1>a, <1>m, <3>1, <3>2 DEF Booting, TasksKnown
  <2> QED BY <1>5, <2>1, <2>2 DEF I!Discover
<1>6. ASSUME NEW w \in MailWorkers, I!Select(w) PROVE TasksKnown'
  <2>1. PICK ts \in I!Batches(work[w].gen) :
          work' = [work EXCEPT ![w].batch = ts, ![w].pc = IF ts = {} THEN "complete" ELSE "commit"]
    BY <1>6 DEF I!Select
  <2> DEFINE p == IF ts = {} THEN "complete" ELSE "commit"
  <2>2. p \in {"complete", "commit"} /\ work' = [work EXCEPT ![w].batch = ts, ![w].pc = p]
    BY <2>1
  <2> HIDE DEF p
  <2>3. /\ \A v \in MailWorkers \ {w} : work'[v] = work[v]
        /\ work'[w].pc = p /\ work'[w].job = work[w].job /\ work'[w].gen = work[w].gen
    BY <1>0, <2>2 DEF I!TypeOK, I!Tasks
  <2>4. work[w].pc = "pending"
    BY <1>6 DEF I!Select
  <2> QED BY <1>0, <1>a, <1>m, <2>2, <2>3, <2>4 DEF Booting, TasksKnown
<1>7. ASSUME NEW w \in MailWorkers, I!CommitBatch(w) PROVE TasksKnown'
  <2>1. CASE I!Stop(w)
    BY <1>a, <1>s, <2>1
  <2>2. ASSUME NEW p \in {"complete", "next"}, work' = [work EXCEPT ![w].batch = {}, ![w].pc = p]
        PROVE  TasksKnown'
    <3>1. /\ \A v \in MailWorkers \ {w} : work'[v] = work[v]
          /\ work'[w].pc = p /\ work'[w].job = work[w].job /\ work'[w].gen = work[w].gen
      BY <1>0, <2>2 DEF I!TypeOK, I!Tasks
    <3>2. work[w].pc = "commit"
      BY <1>7 DEF I!CommitBatch
    <3> QED BY <1>0, <1>a, <1>m, <2>2, <3>1, <3>2 DEF Booting, TasksKnown
  <2> QED BY <1>7, <2>1, <2>2 DEF I!CommitBatch
<1>8. ASSUME NEW w \in MailWorkers,
             \/ I!QueueNext(w) \/ I!HandOver(w) \/ I!Finish(w) \/ I!Fail(w)
      PROVE  TasksKnown'
  <2>1. I!Stop(w)
    BY <1>8 DEF I!QueueNext, I!HandOver, I!Finish, I!Fail
  <2> QED BY <1>a, <1>s, <2>1
<1>9. ASSUME NEW w \in MailWorkers, NEW p \in {"hand", "finish", "reset"}, I!Goto(w, p), work[w].pc # "idle"
      PROVE  TasksKnown'
  BY <1>0, <1>a, <1>g, <1>9 DEF Booting, TasksKnown
<1>10. ASSUME NEW w \in MailWorkers, I!Recent(w) PROVE TasksKnown'
  BY <1>10, <1>9, <1>a, <1>s DEF I!Recent
<1>11. ASSUME NEW w \in MailWorkers, I!Complete(w) PROVE TasksKnown'
  BY <1>11, <1>9 DEF I!Complete
<1>12. ASSUME NEW w \in MailWorkers, NEW last \in BOOLEAN, I!Page(w, last) PROVE TasksKnown'
  BY <1>12, <1>9, <1>a, <1>s DEF I!Page
<1>13. ASSUME NEW w \in MailWorkers, I!RejectToken(w) \/ I!Reset(w) PROVE TasksKnown'
  BY <1>13, <1>9 DEF I!RejectToken, I!Reset
<1>14. ASSUME NEW w \in MailWorkers, I!Expire(w) PROVE TasksKnown'
  BY <1>14, <1>c DEF I!Expire
<1>15. ASSUME I!Activate \/ I!Ensure \/ I!Poll \/ I!SignIn \/ (\E t \in Conversations : I!Expunge(t)) \/ UNCHANGED I!vars
       PROVE  TasksKnown'
  BY <1>15, <1>c DEF I!Activate, I!Ensure, I!Poll, I!SignIn, I!Expunge, I!vars
<1> QED
  BY <1>1, <1>2, <1>3, <1>4, <1>5, <1>6, <1>7, <1>8, <1>10, <1>11, <1>12, <1>13, <1>14, <1>15 DEF I!Next, I!Work


LEMMA RowStaysKnown ==
  ASSUME ImportInv, [I!Next]_(I!vars)
  PROVE  RowKnown'
<1> USE DEF I!bounds, I!window, I!NoGen
<1>0. I!TypeOK /\ TasksKnown /\ RowKnown /\ I!WindowAgrees /\ row \in I!Rows
  BY DEF ImportInv, SetupIsTrue, I!TypeOK
<1>m. (row.sync # 0 => row'.sync # 0) /\ (row.first => row'.first)
  BY SyncStays
<1>b. ~I!Ensure /\ row.sync = 0 => (I!Active(I!Successors)' => I!Active(I!Successors))
  <2>1. row.sync = 0 => \A w \in MailWorkers : ~I!QueueNext(w)
    BY <1>0 DEF TasksKnown, Booting, I!QueueNext
  <2> QED BY <2>1, SuccessorsStay
(* What a worker past its first step changes leaves the rest as it is.      *)
<1>a. ASSUME row'.sync # 0, row'.window => row'.first,
             row'.rec # 0 /\ ~row'.meta => row'.rec = row'.sync
      PROVE  RowKnown'
  BY <1>a DEF RowKnown
<1>s. ASSUME row'.sync = row.sync, row'.window = row.window, row'.first = row.first, ~I!Ensure,
             row'.sync # 0 /\ row'.rec # 0 /\ ~row'.meta => row'.rec = row'.sync
      PROVE  RowKnown'
  BY <1>0, <1>b, <1>s DEF RowKnown
<1>1. ASSUME NEW w \in MailWorkers, I!Start(w), ~I!Ensure PROVE RowKnown'
  <2>1. row'.sync = row.sync /\ row'.window = row.window /\ row'.first = row.first /\ row'.meta = row.meta
    BY <1>0, <1>1 DEF I!Start, I!Rows
  <2>2. CASE row.rec # 0
    BY <1>0, <1>1, <1>s, <2>1, <2>2 DEF I!Start, RowKnown
  <2>3. CASE row.rec = 0 /\ I!Pending
    <3>1. row'.rec = row.sync
      BY <1>0, <1>1, <2>3 DEF I!Start, I!Rows
    <3> QED BY <1>1, <1>s, <2>1, <3>1
  <2>4. CASE ~I!Pending
    BY <1>1, <1>s, <2>1, <2>4 DEF I!Pending
  <2> QED BY <2>2, <2>3, <2>4
<1>2. ASSUME NEW w \in MailWorkers, I!Progress(w), ~I!Ensure PROVE RowKnown'
  <2> DEFINE g == work[w].gen
  <2>0. g # 0
    BY <1>0, <1>2 DEF I!Progress, TasksKnown, Booting
  <2>1. CASE row.rec # g \/ row.sync = g
    <3>1. row' = row
      BY <1>2, <2>1 DEF I!Progress, I!Continues
    <3> QED BY <1>0, <1>2, <1>s, <3>1 DEF RowKnown
  <2>2. CASE row.rec = g /\ row.sync # g
    <3>1. row' = I!Restarted(g)
      BY <1>2, <2>2 DEF I!Progress, I!Continues
    <3>2. row'.sync = g /\ row'.rec = g /\ row'.window = FALSE
      BY <1>0, <2>2, <3>1 DEF I!Restarted, I!Rows
    <3> QED BY <1>a, <2>0, <3>2
  <2> QED BY <2>1, <2>2
<1>3. ASSUME NEW w \in MailWorkers, I!Discover(w) \/ I!CommitBatch(w) \/ I!Complete(w) PROVE RowKnown'
  <2>1. row.sync # 0
    BY <1>0, <1>3 DEF TasksKnown, Booting, I!Discover, I!CommitBatch, I!Complete
  <2>2. CASE I!Discover(w)
    <3>1. /\ row'.sync = row.sync /\ row'.rec = row.rec /\ row'.meta = row.meta
          /\ row'.window => row'.first
      BY <1>0, <2>2 DEF I!Discover, I!Rows, RowKnown
    <3> QED BY <1>0, <1>a, <2>1, <3>1 DEF RowKnown
  <2>3. CASE I!CommitBatch(w)
    <3>1. /\ row'.sync = row.sync /\ row'.rec = row.rec /\ row'.meta = row.meta
          /\ row'.window => row'.first
      BY <1>0, <2>3 DEF I!CommitBatch, I!Rows, RowKnown
    <3> QED BY <1>0, <1>a, <2>1, <3>1 DEF RowKnown
  <2>4. CASE I!Complete(w)
    <3>1. row'.sync = row.sync /\ row'.rec = row.rec /\ row'.meta = row.meta /\ row'.first
      BY <1>0, <2>4 DEF I!Complete, I!Rows
    <3> QED BY <1>0, <1>a, <2>1, <3>1 DEF RowKnown
  <2> QED BY <1>3, <2>2, <2>3, <2>4
<1>4. ASSUME NEW w \in MailWorkers, NEW last \in BOOLEAN, I!Page(w, last), ~I!Ensure PROVE RowKnown'
  <2>1. /\ row'.sync = row.sync /\ row'.window = row.window /\ row'.first = row.first
        /\ row'.rec = row.rec /\ row'.meta = row.meta
    BY <1>0, <1>4 DEF I!Page, I!Rows
  <2> QED BY <1>0, <1>4, <1>s, <2>1 DEF RowKnown
<1>5. ASSUME NEW w \in MailWorkers, I!Finish(w), ~I!Ensure PROVE RowKnown'
  <2>1. row'.sync = row.sync /\ row'.window = row.window /\ row'.first = row.first /\ (row' = row \/ row'.rec = 0)
    BY <1>0, <1>5 DEF I!Finish, I!Finished, I!Rows
  <2> QED BY <1>0, <1>5, <1>s, <2>1 DEF RowKnown
<1>6. ASSUME NEW w \in MailWorkers, I!Reset(w), ~I!Ensure PROVE RowKnown'
  <2>1. row'.sync = row.sync /\ row'.window = row.window /\ row'.first = row.first /\ (row' = row \/ row'.rec = 0)
    BY <1>0, <1>6 DEF I!Reset, I!Rows
  <2> QED BY <1>0, <1>6, <1>s, <2>1 DEF RowKnown
<1>7. ASSUME I!Activate PROVE RowKnown'
  <2> DEFINE g == IF row.rec # 0 THEN row.rec ELSE gens + 1
  <2>1. PICK full \in BOOLEAN :
          row' = [row EXCEPT !.sync = g, !.count = I!Cardinality(kept), !.window = TRUE, !.meta = full]
    BY <1>7 DEF I!Activate
  <2>2. g # 0
    BY <1>0 DEF I!TypeOK, I!Gens
  <2>3. row'.rec # 0 => row'.rec = g
    BY <1>0, <2>1 DEF I!Rows
  <2> HIDE DEF g
  <2>4. row'.sync = g /\ row'.first = row.first
    BY <1>0, <2>1 DEF I!Rows
  <2>5. row.first
    BY <1>7 DEF I!Activate, I!Legacy
  <2> QED BY <1>a, <2>2, <2>3, <2>4, <2>5
<1>8. ASSUME I!Ensure PROVE RowKnown'
  <2>1. row' = row /\ work' = work
    BY <1>8 DEF I!Ensure
  <2>2. row.sync = 0 => queue' \cap I!Successors \subseteq queue
    BY <1>8 DEF I!Ensure, I!EnsureQueued, I!Enqueue, I!Missing, I!Filling, I!Successors
  <2> QED BY <1>0, <2>1, <2>2 DEF RowKnown, I!Active
<1>9. ASSUME row' = row, ~I!Ensure PROVE RowKnown'
  BY <1>0, <1>9, <1>s DEF RowKnown
<1>10. ASSUME NEW w \in MailWorkers,
             \/ \E k \in I!Jobs : I!Begin(w, k)
             \/ I!List(w) \/ I!Select(w) \/ I!QueueNext(w) \/ I!Recent(w) \/ I!HandOver(w)
             \/ I!RejectToken(w) \/ I!Fail(w) \/ I!Expire(w)
      PROVE  row' = row
  BY <1>10 DEF I!Begin, I!List, I!Select, I!QueueNext, I!Recent, I!HandOver, I!RejectToken, I!Fail, I!Expire
<1>11. ASSUME I!Poll \/ I!SignIn \/ (\E t \in Conversations : I!Expunge(t)) \/ UNCHANGED I!vars PROVE row' = row
  BY <1>11 DEF I!Poll, I!SignIn, I!Expunge, I!vars
<1> QED
  BY <1>1, <1>2, <1>3, <1>4, <1>5, <1>6, <1>7, <1>8, <1>9, <1>10, <1>11 DEF I!Next, I!Work

(* While the window is complete and stays so, no bootstrap begins to fill    *)
(* it: what a worker selects of it is nothing.                              *)
LEMMA FillersStayOut ==
  ASSUME ImportInv, [I!Next]_(I!vars), row.window, row'.window, NoneFills
  PROVE  NoneFills'
<1> USE DEF I!bounds, I!window, I!NoGen
<1>0. I!TypeOK /\ TasksKnown /\ RowKnown /\ I!WindowAgrees /\ row \in I!Rows
  BY DEF ImportInv, SetupIsTrue, I!TypeOK
<1>1. ~I!Active(I!Successors)'
  <2>1. CASE I!Ensure
    <3>1. row.sync # 0 /\ row.first /\ ~I!Filling /\ work' = work
      BY <1>0, <2>1 DEF RowKnown, I!Filling, I!Ensure
    <3>2. queue' \cap I!Successors \subseteq queue
      BY <2>1, <3>1 DEF I!Ensure, I!EnsureQueued, I!Enqueue, I!Missing, I!Successors
    <3> QED BY <3>1, <3>2 DEF NoneFills, I!Active
  <2>2. CASE ~I!Ensure
    <3>1. \A w \in MailWorkers : ~I!QueueNext(w)
      BY DEF NoneFills, Filling, I!QueueNext
    <3> QED BY <2>2, <3>1, SuccessorsStay DEF NoneFills
  <2> QED BY <2>1, <2>2
<1>a. ASSUME NEW w \in MailWorkers, NEW p, p \notin Filling,
             \A v \in MailWorkers \ {w} : work'[v] = work[v], work'[w].pc = p
      PROVE  NoneFills'
  BY <1>1, <1>a DEF NoneFills
<1>c. ASSUME UNCHANGED work PROVE NoneFills'
  BY <1>1, <1>c DEF NoneFills
<1>s. \A w \in MailWorkers : I!Stop(w) => NoneFills'
  BY <1>0, <1>a DEF I!Stop, I!TypeOK, I!Idle, Filling
<1>g. \A w \in MailWorkers : \A p : p \notin Filling /\ I!Goto(w, p) => NoneFills'
  BY <1>0, <1>a DEF I!Goto, I!TypeOK, I!Tasks
<1>f. \A w \in MailWorkers : work[w].pc \notin Filling
  BY DEF NoneFills
<1>2. ASSUME NEW w \in MailWorkers, NEW k \in I!Jobs, I!Begin(w, k) PROVE NoneFills'
  <2> DEFINE p == IF row.rec = 0 /\ (k # "import" \/ ~row.auth) THEN "start"
                             ELSE CASE k \in I!Boot -> "progress"
                                    [] k = "import" -> IF row.auth THEN "poll" ELSE "recent"
                                    [] k = "reconcile" -> IF row.listed THEN "finish" ELSE "page"
  <2>1. p \notin Filling
    BY DEF I!Jobs, Filling
  <2>2. work' = [work EXCEPT ![w] = [I!Idle EXCEPT !.job = k, !.gen = row.rec, !.pc = p]]
    BY <1>2 DEF I!Begin
  <2> HIDE DEF p
  <2>3. work'[w].pc = p /\ \A v \in MailWorkers \ {w} : work'[v] = work[v]
    BY <1>0, <2>2 DEF I!TypeOK, I!Idle
  <2> QED BY <1>a, <2>1, <2>3
<1>3. ASSUME NEW w \in MailWorkers, I!Start(w) PROVE NoneFills'
  <2> DEFINE p == CASE work[w].pc = "start" /\ work[w].job \in I!Boot -> "progress"
                                        [] work[w].job = "import" -> "recent"
                                        [] work[w].job = "reconcile" -> IF row'.listed THEN "finish" ELSE "page"
  <2>1. p \notin Filling
    BY <1>0, <1>3 DEF I!Start, I!Jobs, Filling, TasksKnown
  <2>2. work' = [work EXCEPT ![w].gen = row'.rec, ![w].pc = p]
    BY <1>0, <1>3 DEF I!Start, I!TypeOK, I!Tasks
  <2> HIDE DEF p
  <2>3. work'[w].pc = p /\ \A v \in MailWorkers \ {w} : work'[v] = work[v]
    BY <1>0, <2>2 DEF I!TypeOK, I!Tasks
  <2> QED BY <1>a, <2>1, <2>3
<1>4. ASSUME NEW w \in MailWorkers, I!Progress(w) PROVE NoneFills'
  BY <1>4, <1>s, <1>g DEF I!Progress, Filling
<1>5. ASSUME NEW w \in MailWorkers, I!Select(w) PROVE NoneFills'
  <2>1. PICK ts \in I!Batches(work[w].gen) :
          work' = [work EXCEPT ![w].batch = ts, ![w].pc = IF ts = {} THEN "complete" ELSE "commit"]
    BY <1>5 DEF I!Select
  <2>2. ts = {}
    BY <1>0, <2>1 DEF I!Batches, I!Of, I!WindowAgrees
  <2>3. work' = [work EXCEPT ![w].batch = ts, ![w].pc = "complete"]
    BY <2>1, <2>2
  <2>4. work'[w].pc = "complete" /\ \A v \in MailWorkers \ {w} : work'[v] = work[v]
    BY <1>0, <2>3 DEF I!TypeOK, I!Tasks
  <2> QED BY <1>a, <2>4 DEF Filling
<1>6. ASSUME NEW w \in MailWorkers, I!List(w) \/ I!Discover(w) \/ I!CommitBatch(w) \/ I!QueueNext(w) PROVE FALSE
  BY <1>f, <1>6 DEF I!List, I!Discover, I!CommitBatch, I!QueueNext, Filling
<1>7. ASSUME NEW w \in MailWorkers, I!Recent(w) \/ I!Complete(w) PROVE NoneFills'
  BY <1>7, <1>s, <1>g DEF I!Recent, I!Complete, Filling
<1>8. ASSUME NEW w \in MailWorkers, I!HandOver(w) \/ I!Finish(w) \/ I!Fail(w) PROVE NoneFills'
  BY <1>8, <1>s DEF I!HandOver, I!Finish, I!Fail
<1>9. ASSUME NEW w \in MailWorkers, NEW last \in BOOLEAN, I!Page(w, last) PROVE NoneFills'
  BY <1>9, <1>s, <1>g DEF I!Page, Filling
<1>10. ASSUME NEW w \in MailWorkers, I!RejectToken(w) \/ I!Reset(w) PROVE NoneFills'
  BY <1>10, <1>g DEF I!RejectToken, I!Reset, Filling
<1>11. ASSUME \/ \E w \in MailWorkers : I!Expire(w)
              \/ I!Activate \/ I!Ensure \/ I!Poll \/ I!SignIn \/ (\E t \in Conversations : I!Expunge(t))
              \/ UNCHANGED I!vars
       PROVE  NoneFills'
  BY <1>11, <1>c DEF I!Expire, I!Activate, I!Ensure, I!Poll, I!SignIn, I!Expunge, I!vars
<1> QED
  BY <1>2, <1>3, <1>4, <1>5, <1>6, <1>7, <1>8, <1>9, <1>10, <1>11 DEF I!Next, I!Work

(* The window is complete, and nothing fills it, when a listing comes to its *)
(* end in time.                                                             *)
LEMMA DueIsQuiet ==
  ASSUME ImportInv, I!Due
  PROVE  row.window /\ NoneFills
<1>1. \A w \in MailWorkers : work[w].job \notin I!Boot
  BY DEF I!Due, I!Bootstrapping
<1>2. \A w \in MailWorkers : work[w].pc \notin Filling
  BY <1>1 DEF ImportInv, TasksKnown, Booting, Filling
<1> QED BY <1>1, <1>2 DEF I!Due, NoneFills, I!Active, I!Boot

(* A history is complete, or listed to its end, behind a complete window     *)
(* that nothing fills, unless the scan overtook a bootstrap.                *)
LEMMA BootstrapsStayFirst ==
  ASSUME ImportInv, [I!Next]_(I!vars)
  PROVE  BootstrapsFirst'
<1> USE DEF I!bounds, I!window, I!NoGen
<1>0. I!TypeOK /\ TasksKnown /\ RowKnown /\ BootstrapsFirst /\ row \in I!Rows
  BY DEF ImportInv, I!TypeOK
<1>s. ASSUME overtaken' = overtaken, row'.listed => row.listed, row'.meta => row.meta \/ row.listed,
             row.window => row'.window
      PROVE  BootstrapsFirst'
  BY <1>0, <1>s, FillersStayOut DEF BootstrapsFirst
<1>1. ASSUME NEW w \in MailWorkers, I!Start(w) PROVE BootstrapsFirst'
  <2>1. overtaken' = overtaken /\ row'.meta = row.meta /\ row'.window = row.window /\ (row'.listed => row.listed)
    BY <1>0, <1>1 DEF I!Start, I!Rows
  <2> QED BY <1>s, <2>1
<1>2. ASSUME NEW w \in MailWorkers, I!Progress(w) PROVE BootstrapsFirst'
  <2> DEFINE g == work[w].gen
  <2>1. CASE row.rec # g
    <3>1. row' = row /\ overtaken' = overtaken
      BY <1>2, <2>1 DEF I!Progress
    <3> QED BY <1>s, <3>1
  <2>2. CASE row.rec = g /\ row.sync = g
    <3>1. row' = row /\ overtaken' = overtaken
      BY <1>0, <1>2, <2>2 DEF I!Progress, I!Continues, I!TypeOK
    <3> QED BY <1>s, <3>1
  <2>3. CASE row.rec = g /\ row.sync # g
    <3>1. row' = I!Restarted(g) /\ overtaken' = (overtaken \/ row.listed)
      BY <1>2, <2>3 DEF I!Progress, I!Continues
    <3>2. row'.meta = FALSE /\ row'.listed = row.listed
      BY <1>0, <3>1 DEF I!Restarted, I!Rows
    <3> QED BY <3>1, <3>2 DEF BootstrapsFirst
  <2> QED BY <2>1, <2>2, <2>3
<1>3. ASSUME NEW w \in MailWorkers, I!Discover(w) \/ I!CommitBatch(w) \/ I!Complete(w) PROVE BootstrapsFirst'
  <2>1. CASE I!Discover(w)
    <3>1. row'.listed = row.listed /\ row'.meta = row.meta /\ overtaken' = overtaken
      BY <1>0, <2>1 DEF I!Discover, I!Rows
    <3>2. row.window => row'.window
      BY <1>0, <2>1 DEF I!Discover, I!Discovered, I!Rows
    <3> QED BY <1>s, <3>1, <3>2
  <2>2. CASE I!CommitBatch(w)
    <3>1. /\ row'.listed = row.listed /\ row'.meta = row.meta /\ overtaken' = overtaken
          /\ row.window => row'.window
      BY <1>0, <2>2 DEF I!CommitBatch, I!Rows
    <3> QED BY <1>s, <3>1
  <2>3. CASE I!Complete(w)
    <3>1. /\ row'.listed = row.listed /\ row'.meta = row.meta /\ overtaken' = overtaken
          /\ row'.window = row.window
      BY <1>0, <2>3 DEF I!Complete, I!Rows
    <3> QED BY <1>s, <3>1
  <2> QED BY <1>3, <2>1, <2>2, <2>3
<1>4. ASSUME NEW w \in MailWorkers, NEW last \in BOOLEAN, I!Page(w, last) PROVE BootstrapsFirst'
  <2>1. row'.window = row.window /\ row'.meta = row.meta /\ (row'.listed => row.listed \/ last)
    BY <1>0, <1>4 DEF I!Page, I!Rows
  <2>2. CASE last /\ ~I!Due
    <3>1. overtaken'
      BY <1>4, <2>2 DEF I!Page, I!Last
    <3> QED BY <3>1 DEF BootstrapsFirst
  <2>3. CASE last /\ I!Due
    <3>1. row.window /\ NoneFills
      BY <2>3, DueIsQuiet
    <3> QED BY <2>1, <3>1, FillersStayOut DEF BootstrapsFirst
  <2>4. CASE ~last
    <3>1. overtaken' = overtaken
      BY <1>4, <2>4 DEF I!Page, I!Last
    <3> QED BY <1>s, <2>1, <2>4, <3>1
  <2> QED BY <2>2, <2>3, <2>4
<1>5. ASSUME NEW w \in MailWorkers, I!Finish(w) PROVE BootstrapsFirst'
  <2>1. overtaken' = overtaken
    BY <1>5 DEF I!Finish
  <2>2. row'.window = row.window /\ (row'.listed => row.listed) /\ (row'.meta => row.meta \/ row.listed)
    BY <1>0, <1>5 DEF I!Finish, I!Finished, I!Rows
  <2> QED BY <1>s, <2>1, <2>2
<1>6. ASSUME NEW w \in MailWorkers, I!Reset(w) PROVE BootstrapsFirst'
  <2>1. overtaken' = overtaken
    BY <1>6 DEF I!Reset
  <2>2. row'.window = row.window /\ (row'.listed => row.listed) /\ row'.meta = row.meta
    BY <1>0, <1>6 DEF I!Reset, I!Rows
  <2> QED BY <1>s, <2>1, <2>2
<1>7. ASSUME I!Activate PROVE BootstrapsFirst'
  <2>1. row.sync = 0 /\ work' = work /\ queue' = queue
    BY <1>7 DEF I!Activate, I!Legacy
  <2>2. NoneFills
    BY <1>0, <2>1 DEF RowKnown, TasksKnown, Booting, NoneFills, Filling
  <2>3. NoneFills'
    BY <2>1, <2>2 DEF NoneFills, I!Active
  <2>4. row'.window
    BY <1>0, <1>7 DEF I!Activate, I!Rows
  <2> QED BY <2>3, <2>4 DEF BootstrapsFirst
<1>8. ASSUME row' = row, overtaken' = overtaken PROVE BootstrapsFirst'
  BY <1>8, <1>s
<1>9. ASSUME NEW w \in MailWorkers,
             \/ \E k \in I!Jobs : I!Begin(w, k)
             \/ I!List(w) \/ I!Select(w) \/ I!QueueNext(w) \/ I!Recent(w) \/ I!HandOver(w)
             \/ I!RejectToken(w) \/ I!Fail(w) \/ I!Expire(w)
      PROVE  row' = row /\ overtaken' = overtaken
  BY <1>9 DEF I!Begin, I!List, I!Select, I!QueueNext, I!Recent, I!HandOver, I!RejectToken, I!Fail, I!Expire, I!Fault
<1>10. ASSUME I!Ensure \/ I!Poll \/ I!SignIn \/ (\E t \in Conversations : I!Expunge(t)) \/ UNCHANGED I!vars
       PROVE  row' = row /\ overtaken' = overtaken
  BY <1>10 DEF I!Ensure, I!Poll, I!SignIn, I!Expunge, I!vars, I!Fault
<1> QED
  BY <1>1, <1>2, <1>3, <1>4, <1>5, <1>6, <1>7, <1>8, <1>9, <1>10 DEF I!Next, I!Work

(* A complete window is begun anew for another generation, and by a first    *)
(* run, unless a scan overtook a bootstrap.                                 *)
LEMMA OnlyFirstRunsRestart ==
  ASSUME ImportInv, [I!Next]_(I!vars), row.window, ~row'.window
  PROVE  /\ row'.sync # row.sync
         /\ overtaken \/ \E w \in MailWorkers : /\ work[w].job \in I!FirstRuns
                                                /\ work[w].pc = "progress" /\ work'[w].pc # "progress"
<1> USE DEF I!bounds, I!window, I!NoGen
<1>0. I!TypeOK /\ TasksKnown /\ RowKnown /\ BootstrapsFirst /\ row \in I!Rows
  BY DEF ImportInv, I!TypeOK
<1>1. \A w \in MailWorkers : ~I!Discover(w) /\ ~I!CommitBatch(w)
  <2>1. ASSUME NEW w \in MailWorkers, I!Discover(w) PROVE FALSE
    BY <1>0, <2>1 DEF I!Discover, I!Discovered, I!Rows
  <2>2. ASSUME NEW w \in MailWorkers, I!CommitBatch(w) PROVE FALSE
    BY <1>0, <2>2 DEF I!CommitBatch, I!Rows
  <2> QED BY <2>1, <2>2
<1>2. ~I!Activate
  BY <1>0 DEF I!Activate, I!Rows
<1>3. PICK w \in MailWorkers : I!Progress(w)
  BY <1>0, <1>1, <1>2, WindowSteps
<1> DEFINE g == work[w].gen
<1>4. row.rec = g /\ row.sync # g
  BY <1>3 DEF I!Progress, I!Continues
<1>5. row' = I!Restarted(g)
  BY <1>3, <1>4 DEF I!Progress, I!Continues
<1>6. row'.sync # row.sync
  BY <1>0, <1>4, <1>5 DEF I!Restarted, I!Rows
<1>7. work[w].pc = "progress" /\ work[w].job \in I!Boot /\ g # 0
  BY <1>0, <1>3 DEF I!Progress, TasksKnown, Booting
<1>8. work'[w].pc # "progress"
  BY <1>0, <1>3, <1>4 DEF I!Progress, I!Goto, I!TypeOK, I!Tasks
<1>9. overtaken \/ work[w].job \notin I!Successors
  <2>1. row.meta
    BY <1>0, <1>4, <1>7 DEF RowKnown
  <2> QED BY <1>0, <2>1 DEF BootstrapsFirst, NoneFills, I!Active
<1> QED BY <1>6, <1>7, <1>8, <1>9 DEF I!Boot

LEMMA ImportStep ==
  ASSUME ImportInv, [I!Next]_(I!vars)
  PROVE  ImportInv'
BY ImportStepTyped, WindowKept, HistoryKept, TasksStayKnown, RowStaysKnown, BootstrapsStayFirst
   DEF ImportInv, SetupIsTrue

-----------------------------------------------------------------------------
(* The window's entries are those of the generation the progress follows,   *)
(* the counter counts the ones that are stored, a complete window has no    *)
(* other, and a history that is called complete has every conversation      *)
(* Gmail has: whatever bootstraps, reconciliations and imports overlap,      *)
(* fail, lose their lease or run again (gmail_importer.py).                 *)
THEOREM SetupTellsTheTruth == I!Spec => []SetupIsTrue
<1>1. ImportInv /\ [I!Next]_(I!vars) => ImportInv'
  BY ImportStep
<1>2. ImportInv => SetupIsTrue
  BY DEF ImportInv
<1> QED BY <1>1, <1>2, InitImportInv, PTL DEF I!Spec

(* A generation's window is listed once (initialize_gmail_initial_window),   *)
(* and a complete one is begun anew (start_gmail_sync_progress) only for     *)
(* another generation and by a first run, of a sign-in or a poll, unless a   *)
(* reconciliation was over before a bootstrap.                              *)
THEOREM WindowsStand == I!Spec => WindowStands
<1>1. ImportInv /\ [I!Next]_(I!vars) => ImportInv'
  BY ImportStep
<1>2. ImportInv /\ [I!Next]_(I!vars) => [entries # {} /\ row'.sync = row.sync => entries' = entries]_(I!vars)
  BY WindowKept
<1>3. ImportInv /\ [I!Next]_(I!vars) =>
        [row.window /\ ~row'.window =>
           /\ row'.sync # row.sync
           /\ overtaken \/ \E w \in MailWorkers : /\ work[w].job \in I!FirstRuns
                                                  /\ work[w].pc = "progress" /\ work'[w].pc # "progress"]_(I!vars)
  BY OnlyFirstRunsRestart
<1>4. I!Spec => I!DiscoveredOnce
  BY <1>1, <1>2, InitImportInv, PTL DEF I!Spec, I!DiscoveredOnce
<1>5. I!Spec => I!SetupNeverRegresses
  BY <1>1, <1>3, InitImportInv, PTL DEF I!Spec, I!SetupNeverRegresses
<1> QED BY <1>4, <1>5 DEF WindowStands
=============================================================================
