------------------------- MODULE BodyHydrationProofs -------------------------
(***************************************************************************)
(* Theorems about the bodies of stored mail (BodyHydration), for every     *)
(* number of workers, messages, conversations, page sizes and faults and   *)
(* however transactions overlap: no entry of the initial window waits for  *)
(* nothing, but for conversations that two open transactions write at once, *)
(* and a final body is not given up.                                       *)
(*                                                                         *)
(* A transaction computes its marks when its statements run, and others    *)
(* commit before it does.  The rows it wrote are locked until then, so      *)
(* that two open ones never own the same row (Apart); and of a conversation *)
(* in which it alone wrote rows, what lacks a body does not shrink under   *)
(* it, so that its marks are still right when it commits (Sees).           *)
(***************************************************************************)
EXTENDS MC_BodyHydration, FiniteSetTheorems, TLAPS

-----------------------------------------------------------------------------
(* The invariant.  Its parts take the state as arguments: b the bodies, g    *)
(* the mail Gmail has, r the entries that are ready, c the conversations     *)
(* that were crossed, k a task, i the importer.                             *)

(* An entry has nothing to wait for only if it is ready or was crossed.      *)
Settled(t, b, r, c) == t \in c \cup r \/ In(t) \cap Lacking(b) # {}

(* A transaction that would leave a conversation without a lacking body     *)
(* marks its entry.                                                         *)
Sees(tx, b, c) ==
    \A t \in Window \ c :
        tx.own \cap In(t) # {} /\ In(t) \cap Lacking(b) \subseteq tx.own => t \in tx.marks

(* Two open transactions own different rows, of different conversations.    *)
Apart(tx, ux, c) ==
    tx.on /\ ux.on =>
        /\ tx.own \cap ux.own = {}
        /\ \A t \in Thread \ c : tx.own \cap In(t) = {} \/ ux.own \cap In(t) = {}

AllApart(ks, i, c) ==
    /\ \A w, x \in Workers : w # x => Apart(ks[w].tx, ks[x].tx, c)
    /\ \A w \in Workers : Apart(ks[w].tx, i.tx, c)

(* What a job's open transaction computed is still so.                      *)
TaskFine(k, b, g, c) ==
    k.tx.on =>
        /\ k.pc \in {"drop", "persist", "spoil", "recount", "settle"}
        /\ k.tx.marks \subseteq Window /\ Sees(k.tx, b, c)
        /\ k.tx.own # {} => k.tx.as \in Final \cup {"none"}
        /\ k.pc = "drop" => k.tx.as = "none" /\ k.tx.own \cap g = {}
        /\ k.pc = "persist" => k.tx.as = "fetched"
        /\ k.pc = "spoil" => k.tx.own \subseteq Lacking(b)
        /\ k.pc \in {"recount", "settle"} => k.tx.own = {}

(* And the importer's; a store leaves what it lists something to wait for.  *)
ImportFine(i, b, g, r, c) ==
    i.tx.on =>
        /\ i.pc \in {"store", "remove", "conclude"}
        /\ i.tx.marks \subseteq Window
        /\ i.pc = "remove" => i.tx.as = "none" /\ i.tx.own \cap g = {} /\ Sees(i.tx, b, c)
        /\ i.pc = "conclude" => i.tx.own = {}
        /\ i.pc = "store" =>
             /\ i.tx.as = "missing" /\ \A m \in i.tx.own : b[m] \notin Final
             /\ \A t \in i.meta : t \in i.tx.marks \/ i.tx.own \cap In(t) # {} \/ Settled(t, b, r, c)

(* What a job or the importer is about to delete is no longer at Gmail.     *)
Gone(ks, i, g) ==
    /\ \A w \in Workers : ks[w].lost \cap g = {}
    /\ i.pc = "remove" => i.ms \cap g = {}

BodyInv ==
    /\ TypeOK /\ AllApart(task, importer, crossed)
    /\ \A w \in Workers : TaskFine(task[w], body, gmail, crossed)
    /\ ImportFine(importer, body, gmail, ready, crossed)
    /\ Gone(task, importer, gmail) /\ importer.meta \subseteq Window
    /\ \A t \in listed : Settled(t, body, ready, crossed)

(* The invariant of the next state, from its parts.                         *)
LEMMA Primed ==
  ASSUME TypeOK', AllApart(task', importer', crossed'),
         \A w \in Workers : TaskFine(task'[w], body', gmail', crossed'),
         ImportFine(importer', body', gmail', ready', crossed'),
         Gone(task', importer', gmail'), importer'.meta \subseteq Window,
         \A t \in listed' : Settled(t, body', ready', crossed')
  PROVE  BodyInv'
<1>1. AllApart(task, importer, crossed)'
  BY DEF AllApart, Apart, In
<1>2. \A w \in Workers : TaskFine(task[w], body, gmail, crossed)'
  BY DEF TaskFine, Sees, In, Lacking, Stored, Final
<1>3. ImportFine(importer, body, gmail, ready, crossed)'
  BY DEF ImportFine, Sees, Settled, In, Lacking, Stored, Final
<1>4. Gone(task, importer, gmail)' /\ (importer.meta \subseteq Window)'
  BY DEF Gone
<1>5. (\A t \in listed : Settled(t, body, ready, crossed))'
  BY DEF Settled, In, Lacking, Stored, Final
<1> QED BY <1>1, <1>2, <1>3, <1>4, <1>5 DEF BodyInv

-----------------------------------------------------------------------------
(* Types and transactions.                                                  *)

LEMMA TallyTyped ==
  ASSUME IsFiniteSet(Window), NEW S \in SUBSET Window
  PROVE  Cardinality(S) \in 0..Cardinality(Window)
<1>1. IsFiniteSet(S) /\ Cardinality(S) <= Cardinality(Window)
  BY FS_Subset
<1> QED BY <1>1, FS_CardinalityType

LEMMA TxTyped ==
  ASSUME IsFiniteSet(Window), TypeOK,
         NEW own \in SUBSET Message, NEW s \in Statuses \cup {"none"}, NEW ts \in SUBSET Thread
  PROVE  /\ TxOf(own, s, ts) \in Txs
         /\ TxOf(own, s, ts).on = TRUE /\ TxOf(own, s, ts).own = own /\ TxOf(own, s, ts).as = s
         /\ TxOf(own, s, ts).marks = Resolved(Written(own, s), ts)
         /\ TxOf(own, s, ts).clear = (Lacking(Written(own, s)) = {})
<1> DEFINE marks == Resolved(Written(own, s), ts)
<1>1. marks \subseteq Window /\ marks \subseteq Thread
  BY BodyAssumption DEF Resolved
<1>2. Cardinality(ready \cup marks) \in 0..Cardinality(Window)
  BY <1>1, TallyTyped DEF TypeOK
<1> HIDE DEF marks
<1>3. TxOf(own, s, ts) = [on |-> TRUE, own |-> own, as |-> s, marks |-> marks,
                          tally |-> Cardinality(ready \cup marks), clear |-> Lacking(Written(own, s)) = {}]
  BY DEF TxOf, marks
<1> QED BY <1>1, <1>2, <1>3 DEF Txs, marks

LEMMA NoTxTyped ==
  ASSUME IsFiniteSet(Window)
  PROVE  NoTx \in Txs /\ NoTx.on = FALSE /\ Idle \in Tasks /\ Resting \in Imports
         /\ Idle.tx = NoTx /\ Resting.tx = NoTx /\ Idle.lost = {} /\ Resting.meta = {} /\ Resting.ms = {}
         /\ Idle.pc = "idle" /\ Resting.pc = "idle"
<1>1. 0 \in 0..Cardinality(Window)
  BY FS_CardinalityType
<1>2. NoTx \in Txs
  BY <1>1 DEF NoTx, Txs
<1> QED BY <1>2 DEF NoTx, Idle, Tasks, Resting, Imports

LEMMA TaskFields ==
  ASSUME NEW t \in Tasks
  PROVE  /\ t.job \in Thread \cup {"backfill", NoJob}
         /\ t.want \in SUBSET Message /\ t.got \in SUBSET Message /\ t.bad \in SUBSET Message
         /\ t.lost \in SUBSET Message /\ t.left \in SUBSET Message
         /\ t.tx \in Txs /\ t.tx.own \in SUBSET Message /\ t.tx.as \in Statuses \cup {"none"}
         /\ t.tx.on \in BOOLEAN /\ t.tx.clear \in BOOLEAN
         /\ t.tx.marks \in SUBSET Thread /\ t.tx.tally \in 0..Cardinality(Window)
  BY DEF Tasks, Txs

LEMMA ImportFields ==
  ASSUME TypeOK
  PROVE  /\ importer.ms \in SUBSET Message /\ importer.meta \in SUBSET Thread
         /\ importer.tx \in Txs /\ importer.tx.own \in SUBSET Message /\ importer.tx.as \in Statuses \cup {"none"}
         /\ importer.tx.on \in BOOLEAN /\ importer.tx.clear \in BOOLEAN
         /\ importer.tx.marks \in SUBSET Thread /\ importer.tx.tally \in 0..Cardinality(Window)
  BY DEF TypeOK, Imports, Txs

(* Bodies that lack, and those that lack after a transaction.               *)
LEMMA LackingIs ==
  ASSUME NEW b \in [Message -> Statuses \cup {"none"}]
  PROVE  Lacking(b) = {m \in Message : b[m] \in {"missing", "pending", "stale"}}
  BY DEF Lacking, Stored, Statuses, Final

LEMMA WrittenIs ==
  ASSUME TypeOK, NEW own \in SUBSET Message, NEW s \in Statuses \cup {"none"}
  PROVE  /\ Written(own, s) \in [Message -> Statuses \cup {"none"}]
         /\ \A m \in Message : Written(own, s)[m] = IF m \in own THEN s ELSE body[m]
  BY DEF Written, TypeOK

LEMMA AfterIs ==
  ASSUME TypeOK, NEW own \in SUBSET Message, NEW s \in Statuses \cup {"none"}
  PROVE  /\ s \in Final \cup {"none"} \/ own = {} => Lacking(Written(own, s)) = Lacking(body) \ own
         /\ s = "missing" => Lacking(Written(own, s)) = Lacking(body) \cup own
<1>1. /\ Written(own, s) \in [Message -> Statuses \cup {"none"}]
      /\ \A m \in Message : Written(own, s)[m] = IF m \in own THEN s ELSE body[m]
  BY WrittenIs
<1>2. /\ Lacking(Written(own, s)) = {m \in Message : Written(own, s)[m] \in {"missing", "pending", "stale"}}
      /\ Lacking(body) = {m \in Message : body[m] \in {"missing", "pending", "stale"}}
  BY <1>1, LackingIs DEF TypeOK
<1> QED BY <1>1, <1>2 DEF Final

-----------------------------------------------------------------------------
(* What others do to an open transaction.                                   *)

(* Its rows stay as final as they were, and in the conversations it alone   *)
(* wrote no lacking body is gone.                                           *)
Untouched(tx, b, bb, c) ==
    /\ \A m \in tx.own : /\ b[m] \notin Final => bb[m] \notin Final
                         /\ m \in Lacking(b) => m \in Lacking(bb)
    /\ \A t \in Thread \ c : tx.own \cap In(t) # {} => In(t) \cap Lacking(b) \subseteq Lacking(bb)

LEMMA SeesStays ==
  ASSUME NEW tx, NEW b, NEW bb, NEW c, NEW cc, c \subseteq cc,
         Untouched(tx, b, bb, cc), Sees(tx, b, c)
  PROVE  Sees(tx, bb, cc)
<1> SUFFICES ASSUME NEW t \in Window \ cc, tx.own \cap In(t) # {}, In(t) \cap Lacking(bb) \subseteq tx.own
             PROVE  t \in tx.marks
  BY DEF Sees
<1>1. t \in Thread \ cc /\ t \in Window \ c
  BY BodyAssumption
<1>2. In(t) \cap Lacking(b) \subseteq Lacking(bb)
  BY <1>1 DEF Untouched
<1> QED BY <1>1, <1>2 DEF Sees

(* A step that leaves every open transaction as it is, and does not touch    *)
(* it, keeps the invariant; that which it opens it must prove fine.         *)
LEMMA StillKeeps ==
  ASSUME BodyInv, TypeOK', crossed \subseteq crossed', gmail' \subseteq gmail,
         AllApart(task', importer', crossed'),
         \A t \in Window : Settled(t, body, ready, crossed) => Settled(t, body', ready', crossed'),
         \A t \in listed' : t \in listed \/ Settled(t, body', ready', crossed'),
         \A w \in Workers : \/ task'[w].tx.on => /\ task'[w] = task[w]
                                                 /\ Untouched(task[w].tx, body, body', crossed')
                            \/ TaskFine(task'[w], body', gmail', crossed'),
         \/ importer'.tx.on => /\ importer' = importer
                               /\ Untouched(importer.tx, body, body', crossed')
         \/ ImportFine(importer', body', gmail', ready', crossed'),
         Gone(task', importer', gmail'), importer'.meta \subseteq Window
  PROVE  BodyInv'
<1>1. \A w \in Workers : TaskFine(task'[w], body', gmail', crossed')
  <2> SUFFICES ASSUME NEW w \in Workers, task'[w].tx.on, task'[w] = task[w],
                      Untouched(task[w].tx, body, body', crossed')
               PROVE  TaskFine(task'[w], body', gmail', crossed')
    BY DEF TaskFine
  <2>1. TaskFine(task[w], body, gmail, crossed)
    BY DEF BodyInv
  <2>2. Sees(task[w].tx, body', crossed')
    BY <2>1, SeesStays DEF TaskFine
  <2>3. task[w].pc = "spoil" => task[w].tx.own \subseteq Lacking(body')
    BY <2>1 DEF TaskFine, Untouched
  <2> QED BY <2>1, <2>2, <2>3 DEF TaskFine
<1>2. ImportFine(importer', body', gmail', ready', crossed')
  <2> SUFFICES ASSUME importer'.tx.on, importer' = importer,
                      Untouched(importer.tx, body, body', crossed')
               PROVE  ImportFine(importer', body', gmail', ready', crossed')
    BY DEF ImportFine
  <2>1. ImportFine(importer, body, gmail, ready, crossed) /\ importer.meta \subseteq Window
    BY DEF BodyInv
  <2>2. importer.pc = "remove" => Sees(importer.tx, body', crossed')
    BY <2>1, SeesStays DEF ImportFine
  <2>3. importer.pc = "store" => \A m \in importer.tx.own : body'[m] \notin Final
    BY <2>1 DEF ImportFine, Untouched
  <2>4. importer.pc = "store" =>
          \A t \in importer.meta : \/ t \in importer.tx.marks \/ importer.tx.own \cap In(t) # {}
                                   \/ Settled(t, body', ready', crossed')
    BY <2>1 DEF ImportFine
  <2> QED BY <2>1, <2>2, <2>3, <2>4 DEF ImportFine
<1>3. \A t \in listed' : Settled(t, body', ready', crossed')
  BY DEF BodyInv, TypeOK
<1> QED BY <1>1, <1>2, <1>3, Primed

(* A step that opens no transaction leaves them apart.                      *)
LEMMA ApartStay ==
  ASSUME BodyInv, crossed \subseteq crossed',
         \A w \in Workers : task'[w].tx.on => task'[w] = task[w],
         importer'.tx.on => importer' = importer
  PROVE  AllApart(task', importer', crossed')
<1>1. AllApart(task, importer, crossed)
  BY DEF BodyInv
<1>2. ASSUME NEW w \in Workers, NEW x \in Workers, w # x
      PROVE  Apart(task'[w].tx, task'[x].tx, crossed')
  <2> SUFFICES ASSUME task'[w].tx.on, task'[x].tx.on PROVE Apart(task[w].tx, task[x].tx, crossed')
    BY DEF Apart
  <2> QED BY <1>1, <1>2 DEF AllApart, Apart
<1>3. ASSUME NEW w \in Workers
      PROVE  Apart(task'[w].tx, importer'.tx, crossed')
  <2> SUFFICES ASSUME task'[w].tx.on, importer'.tx.on PROVE Apart(task[w].tx, importer.tx, crossed')
    BY DEF Apart
  <2> QED BY <1>1, <1>3 DEF AllApart, Apart
<1> QED BY <1>2, <1>3 DEF AllApart

(* A step that changes neither what lacks nor what is final and opens no     *)
(* transaction keeps the invariant.                                         *)
LEMMA LackingStays ==
  ASSUME BodyInv, TypeOK', UNCHANGED <<listed, ready, crossed>>,
         gmail' \subseteq gmail, Lacking(body') = Lacking(body),
         \A m \in Message : body[m] \notin Final => body'[m] \notin Final,
         \A w \in Workers : task'[w].tx.on => task'[w] = task[w],
         importer'.tx.on => importer' = importer,
         Gone(task', importer', gmail'), importer'.meta \subseteq Window
  PROVE  BodyInv'
<1>1. \A tx : tx.own \in SUBSET Message => Untouched(tx, body, body', crossed')
  BY DEF Untouched
<1>2. /\ \A w \in Workers : task[w].tx.own \in SUBSET Message
      /\ importer.tx.own \in SUBSET Message
  BY TaskFields, ImportFields DEF BodyInv, TypeOK
<1>3. \A t : Settled(t, body, ready, crossed) => Settled(t, body', ready', crossed')
  BY DEF Settled
<1>4. AllApart(task', importer', crossed')
  BY ApartStay
<1>5. /\ \A w \in Workers : task'[w].tx.on =>
            task'[w] = task[w] /\ Untouched(task[w].tx, body, body', crossed')
      /\ importer'.tx.on => importer' = importer /\ Untouched(importer.tx, body, body', crossed')
  BY <1>1, <1>2
<1> QED BY <1>3, <1>4, <1>5, StillKeeps

LEMMA MarkStays ==
  ASSUME TypeOK, NEW ms \in SUBSET Message, NEW s \in {"missing", "pending", "stale"},
         body' = Mark(ms, s)
  PROVE  /\ body' \in [Message -> Statuses \cup {"none"}]
         /\ Lacking(body') = Lacking(body)
         /\ \A m \in Message : body[m] \in Final \cup {"none"} => body'[m] = body[m]
         /\ \A m \in Message : body[m] \notin Final => body'[m] \notin Final
<1>1. Lacking(body) = {m \in Message : body[m] \in {"missing", "pending", "stale"}}
  BY LackingIs DEF TypeOK
<1>2. s \in Statuses \cup {"none"} /\ s \notin Final
  BY DEF Statuses, Final
<1>3. /\ body' \in [Message -> Statuses \cup {"none"}]
      /\ \A m \in Message : body'[m] = IF m \in ms \cap Lacking(body) THEN s ELSE body[m]
  BY <1>2, WrittenIs DEF Mark
<1>4. Lacking(body') = {m \in Message : body'[m] \in {"missing", "pending", "stale"}}
  BY <1>3, LackingIs
<1> QED BY <1>1, <1>2, <1>3, <1>4 DEF Final

LEMMA OnwardTyped ==
  ASSUME NEW t \in Tasks
  PROVE  /\ [t EXCEPT !.pc = Onward(t)] \in Tasks
         /\ [t EXCEPT !.pc = Onward(t)].tx = t.tx
         /\ [t EXCEPT !.pc = Onward(t)].lost = t.lost
<1>1. Onward(t) \in {"drop", "persist", "spoil", "return", "settle"}
  <2>1. CASE t.lost # {}
    BY <2>1 DEF Onward
  <2>2. CASE t.lost = {} /\ t.got # {}
    BY <2>2 DEF Onward
  <2>3. CASE t.lost \cup t.got = {} /\ t.bad # {}
    BY <2>3 DEF Onward
  <2>4. CASE t.lost \cup t.got \cup t.bad = {}
    BY <2>4 DEF Onward
  <2> QED BY <2>1, <2>2, <2>3, <2>4
<1> QED BY <1>1 DEF Tasks

(* A worker's step between transactions.                                    *)
LEMMA WorkerStays ==
  ASSUME BodyInv, IsFiniteSet(Window), NEW w \in Workers, NEW t \in Tasks,
         task' = [task EXCEPT ![w] = t], t.tx.on => t = task[w], t.lost \cap gmail = {},
         UNCHANGED <<gmail, listed, ready, count, metaDone, bodyDone, importer, crossed>>,
         body' \in [Message -> Statuses \cup {"none"}], Lacking(body') = Lacking(body),
         \A m \in Message : body[m] \notin Final => body'[m] \notin Final,
         fetches' \in SUBSET Thread, backfill' \in BOOLEAN, lock' \in Workers \cup {NoJob},
         faults' \in 0..MaxFaults
  PROVE  BodyInv'
<1>1. TypeOK /\ Gone(task, importer, gmail) /\ importer.meta \subseteq Window
  BY DEF BodyInv
<1>2. TypeOK'
  BY <1>1 DEF TypeOK
<1>3. \A x \in Workers : task'[x] = IF x = w THEN t ELSE task[x]
  BY <1>1 DEF TypeOK
<1>4. /\ \A x \in Workers : task'[x].tx.on => task'[x] = task[x]
      /\ Gone(task', importer', gmail')
  BY <1>1, <1>3 DEF Gone
<1> QED BY <1>1, <1>2, <1>4, LackingStays

LEMMA BetweenTransactions ==
  ASSUME BodyInv, NEW w \in Workers,
         task[w].pc \in {"idle", "pend", "lock", "download", "trigger", "return", "chain"}
  PROVE  task[w] \in Tasks /\ ~task[w].tx.on /\ task[w].lost \cap gmail = {}
  BY DEF BodyInv, TypeOK, TaskFine, Gone

LEMMA Faulty ==
  ASSUME TypeOK, Fault
  PROVE  faults' \in 0..MaxFaults /\ crossed' = crossed
  BY BodyAssumption DEF TypeOK, Fault

LEMMA BeginFetchStep ==
  ASSUME BodyInv, IsFiniteSet(Window), NEW w \in Workers, NEW t \in Thread, BeginFetch(w, t)
  PROVE  BodyInv'
<1>1. TypeOK /\ task[w] \in Tasks /\ ~task[w].tx.on /\ task[w].lost \cap gmail = {}
  BY BetweenTransactions DEF BodyInv, BeginFetch
<1>2. UNCHANGED <<gmail, body, listed, ready, count, metaDone, bodyDone, importer, lock, crossed, faults>>
  BY DEF BeginFetch, rows, past
<1>3. CASE In(t) \cap Lacking(body) = {}
  <2>1. /\ task' = [task EXCEPT ![w] = task[w]]
        /\ fetches' \in SUBSET Thread /\ backfill' \in BOOLEAN
    BY <1>1, <1>3 DEF BeginFetch, TypeOK
  <2> QED BY <1>1, <1>2, <2>1, WorkerStays DEF TypeOK
<1>4. CASE In(t) \cap Lacking(body) # {}
  <2> DEFINE new == [Idle EXCEPT !.job = t, !.pc = "pend", !.want = In(t) \cap Lacking(body)]
  <2>1. task' = [task EXCEPT ![w] = new] /\ fetches' = fetches /\ backfill' = backfill
    BY <1>4 DEF BeginFetch, jobs
  <2>2. new \in Tasks /\ new.tx = NoTx /\ new.lost = {}
    BY NoTxTyped DEF Tasks, In, Idle
  <2> HIDE DEF new
  <2> QED BY <1>1, <1>2, <2>1, <2>2, NoTxTyped, WorkerStays DEF TypeOK
<1> QED BY <1>3, <1>4

LEMMA BeginBackfillStep ==
  ASSUME BodyInv, IsFiniteSet(Window), NEW w \in Workers, BeginBackfill(w)
  PROVE  BodyInv'
<1>1. TypeOK
  BY DEF BodyInv
<1>2. PICK ms \in Page :
        task' = [task EXCEPT ![w] = [Idle EXCEPT !.job = "backfill", !.want = ms,
                                       !.pc = IF ms = {} THEN "settle" ELSE "pend"]]
  BY DEF BeginBackfill
<1> DEFINE new == [Idle EXCEPT !.job = "backfill", !.want = ms, !.pc = IF ms = {} THEN "settle" ELSE "pend"]
<1>3. ms \in SUBSET Message
  BY DEF Page, Selectable
<1>4. new \in Tasks /\ new.tx = NoTx /\ new.lost = {}
  BY <1>3, NoTxTyped DEF Tasks, Idle
<1>5. UNCHANGED <<gmail, body, listed, ready, count, metaDone, bodyDone, importer, lock, crossed, faults, fetches, backfill>>
  BY DEF BeginBackfill, rows, jobs, past
<1>6. task' = [task EXCEPT ![w] = new]
  BY <1>2
<1> HIDE DEF new
<1> QED BY <1>1, <1>4, <1>5, <1>6, NoTxTyped, WorkerStays DEF TypeOK

LEMMA PendStep ==
  ASSUME BodyInv, IsFiniteSet(Window), NEW w \in Workers, Pend(w)
  PROVE  BodyInv'
<1>1. TypeOK /\ task[w] \in Tasks /\ ~task[w].tx.on /\ task[w].lost \cap gmail = {}
  BY BetweenTransactions DEF BodyInv, Pend
<1> DEFINE new == [task[w] EXCEPT !.pc = "lock"]
<1>2. new \in Tasks /\ new.tx = task[w].tx /\ new.lost = task[w].lost
  BY <1>1 DEF Tasks
<1>3. task' = [task EXCEPT ![w] = new]
  BY <1>1 DEF Pend, Goto, TypeOK
<1>4. task[w].want \in SUBSET Message
  BY <1>1, TaskFields
<1>5. /\ body' \in [Message -> Statuses \cup {"none"}] /\ Lacking(body') = Lacking(body)
      /\ \A m \in Message : body[m] \notin Final => body'[m] \notin Final
  BY <1>1, <1>4, MarkStays DEF Pend
<1>6. UNCHANGED <<gmail, listed, ready, count, metaDone, bodyDone, importer, lock, crossed, faults, fetches, backfill>>
  BY DEF Pend, importing, jobs, past
<1> HIDE DEF new
<1> QED BY <1>1, <1>2, <1>3, <1>5, <1>6, WorkerStays DEF TypeOK

LEMMA LockStep ==
  ASSUME BodyInv, IsFiniteSet(Window), NEW w \in Workers, Lock(w)
  PROVE  BodyInv'
<1>1. TypeOK /\ task[w] \in Tasks /\ ~task[w].tx.on /\ task[w].lost \cap gmail = {}
  BY BetweenTransactions DEF BodyInv, Lock
<1> DEFINE left == task[w].want \cap Lacking(body)
           none == [task[w] EXCEPT !.want = {}]
           on   == [none EXCEPT !.pc = Onward(none)]
           new  == [task[w] EXCEPT !.want = left, !.pc = "download"]
<1>2. UNCHANGED <<gmail, body, listed, ready, count, metaDone, bodyDone, importer, crossed, faults, fetches, backfill>>
  BY DEF Lock, rows, jobs, past
<1>3. CASE left = {}
  <2>1. none \in Tasks /\ none.tx = task[w].tx /\ none.lost = task[w].lost
    BY <1>1 DEF Tasks
  <2>2. task' = [task EXCEPT ![w] = on] /\ lock' = lock
    BY <1>3 DEF Lock, Then
  <2> HIDE DEF none
  <2>3. on \in Tasks /\ on.tx = task[w].tx /\ on.lost = task[w].lost
    BY <2>1, OnwardTyped
  <2> HIDE DEF on
  <2> QED BY <1>1, <1>2, <2>2, <2>3, WorkerStays DEF TypeOK
<1>4. CASE left # {}
  <2>1. new \in Tasks /\ new.tx = task[w].tx /\ new.lost = task[w].lost
    BY <1>1 DEF Tasks
  <2>2. task' = [task EXCEPT ![w] = new] /\ lock' = w
    BY <1>1, <1>4 DEF Lock, TypeOK
  <2> HIDE DEF new
  <2> QED BY <1>1, <1>2, <2>1, <2>2, WorkerStays DEF TypeOK
<1> QED BY <1>3, <1>4

LEMMA DownloadStep ==
  ASSUME BodyInv, IsFiniteSet(Window), NEW w \in Workers, Download(w)
  PROVE  BodyInv'
<1>1. TypeOK /\ task[w] \in Tasks /\ ~task[w].tx.on
  BY BetweenTransactions DEF BodyInv, Download
<1>2. UNCHANGED <<gmail, body, listed, ready, count, metaDone, bodyDone, importer, fetches, backfill>>
  BY DEF Download, rows, jobs
<1>3. lock' = NoJob
  BY DEF Download
<1>4. task[w].want \in SUBSET Message
  BY <1>1, TaskFields
<1> DEFINE Told(left) == [task[w] EXCEPT !.want = {}, !.left = left,
                             !.lost = (task[w].want \ left) \ gmail,
                             !.got = ((task[w].want \ left) \cap gmail) \ Malformed,
                             !.bad = (task[w].want \ left) \cap gmail \cap Malformed]
<1>5. PICK left \in SUBSET task[w].want :
        Then(w, Told(left)) /\ IF left = {} THEN UNCHANGED past ELSE Fault
  BY DEF Download
<1>6. faults' \in 0..MaxFaults /\ crossed' = crossed
  BY <1>1, <1>5, Faulty DEF past, TypeOK
<1> DEFINE told == Told(left)
           gone == (task[w].want \ left) \ gmail
<1>7. told \in Tasks /\ told.tx = task[w].tx /\ told.lost = gone /\ gone \cap gmail = {}
  BY <1>1, <1>4 DEF Tasks
<1>8. Then(w, told)
  BY <1>5
<1> HIDE DEF Told, told, gone
<1> DEFINE new == [told EXCEPT !.pc = Onward(told)]
<1>9. task' = [task EXCEPT ![w] = new]
  BY <1>8 DEF Then
<1>10. new \in Tasks /\ new.tx = task[w].tx /\ new.lost = gone
  BY <1>7, OnwardTyped
<1> HIDE DEF new
<1> QED BY <1>1, <1>2, <1>3, <1>6, <1>7, <1>9, <1>10, WorkerStays DEF TypeOK

LEMMA TriggerStep ==
  ASSUME BodyInv, IsFiniteSet(Window), NEW w \in Workers, Trigger(w)
  PROVE  BodyInv'
<1>1. TypeOK /\ task[w] \in Tasks /\ ~task[w].tx.on /\ task[w].lost \cap gmail = {}
  BY BetweenTransactions DEF BodyInv, Trigger
<1> DEFINE old == task[w]
           new == [old EXCEPT !.pc = Onward(old)]
<1>2. task' = [task EXCEPT ![w] = new] /\ backfill' = TRUE
  BY DEF Trigger, Then
<1>3. new \in Tasks /\ new.tx = task[w].tx /\ new.lost = task[w].lost
  BY <1>1, OnwardTyped
<1>4. UNCHANGED <<gmail, body, listed, ready, count, metaDone, bodyDone, importer, lock, crossed, faults, fetches>>
  BY DEF Trigger, rows, past
<1> HIDE DEF new
<1> QED BY <1>1, <1>2, <1>3, <1>4, WorkerStays DEF TypeOK

LEMMA ReturnStep ==
  ASSUME BodyInv, IsFiniteSet(Window), NEW w \in Workers, Return(w)
  PROVE  BodyInv'
<1>1. TypeOK /\ task[w] \in Tasks
  BY BetweenTransactions DEF BodyInv, Return
<1>2. task[w].left \in SUBSET Message
  BY <1>1, TaskFields
<1>3. /\ body' \in [Message -> Statuses \cup {"none"}] /\ Lacking(body') = Lacking(body)
      /\ \A m \in Message : body[m] \notin Final => body'[m] \notin Final
  BY <1>1, <1>2, MarkStays DEF Return
<1>4. UNCHANGED <<gmail, listed, ready, count, metaDone, bodyDone, importer, lock, crossed, faults, fetches, backfill>>
  BY DEF Return, importing, jobs, past
<1>5. task' = [task EXCEPT ![w] = Idle] /\ Idle \in Tasks /\ ~Idle.tx.on /\ Idle.lost \cap gmail = {}
  BY NoTxTyped DEF Return
<1> QED BY <1>1, <1>3, <1>4, <1>5, WorkerStays DEF TypeOK

LEMMA FinishStep ==
  ASSUME BodyInv, IsFiniteSet(Window), NEW w \in Workers, Finish(w)
  PROVE  BodyInv'
<1>1. TypeOK
  BY DEF BodyInv
<1>2. task' = [task EXCEPT ![w] = Idle] /\ Idle \in Tasks /\ ~Idle.tx.on /\ Idle.lost \cap gmail = {}
  BY NoTxTyped DEF Finish, End
<1>3. UNCHANGED <<gmail, body, listed, ready, count, metaDone, bodyDone, importer, lock, crossed, faults>>
  BY DEF Finish, rows, past
<1>4. fetches' \in SUBSET Thread /\ backfill' \in BOOLEAN
  BY <1>1 DEF Finish, End, TypeOK
<1> QED BY <1>1, <1>2, <1>3, <1>4, WorkerStays DEF TypeOK

LEMMA ChainStep ==
  ASSUME BodyInv, IsFiniteSet(Window), NEW w \in Workers, Chain(w)
  PROVE  BodyInv'
<1>1. TypeOK
  BY DEF BodyInv
<1>2. task' = [task EXCEPT ![w] = Idle] /\ Idle \in Tasks /\ ~Idle.tx.on /\ Idle.lost \cap gmail = {}
  BY NoTxTyped DEF Chain
<1>3. UNCHANGED <<gmail, body, listed, ready, count, metaDone, bodyDone, importer, lock, crossed, faults, fetches>>
  BY DEF Chain, rows, past
<1>4. backfill' \in BOOLEAN
  BY DEF Chain
<1> QED BY <1>1, <1>2, <1>3, <1>4, WorkerStays DEF TypeOK

LEMMA DieStep ==
  ASSUME BodyInv, IsFiniteSet(Window), NEW w \in Workers, Die(w)
  PROVE  BodyInv'
<1>1. TypeOK
  BY DEF BodyInv
<1>2. task' = [task EXCEPT ![w] = Idle] /\ Idle \in Tasks /\ ~Idle.tx.on /\ Idle.lost \cap gmail = {}
  BY NoTxTyped DEF Die
<1>3. UNCHANGED <<gmail, body, listed, ready, count, metaDone, bodyDone, importer, fetches, backfill>>
  BY DEF Die, rows, jobs
<1>4. lock' \in Workers \cup {NoJob} /\ faults' \in 0..MaxFaults /\ crossed' = crossed
  BY <1>1, Faulty DEF Die, TypeOK
<1> QED BY <1>1, <1>2, <1>3, <1>4, WorkerStays DEF TypeOK

(* The importer's steps between transactions, and those of polls, readers,   *)
(* time and Gmail.                                                          *)
LEMMA OthersStay ==
  ASSUME BodyInv, IsFiniteSet(Window),
         UNCHANGED <<listed, ready, count, lock, task, crossed>>,
         metaDone' \in BOOLEAN, bodyDone' \in BOOLEAN,
         gmail' \subseteq gmail, importer' \in Imports, importer'.tx.on => importer' = importer,
         importer'.pc = "remove" => importer'.ms \cap gmail = {}, importer'.meta \subseteq Window,
         body' \in [Message -> Statuses \cup {"none"}], Lacking(body') = Lacking(body),
         \A m \in Message : body[m] \notin Final => body'[m] \notin Final,
         fetches' \in SUBSET Thread, backfill' \in BOOLEAN, faults' \in 0..MaxFaults
  PROVE  BodyInv'
<1>1. TypeOK /\ Gone(task, importer, gmail)
  BY DEF BodyInv
<1>2. TypeOK'
  BY <1>1 DEF TypeOK
<1>3. /\ \A w \in Workers : task'[w].tx.on => task'[w] = task[w]
      /\ Gone(task', importer', gmail')
  BY <1>1 DEF Gone
<1> QED BY <1>2, <1>3, LackingStays

(* The importer goes on to something else, without a transaction.           *)
LEMMA ImporterGoes ==
  ASSUME BodyInv, IsFiniteSet(Window),
         UNCHANGED <<gmail, body, listed, ready, count, metaDone, bodyDone, lock, task, crossed>>,
         importer' \in Imports, ~importer'.tx.on,
         importer'.pc = "remove" => importer'.ms \cap gmail = {}, importer'.meta \subseteq Window,
         fetches' \in SUBSET Thread, backfill' \in BOOLEAN, faults' \in 0..MaxFaults
  PROVE  BodyInv'
  BY OthersStay DEF BodyInv, TypeOK

LEMMA FetchEntryStep ==
  ASSUME BodyInv, IsFiniteSet(Window), NEW t \in Thread, FetchEntry(t)
  PROVE  BodyInv'
<1> DEFINE new == [Resting EXCEPT !.pc = "store", !.ms = In(t) \cap gmail, !.meta = {t}]
<1>1. importer' = new /\ t \in Window
  BY DEF FetchEntry
<1>2. new \in Imports /\ ~new.tx.on /\ new.pc = "store" /\ new.meta = {t}
  BY <1>1, NoTxTyped, BodyAssumption DEF Resting, Imports, In
<1>3. UNCHANGED <<gmail, body, listed, ready, count, metaDone, bodyDone, lock, task, fetches, backfill, crossed, faults>>
  BY DEF FetchEntry, rows, jobs, past
<1> HIDE DEF new
<1> QED BY <1>1, <1>2, <1>3, ImporterGoes DEF BodyInv, TypeOK

LEMMA FetchMessageStep ==
  ASSUME BodyInv, IsFiniteSet(Window), NEW m \in Message, FetchMessage(m)
  PROVE  BodyInv'
<1> DEFINE new == [Resting EXCEPT !.pc = "store", !.ms = {m}]
<1>1. importer' = new /\ faults' \in 0..MaxFaults /\ crossed' = crossed
  BY Faulty DEF FetchMessage, BodyInv, TypeOK, past
<1>2. new \in Imports /\ ~new.tx.on /\ new.pc = "store" /\ new.meta = {}
  BY <1>1, NoTxTyped DEF Resting, Imports
<1>3. UNCHANGED <<gmail, body, listed, ready, count, metaDone, bodyDone, lock, task, fetches, backfill>>
  BY DEF FetchMessage, rows, jobs
<1> HIDE DEF new
<1> QED BY <1>1, <1>2, <1>3, ImporterGoes DEF BodyInv, TypeOK

LEMMA FindGoneStep ==
  ASSUME BodyInv, IsFiniteSet(Window), NEW m \in Message, FindGone(m)
  PROVE  BodyInv'
<1> DEFINE new == [Resting EXCEPT !.pc = "remove", !.ms = {m}]
<1>1. importer' = new /\ m \notin gmail
  BY DEF FindGone
<1>2. new \in Imports /\ ~new.tx.on /\ new.ms = {m} /\ new.meta = {}
  BY <1>1, NoTxTyped DEF Resting, Imports
<1>3. UNCHANGED <<gmail, body, listed, ready, count, metaDone, bodyDone, lock, task, fetches, backfill, crossed, faults>>
  BY DEF FindGone, rows, jobs, past
<1> HIDE DEF new
<1> QED BY <1>1, <1>2, <1>3, ImporterGoes DEF BodyInv, TypeOK

LEMMA RestingAt ==
  ASSUME IsFiniteSet(Window), NEW where \in {"idle", "conclude", "ensure", "trigger"}
  PROVE  /\ [Resting EXCEPT !.pc = where] \in Imports /\ ~[Resting EXCEPT !.pc = where].tx.on
         /\ [Resting EXCEPT !.pc = where].pc = where /\ [Resting EXCEPT !.pc = where].meta = {}
  BY NoTxTyped DEF Resting, Imports

LEMMA EndScanStep ==
  ASSUME BodyInv, IsFiniteSet(Window), EndScan
  PROVE  BodyInv'
<1>1. UNCHANGED <<gmail, body, listed, ready, count, metaDone, bodyDone, lock, task, fetches, backfill, crossed, faults>>
  BY DEF EndScan, rows, jobs, past
<1>2. importer' \in Imports /\ ~importer'.tx.on /\ importer'.pc = "conclude" /\ importer'.meta = {}
  BY RestingAt DEF EndScan
<1> QED BY <1>1, <1>2, ImporterGoes DEF BodyInv, TypeOK

LEMMA EnsureJobsStep ==
  ASSUME BodyInv, IsFiniteSet(Window), EnsureJobs
  PROVE  BodyInv'
<1>1. UNCHANGED <<gmail, body, listed, ready, count, metaDone, bodyDone, lock, task, crossed, faults>>
  BY DEF EnsureJobs, rows, past
<1>2. importer' \in Imports /\ ~importer'.tx.on /\ importer'.pc = "idle" /\ importer'.meta = {}
  BY NoTxTyped DEF EnsureJobs
<1>3. fetches' \in SUBSET Thread /\ backfill' \in BOOLEAN
  BY BodyAssumption DEF EnsureJobs, Owed, BodyInv, TypeOK, WindowComplete, WindowReady
<1> QED BY <1>1, <1>2, <1>3, ImporterGoes DEF BodyInv, TypeOK

LEMMA TriggerBackfillStep ==
  ASSUME BodyInv, IsFiniteSet(Window), TriggerBackfill
  PROVE  BodyInv'
<1>1. UNCHANGED <<gmail, body, listed, ready, count, metaDone, bodyDone, lock, task, fetches, crossed, faults>>
  BY DEF TriggerBackfill, rows, past
<1>2. importer' \in Imports /\ ~importer'.tx.on /\ importer'.pc = "idle" /\ importer'.meta = {}
  BY NoTxTyped DEF TriggerBackfill
<1>3. backfill' \in BOOLEAN
  BY DEF TriggerBackfill, BodyInv, TypeOK, WindowReady
<1> QED BY <1>1, <1>2, <1>3, ImporterGoes DEF BodyInv, TypeOK

LEMMA DieImportingStep ==
  ASSUME BodyInv, IsFiniteSet(Window), DieImporting
  PROVE  BodyInv'
<1>1. UNCHANGED <<gmail, body, listed, ready, count, metaDone, bodyDone, lock, task, fetches, backfill>>
  BY DEF DieImporting, rows, jobs
<1>2. importer' = [Resting EXCEPT !.pc = "ensure"] \/ importer' = [Resting EXCEPT !.pc = "idle"]
  BY DEF DieImporting
<1>3. importer' \in Imports /\ ~importer'.tx.on /\ importer'.pc # "remove" /\ importer'.meta = {}
  BY <1>2, RestingAt
<1>4. faults' \in 0..MaxFaults /\ crossed' = crossed
  BY Faulty DEF DieImporting, BodyInv
<1> QED BY <1>1, <1>3, <1>4, ImporterGoes DEF BodyInv, TypeOK

LEMMA EnsureStep ==
  ASSUME BodyInv, IsFiniteSet(Window), Ensure
  PROVE  BodyInv'
<1>1. UNCHANGED <<gmail, body, listed, ready, count, metaDone, bodyDone, lock, task, importer, crossed, faults>>
  BY DEF Ensure, rows, past
<1>2. fetches' \in SUBSET Thread
  BY BodyAssumption DEF Ensure, Owed, BodyInv, TypeOK
<1>3. backfill' \in BOOLEAN
  BY DEF Ensure, BodyInv, TypeOK, WindowComplete
<1> QED BY <1>1, <1>2, <1>3, OthersStay DEF BodyInv, TypeOK, Gone

LEMMA ReadStep ==
  ASSUME BodyInv, IsFiniteSet(Window), NEW t \in Thread, Read(t)
  PROVE  BodyInv'
<1>1. UNCHANGED <<gmail, body, listed, ready, count, metaDone, bodyDone, lock, task, importer, backfill>>
  BY DEF Read, rows
<1>2. fetches' \in SUBSET Thread /\ faults' \in 0..MaxFaults /\ crossed' = crossed
  BY Faulty DEF Read, BodyInv, TypeOK
<1> QED BY <1>1, <1>2, OthersStay DEF BodyInv, TypeOK, Gone

LEMMA AgeStep ==
  ASSUME BodyInv, IsFiniteSet(Window), NEW m \in Message, Age(m)
  PROVE  BodyInv'
<1>1. TypeOK
  BY DEF BodyInv
<1>2. UNCHANGED <<gmail, listed, ready, count, metaDone, bodyDone, lock, task, importer, crossed, faults, fetches, backfill>>
  BY DEF Age, importing, jobs, past
<1>3. /\ body' \in [Message -> Statuses \cup {"none"}]
      /\ \A x \in Message : body'[x] = IF x = m THEN "stale" ELSE body[x]
  BY <1>1 DEF Age, TypeOK, Statuses
<1>4. /\ Lacking(body) = {x \in Message : body[x] \in {"missing", "pending", "stale"}}
      /\ Lacking(body') = {x \in Message : body'[x] \in {"missing", "pending", "stale"}}
  BY <1>1, <1>3, LackingIs DEF TypeOK
<1>5. body[m] = "pending"
  BY DEF Age
<1>6. Lacking(body') = Lacking(body)
  BY <1>3, <1>4, <1>5
<1>7. \A x \in Message : body[x] \notin Final => body'[x] \notin Final
  BY <1>3 DEF Final
<1> QED BY <1>1, <1>2, <1>3, <1>6, <1>7, OthersStay DEF BodyInv, TypeOK, Gone

LEMMA ExpungeStep ==
  ASSUME BodyInv, IsFiniteSet(Window), NEW m \in Message, Expunge(m)
  PROVE  BodyInv'
<1>1. UNCHANGED <<body, listed, ready, count, metaDone, bodyDone, lock, task, importer, crossed, faults, fetches, backfill>>
  BY DEF Expunge, rows, jobs, past
<1>2. gmail' \subseteq gmail
  BY DEF Expunge
<1> QED BY <1>1, <1>2, OthersStay DEF BodyInv, TypeOK, Gone

-----------------------------------------------------------------------------
(* Transactions open.                                                       *)

(* The statements of a transaction that takes bodies off the list of those   *)
(* that lack mark what they resolve.                                        *)
LEMMA TxSees ==
  ASSUME IsFiniteSet(Window), TypeOK,
         NEW own \in SUBSET Message, NEW s \in Final \cup {"none"}, NEW ts \in SUBSET Thread,
         \A m \in own : ThreadOf[m] \in ts, NEW c
  PROVE  /\ TxOf(own, s, ts) \in Txs /\ TxOf(own, s, ts).on = TRUE
         /\ TxOf(own, s, ts).marks \subseteq Window /\ Sees(TxOf(own, s, ts), body, c)
<1> DEFINE tx == TxOf(own, s, ts)
<1>1. s \in Statuses \cup {"none"}
  BY DEF Statuses
<1>2. /\ tx \in Txs /\ tx.on = TRUE /\ tx.own = own /\ tx.as = s
      /\ tx.marks = Resolved(Written(own, s), ts)
  <2>1. /\ tx.own = own /\ tx.as = s /\ tx.marks = Resolved(Written(own, s), ts)
    BY DEF TxOf
  <2>2. tx \in Txs /\ tx.on = TRUE
    BY <1>1, TxTyped
  <2> QED BY <2>1, <2>2
<1>3. Lacking(Written(own, s)) = Lacking(body) \ own
  BY <1>1, AfterIs
<1> HIDE DEF tx
<1>4. tx.marks = {t \in Window \cap ts : In(t) \cap (Lacking(body) \ own) = {}}
  BY <1>2, <1>3 DEF Resolved
<1>5. ASSUME NEW t \in Window, own \cap In(t) # {} PROVE t \in ts
  BY <1>5 DEF In
<1>6. Sees(tx, body, c)
  BY <1>2, <1>4, <1>5 DEF Sees
<1> QED BY <1>2, <1>4, <1>6 DEF tx

LEMMA UntalliedSees ==
  ASSUME IsFiniteSet(Window), NEW tx \in Txs, NEW clear \in BOOLEAN, NEW c,
         Sees(tx, body, c), tx.marks \subseteq Window
  PROVE  LET new == [tx EXCEPT !.tally = 0, !.clear = clear]
         IN  /\ new \in Txs /\ new.on = tx.on /\ new.own = tx.own /\ new.as = tx.as
             /\ new.marks \subseteq Window /\ Sees(new, body, c)
<1> DEFINE new == [tx EXCEPT !.tally = 0, !.clear = clear]
<1>1. 0 \in 0..Cardinality(Window)
  BY FS_CardinalityType
<1>2. new \in Txs /\ new.on = tx.on /\ new.own = tx.own /\ new.as = tx.as /\ new.marks = tx.marks
  BY <1>1 DEF Txs
<1> HIDE DEF new
<1>3. Sees(new, body, c)
  BY <1>2 DEF Sees
<1> QED BY <1>2, <1>3 DEF new

LEMMA DeleteTxSees ==
  ASSUME IsFiniteSet(Window), TypeOK, NEW ms \in SUBSET Message, NEW c
  PROVE  /\ DeleteTx(ms) \in Txs /\ DeleteTx(ms).on = TRUE /\ DeleteTx(ms).as = "none"
         /\ DeleteTx(ms).own \subseteq ms
         /\ DeleteTx(ms).marks \subseteq Window /\ Sees(DeleteTx(ms), body, c)
<1> DEFINE own == ms \cap Stored(body)
           ts  == {ThreadOf[m] : m \in own}
           tx  == TxOf(own, "none", ts)
           not == [tx EXCEPT !.tally = 0, !.clear = FALSE]
<1>1. own \in SUBSET Message /\ own \subseteq ms /\ ts \in SUBSET Thread
      /\ \A m \in own : ThreadOf[m] \in ts
  BY BodyAssumption DEF Stored
<1>2. DeleteTx(ms) = IF tx.marks = {} THEN not ELSE tx
  BY DEF DeleteTx
<1> HIDE DEF own, ts
<1>3. tx \in Txs /\ tx.on = TRUE /\ tx.own = own /\ tx.as = "none" /\ tx.marks \subseteq Window
      /\ Sees(tx, body, c)
  <2>1. tx.own = own /\ tx.as = "none"
    BY DEF TxOf
  <2>2. tx \in Txs /\ tx.on = TRUE /\ tx.marks \subseteq Window /\ Sees(tx, body, c)
    BY <1>1, TxSees
  <2> QED BY <2>1, <2>2
<1> HIDE DEF tx
<1>4. /\ not \in Txs /\ not.on = TRUE /\ not.own = own /\ not.as = "none"
      /\ not.marks \subseteq Window /\ Sees(not, body, c)
  BY <1>3, UntalliedSees
<1> HIDE DEF not
<1>5. DeleteTx(ms) = not \/ DeleteTx(ms) = tx
  BY <1>2
<1>6. own \subseteq ms
  BY <1>1
<1> HIDE DEF DeleteTx
<1> QED BY <1>3, <1>4, <1>5, <1>6

LEMMA CountTxSees ==
  ASSUME IsFiniteSet(Window), TypeOK, NEW c
  PROVE  /\ CountTx \in Txs /\ CountTx.on = TRUE /\ CountTx.own = {}
         /\ CountTx.marks \subseteq Window /\ Sees(CountTx, body, c)
<1>1. TxOf({}, "none", {}).own = {}
  BY DEF TxOf
<1>2. /\ TxOf({}, "none", {}) \in Txs /\ TxOf({}, "none", {}).on = TRUE
      /\ TxOf({}, "none", {}).marks \subseteq Window /\ Sees(TxOf({}, "none", {}), body, c)
  BY TxSees
<1> QED BY <1>1, <1>2 DEF CountTx

LEMMA PersistTxSees ==
  ASSUME IsFiniteSet(Window), TypeOK, NEW ms \in SUBSET Message, NEW c
  PROVE  /\ PersistTx(ms) \in Txs /\ PersistTx(ms).on = TRUE /\ PersistTx(ms).as = "fetched"
         /\ PersistTx(ms).own \subseteq ms
         /\ PersistTx(ms).marks \subseteq Window /\ Sees(PersistTx(ms), body, c)
<1> DEFINE own == {m \in ms : body[m] \notin {"none", "fetched"}}
           ts  == {ThreadOf[m] : m \in ms}
<1>1. own \in SUBSET Message /\ (\A m \in own : ThreadOf[m] \in ts) /\ "fetched" \in Final \cup {"none"}
      /\ ts \in SUBSET Thread /\ own \subseteq ms
  BY BodyAssumption DEF Final
<1>2. PersistTx(ms) = TxOf(own, "fetched", ts)
  BY DEF PersistTx
<1>3. TxOf(own, "fetched", ts).own = own /\ TxOf(own, "fetched", ts).as = "fetched"
  BY DEF TxOf
<1> HIDE DEF own, ts
<1>4. /\ TxOf(own, "fetched", ts) \in Txs /\ TxOf(own, "fetched", ts).on = TRUE
      /\ TxOf(own, "fetched", ts).marks \subseteq Window /\ Sees(TxOf(own, "fetched", ts), body, c)
  BY <1>1, TxSees
<1> QED BY <1>1, <1>2, <1>3, <1>4

LEMMA SpoilTxSees ==
  ASSUME IsFiniteSet(Window), TypeOK, NEW ms \in SUBSET Message, NEW c
  PROVE  /\ SpoilTx(ms) \in Txs /\ SpoilTx(ms).on = TRUE
         /\ SpoilTx(ms).own \subseteq ms \cap Lacking(body)
         /\ SpoilTx(ms).own # {} => SpoilTx(ms).as \in Final \cup {"none"}
         /\ SpoilTx(ms).marks \subseteq Window /\ Sees(SpoilTx(ms), body, c)
<1> DEFINE own == ms \cap Lacking(body)
           ts  == {ThreadOf[m] : m \in own}
<1>1. CASE own = {}
  <2> DEFINE tx == [NoTx EXCEPT !.on = TRUE]
  <2>1. SpoilTx(ms) = tx
    BY <1>1 DEF SpoilTx
  <2>2. tx \in Txs /\ tx.on = TRUE /\ tx.own = {} /\ tx.marks = {}
    BY NoTxTyped DEF NoTx, Txs
  <2> HIDE DEF tx
  <2> QED BY <2>1, <2>2 DEF Sees
<1>2. CASE own # {}
  <2>1. own \in SUBSET Message /\ (\A m \in own : ThreadOf[m] \in ts) /\ "unavailable" \in Final \cup {"none"}
        /\ ts \in SUBSET Thread /\ own \subseteq ms \cap Lacking(body)
    BY BodyAssumption DEF Final
  <2>2. SpoilTx(ms) = TxOf(own, "unavailable", ts)
    BY <1>2 DEF SpoilTx
  <2>3. TxOf(own, "unavailable", ts).own = own /\ TxOf(own, "unavailable", ts).as = "unavailable"
    BY DEF TxOf
  <2> HIDE DEF own, ts
  <2>4. /\ TxOf(own, "unavailable", ts) \in Txs /\ TxOf(own, "unavailable", ts).on = TRUE
        /\ TxOf(own, "unavailable", ts).marks \subseteq Window
        /\ Sees(TxOf(own, "unavailable", ts), body, c)
    BY <2>1, TxSees
  <2>5. "unavailable" \in Final
    BY DEF Final
  <2> QED BY <2>1, <2>2, <2>3, <2>4, <2>5
<1> QED BY <1>1, <1>2

(* A store puts rows on that list.  What it lists it marks or leaves a row   *)
(* to wait for.                                                             *)
LEMMA StoreTxLists ==
  ASSUME IsFiniteSet(Window), TypeOK, NEW ms \in SUBSET Message, NEW ts \in SUBSET Thread, NEW c
  PROVE  LET tx == StoreTx(ms, ts)
         IN  /\ tx \in Txs /\ tx.on = TRUE /\ tx.as = "missing" /\ tx.marks \subseteq Window
             /\ tx.own \subseteq ms /\ \A m \in tx.own : body[m] \notin Final
             /\ \A t \in ts \cap Window : \/ t \in tx.marks \/ tx.own \cap In(t) # {}
                                          \/ Settled(t, body, ready, c)
<1> DEFINE own == {m \in ms : body[m] \notin Final}
           old == TxOf(own, "missing", ts)
           new == StoreTx(ms, ts)
<1>1. own \in SUBSET Message /\ "missing" \in Statuses \cup {"none"} /\ own \subseteq ms
      /\ \A m \in own : body[m] \notin Final
  BY DEF Statuses
<1>2. new = [old EXCEPT !.clear = @ \/ ms = {} \/ ~metaDone, !.tally = IF ts = {} THEN 0 ELSE @]
  BY DEF StoreTx
<1> HIDE DEF own
<1>3. /\ old \in Txs /\ old.on = TRUE /\ old.own = own /\ old.as = "missing"
      /\ old.marks = Resolved(Written(own, "missing"), ts)
  <2>1. old.own = own /\ old.as = "missing" /\ old.marks = Resolved(Written(own, "missing"), ts)
    BY DEF TxOf
  <2>2. old \in Txs /\ old.on = TRUE
    BY <1>1, TxTyped
  <2> QED BY <2>1, <2>2
<1> HIDE DEF old, new
<1>4. 0 \in 0..Cardinality(Window)
  BY FS_CardinalityType
<1>5. /\ new \in Txs /\ new.on = TRUE /\ new.own = own /\ new.as = "missing" /\ new.marks = old.marks
  BY <1>2, <1>3, <1>4 DEF Txs
<1>6. Lacking(Written(own, "missing")) = Lacking(body) \cup own
  BY <1>1, AfterIs
<1>7. new.marks = {t \in Window \cap ts : In(t) \cap (Lacking(body) \cup own) = {}}
  BY <1>3, <1>5, <1>6 DEF Resolved
<1>8. \A t \in ts \cap Window : \/ t \in new.marks \/ new.own \cap In(t) # {}
                                \/ Settled(t, body, ready, c)
  BY <1>5, <1>7 DEF Settled
<1> QED BY <1>1, <1>5, <1>7, <1>8 DEF new

(* The rows it writes are free, and where they are of a conversation that    *)
(* another open transaction wrote in, it is crossed from then on.           *)
LEMMA OpenApart ==
  ASSUME NEW ms, Free(ms), NEW tx, tx.own \subseteq ms, NEW ux \in OpenTxs
  PROVE  /\ Apart(tx, ux, crossed \cup Crossed(tx)) /\ Apart(ux, tx, crossed \cup Crossed(tx))
<1>1. ux.own \cap ms = {}
  BY DEF Free
<1>2. ASSUME NEW t \in Thread \ (crossed \cup Crossed(tx)), tx.own \cap In(t) # {}
      PROVE  ux.own \cap In(t) = {}
  BY <1>2 DEF Crossed, Free
<1> QED BY <1>1, <1>2 DEF Apart

LEMMA ApartGrows ==
  ASSUME NEW tx, NEW ux, NEW c, NEW cc, c \subseteq cc, Apart(tx, ux, c)
  PROVE  Apart(tx, ux, cc)
  BY DEF Apart

LEMMA SettledGrows ==
  ASSUME crossed \subseteq crossed', ready \subseteq ready', Lacking(body) \subseteq Lacking(body')
  PROVE  \A t : Settled(t, body, ready, crossed) => Settled(t, body', ready', crossed')
  BY DEF Settled

LEMMA OpenStep ==
  ASSUME BodyInv, IsFiniteSet(Window), NEW w \in Workers, Open(w)
  PROVE  BodyInv'
<1>1. TypeOK /\ Gone(task, importer, gmail) /\ AllApart(task, importer, crossed)
      /\ importer.meta \subseteq Window
  BY DEF BodyInv
<1>2. task[w] \in Tasks /\ task[w].lost \in SUBSET Message /\ task[w].got \in SUBSET Message
      /\ task[w].bad \in SUBSET Message /\ task[w].lost \cap gmail = {}
  BY <1>1, TaskFields DEF TypeOK, Gone
<1> DEFINE tx == TxAt(task[w])
           ms == task[w].lost \cup task[w].got \cup task[w].bad
<1>3. Free(ms) /\ crossed' = crossed \cup Crossed(tx)
  BY DEF Open
<1>4. /\ tx \in Txs /\ tx.on = TRUE /\ tx.own \subseteq ms /\ tx.marks \subseteq Window
      /\ Sees(tx, body, crossed')
      /\ tx.own # {} => tx.as \in Final \cup {"none"}
      /\ task[w].pc \in {"drop", "persist", "spoil", "recount", "settle"}
      /\ task[w].pc = "drop" => tx.as = "none" /\ tx.own \cap gmail = {}
      /\ task[w].pc = "persist" => tx.as = "fetched"
      /\ task[w].pc = "spoil" => tx.own \subseteq Lacking(body)
      /\ task[w].pc \in {"recount", "settle"} => tx.own = {}
  <2>1. CASE task[w].pc = "drop"
    <3>1. tx = DeleteTx(task[w].lost)
      BY <2>1 DEF TxAt
    <3> HIDE DEF tx
    <3> QED BY <1>1, <1>2, <2>1, <3>1, DeleteTxSees
  <2>2. CASE task[w].pc = "persist"
    <3>1. tx = PersistTx(task[w].got)
      BY <2>2 DEF TxAt
    <3>2. "fetched" \in Final
      BY DEF Final
    <3> HIDE DEF tx
    <3> QED BY <1>1, <1>2, <2>2, <3>1, <3>2, PersistTxSees
  <2>3. CASE task[w].pc = "spoil"
    <3>1. tx = SpoilTx(task[w].bad)
      BY <2>3 DEF TxAt
    <3> HIDE DEF tx
    <3> QED BY <1>1, <1>2, <2>3, <3>1, SpoilTxSees
  <2>4. CASE task[w].pc \in {"recount", "settle"}
    <3>1. tx = CountTx
      BY <2>4 DEF TxAt
    <3> HIDE DEF tx
    <3> QED BY <1>1, <2>4, <3>1, CountTxSees
  <2> QED BY <2>1, <2>2, <2>3, <2>4 DEF Open
<1>5. task' = [task EXCEPT ![w].tx = tx]
  BY DEF Open
<1>6. UNCHANGED <<gmail, body, listed, ready, count, metaDone, bodyDone, fetches, backfill, lock, importer, faults>>
  BY DEF Open, rows, jobs
<1>7. Crossed(tx) \subseteq Thread
  BY DEF Crossed
<1>8. \A ux \in OpenTxs : Apart(tx, ux, crossed') /\ Apart(ux, tx, crossed')
  BY <1>3, <1>4, OpenApart
<1> HIDE DEF tx, ms
<1> DEFINE new == [task[w] EXCEPT !.tx = tx]
<1>9. new \in Tasks /\ new.tx = tx /\ new.pc = task[w].pc /\ new.lost = task[w].lost
  BY <1>2, <1>4 DEF Tasks
<1>10. task' = [task EXCEPT ![w] = new]
  BY <1>1, <1>5 DEF TypeOK
<1> HIDE DEF new
<1>11. \A x \in Workers : task'[x] = IF x = w THEN new ELSE task[x]
  BY <1>1, <1>10 DEF TypeOK
<1>12. TypeOK' /\ crossed \subseteq crossed'
  BY <1>1, <1>3, <1>6, <1>7, <1>9, <1>10 DEF TypeOK
<1>13. AllApart(task', importer', crossed')
  <2>1. importer.tx \in OpenTxs /\ \A x \in Workers : task[x].tx \in OpenTxs
    BY DEF OpenTxs
  <2>2. \A x, y \in Workers : x # y => Apart(task'[x].tx, task'[y].tx, crossed')
    BY <1>1, <1>8, <1>9, <1>11, <1>12, <2>1, ApartGrows DEF AllApart
  <2>3. \A x \in Workers : Apart(task'[x].tx, importer.tx, crossed')
    BY <1>1, <1>8, <1>9, <1>11, <1>12, <2>1, ApartGrows DEF AllApart
  <2> QED BY <1>6, <2>2, <2>3 DEF AllApart
<1>14. TaskFine(task'[w], body', gmail', crossed')
  BY <1>4, <1>6, <1>9, <1>11 DEF TaskFine
<1>15. \A ux : ux.own \in SUBSET Message => Untouched(ux, body, body', crossed')
  BY <1>6 DEF Untouched
<1>16. \A x \in Workers : x # w /\ task'[x].tx.on =>
          task'[x] = task[x] /\ Untouched(task[x].tx, body, body', crossed')
  BY <1>1, <1>11, <1>15, TaskFields DEF TypeOK
<1>17. importer' = importer /\ Untouched(importer.tx, body, body', crossed')
  BY <1>1, <1>6, <1>15, ImportFields
<1>18. Gone(task', importer', gmail') /\ gmail' \subseteq gmail /\ importer'.meta \subseteq Window
  BY <1>1, <1>2, <1>6, <1>9, <1>11 DEF Gone
<1>19. \A t : Settled(t, body, ready, crossed) => Settled(t, body', ready', crossed')
  BY <1>6, <1>12, SettledGrows
<1>20. listed' = listed
  BY <1>6
<1> QED BY <1>12, <1>13, <1>14, <1>16, <1>17, <1>18, <1>19, <1>20, StillKeeps

LEMMA OpenImportStep ==
  ASSUME BodyInv, IsFiniteSet(Window), OpenImport
  PROVE  BodyInv'
<1>1. TypeOK /\ Gone(task, importer, gmail) /\ AllApart(task, importer, crossed)
      /\ importer.meta \subseteq Window
  BY DEF BodyInv
<1>2. importer.ms \in SUBSET Message /\ importer.meta \in SUBSET Thread /\ importer \in Imports
  BY <1>1, ImportFields DEF TypeOK
<1> DEFINE tx == ImportTxAt(importer)
<1>3. /\ Free(importer.ms) /\ crossed' = crossed \cup Crossed(tx)
      /\ importer.pc \in {"store", "remove", "conclude"}
  BY DEF OpenImport
<1>4. /\ tx \in Txs /\ tx.on = TRUE /\ tx.own \subseteq importer.ms /\ tx.marks \subseteq Window
      /\ importer.pc = "remove" => tx.as = "none" /\ tx.own \cap gmail = {} /\ Sees(tx, body, crossed')
      /\ importer.pc = "conclude" => tx.own = {}
      /\ importer.pc = "store" =>
           /\ tx.as = "missing" /\ \A m \in tx.own : body[m] \notin Final
           /\ \A t \in importer.meta : \/ t \in tx.marks \/ tx.own \cap In(t) # {}
                                       \/ Settled(t, body, ready, crossed')
  <2>1. CASE importer.pc = "store"
    <3>1. tx = StoreTx(importer.ms, importer.meta)
      BY <2>1 DEF ImportTxAt
    <3> HIDE DEF tx
    <3> QED BY <1>1, <1>2, <2>1, <3>1, StoreTxLists
  <2>2. CASE importer.pc = "remove"
    <3>1. tx = DeleteTx(importer.ms)
      BY <2>2 DEF ImportTxAt
    <3>2. importer.ms \cap gmail = {}
      BY <1>1, <2>2 DEF Gone
    <3> HIDE DEF tx
    <3> QED BY <1>1, <1>2, <2>2, <3>1, <3>2, DeleteTxSees
  <2>3. CASE importer.pc = "conclude"
    <3> DEFINE tally == CountTx
    <3>1. tx = [tally EXCEPT !.tally = 0]
      BY <2>3 DEF ImportTxAt
    <3>2. tally \in Txs /\ tally.on = TRUE /\ tally.own = {} /\ tally.marks \subseteq Window
          /\ Sees(tally, body, crossed)
      BY <1>1, CountTxSees
    <3> HIDE DEF tx, tally
    <3>3. tx = [tally EXCEPT !.tally = 0, !.clear = tally.clear] /\ tally.clear \in BOOLEAN
      BY <3>1, <3>2 DEF Txs
    <3>4. tx \in Txs /\ tx.marks \subseteq Window /\ tx.own = {} /\ tx.on = TRUE
      BY <3>2, <3>3, UntalliedSees
    <3> QED BY <2>3, <3>4
  <2> QED BY <1>3, <2>1, <2>2, <2>3
<1>5. importer' = [importer EXCEPT !.tx = tx]
  BY DEF OpenImport
<1>6. UNCHANGED <<gmail, body, listed, ready, count, metaDone, bodyDone, fetches, backfill, lock, task, faults>>
  BY DEF OpenImport, rows, jobs
<1>7. Crossed(tx) \subseteq Thread
  BY DEF Crossed
<1>8. \A ux \in OpenTxs : Apart(ux, tx, crossed')
  BY <1>3, <1>4, OpenApart
<1> HIDE DEF tx
<1>9. /\ importer' \in Imports /\ importer'.tx = tx /\ importer'.pc = importer.pc
      /\ importer'.ms = importer.ms /\ importer'.meta = importer.meta
  BY <1>2, <1>4, <1>5 DEF Imports
<1>10. TypeOK' /\ crossed \subseteq crossed'
  BY <1>1, <1>3, <1>6, <1>7, <1>9 DEF TypeOK
<1>11. AllApart(task', importer', crossed')
  <2>1. \A x \in Workers : task[x].tx \in OpenTxs
    BY DEF OpenTxs
  <2>2. \A x, y \in Workers : x # y => Apart(task[x].tx, task[y].tx, crossed')
    BY <1>1, <1>10, ApartGrows DEF AllApart
  <2>3. \A x \in Workers : Apart(task[x].tx, tx, crossed')
    BY <1>8, <2>1
  <2> QED BY <1>6, <1>9, <2>2, <2>3 DEF AllApart
<1>12. ImportFine(importer', body', gmail', ready', crossed')
  BY <1>3, <1>4, <1>6, <1>9 DEF ImportFine
<1>13. \A x \in Workers : task'[x] = task[x] /\ Untouched(task[x].tx, body, body', crossed')
  BY <1>1, <1>6, TaskFields DEF TypeOK, Untouched
<1>14. Gone(task', importer', gmail') /\ gmail' \subseteq gmail /\ importer'.meta \subseteq Window
  BY <1>1, <1>6, <1>9 DEF Gone
<1>15. \A t : Settled(t, body, ready, crossed) => Settled(t, body', ready', crossed')
  BY <1>6, <1>10, SettledGrows
<1>16. listed' = listed
  BY <1>6
<1> QED BY <1>10, <1>11, <1>12, <1>13, <1>14, <1>15, <1>16, StillKeeps

-----------------------------------------------------------------------------
(* Transactions commit.                                                     *)

LEMMA TallyCounts ==
  ASSUME TypeOK, NEW tx \in Txs
  PROVE  Larger(count, tx.tally) \in 0..Cardinality(Window)
  BY DEF TypeOK, Txs, Larger

LEMMA CommitTyped ==
  ASSUME TypeOK, NEW tx \in Txs, Commit(tx), tx.marks \subseteq Window
  PROVE  /\ body' \in [Message -> Statuses \cup {"none"}]
         /\ \A m \in Message : body'[m] = IF m \in tx.own THEN tx.as ELSE body[m]
         /\ ready' \in SUBSET Window /\ ready' = ready \cup tx.marks
         /\ count' \in 0..Cardinality(Window)
         /\ tx.as \in Final \cup {"none"} \/ tx.own = {} => Lacking(body') = Lacking(body) \ tx.own
         /\ tx.as = "missing" => Lacking(body') = Lacking(body) \cup tx.own
<1>1. tx.own \in SUBSET Message /\ tx.as \in Statuses \cup {"none"}
  BY DEF Txs
<1>2. /\ Written(tx.own, tx.as) \in [Message -> Statuses \cup {"none"}]
      /\ \A m \in Message : Written(tx.own, tx.as)[m] = IF m \in tx.own THEN tx.as ELSE body[m]
  BY <1>1, WrittenIs
<1>3. body' = Written(tx.own, tx.as) /\ ready' = ready \cup tx.marks /\ count' = Larger(count, tx.tally)
  BY DEF Commit
<1>4. /\ tx.as \in Final \cup {"none"} \/ tx.own = {} =>
           Lacking(Written(tx.own, tx.as)) = Lacking(body) \ tx.own
      /\ tx.as = "missing" => Lacking(Written(tx.own, tx.as)) = Lacking(body) \cup tx.own
  BY <1>1, AfterIs
<1> QED BY <1>2, <1>3, <1>4, TallyCounts DEF TypeOK

(* A commit does not touch another open transaction.                        *)
LEMMA CommitUntouches ==
  ASSUME NEW tx, NEW ux, tx.on, ux.on, ux.own \in SUBSET Message, Apart(tx, ux, crossed),
         \A m \in Message : body'[m] = IF m \in tx.own THEN tx.as ELSE body[m],
         Lacking(body) \ tx.own \subseteq Lacking(body')
  PROVE  Untouched(ux, body, body', crossed)
<1>1. /\ tx.own \cap ux.own = {}
      /\ \A t \in Thread \ crossed : tx.own \cap In(t) = {} \/ ux.own \cap In(t) = {}
  BY DEF Apart
<1> QED BY <1>1 DEF Untouched

(* A commit, by whom it may be: the others stay apart and untouched.        *)
LEMMA CommitKeeps ==
  ASSUME BodyInv, IsFiniteSet(Window), NEW tx \in Txs, tx.on, tx.marks \subseteq Window, Commit(tx),
         Lacking(body) \ tx.own \subseteq Lacking(body'),
         \A t \in Window : Settled(t, body, ready, crossed) => Settled(t, body', ready', crossed),
         listed' \subseteq Window, \A t \in listed' : t \in listed \/ Settled(t, body', ready', crossed),
         bodyDone' \in BOOLEAN, UNCHANGED <<gmail, metaDone, lock, crossed, faults>>,
         fetches' \in SUBSET Thread, backfill' \in BOOLEAN,
         task' \in [Workers -> Tasks], importer' \in Imports,
         \A w \in Workers : task'[w].tx.on => task'[w] = task[w] /\ Apart(tx, task[w].tx, crossed),
         importer'.tx.on => importer' = importer /\ Apart(tx, importer.tx, crossed),
         Gone(task', importer', gmail'), importer'.meta \subseteq Window
  PROVE  BodyInv'
<1>1. TypeOK
  BY DEF BodyInv
<1>2. /\ body' \in [Message -> Statuses \cup {"none"}] /\ ready' \in SUBSET Window
      /\ count' \in 0..Cardinality(Window)
      /\ \A m \in Message : body'[m] = IF m \in tx.own THEN tx.as ELSE body[m]
  BY <1>1, CommitTyped
<1>3. TypeOK'
  BY <1>1, <1>2 DEF TypeOK
<1>4. \A w \in Workers : task'[w].tx.on =>
         task'[w] = task[w] /\ Untouched(task[w].tx, body, body', crossed')
  <2> SUFFICES ASSUME NEW w \in Workers, task'[w].tx.on
               PROVE  Untouched(task[w].tx, body, body', crossed)
    OBVIOUS
  <2>1. task[w].tx.own \in SUBSET Message
    BY <1>1, TaskFields DEF TypeOK
  <2> QED BY <1>2, <2>1, CommitUntouches
<1>5. importer'.tx.on => importer' = importer /\ Untouched(importer.tx, body, body', crossed')
  <2> SUFFICES ASSUME importer'.tx.on PROVE Untouched(importer.tx, body, body', crossed)
    OBVIOUS
  <2>1. importer.tx.own \in SUBSET Message
    BY <1>1, ImportFields
  <2> QED BY <1>2, <2>1, CommitUntouches
<1>6. AllApart(task', importer', crossed')
  BY ApartStay
<1> QED BY <1>3, <1>4, <1>5, <1>6, StillKeeps

(* A transaction that takes bodies off the list of those that lack: an entry *)
(* it leaves without any it marks, or it is crossed.                        *)
LEMMA ResolvingSettles ==
  ASSUME BodyInv, NEW tx \in Txs, Commit(tx), tx.marks \subseteq Window, Sees(tx, body, crossed),
         tx.own # {} => tx.as \in Final \cup {"none"}, listed' \subseteq listed \cup tx.marks
  PROVE  /\ Lacking(body) \ tx.own \subseteq Lacking(body')
         /\ \A t \in Window : Settled(t, body, ready, crossed) => Settled(t, body', ready', crossed)
         /\ listed' \subseteq Window
         /\ \A t \in listed' : t \in listed \/ Settled(t, body', ready', crossed)
<1>1. TypeOK
  BY DEF BodyInv
<1>2. ready' = ready \cup tx.marks /\ Lacking(body') = Lacking(body) \ tx.own
  BY <1>1, CommitTyped
<1>3. ASSUME NEW t \in Window, Settled(t, body, ready, crossed)
      PROVE  Settled(t, body', ready', crossed)
  BY <1>2, <1>3 DEF Settled, Sees
<1> QED BY <1>1, <1>2, <1>3 DEF Settled, TypeOK

LEMMA EmptiedMarked ==
  ASSUME NEW tx
  PROVE  Emptied(tx) \subseteq tx.marks
  BY DEF Emptied

(* A worker commits.                                                        *)
LEMMA WorkerCommits ==
  ASSUME BodyInv, IsFiniteSet(Window), NEW w \in Workers, Committed(w), NEW t \in Tasks,
         task' = [task EXCEPT ![w] = t], ~t.tx.on, t.lost \cap gmail = {},
         listed' \subseteq listed \cup Tx(w).marks,
         UNCHANGED <<gmail, metaDone, importer, fetches, backfill, lock, crossed, faults>>
  PROVE  BodyInv'
<1>1. TypeOK /\ Gone(task, importer, gmail) /\ AllApart(task, importer, crossed)
      /\ importer.meta \subseteq Window /\ TaskFine(task[w], body, gmail, crossed)
  BY DEF BodyInv
<1> DEFINE tx == task[w].tx
<1>2. tx.on /\ Commit(tx) /\ bodyDone' = Completed(tx) /\ listed' \subseteq listed \cup tx.marks
  BY DEF Committed, Tx
<1>3. tx \in Txs /\ tx.clear \in BOOLEAN
  BY <1>1, TaskFields DEF TypeOK
<1>4. tx.marks \subseteq Window /\ Sees(tx, body, crossed) /\ (tx.own # {} => tx.as \in Final \cup {"none"})
  BY <1>1, <1>2 DEF TaskFine
<1>5. \A x \in Workers : task'[x] = IF x = w THEN t ELSE task[x]
  BY <1>1 DEF TypeOK
<1>6. /\ task' \in [Workers -> Tasks] /\ importer' \in Imports /\ importer'.meta \subseteq Window
      /\ fetches' \in SUBSET Thread /\ backfill' \in BOOLEAN /\ bodyDone' \in BOOLEAN
  BY <1>1, <1>2, <1>3, <1>5 DEF TypeOK, Completed
<1>7. /\ \A x \in Workers : task'[x].tx.on => task'[x] = task[x] /\ Apart(tx, task[x].tx, crossed)
      /\ importer'.tx.on => importer' = importer /\ Apart(tx, importer.tx, crossed)
  BY <1>1, <1>5 DEF AllApart
<1>8. Gone(task', importer', gmail')
  BY <1>1, <1>5 DEF Gone
<1> HIDE DEF tx
<1> QED BY <1>2, <1>3, <1>4, <1>6, <1>7, <1>8, ResolvingSettles, CommitKeeps

LEMMA CommitsAsTask ==
  ASSUME BodyInv, IsFiniteSet(Window), NEW w \in Workers, Committed(w)
  PROVE  task[w] \in Tasks /\ NoTx \in Txs /\ ~NoTx.on /\ task[w].lost \cap gmail = {}
  BY NoTxTyped DEF BodyInv, TypeOK, Gone

LEMMA CloseDropStep ==
  ASSUME BodyInv, IsFiniteSet(Window), NEW w \in Workers, CloseDrop(w)
  PROVE  BodyInv'
<1>1. Committed(w) /\ task[w] \in Tasks /\ NoTx \in Txs /\ ~NoTx.on
  BY CommitsAsTask DEF CloseDrop
<1> DEFINE old == [task[w] EXCEPT !.lost = {}, !.tx = NoTx]
           new == [old EXCEPT !.pc = Onward(old)]
<1>2. old \in Tasks /\ ~old.tx.on /\ old.lost = {}
  BY <1>1 DEF Tasks
<1>3. task' = [task EXCEPT ![w] = new]
  BY DEF CloseDrop, Then
<1> HIDE DEF old
<1>4. new \in Tasks /\ ~new.tx.on /\ new.lost \cap gmail = {}
  BY <1>2, OnwardTyped
<1>5. listed' \subseteq listed \cup Tx(w).marks
  BY EmptiedMarked DEF CloseDrop
<1>6. UNCHANGED <<gmail, metaDone, importer, fetches, backfill, lock, crossed, faults>>
  BY DEF CloseDrop, jobs, past
<1> HIDE DEF new
<1> QED BY <1>1, <1>3, <1>4, <1>5, <1>6, WorkerCommits

LEMMA ClosePersistStep ==
  ASSUME BodyInv, IsFiniteSet(Window), NEW w \in Workers, ClosePersist(w)
  PROVE  BodyInv'
<1>1. Committed(w) /\ task[w] \in Tasks /\ NoTx \in Txs /\ ~NoTx.on /\ task[w].lost \cap gmail = {}
  BY CommitsAsTask DEF ClosePersist
<1> DEFINE old == [task[w] EXCEPT !.got = {}, !.tx = NoTx]
           on  == [old EXCEPT !.pc = Onward(old)]
           go  == [old EXCEPT !.pc = "trigger"]
<1>2. old \in Tasks /\ ~old.tx.on /\ old.lost = task[w].lost
  BY <1>1 DEF Tasks
<1>3. task' = [task EXCEPT ![w] = go] \/ task' = [task EXCEPT ![w] = on]
  BY DEF ClosePersist, Then
<1>4. listed' \subseteq listed \cup Tx(w).marks
  BY DEF ClosePersist, importing
<1>5. UNCHANGED <<gmail, metaDone, importer, fetches, backfill, lock, crossed, faults>>
  BY DEF ClosePersist, importing, jobs, past
<1> HIDE DEF old
<1>6. /\ on \in Tasks /\ ~on.tx.on /\ on.lost \cap gmail = {}
      /\ go \in Tasks /\ ~go.tx.on /\ go.lost \cap gmail = {}
  <2>1. on \in Tasks /\ ~on.tx.on /\ on.lost \cap gmail = {}
    BY <1>1, <1>2, OnwardTyped
  <2>2. go \in Tasks /\ ~go.tx.on /\ go.lost \cap gmail = {}
    BY <1>1, <1>2 DEF Tasks
  <2> QED BY <2>1, <2>2
<1> HIDE DEF on, go
<1>7. PICK t \in {on, go} : task' = [task EXCEPT ![w] = t]
  BY <1>3
<1> QED BY <1>1, <1>4, <1>5, <1>6, <1>7, WorkerCommits

LEMMA CloseSpoilStep ==
  ASSUME BodyInv, IsFiniteSet(Window), NEW w \in Workers, CloseSpoil(w)
  PROVE  BodyInv'
<1>1. Committed(w) /\ task[w] \in Tasks /\ NoTx \in Txs /\ ~NoTx.on /\ task[w].lost \cap gmail = {}
  BY CommitsAsTask DEF CloseSpoil
<1> DEFINE new == [task[w] EXCEPT !.bad = {}, !.tx = NoTx, !.pc = "recount"]
<1>2. new \in Tasks /\ ~new.tx.on /\ new.lost = task[w].lost
  BY <1>1 DEF Tasks
<1>3. task' = [task EXCEPT ![w] = new]
  BY <1>1 DEF CloseSpoil, BodyInv, TypeOK
<1>4. listed' \subseteq listed \cup Tx(w).marks
  BY DEF CloseSpoil, importing
<1>5. UNCHANGED <<gmail, metaDone, importer, fetches, backfill, lock, crossed, faults>>
  BY DEF CloseSpoil, importing, jobs, past
<1> HIDE DEF new
<1> QED BY <1>1, <1>2, <1>3, <1>4, <1>5, WorkerCommits

LEMMA CloseRecountStep ==
  ASSUME BodyInv, IsFiniteSet(Window), NEW w \in Workers, CloseRecount(w)
  PROVE  BodyInv'
<1>1. Committed(w) /\ task[w] \in Tasks /\ NoTx \in Txs /\ ~NoTx.on /\ task[w].lost \cap gmail = {}
  BY CommitsAsTask DEF CloseRecount
<1> DEFINE old == [task[w] EXCEPT !.tx = NoTx]
           new == [old EXCEPT !.pc = Onward(old)]
<1>2. old \in Tasks /\ ~old.tx.on /\ old.lost = task[w].lost
  BY <1>1 DEF Tasks
<1>3. task' = [task EXCEPT ![w] = new]
  BY DEF CloseRecount, Then
<1> HIDE DEF old
<1>4. new \in Tasks /\ ~new.tx.on /\ new.lost \cap gmail = {}
  BY <1>1, <1>2, OnwardTyped
<1>5. listed' \subseteq listed \cup Tx(w).marks
  BY DEF CloseRecount, importing
<1>6. UNCHANGED <<gmail, metaDone, importer, fetches, backfill, lock, crossed, faults>>
  BY DEF CloseRecount, importing, jobs, past
<1> HIDE DEF new
<1> QED BY <1>1, <1>3, <1>4, <1>5, <1>6, WorkerCommits

LEMMA CloseSettleStep ==
  ASSUME BodyInv, IsFiniteSet(Window), NEW w \in Workers, CloseSettle(w)
  PROVE  BodyInv'
<1>1. Committed(w) /\ task[w] \in Tasks /\ NoTx \in Txs /\ ~NoTx.on /\ task[w].lost \cap gmail = {}
  BY CommitsAsTask DEF CloseSettle
<1> DEFINE new == [task[w] EXCEPT !.pc = "chain", !.tx = NoTx]
<1>2. new \in Tasks /\ ~new.tx.on /\ new.lost = task[w].lost
  BY <1>1 DEF Tasks
<1>3. task' = [task EXCEPT ![w] = new]
  BY <1>1 DEF CloseSettle, BodyInv, TypeOK
<1>4. listed' \subseteq listed \cup Tx(w).marks
  BY DEF CloseSettle, importing
<1>5. UNCHANGED <<gmail, metaDone, importer, fetches, backfill, lock, crossed, faults>>
  BY DEF CloseSettle, importing, jobs, past
<1> HIDE DEF new
<1> QED BY <1>1, <1>2, <1>3, <1>4, <1>5, WorkerCommits

(* The importer commits beside the workers.                                 *)
LEMMA ImporterAmong ==
  ASSUME BodyInv, MayClose
  PROVE  /\ \A w \in Workers : task[w].tx.on => Apart(importer.tx, task[w].tx, crossed)
         /\ \A w \in Workers : task[w].lost \cap gmail = {}
         /\ importer.tx \in Txs /\ importer.tx.on /\ importer.tx.clear \in BOOLEAN
         /\ importer.meta \subseteq Window /\ ImportFine(importer, body, gmail, ready, crossed)
  BY ImportFields DEF BodyInv, AllApart, Apart, Gone, MayClose

LEMMA CloseRemoveStep ==
  ASSUME BodyInv, IsFiniteSet(Window), CloseRemove
  PROVE  BodyInv'
<1>1. TypeOK /\ MayClose /\ importer.pc = "remove"
  BY DEF BodyInv, CloseRemove
<1> DEFINE tx == importer.tx
<1>2. tx \in Txs /\ tx.on /\ tx.clear \in BOOLEAN /\ Commit(tx) /\ bodyDone' = Completed(tx)
  BY <1>1, ImporterAmong DEF CloseRemove, ImportTx
<1>3. tx.marks \subseteq Window /\ Sees(tx, body, crossed) /\ tx.as = "none"
  BY <1>1, ImporterAmong DEF ImportFine
<1>4. listed' \subseteq listed \cup tx.marks
  BY EmptiedMarked DEF CloseRemove, ImportTx
<1>5. /\ UNCHANGED <<gmail, metaDone, lock, crossed, faults, task>>
      /\ fetches' \in SUBSET Thread /\ backfill' \in BOOLEAN /\ bodyDone' \in BOOLEAN
  BY <1>1, <1>2 DEF CloseRemove, jobs, past, TypeOK, Completed
<1>6. importer' \in Imports /\ ~importer'.tx.on /\ importer'.pc = "trigger" /\ importer'.meta = {}
  BY RestingAt DEF CloseRemove
<1>7. /\ task' \in [Workers -> Tasks] /\ Gone(task', importer', gmail')
      /\ \A w \in Workers : task'[w].tx.on => task'[w] = task[w] /\ Apart(tx, task[w].tx, crossed)
  BY <1>1, <1>5, <1>6, ImporterAmong DEF TypeOK, Gone
<1> HIDE DEF tx
<1> QED BY <1>2, <1>3, <1>4, <1>5, <1>6, <1>7, ResolvingSettles, CommitKeeps

LEMMA CloseConcludeStep ==
  ASSUME BodyInv, IsFiniteSet(Window), CloseConclude
  PROVE  BodyInv'
<1>1. TypeOK /\ MayClose
  BY DEF BodyInv, CloseConclude
<1>2. metaDone' \in BOOLEAN /\ bodyDone' \in BOOLEAN
  BY <1>1, ImporterAmong DEF CloseConclude, ImportTx
<1>3. UNCHANGED <<gmail, body, listed, ready, count, lock, crossed, faults, task, fetches, backfill>>
  BY DEF CloseConclude, jobs, past
<1>4. importer' \in Imports /\ ~importer'.tx.on /\ importer'.pc = "trigger" /\ importer'.meta = {}
  BY RestingAt DEF CloseConclude
<1> QED BY <1>1, <1>2, <1>3, <1>4, OthersStay DEF TypeOK

LEMMA CloseStoreStep ==
  ASSUME BodyInv, IsFiniteSet(Window), CloseStore
  PROVE  BodyInv'
<1>1. TypeOK /\ MayClose /\ importer.pc = "store"
  BY DEF BodyInv, CloseStore
<1> DEFINE tx == importer.tx
           ts == importer.meta
<1>2. /\ tx \in Txs /\ tx.on /\ tx.clear \in BOOLEAN /\ tx.as = "missing" /\ tx.marks \subseteq Window
      /\ ts \subseteq Window
      /\ \A t \in ts : t \in tx.marks \/ tx.own \cap In(t) # {} \/ Settled(t, body, ready, crossed)
  BY <1>1, ImporterAmong DEF ImportFine
<1>3. /\ Commit(tx) /\ listed' = listed \cup ts /\ bodyDone' = (bodyDone /\ tx.clear)
      /\ UNCHANGED <<gmail, metaDone, lock, crossed, faults, task, fetches, backfill>>
  BY DEF CloseStore, ImportTx, jobs, past
<1>4. importer' \in Imports /\ ~importer'.tx.on /\ importer'.pc # "remove" /\ importer'.meta = {}
  <2>1. importer' = [Resting EXCEPT !.pc = "ensure"] \/ importer' = [Resting EXCEPT !.pc = "trigger"]
    BY DEF CloseStore
  <2> QED BY <2>1, RestingAt
<1>5. ready' = ready \cup tx.marks /\ Lacking(body') = Lacking(body) \cup tx.own
  BY <1>1, <1>2, <1>3, CommitTyped
<1>6. /\ task' \in [Workers -> Tasks] /\ Gone(task', importer', gmail')
      /\ \A w \in Workers : task'[w].tx.on => task'[w] = task[w] /\ Apart(tx, task[w].tx, crossed)
  BY <1>1, <1>3, <1>4, ImporterAmong DEF TypeOK, Gone
<1>7. bodyDone' \in BOOLEAN /\ fetches' \in SUBSET Thread /\ backfill' \in BOOLEAN
  BY <1>1, <1>2, <1>3 DEF TypeOK
<1> HIDE DEF tx, ts
<1>8. \A t \in Window : Settled(t, body, ready, crossed) => Settled(t, body', ready', crossed)
  BY <1>5 DEF Settled
<1>9. /\ listed' \subseteq Window
      /\ \A t \in listed' : t \in listed \/ Settled(t, body', ready', crossed)
  BY <1>1, <1>2, <1>3, <1>5, <1>8 DEF Settled, TypeOK
<1> QED BY <1>2, <1>3, <1>4, <1>5, <1>6, <1>7, <1>8, <1>9, CommitKeeps

-----------------------------------------------------------------------------
(* The theorems.                                                            *)

LEMMA BodyInit ==
  ASSUME IsFiniteSet(Window), Init
  PROVE  BodyInv
<1>1. 0 \in 0..Cardinality(Window)
  BY FS_CardinalityType
<1>2. Idle \in Tasks /\ ~Idle.tx.on /\ Idle.lost = {} /\ Resting \in Imports /\ ~Resting.tx.on
      /\ Resting.meta = {} /\ Resting.pc = "idle"
  BY NoTxTyped
<1>3. /\ body \in [Message -> Statuses \cup {"none"}] /\ 0 \in 0..MaxFaults
      /\ task \in [Workers -> Tasks] /\ importer \in Imports
  BY <1>2, BodyAssumption DEF Init
<1>4. TypeOK
  BY <1>1, <1>3 DEF Init, TypeOK
<1>5. \A w \in Workers : task[w] = Idle
  BY DEF Init
<1>6. importer = Resting /\ listed = {}
  BY DEF Init
<1>7. AllApart(task, importer, crossed) /\ Gone(task, importer, gmail)
  BY <1>2, <1>5, <1>6 DEF AllApart, Apart, Gone
<1>8. /\ \A w \in Workers : TaskFine(task[w], body, gmail, crossed)
      /\ ImportFine(importer, body, gmail, ready, crossed)
  BY <1>2, <1>5, <1>6 DEF TaskFine, ImportFine
<1> QED BY <1>2, <1>4, <1>6, <1>7, <1>8 DEF BodyInv

LEMMA BodyStutters ==
  ASSUME BodyInv, IsFiniteSet(Window), UNCHANGED vars
  PROVE  BodyInv'
<1>1. UNCHANGED <<gmail, body, listed, ready, count, metaDone, bodyDone, fetches, backfill, lock, task,
                  importer, crossed, faults>>
  BY DEF vars, past
<1> QED BY <1>1, OthersStay DEF BodyInv, TypeOK, Gone

LEMMA BodyStep ==
  ASSUME BodyInv, IsFiniteSet(Window), [Next]_vars
  PROVE  BodyInv'
<1>1. CASE \E w \in Workers, t \in Thread : BeginFetch(w, t)
  BY <1>1, BeginFetchStep
<1>2. CASE \E w \in Workers : BeginBackfill(w) \/ Work(w) \/ Die(w)
  <2>1. PICK w \in Workers : BeginBackfill(w) \/ Work(w) \/ Die(w)
    BY <1>2
  <2>2. CASE Pend(w) \/ Lock(w) \/ Download(w) \/ Open(w) \/ Trigger(w) \/ Return(w) \/ Finish(w) \/ Chain(w)
    BY <2>2, PendStep, LockStep, DownloadStep, OpenStep, TriggerStep, ReturnStep, FinishStep, ChainStep
  <2>3. CASE CloseDrop(w) \/ ClosePersist(w) \/ CloseSpoil(w) \/ CloseRecount(w) \/ CloseSettle(w)
    BY <2>3, CloseDropStep, ClosePersistStep, CloseSpoilStep, CloseRecountStep, CloseSettleStep
  <2>4. CASE BeginBackfill(w) \/ Die(w)
    BY <2>4, BeginBackfillStep, DieStep
  <2> QED BY <2>1, <2>2, <2>3, <2>4 DEF Work
<1>3. CASE \E t \in Thread : FetchEntry(t) \/ Read(t)
  BY <1>3, FetchEntryStep, ReadStep
<1>4. CASE \E m \in Message : FetchMessage(m) \/ FindGone(m) \/ Age(m) \/ Expunge(m)
  BY <1>4, FetchMessageStep, FindGoneStep, AgeStep, ExpungeStep
<1>5. CASE EndScan \/ Import \/ DieImporting \/ Ensure
  BY <1>5, EndScanStep, OpenImportStep, CloseStoreStep, CloseRemoveStep, CloseConcludeStep,
     EnsureJobsStep, TriggerBackfillStep, DieImportingStep, EnsureStep DEF Import
<1>6. CASE UNCHANGED vars
  BY <1>6, BodyStutters
<1> QED BY <1>1, <1>2, <1>3, <1>4, <1>5, <1>6 DEF Next

(* The invariant holds of every behaviour.                                  *)
THEOREM BodyInvHolds ==
  ASSUME IsFiniteSet(Window)
  PROVE  Spec => []BodyInv
<1>1. Init => BodyInv
  BY BodyInit
<1>2. BodyInv /\ [Next]_vars => BodyInv'
  BY BodyStep
<1> QED BY <1>1, <1>2, PTL DEF Spec

(* A listed entry of the window that is not ready has a body to wait for,    *)
(* unless two open transactions wrote rows of its conversation at once.     *)
THEOREM EntriesAlwaysSettle ==
  ASSUME IsFiniteSet(Window)
  PROVE  Spec => []EntriesSettle
<1>1. BodyInv => EntriesSettle
  BY DEF BodyInv, EntriesSettle, Settled
<1> QED BY <1>1, BodyInvHolds, PTL

(* What a step may do to a body that is final.                              *)
Sticks ==
    \A m \in Message : body[m] \in Final =>
      \/ body'[m] \in {body[m], "fetched"}
      \/ body'[m] = "none" /\ m \notin gmail

LEMMA CommittedSticks ==
  ASSUME BodyInv, NEW w \in Workers, Committed(w)
  PROVE  Sticks
<1>1. TypeOK /\ task[w] \in Tasks
  BY DEF BodyInv, TypeOK
<1> DEFINE tx == task[w].tx
<1>2. tx \in Txs /\ tx.on /\ Commit(tx)
  BY <1>1, TaskFields DEF Committed, Tx
<1>3. /\ task[w].pc \in {"drop", "persist", "spoil", "recount", "settle"}
      /\ tx.marks \subseteq Window
      /\ task[w].pc = "drop" => tx.as = "none" /\ tx.own \cap gmail = {}
      /\ task[w].pc = "persist" => tx.as = "fetched"
      /\ task[w].pc = "spoil" => tx.own \subseteq Lacking(body)
      /\ task[w].pc \in {"recount", "settle"} => tx.own = {}
  BY <1>2 DEF BodyInv, TaskFine
<1>4. \A m \in Message : body'[m] = IF m \in tx.own THEN tx.as ELSE body[m]
  BY <1>1, <1>2, <1>3, CommitTyped
<1>5. \A m \in Lacking(body) : body[m] \notin Final
  BY DEF Lacking
<1> HIDE DEF tx
<1> QED BY <1>3, <1>4, <1>5 DEF Sticks

LEMMA ImportSticks ==
  ASSUME BodyInv, CloseStore \/ CloseRemove
  PROVE  Sticks
<1>1. TypeOK /\ MayClose
  BY DEF BodyInv, CloseStore, CloseRemove
<1> DEFINE tx == importer.tx
<1>2. tx \in Txs /\ Commit(tx)
  BY <1>1, ImporterAmong DEF CloseStore, CloseRemove, ImportTx
<1>3. /\ tx.marks \subseteq Window
      /\ \/ tx.as = "none" /\ tx.own \cap gmail = {}
         \/ \A m \in tx.own : body[m] \notin Final
  BY <1>1, ImporterAmong DEF ImportFine, CloseStore, CloseRemove
<1>4. \A m \in Message : body'[m] = IF m \in tx.own THEN tx.as ELSE body[m]
  BY <1>1, <1>2, <1>3, CommitTyped
<1> HIDE DEF tx
<1> QED BY <1>3, <1>4 DEF Sticks

LEMMA MarkingSticks ==
  ASSUME BodyInv, NEW w \in Workers, Pend(w) \/ Return(w)
  PROVE  Sticks
<1>1. /\ TypeOK /\ task[w].want \in SUBSET Message /\ task[w].left \in SUBSET Message
  BY TaskFields DEF BodyInv, TypeOK
<1>2. body' = Mark(task[w].want, "pending") \/ body' = Mark(task[w].left, "missing")
  BY DEF Pend, Return
<1> QED BY <1>1, <1>2, MarkStays DEF Sticks

LEMMA StepSticks ==
  ASSUME BodyInv, [Next]_vars
  PROVE  Sticks
<1>1. CASE UNCHANGED body
  BY <1>1 DEF Sticks
<1>2. CASE \E w \in Workers : Committed(w) \/ Pend(w) \/ Return(w)
  BY <1>2, CommittedSticks, MarkingSticks
<1>3. CASE CloseStore \/ CloseRemove
  BY <1>3, ImportSticks
<1>4. CASE \E m \in Message : Age(m)
  <2>1. PICK m \in Message : Age(m)
    BY <1>4
  <2>2. \A x \in Message : x # m => body'[x] = body[x]
    BY <2>1 DEF Age, BodyInv, TypeOK
  <2>3. body[m] \notin Final
    BY <2>1 DEF Age, Final
  <2> QED BY <2>2, <2>3 DEF Sticks
<1>5. UNCHANGED body \/ (\E w \in Workers : Committed(w) \/ Pend(w) \/ Return(w))
      \/ CloseStore \/ CloseRemove \/ \E m \in Message : Age(m)
  <2>1. CASE \E w \in Workers : (\E t \in Thread : BeginFetch(w, t)) \/ BeginBackfill(w) \/ Die(w)
    BY <2>1 DEF BeginFetch, BeginBackfill, Die, rows
  <2>2. CASE \E w \in Workers : Work(w)
    BY <2>2 DEF Work, Lock, Download, Open, CloseDrop, ClosePersist, Trigger, CloseSpoil, CloseRecount,
                Finish, CloseSettle, Chain, rows
  <2>3. CASE \E t \in Thread : FetchEntry(t) \/ Read(t)
    BY <2>3 DEF FetchEntry, Read, rows
  <2>4. CASE \E m \in Message : FetchMessage(m) \/ FindGone(m) \/ Age(m) \/ Expunge(m)
    BY <2>4 DEF FetchMessage, FindGone, Expunge, rows
  <2>5. CASE EndScan \/ Import \/ DieImporting \/ Ensure
    BY <2>5 DEF EndScan, Import, OpenImport, CloseConclude, EnsureJobs, TriggerBackfill, DieImporting,
                Ensure, rows
  <2>6. CASE UNCHANGED vars
    BY <2>6 DEF vars
  <2> QED BY <2>1, <2>2, <2>3, <2>4, <2>5, <2>6 DEF Next
<1> QED BY <1>1, <1>2, <1>3, <1>4, <1>5

(* A body that is stored or known to be unreadable is not given up: only a   *)
(* deletion at Gmail takes its row.                                         *)
THEOREM BodiesStick ==
  ASSUME IsFiniteSet(Window)
  PROVE  Spec => BodySticks
<1> DEFINE A0 == \A m \in Message : body[m] \in Final =>
                  \/ body'[m] \in {body[m], "fetched"}
                  \/ body'[m] = "none" /\ m \notin gmail
<1>1. BodyInv /\ [Next]_vars => [A0]_vars
  BY StepSticks DEF Sticks
<1> QED BY <1>1, BodyInvHolds, PTL DEF Spec, BodySticks
=============================================================================
