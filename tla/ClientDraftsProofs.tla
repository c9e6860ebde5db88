-------------------------- MODULE ClientDraftsProofs --------------------------
(***************************************************************************)
(* Theorems about client drafts, for every set of requests and contents,   *)
(* every number of drafts and every bound, lost updates included unless a  *)
(* theorem says otherwise.  First the types and the order of the locks,    *)
(* then what a request may rely on while it holds them (BookInv), then     *)
(* what a row says of the content (ContentKept).                           *)
(* The second part is about linking and setting up accounts, for every     *)
(* number of users, subjects, callbacks, requests, workers and faults: no  *)
(* user has more accounts than the limit, and an account that is importing *)
(* has its job or the request that brings it.                              *)
(***************************************************************************)
EXTENDS MC_ClientDrafts, FiniteSetTheorems, TLAPS

-----------------------------------------------------------------------------
(* Types.                                                                  *)

LEMMA ConstantsTyped ==
  /\ Ids \subseteq Nat /\ Ids \subseteq Identities
  /\ Identities \subseteq 0..Foreign /\ Foreign \in 0..Foreign /\ 0 \in Identities
  BY DraftAssumption DEF Ids, Identities, Foreign

LEMMA FaultTyped ==
  ASSUME TypeOK, Fault \/ UNCHANGED faults
  PROVE  faults' \in 0..MaxFaults
  BY DraftAssumption DEF TypeOK, Fault

LEMMA OwnerTyped ==
  ASSUME TypeOK, NEW i \in Identities
  PROVE  Owner(i) \in Identities
<1>1. CASE Mapped(i)
  <2>1. \E k \in Bound(i) : TRUE
    BY <1>1 DEF Mapped
  <2> QED
    BY <1>1, <2>1 DEF Owner, Bound
<1>2. CASE ~Mapped(i)
  BY <1>2 DEF Owner
<1> QED
  BY <1>1, <1>2

(* The ways in which a step changes the task and the locks of a request.   *)
LEMMA EndTyped ==
  ASSUME TypeOK, NEW r \in Requests, End(r)
  PROVE  task' \in [Requests -> Tasks] /\ holder' \in [Locks -> Requests \cup {None}]
<1>1. Idle \in Tasks
  BY ConstantsTyped DEF Idle, Tasks
<1> QED
  BY <1>1 DEF End, Released, TypeOK

LEMMA AdoptTyped ==
  ASSUME TypeOK, NEW r \in Requests, NEW i \in Identities, NEW n \in {"look", "confirm"}, Adopt(r, i, n)
  PROVE  task' \in [Requests -> Tasks] /\ holder' \in [Locks -> Requests \cup {None}]
<1>1. [task[r] EXCEPT !.id = i, !.key = i, !.pc = "gmail", !.then = n] \in Tasks
  BY ZenonT(30) DEF TypeOK, Tasks
<1>2. task' = [task EXCEPT ![r] = [task[r] EXCEPT !.id = i, !.key = i, !.pc = "gmail", !.then = n]]
  BY DEF Adopt, TypeOK
<1>3. holder' = Released(r)
  BY DEF Adopt
<1> QED
  BY <1>1, <1>2, <1>3 DEF Released, TypeOK

Places == {"search", "prepare", "call", "reject", "record", "drop", "deliver", "restore", "reconcile", "mark"}

LEMMA GotoTyped ==
  ASSUME TypeOK, NEW r \in Requests, NEW p \in Places, Goto(r, p)
  PROVE  task' \in [Requests -> Tasks]
  BY DEF Goto, Places, TypeOK, Tasks

LEMMA UpsertTyped ==
  ASSUME TypeOK, NEW k \in Identities, NEW i \in Identities, NEW c \in Contents \cup {Seen, None},
         NEW s \in {"creating", "saved", "deleted"}, Upsert(k, i, c, s)
  PROVE  row' \in [Identities -> Rows]
  BY DEF Upsert, TypeOK, Rows, RowStates

LEMMA SetStateTyped ==
  ASSUME TypeOK, NEW k \in Identities, NEW s \in {"failed", "deleted", "sending", "saved", "sent"}, SetState(k, s)
  PROVE  row' \in [Identities -> Rows]
  BY DEF SetState, TypeOK, Rows, RowStates

LEMMA StoredTyped ==
  ASSUME NEW k \in 0..Foreign, NEW c \in Contents \cup {None}, NEW by \in {"nobody", "app", "other"}
  PROVE  Stored(k, c, by) \in Drafts
  BY DEF Stored, Drafts

LEMMA SentTyped ==
  ASSUME NEW d \in Drafts
  PROVE  [d EXCEPT !.st = "sent", !.indexed = FALSE] \in Drafts
  BY DEF Drafts

-----------------------------------------------------------------------------
(* The inductive invariant.                                                *)

(* A request takes its locks in order: it holds none while it waits for    *)
(* that of the Gmail draft, and only that one while it waits for that of   *)
(* the identity.                                                           *)
LockOrder ==
    \A r \in Requests :
        /\ task[r].pc \in {"gmail", "client"} => task[r].then # "idle"
        /\ \A l \in Locks :
              holder[l] = r => /\ task[r].pc \notin {"idle", "gmail"}
                               /\ task[r].pc = "client" => l[1] = "gmail"

DraftInv == TypeOK /\ LockOrder

(* How a request that has its locks goes on.                               *)
Move(r) ==
    \/ End(r)
    \/ \E i \in Identities, n \in {"look", "confirm"} : Adopt(r, i, n)
    \/ \E p \in Places : Goto(r, p) /\ UNCHANGED holder
    \/ /\ \E i \in Identities, p \in {"search", "prepare"} : task' = [task EXCEPT ![r].id = i, ![r].pc = p]
       /\ UNCHANGED holder

LEMMA MoveKeepsOrder ==
  ASSUME DraftInv, NEW r \in Requests, Move(r), task[r].pc \notin {"idle", "gmail", "client"}
  PROVE  /\ task' \in [Requests -> Tasks] /\ holder' \in [Locks -> Requests \cup {None}]
         /\ LockOrder'
<1> USE DEF DraftInv
<1>1. CASE End(r)
  <2>1. task' \in [Requests -> Tasks] /\ holder' \in [Locks -> Requests \cup {None}]
    BY <1>1, EndTyped
  <2>2. LockOrder'
    BY <1>1, <2>1, DraftAssumption DEF End, Idle, Released, LockOrder, TypeOK
  <2> QED
    BY <2>1, <2>2
<1>2. ASSUME NEW i \in Identities, NEW n \in {"look", "confirm"}, Adopt(r, i, n)
      PROVE  task' \in [Requests -> Tasks] /\ holder' \in [Locks -> Requests \cup {None}] /\ LockOrder'
  <2>1. task' \in [Requests -> Tasks] /\ holder' \in [Locks -> Requests \cup {None}]
    BY <1>2, AdoptTyped
  <2>2. /\ task'[r].pc = "gmail" /\ task'[r].then = n
        /\ \A s \in Requests \ {r} : task'[s] = task[s]
    BY <1>2 DEF Adopt, TypeOK, Tasks
  <2>3. \A l \in Locks : holder'[l] # r /\ (holder'[l] # None => holder'[l] = holder[l])
    BY <1>2, DraftAssumption DEF Adopt, Released, TypeOK
  <2>4. LockOrder'
    BY <2>2, <2>3, DraftAssumption DEF LockOrder
  <2> QED
    BY <2>1, <2>4
<1>3. ASSUME NEW p \in Places, Goto(r, p), UNCHANGED holder
      PROVE  task' \in [Requests -> Tasks] /\ holder' \in [Locks -> Requests \cup {None}] /\ LockOrder'
  <2>1. task' \in [Requests -> Tasks]
    BY <1>3, GotoTyped
  <2>2. LockOrder'
    BY <1>3 DEF Goto, Places, LockOrder, TypeOK, Tasks
  <2> QED
    BY <1>3, <2>1, <2>2 DEF TypeOK
<1>4. ASSUME NEW i \in Identities, NEW p \in {"search", "prepare"},
             task' = [task EXCEPT ![r].id = i, ![r].pc = p], UNCHANGED holder
      PROVE  task' \in [Requests -> Tasks] /\ holder' \in [Locks -> Requests \cup {None}] /\ LockOrder'
  <2>1. task' = [task EXCEPT ![r] = [task[r] EXCEPT !.id = i, !.pc = p]]
    BY <1>4 DEF TypeOK
  <2>2. [task[r] EXCEPT !.id = i, !.pc = p] \in Tasks /\ [task[r] EXCEPT !.id = i, !.pc = p].pc = p
    BY ZenonT(30) DEF TypeOK, Tasks
  <2>3. LockOrder'
    BY <1>4, <2>1, <2>2 DEF LockOrder, TypeOK
  <2> QED
    BY <1>4, <2>1, <2>2, <2>3 DEF TypeOK
<1> QED
  BY <1>1, <1>2, <1>3, <1>4 DEF Move

(* A request arrives.                                                      *)
LEMMA BeginPreserves ==
  ASSUME DraftInv, NEW r \in Requests, BeginSave(r) \/ BeginSend(r) \/ BeginDelete(r) \/ BeginGet(r)
  PROVE  DraftInv'
<1> USE DEF DraftInv
<1>1. ASSUME NEW t \in Tasks, t.pc \in {"gmail", "client"}, t.then # "idle", Begin(r, t)
      PROVE  DraftInv'
  <2>1. TypeOK'
    BY <1>1, DraftAssumption DEF Begin, TypeOK
  <2>2. LockOrder'
    BY <1>1 DEF Begin, LockOrder, TypeOK
  <2> QED
    BY <2>1, <2>2
<1>2. CASE BeginSave(r)
  <2>1. PICK k \in Identities, c \in Contents, i \in Identities :
          LET key == IF i # 0 THEN i ELSE row[k].id
          IN  Begin(r, [op |-> "save", k |-> k, c |-> c, id |-> i, key |-> key, pc |-> Wanted(key), then |-> "look"])
    BY <1>2 DEF BeginSave
  <2>2. row[k].id \in Identities
    BY DEF TypeOK, Rows
  <2> DEFINE key == IF i # 0 THEN i ELSE row[k].id
             t == [op |-> "save", k |-> k, c |-> c, id |-> i, key |-> key, pc |-> Wanted(key), then |-> "look"]
  <2>3. t \in Tasks /\ t.pc \in {"gmail", "client"} /\ t.then # "idle"
    BY <2>2 DEF Tasks, Wanted
  <2>4. Begin(r, t)
    BY <2>1
  <2> QED
    BY <1>1, <2>3, <2>4
<1>3. CASE BeginSend(r)
  <2>1. PICK k \in Identities, i \in Ids :
          Begin(r, [op |-> "send", k |-> k, c |-> None, id |-> i, key |-> i, pc |-> "gmail", then |-> "claim"])
    BY <1>3 DEF BeginSend
  <2>2. [op |-> "send", k |-> k, c |-> None, id |-> i, key |-> i, pc |-> "gmail", then |-> "claim"] \in Tasks
    BY ConstantsTyped DEF Tasks
  <2> QED
    BY <1>1, <2>1, <2>2
<1>4. CASE BeginDelete(r)
  <2>1. PICK i \in Ids :
          Begin(r, [op |-> "delete", k |-> Owner(i), c |-> None, id |-> i, key |-> i, pc |-> "gmail", then |-> "remove"])
    BY <1>4 DEF BeginDelete
  <2>2. [op |-> "delete", k |-> Owner(i), c |-> None, id |-> i, key |-> i, pc |-> "gmail", then |-> "remove"] \in Tasks
    BY ConstantsTyped, OwnerTyped DEF Tasks
  <2> QED
    BY <1>1, <2>1, <2>2
<1>5. CASE BeginGet(r)
  <2>1. PICK i \in Ids :
          Begin(r, [op |-> "get", k |-> Owner(i), c |-> None, id |-> i, key |-> i, pc |-> "gmail", then |-> "open"])
    BY <1>5 DEF BeginGet
  <2>2. [op |-> "get", k |-> Owner(i), c |-> None, id |-> i, key |-> i, pc |-> "gmail", then |-> "open"] \in Tasks
    BY ConstantsTyped, OwnerTyped DEF Tasks
  <2> QED
    BY <1>1, <2>1, <2>2
<1> QED
  BY <1>2, <1>3, <1>4, <1>5

(* A lock is granted: the Gmail draft's to a request that holds nothing,   *)
(* the identity's to one that holds at most the Gmail draft's.             *)
LEMMA AcquirePreserves ==
  ASSUME DraftInv, NEW r \in Requests, Acquire(r)
  PROVE  DraftInv'
<1> USE DEF DraftInv
<1> DEFINE t == task[r]
           l == IF t.pc = "gmail" THEN <<"gmail", t.key>> ELSE <<"client", t.k>>
           p == IF t.pc = "gmail" THEN "client" ELSE t.then
<1>1. /\ t.pc \in {"gmail", "client"} /\ holder' = [holder EXCEPT ![l] = r]
      /\ task' = [task EXCEPT ![r].pc = p] /\ UNCHANGED <<row, draft, begun, faults>>
  BY DEF Acquire, Goto
<1>2. t \in Tasks /\ t.then # "idle"
  BY <1>1 DEF TypeOK, LockOrder
<1>3. l \in Locks
  BY <1>2 DEF Locks, Tasks
<1>4. [t EXCEPT !.pc = p] \in Tasks /\ [t EXCEPT !.pc = p].pc = p /\ [t EXCEPT !.pc = p].then = t.then
  BY <1>2 DEF Tasks
<1>5. task' = [task EXCEPT ![r] = [t EXCEPT !.pc = p]]
  BY <1>1 DEF TypeOK
<1>6. TypeOK'
  BY <1>1, <1>3, <1>4, <1>5 DEF TypeOK
<1>7. p \notin {"idle", "gmail"} /\ (p = "client" => t.pc = "gmail")
  BY <1>1, <1>2 DEF Tasks
<1>8. LockOrder'
  BY <1>1, <1>2, <1>3, <1>4, <1>5, <1>7 DEF LockOrder, TypeOK
<1> QED
  BY <1>6, <1>8

-----------------------------------------------------------------------------
(* The steps of a request under its locks.                                 *)

(* What such a step has to show: it moves the request and keeps the types  *)
(* of the rows and of the drafts.                                          *)
Works(r) ==
    /\ task[r].pc \notin {"idle", "gmail", "client"} /\ Move(r)
    /\ row' \in [Identities -> Rows] /\ draft' \in [Ids -> Drafts]
    /\ Fault \/ UNCHANGED faults
    /\ UNCHANGED begun

LEMMA WorksPreserves ==
  ASSUME DraftInv, NEW r \in Requests, Works(r)
  PROVE  DraftInv'
<1>1. task' \in [Requests -> Tasks] /\ holder' \in [Locks -> Requests \cup {None}] /\ LockOrder'
  BY MoveKeepsOrder DEF Works
<1>2. faults' \in 0..MaxFaults
  BY FaultTyped DEF Works, DraftInv
<1> QED
  BY <1>1, <1>2 DEF Works, DraftInv, TypeOK

LEMMA TaskTyped ==
  ASSUME TypeOK, NEW r \in Requests
  PROVE  /\ task[r] \in Tasks /\ task[r].k \in Identities /\ task[r].id \in Identities
         /\ task[r].c \in Contents \cup {None} /\ row[task[r].k] \in Rows
         /\ \A k \in Identities : row[k] \in Rows /\ row[k].id \in Identities
         /\ row \in [Identities -> Rows] /\ draft \in [Ids -> Drafts]
  BY DEF TypeOK, Tasks, Rows

LEMMA SaveWorks ==
  ASSUME TypeOK, NEW r \in Requests, Look(r) \/ Search(r) \/ Prepare(r) \/ Refused(r) \/ Reject(r)
  PROVE  Works(r)
<1> USE TaskTyped
<1>1. CASE Look(r)
  <2> DEFINE i == IF row[task[r].k].id # 0 THEN row[task[r].k].id ELSE task[r].id
  <2>1. i \in Identities
    OBVIOUS
  <2>2. \/ End(r) \/ Adopt(r, i, "look")
        \/ /\ task' = [task EXCEPT ![r].id = i, ![r].pc = IF i = 0 THEN "search" ELSE "prepare"]
           /\ UNCHANGED holder
    BY <1>1 DEF Look
  <2>3. Move(r)
    BY <2>1, <2>2 DEF Move
  <2> QED
    BY <1>1, <2>3 DEF Look, Works
<1>2. CASE Search(r)
  <2>1. \/ \E i \in Ids : Adopt(r, i, "look")
        \/ Goto(r, "prepare") /\ UNCHANGED holder
        \/ End(r)
    BY <1>2 DEF Search, Found
  <2>2. Move(r)
    BY <2>1, ConstantsTyped DEF Move, Places
  <2> QED
    BY <1>2, <2>2 DEF Search, Works
<1>3. CASE Prepare(r)
  <2>1. End(r) \/ (Goto(r, "call") /\ UNCHANGED holder)
    BY <1>3 DEF Prepare
  <2>2. Move(r)
    BY <2>1 DEF Move, Places
  <2>3. UNCHANGED row \/ Upsert(task[r].k, task[r].id, task[r].c, "creating")
    BY <1>3 DEF Prepare
  <2>4. row' \in [Identities -> Rows]
    BY <2>3, UpsertTyped
  <2> QED
    BY <1>3, <2>2, <2>4 DEF Prepare, Works
<1>4. CASE Refused(r)
  <2>1. Move(r)
    BY <1>4 DEF Refused, Move, Places
  <2> QED
    BY <1>4, <2>1 DEF Refused, Works
<1>5. CASE Reject(r)
  <2>1. Move(r)
    BY <1>5 DEF Reject, Move
  <2>2. row' \in [Identities -> Rows]
    BY <1>5, SetStateTyped DEF Reject
  <2> QED
    BY <1>5, <2>1, <2>2 DEF Reject, Works
<1> QED
  BY <1>1, <1>2, <1>3, <1>4, <1>5

LEMMA StoreWorks ==
  ASSUME TypeOK, NEW r \in Requests, Create(r) \/ Update(r) \/ Confirm(r) \/ Record(r)
  PROVE  Works(r)
<1> USE TaskTyped
<1>1. CASE Create(r)
  <2>1. PICK i \in Ids :
          /\ draft' = [draft EXCEPT ![i] = Stored(task[r].k, task[r].c, "app")]
          /\ \/ Adopt(r, i, "confirm") /\ UNCHANGED faults
             \/ End(r) /\ Fault
    BY <1>1 DEF Create
  <2>2. draft' \in [Ids -> Drafts]
    BY <2>1, StoredTyped, ConstantsTyped
  <2>3. Move(r)
    BY <2>1, ConstantsTyped DEF Move
  <2> QED
    BY <1>1, <2>1, <2>2, <2>3 DEF Create, Works
<1>2. CASE Update(r)
  <2>1. End(r) \/ (Goto(r, "record") /\ UNCHANGED holder)
    BY <1>2 DEF Update
  <2>2. Move(r)
    BY <2>1 DEF Move, Places
  <2>3. Fault \/ UNCHANGED faults
    BY <1>2 DEF Update
  <2>4. \/ UNCHANGED draft
        \/ draft' = [draft EXCEPT ![task[r].id] = Stored(task[r].k, task[r].c, draft[task[r].id].by)]
    BY <1>2 DEF Update
  <2>5. task[r].id \in Ids
    BY <1>2 DEF Update, Identities, Ids
  <2>6. draft[task[r].id].by \in {"nobody", "app", "other"}
    BY <2>5 DEF Drafts
  <2>7. Stored(task[r].k, task[r].c, draft[task[r].id].by) \in Drafts
    BY <2>6, StoredTyped, ConstantsTyped
  <2>8. draft' \in [Ids -> Drafts]
    BY <2>4, <2>7
  <2> QED
    BY <1>2, <2>2, <2>3, <2>8 DEF Update, Works
<1>3. CASE Confirm(r)
  <2>1. End(r) \/ (Goto(r, "record") /\ UNCHANGED holder)
    BY <1>3 DEF Confirm
  <2>2. Move(r)
    BY <2>1 DEF Move, Places
  <2>3. UNCHANGED row \/ Upsert(task[r].k, task[r].id, task[r].c, "deleted")
    BY <1>3 DEF Confirm
  <2>4. row' \in [Identities -> Rows]
    BY <2>3, UpsertTyped
  <2> QED
    BY <1>3, <2>2, <2>4 DEF Confirm, Works
<1>4. CASE Record(r)
  <2>1. Move(r)
    BY <1>4 DEF Record, Move
  <2>2. UNCHANGED row \/ Upsert(task[r].k, task[r].id, task[r].c, "saved")
    BY <1>4 DEF Record
  <2>3. row' \in [Identities -> Rows]
    BY <2>2, UpsertTyped
  <2> QED
    BY <1>4, <2>1, <2>3 DEF Record, Works
<1> QED
  BY <1>1, <1>2, <1>3, <1>4

LEMMA ReadAndDeleteWork ==
  ASSUME TypeOK, NEW r \in Requests, Open(r) \/ Remove(r) \/ Drop(r)
  PROVE  Works(r)
<1> USE TaskTyped
<1>1. CASE Open(r)
  <2> DEFINE i == task[r].id
             k == IF Mapped(i) THEN Owner(i) ELSE task[r].k
  <2>1. k \in Identities
    BY OwnerTyped
  <2>2. KnownHash(k) \in Contents \cup {Seen, None}
    BY <2>1 DEF KnownHash, Rows
  <2>3. UNCHANGED row \/ Upsert(k, i, KnownHash(k), "saved")
    BY <1>1 DEF Open
  <2>4. row' \in [Identities -> Rows]
    BY <2>1, <2>2, <2>3, UpsertTyped
  <2>5. End(r) /\ task[r].pc = "open" /\ UNCHANGED <<draft, begun, faults>>
    BY <1>1 DEF Open
  <2> QED
    BY <2>4, <2>5 DEF Works, Move
<1>2. CASE Remove(r)
  <2> DEFINE i == task[r].id
  <2>1. End(r) \/ (Goto(r, "drop") /\ UNCHANGED holder)
    BY <1>2 DEF Remove
  <2>2. Move(r)
    BY <2>1 DEF Move, Places
  <2>3. Fault \/ UNCHANGED faults
    BY <1>2 DEF Remove
  <2>4. UNCHANGED draft \/ draft' = [draft EXCEPT ![i].st = IF @ = "draft" THEN "deleted" ELSE @]
    BY <1>2 DEF Remove
  <2>5. draft' \in [Ids -> Drafts]
    BY <2>4 DEF Drafts
  <2> QED
    BY <1>2, <2>2, <2>3, <2>5 DEF Remove, Works
<1>3. CASE Drop(r)
  <2>1. UNCHANGED row \/ SetState(Owner(task[r].id), "deleted")
    BY <1>3 DEF Drop
  <2>2. row' \in [Identities -> Rows]
    BY <2>1, OwnerTyped, SetStateTyped
  <2>3. End(r) /\ task[r].pc = "drop" /\ UNCHANGED <<draft, begun, faults>>
    BY <1>3 DEF Drop
  <2> QED
    BY <2>2, <2>3 DEF Works, Move
<1> QED
  BY <1>1, <1>2, <1>3

LEMMA SendWorks ==
  ASSUME TypeOK, NEW r \in Requests,
         Claim(r) \/ Deliver(r) \/ DeliverRefused(r) \/ Restore(r) \/ Reconcile(r) \/ Mark(r)
  PROVE  Works(r)
<1> USE TaskTyped
<1>1. CASE Claim(r)
  <2>1. \/ SetState(task[r].k, "sending") /\ Goto(r, "deliver") /\ UNCHANGED holder
        \/ Goto(r, "reconcile") /\ UNCHANGED <<row, holder>>
        \/ End(r) /\ UNCHANGED row
    BY <1>1 DEF Claim
  <2>2. Move(r)
    BY <2>1 DEF Move, Places
  <2>3. row' \in [Identities -> Rows]
    BY <2>1, SetStateTyped
  <2> QED
    BY <1>1, <2>2, <2>3 DEF Claim, Works
<1>2. CASE Deliver(r)
  <2> DEFINE i == task[r].id
  <2>1. \/ End(r)
        \/ Goto(r, "mark") /\ UNCHANGED holder
        \/ Goto(r, "reconcile") /\ UNCHANGED holder
    BY <1>2 DEF Deliver
  <2>2. Move(r)
    BY <2>1 DEF Move, Places
  <2>3. Fault \/ UNCHANGED faults
    BY <1>2 DEF Deliver
  <2>4. UNCHANGED draft \/ draft' = [draft EXCEPT ![i].st = "sent", ![i].indexed = FALSE]
    BY <1>2 DEF Deliver
  <2>5. i \in Ids => [draft[i] EXCEPT !.st = "sent", !.indexed = FALSE] \in Drafts
    BY SentTyped
  <2>6. ASSUME draft' = [draft EXCEPT ![i].st = "sent", ![i].indexed = FALSE]
        PROVE  draft' \in [Ids -> Drafts]
    <3>1. draft' = [draft EXCEPT ![i] = [draft[i] EXCEPT !.st = "sent", !.indexed = FALSE]]
      BY <2>6
    <3> QED
      BY <2>5, <3>1
  <2>7. draft' \in [Ids -> Drafts]
    BY <2>4, <2>6
  <2> QED
    BY <1>2, <2>2, <2>3, <2>7 DEF Deliver, Works
<1>3. CASE DeliverRefused(r)
  <2>1. Move(r)
    BY <1>3 DEF DeliverRefused, Move, Places
  <2> QED
    BY <1>3, <2>1 DEF DeliverRefused, Works
<1>4. CASE Restore(r) \/ Mark(r)
  <2>1. UNCHANGED row \/ SetState(task[r].k, "saved") \/ SetState(task[r].k, "sent")
    BY <1>4 DEF Restore, Mark
  <2>2. row' \in [Identities -> Rows]
    BY <2>1, SetStateTyped
  <2>3. End(r) /\ task[r].pc \in {"restore", "mark"} /\ UNCHANGED <<draft, begun, faults>>
    BY <1>4 DEF Restore, Mark
  <2> QED
    BY <2>2, <2>3 DEF Works, Move
<1>5. CASE Reconcile(r)
  <2>1. (Goto(r, "mark") /\ UNCHANGED holder) \/ End(r)
    BY <1>5 DEF Reconcile
  <2>2. Move(r)
    BY <2>1 DEF Move, Places
  <2> QED
    BY <1>5, <2>2 DEF Reconcile, Works
<1> QED
  BY <1>1, <1>2, <1>3, <1>4, <1>5

(* A failure gives the locks up wherever the request was.                  *)
LEMMA FailPreserves ==
  ASSUME DraftInv, NEW r \in Requests, Fail(r)
  PROVE  DraftInv'
<1>1. task' \in [Requests -> Tasks] /\ holder' \in [Locks -> Requests \cup {None}]
  BY EndTyped DEF Fail, DraftInv
<1>2. faults' \in 0..MaxFaults
  BY FaultTyped DEF Fail, DraftInv
<1>3. TypeOK'
  BY <1>1, <1>2 DEF Fail, DraftInv, TypeOK
<1>4. LockOrder'
  BY <1>1, DraftAssumption DEF Fail, End, Idle, Released, DraftInv, LockOrder, TypeOK
<1> QED
  BY <1>3, <1>4 DEF DraftInv

(* Gmail's searches and its other clients.                                 *)
LEMMA OutsidePreserves ==
  ASSUME DraftInv, (\E i \in Ids : Index(i)) \/ (\E c \in Contents : Compose(c))
  PROVE  DraftInv'
<1> USE DEF DraftInv
<1>1. UNCHANGED <<row, task, holder, begun, faults>>
  BY DEF Index, Compose
<1>2. ASSUME NEW i \in Ids, Index(i) PROVE draft' \in [Ids -> Drafts]
  BY ZenonT(30), <1>2 DEF Index, TypeOK, Drafts
<1>3. ASSUME NEW c \in Contents, Compose(c) PROVE draft' \in [Ids -> Drafts]
  <2>1. Stored(Foreign, c, "other") \in Drafts
    BY StoredTyped, ConstantsTyped
  <2> QED
    BY <1>3, <2>1 DEF Compose, TypeOK
<1>4. TypeOK'
  BY <1>1, <1>2, <1>3 DEF TypeOK
<1>5. LockOrder'
  BY <1>1 DEF LockOrder
<1> QED
  BY <1>4, <1>5

LEMMA InitDraftInv == Init => DraftInv
<1> SUFFICES ASSUME Init PROVE DraftInv
  OBVIOUS
<1>1. row \in [Identities -> Rows]
  BY ConstantsTyped DEF Init, Rows, RowStates
<1>2. draft \in [Ids -> Drafts]
  BY ConstantsTyped DEF Init, Drafts
<1>3. task \in [Requests -> Tasks]
  BY ConstantsTyped DEF Init, Idle, Tasks
<1>4. holder \in [Locks -> Requests \cup {None}] /\ begun \in 0..MaxRequests /\ faults \in 0..MaxFaults
  BY DraftAssumption DEF Init
<1>5. LockOrder
  BY DraftAssumption DEF Init, Idle, LockOrder
<1> QED
  BY <1>1, <1>2, <1>3, <1>4, <1>5 DEF DraftInv, TypeOK

LEMMA StepKeepsDraftInv == DraftInv /\ [Next]_vars => DraftInv'
<1> SUFFICES ASSUME DraftInv, [Next]_vars PROVE DraftInv'
  OBVIOUS
<1>1. CASE UNCHANGED vars
  BY <1>1 DEF vars, DraftInv, TypeOK, LockOrder
<1>2. ASSUME NEW r \in Requests, Step(r) PROVE DraftInv'
  <2>1. TypeOK
    BY DEF DraftInv
  <2>2. CASE BeginSave(r) \/ BeginSend(r) \/ BeginDelete(r) \/ BeginGet(r)
    BY <2>2, BeginPreserves
  <2>3. CASE Acquire(r)
    BY <2>3, AcquirePreserves
  <2>4. CASE Look(r) \/ Search(r) \/ Prepare(r) \/ Refused(r) \/ Reject(r)
    BY <2>1, <2>4, SaveWorks, WorksPreserves
  <2>5. CASE Create(r) \/ Update(r) \/ Confirm(r) \/ Record(r)
    BY <2>1, <2>5, StoreWorks, WorksPreserves
  <2>6. CASE Open(r) \/ Remove(r) \/ Drop(r)
    BY <2>1, <2>6, ReadAndDeleteWork, WorksPreserves
  <2>7. CASE Claim(r) \/ Deliver(r) \/ DeliverRefused(r) \/ Restore(r) \/ Reconcile(r) \/ Mark(r)
    BY <2>1, <2>7, SendWorks, WorksPreserves
  <2>8. CASE Fail(r)
    BY <2>8, FailPreserves
  <2> QED
    BY <1>2, <2>2, <2>3, <2>4, <2>5, <2>6, <2>7, <2>8 DEF Step
<1> QED
  BY <1>1, <1>2, OutsidePreserves DEF Next

-----------------------------------------------------------------------------
(* Theorems.                                                               *)

(* Rows, drafts, tasks and locks keep their types.                         *)
THEOREM DraftTypes == Spec => []TypeOK
<1>1. DraftInv => TypeOK
  BY DEF DraftInv
<1> QED
  BY <1>1, InitDraftInv, StepKeepsDraftInv, PTL DEF Spec

(* The requests that save, read, delete and send drafts never wait for one *)
(* another in a circle, the handoff of a first save included               *)
(* (_ClientDraftLockHandle.acquire, adopt_gmail_draft_id).                 *)
THEOREM LocksAreOrdered == Spec => []NoWaitCycle
<1>1. ASSUME DraftInv PROVE NoWaitCycle
  <2> SUFFICES ASSUME NEW S \in (SUBSET Requests) \ {{}}
               PROVE  \E r \in S : \A s \in S : ~WaitsFor(r, s)
    BY DEF NoWaitCycle
  <2>0. PICK r0 : r0 \in S
    <3>1. S # {}
      OBVIOUS
    <3> QED
      BY <3>1
  <2>1. \A r \in Requests : /\ task[r].key \in Identities /\ task[r].k \in Identities
    BY <1>1 DEF DraftInv, TypeOK, Tasks
  <2>2. \A r, s \in Requests :
          WaitsFor(r, s) => task[s].pc \notin {"idle", "gmail"} /\ (task[r].pc = "client" => task[s].pc # "client")
    BY <1>1, <2>1 DEF WaitsFor, DraftInv, LockOrder, Locks
  <2>3. \A r, s \in Requests : WaitsFor(r, s) => task[r].pc \in {"gmail", "client"}
    BY DEF WaitsFor
  <2>4. CASE \E r \in S : task[r].pc \notin {"gmail", "client"}
    BY <2>3, <2>4
  <2>5. CASE \E r \in S : task[r].pc = "client"
    <3>1. PICK r \in S : task[r].pc = "client"
      BY <2>5
    <3>2. CASE \A s \in S : ~WaitsFor(r, s)
      BY <3>2
    <3>3. CASE \E s \in S : WaitsFor(r, s)
      <4>1. PICK s \in S : WaitsFor(r, s)
        BY <3>3
      <4>2. task[s].pc \notin {"gmail", "client"}
        BY <2>2, <3>1, <4>1
      <4> QED
        BY <2>4, <4>2
    <3> QED
      BY <3>2, <3>3
  <2>6. CASE \A r \in S : task[r].pc = "gmail"
    <3>1. \A r, s \in S : ~WaitsFor(r, s)
      BY <2>2, <2>6
    <3> QED
      BY <2>0, <3>1
  <2> QED
    BY <2>4, <2>5, <2>6
<1> QED
  BY <1>1, InitDraftInv, StepKeepsDraftInv, PTL DEF Spec

-----------------------------------------------------------------------------
(* What a request may rely on under its locks: the invariant.               *)

(* The places where a request has all its locks.                            *)
Inside == Places \cup {"look", "confirm", "open", "remove", "claim"}

Holds(r, kind, i) == holder[<<kind, i>>] = r

LocksHeld ==
    \A r \in Requests :
        /\ task[r].pc \in Inside => Holds(r, "client", task[r].k)
        /\ task[r].pc \in Inside \cup {"client"} /\ task[r].key # 0 => Holds(r, "gmail", task[r].key)

(* A Gmail draft has one row at most; the fallback identities know theirs   *)
(* from the beginning, a row that was saved knows its own for good.         *)
RowsBound ==
    \A k \in Identities :
        /\ row[k].id # 0 => draft[row[k].id].st # "absent"
        /\ k # 0 /\ row[k].id # 0 => row[k].id = k
        /\ \A j \in Identities : row[k].id # 0 /\ row[j].id = row[k].id => j = k
        /\ row[k].st \in {"none", "failed"} => row[k].id = 0
        /\ k # 0 /\ row[k].st # "none" => row[k].id # 0
        /\ row[k].st \in {"saved", "sending", "sent", "deleted"} => row[k].id # 0

(* The drafts the app created; a row that knows of none is about to.        *)
Created == {i \in Ids : draft[i].by = "app"}
CreatedOnce ==
    /\ Created # {} => row[0].st = "creating" \/ row[0].id # 0
    /\ \A i, j \in Created : i = j

(* Waiting for its locks, or in the handoff of a draft it created.          *)
Confirming(r) ==
    \/ task[r].pc = "confirm"
    \/ task[r].pc \in {"gmail", "client"} /\ task[r].then = "confirm"

(* Where a request is, and what it knows there.                             *)
Placed(r) ==
    LET t == task[r]
    IN  /\ t.id # 0 => draft[t.id].st # "absent"
        /\ t.op = "save" /\ t.k # 0 => row[t.k].id # 0
        /\ t.pc \in {"gmail", "client"} /\ t.then = "look" => t.op = "save"
        /\ t.pc \in {"look", "search", "prepare", "call", "reject"} => t.op = "save"
        /\ t.pc \in {"search", "reject"} => t.id = 0
        /\ t.pc \in {"search", "prepare", "call", "reject"} =>
              t.id = t.key /\ row[t.k].id \in {0, t.id} /\ row[t.k].st \notin Final \cup {"sending"}
        /\ t.pc \in {"prepare", "call", "reject"} /\ t.id = 0 => Created = {}
        /\ t.pc = "reject" => row[t.k].st = "creating"
        /\ t.pc = "call" =>
              /\ row[t.k].id = t.id
              /\ row[t.k].st = "saved" \/ (row[t.k].st = "creating" /\ row[t.k].c = t.c)
        /\ Confirming(r) => t.k = 0 /\ t.id = t.key /\ t.id \in Created
        /\ t.pc = "record" =>
              /\ t.id # 0 /\ t.id = t.key /\ row[t.k].id \in {0, t.id}
              /\ row[t.k].st \in {"creating", "saved"} /\ draft[t.id].st = "draft"
        /\ (t.pc \in {"gmail", "client"} /\ t.then \in {"open", "remove", "claim"})
             \/ t.pc \in {"open", "remove", "drop", "claim", "deliver", "restore", "reconcile", "mark"}
             => t.id # 0 /\ t.id = t.key
        /\ (t.pc \in {"gmail", "client"} /\ t.then = "open") \/ t.pc = "open" =>
              row[t.k].id = t.id \/ t.k = t.id
        /\ t.pc = "drop" => draft[t.id].st # "draft"
        /\ t.pc \in {"deliver", "restore", "reconcile", "mark"} =>
              row[t.k].id = t.id /\ row[t.k].st = "sending"
        /\ t.pc \in {"deliver", "restore"} => draft[t.id].st # "sent"

(* A sent draft has a row that says so or is about to, a deleted row none   *)
(* that can be edited.                                                      *)
SentKnown ==
    /\ \A i \in Ids : draft[i].st = "sent" => \E k \in Identities : row[k].id = i /\ row[k].st \in {"sending", "sent"}
    /\ DeletedMeansGone

BookInv == DraftInv /\ LocksHeld /\ RowsBound /\ CreatedOnce /\ (\A r \in Requests : Placed(r)) /\ SentKnown

(* The content: that of a row that was saved, of a request about to record  *)
(* it, and of the draft a request created and nobody else has saved.        *)
Recording(k, i) == \E r \in Requests : task[r].pc = "record" /\ task[r].k = k /\ task[r].id = i
ContentKept ==
    /\ \A k \in Identities :
         row[k].st \in {"saved", "sending"} /\ row[k].c \in Contents /\ draft[row[k].id].st = "draft" =>
           draft[row[k].id].c = row[k].c \/ Recording(k, row[k].id)
    /\ \A r \in Requests :
         task[r].pc = "record" /\ MayBind(task[r].k, task[r].id) => draft[task[r].id].c = task[r].c
    /\ \A r \in Requests :
         Confirming(r) /\ row[0].st = "creating" /\ MayBind(0, task[r].id) /\ draft[task[r].id].st = "draft" =>
           draft[task[r].id].c = task[r].c \/ (row[0].id = task[r].id /\ Recording(0, task[r].id))

-----------------------------------------------------------------------------
(* Locks.                                                                  *)
LEMMA InsideIsRest ==
  ASSUME TypeOK, NEW r \in Requests
  PROVE  task[r].pc \in Inside <=> task[r].pc \notin {"idle", "gmail", "client"}
  BY DEF TypeOK, Tasks, Inside, Places

(* A request that moves takes no lock from another.                        *)
Keeps(r) ==
    \A q \in Requests \ {r} :
        task'[q] = task[q] /\ \A l \in Locks : holder[l] = q => holder'[l] = q

LEMMA LockIn ==
  ASSUME NEW i \in Identities
  PROVE  <<"gmail", i>> \in Locks /\ <<"client", i>> \in Locks
  BY DEF Locks

LEMMA MoveLocks ==
  ASSUME DraftInv, LocksHeld, NEW r \in Requests, Move(r), task[r].pc \in Inside
  PROVE  LocksHeld' /\ Keeps(r)
<1>0. /\ task \in [Requests -> Tasks] /\ holder \in [Locks -> Requests \cup {None}] /\ None \notin Requests
      /\ \A q \in Requests : task[q].k \in Identities /\ task[q].key \in Identities
  BY DraftAssumption DEF DraftInv, TypeOK, Tasks
<1>1. task' \in [Requests -> Tasks] /\ holder' \in [Locks -> Requests \cup {None}]
  <2>1. task[r].pc \notin {"idle", "gmail", "client"}
    BY InsideIsRest DEF DraftInv
  <2> QED BY <2>1, MoveKeepsOrder
<1>2. Keeps(r)
  BY <1>0 DEF Move, End, Adopt, Goto, Released, Keeps
<1>3. /\ task'[r].pc \in Inside => task'[r].k = task[r].k /\ task'[r].key = task[r].key /\ holder' = holder
      /\ task'[r].pc # "client"
  <2>1. CASE End(r)
    BY <1>0, <2>1 DEF End, Idle, Inside, Places
  <2>2. ASSUME NEW i \in Identities, NEW n \in {"look", "confirm"}, Adopt(r, i, n)
        PROVE  task'[r].pc = "gmail"
    BY <1>0, <2>2 DEF Adopt, Tasks
  <2>3. ASSUME NEW p \in Places, Goto(r, p), UNCHANGED holder
        PROVE  task'[r].pc = p /\ task'[r].k = task[r].k /\ task'[r].key = task[r].key
    BY <1>0, <2>3 DEF Goto, Tasks
  <2>4. ASSUME NEW i \in Identities, NEW p \in {"search", "prepare"}, UNCHANGED holder,
               task' = [task EXCEPT ![r].id = i, ![r].pc = p]
        PROVE  task'[r].pc = p /\ task'[r].k = task[r].k /\ task'[r].key = task[r].key
    BY <1>0, <2>4 DEF Tasks
  <2>5. "gmail" \notin Inside /\ "client" \notin Places
    BY DEF Inside, Places
  <2>6. CASE \E i \in Identities, n \in {"look", "confirm"} : Adopt(r, i, n)
    BY <2>2, <2>5, <2>6
  <2>7. CASE \E p \in Places : Goto(r, p) /\ UNCHANGED holder
    BY <2>3, <2>5, <2>7
  <2>8. CASE /\ \E i \in Identities, p \in {"search", "prepare"} : task' = [task EXCEPT ![r].id = i, ![r].pc = p]
             /\ UNCHANGED holder
    BY <2>4, <2>8
  <2> QED BY <2>1, <2>6, <2>7, <2>8 DEF Move
<1>5. LocksHeld'
  <2>1. SUFFICES ASSUME NEW q \in Requests
                 PROVE  /\ task'[q].pc \in Inside => holder'[<<"client", task'[q].k>>] = q
                        /\ task'[q].pc \in Inside \cup {"client"} /\ task'[q].key # 0 =>
                             holder'[<<"gmail", task'[q].key>>] = q
    BY DEF LocksHeld, Holds
  <2>2. CASE q = r
    BY <1>3, <2>2 DEF LocksHeld, Holds
  <2>3. CASE q # r
    <3>1. task'[q] = task[q] /\ \A l \in Locks : holder[l] = q => holder'[l] = q
      BY <1>2, <2>3 DEF Keeps
    <3>2. <<"gmail", task[q].key>> \in Locks /\ <<"client", task[q].k>> \in Locks
      BY <1>0, LockIn
    <3> QED
      BY <3>1, <3>2 DEF LocksHeld, Holds
  <2> QED BY <2>2, <2>3
<1> QED BY <1>2, <1>5

(* What the others may rely on while a request moves.                       *)
Stays(r) ==
    /\ \A q \in Requests \ {r} : task'[q] = task[q]
    /\ \A k \in Identities :
         /\ row'[k] # row[k] => Holds(r, "client", k) \/ (row[k].id # 0 /\ Holds(r, "gmail", row[k].id))
         /\ row'[k].id # row[k].id =>
              row[k].id = 0 /\ row'[k].id # 0 /\ Holds(r, "gmail", row'[k].id) /\ Holds(r, "client", k)
    /\ \A i \in Ids :
         /\ draft[i].st # "absent" => draft'[i].st # "absent" /\ draft'[i].by = draft[i].by
         /\ draft'[i].st # draft[i].st \/ draft'[i].c # draft[i].c => draft[i].st = "absent" \/ Holds(r, "gmail", i)
         /\ draft'[i].by = "app" /\ draft[i].by # "app" => Holds(r, "client", 0)

LEMMA OthersPlaced ==
  ASSUME BookInv, TypeOK', NEW r \in Requests, Stays(r), NEW q \in Requests \ {r}
  PROVE  Placed(q)'
<1>1. /\ task'[q] = task[q] /\ task[q] \in Tasks /\ task[q].k \in Identities /\ task[q].id \in Identities
      /\ row[task[q].k].id \in Identities
      /\ task[q].id # 0 => task[q].id \in Ids
  BY DEF Stays, BookInv, DraftInv, TypeOK, Tasks, Rows, Ids, Identities
<1>2. Placed(q)
  BY DEF BookInv
<1>3. task[q].id # 0 => draft'[task[q].id].st # "absent" /\ draft'[task[q].id].by = draft[task[q].id].by
  BY <1>1, <1>2 DEF Stays, Placed
<1>4. task[q].pc \in Inside => ~Holds(r, "client", task[q].k)
  BY DEF BookInv, LocksHeld, Holds
<1>5. task[q].pc \in Inside /\ task[q].key # 0 => ~Holds(r, "gmail", task[q].key)
  BY DEF BookInv, LocksHeld, Holds
<1>6. row[task[q].k].id # 0 => row'[task[q].k].id = row[task[q].k].id
  BY <1>1 DEF Stays
<1>7. task[q].pc \in Inside /\ row[task[q].k].id \in {0, task[q].key} => row'[task[q].k] = row[task[q].k]
  BY <1>1, <1>4, <1>5 DEF Stays
<1>8. task[q].pc \in Inside /\ task[q].id # 0 /\ task[q].id = task[q].key =>
        draft'[task[q].id].st = draft[task[q].id].st
  BY <1>1, <1>2, <1>5 DEF Stays, Placed
<1>9. task[q].pc \in {"prepare", "call", "reject"} /\ task[q].id = 0 => Created' = {}
  <2>1. SUFFICES ASSUME task[q].pc \in {"prepare", "call", "reject"}, task[q].id = 0, NEW i \in Created'
                 PROVE  FALSE
    OBVIOUS
  <2>2. Created = {} /\ task[q].op = "save" /\ row[task[q].k].id = 0
    BY <1>2, <2>1 DEF Placed
  <2>3. task[q].k = 0
    BY <1>2, <2>2 DEF Placed
  <2>4. ~Holds(r, "client", 0)
    BY <1>4, <2>1, <2>3 DEF Inside, Places
  <2> QED BY <2>1, <2>2, <2>4 DEF Stays, Created
<1>10. Confirming(q)' = Confirming(q)
  BY <1>1 DEF Confirming
<1>11. task[q].id \in Created => task[q].id \in Created'
  BY <1>2, <1>3 DEF Created, Placed, Ids
<1>12. CASE task[q].pc \in Inside
  BY <1>1, <1>2, <1>3, <1>6, <1>7, <1>8, <1>9, <1>10, <1>11, <1>12 DEF Placed
<1>13. CASE task[q].pc \notin Inside
  BY <1>1, <1>2, <1>3, <1>6, <1>10, <1>11, <1>13 DEF Placed, Inside, Places
<1> QED BY <1>12, <1>13


(* The rest of the invariant, for the request that moves.                   *)
BookKept == RowsBound /\ CreatedOnce /\ SentKnown

Settles(r) == Stays(r) /\ Placed(r)' /\ BookKept'

LEMMA BookFacts ==
  ASSUME BookInv, NEW r \in Requests
  PROVE  /\ Placed(r)
         /\ task[r].pc \in Inside => Holds(r, "client", task[r].k)
         /\ task[r].pc \in Inside /\ task[r].key # 0 => Holds(r, "gmail", task[r].key)
         /\ task \in [Requests -> Tasks] /\ task[r] \in Tasks
         /\ task[r].k \in Identities /\ task[r].id \in Identities /\ task[r].key \in Identities
         /\ task[r].id # 0 => task[r].id \in Ids
         /\ row \in [Identities -> Rows] /\ draft \in [Ids -> Drafts]
         /\ \A k \in Identities : row[k] \in Rows /\ row[k].id \in Identities
         /\ \A k \in Identities : row[k].id # 0 => row[k].id \in Ids
<1>1. TypeOK /\ LocksHeld /\ Placed(r)
  BY DEF BookInv, DraftInv
<1>2. /\ task \in [Requests -> Tasks] /\ task[r] \in Tasks
      /\ task[r].k \in Identities /\ task[r].id \in Identities /\ task[r].key \in Identities
  BY <1>1 DEF TypeOK, Tasks
<1>3. /\ row \in [Identities -> Rows] /\ draft \in [Ids -> Drafts]
      /\ \A k \in Identities : row[k] \in Rows /\ row[k].id \in Identities
  BY <1>1 DEF TypeOK, Rows
<1>4. \A i \in Identities : i # 0 => i \in Ids
  BY DEF Ids, Identities
<1> QED BY <1>1, <1>2, <1>3, <1>4 DEF LocksHeld

LEMMA OwnerKnown ==
  ASSUME BookInv, NEW i \in Identities, Mapped(i)
  PROVE  /\ Owner(i) \in Identities /\ row[Owner(i)].id = i
         /\ \A k \in Identities : row[k].id = i => k = Owner(i)
<1>1. \E k \in Bound(i) : TRUE
  BY DEF Mapped
<1>2. Owner(i) \in Bound(i)
  BY <1>1 DEF Owner
<1>3. Owner(i) \in Identities /\ row[Owner(i)].id = i /\ i # 0
  BY <1>2 DEF Bound, Mapped
<1> QED BY <1>3 DEF BookInv, RowsBound

(* The ways in which the request itself goes on.                            *)
LEMMA OthersWait ==
  ASSUME BookInv, NEW r \in Requests, Works(r)
  PROVE  \A q \in Requests \ {r} : task'[q] = task[q]
<1>1. task[r].pc \in Inside
  BY InsideIsRest DEF Works, BookInv, DraftInv
<1> QED BY <1>1, MoveLocks DEF BookInv, Works, Keeps

LEMMA EndsPlaced ==
  ASSUME BookInv, NEW r \in Requests, End(r)
  PROVE  Placed(r)'
<1>1. task'[r] = Idle
  BY BookFacts DEF End
<1> QED BY <1>1 DEF Placed, Confirming, Idle

LEMMA GoesTo ==
  ASSUME BookInv, NEW r \in Requests, NEW p, Goto(r, p)
  PROVE  /\ task'[r].pc = p /\ task'[r].op = task[r].op /\ task'[r].k = task[r].k /\ task'[r].c = task[r].c
         /\ task'[r].id = task[r].id /\ task'[r].key = task[r].key /\ task'[r].then = task[r].then
  BY BookFacts DEF Goto, Tasks

LEMMA GoesToLock ==
  ASSUME BookInv, NEW r \in Requests, NEW i, NEW n, Adopt(r, i, n)
  PROVE  /\ task'[r].pc = "gmail" /\ task'[r].op = task[r].op /\ task'[r].k = task[r].k /\ task'[r].c = task[r].c
         /\ task'[r].id = i /\ task'[r].key = i /\ task'[r].then = n
  BY BookFacts DEF Adopt, Tasks

(* What may become of a row, and of a draft.                                *)
RowMayBecome(r, k, x) ==
    /\ x \in Rows
    /\ x.id # row[k].id =>
          /\ row[k].id = 0 /\ Holds(r, "gmail", x.id) /\ Holds(r, "client", k)
          /\ draft[x.id].st # "absent" /\ Bound(x.id) \subseteq {k} /\ (k # 0 => x.id = k)
    /\ Holds(r, "client", k) \/ (row[k].id # 0 /\ Holds(r, "gmail", row[k].id))
    /\ x.st \in {"none", "failed"} => x.id = 0
    /\ k # 0 /\ x.st # "none" => x.id # 0
    /\ x.st \in {"saved", "sending", "sent", "deleted"} => x.id # 0
    /\ k = 0 /\ Created # {} => x.st = "creating" \/ x.id # 0
    /\ x.st = "deleted" => draft[x.id].st # "draft"
    /\ row[k].st \in {"sending", "sent"} /\ draft[row[k].id].st = "sent" => x.st \in {"sending", "sent"}

LEMMA RowStep ==
  ASSUME BookInv, NEW r \in Requests, Works(r), UNCHANGED draft,
         NEW k \in Identities, NEW x, row' = [row EXCEPT ![k] = x], RowMayBecome(r, k, x)
  PROVE  Stays(r) /\ BookKept'
<1>1. /\ row \in [Identities -> Rows] /\ row'[k] = x /\ \A j \in Identities \ {k} : row'[j] = row[j]
      /\ \A j \in Identities : row[j].id \in Identities
      /\ x.id \in Identities
  BY BookFacts DEF RowMayBecome, Rows
<1>2. Stays(r)
  <2>1. x.id # row[k].id => row[k].id = 0 /\ x.id # 0
    BY DEF RowMayBecome
  <2> QED BY <1>1, <2>1, OthersWait DEF RowMayBecome, Stays
<1>3. RowsBound'
  <2>1. \A j \in Identities : j # k /\ row[j].id # 0 => x.id # row[j].id
    BY <1>1 DEF RowMayBecome, Bound, BookInv, RowsBound
  <2>2. SUFFICES ASSUME NEW j \in Identities
                 PROVE  /\ row'[j].id # 0 => draft[row'[j].id].st # "absent"
                        /\ j # 0 /\ row'[j].id # 0 => row'[j].id = j
                        /\ \A m \in Identities : row'[j].id # 0 /\ row'[m].id = row'[j].id => m = j
                        /\ row'[j].st \in {"none", "failed"} => row'[j].id = 0
                        /\ j # 0 /\ row'[j].st # "none" => row'[j].id # 0
                        /\ row'[j].st \in {"saved", "sending", "sent", "deleted"} => row'[j].id # 0
    BY DEF RowsBound
  <2>3. CASE j = k
    BY <1>1, <2>1, <2>3 DEF RowMayBecome, BookInv, RowsBound
  <2>4. CASE j # k
    BY <1>1, <2>1, <2>4 DEF BookInv, RowsBound
  <2> QED BY <2>3, <2>4
<1>4. CreatedOnce'
  BY <1>1 DEF BookInv, CreatedOnce, Created, RowMayBecome, Identities
<1>5. SentKnown'
  <2>1. DeletedMeansGone'
    BY <1>1 DEF BookInv, SentKnown, DeletedMeansGone, RowMayBecome
  <2>2. ASSUME NEW i \in Ids, draft[i].st = "sent"
        PROVE  \E j \in Identities : row'[j].id = i /\ row'[j].st \in {"sending", "sent"}
    <3>1. PICK j \in Identities : row[j].id = i /\ row[j].st \in {"sending", "sent"}
      BY <2>2 DEF BookInv, SentKnown
    <3>2. CASE j # k
      BY <1>1, <3>1, <3>2
    <3>3. CASE j = k
      <4>1. x.st \in {"sending", "sent"} /\ i # 0
        BY <2>2, <3>1, <3>3 DEF RowMayBecome, Ids
      <4>2. x.id = i
        BY <3>1, <3>3, <4>1 DEF RowMayBecome
      <4> QED BY <1>1, <4>1, <4>2
    <3> QED BY <3>2, <3>3
  <2> QED BY <2>1, <2>2 DEF SentKnown
<1> QED BY <1>2, <1>3, <1>4, <1>5 DEF BookKept

DraftMayBecome(r, i, d) ==
    /\ d.st # "absent"
    /\ draft[i].st # "absent" => d.by = draft[i].by /\ Holds(r, "gmail", i)
    /\ d.by = "app" /\ draft[i].by # "app" =>
          Created = {} /\ row[0].st = "creating" /\ Holds(r, "client", 0)
    /\ d.st = "draft" => draft[i].st \in {"absent", "draft"}
    /\ d.st = "sent" => \E k \in Identities : row[k].id = i /\ row[k].st \in {"sending", "sent"}

LEMMA DraftStep ==
  ASSUME BookInv, NEW r \in Requests, Works(r), UNCHANGED row,
         NEW i \in Ids, NEW d, draft' = [draft EXCEPT ![i] = d], DraftMayBecome(r, i, d)
  PROVE  Stays(r) /\ BookKept'
<1>1. /\ draft'[i] = d /\ \A j \in Ids \ {i} : draft'[j] = draft[j]
      /\ \A k \in Identities : row[k].id \in Identities /\ (row[k].id # 0 => row[k].id \in Ids)
  BY BookFacts
<1>2. Stays(r)
  BY <1>1, OthersWait DEF DraftMayBecome, Stays
<1>3. RowsBound'
  BY <1>1 DEF DraftMayBecome, BookInv, RowsBound
<1>4. CreatedOnce'
  <2>1. CASE d.by = "app" /\ draft[i].by # "app"
    <3>1. Created' = {i}
      BY <1>1, <2>1 DEF Created, DraftMayBecome
    <3> QED BY <2>1, <3>1 DEF CreatedOnce, DraftMayBecome
  <2>2. CASE ~(d.by = "app" /\ draft[i].by # "app")
    <3>1. Created' \subseteq Created
      BY <1>1, <2>2 DEF Created
    <3> QED BY <3>1 DEF CreatedOnce, BookInv
  <2> QED BY <2>1, <2>2
<1>5. SentKnown'
  <2>1. DeletedMeansGone'
    <3> SUFFICES ASSUME NEW k \in Identities, row[k].st = "deleted", row[k].id # 0
                 PROVE  draft'[row[k].id].st # "draft"
      BY DEF DeletedMeansGone
    <3>1. draft[row[k].id].st # "draft" /\ draft[row[k].id].st # "absent"
      BY DEF BookInv, SentKnown, DeletedMeansGone, RowsBound
    <3> QED BY <1>1, <3>1 DEF DraftMayBecome
  <2>2. ASSUME NEW j \in Ids, draft'[j].st = "sent"
        PROVE  \E k \in Identities : row[k].id = j /\ row[k].st \in {"sending", "sent"}
    BY <1>1, <2>2 DEF BookInv, SentKnown, DraftMayBecome
  <2> QED BY <2>1, <2>2 DEF SentKnown
<1> QED BY <1>2, <1>3, <1>4, <1>5 DEF BookKept

LEMMA QuietStep ==
  ASSUME BookInv, NEW r \in Requests, Works(r), UNCHANGED <<row, draft>>
  PROVE  Stays(r) /\ BookKept'
<1>1. Stays(r)
  BY OthersWait DEF Stays
<1>2. RowsBound' /\ CreatedOnce' /\ SentKnown'
  BY DEF BookInv, RowsBound, CreatedOnce, Created, SentKnown, DeletedMeansGone
<1> QED BY <1>1, <1>2 DEF BookKept

LEMMA StateSet ==
  ASSUME BookInv, NEW k \in Identities, NEW s \in RowStates, SetState(k, s)
  PROVE  LET x == [row[k] EXCEPT !.st = s]
         IN  row' = [row EXCEPT ![k] = x] /\ x \in Rows /\ x.st = s /\ x.id = row[k].id /\ x.c = row[k].c
<1>1. row[k] \in Rows /\ row \in [Identities -> Rows]
  BY DEF BookInv, DraftInv, TypeOK
<1>2. [row[k] EXCEPT !.st = s] \in Rows
  BY <1>1 DEF Rows
<1> QED BY <1>1, <1>2 DEF SetState, Rows

-----------------------------------------------------------------------------
(* save_draft.                                                             *)

LEMMA LookSettles ==
  ASSUME BookInv, NEW r \in Requests, Look(r)
  PROVE  Settles(r)
<1> DEFINE t == task[r]
           i == IF row[t.k].id # 0 THEN row[t.k].id ELSE t.id
<1>0. Works(r) /\ UNCHANGED <<row, draft>> /\ t.pc = "look"
  BY SaveWorks DEF Look, BookInv, DraftInv
<1>1. Stays(r) /\ BookKept'
  BY <1>0, QuietStep
<1> SUFFICES Placed(r)'
  BY <1>1 DEF Settles
<1>2. /\ t.op = "save" /\ (t.k # 0 => row[t.k].id # 0)
      /\ t.id # 0 => draft[t.id].st # "absent"
      /\ row[t.k].id # 0 => draft[row[t.k].id].st # "absent"
      /\ i \in Identities /\ (i # 0 => draft[i].st # "absent")
  BY <1>0, BookFacts DEF Placed, BookInv, RowsBound
<1>3. CASE End(r)
  BY <1>3, EndsPlaced
<1>4. CASE Adopt(r, i, "look")
  BY SMTT(30), <1>0, <1>2, <1>4, GoesToLock DEF Placed, Confirming
<1>5. CASE /\ Mutable(t.k, t.id) /\ i = t.key
           /\ task' = [task EXCEPT ![r].id = i, ![r].pc = IF i = 0 THEN "search" ELSE "prepare"]
  <2>1. /\ task'[r].pc = (IF i = 0 THEN "search" ELSE "prepare") /\ task'[r].id = i
        /\ task'[r].op = t.op /\ task'[r].k = t.k /\ task'[r].key = t.key
    BY <1>5, BookFacts DEF Tasks
  <2>2. row[t.k].id \in {0, i} /\ row[t.k].st \notin Final \cup {"sending"}
    BY <1>5 DEF Mutable
  <2> HIDE DEF i
  <2>3. CASE i = 0
    BY <1>0, <1>2, <1>5, <2>1, <2>2, <2>3 DEF Placed, Confirming
  <2>4. CASE i # 0
    BY SMTT(30), <1>0, <1>2, <1>5, <2>1, <2>2, <2>4 DEF Placed, Confirming
  <2> QED BY <2>3, <2>4
<1> QED BY <1>3, <1>4, <1>5 DEF Look

LEMMA SearchSettles ==
  ASSUME BookInv, NEW r \in Requests, Search(r)
  PROVE  Settles(r)
<1> DEFINE t == task[r]
<1>0. Works(r) /\ UNCHANGED <<row, draft>> /\ t.pc = "search"
  BY SaveWorks DEF Search, BookInv, DraftInv
<1>1. Stays(r) /\ BookKept'
  BY <1>0, QuietStep
<1> SUFFICES Placed(r)'
  BY <1>1 DEF Settles
<1>2. /\ t.op = "save" /\ t.id = 0 /\ t.key = 0 /\ row[t.k].id = 0 /\ t.k = 0
      /\ row[t.k].st \notin Final \cup {"sending"}
  BY <1>0, BookFacts DEF Placed
<1>3. CASE End(r)
  BY <1>3, EndsPlaced
<1>4. ASSUME NEW i \in Found(t.k), Adopt(r, i, "look") PROVE Placed(r)'
  <2>1. draft[i].st = "draft"
    BY <1>4 DEF Found
  <2> QED BY <1>0, <1>2, <1>4, <2>1, GoesToLock DEF Placed, Confirming
<1>5. CASE MayCreate(t.k) /\ Goto(r, "prepare")
  <2>1. Created = {}
    BY <1>2, <1>5 DEF MayCreate, BookInv, CreatedOnce
  <2> QED BY <1>0, <1>2, <1>5, <2>1, GoesTo DEF Placed, Confirming, Created
<1> QED BY <1>3, <1>4, <1>5 DEF Search

LEMMA PrepareSettles ==
  ASSUME BookInv, NEW r \in Requests, Prepare(r)
  PROVE  Settles(r)
<1> DEFINE t == task[r]
           fresh == row[t.k].st \in {"none", "creating", "failed"}
           x == [st |-> "creating", id |-> IF t.id = 0 THEN row[t.k].id ELSE t.id, c |-> t.c]
<1>0. Works(r) /\ UNCHANGED draft /\ t.pc = "prepare" /\ t.pc \in Inside
  BY SaveWorks DEF Prepare, BookInv, DraftInv, Inside, Places
<1>1. /\ t.op = "save" /\ t.id = t.key /\ row[t.k].id \in {0, t.id}
      /\ row[t.k].st \notin Final \cup {"sending"} /\ (t.k # 0 => row[t.k].id # 0)
      /\ (t.id = 0 => Created = {}) /\ (t.id # 0 => draft[t.id].st # "absent")
      /\ Holds(r, "client", t.k) /\ (t.id # 0 => Holds(r, "gmail", t.id))
  BY <1>0, BookFacts DEF Placed
<1>2. CASE End(r) /\ UNCHANGED row
  BY <1>0, <1>2, EndsPlaced, QuietStep DEF Settles
<1>3. CASE fresh /\ MayBind(t.k, t.id) /\ Upsert(t.k, t.id, t.c, "creating") /\ Goto(r, "call")
  <2>0. row' = [row EXCEPT ![t.k] = x] /\ x.id = t.id
    BY <1>1, <1>3 DEF Upsert
  <2>1. x \in Rows /\ x.id = t.id /\ row' = [row EXCEPT ![t.k] = x]
    <3>1. t.c \in Contents \cup {Seen, None} /\ x.id \in Identities
      BY <2>0, BookFacts DEF Tasks
    <3> QED BY <2>0, <3>1 DEF Rows, RowStates
  <2>2. RowMayBecome(r, t.k, x)
    BY <1>1, <1>3, <2>1 DEF RowMayBecome, MayBind
  <2>3. row'[t.k] = x
    BY <2>1, BookFacts
  <2>4. Placed(r)'
    <3>1. row'[t.k].id = t.id /\ row'[t.k].st = "creating" /\ row'[t.k].c = t.c
      BY <2>1, <2>3
    <3>2. /\ task'[r].pc = "call" /\ task'[r].op = "save" /\ task'[r].id = t.id /\ task'[r].key = t.key
          /\ task'[r].k = t.k /\ task'[r].c = t.c /\ ~Confirming(r)'
      BY <1>1, <1>3, GoesTo DEF Confirming
    <3> QED BY <1>0, <1>1, <3>1, <3>2 DEF Placed, Created, Final
  <2> QED BY <1>0, <2>1, <2>2, <2>4, RowStep, BookFacts DEF Settles
<1>4. CASE ~fresh /\ UNCHANGED row /\ Goto(r, "call")
  <2>1. row[t.k].st = "saved" /\ row[t.k].id = t.id
    BY <1>1, <1>4, BookFacts DEF Rows, RowStates, Final, BookInv, RowsBound
  <2>2. Placed(r)'
    BY <1>0, <1>1, <1>4, <2>1, GoesTo DEF Placed, Confirming, Created, Final
  <2> QED BY <1>0, <1>4, <2>2, QuietStep DEF Settles
<1> QED BY <1>2, <1>3, <1>4 DEF Prepare

(* The one create there is: no draft was created before.                   *)
LEMMA CreateSettles ==
  ASSUME BookInv, NEW r \in Requests, Create(r)
  PROVE  Settles(r)
<1> DEFINE t == task[r]
<1>0. Works(r) /\ UNCHANGED row /\ t.pc = "call" /\ t.id = 0 /\ t.pc \in Inside
  BY StoreWorks DEF Create, BookInv, DraftInv, Inside, Places
<1>1. /\ t.op = "save" /\ t.k = 0 /\ Created = {} /\ Holds(r, "client", 0) /\ row[0].st = "creating"
  BY <1>0, BookFacts DEF Placed, BookInv, RowsBound
<1>2. PICK i \in Ids :
        /\ NewId(i) /\ draft' = [draft EXCEPT ![i] = Stored(t.k, t.c, "app")]
        /\ Adopt(r, i, "confirm") \/ End(r)
  BY DEF Create
<1>3. DraftMayBecome(r, i, Stored(t.k, t.c, "app"))
  BY <1>1, <1>2 DEF DraftMayBecome, NewId, Stored
<1>4. Stays(r) /\ BookKept'
  BY <1>0, <1>2, <1>3, DraftStep
<1>5. CASE Adopt(r, i, "confirm")
  <2>1. draft'[i].st = "draft" /\ draft'[i].by = "app"
    BY <1>2, BookFacts DEF Stored
  <2>2. Placed(r)'
    BY <1>1, <1>5, <2>1, GoesToLock DEF Placed, Confirming, Created
  <2> QED BY <1>4, <2>2 DEF Settles
<1> QED BY <1>2, <1>4, <1>5, EndsPlaced DEF Settles

LEMMA UpdateSettles ==
  ASSUME BookInv, NEW r \in Requests, Update(r)
  PROVE  Settles(r)
<1> DEFINE t == task[r]
           d == Stored(t.k, t.c, draft[t.id].by)
<1>0. Works(r) /\ UNCHANGED row /\ t.pc = "call" /\ t.id \in Ids /\ t.id # 0 /\ t.pc \in Inside
  BY StoreWorks, BookFacts DEF Update, BookInv, DraftInv, Inside, Places
<1>1. /\ t.op = "save" /\ t.id = t.key /\ row[t.k].id = t.id /\ row[t.k].st \in {"saved", "creating"}
      /\ Holds(r, "gmail", t.id)
  BY <1>0, BookFacts DEF Placed
<1>2. CASE End(r) /\ UNCHANGED draft
  BY <1>0, <1>2, EndsPlaced, QuietStep DEF Settles
<1>3. CASE draft[t.id].st = "draft" /\ draft' = [draft EXCEPT ![t.id] = d]
  <2>1. DraftMayBecome(r, t.id, d)
    BY <1>1, <1>3 DEF DraftMayBecome, Stored
  <2>2. draft'[t.id].st = "draft"
    BY <1>0, <1>3, BookFacts DEF Stored
  <2>3. ASSUME Goto(r, "record") PROVE Placed(r)'
    BY SMTT(30), <1>0, <1>1, <2>2, <2>3, BookFacts, GoesTo DEF Placed, Confirming
  <2>4. End(r) \/ Goto(r, "record")
    BY <1>3 DEF Update
  <2> QED BY <1>0, <1>3, <2>1, <2>3, <2>4, DraftStep, EndsPlaced DEF Settles
<1> QED BY <1>2, <1>3 DEF Update

LEMMA RefusalSettles ==
  ASSUME BookInv, NEW r \in Requests, Refused(r) \/ Reject(r)
  PROVE  Settles(r)
<1> DEFINE t == task[r]
<1>0. Works(r) /\ UNCHANGED draft /\ t.pc \in {"call", "reject"} /\ t.pc \in Inside
  BY SaveWorks DEF Refused, Reject, BookInv, DraftInv, Inside, Places
<1>1. CASE Refused(r)
  <2>1. CASE End(r)
    BY <1>0, <1>1, <2>1, EndsPlaced, QuietStep DEF Settles, Refused
  <2>2. CASE t.id = 0 /\ Goto(r, "reject")
    <3>1. t.op = "save" /\ row[t.k].id = 0 /\ row[t.k].st = "creating" /\ t.key = 0 /\ Created = {} /\ t.k = 0
      BY <1>1, <2>2, BookFacts DEF Refused, Placed, BookInv, RowsBound
    <3>2. Placed(r)'
      BY <1>1, <2>2, <3>1, GoesTo DEF Placed, Confirming, Refused, Created, Final
    <3> QED BY <1>0, <1>1, <3>2, QuietStep DEF Settles, Refused
  <2> QED BY <1>1, <2>1, <2>2 DEF Refused
<1>2. CASE Reject(r)
  <2> DEFINE x == [row[t.k] EXCEPT !.st = "failed"]
  <2>1. t.id = 0 /\ t.k = 0 /\ row[t.k].id = 0 /\ Created = {} /\ Holds(r, "client", t.k)
        /\ row[t.k].st = "creating"
    BY <1>0, <1>2, BookFacts DEF Reject, Placed
  <2>0. SetState(t.k, "failed")
    BY <1>2 DEF Reject
  <2>2. x \in Rows /\ x.id = 0 /\ x.st = "failed" /\ row' = [row EXCEPT ![t.k] = x]
    BY ZenonT(30), <2>0, <2>1, StateSet, BookFacts DEF RowStates
  <2>3. RowMayBecome(r, t.k, x)
    BY <2>1, <2>2 DEF RowMayBecome
  <2>4. End(r)
    BY <1>2 DEF Reject
  <2> QED BY <1>0, <2>2, <2>3, <2>4, RowStep, EndsPlaced, BookFacts DEF Settles
<1> QED BY <1>1, <1>2

LEMMA ConfirmSettles ==
  ASSUME BookInv, NEW r \in Requests, Confirm(r)
  PROVE  Settles(r)
<1> DEFINE t == task[r]
           x == [st |-> "deleted", id |-> t.id, c |-> t.c]
<1>0. Works(r) /\ UNCHANGED draft /\ t.pc = "confirm" /\ t.pc \in Inside
  BY StoreWorks DEF Confirm, BookInv, DraftInv, Inside, Places
<1>1. /\ t.k = 0 /\ t.id = t.key /\ t.id \in Created /\ t.id \in Ids /\ t.id # 0
      /\ draft[t.id].st # "absent" /\ Holds(r, "client", 0) /\ Holds(r, "gmail", t.id)
  BY <1>0, BookFacts DEF Placed, Confirming, Created, Ids
<1>2. CASE End(r) /\ UNCHANGED row
  BY <1>0, <1>2, EndsPlaced, QuietStep DEF Settles
<1>3. CASE /\ Mutable(t.k, t.id) /\ draft[t.id].st # "draft" /\ End(r)
           /\ MayBind(t.k, t.id) /\ Upsert(t.k, t.id, t.c, "deleted")
  <2>1. row' = [row EXCEPT ![t.k] = x]
    BY <1>1, <1>3 DEF Upsert
  <2>2. x \in Rows
    <3>1. t.c \in Contents \cup {Seen, None}
      BY BookFacts DEF Tasks
    <3> QED BY <3>1, BookFacts DEF Rows, RowStates
  <2>3. row[0].id \in {0, t.id} /\ row[0].st \notin {"sending", "sent"} /\ Bound(t.id) \subseteq {0}
    BY <1>1, <1>3 DEF Mutable, MayBind, Final
  <2>4. RowMayBecome(r, t.k, x)
    BY <1>1, <1>3, <2>2, <2>3 DEF RowMayBecome
  <2> QED BY <1>0, <1>3, <2>1, <2>4, RowStep, EndsPlaced, BookFacts DEF Settles
<1>4. CASE /\ Mutable(t.k, t.id) /\ draft[t.id].st = "draft" /\ ~Overtaken(t.k, t.c)
           /\ Goto(r, "record") /\ UNCHANGED row
  <2>1. row[0].id \in {0, t.id} /\ row[0].st \notin {"sending", "sent", "deleted", "saved"}
    BY <1>1, <1>4 DEF Mutable, Overtaken, Final
  <2>2. row[0].st = "creating"
    <3>1. row[0].st \in {"none", "failed"} => row[0].id = 0
      BY ConstantsTyped DEF BookInv, RowsBound
    <3>2. row[0].st = "creating" \/ row[0].id # 0
      BY <1>1 DEF BookInv, CreatedOnce
    <3>3. row[0].st \in RowStates
      BY ConstantsTyped, BookFacts DEF Rows
    <3> QED BY <2>1, <3>1, <3>2, <3>3 DEF RowStates
  <2>3. Placed(r)'
    BY SMTT(30), <1>0, <1>1, <1>4, <2>1, <2>2, GoesTo, BookFacts DEF Placed, Confirming
  <2> QED BY <1>0, <1>4, <2>3, QuietStep DEF Settles
<1>5. \/ End(r) /\ UNCHANGED row
      \/ /\ Mutable(t.k, t.id) /\ draft[t.id].st # "draft" /\ End(r)
         /\ MayBind(t.k, t.id) /\ Upsert(t.k, t.id, t.c, "deleted")
      \/ /\ Mutable(t.k, t.id) /\ draft[t.id].st = "draft" /\ ~Overtaken(t.k, t.c)
         /\ Goto(r, "record") /\ UNCHANGED row
  BY DEF Confirm
<1> QED BY <1>2, <1>3, <1>4, <1>5

LEMMA RecordSettles ==
  ASSUME BookInv, NEW r \in Requests, Record(r)
  PROVE  Settles(r)
<1> DEFINE t == task[r]
           x == [st |-> "saved", id |-> t.id, c |-> t.c]
<1>0. Works(r) /\ UNCHANGED draft /\ t.pc = "record" /\ t.pc \in Inside /\ End(r)
  BY StoreWorks DEF Record, BookInv, DraftInv, Inside, Places
<1>1. /\ t.id # 0 /\ t.id = t.key /\ row[t.k].id \in {0, t.id} /\ row[t.k].st \in {"creating", "saved"}
      /\ draft[t.id].st = "draft" /\ Holds(r, "client", t.k) /\ Holds(r, "gmail", t.id)
      /\ t.k # 0 => row[t.k].id # 0
  BY <1>0, BookFacts DEF Placed, BookInv, RowsBound
<1>2. CASE UNCHANGED row
  BY <1>0, <1>2, EndsPlaced, QuietStep DEF Settles
<1>3. CASE MayBind(t.k, t.id) /\ Upsert(t.k, t.id, t.c, "saved")
  <2>1. row' = [row EXCEPT ![t.k] = x]
    BY <1>1, <1>3 DEF Upsert
  <2>2. x \in Rows
    <3>1. t.c \in Contents \cup {Seen, None}
      BY BookFacts DEF Tasks
    <3> QED BY <3>1, BookFacts DEF Rows, RowStates
  <2>3. RowMayBecome(r, t.k, x)
    BY <1>1, <1>3, <2>2 DEF RowMayBecome, MayBind
  <2> QED BY <1>0, <2>1, <2>3, RowStep, EndsPlaced, BookFacts DEF Settles
<1> QED BY <1>2, <1>3 DEF Record

-----------------------------------------------------------------------------
(* get_draft and delete_draft_by_id.                                       *)

LEMMA OpenSettles ==
  ASSUME BookInv, NEW r \in Requests, Open(r)
  PROVE  Settles(r)
<1> DEFINE t == task[r]
           i == t.id
           k == IF Mapped(i) THEN Owner(i) ELSE t.k
           x == [st |-> "saved", id |-> i, c |-> KnownHash(k)]
<1>0. Works(r) /\ UNCHANGED draft /\ t.pc = "open" /\ t.pc \in Inside /\ End(r)
  BY ReadAndDeleteWork DEF Open, BookInv, DraftInv, Inside, Places
<1>1. /\ i # 0 /\ i = t.key /\ i \in Identities /\ k \in Identities
      /\ row[t.k].id = i \/ t.k = i
      /\ Holds(r, "client", t.k) /\ Holds(r, "gmail", i)
  BY <1>0, BookFacts, OwnerKnown DEF Placed
<1>2. CASE UNCHANGED row
  BY <1>0, <1>2, EndsPlaced, QuietStep DEF Settles
<1>3. CASE /\ ~(Mapped(i) /\ ~Mutable(k, i)) /\ draft[i].st = "draft"
           /\ Upsert(k, i, KnownHash(k), "saved")
  <2>1. row' = [row EXCEPT ![k] = x]
    BY <1>1, <1>3 DEF Upsert
  <2>2. x \in Rows
    <3>1. KnownHash(k) \in Contents \cup {Seen, None}
      BY <1>1, BookFacts DEF KnownHash, Rows
    <3> QED BY <1>1, <3>1 DEF Rows, RowStates
  <2>3. RowMayBecome(r, k, x)
    <3>1. CASE Mapped(i)
      <4>1. row[k].id = i /\ row[k].st \notin {"sending", "sent"}
        BY <1>1, <1>3, <3>1, OwnerKnown DEF Mutable, Final
      <4> QED BY <1>1, <1>3, <2>2, <4>1 DEF RowMayBecome
    <3>2. CASE ~Mapped(i)
      <4>1. k = i /\ row[k].id = 0 /\ Bound(i) = {} /\ k = t.k
        BY <1>1, <3>2, BookFacts DEF Mapped, Bound, BookInv, RowsBound
      <4>2. row[k].st \notin {"sending", "sent"}
        BY <1>1, <4>1 DEF BookInv, RowsBound
      <4> QED BY <1>1, <1>3, <2>2, <4>1, <4>2 DEF RowMayBecome
    <3> QED BY <3>1, <3>2
  <2> HIDE DEF k, x
  <2> QED BY <1>0, <1>1, <2>1, <2>3, RowStep, EndsPlaced DEF Settles
<1> QED BY <1>2, <1>3 DEF Open

LEMMA RemoveSettles ==
  ASSUME BookInv, NEW r \in Requests, Remove(r)
  PROVE  Settles(r)
<1> DEFINE t == task[r]
           d == [draft[t.id] EXCEPT !.st = IF @ = "draft" THEN "deleted" ELSE @]
<1>0. Works(r) /\ UNCHANGED row /\ t.pc = "remove" /\ t.pc \in Inside
  BY ReadAndDeleteWork DEF Remove, BookInv, DraftInv, Inside, Places
<1>1. t.id # 0 /\ t.id = t.key /\ t.id \in Ids /\ Holds(r, "gmail", t.id) /\ draft[t.id].st # "absent"
  BY <1>0, BookFacts DEF Placed
<1>2. CASE End(r) /\ UNCHANGED draft
  BY <1>0, <1>2, EndsPlaced, QuietStep DEF Settles
<1>3. CASE draft' = [draft EXCEPT ![t.id].st = IF @ = "draft" THEN "deleted" ELSE @]
  <2>1. draft' = [draft EXCEPT ![t.id] = d] /\ draft'[t.id] = d
    BY <1>1, <1>3, BookFacts
  <2>2. draft[t.id] \in Drafts
    BY <1>1, BookFacts
  <2>3. d.st # "draft" /\ d.by = draft[t.id].by /\ (d.st = draft[t.id].st \/ d.st = "deleted")
    BY <2>2 DEF Drafts
  <2>4. d.st = "sent" => draft[t.id].st = "sent"
    BY <2>3
  <2>5. DraftMayBecome(r, t.id, d)
    BY <1>1, <2>3, <2>4 DEF DraftMayBecome, BookInv, SentKnown
  <2>6. ASSUME Goto(r, "drop") PROVE Placed(r)'
    <3>1. task'[r].pc = "drop" /\ task'[r].id = t.id /\ task'[r].key = t.key /\ task'[r].k = t.k /\ task'[r].op = t.op
      BY <2>6, GoesTo
    <3>2. draft'[t.id].st \notin {"draft", "absent"}
      BY <1>1, <2>1, <2>3
    <3> QED BY <1>0, <1>1, <3>1, <3>2, BookFacts DEF Placed, Confirming
  <2>7. Stays(r) /\ BookKept'
    BY <1>0, <1>1, <2>1, <2>5, DraftStep
  <2>8. End(r) \/ Goto(r, "drop")
    BY DEF Remove
  <2> QED BY <2>6, <2>7, <2>8, EndsPlaced DEF Settles
<1> QED BY <1>2, <1>3 DEF Remove

LEMMA DropSettles ==
  ASSUME BookInv, NEW r \in Requests, Drop(r)
  PROVE  Settles(r)
<1> DEFINE t == task[r]
           k == Owner(t.id)
           x == [row[k] EXCEPT !.st = "deleted"]
<1>0. Works(r) /\ UNCHANGED draft /\ t.pc = "drop" /\ t.pc \in Inside /\ End(r)
  BY ReadAndDeleteWork DEF Drop, BookInv, DraftInv, Inside, Places
<1>1. t.id # 0 /\ t.id = t.key /\ Holds(r, "gmail", t.id) /\ draft[t.id].st # "draft" /\ t.id \in Identities
  BY <1>0, BookFacts DEF Placed
<1>2. CASE UNCHANGED row
  BY <1>0, <1>2, EndsPlaced, QuietStep DEF Settles
<1>3. CASE /\ Mapped(t.id) /\ row[k].st \notin {"sending", "sent"} /\ SetState(k, "deleted")
  <2>1. k \in Identities /\ row[k].id = t.id
    BY <1>1, <1>3, OwnerKnown
  <2>2. row' = [row EXCEPT ![k] = x] /\ x \in Rows /\ x.st = "deleted" /\ x.id = t.id
    BY <1>3, <2>1, StateSet DEF RowStates
  <2>3. RowMayBecome(r, k, x)
    BY <1>1, <1>3, <2>1, <2>2 DEF RowMayBecome
  <2> HIDE DEF k, x
  <2> QED BY <1>0, <2>1, <2>2, <2>3, RowStep, EndsPlaced DEF Settles
<1> QED BY <1>2, <1>3 DEF Drop

-----------------------------------------------------------------------------
(* send_saved_draft.                                                       *)

(* A draft that was sent has a row that is not editable.                   *)
LEMMA EditableUnsent ==
  ASSUME BookInv, NEW k \in Identities, row[k].st \notin {"sending", "sent"}, row[k].id # 0
  PROVE  draft[row[k].id].st # "sent"
<1>1. row[k].id \in Ids
  BY DEF BookInv, DraftInv, TypeOK, Rows, Ids, Identities
<1>2. \A j \in Identities : row[j].id = row[k].id => j = k
  BY DEF BookInv, RowsBound
<1> QED BY <1>1, <1>2 DEF BookInv, SentKnown

LEMMA ClaimSettles ==
  ASSUME BookInv, NEW r \in Requests, Claim(r)
  PROVE  Settles(r)
<1> DEFINE t == task[r]
           x == [row[t.k] EXCEPT !.st = "sending"]
<1>0. Works(r) /\ UNCHANGED draft /\ t.pc = "claim" /\ t.pc \in Inside
  BY SendWorks DEF Claim, BookInv, DraftInv, Inside, Places
<1>1. /\ t.id # 0 /\ t.id = t.key /\ Holds(r, "client", t.k) /\ draft[t.id].st # "absent"
      /\ t.op = "save" /\ t.k # 0 => row[t.k].id # 0
  BY <1>0, BookFacts DEF Placed
<1>2. CASE End(r) /\ UNCHANGED row
  BY <1>0, <1>2, EndsPlaced, QuietStep DEF Settles
<1>3. CASE row[t.k].id = t.id /\ row[t.k].st = "saved" /\ SetState(t.k, "sending") /\ Goto(r, "deliver")
  <2>1. row' = [row EXCEPT ![t.k] = x] /\ x \in Rows /\ x.st = "sending" /\ x.id = t.id
    <3>1. t.k \in Identities /\ "sending" \in RowStates /\ SetState(t.k, "sending")
      BY <1>3, BookFacts DEF RowStates
    <3> QED BY <1>3, <3>1, StateSet
  <2> HIDE DEF x
  <2>2. draft[t.id].st # "sent"
    BY <1>1, <1>3, BookFacts, EditableUnsent
  <2>3. RowMayBecome(r, t.k, x)
    BY <1>1, <1>3, <2>1, <2>2 DEF RowMayBecome
  <2>4. row'[t.k] = x
    BY <2>1, BookFacts
  <2>5. Placed(r)'
    BY <1>0, <1>1, <1>3, <2>1, <2>2, <2>4, GoesTo DEF Placed, Confirming
  <2> QED BY <1>0, <2>1, <2>3, <2>5, RowStep, BookFacts DEF Settles
<1>4. CASE row[t.k].id = t.id /\ row[t.k].st = "sending" /\ Goto(r, "reconcile") /\ UNCHANGED row
  <2>1. Placed(r)'
    BY <1>0, <1>1, <1>4, GoesTo DEF Placed, Confirming
  <2> QED BY <1>0, <1>4, <2>1, QuietStep DEF Settles
<1> QED BY <1>2, <1>3, <1>4 DEF Claim

LEMMA DeliverSettles ==
  ASSUME BookInv, NEW r \in Requests, Deliver(r) \/ DeliverRefused(r) \/ Reconcile(r)
  PROVE  Settles(r)
<1> DEFINE t == task[r]
           d == [draft[t.id] EXCEPT !.st = "sent", !.indexed = FALSE]
<1>0. Works(r) /\ UNCHANGED row /\ t.pc \in {"deliver", "reconcile"} /\ t.pc \in Inside
  BY SendWorks DEF Deliver, DeliverRefused, Reconcile, BookInv, DraftInv, Inside, Places
<1>1. /\ t.id # 0 /\ t.id = t.key /\ t.id \in Ids /\ Holds(r, "gmail", t.id) /\ draft[t.id].st # "absent"
      /\ row[t.k].id = t.id /\ row[t.k].st = "sending"
      /\ t.pc = "deliver" => draft[t.id].st # "sent"
  BY <1>0, BookFacts DEF Placed
<1>2. ASSUME NEW p \in {"mark", "reconcile", "restore"}, Goto(r, p),
             draft'[t.id].st # "absent", p = "restore" => draft'[t.id].st # "sent"
      PROVE  Placed(r)'
  BY <1>0, <1>1, <1>2, GoesTo DEF Placed, Confirming
<1>3. CASE UNCHANGED draft
  <2>1. \/ End(r) \/ Goto(r, "mark") \/ Goto(r, "reconcile")
        \/ t.pc = "deliver" /\ Goto(r, "restore")
    BY DEF Deliver, DeliverRefused, Reconcile
  <2>2. Placed(r)'
    BY <1>1, <1>2, <1>3, <2>1, EndsPlaced
  <2> QED BY <1>0, <1>3, <2>2, QuietStep DEF Settles
<1>4. CASE /\ draft' = [draft EXCEPT ![t.id].st = "sent", ![t.id].indexed = FALSE]
           /\ Goto(r, "mark") \/ End(r)
  <2>1. draft' = [draft EXCEPT ![t.id] = d] /\ draft'[t.id] = d
    BY <1>1, <1>4, BookFacts
  <2>2. d.st = "sent" /\ d.by = draft[t.id].by
    BY <1>1, BookFacts DEF Drafts
  <2>3. DraftMayBecome(r, t.id, d)
    BY <1>1, <2>2, BookFacts DEF DraftMayBecome
  <2>4. Placed(r)'
    BY <1>2, <1>4, <2>1, <2>2, EndsPlaced
  <2> HIDE DEF d
  <2> QED BY <1>0, <1>1, <2>1, <2>3, <2>4, DraftStep DEF Settles
<1> QED BY <1>3, <1>4 DEF Deliver, DeliverRefused, Reconcile

LEMMA SendEndSettles ==
  ASSUME BookInv, NEW r \in Requests, Restore(r) \/ Mark(r)
  PROVE  Settles(r)
<1> DEFINE t == task[r]
<1>0. Works(r) /\ UNCHANGED draft /\ t.pc \in {"restore", "mark"} /\ t.pc \in Inside /\ End(r)
  BY SendWorks DEF Restore, Mark, BookInv, DraftInv, Inside, Places
<1>1. /\ t.id # 0 /\ Holds(r, "client", t.k) /\ row[t.k].id = t.id /\ row[t.k].st = "sending"
      /\ t.pc = "restore" => draft[t.id].st # "sent"
  BY <1>0, BookFacts DEF Placed
<1>2. ASSUME NEW s \in {"saved", "sent"}, SetState(t.k, s), s = "saved" => draft[t.id].st # "sent"
      PROVE  Settles(r)
  <2> DEFINE x == [row[t.k] EXCEPT !.st = s]
  <2>1. row' = [row EXCEPT ![t.k] = x] /\ x \in Rows /\ x.st = s /\ x.id = t.id
    <3>1. t.k \in Identities /\ s \in RowStates
      BY BookFacts DEF RowStates
    <3> QED BY <1>1, <1>2, <3>1, StateSet
  <2>2. RowMayBecome(r, t.k, x)
    BY <1>1, <1>2, <2>1 DEF RowMayBecome
  <2> HIDE DEF x
  <2> QED BY <1>0, <2>1, <2>2, RowStep, EndsPlaced, BookFacts DEF Settles
<1>3. \/ SetState(t.k, "sent")
      \/ t.pc = "restore" /\ SetState(t.k, "saved")
  BY <1>1 DEF Restore, Mark
<1> QED BY <1>1, <1>2, <1>3

-----------------------------------------------------------------------------
(* A request arrives, takes a lock, fails; Gmail goes its own way.          *)

LEMMA SettledKeeps ==
  ASSUME BookInv, DraftInv', NEW r \in Requests, Works(r), Settles(r)
  PROVE  BookInv'
<1>1. LocksHeld'
  <2>1. task[r].pc \in Inside
    BY InsideIsRest DEF Works, BookInv, DraftInv
  <2> QED BY <2>1, MoveLocks DEF BookInv, Works
<1>2. ASSUME NEW q \in Requests PROVE Placed(q)'
  BY OthersPlaced DEF Settles, DraftInv
<1> QED BY <1>1, <1>2 DEF BookInv, Settles, BookKept

(* Neither a row nor a draft changes: only the request itself is to show.   *)
LEMMA StillKeeps ==
  ASSUME BookInv, DraftInv', NEW r \in Requests, UNCHANGED <<row, draft>>,
         \A q \in Requests \ {r} : task'[q] = task[q], LocksHeld', Placed(r)'
  PROVE  BookInv'
<1>1. Stays(r)
  BY DEF Stays
<1>2. ASSUME NEW q \in Requests PROVE Placed(q)'
  BY <1>1, OthersPlaced DEF DraftInv
<1>3. RowsBound' /\ CreatedOnce' /\ SentKnown'
  BY DEF BookInv, RowsBound, CreatedOnce, Created, SentKnown, DeletedMeansGone
<1> QED BY <1>2, <1>3 DEF BookInv

LEMMA BeginKeepsBook ==
  ASSUME BookInv, DraftInv', NEW r \in Requests,
         BeginSave(r) \/ BeginSend(r) \/ BeginDelete(r) \/ BeginGet(r)
  PROVE  BookInv'
<1>1. PICK t : /\ Begin(r, t)
               /\ t.pc = Wanted(t.key)
               /\ t.id # 0 => draft[t.id].st # "absent"
               /\ t.op = "save" /\ t.k # 0 => row[t.k].id # 0
               /\ t.op = "save" <=> t.then = "look"
               /\ t.then \in {"look", "open", "remove", "claim"}
               /\ t.then # "look" => t.id # 0 /\ t.id = t.key
               /\ t.then = "open" => row[t.k].id = t.id \/ t.k = t.id
  <2>1. CASE BeginSave(r)
    <3>1. PICK k \in Identities, c \in Contents, i \in Identities :
            /\ k = 0 \/ row[k].st # "none"
            /\ i # 0 => Visible(i)
            /\ LET key == IF i # 0 THEN i ELSE row[k].id
               IN  Begin(r, [op |-> "save", k |-> k, c |-> c, id |-> i, key |-> key,
                             pc |-> Wanted(key), then |-> "look"])
      BY <2>1 DEF BeginSave
    <3>2. k # 0 => row[k].id # 0
      BY <3>1 DEF BookInv, RowsBound
    <3>3. i # 0 => draft[i].st # "absent"
      BY <3>1 DEF Visible
    <3> DEFINE key == IF i # 0 THEN i ELSE row[k].id
               t == [op |-> "save", k |-> k, c |-> c, id |-> i, key |-> key, pc |-> Wanted(key), then |-> "look"]
    <3>4. Begin(r, t)
      BY <3>1
    <3> HIDE DEF key
    <3> QED BY <3>2, <3>3, <3>4
  <2>2. CASE BeginSend(r)
    <3>1. PICK k \in Identities, i \in Ids :
            /\ Visible(i)
            /\ Begin(r, [op |-> "send", k |-> k, c |-> None, id |-> i, key |-> i,
                         pc |-> "gmail", then |-> "claim"])
      BY <2>2 DEF BeginSend
    <3> QED BY <3>1 DEF Visible, Wanted, Ids
  <2>3. CASE BeginDelete(r)
    <3>1. PICK i \in Ids :
            /\ Visible(i)
            /\ Begin(r, [op |-> "delete", k |-> Owner(i), c |-> None, id |-> i, key |-> i,
                         pc |-> "gmail", then |-> "remove"])
      BY <2>3 DEF BeginDelete
    <3> QED BY <3>1 DEF Visible, Wanted, Ids
  <2>4. CASE BeginGet(r)
    <3>1. PICK i \in Ids :
            /\ Visible(i)
            /\ Begin(r, [op |-> "get", k |-> Owner(i), c |-> None, id |-> i, key |-> i,
                         pc |-> "gmail", then |-> "open"])
      BY <2>4 DEF BeginGet
    <3>2. row[Owner(i)].id = i \/ Owner(i) = i
      BY OwnerKnown, ConstantsTyped DEF Owner
    <3> QED BY <3>1, <3>2 DEF Visible, Wanted, Ids
  <2> QED BY <2>1, <2>2, <2>3, <2>4
<1>2. /\ task' = [task EXCEPT ![r] = t] /\ task'[r] = t /\ \A q \in Requests \ {r} : task'[q] = task[q]
      /\ UNCHANGED <<row, draft, holder>>
  BY <1>1, BookFacts DEF Begin
<1>3. t.pc \in {"gmail", "client"} /\ (t.pc = "client" => t.key = 0)
  BY <1>1 DEF Wanted
<1>4. LocksHeld'
  <2>1. t.pc \notin Inside
    BY <1>3 DEF Inside, Places
  <2> QED BY <1>2, <1>3, <2>1 DEF LocksHeld, Holds, BookInv
<1>5. Placed(r)'
  BY <1>1, <1>2, <1>3 DEF Placed, Confirming
<1> QED BY <1>2, <1>4, <1>5, StillKeeps

LEMMA AcquireKeepsBook ==
  ASSUME BookInv, DraftInv', NEW r \in Requests, Acquire(r)
  PROVE  BookInv'
<1> DEFINE t == task[r]
           l == IF t.pc = "gmail" THEN <<"gmail", t.key>> ELSE <<"client", t.k>>
           p == IF t.pc = "gmail" THEN "client" ELSE t.then
<1>1. /\ t.pc \in {"gmail", "client"} /\ Free(l) /\ holder' = [holder EXCEPT ![l] = r]
      /\ UNCHANGED <<row, draft>> /\ Goto(r, p)
  BY DEF Acquire
<1>2. /\ t.then \in {"look", "confirm", "open", "remove", "claim"}
      /\ holder \in [Locks -> Requests \cup {None}] /\ None \notin Requests
  BY <1>1, DraftAssumption DEF BookInv, DraftInv, LockOrder, TypeOK, Tasks
<1>3. /\ l \in Locks /\ holder'[l] = r
      /\ \A m \in Locks : holder[m] \in Requests => holder'[m] = holder[m]
  BY <1>1, <1>2, BookFacts, LockIn DEF Free
<1>4. /\ task'[r].pc = p /\ task'[r].op = t.op /\ task'[r].k = t.k /\ task'[r].id = t.id
      /\ task'[r].key = t.key /\ task'[r].then = t.then
      /\ \A q \in Requests \ {r} : task'[q] = task[q]
  BY <1>1, GoesTo, BookFacts DEF Goto
<1>5. LocksHeld'
  <2> SUFFICES ASSUME NEW q \in Requests
               PROVE  /\ task'[q].pc \in Inside => holder'[<<"client", task'[q].k>>] = q
                      /\ task'[q].pc \in Inside \cup {"client"} /\ task'[q].key # 0 =>
                           holder'[<<"gmail", task'[q].key>>] = q
    BY DEF LocksHeld, Holds
  <2>1. <<"gmail", task[q].key>> \in Locks /\ <<"client", task[q].k>> \in Locks
    BY BookFacts, LockIn
  <2>2. CASE q # r
    BY <1>3, <1>4, <2>1, <2>2 DEF BookInv, LocksHeld, Holds
  <2>3. CASE q = r /\ t.pc = "gmail"
    BY <1>1, <1>3, <1>4, <2>3 DEF Inside, Places
  <2>4. CASE q = r /\ t.pc = "client"
    BY <1>1, <1>3, <1>4, <2>1, <2>4 DEF BookInv, LocksHeld, Holds
  <2> QED BY <1>1, <2>2, <2>3, <2>4
<1>6. Placed(r)'
  <2>1. CASE p = "client"
    BY ZenonT(30), <1>1, <1>2, <1>4, <2>1, BookFacts DEF Placed, Confirming, Created
  <2>2. CASE t.pc = "client" /\ p = t.then
    <3> HIDE DEF p
    <3> QED BY ZenonT(30), <1>1, <1>2, <1>4, <2>2, BookFacts DEF Placed, Confirming, Created
  <2> QED BY <1>1, <2>1, <2>2
<1> QED BY <1>1, <1>4, <1>5, <1>6, StillKeeps

LEMMA FailKeepsBook ==
  ASSUME BookInv, DraftInv', NEW r \in Requests, Fail(r)
  PROVE  BookInv'
<1>1. /\ \A q \in Requests \ {r} : task'[q] = task[q]
      /\ task'[r] = Idle /\ holder' = Released(r) /\ UNCHANGED <<row, draft>>
  BY BookFacts DEF Fail, End
<1>2. LocksHeld'
  <2> SUFFICES ASSUME NEW q \in Requests
               PROVE  /\ task'[q].pc \in Inside => holder'[<<"client", task'[q].k>>] = q
                      /\ task'[q].pc \in Inside \cup {"client"} /\ task'[q].key # 0 =>
                           holder'[<<"gmail", task'[q].key>>] = q
    BY DEF LocksHeld, Holds
  <2>1. <<"gmail", task[q].key>> \in Locks /\ <<"client", task[q].k>> \in Locks
    BY BookFacts, LockIn
  <2>2. CASE q # r
    BY <1>1, <2>1, <2>2 DEF BookInv, LocksHeld, Holds, Released
  <2>3. CASE q = r
    BY <1>1, <2>3 DEF Idle, Inside, Places
  <2> QED BY <2>2, <2>3
<1>3. Placed(r)'
  BY EndsPlaced DEF Fail
<1> QED BY <1>1, <1>2, <1>3, StillKeeps

LEMMA OutsideKeepsBook ==
  ASSUME BookInv, DraftInv', (\E i \in Ids : Index(i)) \/ (\E c \in Contents : Compose(c))
  PROVE  BookInv'
<1>1. /\ UNCHANGED <<row, task, holder>>
      /\ \A j \in Ids : /\ draft[j].st # "absent" => draft'[j].st = draft[j].st /\ draft'[j].by = draft[j].by
                        /\ draft[j].st = "absent" => draft'[j].st \in {"absent", "draft"}
                        /\ draft'[j].by = "app" => draft[j].by = "app"
  <2>1. draft \in [Ids -> Drafts]
    BY DEF BookInv, DraftInv, TypeOK
  <2>2. ASSUME NEW i \in Ids, Index(i)
        PROVE  \A j \in Ids : draft'[j].st = draft[j].st /\ draft'[j].by = draft[j].by
    BY <2>1, <2>2 DEF Index, Drafts
  <2>3. ASSUME NEW c \in Contents, Compose(c)
        PROVE  \E i \in Ids : /\ draft[i].st = "absent" /\ draft'[i].st = "draft" /\ draft'[i].by = "other"
                              /\ \A j \in Ids \ {i} : draft'[j] = draft[j]
    BY <2>1, <2>3 DEF Compose, NewId, Stored
  <2>4. UNCHANGED <<row, task, holder>>
    BY DEF Index, Compose
  <2>5. CASE \E i \in Ids : Index(i)
    BY <2>2, <2>4, <2>5
  <2>6. CASE \E c \in Contents : Compose(c)
    BY <2>3, <2>4, <2>6
  <2> QED BY <2>5, <2>6
<1>2. Created' \subseteq Created
  BY <1>1 DEF Created
<1>3. ASSUME NEW r \in Requests PROVE Placed(r)'
  <2>1. /\ task'[r] = task[r] /\ row' = row /\ Placed(r)
        /\ task[r].id # 0 =>
             draft[task[r].id].st # "absent" /\ draft'[task[r].id].st = draft[task[r].id].st
             /\ (task[r].id \in Created => task[r].id \in Created')
    BY <1>1, BookFacts DEF Placed, Created
  <2>2. task[r].id \in Created => task[r].id # 0
    BY DEF Created, Ids
  <2> QED BY <1>2, <2>1, <2>2, BookFacts DEF Placed, Confirming
<1>4. LocksHeld'
  BY <1>1 DEF BookInv, LocksHeld, Holds
<1>5. RowsBound'
  <2>1. \A k \in Identities : row[k].id # 0 => row[k].id \in Ids
    BY DEF BookInv, DraftInv, TypeOK, Rows, Ids, Identities
  <2> QED BY <1>1, <2>1 DEF BookInv, RowsBound
<1>6. CreatedOnce'
  BY <1>1, <1>2 DEF BookInv, CreatedOnce
<1>7. SentKnown'
  <2>1. \A k \in Identities : row[k].id # 0 => row[k].id \in Ids /\ draft[row[k].id].st # "absent"
    BY DEF BookInv, DraftInv, TypeOK, Rows, Ids, Identities, RowsBound
  <2>2. DeletedMeansGone'
    BY <1>1, <2>1 DEF BookInv, SentKnown, DeletedMeansGone
  <2> QED BY <1>1, <2>2 DEF BookInv, SentKnown
<1> QED BY <1>3, <1>4, <1>5, <1>6, <1>7 DEF BookInv

LEMMA InitBookInv == Init => BookInv
<1> SUFFICES ASSUME Init PROVE BookInv
  OBVIOUS
<1>1. \A k \in Identities : row[k].st = "none" /\ row[k].id = 0
  BY DEF Init
<1>2. \A i \in Ids : draft[i].st = "absent" /\ draft[i].by = "nobody"
  BY DEF Init
<1>3. \A r \in Requests : task[r] = Idle
  BY DEF Init
<1>4. LocksHeld
  BY <1>3 DEF LocksHeld, Idle, Inside, Places
<1>5. RowsBound /\ CreatedOnce /\ SentKnown
  BY <1>1, <1>2 DEF RowsBound, CreatedOnce, Created, SentKnown, DeletedMeansGone
<1>6. \A r \in Requests : Placed(r)
  BY <1>3 DEF Placed, Confirming, Idle
<1> QED BY <1>4, <1>5, <1>6, InitDraftInv DEF BookInv

LEMMA StepKeepsBook == BookInv /\ [Next]_vars => BookInv'
<1> SUFFICES ASSUME BookInv, [Next]_vars PROVE BookInv'
  OBVIOUS
<1>0. DraftInv' /\ TypeOK
  BY StepKeepsDraftInv DEF BookInv, DraftInv
<1>1. CASE UNCHANGED vars
  BY SMTT(30), <1>0, <1>1 DEF vars, BookInv, LocksHeld, Holds, RowsBound, CreatedOnce, Created, Placed, Confirming,
                    SentKnown, DeletedMeansGone
<1>2. ASSUME NEW r \in Requests, Step(r) PROVE BookInv'
  <2>1. CASE BeginSave(r) \/ BeginSend(r) \/ BeginDelete(r) \/ BeginGet(r)
    BY <1>0, <2>1, BeginKeepsBook
  <2>2. CASE Acquire(r)
    BY <1>0, <2>2, AcquireKeepsBook
  <2>3. CASE Look(r) \/ Search(r) \/ Prepare(r) \/ Refused(r) \/ Reject(r)
    <3>1. Settles(r)
      BY <2>3, LookSettles, SearchSettles, PrepareSettles, RefusalSettles
    <3> QED BY <1>0, <2>3, <3>1, SaveWorks, SettledKeeps
  <2>4. CASE Create(r) \/ Update(r) \/ Confirm(r) \/ Record(r)
    <3>1. Settles(r)
      BY <2>4, CreateSettles, UpdateSettles, ConfirmSettles, RecordSettles
    <3> QED BY <1>0, <2>4, <3>1, StoreWorks, SettledKeeps
  <2>5. CASE Open(r) \/ Remove(r) \/ Drop(r)
    <3>1. Settles(r)
      BY <2>5, OpenSettles, RemoveSettles, DropSettles
    <3> QED BY <1>0, <2>5, <3>1, ReadAndDeleteWork, SettledKeeps
  <2>6. CASE Claim(r) \/ Deliver(r) \/ DeliverRefused(r) \/ Restore(r) \/ Reconcile(r) \/ Mark(r)
    <3>1. Settles(r)
      BY <2>6, ClaimSettles, DeliverSettles, SendEndSettles
    <3> QED BY <1>0, <2>6, <3>1, SendWorks, SettledKeeps
  <2>7. CASE Fail(r)
    BY <1>0, <2>7, FailKeepsBook
  <2> QED
    BY <1>2, <2>1, <2>2, <2>3, <2>4, <2>5, <2>6, <2>7 DEF Step
<1> QED
  BY <1>0, <1>1, <1>2, OutsideKeepsBook DEF Next

-----------------------------------------------------------------------------
(* What a row says of the content.                                         *)

(* What a step of a request may do to it.                                   *)
ContentStep(r) ==
    /\ \A k \in Identities :
         row'[k].st \in {"saved", "sending"} /\ row'[k].c \in Contents =>
           \/ draft'[row'[k].id].c = row'[k].c
           \/ row[k].st \in {"saved", "sending"} /\ row'[k].id = row[k].id /\ row'[k].c = row[k].c
    /\ \A i \in Ids :
         draft'[i].c # draft[i].c \/ (draft'[i].st = "draft" /\ draft[i].st # "draft") =>
           \/ draft[i].st = "absent"
           \/ task'[r].pc = "record" /\ task'[r].id = i /\ row'[task'[r].k].id = i
    /\ task[r].pc = "record" /\ row[task[r].k].id = task[r].id =>
         row'[task[r].k].st = "saved" /\ row'[task[r].k].c = task[r].c
    /\ row'[0].st = "creating" /\ Created # {} => row[0].st = "creating"
    /\ task'[r].pc = "record" /\ MayBind(task[r].k, task[r].id)' => draft'[task'[r].id].c = task'[r].c
    /\ Confirming(r)' =>
         \/ draft'[task'[r].id].c = task'[r].c
         \/ Confirming(r) /\ task'[r].id = task[r].id /\ task'[r].c = task[r].c

LEMMA BoundGrows ==
  ASSUME BookInv, NEW r \in Requests, Stays(r), NEW i \in Ids
  PROVE  /\ Bound(i) \subseteq Bound(i)'
         /\ ~Holds(r, "gmail", i) => Bound(i)' = Bound(i)
  BY DEF Stays, Bound, Ids

LEMMA BindsBefore ==
  ASSUME BookInv, NEW r \in Requests, Stays(r), NEW k \in Identities, NEW i \in Ids, MayBind(k, i)'
  PROVE  MayBind(k, i)
  BY BoundGrows DEF MayBind

LEMMA SavedKeepsContent ==
  ASSUME BookInv, BookInv', ContentKept, NEW r \in Requests, Stays(r), ContentStep(r),
         NEW k \in Identities,
         row'[k].st \in {"saved", "sending"}, row'[k].c \in Contents, draft'[row'[k].id].st = "draft"
  PROVE  draft'[row'[k].id].c = row'[k].c \/ Recording(k, row[k].id)'
<1> DEFINE i == row'[k].id
<1>0. i \in Ids /\ i # 0 /\ RowsBound'
  BY DEF BookInv, DraftInv, TypeOK, Rows, RowsBound, Ids, Identities
<1>1. CASE draft'[i].c = row'[k].c
  BY <1>1
<1>2. CASE row[k].st \in {"saved", "sending"} /\ i = row[k].id /\ row'[k].c = row[k].c
  <2>1. draft[i].st # "absent"
    BY <1>0, <1>2 DEF BookInv, RowsBound, Ids
  <2>2. CASE draft'[i].c # draft[i].c \/ draft[i].st # "draft"
    <3>1. task'[r].pc = "record" /\ task'[r].id = i /\ row'[task'[r].k].id = i
      BY <1>0, <2>1, <2>2 DEF ContentStep
    <3>2. task'[r].k \in Identities
      BY DEF BookInv, DraftInv, TypeOK, Tasks
    <3>3. task'[r].k = k
      BY <1>0, <3>1, <3>2 DEF RowsBound
    <3> QED BY <3>1, <3>3 DEF Recording
  <2>3. CASE draft'[i].c = draft[i].c /\ draft[i].st = "draft"
    <3>1. CASE draft[i].c = row[k].c
      BY <1>2, <2>3, <3>1
    <3>2. CASE Recording(k, i)
      <4>1. PICK q \in Requests : task[q].pc = "record" /\ task[q].k = k /\ task[q].id = i
        BY <3>2 DEF Recording
      <4>2. CASE q # r
        <5>1. task'[q] = task[q]
          BY <4>2 DEF Stays
        <5> QED BY <4>1, <5>1 DEF Recording
      <4>3. CASE q = r
        <5>1. row'[k].c = task[r].c
          BY <1>2, <4>1, <4>3 DEF ContentStep
        <5>2. MayBind(k, i)
          BY <1>0, <1>2 DEF BookInv, RowsBound, MayBind, Bound, Ids
        <5>3. draft[i].c = task[r].c
          BY <4>1, <4>3, <5>2 DEF ContentKept
        <5> QED BY <2>3, <5>1, <5>3
      <4> QED BY <4>2, <4>3
    <3>3. draft[i].c = row[k].c \/ Recording(k, i)
      BY <1>2, <2>3 DEF ContentKept
    <3> QED BY <3>1, <3>2, <3>3
  <2> QED BY <2>2, <2>3
<1> QED BY <1>1, <1>2 DEF ContentStep

LEMMA RecordKeepsContent ==
  ASSUME BookInv, BookInv', ContentKept, NEW r \in Requests, Stays(r), ContentStep(r),
         NEW q \in Requests, task'[q].pc = "record", MayBind(task[q].k, task[q].id)'
  PROVE  draft'[task'[q].id].c = task'[q].c
<1>1. CASE q = r
  BY <1>1 DEF ContentStep
<1>2. CASE q # r
  <2>1. task'[q] = task[q] /\ task[q].pc = "record" /\ task[q].pc \in Inside
    BY <1>2 DEF Stays, Inside, Places
  <2>2. task[q].id \in Ids /\ task[q].id = task[q].key /\ draft[task[q].id].st = "draft" /\ task[q].k \in Identities
    BY <2>1, BookFacts DEF Placed
  <2>3. ~Holds(r, "gmail", task[q].id)
    <3>1. Holds(q, "gmail", task[q].key)
      BY <2>1, <2>2, BookFacts DEF Ids
    <3> QED BY <1>2, <2>2, <3>1 DEF Holds
  <2>4. MayBind(task[q].k, task[q].id)
    BY <2>1, <2>2, BindsBefore
  <2> QED BY <2>1, <2>2, <2>3, <2>4 DEF ContentKept, Stays
<1> QED BY <1>1, <1>2

LEMMA ConfirmKeepsContent ==
  ASSUME BookInv, BookInv', ContentKept, NEW r \in Requests, Stays(r), ContentStep(r),
         NEW q \in Requests, Confirming(q)', row'[0].st = "creating", MayBind(0, task[q].id)',
         draft'[task'[q].id].st = "draft"
  PROVE  \/ draft'[task'[q].id].c = task'[q].c
         \/ row'[0].id = task'[q].id /\ Recording(0, task[q].id)'
<1> DEFINE i == task[q].id
<1>1. CASE q = r /\ draft'[task'[r].id].c = task'[r].c
  BY <1>1
<1>2. CASE Confirming(q) /\ task'[q].id = i /\ task'[q].c = task[q].c
  <2>1. i \in Created /\ i \in Ids /\ i # 0 /\ draft[i].st # "absent"
    BY <1>2, BookFacts DEF Placed, Created, Ids
  <2>2. MayBind(0, i)
    BY <1>2, <2>1, BindsBefore, ConstantsTyped
  <2>3. row[0].st = "creating"
    BY <2>1 DEF ContentStep
  <2>4. CASE draft'[i].c # draft[i].c \/ draft[i].st # "draft"
    <3>1. task'[r].pc = "record" /\ task'[r].id = i /\ row'[task'[r].k].id = i
      BY <1>2, <2>1, <2>4 DEF ContentStep
    <3>2. task'[r].k \in Identities
      BY DEF BookInv, DraftInv, TypeOK, Tasks
    <3>4. task'[r].k = 0
      BY <1>2, <2>1, <3>1, <3>2 DEF MayBind, Bound
    <3> QED BY <1>2, <3>1, <3>4 DEF Recording
  <2>5. CASE draft'[i].c = draft[i].c /\ draft[i].st = "draft"
    <3>1. CASE draft[i].c = task[q].c
      BY <1>2, <2>5, <3>1
    <3>2. CASE row[0].id = i /\ Recording(0, i)
      <4>1. PICK s \in Requests : task[s].pc = "record" /\ task[s].k = 0 /\ task[s].id = i
        BY <3>2 DEF Recording
      <4>2. s # r
        BY <3>2, <4>1 DEF ContentStep
      <4>3. row'[0].id = i
        BY <2>1, <3>2, ConstantsTyped DEF Stays
      <4> QED BY <1>2, <4>1, <4>2, <4>3 DEF Stays, Recording
    <3> QED BY <1>2, <2>2, <2>3, <2>5, <3>1, <3>2 DEF ContentKept
  <2> QED BY <2>4, <2>5
<1>3. q # r => task'[q] = task[q] /\ Confirming(q)
  BY DEF Stays, Confirming
<1> QED BY <1>1, <1>2, <1>3 DEF ContentStep

LEMMA ContentStepKeeps ==
  ASSUME BookInv, BookInv', ContentKept, NEW r \in Requests, Stays(r), ContentStep(r)
  PROVE  ContentKept'
<1>1. \A k \in Identities :
        row'[k].st \in {"saved", "sending"} /\ row'[k].c \in Contents /\ draft'[row'[k].id].st = "draft" =>
          draft'[row'[k].id].c = row'[k].c \/ Recording(k, row[k].id)'
  BY SavedKeepsContent
<1> QED BY <1>1, RecordKeepsContent, ConfirmKeepsContent DEF ContentKept

(* The steps that leave rows and drafts as they are.                        *)
LEMMA StillContent ==
  ASSUME BookInv, NEW r \in Requests, UNCHANGED <<row, draft>>,
         task[r].pc = "record" => row[task[r].k].id # task[r].id,
         task'[r].pc # "record",
         Confirming(r)' => Confirming(r) /\ task'[r].id = task[r].id /\ task'[r].c = task[r].c
  PROVE  ContentStep(r)
  BY DEF ContentStep

LEMMA EndContent ==
  ASSUME BookInv, NEW r \in Requests, End(r)
  PROVE  task'[r].pc = "idle" /\ ~Confirming(r)'
<1>1. task'[r] = Idle
  BY BookFacts DEF End
<1> QED BY <1>1 DEF Idle, Confirming

(* The steps that write a row.                                              *)
LEMMA RowContent ==
  ASSUME BookInv, NEW r \in Requests, UNCHANGED draft, task[r].pc # "record",
         task'[r].pc # "record", ~Confirming(r)',
         NEW k \in Identities, NEW x, row' = [row EXCEPT ![k] = x],
         x.st = "creating" /\ Created # {} => row[k].st = "creating",
         x.st \in {"saved", "sending"} /\ x.c \in Contents =>
           row[k].st \in {"saved", "sending"} /\ x.id = row[k].id /\ x.c = row[k].c
  PROVE  ContentStep(r)
<1>1. row'[k] = x /\ \A j \in Identities \ {k} : row'[j] = row[j]
  BY BookFacts
<1> QED BY <1>1, ConstantsTyped DEF ContentStep

LEMMA QuietContent ==
  ASSUME BookInv, NEW r \in Requests,
         Look(r) \/ Search(r) \/ Refused(r) \/ DeliverRefused(r) \/ Reconcile(r)
  PROVE  ContentStep(r)
<1>1. UNCHANGED <<row, draft>> /\ task[r].pc \in {"look", "search", "call", "deliver", "reconcile"}
  BY DEF Look, Search, Refused, DeliverRefused, Reconcile
<1>2. task'[r].pc # "record" /\ ~Confirming(r)'
  <2>1. CASE End(r)
    BY <2>1, EndContent
  <2>2. ASSUME NEW i, Adopt(r, i, "look") PROVE task'[r].pc # "record" /\ ~Confirming(r)'
    BY <2>2, GoesToLock DEF Confirming
  <2>3. ASSUME NEW p \in {"prepare", "reject", "restore", "mark"}, Goto(r, p)
        PROVE  task'[r].pc # "record" /\ ~Confirming(r)'
    BY <2>3, GoesTo DEF Confirming
  <2>4. ASSUME NEW i, NEW p \in {"search", "prepare"}, task' = [task EXCEPT ![r].id = i, ![r].pc = p]
        PROVE  task'[r].pc # "record" /\ ~Confirming(r)'
    <3>1. task'[r].pc = p
      BY <2>4, BookFacts DEF Tasks
    <3> QED BY <3>1 DEF Confirming
  <2>5. CASE Look(r)
    <3>1. \/ End(r)
          \/ \E i : Adopt(r, i, "look")
          \/ \E i, p : p \in {"search", "prepare"} /\ task' = [task EXCEPT ![r].id = i, ![r].pc = p]
      BY <2>5 DEF Look
    <3> QED BY <2>1, <2>2, <2>4, <3>1
  <2>6. CASE Search(r) \/ Refused(r) \/ DeliverRefused(r) \/ Reconcile(r)
    <3>1. \/ End(r) \/ (\E i : Adopt(r, i, "look"))
          \/ Goto(r, "prepare") \/ Goto(r, "reject") \/ Goto(r, "restore") \/ Goto(r, "mark")
      BY <2>6 DEF Search, Refused, DeliverRefused, Reconcile
    <3> QED BY <2>1, <2>2, <2>3, <3>1
  <2> QED BY <2>5, <2>6
<1> QED BY <1>1, <1>2, StillContent

LEMMA SaveContent ==
  ASSUME BookInv, NEW r \in Requests, Prepare(r) \/ Reject(r)
  PROVE  ContentStep(r)
<1> DEFINE t == task[r]
<1>1. /\ UNCHANGED draft /\ t.pc \in {"prepare", "reject"} /\ t.pc # "record" /\ t.k \in Identities
      /\ row \in [Identities -> Rows]
  BY BookFacts DEF Prepare, Reject
<1>2. task'[r].pc # "record" /\ ~Confirming(r)'
  <2>1. End(r) \/ Goto(r, "call")
    BY DEF Prepare, Reject
  <2> QED BY <2>1, EndContent, GoesTo DEF Confirming
<1>3. CASE UNCHANGED row
  BY <1>1, <1>2, <1>3, StillContent
<1>4. CASE Prepare(r) /\ row[t.k].st \in {"none", "creating", "failed"} /\ Upsert(t.k, t.id, t.c, "creating")
  <2> DEFINE x == [st |-> "creating", id |-> IF t.id = 0 THEN row[t.k].id ELSE t.id, c |-> t.c]
  <2>1. row' = [row EXCEPT ![t.k] = x] /\ x.st = "creating"
    BY <1>4 DEF Upsert
  <2>2. Created # {} => row[t.k].st = "creating"
    <3>1. t.op = "save" /\ (t.k # 0 => row[t.k].id # 0)
      BY <1>4, BookFacts DEF Prepare, Placed
    <3>2. row[t.k].st \in {"none", "failed"} => row[t.k].id = 0
      BY <1>1 DEF BookInv, RowsBound
    <3> QED BY <1>4, <3>1, <3>2 DEF BookInv, CreatedOnce
  <2> HIDE DEF x
  <2> QED BY <1>1, <1>2, <2>1, <2>2, RowContent
<1>5. CASE SetState(t.k, "failed")
  <2>1. [row[t.k] EXCEPT !.st = "failed"].st = "failed" /\ row' = [row EXCEPT ![t.k] = [row[t.k] EXCEPT !.st = "failed"]]
    BY <1>1, <1>5, StateSet DEF RowStates
  <2> QED BY <1>1, <1>2, <2>1, RowContent
<1> QED BY <1>3, <1>4, <1>5 DEF Prepare, Reject

LEMMA CreateContent ==
  ASSUME BookInv, NEW r \in Requests, Create(r)
  PROVE  ContentStep(r)
<1> DEFINE t == task[r]
<1>1. PICK i \in Ids :
        /\ draft[i].st = "absent" /\ draft' = [draft EXCEPT ![i] = Stored(t.k, t.c, "app")]
        /\ Adopt(r, i, "confirm") \/ End(r)
  BY DEF Create, NewId
<1>2. UNCHANGED row /\ t.pc = "call"
  BY DEF Create
<1>3. draft'[i].c = t.c /\ \A j \in Ids \ {i} : draft'[j] = draft[j]
  BY <1>1, BookFacts DEF Stored
<1>4. \A k \in Identities : row[k].id # i
  BY <1>1 DEF BookInv, RowsBound, Ids
<1>5. task'[r].pc # "record"
  BY <1>1, EndContent, GoesToLock
<1>6. Confirming(r)' => draft'[task'[r].id].c = task'[r].c
  BY <1>1, <1>3, EndContent, GoesToLock
<1> QED BY <1>1, <1>2, <1>3, <1>4, <1>5, <1>6 DEF ContentStep

(* No update is lost: the one that reaches Gmail is about to be recorded.   *)
LEMMA UpdateContent ==
  ASSUME BookInv, LostUpdates = FALSE, NEW r \in Requests, Update(r)
  PROVE  ContentStep(r)
<1> DEFINE t == task[r]
<1>1. UNCHANGED row /\ t.pc = "call" /\ t.id \in Ids /\ row[t.k].id = t.id
  BY BookFacts DEF Update, Placed
<1>2. CASE End(r) /\ UNCHANGED draft
  BY <1>1, <1>2, EndContent, StillContent
<1>3. CASE draft[t.id].st = "draft" /\ Goto(r, "record")
           /\ draft' = [draft EXCEPT ![t.id] = Stored(t.k, t.c, draft[t.id].by)]
  <2>1. draft'[t.id].c = t.c /\ draft'[t.id].st = "draft" /\ \A j \in Ids \ {t.id} : draft'[j] = draft[j]
    BY <1>1, <1>3, BookFacts DEF Stored
  <2>2. task'[r].pc = "record" /\ task'[r].id = t.id /\ task'[r].k = t.k /\ task'[r].c = t.c /\ ~Confirming(r)'
    BY <1>3, GoesTo DEF Confirming
  <2> QED BY <1>1, <2>1, <2>2 DEF ContentStep
<1> QED BY <1>2, <1>3 DEF Update

LEMMA ConfirmContent ==
  ASSUME BookInv, ContentKept, NEW r \in Requests, Confirm(r)
  PROVE  ContentStep(r)
<1> DEFINE t == task[r]
<1>1. /\ UNCHANGED draft /\ t.pc = "confirm" /\ t.pc \in Inside /\ t.k = 0 /\ t.id = t.key /\ t.id \in Created
      /\ t.id # 0 /\ Holds(r, "gmail", t.id) /\ t.k \in Identities
  BY BookFacts DEF Confirm, Placed, Confirming, Inside, Created, Ids
<1>2. CASE End(r) /\ UNCHANGED row
  BY <1>1, <1>2, EndContent, StillContent
<1>3. CASE Upsert(t.k, t.id, t.c, "deleted") /\ End(r)
  <2>1. row' = [row EXCEPT ![t.k] = [st |-> "deleted", id |-> t.id, c |-> t.c]]
    BY <1>1, <1>3 DEF Upsert
  <2> QED BY <1>1, <1>3, <2>1, EndContent, RowContent
<1>4. CASE Mutable(t.k, t.id) /\ draft[t.id].st = "draft" /\ ~Overtaken(t.k, t.c) /\ Goto(r, "record") /\ UNCHANGED row
  <2>1. task'[r].pc = "record" /\ task'[r].id = t.id /\ task'[r].k = 0 /\ task'[r].c = t.c /\ ~Confirming(r)'
    BY <1>1, <1>4, GoesTo DEF Confirming
  <2>2. ASSUME MayBind(0, t.id) PROVE draft[t.id].c = t.c
    <3>1. row[0].st \in {"creating", "none", "failed"}
      BY <1>1, <1>4, BookFacts DEF Mutable, Overtaken, Final, Rows, RowStates
    <3>2. row[0].st = "creating"
      BY <1>1, <3>1, ConstantsTyped DEF BookInv, CreatedOnce, RowsBound
    <3>3. ~Recording(0, t.id)
      <4> SUFFICES ASSUME NEW q \in Requests, task[q].pc = "record", task[q].id = t.id
                   PROVE  FALSE
        BY DEF Recording
      <4>1. task[q].pc \in Inside /\ task[q].id = task[q].key
        BY BookFacts DEF Placed, Inside, Places
      <4>2. Holds(q, "gmail", t.id)
        BY <1>1, <4>1, BookFacts
      <4> QED BY <1>1, <4>2 DEF Holds
    <3> QED BY <1>1, <1>4, <2>2, <3>2, <3>3 DEF ContentKept, Confirming
  <2>3. MayBind(task[r].k, task[r].id)' => MayBind(0, t.id)
    BY <1>4, <2>1 DEF MayBind, Bound
  <2> QED BY <1>1, <1>4, <2>1, <2>2, <2>3 DEF ContentStep
<1>5. \/ End(r) /\ UNCHANGED row
      \/ Upsert(t.k, t.id, t.c, "deleted") /\ End(r)
      \/ Mutable(t.k, t.id) /\ draft[t.id].st = "draft" /\ ~Overtaken(t.k, t.c) /\ Goto(r, "record") /\ UNCHANGED row
  BY DEF Confirm
<1> QED BY <1>2, <1>3, <1>4, <1>5

LEMMA RecordContent ==
  ASSUME BookInv, ContentKept, NEW r \in Requests, Record(r)
  PROVE  ContentStep(r)
<1> DEFINE t == task[r]
           x == [st |-> "saved", id |-> t.id, c |-> t.c]
<1>1. /\ UNCHANGED draft /\ t.pc = "record" /\ End(r) /\ t.id # 0 /\ t.k \in Identities
      /\ row \in [Identities -> Rows] /\ t.id \in Ids
  BY BookFacts DEF Record, Placed
<1>2. task'[r].pc = "idle" /\ ~Confirming(r)'
  BY <1>1, EndContent
<1>3. CASE MayBind(t.k, t.id) /\ Upsert(t.k, t.id, t.c, "saved")
  <2>1. row' = [row EXCEPT ![t.k] = x]
    BY <1>1, <1>3 DEF Upsert
  <2>2. row'[t.k] = x /\ \A j \in Identities \ {t.k} : row'[j] = row[j]
    BY <1>1, <2>1
  <2>3. draft[t.id].c = t.c
    BY <1>1, <1>3 DEF ContentKept
  <2> QED BY <1>1, <1>2, <2>2, <2>3, ConstantsTyped DEF ContentStep
<1>4. CASE ~MayBind(t.k, t.id) /\ UNCHANGED row
  <2>1. row[t.k].id # t.id
    BY <1>1, <1>4 DEF MayBind, Bound, BookInv, RowsBound
  <2> QED BY <1>1, <1>2, <1>4, <2>1, StillContent
<1> QED BY <1>3, <1>4 DEF Record

(* A read writes Seen, or the hash that was there.                          *)
LEMMA OpenContent ==
  ASSUME BookInv, NEW r \in Requests, Open(r)
  PROVE  ContentStep(r)
<1> DEFINE t == task[r]
           i == t.id
           k == IF Mapped(i) THEN Owner(i) ELSE t.k
           x == [st |-> "saved", id |-> i, c |-> KnownHash(k)]
<1>1. /\ UNCHANGED draft /\ t.pc = "open" /\ End(r) /\ i # 0 /\ i \in Identities /\ k \in Identities
  BY BookFacts, OwnerKnown DEF Open, Placed
<1>2. task'[r].pc = "idle" /\ ~Confirming(r)'
  BY <1>1, EndContent
<1>3. CASE UNCHANGED row
  BY <1>1, <1>2, <1>3, StillContent
<1>4. CASE Upsert(k, i, KnownHash(k), "saved")
  <2>1. row' = [row EXCEPT ![k] = x]
    BY <1>1, <1>4 DEF Upsert
  <2>2. ASSUME x.c \in Contents
        PROVE  row[k].st = "saved" /\ x.id = row[k].id /\ x.c = row[k].c
    <3>1. row[k].st = "saved" /\ x.c = row[k].c
      BY <2>2, DraftAssumption DEF KnownHash
    <3>2. row[k].id # 0 /\ (k # 0 => row[k].id = k)
      BY <1>1, <3>1 DEF BookInv, RowsBound
    <3>3. CASE Mapped(i)
      BY <1>1, <3>1, <3>3, OwnerKnown
    <3>4. CASE ~Mapped(i)
      <4>1. row[t.k].id = i \/ t.k = i
        BY <1>1, BookFacts DEF Placed
      <4>2. row[k].id = i
        BY <1>1, <3>2, <3>4, <4>1
      <4> QED BY <3>1, <4>2
    <3> QED BY <3>3, <3>4
  <2>3. x.st = "saved"
    OBVIOUS
  <2> HIDE DEF k, x
  <2> QED BY <1>1, <1>2, <2>1, <2>2, <2>3, RowContent
<1> QED BY <1>3, <1>4 DEF Open

LEMMA DeleteContent ==
  ASSUME BookInv, NEW r \in Requests, Remove(r) \/ Drop(r)
  PROVE  ContentStep(r)
<1> DEFINE t == task[r]
           k == Owner(t.id)
<1>1. t.id \in Ids /\ t.id \in Identities /\ t.pc \in {"remove", "drop"} /\ draft \in [Ids -> Drafts]
  BY BookFacts DEF Remove, Drop, Placed
<1>2. task'[r].pc # "record" /\ ~Confirming(r)'
  <2>1. End(r) \/ Goto(r, "drop")
    BY DEF Remove, Drop
  <2> QED BY <2>1, EndContent, GoesTo DEF Confirming
<1>3. CASE UNCHANGED <<row, draft>>
  BY <1>1, <1>2, <1>3, StillContent
<1>4. CASE UNCHANGED row /\ draft' = [draft EXCEPT ![t.id].st = IF @ = "draft" THEN "deleted" ELSE @]
  <2>1. \A j \in Ids : draft'[j].c = draft[j].c /\ (draft'[j].st = "draft" => draft[j].st = "draft")
    BY <1>1, <1>4 DEF Drafts
  <2> QED BY <1>1, <1>2, <1>4, <2>1 DEF ContentStep
<1>5. CASE Mapped(t.id) /\ SetState(k, "deleted") /\ UNCHANGED draft
  <2>1. k \in Identities
    BY <1>1, <1>5, OwnerKnown
  <2> DEFINE x == [row[k] EXCEPT !.st = "deleted"]
  <2>2. row' = [row EXCEPT ![k] = x] /\ x.st = "deleted"
    BY <1>5, <2>1, StateSet DEF RowStates
  <2> HIDE DEF k, x
  <2> QED BY <1>1, <1>2, <1>5, <2>1, <2>2, RowContent
<1> QED BY <1>3, <1>4, <1>5 DEF Remove, Drop

LEMMA SendContent ==
  ASSUME BookInv, NEW r \in Requests, Claim(r) \/ Deliver(r) \/ Restore(r) \/ Mark(r)
  PROVE  ContentStep(r)
<1> DEFINE t == task[r]
<1>1. /\ t.id \in Ids /\ t.k \in Identities /\ t.pc \in {"claim", "deliver", "restore", "mark"}
      /\ draft \in [Ids -> Drafts]
  BY BookFacts DEF Claim, Deliver, Restore, Mark, Placed
<1>2. task'[r].pc # "record" /\ ~Confirming(r)'
  <2>1. End(r) \/ Goto(r, "deliver") \/ Goto(r, "reconcile") \/ Goto(r, "mark")
    BY DEF Claim, Deliver, Restore, Mark
  <2> QED BY <2>1, EndContent, GoesTo DEF Confirming
<1>3. CASE UNCHANGED <<row, draft>>
  BY <1>1, <1>2, <1>3, StillContent
<1>4. CASE UNCHANGED row /\ draft' = [draft EXCEPT ![t.id].st = "sent", ![t.id].indexed = FALSE]
  <2>1. \A j \in Ids : draft'[j].c = draft[j].c /\ (draft'[j].st = "draft" => draft[j].st = "draft")
    BY <1>1, <1>4 DEF Drafts
  <2> QED BY <1>1, <1>2, <1>4, <2>1 DEF ContentStep
<1>5. ASSUME NEW s \in {"saved", "sending", "sent"}, SetState(t.k, s), UNCHANGED draft,
             row[t.k].st \in {"saved", "sending"} \/ s = "sent"
      PROVE  ContentStep(r)
  <2> DEFINE x == [row[t.k] EXCEPT !.st = s]
  <2>1. s \in RowStates
    BY DEF RowStates
  <2>2. row' = [row EXCEPT ![t.k] = x] /\ x.st = s /\ x.id = row[t.k].id /\ x.c = row[t.k].c
    BY <1>1, <1>5, <2>1, StateSet
  <2> HIDE DEF x
  <2> QED BY <1>1, <1>2, <1>5, <2>2, RowContent
<1>6. CASE Claim(r)
  BY <1>3, <1>5, <1>6 DEF Claim
<1>7. CASE Deliver(r)
  BY <1>3, <1>4, <1>7 DEF Deliver
<1>8. CASE Restore(r) \/ Mark(r)
  BY <1>3, <1>5, <1>8 DEF Restore, Mark
<1> QED BY <1>6, <1>7, <1>8

LEMMA OutsideKeepsContent ==
  ASSUME BookInv, ContentKept, (\E i \in Ids : Index(i)) \/ (\E c \in Contents : Compose(c))
  PROVE  ContentKept'
<1>1. UNCHANGED <<row, task>>
  BY DEF Index, Compose
<1>2. \A j \in Ids : draft[j].st # "absent" => draft'[j].st = draft[j].st /\ draft'[j].c = draft[j].c
  <2>1. draft \in [Ids -> Drafts]
    BY DEF BookInv, DraftInv, TypeOK
  <2>2. ASSUME NEW i \in Ids, Index(i)
        PROVE  \A j \in Ids : draft'[j].st = draft[j].st /\ draft'[j].c = draft[j].c
    BY <2>1, <2>2 DEF Index, Drafts
  <2>3. ASSUME NEW c \in Contents, Compose(c)
        PROVE  \A j \in Ids : draft[j].st # "absent" => draft'[j] = draft[j]
    BY <2>1, <2>3 DEF Compose, NewId
  <2> QED BY <2>2, <2>3
<1>3. \A k \in Identities : row[k].st \in {"saved", "sending"} => row[k].id \in Ids /\ draft[row[k].id].st # "absent"
  BY DEF BookInv, DraftInv, TypeOK, Rows, RowsBound, Ids, Identities
<1>4. \A r \in Requests : task[r].pc = "record" \/ Confirming(r) =>
        task[r].id \in Ids /\ draft[task[r].id].st # "absent"
  BY BookFacts DEF Placed, Created, Ids
<1>5. \A k \in Identities :
        row[k].st \in {"saved", "sending"} /\ row[k].c \in Contents /\ draft'[row[k].id].st = "draft" =>
          draft'[row[k].id].c = row[k].c \/ Recording(k, row[k].id)
  BY <1>2, <1>3 DEF ContentKept
<1>6. \A r \in Requests :
        task[r].pc = "record" /\ MayBind(task[r].k, task[r].id) => draft'[task[r].id].c = task[r].c
  BY <1>2, <1>4 DEF ContentKept
<1>7. \A r \in Requests :
        Confirming(r) /\ row[0].st = "creating" /\ MayBind(0, task[r].id) /\ draft'[task[r].id].st = "draft" =>
          draft'[task[r].id].c = task[r].c \/ (row[0].id = task[r].id /\ Recording(0, task[r].id))
  BY <1>2, <1>4 DEF ContentKept
<1>8. \A r \in Requests : Confirming(r)' = Confirming(r)
  BY <1>1 DEF Confirming
<1> QED BY <1>1, <1>5, <1>6, <1>7, <1>8 DEF ContentKept, MayBind, Bound, Recording

LEMMA StepKeepsContent ==
  ASSUME LostUpdates = FALSE
  PROVE  BookInv /\ ContentKept /\ [Next]_vars => ContentKept'
<1> SUFFICES ASSUME BookInv, ContentKept, [Next]_vars PROVE ContentKept'
  OBVIOUS
<1>0. BookInv'
  BY StepKeepsBook
<1>1. CASE UNCHANGED vars
  BY <1>1 DEF vars, ContentKept, Recording, Confirming, MayBind, Bound
<1>2. ASSUME NEW r \in Requests, Step(r) PROVE ContentKept'
  <2>1. ASSUME ContentStep(r), Settles(r) PROVE ContentKept'
    BY <1>0, <2>1, ContentStepKeeps DEF Settles
  <2>2. ASSUME UNCHANGED <<row, draft>>, \A q \in Requests \ {r} : task'[q] = task[q],
               task[r].pc = "record" => row[task[r].k].id # task[r].id,
               task'[r].pc # "record",
               Confirming(r)' => Confirming(r) /\ task'[r].id = task[r].id /\ task'[r].c = task[r].c
        PROVE  ContentKept'
    <3>1. Stays(r)
      BY <2>2 DEF Stays
    <3> QED BY <1>0, <2>2, <3>1, StillContent, ContentStepKeeps
  <2>3. CASE BeginSave(r) \/ BeginSend(r) \/ BeginDelete(r) \/ BeginGet(r)
    <3>1. PICK t : Begin(r, t) /\ t.pc \in {"gmail", "client"} /\ t.then # "confirm"
      <4>1. CASE BeginSave(r)
        <5>1. PICK k, c, i, key :
                Begin(r, [op |-> "save", k |-> k, c |-> c, id |-> i, key |-> key,
                          pc |-> Wanted(key), then |-> "look"])
          BY <4>1 DEF BeginSave
        <5>2. Wanted(key) \in {"gmail", "client"}
          BY DEF Wanted
        <5> QED BY <5>1, <5>2
      <4>2. CASE BeginSend(r)
        BY <4>2 DEF BeginSend
      <4>3. CASE BeginDelete(r)
        BY <4>3 DEF BeginDelete
      <4>4. CASE BeginGet(r)
        BY <4>4 DEF BeginGet
      <4> QED BY <2>3, <4>1, <4>2, <4>3, <4>4
    <3>2. task'[r] = t /\ \A q \in Requests \ {r} : task'[q] = task[q]
      BY <3>1, BookFacts DEF Begin
    <3>3. ~Confirming(r)'
      BY <3>1, <3>2 DEF Confirming
    <3> QED BY <2>2, <3>1, <3>2, <3>3 DEF Begin
  <2>4. CASE Acquire(r)
    <3> DEFINE p == IF task[r].pc = "gmail" THEN "client" ELSE task[r].then
    <3>1. /\ task[r].pc \in {"gmail", "client"} /\ Goto(r, p) /\ UNCHANGED <<row, draft>>
          /\ task[r].then # "record"
      BY <2>4, BookFacts DEF Acquire, Tasks
    <3>2. /\ task'[r].pc = p /\ task'[r].id = task[r].id /\ task'[r].c = task[r].c /\ task'[r].then = task[r].then
          /\ \A q \in Requests \ {r} : task'[q] = task[q]
      BY <3>1, GoesTo, BookFacts DEF Goto
    <3>3. Confirming(r)' => Confirming(r)
      BY <3>1, <3>2 DEF Confirming
    <3> QED BY <2>2, <3>1, <3>2, <3>3
  <2>5. CASE Look(r) \/ Search(r) \/ Refused(r) \/ DeliverRefused(r) \/ Reconcile(r)
    BY <2>1, <2>5, QuietContent, LookSettles, SearchSettles, RefusalSettles, DeliverSettles
  <2>6. CASE Prepare(r) \/ Reject(r)
    BY <2>1, <2>6, SaveContent, PrepareSettles, RefusalSettles
  <2>7. CASE Create(r)
    BY <2>1, <2>7, CreateContent, CreateSettles
  <2>8. CASE Update(r)
    BY <2>1, <2>8, UpdateContent, UpdateSettles
  <2>9. CASE Confirm(r) \/ Record(r)
    BY <2>1, <2>9, ConfirmContent, RecordContent, ConfirmSettles, RecordSettles
  <2>10. CASE Open(r) \/ Remove(r) \/ Drop(r)
    BY <2>1, <2>10, OpenContent, DeleteContent, OpenSettles, RemoveSettles, DropSettles
  <2>11. CASE Claim(r) \/ Deliver(r) \/ Restore(r) \/ Mark(r)
    BY <2>1, <2>11, SendContent, ClaimSettles, DeliverSettles, SendEndSettles
  <2>12. CASE Fail(r)
    <3>1. task[r].pc = "record" => row[task[r].k].id = 0 /\ task[r].id # 0
      BY <2>12, BookFacts DEF Fail, Placed
    <3>2. /\ task'[r].pc = "idle" /\ ~Confirming(r)' /\ UNCHANGED <<row, draft>>
          /\ \A q \in Requests \ {r} : task'[q] = task[q]
      BY <2>12, EndContent, BookFacts DEF Fail, End
    <3> QED BY <2>2, <3>1, <3>2
  <2> QED
    BY <1>2, <2>3, <2>4, <2>5, <2>6, <2>7, <2>8, <2>9, <2>10, <2>11, <2>12 DEF Step
<1> QED
  BY <1>1, <1>2, OutsideKeepsContent DEF Next

LEMMA InitContent == Init => ContentKept
<1> SUFFICES ASSUME Init PROVE ContentKept
  OBVIOUS
<1>1. (\A k \in Identities : row[k].st = "none") /\ (\A r \in Requests : task[r] = Idle)
  BY DEF Init
<1> QED BY <1>1 DEF ContentKept, Confirming, Idle

-----------------------------------------------------------------------------
(* Theorems about the rows and the drafts.                                  *)

(* However often a save is repeated whose create was never answered, and    *)
(* whatever else goes on, the app makes one Gmail draft of it at most       *)
(* (save_draft: a miss allows a create only when none is unconfirmed).      *)
THEOREM OneDraftOnly == Spec => []OneDraft
<1>1. ASSUME BookInv PROVE OneDraft
  <2>1. \A i, j \in Created : i = j
    BY <1>1 DEF BookInv, CreatedOnce
  <2>2. CASE Created = {}
    BY <2>2, FS_EmptySet DEF OneDraft, Created
  <2>3. CASE Created # {}
    <3>1. PICK i : i \in Created
      BY <2>3
    <3>2. Created = {i}
      BY <2>1, <3>1
    <3>3. Cardinality(Created) = 1
      BY <3>2, FS_Singleton
    <3> QED BY <3>3 DEF OneDraft, Created
  <2> QED BY <2>2, <2>3
<1> QED
  BY <1>1, InitBookInv, StepKeepsBook, PTL DEF Spec

(* What a row says of its draft is so at Gmail, when no update loses its    *)
(* answer or its record: a draft 'saved' with a hash holds that content or  *)
(* is about to hold newer (save_draft answers an equal save from the row),  *)
(* one that may be edited was not sent, one recorded as deleted is gone.    *)
THEOREM RowsTellGmail ==
  ASSUME LostUpdates = FALSE
  PROVE  Spec => []RowTellsGmail
<1>1. ASSUME BookInv, ContentKept PROVE RowTellsGmail
  <2>1. SavedMeansStored
    BY <1>1 DEF ContentKept, SavedMeansStored, Recording
  <2>2. EditableIsUnsent
    BY <1>1, EditableUnsent DEF EditableIsUnsent
  <2>3. DeletedMeansGone
    BY <1>1 DEF BookInv, SentKnown
  <2> QED BY <2>1, <2>2, <2>3 DEF RowTellsGmail
<1>2. Init => BookInv /\ ContentKept
  BY InitBookInv, InitContent
<1>3. BookInv /\ ContentKept /\ [Next]_vars => BookInv' /\ ContentKept'
  BY StepKeepsBook, StepKeepsContent
<1> QED
  BY <1>1, <1>2, <1>3, PTL DEF Spec

(* The last two parts need no such hypothesis.                              *)
THEOREM SentAndDeletedAreFinalAtGmail == Spec => [](EditableIsUnsent /\ DeletedMeansGone)
<1>1. ASSUME BookInv PROVE EditableIsUnsent /\ DeletedMeansGone
  <2>1. EditableIsUnsent
    BY <1>1, EditableUnsent DEF EditableIsUnsent
  <2> QED BY <1>1, <2>1 DEF BookInv, SentKnown
<1> QED
  BY <1>1, InitBookInv, StepKeepsBook, PTL DEF Spec

(* 'sent' and 'deleted' are final, mark_client_draft_sent and               *)
(* upsert_client_draft being unconditional notwithstanding: whoever writes  *)
(* a row has seen under the locks that it is not.                           *)
LEMMA FinalRowsStay ==
  ASSUME BookInv, NEW r \in Requests, Step(r), NEW k \in Identities, row[k].st \in Final
  PROVE  row'[k].st = row[k].st
<1> DEFINE t == task[r]
<1>1. CASE UNCHANGED row
  BY <1>1
<1>2. ASSUME NEW j \in Identities, NEW x, row' = [row EXCEPT ![j] = x],
             row[j].st \notin Final \/ x.st = row[j].st
      PROVE  row'[k].st = row[k].st
  BY <1>2, BookFacts
<1>3. ASSUME NEW j \in Identities, NEW i, NEW c, NEW s, Upsert(j, i, c, s), row[j].st \notin Final
      PROVE  row'[k].st = row[k].st
  BY <1>2, <1>3 DEF Upsert
<1>4. ASSUME NEW j \in Identities, NEW s \in RowStates, SetState(j, s), row[j].st \notin Final \/ s = row[j].st
      PROVE  row'[k].st = row[k].st
  <2> DEFINE x == [row[j] EXCEPT !.st = s]
  <2>1. row' = [row EXCEPT ![j] = x] /\ x.st = s
    BY <1>4, StateSet
  <2> HIDE DEF x
  <2> QED BY <1>2, <1>4, <2>1
<1>5. t.k \in Identities
  BY BookFacts
<1>6. CASE Prepare(r) \/ Record(r)
  <2>1. row[t.k].st \notin Final
    BY <1>6, BookFacts DEF Prepare, Record, Placed, Final
  <2> QED BY <1>1, <1>3, <1>5, <1>6, <2>1 DEF Prepare, Record
<1>7. CASE Confirm(r)
  BY <1>1, <1>3, <1>5, <1>7 DEF Confirm, Mutable
<1>8. CASE Open(r)
  <2> DEFINE j == IF Mapped(t.id) THEN Owner(t.id) ELSE t.k
  <2>1. CASE Mapped(t.id)
    BY <1>1, <1>3, <1>8, <2>1, OwnerKnown, BookFacts DEF Open, Mutable
  <2>2. CASE ~Mapped(t.id)
    <3>1. t.id # 0 /\ (row[t.k].id = t.id \/ t.k = t.id)
      BY <1>8, BookFacts DEF Open, Placed
    <3>2. row[t.k].id = 0
      BY <1>5, <2>2, <3>1, BookFacts DEF Mapped, Bound, BookInv, RowsBound
    <3>3. row[t.k].st \notin Final
      BY <1>5, <3>2 DEF BookInv, RowsBound, Final
    <3> QED BY <1>1, <1>3, <1>5, <1>8, <2>2, <3>3 DEF Open
  <2> QED BY <2>1, <2>2
<1>9. CASE Drop(r)
  <2>1. UNCHANGED row \/ (Mapped(t.id) /\ row[Owner(t.id)].st # "sent" /\ SetState(Owner(t.id), "deleted"))
    BY <1>9 DEF Drop
  <2> QED BY <1>1, <1>4, <2>1, OwnerKnown, BookFacts DEF Final, RowStates
<1>10. CASE Reject(r) \/ Claim(r) \/ Restore(r) \/ Mark(r)
  <2>1. \/ UNCHANGED row
        \/ /\ row[t.k].st \notin Final
           /\ \E s \in RowStates : SetState(t.k, s)
    BY <1>10, BookFacts DEF Reject, Claim, Restore, Mark, Placed, Final, RowStates
  <2> QED BY <1>1, <1>4, <1>5, <2>1
<1>11. CASE UNCHANGED row \/ Prepare(r) \/ Record(r) \/ Confirm(r) \/ Open(r) \/ Drop(r)
            \/ Reject(r) \/ Claim(r) \/ Restore(r) \/ Mark(r)
  BY <1>1, <1>6, <1>7, <1>8, <1>9, <1>10, <1>11
<1>12. \/ UNCHANGED row \/ Prepare(r) \/ Record(r) \/ Confirm(r) \/ Open(r) \/ Drop(r)
       \/ Reject(r) \/ Claim(r) \/ Restore(r) \/ Mark(r)
  BY DEF Step, BeginSave, BeginSend, BeginDelete, BeginGet, Begin, Acquire, Look, Search, Create, Update,
         Refused, Remove, Deliver, DeliverRefused, Reconcile, Fail
<1> QED BY <1>11, <1>12

THEOREM FinalRowsAreFinal == Spec => FinalIsFinal
<1>1. BookInv /\ [Next]_vars => [\A k \in Identities : row[k].st \in Final => row'[k].st = row[k].st]_vars
  <2> SUFFICES ASSUME BookInv, [Next]_vars, NEW k \in Identities, row[k].st \in Final
               PROVE  row'[k].st = row[k].st
    OBVIOUS
  <2>1. CASE UNCHANGED row
    BY <2>1
  <2>2. ASSUME NEW r \in Requests, Step(r) PROVE row'[k].st = row[k].st
    BY <2>2, FinalRowsStay
  <2>3. (\E r \in Requests : Step(r)) \/ UNCHANGED row
    BY DEF Next, Index, Compose, vars
  <2> QED BY <2>1, <2>2, <2>3
<1> QED
  BY <1>1, InitBookInv, StepKeepsBook, PTL DEF Spec, FinalIsFinal

-----------------------------------------------------------------------------
(* Linking and setting up accounts.                                          *)

(* What the constants are.                                                  *)
Proper ==
    /\ IsFiniteSet(Subjects) /\ MaxAccounts \in Nat
    /\ NoUser \notin Users \cup Requests /\ NoSubject \notin Subjects

-----------------------------------------------------------------------------
(* The limit.                                                               *)

(* A callback under way has a user and a subject, and the subject to itself. *)
Active(c) == link[c].pc \in {"look", "lock", "count", "store"}
OnePerSubject ==
    /\ \A c \in Requests : Active(c) => link[c].g \in Subjects /\ link[c].u \in Users
    /\ \A c, d \in Requests : Active(c) /\ Active(d) /\ link[c].g = link[d].g => c = d

(* Past the lookup an account that has an owner is that user's.              *)
PastOwnerKnown ==
    \A c \in Requests : link[c].pc \in {"lock", "count", "store"} =>
        owner[link[c].g] \in {NoUser, link[c].u}

(* The row of the user is held from the count to the store.                  *)
Holding(c) == link[c].pc \in {"count", "store"}
UserHeld == \A c \in Requests : Holding(c) => userLock[link[c].u] = c

(* So the count is still true when the new account is stored.                *)
CountStands ==
    \A c \in Requests : link[c].pc = "store" /\ owner[link[c].g] = NoUser =>
        Cardinality(L!Owned(link[c].u)) < MaxAccounts

Limit == OnePerSubject /\ PastOwnerKnown /\ UserHeld /\ CountStands /\ L!AccountLimit

-----------------------------------------------------------------------------
(* The import.                                                              *)

(* A job is run by one worker.                                              *)
OneWorker ==
    /\ \A w \in Workers : worker[w].pc = "idle" => worker[w] = L!NoWork
    /\ \A w \in Workers : worker[w].pc # "idle" => worker[w].g \in Subjects /\ job[worker[w].g] = "running"
    /\ \A v, w \in Workers :
         worker[v].pc # "idle" /\ worker[w].pc # "idle" /\ worker[v].g = worker[w].g => v = w

Asked(g) == \E s \in Setups : setup[s].pc = "enqueue" /\ setup[s].g = g
SetupKnown == \A s \in Setups : setup[s].pc \notin {"idle", "done"} => setup[s].g \in Subjects

(* Where the job will publish no more, an account still importing is asked   *)
(* for again.                                                               *)
PastPublishing ==
    \A w \in Workers :
        LET g == worker[w].g IN
        /\ \/ worker[w].pc = "complete" /\ g \in imported
           \/ worker[w].pc = "cancel"
        /\ g \notin excused /\ state[g] = "importing"
        => Asked(g)

Progress == OneWorker /\ SetupKnown /\ PastPublishing /\ L!ImportGoesOn

IInv == L!TypeOK /\ Limit /\ Progress
-----------------------------------------------------------------------------
(* The instance counts as the theorems on finite sets do.                   *)
LEMMA SameCardinality == \A S : L!Cardinality(S) = Cardinality(S)
  BY DEF L!Cardinality, Cardinality

LEMMA InitIInv == Proper /\ L!Init => IInv
<1> SUFFICES ASSUME Proper, L!Init PROVE IInv
  OBVIOUS
<1>1. L!TypeOK
  BY DEF L!Init, L!TypeOK, L!NoLink, L!NoSetup, L!NoWork, L!States
<1>2. Limit
  <2>1. \A u \in Users : L!Owned(u) = {}
    BY DEF L!Init, L!Owned, Proper
  <2>2. L!AccountLimit
    BY <2>1, FS_EmptySet, SameCardinality DEF L!AccountLimit, Proper
  <2> QED
    BY <2>2, SameCardinality DEF L!Init, Limit, OnePerSubject, PastOwnerKnown, UserHeld, CountStands, Active, Holding, L!NoLink
<1>3. Progress
  BY DEF L!Init, Progress, OneWorker, SetupKnown, PastPublishing, L!ImportGoesOn, L!NoSetup, L!NoWork
<1> QED BY <1>1, <1>2, <1>3 DEF IInv

(* What a step of a callback, of a request or of a worker leaves.            *)
LinkPCs == {"idle", "look", "lock", "count", "store", "done"}
LinkType == [pc : LinkPCs, g : Subjects \cup {NoSubject}, u : Users \cup {NoUser}, count : Nat]
LEMMA LinkMoved ==
  ASSUME link \in [Requests -> LinkType], NEW c \in Requests, NEW to \in LinkPCs
  PROVE  [link EXCEPT ![c].pc = to] \in [Requests -> LinkType]
<1>1. [link[c] EXCEPT !.pc = to] \in LinkType
  BY DEF LinkType
<1> QED BY <1>1

SetupPCs == {"idle", "verify", "mark", "enqueue", "done"}
SetupType == [pc : SetupPCs, g : Subjects \cup {NoSubject}]
LEMMA SetupMoved ==
  ASSUME setup \in [Setups -> SetupType], NEW s \in Setups, NEW to \in SetupPCs
  PROVE  [setup EXCEPT ![s].pc = to] \in [Setups -> SetupType]
<1>1. [setup[s] EXCEPT !.pc = to] \in SetupType
  BY DEF SetupType
<1> QED BY <1>1

WorkerPCs == {"idle", "run", "publish", "complete", "reauth", "cancel"}
WorkerType == [pc : WorkerPCs, g : Subjects \cup {NoSubject}]
LEMMA WorkerMoved ==
  ASSUME worker \in [Workers -> WorkerType], NEW w \in Workers, NEW to \in WorkerPCs
  PROVE  [worker EXCEPT ![w].pc = to] \in [Workers -> WorkerType]
<1>1. [worker[w] EXCEPT !.pc = to] \in WorkerType
  BY DEF WorkerType
<1> QED BY <1>1

(* The types, action by action.                                             *)
LEMMA TypePreserved ==
  ASSUME L!TypeOK, Limit, Progress, [L!Next]_(L!vars)
  PROVE  L!TypeOK'
<1> USE DEF L!Fault, L!accounts
<1>a. link \in [Requests -> LinkType] /\ setup \in [Setups -> SetupType] /\ worker \in [Workers -> WorkerType]
  BY DEF L!TypeOK, LinkType, LinkPCs, SetupType, SetupPCs, WorkerType, WorkerPCs
<1>b. userLock \in [Users -> Requests \cup {NoUser}] /\ mishaps \in Nat
  BY DEF L!TypeOK
<1>p. /\ {"lock", "count", "store", "done"} \subseteq LinkPCs
      /\ {"enqueue", "done"} \subseteq SetupPCs
      /\ {"publish", "reauth"} \subseteq WorkerPCs
  BY DEF LinkPCs, SetupPCs, WorkerPCs
<1>1. ASSUME NEW c \in Requests, NEW u \in Users, NEW g \in Subjects, L!BeginLink(c, u, g) PROVE L!TypeOK'
  BY <1>1 DEF L!BeginLink, L!TypeOK
<1>2. ASSUME NEW s \in Setups, NEW g \in Subjects, L!BeginSetup(s, g) PROVE L!TypeOK'
  BY <1>2 DEF L!BeginSetup, L!TypeOK
<1>3. ASSUME NEW w \in Workers, NEW g \in Subjects, L!Claim(w, g) PROVE L!TypeOK'
  BY <1>3 DEF L!Claim, L!TypeOK
<1>4. ASSUME NEW c \in Requests, L!LookForOwner(c) PROVE L!TypeOK'
  <2>1. link[c].g \in Subjects
    BY <1>4 DEF L!LookForOwner, Limit, OnePerSubject, Active
  <2>2. PICK u \in Users \cup {NoUser} : link' = [link EXCEPT ![c].pc = "lock", ![c].u = u]
    BY <1>4, <2>1 DEF L!LookForOwner, L!TypeOK
  <2>3. [link[c] EXCEPT !.pc = "lock", !.u = u] \in LinkType
    BY <1>a, <1>p DEF LinkType
  <2>4. link' \in [Requests -> LinkType]
    BY <1>a, <2>2, <2>3
  <2> QED BY <1>4, <2>4 DEF L!LookForOwner, L!TypeOK, LinkType, LinkPCs
<1>5. ASSUME NEW c \in Requests, L!LockUser(c) PROVE L!TypeOK'
  BY <1>5 DEF L!LockUser, L!Free, L!TypeOK, Limit, OnePerSubject, Active
<1>6. ASSUME NEW c \in Requests, L!CountAccounts(c) PROVE L!TypeOK'
  <2>1. link' = [link EXCEPT ![c].pc = "done"] \/ link' = [link EXCEPT ![c].pc = "store"]
    BY <1>6, SameCardinality DEF L!CountAccounts
  <2>2. link' \in [Requests -> LinkType]
    <3>1. [link EXCEPT ![c].pc = "done"] \in [Requests -> LinkType]
      BY <1>a, <1>p, LinkMoved
    <3>2. [link EXCEPT ![c].pc = "store"] \in [Requests -> LinkType]
      BY <1>a, <1>p, LinkMoved
    <3> QED BY <2>1, <3>1, <3>2
  <2>3. userLock' \in [Users -> Requests \cup {NoUser}]
    BY <1>6, <1>b, SameCardinality DEF L!CountAccounts, L!Left
  <2> QED BY <1>6, <2>2, <2>3, SameCardinality DEF L!CountAccounts, L!TypeOK, LinkType, LinkPCs
<1>7. ASSUME NEW c \in Requests, L!StoreLink(c) PROVE L!TypeOK'
  BY <1>7 DEF L!StoreLink, L!Left, L!Relinked, L!TypeOK, Limit, OnePerSubject, Active, L!States
<1>8. ASSUME NEW c \in Requests, L!DieLinking(c) PROVE L!TypeOK'
  <2>1. link' \in [Requests -> LinkType]
    BY <1>8, <1>a, <1>p, LinkMoved DEF L!DieLinking
  <2>2. userLock' \in [Users -> Requests \cup {NoUser}] /\ mishaps' \in Nat
    <3>1. L!Left(link[c].u, c) \in [Users -> Requests \cup {NoUser}]
      BY <1>b DEF L!Left
    <3>2. userLock' \in {L!Left(link[c].u, c), userLock} /\ mishaps' = mishaps + 1
      BY <1>8 DEF L!DieLinking
    <3> QED BY <1>b, <3>1, <3>2
  <2> QED BY <1>8, <2>1, <2>2 DEF L!DieLinking, L!TypeOK, LinkType, LinkPCs
<1>9. ASSUME NEW s \in Setups, L!Verify(s) PROVE L!TypeOK'
  BY <1>9 DEF L!Verify, L!TypeOK, Progress, SetupKnown
<1>10. ASSUME NEW s \in Setups, L!MarkImporting(s) PROVE L!TypeOK'
  <2>1. setup' = [setup EXCEPT ![s].pc = "enqueue"] \/ setup' = [setup EXCEPT ![s].pc = "done"]
    BY <1>10 DEF L!MarkImporting
  <2>2. setup' \in [Setups -> SetupType]
    <3>1. [setup EXCEPT ![s].pc = "enqueue"] \in [Setups -> SetupType]
      BY <1>a, <1>p, SetupMoved
    <3>2. [setup EXCEPT ![s].pc = "done"] \in [Setups -> SetupType]
      BY <1>a, <1>p, SetupMoved
    <3> QED BY <2>1, <3>1, <3>2
  <2>3. state' \in [Subjects -> L!States]
    BY <1>10 DEF L!MarkImporting, L!TypeOK, L!States
  <2> QED BY <1>10, <2>2, <2>3 DEF L!MarkImporting, L!TypeOK, SetupType, SetupPCs
<1>11. ASSUME NEW s \in Setups, L!EnqueueFirstRun(s) PROVE L!TypeOK'
  BY <1>11 DEF L!EnqueueFirstRun, L!TypeOK, Progress, SetupKnown
<1>12. ASSUME NEW s \in Setups, L!DieSettingUp(s) PROVE L!TypeOK'
  BY <1>12 DEF L!DieSettingUp, L!TypeOK, Progress, SetupKnown
<1>13. ASSUME NEW w \in Workers, L!Run(w) PROVE L!TypeOK'
  <2>1. worker' = [worker EXCEPT ![w].pc = "publish"] \/ worker' = [worker EXCEPT ![w].pc = "reauth"]
    BY <1>13 DEF L!Run
  <2>2. worker' \in [Workers -> WorkerType]
    <3>1. [worker EXCEPT ![w].pc = "publish"] \in [Workers -> WorkerType]
      BY <1>a, <1>p, WorkerMoved
    <3>2. [worker EXCEPT ![w].pc = "reauth"] \in [Workers -> WorkerType]
      BY <1>a, <1>p, WorkerMoved
    <3> QED BY <2>1, <3>1, <3>2
  <2>3. imported' \subseteq Subjects
    BY <1>13 DEF L!Run, L!TypeOK, Progress, OneWorker
  <2> QED BY <1>13, <2>2, <2>3 DEF L!Run, L!TypeOK, WorkerType, WorkerPCs
<1>14. ASSUME NEW w \in Workers, L!Publish(w) PROVE L!TypeOK'
  BY <1>14 DEF L!Publish, L!ReadyIfImported, L!TypeOK, Progress, OneWorker, L!NoWork, L!States
<1>15. ASSUME NEW w \in Workers, L!Complete(w) PROVE L!TypeOK'
  BY <1>15 DEF L!Complete, L!TypeOK, Progress, OneWorker, L!NoWork
<1>16. ASSUME NEW w \in Workers, L!PauseAccount(w) PROVE L!TypeOK'
  BY <1>16 DEF L!PauseAccount, L!TypeOK, Progress, OneWorker, L!NoWork, L!States
<1>17. ASSUME NEW w \in Workers, L!Cancel(w) PROVE L!TypeOK'
  BY <1>17 DEF L!Cancel, L!TypeOK, Progress, OneWorker, L!NoWork
<1>18. ASSUME NEW w \in Workers, L!Fail(w) PROVE L!TypeOK'
  BY <1>18 DEF L!Fail, L!TypeOK, Progress, OneWorker, L!NoWork
<1>19. ASSUME NEW g \in Subjects, L!GrantDies(g) PROVE L!TypeOK'
  BY <1>19 DEF L!GrantDies, L!TypeOK
<1>20. CASE UNCHANGED L!vars
  BY <1>20 DEF L!vars, L!TypeOK
<1> QED
  BY <1>1, <1>2, <1>3, <1>4, <1>5, <1>6, <1>7, <1>8, <1>9, <1>10, <1>11, <1>12, <1>13, <1>14, <1>15, <1>16, <1>17, <1>18, <1>19, <1>20
     DEF L!Next, L!Linking, L!SettingUp, L!Importing

-----------------------------------------------------------------------------
(* A callback keeps the limit: what it counted under the row lock stands.    *)
LEMMA LimitKept ==
  ASSUME Proper, L!TypeOK, Limit, [L!Next]_(L!vars)
  PROVE  Limit'
<1>0. OnePerSubject /\ PastOwnerKnown /\ UserHeld /\ CountStands /\ L!AccountLimit
  BY DEF Limit
<1>1. ASSUME UNCHANGED <<owner, link, userLock>> PROVE Limit'
  BY <1>0, <1>1, SameCardinality DEF Limit, OnePerSubject, PastOwnerKnown, UserHeld, CountStands, L!AccountLimit,
     Active, Holding, L!Owned
<1>2. ASSUME owner' = owner PROVE L!AccountLimit'
  BY <1>0, <1>2, SameCardinality DEF L!AccountLimit, L!Owned
<1>3. ASSUME NEW c \in Requests, NEW u \in Users, NEW g \in Subjects, L!BeginLink(c, u, g) PROVE Limit'
  <2>0. \A d \in Requests \ {c} : link'[d] = link[d]
    BY <1>3 DEF L!BeginLink, L!TypeOK
  <2>1. link'[c] = [pc |-> "look", g |-> g, u |-> u, count |-> 0]
    BY <1>3 DEF L!BeginLink, L!TypeOK
  <2>2. owner' = owner /\ userLock' = userLock
    BY <1>3 DEF L!BeginLink, L!accounts
  <2>3. OnePerSubject'
    BY <1>0, <1>3, <2>0, <2>1 DEF OnePerSubject, Active, L!BeginLink, L!SubjectFree
  <2>4. PastOwnerKnown' /\ UserHeld' /\ CountStands'
    BY <1>0, <2>0, <2>1, <2>2, SameCardinality DEF PastOwnerKnown, UserHeld, CountStands, Holding, L!Owned
  <2> QED BY <1>2, <2>2, <2>3, <2>4 DEF Limit
<1>4. ASSUME NEW c \in Requests, L!LookForOwner(c) PROVE Limit'
  <2>0. \A d \in Requests \ {c} : link'[d] = link[d]
    BY <1>4 DEF L!LookForOwner, L!TypeOK
  <2>1. link[c].pc = "look" /\ link'[c].pc = "lock" /\ link'[c].g = link[c].g /\ link[c].g \in Subjects
    BY <1>0, <1>4 DEF L!LookForOwner, L!TypeOK, OnePerSubject, Active
  <2>2. link'[c].u = IF owner[link[c].g] = NoUser THEN link[c].u ELSE owner[link[c].g]
    BY <1>4 DEF L!LookForOwner, L!TypeOK
  <2>3. owner' = owner /\ userLock' = userLock
    BY <1>4 DEF L!LookForOwner, L!accounts
  <2>4. OnePerSubject'
    <3>1. link'[c].u \in Users
      BY <1>0, <2>1, <2>2 DEF OnePerSubject, Active, L!TypeOK
    <3> QED BY <1>0, <2>0, <2>1, <3>1 DEF OnePerSubject, Active
  <2>5. PastOwnerKnown' /\ UserHeld' /\ CountStands'
    BY <1>0, <2>0, <2>1, <2>2, <2>3, SameCardinality DEF PastOwnerKnown, UserHeld, CountStands, Holding, L!Owned
  <2> QED BY <1>2, <2>3, <2>4, <2>5 DEF Limit
<1>5. ASSUME NEW c \in Requests, L!LockUser(c) PROVE Limit'
  <2>0. \A d \in Requests \ {c} : link'[d] = link[d]
    BY <1>5 DEF L!LockUser, L!TypeOK
  <2>1. /\ link[c].pc = "lock" /\ link'[c].pc = "count" /\ link'[c].g = link[c].g
        /\ link'[c].u = link[c].u /\ link[c].u \in Users
    BY <1>0, <1>5 DEF L!LockUser, L!TypeOK, OnePerSubject, Active
  <2>2. userLock[link[c].u] = NoUser /\ userLock' = [userLock EXCEPT ![link[c].u] = c]
    BY <1>5 DEF L!LockUser, L!Free
  <2>3. owner' = owner
    BY <1>5 DEF L!LockUser, L!accounts
  <2>4. OnePerSubject' /\ PastOwnerKnown' /\ CountStands'
    BY <1>0, <2>0, <2>1, <2>3, SameCardinality DEF OnePerSubject, Active, PastOwnerKnown, CountStands, L!Owned
  <2>5. UserHeld'
    BY <1>0, <2>0, <2>1, <2>2 DEF UserHeld, Holding, L!TypeOK, Proper
  <2> QED BY <1>2, <2>3, <2>4, <2>5 DEF Limit
<1>6. \A u \in Users : Cardinality(L!Owned(u)) \in Nat
  <2>1. \A u \in Users : L!Owned(u) \subseteq Subjects
    BY DEF L!Owned
  <2> QED BY <2>1, FS_Subset, FS_CardinalityType DEF Proper
<1>7. ASSUME NEW c \in Requests, L!CountAccounts(c) PROVE Limit'
  <2>0. \A d \in Requests \ {c} : link'[d] = link[d]
    BY <1>7, SameCardinality DEF L!CountAccounts, L!TypeOK
  <2>1. link[c].pc = "count" /\ link[c].u \in Users
    BY <1>0, <1>7, SameCardinality DEF L!CountAccounts, OnePerSubject, Active
  <2>2. /\ link'[c].g = link[c].g /\ link'[c].u = link[c].u
        /\ link'[c].pc \in {"store", "done"}
        /\ link'[c].pc = "store" => userLock' = userLock
        /\ link'[c].pc = "store" /\ owner[link[c].g] = NoUser => ~(Cardinality(L!Owned(link[c].u)) >= MaxAccounts)
    BY <1>7, SameCardinality DEF L!CountAccounts, L!TypeOK
  <2>3. owner' = owner /\ (userLock' = userLock \/ userLock' = L!Left(link[c].u, c))
    BY <1>7, SameCardinality DEF L!CountAccounts, L!accounts
  <2>4. OnePerSubject' /\ PastOwnerKnown'
    BY <1>0, <2>0, <2>1, <2>2, <2>3 DEF OnePerSubject, Active, PastOwnerKnown
  <2>5. UserHeld'
    BY <1>0, <2>0, <2>1, <2>2, <2>3 DEF UserHeld, OnePerSubject, Active, Holding, L!Left, L!TypeOK
  <2>6. CountStands'
    <3>1. ASSUME owner[link[c].g] = NoUser, link'[c].pc = "store"
          PROVE  Cardinality(L!Owned(link[c].u)) < MaxAccounts
      BY <1>6, <2>1, <2>2, <3>1 DEF Proper
    <3> QED BY <1>0, <2>0, <2>2, <2>3, <3>1, SameCardinality DEF CountStands, L!Owned
  <2> QED BY <1>2, <2>3, <2>4, <2>5, <2>6 DEF Limit
<1>8. ASSUME NEW c \in Requests, L!StoreLink(c) PROVE Limit'
  <2>p. PICK g \in Subjects, u \in Users : g = link[c].g /\ u = link[c].u
    BY <1>0, <1>8 DEF L!StoreLink, OnePerSubject, Active
  <2>0. \A d \in Requests \ {c} : link'[d] = link[d]
    BY <1>8 DEF L!StoreLink, L!TypeOK
  <2>1. link[c].pc = "store" /\ link'[c].pc = "done"
    BY <1>8 DEF L!StoreLink, L!TypeOK
  <2>2. owner' = [owner EXCEPT ![g] = u] /\ userLock' = L!Left(u, c) /\ owner[g] \in {NoUser, u}
    BY <1>0, <1>8, <2>1, <2>p DEF L!StoreLink, PastOwnerKnown
  <2>3. \A d \in Requests \ {c} : Active(d) => link[d].g # g /\ link[d].g \in Subjects /\ link[d].u \in Users
    BY <1>0, <2>1, <2>p DEF OnePerSubject, Active
  <2>4. \A d \in Requests \ {c} : Holding(d) => link[d].u # u
    BY <1>0, <2>1, <2>p DEF UserHeld, Holding
  <2>5. OnePerSubject'
    BY <1>0, <2>0, <2>1 DEF OnePerSubject, Active
  <2>6. \A d \in Requests \ {c} : Active(d) => owner'[link[d].g] = owner[link[d].g]
    BY <2>2, <2>3 DEF L!TypeOK
  <2>7. PastOwnerKnown'
    BY <1>0, <2>0, <2>1, <2>6 DEF PastOwnerKnown, Active
  <2>8. UserHeld'
    BY <1>0, <2>0, <2>1, <2>2, <2>3, <2>4 DEF UserHeld, Holding, Active, L!Left, L!TypeOK
  <2>9. \A x \in Users \ {u} : L!Owned(x)' = L!Owned(x)
    BY <2>1, <2>2 DEF L!Owned, L!TypeOK, Proper
  <2>10. CountStands'
    <3> SUFFICES ASSUME NEW d \in Requests, link'[d].pc = "store", owner'[link'[d].g] = NoUser
                 PROVE  Cardinality({h \in Subjects : owner'[h] = link'[d].u}) < MaxAccounts
      BY SameCardinality DEF CountStands, L!Owned
    <3>1. d # c /\ link'[d] = link[d] /\ Active(d) /\ Holding(d)
      BY <2>0, <2>1 DEF Active, Holding
    <3>2. owner[link[d].g] = NoUser /\ link[d].u \in Users \ {u}
      BY <2>3, <2>4, <2>6, <3>1
    <3>3. {h \in Subjects : owner'[h] = link'[d].u} = L!Owned(link[d].u)
      BY <2>9, <3>1, <3>2 DEF L!Owned
    <3>4. Cardinality(L!Owned(link[d].u)) < MaxAccounts
      BY <1>0, <3>1, <3>2, SameCardinality DEF CountStands
    <3> QED BY <3>3, <3>4
  <2>11. Cardinality(L!Owned(u)') <= MaxAccounts
    <3>1. CASE owner[g] = u
      <4>1. L!Owned(u)' = L!Owned(u)
        BY <2>1, <2>2, <3>1 DEF L!Owned, L!TypeOK
      <4> QED BY <1>0, <2>1, <4>1, SameCardinality DEF L!AccountLimit
    <3>2. CASE owner[g] = NoUser
      <4>1. L!Owned(u)' = L!Owned(u) \cup {g}
        BY <2>1, <2>2, <3>2 DEF L!Owned, L!TypeOK
      <4>2. IsFiniteSet(L!Owned(u)) /\ g \notin L!Owned(u)
        <5>1. L!Owned(u) \subseteq Subjects
          BY DEF L!Owned
        <5> QED BY <2>1, <3>2, <5>1, FS_Subset DEF L!Owned, Proper
      <4>3. Cardinality(L!Owned(u) \cup {g}) = Cardinality(L!Owned(u)) + 1
        BY <4>2, FS_AddElement
      <4>4. Cardinality(L!Owned(u)) < MaxAccounts
        BY <1>0, <2>1, <2>p, <3>2, SameCardinality DEF CountStands
      <4> QED BY <1>6, <2>1, <4>1, <4>3, <4>4 DEF Proper
    <3> QED BY <2>2, <3>1, <3>2
  <2>12. L!AccountLimit'
    <3>1. \A x \in Users \ {u} : Cardinality(L!Owned(x)') = Cardinality(L!Owned(x))
      BY <2>9
    <3>2. \A x \in Users : Cardinality(L!Owned(x)') <= MaxAccounts
      BY <1>0, <2>11, <3>1, SameCardinality DEF L!AccountLimit
    <3> QED BY <3>2, SameCardinality DEF L!AccountLimit
  <2> QED BY <2>5, <2>7, <2>8, <2>10, <2>12 DEF Limit
<1>9. ASSUME NEW c \in Requests, L!DieLinking(c) PROVE Limit'
  <2>0. \A d \in Requests \ {c} : link'[d] = link[d]
    BY <1>9 DEF L!DieLinking, L!TypeOK
  <2>1. link'[c].pc = "done"
    BY <1>9 DEF L!DieLinking, L!TypeOK
  <2>2. owner' = owner /\ userLock' \in {userLock, L!Left(link[c].u, c)}
    BY <1>9 DEF L!DieLinking, L!accounts
  <2>3. OnePerSubject' /\ PastOwnerKnown' /\ CountStands'
    BY <1>0, <2>0, <2>1, <2>2, SameCardinality DEF OnePerSubject, Active, PastOwnerKnown, CountStands, L!Owned
  <2>4. UserHeld'
    BY <1>0, <2>0, <2>1, <2>2 DEF UserHeld, OnePerSubject, Active, Holding, L!Left, L!TypeOK
  <2> QED BY <1>2, <2>2, <2>3, <2>4 DEF Limit
<1>10. ASSUME NEW s \in Setups, L!SettingUp(s) PROVE UNCHANGED <<owner, link, userLock>>
  BY <1>10 DEF L!SettingUp, L!BeginSetup, L!Verify, L!MarkImporting, L!EnqueueFirstRun, L!DieSettingUp, L!accounts
<1>11. ASSUME NEW w \in Workers, L!Importing(w) PROVE UNCHANGED <<owner, link, userLock>>
  BY <1>11 DEF L!Importing, L!Claim, L!Run, L!Publish, L!Complete, L!PauseAccount, L!Cancel, L!Fail, L!accounts
<1>12. ASSUME NEW g \in Subjects, L!GrantDies(g) PROVE UNCHANGED <<owner, link, userLock>>
  BY <1>12 DEF L!GrantDies
<1>13. CASE UNCHANGED L!vars
  BY <1>1, <1>13 DEF L!vars
<1> QED
  BY <1>1, <1>3, <1>4, <1>5, <1>7, <1>8, <1>9, <1>10, <1>11, <1>12, <1>13 DEF L!Next, L!Linking

-----------------------------------------------------------------------------
(* An account that is importing keeps its job or its request.               *)
LEMMA ProgressKept ==
  ASSUME Proper, L!TypeOK, Progress, [L!Next]_(L!vars)
  PROVE  Progress'
<1>0. OneWorker /\ SetupKnown /\ PastPublishing /\ L!ImportGoesOn
  BY DEF Progress
<1>1. ASSUME UNCHANGED <<state, imported, job, setup, worker, excused>> PROVE Progress'
  BY <1>0, <1>1 DEF Progress, OneWorker, SetupKnown, PastPublishing, L!ImportGoesOn, Asked
<1>2. ASSUME NEW c \in Requests, L!Linking(c), ~L!StoreLink(c)
      PROVE  UNCHANGED <<state, imported, job, setup, worker, excused>>
  BY <1>2, SameCardinality DEF L!Linking, L!BeginLink, L!LookForOwner, L!LockUser, L!CountAccounts, L!DieLinking, L!accounts
<1>3. ASSUME NEW c \in Requests, L!StoreLink(c) PROVE Progress'
  <2>1. UNCHANGED <<imported, job, setup, worker, excused>>
    BY <1>3 DEF L!StoreLink
  <2>2. \A g \in Subjects : state'[g] = "importing" => state[g] = "importing"
    BY <1>3 DEF L!StoreLink, L!Relinked, L!TypeOK
  <2>3. OneWorker' /\ SetupKnown'
    BY <1>0, <2>1 DEF OneWorker, SetupKnown
  <2>4. PastPublishing' /\ L!ImportGoesOn'
    BY <1>0, <2>1, <2>2 DEF PastPublishing, L!ImportGoesOn, Asked, OneWorker
  <2> QED BY <2>3, <2>4 DEF Progress
<1>4. ASSUME NEW s \in Setups, NEW g \in Subjects, L!BeginSetup(s, g) PROVE Progress'
  <2>a. \A q \in Setups \ {s} : setup'[q] = setup[q]
    BY <1>0, <1>4 DEF L!BeginSetup, L!TypeOK
  <2>b. setup[s].pc = "idle" /\ setup'[s] = [pc |-> "verify", g |-> g]
    BY <1>0, <1>4, <2>a DEF L!BeginSetup, L!TypeOK
  <2>c. UNCHANGED <<state, imported, job, worker, excused>>
    BY <1>0, <1>4, <2>a, <2>b DEF L!BeginSetup, L!accounts
  <2>1. OneWorker'
    BY <1>0, <2>a, <2>b, <2>c DEF OneWorker, L!NoWork
  <2>2. SetupKnown'
    BY <1>0, <2>a, <2>b, <2>c DEF SetupKnown
  <2>3. PastPublishing'
    BY <1>0, <2>a, <2>b, <2>c DEF PastPublishing, OneWorker, SetupKnown, Asked, L!NoWork
  <2>4. L!ImportGoesOn'
    BY <1>0, <2>a, <2>b, <2>c DEF L!ImportGoesOn, PastPublishing, OneWorker, SetupKnown, Asked
  <2> QED BY <2>1, <2>2, <2>3, <2>4 DEF Progress
<1>5. ASSUME NEW s \in Setups, L!Verify(s) PROVE Progress'
  <2>a. \A q \in Setups \ {s} : setup'[q] = setup[q]
    BY <1>0, <1>5 DEF L!Verify, L!TypeOK
  <2>b. setup[s].pc = "verify" /\ setup'[s].g = setup[s].g /\ setup'[s].pc \in {"mark", "done"}
    BY <1>0, <1>5, <2>a DEF L!Verify, L!TypeOK
  <2>c. UNCHANGED <<state, imported, job, worker, excused>>
    BY <1>0, <1>5, <2>a, <2>b DEF L!Verify, L!accounts
  <2>1. OneWorker'
    BY <1>0, <2>a, <2>b, <2>c DEF OneWorker, L!NoWork
  <2>2. SetupKnown'
    BY <1>0, <2>a, <2>b, <2>c DEF SetupKnown
  <2>3. PastPublishing'
    BY <1>0, <2>a, <2>b, <2>c DEF PastPublishing, OneWorker, SetupKnown, Asked, L!NoWork
  <2>4. L!ImportGoesOn'
    BY <1>0, <2>a, <2>b, <2>c DEF L!ImportGoesOn, PastPublishing, OneWorker, SetupKnown, Asked
  <2> QED BY <2>1, <2>2, <2>3, <2>4 DEF Progress
<1>6. ASSUME NEW s \in Setups, L!MarkImporting(s) PROVE Progress'
  <2>a. \A q \in Setups \ {s} : setup'[q] = setup[q]
    BY <1>0, <1>6 DEF L!MarkImporting, L!TypeOK
  <2>b. setup[s].pc = "mark" /\ setup'[s].g = setup[s].g /\ setup[s].g \in Subjects
    BY <1>0, <1>6, <2>a DEF L!MarkImporting, L!TypeOK, SetupKnown
  <2>c. \/ setup'[s].pc = "enqueue" /\ \A h \in Subjects \ {setup[s].g} : state'[h] = state[h]
        \/ setup'[s].pc = "done" /\ state' = state
    BY <1>0, <1>6, <2>a, <2>b DEF L!MarkImporting, L!TypeOK
  <2>d. UNCHANGED <<imported, job, worker, excused>>
    BY <1>0, <1>6, <2>a, <2>b, <2>c DEF L!MarkImporting
  <2>1. OneWorker'
    BY <1>0, <2>a, <2>b, <2>c, <2>d DEF OneWorker, L!NoWork
  <2>2. SetupKnown'
    BY <1>0, <2>a, <2>b, <2>c, <2>d DEF SetupKnown
  <2>3. PastPublishing'
    BY <1>0, <2>a, <2>b, <2>c, <2>d DEF PastPublishing, OneWorker, SetupKnown, Asked, L!NoWork
  <2>4. L!ImportGoesOn'
    BY <1>0, <2>a, <2>b, <2>c, <2>d DEF L!ImportGoesOn, PastPublishing, OneWorker, SetupKnown, Asked
  <2> QED BY <2>1, <2>2, <2>3, <2>4 DEF Progress
<1>7. ASSUME NEW s \in Setups, L!EnqueueFirstRun(s) PROVE Progress'
  <2>a. \A q \in Setups \ {s} : setup'[q] = setup[q]
    BY <1>0, <1>7 DEF L!EnqueueFirstRun, L!TypeOK
  <2>b. setup[s].pc = "enqueue" /\ setup'[s].g = setup[s].g /\ setup'[s].pc = "done" /\ setup[s].g \in Subjects
    BY <1>0, <1>7, <2>a DEF L!EnqueueFirstRun, L!TypeOK, SetupKnown
  <2>c. job'[setup[s].g] # "none" /\ \A h \in Subjects : job'[h] = job[h] \/ (h = setup[s].g /\ job[h] = "none")
    BY <1>0, <1>7, <2>a, <2>b DEF L!EnqueueFirstRun, L!TypeOK
  <2>d. \A h \in Subjects \ {setup[s].g} : h \in excused' <=> h \in excused
    BY <1>0, <1>7, <2>a, <2>b, <2>c DEF L!EnqueueFirstRun
  <2>e. setup[s].g \notin excused' => \A w \in Workers : worker[w].g = setup[s].g => worker[w].pc \notin {"complete", "cancel"}
    BY <1>0, <1>7, <2>a, <2>b, <2>c, <2>d DEF L!EnqueueFirstRun, L!Ending, OneWorker, L!NoWork, Proper
  <2>f. UNCHANGED <<state, imported, worker>>
    BY <1>0, <1>7, <2>a, <2>b, <2>c, <2>d, <2>e DEF L!EnqueueFirstRun, L!accounts
  <2>1. OneWorker'
    BY <1>0, <2>a, <2>b, <2>c, <2>d, <2>e, <2>f DEF OneWorker, L!NoWork
  <2>2. SetupKnown'
    BY <1>0, <2>a, <2>b, <2>c, <2>d, <2>e, <2>f DEF SetupKnown
  <2>3. PastPublishing'
    BY <1>0, <2>a, <2>b, <2>c, <2>d, <2>e, <2>f DEF PastPublishing, OneWorker, SetupKnown, Asked, L!NoWork
  <2>4. L!ImportGoesOn'
    BY <1>0, <2>a, <2>b, <2>c, <2>d, <2>e, <2>f DEF L!ImportGoesOn, PastPublishing, OneWorker, SetupKnown, Asked
  <2> QED BY <2>1, <2>2, <2>3, <2>4 DEF Progress
<1>8. ASSUME NEW s \in Setups, L!DieSettingUp(s) PROVE Progress'
  <2>a. \A q \in Setups \ {s} : setup'[q] = setup[q]
    BY <1>0, <1>8 DEF L!DieSettingUp, L!TypeOK
  <2>b. setup[s].pc = "enqueue" /\ setup'[s].pc = "done" /\ excused' = excused \cup {setup[s].g}
    BY <1>0, <1>8, <2>a DEF L!DieSettingUp, L!TypeOK
  <2>c. UNCHANGED <<state, imported, job, worker>>
    BY <1>0, <1>8, <2>a, <2>b DEF L!DieSettingUp, L!accounts
  <2>1. OneWorker'
    BY <1>0, <2>a, <2>b, <2>c DEF OneWorker, L!NoWork
  <2>2. SetupKnown'
    BY <1>0, <2>a, <2>b, <2>c DEF SetupKnown
  <2>3. PastPublishing'
    BY <1>0, <2>a, <2>b, <2>c DEF PastPublishing, OneWorker, SetupKnown, Asked, L!NoWork
  <2>4. L!ImportGoesOn'
    BY <1>0, <2>a, <2>b, <2>c DEF L!ImportGoesOn, PastPublishing, OneWorker, SetupKnown, Asked
  <2> QED BY <2>1, <2>2, <2>3, <2>4 DEF Progress
<1>9. ASSUME NEW w \in Workers, NEW g \in Subjects, L!Claim(w, g) PROVE Progress'
  <2>a. \A v \in Workers \ {w} : worker'[v] = worker[v]
    BY <1>0, <1>9 DEF L!Claim, L!TypeOK
  <2>b. worker[w].pc = "idle" /\ worker'[w] = [pc |-> "run", g |-> g] /\ job[g] = "queued"
    BY <1>0, <1>9, <2>a DEF L!Claim, L!TypeOK
  <2>c. job'[g] = "running" /\ \A h \in Subjects \ {g} : job'[h] = job[h]
    BY <1>0, <1>9, <2>a, <2>b DEF L!Claim, L!TypeOK
  <2>d. UNCHANGED <<state, imported, setup, excused>>
    BY <1>0, <1>9, <2>a, <2>b, <2>c DEF L!Claim, L!accounts
  <2>1. OneWorker'
    BY <1>0, <2>a, <2>b, <2>c, <2>d DEF OneWorker, L!NoWork
  <2>2. SetupKnown'
    BY <1>0, <2>a, <2>b, <2>c, <2>d DEF SetupKnown
  <2>3. PastPublishing'
    BY <1>0, <2>a, <2>b, <2>c, <2>d DEF PastPublishing, OneWorker, SetupKnown, Asked, L!NoWork
  <2>4. L!ImportGoesOn'
    BY <1>0, <2>a, <2>b, <2>c, <2>d DEF L!ImportGoesOn, PastPublishing, OneWorker, SetupKnown, Asked
  <2> QED BY <2>1, <2>2, <2>3, <2>4 DEF Progress
<1>10. ASSUME NEW w \in Workers, L!Run(w) PROVE Progress'
  <2>a. \A v \in Workers \ {w} : worker'[v] = worker[v]
    BY <1>0, <1>10 DEF L!Run, L!TypeOK
  <2>b. worker[w].pc = "run" /\ worker'[w].g = worker[w].g /\ worker'[w].pc \in {"publish", "reauth"}
    BY <1>0, <1>10, <2>a DEF L!Run, L!TypeOK
  <2>c. \A h \in Subjects \ {worker[w].g} : h \in imported' <=> h \in imported
    BY <1>0, <1>10, <2>a, <2>b DEF L!Run
  <2>d. UNCHANGED <<state, job, setup, excused>>
    BY <1>0, <1>10, <2>a, <2>b, <2>c DEF L!Run
  <2>1. OneWorker'
    BY <1>0, <2>a, <2>b, <2>c, <2>d DEF OneWorker, L!NoWork
  <2>2. SetupKnown'
    BY <1>0, <2>a, <2>b, <2>c, <2>d DEF SetupKnown
  <2>3. PastPublishing'
    BY <1>0, <2>a, <2>b, <2>c, <2>d DEF PastPublishing, OneWorker, SetupKnown, Asked, L!NoWork
  <2>4. L!ImportGoesOn'
    BY <1>0, <2>a, <2>b, <2>c, <2>d DEF L!ImportGoesOn, PastPublishing, OneWorker, SetupKnown, Asked
  <2> QED BY <2>1, <2>2, <2>3, <2>4 DEF Progress
<1>11. ASSUME NEW w \in Workers, L!Publish(w) PROVE Progress'
  <2>a. \A v \in Workers \ {w} : worker'[v] = worker[v]
    BY <1>0, <1>11 DEF L!Publish, L!TypeOK
  <2>b. worker[w].pc = "publish" /\ worker'[w].g = worker[w].g /\ worker'[w].pc = "complete"
    BY <1>0, <1>11, <2>a DEF L!Publish, L!TypeOK
  <2>c. \A h \in Subjects : state'[h] = state[h] \/ state'[h] = "ready"
    BY <1>0, <1>11, <2>a, <2>b DEF L!Publish, L!ReadyIfImported, L!TypeOK
  <2>d. worker[w].g \in imported => state'[worker[w].g] # "importing"
    BY <1>0, <1>11, <2>a, <2>b, <2>c DEF L!Publish, L!ReadyIfImported, L!TypeOK, OneWorker
  <2>e. UNCHANGED <<imported, job, setup, excused>>
    BY <1>0, <1>11, <2>a, <2>b, <2>c, <2>d DEF L!Publish
  <2>1. OneWorker'
    BY <1>0, <2>a, <2>b, <2>c, <2>d, <2>e DEF OneWorker, L!NoWork
  <2>2. SetupKnown'
    BY <1>0, <2>a, <2>b, <2>c, <2>d, <2>e DEF SetupKnown
  <2>3. PastPublishing'
    BY <1>0, <2>a, <2>b, <2>c, <2>d, <2>e DEF PastPublishing, OneWorker, SetupKnown, Asked, L!NoWork
  <2>4. L!ImportGoesOn'
    BY <1>0, <2>a, <2>b, <2>c, <2>d, <2>e DEF L!ImportGoesOn, PastPublishing, OneWorker, SetupKnown, Asked
  <2> QED BY <2>1, <2>2, <2>3, <2>4 DEF Progress
<1>12. ASSUME NEW w \in Workers, L!Complete(w) PROVE Progress'
  <2>a. \A v \in Workers \ {w} : worker'[v] = worker[v]
    BY <1>0, <1>12 DEF L!Complete, L!TypeOK
  <2>b. worker[w].pc = "complete" /\ worker'[w] = L!NoWork /\ worker[w].g \in Subjects
    BY <1>0, <1>12, <2>a DEF L!Complete, L!TypeOK, OneWorker
  <2>c. \A h \in Subjects \ {worker[w].g} : job'[h] = job[h]
    BY <1>0, <1>12, <2>a, <2>b DEF L!Complete, L!TypeOK
  <2>d. worker[w].g \notin imported => job'[worker[w].g] = "queued"
    BY <1>0, <1>12, <2>a, <2>b, <2>c DEF L!Complete, L!TypeOK
  <2>e. UNCHANGED <<state, imported, setup, excused>>
    BY <1>0, <1>12, <2>a, <2>b, <2>c, <2>d DEF L!Complete, L!accounts
  <2>1. OneWorker'
    BY <1>0, <2>a, <2>b, <2>c, <2>d, <2>e DEF OneWorker, L!NoWork
  <2>2. SetupKnown'
    BY <1>0, <2>a, <2>b, <2>c, <2>d, <2>e DEF SetupKnown
  <2>3. PastPublishing'
    BY <1>0, <2>a, <2>b, <2>c, <2>d, <2>e DEF PastPublishing, OneWorker, SetupKnown, Asked, L!NoWork
  <2>4. L!ImportGoesOn'
    BY <1>0, <2>a, <2>b, <2>c, <2>d, <2>e DEF L!ImportGoesOn, PastPublishing, OneWorker, SetupKnown, Asked
  <2> QED BY <2>1, <2>2, <2>3, <2>4 DEF Progress
<1>13. ASSUME NEW w \in Workers, L!PauseAccount(w) PROVE Progress'
  <2>a. \A v \in Workers \ {w} : worker'[v] = worker[v]
    BY <1>0, <1>13 DEF L!PauseAccount, L!TypeOK
  <2>b. worker[w].pc = "reauth" /\ worker'[w].g = worker[w].g /\ worker'[w].pc = "cancel"
    BY <1>0, <1>13, <2>a DEF L!PauseAccount, L!TypeOK
  <2>c. state'[worker[w].g] = "reauth_required" /\ \A h \in Subjects \ {worker[w].g} : state'[h] = state[h]
    BY <1>0, <1>13, <2>a, <2>b DEF L!PauseAccount, L!TypeOK, OneWorker
  <2>d. UNCHANGED <<imported, job, setup, excused>>
    BY <1>0, <1>13, <2>a, <2>b, <2>c DEF L!PauseAccount
  <2>1. OneWorker'
    BY <1>0, <2>a, <2>b, <2>c, <2>d DEF OneWorker, L!NoWork
  <2>2. SetupKnown'
    BY <1>0, <2>a, <2>b, <2>c, <2>d DEF SetupKnown
  <2>3. PastPublishing'
    BY <1>0, <2>a, <2>b, <2>c, <2>d DEF PastPublishing, OneWorker, SetupKnown, Asked, L!NoWork
  <2>4. L!ImportGoesOn'
    BY <1>0, <2>a, <2>b, <2>c, <2>d DEF L!ImportGoesOn, PastPublishing, OneWorker, SetupKnown, Asked
  <2> QED BY <2>1, <2>2, <2>3, <2>4 DEF Progress
<1>14. ASSUME NEW w \in Workers, L!Cancel(w) PROVE Progress'
  <2>a. \A v \in Workers \ {w} : worker'[v] = worker[v]
    BY <1>0, <1>14 DEF L!Cancel, L!TypeOK
  <2>b. worker[w].pc = "cancel" /\ worker'[w] = L!NoWork /\ worker[w].g \in Subjects
    BY <1>0, <1>14, <2>a DEF L!Cancel, L!TypeOK, OneWorker
  <2>c. \A h \in Subjects \ {worker[w].g} : job'[h] = job[h]
    BY <1>0, <1>14, <2>a, <2>b DEF L!Cancel, L!TypeOK
  <2>d. UNCHANGED <<state, imported, setup, excused>>
    BY <1>0, <1>14, <2>a, <2>b, <2>c DEF L!Cancel, L!accounts
  <2>1. OneWorker'
    BY <1>0, <2>a, <2>b, <2>c, <2>d DEF OneWorker, L!NoWork
  <2>2. SetupKnown'
    BY <1>0, <2>a, <2>b, <2>c, <2>d DEF SetupKnown
  <2>3. PastPublishing'
    BY <1>0, <2>a, <2>b, <2>c, <2>d DEF PastPublishing, OneWorker, SetupKnown, Asked, L!NoWork
  <2>4. L!ImportGoesOn'
    BY <1>0, <2>a, <2>b, <2>c, <2>d DEF L!ImportGoesOn, PastPublishing, OneWorker, SetupKnown, Asked
  <2> QED BY <2>1, <2>2, <2>3, <2>4 DEF Progress
<1>15. ASSUME NEW w \in Workers, L!Fail(w) PROVE Progress'
  <2>a. \A v \in Workers \ {w} : worker'[v] = worker[v]
    BY <1>0, <1>15 DEF L!Fail, L!TypeOK
  <2>b. worker[w].pc # "idle" /\ worker'[w] = L!NoWork /\ worker[w].g \in Subjects
    BY <1>0, <1>15, <2>a DEF L!Fail, L!TypeOK, OneWorker
  <2>c. \A h \in Subjects \ {worker[w].g} : job'[h] = job[h]
    BY <1>0, <1>15, <2>a, <2>b DEF L!Fail, L!TypeOK
  <2>d. job'[worker[w].g] = "queued" \/ worker[w].g \in excused'
    BY <1>0, <1>15, <2>a, <2>b, <2>c DEF L!Fail, L!TypeOK
  <2>e. excused \subseteq excused' /\ UNCHANGED <<state, imported, setup>>
    BY <1>0, <1>15, <2>a, <2>b, <2>c, <2>d DEF L!Fail, L!accounts
  <2>1. OneWorker'
    BY <1>0, <2>a, <2>b, <2>c, <2>d, <2>e DEF OneWorker, L!NoWork
  <2>2. SetupKnown'
    BY <1>0, <2>a, <2>b, <2>c, <2>d, <2>e DEF SetupKnown
  <2>3. PastPublishing'
    BY <1>0, <2>a, <2>b, <2>c, <2>d, <2>e DEF PastPublishing, OneWorker, SetupKnown, Asked, L!NoWork
  <2>4. L!ImportGoesOn'
    BY <1>0, <2>a, <2>b, <2>c, <2>d, <2>e DEF L!ImportGoesOn, PastPublishing, OneWorker, SetupKnown, Asked
  <2> QED BY <2>1, <2>2, <2>3, <2>4 DEF Progress
<1>16. ASSUME NEW g \in Subjects, L!GrantDies(g) PROVE UNCHANGED <<state, imported, job, setup, worker, excused>>
  BY <1>16 DEF L!GrantDies
<1>17. CASE UNCHANGED L!vars
  BY <1>1, <1>17 DEF L!vars
<1> QED
  BY <1>1, <1>2, <1>3, <1>4, <1>5, <1>6, <1>7, <1>8, <1>9, <1>10, <1>11, <1>12, <1>13, <1>14,
     <1>15, <1>16, <1>17 DEF L!Next, L!SettingUp, L!Importing

LEMMA StepKeepsIInv ==
  ASSUME Proper, IInv, [L!Next]_(L!vars)
  PROVE  IInv'
  BY TypePreserved, LimitKept, ProgressKept DEF IInv

-----------------------------------------------------------------------------
(* Whatever number of callbacks link at once, no user has more accounts than *)
(* the limit; and unless a fault or an absorbed request took it, an account  *)
(* that is importing has the job, or the request, that will publish it.      *)
THEOREM AccountsAreHeld ==
  ASSUME Proper
  PROVE  L!Spec => []AccountsHold
<1>1. IInv => AccountsHold
  BY DEF IInv, Limit, Progress, AccountsHold, L!AccountsHold
<1>2. IInv /\ [L!Next]_(L!vars) => IInv'
  BY StepKeepsIInv
<1>3. L!Init => IInv
  BY InitIInv
<1> QED
  BY <1>1, <1>2, <1>3, PTL DEF L!Spec

=============================================================================
