----------------------------- MODULE ClientDrafts -----------------------------
(***************************************************************************)
(* Drafts of the primary account: save_draft, get_draft,                   *)
(* delete_draft_by_id and send_saved_draft of                              *)
(* src/backend/app/services/mailbox_drafts.py, with the gmail_client_drafts *)
(* rows and the draft locks of db/mail_groups.py.                          *)
(*                                                                         *)
(* A row binds a client's draft identity to a Gmail draft.  Identity 0 is  *)
(* the one the app composes under; identity i is "gmail:i", the fallback   *)
(* for Gmail draft i.  A draft carries a Message-ID derived from the       *)
(* identity that wrote it last (its head), by which a lost create or send  *)
(* is searched for; Gmail's searches may not see it yet.                   *)
(*                                                                         *)
(* Every request is a task that takes two session locks, that of the Gmail *)
(* draft and then that of the identity, and holds them across its database *)
(* and provider calls.  Every such call is a step; a read and the decision *)
(* taken from it are one, the locks keeping the row still.  The guard of a *)
(* disconnected user only refuses whole requests and is left out, as is a  *)
(* send repeated under another client_send_id, which changes nothing once  *)
(* a send has begun.                                                       *)
(***************************************************************************)
EXTENDS Naturals, FiniteSets

CONSTANTS
    Requests,     \* requests that may be in progress at once
    Contents,     \* what a save may store
    Seen,         \* the hash of content read back from Gmail
    None,         \* no request, no content
    MaxDrafts,    \* bound on Gmail drafts
    MaxRequests,  \* bound on requests
    MaxFaults,    \* bound on failed calls and crashes
    LostUpdates   \* may an update of a draft lose its answer or its record?

ASSUME DraftAssumption ==
    /\ None \notin Requests \cup Contents
    /\ Seen \notin Contents \cup {None}
    /\ MaxDrafts \in Nat \ {0}
    /\ MaxRequests \in Nat /\ MaxFaults \in Nat
    /\ LostUpdates \in BOOLEAN

Ids        == 1..MaxDrafts
Identities == 0..MaxDrafts
Foreign    == MaxDrafts + 1
Locks      == {"gmail", "client"} \X Identities

VARIABLES
    row,     \* row[k]: the gmail_client_drafts row of identity k
    draft,   \* draft[i]: Gmail's draft i
    task,    \* task[r]: the request in progress
    holder,  \* holder[l]: the request holding the advisory lock l
    begun,   \* requests so far
    faults   \* faults so far

vars == <<row, draft, task, holder, begun, faults>>

RowStates == {"none", "creating", "saved", "failed", "sending", "sent", "deleted"}

Idle == [op |-> "none", k |-> 0, c |-> None, id |-> 0, key |-> 0, pc |-> "idle", then |-> "idle"]

Rows == [st : RowStates, id : Identities, c : Contents \cup {Seen, None}]

Drafts == [st : {"absent", "draft", "sent", "deleted"}, c : Contents \cup {None},
           head : 0..Foreign, by : {"nobody", "app", "other"}, indexed : BOOLEAN]

Tasks == [op : {"none", "save", "get", "delete", "send"}, k : Identities,
          c : Contents \cup {None}, id : Identities, key : Identities,
          pc : {"idle", "gmail", "client", "look", "search", "prepare", "call", "reject",
                "confirm", "record", "open", "remove", "drop", "claim", "deliver",
                "restore", "reconcile", "mark"},
          then : {"idle", "look", "confirm", "open", "remove", "claim"}]

TypeOK ==
    /\ row \in [Identities -> Rows]
    /\ draft \in [Ids -> Drafts]
    /\ task \in [Requests -> Tasks]
    /\ holder \in [Locks -> Requests \cup {None}]
    /\ begun \in 0..MaxRequests
    /\ faults \in 0..MaxFaults

Init ==
    /\ row = [k \in Identities |-> [st |-> "none", id |-> 0, c |-> None]]
    /\ draft = [i \in Ids |-> [st |-> "absent", c |-> None, head |-> Foreign,
                               by |-> "nobody", indexed |-> FALSE]]
    /\ task = [r \in Requests |-> Idle]
    /\ holder = [l \in Locks |-> None]
    /\ begun = 0
    /\ faults = 0

-----------------------------------------------------------------------------
Final == {"sent", "deleted"}

(* get_client_draft by Gmail id: at most one row, the pair being UNIQUE.   *)
Bound(i)  == {k \in Identities : row[k].id = i}
Mapped(i) == i # 0 /\ Bound(i) # {}
Owner(i)  == IF Mapped(i) THEN CHOOSE k \in Bound(i) : TRUE ELSE i

(* uq_gmail_client_drafts_account_provider: an upsert that would bind i to *)
(* a second identity fails.                                                *)
MayBind(k, i) == i = 0 \/ Bound(i) \subseteq {k}

(* upsert_client_draft: an id once bound is kept.                          *)
Upsert(k, i, c, s) ==
    row' = [row EXCEPT ![k] = [st |-> s, id |-> IF i = 0 THEN row[k].id ELSE i, c |-> c]]

SetState(k, s) == row' = [row EXCEPT ![k].st = s]

Free(l) == holder[l] = None
Released(r) == [l \in Locks |-> IF holder[l] = r THEN None ELSE holder[l]]

Goto(r, where) == task' = [task EXCEPT ![r].pc = where]

(* The request answers, or raises: its scopes release what it holds.       *)
End(r) ==
    /\ task' = [task EXCEPT ![r] = Idle]
    /\ holder' = Released(r)

(* _ClientDraftLockHandle.acquire: the Gmail draft first, if it is known.  *)
Wanted(key) == IF key = 0 THEN "client" ELSE "gmail"

(* adopt_gmail_draft_id: lets the identity go and takes both in order.     *)
AdoptHolding(r, i, next) ==
    /\ task' = [task EXCEPT ![r].id = i, ![r].key = i, ![r].pc = "gmail", ![r].then = next]
    /\ UNCHANGED holder
Adopt(r, i, next) ==
    /\ task' = [task EXCEPT ![r].id = i, ![r].key = i, ![r].pc = "gmail", ![r].then = next]
    /\ holder' = Released(r)

Fault == faults < MaxFaults /\ faults' = faults + 1

-----------------------------------------------------------------------------
(* A request arrives.  The Gmail id that selects its lock, and for a delete *)
(* or a read the identity, are read before any lock is held.               *)
Begin(r, t) ==
    /\ task[r].pc = "idle"
    /\ begun < MaxRequests
    /\ begun' = begun + 1
    /\ task' = [task EXCEPT ![r] = t]
    /\ UNCHANGED <<row, draft, holder, faults>>

Visible(i) == draft[i].st # "absent"

BeginSave(r) ==
    \E k \in Identities, c \in Contents, i \in Identities :
        /\ k = 0 \/ row[k].st # "none"
        /\ i # 0 => Visible(i)
        /\ LET key == IF i # 0 THEN i ELSE row[k].id
           IN  Begin(r, [op |-> "save", k |-> k, c |-> c, id |-> i, key |-> key,
                         pc |-> Wanted(key), then |-> "look"])

BeginSend(r) ==
    \E k \in Identities, i \in Ids :
        /\ row[k].st # "none" /\ Visible(i)
        /\ Begin(r, [op |-> "send", k |-> k, c |-> None, id |-> i, key |-> i,
                     pc |-> "gmail", then |-> "claim"])

BeginDelete(r) ==
    \E i \in Ids :
        /\ Visible(i)
        /\ Begin(r, [op |-> "delete", k |-> Owner(i), c |-> None, id |-> i, key |-> i,
                     pc |-> "gmail", then |-> "remove"])

BeginGet(r) ==
    \E i \in Ids :
        /\ Visible(i)
        /\ Begin(r, [op |-> "get", k |-> Owner(i), c |-> None, id |-> i, key |-> i,
                     pc |-> "gmail", then |-> "open"])

Acquire(r) ==
    LET t == task[r]
        l == IF t.pc = "gmail" THEN <<"gmail", t.key>> ELSE <<"client", t.k>>
    IN  /\ t.pc \in {"gmail", "client"}
        /\ Free(l)
        /\ holder' = [holder EXCEPT ![l] = r]
        /\ Goto(r, IF t.pc = "gmail" THEN "client" ELSE t.then)
        /\ UNCHANGED <<row, draft, begun, faults>>

-----------------------------------------------------------------------------
(* save_draft.                                                             *)

(* _require_mutable_draft_mapping                                          *)
MutableUnlessSending(k, i) == row[k].st # "sending"
Mutable(k, i) ==
    /\ row[k].st \notin Final \cup {"sending"}
    /\ row[k].id # 0 /\ i # 0 => row[k].id = i

(* The mapping is read under the locks; an id it knows, and the locks do   *)
(* not cover, is adopted and the mapping read again.                       *)
Look(r) ==
    LET t == task[r]
        i == IF row[t.k].id # 0 THEN row[t.k].id ELSE t.id
    IN  /\ t.pc = "look"
        /\ IF ~Mutable(t.k, t.id) THEN End(r)
           ELSE IF i # t.key THEN Adopt(r, i, "look")
           ELSE /\ task' = [task EXCEPT ![r].id = i, ![r].pc = IF i = 0 THEN "search" ELSE "prepare"]
                /\ UNCHANGED holder
        /\ UNCHANGED <<row, draft, begun, faults>>

(* find_gmail_draft_by_rfc822_message_id                                   *)
Found(k) == {i \in Ids : draft[i].st = "draft" /\ draft[i].indexed /\ draft[i].head = k}

(* A miss allows a create only when no earlier create is unconfirmed.      *)
MayCreateAlways(k) == TRUE
MayCreate(k) == row[k].st # "creating"

Search(r) ==
    LET t == task[r]
    IN  /\ t.pc = "search"
        /\ \/ \E i \in Found(t.k) : Adopt(r, i, "look")
           \/ /\ Found(t.k) = {}
              /\ IF MayCreate(t.k) THEN Goto(r, "prepare") /\ UNCHANGED holder ELSE End(r)
        /\ UNCHANGED <<row, draft, begun, faults>>

(* The bound draft is fetched; an unchanged save answers from it; the      *)
(* intention is written down before Gmail is called.                       *)
Prepare(r) ==
    LET t == task[r]
        known == t.id = 0 \/ draft[t.id].st = "draft"
        same == row[t.k].st = "saved" /\ row[t.k].c = t.c /\ row[t.k].id # 0
        fresh == row[t.k].st \in {"none", "creating", "failed"}
    IN  /\ t.pc = "prepare"
        /\ IF ~known \/ same \/ (fresh /\ ~MayBind(t.k, t.id))
           THEN End(r) /\ UNCHANGED row
           ELSE /\ IF fresh THEN Upsert(t.k, t.id, t.c, "creating") ELSE UNCHANGED row
                /\ Goto(r, "call")
                /\ UNCHANGED holder
        /\ UNCHANGED <<draft, begun, faults>>

(* Gmail numbers its drafts in the order it makes them.                    *)
NewId(i) == draft[i].st = "absent" /\ \A j \in Ids : draft[j].st = "absent" => i <= j

Stored(k, c, by) == [st |-> "draft", c |-> c, head |-> k, by |-> by, indexed |-> FALSE]

(* create_gmail_draft, answered or not.                                    *)
Create(r) ==
    LET t == task[r]
    IN  /\ t.pc = "call" /\ t.id = 0
        /\ \E i \in Ids :
              /\ NewId(i)
              /\ draft' = [draft EXCEPT ![i] = Stored(t.k, t.c, "app")]
              /\ \/ Adopt(r, i, "confirm") /\ UNCHANGED faults
                 \/ End(r) /\ Fault
        /\ UNCHANGED <<row, begun>>

(* update_gmail_draft; the identity's Message-ID replaces the old one.     *)
Update(r) ==
    LET t == task[r]
        i == t.id
    IN  /\ t.pc = "call" /\ i # 0
        /\ IF draft[i].st = "draft"
           THEN /\ draft' = [draft EXCEPT ![i] = Stored(t.k, t.c, draft[i].by)]
                /\ \/ Goto(r, "record") /\ UNCHANGED <<holder, faults>>
                   \/ LostUpdates /\ End(r) /\ Fault
           ELSE End(r) /\ UNCHANGED <<draft, faults>>
        /\ UNCHANGED <<row, begun>>

(* Gmail refuses the call: credentials or a definite 4xx.  Only a create   *)
(* is recorded as failed.                                                  *)
Refused(r) ==
    /\ task[r].pc = "call"
    /\ IF task[r].id = 0 THEN Goto(r, "reject") /\ UNCHANGED holder ELSE End(r)
    /\ Fault
    /\ UNCHANGED <<row, draft, begun>>

(* _mark_definite_create_failure                                           *)
RejectRefused(r) ==
    /\ task[r].pc = "reject"
    /\ SetState(task[r].k, "refused")
    /\ End(r)
    /\ UNCHANGED <<draft, begun, faults>>
Reject(r) ==
    /\ task[r].pc = "reject"
    /\ SetState(task[r].k, "failed")
    /\ End(r)
    /\ UNCHANGED <<draft, begun, faults>>

(* After the handoff the mapping is authoritative: a waiter may have saved *)
(* newer content, or left its own unconfirmed, under the identity alone.   *)
OvertakenNever(k, c) == FALSE
Overtaken(k, c) ==
    \/ row[k].st = "saved"
    \/ row[k].st = "creating" /\ row[k].c # c

Confirm(r) ==
    LET t == task[r]
    IN  /\ t.pc = "confirm"
        /\ IF ~Mutable(t.k, t.id)
           THEN End(r) /\ UNCHANGED row
           ELSE IF draft[t.id].st # "draft"
           THEN End(r) /\ IF MayBind(t.k, t.id) THEN Upsert(t.k, t.id, t.c, "deleted") ELSE UNCHANGED row
           ELSE IF Overtaken(t.k, t.c)
           THEN End(r) /\ UNCHANGED row
           ELSE Goto(r, "record") /\ UNCHANGED <<holder, row>>
        /\ UNCHANGED <<draft, begun, faults>>

(* The durable save boundary.                                              *)
Record(r) ==
    LET t == task[r]
    IN  /\ t.pc = "record"
        /\ IF MayBind(t.k, t.id) THEN Upsert(t.k, t.id, t.c, "saved") ELSE UNCHANGED row
        /\ End(r)
        /\ UNCHANGED <<draft, begun, faults>>

-----------------------------------------------------------------------------
(* get_draft: the mapping is read again under the locks; only a completed  *)
(* save's hash is known to match Gmail.                                    *)
KnownHashEver(k) == row[k].c
KnownHash(k) == IF row[k].st = "saved" THEN row[k].c ELSE Seen

Open(r) ==
    LET i == task[r].id
        k == IF Mapped(i) THEN Owner(i) ELSE task[r].k
    IN  /\ task[r].pc = "open"
        /\ IF (Mapped(i) /\ ~Mutable(k, i)) \/ draft[i].st # "draft"
           THEN UNCHANGED row
           ELSE Upsert(k, i, KnownHash(k), "saved")
        /\ End(r)
        /\ UNCHANGED <<draft, begun, faults>>

(* delete_draft_by_id                                                      *)
RemoveUnanswered(r) ==
    /\ task[r].pc = "remove"
    /\ Goto(r, "drop")
    /\ UNCHANGED <<row, draft, holder, begun, faults>>
Remove(r) ==
    LET i == task[r].id
    IN  /\ task[r].pc = "remove"
        /\ IF Mapped(i) /\ row[Owner(i)].st \in {"sending", "sent"}
           THEN End(r) /\ UNCHANGED <<draft, faults>>
           ELSE /\ draft' = [draft EXCEPT ![i].st = IF @ = "draft" THEN "deleted" ELSE @]
                /\ \/ Goto(r, "drop") /\ UNCHANGED <<holder, faults>>
                   \/ End(r) /\ Fault
        /\ UNCHANGED <<row, begun>>

(* mark_client_draft_deleted                                               *)
Drop(r) ==
    LET i == task[r].id
    IN  /\ task[r].pc = "drop"
        /\ IF Mapped(i) /\ row[Owner(i)].st \notin {"sending", "sent"}
           THEN SetState(Owner(i), "deleted") ELSE UNCHANGED row
        /\ End(r)
        /\ UNCHANGED <<draft, begun, faults>>

-----------------------------------------------------------------------------
(* send_saved_draft: a saved draft is claimed by mark_client_draft_sending; *)
(* one that is being sent is only searched for.                            *)
Claim(r) ==
    LET t == task[r]
        mine == row[t.k].id = t.id
    IN  /\ t.pc = "claim"
        /\ CASE mine /\ row[t.k].st = "saved" ->
                    SetState(t.k, "sending") /\ Goto(r, "deliver") /\ UNCHANGED holder
             [] mine /\ row[t.k].st = "sending" ->
                    Goto(r, "reconcile") /\ UNCHANGED <<row, holder>>
             [] OTHER -> End(r) /\ UNCHANGED row
        /\ UNCHANGED <<draft, begun, faults>>

(* send_gmail_draft turns the draft into a Sent message.                   *)
DeliverUnansweredRestores(r) ==
    /\ task[r].pc = "deliver"
    /\ draft' = [draft EXCEPT ![task[r].id].st = IF @ = "draft" THEN "sent" ELSE @]
    /\ Goto(r, "mark") \/ Goto(r, "restore")
    /\ UNCHANGED <<row, holder, begun, faults>>
Deliver(r) ==
    LET i == task[r].id
    IN  /\ task[r].pc = "deliver"
        /\ IF draft[i].st = "draft"
           THEN /\ draft' = [draft EXCEPT ![i].st = "sent", ![i].indexed = FALSE]
                /\ \/ Goto(r, "mark") /\ UNCHANGED <<holder, faults>>
                   \/ End(r) /\ Fault
           ELSE Goto(r, "reconcile") /\ UNCHANGED <<draft, holder, faults>>
        /\ UNCHANGED <<row, begun>>

(* A definite refusal; an ambiguous error leaves the row 'sending'.        *)
DeliverRefused(r) ==
    /\ task[r].pc = "deliver"
    /\ Goto(r, "restore")
    /\ Fault
    /\ UNCHANGED <<row, draft, holder, begun>>

(* restore_client_draft_after_definite_send_failure                        *)
Restore(r) ==
    /\ task[r].pc = "restore"
    /\ IF row[task[r].k].st = "sending" THEN SetState(task[r].k, "saved") ELSE UNCHANGED row
    /\ End(r)
    /\ UNCHANGED <<draft, begun, faults>>

(* _reconcile_sending_draft: one verified Sent copy settles the row.       *)
SentCopies(k) == {i \in Ids : draft[i].st = "sent" /\ draft[i].indexed /\ draft[i].head = k}

Reconcile(r) ==
    /\ task[r].pc = "reconcile"
    /\ IF Cardinality(SentCopies(task[r].k)) = 1 THEN Goto(r, "mark") /\ UNCHANGED holder ELSE End(r)
    /\ UNCHANGED <<row, draft, begun, faults>>

(* mark_client_draft_sent                                                  *)
Mark(r) ==
    /\ task[r].pc = "mark"
    /\ SetState(task[r].k, "sent")
    /\ End(r)
    /\ UNCHANGED <<draft, begun, faults>>

-----------------------------------------------------------------------------
(* A call that never reached Gmail, a database error, a lock timeout or    *)
(* the end of the process: what was committed stays, the locks go.         *)
Fail(r) ==
    /\ task[r].pc # "idle"
    /\ (task[r].pc = "record" /\ row[task[r].k].id # 0) => LostUpdates
    /\ End(r)
    /\ Fault
    /\ UNCHANGED <<row, draft, begun>>

(* Gmail's searches catch up; another client of the mailbox writes a draft. *)
Index(i) ==
    /\ draft[i].st \in {"draft", "sent"} /\ ~draft[i].indexed
    /\ draft' = [draft EXCEPT ![i].indexed = TRUE]
    /\ UNCHANGED <<row, task, holder, begun, faults>>

Compose(c) ==
    /\ \E i \in Ids : NewId(i) /\ draft' = [draft EXCEPT ![i] = Stored(Foreign, c, "other")]
    /\ UNCHANGED <<row, task, holder, begun, faults>>

Step(r) ==
    \/ BeginSave(r) \/ BeginSend(r) \/ BeginDelete(r) \/ BeginGet(r)
    \/ Acquire(r)
    \/ Look(r) \/ Search(r) \/ Prepare(r) \/ Create(r) \/ Update(r) \/ Refused(r) \/ Reject(r)
    \/ Confirm(r) \/ Record(r)
    \/ Open(r) \/ Remove(r) \/ Drop(r)
    \/ Claim(r) \/ Deliver(r) \/ DeliverRefused(r) \/ Restore(r) \/ Reconcile(r) \/ Mark(r)
    \/ Fail(r)

Next ==
    \/ \E r \in Requests : Step(r)
    \/ \E i \in Ids : Index(i)
    \/ \E c \in Contents : Compose(c)

Spec == Init /\ [][Next]_vars

-----------------------------------------------------------------------------
(* Retries of a save whose create was never answered, however they overlap *)
(* with reads, deletes and sends, never make a second Gmail draft.         *)
OneDraft == Cardinality({i \in Ids : draft[i].by = "app"}) <= 1

(* A row 'saved' with the hash of a request: Gmail's draft, if it still    *)
(* exists, has that content, except while a task is about to record a      *)
(* newer one.  save_draft answers an equal save without calling Gmail on   *)
(* the strength of this.                                                   *)
SavedMeansStored ==
    \A k \in Identities :
        row[k].st = "saved" /\ row[k].c \in Contents /\ draft[row[k].id].st = "draft"
            => \/ draft[row[k].id].c = row[k].c
               \/ \E r \in Requests : task[r].pc = "record" /\ task[r].id = row[k].id

(* A row a client may still edit, send or delete is not bound to a draft   *)
(* that was sent.                                                          *)
EditableIsUnsent ==
    \A k \in Identities :
        row[k].st \in {"creating", "saved", "failed", "deleted"} /\ row[k].id # 0
            => draft[row[k].id].st # "sent"

(* A draft recorded as deleted does not come back, nor linger at Gmail.    *)
DeletedMeansGone ==
    \A k \in Identities : row[k].st = "deleted" /\ row[k].id # 0 => draft[row[k].id].st # "draft"

(* 'sent' and 'deleted' are final, mark_client_draft_sent and              *)
(* upsert_client_draft being unconditional notwithstanding.                *)
FinalIsFinal == [][\A k \in Identities : row[k].st \in Final => row'[k].st = row[k].st]_vars

(* Requests never wait for one another in a circle: in every group of them *)
(* one waits for none of the group, as the Gmail draft's lock always comes *)
(* before the identity's (adopt_gmail_draft_id).                           *)
WaitsFor(r, s) ==
    \/ task[r].pc = "gmail" /\ holder[<<"gmail", task[r].key>>] = s
    \/ task[r].pc = "client" /\ holder[<<"client", task[r].k>>] = s
NoWaitCycle == \A S \in (SUBSET Requests) \ {{}} : \E r \in S : \A s \in S : ~WaitsFor(r, s)
=============================================================================
