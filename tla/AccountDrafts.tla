---------------------------- MODULE AccountDrafts ----------------------------
(***************************************************************************)
(* One client draft of an additional Gmail account: save_draft,            *)
(* delete_draft and send_draft (backend/app/services/account_mailbox_      *)
(* writes.py) and its gmail_client_drafts row (backend/app/db/account_     *)
(* mail.py).  Unlike ClientDrafts, requests take no lock: each reads the   *)
(* row, calls Gmail and writes the row.                                    *)
(***************************************************************************)
EXTENDS Naturals

CONSTANTS
    Requests,   \* the client's requests, each one of any kind
    NoDraft     \* no gmail_draft_id

Drafts == Requests       \* a Gmail draft is known by the request that created it

VARIABLES
    row,      \* the row: its gmail_draft_id and its state, "none" without a row
    live,     \* drafts Gmail has
    copies,   \* mails Gmail sent from them
    request,  \* [Requests -> what it does, where it is, the id it works on]
    forked    \* history: two first saves that knew nothing of each other

vars == <<row, live, copies, request, forked>>

TypeOK ==
    /\ row \in [id : Drafts \cup {NoDraft}, state : {"none", "saved", "deleted", "sent"}]
    /\ live \subseteq Drafts /\ copies \in Nat /\ forked \in BOOLEAN
    /\ request \in [Requests -> [kind : {"save", "delete", "send"}, pc : {"new", "call", "write", "done", "failed"},
                                 id : Drafts \cup {NoDraft}, first : BOOLEAN]]

Init ==
    /\ row = [id |-> NoDraft, state |-> "none"]
    /\ live = {} /\ copies = 0 /\ forked = FALSE
    /\ request \in [Requests -> [kind : {"save", "delete", "send"}, pc : {"new"}, id : {NoDraft}, first : {FALSE}]]

-----------------------------------------------------------------------------
At(r, kind, pc) == request[r].kind = kind /\ request[r].pc = pc
Goto(r, pc) == request' = [request EXCEPT ![r].pc = pc]
Target(r) == request[r].id

(* get_draft: deleting and sending need a row with a Gmail draft.             *)
Read(r) ==
    /\ request[r].pc = "new"
    /\ request' = [request EXCEPT ![r].id = row.id, ![r].first = (row.id = NoDraft),
                     ![r].pc = IF request[r].kind # "save" /\ row.id = NoDraft THEN "failed" ELSE "call"]
    /\ UNCHANGED <<row, live, copies, forked>>

(* drafts().create, or update of the draft the row named; an answer may be    *)
(* lost, and a draft that is gone cannot be updated.                        *)
AlwaysCreates(r) == TRUE
Creates(r) == Target(r) = NoDraft
CallSave(r) ==
    /\ At(r, "save", "call")
    /\ IF Creates(r)
         THEN /\ live' = live \cup {r}
              /\ \/ request' = [request EXCEPT ![r].pc = "write", ![r].id = r]
                 \/ Goto(r, "failed")
         ELSE Goto(r, IF Target(r) \in live THEN "write" ELSE "failed") /\ UNCHANGED live
    /\ UNCHANGED <<row, copies, forked>>

(* upsert_draft: 'saved' with the id Gmail gave.                             *)
WriteSave(r) ==
    /\ At(r, "save", "write")
    /\ row' = [id |-> Target(r), state |-> "saved"]
    /\ forked' = (forked \/ (request[r].first /\ row.id \notin {NoDraft, Target(r)}))
    /\ Goto(r, "done")
    /\ UNCHANGED <<live, copies>>

(* drafts().delete.                                                         *)
Undeleted(id) == live
Deleted(id) == live \ {id}
CallDelete(r) ==
    /\ At(r, "delete", "call")
    /\ IF Target(r) \in live
         THEN live' = Deleted(Target(r)) /\ (Goto(r, "write") \/ Goto(r, "failed"))
         ELSE Goto(r, "failed") /\ UNCHANGED live
    /\ UNCHANGED <<row, copies, forked>>

(* drafts().send: Gmail sends a draft it has, and then it is one no more.     *)
CallSend(r) ==
    /\ At(r, "send", "call")
    /\ IF Target(r) \in live
         THEN /\ live' = live \ {Target(r)}
              /\ copies' = copies + 1
              /\ Goto(r, "write") \/ Goto(r, "failed")
         ELSE Goto(r, "failed") /\ UNCHANGED <<live, copies>>
    /\ UNCHANGED <<row, forked>>

(* update_draft_state, whatever the row says by now.                         *)
WriteState(r) ==
    /\ request[r].kind # "save" /\ request[r].pc = "write"
    /\ row' = [row EXCEPT !.state = IF request[r].kind = "send" THEN "sent" ELSE "deleted"]
    /\ Goto(r, "done")
    /\ UNCHANGED <<live, copies, forked>>

Next ==
    \E r \in Requests : Read(r) \/ CallSave(r) \/ WriteSave(r) \/ CallDelete(r) \/ CallSend(r) \/ WriteState(r)

Spec == Init /\ [][Next]_vars

-----------------------------------------------------------------------------
(* However saves, deletions, sends and their retries after lost answers       *)
(* overlap, a draft is sent once, unless two first saves created two of it.   *)
DraftSentOnce == copies > 1 => forked

(* A draft the row calls deleted or sent is none of Gmail's any more, again    *)
(* unless two first saves created two.                                      *)
EndedIsGone == row.state \in {"deleted", "sent"} /\ ~forked => row.id \notin live

=============================================================================
