---------------------------- MODULE ThreadReader ----------------------------
(***************************************************************************)
(* One conversation read while its rows change.  A reader takes it page by *)
(* page, by offset, and every page carries a revision of the whole         *)
(* conversation (db/mail_groups.py, get_gmail_thread_message_page); an     *)
(* offline replica takes it whole or not at all (api/routes/mailbox.py,    *)
(* mailbox_threads_batch).  Both requests take several transactions, and   *)
(* both store a render document they find missing before they answer.      *)
(***************************************************************************)
EXTENDS Integers, Sequences, FiniteSets, Functions

CONSTANTS Messages,     \* ids of the conversation's messages, in the order of their dates
          Undocumented, \* those stored long ago, with a body but no render document
          PageLimit,    \* messages of a reader page
          BatchLimit    \* most messages of a conversation the replica is given whole

ReaderAssumption ==
  /\ Messages \subseteq Nat /\ IsFiniteSet(Messages) /\ Undocumented \subseteq Messages
  /\ PageLimit \in Nat \ {0} /\ BatchLimit \in Nat

VARIABLES row,  \* gmail_messages: the row of each message
          req,  \* the request being served
          walk, \* what the reader has collected of the conversation
          held  \* the reader's page as a request read it before a rebuild

vars == <<row, req, walk, held>>

(* A message's row: absent, or with its body still missing, or complete,   *)
(* with or without the render document; and its content_revision.          *)
Absent == [state |-> "absent", rev |-> 0]
Gone == [state |-> "gone", rev |-> 0]
Rows == [state : {"bodiless", "undocumented", "complete"}, rev : 1..2] \cup {Absent, Gone}

Present == {m \in Messages : row[m].state \notin {"absent", "gone"}}
Incomplete(S) == {m \in S : row[m].state = "bodiless"}
ToDocument(S) == {m \in S : row[m].state = "undocumented"}
InOrder(S) == CHOOSE s \in [1..Cardinality(S) -> S] : \A i, j \in DOMAIN s : i < j => s[i] < s[j]

CountOnly == Cardinality(Present)

(* The revision of a conversation: a digest of its ids and their revisions.*)
Revision == {<<m, row[m].rev>> : m \in Present}

NoRequest == [kind |-> "none", step |-> "none", size |-> 0, page |-> <<>>, of |-> {},
              bodies |-> {}, answer |-> "none", stale |-> {}]
NoWalk == [offset |-> 0, seen |-> <<>>, revisions |-> {}, first |-> {}, done |-> FALSE]

TypeOK ==
  /\ row \in [Messages -> Rows]
  /\ req.kind \in {"none", "page", "batch"}
  /\ req.step \in {"none", "read", "rebuild", "reread", "answered"}
  /\ req.page \in Seq(Messages) /\ req.of \subseteq Messages
  /\ req.answer \in {"none", "missing", "pending", "whole"}
  /\ \A w \in {walk, held} : w.seen \in Seq(Messages) /\ w.offset \in Nat

Init ==
  /\ row = [m \in Messages |-> IF m \in Undocumented
                                 THEN [state |-> "undocumented", rev |-> 1] ELSE Absent]
  /\ req = NoRequest
  /\ walk = NoWalk
  /\ held = NoWalk

---------------------------------------------------------------------------
(* The rest of the system: a message is stored, with its body or without,  *)
(* anywhere in the conversation; a body is fetched; a message is deleted.  *)
Stored(m) ==
  /\ row[m] = Absent
  /\ \E s \in {"bodiless", "complete"} : row' = [row EXCEPT ![m] = [state |-> s, rev |-> 1]]
  /\ UNCHANGED <<req, walk, held>>

BodyFetched(m) ==
  /\ row[m].state = "bodiless"
  /\ row' = [row EXCEPT ![m] = [state |-> "complete", rev |-> row[m].rev + 1]]
  /\ UNCHANGED <<req, walk, held>>

Deleted(m) ==
  /\ m \in Present
  /\ row' = [row EXCEPT ![m] = Gone]
  /\ UNCHANGED <<req, walk, held>>

---------------------------------------------------------------------------
(* A request for the next page of the reader, one statement: the messages  *)
(* at the offset, how many there are, and the revision of all of them.     *)
Page == SubSeq(InOrder(Present), walk.offset + 1,
               IF walk.offset + PageLimit < Cardinality(Present)
                 THEN walk.offset + PageLimit ELSE Cardinality(Present))

Collected(page) ==
  [walk EXCEPT !.seen = @ \o page,
               !.offset = @ + PageLimit,
               !.revisions = @ \cup {Revision},
               !.first = IF walk.offset = 0 THEN Present ELSE @,
               !.done = walk.offset + Len(page) >= Cardinality(Present)]

ReadPage ==
  /\ req = NoRequest /\ ~walk.done
  /\ IF Present = {}                       \* 404
       THEN walk' = NoWalk /\ UNCHANGED <<req, held>>
       ELSE LET stale == ToDocument(Range(Page))
            IN IF stale = {}
                 THEN walk' = Collected(Page) /\ UNCHANGED <<req, held>>
                 ELSE /\ req' = [NoRequest EXCEPT !.kind = "page", !.step = "rebuild",
                                                  !.stale = stale]
                      /\ held' = Collected(Page) /\ walk' = walk
  /\ UNCHANGED row

(* _rebuild_missing_render_documents parses the payload read before and    *)
(* upserts the row: a row deleted since is inserted anew.                  *)
Rebuilt(m) ==
  CASE row[m].state = "undocumented" -> [state |-> "complete", rev |-> row[m].rev + 1]
    [] row[m] = Gone                 -> [state |-> "complete", rev |-> 1]
    [] OTHER                         -> row[m]

Rebuild ==
  /\ req.step = "rebuild"
  /\ row' = [m \in Messages |-> IF m \in req.stale THEN Rebuilt(m) ELSE row[m]]
  /\ req' = [req EXCEPT !.step = "reread"]
  /\ UNCHANGED <<walk, held>>

(* The page is read again after the rebuild; if nothing is left of the     *)
(* conversation the first reading is the answer.                           *)
RereadPage ==
  /\ req.kind = "page" /\ req.step = "reread"
  /\ walk' = IF Present # {} THEN Collected(Page) ELSE held
  /\ req' = NoRequest /\ held' = NoWalk
  /\ UNCHANGED row

(* The reader leaves the conversation, or starts over.                     *)
LeaveReader ==
  /\ req = NoRequest /\ walk # NoWalk
  /\ walk' = NoWalk
  /\ UNCHANGED <<row, req, held>>

---------------------------------------------------------------------------
(* The replica's request.  First the sizes of the conversation, without    *)
(* its bodies: nothing there, not ready or too large, or worth reading.    *)
Preflight ==
  /\ req = NoRequest
  /\ req' = [NoRequest EXCEPT
               !.kind = "batch",
               !.size = Cardinality(Present),
               !.step = IF Present = {} \/ Incomplete(Present) # {}
                             \/ Cardinality(Present) > BatchLimit
                          THEN "answered" ELSE "read",
               !.answer = IF Present = {} THEN "missing"
                          ELSE IF Incomplete(Present) # {} \/ Cardinality(Present) > BatchLimit
                          THEN "pending" ELSE "none"]
  /\ UNCHANGED <<row, walk, held>>

NeverMore(found, size) == FALSE

(* detail.has_more: the conversation grew past the size the preflight saw. *)
HasMore(found, size) == Cardinality(found) > size

(* The messages, if they fit, all in one statement.                        *)
Fitting == IF Cardinality(Present) <= BatchLimit THEN Present ELSE {}

Answer(found, bodies) ==
  LET page == SubSeq(InOrder(found), 1,
                     IF Cardinality(found) < req.size THEN Cardinality(found) ELSE req.size)
      whole == found # {} /\ ~HasMore(found, req.size) /\ Range(page) \subseteq bodies
  IN [req EXCEPT !.step = "answered",
                 !.page = IF whole THEN page ELSE <<>>,
                 !.of = found,
                 !.bodies = bodies,
                 !.answer = IF whole THEN "whole" ELSE "pending"]

ReadWhole ==
  /\ req.kind = "batch" /\ req.step = "read"
  /\ LET stale == ToDocument(Fitting)
         bodies == Fitting \ Incomplete(Fitting)
     IN req' = IF stale = {} THEN Answer(Fitting, bodies)
               ELSE [req EXCEPT !.step = "rebuild", !.stale = stale,
                                !.of = Fitting, !.bodies = bodies]
  /\ UNCHANGED <<row, walk, held>>

(* Read again after a rebuild; what was read first stands if nothing fits. *)
RereadWhole ==
  /\ req.kind = "batch" /\ req.step = "reread"
  /\ req' = IF Fitting # {} THEN Answer(Fitting, Fitting \ Incomplete(Fitting))
            ELSE Answer(req.of, req.bodies)
  /\ UNCHANGED <<row, walk, held>>

Answered ==
  /\ req.step = "answered"
  /\ req' = NoRequest
  /\ UNCHANGED <<row, walk, held>>

Next ==
  \/ \E m \in Messages : Stored(m) \/ BodyFetched(m) \/ Deleted(m)
  \/ ReadPage \/ Rebuild \/ RereadPage \/ LeaveReader
  \/ Preflight \/ ReadWhole \/ RereadWhole \/ Answered

Spec == Init /\ [][Next]_vars

---------------------------------------------------------------------------
(* A reader that has collected a conversation page by page, every page     *)
(* under the same revision, holds each message it had at the first page,   *)
(* once, although offsets shift whenever a message is stored or deleted.   *)
OneRevisionOneThread ==
  walk.done /\ Cardinality(walk.revisions) = 1 =>
    walk.seen = InOrder(walk.first)

(* A conversation given to the replica as whole has every message of one   *)
(* moment of the request and all their bodies, whatever was stored or      *)
(* deleted between the preflight and the read.                             *)
WholeIsWhole ==
  req.answer = "whole" => /\ Range(req.page) = req.of
                          /\ req.of \subseteq req.bodies
                          /\ Len(req.page) <= BatchLimit
=============================================================================
