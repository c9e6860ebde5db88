---------------------------- MODULE MailboxPages ----------------------------
(***************************************************************************)
(* One mailbox (a label) listed page by page while mail changes under it.  *)
(* The list has two orders.  Gmail's own order is copied by refresh jobs   *)
(* (services/gmail_importer.py, refresh_gmail_thread_order) into a         *)
(* generation of ranks, of which the active one and the one before it are  *)
(* kept (db/mail_groups.py, replace_gmail_thread_orders).  The date order  *)
(* is the fall-back while the active generation does not rank every        *)
(* conversation.  A page request runs two transactions: the first picks    *)
(* the order, the second reads the page (list_mailbox_thread_page), and    *)
(* the cursor it hands out pins that order for the pages to come.          *)
(***************************************************************************)
EXTENDS Integers, Sequences, FiniteSets

CONSTANTS Threads,     \* conversation keys, compared like the ids they are
          LastDate,    \* bound: the newest date a conversation can get
          LastOrder,   \* bound: how many generations are ever published
          PageSize     \* conversations of a page

PagesAssumption ==
  /\ Threads \subseteq Nat /\ IsFiniteSet(Threads)
  /\ LastDate \in Nat \ {0} /\ LastOrder \in Nat /\ PageSize \in Nat \ {0}

VARIABLES at,      \* gmail_messages: the newest date of each conversation of the
                   \* label, 0 for one that is not in it
          ranks,   \* gmail_thread_order_entries: generation -> its conversations in order
          order,   \* gmail_thread_order_state: the active and the previous generation
          walk     \* the reader paging through the mailbox

vars == <<at, ranks, order, walk>>

NoOrder == 0
Listed == {t \in Threads : at[t] > 0}

(* fixed holds the conversations that were there when the reader opened    *)
(* the mailbox and that no synchronisation has touched since.              *)
Closed == [pc |-> "closed", gen |-> NoOrder, cursor |-> <<>>, seen |-> <<>>,
           fixed |-> {}, outrun |-> FALSE]

TypeOK ==
  /\ at \in [Threads -> 0..LastDate]
  /\ DOMAIN ranks \subseteq 1..LastOrder
  /\ \A g \in DOMAIN ranks : ranks[g] \in Seq(Threads)
  /\ order \in [active : 0..LastOrder, previous : 0..LastOrder, last : 0..LastOrder]
  /\ walk.pc \in {"closed", "resolve", "fetch", "done"}
  /\ walk.seen \in Seq(Threads) /\ walk.fixed \subseteq Threads

Init ==
  /\ at \in [Threads -> 0..1]
  /\ ranks = <<>>
  /\ order = [active |-> NoOrder, previous |-> NoOrder, last |-> NoOrder]
  /\ walk = Closed

---------------------------------------------------------------------------
(* The synchronisation writes a message newer than every other into a      *)
(* conversation, or takes the conversation out of the label.               *)
MailSynced(t) ==
  /\ \/ \E d \in 1..LastDate :
          /\ \A u \in Threads : at[u] < d
          /\ \E u \in Threads : at[u] = d - 1
          /\ at' = [at EXCEPT ![t] = d]
     \/ at[t] # 0 /\ at' = [at EXCEPT ![t] = 0]
  /\ walk' = [walk EXCEPT !.fixed = @ \ {t}]
  /\ UNCHANGED <<ranks, order>>

(* What a refresh job's walk through messages.list can have collected by   *)
(* the time it is published: the first message of each conversation gives  *)
(* its rank, and a conversation that moved between two of the many calls   *)
(* may be missing or out of place.                                         *)
Listings ==
  {s \in UNION {[1..n -> Threads] : n \in Cardinality(Threads) - 1 .. Cardinality(Threads)} :
     \A i, j \in DOMAIN s : i # j => s[i] # s[j]}

KeptOne(new, previous) == {new}

(* The generations replace_gmail_thread_orders keeps.                      *)
Kept(new, previous) == {new, previous} \ {NoOrder}

(* One transaction under the label's advisory lock publishes a generation, *)
(* keeps the one it replaces for the cursors already handed out, and       *)
(* deletes the ranks of every other.                                       *)
RefreshPublishes ==
  /\ order.last < LastOrder
  /\ LET new == order.last + 1
     IN /\ order' = [active |-> new, previous |-> order.active, last |-> new]
        /\ \E listing \in Listings :
             ranks' = [g \in Kept(new, order.active) |-> IF g = new THEN listing ELSE ranks[g]]
  /\ UNCHANGED <<at, walk>>

---------------------------------------------------------------------------
(* The reader.                                                             *)

OpenMailbox ==
  /\ walk.pc = "closed"
  /\ walk' = [Closed EXCEPT !.pc = "resolve", !.fixed = Listed]
  /\ UNCHANGED <<at, ranks, order>>

NothingMissing == FALSE

(* A conversation of the label that the active generation does not rank.   *)
MissingRank == \E t \in Listed : \A i \in DOMAIN ranks[order.active] :
                 ranks[order.active][i] # t

(* First transaction of a request without a cursor: Gmail's order when the *)
(* active generation ranks everything, the date order otherwise.           *)
ResolveFirst ==
  /\ walk.pc = "resolve" /\ walk.cursor = <<>>
  /\ walk' = [walk EXCEPT !.pc = "fetch",
                !.gen = IF order.active = NoOrder THEN NoOrder
                        ELSE IF MissingRank THEN NoOrder ELSE order.active]
  /\ UNCHANGED <<at, ranks, order>>

(* First transaction of a request with a cursor of Gmail's order: a        *)
(* generation that is no longer kept is answered with an error, and the    *)
(* client reloads the mailbox.                                             *)
ResolveCursor ==
  /\ walk.pc = "resolve" /\ walk.cursor # <<>>
  /\ walk' = IF walk.gen \in {order.active, order.previous}
               THEN [walk EXCEPT !.pc = "fetch"] ELSE Closed
  /\ UNCHANGED <<at, ranks, order>>

BelowDateLoosely(cursor) ==
  {t \in Listed : cursor = <<>> \/ at[t] <= cursor[1]}

(* The conversations below a date cursor.                                  *)
BelowDate(cursor) ==
  {t \in Listed :
     cursor = <<>> \/ at[t] < cursor[1] \/ (at[t] = cursor[1] /\ t < cursor[2])}

(* The conversations of the label ranked below a cursor of Gmail's order;  *)
(* none when the ranks of that generation were deleted since the cursor    *)
(* was resolved.                                                           *)
BelowRank(gen, cursor) ==
  {t \in Listed : gen \in DOMAIN ranks /\ \E i \in DOMAIN ranks[gen] :
     ranks[gen][i] = t /\ (cursor = <<>> \/ i > cursor[1])}

Ahead == IF walk.gen = NoOrder THEN BelowDate(walk.cursor) ELSE BelowRank(walk.gen, walk.cursor)

(* The order of the walk: newest first, the larger key first among equals, *)
(* or the ranks of the walk's generation.                                  *)
Rank(t) == CHOOSE i \in DOMAIN ranks[walk.gen] : ranks[walk.gen][i] = t
Newer(t, u) == at[t] > at[u] \/ (at[t] = at[u] /\ t > u)
Precedes(t, u) == IF walk.gen = NoOrder THEN Newer(t, u) ELSE Rank(t) < Rank(u)
Sorted(S) == CHOOSE s \in [1..Cardinality(S) -> S] : \A i, j \in DOMAIN s : i < j => Precedes(s[i], s[j])

(* The cursor after a conversation: its date or its rank, and its key.     *)
CursorAfter(last) ==
  IF walk.gen = NoOrder THEN <<at[last], last>> ELSE <<Rank(last), last>>

(* Second transaction: the page, read with one conversation more to know   *)
(* whether to hand out a cursor.                                           *)
FetchPage ==
  /\ walk.pc = "fetch"
  /\ LET rest == Sorted(Ahead)
         page == SubSeq(rest, 1, IF Len(rest) < PageSize THEN Len(rest) ELSE PageSize)
         more == Len(rest) > PageSize
     IN walk' = [walk EXCEPT
                   !.seen = @ \o page,
                   !.cursor = IF more THEN CursorAfter(page[Len(page)]) ELSE @,
                   !.outrun = @ \/ walk.gen \notin {NoOrder, order.active, order.previous},
                   !.pc = IF ~more THEN "done"
                          ELSE IF walk.gen = NoOrder THEN "fetch" ELSE "resolve"]
  /\ UNCHANGED <<at, ranks, order>>

CloseMailbox ==
  /\ walk.pc = "done"
  /\ walk' = Closed
  /\ UNCHANGED <<at, ranks, order>>

Next ==
  \/ \E t \in Threads : MailSynced(t)
  \/ RefreshPublishes
  \/ OpenMailbox \/ ResolveFirst \/ ResolveCursor \/ FetchPage \/ CloseMailbox

Spec == Init /\ [][Next]_vars

---------------------------------------------------------------------------
(* The list a reader has paged through to its end holds every conversation *)
(* that was there when the reader opened the mailbox and that no           *)
(* synchronisation touched since, whichever order the pages came in and    *)
(* however many generations were published meanwhile.  Exempt is a request *)
(* between whose two transactions two generations are published: its page  *)
(* comes back empty and without a cursor.                                  *)
NothingSkipped ==
  walk.pc = "done" /\ ~walk.outrun =>
    \A t \in walk.fixed : \E i \in DOMAIN walk.seen : walk.seen[i] = t

(* No conversation is listed twice: never in Gmail's order, and in the     *)
(* date order only one that a synchronisation moved during the walk.       *)
ShownOnce ==
  \A i, j \in DOMAIN walk.seen :
    (i # j /\ walk.seen[i] = walk.seen[j]) =>
      (walk.gen = NoOrder /\ walk.seen[i] \notin walk.fixed)
=============================================================================
