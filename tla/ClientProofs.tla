----------------------------- MODULE ClientProofs -----------------------------
(***************************************************************************)
(* Theorems about the five parts of MC_Client.                             *)
(*                                                                         *)
(* The delivery of one mail (PendingSend), for every number of requests,   *)
(* workers, faults and attempts: at most one copy, conclusive failures,    *)
(* and refinement of AtMostOnceDelivery.  The hypothesis ~StaleRejection   *)
(* is needed: without it a refused search turns a sent mail into one that  *)
(* may be sent again.  With it, an attempt records a refusal only when     *)
(* Gmail refused the very send it had claimed.  The inductive invariant    *)
(* says what a claim is worth: between claim_pending_send and the answer   *)
(* the row is 'sending', no copy exists, and one attempt holds the claim.  *)
(*                                                                         *)
(* Notices of new mail (PushDelivery, the part P), for every number of     *)
(* messages, devices, sessions, tokens, attempts and crashes: none is lost *)
(* by a sync that dies, none leaves a purged account, and a token the app  *)
(* refreshed is not disabled for the one it replaced.                      *)
(*                                                                         *)
(* Searches carried on at Gmail (RemoteSearch, the part S), for every      *)
(* chain of page tokens, loops included, and every number of tokens,       *)
(* workers, continuations and crashes: a search nobody works on any more   *)
(* has announced all that its pages hold.  What is still to be fetched is  *)
(* covered by the jobs that remain; that a page no job covers is announced *)
(* follows for every page at once from the set of pages closed under       *)
(* "next", and not by counting along the chain.                            *)
(*                                                                         *)
(* Conversations read (ThreadReader, the part R) and mailboxes listed      *)
(* (MailboxPages, the part L), for every number of messages, of            *)
(* conversations, of generations and every page size: the pages of one     *)
(* revision make the conversation, what is given as whole is whole, and a  *)
(* list misses nothing and shows nothing twice.  Both rest on lemmas about *)
(* lists of a finite set in the order of a relation.                       *)
(***************************************************************************)
EXTENDS MC_Client, Sequences, FiniteSetTheorems, WellFoundedInduction, TLAPS

(* The attempts whose claim is unresolved: the send, or its refusal, is    *)
(* still to come.                                                          *)
Claiming == {"send", "reject"}

ClaimsUnresolved ==
    \A a \in Actors : pc[a] \in Claiming => state = "sending" /\ copies = 0

ClaimIsExclusive ==
    \A a, b \in Actors : pc[a] \in Claiming /\ pc[b] \in Claiming => a = b

FinalizeIsTrue ==
    \A a \in Actors : pc[a] = "finalize" => copies = 1

CopiesMatchState ==
    /\ copies <= 1 /\ indexed <= copies
    /\ state \in {"none", "queued", "failed"} => copies = 0
    /\ state = "sent" => copies = 1

IInv == TypeOK /\ ClaimsUnresolved /\ ClaimIsExclusive /\ FinalizeIsTrue /\ CopiesMatchState

(* The conjuncts of IInv that a step leaving state, copies and indexed     *)
(* alone can disturb: no attempt may newly enter a claim or a finalize.    *)
QuietFor(a) ==
    /\ UNCHANGED <<state, copies, indexed>>
    /\ \A b \in Actors : b # a => pc'[b] = pc[b]
    /\ pc'[a] \notin Claiming \cup {"finalize"}

-----------------------------------------------------------------------------

(* The job row's updates keep its shape.                                   *)
LEMMA NoJobTyped == NoJob \in JobRows
  BY DEF NoJob, JobRows

LEMMA NewJobTyped == NewJob \in JobRows
  BY DEF NewJob, JobRows

LEMMA JobUpdateTyped ==
    ASSUME job \in JobRows
    PROVE  /\ [job EXCEPT !.lapsed = TRUE] \in JobRows
           /\ [job EXCEPT !.st = "queued", !.owner = NoWorker, !.lapsed = FALSE] \in JobRows
           /\ \A w \in Workers :
                 [st |-> "running", n |-> job.n + 1, owner |-> w, lapsed |-> FALSE] \in JobRows
<1>1. [job EXCEPT !.lapsed = TRUE] \in JobRows
  BY DEF JobRows
<1>2. [job EXCEPT !.st = "queued", !.owner = NoWorker, !.lapsed = FALSE] \in JobRows
  BY DEF JobRows
<1>3. ASSUME NEW w \in Workers
      PROVE  [st |-> "running", n |-> job.n + 1, owner |-> w, lapsed |-> FALSE] \in JobRows
  <2>1. job.n + 1 \in Nat
    BY DEF JobRows
  <2> QED
    BY <2>1 DEF JobRows
<1> QED
  BY <1>1, <1>2, <1>3

(* Every attempt's end moves it to a place outside the provider calls.     *)
LEMMA EndTyped ==
    ASSUME TypeOK, NEW a \in Actors,
           NEW o \in {"complete", "retry", "cancel", "auth"}, End(a, o)
    PROVE  /\ pc' \in [Actors -> Locked \cup {"idle", "enter", "reject", "finish"}]
           /\ outcome' \in [Workers -> {"complete", "retry", "cancel", "auth"}]
           /\ \A b \in Actors : b # a => pc'[b] = pc[b]
           /\ pc'[a] \in {"idle", "finish"}
  BY DEF TypeOK, End, Actors, Locked

(* A move of one attempt, in the same terms.                               *)
LEMMA GotoTyped ==
    ASSUME TypeOK, NEW a \in Actors,
           NEW where \in Locked \cup {"idle", "enter", "reject", "finish"}, Goto(a, where)
    PROVE  /\ pc' \in [Actors -> Locked \cup {"idle", "enter", "reject", "finish"}]
           /\ outcome' \in [Workers -> {"complete", "retry", "cancel", "auth"}]
           /\ \A b \in Actors : b # a => pc'[b] = pc[b]
           /\ pc'[a] = where
  BY DEF TypeOK, Goto

LEMMA EndWithTyped ==
    ASSUME TypeOK, NEW a \in Actors, NEW s, EndWith(a, s)
    PROVE  \E o \in {"complete", "retry", "cancel", "auth"} : End(a, o)
  BY DEF EndWith

(* A step that is quiet keeps the invariant: nobody gains a claim.         *)
LEMMA QuietKeepsIInv ==
    ASSUME IInv, TypeOK', NEW a \in Actors, QuietFor(a)
    PROVE  IInv'
  BY DEF IInv, QuietFor, Claiming, ClaimsUnresolved, ClaimIsExclusive, FinalizeIsTrue,
         CopiesMatchState, TypeOK, Locked

(* The empty outbox satisfies the invariant.                               *)
LEMMA InitIInv == Init => IInv
<1> SUFFICES ASSUME Init PROVE IInv
  OBVIOUS
<1>1. TypeOK
  BY NoJobTyped DEF Init, TypeOK, Locked
<1>2. ClaimsUnresolved /\ ClaimIsExclusive /\ FinalizeIsTrue
  BY DEF Init, ClaimsUnresolved, ClaimIsExclusive, FinalizeIsTrue, Claiming
<1>3. CopiesMatchState
  BY DEF Init, CopiesMatchState
<1> QED
  BY <1>1, <1>2, <1>3 DEF IInv

(* Types.  The attempts' moves are typed by EndTyped and GotoTyped; the    *)
(* rest is one case per action.                                            *)
LEMMA AdvanceKeepsType ==
  ASSUME TypeOK, NEW a \in Actors, Advance(a)
  PROVE  TypeOK'
<1> USE DEF TypeOK
<1>1. CASE Enter(a)
  BY <1>1, EndTyped, GotoTyped DEF Enter, EndWith, Locked
<1>2. CASE SearchMisses(a)
  BY <1>2, EndTyped, GotoTyped DEF SearchMisses, EndWith, Locked
<1>3. CASE SearchFinds(a)
  BY <1>3, EndTyped, GotoTyped DEF SearchFinds, EndWith, Locked
<1>4. CASE SearchFails(a)
  BY <1>4, EndTyped, GotoTyped DEF SearchFails, EndWith, Locked
<1>5. CASE Enqueue(a)
  BY <1>5, EndTyped, GotoTyped, NewJobTyped DEF Enqueue, EndWith, Locked
<1>6. CASE Claim(a)
  BY <1>6, EndTyped, GotoTyped DEF Claim, EndWith, Locked
<1>7. CASE SendAccepted(a)
  BY <1>7, EndTyped, GotoTyped DEF SendAccepted, EndWith, Locked
<1>8. CASE SendUnanswered(a)
  BY <1>8, EndTyped, GotoTyped DEF SendUnanswered, EndWith, Locked
<1>9. CASE SendRefused(a)
  BY <1>9, EndTyped, GotoTyped DEF SendRefused, EndWith, Locked
<1>10. CASE Finalize(a)
  BY <1>10, EndTyped, GotoTyped DEF Finalize, MarkSent, EndWith, Locked
<1>11. CASE Reject(a)
  BY <1>11, EndTyped, GotoTyped DEF Reject, EndWith, Locked
<1>12. CASE Unavailable(a)
  BY <1>12, EndTyped, GotoTyped DEF Unavailable, EndWith, Locked
<1>13. CASE \E where \in {"enter", "enqueue", "claim", "finalize", "reject"} : Blocked(a, where)
  BY <1>13, EndTyped DEF Blocked
<1> QED
  BY <1>1, <1>2, <1>3, <1>4, <1>5, <1>6, <1>7, <1>8, <1>9, <1>10, <1>11, <1>12, <1>13 DEF Advance

LEMMA TypePreserved == TypeOK /\ [Next]_vars => TypeOK'
<1> SUFFICES ASSUME TypeOK, [Next]_vars PROVE TypeOK'
  OBVIOUS
<1>1. ASSUME NEW c \in Callers, Request(c) PROVE TypeOK'
  BY <1>1, GotoTyped DEF Request, Upserted, TypeOK, Actors, Locked
<1>2. ASSUME NEW w \in Workers, Pick(w) PROVE TypeOK'
  BY <1>2, GotoTyped, JobUpdateTyped DEF Pick, TypeOK, Actors, Locked
<1>3. ASSUME NEW w \in Workers, FinishJob(w) PROVE TypeOK'
  BY <1>3, GotoTyped, JobUpdateTyped, NoJobTyped DEF FinishJob, TypeOK, Actors
<1>4. ASSUME NEW a \in Actors, Advance(a) PROVE TypeOK'
  BY <1>4, AdvanceKeepsType
<1>5. ASSUME NEW a \in Actors, Crash(a) PROVE TypeOK'
  BY <1>5, GotoTyped DEF Crash, TypeOK
<1>6. CASE Index
  BY <1>6 DEF Index, TypeOK
<1>7. CASE Lapse
  BY <1>7, JobUpdateTyped DEF Lapse, TypeOK
<1>8. CASE Disconnect
  <2>1. job' \in JobRows
    BY <1>8, NoJobTyped DEF Disconnect
  <2>2. faults' \in Nat
    BY <1>8 DEF Disconnect, TypeOK
  <2>3. allowed' \in BOOLEAN
    BY <1>8, Zenon DEF Disconnect
  <2>4. UNCHANGED <<state, copies, indexed, pc, seen, outcome>>
    BY <1>8 DEF Disconnect
  <2> QED
    BY <2>1, <2>2, <2>3, <2>4 DEF TypeOK
<1>9. CASE Reconnect
  BY <1>9 DEF Reconnect, TypeOK
<1>10. CASE UNCHANGED vars
  BY <1>10 DEF vars, TypeOK
<1> QED
  BY <1>1, <1>2, <1>3, <1>4, <1>5, <1>6, <1>7, <1>8, <1>9, <1>10 DEF Next

-----------------------------------------------------------------------------
(* The invariant, one action at a time.                                    *)

(* The steps of an attempt that change no row, copy or index and enter     *)
(* neither a claim nor a finalize.                                         *)
LEMMA QuietAdvance ==
  ASSUME IInv, NEW a \in Actors,
         \/ Enter(a) \/ SearchMisses(a) \/ Enqueue(a) \/ Unavailable(a)
         \/ SendUnanswered(a) /\ copies' = copies
         \/ \E where \in {"enter", "enqueue", "claim", "finalize", "reject"} : Blocked(a, where)
  PROVE  QuietFor(a)
<1>1. TypeOK
  BY DEF IInv
<1>2. CASE Enter(a)
  BY <1>1, <1>2, EndTyped, GotoTyped DEF Enter, EndWith, QuietFor, Claiming, Locked, NeedsSearch
<1>3. CASE SearchMisses(a)
  BY <1>1, <1>3, EndTyped, GotoTyped DEF SearchMisses, EndWith, QuietFor, Claiming, Locked
<1>4. CASE Enqueue(a)
  BY <1>1, <1>4, GotoTyped DEF Enqueue, QuietFor, Claiming, Locked
<1>5. CASE Unavailable(a)
  BY <1>1, <1>5, EndTyped DEF Unavailable, QuietFor, Claiming
<1>6. CASE SendUnanswered(a) /\ copies' = copies
  BY <1>1, <1>6, EndTyped DEF SendUnanswered, QuietFor, Claiming
<1>7. CASE \E where \in {"enter", "enqueue", "claim", "finalize", "reject"} : Blocked(a, where)
  BY <1>1, <1>7, EndTyped DEF Blocked, QuietFor, Claiming
<1> QED
  BY <1>2, <1>3, <1>4, <1>5, <1>6, <1>7

(* A found copy is the only one, so the finalize it leads to is true.      *)
LEMMA SearchKeepsIInv ==
  ASSUME IInv, TypeOK', ~StaleRejection, NEW a \in Actors, SearchFinds(a) \/ SearchFails(a)
  PROVE  IInv'
<1>1. TypeOK
  BY DEF IInv
<1>2. CASE SearchFinds(a)
  <2>1. /\ \A b \in Actors : b # a => pc'[b] = pc[b]
        /\ pc'[a] = "finalize"
    BY <1>1, <1>2, GotoTyped DEF SearchFinds, Locked
  <2>2. copies = 1 /\ UNCHANGED <<state, copies, indexed>>
    BY <1>1, <1>2 DEF SearchFinds, IInv, CopiesMatchState, TypeOK
  <2> QED
    BY <2>1, <2>2 DEF IInv, ClaimsUnresolved, ClaimIsExclusive, FinalizeIsTrue,
                      CopiesMatchState, Claiming
<1>3. CASE SearchFails(a)
  <2>1. QuietFor(a)
    BY <1>1, <1>3, EndTyped DEF SearchFails, QuietFor, Claiming
  <2> QED
    BY <2>1, QuietKeepsIInv
<1> QED
  BY <1>2, <1>3

(* claim_pending_send succeeds only from 'queued' or 'failed', where no    *)
(* claim is unresolved and no copy exists.                                 *)
LEMMA ClaimKeepsIInv ==
  ASSUME IInv, TypeOK', NEW a \in Actors, Claim(a)
  PROVE  IInv'
<1>1. TypeOK
  BY DEF IInv
<1>2. CASE Claimable(state)
  <2>1. copies = 0 /\ \A b \in Actors : pc[b] \notin Claiming \cup {"finalize"}
    BY <1>1, <1>2 DEF Claimable, IInv, CopiesMatchState, ClaimsUnresolved, FinalizeIsTrue, TypeOK
  <2>2. /\ \A b \in Actors : b # a => pc'[b] = pc[b]
        /\ pc'[a] = "send" /\ state' = "sending" /\ UNCHANGED <<copies, indexed>>
    BY <1>1, <1>2, GotoTyped DEF Claim, Locked
  <2> QED
    BY <2>1, <2>2 DEF IInv, ClaimsUnresolved, ClaimIsExclusive, FinalizeIsTrue,
                      CopiesMatchState, Claiming
<1>3. CASE ~Claimable(state)
  <2>1. QuietFor(a)
    BY <1>1, <1>3, EndTyped DEF Claim, EndWith, QuietFor, Claiming
  <2> QED
    BY <2>1, QuietKeepsIInv
<1> QED
  BY <1>2, <1>3

(* The answers to the one send that holds the claim, and their records.    *)
LEMMA AnswerKeepsIInv ==
  ASSUME IInv, TypeOK', NEW a \in Actors,
         SendAccepted(a) \/ SendUnanswered(a) \/ SendRefused(a) \/ Finalize(a) \/ Reject(a)
  PROVE  IInv'
<1>1. TypeOK
  BY DEF IInv
<1>2. ASSUME pc[a] \in Claiming
      PROVE  /\ state = "sending" /\ copies = 0 /\ indexed = 0
             /\ \A b \in Actors : b # a => pc[b] \notin Claiming \cup {"finalize"}
  BY <1>1, <1>2 DEF IInv, ClaimsUnresolved, ClaimIsExclusive, FinalizeIsTrue,
                    CopiesMatchState, TypeOK
<1>3. CASE SendAccepted(a)
  <2>1. /\ \A b \in Actors : b # a => pc'[b] = pc[b]
        /\ pc'[a] = "finalize" /\ copies' = copies + 1 /\ UNCHANGED <<state, indexed>>
    BY <1>1, <1>3, GotoTyped DEF SendAccepted, Locked
  <2>2. pc[a] \in Claiming
    BY <1>3 DEF SendAccepted, Claiming
  <2> QED
    BY <1>2, <2>1, <2>2 DEF IInv, ClaimsUnresolved, ClaimIsExclusive, FinalizeIsTrue,
                            CopiesMatchState, Claiming
<1>4. CASE SendUnanswered(a)
  <2>1. /\ \A b \in Actors : b # a => pc'[b] = pc[b]
        /\ pc'[a] \in {"idle", "finish"} /\ UNCHANGED <<state, indexed>>
        /\ copies' \in {copies, copies + 1}
    BY <1>1, <1>4, EndTyped DEF SendUnanswered
  <2>2. pc[a] \in Claiming
    BY <1>4 DEF SendUnanswered, Claiming
  <2> QED
    BY <1>2, <2>1, <2>2 DEF IInv, ClaimsUnresolved, ClaimIsExclusive, FinalizeIsTrue,
                            CopiesMatchState, Claiming
<1>5. CASE SendRefused(a)
  <2>1. /\ \A b \in Actors : b # a => pc'[b] = pc[b]
        /\ pc'[a] = "reject" /\ UNCHANGED <<state, copies, indexed>>
    BY <1>1, <1>5, GotoTyped DEF SendRefused, Locked
  <2>2. pc[a] \in Claiming
    BY <1>5 DEF SendRefused, Claiming
  <2> QED
    BY <1>2, <2>1, <2>2 DEF IInv, ClaimsUnresolved, ClaimIsExclusive, FinalizeIsTrue,
                            CopiesMatchState, Claiming
<1>6. CASE Finalize(a)
  <2>1. /\ \A b \in Actors : b # a => pc'[b] = pc[b]
        /\ pc'[a] \in {"idle", "finish"} /\ UNCHANGED <<copies, indexed>>
        /\ state' \in {state, "sent"}
    BY <1>1, <1>6, EndTyped DEF Finalize, MarkSent, EndWith
  <2>2. copies = 1 /\ \A b \in Actors : pc[b] \notin Claiming
    BY <1>6 DEF Finalize, MarkSent, IInv, FinalizeIsTrue, ClaimsUnresolved
  <2> QED
    BY <2>1, <2>2 DEF IInv, ClaimsUnresolved, ClaimIsExclusive, FinalizeIsTrue,
                      CopiesMatchState, Claiming
<1>7. CASE Reject(a)
  <2>1. /\ \A b \in Actors : b # a => pc'[b] = pc[b]
        /\ pc'[a] \in {"idle", "finish"} /\ state' = "failed" /\ UNCHANGED <<copies, indexed>>
    BY <1>1, <1>7, EndTyped DEF Reject
  <2>2. pc[a] \in Claiming
    BY <1>7 DEF Reject, Claiming
  <2> QED
    BY <1>2, <2>1, <2>2 DEF IInv, ClaimsUnresolved, ClaimIsExclusive, FinalizeIsTrue,
                            CopiesMatchState, Claiming
<1> QED
  BY <1>3, <1>4, <1>5, <1>6, <1>7

(* The steps outside the attempts: a new or returning request, the job, a  *)
(* crash, the index, the guard.                                            *)
LEMMA OutsideKeepsIInv ==
  ASSUME IInv, TypeOK',
         \/ \E c \in Callers : Request(c)
         \/ \E w \in Workers : Pick(w) \/ FinishJob(w)
         \/ \E a \in Actors : Crash(a)
         \/ Index \/ Lapse \/ Disconnect \/ Reconnect \/ UNCHANGED vars
  PROVE  IInv'
<1>1. TypeOK
  BY DEF IInv
<1>2. ASSUME NEW c \in Callers, Request(c) PROVE IInv'
  <2>1. c \in Actors /\ pc'[c] \in {"idle", "enter"}
        /\ \A b \in Actors : b # c => pc'[b] = pc[b]
    BY <1>1, <1>2, GotoTyped DEF Request, Upserted, Actors, Locked
  <2>2. UNCHANGED <<copies, indexed>> /\ state' \in {state, "queued"}
        /\ (state' # state => state = "none")
    BY <1>2 DEF Request, Upserted
  <2> QED
    BY <2>1, <2>2 DEF IInv, ClaimsUnresolved, ClaimIsExclusive, FinalizeIsTrue,
                      CopiesMatchState, Claiming
<1>3. ASSUME NEW w \in Workers, Pick(w) \/ FinishJob(w) PROVE IInv'
  <2>1. w \in Actors /\ QuietFor(w)
    BY <1>1, <1>3, GotoTyped DEF Pick, FinishJob, QuietFor, Actors, Locked, Claiming
  <2> QED
    BY <2>1, QuietKeepsIInv
<1>4. ASSUME NEW a \in Actors, Crash(a) PROVE IInv'
  <2>1. QuietFor(a)
    BY <1>1, <1>4, GotoTyped DEF Crash, QuietFor, Locked, Claiming
  <2> QED
    BY <2>1, QuietKeepsIInv
<1>5. CASE Index
  BY <1>5 DEF Index, IInv, TypeOK, ClaimsUnresolved, ClaimIsExclusive, FinalizeIsTrue,
              CopiesMatchState, Claiming
<1>6. CASE Lapse \/ Disconnect \/ Reconnect \/ UNCHANGED vars
  BY <1>6 DEF Lapse, Disconnect, Reconnect, vars, IInv, ClaimsUnresolved,
              ClaimIsExclusive, FinalizeIsTrue, CopiesMatchState, Claiming
<1> QED
  BY <1>2, <1>3, <1>4, <1>5, <1>6

LEMMA StepKeepsIInv ==
  ASSUME ~StaleRejection, IInv, [Next]_vars
  PROVE  IInv'
<1>1. TypeOK'
  BY TypePreserved DEF IInv
<1>2. ASSUME NEW a \in Actors, Advance(a) PROVE IInv'
  BY <1>1, <1>2, QuietAdvance, QuietKeepsIInv, SearchKeepsIInv, ClaimKeepsIInv, AnswerKeepsIInv
     DEF Advance
<1> QED
  BY <1>1, <1>2, OutsideKeepsIInv DEF Next

-----------------------------------------------------------------------------
(* Every variable of a delivery keeps its type, stale refusals or not.     *)
THEOREM SendTypeCorrect == Spec => []TypeOK
<1>1. Init => TypeOK
  BY InitIInv DEF IInv
<1> QED
  BY <1>1, TypePreserved, PTL DEF Spec

(* The inductive invariant holds of every delivery.                        *)
THEOREM SendInvariant ==
  ASSUME ~StaleRejection PROVE Spec => []IInv
<1>1. IInv /\ [Next]_vars => IInv'
  BY StepKeepsIInv
<1> QED
  BY InitIInv, <1>1, PTL DEF Spec

(* "never authorize a second send": no number of requests, retries,        *)
(* workers, crashes and lost answers makes Gmail accept the mail twice.    *)
THEOREM SendsAtMostOnce ==
  ASSUME ~StaleRejection PROVE Spec => []AtMostOneCopy
<1>1. IInv => AtMostOneCopy
  BY DEF IInv, CopiesMatchState, AtMostOneCopy
<1> QED
  BY <1>1, SendInvariant, PTL

(* "conclusively failed": a row that lets a retry deliver has no copy.     *)
THEOREM FailureIsConclusive ==
  ASSUME ~StaleRejection PROVE Spec => []FailedIsConclusive
<1>1. IInv => FailedIsConclusive
  BY DEF IInv, CopiesMatchState, FailedIsConclusive
<1> QED
  BY <1>1, SendInvariant, PTL

-----------------------------------------------------------------------------
(* Every step, as a client sees it.                                        *)
LEMMA StepIsDelivery ==
  ASSUME IInv, [Next]_vars, ~StaleRejection
  PROVE  /\ [Delivery!Next]_(Delivery!delivery)
         /\ state = "sent" => state' = "sent"
<1> DEFINE Stutter == UNCHANGED <<state, copies>>
<1>1. TypeOK
  BY DEF IInv
<1> USE DEF Delivery!Next, Delivery!delivery, Delivery!Accept, Delivery!Deliver,
            Delivery!Confirm, Delivery!Refuse, Delivery!Retry
<1>2. ASSUME Stutter
      PROVE  [Delivery!Next]_(Delivery!delivery) /\ (state = "sent" => state' = "sent")
  BY <1>2
<1>3. ASSUME NEW c \in Callers, Request(c)
      PROVE  [Delivery!Next]_(Delivery!delivery) /\ (state = "sent" => state' = "sent")
  BY <1>1, <1>3 DEF Request, Upserted, TypeOK
<1>4. ASSUME NEW a \in Actors, Advance(a)
      PROVE  [Delivery!Next]_(Delivery!delivery) /\ (state = "sent" => state' = "sent")
  <2>1. CASE Claim(a)
    BY <1>1, <2>1 DEF Claim, Claimable, TypeOK
  <2>2. CASE SendAccepted(a) \/ SendUnanswered(a)
    BY <1>1, <2>2 DEF SendAccepted, SendUnanswered, IInv, ClaimsUnresolved, Claiming, TypeOK
  <2>3. CASE Finalize(a)
    BY <1>1, <2>3 DEF Finalize, MarkSent, IInv, FinalizeIsTrue, CopiesMatchState, TypeOK
  <2>4. CASE Reject(a)
    BY <1>1, <2>4 DEF Reject, IInv, ClaimsUnresolved, Claiming, TypeOK
  <2>5. CASE Enter(a) \/ SearchMisses(a) \/ SearchFinds(a) \/ SearchFails(a) \/ Enqueue(a)
             \/ SendRefused(a) \/ Unavailable(a)
    BY <1>2, <2>5 DEF Enter, SearchMisses, SearchFinds, SearchFails, Enqueue, SendRefused,
                      Unavailable
  <2>6. CASE \E where \in {"enter", "enqueue", "claim", "finalize", "reject"} : Blocked(a, where)
    BY <1>2, <2>6 DEF Blocked
  <2> QED
    BY <1>4, <2>1, <2>2, <2>3, <2>4, <2>5, <2>6 DEF Advance
<1>5. CASE \/ \E w \in Workers : Pick(w) \/ FinishJob(w)
           \/ \E a \in Actors : Crash(a)
           \/ Index \/ Lapse \/ Disconnect \/ Reconnect \/ UNCHANGED vars
  BY <1>2, <1>5 DEF Pick, FinishJob, Crash, Index, Lapse, Disconnect, Reconnect, vars
<1> QED
  BY <1>3, <1>4, <1>5 DEF Next

(* "must never turn a sent mail back into a retryable send".               *)
THEOREM SentStaysSent ==
  ASSUME ~StaleRejection PROVE Spec => SentIsFinal
<1>1. IInv /\ [Next]_vars => [state = "sent" => state' = "sent"]_vars
  BY StepIsDelivery
<1> QED
  BY SendInvariant, <1>1, PTL DEF Spec, SentIsFinal

(* The requests, the job and Gmail together deliver at most once.          *)
THEOREM DeliversAtMostOnce ==
  ASSUME ~StaleRejection PROVE Spec => ImplementsAtMostOnce
<1>1. Init => Delivery!Init
  BY DEF Init, Delivery!Init
<1>2. IInv /\ [Next]_vars => [Delivery!Next]_(Delivery!delivery)
  BY StepIsDelivery
<1> QED
  BY SendInvariant, <1>1, <1>2, PTL DEF Spec, ImplementsAtMostOnce, Delivery!Spec

-----------------------------------------------------------------------------
(* Notices of new mail: the inductive invariant.                           *)

DeviceRows == [token : Tokens \cup {NoToken}, session : Sessions \cup {NoToken}, enabled : BOOLEAN,
               after : SUBSET P!Notices, exposed : BOOLEAN]
NoticeRows == [status : {"none", "pending", "sent", "invalid_token", "skipped"},
               session : Sessions \cup {NoToken},
               job : {"none", "queued", "loaded", "sending", "answered", "ended"}, attempts : Nat,
               token : Tokens \cup {NoToken}, result : {"none", "sent", "invalid_token"}]
MailRows == [sync : {"none", "listed", "hydrated", "queued", "passed"}, unread : BOOLEAN, fresh : BOOLEAN,
             recent : BOOLEAN]
Enrollings == [device : Devices, session : Sessions, token : Tokens, after : SUBSET P!Notices]

PushTyped ==
    /\ device \in [Devices -> DeviceRows]
    /\ enrolling = P!Idle \/ enrolling \in Enrollings
    /\ mail \in [Mails -> MailRows]
    /\ notice \in [P!Notices -> NoticeRows]
    /\ owed \in [Mails -> SUBSET Devices]

(* A message is owed to devices that can be told of it, while it is unread,*)
(* so the hydration found it unread.                                       *)
OwedIsOwed ==
    /\ \A m \in Mails : \A d \in owed[m] : P!Reachable(d)
    /\ \A m \in Mails : owed[m] # {} =>
         mail[m].unread /\ mail[m].recent /\ (mail[m].sync = "hydrated" => mail[m].fresh)
    /\ \A m \in Mails : mail[m].sync = "none" => mail[m].unread /\ mail[m].recent /\ owed[m] = {}

(* The outbox is written before the cursor moves.                          *)
OutboxWritten ==
    \A m \in Mails : mail[m].sync \in {"queued", "passed"} =>
      \A d \in owed[m] : notice[<<m, d>>].status # "none"

(* What the provider answered.                                             *)
AnswersHold ==
    \A n \in P!Notices : notice[n].job = "answered" =>
      /\ notice[n].result # "none"
      /\ notice[n].result = "invalid_token" => notice[n].token \in dead

(* A notice on its way bears the device's token, unless the device was     *)
(* registered since the notice was created, or while it was.               *)
TokenIsLoaded ==
    \A n \in P!Notices :
      /\ notice[n].job \in {"sending", "answered"} /\ notice[n].status = "pending"
      /\ n \notin device[n[2]].after /\ ~device[n[2]].exposed /\ device[n[2]].token \in Tokens
      => notice[n].token = device[n[2]].token

PushInv ==
    /\ PushTyped /\ OwedIsOwed /\ OutboxWritten /\ AnswersHold /\ TokenIsLoaded
    /\ P!NothingAfterPurge /\ P!FreshTokenStaysEnabled

LEMMA PushInvInitially == P!Init => PushInv
  BY PushAssumption DEF P!Init, P!NoDevice, P!NoNotice, P!Notices, P!PushAssumption, PushInv, PushTyped, OwedIsOwed,
     OutboxWritten, AnswersHold, TokenIsLoaded, P!NothingAfterPurge, P!FreshTokenStaysEnabled,
     DeviceRows, NoticeRows, MailRows

LEMMA NoticeTyped ==
  ASSUME PushTyped, NEW n \in P!Notices, NEW r \in NoticeRows, notice' = [notice EXCEPT ![n] = r],
         UNCHANGED <<device, enrolling, mail, owed>>
  PROVE  PushTyped'
  BY DEF PushTyped

LEMMA MailTyped ==
  ASSUME PushTyped, NEW m \in Mails, NEW r \in MailRows, mail' = [mail EXCEPT ![m] = r],
         UNCHANGED <<device, enrolling, notice>>, owed' \in [Mails -> SUBSET Devices]
  PROVE  PushTyped'
  BY DEF PushTyped

LEMMA BeginRegisterPushes ==
  ASSUME PushInv, NEW d \in Devices, NEW s \in Sessions, NEW t \in Tokens, P!BeginRegister(d, s, t)
  PROVE  PushInv'
<1>1. PushTyped'
  BY DEF P!BeginRegister, P!Idle, PushInv, PushTyped, DeviceRows, NoticeRows, MailRows, Enrollings
<1>2. OwedIsOwed'
  BY DEF P!BeginRegister, P!Idle, PushInv, PushTyped, OwedIsOwed, P!Reachable, DeviceRows, MailRows
<1>3. OutboxWritten'
  BY DEF P!BeginRegister, P!Idle, PushInv, PushTyped, OwedIsOwed, OutboxWritten, AnswersHold, P!Reachable, P!Notices, NoticeRows, MailRows
<1>4. AnswersHold' /\ P!NothingAfterPurge'
  BY DEF P!BeginRegister, P!Idle, PushInv, PushTyped, AnswersHold, P!NothingAfterPurge, P!Notices, NoticeRows
<1>5. TokenIsLoaded'
  BY PushAssumption DEF P!BeginRegister, P!Idle, PushInv, PushTyped, TokenIsLoaded, P!Notices, P!PushAssumption, DeviceRows, NoticeRows, Enrollings
<1>6. P!FreshTokenStaysEnabled'
  BY PushAssumption DEF P!BeginRegister, P!Idle, PushInv, PushTyped, AnswersHold, TokenIsLoaded, P!FreshTokenStaysEnabled, P!Notices,
     P!PushAssumption, DeviceRows, NoticeRows, Enrollings
<1> QED BY <1>1, <1>2, <1>3, <1>4, <1>5, <1>6 DEF PushInv

LEMMA RegisterPushes ==
  ASSUME PushInv, P!Register
  PROVE  PushInv'
<1>1. PushTyped'
  BY DEF P!Register, P!Owing, P!NoDevice, P!Idle, PushInv, PushTyped, DeviceRows, NoticeRows, MailRows, Enrollings
<1>2. OwedIsOwed'
  BY DEF P!Register, P!Owing, P!NoDevice, P!Idle, PushInv, PushTyped, OwedIsOwed, P!Reachable, DeviceRows, MailRows
<1>3. OutboxWritten'
  BY DEF P!Register, P!Owing, P!NoDevice, P!Idle, PushInv, PushTyped, OwedIsOwed, OutboxWritten, AnswersHold, P!Reachable, P!Notices, NoticeRows, MailRows
<1>4. AnswersHold' /\ P!NothingAfterPurge'
  BY DEF P!Register, P!Owing, P!NoDevice, P!Idle, PushInv, PushTyped, AnswersHold, P!NothingAfterPurge, P!Notices, NoticeRows
<1>5. TokenIsLoaded'
  BY PushAssumption DEF P!Register, P!Owing, P!NoDevice, P!Idle, PushInv, PushTyped, TokenIsLoaded, P!Notices, P!PushAssumption, DeviceRows, NoticeRows, Enrollings
<1>6. P!FreshTokenStaysEnabled'
  BY PushAssumption DEF P!Register, P!Owing, P!NoDevice, P!Idle, PushInv, PushTyped, AnswersHold, TokenIsLoaded, P!FreshTokenStaysEnabled, P!Notices,
     P!PushAssumption, DeviceRows, NoticeRows, Enrollings
<1> QED BY <1>1, <1>2, <1>3, <1>4, <1>5, <1>6 DEF PushInv

LEMMA UnregisterPushes ==
  ASSUME PushInv, NEW d \in Devices, P!Unregister(d)
  PROVE  PushInv'
<1>1. PushTyped'
  BY DEF P!Unregister, P!Owing, P!NoDevice, PushInv, PushTyped, DeviceRows, NoticeRows, MailRows, Enrollings
<1>2. OwedIsOwed'
  BY DEF P!Unregister, P!Owing, P!NoDevice, PushInv, PushTyped, OwedIsOwed, P!Reachable, DeviceRows, MailRows
<1>3. OutboxWritten'
  BY DEF P!Unregister, P!Owing, P!NoDevice, PushInv, PushTyped, OwedIsOwed, OutboxWritten, AnswersHold, P!Reachable, P!Notices, NoticeRows, MailRows
<1>4. AnswersHold' /\ P!NothingAfterPurge'
  BY DEF P!Unregister, P!Owing, P!NoDevice, PushInv, PushTyped, AnswersHold, P!NothingAfterPurge, P!Notices, NoticeRows
<1>5. TokenIsLoaded'
  BY PushAssumption DEF P!Unregister, P!Owing, P!NoDevice, PushInv, PushTyped, TokenIsLoaded, P!Notices, P!PushAssumption, DeviceRows, NoticeRows, Enrollings
<1>6. P!FreshTokenStaysEnabled'
  BY PushAssumption DEF P!Unregister, P!Owing, P!NoDevice, PushInv, PushTyped, AnswersHold, TokenIsLoaded, P!FreshTokenStaysEnabled, P!Notices,
     P!PushAssumption, DeviceRows, NoticeRows, Enrollings
<1> QED BY <1>1, <1>2, <1>3, <1>4, <1>5, <1>6 DEF PushInv

LEMMA SignOutPushes ==
  ASSUME PushInv, NEW s \in Sessions, P!SignOut(s)
  PROVE  PushInv'
<1>1. PushTyped'
  BY DEF P!SignOut, P!Owing, PushInv, PushTyped, DeviceRows, NoticeRows, MailRows, Enrollings
<1>2. OwedIsOwed'
  BY DEF P!SignOut, P!Owing, PushInv, PushTyped, OwedIsOwed, P!Reachable, DeviceRows, MailRows
<1>3. OutboxWritten'
  BY DEF P!SignOut, P!Owing, PushInv, PushTyped, OwedIsOwed, OutboxWritten, AnswersHold, P!Reachable, P!Notices, NoticeRows, MailRows
<1>4. AnswersHold' /\ P!NothingAfterPurge'
  BY DEF P!SignOut, P!Owing, PushInv, PushTyped, AnswersHold, P!NothingAfterPurge, P!Notices, NoticeRows
<1>5. TokenIsLoaded'
  BY PushAssumption DEF P!SignOut, P!Owing, PushInv, PushTyped, TokenIsLoaded, P!Notices, P!PushAssumption, DeviceRows, NoticeRows, Enrollings
<1>6. P!FreshTokenStaysEnabled'
  BY PushAssumption DEF P!SignOut, P!Owing, PushInv, PushTyped, AnswersHold, TokenIsLoaded, P!FreshTokenStaysEnabled, P!Notices,
     P!PushAssumption, DeviceRows, NoticeRows, Enrollings
<1> QED BY <1>1, <1>2, <1>3, <1>4, <1>5, <1>6 DEF PushInv

LEMMA TokenDiesPushes ==
  ASSUME PushInv, NEW t \in Tokens, P!TokenDies(t)
  PROVE  PushInv'
<1>1. PushTyped'
  BY DEF P!TokenDies, PushInv, PushTyped, DeviceRows, NoticeRows, MailRows, Enrollings
<1>2. OwedIsOwed'
  BY DEF P!TokenDies, PushInv, PushTyped, OwedIsOwed, P!Reachable, DeviceRows, MailRows
<1>3. OutboxWritten'
  BY DEF P!TokenDies, PushInv, PushTyped, OwedIsOwed, OutboxWritten, AnswersHold, P!Reachable, P!Notices, NoticeRows, MailRows
<1>4. AnswersHold' /\ P!NothingAfterPurge'
  BY DEF P!TokenDies, PushInv, PushTyped, AnswersHold, P!NothingAfterPurge, P!Notices, NoticeRows
<1>5. TokenIsLoaded'
  BY PushAssumption DEF P!TokenDies, PushInv, PushTyped, TokenIsLoaded, P!Notices, P!PushAssumption, DeviceRows, NoticeRows, Enrollings
<1>6. P!FreshTokenStaysEnabled'
  BY PushAssumption DEF P!TokenDies, PushInv, PushTyped, AnswersHold, TokenIsLoaded, P!FreshTokenStaysEnabled, P!Notices,
     P!PushAssumption, DeviceRows, NoticeRows, Enrollings
<1> QED BY <1>1, <1>2, <1>3, <1>4, <1>5, <1>6 DEF PushInv

LEMMA ArrivesPushes ==
  ASSUME PushInv, NEW m \in Mails, P!Arrives(m)
  PROVE  PushInv'
<1>1. PushTyped'
  BY DEF P!Arrives, PushInv, PushTyped, DeviceRows, NoticeRows, MailRows, Enrollings
<1>2. OwedIsOwed'
  BY DEF P!Arrives, PushInv, PushTyped, OwedIsOwed, P!Reachable, DeviceRows, MailRows
<1>3. OutboxWritten'
  BY DEF P!Arrives, PushInv, PushTyped, OwedIsOwed, OutboxWritten, AnswersHold, P!Reachable, P!Notices, NoticeRows, MailRows
<1>4. AnswersHold' /\ P!NothingAfterPurge'
  BY DEF P!Arrives, PushInv, PushTyped, AnswersHold, P!NothingAfterPurge, P!Notices, NoticeRows
<1>5. TokenIsLoaded'
  BY PushAssumption DEF P!Arrives, PushInv, PushTyped, TokenIsLoaded, P!Notices, P!PushAssumption, DeviceRows, NoticeRows, Enrollings
<1>6. P!FreshTokenStaysEnabled'
  BY PushAssumption DEF P!Arrives, PushInv, PushTyped, AnswersHold, TokenIsLoaded, P!FreshTokenStaysEnabled, P!Notices,
     P!PushAssumption, DeviceRows, NoticeRows, Enrollings
<1> QED BY <1>1, <1>2, <1>3, <1>4, <1>5, <1>6 DEF PushInv

LEMMA ReadElsewherePushes ==
  ASSUME PushInv, NEW m \in Mails, P!ReadElsewhere(m)
  PROVE  PushInv'
<1>1. PushTyped'
  <2> DEFINE r == [mail[m] EXCEPT !.unread = FALSE]
  <2>1. mail' = [mail EXCEPT ![m] = r]
    BY DEF P!ReadElsewhere
  <2>2. r \in MailRows /\ owed' \in [Mails -> SUBSET Devices]
    BY DEF P!ReadElsewhere, PushInv, PushTyped, MailRows
  <2> HIDE DEF r
  <2> QED BY <2>1, <2>2, MailTyped DEF P!ReadElsewhere, PushInv
<1>2. OwedIsOwed'
  BY DEF P!ReadElsewhere, PushInv, PushTyped, OwedIsOwed, P!Reachable, DeviceRows, MailRows
<1>3. OutboxWritten'
  BY DEF P!ReadElsewhere, PushInv, PushTyped, OwedIsOwed, OutboxWritten, AnswersHold, P!Reachable, P!Notices, NoticeRows, MailRows
<1>4. AnswersHold' /\ P!NothingAfterPurge'
  BY DEF P!ReadElsewhere, PushInv, PushTyped, AnswersHold, P!NothingAfterPurge, P!Notices, NoticeRows
<1>5. TokenIsLoaded'
  BY PushAssumption DEF P!ReadElsewhere, PushInv, PushTyped, TokenIsLoaded, P!Notices, P!PushAssumption, DeviceRows, NoticeRows, Enrollings
<1>6. P!FreshTokenStaysEnabled'
  BY PushAssumption DEF P!ReadElsewhere, PushInv, PushTyped, AnswersHold, TokenIsLoaded, P!FreshTokenStaysEnabled, P!Notices,
     P!PushAssumption, DeviceRows, NoticeRows, Enrollings
<1> QED BY <1>1, <1>2, <1>3, <1>4, <1>5, <1>6 DEF PushInv

LEMMA AgesPushes ==
  ASSUME PushInv, NEW m \in Mails, P!Ages(m)
  PROVE  PushInv'
<1>1. PushTyped'
  <2> DEFINE r == [mail[m] EXCEPT !.recent = FALSE]
  <2>1. mail' = [mail EXCEPT ![m] = r]
    BY DEF P!Ages
  <2>2. r \in MailRows /\ owed' \in [Mails -> SUBSET Devices]
    BY DEF P!Ages, PushInv, PushTyped, MailRows
  <2> HIDE DEF r
  <2> QED BY <2>1, <2>2, MailTyped DEF P!Ages, PushInv
<1>2. OwedIsOwed'
  BY DEF P!Ages, PushInv, PushTyped, OwedIsOwed, P!Reachable, DeviceRows, MailRows
<1>3. OutboxWritten'
  BY DEF P!Ages, PushInv, PushTyped, OwedIsOwed, OutboxWritten, AnswersHold, P!Reachable, P!Notices, NoticeRows, MailRows
<1>4. AnswersHold' /\ P!NothingAfterPurge'
  BY DEF P!Ages, PushInv, PushTyped, AnswersHold, P!NothingAfterPurge, P!Notices, NoticeRows
<1>5. TokenIsLoaded'
  BY PushAssumption DEF P!Ages, PushInv, PushTyped, TokenIsLoaded, P!Notices, P!PushAssumption, DeviceRows, NoticeRows, Enrollings
<1>6. P!FreshTokenStaysEnabled'
  BY PushAssumption DEF P!Ages, PushInv, PushTyped, AnswersHold, TokenIsLoaded, P!FreshTokenStaysEnabled, P!Notices,
     P!PushAssumption, DeviceRows, NoticeRows, Enrollings
<1> QED BY <1>1, <1>2, <1>3, <1>4, <1>5, <1>6 DEF PushInv

LEMMA HydratePushes ==
  ASSUME PushInv, NEW m \in Mails, P!Hydrate(m)
  PROVE  PushInv'
<1>1. PushTyped'
  <2> DEFINE r == [mail[m] EXCEPT !.sync = "hydrated", !.fresh = mail[m].unread]
  <2>1. mail' = [mail EXCEPT ![m] = r]
    BY DEF P!Hydrate
  <2>2. r \in MailRows /\ owed' \in [Mails -> SUBSET Devices]
    BY DEF P!Hydrate, PushInv, PushTyped, MailRows
  <2> HIDE DEF r
  <2> QED BY <2>1, <2>2, MailTyped DEF P!Hydrate, PushInv
<1>2. OwedIsOwed'
  BY DEF P!Hydrate, PushInv, PushTyped, OwedIsOwed, P!Reachable, DeviceRows, MailRows
<1>3. OutboxWritten'
  BY DEF P!Hydrate, PushInv, PushTyped, OwedIsOwed, OutboxWritten, AnswersHold, P!Reachable, P!Notices, NoticeRows, MailRows
<1>4. AnswersHold' /\ P!NothingAfterPurge'
  BY DEF P!Hydrate, PushInv, PushTyped, AnswersHold, P!NothingAfterPurge, P!Notices, NoticeRows
<1>5. TokenIsLoaded'
  BY PushAssumption DEF P!Hydrate, PushInv, PushTyped, TokenIsLoaded, P!Notices, P!PushAssumption, DeviceRows, NoticeRows, Enrollings
<1>6. P!FreshTokenStaysEnabled'
  BY PushAssumption DEF P!Hydrate, PushInv, PushTyped, AnswersHold, TokenIsLoaded, P!FreshTokenStaysEnabled, P!Notices,
     P!PushAssumption, DeviceRows, NoticeRows, Enrollings
<1> QED BY <1>1, <1>2, <1>3, <1>4, <1>5, <1>6 DEF PushInv

LEMMA QueueNewMailPushes ==
  ASSUME PushInv, NEW m \in Mails, P!QueueNewMail(m)
  PROVE  PushInv'
<1>1. PushTyped'
  <2>1. notice' \in [P!Notices -> NoticeRows]
    <3>1. ASSUME NEW n \in P!Notices PROVE notice'[n] \in NoticeRows
      <4>1. notice[n] \in NoticeRows /\ device[n[2]].session \in Sessions \cup {NoToken}
        BY DEF PushInv, PushTyped, P!Notices, DeviceRows
      <4>2. [P!NoNotice EXCEPT !.status = "pending", !.session = device[n[2]].session, !.job = "queued"]
              \in NoticeRows
        BY <4>1 DEF P!NoNotice, NoticeRows
      <4> QED BY <4>1, <4>2 DEF P!QueueNewMail
    <3> QED BY <3>1 DEF P!QueueNewMail
  <2>2. mail' \in [Mails -> MailRows]
    <3> DEFINE r == [mail[m] EXCEPT !.sync = "queued"]
    <3>1. mail' = [mail EXCEPT ![m] = r]
      BY DEF P!QueueNewMail
    <3>2. r \in MailRows
      BY DEF PushInv, PushTyped, MailRows
    <3> HIDE DEF r
    <3> QED BY <3>1, <3>2 DEF PushInv, PushTyped
  <2> QED BY <2>1, <2>2 DEF P!QueueNewMail, PushInv, PushTyped
<1>2. OwedIsOwed'
  BY DEF P!QueueNewMail, P!NoNotice, PushInv, PushTyped, OwedIsOwed, P!Reachable, DeviceRows, MailRows
<1>3. OutboxWritten'
  <2> SUFFICES ASSUME NEW x \in Mails, mail'[x].sync \in {"queued", "passed"}, NEW d \in owed'[x]
               PROVE  notice'[<<x, d>>].status # "none"
    BY DEF OutboxWritten
  <2>1. owed' = owed /\ d \in Devices /\ <<x, d>> \in P!Notices
    BY DEF P!QueueNewMail, PushInv, PushTyped, P!Notices
  <2>2. notice'[<<x, d>>] = IF x = m /\ mail[m].fresh /\ mail[m].recent /\ P!Reachable(d)
                                  /\ notice[<<x, d>>].status = "none"
                              THEN [P!NoNotice EXCEPT !.status = "pending", !.session = device[d].session,
                                                      !.job = "queued"]
                              ELSE notice[<<x, d>>]
    BY <2>1 DEF P!QueueNewMail
  <2>3. CASE x = m
    <3>1. mail[m].sync = "hydrated" /\ d \in owed[m]
      BY <2>1, <2>3 DEF P!QueueNewMail
    <3>2. mail[m].fresh /\ mail[m].recent /\ P!Reachable(d)
      BY <3>1 DEF PushInv, OwedIsOwed
    <3> QED BY <2>2, <2>3, <3>2 DEF P!NoNotice
  <2>4. CASE x # m
    <3>1. mail'[x] = mail[x]
      BY <2>4 DEF P!QueueNewMail, PushInv, PushTyped
    <3>2. notice[<<x, d>>].status # "none"
      BY <2>1, <3>1 DEF PushInv, OutboxWritten
    <3> QED BY <2>2, <2>4, <3>2
  <2> QED BY <2>3, <2>4
<1>4. AnswersHold' /\ P!NothingAfterPurge'
  BY DEF P!QueueNewMail, P!NoNotice, PushInv, PushTyped, AnswersHold, P!NothingAfterPurge, P!Notices, NoticeRows
<1>5. TokenIsLoaded'
  BY PushAssumption DEF P!QueueNewMail, P!NoNotice, PushInv, PushTyped, TokenIsLoaded, P!Notices, P!PushAssumption, DeviceRows, NoticeRows, Enrollings
<1>6. P!FreshTokenStaysEnabled'
  BY PushAssumption DEF P!QueueNewMail, P!NoNotice, PushInv, PushTyped, AnswersHold, TokenIsLoaded, P!FreshTokenStaysEnabled, P!Notices,
     P!PushAssumption, DeviceRows, NoticeRows, Enrollings
<1> QED BY <1>1, <1>2, <1>3, <1>4, <1>5, <1>6 DEF PushInv

LEMMA CursorPassesPushes ==
  ASSUME PushInv, NEW m \in Mails, P!CursorPasses(m)
  PROVE  PushInv'
<1>1. PushTyped'
  BY DEF P!CursorPasses, P!Passes, PushInv, PushTyped, DeviceRows, NoticeRows, MailRows, Enrollings
<1>2. OwedIsOwed'
  BY DEF P!CursorPasses, P!Passes, PushInv, PushTyped, OwedIsOwed, P!Reachable, DeviceRows, MailRows
<1>3. OutboxWritten'
  BY DEF P!CursorPasses, P!Passes, PushInv, PushTyped, OwedIsOwed, OutboxWritten, AnswersHold, P!Reachable, P!Notices, NoticeRows, MailRows
<1>4. AnswersHold' /\ P!NothingAfterPurge'
  BY DEF P!CursorPasses, P!Passes, PushInv, PushTyped, AnswersHold, P!NothingAfterPurge, P!Notices, NoticeRows
<1>5. TokenIsLoaded'
  BY PushAssumption DEF P!CursorPasses, P!Passes, PushInv, PushTyped, TokenIsLoaded, P!Notices, P!PushAssumption, DeviceRows, NoticeRows, Enrollings
<1>6. P!FreshTokenStaysEnabled'
  BY PushAssumption DEF P!CursorPasses, P!Passes, PushInv, PushTyped, AnswersHold, TokenIsLoaded, P!FreshTokenStaysEnabled, P!Notices,
     P!PushAssumption, DeviceRows, NoticeRows, Enrollings
<1> QED BY <1>1, <1>2, <1>3, <1>4, <1>5, <1>6 DEF PushInv

LEMMA SyncDiesPushes ==
  ASSUME PushInv, NEW m \in Mails, P!SyncDies(m)
  PROVE  PushInv'
<1>1. PushTyped'
  BY DEF P!SyncDies, PushInv, PushTyped, DeviceRows, NoticeRows, MailRows, Enrollings
<1>2. OwedIsOwed'
  BY DEF P!SyncDies, PushInv, PushTyped, OwedIsOwed, P!Reachable, DeviceRows, MailRows
<1>3. OutboxWritten'
  BY DEF P!SyncDies, PushInv, PushTyped, OwedIsOwed, OutboxWritten, AnswersHold, P!Reachable, P!Notices, NoticeRows, MailRows
<1>4. AnswersHold' /\ P!NothingAfterPurge'
  BY DEF P!SyncDies, PushInv, PushTyped, AnswersHold, P!NothingAfterPurge, P!Notices, NoticeRows
<1>5. TokenIsLoaded'
  BY PushAssumption DEF P!SyncDies, PushInv, PushTyped, TokenIsLoaded, P!Notices, P!PushAssumption, DeviceRows, NoticeRows, Enrollings
<1>6. P!FreshTokenStaysEnabled'
  BY PushAssumption DEF P!SyncDies, PushInv, PushTyped, AnswersHold, TokenIsLoaded, P!FreshTokenStaysEnabled, P!Notices,
     P!PushAssumption, DeviceRows, NoticeRows, Enrollings
<1> QED BY <1>1, <1>2, <1>3, <1>4, <1>5, <1>6 DEF PushInv

LEMMA LoadPushes ==
  ASSUME PushInv, NEW n \in P!Notices, P!Load(n)
  PROVE  PushInv'
<1>1. PushTyped'
  BY DEF P!Load, P!Sendable, P!Skipped, PushInv, PushTyped, DeviceRows, NoticeRows, MailRows, Enrollings
<1>2. OwedIsOwed'
  BY DEF P!Load, P!Sendable, P!Skipped, PushInv, PushTyped, OwedIsOwed, P!Reachable, DeviceRows, MailRows
<1>3. OutboxWritten'
  BY DEF P!Load, P!Sendable, P!Skipped, PushInv, PushTyped, OwedIsOwed, OutboxWritten, AnswersHold, P!Reachable, P!Notices, NoticeRows, MailRows
<1>4. AnswersHold' /\ P!NothingAfterPurge'
  BY DEF P!Load, P!Sendable, P!Skipped, PushInv, PushTyped, AnswersHold, P!NothingAfterPurge, P!Notices, NoticeRows
<1>5. TokenIsLoaded'
  BY PushAssumption DEF P!Load, P!Sendable, P!Skipped, PushInv, PushTyped, TokenIsLoaded, P!Notices, P!PushAssumption, DeviceRows, NoticeRows, Enrollings
<1>6. P!FreshTokenStaysEnabled'
  BY PushAssumption DEF P!Load, P!Sendable, P!Skipped, PushInv, PushTyped, AnswersHold, TokenIsLoaded, P!FreshTokenStaysEnabled, P!Notices,
     P!PushAssumption, DeviceRows, NoticeRows, Enrollings
<1> QED BY <1>1, <1>2, <1>3, <1>4, <1>5, <1>6 DEF PushInv

LEMMA ExpiresPushes ==
  ASSUME PushInv, NEW n \in P!Notices, P!Expires(n)
  PROVE  PushInv'
<1>1. PushTyped'
  BY DEF P!Expires, P!Skipped, PushInv, PushTyped, DeviceRows, NoticeRows, MailRows, Enrollings
<1>2. OwedIsOwed'
  BY DEF P!Expires, P!Skipped, PushInv, PushTyped, OwedIsOwed, P!Reachable, DeviceRows, MailRows
<1>3. OutboxWritten'
  BY DEF P!Expires, P!Skipped, PushInv, PushTyped, OwedIsOwed, OutboxWritten, AnswersHold, P!Reachable, P!Notices, NoticeRows, MailRows
<1>4. AnswersHold' /\ P!NothingAfterPurge'
  BY DEF P!Expires, P!Skipped, PushInv, PushTyped, AnswersHold, P!NothingAfterPurge, P!Notices, NoticeRows
<1>5. TokenIsLoaded'
  BY PushAssumption DEF P!Expires, P!Skipped, PushInv, PushTyped, TokenIsLoaded, P!Notices, P!PushAssumption, DeviceRows, NoticeRows, Enrollings
<1>6. P!FreshTokenStaysEnabled'
  BY PushAssumption DEF P!Expires, P!Skipped, PushInv, PushTyped, AnswersHold, TokenIsLoaded, P!FreshTokenStaysEnabled, P!Notices,
     P!PushAssumption, DeviceRows, NoticeRows, Enrollings
<1> QED BY <1>1, <1>2, <1>3, <1>4, <1>5, <1>6 DEF PushInv

LEMMA LockPushes ==
  ASSUME PushInv, NEW n \in P!Notices, P!Lock(n)
  PROVE  PushInv'
<1>1. PushTyped'
  <2> DEFINE old   == notice[n]
             again == [old EXCEPT !.job = IF old.attempts < MaxAttempts THEN "queued" ELSE "ended",
                                  !.token = NoToken, !.result = "none"]
             sent  == [old EXCEPT !.job = "sending", !.token = device[n[2]].token]
             skip  == [old EXCEPT !.status = IF old.status = "pending" THEN "skipped" ELSE old.status,
                                  !.job = "ended"]
  <2>1. old \in NoticeRows /\ device[n[2]].token \in Tokens \cup {NoToken}
    BY DEF PushInv, PushTyped, P!Notices, DeviceRows
  <2> HIDE DEF old
  <2>2. again \in NoticeRows /\ sent \in NoticeRows /\ skip \in NoticeRows
    BY <2>1 DEF NoticeRows
  <2>3. \E r \in {again, sent, skip} : notice' = [notice EXCEPT ![n] = r]
    BY DEF P!Lock, P!Retried, P!Skipped, old
  <2> HIDE DEF again, sent, skip
  <2>4. PICK r \in NoticeRows : notice' = [notice EXCEPT ![n] = r]
    BY <2>2, <2>3
  <2> QED BY <2>4, NoticeTyped DEF P!Lock, PushInv
<1>2. OwedIsOwed'
  BY DEF P!Lock, P!Sendable, P!Skipped, P!Retried, PushInv, PushTyped, OwedIsOwed, P!Reachable, DeviceRows, MailRows
<1>3. OutboxWritten'
  BY DEF P!Lock, P!Sendable, P!Skipped, P!Retried, PushInv, PushTyped, OwedIsOwed, OutboxWritten, AnswersHold, P!Reachable, P!Notices, NoticeRows, MailRows
<1>4. AnswersHold' /\ P!NothingAfterPurge'
  BY DEF P!Lock, P!Sendable, P!Skipped, P!Retried, PushInv, PushTyped, AnswersHold, P!NothingAfterPurge, P!Notices, NoticeRows
<1>5. TokenIsLoaded'
  BY PushAssumption DEF P!Lock, P!Sendable, P!Skipped, P!Retried, PushInv, PushTyped, TokenIsLoaded, P!Notices, P!PushAssumption, DeviceRows, NoticeRows, Enrollings
<1>6. P!FreshTokenStaysEnabled'
  BY PushAssumption DEF P!Lock, P!Sendable, P!Skipped, P!Retried, PushInv, PushTyped, AnswersHold, TokenIsLoaded, P!FreshTokenStaysEnabled, P!Notices,
     P!PushAssumption, DeviceRows, NoticeRows, Enrollings
<1> QED BY <1>1, <1>2, <1>3, <1>4, <1>5, <1>6 DEF PushInv

LEMMA SendPushes ==
  ASSUME PushInv, NEW n \in P!Notices, P!Send(n)
  PROVE  PushInv'
<1>1. PushTyped'
  <2> DEFINE r == [notice[n] EXCEPT !.job = "answered",
                                    !.result = IF notice[n].token \in dead THEN "invalid_token" ELSE "sent"]
  <2>1. notice' = [notice EXCEPT ![n] = r]
    BY DEF P!Send
  <2>2. r \in NoticeRows
    BY DEF PushInv, PushTyped, NoticeRows
  <2> HIDE DEF r
  <2> QED BY <2>1, <2>2, NoticeTyped DEF P!Send, PushInv
<1>2. OwedIsOwed'
  BY DEF P!Send, PushInv, PushTyped, OwedIsOwed, P!Reachable, DeviceRows, MailRows
<1>3. OutboxWritten'
  BY DEF P!Send, PushInv, PushTyped, OwedIsOwed, OutboxWritten, AnswersHold, P!Reachable, P!Notices, NoticeRows, MailRows
<1>4. AnswersHold' /\ P!NothingAfterPurge'
  BY DEF P!Send, PushInv, PushTyped, AnswersHold, P!NothingAfterPurge, P!Notices, NoticeRows
<1>5. TokenIsLoaded'
  <2>1. \A x \in P!Notices : notice'[x].status = notice[x].status /\ notice'[x].token = notice[x].token
    BY DEF P!Send, PushInv, PushTyped, NoticeRows
  <2>2. \A x \in P!Notices : notice'[x].job \in {"sending", "answered"} => notice[x].job \in {"sending", "answered"}
    BY DEF P!Send, PushInv, PushTyped, NoticeRows
  <2> QED BY <2>1, <2>2 DEF P!Send, PushInv, TokenIsLoaded
<1>6. P!FreshTokenStaysEnabled'
  BY PushAssumption DEF P!Send, PushInv, PushTyped, AnswersHold, TokenIsLoaded, P!FreshTokenStaysEnabled, P!Notices,
     P!PushAssumption, DeviceRows, NoticeRows, Enrollings
<1> QED BY <1>1, <1>2, <1>3, <1>4, <1>5, <1>6 DEF PushInv

LEMMA FinishPushes ==
  ASSUME PushInv, NEW n \in P!Notices, P!Finish(n)
  PROVE  PushInv'
<1>1. PushTyped'
  BY DEF P!Finish, P!Owing, P!Disables, PushInv, PushTyped, DeviceRows, NoticeRows, MailRows, Enrollings
<1>2. OwedIsOwed'
  BY DEF P!Finish, P!Owing, P!Disables, PushInv, PushTyped, OwedIsOwed, P!Reachable, DeviceRows, MailRows
<1>3. OutboxWritten'
  <2>1. \A x \in P!Notices : notice[x].status # "none" => notice'[x].status # "none"
    BY DEF P!Finish, PushInv, PushTyped, AnswersHold, NoticeRows
  <2>2. \A m \in Mails : owed'[m] \subseteq owed[m] /\ owed[m] \subseteq Devices
    BY DEF P!Finish, P!Owing, PushInv, PushTyped
  <2>3. \A m \in Mails : \A d \in owed'[m] : d \in owed[m] /\ <<m, d>> \in P!Notices
    BY <2>2 DEF P!Notices
  <2>4. mail' = mail
    BY DEF P!Finish
  <2> QED BY <2>1, <2>3, <2>4 DEF PushInv, OutboxWritten
<1>4. AnswersHold' /\ P!NothingAfterPurge'
  BY DEF P!Finish, P!Owing, P!Disables, PushInv, PushTyped, AnswersHold, P!NothingAfterPurge, P!Notices, NoticeRows
<1>5. TokenIsLoaded'
  BY PushAssumption DEF P!Finish, P!Owing, P!Disables, PushInv, PushTyped, TokenIsLoaded, P!Notices, P!PushAssumption, DeviceRows, NoticeRows, Enrollings
<1>6. P!FreshTokenStaysEnabled'
  BY PushAssumption DEF P!Finish, P!Owing, P!Disables, PushInv, PushTyped, AnswersHold, TokenIsLoaded, P!FreshTokenStaysEnabled, P!Notices,
     P!PushAssumption, DeviceRows, NoticeRows, Enrollings
<1> QED BY <1>1, <1>2, <1>3, <1>4, <1>5, <1>6 DEF PushInv

LEMMA ProviderFailsPushes ==
  ASSUME PushInv, NEW n \in P!Notices, P!ProviderFails(n)
  PROVE  PushInv'
<1>1. PushTyped'
  <2> DEFINE r == [notice[n] EXCEPT !.job = IF notice[n].attempts < MaxAttempts THEN "queued" ELSE "ended",
                                    !.token = NoToken, !.result = "none"]
  <2>1. notice' = [notice EXCEPT ![n] = r]
    BY DEF P!ProviderFails, P!Retried
  <2>2. r \in NoticeRows
    BY DEF PushInv, PushTyped, NoticeRows
  <2> HIDE DEF r
  <2> QED BY <2>1, <2>2, NoticeTyped DEF P!ProviderFails, PushInv
<1>2. OwedIsOwed'
  BY DEF P!ProviderFails, P!Retried, PushInv, PushTyped, OwedIsOwed, P!Reachable, DeviceRows, MailRows
<1>3. OutboxWritten'
  BY DEF P!ProviderFails, P!Retried, PushInv, PushTyped, OwedIsOwed, OutboxWritten, AnswersHold, P!Reachable, P!Notices, NoticeRows, MailRows
<1>4. AnswersHold' /\ P!NothingAfterPurge'
  BY DEF P!ProviderFails, P!Retried, PushInv, PushTyped, AnswersHold, P!NothingAfterPurge, P!Notices, NoticeRows
<1>5. TokenIsLoaded'
  BY PushAssumption DEF P!ProviderFails, P!Retried, PushInv, PushTyped, TokenIsLoaded, P!Notices, P!PushAssumption, DeviceRows, NoticeRows, Enrollings
<1>6. P!FreshTokenStaysEnabled'
  BY PushAssumption DEF P!ProviderFails, P!Retried, PushInv, PushTyped, AnswersHold, TokenIsLoaded, P!FreshTokenStaysEnabled, P!Notices,
     P!PushAssumption, DeviceRows, NoticeRows, Enrollings
<1> QED BY <1>1, <1>2, <1>3, <1>4, <1>5, <1>6 DEF PushInv

LEMMA WorkerDiesPushes ==
  ASSUME PushInv, NEW n \in P!Notices, P!WorkerDies(n)
  PROVE  PushInv'
<1>1. PushTyped'
  <2> DEFINE r == [notice[n] EXCEPT !.job = IF notice[n].attempts < MaxAttempts THEN "queued" ELSE "ended",
                                    !.token = NoToken, !.result = "none"]
  <2>1. notice' = [notice EXCEPT ![n] = r]
    BY DEF P!WorkerDies, P!Retried
  <2>2. r \in NoticeRows
    BY DEF PushInv, PushTyped, NoticeRows
  <2> HIDE DEF r
  <2> QED BY <2>1, <2>2, NoticeTyped DEF P!WorkerDies, PushInv
<1>2. OwedIsOwed'
  BY DEF P!WorkerDies, P!Retried, PushInv, PushTyped, OwedIsOwed, P!Reachable, DeviceRows, MailRows
<1>3. OutboxWritten'
  BY DEF P!WorkerDies, P!Retried, PushInv, PushTyped, OwedIsOwed, OutboxWritten, AnswersHold, P!Reachable, P!Notices, NoticeRows, MailRows
<1>4. AnswersHold' /\ P!NothingAfterPurge'
  BY DEF P!WorkerDies, P!Retried, PushInv, PushTyped, AnswersHold, P!NothingAfterPurge, P!Notices, NoticeRows
<1>5. TokenIsLoaded'
  BY PushAssumption DEF P!WorkerDies, P!Retried, PushInv, PushTyped, TokenIsLoaded, P!Notices, P!PushAssumption, DeviceRows, NoticeRows, Enrollings
<1>6. P!FreshTokenStaysEnabled'
  BY PushAssumption DEF P!WorkerDies, P!Retried, PushInv, PushTyped, AnswersHold, TokenIsLoaded, P!FreshTokenStaysEnabled, P!Notices,
     P!PushAssumption, DeviceRows, NoticeRows, Enrollings
<1> QED BY <1>1, <1>2, <1>3, <1>4, <1>5, <1>6 DEF PushInv

LEMMA RequestDeletionPushes ==
  ASSUME PushInv, P!RequestDeletion
  PROVE  PushInv'
<1>1. PushTyped'
  BY DEF P!RequestDeletion, PushInv, PushTyped, DeviceRows, NoticeRows, MailRows, Enrollings
<1>2. OwedIsOwed'
  BY DEF P!RequestDeletion, PushInv, PushTyped, OwedIsOwed, P!Reachable, DeviceRows, MailRows
<1>3. OutboxWritten'
  BY DEF P!RequestDeletion, PushInv, PushTyped, OwedIsOwed, OutboxWritten, AnswersHold, P!Reachable, P!Notices, NoticeRows, MailRows
<1>4. AnswersHold' /\ P!NothingAfterPurge'
  BY DEF P!RequestDeletion, PushInv, PushTyped, AnswersHold, P!NothingAfterPurge, P!Notices, NoticeRows
<1>5. TokenIsLoaded'
  BY PushAssumption DEF P!RequestDeletion, PushInv, PushTyped, TokenIsLoaded, P!Notices, P!PushAssumption, DeviceRows, NoticeRows, Enrollings
<1>6. P!FreshTokenStaysEnabled'
  BY PushAssumption DEF P!RequestDeletion, PushInv, PushTyped, AnswersHold, TokenIsLoaded, P!FreshTokenStaysEnabled, P!Notices,
     P!PushAssumption, DeviceRows, NoticeRows, Enrollings
<1> QED BY <1>1, <1>2, <1>3, <1>4, <1>5, <1>6 DEF PushInv

LEMMA PurgePushes ==
  ASSUME PushInv, P!Purge
  PROVE  PushInv'
<1>1. PushTyped'
  BY DEF P!Purge, P!Drained, PushInv, PushTyped, DeviceRows, NoticeRows, MailRows, Enrollings
<1>2. OwedIsOwed'
  BY DEF P!Purge, P!Drained, PushInv, PushTyped, OwedIsOwed, P!Reachable, DeviceRows, MailRows
<1>3. OutboxWritten'
  BY DEF P!Purge, P!Drained, PushInv, PushTyped, OwedIsOwed, OutboxWritten, AnswersHold, P!Reachable, P!Notices, NoticeRows, MailRows
<1>4. AnswersHold' /\ P!NothingAfterPurge'
  BY DEF P!Purge, P!Drained, PushInv, PushTyped, AnswersHold, P!NothingAfterPurge, P!Notices, NoticeRows
<1>5. TokenIsLoaded'
  BY PushAssumption DEF P!Purge, P!Drained, PushInv, PushTyped, TokenIsLoaded, P!Notices, P!PushAssumption, DeviceRows, NoticeRows, Enrollings
<1>6. P!FreshTokenStaysEnabled'
  BY PushAssumption DEF P!Purge, P!Drained, PushInv, PushTyped, AnswersHold, TokenIsLoaded, P!FreshTokenStaysEnabled, P!Notices,
     P!PushAssumption, DeviceRows, NoticeRows, Enrollings
<1> QED BY <1>1, <1>2, <1>3, <1>4, <1>5, <1>6 DEF PushInv

LEMMA PushInvInductive ==
  ASSUME PushInv, [P!Next]_(P!vars)
  PROVE  PushInv'
<1>1. CASE \E d \in Devices, s \in Sessions, t \in Tokens : P!BeginRegister(d, s, t)
  BY <1>1, BeginRegisterPushes
<1>2. CASE P!Register \/ \E d \in Devices : P!Unregister(d)
  BY <1>2, RegisterPushes, UnregisterPushes
<1>3. CASE (\E s \in Sessions : P!SignOut(s)) \/ \E t \in Tokens : P!TokenDies(t)
  BY <1>3, SignOutPushes, TokenDiesPushes
<1>4. CASE \E m \in Mails : \/ P!Arrives(m) \/ P!ReadElsewhere(m) \/ P!Ages(m) \/ P!Hydrate(m)
                            \/ P!QueueNewMail(m) \/ P!CursorPasses(m) \/ P!SyncDies(m)
  BY <1>4, ArrivesPushes, ReadElsewherePushes, AgesPushes, HydratePushes, QueueNewMailPushes, CursorPassesPushes,
     SyncDiesPushes
<1>5. CASE \E n \in P!Notices : \/ P!Load(n) \/ P!Lock(n) \/ P!Expires(n) \/ P!Send(n) \/ P!Finish(n)
                                \/ P!ProviderFails(n) \/ P!WorkerDies(n)
  BY <1>5, LoadPushes, LockPushes, ExpiresPushes, SendPushes, FinishPushes, ProviderFailsPushes, WorkerDiesPushes
<1>6. CASE P!RequestDeletion \/ P!Purge
  BY <1>6, RequestDeletionPushes, PurgePushes
<1>7. CASE UNCHANGED P!vars
  BY <1>7 DEF P!vars, PushInv, PushTyped, OwedIsOwed, OutboxWritten, AnswersHold, TokenIsLoaded,
     P!NothingAfterPurge, P!FreshTokenStaysEnabled, P!Reachable
<1> QED BY <1>1, <1>2, <1>3, <1>4, <1>5, <1>6, <1>7 DEF P!Next

(* New mail that the history cursor passed has a notice for every device   *)
(* that could be told of it ever since it came, although the sync may die  *)
(* at any step, and no notice leaves an account whose data are gone.       *)
THEOREM NoticesAreHeld == P!Spec => []NoticesHold
<1>1. PushInv => NoticesHold
  BY DEF PushInv, OutboxWritten, NoticesHold, P!PassedMeansQueued
<1>2. PushInv /\ [P!Next]_(P!vars) => PushInv'
  BY PushInvInductive
<1> QED BY PushInvInitially, <1>1, <1>2, PTL DEF P!Spec

(* A registered device is only disabled while the provider refuses its     *)
(* token: a token that the app refreshed during a delivery stays enabled.  *)
THEOREM FreshTokensStayEnabled == P!Spec => []FreshTokenStaysEnabled
<1>1. PushInv => FreshTokenStaysEnabled
  BY DEF PushInv, FreshTokenStaysEnabled
<1>2. PushInv /\ [P!Next]_(P!vars) => PushInv'
  BY PushInvInductive
<1> QED BY PushInvInitially, <1>1, <1>2, PTL DEF P!Spec

---------------------------------------------------------------------------
(* A set of natural numbers has a least one.                               *)
LEMMA LeastOf ==
  ASSUME NEW A \in SUBSET Nat, A # {}
  PROVE  \E x \in A : \A y \in A : x <= y
<1>1. \E x \in A : \A y \in A : <<y, x>> \notin OpToRel(<, Nat)
  BY NatLessThanWellFounded, WFMin
<1>2. \A y, x \in Nat : <<y, x>> \notin OpToRel(<, Nat) => x <= y
  BY DEF OpToRel
<1> QED BY <1>1, <1>2

---------------------------------------------------------------------------
(* The search: what its jobs and walks are worth to it.                    *)

(* Gmail's successor of every page of the set is in the set.               *)
Closed(X) == \A p \in X : next[p] # NoPage => next[p] \in X

SearchJobs == [start : S!Pages, index : Nat, hashes : SUBSET PageTokens, tries : Nat]
SearchWalks == [pc : {"idle", "list", "tell", "turn"}, page : S!Pages \cup {NoPage},
                used : Nat, seen : SUBSET S!Pages, job : SearchJobs]

SearchTyped ==
    /\ next \in [S!Pages -> PageTokens \cup {NoPage}]
    /\ told \subseteq S!Pages
    /\ waiting \subseteq SearchJobs
    /\ hunt \in [Sessions -> SearchWalks]
    /\ requests \in Nat /\ givenUp \in BOOLEAN

(* The pages of a walk lead from its first to the one it is at, and those  *)
(* it has left behind were announced.                                      *)
Trail(w) == hunt[w].seen \cup {hunt[w].job.start}
TrailTold ==
    \A w \in Sessions : S!Busy(w) =>
      /\ hunt[w].page \in Trail(w) /\ hunt[w].page \in S!Pages
      /\ Trail(w) \ {hunt[w].page} \subseteq told
      /\ hunt[w].pc = "turn" => hunt[w].page \in told
      /\ \A p \in Trail(w) \ {hunt[w].page} : next[p] \in Trail(w)

(* A walk stays on the pages that its first one leads to.                  *)
TrailLeads ==
    \A w \in Sessions : S!Busy(w) =>
      \A X \in SUBSET S!Pages : Closed(X) /\ hunt[w].job.start \in X => Trail(w) \subseteq X

(* Whatever the pages lead to from which the jobs of the search start, with*)
(* what was announced it is all of the search.                             *)
Covers(X) ==
    /\ Closed(told \cup X)
    /\ requests > 0 => First \in told \cup X
Starts == {j.start : j \in S!Active}
JobsCover ==
    ~givenUp => \A X \in SUBSET S!Pages : Closed(X) /\ Starts \subseteq X => Covers(X)

SearchInv == SearchTyped /\ TrailTold /\ TrailLeads /\ JobsCover

LEMMA SearchInitially == S!Init => SearchInv
<1> SUFFICES ASSUME S!Init PROVE SearchInv
  OBVIOUS
<1>1. S!NoWalk \in SearchWalks /\ S!NoWalk.pc = "idle"
  BY DEF S!NoWalk, SearchWalks, SearchJobs, S!Pages
<1>2. SearchTyped
  BY <1>1 DEF S!Init, SearchTyped
<1>3. \A w \in Sessions : ~S!Busy(w)
  BY <1>1 DEF S!Init, S!Busy
<1>4. TrailTold /\ TrailLeads
  BY <1>3 DEF TrailTold, TrailLeads
<1>5. JobsCover
  BY DEF S!Init, JobsCover, Covers, Closed
<1> QED BY <1>2, <1>4, <1>5 DEF SearchInv

(* A step loses no page if it keeps each start, or ends a walk that told   *)
(* what it went through and has somebody else start where it stopped.      *)
LEMMA CoverKept ==
  ASSUME JobsCover, UNCHANGED <<next, requests>>, told' = told, givenUp' = givenUp,
         \A X \in SUBSET S!Pages : Closed(X) /\ Starts' \subseteq X =>
           \E Y \in SUBSET S!Pages : Closed(Y) /\ Starts \subseteq Y /\ told \cup X = told \cup Y
  PROVE  JobsCover'
<1> SUFFICES ASSUME ~givenUp, NEW X \in SUBSET S!Pages, Closed(X)', Starts' \subseteq X
             PROVE  Covers(X)'
  BY DEF JobsCover
<1>1. Closed(X)
  BY DEF Closed
<1>2. PICK Y \in SUBSET S!Pages : Closed(Y) /\ Starts \subseteq Y /\ told \cup X = told \cup Y
  BY <1>1
<1>3. Covers(Y)
  BY <1>2 DEF JobsCover
<1> QED BY <1>2, <1>3 DEF Covers, Closed

LEMMA StartsKept ==
  ASSUME \A j \in S!Active : \E i \in S!Active' : i.start = j.start
  PROVE  Starts \subseteq Starts'
BY DEF Starts

LEMMA SearchKeeps ==
  ASSUME SearchInv, S!Search PROVE SearchInv'
<1> DEFINE r == [start |-> First, index |-> 0, hashes |-> {}, tries |-> 0]
<1>0. r \in SearchJobs
  BY DEF SearchJobs, S!Pages
<1>1. waiting \subseteq waiting' /\ waiting' \subseteq waiting \cup {r} /\ hunt' = hunt
  BY DEF S!Search, S!Queue
<1>2. SearchTyped'
  <2>1. waiting' \subseteq SearchJobs
    BY <1>0, <1>1 DEF SearchInv, SearchTyped
  <2> QED BY <1>1, <2>1 DEF S!Search, SearchInv, SearchTyped
<1>3. TrailTold' /\ TrailLeads'
  BY <1>1 DEF S!Search, SearchInv, TrailTold, TrailLeads, Trail, S!Busy, Closed
<1>4. \E i \in S!Active' : i.start = First
  <2>1. CASE S!Key(r) \in {S!Key(o) : o \in S!Active}
    <3>1. PICK o \in S!Active : S!Key(o) = S!Key(r)
      BY <2>1
    <3>2. o \in S!Active' /\ o.start = First
      BY <1>1, <3>1 DEF S!Active, S!Busy, S!Key
    <3> QED BY <3>2
  <2>2. CASE S!Key(r) \notin {S!Key(o) : o \in S!Active}
    BY <2>2 DEF S!Search, S!Queue, S!Active
  <2> QED BY <2>1, <2>2
<1>5. Starts \subseteq Starts' /\ First \in Starts'
  <2>1. S!Active \subseteq S!Active'
    BY <1>1 DEF S!Active, S!Busy
  <2> QED BY <1>4, <2>1 DEF Starts
<1>6. JobsCover'
  <2> SUFFICES ASSUME ~givenUp, NEW X \in SUBSET S!Pages, Closed(X)', Starts' \subseteq X
               PROVE  Covers(X)'
    BY DEF JobsCover, S!Search
  <2>1. Closed(X) /\ Starts \subseteq X /\ First \in X
    BY <1>5 DEF Closed, S!Search
  <2> QED BY <2>1 DEF S!Search, SearchInv, JobsCover, Covers, Closed
<1> QED BY <1>2, <1>3, <1>6 DEF SearchInv

(* A worker other than the one that takes the step keeps its walk.         *)
OnlyWalk(w) == \A v \in Sessions \ {w} : hunt'[v] = hunt[v]

LEMMA ClaimKeeps ==
  ASSUME SearchInv, NEW w \in Sessions, NEW j \in waiting, S!Claim(w, j) PROVE SearchInv'
<1>0. j \in SearchJobs /\ ~S!Busy(w) /\ UNCHANGED <<next, told, givenUp, requests>>
  BY DEF S!Claim, SearchInv, SearchTyped
<1> DEFINE claimed == [j EXCEPT !.tries = @ + 1]
           new == [pc |-> "list", page |-> j.start, used |-> 0, seen |-> {j.start} \ {First}, job |-> claimed]
<1>1. claimed \in SearchJobs /\ claimed.start = j.start
  BY <1>0 DEF SearchJobs
<1>2. new \in SearchWalks
  BY <1>0, <1>1 DEF SearchJobs, SearchWalks
<1>3. hunt' = [hunt EXCEPT ![w] = new] /\ waiting' = waiting \ {j}
  BY DEF S!Claim
<1>4. new.pc = "list" /\ new.page = j.start /\ new.seen \subseteq {j.start} /\ new.job.start = j.start /\ new.job = claimed
  BY <1>1
<1> HIDE DEF new, claimed
<1>5. hunt'[w] = new /\ OnlyWalk(w)
  BY <1>3 DEF SearchInv, SearchTyped, OnlyWalk
<1>6. SearchTyped'
  BY <1>0, <1>2, <1>3 DEF SearchInv, SearchTyped
<1>7. Trail(w)' = {j.start} /\ hunt'[w].page = j.start /\ hunt'[w].pc = "list"
  BY <1>4, <1>5 DEF Trail
<1>8. j.start \in S!Pages
  BY <1>0 DEF SearchJobs
<1>9. \A v \in Sessions \ {w} : (S!Busy(v)' <=> S!Busy(v)) /\ Trail(v)' = Trail(v)
  BY <1>5 DEF OnlyWalk, S!Busy, Trail
<1>10. TrailTold'
  BY <1>0, <1>5, <1>7, <1>8, <1>9 DEF SearchInv, TrailTold, OnlyWalk
<1>11. TrailLeads'
  BY <1>0, <1>4, <1>5, <1>7, <1>8, <1>9 DEF SearchInv, TrailLeads, OnlyWalk, Closed
<1>12. Starts \subseteq Starts'
  <2>1. S!Busy(w)'
    BY <1>7 DEF S!Busy
  <2>2. ASSUME NEW i \in S!Active PROVE \E k \in S!Active' : k.start = i.start
    <3>1. CASE i = j
      BY <1>4, <1>5, <2>1, <3>1 DEF S!Active
    <3>2. CASE i \in waiting \ {j}
      BY <1>3, <3>2 DEF S!Active
    <3>3. CASE i \in {hunt[v].job : v \in {u \in Sessions : S!Busy(u)}}
      BY <1>0, <1>5, <1>9, <3>3 DEF S!Active, OnlyWalk
    <3> QED BY <3>1, <3>2, <3>3 DEF S!Active
  <2> QED BY <2>2, StartsKept
<1>13. JobsCover'
  BY <1>0, <1>12, CoverKept DEF SearchInv
<1> QED BY <1>6, <1>10, <1>11, <1>13 DEF SearchInv

(* The steps of a walk that goes on: its job stays, and so do the starts.  *)
LEMMA WalkGoesOn ==
  ASSUME SearchInv, NEW w \in Sessions, S!Busy(w), NEW r \in SearchWalks,
         hunt' = [hunt EXCEPT ![w] = r], r.job = hunt[w].job, r.pc # "idle",
         UNCHANGED <<next, waiting, givenUp, requests>>, told \subseteq told', told' \subseteq S!Pages,
         r.page \in S!Pages, hunt[w].seen \subseteq r.seen, r.page \in r.seen \cup {r.job.start},
         (r.seen \cup {r.job.start}) \ {r.page} \subseteq told', r.pc = "turn" => r.page \in told',
         \A p \in (r.seen \cup {r.job.start}) \ {r.page} : next[p] \in r.seen \cup {r.job.start},
         \A p \in r.seen \ Trail(w) : p = next[hunt[w].page] /\ p # NoPage,
         told' \ told \subseteq Trail(w)
  PROVE  SearchInv'
<1>1. SearchTyped'
  BY DEF SearchInv, SearchTyped
<1>2. hunt'[w] = r /\ OnlyWalk(w)
  BY DEF SearchInv, SearchTyped, OnlyWalk
<1>3. \A v \in Sessions \ {w} : (S!Busy(v)' <=> S!Busy(v)) /\ Trail(v)' = Trail(v)
  BY <1>2 DEF OnlyWalk, S!Busy, Trail
<1>4. Trail(w)' = r.seen \cup {r.job.start} /\ S!Busy(w)'
  BY <1>2 DEF Trail, S!Busy
<1>5. TrailTold'
  <2> SUFFICES ASSUME NEW v \in Sessions, S!Busy(v)'
               PROVE  /\ hunt'[v].page \in Trail(v)' /\ hunt'[v].page \in S!Pages
                      /\ Trail(v)' \ {hunt'[v].page} \subseteq told'
                      /\ hunt'[v].pc = "turn" => hunt'[v].page \in told'
                      /\ \A p \in Trail(v)' \ {hunt'[v].page} : next'[p] \in Trail(v)'
    BY DEF TrailTold
  <2>1. CASE v = w
    BY <1>2, <1>4, <2>1
  <2>2. CASE v # w
    BY <1>2, <1>3, <2>2 DEF SearchInv, TrailTold, OnlyWalk
  <2> QED BY <2>1, <2>2
<1>6. TrailLeads'
  <2> SUFFICES ASSUME NEW v \in Sessions, S!Busy(v)', NEW X \in SUBSET S!Pages, Closed(X)',
                      hunt'[v].job.start \in X
               PROVE  Trail(v)' \subseteq X
    BY DEF TrailLeads
  <2>0. Closed(X)
    BY DEF Closed
  <2>1. CASE v = w
    <3>1. Trail(w) \subseteq X /\ hunt[w].page \in Trail(w)
      BY <1>2, <2>0, <2>1 DEF SearchInv, TrailLeads, TrailTold
    <3>2. \A p \in r.seen \ Trail(w) : p \in X
      BY <2>0, <3>1 DEF Closed
    <3> QED BY <1>2, <1>4, <2>1, <3>1, <3>2
  <2>2. CASE v # w
    BY <1>2, <1>3, <2>0, <2>2 DEF SearchInv, TrailLeads, OnlyWalk
  <2> QED BY <2>1, <2>2
<1>7. S!Active' = S!Active
  BY <1>2, <1>3, <1>4 DEF S!Active, OnlyWalk
<1>8. JobsCover'
  <2> SUFFICES ASSUME ~givenUp, NEW X \in SUBSET S!Pages, Closed(X)', Starts' \subseteq X
               PROVE  Covers(X)'
    BY DEF JobsCover
  <2>1. Closed(X) /\ Starts \subseteq X
    BY <1>7 DEF Closed, Starts
  <2>2. hunt[w].job.start \in X
    BY <2>1 DEF Starts, S!Active
  <2>3. Trail(w) \subseteq X
    BY <2>1, <2>2 DEF SearchInv, TrailLeads
  <2>4. Covers(X) /\ told' \cup X = told \cup X
    BY <2>1, <2>3 DEF SearchInv, JobsCover
  <2> QED BY <2>4 DEF Covers, Closed
<1> QED BY <1>1, <1>5, <1>6, <1>8 DEF SearchInv

LEMMA HydrateKeeps ==
  ASSUME SearchInv, NEW w \in Sessions, S!Hydrate(w) PROVE SearchInv'
<1> DEFINE r == [hunt[w] EXCEPT !.pc = "tell", !.used = @ + 1]
<1>1. hunt[w] \in SearchWalks /\ S!Busy(w) /\ hunt[w].pc = "list"
  BY DEF SearchInv, SearchTyped, S!Hydrate, S!Busy
<1>2. r \in SearchWalks /\ hunt' = [hunt EXCEPT ![w] = r]
  <2>1. r \in SearchWalks
    <3>1. hunt[w].used + 1 \in Nat /\ hunt[w].page \in S!Pages \cup {NoPage}
      BY <1>1 DEF SearchWalks
    <3>2. \A x \in SearchWalks, n \in Nat : [x EXCEPT !.pc = "tell", !.used = n] \in SearchWalks
      BY DEF SearchWalks
    <3> QED BY <1>1, <3>1, <3>2
  <2>2. \A v \in Sessions : hunt'[v] = IF v = w THEN r ELSE hunt[v]
    BY <1>1 DEF SearchInv, SearchTyped, SearchWalks, S!Hydrate
  <2> QED BY <2>1, <2>2 DEF S!Hydrate, SearchInv, SearchTyped
<1>3. r.pc = "tell" /\ r.page = hunt[w].page /\ r.seen = hunt[w].seen /\ r.job = hunt[w].job
  BY <1>1 DEF SearchWalks
<1> HIDE DEF r
<1>4. /\ r.page \in Trail(w) /\ r.page \in S!Pages /\ Trail(w) \ {r.page} \subseteq told
      /\ \A p \in Trail(w) \ {r.page} : next[p] \in Trail(w)
  BY <1>1, <1>3 DEF SearchInv, TrailTold
<1>5. Trail(w) = r.seen \cup {r.job.start} /\ hunt[w].seen \subseteq Trail(w)
  BY <1>3 DEF Trail
<1>6. UNCHANGED <<next, waiting, givenUp, requests, told>> /\ told \subseteq S!Pages
  BY DEF S!Hydrate, SearchInv, SearchTyped
<1> QED BY <1>1, <1>2, <1>3, <1>4, <1>5, <1>6, WalkGoesOn

LEMMA TellKeeps ==
  ASSUME SearchInv, NEW w \in Sessions, S!Tell(w) PROVE SearchInv'
<1> DEFINE r == [hunt[w] EXCEPT !.pc = "turn"]
<1>1. hunt[w] \in SearchWalks /\ S!Busy(w)
  BY DEF SearchInv, SearchTyped, S!Tell, S!Busy
<1>2. r \in SearchWalks /\ hunt' = [hunt EXCEPT ![w] = r]
  BY <1>1 DEF SearchWalks, S!Tell
<1>3. r.pc = "turn" /\ r.page = hunt[w].page /\ r.seen = hunt[w].seen /\ r.job = hunt[w].job
  BY <1>1 DEF SearchWalks
<1> HIDE DEF r
<1>4. /\ r.page \in Trail(w) /\ r.page \in S!Pages /\ Trail(w) \ {r.page} \subseteq told
      /\ \A p \in Trail(w) \ {r.page} : next[p] \in Trail(w)
  BY <1>1, <1>3 DEF SearchInv, TrailTold
<1>5. Trail(w) = r.seen \cup {r.job.start} /\ hunt[w].seen \subseteq Trail(w)
  BY <1>3 DEF Trail
<1>6. UNCHANGED <<next, waiting, givenUp, requests>> /\ told \subseteq S!Pages
  BY DEF S!Tell, SearchInv, SearchTyped
<1>7. told' = told \cup {r.page}
  BY <1>3 DEF S!Tell
<1> QED BY <1>1, <1>2, <1>3, <1>4, <1>5, <1>6, <1>7, WalkGoesOn

LEMMA TurnKeeps ==
  ASSUME SearchInv, NEW w \in Sessions, S!Turn(w) PROVE SearchInv'
<1> DEFINE t == next[hunt[w].page]
           r == [hunt[w] EXCEPT !.pc = "list", !.page = t, !.seen = @ \cup {t}]
<1>1. hunt[w] \in SearchWalks /\ S!Busy(w) /\ t # NoPage /\ hunt[w].pc = "turn" /\ t = S!Token(w)
  BY DEF SearchInv, SearchTyped, S!Turn, S!Busy, S!Token
<1>2. hunt[w].page \in S!Pages /\ hunt[w].page \in told /\ hunt[w].page \in Trail(w)
  BY <1>1 DEF SearchInv, TrailTold
<1>3. t \in S!Pages
  BY <1>1, <1>2 DEF SearchInv, SearchTyped, S!Pages
<1>4. r \in SearchWalks /\ hunt' = [hunt EXCEPT ![w] = r]
  BY <1>1, <1>3 DEF SearchWalks, S!Turn
<1>5. r.pc = "list" /\ r.page = t /\ r.seen = hunt[w].seen \cup {t} /\ r.job = hunt[w].job
  BY <1>1 DEF SearchWalks
<1>6. Trail(w) \subseteq told /\ \A p \in Trail(w) : next[p] \in Trail(w) \cup {t}
  BY <1>1, <1>2 DEF SearchInv, TrailTold
<1>7. Trail(w) \cup {t} = r.seen \cup {r.job.start} /\ hunt[w].seen \subseteq Trail(w)
  BY <1>5 DEF Trail
<1>8. UNCHANGED <<next, waiting, givenUp, requests, told>> /\ told \subseteq S!Pages
  BY DEF S!Turn, SearchInv, SearchTyped
<1> HIDE DEF r
<1> QED BY <1>1, <1>3, <1>4, <1>5, <1>6, <1>7, <1>8, WalkGoesOn

(* A walk that ends keeps the pages it told; who else walks is not touched.*)
LEMMA WalkEnds ==
  ASSUME SearchInv, NEW w \in Sessions, S!Busy(w), hunt' = [hunt EXCEPT ![w] = S!NoWalk],
         UNCHANGED <<next, told, requests>>, waiting' \subseteq SearchJobs, givenUp' \in BOOLEAN
  PROVE  /\ SearchTyped' /\ TrailTold' /\ TrailLeads'
         /\ OnlyWalk(w) /\ ~S!Busy(w)' /\ \A v \in Sessions \ {w} : (S!Busy(v)' <=> S!Busy(v))
<1>1. S!NoWalk \in SearchWalks /\ S!NoWalk.pc = "idle"
  BY DEF S!NoWalk, SearchWalks, SearchJobs, S!Pages
<1>2. hunt'[w] = S!NoWalk /\ OnlyWalk(w)
  BY DEF SearchInv, SearchTyped, OnlyWalk
<1>3. ~S!Busy(w)' /\ \A v \in Sessions \ {w} : (S!Busy(v)' <=> S!Busy(v)) /\ Trail(v)' = Trail(v)
  BY <1>1, <1>2 DEF OnlyWalk, S!Busy, Trail
<1>4. SearchTyped'
  BY <1>1 DEF SearchInv, SearchTyped
<1>5. TrailTold'
  BY <1>2, <1>3 DEF SearchInv, TrailTold, OnlyWalk
<1>6. TrailLeads'
  BY <1>2, <1>3 DEF SearchInv, TrailLeads, OnlyWalk, Closed
<1> QED BY <1>2, <1>3, <1>4, <1>5, <1>6

(* A walk that told all its pages may end when another has what follows.   *)
(* start or nothing.                                                       *)
LEMMA ToldWalkEnds ==
  ASSUME SearchInv, NEW w \in Sessions, hunt[w].pc = "turn", hunt' = [hunt EXCEPT ![w] = S!NoWalk],
         UNCHANGED <<next, told, requests, givenUp>>, waiting' \subseteq SearchJobs, waiting \subseteq waiting',
         S!Token(w) # NoPage => S!Token(w) \in Starts'
  PROVE  SearchInv'
<1>0. S!Busy(w) /\ givenUp \in BOOLEAN
  BY DEF S!Busy, SearchInv, SearchTyped
<1>1. /\ SearchTyped' /\ TrailTold' /\ TrailLeads'
      /\ OnlyWalk(w) /\ ~S!Busy(w)' /\ \A v \in Sessions \ {w} : (S!Busy(v)' <=> S!Busy(v))
  BY <1>0, WalkEnds
<1>2. ASSUME NEW X \in SUBSET S!Pages, Closed(X), Starts' \subseteq X
      PROVE  \E Y \in SUBSET S!Pages : Closed(Y) /\ Starts \subseteq Y /\ told \cup X = told \cup Y
  <2> DEFINE Y == X \cup Trail(w)
  <2>1. /\ Trail(w) \subseteq told /\ told \subseteq S!Pages
        /\ \A p \in Trail(w) : p = hunt[w].page \/ next[p] \in Trail(w)
    BY <1>0 DEF SearchInv, SearchTyped, TrailTold
  <2>2. next[hunt[w].page] # NoPage => next[hunt[w].page] \in X
    BY <1>2 DEF S!Token
  <2>3. Closed(Y)
    BY <1>2, <2>1, <2>2 DEF Closed
  <2>4. Starts \subseteq Y
    <3> SUFFICES ASSUME NEW j \in S!Active PROVE j.start \in Y
      BY DEF Starts
    <3>1. CASE j \in waiting
      BY <1>2, <3>1 DEF Starts, S!Active
    <3>2. CASE j = hunt[w].job
      BY <3>2 DEF Trail
    <3>3. CASE \E v \in Sessions \ {w} : S!Busy(v) /\ j = hunt[v].job
      BY <1>1, <1>2, <3>3 DEF Starts, S!Active, OnlyWalk
    <3> QED BY <3>1, <3>2, <3>3 DEF S!Active
  <2> QED BY <2>1, <2>3, <2>4
<1>3. JobsCover'
  BY <1>2, CoverKept DEF SearchInv
<1> QED BY <1>1, <1>3 DEF SearchInv

LEMMA FinishKeeps ==
  ASSUME SearchInv, NEW w \in Sessions, S!Finish(w) PROVE SearchInv'
<1>1. waiting \subseteq SearchJobs
  BY DEF SearchInv, SearchTyped
<1> QED BY <1>1, ToldWalkEnds DEF S!Finish, S!Exhausted

LEMMA ContinueKeeps ==
  ASSUME SearchInv, NEW w \in Sessions, S!Continue(w) PROVE SearchInv'
<1> DEFINE own == hunt[w].job
           r   == S!Continuation(own, S!Token(w))
<1>0. hunt[w].pc = "turn" /\ S!Busy(w) /\ S!Token(w) # NoPage /\ waiting' = S!Queue(r)
      /\ hunt' = [hunt EXCEPT ![w] = S!NoWalk] /\ UNCHANGED <<next, told, requests, givenUp>>
  BY DEF S!Continue, S!Busy, S!Exhausted
<1>1. own \in SearchJobs /\ hunt[w].page \in S!Pages
  BY <1>0 DEF SearchInv, SearchTyped, TrailTold, SearchWalks
<1>2. S!Token(w) \in PageTokens
  BY <1>0, <1>1 DEF SearchInv, SearchTyped, S!Token
<1>3. r \in SearchJobs /\ r.start = S!Token(w) /\ r.index # own.index
  BY <1>1, <1>2 DEF SearchJobs, S!Continuation, S!Pages
<1> HIDE DEF r, own
<1>4. waiting \subseteq waiting' /\ waiting' \subseteq waiting \cup {r}
  BY <1>0 DEF S!Queue
<1>5. waiting' \subseteq SearchJobs /\ givenUp \in BOOLEAN
  BY <1>3, <1>4 DEF SearchInv, SearchTyped
<1>6. OnlyWalk(w) /\ \A v \in Sessions \ {w} : (S!Busy(v)' <=> S!Busy(v))
  BY <1>0, <1>5, WalkEnds
<1>7. S!Token(w) \in Starts'
  <2>1. CASE S!Key(r) \in {S!Key(o) : o \in S!Active}
    <3>1. PICK o \in S!Active : S!Key(o) = S!Key(r)
      BY <2>1
    <3>2. o.start = r.start /\ o.index = r.index
      BY <3>1 DEF S!Key
    <3>3. o # own
      BY <1>3, <3>2
    <3>4. o \in S!Active'
      BY <1>4, <1>6, <3>3 DEF S!Active, OnlyWalk, own
    <3> QED BY <1>3, <3>2, <3>4 DEF Starts
  <2>2. CASE S!Key(r) \notin {S!Key(o) : o \in S!Active}
    BY <1>0, <1>3, <2>2 DEF S!Queue, S!Active, Starts
  <2> QED BY <2>1, <2>2
<1> QED BY <1>0, <1>4, <1>5, <1>7, ToldWalkEnds

(* A walk that is tried again starts where it started.                     *)
LEMMA RetryKeeps ==
  ASSUME SearchInv, NEW w \in Sessions, S!Busy(w), S!Retry(w), UNCHANGED <<next, told, requests>>
  PROVE  SearchInv'
<1>0. hunt[w].job \in SearchJobs /\ waiting \subseteq SearchJobs /\ givenUp \in BOOLEAN
      /\ hunt' = [hunt EXCEPT ![w] = S!NoWalk]
  BY DEF SearchInv, SearchTyped, SearchWalks, S!Retry
<1>1. waiting' \subseteq SearchJobs /\ givenUp' \in BOOLEAN
  BY <1>0 DEF S!Retry
<1>2. /\ SearchTyped' /\ TrailTold' /\ TrailLeads'
      /\ OnlyWalk(w) /\ ~S!Busy(w)' /\ \A v \in Sessions \ {w} : (S!Busy(v)' <=> S!Busy(v))
  BY <1>0, <1>1, WalkEnds
<1>3. JobsCover'
  <2>1. CASE givenUp'
    BY <2>1 DEF JobsCover
  <2>2. CASE ~givenUp'
    <3>1. waiting' = waiting \cup {hunt[w].job} /\ givenUp' = givenUp
      BY <2>2 DEF S!Retry
    <3>2. \A j \in S!Active : j \in S!Active'
      BY <1>2, <3>1 DEF S!Active, OnlyWalk
    <3>3. Starts \subseteq Starts'
      BY <3>2 DEF Starts
    <3> QED BY <3>1, <3>3, CoverKept DEF SearchInv
  <2> QED BY <2>1, <2>2
<1> QED BY <1>2, <1>3 DEF SearchInv

LEMMA SearchInvInductive ==
  ASSUME SearchInv, [S!Next]_(S!vars) PROVE SearchInv'
<1>1. CASE S!Search
  BY <1>1, SearchKeeps
<1>2. ASSUME NEW w \in Sessions, S!Walk(w) PROVE SearchInv'
  <2>1. CASE \E j \in waiting : S!Claim(w, j)
    BY <2>1, ClaimKeeps
  <2>2. CASE S!Raise(w)
    BY <2>2, RetryKeeps DEF S!Raise, S!Busy
  <2> QED BY <1>2, <2>1, <2>2, HydrateKeeps, TellKeeps, TurnKeeps, FinishKeeps, ContinueKeeps DEF S!Walk
<1>3. ASSUME NEW w \in Sessions, S!Outage(w) PROVE SearchInv'
  BY <1>3, RetryKeeps DEF S!Outage
<1>4. CASE UNCHANGED S!vars
  <2>1. SearchTyped' /\ TrailTold' /\ TrailLeads'
    BY <1>4 DEF S!vars, SearchInv, SearchTyped, TrailTold, TrailLeads, Trail, S!Busy, Closed
  <2>2. Starts \subseteq Starts'
    BY <1>4 DEF S!vars, Starts, S!Active, S!Busy
  <2> QED BY <1>4, <2>1, <2>2, CoverKept DEF S!vars, SearchInv
<1> QED BY <1>1, <1>2, <1>3, <1>4 DEF S!Next

LEMMA SearchCardinality == \A X : S!Cardinality(X) = Cardinality(X) /\ S!IsFiniteSet(X) = IsFiniteSet(X)
  BY DEF S!Cardinality, Cardinality, S!IsFiniteSet, IsFiniteSet

(* What was announced is closed under Gmail's successor once nothing of    *)
(* the search is under way, so that every path of tokens stays in it.      *)
LEMMA PathsStay ==
  ASSUME SearchTyped, First \in told, Closed(told)
  PROVE  S!AllPages \subseteq told
<1>0. Cardinality(PageTokens) \in Nat /\ NoPage \notin S!Pages
  BY SearchAssumption, SearchCardinality, FS_CardinalityType DEF S!SearchAssumption, S!Pages
<1> SUFFICES ASSUME NEW n \in 0..Cardinality(PageTokens), NEW p \in S!Reached(n) PROVE p \in told
  BY SearchCardinality DEF S!AllPages
<1>p. PICK path \in [0..n -> S!Pages] : path[0] = First /\ path[n] = p /\ \A i \in 1..n : path[i] = next[path[i-1]]
  BY DEF S!Reached
<1> DEFINE Lost == {i \in 0..n : path[i] \notin told}
<1> SUFFICES ASSUME Lost # {} PROVE FALSE
  BY <1>0, <1>p
<1>1. PICK i \in Lost : \A k \in Lost : i <= k
  <2>1. Lost \in SUBSET Nat
    BY <1>0
  <2> QED BY <2>1, LeastOf
<1>2. i # 0 /\ i \in 1..n /\ i - 1 \in 0..n
  BY <1>0, <1>1, <1>p
<1>3. path[i-1] \in told
  BY <1>1, <1>2
<1>4. path[i] # NoPage
  BY <1>0, <1>1
<1> QED BY <1>1, <1>2, <1>3, <1>4, <1>p DEF Closed

(* A search that nobody works on any more has announced every page that    *)
(* Gmail's tokens lead to, whatever shape they have, over retries, crashes,*)
(* continuations and repeated searches (hydrate_gmail_search_results);     *)
(* unless a job of it was given up.                                        *)
THEOREM SearchesAreComplete == S!Spec => []SearchIsComplete
<1>1. SearchInv => SearchIsComplete
  <2> SUFFICES ASSUME SearchInv, requests > 0, S!Active = {}, ~givenUp PROVE S!AllPages \subseteq told
    BY DEF SearchIsComplete, S!SearchIsComplete
  <2>1. Covers({})
    BY DEF SearchInv, JobsCover, Starts, Closed
  <2> QED BY <2>1, PathsStay DEF SearchInv, Covers
<1>2. SearchInv /\ [S!Next]_(S!vars) => SearchInv'
  BY SearchInvInductive
<1> QED BY SearchInitially, <1>1, <1>2, PTL DEF S!Spec

---------------------------------------------------------------------------
(* Every finite set that a relation orders strictly and totally can be     *)
(* listed in that order.                                                   *)
Orders(lt, A) ==
    /\ \A x \in A : <<x, x>> \notin lt
    /\ \A x, y \in A : x # y => <<x, y>> \in lt \/ <<y, x>> \in lt
    /\ \A x, y, z \in A : <<x, y>> \in lt /\ <<y, z>> \in lt => <<x, z>> \in lt
Ascends(s, n, lt) == \A i, j \in 1..n : i < j => <<s[i], s[j]>> \in lt
Ascending(A, lt) == {s \in [1..Cardinality(A) -> A] : Ascends(s, Cardinality(A), lt)}

LEMMA BetweenTwo ==
  ASSUME NEW A, NEW lt, Orders(lt, A), IsFiniteSet(A), NEW x \in A,
         NEW lo, lo = {y \in A : <<y, x>> \in lt}, NEW hi, hi = {y \in A : <<x, y>> \in lt},
         NEW s \in Ascending(lo, lt), NEW t \in Ascending(hi, lt)
  PROVE  Ascending(A, lt) # {}
<1> DEFINE l == Cardinality(lo)
           h == Cardinality(hi)
           n == Cardinality(A)
           u == [i \in 1..n |-> IF i <= l THEN s[i] ELSE IF i = l + 1 THEN x ELSE t[i - l - 1]]
<1>1. x \notin lo /\ x \notin hi /\ lo \cap hi = {} /\ A = lo \cup {x} \cup hi
  BY DEF Orders
<1>2. IsFiniteSet(lo) /\ IsFiniteSet(hi) /\ l \in Nat /\ h \in Nat
  BY FS_Subset, FS_CardinalityType
<1>3. n = l + 1 + h
  <2>1. IsFiniteSet(lo \cup {x}) /\ Cardinality(lo \cup {x}) = l + 1
    BY <1>1, <1>2, FS_AddElement
  <2>2. (lo \cup {x}) \cap hi = {}
    BY <1>1
  <2>3. Cardinality((lo \cup {x}) \cup hi) = Cardinality(lo \cup {x}) + h - Cardinality((lo \cup {x}) \cap hi)
    BY <1>2, <2>1, FS_Union
  <2>4. Cardinality((lo \cup {x}) \cap hi) = 0
    BY <2>2, FS_EmptySet
  <2> HIDE DEF n, l, h
  <2>5. (lo \cup {x}) \cup hi = A
    BY <1>1
  <2>6. Cardinality((lo \cup {x}) \cup hi) = n
    BY <2>5 DEF n
  <2> QED BY <1>2, <2>1, <2>3, <2>4, <2>6
<1>4. s \in [1..l -> lo] /\ t \in [1..h -> hi] /\ Ascends(s, l, lt) /\ Ascends(t, h, lt)
  BY DEF Ascending
<1> HIDE DEF n, l, h
<1>5. u \in [1..n -> A]
  <2> SUFFICES ASSUME NEW i \in 1..n
               PROVE  (IF i <= l THEN s[i] ELSE IF i = l + 1 THEN x ELSE t[i - l - 1]) \in A
    BY DEF u
  <2>1. CASE i <= l
    BY <1>1, <1>2, <1>4, <2>1
  <2>2. CASE i > l + 1
    <3>1. i - l - 1 \in 1..h
      BY <1>2, <1>3, <2>2
    <3> QED BY <1>1, <1>2, <1>4, <2>2, <3>1
  <2> QED BY <1>1, <1>2, <2>1, <2>2
<1>6. Ascends(u, n, lt)
  <2> SUFFICES ASSUME NEW i \in 1..n, NEW j \in 1..n, i < j PROVE <<u[i], u[j]>> \in lt
    BY DEF Ascends
  <2>1. CASE j <= l
    <3>1. i \in 1..l /\ j \in 1..l /\ u[i] = s[i] /\ u[j] = s[j]
      BY <1>2, <2>1
    <3> QED BY <1>4, <3>1 DEF Ascends
  <2>2. CASE j = l + 1
    <3>1. i \in 1..l /\ u[i] = s[i] /\ u[j] = x
      BY <1>2, <2>2
    <3> QED BY <1>4, <3>1
  <2>3. CASE j > l + 1
    <3>1. j - l - 1 \in 1..h /\ u[j] = t[j - l - 1]
      BY <1>2, <1>3, <2>3
    <3>2. t[j - l - 1] \in hi
      BY <1>4, <3>1
    <3>3. CASE i <= l
      <4>1. u[i] = s[i] /\ s[i] \in lo
        BY <1>2, <1>4, <3>3
      <4>2. <<s[i], x>> \in lt /\ <<x, t[j - l - 1]>> \in lt
        BY <3>2, <4>1
      <4> QED BY <1>1, <3>1, <3>2, <4>1, <4>2 DEF Orders
    <3>4. CASE i = l + 1
      BY <1>2, <3>1, <3>2, <3>4
    <3>5. CASE i > l + 1
      <4>1. i - l - 1 \in 1..h /\ u[i] = t[i - l - 1] /\ i - l - 1 < j - l - 1
        BY <1>2, <1>3, <3>5
      <4> QED BY <1>4, <3>1, <4>1 DEF Ascends
    <3> QED BY <1>2, <3>3, <3>4, <3>5
  <2> QED BY <1>2, <2>1, <2>2, <2>3
<1> QED BY <1>5, <1>6 DEF Ascending, n

LEMMA AscendingExists ==
  ASSUME NEW A, NEW lt, Orders(lt, A), IsFiniteSet(A)
  PROVE  Ascending(A, lt) # {}
<1> DEFINE Bad == {B \in SUBSET A : Ascending(B, lt) = {}}
<1> SUFFICES ASSUME Bad # {} PROVE FALSE
  OBVIOUS
<1>1. Bad \subseteq FiniteSubsetsOf(A)
  BY FS_Subset DEF FiniteSubsetsOf
<1>2. PICK B \in Bad : \A C \in Bad : <<C, B>> \notin StrictSubsetOrdering(A)
  BY <1>1, FS_StrictSubsetOrderingWellFounded, WFMin
<1>3. \A C \in SUBSET B : C # B => Ascending(C, lt) # {}
  BY <1>2 DEF StrictSubsetOrdering
<1>4. IsFiniteSet(B) /\ Orders(lt, B)
  BY FS_Subset DEF Orders
<1>5. CASE B = {}
  <2>1. Cardinality(B) = 0
    BY <1>5, FS_EmptySet
  <2>2. [i \in 1..0 |-> 0] \in Ascending(B, lt)
    BY <2>1 DEF Ascending, Ascends
  <2> QED BY <2>2
<1>6. CASE B # {}
  <2>1. PICK x \in B : TRUE
    BY <1>6
  <2> DEFINE lo == {y \in B : <<y, x>> \in lt}
             hi == {y \in B : <<x, y>> \in lt}
  <2>2. x \notin lo /\ x \notin hi
    BY <1>4, <2>1 DEF Orders
  <2>3. lo \in SUBSET B /\ lo # B /\ hi \in SUBSET B /\ hi # B
    BY <2>1, <2>2
  <2>4. PICK s \in Ascending(lo, lt), t \in Ascending(hi, lt) : TRUE
    BY <1>3, <2>3
  <2> HIDE DEF lo, hi
  <2>5. Ascending(B, lt) # {}
    BY <1>4, <2>1, <2>4, BetweenTwo DEF lo, hi
  <2> QED BY <2>5
<1> QED BY <1>5, <1>6

(* Such a list names every element, and each once.                         *)
LEMMA AscendingNames ==
  ASSUME NEW A, NEW lt, Orders(lt, A), IsFiniteSet(A), NEW s \in Ascending(A, lt)
  PROVE  /\ \A x \in A : \E i \in 1..Cardinality(A) : s[i] = x
         /\ \A i, j \in 1..Cardinality(A) : s[i] = s[j] => i = j
         /\ Cardinality(A) \in Nat /\ s \in Seq(A) /\ Len(s) = Cardinality(A) /\ {s[i] : i \in DOMAIN s} = A
<1> DEFINE n == Cardinality(A)
<1>1. n \in Nat
  BY FS_CardinalityType
<1>2. s \in [1..n -> A] /\ Ascends(s, n, lt)
  BY DEF Ascending
<1>c. IsFiniteSet(1..n) /\ Cardinality(1..n) = n
  BY <1>1, FS_Interval
<1> HIDE DEF n
<1>3. ASSUME NEW i \in 1..n, NEW j \in 1..n, s[i] = s[j] PROVE i = j
  <2>1. s[i] \in A /\ <<s[i], s[i]>> \notin lt
    BY <1>2 DEF Orders
  <2>2. ~(i < j) /\ ~(j < i)
    BY <1>2, <1>3, <2>1 DEF Ascends
  <2> QED BY <1>1, <2>2
<1>4. s \in Injection(1..n, A)
  BY <1>2, <1>3 DEF Injection, IsInjective
<1>5. s \in Surjection(1..n, A)
  BY <1>c, <1>4, FS_Injection DEF n
<1>6. \A x \in A : \E i \in 1..n : s[i] = x
  BY <1>5 DEF Surjection
<1>7. s \in Seq(A) /\ Len(s) = n
  BY <1>1, <1>2
<1>8. {s[i] : i \in DOMAIN s} = A
  BY <1>2, <1>6
<1> QED BY <1>1, <1>3, <1>6, <1>7, <1>8 DEF n

---------------------------------------------------------------------------
(* The reader: what the pages collected so far are worth.                  *)
LEMMA ReaderCardinality == \A X : R!Cardinality(X) = Cardinality(X) /\ R!IsFiniteSet(X) = IsFiniteSet(X)
  BY DEF R!Cardinality, Cardinality, R!IsFiniteSet, IsFiniteSet

(* The messages of a conversation are listed by their dates, each once.    *)
Earlier == {p \in Nat \X Nat : p[1] < p[2]}

LEMMA InOrderLists ==
  ASSUME NEW A \in SUBSET Messages
  PROVE  /\ IsFiniteSet(A) /\ Cardinality(A) \in Nat
         /\ R!InOrder(A) \in [1..Cardinality(A) -> A] /\ R!InOrder(A) \in Seq(A)
         /\ Len(R!InOrder(A)) = Cardinality(A) /\ R!Range(R!InOrder(A)) = A
<1>1. A \subseteq Nat /\ IsFiniteSet(A)
  BY ReaderAssumption, ReaderCardinality, FS_Subset DEF R!ReaderAssumption
<1>2. Orders(Earlier, A)
  BY <1>1 DEF Orders, Earlier
<1>3. Ascending(A, Earlier) # {}
  BY <1>1, <1>2, AscendingExists
<1>4. \A s \in [1..Cardinality(A) -> A] :
        s \in Ascending(A, Earlier) <=> \A i, j \in DOMAIN s : i < j => s[i] < s[j]
  BY <1>1 DEF Ascending, Ascends, Earlier
<1>5. \E s \in [1..Cardinality(A) -> A] : \A i, j \in DOMAIN s : i < j => s[i] < s[j]
  BY <1>3, <1>4 DEF Ascending
<1>6. R!InOrder(A) \in Ascending(A, Earlier)
  <2>1. R!InOrder(A) = CHOOSE s \in [1..Cardinality(A) -> A] : \A i, j \in DOMAIN s : i < j => s[i] < s[j]
    BY ReaderCardinality DEF R!InOrder
  <2> QED BY <1>4, <1>5, <2>1
<1> QED BY <1>1, <1>2, <1>6, AscendingNames DEF Ascending, R!Range

(* The beginning of a conversation, as far as an offset.                   *)
UpTo(A, n) == SubSeq(R!InOrder(A), 1, IF n < Cardinality(A) THEN n ELSE Cardinality(A))
Named(r) == {p[1] : p \in r}

(* As long as all its pages came under one revision, the reader holds the  *)
(* conversation of that revision as far as the offset.                     *)
WalkHolds(w) ==
    /\ w = [offset |-> w.offset, seen |-> w.seen, revisions |-> w.revisions, first |-> w.first, done |-> w.done]
    /\ w.offset \in Nat /\ IsFiniteSet(w.revisions)
    /\ w.revisions = {} => w.offset = 0 /\ w.seen = <<>> /\ ~w.done
    /\ \A r : w.revisions = {r} =>
         /\ w.offset > 0
         /\ w.first = Named(r) /\ w.first \in SUBSET Messages
         /\ w.seen = UpTo(w.first, w.offset)
         /\ w.done => w.offset >= Cardinality(w.first)
    /\ w.offset = 0 => w.revisions = {}

(* What a batch request given before a rebuild still fits the replica.     *)
RequestHolds ==
    /\ DOMAIN req = {"kind", "step", "size", "page", "of", "bodies", "answer", "stale"}
    /\ req.size \in Nat
    /\ req.kind # "none" \/ req.answer = "none"
    /\ req.kind = "batch" /\ req.step \in {"read", "rebuild", "reread"} => req.answer = "none"
    /\ req.kind = "batch" /\ req.step \in {"rebuild", "reread"} =>
         req.of \in SUBSET Messages /\ Cardinality(req.of) <= BatchLimit

ReaderInv ==
    /\ WalkHolds(reader)
    /\ req.kind = "page" => WalkHolds(held)
    /\ RequestHolds
    /\ R!WholeIsWhole

LEMMA ReaderInitially == R!Init => ReaderInv
<1> SUFFICES ASSUME R!Init PROVE ReaderInv
  OBVIOUS
<1>1. IsFiniteSet({})
  BY FS_EmptySet
<1> QED BY <1>1 DEF R!Init, ReaderInv, WalkHolds, RequestHolds, R!WholeIsWhole, R!NoWalk, R!NoRequest

LEMMA PagesJoin ==
  ASSUME NEW A \in SUBSET Messages, NEW n \in Nat
  PROVE  LET C == Cardinality(A)
             page == SubSeq(R!InOrder(A), n + 1, IF n + PageLimit < C THEN n + PageLimit ELSE C)
         IN /\ UpTo(A, n) \o page = UpTo(A, n + PageLimit)
            /\ n + Len(page) >= C => n + PageLimit >= C
<1> DEFINE C == Cardinality(A)
           s == R!InOrder(A)
           k == IF n < C THEN n ELSE C
           m == IF n + PageLimit < C THEN n + PageLimit ELSE C
<1>1. C \in Nat /\ s \in Seq(A) /\ Len(s) = C /\ PageLimit \in Nat \ {0}
  BY InOrderLists, ReaderAssumption DEF R!ReaderAssumption
<1> HIDE DEF C, s
<1>2. k \in 0..C /\ m \in 0..C /\ k <= m /\ (n < C => k = n) /\ (n >= C => k = C /\ m = C)
  BY <1>1
<1>3. SubSeq(s, 1, k) \o SubSeq(s, n + 1, m) = SubSeq(s, 1, m)
  <2>1. CASE n < C
    <3>1. k = n
      BY <1>2, <2>1
    <3> HIDE DEF k, m
    <3> QED BY <1>1, <1>2, <3>1
  <2>2. CASE n >= C
    <3>1. k = C /\ m = C
      BY <1>2, <2>2
    <3> HIDE DEF k, m
    <3>2. SubSeq(s, n + 1, m) = <<>>
      BY <1>1, <2>2, <3>1
    <3> QED BY <1>1, <3>1, <3>2
  <2> QED BY <1>1, <2>1, <2>2
<1>4. n + Len(SubSeq(s, n + 1, m)) >= C => n + PageLimit >= C
  BY <1>1, <1>2
<1> QED BY <1>3, <1>4 DEF UpTo, C, s

LEMMA CollectedHolds ==
  ASSUME WalkHolds(reader), R!Present # {}
  PROVE  WalkHolds(R!Collected(R!Page))
<1> DEFINE A == R!Present
           n == reader.offset
           w == R!Collected(R!Page)
<1>1. A \in SUBSET Messages /\ n \in Nat /\ PageLimit \in Nat \ {0} /\ n + PageLimit \in Nat /\ n + PageLimit > 0
  BY ReaderAssumption DEF R!Present, WalkHolds, R!ReaderAssumption
<1>2. Named(R!Revision) = A
  <2>1. \A p \in R!Revision : p[1] \in A
    BY DEF R!Revision
  <2>2. \A m \in A : <<m, row[m].rev>> \in R!Revision /\ <<m, row[m].rev>>[1] = m
    BY DEF R!Revision
  <2> QED BY <2>1, <2>2 DEF Named
<1>d. DOMAIN reader = {"offset", "seen", "revisions", "first", "done"}
  <2>1. reader = [offset |-> reader.offset, seen |-> reader.seen, revisions |-> reader.revisions,
                  first |-> reader.first, done |-> reader.done]
    BY DEF WalkHolds
  <2> QED BY <2>1
<1>3. /\ w.offset = n + PageLimit /\ w.seen = reader.seen \o R!Page
      /\ w.revisions = reader.revisions \cup {R!Revision}
      /\ w.first = (IF n = 0 THEN A ELSE reader.first)
      /\ w.done = (n + Len(R!Page) >= Cardinality(A))
      /\ w = [offset |-> w.offset, seen |-> w.seen, revisions |-> w.revisions, first |-> w.first, done |-> w.done]
  <2>1. w = [reader EXCEPT !.seen = @ \o R!Page, !.offset = @ + PageLimit, !.revisions = @ \cup {R!Revision},
                           !.first = IF reader.offset = 0 THEN R!Present ELSE @,
                           !.done = reader.offset + Len(R!Page) >= Cardinality(R!Present)]
    BY ReaderCardinality DEF R!Collected
  <2> HIDE DEF w, A
  <2>2. DOMAIN w = {"offset", "seen", "revisions", "first", "done"}
    BY <1>d, <2>1
  <2>3. w = [offset |-> w.offset, seen |-> w.seen, revisions |-> w.revisions, first |-> w.first, done |-> w.done]
    BY <1>d, <2>1
  <2> QED BY <1>d, <2>1, <2>3 DEF A
<1>4. /\ UpTo(A, n) \o R!Page = UpTo(A, n + PageLimit)
      /\ n + Len(R!Page) >= Cardinality(A) => n + PageLimit >= Cardinality(A)
  BY <1>1, PagesJoin, ReaderCardinality DEF R!Page
<1>5. IsFiniteSet(w.revisions)
  <2>1. IsFiniteSet(reader.revisions)
    BY DEF WalkHolds
  <2> HIDE DEF w
  <2> QED BY <1>3, <2>1, FS_AddElement
<1>6. w.revisions # {} /\ w.offset > 0 /\ w.offset \in Nat
  BY <1>1, <1>3
<1>7. ASSUME NEW r, w.revisions = {r}
      PROVE  /\ w.first = Named(r) /\ w.first \in SUBSET Messages
             /\ w.seen = UpTo(w.first, w.offset)
             /\ w.done => w.offset >= Cardinality(w.first)
  <2>1. r = R!Revision /\ (reader.revisions = {} \/ reader.revisions = {r})
    BY <1>3, <1>7
  <2>2. w.first = A /\ reader.seen = UpTo(A, n)
    <3>1. CASE reader.revisions = {}
      <4>1. n = 0 /\ reader.seen = <<>>
        BY <3>1 DEF WalkHolds
      <4>2. UpTo(A, 0) = <<>>
        BY <1>1, InOrderLists DEF UpTo
      <4> QED BY <1>3, <4>1, <4>2
    <3>2. CASE reader.revisions = {r}
      BY <1>2, <1>3, <2>1, <3>2 DEF WalkHolds
    <3> QED BY <2>1, <3>1, <3>2
  <2> QED BY <1>1, <1>2, <1>3, <1>4, <2>1, <2>2
<1> HIDE DEF w
<1>8. w.revisions # {} /\ w.offset # 0
  BY <1>6
<1>9. WalkHolds(w)
  BY <1>3, <1>5, <1>6, <1>7, <1>8 DEF WalkHolds
<1> QED BY <1>9 DEF w

LEMMA AnswerHolds ==
  ASSUME NEW given \in SUBSET Messages, NEW bodies, Cardinality(given) <= BatchLimit, req.size \in Nat,
         DOMAIN req = {"kind", "step", "size", "page", "of", "bodies", "answer", "stale"},
         req' = R!Answer(given, bodies)
  PROVE  req'.size \in Nat /\ req'.kind = req.kind /\ req'.step = "answered" /\ R!WholeIsWhole'
<1> DEFINE n == Cardinality(given)
           s == R!InOrder(given)
           page == SubSeq(s, 1, IF n < req.size THEN n ELSE req.size)
<1>1. n \in Nat /\ s \in Seq(given) /\ Len(s) = n /\ R!Range(s) = given
  BY InOrderLists
<1>2. /\ req'.size = req.size /\ req'.kind = req.kind /\ req'.step = "answered" /\ req'.of = given /\ req'.bodies = bodies
      /\ req'.answer = "whole" => req'.page = page /\ n <= req.size /\ R!Range(page) \subseteq bodies
  BY <1>1, ReaderCardinality DEF R!Answer, R!HasMore
<1>3. n <= req.size => page = s
  BY <1>1
<1> HIDE DEF n, s, page
<1> QED BY <1>1, <1>2, <1>3 DEF R!WholeIsWhole, n

LEMMA ReaderInvInductive ==
  ASSUME ReaderInv, [R!Next]_(R!vars) PROVE ReaderInv'
<1>1. CASE \E m \in Messages : R!Stored(m) \/ R!BodyFetched(m) \/ R!Deleted(m)
  BY <1>1 DEF R!Stored, R!BodyFetched, R!Deleted, ReaderInv, WalkHolds, RequestHolds, R!WholeIsWhole
<1>2. CASE R!ReadPage
  <2>1. req = R!NoRequest /\ row' = row
    BY <1>2 DEF R!ReadPage
  <2>2. WalkHolds(R!NoWalk)
    BY FS_EmptySet DEF WalkHolds, R!NoWalk
  <2>3. WalkHolds(reader')
    BY <1>2, <2>2, CollectedHolds DEF R!ReadPage, ReaderInv
  <2>4. req'.kind = "page" => WalkHolds(held')
    BY <1>2, <2>1, CollectedHolds DEF R!ReadPage, R!NoRequest, ReaderInv
  <2>5. RequestHolds' /\ R!WholeIsWhole'
    BY <1>2, <2>1 DEF R!ReadPage, R!NoRequest, ReaderInv, RequestHolds, R!WholeIsWhole
  <2> QED BY <2>3, <2>4, <2>5 DEF ReaderInv, WalkHolds
<1>3. CASE R!Rebuild
  <2>1. RequestHolds' /\ R!WholeIsWhole' /\ req'.kind = req.kind
    BY <1>3 DEF R!Rebuild, ReaderInv, RequestHolds, R!WholeIsWhole
  <2> QED BY <1>3, <2>1 DEF R!Rebuild, ReaderInv, WalkHolds
<1>4. CASE R!RereadPage
  <2>1. WalkHolds(reader')
    BY <1>4, CollectedHolds DEF R!RereadPage, ReaderInv
  <2>2. RequestHolds' /\ R!WholeIsWhole' /\ req'.kind = "none"
    BY <1>4 DEF R!RereadPage, R!NoRequest, RequestHolds, R!WholeIsWhole
  <2> QED BY <2>1, <2>2 DEF ReaderInv, WalkHolds
<1>5. CASE R!LeaveReader
  <2>1. WalkHolds(R!NoWalk)
    BY FS_EmptySet DEF WalkHolds, R!NoWalk
  <2> QED BY <1>5, <2>1 DEF R!LeaveReader, ReaderInv, WalkHolds, RequestHolds, R!WholeIsWhole
<1>6. CASE R!Preflight
  <2>1. R!Cardinality(R!Present) \in Nat
    BY InOrderLists, ReaderCardinality DEF R!Present
  <2>2. /\ req'.kind = "batch" /\ req'.answer # "whole" /\ req'.size \in Nat
        /\ DOMAIN req' = DOMAIN R!NoRequest
        /\ req'.step \in {"answered", "read"} /\ (req'.step = "read" => req'.answer = "none")
    BY <1>6, <2>1 DEF R!Preflight, R!NoRequest
  <2> QED BY <1>6, <2>2 DEF R!Preflight, R!NoRequest, ReaderInv, WalkHolds, RequestHolds, R!WholeIsWhole
<1>f. R!Fitting \in SUBSET Messages /\ Cardinality(R!Fitting) <= BatchLimit
  <2>1. Cardinality({}) = 0 /\ BatchLimit \in Nat
    BY FS_EmptySet, ReaderAssumption DEF R!ReaderAssumption
  <2> QED BY <2>1, ReaderCardinality DEF R!Fitting, R!Present
<1>7. CASE R!ReadWhole
  <2>1. CASE req' = R!Answer(R!Fitting, R!Fitting \ R!Incomplete(R!Fitting))
    <3>1. req'.size \in Nat /\ req'.kind = "batch" /\ req'.step = "answered" /\ R!WholeIsWhole'
      BY <1>7, <1>f, <2>1, AnswerHolds DEF ReaderInv, RequestHolds, R!ReadWhole
    <3>2. DOMAIN req' = DOMAIN req
      BY <2>1 DEF R!Answer
    <3> QED BY <1>7, <3>1, <3>2 DEF R!ReadWhole, ReaderInv, WalkHolds, RequestHolds
  <2>2. CASE req' # R!Answer(R!Fitting, R!Fitting \ R!Incomplete(R!Fitting))
    <3>1. /\ req'.step = "rebuild" /\ req'.of = R!Fitting /\ req'.size = req.size /\ req'.kind = "batch"
          /\ req'.answer = req.answer /\ DOMAIN req' = DOMAIN req
      BY <1>7, <2>2 DEF R!ReadWhole, ReaderInv, RequestHolds
    <3> QED BY <1>7, <1>f, <3>1 DEF R!ReadWhole, ReaderInv, WalkHolds, RequestHolds, R!WholeIsWhole
  <2> QED BY <2>1, <2>2
<1>8. CASE R!RereadWhole
  <2>1. PICK given \in SUBSET Messages, bodies \in {R!Fitting \ R!Incomplete(R!Fitting), req.bodies} :
          Cardinality(given) <= BatchLimit /\ req' = R!Answer(given, bodies)
    BY <1>8, <1>f DEF R!RereadWhole, ReaderInv, RequestHolds
  <2>2. req'.size \in Nat /\ req'.kind = "batch" /\ req'.step = "answered" /\ R!WholeIsWhole'
    BY <1>8, <2>1, AnswerHolds DEF ReaderInv, RequestHolds, R!RereadWhole
  <2>3. DOMAIN req' = DOMAIN req
    BY <2>1 DEF R!Answer
  <2> QED BY <1>8, <2>2, <2>3 DEF R!RereadWhole, ReaderInv, WalkHolds, RequestHolds
<1>9. CASE R!Answered
  BY <1>9 DEF R!Answered, R!NoRequest, ReaderInv, WalkHolds, RequestHolds, R!WholeIsWhole
<1>10. CASE UNCHANGED R!vars
  BY <1>10 DEF R!vars, ReaderInv, WalkHolds, RequestHolds, R!WholeIsWhole
<1> QED BY <1>1, <1>2, <1>3, <1>4, <1>5, <1>6, <1>7, <1>8, <1>9, <1>10 DEF R!Next

(* A conversation read page by page under one revision is the conversation *)
(* of that revision, although offsets shift as messages come and go; one   *)
(* that the replica is given as whole has all messages of one moment and   *)
(* their bodies (get_gmail_thread_message_page, mailbox_threads_batch).    *)
THEOREM ReadersSeeTheConversation == R!Spec => []ReadAsItIs
<1>1. ReaderInv => ReadAsItIs
  <2> SUFFICES ASSUME ReaderInv, reader.done, Cardinality(reader.revisions) = 1
               PROVE  reader.seen = R!InOrder(reader.first)
    BY ReaderCardinality DEF ReaderInv, ReadAsItIs, R!OneRevisionOneThread
  <2>1. PICK r : reader.revisions = {r}
    BY FS_Singleton DEF ReaderInv, WalkHolds
  <2>2. reader.first \in SUBSET Messages /\ reader.seen = UpTo(reader.first, reader.offset)
        /\ reader.offset >= Cardinality(reader.first) /\ reader.offset \in Nat
    BY <2>1 DEF ReaderInv, WalkHolds
  <2> QED BY <2>2, InOrderLists DEF UpTo
<1>2. ReaderInv /\ [R!Next]_(R!vars) => ReaderInv'
  BY ReaderInvInductive
<1> QED BY ReaderInitially, <1>1, <1>2, PTL DEF R!Spec

---------------------------------------------------------------------------
(* A page is the beginning of an ascending list of n elements: what it     *)
(* leaves out comes after its last element.                                *)
PageOf(s, k) == SubSeq(s, 1, IF Len(s) < k THEN Len(s) ELSE k)
Splits(page, A, lt, n, k) ==
    /\ page \in Seq(A) /\ n \in Nat
    /\ \A i, j \in DOMAIN page : i # j => page[i] # page[j]
    /\ n <= k => \A x \in A : \E i \in DOMAIN page : page[i] = x
    /\ n > k => /\ Len(page) = k /\ page[k] \in A
                /\ \A x \in A : (\E i \in DOMAIN page : page[i] = x) \/ <<page[k], x>> \in lt
                /\ \A i \in DOMAIN page : page[i] = page[k] \/ <<page[i], page[k]>> \in lt

LEMMA PageSplit ==
  ASSUME NEW A, NEW lt, Orders(lt, A), IsFiniteSet(A), NEW s \in Ascending(A, lt), NEW k \in Nat \ {0}
  PROVE  Splits(PageOf(s, k), A, lt, Len(s), k)
<1> DEFINE n == Cardinality(A)
           m == IF n < k THEN n ELSE k
           page == PageOf(s, k)
<1>1. /\ \A x \in A : \E i \in 1..n : s[i] = x
      /\ \A i, j \in 1..n : s[i] = s[j] => i = j
      /\ n \in Nat /\ s \in Seq(A) /\ Len(s) = n
      /\ \A i, j \in 1..n : i < j => <<s[i], s[j]>> \in lt
  <2>1. /\ \A x \in A : \E i \in 1..n : s[i] = x
        /\ \A i, j \in 1..n : s[i] = s[j] => i = j
        /\ n \in Nat /\ s \in Seq(A) /\ Len(s) = n
    BY AscendingNames
  <2>2. Ascends(s, n, lt)
    BY DEF Ascending
  <2> QED BY <2>1, <2>2 DEF Ascends
<1> HIDE DEF n
<1>2. m \in 0..n /\ m <= k /\ (n <= k => m = n) /\ (n > k => m = k) /\ page = SubSeq(s, 1, m)
  BY <1>1 DEF PageOf
<1> HIDE DEF page
<1> HIDE DEF m
<1>3. page \in Seq(A) /\ Len(page) = m /\ DOMAIN page = 1..m /\ \A i \in 1..m : page[i] = s[i]
  <2>1. Len(page) = m
    BY <1>1, <1>2
  <2>2. \A i \in 1..m : page[i] = s[i]
    BY <1>1, <1>2
  <2>3. page \in Seq(A)
    BY <1>1, <1>2
  <2>4. DOMAIN page = 1..m
    BY <2>1, <2>3
  <2> QED BY <2>1, <2>2, <2>3, <2>4
<1>4. \A i, j \in 1..m : i # j => page[i] # page[j]
  BY <1>1, <1>2, <1>3
<1>5. ASSUME n <= k, NEW x \in A PROVE \E i \in 1..m : page[i] = x
  BY <1>1, <1>2, <1>3, <1>5
<1>6. ASSUME n > k
      PROVE  /\ Len(page) = k /\ page[k] \in A
             /\ \A x \in A : (\E i \in 1..m : page[i] = x) \/ <<page[k], x>> \in lt
             /\ \A i \in 1..m : page[i] = page[k] \/ <<page[i], page[k]>> \in lt
  <2>1. m = k /\ k \in 1..n /\ page[k] = s[k]
    BY <1>1, <1>2, <1>3, <1>6
  <2>2. s[k] \in A
    BY <1>1, <2>1
  <2>3. ASSUME NEW x \in A PROVE (\E i \in 1..m : page[i] = x) \/ <<page[k], x>> \in lt
    <3>1. PICK i \in 1..n : s[i] = x
      BY <1>1
    <3>2. i \in 1..m \/ k < i
      BY <1>1, <2>1
    <3> QED BY <1>1, <1>3, <2>1, <3>1, <3>2
  <2>4. ASSUME NEW i \in 1..m PROVE page[i] = page[k] \/ <<page[i], page[k]>> \in lt
    <3>1. i = k \/ i < k
      BY <1>1, <2>1
    <3>2. i \in 1..n
      BY <1>1, <1>2
    <3> QED BY <1>1, <1>3, <2>1, <3>1, <3>2
  <2> QED BY <1>3, <2>1, <2>2, <2>3, <2>4
<1>7. Len(s) = n /\ DOMAIN page = 1..m /\ n \in Nat /\ k \in Nat
  BY <1>1, <1>3
<1>8. \A i, j \in DOMAIN page : i # j => page[i] # page[j]
  BY <1>4, <1>7
<1>9. Len(s) <= k => \A x \in A : \E i \in DOMAIN page : page[i] = x
  BY <1>5, <1>7
<1>10. Len(s) > k => /\ Len(page) = k /\ page[k] \in A
                     /\ \A x \in A : (\E i \in DOMAIN page : page[i] = x) \/ <<page[k], x>> \in lt
                     /\ \A i \in DOMAIN page : page[i] = page[k] \/ <<page[i], page[k]>> \in lt
  BY <1>6, <1>7
<1> HIDE DEF m
<1> QED BY <1>3, <1>7, <1>8, <1>9, <1>10 DEF Splits, page

(* What two sequences show, one after the other.                           *)
Shown(s) == {s[i] : i \in DOMAIN s}
Single(s, t) == \A i, j \in DOMAIN s : s[i] = t /\ s[j] = t => i = j

LEMMA ShownJoin ==
  ASSUME NEW T, NEW s \in Seq(T), NEW p \in Seq(T)
  PROVE  /\ s \o p \in Seq(T)
         /\ Shown(s \o p) = Shown(s) \cup Shown(p)
         /\ \A t : Single(s, t) /\ Single(p, t) /\ ~(t \in Shown(s) /\ t \in Shown(p)) => Single(s \o p, t)
<1> DEFINE a == Len(s)
           b == Len(p)
           q == s \o p
<1>1. a \in Nat /\ b \in Nat /\ DOMAIN s = 1..a /\ DOMAIN p = 1..b /\ q \in Seq(T) /\ DOMAIN q = 1..(a + b)
  <2>1. a \in Nat /\ b \in Nat /\ DOMAIN s = 1..a /\ DOMAIN p = 1..b /\ q \in Seq(T)
    OBVIOUS
  <2>2. Len(q) = a + b
    OBVIOUS
  <2> QED BY <2>1, <2>2
<1>2. \A i \in 1..(a + b) : IF i <= a THEN q[i] = s[i] ELSE q[i] = p[i - a]
  OBVIOUS
<1> HIDE DEF a, b, q
<1>3. \A i \in 1..a : i \in 1..(a + b) /\ q[i] = s[i]
  BY <1>1, <1>2
<1>4. \A i \in 1..b : i + a \in 1..(a + b) /\ q[i + a] = p[i]
  <2> SUFFICES ASSUME NEW i \in 1..b PROVE i + a \in 1..(a + b) /\ q[i + a] = p[i]
    OBVIOUS
  <2>1. i + a \in 1..(a + b) /\ ~(i + a <= a) /\ i + a - a = i
    BY <1>1
  <2> DEFINE k == i + a
  <2>2. k \in 1..(a + b) /\ ~(k <= a) /\ k - a = i
    BY <1>1, <2>1
  <2> HIDE DEF k
  <2>3. q[k] = p[k - a]
    BY <1>2, <2>2
  <2> QED BY <2>2, <2>3 DEF k
<1>5. \A i \in 1..(a + b) : i \in 1..a \/ (i - a \in 1..b /\ ~(i <= a))
  BY <1>1
<1>6. Shown(q) \subseteq Shown(s) \cup Shown(p)
  <2> SUFFICES ASSUME NEW i \in 1..(a + b) PROVE q[i] \in Shown(s) \cup Shown(p)
    BY <1>1 DEF Shown
  <2>1. CASE i \in 1..a /\ i <= a
    BY <1>1, <1>3, <2>1 DEF Shown
  <2>2. CASE ~(i <= a)
    <3>1. i - a \in 1..b /\ q[i] = p[i - a]
      BY <1>1, <1>2, <1>5, <2>2
    <3> QED BY <1>1, <3>1 DEF Shown
  <2> QED BY <2>1, <2>2
<1>7. Shown(s) \subseteq Shown(q) /\ Shown(p) \subseteq Shown(q)
  BY <1>1, <1>3, <1>4 DEF Shown
<1>8. ASSUME NEW t, Single(s, t), Single(p, t), ~(t \in Shown(s) /\ t \in Shown(p)),
             NEW i \in 1..(a + b), NEW j \in 1..(a + b), q[i] = t, q[j] = t
      PROVE  i = j
  <2>1. CASE i <= a /\ j <= a
    BY <1>1, <1>2, <1>5, <1>8, <2>1 DEF Single
  <2>2. CASE ~(i <= a) /\ ~(j <= a)
    <3>1. i - a \in 1..b /\ j - a \in 1..b /\ p[i - a] = t /\ p[j - a] = t
      BY <1>2, <1>5, <1>8, <2>2
    <3>2. i - a = j - a
      BY <1>1, <1>8, <3>1 DEF Single
    <3> QED BY <1>1, <3>2
  <2>3. CASE i <= a /\ ~(j <= a)
    <3>1. s[i] = t /\ p[j - a] = t /\ i \in 1..a /\ j - a \in 1..b
      BY <1>2, <1>5, <1>8, <2>3
    <3> QED BY <1>1, <1>8, <3>1 DEF Shown
  <2>4. CASE ~(i <= a) /\ j <= a
    <3>1. p[i - a] = t /\ s[j] = t /\ j \in 1..a /\ i - a \in 1..b
      BY <1>2, <1>5, <1>8, <2>4
    <3> QED BY <1>1, <1>8, <3>1 DEF Shown
  <2> QED BY <2>1, <2>2, <2>3, <2>4
<1> QED BY <1>1, <1>6, <1>7, <1>8 DEF q, Single

(***************************************************************************)
(* The mailbox.  Below says what a cursor leaves ahead, in either order.   *)
(***************************************************************************)
Below(t, c) ==
    IF walk.gen = L!NoOrder THEN c = <<>> \/ at[t] < c[1] \/ (at[t] = c[1] /\ t < c[2])
    ELSE \E i \in DOMAIN ranks[walk.gen] : ranks[walk.gen][i] = t /\ (c = <<>> \/ i > c[1])

(* The ranks of the walk's order are there to be read.                     *)
Known == walk.gen = L!NoOrder \/ walk.gen \in DOMAIN ranks

Reading == walk.pc \in {"resolve", "fetch"}

OrdersKept ==
    /\ at \in [Threads -> Nat]
    /\ order.active \in Nat /\ order.previous \in Nat /\ order.last \in Nat
    /\ order.active <= order.last /\ order.previous <= order.last
    /\ DOMAIN ranks = {order.active, order.previous} \ {L!NoOrder}
    /\ \A g \in DOMAIN ranks : /\ DOMAIN ranks[g] \subseteq Nat
                               /\ \A i, j \in DOMAIN ranks[g] : ranks[g][i] = ranks[g][j] => i = j

WalkTyped ==
    /\ DOMAIN walk = {"pc", "gen", "cursor", "seen", "fixed", "outrun"}
    /\ walk.gen \in Nat /\ walk.gen <= order.last
    /\ walk.cursor \in {<<>>} \cup (Nat \X Nat)
    /\ walk.seen \in Seq(Threads)
    /\ walk.fixed \subseteq L!Listed

(* The conversations that must not be listed twice.                        *)
Concerned == IF walk.gen = L!NoOrder THEN walk.fixed ELSE Threads

(* What was there at the start and was left alone is shown or still ahead, *)
(* and what is shown is ahead no more.                                     *)
NothingLost ==
    /\ Reading /\ Known => \A t \in walk.fixed : t \in Shown(walk.seen) \/ Below(t, walk.cursor)
    /\ walk.pc = "done" /\ ~walk.outrun => walk.fixed \subseteq Shown(walk.seen)

NothingTwice ==
    /\ \A t \in Concerned : Single(walk.seen, t)
    /\ Reading /\ Known => \A t \in Concerned : t \in Shown(walk.seen) => ~Below(t, walk.cursor)

AtTheStart ==
    /\ Reading /\ walk.cursor = <<>> => walk.seen = <<>>
    /\ walk.pc = "resolve" /\ walk.cursor = <<>> => walk.gen = L!NoOrder

PagesInv == OrdersKept /\ WalkTyped /\ NothingLost /\ NothingTwice /\ AtTheStart

LEMMA ThreadsFinite == Threads \subseteq Nat /\ IsFiniteSet(Threads) /\ PageSize \in Nat \ {0}
<1>1. \A X : L!IsFiniteSet(X) = IsFiniteSet(X)
  BY DEF L!IsFiniteSet, IsFiniteSet
<1> QED BY <1>1, PagesAssumption DEF L!PagesAssumption

LEMMA PagesCardinality == \A X : L!Cardinality(X) = Cardinality(X)
  BY DEF L!Cardinality, Cardinality, L!IsFiniteSet, IsFiniteSet

LEMMA PagesGiveInv ==
  ASSUME PagesInv PROVE ListedOnceEach
<1>1. walk.seen \in Seq(Threads) /\ \A i \in DOMAIN walk.seen : walk.seen[i] \in Threads
  BY DEF PagesInv, WalkTyped
<1>2. L!NothingSkipped
  BY DEF PagesInv, NothingLost, L!NothingSkipped, Shown
<1>3. L!ShownOnce
  BY <1>1 DEF PagesInv, NothingTwice, L!ShownOnce, Concerned, Single
<1> QED BY <1>2, <1>3 DEF ListedOnceEach

LEMMA PagesInitially == L!Init => PagesInv
<1> SUFFICES ASSUME L!Init PROVE PagesInv
  OBVIOUS
<1>1. OrdersKept
  BY DEF L!Init, OrdersKept, L!NoOrder
<1>2. /\ walk.gen = 0 /\ walk.cursor = <<>> /\ walk.seen = <<>> /\ walk.pc = "closed" /\ walk.fixed = {}
      /\ DOMAIN walk = {"pc", "gen", "cursor", "seen", "fixed", "outrun"}
  BY DEF L!Init, L!Closed, L!NoOrder
<1>3. WalkTyped
  BY <1>1, <1>2 DEF WalkTyped, OrdersKept
<1>4. NothingTwice
  BY <1>2 DEF NothingTwice, Concerned, L!NoOrder
<1> QED BY <1>1, <1>2, <1>3, <1>4 DEF PagesInv, NothingLost, AtTheStart, Reading

(* A reader that begins, or goes back, holds nothing yet.                  *)
LEMMA ClosedHolds ==
  ASSUME walk' = L!Closed \/ walk' = [L!Closed EXCEPT !.pc = "resolve", !.fixed = L!Listed'],
         OrdersKept'
  PROVE  PagesInv'
<1>1. /\ walk'.gen = 0 /\ walk'.cursor = <<>> /\ walk'.seen = <<>> /\ walk'.pc # "done"
      /\ DOMAIN walk' = {"pc", "gen", "cursor", "seen", "fixed", "outrun"}
      /\ walk'.fixed \subseteq L!Listed'
  <2> DEFINE lists == L!Listed'
  <2>1. walk' = L!Closed \/ walk' = [L!Closed EXCEPT !.pc = "resolve", !.fixed = lists]
    OBVIOUS
  <2> HIDE DEF lists
  <2>2. CASE walk' = L!Closed
    BY <2>2 DEF L!Closed, L!NoOrder
  <2>3. CASE walk' = [L!Closed EXCEPT !.pc = "resolve", !.fixed = lists]
    BY <2>3 DEF L!Closed, L!NoOrder, lists
  <2> QED BY <2>1, <2>2, <2>3
<1>2. WalkTyped'
  BY <1>1 DEF WalkTyped, OrdersKept
<1>3. Shown(walk.seen)' = {} /\ \A t : Single(walk.seen, t)'
  BY <1>1 DEF Shown, Single
<1>4. NothingLost'
  BY <1>1 DEF NothingLost, Below, L!NoOrder
<1>5. NothingTwice'
  BY <1>3 DEF NothingTwice
<1>6. AtTheStart'
  BY <1>1 DEF AtTheStart, L!NoOrder
<1> QED BY <1>2, <1>4, <1>5, <1>6 DEF PagesInv

LEMMA OpeningKeeps == PagesInv /\ (L!OpenMailbox \/ L!CloseMailbox) => PagesInv'
<1> SUFFICES ASSUME PagesInv, L!OpenMailbox \/ L!CloseMailbox PROVE PagesInv'
  OBVIOUS
<1>1. OrdersKept' /\ L!Listed' = L!Listed
  BY DEF PagesInv, OrdersKept, L!OpenMailbox, L!CloseMailbox, L!Listed
<1>2. walk' = L!Closed \/ walk' = [L!Closed EXCEPT !.pc = "resolve", !.fixed = L!Listed']
  BY <1>1 DEF L!OpenMailbox, L!CloseMailbox
<1> QED BY <1>1, <1>2, ClosedHolds

LEMMA ResolveKeeps == PagesInv /\ (L!ResolveFirst \/ L!ResolveCursor) => PagesInv'
<1> SUFFICES ASSUME PagesInv, L!ResolveFirst \/ L!ResolveCursor PROVE PagesInv'
  OBVIOUS
<1>1. OrdersKept' /\ L!Listed' = L!Listed /\ UNCHANGED <<at, ranks, order>>
  BY DEF PagesInv, OrdersKept, L!ResolveFirst, L!ResolveCursor, L!Listed
<1>2. CASE L!ResolveFirst /\ walk'.gen = L!NoOrder
  <2>1. walk.gen = L!NoOrder /\ walk' = [walk EXCEPT !.pc = "fetch"]
    <3>1. walk.gen = L!NoOrder
      BY <1>2 DEF PagesInv, AtTheStart, L!ResolveFirst
    <3> QED BY <1>2, <3>1 DEF PagesInv, WalkTyped, L!ResolveFirst
  <2> QED BY <1>1, <1>2, <2>1 DEF PagesInv, WalkTyped, NothingLost, NothingTwice, AtTheStart, Below, Known, Reading,
            Concerned, L!ResolveFirst
<1>3. CASE L!ResolveFirst /\ walk'.gen # L!NoOrder
  <2>1. /\ walk' = [walk EXCEPT !.pc = "fetch", !.gen = order.active]
        /\ order.active # L!NoOrder /\ ~L!MissingRank
    BY <1>3 DEF PagesInv, WalkTyped, L!ResolveFirst, L!NoOrder
  <2>2. /\ walk'.gen = order.active /\ walk'.pc = "fetch" /\ walk'.cursor = <<>> /\ walk'.seen = <<>>
        /\ walk'.fixed = walk.fixed /\ walk'.outrun = walk.outrun
        /\ DOMAIN walk' = {"pc", "gen", "cursor", "seen", "fixed", "outrun"}
    BY <1>3, <2>1 DEF PagesInv, WalkTyped, AtTheStart, Reading, L!ResolveFirst
  <2>3. order.active \in DOMAIN ranks
    BY <2>1 DEF PagesInv, OrdersKept
  <2>4. \A t \in walk.fixed : Below(t, walk.cursor)'
    <3>1. \A t \in walk.fixed : \E i \in DOMAIN ranks[order.active] : ranks[order.active][i] = t
      BY <2>1 DEF PagesInv, WalkTyped, L!MissingRank
    <3> QED BY <1>1, <1>3, <2>2, <3>1 DEF Below, L!NoOrder
  <2>5. WalkTyped'
    BY <1>1, <2>2 DEF PagesInv, WalkTyped, OrdersKept
  <2>6. (Shown(walk.seen) = {})' /\ \A t : Single(walk.seen, t)'
    BY <2>2 DEF Shown, Single
  <2> QED BY <1>1, <2>2, <2>4, <2>5, <2>6 DEF PagesInv, NothingLost, NothingTwice, AtTheStart
<1>4. CASE L!ResolveCursor /\ walk' = [walk EXCEPT !.pc = "fetch"]
  BY <1>1, <1>4 DEF PagesInv, WalkTyped, NothingLost, NothingTwice, AtTheStart, Below, Known, Reading,
            Concerned, L!ResolveCursor
<1>5. CASE L!ResolveCursor /\ walk' = L!Closed
  BY <1>1, <1>5, ClosedHolds
<1> QED BY <1>2, <1>3, <1>4, <1>5 DEF L!ResolveCursor

LEMMA MailKeeps == PagesInv /\ (\E t \in Threads : L!MailSynced(t)) => PagesInv'
<1> SUFFICES ASSUME PagesInv, NEW t \in Threads, L!MailSynced(t) PROVE PagesInv'
  OBVIOUS
<1>1. /\ at' \in [Threads -> Nat] /\ \A u \in Threads : u # t => at'[u] = at[u]
      /\ UNCHANGED <<ranks, order>> /\ walk' = [walk EXCEPT !.fixed = @ \ {t}]
  BY DEF PagesInv, OrdersKept, L!MailSynced
<1>2. OrdersKept'
  BY <1>1 DEF PagesInv, OrdersKept
<1>3. /\ walk'.pc = walk.pc /\ walk'.gen = walk.gen /\ walk'.cursor = walk.cursor /\ walk'.seen = walk.seen
      /\ walk'.outrun = walk.outrun /\ walk'.fixed = walk.fixed \ {t}
      /\ DOMAIN walk' = {"pc", "gen", "cursor", "seen", "fixed", "outrun"}
  BY <1>1 DEF PagesInv, WalkTyped
<1>4. walk'.fixed \subseteq Threads /\ L!Listed' = {u \in Threads : at'[u] > 0}
  BY <1>3 DEF PagesInv, WalkTyped, L!Listed
<1>5. WalkTyped'
  <2>1. walk'.fixed \subseteq L!Listed'
    BY <1>1, <1>3, <1>4 DEF PagesInv, WalkTyped, L!Listed
  <2> QED BY <1>1, <1>3, <2>1 DEF PagesInv, WalkTyped
<1>6. Concerned' \subseteq Concerned /\ Known' = Known /\ Reading' = Reading
  BY <1>1, <1>3 DEF Concerned, Known, Reading
<1>7. \A u \in walk'.fixed : Below(u, walk.cursor)' = Below(u, walk.cursor)
  BY <1>1, <1>3, <1>4 DEF Below
<1>8. \A u \in Concerned' : Below(u, walk.cursor)' = Below(u, walk.cursor)
  BY <1>1, <1>3, <1>7 DEF Below, Concerned
<1>9. Shown(walk.seen)' = Shown(walk.seen) /\ \A u : Single(walk.seen, u)' = Single(walk.seen, u)
  BY <1>3 DEF Shown, Single
<1>10. NothingLost'
  BY <1>3, <1>6, <1>7, <1>9 DEF PagesInv, NothingLost
<1>11. NothingTwice'
  BY <1>3, <1>6, <1>8, <1>9 DEF PagesInv, NothingTwice
<1>12. AtTheStart'
  BY <1>3 DEF PagesInv, AtTheStart, Reading
<1> QED BY <1>2, <1>5, <1>10, <1>11, <1>12 DEF PagesInv

LEMMA RefreshKeeps == PagesInv /\ L!RefreshPublishes => PagesInv'
<1> SUFFICES ASSUME PagesInv, L!RefreshPublishes PROVE PagesInv'
  OBVIOUS
<1> DEFINE new == order.last + 1
<1>1. /\ order' = [active |-> new, previous |-> order.active, last |-> new] /\ UNCHANGED <<at, walk>>
  BY DEF L!RefreshPublishes
<1>2. PICK listing \in L!Listings :
        ranks' = [g \in L!Kept(new, order.active) |-> IF g = new THEN listing ELSE ranks[g]]
  BY DEF L!RefreshPublishes
<1>3. new \in Nat /\ order.active \in Nat /\ order.active < new /\ order.last \in Nat /\ order.last < new
  BY DEF PagesInv, OrdersKept
<1>4. DOMAIN listing \subseteq Nat /\ \A i, j \in DOMAIN listing : listing[i] = listing[j] => i = j
  BY DEF L!Listings
<1> HIDE DEF new
<1>5. L!Kept(new, order.active) = {new, order.active} \ {L!NoOrder}
  BY DEF L!Kept
<1>6. DOMAIN ranks' = {new, order.active} \ {L!NoOrder} /\ ranks'[new] = listing
      /\ (order.active # L!NoOrder => ranks'[order.active] = ranks[order.active])
  BY <1>2, <1>3, <1>5 DEF L!NoOrder
<1>7. OrdersKept'
  <2>1. ASSUME NEW g \in DOMAIN ranks'
        PROVE  /\ DOMAIN ranks'[g] \subseteq Nat
               /\ \A i, j \in DOMAIN ranks'[g] : ranks'[g][i] = ranks'[g][j] => i = j
    BY <1>3, <1>4, <1>6 DEF PagesInv, OrdersKept
  <2> QED BY <1>1, <1>3, <1>6, <2>1 DEF PagesInv, OrdersKept
<1>8. walk.gen # new /\ walk.gen \in Nat
  BY <1>3 DEF PagesInv, WalkTyped
<1>9. ASSUME Known' PROVE Known /\ \A t, c : Below(t, c)' = Below(t, c)
  <2>1. CASE walk.gen = L!NoOrder
    BY <1>1, <2>1 DEF Known, Below, L!NoOrder
  <2>2. CASE walk.gen # L!NoOrder
    <3>1. walk.gen = order.active
      BY <1>1, <1>6, <1>8, <1>9, <2>2 DEF Known, L!NoOrder
    <3>2. walk.gen \in DOMAIN ranks
      BY <2>2, <3>1 DEF PagesInv, OrdersKept
    <3> QED BY <1>1, <1>6, <2>2, <3>1, <3>2 DEF Known, Below, L!NoOrder
  <2> QED BY <2>1, <2>2
<1>10. WalkTyped'
  BY <1>1, <1>3 DEF PagesInv, WalkTyped, L!Listed
<1>11. NothingLost'
  BY <1>1, <1>9 DEF PagesInv, NothingLost, Reading, Shown
<1>12. NothingTwice'
  BY <1>1, <1>9 DEF PagesInv, NothingTwice, Reading, Shown, Single, Concerned, L!NoOrder
<1>13. AtTheStart'
  BY <1>1 DEF PagesInv, AtTheStart, Reading, L!NoOrder
<1> QED BY <1>7, <1>10, <1>11, <1>12, <1>13 DEF PagesInv

(* The order of a walk orders what lies ahead of it.                       *)
Goes == {p \in Threads \X Threads : L!Precedes(p[1], p[2])}

LEMMA RankIs ==
  ASSUME OrdersKept, walk.gen \in DOMAIN ranks, NEW i \in DOMAIN ranks[walk.gen]
  PROVE  L!Rank(ranks[walk.gen][i]) = i
BY DEF OrdersKept, L!Rank

LEMMA AheadIs ==
  ASSUME PagesInv
  PROVE  /\ L!Ahead \subseteq L!Listed /\ L!Ahead \subseteq Threads /\ IsFiniteSet(L!Ahead)
         /\ Known => \A t \in L!Listed : t \in L!Ahead <=> Below(t, walk.cursor)
         /\ ~Known => L!Ahead = {}
<1>1. L!Ahead \subseteq L!Listed /\ L!Listed \subseteq Threads
  BY DEF L!Ahead, L!BelowDate, L!BelowRank, L!Listed
<1>2. IsFiniteSet(L!Ahead)
  BY <1>1, ThreadsFinite, FS_Subset
<1>3. ASSUME Known, NEW t \in L!Listed PROVE t \in L!Ahead <=> Below(t, walk.cursor)
  BY <1>3 DEF L!Ahead, L!BelowDate, L!BelowRank, Known, Below
<1>4. ~Known => L!Ahead = {}
  BY DEF L!Ahead, L!BelowRank, Known
<1> QED BY <1>1, <1>2, <1>3, <1>4

LEMMA RanksAhead ==
  ASSUME PagesInv, walk.gen # L!NoOrder, NEW t \in L!Ahead
  PROVE  /\ walk.gen \in DOMAIN ranks /\ L!Rank(t) \in DOMAIN ranks[walk.gen] /\ L!Rank(t) \in Nat
         /\ ranks[walk.gen][L!Rank(t)] = t
<1>1. walk.gen \in DOMAIN ranks /\ \E i \in DOMAIN ranks[walk.gen] : ranks[walk.gen][i] = t
  BY DEF L!Ahead, L!BelowRank
<1>2. L!Rank(t) \in DOMAIN ranks[walk.gen] /\ ranks[walk.gen][L!Rank(t)] = t
  BY <1>1 DEF L!Rank
<1> QED BY <1>1, <1>2 DEF PagesInv, OrdersKept

LEMMA AheadOrdered == PagesInv => Orders(Goes, L!Ahead)
<1> SUFFICES ASSUME PagesInv PROVE Orders(Goes, L!Ahead)
  OBVIOUS
<1>1. L!Ahead \subseteq Threads /\ Threads \subseteq Nat /\ at \in [Threads -> Nat]
  BY AheadIs, ThreadsFinite DEF PagesInv, OrdersKept
<1>2. \A x, y \in L!Ahead : <<x, y>> \in Goes <=> L!Precedes(x, y)
  BY <1>1 DEF Goes
<1>3. CASE walk.gen = L!NoOrder
  <2>1. \A x, y \in L!Ahead : <<x, y>> \in Goes <=> at[x] > at[y] \/ (at[x] = at[y] /\ x > y)
    BY <1>2, <1>3 DEF L!Precedes, L!Newer
  <2>2. \A x \in L!Ahead : x \in Nat /\ at[x] \in Nat
    BY <1>1
  <2> QED BY <2>1, <2>2 DEF Orders
<1>4. CASE walk.gen # L!NoOrder
  <2>1. \A x, y \in L!Ahead : <<x, y>> \in Goes <=> L!Rank(x) < L!Rank(y)
    BY <1>2, <1>4 DEF L!Precedes
  <2>2. \A x \in L!Ahead : L!Rank(x) \in Nat /\ ranks[walk.gen][L!Rank(x)] = x
    BY <1>4, RanksAhead
  <2> QED BY <2>1, <2>2 DEF Orders
<1> QED BY <1>3, <1>4

LEMMA SortedAscends == PagesInv => L!Sorted(L!Ahead) \in Ascending(L!Ahead, Goes)
<1> SUFFICES ASSUME PagesInv PROVE L!Sorted(L!Ahead) \in Ascending(L!Ahead, Goes)
  OBVIOUS
<1> DEFINE A == L!Ahead
<1>1. A \subseteq Threads /\ IsFiniteSet(A) /\ Orders(Goes, A) /\ Cardinality(A) \in Nat
  BY AheadIs, AheadOrdered, FS_CardinalityType
<1>2. Ascending(A, Goes) # {}
  BY <1>1, AscendingExists
<1>3. L!Sorted(A) = CHOOSE s \in [1..Cardinality(A) -> A] : \A i, j \in DOMAIN s : i < j => L!Precedes(s[i], s[j])
  BY PagesCardinality DEF L!Sorted
<1> HIDE DEF A
<1>4. \A s \in [1..Cardinality(A) -> A] :
        s \in Ascending(A, Goes) <=> \A i, j \in DOMAIN s : i < j => L!Precedes(s[i], s[j])
  <2> SUFFICES ASSUME NEW s \in [1..Cardinality(A) -> A]
               PROVE  s \in Ascending(A, Goes) <=> \A i, j \in DOMAIN s : i < j => L!Precedes(s[i], s[j])
    OBVIOUS
  <2>1. \A i, j \in 1..Cardinality(A) : <<s[i], s[j]>> \in Goes <=> L!Precedes(s[i], s[j])
    BY <1>1 DEF Goes
  <2>2. DOMAIN s = 1..Cardinality(A)
    OBVIOUS
  <2> QED BY <2>1, <2>2 DEF Ascending, Ascends
<1>5. \E s \in [1..Cardinality(A) -> A] : \A i, j \in DOMAIN s : i < j => L!Precedes(s[i], s[j])
  BY <1>2, <1>4 DEF Ascending
<1> QED BY <1>3, <1>4, <1>5 DEF A

(* The cursor after a conversation leaves ahead what comes after it.       *)
LEMMA CursorMeans ==
  ASSUME PagesInv, NEW x \in L!Ahead
  PROVE  /\ L!CursorAfter(x) \in Nat \X Nat /\ L!CursorAfter(x) # <<>>
         /\ \A t \in L!Ahead : Below(t, L!CursorAfter(x)) <=> <<x, t>> \in Goes
         /\ \A t \in Threads : Below(t, L!CursorAfter(x)) => Below(t, walk.cursor)
<1> DEFINE c == L!CursorAfter(x)
<1>1. L!Ahead \subseteq Threads /\ L!Ahead \subseteq L!Listed /\ x \in Threads /\ Threads \subseteq Nat /\ at \in [Threads -> Nat]
  BY AheadIs, ThreadsFinite DEF PagesInv, OrdersKept
<1>2. \A a, b \in Nat : <<a, b>> # <<>> /\ <<a, b>>[1] = a /\ <<a, b>>[2] = b /\ <<a, b>> \in Nat \X Nat
  OBVIOUS
<1>3. \A t \in L!Ahead : <<x, t>> \in Goes <=> L!Precedes(x, t)
  BY <1>1 DEF Goes
<1>4. walk.cursor = <<>> \/ (walk.cursor[1] \in Nat /\ walk.cursor[2] \in Nat)
  BY DEF PagesInv, WalkTyped
<1>5. CASE walk.gen = L!NoOrder
  <2>1. c = <<at[x], x>> /\ at[x] \in Nat /\ x \in Nat
    BY <1>1, <1>5 DEF L!CursorAfter
  <2>2. c \in Nat \X Nat /\ c # <<>> /\ c[1] = at[x] /\ c[2] = x
    BY <1>2, <2>1
  <2> HIDE DEF c
  <2>3. \A t : Below(t, c) <=> at[t] < at[x] \/ (at[t] = at[x] /\ t < x)
    BY <1>5, <2>2 DEF Below
  <2>4. Below(x, walk.cursor)
    BY <1>1, <1>5, AheadIs DEF Known
  <2>5. ASSUME NEW t \in L!Ahead PROVE Below(t, c) <=> <<x, t>> \in Goes
    <3>1. t \in Nat /\ at[t] \in Nat
      BY <1>1
    <3> QED BY <1>3, <1>5, <2>1, <2>3, <3>1 DEF L!Precedes, L!Newer
  <2>6. ASSUME NEW t \in Threads, Below(t, c) PROVE Below(t, walk.cursor)
    <3>1. t \in Nat /\ at[t] \in Nat
      BY <1>1
    <3> QED BY <1>4, <1>5, <2>1, <2>3, <2>4, <2>6, <3>1 DEF Below
  <2> QED BY <2>2, <2>5, <2>6 DEF c
<1>6. CASE walk.gen # L!NoOrder
  <2>1. /\ walk.gen \in DOMAIN ranks /\ L!Rank(x) \in DOMAIN ranks[walk.gen] /\ L!Rank(x) \in Nat
        /\ ranks[walk.gen][L!Rank(x)] = x
    BY <1>6, RanksAhead
  <2>2. c = <<L!Rank(x), x>> /\ x \in Nat
    BY <1>1, <1>6 DEF L!CursorAfter
  <2>3. c \in Nat \X Nat /\ c # <<>> /\ c[1] = L!Rank(x)
    BY <1>2, <2>1, <2>2
  <2> HIDE DEF c
  <2>4. \A t : Below(t, c) <=> \E i \in DOMAIN ranks[walk.gen] : ranks[walk.gen][i] = t /\ i > L!Rank(x)
    BY <1>6, <2>3 DEF Below
  <2>5. \A i \in DOMAIN ranks[walk.gen] : i \in Nat /\ \A j \in DOMAIN ranks[walk.gen] :
          ranks[walk.gen][i] = ranks[walk.gen][j] => i = j
    BY <2>1 DEF PagesInv, OrdersKept
  <2>6. walk.cursor = <<>> \/ L!Rank(x) > walk.cursor[1]
    <3>1. Known /\ Below(x, walk.cursor)
      BY <1>1, <2>1, AheadIs DEF Known
    <3> QED BY <1>6, <2>1, <2>5, <3>1 DEF Below
  <2>7. ASSUME NEW t \in L!Ahead PROVE Below(t, c) <=> <<x, t>> \in Goes
    <3>1. L!Rank(t) \in DOMAIN ranks[walk.gen] /\ ranks[walk.gen][L!Rank(t)] = t
      BY <1>6, RanksAhead
    <3> QED BY <1>3, <1>6, <2>4, <2>5, <3>1 DEF L!Precedes
  <2>8. ASSUME NEW t \in Threads, Below(t, c) PROVE Below(t, walk.cursor)
    <3>1. PICK i \in DOMAIN ranks[walk.gen] : ranks[walk.gen][i] = t /\ i > L!Rank(x)
      BY <2>4, <2>8
    <3>2. walk.cursor = <<>> \/ i > walk.cursor[1]
      BY <1>4, <2>1, <2>5, <2>6, <3>1
    <3> QED BY <1>6, <3>1, <3>2 DEF Below
  <2> QED BY <2>3, <2>7, <2>8 DEF c
<1> QED BY <1>5, <1>6

LEMMA FetchKeeps == PagesInv /\ L!FetchPage => PagesInv'
<1> SUFFICES ASSUME PagesInv, L!FetchPage PROVE PagesInv'
  OBVIOUS
<1> DEFINE A == L!Ahead
           rest == L!Sorted(A)
           page == SubSeq(rest, 1, IF Len(rest) < PageSize THEN Len(rest) ELSE PageSize)
           more == Len(rest) > PageSize
           last == page[PageSize]
<1>1. /\ A \subseteq L!Listed /\ A \subseteq Threads /\ IsFiniteSet(A) /\ Orders(Goes, A) /\ rest \in Ascending(A, Goes)
      /\ PageSize \in Nat \ {0}
      /\ ~Known => A = {}
  BY AheadIs, AheadOrdered, SortedAscends, ThreadsFinite
<1>2. /\ page \in Seq(A) /\ Len(rest) \in Nat
      /\ \A i, j \in DOMAIN page : i # j => page[i] # page[j]
      /\ ~more => \A x \in A : \E i \in DOMAIN page : page[i] = x
      /\ more => /\ Len(page) = PageSize /\ last \in A
                 /\ \A x \in A : (\E i \in DOMAIN page : page[i] = x) \/ <<last, x>> \in Goes
                 /\ \A i \in DOMAIN page : page[i] = last \/ <<page[i], last>> \in Goes
  <2>1. page = PageOf(rest, PageSize)
    BY DEF PageOf
  <2> HIDE DEF A, rest, page
  <2>2. Splits(PageOf(rest, PageSize), A, Goes, Len(rest), PageSize)
    BY <1>1, PageSplit
  <2>3. ~more => Len(rest) <= PageSize
    BY <1>1, <2>2 DEF Splits
  <2> QED BY <2>1, <2>2, <2>3 DEF Splits
<1>3. /\ walk.pc = "fetch" /\ UNCHANGED <<at, ranks, order>>
      /\ walk' = [walk EXCEPT
                    !.seen = @ \o page,
                    !.cursor = IF more THEN L!CursorAfter(page[Len(page)]) ELSE @,
                    !.outrun = @ \/ walk.gen \notin {L!NoOrder, order.active, order.previous},
                    !.pc = IF ~more THEN "done" ELSE IF walk.gen = L!NoOrder THEN "fetch" ELSE "resolve"]
  BY DEF L!FetchPage
<1> HIDE DEF A, rest, page, more, last
<1>4. /\ walk'.gen = walk.gen /\ walk'.fixed = walk.fixed /\ walk'.seen = walk.seen \o page
      /\ walk'.cursor = (IF more THEN L!CursorAfter(page[Len(page)]) ELSE walk.cursor)
      /\ walk'.outrun = (walk.outrun \/ walk.gen \notin {L!NoOrder, order.active, order.previous})
      /\ walk'.pc = (IF ~more THEN "done" ELSE IF walk.gen = L!NoOrder THEN "fetch" ELSE "resolve")
      /\ DOMAIN walk' = {"pc", "gen", "cursor", "seen", "fixed", "outrun"}
  BY <1>3 DEF PagesInv, WalkTyped
<1>5. more => L!CursorAfter(page[Len(page)]) = L!CursorAfter(last) /\ Known
  BY <1>1, <1>2 DEF last
<1>6. /\ page \in Seq(Threads) /\ Shown(page) \subseteq A
      /\ \A t : Single(page, t)
  <2>1. \A i \in DOMAIN page : page[i] \in A
    BY <1>2
  <2>2. \A i \in 1..Len(page) : page[i] \in Threads
    BY <1>1, <1>2
  <2>3. page \in Seq(Threads)
    BY <1>2, <2>2
  <2> QED BY <1>2, <2>1, <2>3 DEF Shown, Single
<1>7. /\ walk'.seen \in Seq(Threads) /\ Shown(walk.seen)' = Shown(walk.seen) \cup Shown(page)
      /\ \A t : Single(walk.seen, t) /\ ~(t \in Shown(walk.seen) /\ t \in Shown(page)) => Single(walk.seen, t)'
  <2>1. walk.seen \in Seq(Threads)
    BY DEF PagesInv, WalkTyped
  <2>2. /\ walk.seen \o page \in Seq(Threads) /\ Shown(walk.seen \o page) = Shown(walk.seen) \cup Shown(page)
        /\ \A t : Single(walk.seen, t) /\ Single(page, t) /\ ~(t \in Shown(walk.seen) /\ t \in Shown(page))
                  => Single(walk.seen \o page, t)
    BY <1>6, <2>1, ShownJoin
  <2>3. Shown(walk.seen)' = Shown(walk.seen \o page) /\ \A t : Single(walk.seen, t)' = Single(walk.seen \o page, t)
    BY <1>4 DEF Shown, Single
  <2> QED BY <1>4, <1>6, <2>2, <2>3
<1>8. OrdersKept' /\ L!Listed' = L!Listed /\ Known' = Known /\ Concerned' = Concerned
  BY <1>3, <1>4 DEF PagesInv, OrdersKept, L!Listed, Known, Concerned
<1>9. \A t : Below(t, walk.cursor)' = Below(t, walk'.cursor)
  BY <1>3, <1>4 DEF Below
<1>10. more => /\ walk'.cursor \in Nat \X Nat /\ walk'.cursor # <<>>
               /\ \A t \in A : Below(t, walk'.cursor) <=> <<last, t>> \in Goes
               /\ \A t \in Threads : Below(t, walk'.cursor) => Below(t, walk.cursor)
  BY <1>2, <1>4, <1>5, CursorMeans DEF A
<1>a. ASSUME more, NEW t \in A, <<last, t>> \in Goes PROVE Below(t, walk'.cursor)
  BY <1>10, <1>a
<1>b. ASSUME more, NEW t \in A, Below(t, walk'.cursor) PROVE <<last, t>> \in Goes
  BY <1>10, <1>b
<1>c. ASSUME more, NEW t \in Threads, Below(t, walk'.cursor) PROVE Below(t, walk.cursor)
  BY <1>10, <1>c
<1>11. WalkTyped'
  BY <1>3, <1>4, <1>7, <1>8, <1>10 DEF PagesInv, WalkTyped
<1>12. Known => \A t \in L!Listed : t \in A <=> Below(t, walk.cursor)
  BY AheadIs DEF A
<1>13. Concerned \subseteq Threads /\ L!Listed \subseteq Threads /\ walk.fixed \subseteq L!Listed
  BY DEF PagesInv, WalkTyped, Concerned, L!Listed
<1>14. NothingLost'
  <2>1. ASSUME more, NEW t \in walk.fixed PROVE t \in Shown(walk.seen)' \/ Below(t, walk'.cursor)
    <3>1. t \in Shown(walk.seen) \/ t \in A
      BY <1>3, <1>5, <1>12, <1>13, <2>1 DEF PagesInv, NothingLost, Reading
    <3>2. t \in A => t \in Shown(page) \/ Below(t, walk'.cursor)
      BY <1>2, <1>a, <2>1 DEF Shown
    <3> QED BY <1>7, <3>1, <3>2
  <2>2. ASSUME ~more, ~walk'.outrun, NEW t \in walk.fixed PROVE t \in Shown(walk.seen)'
    <3>1. Known
      BY <1>4, <2>2 DEF PagesInv, OrdersKept, Known
    <3>2. t \in Shown(walk.seen) \/ t \in A
      BY <1>3, <1>12, <1>13, <2>2, <3>1 DEF PagesInv, NothingLost, Reading
    <3>3. t \in A => t \in Shown(page)
      BY <1>2, <2>2 DEF Shown
    <3> QED BY <1>7, <3>2, <3>3
  <2> QED BY <1>4, <1>9, <2>1, <2>2 DEF NothingLost, Reading
<1>15. NothingTwice'
  <2>1. ASSUME NEW t \in Concerned, t \in Shown(walk.seen) PROVE t \notin A
    <3>1. Known => ~Below(t, walk.cursor)
      BY <1>3, <2>1 DEF PagesInv, NothingTwice, Reading
    <3> QED BY <1>1, <1>12, <3>1
  <2>2. ASSUME NEW t \in Concerned PROVE Single(walk.seen, t)'
    BY <1>6, <1>7, <2>1 DEF PagesInv, NothingTwice
  <2>3. ASSUME more, NEW t \in Concerned, t \in Shown(walk.seen)' PROVE ~Below(t, walk'.cursor)
    <3>1. CASE t \in Shown(walk.seen)
      <4>1. ~Below(t, walk.cursor)
        BY <1>3, <1>5, <2>3, <3>1 DEF PagesInv, NothingTwice, Reading
      <4> QED BY <1>c, <1>13, <2>3, <4>1
    <3>2. CASE t \in Shown(page)
      <4>1. t = last \/ <<t, last>> \in Goes
        BY <1>2, <2>3, <3>2 DEF Shown
      <4>2. t \in A /\ last \in A
        BY <1>2, <1>6, <2>3, <3>2
      <4>3. <<last, t>> \notin Goes
        BY <1>1, <4>1, <4>2 DEF Orders
      <4> QED BY <1>b, <2>3, <4>2, <4>3
    <3> QED BY <1>7, <2>3, <3>1, <3>2
  <2> QED BY <1>4, <1>8, <1>9, <2>2, <2>3 DEF NothingTwice, Reading
<1>16. AtTheStart'
  BY <1>4, <1>10 DEF AtTheStart, Reading
<1> QED BY <1>8, <1>11, <1>14, <1>15, <1>16 DEF PagesInv

(* The list a reader has paged through to its end holds every conversation *)
(* that was there when the mailbox was opened and that no synchronisation  *)
(* touched since, and holds none of them twice, whatever is published and  *)
(* whatever arrives between two pages (list_mailbox_thread_page and        *)
(* replace_gmail_thread_orders).                                           *)
THEOREM ListsMissNothing == L!Spec => []ListedOnceEach
<1>1. PagesInv /\ [L!Next]_L!vars => PagesInv'
  <2> SUFFICES ASSUME PagesInv, [L!Next]_L!vars PROVE PagesInv'
    OBVIOUS
  <2>1. CASE UNCHANGED L!vars
    BY <2>1 DEF L!vars, PagesInv, OrdersKept, WalkTyped, NothingLost, NothingTwice, AtTheStart, Below, Known, Reading,
           Concerned, Shown, Single, L!Listed
  <2> QED BY <2>1, MailKeeps, RefreshKeeps, OpeningKeeps, ResolveKeeps, FetchKeeps DEF L!Next
<1>2. PagesInv => ListedOnceEach
  BY PagesGiveInv
<1> QED BY <1>1, <1>2, PagesInitially, PTL DEF L!Spec
=============================================================================
