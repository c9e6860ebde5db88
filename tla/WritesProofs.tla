---------------------------- MODULE WritesProofs ----------------------------
(***************************************************************************)
(* Theorems about what users do that is repeated at Gmail (MC_Writes), for *)
(* every number of workers, requests, attempts and faults.                 *)
(*                                                                         *)
(* A mail of an additional account (AccountSend) goes out at most once as  *)
(* long as no job is taken from a worker that still runs it (~Overlap).  A *)
(* client draft of one (AccountDrafts, the part D) is sent once, and what  *)
(* its row calls ended is gone, unless two first saves created it twice.   *)
(* An action of one (AccountActions, the part X) that nobody works on has  *)
(* a row that tells how it ended.                                          *)
(*                                                                         *)
(* Of the mailbox actions (ThreadActions, the part T), for every set of    *)
(* actions of any kinds and of labels switched elsewhere: what a rollback  *)
(* restores, that 'applied' is true, and that the mailbox shows Gmail's    *)
(* labels in the end.  The last rests on each action having labels of its  *)
(* own.  In every list of labels that somebody holds (the rows, Gmail's,   *)
(* those a request read, those a rollback is about to write) they are as   *)
(* at the beginning or as the action leaves them (Faced), and as at the    *)
(* beginning wherever the action has not been yet (Untouched).             *)
(***************************************************************************)
EXTENDS MC_Writes, TLAPS

-----------------------------------------------------------------------------
(* The mail: the inductive invariant.                                       *)

(* Who is in a cycle owns the running job, so there is one such worker.     *)
OneCycle ==
    \A w \in Workers : pc[w] # "idle" => job.st = "running" /\ job.owner = w /\ ~job.lapsed

(* A job exists only for a recorded mail.                                   *)
Recorded == state = "none" => job.st = "none"

(* A worker that is about to send claimed a mail nobody had sent.           *)
ClaimedUnsent ==
    \A w \in Workers : /\ pc[w] = "claim" => state = "queued"
                       /\ pc[w] = "send" => state = "sending" /\ copies = 0
                       /\ pc[w] = "search" => state \in {"sending", "failed"}
                       /\ pc[w] = "confirm" => state \in {"sending", "failed"}

MailInv == TypeOK /\ OneCycle /\ Recorded /\ ClaimedUnsent /\ AtMostOneCopy /\ QueuedIsUnsent

LEMMA MailInvInitially == Init => MailInv
  BY DEF Init, MailInv, TypeOK, States, Locked, NoJob, OneCycle, Recorded, ClaimedUnsent,
     AtMostOneCopy, QueuedIsUnsent

LEMMA MailInvInductive ==
  ASSUME ~Overlap, MailInv, [Next]_vars
  PROVE  MailInv'
<1> DEFINE Rest == OneCycle /\ Recorded /\ ClaimedUnsent /\ AtMostOneCopy /\ QueuedIsUnsent
<1>0. TypeOK /\ Rest
  BY DEF MailInv
<1> USE DEF TypeOK, States, Locked, NoJob
<1>1. ASSUME Create PROVE MailInv'
  <2>1. TypeOK'
    BY <1>0, <1>1 DEF Create, Created
  <2>2. OneCycle'
    BY <1>0, <1>1, <2>1 DEF Create, Created, OneCycle, Recorded, ClaimedUnsent, AtMostOneCopy, QueuedIsUnsent
  <2>3. Recorded'
    BY <1>0, <1>1, <2>1 DEF Create, Created, OneCycle, Recorded, ClaimedUnsent, AtMostOneCopy, QueuedIsUnsent
  <2>4. ClaimedUnsent'
    BY <1>0, <1>1, <2>1 DEF Create, Created, OneCycle, Recorded, ClaimedUnsent, AtMostOneCopy, QueuedIsUnsent
  <2>5. AtMostOneCopy'
    BY <1>0, <1>1, <2>1 DEF Create, Created, OneCycle, Recorded, ClaimedUnsent, AtMostOneCopy, QueuedIsUnsent
  <2>6. QueuedIsUnsent'
    BY <1>0, <1>1, <2>1 DEF Create, Created, OneCycle, Recorded, ClaimedUnsent, AtMostOneCopy, QueuedIsUnsent
  <2> QED BY <2>1, <2>2, <2>3, <2>4, <2>5, <2>6 DEF MailInv
<1>2. ASSUME Queue PROVE MailInv'
  <2>1. TypeOK'
    BY <1>0, <1>2 DEF Queue
  <2>2. OneCycle'
    BY <1>0, <1>2, <2>1 DEF Queue, OneCycle, Recorded, ClaimedUnsent, AtMostOneCopy, QueuedIsUnsent
  <2>3. Recorded'
    BY <1>0, <1>2, <2>1 DEF Queue, OneCycle, Recorded, ClaimedUnsent, AtMostOneCopy, QueuedIsUnsent
  <2>4. ClaimedUnsent'
    BY <1>0, <1>2, <2>1 DEF Queue, OneCycle, Recorded, ClaimedUnsent, AtMostOneCopy, QueuedIsUnsent
  <2>5. AtMostOneCopy'
    BY <1>0, <1>2, <2>1 DEF Queue, OneCycle, Recorded, ClaimedUnsent, AtMostOneCopy, QueuedIsUnsent
  <2>6. QueuedIsUnsent'
    BY <1>0, <1>2, <2>1 DEF Queue, OneCycle, Recorded, ClaimedUnsent, AtMostOneCopy, QueuedIsUnsent
  <2> QED BY <2>1, <2>2, <2>3, <2>4, <2>5, <2>6 DEF MailInv
<1>3. ASSUME Index PROVE MailInv'
  <2>1. TypeOK'
    BY <1>0, <1>3 DEF Index
  <2>2. OneCycle'
    BY <1>0, <1>3, <2>1 DEF Index, OneCycle, Recorded, ClaimedUnsent, AtMostOneCopy, QueuedIsUnsent
  <2>3. Recorded'
    BY <1>0, <1>3, <2>1 DEF Index, OneCycle, Recorded, ClaimedUnsent, AtMostOneCopy, QueuedIsUnsent
  <2>4. ClaimedUnsent'
    BY <1>0, <1>3, <2>1 DEF Index, OneCycle, Recorded, ClaimedUnsent, AtMostOneCopy, QueuedIsUnsent
  <2>5. AtMostOneCopy'
    BY <1>0, <1>3, <2>1 DEF Index, OneCycle, Recorded, ClaimedUnsent, AtMostOneCopy, QueuedIsUnsent
  <2>6. QueuedIsUnsent'
    BY <1>0, <1>3, <2>1 DEF Index, OneCycle, Recorded, ClaimedUnsent, AtMostOneCopy, QueuedIsUnsent
  <2> QED BY <2>1, <2>2, <2>3, <2>4, <2>5, <2>6 DEF MailInv
<1>4. ASSUME Lapse PROVE MailInv'
  <2>1. TypeOK'
    BY <1>0, <1>4 DEF Lapse
  <2>2. OneCycle'
    BY <1>0, <1>4, <2>1 DEF Lapse, OneCycle, Recorded, ClaimedUnsent, AtMostOneCopy, QueuedIsUnsent
  <2>3. Recorded'
    BY <1>0, <1>4, <2>1 DEF Lapse, OneCycle, Recorded, ClaimedUnsent, AtMostOneCopy, QueuedIsUnsent
  <2>4. ClaimedUnsent'
    BY <1>0, <1>4, <2>1 DEF Lapse, OneCycle, Recorded, ClaimedUnsent, AtMostOneCopy, QueuedIsUnsent
  <2>5. AtMostOneCopy'
    BY <1>0, <1>4, <2>1 DEF Lapse, OneCycle, Recorded, ClaimedUnsent, AtMostOneCopy, QueuedIsUnsent
  <2>6. QueuedIsUnsent'
    BY <1>0, <1>4, <2>1 DEF Lapse, OneCycle, Recorded, ClaimedUnsent, AtMostOneCopy, QueuedIsUnsent
  <2> QED BY <2>1, <2>2, <2>3, <2>4, <2>5, <2>6 DEF MailInv
<1>5. ASSUME Disconnect PROVE MailInv'
  <2>1. TypeOK'
    <3>1. UNCHANGED <<state, copies, indexed, pc, seen, outcome>> /\ job' = NoJob
      BY <1>5 DEF Disconnect
    <3>2. faults \in Nat
      BY <1>0
    <3>3. faults' \in Nat /\ allowed' \in BOOLEAN
      <4>1. faults' = faults + 1
        BY <1>5 DEF Disconnect
      <4>2. allowed' \in BOOLEAN
        BY <1>5, Zenon DEF Disconnect
      <4> QED BY <3>2, <4>1, <4>2
    <3>4. job' \in [st : {"none", "queued", "running"}, n : Nat,
                   owner : Workers \cup {NoWorker}, lapsed : BOOLEAN]
      BY <3>1
    <3> QED BY <1>0, <3>1, <3>3, <3>4
  <2>2. OneCycle'
    BY <1>0, <1>5, <2>1 DEF Disconnect, OneCycle, Recorded, ClaimedUnsent, AtMostOneCopy, QueuedIsUnsent
  <2>3. Recorded'
    BY <1>0, <1>5, <2>1 DEF Disconnect, OneCycle, Recorded, ClaimedUnsent, AtMostOneCopy, QueuedIsUnsent
  <2>4. ClaimedUnsent'
    BY <1>0, <1>5, <2>1 DEF Disconnect, OneCycle, Recorded, ClaimedUnsent, AtMostOneCopy, QueuedIsUnsent
  <2>5. AtMostOneCopy'
    BY <1>0, <1>5, <2>1 DEF Disconnect, OneCycle, Recorded, ClaimedUnsent, AtMostOneCopy, QueuedIsUnsent
  <2>6. QueuedIsUnsent'
    BY <1>0, <1>5, <2>1 DEF Disconnect, OneCycle, Recorded, ClaimedUnsent, AtMostOneCopy, QueuedIsUnsent
  <2> QED BY <2>1, <2>2, <2>3, <2>4, <2>5, <2>6 DEF MailInv
<1>6. ASSUME Reconnect PROVE MailInv'
  <2>1. TypeOK'
    BY <1>0, <1>6 DEF Reconnect
  <2>2. OneCycle'
    BY <1>0, <1>6, <2>1 DEF Reconnect, OneCycle, Recorded, ClaimedUnsent, AtMostOneCopy, QueuedIsUnsent
  <2>3. Recorded'
    BY <1>0, <1>6, <2>1 DEF Reconnect, OneCycle, Recorded, ClaimedUnsent, AtMostOneCopy, QueuedIsUnsent
  <2>4. ClaimedUnsent'
    BY <1>0, <1>6, <2>1 DEF Reconnect, OneCycle, Recorded, ClaimedUnsent, AtMostOneCopy, QueuedIsUnsent
  <2>5. AtMostOneCopy'
    BY <1>0, <1>6, <2>1 DEF Reconnect, OneCycle, Recorded, ClaimedUnsent, AtMostOneCopy, QueuedIsUnsent
  <2>6. QueuedIsUnsent'
    BY <1>0, <1>6, <2>1 DEF Reconnect, OneCycle, Recorded, ClaimedUnsent, AtMostOneCopy, QueuedIsUnsent
  <2> QED BY <2>1, <2>2, <2>3, <2>4, <2>5, <2>6 DEF MailInv
<1>7. ASSUME NEW w \in Workers, Pick(w) PROVE MailInv'
  <2>1. TypeOK'
    BY <1>0, <1>7 DEF Pick, Goto
  <2>2. OneCycle'
    BY <1>0, <1>7, <2>1 DEF Pick, Goto, OneCycle, Recorded, ClaimedUnsent, AtMostOneCopy, QueuedIsUnsent
  <2>3. Recorded'
    BY <1>0, <1>7, <2>1 DEF Pick, Goto, OneCycle, Recorded, ClaimedUnsent, AtMostOneCopy, QueuedIsUnsent
  <2>4. ClaimedUnsent'
    BY <1>0, <1>7, <2>1 DEF Pick, Goto, OneCycle, Recorded, ClaimedUnsent, AtMostOneCopy, QueuedIsUnsent
  <2>5. AtMostOneCopy'
    BY <1>0, <1>7, <2>1 DEF Pick, Goto, OneCycle, Recorded, ClaimedUnsent, AtMostOneCopy, QueuedIsUnsent
  <2>6. QueuedIsUnsent'
    BY <1>0, <1>7, <2>1 DEF Pick, Goto, OneCycle, Recorded, ClaimedUnsent, AtMostOneCopy, QueuedIsUnsent
  <2> QED BY <2>1, <2>2, <2>3, <2>4, <2>5, <2>6 DEF MailInv
<1>8. ASSUME NEW w \in Workers, Enter(w) PROVE MailInv'
  <2>1. TypeOK'
    BY <1>0, <1>8 DEF Enter, Ends, Goto, NeedsSearch
  <2>2. OneCycle'
    BY <1>0, <1>8, <2>1 DEF Enter, Ends, Goto, NeedsSearch, OneCycle, Recorded, ClaimedUnsent, AtMostOneCopy, QueuedIsUnsent
  <2>3. Recorded'
    BY <1>0, <1>8, <2>1 DEF Enter, Ends, Goto, NeedsSearch, OneCycle, Recorded, ClaimedUnsent, AtMostOneCopy, QueuedIsUnsent
  <2>4. ClaimedUnsent'
    BY <1>0, <1>8, <2>1 DEF Enter, Ends, Goto, NeedsSearch, OneCycle, Recorded, ClaimedUnsent, AtMostOneCopy, QueuedIsUnsent
  <2>5. AtMostOneCopy'
    BY <1>0, <1>8, <2>1 DEF Enter, Ends, Goto, NeedsSearch, OneCycle, Recorded, ClaimedUnsent, AtMostOneCopy, QueuedIsUnsent
  <2>6. QueuedIsUnsent'
    BY <1>0, <1>8, <2>1 DEF Enter, Ends, Goto, NeedsSearch, OneCycle, Recorded, ClaimedUnsent, AtMostOneCopy, QueuedIsUnsent
  <2> QED BY <2>1, <2>2, <2>3, <2>4, <2>5, <2>6 DEF MailInv
<1>9. ASSUME NEW w \in Workers, RaiseError(w) PROVE MailInv'
  <2>1. TypeOK'
    BY <1>0, <1>9 DEF RaiseError, Goto
  <2>2. OneCycle'
    BY <1>0, <1>9, <2>1 DEF RaiseError, Goto, OneCycle, Recorded, ClaimedUnsent, AtMostOneCopy, QueuedIsUnsent
  <2>3. Recorded'
    BY <1>0, <1>9, <2>1 DEF RaiseError, Goto, OneCycle, Recorded, ClaimedUnsent, AtMostOneCopy, QueuedIsUnsent
  <2>4. ClaimedUnsent'
    BY <1>0, <1>9, <2>1 DEF RaiseError, Goto, OneCycle, Recorded, ClaimedUnsent, AtMostOneCopy, QueuedIsUnsent
  <2>5. AtMostOneCopy'
    BY <1>0, <1>9, <2>1 DEF RaiseError, Goto, OneCycle, Recorded, ClaimedUnsent, AtMostOneCopy, QueuedIsUnsent
  <2>6. QueuedIsUnsent'
    BY <1>0, <1>9, <2>1 DEF RaiseError, Goto, OneCycle, Recorded, ClaimedUnsent, AtMostOneCopy, QueuedIsUnsent
  <2> QED BY <2>1, <2>2, <2>3, <2>4, <2>5, <2>6 DEF MailInv
<1>10. ASSUME NEW w \in Workers, SearchFinds(w) PROVE MailInv'
  <2>1. TypeOK'
    BY <1>0, <1>10 DEF SearchFinds, Goto
  <2>2. OneCycle'
    BY <1>0, <1>10, <2>1 DEF SearchFinds, Goto, OneCycle, Recorded, ClaimedUnsent, AtMostOneCopy, QueuedIsUnsent
  <2>3. Recorded'
    BY <1>0, <1>10, <2>1 DEF SearchFinds, Goto, OneCycle, Recorded, ClaimedUnsent, AtMostOneCopy, QueuedIsUnsent
  <2>4. ClaimedUnsent'
    BY <1>0, <1>10, <2>1 DEF SearchFinds, Goto, OneCycle, Recorded, ClaimedUnsent, AtMostOneCopy, QueuedIsUnsent
  <2>5. AtMostOneCopy'
    BY <1>0, <1>10, <2>1 DEF SearchFinds, Goto, OneCycle, Recorded, ClaimedUnsent, AtMostOneCopy, QueuedIsUnsent
  <2>6. QueuedIsUnsent'
    BY <1>0, <1>10, <2>1 DEF SearchFinds, Goto, OneCycle, Recorded, ClaimedUnsent, AtMostOneCopy, QueuedIsUnsent
  <2> QED BY <2>1, <2>2, <2>3, <2>4, <2>5, <2>6 DEF MailInv
<1>11. ASSUME NEW w \in Workers, Claim(w) PROVE MailInv'
  <2>1. TypeOK'
    BY <1>0, <1>11 DEF Claim, Goto
  <2>2. OneCycle'
    BY <1>0, <1>11, <2>1 DEF Claim, Goto, OneCycle, Recorded, ClaimedUnsent, AtMostOneCopy, QueuedIsUnsent
  <2>3. Recorded'
    BY <1>0, <1>11, <2>1 DEF Claim, Goto, OneCycle, Recorded, ClaimedUnsent, AtMostOneCopy, QueuedIsUnsent
  <2>4. ClaimedUnsent'
    BY <1>0, <1>11, <2>1 DEF Claim, Goto, OneCycle, Recorded, ClaimedUnsent, AtMostOneCopy, QueuedIsUnsent
  <2>5. AtMostOneCopy'
    BY <1>0, <1>11, <2>1 DEF Claim, Goto, OneCycle, Recorded, ClaimedUnsent, AtMostOneCopy, QueuedIsUnsent
  <2>6. QueuedIsUnsent'
    BY <1>0, <1>11, <2>1 DEF Claim, Goto, OneCycle, Recorded, ClaimedUnsent, AtMostOneCopy, QueuedIsUnsent
  <2> QED BY <2>1, <2>2, <2>3, <2>4, <2>5, <2>6 DEF MailInv
<1>12. ASSUME NEW w \in Workers, Send(w) PROVE MailInv'
  <2>1. TypeOK'
    BY <1>0, <1>12 DEF Send, Goto
  <2>2. OneCycle'
    BY <1>0, <1>12, <2>1 DEF Send, Goto, OneCycle, Recorded, ClaimedUnsent, AtMostOneCopy, QueuedIsUnsent
  <2>3. Recorded'
    BY <1>0, <1>12, <2>1 DEF Send, Goto, OneCycle, Recorded, ClaimedUnsent, AtMostOneCopy, QueuedIsUnsent
  <2>4. ClaimedUnsent'
    BY <1>0, <1>12, <2>1 DEF Send, Goto, OneCycle, Recorded, ClaimedUnsent, AtMostOneCopy, QueuedIsUnsent
  <2>5. AtMostOneCopy'
    BY <1>0, <1>12, <2>1 DEF Send, Goto, OneCycle, Recorded, ClaimedUnsent, AtMostOneCopy, QueuedIsUnsent
  <2>6. QueuedIsUnsent'
    BY <1>0, <1>12, <2>1 DEF Send, Goto, OneCycle, Recorded, ClaimedUnsent, AtMostOneCopy, QueuedIsUnsent
  <2> QED BY <2>1, <2>2, <2>3, <2>4, <2>5, <2>6 DEF MailInv
<1>13. ASSUME NEW w \in Workers, Confirm(w) PROVE MailInv'
  <2>1. TypeOK'
    BY <1>0, <1>13 DEF Confirm, Ends, Goto
  <2>2. OneCycle'
    BY <1>0, <1>13, <2>1 DEF Confirm, Ends, Goto, OneCycle, Recorded, ClaimedUnsent, AtMostOneCopy, QueuedIsUnsent
  <2>3. Recorded'
    BY <1>0, <1>13, <2>1 DEF Confirm, Ends, Goto, OneCycle, Recorded, ClaimedUnsent, AtMostOneCopy, QueuedIsUnsent
  <2>4. ClaimedUnsent'
    BY <1>0, <1>13, <2>1 DEF Confirm, Ends, Goto, OneCycle, Recorded, ClaimedUnsent, AtMostOneCopy, QueuedIsUnsent
  <2>5. AtMostOneCopy'
    BY <1>0, <1>13, <2>1 DEF Confirm, Ends, Goto, OneCycle, Recorded, ClaimedUnsent, AtMostOneCopy, QueuedIsUnsent
  <2>6. QueuedIsUnsent'
    BY <1>0, <1>13, <2>1 DEF Confirm, Ends, Goto, OneCycle, Recorded, ClaimedUnsent, AtMostOneCopy, QueuedIsUnsent
  <2> QED BY <2>1, <2>2, <2>3, <2>4, <2>5, <2>6 DEF MailInv
<1>14. ASSUME NEW w \in Workers, Recover(w) PROVE MailInv'
  <2>1. TypeOK'
    BY <1>0, <1>14 DEF Recover, Goto
  <2>2. OneCycle'
    BY <1>0, <1>14, <2>1 DEF Recover, Goto, OneCycle, Recorded, ClaimedUnsent, AtMostOneCopy, QueuedIsUnsent
  <2>3. Recorded'
    BY <1>0, <1>14, <2>1 DEF Recover, Goto, OneCycle, Recorded, ClaimedUnsent, AtMostOneCopy, QueuedIsUnsent
  <2>4. ClaimedUnsent'
    BY <1>0, <1>14, <2>1 DEF Recover, Goto, OneCycle, Recorded, ClaimedUnsent, AtMostOneCopy, QueuedIsUnsent
  <2>5. AtMostOneCopy'
    BY <1>0, <1>14, <2>1 DEF Recover, Goto, OneCycle, Recorded, ClaimedUnsent, AtMostOneCopy, QueuedIsUnsent
  <2>6. QueuedIsUnsent'
    BY <1>0, <1>14, <2>1 DEF Recover, Goto, OneCycle, Recorded, ClaimedUnsent, AtMostOneCopy, QueuedIsUnsent
  <2> QED BY <2>1, <2>2, <2>3, <2>4, <2>5, <2>6 DEF MailInv
<1>15. ASSUME NEW w \in Workers, Record(w) PROVE MailInv'
  <2>1. TypeOK'
    BY <1>0, <1>15 DEF Record, Ends, Goto, AfterError
  <2>2. OneCycle'
    BY <1>0, <1>15, <2>1 DEF Record, Ends, Goto, AfterError, OneCycle, Recorded, ClaimedUnsent, AtMostOneCopy, QueuedIsUnsent
  <2>3. Recorded'
    BY <1>0, <1>15, <2>1 DEF Record, Ends, Goto, AfterError, OneCycle, Recorded, ClaimedUnsent, AtMostOneCopy, QueuedIsUnsent
  <2>4. ClaimedUnsent'
    BY <1>0, <1>15, <2>1 DEF Record, Ends, Goto, AfterError, OneCycle, Recorded, ClaimedUnsent, AtMostOneCopy, QueuedIsUnsent
  <2>5. AtMostOneCopy'
    BY <1>0, <1>15, <2>1 DEF Record, Ends, Goto, AfterError, OneCycle, Recorded, ClaimedUnsent, AtMostOneCopy, QueuedIsUnsent
  <2>6. QueuedIsUnsent'
    BY <1>0, <1>15, <2>1 DEF Record, Ends, Goto, AfterError, OneCycle, Recorded, ClaimedUnsent, AtMostOneCopy, QueuedIsUnsent
  <2> QED BY <2>1, <2>2, <2>3, <2>4, <2>5, <2>6 DEF MailInv
<1>16. ASSUME NEW w \in Workers, RecordFails(w) PROVE MailInv'
  <2>1. TypeOK'
    BY <1>0, <1>16 DEF RecordFails, Ends, Goto
  <2>2. OneCycle'
    BY <1>0, <1>16, <2>1 DEF RecordFails, Ends, Goto, OneCycle, Recorded, ClaimedUnsent, AtMostOneCopy, QueuedIsUnsent
  <2>3. Recorded'
    BY <1>0, <1>16, <2>1 DEF RecordFails, Ends, Goto, OneCycle, Recorded, ClaimedUnsent, AtMostOneCopy, QueuedIsUnsent
  <2>4. ClaimedUnsent'
    BY <1>0, <1>16, <2>1 DEF RecordFails, Ends, Goto, OneCycle, Recorded, ClaimedUnsent, AtMostOneCopy, QueuedIsUnsent
  <2>5. AtMostOneCopy'
    BY <1>0, <1>16, <2>1 DEF RecordFails, Ends, Goto, OneCycle, Recorded, ClaimedUnsent, AtMostOneCopy, QueuedIsUnsent
  <2>6. QueuedIsUnsent'
    BY <1>0, <1>16, <2>1 DEF RecordFails, Ends, Goto, OneCycle, Recorded, ClaimedUnsent, AtMostOneCopy, QueuedIsUnsent
  <2> QED BY <2>1, <2>2, <2>3, <2>4, <2>5, <2>6 DEF MailInv
<1>17. ASSUME NEW w \in Workers, FinishJob(w) PROVE MailInv'
  <2>1. TypeOK'
    BY <1>0, <1>17 DEF FinishJob, Goto
  <2>2. OneCycle'
    BY <1>0, <1>17, <2>1 DEF FinishJob, Goto, OneCycle, Recorded, ClaimedUnsent, AtMostOneCopy, QueuedIsUnsent
  <2>3. Recorded'
    BY <1>0, <1>17, <2>1 DEF FinishJob, Goto, OneCycle, Recorded, ClaimedUnsent, AtMostOneCopy, QueuedIsUnsent
  <2>4. ClaimedUnsent'
    BY <1>0, <1>17, <2>1 DEF FinishJob, Goto, OneCycle, Recorded, ClaimedUnsent, AtMostOneCopy, QueuedIsUnsent
  <2>5. AtMostOneCopy'
    BY <1>0, <1>17, <2>1 DEF FinishJob, Goto, OneCycle, Recorded, ClaimedUnsent, AtMostOneCopy, QueuedIsUnsent
  <2>6. QueuedIsUnsent'
    BY <1>0, <1>17, <2>1 DEF FinishJob, Goto, OneCycle, Recorded, ClaimedUnsent, AtMostOneCopy, QueuedIsUnsent
  <2> QED BY <2>1, <2>2, <2>3, <2>4, <2>5, <2>6 DEF MailInv
<1>18. ASSUME NEW w \in Workers, Crash(w) PROVE MailInv'
  <2>1. TypeOK'
    BY <1>0, <1>18 DEF Crash, Goto
  <2>2. OneCycle'
    BY <1>0, <1>18, <2>1 DEF Crash, Goto, OneCycle, Recorded, ClaimedUnsent, AtMostOneCopy, QueuedIsUnsent
  <2>3. Recorded'
    BY <1>0, <1>18, <2>1 DEF Crash, Goto, OneCycle, Recorded, ClaimedUnsent, AtMostOneCopy, QueuedIsUnsent
  <2>4. ClaimedUnsent'
    BY <1>0, <1>18, <2>1 DEF Crash, Goto, OneCycle, Recorded, ClaimedUnsent, AtMostOneCopy, QueuedIsUnsent
  <2>5. AtMostOneCopy'
    BY <1>0, <1>18, <2>1 DEF Crash, Goto, OneCycle, Recorded, ClaimedUnsent, AtMostOneCopy, QueuedIsUnsent
  <2>6. QueuedIsUnsent'
    BY <1>0, <1>18, <2>1 DEF Crash, Goto, OneCycle, Recorded, ClaimedUnsent, AtMostOneCopy, QueuedIsUnsent
  <2> QED BY <2>1, <2>2, <2>3, <2>4, <2>5, <2>6 DEF MailInv
<1>19. ASSUME UNCHANGED vars PROVE MailInv'
  <2>1. TypeOK'
    BY <1>0, <1>19 DEF vars
  <2>2. OneCycle'
    BY <1>0, <1>19, <2>1 DEF vars, OneCycle, Recorded, ClaimedUnsent, AtMostOneCopy, QueuedIsUnsent
  <2>3. Recorded'
    BY <1>0, <1>19, <2>1 DEF vars, OneCycle, Recorded, ClaimedUnsent, AtMostOneCopy, QueuedIsUnsent
  <2>4. ClaimedUnsent'
    BY <1>0, <1>19, <2>1 DEF vars, OneCycle, Recorded, ClaimedUnsent, AtMostOneCopy, QueuedIsUnsent
  <2>5. AtMostOneCopy'
    BY <1>0, <1>19, <2>1 DEF vars, OneCycle, Recorded, ClaimedUnsent, AtMostOneCopy, QueuedIsUnsent
  <2>6. QueuedIsUnsent'
    BY <1>0, <1>19, <2>1 DEF vars, OneCycle, Recorded, ClaimedUnsent, AtMostOneCopy, QueuedIsUnsent
  <2> QED BY <2>1, <2>2, <2>3, <2>4, <2>5, <2>6 DEF MailInv
<1> QED
  BY <1>1, <1>2, <1>3, <1>4, <1>5, <1>6, <1>7, <1>8, <1>9, <1>10, <1>11, <1>12, <1>13, <1>14, <1>15, <1>16, <1>17, <1>18, <1>19 DEF Next, Cycle

-----------------------------------------------------------------------------
(* "Every retry reconciles by Message-ID and cannot issue a duplicate        *)
(* provider send": the mail leaves at most once, and not while its row is    *)
(* queued, through crashes, lost answers, retries and disconnects.           *)
THEOREM AccountMailLeavesOnce ==
  ASSUME ~Overlap
  PROVE  Spec => []AccountSendHolds
<1>1. MailInv => AccountSendHolds
  BY DEF MailInv, AccountSendHolds
<1>2. MailInv /\ [Next]_vars => MailInv'
  BY MailInvInductive
<1> QED
  BY MailInvInitially, <1>1, <1>2, PTL DEF Spec

-----------------------------------------------------------------------------
(* The draft: the inductive invariant.                                      *)

(* Requests that found no Gmail draft are first saves, and work on the one  *)
(* they create; the others work on a draft a row named.                     *)
FirstSaves ==
    \A r \in DraftRequests :
        /\ dRequest[r].pc \in {"call", "write"} /\ dRequest[r].first =>
             /\ dRequest[r].kind = "save"
             /\ dRequest[r].pc = "call" => dRequest[r].id = NoDraft
             /\ dRequest[r].pc = "write" => dRequest[r].id = r
        /\ dRequest[r].pc \in {"call", "write"} /\ ~dRequest[r].first => dRequest[r].id # NoDraft

(* Until two first saves meet, every request works on the row's draft, and  *)
(* that draft was created by a save that is over.                           *)
OneName ==
    /\ ~forked /\ row.id # NoDraft => dRequest[row.id].pc = "done"
    /\ ~forked => \A r \in DraftRequests :
         dRequest[r].pc \in {"call", "write"} /\ ~dRequest[r].first => dRequest[r].id = row.id

(* Once that draft was sent or deleted at Gmail it does not come back.      *)
SentOnce ==
    ~forked =>
      /\ row.id = NoDraft => dCopies = 0 /\ row.state \in {"none", "saved"}
      /\ dCopies <= 1 /\ (dCopies = 1 => row.id \notin live)
      /\ row.state \in {"deleted", "sent"} => row.id \notin live
      /\ \A r \in DraftRequests :
           dRequest[r].kind # "save" /\ dRequest[r].pc = "write" => row.id \notin live

DraftInv == D!TypeOK /\ FirstSaves /\ OneName /\ SentOnce

LEMMA DraftInvInitially == D!Init => DraftInv
<1> SUFFICES ASSUME D!Init PROVE DraftInv
  OBVIOUS
<1>1. D!TypeOK
  BY DEF D!Init, D!TypeOK, D!Drafts
<1>2. \A r \in DraftRequests : dRequest[r].pc = "new"
  BY DEF D!Init
<1>3. row.id = NoDraft /\ row.state = "none" /\ dCopies = 0
  BY DEF D!Init
<1> QED
  BY <1>1, <1>2, <1>3 DEF DraftInv, FirstSaves, OneName, SentOnce

LEMMA DraftInvInductive ==
  ASSUME DraftInv, [D!Next]_(D!vars)
  PROVE  DraftInv'
<1> USE DEF D!Drafts
<1>0. D!TypeOK /\ FirstSaves /\ OneName /\ SentOnce
  BY DEF DraftInv
<1>1. ASSUME NEW r \in DraftRequests, D!Read(r) PROVE DraftInv'
  <2>0. \A q \in DraftRequests \ {r} : dRequest'[q] = dRequest[q]
    BY <1>0, <1>1 DEF D!Read, D!At, D!Goto, D!Target, D!Creates, D!Deleted, D!TypeOK
  <2>1. D!TypeOK'
    BY <1>0, <1>1 DEF D!Read, D!At, D!Goto, D!Target, D!Creates, D!Deleted, D!TypeOK
  <2>2. FirstSaves'
    BY <1>0, <1>1, <2>0, <2>1 DEF D!Read, D!At, D!Goto, D!Target, D!Creates, D!Deleted, D!TypeOK, FirstSaves
  <2>3. OneName'
    BY <1>0, <1>1, <2>0, <2>1 DEF D!Read, D!At, D!Goto, D!Target, D!Creates, D!Deleted, D!TypeOK, OneName, FirstSaves
  <2>4. SentOnce'
    BY <1>0, <1>1, <2>0, <2>1 DEF D!Read, D!At, D!Goto, D!Target, D!Creates, D!Deleted, D!TypeOK, SentOnce, FirstSaves, OneName
  <2> QED BY <2>1, <2>2, <2>3, <2>4 DEF DraftInv
<1>2. ASSUME NEW r \in DraftRequests, D!CallSave(r) PROVE DraftInv'
  <2>0. \A q \in DraftRequests \ {r} : dRequest'[q] = dRequest[q]
    BY <1>0, <1>2 DEF D!CallSave, D!At, D!Goto, D!Target, D!Creates, D!Deleted, D!TypeOK
  <2>1. D!TypeOK'
    BY <1>0, <1>2 DEF D!CallSave, D!At, D!Goto, D!Target, D!Creates, D!Deleted, D!TypeOK
  <2>2. FirstSaves'
    BY <1>0, <1>2, <2>0, <2>1 DEF D!CallSave, D!At, D!Goto, D!Target, D!Creates, D!Deleted, D!TypeOK, FirstSaves
  <2>3. OneName'
    BY <1>0, <1>2, <2>0, <2>1 DEF D!CallSave, D!At, D!Goto, D!Target, D!Creates, D!Deleted, D!TypeOK, OneName, FirstSaves
  <2>4. SentOnce'
    BY <1>0, <1>2, <2>0, <2>1 DEF D!CallSave, D!At, D!Goto, D!Target, D!Creates, D!Deleted, D!TypeOK, SentOnce, FirstSaves, OneName
  <2> QED BY <2>1, <2>2, <2>3, <2>4 DEF DraftInv
<1>3. ASSUME NEW r \in DraftRequests, D!WriteSave(r) PROVE DraftInv'
  <2>a. /\ dRequest[r].kind = "save" /\ dRequest[r].pc = "write"
        /\ dRequest'[r].pc = "done" /\ dRequest'[r].kind = "save"
        /\ row'.id = dRequest[r].id /\ row'.state = "saved"
    BY <1>0, <1>3 DEF D!WriteSave, D!At, D!Goto, D!Target, D!TypeOK
  <2>b. ~forked' => /\ ~forked
                    /\ dRequest[r].first => dRequest[r].id = r /\ row.id \in {NoDraft, r}
                    /\ ~dRequest[r].first => dRequest[r].id = row.id
    BY <1>0, <1>3 DEF D!WriteSave, D!At, D!Target, D!TypeOK, FirstSaves, OneName
  <2>c. live' = live /\ dCopies' = dCopies
    BY <1>3 DEF D!WriteSave
  <2>0. \A q \in DraftRequests \ {r} : dRequest'[q] = dRequest[q]
    BY <1>0, <1>3 DEF D!WriteSave, D!At, D!Goto, D!Target, D!Creates, D!Deleted, D!TypeOK
  <2>1. D!TypeOK'
    BY <1>0, <1>3 DEF D!WriteSave, D!At, D!Goto, D!Target, D!Creates, D!Deleted, D!TypeOK
  <2>2. FirstSaves'
    BY <1>0, <1>3, <2>0, <2>1 DEF D!WriteSave, D!At, D!Goto, D!Target, D!Creates, D!Deleted, D!TypeOK, FirstSaves
  <2>3. OneName'
    <3> SUFFICES ASSUME ~forked' PROVE OneName'
      BY DEF OneName
    <3>1. CASE dRequest[r].first
      BY <1>0, <2>0, <2>a, <2>b, <3>1 DEF OneName, FirstSaves
    <3>2. CASE ~dRequest[r].first
      <4>1. row'.id = row.id /\ row.id \in DraftRequests
        BY <1>0, <2>a, <2>b, <3>2 DEF D!TypeOK, FirstSaves
      <4> QED BY <1>0, <2>0, <2>a, <2>b, <3>2, <4>1 DEF OneName
    <3> QED BY <3>1, <3>2
  <2>4. SentOnce'
    <3> SUFFICES ASSUME ~forked' PROVE SentOnce'
      BY DEF SentOnce
    <3>1. CASE dRequest[r].first
      <4>1. row.id = NoDraft
        BY <1>0, <2>a, <2>b, <3>1 DEF OneName
      <4>2. dCopies' = 0 /\ row'.state = "saved"
        BY <1>0, <2>a, <2>b, <2>c, <4>1 DEF SentOnce
      <4>3. \A q \in DraftRequests : ~(dRequest'[q].kind # "save" /\ dRequest'[q].pc = "write")
        BY <1>0, <2>0, <2>a, <2>b, <4>1 DEF OneName, FirstSaves
      <4> QED BY <4>2, <4>3 DEF SentOnce
    <3>2. CASE ~dRequest[r].first
      <4>1. row'.id = row.id /\ row.id # NoDraft
        BY <1>0, <2>a, <2>b, <3>2 DEF FirstSaves
      <4> QED BY <1>0, <2>0, <2>a, <2>b, <2>c, <4>1 DEF SentOnce
    <3> QED BY <3>1, <3>2
  <2> QED BY <2>1, <2>2, <2>3, <2>4 DEF DraftInv
<1>4. ASSUME NEW r \in DraftRequests, D!CallDelete(r) PROVE DraftInv'
  <2>0. \A q \in DraftRequests \ {r} : dRequest'[q] = dRequest[q]
    BY <1>0, <1>4 DEF D!CallDelete, D!At, D!Goto, D!Target, D!Creates, D!Deleted, D!TypeOK
  <2>1. D!TypeOK'
    BY <1>0, <1>4 DEF D!CallDelete, D!At, D!Goto, D!Target, D!Creates, D!Deleted, D!TypeOK
  <2>2. FirstSaves'
    BY <1>0, <1>4, <2>0, <2>1 DEF D!CallDelete, D!At, D!Goto, D!Target, D!Creates, D!Deleted, D!TypeOK, FirstSaves
  <2>3. OneName'
    BY <1>0, <1>4, <2>0, <2>1 DEF D!CallDelete, D!At, D!Goto, D!Target, D!Creates, D!Deleted, D!TypeOK, OneName, FirstSaves
  <2>4. SentOnce'
    BY <1>0, <1>4, <2>0, <2>1 DEF D!CallDelete, D!At, D!Goto, D!Target, D!Creates, D!Deleted, D!TypeOK, SentOnce, FirstSaves, OneName
  <2> QED BY <2>1, <2>2, <2>3, <2>4 DEF DraftInv
<1>5. ASSUME NEW r \in DraftRequests, D!CallSend(r) PROVE DraftInv'
  <2>0. \A q \in DraftRequests \ {r} : dRequest'[q] = dRequest[q]
    BY <1>0, <1>5 DEF D!CallSend, D!At, D!Goto, D!Target, D!Creates, D!Deleted, D!TypeOK
  <2>1. D!TypeOK'
    BY <1>0, <1>5 DEF D!CallSend, D!At, D!Goto, D!Target, D!Creates, D!Deleted, D!TypeOK
  <2>2. FirstSaves'
    BY <1>0, <1>5, <2>0, <2>1 DEF D!CallSend, D!At, D!Goto, D!Target, D!Creates, D!Deleted, D!TypeOK, FirstSaves
  <2>3. OneName'
    BY <1>0, <1>5, <2>0, <2>1 DEF D!CallSend, D!At, D!Goto, D!Target, D!Creates, D!Deleted, D!TypeOK, OneName, FirstSaves
  <2>4. SentOnce'
    BY <1>0, <1>5, <2>0, <2>1 DEF D!CallSend, D!At, D!Goto, D!Target, D!Creates, D!Deleted, D!TypeOK, SentOnce, FirstSaves, OneName
  <2> QED BY <2>1, <2>2, <2>3, <2>4 DEF DraftInv
<1>6. ASSUME NEW r \in DraftRequests, D!WriteState(r) PROVE DraftInv'
  <2>0. \A q \in DraftRequests \ {r} : dRequest'[q] = dRequest[q]
    BY <1>0, <1>6 DEF D!WriteState, D!At, D!Goto, D!Target, D!Creates, D!Deleted, D!TypeOK
  <2>1. D!TypeOK'
    BY <1>0, <1>6 DEF D!WriteState, D!At, D!Goto, D!Target, D!Creates, D!Deleted, D!TypeOK
  <2>2. FirstSaves'
    BY <1>0, <1>6, <2>0, <2>1 DEF D!WriteState, D!At, D!Goto, D!Target, D!Creates, D!Deleted, D!TypeOK, FirstSaves
  <2>3. OneName'
    BY <1>0, <1>6, <2>0, <2>1 DEF D!WriteState, D!At, D!Goto, D!Target, D!Creates, D!Deleted, D!TypeOK, OneName, FirstSaves
  <2>4. SentOnce'
    BY <1>0, <1>6, <2>0, <2>1 DEF D!WriteState, D!At, D!Goto, D!Target, D!Creates, D!Deleted, D!TypeOK, SentOnce, FirstSaves, OneName
  <2> QED BY <2>1, <2>2, <2>3, <2>4 DEF DraftInv
<1>7. CASE UNCHANGED D!vars
  BY <1>0, <1>7 DEF D!vars, DraftInv, D!TypeOK, FirstSaves, OneName, SentOnce
<1> QED
  BY <1>1, <1>2, <1>3, <1>4, <1>5, <1>6, <1>7 DEF D!Next

(* save_draft, delete_draft and send_draft of one client draft overlap in   *)
(* any way: Gmail sends it once, unless two first saves made two of it.     *)
THEOREM DraftLeavesOnce == D!Spec => []DraftSentOnce
<1>1. DraftInv => DraftSentOnce
  BY DEF DraftInv, D!TypeOK, SentOnce, DraftSentOnce, D!DraftSentOnce
<1>2. DraftInv /\ [D!Next]_(D!vars) => DraftInv'
  BY DraftInvInductive
<1> QED
  BY DraftInvInitially, <1>1, <1>2, PTL DEF D!Spec

(* And a draft whose row says deleted or sent is none of Gmail's any more.  *)
THEOREM EndedStaysGone == D!Spec => []D!EndedIsGone
<1>1. DraftInv => D!EndedIsGone
  BY DEF DraftInv, SentOnce, D!EndedIsGone
<1>2. DraftInv /\ [D!Next]_(D!vars) => DraftInv'
  BY DraftInvInductive
<1> QED
  BY DraftInvInitially, <1>1, <1>2, PTL DEF D!Spec

-----------------------------------------------------------------------------
(* The action: the inductive invariant.                                     *)

(* What a request, a job or a worker is.                                    *)
ActionTyped ==
    /\ action \in {"none", "queued", "applying", "applied", "failed"}
    /\ asking \in Nat
    /\ errand \in [st : {"none", "queued", "running", "lapsed"}, n : Nat,
                   owner : Workers \cup {NoWorker}]
    /\ step \in [Workers -> {"idle", "read", "begin", "call", "record", "handle", "finish"}]
    /\ ending \in [Workers -> {"complete", "retry"}]

(* The job names a worker while one has claimed it.                         *)
OwnedWhileTaken == errand.st \in {"running", "lapsed"} <=> errand.owner \in Workers

(* Before the first request there is nothing.                               *)
UnaskedIsIdle ==
    action = "none" => errand.st = "none" /\ asking = 0 /\ \A w \in Workers : step[w] = "idle"

(* The job will be worked on again: it waits, or its owner does not end it. *)
GoesOn ==
    \/ errand.st \in {"queued", "lapsed"}
    \/ /\ errand.st = "running"
       /\ step[errand.owner] = "finish" => ending[errand.owner] = "retry" /\ ~X!Exhausted

(* A row that does not say how the action ended has somebody who will make  *)
(* it: a request about to queue the job, the job, or a worker on its way.   *)
SomebodyWillSay ==
    action \in {"queued", "applying"} /\ ~abandoned =>
        \/ asking > 0 /\ errand.st = "none"
        \/ GoesOn
        \/ \E w \in Workers : step[w] \in {"read", "begin", "call", "record", "handle"}

(* A worker about to record 'applied' has had Gmail's answer.               *)
AnswerHad == \A w \in Workers : step[w] = "record" => done

ErrandInv ==
    /\ ActionTyped /\ OwnedWhileTaken /\ UnaskedIsIdle /\ SomebodyWillSay
    /\ AnswerHad /\ X!AppliedIsDone

LEMMA ErrandInvInitially == X!Init => ErrandInv
  BY NullIsNoWorker DEF X!Init, X!NoErrand, ErrandInv, ActionTyped, OwnedWhileTaken, UnaskedIsIdle,
     SomebodyWillSay, AnswerHad, X!AppliedIsDone

LEMMA ErrandInvInductive ==
  ASSUME ErrandInv, [X!Next]_(X!vars)
  PROVE  ErrandInv'
<1> USE NullIsNoWorker DEF X!Mishap, X!NoMishap, X!Goto, X!NoErrand, X!Exhausted, X!AfterError,
   ErrandInv, ActionTyped, OwnedWhileTaken, UnaskedIsIdle, AnswerHad, X!AppliedIsDone
<1>1. ASSUME X!Request PROVE ErrandInv'
  <2>1. ActionTyped' /\ OwnedWhileTaken' /\ UnaskedIsIdle' /\ AnswerHad' /\ X!AppliedIsDone'
    BY <1>1 DEF X!Request
  <2>2. SomebodyWillSay'
    BY <1>1 DEF X!Request, SomebodyWillSay, GoesOn
  <2> QED BY <2>1, <2>2
<1>2. ASSUME X!Enqueue PROVE ErrandInv'
  <2>1. ActionTyped' /\ OwnedWhileTaken' /\ UnaskedIsIdle' /\ AnswerHad' /\ X!AppliedIsDone'
    BY <1>2 DEF X!Enqueue
  <2>2. SomebodyWillSay'
    BY <1>2 DEF X!Enqueue, SomebodyWillSay, GoesOn
  <2> QED BY <2>1, <2>2
<1>3. ASSUME X!RequestDies PROVE ErrandInv'
  <2>1. ActionTyped' /\ OwnedWhileTaken' /\ UnaskedIsIdle' /\ AnswerHad' /\ X!AppliedIsDone'
    BY <1>3 DEF X!RequestDies
  <2>2. SomebodyWillSay'
    BY <1>3 DEF X!RequestDies, SomebodyWillSay, GoesOn
  <2> QED BY <2>1, <2>2
<1>4. ASSUME X!Bury PROVE ErrandInv'
  <2>1. ActionTyped' /\ OwnedWhileTaken' /\ UnaskedIsIdle' /\ AnswerHad' /\ X!AppliedIsDone'
    BY <1>4 DEF X!Bury
  <2>2. SomebodyWillSay'
    BY <1>4 DEF X!Bury, SomebodyWillSay, GoesOn
  <2> QED BY <2>1, <2>2
<1>5. ASSUME X!Lapse PROVE ErrandInv'
  <2>1. ActionTyped' /\ OwnedWhileTaken' /\ UnaskedIsIdle' /\ AnswerHad' /\ X!AppliedIsDone'
    BY <1>5 DEF X!Lapse
  <2>2. SomebodyWillSay'
    BY <1>5 DEF X!Lapse, SomebodyWillSay, GoesOn
  <2> QED BY <2>1, <2>2
<1>6. ASSUME NEW w \in Workers, X!Take(w) PROVE ErrandInv'
  <2>1. ActionTyped' /\ OwnedWhileTaken' /\ UnaskedIsIdle' /\ AnswerHad' /\ X!AppliedIsDone'
    BY <1>6 DEF X!Take
  <2>2. SomebodyWillSay'
    BY <1>6 DEF X!Take, SomebodyWillSay, GoesOn
  <2> QED BY <2>1, <2>2
<1>7. ASSUME NEW w \in Workers, X!Read(w) PROVE ErrandInv'
  <2>1. ActionTyped' /\ OwnedWhileTaken' /\ UnaskedIsIdle' /\ AnswerHad' /\ X!AppliedIsDone'
    BY <1>7 DEF X!Read
  <2>2. SomebodyWillSay'
    BY <1>7 DEF X!Read, SomebodyWillSay, GoesOn
  <2> QED BY <2>1, <2>2
<1>8. ASSUME NEW w \in Workers, X!Begin(w) PROVE ErrandInv'
  <2>1. ActionTyped' /\ OwnedWhileTaken' /\ UnaskedIsIdle' /\ AnswerHad' /\ X!AppliedIsDone'
    BY <1>8 DEF X!Begin
  <2>2. SomebodyWillSay'
    BY <1>8 DEF X!Begin, SomebodyWillSay, GoesOn
  <2> QED BY <2>1, <2>2
<1>9. ASSUME NEW w \in Workers, X!Call(w) PROVE ErrandInv'
  <2>1. ActionTyped' /\ OwnedWhileTaken' /\ UnaskedIsIdle' /\ AnswerHad' /\ X!AppliedIsDone'
    BY <1>9 DEF X!Call
  <2>2. SomebodyWillSay'
    BY <1>9 DEF X!Call, SomebodyWillSay, GoesOn
  <2> QED BY <2>1, <2>2
<1>10. ASSUME NEW w \in Workers, X!Record(w) PROVE ErrandInv'
  <2>1. ActionTyped' /\ OwnedWhileTaken' /\ UnaskedIsIdle' /\ AnswerHad' /\ X!AppliedIsDone'
    BY <1>10 DEF X!Record
  <2>2. SomebodyWillSay'
    BY <1>10 DEF X!Record, SomebodyWillSay, GoesOn
  <2> QED BY <2>1, <2>2
<1>11. ASSUME NEW w \in Workers, X!Handle(w) PROVE ErrandInv'
  <2>1. ActionTyped' /\ OwnedWhileTaken' /\ UnaskedIsIdle' /\ AnswerHad' /\ X!AppliedIsDone'
    BY <1>11 DEF X!Handle
  <2>2. SomebodyWillSay'
    BY <1>11 DEF X!Handle, SomebodyWillSay, GoesOn
  <2> QED BY <2>1, <2>2
<1>12. ASSUME NEW w \in Workers, X!HandleFails(w) PROVE ErrandInv'
  <2>1. ActionTyped' /\ OwnedWhileTaken' /\ UnaskedIsIdle' /\ AnswerHad' /\ X!AppliedIsDone'
    BY <1>12 DEF X!HandleFails
  <2>2. SomebodyWillSay'
    BY <1>12 DEF X!HandleFails, SomebodyWillSay, GoesOn
  <2> QED BY <2>1, <2>2
<1>13. ASSUME NEW w \in Workers, X!Finish(w) PROVE ErrandInv'
  <2>1. ActionTyped' /\ OwnedWhileTaken' /\ UnaskedIsIdle' /\ AnswerHad' /\ X!AppliedIsDone'
    BY <1>13 DEF X!Finish
  <2>2. SomebodyWillSay'
    BY <1>13 DEF X!Finish, SomebodyWillSay, GoesOn
  <2> QED BY <2>1, <2>2
<1>14. ASSUME NEW w \in Workers, X!Crash(w) PROVE ErrandInv'
  <2>1. ActionTyped' /\ OwnedWhileTaken' /\ UnaskedIsIdle' /\ AnswerHad' /\ X!AppliedIsDone'
    BY <1>14 DEF X!Crash
  <2>2. SomebodyWillSay'
    BY <1>14 DEF X!Crash, SomebodyWillSay, GoesOn
  <2> QED BY <2>1, <2>2
<1>15. CASE UNCHANGED X!vars
  BY <1>15 DEF X!vars, SomebodyWillSay, GoesOn
<1> QED
  BY <1>1, <1>2, <1>3, <1>4, <1>5, <1>6, <1>7, <1>8, <1>9, <1>10, <1>11, <1>12, <1>13, <1>14, <1>15 DEF X!Next

(* An action of an additional account that nobody works on any more has a   *)
(* row that tells how it ended, whatever requests were repeated, leases      *)
(* lapsed under live workers and answers lost, unless the last attempt or    *)
(* request died without a word (run_account_thread_action).                  *)
THEOREM ActionsEnd == X!Spec => []ActionSettles
<1>1. ErrandInv => ActionSettles
  BY DEF ErrandInv, ActionTyped, SomebodyWillSay, GoesOn, ActionSettles, X!ActionSettles
<1>2. ErrandInv /\ [X!Next]_(X!vars) => ErrandInv'
  BY ErrandInvInductive
<1> QED
  BY ErrandInvInitially, <1>1, <1>2, PTL DEF X!Spec

(* And 'applied' is only said of an action Gmail carried out.               *)
THEOREM AppliedIsTrue == X!Spec => []X!AppliedIsDone
<1>1. ErrandInv /\ [X!Next]_(X!vars) => ErrandInv'
  BY ErrandInvInductive
<1>2. ErrandInv => X!AppliedIsDone
  BY DEF ErrandInv
<1> QED
  BY ErrandInvInitially, <1>1, <1>2, PTL DEF X!Spec

-----------------------------------------------------------------------------
(* Labels.                                                                 *)

LEMMA KindTyped ==
  ASSUME T!ActionAssumption, NEW a \in Actions
  PROVE  T!Removes[Kind[a]] \subseteq T!Labels /\ T!Adds[Kind[a]] \subseteq T!Labels
<1>1. Kind[a] \in DOMAIN T!Adds
  BY DEF T!ActionAssumption
<1> QED
  BY <1>1 DEF T!Removes, T!Adds, T!Labels

(* _labels_after_action and _labels_after_failed_action stay within the    *)
(* labels they are given and those of the action.                          *)
LEMMA LabelsTyped ==
  ASSUME T!ActionAssumption, NEW a \in Actions, NEW L \in SUBSET T!Labels, NEW P \in SUBSET T!Labels
  PROVE  /\ T!After(L, Kind[a]) \subseteq T!Labels
         /\ T!Undo(L, P, Kind[a]) \subseteq T!Labels
         /\ \A R \in T!AtGmail(L, Kind[a]) : R \subseteq T!Labels
<1>1. T!After(L, Kind[a]) \subseteq T!Labels
  BY KindTyped DEF T!After
<1>2. T!Undo(L, P, Kind[a]) \subseteq T!Labels
  BY DEF T!Undo
<1>3. \A R \in T!AtGmail(L, Kind[a]) : R \subseteq T!Labels
  BY <1>1 DEF T!AtGmail, T!Labels
<1> QED
  BY <1>1, <1>2, <1>3

(* The rollback of an action nothing has happened after restores exactly   *)
(* the labels that were there before it (_labels_after_failed_action).     *)
THEOREM UndoRestores ==
  ASSUME NEW a \in Actions, NEW L \in SUBSET T!Labels
  PROVE  T!Undo(T!After(L, Kind[a]), L, Kind[a]) = L
  BY DEF T!Undo, T!Affected

(* It touches no label the action does not: the labels outside its         *)
(* footprint are those it was given (_labels_after_failed_action).         *)
THEOREM UndoIsLocal ==
  ASSUME NEW a \in Actions, NEW L \in SUBSET T!Labels, NEW P \in SUBSET T!Labels
  PROVE  T!Undo(L, P, Kind[a]) \ T!Footprint(a) = L \ T!Footprint(a)
  BY DEF T!Undo, T!Affected, T!After, T!Footprint

-----------------------------------------------------------------------------
(* The inductive invariant.                                                *)

(* A worker that is not idle works on an action.                           *)
BusyHasTask == \A w \in Workers : tPc[w] # "idle" => task[w] \in Actions

(* A worker about to record 'applied' has had Gmail's answer.              *)
AnswerSeen == \A w \in Workers : tPc[w] = "applied" => task[w] \in reached

ActionInv == T!TypeOK /\ BusyHasTask /\ AnswerSeen /\ T!AppliedMeansDone

(* The request's steps, and those of Gmail, the importer and the user.     *)
LEMMA OutsideWorkers ==
  ASSUME T!ActionAssumption, ActionInv,
         \/ \E a \in Actions : T!Read(a) \/ T!Serve(a) \/ T!Abandon(a) \/ T!Lapse(a)
         \/ \E l \in OutsideLabels : T!Switch(l)
         \/ T!Sync \/ T!Reconnect
  PROVE  ActionInv'
<1> USE DEF T!ActionAssumption
<1>1. ASSUME NEW a \in Actions, T!Read(a) PROVE ActionInv'
  BY <1>1 DEF T!Read, T!Step, ActionInv, T!TypeOK, BusyHasTask, AnswerSeen, T!AppliedMeansDone,
     T!mail, T!worker, T!ghost, T!world
<1>2. ASSUME NEW a \in Actions, T!Upsert(a) PROVE ActionInv'
  BY <1>2 DEF T!Upsert, T!Step, ActionInv, T!TypeOK, BusyHasTask, AnswerSeen, T!AppliedMeansDone,
     T!mail, T!worker, T!ghost, T!world
<1>3. ASSUME NEW a \in Actions, T!ApplyLocally(a) PROVE ActionInv'
  <2>1. T!After(base[a], Kind[a]) \subseteq T!Labels
    BY LabelsTyped DEF ActionInv, T!TypeOK
  <2> QED
    BY <1>3, <2>1 DEF T!ApplyLocally, T!Step, ActionInv, T!TypeOK, BusyHasTask, AnswerSeen,
       T!AppliedMeansDone, T!worker, T!ghost, T!world
<1>4. ASSUME NEW a \in Actions, T!Enqueue(a) PROVE ActionInv'
  <2>1. [T!NoJob EXCEPT !.st = "queued"] \in T!JobRows
    BY DEF T!NoJob, T!JobRows
  <2> QED
    BY <1>4, <2>1 DEF T!Enqueue, T!Step, ActionInv, T!TypeOK, BusyHasTask, AnswerSeen,
       T!AppliedMeansDone, T!mail, T!worker, T!ghost, T!world
<1>5. ASSUME NEW a \in Actions, T!Abandon(a) PROVE ActionInv'
  BY <1>5 DEF T!Abandon, T!Fault, ActionInv, T!TypeOK, BusyHasTask, AnswerSeen,
     T!AppliedMeansDone, T!mail, T!worker, T!ghost
<1>6. ASSUME NEW a \in Actions, T!Lapse(a) PROVE ActionInv'
  <2>0. tJob[a] \in T!JobRows
    BY DEF ActionInv, T!TypeOK
  <2>1. [tJob[a] EXCEPT !.lapsed = TRUE] \in T!JobRows
    BY <2>0 DEF T!JobRows
  <2> QED
    BY <1>6, <2>1 DEF T!Lapse, T!Fault, ActionInv, T!TypeOK, BusyHasTask, AnswerSeen,
       T!AppliedMeansDone, T!mail, T!api, T!worker, T!ghost
<1>7. ASSUME NEW l \in OutsideLabels, T!Switch(l) PROVE ActionInv'
  BY <1>7 DEF T!Switch, ActionInv, T!TypeOK, BusyHasTask, AnswerSeen, T!AppliedMeansDone, T!api,
     T!worker, T!ghost
<1>8. CASE T!Sync \/ T!Reconnect
  BY <1>8 DEF T!Sync, T!Reconnect, ActionInv, T!TypeOK, BusyHasTask, AnswerSeen,
     T!AppliedMeansDone, T!mail, T!api, T!worker, T!ghost, T!world
<1> QED
  BY <1>1, <1>2, <1>3, <1>4, <1>5, <1>6, <1>7, <1>8 DEF T!Serve

(* Closing or requeueing a job leaves a row.                               *)
LEMMA CloseTyped ==
  ASSUME T!TypeOK, NEW a \in Actions, T!Close(a, "succeeded") \/ T!Close(a, "cancelled") \/ T!Close(a, "queued") \/ T!Close(a, "dead")
  PROVE  tJob' \in [Actions -> T!JobRows]
<1>1. tJob[a] \in T!JobRows
  BY DEF T!TypeOK
<1>2. \A s \in {"succeeded", "cancelled", "queued", "dead"} :
        [st |-> s, n |-> tJob[a].n, owner |-> NoWorker, lapsed |-> FALSE] \in T!JobRows
  BY <1>1 DEF T!JobRows
<1> QED
  BY <1>2 DEF T!TypeOK, T!Close

(* A claim makes the worker busy with an action.                           *)
LEMMA PickPreserves ==
  ASSUME T!ActionAssumption, ActionInv, NEW w \in Workers, NEW a \in Actions, T!Pick(w, a)
  PROVE  ActionInv'
<1>1. [st |-> "running", n |-> tJob[a].n + 1, owner |-> w, lapsed |-> FALSE] \in T!JobRows
  BY DEF ActionInv, T!TypeOK, T!JobRows
<1> QED
  BY <1>1 DEF T!Pick, T!Goto, T!At, ActionInv, T!TypeOK, BusyHasTask, AnswerSeen,
     T!AppliedMeansDone, T!mail, T!api, T!ghost, T!world

(* The steps of a cycle up to its end: each names what it reads.           *)
LEMMA CyclePreserves ==
  ASSUME T!ActionAssumption, ActionInv, NEW w \in Workers,
         \/ T!Look(w) \/ T!Begin(w) \/ T!Unavailable(w) \/ T!Blocked(w) \/ T!Answered(w)
         \/ T!Unanswered(w) \/ T!Unauthorized(w) \/ T!MarkApplied(w) \/ T!MarkFailed(w)
  PROVE  ActionInv'
<1>0. ASSUME tPc[w] # "idle" PROVE task[w] \in Actions
  BY <1>0 DEF ActionInv, BusyHasTask
<1>1. CASE T!Look(w)
  BY <1>1 DEF T!Look, T!Ending, T!Goto, T!At, ActionInv, T!TypeOK, BusyHasTask, AnswerSeen,
     T!AppliedMeansDone, T!mail, T!api, T!ghost, T!world
<1>2. CASE T!Begin(w)
  BY <1>0, <1>2 DEF T!Begin, T!Goto, T!At, ActionInv, T!TypeOK, BusyHasTask, AnswerSeen,
     T!AppliedMeansDone, T!mail, T!api, T!ghost, T!world
<1>3. CASE T!Unavailable(w) \/ T!Blocked(w)
  BY <1>3 DEF T!Unavailable, T!Blocked, T!Ending, T!Goto, T!At, ActionInv, T!TypeOK, BusyHasTask,
     AnswerSeen, T!AppliedMeansDone, T!mail, T!api, T!ghost, T!world
<1>4. ASSUME T!Carry(task[w]), task[w] \in Actions
      PROVE  remote' \subseteq T!Labels /\ unseen' \in BOOLEAN /\ reached' = reached \cup {task[w]} /\ UNCHANGED <<local, undone>>
  <2>1. \A R \in T!AtGmail(remote, Kind[task[w]]) : R \subseteq T!Labels
    BY <1>4, LabelsTyped DEF ActionInv, T!TypeOK
  <2>2. unseen' \in BOOLEAN
    BY <1>4 DEF T!Carry
  <2> QED
    BY <1>4, <2>1, <2>2 DEF T!Carry
<1>5. CASE T!Answered(w)
  BY <1>0, <1>4, <1>5 DEF T!Answered, T!Goto, T!At, ActionInv, T!TypeOK, BusyHasTask, AnswerSeen,
     T!AppliedMeansDone, T!api, T!world
<1>6. CASE T!Unanswered(w)
  <2>1. CASE T!Carry(task[w])
    BY <1>0, <1>4, <1>6, <2>1 DEF T!Unanswered, T!Goto, T!At, ActionInv, T!TypeOK, BusyHasTask,
       AnswerSeen, T!AppliedMeansDone, T!api, T!world
  <2>2. CASE UNCHANGED <<T!mail, T!ghost>>
    BY <1>6, <2>2 DEF T!Unanswered, T!Goto, T!At, ActionInv, T!TypeOK, BusyHasTask, AnswerSeen,
       T!AppliedMeansDone, T!mail, T!ghost, T!api, T!world
  <2> QED
    BY <1>6, <2>1, <2>2 DEF T!Unanswered
<1>7. CASE T!Unauthorized(w)
  BY <1>7 DEF T!ActionAssumption, T!Unauthorized, T!Fault, T!Goto, T!At, ActionInv, T!TypeOK,
     BusyHasTask, AnswerSeen, T!AppliedMeansDone, T!mail, T!api, T!ghost
<1>8. CASE T!MarkApplied(w)
  BY <1>0, <1>8 DEF T!MarkApplied, T!Marked, T!Ending, T!Goto, T!At, ActionInv, T!TypeOK,
     BusyHasTask, AnswerSeen, T!AppliedMeansDone, T!mail, T!api, T!ghost, T!world
<1>9. CASE T!MarkFailed(w)
  BY <1>0, <1>9 DEF T!MarkFailed, T!Marked, T!Goto, T!At, ActionInv, T!TypeOK, BusyHasTask,
     AnswerSeen, T!AppliedMeansDone, T!mail, T!api, T!ghost, T!world
<1> QED
  BY <1>1, <1>2, <1>3, <1>5, <1>6, <1>7, <1>8, <1>9

(* The end of a cycle, with its rollback, and a crash.                     *)
LEMMA EndPreserves ==
  ASSUME T!ActionAssumption, ActionInv, NEW w \in Workers, T!Finish(w) \/ T!RollBack(w) \/ T!Restore(w) \/ T!Crash(w)
  PROVE  ActionInv'
<1>0. ASSUME tPc[w] # "idle" PROVE task[w] \in Actions
  BY <1>0 DEF ActionInv, BusyHasTask
<1>1. CASE T!Finish(w)
  <2>1. tJob' \in [Actions -> T!JobRows]
    BY <1>0, <1>1, CloseTyped DEF T!Finish, T!At, ActionInv, T!TypeOK
  <2>2. tAllowed' \in BOOLEAN
    BY <1>1 DEF T!Finish
  <2>3. T!Rest(w) \/ (T!Goto(w, "rollback") /\ UNCHANGED <<task, tOutcome, draft>>)
    BY <1>1 DEF T!Finish
  <2> QED
    BY <1>0, <1>1, <2>1, <2>2, <2>3 DEF T!Finish, T!Rest, T!Goto, T!At, ActionInv, T!TypeOK,
       BusyHasTask, AnswerSeen, T!AppliedMeansDone, T!mail, T!api, T!ghost
<1>2. CASE T!RollBack(w)
  <2>1. task[w] \in Actions
    BY <1>0, <1>2 DEF T!RollBack, T!At
  <2>2. T!Undo(local, base[task[w]], Kind[task[w]]) \subseteq T!Labels
    BY <2>1, LabelsTyped DEF ActionInv, T!TypeOK
  <2> QED
    BY <1>2, <2>1, <2>2 DEF T!RollBack, T!Rest, T!Goto, T!At, ActionInv, T!TypeOK, BusyHasTask,
       AnswerSeen, T!AppliedMeansDone, T!mail, T!api, T!world
<1>3. CASE T!Restore(w)
  BY <1>0, <1>3 DEF T!Restore, T!Rest, T!Goto, T!At, ActionInv, T!TypeOK, BusyHasTask,
     AnswerSeen, T!AppliedMeansDone, T!api, T!world
<1>4. CASE T!Crash(w)
  BY <1>4 DEF T!ActionAssumption, T!Crash, T!Rest, T!Fault, T!Goto, T!At, ActionInv, T!TypeOK,
     BusyHasTask, AnswerSeen, T!AppliedMeansDone, T!mail, T!api, T!ghost
<1> QED
  BY <1>1, <1>2, <1>3, <1>4

LEMMA ActionInvInductive ==
  ASSUME T!ActionAssumption, ActionInv, [T!Next]_(T!vars)
  PROVE  ActionInv'
<1>1. CASE UNCHANGED T!vars
  BY <1>1 DEF T!vars, ActionInv, T!TypeOK, BusyHasTask, AnswerSeen, T!AppliedMeansDone, T!mail,
     T!api, T!worker, T!ghost, T!world
<1>2. ASSUME NEW w \in Workers, T!Advance(w) PROVE ActionInv'
  BY <1>2, CyclePreserves, EndPreserves DEF T!Advance
<1>3. ASSUME NEW w \in Workers, T!Crash(w) PROVE ActionInv'
  BY <1>3, EndPreserves
<1>4. ASSUME NEW w \in Workers, NEW a \in Actions, T!Pick(w, a) PROVE ActionInv'
  BY <1>4, PickPreserves
<1>5. CASE T!Done
  BY <1>1, <1>5 DEF T!Done
<1> QED
  BY <1>1, <1>2, <1>3, <1>4, <1>5, OutsideWorkers DEF T!Next

LEMMA ActionInvInitially ==
  ASSUME T!ActionAssumption, T!Init
  PROVE  ActionInv
<1>1. T!NoJob \in T!JobRows
  BY DEF T!NoJob, T!JobRows
<1>2. outside \in 0 .. MaxOutside /\ tFaults \in 0 .. ActionFaults
  BY DEF T!ActionAssumption, T!Init
<1>3. local \subseteq T!Labels /\ remote \subseteq T!Labels
  BY DEF T!ActionAssumption, T!Init
<1>4. T!TypeOK
  BY <1>1, <1>2, <1>3 DEF T!Init, T!TypeOK
<1>5. BusyHasTask /\ AnswerSeen /\ T!AppliedMeansDone
  BY DEF T!Init, BusyHasTask, AnswerSeen, T!AppliedMeansDone
<1> QED
  BY <1>4, <1>5 DEF ActionInv

(* The inductive invariant: types, a task for every busy worker, and Gmail's *)
(* answer behind every record of it (run_pending_thread_action).           *)
THEOREM ActionInvariant ==
  ASSUME T!ActionAssumption PROVE T!Spec => []ActionInv
  BY ActionInvInitially, ActionInvInductive, PTL DEF T!Spec

(* The variables of the mailbox actions keep their types.                  *)
THEOREM ActionTypes ==
  ASSUME T!ActionAssumption PROVE T!Spec => []T!TypeOK
<1>1. ActionInv => T!TypeOK
  BY DEF ActionInv
<1> QED
  BY <1>1, ActionInvariant, PTL

(* An action recorded as 'applied' has been carried out by Gmail, whatever *)
(* crashes, lost answers and stolen jobs came before                       *)
(* (run_pending_thread_action).                                            *)
THEOREM AppliedIsDone ==
  ASSUME T!ActionAssumption PROVE T!Spec => []T!AppliedMeansDone
<1>1. ActionInv => T!AppliedMeansDone
  BY DEF ActionInv
<1> QED
  BY <1>1, ActionInvariant, PTL

-----------------------------------------------------------------------------
(* What the mailbox shows once the actions are over: the invariant.         *)

(* The action's labels are those of the beginning, or those it leaves.      *)
Untouched(L, a) == L \cap T!Footprint(a) = InitialLabels \cap T!Footprint(a)
Switched(L, a) == L \cap T!Footprint(a) = T!After(InitialLabels, Kind[a]) \cap T!Footprint(a)
Faced(L, a) == Untouched(L, a) \/ Switched(L, a)

(* Only an accepted request has a job, a worker and an end.                 *)
AcceptedFirst ==
    /\ \A a \in Actions : tJob[a].st # "none" => request[a] = "accepted"
    /\ \A a \in reached \cup undone : request[a] = "accepted"
    /\ \A a \in undone : tJob[a].st = "dead"
    /\ \A w \in Workers : tPc[w] # "idle" => request[task[w]] = "accepted"
    /\ \A w \in Workers : tPc[w] \in {"rollback", "restore"} => tJob[task[w]].st = "dead"

(* Before the request changes the labels nobody does, and the lists it and  *)
(* the others write back still have them as they were.                      *)
UntouchedBefore ==
    /\ \A a \in T!Requested : Untouched(base[a], a)
    /\ \A a \in Actions :
         request[a] \in {"none", "read", "upserted"} =>
           /\ Untouched(local, a)
           /\ \A b \in T!Requested : Untouched(base[b], a)
           /\ \A w \in Workers : tPc[w] = "restore" => Untouched(draft[w], a)

(* Until Gmail carries the action out its labels there are as they were, and *)
(* everywhere else as they were or as the action leaves them.               *)
TwoFaces ==
    \A a \in Actions \ reached :
        /\ Untouched(remote, a) /\ Faced(local, a)
        /\ \A b \in T!Requested : Faced(base[b], a)
        /\ \A w \in Workers : tPc[w] = "restore" => Faced(draft[w], a)

(* A rollback brings back the labels of the beginning.                      *)
RollsBack ==
    /\ \A w \in Workers :
         tPc[w] = "restore" /\ task[w] \notin reached => Untouched(draft[w], task[w])
    /\ \A a \in undone \ reached :
         (\A b \in Actions \ {a} : request[b] \in {"none", "read"}) => Untouched(local, a)

(* A job succeeds on an applied action.                                     *)
SucceedsDone ==
    /\ \A a \in Actions : tJob[a].st = "succeeded" => a \in reached
    /\ \A w \in Workers : tPc[w] = "finish" /\ tOutcome[w] = "complete" => task[w] \in reached
    /\ \A w \in Workers : tPc[w] = "failing" => tOutcome[w] # "complete"

ViewInv == AcceptedFirst /\ UntouchedBefore /\ TwoFaces /\ RollsBack /\ SucceedsDone

(* A view that differs from Gmail's and is not refreshed has an action that *)
(* Gmail will yet feel, or one that failed.                                 *)
Failed(a) == request[a] = "lost" \/ tJob[a].st \in {"dead", "cancelled"}
Coming(a) ==
    /\ request[a] \in {"optimistic", "accepted"} /\ a \notin reached
    /\ T!After(InitialLabels, Kind[a]) # InitialLabels
Viewed == ~unseen /\ local # remote => \E a \in Actions : Failed(a) \/ Coming(a)

-----------------------------------------------------------------------------
(* What an action does to the labels of another, and to its own.            *)
LEMMA OthersKept ==
  ASSUME T!ActionAssumption, T!Separate, NEW a \in Actions, NEW b \in Actions \ {a},
         NEW L \in SUBSET T!Labels, NEW P \in SUBSET T!Labels,
         NEW R \in {T!After(L, Kind[b]), T!Undo(L, P, Kind[b])} \cup T!AtGmail(L, Kind[b])
  PROVE  (Untouched(L, a) => Untouched(R, a)) /\ (Faced(L, a) => Faced(R, a))
<1>1. T!Footprint(b) \cap T!Footprint(a) = {}
  BY DEF T!Separate
<1>2. T!Removes[Kind[b]] \cap T!Footprint(a) = {} /\ T!Adds[Kind[b]] \cap T!Footprint(a) = {}
  BY <1>1 DEF T!Footprint
<1>3. T!After(L, Kind[b]) \cap T!Footprint(a) = L \cap T!Footprint(a)
  BY <1>2 DEF T!After
<1>4. T!Undo(L, P, Kind[b]) \cap T!Footprint(a) = L \cap T!Footprint(a)
  BY <1>2 DEF T!Undo, T!Affected, T!After
<1>5. ASSUME R \in T!AtGmail(L, Kind[b]) PROVE R \cap T!Footprint(a) = L \cap T!Footprint(a)
  <2>1. CASE Kind[b] = "mark_spam"
    BY <1>2, <1>5, <2>1 DEF T!AtGmail, T!Removes, T!Adds
  <2>2. CASE Kind[b] = "restore_trash"
    BY <1>2, <1>5, <2>2 DEF T!AtGmail, T!Removes, T!Adds
  <2>3. CASE Kind[b] \notin {"mark_spam", "restore_trash"}
    BY <1>3, <1>5, <2>3 DEF T!AtGmail
  <2> QED BY <2>1, <2>2, <2>3
<1>6. R \cap T!Footprint(a) = L \cap T!Footprint(a)
  BY <1>3, <1>4, <1>5
<1> QED BY <1>6 DEF Untouched, Switched, Faced

LEMMA OwnLabels ==
  ASSUME T!ActionAssumption, NEW a \in Actions, NEW L \in SUBSET T!Labels, NEW P \in SUBSET T!Labels,
         Untouched(P, a)
  PROVE  /\ Switched(T!After(P, Kind[a]), a)
         /\ Faced(L, a) => Untouched(T!Undo(L, P, Kind[a]), a)
         /\ T!After(P, Kind[a]) # P => T!After(InitialLabels, Kind[a]) # InitialLabels
<1>1. T!Removes[Kind[a]] \subseteq T!Footprint(a) /\ T!Adds[Kind[a]] \subseteq T!Footprint(a)
  BY DEF T!Footprint
<1>2. Switched(T!After(P, Kind[a]), a)
  BY <1>1 DEF Switched, Untouched, T!After
<1>3. ASSUME Untouched(L, a) PROVE Untouched(T!Undo(L, P, Kind[a]), a)
  BY <1>1, <1>3 DEF Untouched, T!Undo, T!Affected, T!After
<1>4. ASSUME Switched(L, a) PROVE Untouched(T!Undo(L, P, Kind[a]), a)
  BY <1>1, <1>4 DEF Untouched, Switched, T!Undo, T!Affected, T!After
<1>5. T!After(P, Kind[a]) # P => T!After(InitialLabels, Kind[a]) # InitialLabels
  BY <1>1 DEF Untouched, T!After
<1> QED BY <1>2, <1>3, <1>4, <1>5 DEF Faced

(* Gmail feels the first call of an action that changes the labels here.    *)
LEMMA GmailFeels ==
  ASSUME T!ActionAssumption, T!Felt, NEW a \in Actions, NEW L \in SUBSET T!Labels, Untouched(L, a),
         T!After(InitialLabels, Kind[a]) # InitialLabels
  PROVE  L \notin T!AtGmail(L, Kind[a])
<1>0. InitialLabels \notin T!AtGmail(InitialLabels, Kind[a])
  BY DEF T!Felt
<1>1. \A x \in T!Footprint(a) : x \in L <=> x \in InitialLabels
  BY DEF Untouched
<1>2. CASE Kind[a] = "mark_spam"
  <2>1. "INBOX" \in T!Footprint(a) /\ "SPAM" \in T!Footprint(a)
    BY <1>2 DEF T!Footprint, T!Removes, T!Adds
  <2>2. "INBOX" \in InitialLabels \/ "SPAM" \notin InitialLabels
    BY <1>0, <1>2 DEF T!AtGmail
  <2> QED BY <1>1, <1>2, <2>1, <2>2 DEF T!AtGmail
<1>3. CASE Kind[a] = "restore_trash"
  <2>1. "INBOX" \in T!Footprint(a) /\ "TRASH" \in T!Footprint(a)
    BY <1>3 DEF T!Footprint, T!Removes, T!Adds
  <2>2. "TRASH" \in InitialLabels
    BY <1>0, <1>3 DEF T!AtGmail
  <2> QED BY <1>1, <1>3, <2>1, <2>2 DEF T!AtGmail
<1>4. CASE Kind[a] \notin {"mark_spam", "restore_trash"}
  <2>1. \E x \in T!Footprint(a) :
           (x \in InitialLabels /\ x \in T!Removes[Kind[a]] /\ x \notin T!Adds[Kind[a]])
             \/ (x \notin InitialLabels /\ x \in T!Adds[Kind[a]])
    BY DEF T!After, T!Footprint
  <2>2. T!After(L, Kind[a]) # L
    BY <1>1, <2>1 DEF T!After
  <2> QED BY <1>4, <2>2 DEF T!AtGmail
<1> QED BY <1>2, <1>3, <1>4

(* No step brings a label into a view that no action put there.             *)
LEMMA ViewInvInductive ==
  ASSUME T!ActionAssumption, T!Separate, ActionInv, ViewInv, ActionInv', [T!Next]_(T!vars)
  PROVE  ViewInv'
<1> USE DEF T!mail, T!api, T!worker, T!ghost, T!world, T!Step, T!Fault, T!Goto, T!At, T!Ending,
   T!Rest, T!Due, T!Owns, T!Final, T!Close, T!Marked, T!NoJob, T!Requested
<1> USE DEF ViewInv
<1>0. \A w \in Workers : tPc[w] # "idle" => task[w] \in Actions
  BY DEF ActionInv, BusyHasTask
<1>1. ASSUME NEW a \in Actions, T!Read(a) PROVE ViewInv'
  <2>5. AcceptedFirst' /\ SucceedsDone'
    BY <1>0, <1>1 DEF T!Read, AcceptedFirst, SucceedsDone, ActionInv, AnswerSeen,
       T!AppliedMeansDone, T!TypeOK
  <2>6. UntouchedBefore' /\ TwoFaces' /\ RollsBack'
    BY <1>0, <1>1 DEF T!Read, AcceptedFirst, UntouchedBefore, TwoFaces, RollsBack, ActionInv,
       T!TypeOK
  <2> QED BY <2>5, <2>6
<1>2. ASSUME NEW a \in Actions, T!Upsert(a) PROVE ViewInv'
  <2>5. AcceptedFirst' /\ SucceedsDone'
    BY <1>0, <1>2 DEF T!Upsert, AcceptedFirst, SucceedsDone, ActionInv, AnswerSeen,
       T!AppliedMeansDone, T!TypeOK
  <2>6. UntouchedBefore' /\ TwoFaces' /\ RollsBack'
    BY <1>0, <1>2 DEF T!Upsert, AcceptedFirst, UntouchedBefore, TwoFaces, RollsBack, ActionInv,
       T!TypeOK
  <2> QED BY <2>5, <2>6
<1>3. ASSUME NEW a \in Actions, T!ApplyLocally(a) PROVE ViewInv'
  <2>1. request[a] = "upserted" /\ request' = [request EXCEPT ![a] = "optimistic"] /\ a \in T!Requested
    BY <1>3 DEF T!ApplyLocally
  <2>2. base[a] \in SUBSET T!Labels /\ Untouched(base[a], a) /\ Untouched(local, a)
    BY <2>1 DEF ActionInv, T!TypeOK, UntouchedBefore
  <2>3. \/ local' = local
        \/ /\ Switched(local', a)
           /\ \A b \in Actions \ {a} :
                (Untouched(base[a], b) => Untouched(local', b)) /\ (Faced(base[a], b) => Faced(local', b))
    <3>1. ASSUME NEW b \in Actions \ {a}
          PROVE  /\ Untouched(base[a], b) => Untouched(T!After(base[a], Kind[a]), b)
                 /\ Faced(base[a], b) => Faced(T!After(base[a], Kind[a]), b)
      BY <2>2, OthersKept
    <3>2. Switched(T!After(base[a], Kind[a]), a)
      BY <2>2, OwnLabels
    <3> QED BY <1>3, <3>1, <3>2 DEF T!ApplyLocally
  <2>4. UNCHANGED <<remote, base, draft, tPc, task, reached, undone>>
    BY <1>3 DEF T!ApplyLocally
  <2>5. AcceptedFirst' /\ SucceedsDone'
    BY <1>0, <1>3 DEF T!ApplyLocally, AcceptedFirst, SucceedsDone, ActionInv, AnswerSeen,
       T!AppliedMeansDone, T!TypeOK
  <2>6. UntouchedBefore' /\ TwoFaces' /\ RollsBack'
    BY <2>1, <2>2, <2>3, <2>4 DEF UntouchedBefore, TwoFaces, RollsBack, AcceptedFirst, Faced,
       ActionInv, T!TypeOK
  <2> QED BY <2>5, <2>6
<1>4. ASSUME NEW a \in Actions, T!Enqueue(a) PROVE ViewInv'
  <2>5. AcceptedFirst' /\ SucceedsDone'
    BY <1>0, <1>4 DEF T!Enqueue, AcceptedFirst, SucceedsDone, ActionInv, AnswerSeen,
       T!AppliedMeansDone, T!TypeOK
  <2>6. UntouchedBefore' /\ TwoFaces' /\ RollsBack'
    BY <1>0, <1>4 DEF T!Enqueue, AcceptedFirst, UntouchedBefore, TwoFaces, RollsBack, ActionInv,
       T!TypeOK
  <2> QED BY <2>5, <2>6
<1>5. ASSUME NEW a \in Actions, T!Abandon(a) PROVE ViewInv'
  <2>5. AcceptedFirst' /\ SucceedsDone'
    BY <1>0, <1>5 DEF T!Abandon, AcceptedFirst, SucceedsDone, ActionInv, AnswerSeen,
       T!AppliedMeansDone, T!TypeOK
  <2>6. UntouchedBefore' /\ TwoFaces' /\ RollsBack'
    BY <1>0, <1>5 DEF T!Abandon, AcceptedFirst, UntouchedBefore, TwoFaces, RollsBack, ActionInv,
       T!TypeOK
  <2> QED BY <2>5, <2>6
<1>6. ASSUME NEW a \in Actions, T!Lapse(a) PROVE ViewInv'
  <2>5. AcceptedFirst' /\ SucceedsDone'
    BY <1>0, <1>6 DEF T!Lapse, AcceptedFirst, SucceedsDone, ActionInv, AnswerSeen,
       T!AppliedMeansDone, T!TypeOK
  <2>6. UntouchedBefore' /\ TwoFaces' /\ RollsBack'
    BY <1>0, <1>6 DEF T!Lapse, AcceptedFirst, UntouchedBefore, TwoFaces, RollsBack, ActionInv,
       T!TypeOK
  <2> QED BY <2>5, <2>6
<1>7. ASSUME NEW w \in Workers, T!Look(w) PROVE ViewInv'
  <2>5. AcceptedFirst' /\ SucceedsDone'
    BY <1>0, <1>7 DEF T!Look, AcceptedFirst, SucceedsDone, ActionInv, AnswerSeen,
       T!AppliedMeansDone, T!TypeOK
  <2>6. UntouchedBefore' /\ TwoFaces' /\ RollsBack'
    BY <1>0, <1>7 DEF T!Look, AcceptedFirst, UntouchedBefore, TwoFaces, RollsBack, ActionInv,
       T!TypeOK
  <2> QED BY <2>5, <2>6
<1>8. ASSUME NEW w \in Workers, T!Begin(w) PROVE ViewInv'
  <2>5. AcceptedFirst' /\ SucceedsDone'
    BY <1>0, <1>8 DEF T!Begin, AcceptedFirst, SucceedsDone, ActionInv, AnswerSeen,
       T!AppliedMeansDone, T!TypeOK
  <2>6. UntouchedBefore' /\ TwoFaces' /\ RollsBack'
    BY <1>0, <1>8 DEF T!Begin, AcceptedFirst, UntouchedBefore, TwoFaces, RollsBack, ActionInv,
       T!TypeOK
  <2> QED BY <2>5, <2>6
<1>9. ASSUME NEW w \in Workers, T!Unavailable(w) PROVE ViewInv'
  <2>5. AcceptedFirst' /\ SucceedsDone'
    BY <1>0, <1>9 DEF T!Unavailable, AcceptedFirst, SucceedsDone, ActionInv, AnswerSeen,
       T!AppliedMeansDone, T!TypeOK
  <2>6. UntouchedBefore' /\ TwoFaces' /\ RollsBack'
    BY <1>0, <1>9 DEF T!Unavailable, AcceptedFirst, UntouchedBefore, TwoFaces, RollsBack,
       ActionInv, T!TypeOK
  <2> QED BY <2>5, <2>6
<1>10. ASSUME NEW w \in Workers, T!Blocked(w) PROVE ViewInv'
  <2>5. AcceptedFirst' /\ SucceedsDone'
    BY <1>0, <1>10 DEF T!Blocked, AcceptedFirst, SucceedsDone, ActionInv, AnswerSeen,
       T!AppliedMeansDone, T!TypeOK
  <2>6. UntouchedBefore' /\ TwoFaces' /\ RollsBack'
    BY <1>0, <1>10 DEF T!Blocked, AcceptedFirst, UntouchedBefore, TwoFaces, RollsBack, ActionInv,
       T!TypeOK
  <2> QED BY <2>5, <2>6
<1>11. ASSUME NEW w \in Workers, T!Answered(w) PROVE ViewInv'
  <2>1. task[w] \in Actions /\ tPc[w] = "call"
    BY <1>0, <1>11 DEF T!Answered
  <2>2. \A b \in Actions \ {task[w]} : Untouched(remote, b) => Untouched(remote', b)
    <3>1. remote \in SUBSET T!Labels
      BY DEF ActionInv, T!TypeOK
    <3>2. remote' = remote \/ remote' \in T!AtGmail(remote, Kind[task[w]])
      BY <1>11 DEF T!Answered, T!Carry
    <3> QED BY <2>1, <3>1, <3>2, OthersKept
  <2>3. /\ reached' \in {reached, reached \cup {task[w]}} /\ (remote' # remote => task[w] \in reached')
        /\ tPc' = [tPc EXCEPT ![w] = "applied"] /\ UNCHANGED <<local, request, base, tJob, draft, task, undone>>
        /\ UNCHANGED tOutcome
    BY <1>11 DEF T!Answered, T!Carry
  <2>5. AcceptedFirst' /\ SucceedsDone'
    BY <2>1, <2>3 DEF AcceptedFirst, SucceedsDone, ActionInv, T!TypeOK
  <2>6. UntouchedBefore' /\ TwoFaces' /\ RollsBack'
    BY <2>1, <2>2, <2>3 DEF UntouchedBefore, TwoFaces, RollsBack, ActionInv, T!TypeOK
  <2> QED BY <2>5, <2>6
<1>12. ASSUME NEW w \in Workers, T!Unanswered(w) PROVE ViewInv'
  <2>1. task[w] \in Actions /\ tPc[w] = "call"
    BY <1>0, <1>12 DEF T!Unanswered
  <2>2. \A b \in Actions \ {task[w]} : Untouched(remote, b) => Untouched(remote', b)
    <3>1. remote \in SUBSET T!Labels
      BY DEF ActionInv, T!TypeOK
    <3>2. remote' = remote \/ remote' \in T!AtGmail(remote, Kind[task[w]])
      BY <1>12 DEF T!Unanswered, T!Carry
    <3> QED BY <2>1, <3>1, <3>2, OthersKept
  <2>3. /\ reached' \in {reached, reached \cup {task[w]}} /\ (remote' # remote => task[w] \in reached')
        /\ tPc' = [tPc EXCEPT ![w] = "failing"] /\ UNCHANGED <<local, request, base, tJob, draft, task, undone>>
        /\ tOutcome' = [tOutcome EXCEPT ![w] = "retry"]
    BY <1>12 DEF T!Unanswered, T!Carry
  <2>5. AcceptedFirst' /\ SucceedsDone'
    BY <2>1, <2>3 DEF AcceptedFirst, SucceedsDone, ActionInv, T!TypeOK
  <2>6. UntouchedBefore' /\ TwoFaces' /\ RollsBack'
    BY <2>1, <2>2, <2>3 DEF UntouchedBefore, TwoFaces, RollsBack, ActionInv, T!TypeOK
  <2> QED BY <2>5, <2>6
<1>13. ASSUME NEW w \in Workers, T!Unauthorized(w) PROVE ViewInv'
  <2>5. AcceptedFirst' /\ SucceedsDone'
    BY <1>0, <1>13 DEF T!Unauthorized, AcceptedFirst, SucceedsDone, ActionInv, AnswerSeen,
       T!AppliedMeansDone, T!TypeOK
  <2>6. UntouchedBefore' /\ TwoFaces' /\ RollsBack'
    BY <1>0, <1>13 DEF T!Unauthorized, AcceptedFirst, UntouchedBefore, TwoFaces, RollsBack,
       ActionInv, T!TypeOK
  <2> QED BY <2>5, <2>6
<1>14. ASSUME NEW w \in Workers, T!MarkApplied(w) PROVE ViewInv'
  <2>5. AcceptedFirst' /\ SucceedsDone'
    BY <1>0, <1>14 DEF T!MarkApplied, AcceptedFirst, SucceedsDone, ActionInv, AnswerSeen,
       T!AppliedMeansDone, T!TypeOK
  <2>6. UntouchedBefore' /\ TwoFaces' /\ RollsBack'
    BY <1>0, <1>14 DEF T!MarkApplied, AcceptedFirst, UntouchedBefore, TwoFaces, RollsBack,
       ActionInv, T!TypeOK
  <2> QED BY <2>5, <2>6
<1>15. ASSUME NEW w \in Workers, T!MarkFailed(w) PROVE ViewInv'
  <2>5. AcceptedFirst' /\ SucceedsDone'
    BY <1>0, <1>15 DEF T!MarkFailed, AcceptedFirst, SucceedsDone, ActionInv, AnswerSeen,
       T!AppliedMeansDone, T!TypeOK
  <2>6. UntouchedBefore' /\ TwoFaces' /\ RollsBack'
    BY <1>0, <1>15 DEF T!MarkFailed, AcceptedFirst, UntouchedBefore, TwoFaces, RollsBack,
       ActionInv, T!TypeOK
  <2> QED BY <2>5, <2>6
<1>16. ASSUME NEW w \in Workers, T!Finish(w) PROVE ViewInv'
  <2>1. task[w] \in Actions /\ tPc[w] = "finish"
    BY <1>0, <1>16 DEF T!Finish
  <2>2. /\ \A b \in Actions : tJob'[b].st # tJob[b].st =>
             /\ b = task[w] /\ tJob[b].st = "running" /\ tJob'[b].st # "none"
             /\ tJob'[b].st = "succeeded" => tOutcome[w] = "complete"
        /\ \A v \in Workers \ {w} : tPc'[v] = tPc[v] /\ task'[v] = task[v] /\ tOutcome'[v] = tOutcome[v]
        /\ tPc'[w] = "idle" \/ (tPc'[w] = "rollback" /\ task'[w] = task[w] /\ tJob'[task[w]].st = "dead")
        /\ UNCHANGED <<request, reached, undone>>
    BY <1>16, <2>1 DEF T!Finish, ActionInv, T!TypeOK
  <2>5. AcceptedFirst' /\ SucceedsDone'
    <3>1. AcceptedFirst'
      <4>1. \A b \in Actions : tJob[b].st # "running" => tJob'[b].st = tJob[b].st
        BY <2>2
      <4>2. \A b \in Actions : tJob'[b].st # "none" => request'[b] = "accepted"
        BY <2>2 DEF AcceptedFirst
      <4>3. \A b \in undone' : tJob'[b].st = "dead"
        BY <2>2, <4>1 DEF AcceptedFirst, ActionInv, T!TypeOK
      <4>4. \A v \in Workers : tPc'[v] # "idle" => request'[task'[v]] = "accepted"
        BY <2>1, <2>2 DEF AcceptedFirst
      <4>5. \A v \in Workers : tPc'[v] \in {"rollback", "restore"} => tJob'[task'[v]].st = "dead"
        BY <1>0, <2>1, <2>2, <4>1 DEF AcceptedFirst
      <4> QED BY <2>2, <4>2, <4>3, <4>4, <4>5 DEF AcceptedFirst
    <3>2. SucceedsDone'
      BY <1>0, <2>1, <2>2 DEF SucceedsDone
    <3> QED BY <3>1, <3>2
  <2>6. UntouchedBefore' /\ TwoFaces' /\ RollsBack'
    BY <1>0, <1>16 DEF T!Finish, AcceptedFirst, UntouchedBefore, TwoFaces, RollsBack, ActionInv,
       T!TypeOK
  <2> QED BY <2>5, <2>6
<1>17. ASSUME NEW w \in Workers, T!RollBack(w) PROVE ViewInv'
  <2> DEFINE U == T!Undo(local, base[task[w]], Kind[task[w]])
  <2>1. task[w] \in T!Requested /\ tPc[w] = "rollback"
    BY <1>0, <1>17 DEF T!RollBack, AcceptedFirst
  <2>2. base[task[w]] \in SUBSET T!Labels /\ local \in SUBSET T!Labels /\ Untouched(base[task[w]], task[w])
    BY <2>1 DEF ActionInv, T!TypeOK, UntouchedBefore
  <2>3. \A b \in Actions \ {task[w]} :
          (Untouched(local, b) => Untouched(U, b)) /\ (Faced(local, b) => Faced(U, b))
    <3>1. SUFFICES ASSUME NEW b \in Actions \ {task[w]}
                   PROVE  (Untouched(local, b) => Untouched(U, b)) /\ (Faced(local, b) => Faced(U, b))
      OBVIOUS
    <3>2. b \in Actions /\ task[w] \in Actions \ {b}
      BY <2>1 DEF T!Requested
    <3> HIDE DEF U
    <3>3. \A R \in {T!After(local, Kind[task[w]]), T!Undo(local, base[task[w]], Kind[task[w]])}
                    \cup T!AtGmail(local, Kind[task[w]]) :
            (Untouched(local, b) => Untouched(R, b)) /\ (Faced(local, b) => Faced(R, b))
      BY <2>2, <3>2, OthersKept
    <3> QED BY <3>3 DEF U
  <2>4. task[w] \notin reached => Untouched(U, task[w])
    BY <2>1, <2>2, OwnLabels DEF TwoFaces
  <2>9. \/ /\ tState[task[w]] = "applied" \/ U = local
           /\ undone' = undone \cup {task[w]} /\ tPc' = [tPc EXCEPT ![w] = "idle"]
           /\ draft' = [draft EXCEPT ![w] = {}] /\ task' = [task EXCEPT ![w] = NoAction]
        \/ /\ tPc' = [tPc EXCEPT ![w] = "restore"] /\ draft' = [draft EXCEPT ![w] = U]
           /\ UNCHANGED <<task, undone>>
    BY <1>17 DEF T!RollBack
  <2>5. AcceptedFirst' /\ SucceedsDone'
    BY <1>0, <1>17 DEF T!RollBack, AcceptedFirst, SucceedsDone, ActionInv, AnswerSeen,
       T!AppliedMeansDone, T!TypeOK
  <2>7. UNCHANGED <<local, remote, request, base, reached>>
    BY <1>17 DEF T!RollBack
  <2>6. UntouchedBefore' /\ TwoFaces' /\ RollsBack'
    <3> HIDE DEF U
    <3>1. UntouchedBefore'
      BY <2>1, <2>3, <2>7, <2>9 DEF UntouchedBefore, AcceptedFirst, ActionInv, T!TypeOK
    <3>2. TwoFaces'
      BY <2>1, <2>3, <2>4, <2>7, <2>9 DEF TwoFaces, Faced, ActionInv, T!TypeOK
    <3>3. RollsBack'
      BY <2>1, <2>4, <2>7, <2>9 DEF RollsBack, ActionInv, T!TypeOK, T!AppliedMeansDone
    <3> QED BY <3>1, <3>2, <3>3
  <2> QED BY <2>5, <2>6
<1>18. ASSUME NEW w \in Workers, T!Restore(w) PROVE ViewInv'
  <2>5. AcceptedFirst' /\ SucceedsDone'
    BY <1>0, <1>18 DEF T!Restore, AcceptedFirst, SucceedsDone, ActionInv, AnswerSeen,
       T!AppliedMeansDone, T!TypeOK
  <2>6. UntouchedBefore' /\ TwoFaces' /\ RollsBack'
    BY <1>0, <1>18 DEF T!Restore, AcceptedFirst, UntouchedBefore, TwoFaces, RollsBack, ActionInv,
       T!TypeOK
  <2> QED BY <2>5, <2>6
<1>19. ASSUME NEW w \in Workers, T!Crash(w) PROVE ViewInv'
  <2>5. AcceptedFirst' /\ SucceedsDone'
    BY <1>0, <1>19 DEF T!Crash, AcceptedFirst, SucceedsDone, ActionInv, AnswerSeen,
       T!AppliedMeansDone, T!TypeOK
  <2>6. UntouchedBefore' /\ TwoFaces' /\ RollsBack'
    BY <1>0, <1>19 DEF T!Crash, AcceptedFirst, UntouchedBefore, TwoFaces, RollsBack, ActionInv,
       T!TypeOK
  <2> QED BY <2>5, <2>6
<1>20. ASSUME NEW w \in Workers, NEW a \in Actions, T!Pick(w, a) PROVE ViewInv'
  <2>5. AcceptedFirst' /\ SucceedsDone'
    BY <1>0, <1>20 DEF T!Pick, AcceptedFirst, SucceedsDone, ActionInv, AnswerSeen,
       T!AppliedMeansDone, T!TypeOK
  <2>6. UntouchedBefore' /\ TwoFaces' /\ RollsBack'
    BY <1>0, <1>20 DEF T!Pick, AcceptedFirst, UntouchedBefore, TwoFaces, RollsBack, ActionInv,
       T!TypeOK
  <2> QED BY <2>5, <2>6
<1>21. ASSUME NEW l \in OutsideLabels, T!Switch(l) PROVE ViewInv'
  <2>1. \A b \in Actions : Untouched(remote, b) => Untouched(remote', b)
    BY <1>21 DEF T!Switch, Untouched, T!Separate
  <2>5. AcceptedFirst' /\ SucceedsDone'
    BY <1>0, <1>21 DEF T!Switch, AcceptedFirst, SucceedsDone, ActionInv, AnswerSeen,
       T!AppliedMeansDone, T!TypeOK
  <2>6. UntouchedBefore' /\ TwoFaces' /\ RollsBack'
    BY <1>0, <1>21, <2>1 DEF T!Switch, AcceptedFirst, UntouchedBefore, TwoFaces, RollsBack,
       ActionInv, T!TypeOK
  <2> QED BY <2>5, <2>6
<1>22. ASSUME T!Sync PROVE ViewInv'
  <2>5. AcceptedFirst' /\ SucceedsDone'
    BY <1>0, <1>22 DEF T!Sync, AcceptedFirst, SucceedsDone, ActionInv, AnswerSeen,
       T!AppliedMeansDone, T!TypeOK, Faced
  <2>6. UntouchedBefore' /\ TwoFaces' /\ RollsBack'
    BY <1>0, <1>22 DEF T!Sync, AcceptedFirst, UntouchedBefore, TwoFaces, RollsBack, ActionInv,
       T!TypeOK, Faced
  <2> QED BY <2>5, <2>6
<1>23. ASSUME T!Reconnect PROVE ViewInv'
  <2>5. AcceptedFirst' /\ SucceedsDone'
    BY <1>0, <1>23 DEF T!Reconnect, AcceptedFirst, SucceedsDone, ActionInv, AnswerSeen,
       T!AppliedMeansDone, T!TypeOK
  <2>6. UntouchedBefore' /\ TwoFaces' /\ RollsBack'
    BY <1>0, <1>23 DEF T!Reconnect, AcceptedFirst, UntouchedBefore, TwoFaces, RollsBack,
       ActionInv, T!TypeOK
  <2> QED BY <2>5, <2>6
<1>24. CASE UNCHANGED T!vars
  BY <1>24 DEF T!vars, AcceptedFirst, SucceedsDone, UntouchedBefore, TwoFaces, RollsBack
<1>25. CASE T!Done
  BY <1>24, <1>25 DEF T!Done
<1> QED
  BY <1>1, <1>2, <1>3, <1>4, <1>5, <1>6, <1>7, <1>8, <1>9, <1>10, <1>11, <1>12, <1>13, <1>14,
     <1>15, <1>16, <1>17, <1>18, <1>19, <1>20, <1>21, <1>22, <1>23, <1>24, <1>25 DEF T!Next,
        T!Serve, T!Advance

(* A view that Gmail's does not follow is refreshed, or will be.            *)
LEMMA ViewedInductive ==
  ASSUME T!ActionAssumption, T!Separate, ActionInv, ViewInv, ActionInv', ViewInv', T!Felt, Viewed, [T!Next]_(T!vars)
  PROVE  Viewed'
<1> USE DEF T!mail, T!api, T!worker, T!ghost, T!world, T!Step, T!Fault, T!Goto, T!At, T!Ending,
   T!Rest, T!Due, T!Owns, T!Final, T!Close, T!Marked, T!NoJob, T!Requested
<1> USE DEF ViewInv
<1>0. \A w \in Workers : tPc[w] # "idle" => task[w] \in Actions
  BY DEF ActionInv, BusyHasTask
<1>1. ASSUME NEW a \in Actions, T!Read(a) PROVE Viewed'
  <2>5. Viewed'
    BY <1>0, <1>1 DEF T!Read, Viewed, Failed, Coming, AcceptedFirst, UntouchedBefore, TwoFaces,
       ActionInv, T!TypeOK
  <2> QED BY <2>5
<1>2. ASSUME NEW a \in Actions, T!Upsert(a) PROVE Viewed'
  <2>5. Viewed'
    BY <1>0, <1>2 DEF T!Upsert, Viewed, Failed, Coming, AcceptedFirst, UntouchedBefore, TwoFaces,
       ActionInv, T!TypeOK
  <2> QED BY <2>5
<1>3. ASSUME NEW a \in Actions, T!ApplyLocally(a) PROVE Viewed'
  <2>1. request[a] = "upserted" /\ request' = [request EXCEPT ![a] = "optimistic"] /\ a \notin reached
    BY <1>3 DEF T!ApplyLocally, AcceptedFirst
  <2>2. base[a] \in SUBSET T!Labels /\ Untouched(base[a], a)
    BY <2>1 DEF ActionInv, T!TypeOK, UntouchedBefore
  <2>3. local' = local \/ T!After(InitialLabels, Kind[a]) # InitialLabels
    BY <1>3, <2>2, OwnLabels DEF T!ApplyLocally
  <2>5. Viewed'
    BY <1>3, <2>1, <2>3 DEF T!ApplyLocally, Viewed, Failed, Coming, ActionInv, T!TypeOK
  <2> QED BY <2>5
<1>4. ASSUME NEW a \in Actions, T!Enqueue(a) PROVE Viewed'
  <2>5. Viewed'
    BY <1>0, <1>4 DEF T!Enqueue, Viewed, Failed, Coming, AcceptedFirst, UntouchedBefore,
       TwoFaces, ActionInv, T!TypeOK
  <2> QED BY <2>5
<1>5. ASSUME NEW a \in Actions, T!Abandon(a) PROVE Viewed'
  <2>5. Viewed'
    BY <1>0, <1>5 DEF T!Abandon, Viewed, Failed, Coming, AcceptedFirst, UntouchedBefore,
       TwoFaces, ActionInv, T!TypeOK
  <2> QED BY <2>5
<1>6. ASSUME NEW a \in Actions, T!Lapse(a) PROVE Viewed'
  <2>5. Viewed'
    BY <1>0, <1>6 DEF T!Lapse, Viewed, Failed, Coming, AcceptedFirst, UntouchedBefore, TwoFaces,
       ActionInv, T!TypeOK
  <2> QED BY <2>5
<1>7. ASSUME NEW w \in Workers, T!Look(w) PROVE Viewed'
  <2>5. Viewed'
    BY <1>0, <1>7 DEF T!Look, Viewed, Failed, Coming, AcceptedFirst, UntouchedBefore, TwoFaces,
       ActionInv, T!TypeOK
  <2> QED BY <2>5
<1>8. ASSUME NEW w \in Workers, T!Begin(w) PROVE Viewed'
  <2>5. Viewed'
    BY <1>0, <1>8 DEF T!Begin, Viewed, Failed, Coming, AcceptedFirst, UntouchedBefore, TwoFaces,
       ActionInv, T!TypeOK
  <2> QED BY <2>5
<1>9. ASSUME NEW w \in Workers, T!Unavailable(w) PROVE Viewed'
  <2>5. Viewed'
    BY <1>0, <1>9 DEF T!Unavailable, Viewed, Failed, Coming, AcceptedFirst, UntouchedBefore,
       TwoFaces, ActionInv, T!TypeOK
  <2> QED BY <2>5
<1>10. ASSUME NEW w \in Workers, T!Blocked(w) PROVE Viewed'
  <2>5. Viewed'
    BY <1>0, <1>10 DEF T!Blocked, Viewed, Failed, Coming, AcceptedFirst, UntouchedBefore,
       TwoFaces, ActionInv, T!TypeOK
  <2> QED BY <2>5
<1>11. ASSUME NEW w \in Workers, T!Answered(w) PROVE Viewed'
  <2>1. task[w] \in Actions /\ remote \in SUBSET T!Labels
    BY <1>0, <1>11 DEF T!Answered, ActionInv, T!TypeOK
  <2>2. \/ /\ remote' \in T!AtGmail(remote, Kind[task[w]]) /\ unseen' = (unseen \/ remote' # remote)
           /\ reached' = reached \cup {task[w]}
        \/ UNCHANGED <<remote, unseen, reached>>
    BY <1>11 DEF T!Answered, T!Carry
  <2>3. UNCHANGED <<local, request, tJob>>
    BY <1>11 DEF T!Answered, T!Carry
  <2>4. Coming(task[w]) => remote \notin T!AtGmail(remote, Kind[task[w]])
    BY <2>1, GmailFeels DEF Coming, TwoFaces
  <2>5. Viewed'
    BY <2>1, <2>2, <2>3, <2>4 DEF Viewed, Failed, Coming
  <2> QED BY <2>5
<1>12. ASSUME NEW w \in Workers, T!Unanswered(w) PROVE Viewed'
  <2>1. task[w] \in Actions /\ remote \in SUBSET T!Labels
    BY <1>0, <1>12 DEF T!Unanswered, ActionInv, T!TypeOK
  <2>2. \/ /\ remote' \in T!AtGmail(remote, Kind[task[w]]) /\ unseen' = (unseen \/ remote' # remote)
           /\ reached' = reached \cup {task[w]}
        \/ UNCHANGED <<remote, unseen, reached>>
    BY <1>12 DEF T!Unanswered, T!Carry
  <2>3. UNCHANGED <<local, request, tJob>>
    BY <1>12 DEF T!Unanswered, T!Carry
  <2>4. Coming(task[w]) => remote \notin T!AtGmail(remote, Kind[task[w]])
    BY <2>1, GmailFeels DEF Coming, TwoFaces
  <2>5. Viewed'
    BY <2>1, <2>2, <2>3, <2>4 DEF Viewed, Failed, Coming
  <2> QED BY <2>5
<1>13. ASSUME NEW w \in Workers, T!Unauthorized(w) PROVE Viewed'
  <2>5. Viewed'
    BY <1>0, <1>13 DEF T!Unauthorized, Viewed, Failed, Coming, AcceptedFirst, UntouchedBefore,
       TwoFaces, ActionInv, T!TypeOK
  <2> QED BY <2>5
<1>14. ASSUME NEW w \in Workers, T!MarkApplied(w) PROVE Viewed'
  <2>5. Viewed'
    BY <1>0, <1>14 DEF T!MarkApplied, Viewed, Failed, Coming, AcceptedFirst, UntouchedBefore,
       TwoFaces, ActionInv, T!TypeOK
  <2> QED BY <2>5
<1>15. ASSUME NEW w \in Workers, T!MarkFailed(w) PROVE Viewed'
  <2>5. Viewed'
    BY <1>0, <1>15 DEF T!MarkFailed, Viewed, Failed, Coming, AcceptedFirst, UntouchedBefore,
       TwoFaces, ActionInv, T!TypeOK
  <2> QED BY <2>5
<1>16. ASSUME NEW w \in Workers, T!Finish(w) PROVE Viewed'
  <2>5. Viewed'
    BY <1>0, <1>16 DEF T!Finish, Viewed, Failed, Coming, AcceptedFirst, UntouchedBefore,
       TwoFaces, ActionInv, T!TypeOK
  <2> QED BY <2>5
<1>17. ASSUME NEW w \in Workers, T!RollBack(w) PROVE Viewed'
  <2>5. Viewed'
    BY <1>0, <1>17 DEF T!RollBack, Viewed, Failed, Coming, AcceptedFirst, UntouchedBefore,
       TwoFaces, ActionInv, T!TypeOK
  <2> QED BY <2>5
<1>18. ASSUME NEW w \in Workers, T!Restore(w) PROVE Viewed'
  <2>5. Viewed'
    BY <1>0, <1>18 DEF T!Restore, Viewed, Failed, Coming, AcceptedFirst, UntouchedBefore,
       TwoFaces, ActionInv, T!TypeOK
  <2> QED BY <2>5
<1>19. ASSUME NEW w \in Workers, T!Crash(w) PROVE Viewed'
  <2>5. Viewed'
    BY <1>0, <1>19 DEF T!Crash, Viewed, Failed, Coming, AcceptedFirst, UntouchedBefore, TwoFaces,
       ActionInv, T!TypeOK
  <2> QED BY <2>5
<1>20. ASSUME NEW w \in Workers, NEW a \in Actions, T!Pick(w, a) PROVE Viewed'
  <2>5. Viewed'
    BY <1>0, <1>20 DEF T!Pick, Viewed, Failed, Coming, AcceptedFirst, UntouchedBefore, TwoFaces,
       ActionInv, T!TypeOK
  <2> QED BY <2>5
<1>21. ASSUME NEW l \in OutsideLabels, T!Switch(l) PROVE Viewed'
  <2>5. Viewed'
    BY <1>0, <1>21 DEF T!Switch, Viewed, Failed, Coming, AcceptedFirst, UntouchedBefore,
       TwoFaces, ActionInv, T!TypeOK
  <2> QED BY <2>5
<1>22. ASSUME T!Sync PROVE Viewed'
  <2>5. Viewed'
    BY <1>0, <1>22 DEF T!Sync, Viewed, Failed, Coming, AcceptedFirst, UntouchedBefore, TwoFaces,
       ActionInv, T!TypeOK
  <2> QED BY <2>5
<1>23. ASSUME T!Reconnect PROVE Viewed'
  <2>5. Viewed'
    BY <1>0, <1>23 DEF T!Reconnect, Viewed, Failed, Coming, AcceptedFirst, UntouchedBefore,
       TwoFaces, ActionInv, T!TypeOK
  <2> QED BY <2>5
<1>24. CASE UNCHANGED T!vars
  BY <1>24 DEF T!vars, Viewed, Failed, Coming
<1>25. CASE T!Done
  BY <1>24, <1>25 DEF T!Done
<1> QED
  BY <1>1, <1>2, <1>3, <1>4, <1>5, <1>6, <1>7, <1>8, <1>9, <1>10, <1>11, <1>12, <1>13, <1>14,
     <1>15, <1>16, <1>17, <1>18, <1>19, <1>20, <1>21, <1>22, <1>23, <1>24, <1>25 DEF T!Next,
        T!Serve, T!Advance

LEMMA ViewInitially ==
  ASSUME T!ActionAssumption, T!Init
  PROVE  ViewInv /\ Viewed
<1> USE DEF T!Init, T!NoJob, T!Requested, Untouched, Faced
<1>1. AcceptedFirst
  BY DEF AcceptedFirst
<1>2. UntouchedBefore /\ TwoFaces /\ RollsBack
  BY DEF UntouchedBefore, TwoFaces, RollsBack
<1>3. SucceedsDone
  BY DEF SucceedsDone
<1>4. Viewed
  BY DEF Viewed
<1> QED
  BY <1>1, <1>2, <1>3, <1>4 DEF ViewInv

(* Once every job has succeeded and the importer has caught up, the mailbox *)
(* shows Gmail's labels, whatever label lists concurrent requests, syncs    *)
(* and rollbacks wrote over one another on the way                          *)
(* (force_update_gmail_message_labels, upsert_gmail_messages).              *)
THEOREM ViewsAgree ==
  ASSUME T!ActionAssumption, T!Felt
  PROVE  T!Spec => []AppliedViewsAgree
<1>1. ASSUME ActionInv, ViewInv, Viewed PROVE AppliedViewsAgree
  <2>1. SUFFICES ASSUME T!Settled, \A a \in T!Requested : tJob[a].st = "succeeded",
                        NEW a \in Actions, Failed(a) \/ Coming(a)
                 PROVE  FALSE
    BY <1>1 DEF AppliedViewsAgree, T!AppliedViewsAgree, Viewed, T!Settled
  <2>2. request[a] # "none"
    BY <1>1, <2>1 DEF Failed, Coming, ViewInv, AcceptedFirst
  <2>3. request[a] = "accepted" /\ tJob[a].st = "succeeded"
    BY <2>1, <2>2 DEF T!Settled, T!Requested
  <2>4. a \in reached
    BY <1>1, <2>3 DEF ViewInv, SucceedsDone
  <2> QED BY <2>1, <2>3, <2>4 DEF Failed, Coming
<1>2. CASE T!Separate
  <2>1. T!Init => ActionInv /\ ViewInv /\ Viewed
    BY ActionInvInitially, ViewInitially
  <2>2. ActionInv /\ ViewInv /\ Viewed /\ [T!Next]_(T!vars) => (ActionInv /\ ViewInv /\ Viewed)'
    BY <1>2, ActionInvInductive, ViewInvInductive, ViewedInductive
  <2> QED BY <1>1, <2>1, <2>2, PTL DEF T!Spec
<1>3. CASE ~T!Separate
  <2>1. AppliedViewsAgree
    BY <1>3 DEF AppliedViewsAgree, T!AppliedViewsAgree
  <2> QED BY <2>1, PTL
<1> QED BY <1>2, <1>3

(* The only action there was failed for good and never reached Gmail: the  *)
(* rollback has left its labels as Gmail has them                          *)
(* (rollback_failed_thread_action, _labels_after_failed_action).           *)
THEOREM FailureLeavesNoTrace ==
  ASSUME T!ActionAssumption
  PROVE  T!Spec => []LoneFailureLeavesNoTrace
<1>1. ASSUME ViewInv PROVE LoneFailureLeavesNoTrace
  <2>1. SUFFICES ASSUME NEW a \in Actions, T!Requested = {a}, a \in undone \ reached
                 PROVE  local \cap T!Footprint(a) = remote \cap T!Footprint(a)
    BY DEF LoneFailureLeavesNoTrace, T!LoneFailureLeavesNoTrace
  <2>2. \A b \in Actions \ {a} : request[b] \in {"none", "read"}
    BY <2>1 DEF T!Requested
  <2> QED BY <1>1, <2>1, <2>2 DEF ViewInv, TwoFaces, RollsBack, Untouched
<1>2. CASE T!Separate
  <2>1. T!Init => ActionInv /\ ViewInv
    BY ActionInvInitially, ViewInitially
  <2>2. ActionInv /\ ViewInv /\ [T!Next]_(T!vars) => (ActionInv /\ ViewInv)'
    BY <1>2, ActionInvInductive, ViewInvInductive
  <2> QED BY <1>1, <2>1, <2>2, PTL DEF T!Spec
<1>3. CASE ~T!Separate
  <2>1. LoneFailureLeavesNoTrace
    BY <1>3 DEF LoneFailureLeavesNoTrace, T!LoneFailureLeavesNoTrace
  <2> QED BY <2>1, PTL
<1> QED BY <1>2, <1>3
=============================================================================
