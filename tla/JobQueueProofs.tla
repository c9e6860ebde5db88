--------------------------- MODULE JobQueueProofs ---------------------------
(* Theorems about the durable queue, for every set of jobs, workers, users *)
(* and request classes and every retry budget.                             *)
EXTENDS JobQueue, TLAPS

-----------------------------------------------------------------------------
(* Type correctness.                                                       *)

(* What Settle leaves in the three columns it writes: stated once for the  *)
(* operations of jobs.py that close or requeue rows.                       *)
LEMMA SettleTyped ==
  ASSUME TypeOK, NEW S, NEW o \in Terminal \cup {"queued"}, Settle(S, o)
  PROVE  /\ status' \in [Jobs -> Active \cup Terminal \cup {"absent", "deleted"}]
         /\ owner' \in [Jobs -> Workers \cup {NoWorker}]
         /\ lease' \in [Jobs -> {"none", "valid", "expired"}]
  BY DEF TypeOK, Settle, Active, Terminal

(* A cycle that ends leaves a typed state.                                 *)
LEMMA FinishTyped ==
  ASSUME TypeOK, NEW w \in Workers, Finish(w)
  PROVE  TypeOK'
<1> DEFINE S == IF Holds(w, claim[w].job) THEN {claim[w].job} ELSE {}
<1> DEFINE Closed == /\ status' \in [Jobs -> Active \cup Terminal \cup {"absent", "deleted"}]
                     /\ owner' \in [Jobs -> Workers \cup {NoWorker}]
                     /\ lease' \in [Jobs -> {"none", "valid", "expired"}]
<1>1. PICK o \in Terminal \cup {"queued"} : Settle(S, o)
  BY DEF Finish, CompleteJob, CancelClaimedJob, FailJob, Terminal
<1>2. Closed
  BY <1>1, SettleTyped
<1>3. ready' \in [Jobs -> BOOLEAN]
  BY DEF Finish, CompleteJob, CancelClaimedJob, FailJob, TypeOK
<1>4. phase' \in [Workers -> {"idle", "running", "stopped"}]
  BY DEF Finish, CompleteJob, CancelClaimedJob, FailJob, EndCycle, TypeOK
<1>5. UNCHANGED <<request, attempts, claim, allowed>>
  BY DEF Finish, CompleteJob, CancelClaimedJob, FailJob
<1> QED
  BY <1>2, <1>3, <1>4, <1>5 DEF TypeOK

LEMMA TypePreserved ==
  ASSUME TypeOK, [Next]_vars
  PROVE  TypeOK'
<1> USE QueueAssumption
<1>1. ASSUME NEW r \in Requests, NEW d \in BOOLEAN, WakeExisting(r, d) PROVE TypeOK'
  BY <1>1 DEF WakeExisting, TypeOK, ActiveFor
<1>2. ASSUME NEW r \in Requests, NEW d \in BOOLEAN, Insert(r, d) PROVE TypeOK'
  BY <1>2 DEF Insert, TypeOK, Active
<1>3. CASE ResolveSubject
  <2>1. PICK S : Settle(S, "succeeded")
    BY <1>3 DEF ResolveSubject
  <2>2. "succeeded" \in Terminal \cup {"queued"}
    BY DEF Terminal
  <2> QED BY <1>3, <2>1, <2>2, SettleTyped DEF ResolveSubject, TypeOK
<1>4. ASSUME NEW i \in Jobs, ResolveOne(i) PROVE TypeOK'
  <2>1. "succeeded" \in Terminal \cup {"queued"}
    BY DEF Terminal
  <2> QED BY <1>4, <2>1, SettleTyped DEF ResolveOne, TypeOK
<1>5. ASSUME NEW u \in Users, CancelUserJobs(u) PROVE TypeOK'
  <2>1. PICK S : Settle(S, "cancelled")
    BY <1>5 DEF CancelUserJobs
  <2>2. "cancelled" \in Terminal \cup {"queued"}
    BY DEF Terminal
  <2> QED BY <1>5, <2>1, <2>2, SettleTyped DEF CancelUserJobs, TypeOK
<1>6. ASSUME NEW u \in Users, SetAllowed(u) PROVE TypeOK'
  BY <1>6 DEF SetAllowed, TypeOK, rows
<1>7. CASE CleanupOldJobs
  BY <1>7 DEF CleanupOldJobs, TypeOK
<1>8. ASSUME NEW j \in Jobs, BecomeReady(j) PROVE TypeOK'
  BY <1>8 DEF BecomeReady, TypeOK
<1>9. ASSUME NEW j \in Jobs, LeaseExpires(j) PROVE TypeOK'
  BY <1>9 DEF LeaseExpires, TypeOK
<1>10. ASSUME NEW w \in Workers, ClaimJob(w) PROVE TypeOK'
  BY <1>10 DEF ClaimJob, TypeOK, Active
<1>11. ASSUME NEW w \in Workers, Heartbeat(w) PROVE TypeOK'
  BY <1>11 DEF Heartbeat, TypeOK
<1>12. ASSUME NEW w \in Workers, LateHeartbeat(w) PROVE TypeOK'
  BY <1>12 DEF LateHeartbeat, TypeOK, NoClaim
<1>13. ASSUME NEW w \in Workers, Finish(w) PROVE TypeOK'
  BY <1>13, FinishTyped
<1>14. ASSUME NEW w \in Workers, AbandonClaim(w) PROVE TypeOK'
  BY <1>14 DEF AbandonClaim, EndCycle, TypeOK, rows
<1>15. ASSUME NEW w \in Workers, StopWorker(w) PROVE TypeOK'
  BY <1>15 DEF StopWorker, TypeOK, rows
<1>16. CASE UNCHANGED vars
  BY <1>16 DEF TypeOK, vars, rows
<1> QED
  BY <1>1, <1>2, <1>3, <1>4, <1>5, <1>6, <1>7, <1>8, <1>9, <1>10, <1>11, <1>12,
     <1>13, <1>14, <1>15, <1>16 DEF Next, Api, Time, Work

(* The rows, claims and worker phases keep their types whatever the API,   *)
(* the clock and the workers of main.py do.                                *)
THEOREM TypeCorrect == Spec => []TypeOK
<1>1. Init => TypeOK
  BY QueueAssumption DEF Init, TypeOK, Active, Terminal, NoClaim
<1>2. TypeOK /\ [Next]_vars => TypeOK'
  BY TypePreserved
<1> QED
  BY <1>1, <1>2, PTL DEF Spec

-----------------------------------------------------------------------------
(* The inductive invariant: what the runs check, together, with the fact   *)
(* that a row which was never inserted was never claimed.                  *)
AbsentIsFresh == \A j \in Jobs : status[j] = "absent" => attempts[j] = 0

IInv ==
    /\ TypeOK
    /\ LeaseMatchesStatus
    /\ ClaimIsCurrent
    /\ RetryBudget
    /\ OneActivePerKey
    /\ AbsentIsFresh

LEMMA InitIInv == Init => IInv
  BY QueueAssumption DEF Init, IInv, TypeOK, LeaseMatchesStatus, ClaimIsCurrent,
     RetryBudget, OneActivePerKey, AbsentIsFresh, Active, Terminal, NoClaim

(* A sweep that closes active rows keeps the invariant: no worker holds a  *)
(* closed row any more, and no row becomes active.                         *)
LEMMA SweepKeepsIInv ==
  ASSUME IInv, TypeOK', NEW S \in SUBSET Jobs, NEW o \in {"succeeded", "cancelled"},
         Settle(S, o), UNCHANGED <<request, ready, attempts, phase, claim, allowed>>
  PROVE  IInv'
<1> USE QueueAssumption DEF Settle
<1>1. LeaseMatchesStatus'
  BY DEF IInv, LeaseMatchesStatus, TypeOK
<1>2. ClaimIsCurrent'
  BY DEF IInv, ClaimIsCurrent, TypeOK, Holds
<1>3. RetryBudget' /\ AbsentIsFresh'
  BY DEF IInv, RetryBudget, AbsentIsFresh, TypeOK
<1>4. OneActivePerKey'
  BY DEF IInv, OneActivePerKey, TypeOK, Active
<1> QED
  BY <1>1, <1>2, <1>3, <1>4 DEF IInv

(* The end of a cycle: a worker whose claim was overtaken changes no row,  *)
(* and one that still holds the row decides by the row's own attempts.     *)
LEMMA FinishKeepsIInv ==
  ASSUME IInv, TypeOK', NEW w \in Workers, Finish(w)
  PROVE  IInv'
<1> DEFINE j == claim[w].job
           S == IF Holds(w, j) THEN {j} ELSE {}
<1> USE QueueAssumption
<1>1. phase[w] = "running" /\ phase' = [phase EXCEPT ![w] = "idle"]
      /\ UNCHANGED <<request, attempts, claim>>
  BY DEF Finish, CompleteJob, CancelClaimedJob, FailJob, EndCycle
<1>2. j \in Jobs /\ (Holds(w, j) => claim[w].attempt = attempts[j])
  BY <1>1 DEF IInv, ClaimIsCurrent
<1>3. PICK o \in {"succeeded", "cancelled", "dead", "queued"} :
         /\ Settle(S, o)
         /\ o = "dead" => claim[w].attempt >= MaxAttempts
         /\ o = "queued" => ~(claim[w].attempt >= MaxAttempts)
  BY DEF Finish, CompleteJob, CancelClaimedJob, FailJob, IsFinal
<1> USE DEF Settle
<1>4. LeaseMatchesStatus'
  BY <1>2, <1>3 DEF IInv, LeaseMatchesStatus, TypeOK
<1>5. ClaimIsCurrent'
  BY <1>1, <1>2, <1>3 DEF IInv, ClaimIsCurrent, TypeOK, Holds
<1>6. RetryBudget'
  BY <1>1, <1>2, <1>3 DEF IInv, RetryBudget, TypeOK
<1>7. OneActivePerKey'
  BY <1>1, <1>2, <1>3 DEF IInv, OneActivePerKey, TypeOK, Active, Holds
<1>8. AbsentIsFresh'
  BY <1>1, <1>2, <1>3 DEF IInv, AbsentIsFresh, TypeOK
<1> QED
  BY <1>4, <1>5, <1>6, <1>7, <1>8 DEF IInv

(* claim_job: the snapshot of the new holder is the row's newest, and a    *)
(* worker the row was stolen from holds it no more.                        *)
LEMMA ClaimKeepsIInv ==
  ASSUME IInv, TypeOK', NEW w \in Workers, ClaimJob(w)
  PROVE  IInv'
<1> USE QueueAssumption
<1>1. PICK j \in Jobs :
         /\ Claimable(j)
         /\ status' = [status EXCEPT ![j] = "running"]
         /\ owner' = [owner EXCEPT ![j] = w]
         /\ lease' = [lease EXCEPT ![j] = "valid"]
         /\ attempts' = [attempts EXCEPT ![j] = @ + 1]
         /\ claim' = [claim EXCEPT ![w] = [job |-> j, attempt |-> attempts[j] + 1]]
  BY DEF ClaimJob
<1>2. phase[w] = "idle" /\ phase' = [phase EXCEPT ![w] = "running"] /\ request' = request
  BY DEF ClaimJob
<1>3. LeaseMatchesStatus'
  BY <1>1 DEF IInv, LeaseMatchesStatus, TypeOK
<1>4. ClaimIsCurrent'
  BY <1>1, <1>2 DEF IInv, ClaimIsCurrent, TypeOK, Holds
<1>5. RetryBudget' /\ AbsentIsFresh'
  BY <1>1 DEF IInv, RetryBudget, AbsentIsFresh, TypeOK
<1>6. OneActivePerKey'
  BY <1>1, <1>2 DEF IInv, OneActivePerKey, TypeOK, Active, Claimable
<1> QED
  BY <1>3, <1>4, <1>5, <1>6 DEF IInv

(* enqueue_job's INSERT: no active row of the class existed.               *)
LEMMA InsertKeepsIInv ==
  ASSUME IInv, TypeOK', NEW r \in Requests, NEW d \in BOOLEAN, Insert(r, d)
  PROVE  IInv'
<1> USE QueueAssumption
<1>1. PICK j \in Jobs :
         /\ status[j] = "absent"
         /\ status' = [status EXCEPT ![j] = "queued"]
         /\ request' = [request EXCEPT ![j] = r]
  BY DEF Insert
<1>2. UNCHANGED <<attempts, owner, lease, phase, claim>>
  BY DEF Insert
<1>3. LeaseMatchesStatus'
  BY <1>1, <1>2 DEF IInv, LeaseMatchesStatus, TypeOK
<1>4. ClaimIsCurrent'
  BY <1>1, <1>2 DEF IInv, ClaimIsCurrent, TypeOK, Holds
<1>5. RetryBudget' /\ AbsentIsFresh'
  BY <1>1, <1>2 DEF IInv, RetryBudget, AbsentIsFresh, TypeOK
<1>6. OneActivePerKey'
  BY <1>1 DEF Insert, ActiveFor, IInv, OneActivePerKey, TypeOK, Active
<1> QED
  BY <1>3, <1>4, <1>5, <1>6 DEF IInv

LEMMA StepKeepsIInv ==
  ASSUME IInv, [Next]_vars
  PROVE  IInv'
<1> USE QueueAssumption
<1>0. TypeOK'
  BY TypePreserved DEF IInv
<1>1. ASSUME NEW r \in Requests, NEW d \in BOOLEAN, WakeExisting(r, d) PROVE IInv'
  BY <1>0, <1>1 DEF WakeExisting, IInv, LeaseMatchesStatus, ClaimIsCurrent, RetryBudget,
     OneActivePerKey, AbsentIsFresh, Holds
<1>2. ASSUME NEW r \in Requests, NEW d \in BOOLEAN, Insert(r, d) PROVE IInv'
  BY <1>0, <1>2, InsertKeepsIInv
<1>3. CASE ResolveSubject
  BY <1>0, <1>3, SweepKeepsIInv DEF ResolveSubject
<1>4. ASSUME NEW i \in Jobs, ResolveOne(i) PROVE IInv'
  BY <1>0, <1>4, SweepKeepsIInv DEF ResolveOne
<1>5. ASSUME NEW u \in Users, CancelUserJobs(u) PROVE IInv'
  BY <1>0, <1>5, SweepKeepsIInv DEF CancelUserJobs
<1>6. ASSUME NEW u \in Users, SetAllowed(u) PROVE IInv'
  BY <1>0, <1>6 DEF SetAllowed, rows, IInv, LeaseMatchesStatus, ClaimIsCurrent, RetryBudget,
     OneActivePerKey, AbsentIsFresh, Holds
<1>7. CASE CleanupOldJobs
  <2>1. PICK S \in SUBSET {j \in Jobs : status[j] \in Terminal} :
           status' = [j \in Jobs |-> IF j \in S THEN "deleted" ELSE status[j]]
    BY <1>7 DEF CleanupOldJobs
  <2>2. UNCHANGED <<request, attempts, owner, lease, phase, claim>>
    BY <1>7 DEF CleanupOldJobs
  <2>3. LeaseMatchesStatus' /\ RetryBudget' /\ AbsentIsFresh'
    BY <2>1, <2>2 DEF IInv, LeaseMatchesStatus, RetryBudget, AbsentIsFresh, TypeOK, Terminal
  <2>4. ClaimIsCurrent'
    BY <2>1, <2>2 DEF IInv, ClaimIsCurrent, TypeOK, Holds, Terminal
  <2>5. OneActivePerKey'
    BY <2>1, <2>2 DEF IInv, OneActivePerKey, TypeOK, Active
  <2> QED BY <1>0, <2>3, <2>4, <2>5 DEF IInv
<1>8. ASSUME NEW j \in Jobs, BecomeReady(j) PROVE IInv'
  BY <1>0, <1>8 DEF BecomeReady, IInv, LeaseMatchesStatus, ClaimIsCurrent, RetryBudget,
     OneActivePerKey, AbsentIsFresh, Holds
<1>9. ASSUME NEW j \in Jobs, LeaseExpires(j) PROVE IInv'
  BY <1>0, <1>9 DEF LeaseExpires, IInv, TypeOK, LeaseMatchesStatus, ClaimIsCurrent, RetryBudget,
     OneActivePerKey, AbsentIsFresh, Holds
<1>10. ASSUME NEW w \in Workers, ClaimJob(w) PROVE IInv'
  BY <1>0, <1>10, ClaimKeepsIInv
<1>11. ASSUME NEW w \in Workers, Heartbeat(w) PROVE IInv'
  BY <1>0, <1>11 DEF Heartbeat, IInv, TypeOK, LeaseMatchesStatus, ClaimIsCurrent, RetryBudget,
     OneActivePerKey, AbsentIsFresh, Holds
<1>12. ASSUME NEW w \in Workers, LateHeartbeat(w) PROVE IInv'
  BY <1>0, <1>12 DEF LateHeartbeat, IInv, TypeOK, LeaseMatchesStatus, ClaimIsCurrent, RetryBudget,
     OneActivePerKey, AbsentIsFresh, Holds
<1>13. ASSUME NEW w \in Workers, Finish(w) PROVE IInv'
  BY <1>0, <1>13, FinishKeepsIInv
<1>14. ASSUME NEW w \in Workers, AbandonClaim(w) PROVE IInv'
  BY <1>0, <1>14 DEF AbandonClaim, EndCycle, rows, IInv, TypeOK, LeaseMatchesStatus,
     ClaimIsCurrent, RetryBudget, OneActivePerKey, AbsentIsFresh, Holds
<1>15. ASSUME NEW w \in Workers, StopWorker(w) PROVE IInv'
  BY <1>0, <1>15 DEF StopWorker, rows, IInv, TypeOK, LeaseMatchesStatus,
     ClaimIsCurrent, RetryBudget, OneActivePerKey, AbsentIsFresh, Holds
<1>16. CASE UNCHANGED vars
  BY <1>0, <1>16 DEF vars, rows, IInv, LeaseMatchesStatus, ClaimIsCurrent, RetryBudget,
     OneActivePerKey, AbsentIsFresh, Holds
<1> QED
  BY <1>1, <1>2, <1>3, <1>4, <1>5, <1>6, <1>7, <1>8, <1>9, <1>10, <1>11, <1>12,
     <1>13, <1>14, <1>15, <1>16 DEF Next, Api, Time, Work

(* The queue's safety: one active row per dedupe key, leases exactly on    *)
(* running rows, fenced finishes, and death exactly at the retry budget.   *)
THEOREM QueueSafe == Spec => [](LeaseMatchesStatus /\ ClaimIsCurrent /\ RetryBudget /\ OneActivePerKey)
<1>1. IInv => LeaseMatchesStatus /\ ClaimIsCurrent /\ RetryBudget /\ OneActivePerKey
  BY DEF IInv
<1>2. IInv /\ [Next]_vars => IInv'
  BY StepKeepsIInv
<1> QED
  BY InitIInv, <1>1, <1>2, PTL DEF Spec

-----------------------------------------------------------------------------
(* The action properties, and the promise to callers.                      *)

(* What any step may do to the rows: the promise seen from the columns.    *)
Closes(S, o) ==
    /\ status' = [j \in Jobs |-> IF j \in S THEN o ELSE status[j]]
    /\ request' = request

LEMMA StepShape ==
  ASSUME IInv, [Next]_vars
  PROVE  \/ status' = status /\ request' = request
         \/ \E r \in Requests, d \in BOOLEAN : Insert(r, d)
         \/ \E w \in Workers, j \in Jobs :
               /\ ClaimJob(w) /\ status[j] \in Active
               /\ Closes({j}, "running")
         \/ \E S \in SUBSET {j \in Jobs : status[j] \in Active},
               o \in {"queued"} \cup Terminal : Closes(S, o)
         \/ \E S \in SUBSET {j \in Jobs : status[j] \in Terminal} : Closes(S, "deleted")
<1> USE DEF Closes
<1>1. ASSUME NEW r \in Requests, NEW d \in BOOLEAN, WakeExisting(r, d)
      PROVE  status' = status /\ request' = request
  BY <1>1 DEF WakeExisting
<1>2. CASE ResolveSubject
  BY <1>2 DEF ResolveSubject, Settle, Terminal
<1>3. ASSUME NEW i \in Jobs, ResolveOne(i)
      PROVE  \E S \in SUBSET {j \in Jobs : status[j] \in Active}, o \in {"queued"} \cup Terminal : Closes(S, o)
  BY <1>3 DEF ResolveOne, Settle, Terminal
<1>4. ASSUME NEW u \in Users, CancelUserJobs(u)
      PROVE  \E S \in SUBSET {j \in Jobs : status[j] \in Active}, o \in {"queued"} \cup Terminal : Closes(S, o)
  BY <1>4 DEF CancelUserJobs, Settle, Terminal
<1>5. CASE CleanupOldJobs
  BY <1>5 DEF CleanupOldJobs
<1>6. ASSUME NEW w \in Workers, ClaimJob(w)
      PROVE  \E j \in Jobs : status[j] \in Active /\ Closes({j}, "running")
  <2>1. PICK j \in Jobs : Claimable(j) /\ status' = [status EXCEPT ![j] = "running"]
    BY <1>6 DEF ClaimJob
  <2>2. request' = request
    BY <1>6 DEF ClaimJob
  <2> QED BY <2>1, <2>2 DEF Claimable, Active, IInv, TypeOK
<1>7. ASSUME NEW w \in Workers, Finish(w)
      PROVE  \E S \in SUBSET {j \in Jobs : status[j] \in Active}, o \in {"queued"} \cup Terminal : Closes(S, o)
  <2> DEFINE S == IF Holds(w, claim[w].job) THEN {claim[w].job} ELSE {}
  <2>1. S \in SUBSET {j \in Jobs : status[j] \in Active}
    BY <1>7 DEF Finish, CompleteJob, CancelClaimedJob, FailJob, IInv, ClaimIsCurrent, Holds, Active
  <2>2. \E o \in {"queued"} \cup Terminal : Closes(S, o)
    BY <1>7 DEF Finish, CompleteJob, CancelClaimedJob, FailJob, Settle, Terminal
  <2> HIDE DEF S
  <2> QED BY <2>1, <2>2
<1>8. ASSUME NEW w \in Workers,
             Heartbeat(w) \/ LateHeartbeat(w) \/ AbandonClaim(w) \/ StopWorker(w)
      PROVE  status' = status /\ request' = request
  BY <1>8 DEF Heartbeat, LateHeartbeat, AbandonClaim, StopWorker, rows
<1>9. ASSUME NEW j \in Jobs, BecomeReady(j) \/ LeaseExpires(j)
      PROVE  status' = status /\ request' = request
  BY <1>9 DEF BecomeReady, LeaseExpires
<1>10. ASSUME NEW u \in Users, SetAllowed(u)
       PROVE  status' = status /\ request' = request
  BY <1>10 DEF SetAllowed, rows
<1>11. CASE UNCHANGED vars
  BY <1>11 DEF vars, rows
<1> QED
  BY <1>1, <1>2, <1>3, <1>4, <1>5, <1>6, <1>7, <1>8, <1>9, <1>10, <1>11
     DEF Next, Api, Time, Work

(* A settled job is never revived, nor settled differently, by a late      *)
(* worker, a sweep or a revocation confirmation.                           *)
THEOREM FateIsFinal == Spec => SettledOnce
<1>1. IInv /\ [Next]_vars =>
        [\A j \in Jobs : status[j] \in Terminal => status'[j] \in {status[j], "deleted"}]_vars
  <2> SUFFICES ASSUME IInv, [Next]_vars, NEW j \in Jobs, status[j] \in Terminal
               PROVE  status'[j] \in {status[j], "deleted"}
    OBVIOUS
  <2> QED
    BY StepShape DEF Closes, Insert, Active, Terminal, IInv, TypeOK
<1>2. IInv /\ [Next]_vars => IInv'
  BY StepKeepsIInv
<1> QED
  BY InitIInv, <1>1, <1>2, PTL DEF Spec, SettledOnce

(* Only the worker of the newest claim ends a running row by finishing its *)
(* cycle: complete_job, cancel_claimed_job and fail_job are fenced.        *)
THEOREM NewestClaimFinishes == Spec => OnlyNewestClaimFinishes
<1>1. IInv /\ [Next]_vars =>
        [\A j \in Jobs, w \in Workers :
            (/\ status[j] = "running" /\ status'[j] # "running"
             /\ phase[w] = "running" /\ phase'[w] = "idle")
            => claim[w] = [job |-> j, attempt |-> attempts[j]]]_vars
  <2> SUFFICES ASSUME IInv, [Next]_vars, NEW j \in Jobs, NEW w \in Workers,
                      status[j] = "running", status'[j] # "running",
                      phase[w] = "running", phase'[w] = "idle"
               PROVE  claim[w] = [job |-> j, attempt |-> attempts[j]]
    OBVIOUS
  <2>0. TypeOK /\ ClaimIsCurrent
    BY DEF IInv
  <2>1. ASSUME NEW x \in Workers, Finish(x)
        PROVE  claim[w] = [job |-> j, attempt |-> attempts[j]]
    <3>1. x = w
      BY <2>0, <2>1 DEF Finish, CompleteJob, CancelClaimedJob, FailJob, EndCycle, TypeOK
    <3>2. \E o : Settle(IF Holds(w, claim[w].job) THEN {claim[w].job} ELSE {}, o)
      BY <2>1, <3>1 DEF Finish, CompleteJob, CancelClaimedJob, FailJob
    <3>3. claim[w].job = j /\ Holds(w, j)
      BY <2>0, <3>2 DEF Settle, TypeOK
    <3>4. claim[w].attempt = attempts[j]
      BY <2>0, <3>3 DEF ClaimIsCurrent
    <3>5. claim[w] \in [job : Jobs \cup {NoJob}, attempt : Nat]
      BY <2>0 DEF TypeOK
    <3> QED BY <3>3, <3>4, <3>5
  <2>2. ASSUME NEW x \in Workers, ClaimJob(x) PROVE FALSE
    BY <2>0, <2>2 DEF ClaimJob, TypeOK
  <2>3. ASSUME NEW x \in Workers,
               Heartbeat(x) \/ LateHeartbeat(x) \/ AbandonClaim(x) \/ StopWorker(x)
        PROVE  FALSE
    BY <2>3 DEF Heartbeat, LateHeartbeat, AbandonClaim, StopWorker, rows
  <2>4. CASE Api
    BY <2>4 DEF Api, WakeExisting, Insert, ResolveSubject, ResolveOne, CancelUserJobs,
       SetAllowed, CleanupOldJobs
  <2>5. CASE Time
    BY <2>5 DEF Time, BecomeReady, LeaseExpires
  <2>6. CASE UNCHANGED vars
    BY <2>6 DEF vars, rows
  <2> QED BY <2>1, <2>2, <2>3, <2>4, <2>5, <2>6 DEF Next, Work
<1>2. IInv /\ [Next]_vars => IInv'
  BY StepKeepsIInv
<1> QED
  BY InitIInv, <1>1, <1>2, PTL DEF Spec, OnlyNewestClaimFinishes

(* The leased queue implements the promise made to whoever enqueues.       *)
THEOREM QueueImplementsPromise == Spec => ImplementsPromise
<1>1. Init => Promise!Init
  BY DEF Init, Promise!Init, Active, Terminal
<1>2. IInv /\ [Next]_vars => [Promise!Next]_(Promise!promise)
  <2> SUFFICES ASSUME IInv, [Next]_vars
               PROVE  Promise!Next \/ UNCHANGED Promise!promise
    OBVIOUS
  <2>1. CASE status' = status /\ request' = request
    BY <2>1 DEF Promise!promise
  <2>2. ASSUME NEW r \in Requests, NEW d \in BOOLEAN, Insert(r, d)
        PROVE  Promise!Next
    <3>0. PICK j \in Jobs :
             /\ status[j] = "absent"
             /\ status' = [status EXCEPT ![j] = "queued"]
             /\ request' = [request EXCEPT ![j] = r]
      BY <2>2 DEF Insert
    <3>a. r \in Deduped => \A i \in {k \in Jobs : status[k] \in Active} : request[i] # r
      BY <2>2 DEF Insert, ActiveFor
    <3>b. status \in [Jobs -> Active \cup Terminal \cup {"absent", "deleted"}]
      BY DEF IInv, TypeOK
    <3>c. {k \in Jobs : status'[k] \in Active} = {k \in Jobs : status[k] \in Active} \cup {j}
      BY <3>0, <3>b DEF Active
    <3>d. {k \in Jobs : status'[k] \in Terminal} = {k \in Jobs : status[k] \in Terminal}
      BY <3>0, <3>b DEF Terminal
    <3>e. {k \in Jobs : status'[k] = "deleted"} = {k \in Jobs : status[k] = "deleted"}
      BY <3>0, <3>b
    <3>f. j \in Jobs \ ({k \in Jobs : status[k] \in Active} \cup {k \in Jobs : status[k] \in Terminal}
                          \cup {k \in Jobs : status[k] = "deleted"})
      BY <3>0 DEF Active, Terminal
    <3>1. Promise!Accept(r)
      BY <3>0, <3>a, <3>c, <3>d, <3>e, <3>f DEF Promise!Accept
    <3> QED BY <3>1 DEF Promise!Next
  <2>3. ASSUME NEW i \in Jobs, status[i] \in Active, Closes({i}, "running")
        PROVE  UNCHANGED Promise!promise
    BY <2>3 DEF Closes, Promise!promise, Active, Terminal, IInv, TypeOK
  <2>4. ASSUME NEW S \in SUBSET {j \in Jobs : status[j] \in Active}, Closes(S, "queued")
        PROVE  UNCHANGED Promise!promise
    BY <2>4 DEF Closes, Promise!promise, Active, Terminal, IInv, TypeOK
  <2>5. ASSUME NEW S \in SUBSET {j \in Jobs : status[j] \in Active}, NEW o \in Terminal,
               Closes(S, o)
        PROVE  Promise!Next
    <3>1. Promise!Decide(S)
      BY <2>5 DEF Closes, Promise!Decide, Active, Terminal, IInv, TypeOK
    <3> QED BY <3>1 DEF Promise!Next
  <2>6. ASSUME NEW S \in SUBSET {j \in Jobs : status[j] \in Terminal}, Closes(S, "deleted")
        PROVE  Promise!Next
    <3>1. Promise!Forget(S)
      BY <2>6 DEF Closes, Promise!Forget, Active, Terminal, IInv, TypeOK
    <3> QED BY <3>1 DEF Promise!Next
  <2> QED
    BY StepShape, <2>1, <2>2, <2>3, <2>4, <2>5, <2>6
<1>3. IInv /\ [Next]_vars => IInv'
  BY StepKeepsIInv
<1> QED
  BY InitIInv, <1>1, <1>2, <1>3, PTL DEF Spec, ImplementsPromise, Promise!Spec
=============================================================================
