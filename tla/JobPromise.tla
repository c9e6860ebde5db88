----------------------------- MODULE JobPromise -----------------------------
(***************************************************************************)
(* What the durable queue promises its callers, without leases, workers or *)
(* attempts: an accepted job is pending until its fate is decided once, at *)
(* most one job per dedupe key is pending, and a pending job is decided in *)
(* the end.                                                                *)
(***************************************************************************)
CONSTANTS Jobs, Requests, Deduped, NoRequest

VARIABLES
    pending,  \* jobs accepted and not yet decided
    decided,  \* jobs whose fate is known, and not yet forgotten by retention
    gone,     \* decided jobs that retention removed
    request   \* request[j]: the class job j was accepted for

promise == <<pending, decided, gone, request>>

Init ==
    /\ pending = {} /\ decided = {} /\ gone = {}
    /\ request = [j \in Jobs |-> NoRequest]

Accept(r) ==
    /\ r \in Deduped => \A i \in pending : request[i] # r
    /\ \E j \in Jobs \ (pending \cup decided \cup gone) :
          /\ pending' = pending \cup {j}
          /\ request' = [request EXCEPT ![j] = r]
    /\ UNCHANGED <<decided, gone>>

(* A sweep decides several jobs in one transaction.                        *)
Decide(S) ==
    /\ pending' = pending \ S
    /\ decided' = decided \cup S
    /\ UNCHANGED <<gone, request>>

Forget(S) ==
    /\ decided' = decided \ S
    /\ gone' = gone \cup S
    /\ UNCHANGED <<pending, request>>

Next ==
    \/ \E r \in Requests : Accept(r)
    \/ \E S \in SUBSET pending : Decide(S)
    \/ \E S \in SUBSET decided : Forget(S)

Spec == Init /\ [][Next]_promise

(* Every pending job is eventually decided.                                *)
Answered == \A j \in Jobs : j \in pending ~> j \notin pending
=============================================================================
