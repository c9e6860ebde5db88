----------------------------- MODULE MC_Signals -----------------------------
(***************************************************************************)
(* Two parts that share no state, side by side in one run: two jobs that   *)
(* write mail, one of them a refresh of Gmail's order, and the poller, who *)
(* waits while an event is on its way to the client (Signals), and the     *)
(* generations of the AI inbox (Generations).  The part is chosen in the   *)
(* initial state; what must go on in the generations has begun there, so   *)
(* their fairness asks nothing of the first part.                          *)
(***************************************************************************)
EXTENDS Signals

CONSTANTS Workers, LastMessage, Recent, PageSize, MaxGen, MaxRequests, MaxFaults

VARIABLES part, profile, gen, messages, done, queue, later, task, request, excused, requests, faults

G == INSTANCE Generations WITH mail <- messages, jobs <- queue

genVars == <<profile, gen, messages, done, queue, later, task, request, excused, requests, faults>>

(* The generations that stand still need one initial state.                *)
MCInit ==
  /\ part \in {"signals", "rebuild"}
  /\ Init /\ G!Init
  /\ part = "rebuild" \/ LastMessage \notin messages

MCNext ==
  /\ UNCHANGED part
  /\ \/ part = "signals" /\ Next /\ UNCHANGED genVars
     \/ part = "rebuild" /\ G!Next /\ UNCHANGED vars

MCSpec ==
  /\ MCInit /\ [][MCNext]_<<part, vars, genVars>>
  /\ part = "signals" => Fairness
  /\ G!Fairness

(* What is stored is shown in the end, by the client and by the snapshot.  *)
MailIsShown == ClientCatchesUp /\ SnapshotCatchesUp

(* The property of Generations, stated there.                              *)
RebuildEnds == G!RebuildEnds
=============================================================================
