------------------------------ MODULE MC_Writes ------------------------------
(***************************************************************************)
(* The writes of a client that work through durable jobs or at once, side  *)
(* by side in one run.  They share no state, so the part is chosen in the  *)
(* initial state and the others stay as they are:                          *)
(*   action    actions on a conversation (ThreadActions)                   *)
(*   asend     one mail of an additional account (AccountSend)             *)
(*   aaction   one action on an additional account (AccountActions)        *)
(*   adraft    one draft of an additional account (AccountDrafts)          *)
(* The parts share the names of their actors, so that exchanging two of    *)
(* them is a symmetry of every part.                                       *)
(***************************************************************************)
EXTENDS AccountSend, TLC

CONSTANTS a1, a2,
          Actions, Kind, NoAction, InitialLabels, OutsideLabels, MaxOutside, ActionFaults,
          ActionAttempts, MaxAsks, MaxMishaps,
          DraftRequests, NoDraft

VARIABLES part,
          local, remote, unseen, request, base, tState, tJob, tPc, task, tOutcome, draft,
          reached, undone, tAllowed, outside, tFaults,
          action, done, asking, errand, step, ending, abandoned, asks, mishaps,
          row, live, dCopies, dRequest, forked

(* The two actions.                                                        *)
ArchiveAndRead == (a1 :> "archive") @@ (a2 :> "mark_read")

T == INSTANCE ThreadActions WITH
       MaxFaults <- ActionFaults,
       state <- tState, job <- tJob, pc <- tPc, outcome <- tOutcome,
       allowed <- tAllowed, faults <- tFaults
X == INSTANCE AccountActions WITH ActionWorkers <- Workers, Nobody <- NoWorker
D == INSTANCE AccountDrafts WITH Requests <- DraftRequests, copies <- dCopies, request <- dRequest

actionVars == <<local, remote, unseen, request, base, tState, tJob, tPc, task, tOutcome, draft,
                reached, undone, tAllowed, outside, tFaults>>
aactionVars == <<action, done, asking, errand, step, ending, abandoned, asks, mishaps>>
adraftVars == <<row, live, dCopies, dRequest, forked>>

ASSUME T!ActionAssumption /\ T!Felt

MCInit ==
  /\ part \in {"action", "asend", "aaction", "adraft"}
  /\ Init /\ T!Init /\ X!Init
  /\ D!Init /\ (part # "adraft" => \A r \in DraftRequests : dRequest[r].kind = "save")

(* Of the actions' disturbances, faults and changes by other clients, one  *)
(* comes.                                                                  *)
OneDisturbance == outside' + tFaults' <= 1

MCNext ==
  /\ UNCHANGED part
  /\ \/ part = "action" /\ T!Next /\ OneDisturbance /\ UNCHANGED <<vars, aactionVars, adraftVars>>
     \/ part = "asend" /\ Next /\ UNCHANGED <<actionVars, aactionVars, adraftVars>>
     \/ part = "aaction" /\ X!Next /\ UNCHANGED <<vars, actionVars, adraftVars>>
     \/ part = "adraft" /\ D!Next /\ UNCHANGED <<vars, actionVars, aactionVars>>

MCSpec == MCInit /\ [][MCNext]_<<part, vars, actionVars, aactionVars, adraftVars>>

MCSymmetry == Permutations(Workers)

(* The properties of the other parts, stated in their modules.             *)
AppliedViewsAgree == T!AppliedViewsAgree
LoneFailureLeavesNoTrace == T!LoneFailureLeavesNoTrace
ActionSettles == X!ActionSettles
DraftSentOnce == D!DraftSentOnce
=============================================================================
