----------------------------- MODULE MC_Matters -----------------------------
(***************************************************************************)
(* Three parts that share no state, side by side in one run: the messages  *)
(* and matters of a generation (Matters), the to-dos of its matters        *)
(* (Todos), and the generations themselves (Generations).  The part is     *)
(* chosen in the initial state; the matters of the second have the names   *)
(* of the messages of the first, and the workers serve all three, so that  *)
(* one symmetry fits.                                                      *)
(***************************************************************************)
EXTENDS Matters, TLC

CONSTANTS Names, TodoEvents, LastMessage, Recent, PageSize, MaxGen, MaxRequests, MaxGenFaults

VARIABLES part, revision, visible, sub, needy, item, owed, todoQueue, todoTask, missed, todoEvents, todoFaults,
          profile, gen, mail, done, genQueue, genLater, genTask, request, genExcused, requests, genFaults

T == INSTANCE Todos WITH
       Matters <- Message, MaxEvents <- TodoEvents,
       queued <- todoQueue, task <- todoTask, events <- todoEvents, faults <- todoFaults

G == INSTANCE Generations WITH
       MaxFaults <- MaxGenFaults, jobs <- genQueue, later <- genLater, task <- genTask,
       excused <- genExcused, faults <- genFaults

ASSUME GenerationsAssumption == G!GenerationsAssumption

todoVars == <<revision, visible, sub, needy, item, owed, todoQueue, todoTask, missed, todoEvents, todoFaults>>
genVars == <<profile, gen, mail, done, genQueue, genLater, genTask, request, genExcused, requests, genFaults>>

(* The parts that stand still need one initial state.                      *)
MCInit ==
  /\ part \in {"matters", "todos", "generations"}
  /\ Init /\ T!Init /\ G!Init
  /\ part = "generations" \/ LastMessage \notin mail

MCNext ==
  /\ UNCHANGED part
  /\ \/ part = "matters" /\ Next /\ UNCHANGED <<todoVars, genVars>>
     \/ part = "todos" /\ T!Next /\ UNCHANGED <<vars, genVars>>
     \/ part = "generations" /\ G!Next /\ UNCHANGED <<vars, todoVars>>

MCSpec == MCInit /\ [][MCNext]_<<part, vars, todoVars, genVars>>

MCSymmetry == Permutations(Workers) \cup Permutations(Message)

(* A message is shown in a matter or about to be: no matter hides it and   *)
(* it is not left in none.                                                 *)
EveryMessageIsPlaced == NothingHidden /\ Organised

(* What the user decided stands, but for the user and for choices it overtook. *)
CorrectionsHold == DecisionsStand /\ NeverRecombined

(* The properties of Todos, stated there.                                  *)
FinishedLeaves == T!FinishedLeaves
ChoicesStand == T!ChoicesStand

(* The properties of Generations, stated there.                            *)
EveryMessageOrganised == G!EveryMessageOrganised
NeverReturns == G!NeverReturns
=============================================================================
