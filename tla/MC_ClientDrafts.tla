-------------------------- MODULE MC_ClientDrafts --------------------------
(***************************************************************************)
(* Two parts that share no state, checked side by side in one run: the     *)
(* part is chosen in the initial state and the other stays where it is.    *)
(*   drafts   the drafts of the primary account (ClientDrafts)             *)
(*   accounts the linking and setting up of accounts (LinkedAccounts)      *)
(***************************************************************************)
EXTENDS ClientDrafts, TLC

CONSTANTS Users, NoUser, Subjects, NoSubject, Setups, Workers, MaxAccounts

VARIABLES part, owner, state, grant, imported, job, link, userLock, setup, worker, excused, mishaps

L == INSTANCE LinkedAccounts WITH Links <- Requests, faults <- mishaps

accountVars == <<owner, state, grant, imported, job, link, userLock, setup, worker, excused, mishaps>>

(* Requests stand for the callbacks of the other part too, and contents   *)
(* bear the names of its users and subjects.                              *)
Symmetry == Permutations(Requests) \cup Permutations(Contents)

MCInit == part \in {"drafts", "accounts"} /\ Init /\ L!Init

MCNext ==
    /\ UNCHANGED part
    /\ \/ part = "drafts" /\ Next /\ UNCHANGED accountVars
       \/ part = "accounts" /\ L!Next /\ UNCHANGED vars

MCSpec == MCInit /\ [][MCNext]_<<part, vars, accountVars>>

(* What a row says of its draft is so at Gmail: a saved one is stored, an  *)
(* editable one was not sent, a deleted one is gone.                       *)
RowTellsGmail == SavedMeansStored /\ EditableIsUnsent /\ DeletedMeansGone

(* The property of LinkedAccounts, stated there.                           *)
AccountsHold == L!AccountsHold
=============================================================================
