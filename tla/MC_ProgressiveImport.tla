------------------------ MODULE MC_ProgressiveImport ------------------------
(* Two workers set up a mailbox of two conversations, one a batch: a new      *)
(* account while one thing fails or its user signs in again, or an account    *)
(* imported before while two do.  What never happens meanwhile is checked in  *)
(* MC_MailSync.                                                              *)
EXTENDS ProgressiveImport

CONSTANTS w1, w2, t1, t2

VARIABLE account

ASSUME ImportAssumption

(* Of the mailboxes imported before, the one that is half stored.            *)
MCInit ==
  /\ Init
  /\ account = IF row = NewAccount THEN "new" ELSE "old"
  /\ stored \in {{}, {t1}}

MCNext ==
  /\ UNCHANGED account
  /\ Next
  /\ account = "new" => faults' <= 1

MCSpec == MCInit /\ [][MCNext]_<<account, vars>> /\ Fairness
=============================================================================
