------------------------- MODULE AtMostOnceDelivery -------------------------
(***************************************************************************)
(* What the mail server promises about one message a user asked it to      *)
(* send: at most one copy ever reaches the recipient, "sent" is final and  *)
(* true, and "failed" is conclusive: no copy left or is under way.         *)
(***************************************************************************)
EXTENDS Naturals

VARIABLES
    answer,  \* what the user is told: "none", "pending", "failed", "sent"
    copies   \* copies the provider accepted

delivery == <<answer, copies>>

Init == answer = "none" /\ copies = 0

Accept  == answer = "none" /\ answer' = "pending" /\ UNCHANGED copies
Deliver == answer = "pending" /\ copies = 0 /\ copies' = 1 /\ UNCHANGED answer
Confirm == answer = "pending" /\ copies = 1 /\ answer' = "sent" /\ UNCHANGED copies
Refuse  == answer = "pending" /\ copies = 0 /\ answer' = "failed" /\ UNCHANGED copies
Retry   == answer = "failed" /\ answer' = "pending" /\ UNCHANGED copies

Next == Accept \/ Deliver \/ Confirm \/ Refuse \/ Retry

Spec == Init /\ [][Next]_delivery
=============================================================================
