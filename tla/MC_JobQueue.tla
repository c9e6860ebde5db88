---------------------------- MODULE MC_JobQueue ----------------------------
(* Small instance of JobQueue: one mailbox class and one revocation class. *)
EXTENDS JobQueue, TLC

CONSTANTS sync, revoke, alice, w1, w2

MCUserOf == sync :> alice @@ revoke :> NoUser
MCQueueOf == sync :> "default" @@ revoke :> "critical"
MCQueuesOf == w1 :> {"critical", "default"} @@ w2 :> {"critical", "default"}

=============================================================================
