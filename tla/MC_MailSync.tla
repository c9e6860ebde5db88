----------------------------- MODULE MC_MailSync -----------------------------
(***************************************************************************)
(* Three parts that share no state, side by side in one run: the grants of *)
(* a mailbox's owner (GrantLifecycle) with every fault that the liveness   *)
(* run leaves out, the mirror of the mailbox (MailSync), and the setting   *)
(* up of one (ProgressiveImport).  The part is chosen in the initial       *)
(* state.                                                                  *)
(***************************************************************************)
EXTENDS GrantLifecycle, TLC

CONSTANTS MailWorkers, Message, Initially, PageOf, Pages, MaxHistory, MaxScans, SyncFaults,
          StaleRestart, Conversations, BatchSize, MaxGen, ImportFaults

VARIABLES part,
          gmail, now, floor, mirror, state, seen, outbox, caughtUp, jobs, task, scans, syncFaults,
          threads, row, entries, filed, kept, queue, work, gens, overtaken, mishaps

M == INSTANCE MailSync WITH Workers <- MailWorkers, MaxFaults <- SyncFaults, faults <- syncFaults

I == INSTANCE ProgressiveImport WITH
       Workers <- MailWorkers, Thread <- Conversations, MaxFaults <- ImportFaults,
       gmail <- threads, ready <- filed, stored <- kept, jobs <- queue, task <- work,
       faults <- mishaps

mailVars == <<gmail, now, floor, mirror, state, seen, outbox, caughtUp, jobs, task, scans, syncFaults>>
importVars == <<threads, row, entries, filed, kept, queue, work, gens, overtaken, mishaps>>

ASSUME MailAssumption == M!SyncAssumption
ASSUME SetupAssumption == I!ImportAssumption

MCInit ==
  /\ part \in {"mail", "grants", "import"}
  /\ Init
  /\ M!Init /\ (part # "mail" => state.gen = M!NoScan /\ mirror = M!Nothing)
  /\ I!Init /\ (part # "import" => row = I!NewAccount)

(* Gmail's mail changes twice, or once while one thing fails.              *)
ChangesOrFault == now' + syncFaults' <= 3

MCNext ==
  /\ UNCHANGED part
  /\ \/ part = "mail" /\ M!Next /\ ChangesOrFault /\ UNCHANGED <<vars, importVars>>
     \/ part = "grants" /\ Next /\ UNCHANGED <<mailVars, importVars>>
     \/ part = "import" /\ I!Next /\ UNCHANGED <<vars, mailVars>>

MCSpec == MCInit /\ [][MCNext]_<<part, vars, mailVars, importVars>>

(* Message i stands on page i of the listing.                              *)
Apart == [m \in Message |-> m]

(* The logins bear the names of the workers.                               *)
MCSymmetry == Permutations(MailWorkers) \cup Permutations(Conversations)

(* The properties of the mirror, stated in MailSync.                       *)
NothingLost == M!NothingLost
RowsOutliveScans == M!RowsOutliveScans

(* What the state row says of the window and of the history is so.         *)
SetupIsTrue == I!WindowAgrees /\ I!CompleteHistory

(* A window is listed once and never completed twice.                      *)
WindowStands == I!DiscoveredOnce /\ I!SetupNeverRegresses
=============================================================================
