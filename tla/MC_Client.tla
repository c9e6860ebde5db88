------------------------------ MODULE MC_Client ------------------------------
(***************************************************************************)
(* What a client asks of the server: five parts that share no state, side  *)
(* by side in one run.  The part is chosen in the initial state and the    *)
(* others stay where they are.                                             *)
(*   send     one mail of the primary account (PendingSend)                *)
(*   pages    a mailbox listed page by page (MailboxPages)                 *)
(*   reader   a conversation read page by page or whole (ThreadReader)     *)
(*   push     notices of new mail (PushDelivery)                           *)
(*   search   a search carried on at Gmail (RemoteSearch)                  *)
(***************************************************************************)
EXTENDS PendingSend, TLC

CONSTANTS Threads, LastDate, LastOrder, PageSize,
          Messages, Undocumented, PageLimit, BatchLimit,
          Mails, Devices, Sessions, Tokens, NoToken, MaxCrashes,
          PageTokens, First, NoPage, PageBudget, MaxContinuations, MaxRequests

VARIABLES part, at, ranks, order, walk, row, req, reader, held,
          device, enrolling, live, mail, notice, account, dead, owed, crashes,
          next, found, told, waiting, hunt, givenUp, requests, outages

MCThreads == 1..3

L == INSTANCE MailboxPages
R == INSTANCE ThreadReader WITH walk <- reader
P == INSTANCE PushDelivery
S == INSTANCE RemoteSearch WITH
       Tokens <- PageTokens, SearchWorkers <- Sessions, SearchAttempts <- MaxAttempts,
       MaxOutages <- MaxAttempts, stored <- found, walk <- hunt

pageVars == <<at, ranks, order, walk>>
readerVars == <<row, req, reader, held>>
pushVars == <<device, enrolling, live, mail, notice, account, dead, owed, crashes>>
searchVars == <<next, found, told, waiting, hunt, givenUp, requests, outages>>

MCMessages == 1..3
MCUndocumented == {2}

(* Tokens and sessions only matter as equal or different; the workers of   *)
(* the search and the threads that send bear the names of the sessions.    *)
MCSymmetry == Permutations(Tokens) \cup Permutations(Sessions)

ASSUME PagesAssumption == L!PagesAssumption
ASSUME ReaderAssumption == R!ReaderAssumption
ASSUME PushAssumption == P!PushAssumption
ASSUME SearchAssumption == S!SearchAssumption

MCInit ==
  /\ part \in {"send", "pages", "reader", "push", "search"}
  /\ Init
  /\ L!Init /\ (part # "pages" => at = [t \in Threads |-> 0])
  /\ R!Init
  /\ P!Init
  /\ S!Init /\ (part # "search" => next = [p \in S!Pages |-> NoPage])

(* Three generations of order while no mail moves up, or two while some    *)
(* does.                                                                   *)
OrdersOrMoves == order'.last <= 2 \/ \A t \in Threads : at'[t] <= 1

MCNext ==
  /\ UNCHANGED part
  /\ \/ part = "send" /\ Next /\ UNCHANGED <<pageVars, readerVars, pushVars, searchVars>>
     \/ part = "pages" /\ L!Next /\ OrdersOrMoves /\ UNCHANGED <<vars, readerVars, pushVars, searchVars>>
     \/ part = "reader" /\ R!Next /\ UNCHANGED <<vars, pageVars, pushVars, searchVars>>
     \/ part = "push" /\ P!Next /\ UNCHANGED <<vars, pageVars, readerVars, searchVars>>
     \/ part = "search" /\ S!Next /\ UNCHANGED <<vars, pageVars, readerVars, pushVars>>

MCSpec == MCInit /\ [][MCNext]_<<part, vars, pageVars, readerVars, pushVars, searchVars>>

(* Nothing is left out of a list, and nothing is in it twice.              *)
ListedOnceEach == L!NothingSkipped /\ L!ShownOnce

(* A conversation read by offset or whole is the conversation.             *)
ReadAsItIs == R!OneRevisionOneThread /\ R!WholeIsWhole

(* New mail the cursor passed has its notice, and none leaves a purged account. *)
NoticesHold == P!PassedMeansQueued /\ P!NothingAfterPurge

(* The properties of the other parts, stated in their modules.             *)
FreshTokenStaysEnabled == P!FreshTokenStaysEnabled
SearchIsComplete == S!SearchIsComplete
=============================================================================
