---------------------------- MODULE RemoteSearch ----------------------------
(***************************************************************************)
(* A search of the mailbox answers from the local mail and queues a job    *)
(* that asks Gmail for what is missing (services/mailbox_search.py,        *)
(* hydrate_gmail_search_results): a bounded walk over Gmail's pages,       *)
(* each stored and then announced, continued by jobs with the next token.  *)
(*                                                                         *)
(* Pages are known by their tokens, the first by none.  What Gmail answers *)
(* as the next token is fixed but arbitrary: it may come back to a page.   *)
(***************************************************************************)
EXTENDS Naturals, FiniteSets

CONSTANTS Tokens,            \* Gmail's page tokens
          First,             \* the first page, which has no token
          NoPage,            \* no further page
          SearchWorkers,
          PageBudget,        \* GMAIL_SEARCH_MAX_PAGES
          MaxContinuations,  \* GMAIL_SEARCH_MAX_CONTINUATION_JOBS
          SearchAttempts,    \* max_attempts of the jobs
          MaxRequests,       \* bound: searches by the user
          MaxOutages         \* bound: failures and crashes

SearchAssumption ==
    /\ IsFiniteSet(Tokens) /\ NoPage \notin Tokens \cup {First}
    /\ PageBudget \in Nat /\ MaxContinuations \in Nat /\ SearchAttempts \in Nat

Pages == Tokens \cup {First}
NoWalk == [pc |-> "idle", page |-> NoPage, used |-> 0, seen |-> {}, job |-> [start |-> First, index |-> 0, hashes |-> {}, tries |-> 0]]

VARIABLES
  next,       \* [Pages -> Tokens \cup {NoPage}]: nextPageToken, fixed by Gmail
  stored,     \* pages whose matches are in the local mailbox
  told,       \* pages whose matches were announced once they were stored
  waiting,    \* queued gmail_search_hydrate jobs
  walk,       \* [SearchWorkers -> the walk it is on]
  givenUp,    \* history: a job of the search was given up
  requests, outages

vars == <<next, stored, told, waiting, walk, givenUp, requests, outages>>

Job == [start : Pages, index : 0..MaxContinuations, hashes : SUBSET Tokens, tries : 0..SearchAttempts]

TypeOK ==
    /\ next \in [Pages -> Tokens \cup {NoPage}]
    /\ stored \subseteq Pages /\ told \subseteq stored
    /\ waiting \subseteq Job
    /\ walk \in [SearchWorkers -> [pc : {"idle", "list", "tell", "turn"}, page : Pages \cup {NoPage},
                                   used : 0..PageBudget, seen : SUBSET Pages, job : Job]]
    /\ givenUp \in BOOLEAN

Init ==
    /\ next \in [Pages -> Tokens \cup {NoPage}]
    /\ stored = {} /\ told = {} /\ waiting = {}
    /\ walk = [w \in SearchWorkers |-> NoWalk]
    /\ givenUp = FALSE
    /\ requests = 0 /\ outages = 0

-----------------------------------------------------------------------------
Busy(w) == walk[w].pc # "idle"
Active == waiting \cup {walk[w].job : w \in {v \in SearchWorkers : Busy(v)}}

(* The dedupe key: the search, or the continuation's token, index and history.*)
Key(j) == <<j.start, j.index, j.hashes>>
Queue(j) == IF Key(j) \in {Key(o) : o \in Active} THEN waiting ELSE waiting \cup {j}

(* enqueue_mailbox_search_hydration: only for the first page of results.       *)
Search ==
    /\ requests < MaxRequests /\ requests' = requests + 1
    /\ waiting' = Queue([start |-> First, index |-> 0, hashes |-> {}, tries |-> 0])
    /\ UNCHANGED <<next, stored, told, walk, givenUp, outages>>

(* run_mailbox_search_hydration: a retry starts from the job's first page.     *)
Claim(w, j) ==
    /\ ~Busy(w) /\ j \in waiting
    /\ waiting' = waiting \ {j}
    /\ walk' = [walk EXCEPT ![w] = [pc |-> "list", page |-> j.start, used |-> 0, seen |-> {j.start} \ {First},
                                    job |-> [j EXCEPT !.tries = @ + 1]]]
    /\ UNCHANGED <<next, stored, told, givenUp, requests, outages>>

(* messages().list and _hydrate_gmail_search_message_ids: what is missing of   *)
(* the page is fetched and stored.                                          *)
Hydrate(w) ==
    /\ walk[w].pc = "list"
    /\ stored' = stored \cup {walk[w].page}
    /\ walk' = [walk EXCEPT ![w].pc = "tell", ![w].used = @ + 1]
    /\ UNCHANGED <<next, told, waiting, givenUp, requests, outages>>

(* on_page_hydrated: also of a page that was local already.                  *)
Tell(w) ==
    /\ walk[w].pc = "tell"
    /\ told' = told \cup {walk[w].page}
    /\ walk' = [walk EXCEPT ![w].pc = "turn"]
    /\ UNCHANGED <<next, stored, waiting, givenUp, requests, outages>>

(* A job that raised is tried again, unless it was its last attempt.           *)
Retry(w) ==
    /\ walk' = [walk EXCEPT ![w] = NoWalk]
    /\ IF walk[w].job.tries < SearchAttempts
         THEN waiting' = waiting \cup {walk[w].job} /\ UNCHANGED givenUp
         ELSE givenUp' = TRUE /\ UNCHANGED waiting

Token(w) == next[walk[w].page]
Repeated(w) == Token(w) \in walk[w].seen
NearCap(w) == walk[w].used >= PageBudget - 1
AtCap(w) == walk[w].used >= PageBudget

(* On to the next page, within the budget.                                   *)
Turn(w) ==
    /\ walk[w].pc = "turn" /\ Token(w) # NoPage /\ ~Repeated(w) /\ ~AtCap(w)
    /\ walk' = [walk EXCEPT ![w].pc = "list", ![w].page = Token(w), ![w].seen = @ \cup {Token(w)}]
    /\ UNCHANGED <<next, stored, told, waiting, givenUp, requests, outages>>

(* No further page: the continuation is not pending.                         *)
ExhaustedAtCap(w) == Token(w) = NoPage \/ AtCap(w)
Exhausted(w) == Token(w) = NoPage
Finish(w) ==
    /\ walk[w].pc = "turn" /\ Exhausted(w)
    /\ walk' = [walk EXCEPT ![w] = NoWalk]
    /\ UNCHANGED <<next, stored, told, waiting, givenUp, requests, outages>>

(* enqueue_continuation refuses one too many and a token that was there before.*)
Continuation(j, t) == [start |-> t, index |-> j.index + 1, hashes |-> j.hashes \cup {t}, tries |-> 0]
Refused(w) ==
    LET j == walk[w].job
    IN j.index + 1 > MaxContinuations \/ Token(w) \in j.hashes

(* The budget is used up: the rest is another job's.                         *)
Continue(w) ==
    /\ walk[w].pc = "turn" /\ ~Exhausted(w) /\ ~Repeated(w) /\ AtCap(w) /\ ~Refused(w)
    /\ waiting' = Queue(Continuation(walk[w].job, Token(w)))
    /\ walk' = [walk EXCEPT ![w] = NoWalk]
    /\ UNCHANGED <<next, stored, told, givenUp, requests, outages>>

(* Gmail's pages go round, or there are too many of them.                     *)
Raise(w) ==
    /\ walk[w].pc = "turn" /\ ~Exhausted(w)
    /\ Repeated(w) \/ (AtCap(w) /\ Refused(w))
    /\ Retry(w)
    /\ UNCHANGED <<next, stored, told, requests, outages>>

(* Gmail fails, or the worker dies.                                         *)
Outage(w) ==
    /\ Busy(w)
    /\ outages < MaxOutages /\ outages' = outages + 1
    /\ Retry(w)
    /\ UNCHANGED <<next, stored, told, requests>>

-----------------------------------------------------------------------------
Walk(w) ==
    \/ \E j \in waiting : Claim(w, j)
    \/ Hydrate(w) \/ Tell(w) \/ Turn(w) \/ Finish(w) \/ Continue(w) \/ Raise(w)

Next == Search \/ \E w \in SearchWorkers : Walk(w) \/ Outage(w)

Spec == Init /\ [][Next]_vars

-----------------------------------------------------------------------------
(* The pages a search has, as far as Gmail's tokens lead.                      *)
Reached(n) == {p \in Pages : \E path \in [0..n -> Pages] :
                 path[0] = First /\ path[n] = p /\ \A i \in 1..n : path[i] = next[path[i-1]]}
AllPages == UNION {Reached(n) : n \in 0..Cardinality(Tokens)}

(* A search that is over has stored and announced every page of Gmail's, over  *)
(* retries, continuations and searches for the same that found the job of     *)
(* the first queued already; unless a job of it was given up.                *)
SearchIsComplete ==
    requests > 0 /\ Active = {} /\ ~givenUp => AllPages \subseteq told

(* A job is only given up when Gmail failed it, or its pages go round or are   *)
(* too many for a search.                                                   *)
GoesRound == \A p \in AllPages : next[p] # NoPage
TooMany == Cardinality(AllPages) > PageBudget * (MaxContinuations + 1)
GivenUpForAReason == givenUp => GoesRound \/ TooMany \/ outages >= SearchAttempts

=============================================================================
