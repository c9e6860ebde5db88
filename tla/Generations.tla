----------------------------- MODULE Generations -----------------------------
(***************************************************************************)
(* The generations of the AI inbox: src/backend/app/db/ai_inbox.py and     *)
(* services/ai_inbox.py.  Turning the inbox on makes a generation, another *)
(* grouping style one that is rebuilt beside it, an operator's preview a   *)
(* shadow.  A bootstrap lists the mail page by page and queues a job for   *)
(* each message; when all are done the rebuilt generation is promoted.     *)
(* All that happens while mail arrives, requests change the profile, and   *)
(* jobs fail and are tried again.                                          *)
(*                                                                         *)
(* What organising a message does is left to Matters: here it is one step. *)
(***************************************************************************)
EXTENDS Naturals, Integers, FiniteSets

CONSTANTS
    Workers,     \* the workers of the "ai" queue
    LastMessage, \* messages are numbered by their dates
    Recent,      \* those of the last 30 days
    PageSize,    \* messages a bootstrap job lists
    MaxGen,      \* bound on generations
    MaxRequests, \* bound on requests
    MaxFaults    \* bound on failures and requests that die

GenerationsAssumption ==
    /\ LastMessage \in Nat /\ Recent \subseteq 1..LastMessage
    /\ PageSize \in Nat \ {0} /\ MaxGen \in Nat /\ MaxRequests \in Nat /\ MaxFaults \in Nat

VARIABLES
    profile,  \* the matter_profiles row
    gen,      \* matter_generations: status and completed_at
    mail,     \* messages with a body
    done,     \* done[g]: messages with semantics in generation g
    jobs,     \* queued jobs that are due
    later,    \* queued jobs that wait for their retry
    task,     \* task[w]: the job worker w runs
    request,  \* steps that requests have yet to take
    excused,  \* messages and generations a race or a fault left behind
    requests, faults

bounds == <<requests, faults>>
queue == <<jobs, later>>
vars == <<profile, gen, mail, done, queue, task, request, excused, bounds>>

None == 0
Messages == 1..LastMessage
Gens == 1..MaxGen
Scopes == {"all", "recent", "history"}
Live == {"active", "building", "shadow"}

(* Job kinds with their priorities; the levels keep their order.              *)
Organise(g, m, level) == [kind |-> "organise", g |-> g, arg |-> m, scope |-> "none", level |-> level]
Boot(g, scope, offset) == [kind |-> "boot", g |-> g, arg |-> offset, scope |-> scope,
                           level |-> IF scope = "history" THEN 1 ELSE 3]
Final(g) == [kind |-> "final", g |-> g, arg |-> None, scope |-> "none", level |-> -1]

Jobs == [kind : {"organise", "boot", "final", "none"}, g : 0..MaxGen, arg : Nat,
         scope : Scopes \cup {"none"}, level : -1..4]
NoJob == [kind |-> "none", g |-> None, arg |-> None, scope |-> "none", level |-> 0]
Idle == [pc |-> "idle", job |-> NoJob, page |-> {}, status |-> "none"]

TypeOK ==
    /\ profile \in [consent : BOOLEAN, enabled : BOOLEAN, mode : {"disabled", "live", "shadow"}, active : 0..MaxGen]
    /\ gen \in [Gens -> [status : Live \cup {"none", "superseded", "deleted"}, complete : BOOLEAN]]
    /\ mail \subseteq Messages /\ done \in [Gens -> SUBSET Messages]
    /\ jobs \subseteq Jobs /\ later \subseteq Jobs
    /\ task \in [Workers -> [pc : {"idle", "page", "next", "count", "read", "end"}, job : Jobs,
                             page : SUBSET Messages, status : Live \cup {"none", "superseded", "deleted"}]]
    /\ request \subseteq {"boot", "promote", "again"} \X Gens
    /\ excused \subseteq (Gens \X (Messages \cup {None}))
    /\ requests \in 0..MaxRequests /\ faults \in 0..MaxFaults

NoProfile == [consent |-> FALSE, enabled |-> FALSE, mode |-> "disabled", active |-> None]

(* The user has consented; one message is yet to come.                        *)
Init ==
    /\ profile = [NoProfile EXCEPT !.consent = TRUE]
    /\ gen = [g \in Gens |-> [status |-> "none", complete |-> FALSE]]
    /\ \E m \in Messages : mail = Messages \ {m}
    /\ done = [g \in Gens |-> {}]
    /\ jobs = {} /\ later = {}
    /\ task = [w \in Workers |-> Idle]
    /\ request = {} /\ excused = {}
    /\ requests = 0 /\ faults = 0

-----------------------------------------------------------------------------
Request == requests < MaxRequests /\ requests' = requests + 1 /\ UNCHANGED faults
Fault == faults < MaxFaults /\ faults' = faults + 1 /\ UNCHANGED requests

With(status) == {g \in Gens : gen[g].status = status}
Fresh == {g \in Gens : gen[g].status = "none" /\ \A h \in 1..(g - 1) : gen[h].status # "none"}
Become(gs, status) == [g \in Gens |-> IF g \in gs THEN [gen[g] EXCEPT !.status = status] ELSE gen[g]]

Stop(w) == task' = [task EXCEPT ![w] = Idle]
Goto(w, where) == task' = [task EXCEPT ![w].pc = where]

(* enqueue_job: a key has one active job.                                   *)
Same(j, i) == j.kind = i.kind /\ j.g = i.g /\ j.arg = i.arg /\ j.scope = i.scope
Running == {task[w].job : w \in Workers}
Held(j) == j.kind # "final" /\ \E i \in jobs \cup later \cup Running : Same(i, j)
Enqueue(js) == jobs' = jobs \cup {j \in js : ~Held(j)}

(* The jobs of a generation that was superseded are cancelled; a running one   *)
(* goes on all the same.                                                     *)
Without(js, gs) == {j \in js : j.g \notin gs}

InScope(scope) == CASE scope = "all" -> Messages
                    [] scope = "recent" -> Recent
                    [] scope = "history" -> Messages \ Recent

(* ---- requests ------------------------------------------------------------------ *)

(* update_profile; a rebuild is for another grouping style.                   *)
Update(consent, enabled, rebuild) ==
    LET on  == consent /\ enabled
        new == profile.active = None
    IN /\ Request
       /\ ~(on /\ new /\ profile.mode = "shadow")
       /\ \E g \in IF on /\ (new \/ rebuild) THEN Fresh ELSE {None} :
            /\ gen' = IF g = None THEN gen ELSE Become({g}, IF new THEN "active" ELSE "building")
            /\ profile' = [consent |-> consent, enabled |-> on, mode |-> IF on THEN "live" ELSE "disabled",
                           active |-> IF new /\ g # None THEN g ELSE profile.active]
            /\ request' = request \cup ({"boot"} \X ({g} \ {None}))
       /\ UNCHANGED <<mail, done, queue, task, excused>>

(* start_shadow_generation.                                                *)
StartShadow ==
    /\ Request
    /\ profile.consent
    /\ \E g \in Fresh :
         /\ gen' = [Become(With("shadow"), "superseded") EXCEPT ![g].status = "shadow"]
         /\ request' = request \cup {<<"boot", g>>}
    /\ jobs' = Without(jobs, With("shadow")) /\ later' = Without(later, With("shadow"))
    /\ profile' = [profile EXCEPT !.mode = "shadow"]
    /\ UNCHANGED <<mail, done, task, excused>>

(* The request queues the bootstrap after its transaction: all mail, and after  *)
(* a promotion what is recent and then the history.                          *)
Ask(r) ==
    /\ r \in request /\ r[1] # "promote"
    /\ Enqueue({Boot(r[2], IF r[1] = "boot" THEN "all" ELSE "recent", 0)})
    /\ request' = request \ {r}
    /\ UNCHANGED <<profile, gen, mail, done, later, task, excused, bounds>>

(* A request that dies leaves a generation nobody lists the mail for.          *)
RequestDies(r) ==
    /\ r \in request /\ Fault
    /\ request' = request \ {r}
    /\ excused' = excused \cup ({r[2]} \X (Messages \cup {None}))
    /\ UNCHANGED <<profile, gen, mail, done, queue, task>>

Pending(g) == \E j \in jobs \cup later \cup Running : j.kind = "organise" /\ j.g = g

(* promote_shadow_generation reads that the shadow is complete, and promotes    *)
(* it in a transaction of its own.                                          *)
AskPromote(g) ==
    /\ Request
    /\ gen[g].status = "shadow" /\ gen[g].complete /\ ~Pending(g)
    /\ request' = request \cup {<<"promote", g>>}
    /\ UNCHANGED <<profile, gen, mail, done, queue, task, excused>>

(* promote_generation.                                                     *)
AnyStatus(g) == TRUE
Promotable(g) == gen[g].status \in {"building", "shadow"}

Others(g) == {}
Superseded(g) == With("active") \ {g}

Promoted(g) ==
    IF Promotable(g)
      THEN /\ gen' = [Become(Superseded(g), "superseded") EXCEPT ![g] = [status |-> "active", complete |-> TRUE]]
           /\ jobs' = Without(jobs, Superseded(g)) \ {Final(g)}
           /\ later' = Without(later, Superseded(g)) \ {Final(g)}
           /\ profile' = [profile EXCEPT !.active = g, !.enabled = TRUE, !.mode = "live"]
      ELSE UNCHANGED <<gen, queue, profile>>

Promote(r) ==
    /\ r \in request /\ r[1] = "promote"
    /\ Promoted(r[2])
    /\ request' = (request \ {r}) \cup {<<"again", r[2]>>}
    /\ UNCHANGED <<mail, done, task, excused, bounds>>

(* delete_ai_data: the jobs find nothing to do.                              *)
DeleteData ==
    /\ Request
    /\ profile' = NoProfile
    /\ gen' = Become({g \in Gens : gen[g].status # "none"}, "deleted")
    /\ done' = [g \in Gens |-> {}]
    /\ UNCHANGED <<mail, queue, task, request, excused>>

(* ---- mail -------------------------------------------------------------------------- *)

(* enqueue_message_organization: for the active generation and the preview.    *)
(* A generation being rebuilt is not among them.                             *)
ActiveOnly == {profile.active} \cap With("active")
Receivers ==
    (IF profile.enabled THEN {profile.active} \ {None} ELSE {})
      \cup (IF profile.mode = "shadow" THEN With("shadow") ELSE {})

Arrive(m) ==
    /\ m \notin mail
    /\ mail' = mail \cup {m}
    /\ Enqueue({Organise(g, m, 4) : g \in Receivers})
    /\ excused' = excused \cup {<<g, m>> : g \in (With("active") \cup With("building")) \ Receivers}
    /\ UNCHANGED <<profile, gen, done, later, task, request, bounds>>

(* ---- workers ------------------------------------------------------------------------ *)

(* claim_job: the due job of the highest priority.                           *)
First(j) == \A i \in jobs : i.level <= j.level
Claim(w, j) == /\ task[w].pc = "idle" /\ j \in jobs /\ First(j)
               /\ jobs' = jobs \ {j}

(* organize_message: only of a generation that lives, and if the inbox is on    *)
(* or the generation is a preview; what it drops is dropped for good.  One that *)
(* is organised between two pages of the bootstrap moves the second's offset.  *)
Listed == {task[w].job : w \in {v \in Workers : task[v].pc = "next"}}
Paging(g, m) == \E j \in jobs \cup later \cup Running :
    j.kind = "boot" /\ j.g = g /\ m \in InScope(j.scope) /\ (j.arg > 0 \/ j \in Listed)

OrganiseMessage(w) ==
    \E j \in jobs :
       /\ j.kind = "organise" /\ Claim(w, j)
       /\ IF gen[j.g].status \in Live /\ (profile.enabled \/ gen[j.g].status = "shadow")
            THEN /\ done' = [done EXCEPT ![j.g] = @ \cup {j.arg}]
                 /\ excused' = IF Paging(j.g, j.arg) THEN excused \cup ({j.g} \X Messages) ELSE excused
            ELSE excused' = excused \cup {<<j.g, j.arg>>} /\ UNCHANGED done
       /\ UNCHANGED <<profile, gen, mail, later, task, request, bounds>>

(* run_generation_bootstrap.                                               *)
BeginBoot(w) ==
    \E j \in jobs :
       /\ j.kind = "boot" /\ Claim(w, j)
       /\ IF gen[j.g].status \in Live
            THEN task' = [task EXCEPT ![w] = [Idle EXCEPT !.pc = "page", !.job = j]]
            ELSE UNCHANGED task
       /\ UNCHANGED <<profile, gen, mail, done, later, request, excused, bounds>>

(* list_generation_message_ids: what has no semantics yet, by date, from an     *)
(* offset on.                                                                *)
Page(g, scope, offset) ==
    LET listed == (mail \cap InScope(scope)) \ done[g]
        before(m) == Cardinality({n \in listed : n < m})
    IN {m \in listed : before(m) >= offset /\ before(m) < offset + PageSize}

ListPage(w) ==
    LET j == task[w].job
        page == Page(j.g, j.scope, j.arg)
    IN /\ task[w].pc = "page"
       /\ Enqueue({Organise(j.g, m, IF j.scope = "history" THEN 0 ELSE 2) : m \in page})
       /\ task' = [task EXCEPT ![w].pc = "next", ![w].page = page]
       /\ UNCHANGED <<profile, gen, mail, done, later, request, excused, bounds>>

(* A full page has a successor, and after the recent mail comes the history.   *)
NeverFull(page) == Cardinality(page) > PageSize
Full(page) == Cardinality(page) = PageSize

NoFinal(g) == {}
Finals(g) == {Final(g)}

NextPage(w) ==
    LET j == task[w].job
    IN /\ task[w].pc = "next"
       /\ Enqueue(Finals(j.g) \cup
                  IF Full(task[w].page)
                    THEN {Boot(j.g, j.scope, j.arg + PageSize)}
                    ELSE IF j.scope = "recent" THEN {Boot(j.g, "history", 0)} ELSE {})
       /\ Stop(w)
       /\ UNCHANGED <<profile, gen, mail, done, later, request, excused, bounds>>

(* finalize_generation counts the jobs, reads the status, and completes or      *)
(* promotes the generation, in transactions of their own.                    *)
BeginFinal(w) ==
    \E j \in jobs :
       /\ j.kind = "final" /\ Claim(w, j)
       /\ task' = [task EXCEPT ![w] = [Idle EXCEPT !.pc = "count", !.job = j]]
       /\ UNCHANGED <<profile, gen, mail, done, later, request, excused, bounds>>

Count(w) ==
    LET g == task[w].job.g
    IN /\ task[w].pc = "count"
       /\ IF Pending(g)
            THEN later' = later \cup {Final(g)} /\ Stop(w)
            ELSE Goto(w, "read") /\ UNCHANGED later
       /\ UNCHANGED <<profile, gen, mail, done, jobs, request, excused, bounds>>

ReadStatus(w) ==
    /\ task[w].pc = "read"
    /\ task' = [task EXCEPT ![w].pc = "end", ![w].status = gen[task[w].job.g].status]
    /\ UNCHANGED <<profile, gen, mail, done, queue, request, excused, bounds>>

End(w) ==
    LET g == task[w].job.g
    IN /\ task[w].pc = "end"
       /\ CASE task[w].status = "building" -> Promoted(g)
            [] task[w].status = "shadow" ->
                 /\ gen' = [gen EXCEPT ![g].complete = @ \/ gen[g].status = "shadow"]
                 /\ UNCHANGED <<profile, queue>>
            [] OTHER -> UNCHANGED <<profile, gen, queue>>
       /\ Stop(w)
       /\ UNCHANGED <<mail, done, request, excused, bounds>>

(* A job fails, or its worker dies: it is due again later, after others.        *)
Fail(w) ==
    /\ task[w].pc # "idle" /\ Fault
    /\ later' = later \cup {task[w].job}
    /\ Stop(w)
    /\ UNCHANGED <<profile, gen, mail, done, jobs, request, excused>>

Wake ==
    /\ later # {}
    /\ \E j \in later : later' = later \ {j} /\ jobs' = jobs \cup {j}
    /\ UNCHANGED <<profile, gen, mail, done, task, request, excused, bounds>>

-----------------------------------------------------------------------------
Work(w) ==
    \/ OrganiseMessage(w) \/ BeginBoot(w) \/ ListPage(w) \/ NextPage(w)
    \/ BeginFinal(w) \/ Count(w) \/ ReadStatus(w) \/ End(w)

Next ==
    \/ \E consent, enabled, rebuild \in BOOLEAN : Update(consent, enabled, rebuild)
    \/ StartShadow \/ DeleteData \/ (\E g \in Gens : AskPromote(g))
    \/ \E r \in request : Ask(r) \/ Promote(r) \/ RequestDies(r)
    \/ \E m \in Messages : Arrive(m)
    \/ \E w \in Workers : Work(w) \/ Fail(w)
    \/ Wake

(* Workers go on, and what waits for its retry is due in the end.            *)
Fairness ==
    /\ \A w \in Workers : WF_vars(Work(w))
    /\ WF_vars(Wake) /\ WF_vars(\E r \in request : Ask(r) \/ Promote(r))

Spec == Init /\ [][Next]_vars /\ Fairness

-----------------------------------------------------------------------------
(* What the generations promise.                                             *)

(* There is one active generation, the profile's, whoever promotes when.       *)
OneActive == With("active") = {profile.active} \ {None}

(* A generation that was superseded or deleted never comes back, whatever job   *)
(* or request of it was under way.                                           *)
Gone(g) == gen[g].status \in {"superseded", "deleted"}
NeverReturns == [][\A g \in Gens : Gone(g) => Gone(g)']_vars

(* When nothing is under way for the active generation it has all mail, but     *)
(* what arrived while it was rebuilt or the inbox off, or a fault lost.        *)
AtRest(g) == /\ \A j \in jobs \cup later \cup Running : j.g # g
             /\ \A r \in request : r[2] # g
EveryMessageOrganised ==
    \A g \in With("active") : AtRest(g) => \A m \in mail \ done[g] : <<g, m>> \in excused

(* A generation being rebuilt is promoted in the end, unless its request died.  *)
RebuildEnds ==
    \A g \in Gens : gen[g].status = "building" ~> (gen[g].status # "building" \/ <<g, None>> \in excused)

(* The inbox is on only with the user's consent.                              *)
EnabledMeansConsent == profile.enabled => profile.consent

=============================================================================
