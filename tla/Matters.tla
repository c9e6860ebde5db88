------------------------------- MODULE Matters -------------------------------
(***************************************************************************)
(* The AI inbox of one generation: src/backend/app/services/ai_inbox.py    *)
(* and db/ai_inbox.py.  A worker organises a message in four steps, with   *)
(* provider calls between them: it claims the message, chooses a matter    *)
(* among the candidates, records what it understood and puts the message   *)
(* in the matter.  Meanwhile a reconciliation merges matters that are the  *)
(* same, the user confirms, separates and moves messages and trashes       *)
(* matters, and messages change.  What the user decided must stand.        *)
(*                                                                         *)
(* What a model says is a free choice, an embedding or a summary is left   *)
(* out, and a transaction is one step: decisions lock their matter row.    *)
(***************************************************************************)
EXTENDS Naturals, FiniteSets

CONSTANTS
    Workers,    \* the workers of the "ai" queue
    Message,    \* messages with a body
    NoMessage,  \* no message
    LateFailures, \* may organising fail once the message is in its matter?
    MaxMatters, \* bound on matters
    MaxEvents,  \* bound on decisions, trashed matters and changed messages
    MaxFaults   \* bound on failures and deaths

ASSUME MattersAssumption ==
    /\ MaxMatters \in Nat \ {0} /\ MaxEvents \in Nat /\ MaxFaults \in Nat
    /\ NoMessage \notin Message /\ LateFailures \in BOOLEAN

VARIABLES
    sem,         \* message_semantics.processing_state
    revised,     \* messages whose semantics are of an earlier content revision
    member,      \* matter_members: the matter of a message
    locked,      \* members with membership_locked
    matter,      \* matters: "none", "visible" or "hidden"
    separated,   \* the pairs that "separate" decisions keep apart
    trashed,     \* messages a matter action moved to the trash
    queued,      \* messages with a queued ai_message_organize job
    finalize,    \* is an ai_generation_finalize job queued?
    deletes,     \* queued ai_matter_action jobs: matter and snapshot
    requeue,     \* messages a decision request has yet to queue
    task,        \* task[w]: what worker w does
    view,        \* the matter on the user's screen
    excused,     \* messages a race or a fault left misplaced
    events, faults

members == <<member, locked>>
jobs    == <<queued, finalize, deletes>>
bounds  == <<events, faults>>
vars == <<sem, revised, members, matter, separated, trashed, jobs, requeue, task, view, excused, bounds>>

NoMatter == 0
Matter == 1..MaxMatters

Idle == [pc |-> "idle", m |-> NoMessage, to |-> NoMatter, from |-> NoMatter, ms |-> {},
         current |-> TRUE]
NoView == [k |-> NoMatter, ms |-> {}, sees |-> {}, fresh |-> FALSE]

Tasks == [pc : {"idle", "choose", "complete", "assign", "done", "pair", "merge", "trash", "hide"},
          m : Message \cup {NoMessage}, to : Matter \cup {NoMatter}, from : Matter \cup {NoMatter},
          ms : SUBSET Message, current : BOOLEAN]
Views == [k : Matter \cup {NoMatter}, ms : SUBSET Message, sees : SUBSET Matter, fresh : BOOLEAN]

TypeOK ==
    /\ sem \in [Message -> {"none", "processing", "ready", "failed"}]
    /\ member \in [Message -> Matter \cup {NoMatter}]
    /\ matter \in [Matter -> {"none", "visible", "hidden"}]
    /\ separated \subseteq Message \X Message
    /\ \A ms \in {revised, locked, trashed, queued, requeue, excused} : ms \subseteq Message
    /\ finalize \in BOOLEAN
    /\ deletes \subseteq Matter \X SUBSET Message
    /\ task \in [Workers -> Tasks]
    /\ view \in Views
    /\ events \in 0..MaxEvents /\ faults \in 0..MaxFaults

(* A generation was made and its bootstrap queued every message.             *)
Init ==
    /\ sem = [m \in Message |-> "none"] /\ revised = {}
    /\ member = [m \in Message |-> NoMatter] /\ locked = {}
    /\ matter = [k \in Matter |-> "none"]
    /\ separated = {} /\ trashed = {}
    /\ queued = Message /\ finalize = FALSE /\ deletes = {} /\ requeue = {}
    /\ task = [w \in Workers |-> Idle]
    /\ view = NoView /\ excused = {}
    /\ events = 0 /\ faults = 0

-----------------------------------------------------------------------------
Event == events < MaxEvents /\ events' = events + 1 /\ UNCHANGED faults
Fault == faults < MaxFaults /\ faults' = faults + 1 /\ UNCHANGED events

Members(k) == {m \in Message : member[m] = k}
Visible == {k \in Matter : matter[k] = "visible"}

(* list_ai_inbox: the visible matters with a message that is not in the       *)
(* trash, and the messages it shows as still being organised.                *)
Listed == {k \in Visible : Members(k) \ trashed # {}}
Organizing == {m \in Message \ trashed : member[m] = NoMatter}

Goto(w, where) == task' = [task EXCEPT ![w].pc = where]
Stop(w) == task' = [task EXCEPT ![w] = Idle]

(* The revision of a matter goes up: what the user sees of it is old.        *)
Bump(ks) == view' = [view EXCEPT !.fresh = @ /\ view.k \notin ks]

(* The matters m was separated from: separated_matter_ids_for_message.       *)
Partners(m) == {o \in Message : <<m, o>> \in separated \/ <<o, m>> \in separated}
Forbidden(m) == {member[o] : o \in Partners(m)}

(* Workers whose choice would be another one by now.                         *)
Choosers == {w \in Workers : task[w].pc \in {"complete", "assign"} /\ task[w].to # NoMatter}
Overtaken == {task[w].m : w \in {v \in Choosers : \/ task[v].to \notin Visible
                                                 \/ task[v].to \in {member[o] : o \in Partners(task[v].m)}}}
(* A step that changes matters excuses those whose choice it overtakes.       *)
Excuse(ms) == excused' = excused \cup (Overtaken' \ Overtaken) \cup ms

(* ---- organising a message --------------------------------------------------- *)

(* begin_message_processing: a message understood in this revision is left    *)
(* alone.                                                                    *)
Understood(m) == sem[m] = "ready" /\ m \notin revised
Begin(w, m) ==
    /\ task[w].pc = "idle" /\ m \in queued
    /\ queued' = queued \ {m}
    /\ IF Understood(m)
         THEN UNCHANGED <<sem, revised, task>>
         ELSE /\ sem' = [sem EXCEPT ![m] = "processing"]
              /\ revised' = revised \ {m}
              /\ task' = [task EXCEPT ![w] = [Idle EXCEPT !.pc = "choose", !.m = m]]
    /\ UNCHANGED <<members, matter, separated, trashed, finalize, deletes, requeue, view, excused, bounds>>

(* candidate_matters but those the user separated it from; classifier and      *)
(* reviewer choose one of them or none, the reviewer not always surely.       *)
AnyVisible(m) == Visible
Candidates(m) == Visible \ Forbidden(m)

Choose(w) ==
    /\ task[w].pc = "choose"
    /\ \E to \in Candidates(task[w].m) \cup {NoMatter} :
         task' = [task EXCEPT ![w].pc = "complete", ![w].to = to]
    /\ UNCHANGED <<sem, revised, members, matter, separated, trashed, jobs, requeue, view, excused, bounds>>

(* complete_message_semantics, in a transaction before the assignment's.      *)
Recorded(m) == [sem EXCEPT ![m] = "ready"]
Complete(w) ==
    /\ task[w].pc = "complete"
    /\ sem' = Recorded(task[w].m)
    /\ Goto(w, "assign")
    /\ UNCHANGED <<revised, members, matter, separated, trashed, jobs, requeue, view, excused, bounds>>

(* A locked member stays where it is.                                        *)
Anywhere(m, to) == to
Target(m, to) == IF m \in locked THEN member[m] ELSE to

(* The identity of the next matter, if the bound leaves one.                  *)
New == {n \in Matter : \A k \in Matter : matter[k] = "none" <=> k >= n}

(* apply_matter_assignment, into a new matter if none was chosen; a check for *)
(* duplicate matters follows.                                              *)
Assign(w) ==
    LET m  == task[w].m
        to == Target(m, task[w].to)
    IN /\ task[w].pc = "assign"
       /\ \E k \in IF to # NoMatter THEN {to} ELSE New :
            /\ member' = [member EXCEPT ![m] = k]
            /\ matter' = [matter EXCEPT ![k] = IF @ = "none" THEN "visible" ELSE @]
            /\ Bump({k})
       /\ finalize' = (finalize \/ \A v \in Workers : task[v].pc \notin {"pair", "merge"})
       /\ Goto(w, "done")
       /\ UNCHANGED <<sem, revised, locked, separated, trashed, queued, deletes, requeue, bounds>>
       /\ Excuse({})

Done(w) ==
    /\ task[w].pc = "done"
    /\ Stop(w)
    /\ UNCHANGED <<sem, revised, members, matter, separated, trashed, jobs, requeue, view, excused, bounds>>

(* A step fails, the last one after the message was put in its matter: the    *)
(* message is marked failed and the job tried again, unless it was the last  *)
(* attempt.                                                                 *)
Working == {"choose", "complete", "assign"}
NotMarked(m) == sem
MarkFailed(m) == [sem EXCEPT ![m] = "failed"]

Fail(w) ==
    /\ task[w].pc \in Working \cup (IF LateFailures THEN {"done"} ELSE {})
    /\ Fault
    /\ sem' = MarkFailed(task[w].m)
    /\ \/ queued' = queued \cup {task[w].m} /\ UNCHANGED excused
       \/ excused' = (IF task[w].pc = "done" THEN excused ELSE excused \cup {task[w].m}) /\ UNCHANGED queued
    /\ Stop(w)
    /\ UNCHANGED <<revised, members, matter, separated, trashed, finalize, deletes, requeue, view>>

(* The worker dies and another one takes up the job.  If the message is       *)
(* "ready" but in no matter yet, nobody will put it in one.                  *)
Die(w) ==
    /\ task[w].pc # "idle"
    /\ Fault
    /\ queued' = IF task[w].m # NoMessage THEN queued \cup {task[w].m} ELSE queued
    /\ finalize' = (finalize \/ task[w].pc \in {"pair", "merge"})
    /\ deletes' = IF task[w].pc \in {"trash", "hide"} THEN deletes \cup {<<task[w].from, task[w].ms>>} ELSE deletes
    /\ excused' = IF task[w].pc = "assign" THEN excused \cup {task[w].m} ELSE excused
    /\ Stop(w)
    /\ UNCHANGED <<sem, revised, members, matter, separated, trashed, requeue, view>>

(* ---- reconciliation ------------------------------------------------------------ *)

HasLocked(k) == Members(k) \cap locked # {}

(* A separate decision keeps a member of one matter from a member of the other.*)
Prohibited(a, b) == \E m \in Members(a), o \in Members(b) : o \in Partners(m)

(* matter_reconciliation_candidates, the smaller to be merged into the larger *)
(* and the one without locked members into the one with.                     *)
Pairs ==
    {p \in Visible \X Visible :
        /\ p[1] # p[2] /\ Members(p[1]) # {} /\ Members(p[2]) # {}
        /\ ~HasLocked(p[1]) /\ ~Prohibited(p[1], p[2])
        /\ HasLocked(p[2]) \/ Cardinality(Members(p[1])) <= Cardinality(Members(p[2]))}

BeginFinalize(w) ==
    /\ task[w].pc = "idle" /\ finalize
    /\ finalize' = FALSE
    /\ Goto(w, "pair")
    /\ UNCHANGED <<sem, revised, members, matter, separated, trashed, queued, deletes, requeue, view, excused, bounds>>

(* reconcile_generation looks for pairs until there is none or its limit is    *)
(* reached.                                                                  *)
Pick(w) ==
    /\ task[w].pc = "pair"
    /\ \/ \E p \in Pairs : task' = [task EXCEPT ![w].pc = "merge", ![w].from = p[1], ![w].to = p[2]]
       \/ Stop(w)
    /\ UNCHANGED <<sem, revised, members, matter, separated, trashed, jobs, requeue, view, excused, bounds>>

Unseen(a, b) ==
    /\ Members(a) # {} /\ Members(b) # {}
    /\ ~HasLocked(a) /\ ~Prohibited(a, b)
MayMerge(a, b) ==
    /\ a \in Visible /\ b \in Visible
    /\ Members(a) # {} /\ Members(b) # {}
    /\ ~HasLocked(a) /\ ~Prohibited(a, b)

(* A merged matter is hidden; it and the one it went into change revision.     *)
Retire(a, b) == matter' = [matter EXCEPT ![a] = "hidden"] /\ Bump({a, b})

(* merge_reconciled_matters, when the reviewer agrees: it checks again.        *)
Merge(w) ==
    LET a == task[w].from
        b == task[w].to
    IN /\ task[w].pc = "merge"
       /\ task' = [task EXCEPT ![w] = [Idle EXCEPT !.pc = "pair"]]
       /\ UNCHANGED <<sem, revised, locked, separated, trashed, jobs, requeue, bounds>>
       /\ \/ UNCHANGED <<member, matter, view, excused>>
          \/ /\ MayMerge(a, b)
             /\ member' = [m \in Message |-> IF member[m] = a THEN b ELSE member[m]]
             /\ Retire(a, b)
             /\ Excuse({})

(* ---- decisions -------------------------------------------------------------------- *)

(* The user opens a matter of the list: its members, its revision, the others. *)
Look(k) ==
    /\ view = NoView /\ k \in Listed /\ events < MaxEvents
    /\ view' = [k |-> k, ms |-> Members(k), sees |-> Listed, fresh |-> TRUE]
    /\ UNCHANGED <<sem, revised, members, matter, separated, trashed, jobs, requeue, task, excused, bounds>>

(* apply_user_decision refuses what was decided on an old revision.            *)
Conflict ==
    /\ view # NoView /\ ~view.fresh
    /\ view' = NoView
    /\ UNCHANGED <<sem, revised, members, matter, separated, trashed, jobs, requeue, task, excused, bounds>>

Decide == view.fresh /\ view' = NoView /\ Event

(* What was selected, or all that is only proposed, and is still there.         *)
Still(ms) == ms \cap Members(view.k)

Confirm(ms) ==
    /\ Decide /\ ms # {}
    /\ locked' = locked \cup Still(ms)
    /\ UNCHANGED <<sem, revised, member, matter, separated, trashed, jobs, requeue, task, excused>>

(* The separated messages leave the matter, are never to be put together with  *)
(* those that stay, and are organised anew.                                  *)
Separate(ms) ==
    LET stay == Members(view.k) \ ms
    IN /\ Decide /\ ms # {}
       /\ member' = [m \in Message |-> IF m \in Still(ms) THEN NoMatter ELSE member[m]]
       /\ locked' = locked \ Still(ms)
       /\ sem' = [m \in Message |-> IF m \in ms THEN "failed" ELSE sem[m]]
       /\ separated' = separated \cup (ms \X stay)
       /\ matter' = [matter EXCEPT ![view.k] = IF stay = {} THEN "hidden" ELSE "visible"]
       /\ requeue' = requeue \cup ms
       /\ UNCHANGED <<revised, trashed, jobs, task>>
       /\ Excuse({})

(* "move", and "merge" of the whole matter: the target may be hidden by now.   *)
Move(ms, to) ==
    LET moved == IF ms = {} THEN Members(view.k) ELSE ms \cap Members(view.k)
    IN /\ Decide
       /\ to \in view.sees \ {view.k}
       /\ member' = [m \in Message |-> IF m \in moved THEN to ELSE member[m]]
       /\ locked' = locked \cup moved
       /\ matter' = [matter EXCEPT ![view.k] = IF Members(view.k) = moved THEN "hidden" ELSE "visible"]
       /\ UNCHANGED <<sem, revised, separated, trashed, jobs, requeue, task>>
       /\ Excuse(IF to \in Visible THEN {} ELSE moved)

(* The request queues the separated messages after the decision committed: a  *)
(* job of the message that is about to end holds the new one back.            *)
Held(m) == m \in queued \/ \E w \in Workers : task[w].m = m /\ task[w].current
Requeue(m) ==
    /\ m \in requeue
    /\ requeue' = requeue \ {m}
    /\ queued' = IF Held(m) THEN queued ELSE queued \cup {m}
    /\ excused' = IF Held(m) /\ m \notin queued /\ \A w \in Workers : task[w].m = m => task[w].pc = "done"
                    THEN excused \cup {m} ELSE excused
    /\ UNCHANGED <<sem, revised, members, matter, separated, trashed, finalize, deletes, task, view, bounds>>

(* The request dies; its retry finds the decision and queues nothing.          *)
RequestDies ==
    /\ requeue # {} /\ Fault
    /\ requeue' = {} /\ excused' = excused \cup requeue
    /\ UNCHANGED <<sem, revised, members, matter, separated, trashed, jobs, task, view>>

(* ---- trashing a matter ---------------------------------------------------------------- *)

(* The request names the members it found: enqueue_matter_action.               *)
Trash ==
    /\ Decide
    /\ deletes' = deletes \cup {<<view.k, Members(view.k)>>}
    /\ UNCHANGED <<sem, revised, members, matter, separated, trashed, queued, finalize, requeue, task, excused>>

BeginDelete(w) ==
    /\ task[w].pc = "idle"
    /\ \E d \in deletes :
         /\ deletes' = deletes \ {d}
         /\ task' = [task EXCEPT ![w] = [Idle EXCEPT !.pc = "trash", !.from = d[1], !.ms = d[2]]]
    /\ UNCHANGED <<sem, revised, members, matter, separated, trashed, queued, finalize, requeue, view, excused, bounds>>

TrashAll(w) ==
    /\ task[w].pc = "trash"
    /\ trashed' = trashed \cup task[w].ms
    /\ Goto(w, "hide")
    /\ UNCHANGED <<sem, revised, members, matter, separated, jobs, requeue, view, excused, bounds>>

(* hide_matter: with what came to the matter since.                           *)
Hide(w) ==
    LET k == task[w].from
    IN /\ task[w].pc = "hide"
       /\ matter' = [matter EXCEPT ![k] = "hidden"]
       /\ Bump(IF k \in Visible THEN {k} ELSE {})
       /\ Stop(w)
       /\ UNCHANGED <<sem, revised, members, separated, trashed, jobs, requeue, bounds>>
       /\ Excuse(Members(k) \ task[w].ms)

(* ---- messages change ------------------------------------------------------------------ *)

(* A new content revision, under a job key of its own.                          *)
Revise(m) ==
    /\ Event
    /\ revised' = revised \cup {m}
    /\ queued' = queued \cup {m}
    /\ task' = [w \in Workers |-> IF task[w].m = m THEN [task[w] EXCEPT !.current = FALSE] ELSE task[w]]
    /\ UNCHANGED <<sem, members, matter, separated, trashed, finalize, deletes, requeue, view, excused>>

-----------------------------------------------------------------------------
Organise(w) == (\E m \in Message : Begin(w, m)) \/ Choose(w) \/ Complete(w) \/ Assign(w) \/ Done(w)
Reconcile(w) == BeginFinalize(w) \/ Pick(w) \/ Merge(w)
Delete(w) == BeginDelete(w) \/ TrashAll(w) \/ Hide(w)
User ==
    \/ \E k \in Matter : Look(k)
    \/ Conflict \/ Trash \/ RequestDies
    \/ \E ms \in SUBSET view.ms : Confirm(ms) \/ Separate(ms) \/ (\E to \in Matter : Move(ms, to))
    \/ \E m \in Message : Requeue(m) \/ Revise(m)

Next ==
    \/ \E w \in Workers : Organise(w) \/ Reconcile(w) \/ Delete(w) \/ Fail(w) \/ Die(w)
    \/ User

Spec == Init /\ [][Next]_vars

-----------------------------------------------------------------------------
(* What the AI inbox promises the user.                                      *)

ByUser == view # NoView /\ view' = NoView

(* A message the user put in a matter stays there, whatever classifier,       *)
(* reconciliation and retries do, until the user decides again.               *)
DecisionsStand ==
    [][\A m \in locked : (member'[m] = member[m] /\ m \in locked') \/ ByUser]_vars

(* Messages the user separated come together again only by the user, unless   *)
(* the classifier had chosen before they were separated.                      *)
Together(ms, m, o) == ms[m] # NoMatter /\ ms[m] = ms[o]
NeverRecombined ==
    [][\A p \in separated :
         Together(member', p[1], p[2]) /\ ~Together(member, p[1], p[2])
           => ByUser \/ p[1] \in excused' \/ p[2] \in excused']_vars

(* The same, without the exception: what the decision records.                *)
NeverRecombine ==
    [][\A p \in separated :
         Together(member', p[1], p[2]) /\ ~Together(member, p[1], p[2]) => ByUser]_vars

(* No message disappears in a hidden matter, unless it was trashed with it,    *)
(* or its matter was hidden after it was chosen for it.                       *)
NothingHidden ==
    \A m \in Message \ (trashed \cup excused) : member[m] # NoMatter => member[m] \in Visible

(* A message in no matter is being organised, unless its job was given up or   *)
(* died between its last two steps, or the request that separated it did.      *)
Organised ==
    \A m \in Organizing \ excused :
        \/ m \in queued \cup requeue
        \/ \E w \in Workers : task[w].m = m /\ task[w].pc \in Working

=============================================================================
