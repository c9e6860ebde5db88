-------------------------------- MODULE Todos --------------------------------
(***************************************************************************)
(* The to-dos of the AI inbox (db/ai_todos.py, services/ai_todos.py): each *)
(* matter has subgoals, organising and merging change them and ask for an  *)
(* extraction after their commit, and the extraction reads the matter,     *)
(* then its subgoals, asks a model, and writes what it decided under the   *)
(* revision it read, while the user ticks items off.                       *)
(*                                                                         *)
(* A subgoal is known by the matter and the name it was created under; an  *)
(* item by the matter it is in and the subgoal, or the whole matter, it    *)
(* came from.  The answer of the model is a free choice.                   *)
(***************************************************************************)
EXTENDS Naturals, FiniteSets

CONSTANTS Matters,     \* matters of one generation
          Names,       \* canonical keys of subgoals
          Workers,
          MaxEvents,   \* bound: changes of matters and choices of the user
          MaxFaults    \* bound: failures, crashes and leases that lapse

Subgoals == Matters \X Names
Whole == <<"matter", "whole">>          \* the source key of a whole matter
Keys == Subgoals \cup {Whole}
NoGoal == [of |-> Whole, open |-> FALSE]
NoItem == [shown |-> FALSE, rev |-> 0, touched |-> FALSE, status |-> "none"]
Idle == [pc |-> "idle", m |-> "none", rev |-> 0, needs |-> FALSE, keys |-> {}, current |-> FALSE]

VARIABLES
  revision,   \* [Matters -> Nat]: matters.revision
  visible,    \* matters not merged away
  sub,        \* [Matters -> [Names -> subgoal or NoGoal]]: matter_subgoals
  needy,      \* matters whose status is needs_you
  item,       \* [Matters -> [Keys -> item]]: ai_todo_items
  owed,       \* matters whose change committed and whose extraction is not yet queued
  queued,     \* matters with a queued ai_todo_extract job
  task,       \* [Workers -> the extraction it works on]
  missed,     \* history: matters whose wish for an extraction was lost
  events, faults

jobs == <<owed, queued, task>>
bounds == <<events, faults>>
vars == <<revision, visible, sub, needy, item, jobs, missed, bounds>>

TypeOK ==
    /\ revision \in [Matters -> Nat]
    /\ visible \subseteq Matters /\ needy \subseteq Matters
    /\ sub \in [Matters -> [Names -> {NoGoal} \cup [of : Subgoals, open : BOOLEAN]]]
    /\ item \in [Matters -> [Keys -> [shown : BOOLEAN, rev : Nat, touched : BOOLEAN, status : {"none", "open", "done"}]]]
    /\ owed \subseteq Matters /\ queued \subseteq Matters /\ missed \subseteq Matters
    /\ DOMAIN task = Workers

Init ==
    /\ revision = [m \in Matters |-> 1]
    /\ visible = Matters /\ needy = {}
    /\ sub = [m \in Matters |-> [n \in Names |-> NoGoal]]
    /\ item = [m \in Matters |-> [k \in Keys |-> NoItem]]
    /\ owed = {} /\ queued = {} /\ missed = {}
    /\ task = [w \in Workers |-> Idle]
    /\ events = 0 /\ faults = 0

-----------------------------------------------------------------------------
Event == events < MaxEvents /\ events' = events + 1 /\ UNCHANGED faults
Fault == faults < MaxFaults /\ faults' = faults + 1 /\ UNCHANGED events

Open(m) == {n \in Names : sub[m][n].open}
OpenSubgoals(m) == {sub[m][n].of : n \in Open(m)}

NeedsYou(m) == m \in needy

(* _derived_matter_status: a matter needs the user while one of its subgoals  *)
(* does; one without subgoals has the status that the model gave it.         *)
Derive(m) ==
    \E own \in BOOLEAN :
        LET goals == {n \in Names : sub'[m][n] # NoGoal}
            needs == IF goals = {} THEN own ELSE \E n \in goals : sub'[m][n].open
        IN needy' = IF needs THEN needy \cup {m} ELSE needy \ {m}

(* ---- matters change ----------------------------------------------------------- *)

(* apply_matter_assignment: the message opens or closes subgoals, or none,    *)
(* known by their canonical key; the revision goes up in the transaction.     *)
Assign(m, ns, open) ==
    /\ Event
    /\ m \in visible
    /\ sub' = [sub EXCEPT ![m] = [n \in Names |->
                 IF n \notin ns THEN @[n]
                 ELSE [of |-> IF @[n] = NoGoal THEN <<m, n>> ELSE @[n].of, open |-> open]]]
    /\ Derive(m)
    /\ revision' = [revision EXCEPT ![m] = @ + 1]
    /\ owed' = owed \cup {m}
    /\ UNCHANGED <<visible, item, queued, task, missed>>

(* merge_reconciled_matters: the subgoals move; of two with the same key the   *)
(* target's stays, with the status of the newer.  No item moves, and the       *)
(* hidden matter keeps its status.                                          *)
Joined(old, new, newer) ==
    IF old = NoGoal THEN new
    ELSE IF new # NoGoal /\ newer THEN [old EXCEPT !.open = new.open]
    ELSE old
Merge(a, b) ==
    /\ Event
    /\ {a, b} \subseteq visible /\ a # b
    /\ \E newer \in SUBSET Names :
         sub' = [sub EXCEPT ![a] = [n \in Names |-> NoGoal],
                            ![b] = [n \in Names |-> Joined(sub[b][n], sub[a][n], n \in newer)]]
    /\ Derive(b)
    /\ visible' = visible \ {a}
    /\ revision' = [revision EXCEPT ![a] = @ + 1, ![b] = @ + 1]
    /\ owed' = owed \cup {b}
    /\ UNCHANGED <<item, queued, task, missed>>

(* ---- asking for an extraction --------------------------------------------------- *)

(* enqueue_job: a queued or running job of the matter holds a new one back.    *)
Running(m) == \E w \in Workers : task[w].m = m /\ task[w].current
Held(m) == m \in queued \/ Running(m)

(* The wish is lost on a running job that has read the matter already.         *)
TooLate(m) ==
    m \notin queued /\ \E w \in Workers : task[w].m = m /\ task[w].current /\ task[w].pc # "read"

(* enqueue_todo_extraction, after the commit of the change.                   *)
Ask(m) ==
    /\ m \in owed
    /\ owed' = owed \ {m}
    /\ queued' = IF Held(m) THEN queued ELSE queued \cup {m}
    /\ missed' = IF TooLate(m) THEN missed \cup {m} ELSE missed
    /\ UNCHANGED <<revision, visible, sub, needy, item, task, bounds>>

(* The organiser dies first: its retry finds the message organised and asks   *)
(* for nothing.                                                             *)
DieOrganising(m) ==
    /\ m \in owed /\ Fault
    /\ owed' = owed \ {m} /\ missed' = missed \cup {m}
    /\ UNCHANGED <<revision, visible, sub, needy, item, queued, task>>

(* pending_todo_matter_ids: those that need the user and of which no item has *)
(* been projected from the present revision.                                *)
Current(m) == \E k \in Keys : item[m][k] # NoItem /\ item[m][k].rev >= revision[m]
Pending == {m \in visible : NeedsYou(m) /\ ~Current(m)}

(* The user lists the to-dos: ensure_todo_extractions comes first.             *)
List ==
    /\ {m \in Pending : ~Held(m)} # {}
    /\ queued' = queued \cup {m \in Pending : ~Held(m)}
    /\ UNCHANGED <<revision, visible, sub, needy, item, owed, task, missed, bounds>>

(* ---- an extraction ---------------------------------------------------------------- *)

Claim(w, m) ==
    /\ task[w].pc = "idle" /\ m \in queued
    /\ queued' = queued \ {m}
    /\ task' = [task EXCEPT ![w] = [Idle EXCEPT !.pc = "read", !.m = m, !.current = TRUE]]
    /\ UNCHANGED <<revision, visible, sub, needy, item, owed, missed, bounds>>

(* get_matter: the revision and the status of now.                           *)
ReadMatter(w) ==
    /\ task[w].pc = "read"
    /\ task' = [task EXCEPT ![w].pc = "context", ![w].rev = revision[task[w].m],
                            ![w].needs = NeedsYou(task[w].m)]
    /\ UNCHANGED <<revision, visible, sub, needy, item, owed, queued, missed, bounds>>

(* get_matter_context, in a transaction of its own: the open subgoals are the  *)
(* source actions, or else the matter as a whole, if it needs the user.       *)
Sources(open, needs) == IF ~needs THEN {} ELSE IF open # {} THEN open ELSE {Whole}
ReadContext(w) ==
    /\ task[w].pc = "context"
    /\ task' = [task EXCEPT ![w].pc = "write",
                            ![w].keys = Sources(OpenSubgoals(task[w].m), task[w].needs)]
    /\ UNCHANGED <<revision, visible, sub, needy, item, owed, queued, missed, bounds>>

(* write_todo_projection on one item: what the user touched stays as it is     *)
(* shown; the status is the user's anyway.                                  *)
Rewritten(old, rev, show) ==
    IF old = NoItem THEN [shown |-> show, rev |-> rev, touched |-> FALSE, status |-> "open"]
    ELSE [old EXCEPT !.rev = rev, !.shown = show]
Upserted(old, rev, show) ==
    IF old = NoItem THEN [shown |-> show, rev |-> rev, touched |-> FALSE, status |-> "open"]
    ELSE [old EXCEPT !.rev = rev, !.shown = IF old.touched THEN @ ELSE show]
Kept(old, rev) == IF old = NoItem \/ old.touched THEN old ELSE [old EXCEPT !.rev = rev]
(* An item that is no longer a source action is hidden, unless touched.        *)
Dropped(old, rev) ==
    IF old = NoItem \/ old.touched THEN old ELSE [old EXCEPT !.rev = rev, !.shown = FALSE]

(* _validated_decisions: every source gets one decision, shown or hidden.     *)
Decisions(keys) == [keys -> BOOLEAN]

(* The model's decisions, as validated, are written under the revision that    *)
(* was read; nothing checks that it still is the matter's, so a job whose     *)
(* lease lapsed can put an old projection over a new one.                    *)
Project(w) ==
    LET t == task[w]
    IN /\ t.pc = "write"
       /\ \E shows \in Decisions(t.keys) :
            item' = [item EXCEPT ![t.m] = [k \in Keys |->
                       IF k \in t.keys THEN Upserted(@[k], t.rev, shows[k])
                                       ELSE Dropped(@[k], t.rev)]]
       /\ missed' = IF t.rev = revision[t.m] /\ \A v \in Workers \ {w} : task[v].m # t.m
                      THEN missed \ {t.m}
                    ELSE IF t.current THEN missed ELSE missed \cup {t.m}
       /\ task' = [task EXCEPT ![w] = Idle]
       /\ UNCHANGED <<revision, visible, sub, needy, owed, queued, bounds>>

(* The model fails: the job is tried again, unless it was the last attempt.    *)
Fail(w) ==
    /\ task[w].pc # "idle" /\ task[w].current
    /\ Fault
    /\ task' = [task EXCEPT ![w] = Idle]
    /\ \/ queued' = queued \cup {task[w].m} /\ UNCHANGED missed
       \/ missed' = missed \cup {task[w].m} /\ UNCHANGED queued
    /\ UNCHANGED <<revision, visible, sub, needy, item, owed>>

(* The lease lapses: the job is taken up again while the worker goes on.       *)
Lapse(w) ==
    /\ task[w].pc # "idle" /\ task[w].current
    /\ Fault
    /\ task' = [task EXCEPT ![w].current = FALSE]
    /\ queued' = queued \cup {task[w].m}
    /\ UNCHANGED <<revision, visible, sub, needy, item, owed, missed>>

(* ---- the user ------------------------------------------------------------------------ *)

(* list_ai_todos.                                                            *)
Listed(m, k) == m \in visible /\ item[m][k].shown /\ item[m][k].status = "open"

(* update_ai_todo_status, of an item that is listed or was, until undone.     *)
Tick(m, k) ==
    /\ Event /\ item[m][k] # NoItem
    /\ \E s \in {"done", "open"} :
         item' = [item EXCEPT ![m][k] = [@ EXCEPT !.status = s, !.touched = TRUE]]
    /\ UNCHANGED <<revision, visible, sub, needy, jobs, missed>>

-----------------------------------------------------------------------------
Extract(w) == (\E m \in Matters : Claim(w, m)) \/ ReadMatter(w) \/ ReadContext(w) \/ Project(w)

Next ==
    \/ \E m \in Matters, ns \in SUBSET Names, open \in BOOLEAN : Assign(m, ns, open)
    \/ \E a, b \in Matters : Merge(a, b)
    \/ \E m \in Matters : Ask(m) \/ DieOrganising(m)
    \/ List
    \/ \E w \in Workers : Extract(w) \/ Fail(w) \/ Lapse(w)
    \/ \E m \in Matters, k \in Keys : Tick(m, k)

Spec == Init /\ [][Next]_vars

-----------------------------------------------------------------------------
(* What the user ticked off, or left open, stays as it was left: neither a    *)
(* later extraction nor an overtaken one changes how the item is shown.       *)
ByUser(m, k) == item'[m][k].status # item[m][k].status
ChoicesStand ==
    [][\A m \in Matters, k \in Keys :
         item[m][k].touched =>
           /\ item'[m][k].touched /\ item'[m][k].shown = item[m][k].shown
           /\ item'[m][k].status = item[m][k].status \/ events' # events]_vars

(* A to-do whose action is finished, or gone to another matter, is on its way  *)
(* out: an extraction that will see it is wanted, queued, running, or due at   *)
(* the next listing.  A matter can only be left with it if its last extraction *)
(* was lost or overwritten, and the next listing does not want another: the   *)
(* matter needs the user no more, or an item the user touched, which keeps its *)
(* revision, makes the projection look current.                              *)
Finished(m, k) == k \notin Sources(OpenSubgoals(m), NeedsYou(m))
WillBeSeen(m) ==
    \/ m \in owed \cup queued \cup Pending
    \/ \E w \in Workers : task[w].m = m /\ (task[w].pc = "read" \/ task[w].rev = revision[m])
TouchedNow(m) == \E k \in Keys : item[m][k].touched /\ item[m][k].rev >= revision[m]
FinishedLeaves ==
    \A m \in visible, k \in Keys :
        Listed(m, k) /\ ~item[m][k].touched /\ Finished(m, k)
          => WillBeSeen(m) \/ (m \in missed /\ (~NeedsYou(m) \/ TouchedNow(m)))

=============================================================================
