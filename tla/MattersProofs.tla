---------------------------- MODULE MattersProofs ----------------------------
(***************************************************************************)
(* Theorems about the AI inbox, for every set of workers, messages and     *)
(* names, every number of matters, generations and messages on a page, and *)
(* every bound on events and faults.  The first part is about the matters: *)
(* no message is lost, and what the user decided stands.  The second is    *)
(* about their to-dos: what is finished leaves the list, and what the user *)
(* ticked stays ticked.  The third is about the generations: one is        *)
(* active, none comes back, and in the active one every message is         *)
(* organised.                                                              *)
(***************************************************************************)
EXTENDS MC_Matters, FiniteSetTheorems, TLAPS

-----------------------------------------------------------------------------
(* The matters: the inductive invariant.                                   *)

(* What a worker of the matters holds.                                     *)
TasksHold ==
    \A w \in Workers :
      /\ task[w].pc \in Working \cup {"done"} => task[w].m \in Message
      /\ task[w].m # NoMessage => task[w].pc \in Working \cup {"done"}
      /\ task[w].pc = "merge" => task[w].from # task[w].to /\ task[w].to \in Matter /\ task[w].from \in Matter
      /\ task[w].pc = "hide" => task[w].ms \subseteq trashed
      /\ task[w].pc \in {"trash", "hide"} => task[w].from \in Matter

ViewHolds == view.fresh => view.k \in Matter

(* A matter that holds messages or is on the screen exists.                *)
MattersExist ==
    /\ \A m \in Message : member[m] # NoMatter => matter[member[m]] # "none"
    /\ view.k # NoMatter => matter[view.k] # "none"
    /\ \A k \in view.sees : matter[k] # "none"

LockedArePlaced == \A m \in locked : member[m] # NoMatter
SeparatedDiffer == \A p \in separated : p[1] # p[2]

(* A choice that an event overtook is excused; a choice that is not may be *)
(* carried out.                                                            *)
OvertakenExcused == Overtaken \subseteq excused

(* A message that is understood is placed, or about to be, unless an event *)
(* excused it: begin_message_processing would leave it alone.              *)
UnderstoodIsPlaced ==
    \A m \in Message \ excused :
      sem[m] = "ready" /\ member[m] = NoMatter => \E w \in Workers : task[w].m = m /\ task[w].pc = "assign"

MattersInv ==
    /\ TypeOK /\ TasksHold /\ ViewHolds /\ MattersExist /\ LockedArePlaced /\ SeparatedDiffer
    /\ OvertakenExcused /\ UnderstoodIsPlaced /\ NothingHidden /\ Organised

LEMMA MattersInvInitially == Init => MattersInv
<1> SUFFICES ASSUME Init PROVE MattersInv
  OBVIOUS
<1> USE MattersAssumption DEF Init
<1>1. TypeOK
  <2>1. task \in [Workers -> Tasks]
    <3>1. Idle \in Tasks
      BY DEF Tasks, Idle, Matter, NoMatter
    <3> QED
      BY <3>1
  <2>2. view \in Views
    BY DEF Views, NoView, Matter, NoMatter
  <2>3. events \in 0..MaxEvents /\ faults \in 0..MaxFaults
    OBVIOUS
  <2>4. \A ms \in {revised, locked, trashed, queued, requeue, excused} : ms \subseteq Message
    OBVIOUS
  <2> QED
    BY <2>1, <2>2, <2>3, <2>4 DEF TypeOK, Matter, NoMatter
<1>2. TasksHold /\ ViewHolds /\ LockedArePlaced /\ SeparatedDiffer
  BY DEF TasksHold, ViewHolds, LockedArePlaced, SeparatedDiffer, Idle, NoView, Working
<1>3. MattersExist
  BY DEF MattersExist, NoView
<1>4. OvertakenExcused
  BY DEF OvertakenExcused, Overtaken, Choosers, Idle
<1>5. UnderstoodIsPlaced /\ NothingHidden /\ Organised
  BY DEF UnderstoodIsPlaced, NothingHidden, Organised, Organizing
<1> QED
  BY <1>1, <1>2, <1>3, <1>4, <1>5 DEF MattersInv

(* The choice of a worker, and whether an event overtook it.               *)
Chosen(w) == task[w].pc \in {"complete", "assign"} /\ task[w].to # NoMatter
Late(w) ==
    /\ Chosen(w)
    /\ \/ task[w].to \notin Visible
       \/ \E o \in Message : /\ <<task[w].m, o>> \in separated \/ <<o, task[w].m>> \in separated
                             /\ member[o] = task[w].to

LEMMA LateAreExcused == OvertakenExcused <=> \A w \in Workers : Late(w) => task[w].m \in excused
<1>1. \A w \in Workers : Late(w) <=> w \in {v \in Choosers : \/ task[v].to \notin Visible
                                                \/ task[v].to \in {member[o] : o \in Partners(task[v].m)}}
  BY DEF Late, Chosen, Choosers, Partners
<1>2. Overtaken = {task[w].m : w \in {v \in Choosers : \/ task[v].to \notin Visible
                                                \/ task[v].to \in {member[o] : o \in Partners(task[v].m)}}}
  BY DEF Overtaken
<1>3. Choosers \subseteq Workers
  BY DEF Choosers
<1> HIDE DEF Late
<1> QED
  BY <1>1, <1>2, <1>3 DEF OvertakenExcused

(* What a step that changes matters excuses.                               *)
LEMMA ExcuseKeeps ==
    ASSUME OvertakenExcused, NEW ms, Excuse(ms)
    PROVE  OvertakenExcused' /\ excused \subseteq excused' /\ ms \subseteq excused'
  BY DEF OvertakenExcused, Excuse

(* A worker that goes on with its choice, or chooses a candidate, is not   *)
(* overtaken by it.                                                        *)
Keeps(w) == task'[w].m = task[w].m /\ task'[w].to = task[w].to /\ (Chosen(w)' => Chosen(w))

LEMMA QuietMatters ==
    ASSUME MattersInv, UNCHANGED <<member, matter, separated>>,
           trashed \subseteq trashed', excused \subseteq excused',
           TypeOK', TasksHold', ViewHolds', MattersExist', LockedArePlaced',
           \A w \in Workers : ~Chosen(w)' \/ Keeps(w) \/ task'[w].to \in Candidates(task'[w].m),
           UnderstoodIsPlaced', Organised'
    PROVE  MattersInv'
<1>1. OvertakenExcused'
  <2>1. \A w \in Workers : Late(w)' => task'[w].m \in excused'
    <3> SUFFICES ASSUME NEW w \in Workers, Late(w)' PROVE task'[w].m \in excused'
      OBVIOUS
    <3>1. Chosen(w)'
      BY DEF Late
    <3>2. CASE Keeps(w)
      <4>1. Late(w)
        BY <3>1, <3>2 DEF Late, Keeps, Visible
      <4>2. task[w].m \in excused
        BY <4>1, LateAreExcused DEF MattersInv
      <4> QED
        BY <3>2, <4>2 DEF Keeps
    <3>3. CASE task'[w].to \in Candidates(task'[w].m)
      BY <3>3 DEF Candidates, Forbidden, Partners, Late, Visible
    <3> QED
      BY <3>1, <3>2, <3>3
  <2>2. OvertakenExcused' <=> \A w \in Workers : Late(w)' => task'[w].m \in excused'
    <3>1. \A w \in Workers : Late(w)' <=> w \in {v \in Choosers' : \/ task'[v].to \notin Visible'
                                                  \/ task'[v].to \in {member'[o] : o \in Partners(task[v].m)'}}
      BY DEF Late, Chosen, Choosers, Partners
    <3>2. Overtaken' = {task'[w].m : w \in {v \in Choosers' : \/ task'[v].to \notin Visible'
                                                  \/ task'[v].to \in {member'[o] : o \in Partners(task[v].m)'}}}
      BY DEF Overtaken
    <3>3. Choosers' \subseteq Workers
      BY DEF Choosers
    <3> HIDE DEF Late
    <3> QED
      BY <3>1, <3>2, <3>3 DEF OvertakenExcused
  <2> QED
    BY <2>1, <2>2
<1>2. NothingHidden'
  BY DEF MattersInv, NothingHidden, Visible
<1>3. SeparatedDiffer'
  BY DEF MattersInv, SeparatedDiffer
<1> QED
  BY <1>1, <1>2, <1>3 DEF MattersInv

(* What the steps of a worker leave of its invariant.                      *)
LEMMA MatterTypes ==
    /\ Idle \in Tasks /\ NoView \in Views
    /\ NoMatter \notin Matter
  BY DEF Idle, NoView, Tasks, Views, Matter, NoMatter

LEMMA TypedMove ==
    ASSUME TypeOK, NEW w \in Workers, NEW t \in Tasks, task' = [task EXCEPT ![w] = t]
    PROVE  /\ task' \in [Workers -> Tasks]
           /\ task'[w] = t /\ \A v \in Workers : v # w => task'[v] = task[v]
  BY DEF TypeOK

(* What a step that moves one worker on keeps: the others' tasks stand.    *)
OthersStand(w) == \A v \in Workers : v # w => task'[v] = task[v]

LEMMA MovedTasks ==
    ASSUME TypeOK, TasksHold, NEW w \in Workers, OthersStand(w), trashed \subseteq trashed',
           task'[w].pc \in Working \cup {"done"} => task'[w].m \in Message,
           task'[w].m # NoMessage => task'[w].pc \in Working \cup {"done"},
           task'[w].pc = "merge" => task'[w].from # task'[w].to /\ task'[w].to \in Matter /\ task'[w].from \in Matter,
           task'[w].pc = "hide" => task'[w].ms \subseteq trashed',
           task'[w].pc \in {"trash", "hide"} => task'[w].from \in Matter
    PROVE  TasksHold'
<1> SUFFICES ASSUME NEW v \in Workers
             PROVE /\ task'[v].pc \in Working \cup {"done"} => task'[v].m \in Message
                   /\ task'[v].m # NoMessage => task'[v].pc \in Working \cup {"done"}
                   /\ task'[v].pc = "merge" => task'[v].from # task'[v].to /\ task'[v].to \in Matter /\ task'[v].from \in Matter
                   /\ task'[v].pc = "hide" => task'[v].ms \subseteq trashed'
                   /\ task'[v].pc \in {"trash", "hide"} => task'[v].from \in Matter
  BY DEF TasksHold, Working, Matter
<1>1. CASE v = w
  BY <1>1
<1>2. CASE v # w
  <2>1. task'[v] = task[v]
    BY <1>2 DEF OthersStand
  <2> QED
    BY <2>1 DEF TasksHold
<1> QED
  BY <1>1, <1>2

(* A worker that did not organise a message leaves everyone's claims.      *)
LEMMA MovedClaims ==
    ASSUME TypeOK, UnderstoodIsPlaced, Organised, NEW w \in Workers, OthersStand(w),
           task[w].pc \notin Working, UNCHANGED <<sem, member>>,
           excused \subseteq excused', trashed \subseteq trashed',
           queued \subseteq queued', requeue \subseteq requeue'
    PROVE  UnderstoodIsPlaced' /\ Organised'
<1>1. UnderstoodIsPlaced'
  BY DEF UnderstoodIsPlaced, OthersStand, Working
<1>2. Organised'
  BY DEF Organised, Organizing, OthersStand, Working
<1> QED
  BY <1>1, <1>2

LEMMA StandingClaims ==
    ASSUME UnderstoodIsPlaced, Organised,
           UNCHANGED <<sem, member, task>>,
           excused \subseteq excused', trashed \subseteq trashed',
           queued \subseteq queued', requeue \subseteq requeue'
    PROVE  UnderstoodIsPlaced' /\ Organised'
<1>1. UnderstoodIsPlaced'
  BY DEF UnderstoodIsPlaced
<1>2. Organised'
  BY DEF Organised, Organizing
<1> QED
  BY <1>1, <1>2

-----------------------------------------------------------------------------
(* One lemma per step.                                                     *)

LEMMA MovedChoices ==
    ASSUME NEW w \in Workers, OthersStand(w),
           ~Chosen(w)' \/ Keeps(w) \/ task'[w].to \in Candidates(task'[w].m)
    PROVE  \A v \in Workers : ~Chosen(v)' \/ Keeps(v) \/ task'[v].to \in Candidates(task'[v].m)
<1> SUFFICES ASSUME NEW v \in Workers, v # w
             PROVE  Keeps(v)
  OBVIOUS
<1> QED
  BY DEF OthersStand, Keeps, Chosen

(* A step of one worker that leaves the matters as they are.               *)
LEMMA WorkerMoves ==
    ASSUME MattersInv, NEW w \in Workers, NEW t \in Tasks, task' = [task EXCEPT ![w] = t],
           UNCHANGED <<member, matter, separated, locked, view>>,
           trashed \subseteq trashed', excused \subseteq excused', TypeOK',
           t.pc \in Working \cup {"done"} => t.m \in Message,
           t.m # NoMessage => t.pc \in Working \cup {"done"},
           t.pc = "merge" => t.from # t.to /\ t.to \in Matter /\ t.from \in Matter,
           t.pc = "hide" => t.ms \subseteq trashed',
           t.pc \in {"trash", "hide"} => t.from \in Matter,
           ~(t.pc \in {"complete", "assign"} /\ t.to # NoMatter) \/ t.to \in Candidates(t.m)
             \/ (t.m = task[w].m /\ t.to = task[w].to /\ task[w].pc \in {"complete", "assign"}),
           UnderstoodIsPlaced', Organised'
    PROVE  MattersInv'
<1>1. task'[w] = t /\ OthersStand(w)
  BY TypedMove DEF MattersInv, OthersStand
<1>2. TasksHold'
  BY <1>1, MovedTasks DEF MattersInv
<1>3. ~Chosen(w)' \/ Keeps(w) \/ task'[w].to \in Candidates(task'[w].m)
  BY <1>1 DEF Chosen, Keeps
<1>4. \A v \in Workers : ~Chosen(v)' \/ Keeps(v) \/ task'[v].to \in Candidates(task'[v].m)
  BY <1>1, <1>3, MovedChoices
<1>5. ViewHolds' /\ MattersExist' /\ LockedArePlaced'
  BY DEF MattersInv, ViewHolds, MattersExist, LockedArePlaced
<1> QED
  BY <1>2, <1>4, <1>5, QuietMatters

LEMMA BeginKeeps ==
    ASSUME MattersInv, NEW w \in Workers, NEW m \in Message, Begin(w, m) PROVE MattersInv'
<1> USE MattersAssumption
<1>1. CASE Understood(m)
  <2>1. TypeOK'
    BY <1>1 DEF MattersInv, TypeOK, Begin, members, bounds, members, bounds
  <2>2. UNCHANGED <<sem, revised, task, member, matter, separated, locked, view, trashed,
                    excused, requeue>> /\ queued' = queued \ {m}
    BY <1>1 DEF Begin, members
  <2>3. TasksHold' /\ ViewHolds' /\ MattersExist' /\ LockedArePlaced' /\ UnderstoodIsPlaced'
    BY <2>2 DEF MattersInv, TasksHold, ViewHolds, MattersExist, LockedArePlaced, UnderstoodIsPlaced
  <2>4. Organised'
    <3> SUFFICES ASSUME NEW o \in Organizing \ excused
                 PROVE  o \in queued' \cup requeue \/ \E v \in Workers : task[v].m = o /\ task[v].pc \in Working
      BY <2>2 DEF Organised, Organizing
    <3>1. CASE o # m
      BY <3>1, <2>2 DEF MattersInv, Organised
    <3>2. CASE o = m
      <4>1. \E v \in Workers : task[v].m = m /\ task[v].pc = "assign"
        BY <3>2, <1>1 DEF MattersInv, UnderstoodIsPlaced, Understood, Organizing
      <4> QED
        BY <4>1, <3>2 DEF Working
    <3> QED
      BY <3>1, <3>2
  <2>5. \A v \in Workers : ~Chosen(v)' \/ Keeps(v) \/ task'[v].to \in Candidates(task'[v].m)
    BY <2>2 DEF Chosen, Keeps
  <2> QED
    BY <2>1, <2>2, <2>3, <2>4, <2>5, QuietMatters
<1>2. CASE ~Understood(m)
  <2> DEFINE t == [Idle EXCEPT !.pc = "choose", !.m = m]
  <2>1. t \in Tasks /\ t.pc = "choose" /\ t.m = m
    BY MatterTypes DEF Tasks, Idle
  <2>2. /\ task' = [task EXCEPT ![w] = t] /\ task[w].pc = "idle"
        /\ sem' = [sem EXCEPT ![m] = "processing"] /\ revised' = revised \ {m} /\ queued' = queued \ {m}
        /\ UNCHANGED <<member, locked, matter, separated, trashed, finalize, deletes, requeue,
                       view, excused, events, faults>>
    BY <1>2 DEF Begin, members, bounds
  <2> HIDE DEF t
  <2>3. task' \in [Workers -> Tasks] /\ task'[w] = t /\ OthersStand(w)
    BY <2>1, <2>2, TypedMove DEF MattersInv, OthersStand
  <2>4. TypeOK'
    BY <2>2, <2>3 DEF MattersInv, TypeOK
  <2>5. UnderstoodIsPlaced'
    BY <2>1, <2>2, <2>3 DEF MattersInv, TypeOK, UnderstoodIsPlaced, OthersStand
  <2>6. Organised'
    <3> SUFFICES ASSUME NEW o \in Organizing \ excused
                 PROVE  o \in queued' \cup requeue \/ \E v \in Workers : task'[v].m = o /\ task'[v].pc \in Working
      BY <2>2 DEF Organised, Organizing
    <3>1. CASE o = m
      BY <3>1, <2>1, <2>3 DEF Working
    <3>2. CASE o # m
      <4>1. o \in queued' \cup requeue \/ \E v \in Workers : task[v].m = o /\ task[v].pc \in Working
        BY <3>2, <2>2 DEF MattersInv, Organised
      <4>2. \A v \in Workers : task[v].pc \in Working => v # w
        BY <2>2 DEF Working
      <4> QED
        BY <4>1, <4>2, <2>3 DEF OthersStand
    <3> QED
      BY <3>1, <3>2
  <2> QED
    BY <2>1, <2>2, <2>4, <2>5, <2>6, WorkerMoves DEF Working
<1> QED
  BY <1>1, <1>2

LEMMA ChooseKeeps ==
    ASSUME MattersInv, NEW w \in Workers, Choose(w) PROVE MattersInv'
<1>1. PICK to \in Candidates(task[w].m) \cup {NoMatter} : task' = [task EXCEPT ![w].pc = "complete", ![w].to = to]
  BY DEF Choose
<1> DEFINE t == [task[w] EXCEPT !.pc = "complete", !.to = to]
<1>2. t \in Tasks /\ t.pc = "complete" /\ t.m = task[w].m /\ t.to = to /\ task[w].pc = "choose" /\ t.m \in Message
  <2>1. task[w] \in Tasks /\ task[w].pc = "choose" /\ task[w].m \in Message
    BY DEF MattersInv, TypeOK, TasksHold, Choose, Working
  <2>2. to \in Matter \cup {NoMatter}
    BY DEF Candidates, Visible
  <2> QED
    BY <2>1, <2>2 DEF Tasks
<1>3. task' = [task EXCEPT ![w] = t]
  BY <1>1 DEF MattersInv, TypeOK, Tasks
<1>4. UNCHANGED <<sem, revised, member, locked, matter, separated, trashed, queued, finalize,
                  deletes, requeue, view, excused, events, faults>>
  BY DEF Choose, members, jobs, bounds
<1> HIDE DEF t
<1>5. task' \in [Workers -> Tasks] /\ task'[w] = t /\ OthersStand(w)
  BY <1>2, <1>3, TypedMove DEF MattersInv, OthersStand
<1>6. TypeOK'
  BY <1>4, <1>5 DEF MattersInv, TypeOK
<1>7. UnderstoodIsPlaced'
  BY <1>2, <1>4, <1>5 DEF MattersInv, UnderstoodIsPlaced, OthersStand
<1>8. Organised'
  BY <1>2, <1>4, <1>5 DEF MattersInv, Organised, Organizing, OthersStand, Working
<1> QED
  BY <1>2, <1>3, <1>4, <1>6, <1>7, <1>8, WorkerMoves DEF Working

LEMMA CompleteKeeps ==
    ASSUME MattersInv, NEW w \in Workers, Complete(w) PROVE MattersInv'
<1> DEFINE t == [task[w] EXCEPT !.pc = "assign"]
<1>2. /\ t \in Tasks /\ t.pc = "assign" /\ t.m = task[w].m /\ t.to = task[w].to
      /\ task[w].pc = "complete" /\ t.m \in Message
  BY DEF MattersInv, TypeOK, TasksHold, Complete, Tasks, Working
<1>3. task' = [task EXCEPT ![w] = t]
  BY DEF MattersInv, TypeOK, Tasks, Complete, Goto
<1>4. /\ UNCHANGED <<revised, member, locked, matter, separated, trashed, queued, finalize,
                     deletes, requeue, view, excused, events, faults>>
      /\ sem' = [sem EXCEPT ![task[w].m] = "ready"]
  BY DEF Complete, members, jobs, bounds, Recorded
<1> HIDE DEF t
<1>5. task' \in [Workers -> Tasks] /\ task'[w] = t /\ OthersStand(w)
  BY <1>2, <1>3, TypedMove DEF MattersInv, OthersStand
<1>6. TypeOK'
  BY <1>4, <1>5 DEF MattersInv, TypeOK
<1>7. UnderstoodIsPlaced'
  BY <1>2, <1>4, <1>5 DEF MattersInv, TypeOK, UnderstoodIsPlaced, OthersStand
<1>8. Organised'
  BY <1>2, <1>4, <1>5 DEF MattersInv, Organised, Organizing, OthersStand, Working
<1> QED
  BY <1>2, <1>3, <1>4, <1>6, <1>7, <1>8, WorkerMoves DEF Working

(* The worker stops.                                                       *)
LEMMA StopKeeps ==
    ASSUME MattersInv, NEW w \in Workers, Stop(w), TypeOK',
           UNCHANGED <<member, locked, matter, separated, trashed, view>>,
           excused \subseteq excused', UnderstoodIsPlaced', Organised'
    PROVE  MattersInv'
<1>1. Idle \in Tasks /\ Idle.pc = "idle" /\ Idle.m = NoMessage
  BY MatterTypes DEF Idle
<1> QED
  BY <1>1, WorkerMoves DEF Stop, Working

LEMMA StopTasks ==
    ASSUME MattersInv, NEW w \in Workers, Stop(w)
    PROVE  task' \in [Workers -> Tasks] /\ OthersStand(w) /\ task'[w].pc = "idle" /\ task'[w].m = NoMessage
<1>1. Idle \in Tasks /\ Idle.pc = "idle" /\ Idle.m = NoMessage
  BY MatterTypes DEF Idle
<1> QED
  BY <1>1, TypedMove DEF Stop, MattersInv, OthersStand

LEMMA DoneKeeps ==
    ASSUME MattersInv, NEW w \in Workers, Done(w) PROVE MattersInv'
<1>1. /\ UNCHANGED <<sem, revised, member, locked, matter, separated, trashed, queued, finalize,
                     deletes, requeue, view, excused, events, faults>>
      /\ task[w].pc = "done" /\ Stop(w)
  BY DEF Done, members, jobs, bounds
<1>2. task' \in [Workers -> Tasks] /\ OthersStand(w)
  BY <1>1, StopTasks
<1>3. TypeOK'
  BY <1>1, <1>2 DEF MattersInv, TypeOK
<1>4. UnderstoodIsPlaced' /\ Organised'
  BY <1>1, <1>2, MovedClaims DEF MattersInv, Working
<1> QED
  BY <1>1, <1>3, <1>4, StopKeeps

LEMMA FailKeeps ==
    ASSUME MattersInv, NEW w \in Workers, Fail(w) PROVE MattersInv'
<1> DEFINE m == task[w].m
<1>1. /\ UNCHANGED <<revised, member, locked, matter, separated, trashed, finalize, deletes,
                     requeue, view, events>>
      /\ task[w].pc \in Working \cup {"done"} /\ Stop(w) /\ m \in Message
      /\ sem' = [sem EXCEPT ![m] = "failed"]
      /\ \/ queued' = queued \cup {m} /\ UNCHANGED excused
         \/ task[w].pc # "done" /\ excused' = excused \cup {m} /\ UNCHANGED queued
         \/ task[w].pc = "done" /\ UNCHANGED <<excused, queued>>
  BY DEF Fail, members, Fault, MarkFailed, MattersInv, TasksHold
<1>2. task' \in [Workers -> Tasks] /\ OthersStand(w)
  BY <1>1, StopTasks
<1>3. faults' \in 0..MaxFaults
  BY MattersAssumption DEF Fail, Fault, MattersInv, TypeOK
<1> HIDE DEF m
<1>4. TypeOK'
  BY <1>1, <1>2, <1>3 DEF MattersInv, TypeOK
<1>5. UnderstoodIsPlaced'
  BY <1>1, <1>2 DEF MattersInv, TypeOK, UnderstoodIsPlaced, OthersStand, m
<1>6. Organised'
  BY <1>1, <1>2 DEF MattersInv, Organised, Organizing, OthersStand, Working, m
<1> QED
  BY <1>1, <1>4, <1>5, <1>6, StopKeeps

LEMMA DieKeeps ==
    ASSUME MattersInv, NEW w \in Workers, Die(w) PROVE MattersInv'
<1> DEFINE m == task[w].m
<1>1. /\ UNCHANGED <<sem, revised, member, locked, matter, separated, trashed, requeue, view,
                     events>>
      /\ task[w].pc # "idle" /\ Stop(w)
      /\ queued' = IF m # NoMessage THEN queued \cup {m} ELSE queued
      /\ finalize' = (finalize \/ task[w].pc \in {"pair", "merge"})
      /\ deletes' = IF task[w].pc \in {"trash", "hide"} THEN deletes \cup {<<task[w].from, task[w].ms>>} ELSE deletes
      /\ excused' = IF task[w].pc = "assign" THEN excused \cup {m} ELSE excused
  BY DEF Die, members, Fault
<1>2. task' \in [Workers -> Tasks] /\ OthersStand(w)
  BY <1>1, StopTasks
<1>3. faults' \in 0..MaxFaults
  BY MattersAssumption DEF Die, Fault, MattersInv, TypeOK
<1>4. /\ m # NoMessage => m \in Message
      /\ task[w].pc \in Working => m \in Message
      /\ task[w].pc \in {"trash", "hide"} => task[w].from \in Matter
      /\ task[w].ms \subseteq Message
  BY DEF MattersInv, TasksHold, TypeOK, Tasks
<1>5. queued \subseteq queued' /\ excused \subseteq excused'
  BY <1>1
<1>6. queued' \subseteq Message /\ excused' \subseteq Message /\ deletes' \subseteq Matter \X SUBSET Message
  BY <1>1, <1>4 DEF MattersInv, TypeOK, Working
<1> HIDE DEF m
<1>7. finalize' \in BOOLEAN
  BY <1>1
<1>8. TypeOK'
  BY <1>1, <1>2, <1>3, <1>6, <1>7 DEF MattersInv, TypeOK
<1>9. UnderstoodIsPlaced'
  BY <1>1, <1>2, <1>5 DEF MattersInv, UnderstoodIsPlaced, OthersStand, m
<1>10. Organised'
  <2> SUFFICES ASSUME NEW o \in Organizing \ excused
               PROVE  o \in queued' \cup requeue' \/ \E v \in Workers : task'[v].m = o /\ task'[v].pc \in Working
    BY <1>1, <1>5 DEF Organised, Organizing
  <2>1. CASE o \in queued \cup requeue
    BY <2>1, <1>1, <1>5
  <2>2. ASSUME NEW v \in Workers, task[v].m = o, task[v].pc \in Working
        PROVE  o \in queued' \/ \E u \in Workers : task'[u].m = o /\ task'[u].pc \in Working
    <3>1. CASE v = w
      BY <3>1, <2>2, <1>1, MattersAssumption DEF m, Organizing
    <3>2. CASE v # w
      BY <3>2, <2>2, <1>2 DEF OthersStand
    <3> QED
      BY <3>1, <3>2
  <2> QED
    BY <2>1, <2>2 DEF MattersInv, Organised
<1> QED
  BY <1>1, <1>5, <1>8, <1>9, <1>10, StopKeeps

LEMMA BeginFinalizeKeeps ==
    ASSUME MattersInv, NEW w \in Workers, BeginFinalize(w) PROVE MattersInv'
<1> DEFINE t == [task[w] EXCEPT !.pc = "pair"]
<1>2. /\ t \in Tasks /\ t.pc = "pair" /\ t.m = NoMessage /\ t.to = task[w].to
      /\ task[w].pc = "idle"
  BY DEF MattersInv, TypeOK, TasksHold, BeginFinalize, Tasks, Working
<1>3. task' = [task EXCEPT ![w] = t]
  BY DEF MattersInv, TypeOK, Tasks, BeginFinalize, Goto
<1>4. /\ UNCHANGED <<sem, revised, member, locked, matter, separated, trashed, queued, deletes,
                     requeue, view, excused, events, faults>>
      /\ finalize' = FALSE
  BY DEF BeginFinalize, members, bounds
<1> HIDE DEF t
<1>5. task' \in [Workers -> Tasks] /\ task'[w] = t /\ OthersStand(w)
  BY <1>2, <1>3, TypedMove DEF MattersInv, OthersStand
<1>6. TypeOK'
  BY <1>4, <1>5 DEF MattersInv, TypeOK
<1>7. UnderstoodIsPlaced' /\ Organised'
  BY <1>2, <1>4, <1>5, MovedClaims DEF MattersInv, Working
<1> QED
  BY <1>2, <1>3, <1>4, <1>6, <1>7, WorkerMoves DEF Working

LEMMA PickKeeps ==
    ASSUME MattersInv, NEW w \in Workers, Pick(w) PROVE MattersInv'
<1>1. /\ UNCHANGED <<sem, revised, member, locked, matter, separated, trashed, queued, finalize,
                     deletes, requeue, view, excused, events, faults>>
      /\ task[w].pc = "pair"
  BY DEF Pick, members, jobs, bounds
<1>2. CASE Stop(w)
  <2>1. task' \in [Workers -> Tasks] /\ OthersStand(w)
    BY <1>2, StopTasks
  <2>2. TypeOK'
    BY <1>1, <2>1 DEF MattersInv, TypeOK
  <2>3. UnderstoodIsPlaced' /\ Organised'
    BY <1>1, <2>1, MovedClaims DEF MattersInv, Working
  <2> QED
    BY <1>1, <1>2, <2>2, <2>3, StopKeeps
<1>3. ASSUME NEW p \in Pairs, task' = [task EXCEPT ![w].pc = "merge", ![w].from = p[1], ![w].to = p[2]]
      PROVE  MattersInv'
  <2> DEFINE t == [task[w] EXCEPT !.pc = "merge", !.from = p[1], !.to = p[2]]
  <2>1. p[1] \in Matter /\ p[2] \in Matter /\ p[1] # p[2]
    BY DEF Pairs, Visible
  <2>2. /\ t \in Tasks /\ t.pc = "merge" /\ t.m = NoMessage /\ t.from = p[1] /\ t.to = p[2]
    BY <1>1, <2>1 DEF MattersInv, TypeOK, TasksHold, Tasks, Working
  <2>3. task' = [task EXCEPT ![w] = t]
    BY <1>3 DEF MattersInv, TypeOK, Tasks
  <2> HIDE DEF t
  <2>4. task' \in [Workers -> Tasks] /\ task'[w] = t /\ OthersStand(w)
    BY <2>2, <2>3, TypedMove DEF MattersInv, OthersStand
  <2>5. TypeOK'
    BY <1>1, <2>4 DEF MattersInv, TypeOK
  <2>6. UnderstoodIsPlaced' /\ Organised'
    BY <1>1, <2>4, MovedClaims DEF MattersInv, Working
  <2> QED
    BY <1>1, <2>1, <2>2, <2>3, <2>5, <2>6, WorkerMoves DEF Working
<1> QED
  BY <1>2, <1>3 DEF Pick

LEMMA BeginDeleteKeeps ==
    ASSUME MattersInv, NEW w \in Workers, BeginDelete(w) PROVE MattersInv'
<1>1. /\ UNCHANGED <<sem, revised, member, locked, matter, separated, trashed, queued, finalize,
                     requeue, view, excused, events, faults>>
      /\ task[w].pc = "idle"
  BY DEF BeginDelete, members, bounds
<1>2. PICK d \in deletes :
         /\ deletes' = deletes \ {d}
         /\ task' = [task EXCEPT ![w] = [Idle EXCEPT !.pc = "trash", !.from = d[1], !.ms = d[2]]]
  BY DEF BeginDelete
<1> DEFINE t == [Idle EXCEPT !.pc = "trash", !.from = d[1], !.ms = d[2]]
<1>3. d[1] \in Matter /\ d[2] \subseteq Message
  BY DEF MattersInv, TypeOK
<1>4. /\ t \in Tasks /\ t.pc = "trash" /\ t.m = NoMessage /\ t.from = d[1]
  BY <1>3, MatterTypes DEF Tasks, Idle
<1>5. task' = [task EXCEPT ![w] = t]
  BY <1>2
<1> HIDE DEF t
<1>6. task' \in [Workers -> Tasks] /\ task'[w] = t /\ OthersStand(w)
  BY <1>4, <1>5, TypedMove DEF MattersInv, OthersStand
<1>7. TypeOK'
  BY <1>1, <1>2, <1>6 DEF MattersInv, TypeOK
<1>8. UnderstoodIsPlaced' /\ Organised'
  BY <1>1, <1>6, MovedClaims DEF MattersInv, Working
<1> QED
  BY <1>1, <1>3, <1>4, <1>5, <1>7, <1>8, WorkerMoves DEF Working

LEMMA TrashAllKeeps ==
    ASSUME MattersInv, NEW w \in Workers, TrashAll(w) PROVE MattersInv'
<1> DEFINE t == [task[w] EXCEPT !.pc = "hide"]
<1>1. /\ UNCHANGED <<sem, revised, member, locked, matter, separated, queued, finalize, deletes,
                     requeue, view, excused, events, faults>>
      /\ task[w].pc = "trash" /\ trashed' = trashed \cup task[w].ms
  BY DEF TrashAll, members, jobs, bounds
<1>2. /\ t \in Tasks /\ t.pc = "hide" /\ t.m = NoMessage /\ t.from = task[w].from /\ t.ms = task[w].ms
      /\ t.from \in Matter /\ t.ms \subseteq Message
  BY <1>1 DEF MattersInv, TypeOK, TasksHold, Tasks, Working
<1>3. task' = [task EXCEPT ![w] = t]
  BY DEF MattersInv, TypeOK, Tasks, TrashAll, Goto
<1> HIDE DEF t
<1>4. task' \in [Workers -> Tasks] /\ task'[w] = t /\ OthersStand(w)
  BY <1>2, <1>3, TypedMove DEF MattersInv, OthersStand
<1>5. TypeOK'
  BY <1>1, <1>2, <1>4 DEF MattersInv, TypeOK
<1>6. UnderstoodIsPlaced' /\ Organised'
  BY <1>1, <1>4, MovedClaims DEF MattersInv, Working
<1> QED
  BY <1>1, <1>2, <1>3, <1>5, <1>6, WorkerMoves DEF Working

(* The steps of the user that leave messages and matters where they are.   *)
LEMMA UserKeeps ==
    ASSUME MattersInv, TypeOK', UNCHANGED <<member, matter, separated, task>>,
           trashed \subseteq trashed', excused \subseteq excused',
           ViewHolds', MattersExist', LockedArePlaced', UnderstoodIsPlaced', Organised'
    PROVE  MattersInv'
<1>1. TasksHold'
  BY DEF MattersInv, TasksHold
<1>2. \A v \in Workers : Keeps(v)
  BY DEF Keeps, Chosen
<1> QED
  BY <1>1, <1>2, QuietMatters

(* The user's screen closes.                                               *)
LEMMA Closed ==
    ASSUME MattersInv, view' = NoView, UNCHANGED <<member, matter>>
    PROVE  ViewHolds' /\ MattersExist' /\ view' \in Views
<1>1. ViewHolds' /\ view' \in Views
  BY MatterTypes DEF ViewHolds, NoView
<1>2. MattersExist'
  BY DEF MattersInv, MattersExist, NoView
<1> QED
  BY <1>1, <1>2

LEMMA LookKeeps ==
    ASSUME MattersInv, NEW k \in Matter, Look(k) PROVE MattersInv'
<1>1. /\ UNCHANGED <<sem, revised, member, locked, matter, separated, trashed, queued, finalize,
                     deletes, requeue, task, excused, events, faults>>
      /\ k \in Listed /\ view' = [k |-> k, ms |-> Members(k), sees |-> Listed, fresh |-> TRUE]
  BY DEF Look, members, jobs, bounds
<1>2. Members(k) \subseteq Message /\ Listed \subseteq Matter /\ \A j \in Listed : matter[j] = "visible"
  BY DEF Members, Listed, Visible
<1>3. TypeOK'
  BY <1>1, <1>2 DEF MattersInv, TypeOK, Views
<1>4. ViewHolds'
  BY <1>1 DEF ViewHolds
<1>5. MattersExist'
  <2>1. view'.k = k /\ view'.sees = Listed
    BY <1>1
  <2>2. view'.k # NoMatter => matter[view'.k] # "none"
    BY <1>1, <1>2, <2>1
  <2>3. \A j \in view'.sees : matter[j] # "none"
    BY <1>2, <2>1
  <2> QED
    BY <1>1, <2>2, <2>3 DEF MattersInv, MattersExist
<1>6. LockedArePlaced'
  BY <1>1 DEF MattersInv, LockedArePlaced
<1>7. UnderstoodIsPlaced' /\ Organised'
  BY <1>1, StandingClaims DEF MattersInv
<1> QED
  BY <1>1, <1>3, <1>4, <1>5, <1>6, <1>7, UserKeeps

LEMMA ConflictKeeps ==
    ASSUME MattersInv, Conflict PROVE MattersInv'
<1>1. /\ UNCHANGED <<sem, revised, member, locked, matter, separated, trashed, queued, finalize,
                     deletes, requeue, task, excused, events, faults>>
      /\ view' = NoView
  BY DEF Conflict, members, jobs, bounds
<1>2. ViewHolds' /\ MattersExist' /\ view' \in Views
  BY <1>1, Closed
<1>3. TypeOK'
  BY <1>1, <1>2 DEF MattersInv, TypeOK
<1>4. LockedArePlaced'
  BY <1>1 DEF MattersInv, LockedArePlaced
<1>5. UnderstoodIsPlaced' /\ Organised'
  BY <1>1, StandingClaims DEF MattersInv
<1> QED
  BY <1>1, <1>2, <1>3, <1>4, <1>5, UserKeeps

LEMMA EventTypes ==
    ASSUME MattersInv, Event PROVE events' \in 0..MaxEvents /\ faults' = faults
  BY MattersAssumption DEF Event, MattersInv, TypeOK

LEMMA FaultTypes ==
    ASSUME MattersInv, Fault PROVE faults' \in 0..MaxFaults /\ events' = events
  BY MattersAssumption DEF Fault, MattersInv, TypeOK

LEMMA ConfirmKeeps ==
    ASSUME MattersInv, NEW ms \in SUBSET view.ms, Confirm(ms) PROVE MattersInv'
<1>1. /\ UNCHANGED <<sem, revised, member, matter, separated, trashed, queued, finalize, deletes,
                     requeue, task, excused>>
      /\ view' = NoView /\ view.fresh /\ Event /\ locked' = locked \cup Still(ms)
  BY DEF Confirm, Decide, jobs
<1>2. ViewHolds' /\ MattersExist' /\ view' \in Views
  BY <1>1, Closed
<1>3. events' \in 0..MaxEvents /\ faults' = faults
  BY <1>1, EventTypes
<1>4. Still(ms) \subseteq Message /\ \A m \in Still(ms) : member[m] = view.k
  BY DEF Still, Members
<1>5. TypeOK'
  BY <1>1, <1>2, <1>3, <1>4 DEF MattersInv, TypeOK
<1>6. LockedArePlaced'
  BY <1>1, <1>4, MatterTypes DEF MattersInv, LockedArePlaced, ViewHolds
<1>7. UnderstoodIsPlaced' /\ Organised'
  BY <1>1, StandingClaims DEF MattersInv
<1> QED
  BY <1>1, <1>2, <1>5, <1>6, <1>7, UserKeeps

LEMMA RequeueKeeps ==
    ASSUME MattersInv, NEW m \in Message, Requeue(m) PROVE MattersInv'
<1>1. /\ UNCHANGED <<sem, revised, member, locked, matter, separated, trashed, finalize, deletes,
                     task, view, events, faults>>
      /\ m \in requeue /\ requeue' = requeue \ {m}
      /\ queued' = IF Held(m) THEN queued ELSE queued \cup {m}
      /\ excused' = IF Held(m) /\ m \notin queued /\ \A w \in Workers : task[w].m = m => task[w].pc = "done"
                    THEN excused \cup {m} ELSE excused
  BY DEF Requeue, members, bounds
<1>2. queued \subseteq queued' /\ excused \subseteq excused' /\ queued' \subseteq Message /\ excused' \subseteq Message
  BY <1>1 DEF MattersInv, TypeOK
<1>3. TypeOK'
  BY <1>1, <1>2 DEF MattersInv, TypeOK
<1>4. ViewHolds' /\ MattersExist' /\ LockedArePlaced'
  BY <1>1 DEF MattersInv, ViewHolds, MattersExist, LockedArePlaced
<1>5. UnderstoodIsPlaced'
  BY <1>1, <1>2 DEF MattersInv, UnderstoodIsPlaced
<1>6. Organised'
  <2> SUFFICES ASSUME NEW o \in Organizing, o \notin excused'
               PROVE  o \in queued' \cup requeue' \/ \E v \in Workers : task[v].m = o /\ task[v].pc \in Working
    BY <1>1 DEF Organised, Organizing
  <2>1. o \notin excused
    BY <1>2
  <2>2. CASE o # m
    BY <1>1, <1>2, <2>1, <2>2 DEF MattersInv, Organised
  <2>3. CASE o = m
    <3>1. CASE ~Held(m)
      BY <3>1, <2>3, <1>1
    <3>2. CASE Held(m) /\ m \in queued
      BY <3>2, <2>3, <1>1
    <3>3. CASE Held(m) /\ m \notin queued
      <4>1. PICK v \in Workers : task[v].m = m /\ task[v].pc # "done"
        BY <3>3, <2>3, <1>1
      <4>2. task[v].pc \in Working
        BY <4>1, MattersAssumption DEF MattersInv, TasksHold
      <4> QED
        BY <4>1, <4>2, <2>3
    <3> QED
      BY <3>1, <3>2, <3>3
  <2> QED
    BY <2>2, <2>3
<1> QED
  BY <1>1, <1>2, <1>3, <1>4, <1>5, <1>6, UserKeeps

LEMMA RequestDiesKeeps ==
    ASSUME MattersInv, RequestDies PROVE MattersInv'
<1>1. /\ UNCHANGED <<sem, revised, member, locked, matter, separated, trashed, queued, finalize,
                     deletes, task, view>>
      /\ requeue' = {} /\ excused' = excused \cup requeue /\ Fault
  BY DEF RequestDies, members, jobs
<1>2. faults' \in 0..MaxFaults /\ events' = events
  BY <1>1, FaultTypes
<1>3. TypeOK'
  BY <1>1, <1>2 DEF MattersInv, TypeOK
<1>4. ViewHolds' /\ MattersExist' /\ LockedArePlaced'
  BY <1>1 DEF MattersInv, ViewHolds, MattersExist, LockedArePlaced
<1>5. UnderstoodIsPlaced'
  BY <1>1 DEF MattersInv, UnderstoodIsPlaced
<1>6. Organised'
  BY <1>1 DEF MattersInv, Organised, Organizing
<1> QED
  BY <1>1, <1>3, <1>4, <1>5, <1>6, UserKeeps

LEMMA TrashKeeps ==
    ASSUME MattersInv, Trash PROVE MattersInv'
<1>1. /\ UNCHANGED <<sem, revised, member, locked, matter, separated, trashed, queued, finalize,
                     requeue, task, excused>>
      /\ view' = NoView /\ view.fresh /\ Event /\ deletes' = deletes \cup {<<view.k, Members(view.k)>>}
  BY DEF Trash, Decide, members
<1>2. ViewHolds' /\ MattersExist' /\ view' \in Views
  BY <1>1, Closed
<1>3. events' \in 0..MaxEvents /\ faults' = faults
  BY <1>1, EventTypes
<1>4. view.k \in Matter /\ Members(view.k) \subseteq Message
  BY <1>1 DEF Members, MattersInv, ViewHolds
<1>5. TypeOK'
  BY <1>1, <1>2, <1>3, <1>4 DEF MattersInv, TypeOK
<1>6. LockedArePlaced'
  BY <1>1 DEF MattersInv, LockedArePlaced
<1>7. UnderstoodIsPlaced' /\ Organised'
  BY <1>1, StandingClaims DEF MattersInv
<1> QED
  BY <1>1, <1>2, <1>5, <1>6, <1>7, UserKeeps

LEMMA ReviseKeeps ==
    ASSUME MattersInv, NEW m \in Message, Revise(m) PROVE MattersInv'
<1>1. /\ UNCHANGED <<sem, member, locked, matter, separated, trashed, finalize, deletes, requeue,
                     view, excused>>
      /\ Event /\ revised' = revised \cup {m} /\ queued' = queued \cup {m}
      /\ task' = [w \in Workers |-> IF task[w].m = m THEN [task[w] EXCEPT !.current = FALSE] ELSE task[w]]
  BY DEF Revise, members
<1>2. events' \in 0..MaxEvents /\ faults' = faults
  BY <1>1, EventTypes
<1>3. \A w \in Workers : /\ task'[w] \in Tasks
                         /\ task'[w].pc = task[w].pc /\ task'[w].m = task[w].m /\ task'[w].to = task[w].to
                         /\ task'[w].from = task[w].from /\ task'[w].ms = task[w].ms
  BY <1>1 DEF MattersInv, TypeOK, Tasks
<1>4. task' \in [Workers -> Tasks]
  BY <1>1, <1>3
<1>5. TypeOK'
  BY <1>1, <1>2, <1>4 DEF MattersInv, TypeOK
<1>6. ViewHolds' /\ MattersExist' /\ LockedArePlaced'
  BY <1>1 DEF MattersInv, ViewHolds, MattersExist, LockedArePlaced
<1>7. TasksHold'
  BY <1>1, <1>3 DEF MattersInv, TasksHold
<1>8. UnderstoodIsPlaced'
  BY <1>1, <1>3 DEF MattersInv, UnderstoodIsPlaced
<1>9. Organised'
  BY <1>1, <1>3 DEF MattersInv, Organised, Organizing
<1>10. \A w \in Workers : Keeps(w)
  BY <1>3 DEF Keeps, Chosen
<1> QED
  BY <1>1, <1>5, <1>6, <1>7, <1>8, <1>9, <1>10, QuietMatters

(* A new matter holds no message yet.                                      *)
LEMMA NewIsEmpty ==
    ASSUME MattersInv, NEW k \in New
    PROVE  k \in Matter /\ matter[k] = "none" /\ \A m \in Message : member[m] # k
<1>1. k \in Matter /\ matter[k] = "none"
  BY DEF New, Matter
<1> QED
  BY <1>1, MatterTypes DEF MattersInv, MattersExist

(* Where an organised message goes: where it is locked, to a matter that   *)
(* is to be had, or to a new one; a choice an event overtook is excused.   *)
LEMMA Landing ==
    ASSUME MattersInv, NEW w \in Workers, task[w].pc = "assign",
           NEW k, k \in IF Target(task[w].m, task[w].to) # NoMatter THEN {Target(task[w].m, task[w].to)} ELSE New
    PROVE  /\ task[w].m \in Message /\ k \in Matter
           /\ \/ task[w].m \in locked /\ k = member[task[w].m]
              \/ task[w].m \notin locked /\ k = task[w].to /\ k \in Visible
                   /\ \A o \in Message : member[o] = k =>
                        <<task[w].m, o>> \notin separated /\ <<o, task[w].m>> \notin separated
              \/ task[w].m \notin locked /\ k = task[w].to /\ task[w].m \in excused
              \/ task[w].m \notin locked /\ k \in New
<1> DEFINE m == task[w].m
<1>1. m \in Message
  BY DEF MattersInv, TasksHold, Working
<1>2. CASE m \in locked
  BY <1>1, <1>2, MatterTypes DEF Target, MattersInv, LockedArePlaced, TypeOK
<1>3. CASE m \notin locked /\ task[w].to = NoMatter
  BY <1>1, <1>3 DEF Target, New
<1>4. CASE m \notin locked /\ task[w].to # NoMatter
  <2>1. k = task[w].to /\ k \in Matter
    BY <1>4 DEF Target, MattersInv, TypeOK, Tasks
  <2>2. Chosen(w)
    BY <1>4 DEF Chosen
  <2>3. Late(w) => m \in excused
    BY LateAreExcused DEF MattersInv
  <2>4. CASE Late(w)
    BY <1>1, <1>4, <2>1, <2>3, <2>4
  <2>5. CASE ~Late(w)
    BY <1>1, <1>4, <2>1, <2>2, <2>5 DEF Late
  <2> QED
    BY <2>4, <2>5
<1> QED
  BY <1>2, <1>3, <1>4

LEMMA BumpKeeps ==
    ASSUME MattersInv, NEW ks, Bump(ks)
    PROVE  /\ view' \in Views /\ ViewHolds'
           /\ view'.k = view.k /\ view'.ms = view.ms /\ view'.sees = view.sees
  BY DEF MattersInv, TypeOK, Bump, Views, ViewHolds

(* The view shows matters that still exist.                                *)
LEMMA MattersRemain ==
    ASSUME MattersInv, view'.k \in {view.k, NoMatter}, view'.sees \subseteq view.sees,
           \A k \in Matter : matter[k] # "none" => matter'[k] # "none",
           \A m \in Message : member'[m] # NoMatter => member'[m] \in Matter /\ matter'[member'[m]] # "none"
    PROVE  MattersExist'
<1>1. view.k \in Matter \cup {NoMatter} /\ view.sees \subseteq Matter
  BY DEF MattersInv, TypeOK, Views
<1>2. view.k # NoMatter => matter[view.k] # "none"
  BY DEF MattersInv, MattersExist
<1>3. \A k \in view.sees : matter[k] # "none"
  BY DEF MattersInv, MattersExist
<1> QED
  BY <1>1, <1>2, <1>3 DEF MattersExist

LEMMA AssignKeeps ==
    ASSUME MattersInv, NEW w \in Workers, Assign(w) PROVE MattersInv'
<1> DEFINE m == task[w].m
           t == [task[w] EXCEPT !.pc = "done"]
<1>1. PICK k \in IF Target(m, task[w].to) # NoMatter THEN {Target(m, task[w].to)} ELSE New :
         /\ member' = [member EXCEPT ![m] = k]
         /\ matter' = [matter EXCEPT ![k] = IF @ = "none" THEN "visible" ELSE @]
         /\ Bump({k})
  BY DEF Assign
<1>2. /\ UNCHANGED <<sem, revised, locked, separated, trashed, queued, deletes, requeue, events,
                     faults>>
      /\ task[w].pc = "assign" /\ Goto(w, "done") /\ Excuse({})
      /\ finalize' = (finalize \/ \A v \in Workers : task[v].pc \notin {"pair", "merge"})
  BY DEF Assign, bounds
<1>3. /\ m \in Message /\ k \in Matter
      /\ \/ m \in locked /\ k = member[m]
         \/ k \in Visible
         \/ m \in excused
         \/ k \in New
  BY <1>1, <1>2, Landing
<1>4. t \in Tasks /\ t.pc = "done" /\ t.m = m /\ task' = [task EXCEPT ![w] = t]
  BY <1>2 DEF MattersInv, TypeOK, Tasks, Goto
<1> HIDE DEF t
<1>5. task' \in [Workers -> Tasks] /\ task'[w] = t /\ OthersStand(w)
  BY <1>4, TypedMove DEF MattersInv, OthersStand
<1>6. /\ member' \in [Message -> Matter \cup {NoMatter}] /\ member'[m] = k /\ k # NoMatter
      /\ \A o \in Message : o # m => member'[o] = member[o]
  BY <1>1, <1>3, MatterTypes DEF MattersInv, TypeOK
<1>7. /\ matter' \in [Matter -> {"none", "visible", "hidden"}] /\ matter'[k] # "none"
      /\ \A j \in Matter : matter[j] # "none" => matter'[j] = matter[j]
      /\ matter[k] = "none" => matter'[k] = "visible"
  BY <1>1, <1>3 DEF MattersInv, TypeOK
<1>8. OvertakenExcused' /\ excused \subseteq excused'
  BY <1>2, ExcuseKeeps DEF MattersInv
<1>9. excused' \subseteq Message
  <2>1. Overtaken' \subseteq Message
    BY <1>4, <1>5, <1>3 DEF Overtaken, Choosers, OthersStand, MattersInv, TasksHold, Working
  <2> QED
    BY <1>2, <2>1 DEF Excuse, MattersInv, TypeOK
<1>10. /\ view' \in Views /\ ViewHolds' /\ view'.k = view.k /\ view'.sees = view.sees
  BY <1>1, BumpKeeps
<1> HIDE DEF m
<1>11. finalize' \in BOOLEAN
  BY <1>2
<1>12. TypeOK'
  BY <1>2, <1>5, <1>6, <1>7, <1>9, <1>10, <1>11 DEF MattersInv, TypeOK
<1>13. TasksHold'
  BY <1>2, <1>3, <1>4, <1>5, MovedTasks DEF MattersInv
<1>14. MattersExist'
  <2>1. \A o \in Message : member'[o] # NoMatter => member'[o] \in Matter /\ matter'[member'[o]] # "none"
    BY <1>3, <1>6, <1>7 DEF MattersInv, MattersExist, TypeOK
  <2> QED
    BY <2>1, <1>7, <1>10, MattersRemain
<1>15. LockedArePlaced'
  BY <1>2, <1>6 DEF MattersInv, LockedArePlaced, TypeOK
<1>16. SeparatedDiffer'
  BY <1>2 DEF MattersInv, SeparatedDiffer
<1>17. UnderstoodIsPlaced'
  BY <1>2, <1>5, <1>6, <1>8 DEF MattersInv, UnderstoodIsPlaced, OthersStand, m
<1>18. NothingHidden'
  <2> SUFFICES ASSUME NEW o \in Message, o \notin trashed, o \notin excused', member'[o] # NoMatter
               PROVE  member'[o] \in Matter /\ matter'[member'[o]] = "visible"
    BY <1>2 DEF NothingHidden, Visible
  <2>1. o \notin excused
    BY <1>8
  <2>2. CASE o # m
    BY <2>1, <2>2, <1>6, <1>7 DEF MattersInv, NothingHidden, Visible
  <2>3. CASE o = m
    <3>1. CASE m \in locked /\ k = member[m]
      BY <3>1, <2>1, <2>3, <1>6, <1>7 DEF MattersInv, NothingHidden, Visible
    <3>2. CASE k \in Visible
      BY <3>2, <2>3, <1>6, <1>7 DEF Visible
    <3>3. CASE k \in New
      BY <3>3, <2>3, <1>3, <1>6, <1>7, NewIsEmpty
    <3> QED
      BY <3>1, <3>2, <3>3, <2>1, <2>3, <1>3
  <2> QED
    BY <2>2, <2>3
<1>19. Organised'
  BY <1>2, <1>5, <1>6, <1>8 DEF MattersInv, Organised, Organizing, OthersStand, m
<1> QED
  BY <1>8, <1>10, <1>12, <1>13, <1>14, <1>15, <1>16, <1>17, <1>18, <1>19 DEF MattersInv

LEMMA MergeKeeps ==
    ASSUME MattersInv, NEW w \in Workers, Merge(w) PROVE MattersInv'
<1> DEFINE a == task[w].from
           b == task[w].to
           t == [Idle EXCEPT !.pc = "pair"]
<1>1. /\ UNCHANGED <<sem, revised, locked, separated, trashed, queued, finalize, deletes,
                     requeue, events, faults>>
      /\ task[w].pc = "merge" /\ task' = [task EXCEPT ![w] = t]
      /\ a # b /\ a \in Matter /\ b \in Matter
  BY DEF Merge, jobs, bounds, MattersInv, TasksHold
<1>2. t \in Tasks /\ t.pc = "pair" /\ t.m = NoMessage
  BY MatterTypes DEF Tasks, Idle
<1> HIDE DEF t
<1>3. task' \in [Workers -> Tasks] /\ task'[w] = t /\ OthersStand(w)
  BY <1>1, <1>2, TypedMove DEF MattersInv, OthersStand
<1>4. CASE UNCHANGED <<member, matter, view, excused>>
  <2>1. TypeOK'
    BY <1>1, <1>3, <1>4 DEF MattersInv, TypeOK
  <2>2. UnderstoodIsPlaced' /\ Organised'
    BY <1>1, <1>3, <1>4, MovedClaims DEF MattersInv, Working
  <2> QED
    BY <1>1, <1>2, <1>4, <2>1, <2>2, WorkerMoves DEF Working
<1>5. CASE /\ MayMerge(a, b)
           /\ member' = [m \in Message |-> IF member[m] = a THEN b ELSE member[m]]
           /\ Retire(a, b)
           /\ Excuse({})
  <2>1. OvertakenExcused' /\ excused \subseteq excused'
    BY <1>5, ExcuseKeeps DEF MattersInv
  <2>2. TasksHold'
    BY <1>1, <1>2, <1>3, MovedTasks DEF MattersInv, Working
  <2>3. excused' \subseteq Message
    <3>1. Overtaken' \subseteq Message
      BY <2>2 DEF Overtaken, Choosers, TasksHold, Working
    <3> QED
      BY <3>1, <1>5 DEF Excuse, MattersInv, TypeOK
  <2>4. /\ view' \in Views /\ ViewHolds' /\ view'.k = view.k /\ view'.sees = view.sees
    BY <1>5, BumpKeeps DEF Retire
  <2>5. /\ matter' = [matter EXCEPT ![a] = "hidden"]
        /\ matter[a] = "visible" /\ matter[b] = "visible"
    BY <1>5 DEF Retire, MayMerge, Visible
  <2> HIDE DEF a, b
  <2>6. /\ matter' \in [Matter -> {"none", "visible", "hidden"}]
        /\ matter'[b] = "visible" /\ matter'[a] = "hidden"
        /\ \A j \in Matter : j # a => matter'[j] = matter[j]
    BY <1>1, <2>5 DEF MattersInv, TypeOK
  <2>7. /\ member' \in [Message -> Matter \cup {NoMatter}]
        /\ \A m \in Message : member[m] = a => member'[m] = b
        /\ \A m \in Message : member[m] # a => member'[m] = member[m]
        /\ a # NoMatter /\ b # NoMatter
    BY <1>1, <1>5, MatterTypes DEF MattersInv, TypeOK
  <2>8. TypeOK'
    BY <1>1, <1>3, <2>3, <2>4, <2>6, <2>7 DEF MattersInv, TypeOK
  <2>9. MattersExist'
    <3>1. \A o \in Message : member'[o] # NoMatter => member'[o] \in Matter /\ matter'[member'[o]] # "none"
      BY <1>1, <2>6, <2>7 DEF MattersInv, MattersExist, TypeOK
    <3>2. \A k \in Matter : matter[k] # "none" => matter'[k] # "none"
      BY <2>6
    <3> QED
      BY <3>1, <3>2, <2>4, MattersRemain
  <2>10. LockedArePlaced'
    BY <1>1, <2>7 DEF MattersInv, LockedArePlaced, TypeOK
  <2>11. SeparatedDiffer'
    BY <1>1 DEF MattersInv, SeparatedDiffer
  <2>12. UnderstoodIsPlaced'
    BY <1>1, <1>3, <2>1, <2>7 DEF MattersInv, UnderstoodIsPlaced, OthersStand
  <2>13. NothingHidden'
    <3> SUFFICES ASSUME NEW o \in Message, o \notin trashed, o \notin excused', member'[o] # NoMatter
                 PROVE  member'[o] \in Matter /\ matter'[member'[o]] = "visible"
      BY <1>1 DEF NothingHidden, Visible
    <3>1. CASE member[o] = a
      BY <3>1, <1>1, <2>6, <2>7
    <3>2. CASE member[o] # a
      BY <3>2, <2>1, <2>6, <2>7 DEF MattersInv, NothingHidden, Visible
    <3> QED
      BY <3>1, <3>2
  <2>14. Organised'
    BY <1>1, <1>3, <2>1, <2>7 DEF MattersInv, Organised, Organizing, OthersStand, Working
  <2> QED
    BY <2>1, <2>2, <2>4, <2>8, <2>9, <2>10, <2>11, <2>12, <2>13, <2>14 DEF MattersInv
<1> QED
  BY <1>4, <1>5 DEF Merge

(* What a step of the user, of the matter k, may do with messages.         *)
LEMMA HideKeeps ==
    ASSUME MattersInv, NEW w \in Workers, Hide(w) PROVE MattersInv'
<1> DEFINE k == task[w].from
<1>1. /\ UNCHANGED <<sem, revised, member, locked, separated, trashed, queued, finalize, deletes,
                     requeue, events, faults>>
      /\ task[w].pc = "hide" /\ Stop(w) /\ Excuse(Members(k) \ task[w].ms)
      /\ matter' = [matter EXCEPT ![k] = "hidden"]
      /\ Bump(IF k \in Visible THEN {k} ELSE {})
  BY DEF Hide, members, jobs, bounds
<1>2. k \in Matter /\ task[w].ms \subseteq trashed
  BY <1>1 DEF MattersInv, TasksHold
<1>3. task' \in [Workers -> Tasks] /\ OthersStand(w) /\ task'[w].pc = "idle" /\ task'[w].m = NoMessage
  BY <1>1, StopTasks
<1>4. OvertakenExcused' /\ excused \subseteq excused' /\ Members(k) \ task[w].ms \subseteq excused'
  BY <1>1, ExcuseKeeps DEF MattersInv
<1>5. TasksHold'
  BY <1>1, <1>3, MovedTasks DEF MattersInv, Working
<1>6. excused' \subseteq Message
  <2>1. Overtaken' \subseteq Message
    BY <1>5 DEF Overtaken, Choosers, TasksHold, Working
  <2> QED
    BY <2>1, <1>1 DEF Excuse, Members, MattersInv, TypeOK
<1>7. /\ view' \in Views /\ ViewHolds' /\ view'.k = view.k /\ view'.sees = view.sees
  BY <1>1, BumpKeeps
<1> HIDE DEF k
<1>8. /\ matter' \in [Matter -> {"none", "visible", "hidden"}] /\ matter'[k] = "hidden"
      /\ \A j \in Matter : j # k => matter'[j] = matter[j]
  BY <1>1, <1>2 DEF MattersInv, TypeOK
<1>9. TypeOK'
  BY <1>1, <1>3, <1>6, <1>7, <1>8 DEF MattersInv, TypeOK
<1>10. MattersExist'
  <2>1. \A j \in Matter : matter[j] # "none" => matter'[j] # "none"
    BY <1>8
  <2>2. \A o \in Message : member'[o] # NoMatter => member'[o] \in Matter /\ matter'[member'[o]] # "none"
    BY <2>1, <1>1 DEF MattersInv, MattersExist, TypeOK
  <2> QED
    BY <2>1, <2>2, <1>7, MattersRemain
<1>11. LockedArePlaced' /\ SeparatedDiffer'
  BY <1>1 DEF MattersInv, LockedArePlaced, SeparatedDiffer
<1>12. UnderstoodIsPlaced' /\ Organised'
  BY <1>1, <1>3, <1>4, MovedClaims DEF MattersInv, Working
<1>13. NothingHidden'
  <2> SUFFICES ASSUME NEW o \in Message, o \notin trashed, o \notin excused', member[o] # NoMatter
               PROVE  member[o] \in Matter /\ matter'[member[o]] = "visible"
    BY <1>1 DEF NothingHidden, Visible
  <2>1. member[o] \in Visible
    BY <1>4 DEF MattersInv, NothingHidden
  <2>2. member[o] # k
    BY <1>2, <1>4 DEF Members
  <2> QED
    BY <2>1, <2>2, <1>8 DEF Visible
<1> QED
  BY <1>4, <1>5, <1>7, <1>9, <1>10, <1>11, <1>12, <1>13 DEF MattersInv

LEMMA SeparateKeeps ==
    ASSUME MattersInv, NEW ms \in SUBSET view.ms, Separate(ms) PROVE MattersInv'
<1> DEFINE k == view.k
           stay == Members(k) \ ms
           gone == Still(ms)
<1>1. /\ UNCHANGED <<revised, trashed, queued, finalize, deletes, task>>
      /\ view' = NoView /\ view.fresh /\ Event /\ Excuse({})
      /\ member' = [m \in Message |-> IF m \in gone THEN NoMatter ELSE member[m]]
      /\ locked' = locked \ gone
      /\ sem' = [m \in Message |-> IF m \in ms THEN "failed" ELSE sem[m]]
      /\ separated' = separated \cup (ms \X stay)
      /\ matter' = [matter EXCEPT ![k] = IF stay = {} THEN "hidden" ELSE "visible"]
      /\ requeue' = requeue \cup ms
  BY DEF Separate, Decide, jobs
<1>2. k \in Matter /\ ms \subseteq Message /\ stay \subseteq Message \ ms /\ gone = ms \cap Members(k)
  BY <1>1 DEF MattersInv, ViewHolds, TypeOK, Views, Members, Still
<1>3. \A m \in Message : member[m] = k <=> m \in stay \cup gone
  BY <1>2 DEF Members
<1>4. events' \in 0..MaxEvents /\ faults' = faults
  BY <1>1, EventTypes
<1>5. OvertakenExcused' /\ excused \subseteq excused'
  BY <1>1, ExcuseKeeps DEF MattersInv
<1>6. TasksHold'
  BY <1>1 DEF MattersInv, TasksHold
<1>7. excused' \subseteq Message
  <2>1. Overtaken' \subseteq Message
    BY <1>6 DEF Overtaken, Choosers, TasksHold, Working
  <2> QED
    BY <2>1, <1>1 DEF Excuse, MattersInv, TypeOK
<1> HIDE DEF k, stay, gone
<1>8. /\ matter' \in [Matter -> {"none", "visible", "hidden"}]
      /\ matter'[k] # "none"
      /\ stay # {} => matter'[k] = "visible"
      /\ \A j \in Matter : j # k => matter'[j] = matter[j]
  BY <1>1, <1>2 DEF MattersInv, TypeOK
<1>9. /\ member' \in [Message -> Matter \cup {NoMatter}]
      /\ \A m \in gone : member'[m] = NoMatter
      /\ \A m \in Message \ gone : member'[m] = member[m]
  BY <1>1, <1>2 DEF MattersInv, TypeOK
<1>10. view' \in Views /\ ViewHolds'
  BY <1>1, MatterTypes DEF ViewHolds, NoView
<1>11. TypeOK'
  <2>1. sem' \in [Message -> {"none", "processing", "ready", "failed"}]
    BY <1>1 DEF MattersInv, TypeOK
  <2>2. separated' \subseteq Message \X Message
    BY <1>1, <1>2 DEF MattersInv, TypeOK
  <2> QED
    BY <1>1, <1>2, <1>4, <1>7, <1>8, <1>9, <1>10, <2>1, <2>2 DEF MattersInv, TypeOK
<1>12. MattersExist'
  <2>1. \A j \in Matter : matter[j] # "none" => matter'[j] # "none"
    BY <1>8
  <2>2. \A o \in Message : member'[o] # NoMatter => member'[o] \in Matter /\ matter'[member'[o]] # "none"
    BY <2>1, <1>9 DEF MattersInv, MattersExist, TypeOK
  <2>3. view'.k = NoMatter /\ view'.sees = {}
    BY <1>1 DEF NoView
  <2> QED
    BY <2>1, <2>2, <2>3, MattersRemain
<1>13. LockedArePlaced'
  BY <1>1, <1>9 DEF MattersInv, LockedArePlaced, TypeOK
<1>14. SeparatedDiffer'
  BY <1>1, <1>2 DEF MattersInv, SeparatedDiffer
<1>15. UnderstoodIsPlaced'
  BY <1>1, <1>2, <1>5, <1>9 DEF MattersInv, UnderstoodIsPlaced
<1>16. NothingHidden'
  <2> SUFFICES ASSUME NEW o \in Message, o \notin trashed, o \notin excused', member'[o] # NoMatter
               PROVE  member'[o] \in Matter /\ matter'[member'[o]] = "visible"
    BY <1>1 DEF NothingHidden, Visible
  <2>1. o \notin gone /\ member'[o] = member[o]
    BY <1>9
  <2>2. member[o] \in Visible
    BY <1>5, <2>1 DEF MattersInv, NothingHidden
  <2>3. CASE member[o] = k
    BY <2>1, <2>3, <1>2, <1>3, <1>8
  <2>4. CASE member[o] # k
    BY <2>1, <2>2, <2>4, <1>8 DEF Visible
  <2> QED
    BY <2>3, <2>4
<1>17. Organised'
  <2> SUFFICES ASSUME NEW o \in Message, o \notin trashed, o \notin excused', member'[o] = NoMatter
               PROVE  o \in queued \cup requeue' \/ \E v \in Workers : task[v].m = o /\ task[v].pc \in Working
    BY <1>1 DEF Organised, Organizing
  <2>1. CASE o \in gone
    BY <2>1, <1>1, <1>2
  <2>2. CASE o \notin gone
    BY <2>2, <1>1, <1>5, <1>9 DEF MattersInv, Organised, Organizing
  <2> QED
    BY <2>1, <2>2
<1> QED
  BY <1>5, <1>6, <1>10, <1>11, <1>12, <1>13, <1>14, <1>15, <1>16, <1>17 DEF MattersInv

LEMMA MoveKeeps ==
    ASSUME MattersInv, NEW ms \in SUBSET view.ms, NEW to \in Matter, Move(ms, to) PROVE MattersInv'
<1> DEFINE k == view.k
           moved == IF ms = {} THEN Members(k) ELSE ms \cap Members(k)
<1>1. /\ UNCHANGED <<sem, revised, separated, trashed, queued, finalize, deletes, requeue, task>>
      /\ view' = NoView /\ view.fresh /\ Event /\ Excuse(IF to \in Visible THEN {} ELSE moved)
      /\ to \in view.sees /\ to # k
      /\ member' = [m \in Message |-> IF m \in moved THEN to ELSE member[m]]
      /\ locked' = locked \cup moved
      /\ matter' = [matter EXCEPT ![k] = IF Members(k) = moved THEN "hidden" ELSE "visible"]
  BY DEF Move, Decide, jobs
<1>2. k \in Matter /\ moved \subseteq Members(k) /\ Members(k) \subseteq Message
  BY <1>1 DEF MattersInv, ViewHolds, Members
<1>3. \A m \in Message : member[m] = k <=> m \in Members(k)
  BY DEF Members
<1>4. events' \in 0..MaxEvents /\ faults' = faults
  BY <1>1, EventTypes
<1>5. OvertakenExcused' /\ excused \subseteq excused' /\ (to \notin Visible => moved \subseteq excused')
  BY <1>1, ExcuseKeeps DEF MattersInv
<1>6. TasksHold'
  BY <1>1 DEF MattersInv, TasksHold
<1> HIDE DEF k, moved
<1>7. excused' \subseteq Message
  <2>1. Overtaken' \subseteq Message
    BY <1>6 DEF Overtaken, Choosers, TasksHold, Working
  <2> QED
    BY <2>1, <1>1, <1>2 DEF Excuse, MattersInv, TypeOK
<1>8. /\ matter' \in [Matter -> {"none", "visible", "hidden"}]
      /\ matter'[k] # "none"
      /\ Members(k) # moved => matter'[k] = "visible"
      /\ \A j \in Matter : j # k => matter'[j] = matter[j]
  BY <1>1, <1>2 DEF MattersInv, TypeOK
<1>9. /\ member' \in [Message -> Matter \cup {NoMatter}]
      /\ \A m \in moved : member'[m] = to
      /\ \A m \in Message \ moved : member'[m] = member[m]
  BY <1>1, <1>2 DEF MattersInv, TypeOK
<1>10. view' \in Views /\ ViewHolds'
  BY <1>1, MatterTypes DEF ViewHolds, NoView
<1>11. TypeOK'
  BY <1>1, <1>2, <1>4, <1>7, <1>8, <1>9, <1>10 DEF MattersInv, TypeOK
<1>12. matter[to] # "none"
  BY <1>1 DEF MattersInv, MattersExist
<1>13. MattersExist'
  <2>1. \A j \in Matter : matter[j] # "none" => matter'[j] # "none"
    BY <1>8
  <2>2. \A o \in Message : member'[o] # NoMatter => member'[o] \in Matter /\ matter'[member'[o]] # "none"
    BY <2>1, <1>9, <1>12 DEF MattersInv, MattersExist, TypeOK
  <2>3. view'.k = NoMatter /\ view'.sees = {}
    BY <1>1 DEF NoView
  <2> QED
    BY <2>1, <2>2, <2>3, MattersRemain
<1>14. LockedArePlaced'
  BY <1>1, <1>9, MatterTypes DEF MattersInv, LockedArePlaced, TypeOK
<1>15. SeparatedDiffer'
  BY <1>1 DEF MattersInv, SeparatedDiffer
<1>16. \A o \in Message : member'[o] = NoMatter => member[o] = NoMatter
  BY <1>9, MatterTypes
<1>17. UnderstoodIsPlaced'
  BY <1>1, <1>5, <1>16 DEF MattersInv, UnderstoodIsPlaced
<1>18. NothingHidden'
  <2> SUFFICES ASSUME NEW o \in Message, o \notin trashed, o \notin excused', member'[o] # NoMatter
               PROVE  member'[o] \in Matter /\ matter'[member'[o]] = "visible"
    BY <1>1 DEF NothingHidden, Visible
  <2>1. CASE o \in moved
    BY <2>1, <1>1, <1>5, <1>8, <1>9 DEF Visible
  <2>2. CASE o \notin moved
    <3>1. member'[o] = member[o] /\ member[o] \in Visible
      BY <2>2, <1>5, <1>9 DEF MattersInv, NothingHidden
    <3>2. CASE member[o] = k
      <4>1. o \in Members(k)
        BY <3>2, <1>3
      <4> QED
        BY <4>1, <2>2, <3>1, <3>2, <1>2, <1>8
    <3>3. CASE member[o] # k
      BY <3>1, <3>3, <1>8 DEF Visible
    <3> QED
      BY <3>2, <3>3
  <2> QED
    BY <2>1, <2>2
<1>19. Organised'
  BY <1>1, <1>5, <1>16 DEF MattersInv, Organised, Organizing
<1> QED
  BY <1>5, <1>6, <1>10, <1>11, <1>13, <1>14, <1>15, <1>17, <1>18, <1>19 DEF MattersInv

LEMMA MattersStep == MattersInv /\ [Next]_vars => MattersInv'
<1> SUFFICES ASSUME MattersInv, [Next]_vars PROVE MattersInv'
  OBVIOUS
<1>1. ASSUME NEW w \in Workers, Organise(w) \/ Reconcile(w) \/ Delete(w) \/ Fail(w) \/ Die(w)
      PROVE  MattersInv'
  <2>1. CASE Organise(w)
    BY <2>1, BeginKeeps, ChooseKeeps, CompleteKeeps, AssignKeeps, DoneKeeps DEF Organise
  <2>2. CASE Reconcile(w)
    BY <2>2, BeginFinalizeKeeps, PickKeeps, MergeKeeps DEF Reconcile
  <2>3. CASE Delete(w)
    BY <2>3, BeginDeleteKeeps, TrashAllKeeps, HideKeeps DEF Delete
  <2> QED
    BY <1>1, <2>1, <2>2, <2>3, FailKeeps, DieKeeps
<1>2. CASE User
  <2>1. ASSUME NEW ms \in SUBSET view.ms, Confirm(ms) \/ Separate(ms) \/ \E to \in Matter : Move(ms, to)
        PROVE  MattersInv'
    BY <2>1, ConfirmKeeps, SeparateKeeps, MoveKeeps
  <2> QED
    BY <1>2, <2>1, LookKeeps, ConflictKeeps, TrashKeeps, RequestDiesKeeps, RequeueKeeps, ReviseKeeps DEF User
<1>3. CASE UNCHANGED vars
  <2>1. UNCHANGED <<sem, revised, member, locked, matter, separated, trashed, queued, finalize,
                    deletes, requeue, task, view, excused, events, faults>>
    BY <1>3 DEF vars, members, jobs, bounds
  <2>2. TypeOK'
    BY <2>1 DEF MattersInv, TypeOK
  <2>3. ViewHolds' /\ MattersExist' /\ LockedArePlaced'
    BY <2>1 DEF MattersInv, ViewHolds, MattersExist, LockedArePlaced
  <2>4. UnderstoodIsPlaced' /\ Organised'
    BY <2>1, StandingClaims DEF MattersInv
  <2> QED
    BY <2>1, <2>2, <2>3, <2>4, UserKeeps
<1> QED
  BY <1>1, <1>2, <1>3 DEF Next

-----------------------------------------------------------------------------
(* The theorems about the matters.                                         *)

(* What the user decided stands in every step: a locked message is moved   *)
(* by no worker, and two separated messages come together only by a choice *)
(* that the separation overtook.                                           *)
Stands == \A m \in locked : (member'[m] = member[m] /\ m \in locked') \/ ByUser
Apart ==
    \A p \in separated :
       Together(member', p[1], p[2]) /\ ~Together(member, p[1], p[2])
         => ByUser \/ p[1] \in excused' \/ p[2] \in excused'

LEMMA StillStands ==
    ASSUME UNCHANGED member, locked \subseteq locked' PROVE Stands /\ Apart
  BY DEF Stands, Apart, Together

LEMMA AssignStands ==
    ASSUME MattersInv, NEW w \in Workers, Assign(w) PROVE Stands /\ Apart
<1> DEFINE m == task[w].m
<1>1. PICK k \in IF Target(m, task[w].to) # NoMatter THEN {Target(m, task[w].to)} ELSE New :
         member' = [member EXCEPT ![m] = k]
  BY DEF Assign
<1>2. UNCHANGED <<locked, separated>> /\ task[w].pc = "assign" /\ excused \subseteq excused'
  BY DEF Assign, Excuse
<1>3. /\ m \in Message /\ k \in Matter
      /\ \/ m \in locked /\ k = member[m]
         \/ m \notin locked /\ \A o \in Message : member[o] = k =>
                                 <<m, o>> \notin separated /\ <<o, m>> \notin separated
         \/ m \notin locked /\ m \in excused
         \/ m \notin locked /\ k \in New
  BY <1>1, <1>2, Landing
<1> HIDE DEF m
<1>4. /\ member'[m] = k /\ \A o \in Message : o # m => member'[o] = member[o]
      /\ locked \subseteq Message
  BY <1>1, <1>3 DEF MattersInv, TypeOK
<1>5. Stands
  BY <1>2, <1>3, <1>4 DEF Stands
<1>6. Apart
  <2> SUFFICES ASSUME NEW p \in separated, Together(member', p[1], p[2]), ~Together(member, p[1], p[2])
               PROVE  p[1] \in excused' \/ p[2] \in excused'
    BY DEF Apart
  <2>1. /\ p[1] \in Message /\ p[2] \in Message /\ p = <<p[1], p[2]>> /\ p[1] # p[2]
        /\ <<p[1], p[2]>> \in separated
    BY DEF MattersInv, TypeOK, SeparatedDiffer
  <2>2. CASE p[1] # m /\ p[2] # m
    BY <2>1, <2>2, <1>4 DEF Together
  <2>3. CASE p[1] = m
    <3>1. member[p[2]] = k
      BY <2>1, <2>3, <1>4 DEF Together
    <3>2. CASE m \in locked /\ k = member[m]
      BY <3>1, <3>2, <2>1, <2>3, <1>4 DEF Together
    <3>3. CASE k \in New
      BY <3>1, <3>3, <2>1, NewIsEmpty
    <3> QED
      BY <3>1, <3>2, <3>3, <2>1, <2>3, <1>2, <1>3
  <2>4. CASE p[2] = m
    <3>1. member[p[1]] = k
      BY <2>1, <2>4, <1>4 DEF Together
    <3>2. CASE m \in locked /\ k = member[m]
      BY <3>1, <3>2, <2>1, <2>4, <1>4 DEF Together
    <3>3. CASE k \in New
      BY <3>1, <3>3, <2>1, NewIsEmpty
    <3> QED
      BY <3>1, <3>2, <3>3, <2>1, <2>4, <1>2, <1>3
  <2> QED
    BY <2>2, <2>3, <2>4
<1> QED
  BY <1>5, <1>6

LEMMA MergeStands ==
    ASSUME MattersInv, NEW w \in Workers, Merge(w) PROVE Stands /\ Apart
<1> DEFINE a == task[w].from
           b == task[w].to
<1>1. UNCHANGED <<locked,
                  separated>> /\ a # b /\ a \in Matter /\ b \in Matter /\ locked \subseteq Message
  BY DEF Merge, MattersInv, TasksHold, TypeOK
<1>2. CASE UNCHANGED <<member, matter, view, excused>>
  BY <1>1, <1>2, StillStands
<1>3. CASE /\ MayMerge(a, b)
           /\ member' = [m \in Message |-> IF member[m] = a THEN b ELSE member[m]]
  <2>1. /\ \A m \in locked : member[m] # a
        /\ \A m, o \in Message : member[m] = a /\ member[o] = b
                                   => <<m, o>> \notin separated /\ <<o, m>> \notin separated
    BY <1>1, <1>3 DEF MayMerge, HasLocked, Prohibited, Members, Partners
  <2> HIDE DEF a, b
  <2>2. Stands
    BY <1>1, <1>3, <2>1 DEF Stands
  <2>3. Apart
    <3> SUFFICES ASSUME NEW p \in separated, Together(member', p[1], p[2]), ~Together(member, p[1], p[2])
                 PROVE  FALSE
      BY DEF Apart
    <3>1. /\ p[1] \in Message /\ p[2] \in Message /\ <<p[1], p[2]>> \in separated
      BY DEF MattersInv, TypeOK
    <3>2. a # NoMatter
      BY <1>1, MatterTypes
    <3>3. CASE member[p[1]] = a
      BY <3>1, <3>2, <3>3, <1>3, <2>1 DEF Together
    <3>4. CASE member[p[1]] # a
      BY <3>1, <3>4, <1>3, <2>1 DEF Together
    <3> QED
      BY <3>3, <3>4
  <2> QED
    BY <2>2, <2>3
<1> QED
  BY <1>2, <1>3 DEF Merge

(* A step of the user closes the screen; the last word is the user's.      *)
LEMMA UserStands ==
    ASSUME MattersInv, Decide PROVE Stands /\ Apart
<1>1. ByUser
  BY DEF ByUser, Decide, NoView
<1> QED
  BY <1>1 DEF Stands, Apart

LEMMA MattersStand == MattersInv /\ [Next]_vars => Stands /\ Apart
<1> SUFFICES ASSUME MattersInv, [Next]_vars PROVE Stands /\ Apart
  OBVIOUS
<1>1. ASSUME NEW w \in Workers, Organise(w) \/ Reconcile(w) \/ Delete(w) \/ Fail(w) \/ Die(w)
      PROVE  Stands /\ Apart
  <2>1. CASE Organise(w)
    <3>1. ASSUME NEW m \in Message, Begin(w, m) PROVE Stands /\ Apart
      BY <3>1, StillStands DEF Begin, members
    <3>2. CASE Choose(w) \/ Complete(w) \/ Done(w)
      BY <3>2, StillStands DEF Choose, Complete, Done, members
    <3> QED
      BY <2>1, <3>1, <3>2, AssignStands DEF Organise
  <2>2. CASE Reconcile(w)
    <3>1. CASE BeginFinalize(w) \/ Pick(w)
      BY <3>1, StillStands DEF BeginFinalize, Pick, members
    <3> QED
      BY <2>2, <3>1, MergeStands DEF Reconcile
  <2>3. CASE Delete(w)
    BY <2>3, StillStands DEF Delete, BeginDelete, TrashAll, Hide, members
  <2>4. CASE Fail(w) \/ Die(w)
    BY <2>4, StillStands DEF Fail, Die, members
  <2> QED
    BY <1>1, <2>1, <2>2, <2>3, <2>4
<1>2. CASE User
  <2>1. ASSUME NEW ms \in SUBSET view.ms, Confirm(ms) \/ Separate(ms) \/ \E to \in Matter : Move(ms, to)
        PROVE  Stands /\ Apart
    BY <2>1, UserStands DEF Confirm, Separate, Move
  <2>2. CASE Trash
    BY <2>2, UserStands DEF Trash
  <2>3. CASE Conflict \/ RequestDies \/ \E k \in Matter : Look(k)
    BY <2>3, StillStands DEF Conflict, RequestDies, Look, members
  <2>4. CASE \E m \in Message : Requeue(m) \/ Revise(m)
    BY <2>4, StillStands DEF Requeue, Revise, members
  <2> QED
    BY <1>2, <2>1, <2>2, <2>3, <2>4 DEF User
<1>3. CASE UNCHANGED vars
  BY <1>3, StillStands DEF vars, members
<1> QED
  BY <1>1, <1>2, <1>3 DEF Next

LEMMA MattersInvariant == Spec => []MattersInv
<1> QED
  BY MattersInvInitially, MattersStep, PTL DEF Spec

(* No message is lost: one that is in no matter is queued, about to be, or *)
(* in a worker's hands, and one that is in a matter is in a visible one,   *)
(* however organising, reconciliation, decisions and deletions interleave. *)
(* Only those are excused whose choice an event overtook, whose job was    *)
(* given up or whose worker or request died between two of its steps.      *)
THEOREM MessagesAreKept == Spec => []EveryMessageIsPlaced
<1>1. MattersInv => EveryMessageIsPlaced
  BY DEF MattersInv, EveryMessageIsPlaced
<1> QED
  BY <1>1, MattersInvariant, PTL

(* What the user decided stands: no worker takes a confirmed or moved      *)
(* message out of its matter, nor puts separated messages together, unless *)
(* the separation overtook a choice that was made before it.               *)
THEOREM TheUserIsRight == Spec => CorrectionsHold
<1>1. MattersInv /\ [Next]_vars => [Stands]_vars /\ [Apart]_vars
  BY MattersStand
<1>2. Spec => [][Stands]_vars /\ [][Apart]_vars
  BY <1>1, MattersInvariant, PTL DEF Spec
<1>3. DecisionsStand <=> [][Stands]_vars
  BY DEF DecisionsStand, Stands
<1>4. NeverRecombined <=> [][Apart]_vars
  BY DEF NeverRecombined, Apart
<1> QED
  BY <1>2, <1>3, <1>4 DEF CorrectionsHold

-----------------------------------------------------------------------------
(* The to-dos.                                                             *)

(* The to-dos: types, what a worker holds, and what it read.               *)
TodoRows == [of : T!Subgoals, open : BOOLEAN]
TodoItems == [shown : BOOLEAN, rev : Nat, touched : BOOLEAN, status : {"none", "open", "done"}]
TodoTasks == [pc : {"idle", "read", "context", "write"}, m : Message \cup {"none"}, rev : Nat,
              needs : BOOLEAN, keys : SUBSET T!Keys, current : BOOLEAN]

ItemsTyped ==
    /\ revision \in [Message -> Nat] /\ visible \subseteq Message /\ needy \subseteq Message
    /\ sub \in [Message -> [Names -> {T!NoGoal} \cup TodoRows]]
    /\ item \in [Message -> [T!Keys -> TodoItems]]

TasksTyped ==
    /\ owed \subseteq Message /\ todoQueue \subseteq Message /\ missed \subseteq Message
    /\ todoTask \in [Workers -> TodoTasks] /\ todoEvents \in Nat
    /\ \A w \in Workers :
         /\ todoTask[w].pc # "idle" => todoTask[w].m \in Message
         /\ todoTask[w].pc = "idle" => ~todoTask[w].current /\ todoTask[w].rev = 0

(* Whether an item of a matter exists and is the projection's to change.   *)
Free(m, k) == item[m][k] # T!NoItem /\ ~item[m][k].touched

(* A projection writes all free items under one revision, and one written  *)
(* under the present revision shows nothing that is finished.              *)
ItemsTrue ==
    /\ \A m \in Message : revision[m] >= 1
    /\ \A m \in Message, k \in T!Keys : item[m][k].rev <= revision[m]
    /\ \A m \in Message, k, j \in T!Keys : Free(m, k) /\ Free(m, j) => item[m][k].rev = item[m][j].rev
    /\ \A m \in Message, k \in T!Keys :
         Free(m, k) /\ item[m][k].rev = revision[m] /\ item[m][k].shown => ~T!Finished(m, k)

(* What a worker read under the present revision is still so.              *)
ReadsTrue ==
    \A w \in Workers :
      LET m == todoTask[w].m IN
      /\ m \in Message => todoTask[w].rev <= revision[m]
      /\ todoTask[w].pc \in {"context", "write"} /\ todoTask[w].rev = revision[m] =>
           todoTask[w].needs = T!NeedsYou(m)
      /\ todoTask[w].pc = "write" /\ todoTask[w].rev = revision[m] =>
           todoTask[w].keys = T!Sources(T!OpenSubgoals(m), T!NeedsYou(m))

(* One job of a matter is queued or runs, those whose lease lapsed apart.  *)
OneExtraction ==
    /\ \A v, w \in Workers :
         todoTask[v].current /\ todoTask[w].current /\ todoTask[v].m = todoTask[w].m => v = w
    /\ \A w \in Workers : todoTask[w].current => todoTask[w].m \notin todoQueue

(* An extraction that will see the matter as it is, or the wish for one    *)
(* that was lost.                                                          *)
Sees(w, m) ==
    /\ todoTask[w].m = m
    /\ todoTask[w].pc = "read" \/ (todoTask[w].pc \in {"context", "write"} /\ todoTask[w].rev = revision[m])
Looked(m) == m \in owed \cup todoQueue \cup missed \/ \E w \in Workers : Sees(w, m)

(* A projection about to overwrite a newer state is not the last one.      *)
OldReadsKnown ==
    \A w \in Workers :
      /\ todoTask[w].pc \in {"context", "write"} /\ todoTask[w].current
      /\ todoTask[w].m \in visible /\ todoTask[w].rev # revision[todoTask[w].m]
      => Looked(todoTask[w].m)

LeftOver(m, k) == item[m][k].shown /\ Free(m, k) /\ T!Finished(m, k)
LeftOversKnown == \A m \in visible, k \in T!Keys : LeftOver(m, k) => Looked(m)

TodosInv ==
    /\ ItemsTyped /\ TasksTyped /\ ItemsTrue /\ ReadsTrue /\ OneExtraction
    /\ OldReadsKnown /\ LeftOversKnown

LEMMA TodosInvInitially == T!Init => TodosInv
<1> SUFFICES ASSUME T!Init PROVE TodosInv
  OBVIOUS
<1> USE DEF T!Init, T!NoItem, T!NoGoal, T!Idle
<1>1. ItemsTyped
  BY DEF ItemsTyped, TodoItems
<1>2. TasksTyped
  BY DEF TasksTyped, TodoTasks
<1>3. ItemsTrue
  BY DEF ItemsTrue, Free
<1>4. ReadsTrue /\ OneExtraction /\ OldReadsKnown /\ LeftOversKnown
  BY DEF ReadsTrue, OneExtraction, OldReadsKnown, LeftOversKnown, LeftOver
<1> QED
  BY <1>1, <1>2, <1>3, <1>4 DEF TodosInv

(* The source actions of a matter depend on its subgoals and status only.  *)
LEMMA GoalsFrame ==
    ASSUME NEW m, UNCHANGED <<sub, needy>>
    PROVE  /\ T!NeedsYou(m)' = T!NeedsYou(m) /\ T!OpenSubgoals(m)' = T!OpenSubgoals(m)
           /\ \A k : T!Finished(m, k)' <=> T!Finished(m, k)
<1>1. T!Open(m)' = T!Open(m)
  BY DEF T!Open
<1>2. T!NeedsYou(m)' = T!NeedsYou(m)
  BY DEF T!NeedsYou
<1>3. T!OpenSubgoals(m)' = T!OpenSubgoals(m)
  BY <1>1 DEF T!OpenSubgoals
<1>4. \A k : T!Finished(m, k)' <=> T!Finished(m, k)
  BY <1>2, <1>3 DEF T!Finished, T!Sources, T!Whole
<1> QED
  BY <1>2, <1>3, <1>4

(* What a step does not touch it does not disturb.                         *)
LEMMA ItemsFrame ==
    ASSUME ItemsTyped, ItemsTrue, UNCHANGED <<revision, visible, sub, needy, item>>
    PROVE  ItemsTyped' /\ ItemsTrue'
<1>1. ItemsTyped'
  BY DEF ItemsTyped
<1>2. ItemsTrue'
  <2>1. \A m, k : T!Finished(m, k)' <=> T!Finished(m, k)
    BY GoalsFrame
  <2> QED
    BY <2>1 DEF ItemsTrue, Free, T!NoItem, T!Keys, T!Subgoals, T!Whole
<1> QED
  BY <1>1, <1>2

LEMMA LeftOverFrame ==
    ASSUME UNCHANGED <<sub, needy, item>>, NEW m, NEW k
    PROVE  LeftOver(m, k)' <=> LeftOver(m, k)
  BY GoalsFrame DEF LeftOver, Free, T!NoItem

(* What a worker did not read anew is as it was.                           *)
Same(w) == todoTask'[w] = todoTask[w]
ReadTrue(w) ==
    LET m == todoTask[w].m IN
    /\ m \in Message => todoTask[w].rev <= revision[m]
    /\ todoTask[w].pc \in {"context", "write"} /\ todoTask[w].rev = revision[m] =>
         todoTask[w].needs = T!NeedsYou(m)
    /\ todoTask[w].pc = "write" /\ todoTask[w].rev = revision[m] =>
         todoTask[w].keys = T!Sources(T!OpenSubgoals(m), T!NeedsYou(m))

LEMMA ReadsTruePointwise == ReadsTrue <=> \A w \in Workers : ReadTrue(w)
  BY DEF ReadsTrue, ReadTrue

LEMMA ReadTrueFrame ==
    ASSUME UNCHANGED <<revision, sub, needy>>, NEW w, Same(w), ReadTrue(w)
    PROVE  ReadTrue(w)'
  BY GoalsFrame DEF Same, ReadTrue, T!Sources, T!Whole

Overdue(w) ==
    /\ todoTask[w].pc \in {"context", "write"} /\ todoTask[w].current
    /\ todoTask[w].m \in visible /\ todoTask[w].rev # revision[todoTask[w].m]

(* A step that changes no matter and no item, and keeps who will look.     *)
LEMMA QuietTodoStep ==
    ASSUME TodosInv, UNCHANGED <<revision, visible, sub, needy, item>>,
           TasksTyped', OneExtraction',
           \A w \in Workers : Same(w) \/ ReadTrue(w)',
           \A m \in Message : Looked(m) => Looked(m)',
           \A w \in Workers : Same(w) \/ ~Overdue(w)'
                              \/ (Overdue(w) /\ todoTask'[w].m = todoTask[w].m)
    PROVE  TodosInv'
<1>1. ItemsTyped' /\ ItemsTrue'
  BY ItemsFrame DEF TodosInv
<1>2. ReadsTrue'
  <2>1. \A w \in Workers : ReadTrue(w)'
    <3> SUFFICES ASSUME NEW w \in Workers, Same(w) PROVE ReadTrue(w)'
      OBVIOUS
    <3>1. ReadTrue(w)
      BY ReadsTruePointwise DEF TodosInv
    <3> QED
      BY <3>1, ReadTrueFrame
  <2>2. ReadsTrue' <=> \A w \in Workers : ReadTrue(w)'
    BY DEF ReadsTrue, ReadTrue
  <2> QED
    BY <2>1, <2>2
<1>3. OldReadsKnown'
  <2> SUFFICES ASSUME NEW w \in Workers, Overdue(w)' PROVE Looked(todoTask[w].m)'
    BY DEF OldReadsKnown, Overdue
  <2>1. Overdue(w) /\ todoTask'[w].m = todoTask[w].m
    BY DEF Same, Overdue
  <2>2. Looked(todoTask[w].m) /\ todoTask[w].m \in Message
    BY <2>1 DEF TodosInv, OldReadsKnown, Overdue, ItemsTyped
  <2>3. Looked(todoTask[w].m)' <=> \E m \in Message : m = todoTask[w].m /\ Looked(m)'
    BY <2>1, <2>2 DEF Looked, Sees
  <2> QED
    BY <2>1, <2>2, <2>3
<1>4. LeftOversKnown'
  <2> SUFFICES ASSUME NEW m \in visible', NEW k \in T!Keys', LeftOver(m, k)' PROVE Looked(m)'
    BY DEF LeftOversKnown
  <2>1. m \in visible /\ m \in Message /\ k \in T!Keys
    BY DEF TodosInv, ItemsTyped, T!Keys, T!Subgoals, T!Whole
  <2>2. LeftOver(m, k)
    BY LeftOverFrame
  <2> QED
    BY <2>1, <2>2 DEF TodosInv, LeftOversKnown
<1> QED
  BY <1>1, <1>2, <1>3, <1>4 DEF TodosInv

LEMMA SourcesAreKeys ==
    ASSUME TodosInv, NEW m \in Message, NEW needs
    PROVE  T!Sources(T!OpenSubgoals(m), needs) \in SUBSET T!Keys
<1>1. T!OpenSubgoals(m) \subseteq T!Subgoals
  BY DEF TodosInv, ItemsTyped, T!OpenSubgoals, T!Open, TodoRows, T!NoGoal
<1> QED
  BY <1>1 DEF T!Sources, T!Keys

(* Steps that only move jobs and workers.                                  *)
LEMMA AskTodos ==
    ASSUME TodosInv, NEW m \in Message, T!Ask(m)
    PROVE  TodosInv'
<1> USE DEF T!Ask, T!bounds, T!Held, T!Running, T!TooLate
<1>1. TasksTyped'
  BY DEF TodosInv, TasksTyped
<1>2. OneExtraction'
  BY DEF TodosInv, OneExtraction
<1>3. \A w \in Workers : Same(w)
  BY DEF Same
<1>4. ASSUME NEW n \in Message, Looked(n) PROVE Looked(n)'
  <2>1. CASE n # m
    BY <2>1, <1>4 DEF Looked, Sees
  <2>2. CASE n = m /\ m \notin todoQueue /\ T!Running(m) /\ ~T!TooLate(m)
    <3>1. PICK w \in Workers : todoTask[w].m = m /\ todoTask[w].current /\ todoTask[w].pc = "read"
      BY <2>2
    <3> QED
      BY <3>1, <2>2 DEF Looked, Sees
  <2>3. CASE n = m /\ ~(m \notin todoQueue /\ T!Running(m) /\ ~T!TooLate(m))
    BY <2>3 DEF Looked
  <2> QED
    BY <2>1, <2>2, <2>3
<1> QED
  BY <1>1, <1>2, <1>3, <1>4, QuietTodoStep

LEMMA DieOrganisingTodos ==
    ASSUME TodosInv, NEW m \in Message, T!DieOrganising(m)
    PROVE  TodosInv'
<1> USE DEF T!DieOrganising, T!Fault
<1>1. TasksTyped'
  BY DEF TodosInv, TasksTyped
<1>2. OneExtraction'
  BY DEF TodosInv, OneExtraction
<1>3. \A w \in Workers : Same(w)
  BY DEF Same
<1>4. ASSUME NEW n \in Message, Looked(n) PROVE Looked(n)'
  BY <1>4 DEF Looked, Sees
<1> QED
  BY <1>1, <1>2, <1>3, <1>4, QuietTodoStep

LEMMA ListTodos ==
    ASSUME TodosInv, T!List
    PROVE  TodosInv'
<1> USE DEF T!List, T!bounds
<1>0. T!Pending \subseteq Message
  BY DEF T!Pending, TodosInv, ItemsTyped
<1>1. TasksTyped'
  BY <1>0 DEF TodosInv, TasksTyped
<1>2. OneExtraction'
  BY DEF TodosInv, OneExtraction, T!Held, T!Running
<1>3. \A w \in Workers : Same(w)
  BY DEF Same
<1>4. ASSUME NEW n \in Message, Looked(n) PROVE Looked(n)'
  BY <1>4 DEF Looked, Sees
<1> QED
  BY <1>1, <1>2, <1>3, <1>4, QuietTodoStep

LEMMA ClaimTodos ==
    ASSUME TodosInv, NEW w \in Workers, NEW m \in Message, T!Claim(w, m)
    PROVE  TodosInv'
<1> USE DEF T!Claim, T!bounds
<1>0. /\ todoTask'[w] = [T!Idle EXCEPT !.pc = "read", !.m = m, !.current = TRUE]
      /\ \A v \in Workers : v # w => Same(v)
  BY DEF TodosInv, TasksTyped, Same
<1>1. TasksTyped'
  BY <1>0 DEF TodosInv, TasksTyped, TodoTasks, T!Idle, T!Keys
<1>2. OneExtraction'
  BY <1>0 DEF TodosInv, TasksTyped, OneExtraction, T!Idle, Same
<1>f. todoTask'[w].pc = "read" /\ todoTask'[w].rev = 0 /\ todoTask'[w].m = m
  BY <1>0 DEF T!Idle
<1>3. ReadTrue(w)' /\ ~Overdue(w)'
  <2>1. revision'[m] \in Nat
    BY DEF TodosInv, ItemsTyped
  <2> QED
    BY <1>f, <2>1 DEF ReadTrue, Overdue
<1>4. ASSUME NEW n \in Message, Looked(n) PROVE Looked(n)'
  <2>1. CASE n = m
    BY <2>1, <1>0 DEF Looked, Sees, T!Idle
  <2>2. CASE n # m
    BY <2>2, <1>0, <1>4 DEF Looked, Sees, Same
  <2> QED
    BY <2>1, <2>2
<1> QED
  BY <1>0, <1>1, <1>2, <1>3, <1>4, QuietTodoStep

LEMMA ReadMatterTodos ==
    ASSUME TodosInv, NEW w \in Workers, T!ReadMatter(w)
    PROVE  TodosInv'
<1> DEFINE m == todoTask[w].m
           needs == T!NeedsYou(m)
<1>u. UNCHANGED <<revision, visible, sub, needy, item, owed, todoQueue, missed, todoEvents>>
  BY DEF T!ReadMatter, T!bounds
<1>r. todoTask'[w] = [todoTask[w] EXCEPT !.pc = "context", !.rev = revision[m], !.needs = needs]
  BY DEF T!ReadMatter, TodosInv, TasksTyped
<1>a. todoTask[w] \in TodoTasks /\ m \in Message /\ needs \in BOOLEAN /\ todoTask[w].pc = "read"
  BY DEF T!ReadMatter, TodosInv, TasksTyped, T!NeedsYou
<1>b. DOMAIN todoTask' = Workers /\ \A v \in Workers : v # w => Same(v)
  BY DEF T!ReadMatter, TodosInv, TasksTyped, Same
<1>t. todoTask' = [todoTask EXCEPT ![w] = todoTask'[w]]
  BY DEF T!ReadMatter, TodosInv, TasksTyped
<1> HIDE DEF needs
<1>f. /\ todoTask'[w].pc = "context" /\ todoTask'[w].m = m /\ todoTask'[w].rev = revision[m]
  BY <1>r, <1>a DEF TodoTasks
<1>n. todoTask'[w].needs = needs
  BY <1>r, <1>a DEF TodoTasks
<1>h. todoTask'[w].current = todoTask[w].current
  BY <1>r, <1>a DEF TodoTasks
<1>g. todoTask'[w].current => todoTask[w].current
  BY <1>h, Zenon
<1>1. TasksTyped'
  <2>1. revision[m] \in Nat
    BY <1>a DEF TodosInv, ItemsTyped
  <2>2. todoTask'[w] \in TodoTasks
    BY <1>r, <1>a, <2>1 DEF TodoTasks
  <2>3. T!Keys' = T!Keys
    BY DEF T!Keys
  <2>4. todoTask' \in [Workers -> TodoTasks]
    BY <1>t, <2>2 DEF TodosInv, TasksTyped
  <2>5. /\ owed' \subseteq Message /\ todoQueue' \subseteq Message /\ missed' \subseteq Message
        /\ todoEvents' \in Nat
    BY <1>u DEF TodosInv, TasksTyped
  <2>6. ASSUME NEW v \in Workers
        PROVE  /\ todoTask'[v].pc # "idle" => todoTask'[v].m \in Message
               /\ todoTask'[v].pc = "idle" => ~todoTask'[v].current /\ todoTask'[v].rev = 0
    BY <1>a, <1>b, <1>f DEF TodosInv, TasksTyped, Same
  <2> QED
    BY <2>3, <2>4, <2>5, <2>6 DEF TasksTyped, TodoTasks
<1>2. OneExtraction'
  <2>1. \A v \in Workers : todoTask'[v].m = todoTask[v].m /\ (todoTask'[v].current => todoTask[v].current)
    BY <1>b, <1>f, <1>g DEF Same
  <2> QED
    BY <1>u, <2>1 DEF TodosInv, OneExtraction
<1>3. ReadTrue(w)' /\ ~Overdue(w)'
  <2>1. revision'[m] = revision[m] /\ revision[m] \in Nat
    BY <1>a, <1>u DEF TodosInv, ItemsTyped
  <2>2. T!NeedsYou(todoTask[w].m)' <=> needs
    BY <1>f, <1>u DEF needs, T!NeedsYou
  <2>3. todoTask'[w].needs <=> T!NeedsYou(todoTask[w].m)'
    BY <1>n, <2>2, Zenon
  <2>4. T!NeedsYou(todoTask[w].m)' \in BOOLEAN /\ todoTask'[w].needs \in BOOLEAN
    BY <1>a, <1>n DEF T!NeedsYou
  <2>5. todoTask'[w].needs = T!NeedsYou(todoTask[w].m)'
    BY <2>3, <2>4, Zenon
  <2> QED
    BY <1>f, <2>1, <2>5 DEF ReadTrue, Overdue
<1>4. ASSUME NEW n \in Message, Looked(n) PROVE Looked(n)'
  <2>1. CASE n = m
    BY <1>f, <1>u, <2>1 DEF Looked, Sees
  <2>2. CASE n # m
    BY <2>2, <1>b, <1>u, <1>4 DEF Looked, Sees, Same
  <2> QED
    BY <2>1, <2>2
<1> QED
  BY <1>b, <1>u, <1>1, <1>2, <1>3, <1>4, QuietTodoStep

LEMMA ReadContextTodos ==
    ASSUME TodosInv, NEW w \in Workers, T!ReadContext(w)
    PROVE  TodosInv'
<1> DEFINE m == todoTask[w].m
           keys == T!Sources(T!OpenSubgoals(m), todoTask[w].needs)
<1>u. UNCHANGED <<revision, visible, sub, needy, item, owed, todoQueue, missed, todoEvents>>
  BY DEF T!ReadContext, T!bounds
<1>r. todoTask' = [todoTask EXCEPT ![w].pc = "write", ![w].keys = keys]
  BY DEF T!ReadContext
<1>a. /\ todoTask[w] \in TodoTasks /\ m \in Message /\ todoTask[w].pc = "context"
      /\ todoTask \in [Workers -> TodoTasks]
  BY DEF T!ReadContext, TodosInv, TasksTyped
<1>k. keys \in SUBSET T!Keys
  BY <1>a, SourcesAreKeys
<1> HIDE DEF keys
<1>b. \A v \in Workers : v # w => Same(v)
  BY <1>r, <1>a DEF Same
<1>f. /\ todoTask'[w].pc = "write" /\ todoTask'[w].m = m
      /\ todoTask'[w].rev = todoTask[w].rev /\ todoTask'[w].needs = todoTask[w].needs
      /\ todoTask'[w].current = todoTask[w].current /\ todoTask'[w].keys = keys
  BY <1>r, <1>a DEF TodoTasks
<1>g. todoTask'[w].current => todoTask[w].current
  BY <1>f, Zenon
<1>1. TasksTyped'
  <2>1. todoTask' \in [Workers -> TodoTasks]
    BY <1>r, <1>a, <1>k DEF TodoTasks
  <2>2. /\ owed' \subseteq Message /\ todoQueue' \subseteq Message /\ missed' \subseteq Message
        /\ todoEvents' \in Nat
    BY <1>u DEF TodosInv, TasksTyped
  <2>3. T!Keys' = T!Keys
    BY DEF T!Keys
  <2>4. ASSUME NEW v \in Workers
        PROVE  /\ todoTask'[v].pc # "idle" => todoTask'[v].m \in Message
               /\ todoTask'[v].pc = "idle" => ~todoTask'[v].current /\ todoTask'[v].rev = 0
    BY <1>a, <1>b, <1>f DEF TodosInv, TasksTyped, Same
  <2> QED
    BY <2>1, <2>2, <2>3, <2>4 DEF TasksTyped, TodoTasks
<1>2. OneExtraction'
  <2>1. \A v \in Workers : todoTask'[v].m = todoTask[v].m /\ (todoTask'[v].current => todoTask[v].current)
    BY <1>b, <1>f, <1>g DEF Same
  <2> QED
    BY <1>u, <2>1 DEF TodosInv, OneExtraction
<1>3. ReadTrue(w)' /\ (Overdue(w)' => Overdue(w))
  <2>2. ReadTrue(w)
    BY ReadsTruePointwise DEF TodosInv
  <2>3. ReadTrue(w)'
    BY <1>a, <1>f, <1>u, <2>2, GoalsFrame DEF ReadTrue, keys, T!Sources, T!Whole
  <2> QED
    BY <1>a, <1>f, <1>g, <1>u, <2>3 DEF Overdue
<1>4. ASSUME NEW n \in Message, Looked(n) PROVE Looked(n)'
  <2>1. \A v \in Workers : Sees(v, n) => Sees(v, n)'
    BY <1>a, <1>b, <1>f, <1>u DEF Sees, Same
  <2> QED
    BY <1>u, <1>4, <2>1 DEF Looked
<1> QED
  BY <1>b, <1>f, <1>u, <1>1, <1>2, <1>3, <1>4, QuietTodoStep

LEMMA FailTodos ==
    ASSUME TodosInv, NEW w \in Workers, T!Fail(w)
    PROVE  TodosInv'
<1> USE DEF T!Fail, T!Fault
<1>a. todoTask[w].m \in Message /\ todoTask[w].current
  BY DEF TodosInv, TasksTyped
<1>0. /\ todoTask'[w] = T!Idle
      /\ \A v \in Workers : v # w => Same(v)
  BY DEF TodosInv, TasksTyped, Same
<1>1. TasksTyped'
  BY <1>0, <1>a DEF TodosInv, TasksTyped, TodoTasks, T!Idle, T!Keys
<1>2. OneExtraction'
  BY <1>0, <1>a DEF TodosInv, TasksTyped, OneExtraction, Same, T!Idle
<1>3. ReadTrue(w)' /\ ~Overdue(w)'
  <2>1. revision \in [Message -> Nat] /\ revision' = revision
    BY DEF TodosInv, ItemsTyped
  <2>2. todoTask'[w].pc = "idle" /\ todoTask'[w].rev = 0
    BY <1>0 DEF T!Idle
  <2> QED
    BY <2>1, <2>2 DEF ReadTrue, Overdue
<1>4. ASSUME NEW n \in Message, Looked(n) PROVE Looked(n)'
  <2>1. CASE n = todoTask[w].m
    BY <2>1 DEF Looked
  <2>2. CASE n # todoTask[w].m
    BY <2>2, <1>0, <1>4 DEF Looked, Sees, Same
  <2> QED
    BY <2>1, <2>2
<1> QED
  BY <1>0, <1>1, <1>2, <1>3, <1>4, QuietTodoStep

LEMMA LapseTodos ==
    ASSUME TodosInv, NEW w \in Workers, T!Lapse(w)
    PROVE  TodosInv'
<1> USE DEF T!Lapse, T!Fault
<1>a. todoTask[w].m \in Message /\ todoTask[w].current /\ todoTask[w] \in TodoTasks
  BY DEF TodosInv, TasksTyped
<1>0. /\ todoTask'[w] = [todoTask[w] EXCEPT !.current = FALSE]
      /\ \A v \in Workers : v # w => Same(v)
  BY DEF TodosInv, TasksTyped, Same
<1>f. /\ todoTask'[w].pc = todoTask[w].pc /\ todoTask'[w].m = todoTask[w].m
      /\ todoTask'[w].rev = todoTask[w].rev /\ todoTask'[w].needs = todoTask[w].needs
      /\ ~todoTask'[w].current /\ todoTask'[w].keys = todoTask[w].keys
  BY <1>0, <1>a DEF TodoTasks
<1>1. TasksTyped'
  BY <1>0, <1>a DEF TodosInv, TasksTyped, TodoTasks, T!Keys
<1>2. OneExtraction'
  BY <1>0, <1>a DEF TodosInv, TasksTyped, OneExtraction, Same, TodoTasks
<1>3. ReadTrue(w)' /\ ~Overdue(w)'
  <2>1. UNCHANGED <<revision, visible, sub, needy>>
    OBVIOUS
  <2>2. ReadTrue(w)
    BY ReadsTruePointwise DEF TodosInv
  <2>3. ReadTrue(w)'
    BY <1>f, <2>1, <2>2, GoalsFrame DEF ReadTrue, T!Sources, T!Whole
  <2> QED
    BY <1>f, <2>3 DEF Overdue
<1>4. ASSUME NEW n \in Message, Looked(n) PROVE Looked(n)'
  BY <1>0, <1>a, <1>4 DEF Looked, Sees, Same, TodoTasks
<1> QED
  BY <1>0, <1>1, <1>2, <1>3, <1>4, QuietTodoStep

(* Steps that change matters: the new revision outdates what was read.     *)
LEMMA GoalsAt ==
    ASSUME NEW m, sub'[m] = sub[m], m \in needy' <=> m \in needy, NEW k
    PROVE  /\ T!NeedsYou(m)' <=> T!NeedsYou(m)
           /\ T!OpenSubgoals(m)' = T!OpenSubgoals(m)
           /\ T!Finished(m, k)' <=> T!Finished(m, k)
<1>1. T!Open(m)' = T!Open(m)
  BY DEF T!Open
<1>2. T!NeedsYou(m)' <=> T!NeedsYou(m)
  BY DEF T!NeedsYou
<1>3. T!OpenSubgoals(m)' = T!OpenSubgoals(m)
  BY <1>1 DEF T!OpenSubgoals
<1>4. T!Finished(m, k)' <=> T!Finished(m, k)
  BY <1>2, <1>3 DEF T!Finished, T!Sources, T!Whole
<1> QED
  BY <1>2, <1>3, <1>4

LEMMA MattersChange ==
    ASSUME TodosInv, NEW ms \in SUBSET Message, ItemsTyped',
           \A m \in ms : revision'[m] = revision[m] + 1,
           \A m \in Message \ ms : /\ revision'[m] = revision[m] /\ sub'[m] = sub[m]
                                   /\ m \in needy' <=> m \in needy,
           UNCHANGED <<item, todoQueue, todoTask, missed>>,
           todoEvents' \in Nat, visible' \subseteq visible,
           owed \subseteq owed', owed' \subseteq Message,
           \A m \in ms \cap visible' : m \in owed'
    PROVE  TodosInv'
<1>t. /\ revision \in [Message -> Nat] /\ item \in [Message -> [T!Keys -> TodoItems]]
      /\ visible' \subseteq Message
  BY DEF TodosInv, ItemsTyped
<1>1. TasksTyped'
  BY DEF TodosInv, TasksTyped, TodoTasks, T!Keys, T!Subgoals, T!Whole
<1>2. ItemsTrue'
  <2>1. ASSUME NEW m \in Message, NEW k \in T!Keys
        PROVE  /\ revision'[m] >= 1 /\ item'[m][k].rev <= revision'[m]
               /\ Free(m, k)' <=> Free(m, k)
               /\ Free(m, k)' /\ item'[m][k].rev = revision'[m] /\ item'[m][k].shown => ~T!Finished(m, k)'
    <3>1. revision[m] \in Nat /\ revision[m] >= 1 /\ item[m][k].rev \in Nat /\ item[m][k].rev <= revision[m]
      BY <1>t DEF TodosInv, ItemsTrue, TodoItems
    <3>2. Free(m, k)' <=> Free(m, k)
      BY DEF Free, T!NoItem
    <3>3. CASE m \in ms
      BY <3>1, <3>2, <3>3
    <3>4. CASE m \notin ms
      <4>1. revision'[m] = revision[m] /\ sub'[m] = sub[m] /\ (m \in needy' <=> m \in needy)
        BY <3>4
      <4>2. T!Finished(m, k)' <=> T!Finished(m, k)
        BY <4>1, GoalsAt
      <4>3. Free(m, k) /\ item[m][k].rev = revision[m] /\ item[m][k].shown => ~T!Finished(m, k)
        BY DEF TodosInv, ItemsTrue
      <4> QED
        BY <3>1, <3>2, <4>1, <4>2, <4>3
    <3> QED
      BY <3>3, <3>4
  <2>2. \A m \in Message, k, j \in T!Keys : Free(m, k)' /\ Free(m, j)' => item'[m][k].rev = item'[m][j].rev
    BY <2>1 DEF TodosInv, ItemsTrue
  <2>3. T!Keys' = T!Keys
    BY DEF T!Keys
  <2>4. Message = {} \/ \A m \in Message : revision'[m] >= 1
    <3> SUFFICES ASSUME NEW m \in Message PROVE revision'[m] >= 1
      OBVIOUS
    <3>1. revision[m] \in Nat /\ revision[m] >= 1
      BY <1>t DEF TodosInv, ItemsTrue
    <3> QED
      BY <3>1
  <2> QED
    BY <2>1, <2>2, <2>3, <2>4 DEF ItemsTrue
<1>3. ReadsTrue'
  <2>1. ASSUME NEW w \in Workers PROVE ReadTrue(w)'
    <3>1. ReadTrue(w) /\ todoTask'[w] = todoTask[w]
      BY ReadsTruePointwise DEF TodosInv
    <3>2. todoTask[w].m \in Message => revision[todoTask[w].m] \in Nat /\ todoTask[w].rev \in Nat
      BY <1>t DEF TodosInv, TasksTyped, TodoTasks
    <3>3. CASE todoTask[w].m \in ms
      BY <3>1, <3>2, <3>3 DEF ReadTrue
    <3>4. CASE todoTask[w].m \in Message \ ms
      <4>1. /\ revision'[todoTask[w].m] = revision[todoTask[w].m] /\ sub'[todoTask[w].m] = sub[todoTask[w].m]
            /\ todoTask[w].m \in needy' <=> todoTask[w].m \in needy
        BY <3>4
      <4>2. T!Open(todoTask[w].m)' = T!Open(todoTask[w].m)
        BY <3>1, <4>1 DEF T!Open
      <4>3. T!NeedsYou(todoTask[w].m)' = T!NeedsYou(todoTask[w].m)
        BY <3>1, <4>1 DEF T!NeedsYou
      <4>4. T!OpenSubgoals(todoTask[w].m)' = T!OpenSubgoals(todoTask[w].m)
        BY <3>1, <4>1, <4>2 DEF T!OpenSubgoals
      <4> QED
        BY <3>1, <4>1, <4>3, <4>4 DEF ReadTrue, T!Sources, T!Whole
    <3>5. CASE todoTask[w].m \notin Message
      BY <3>1, <3>5 DEF ReadTrue, TodosInv, TasksTyped
    <3> QED
      BY <3>3, <3>4, <3>5
  <2>2. ReadsTrue' <=> \A w \in Workers : ReadTrue(w)'
    BY DEF ReadsTrue, ReadTrue
  <2> QED
    BY <2>1, <2>2
<1>4. OneExtraction'
  BY DEF TodosInv, OneExtraction
<1>l. ASSUME NEW m \in visible', m \notin ms, Looked(m) PROVE Looked(m)'
  BY <1>l, <1>t DEF Looked, Sees
<1>o. ASSUME NEW m \in visible', m \in ms PROVE Looked(m)'
  BY <1>o DEF Looked
<1>5. OldReadsKnown'
  <2> SUFFICES ASSUME NEW w \in Workers, Overdue(w)' PROVE Looked(todoTask[w].m)'
    BY DEF OldReadsKnown, Overdue
  <2> DEFINE m == todoTask[w].m
  <2>1. m \in visible' /\ m' = m /\ m \in Message
    BY <1>t DEF Overdue
  <2>2. CASE m \in ms
    BY <2>1, <2>2 DEF Looked
  <2>3. CASE m \notin ms
    <3>1. Overdue(w)
      BY <2>1, <2>3 DEF Overdue
    <3>2. Looked(m)
      BY <3>1 DEF TodosInv, OldReadsKnown, Overdue
    <3> QED
      BY <1>t, <2>1, <2>3, <3>2 DEF Looked, Sees
  <2> QED
    BY <2>2, <2>3
<1>6. LeftOversKnown'
  <2> SUFFICES ASSUME NEW m \in visible', NEW k \in T!Keys', LeftOver(m, k)' PROVE Looked(m)'
    BY DEF LeftOversKnown
  <2>1. CASE m \in ms
    BY <1>o, <2>1
  <2>2. CASE m \notin ms
    <3>1. sub'[m] = sub[m] /\ (m \in needy' <=> m \in needy) /\ m \in visible /\ k \in T!Keys
      BY <1>t, <2>2 DEF T!Keys
    <3>2. LeftOver(m, k)
      BY <3>1, GoalsAt DEF LeftOver, Free, T!NoItem
    <3>3. Looked(m)
      BY <3>1, <3>2 DEF TodosInv, LeftOversKnown
    <3> QED
      BY <1>l, <2>2, <3>3
  <2> QED
    BY <2>1, <2>2
<1> QED
  BY <1>1, <1>2, <1>3, <1>4, <1>5, <1>6 DEF TodosInv

LEMMA DeriveOne ==
    ASSUME needy \subseteq Message, NEW m \in Message, T!Derive(m)
    PROVE  /\ needy' \subseteq Message
           /\ \A n \in Message \ {m} : n \in needy' <=> n \in needy
  BY DEF T!Derive

LEMMA AssignTodos ==
    ASSUME TodosInv, NEW m \in Message, NEW ns \in SUBSET Names, NEW open \in BOOLEAN,
           T!Assign(m, ns, open)
    PROVE  TodosInv'
<1> USE DEF T!Assign, T!Event
<1>1. ItemsTyped'
  <2>1. sub' \in [Message -> [Names -> {T!NoGoal} \cup TodoRows]]
    <3> DEFINE row == [n \in Names |->
                         IF n \notin ns THEN sub[m][n]
                         ELSE [of |-> IF sub[m][n] = T!NoGoal THEN <<m, n>> ELSE sub[m][n].of, open |-> open]]
    <3>1. sub' = [sub EXCEPT ![m] = row]
      OBVIOUS
    <3>2. row \in [Names -> {T!NoGoal} \cup TodoRows]
      BY DEF TodosInv, ItemsTyped, TodoRows, T!Subgoals
    <3> HIDE DEF row
    <3> QED
      BY <3>1, <3>2 DEF TodosInv, ItemsTyped
  <2>2. T!Keys' = T!Keys /\ T!NoGoal' = T!NoGoal /\ TodoRows' = TodoRows
    BY DEF T!Keys, T!NoGoal, TodoRows
  <2>3. needy' \subseteq Message
    BY DeriveOne DEF TodosInv, ItemsTyped
  <2> QED
    BY <2>1, <2>2, <2>3 DEF TodosInv, ItemsTyped
<1>2. \A n \in {m} : revision'[n] = revision[n] + 1
  BY DEF TodosInv, ItemsTyped
<1>d. /\ needy' \subseteq Message
      /\ \A n \in Message \ {m} : n \in needy' <=> n \in needy
  BY DeriveOne DEF TodosInv, ItemsTyped
<1>3. \A n \in Message \ {m} : /\ revision'[n] = revision[n] /\ sub'[n] = sub[n]
                               /\ n \in needy' <=> n \in needy
  BY <1>d DEF TodosInv, ItemsTyped
<1>4. /\ todoEvents' \in Nat /\ owed \subseteq owed' /\ owed' \subseteq Message
      /\ \A n \in {m} \cap visible' : n \in owed'
  BY DEF TodosInv, TasksTyped
<1> QED
  BY <1>1, <1>2, <1>3, <1>4, MattersChange

LEMMA JoinedTyped ==
    ASSUME NEW old \in {T!NoGoal} \cup TodoRows, NEW new \in {T!NoGoal} \cup TodoRows, NEW b
    PROVE  T!Joined(old, new, b) \in {T!NoGoal} \cup TodoRows
<1>1. new # T!NoGoal /\ old # T!NoGoal => [old EXCEPT !.open = new.open] \in TodoRows
  BY DEF TodoRows
<1> QED
  BY <1>1 DEF T!Joined

LEMMA MergeTodos ==
    ASSUME TodosInv, NEW a \in Message, NEW b \in Message, T!Merge(a, b)
    PROVE  TodosInv'
<1> DEFINE Row(newer) == [n \in Names |-> T!Joined(sub[b][n], sub[a][n], n \in newer)]
           gone == [n \in Names |-> T!NoGoal]
<1>t. /\ sub \in [Message -> [Names -> {T!NoGoal} \cup TodoRows]]
      /\ revision \in [Message -> Nat] /\ todoEvents \in Nat /\ owed \subseteq Message /\ visible \subseteq Message
  BY DEF TodosInv, ItemsTyped, TasksTyped
<1>u. /\ UNCHANGED <<item, todoQueue, todoTask, missed>> /\ a # b
      /\ todoEvents' = todoEvents + 1
      /\ visible' = visible \ {a} /\ owed' = owed \cup {b}
      /\ revision' = [revision EXCEPT ![a] = @ + 1, ![b] = @ + 1]
  BY DEF T!Merge, T!Event
<1>s. PICK newer \in SUBSET Names : sub' = [sub EXCEPT ![a] = gone, ![b] = Row(newer)]
  BY DEF T!Merge
<1>r. /\ Row(newer) \in [Names -> {T!NoGoal} \cup TodoRows]
      /\ gone \in [Names -> {T!NoGoal} \cup TodoRows]
  BY <1>t, JoinedTyped
<1>d. /\ needy' \subseteq Message
      /\ \A n \in Message \ {b} : n \in needy' <=> n \in needy
  BY DeriveOne DEF T!Merge, TodosInv, ItemsTyped
<1> HIDE DEF Row, gone
<1>1. ItemsTyped'
  <2>1. sub' \in [Message -> [Names -> {T!NoGoal} \cup TodoRows]]
    BY <1>t, <1>r, <1>s
  <2>2. T!Keys' = T!Keys /\ T!NoGoal' = T!NoGoal /\ TodoRows' = TodoRows
    BY DEF T!Keys, T!NoGoal, TodoRows
  <2>3. revision' \in [Message -> Nat] /\ visible' \subseteq Message
    BY <1>t, <1>u
  <2>4. item' \in [Message -> [T!Keys -> TodoItems]]
    BY <1>u DEF TodosInv, ItemsTyped
  <2> QED
    BY <1>d, <2>1, <2>2, <2>3, <2>4 DEF ItemsTyped, TodoItems
<1>2. \A n \in {a, b} : revision'[n] = revision[n] + 1
  BY <1>t, <1>u
<1>3. \A n \in Message \ {a, b} : /\ revision'[n] = revision[n] /\ sub'[n] = sub[n]
                                  /\ n \in needy' <=> n \in needy
  BY <1>d, <1>s, <1>t, <1>u
<1>4. /\ todoEvents' \in Nat /\ owed \subseteq owed' /\ owed' \subseteq Message
      /\ visible' \subseteq visible /\ \A n \in {a, b} \cap visible' : n \in owed'
  BY <1>t, <1>u
<1>5. {a, b} \in SUBSET Message
  OBVIOUS
<1> QED
  BY <1>1, <1>2, <1>3, <1>4, <1>5, <1>u, MattersChange

(* The user touches one item.                                              *)
LEMMA TickTodos ==
    ASSUME TodosInv, NEW m \in Message, NEW k \in T!Keys, T!Tick(m, k)
    PROVE  TodosInv'
<1>t. item \in [Message -> [T!Keys -> TodoItems]] /\ todoEvents \in Nat
  BY DEF TodosInv, ItemsTyped, TasksTyped
<1>u. /\ todoEvents' = todoEvents + 1
      /\ UNCHANGED <<revision, visible, sub, needy, owed, todoQueue, todoTask, missed>>
  BY DEF T!Tick, T!Event, T!jobs
<1>s. PICK s \in {"done", "open"} :
         item' = [item EXCEPT ![m][k] = [item[m][k] EXCEPT !.status = s, !.touched = TRUE]]
  BY DEF T!Tick
<1> DEFINE row == [item[m][k] EXCEPT !.status = s, !.touched = TRUE]
<1>r. row \in TodoItems /\ row.touched /\ row.rev = item[m][k].rev
  <2>1. item[m][k] \in TodoItems
    BY <1>t
  <2>2. row \in TodoItems /\ row.rev = item[m][k].rev
    BY <2>1 DEF TodoItems
  <2>3. row.touched
    BY <2>1 DEF TodoItems
  <2> QED
    BY <2>2, <2>3
<1>e. item' = [item EXCEPT ![m] = [item[m] EXCEPT ![k] = row]]
  BY <1>s
<1> HIDE DEF row
<1>j. \A n \in Message, j \in T!Keys : n # m \/ j # k => item'[n][j] = item[n][j]
  BY <1>e, <1>t
<1>c. item'[m][k].touched /\ item'[m][k].rev = item[m][k].rev
  BY <1>r, <1>e, <1>t
<1>k. item' \in [Message -> [T!Keys -> TodoItems]]
  BY <1>r, <1>e, <1>t
<1>1. ItemsTyped' /\ TasksTyped'
  <2>1. T!Keys' = T!Keys /\ T!NoGoal' = T!NoGoal
    BY DEF T!Keys, T!NoGoal
  <2> QED
    BY <1>k, <1>t, <1>u, <2>1 DEF TodosInv, ItemsTyped, TasksTyped, TodoTasks, TodoRows, TodoItems, T!Subgoals
<1>f. ASSUME NEW n \in Message, NEW j \in T!Keys, Free(n, j)'
      PROVE  Free(n, j) /\ item'[n][j] = item[n][j]
  BY <1>c, <1>f, <1>j, <1>k DEF Free, T!NoItem
<1>2. ItemsTrue'
  <2>1. T!Keys' = T!Keys
    BY DEF T!Keys
  <2>2. \A n \in Message, j \in T!Keys : item'[n][j].rev = item[n][j].rev
    BY <1>c, <1>j
  <2>3. \A n \in Message, j \in T!Keys : T!Finished(n, j)' <=> T!Finished(n, j)
    BY <1>u, GoalsFrame
  <2>4. \A n \in Message : revision'[n] >= 1
    BY <1>u DEF TodosInv, ItemsTrue
  <2>5. \A n \in Message, j \in T!Keys : item'[n][j].rev <= revision'[n]
    BY <1>u, <2>2 DEF TodosInv, ItemsTrue
  <2>a. ASSUME NEW n \in Message, NEW i \in T!Keys, NEW j \in T!Keys, Free(n, i)', Free(n, j)'
        PROVE  item'[n][i].rev = item'[n][j].rev
    <3>1. Free(n, i) /\ Free(n, j) => item[n][i].rev = item[n][j].rev
      BY DEF TodosInv, ItemsTrue
    <3>2. Free(n, i) /\ Free(n, j)
      BY <1>f, <2>a
    <3>3. item'[n][i].rev = item[n][i].rev /\ item'[n][j].rev = item[n][j].rev
      BY <2>2
    <3> QED
      BY <3>1, <3>2, <3>3
  <2>6. \A n \in Message : \A i, j \in T!Keys : Free(n, i)' /\ Free(n, j)' => item'[n][i].rev = item'[n][j].rev
    BY <2>a
  <2>7. ASSUME NEW n \in Message, NEW j \in T!Keys, Free(n, j)', item'[n][j].rev = revision'[n], item'[n][j].shown
        PROVE  ~T!Finished(n, j)'
    <3>1. Free(n, j) /\ item[n][j].rev = revision[n] /\ item[n][j].shown
      BY <1>f, <1>u, <2>7
    <3>2. ~T!Finished(n, j)
      BY <3>1 DEF TodosInv, ItemsTrue
    <3> QED
      BY <2>3, <3>2
  <2> QED
    BY <2>1, <2>4, <2>5, <2>6, <2>7 DEF ItemsTrue
<1>3. ReadsTrue'
  <2>1. ASSUME NEW w \in Workers PROVE ReadTrue(w)'
    BY <1>u, ReadsTruePointwise, ReadTrueFrame DEF TodosInv, Same
  <2>2. ReadsTrue' <=> \A w \in Workers : ReadTrue(w)'
    BY DEF ReadsTrue, ReadTrue
  <2> QED
    BY <2>1, <2>2
<1>4. OneExtraction'
  BY <1>u DEF TodosInv, OneExtraction
<1>5. OldReadsKnown'
  BY <1>u DEF TodosInv, OldReadsKnown, Looked, Sees
<1>6. LeftOversKnown'
  <2> SUFFICES ASSUME NEW n \in visible', NEW j \in T!Keys', LeftOver(n, j)' PROVE Looked(n)'
    BY DEF LeftOversKnown
  <2>1. n \in visible /\ n \in Message /\ j \in T!Keys
    BY <1>u DEF TodosInv, ItemsTyped, T!Keys
  <2>2. LeftOver(n, j)
    BY <1>f, <1>u, <2>1, GoalsFrame DEF LeftOver
  <2> QED
    BY <1>u, <2>1, <2>2 DEF TodosInv, LeftOversKnown, Looked, Sees
<1> QED
  BY <1>1, <1>2, <1>3, <1>4, <1>5, <1>6 DEF TodosInv

(* A projection on one item.                                               *)
LEMMA UpsertedItem ==
    ASSUME NEW old \in TodoItems, NEW r \in Nat, NEW show \in BOOLEAN
    PROVE  /\ T!Upserted(old, r, show) \in TodoItems
           /\ T!Upserted(old, r, show).rev = r
           /\ old.touched => /\ T!Upserted(old, r, show).touched
                             /\ T!Upserted(old, r, show).shown = old.shown
                             /\ T!Upserted(old, r, show).status = old.status
<1> USE DEF T!Upserted
<1>1. CASE old = T!NoItem
  BY <1>1 DEF TodoItems, T!NoItem
<1>2. CASE old # T!NoItem /\ old.touched
  <2>1. T!Upserted(old, r, show) = [old EXCEPT !.rev = r, !.shown = old.shown]
    BY <1>2
  <2> QED
    BY <1>2, <2>1 DEF TodoItems
<1>3. CASE old # T!NoItem /\ ~old.touched
  <2>1. T!Upserted(old, r, show) = [old EXCEPT !.rev = r, !.shown = show]
    BY <1>3
  <2> QED
    BY <1>3, <2>1 DEF TodoItems
<1> QED
  BY <1>1, <1>2, <1>3

LEMMA DroppedItem ==
    ASSUME NEW old \in TodoItems, NEW r \in Nat
    PROVE  /\ T!Dropped(old, r) \in TodoItems
           /\ T!Dropped(old, r).rev \in {r, old.rev}
           /\ T!Dropped(old, r) # T!NoItem /\ ~T!Dropped(old, r).touched =>
                T!Dropped(old, r).rev = r /\ ~T!Dropped(old, r).shown
           /\ old.touched => T!Dropped(old, r) = old
<1>1. CASE old = T!NoItem \/ old.touched
  BY <1>1 DEF T!Dropped
<1>2. CASE old # T!NoItem /\ ~old.touched
  <2>1. T!Dropped(old, r) = [old EXCEPT !.rev = r, !.shown = FALSE]
    BY <1>2 DEF T!Dropped
  <2>2. [old EXCEPT !.rev = r, !.shown = FALSE] \in TodoItems /\ [old EXCEPT !.rev = r, !.shown = FALSE].rev = r
    BY DEF TodoItems
  <2>3. ~[old EXCEPT !.rev = r, !.shown = FALSE].shown
    BY DEF TodoItems
  <2> QED
    BY <1>2, <2>1, <2>2, <2>3
<1> QED
  BY <1>1, <1>2

(* What a projection leaves behind.                                        *)
LEMMA ProjectWrites ==
    ASSUME TodosInv, NEW w \in Workers, T!Project(w), NEW t, t = todoTask[w]
    PROVE  /\ t \in TodoTasks /\ t.pc = "write" /\ t.m \in Message /\ t.rev \in Nat
           /\ item' \in [Message -> [T!Keys -> TodoItems]]
           /\ \A n \in Message, k \in T!Keys : n # t.m => item'[n][k] = item[n][k]
           /\ \A k \in T!Keys :
                /\ item'[t.m][k].rev \in {t.rev, item[t.m][k].rev}
                /\ Free(t.m, k)' => item'[t.m][k].rev = t.rev /\ (item'[t.m][k].shown => k \in t.keys)
                /\ item[t.m][k].touched => /\ item'[t.m][k].touched
                                           /\ item'[t.m][k].shown = item[t.m][k].shown
                                           /\ item'[t.m][k].status = item[t.m][k].status
<1>t. /\ t \in TodoTasks /\ t.pc = "write" /\ t.m \in Message /\ t.rev \in Nat
      /\ item \in [Message -> [T!Keys -> TodoItems]] /\ t.keys \subseteq T!Keys
  BY DEF T!Project, TodosInv, ItemsTyped, TasksTyped, TodoTasks
<1> DEFINE Row(shows) == [k \in T!Keys |->
                            IF k \in todoTask[w].keys
                              THEN T!Upserted(item[todoTask[w].m][k], todoTask[w].rev, shows[k])
                              ELSE T!Dropped(item[todoTask[w].m][k], todoTask[w].rev)]
<1>1. PICK shows \in [todoTask[w].keys -> BOOLEAN] : item' = [item EXCEPT ![todoTask[w].m] = Row(shows)]
  BY DEF T!Project, T!Decisions
<1>2. ASSUME NEW k \in T!Keys
      PROVE  item'[t.m][k] = IF k \in t.keys THEN T!Upserted(item[t.m][k], t.rev, shows[k])
                                             ELSE T!Dropped(item[t.m][k], t.rev)
  BY <1>1, <1>t
<1> HIDE DEF Row
<1>3. ASSUME NEW k \in T!Keys
      PROVE  /\ item'[t.m][k] \in TodoItems
             /\ item'[t.m][k].rev \in {t.rev, item[t.m][k].rev}
             /\ item'[t.m][k] # T!NoItem /\ ~item'[t.m][k].touched =>
                  item'[t.m][k].rev = t.rev /\ (item'[t.m][k].shown => k \in t.keys)
             /\ item[t.m][k].touched => /\ item'[t.m][k].touched
                                        /\ item'[t.m][k].shown = item[t.m][k].shown
                                        /\ item'[t.m][k].status = item[t.m][k].status
  <2>1. item[t.m][k] \in TodoItems
    BY <1>t
  <2>2. CASE k \in t.keys
    <3>1. shows[k] \in BOOLEAN
      BY <2>2
    <3>2. item'[t.m][k] = T!Upserted(item[t.m][k], t.rev, shows[k])
      BY <1>2, <2>2
    <3> QED
      BY <1>t, <2>1, <2>2, <3>1, <3>2, UpsertedItem
  <2>3. CASE k \notin t.keys
    <3>2. item'[t.m][k] = T!Dropped(item[t.m][k], t.rev)
      BY <1>2, <2>3
    <3> DEFINE left == T!Dropped(item[t.m][k], t.rev)
    <3>3. /\ left \in TodoItems /\ left.rev \in {t.rev, item[t.m][k].rev}
          /\ left # T!NoItem /\ ~left.touched => left.rev = t.rev /\ ~left.shown
          /\ item[t.m][k].touched => left = item[t.m][k]
      BY <1>t, <2>1, DroppedItem
    <3>4. item'[t.m][k] = left
      BY <3>2
    <3> HIDE DEF left
    <3>5. item[t.m][k].touched => item'[t.m][k] = item[t.m][k]
      BY <3>3, <3>4
    <3>6. item'[t.m][k] # T!NoItem /\ ~item'[t.m][k].touched =>
            item'[t.m][k].rev = t.rev /\ ~item'[t.m][k].shown
      BY <3>3, <3>4
    <3> QED
      BY <3>3, <3>4, <3>5, <3>6
  <2> QED
    BY <2>2, <2>3
<1>4. item' \in [Message -> [T!Keys -> TodoItems]]
  <2>1. item' = [item EXCEPT ![t.m] = Row(shows)] /\ item'[t.m] = Row(shows)
    BY <1>1, <1>t
  <2>2. \A k \in T!Keys : Row(shows)[k] \in TodoItems
    BY <2>1, <1>3
  <2>3. Row(shows) \in [T!Keys -> TodoItems]
    BY <2>2 DEF Row
  <2> HIDE DEF Row
  <2> QED
    BY <1>t, <2>1, <2>3
<1>5. \A n \in Message, k \in T!Keys : n # t.m => item'[n][k] = item[n][k]
  BY <1>1, <1>t
<1>6. ASSUME NEW k \in T!Keys, Free(t.m, k)'
      PROVE  item'[t.m][k] # T!NoItem /\ ~item'[t.m][k].touched
  BY <1>6 DEF Free, T!NoItem
<1> QED
  BY <1>t, <1>3, <1>4, <1>5, <1>6

LEMMA ProjectTodos ==
    ASSUME TodosInv, NEW w \in Workers, T!Project(w)
    PROVE  TodosInv'
<1>0. PICK t : t = todoTask[w]
  OBVIOUS
<1>w. /\ t \in TodoTasks /\ t.pc = "write" /\ t.m \in Message /\ t.rev \in Nat
      /\ item' \in [Message -> [T!Keys -> TodoItems]]
      /\ \A n \in Message, k \in T!Keys : n # t.m => item'[n][k] = item[n][k]
  BY <1>0, ProjectWrites
<1>k. ASSUME NEW k \in T!Keys
      PROVE  /\ item'[t.m][k].rev \in {t.rev, item[t.m][k].rev}
             /\ Free(t.m, k)' => item'[t.m][k].rev = t.rev /\ (item'[t.m][k].shown => k \in t.keys)
  BY <1>0, ProjectWrites
<1>u. /\ UNCHANGED <<revision, visible, sub, needy, owed, todoQueue, todoEvents>>
      /\ missed' = IF t.rev = revision[t.m] /\ \A v \in Workers \ {w} : todoTask[v].m # t.m
                     THEN missed \ {t.m}
                   ELSE IF t.current THEN missed ELSE missed \cup {t.m}
  BY <1>0 DEF T!Project, T!bounds
<1>v. /\ todoTask' = [todoTask EXCEPT ![w] = T!Idle] /\ todoTask \in [Workers -> TodoTasks]
      /\ revision \in [Message -> Nat] /\ visible \subseteq Message
      /\ item \in [Message -> [T!Keys -> TodoItems]]
  BY DEF T!Project, TodosInv, TasksTyped, ItemsTyped
<1>s. /\ \A v \in Workers : v # w => Same(v)
      /\ todoTask'[w].pc = "idle" /\ ~todoTask'[w].current /\ todoTask'[w].rev = 0
  BY <1>v DEF Same, T!Idle
<1>1. ItemsTyped'
  <2>1. T!Keys' = T!Keys /\ T!NoGoal' = T!NoGoal /\ TodoRows' = TodoRows /\ TodoItems' = TodoItems
    BY DEF T!Keys, T!NoGoal, TodoRows, TodoItems
  <2>2. /\ sub' \in [Message -> [Names -> {T!NoGoal} \cup TodoRows]]
        /\ needy' \subseteq Message
    BY <1>u DEF TodosInv, ItemsTyped
  <2> QED
    BY <1>u, <1>v, <1>w, <2>1, <2>2 DEF ItemsTyped
<1>2. TasksTyped'
  <2>1. T!Idle \in TodoTasks
    BY DEF TodoTasks, T!Idle
  <2>2. todoTask' \in [Workers -> TodoTasks]
    BY <1>v, <2>1
  <2>3. missed' \subseteq Message
    BY <1>u, <1>w DEF TodosInv, TasksTyped
  <2>4. TodoTasks' = TodoTasks
    BY DEF TodoTasks, T!Keys
  <2> QED
    BY <1>s, <1>u, <2>2, <2>3, <2>4 DEF TodosInv, TasksTyped, Same
<1>3. ItemsTrue'
  <2>1. ASSUME NEW n \in Message, NEW k \in T!Keys, n # t.m
        PROVE  /\ item'[n][k].rev = item[n][k].rev /\ item'[n][k].shown = item[n][k].shown
               /\ Free(n, k)' <=> Free(n, k)
    BY <1>w, <2>1 DEF Free, T!NoItem
  <2>2. \A n \in Message : revision'[n] >= 1
    BY <1>u DEF TodosInv, ItemsTrue
  <2>3. ASSUME NEW n \in Message, NEW k \in T!Keys PROVE item'[n][k].rev <= revision'[n]
    <3>1. item[n][k].rev <= revision[n]
      BY DEF TodosInv, ItemsTrue
    <3>2. t.rev <= revision[t.m]
      BY <1>0, <1>w DEF TodosInv, ReadsTrue
    <3>3. CASE n # t.m
      BY <1>u, <2>1, <3>1, <3>3
    <3>4. CASE n = t.m
      <4>1. item'[t.m][k].rev \in {t.rev, item[t.m][k].rev}
        BY <1>k
      <4> QED
        BY <1>u, <3>1, <3>2, <3>4, <4>1
    <3> QED
      BY <3>3, <3>4
  <2>4. ASSUME NEW n \in Message, NEW i \in T!Keys, NEW j \in T!Keys, Free(n, i)', Free(n, j)'
        PROVE  item'[n][i].rev = item'[n][j].rev
    <3>1. CASE n = t.m
      BY <1>k, <2>4, <3>1
    <3>2. CASE n # t.m
      <4>1. Free(n, i) /\ Free(n, j) => item[n][i].rev = item[n][j].rev
        BY DEF TodosInv, ItemsTrue
      <4>2. Free(n, i) /\ Free(n, j) /\ item'[n][i].rev = item[n][i].rev /\ item'[n][j].rev = item[n][j].rev
        BY <2>1, <2>4, <3>2
      <4> QED
        BY <4>1, <4>2
    <3> QED
      BY <3>1, <3>2
  <2>5. ASSUME NEW n \in Message, NEW k \in T!Keys, Free(n, k)', item'[n][k].rev = revision'[n], item'[n][k].shown
        PROVE  ~T!Finished(n, k)'
    <3>1. CASE n = t.m
      <4>1. t.rev = revision[t.m] /\ k \in t.keys
        BY <1>k, <1>u, <2>5, <3>1
      <4>2. t.keys = T!Sources(T!OpenSubgoals(t.m), T!NeedsYou(t.m))
        BY <1>0, <1>w, <4>1 DEF TodosInv, ReadsTrue
      <4>3. ~T!Finished(n, k)
        BY <3>1, <4>1, <4>2 DEF T!Finished
      <4> QED
        BY <1>u, <4>3, GoalsFrame
    <3>2. CASE n # t.m
      <4>1. Free(n, k) /\ item[n][k].rev = revision[n] /\ item[n][k].shown
        BY <1>u, <2>1, <2>5, <3>2
      <4>2. ~T!Finished(n, k)
        BY <4>1 DEF TodosInv, ItemsTrue
      <4> QED
        BY <1>u, <4>2, GoalsFrame
    <3> QED
      BY <3>1, <3>2
  <2>6. \A n \in Message : \A i, j \in T!Keys : Free(n, i)' /\ Free(n, j)' => item'[n][i].rev = item'[n][j].rev
    BY <2>4
  <2>7. T!Keys' = T!Keys
    BY DEF T!Keys
  <2> QED
    BY <2>2, <2>3, <2>5, <2>6, <2>7 DEF ItemsTrue
<1>4. ReadsTrue'
  <2>1. ASSUME NEW v \in Workers PROVE ReadTrue(v)'
    <3>1. CASE v # w
      <4>1. ReadTrue(v) /\ Same(v)
        BY <1>s, <3>1, ReadsTruePointwise DEF TodosInv
      <4> QED
        BY <1>u, <4>1, ReadTrueFrame
    <3>2. CASE v = w
      BY <1>s, <1>u, <1>v, <3>2 DEF ReadTrue
    <3> QED
      BY <3>1, <3>2
  <2>2. ReadsTrue' <=> \A v \in Workers : ReadTrue(v)'
    BY DEF ReadsTrue, ReadTrue
  <2> QED
    BY <2>1, <2>2
<1>5. OneExtraction'
  <2>1. \A v \in Workers : todoTask'[v].current => v # w /\ todoTask'[v] = todoTask[v]
    BY <1>s DEF Same
  <2> QED
    BY <1>u, <2>1 DEF TodosInv, OneExtraction
<1>6. ASSUME NEW n \in Message, Looked(n), n # t.m \/ t.rev # revision[t.m]
      PROVE  Looked(n)'
  <2>1. n \in missed => n \in missed'
    BY <1>6, <1>u
  <2>2. \A v \in Workers : Sees(v, n) => Sees(v, n)'
    BY <1>0, <1>6, <1>s, <1>u, <1>w DEF Sees, Same
  <2> QED
    BY <1>6, <1>u, <2>1, <2>2 DEF Looked
<1>7. OldReadsKnown'
  <2> SUFFICES ASSUME NEW v \in Workers, Overdue(v)' PROVE Looked(todoTask[v].m)'
    BY DEF OldReadsKnown, Overdue
  <2>0. v # w /\ todoTask'[v] = todoTask[v] /\ Overdue(v)
    BY <1>s, <1>u DEF Overdue, Same
  <2> DEFINE m == todoTask[v].m
  <2>1. m \in Message /\ Looked(m) /\ m' = m
    BY <1>v, <2>0 DEF TodosInv, OldReadsKnown, Overdue
  <2>2. CASE m # t.m \/ t.rev # revision[t.m]
    <3>1. \A n \in Message : n = m => Looked(n)'
      BY <1>6, <2>1, <2>2
    <3>2. \A n \in Message : n = m => (Looked(n)' => Looked(m)')
      BY <2>1 DEF Looked, Sees
    <3> QED
      BY <2>1, <3>1, <3>2
  <2>3. CASE m = t.m /\ t.rev = revision[t.m]
    <3>1. ~t.current
      BY <1>0, <2>0, <2>3 DEF TodosInv, OneExtraction, Overdue
    <3>2. m \in missed'
      BY <1>u, <2>0, <2>3, <3>1
    <3> QED
      BY <2>1, <3>2 DEF Looked
  <2> QED
    BY <2>2, <2>3
<1>8. LeftOversKnown'
  <2> SUFFICES ASSUME NEW n \in visible', NEW k \in T!Keys', LeftOver(n, k)' PROVE Looked(n)'
    BY DEF LeftOversKnown
  <2>0. n \in visible /\ n \in Message /\ k \in T!Keys
    BY <1>u, <1>v DEF T!Keys
  <2>1. CASE n # t.m
    <3>1. LeftOver(n, k)
      BY <1>u, <1>w, <2>0, <2>1, GoalsFrame DEF LeftOver, Free, T!NoItem
    <3>2. Looked(n)
      BY <2>0, <3>1 DEF TodosInv, LeftOversKnown
    <3> QED
      BY <1>6, <2>0, <2>1, <3>2
  <2>2. CASE n = t.m /\ t.rev = revision[t.m]
    <3>1. Free(n, k)' /\ item'[n][k].shown /\ T!Finished(n, k)'
      BY DEF LeftOver
    <3>2. item'[n][k].rev = revision'[n]
      BY <1>k, <1>u, <2>0, <2>2, <3>1
    <3>3. T!Keys' = T!Keys
      BY DEF T!Keys
    <3> QED
      BY <1>3, <2>0, <3>1, <3>2, <3>3 DEF ItemsTrue
  <2>3. CASE n = t.m /\ t.rev # revision[t.m]
    <3>1. CASE t.current
      <4>1. Overdue(w)
        BY <1>0, <1>w, <2>0, <2>3, <3>1 DEF Overdue
      <4>2. Looked(n)
        BY <1>0, <2>3, <4>1 DEF TodosInv, OldReadsKnown, Overdue
      <4> QED
        BY <1>6, <2>0, <2>3, <4>2
    <3>2. CASE ~t.current
      BY <1>u, <2>3, <3>2 DEF Looked
    <3> QED
      BY <3>1, <3>2
  <2> QED
    BY <2>1, <2>2, <2>3
<1> QED
  BY <1>1, <1>2, <1>3, <1>4, <1>5, <1>7, <1>8 DEF TodosInv

LEMMA TodosInvInductive == TodosInv /\ [T!Next]_(T!vars) => TodosInv'
<1> SUFFICES ASSUME TodosInv, [T!Next]_(T!vars) PROVE TodosInv'
  OBVIOUS
<1>1. ASSUME NEW m \in Message, NEW ns \in SUBSET Names, NEW open \in BOOLEAN, T!Assign(m, ns, open)
      PROVE  TodosInv'
  BY <1>1, AssignTodos
<1>2. ASSUME NEW a \in Message, NEW b \in Message, T!Merge(a, b) PROVE TodosInv'
  BY <1>2, MergeTodos
<1>3. ASSUME NEW m \in Message, T!Ask(m) \/ T!DieOrganising(m) PROVE TodosInv'
  BY <1>3, AskTodos, DieOrganisingTodos
<1>4. CASE T!List
  BY <1>4, ListTodos
<1>5. ASSUME NEW w \in Workers, T!Extract(w) \/ T!Fail(w) \/ T!Lapse(w) PROVE TodosInv'
  BY <1>5, ClaimTodos, ReadMatterTodos, ReadContextTodos, ProjectTodos, FailTodos, LapseTodos DEF T!Extract
<1>6. ASSUME NEW m \in Message, NEW k \in T!Keys, T!Tick(m, k) PROVE TodosInv'
  BY <1>6, TickTodos
<1>7. CASE UNCHANGED T!vars
  <2>1. UNCHANGED <<revision, visible, sub, needy, item, owed, todoQueue, todoTask, missed, todoEvents>>
    BY <1>7 DEF T!vars, T!jobs, T!bounds
  <2>2. TasksTyped'
    BY <2>1 DEF TodosInv, TasksTyped, TodoTasks, T!Keys
  <2>3. OneExtraction'
    BY <2>1 DEF TodosInv, OneExtraction
  <2> QED
    BY <2>1, <2>2, <2>3, QuietTodoStep DEF Same, Looked, Sees
<1> QED
  BY <1>1, <1>2, <1>3, <1>4, <1>5, <1>6, <1>7 DEF T!Next

(* A finished to-do is on its way out (write_todo_projection,              *)
(* pending_todo_matter_ids): an extraction that will see it is wanted,     *)
(* queued, running or due at the next listing, unless the last one was lost *)
(* and the matter needs the user no more or looks current.                 *)
THEOREM FinishedToDosLeave == T!Spec => []FinishedLeaves
<1>1. TodosInv => FinishedLeaves
  <2> SUFFICES ASSUME TodosInv, NEW m \in visible, NEW k \in T!Keys,
                      T!Listed(m, k), ~item[m][k].touched, T!Finished(m, k),
                      ~T!WillBeSeen(m)
               PROVE  m \in missed /\ (~T!NeedsYou(m) \/ T!TouchedNow(m))
    BY DEF FinishedLeaves, T!FinishedLeaves
  <2>1. LeftOver(m, k) /\ m \in Message /\ item[m][k].shown
    BY DEF LeftOver, Free, T!Listed, T!NoItem, TodosInv, ItemsTyped
  <2>2. m \in missed
    BY <2>1 DEF TodosInv, LeftOversKnown, Looked, Sees, T!WillBeSeen
  <2>3. ASSUME T!NeedsYou(m), ~T!TouchedNow(m) PROVE FALSE
    <3>1. T!Current(m)
      BY <2>3 DEF T!WillBeSeen, T!Pending
    <3>2. PICK j \in T!Keys : item[m][j] # T!NoItem /\ item[m][j].rev >= revision[m]
      BY <3>1 DEF T!Current
    <3>3. Free(m, j)
      BY <2>3, <3>2 DEF T!TouchedNow, Free
    <3>4. item[m][j].rev \in Nat /\ revision[m] \in Nat /\ item[m][j].rev <= revision[m]
      BY <2>1 DEF TodosInv, ItemsTyped, ItemsTrue, TodoItems
    <3>5. item[m][k].rev = revision[m]
      BY <2>1, <3>2, <3>3, <3>4 DEF TodosInv, ItemsTrue, LeftOver
    <3> QED
      BY <2>1, <3>5 DEF TodosInv, ItemsTrue, LeftOver
  <2> QED
    BY <2>2, <2>3
<1> QED
  BY <1>1, TodosInvInitially, TodosInvInductive, PTL DEF T!Spec

(* What the user ticked off or left open stays as it is shown, whatever    *)
(* extraction is written later, one whose lease lapsed included.           *)
THEOREM TicksStand == T!Spec => ChoicesStand
<1>1. TodosInv /\ [T!Next]_(T!vars) =>
        [\A m \in Message, k \in T!Keys :
           item[m][k].touched =>
             /\ item'[m][k].touched /\ item'[m][k].shown = item[m][k].shown
             /\ item'[m][k].status = item[m][k].status \/ todoEvents' # todoEvents]_(T!vars)
  <2> SUFFICES ASSUME TodosInv, T!Next, NEW m \in Message, NEW k \in T!Keys, item[m][k].touched
               PROVE  /\ item'[m][k].touched /\ item'[m][k].shown = item[m][k].shown
                      /\ item'[m][k].status = item[m][k].status \/ todoEvents' # todoEvents
    OBVIOUS
  <2>t. item \in [Message -> [T!Keys -> TodoItems]] /\ todoEvents \in Nat
    BY DEF TodosInv, ItemsTyped, TasksTyped
  <2>1. CASE item' = item
    BY <2>1
  <2>2. ASSUME NEW w \in Workers, T!Project(w)
        PROVE  /\ item'[m][k].touched /\ item'[m][k].shown = item[m][k].shown
               /\ item'[m][k].status = item[m][k].status
    <3>1. PICK t : t = todoTask[w]
      OBVIOUS
    <3>2. CASE m = t.m
      BY <2>2, <3>1, <3>2, ProjectWrites
    <3>3. CASE m # t.m
      <4>1. item'[m][k] = item[m][k]
        BY <2>2, <3>1, <3>3, ProjectWrites
      <4> QED
        BY <4>1
    <3> QED
      BY <3>2, <3>3
  <2>3. ASSUME NEW n \in Message, NEW j \in T!Keys, T!Tick(n, j)
        PROVE  /\ item'[m][k].touched /\ item'[m][k].shown = item[m][k].shown
               /\ todoEvents' # todoEvents
    <3>1. PICK s \in {"done", "open"} :
            item' = [item EXCEPT ![n][j] = [item[n][j] EXCEPT !.status = s, !.touched = TRUE]]
      BY <2>3 DEF T!Tick
    <3> DEFINE row == [item[n][j] EXCEPT !.status = s, !.touched = TRUE]
    <3>2. row.touched /\ row.shown = item[n][j].shown
      <4>1. item[n][j] \in TodoItems
        BY <2>t
      <4>2. row.touched
        BY <4>1 DEF TodoItems
      <4>3. row.shown = item[n][j].shown
        BY <4>1 DEF TodoItems
      <4> QED
        BY <4>2, <4>3
    <3>3. item' = [item EXCEPT ![n] = [item[n] EXCEPT ![j] = row]]
      BY <3>1
    <3> HIDE DEF row
    <3>4. item'[n][j] = row /\ (m # n \/ k # j => item'[m][k] = item[m][k])
      BY <2>t, <3>3
    <3>5. todoEvents' = todoEvents + 1
      BY <2>3 DEF T!Tick, T!Event
    <3> QED
      BY <2>t, <3>2, <3>4, <3>5
  <2>4. item' = item \/ (\E w \in Workers : T!Project(w)) \/ (\E n \in Message, j \in T!Keys : T!Tick(n, j))
    BY DEF T!Next, T!Extract, T!Assign, T!Merge, T!Ask, T!DieOrganising, T!List, T!Claim,
           T!ReadMatter, T!ReadContext, T!Fail, T!Lapse
  <2> QED
    BY <2>1, <2>2, <2>3, <2>4
<1> QED
  BY <1>1, TodosInvInitially, TodosInvInductive, PTL DEF T!Spec, ChoicesStand, T!ChoicesStand

-----------------------------------------------------------------------------
(* The generations: the inductive invariant.                               *)

(* Jobs and tasks are of a generation; a worker that lists or counts holds *)
(* a bootstrap or a finalisation.                                          *)
GenJobs == {j \in G!Jobs : /\ j.kind # "none" /\ j.g \in G!Gens
                           /\ j.kind = "boot" <=> j.scope \in G!Scopes
                           /\ j.kind = "organise" => j.arg \in G!Messages}
GenTaskKnown(t) ==
    \/ t.pc = "idle" /\ t.job = G!NoJob
    \/ t.pc \in {"page", "next"} /\ t.job \in GenJobs /\ t.job.kind = "boot"
    \/ t.pc \in {"count", "read", "end"} /\ t.job \in GenJobs /\ t.job.kind = "final"
GenJobsKnown == /\ genQueue \subseteq GenJobs /\ genLater \subseteq GenJobs
                /\ \A w \in Workers : GenTaskKnown(genTask[w])

(* A generation has one bootstrap at a time over all its mail, and one of  *)
(* those that follow a promotion.                                          *)
Kin(i, j) == i.kind = "boot" /\ j.kind = "boot" /\ i.g = j.g /\ (i.scope = "all" <=> j.scope = "all")
OneBootEach ==
    /\ \A i, j \in genQueue \cup genLater : Kin(i, j) => i = j
    /\ \A i \in genQueue, j \in genLater : ~Kin(i, j)
    /\ \A w \in Workers : \A j \in genQueue \cup genLater : ~Kin(genTask[w].job, j)
    /\ \A w, v \in Workers : w # v => ~Kin(genTask[w].job, genTask[v].job)

(* Each is asked for once, the second after the promotion.                 *)
BootOnce(j) ==
    j.kind = "boot" =>
      /\ gen[j.g].status # "none"
      /\ j.scope = "all" => <<"boot", j.g>> \notin request
      /\ j.scope # "all" => /\ gen[j.g].status \notin {"building", "shadow"}
                            /\ <<"promote", j.g>> \notin request /\ <<"again", j.g>> \notin request
BootsOnce == /\ \A j \in genQueue \cup genLater : BootOnce(j)
             /\ \A w \in Workers : BootOnce(genTask[w].job)

RequestsKnown ==
    /\ \A r \in request : gen[r[2]].status # "none"
    /\ \A g \in G!Gens : <<"again", g>> \in request =>
         gen[g].status \notin {"building", "shadow"} /\ <<"promote", g>> \notin request

(* What a finalisation read as being rebuilt was no preview.               *)
ReadsKnown ==
    \A w \in Workers : genTask[w].pc = "end" /\ genTask[w].status = "building" =>
      gen[genTask[w].job.g].status \notin {"none", "shadow"}

(* Where a message stands in the list of a bootstrap, and whether a        *)
(* bootstrap that goes on at an offset is still to list it.                *)
Waits(g, scope) == (mail \cap G!InScope(scope)) \ done[g]
Place(L, m) == Cardinality({n \in L : n < m})
Rank(g, scope, m) == Place(Waits(g, scope), m)
Follows(j, g, m) == j.kind = "boot" /\ j.g = g /\ j.scope = "recent" /\ m \notin Recent
Lists(j, g, m, offset) ==
    \/ j.kind = "boot" /\ j.g = g /\ m \in G!InScope(j.scope) /\ Rank(g, j.scope, m) >= offset
    \/ Follows(j, g, m)

ToOrganise(g, m) == \E j \in genQueue \cup genLater : j.kind = "organise" /\ j.g = g /\ j.arg = m
ToBeAsked(g) == <<"boot", g>> \in request \/ <<"again", g>> \in request
ToBeListed(g, m) == \E j \in genQueue \cup genLater : Lists(j, g, m, j.arg)
ToBeListedBy(w, g, m) ==
    LET t == genTask[w]
    IN \/ t.pc = "page" /\ Lists(t.job, g, m, t.job.arg)
       \/ t.pc = "next" /\ G!Full(t.page) /\ Lists(t.job, g, m, t.job.arg + PageSize)
       \/ t.pc = "next" /\ Follows(t.job, g, m)

(* A message that is yet to be organised is queued, is yet to be listed,   *)
(* or a race or a fault is known to have left it behind.                   *)
Accounted(g, m) ==
    \/ <<g, m>> \in genExcused \/ ToOrganise(g, m) \/ ToBeAsked(g) \/ ToBeListed(g, m)
    \/ \E w \in Workers : ToBeListedBy(w, g, m)
Claims(g) == gen[g].status \in {"active", "building"}
AllAccounted == \A g \in G!Gens : Claims(g) => \A m \in mail \ done[g] : Accounted(g, m)

GenerationsInv ==
    /\ G!TypeOK /\ GenJobsKnown /\ OneBootEach /\ BootsOnce /\ RequestsKnown /\ ReadsKnown /\ AllAccounted

(* The jobs that are queued, and what enqueue_job does with them.          *)
LEMMA BootIsJob ==
  ASSUME NEW g \in G!Gens, NEW s \in G!Scopes, NEW n \in Nat
  PROVE  LET j == G!Boot(g, s, n)
         IN j \in GenJobs /\ j.kind = "boot" /\ j.g = g /\ j.arg = n /\ j.scope = s
BY GenerationsAssumption DEF G!GenerationsAssumption, G!Boot, GenJobs, G!Jobs, G!Gens, G!Scopes

LEMMA OrganiseIsJob ==
  ASSUME NEW g \in G!Gens, NEW m \in G!Messages, NEW n \in {0, 2, 4}
  PROVE  LET j == G!Organise(g, m, n)
         IN j \in GenJobs /\ j.kind = "organise" /\ j.g = g /\ j.arg = m
BY GenerationsAssumption
   DEF G!GenerationsAssumption, G!Organise, GenJobs, G!Jobs, G!Gens, G!Scopes, G!Messages

LEMMA FinalIsJob ==
  ASSUME NEW g \in G!Gens
  PROVE  LET j == G!Final(g) IN j \in GenJobs /\ j.kind = "final" /\ j.g = g
BY GenerationsAssumption DEF G!GenerationsAssumption, G!Final, GenJobs, G!Jobs, G!Gens, G!Scopes, G!None

LEMMA NoGenJob == G!NoJob \in G!Jobs /\ G!NoJob.kind = "none"
BY GenerationsAssumption DEF G!GenerationsAssumption, G!NoJob, G!Jobs, G!None

LEMMA Enqueued ==
  ASSUME NEW js, G!Enqueue(js)
  PROVE  /\ genQueue \subseteq genQueue' /\ genQueue' \subseteq genQueue \cup js
         /\ \A j \in js : \/ j \in genQueue'
                          \/ \E i \in genQueue \cup genLater \cup G!Running : G!Same(i, j)
BY DEF G!Enqueue, G!Held

LEMMA GenTaskFields ==
  ASSUME G!TypeOK, NEW w \in Workers
  PROVE  /\ genTask[w].pc \in {"idle", "page", "next", "count", "read", "end"}
         /\ genTask[w].job \in G!Jobs /\ genTask[w].page \subseteq G!Messages
         /\ genTask[w].status \in G!Live \cup {"none", "superseded", "deleted"}
BY DEF G!TypeOK

LEMMA StoppedTasks ==
  ASSUME G!TypeOK, GenJobsKnown, NEW w \in Workers, G!Stop(w)
  PROVE  /\ genTask' \in [Workers -> [pc : {"idle", "page", "next", "count", "read", "end"}, job : G!Jobs,
                                      page : SUBSET G!Messages, status : G!Live \cup {"none", "superseded", "deleted"}]]
         /\ genTask'[w].pc = "idle" /\ genTask'[w].job = G!NoJob
         /\ \A v \in Workers : v # w => genTask'[v] = genTask[v]
         /\ \A v \in Workers : GenTaskKnown(genTask'[v])
<1>1. G!Idle \in [pc : {"idle", "page", "next", "count", "read", "end"}, job : G!Jobs,
                  page : SUBSET G!Messages, status : G!Live \cup {"none", "superseded", "deleted"}]
  BY NoGenJob DEF G!Idle
<1>2. G!Idle.pc = "idle" /\ G!Idle.job = G!NoJob
  BY DEF G!Idle
<1> QED BY <1>1, <1>2 DEF G!Stop, G!TypeOK, GenJobsKnown, GenTaskKnown

(* How generations change their status.                                    *)
GenRows == [status : G!Live \cup {"none", "superseded", "deleted"}, complete : BOOLEAN]
ProfileRows == [consent : BOOLEAN, enabled : BOOLEAN, mode : {"disabled", "live", "shadow"}, active : 0..MaxGen]

LEMMA Become ==
  ASSUME G!TypeOK, NEW gs, NEW s \in G!Live \cup {"none", "superseded", "deleted"}
  PROVE  /\ G!Become(gs, s) \in [G!Gens -> GenRows]
         /\ \A g \in G!Gens : G!Become(gs, s)[g].status = IF g \in gs THEN s ELSE gen[g].status
BY DEF G!TypeOK, G!Become, GenRows

(* A promotion: one generation becomes active and the others' jobs go.     *)
LEMMA PromotedTyped ==
  ASSUME G!TypeOK, NEW g \in G!Gens, G!Promoted(g)
  PROVE  /\ gen' \in [G!Gens -> GenRows] /\ profile' \in ProfileRows
         /\ genQueue' \subseteq genQueue /\ genLater' \subseteq genLater
<1>1. CASE G!Promotable(g)
  <2>1. gen' = [G!Become(G!Superseded(g), "superseded") EXCEPT ![g] = [status |-> "active", complete |-> TRUE]]
    BY <1>1 DEF G!Promoted
  <2>2. G!Become(G!Superseded(g), "superseded") \in [G!Gens -> GenRows]
    BY Become
  <2>3. [status |-> "active", complete |-> TRUE] \in GenRows
    BY DEF GenRows, G!Live
  <2>4. profile' \in ProfileRows
    <3>1. profile \in ProfileRows /\ g \in 0..MaxGen
      BY GenerationsAssumption DEF G!TypeOK, ProfileRows, G!Gens, G!GenerationsAssumption
    <3>2. profile' = [profile EXCEPT !.active = g, !.enabled = TRUE, !.mode = "live"]
      BY <1>1 DEF G!Promoted
    <3> QED BY <3>1, <3>2 DEF ProfileRows
  <2> QED BY <1>1, <2>1, <2>2, <2>3, <2>4 DEF G!Promoted, G!Without
<1>2. CASE ~G!Promotable(g)
  BY <1>2 DEF G!Promoted, G!TypeOK, GenRows, ProfileRows, G!queue
<1> QED BY <1>1, <1>2

LEMMA PromotedStatus ==
  ASSUME G!TypeOK, NEW g \in G!Gens, G!Promoted(g), NEW h \in G!Gens
  PROVE  \/ gen'[h].status = gen[h].status
         \/ h = g /\ gen[g].status \in {"building", "shadow"} /\ gen'[g].status = "active"
         \/ h # g /\ gen[h].status = "active" /\ gen'[h].status = "superseded"
<1>1. CASE G!Promotable(g)
  <2>1. gen' = [G!Become(G!Superseded(g), "superseded") EXCEPT ![g] = [status |-> "active", complete |-> TRUE]]
    BY <1>1 DEF G!Promoted
  <2>2. G!Become(G!Superseded(g), "superseded") \in [G!Gens -> GenRows]
    BY Become
  <2>3. G!Become(G!Superseded(g), "superseded")[h].status
          = IF h \in G!Superseded(g) THEN "superseded" ELSE gen[h].status
    BY Become
  <2>4. h \in G!Superseded(g) => gen[h].status = "active" /\ h # g
    BY DEF G!Superseded, G!With
  <2>5. CASE h = g
    BY <1>1, <2>1, <2>2, <2>5 DEF G!Promotable
  <2>6. CASE h # g
    BY <2>1, <2>2, <2>3, <2>4, <2>6
  <2> QED BY <2>5, <2>6
<1>2. CASE ~G!Promotable(g)
  BY <1>2 DEF G!Promoted
<1> QED BY <1>1, <1>2

(* It cancels finalisations and the jobs of what it superseded.            *)
LEMMA PromotedKeeps ==
  ASSUME G!TypeOK, NEW g \in G!Gens, G!Promoted(g), NEW j, j.g \in G!Gens
  PROVE  /\ j \in genQueue => j \in genQueue' \/ j = G!Final(g) \/ gen'[j.g].status = "superseded"
         /\ j \in genLater => j \in genLater' \/ j = G!Final(g) \/ gen'[j.g].status = "superseded"
<1>1. CASE G!Promotable(g)
  <2>1. gen' = [G!Become(G!Superseded(g), "superseded") EXCEPT ![g] = [status |-> "active", complete |-> TRUE]]
    BY <1>1 DEF G!Promoted
  <2>2. G!Become(G!Superseded(g), "superseded") \in [G!Gens -> GenRows]
    BY Become
  <2>3. j.g \in G!Superseded(g) => gen'[j.g].status = "superseded"
    <3>1. j.g \in G!Superseded(g) => G!Become(G!Superseded(g), "superseded")[j.g].status = "superseded" /\ j.g # g
      BY Become DEF G!Superseded
    <3> QED BY <2>1, <2>2, <3>1
  <2> QED BY <1>1, <2>3 DEF G!Promoted, G!Without
<1>2. CASE ~G!Promotable(g)
  BY <1>2 DEF G!Promoted, G!queue
<1> QED BY <1>1, <1>2

(* Types hold and jobs and tasks stay known.                               *)
LEMMA RequestsTyped ==
  ASSUME G!TypeOK, GenJobsKnown,
         \/ \E c, e, b \in BOOLEAN : G!Update(c, e, b)
         \/ G!StartShadow \/ G!DeleteData \/ (\E g \in G!Gens : G!AskPromote(g))
         \/ \E r \in request : G!Ask(r) \/ G!Promote(r) \/ G!RequestDies(r)
  PROVE  (G!TypeOK /\ GenJobsKnown)'
<1> USE GenerationsAssumption DEF G!GenerationsAssumption
<1>0. gen \in [G!Gens -> GenRows] /\ profile \in ProfileRows /\ request \subseteq {"boot", "promote", "again"} \X G!Gens
  BY DEF G!TypeOK, GenRows, ProfileRows
<1>1. ASSUME NEW c \in BOOLEAN, NEW e \in BOOLEAN, NEW b \in BOOLEAN, G!Update(c, e, b)
      PROVE  (G!TypeOK /\ GenJobsKnown)'
  <2>1. gen' \in [G!Gens -> GenRows] /\ profile' \in ProfileRows /\ request' \subseteq {"boot", "promote", "again"} \X G!Gens
    <3>1. PICK g \in G!Fresh \cup {G!None} :
            /\ gen' = IF g = G!None THEN gen ELSE G!Become({g}, IF profile.active = G!None THEN "active" ELSE "building")
            /\ profile' = [consent |-> c, enabled |-> c /\ e, mode |-> IF c /\ e THEN "live" ELSE "disabled",
                           active |-> IF profile.active = G!None /\ g # G!None THEN g ELSE profile.active]
            /\ request' = request \cup ({"boot"} \X ({g} \ {G!None}))
      BY <1>1 DEF G!Update
    <3>2. gen' \in [G!Gens -> GenRows]
      <4>1. G!Become({g}, "active") \in [G!Gens -> GenRows] /\ G!Become({g}, "building") \in [G!Gens -> GenRows]
        BY Become DEF G!Live
      <4> QED BY <1>0, <3>1, <4>1
    <3>3. g \in 0..MaxGen /\ (g # G!None => g \in G!Gens)
      BY DEF G!Fresh, G!None, G!Gens
    <3> QED BY <1>0, <3>1, <3>2, <3>3 DEF ProfileRows
  <2>2. UNCHANGED <<mail, done, G!queue, genTask, genExcused>> /\ requests' \in 0..MaxRequests /\ genFaults' = genFaults
    BY <1>1 DEF G!Update, G!Request, G!TypeOK
  <2> QED BY <2>1, <2>2 DEF G!TypeOK, GenJobsKnown, GenTaskKnown, G!queue, GenRows, ProfileRows
<1>2. ASSUME G!StartShadow
      PROVE  (G!TypeOK /\ GenJobsKnown)'
  <2>1. gen' \in [G!Gens -> GenRows] /\ request' \subseteq {"boot", "promote", "again"} \X G!Gens
    <3>1. PICK g \in G!Fresh : /\ gen' = [G!Become(G!With("shadow"), "superseded") EXCEPT ![g].status = "shadow"]
                               /\ request' = request \cup {<<"boot", g>>}
      BY <1>2 DEF G!StartShadow
    <3>2. G!Become(G!With("shadow"), "superseded") \in [G!Gens -> GenRows]
      BY Become
    <3>3. g \in G!Gens
      BY DEF G!Fresh
    <3> QED BY <1>0, <3>1, <3>2, <3>3 DEF GenRows, G!Live
  <2>2. profile' \in ProfileRows
    BY <1>0, <1>2 DEF G!StartShadow, ProfileRows
  <2>3. /\ UNCHANGED <<mail, done, genTask, genExcused>> /\ requests' \in 0..MaxRequests /\ genFaults' = genFaults
        /\ genQueue' \subseteq genQueue /\ genLater' \subseteq genLater
    BY <1>2 DEF G!StartShadow, G!Request, G!TypeOK, G!Without
  <2> QED BY <2>1, <2>2, <2>3 DEF G!TypeOK, GenJobsKnown, GenTaskKnown, GenRows, ProfileRows
<1>3. ASSUME G!DeleteData
      PROVE  (G!TypeOK /\ GenJobsKnown)'
  <2>1. gen' \in [G!Gens -> GenRows]
    BY <1>3, Become DEF G!DeleteData
  <2>2. profile' \in ProfileRows
    BY <1>3 DEF G!DeleteData, G!NoProfile, ProfileRows, G!None
  <2>3. /\ UNCHANGED <<mail, G!queue, genTask, request, genExcused>> /\ requests' \in 0..MaxRequests /\ genFaults' = genFaults
        /\ done' \in [G!Gens -> SUBSET G!Messages]
    BY <1>3 DEF G!DeleteData, G!Request, G!TypeOK
  <2> QED BY <2>1, <2>2, <2>3 DEF G!TypeOK, GenJobsKnown, GenTaskKnown, G!queue, GenRows, ProfileRows
<1>4. ASSUME NEW g \in G!Gens, G!AskPromote(g)
      PROVE  (G!TypeOK /\ GenJobsKnown)'
  BY <1>4 DEF G!AskPromote, G!Request, G!TypeOK, GenJobsKnown, GenTaskKnown, G!queue
<1>5. ASSUME NEW r \in request, G!Ask(r)
      PROVE  (G!TypeOK /\ GenJobsKnown)'
  <2>1. r[2] \in G!Gens
    BY <1>0
  <2>2. genQueue' \subseteq GenJobs
    <3>1. G!Boot(r[2], IF r[1] = "boot" THEN "all" ELSE "recent", 0) \in GenJobs
      BY <2>1, BootIsJob DEF G!Scopes
    <3> QED BY <1>5, <3>1, Enqueued DEF G!Ask, GenJobsKnown
  <2> QED BY <1>5, <2>2 DEF G!Ask, G!TypeOK, GenJobsKnown, GenTaskKnown, G!bounds, GenJobs
<1>6. ASSUME NEW r \in request, G!Promote(r)
      PROVE  (G!TypeOK /\ GenJobsKnown)'
  <2>1. r[2] \in G!Gens
    BY <1>0
  <2>2. G!Promoted(r[2])
    BY <1>6 DEF G!Promote
  <2>3. /\ gen' \in [G!Gens -> GenRows] /\ profile' \in ProfileRows
        /\ genQueue' \subseteq genQueue /\ genLater' \subseteq genLater
    BY <2>1, <2>2, PromotedTyped
  <2>4. request' \subseteq {"boot", "promote", "again"} \X G!Gens
    BY <1>0, <1>6, <2>1 DEF G!Promote
  <2>5. UNCHANGED <<mail, done, genTask, genExcused, requests, genFaults>>
    BY <1>6 DEF G!Promote, G!bounds
  <2> QED BY <2>3, <2>4, <2>5 DEF G!TypeOK, GenJobsKnown, GenTaskKnown, GenRows, ProfileRows
<1>7. ASSUME NEW r \in request, G!RequestDies(r)
      PROVE  (G!TypeOK /\ GenJobsKnown)'
  <2>1. genExcused' \subseteq (G!Gens \X (G!Messages \cup {G!None}))
    BY <1>0, <1>7 DEF G!RequestDies, G!TypeOK
  <2> QED BY <1>7, <2>1 DEF G!RequestDies, G!Fault, G!TypeOK, GenJobsKnown, GenTaskKnown, G!queue
<1> QED BY <1>1, <1>2, <1>3, <1>4, <1>5, <1>6, <1>7

GenTaskRows == [pc : {"idle", "page", "next", "count", "read", "end"}, job : G!Jobs,
                page : SUBSET G!Messages, status : G!Live \cup {"none", "superseded", "deleted"}]

(* A worker goes on to t.                                                  *)
LEMMA TakesUp ==
  ASSUME G!TypeOK, GenJobsKnown, NEW w \in Workers, NEW t \in GenTaskRows, GenTaskKnown(t),
         genTask' = [genTask EXCEPT ![w] = t]
  PROVE  genTask' \in [Workers -> GenTaskRows] /\ \A v \in Workers : GenTaskKnown(genTask'[v])
BY DEF G!TypeOK, GenTaskRows, GenJobsKnown, GenTaskKnown

LEMMA OthersTyped ==
  ASSUME G!TypeOK, GenJobsKnown, genTask' \in [Workers -> GenTaskRows], \A v \in Workers : GenTaskKnown(genTask'[v]),
         genQueue' \subseteq GenJobs, genLater' \subseteq GenJobs,
         UNCHANGED <<gen, profile, mail, request>>, done' \in [G!Gens -> SUBSET G!Messages],
         genExcused' \subseteq (G!Gens \X (G!Messages \cup {G!None})),
         requests' \in 0..MaxRequests, genFaults' \in 0..MaxGenFaults
  PROVE  (G!TypeOK /\ GenJobsKnown)'
BY DEF G!TypeOK, GenTaskRows, GenJobsKnown, GenJobs, GenTaskKnown

LEMMA WorkTyped ==
  ASSUME G!TypeOK, GenJobsKnown, NEW w \in Workers,
         \/ G!OrganiseMessage(w) \/ G!BeginBoot(w) \/ G!ListPage(w) \/ G!NextPage(w)
         \/ G!BeginFinal(w) \/ G!Count(w) \/ G!ReadStatus(w) \/ G!Fail(w)
  PROVE  (G!TypeOK /\ GenJobsKnown)'
<1>0. /\ genTask \in [Workers -> GenTaskRows] /\ done \in [G!Gens -> SUBSET G!Messages]
      /\ genQueue \subseteq GenJobs /\ genLater \subseteq GenJobs /\ genTask[w] \in GenTaskRows
      /\ genExcused \subseteq (G!Gens \X (G!Messages \cup {G!None}))
      /\ requests \in 0..MaxRequests /\ genFaults \in 0..MaxGenFaults
      /\ GenTaskKnown(genTask[w]) /\ \A v \in Workers : GenTaskKnown(genTask[v])
  BY DEF G!TypeOK, GenTaskRows, GenJobsKnown
<1>1. ASSUME G!OrganiseMessage(w)
      PROVE  (G!TypeOK /\ GenJobsKnown)'
  <2>1. PICK j \in genQueue :
          /\ j.kind = "organise" /\ G!Claim(w, j)
          /\ IF gen[j.g].status \in G!Live /\ (profile.enabled \/ gen[j.g].status = "shadow")
               THEN /\ done' = [done EXCEPT ![j.g] = @ \cup {j.arg}]
                    /\ genExcused' = IF G!Paging(j.g, j.arg) THEN genExcused \cup ({j.g} \X G!Messages) ELSE genExcused
               ELSE genExcused' = genExcused \cup {<<j.g, j.arg>>} /\ UNCHANGED done
    BY <1>1 DEF G!OrganiseMessage
  <2>2. j.g \in G!Gens /\ j.arg \in G!Messages
    BY <1>0, <2>1 DEF GenJobs
  <2>3. done' \in [G!Gens -> SUBSET G!Messages] /\ genExcused' \subseteq (G!Gens \X (G!Messages \cup {G!None}))
    BY <1>0, <2>1, <2>2
  <2>4. genQueue' \subseteq genQueue
    BY <2>1 DEF G!Claim
  <2>5. UNCHANGED <<profile, gen, mail, genLater, genTask, request, requests, genFaults>>
    BY <1>1 DEF G!OrganiseMessage, G!bounds
  <2> QED BY <1>0, <2>3, <2>4, <2>5, OthersTyped
<1>2. ASSUME G!BeginBoot(w)
      PROVE  (G!TypeOK /\ GenJobsKnown)'
  <2>1. PICK j \in genQueue :
          /\ j.kind = "boot" /\ G!Claim(w, j)
          /\ IF gen[j.g].status \in G!Live
               THEN genTask' = [genTask EXCEPT ![w] = [G!Idle EXCEPT !.pc = "page", !.job = j]]
               ELSE UNCHANGED genTask
    BY <1>2 DEF G!BeginBoot
  <2> DEFINE t == [G!Idle EXCEPT !.pc = "page", !.job = j]
  <2>2. t \in GenTaskRows /\ GenTaskKnown(t)
    BY <1>0, <2>1, NoGenJob DEF G!Idle, GenTaskRows, GenTaskKnown, GenJobs
  <2> HIDE DEF t
  <2>3. genTask' \in [Workers -> GenTaskRows] /\ \A v \in Workers : GenTaskKnown(genTask'[v])
    BY <1>0, <2>1, <2>2, TakesUp DEF t
  <2>4. genQueue' \subseteq genQueue
    BY <2>1 DEF G!Claim
  <2>5. UNCHANGED <<profile, gen, mail, done, genLater, request, genExcused, requests, genFaults>>
    BY <1>2 DEF G!BeginBoot, G!bounds
  <2> QED BY <1>0, <2>3, <2>4, <2>5, OthersTyped
<1>3. ASSUME G!ListPage(w)
      PROVE  (G!TypeOK /\ GenJobsKnown)'
  <2> DEFINE j == genTask[w].job
             page == G!Page(j.g, j.scope, j.arg)
             t == [genTask[w] EXCEPT !.pc = "next", !.page = page]
  <2>1. /\ genTask[w].pc = "page" /\ genTask' = [genTask EXCEPT ![w].pc = "next", ![w].page = page]
        /\ G!Enqueue({G!Organise(j.g, m, IF j.scope = "history" THEN 0 ELSE 2) : m \in page})
        /\ UNCHANGED <<profile, gen, mail, done, genLater, request, genExcused, requests, genFaults>>
    BY <1>3 DEF G!ListPage, G!bounds
  <2>2. j \in GenJobs /\ j.kind = "boot" /\ j.g \in G!Gens
    BY <1>0, <2>1 DEF GenTaskKnown, GenJobs
  <2>3. page \subseteq G!Messages
    BY DEF G!Page, G!TypeOK
  <2> HIDE DEF page
  <2>4. t \in GenTaskRows /\ t.pc = "next" /\ t.job = j
    BY <1>0, <2>3 DEF GenTaskRows
  <2>5. genTask' = [genTask EXCEPT ![w] = t]
    BY <1>0, <2>1 DEF GenTaskRows
  <2>6. GenTaskKnown(t)
    BY <2>2, <2>4 DEF GenTaskKnown
  <2> HIDE DEF t, j
  <2>7. genTask' \in [Workers -> GenTaskRows] /\ \A v \in Workers : GenTaskKnown(genTask'[v])
    BY <1>0, <2>4, <2>5, <2>6, TakesUp
  <2>8. genQueue' \subseteq GenJobs
    <3>1. {G!Organise(j.g, m, IF j.scope = "history" THEN 0 ELSE 2) : m \in page} \subseteq GenJobs
      BY <2>2, <2>3, OrganiseIsJob
    <3> QED BY <1>0, <2>1, <3>1, Enqueued
  <2> QED BY <1>0, <2>1, <2>7, <2>8, OthersTyped
<1>4. ASSUME G!NextPage(w)
      PROVE  (G!TypeOK /\ GenJobsKnown)'
  <2> DEFINE j == genTask[w].job
             more == IF G!Full(genTask[w].page) THEN {G!Boot(j.g, j.scope, j.arg + PageSize)}
                     ELSE IF j.scope = "recent" THEN {G!Boot(j.g, "history", 0)} ELSE {}
  <2>1. /\ genTask[w].pc = "next" /\ G!Stop(w) /\ G!Enqueue(G!Finals(j.g) \cup more)
        /\ UNCHANGED <<profile, gen, mail, done, genLater, request, genExcused, requests, genFaults>>
    BY <1>4 DEF G!NextPage, G!bounds
  <2>2. j \in GenJobs /\ j.g \in G!Gens /\ j.scope \in G!Scopes /\ j.arg \in Nat
    BY <1>0, <2>1 DEF GenTaskKnown, GenJobs, G!Jobs
  <2>3. more \subseteq GenJobs
    <3>1. j.arg + PageSize \in Nat
      BY <2>2, GenerationsAssumption DEF G!GenerationsAssumption
    <3>2. G!Boot(j.g, j.scope, j.arg + PageSize) \in GenJobs /\ G!Boot(j.g, "history", 0) \in GenJobs
      BY <2>2, <3>1, BootIsJob DEF G!Scopes
    <3> QED BY <3>2
  <2>4. G!Finals(j.g) \subseteq GenJobs
    BY <2>2, FinalIsJob DEF G!Finals
  <2> HIDE DEF j, more
  <2>5. genQueue' \subseteq GenJobs
    BY <1>0, <2>1, <2>3, <2>4, Enqueued
  <2>6. genTask' \in [Workers -> GenTaskRows] /\ \A v \in Workers : GenTaskKnown(genTask'[v])
    BY <2>1, StoppedTasks DEF GenTaskRows
  <2> QED BY <1>0, <2>1, <2>5, <2>6, OthersTyped
<1>5. ASSUME G!BeginFinal(w)
      PROVE  (G!TypeOK /\ GenJobsKnown)'
  <2>1. PICK j \in genQueue :
          /\ j.kind = "final" /\ G!Claim(w, j)
          /\ genTask' = [genTask EXCEPT ![w] = [G!Idle EXCEPT !.pc = "count", !.job = j]]
    BY <1>5 DEF G!BeginFinal
  <2> DEFINE t == [G!Idle EXCEPT !.pc = "count", !.job = j]
  <2>2. t \in GenTaskRows /\ GenTaskKnown(t)
    BY <1>0, <2>1, NoGenJob DEF G!Idle, GenTaskRows, GenTaskKnown, GenJobs
  <2> HIDE DEF t
  <2>3. genTask' \in [Workers -> GenTaskRows] /\ \A v \in Workers : GenTaskKnown(genTask'[v])
    BY <1>0, <2>1, <2>2, TakesUp DEF t
  <2>4. genQueue' \subseteq genQueue
    BY <2>1 DEF G!Claim
  <2>5. UNCHANGED <<profile, gen, mail, done, genLater, request, genExcused, requests, genFaults>>
    BY <1>5 DEF G!BeginFinal, G!bounds
  <2> QED BY <1>0, <2>3, <2>4, <2>5, OthersTyped
<1>6. ASSUME G!Count(w)
      PROVE  (G!TypeOK /\ GenJobsKnown)'
  <2> DEFINE t == [genTask[w] EXCEPT !.pc = "read"]
  <2>1. genTask[w].job \in GenJobs /\ genTask[w].job.kind = "final" /\ genTask[w].job.g \in G!Gens
    BY <1>0, <1>6 DEF G!Count, GenTaskKnown, GenJobs
  <2>2. genTask' \in [Workers -> GenTaskRows] /\ \A v \in Workers : GenTaskKnown(genTask'[v])
    <3>1. t \in GenTaskRows /\ t.pc = "read" /\ t.job = genTask[w].job
      BY <1>0 DEF GenTaskRows
    <3>2. GenTaskKnown(t)
      BY <2>1, <3>1 DEF GenTaskKnown
    <3>3. G!Goto(w, "read") => genTask' = [genTask EXCEPT ![w] = t]
      BY <1>0 DEF G!Goto
    <3>4. CASE G!Goto(w, "read")
      <4> HIDE DEF t
      <4> QED BY <3>1, <3>2, <3>3, <3>4, TakesUp
    <3>5. CASE G!Stop(w)
      BY <3>5, StoppedTasks DEF GenTaskRows
    <3> QED BY <1>6, <3>4, <3>5 DEF G!Count
  <2>3. genLater' \subseteq GenJobs /\ genQueue' = genQueue
    BY <1>0, <1>6, <2>1, FinalIsJob DEF G!Count
  <2>4. UNCHANGED <<profile, gen, mail, done, request, genExcused, requests, genFaults>>
    BY <1>6 DEF G!Count, G!bounds
  <2> QED BY <1>0, <2>2, <2>3, <2>4, OthersTyped
<1>7. ASSUME G!ReadStatus(w)
      PROVE  (G!TypeOK /\ GenJobsKnown)'
  <2> DEFINE s == gen[genTask[w].job.g].status
             t == [genTask[w] EXCEPT !.pc = "end", !.status = s]
  <2>1. /\ genTask[w].job \in GenJobs /\ genTask[w].job.kind = "final"
        /\ s \in G!Live \cup {"none", "superseded", "deleted"}
    BY <1>0, <1>7 DEF G!ReadStatus, GenTaskKnown, GenJobs, G!TypeOK
  <2> HIDE DEF s
  <2>2. t \in GenTaskRows /\ t.pc = "end" /\ t.job = genTask[w].job
    BY <1>0, <2>1 DEF GenTaskRows
  <2>3. genTask' = [genTask EXCEPT ![w] = t]
    BY <1>0, <1>7 DEF G!ReadStatus, s
  <2>4. GenTaskKnown(t)
    BY <2>1, <2>2 DEF GenTaskKnown
  <2> HIDE DEF t
  <2>5. genTask' \in [Workers -> GenTaskRows] /\ \A v \in Workers : GenTaskKnown(genTask'[v])
    BY <1>0, <2>2, <2>3, <2>4, TakesUp
  <2>6. UNCHANGED <<profile, gen, mail, done, genQueue, genLater, request, genExcused, requests, genFaults>>
    BY <1>7 DEF G!ReadStatus, G!bounds, G!queue
  <2> QED BY <1>0, <2>5, <2>6, OthersTyped
<1>8. ASSUME G!Fail(w)
      PROVE  (G!TypeOK /\ GenJobsKnown)'
  <2>1. genTask[w].job \in GenJobs
    BY <1>0, <1>8 DEF G!Fail, GenTaskKnown
  <2>2. genTask' \in [Workers -> GenTaskRows] /\ \A v \in Workers : GenTaskKnown(genTask'[v])
    BY <1>8, StoppedTasks DEF G!Fail, GenTaskRows
  <2>3. genFaults' \in 0..MaxGenFaults /\ requests' = requests
    BY <1>0, <1>8, GenerationsAssumption DEF G!Fail, G!Fault, G!GenerationsAssumption
  <2>4. UNCHANGED <<profile, gen, mail, done, genQueue, request, genExcused>> /\ genLater' \subseteq GenJobs
    BY <1>0, <1>8, <2>1 DEF G!Fail
  <2> QED BY <1>0, <2>2, <2>3, <2>4, OthersTyped
<1> QED BY <1>1, <1>2, <1>3, <1>4, <1>5, <1>6, <1>7, <1>8

LEMMA RestTyped ==
  ASSUME G!TypeOK, GenJobsKnown,
         \/ \E m \in G!Messages : G!Arrive(m)
         \/ \E w \in Workers : G!End(w)
         \/ G!Wake \/ UNCHANGED G!vars
  PROVE  (G!TypeOK /\ GenJobsKnown)'
<1>1. ASSUME NEW m \in G!Messages, G!Arrive(m)
      PROVE  (G!TypeOK /\ GenJobsKnown)'
  <2>1. {G!Organise(g, m, 4) : g \in G!Receivers} \subseteq GenJobs
    <3>1. G!Receivers \subseteq G!Gens
      BY GenerationsAssumption DEF G!Receivers, G!With, G!TypeOK, G!None, G!Gens, G!GenerationsAssumption
    <3> QED BY <3>1, OrganiseIsJob
  <2>2. genQueue' \subseteq GenJobs
    BY <1>1, <2>1, Enqueued DEF G!Arrive, GenJobsKnown
  <2>3. genExcused' \subseteq (G!Gens \X (G!Messages \cup {G!None}))
    BY <1>1 DEF G!Arrive, G!TypeOK, G!With
  <2>4. mail' \subseteq G!Messages /\ UNCHANGED <<profile, gen, done, genLater, genTask, request, requests, genFaults>>
    BY <1>1 DEF G!Arrive, G!TypeOK, G!bounds
  <2> QED BY <2>2, <2>3, <2>4 DEF G!TypeOK, GenJobsKnown, GenTaskKnown, GenJobs
<1>2. ASSUME NEW w \in Workers, G!End(w)
      PROVE  (G!TypeOK /\ GenJobsKnown)'
  <2> DEFINE g == genTask[w].job.g
  <2>1. /\ genTask[w].pc = "end" /\ G!Stop(w)
        /\ CASE genTask[w].status = "building" -> G!Promoted(g)
             [] genTask[w].status = "shadow" ->
                  /\ gen' = [gen EXCEPT ![g].complete = @ \/ gen[g].status = "shadow"]
                  /\ UNCHANGED <<profile, G!queue>>
             [] OTHER -> UNCHANGED <<profile, gen, G!queue>>
        /\ UNCHANGED <<mail, done, request, genExcused, requests, genFaults>>
    BY <1>2 DEF G!End, G!bounds
  <2>2. g \in G!Gens
    BY <2>1 DEF GenJobsKnown, GenTaskKnown, GenJobs
  <2> HIDE DEF g
  <2>3. /\ gen' \in [G!Gens -> GenRows] /\ profile' \in ProfileRows
        /\ genQueue' \subseteq genQueue /\ genLater' \subseteq genLater
    <3>0. gen \in [G!Gens -> GenRows] /\ profile \in ProfileRows
      BY DEF G!TypeOK, GenRows, ProfileRows
    <3>1. CASE genTask[w].status = "building"
      BY <2>1, <2>2, <3>1, PromotedTyped
    <3>2. CASE genTask[w].status = "shadow"
      BY <2>1, <2>2, <3>0, <3>2 DEF G!queue, GenRows
    <3>3. CASE genTask[w].status \notin {"building", "shadow"}
      BY <2>1, <3>0, <3>3 DEF G!queue
    <3> QED BY <3>1, <3>2, <3>3
  <2>4. genTask' \in [Workers -> GenTaskRows] /\ \A v \in Workers : GenTaskKnown(genTask'[v])
    BY <2>1, StoppedTasks DEF GenTaskRows
  <2> QED BY <2>1, <2>3, <2>4 DEF G!TypeOK, GenJobsKnown, GenTaskKnown, GenTaskRows, GenRows, ProfileRows
<1>3. ASSUME G!Wake
      PROVE  (G!TypeOK /\ GenJobsKnown)'
  <2>1. genQueue' \subseteq GenJobs /\ genLater' \subseteq GenJobs
    BY <1>3 DEF G!Wake, GenJobsKnown
  <2> QED BY <1>3, <2>1 DEF G!Wake, G!TypeOK, GenJobsKnown, GenTaskKnown, GenJobs, G!bounds
<1>4. ASSUME UNCHANGED G!vars
      PROVE  (G!TypeOK /\ GenJobsKnown)'
  BY <1>4 DEF G!vars, G!queue, G!bounds, G!TypeOK, GenJobsKnown, GenTaskKnown
<1> QED BY <1>1, <1>2, <1>3, <1>4

LEMMA GenerationsTyped ==
  ASSUME G!TypeOK, GenJobsKnown, [G!Next]_(G!vars)
  PROVE  (G!TypeOK /\ GenJobsKnown)'
BY RequestsTyped, WorkTyped, RestTyped DEF G!Next, G!Work

(* A generation goes from being made to being active, and then it is gone. *)
StatusMoves(g) ==
    \/ gen'[g].status = gen[g].status
    \/ gen[g].status = "none" /\ gen'[g].status \in G!Live
    \/ gen[g].status \in {"building", "shadow"} /\ gen'[g].status = "active"
    \/ gen[g].status \in {"active", "shadow"} /\ gen'[g].status = "superseded"
    \/ gen[g].status # "none" /\ gen'[g].status = "deleted"

LEMMA StatusSteps ==
  ASSUME G!TypeOK, GenJobsKnown, [G!Next]_(G!vars), NEW h \in G!Gens
  PROVE  StatusMoves(h)
<1>1. ASSUME NEW c \in BOOLEAN, NEW e \in BOOLEAN, NEW b \in BOOLEAN, G!Update(c, e, b)
      PROVE  StatusMoves(h)
  <2>1. PICK g \in G!Fresh \cup {G!None}, s \in {"active", "building"} :
          gen' = IF g = G!None THEN gen ELSE G!Become({g}, s)
    BY <1>1 DEF G!Update
  <2>2. g # G!None => gen[g].status = "none"
    BY <2>1 DEF G!Fresh
  <2>3. G!Become({g}, s)[h].status = IF h = g THEN s ELSE gen[h].status
    BY Become DEF G!Live
  <2> QED BY <2>1, <2>2, <2>3 DEF StatusMoves, G!Live
<1>2. ASSUME G!StartShadow
      PROVE  StatusMoves(h)
  <2>1. PICK g \in G!Fresh : gen' = [G!Become(G!With("shadow"), "superseded") EXCEPT ![g].status = "shadow"]
    BY <1>2 DEF G!StartShadow
  <2> DEFINE becoming == G!Become(G!With("shadow"), "superseded")
  <2>2. becoming \in [G!Gens -> GenRows] /\ becoming[h].status = IF h \in G!With("shadow") THEN "superseded" ELSE gen[h].status
    BY Become
  <2> HIDE DEF becoming
  <2>3. gen[g].status = "none" /\ g \in G!Gens
    BY DEF G!Fresh
  <2>4. h \in G!With("shadow") => gen[h].status = "shadow"
    BY DEF G!With
  <2>5. gen' = [becoming EXCEPT ![g].status = "shadow"]
    BY <2>1 DEF becoming
  <2> QED BY <2>2, <2>3, <2>4, <2>5 DEF StatusMoves, G!Live, GenRows
<1>3. ASSUME G!DeleteData
      PROVE  StatusMoves(h)
  BY <1>3, Become DEF G!DeleteData, StatusMoves
<1>4. ASSUME NEW g \in G!Gens, G!Promoted(g)
      PROVE  StatusMoves(h)
  BY <1>4, PromotedStatus DEF StatusMoves
<1>5. ASSUME NEW r \in request, G!Promote(r)
      PROVE  StatusMoves(h)
  BY <1>4, <1>5 DEF G!Promote, G!TypeOK
<1>6. ASSUME NEW w \in Workers, G!End(w)
      PROVE  StatusMoves(h)
  <2>1. genTask[w].job.g \in G!Gens
    BY <1>6 DEF G!End, GenJobsKnown, GenTaskKnown, GenJobs
  <2>2. CASE genTask[w].status = "building"
    BY <1>4, <1>6, <2>1, <2>2 DEF G!End
  <2>3. CASE genTask[w].status = "shadow"
    <3>1. gen' = [gen EXCEPT ![genTask[w].job.g].complete = @ \/ gen[genTask[w].job.g].status = "shadow"]
      BY <1>6, <2>3 DEF G!End
    <3> QED BY <2>1, <3>1 DEF StatusMoves, G!TypeOK
  <2>4. CASE genTask[w].status \notin {"building", "shadow"}
    BY <1>6, <2>4 DEF G!End, StatusMoves
  <2> QED BY <2>2, <2>3, <2>4
<1>7. ASSUME gen' = gen
      PROVE  StatusMoves(h)
  BY <1>7 DEF StatusMoves
<1>8. ASSUME \/ \E g \in G!Gens : G!AskPromote(g)
             \/ \E r \in request : G!Ask(r) \/ G!RequestDies(r)
             \/ \E m \in G!Messages : G!Arrive(m)
             \/ \E w \in Workers : \/ G!OrganiseMessage(w) \/ G!BeginBoot(w) \/ G!ListPage(w) \/ G!NextPage(w)
                                   \/ G!BeginFinal(w) \/ G!Count(w) \/ G!ReadStatus(w) \/ G!Fail(w)
             \/ G!Wake \/ UNCHANGED G!vars
      PROVE  gen' = gen
  BY <1>8 DEF G!AskPromote, G!Ask, G!RequestDies, G!Arrive, G!OrganiseMessage, G!BeginBoot, G!ListPage, G!NextPage,
              G!BeginFinal, G!Count, G!ReadStatus, G!Fail, G!Wake, G!vars
<1> QED BY <1>1, <1>2, <1>3, <1>5, <1>6, <1>7, <1>8 DEF G!Next, G!Work

(* A bootstrap is asked for when its generation is made, a promotion while *)
(* it is a preview, and the bootstrap after it when it was asked for.      *)
RequestMoves(g) ==
    /\ <<"boot", g>> \in request' => \/ <<"boot", g>> \in request
                                     \/ gen[g].status = "none" /\ gen'[g].status # "none"
    /\ <<"promote", g>> \in request' => <<"promote", g>> \in request \/ gen[g].status = "shadow"
    /\ <<"again", g>> \in request' =>
         \/ /\ <<"again", g>> \in request
            /\ <<"promote", g>> \in request' => <<"promote", g>> \in request \/ gen[g].status = "shadow"
         \/ /\ <<"promote", g>> \in request /\ <<"promote", g>> \notin request'
            /\ gen'[g].status \notin {"building", "shadow"}

LEMMA RequestSteps ==
  ASSUME G!TypeOK, GenJobsKnown, [G!Next]_(G!vars), NEW g \in G!Gens
  PROVE  RequestMoves(g)
<1>1. ASSUME NEW c \in BOOLEAN, NEW e \in BOOLEAN, NEW b \in BOOLEAN, G!Update(c, e, b)
      PROVE  RequestMoves(g)
  <2>1. PICK k \in G!Fresh \cup {G!None}, s \in {"active", "building"} :
          /\ gen' = IF k = G!None THEN gen ELSE G!Become({k}, s)
          /\ request' = request \cup ({"boot"} \X ({k} \ {G!None}))
    BY <1>1 DEF G!Update
  <2>2. k # G!None => gen[k].status = "none"
    BY <2>1 DEF G!Fresh
  <2>3. G!Become({k}, s)[g].status = IF g = k THEN s ELSE gen[g].status
    BY Become DEF G!Live
  <2>4. g # G!None
    BY GenerationsAssumption DEF G!Gens, G!None, G!GenerationsAssumption
  <2>5. <<"boot", g>> \in request' => <<"boot", g>> \in request \/ g = k
    BY <2>1
  <2>6. <<"promote", g>> \in request' => <<"promote", g>> \in request
    BY <2>1
  <2>7. <<"again", g>> \in request' => <<"again", g>> \in request
    BY <2>1
  <2> QED BY <2>1, <2>2, <2>3, <2>4, <2>5, <2>6, <2>7 DEF RequestMoves
<1>2. ASSUME G!StartShadow
      PROVE  RequestMoves(g)
  <2>1. PICK k \in G!Fresh : /\ gen' = [G!Become(G!With("shadow"), "superseded") EXCEPT ![k].status = "shadow"]
                             /\ request' = request \cup {<<"boot", k>>}
    BY <1>2 DEF G!StartShadow
  <2>2. G!Become(G!With("shadow"), "superseded") \in [G!Gens -> GenRows]
    BY Become
  <2>3. gen[k].status = "none" /\ k \in G!Gens
    BY DEF G!Fresh
  <2>4. gen'[k].status = "shadow"
    BY <2>1, <2>2, <2>3 DEF GenRows
  <2> QED BY <2>1, <2>3, <2>4 DEF RequestMoves
<1>3. ASSUME NEW k \in G!Gens, G!AskPromote(k)
      PROVE  RequestMoves(g)
  BY <1>3 DEF G!AskPromote, RequestMoves
<1>4. ASSUME NEW r \in request, G!Promote(r)
      PROVE  RequestMoves(g)
  <2>1. r[1] = "promote" /\ r[2] \in G!Gens /\ r = <<"promote", r[2]>>
    BY <1>4 DEF G!Promote, G!TypeOK
  <2>2. G!Promoted(r[2]) /\ request' = (request \ {r}) \cup {<<"again", r[2]>>}
    BY <1>4 DEF G!Promote
  <2>3. CASE g # r[2]
    BY <2>1, <2>2, <2>3 DEF RequestMoves
  <2>4. CASE g = r[2]
    <3>1. gen'[g].status \notin {"building", "shadow"}
      <4>1. CASE G!Promotable(g)
        <5>1. gen' = [G!Become(G!Superseded(g), "superseded") EXCEPT ![g] = [status |-> "active", complete |-> TRUE]]
          BY <2>2, <2>4, <4>1 DEF G!Promoted
        <5>2. G!Become(G!Superseded(g), "superseded") \in [G!Gens -> GenRows]
          BY Become
        <5> QED BY <5>1, <5>2
      <4>2. CASE ~G!Promotable(g)
        BY <2>2, <2>4, <4>2 DEF G!Promoted, G!Promotable
      <4> QED BY <4>1, <4>2
    <3> QED BY <2>1, <2>2, <2>4, <3>1 DEF RequestMoves
  <2> QED BY <2>3, <2>4
<1>5. ASSUME request' \subseteq request
      PROVE  RequestMoves(g)
  BY <1>5 DEF RequestMoves
<1>6. ASSUME \/ \E r \in request : G!Ask(r) \/ G!RequestDies(r)
             \/ \E m \in G!Messages : G!Arrive(m)
             \/ \E w \in Workers : \/ G!OrganiseMessage(w) \/ G!BeginBoot(w) \/ G!ListPage(w) \/ G!NextPage(w)
                                   \/ G!BeginFinal(w) \/ G!Count(w) \/ G!ReadStatus(w) \/ G!Fail(w) \/ G!End(w)
             \/ G!DeleteData \/ G!Wake \/ UNCHANGED G!vars
      PROVE  request' \subseteq request
  BY <1>6 DEF G!DeleteData, G!End, G!Ask, G!RequestDies, G!Arrive, G!OrganiseMessage, G!BeginBoot, G!ListPage, G!NextPage,
              G!BeginFinal, G!Count, G!ReadStatus, G!Fail, G!Wake, G!vars
<1> QED BY <1>1, <1>2, <1>3, <1>4, <1>5, <1>6 DEF G!Next, G!Work

LEMMA RequestsStayKnown ==
  ASSUME G!TypeOK, GenJobsKnown, RequestsKnown, [G!Next]_(G!vars)
  PROVE  RequestsKnown'
<1>1. request' \subseteq {"boot", "promote", "again"} \X G!Gens
  BY GenerationsTyped DEF G!TypeOK
<1>2. ASSUME NEW r \in request' PROVE gen'[r[2]].status # "none"
  <2>1. PICK g \in G!Gens : r[2] = g /\ r \in {<<"boot", g>>, <<"promote", g>>, <<"again", g>>}
    BY <1>1
  <2>2. StatusMoves(g) /\ RequestMoves(g)
    BY StatusSteps, RequestSteps
  <2>3. \A k \in {"boot", "promote", "again"} : <<k, g>> \in request => gen[g].status # "none"
    BY DEF RequestsKnown
  <2> QED BY <1>2, <2>1, <2>2, <2>3 DEF StatusMoves, RequestMoves, G!Live
<1>3. ASSUME NEW g \in G!Gens, <<"again", g>> \in request'
      PROVE  gen'[g].status \notin {"building", "shadow"} /\ <<"promote", g>> \notin request'
  <2>1. StatusMoves(g) /\ RequestMoves(g)
    BY StatusSteps, RequestSteps
  <2>2. <<"again", g>> \in request =>
          gen[g].status \notin {"none", "building", "shadow"} /\ <<"promote", g>> \notin request
    BY DEF RequestsKnown
  <2> QED BY <1>3, <2>1, <2>2 DEF StatusMoves, RequestMoves, G!Live
<1> QED BY <1>2, <1>3 DEF RequestsKnown

LEMMA ReadsStayKnown ==
  ASSUME G!TypeOK, GenJobsKnown, ReadsKnown, [G!Next]_(G!vars)
  PROVE  ReadsKnown'
<1> SUFFICES ASSUME NEW w \in Workers, genTask'[w].pc = "end", genTask'[w].status = "building"
             PROVE  gen'[genTask'[w].job.g].status \notin {"none", "shadow"}
  BY DEF ReadsKnown
<1>1. CASE genTask'[w] = genTask[w]
  <2>1. genTask[w].job.g \in G!Gens
    BY <1>1 DEF GenJobsKnown, GenTaskKnown, GenJobs
  <2>2. gen[genTask[w].job.g].status \notin {"none", "shadow"} /\ StatusMoves(genTask[w].job.g)
    BY <1>1, <2>1, StatusSteps DEF ReadsKnown
  <2> QED BY <1>1, <2>2 DEF StatusMoves, G!Live
<1>2. CASE genTask'[w] # genTask[w]
  <2>1. ASSUME NEW v \in Workers, G!Stop(v)
        PROVE  FALSE
    <3>1. genTask'[v].pc = "idle" /\ (v # w => genTask'[w] = genTask[w])
      BY <2>1, StoppedTasks
    <3> QED BY <1>2, <3>1
  <2>2. ASSUME NEW v \in Workers, G!ReadStatus(v)
        PROVE  gen'[genTask'[w].job.g].status \notin {"none", "shadow"}
    <3>1. v = w
      BY <1>2, <2>2 DEF G!ReadStatus, G!TypeOK
    <3>2. genTask'[w].job = genTask[w].job /\ genTask'[w].status = gen[genTask[w].job.g].status /\ gen' = gen
      BY <2>2, <3>1 DEF G!ReadStatus, G!TypeOK
    <3> QED BY <3>2
  <2>3. ASSUME NEW v \in Workers, NEW t \in GenTaskRows, t.pc # "end", genTask' = [genTask EXCEPT ![v] = t]
        PROVE  FALSE
    BY <1>2, <2>3 DEF G!TypeOK
  <2>4. ASSUME NEW v \in Workers, G!BeginBoot(v)
        PROVE  FALSE
    <3>1. PICK j \in genQueue : genTask' = [genTask EXCEPT ![v] = [G!Idle EXCEPT !.pc = "page", !.job = j]] \/ UNCHANGED genTask
      BY <2>4 DEF G!BeginBoot
    <3>2. [G!Idle EXCEPT !.pc = "page", !.job = j] \in GenTaskRows
      BY NoGenJob DEF G!Idle, GenTaskRows, GenJobsKnown, GenJobs
    <3>3. [G!Idle EXCEPT !.pc = "page", !.job = j].pc # "end"
      BY DEF G!Idle
    <3> QED BY <1>2, <2>3, <3>1, <3>2, <3>3
  <2>5. ASSUME NEW v \in Workers, G!BeginFinal(v)
        PROVE  FALSE
    <3>1. PICK j \in genQueue : genTask' = [genTask EXCEPT ![v] = [G!Idle EXCEPT !.pc = "count", !.job = j]]
      BY <2>5 DEF G!BeginFinal
    <3>2. [G!Idle EXCEPT !.pc = "count", !.job = j] \in GenTaskRows
      BY NoGenJob DEF G!Idle, GenTaskRows, GenJobsKnown, GenJobs
    <3>3. [G!Idle EXCEPT !.pc = "count", !.job = j].pc # "end"
      BY DEF G!Idle
    <3> QED BY <2>3, <3>1, <3>2, <3>3
  <2>6. ASSUME NEW v \in Workers, G!ListPage(v) \/ G!Goto(v, "read")
        PROVE  FALSE
    <3>1. genTask'[v].pc \in {"next", "read"} /\ (v # w => genTask'[w] = genTask[w])
      BY <2>6 DEF G!ListPage, G!Goto, G!TypeOK
    <3> QED BY <1>2, <3>1
  <2>7. ASSUME UNCHANGED genTask PROVE FALSE
    BY <1>2, <2>7
  <2>8. ASSUME \/ \E c, e, b \in BOOLEAN : G!Update(c, e, b)
               \/ G!StartShadow \/ G!DeleteData \/ (\E g \in G!Gens : G!AskPromote(g))
               \/ \E r \in request : G!Ask(r) \/ G!Promote(r) \/ G!RequestDies(r)
               \/ \E m \in G!Messages : G!Arrive(m)
               \/ \E v \in Workers : G!OrganiseMessage(v)
               \/ G!Wake \/ UNCHANGED G!vars
        PROVE  UNCHANGED genTask
    BY <2>8 DEF G!Update, G!StartShadow, G!DeleteData, G!AskPromote, G!Ask, G!Promote, G!RequestDies, G!Arrive,
                G!OrganiseMessage, G!Wake, G!vars
  <2>9. ASSUME NEW v \in Workers, G!NextPage(v) \/ G!Count(v) \/ G!End(v) \/ G!Fail(v)
        PROVE  G!Stop(v) \/ G!Goto(v, "read")
    BY <2>9 DEF G!NextPage, G!Count, G!End, G!Fail
  <2> QED BY <2>1, <2>2, <2>4, <2>5, <2>6, <2>7, <2>8, <2>9 DEF G!Next, G!Work
<1> QED BY <1>1, <1>2

(* A bootstrap is in one place, whether it waits, runs or fails.           *)
LEMMA KinLaws ==
  ASSUME NEW i, NEW j
  PROVE  /\ Kin(i, j) => Kin(j, i) /\ i.kind = "boot" /\ j.kind = "boot"
         /\ \A k : Kin(i, j) /\ Kin(j, k) => Kin(i, k)
BY DEF Kin

LEMMA BootQueued ==
  ASSUME OneBootEach, NEW b,
         \A j \in genQueue' : j.kind = "boot" => j \in genQueue \/ j = b,
         \A j \in genLater' : j.kind = "boot" => j \in genLater,
         \A w \in Workers : genTask'[w].job = genTask[w].job \/ genTask'[w].job.kind # "boot",
         \A j \in (genQueue \ {b}) \cup genLater' : ~Kin(b, j),
         \A w \in Workers : ~Kin(b, genTask'[w].job)
  PROVE  OneBootEach'
<1>1. \A i, j \in (genQueue \cup genLater)' : Kin(i, j) => i = j
  BY KinLaws DEF OneBootEach
<1>2. \A i \in genQueue', j \in genLater' : ~Kin(i, j)
  BY KinLaws DEF OneBootEach
<1>3. \A w \in Workers : \A j \in (genQueue \cup genLater)' : ~Kin(genTask'[w].job, j)
  BY KinLaws DEF OneBootEach
<1>4. \A w, v \in Workers : w # v => ~Kin(genTask'[w].job, genTask'[v].job)
  BY KinLaws DEF OneBootEach
<1> QED BY <1>1, <1>2, <1>3, <1>4 DEF OneBootEach

LEMMA BootLater ==
  ASSUME OneBootEach, NEW b,
         \A j \in genQueue' : j.kind = "boot" => j \in genQueue,
         \A j \in genLater' : j.kind = "boot" => j \in genLater \/ j = b,
         \A w \in Workers : genTask'[w].job = genTask[w].job \/ genTask'[w].job.kind # "boot",
         \A j \in genQueue' \cup (genLater \ {b}) : ~Kin(b, j),
         \A w \in Workers : ~Kin(b, genTask'[w].job)
  PROVE  OneBootEach'
<1>1. \A i, j \in (genQueue \cup genLater)' : Kin(i, j) => i = j
  BY KinLaws DEF OneBootEach
<1>2. \A i \in genQueue', j \in genLater' : ~Kin(i, j)
  BY KinLaws DEF OneBootEach
<1>3. \A w \in Workers : \A j \in (genQueue \cup genLater)' : ~Kin(genTask'[w].job, j)
  BY KinLaws DEF OneBootEach
<1>4. \A w, v \in Workers : w # v => ~Kin(genTask'[w].job, genTask'[v].job)
  BY KinLaws DEF OneBootEach
<1> QED BY <1>1, <1>2, <1>3, <1>4 DEF OneBootEach

LEMMA NoNewBoot ==
  ASSUME OneBootEach, BootsOnce,
         \A j \in genQueue' : j.kind = "boot" => j \in genQueue,
         \A j \in genLater' : j.kind = "boot" => j \in genLater,
         \A w \in Workers : genTask'[w].job = genTask[w].job \/ genTask'[w].job.kind # "boot",
         \A j : BootOnce(j) /\ j.kind = "boot" /\ (j \in genQueue \cup genLater \cup G!Running) => BootOnce(j)'
  PROVE  OneBootEach' /\ BootsOnce'
<1>1. OneBootEach'
  BY KinLaws DEF OneBootEach
<1>2. \A j : j.kind # "boot" => BootOnce(j)'
  BY DEF BootOnce
<1>3. \A w \in Workers : genTask[w].job \in G!Running
  BY DEF G!Running
<1>4. \A j \in (genQueue \cup genLater)' : BootOnce(j)'
  BY <1>2 DEF BootsOnce
<1>5. ASSUME NEW w \in Workers PROVE BootOnce(genTask[w].job)'
  <2>1. CASE genTask'[w].job.kind # "boot"
    BY <2>1 DEF BootOnce
  <2>2. CASE genTask'[w].job = genTask[w].job /\ genTask[w].job.kind = "boot"
    BY <1>3, <2>2 DEF BootsOnce, BootOnce
  <2> QED BY <2>1, <2>2
<1> QED BY <1>1, <1>4, <1>5 DEF BootsOnce

LEMMA BootOnceStays ==
  ASSUME G!TypeOK, GenJobsKnown, [G!Next]_(G!vars), NEW j, BootOnce(j), j.kind = "boot",
         j \in genQueue \cup genLater \cup G!Running
  PROVE  BootOnce(j)'
<1>1. j.g \in G!Gens
  BY NoGenJob DEF GenJobsKnown, GenJobs, G!Running, GenTaskKnown
<1>2. StatusMoves(j.g) /\ RequestMoves(j.g)
  BY <1>1, StatusSteps, RequestSteps
<1> QED BY <1>2 DEF BootOnce, StatusMoves, RequestMoves, G!Live

LEMMA BootsStay ==
  ASSUME G!TypeOK, GenJobsKnown, RequestsKnown, OneBootEach, BootsOnce, [G!Next]_(G!vars)
  PROVE  OneBootEach' /\ BootsOnce'
<1>0. \A j : BootOnce(j) /\ j.kind = "boot" /\ (j \in genQueue \cup genLater \cup G!Running) => BootOnce(j)'
  BY BootOnceStays
<1>s. ASSUME NEW w \in Workers, G!Stop(w)
      PROVE  \A v \in Workers : genTask'[v].job = genTask[v].job \/ genTask'[v].job.kind # "boot"
  BY <1>s, StoppedTasks, NoGenJob
<1>o. \A g, m, n : G!Organise(g, m, n).kind = "organise"
  BY DEF G!Organise
<1>f. \A g : G!Final(g).kind = "final"
  BY DEF G!Final
<1>n. ASSUME \A j \in genQueue' : j.kind = "boot" => j \in genQueue,
             \A j \in genLater' : j.kind = "boot" => j \in genLater,
             \A w \in Workers : genTask'[w].job = genTask[w].job \/ genTask'[w].job.kind # "boot"
      PROVE  OneBootEach' /\ BootsOnce'
  BY <1>0, <1>n, NoNewBoot
<1>1. ASSUME \/ \E c, e, b \in BOOLEAN : G!Update(c, e, b)
             \/ G!StartShadow \/ G!DeleteData \/ (\E g \in G!Gens : G!AskPromote(g))
             \/ \E r \in request : G!RequestDies(r)
             \/ \E w \in Workers : G!OrganiseMessage(w)
             \/ UNCHANGED G!vars
      PROVE  genQueue' \subseteq genQueue /\ genLater' \subseteq genLater /\ genTask' = genTask
  BY <1>1 DEF G!Update, G!StartShadow, G!Without, G!DeleteData, G!AskPromote, G!RequestDies,
              G!OrganiseMessage, G!Claim, G!queue, G!vars
<1>2. ASSUME NEW r \in request, G!Promote(r)
      PROVE  genQueue' \subseteq genQueue /\ genLater' \subseteq genLater /\ genTask' = genTask
  BY <1>2, PromotedTyped DEF G!Promote, G!TypeOK
<1>3. ASSUME NEW w \in Workers, G!End(w)
      PROVE  OneBootEach' /\ BootsOnce'
  <2>1. genTask[w].job.g \in G!Gens
    BY <1>3 DEF G!End, GenJobsKnown, GenTaskKnown, GenJobs
  <2>2. genQueue' \subseteq genQueue /\ genLater' \subseteq genLater
    BY <1>3, <2>1, PromotedTyped DEF G!End, G!queue
  <2>3. G!Stop(w)
    BY <1>3 DEF G!End
  <2> QED BY <1>n, <1>s, <2>2, <2>3
<1>4. ASSUME NEW m \in G!Messages, G!Arrive(m)
      PROVE  OneBootEach' /\ BootsOnce'
  <2>1. genQueue' \subseteq genQueue \cup {G!Organise(g, m, 4) : g \in G!Receivers}
    BY <1>4, Enqueued DEF G!Arrive
  <2>2. genLater' = genLater /\ genTask' = genTask
    BY <1>4 DEF G!Arrive
  <2> QED BY <1>n, <1>o, <2>1, <2>2
<1>5. ASSUME NEW w \in Workers, G!ListPage(w)
      PROVE  OneBootEach' /\ BootsOnce'
  <2> DEFINE j == genTask[w].job
             page == G!Page(j.g, j.scope, j.arg)
  <2>1. /\ G!Enqueue({G!Organise(j.g, m, IF j.scope = "history" THEN 0 ELSE 2) : m \in page})
        /\ genTask' = [genTask EXCEPT ![w].pc = "next", ![w].page = page] /\ genLater' = genLater
    BY <1>5 DEF G!ListPage
  <2> HIDE DEF page
  <2>2. genQueue' \subseteq genQueue \cup {G!Organise(j.g, m, IF j.scope = "history" THEN 0 ELSE 2) : m \in page}
    BY <2>1, Enqueued
  <2>3. \A v \in Workers : genTask'[v].job = genTask[v].job
    BY <2>1 DEF G!TypeOK
  <2>4. \A i \in genQueue' : i.kind = "boot" => i \in genQueue
    BY <1>o, <2>2
  <2> QED BY <1>n, <2>1, <2>3, <2>4
<1>6. ASSUME NEW w \in Workers, G!BeginFinal(w)
      PROVE  OneBootEach' /\ BootsOnce'
  <2>1. PICK j \in genQueue : /\ j.kind = "final" /\ G!Claim(w, j)
                              /\ genTask' = [genTask EXCEPT ![w] = [G!Idle EXCEPT !.pc = "count", !.job = j]]
    BY <1>6 DEF G!BeginFinal
  <2>2. [G!Idle EXCEPT !.pc = "count", !.job = j].job = j
    BY DEF G!Idle
  <2>3. \A v \in Workers : genTask'[v].job = genTask[v].job \/ genTask'[v].job.kind # "boot"
    BY <2>1, <2>2 DEF G!TypeOK
  <2>4. genQueue' \subseteq genQueue /\ genLater' = genLater
    BY <1>6, <2>1 DEF G!BeginFinal, G!Claim
  <2> QED BY <1>n, <2>3, <2>4
<1>7. ASSUME NEW w \in Workers, G!Count(w)
      PROVE  OneBootEach' /\ BootsOnce'
  <2>1. \A v \in Workers : genTask'[v].job = genTask[v].job \/ genTask'[v].job.kind # "boot"
    <3>1. G!Goto(w, "read") => \A v \in Workers : genTask'[v].job = genTask[v].job
      BY DEF G!Goto, G!TypeOK
    <3> QED BY <1>7, <1>s, <3>1 DEF G!Count
  <2>2. genQueue' = genQueue /\ \A j \in genLater' : j \in genLater \/ j.kind = "final"
    BY <1>7, <1>f DEF G!Count
  <2> QED BY <1>n, <2>1, <2>2
<1>8. ASSUME NEW w \in Workers, G!ReadStatus(w)
      PROVE  OneBootEach' /\ BootsOnce'
  <2>1. \A v \in Workers : genTask'[v].job = genTask[v].job
    BY <1>8 DEF G!ReadStatus, G!TypeOK
  <2>2. genQueue' = genQueue /\ genLater' = genLater
    BY <1>8 DEF G!ReadStatus, G!queue
  <2> QED BY <1>n, <2>1, <2>2
<1>9. ASSUME NEW r \in request, G!Ask(r)
      PROVE  OneBootEach' /\ BootsOnce'
  <2> DEFINE scope == IF r[1] = "boot" THEN "all" ELSE "recent"
             b == G!Boot(r[2], scope, 0)
  <2>1. r[2] \in G!Gens /\ r \in {<<"boot", r[2]>>, <<"again", r[2]>>} /\ (r[1] = "boot" <=> r = <<"boot", r[2]>>)
    BY <1>9 DEF G!Ask, G!TypeOK
  <2>2. G!Enqueue({b}) /\ request' = request \ {r} /\ gen' = gen /\ genLater' = genLater /\ genTask' = genTask
    BY <1>9 DEF G!Ask
  <2>3. b.kind = "boot" /\ b.g = r[2] /\ b.scope = scope
    BY <2>1, BootIsJob DEF G!Scopes
  <2>4. ASSUME NEW j, BootOnce(j) PROVE ~Kin(b, j)
    BY <2>1, <2>3, <2>4 DEF Kin, BootOnce
  <2>5. BootOnce(b)'
    BY <2>1, <2>2, <2>3 DEF BootOnce, RequestsKnown
  <2>6. genQueue' \subseteq genQueue \cup {b}
    BY <2>2, Enqueued
  <2> HIDE DEF b, scope
  <2>7. OneBootEach'
    BY <2>2, <2>4, <2>6, BootQueued DEF BootsOnce
  <2>8. \A j \in (genQueue \cup genLater)' : BootOnce(j)'
    <3>1. \A j : j.kind # "boot" => BootOnce(j)'
      BY DEF BootOnce
    <3> QED BY <1>0, <2>2, <2>5, <2>6, <3>1 DEF BootsOnce
  <2>9. ASSUME NEW w \in Workers PROVE BootOnce(genTask[w].job)'
    BY <1>0, <2>2 DEF BootsOnce, G!Running, BootOnce
  <2> QED BY <2>7, <2>8, <2>9 DEF BootsOnce
<1>10. ASSUME NEW w \in Workers, G!BeginBoot(w)
       PROVE  OneBootEach' /\ BootsOnce'
  <2>1. PICK j \in genQueue :
          /\ j.kind = "boot" /\ genQueue' = genQueue \ {j}
          /\ IF gen[j.g].status \in G!Live
               THEN genTask' = [genTask EXCEPT ![w] = [G!Idle EXCEPT !.pc = "page", !.job = j]]
               ELSE UNCHANGED genTask
    BY <1>10 DEF G!BeginBoot, G!Claim
  <2>2. genLater' = genLater
    BY <1>10 DEF G!BeginBoot
  <2>3. CASE UNCHANGED genTask
    BY <1>n, <2>1, <2>2, <2>3
  <2>4. CASE genTask' = [genTask EXCEPT ![w] = [G!Idle EXCEPT !.pc = "page", !.job = j]]
    <3>1. [G!Idle EXCEPT !.pc = "page", !.job = j].job = j
      BY DEF G!Idle
    <3>2. genTask'[w].job = j /\ \A v \in Workers : v # w => genTask'[v].job = genTask[v].job
      BY <2>4, <3>1 DEF G!TypeOK
    <3>3. \A i \in (genQueue \cup genLater)' : ~Kin(j, i)
      BY <2>1, <2>2 DEF OneBootEach
    <3>4. OneBootEach'
      <4>1. \A i, k \in (genQueue \cup genLater)' : Kin(i, k) => i = k
        BY <2>1, <2>2 DEF OneBootEach
      <4>2. \A i \in genQueue', k \in genLater' : ~Kin(i, k)
        BY <2>1, <2>2 DEF OneBootEach
      <4>3. \A v \in Workers : \A k \in (genQueue \cup genLater)' : ~Kin(genTask'[v].job, k)
        BY <2>1, <2>2, <3>2, <3>3 DEF OneBootEach
      <4>4. \A u, v \in Workers : u # v => ~Kin(genTask'[u].job, genTask'[v].job)
        BY <2>1, <3>2, KinLaws DEF OneBootEach
      <4> QED BY <4>1, <4>2, <4>3, <4>4 DEF OneBootEach
    <3>5. \A i \in (genQueue \cup genLater)' : BootOnce(i)'
      <4>1. \A i : i.kind # "boot" => BootOnce(i)'
        BY DEF BootOnce
      <4> QED BY <1>0, <2>1, <2>2, <4>1 DEF BootsOnce
    <3>6. ASSUME NEW v \in Workers PROVE BootOnce(genTask[v].job)'
      <4>1. genTask'[v].job \in genQueue \cup G!Running /\ BootOnce(genTask'[v].job)
        BY <2>1, <3>2 DEF BootsOnce, G!Running
      <4> QED BY <1>0, <4>1 DEF BootOnce
    <3> QED BY <3>4, <3>5, <3>6 DEF BootsOnce
  <2> QED BY <2>1, <2>3, <2>4
<1>11. ASSUME NEW w \in Workers, G!NextPage(w)
       PROVE  OneBootEach' /\ BootsOnce'
  <2> DEFINE j == genTask[w].job
             more == IF G!Full(genTask[w].page) THEN {G!Boot(j.g, j.scope, j.arg + PageSize)}
                     ELSE IF j.scope = "recent" THEN {G!Boot(j.g, "history", 0)} ELSE {}
  <2>1. /\ genTask[w].pc = "next" /\ G!Stop(w) /\ G!Enqueue(G!Finals(j.g) \cup more)
        /\ genLater' = genLater /\ gen' = gen /\ request' = request
    BY <1>11 DEF G!NextPage
  <2>2. j \in GenJobs /\ j.g \in G!Gens /\ j.scope \in G!Scopes /\ j.arg \in Nat /\ j.kind = "boot"
    BY <2>1 DEF GenTaskKnown, GenJobs, G!Jobs, GenJobsKnown
  <2>3. PICK b : (more = {} \/ more = {b}) /\ (more = {b} => Kin(j, b))
    <3>1. j.arg + PageSize \in Nat
      BY <2>2, GenerationsAssumption DEF G!GenerationsAssumption
    <3>2. LET b == G!Boot(j.g, j.scope, j.arg + PageSize) IN b.kind = "boot" /\ b.g = j.g /\ b.scope = j.scope
      BY <2>2, <3>1, BootIsJob
    <3>3. LET b == G!Boot(j.g, "history", 0) IN b.kind = "boot" /\ b.g = j.g /\ b.scope = "history"
      BY <2>2, BootIsJob DEF G!Scopes
    <3>4. CASE G!Full(genTask[w].page)
      BY <2>2, <3>2, <3>4 DEF Kin
    <3>5. CASE ~G!Full(genTask[w].page) /\ j.scope = "recent"
      BY <2>2, <3>3, <3>5 DEF Kin
    <3>6. CASE ~G!Full(genTask[w].page) /\ j.scope # "recent"
      BY <3>6
    <3> QED BY <3>4, <3>5, <3>6
  <2> HIDE DEF more
  <2>4. \A v \in Workers : genTask'[v].job = IF v = w THEN G!NoJob ELSE genTask[v].job
    BY <2>1, StoppedTasks
  <2>5. BootOnce(j)
    BY DEF BootsOnce
  <2> HIDE DEF j
  <2>6. \A i \in genQueue' : i.kind = "boot" => i \in genQueue \/ (i = b /\ more = {b})
    BY <1>f, <2>1, <2>3, Enqueued DEF G!Finals
  <2>7. CASE more = {}
    BY <1>n, <2>1, <2>4, <2>6, <2>7, NoGenJob
  <2>8. CASE more = {b}
    <3>1. \A i \in genQueue \cup genLater : ~Kin(b, i)
      BY <2>3, <2>8, KinLaws DEF OneBootEach, j
    <3>2. \A v \in Workers : v # w => ~Kin(b, genTask[v].job)
      BY <2>3, <2>8, KinLaws DEF OneBootEach, j
    <3>3. \A v \in Workers : ~Kin(b, genTask'[v].job)
      BY <2>4, <3>2, NoGenJob DEF Kin
    <3>4. \A v \in Workers : genTask'[v].job = genTask[v].job \/ genTask'[v].job.kind # "boot"
      BY <2>4, NoGenJob
    <3>5. OneBootEach'
      BY <2>1, <2>6, <3>1, <3>3, <3>4, BootQueued
    <3>6. BootOnce(b)'
      BY <2>1, <2>3, <2>5, <2>8 DEF BootOnce, Kin
    <3>7. \A i : i.kind # "boot" => BootOnce(i)'
      BY DEF BootOnce
    <3>8. \A i \in (genQueue \cup genLater)' : BootOnce(i)'
      BY <1>0, <2>1, <2>6, <3>6, <3>7 DEF BootsOnce
    <3>9. ASSUME NEW v \in Workers PROVE BootOnce(genTask[v].job)'
      <4>1. genTask'[v].job.kind = "boot" => BootOnce(genTask'[v].job) /\ genTask'[v].job \in G!Running
        BY <3>4 DEF BootsOnce, G!Running
      <4> QED BY <1>0, <4>1 DEF BootOnce
    <3> QED BY <3>5, <3>8, <3>9 DEF BootsOnce
  <2> QED BY <2>3, <2>7, <2>8
<1>12. ASSUME NEW w \in Workers, G!Fail(w)
       PROVE  OneBootEach' /\ BootsOnce'
  <2> DEFINE j == genTask[w].job
  <2>1. G!Stop(w) /\ genLater' = genLater \cup {j} /\ genQueue' = genQueue /\ UNCHANGED <<gen, request>>
    BY <1>12 DEF G!Fail
  <2>2. \A v \in Workers : genTask'[v].job = IF v = w THEN G!NoJob ELSE genTask[v].job
    BY <2>1, StoppedTasks
  <2>3. OneBootEach'
    <3>1. \A i \in genQueue \cup genLater : ~Kin(j, i)
      BY DEF OneBootEach
    <3>2. \A v \in Workers : ~Kin(j, genTask'[v].job)
      BY <2>2, NoGenJob DEF OneBootEach, Kin
    <3>3. \A v \in Workers : genTask'[v].job = genTask[v].job \/ genTask'[v].job.kind # "boot"
      BY <2>2, NoGenJob
    <3> HIDE DEF j
    <3> QED BY <2>1, <3>1, <3>2, <3>3, BootLater
  <2>4. \A i \in (genQueue \cup genLater)' : BootOnce(i)'
    BY <2>1 DEF BootsOnce, BootOnce
  <2>5. ASSUME NEW v \in Workers PROVE BootOnce(genTask[v].job)'
    BY <2>1, <2>2, NoGenJob DEF BootsOnce, BootOnce
  <2> QED BY <2>3, <2>4, <2>5 DEF BootsOnce
<1>13. ASSUME G!Wake
       PROVE  OneBootEach' /\ BootsOnce'
  <2>1. PICK j \in genLater : genLater' = genLater \ {j} /\ genQueue' = genQueue \cup {j}
    BY <1>13 DEF G!Wake
  <2>2. UNCHANGED <<gen, request, genTask>>
    BY <1>13 DEF G!Wake
  <2>3. OneBootEach'
    <3>1. \A i \in genQueue \cup genLater' : ~Kin(j, i)
      BY <2>1, KinLaws DEF OneBootEach
    <3>2. \A v \in Workers : ~Kin(j, genTask'[v].job)
      BY <2>1, <2>2, KinLaws DEF OneBootEach
    <3> QED BY <2>1, <2>2, <3>1, <3>2, BootQueued
  <2>4. \A i \in (genQueue \cup genLater)' : BootOnce(i)'
    BY <2>1, <2>2 DEF BootsOnce, BootOnce
  <2>5. ASSUME NEW v \in Workers PROVE BootOnce(genTask[v].job)'
    BY <2>2 DEF BootsOnce, BootOnce
  <2> QED BY <2>3, <2>4, <2>5 DEF BootsOnce
<1> QED
  BY <1>n, <1>1, <1>2, <1>3, <1>4, <1>5, <1>6, <1>7, <1>8, <1>9, <1>10, <1>11, <1>12, <1>13 DEF G!Next, G!Work

(* Places in a list: each is taken once, and none is left out.             *)
LEMMA PlacesFill ==
  ASSUME NEW L \in SUBSET Nat, IsFiniteSet(L), NEW a \in Nat, NEW k \in Nat, NEW m \in L,
         Place(L, m) >= a + k
  PROVE  Cardinality({x \in L : Place(L, x) >= a /\ Place(L, x) < a + k}) = k
<1> DEFINE Below(x) == {n \in L : n < x}
           place(x) == Cardinality(Below(x))
<1>1. \A x : IsFiniteSet(Below(x)) /\ place(x) \in Nat
  <2> TAKE x
  <2>1. IsFiniteSet(Below(x))
    BY FS_Subset
  <2> HIDE DEF Below
  <2> QED BY <2>1, FS_CardinalityType
<1>2. ASSUME NEW x \in L, NEW y \in L, x < y PROVE place(x) < place(y)
  <2>0. x \in Nat /\ y \in Nat /\ \A n \in L : n \in Nat
    OBVIOUS
  <2>1. Below(x) \cup {x} \subseteq Below(y) /\ x \notin Below(x)
    <3>1. \A n \in L : n < x => n < y
      BY <1>2, <2>0
    <3>2. ~(x < x)
      BY <2>0
    <3>3. x \notin Below(x)
      BY <3>2
    <3>4. Below(x) \subseteq Below(y)
      BY <3>1
    <3>5. x \in Below(y)
      BY <1>2
    <3> QED BY <3>3, <3>4, <3>5
  <2> HIDE DEF Below
  <2>2. Cardinality(Below(x) \cup {x}) = place(x) + 1
    BY <1>1, <2>1, FS_AddElement
  <2>3. Cardinality(Below(x) \cup {x}) <= place(y)
    BY <1>1, <2>1, FS_Subset
  <2> QED BY <1>1, <2>2, <2>3
<1> DEFINE Low == Below(m) \cup {m}
           f == [x \in Low |-> place(x)]
<1>3. Low \subseteq L /\ IsFiniteSet(Low) /\ Cardinality(Low) = place(m) + 1
  <2>1. Low \subseteq L /\ m \notin Below(m)
    OBVIOUS
  <2> HIDE DEF Below
  <2> QED BY <1>1, <2>1, FS_AddElement
<1>4. \A x \in Low : place(x) <= place(m)
  <2> TAKE x \in Low
  <2>1. x = m \/ (x \in L /\ x < m)
    OBVIOUS
  <2> HIDE DEF place, Below, Low
  <2>2. place(x) \in Nat /\ place(m) \in Nat
    BY <1>1
  <2>3. CASE x = m
    BY <2>2, <2>3
  <2>4. CASE x \in L /\ x < m
    <3>1. place(x) < place(m)
      BY <1>2, <2>4
    <3> QED BY <2>2, <3>1
  <2> QED BY <2>1, <2>3, <2>4
<1> HIDE DEF Below, place, Low
<1>5. \A x, y \in L : x # y => place(x) # place(y)
  <2> TAKE x, y \in L
  <2>1. x \in Nat /\ y \in Nat
    OBVIOUS
  <2>2. x # y => x < y \/ y < x
    BY <2>1
  <2> QED BY <1>1, <1>2, <2>2
<1>6. f \in Injection(Low, 0..place(m))
  <2>1. f \in [Low -> 0..place(m)]
    BY <1>1, <1>4
  <2> QED BY <1>3, <1>5, <2>1 DEF Injection, IsInjective
<1>7. Cardinality(0..place(m)) = place(m) + 1 /\ IsFiniteSet(0..place(m))
  BY <1>1, FS_Interval
<1>8. \A i \in 0..place(m) : \E x \in L : place(x) = i
  <2>1. f \in Surjection(Low, 0..place(m))
    <3> HIDE DEF f
    <3> QED BY <1>3, <1>6, <1>7, FS_Injection
  <2> QED BY <1>3, <2>1 DEF Surjection
<1> DEFINE Page == {x \in L : place(x) >= a /\ place(x) < a + k}
           h == [x \in Page |-> place(x)]
<1>9. Cardinality(Page) = k
  <2>1. h \in Bijection(Page, a..(a + k - 1))
    <3>1. h \in [Page -> a..(a + k - 1)]
      BY <1>1
    <3>2. \A i \in a..(a + k - 1) : \E x \in Page : place(x) = i
      <4> TAKE i \in a..(a + k - 1)
      <4>1. place(m) >= a + k
        BY DEF place, Below, Place
      <4>2. i \in 0..place(m) /\ i >= a /\ i < a + k
        BY <1>1, <4>1
      <4> QED BY <1>8, <4>2
    <3> QED BY <1>5, <3>1, <3>2 DEF Bijection, Injection, Surjection, IsInjective
  <2>2. IsFiniteSet(Page)
    BY FS_Subset
  <2>3. Cardinality(a..(a + k - 1)) = k
    BY FS_Interval
  <2> HIDE DEF Page, h
  <2> QED BY <2>1, <2>2, <2>3, FS_Bijection DEF ExistsBijection
<1> QED BY <1>9 DEF Page, place, Below, Place

(* What a bootstrap has yet to list, and a message's place in it.          *)
LEMMA SameSize == \A S : G!Cardinality(S) = Cardinality(S)
BY DEF G!Cardinality, Cardinality

LEMMA MessagesFinite ==
  ASSUME NEW S \in SUBSET G!Messages
  PROVE  S \in SUBSET Nat /\ IsFiniteSet(S)
<1>1. G!Messages \subseteq Nat /\ IsFiniteSet(G!Messages)
  BY FS_Interval, GenerationsAssumption DEF G!GenerationsAssumption, G!Messages
<1> QED BY <1>1, FS_Subset

(* Mail that arrives moves places back, never forward.                     *)
LEMMA PlacesGrow ==
  ASSUME NEW S \in SUBSET G!Messages, NEW U \in SUBSET G!Messages, S \subseteq U, NEW m
  PROVE  Place(S, m) \in Nat /\ Place(U, m) \in Nat /\ Place(U, m) >= Place(S, m)
<1> DEFINE Low(L) == {n \in L : n < m}
<1>1. IsFiniteSet(S) /\ IsFiniteSet(U)
  BY MessagesFinite
<1>2. IsFiniteSet(Low(S)) /\ IsFiniteSet(Low(U)) /\ Low(S) \subseteq Low(U)
  BY <1>1, FS_Subset
<1> HIDE DEF Low
<1>3. Cardinality(Low(S)) \in Nat /\ Cardinality(Low(U)) \in Nat /\ Cardinality(Low(U)) >= Cardinality(Low(S))
  BY <1>2, FS_Subset, FS_CardinalityType
<1> QED BY <1>3 DEF Low, Place

LEMMA WaitsTyped ==
  ASSUME G!TypeOK, NEW g, NEW scope
  PROVE  Waits(g, scope) \in SUBSET G!Messages
BY DEF G!TypeOK, Waits

LEMMA RankTyped ==
  ASSUME G!TypeOK, NEW g, NEW scope, NEW m
  PROVE  Rank(g, scope, m) \in Nat
BY WaitsTyped, PlacesGrow DEF Rank

LEMMA RankGrows ==
  ASSUME G!TypeOK, G!TypeOK', NEW g, NEW scope, NEW m, Waits(g, scope) \subseteq Waits(g, scope)'
  PROVE  Rank(g, scope, m)' \in Nat /\ Rank(g, scope, m)' >= Rank(g, scope, m)
<1> DEFINE S == Waits(g, scope)
           U == (mail' \cap G!InScope(scope)) \ done'[g]
<1>1. S \in SUBSET G!Messages /\ U \in SUBSET G!Messages /\ S \subseteq U
  BY WaitsTyped DEF G!TypeOK, Waits
<1> HIDE DEF S, U
<1>2. Place(U, m) \in Nat /\ Place(U, m) >= Place(S, m)
  BY <1>1, PlacesGrow
<1> QED BY <1>2 DEF Rank, Waits, Place, S, U

(* A message that is still ahead is on the page or the page is full.       *)
LEMMA PageOrFull ==
  ASSUME G!TypeOK, NEW g, NEW scope, NEW offset \in Nat, NEW m \in Waits(g, scope), Rank(g, scope, m) >= offset
  PROVE  LET page == G!Page(g, scope, offset)
         IN m \in page \/ (G!Full(page) /\ Rank(g, scope, m) >= offset + PageSize)
<1> DEFINE L == Waits(g, scope)
           page == {x \in L : Place(L, x) >= offset /\ Place(L, x) < offset + PageSize}
<1>1. G!Page(g, scope, offset) = page
  BY SameSize DEF G!Page, Waits, Place
<1>2. Rank(g, scope, m) = Place(L, m) /\ Rank(g, scope, m) \in Nat
  BY RankTyped DEF Rank
<1>3. PageSize \in Nat
  BY GenerationsAssumption DEF G!GenerationsAssumption
<1>4. L \in SUBSET Nat /\ IsFiniteSet(L)
  BY WaitsTyped, MessagesFinite
<1>5. CASE Rank(g, scope, m) >= offset + PageSize
  <2>1. Cardinality(page) = PageSize
    BY <1>2, <1>3, <1>4, <1>5, PlacesFill
  <2> HIDE DEF page, L
  <2> QED BY <1>1, <1>5, <2>1, SameSize DEF G!Full
<1>6. CASE ~(Rank(g, scope, m) >= offset + PageSize)
  <2>1. Rank(g, scope, m) < offset + PageSize
    BY <1>2, <1>3, <1>6
  <2> QED BY <1>1, <1>2, <2>1
<1> QED BY <1>5, <1>6

(* A message that is accounted for stays so while its jobs, requests and   *)
(* bootstraps do.                                                          *)
LEMMA ListsStay ==
  ASSUME G!TypeOK, G!TypeOK', NEW g, NEW m, NEW j, NEW n \in Nat,
         n = 0 \/ Waits(g, j.scope) \subseteq Waits(g, j.scope)', Lists(j, g, m, n)
  PROVE  Lists(j, g, m, n)'
<1>1. CASE Follows(j, g, m)
  BY <1>1 DEF Lists, Follows
<1>2. CASE j.kind = "boot" /\ j.g = g /\ m \in G!InScope(j.scope) /\ Rank(g, j.scope, m) >= n
  <2>1. Rank(g, j.scope, m) \in Nat /\ Rank(g, j.scope, m)' \in Nat
    <3> DEFINE U == (mail' \cap G!InScope(j.scope)) \ done'[g]
    <3>1. U \in SUBSET G!Messages
      BY DEF G!TypeOK
    <3> HIDE DEF U
    <3>2. Place(U, m) \in Nat
      BY <3>1, PlacesGrow
    <3>3. Rank(g, j.scope, m)' = Place(U, m)
      BY DEF Rank, Waits, Place, U
    <3> QED BY <3>2, <3>3, RankTyped
  <2>2. CASE n = 0
    BY <1>2, <2>1, <2>2 DEF Lists
  <2>3. CASE Waits(g, j.scope) \subseteq Waits(g, j.scope)'
    <3>1. Rank(g, j.scope, m)' >= n
      BY <1>2, <2>1, <2>3, RankGrows
    <3> QED BY <1>2, <3>1 DEF Lists
  <2> QED BY <2>2, <2>3
<1> QED BY <1>1, <1>2 DEF Lists

LEMMA JobArgs ==
  ASSUME GenJobsKnown
  PROVE  /\ \A j \in genQueue \cup genLater : j.arg \in Nat
         /\ \A w \in Workers : genTask[w].job.arg \in Nat
<1>1. G!NoJob.arg \in Nat
  BY DEF G!NoJob, G!None
<1> QED BY <1>1 DEF GenJobsKnown, GenTaskKnown, GenJobs, G!Jobs

LEMMA AccountedKept ==
  ASSUME G!TypeOK, G!TypeOK', GenJobsKnown, NEW g, NEW m, Accounted(g, m),
         \A scope : Waits(g, scope) \subseteq Waits(g, scope)',
         genExcused \subseteq genExcused',
         ToBeAsked(g) => Accounted(g, m)',
         \A j \in genQueue \cup genLater : j.g = g /\ j.kind # "final" =>
           \/ j \in (genQueue \cup genLater)'
           \/ j.kind = "boot" /\ (Lists(j, g, m, j.arg) => Accounted(g, m)'),
         \A w \in Workers : genTask'[w] = genTask[w] \/ (ToBeListedBy(w, g, m) => Accounted(g, m)')
  PROVE  Accounted(g, m)'
<1>0. PageSize \in Nat
  BY GenerationsAssumption DEF G!GenerationsAssumption
<1>1. CASE <<g, m>> \in genExcused
  BY <1>1 DEF Accounted
<1>2. CASE ToOrganise(g, m)
  BY <1>2 DEF Accounted, ToOrganise
<1>3. CASE ToBeListed(g, m)
  <2>1. PICK j \in genQueue \cup genLater : Lists(j, g, m, j.arg)
    BY <1>3 DEF ToBeListed
  <2>2. j.kind = "boot" /\ j.g = g
    BY <2>1 DEF Lists, Follows
  <2>3. CASE j \in (genQueue \cup genLater)'
    <3>1. Lists(j, g, m, j.arg)'
      BY <2>1, JobArgs, ListsStay
    <3> QED BY <2>3, <3>1 DEF Accounted, ToBeListed
  <2> QED BY <2>1, <2>2, <2>3
<1>4. CASE \E w \in Workers : ToBeListedBy(w, g, m)
  <2>1. PICK w \in Workers : ToBeListedBy(w, g, m)
    BY <1>4
  <2>2. CASE genTask'[w] = genTask[w]
    <3> DEFINE j == genTask[w].job
    <3>1. \A n \in Nat : Lists(j, g, m, n) => Lists(j, g, m, n)'
      <4> SUFFICES ASSUME NEW n \in Nat, NEW i, i = j, Lists(i, g, m, n)
                   PROVE  Lists(i, g, m, n)'
        BY <2>2 DEF Lists, Follows
      <4> QED BY ListsStay
    <3>2. Follows(j, g, m) => Follows(j, g, m)'
      BY <2>2 DEF Follows
    <3>3. j.arg \in Nat /\ j.arg + PageSize \in Nat
      BY <1>0, JobArgs
    <3>4. ToBeListedBy(w, g, m)'
      BY <2>1, <2>2, <3>1, <3>2, <3>3 DEF ToBeListedBy
    <3> QED BY <3>4 DEF Accounted
  <2> QED BY <2>1, <2>2
<1> QED BY <1>1, <1>2, <1>3, <1>4 DEF Accounted

LEMMA AccountedByRequests ==
  ASSUME GenerationsInv, G!TypeOK', [G!Next]_(G!vars), NEW g \in G!Gens, Claims(g)', NEW m \in mail' \ done'[g],
         \/ \E c, e, b \in BOOLEAN : G!Update(c, e, b)
         \/ G!StartShadow \/ G!DeleteData \/ (\E k \in G!Gens : G!AskPromote(k))
         \/ \E r \in request : G!Ask(r) \/ G!Promote(r) \/ G!RequestDies(r)
  PROVE  Accounted(g, m)'
<1>0. G!TypeOK /\ GenJobsKnown /\ OneBootEach /\ BootsOnce /\ RequestsKnown
  BY DEF GenerationsInv
<1>a. Claims(g) /\ m \in mail \ done[g] => Accounted(g, m)
  BY DEF GenerationsInv, AllAccounted
<1>w. ASSUME mail' = mail, done' = done
      PROVE  \A scope : Waits(g, scope) \subseteq Waits(g, scope)'
  BY <1>w DEF Waits
<1>r. ASSUME request \subseteq request'
      PROVE  ToBeAsked(g) => Accounted(g, m)'
  BY <1>r DEF ToBeAsked, Accounted
<1>1. ASSUME NEW c \in BOOLEAN, NEW e \in BOOLEAN, NEW b \in BOOLEAN, G!Update(c, e, b)
      PROVE  Accounted(g, m)'
  <2>1. PICK k \in G!Fresh \cup {G!None} :
          /\ gen' = IF k = G!None THEN gen ELSE G!Become({k}, IF profile.active = G!None THEN "active" ELSE "building")
          /\ request' = request \cup ({"boot"} \X ({k} \ {G!None}))
    BY <1>1 DEF G!Update
  <2>2. UNCHANGED <<mail, done, genQueue, genLater, genTask, genExcused>>
    BY <1>1 DEF G!Update, G!queue
  <2>3. CASE g = k
    <3>1. g # G!None
      BY GenerationsAssumption DEF G!Gens, G!None, G!GenerationsAssumption
    <3> QED BY <2>1, <2>3, <3>1 DEF Accounted, ToBeAsked
  <2>4. CASE g # k
    <3>1. Claims(g)
      BY <2>1, <2>4 DEF Claims, G!Become
    <3>2. Accounted(g, m)
      BY <1>a, <2>2, <3>1
    <3> QED BY <1>0, <1>w, <1>r, <2>1, <2>2, <3>2, AccountedKept
  <2> QED BY <2>3, <2>4
<1>2. ASSUME G!StartShadow
      PROVE  Accounted(g, m)'
  <2>1. PICK k \in G!Fresh : /\ gen' = [G!Become(G!With("shadow"), "superseded") EXCEPT ![k].status = "shadow"]
                             /\ request' = request \cup {<<"boot", k>>}
    BY <1>2 DEF G!StartShadow
  <2> DEFINE becoming == G!Become(G!With("shadow"), "superseded")
  <2>2. becoming \in [G!Gens -> GenRows] /\ becoming[g].status = IF g \in G!With("shadow") THEN "superseded" ELSE gen[g].status
    BY <1>0, Become
  <2> HIDE DEF becoming
  <2>3. gen' = [becoming EXCEPT ![k].status = "shadow"] /\ k \in G!Gens
    BY <2>1 DEF becoming, G!Fresh
  <2>4. g # k /\ g \notin G!With("shadow") /\ Claims(g)
    BY <2>2, <2>3 DEF Claims, GenRows
  <2>5. /\ UNCHANGED <<mail, done, genTask, genExcused>>
        /\ genQueue' = G!Without(genQueue, G!With("shadow")) /\ genLater' = G!Without(genLater, G!With("shadow"))
    BY <1>2 DEF G!StartShadow
  <2>6. \A j \in genQueue \cup genLater : j.g = g => j \in (genQueue \cup genLater)'
    BY <2>4, <2>5 DEF G!Without
  <2>7. Accounted(g, m)
    BY <1>a, <2>4, <2>5
  <2> QED BY <1>0, <1>w, <1>r, <2>1, <2>5, <2>6, <2>7, AccountedKept
<1>3. ASSUME G!DeleteData
      PROVE  FALSE
  <2>1. gen'[g].status = IF gen[g].status # "none" THEN "deleted" ELSE gen[g].status
    BY <1>0, <1>3, Become DEF G!DeleteData
  <2> QED BY <2>1 DEF Claims
<1>4. ASSUME NEW k \in G!Gens, G!AskPromote(k)
      PROVE  Accounted(g, m)'
  <2>1. /\ UNCHANGED <<mail, done, genQueue, genLater, genTask, genExcused, gen>>
        /\ request \subseteq request'
    BY <1>4 DEF G!AskPromote, G!queue
  <2>2. Accounted(g, m)
    BY <1>a, <2>1 DEF Claims
  <2> QED BY <1>0, <1>w, <1>r, <2>1, <2>2, AccountedKept
<1>5. ASSUME NEW r \in request, G!RequestDies(r)
      PROVE  Accounted(g, m)'
  <2>1. /\ UNCHANGED <<mail, done, genQueue, genLater, genTask, gen>>
        /\ request' = request \ {r} /\ genExcused' = genExcused \cup ({r[2]} \X (G!Messages \cup {G!None}))
    BY <1>5 DEF G!RequestDies, G!queue
  <2>2. Accounted(g, m)
    BY <1>a, <2>1 DEF Claims
  <2>3. m \in G!Messages
    BY DEF G!TypeOK
  <2>4. CASE r[2] = g
    BY <2>1, <2>3, <2>4 DEF Accounted
  <2>5. CASE r[2] # g
    <3>1. ToBeAsked(g) => Accounted(g, m)'
      BY <2>1, <2>5 DEF ToBeAsked, Accounted
    <3> QED BY <1>0, <1>w, <2>1, <2>2, <3>1, AccountedKept
  <2> QED BY <2>4, <2>5
<1>6. ASSUME NEW r \in request, G!Promote(r)
      PROVE  Accounted(g, m)'
  <2>1. r[1] = "promote" /\ r[2] \in G!Gens /\ r = <<"promote", r[2]>>
    BY <1>0, <1>6 DEF G!Promote, G!TypeOK
  <2>2. /\ G!Promoted(r[2]) /\ request' = (request \ {r}) \cup {<<"again", r[2]>>}
        /\ UNCHANGED <<mail, done, genTask, genExcused>>
    BY <1>6 DEF G!Promote
  <2>3. CASE g = r[2]
    BY <2>2, <2>3 DEF Accounted, ToBeAsked
  <2>4. CASE g # r[2]
    <3>1. Claims(g)
      BY <1>0, <2>1, <2>2, <2>4, PromotedStatus DEF Claims
    <3>2. Accounted(g, m)
      BY <1>a, <2>2, <3>1
    <3>3. ToBeAsked(g) => Accounted(g, m)'
      BY <2>1, <2>2 DEF ToBeAsked, Accounted
    <3>4. \A j \in genQueue \cup genLater : j.g = g /\ j.kind # "final" => j \in (genQueue \cup genLater)'
      <4>1. G!Final(r[2]).kind = "final"
        BY DEF G!Final
      <4> QED BY <1>0, <2>1, <2>2, <4>1, PromotedKeeps DEF Claims
    <3> QED BY <1>0, <1>w, <2>2, <3>2, <3>3, <3>4, AccountedKept
  <2> QED BY <2>3, <2>4
<1>7. ASSUME NEW r \in request, G!Ask(r)
      PROVE  Accounted(g, m)'
  <2> DEFINE scope == IF r[1] = "boot" THEN "all" ELSE "recent"
             b == G!Boot(r[2], scope, 0)
  <2>1. r[2] \in G!Gens /\ r \in {<<"boot", r[2]>>, <<"again", r[2]>>} /\ (r[1] = "boot" <=> r = <<"boot", r[2]>>)
    BY <1>0, <1>7 DEF G!Ask, G!TypeOK
  <2>2. /\ G!Enqueue({b}) /\ request' = request \ {r}
        /\ UNCHANGED <<gen, mail, done, genLater, genTask, genExcused>>
    BY <1>7 DEF G!Ask
  <2>3. b.kind = "boot" /\ b.g = r[2] /\ b.scope = scope /\ b.arg = 0
    BY <2>1, BootIsJob DEF G!Scopes
  <2>4. \A j \in genQueue \cup genLater \cup G!Running : ~G!Same(j, b)
    <3>1. \A j : G!Same(j, b) => ~BootOnce(j)
      BY <2>1, <2>3 DEF G!Same, BootOnce
    <3> QED BY <1>0, <3>1 DEF BootsOnce, G!Running
  <2>5. b \in genQueue' /\ genQueue \subseteq genQueue'
    BY <2>2, <2>4, Enqueued
  <2>6. Accounted(g, m)
    BY <1>a, <2>2 DEF Claims
  <2>7. CASE r[2] = g
    <3>1. Lists(b, g, m, 0)'
      <4>1. m \in G!Messages
        BY DEF G!TypeOK
      <4>2. scope = "all" => m \in G!InScope("all") /\ Rank(g, "all", m)' >= 0
        <5>1. G!InScope("all") = G!Messages
          BY DEF G!InScope
        <5>2. Rank(g, "all", m)' \in Nat
          BY <1>0, <1>w, <2>2, RankGrows
        <5> QED BY <4>1, <5>1, <5>2
      <4>3. scope = "recent" /\ m \in Recent => m \in G!InScope("recent") /\ Rank(g, "recent", m)' >= 0
        <5>1. G!InScope("recent") = Recent
          BY DEF G!InScope
        <5>2. Rank(g, "recent", m)' \in Nat
          BY <1>0, <1>w, <2>2, RankGrows
        <5> QED BY <5>1, <5>2
      <4>4. scope \in {"all", "recent"}
        OBVIOUS
      <4> HIDE DEF b, scope
      <4> QED BY <2>3, <2>7, <4>2, <4>3, <4>4 DEF Lists, Follows
    <3>2. ToBeListed(g, m)'
      <4> HIDE DEF b
      <4> QED BY <2>3, <2>5, <3>1 DEF ToBeListed
    <3> QED BY <3>2 DEF Accounted
  <2>8. CASE r[2] # g
    <3>1. ToBeAsked(g) => Accounted(g, m)'
      BY <2>1, <2>2, <2>8 DEF ToBeAsked, Accounted
    <3> QED BY <1>0, <1>w, <2>2, <2>5, <2>6, <3>1, AccountedKept
  <2> QED BY <2>7, <2>8
<1> QED BY <1>1, <1>2, <1>3, <1>4, <1>5, <1>6, <1>7

LEMMA AccountedByMail ==
  ASSUME GenerationsInv, G!TypeOK', NEW g \in G!Gens, Claims(g)', NEW m \in mail' \ done'[g],
         NEW n \in G!Messages, G!Arrive(n)
  PROVE  Accounted(g, m)'
<1>0. G!TypeOK /\ GenJobsKnown
  BY DEF GenerationsInv
<1>1. /\ mail' = mail \cup {n} /\ UNCHANGED <<gen, done, genLater, genTask, request>>
      /\ G!Enqueue({G!Organise(k, n, 4) : k \in G!Receivers})
      /\ genExcused' = genExcused \cup {<<k, n>> : k \in (G!With("active") \cup G!With("building")) \ G!Receivers}
  BY DEF G!Arrive
<1>2. Claims(g)
  BY <1>1 DEF Claims
<1>3. CASE m \in mail
  <2>1. Accounted(g, m)
    BY <1>1, <1>2, <1>3 DEF GenerationsInv, AllAccounted
  <2>2. \A scope : Waits(g, scope) \subseteq Waits(g, scope)'
    BY <1>1 DEF Waits
  <2>3. ToBeAsked(g) => Accounted(g, m)'
    BY <1>1 DEF ToBeAsked, Accounted
  <2>4. genQueue \subseteq genQueue'
    BY <1>1, Enqueued
  <2> QED BY <1>0, <1>1, <2>1, <2>2, <2>3, <2>4, AccountedKept
<1>4. CASE m \notin mail
  <2>1. m = n
    BY <1>1, <1>4
  <2>2. CASE g \in G!Receivers
    <3> DEFINE j == G!Organise(g, n, 4)
    <3>1. j.kind = "organise" /\ j.g = g /\ j.arg = n
      BY OrganiseIsJob
    <3>2. j \in {G!Organise(k, n, 4) : k \in G!Receivers}
      BY <2>2
    <3> HIDE DEF j
    <3>3. j \in genQueue' \/ \E i \in genQueue \cup genLater \cup G!Running : G!Same(i, j)
      BY <1>1, <3>2, Enqueued
    <3>4. \A i \in G!Running : i.kind # "organise"
      BY <1>0, NoGenJob DEF G!Running, GenJobsKnown, GenTaskKnown
    <3>5. genQueue \subseteq genQueue'
      BY <1>1, Enqueued
    <3>6. ToOrganise(g, m)'
      BY <1>1, <2>1, <3>1, <3>3, <3>4, <3>5 DEF ToOrganise, G!Same
    <3> QED BY <3>6 DEF Accounted
  <2>3. CASE g \notin G!Receivers
    <3>1. g \in G!With("active") \cup G!With("building")
      BY <1>2 DEF Claims, G!With
    <3> QED BY <1>1, <2>1, <2>3, <3>1 DEF Accounted
  <2> QED BY <2>2, <2>3
<1> QED BY <1>3, <1>4

(* A message that is organised between two pages is one that is excused,   *)
(* or one that no page ahead would list.                                   *)
LEMMA AccountedByOrganising ==
  ASSUME GenerationsInv, G!TypeOK', NEW g \in G!Gens, Claims(g)', NEW m \in mail' \ done'[g],
         NEW w \in Workers, G!OrganiseMessage(w)
  PROVE  Accounted(g, m)'
<1>0. G!TypeOK /\ GenJobsKnown
  BY DEF GenerationsInv
<1>1. PICK j \in genQueue :
        /\ j.kind = "organise" /\ G!Claim(w, j)
        /\ IF gen[j.g].status \in G!Live /\ (profile.enabled \/ gen[j.g].status = "shadow")
             THEN /\ done' = [done EXCEPT ![j.g] = @ \cup {j.arg}]
                  /\ genExcused' = IF G!Paging(j.g, j.arg) THEN genExcused \cup ({j.g} \X G!Messages) ELSE genExcused
             ELSE genExcused' = genExcused \cup {<<j.g, j.arg>>} /\ UNCHANGED done
  BY DEF G!OrganiseMessage
<1>2. genQueue' = genQueue \ {j} /\ UNCHANGED <<profile, gen, mail, genLater, genTask, request>>
  BY <1>1 DEF G!OrganiseMessage, G!Claim
<1>3. j.g \in G!Gens /\ j.arg \in G!Messages
  BY <1>0, <1>1 DEF GenJobsKnown, GenJobs
<1>4. Claims(g) /\ genExcused \subseteq genExcused' /\ m \in mail \ done[g]
  <2>1. done[g] \subseteq done'[g]
    BY <1>0, <1>1, <1>3 DEF G!TypeOK
  <2> QED BY <1>1, <1>2, <2>1 DEF Claims
<1>5. Accounted(g, m)
  BY <1>4 DEF GenerationsInv, AllAccounted
<1>6. CASE <<g, m>> \in genExcused'
  BY <1>6 DEF Accounted
<1>7. CASE <<g, m>> \notin genExcused'
  <2>1. ~(j.g = g /\ j.arg = m)
    BY <1>0, <1>1, <1>3, <1>7 DEF G!TypeOK
  <2>2. CASE ToOrganise(g, m)
    BY <1>2, <2>1, <2>2 DEF ToOrganise, Accounted
  <2>3. CASE ToBeAsked(g)
    BY <1>2, <2>3 DEF ToBeAsked, Accounted
  <2>4. \A i \in genQueue \cup genLater \cup G!Running :
          i.kind = "boot" /\ i.g = g =>
            \/ Waits(g, i.scope) \subseteq Waits(g, i.scope)'
            \/ i.arg = 0 /\ i \notin G!Listed
    <3> TAKE i \in genQueue \cup genLater \cup G!Running
    <3> HAVE i.kind = "boot" /\ i.g = g
    <3>1. \A scope : done' = done => Waits(g, scope) \subseteq Waits(g, scope)'
      BY <1>2 DEF Waits
    <3>2. \A scope : done' = [done EXCEPT ![j.g] = @ \cup {j.arg}] /\ (j.g # g \/ j.arg \notin G!InScope(scope))
                       => Waits(g, scope) \subseteq Waits(g, scope)'
      BY <1>0, <1>2, <1>3 DEF Waits, G!TypeOK
    <3>4. CASE ~G!Paging(j.g, j.arg) /\ j.g = g /\ j.arg \in G!InScope(i.scope)
      <4>1. i.arg \in Nat
        BY <1>0, JobArgs DEF G!Running
      <4> QED BY <3>4, <4>1 DEF G!Paging
    <3>5. \/ done' = done
          \/ done' = [done EXCEPT ![j.g] = @ \cup {j.arg}] /\ (j.g = g => ~G!Paging(j.g, j.arg))
      <4>1. m \in G!Messages
        BY DEF G!TypeOK
      <4> QED BY <1>1, <1>7, <4>1
    <3>6. CASE done' = done
      BY <3>1, <3>6
    <3>7. CASE done' = [done EXCEPT ![j.g] = @ \cup {j.arg}] /\ (j.g = g => ~G!Paging(j.g, j.arg))
      BY <3>2, <3>4, <3>7
    <3> QED BY <3>5, <3>6, <3>7
  <2>5. CASE ToBeListed(g, m)
    <3>1. PICK i \in genQueue \cup genLater : Lists(i, g, m, i.arg)
      BY <2>5 DEF ToBeListed
    <3>2. i.kind = "boot" /\ i.g = g /\ i # j
      BY <1>1, <3>1 DEF Lists, Follows
    <3>3. i \in (genQueue \cup genLater)' /\ Lists(i, g, m, i.arg)'
      <4>1. i.arg = 0 \/ Waits(g, i.scope) \subseteq Waits(g, i.scope)'
        BY <2>4, <3>2
      <4> QED BY <1>0, <1>2, <3>1, <3>2, <4>1, JobArgs, ListsStay
    <3> QED BY <3>3 DEF ToBeListed, Accounted
  <2>6. CASE \E v \in Workers : ToBeListedBy(v, g, m)
    <3>1. PICK v \in Workers : ToBeListedBy(v, g, m)
      BY <2>6
    <3>2. PICK i \in G!Running : i = genTask[v].job
      BY DEF G!Running
    <3>3. genTask[v].pc = "next" => i \in G!Listed
      BY <3>2 DEF G!Listed
    <3>4. i.arg \in Nat /\ PageSize \in Nat /\ i.arg + PageSize \in Nat
      BY <1>0, <3>2, JobArgs, GenerationsAssumption DEF G!GenerationsAssumption
    <3>5. CASE Follows(i, g, m)
      BY <1>2, <3>1, <3>2, <3>5 DEF ToBeListedBy, Follows, Lists, Accounted
    <3>6. CASE genTask[v].pc = "page" /\ Lists(i, g, m, i.arg)
      <4>1. i.arg = 0 \/ Waits(g, i.scope) \subseteq Waits(g, i.scope)'
        BY <2>4, <3>6 DEF Lists, Follows
      <4>2. Lists(i, g, m, i.arg)'
        BY <1>0, <3>4, <3>6, <4>1, ListsStay
      <4>3. ToBeListedBy(v, g, m)'
        BY <1>2, <3>2, <3>6, <4>2 DEF ToBeListedBy, Lists, Follows
      <4> QED BY <4>3 DEF Accounted
    <3>7. CASE genTask[v].pc = "next" /\ G!Full(genTask[v].page) /\ Lists(i, g, m, i.arg + PageSize) /\ ~Follows(i, g, m)
      <4>1. Waits(g, i.scope) \subseteq Waits(g, i.scope)'
        BY <2>4, <3>3, <3>7 DEF Lists
      <4>2. Lists(i, g, m, i.arg + PageSize)'
        BY <1>0, <3>4, <3>7, <4>1, ListsStay
      <4>3. ToBeListedBy(v, g, m)'
        BY <1>2, <3>2, <3>7, <4>2 DEF ToBeListedBy, Lists, Follows
      <4> QED BY <4>3 DEF Accounted
    <3> QED BY <3>1, <3>2, <3>5, <3>6, <3>7 DEF ToBeListedBy
  <2> QED BY <1>4, <1>5, <1>7, <2>2, <2>3, <2>5, <2>6 DEF Accounted
<1> QED BY <1>6, <1>7

(* A bootstrap lists a message or hands it on to the next page.            *)
LEMMA AccountedByBootstraps ==
  ASSUME GenerationsInv, G!TypeOK', NEW g \in G!Gens, Claims(g)', NEW m \in mail' \ done'[g],
         NEW w \in Workers, G!BeginBoot(w) \/ G!ListPage(w) \/ G!NextPage(w)
  PROVE  Accounted(g, m)'
<1>0. G!TypeOK /\ GenJobsKnown /\ OneBootEach
  BY DEF GenerationsInv
<1>1. UNCHANGED <<profile, gen, mail, done, genLater, request, genExcused>>
  BY DEF G!BeginBoot, G!ListPage, G!NextPage
<1>2. Accounted(g, m) /\ Claims(g)
  BY <1>1 DEF GenerationsInv, AllAccounted, Claims
<1>3. /\ \A scope : Waits(g, scope) \subseteq Waits(g, scope)'
      /\ ToBeAsked(g) => Accounted(g, m)'
  BY <1>1 DEF Waits, ToBeAsked, Accounted
<1>4. \A j, n : Lists(j, g, m, n) => Lists(j, g, m, n)'
  BY <1>1 DEF Lists, Follows, Rank, Waits, Place
<1>5. ASSUME G!BeginBoot(w)
      PROVE  Accounted(g, m)'
  <2>1. PICK j \in genQueue :
          /\ j.kind = "boot" /\ genQueue' = genQueue \ {j}
          /\ IF gen[j.g].status \in G!Live
               THEN genTask' = [genTask EXCEPT ![w] = [G!Idle EXCEPT !.pc = "page", !.job = j]]
               ELSE UNCHANGED genTask
    BY <1>5 DEF G!BeginBoot, G!Claim
  <2>2. genTask[w].pc = "idle" /\ \A v \in Workers : v # w => genTask'[v] = genTask[v]
    BY <1>0, <1>5, <2>1 DEF G!BeginBoot, G!Claim, G!TypeOK
  <2>3. j.g = g => genTask'[w].pc = "page" /\ genTask'[w].job = j
    <3>1. [G!Idle EXCEPT !.pc = "page", !.job = j].pc = "page" /\ [G!Idle EXCEPT !.pc = "page", !.job = j].job = j
      BY DEF G!Idle
    <3>2. j.g = g => gen[j.g].status \in G!Live
      BY <1>2 DEF Claims, G!Live
    <3> QED BY <1>0, <2>1, <3>1, <3>2 DEF G!TypeOK
  <2>4. j.g = g /\ Lists(j, g, m, j.arg) => Accounted(g, m)'
    <3>1. j.g = g /\ Lists(j, g, m, j.arg) => ToBeListedBy(w, g, m)'
      BY <1>4, <2>3 DEF ToBeListedBy, Lists, Follows
    <3> QED BY <3>1 DEF Accounted
  <2>5. ~ToBeListedBy(w, g, m)
    BY <2>2 DEF ToBeListedBy
  <2> QED BY <1>0, <1>1, <1>2, <1>3, <2>1, <2>2, <2>4, <2>5, AccountedKept
<1>6. ASSUME G!ListPage(w)
      PROVE  Accounted(g, m)'
  <2> DEFINE j == genTask[w].job
             page == G!Page(j.g, j.scope, j.arg)
             js == {G!Organise(j.g, x, IF j.scope = "history" THEN 0 ELSE 2) : x \in page}
  <2>1. /\ genTask[w].pc = "page" /\ G!Enqueue(js)
        /\ genTask' = [genTask EXCEPT ![w].pc = "next", ![w].page = page]
    BY <1>6 DEF G!ListPage
  <2>2. j \in GenJobs /\ j.g \in G!Gens /\ j.arg \in Nat
    BY <1>0, <2>1 DEF GenJobsKnown, GenTaskKnown, GenJobs, G!Jobs
  <2> HIDE DEF page
  <2>3. /\ genTask'[w].pc = "next" /\ genTask'[w].page = page /\ genTask'[w].job = j
        /\ \A v \in Workers : v # w => genTask'[v] = genTask[v]
    BY <1>0, <2>1 DEF G!TypeOK
  <2>4. genQueue \subseteq genQueue'
    BY <2>1, Enqueued
  <2>5. j.g = g /\ m \in page => Accounted(g, m)'
    <3> DEFINE i == G!Organise(j.g, m, IF j.scope = "history" THEN 0 ELSE 2)
    <3> SUFFICES ASSUME j.g = g, m \in page PROVE Accounted(g, m)'
      OBVIOUS
    <3>1. m \in G!Messages
      BY <1>0 DEF page, G!Page, G!TypeOK
    <3>2. i \in js /\ i.kind = "organise" /\ i.g = g /\ i.arg = m
      BY <2>2, <3>1, OrganiseIsJob
    <3>3. \A k \in G!Running : k.kind # "organise"
      BY <1>0, NoGenJob DEF G!Running, GenJobsKnown, GenTaskKnown
    <3> HIDE DEF i, js
    <3>4. i \in genQueue' \/ \E k \in genQueue \cup genLater \cup G!Running : G!Same(k, i)
      BY <2>1, <3>2, Enqueued
    <3>5. ToOrganise(g, m)'
      BY <1>1, <2>4, <3>2, <3>3, <3>4 DEF ToOrganise, G!Same
    <3> QED BY <3>5 DEF Accounted
  <2>6. ToBeListedBy(w, g, m) => Accounted(g, m)'
    <3> SUFFICES ASSUME ToBeListedBy(w, g, m) PROVE Accounted(g, m)'
      OBVIOUS
    <3>1. Lists(j, g, m, j.arg)
      BY <2>1 DEF ToBeListedBy
    <3>2. CASE Follows(j, g, m)
      <4>1. ToBeListedBy(w, g, m)'
        BY <2>3, <3>2 DEF ToBeListedBy, Follows
      <4> QED BY <4>1 DEF Accounted
    <3>3. CASE j.kind = "boot" /\ j.g = g /\ m \in G!InScope(j.scope) /\ Rank(g, j.scope, m) >= j.arg
      <4>1. m \in Waits(g, j.scope)
        BY <1>1, <3>3 DEF Waits
      <4>2. m \in page \/ (G!Full(page) /\ Rank(g, j.scope, m) >= j.arg + PageSize)
        BY <1>0, <2>2, <3>3, <4>1, PageOrFull DEF page
      <4>3. CASE G!Full(page) /\ Rank(g, j.scope, m) >= j.arg + PageSize
        <5>1. Lists(j, g, m, j.arg + PageSize)
          BY <3>3, <4>3 DEF Lists
        <5>2. ToBeListedBy(w, g, m)'
          BY <1>1, <2>3, <4>3, <5>1 DEF ToBeListedBy, Lists, Follows, Rank, Waits, Place, G!Full
        <5> QED BY <5>2 DEF Accounted
      <4> QED BY <2>5, <3>3, <4>2, <4>3
    <3> QED BY <3>1, <3>2, <3>3 DEF Lists
  <2> QED BY <1>0, <1>1, <1>2, <1>3, <2>3, <2>4, <2>6, AccountedKept
<1>7. ASSUME G!NextPage(w)
      PROVE  Accounted(g, m)'
  <2> DEFINE j == genTask[w].job
             more == IF G!Full(genTask[w].page) THEN {G!Boot(j.g, j.scope, j.arg + PageSize)}
                     ELSE IF j.scope = "recent" THEN {G!Boot(j.g, "history", 0)} ELSE {}
  <2>1. genTask[w].pc = "next" /\ G!Stop(w) /\ G!Enqueue(G!Finals(j.g) \cup more)
    BY <1>7 DEF G!NextPage
  <2>2. j \in GenJobs /\ j.g \in G!Gens /\ j.scope \in G!Scopes /\ j.arg \in Nat /\ j.kind = "boot"
    BY <1>0, <2>1 DEF GenTaskKnown, GenJobs, G!Jobs, GenJobsKnown
  <2>3. PageSize \in Nat /\ PageSize # 0 /\ j.arg + PageSize \in Nat
    BY <2>2, GenerationsAssumption DEF G!GenerationsAssumption
  <2> DEFINE next == G!Boot(j.g, j.scope, j.arg + PageSize)
             history == G!Boot(j.g, "history", 0)
  <2>4. /\ next.kind = "boot" /\ next.g = j.g /\ next.scope = j.scope /\ next.arg = j.arg + PageSize
        /\ history.kind = "boot" /\ history.g = j.g /\ history.scope = "history" /\ history.arg = 0
    BY <2>2, <2>3, BootIsJob DEF G!Scopes
  <2>5. \A i \in genQueue \cup genLater \cup G!Running : G!Same(i, next) => FALSE
    <3>1. \A i \in genQueue \cup genLater \cup G!Running : G!Same(i, next) => Kin(j, i) /\ i # j
      BY <2>2, <2>3, <2>4 DEF G!Same, Kin
    <3> QED BY <1>0, <3>1 DEF OneBootEach, G!Running
  <2>6. j.scope = "recent" => \A i \in genQueue \cup genLater \cup G!Running : G!Same(i, history) => FALSE
    <3>1. j.scope = "recent" => \A i \in genQueue \cup genLater \cup G!Running : G!Same(i, history) => Kin(j, i) /\ i # j
      BY <2>2, <2>4 DEF G!Same, Kin
    <3> QED BY <1>0, <3>1 DEF OneBootEach, G!Running
  <2> HIDE DEF next, history
  <2>7. genQueue \subseteq genQueue' /\ \A v \in Workers : v # w => genTask'[v] = genTask[v]
    BY <1>0, <2>1, Enqueued, StoppedTasks
  <2>8. G!Full(genTask[w].page) => next \in genQueue'
    BY <2>1, <2>5, Enqueued DEF next
  <2>9. ~G!Full(genTask[w].page) /\ j.scope = "recent" => history \in genQueue'
    BY <2>1, <2>6, Enqueued DEF history
  <2> HIDE DEF more
  <2>10. ToBeListedBy(w, g, m) => Accounted(g, m)'
    <3> SUFFICES ASSUME ToBeListedBy(w, g, m) PROVE ToBeListed(g, m)'
      BY DEF Accounted
    <3>1. CASE G!Full(genTask[w].page)
      <4>1. Lists(next, g, m, next.arg)
        BY <2>1, <2>4, <3>1 DEF ToBeListedBy, Lists, Follows
      <4> QED BY <1>4, <2>8, <3>1, <4>1 DEF ToBeListed
    <3>2. CASE ~G!Full(genTask[w].page)
      <4>1. Follows(j, g, m)
        BY <2>1, <3>2 DEF ToBeListedBy
      <4>2. m \in G!InScope("history") /\ Rank(g, "history", m) \in Nat
        <5>1. m \in G!Messages
          BY DEF G!TypeOK
        <5>2. G!InScope("history") = G!Messages \ Recent
          BY DEF G!InScope
        <5> QED BY <1>0, <4>1, <5>1, <5>2, RankTyped DEF Follows
      <4>3. Lists(history, g, m, history.arg)
        BY <2>4, <4>1, <4>2 DEF Lists, Follows
      <4> QED BY <1>4, <2>9, <3>2, <4>1, <4>3 DEF ToBeListed, Follows
    <3> QED BY <3>1, <3>2
  <2> QED BY <1>0, <1>1, <1>2, <1>3, <2>7, <2>10, AccountedKept
<1> QED BY <1>5, <1>6, <1>7

LEMMA AccountedByTheRest ==
  ASSUME GenerationsInv, G!TypeOK', NEW g \in G!Gens, Claims(g)', NEW m \in mail' \ done'[g],
         \/ \E w \in Workers : G!BeginFinal(w) \/ G!Count(w) \/ G!ReadStatus(w) \/ G!End(w) \/ G!Fail(w)
         \/ G!Wake \/ UNCHANGED G!vars
  PROVE  Accounted(g, m)'
<1>0. G!TypeOK /\ GenJobsKnown /\ ReadsKnown
  BY DEF GenerationsInv
<1>1. UNCHANGED <<mail, done, request, genExcused>>
  BY DEF G!BeginFinal, G!Count, G!ReadStatus, G!End, G!Fail, G!Wake, G!vars
<1>2. /\ \A scope : Waits(g, scope) \subseteq Waits(g, scope)'
      /\ ToBeAsked(g) => Accounted(g, m)'
  BY <1>1 DEF Waits, ToBeAsked, Accounted
<1>3. Claims(g) => Accounted(g, m)
  BY <1>1 DEF GenerationsInv, AllAccounted
<1>4. ASSUME gen' = gen PROVE Accounted(g, m)
  BY <1>3, <1>4 DEF Claims
<1>5. \A j, n : Lists(j, g, m, n) => Lists(j, g, m, n)'
  BY <1>1 DEF Lists, Follows, Rank, Waits, Place
<1>6. ASSUME NEW w \in Workers, genTask[w].pc \notin {"page", "next"},
             \A v \in Workers : v # w => genTask'[v] = genTask[v]
      PROVE  \A v \in Workers : genTask'[v] = genTask[v] \/ (ToBeListedBy(v, g, m) => Accounted(g, m)')
  BY <1>6 DEF ToBeListedBy
<1>7. ASSUME NEW w \in Workers, G!BeginFinal(w)
      PROVE  Accounted(g, m)'
  <2>1. PICK j \in genQueue : /\ j.kind = "final" /\ G!Claim(w, j)
                              /\ genTask' = [genTask EXCEPT ![w] = [G!Idle EXCEPT !.pc = "count", !.job = j]]
    BY <1>7 DEF G!BeginFinal
  <2>2. /\ genTask[w].pc = "idle" /\ \A v \in Workers : v # w => genTask'[v] = genTask[v]
        /\ genQueue' = genQueue \ {j} /\ genLater' = genLater /\ gen' = gen
    BY <1>0, <1>7, <2>1 DEF G!BeginFinal, G!Claim, G!TypeOK
  <2>3. \A i \in genQueue \cup genLater : i.kind # "final" => i \in (genQueue \cup genLater)'
    BY <2>1, <2>2
  <2> QED BY <1>0, <1>1, <1>2, <1>4, <1>6, <2>2, <2>3, AccountedKept
<1>8. ASSUME NEW w \in Workers, G!Count(w) \/ G!ReadStatus(w)
      PROVE  Accounted(g, m)'
  <2>1. /\ genTask[w].pc \in {"count", "read"} /\ gen' = gen
        /\ genQueue \subseteq genQueue' /\ genLater \subseteq genLater'
    BY <1>8 DEF G!Count, G!ReadStatus, G!queue
  <2>2. \A v \in Workers : v # w => genTask'[v] = genTask[v]
    BY <1>0, <1>8 DEF G!Count, G!ReadStatus, G!Stop, G!Goto, G!TypeOK
  <2> QED BY <1>0, <1>1, <1>2, <1>4, <1>6, <2>1, <2>2, AccountedKept
<1>9. ASSUME NEW w \in Workers, G!End(w)
      PROVE  Accounted(g, m)'
  <2> DEFINE k == genTask[w].job.g
  <2>1. k \in G!Gens
    BY <1>0, <1>9 DEF G!End, GenJobsKnown, GenTaskKnown, GenJobs
  <2>2. /\ genTask[w].pc = "end" /\ G!Stop(w)
        /\ \/ genTask[w].status = "building" /\ G!Promoted(k)
           \/ gen' = [gen EXCEPT ![k].complete = @ \/ gen[k].status = "shadow"] /\ UNCHANGED <<genQueue, genLater>>
           \/ UNCHANGED <<gen, genQueue, genLater>>
    BY <1>9 DEF G!End, G!queue
  <2>3. genTask[w].status = "building" => gen[k].status \notin {"none", "shadow"}
    BY <1>0, <2>2 DEF ReadsKnown
  <2> HIDE DEF k
  <2>4. \A v \in Workers : v # w => genTask'[v] = genTask[v]
    BY <1>0, <2>2, StoppedTasks
  <2>5. Claims(g) /\ \A j \in genQueue \cup genLater : j.g = g /\ j.kind # "final" => j \in (genQueue \cup genLater)'
    <3>1. CASE genTask[w].status = "building" /\ G!Promoted(k)
      <4>1. Claims(g)
        BY <1>0, <2>1, <2>3, <3>1, PromotedStatus DEF Claims
      <4>2. G!Final(k).kind = "final"
        BY DEF G!Final
      <4>3. gen'[g].status # "superseded"
        BY DEF Claims
      <4> QED BY <1>0, <2>1, <3>1, <4>1, <4>2, <4>3, PromotedKeeps
    <3>2. CASE gen' = [gen EXCEPT ![k].complete = @ \/ gen[k].status = "shadow"] /\ UNCHANGED <<genQueue, genLater>>
      <4>1. gen'[g].status = gen[g].status
        BY <1>0, <2>1, <3>2 DEF G!TypeOK
      <4> QED BY <3>2, <4>1 DEF Claims
    <3>3. CASE UNCHANGED <<gen, genQueue, genLater>>
      BY <3>3 DEF Claims
    <3> QED BY <2>2, <3>1, <3>2, <3>3
  <2> QED BY <1>0, <1>1, <1>2, <1>3, <1>6, <2>2, <2>4, <2>5, AccountedKept
<1>10. ASSUME NEW w \in Workers, G!Fail(w)
       PROVE  Accounted(g, m)'
  <2> DEFINE j == genTask[w].job
  <2>1. G!Stop(w) /\ genLater' = genLater \cup {j} /\ genQueue' = genQueue /\ gen' = gen
    BY <1>10 DEF G!Fail
  <2>2. \A v \in Workers : v # w => genTask'[v] = genTask[v]
    BY <1>0, <2>1, StoppedTasks
  <2>3. j.arg \in Nat /\ PageSize \in Nat
    BY <1>0, JobArgs, GenerationsAssumption DEF G!GenerationsAssumption
  <2>4. ToBeListedBy(w, g, m) => Lists(j, g, m, j.arg)
    <3>1. Lists(j, g, m, j.arg + PageSize) => Lists(j, g, m, j.arg)
      <4>1. Rank(g, j.scope, m) \in Nat
        BY <1>0, RankTyped
      <4> HIDE DEF j
      <4> QED BY <2>3, <4>1 DEF Lists
    <3> QED BY <3>1 DEF ToBeListedBy, Lists
  <2> HIDE DEF j
  <2>5. ToBeListedBy(w, g, m) => Accounted(g, m)'
    BY <1>5, <2>1, <2>4 DEF Accounted, ToBeListed
  <2> QED BY <1>0, <1>1, <1>2, <1>4, <2>1, <2>2, <2>5, AccountedKept
<1>11. ASSUME G!Wake \/ UNCHANGED G!vars
       PROVE  Accounted(g, m)'
  <2>1. gen' = gen /\ genTask' = genTask /\ genQueue \cup genLater \subseteq (genQueue \cup genLater)'
    BY <1>11 DEF G!Wake, G!vars, G!queue
  <2> QED BY <1>0, <1>1, <1>2, <1>4, <2>1, AccountedKept
<1> QED BY <1>7, <1>8, <1>9, <1>10, <1>11

LEMMA GenerationsStep ==
  ASSUME GenerationsInv, [G!Next]_(G!vars)
  PROVE  GenerationsInv'
<1>1. G!TypeOK /\ GenJobsKnown /\ OneBootEach /\ BootsOnce /\ RequestsKnown /\ ReadsKnown
  BY DEF GenerationsInv
<1>2. G!TypeOK' /\ GenJobsKnown'
  BY <1>1, GenerationsTyped
<1>3. OneBootEach' /\ BootsOnce' /\ RequestsKnown' /\ ReadsKnown'
  BY <1>1, BootsStay, RequestsStayKnown, ReadsStayKnown
<1>4. AllAccounted'
  <2> SUFFICES ASSUME NEW g \in G!Gens, Claims(g)', NEW m \in mail' \ done'[g]
               PROVE  Accounted(g, m)'
    BY DEF AllAccounted
  <2> QED BY <1>2, AccountedByRequests, AccountedByMail, AccountedByOrganising, AccountedByBootstraps, AccountedByTheRest
          DEF G!Next, G!Work
<1> QED BY <1>2, <1>3, <1>4 DEF GenerationsInv

LEMMA InitGenerations == G!Init => GenerationsInv /\ G!OneActive
<1> SUFFICES ASSUME G!Init PROVE GenerationsInv /\ G!OneActive
  OBVIOUS
<1>1. \A w \in Workers : genTask[w] = G!Idle
  BY DEF G!Init
<1>2. G!Idle \in GenTaskRows /\ G!Idle.pc = "idle" /\ G!Idle.job = G!NoJob
  BY NoGenJob DEF G!Idle, GenTaskRows
<1>3. G!TypeOK
  <2>1. genTask \in [Workers -> GenTaskRows]
    BY <1>2 DEF G!Init
  <2>2. profile \in ProfileRows
    <3>1. G!NoProfile \in ProfileRows
      BY GenerationsAssumption DEF G!NoProfile, G!None, ProfileRows, G!GenerationsAssumption
    <3> QED BY <3>1 DEF G!Init, ProfileRows
  <2>3. requests \in 0..MaxRequests /\ genFaults \in 0..MaxGenFaults
    BY GenerationsAssumption DEF G!Init, G!GenerationsAssumption
  <2> QED BY <2>1, <2>2, <2>3 DEF G!Init, G!TypeOK, GenTaskRows, ProfileRows
<1>4. GenJobsKnown
  BY <1>1, <1>2 DEF G!Init, GenJobsKnown, GenTaskKnown
<1>5. OneBootEach /\ BootsOnce
  BY <1>1, <1>2, NoGenJob DEF G!Init, OneBootEach, BootsOnce, BootOnce, Kin
<1>6. RequestsKnown /\ ReadsKnown /\ AllAccounted
  BY <1>1, <1>2 DEF G!Init, RequestsKnown, ReadsKnown, AllAccounted, Claims
<1>7. G!OneActive
  <2>1. G!With("active") = {} /\ profile.active = G!None
    BY DEF G!Init, G!With, G!NoProfile
  <2> QED BY <2>1 DEF G!OneActive
<1> QED BY <1>3, <1>4, <1>5, <1>6, <1>7 DEF GenerationsInv

(* The profile's generation and the one that is active change together.    *)
LEMMA OneActiveStays ==
  ASSUME G!TypeOK, GenJobsKnown, G!OneActive, [G!Next]_(G!vars)
  PROVE  G!OneActive'
<1>0. gen \in [G!Gens -> GenRows] /\ profile \in ProfileRows /\ \A g \in G!Gens : g # G!None
  BY GenerationsAssumption DEF G!TypeOK, GenRows, ProfileRows, G!Gens, G!None, G!GenerationsAssumption
<1>1. ASSUME NEW c \in BOOLEAN, NEW e \in BOOLEAN, NEW b \in BOOLEAN, G!Update(c, e, b)
      PROVE  G!OneActive'
  <2> DEFINE new == profile.active = G!None
             s == IF new THEN "active" ELSE "building"
  <2>1. PICK k \in G!Fresh \cup {G!None} :
          /\ gen' = IF k = G!None THEN gen ELSE G!Become({k}, s)
          /\ profile'.active = IF new /\ k # G!None THEN k ELSE profile.active
    BY <1>1 DEF G!Update
  <2>2. CASE k = G!None
    BY <2>1, <2>2 DEF G!OneActive, G!With
  <2>3. CASE k # G!None
    <3>1. k \in G!Gens /\ gen[k].status = "none"
      BY <2>3 DEF G!Fresh
    <3>2. \A g \in G!Gens : gen'[g].status = IF g = k THEN s ELSE gen[g].status
      BY <2>1, <2>3, Become DEF G!Live
    <3>3. CASE new
      <4>1. \A g \in G!Gens : gen[g].status # "active"
        BY <3>3 DEF G!OneActive, G!With
      <4> QED BY <2>1, <2>3, <3>1, <3>2, <3>3, <4>1 DEF G!OneActive, G!With
    <3>4. CASE ~new
      <4>1. \A g \in G!Gens : gen'[g].status = "active" <=> gen[g].status = "active"
        BY <3>1, <3>2, <3>4
      <4> QED BY <2>1, <3>4, <4>1 DEF G!OneActive, G!With
    <3> QED BY <3>3, <3>4
  <2> QED BY <2>2, <2>3
<1>2. ASSUME G!StartShadow
      PROVE  G!OneActive'
  <2>1. PICK k \in G!Fresh : gen' = [G!Become(G!With("shadow"), "superseded") EXCEPT ![k].status = "shadow"]
    BY <1>2 DEF G!StartShadow
  <2> DEFINE becoming == G!Become(G!With("shadow"), "superseded")
  <2>2. /\ becoming \in [G!Gens -> GenRows]
        /\ \A g \in G!Gens : becoming[g].status = IF g \in G!With("shadow") THEN "superseded" ELSE gen[g].status
    BY Become
  <2> HIDE DEF becoming
  <2>3. gen' = [becoming EXCEPT ![k].status = "shadow"] /\ k \in G!Gens /\ gen[k].status = "none"
    BY <2>1 DEF becoming, G!Fresh
  <2>4. \A g \in G!Gens : gen'[g].status = "active" <=> gen[g].status = "active"
    BY <2>2, <2>3 DEF GenRows, G!With
  <2>5. profile'.active = profile.active
    BY <1>0, <1>2 DEF G!StartShadow, ProfileRows
  <2> QED BY <2>4, <2>5 DEF G!OneActive, G!With
<1>3. ASSUME G!DeleteData
      PROVE  G!OneActive'
  <2>1. \A g \in G!Gens : gen'[g].status # "active"
    BY <1>3, Become DEF G!DeleteData
  <2>2. profile'.active = G!None
    BY <1>3 DEF G!DeleteData, G!NoProfile
  <2> QED BY <2>1, <2>2 DEF G!OneActive, G!With
<1>4. ASSUME NEW k \in G!Gens, G!Promoted(k)
      PROVE  G!OneActive'
  <2>1. CASE G!Promotable(k)
    <3> DEFINE becoming == G!Become(G!Superseded(k), "superseded")
    <3>1. /\ becoming \in [G!Gens -> GenRows]
          /\ \A g \in G!Gens : becoming[g].status = IF g \in G!Superseded(k) THEN "superseded" ELSE gen[g].status
      BY Become
    <3> HIDE DEF becoming
    <3>2. gen' = [becoming EXCEPT ![k] = [status |-> "active", complete |-> TRUE]]
      BY <1>4, <2>1 DEF G!Promoted, becoming
    <3>3. \A g \in G!Gens : gen'[g].status = "active" <=> g = k
      BY <3>1, <3>2 DEF G!Superseded, G!With
    <3>4. profile'.active = k
      BY <1>0, <1>4, <2>1 DEF G!Promoted, ProfileRows
    <3> QED BY <1>0, <3>3, <3>4 DEF G!OneActive, G!With
  <2>2. CASE ~G!Promotable(k)
    BY <1>4, <2>2 DEF G!Promoted, G!OneActive, G!With
  <2> QED BY <2>1, <2>2
<1>5. ASSUME NEW r \in request, G!Promote(r)
      PROVE  G!OneActive'
  BY <1>4, <1>5 DEF G!Promote, G!TypeOK
<1>6. ASSUME gen' = gen, profile' = profile
      PROVE  G!OneActive'
  BY <1>6 DEF G!OneActive, G!With
<1>7. ASSUME NEW w \in Workers, G!End(w)
      PROVE  G!OneActive'
  <2> DEFINE k == genTask[w].job.g
  <2>1. k \in G!Gens
    BY <1>7 DEF G!End, GenJobsKnown, GenTaskKnown, GenJobs
  <2>2. \/ G!Promoted(k)
        \/ gen' = [gen EXCEPT ![k].complete = @ \/ gen[k].status = "shadow"] /\ profile' = profile
        \/ gen' = gen /\ profile' = profile
    BY <1>7 DEF G!End
  <2> HIDE DEF k
  <2>3. CASE gen' = [gen EXCEPT ![k].complete = @ \/ gen[k].status = "shadow"] /\ profile' = profile
    <3>1. \A g \in G!Gens : gen'[g].status = gen[g].status
      BY <1>0, <2>1, <2>3 DEF GenRows
    <3> QED BY <2>3, <3>1 DEF G!OneActive, G!With
  <2> QED BY <1>4, <1>6, <2>1, <2>2, <2>3
<1>8. ASSUME \/ \E g \in G!Gens : G!AskPromote(g)
             \/ \E r \in request : G!Ask(r) \/ G!RequestDies(r)
             \/ \E m \in G!Messages : G!Arrive(m)
             \/ \E w \in Workers : \/ G!OrganiseMessage(w) \/ G!BeginBoot(w) \/ G!ListPage(w) \/ G!NextPage(w)
                                   \/ G!BeginFinal(w) \/ G!Count(w) \/ G!ReadStatus(w) \/ G!Fail(w)
             \/ G!Wake \/ UNCHANGED G!vars
      PROVE  gen' = gen /\ profile' = profile
  BY <1>8 DEF G!AskPromote, G!Ask, G!RequestDies, G!Arrive, G!OrganiseMessage, G!BeginBoot, G!ListPage, G!NextPage,
              G!BeginFinal, G!Count, G!ReadStatus, G!Fail, G!Wake, G!vars
<1> QED BY <1>1, <1>2, <1>3, <1>5, <1>6, <1>7, <1>8 DEF G!Next, G!Work

-----------------------------------------------------------------------------
(* When nothing is queued, asked for or under way for the active           *)
(* generation, every message is organised in it, but those that races and  *)
(* faults are known to leave behind: however bootstraps page, workers take *)
(* turns, mail arrives, jobs fail and rebuilds end (run_generation_        *)
(* bootstrap, list_generation_message_ids, enqueue_message_organization).  *)
THEOREM MessagesAreOrganised == G!Spec => []EveryMessageOrganised
<1>1. GenerationsInv /\ [G!Next]_(G!vars) => GenerationsInv'
  BY GenerationsStep
<1>2. GenerationsInv => EveryMessageOrganised
  <2> SUFFICES ASSUME GenerationsInv, NEW g \in G!With("active"), G!AtRest(g), NEW m \in mail \ done[g]
               PROVE  <<g, m>> \in genExcused
    BY DEF EveryMessageOrganised, G!EveryMessageOrganised
  <2>1. Accounted(g, m)
    BY DEF GenerationsInv, AllAccounted, Claims, G!With
  <2>2. /\ \A j \in genQueue \cup genLater \cup G!Running : j.g # g
        /\ <<"boot", g>> \notin request /\ <<"again", g>> \notin request
    BY DEF G!AtRest
  <2>3. ~ToOrganise(g, m) /\ ~ToBeAsked(g) /\ ~ToBeListed(g, m)
    BY <2>2 DEF ToOrganise, ToBeAsked, ToBeListed, Lists, Follows
  <2>4. \A w \in Workers : ~ToBeListedBy(w, g, m)
    BY <2>2 DEF ToBeListedBy, Lists, Follows, G!Running
  <2> QED BY <2>1, <2>3, <2>4 DEF Accounted
<1> QED BY <1>1, <1>2, InitGenerations, PTL DEF G!Spec

(* A generation that was superseded or deleted never comes back: a late    *)
(* finalisation, promotion or bootstrap of it finds nothing to do          *)
(* (promote_generation, finalize_generation).                              *)
THEOREM GenerationsNeverReturn == G!Spec => NeverReturns
<1>1. GenerationsInv /\ [G!Next]_(G!vars) => GenerationsInv'
  BY GenerationsStep
<1>2. GenerationsInv /\ [G!Next]_(G!vars) => [\A g \in G!Gens : G!Gone(g) => G!Gone(g)']_(G!vars)
  <2> SUFFICES ASSUME GenerationsInv, [G!Next]_(G!vars), NEW g \in G!Gens, G!Gone(g)
               PROVE  G!Gone(g)'
    OBVIOUS
  <2>1. StatusMoves(g)
    BY StatusSteps DEF GenerationsInv
  <2> QED BY <2>1 DEF StatusMoves, G!Gone
<1> QED BY <1>1, <1>2, InitGenerations, PTL DEF G!Spec, NeverReturns, G!NeverReturns

(* At most one generation is active, the profile's, whoever promotes when: *)
(* a request, a finalisation or two of each (promote_generation).          *)
THEOREM OneGenerationIsActive == G!Spec => []G!OneActive
<1>1. GenerationsInv /\ [G!Next]_(G!vars) => GenerationsInv'
  BY GenerationsStep
<1>2. GenerationsInv /\ G!OneActive /\ [G!Next]_(G!vars) => G!OneActive'
  BY OneActiveStays DEF GenerationsInv
<1> QED BY <1>1, <1>2, InitGenerations, PTL DEF G!Spec
=============================================================================
