----------------------------- MODULE AsyncLoop -----------------------------
(***************************************************************************)
(* The tasks of an event loop (real_async_loop.cpp) and its start and      *)
(* stop.  The loop's thread runs callbacks one after the other: the timer  *)
(* callback, which runs the tasks that are due, and the async callback.    *)
(* Both may add and remove tasks.                                          *)
(*                                                                         *)
(* A task is due by the system clock, which may be set back or forth; the  *)
(* timer of libev counts on by itself.                                     *)
(***************************************************************************)
EXTENDS Integers, FiniteSets

CONSTANTS MaxTasks,   \* bound: tasks that are ever added
          Delays,     \* the delays and intervals tasks are added with
          MaxTime,    \* bound: the time that passes
          Jump        \* how far the system clock is set, if it is

ASSUME LoopBounds == /\ MaxTasks \in Nat /\ MaxTime \in Nat
                     /\ Delays \subseteq Nat /\ Jump \in Nat

VARIABLES
  elapsed,    \* the time that has passed
  offset,     \* now() - elapsed
  next_id,    \* next_timer_id_
  tasks,      \* tasks_: a set of [id, ns, interval, time]
  top,        \* the task on top of the queue
  timer,      \* when timer_ fires, or Off
  pc,         \* where the thread is: [at, task]
  stop,       \* stop_
  sent,       \* the async watcher is signalled
  ran         \* history: how often each task has run

loopVars == <<elapsed, offset, next_id, tasks, top, timer, pc, stop, sent, ran>>
time_vars == <<elapsed, offset>>
task_vars == <<next_id, tasks, top, timer>>

Off == -1
None == [id |-> 0, ns |-> "global", interval |-> 0, time |-> 0]
Namespaces == {"global", "lib"}
Ids == 1..MaxTasks
At(p) == [at |-> p, task |-> None]

now == elapsed + offset

LoopInit ==
  /\ elapsed = 0 /\ offset = 0
  /\ next_id = 1 /\ tasks = {} /\ top = None /\ timer = Off
  /\ pc = At("new")
  /\ stop = FALSE /\ sent = FALSE
  /\ ran = [i \in Ids |-> 0]

-----------------------------------------------------------------------------
(* The queue of tasks, ordered by time.  A task that is added comes on top   *)
(* only if its time is smaller; the next one after a pop is any of the       *)
(* earliest; a removal rebuilds the queue in its order.                      *)

Earliest(ts) == IF ts = {} THEN {None} ELSE {t \in ts : \A u \in ts : t.time <= u.time}

Push(ts, tp, t) ==
  [tasks |-> ts \cup {t}, top |-> IF ts = {} \/ t.time < tp.time THEN t ELSE tp]

\* Mutant of SchedNextTask: a timer that is set stays as it is.
SchedNextTask_Keep(ts, tp) ==
  IF ts = {} THEN Off
  ELSE IF timer # Off THEN timer
  ELSE elapsed + (IF now > tp.time THEN 0 ELSE tp.time - now)

SchedNextTask(ts, tp) ==
  IF ts = {} THEN Off
  ELSE elapsed + (IF now > tp.time THEN 0 ELSE tp.time - now)

\* add_once_task, add_periodic_task
AddTask(ns, once, t) ==
  LET task == [id |-> next_id, ns |-> ns, interval |-> IF once THEN 0 ELSE t, time |-> now + t]
      q == Push(tasks, top, task)
  IN  /\ next_id <= MaxTasks
      /\ next_id' = next_id + 1
      /\ tasks' = q.tasks /\ top' = q.top
      /\ timer' = SchedNextTask(q.tasks, q.top)

\* remove_task.  The timer stays as it is.
RemoveTasks(gone) ==
  /\ tasks' = tasks \ gone
  /\ IF top \in gone THEN top' \in Earliest(tasks \ gone) ELSE UNCHANGED top
  /\ UNCHANGED <<next_id, timer>>

RemoveTask(id) == RemoveTasks({t \in tasks : t.id = id})
RemoveTaskLibNamespace(ns) == RemoveTasks({t \in tasks : t.ns = ns})

\* What a task or an async callback does to the queue.
Code ==
  \/ UNCHANGED task_vars
  \/ \E ns \in Namespaces, once \in BOOLEAN, t \in Delays : AddTask(ns, once, t)
  \/ \E t \in tasks : RemoveTask(t.id)

-----------------------------------------------------------------------------
(* timer_callback                                                           *)

Due(t) == t.time <= now

\* libev stops a timer that fires.
TimerFires ==
  /\ pc.at = "idle" /\ timer # Off /\ timer <= elapsed
  /\ timer' = Off
  /\ pc' = At("check")
  /\ UNCHANGED <<time_vars, next_id, tasks, top, stop, sent, ran>>

CheckTop ==
  /\ pc.at = "check" /\ tasks # {} /\ Due(top)
  /\ pc' = [at |-> "run", task |-> top]
  /\ UNCHANGED <<time_vars, task_vars, stop, sent, ran>>

RunTask ==
  /\ pc.at = "run"
  /\ Code
  /\ ran' = [ran EXCEPT ![pc.task.id] = @ + 1]
  /\ pc' = [pc EXCEPT !.at = "after"]
  /\ UNCHANGED <<time_vars, stop, sent>>

\* Mutant of Again: a task stays in the queue if there are others.
Again_Others(task) == tasks # {task}

\* The task is not on top any more: it has removed itself, or one that was
\* added comes before it.
Again(task) == tasks = {} \/ top.id # task.id

AfterTask ==
  /\ pc.at = "after"
  /\ pc' = At("check")
  /\ \/ Again(pc.task) /\ UNCHANGED <<tasks, top>>
     \/ /\ ~Again(pc.task) /\ pc.task.interval = 0
        /\ tasks' = tasks \ {top}
        /\ top' \in Earliest(tasks')
     \/ /\ ~Again(pc.task) /\ pc.task.interval > 0
        /\ \E tp \in Earliest(tasks \ {top}) :
             LET q == Push(tasks \ {top}, tp, [pc.task EXCEPT !.time = now + pc.task.interval])
             IN  tasks' = q.tasks /\ top' = q.top
  /\ UNCHANGED <<time_vars, next_id, timer, stop, sent, ran>>

TimerEnds ==
  /\ pc.at = "check" /\ (tasks = {} \/ ~Due(top))
  /\ timer' = SchedNextTask(tasks, top)
  /\ pc' = At("idle")
  /\ UNCHANGED <<time_vars, next_id, tasks, top, stop, sent, ran>>

-----------------------------------------------------------------------------
(* start, stop, signal and the async callback                               *)

\* The owner of the loop adds periodic tasks before the loop is started.
Prepare ==
  /\ pc.at = "new" /\ \E t \in Delays : AddTask("global", FALSE, t)
  /\ UNCHANGED <<time_vars, pc, stop, sent, ran>>

\* A signal that was sent before is lost: starting the watcher clears it.
Start ==
  /\ pc.at = "new"
  /\ pc' = At("idle") /\ sent' = FALSE
  /\ UNCHANGED <<time_vars, task_vars, stop, ran>>

Signal == ~sent /\ sent' = TRUE /\ UNCHANGED <<time_vars, task_vars, pc, stop, ran>>

StopLoop == ~stop /\ stop' = TRUE /\ sent' = TRUE
        /\ UNCHANGED <<time_vars, task_vars, pc, ran>>

\* With stop_ set the loop ends; otherwise the owner's callback runs, which adds
\* tasks, or removes those of a library.
AsyncCallback ==
  /\ pc.at = "idle" /\ sent
  /\ sent' = FALSE
  /\ \/ stop /\ pc' = At("ended") /\ UNCHANGED task_vars
     \/ ~stop /\ UNCHANGED pc /\ (Code \/ RemoveTaskLibNamespace("lib"))
  /\ UNCHANGED <<time_vars, stop, ran>>

-----------------------------------------------------------------------------
Tick == /\ elapsed < MaxTime /\ elapsed' = elapsed + 1
        /\ UNCHANGED <<offset, task_vars, pc, stop, sent, ran>>

\* The system clock is set.
ClockSet == /\ offset = 0 /\ offset' \in {-Jump, Jump}
            /\ UNCHANGED <<elapsed, task_vars, pc, stop, sent, ran>>

LoopNext ==
  \/ Prepare \/ Start \/ Signal \/ StopLoop \/ AsyncCallback
  \/ TimerFires \/ CheckTop \/ RunTask \/ AfterTask \/ TimerEnds
  \/ Tick \/ ClockSet

LoopSpec == LoopInit /\ [][LoopNext]_loopVars

\* The loop's thread goes on, and time passes.
LoopFairSpec ==
  /\ LoopSpec
  /\ WF_loopVars(Start) /\ WF_loopVars(AsyncCallback) /\ WF_loopVars(Tick)
  /\ WF_loopVars(TimerFires \/ CheckTop \/ RunTask \/ AfterTask \/ TimerEnds)

-----------------------------------------------------------------------------
(* Properties.                                                              *)

TypeOK ==
  /\ elapsed \in 0..MaxTime /\ offset \in {-Jump, 0, Jump} /\ next_id \in 1..(MaxTasks + 1)
  /\ \A t \in tasks : t.id \in 1..(next_id - 1) /\ t.ns \in Namespaces /\ t.interval \in Nat
  /\ top \in Earliest(tasks)
  /\ timer \in Nat \cup {Off} /\ stop \in BOOLEAN /\ sent \in BOOLEAN

\* No task runs before its time by the system clock, and one that was added to
\* run once runs once, unless the clock was set back.
RunsOnceWhenDue ==
  /\ pc.at = "run" /\ offset = 0 => pc.task.time <= now
  /\ \A t \in tasks : t.interval = 0 /\ ran[t.id] > 0 /\ offset >= 0
                        => pc.at = "after" /\ pc.task.id = t.id

\* Between callbacks there is a timer for the next task, which fires no later
\* than the task is due if the clock was not set.
TimerArmed ==
  pc.at \in {"new", "idle"} /\ tasks # {} =>
    /\ timer # Off
    /\ offset = 0 => timer <= elapsed \/ timer <= top.time

\* Tasks run on time: timer_callback runs a task only when it is due, a task of
\* add_once_task runs once, and whatever was added or removed since, the loop
\* waits for the next task of the queue.
TasksOnTime == TypeOK /\ RunsOnceWhenDue /\ TimerArmed

\* A task is due by a clock that was not set, and the loop has not ended.
TaskWaiting == tasks # {} /\ top.time <= elapsed /\ offset = 0 /\ pc.at # "ended"

\* What add_task has queued runs when it is due, or is removed: sched_next_task is
\* called whenever the task on top may have changed, so that timer_callback is not
\* left waiting for another one.
DueRuns == TaskWaiting ~> ~TaskWaiting
=============================================================================
