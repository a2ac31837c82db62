----------------------------- MODULE Scheduler -----------------------------
(***************************************************************************)
(* The scheduler (real_scheduler) and its event loops, as far as tasks and *)
(* their library namespaces go.  A task is queued by any thread, tagged    *)
(* with the namespace of that thread, and moved to the timers of one loop  *)
(* by that loop's own thread.  remove_ns_tasks, which only the main thread *)
(* calls, asks every loop to drop the timers of one namespace and waits    *)
(* for a future that the last loop fulfils.                                *)
(*                                                                         *)
(* All tasks of streams are periodic, so a fired task stays in the timers. *)
(* Times are left out: any timer may be due at any moment.                 *)
(***************************************************************************)
EXTENDS Integers, Sequences, FiniteSets

CONSTANTS NLoops,      \* k_scheduler_threads
          QueueCap,    \* k_max_queue_size
          GlobalNs,    \* k_global_ns
          NoTask       \* no task is running

ASSUME SchedulerAssumption == NLoops \in Nat \ {0} /\ QueueCap \in Nat \ {0}

VARIABLES task_promises,  \* per loop, the queue of tasks to add
          ns_promises,    \* per loop, the queue of namespaces to remove
          signalled,      \* per loop, whether its async watcher is pending
          tasks,          \* per loop, the timers (real_async_loop::tasks_)
          loop_pc,        \* per loop, what its thread is doing
          running,        \* per loop, the task its thread is running
          pending_loops,  \* the counter shared by the loops of one request
          ns_removed      \* the value of the request's promise

schedVars == <<task_promises, ns_promises, signalled, tasks, loop_pc,
               running, pending_loops, ns_removed>>

Loops == 1..NLoops

\* A task: the namespace it is filed under and the code it runs.
Task(ns, code) == [ns |-> ns, code |-> code]

Queued(l) == {task_promises[l][i] : i \in DOMAIN task_promises[l]}

SchedInit ==
  /\ task_promises = [l \in Loops |-> <<>>]
  /\ ns_promises = [l \in Loops |-> <<>>]
  /\ signalled = [l \in Loops |-> FALSE]
  /\ tasks = [l \in Loops |-> {}]
  /\ loop_pc = [l \in Loops |-> "poll"]
  /\ running = [l \in Loops |-> NoTask]
  /\ pending_loops = 0
  /\ ns_removed = FALSE

-----------------------------------------------------------------------------
(* Called by other threads.                                                 *)

\* add_task: next_thread() is an unsynchronised round robin, so any loop may
\* be chosen; a full queue drops the task with a warning.
AddTask(task) ==
  /\ \E l \in Loops :
       \/ /\ Len(task_promises[l]) < QueueCap
          /\ task_promises' = [task_promises EXCEPT ![l] = Append(@, task)]
          /\ signalled' = [signalled EXCEPT ![l] = TRUE]
       \/ /\ Len(task_promises[l]) = QueueCap
          /\ UNCHANGED <<task_promises, signalled>>
  /\ UNCHANGED <<ns_promises, tasks, loop_pc, running, pending_loops, ns_removed>>

\* remove_ns_tasks: the promise and the counter of a new request.
NewRequest ==
  /\ pending_loops' = NLoops
  /\ ns_removed' = FALSE
  /\ UNCHANGED <<task_promises, ns_promises, signalled, tasks, loop_pc, running>>

\* Mutant of AskLoop: the loop is not signalled.
AskLoop_NoSignal(l, ns) ==
  /\ ns_promises' = [ns_promises EXCEPT ![l] = Append(@, ns)]
  /\ UNCHANGED <<signalled, task_promises, tasks, loop_pc, running, pending_loops,
                 ns_removed>>

\* remove_ns_tasks: one turn of its loop over the threads.  The queue always
\* has room (NsQueueHasRoom of RulesLoader), so its error branch is left out.
AskLoop(l, ns) ==
  /\ ns_promises' = [ns_promises EXCEPT ![l] = Append(@, ns)]
  /\ signalled' = [signalled EXCEPT ![l] = TRUE]
  /\ UNCHANGED <<task_promises, tasks, loop_pc, running, pending_loops, ns_removed>>

-----------------------------------------------------------------------------
(* The thread of loop l.                                                    *)

Goto(l, at) == loop_pc' = [loop_pc EXCEPT ![l] = at]

\* The async watcher fires and async_callback starts with add_tasks.
Wake(l) ==
  /\ loop_pc[l] = "poll"
  /\ signalled[l]
  /\ signalled' = [signalled EXCEPT ![l] = FALSE]
  /\ Goto(l, "add")
  /\ UNCHANGED <<task_promises, ns_promises, tasks, running, pending_loops, ns_removed>>

\* add_tasks: one task is popped and added to the timers.
AddTasks(l) ==
  /\ loop_pc[l] = "add"
  /\ task_promises[l] # <<>>
  /\ tasks' = [tasks EXCEPT ![l] = @ \cup {Head(task_promises[l])}]
  /\ task_promises' = [task_promises EXCEPT ![l] = Tail(@)]
  /\ UNCHANGED <<ns_promises, signalled, loop_pc, running, pending_loops, ns_removed>>

\* add_tasks finds its queue empty; async_callback goes on to remove_ns_tasks.
AddTasksEnd(l) ==
  /\ loop_pc[l] = "add"
  /\ task_promises[l] = <<>>
  /\ Goto(l, "remove")
  /\ UNCHANGED <<task_promises, ns_promises, signalled, tasks, running,
                 pending_loops, ns_removed>>

\* Mutant of RemoveNsTasks: the first loop, not the last, fulfils the promise.
RemoveNsTasks_First(l) ==
  /\ loop_pc[l] = "remove"
  /\ ns_promises[l] # <<>>
  /\ LET nm == Head(ns_promises[l])
     IN  tasks' = [tasks EXCEPT ![l] = {k \in @ : k.ns # nm}]
  /\ ns_promises' = [ns_promises EXCEPT ![l] = Tail(@)]
  /\ pending_loops' = pending_loops - 1
  /\ ns_removed' = TRUE
  /\ UNCHANGED <<task_promises, signalled, loop_pc, running>>

\* remove_ns_tasks(loop): drop the namespace's timers; the last loop fulfils
\* the promise.
RemoveNsTasks(l) ==
  /\ loop_pc[l] = "remove"
  /\ ns_promises[l] # <<>>
  /\ LET nm == Head(ns_promises[l])
     IN  tasks' = [tasks EXCEPT ![l] = {k \in @ : k.ns # nm}]
  /\ ns_promises' = [ns_promises EXCEPT ![l] = Tail(@)]
  /\ pending_loops' = pending_loops - 1
  /\ ns_removed' = (ns_removed \/ pending_loops = 1)
  /\ UNCHANGED <<task_promises, signalled, loop_pc, running>>

\* remove_ns_tasks(loop) finds its queue empty; the loop polls again.
RemoveNsTasksEnd(l) ==
  /\ loop_pc[l] = "remove"
  /\ ns_promises[l] = <<>>
  /\ Goto(l, "poll")
  /\ UNCHANGED <<task_promises, ns_promises, signalled, tasks, running,
                 pending_loops, ns_removed>>

\* timer_callback runs a due task; the periodic task stays in the timers.
RunTask(l) ==
  /\ loop_pc[l] = "poll"
  /\ \E k \in tasks[l] : running' = [running EXCEPT ![l] = k]
  /\ Goto(l, "run")
  /\ UNCHANGED <<task_promises, ns_promises, signalled, tasks, pending_loops,
                 ns_removed>>

\* The running code sets up a stream that schedules a task (a by() that meets
\* a new key).  thread_ns is not set on this thread: add_task files the task
\* under the global namespace.
RunningAddsTask(l) ==
  /\ loop_pc[l] = "run"
  /\ AddTask(Task(GlobalNs, running[l].code))

\* The task returns, or throws and the wrapper of add_tasks catches.
RunTaskEnd(l) ==
  /\ loop_pc[l] = "run"
  /\ running' = [running EXCEPT ![l] = NoTask]
  /\ Goto(l, "poll")
  /\ UNCHANGED <<task_promises, ns_promises, signalled, tasks, pending_loops,
                 ns_removed>>

LoopStep(l) ==
  \/ Wake(l) \/ AddTasks(l) \/ AddTasksEnd(l) \/ RemoveNsTasks(l)
  \/ RemoveNsTasksEnd(l) \/ RunTask(l) \/ RunTaskEnd(l)
=============================================================================
