---------------------------- MODULE RulesLoader ----------------------------
(***************************************************************************)
(* Loading and reloading rule libraries (rules_loader.cpp) while events    *)
(* are pushed through them (streams::push_event) and while their tasks run *)
(* in the scheduler.                                                       *)
(*                                                                         *)
(*  - the main thread runs load_rules, at start and on SIGHUP: it compares *)
(*    the rules directory with the table of slots, closes libraries that   *)
(*    changed or went away and loads the new ones;                         *)
(*  - workers (executor, udp and expiry threads) push events: each visits  *)
(*    the slots in order and enters the libraries in use;                  *)
(*  - the scheduler's loops run the tasks of the libraries' streams.       *)
(*                                                                         *)
(* The reference counter of a slot appears here as the gate that StreamLib *)
(* implements: entering needs the used bit, and the closing loop ends when *)
(* nobody is inside.  A mapped library is an image: file, version and the  *)
(* number of the dlopen that mapped it.                                    *)
(***************************************************************************)
EXTENDS Scheduler

CONSTANTS Libs,        \* names of rule libraries
          NSlots,      \* k_streams
          Workers,     \* threads that call streams::push_event
          None,        \* no file, no image
          MaxTime,     \* bound: number of writes to the rules directory
          MaxReloads,  \* bound: number of calls of load_rules
          MaxTasks     \* bound: number of tasks streams schedule

ASSUME LoaderAssumption ==
  /\ NSlots \in Nat \ {0}
  /\ MaxTime \in Nat /\ MaxReloads \in Nat /\ MaxTasks \in Nat
  /\ None \notin Libs

Slots == 1..NSlots

VARIABLES disk,      \* rules directory: time of the last write, 0 if absent
          clock,     \* the time of the last write to the directory
          mapped,    \* the images mapped into the process
          pinned,    \* images whose dlclose failed
          opened,    \* number of dlopen calls that mapped an image
          streams_,  \* the table of slots
          main,      \* where the main thread is in load_rules
          so_files,  \* what the directory scan of this load_rules found
          todo,      \* files of so_files the loop has not visited
          curr_map,  \* the slot of each library in use when load_rules began
          unused,    \* libraries in use that the loop has not met
          curr,      \* the library being closed or loaded, its slot and image
          asked,     \* loops already asked by remove_ns_tasks
          reloads,   \* number of calls of load_rules
          pos,       \* per worker, the slot push_event is at, 0 if idle
          exec,      \* per worker, the image it is executing
          thread_ns, \* per worker, its library namespace
          ntasks,    \* number of tasks scheduled by streams
          late,      \* history: tasks queued behind add_tasks at a request
          failed     \* history: files whose load or close failed

diskVars == <<disk, clock>>
imageVars == <<mapped, pinned, opened>>
mainVars == <<main, so_files, todo, curr_map, unused, curr, asked, reloads, failed>>
workerVars == <<pos, exec, thread_ns>>
vars == <<schedVars, diskVars, imageVars, streams_, mainVars, workerVars,
          ntasks, late>>

Image == [file : Libs, version : Nat, nth : Nat]

EmptySlot == [file |-> None, last_write_time |-> 0, handle |-> None,
              stream |-> None, used |-> FALSE]

Inside(s) == {w \in Workers : pos[w] = s /\ exec[w] # None}

Init ==
  /\ SchedInit
  /\ disk \in [Libs -> {0, 1}]
  /\ clock = 1
  /\ mapped = {} /\ pinned = {} /\ opened = 0
  /\ streams_ = [s \in Slots |-> EmptySlot]
  /\ main = "idle"
  /\ so_files = [f \in Libs |-> 0]
  /\ todo = {} /\ unused = {} /\ asked = 0 /\ reloads = 0
  /\ curr_map = [f \in Libs |-> 0]
  /\ curr = [file |-> None, slot |-> 0, image |-> None]
  /\ pos = [w \in Workers |-> 0]
  /\ exec = [w \in Workers |-> None]
  /\ thread_ns = [w \in Workers |-> GlobalNs]
  /\ ntasks = 0
  /\ late = {} /\ failed = {}

-----------------------------------------------------------------------------
(* The rules directory changes under the running program.                   *)

\* A file is written.  last_write_time has seconds: two writes of one file are
\* taken to be at least a second apart, so that each has a time of its own.
Deploy(f) ==
  /\ clock < MaxTime
  /\ clock' = clock + 1
  /\ disk' = [disk EXCEPT ![f] = clock + 1]
  /\ UNCHANGED <<schedVars, imageVars, streams_, mainVars, workerVars, ntasks, late>>

\* A file is removed.
Undeploy(f) ==
  /\ disk[f] # 0
  /\ disk' = [disk EXCEPT ![f] = 0]
  /\ UNCHANGED <<schedVars, clock, imageVars, streams_, mainVars, workerVars, ntasks, late>>

-----------------------------------------------------------------------------
(* The main thread in load_rules.                                           *)

InUse(s, f) == streams_[s].used /\ streams_[s].file = f

\* load_rules starts: make_curr_map, the set of libraries in use, so_files.
LoadRules ==
  /\ main = "idle"
  /\ reloads < MaxReloads
  /\ reloads' = reloads + 1
  /\ curr_map' = [f \in Libs |->
                    IF \E s \in Slots : InUse(s, f)
                    THEN CHOOSE s \in Slots : /\ InUse(s, f)
                                             /\ \A r \in Slots : InUse(r, f) => r <= s
                    ELSE 0]
  /\ unused' = {f \in Libs : \E s \in Slots : InUse(s, f)}
  /\ so_files' = disk
  /\ todo' = {f \in Libs : disk[f] # 0}
  /\ failed' = {}
  /\ main' = "scan"
  /\ UNCHANGED <<schedVars, diskVars, imageVars, streams_, curr, asked,
                 workerVars, ntasks, late>>

\* Mutant of Visit: a library found in the directory is not erased from unused.
Visit_KeepUnused(f) ==
  /\ main = "scan"
  /\ f \in todo
  /\ todo' = todo \ {f}
  /\ UNCHANGED <<so_files, curr_map, unused, reloads>>

\* The part of one turn of the loop over so_files that every branch shares.
Visit(f) ==
  /\ main = "scan"
  /\ f \in todo
  /\ todo' = todo \ {f}
  /\ unused' = unused \ {f}
  /\ UNCHANGED <<so_files, curr_map, reloads>>

\* "didn't change": the time of the last write is the one of the slot.
Unchanged(f) ==
  /\ Visit(f)
  /\ curr_map[f] # 0
  /\ streams_[curr_map[f]].last_write_time = so_files[f]
  /\ UNCHANGED <<schedVars, diskVars, imageVars, streams_, main, curr, asked,
                 failed, workerVars, ntasks, late>>

\* Mutant of BeginClose: the streams are released before the slot is deserted.
BeginClose_Reset(f, s) ==
  /\ streams_' = [streams_ EXCEPT ![s].used = FALSE, ![s].stream = None]
  /\ curr' = [file |-> f, slot |-> s, image |-> None]
  /\ main' = "drain"

\* close_library(slot): set_used(false).
BeginClose(f, s) ==
  /\ streams_' = [streams_ EXCEPT ![s].used = FALSE]
  /\ curr' = [file |-> f, slot |-> s, image |-> None]
  /\ main' = "drain"

\* The library changed: close_library, to be followed by load_library.
CloseChanged(f) ==
  /\ Visit(f)
  /\ curr_map[f] # 0
  /\ streams_[curr_map[f]].last_write_time # so_files[f]
  /\ BeginClose(f, curr_map[f])
  /\ UNCHANGED <<schedVars, diskVars, imageVars, asked, failed, workerVars,
                 ntasks, late>>

\* "run out of lib spots".
NoSpot(f) ==
  /\ Visit(f)
  /\ curr_map[f] = 0
  /\ \A s \in Slots : streams_[s].used
  /\ failed' = failed \cup {f}
  /\ UNCHANGED <<schedVars, diskVars, imageVars, streams_, main, curr, asked,
                 workerVars, ntasks, late>>

\* Mutant of PickSlot: library_used is not asked.
PickSlot_AnyLib(f) ==
  /\ Visit(f)
  /\ \E s \in Slots :
       /\ ~streams_[s].used
       /\ \A r \in 1..(s - 1) : streams_[r].used
       /\ curr' = [file |-> f, slot |-> s, image |-> None]
  /\ main' = "dlopen"
  /\ UNCHANGED <<schedVars, diskVars, imageVars, streams_, asked, failed,
                 workerVars, ntasks, late>>

\* A new library goes to the first unused slot.
PickSlot(f) ==
  /\ Visit(f)
  /\ curr_map[f] = 0
  /\ \E s \in Slots :
       /\ ~streams_[s].used
       /\ \A r \in 1..(s - 1) : streams_[r].used
       /\ curr' = [file |-> f, slot |-> s, image |-> None]
  /\ main' = "dlopen"
  /\ UNCHANGED <<schedVars, diskVars, imageVars, streams_, asked, failed,
                 workerVars, ntasks, late>>

\* The loop over so_files ends; the loop over the libraries left in unused,
\* whose files are gone, begins.
ScanEnd ==
  /\ main = "scan"
  /\ todo = {}
  /\ main' = "sweep"
  /\ UNCHANGED <<schedVars, diskVars, imageVars, streams_, so_files, todo,
                 curr_map, unused, curr, asked, reloads, failed, workerVars,
                 ntasks, late>>

\* close_library for a library whose file is gone.
CloseRemoved(f) ==
  /\ main = "sweep"
  /\ f \in unused
  /\ unused' = unused \ {f}
  /\ BeginClose(f, curr_map[f])
  /\ UNCHANGED <<schedVars, diskVars, imageVars, so_files, todo, curr_map,
                 asked, reloads, failed, workerVars, ntasks, late>>

\* Mutant of SweepEnd: libraries whose files are gone are left open.
SweepEnd_KeepOpen ==
  /\ main = "sweep"
  /\ main' = "idle"
  /\ UNCHANGED <<schedVars, diskVars, imageVars, streams_, so_files, todo,
                 curr_map, unused, curr, asked, reloads, failed, workerVars,
                 ntasks, late>>

\* The second loop ends and load_rules returns.
SweepEnd ==
  /\ main = "sweep"
  /\ unused = {}
  /\ main' = "idle"
  /\ UNCHANGED <<schedVars, diskVars, imageVars, streams_, so_files, todo,
                 curr_map, unused, curr, asked, reloads, failed, workerVars,
                 ntasks, late>>

-----------------------------------------------------------------------------
(* The main thread in close_library, after set_used(false).                 *)

\* Where load_rules goes on when close_library(curr) has failed.
AfterFailedClose == IF so_files[curr.file] # 0 THEN "scan" ELSE "sweep"

\* Mutant of Drained: the counter is not awaited.
Drained_NoWait ==
  /\ main = "drain"
  /\ NewRequest
  /\ asked' = 0
  /\ main' = "ask"
  /\ UNCHANGED <<diskVars, imageVars, streams_, so_files, todo, curr_map,
                 unused, curr, reloads, failed, workerVars, ntasks, late>>

\* The polling loop reads zero; remove_ns_tasks makes its promise.
Drained ==
  /\ main = "drain"
  /\ Inside(curr.slot) = {}
  /\ NewRequest
  /\ asked' = 0
  /\ main' = "ask"
  /\ UNCHANGED <<diskVars, imageVars, streams_, so_files, todo, curr_map,
                 unused, curr, reloads, failed, workerVars, ntasks, late>>

\* remove_ns_tasks asks the loops one after the other.  Tasks that sit in the
\* queue of a loop whose callback is past add_tasks are recorded in late.
Ask ==
  /\ main = "ask"
  /\ LET l == asked + 1
     IN  /\ AskLoop(l, streams_[curr.slot].file)
         /\ late' = IF loop_pc[l] = "remove" THEN late \cup Queued(l) ELSE late
         /\ asked' = l
         /\ main' = IF l = NLoops THEN "await" ELSE "ask"
  /\ UNCHANGED <<diskVars, imageVars, streams_, so_files, todo, curr_map,
                 unused, curr, reloads, failed, workerVars, ntasks>>

\* ns_future.get() returns and dlclose unmaps the library, unless an earlier
\* failure left it open twice.
Dlclose ==
  /\ main = "await"
  /\ ns_removed
  /\ LET image == streams_[curr.slot].handle
     IN  mapped' = IF image \in pinned THEN mapped ELSE mapped \ {image}
  /\ streams_' = [streams_ EXCEPT ![curr.slot].handle = None]
  /\ main' = IF so_files[curr.file] # 0 THEN "dlopen" ELSE "sweep"
  /\ UNCHANGED <<schedVars, diskVars, pinned, opened, so_files, todo, curr_map,
                 unused, curr, asked, reloads, failed, workerVars, ntasks, late>>

\* dlclose fails: the slot stays unused and the image mapped.
DlcloseFails ==
  /\ main = "await"
  /\ ns_removed
  /\ pinned' = pinned \cup {streams_[curr.slot].handle}
  /\ failed' = failed \cup {curr.file}
  /\ main' = AfterFailedClose
  /\ UNCHANGED <<schedVars, diskVars, mapped, opened, streams_, so_files, todo,
                 curr_map, unused, curr, asked, reloads, workerVars, ntasks, late>>

-----------------------------------------------------------------------------
(* The main thread in load_library.                                         *)

\* dlopen and rules().  A file that is still mapped is not mapped again:
\* dlopen returns the image it has.
Dlopen ==
  /\ main = "dlopen"
  /\ \/ /\ \E image \in mapped :
             /\ image.file = curr.file
             /\ curr' = [curr EXCEPT !.image = image]
        /\ UNCHANGED imageVars
     \/ /\ \A image \in mapped : image.file # curr.file
        /\ disk[curr.file] # 0
        /\ LET image == [file |-> curr.file, version |-> disk[curr.file],
                         nth |-> opened + 1]
           IN  /\ curr' = [curr EXCEPT !.image = image]
               /\ mapped' = mapped \cup {image}
        /\ opened' = opened + 1
        /\ UNCHANGED pinned
  /\ main' = "init"
  /\ UNCHANGED <<schedVars, diskVars, streams_, so_files, todo, curr_map,
                 unused, asked, reloads, failed, workerVars, ntasks, late>>

\* dlopen fails, or dlsym does and the library is closed at once.
DlopenFails ==
  /\ main = "dlopen"
  /\ failed' = failed \cup {curr.file}
  /\ main' = "scan"
  /\ UNCHANGED <<schedVars, diskVars, imageVars, streams_, so_files, todo,
                 curr_map, unused, curr, asked, reloads, workerVars, ntasks, late>>

\* init_streams: a stream schedules a task, under the library's namespace.
InitAddsTask ==
  /\ main = "init"
  /\ ntasks < MaxTasks
  /\ ntasks' = ntasks + 1
  /\ AddTask(Task(curr.file, curr.image))
  /\ UNCHANGED <<diskVars, imageVars, streams_, mainVars, workerVars, late>>

\* init_streams is done; the fields of the slot are assigned.
Assign ==
  /\ main = "init"
  /\ streams_' = [streams_ EXCEPT ![curr.slot] =
                    [@ EXCEPT !.file = curr.file,
                              !.handle = curr.image,
                              !.last_write_time = so_files[curr.file],
                              !.stream = curr.image]]
  /\ main' = "enable"
  /\ UNCHANGED <<schedVars, diskVars, imageVars, so_files, todo, curr_map,
                 unused, curr, asked, reloads, failed, workerVars, ntasks, late>>

\* set_used(true).
Enable ==
  /\ main = "enable"
  /\ streams_' = [streams_ EXCEPT ![curr.slot].used = TRUE]
  /\ main' = "scan"
  /\ UNCHANGED <<schedVars, diskVars, imageVars, so_files, todo, curr_map,
                 unused, curr, asked, reloads, failed, workerVars, ntasks, late>>

MainStep ==
  \/ \E f \in Libs : \/ Unchanged(f) \/ CloseChanged(f) \/ NoSpot(f)
                     \/ PickSlot(f) \/ CloseRemoved(f)
  \/ ScanEnd \/ SweepEnd \/ Drained \/ Ask \/ Dlclose \/ DlcloseFails
  \/ Dlopen \/ DlopenFails \/ InitAddsTask \/ Assign \/ Enable

-----------------------------------------------------------------------------
(* A worker in streams::push_event.                                         *)

\* The next turn of push_event's loop over the slots.
NextSlot(w) == pos' = [pos EXCEPT ![w] = IF @ = NSlots THEN 0 ELSE @ + 1]

WorkerFrame == UNCHANGED <<diskVars, imageVars, streams_, mainVars, late>>

PushEvent(w) ==
  /\ pos[w] = 0
  /\ NextSlot(w)
  /\ WorkerFrame
  /\ UNCHANGED <<schedVars, exec, thread_ns, ntasks>>

\* used() or inc() finds the slot not in use.
SkipSlot(w) ==
  /\ pos[w] # 0 /\ exec[w] = None
  /\ ~streams_[pos[w]].used
  /\ NextSlot(w)
  /\ WorkerFrame
  /\ UNCHANGED <<schedVars, exec, thread_ns, ntasks>>

\* push_stream: inc() succeeds, set_thread_ns, and the streams are entered.
EnterSlot(w) ==
  /\ pos[w] # 0 /\ exec[w] = None
  /\ streams_[pos[w]].used
  /\ exec' = [exec EXCEPT ![w] = streams_[pos[w]].stream]
  /\ thread_ns' = [thread_ns EXCEPT ![w] = streams_[pos[w]].file]
  /\ WorkerFrame
  /\ UNCHANGED <<schedVars, pos, ntasks>>

\* The streams set up a stream that schedules a task (by() meets a new key).
StreamAddsTask(w) ==
  /\ exec[w] # None
  /\ ntasks < MaxTasks
  /\ ntasks' = ntasks + 1
  /\ AddTask(Task(thread_ns[w], exec[w]))
  /\ WorkerFrame
  /\ UNCHANGED workerVars

\* The streams return or throw: set_thread_global_ns, dec().
LeaveSlot(w) ==
  /\ exec[w] # None
  /\ exec' = [exec EXCEPT ![w] = None]
  /\ thread_ns' = [thread_ns EXCEPT ![w] = GlobalNs]
  /\ NextSlot(w)
  /\ WorkerFrame
  /\ UNCHANGED <<schedVars, ntasks>>

Worker(w) == SkipSlot(w) \/ EnterSlot(w) \/ StreamAddsTask(w) \/ LeaveSlot(w)

-----------------------------------------------------------------------------
Loop(l) ==
  \/ /\ LoopStep(l)
     /\ UNCHANGED ntasks
     /\ WorkerFrame
     /\ UNCHANGED workerVars
  \/ /\ RunningAddsTask(l)
     /\ ntasks < MaxTasks
     /\ ntasks' = ntasks + 1
     /\ WorkerFrame
     /\ UNCHANGED workerVars

Next ==
  \/ \E f \in Libs : Deploy(f) \/ Undeploy(f)
  \/ LoadRules \/ MainStep
  \/ \E w \in Workers : PushEvent(w) \/ Worker(w)
  \/ \E l \in Loops : Loop(l)

Spec == Init /\ [][Next]_vars

\* Threads that can run are scheduled; signals, events and deployments need
\* not come.  Timers need not be due (RunTask is not fair), but a callback
\* that started goes on.  A pending signal is served although timers keep
\* coming due, since each turn of an event loop runs the callbacks of all the
\* watchers that are pending: strong fairness.
Fairness ==
  /\ WF_vars(MainStep)
  /\ \A w \in Workers : WF_vars(SkipSlot(w) \/ EnterSlot(w) \/ LeaveSlot(w))
  /\ \A l \in Loops :
       /\ SF_vars(Wake(l) /\ Loop(l))
       /\ WF_vars(Loop(l) /\ loop_pc[l] \in {"add", "remove"})
       /\ WF_vars(RunTaskEnd(l) /\ Loop(l))

FairSpec == Spec /\ Fairness

-----------------------------------------------------------------------------
(* Properties.                                                              *)

NoneOr(S) == S \cup {None}

TaskSet == [ns : Libs \cup {GlobalNs}, code : Image]

SlotType == [file : NoneOr(Libs), last_write_time : Nat, handle : NoneOr(Image),
             stream : NoneOr(Image), used : BOOLEAN]

\* The types of the slot table, of the scan and of the scheduler's queues; the
\* cursor of load_rules never leaves the table of k_streams slots.
TypeOK ==
  /\ disk \in [Libs -> Nat] /\ clock \in Nat
  /\ mapped \subseteq Image /\ pinned \subseteq Image /\ opened \in Nat
  /\ streams_ \in [Slots -> SlotType]
  /\ main \in {"idle", "scan", "drain", "ask", "await", "dlopen", "init",
               "enable", "sweep"}
  /\ so_files \in [Libs -> Nat]
  /\ todo \subseteq Libs /\ unused \subseteq Libs /\ failed \subseteq Libs
  /\ curr_map \in [Libs -> 0..NSlots]
  /\ curr \in [file : NoneOr(Libs), slot : 0..NSlots, image : NoneOr(Image)]
  /\ asked \in 0..NLoops /\ reloads \in Nat /\ ntasks \in Nat
  /\ pos \in [Workers -> 0..NSlots]
  /\ exec \in [Workers -> NoneOr(Image)]
  /\ thread_ns \in [Workers -> Libs \cup {GlobalNs}]
  /\ late \subseteq TaskSet
  /\ task_promises \in [Loops -> Seq(TaskSet)]
  /\ ns_promises \in [Loops -> Seq(Libs)]
  /\ signalled \in [Loops -> BOOLEAN]
  /\ tasks \in [Loops -> SUBSET TaskSet]
  /\ loop_pc \in [Loops -> {"poll", "add", "remove", "run"}]
  /\ running \in [Loops -> TaskSet \cup {NoTask}]
  /\ pending_loops \in Int /\ ns_removed \in BOOLEAN

\* No thread executes the streams of a library that dlclose has unmapped,
\* however push_event interleaves with a reload.
ExecutesMapped == \A w \in Workers : exec[w] # None => exec[w] \in mapped

\* While a thread is inside a slot, load_rules does not touch the fields of
\* the slot that push_stream reads without a lock (file and stream).
SlotStable ==
  [][\A s \in Slots : Inside(s) # {} =>
       /\ streams_'[s].file = streams_[s].file
       /\ streams_'[s].stream = streams_[s].stream
       /\ streams_'[s].handle = streams_[s].handle]_vars

\* A library is in at most one slot, so that make_curr_map finds every slot
\* in use and no event is pushed twice through the same rules.
OneSlotPerFile ==
  \A s, r \in Slots :
    streams_[s].used /\ streams_[r].used /\ streams_[s].file = streams_[r].file => s = r

\* A reload closes a library only if its file was written since it was
\* loaded, or is gone: the other libraries keep running.
OnlyChangedClosed ==
  [][\A s \in Slots : streams_[s].used /\ ~streams_'[s].used =>
       so_files[streams_[s].file] # streams_[s].last_write_time]_vars

\* When load_rules returns, the table holds exactly the libraries that its
\* scan of the directory found, in the versions it found, but for those
\* whose load or close failed.
TableMatchesScan ==
  main = "idle" /\ reloads > 0 =>
    \A f \in Libs \ failed : \A t \in 1..MaxTime :
      so_files[f] = t <=> \E s \in Slots : InUse(s, f) /\ streams_[s].last_write_time = t

\* A slot whose recorded time equals the time of the file runs that version
\* of the file, even when the file is replaced between the directory scan
\* and dlopen: a library taken for unchanged is never an old one.
UnchangedIsCurrent ==
  \A s \in Slots :
    LET slot == streams_[s]
    IN  slot.used /\ slot.stream \notin pinned /\ disk[slot.file] = slot.last_write_time
          => slot.stream.version = disk[slot.file]

\* remove_ns_tasks never meets a full queue, so close_library never gives up
\* because of it (and never sets the promise twice).
NsQueueHasRoom == main = "ask" => Len(ns_promises[asked + 1]) < QueueCap

\* What a reload leaves behind: the table is that of the scan, a slot runs the
\* version it is taken for, and no request was turned away.
TableCurrent == TableMatchesScan /\ UnchangedIsCurrent /\ NsQueueHasRoom

AllTasks == (UNION {tasks[l] \cup Queued(l) : l \in Loops})
            \cup {running[l] : l \in {i \in Loops : running[i] # NoTask}}

\* Of an unloaded library no task is left in the scheduler, except tasks a
\* running task filed under the global namespace and tasks that were queued
\* behind add_tasks in the callback that handled the removal.
OnlyLateTasksOutlive ==
  \A k \in AllTasks : k.code \in mapped \/ k.ns = GlobalNs \/ k \in late

\* A reload comes to an end: close_library's polling loop and its wait for
\* the scheduler's loops both end.
ReloadEnds == main # "idle" ~> main = "idle"

-----------------------------------------------------------------------------
(* What include/streams/lib.h says of thread_ns: it tracks "the lib         *)
(* namespace that is using the thread", "to unload the library completely   *)
(* and remove all code that belongs to the library".                        *)

\* Every task of a library is filed under the namespace of the library.
TasksCarryNamespace == \A k \in AllTasks : k.ns = k.code.file

\* No task filed under a library's namespace outlives the library.
NoTaskOutlives == \A k \in AllTasks : k.ns # GlobalNs => k.code \in mapped
=============================================================================
