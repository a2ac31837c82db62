--------------------------- MODULE TcpServerProofs ---------------------------
(***************************************************************************)
(* Proofs about the way of an event into the rules, for any number of      *)
(* loops, workers, connections and descriptors and any messages: rules run *)
(* only while g_core is set, the maps that a loop keeps agree on the       *)
(* connections it watches, a client's bytes are cut into its messages, no  *)
(* message given to the executor is lost or run twice, and the gauges      *)
(* count the messages and the connections.                                 *)
(***************************************************************************)
EXTENDS TcpFramingProofs

Early == {"ctor", "loaded"}
Serving == {"run", "stop_sched", "stop_executor", "join_executor"}
Late == {"stop_streams", "stop_tcp", "join_tcp", "stop_udp", "reset", "destroyed"}

Kinds ==
  /\ main \in [at : Early \cup Serving \cup Late, i : Nat]
  /\ core \in [set : BOOLEAN, rules : BOOLEAN, stops : BOOLEAN, leave : BOOLEAN]
  /\ others \in [Others -> {"quiet", "off", "idle", "pushing", "exited"}]
  /\ DOMAIN worker = Workers

\* Before start() has loaded the rules nothing has come in, and no rule runs.
BeforeStart ==
  main.at \in Early =>
    /\ ~core.rules
    /\ \A l \in Loops : ~pending[l] /\ DOMAIN fds[l] = {} /\ loop[l] = Idle
    /\ \A w \in Workers : tasks[w] = <<>> /\ worker[w] = Idle
    /\ \A o \in Others : others[o] # "pushing"

\* The threads that real_core::start has stopped so far stay stopped.
Stopped ==
  /\ main.at \in Late => \A w \in Workers : worker[w] = Exited
  /\ main.at \in Late \cup {"stop_executor", "join_executor"} => others["sched"] = "exited"
  /\ main.at \in {"reset", "destroyed"} => others["udp"] = "exited"

\* g_core points to the core from before start() until after it.
CoreSet == main.at \notin {"ctor", "reset", "destroyed"} => core.set

Control == Kinds /\ BeforeStart /\ Stopped /\ CoreSet

-----------------------------------------------------------------------------
\* The order of the stops is what keeps g_core set while a rule runs.
LEMMA ControlMeans == Control => RulesSeeCore
<1> SUFFICES ASSUME Control PROVE RulesSeeCore
  BY Zenon
<1>1. ASSUME NEW w \in Workers, worker[w].at = "run" PROVE core.set
  <2>1. main.at \notin Early /\ main.at \notin Late
    BY <1>1 DEF Control, BeforeStart, Stopped, Idle, Exited
  <2> QED
    BY Zenon, <2>1 DEF Control, Kinds, CoreSet, Late, Early
<1>2. ASSUME NEW o \in Others, others[o] = "pushing" 
      PROVE  core.set \/ (o = "expirer" /\ main.at \in {"reset", "destroyed"})
  <2>1. main.at \notin Early
    BY Zenon, <1>2 DEF Control, BeforeStart
  <2>2. o = "sched" \/ o = "udp" \/ o = "expirer"
    BY Zenon DEF Others
  <2>3. o # "expirer" => main.at \notin {"reset", "destroyed"}
    BY Zenon, <1>2, <2>2 DEF Control, Stopped, Late
  <2> QED
    BY Zenon, <2>1, <2>3 DEF Control, Kinds, CoreSet, Late, Early
<1> QED
  BY Zenon, <1>1, <1>2 DEF RulesSeeCore, Running, Others

\* Before main runs start_core nothing runs and g_core is not set.
LEMMA ControlInit == Init => Control
<1> SUFFICES ASSUME Init PROVE Control
  BY Zenon
<1>1. PICK s \in Scenarios :
        /\ core = [set |-> FALSE, rules |-> FALSE, stops |-> s.stops, leave |-> s.leave]
        /\ others = [o \in Others |-> IF o \notin s.others THEN "quiet"
                                      ELSE IF o = "expirer" THEN "off" ELSE "idle"]
  BY Zenon DEF Init
<1>2. s.stops \in BOOLEAN /\ s.leave \in BOOLEAN
  BY Zenon, Activity
<1>3. core \in [set : BOOLEAN, rules : BOOLEAN, stops : BOOLEAN, leave : BOOLEAN] /\ core.rules = FALSE
  BY Zenon, <1>1, <1>2
<1>4. /\ others \in [Others -> {"quiet", "off", "idle", "pushing", "exited"}]
      /\ \A o \in Others : others[o] # "pushing"
  BY Zenon, <1>1
<1>5. main.at = "ctor" /\ main \in [at : Early \cup Serving \cup Late, i : Nat]
  BY Zenon DEF Init, Early, Late, Serving
<1>6. DOMAIN worker = Workers /\ (\A w \in Workers : tasks[w] = <<>> /\ worker[w] = Idle)
  BY Zenon DEF Init
<1>7. \A l \in Loops : ~pending[l] /\ DOMAIN fds[l] = {} /\ loop[l] = Idle
  BY DEF Init
<1> QED
  BY Zenon, <1>3, <1>4, <1>5, <1>6, <1>7 DEF Control, Kinds, BeforeStart, Stopped, CoreSet, Early, Late

\* What the threads of the loops, the workers and the clients leave as it is.
LEMMA Elsewhere ==
  ASSUME Control, UNCHANGED <<main, core, others>>,
         DOMAIN worker' = Workers,
         main.at \notin Early,
         \A w \in Workers : worker[w] = Exited => worker'[w] = Exited
  PROVE  Control'
<1>1. Kinds'
  BY Zenon DEF Control, Kinds
<1>2. BeforeStart'
  BY Zenon DEF BeforeStart
<1>3. Stopped'
  BY Zenon DEF Control, Stopped
<1>4. CoreSet'
  BY Zenon DEF Control, CoreSet
<1> QED
  BY Zenon, <1>1, <1>2, <1>3, <1>4 DEF Control

\* A step of the main thread that goes to a later phase.
LEMMA MainGoes ==
  ASSUME Control, UNCHANGED <<worker, tasks, loop, fds>>,
         main.at \notin {"ctor", "loaded"},
         NEW p \in Serving \cup Late, NEW i \in Nat, main' = [at |-> p, i |-> i],
         core' \in [set : BOOLEAN, rules : BOOLEAN, stops : BOOLEAN, leave : BOOLEAN],
         p \notin {"reset", "destroyed"} => core'.set,
         others' \in [Others -> {"quiet", "off", "idle", "pushing", "exited"}],
         p \in Late => \A w \in Workers : worker[w] = Exited,
         p \in Late \cup {"stop_executor", "join_executor"} => others'["sched"] = "exited",
         p \in {"reset", "destroyed"} => others'["udp"] = "exited"
  PROVE  Control'
<1>1. main'.at = p /\ p \notin Early /\ main' \in [at : Early \cup Serving \cup Late, i : Nat]
  BY Zenon DEF Early, Serving, Late
<1>2. Kinds'
  BY Zenon, <1>1 DEF Control, Kinds
<1>3. BeforeStart'
  BY Zenon, <1>1 DEF BeforeStart
<1>4. Stopped'
  BY Zenon, <1>1 DEF Stopped
<1>5. CoreSet'
  BY Zenon, <1>1 DEF CoreSet, Early
<1> QED
  BY Zenon, <1>2, <1>3, <1>4, <1>5 DEF Control

\* A step of a thread that pushes events, with the main thread where it is.
LEMMA OtherGoes ==
  ASSUME Control, NEW o \in Others, NEW at \in {"off", "idle", "pushing"}, SetOther(o, at),
         others[o] # "exited", at = "pushing" => main.at \notin Early
  PROVE  Control'
<1>1. UNCHANGED <<main, core, worker, tasks, loop, fds, pending>>
  BY Zenon DEF SetOther, pool_vars, exec_vars
<1>2. others' = [others EXCEPT ![o] = at] /\ others \in [Others -> {"quiet", "off", "idle", "pushing", "exited"}]
  BY Zenon DEF SetOther, Control, Kinds
<1>3. Kinds'
  BY Zenon, <1>1, <1>2 DEF Control, Kinds
<1>4. BeforeStart'
  BY Zenon, <1>1, <1>2 DEF Control, BeforeStart
<1>5. "sched" \in Others /\ "udp" \in Others /\ "expirer" \in Others
  BY Zenon DEF Others
<1>6. Stopped'
  BY Zenon, <1>1, <1>2, <1>5 DEF Control, Stopped
<1>7. CoreSet'
  BY Zenon, <1>1 DEF Control, CoreSet
<1> QED
  BY Zenon, <1>3, <1>4, <1>6, <1>7 DEF Control
\* A loop's thread acts only on what came in after start(), and neither the
\* workers nor the core are its to change.
LEMMA ControlLoop ==
  ASSUME Control, NEW l \in Loops,
         LoopStep(l) \/ \E fd \in Fds, rd, wr \in BOOLEAN : SocketCallback(l, fd, rd, wr)
  PROVE  Control'
<1>1. UNCHANGED <<main, core, others, worker>>
  <2>1. CASE AsyncCallback(l)
    BY Zenon, <2>1 DEF AsyncCallback, exec_vars
  <2>2. CASE ReadHeader(l)
    BY Zenon, <2>2 DEF ReadHeader, exec_vars
  <2>3. CASE ReadMessage(l)
    BY Zenon, <2>3 DEF ReadMessage, exec_vars
  <2>4. CASE PushTask(l)
    BY Zenon, <2>4 DEF PushTask
  <2>5. CASE AdvanceRead(l)
    BY Zenon, <2>5 DEF AdvanceRead, exec_vars
  <2>6. CASE AdvanceStore(l)
    BY Zenon, <2>6 DEF AdvanceStore
  <2>7. CASE Finish(l)
    BY Zenon, <2>7 DEF Finish, exec_vars
  <2>8. CASE \E fd \in Fds, rd, wr \in BOOLEAN : SocketCallback(l, fd, rd, wr)
    BY Zenon, <2>8 DEF SocketCallback, exec_vars
  <2> QED
    BY Zenon, <2>1, <2>2, <2>3, <2>4, <2>5, <2>6, <2>7, <2>8 DEF LoopStep
<1>2. loop[l] # Idle \/ pending[l] \/ DOMAIN fds[l] # {}
  <2>1. Idle.at = "idle"
    BY Zenon DEF Idle
  <2>2. CASE LoopStep(l)
    BY Zenon, <2>1, <2>2 DEF LoopStep, AsyncCallback, ReadHeader, ReadMessage, PushTask, AdvanceRead,
                      AdvanceStore, Finish
  <2>3. CASE \E fd \in Fds, rd, wr \in BOOLEAN : SocketCallback(l, fd, rd, wr)
    BY Zenon, <2>3 DEF SocketCallback
  <2> QED
    BY Zenon, <2>2, <2>3
<1>3. main.at \notin Early
  BY Zenon, <1>2 DEF Control, BeforeStart
<1>4. DOMAIN worker' = Workers /\ \A w \in Workers : worker[w] = Exited => worker'[w] = Exited
  BY Zenon, <1>1 DEF Control, Kinds
<1> QED
  BY <1>1, <1>3, <1>4, Elsewhere, Zenon

\* A worker that has left stays so, and runs nothing before start().
LEMMA ControlWorker ==
  ASSUME Control, NEW w \in Workers, Pop(w) \/ TaskDone(w)
  PROVE  Control'
<1>1. UNCHANGED <<main, core, others>>
  BY Zenon DEF Pop, TaskDone
<1>2. worker[w] # Exited /\ (tasks[w] # <<>> \/ worker[w] # Idle)
  <2>1. CASE Pop(w)
    BY <2>1 DEF Pop, Idle, Exited
  <2>2. CASE TaskDone(w)
    BY <2>2 DEF TaskDone, Idle, Exited
  <2> QED
    BY Zenon, <2>1, <2>2
<1>3. main.at \notin Early
  BY Zenon, <1>2 DEF Control, BeforeStart
<1>4. DOMAIN worker' = Workers /\ \A v \in Workers \ {w} : worker'[v] = worker[v]
  BY Zenon DEF Pop, TaskDone, Control, Kinds
<1>5. \A v \in Workers : worker[v] = Exited => worker'[v] = Exited
  BY Zenon, <1>2, <1>4
<1> QED
  BY <1>1, <1>3, <1>4, <1>5, Elsewhere, Zenon

\* The threads that push events do so with rules loaded, and not when stopped.
LEMMA ControlOther ==
  ASSUME Control,
         (\E o \in Others : StartPush(o) \/ EndPush(o)) \/ Detach \/ ExpirerEnds
  PROVE  Control'
<1>1. ASSUME NEW o \in Others, StartPush(o) PROVE Control'
  <2>1. others[o] = "idle" /\ (main.at = "destroyed" \/ core.rules) /\ SetOther(o, "pushing")
    BY Zenon, <1>1 DEF StartPush
  <2>2. main.at \notin Early
    BY Zenon, <2>1 DEF Control, BeforeStart, Early
  <2> QED
    BY Zenon, <2>1, <2>2, OtherGoes
<1>2. ASSUME NEW o \in Others, EndPush(o) PROVE Control'
  <2>1. others[o] = "pushing" /\ SetOther(o, "idle")
    BY Zenon, <1>2 DEF EndPush
  <2> QED
    BY Zenon, <2>1, OtherGoes
<1>3. CASE Detach
  <2>1. "expirer" \in Others /\ others["expirer"] = "off" /\ SetOther("expirer", "idle")
    BY Zenon, <1>3 DEF Detach, Others
  <2> QED
    BY Zenon, <2>1, OtherGoes
<1>4. CASE ExpirerEnds
  <2>1. "expirer" \in Others /\ others["expirer"] = "idle" /\ SetOther("expirer", "off")
    BY Zenon, <1>4 DEF ExpirerEnds, Others
  <2> QED
    BY Zenon, <2>1, OtherGoes
<1> QED
  BY Zenon, <1>1, <1>2, <1>3, <1>4
\* The main thread sets g_core before start(), and each of its stops waits for
\* the threads it stops before the next one.
LEMMA ControlMain ==
  ASSUME Control, MainStep \/ MainLoopEnds
  PROVE  Control'
<1> DEFINE CoreType == [set : BOOLEAN, rules : BOOLEAN, stops : BOOLEAN, leave : BOOLEAN]
<1> DEFINE OtherType == [Others -> {"quiet", "off", "idle", "pushing", "exited"}]
<1>0. core \in CoreType /\ others \in OtherType /\ 0 \in Nat
  BY Zenon DEF Control, Kinds
<1>a. ("sched" \in Others) /\ ("udp" \in Others) /\ ("expirer" \in Others)
  BY Zenon DEF Others
<1>1. CASE AssignCore
  <2>1. /\ main.at = "ctor" /\ main' = [at |-> "loaded", i |-> 0]
        /\ core' = [core EXCEPT !.set = TRUE]
        /\ UNCHANGED <<others, worker, tasks, loop, fds, pending>>
    BY Zenon, <1>1 DEF AssignCore, Go, pool_vars, exec_vars
  <2>2. core' \in CoreType /\ core'.set /\ core'.rules = core.rules
    BY Zenon, <1>0, <2>1
  <2>3. main'.at = "loaded" /\ main' \in [at : Early \cup Serving \cup Late, i : Nat]
    BY Zenon, <2>1 DEF Early
  <2>4. Kinds'
    BY Zenon, <2>1, <2>2, <2>3 DEF Control, Kinds
  <2>5. BeforeStart'
    BY Zenon, <2>1, <2>2 DEF Control, BeforeStart, Early
  <2>6. Stopped' /\ CoreSet'
    BY Zenon, <2>2, <2>3 DEF Stopped, CoreSet, Late
  <2> QED
    BY Zenon, <2>4, <2>5, <2>6 DEF Control
<1>2. CASE ReloadRules
  <2>1. /\ main.at = "loaded" /\ main' = [at |-> "run", i |-> 0]
        /\ core' = [core EXCEPT !.rules = TRUE]
        /\ UNCHANGED <<others, worker, tasks, loop, fds, pending>>
    BY Zenon, <1>2 DEF ReloadRules, Go, pool_vars, exec_vars
  <2>2. core' \in CoreType /\ core'.set = core.set /\ core.set
    BY Zenon, <1>0, <2>1 DEF Control, CoreSet
  <2>3. main'.at = "run" /\ main' \in [at : Early \cup Serving \cup Late, i : Nat]
    BY Zenon, <2>1 DEF Serving
  <2>4. Kinds'
    BY Zenon, <2>1, <2>2, <2>3 DEF Control, Kinds
  <2>5. BeforeStart' /\ Stopped' /\ CoreSet'
    BY Zenon, <2>2, <2>3 DEF BeforeStart, Stopped, CoreSet, Late, Early
  <2> QED
    BY Zenon, <2>4, <2>5 DEF Control
<1>3. CASE MainLoopEnds
  <2>1. /\ main.at = "run" /\ main' = [at |-> "stop_sched", i |-> 0]
        /\ UNCHANGED <<core, others, worker, tasks, loop, fds>>
    BY Zenon, <1>3 DEF MainLoopEnds, Go, pool_vars, exec_vars
  <2>2. core.set
    BY Zenon, <2>1 DEF Control, CoreSet
  <2>3. "stop_sched" \in Serving \cup Late /\ "stop_sched" \notin Late
    BY Zenon DEF Serving, Late
  <2> QED
    BY Zenon, <1>0, <2>1, <2>2, <2>3, MainGoes
<1>4. CASE StopScheduler
  <2>1. /\ main.at = "stop_sched" /\ main' = [at |-> "stop_executor", i |-> 0]
        /\ others' = [others EXCEPT !["sched"] = "exited"]
        /\ UNCHANGED <<core, worker, tasks, loop, fds>>
    BY Zenon, <1>4 DEF StopScheduler, Go, pool_vars, exec_vars
  <2>2. core.set
    BY Zenon, <2>1 DEF Control, CoreSet
  <2>3. others' \in OtherType /\ others'["sched"] = "exited"
    BY Zenon, <1>0, <1>a, <2>1
  <2>4. "stop_executor" \in Serving \cup Late /\ "stop_executor" \notin Late
    BY Zenon DEF Serving, Late
  <2> QED
    BY Zenon, <1>0, <2>1, <2>2, <2>3, <2>4, MainGoes
<1>5. CASE StopExecutor
  <2>1. main.at = "stop_executor" /\ UNCHANGED <<core, others, worker, loop, fds>>
    BY Zenon, <1>5 DEF StopExecutor, pool_vars
  <2>2. core.set /\ others["sched"] = "exited"
    BY Zenon, <2>1 DEF Control, CoreSet, Stopped
  <2>3. PICK p \in {"stop_executor", "join_executor"}, i \in Nat : main' = [at |-> p, i |-> i]
    <3>1. main \in [at : Early \cup Serving \cup Late, i : Nat]
      BY Zenon DEF Control, Kinds
    <3>2. CASE Go("join_executor")
      BY Zenon, <3>2 DEF Go
    <3>3. CASE main' = [main EXCEPT !.i = @ + 1]
      <4>1. main' = [at |-> "stop_executor", i |-> main.i + 1] /\ main.i + 1 \in Nat
        BY <2>1, <3>1, <3>3
      <4> QED
        BY Zenon, <4>1
    <3> QED
      BY Zenon, <1>5, <3>2, <3>3 DEF StopExecutor
  <2>4. main'.at = p /\ main' \in [at : Early \cup Serving \cup Late, i : Nat]
    BY Zenon, <2>3 DEF Serving
  <2>5. Kinds'
    BY Zenon, <2>1, <2>4 DEF Control, Kinds
  <2>6. BeforeStart' /\ Stopped' /\ CoreSet'
    BY Zenon, <2>1, <2>2, <2>4 DEF BeforeStart, Stopped, CoreSet, Late, Early
  <2> QED
    BY Zenon, <2>5, <2>6 DEF Control
<1>6. CASE JoinExecutor
  <2>1. /\ main.at = "join_executor" /\ main' = [at |-> "stop_streams", i |-> 0]
        /\ \A w \in Workers : worker[w] = Exited
        /\ UNCHANGED <<core, others, worker, tasks, loop, fds>>
    BY Zenon, <1>6 DEF JoinExecutor, Go, pool_vars, exec_vars
  <2>2. core.set /\ others["sched"] = "exited"
    BY Zenon, <2>1 DEF Control, CoreSet, Stopped
  <2>3. "stop_streams" \in Serving \cup Late
    BY Zenon DEF Late
  <2> QED
    BY Zenon, <1>0, <2>1, <2>2, <2>3, MainGoes
<1>7. CASE StopStreams
  <2>1. /\ main.at = "stop_streams" /\ main' = [at |-> "stop_tcp", i |-> 0]
        /\ UNCHANGED <<core, others, worker, tasks, loop, fds>>
    BY Zenon, <1>7 DEF StopStreams, Go, pool_vars, exec_vars
  <2>2. core.set /\ others["sched"] = "exited" /\ \A w \in Workers : worker[w] = Exited
    BY Zenon, <2>1 DEF Control, CoreSet, Stopped, Late
  <2>3. "stop_tcp" \in Serving \cup Late
    BY Zenon DEF Late
  <2> QED
    BY Zenon, <1>0, <2>1, <2>2, <2>3, MainGoes
<1>8. CASE StopTcp
  <2>1. /\ main.at = "stop_tcp" /\ (UNCHANGED main \/ main' = [at |-> "join_tcp", i |-> 0])
        /\ UNCHANGED <<core, others, worker, tasks, loop, fds>>
    BY Zenon, <1>8 DEF StopTcp, Go, exec_vars
  <2>2. core.set /\ others["sched"] = "exited" /\ \A w \in Workers : worker[w] = Exited
    BY Zenon, <2>1 DEF Control, CoreSet, Stopped, Late
  <2>3. "join_tcp" \in Serving \cup Late
    BY Zenon DEF Late
  <2>4. CASE UNCHANGED main
    <3>1. main.at \notin Early /\ DOMAIN worker' = Workers
      BY Zenon, <2>1 DEF Early, Control, Kinds
    <3>2. \A w \in Workers : worker[w] = Exited => worker'[w] = Exited
      BY Zenon, <2>1
    <3> QED
      BY <2>1, <2>4, <3>1, <3>2, Elsewhere, Zenon
  <2>5. CASE main' = [at |-> "join_tcp", i |-> 0]
    BY Zenon, <1>0, <2>1, <2>2, <2>3, <2>5, MainGoes
  <2> QED
    BY Zenon, <2>1, <2>4, <2>5
<1>9. CASE JoinTcp
  <2>1. /\ main.at = "join_tcp" /\ main' = [at |-> "stop_udp", i |-> 0]
        /\ UNCHANGED <<core, others, worker, tasks, loop, fds>>
    BY Zenon, <1>9 DEF JoinTcp, Go, pool_vars, exec_vars
  <2>2. core.set /\ others["sched"] = "exited" /\ \A w \in Workers : worker[w] = Exited
    BY Zenon, <2>1 DEF Control, CoreSet, Stopped, Late
  <2>3. "stop_udp" \in Serving \cup Late
    BY Zenon DEF Late
  <2> QED
    BY Zenon, <1>0, <2>1, <2>2, <2>3, MainGoes
<1>10. CASE StopUdp
  <2>1. /\ main.at = "stop_udp" /\ main' = [at |-> "reset", i |-> 0]
        /\ others' = [others EXCEPT !["udp"] = "exited"]
        /\ UNCHANGED <<core, worker, tasks, loop, fds>>
    BY Zenon, <1>10 DEF StopUdp, Go, pool_vars, exec_vars
  <2>2. others["sched"] = "exited" /\ \A w \in Workers : worker[w] = Exited
    BY Zenon, <2>1 DEF Control, Stopped, Late
  <2>3. others' \in OtherType /\ others'["udp"] = "exited" /\ others'["sched"] = "exited"
    BY Zenon, <1>0, <1>a, <2>1, <2>2
  <2>4. "reset" \in Serving \cup Late
    BY Zenon DEF Late
  <2> QED
    BY Zenon, <1>0, <2>1, <2>2, <2>3, <2>4, MainGoes
<1>11. CASE ResetCore
  <2>1. main.at = "reset" /\ UNCHANGED <<others, worker, tasks, loop, fds>>
    BY Zenon, <1>11 DEF ResetCore, pool_vars, exec_vars
  <2>2. /\ others["sched"] = "exited" /\ others["udp"] = "exited"
        /\ \A w \in Workers : worker[w] = Exited
    BY Zenon, <2>1 DEF Control, Stopped, Late
  <2>3. PICK p \in {"reset", "destroyed"}, i \in Nat :
          main' = [at |-> p, i |-> i] /\ core' \in CoreType
    <3>1. main \in [at : Early \cup Serving \cup Late, i : Nat]
      BY Zenon DEF Control, Kinds
    <3>2. main = [at |-> "reset", i |-> main.i] /\ main.i \in Nat
      BY Zenon, <2>1, <3>1
    <3>3. CASE core' = [core EXCEPT !.set = FALSE] /\ UNCHANGED main
      <4>1. core' \in CoreType
        BY Zenon, <1>0, <3>3
      <4> QED
        BY Zenon, <3>2, <3>3, <4>1
    <3>4. CASE Go("destroyed") /\ UNCHANGED core
      <4>1. core' \in CoreType /\ main' = [at |-> "destroyed", i |-> 0]
        BY Zenon, <1>0, <3>4 DEF Go
      <4> QED
        BY Zenon, <3>4, <4>1
    <3> QED
      BY Zenon, <1>11, <3>3, <3>4 DEF ResetCore
  <2>4. "reset" \in Serving \cup Late /\ "destroyed" \in Serving \cup Late
    BY Zenon DEF Late
  <2>5. others' \in OtherType /\ others' = others
    BY Zenon, <1>0, <2>1
  <2> QED
    BY Zenon, <2>1, <2>2, <2>3, <2>4, <2>5, MainGoes
<1> QED
  BY Zenon, <1>1, <1>2, <1>3, <1>4, <1>5, <1>6, <1>7, <1>8, <1>9, <1>10, <1>11 DEF MainStep

\* Clients come only when the main loop runs.
LEMMA ControlClient ==
  ASSUME Control, NEW c \in Conns, PeerClose(c) \/ \E fd \in Fds : Accept(c, fd)
  PROVE  Control'
<1>1. CASE PeerClose(c)
  <2>1. UNCHANGED <<main, core, others, worker, tasks, loop, fds, pending>>
    BY Zenon, <1>1 DEF PeerClose, exec_vars
  <2> QED
    BY Zenon, <2>1 DEF Control, Kinds, BeforeStart, Stopped, CoreSet
<1>2. CASE \E fd \in Fds : Accept(c, fd)
  <2>1. UNCHANGED <<main, core, others, worker>> /\ main.at = "run"
    BY Zenon, <1>2 DEF Accept, exec_vars
  <2>2. main.at \notin Early /\ DOMAIN worker' = Workers
    BY Zenon, <2>1 DEF Early, Control, Kinds
  <2>3. \A w \in Workers : worker[w] = Exited => worker'[w] = Exited
    BY Zenon, <2>1
  <2> QED
    BY <2>1, <2>2, <2>3, Elsewhere, Zenon
<1> QED
  BY Zenon, <1>1, <1>2

\* Every step of the server keeps Control.
LEMMA ControlStep == Control /\ [Next]_vars => Control'
<1> SUFFICES ASSUME Control, [Next]_vars PROVE Control'
  BY Zenon
<1>1. CASE Next
  <2>1. CASE MainStep \/ MainLoopEnds
    BY Zenon, <2>1, ControlMain
  <2>2. CASE \E c \in Conns : PeerClose(c) \/ \E fd \in Fds : Accept(c, fd)
    BY Zenon, <2>2, ControlClient
  <2>3. CASE \E l \in Loops : LoopStep(l) \/ \E fd \in Fds, rd, wr \in BOOLEAN : SocketCallback(l, fd, rd, wr)
    BY Zenon, <2>3, ControlLoop
  <2>4. CASE \E w \in Workers : Pop(w) \/ TaskDone(w)
    BY Zenon, <2>4, ControlWorker
  <2>5. CASE (\E o \in Others : StartPush(o) \/ EndPush(o)) \/ Detach \/ ExpirerEnds
    BY Zenon, <2>5, ControlOther
  <2> QED
    BY Zenon, <1>1, <2>1, <2>2, <2>3, <2>4, <2>5 DEF Next
<1>2. CASE UNCHANGED vars
  BY Zenon, <1>2 DEF vars, pool_vars, exec_vars, Control, Kinds, BeforeStart, Stopped, CoreSet
<1> QED
  BY Zenon, <1>1, <1>2

\* g_core is set whenever a rule runs, for any number of loops, workers and
\* clients: real_core assigns it before it loads the rules, and joins the
\* scheduler, the executor and the udp loop before start_core resets it, so that
\* only the index's expirer, which its destructor does not wait for to the end,
\* can meet an empty pointer, then and after the core is destroyed.
THEOREM CoreOutlivesRules == Spec => []RulesSeeCore
<1>1. Init => Control
  BY Zenon, ControlInit
<1>2. Control /\ [Next]_vars => Control'
  BY Zenon, ControlStep
<1>3. Control => RulesSeeCore
  BY Zenon, ControlMeans
<1> QED
  BY <1>1, <1>2, <1>3, PTL DEF Spec
-----------------------------------------------------------------------------
(* The maps of the pools.                                                   *)


\* The part of RegisteredTogether about the maps.
LEMMA PlacesMean == Places => Registered
BY DEF Places, MapKinds, InOnePlace, Registered, Place

\* At first no descriptor is open and both maps are empty.
LEMMA PlacesInit == Init => Places
<1> SUFFICES ASSUME Init PROVE Places
  BY Zenon
<1>1. 0 \in Loops
  BY Sizes DEF Loops
<1>2. MapKinds
  BY <1>1 DEF Init, MapKinds
<1>3. \A l \in Loops : /\ DOMAIN fds[l] = {} /\ DOMAIN conn_maps[l] = {} /\ DOMAIN connections[l] = {}
                       /\ Waiting(l) = {}
  BY DEF Init, Waiting
<1>4. InOnePlace
  BY Zenon, <1>3 DEF InOnePlace, Place
<1>5. CallbackKnown
  BY Zenon DEF Init, CallbackKnown
<1> QED
  BY Zenon, <1>2, <1>4, <1>5 DEF Places

\* What happens in a callback leaves the descriptors where they are.
LEMMA SameMaps ==
  ASSUME Places, UNCHANGED <<new_fds, owner, next_loop>>,
         DOMAIN fds' = Loops, DOMAIN conn_maps' = Loops, DOMAIN connections' = Loops,
         DOMAIN loop' = Loops,
         \A k \in Loops : /\ DOMAIN fds'[k] = DOMAIN fds[k]
                          /\ DOMAIN conn_maps'[k] = DOMAIN conn_maps[k]
                          /\ DOMAIN connections'[k] = DOMAIN connections[k],
         \A k \in Loops : \A fd \in DOMAIN fds[k] :
            conn_maps'[k][fd].c = conn_maps[k][fd].c /\ "c" \in DOMAIN conn_maps'[k][fd],
         \A k \in Loops : \/ loop'[k] = loop[k] \/ loop'[k] \in {Idle, Exited}
                          \/ "fd" \in DOMAIN loop'[k] /\ loop'[k].fd \in DOMAIN fds[k]
  PROVE  Places'
<1>1. MapKinds'
  BY Zenon DEF Places, MapKinds
<1>2. \A k \in Loops : Waiting(k)' = Waiting(k) /\ Place(k)' = Place(k)
  BY DEF Waiting, Place
<1>3. InOnePlace'
  BY <1>2 DEF Places, InOnePlace
<1>4. CallbackKnown'
  BY Zenon DEF Places, CallbackKnown
<1> QED
  BY Zenon, <1>1, <1>3, <1>4 DEF Places

\* A connection that changes in its map, and the thread of its loop.
LEMMA InACallback ==
  ASSUME Places, UNCHANGED <<new_fds, owner, next_loop>>, NEW l \in Loops,
         NEW f \in DOMAIN fds[l], NEW y, NEW r, NEW z, NEW m,
         conn_maps' = [conn_maps EXCEPT ![l][f] = y] \/ UNCHANGED conn_maps,
         y.c = conn_maps[l][f].c, "c" \in DOMAIN y,
         connections' = [connections EXCEPT ![l][f] = z] \/ UNCHANGED connections,
         fds' = [fds EXCEPT ![l][f] = m] \/ UNCHANGED fds,
         loop' = [loop EXCEPT ![l] = r] \/ UNCHANGED loop,
         r = Idle \/ ("fd" \in DOMAIN r /\ r.fd = f)
  PROVE  Places'
<1>1. /\ DOMAIN fds = Loops /\ DOMAIN conn_maps = Loops /\ DOMAIN connections = Loops /\ DOMAIN loop = Loops
      /\ \A k \in Loops : DOMAIN fds[k] = DOMAIN conn_maps[k]
      /\ \A k \in Loops : \A fd \in DOMAIN fds[k] : "c" \in DOMAIN conn_maps[k][fd]
  BY Zenon DEF Places, MapKinds, InOnePlace
<1>2. DOMAIN fds' = Loops /\ \A k \in Loops : DOMAIN fds'[k] = DOMAIN fds[k]
  BY Zenon, <1>1
<1>3. DOMAIN connections' = Loops /\ \A k \in Loops : DOMAIN connections'[k] = DOMAIN connections[k]
  BY Zenon, <1>1
<1>4. DOMAIN conn_maps' = Loops /\ \A k \in Loops : DOMAIN conn_maps'[k] = DOMAIN conn_maps[k]
  BY Zenon, <1>1
<1>5. \A k \in Loops : \A fd \in DOMAIN fds[k] :
        conn_maps'[k][fd].c = conn_maps[k][fd].c /\ "c" \in DOMAIN conn_maps'[k][fd]
  BY <1>1
<1>6. /\ DOMAIN loop' = Loops
      /\ \A k \in Loops : \/ loop'[k] = loop[k] \/ loop'[k] \in {Idle, Exited}
                          \/ "fd" \in DOMAIN loop'[k] /\ loop'[k].fd \in DOMAIN fds[k]
  BY Zenon, <1>1
<1> QED
  BY <1>2, <1>3, <1>4, <1>5, <1>6, SameMaps, Zenon

\* Reading and writing change a connection's buffers, not whose it is.
LEMMA SameClient ==
  ASSUME NEW x, "c" \in DOMAIN x, NEW v, NEW b
  PROVE  /\ \A n : [x EXCEPT !.got = n].c = x.c /\ "c" \in DOMAIN [x EXCEPT !.got = n]
         /\ \A n : [x EXCEPT !.w = n].c = x.c /\ "c" \in DOMAIN [x EXCEPT !.w = n]
         /\ [x EXCEPT !.close = b].c = x.c /\ "c" \in DOMAIN [x EXCEPT !.close = b]
         /\ [x EXCEPT !.pos = v, !.close = b].c = x.c /\ "c" \in DOMAIN [x EXCEPT !.pos = v, !.close = b]
         /\ [[x EXCEPT !.w = b] EXCEPT !.pos = v].c = x.c /\ "c" \in DOMAIN [[x EXCEPT !.w = b] EXCEPT !.pos = v]
BY Zenon

\* read_from_fd leaves a connection with its client.
LEMMA ReadSame ==
  ASSUME NEW x, "c" \in DOMAIN x, NEW left, NEW gone, NEW y \in Read(x, left, gone)
  PROVE  y.c = x.c /\ "c" \in DOMAIN y
BY Zenon, SameClient DEF Read, ReadFromFd

\* write_to_fd leaves a connection with its client.
LEMMA WriteSame ==
  ASSUME NEW x, "c" \in DOMAIN x, NEW gone, NEW y \in WriteToFd(x, gone)
  PROVE  y.c = x.c /\ "c" \in DOMAIN y
BY Zenon, SameClient DEF WriteToFd

\* The start of a callback.
LEMMA PlacesSocket ==
  ASSUME Places, NEW l \in Loops, NEW fd \in Fds, NEW rd \in BOOLEAN, NEW wr \in BOOLEAN,
         SocketCallback(l, fd, rd, wr)
  PROVE  Places'
<1>1. fd \in DOMAIN fds[l] /\ "c" \in DOMAIN conn_maps[l][fd]
  BY Zenon DEF SocketCallback, Places, InOnePlace
<1> DEFINE x == conn_maps[l][fd]
           left == Total(peer[x.c].msgs) - x.got
           gone == peer[x.c].at = "gone"
           at(y) == IF y.got > x.got THEN "parse" ELSE "write"
<1>2. PICK y \in IF rd THEN Read(x, left, gone) ELSE {x} :
        /\ conn_maps' = [conn_maps EXCEPT ![l][fd] = y]
        /\ loop' = [loop EXCEPT ![l] = [at |-> at(y), fd |-> fd, wr |-> wr]]
  BY Zenon DEF SocketCallback
<1>3. y.c = conn_maps[l][fd].c /\ "c" \in DOMAIN y
  <2>1. CASE rd
    <3>1. y \in Read(x, left, gone) /\ "c" \in DOMAIN x
      BY Zenon, <1>1, <1>2, <2>1
    <3> HIDE DEF x, left, gone
    <3>2. y.c = x.c /\ "c" \in DOMAIN y
      BY Zenon, <3>1, ReadSame
    <3> QED
      BY Zenon, <3>2 DEF x
  <2>2. CASE ~rd
    BY Zenon, <1>1, <1>2, <2>2
  <2> QED
    BY Zenon, <2>1, <2>2
<1>4. UNCHANGED <<new_fds, owner, next_loop, connections, fds>>
  BY Zenon DEF SocketCallback
<1> DEFINE r == [at |-> at(y), fd |-> fd, wr |-> wr]
<1>5. "fd" \in DOMAIN r /\ r.fd = fd
  BY Zenon
<1>6. loop' = [loop EXCEPT ![l] = r]
  BY Zenon, <1>2
<1>7. conn_maps' = [conn_maps EXCEPT ![l][fd] = y]
  BY Zenon, <1>2
<1> HIDE DEF r
<1> QED
  BY Zenon, <1>1, <1>3, <1>4, <1>5, <1>6, <1>7, InACallback


\* The steps that read a header or a message.
LEMMA PlacesParse ==
  ASSUME Places, NEW l \in Loops, ReadHeader(l) \/ ReadMessage(l)
  PROVE  Places'
<1> DEFINE f == loop[l].fd
           x == conn_maps[l][f]
<1>1. loop[l].at = "parse"
  BY Zenon DEF ReadHeader, ReadMessage
<1>2. "fd" \in DOMAIN loop[l] /\ f \in DOMAIN fds[l] /\ "c" \in DOMAIN x
  BY Zenon, <1>1, Where
<1>3. UNCHANGED <<new_fds, owner, next_loop, fds>>
  BY Zenon DEF ReadHeader, ReadMessage
<1>4. PICK y : /\ y = x \/ (\E v, b : y = [x EXCEPT !.pos = v, !.close = b])
                  \/ (\E b : y = [x EXCEPT !.close = b])
                  \/ (\E v, b : y = [[x EXCEPT !.w = b] EXCEPT !.pos = v])
               /\ conn_maps' = [conn_maps EXCEPT ![l][f] = y] \/ UNCHANGED conn_maps
  <2>1. CASE ReadHeader(l)
    BY Zenon, <2>1 DEF ReadHeader, SetConn, Conn
  <2>2. CASE ReadMessage(l)
    BY Zenon, <2>2 DEF ReadMessage, SetConn, Conn, AddOkResponse, QueueWrite
  <2> QED
    BY Zenon, <2>1, <2>2
<1>5. y.c = x.c /\ "c" \in DOMAIN y
  BY Zenon, <1>2, <1>4, SameClient
<1>6. PICK z : connections' = [connections EXCEPT ![l][f] = z] \/ UNCHANGED connections
  BY Zenon DEF ReadHeader, ReadMessage, SetRiemann
<1>7. PICK r : /\ loop' = [loop EXCEPT ![l] = r] \/ UNCHANGED loop
               /\ "fd" \in DOMAIN r /\ r.fd = f
  <2>1. ASSUME At(l, "write")
        PROVE  loop' = [loop EXCEPT ![l] = [loop[l] EXCEPT !.at = "write"]]
    BY Zenon, <2>1 DEF At
  <2>2. "fd" \in DOMAIN [loop[l] EXCEPT !.at = "write"] /\ [loop[l] EXCEPT !.at = "write"].fd = f
    BY Zenon, <1>2
  <2>3. CASE At(l, "write")
    BY Zenon, <2>1, <2>2, <2>3
  <2>4. CASE UNCHANGED loop
    BY Zenon, <1>2, <2>4
  <2>5. ASSUME NEW w, NEW t, NEW u,
               loop' = [loop EXCEPT ![l] = [at |-> "push", w |-> w, fd |-> @.fd, wr |-> @.wr,
                                            task |-> t, then |-> u]]
        PROVE  \E r : /\ loop' = [loop EXCEPT ![l] = r] \/ UNCHANGED loop
                      /\ "fd" \in DOMAIN r /\ r.fd = f
    <3> DEFINE r == [at |-> "push", w |-> w, fd |-> f, wr |-> loop[l].wr, task |-> t, then |-> u]
    <3>1. loop' = [loop EXCEPT ![l] = r] /\ "fd" \in DOMAIN r /\ r.fd = f
      BY Zenon, <2>5
    <3> QED
      BY Zenon, <3>1
  <2>6. \/ At(l, "write") \/ UNCHANGED loop
        \/ \E w, t, u : loop' = [loop EXCEPT ![l] = [at |-> "push", w |-> w, fd |-> @.fd, wr |-> @.wr,
                                                     task |-> t, then |-> u]]
    <3>1. CASE ReadHeader(l)
      BY Zenon, <3>1 DEF ReadHeader
    <3>2. CASE ReadMessage(l)
      <4>1. \/ At(l, "write")
            \/ loop' = [loop EXCEPT ![l] =
                 [at |-> "push", w |-> next_thread, fd |-> @.fd, wr |-> @.wr,
                  task |-> <<Conn(l).c, Len(handed'[Conn(l).c])>>, then |-> AfterMessage(Riemann(l).size)]]
        BY <3>2, Zenon DEF ReadMessage
      <4> QED
        BY <4>1, Zenon
    <3> QED
      BY Zenon, <3>1, <3>2
  <2> QED
    BY Zenon, <2>3, <2>4, <2>5, <2>6
<1> HIDE DEF f, x
<1>8. y.c = conn_maps[l][f].c
  BY Zenon, <1>5 DEF x
<1>9. conn_maps' = [conn_maps EXCEPT ![l][f] = y] \/ UNCHANGED conn_maps
  BY Zenon, <1>4
<1> QED
  BY <1>2, <1>3, <1>5, <1>6, <1>7, <1>8, <1>9, InACallback

\* The steps of add_task.
LEMMA PlacesAdd ==
  ASSUME Places, NEW l \in Loops, PushTask(l) \/ AdvanceRead(l) \/ AdvanceStore(l)
  PROVE  Places'
<1> DEFINE f == loop[l].fd
<1>1. loop[l].at \notin {"idle", "exited"}
  BY Zenon DEF PushTask, AdvanceRead, AdvanceStore
<1>2. "fd" \in DOMAIN loop[l] /\ f \in DOMAIN fds[l] /\ "c" \in DOMAIN conn_maps[l][f]
  BY Zenon, <1>1, Where
<1>3. UNCHANGED <<new_fds, owner, next_loop, fds, conn_maps, connections>>
  BY Zenon DEF PushTask, AdvanceRead, AdvanceStore, pool_vars
<1>4. PICK r : loop' = [loop EXCEPT ![l] = r] /\ "fd" \in DOMAIN r /\ r.fd = f
  <2>1. CASE PushTask(l)
    <3>1. loop' = [loop EXCEPT ![l] = [loop[l] EXCEPT !.at = "advance"]]
      BY Zenon, <2>1 DEF PushTask, At
    <3>2. "fd" \in DOMAIN [loop[l] EXCEPT !.at = "advance"] /\ [loop[l] EXCEPT !.at = "advance"].fd = f
      BY Zenon, <1>2
    <3> QED
      BY Zenon, <3>1, <3>2
  <2>2. CASE AdvanceRead(l)
    <3> DEFINE r == [loop[l] EXCEPT !.at = "store", !.w = next_thread]
    <3>1. loop' = [loop EXCEPT ![l] = r]
      BY Zenon, <2>2 DEF AdvanceRead
    <3>2. "fd" \in DOMAIN r /\ r.fd = f
      BY Zenon, <1>2
    <3> QED
      BY Zenon, <3>1, <3>2
  <2>3. CASE AdvanceStore(l)
    <3> DEFINE r == [at |-> loop[l].then, fd |-> f, wr |-> loop[l].wr]
    <3>1. loop' = [loop EXCEPT ![l] = r] /\ "fd" \in DOMAIN r /\ r.fd = f
      BY Zenon, <2>3 DEF AdvanceStore
    <3> QED
      BY Zenon, <3>1
  <2> QED
    BY Zenon, <2>1, <2>2, <2>3
<1> HIDE DEF f
<1> QED
  BY Zenon, <1>2, <1>3, <1>4, InACallback
\* The end of a callback: the connection stays, or leaves all the maps, and
\* its descriptor is free.
LEMMA PlacesFinish ==
  ASSUME Places, NEW l \in Loops, Finish(l)
  PROVE  Places'
<1> DEFINE f == loop[l].fd
           x == conn_maps[l][f]
           gone == peer[x.c].at = "gone"
<1>1. f \in DOMAIN fds[l] /\ "c" \in DOMAIN x
  <2>1. loop[l].at = "write"
    BY Zenon DEF Finish
  <2> QED
    BY Zenon, <2>1, Where
<1>2. UNCHANGED <<new_fds, next_loop>> /\ loop' = [loop EXCEPT ![l] = Idle]
  BY Zenon DEF Finish
<1>3. PICK y \in IF MayWrite(l, x) THEN WriteToFd(x, gone) ELSE {x} :
        IF y.close THEN Closed(l, f)
        ELSE /\ SetConn(l, y)
             /\ fds' = [fds EXCEPT ![l][f] = ConnToMode(y)]
             /\ UNCHANGED <<connections, gauges, owner>>
  BY Zenon DEF Finish, Conn
<1>4. CASE ~y.close
  <2>1. y.c = x.c /\ "c" \in DOMAIN y
    <3>1. CASE MayWrite(l, x)
      <4>1. y \in WriteToFd(x, gone)
        BY Zenon, <1>3, <3>1
      <4> HIDE DEF x, gone
      <4> QED
        BY Zenon, <1>1, <4>1, WriteSame
    <3>2. CASE ~MayWrite(l, x)
      BY Zenon, <1>1, <1>3, <3>2
    <3> QED
      BY Zenon, <3>1, <3>2
  <2>2. /\ conn_maps' = [conn_maps EXCEPT ![l][f] = y]
        /\ fds' = [fds EXCEPT ![l][f] = ConnToMode(y)]
        /\ UNCHANGED <<connections, owner>>
    BY Zenon, <1>3, <1>4 DEF SetConn
  <2>3. y.c = conn_maps[l][f].c
    BY Zenon, <2>1
  <2> HIDE DEF f, x
  <2> QED
    BY Zenon, <1>1, <1>2, <2>1, <2>2, <2>3, InACallback
<1>5. CASE y.close
  <2>1. /\ fds' = [fds EXCEPT ![l] = Drop(fds[l], f)]
        /\ conn_maps' = [conn_maps EXCEPT ![l] = Drop(conn_maps[l], f)]
        /\ connections' = [connections EXCEPT ![l] = Drop(connections[l], f)]
        /\ owner' = [owner EXCEPT ![f] = NoConn]
    BY Zenon, <1>3, <1>5 DEF Closed
  <2> HIDE DEF f, x
  <2>2. MapKinds /\ InOnePlace /\ CallbackKnown
    BY Zenon DEF Places
  <2>3. MapKinds'
    BY Zenon, <1>2, <2>1, <2>2 DEF MapKinds
  <2>4. /\ DOMAIN fds'[l] = DOMAIN fds[l] \ {f}
        /\ DOMAIN conn_maps'[l] = DOMAIN conn_maps[l] \ {f}
        /\ DOMAIN connections'[l] = DOMAIN connections[l] \ {f}
        /\ \A fd \in DOMAIN conn_maps[l] \ {f} : conn_maps'[l][fd] = conn_maps[l][fd]
    BY Zenon, <2>1, <2>2 DEF MapKinds, Drop
  <2>5. \A k \in Loops \ {l} : /\ fds'[k] = fds[k] /\ conn_maps'[k] = conn_maps[k]
                               /\ connections'[k] = connections[k] /\ loop'[k] = loop[k]
    BY Zenon, <1>2, <2>1, <2>2 DEF MapKinds
  <2>6. \A k \in Loops : Waiting(k)' = Waiting(k) /\ Waiting(k) \subseteq Fds
    BY <1>2, <2>2 DEF Waiting, MapKinds
  <2>7. \A k \in Loops : Place(k)' \subseteq Place(k) /\ f \notin Place(k)'
    <3>1. f \in Place(l) /\ f \notin Waiting(l)
      BY Zenon, <1>1, <2>2 DEF Place, InOnePlace
    <3>2. Place(l)' \subseteq Place(l) /\ f \notin Place(l)'
      BY Zenon, <2>4, <2>6, <3>1 DEF Place
    <3>3. \A k \in Loops \ {l} : Place(k)' = Place(k) /\ f \notin Place(k)
      BY Zenon, <2>2, <2>5, <2>6, <3>1 DEF Place, InOnePlace
    <3> QED
      BY Zenon, <3>2, <3>3
  <2>8. \A fd \in Fds \ {f} : owner'[fd] = owner[fd]
    BY Zenon, <2>1, <2>2 DEF MapKinds
  <2>9. \A k \in Loops : \A fd \in Waiting(k) : fd # f
    BY Zenon, <2>6, <2>7 DEF Place
  <2>10. \A k \in Loops : \A fd \in DOMAIN fds'[k] : fd # f /\ fd \in DOMAIN fds[k]
    BY Zenon, <2>4, <2>5, <2>7 DEF Place
  <2>11. InOnePlace'
    <3>1. ASSUME NEW k \in Loops
          PROVE  /\ DOMAIN fds'[k] \subseteq Fds /\ DOMAIN fds'[k] \cap Waiting(k)' = {}
                 /\ DOMAIN fds'[k] = DOMAIN conn_maps'[k] /\ DOMAIN fds'[k] = DOMAIN connections'[k]
      <4>1. CASE k = l
        BY <4>1, <2>2, <2>4, <2>6 DEF InOnePlace
      <4>2. CASE k # l
        BY Zenon, <4>2, <2>2, <2>5, <2>6 DEF InOnePlace
      <4> QED
        BY Zenon, <4>1, <4>2
    <3>2. ASSUME NEW k \in Loops, NEW fd \in Waiting(k)' PROVE owner'[fd] # NoConn
      BY Zenon, <3>2, <2>2, <2>6, <2>8, <2>9 DEF InOnePlace
    <3>3. ASSUME NEW k \in Loops, NEW fd \in DOMAIN fds'[k]
          PROVE  /\ owner'[fd] # NoConn /\ conn_maps'[k][fd].c = owner'[fd]
                 /\ "c" \in DOMAIN conn_maps'[k][fd]
      <4>1. fd # f /\ fd \in DOMAIN fds[k] /\ fd \in Fds
        BY Zenon, <2>10, <2>2, <3>3 DEF InOnePlace
      <4>2. conn_maps'[k][fd] = conn_maps[k][fd]
        BY Zenon, <4>1, <2>2, <2>4, <2>5 DEF InOnePlace
      <4> QED
        BY Zenon, <4>1, <4>2, <2>2, <2>8 DEF InOnePlace
    <3>4. \A j, k \in Loops : j # k => Place(j)' \cap Place(k)' = {}
      BY Zenon, <2>2, <2>7 DEF InOnePlace
    <3> QED
      BY Zenon, <3>1, <3>2, <3>3, <3>4 DEF InOnePlace
  <2>12. CallbackKnown'
    BY Zenon, <1>2, <2>2, <2>5 DEF CallbackKnown, MapKinds
  <2> QED
    BY Zenon, <2>3, <2>11, <2>12 DEF Places
<1> QED
  BY Zenon, <1>4, <1>5
\* add_client: accept returns a descriptor that is in no place, and it is
\* handed to one loop.
LEMMA PlacesAccept ==
  ASSUME Places, NEW c \in Conns, NEW f \in Fds, Accept(c, f)
  PROVE  Places'
<1>1. MapKinds /\ InOnePlace /\ CallbackKnown
  BY Zenon DEF Places
<1>2. PICK n \in Loops : n = (next_loop + 1) % NL
  <2>1. next_loop \in Int /\ NL \in Nat \ {0}
    BY <1>1, Sizes DEF MapKinds, Loops
  <2>2. (next_loop + 1) % NL \in Loops
    BY <2>1 DEF Loops
  <2> QED
    BY Zenon, <2>2
<1>3. /\ owner[f] = NoConn /\ owner' = [owner EXCEPT ![f] = c] /\ next_loop' = n
      /\ new_fds' = [new_fds EXCEPT ![n] = Append(@, f)]
      /\ UNCHANGED <<loop, fds, conn_maps, connections>>
  BY Zenon, <1>2 DEF Accept, Lowest
<1>4. c # NoConn
  BY Zenon, Sizes DEF NoConn
<1>5. MapKinds'
  BY <1>1, <1>2, <1>3 DEF MapKinds
<1>6. Waiting(n)' = Waiting(n) \cup {f}
  <2>1. new_fds[n] \in Seq(Fds) /\ new_fds'[n] = Append(new_fds[n], f)
    BY Zenon, <1>1, <1>2, <1>3 DEF MapKinds
  <2> DEFINE s == new_fds[n]
             t == Append(s, f)
  <2>2. /\ DOMAIN t = 1..(Len(s) + 1) /\ DOMAIN s = 1..Len(s) /\ Len(s) \in Nat
        /\ \A i \in DOMAIN s : t[i] = s[i]
        /\ t[Len(s) + 1] = f
    BY <2>1
  <2>3. {t[i] : i \in DOMAIN t} = {s[i] : i \in DOMAIN s} \cup {f}
    BY <2>2
  <2> QED
    BY Zenon, <2>1, <2>3 DEF Waiting
<1>7. \A k \in Loops \ {n} : Waiting(k)' = Waiting(k)
  BY Zenon, <1>1, <1>3 DEF Waiting, MapKinds
<1>8. \A k \in Loops : f \notin Place(k)
  BY Zenon, <1>1, <1>3 DEF InOnePlace, Place
<1>9. /\ Place(n)' = Place(n) \cup {f}
      /\ \A k \in Loops \ {n} : Place(k)' = Place(k)
  BY Zenon, <1>3, <1>6, <1>7 DEF Place
<1>10. owner'[f] = c /\ \A fd \in Fds \ {f} : owner'[fd] = owner[fd]
  BY Zenon, <1>1, <1>3 DEF MapKinds
<1>11. \A k \in Loops : Waiting(k) \subseteq Fds
  BY <1>1 DEF Waiting, MapKinds
<1>12. InOnePlace'
  <2>1. ASSUME NEW k \in Loops
        PROVE  /\ DOMAIN fds'[k] \subseteq Fds /\ DOMAIN fds'[k] \cap Waiting(k)' = {}
               /\ DOMAIN fds'[k] = DOMAIN conn_maps'[k] /\ DOMAIN fds'[k] = DOMAIN connections'[k]
    BY <1>1, <1>3, <1>6, <1>7, <1>8 DEF InOnePlace, Place
  <2>2. ASSUME NEW k \in Loops, NEW fd \in Waiting(k)' PROVE owner'[fd] # NoConn
    BY Zenon, <2>2, <1>1, <1>4, <1>6, <1>7, <1>10, <1>11 DEF InOnePlace
  <2>3. ASSUME NEW k \in Loops, NEW fd \in DOMAIN fds'[k]
        PROVE  /\ owner'[fd] # NoConn /\ conn_maps'[k][fd].c = owner'[fd]
               /\ "c" \in DOMAIN conn_maps'[k][fd]
    BY <2>3, <1>1, <1>3, <1>8, <1>10 DEF InOnePlace, Place
  <2>4. \A j, k \in Loops : j # k => Place(j)' \cap Place(k)' = {}
    BY <1>1, <1>8, <1>9 DEF InOnePlace
  <2> QED
    BY Zenon, <2>1, <2>2, <2>3, <2>4 DEF InOnePlace
<1>13. CallbackKnown'
  BY Zenon, <1>1, <1>3 DEF CallbackKnown
<1> QED
  BY Zenon, <1>5, <1>12, <1>13 DEF Places

\* The async callback moves the descriptors handed to a loop into its maps.
LEMMA PlacesAsync ==
  ASSUME Places, NEW l \in Loops, AsyncCallback(l)
  PROVE  Places'
<1>1. MapKinds /\ InOnePlace /\ CallbackKnown
  BY Zenon DEF Places
<1>2. CASE UNCHANGED <<new_fds, fds, conn_maps, connections>>
  <2>1. UNCHANGED <<owner, next_loop>> /\ (loop' = [loop EXCEPT ![l] = Exited] \/ UNCHANGED loop)
    BY Zenon DEF AsyncCallback
  <2>2. MapKinds' /\ CallbackKnown'
    BY Zenon, <1>1, <1>2, <2>1 DEF MapKinds, CallbackKnown
  <2>3. \A k \in Loops : Waiting(k)' = Waiting(k) /\ Place(k)' = Place(k)
    BY Zenon, <1>2 DEF Place, Waiting
  <2>4. InOnePlace'
    BY Zenon, <1>1, <1>2, <2>1, <2>3 DEF InOnePlace
  <2> QED
    BY Zenon, <2>2, <2>4 DEF Places
<1>3. CASE ~UNCHANGED <<new_fds, fds, conn_maps, connections>>
  <2> DEFINE new == Waiting(l)
  <2>1. /\ new_fds' = [new_fds EXCEPT ![l] = <<>>]
        /\ fds' = [fds EXCEPT ![l] = Insert(fds[l], [fd \in new |-> "read"])]
        /\ conn_maps' = [conn_maps EXCEPT ![l] = Insert(conn_maps[l], [fd \in new |-> TcpConnection(fd)])]
        /\ connections' = [connections EXCEPT ![l] =
                             Insert(connections[l], [fd \in new |-> RiemannTcpConnection])]
        /\ UNCHANGED <<loop, owner, next_loop>>
    BY Zenon, <1>3 DEF AsyncCallback, Waiting
  <2>2. /\ DOMAIN fds'[l] = DOMAIN fds[l] \cup new
        /\ DOMAIN conn_maps'[l] = DOMAIN conn_maps[l] \cup new
        /\ DOMAIN connections'[l] = DOMAIN connections[l] \cup new
    BY Zenon, <1>1, <2>1 DEF MapKinds, Insert
  <2>3. /\ \A fd \in DOMAIN conn_maps[l] : conn_maps'[l][fd] = conn_maps[l][fd]
        /\ \A fd \in new \ DOMAIN conn_maps[l] : conn_maps'[l][fd] = TcpConnection(fd)
    BY Zenon, <1>1, <2>1 DEF MapKinds, Insert
  <2>4. Waiting(l)' = {}
    <3>1. new_fds'[l] = <<>>
      BY Zenon, <1>1, <2>1 DEF MapKinds
    <3>2. DOMAIN new_fds'[l] = {}
      BY <3>1
    <3> QED
      BY Zenon, <3>2 DEF Waiting
  <2>5. \A k \in Loops \ {l} : /\ fds'[k] = fds[k] /\ conn_maps'[k] = conn_maps[k]
                               /\ connections'[k] = connections[k] /\ Waiting(k)' = Waiting(k)
    BY Zenon, <1>1, <2>1 DEF MapKinds, Waiting
  <2>6. new \subseteq Fds
    BY <1>1 DEF Waiting, MapKinds
  <2> HIDE DEF new
  <2>7. MapKinds'
    <3>1. <<>> \in Seq(Fds)
      OBVIOUS
    <3>2. new_fds' \in [Loops -> Seq(Fds)]
      BY <1>1, <2>1, <3>1, Zenon DEF MapKinds
    <3> QED
      BY Zenon, <1>1, <2>1, <3>2 DEF MapKinds
  <2>8. \A k \in Loops : Place(k)' = Place(k)
    <3>1. Place(l)' = Place(l)
      BY Zenon, <2>2, <2>4 DEF Place, new
    <3>2. \A k \in Loops \ {l} : Place(k)' = Place(k)
      BY Zenon, <2>5 DEF Place
    <3> QED
      BY Zenon, <3>1, <3>2
  <2>9. \A fd : TcpConnection(fd).c = owner[fd] /\ "c" \in DOMAIN TcpConnection(fd)
    BY Zenon DEF TcpConnection
  <2>10. InOnePlace'
    <3>1. ASSUME NEW k \in Loops
          PROVE  /\ DOMAIN fds'[k] \subseteq Fds /\ DOMAIN fds'[k] \cap Waiting(k)' = {}
                 /\ DOMAIN fds'[k] = DOMAIN conn_maps'[k] /\ DOMAIN fds'[k] = DOMAIN connections'[k]
                 /\ \A fd \in Waiting(k)' : owner'[fd] # NoConn
      <4>1. CASE k = l
        BY Zenon, <4>1, <1>1, <2>2, <2>4, <2>6 DEF InOnePlace
      <4>2. CASE k # l
        BY <4>2, <1>1, <2>1, <2>5 DEF InOnePlace
      <4> QED
        BY Zenon, <4>1, <4>2
    <3>2. ASSUME NEW k \in Loops, NEW fd \in DOMAIN fds'[k]
          PROVE  /\ owner'[fd] # NoConn /\ conn_maps'[k][fd].c = owner'[fd]
                 /\ "c" \in DOMAIN conn_maps'[k][fd]
      <4>1. CASE k # l
        <5>1. fds'[k] = fds[k] /\ conn_maps'[k] = conn_maps[k] /\ owner' = owner
          BY Zenon, <4>1, <2>1, <2>5
        <5> QED
          BY Zenon, <3>2, <5>1, <1>1 DEF InOnePlace
      <4>2. CASE k = l /\ fd \in DOMAIN fds[l]
        <5>1. fd \in DOMAIN conn_maps[l] /\ owner' = owner
          BY Zenon, <4>2, <1>1, <2>1 DEF InOnePlace
        <5>2. conn_maps'[l][fd] = conn_maps[l][fd]
          BY Zenon, <5>1, <2>3
        <5> QED
          BY Zenon, <4>2, <5>1, <5>2, <1>1 DEF InOnePlace
      <4>3. CASE k = l /\ fd \in new
        <5>1. fd \notin DOMAIN conn_maps[l] /\ owner[fd] # NoConn
          BY Zenon, <4>3, <1>1 DEF InOnePlace, new
        <5> QED
          BY Zenon, <4>3, <5>1, <2>1, <2>3, <2>9
      <4> QED
        BY Zenon, <3>2, <2>2, <4>1, <4>2, <4>3
    <3>3. \A j, k \in Loops : j # k => Place(j)' \cap Place(k)' = {}
      BY Zenon, <1>1, <2>8 DEF InOnePlace
    <3> QED
      BY Zenon, <3>1, <3>2, <3>3 DEF InOnePlace
  <2>11. CallbackKnown'
    <3>1. \A k \in Loops : DOMAIN fds[k] \subseteq DOMAIN fds'[k]
      BY Zenon, <2>2, <2>5
    <3> QED
      BY Zenon, <3>1, <1>1, <2>1 DEF CallbackKnown
  <2> QED
    BY Zenon, <2>7, <2>10, <2>11 DEF Places
<1> QED
  BY Zenon, <1>2, <1>3

\* Every step of the server keeps Places.
LEMMA PlacesStep == Places /\ [Next]_vars => Places'
<1> SUFFICES ASSUME Places, [Next]_vars PROVE Places'
  BY Zenon
<1>a. ASSUME UNCHANGED <<new_fds, fds, conn_maps, connections, loop, owner, next_loop>> PROVE Places'
  BY <1>a DEF Places, MapKinds, InOnePlace, CallbackKnown, Place, Waiting
<1>1. CASE Next
  <2>1. CASE MainStep \/ MainLoopEnds
    <3>1. UNCHANGED <<new_fds, fds, conn_maps, connections, loop, owner, next_loop>>
      BY Zenon, <2>1 DEF MainStep, MainLoopEnds, AssignCore, ReloadRules, StopScheduler, StopExecutor,
                  JoinExecutor, StopStreams, StopTcp, JoinTcp, StopUdp, ResetCore, pool_vars
    <3> QED
      BY Zenon, <3>1, <1>a
  <2>2. ASSUME NEW c \in Conns, PeerClose(c) PROVE Places'
    BY Zenon, <2>2, <1>a DEF PeerClose
  <2>3. ASSUME NEW c \in Conns, NEW fd \in Fds, Accept(c, fd) PROVE Places'
    BY Zenon, <2>3, PlacesAccept
  <2>4. ASSUME NEW l \in Loops, LoopStep(l) PROVE Places'
    BY Zenon, <2>4, PlacesAsync, PlacesParse, PlacesAdd, PlacesFinish DEF LoopStep
  <2>5. ASSUME NEW l \in Loops, NEW fd \in Fds, NEW rd \in BOOLEAN, NEW wr \in BOOLEAN,
               SocketCallback(l, fd, rd, wr)
        PROVE  Places'
    BY Zenon, <2>5, PlacesSocket
  <2>6. CASE (\E w \in Workers : Pop(w) \/ TaskDone(w))
             \/ (\E o \in Others : StartPush(o) \/ EndPush(o)) \/ Detach \/ ExpirerEnds
    <3>1. UNCHANGED <<new_fds, fds, conn_maps, connections, loop, owner, next_loop>>
      BY Zenon, <2>6 DEF Pop, TaskDone, StartPush, EndPush, Detach, ExpirerEnds, SetOther, pool_vars
    <3> QED
      BY Zenon, <3>1, <1>a
  <2> QED
    BY Zenon, <1>1, <2>1, <2>2, <2>3, <2>4, <2>5, <2>6 DEF Next
<1>2. CASE UNCHANGED vars
  BY Zenon, <1>2, <1>a DEF vars, pool_vars
<1> QED
  BY Zenon, <1>1, <1>2

\* The maps of tcp_pool and riemann_tcp_pool hold the same descriptors as the
\* loop watches, no two loops watch one, and each stands for the connection that
\* has it now, for any number of loops, clients and descriptors: the CHECKs "fd
\* not found" of data_ready and socket_callback never fail.
THEOREM MapsAgree == Spec => []Registered
<1>1. Init => Places
  BY Zenon, PlacesInit
<1>2. Places /\ [Next]_vars => Places'
  BY Zenon, PlacesStep
<1>3. Places => Registered
  BY Zenon, PlacesMean
<1> QED
  BY <1>1, <1>2, <1>3, PTL DEF Spec

\* Whatever the sizes of a client's messages and of the buffers, and however its
\* bytes arrive, callbacks are cut short and loops alternate: read_header and
\* read_message give the executor the client's messages in their order and each
\* once, leave nothing complete in the buffer and never a full one, and queue an
\* ack for each message given and for no other.
THEOREM BytesAreCut == Spec => []Framing
<1> DEFINE Inv == Places /\ Frames /\ ExecTypes
<1>1. Init => Inv
  BY Zenon, PlacesInit, FramesInit, ExecInit
<1>2. Inv /\ [Next]_vars => Inv'
  BY Zenon, PlacesStep, FramesStep, ExecStep
<1>3. Inv => Framing
  BY Zenon, FramesMean
<1> HIDE DEF Inv
<1> QED
  BY <1>1, <1>2, <1>3, PTL DEF Spec

-----------------------------------------------------------------------------
(* Tasks.                                                                   *)

\* Before the executor is stopped.
Counting == {"ctor", "loaded", "run", "stop_sched"}

\* Task t is about to be pushed by loop l, runs on worker w, is entry i of w's
\* queue.
InLoop(l, t) == loop[l].at = "push" /\ loop[l].task = t
InWorker(w, t) == worker[w].at = "run" /\ worker[w].task = t
InQueue(w, i, t) == i \in DOMAIN tasks[w] /\ ~tasks[w][i].stop /\ tasks[w][i].id = t

Placed(t) == \/ \E l \in Loops : InLoop(l, t)
             \/ \E w \in Workers : InWorker(w, t)
             \/ \E w \in Workers, i \in Nat : InQueue(w, i, t)

\* Task t is in one place at most.
PlacedOnce(t) ==
  /\ \A l, k \in Loops : InLoop(l, t) /\ InLoop(k, t) => l = k
  /\ \A w, v \in Workers : InWorker(w, t) /\ InWorker(v, t) => w = v
  /\ \A w, v \in Workers, i, j \in Nat : InQueue(w, i, t) /\ InQueue(v, j, t) => w = v /\ i = j
  /\ \A l \in Loops, w \in Workers : ~(InLoop(l, t) /\ InWorker(w, t))
  /\ \A l \in Loops, w \in Workers, i \in Nat : ~(InLoop(l, t) /\ InQueue(w, i, t))
  /\ \A w, v \in Workers, i \in Nat : ~(InWorker(w, t) /\ InQueue(v, i, t))

\* The tasks that have not run.
Open == Handed \ ran

\* A task is nowhere twice, nowhere once it has run, and until the executor is
\* stopped it is somewhere.
Held == /\ \A t \in TaskIds : PlacedOnce(t)
        /\ \A t \in TaskIds : Placed(t) => t \in Open
        /\ main.at \in Counting => \A t \in Open : Placed(t)

\* The gauge of the tasks counts those that have not run.
Counted == /\ ran \subseteq Handed /\ Handed \subseteq TaskIds
           /\ IsFiniteSet(Open) /\ gauges.tasks = Cardinality(Open)
           /\ gauges \in [tasks : Int, conns : Int]

\* Nothing that concerns tasks changes.
LEMMA HeldSame ==
  ASSUME Held, UNCHANGED <<worker, tasks, handed, ran>>,
         \A l \in Loops, t \in TaskIds : InLoop(l, t)' <=> InLoop(l, t),
         main'.at \in Counting => main.at \in Counting,
         Open \subseteq TaskIds
  PROVE  Held'
<1>1. /\ \A w \in Workers, t \in TaskIds : InWorker(w, t)' <=> InWorker(w, t)
      /\ \A w \in Workers, i \in Nat, t \in TaskIds : InQueue(w, i, t)' <=> InQueue(w, i, t)
  BY Zenon DEF InWorker, InQueue
<1>2. Open' = Open
  BY DEF Open, Handed
<1>3. \A t \in TaskIds : (Placed(t)' <=> Placed(t))
  BY Zenon, <1>1 DEF Placed
<1>4. \A t \in TaskIds : PlacedOnce(t)'
  BY <1>1 DEF Held, PlacedOnce
<1> QED
  BY Zenon, <1>2, <1>3, <1>4 DEF Held

\* Task t0 goes from loop l to entry n of v's queue.
Pushed(l, t0, v, n) ==
  /\ InLoop(l, t0)
  /\ \A k \in Loops, t \in TaskIds : InLoop(k, t)' <=> (InLoop(k, t) /\ k # l)
  /\ \A w \in Workers, i \in Nat, t \in TaskIds :
       InQueue(w, i, t)' <=> (InQueue(w, i, t) \/ (w = v /\ i = n /\ t = t0))

\* add_task pushes a task.
LEMMA HeldPush ==
  ASSUME Held, UNCHANGED <<worker, handed, ran>>, main' = main, Open \subseteq TaskIds,
         NEW l \in Loops, NEW t0 \in TaskIds, NEW v \in Workers, NEW n \in Nat,
         Pushed(l, t0, v, n)
  PROVE  Held'
<1> USE DEF Pushed
<1>1. \A w \in Workers, t \in TaskIds : InWorker(w, t)' <=> InWorker(w, t)
  BY Zenon DEF InWorker
<1>2. Open' = Open
  BY DEF Open, Handed
<1>3. \A t \in TaskIds : (Placed(t)' <=> Placed(t))
  <2> SUFFICES ASSUME NEW t \in TaskIds PROVE Placed(t)' <=> Placed(t)
    BY Zenon
  <2>1. CASE t = t0
    BY Zenon, <2>1, <1>1 DEF Placed
  <2>2. CASE t # t0
    <3>1. \A k \in Loops : InLoop(k, t) => k # l
      BY Zenon, <2>2 DEF InLoop
    <3> QED
      BY Zenon, <2>2, <1>1, <3>1 DEF Placed
  <2> QED
    BY Zenon, <2>1, <2>2
<1>4. \A t \in TaskIds : PlacedOnce(t)'
  BY <1>1 DEF Held, PlacedOnce
<1> QED
  BY Zenon, <1>2, <1>3, <1>4 DEF Held

\* The first entry of v's queue goes to v, if it is a task.
Popped(v) ==
  /\ \A k \in Loops, t \in TaskIds : InLoop(k, t)' <=> InLoop(k, t)
  /\ \A w \in Workers, t \in TaskIds :
       InWorker(w, t)' <=> (InWorker(w, t) \/ (w = v /\ InQueue(v, 1, t)))
  /\ \A w \in Workers, i \in Nat, t \in TaskIds :
       InQueue(w, i, t)' <=> IF w = v THEN i # 0 /\ InQueue(v, i + 1, t) ELSE InQueue(w, i, t)
  /\ \A t \in TaskIds : ~InQueue(v, 0, t)

\* A worker takes the first entry of its queue, a task or the order to stop.
LEMMA HeldPop ==
  ASSUME Held, UNCHANGED <<handed, ran>>, main' = main, Open \subseteq TaskIds,
         NEW v \in Workers, Popped(v)
  PROVE  Held'
<1> USE DEF Popped
<1>2. Open' = Open
  BY DEF Open, Handed
<1> SUFFICES ASSUME NEW t \in TaskIds PROVE PlacedOnce(t)' /\ (Placed(t)' <=> Placed(t))
  BY Zenon, <1>2 DEF Held
<1>3. \A i \in Nat : InQueue(v, i, t) => i = 1 \/ (i - 1 \in Nat /\ i - 1 # 0 /\ i = (i - 1) + 1)
  OBVIOUS
<1>4. \A i \in Nat : InQueue(v, i, t) => InWorker(v, t)' \/ InQueue(v, i - 1, t)'
  BY Zenon, <1>3
<1>5. \A w \in Workers, i \in Nat : InQueue(w, i, t)' => \E j \in Nat : InQueue(w, j, t)
  OBVIOUS
<1>6. Placed(t)' => Placed(t)
  BY Zenon, <1>5 DEF Placed
<1>7. Placed(t) => Placed(t)'
  BY <1>3, <1>4 DEF Placed
<1>8. PlacedOnce(t)
  BY Zenon DEF Held
<1>9. PlacedOnce(t)'
  <2>1. \A w, u \in Workers, i, j \in Nat : InQueue(w, i, t)' /\ InQueue(u, j, t)' => w = u /\ i = j
    BY <1>8 DEF PlacedOnce
  <2>2. \A w, u \in Workers : InWorker(w, t)' /\ InWorker(u, t)' => w = u
    BY Zenon, <1>8 DEF PlacedOnce
  <2>3. \A w, u \in Workers, i \in Nat : ~(InWorker(w, t)' /\ InQueue(u, i, t)')
    BY <1>8 DEF PlacedOnce
  <2>4. \A l \in Loops, w \in Workers : ~(InLoop(l, t)' /\ InWorker(w, t)')
    BY Zenon, <1>8 DEF PlacedOnce
  <2>5. \A l \in Loops, w \in Workers, i \in Nat : ~(InLoop(l, t)' /\ InQueue(w, i, t)')
    BY <1>8 DEF PlacedOnce
  <2>6. \A l, k \in Loops : InLoop(l, t)' /\ InLoop(k, t)' => l = k
    BY Zenon, <1>8 DEF PlacedOnce
  <2> QED
    BY Zenon, <2>1, <2>2, <2>3, <2>4, <2>5, <2>6 DEF PlacedOnce
<1> QED
  BY Zenon, <1>6, <1>7, <1>9

\* A task ends.
LEMMA HeldDone ==
  ASSUME Held, UNCHANGED <<loop, tasks, handed>>, main' = main, Open \subseteq TaskIds,
         NEW v \in Workers, NEW t0 \in TaskIds, InWorker(v, t0), ran' = ran \cup {t0},
         \A w \in Workers, t \in TaskIds : InWorker(w, t)' <=> (InWorker(w, t) /\ w # v)
  PROVE  Held'
<1>1. /\ \A l \in Loops, t \in TaskIds : InLoop(l, t)' <=> InLoop(l, t)
      /\ \A w \in Workers, i \in Nat, t \in TaskIds : InQueue(w, i, t)' <=> InQueue(w, i, t)
  BY Zenon DEF InLoop, InQueue
<1>2. Open' = Open \ {t0}
  BY DEF Open, Handed
<1>3. \A t \in TaskIds : PlacedOnce(t)'
  BY <1>1 DEF Held, PlacedOnce
<1>4. ~Placed(t0)'
  BY Zenon, <1>1 DEF Held, PlacedOnce, Placed
<1>5. \A t \in TaskIds : Placed(t)' => Placed(t)
  BY Zenon, <1>1 DEF Placed
<1>6. \A t \in TaskIds : t # t0 => ~InWorker(v, t)
  BY Zenon DEF InWorker
<1>7. \A t \in TaskIds : t # t0 /\ Placed(t) => Placed(t)'
  BY Zenon, <1>1, <1>6 DEF Placed
<1> QED
  BY Zenon, <1>2, <1>3, <1>4, <1>5, <1>7 DEF Held

\* A message becomes a task.
LEMMA HeldNew ==
  ASSUME Held, UNCHANGED <<worker, tasks, ran>>, main' = main, Open \subseteq TaskIds,
         NEW l \in Loops, NEW t0 \in TaskIds, t0 \notin Open, Open' = Open \cup {t0},
         \A k \in Loops, t \in TaskIds : InLoop(k, t)' <=> (InLoop(k, t) \/ (k = l /\ t = t0))
  PROVE  Held'
<1>1. /\ \A w \in Workers, t \in TaskIds : InWorker(w, t)' <=> InWorker(w, t)
      /\ \A w \in Workers, i \in Nat, t \in TaskIds : InQueue(w, i, t)' <=> InQueue(w, i, t)
  BY Zenon DEF InWorker, InQueue
<1>2. ~Placed(t0)
  BY Zenon DEF Held
<1>3. \A t \in TaskIds : Placed(t)' <=> (Placed(t) \/ t = t0)
  BY Zenon, <1>1 DEF Placed
<1>4. \A t \in TaskIds : PlacedOnce(t)'
  BY <1>1, <1>2 DEF Held, PlacedOnce, Placed
<1> QED
  BY Zenon, <1>3, <1>4 DEF Held

\* The executor is stopped: queues are cleared, and get the order to stop.
LEMMA HeldStop ==
  ASSUME Held, UNCHANGED <<loop, worker, handed, ran>>, main'.at \notin Counting, Open \subseteq TaskIds,
         \A w \in Workers, i \in Nat, t \in TaskIds : InQueue(w, i, t)' => InQueue(w, i, t)
  PROVE  Held'
<1>1. /\ \A w \in Workers, t \in TaskIds : InWorker(w, t)' <=> InWorker(w, t)
      /\ \A l \in Loops, t \in TaskIds : InLoop(l, t)' <=> InLoop(l, t)
  BY Zenon DEF InWorker, InLoop
<1>2. Open' = Open
  BY DEF Open, Handed
<1>3. \A t \in TaskIds : Placed(t)' => Placed(t)
  BY Zenon, <1>1 DEF Placed
<1>4. \A t \in TaskIds : PlacedOnce(t)'
  BY <1>1 DEF Held, PlacedOnce
<1> QED
  BY Zenon, <1>2, <1>3, <1>4 DEF Held

Accounts == Held /\ Counted

\* A step that has to do with no task.
LEMMA AccountsSame ==
  ASSUME Accounts, UNCHANGED <<worker, tasks, handed, ran>>,
         \A l \in Loops, t \in TaskIds : InLoop(l, t)' <=> InLoop(l, t),
         main'.at \in Counting => main.at \in Counting,
         gauges' \in [tasks : Int, conns : Int], gauges'.tasks = gauges.tasks
  PROVE  Accounts'
<1>1. Open' = Open /\ Handed' = Handed
  BY DEF Open, Handed
<1>2. Counted'
  BY Zenon, <1>1 DEF Accounts, Counted
<1>3. Open \subseteq TaskIds
  BY Zenon DEF Accounts, Counted, Open
<1> QED
  BY Zenon, <1>2, <1>3, HeldSame DEF Accounts

\* add_task's push: the task goes from the loop to the end of a queue.
LEMMA AccountsPush ==
  ASSUME Places, Frames, ExecTypes, Accounts, NEW l \in Loops, PushTask(l)
  PROVE  Accounts'
<1> DEFINE v == loop[l].w
           t0 == loop[l].task
           n == Len(tasks[v]) + 1
           e == [stop |-> FALSE, id |-> t0]
<1>1. loop[l].at = "push" /\ loop[l] \in AddTaskCalls
  <2>1. loop[l].at = "push"
    BY Zenon DEF PushTask
  <2> QED
    BY Zenon, <2>1, Here
<1>2. v \in Workers /\ t0 \in TaskIds
  BY Zenon, <1>1 DEF AddTaskCalls
<1>3. /\ tasks' = [tasks EXCEPT ![v] = Append(tasks[v], e)]
      /\ loop' = [loop EXCEPT ![l].at = "advance"]
      /\ UNCHANGED <<worker, handed, ran, gauges, main>>
  BY Zenon DEF PushTask, At
<1>4. tasks \in [Workers -> Seq(Tasks)] /\ loop \in [Loops -> {Idle, Exited} \cup Callbacks \cup AddTaskCalls]
  BY Zenon DEF ExecTypes, Tasks, Frames, PoolTypes
<1>5. \A k \in Loops, t \in TaskIds : InLoop(k, t)' <=> (InLoop(k, t) /\ k # l)
  <2>1. \A k \in Loops : k # l => loop'[k] = loop[k]
    BY Zenon, <1>3, <1>4
  <2>2. loop'[l] = [loop[l] EXCEPT !.at = "advance"]
    BY Zenon, <1>3, <1>4
  <2>3. loop'[l].at = "advance"
    BY Zenon, <2>2, <1>1 DEF AddTaskCalls
  <2> QED
    BY Zenon, <2>1, <2>3 DEF InLoop
<1>6. \A w \in Workers, i \in Nat, t \in TaskIds :
        InQueue(w, i, t)' <=> (InQueue(w, i, t) \/ (w = v /\ i = n /\ t = t0))
  <2>1. \A w \in Workers : w # v => tasks'[w] = tasks[w]
    BY Zenon, <1>3, <1>4
  <2>2. tasks'[v] = Append(tasks[v], e) /\ tasks[v] \in Seq(Tasks)
    BY Zenon, <1>2, <1>3, <1>4
  <2>3. e.stop = FALSE /\ e.id = t0
    BY Zenon
  <2> HIDE DEF e, t0, v
  <2>4. /\ DOMAIN tasks'[v] = DOMAIN tasks[v] \cup {n} /\ n \notin DOMAIN tasks[v] /\ tasks'[v][n] = e
        /\ \A i \in DOMAIN tasks[v] : tasks'[v][i] = tasks[v][i]
    BY <2>2
  <2> QED
    BY Zenon, <2>1, <2>3, <2>4 DEF InQueue
<1>7. InLoop(l, t0)
  BY Zenon, <1>1 DEF InLoop
<1>8. n \in Nat
  BY <1>2, <1>4
<1>9. Open \subseteq TaskIds
  BY Zenon DEF Accounts, Counted, Open
<1>10. main' = main
  BY Zenon, <1>3
<1> HIDE DEF v, t0, n, e
<1>11. UNCHANGED <<worker, handed, ran>>
  BY Zenon, <1>3
<1>12. Pushed(l, t0, v, n)
  BY Zenon, <1>5, <1>6, <1>7 DEF Pushed
<1>13. Held'
  BY Zenon, <1>2, <1>8, <1>9, <1>10, <1>11, <1>12, HeldPush DEF Accounts
<1>14. Counted'
  BY <1>3 DEF Accounts, Counted, Open, Handed
<1> QED
  BY Zenon, <1>13, <1>14 DEF Accounts

\* What is left of a queue without its first entry.
LEMMA TailIs ==
  ASSUME NEW S, NEW q \in Seq(S), q # <<>>, NEW i \in Nat
  PROVE  /\ i \in DOMAIN Tail(q) <=> (i # 0 /\ i + 1 \in DOMAIN q)
         /\ i \in DOMAIN Tail(q) => Tail(q)[i] = q[i + 1]
OBVIOUS

\* Append(q, x), entry by entry.
LEMMA AppendIs ==
  ASSUME NEW S, NEW q \in Seq(S), NEW x \in S, NEW i \in DOMAIN Append(q, x)
  PROVE  \/ i \in DOMAIN q /\ Append(q, x)[i] = q[i]
         \/ i = Len(q) + 1 /\ Append(q, x)[i] = x
<1>1. DOMAIN Append(q, x) = 1..(Len(q) + 1) /\ DOMAIN q = 1..Len(q) /\ Len(q) \in Nat
  OBVIOUS
<1>2. CASE i = Len(q) + 1
  BY <1>2
<1>3. CASE i \in 1..Len(q)
  BY <1>1, <1>3
<1> QED
  BY <1>1, <1>2, <1>3

\* run_tasks takes a task out of the queue.
LEMMA AccountsPop ==
  ASSUME Places, Frames, ExecTypes, Accounts, NEW v \in Workers, Pop(v)
  PROVE  Accounts'
<1> DEFINE h == Head(tasks[v])
           r == IF h.stop THEN Exited ELSE [at |-> "run", task |-> h.id]
<1>1. /\ worker[v] = Idle /\ tasks[v] # <<>>
      /\ tasks' = [tasks EXCEPT ![v] = Tail(tasks[v])]
      /\ worker' = [worker EXCEPT ![v] = r]
      /\ UNCHANGED <<loop, handed, ran, gauges, main>>
  BY Zenon DEF Pop
<1>2. /\ tasks \in [Workers -> Seq(Tasks)]
      /\ worker \in [Workers -> {Idle, Exited} \cup [at : {"run"}, task : TaskIds]]
  BY Zenon DEF ExecTypes, Tasks
<1>3. \A k \in Loops, t \in TaskIds : InLoop(k, t)' <=> InLoop(k, t)
  BY Zenon, <1>1 DEF InLoop
<1>4. tasks[v] \in Seq(Tasks) /\ 1 \in DOMAIN tasks[v] /\ tasks[v][1] = h /\ h.stop \in BOOLEAN
  <2>1. tasks[v] \in Seq(Tasks) /\ 1 \in DOMAIN tasks[v] /\ tasks[v][1] = h /\ h \in Tasks
    BY <1>1, <1>2
  <2> HIDE DEF h
  <2>2. h.stop \in BOOLEAN
    <3>1. CASE h = StopTask
      BY Zenon, <3>1 DEF StopTask
    <3>2. CASE h \in [stop : {FALSE}, id : TaskIds]
      BY Zenon, <3>2
    <3> QED
      BY Zenon, <2>1, <3>1, <3>2 DEF Tasks
  <2> QED
    BY Zenon, <2>1, <2>2
<1>5. \A t \in TaskIds : InQueue(v, 1, t) <=> (~h.stop /\ h.id = t)
  BY Zenon, <1>4 DEF InQueue
<1>6. \A w \in Workers, t \in TaskIds :
        InWorker(w, t)' <=> (InWorker(w, t) \/ (w = v /\ InQueue(v, 1, t)))
  <2>1. \A w \in Workers : w # v => worker'[w] = worker[w]
    BY Zenon, <1>1, <1>2
  <2>2. worker'[v] = r
    BY Zenon, <1>1, <1>2
  <2>3. /\ h.stop => r.at = "exited"
        /\ ~h.stop => r.at = "run" /\ r.task = h.id
    <3> HIDE DEF h
    <3> QED
      BY Zenon, <1>4 DEF Exited
  <2>4. worker[v].at = "idle"
    BY <1>1 DEF Idle
  <2> HIDE DEF r, h
  <2> QED
    BY Zenon, <1>4, <1>5, <2>1, <2>2, <2>3, <2>4 DEF InWorker
<1>7. \A w \in Workers, i \in Nat, t \in TaskIds :
        InQueue(w, i, t)' <=> IF w = v THEN i # 0 /\ InQueue(v, i + 1, t) ELSE InQueue(w, i, t)
  <2>1. \A w \in Workers : w # v => tasks'[w] = tasks[w]
    BY Zenon, <1>1, <1>2
  <2>2. tasks'[v] = Tail(tasks[v])
    BY Zenon, <1>1, <1>2
  <2>3. ASSUME NEW i \in Nat, NEW t \in TaskIds
        PROVE  InQueue(v, i, t)' <=> (i # 0 /\ InQueue(v, i + 1, t))
    <3>a. tasks[v] \in Seq(Tasks) /\ tasks[v] # <<>>
      BY Zenon, <1>1, <1>4
    <3>1. i \in DOMAIN tasks'[v] <=> (i # 0 /\ i + 1 \in DOMAIN tasks[v])
      BY Zenon, <2>2, <3>a, TailIs
    <3>2. i \in DOMAIN tasks'[v] => tasks'[v][i] = tasks[v][i + 1]
      BY Zenon, <2>2, <3>a, TailIs
    <3> QED
      BY Zenon, <3>1, <3>2 DEF InQueue
  <2>4. ASSUME NEW w \in Workers, w # v, NEW i \in Nat, NEW t \in TaskIds
        PROVE  InQueue(w, i, t)' <=> InQueue(w, i, t)
    BY Zenon, <2>1, <2>4 DEF InQueue
  <2> QED
    BY <2>3, <2>4
<1>8. \A t \in TaskIds : ~InQueue(v, 0, t)
  BY <1>4 DEF InQueue
<1>9. Open \subseteq TaskIds
  BY Zenon DEF Accounts, Counted, Open
<1>10. main' = main /\ UNCHANGED <<handed, ran>>
  BY Zenon, <1>1
<1>a. Popped(v)
  BY Zenon, <1>3, <1>6, <1>7, <1>8 DEF Popped
<1>11. Held'
  BY Zenon, <1>9, <1>10, <1>a, HeldPop DEF Accounts
<1>12. Counted'
  BY <1>1 DEF Accounts, Counted, Open, Handed
<1> QED
  BY Zenon, <1>11, <1>12 DEF Accounts

\* A task has run.
LEMMA AccountsDone ==
  ASSUME Places, Frames, ExecTypes, Accounts, NEW v \in Workers, TaskDone(v)
  PROVE  Accounts'
<1> DEFINE t0 == worker[v].task
<1>1. /\ worker[v].at = "run" /\ ran' = ran \cup {t0} /\ worker' = [worker EXCEPT ![v] = Idle]
      /\ gauges' = [gauges EXCEPT !.tasks = gauges.tasks - 1]
      /\ UNCHANGED <<loop, tasks, handed, main>>
  BY Zenon DEF TaskDone
<1>2. worker \in [Workers -> {Idle, Exited} \cup [at : {"run"}, task : TaskIds]]
  BY Zenon DEF ExecTypes
<1>3. t0 \in TaskIds /\ InWorker(v, t0)
  <2>1. worker[v] \in {Idle, Exited} \cup [at : {"run"}, task : TaskIds]
    BY Zenon, <1>2
  <2>2. t0 \in TaskIds
    BY <1>1, <2>1 DEF Idle, Exited
  <2> QED
    BY Zenon, <1>1, <2>2 DEF InWorker
<1>4. \A w \in Workers, t \in TaskIds : InWorker(w, t)' <=> (InWorker(w, t) /\ w # v)
  <2>1. \A w \in Workers : w # v => worker'[w] = worker[w]
    BY Zenon, <1>1, <1>2
  <2>2. worker'[v] = Idle
    BY Zenon, <1>1, <1>2
  <2>3. worker'[v].at = "idle"
    BY <2>2 DEF Idle
  <2> QED
    BY Zenon, <2>1, <2>3 DEF InWorker
<1> HIDE DEF t0
<1>5. Open \subseteq TaskIds
  BY Zenon DEF Accounts, Counted, Open
<1>6. Held'
  <2>1. UNCHANGED <<loop, tasks, handed>> /\ main' = main /\ ran' = ran \cup {t0}
    BY Zenon, <1>1
  <2> QED
    BY Zenon, <1>3, <1>4, <1>5, <2>1, HeldDone DEF Accounts
<1>7. t0 \in Open
  <2>1. Placed(t0)
    BY Zenon, <1>3 DEF Placed
  <2> QED
    BY Zenon, <1>3, <2>1 DEF Accounts, Held
<1>8. Open' = Open \ {t0} /\ Handed' = Handed
  BY <1>1 DEF Open, Handed
<1>9. ran' \subseteq Handed' /\ Handed' \subseteq TaskIds
  BY Zenon, <1>1, <1>7, <1>8 DEF Accounts, Counted, Open
<1>10. IsFiniteSet(Open') /\ Cardinality(Open') = Cardinality(Open) - 1
  <2>1. IsFiniteSet(Open)
    BY Zenon DEF Accounts, Counted
  <2> QED
    BY Zenon, <1>7, <1>8, <2>1, FS_RemoveElement
<1>11. gauges'.tasks = gauges.tasks - 1 /\ gauges' \in [tasks : Int, conns : Int]
  <2>1. gauges \in [tasks : Int, conns : Int]
    BY Zenon DEF Accounts, Counted
  <2> QED
    BY <1>1, <2>1
<1>12. Counted'
  <2>1. gauges.tasks = Cardinality(Open)
    BY Zenon DEF Accounts, Counted
  <2> QED
    BY Zenon, <1>9, <1>10, <1>11, <2>1 DEF Counted
<1> QED
  BY Zenon, <1>6, <1>12 DEF Accounts

\* clear() and push() of executor_thread_pool::stop.
LEMMA AccountsStop ==
  ASSUME Control, ExecTypes, Accounts, StopExecutor
  PROVE  Accounts'
<1> DEFINE v == main.i \div 2
<1>1. /\ main.at = "stop_executor" /\ UNCHANGED <<loop, worker, handed, ran, gauges>>
      /\ main'.at \in {"stop_executor", "join_executor"}
  <2>1. /\ main.at = "stop_executor" /\ UNCHANGED <<loop, worker, handed, ran, gauges>>
        /\ (main' = [at |-> "join_executor", i |-> 0]) \/ main' = [main EXCEPT !.i = @ + 1]
    BY Zenon DEF StopExecutor, Go
  <2>2. main \in [at : Early \cup Serving \cup Late, i : Nat]
    BY Zenon DEF Control, Kinds
  <2> QED
    BY <2>1, <2>2
<1>2. \/ UNCHANGED tasks
      \/ tasks' = [tasks EXCEPT ![v] = <<>>]
      \/ tasks' = [tasks EXCEPT ![v] = Append(tasks[v], StopTask)]
  BY Zenon DEF StopExecutor
<1> HIDE DEF v
<1>3. tasks \in [Workers -> Seq(Tasks)]
  BY Zenon DEF ExecTypes, Tasks
<1>4. ASSUME NEW w \in Workers, NEW i \in Nat, NEW t \in TaskIds, InQueue(w, i, t)'
      PROVE  InQueue(w, i, t)
  <2>1. CASE UNCHANGED tasks
    BY Zenon, <1>4, <2>1 DEF InQueue
  <2>2. CASE tasks' = [tasks EXCEPT ![v] = <<>>]
    <3>1. w # v => tasks'[w] = tasks[w]
      BY Zenon, <1>3, <2>2
    <3>2. w = v => tasks'[w] = <<>>
      BY Zenon, <1>3, <2>2
    <3>3. w # v
      BY <1>4, <3>2 DEF InQueue
    <3> QED
      BY Zenon, <1>4, <3>1, <3>3 DEF InQueue
  <2>3. CASE tasks' = [tasks EXCEPT ![v] = Append(tasks[v], StopTask)]
    <3>1. w # v => tasks'[w] = tasks[w]
      BY Zenon, <1>3, <2>3
    <3>2. CASE w = v
      <4>1. tasks'[w] = Append(tasks[w], StopTask) /\ tasks[w] \in Seq(Tasks)
        BY Zenon, <1>3, <2>3, <3>2
      <4>2. \/ i \in DOMAIN tasks[w] /\ tasks'[w][i] = tasks[w][i]
            \/ i = Len(tasks[w]) + 1 /\ tasks'[w][i] = StopTask
        <5> DEFINE q == tasks[w]
        <5>1. i \in DOMAIN Append(q, StopTask) /\ q \in Seq(Tasks) /\ StopTask \in Tasks
          BY Zenon, <1>4, <4>1 DEF InQueue, Tasks
        <5> HIDE DEF q
        <5>2. \/ i \in DOMAIN q /\ Append(q, StopTask)[i] = q[i]
              \/ i = Len(q) + 1 /\ Append(q, StopTask)[i] = StopTask
          BY Zenon, <5>1, AppendIs
        <5> QED
          BY Zenon, <4>1, <5>2 DEF q
      <4>3. StopTask.stop
        BY Zenon DEF StopTask
      <4> QED
        BY Zenon, <1>4, <4>2, <4>3 DEF InQueue
    <3> QED
      BY Zenon, <1>4, <3>1, <3>2 DEF InQueue
  <2> QED
    BY Zenon, <1>2, <2>1, <2>2, <2>3
<1>5. Open \subseteq TaskIds
  BY Zenon DEF Accounts, Counted, Open
<1>6. main'.at \notin Counting
  BY Zenon, <1>1 DEF Counting
<1>7. Held'
  <2>1. UNCHANGED <<loop, worker, handed, ran>>
    BY Zenon, <1>1
  <2> QED
    BY Zenon, <1>4, <1>5, <1>6, <2>1, HeldStop DEF Accounts
<1>8. Counted'
  BY <1>1 DEF Accounts, Counted, Open, Handed
<1> QED
  BY Zenon, <1>7, <1>8 DEF Accounts

\* A step of a loop, from and to somewhere else than the push of a task.
LEMMA InLoopSame ==
  ASSUME NEW l \in Loops, NEW r, DOMAIN loop = Loops, loop' = [loop EXCEPT ![l] = r],
         loop[l].at # "push", r.at # "push"
  PROVE  \A k \in Loops, t \in TaskIds : InLoop(k, t)' <=> InLoop(k, t)
<1>1. \A k \in Loops : k # l => loop'[k] = loop[k]
  BY Zenon
<1>2. loop'[l] = r
  BY Zenon
<1> QED
  BY Zenon, <1>1, <1>2 DEF InLoop

\* The tasks of a state, by connection and number.
LEMMA HandedIs ==
  ASSUME handed \in [Conns -> Seq(Nat)]
  PROVE  /\ Handed \subseteq TaskIds
         /\ \A c \in Conns : \A k : <<c, k>> \in Handed <=> k \in DOMAIN handed[c]
<1>1. \A c \in Conns : DOMAIN handed[c] \subseteq Nat
  OBVIOUS
<1> QED
  BY <1>1 DEF Handed, TaskIds

\* Another message is handed over.
LEMMA HandedMore ==
  ASSUME handed \in [Conns -> Seq(Nat)], NEW c \in Conns, NEW i \in Nat,
         handed' = [handed EXCEPT ![c] = Append(handed[c], i)]
  PROVE  /\ Len(handed'[c]) = Len(handed[c]) + 1
         /\ <<c, Len(handed[c]) + 1>> \in TaskIds
         /\ <<c, Len(handed[c]) + 1>> \notin Handed
         /\ Handed' = Handed \cup {<<c, Len(handed[c]) + 1>>}
<1> DEFINE n == Len(handed[c]) + 1
<1>1. handed'[c] = Append(handed[c], i) /\ \A d \in Conns : d # c => handed'[d] = handed[d]
  BY Zenon
<1>2. handed[c] \in Seq(Nat)
  BY Zenon
<1>3. /\ n \in Nat /\ DOMAIN handed'[c] = DOMAIN handed[c] \cup {n} /\ n \notin DOMAIN handed[c]
      /\ Len(handed'[c]) = n
  BY <1>1, <1>2
<1> HIDE DEF n
<1>4. <<c, n>> \in TaskIds
  BY Zenon, <1>3 DEF TaskIds
<1>5. <<c, n>> \notin Handed
  BY Zenon, <1>3, HandedIs
<1>6. \A t : t \in Handed <=> \E d \in Conns : \E k \in DOMAIN handed[d] : t = <<d, k>>
  BY DEF Handed
<1>7. \A t : t \in Handed' <=> \E d \in Conns : \E k \in DOMAIN handed'[d] : t = <<d, k>>
  BY DEF Handed
<1>8. ASSUME NEW t PROVE t \in Handed' <=> t \in Handed \cup {<<c, n>>}
  <2>1. ASSUME NEW d \in Conns, NEW k \in DOMAIN handed'[d], t = <<d, k>> PROVE t \in Handed \cup {<<c, n>>}
    <3>1. CASE d = c
      BY Zenon, <1>3, <1>6, <2>1, <3>1
    <3>2. CASE d # c
      BY Zenon, <1>1, <1>6, <2>1, <3>2
    <3> QED
      BY Zenon, <3>1, <3>2
  <2>2. ASSUME NEW d \in Conns, NEW k \in DOMAIN handed[d], t = <<d, k>> PROVE t \in Handed'
    <3>1. k \in DOMAIN handed'[d]
      BY Zenon, <1>1, <1>3
    <3> QED
      BY Zenon, <1>7, <2>2, <3>1
  <2>3. <<c, n>> \in Handed'
    BY Zenon, <1>3, <1>7
  <2>4. CASE t \in Handed'
    <3>1. PICK d \in Conns : \E k \in DOMAIN handed'[d] : t = <<d, k>>
      BY Zenon, <1>7, <2>4
    <3> QED
      BY Zenon, <2>1, <2>4, <3>1
  <2>5. CASE t \in Handed
    <3>1. PICK d \in Conns : \E k \in DOMAIN handed[d] : t = <<d, k>>
      BY Zenon, <1>6, <2>5
    <3> QED
      BY Zenon, <2>2, <2>5, <3>1
  <2> QED
    BY Zenon, <2>3, <2>4, <2>5
<1> QED
  BY Zenon, <1>3, <1>4, <1>5, <1>8 DEF n

\* read_message: if it gives a message to the executor, that is a new task.
LEMMA AccountsMessage ==
  ASSUME Places, Frames, ExecTypes, Accounts, NEW l \in Loops, ReadMessage(l)
  PROVE  Accounts'
<1> DEFINE x == conn_maps[l][loop[l].fd]
           c == x.c
           i == HeaderAt(peer[c].msgs, x.pos - HeaderLen)
           t0 == <<c, Len(handed[c]) + 1>>
           th == AfterMessage(connections[l][loop[l].fd].size)
           r == [at |-> "push", w |-> next_thread, fd |-> loop[l].fd, wr |-> loop[l].wr,
                 task |-> <<c, Len(handed'[c])>>, then |-> th]
<1>1. loop[l].at = "parse"
  BY Zenon DEF ReadMessage
<1>2. loop \in [Loops -> {Idle, Exited} \cup Callbacks \cup AddTaskCalls] /\ handed \in [Conns -> Seq(Nat)]
  BY Zenon DEF Frames, PoolTypes
<1>3. UNCHANGED <<worker, tasks, ran, main>>
  BY Zenon DEF ReadMessage, exec_vars
<1>4. gauges \in [tasks : Int, conns : Int] /\ gauges.tasks = Cardinality(Open) /\ IsFiniteSet(Open)
      /\ ran \subseteq Handed /\ Handed \subseteq TaskIds
  BY Zenon DEF Accounts, Counted
<1>5. \/ At(l, "write") /\ UNCHANGED <<gauges, handed>>
      \/ /\ handed' = [handed EXCEPT ![c] = Append(handed[c], i)]
         /\ gauges' = [gauges EXCEPT !.tasks = gauges.tasks + 1]
         /\ loop' = [loop EXCEPT ![l] = r]
  BY Zenon DEF ReadMessage, Conn, Riemann
<1>6. CASE At(l, "write") /\ UNCHANGED <<gauges, handed>>
  <2> DEFINE q == [loop[l] EXCEPT !.at = "write"]
  <2>1. loop' = [loop EXCEPT ![l] = q]
    BY Zenon, <1>6 DEF At
  <2>2. q.at # "push" /\ loop[l].at # "push"
    <3>1. loop[l] \in Callbacks
      BY Zenon, <1>1, Here
    <3>2. q.at = "write"
      BY Zenon, <3>1 DEF Callbacks
    <3> QED
      BY Zenon, <1>1, <3>2
  <2>3. DOMAIN loop = Loops
    BY Zenon, <1>2
  <2> HIDE DEF q
  <2>4. \A k \in Loops, t \in TaskIds : InLoop(k, t)' <=> InLoop(k, t)
    BY Zenon, <2>1, <2>2, <2>3, InLoopSame
  <2>5. UNCHANGED <<worker, tasks, handed, ran>> /\ main' = main /\ gauges' = gauges
    BY Zenon, <1>3, <1>6
  <2> QED
    BY Zenon, <1>4, <2>4, <2>5, AccountsSame
<1>7. CASE /\ handed' = [handed EXCEPT ![c] = Append(handed[c], i)]
           /\ gauges' = [gauges EXCEPT !.tasks = gauges.tasks + 1]
           /\ loop' = [loop EXCEPT ![l] = r]
  <2>1. c \in Conns /\ i \in Nat
    <3>1. loop[l].fd \in DOMAIN fds[l]
      BY Zenon, <1>1, Here
    <3>2. c \in Conns /\ peer[c].msgs \in Seq(Nat)
      BY <3>1, Watched DEF WatchedAt
    <3>3. i \in Nat
      <4>1. i = 0 \/ i \in DOMAIN peer[c].msgs
        BY Zenon, <3>2, HeaderIn
      <4> HIDE DEF i, c
      <4> QED
        BY <3>2, <4>1
    <3> QED
      BY Zenon, <3>2, <3>3
  <2> HIDE DEF i, th, x, c
  <2>2. /\ Len(handed'[c]) = Len(handed[c]) + 1 /\ t0 \in TaskIds /\ t0 \notin Handed
        /\ Handed' = Handed \cup {t0}
    BY Zenon, <1>2, <1>7, <2>1, HandedMore
  <2>3. r.at = "push" /\ r.task = t0
    BY Zenon, <2>2
  <2> HIDE DEF r, t0
  <2>4. \A k \in Loops, t \in TaskIds : InLoop(k, t)' <=> (InLoop(k, t) \/ (k = l /\ t = t0))
    <3>1. \A k \in Loops : k # l => loop'[k] = loop[k]
      BY Zenon, <1>2, <1>7
    <3>2. loop'[l] = r
      BY Zenon, <1>2, <1>7
    <3> QED
      BY Zenon, <1>1, <2>3, <3>1, <3>2 DEF InLoop
  <2>5. Open' = Open \cup {t0} /\ t0 \notin Open /\ ran' \subseteq Handed' /\ Handed' \subseteq TaskIds
    BY Zenon, <1>3, <1>4, <2>2 DEF Open
  <2>6. Open \subseteq TaskIds /\ main' = main /\ UNCHANGED <<worker, tasks, ran>>
    BY Zenon, <1>3, <1>4 DEF Open
  <2>7. Held'
    BY Zenon, <2>2, <2>4, <2>5, <2>6, HeldNew DEF Accounts
  <2>8. IsFiniteSet(Open') /\ Cardinality(Open') = Cardinality(Open) + 1
    BY Zenon, <1>4, <2>5, FS_AddElement
  <2>9. gauges'.tasks = gauges.tasks + 1 /\ gauges' \in [tasks : Int, conns : Int]
    BY <1>4, <1>7
  <2>10. Counted'
    BY Zenon, <1>4, <2>5, <2>8, <2>9 DEF Counted
  <2> QED
    BY Zenon, <2>7, <2>10 DEF Accounts
<1> QED
  BY Zenon, <1>5, <1>6, <1>7

\* A step of a loop that has no task in hand, and gets none.
LEMMA AccountsMove ==
  ASSUME Places, Accounts, NEW l \in Loops, NEW r,
         UNCHANGED <<main, handed, worker, tasks, ran>>,
         loop' = loop \/ (loop' = [loop EXCEPT ![l] = r] /\ loop[l].at # "push" /\ r.at # "push"),
         NEW n \in Int, gauges' = gauges \/ gauges' = [gauges EXCEPT !.conns = n]
  PROVE  Accounts'
<1>1. \A k \in Loops, t \in TaskIds : InLoop(k, t)' <=> InLoop(k, t)
  <2>1. CASE loop' = loop
    BY Zenon, <2>1 DEF InLoop
  <2>2. CASE loop' = [loop EXCEPT ![l] = r] /\ loop[l].at # "push" /\ r.at # "push"
    BY Zenon, <2>2, InLoopSame DEF Places, MapKinds
  <2> QED
    BY Zenon, <2>1, <2>2
<1>2. gauges \in [tasks : Int, conns : Int]
  BY Zenon DEF Accounts, Counted
<1>3. gauges' \in [tasks : Int, conns : Int] /\ gauges'.tasks = gauges.tasks
  BY Zenon, <1>2
<1>4. UNCHANGED <<worker, tasks, handed, ran>> /\ main' = main
  BY Zenon
<1> QED
  BY Zenon, <1>1, <1>3, <1>4, AccountsSame

\* The steps of a loop that have to do with no task.
LEMMA AccountsLoop ==
  ASSUME Places, Frames, ExecTypes, Accounts, NEW l \in Loops,
         \/ AsyncCallback(l) \/ ReadHeader(l) \/ AdvanceRead(l) \/ AdvanceStore(l) \/ Finish(l)
         \/ \E fd \in Fds, rd, wr \in BOOLEAN : SocketCallback(l, fd, rd, wr)
  PROVE  Accounts'
<1>1. gauges \in [tasks : Int, conns : Int] /\ gauges.conns \in Int
  <2>1. gauges \in [tasks : Int, conns : Int]
    BY Zenon DEF Accounts, Counted
  <2> QED
    BY Zenon, <2>1
<1>2. UNCHANGED <<main, handed, worker, tasks, ran>>
  BY Zenon DEF AsyncCallback, ReadHeader, AdvanceRead, AdvanceStore, Finish, SocketCallback, exec_vars
<1>a. Idle.at # "push" /\ Exited.at # "push"
  BY Zenon DEF Idle, Exited
<1>b. ASSUME NEW r, loop' = [loop EXCEPT ![l] = r], loop[l].at # "push", r.at # "push", gauges' = gauges
      PROVE  Accounts'
  BY Zenon, <1>1, <1>2, <1>b, AccountsMove
<1>3. CASE AsyncCallback(l)
  <2>1. CASE loop' = [loop EXCEPT ![l] = Exited] /\ gauges' = gauges
    BY Zenon, <1>3, <2>1, <1>a, <1>b DEF AsyncCallback
  <2>2. CASE loop' = loop /\ gauges' = gauges
    BY Zenon, <1>1, <1>2, <2>2, AccountsMove
  <2>3. CASE loop' = loop /\ gauges' = [gauges EXCEPT !.conns = gauges.conns + Len(new_fds[l])]
    <3> DEFINE n == gauges.conns + Len(new_fds[l])
    <3>1. n \in Int
      <4>1. new_fds[l] \in Seq(Fds)
        BY Zenon DEF Places, MapKinds
      <4> QED
        BY <1>1, <4>1
    <3> HIDE DEF n
    <3>2. gauges' = [gauges EXCEPT !.conns = n]
      BY Zenon, <2>3 DEF n
    <3> QED
      BY Zenon, <1>2, <2>3, <3>1, <3>2, AccountsMove
  <2> QED
    BY Zenon, <1>3, <2>1, <2>2, <2>3 DEF AsyncCallback
<1>4. CASE ReadHeader(l)
  <2>1. CASE loop' = loop
    BY Zenon, <1>1, <1>2, <1>4, <2>1, AccountsMove DEF ReadHeader
  <2>2. CASE At(l, "write")
    <3> DEFINE q == [loop[l] EXCEPT !.at = "write"]
    <3>1. loop[l].at = "parse" /\ gauges' = gauges
      BY Zenon, <1>4 DEF ReadHeader
    <3>2. loop[l] \in Callbacks
      BY Zenon, <3>1, Here
    <3>3. q.at = "write"
      BY Zenon, <3>2 DEF Callbacks
    <3>4. loop' = [loop EXCEPT ![l] = q]
      BY Zenon, <2>2 DEF At
    <3> HIDE DEF q
    <3>5. loop[l].at # "push" /\ q.at # "push"
      BY Zenon, <3>1, <3>3
    <3> QED
      BY Zenon, <1>b, <3>1, <3>4, <3>5
  <2> QED
    BY Zenon, <1>4, <2>1, <2>2 DEF ReadHeader
<1>5. CASE AdvanceRead(l)
  <2> DEFINE q == [loop[l] EXCEPT !.at = "store", !.w = next_thread]
  <2>1. loop[l].at = "advance" /\ gauges' = gauges /\ loop' = [loop EXCEPT ![l] = q]
    BY Zenon, <1>5 DEF AdvanceRead
  <2>2. loop[l] \in AddTaskCalls
    BY Zenon, <2>1, Here
  <2>3. q.at = "store"
    BY Zenon, <2>2 DEF AddTaskCalls
  <2> HIDE DEF q
  <2>4. loop[l].at # "push" /\ q.at # "push"
    BY Zenon, <2>1, <2>3
  <2> QED
    BY Zenon, <1>b, <2>1, <2>4
<1>6. CASE AdvanceStore(l)
  <2> DEFINE q == [at |-> loop[l].then, fd |-> loop[l].fd, wr |-> loop[l].wr]
  <2>1. loop[l].at = "store" /\ gauges' = gauges /\ loop' = [loop EXCEPT ![l] = q]
    BY Zenon, <1>6 DEF AdvanceStore
  <2>2. loop[l] \in AddTaskCalls
    BY Zenon, <2>1, Here
  <2>3. q.at \in {"parse", "write"}
    BY Zenon, <2>2 DEF AddTaskCalls
  <2> HIDE DEF q
  <2>4. loop[l].at # "push" /\ q.at # "push"
    BY Zenon, <2>1, <2>3
  <2> QED
    BY Zenon, <1>b, <2>1, <2>4
<1>7. CASE Finish(l)
  <2>1. loop[l].at # "push" /\ loop' = [loop EXCEPT ![l] = Idle]
    BY Zenon, <1>7 DEF Finish
  <2>2. gauges' = gauges \/ gauges' = [gauges EXCEPT !.conns = gauges.conns - 1]
    BY Zenon, <1>7 DEF Finish, Closed
  <2>3. gauges.conns - 1 \in Int
    BY <1>1
  <2> QED
    BY Zenon, <1>2, <1>a, <2>1, <2>2, <2>3, AccountsMove
<1>8. ASSUME NEW fd \in Fds, NEW rd \in BOOLEAN, NEW wr \in BOOLEAN, SocketCallback(l, fd, rd, wr)
      PROVE  Accounts'
  <2>1. loop[l] = Idle /\ gauges' = gauges
    BY Zenon, <1>8 DEF SocketCallback
  <2>2. PICK y : loop' = [loop EXCEPT ![l] = [at |-> IF y.got > conn_maps[l][fd].got THEN "parse" ELSE "write",
                                              fd |-> fd, wr |-> wr]]
    BY Zenon, <1>8 DEF SocketCallback
  <2>3. [at |-> IF y.got > conn_maps[l][fd].got THEN "parse" ELSE "write", fd |-> fd, wr |-> wr].at # "push"
    BY Zenon
  <2> QED
    BY Zenon, <1>a, <1>b, <2>1, <2>2, <2>3
<1> QED
  BY Zenon, <1>3, <1>4, <1>5, <1>6, <1>7, <1>8

\* Every step keeps the accounts of the tasks.
LEMMA AccountsStep ==
  ASSUME Control, Places, Frames, ExecTypes, Accounts, [Next]_vars
  PROVE  Accounts'
<1>1. gauges \in [tasks : Int, conns : Int]
  BY Zenon DEF Accounts, Counted
<1>2. ASSUME UNCHANGED <<loop, gauges, handed, worker, tasks, ran>>,
             main'.at \in Counting => main.at \in Counting
      PROVE  Accounts'
  <2>1. \A l \in Loops, t \in TaskIds : InLoop(l, t)' <=> InLoop(l, t)
    BY Zenon, <1>2 DEF InLoop
  <2>2. UNCHANGED <<worker, tasks, handed, ran>> /\ gauges' = gauges
    BY Zenon, <1>2
  <2> QED
    BY Zenon, <1>1, <1>2, <2>1, <2>2, AccountsSame
<1>3. CASE MainStep \/ MainLoopEnds
  <2>1. CASE StopExecutor
    BY Zenon, <2>1, AccountsStop
  <2>2. CASE ~StopExecutor
    <3>1. UNCHANGED <<loop, gauges, handed, worker, tasks, ran>>
      BY Zenon, <1>3, <2>2 DEF MainStep, MainLoopEnds, AssignCore, ReloadRules, StopScheduler, JoinExecutor,
                       StopStreams, StopTcp, JoinTcp, StopUdp, ResetCore, exec_vars
    <3>2. main'.at \in Counting => main.at \in Counting
      BY <1>3, <2>2 DEF MainStep, MainLoopEnds, AssignCore, ReloadRules, StopScheduler, JoinExecutor,
                        StopStreams, StopTcp, JoinTcp, StopUdp, ResetCore, Go, Counting
    <3> QED
      BY Zenon, <1>2, <3>1, <3>2
  <2> QED
    BY Zenon, <2>1, <2>2
<1>4. ASSUME NEW c \in Conns, PeerClose(c) \/ \E fd \in Fds : Accept(c, fd) PROVE Accounts'
  BY Zenon, <1>2, <1>4 DEF PeerClose, Accept, exec_vars
<1>5. ASSUME NEW l \in Loops,
             LoopStep(l) \/ \E fd \in Fds, rd, wr \in BOOLEAN : SocketCallback(l, fd, rd, wr)
      PROVE  Accounts'
  BY Zenon, <1>5, AccountsLoop, AccountsMessage, AccountsPush DEF LoopStep
<1>6. ASSUME NEW w \in Workers, Pop(w) \/ TaskDone(w) PROVE Accounts'
  BY Zenon, <1>6, AccountsPop, AccountsDone
<1>7. CASE (\E o \in Others : StartPush(o) \/ EndPush(o)) \/ Detach \/ ExpirerEnds
  <2>1. main' = main /\ UNCHANGED <<loop, gauges, handed, worker, tasks, ran>>
    BY Zenon, <1>7 DEF StartPush, EndPush, Detach, ExpirerEnds, SetOther, exec_vars
  <2> QED
    BY Zenon, <1>2, <2>1
<1>8. CASE UNCHANGED vars
  <2>1. main' = main /\ UNCHANGED <<loop, gauges, handed, worker, tasks, ran>>
    BY Zenon, <1>8 DEF vars, exec_vars
  <2> QED
    BY Zenon, <1>2, <2>1
<1> QED
  BY Zenon, <1>3, <1>4, <1>5, <1>6, <1>7, <1>8 DEF Next

\* Before the first step there are no tasks.
LEMMA AccountsInit == Init => Accounts
<1> SUFFICES ASSUME Init PROVE Accounts
  BY Zenon
<1>1. \A c \in Conns : DOMAIN handed[c] = {}
  BY DEF Init
<1>2. Handed = {} /\ ran = {} /\ Open = {}
  <2>1. ran = {}
    BY Zenon DEF Init
  <2>2. Handed = {}
    BY Zenon, <1>1 DEF Handed
  <2> QED
    BY Zenon, <2>1, <2>2 DEF Open
<1>3. Counted
  <2>1. gauges = [tasks |-> 0, conns |-> 0]
    BY Zenon DEF Init
  <2>2. gauges \in [tasks : Int, conns : Int] /\ gauges.tasks = 0
    BY <2>1
  <2> QED
    BY Zenon, <1>2, <2>2, FS_EmptySet DEF Counted
<1>4. \A l \in Loops, t \in TaskIds : ~InLoop(l, t)
  BY Zenon DEF Init, InLoop, Idle
<1>5. \A w \in Workers, t \in TaskIds : ~InWorker(w, t)
  BY Zenon DEF Init, InWorker, Idle
<1>6. \A w \in Workers, i \in Nat, t \in TaskIds : ~InQueue(w, i, t)
  BY DEF Init, InQueue
<1>7. \A t \in TaskIds : ~Placed(t) /\ PlacedOnce(t)
  BY Zenon, <1>4, <1>5, <1>6 DEF Placed, PlacedOnce
<1>8. Held
  BY Zenon, <1>2, <1>7 DEF Held
<1> QED
  BY Zenon, <1>3, <1>8 DEF Accounts

\* The holders of tasks, one by one.
LEMMA HolderIs ==
  ASSUME Places, Frames, ExecTypes, NEW h \in Holders
  PROVE  /\ TaskOf(h) \in TaskIds
         /\ \/ \E l \in Loops : h = <<"loop", l, 0>> /\ InLoop(l, TaskOf(h))
            \/ \E w \in Workers : h = <<"worker", w, 0>> /\ InWorker(w, TaskOf(h))
            \/ \E w \in Workers, i \in Nat : h = <<"queue", w, i>> /\ InQueue(w, i, TaskOf(h))
<1>1. CASE \E l \in Adding : h = <<"loop", l, 0>>
  <2>1. PICK l \in Loops : loop[l].at = "push" /\ h = <<"loop", l, 0>>
    BY Zenon, <1>1 DEF Adding
  <2>2. TaskOf(h) = loop[l].task
    BY Zenon, <2>1 DEF TaskOf
  <2>3. loop[l] \in AddTaskCalls
    BY Zenon, <2>1, Here
  <2>4. loop[l].task \in TaskIds
    BY Zenon, <2>3 DEF AddTaskCalls
  <2> QED
    BY Zenon, <2>1, <2>2, <2>4 DEF InLoop
<1>2. CASE \E w \in Running : h = <<"worker", w, 0>>
  <2>1. PICK w \in Workers : worker[w].at = "run" /\ h = <<"worker", w, 0>>
    BY Zenon, <1>2 DEF Running
  <2>2. TaskOf(h) = worker[w].task
    BY Zenon, <2>1 DEF TaskOf
  <2>3. worker[w] \in [at : {"run"}, task : TaskIds]
    BY <2>1 DEF ExecTypes, Idle, Exited
  <2>4. worker[w].task \in TaskIds
    BY Zenon, <2>3
  <2> QED
    BY Zenon, <2>1, <2>2, <2>4 DEF InWorker
<1>3. CASE \E w \in Workers : \E i \in DOMAIN tasks[w] : ~tasks[w][i].stop /\ h = <<"queue", w, i>>
  <2>0. PICK w \in Workers : \E i \in DOMAIN tasks[w] : ~tasks[w][i].stop /\ h = <<"queue", w, i>>
    BY Zenon, <1>3
  <2>1. PICK i \in DOMAIN tasks[w] : ~tasks[w][i].stop /\ h = <<"queue", w, i>>
    BY Zenon, <2>0
  <2>2. TaskOf(h) = tasks[w][i].id
    BY Zenon, <2>1 DEF TaskOf
  <2>3. tasks[w] \in Seq(Tasks)
    BY Zenon DEF ExecTypes, Tasks
  <2>4. i \in Nat /\ tasks[w][i] \in Tasks
    BY <2>3
  <2>5. tasks[w][i].id \in TaskIds
    <3>1. StopTask.stop
      BY Zenon DEF StopTask
    <3>2. tasks[w][i] \in [stop : {FALSE}, id : TaskIds]
      BY Zenon, <2>1, <2>4, <3>1 DEF Tasks
    <3> QED
      BY Zenon, <3>2
  <2> QED
    BY Zenon, <2>1, <2>2, <2>4, <2>5 DEF InQueue
<1> QED
  BY Zenon, <1>1, <1>2, <1>3 DEF Holders

\* A task that is somewhere has a holder.
LEMMA PlacedHeld ==
  ASSUME Frames, ExecTypes, NEW t \in TaskIds, Placed(t)
  PROVE  \E h \in Holders : TaskOf(h) = t
<1>1. ASSUME NEW l \in Loops, InLoop(l, t) PROVE \E h \in Holders : TaskOf(h) = t
  <2>1. <<"loop", l, 0>> \in Holders
    BY Zenon, <1>1 DEF Holders, Adding, InLoop
  <2>2. TaskOf(<<"loop", l, 0>>) = t
    BY Zenon, <1>1 DEF TaskOf, InLoop
  <2> QED
    BY Zenon, <2>1, <2>2
<1>2. ASSUME NEW w \in Workers, InWorker(w, t) PROVE \E h \in Holders : TaskOf(h) = t
  <2>1. <<"worker", w, 0>> \in Holders
    BY Zenon, <1>2 DEF Holders, Running, InWorker
  <2>2. TaskOf(<<"worker", w, 0>>) = t
    BY Zenon, <1>2 DEF TaskOf, InWorker
  <2> QED
    BY Zenon, <2>1, <2>2
<1>3. ASSUME NEW w \in Workers, NEW i \in Nat, InQueue(w, i, t) PROVE \E h \in Holders : TaskOf(h) = t
  <2>1. <<"queue", w, i>> \in Holders
    <3>1. i \in {j \in DOMAIN tasks[w] : ~tasks[w][j].stop}
      BY Zenon, <1>3 DEF InQueue
    <3>2. <<"queue", w, i>> \in {<<"queue", w, k>> : k \in {j \in DOMAIN tasks[w] : ~tasks[w][j].stop}}
      BY Zenon, <3>1
    <3> QED
      BY Zenon, <3>2 DEF Holders
  <2>2. TaskOf(<<"queue", w, i>>) = t
    BY Zenon, <1>3 DEF TaskOf, InQueue
  <2> QED
    BY Zenon, <2>1, <2>2
<1> QED
  BY Zenon, <1>1, <1>2, <1>3 DEF Placed

\* The phases before stop_executor.
LEMMA CountingIs ==
  ASSUME main.at \in Early \cup Serving \cup Late, ~Reached("stop_executor")
  PROVE  main.at \in Counting
<1>1. DOMAIN Phases = 1..12
  BY DEF Phases
<1>2. ASSUME NEW n \in 1..12, \A m \in 1..12 : Phases[m] = Phases[n] => m = n
      PROVE  PhaseOf(Phases[n]) = n
  BY Zenon, <1>1, <1>2 DEF PhaseOf
<1>3. \A n, m \in 1..12 : Phases[m] = Phases[n] => m = n
  BY DEF Phases
<1>4. \A n \in 1..12 : PhaseOf(Phases[n]) = n
  BY Zenon, <1>2, <1>3
<1>5. PhaseOf("stop_executor") = 5 /\ PhaseOf("join_executor") = 6 /\ PhaseOf("stop_streams") = 7
  BY <1>4 DEF Phases
<1>6. /\ PhaseOf("stop_tcp") = 8 /\ PhaseOf("join_tcp") = 9 /\ PhaseOf("stop_udp") = 10
      /\ PhaseOf("reset") = 11 /\ PhaseOf("destroyed") = 12
  BY <1>4 DEF Phases
<1> QED
  BY <1>5, <1>6 DEF Reached, Early, Serving, Late, Counting

\* What the accounts say of the tasks.
LEMMA AccountsMean ==
  ASSUME Control, Places, Frames, ExecTypes, Accounts
  PROVE  TasksAccounted
<1>1. ASSUME NEW h \in Holders, NEW g \in Holders, TaskOf(h) = TaskOf(g) PROVE h = g
  <2> DEFINE t == TaskOf(h)
  <2>1. t \in TaskIds /\ PlacedOnce(t)
    BY Zenon, HolderIs DEF Accounts, Held
  <2>2. \/ \E l \in Loops : h = <<"loop", l, 0>> /\ InLoop(l, t)
        \/ \E w \in Workers : h = <<"worker", w, 0>> /\ InWorker(w, t)
        \/ \E w \in Workers, i \in Nat : h = <<"queue", w, i>> /\ InQueue(w, i, t)
    BY Zenon, HolderIs
  <2>3. \/ \E l \in Loops : g = <<"loop", l, 0>> /\ InLoop(l, t)
        \/ \E w \in Workers : g = <<"worker", w, 0>> /\ InWorker(w, t)
        \/ \E w \in Workers, i \in Nat : g = <<"queue", w, i>> /\ InQueue(w, i, t)
    BY Zenon, <1>1, HolderIs
  <2> HIDE DEF t
  <2>4. CASE \E l \in Loops : h = <<"loop", l, 0>> /\ InLoop(l, t)
    BY Zenon, <2>1, <2>3, <2>4 DEF PlacedOnce
  <2>5. CASE \E w \in Workers : h = <<"worker", w, 0>> /\ InWorker(w, t)
    BY Zenon, <2>1, <2>3, <2>5 DEF PlacedOnce
  <2>6. CASE \E w \in Workers, i \in Nat : h = <<"queue", w, i>> /\ InQueue(w, i, t)
    BY Zenon, <2>1, <2>3, <2>6 DEF PlacedOnce
  <2> QED
    BY Zenon, <2>2, <2>4, <2>5, <2>6
<1>2. ASSUME NEW h \in Holders PROVE TaskOf(h) \in Open
  <2>1. TaskOf(h) \in TaskIds /\ Placed(TaskOf(h))
    BY Zenon, HolderIs DEF Placed
  <2> QED
    BY Zenon, <2>1 DEF Accounts, Held
<1>3. ASSUME ~Reached("stop_executor"), NEW t \in Open PROVE \E h \in Holders : TaskOf(h) = t
  <2>1. main.at \in Early \cup Serving \cup Late
    <3>1. main \in [at : Early \cup Serving \cup Late, i : Nat]
      BY Zenon DEF Control, Kinds
    <3> QED
      BY Zenon, <3>1
  <2>2. main.at \in Counting /\ t \in TaskIds
    BY Zenon, <1>3, <2>1, CountingIs DEF Accounts, Counted, Open
  <2> QED
    BY Zenon, <2>2, PlacedHeld DEF Accounts, Held
<1>4. {TaskOf(h) : h \in Holders} \subseteq Open
  BY Zenon, <1>2
<1>5. ~Reached("stop_executor") => Open \subseteq {TaskOf(h) : h \in Holders}
  BY Zenon, <1>3
<1>6. ~Reached("stop_executor") => {TaskOf(h) : h \in Holders} = Open
  BY Zenon, <1>4, <1>5
<1> QED
  BY Zenon, <1>1, <1>4, <1>6 DEF TasksAccounted, Accounts, Counted, Open

\* No message that a client was sent an ack for is lost or run twice, for any
\* number of loops and workers, although add_task reads and writes next_thread_
\* without a lock, and until executor_thread_pool::stop clears the queues each
\* is in one of them or with one thread; the gauge counts those that have not
\* run; and when one runs its rules see g_core.
THEOREM TasksAreKept == Spec => []TasksSeeCore
<1> DEFINE Inv == Control /\ Places /\ Frames /\ ExecTypes /\ Accounts
<1>1. Init => Inv
  BY Zenon, ControlInit, PlacesInit, FramesInit, ExecInit, AccountsInit
<1>2. Inv /\ [Next]_vars => Inv'
  BY Zenon, ControlStep, PlacesStep, FramesStep, ExecStep, AccountsStep
<1>3. Inv => TasksSeeCore
  BY Zenon, ControlMeans, AccountsMean DEF TasksSeeCore
<1> HIDE DEF Inv
<1> QED
  BY <1>1, <1>2, <1>3, PTL DEF Spec

-----------------------------------------------------------------------------
(* Connections.                                                             *)

\* Loop l watches fd.
Watching == {lf \in Loops \X Fds : lf[2] \in DOMAIN fds[lf[1]]}

\* How far stop() is in the queues, and the flags of the stops.
Steps == /\ main.i \in 0..(2 * NW)
         /\ stop \in [pool : BOOLEAN, loops : SUBSET Loops, streams : BOOLEAN]

\* The gauge counts what is watched; no descriptor was handed over twice.
ConnsCounted ==
  /\ IsFiniteSet(Watching) /\ gauges.conns = Cardinality(Watching)
  /\ \A l \in Loops : \A i, j \in DOMAIN new_fds[l] : new_fds[l][i] = new_fds[l][j] => i = j

\* A sequence without duplicates has as many members as entries.
LEMMA SeqCard ==
  ASSUME NEW S, NEW q \in Seq(S), NEW l, \A i, j \in DOMAIN q : q[i] = q[j] => i = j
  PROVE  /\ IsFiniteSet({<<l, q[i]>> : i \in DOMAIN q})
         /\ Cardinality({<<l, q[i]>> : i \in DOMAIN q}) = Len(q)
<1> DEFINE D == 1..Len(q)
           T == {<<l, q[i]>> : i \in DOMAIN q}
           F == [i \in D |-> <<l, q[i]>>]
<1>1. Len(q) \in Nat /\ DOMAIN q = D
  OBVIOUS
<1>2. IsFiniteSet(D) /\ Cardinality(D) = Len(q)
  BY <1>1, FS_Interval
<1>3. F \in [D -> T]
  BY Zenon, <1>1
<1>4. F \in Injection(D, T)
  <2>1. ASSUME NEW a \in D, NEW b \in D, F[a] = F[b] PROVE a = b
    <3>1. <<l, q[a]>> = <<l, q[b]>>
      BY Zenon, <2>1
    <3> QED
      BY Zenon, <1>1, <3>1
  <2>2. DOMAIN F = D
    BY Zenon
  <2> QED
    BY Zenon, <1>3, <2>1, <2>2 DEF Injection, IsInjective
<1>5. F \in Surjection(D, T)
  <2>1. ASSUME NEW t \in T PROVE \E a \in D : F[a] = t
    BY Zenon, <1>1
  <2> QED
    BY Zenon, <1>3, <2>1 DEF Surjection
<1>6. ExistsBijection(D, T)
  BY Zenon, <1>4, <1>5 DEF ExistsBijection, Bijection
<1> HIDE DEF D, T, F
<1>7. IsFiniteSet(T) /\ Cardinality(T) = Cardinality(D)
  BY Zenon, <1>2, <1>6, FS_Bijection
<1> QED
  BY Zenon, <1>2, <1>7 DEF T

\* The loops watch the same descriptors as before.
LEMMA CountedSame ==
  ASSUME ConnsCounted, UNCHANGED new_fds, gauges'.conns = gauges.conns,
         \A l \in Loops : DOMAIN fds'[l] = DOMAIN fds[l]
  PROVE  ConnsCounted'
<1>1. Watching' = Watching
  BY Zenon DEF Watching
<1> QED
  BY Zenon, <1>1 DEF ConnsCounted

\* add_client hands over a descriptor that nothing else has.
LEMMA CountedAccept ==
  ASSUME Places, ConnsCounted, NEW c \in Conns, NEW fd \in Fds, Accept(c, fd)
  PROVE  ConnsCounted'
<1> DEFINE k == next_loop'
           q == new_fds[k]
<1>1. k \in Loops /\ new_fds \in [Loops -> Seq(Fds)]
  <2>1. next_loop' = (next_loop + 1) % NL /\ next_loop \in Nat
    BY DEF Accept, Places, MapKinds, Loops
  <2> QED
    BY <2>1, Sizes DEF Places, MapKinds, Loops
<1>2. new_fds' = [new_fds EXCEPT ![k] = Append(q, fd)] /\ owner[fd] = NoConn /\ UNCHANGED <<fds, gauges>>
  BY Zenon DEF Accept, Lowest
<1> HIDE DEF k
<1>3. \A i \in DOMAIN q : q[i] # fd
  BY Zenon, <1>1, <1>2 DEF Places, InOnePlace, Waiting
<1>4. Watching' = Watching
  BY Zenon, <1>2 DEF Watching
<1>5. ASSUME NEW l \in Loops, NEW i \in DOMAIN new_fds'[l], NEW j \in DOMAIN new_fds'[l],
             new_fds'[l][i] = new_fds'[l][j]
      PROVE  i = j
  <2>1. CASE l # k
    <3>1. new_fds'[l] = new_fds[l]
      BY Zenon, <1>1, <1>2, <2>1
    <3> QED
      BY Zenon, <1>5, <3>1 DEF ConnsCounted
  <2>2. CASE l = k
    <3>1. new_fds'[l] = Append(q, fd)
      BY Zenon, <1>1, <1>2, <2>2
    <3>2. q \in Seq(Fds) /\ \A m, n \in DOMAIN q : q[m] = q[n] => m = n
      BY Zenon, <1>1 DEF ConnsCounted
    <3>a. i \in DOMAIN Append(q, fd) /\ j \in DOMAIN Append(q, fd)
      BY Zenon, <3>1
    <3> HIDE DEF q
    <3>3. \/ i \in DOMAIN q /\ Append(q, fd)[i] = q[i]
          \/ i = Len(q) + 1 /\ Append(q, fd)[i] = fd
      BY Zenon, <3>a, <3>2, AppendIs
    <3>4. \/ j \in DOMAIN q /\ Append(q, fd)[j] = q[j]
          \/ j = Len(q) + 1 /\ Append(q, fd)[j] = fd
      BY Zenon, <3>a, <3>2, AppendIs
    <3> QED
      BY Zenon, <1>3, <1>5, <3>1, <3>2, <3>3, <3>4
  <2> QED
    BY Zenon, <2>1, <2>2
<1> QED
  BY Zenon, <1>2, <1>4, <1>5 DEF ConnsCounted

\* add_fds takes over the descriptors that were handed over.
LEMMA CountedAsync ==
  ASSUME Places, Frames, Accounts, ConnsCounted, NEW l \in Loops, AsyncCallback(l)
  PROVE  ConnsCounted'
<1>1. CASE UNCHANGED <<new_fds, fds, gauges>>
  BY Zenon, <1>1, CountedSame
<1>2. CASE /\ new_fds' = [new_fds EXCEPT ![l] = <<>>]
           /\ fds' = [fds EXCEPT ![l] = Insert(fds[l], [fd \in Waiting(l) |-> "read"])]
           /\ gauges' = [gauges EXCEPT !.conns = gauges.conns + Len(new_fds[l])]
  <2> DEFINE q == new_fds[l]
             N == {<<l, q[i]>> : i \in DOMAIN q}
  <2>1. q \in Seq(Fds) /\ \A i, j \in DOMAIN q : q[i] = q[j] => i = j
    BY Zenon DEF Places, MapKinds, ConnsCounted
  <2>2. IsFiniteSet(N) /\ Cardinality(N) = Len(q)
    <3> HIDE DEF q
    <3> QED
      BY Zenon, <2>1, SeqCard
  <2>3. DOMAIN fds'[l] = DOMAIN fds[l] \cup Waiting(l) /\ \A k \in Loops : k # l => fds'[k] = fds[k]
    <3>1. DOMAIN fds = Loops
      BY Zenon DEF Places, MapKinds
    <3>2. fds'[l] = Insert(fds[l], [fd \in Waiting(l) |-> "read"])
      BY Zenon, <1>2, <3>1
    <3> QED
      BY Zenon, <1>2, <3>1, <3>2 DEF Insert
  <2>4. Waiting(l) \subseteq Fds /\ DOMAIN fds[l] \cap Waiting(l) = {}
    <3>1. \A i \in DOMAIN q : q[i] \in Fds
      BY <2>1
    <3> QED
      BY Zenon, <3>1 DEF Places, InOnePlace, Waiting
  <2>5. \A p : p \in N <=> \E f \in Waiting(l) : p = <<l, f>>
    BY Zenon DEF Waiting
  <2> HIDE DEF N
  <2>6. ASSUME NEW p PROVE p \in Watching' <=> p \in Watching \cup N
    <3>1. p \in Watching' <=> p \in Loops \X Fds /\ p[2] \in DOMAIN fds'[p[1]]
      BY Zenon DEF Watching
    <3>2. p \in Watching <=> p \in Loops \X Fds /\ p[2] \in DOMAIN fds[p[1]]
      BY Zenon DEF Watching
    <3>3. p \in Loops \X Fds => p = <<p[1], p[2]>> /\ p[1] \in Loops /\ p[2] \in Fds
      OBVIOUS
    <3>4. p \in N => p \in Loops \X Fds /\ p[1] = l /\ p[2] \in Waiting(l)
      <4>1. ASSUME NEW f \in Waiting(l), p = <<l, f>> PROVE p \in Loops \X Fds /\ p[1] = l /\ p[2] \in Waiting(l)
        BY Zenon, <2>4, <4>1
      <4> QED
        BY Zenon, <2>5, <4>1
    <3>5. p \in Loops \X Fds /\ p[1] = l /\ p[2] \in Waiting(l) => p \in N
      BY Zenon, <2>5, <3>3
    <3> QED
      BY Zenon, <2>3, <3>1, <3>2, <3>3, <3>4, <3>5
  <2>7. Watching' = Watching \cup N
    BY Zenon, <2>6
  <2>8. Watching \cap N = {}
    <3>1. ASSUME NEW p \in Watching, p \in N PROVE FALSE
      <4>1. PICK f \in Waiting(l) : p = <<l, f>>
        BY Zenon, <2>5, <3>1
      <4>2. f \in DOMAIN fds[l]
        BY Zenon, <3>1, <4>1 DEF Watching
      <4> QED
        BY Zenon, <2>4, <4>1, <4>2
    <3> QED
      BY Zenon, <3>1
  <2>9. IsFiniteSet(Watching') /\ Cardinality(Watching') = Cardinality(Watching) + Len(q)
    <3>1. IsFiniteSet(Watching) /\ Len(q) \in Nat
      BY <2>1 DEF ConnsCounted
    <3>2. IsFiniteSet(Watching \cup N)
          /\ Cardinality(Watching \cup N) = Cardinality(Watching) + Cardinality(N) - Cardinality(Watching \cap N)
      BY Zenon, <2>2, <3>1, FS_Union
    <3>3. Cardinality(Watching \cap N) = 0
      BY Zenon, <2>8, FS_EmptySet
    <3>4. Cardinality(Watching) \in Nat
      BY Zenon, <3>1, FS_CardinalityType
    <3> HIDE DEF q
    <3> QED
      BY <2>2, <2>7, <3>1, <3>2, <3>3, <3>4
  <2>10. gauges'.conns = gauges.conns + Len(q)
    <3>1. gauges \in [tasks : Int, conns : Int]
      BY Zenon DEF Accounts, Counted
    <3> QED
      BY Zenon, <1>2, <3>1
  <2>11. ASSUME NEW k \in Loops PROVE \A i, j \in DOMAIN new_fds'[k] : new_fds'[k][i] = new_fds'[k][j] => i = j
    <3>1. new_fds \in [Loops -> Seq(Fds)]
      BY Zenon DEF Places, MapKinds
    <3>2. CASE k = l
      <4>1. new_fds'[k] = <<>>
        BY Zenon, <1>2, <3>1, <3>2
      <4>2. DOMAIN new_fds'[k] = {}
        BY <4>1
      <4> QED
        BY Zenon, <4>2
    <3>3. CASE k # l
      <4>1. new_fds'[k] = new_fds[k]
        BY Zenon, <1>2, <3>1, <3>3
      <4> QED
        BY Zenon, <4>1 DEF ConnsCounted
    <3> QED
      BY Zenon, <3>2, <3>3
  <2> QED
    BY Zenon, <2>9, <2>10, <2>11 DEF ConnsCounted
<1> QED
  BY Zenon, <1>1, <1>2 DEF AsyncCallback, Waiting

\* The end of a callback changes the mode of a descriptor, or closes it.
LEMMA CountedFinish ==
  ASSUME Places, Frames, Accounts, ConnsCounted, NEW l \in Loops, Finish(l)
  PROVE  ConnsCounted'
<1> DEFINE f == loop[l].fd
<1>1. f \in DOMAIN fds[l] /\ DOMAIN fds = Loops /\ f \in Fds
  <2>1. loop[l].at \notin {"idle", "exited"}
    BY Zenon DEF Finish
  <2>2. f \in DOMAIN fds[l]
    BY Zenon, <2>1, Here
  <2> QED
    BY Zenon, <2>2 DEF Places, MapKinds, InOnePlace
<1>2. UNCHANGED new_fds
  BY Zenon DEF Finish
<1>3. \/ \E m : fds' = [fds EXCEPT ![l][f] = m] /\ UNCHANGED gauges
      \/ fds' = [fds EXCEPT ![l] = Drop(fds[l], f)] /\ gauges' = [gauges EXCEPT !.conns = gauges.conns - 1]
  BY Zenon DEF Finish, Closed
<1> HIDE DEF f
<1>4. ASSUME NEW m, fds' = [fds EXCEPT ![l][f] = m], UNCHANGED gauges PROVE ConnsCounted'
  <2>1. \A k \in Loops : DOMAIN fds'[k] = DOMAIN fds[k]
    BY Zenon, <1>1, <1>4
  <2> QED
    BY Zenon, <1>2, <1>4, <2>1, CountedSame
<1>5. CASE fds' = [fds EXCEPT ![l] = Drop(fds[l], f)] /\ gauges' = [gauges EXCEPT !.conns = gauges.conns - 1]
  <2>1. DOMAIN fds'[l] = DOMAIN fds[l] \ {f} /\ \A k \in Loops : k # l => fds'[k] = fds[k]
    <3>1. fds'[l] = Drop(fds[l], f)
      BY Zenon, <1>1, <1>5
    <3> QED
      BY Zenon, <1>1, <1>5, <3>1 DEF Drop
  <2>2. Watching' = Watching \ {<<l, f>>}
    <3>1. ASSUME NEW p PROVE p \in Watching' <=> p \in Watching \ {<<l, f>>}
      <4>1. p \in Watching' <=> p \in Loops \X Fds /\ p[2] \in DOMAIN fds'[p[1]]
        BY Zenon DEF Watching
      <4>2. p \in Watching <=> p \in Loops \X Fds /\ p[2] \in DOMAIN fds[p[1]]
        BY Zenon DEF Watching
      <4>3. p \in Loops \X Fds => p = <<p[1], p[2]>> /\ p[1] \in Loops
        OBVIOUS
      <4>4. p \in Loops \X Fds => (p = <<l, f>> <=> p[1] = l /\ p[2] = f)
        <5>1. <<l, f>>[1] = l /\ <<l, f>>[2] = f
          BY Zenon
        <5> QED
          BY Zenon, <4>3, <5>1
      <4> QED
        BY Zenon, <2>1, <4>1, <4>2, <4>3, <4>4
    <3> QED
      BY Zenon, <3>1
  <2>3. <<l, f>> \in Watching
    BY Zenon, <1>1 DEF Watching
  <2>4. IsFiniteSet(Watching') /\ Cardinality(Watching') = Cardinality(Watching) - 1
    BY Zenon, <2>2, <2>3, FS_RemoveElement DEF ConnsCounted
  <2>5. gauges'.conns = gauges.conns - 1
    <3>1. gauges \in [tasks : Int, conns : Int]
      BY Zenon DEF Accounts, Counted
    <3> QED
      BY Zenon, <1>5, <3>1
  <2> QED
    BY Zenon, <1>2, <2>4, <2>5 DEF ConnsCounted
<1> QED
  BY Zenon, <1>3, <1>4, <1>5

\* Every step keeps the count of the connections.
LEMMA CountedStep ==
  ASSUME Places, Frames, Accounts, ConnsCounted, [Next]_vars
  PROVE  ConnsCounted'
<1>1. gauges \in [tasks : Int, conns : Int]
  BY Zenon DEF Accounts, Counted
<1>2. ASSUME UNCHANGED <<new_fds, fds>>, UNCHANGED gauges \/ \E n : gauges' = [gauges EXCEPT !.tasks = n]
      PROVE  ConnsCounted'
  <2>1. gauges'.conns = gauges.conns
    BY Zenon, <1>1, <1>2
  <2> QED
    BY Zenon, <1>2, <2>1, CountedSame
<1>3. CASE MainStep \/ MainLoopEnds
  BY Zenon, <1>2, <1>3 DEF MainStep, MainLoopEnds, AssignCore, ReloadRules, StopScheduler, StopExecutor,
     JoinExecutor, StopStreams, StopTcp, JoinTcp, StopUdp, ResetCore, pool_vars
<1>4. ASSUME NEW c \in Conns, PeerClose(c) PROVE ConnsCounted'
  BY Zenon, <1>2, <1>4 DEF PeerClose
<1>5. ASSUME NEW c \in Conns, NEW fd \in Fds, Accept(c, fd) PROVE ConnsCounted'
  BY Zenon, <1>5, CountedAccept
<1>6. ASSUME NEW l \in Loops, ReadHeader(l) \/ PushTask(l) \/ AdvanceRead(l) \/ AdvanceStore(l)
      PROVE  ConnsCounted'
  BY Zenon, <1>2, <1>6 DEF ReadHeader, PushTask, AdvanceRead, AdvanceStore, pool_vars
<1>7. ASSUME NEW l \in Loops, ReadMessage(l) PROVE ConnsCounted'
  BY Zenon, <1>2, <1>7 DEF ReadMessage
<1>8. ASSUME NEW l \in Loops, NEW fd \in Fds, NEW rd \in BOOLEAN, NEW wr \in BOOLEAN,
             SocketCallback(l, fd, rd, wr)
      PROVE  ConnsCounted'
  BY Zenon, <1>2, <1>8 DEF SocketCallback
<1>9. ASSUME NEW w \in Workers, Pop(w) \/ TaskDone(w) PROVE ConnsCounted'
  BY Zenon, <1>2, <1>9 DEF Pop, TaskDone, pool_vars
<1>10. CASE (\E o \in Others : StartPush(o) \/ EndPush(o)) \/ Detach \/ ExpirerEnds
  BY Zenon, <1>2, <1>10 DEF StartPush, EndPush, Detach, ExpirerEnds, SetOther, pool_vars
<1>11. CASE UNCHANGED vars
  BY Zenon, <1>2, <1>11 DEF vars, pool_vars
<1> QED
  BY Zenon, <1>3, <1>4, <1>5, <1>6, <1>7, <1>8, <1>9, <1>10, <1>11, CountedAsync, CountedFinish
     DEF Next, LoopStep

\* Every step keeps main.i and the flags in their ranges.
LEMMA StepsStep ==
  ASSUME Control, Steps, [Next]_vars
  PROVE  Steps'
<1>1. main \in [at : Early \cup Serving \cup Late, i : Nat]
  BY Zenon DEF Control, Kinds
<1>2. stop \in [pool : BOOLEAN, loops : SUBSET Loops, streams : BOOLEAN] /\ main.i \in 0..(2 * NW)
  BY Zenon DEF Steps
<1>3. NW \in Nat
  BY Zenon, Sizes
<1>a. \/ MainStep \/ MainLoopEnds
      \/ main' = main /\ (stop' = stop \/ \E l \in Loops : AsyncCallback(l))
  <2>1. ASSUME NEW c \in Conns, PeerClose(c) \/ \E fd \in Fds : Accept(c, fd) PROVE UNCHANGED <<main, stop>>
    BY Zenon, <2>1 DEF PeerClose, Accept
  <2>2. ASSUME NEW l \in Loops, LoopStep(l) PROVE main' = main /\ (stop' = stop \/ AsyncCallback(l))
    BY Zenon, <2>2 DEF LoopStep, AsyncCallback, ReadHeader, ReadMessage, PushTask, AdvanceRead, AdvanceStore,
       Finish
  <2>3. ASSUME NEW l \in Loops, NEW fd \in Fds, NEW rd \in BOOLEAN, NEW wr \in BOOLEAN,
               SocketCallback(l, fd, rd, wr)
        PROVE  UNCHANGED <<main, stop>>
    BY Zenon, <2>3 DEF SocketCallback
  <2>4. ASSUME NEW w \in Workers, Pop(w) \/ TaskDone(w) PROVE UNCHANGED <<main, stop>>
    BY Zenon, <2>4 DEF Pop, TaskDone
  <2>5. CASE (\E o \in Others : StartPush(o) \/ EndPush(o)) \/ Detach \/ ExpirerEnds
    BY Zenon, <2>5 DEF StartPush, EndPush, Detach, ExpirerEnds, SetOther
  <2>6. CASE UNCHANGED vars
    BY Zenon, <2>6 DEF vars
  <2> QED
    BY Zenon, <2>1, <2>2, <2>3, <2>4, <2>5, <2>6 DEF Next
<1>4. main'.i \in 0..(2 * NW)
  <2>1. \/ main' = main \/ (\E p : main' = [at |-> p, i |-> 0])
        \/ (main.i \div 2 < NW /\ main' = [main EXCEPT !.i = main.i + 1])
    <3>1. CASE MainStep \/ MainLoopEnds
      BY Zenon, <3>1 DEF MainStep, MainLoopEnds, AssignCore, ReloadRules, StopScheduler, StopExecutor,
         JoinExecutor, StopStreams, StopTcp, JoinTcp, StopUdp, ResetCore, Go
    <3> QED
      BY Zenon, <3>1, <1>a
  <2>2. CASE \E p : main' = [at |-> p, i |-> 0]
    BY <1>3, <2>2
  <2>3. CASE main.i \div 2 < NW /\ main' = [main EXCEPT !.i = main.i + 1]
    <3>1. main'.i = main.i + 1
      BY Zenon, <1>1, <2>3
    <3> DEFINE n == main.i
    <3>2. n \in Nat /\ n \div 2 < NW
      BY <1>2, <2>3
    <3> HIDE DEF n
    <3>3. n + 1 \in 0..(2 * NW)
      BY <1>3, <3>2
    <3> QED
      BY Zenon, <3>1, <3>3 DEF n
  <2> QED
    BY Zenon, <1>2, <2>1, <2>2, <2>3
<1>5. stop' \in [pool : BOOLEAN, loops : SUBSET Loops, streams : BOOLEAN]
  <2>1. \/ stop' = stop \/ (\E l \in Loops : stop' = [stop EXCEPT !.loops = stop.loops \cup {l}])
        \/ stop' = [stop EXCEPT !.streams = TRUE] \/ stop' = [stop EXCEPT !.pool = TRUE]
        \/ stop' = [stop EXCEPT !.loops = Loops]
    <3>1. CASE MainStep \/ MainLoopEnds
      BY Zenon, <3>1 DEF MainStep, MainLoopEnds, AssignCore, ReloadRules, StopScheduler, StopExecutor,
         JoinExecutor, StopStreams, StopTcp, JoinTcp, StopUdp, ResetCore
    <3>2. ASSUME NEW l \in Loops, AsyncCallback(l)
          PROVE  stop' = stop \/ stop' = [stop EXCEPT !.loops = stop.loops \cup {l}]
      BY Zenon, <3>2 DEF AsyncCallback
    <3> QED
      BY Zenon, <3>1, <3>2, <1>a
  <2>2. CASE \E l \in Loops : stop' = [stop EXCEPT !.loops = stop.loops \cup {l}]
    <3>1. PICK l \in Loops : stop' = [stop EXCEPT !.loops = stop.loops \cup {l}]
      BY Zenon, <2>2
    <3>2. stop.loops \cup {l} \in SUBSET Loops
      BY Zenon, <1>2
    <3> QED
      BY Zenon, <1>2, <3>1, <3>2
  <2>3. CASE \/ stop' = [stop EXCEPT !.streams = TRUE] \/ stop' = [stop EXCEPT !.pool = TRUE]
             \/ stop' = [stop EXCEPT !.loops = Loops]
    BY Zenon, <1>2, <2>3
  <2> QED
    BY Zenon, <1>2, <2>1, <2>2, <2>3
<1> QED
  BY Zenon, <1>4, <1>5 DEF Steps

\* Before the first step nothing is watched.
LEMMA CountedInit == Init => Steps /\ ConnsCounted
<1> SUFFICES ASSUME Init PROVE Steps /\ ConnsCounted
  BY Zenon
<1>1. Steps
  BY Sizes DEF Init, Steps
<1>2. Watching = {}
  <2>1. \A l \in Loops : DOMAIN fds[l] = {}
    BY DEF Init
  <2>2. ASSUME NEW p \in Watching PROVE FALSE
    <3>1. p \in Loops \X Fds /\ p[2] \in DOMAIN fds[p[1]]
      BY Zenon DEF Watching
    <3> QED
      BY Zenon, <2>1, <3>1
  <2> QED
    BY Zenon, <2>2
<1>3. gauges.conns = 0
  BY Zenon DEF Init
<1>4. \A l \in Loops : DOMAIN new_fds[l] = {}
  BY DEF Init
<1> QED
  BY Zenon, <1>1, <1>2, <1>3, <1>4, FS_EmptySet DEF ConnsCounted

\* What the invariants say of the maps and the gauge.
LEMMA CountedMeans ==
  ASSUME Control, Places, Frames, ExecTypes, Accounts, Steps, ConnsCounted
  PROVE  RegisteredTogether
<1>1. MainTypes
  <2>1. main \in [at : Early \cup Serving \cup Late, i : Nat]
    BY Zenon DEF Control, Kinds
  <2>2. Early \cup Serving \cup Late \subseteq {Phases[k] : k \in DOMAIN Phases}
    <3>1. DOMAIN Phases = 1..12
      BY DEF Phases
    <3>2. /\ Phases[1] = "ctor" /\ Phases[2] = "loaded" /\ Phases[3] = "run" /\ Phases[4] = "stop_sched"
          /\ Phases[5] = "stop_executor" /\ Phases[6] = "join_executor"
      BY Zenon DEF Phases
    <3>3. /\ Phases[7] = "stop_streams" /\ Phases[8] = "stop_tcp" /\ Phases[9] = "join_tcp"
          /\ Phases[10] = "stop_udp" /\ Phases[11] = "reset" /\ Phases[12] = "destroyed"
      BY Zenon DEF Phases
    <3>4. 1 \in 1..12 /\ 2 \in 1..12 /\ 3 \in 1..12 /\ 4 \in 1..12 /\ 5 \in 1..12 /\ 6 \in 1..12
          /\ 7 \in 1..12 /\ 8 \in 1..12 /\ 9 \in 1..12 /\ 10 \in 1..12 /\ 11 \in 1..12 /\ 12 \in 1..12
      OBVIOUS
    <3>5. Early \cup Serving \subseteq {Phases[k] : k \in DOMAIN Phases}
      BY Zenon, <3>1, <3>2, <3>4 DEF Early, Serving
    <3>6. Late \subseteq {Phases[k] : k \in DOMAIN Phases}
      BY Zenon, <3>1, <3>3, <3>4 DEF Late
    <3> QED
      BY Zenon, <3>5, <3>6
  <2> DEFINE P == {Phases[k] : k \in DOMAIN Phases}
             E == Early \cup Serving \cup Late
  <2>3. main \in [at : P, i : 0..(2 * NW)]
    <3> HIDE DEF P, E
    <3>1. main \in [at : E, i : Nat] /\ E \subseteq P /\ main.i \in 0..(2 * NW)
      BY Zenon, <2>1, <2>2 DEF Steps, P, E
    <3> QED
      BY Zenon, <3>1
  <2> QED
    BY Zenon, <2>3 DEF MainTypes, Steps, Control, Kinds
<1>2. MapTypes
  BY Zenon, MapIs DEF MapTypes, Frames, MapFns
<1>3. gauges \in [tasks : Nat, conns : Nat]
  <2>1. Cardinality(Open) \in Nat /\ Cardinality(Watching) \in Nat
    BY Zenon, FS_CardinalityType DEF Accounts, Counted, ConnsCounted
  <2>2. gauges.tasks \in Nat /\ gauges.conns \in Nat /\ gauges \in [tasks : Int, conns : Int]
    BY Zenon, <2>1 DEF Accounts, Counted, ConnsCounted
  <2> QED
    BY Zenon, <2>2
<1>4. TypeOK
  BY Zenon, <1>1, <1>2, <1>3 DEF TypeOK, Frames
<1> QED
  BY Zenon, <1>4, PlacesMean DEF RegisteredTogether, ConnsCounted, Watching

\* The gauge of the connections counts exactly the descriptors that the loops
\* watch, and both maps of a loop have these descriptors, whatever the order in
\* which clients are accepted, taken over by a loop, closed, and accepted again
\* on the same descriptor.
THEOREM ConnectionsAreCounted == Spec => []RegisteredTogether
<1> DEFINE Inv == Control /\ Places /\ Frames /\ ExecTypes /\ Accounts /\ Steps /\ ConnsCounted
<1>1. Init => Inv
  BY Zenon, ControlInit, PlacesInit, FramesInit, ExecInit, AccountsInit, CountedInit
<1>2. Inv /\ [Next]_vars => Inv'
  BY Zenon, ControlStep, PlacesStep, FramesStep, ExecStep, AccountsStep, StepsStep, CountedStep
<1>3. Inv => RegisteredTogether
  BY Zenon, CountedMeans
<1> HIDE DEF Inv
<1> QED
  BY <1>1, <1>2, <1>3, PTL DEF Spec
=============================================================================
