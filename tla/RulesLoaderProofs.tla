------------------------- MODULE RulesLoaderProofs -------------------------
(***************************************************************************)
(* Proofs about reloading rule libraries, for any set of libraries and     *)
(* workers, any number of slots and loops and any queue capacity, and      *)
(* about the reference counter of a slot, for any finite set of threads.   *)
(*                                                                         *)
(* SlotInv: the counter is exact and a closed library is deserted; with it *)
(* the counter implements the gate of LibGate, which is what the loader    *)
(* takes a slot for.                                                       *)
(*                                                                         *)
(* IInv is about the slots and who is inside them: no thread executes an   *)
(* unmapped library, a library is in one slot at most, and a slot does not *)
(* change under a thread that is inside it.  SInv has the types of the     *)
(* scheduler.  Scanned, Young, Request and Dropped rest on them: what      *)
(* load_rules has done of its scan, how old the mapped images are, which   *)
(* loops have yet to serve close_library's request, and which tasks they   *)
(* may still hold.                                                         *)
(***************************************************************************)
EXTENDS RulesLoader, StreamLib, FiniteSetTheorems, TLAPS

-----------------------------------------------------------------------------
(* Sequences.                                                               *)

\* The empty queue has no places.
LEMMA EmptyDomain == DOMAIN << >> = {}
  OBVIOUS

\* What is taken from a queue of promises is its first, and the others move up.
LEMMA HeadAndTail ==
  ASSUME NEW S, NEW q \in Seq(S), q # << >>
  PROVE  /\ 1 \in DOMAIN q /\ Head(q) = q[1]
         /\ \A i \in DOMAIN Tail(q) : i + 1 \in DOMAIN q /\ Tail(q)[i] = q[i + 1]
  OBVIOUS

-----------------------------------------------------------------------------
(* The reference counter of a slot.                                         *)

\* The inductive invariant: with the types, exactness of the counter is
\* preserved by every step; that a closed library is deserted is a conjunct
\* because only SlotDrained, which reads the counter, can close the library.
SlotInv == SlotTypes /\ CounterExact /\ DesertedWhenClosed

\* The number of threads inside is a natural number, zero only for none.
LEMMA HoldersFinite ==
  /\ IsFiniteSet(Holders)
  /\ Cardinality(Holders) \in Nat
  /\ Cardinality(Holders) = 0 <=> Holders = {}
<1>1. Holders \subseteq Threads
  BY DEF Holders
<1>2. IsFiniteSet(Holders)
  BY <1>1, ThreadsAssumption, FS_Subset
<1> QED
  BY <1>2, FS_CardinalityType, FS_EmptySet

\* What an exact counter says bit by bit: the lowest bit is the loader's, the
\* others count the threads inside.
LEMMA CounterBits ==
  ASSUME SlotTypes, CounterExact
  PROVE  /\ Used(ref_counter) <=> loader = "open"
         /\ ref_counter \div 2 = Cardinality(Holders)
         /\ ref_counter % 2 = IF loader = "open" THEN 1 ELSE 0
<1>1. PICK n \in Nat : n = Cardinality(Holders)
  BY HoldersFinite
<1>2. CASE loader = "open"
  <2>1. ref_counter = 2 * n + 1
    BY <1>1, <1>2 DEF CounterExact
  <2> QED
    BY <2>1, <1>1, <1>2 DEF Used
<1>3. CASE loader # "open"
  <2>1. ref_counter = 2 * n
    BY <1>1, <1>3 DEF CounterExact
  <2> QED
    BY <2>1, <1>1, <1>3 DEF Used
<1> QED
  BY <1>2, <1>3

\* A thread that moves within the same side of the gate leaves Holders alone.
LEMMA HoldersUnchanged ==
  ASSUME SlotTypes, NEW t \in Threads, NEW p,
         p \in {"in", "dec"} <=> t \in Holders,
         pc' = [pc EXCEPT ![t] = p]
  PROVE  Holders' = Holders
  BY DEF SlotTypes, Holders

\* A thread whose inc() succeeds is added, one whose dec() succeeds removed.
LEMMA HolderEnters ==
  ASSUME SlotTypes, NEW t \in Threads, t \notin Holders,
         pc' = [pc EXCEPT ![t] = "in"]
  PROVE  /\ Holders' = Holders \cup {t}
         /\ Cardinality(Holders') = Cardinality(Holders) + 1
<1>1. Holders' = Holders \cup {t}
  BY DEF SlotTypes, Holders
<1> QED
  BY <1>1, HoldersFinite, FS_AddElement

\* A thread whose dec() succeeds leaves the threads inside the library.
LEMMA HolderLeaves ==
  ASSUME SlotTypes, NEW t \in Threads, t \in Holders,
         pc' = [pc EXCEPT ![t] = "idle"]
  PROVE  /\ Holders' = Holders \ {t}
         /\ Cardinality(Holders') = Cardinality(Holders) - 1
<1>1. Holders' = Holders \ {t}
  BY DEF SlotTypes, Holders
<1> QED
  BY <1>1, HoldersFinite, FS_RemoveElement

-----------------------------------------------------------------------------
\* Every step of a thread or of the main thread preserves the types.
LEMMA SlotTypeStep == SlotInv /\ [SlotNext]_slotVars => SlotTypes'
<1> SUFFICES ASSUME SlotInv, [SlotNext]_slotVars PROVE SlotTypes'
  OBVIOUS
<1> USE DEF SlotInv, SlotTypes
<1>1. ASSUME NEW t \in Threads, CheckUsed(t) \/ IncLoad(t) \/ IncAbort(t) \/ DecLoad(t)
      PROVE SlotTypes'
  BY <1>1 DEF CheckUsed, IncLoad, IncAbort, DecLoad
<1>2. ASSUME NEW t \in Threads, IncCas(t) PROVE SlotTypes'
  BY <1>2 DEF IncCas
<1>3. ASSUME NEW t \in Threads, DecCas(t) PROVE SlotTypes'
  <2>1. CASE ref_counter # current[t]
    BY <1>3, <2>1 DEF DecCas
  <2>2. CASE ref_counter = current[t]
    <3>1. t \in Holders
      BY <1>3 DEF DecCas, Holders
    <3>2. ref_counter \div 2 \in Nat \ {0}
      BY <3>1, CounterBits, HoldersFinite
    <3>3. ref_counter' \in Nat
      BY <1>3, <2>2, <3>2 DEF DecCas
    <3> QED
      BY <1>3, <2>2, <3>3 DEF DecCas
  <2> QED
    BY <2>1, <2>2
<1>4. CASE LoadLibrary \/ CloseLibrary \/ SlotDrained
  BY <1>4 DEF LoadLibrary, CloseLibrary, SlotDrained, SetUsed, Used
<1>5. CASE UNCHANGED slotVars
  BY <1>5 DEF slotVars
<1> QED
  BY <1>1, <1>2, <1>3, <1>4, <1>5 DEF SlotNext, Thread

\* Every step keeps the counter exact.
LEMMA CounterStep == SlotInv /\ [SlotNext]_slotVars => CounterExact'
<1> SUFFICES ASSUME SlotInv, [SlotNext]_slotVars PROVE CounterExact'
  OBVIOUS
<1>0. SlotTypes /\ CounterExact /\ DesertedWhenClosed
  BY DEF SlotInv
<1>n. Cardinality(Holders) \in Nat
  BY HoldersFinite
<1>b. /\ Used(ref_counter) <=> loader = "open"
      /\ ref_counter \div 2 = Cardinality(Holders)
      /\ ref_counter % 2 = IF loader = "open" THEN 1 ELSE 0
  BY <1>0, CounterBits
<1>1. ASSUME NEW t \in Threads, CheckUsed(t) \/ IncLoad(t) \/ IncAbort(t) \/ DecLoad(t)
      PROVE CounterExact'
  <2>1. Holders' = Holders
    BY <1>1, <1>0 DEF CheckUsed, IncLoad, IncAbort, DecLoad, Holders, SlotTypes
  <2> QED
    BY <1>1, <2>1, <1>0
       DEF CheckUsed, IncLoad, IncAbort, DecLoad, CounterExact
<1>2. ASSUME NEW t \in Threads, IncCas(t) PROVE CounterExact'
  <2>1. CASE ref_counter # current[t]
    BY Zenon, <1>2, <2>1, <1>0 DEF IncCas, CounterExact, Holders
  <2>2. CASE ref_counter = current[t]
    <3>1. t \notin Holders /\ pc' = [pc EXCEPT ![t] = "in"]
      BY <1>2, <2>2 DEF IncCas, Holders
    <3>2. Cardinality(Holders') = Cardinality(Holders) + 1
      BY Zenon, <3>1, <1>0, HolderEnters
    <3>3. loader = "open" /\ loader' = loader
      BY <1>2, <2>2, <1>b DEF IncCas
    <3>4. ref_counter' = (Cardinality(Holders) + 1) * 2 + 1
      BY <1>2, <2>2, <1>b DEF IncCas
    <3> QED
      BY <3>2, <3>3, <3>4, <1>n DEF CounterExact
  <2> QED
    BY <2>1, <2>2
<1>3. ASSUME NEW t \in Threads, DecCas(t) PROVE CounterExact'
  <2>1. CASE ref_counter # current[t]
    BY Zenon, <1>3, <2>1, <1>0 DEF DecCas, CounterExact, Holders
  <2>2. CASE ref_counter = current[t]
    <3>1. t \in Holders /\ pc' = [pc EXCEPT ![t] = "idle"]
      BY <1>3, <2>2 DEF DecCas, Holders
    <3>2. Cardinality(Holders') = Cardinality(Holders) - 1
      BY Zenon, <3>1, <1>0, HolderLeaves
    <3>3. loader' = loader
      BY <1>3 DEF DecCas
    <3>4. ref_counter' = (Cardinality(Holders) - 1) * 2
                           + (IF loader = "open" THEN 1 ELSE 0)
      BY <1>3, <2>2, <1>b DEF DecCas
    <3> QED
      BY <3>2, <3>3, <3>4, <1>n DEF CounterExact
  <2> QED
    BY <2>1, <2>2
<1>4. CASE LoadLibrary \/ CloseLibrary \/ SlotDrained
  <2>1. Holders' = Holders
    BY Zenon, <1>4 DEF LoadLibrary, CloseLibrary, SlotDrained, Holders
  <2>2. ref_counter = 2 * Cardinality(Holders) + (IF loader = "open" THEN 1 ELSE 0)
    BY <1>0 DEF CounterExact
  <2>3. CASE LoadLibrary
    BY <2>1, <2>2, <2>3, <1>b, <1>n DEF LoadLibrary, SetUsed, CounterExact
  <2>4. CASE CloseLibrary
    BY <2>1, <2>2, <2>4, <1>b, <1>n DEF CloseLibrary, SetUsed, CounterExact
  <2>5. CASE SlotDrained
    BY <2>1, <2>2, <2>5 DEF SlotDrained, CounterExact
  <2> QED
    BY <1>4, <2>3, <2>4, <2>5
<1>5. CASE UNCHANGED slotVars
  BY <1>5, <1>0 DEF slotVars, CounterExact, Holders
<1> QED
  BY <1>1, <1>2, <1>3, <1>4, <1>5 DEF SlotNext, Thread
\* A thread passes the gate only while it is open, so a closed library stays
\* deserted; and the zero that SlotDrained reads says that it is deserted.
LEMMA DesertedStep == SlotInv /\ [SlotNext]_slotVars => DesertedWhenClosed'
<1> SUFFICES ASSUME SlotInv, [SlotNext]_slotVars, loader' = "closed" PROVE Holders' = {}
  BY DEF DesertedWhenClosed
<1>0. SlotTypes /\ CounterExact /\ DesertedWhenClosed
  BY DEF SlotInv
<1>1. ASSUME NEW t \in Threads, Thread(t) PROVE Holders' = {}
  <2>1. loader = "closed" /\ Holders = {}
    BY <1>1, <1>0 DEF DesertedWhenClosed, Thread, CheckUsed, IncLoad, IncAbort,
                      IncCas, DecLoad, DecCas
  <2>2. ~ Used(ref_counter)
    BY <2>1, <1>0, CounterBits
  <2>3. Holders' \subseteq Holders
    BY <1>1, <1>0, <2>2 DEF Holders, SlotTypes, Thread, CheckUsed, IncLoad, IncAbort,
                            IncCas, DecLoad, DecCas
  <2> QED
    BY <2>1, <2>3
<1>2. CASE SlotDrained
  <2>1. Holders = {}
    BY <1>2, <1>0, CounterBits, HoldersFinite DEF SlotDrained
  <2> QED
    BY <2>1, <1>2 DEF SlotDrained, Holders
<1>3. CASE UNCHANGED slotVars
  BY <1>3, <1>0 DEF slotVars, Holders, DesertedWhenClosed
<1> QED
  BY <1>1, <1>2, <1>3 DEF SlotNext, LoadLibrary, CloseLibrary

\* The initial state: an empty slot with a zero counter.
LEMMA SlotInvInit == SlotInit => SlotInv
<1> SUFFICES ASSUME SlotInit PROVE SlotInv
  OBVIOUS
<1>1. Holders = {}
  BY DEF SlotInit, Holders
<1> QED
  BY <1>1, HoldersFinite DEF SlotInit, SlotInv, SlotTypes, CounterExact, DesertedWhenClosed

\* The conjuncts together are an invariant of the slot.
THEOREM SlotInvHolds == SlotSpec => []SlotInv
<1>1. SlotInv /\ [SlotNext]_slotVars => SlotInv'
  BY SlotTypeStep, CounterStep, DesertedStep DEF SlotInv
<1> QED
  BY SlotInvInit, <1>1, PTL DEF SlotSpec

\* stream_lib::ref_counter is exact in every interleaving of inc(), dec() and
\* set_used(), whatever the number of threads.
THEOREM CounterIsExact == SlotSpec => []CounterExact
<1>1. SlotInv => CounterExact
  BY DEF SlotInv
<1> QED
  BY SlotInvHolds, <1>1, PTL

\* When close_library's polling loop ends, no thread is inside the library and
\* none gets in until set_used(true).
THEOREM ClosedIsDeserted == SlotSpec => []DesertedWhenClosed
<1>1. SlotInv => DesertedWhenClosed
  BY DEF SlotInv
<1> QED
  BY SlotInvHolds, <1>1, PTL

-----------------------------------------------------------------------------
\* Every step of the counter protocol is a step of the gate or changes
\* nothing the gate shows.
LEMMA GateStep == SlotInv /\ [SlotNext]_slotVars => [Gate!GateNext]_(Gate!gateVars)
<1> SUFFICES ASSUME SlotInv, [SlotNext]_slotVars PROVE [Gate!GateNext]_(Gate!gateVars)
  OBVIOUS
<1>0. SlotTypes /\ CounterExact
  BY DEF SlotInv
<1> USE DEF Gate!gateVars
<1>1. ASSUME NEW t \in Threads, CheckUsed(t) \/ IncLoad(t) \/ IncAbort(t) \/ DecLoad(t)
      PROVE UNCHANGED <<loader, Holders>>
  BY <1>1, <1>0 DEF CheckUsed, IncLoad, IncAbort, DecLoad, Holders, SlotTypes
<1>2. ASSUME NEW t \in Threads, IncCas(t)
      PROVE Gate!Enter(t) \/ UNCHANGED <<loader, Holders>>
  <2>1. CASE ref_counter # current[t]
    BY <1>2, <2>1 DEF IncCas, Holders
  <2>2. CASE ref_counter = current[t]
    <3>1. t \notin Holders /\ pc' = [pc EXCEPT ![t] = "in"]
      BY <1>2, <2>2 DEF IncCas, Holders
    <3>2. loader = "open" /\ loader' = loader
      BY <1>2, <2>2, <1>0, CounterBits DEF IncCas
    <3> QED
      BY Zenon, <3>1, <3>2, <1>0, HolderEnters DEF Gate!Enter
  <2> QED
    BY <2>1, <2>2
<1>3. ASSUME NEW t \in Threads, DecCas(t)
      PROVE Gate!Leave(t) \/ UNCHANGED <<loader, Holders>>
  <2>1. CASE ref_counter # current[t]
    BY <1>3, <2>1 DEF DecCas, Holders
  <2>2. CASE ref_counter = current[t]
    <3>1. t \in Holders /\ pc' = [pc EXCEPT ![t] = "idle"] /\ loader' = loader
      BY <1>3, <2>2 DEF DecCas, Holders
    <3> QED
      BY Zenon, <3>1, <1>0, HolderLeaves DEF Gate!Leave
  <2> QED
    BY <2>1, <2>2
<1>4. LoadLibrary => Gate!Open
  BY DEF LoadLibrary, Gate!Open, Holders
<1>5. CloseLibrary => Gate!Shut
  BY DEF CloseLibrary, Gate!Shut, Holders
<1>6. SlotDrained => Gate!Quiesce
  <2> SUFFICES ASSUME SlotDrained PROVE Gate!Quiesce
    OBVIOUS
  <2>1. Holders = {}
    BY <1>0, CounterBits, HoldersFinite DEF SlotDrained
  <2>2. UNCHANGED Holders
    BY DEF SlotDrained, Holders
  <2> QED
    BY <2>1, <2>2 DEF SlotDrained, Gate!Quiesce
<1>7. UNCHANGED slotVars => UNCHANGED <<loader, Holders>>
  BY DEF slotVars, Holders
<1> QED
  BY <1>1, <1>2, <1>3, <1>4, <1>5, <1>6, <1>7 DEF SlotNext, Thread, Gate!GateNext

\* The compare-and-swap protocol of stream_lib implements the abstract gate.
THEOREM CounterImplementsGate == SlotSpec => GateSpec
<1>1. SlotInit => Gate!GateInit
  BY DEF SlotInit, Gate!GateInit, Holders
<1> QED
  BY <1>1, GateStep, SlotInvHolds, PTL DEF SlotSpec, GateSpec, Gate!GateSpec

-----------------------------------------------------------------------------
(* The loader.                                                              *)

Closing == main \in {"drain", "ask", "await"}
Loading == main \in {"dlopen", "init", "enable"}

\* A slot is live while events may be inside its library: it is in use, or
\* close_library works on it and has not called dlclose.
Live(s) == streams_[s].used \/ (Closing /\ curr.slot = s)

\* The types of what the argument talks about.
Types ==
  /\ mapped \subseteq Image
  /\ streams_ \in [Slots -> SlotType]
  /\ disk \in [Libs -> Nat] /\ so_files \in [Libs -> Nat]
  /\ opened \in Nat /\ clock \in Nat
  /\ curr_map \in [Libs -> 0..NSlots]
  /\ curr \in [file : NoneOr(Libs), slot : 0..NSlots, image : NoneOr(Image)]
  /\ main \in {"idle", "scan", "drain", "ask", "await", "dlopen", "init",
               "enable", "sweep"}
  /\ todo \subseteq Libs /\ unused \subseteq Libs
  /\ pos \in [Workers -> 0..NSlots]
  /\ exec \in [Workers -> NoneOr(Image)]

\* The streams of a live slot are those of the mapped image it has open.
LiveMapped ==
  \A s \in Slots : Live(s) =>
    /\ streams_[s].file \in Libs
    /\ streams_[s].handle \in mapped
    /\ streams_[s].stream = streams_[s].handle
    /\ streams_[s].handle.file = streams_[s].file

\* Live slots hold different libraries, hence different images.
LiveDistinct ==
  \A s, r \in Slots : Live(s) /\ Live(r) /\ streams_[s].file = streams_[r].file => s = r

\* A worker inside a slot executes the streams of the slot, and holds it
\* live: the slot is in use, or close_library is still polling its counter.
InsideLive ==
  \A w \in Workers : exec[w] # None =>
    /\ pos[w] \in Slots
    /\ exec[w] = streams_[pos[w]].stream
    /\ streams_[pos[w]].used \/ (main = "drain" /\ curr.slot = pos[w])

\* The slot close_library or load_library works on is out of use.
CurrOutOfUse ==
  Closing \/ Loading => /\ curr.slot \in Slots /\ curr.file \in Libs
                        /\ ~streams_[curr.slot].used
                        /\ Closing => streams_[curr.slot].file = curr.file

\* The library being loaded is in no slot in use; its image is mapped.
LoadingFresh ==
  /\ Loading => \A s \in Slots : streams_[s].used => streams_[s].file # curr.file
  /\ main = "init" => curr.image \in mapped /\ curr.image.file = curr.file
  /\ main = "enable" => /\ streams_[curr.slot].handle \in mapped
                        /\ streams_[curr.slot].stream = streams_[curr.slot].handle
                        /\ streams_[curr.slot].handle.file = curr.file
                        /\ streams_[curr.slot].file = curr.file

\* curr_map, computed when load_rules began, still tells the truth about the
\* libraries the loops have not visited.
CurrMapTrue ==
  main # "idle" =>
    /\ \A f \in todo : curr_map[f] # 0 => InUse(curr_map[f], f)
    /\ \A f \in unused : curr_map[f] # 0 /\ InUse(curr_map[f], f)
    /\ \A s \in Slots : streams_[s].used /\ streams_[s].file \in todo
                          => curr_map[streams_[s].file] = s
    /\ (Closing \/ Loading) => curr.file \notin todo \cup unused
    /\ \A f \in todo : so_files[f] # 0
    /\ main = "sweep" \/ (Closing /\ so_files[curr.file] = 0) => todo = {}

IInv ==
  /\ Types /\ LiveMapped /\ LiveDistinct /\ InsideLive /\ CurrOutOfUse
  /\ LoadingFresh /\ CurrMapTrue

-----------------------------------------------------------------------------
\* Steps that touch none of the variables of the argument, such as the steps
\* of the scheduler's loops and the tasks that streams schedule.
LEMMA FrameStep ==
  ASSUME IInv, UNCHANGED <<imageVars, streams_, diskVars>>, UNCHANGED <<pos, exec>>,
         UNCHANGED mainVars
  PROVE  IInv'
<1>1. Types'
  BY Zenon DEF mainVars, imageVars, diskVars, IInv, Types
<1>2. LiveMapped' /\ LiveDistinct' /\ InsideLive'
  BY Zenon DEF mainVars, imageVars, IInv, LiveMapped, LiveDistinct, InsideLive,
               Live, InUse, Inside, Closing
<1>3. CurrOutOfUse' /\ LoadingFresh' /\ CurrMapTrue'
  BY Zenon DEF mainVars, imageVars, IInv, CurrOutOfUse, LoadingFresh, CurrMapTrue,
               Live, InUse, Closing, Loading
<1> QED
  BY Zenon, <1>1, <1>2, <1>3 DEF IInv

\* The rules directory is not part of the argument, but for its type.
LEMMA DeployStep ==
  ASSUME NEW f \in Libs, IInv, Deploy(f) \/ Undeploy(f)
  PROVE  IInv'
<1>1. disk' \in [Libs -> Nat] /\ clock' \in Nat
  BY DEF Deploy, Undeploy, IInv, Types
<1>2. UNCHANGED <<imageVars, streams_, pos, exec, mainVars>>
  BY Zenon DEF Deploy, Undeploy, workerVars
<1>3. Types'
  BY Zenon, <1>1, <1>2 DEF mainVars, imageVars, IInv, Types
<1>4. LiveMapped' /\ LiveDistinct' /\ InsideLive'
  BY Zenon, <1>2 DEF mainVars, imageVars, IInv, LiveMapped, LiveDistinct, InsideLive,
                     Live, InUse, Inside, Closing
<1>5. CurrOutOfUse' /\ LoadingFresh' /\ CurrMapTrue'
  BY Zenon, <1>2 DEF mainVars, imageVars, IInv, CurrOutOfUse, LoadingFresh, CurrMapTrue,
                     Live, InUse, Closing, Loading
<1> QED
  BY Zenon, <1>3, <1>4, <1>5 DEF IInv

\* The turns of the loop over the files that close and load nothing.
LEMMA UnchangedStep ==
  ASSUME NEW f \in Libs, IInv, Unchanged(f)
  PROVE  IInv'
  BY ZenonT(60), LoaderAssumption
     DEF Unchanged, Visit, mainVars, workerVars, diskVars, imageVars, IInv,
         Types, SlotType, NoneOr, LiveMapped, LiveDistinct, InsideLive,
         CurrOutOfUse, LoadingFresh, CurrMapTrue, Live, InUse, Inside, Slots, Closing, Loading

\* No slot is free: the file is passed over.
LEMMA NoSpotStep ==
  ASSUME NEW f \in Libs, IInv, NoSpot(f)
  PROVE  IInv'
  BY ZenonT(60), LoaderAssumption
     DEF NoSpot, Visit, mainVars, workerVars, diskVars, imageVars, IInv,
         Types, SlotType, NoneOr, LiveMapped, LiveDistinct, InsideLive,
         CurrOutOfUse, LoadingFresh, CurrMapTrue, Live, InUse, Inside, Slots, Closing, Loading

\* The end of the loop over the files.
LEMMA ScanEndStep ==
  ASSUME IInv, ScanEnd
  PROVE  IInv'
  BY ZenonT(60), LoaderAssumption
     DEF ScanEnd, mainVars, workerVars, diskVars, imageVars, IInv,
         Types, SlotType, NoneOr, LiveMapped, LiveDistinct, InsideLive,
         CurrOutOfUse, LoadingFresh, CurrMapTrue, Live, InUse, Inside, Slots, Closing, Loading

\* The end of load_rules.
LEMMA SweepEndStep ==
  ASSUME IInv, SweepEnd
  PROVE  IInv'
  BY ZenonT(60), LoaderAssumption
     DEF SweepEnd, mainVars, workerVars, diskVars, imageVars, IInv,
         Types, SlotType, NoneOr, LiveMapped, LiveDistinct, InsideLive,
         CurrOutOfUse, LoadingFresh, CurrMapTrue, Live, InUse, Inside, Slots, Closing, Loading

\* The counter is zero: no worker is inside, so the slot needs none to be live.
LEMMA DrainedStep ==
  ASSUME IInv, Drained
  PROVE  IInv'
  BY ZenonT(60), LoaderAssumption
     DEF Drained, mainVars, workerVars, diskVars, imageVars, IInv,
         Types, SlotType, NoneOr, LiveMapped, LiveDistinct, InsideLive,
         CurrOutOfUse, LoadingFresh, CurrMapTrue, Live, InUse, Inside, Slots, Closing, Loading

\* Asking a loop changes the scheduler only.
LEMMA AskStep ==
  ASSUME IInv, Ask
  PROVE  IInv'
  BY ZenonT(60), LoaderAssumption
     DEF Ask, mainVars, workerVars, diskVars, imageVars, IInv,
         Types, SlotType, NoneOr, LiveMapped, LiveDistinct, InsideLive,
         CurrOutOfUse, LoadingFresh, CurrMapTrue, Live, InUse, Inside, Slots, Closing, Loading

\* A failed dlclose leaves the image mapped and the slot out of use.
LEMMA DlcloseFailsStep ==
  ASSUME IInv, DlcloseFails
  PROVE  IInv'
  BY ZenonT(60), LoaderAssumption
     DEF DlcloseFails, AfterFailedClose, mainVars, workerVars, diskVars, imageVars, IInv,
         Types, SlotType, NoneOr, LiveMapped, LiveDistinct, InsideLive,
         CurrOutOfUse, LoadingFresh, CurrMapTrue, Live, InUse, Inside, Slots, Closing, Loading

\* A failed load leaves the slot out of use.
LEMMA DlopenFailsStep ==
  ASSUME IInv, DlopenFails
  PROVE  IInv'
  BY ZenonT(60), LoaderAssumption
     DEF DlopenFails, mainVars, workerVars, diskVars, imageVars, IInv,
         Types, SlotType, NoneOr, LiveMapped, LiveDistinct, InsideLive,
         CurrOutOfUse, LoadingFresh, CurrMapTrue, Live, InUse, Inside, Slots, Closing, Loading

\* A worker that is inside a live slot, or outside, disturbs nothing.
LEMMA WorkerStep ==
  ASSUME IInv, UNCHANGED <<imageVars, streams_, diskVars, mainVars>>,
         pos' \in [Workers -> 0..NSlots], exec' \in [Workers -> NoneOr(Image)], InsideLive'
  PROVE  IInv'
<1>2. /\ mapped' = mapped /\ opened' = opened /\ streams_' = streams_ /\ disk' = disk /\ clock' = clock
      /\ main' = main /\ so_files' = so_files /\ todo' = todo /\ curr_map' = curr_map
      /\ unused' = unused /\ curr' = curr
  BY DEF imageVars, diskVars, mainVars
<1>3. Types'
  BY Zenon, <1>2 DEF IInv, Types
<1>4. (LiveMapped /\ LiveDistinct)'
  <2>1. \A s : Live(s)' <=> Live(s)
    BY Zenon, <1>2 DEF Live, Closing
  <2>2. LiveMapped'
    BY Zenon, <1>2, <2>1 DEF IInv, LiveMapped
  <2>3. LiveDistinct'
    BY Zenon, <1>2, <2>1 DEF IInv, LiveDistinct
  <2> QED
    BY Zenon, <2>2, <2>3
<1>5. CurrOutOfUse'
  BY Zenon, <1>2 DEF IInv, CurrOutOfUse, Closing, Loading
<1>6. (Closing' <=> Closing) /\ (Loading' <=> Loading) /\ \A s, f : InUse(s, f)' <=> InUse(s, f)
  BY Zenon, <1>2 DEF Closing, Loading, InUse
<1>7. LoadingFresh'
  BY Zenon, <1>2, <1>6 DEF IInv, LoadingFresh
<1>8. CurrMapTrue'
  <2> SUFFICES ASSUME main # "idle"
               PROVE  CurrMapTrue'
    BY Zenon, <1>2 DEF CurrMapTrue
  <2>1. /\ \A f \in todo' : curr_map'[f] # 0 => InUse(curr_map[f], f)'
        /\ \A f \in unused' : curr_map'[f] # 0 /\ InUse(curr_map[f], f)'
    BY Zenon, <1>2 DEF IInv, CurrMapTrue, InUse
  <2>2. \A s \in Slots : streams_'[s].used /\ streams_'[s].file \in todo'
                            => curr_map'[streams_'[s].file] = s
    BY Zenon, <1>2 DEF IInv, CurrMapTrue
  <2>3. /\ Closing' \/ Loading' => curr'.file \notin todo' \cup unused'
        /\ \A f \in todo' : so_files'[f] # 0
        /\ main' = "sweep" \/ (Closing' /\ so_files'[curr'.file] = 0) => todo' = {}
    BY Zenon, <1>2, <1>6 DEF IInv, CurrMapTrue
  <2> QED
    BY Zenon, <2>1, <2>2, <2>3 DEF CurrMapTrue
<1> QED
  BY Zenon, <1>3, <1>4, <1>5, <1>7, <1>8 DEF IInv

\* A worker that is outside the libraries moves to another slot.
LEMMA MoveStep ==
  ASSUME NEW w \in Workers, IInv, exec'[w] = None, NextSlot(w),
         UNCHANGED <<imageVars, streams_, diskVars, mainVars>>,
         exec' \in [Workers -> NoneOr(Image)], \A v \in Workers : v # w => exec'[v] = exec[v]
  PROVE  IInv'
<1>1. pos' \in [Workers -> 0..NSlots] /\ \A v \in Workers : v # w => pos'[v] = pos[v]
  <2>1. pos \in [Workers -> 0..NSlots]
    BY Zenon DEF IInv, Types
  <2>2. pos' = [pos EXCEPT ![w] = IF pos[w] = NSlots THEN 0 ELSE pos[w] + 1]
    BY Zenon DEF NextSlot
  <2> QED
    BY <2>1, <2>2, LoaderAssumption
<1>2. streams_' = streams_ /\ main' = main /\ curr' = curr
  BY DEF mainVars
<1>3. InsideLive'
  BY Zenon, <1>1, <1>2 DEF IInv, InsideLive
<1> QED
  BY Zenon, <1>1, <1>3, WorkerStep

\* A worker begins with an event, outside the libraries.
LEMMA PushEventStep ==
  ASSUME NEW w \in Workers, IInv, PushEvent(w)
  PROVE  IInv'
<1>1. 0 \notin Slots
  BY DEF Slots
<1>2. exec[w] = None
  BY Zenon, <1>1 DEF PushEvent, IInv, InsideLive
<1>3. UNCHANGED <<imageVars, streams_, diskVars, mainVars>> /\ exec' = exec
  BY Zenon DEF PushEvent, WorkerFrame
<1>4. exec \in [Workers -> NoneOr(Image)]
  BY Zenon DEF IInv, Types
<1> QED
  BY Zenon, <1>2, <1>3, <1>4, MoveStep DEF PushEvent

\* A worker passes over a slot.
LEMMA SkipSlotStep ==
  ASSUME NEW w \in Workers, IInv, SkipSlot(w)
  PROVE  IInv'
<1>1. UNCHANGED <<imageVars, streams_, diskVars, mainVars>> /\ exec' = exec
  BY Zenon DEF SkipSlot, WorkerFrame
<1>2. exec \in [Workers -> NoneOr(Image)]
  BY Zenon DEF IInv, Types
<1> QED
  BY Zenon, <1>1, <1>2, MoveStep DEF SkipSlot

\* A worker enters a slot in use, whose image is mapped.
LEMMA EnterSlotStep ==
  ASSUME NEW w \in Workers, IInv, EnterSlot(w)
  PROVE  IInv'
<1>1. UNCHANGED <<imageVars, streams_, diskVars, mainVars>> /\ pos' = pos
  BY Zenon DEF EnterSlot, WorkerFrame
<1>2. streams_' = streams_ /\ main' = main /\ curr' = curr
  BY <1>1 DEF mainVars
<1>3. pos \in [Workers -> 0..NSlots] /\ exec \in [Workers -> NoneOr(Image)]
  BY Zenon DEF IInv, Types
<1>4. pos[w] \in Slots /\ streams_[pos[w]].used
  <2>1. pos[w] # 0 /\ streams_[pos[w]].used
    BY Zenon DEF EnterSlot
  <2> QED
    BY <1>3, <2>1, LoaderAssumption DEF Slots
<1>5. streams_[pos[w]].stream \in NoneOr(Image)
  <2>1. streams_[pos[w]].stream \in mapped
    BY Zenon, <1>4 DEF IInv, LiveMapped, Live
  <2>2. mapped \subseteq Image
    BY Zenon DEF IInv, Types
  <2> QED
    BY Zenon, <2>1, <2>2 DEF NoneOr
<1>6. exec' = [exec EXCEPT ![w] = streams_[pos[w]].stream]
  BY Zenon DEF EnterSlot
<1>7. /\ exec' \in [Workers -> NoneOr(Image)] /\ exec'[w] = streams_[pos[w]].stream
      /\ \A v \in Workers : v # w => exec'[v] = exec[v]
  BY Zenon, <1>3, <1>5, <1>6
<1>8. InsideLive'
  BY Zenon, <1>1, <1>2, <1>4, <1>7 DEF IInv, InsideLive
<1> QED
  BY Zenon, <1>1, <1>3, <1>7, <1>8, WorkerStep

\* A worker leaves the library.
LEMMA LeaveSlotStep ==
  ASSUME NEW w \in Workers, IInv, LeaveSlot(w)
  PROVE  IInv'
<1>1. UNCHANGED <<imageVars, streams_, diskVars, mainVars>> /\ exec' = [exec EXCEPT ![w] = None]
  BY Zenon DEF LeaveSlot, WorkerFrame
<1>2. exec \in [Workers -> NoneOr(Image)] /\ None \in NoneOr(Image)
  BY Zenon DEF IInv, Types, NoneOr
<1>3. /\ exec' \in [Workers -> NoneOr(Image)] /\ exec'[w] = None
      /\ \A v \in Workers : v # w => exec'[v] = exec[v]
  BY Zenon, <1>1, <1>2
<1> QED
  BY Zenon, <1>1, <1>3, MoveStep DEF LeaveSlot

\* load_rules starts: a library in use is in one slot, so curr_map names it.
LEMMA LoadRulesStep ==
  ASSUME IInv, LoadRules
  PROVE  IInv'
<1> USE DEF LoadRules, mainVars, workerVars, diskVars, imageVars, IInv, Closing, Loading, Slots
<1>0. \A f \in Libs :
        /\ curr_map'[f] \in 0..NSlots
        /\ curr_map'[f] # 0 => InUse(curr_map'[f], f)
        /\ \A s \in Slots : InUse(s, f) => curr_map'[f] = s
  <2> SUFFICES ASSUME NEW f \in Libs
               PROVE  /\ curr_map'[f] \in 0..NSlots
                      /\ curr_map'[f] # 0 => InUse(curr_map'[f], f)
                      /\ \A s \in Slots : InUse(s, f) => curr_map'[f] = s
    BY Zenon
  <2>1. CASE \A s \in Slots : ~InUse(s, f)
    BY <2>1, LoaderAssumption
  <2>2. ASSUME NEW s \in Slots, InUse(s, f)
        PROVE  curr_map'[f] = s
    <3>1. \A r \in Slots : InUse(r, f) => r = s
      BY Zenon, <2>2 DEF LiveDistinct, Live, InUse
    <3>2. s <= s
      BY LoaderAssumption
    <3> QED
      BY Zenon, <2>2, <3>1, <3>2
  <2>3. CASE \E s \in Slots : InUse(s, f)
    <3>1. PICK s \in Slots : InUse(s, f)
      BY Zenon, <2>3
    <3>2. curr_map'[f] = s
      BY Zenon, <3>1, <2>2
    <3>3. s \in 0..NSlots /\ s # 0
      BY LoaderAssumption
    <3>4. \A r \in Slots : InUse(r, f) => curr_map'[f] = r
      BY Zenon, <2>2
    <3> QED
      BY Zenon, <3>1, <3>2, <3>3, <3>4
  <2> QED
    BY Zenon, <2>1, <2>3
<1>1. Types'
  BY ZenonT(60), <1>0 DEF Types
<1>2. LiveMapped'
  BY Zenon DEF Types, SlotType, NoneOr, LiveMapped, CurrOutOfUse, LoadingFresh,
         CurrMapTrue, Live, InUse, LiveDistinct
<1>3. LiveDistinct'
  BY Zenon DEF Types, SlotType, NoneOr, LiveDistinct, CurrOutOfUse, LoadingFresh,
         CurrMapTrue, Live, InUse
<1>4. InsideLive'
  BY Zenon DEF Types, SlotType, NoneOr, InsideLive, CurrOutOfUse, Inside,
         CurrMapTrue, InUse, LiveMapped, Live
<1>5. CurrOutOfUse'
  BY Zenon DEF Types, SlotType, NoneOr, CurrOutOfUse, CurrMapTrue, InUse
<1>6. LoadingFresh'
  BY Zenon DEF Types, SlotType, NoneOr, Image, LoadingFresh, CurrOutOfUse,
         CurrMapTrue, InUse, LiveDistinct, Live
<1>7. CurrMapTrue'
  <2>1. \A f \in todo' : curr_map'[f] # 0 => (InUse(curr_map[f], f))'
    BY Zenon, <1>0 DEF InUse
  <2>2. ASSUME NEW f \in unused'
        PROVE  curr_map'[f] # 0 /\ (InUse(curr_map[f], f))'
    <3>1. PICK s \in Slots : InUse(s, f)
      BY Zenon
    <3>2. f \in Libs /\ curr_map'[f] = s
      BY Zenon, <1>0, <3>1
    <3>3. streams_' = streams_
      BY Zenon
    <3> HIDE DEF LoadRules
    <3>4. s # 0
      BY LoaderAssumption
    <3> QED
      BY Zenon, <3>1, <3>2, <3>3, <3>4 DEF InUse
  <2>3. \A s \in Slots : streams_'[s].used /\ streams_'[s].file \in todo'
                            => curr_map'[streams_'[s].file] = s
    BY <1>0 DEF InUse
  <2>4. \A f \in todo' : so_files'[f] # 0
    BY Zenon
  <2> QED
    BY Zenon, <2>1, <2>2, <2>3, <2>4 DEF CurrMapTrue, InUse
<1> QED
  BY Zenon, <1>1, <1>2, <1>3, <1>4, <1>5, <1>6, <1>7 DEF IInv

\* A changed library goes out of use and stays live until dlclose.
LEMMA CloseChangedStep ==
  ASSUME NEW f \in Libs, IInv, CloseChanged(f)
  PROVE  IInv'
<1> USE DEF CloseChanged, Visit, BeginClose, mainVars, workerVars, diskVars, imageVars, IInv, Closing, Loading, Slots
<1>1. Types'
  BY ZenonT(60) DEF Types, SlotType, NoneOr, Image
<1>2. LiveMapped'
  BY DEF Types, SlotType, NoneOr, LiveMapped, CurrOutOfUse, LoadingFresh,
         CurrMapTrue, Live, InUse, LiveDistinct
<1>3. LiveDistinct'
  BY DEF Types, SlotType, NoneOr, LiveDistinct, CurrOutOfUse, LoadingFresh,
         CurrMapTrue, Live, InUse
<1>4. InsideLive'
  BY DEF Types, SlotType, NoneOr, InsideLive, CurrOutOfUse, Inside,
         CurrMapTrue, InUse, LiveMapped, Live
<1>5. CurrOutOfUse'
  BY DEF Types, SlotType, NoneOr, CurrOutOfUse, CurrMapTrue, InUse
<1>6. LoadingFresh'
  BY Zenon DEF Types, SlotType, NoneOr, Image, LoadingFresh, CurrOutOfUse,
         CurrMapTrue, InUse, LiveDistinct, Live
<1>7. CurrMapTrue'
  BY DEF Types, SlotType, NoneOr, CurrMapTrue, InUse, CurrOutOfUse,
         LoadingFresh, LiveDistinct, Live
<1> QED
  BY Zenon, <1>1, <1>2, <1>3, <1>4, <1>5, <1>6, <1>7 DEF IInv

\* A library in no slot gets a slot that is out of use.
LEMMA PickSlotStep ==
  ASSUME NEW f \in Libs, IInv, PickSlot(f)
  PROVE  IInv'
<1> USE DEF PickSlot, Visit, mainVars, workerVars, diskVars, imageVars, IInv, Closing, Loading, Slots
<1>1. Types'
  BY SMTT(30) DEF Types, SlotType, NoneOr, Image
<1>2. LiveMapped'
  BY Zenon DEF Types, SlotType, NoneOr, LiveMapped, CurrOutOfUse, LoadingFresh,
         CurrMapTrue, Live, InUse, LiveDistinct
<1>3. LiveDistinct'
  BY Zenon DEF Types, SlotType, NoneOr, LiveDistinct, CurrOutOfUse, LoadingFresh,
         CurrMapTrue, Live, InUse
<1>4. InsideLive'
  BY Zenon DEF Types, SlotType, NoneOr, InsideLive, CurrOutOfUse, Inside,
         CurrMapTrue, InUse, LiveMapped, Live
<1>5. CurrOutOfUse'
  BY DEF Types, SlotType, NoneOr, CurrOutOfUse, CurrMapTrue, InUse
<1>6. LoadingFresh'
  <2>1. /\ f \in todo /\ curr_map[f] = 0 /\ main' = "dlopen" /\ UNCHANGED streams_
        /\ main # "idle" /\ \E s \in Slots : curr' = [file |-> f, slot |-> s, image |-> None]
    BY Zenon
  <2>2. \A s \in Slots : streams_[s].used /\ streams_[s].file \in todo
                           => curr_map[streams_[s].file] = s
    BY Zenon, <2>1 DEF CurrMapTrue
  <2> HIDE DEF PickSlot, Visit, mainVars, workerVars, diskVars, imageVars, IInv
  <2>3. curr'.file = f
    BY <2>1
  <2>4. \A s \in Slots : s # 0
    OBVIOUS
  <2> QED
    BY Zenon, <2>1, <2>2, <2>3, <2>4 DEF LoadingFresh
<1>7. CurrMapTrue'
  <2>1. /\ todo' = todo \ {f} /\ unused' = unused \ {f} /\ curr'.file = f
        /\ Loading' /\ ~Closing' /\ main' # "sweep" /\ main # "idle"
        /\ UNCHANGED <<streams_, curr_map, so_files>>
    OBVIOUS
  <2> QED
    BY <2>1 DEF CurrMapTrue, InUse
<1> QED
  BY Zenon, <1>1, <1>2, <1>3, <1>4, <1>5, <1>6, <1>7 DEF IInv

\* A library whose file is gone goes out of use.
LEMMA CloseRemovedStep ==
  ASSUME NEW f \in Libs, IInv, CloseRemoved(f)
  PROVE  IInv'
<1> USE DEF CloseRemoved, BeginClose, mainVars, workerVars, diskVars, imageVars, IInv, Closing, Loading, Slots
<1>1. Types'
  BY ZenonT(60) DEF Types, SlotType, NoneOr, Image
<1>2. LiveMapped'
  BY DEF Types, SlotType, NoneOr, LiveMapped, CurrOutOfUse, LoadingFresh,
         CurrMapTrue, Live, InUse, LiveDistinct
<1>3. LiveDistinct'
  BY DEF Types, SlotType, NoneOr, LiveDistinct, CurrOutOfUse, LoadingFresh,
         CurrMapTrue, Live, InUse
<1>4. InsideLive'
  BY DEF Types, SlotType, NoneOr, InsideLive, CurrOutOfUse, Inside,
         CurrMapTrue, InUse, LiveMapped, Live
<1>5. CurrOutOfUse'
  BY DEF Types, SlotType, NoneOr, CurrOutOfUse, CurrMapTrue, InUse
<1>6. LoadingFresh'
  BY Zenon DEF Types, SlotType, NoneOr, Image, LoadingFresh, CurrOutOfUse,
         CurrMapTrue, InUse, LiveDistinct, Live
<1>7. CurrMapTrue'
  BY DEF Types, SlotType, NoneOr, CurrMapTrue, InUse, CurrOutOfUse,
         LoadingFresh, LiveDistinct, Live
<1> QED
  BY Zenon, <1>1, <1>2, <1>3, <1>4, <1>5, <1>6, <1>7 DEF IInv

\* dlclose unmaps the image of a deserted slot; no other live slot has it.
LEMMA DlcloseStep ==
  ASSUME IInv, Dlclose
  PROVE  IInv'
<1> USE DEF Dlclose, mainVars, workerVars, diskVars, imageVars, IInv, Closing, Loading, Slots
<1>1. Types'
  BY ZenonT(60) DEF Types, SlotType, NoneOr, Image
<1>2. LiveMapped'
  BY DEF Types, SlotType, NoneOr, LiveMapped, CurrOutOfUse, LoadingFresh,
         CurrMapTrue, Live, InUse, LiveDistinct
<1>3. LiveDistinct'
  BY DEF Types, SlotType, NoneOr, LiveDistinct, CurrOutOfUse, LoadingFresh,
         CurrMapTrue, Live, InUse
<1>4. InsideLive'
  BY DEF Types, SlotType, NoneOr, InsideLive, CurrOutOfUse, Inside,
         CurrMapTrue, InUse, LiveMapped, Live
<1>5. CurrOutOfUse'
  BY DEF Types, SlotType, NoneOr, CurrOutOfUse, CurrMapTrue, InUse
<1>6. LoadingFresh'
  BY DEF Types, SlotType, NoneOr, Image, LoadingFresh, CurrOutOfUse,
         CurrMapTrue, InUse, LiveDistinct, Live
<1>7. CurrMapTrue'
  BY DEF Types, SlotType, NoneOr, CurrMapTrue, InUse, CurrOutOfUse,
         LoadingFresh, LiveDistinct, Live
<1> QED
  BY Zenon, <1>1, <1>2, <1>3, <1>4, <1>5, <1>6, <1>7 DEF IInv

\* dlopen yields a mapped image of the file.
LEMMA DlopenStep ==
  ASSUME IInv, Dlopen
  PROVE  IInv'
<1> USE DEF Dlopen, mainVars, workerVars, diskVars, imageVars, IInv, Closing, Loading, Slots
<1>0. /\ curr'.slot = curr.slot /\ curr'.file = curr.file
      /\ curr'.image \in Image /\ curr'.image \in mapped' /\ mapped' \subseteq Image
      /\ mapped \subseteq mapped' /\ curr'.image.file = curr.file
      /\ curr' = [file |-> curr.file, slot |-> curr.slot, image |-> curr'.image]
  BY DEF Types, CurrOutOfUse, Image
<1>1. Types'
  BY <1>0 DEF Types, NoneOr
<1>2. LiveMapped'
  BY Zenon DEF Types, SlotType, NoneOr, LiveMapped, CurrOutOfUse, LoadingFresh,
         CurrMapTrue, Live, InUse, LiveDistinct
<1>3. LiveDistinct'
  BY Zenon DEF Types, SlotType, NoneOr, LiveDistinct, CurrOutOfUse, LoadingFresh,
         CurrMapTrue, Live, InUse
<1>4. InsideLive'
  BY Zenon DEF Types, SlotType, NoneOr, InsideLive, CurrOutOfUse, Inside,
         CurrMapTrue, InUse, LiveMapped, Live
<1>5. CurrOutOfUse'
  BY Zenon, <1>0 DEF CurrOutOfUse
<1>6. LoadingFresh'
  BY DEF Types, SlotType, NoneOr, Image, LoadingFresh, CurrOutOfUse,
         CurrMapTrue, InUse, LiveDistinct, Live
<1>7. CurrMapTrue'
  BY DEF Types, SlotType, NoneOr, CurrMapTrue, InUse, CurrOutOfUse,
         LoadingFresh, LiveDistinct, Live
<1> QED
  BY Zenon, <1>1, <1>2, <1>3, <1>4, <1>5, <1>6, <1>7 DEF IInv

\* The slot gets the file and the image of the library being loaded.
LEMMA AssignStep ==
  ASSUME IInv, Assign
  PROVE  IInv'
<1> USE DEF Assign, mainVars, workerVars, diskVars, imageVars, IInv, Closing, Loading, Slots
<1>1. Types'
  <2>1. /\ curr.file \in Libs /\ curr.image \in Image /\ curr.slot \in Slots
        /\ so_files[curr.file] \in Nat
    BY Zenon DEF Types, CurrOutOfUse, LoadingFresh
  <2> DEFINE slot == [streams_[curr.slot] EXCEPT !.file = curr.file,
                                                !.handle = curr.image,
                                                !.last_write_time = so_files[curr.file],
                                                !.stream = curr.image]
  <2>2. streams_ \in [Slots -> SlotType] /\ streams_[curr.slot] \in SlotType
    BY Zenon, <2>1 DEF Types
  <2>3. slot \in SlotType
    BY Zenon, <2>1, <2>2 DEF SlotType, NoneOr
  <2>4. streams_' = [streams_ EXCEPT ![curr.slot] = slot]
    BY Zenon
  <2> HIDE DEF slot
  <2>5. streams_' \in [Slots -> SlotType]
    BY Zenon, <2>2, <2>3, <2>4
  <2> QED
    BY Zenon, <2>5 DEF Types
<1>2. LiveMapped'
  BY DEF Types, SlotType, NoneOr, LiveMapped, CurrOutOfUse, LoadingFresh,
         CurrMapTrue, Live, InUse, LiveDistinct
<1>3. LiveDistinct'
  BY DEF Types, SlotType, NoneOr, LiveDistinct, CurrOutOfUse, LoadingFresh,
         CurrMapTrue, Live, InUse
<1>4. InsideLive'
  BY DEF Types, SlotType, NoneOr, InsideLive, CurrOutOfUse, Inside,
         CurrMapTrue, InUse, LiveMapped, Live
<1>5. CurrOutOfUse'
  BY DEF Types, SlotType, NoneOr, CurrOutOfUse, CurrMapTrue, InUse
<1>6. LoadingFresh'
  BY DEF Types, SlotType, NoneOr, Image, LoadingFresh, CurrOutOfUse,
         CurrMapTrue, InUse, LiveDistinct, Live
<1>7. CurrMapTrue'
  BY DEF Types, SlotType, NoneOr, CurrMapTrue, InUse, CurrOutOfUse,
         LoadingFresh, LiveDistinct, Live
<1> QED
  BY Zenon, <1>1, <1>2, <1>3, <1>4, <1>5, <1>6, <1>7 DEF IInv

\* The slot comes into use, with a mapped image and a library of its own.
LEMMA EnableStep ==
  ASSUME IInv, Enable
  PROVE  IInv'
<1> USE DEF Enable, mainVars, workerVars, diskVars, imageVars, IInv, Closing, Loading, Slots
<1>1. Types'
  BY ZenonT(60) DEF Types, SlotType, NoneOr, Image
<1>2. LiveMapped'
  BY DEF Types, SlotType, NoneOr, LiveMapped, CurrOutOfUse, LoadingFresh,
         CurrMapTrue, Live, InUse, LiveDistinct
<1>3. LiveDistinct'
  BY DEF Types, SlotType, NoneOr, LiveDistinct, CurrOutOfUse, LoadingFresh,
         CurrMapTrue, Live, InUse
<1>4. InsideLive'
  BY DEF Types, SlotType, NoneOr, InsideLive, CurrOutOfUse, Inside,
         CurrMapTrue, InUse, LiveMapped, Live
<1>5. CurrOutOfUse'
  BY Zenon DEF Types, SlotType, NoneOr, CurrOutOfUse, CurrMapTrue, InUse
<1>6. LoadingFresh'
  BY Zenon DEF Types, SlotType, NoneOr, Image, LoadingFresh, CurrOutOfUse,
         CurrMapTrue, InUse, LiveDistinct, Live
<1>7. CurrMapTrue'
  BY DEF Types, SlotType, NoneOr, CurrMapTrue, InUse, CurrOutOfUse,
         LoadingFresh, LiveDistinct, Live
<1> QED
  BY Zenon, <1>1, <1>2, <1>3, <1>4, <1>5, <1>6, <1>7 DEF IInv

\* Every step of the system preserves the invariant.
LEMMA InvStep == IInv /\ [Next]_vars => IInv'
<1> SUFFICES ASSUME IInv, [Next]_vars PROVE IInv'
  BY Zenon
<1>1. ASSUME NEW f \in Libs, Deploy(f) \/ Undeploy(f) PROVE IInv'
  BY Zenon, <1>1, DeployStep
<1>2. CASE LoadRules
  BY Zenon, <1>2, LoadRulesStep
<1>3. CASE MainStep
  <2>1. CASE InitAddsTask
    BY Zenon, <2>1, FrameStep DEF InitAddsTask, workerVars
  <2> QED
    BY Zenon, <1>3, <2>1, UnchangedStep, CloseChangedStep, NoSpotStep, PickSlotStep,
       CloseRemovedStep, ScanEndStep, SweepEndStep, DrainedStep, AskStep,
       DlcloseStep, DlcloseFailsStep, DlopenStep, DlopenFailsStep, AssignStep,
       EnableStep
       DEF MainStep
<1>4. ASSUME NEW w \in Workers, PushEvent(w) \/ Worker(w) PROVE IInv'
  <2>1. CASE StreamAddsTask(w)
    BY Zenon, <2>1, FrameStep DEF StreamAddsTask, WorkerFrame, workerVars
  <2> QED
    BY Zenon, <1>4, <2>1, PushEventStep, SkipSlotStep, EnterSlotStep, LeaveSlotStep
       DEF Worker
<1>5. ASSUME NEW l \in Loops, Loop(l) PROVE IInv'
  BY Zenon, <1>5, FrameStep DEF Loop, WorkerFrame, workerVars
<1>6. CASE UNCHANGED vars
  BY Zenon, <1>6, FrameStep DEF vars, workerVars
<1> QED
  BY Zenon, <1>1, <1>2, <1>3, <1>4, <1>5, <1>6 DEF Next

\* The program starts with an empty table and nothing mapped.
LEMMA InvInit == Init => IInv
<1> SUFFICES ASSUME Init PROVE IInv
  BY Zenon
<1>1. Types
  <2>1. streams_ \in [Slots -> SlotType]
    BY Zenon DEF Init, EmptySlot, SlotType, NoneOr
  <2>2. curr \in [file : NoneOr(Libs), slot : 0..NSlots, image : NoneOr(Image)]
    BY LoaderAssumption DEF Init, NoneOr
  <2> QED
    BY <2>1, <2>2, LoaderAssumption DEF Init, Types, NoneOr
<1>2. LiveMapped /\ LiveDistinct
  BY Zenon DEF Init, EmptySlot, LiveMapped, LiveDistinct, Live, Closing
<1>3. InsideLive
  BY Zenon DEF Init, InsideLive
<1>4. CurrOutOfUse /\ LoadingFresh /\ CurrMapTrue
  BY Zenon DEF Init, CurrOutOfUse, LoadingFresh, CurrMapTrue, Closing, Loading
<1> QED
  BY Zenon, <1>1, <1>2, <1>3, <1>4 DEF IInv

\* The inductive invariant holds in every reachable state of the reload.
THEOREM InvHolds == Spec => []IInv
  BY InvInit, InvStep, PTL DEF Spec

-----------------------------------------------------------------------------
\* No thread executes the streams of an unmapped library: push_stream's
\* reference counter and close_library's polling loop keep the two apart.
THEOREM NeverExecutesUnmapped == Spec => []ExecutesMapped
<1>1. IInv => ExecutesMapped
  BY Zenon DEF IInv, ExecutesMapped, InsideLive, LiveMapped, Live, Closing
<1> QED
  BY InvHolds, <1>1, PTL

\* load_rules never puts a library in two slots in use.
THEOREM LibraryInOneSlot == Spec => []OneSlotPerFile
<1>1. IInv => OneSlotPerFile
  BY Zenon DEF IInv, OneSlotPerFile, LiveDistinct, Live
<1> QED
  BY InvHolds, <1>1, PTL

\* load_rules does not change a slot under a thread that is inside it.
THEOREM SlotStableInside == Spec => SlotStable
<1>1. ASSUME IInv, [Next]_vars, NEW s \in Slots, Inside(s) # {}
      PROVE  /\ streams_'[s].file = streams_[s].file
             /\ streams_'[s].stream = streams_[s].stream
             /\ streams_'[s].handle = streams_[s].handle
  <2>1. streams_[s].used \/ (main = "drain" /\ curr.slot = s)
    BY Zenon, <1>1 DEF Inside, IInv, InsideLive
  <2>2. (Closing \/ Loading) /\ main # "drain" => curr.slot # s
    BY Zenon, <1>1, <2>1 DEF IInv, CurrOutOfUse, Closing, Loading
  <2>3. streams_ \in [Slots -> SlotType]
    BY Zenon, <1>1 DEF IInv, Types
  <2>4. CASE UNCHANGED streams_
    BY Zenon, <2>4
  <2>5. ASSUME NEW f \in Libs, CloseChanged(f) \/ CloseRemoved(f) 
        PROVE  /\ streams_'[s].file = streams_[s].file
               /\ streams_'[s].stream = streams_[s].stream
               /\ streams_'[s].handle = streams_[s].handle
    BY <2>5, <2>3 DEF CloseChanged, CloseRemoved, BeginClose, SlotType
  <2>6. CASE Dlclose \/ Assign \/ Enable
    BY Zenon, <2>6, <2>2, <2>3 DEF Dlclose, Assign, Enable, Closing, Loading, SlotType
  <2> QED
    BY Zenon, <1>1, <2>4, <2>5, <2>6
       DEF Next, vars, MainStep, LoadRules, Deploy, Undeploy, Unchanged, NoSpot,
           PickSlot, ScanEnd, SweepEnd, Drained, Ask, DlcloseFails, Dlopen,
           DlopenFails, InitAddsTask, PushEvent, Worker, SkipSlot, EnterSlot,
           StreamAddsTask, LeaveSlot, WorkerFrame, Loop
<1>2. IInv /\ [Next]_vars =>
        [\A s \in Slots : Inside(s) # {} =>
           /\ streams_'[s].file = streams_[s].file
           /\ streams_'[s].stream = streams_[s].stream
           /\ streams_'[s].handle = streams_[s].handle]_vars
  BY Zenon, <1>1
<1> QED
  BY <1>2, InvHolds, PTL DEF Spec, SlotStable

-----------------------------------------------------------------------------
(* Types of the scheduler and of what remains of the loader.                *)

SchedTypes ==
  /\ pinned \subseteq Image /\ failed \subseteq Libs
  /\ asked \in 0..NLoops /\ reloads \in Nat /\ ntasks \in Nat
  /\ thread_ns \in [Workers -> Libs \cup {GlobalNs}]
  /\ late \subseteq TaskSet
  /\ task_promises \in [Loops -> Seq(TaskSet)]
  /\ ns_promises \in [Loops -> Seq(Libs)]
  /\ signalled \in [Loops -> BOOLEAN]
  /\ tasks \in [Loops -> SUBSET TaskSet]
  /\ loop_pc \in [Loops -> {"poll", "add", "remove", "run"}]
  /\ running \in [Loops -> TaskSet \cup {NoTask}]
  /\ pending_loops \in Int /\ ns_removed \in BOOLEAN

\* A loop that runs a task has one, and remove_ns_tasks asks loops that exist.
SchedControl ==
  /\ \A l \in Loops : loop_pc[l] = "run" => running[l] \in TaskSet
  /\ main = "ask" => asked < NLoops

SInv == SchedTypes /\ SchedControl

\* What the steps of the scheduler do to one promise queue: add_task and
\* remove_ns_tasks push to it, the loop's async callback pops its head.
LEMMA QueueOps ==
  ASSUME NEW S, NEW q \in Seq(S)
  PROVE  /\ \A x \in S : Append(q, x) \in Seq(S)
         /\ q # <<>> => Head(q) \in S /\ Tail(q) \in Seq(S)
OBVIOUS

\* The entries of a promise queue are entries it was given.
LEMMA QueueRange ==
  ASSUME NEW S, NEW q \in Seq(S) PROVE {q[i] : i \in DOMAIN q} \subseteq S
OBVIOUS

\* The pool has loops, and asking one of them in remove_ns_tasks counts up to
\* their number.
LEMMA LoopCount ==
  /\ 0 \in 0..NLoops /\ 0 < NLoops /\ NLoops \in Int
  /\ 0 \in Nat /\ \A n \in Nat : n + 1 \in Nat
  /\ \A n \in 0..NLoops : n < NLoops => n + 1 \in Loops /\ n + 1 \in 0..NLoops
  /\ \A n \in 0..NLoops : n # NLoops => n < NLoops
BY SchedulerAssumption DEF Loops

\* add_task keeps the scheduler's types.
LEMMA AddTaskTypes ==
  ASSUME SInv, NEW k \in TaskSet, AddTask(k)
  PROVE  /\ task_promises' \in [Loops -> Seq(TaskSet)]
         /\ signalled' \in [Loops -> BOOLEAN]
         /\ UNCHANGED <<ns_promises, tasks, loop_pc, running, pending_loops, ns_removed>>
<1>1. ASSUME NEW l \in Loops, task_promises' = [task_promises EXCEPT ![l] = Append(@, k)]
      PROVE  task_promises' \in [Loops -> Seq(TaskSet)]
  <2>1. Append(task_promises[l], k) \in Seq(TaskSet)
    BY Zenon, QueueOps DEF SInv, SchedTypes
  <2> QED
    BY Zenon, <1>1, <2>1 DEF SInv, SchedTypes
<1> QED
  BY Zenon, <1>1 DEF SInv, SchedTypes, AddTask

\* So does every step of a loop's thread.
LEMMA LoopStepTypes ==
  ASSUME SInv, NEW l \in Loops, LoopStep(l), UNCHANGED <<main, asked>>,
         UNCHANGED <<pinned, failed, reloads, ntasks, thread_ns, late>>
  PROVE  SInv'
<1> USE DEF SInv, SchedTypes, SchedControl, Goto
<1>1. CASE Wake(l)
  BY Zenon, <1>1 DEF Wake
<1>2. CASE AddTasks(l)
  <2>1. Head(task_promises[l]) \in TaskSet /\ Tail(task_promises[l]) \in Seq(TaskSet)
    BY Zenon, <1>2, QueueOps DEF AddTasks
  <2> QED
    BY Zenon, <1>2, <2>1 DEF AddTasks
<1>3. CASE AddTasksEnd(l)
  BY Zenon, <1>3 DEF AddTasksEnd
<1>4. CASE RemoveNsTasks(l)
  <2>1. Tail(ns_promises[l]) \in Seq(Libs)
    BY Zenon, <1>4, QueueOps DEF RemoveNsTasks
  <2>2. tasks' \in [Loops -> SUBSET TaskSet]
    BY Zenon, <1>4 DEF RemoveNsTasks
  <2> QED
    BY <1>4, <2>1, <2>2 DEF RemoveNsTasks
<1>5. CASE RemoveNsTasksEnd(l)
  BY Zenon, <1>5 DEF RemoveNsTasksEnd
<1>6. CASE RunTask(l)
  BY Zenon, <1>6 DEF RunTask
<1>7. CASE RunTaskEnd(l)
  BY Zenon, <1>7 DEF RunTaskEnd
<1> QED
  BY Zenon, <1>1, <1>2, <1>3, <1>4, <1>5, <1>6, <1>7 DEF LoopStep

\* The queues, timers and running tasks of the scheduler's loops keep their
\* types in every step of the loader, of the workers and of the loops.
LEMMA SchedStep == IInv /\ SInv /\ [Next]_vars => SInv'
<1> SUFFICES ASSUME IInv, SInv, [Next]_vars PROVE SInv'
  BY Zenon
<1> USE DEF SInv
<1>1. ASSUME UNCHANGED schedVars, UNCHANGED late
      PROVE  UNCHANGED <<task_promises, ns_promises, signalled, tasks, loop_pc,
                         running, pending_loops, ns_removed, late>>
  BY Zenon, <1>1 DEF schedVars
<1>2. ASSUME NEW f \in Libs, Deploy(f) \/ Undeploy(f) PROVE SInv'
  BY Zenon, <1>2, <1>1 DEF Deploy, Undeploy, mainVars, workerVars, imageVars, SchedTypes,
                    SchedControl
<1>3. CASE LoadRules
  BY <1>3, <1>1 DEF LoadRules, workerVars, imageVars, SchedTypes, SchedControl
<1>4. ASSUME NEW f \in Libs,
             Unchanged(f) \/ CloseChanged(f) \/ NoSpot(f) \/ PickSlot(f) \/ CloseRemoved(f)
      PROVE  SInv'
  BY Zenon, <1>4, <1>1 DEF Unchanged, CloseChanged, NoSpot, PickSlot, CloseRemoved, Visit,
                    BeginClose, workerVars, imageVars, SchedTypes, SchedControl
<1>5. CASE ScanEnd \/ SweepEnd \/ Dlclose \/ Dlopen \/ Assign \/ Enable
  BY Zenon, <1>5, <1>1 DEF ScanEnd, SweepEnd, Dlclose, Dlopen, Assign, Enable, workerVars,
                    imageVars, SchedTypes, SchedControl
<1>6. CASE DlopenFails \/ DlcloseFails
  <2>1. curr.file \in Libs
    BY Zenon, <1>6 DEF DlopenFails, DlcloseFails, IInv, CurrOutOfUse, Closing, Loading
  <2>2. CASE DlopenFails
    BY Zenon, <2>1, <2>2, <1>1 DEF DlopenFails, workerVars, imageVars, SchedTypes, SchedControl
  <2>3. CASE DlcloseFails
    <3>1. streams_[curr.slot].handle \in Image
      BY Zenon, <2>3 DEF DlcloseFails, IInv, CurrOutOfUse, LiveMapped, Live, Closing, Types
    <3> QED
      BY Zenon, <2>1, <2>3, <3>1, <1>1 DEF DlcloseFails, AfterFailedClose, workerVars,
                                    SchedTypes, SchedControl
  <2> QED
    BY Zenon, <1>6, <2>2, <2>3
<1>7. CASE Drained
  <2>1. 0 \in 0..NLoops /\ 0 < NLoops /\ NLoops \in Int
    BY Zenon, LoopCount
  <2> QED
    BY Zenon, <1>7, <2>1 DEF Drained, NewRequest, workerVars, imageVars, SchedTypes,
                      SchedControl
<1>8. CASE Ask
  <2>1. streams_[curr.slot].file \in Libs
    BY SMTT(60), <1>8 DEF Ask, IInv, CurrOutOfUse, LiveMapped, Live, Closing
  <2>a. asked + 1 \in Loops /\ asked + 1 \in 0..NLoops
    BY Zenon, <1>8, LoopCount DEF Ask, SchedTypes, SchedControl
  <2>2. Queued(asked + 1) \subseteq TaskSet
    BY Zenon, <2>a, QueueRange DEF Queued, SchedTypes
  <2>3. ns_promises' \in [Loops -> Seq(Libs)] /\ signalled' \in [Loops -> BOOLEAN]
    <3>1. Append(ns_promises[asked + 1], streams_[curr.slot].file) \in Seq(Libs)
      BY Zenon, <2>1, <2>a, QueueOps DEF SchedTypes
    <3> QED
      BY Zenon, <1>8, <2>a, <3>1 DEF Ask, AskLoop, SchedTypes
  <2>4. asked' \in 0..NLoops /\ (main' = "ask" => asked' < NLoops)
    BY Zenon, <1>8, <2>a, LoopCount DEF Ask
  <2>5. late' \subseteq TaskSet
    BY Zenon, <1>8, <2>2 DEF Ask, SchedTypes
  <2> QED
    BY Zenon, <1>8, <2>3, <2>4, <2>5
       DEF Ask, AskLoop, workerVars, imageVars, SchedTypes, SchedControl
<1>9. CASE InitAddsTask
  <2>1. Task(curr.file, curr.image) \in TaskSet
    BY Zenon, <1>9 DEF InitAddsTask, IInv, CurrOutOfUse, LoadingFresh, Loading, Types, Task,
                TaskSet
  <2>2. ntasks + 1 \in Nat
    BY Zenon, LoopCount DEF SchedTypes
  <2> QED
    BY Zenon, <1>9, <2>1, <2>2, AddTaskTypes
       DEF InitAddsTask, mainVars, workerVars, imageVars, SchedTypes, SchedControl
<1>10. ASSUME NEW w \in Workers, PushEvent(w) \/ SkipSlot(w) \/ LeaveSlot(w)
       PROVE  SInv'
  BY Zenon, <1>10, <1>1 DEF PushEvent, SkipSlot, LeaveSlot, WorkerFrame, mainVars, imageVars,
                     SchedTypes, SchedControl
<1>11. ASSUME NEW w \in Workers, EnterSlot(w) PROVE SInv'
  <2>1. streams_[pos[w]].file \in Libs
    BY <1>11, LoaderAssumption
       DEF EnterSlot, IInv, LiveMapped, Live, Types, Slots
  <2> QED
    BY Zenon, <1>11, <2>1, <1>1 DEF EnterSlot, WorkerFrame, mainVars, imageVars, SchedTypes,
                             SchedControl
<1>12. ASSUME NEW w \in Workers, StreamAddsTask(w) PROVE SInv'
  <2>1. Task(thread_ns[w], exec[w]) \in TaskSet
    BY Zenon, <1>12 DEF StreamAddsTask, IInv, Types, NoneOr, SchedTypes, Task, TaskSet
  <2>2. ntasks + 1 \in Nat
    BY Zenon, LoopCount DEF SchedTypes
  <2> QED
    BY Zenon, <1>12, <2>1, <2>2, AddTaskTypes
       DEF StreamAddsTask, WorkerFrame, mainVars, workerVars, imageVars, SchedTypes,
           SchedControl
<1>13. ASSUME NEW l \in Loops, Loop(l) PROVE SInv'
  <2>1. CASE LoopStep(l) /\ UNCHANGED ntasks /\ WorkerFrame /\ UNCHANGED workerVars
    BY Zenon, <2>1, LoopStepTypes DEF WorkerFrame, mainVars, workerVars, imageVars
  <2>2. CASE RunningAddsTask(l) /\ ntasks' = ntasks + 1 /\ WorkerFrame
             /\ UNCHANGED workerVars
    <3>1. Task(GlobalNs, running[l].code) \in TaskSet
      BY Zenon, <2>2 DEF RunningAddsTask, SchedControl, Task, TaskSet
    <3>2. ntasks + 1 \in Nat
      BY Zenon, LoopCount DEF SchedTypes
    <3> QED
      BY Zenon, <2>2, <3>1, <3>2, AddTaskTypes
         DEF RunningAddsTask, WorkerFrame, mainVars, workerVars, imageVars, SchedTypes,
             SchedControl
  <2> QED
    BY Zenon, <1>13, <2>1, <2>2 DEF Loop
<1>14. CASE UNCHANGED vars
  BY Zenon, <1>14, <1>1 DEF vars, mainVars, workerVars, imageVars, SchedTypes, SchedControl
<1> QED
  BY Zenon, <1>2, <1>3, <1>4, <1>5, <1>6, <1>7, <1>8, <1>9, <1>10, <1>11, <1>12, <1>13, <1>14
     DEF Next, MainStep, Worker

\* The scheduler starts with empty queues and idle loops.
LEMMA SchedStart == Init => SInv
<1>1. 0 \in 0..NLoops /\ 0 \in Nat /\ 0 \in Int
  BY SchedulerAssumption
<1>2. <<>> \in Seq(TaskSet) /\ <<>> \in Seq(Libs)
  OBVIOUS
<1>3. Init => SchedControl
  BY Zenon DEF Init, SchedInit, SchedControl
<1>4. Init => task_promises \in [Loops -> Seq(TaskSet)] /\ ns_promises \in [Loops -> Seq(Libs)]
  BY <1>2 DEF Init, SchedInit
<1>5. Init => thread_ns \in [Workers -> Libs \cup {GlobalNs}]
  BY Zenon DEF Init
<1> QED
  BY ZenonT(60), <1>1, <1>3, <1>4, <1>5 DEF Init, SchedInit, SInv, SchedTypes

\* The types of the scheduler hold in every reachable state.
THEOREM SchedHolds == Spec => []SInv
  BY InvHolds, SchedStart, SchedStep, PTL DEF Spec

\* Every variable of the loader and of the scheduler keeps its type.
THEOREM TypeCorrect == Spec => []TypeOK
<1>1. IInv /\ SInv => TypeOK
  BY Zenon DEF IInv, Types, SInv, SchedTypes, TypeOK
<1> QED
  BY <1>1, InvHolds, SchedHolds, PTL

-----------------------------------------------------------------------------
(* What load_rules does to the table.                                       *)

\* The main thread is closing or loading f.
Busy(f) == (Closing \/ Loading) /\ curr.file = f

\* The libraries of the scan that the loops have visited are in the table, in
\* the version the scan found, and the table has no other: except for the
\* library being closed or loaded and for those whose load or close failed.
Scanned ==
  /\ main = "idle" => todo = {} /\ unused = {}
  /\ \A f \in unused : so_files[f] = 0 \/ f \in todo
  /\ Loading => so_files[curr.file] # 0
  /\ main = "enable" => streams_[curr.slot].last_write_time = so_files[curr.file]
  /\ \A s \in Slots : streams_[s].used =>
       /\ streams_[s].last_write_time # 0
       /\ \/ streams_[s].file \in todo \cup unused
          \/ so_files[streams_[s].file] = streams_[s].last_write_time
  /\ \A f \in Libs \ (todo \cup failed) :
       so_files[f] # 0 => Busy(f) \/ \E s \in Slots : InUse(s, f)

\* The clock has not passed a file or the time a scan found.
YoungFiles ==
  \A f \in Libs : /\ disk[f] <= clock /\ so_files[f] <= clock
                  /\ disk[f] = 0 \/ so_files[f] <= disk[f]

\* An image that is not pinned is no younger than its file, and is the one
\* of a live slot or of the library that is being loaded.
YoungMapped ==
  \A image \in mapped \ pinned :
    /\ image.version <= clock
    /\ disk[image.file] = 0 \/ image.version <= disk[image.file]
    /\ \/ \E s \in Slots : Live(s) /\ streams_[s].handle = image
       \/ main \in {"init", "enable"} /\ curr.image = image

\* The image being loaded is as young as the scan found its file.
YoungLoading ==
  /\ main \in {"init", "enable"} /\ curr.image \notin pinned =>
       so_files[curr.file] <= curr.image.version
  /\ main = "enable" => streams_[curr.slot].handle = curr.image

\* So is the one of a slot in use.
YoungInUse ==
  \A s \in Slots : streams_[s].used /\ streams_[s].stream \notin pinned =>
    streams_[s].last_write_time <= streams_[s].stream.version

\* An image that no failed dlclose pinned is as young as the file at the time
\* of the scan, and the file is as young as the image, or gone.
Young == YoungFiles /\ YoungMapped /\ YoungLoading /\ YoungInUse

-----------------------------------------------------------------------------
(* The requests of close_library to the loops.                              *)

\* The loops that have yet to serve the request of close_library.
Unserved == {l \in Loops : asked < l \/ ns_promises[l] # <<>>}

\* Only the request of the library being closed is in the queues, once per
\* loop, and the promise is kept when the last loop has served it.
Request ==
  /\ main \notin {"ask", "await"} => \A l \in Loops : ns_promises[l] = <<>>
  /\ main \in {"ask", "await"} =>
       /\ \A l \in Loops : ns_promises[l] \in {<<>>, <<curr.file>>}
       /\ \A l \in Loops : asked < l => ns_promises[l] = <<>>
       /\ pending_loops = Cardinality(Unserved)
       /\ ns_removed <=> pending_loops = 0

\* The tasks that loop l holds.
TasksOf(l) == tasks[l] \cup Queued(l) \cup (IF running[l] = NoTask THEN {} ELSE {running[l]})

\* Tasks that close_library relies on the loops to have dropped.
Owned(k) == k.ns # GlobalNs /\ k \notin late

\* A task filed under a library runs the library's code, and so do the
\* threads that file it.  No task is running outside timer_callback.  Once
\* the slot is deserted, a loop that has served the request keeps no task of
\* the library, and one that is past add_tasks will find none in its queue.
Dropped ==
  /\ \A l \in Loops : running[l] # NoTask => loop_pc[l] = "run"
  /\ \A w \in Workers : exec[w] # None => thread_ns[w] = exec[w].file
  /\ \A l \in Loops : \A k \in TasksOf(l) :
       k.ns # GlobalNs => k.ns = k.code.file
  /\ \A l \in Loops : \A k \in TasksOf(l) : Owned(k) => k.code \in mapped
  /\ main \in {"ask", "await"} =>
       /\ \A w \in Workers : exec[w] # None => exec[w].file # curr.file
       /\ \A l \in Loops \ Unserved : \A k \in TasksOf(l) : Owned(k) => k.ns # curr.file
       /\ \A l \in Loops : asked >= l /\ loop_pc[l] = "remove" =>
            \A k \in Queued(l) : Owned(k) => k.ns # curr.file

-----------------------------------------------------------------------------
\* Steps that change none of what Scanned is about.
LEMMA ScannedFrame ==
  ASSUME Scanned, UNCHANGED <<streams_, main, so_files, todo, unused, curr, failed>>
  PROVE  Scanned'
  BY Zenon DEF Scanned, Busy, InUse, Closing, Loading

\* The ends of the two loops of load_rules and the steps of close_library
\* before dlclose leave the table alone.
LEMMA ScannedSteps ==
  ASSUME IInv, Scanned, Drained \/ Ask \/ ScanEnd \/ SweepEnd
  PROVE  Scanned'
<1>1. UNCHANGED <<streams_, so_files, todo, unused, curr, failed>>
  BY Zenon DEF Drained, Ask, ScanEnd, SweepEnd
<1>2. \A f \in Libs : Busy(f)' <=> Busy(f)
  BY Zenon, <1>1 DEF Drained, Ask, ScanEnd, SweepEnd, Busy, Closing, Loading
<1>3. /\ main # "idle" /\ main' # "enable" /\ ~Loading'
      /\ main' = "idle" => todo = {} /\ unused = {}
  BY Zenon DEF Drained, Ask, ScanEnd, SweepEnd, Loading, IInv, CurrMapTrue
<1> QED
  BY Zenon, <1>1, <1>2, <1>3 DEF Scanned, InUse

\* load_rules begins: the libraries in use are those of unused.
LEMMA ScannedLoadRules ==
  ASSUME IInv, Scanned, LoadRules
  PROVE  Scanned'
<1>1. /\ main' = "scan" /\ so_files' = disk /\ streams_' = streams_
      /\ todo' = {f \in Libs : disk[f] # 0}
      /\ unused' = {f \in Libs : \E s \in Slots : InUse(s, f)}
  BY Zenon DEF LoadRules
<1>2. ASSUME NEW s \in Slots, streams_[s].used
      PROVE  streams_[s].file \in unused' /\ streams_[s].last_write_time # 0
  BY Zenon, <1>1, <1>2 DEF Scanned, IInv, LiveMapped, Live, InUse
<1> QED
  BY Zenon, <1>1, <1>2 DEF Scanned, Busy, Closing, Loading

\* A file is passed over, or a slot is picked for it.
LEMMA ScannedVisits ==
  ASSUME IInv, Scanned, NEW f \in Libs, Unchanged(f) \/ NoSpot(f) \/ PickSlot(f)
  PROVE  Scanned'
<1>1. /\ UNCHANGED <<streams_, so_files>>
      /\ todo' = todo \ {f} /\ unused' = unused \ {f} /\ f \in todo /\ main = "scan"
      /\ main' \in {"scan", "dlopen"} /\ failed \subseteq failed'
      /\ main' = "dlopen" => curr'.file = f
  <2>1. PickSlot(f) => curr'.file = f
    BY DEF PickSlot
  <2>2. ~PickSlot(f) => main' = main
    BY Zenon DEF Unchanged, NoSpot
  <2> QED
    BY Zenon, <2>1, <2>2 DEF Unchanged, NoSpot, PickSlot, Visit
<1>2. so_files[f] # 0
  BY Zenon, <1>1 DEF IInv, CurrMapTrue
<1>3. ASSUME NEW s \in Slots, streams_[s].used, streams_[s].file = f
      PROVE  so_files[f] = streams_[s].last_write_time
  <2>1. curr_map[f] = s
    BY Zenon, <1>1, <1>3 DEF IInv, CurrMapTrue
  <2>2. s # 0
    BY LoaderAssumption DEF Slots
  <2> QED
    BY Zenon, <2>1, <2>2 DEF Unchanged, NoSpot, PickSlot
<1>4. \/ f \in failed' \/ main' = "dlopen"
      \/ \E s \in Slots : InUse(s, f)
  <2>1. CASE Unchanged(f)
    <3>1. InUse(curr_map[f], f) /\ curr_map[f] \in Slots
      BY <1>1, <2>1, LoaderAssumption DEF Unchanged, IInv, CurrMapTrue, Types, Slots
    <3> QED
      BY Zenon, <3>1
  <2> QED
    BY Zenon, <2>1 DEF NoSpot, PickSlot
<1>5. \A g \in Libs : ~Busy(g)
  BY Zenon, <1>1 DEF Busy, Closing, Loading
<1>6. main' = "dlopen" => Busy(f)'
  BY Zenon, <1>1 DEF Busy, Loading
<1>7. ASSUME NEW g \in Libs \ (todo' \cup failed'), so_files[g] # 0
      PROVE  Busy(g)' \/ \E s \in Slots : InUse(s, g)'
  <2>1. CASE g = f
    BY Zenon, <2>1, <1>4, <1>6, <1>7, <1>1 DEF InUse
  <2>2. CASE g # f
    BY Zenon, <2>2, <1>7, <1>1, <1>5 DEF Scanned, InUse
  <2> QED
    BY Zenon, <2>1, <2>2
<1>8. \A s \in Slots : streams_[s].used =>
       /\ streams_[s].last_write_time # 0
       /\ \/ streams_[s].file \in todo' \cup unused'
          \/ so_files[streams_[s].file] = streams_[s].last_write_time
  BY Zenon, <1>1, <1>3 DEF Scanned
<1>9. Loading' => so_files'[curr'.file] # 0
  BY Zenon, <1>1, <1>2 DEF Loading
<1>10. /\ main' # "idle" /\ main' # "enable"
       /\ \A g \in unused' : so_files[g] = 0 \/ g \in todo'
  BY Zenon, <1>1 DEF Scanned
<1> QED
  BY Zenon, <1>1, <1>7, <1>8, <1>9, <1>10 DEF Scanned

\* A library goes out of use: it is the one being closed.
LEMMA ScannedCloses ==
  ASSUME IInv, Scanned, NEW f \in Libs, CloseChanged(f) \/ CloseRemoved(f)
  PROVE  Scanned'
<1>1. /\ UNCHANGED <<so_files, failed>>
      /\ todo' = todo \ {f} /\ unused' = unused \ {f}
      /\ main \in {"scan", "sweep"} /\ main' = "drain" /\ curr'.file = f
      /\ streams_' = [streams_ EXCEPT ![curr_map[f]].used = FALSE]
      /\ f \in todo \cup unused /\ curr_map[f] # 0 /\ curr_map[f] \in Slots
      /\ InUse(curr_map[f], f)
  BY LoaderAssumption
     DEF CloseChanged, CloseRemoved, Visit, BeginClose, IInv, CurrMapTrue, Types, Slots
<1>2. ASSUME NEW s \in Slots
      PROVE  /\ streams_'[s].file = streams_[s].file
             /\ streams_'[s].last_write_time = streams_[s].last_write_time
             /\ streams_'[s].used <=> streams_[s].used /\ s # curr_map[f]
  BY Zenon, <1>1 DEF IInv, Types, SlotType
<1>3. \A s \in Slots : streams_[s].used /\ streams_[s].file = f => s = curr_map[f]
  BY Zenon, <1>1 DEF InUse, IInv, LiveDistinct, Live
<1>4. ASSUME NEW g \in Libs \ (todo' \cup failed'), so_files[g] # 0
      PROVE  Busy(g)' \/ \E s \in Slots : InUse(s, g)'
  <2>1. CASE g = f
    BY Zenon, <2>1, <1>1 DEF Busy, Closing
  <2>2. CASE g # f
    <3>1. PICK s \in Slots : InUse(s, g)
      BY Zenon, <2>2, <1>4, <1>1 DEF Scanned, Busy, Closing, Loading
    <3>2. s # curr_map[f]
      BY Zenon, <2>2, <3>1, <1>1 DEF InUse
    <3> QED
      BY Zenon, <3>1, <3>2, <1>2 DEF InUse
  <2> QED
    BY Zenon, <2>1, <2>2
<1>5. ASSUME NEW s \in Slots, streams_'[s].used
      PROVE  /\ streams_'[s].last_write_time # 0
             /\ \/ streams_'[s].file \in todo' \cup unused'
                \/ so_files[streams_'[s].file] = streams_'[s].last_write_time
  BY <1>1, <1>2, <1>3, <1>5 DEF Scanned
<1>6. /\ main' # "idle" /\ main' # "enable" /\ ~Loading'
      /\ \A g \in unused' : so_files[g] = 0 \/ g \in todo'
  BY Zenon, <1>1 DEF Scanned, Loading
<1> QED
  BY Zenon, <1>1, <1>4, <1>5, <1>6 DEF Scanned

\* The ends of close_library, and load_library: the library is in use with
\* the time the scan found, or it failed.
LEMMA ScannedLoads ==
  ASSUME IInv, Scanned, Dlclose \/ DlcloseFails \/ Dlopen \/ DlopenFails \/ Assign \/ Enable
  PROVE  Scanned'
<1>1. /\ UNCHANGED <<so_files, todo, unused>> /\ failed \subseteq failed'
      /\ main # "idle" /\ main' # "idle" /\ curr.slot \in Slots /\ curr.file \in Libs
      /\ ~streams_[curr.slot].used /\ curr'.file = curr.file /\ curr'.slot = curr.slot
      /\ Closing \/ Loading
  <2>1. curr.slot \in Slots /\ curr.file \in Libs /\ ~streams_[curr.slot].used
    BY Zenon DEF IInv, CurrOutOfUse, Closing, Loading, Dlclose, DlcloseFails, Dlopen, DlopenFails, Assign, Enable
  <2>2. curr'.file = curr.file /\ curr'.slot = curr.slot
    BY Zenon DEF Dlclose, DlcloseFails, Dlopen, DlopenFails, Assign, Enable, IInv, Types
  <2>3. /\ UNCHANGED <<so_files, todo, unused>> /\ failed \subseteq failed'
        /\ main # "idle" /\ main' # "idle"
        /\ Closing \/ Loading
    BY Zenon DEF Dlclose, DlcloseFails, Dlopen, DlopenFails, Assign, Enable, Closing, Loading, AfterFailedClose
  <2> QED
    BY Zenon, <2>1, <2>2, <2>3
<1>2. ASSUME NEW s \in Slots, s # curr.slot
      PROVE  streams_'[s] = streams_[s]
  BY Zenon, <1>1, <1>2 DEF Dlclose, DlcloseFails, Dlopen, DlopenFails, Assign, Enable, IInv, Types
<1>3. streams_'[curr.slot].used <=> main = "enable"
  <2>1. streams_ \in [Slots -> SlotType]
    BY Zenon DEF IInv, Types
  <2>2. CASE Dlclose \/ DlcloseFails
    BY Zenon, <1>1, <2>1, <2>2 DEF Dlclose, DlcloseFails, SlotType
  <2>3. CASE Dlopen \/ DlopenFails
    BY Zenon, <1>1, <2>3 DEF Dlopen, DlopenFails
  <2>4. CASE Assign \/ Enable
    BY Zenon, <1>1, <2>1, <2>4 DEF Assign, Enable, SlotType
  <2> QED
    BY Zenon, <2>2, <2>3, <2>4
<1>4. /\ Loading' => so_files[curr.file] # 0
      /\ main' = "enable" => streams_'[curr.slot].last_write_time = so_files[curr.file]
  <2>1. CASE Dlclose
    BY Zenon, <2>1 DEF Dlclose, Loading
  <2>2. CASE Assign
    BY Zenon, <2>2, <1>1 DEF Assign, Loading, Scanned, IInv, Types, SlotType
  <2>3. CASE DlcloseFails \/ Dlopen \/ DlopenFails \/ Enable
    BY Zenon, <2>3 DEF DlcloseFails, AfterFailedClose, Dlopen, DlopenFails, Enable, Loading, Scanned
  <2> QED
    BY Zenon, <2>1, <2>2, <2>3
<1>5. ASSUME main = "enable"
      PROVE  /\ streams_'[curr.slot].last_write_time = so_files[curr.file]
             /\ streams_'[curr.slot].file = curr.file
             /\ so_files[curr.file] # 0
  BY <1>5, <1>1 DEF Scanned, IInv, LoadingFresh, Types, SlotType, Loading, Enable, Dlclose,
     DlcloseFails, Dlopen, DlopenFails, Assign
<1>6. ASSUME NEW s \in Slots, streams_'[s].used
      PROVE  /\ streams_'[s].last_write_time # 0
             /\ \/ streams_'[s].file \in todo' \cup unused'
                \/ so_files[streams_'[s].file] = streams_'[s].last_write_time
  BY Zenon, <1>1, <1>2, <1>3, <1>5, <1>6 DEF Scanned
<1>7. Busy(curr.file)' \/ curr.file \in failed' \/ (main = "enable" /\ main' = "scan")
        \/ so_files[curr.file] = 0
  BY Zenon, <1>1 DEF Dlclose, DlcloseFails, Dlopen, DlopenFails, Assign, Enable, Busy, Closing, Loading
<1>8. ASSUME NEW g \in Libs \ (todo' \cup failed'), so_files[g] # 0
      PROVE  Busy(g)' \/ \E s \in Slots : InUse(s, g)'
  <2>1. CASE g = curr.file
    BY Zenon, <2>1, <1>7, <1>8, <1>3, <1>5, <1>1 DEF InUse
  <2>2. CASE g # curr.file
    <3>1. PICK s \in Slots : InUse(s, g)
      BY Zenon, <2>2, <1>8, <1>1 DEF Scanned, Busy
    <3>2. s # curr.slot
      BY Zenon, <3>1, <1>1 DEF InUse
    <3> QED
      BY Zenon, <3>1, <3>2, <1>2 DEF InUse
  <2> QED
    BY Zenon, <2>1, <2>2
<1>9. \A g \in unused' : so_files[g] = 0 \/ g \in todo'
  BY Zenon, <1>1 DEF Scanned
<1> QED
  BY Zenon, <1>1, <1>4, <1>6, <1>8, <1>9 DEF Scanned

\* Every step keeps Scanned.
LEMMA ScannedStep == IInv /\ Scanned /\ [Next]_vars => Scanned'
<1> SUFFICES ASSUME IInv, Scanned, [Next]_vars PROVE Scanned'
  BY Zenon
<1>1. ASSUME NEW f \in Libs, Deploy(f) \/ Undeploy(f) PROVE Scanned'
  BY Zenon, <1>1, ScannedFrame DEF Deploy, Undeploy, mainVars
<1>2. ASSUME NEW w \in Workers, PushEvent(w) \/ Worker(w) PROVE Scanned'
  BY Zenon, <1>2, ScannedFrame
     DEF PushEvent, Worker, SkipSlot, EnterSlot, StreamAddsTask, LeaveSlot, WorkerFrame, mainVars
<1>3. ASSUME NEW l \in Loops, Loop(l) PROVE Scanned'
  BY Zenon, <1>3, ScannedFrame DEF Loop, WorkerFrame, mainVars
<1>4. CASE InitAddsTask \/ UNCHANGED vars
  BY Zenon, <1>4, ScannedFrame DEF InitAddsTask, vars, mainVars
<1>5. CASE MainStep
  BY Zenon, <1>4, <1>5, ScannedSteps, ScannedVisits, ScannedCloses, ScannedLoads DEF MainStep
<1> QED
  BY Zenon, <1>1, <1>2, <1>3, <1>4, <1>5, ScannedLoadRules DEF Next

\* The table is empty before the first scan.
LEMMA ScannedInit == Init => Scanned
  BY DEF Init, EmptySlot, Scanned, Loading

\* load_rules closes a library only when its file was written since it was
\* loaded or is gone: CloseChanged compares the times, and what is left in
\* unused after the scan has no file.
THEOREM OnlyChangedAreClosed == Spec => OnlyChangedClosed
<1>1. ASSUME IInv, Scanned, [Next]_vars, NEW s \in Slots, streams_[s].used, ~streams_'[s].used
      PROVE  so_files[streams_[s].file] # streams_[s].last_write_time
  <2>1. ASSUME NEW f \in Libs, CloseChanged(f) \/ CloseRemoved(f)
        PROVE  so_files[streams_[s].file] # streams_[s].last_write_time
    <3>1. /\ streams_' = [streams_ EXCEPT ![curr_map[f]].used = FALSE]
          /\ curr_map[f] # 0 /\ InUse(curr_map[f], f)
      BY Zenon, <1>1, <2>1 DEF CloseChanged, CloseRemoved, Visit, BeginClose, IInv, CurrMapTrue
    <3>2. s = curr_map[f] /\ streams_[s].file = f
      BY Zenon, <1>1, <3>1 DEF InUse, IInv, Types, SlotType
    <3>3. CASE CloseChanged(f)
      BY Zenon, <3>2, <3>3 DEF CloseChanged
    <3>4. CASE CloseRemoved(f)
      BY Zenon, <3>2, <3>4, <1>1 DEF CloseRemoved, IInv, CurrMapTrue, Scanned
    <3> QED
      BY Zenon, <2>1, <3>3, <3>4
  <2>2. CASE UNCHANGED streams_
    BY Zenon, <2>2, <1>1
  <2>3. CASE Dlclose \/ Assign \/ Enable
    <3>1. curr.slot \in Slots /\ ~streams_[curr.slot].used /\ streams_ \in [Slots -> SlotType]
      BY Zenon, <1>1, <2>3 DEF Dlclose, Assign, Enable, IInv, Types, CurrOutOfUse, Closing, Loading
    <3>2. s # curr.slot => streams_'[s] = streams_[s]
      BY Zenon, <2>3, <3>1 DEF Dlclose, Assign, Enable
    <3> QED
      BY Zenon, <1>1, <3>1, <3>2
  <2> QED
    BY Zenon, <1>1, <2>1, <2>2, <2>3
       DEF Next, vars, MainStep, LoadRules, Deploy, Undeploy, Unchanged, NoSpot,
           PickSlot, ScanEnd, SweepEnd, Drained, Ask, DlcloseFails, Dlopen,
           DlopenFails, InitAddsTask, PushEvent, Worker, SkipSlot, EnterSlot,
           StreamAddsTask, LeaveSlot, WorkerFrame, Loop
<1>2. IInv /\ Scanned /\ [Next]_vars =>
        [\A s \in Slots : streams_[s].used /\ ~streams_'[s].used =>
           so_files[streams_[s].file] # streams_[s].last_write_time]_vars
  BY Zenon, <1>1
<1> QED
  BY <1>2, InvHolds, ScannedInit, ScannedStep, PTL DEF Spec, OnlyChangedClosed

\* When load_rules has returned, nothing is left to visit.
LEMMA ScannedMatches == IInv /\ Scanned => TableMatchesScan
<1> SUFFICES ASSUME IInv, Scanned, main = "idle", NEW f \in Libs \ failed,
                    NEW t \in 1..MaxTime
             PROVE  so_files[f] = t <=> \E s \in Slots :
                      InUse(s, f) /\ streams_[s].last_write_time = t
  BY Zenon DEF TableMatchesScan
<1>1. todo = {} /\ unused = {} /\ ~Busy(f)
  BY Zenon DEF Scanned, Busy, Closing, Loading
<1>2. \A s \in Slots : InUse(s, f) => so_files[f] = streams_[s].last_write_time
  BY Zenon, <1>1 DEF Scanned, InUse
<1>3. so_files[f] # 0 => \E s \in Slots : InUse(s, f)
  BY Zenon, <1>1 DEF Scanned
<1>4. t # 0
  BY LoaderAssumption
<1> QED
  BY Zenon, <1>2, <1>3, <1>4

-----------------------------------------------------------------------------
\* Steps that leave the images and the directory alone, and in which the
\* slots in use are among those that were, and the live slots stay live.
LEMMA YoungFrame ==
  ASSUME Young, UNCHANGED <<disk, clock, so_files, mapped, pinned>>,
         \A s \in Slots : /\ streams_'[s].used => streams_[s].used
                          /\ streams_'[s].handle = streams_[s].handle
                          /\ streams_'[s].stream = streams_[s].stream
                          /\ streams_'[s].last_write_time = streams_[s].last_write_time
                          /\ Live(s) => Live(s)',
         \/ main' \notin {"init", "enable"} /\ main \notin {"init", "enable"}
         \/ UNCHANGED <<main, curr, streams_>>
  PROVE  Young'
<1>1. YoungFiles'
  BY Zenon DEF Young, YoungFiles
<1>2. YoungMapped'
  <2> SUFFICES ASSUME NEW image \in mapped \ pinned
      PROVE  /\ image.version <= clock
             /\ disk[image.file] = 0 \/ image.version <= disk[image.file]
             /\ \/ \E s \in Slots : Live(s)' /\ streams_'[s].handle = image
                \/ main' \in {"init", "enable"} /\ curr'.image = image
    BY Zenon DEF YoungMapped
  <2>1. /\ image.version <= clock
        /\ disk[image.file] = 0 \/ image.version <= disk[image.file]
        /\ \/ \E s \in Slots : Live(s) /\ streams_[s].handle = image
           \/ main \in {"init", "enable"} /\ curr.image = image
    BY Zenon DEF Young, YoungMapped
  <2>2. main \in {"init", "enable"} => main' = main /\ curr' = curr
    BY Zenon
  <2>3. \A s \in Slots : Live(s) => Live(s)' /\ streams_'[s].handle = streams_[s].handle
    BY Zenon
  <2> QED
    BY Zenon, <2>1, <2>2, <2>3
<1>3. YoungLoading'
  <2>1. CASE main' \notin {"init", "enable"}
    BY Zenon, <2>1 DEF YoungLoading
  <2>2. CASE UNCHANGED <<main, curr, streams_>>
    BY Zenon, <2>2 DEF Young, YoungLoading
  <2> QED
    BY Zenon, <2>1, <2>2
<1>4. YoungInUse'
  BY Zenon DEF Young, YoungInUse
<1> QED
  BY Zenon, <1>1, <1>2, <1>3, <1>4 DEF Young

\* A write to the directory is younger than everything seen before.
LEMMA YoungDisk ==
  ASSUME IInv, Young, NEW f \in Libs, Deploy(f) \/ Undeploy(f)
  PROVE  Young'
<1>1. /\ UNCHANGED <<mapped, pinned, streams_, main, so_files, curr>>
      /\ \A s \in Slots : Live(s)' <=> Live(s)
  BY Zenon DEF Deploy, Undeploy, imageVars, mainVars, Live, Closing
<1>2. /\ clock \in Nat /\ clock' \in Nat /\ clock <= clock'
      /\ \A g \in Libs : /\ disk[g] \in Nat /\ disk'[g] \in Nat /\ so_files[g] \in Nat
                         /\ disk'[g] = disk[g] \/ disk'[g] = 0 \/ disk'[g] = clock + 1
                         /\ disk'[g] = clock + 1 => clock' = clock + 1
  <2>1. disk \in [Libs -> Nat] /\ so_files \in [Libs -> Nat] /\ clock \in Nat
    BY Zenon DEF IInv, Types
  <2>2. \/ clock' = clock + 1 /\ disk' = [disk EXCEPT ![f] = clock + 1]
        \/ clock' = clock /\ disk' = [disk EXCEPT ![f] = 0]
    BY Zenon DEF Deploy, Undeploy
  <2>3. \A g \in Libs : disk[g] <= clock
    BY Zenon DEF Young, YoungFiles
  <2> QED
    BY <2>1, <2>2, <2>3
<1>3. \A g \in Libs : disk'[g] <= clock' /\ so_files[g] <= clock'
                      /\ (disk'[g] = 0 \/ so_files[g] <= disk'[g])
  <2>1. \A g \in Libs : disk[g] <= clock /\ so_files[g] <= clock
                        /\ (disk[g] = 0 \/ so_files[g] <= disk[g])
    BY Zenon DEF Young, YoungFiles
  <2> QED
    BY <1>2, <2>1
<1>4. ASSUME NEW image \in mapped \ pinned
      PROVE  image.version <= clock' /\ (disk'[image.file] = 0 \/ image.version <= disk'[image.file])
  <2>1. image.version \in Nat /\ image.file \in Libs
    BY Zenon DEF IInv, Types, Image
  <2>2. image.version <= clock /\ (disk[image.file] = 0 \/ image.version <= disk[image.file])
    BY Zenon DEF Young, YoungMapped
  <2> QED
    BY <2>1, <2>2, <1>2
<1>5. YoungMapped'
  BY Zenon, <1>1, <1>4 DEF Young, YoungMapped
<1>6. YoungLoading' /\ YoungInUse'
  BY Zenon, <1>1 DEF Young, YoungLoading, YoungInUse
<1> QED
  BY Zenon, <1>1, <1>3, <1>5, <1>6 DEF Young, YoungFiles

\* A scan finds the files as they are.
LEMMA YoungLoadRules ==
  ASSUME IInv, Young, LoadRules
  PROVE  Young'
<1>1. /\ UNCHANGED <<mapped, pinned, streams_, disk, clock>> /\ so_files' = disk
      /\ main = "idle" /\ main' = "scan"
  BY Zenon DEF LoadRules, imageVars, diskVars
<1>2. \A s \in Slots : Live(s) => Live(s)'
  BY Zenon, <1>1 DEF Live, Closing
<1>3. \A f \in Libs : disk[f] \in Nat
  BY Zenon DEF IInv, Types
<1>4. \A f \in Libs : disk[f] <= disk[f]
  BY <1>3
<1>5. YoungFiles'
  BY Zenon, <1>1, <1>4 DEF Young, YoungFiles
<1>6. YoungMapped'
  BY Zenon, <1>1, <1>2 DEF Young, YoungMapped
<1>7. YoungLoading' /\ YoungInUse'
  BY Zenon, <1>1 DEF Young, YoungLoading, YoungInUse
<1> QED
  BY Zenon, <1>5, <1>6, <1>7 DEF Young

\* A library that goes out of use stays live.
LEMMA YoungCloses ==
  ASSUME IInv, Young, NEW f \in Libs, CloseChanged(f) \/ CloseRemoved(f)
  PROVE  Young'
<1>1. /\ UNCHANGED <<disk, clock, so_files, mapped, pinned>>
      /\ main \in {"scan", "sweep"} /\ main' = "drain" /\ curr'.slot = curr_map[f]
      /\ streams_' = [streams_ EXCEPT ![curr_map[f]].used = FALSE]
  BY DEF CloseChanged, CloseRemoved, Visit, BeginClose, diskVars, imageVars
<1>2. ASSUME NEW s \in Slots
      PROVE  /\ streams_'[s].handle = streams_[s].handle
             /\ streams_'[s].stream = streams_[s].stream
             /\ streams_'[s].last_write_time = streams_[s].last_write_time
             /\ streams_'[s].used <=> streams_[s].used /\ s # curr_map[f]
  BY Zenon, <1>1 DEF IInv, Types, SlotType
<1>3. \A s \in Slots : Live(s) => Live(s)'
  BY Zenon, <1>1, <1>2 DEF Live, Closing
<1> QED
  BY Zenon, <1>1, <1>2, <1>3, YoungFrame

\* Steps of the main thread that leave the slots and the images alone.
LEMMA YoungKeeps ==
  ASSUME IInv, Young, \/ ScanEnd \/ SweepEnd \/ Drained \/ Ask \/ DlopenFails
                      \/ \E f \in Libs : Unchanged(f) \/ NoSpot(f) \/ PickSlot(f)
  PROVE  Young'
<1>1. /\ UNCHANGED <<disk, clock, so_files, mapped, pinned, streams_>>
      /\ main' \notin {"init", "enable"} /\ main \notin {"init", "enable"}
      /\ Closing => Closing' /\ UNCHANGED curr
  BY Zenon DEF ScanEnd, SweepEnd, Drained, Ask, DlopenFails, Unchanged, NoSpot, PickSlot, Visit,
     diskVars, imageVars, Closing
<1>2. \A s \in Slots : Live(s) => Live(s)'
  BY Zenon, <1>1 DEF Live
<1> QED
  BY Zenon, <1>1, <1>2, YoungFrame

\* dlclose unmaps the image of the slot, or pins it.
LEMMA YoungDlclose ==
  ASSUME IInv, Young, Dlclose \/ DlcloseFails
  PROVE  Young'
<1> DEFINE image == streams_[curr.slot].handle
<1>1. /\ UNCHANGED <<disk, clock, so_files, curr>> /\ main = "await" /\ ~streams_[curr.slot].used
      /\ main' \notin {"init", "enable"} /\ curr.slot \in Slots
      /\ mapped' \subseteq mapped /\ pinned \subseteq pinned' /\ image \notin mapped' \ pinned'
  BY Zenon DEF Dlclose, DlcloseFails, AfterFailedClose, diskVars, IInv, CurrOutOfUse, Closing
<1>2. \A s \in Slots : s # curr.slot => streams_'[s] = streams_[s]
  BY Zenon, <1>1 DEF Dlclose, DlcloseFails, IInv, Types
<1>3. ~streams_'[curr.slot].used
  BY <1>1 DEF Dlclose, DlcloseFails, IInv, Types, SlotType
<1>4. ASSUME NEW i \in mapped' \ pinned'
      PROVE  \E s \in Slots : Live(s)' /\ streams_'[s].handle = i
  <2>1. PICK s \in Slots : Live(s) /\ streams_[s].handle = i
    BY Zenon, <1>1 DEF Young, YoungFiles, YoungMapped, YoungLoading, YoungInUse
  <2>2. s # curr.slot
    BY Zenon, <1>1, <2>1
  <2> QED
    BY Zenon, <2>1, <2>2, <1>2 DEF Live
<1> HIDE DEF image
<1>5. \A i \in mapped' \ pinned' : i \in mapped \ pinned
  BY Zenon, <1>1
<1> QED
  BY Zenon, <1>1, <1>2, <1>3, <1>4, <1>5 DEF Young, YoungFiles, YoungMapped, YoungLoading, YoungInUse

\* dlopen maps the file as it is, which is as young as the scan found it; an
\* image of the file that was mapped already is a pinned one.
LEMMA YoungDlopen ==
  ASSUME IInv, Young, Dlopen
  PROVE  Young'
<1>1. /\ UNCHANGED <<disk, clock, so_files, streams_, pinned>> /\ main = "dlopen" /\ main' = "init"
      /\ curr'.file = curr.file /\ curr'.slot = curr.slot /\ curr.file \in Libs
  BY Zenon DEF Dlopen, diskVars, imageVars, IInv, Types, CurrOutOfUse, Loading
<1>2. \A s \in Slots : Live(s)' <=> Live(s)
  BY Zenon, <1>1 DEF Live, Closing
<1>3. CASE \E image \in mapped :
             /\ image.file = curr.file /\ curr' = [curr EXCEPT !.image = image]
             /\ UNCHANGED mapped
  <2>1. PICK image \in mapped : image.file = curr.file /\ curr'.image = image
    BY Zenon, <1>3 DEF IInv, Types
  <2>2. image \in pinned
    <3>1. SUFFICES ASSUME image \notin pinned PROVE FALSE
      BY Zenon
    <3>2. PICK s \in Slots : Live(s) /\ streams_[s].handle = image
      BY Zenon, <3>1, <1>1 DEF Young, YoungFiles, YoungMapped, YoungLoading, YoungInUse
    <3> QED
      BY <3>2, <2>1, <1>1 DEF Live, Closing, Loading, IInv, LiveMapped, LoadingFresh
  <2> QED
    BY Zenon, <1>1, <1>2, <1>3, <2>1, <2>2 DEF Young, YoungFiles, YoungMapped, YoungLoading, YoungInUse
<1>4. CASE /\ disk[curr.file] # 0
           /\ curr'.image.file = curr.file /\ curr'.image.version = disk[curr.file]
           /\ mapped' = mapped \cup {curr'.image}
  <2>1. disk[curr.file] \in Nat /\ disk[curr.file] <= clock /\ so_files[curr.file] <= disk[curr.file]
    BY Zenon, <1>1, <1>4 DEF Young, YoungFiles, IInv, Types
  <2>2. \A i \in mapped' \ pinned' : i \in mapped \ pinned \/ i = curr'.image
    BY Zenon, <1>1, <1>4
  <2>3. disk[curr.file] <= disk[curr.file]
    BY <2>1
  <2>4. YoungMapped'
    <3> SUFFICES ASSUME NEW i \in mapped' \ pinned'
        PROVE  /\ i.version <= clock
               /\ disk[i.file] = 0 \/ i.version <= disk[i.file]
               /\ \/ \E s \in Slots : Live(s)' /\ streams_[s].handle = i
                  \/ curr'.image = i
      BY Zenon, <1>1 DEF YoungMapped
    <3>1. CASE i \in mapped \ pinned
      BY Zenon, <1>1, <1>2, <3>1 DEF Young, YoungMapped
    <3>2. CASE i = curr'.image
      BY Zenon, <1>4, <2>1, <2>3, <3>2
    <3> QED
      BY Zenon, <2>2, <3>1, <3>2
  <2>5. YoungLoading'
    BY Zenon, <1>1, <1>4, <2>1 DEF YoungLoading
  <2>6. YoungFiles' /\ YoungInUse'
    BY Zenon, <1>1 DEF Young, YoungFiles, YoungInUse
  <2> QED
    BY Zenon, <2>4, <2>5, <2>6 DEF Young
<1>5. CASE \E image \in mapped : image.file = curr.file /\ curr' = [curr EXCEPT !.image = image]
                                 /\ UNCHANGED imageVars
  BY Zenon, <1>5, <1>3 DEF imageVars
<1> QED
  BY <1>4, <1>5 DEF Dlopen, IInv, Types

\* The slot gets the image and the time of the scan, and comes into use.
LEMMA YoungLoads ==
  ASSUME IInv, Scanned, Young, Assign \/ Enable
  PROVE  Young'
<1>1. /\ UNCHANGED <<disk, clock, so_files, mapped, pinned, curr>>
      /\ curr.slot \in Slots /\ ~streams_[curr.slot].used /\ Loading /\ ~Closing /\ ~Closing'
      /\ main \in {"init", "enable"}
  BY Zenon DEF Assign, Enable, diskVars, imageVars, IInv, CurrOutOfUse, Loading, Closing
<1>2. ASSUME NEW s \in Slots, s # curr.slot
      PROVE  streams_'[s] = streams_[s]
  BY Zenon, <1>1, <1>2 DEF Assign, Enable, IInv, Types
<1>3. ASSUME NEW s \in Slots, Live(s)
      PROVE  s # curr.slot /\ Live(s)'
  BY Zenon, <1>3, <1>2, <1>1 DEF Live
<1>4. CASE Assign
  <2>1. ~streams_'[curr.slot].used /\ streams_'[curr.slot].handle = curr.image
    BY Zenon, <1>4, <1>1 DEF Assign, IInv, Types, SlotType
  <2>2. main = "init" /\ main' = "enable"
    BY Zenon, <1>4 DEF Assign
  <2>3. YoungMapped'
    BY Zenon, <1>1, <1>2, <1>3, <2>2 DEF Young, YoungMapped
  <2>4. YoungLoading'
    BY Zenon, <1>1, <2>1, <2>2 DEF Young, YoungLoading
  <2>5. YoungInUse'
    BY Zenon, <1>1, <1>2, <2>1 DEF Young, YoungInUse
  <2>6. YoungFiles'
    BY Zenon, <1>1 DEF Young, YoungFiles
  <2> QED
    BY Zenon, <2>3, <2>4, <2>5, <2>6 DEF Young
<1>5. CASE Enable
  <2>1. /\ streams_'[curr.slot].used /\ streams_'[curr.slot].handle = streams_[curr.slot].handle
        /\ streams_'[curr.slot].stream = streams_[curr.slot].stream
        /\ streams_'[curr.slot].last_write_time = streams_[curr.slot].last_write_time
    BY Zenon, <1>5, <1>1 DEF Enable, IInv, Types, SlotType
  <2>2. main = "enable" /\ main' = "scan"
    BY Zenon, <1>5 DEF Enable
  <2>3. /\ streams_[curr.slot].handle = curr.image /\ streams_[curr.slot].stream = curr.image
        /\ streams_[curr.slot].last_write_time = so_files[curr.file]
    BY Zenon, <2>2 DEF IInv, LoadingFresh, Scanned, Young, YoungLoading
  <2>4. Live(curr.slot)'
    BY Zenon, <1>1, <2>1 DEF Live
  <2>5. YoungMapped'
    <3> SUFFICES ASSUME NEW image \in mapped \ pinned
        PROVE  /\ image.version <= clock
               /\ disk[image.file] = 0 \/ image.version <= disk[image.file]
               /\ \E s \in Slots : Live(s)' /\ streams_'[s].handle = image
      BY Zenon, <1>1 DEF YoungMapped
    <3>1. /\ image.version <= clock
          /\ disk[image.file] = 0 \/ image.version <= disk[image.file]
          /\ curr.image = image \/ \E s \in Slots : Live(s) /\ streams_[s].handle = image
      BY Zenon DEF Young, YoungMapped
    <3>2. CASE curr.image = image
      BY Zenon, <1>1, <2>1, <2>3, <2>4, <3>1, <3>2
    <3>3. CASE \E s \in Slots : Live(s) /\ streams_[s].handle = image
      BY Zenon, <1>2, <1>3, <3>1, <3>3
    <3> QED
      BY Zenon, <3>1, <3>2, <3>3
  <2>6. YoungInUse'
    <3>1. curr.image \notin pinned => so_files[curr.file] <= curr.image.version
      BY Zenon, <2>2 DEF Young, YoungLoading
    <3> QED
      BY Zenon, <1>1, <1>2, <2>1, <2>3, <3>1 DEF Young, YoungInUse
  <2>7. YoungFiles' /\ YoungLoading'
    BY Zenon, <1>1, <2>2 DEF Young, YoungFiles, YoungLoading
  <2> QED
    BY Zenon, <2>5, <2>6, <2>7 DEF Young
<1> QED
  BY Zenon, <1>4, <1>5

\* Every step keeps Young.
LEMMA YoungStep == IInv /\ Scanned /\ Young /\ [Next]_vars => Young'
<1> SUFFICES ASSUME IInv, Scanned, Young, [Next]_vars PROVE Young'
  BY Zenon
<1>0. ASSUME UNCHANGED <<diskVars, imageVars, streams_, mainVars>> PROVE Young'
  <2>1. UNCHANGED <<disk, clock, so_files, mapped, pinned, main, curr, streams_>>
    BY Zenon, <1>0 DEF diskVars, imageVars, mainVars
  <2> QED
    BY Zenon, <2>1, YoungFrame DEF Live, Closing
<1>2. ASSUME NEW w \in Workers, PushEvent(w) \/ Worker(w) PROVE Young'
  BY Zenon, <1>0, <1>2
     DEF PushEvent, Worker, SkipSlot, EnterSlot, StreamAddsTask, LeaveSlot, WorkerFrame
<1>3. ASSUME NEW l \in Loops, Loop(l) PROVE Young'
  BY Zenon, <1>0, <1>3 DEF Loop, WorkerFrame
<1>4. CASE InitAddsTask \/ UNCHANGED vars
  BY Zenon, <1>0, <1>4 DEF InitAddsTask, vars
<1>5. CASE MainStep
  BY Zenon, <1>4, <1>5, YoungCloses, YoungKeeps, YoungDlclose, YoungDlopen, YoungLoads
     DEF MainStep
<1> QED
  BY Zenon, <1>2, <1>3, <1>4, <1>5, YoungDisk, YoungLoadRules DEF Next

\* No image is mapped at the start.
LEMMA YoungInit == Init => Young
<1> SUFFICES ASSUME Init PROVE Young
  BY Zenon
<1>1. /\ mapped = {} /\ main = "idle" /\ clock = 1
      /\ \A s \in Slots : ~streams_[s].used
  BY Zenon DEF Init, EmptySlot
<1>2. \A f \in Libs : disk[f] \in {0, 1} /\ so_files[f] = 0
  BY Zenon DEF Init
<1> QED
  BY <1>1, <1>2 DEF Young, YoungFiles, YoungMapped, YoungLoading, YoungInUse

\* A library taken for unchanged runs the version in the directory.
LEMMA YoungIsCurrent == IInv /\ Scanned /\ Young => UnchangedIsCurrent
<1> SUFFICES ASSUME IInv, Scanned, Young, NEW s \in Slots, streams_[s].used,
                    streams_[s].stream \notin pinned,
                    disk[streams_[s].file] = streams_[s].last_write_time
             PROVE  streams_[s].stream.version = disk[streams_[s].file]
  BY Zenon DEF UnchangedIsCurrent
<1>1. /\ streams_[s].stream \in mapped \ pinned /\ streams_[s].stream.file = streams_[s].file
      /\ streams_[s].file \in Libs
  BY Zenon DEF IInv, LiveMapped, Live
<1>2. disk[streams_[s].file] # 0
  BY Zenon DEF Scanned
<1>3. /\ streams_[s].last_write_time <= streams_[s].stream.version
      /\ streams_[s].stream.version <= disk[streams_[s].file]
  BY Zenon, <1>1, <1>2 DEF Young, YoungFiles, YoungMapped, YoungLoading, YoungInUse
<1>4. disk[streams_[s].file] \in Nat /\ streams_[s].stream.version \in Nat
  BY Zenon, <1>1 DEF IInv, Types, Image
<1> QED
  BY <1>3, <1>4

-----------------------------------------------------------------------------
\* The loops a request waits for are finitely many, and none is left exactly
\* when their number is zero.
LEMMA UnservedFinite ==
  /\ IsFiniteSet(Unserved) /\ Cardinality(Unserved) \in Nat
  /\ Cardinality(Unserved) = 0 <=> Unserved = {}
  /\ IsFiniteSet(Loops) /\ Cardinality(Loops) = NLoops
<1>1. IsFiniteSet(Loops) /\ Cardinality(Loops) = NLoops
  BY FS_Interval, SchedulerAssumption DEF Loops
<1>2. Unserved \subseteq Loops
  BY Zenon DEF Unserved
<1>3. IsFiniteSet(Unserved)
  BY Zenon, <1>1, <1>2, FS_Subset
<1> QED
  BY Zenon, <1>1, <1>3, FS_CardinalityType, FS_EmptySet

\* Steps outside the request.
LEMMA RequestFrame ==
  ASSUME Request, UNCHANGED <<ns_promises, asked, pending_loops, ns_removed>>,
         \/ UNCHANGED <<main, curr>>
         \/ main \notin {"ask", "await"} /\ main' \notin {"ask", "await"}
  PROVE  Request'
<1>1. UNCHANGED Unserved
  BY Zenon DEF Unserved
<1> QED
  BY Zenon, <1>1 DEF Request

\* The request counts every loop.
LEMMA RequestBegins ==
  ASSUME Request, Drained
  PROVE  Request'
<1>1. /\ main = "drain" /\ main' = "ask" /\ asked' = 0 /\ UNCHANGED ns_promises
      /\ pending_loops' = NLoops /\ ns_removed' = FALSE
  BY Zenon DEF Drained, NewRequest
<1>2. \A l \in Loops : ns_promises'[l] = <<>>
  BY Zenon, <1>1 DEF Request
<1>3. Unserved' = Loops
  BY <1>1, SchedulerAssumption DEF Unserved, Loops
<1>4. pending_loops' # 0
  BY Zenon, <1>1, SchedulerAssumption
<1> QED
  BY Zenon, <1>1, <1>2, <1>3, <1>4, UnservedFinite DEF Request

\* A loop that is asked is unserved before and after.
LEMMA RequestAsks ==
  ASSUME IInv, SInv, Request, Ask
  PROVE  Request' /\ Unserved' = Unserved
<1> DEFINE l == asked + 1
<1>1. /\ main = "ask" /\ main' \in {"ask", "await"} /\ asked' = l
      /\ UNCHANGED <<curr, pending_loops, ns_removed>>
      /\ ns_promises' = [ns_promises EXCEPT ![l] = Append(@, streams_[curr.slot].file)]
  BY Zenon DEF Ask, AskLoop
<1>2. l \in Loops /\ asked < l /\ \A i \in Loops : asked < i <=> i = l \/ l < i
  BY <1>1, SchedulerAssumption DEF SInv, SchedTypes, SchedControl, Loops
<1>3. streams_[curr.slot].file = curr.file
  BY Zenon, <1>1 DEF IInv, CurrOutOfUse, Closing
<1>4. ns_promises[l] = <<>>
  BY Zenon, <1>1, <1>2 DEF Request
<1> HIDE DEF l
<1>5. /\ ns_promises'[l] = <<curr.file>>
      /\ \A i \in Loops : i # l => ns_promises'[i] = ns_promises[i]
  BY <1>1, <1>2, <1>3, <1>4 DEF SInv, SchedTypes
<1>6. Unserved' = Unserved
  <2>1. <<curr.file>> # <<>>
    BY Zenon
  <2>2. \A i \in Loops : (asked' < i \/ ns_promises'[i] # <<>>) <=> (asked < i \/ ns_promises[i] # <<>>)
    BY Zenon, <1>1, <1>2, <1>5, <2>1
  <2> QED
    BY Zenon, <2>2 DEF Unserved
<1>7. \A i \in Loops : l < i => i # l /\ asked < i
  BY <1>2, SchedulerAssumption DEF Loops
<1> QED
  BY Zenon, <1>1, <1>5, <1>6, <1>7 DEF Request

\* A loop serves the request: one less is unserved.
LEMMA RequestServed ==
  ASSUME SInv, Request, NEW l \in Loops, RemoveNsTasks(l), UNCHANGED <<main, curr, asked>>
  PROVE  /\ Request' /\ main \in {"ask", "await"} /\ ns_promises[l] = <<curr.file>>
         /\ ~(asked < l) /\ ns_promises'[l] = <<>>
<1>1. /\ ns_promises[l] # <<>>
      /\ ns_promises' = [ns_promises EXCEPT ![l] = Tail(@)]
      /\ pending_loops' = pending_loops - 1
      /\ ns_removed' = (ns_removed \/ pending_loops = 1)
  BY Zenon DEF RemoveNsTasks
<1>2. main \in {"ask", "await"} /\ ns_promises[l] = <<curr.file>> /\ ~(asked < l)
  BY Zenon, <1>1 DEF Request
<1>3. /\ ns_promises'[l] = <<>>
      /\ \A i \in Loops : i # l => ns_promises'[i] = ns_promises[i]
  BY <1>1, <1>2 DEF SInv, SchedTypes
<1>4. l \in Unserved /\ Unserved' = Unserved \ {l}
  <2>1. asked' = asked
    BY Zenon
  <2>2. \A i \in Loops : (asked' < i \/ ns_promises'[i] # <<>>)
                         <=> (asked < i \/ ns_promises[i] # <<>>) /\ i # l
    BY Zenon, <1>1, <1>2, <1>3, <2>1
  <2> QED
    BY ZenonT(30), <1>1, <2>2 DEF Unserved
<1>5. Cardinality(Unserved') = Cardinality(Unserved) - 1
  BY Zenon, <1>4, UnservedFinite, FS_RemoveElement
<1>6. pending_loops = Cardinality(Unserved) /\ (ns_removed <=> pending_loops = 0)
  BY Zenon, <1>2 DEF Request
<1>7. Cardinality(Unserved) \in Nat /\ Cardinality(Unserved) # 0
  BY Zenon, <1>4, UnservedFinite
<1>8. pending_loops' = Cardinality(Unserved') /\ (ns_removed' <=> pending_loops' = 0)
  <2>1. pending_loops' = Cardinality(Unserved') /\ (pending_loops' = 0 <=> pending_loops = 1)
    BY <1>1, <1>5, <1>6, <1>7
  <2> QED
    BY Zenon, <2>1, <1>1, <1>6, <1>7
<1>9. \A i \in Loops : /\ ns_promises'[i] \in {<<>>, <<curr.file>>}
                       /\ asked < i => ns_promises'[i] = <<>>
  BY Zenon, <1>2, <1>3 DEF Request
<1> QED
  BY Zenon, <1>2, <1>3, <1>8, <1>9 DEF Request

\* The future is ready only when no loop is left.
LEMMA RequestEnds ==
  ASSUME Request, Dlclose \/ DlcloseFails
  PROVE  Request' /\ Unserved = {}
<1>1. /\ main = "await" /\ main' \notin {"ask", "await"} /\ ns_removed
      /\ UNCHANGED ns_promises
  BY Zenon DEF Dlclose, DlcloseFails, AfterFailedClose, schedVars
<1>2. Unserved = {}
  BY Zenon, <1>1, UnservedFinite DEF Request
<1>3. \A l \in Loops : ns_promises[l] = <<>>
  BY Zenon, <1>2 DEF Unserved
<1> QED
  BY Zenon, <1>1, <1>2, <1>3 DEF Request

\* Every step keeps Request.
LEMMA RequestStep == IInv /\ SInv /\ Request /\ [Next]_vars => Request'
<1> SUFFICES ASSUME IInv, SInv, Request, [Next]_vars PROVE Request'
  BY Zenon
<1>1. ASSUME UNCHANGED schedVars, UNCHANGED asked,
             main \notin {"ask", "await"} /\ main' \notin {"ask", "await"}
      PROVE  Request'
  BY Zenon, <1>1, RequestFrame DEF schedVars
<1>2. ASSUME UNCHANGED <<ns_promises, pending_loops, ns_removed>>, UNCHANGED mainVars
      PROVE  Request'
  BY Zenon, <1>2, RequestFrame DEF mainVars
<1>3. ASSUME NEW f \in Libs, Deploy(f) \/ Undeploy(f) PROVE Request'
  BY Zenon, <1>2, <1>3 DEF Deploy, Undeploy, schedVars
<1>4. ASSUME NEW w \in Workers, PushEvent(w) \/ Worker(w) PROVE Request'
  BY Zenon, <1>2, <1>4
     DEF PushEvent, Worker, SkipSlot, EnterSlot, StreamAddsTask, LeaveSlot, WorkerFrame,
         AddTask, schedVars
<1>5. ASSUME NEW l \in Loops, Loop(l) PROVE Request'
  <2>1. CASE RemoveNsTasks(l) /\ WorkerFrame
    BY Zenon, <2>1, RequestServed DEF WorkerFrame, mainVars
  <2> QED
    BY Zenon, <1>2, <1>5, <2>1
       DEF Loop, LoopStep, Wake, AddTasks, AddTasksEnd, RemoveNsTasksEnd, RunTask, RunTaskEnd,
           RunningAddsTask, AddTask, WorkerFrame
<1>6. CASE InitAddsTask \/ UNCHANGED vars
  BY Zenon, <1>2, <1>6 DEF InitAddsTask, AddTask, vars, schedVars
<1>7. ASSUME NEW f \in Libs,
             Unchanged(f) \/ CloseChanged(f) \/ NoSpot(f) \/ PickSlot(f) \/ CloseRemoved(f)
      PROVE  Request'
  BY Zenon, <1>1, <1>7 DEF Unchanged, CloseChanged, NoSpot, PickSlot, CloseRemoved, Visit,
     BeginClose
<1>8. CASE LoadRules \/ ScanEnd \/ SweepEnd \/ Dlopen \/ DlopenFails \/ Assign \/ Enable
  BY Zenon, <1>1, <1>8 DEF LoadRules, ScanEnd, SweepEnd, Dlopen, DlopenFails, Assign, Enable
<1> QED
  BY Zenon, <1>3, <1>4, <1>5, <1>6, <1>7, <1>8, RequestBegins, RequestAsks, RequestEnds
     DEF Next, MainStep

\* There is no request at the start.
LEMMA RequestInit == Init => Request
  BY Zenon DEF Init, SchedInit, Request

\* A loop that is about to be asked has an empty queue.
LEMMA RequestRoom == SInv /\ Request => NsQueueHasRoom
<1> SUFFICES ASSUME SInv, Request, main = "ask"
             PROVE  Len(ns_promises[asked + 1]) < QueueCap
  BY Zenon DEF NsQueueHasRoom
<1>1. asked + 1 \in Loops /\ asked < asked + 1
  BY SchedulerAssumption DEF SInv, SchedTypes, SchedControl, Loops
<1>2. ns_promises[asked + 1] = <<>>
  BY Zenon, <1>1 DEF Request
<1> QED
  BY <1>2, SchedulerAssumption

\* What a reload leaves behind: when load_rules returns, the table is that of
\* the scan but for failures; a library it took for unchanged is the one in
\* the directory; and remove_ns_tasks never met a full queue.
THEOREM TableIsCurrent == Spec => []TableCurrent
<1>1. IInv /\ SInv /\ Scanned /\ Young /\ Request => TableCurrent
  BY Zenon, ScannedMatches, YoungIsCurrent, RequestRoom DEF TableCurrent
<1> QED
  BY <1>1, InvHolds, SchedHolds, ScannedInit, ScannedStep, YoungInit, YoungStep, RequestInit,
     RequestStep, PTL DEF Spec

-----------------------------------------------------------------------------
\* Steps after which the loops hold no task they did not hold, no loop enters
\* remove_ns_tasks with a task in its queue, and the loops that have served
\* the request are the same.
LEMMA DroppedShrinks ==
  ASSUME Dropped, mapped \subseteq mapped', late \subseteq late',
         \A l \in Loops : /\ TasksOf(l)' \subseteq TasksOf(l)
                          /\ Queued(l)' \subseteq Queued(l)
                          /\ running'[l] # NoTask => loop_pc'[l] = "run"
                          /\ loop_pc'[l] = "remove" => loop_pc[l] = "remove" \/ Queued(l)' = {},
         UNCHANGED <<exec, thread_ns>>,
         \/ main' \notin {"ask", "await"}
         \/ UNCHANGED <<main, curr, asked, Unserved>>
  PROVE  Dropped'
<1>1. \A k : Owned(k)' => Owned(k)
  BY Zenon DEF Owned
<1>2. /\ \A l \in Loops : running'[l] # NoTask => loop_pc'[l] = "run"
      /\ \A w \in Workers : exec'[w] # None => thread_ns'[w] = exec'[w].file
  BY Zenon DEF Dropped
<1>3. /\ \A l \in Loops : \A k \in TasksOf(l)' : k.ns # GlobalNs => k.ns = k.code.file
      /\ \A l \in Loops : \A k \in TasksOf(l)' : Owned(k)' => k.code \in mapped'
  BY Zenon, <1>1 DEF Dropped
<1>4. ASSUME main' \in {"ask", "await"}
      PROVE  /\ \A w \in Workers : exec'[w] # None => exec'[w].file # curr'.file
             /\ \A l \in Loops \ Unserved' : \A k \in TasksOf(l)' : Owned(k)' => k.ns # curr'.file
             /\ \A l \in Loops : asked' >= l /\ loop_pc'[l] = "remove" =>
                  \A k \in Queued(l)' : Owned(k)' => k.ns # curr'.file
  <2>1. UNCHANGED <<main, curr, asked, Unserved>>
    BY Zenon, <1>4
  <2>2. main \in {"ask", "await"}
    BY Zenon, <1>4, <2>1
  <2> QED
    BY Zenon, <1>1, <2>1, <2>2 DEF Dropped
<1> QED
  BY Zenon, <1>2, <1>3, <1>4 DEF Dropped

\* Steps that touch no task.
LEMMA DroppedFrame ==
  ASSUME Dropped, mapped \subseteq mapped', late' = late,
         UNCHANGED <<task_promises, tasks, loop_pc, running>>, UNCHANGED <<exec, thread_ns>>,
         \/ main' \notin {"ask", "await"}
         \/ UNCHANGED <<main, curr, asked, ns_promises>>
  PROVE  Dropped'
<1>1. \A l \in Loops : TasksOf(l)' = TasksOf(l) /\ Queued(l)' = Queued(l)
  BY Zenon DEF TasksOf, Queued
<1>2. UNCHANGED <<asked, ns_promises>> => UNCHANGED Unserved
  BY Zenon DEF Unserved
<1>3. \A l \in Loops : running'[l] # NoTask => loop_pc'[l] = "run"
  BY Zenon DEF Dropped
<1> QED
  BY Zenon, <1>1, <1>2, <1>3, DroppedShrinks

\* Filing a task: it is a task of the thread's library, which is mapped and
\* is not the one being closed.
LEMMA DroppedAdds ==
  ASSUME SInv, Dropped, NEW k \in TaskSet, AddTask(k),
         UNCHANGED <<mapped, late, exec, thread_ns, main, curr, asked>>,
         k.ns # GlobalNs => /\ k.ns = k.code.file /\ k.code \in mapped
                            /\ main \in {"ask", "await"} => k.ns # curr.file
  PROVE  Dropped'
<1>1. \A l \in Loops : Queued(l)' \subseteq Queued(l) \cup {k}
  <2>1. CASE UNCHANGED task_promises
    BY Zenon, <2>1 DEF Queued
  <2>2. ASSUME NEW m \in Loops, task_promises' = [task_promises EXCEPT ![m] = Append(@, k)],
               NEW l \in Loops
        PROVE  Queued(l)' \subseteq Queued(l) \cup {k}
    <3>1. task_promises \in [Loops -> Seq(TaskSet)] /\ task_promises[m] \in Seq(TaskSet)
      BY Zenon DEF SInv, SchedTypes
    <3>2. \A i \in DOMAIN Append(task_promises[m], k) :
            Append(task_promises[m], k)[i] = k \/
            (i \in DOMAIN task_promises[m] /\ Append(task_promises[m], k)[i] = task_promises[m][i])
      BY <3>1
    <3>3. task_promises'[m] = Append(task_promises[m], k)
      BY Zenon, <2>2, <3>1
    <3>4. l # m => task_promises'[l] = task_promises[l]
      BY Zenon, <2>2, <3>1
    <3>5. CASE l = m
      <4> SUFFICES ASSUME NEW i \in DOMAIN task_promises'[m]
                   PROVE  task_promises'[m][i] \in Queued(m) \cup {k}
        BY Zenon, <3>5 DEF Queued
      <4> QED
        BY Zenon, <3>2, <3>3 DEF Queued
    <3>6. CASE l # m
      BY Zenon, <3>4, <3>6 DEF Queued
    <3> QED
      BY Zenon, <3>5, <3>6
  <2> QED
    BY Zenon, <2>1, <2>2 DEF AddTask
<1>2. UNCHANGED <<tasks, running, loop_pc, ns_promises>>
  BY Zenon DEF AddTask
<1>3. \A l \in Loops : TasksOf(l)' \subseteq TasksOf(l) \cup {k}
  BY Zenon, <1>1, <1>2 DEF TasksOf
<1>4. UNCHANGED Unserved /\ (\A x : Owned(x)' <=> Owned(x))
  BY Zenon, <1>2 DEF Unserved, Owned
<1>5. Owned(k) => k.ns # GlobalNs
  BY Zenon DEF Owned
<1>6. /\ \A l \in Loops : running'[l] # NoTask => loop_pc'[l] = "run"
      /\ \A w \in Workers : exec'[w] # None => thread_ns'[w] = exec'[w].file
  BY Zenon, <1>2 DEF Dropped
<1>7. ASSUME NEW l \in Loops, NEW x \in TasksOf(l)'
      PROVE  /\ x.ns # GlobalNs => x.ns = x.code.file
             /\ Owned(x)' => x.code \in mapped'
  <2>1. x \in TasksOf(l) \/ x = k
    BY Zenon, <1>3, <1>7
  <2> QED
    BY Zenon, <2>1, <1>4, <1>5, <1>7 DEF Dropped
<1>8. ASSUME main' \in {"ask", "await"}
      PROVE  /\ \A w \in Workers : exec'[w] # None => exec'[w].file # curr'.file
             /\ \A l \in Loops \ Unserved' : \A x \in TasksOf(l)' : Owned(x)' => x.ns # curr'.file
             /\ \A l \in Loops : asked' >= l /\ loop_pc'[l] = "remove" =>
                  \A x \in Queued(l)' : Owned(x)' => x.ns # curr'.file
  <2>1. main \in {"ask", "await"} /\ (k.ns # GlobalNs => k.ns # curr.file)
    BY Zenon, <1>8
  <2>2. \A w \in Workers : exec'[w] # None => exec'[w].file # curr'.file
    BY Zenon, <2>1 DEF Dropped
  <2>3. ASSUME NEW l \in Loops \ Unserved', NEW x \in TasksOf(l)', Owned(x)'
        PROVE  x.ns # curr'.file
    <3>1. x \in TasksOf(l) \/ x = k
      BY Zenon, <1>3, <2>3
    <3> QED
      BY Zenon, <2>1, <2>3, <3>1, <1>4, <1>5 DEF Dropped
  <2>4. ASSUME NEW l \in Loops, asked' >= l, loop_pc'[l] = "remove", NEW x \in Queued(l)',
               Owned(x)'
        PROVE  x.ns # curr'.file
    <3>1. x \in Queued(l) \/ x = k
      BY Zenon, <1>1, <2>4
    <3> QED
      BY Zenon, <2>1, <2>4, <3>1, <1>2, <1>4, <1>5 DEF Dropped
  <2> QED
    BY Zenon, <2>2, <2>3, <2>4
<1> QED
  BY Zenon, <1>6, <1>7, <1>8 DEF Dropped

\* The steps of a loop's thread that handle no request.
LEMMA DroppedLoop ==
  ASSUME SInv, Dropped, NEW l \in Loops,
         Wake(l) \/ AddTasks(l) \/ AddTasksEnd(l) \/ RemoveNsTasksEnd(l) \/ RunTask(l)
           \/ RunTaskEnd(l),
         UNCHANGED <<mapped, late, exec, thread_ns, main, curr, asked>>
  PROVE  Dropped'
<1>1. UNCHANGED <<ns_promises>> /\ UNCHANGED Unserved
  BY Zenon DEF Wake, AddTasks, AddTasksEnd, RemoveNsTasksEnd, RunTask, RunTaskEnd, Unserved
<1>2. /\ task_promises \in [Loops -> Seq(TaskSet)] /\ tasks \in [Loops -> SUBSET TaskSet]
      /\ loop_pc \in [Loops -> {"poll", "add", "remove", "run"}]
      /\ running \in [Loops -> TaskSet \cup {NoTask}]
  BY Zenon DEF SInv, SchedTypes
<1>3. ASSUME NEW m \in Loops, m # l
      PROVE  /\ task_promises'[m] = task_promises[m] /\ tasks'[m] = tasks[m]
             /\ running'[m] = running[m] /\ loop_pc'[m] = loop_pc[m]
  BY Zenon, <1>2, <1>3 DEF Wake, AddTasks, AddTasksEnd, RemoveNsTasksEnd, RunTask, RunTaskEnd, Goto
<1>4. ASSUME NEW m \in Loops, m # l
      PROVE  TasksOf(m)' = TasksOf(m) /\ Queued(m)' = Queued(m)
  BY Zenon, <1>3, <1>4 DEF TasksOf, Queued
<1>5. /\ TasksOf(l)' \subseteq TasksOf(l)
      /\ Queued(l)' \subseteq Queued(l)
      /\ running'[l] # NoTask => loop_pc'[l] = "run"
      /\ loop_pc'[l] = "remove" => loop_pc[l] = "remove" \/ Queued(l)' = {}
  <2>1. CASE Wake(l) \/ RemoveNsTasksEnd(l)
    <3>1. /\ UNCHANGED <<task_promises, tasks, running>> /\ loop_pc[l] # "run"
          /\ loop_pc'[l] \in {"add", "poll"}
      BY Zenon, <1>2, <2>1 DEF Wake, RemoveNsTasksEnd, Goto
    <3>2. running[l] = NoTask
      BY Zenon, <3>1 DEF Dropped
    <3> QED
      BY Zenon, <3>1, <3>2 DEF TasksOf, Queued
  <2>2. CASE AddTasksEnd(l)
    <3>1. /\ UNCHANGED <<task_promises, tasks, running>> /\ loop_pc[l] # "run"
          /\ task_promises[l] = <<>>
      BY Zenon, <1>2, <2>2 DEF AddTasksEnd, Goto
    <3>2. running[l] = NoTask
      BY Zenon, <3>1 DEF Dropped
    <3>3. DOMAIN task_promises[l] = {}
      BY Zenon, <3>1, EmptyDomain
    <3> QED
      BY Zenon, <3>1, <3>2, <3>3 DEF TasksOf, Queued
  <2>3. CASE AddTasks(l)
    <3>1. /\ task_promises[l] # <<>> /\ task_promises[l] \in Seq(TaskSet)
          /\ task_promises'[l] = Tail(task_promises[l])
          /\ tasks'[l] = tasks[l] \cup {Head(task_promises[l])}
          /\ UNCHANGED <<running, loop_pc>> /\ loop_pc[l] = "add"
      BY Zenon, <1>2, <2>3 DEF AddTasks
    <3>2. running[l] = NoTask
      BY Zenon, <3>1 DEF Dropped
    <3>3. /\ 1 \in DOMAIN task_promises[l] /\ Head(task_promises[l]) = task_promises[l][1]
          /\ \A i \in DOMAIN Tail(task_promises[l]) : /\ i + 1 \in DOMAIN task_promises[l]
                                                      /\ Tail(task_promises[l])[i] = task_promises[l][i + 1]
      BY Zenon, <3>1, HeadAndTail
    <3>4. Head(task_promises[l]) \in Queued(l) /\ Queued(l)' \subseteq Queued(l)
      BY Zenon, <3>1, <3>3 DEF Queued
    <3> QED
      BY Zenon, <3>1, <3>2, <3>4 DEF TasksOf
  <2>4. CASE RunTask(l)
    <3>1. /\ UNCHANGED <<task_promises, tasks>> /\ loop_pc'[l] = "run" /\ running'[l] \in tasks[l]
      BY Zenon, <1>2, <2>4 DEF RunTask, Goto
    <3> QED
      BY Zenon, <3>1 DEF TasksOf, Queued
  <2>5. CASE RunTaskEnd(l)
    <3>1. /\ UNCHANGED <<task_promises, tasks>> /\ loop_pc'[l] = "poll" /\ running'[l] = NoTask
      BY Zenon, <1>2, <2>5 DEF RunTaskEnd, Goto
    <3> QED
      BY Zenon, <3>1 DEF TasksOf, Queued
  <2> QED
    BY Zenon, <2>1, <2>2, <2>3, <2>4, <2>5
<1>6. ASSUME NEW m \in Loops
      PROVE  /\ TasksOf(m)' \subseteq TasksOf(m)
             /\ Queued(m)' \subseteq Queued(m)
             /\ running'[m] # NoTask => loop_pc'[m] = "run"
             /\ loop_pc'[m] = "remove" => loop_pc[m] = "remove" \/ Queued(m)' = {}
  <2>1. CASE m # l
    BY Zenon, <2>1, <1>3, <1>4 DEF Dropped
  <2> QED
    BY Zenon, <2>1, <1>5
<1> QED
  BY Zenon, <1>1, <1>6, DroppedShrinks

\* A loop serves the request: it drops the library's timers, and its queue
\* has none that was filed before the slot was deserted.
LEMMA DroppedServes ==
  ASSUME SInv, Request, Dropped, NEW l \in Loops, RemoveNsTasks(l),
         UNCHANGED <<mapped, late, exec, thread_ns, main, curr, asked>>
  PROVE  Dropped'
<1>1. /\ main \in {"ask", "await"} /\ ns_promises[l] = <<curr.file>>
      /\ ~(asked < l) /\ ns_promises'[l] = <<>>
  BY Zenon, RequestServed
<1>2. /\ tasks \in [Loops -> SUBSET TaskSet] /\ ns_promises \in [Loops -> Seq(Libs)]
      /\ asked \in Int /\ l \in Int
  BY SchedulerAssumption DEF SInv, SchedTypes, Loops
<1>3. Head(ns_promises[l]) = curr.file
  BY <1>1
<1>4. /\ UNCHANGED <<task_promises, loop_pc, running>> /\ loop_pc[l] = "remove"
      /\ tasks'[l] = {k \in tasks[l] : k.ns # curr.file}
      /\ \A m \in Loops : m # l => tasks'[m] = tasks[m] /\ ns_promises'[m] = ns_promises[m]
  BY Zenon, <1>2, <1>3 DEF RemoveNsTasks
<1>5. running[l] = NoTask /\ asked >= l
  <2>1. running[l] = NoTask
    BY Zenon, <1>4 DEF Dropped
  <2> QED
    BY <2>1, <1>1, <1>2
<1>6. \A m \in Loops : /\ Queued(m)' = Queued(m) /\ TasksOf(m)' \subseteq TasksOf(m)
                       /\ m # l => (m \notin Unserved' => m \notin Unserved)
  BY Zenon, <1>4 DEF Queued, TasksOf, Unserved
<1>7. \A k : Owned(k)' <=> Owned(k)
  BY Zenon DEF Owned
<1>8. \A k \in TasksOf(l)' : Owned(k) => k.ns # curr.file
  <2>1. \A k \in Queued(l) : Owned(k) => k.ns # curr.file
    BY Zenon, <1>1, <1>4, <1>5 DEF Dropped
  <2>2. \A k \in tasks'[l] : k.ns # curr.file
    BY Zenon, <1>4
  <2>3. running'[l] = NoTask /\ Queued(l)' = Queued(l)
    BY Zenon, <1>4, <1>5, <1>6
  <2> QED
    BY Zenon, <2>1, <2>2, <2>3 DEF TasksOf
<1>9. ASSUME NEW m \in Loops \ Unserved', NEW k \in TasksOf(m)', Owned(k)
      PROVE  k.ns # curr.file
  <2>1. CASE m = l
    BY Zenon, <2>1, <1>8, <1>9
  <2>2. CASE m # l
    BY Zenon, <2>2, <1>6, <1>9, <1>1 DEF Dropped
  <2> QED
    BY Zenon, <2>1, <2>2
<1>10. /\ \A m \in Loops : running'[m] # NoTask => loop_pc'[m] = "run"
       /\ \A w \in Workers : exec'[w] # None => thread_ns'[w] = exec'[w].file
  BY Zenon, <1>4, <1>6, <1>7 DEF Dropped
<1>12. /\ \A m \in Loops : \A k \in TasksOf(m)' : k.ns # GlobalNs => k.ns = k.code.file
       /\ \A m \in Loops : \A k \in TasksOf(m)' : Owned(k)' => k.code \in mapped'
  BY Zenon, <1>4, <1>6, <1>7 DEF Dropped
<1>11. \A w \in Workers : exec'[w] # None => exec'[w].file # curr'.file
  BY Zenon, <1>1, <1>4 DEF Dropped
<1>13. \A m \in Loops : asked' >= m /\ loop_pc'[m] = "remove" =>
         \A k \in Queued(m)' : Owned(k)' => k.ns # curr'.file
  <2>1. \A m \in Loops : asked >= m /\ loop_pc[m] = "remove" =>
          \A k \in Queued(m) : Owned(k) => k.ns # curr.file
    BY Zenon, <1>1 DEF Dropped
  <2>2. asked' = asked /\ curr' = curr
    BY Zenon, <1>4
  <2> SUFFICES ASSUME NEW m \in Loops, asked >= m, loop_pc'[m] = "remove",
                      NEW k \in Queued(m)', Owned(k)
               PROVE  k.ns # curr.file
    BY Zenon, <1>7, <2>2
  <2>3. loop_pc[m] = "remove" /\ k \in Queued(m)
    BY Zenon, <1>4, <1>6
  <2> QED
    BY Zenon, <2>1, <2>3
<1> QED
  BY Zenon, <1>7, <1>9, <1>10, <1>11, <1>12, <1>13 DEF Dropped

\* Whoever is inside a library is inside one that is not being closed, once
\* the slot being closed is deserted.
LEMMA OthersInside ==
  ASSUME IInv, Closing, NEW s \in Slots, streams_[s].used
  PROVE  /\ streams_[s].file # curr.file /\ streams_[s].stream.file = streams_[s].file
         /\ streams_[s].stream \in mapped
<1>1. Live(s) /\ Live(curr.slot) /\ curr.slot \in Slots /\ s # curr.slot
      /\ streams_[curr.slot].file = curr.file
  BY Zenon DEF Live, IInv, CurrOutOfUse
<1> QED
  BY Zenon, <1>1 DEF IInv, LiveDistinct, LiveMapped

\* A worker enters a library that is not being closed, or leaves.
LEMMA DroppedWorkers ==
  ASSUME IInv, SInv, Dropped, NEW w \in Workers, EnterSlot(w) \/ LeaveSlot(w)
  PROVE  Dropped'
<1>1. UNCHANGED <<task_promises, ns_promises, tasks, loop_pc, running, late, mapped, main, curr, asked>>
  BY Zenon DEF EnterSlot, LeaveSlot, WorkerFrame, schedVars, mainVars, imageVars
<1>2. exec \in [Workers -> NoneOr(Image)] /\ thread_ns \in [Workers -> Libs \cup {GlobalNs}]
  BY Zenon DEF IInv, Types, SInv, SchedTypes
<1>3. /\ \A l \in Loops : TasksOf(l)' = TasksOf(l) /\ Queued(l)' = Queued(l)
      /\ Unserved' = Unserved /\ \A k : Owned(k)' <=> Owned(k)
  BY Zenon, <1>1 DEF TasksOf, Queued, Unserved, Owned
<1>4. \A v \in Workers : v # w => exec'[v] = exec[v] /\ thread_ns'[v] = thread_ns[v]
  BY Zenon, <1>2 DEF EnterSlot, LeaveSlot
<1>5. /\ exec'[w] # None => thread_ns'[w] = exec'[w].file
      /\ exec'[w] # None /\ main \in {"ask", "await"} => exec'[w].file # curr.file
  <2>1. CASE LeaveSlot(w)
    BY Zenon, <1>2, <2>1 DEF LeaveSlot
  <2>2. CASE EnterSlot(w)
    <3> DEFINE s == pos[w]
    <3>1. /\ s \in Slots /\ streams_[s].used
          /\ exec'[w] = streams_[s].stream /\ thread_ns'[w] = streams_[s].file
      BY <2>2, <1>2 DEF EnterSlot, IInv, Types, Slots
    <3>2. /\ streams_[s].stream \in Image /\ streams_[s].stream.file = streams_[s].file
      BY Zenon, <3>1 DEF IInv, LiveMapped, Live, Types
    <3> HIDE DEF s
    <3>4. main \in {"ask", "await"} => streams_[s].file # curr.file
      BY Zenon, <3>1, OthersInside DEF Closing
    <3> QED
      BY Zenon, <3>1, <3>2, <3>4
  <2> QED
    BY Zenon, <2>1, <2>2
<1>6. /\ \A v \in Workers :
           /\ exec'[v] # None => thread_ns'[v] = exec'[v].file
           /\ exec'[v] # None /\ main \in {"ask", "await"} => exec'[v].file # curr.file
  BY Zenon, <1>4, <1>5 DEF Dropped
<1> QED
  BY Zenon, <1>1, <1>3, <1>6 DEF Dropped

\* The slot is deserted, and the request begins.
LEMMA DroppedBegins ==
  ASSUME IInv, Dropped, Drained
  PROVE  Dropped'
<1>1. /\ UNCHANGED <<task_promises, ns_promises, tasks, loop_pc, running, late, mapped, curr,
                     exec, thread_ns>>
      /\ main = "drain" /\ main' = "ask" /\ asked' = 0 /\ Inside(curr.slot) = {}
  BY Zenon DEF Drained, NewRequest, workerVars, imageVars
<1>2. /\ \A l \in Loops : TasksOf(l)' = TasksOf(l) /\ Queued(l)' = Queued(l)
      /\ \A k : Owned(k)' <=> Owned(k)
  BY Zenon, <1>1 DEF TasksOf, Queued, Owned
<1>3. \A l \in Loops : ~(asked' >= l) /\ l \in Unserved'
  BY <1>1, SchedulerAssumption DEF Loops, Unserved
<1>4. ASSUME NEW w \in Workers, exec[w] # None
      PROVE  exec[w].file # curr.file
  <2>1. /\ pos[w] \in Slots /\ exec[w] = streams_[pos[w]].stream /\ streams_[pos[w]].used
    BY Zenon, <1>1, <1>4 DEF Inside, IInv, InsideLive
  <2>2. Closing
    BY Zenon, <1>1 DEF Closing
  <2> QED
    BY Zenon, <2>1, <2>2, OthersInside
<1> QED
  BY Zenon, <1>1, <1>2, <1>3, <1>4 DEF Dropped

\* A loop is asked: if it is past add_tasks, what is in its queue is late.
LEMMA DroppedAsks ==
  ASSUME IInv, SInv, Request, Dropped, Ask
  PROVE  Dropped'
<1> DEFINE l == asked + 1
<1>1. /\ UNCHANGED <<task_promises, tasks, loop_pc, running, mapped, curr, exec, thread_ns>>
      /\ main = "ask" /\ asked' = l
      /\ late' = IF loop_pc[l] = "remove" THEN late \cup Queued(l) ELSE late
  BY Zenon DEF Ask, AskLoop, workerVars, imageVars
<1>2. \A m \in Loops : asked' >= m => asked >= m \/ m = l
  BY <1>1, SchedulerAssumption DEF SInv, SchedTypes, Loops
<1>3. Unserved' = Unserved
  BY Zenon, RequestAsks
<1> HIDE DEF l
<1>4. /\ \A m \in Loops : TasksOf(m)' = TasksOf(m) /\ Queued(m)' = Queued(m)
      /\ \A k : Owned(k)' => Owned(k)
      /\ loop_pc[l] = "remove" => \A k \in Queued(l) : ~Owned(k)'
  BY Zenon, <1>1 DEF TasksOf, Queued, Owned
<1>5. \A m \in Loops : asked' >= m /\ loop_pc[m] = "remove" =>
            \A k \in Queued(m) : Owned(k)' => k.ns # curr.file
  BY Zenon, <1>1, <1>2, <1>4 DEF Dropped
<1>6. /\ \A w \in Workers : exec[w] # None => exec[w].file # curr.file
      /\ \A m \in Loops \ Unserved : \A k \in TasksOf(m) : Owned(k)' => k.ns # curr.file
  BY Zenon, <1>1, <1>4 DEF Dropped
<1>7. /\ \A m \in Loops : running[m] # NoTask => loop_pc[m] = "run"
      /\ \A w \in Workers : exec[w] # None => thread_ns[w] = exec[w].file
      /\ \A m \in Loops : \A k \in TasksOf(m) : k.ns # GlobalNs => k.ns = k.code.file
      /\ \A m \in Loops : \A k \in TasksOf(m) : Owned(k)' => k.code \in mapped
  BY Zenon, <1>4 DEF Dropped
<1> QED
  BY Zenon, <1>1, <1>3, <1>4, <1>5, <1>6, <1>7 DEF Dropped

\* dlclose unmaps the library, of which no loop keeps a task.
LEMMA DroppedDlclose ==
  ASSUME IInv, Request, Dropped, Dlclose
  PROVE  Dropped'
<1> DEFINE image == streams_[curr.slot].handle
<1>1. /\ UNCHANGED <<task_promises, tasks, loop_pc, running, late, curr, exec, thread_ns>>
      /\ main = "await" /\ main' \notin {"ask", "await"}
      /\ mapped \ {image} \subseteq mapped'
  BY Zenon DEF Dlclose, schedVars, workerVars
<1>2. image.file = curr.file
  BY Zenon, <1>1 DEF IInv, CurrOutOfUse, LiveMapped, Live, Closing
<1>3. Unserved = {}
  BY Zenon, RequestEnds
<1> HIDE DEF image
<1>4. /\ \A m \in Loops : TasksOf(m)' = TasksOf(m) /\ \A k : Owned(k)' <=> Owned(k)
  BY Zenon, <1>1 DEF TasksOf, Queued, Owned
<1>5. ASSUME NEW m \in Loops, NEW k \in TasksOf(m), Owned(k)
      PROVE  k.code \in mapped'
  <2>1. k.ns # curr.file
    BY Zenon, <1>1, <1>3, <1>5 DEF Dropped
  <2>2. k.ns = k.code.file /\ k.code \in mapped
    BY Zenon, <1>5 DEF Dropped, Owned
  <2>3. k.code # image
    BY Zenon, <2>1, <2>2, <1>2
  <2> QED
    BY Zenon, <1>1, <2>2, <2>3
<1> QED
  BY Zenon, <1>1, <1>4, <1>5 DEF Dropped

\* Every step keeps Dropped.
LEMMA DroppedStep == IInv /\ SInv /\ Request /\ Dropped /\ [Next]_vars => Dropped'
<1> SUFFICES ASSUME IInv, SInv, Request, Dropped, [Next]_vars PROVE Dropped'
  BY Zenon
<1>1. ASSUME UNCHANGED schedVars, UNCHANGED <<exec, thread_ns>>, UNCHANGED late,
             mapped \subseteq mapped',
             \/ main' \notin {"ask", "await"}
             \/ UNCHANGED mainVars
      PROVE  Dropped'
  BY Zenon, <1>1, DroppedFrame DEF schedVars, mainVars
<1>2. ASSUME NEW f \in Libs, Deploy(f) \/ Undeploy(f) PROVE Dropped'
  BY Zenon, <1>1, <1>2 DEF Deploy, Undeploy, imageVars, workerVars
<1>3. ASSUME NEW w \in Workers, PushEvent(w) \/ SkipSlot(w) PROVE Dropped'
  BY Zenon, <1>1, <1>3 DEF PushEvent, SkipSlot, WorkerFrame, imageVars
<1>4. ASSUME NEW w \in Workers, StreamAddsTask(w) PROVE Dropped'
  <2> DEFINE k == Task(thread_ns[w], exec[w])
  <2>1. /\ AddTask(k) /\ exec[w] # None /\ exec[w] \in Image
        /\ UNCHANGED <<mapped, late, exec, thread_ns, main, curr, asked>>
    BY Zenon, <1>4 DEF StreamAddsTask, WorkerFrame, workerVars, mainVars, imageVars, IInv,
       Types, NoneOr
  <2>2. exec[w] \in mapped /\ thread_ns[w] = exec[w].file
    BY Zenon, <2>1 DEF IInv, InsideLive, LiveMapped, Live, Closing, Dropped
  <2>3. k \in TaskSet /\ k.ns = thread_ns[w] /\ k.code = exec[w]
    BY Zenon, <2>1 DEF Task, TaskSet, SInv, SchedTypes
  <2>4. main \in {"ask", "await"} => exec[w].file # curr.file
    BY Zenon, <2>1 DEF Dropped
  <2> HIDE DEF k
  <2> QED
    BY Zenon, <2>1, <2>2, <2>3, <2>4, DroppedAdds
<1>5. CASE InitAddsTask
  <2> DEFINE k == Task(curr.file, curr.image)
  <2>1. /\ AddTask(k) /\ main = "init"
        /\ UNCHANGED <<mapped, late, exec, thread_ns, main, curr, asked>>
    BY Zenon, <1>5 DEF InitAddsTask, workerVars, mainVars, imageVars
  <2>2. /\ curr.image \in mapped /\ curr.image.file = curr.file /\ curr.file \in Libs
        /\ curr.image \in Image
    BY Zenon, <2>1 DEF IInv, LoadingFresh, CurrOutOfUse, Loading, Types
  <2>3. k \in TaskSet /\ k.ns = curr.file /\ k.code = curr.image
    BY Zenon, <2>2 DEF Task, TaskSet
  <2> HIDE DEF k
  <2> QED
    BY Zenon, <2>1, <2>2, <2>3, DroppedAdds
<1>6. ASSUME NEW l \in Loops, Loop(l) PROVE Dropped'
  <2>1. UNCHANGED <<mapped, late, exec, thread_ns, main, curr, asked>>
    BY Zenon, <1>6 DEF Loop, WorkerFrame, workerVars, mainVars, imageVars
  <2>2. CASE RunningAddsTask(l)
    <3> DEFINE k == Task(GlobalNs, running[l].code)
    <3>1. AddTask(k) /\ k \in TaskSet /\ k.ns = GlobalNs
      BY Zenon, <2>2 DEF RunningAddsTask, SInv, SchedControl, Task, TaskSet
    <3> HIDE DEF k
    <3> QED
      BY Zenon, <2>1, <3>1, DroppedAdds
  <2>3. CASE RemoveNsTasks(l)
    BY Zenon, <2>1, <2>3, DroppedServes
  <2>4. CASE Wake(l) \/ AddTasks(l) \/ AddTasksEnd(l) \/ RemoveNsTasksEnd(l) \/ RunTask(l)
             \/ RunTaskEnd(l)
    BY Zenon, <2>1, <2>4, DroppedLoop
  <2> QED
    BY Zenon, <1>6, <2>2, <2>3, <2>4 DEF Loop, LoopStep
<1>7. CASE UNCHANGED vars
  BY Zenon, <1>1, <1>7 DEF vars, workerVars, imageVars
<1>8. ASSUME NEW f \in Libs,
             Unchanged(f) \/ CloseChanged(f) \/ NoSpot(f) \/ PickSlot(f) \/ CloseRemoved(f)
      PROVE  Dropped'
  BY Zenon, <1>1, <1>8 DEF Unchanged, CloseChanged, NoSpot, PickSlot, CloseRemoved, Visit,
     BeginClose, workerVars, imageVars
<1>9. CASE LoadRules \/ ScanEnd \/ SweepEnd \/ Dlopen \/ DlopenFails \/ Assign \/ Enable \/ DlcloseFails
  BY Zenon, <1>1, <1>9 DEF LoadRules, ScanEnd, SweepEnd, Dlopen, DlopenFails, Assign, Enable,
     DlcloseFails, AfterFailedClose, workerVars, imageVars
<1> QED
  BY Zenon, <1>2, <1>3, <1>4, <1>5, <1>6, <1>7, <1>8, <1>9, DroppedBegins, DroppedAsks,
     DroppedDlclose, DroppedWorkers
     DEF Next, MainStep, Worker

\* The scheduler starts without tasks.
LEMMA DroppedInit == Init => Dropped
<1> SUFFICES ASSUME Init PROVE Dropped
  BY Zenon
<1>1. /\ \A l \in Loops : running[l] = NoTask /\ tasks[l] = {} /\ task_promises[l] = <<>>
      /\ \A w \in Workers : exec[w] = None
      /\ main = "idle"
  BY Zenon DEF Init, SchedInit
<1>2. \A l \in Loops : DOMAIN task_promises[l] = {}
  BY <1>1
<1>3. \A l \in Loops : TasksOf(l) = {}
  BY Zenon, <1>1, <1>2 DEF TasksOf, Queued
<1> QED
  BY Zenon, <1>1, <1>3 DEF Dropped

\* Of an unloaded library the scheduler keeps no task, but for the two kinds
\* that close_library's request cannot reach: tasks filed under the global
\* namespace by a running task, and tasks queued behind add_tasks in the
\* callback that handled the request.
THEOREM OnlyLateOutlive == Spec => []OnlyLateTasksOutlive
<1>1. Dropped => OnlyLateTasksOutlive
  <2> SUFFICES ASSUME Dropped, NEW k \in AllTasks
               PROVE  k.code \in mapped \/ k.ns = GlobalNs \/ k \in late
    BY Zenon DEF OnlyLateTasksOutlive
  <2>1. PICK l \in Loops : k \in TasksOf(l)
    <3>1. ASSUME NEW l \in Loops, k \in tasks[l] \cup Queued(l) PROVE k \in TasksOf(l)
      BY Zenon, <3>1 DEF TasksOf
    <3>2. ASSUME NEW l \in Loops, running[l] # NoTask, k = running[l] PROVE k \in TasksOf(l)
      BY Zenon, <3>2 DEF TasksOf
    <3> DEFINE held == {tasks[l] \cup Queued(l) : l \in Loops}
               runs == {running[l] : l \in {i \in Loops : running[i] # NoTask}}
    <3>3. k \in UNION held \/ k \in runs
      BY Zenon DEF AllTasks
    <3>4. k \in UNION held => \E S \in held : k \in S
      BY Zenon
    <3>5. (\E S \in held : k \in S) => \E l \in Loops : k \in tasks[l] \cup Queued(l)
      BY Zenon
    <3>6. k \in runs => \E l \in Loops : running[l] # NoTask /\ k = running[l]
      BY Zenon
    <3> QED
      BY Zenon, <3>1, <3>2, <3>3, <3>4, <3>5, <3>6
  <2> QED
    BY Zenon, <2>1 DEF Dropped, Owned
<1> QED
  BY <1>1, InvHolds, SchedHolds, RequestInit, RequestStep, DroppedInit, DroppedStep, PTL DEF Spec

-----------------------------------------------------------------------------
(* The slots are gates.                                                     *)

\* The gate in front of the library of slot s, as the loader and the workers
\* move it: open while the slot is in use, draining while close_library polls
\* its counter.
GateOf(s) == IF streams_[s].used THEN "open"
             ELSE IF main = "drain" /\ curr.slot = s THEN "draining" ELSE "closed"

SlotGate(s) == INSTANCE LibGate WITH Threads <- Workers, gate <- GateOf(s),
                                     inside <- Inside(s)

\* A step moves the gate of a slot only if it changes the used bit of the slot
\* or begins or ends the polling of a counter.
LEMMA GateFrame ==
  ASSUME NEW s \in Slots, UNCHANGED <<pos, exec>>,
         streams_'[s].used = streams_[s].used,
         \/ main' = main /\ curr' = curr
         \/ main # "drain" /\ main' # "drain"
  PROVE  UNCHANGED <<GateOf(s), Inside(s)>>
<1>1. UNCHANGED Inside(s)
  BY Zenon DEF Inside
<1>2. UNCHANGED GateOf(s)
  BY Zenon DEF GateOf
<1> QED
  BY <1>1, <1>2

\* The steps of load_rules that open and close nothing.
LEMMA GateRests ==
  ASSUME NEW s \in Slots,
         \/ \E f \in Libs : Unchanged(f) \/ NoSpot(f) \/ PickSlot(f)
         \/ LoadRules \/ ScanEnd \/ SweepEnd \/ Ask \/ DlcloseFails \/ Dlopen \/ DlopenFails
         \/ InitAddsTask
  PROVE  UNCHANGED <<GateOf(s), Inside(s)>>
<1>1. streams_' = streams_ /\ UNCHANGED <<pos, exec>>
  BY Zenon DEF LoadRules, Unchanged, NoSpot, PickSlot, ScanEnd, SweepEnd, Ask,
     DlcloseFails, Dlopen, DlopenFails, InitAddsTask, workerVars
<1>2. \/ main' = main /\ curr' = curr
      \/ main # "drain" /\ main' # "drain"
  BY DEF LoadRules, Unchanged, NoSpot, PickSlot, Visit, ScanEnd, SweepEnd, Ask,
     DlcloseFails, AfterFailedClose, Dlopen, DlopenFails, InitAddsTask, mainVars
<1> QED
  BY Zenon, <1>1, <1>2, GateFrame

\* dlclose and the assignments of load_library leave the used bit alone.
LEMMA GateKeepsBit ==
  ASSUME NEW s \in Slots, IInv, Dlclose \/ Assign
  PROVE  UNCHANGED <<GateOf(s), Inside(s)>>
<1>1. UNCHANGED <<pos, exec>>
  BY Zenon DEF Dlclose, Assign, workerVars
<1>2. main # "drain" /\ main' # "drain"
  BY DEF Dlclose, Assign
<1>3. streams_ \in [Slots -> SlotType] /\ curr.slot \in Slots
  BY Zenon DEF Dlclose, Assign, IInv, Types, CurrOutOfUse, Closing, Loading
<1>4. streams_'[s].used = streams_[s].used
  <2>1. CASE Dlclose
    BY <1>3, <2>1 DEF Dlclose, SlotType
  <2>2. CASE Assign
    BY <1>3, <2>2 DEF Assign, SlotType
  <2> QED
    BY <2>1, <2>2
<1> QED
  BY Zenon, <1>1, <1>2, <1>4, GateFrame

\* set_used(false) shuts an open gate.
LEMMA GateShuts ==
  ASSUME NEW s \in Slots, NEW f \in Libs, IInv, CloseChanged(f) \/ CloseRemoved(f)
  PROVE  SlotGate(s)!Shut \/ UNCHANGED <<GateOf(s), Inside(s)>>
<1>1. UNCHANGED Inside(s)
  BY Zenon DEF CloseChanged, CloseRemoved, workerVars, Inside
<1>2. main # "drain" /\ BeginClose(f, curr_map[f])
  BY Zenon DEF CloseChanged, CloseRemoved, Visit
<1>3. curr_map[f] # 0 /\ InUse(curr_map[f], f)
  BY Zenon DEF CloseChanged, CloseRemoved, Visit, IInv, CurrMapTrue
<1>4. curr_map[f] \in Slots /\ streams_ \in [Slots -> SlotType]
  BY <1>3, LoaderAssumption DEF IInv, Types, Slots
<1>5. CASE s = curr_map[f]
  <2>1. streams_[s].used /\ ~streams_'[s].used
    BY <1>2, <1>3, <1>4, <1>5 DEF BeginClose, InUse, SlotType
  <2>2. main' = "drain" /\ curr'.slot = s
    BY <1>2, <1>5 DEF BeginClose
  <2>3. GateOf(s) = "open" /\ GateOf(s)' = "draining"
    BY Zenon, <2>1, <2>2 DEF GateOf
  <2> QED
    BY Zenon, <1>1, <2>3 DEF SlotGate!Shut
<1>6. CASE s # curr_map[f]
  <2>1. streams_'[s].used = streams_[s].used
    BY <1>2, <1>4, <1>6 DEF BeginClose, SlotType
  <2>2. curr'.slot # s
    BY <1>2, <1>6 DEF BeginClose
  <2>3. UNCHANGED GateOf(s)
    BY Zenon, <1>2, <2>1, <2>2 DEF GateOf
  <2> QED
    BY Zenon, <1>1, <2>3
<1> QED
  BY <1>5, <1>6

\* The polling loop that reads zero closes the gate.
LEMMA GateQuiesces ==
  ASSUME NEW s \in Slots, IInv, Drained
  PROVE  SlotGate(s)!Quiesce \/ UNCHANGED <<GateOf(s), Inside(s)>>
<1>1. UNCHANGED Inside(s) /\ streams_' = streams_
  BY Zenon DEF Drained, workerVars, Inside
<1>2. main = "drain" /\ main' # "drain" /\ Inside(curr.slot) = {}
  BY DEF Drained
<1>3. CASE s = curr.slot
  <2>1. ~streams_[s].used
    BY Zenon, <1>2, <1>3 DEF IInv, CurrOutOfUse, Closing
  <2>2. GateOf(s) = "draining" /\ GateOf(s)' = "closed"
    BY Zenon, <1>1, <1>2, <1>3, <2>1 DEF GateOf
  <2> QED
    BY Zenon, <1>1, <1>2, <1>3, <2>2 DEF SlotGate!Quiesce
<1>4. CASE s # curr.slot
  <2>1. UNCHANGED GateOf(s)
    BY Zenon, <1>1, <1>2, <1>4 DEF GateOf
  <2> QED
    BY Zenon, <1>1, <2>1
<1> QED
  BY <1>3, <1>4

\* set_used(true) opens a closed gate.
LEMMA GateOpens ==
  ASSUME NEW s \in Slots, IInv, Enable
  PROVE  SlotGate(s)!Open \/ UNCHANGED <<GateOf(s), Inside(s)>>
<1>1. UNCHANGED Inside(s)
  BY Zenon DEF Enable, workerVars, Inside
<1>2. main # "drain" /\ main' # "drain"
  BY DEF Enable
<1>3. /\ streams_ \in [Slots -> SlotType] /\ curr.slot \in Slots
      /\ ~streams_[curr.slot].used
  BY Zenon DEF Enable, IInv, Types, CurrOutOfUse, Loading
<1>4. CASE s = curr.slot
  <2>1. streams_'[s].used
    BY <1>3, <1>4 DEF Enable, SlotType
  <2>2. GateOf(s) = "closed" /\ GateOf(s)' = "open"
    BY Zenon, <1>2, <1>3, <1>4, <2>1 DEF GateOf
  <2> QED
    BY Zenon, <1>1, <2>2 DEF SlotGate!Open
<1>5. CASE s # curr.slot
  <2>1. streams_'[s].used = streams_[s].used
    BY <1>3, <1>5 DEF Enable, SlotType
  <2>2. UNCHANGED GateOf(s)
    BY Zenon, <1>2, <2>1 DEF GateOf
  <2> QED
    BY Zenon, <1>1, <2>2
<1> QED
  BY <1>4, <1>5

\* Workers pass the gate of a slot only while it is open, and come back.
LEMMA GatePassed ==
  ASSUME NEW s \in Slots, NEW w \in Workers, IInv, PushEvent(w) \/ Worker(w)
  PROVE  \/ SlotGate(s)!Enter(w) \/ SlotGate(s)!Leave(w)
         \/ UNCHANGED <<GateOf(s), Inside(s)>>
<1>1. UNCHANGED <<streams_, mainVars>>
  BY Zenon DEF PushEvent, Worker, SkipSlot, EnterSlot, StreamAddsTask, LeaveSlot, WorkerFrame
<1>2. UNCHANGED GateOf(s)
  <2>1. main' = main /\ curr' = curr /\ streams_' = streams_
    BY <1>1 DEF mainVars
  <2> QED
    BY Zenon, <2>1 DEF GateOf
<1>3. pos \in [Workers -> 0..NSlots] /\ exec \in [Workers -> NoneOr(Image)]
  BY Zenon DEF IInv, Types
<1>4. CASE PushEvent(w) \/ SkipSlot(w)
  <2>1. exec[w] = None /\ exec' = exec
    BY <1>4, LoaderAssumption DEF PushEvent, SkipSlot, IInv, InsideLive, Slots
  <2>2. \A v \in Workers : v # w => pos'[v] = pos[v]
    BY Zenon, <1>3, <1>4 DEF PushEvent, SkipSlot, NextSlot
  <2>3. UNCHANGED Inside(s)
    BY <2>1, <2>2 DEF Inside
  <2> QED
    BY Zenon, <1>2, <2>3
<1>5. CASE StreamAddsTask(w)
  <2>1. UNCHANGED Inside(s)
    BY Zenon, <1>5 DEF StreamAddsTask, workerVars, Inside
  <2> QED
    BY Zenon, <1>2, <2>1
<1>6. CASE EnterSlot(w)
  <2>1. /\ exec[w] = None /\ streams_[pos[w]].used /\ pos' = pos
        /\ exec' = [exec EXCEPT ![w] = streams_[pos[w]].stream]
    BY Zenon, <1>6 DEF EnterSlot
  <2>2. \A v \in Workers : v # w => exec'[v] = exec[v]
    BY Zenon, <1>3, <2>1
  <2>3. CASE pos[w] = s /\ exec'[w] # None
    <3>1. w \notin Inside(s) /\ Inside(s)' = Inside(s) \cup {w}
      BY <2>1, <2>2, <2>3 DEF Inside
    <3>2. GateOf(s) = "open"
      BY Zenon, <2>1, <2>3 DEF GateOf
    <3> QED
      BY Zenon, <1>2, <3>1, <3>2 DEF SlotGate!Enter
  <2>4. CASE ~(pos[w] = s /\ exec'[w] # None)
    <3>1. UNCHANGED Inside(s)
      BY <2>1, <2>2, <2>4 DEF Inside
    <3> QED
      BY Zenon, <1>2, <3>1
  <2> QED
    BY Zenon, <2>3, <2>4
<1>7. CASE LeaveSlot(w)
  <2>1. exec[w] # None /\ exec' = [exec EXCEPT ![w] = None]
    BY Zenon, <1>7 DEF LeaveSlot
  <2>2. exec'[w] = None /\ \A v \in Workers : v # w => exec'[v] = exec[v]
    BY Zenon, <1>3, <2>1
  <2>3. \A v \in Workers : v # w => pos'[v] = pos[v]
    BY Zenon, <1>3, <1>7 DEF LeaveSlot, NextSlot
  <2>4. Inside(s)' = Inside(s) \ {w}
    BY <2>2, <2>3 DEF Inside
  <2>5. CASE w \in Inside(s)
    BY Zenon, <1>2, <2>4, <2>5 DEF SlotGate!Leave
  <2>6. CASE w \notin Inside(s)
    <3>1. UNCHANGED Inside(s)
      BY <2>4, <2>6
    <3> QED
      BY Zenon, <1>2, <3>1
  <2> QED
    BY Zenon, <2>5, <2>6
<1> QED
  BY Zenon, <1>4, <1>5, <1>6, <1>7 DEF Worker

\* Every step of the system is a step of the gate of a slot, or leaves it be.
LEMMA SlotGateStep ==
  ASSUME NEW s \in Slots, IInv, [Next]_vars
  PROVE  [SlotGate(s)!GateNext]_(SlotGate(s)!gateVars)
<1> DEFINE Moves == \/ SlotGate(s)!Open \/ SlotGate(s)!Shut \/ SlotGate(s)!Quiesce
                    \/ \E w \in Workers : SlotGate(s)!Enter(w) \/ SlotGate(s)!Leave(w)
                    \/ UNCHANGED <<GateOf(s), Inside(s)>>
<1> SUFFICES Moves
  BY Zenon DEF SlotGate!GateNext, SlotGate!gateVars
<1>1. ASSUME NEW f \in Libs, Deploy(f) \/ Undeploy(f)
      PROVE  UNCHANGED <<GateOf(s), Inside(s)>>
  <2>1. UNCHANGED <<streams_, mainVars, workerVars>>
    BY Zenon, <1>1 DEF Deploy, Undeploy
  <2> QED
    BY <2>1, GateFrame DEF mainVars, workerVars
<1>2. ASSUME NEW l \in Loops, Loop(l) PROVE UNCHANGED <<GateOf(s), Inside(s)>>
  <2>1. UNCHANGED <<streams_, mainVars, workerVars>>
    BY Zenon, <1>2 DEF Loop, WorkerFrame
  <2> QED
    BY <2>1, GateFrame DEF mainVars, workerVars
<1>3. CASE LoadRules
  BY Zenon, <1>3, GateRests
<1>4. CASE MainStep
  <2>1. ASSUME NEW f \in Libs, CloseChanged(f) \/ CloseRemoved(f)
        PROVE  SlotGate(s)!Shut \/ UNCHANGED <<GateOf(s), Inside(s)>>
    BY Zenon, <2>1, GateShuts
  <2>2. CASE Drained
    BY Zenon, <2>2, GateQuiesces
  <2>3. CASE Enable
    BY Zenon, <2>3, GateOpens
  <2>4. CASE Dlclose \/ Assign
    BY Zenon, <2>4, GateKeepsBit
  <2>5. CASE \/ \E f \in Libs : Unchanged(f) \/ NoSpot(f) \/ PickSlot(f)
             \/ ScanEnd \/ SweepEnd \/ Ask \/ DlcloseFails \/ Dlopen
             \/ DlopenFails \/ InitAddsTask
    BY Zenon, <2>5, GateRests
  <2> QED
    BY Zenon, <1>4, <2>1, <2>2, <2>3, <2>4, <2>5 DEF MainStep
<1>5. ASSUME NEW w \in Workers, PushEvent(w) \/ Worker(w)
      PROVE  \/ SlotGate(s)!Enter(w) \/ SlotGate(s)!Leave(w)
             \/ UNCHANGED <<GateOf(s), Inside(s)>>
  BY Zenon, <1>5, GatePassed
<1>6. CASE UNCHANGED vars
  BY <1>6, GateFrame DEF vars, mainVars, workerVars
<1> QED
  BY Zenon, <1>1, <1>2, <1>3, <1>4, <1>5, <1>6
     DEF Next

\* Every slot, as load_rules, close_library, load_library and the threads in
\* push_event use it, obeys the gate that the reference counter implements:
\* it opens when it is closed, shuts when it is open, and is taken for closed
\* only when the last thread that passed it has come back.
THEOREM SlotsAreGates ==
  ASSUME NEW s \in Slots
  PROVE  Spec => SlotGate(s)!GateSpec
<1>1. Init => SlotGate(s)!GateInit
  <2> SUFFICES ASSUME Init PROVE SlotGate(s)!GateInit
    OBVIOUS
  <2>1. ~streams_[s].used /\ main = "idle"
    BY DEF Init, EmptySlot
  <2>2. GateOf(s) = "closed"
    BY <2>1 DEF GateOf
  <2>3. Inside(s) = {}
    BY DEF Init, Inside
  <2> QED
    BY <2>2, <2>3 DEF SlotGate!GateInit
<1>2. IInv /\ [Next]_vars => [SlotGate(s)!GateNext]_(SlotGate(s)!gateVars)
  BY SlotGateStep
<1> QED
  BY <1>1, <1>2, InvHolds, PTL DEF Spec, SlotGate!GateSpec
=============================================================================
