----------------------------- MODULE StreamLib -----------------------------
(***************************************************************************)
(* One slot of the stream table (struct stream_lib): a reference counter   *)
(* whose lowest bit says that the slot is in use and whose other bits      *)
(* count the threads that are inside the library of the slot.  Threads     *)
(* that push events raise and lower it with compare-and-swap loops; the    *)
(* main thread, reloading the rules, clears the bit and polls the counter  *)
(* until it is zero before it unloads the library.                         *)
(***************************************************************************)
EXTENDS Integers, FiniteSets

CONSTANT Threads   \* the threads that call streams::push_event

ASSUME ThreadsAssumption == IsFiniteSet(Threads)

VARIABLES ref_counter,   \* stream_lib::ref_counter
          pc,            \* where each thread is in push_event / push_stream
          current,       \* the local variable of inc() and dec()
          loader         \* what the main thread has done to the slot

slotVars == <<ref_counter, pc, current, loader>>

Used(counter) == counter % 2 = 1

\* The low bit of the counter says that the slot is in use: ref_counter |= 1
\* and ref_counter &= ~1.
SetUsed(counter, used) ==
  IF used THEN (IF Used(counter) THEN counter ELSE counter + 1)
          ELSE (IF Used(counter) THEN counter - 1 ELSE counter)

SlotInit ==
  /\ ref_counter = 0
  /\ pc = [t \in Threads |-> "idle"]
  /\ current = [t \in Threads |-> 0]
  /\ loader = "closed"

-----------------------------------------------------------------------------
(* A thread in streams::push_event and push_stream.                         *)

\* streams::push_event sees the slot in use and calls push_stream.
CheckUsed(t) ==
  /\ pc[t] = "idle"
  /\ Used(ref_counter)
  /\ pc' = [pc EXCEPT ![t] = "called"]
  /\ UNCHANGED <<ref_counter, current, loader>>

\* inc(): the first load of the counter.
IncLoad(t) ==
  /\ pc[t] = "called"
  /\ current' = [current EXCEPT ![t] = ref_counter]
  /\ pc' = [pc EXCEPT ![t] = "inc"]
  /\ UNCHANGED <<ref_counter, loader>>

\* inc(): the slot is no longer in use; push_stream returns.
IncAbort(t) ==
  /\ pc[t] = "inc"
  /\ ~Used(current[t])
  /\ pc' = [pc EXCEPT ![t] = "idle"]
  /\ UNCHANGED <<ref_counter, current, loader>>

\* Mutant of IncCas: a plain store in place of the compare-and-swap.
IncCas_Store(t) ==
  /\ pc[t] = "inc"
  /\ Used(current[t])
  /\ ref_counter' = (current[t] \div 2 + 1) * 2 + 1
  /\ pc' = [pc EXCEPT ![t] = "in"]
  /\ UNCHANGED <<current, loader>>

\* Mutant of IncCas: the low bit is kept and not tested.
IncCas_AnyBit(t) ==
  /\ pc[t] = "inc"
  /\ \/ /\ ref_counter = current[t]
        /\ ref_counter' = current[t] + 2
        /\ pc' = [pc EXCEPT ![t] = "in"]
        /\ UNCHANGED current
     \/ /\ ref_counter # current[t]
        /\ current' = [current EXCEPT ![t] = ref_counter]
        /\ UNCHANGED <<ref_counter, pc>>
  /\ UNCHANGED loader

\* inc(): compare_exchange_strong; a failed exchange loads the counter again.
IncCas(t) ==
  /\ pc[t] = "inc"
  /\ Used(current[t])
  /\ \/ /\ ref_counter = current[t]
        /\ ref_counter' = (current[t] \div 2 + 1) * 2 + 1
        /\ pc' = [pc EXCEPT ![t] = "in"]
        /\ UNCHANGED current
     \/ /\ ref_counter # current[t]
        /\ current' = [current EXCEPT ![t] = ref_counter]
        /\ UNCHANGED <<ref_counter, pc>>
  /\ UNCHANGED loader

\* The library's streams return, or throw and push_stream catches; dec()
\* loads the counter.
DecLoad(t) ==
  /\ pc[t] = "in"
  /\ current' = [current EXCEPT ![t] = ref_counter]
  /\ pc' = [pc EXCEPT ![t] = "dec"]
  /\ UNCHANGED <<ref_counter, loader>>

\* Mutant of DecCas: a failed exchange does not refresh the expected value.
DecCas_NoReload(t) ==
  /\ pc[t] = "dec"
  /\ IF ref_counter = current[t]
     THEN /\ ref_counter' = (current[t] \div 2 - 1) * 2 + (current[t] % 2)
          /\ pc' = [pc EXCEPT ![t] = "idle"]
     ELSE UNCHANGED <<ref_counter, pc>>
  /\ UNCHANGED <<current, loader>>

\* dec(): compare_exchange_strong, keeping the lowest bit.
DecCas(t) ==
  /\ pc[t] = "dec"
  /\ \/ /\ ref_counter = current[t]
        /\ ref_counter' = (current[t] \div 2 - 1) * 2 + (current[t] % 2)
        /\ pc' = [pc EXCEPT ![t] = "idle"]
        /\ UNCHANGED current
     \/ /\ ref_counter # current[t]
        /\ current' = [current EXCEPT ![t] = ref_counter]
        /\ UNCHANGED <<ref_counter, pc>>
  /\ UNCHANGED loader

Thread(t) ==
  \/ CheckUsed(t) \/ IncLoad(t) \/ IncAbort(t) \/ IncCas(t)
  \/ DecLoad(t) \/ DecCas(t)

-----------------------------------------------------------------------------
(* The main thread, in load_library and close_library.                      *)

\* load_library: the fields of the slot are assigned, then set_used(true).
LoadLibrary ==
  /\ loader = "closed"
  /\ ref_counter' = SetUsed(ref_counter, TRUE)
  /\ loader' = "open"
  /\ UNCHANGED <<pc, current>>

\* close_library: set_used(false).
CloseLibrary ==
  /\ loader = "open"
  /\ ref_counter' = SetUsed(ref_counter, FALSE)
  /\ loader' = "draining"
  /\ UNCHANGED <<pc, current>>

\* Mutant of SlotDrained: close_library does not wait for the counter.
SlotDrained_NoWait ==
  /\ loader = "draining"
  /\ loader' = "closed"
  /\ UNCHANGED <<ref_counter, pc, current>>

\* close_library: the polling loop reads zero and ends.  What follows
\* (removing timers, dlclose, loading again) needs the slot to be deserted.
SlotDrained ==
  /\ loader = "draining"
  /\ ref_counter = 0
  /\ loader' = "closed"
  /\ UNCHANGED <<ref_counter, pc, current>>

SlotNext ==
  \/ \E t \in Threads : Thread(t)
  \/ LoadLibrary \/ CloseLibrary \/ SlotDrained

SlotSpec == SlotInit /\ [][SlotNext]_slotVars

\* The operating system schedules every thread that can run, and the main
\* thread polls every 50 ms.  Events need not arrive (CheckUsed is not fair)
\* and nothing forces a reload (LoadLibrary, CloseLibrary are not fair).
SlotFairness ==
  /\ \A t \in Threads :
       WF_slotVars(IncLoad(t) \/ IncAbort(t) \/ IncCas(t) \/ DecLoad(t) \/ DecCas(t))
  /\ WF_slotVars(SlotDrained)

SlotFairSpec == SlotSpec /\ SlotFairness

-----------------------------------------------------------------------------
(* Properties.                                                              *)

\* The threads counted by ref_counter: inc() succeeded, dec() has not yet.
Holders == {t \in Threads : pc[t] \in {"in", "dec"}}

\* The types of the slot's counter, of inc()'s and dec()'s local and of the
\* control points of threads and loader; the counter never underflows.
SlotTypes ==
  /\ ref_counter \in Nat
  /\ pc \in [Threads -> {"idle", "called", "inc", "in", "dec"}]
  /\ current \in [Threads -> Nat]
  /\ loader \in {"closed", "open", "draining"}

\* The counter is exact at every moment of every interleaving of inc(), dec()
\* and set_used(): twice the number of threads inside the library, plus the
\* bit the main thread set.  A lost update of the counter would break it.
CounterExact ==
  ref_counter = 2 * Cardinality(Holders) + (IF loader = "open" THEN 1 ELSE 0)

\* Once close_library has read zero no thread is inside the library, nor can
\* one that checked used() earlier still get in: dlclose may unmap the code.
DesertedWhenClosed == loader = "closed" => Holders = {}

\* close_library's polling loop ends: no stream of late events can keep the
\* counter away from zero once the low bit is cleared.
DrainEnds == loader = "draining" ~> loader = "closed"

\* The counter protocol implements the gate.
Gate == INSTANCE LibGate WITH gate <- loader, inside <- Holders

GateSpec == Gate!GateSpec
=============================================================================
