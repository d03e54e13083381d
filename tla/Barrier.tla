------------------------------- MODULE Barrier -------------------------------
(***************************************************************************)
(* sync::Barrier, std/src/sync/barrier.rs: a mutex that guards a count and *)
(* a generation number, and a condition variable (module FutexCondvar) on  *)
(* which the threads of a generation wait until it is complete. The last   *)
(* thread to arrive is its leader.                                         *)
(***************************************************************************)
EXTENDS FutexCondvar, FiniteSets

CONSTANT num_threads     \* how many threads the barrier waits for

ASSUME NumThreadsAssumption == num_threads \in Nat

VARIABLES count,           \* BarrierState
          generation_id,
          local_gen,       \* the local variable of each call
          inside           \* the threads in Barrier::wait that hold a local_gen

barrierVars == <<count, generation_id, local_gen, inside>>
allVars == <<vars, barrierVars>>

BarrierInit == /\ Init
               /\ count = 0 /\ generation_id = 0
               /\ local_gen = [t \in Threads |-> 0]
               /\ inside = {}

-----------------------------------------------------------------------------
(* The first lines of wait: lock, and read and change the state under the  *)
(* lock. A thread is inside until it returns.                              *)
Arrive(t) ==
    /\ t \notin inside /\ calls[t] < MaxCalls
    /\ calls' = [calls EXCEPT ![t] = @ + 1]
    /\ Lock(t)
    /\ inside' = inside \cup {t}
    /\ local_gen' = [local_gen EXCEPT ![t] = generation_id]
    /\ count' = count + 1
    /\ UNCHANGED generation_id

(* The thread that arrived last, between Arrive and CompleteGeneration.    *)
IsLast(t) == count >= num_threads /\ local_gen[t] = generation_id

\* Mutant of CompleteGeneration: tells nobody.
CompleteGenerationSilently(t) ==
    /\ t \in inside /\ pc[t] = "held" /\ IsLast(t)
    /\ count' = 0 /\ generation_id' = generation_id + 1
    /\ UNCHANGED <<futex, owners, pc, wait, due, owed, spurious>>
    /\ UNCHANGED <<calls, local_gen, inside>>

(* The leader's branch. Nobody can see the state before the notification,  *)
(* because the mutex is held.                                              *)
CompleteGeneration(t) ==
    /\ t \in inside /\ pc[t] = "held" /\ IsLast(t)
    /\ count' = 0 /\ generation_id' = generation_id + 1
    /\ NotifyAll(t)
    /\ UNCHANGED <<calls, local_gen, inside>>

(* wait_while: wait as long as the generation is the one of the arrival.   *)
WaitWhile(t) ==
    /\ t \in inside /\ pc[t] = "held" /\ ~IsLast(t)
    /\ local_gen[t] = generation_id
    /\ Wait(t, FALSE)
    /\ UNCHANGED <<calls, barrierVars>>

\* Mutant of Return: takes the first wake-up for the end of the generation.
ReturnOnWakeup(t) ==
    /\ t \in inside /\ pc[t] = "held" /\ ~IsLast(t)
    /\ inside' = inside \ {t}
    /\ Unlock(t)
    /\ local_gen' = [local_gen EXCEPT ![t] = 0]
    /\ UNCHANGED <<calls, count, generation_id>>

(* The guard is dropped; the leader returns in the same way.               *)
Return(t) ==
    /\ t \in inside /\ pc[t] = "held"
    /\ local_gen[t] # generation_id
    /\ inside' = inside \ {t}
    /\ Unlock(t)
    /\ local_gen' = [local_gen EXCEPT ![t] = 0]
    /\ UNCHANGED <<calls, count, generation_id>>

InCondvar(t) == InCall(t) /\ UNCHANGED <<calls, barrierVars>>

Spurious(t) == SpuriousWakeup(t) /\ UNCHANGED <<calls, barrierVars>>

-----------------------------------------------------------------------------
(* The steps of a thread that has arrived.                                 *)
BarrierProgress(t) == CompleteGeneration(t) \/ WaitWhile(t) \/ Return(t) \/ InCondvar(t)

(* With too few threads left a generation stays incomplete.                *)
BarrierFinished == /\ \A t \in Threads : pc[t] = "asleep" \/ (pc[t] = "idle" /\ calls[t] = MaxCalls)
                   /\ UNCHANGED allVars

BarrierNext == (\E t \in Threads : Arrive(t) \/ BarrierProgress(t) \/ Spurious(t)) \/ BarrierFinished

BarrierSpec == BarrierInit /\ [][BarrierNext]_allVars

BarrierFairSpec == BarrierSpec /\ \A t \in Threads : WF_allVars(BarrierProgress(t))

-----------------------------------------------------------------------------
(* The threads of the generation under way.                                *)
Arrived == {t \in inside : local_gen[t] = generation_id}

(* count is the number of threads of the generation that is under way:     *)
(* none of them has left before the generation was complete, and a thread  *)
(* that comes back early counts for the next generation only.              *)
CountMatchesArrived == count = Cardinality(Arrived)

(* A thread whose generation is complete returns.                          *)
CompletedWaitReturns ==
    \A t \in Threads : t \in inside /\ local_gen[t] # generation_id ~> t \notin inside
=============================================================================
