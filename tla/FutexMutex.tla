----------------------------- MODULE FutexMutex -----------------------------
(***************************************************************************)
(* The futex mutex, std/src/sys/sync/mutex/futex.rs: one 32-bit word that  *)
(* is UNLOCKED, LOCKED (no waiters known) or CONTENDED (a thread may be    *)
(* asleep on it), and the kernel's queue of the threads asleep on it.      *)
(* Every action is one access to the word or one futex call; all accesses  *)
(* are to this one word, so its modification order is the order of steps.  *)
(***************************************************************************)
EXTENDS Naturals

CONSTANTS Threads,   \* the threads that use the mutex
          MaxLocks   \* how often each of them calls lock or try_lock

ASSUME MaxLocksAssumption == MaxLocks \in Nat

VARIABLES futex,     \* the word
          pc,        \* where each thread is in lock, lock_contended or unlock
          state,     \* the local variable `state` of lock_contended
          calls      \* calls made so far, bounded by MaxLocks

vars == <<futex, pc, state, calls>>

UNLOCKED  == 0
LOCKED    == 1
CONTENDED == 2
States    == {UNLOCKED, LOCKED, CONTENDED}

(***************************************************************************)
(* idle    outside the mutex           spin    first spin of lock_contended *)
(* cas     saw UNLOCKED, tries to lock loop    top of the loop              *)
(* wait    about to call futex_wait    asleep  blocked in the kernel        *)
(* respin  woken, spins again          held    owns the mutex               *)
(* wake    has unlocked a contended mutex, about to call futex_wake         *)
(***************************************************************************)
Locations == {"idle", "spin", "cas", "loop", "wait", "asleep", "respin",
              "held", "wake"}

Asleep == {t \in Threads : pc[t] = "asleep"}

Goto(t, loc) == pc' = [pc EXCEPT ![t] = loc]

Init == /\ futex = UNLOCKED
        /\ pc    = [t \in Threads |-> "idle"]
        /\ state = [t \in Threads |-> UNLOCKED]
        /\ calls = [t \in Threads |-> 0]

-----------------------------------------------------------------------------
(* A call is made by a thread outside the mutex, MaxLocks times at most.   *)
Call(t) == /\ pc[t] = "idle"
           /\ calls[t] < MaxLocks
           /\ calls' = [calls EXCEPT ![t] = @ + 1]

(* compare_exchange(UNLOCKED, LOCKED): the mutex is taken, or the thread   *)
(* goes on at `loc`.                                                       *)
CompareExchange(t, loc) ==
    \/ futex = UNLOCKED /\ futex' = LOCKED /\ Goto(t, "held")
    \/ futex # UNLOCKED /\ futex' = futex  /\ Goto(t, loc)

TryLock(t) == Call(t) /\ CompareExchange(t, "idle") /\ UNCHANGED state

Lock(t) == Call(t) /\ CompareExchange(t, "spin") /\ UNCHANGED state

(* spin() returns the last value it loaded: one that is not LOCKED, or     *)
(* LOCKED once its 100 turns are used up.                                  *)
SpinFirst(t) ==
    /\ pc[t] = "spin"
    /\ state' = [state EXCEPT ![t] = futex]
    /\ Goto(t, IF futex = UNLOCKED THEN "cas" ELSE "loop")
    /\ UNCHANGED <<futex, calls>>

(* The one attempt to take the lock without marking it as contended.       *)
CasUncontended(t) ==
    /\ pc[t] = "cas"
    /\ CompareExchange(t, "loop")
    /\ state' = [state EXCEPT ![t] = futex]
    /\ UNCHANGED calls

\* Mutant of MarkContended: decides on the stale local state, not on the
\* value that the swap returned.
MarkContendedStale(t) ==
    /\ pc[t] = "loop"
    /\ \/ state[t] # CONTENDED /\ futex' = CONTENDED
       \/ state[t] = CONTENDED /\ futex' = futex
    /\ Goto(t, IF state[t] = UNLOCKED THEN "held" ELSE "wait")
    /\ UNCHANGED <<state, calls>>

(* swap(CONTENDED), skipped when the last value seen was CONTENDED.        *)
MarkContended(t) ==
    /\ pc[t] = "loop"
    /\ \/ state[t] # CONTENDED /\ futex' = CONTENDED
       \/ state[t] = CONTENDED /\ futex' = futex
    /\ Goto(t, IF state[t] # CONTENDED /\ futex = UNLOCKED THEN "held" ELSE "wait")
    /\ UNCHANGED <<state, calls>>

(* futex_wait(CONTENDED): the kernel compares and enqueues in one step.    *)
FutexWait(t) ==
    /\ pc[t] = "wait"
    /\ Goto(t, IF futex = CONTENDED THEN "asleep" ELSE "respin")
    /\ UNCHANGED <<futex, state, calls>>

(* A wake-up meant for an earlier user of the address, or a signal, on the *)
(* platforms whose futex_wait does not retry after one.                    *)
SpuriousWakeup(t) ==
    /\ pc[t] = "asleep"
    /\ Goto(t, "respin")
    /\ UNCHANGED <<futex, state, calls>>

\* Mutant of SpinAgain: a woken thread may take the lock as LOCKED, like a
\* thread that has not slept.
SpinAgainUncontended(t) ==
    /\ pc[t] = "respin"
    /\ state' = [state EXCEPT ![t] = futex]
    /\ Goto(t, IF futex = UNLOCKED THEN "cas" ELSE "loop")
    /\ UNCHANGED <<futex, calls>>

SpinAgain(t) ==
    /\ pc[t] = "respin"
    /\ state' = [state EXCEPT ![t] = futex]
    /\ Goto(t, "loop")
    /\ UNCHANGED <<futex, calls>>

\* Mutant of Unlock: wakes a thread only when the mutex was LOCKED.
UnlockWakesLocked(t) ==
    /\ pc[t] = "held"
    /\ futex' = UNLOCKED
    /\ Goto(t, IF futex = LOCKED THEN "wake" ELSE "idle")
    /\ UNCHANGED <<state, calls>>

Unlock(t) ==
    /\ pc[t] = "held"
    /\ futex' = UNLOCKED
    /\ Goto(t, IF futex = CONTENDED THEN "wake" ELSE "idle")
    /\ UNCHANGED <<state, calls>>

(* futex_wake: the kernel wakes one of the sleeping threads, if any.       *)
Wake(t) ==
    /\ pc[t] = "wake"
    /\ \/ Asleep = {} /\ Goto(t, "idle")
       \/ \E w \in Asleep : pc' = [pc EXCEPT ![t] = "idle", ![w] = "respin"]
    /\ UNCHANGED <<futex, state, calls>>

-----------------------------------------------------------------------------
(* Everything a thread does once it has called lock.                       *)
Progress(t) == \/ SpinFirst(t) \/ CasUncontended(t) \/ MarkContended(t)
               \/ FutexWait(t) \/ SpinAgain(t)      \/ Unlock(t) \/ Wake(t)

Finished == /\ \A t \in Threads : pc[t] = "idle" /\ calls[t] = MaxLocks
            /\ UNCHANGED vars

Next == \/ \E t \in Threads : \/ TryLock(t) \/ Lock(t) \/ Progress(t)
                              \/ SpuriousWakeup(t)
        \/ Finished

Spec == Init /\ [][Next]_vars

-----------------------------------------------------------------------------
TypeOK == /\ futex \in States
          /\ pc    \in [Threads -> Locations]
          /\ state \in [Threads -> States]
          /\ calls \in [Threads -> 0..MaxLocks]

(* At most one thread owns the mutex: what lock() and unlock() are for.    *)
MutualExclusion == \A t, u \in Threads : pc[t] = "held" /\ pc[u] = "held" => t = u

(* The word is UNLOCKED exactly when nobody owns the mutex, so no unlock   *)
(* is lost and no swap(CONTENDED) locks a mutex that nobody owns.          *)
WordMatchesOwner == futex = UNLOCKED <=> \A t \in Threads : pc[t] # "held"

(* A thread in Committed will look at the word again before it sleeps, and *)
(* marks it CONTENDED before it owns it; a thread at "wake" will wake one. *)
Committed == {t \in Threads : pc[t] \in {"loop", "wait", "respin", "wake"}}

(* unlock() wakes one thread only. The comment in unlock says that this    *)
(* "makes sure that any other waiting threads will also be woken up        *)
(* eventually": while a thread sleeps, either the word is CONTENDED, so    *)
(* that the next unlock wakes one, or some thread is already committed.    *)
SleepersAreCovered == Asleep # {} => futex = CONTENDED \/ Committed # {}

(* The futex mutex implements the abstract mutex: a thread that takes it   *)
(* takes it from nobody, and only its owner gives it up.                   *)
Owners == {t \in Threads : pc[t] = "held"}

Abstract == INSTANCE Mutex WITH owners <- Owners

ImplementsMutex == Abstract!Spec
=============================================================================
