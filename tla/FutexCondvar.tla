---------------------------- MODULE FutexCondvar ----------------------------
(***************************************************************************)
(* The futex condition variable, std/src/sys/sync/condvar/futex.rs, on top *)
(* of a mutex (module Mutex, which FutexMutex implements). Its word is a   *)
(* counter that every notification increments; a waiter sleeps only if     *)
(* the counter is still what it was before the waiter unlocked the mutex.  *)
(* The client here locks, waits, notifies (with or without the mutex) and  *)
(* unlocks in any order.                                                   *)
(***************************************************************************)
EXTENDS Naturals

CONSTANTS Threads,       \* the threads that use the condition variable
          MaxCalls,      \* how many calls each of them makes
          MaxSpurious,   \* how many spurious wake-ups there are
          Wrap           \* number of values of the counter, 2^32 in the code

ASSUME ConstantsAssumption == /\ MaxCalls \in Nat /\ MaxSpurious \in Nat
                              /\ Wrap \in Nat \ {0}

VARIABLES futex,         \* the counter
          owners,        \* the threads that own the mutex, one at most
          pc,            \* where each thread is
          wait,          \* the locals of its wait, [value, timed]
          due,           \* waiters that a notify_all has to release
          owed,          \* for each notify_one made with the mutex held, the
                         \* waiters of which it has to release one
          spurious,      \* spurious wake-ups so far
          calls          \* calls made so far, bounded by MaxCalls

cvVars == <<futex, owners, pc, wait, due, owed, spurious>>
vars   == <<cvVars, calls>>

mutex == INSTANCE Mutex

(***************************************************************************)
(* idle    without the mutex           held     owns the mutex             *)
(* loaded  in wait, has the counter    unlocked in wait, about to sleep    *)
(* asleep  blocked in futex_wait       relock   back, about to lock again  *)
(* wake_one, wake_all   in notify, about to call futex_wake                *)
(***************************************************************************)
At(locs) == {t \in Threads : pc[t] \in locs}

Goto(t, loc) == pc' = [pc EXCEPT ![t] = loc]

(* The waiters that will sleep, or go on sleeping, if nothing happens.     *)
Blocked == {t \in Threads : \/ pc[t] = "asleep"
                            \/ pc[t] \in {"loaded", "unlocked"} /\ wait[t].value = futex}

NoWait == [value |-> 0, timed |-> FALSE]

cvInit == /\ futex  = 0
          /\ owners = {}
          /\ pc     = [t \in Threads |-> "idle"]
          /\ wait   = [t \in Threads |-> NoWait]
          /\ due    = {}
          /\ owed   = [t \in Threads |-> {}]
          /\ spurious = 0

Init == cvInit /\ calls = [t \in Threads |-> 0]

-----------------------------------------------------------------------------
Lock(t) ==
    /\ pc[t] = "idle" /\ mutex!Acquire(t) /\ Goto(t, "held")
    /\ UNCHANGED <<futex, wait, due, owed, spurious>>

Unlock(t) ==
    /\ pc[t] = "held" /\ mutex!Release(t) /\ Goto(t, "idle")
    /\ UNCHANGED <<futex, wait, due, owed, spurious>>

(* wait_optional_timeout reads the counter while it owns the mutex. A new  *)
(* wait is none of the earlier notifications' business.                    *)
Wait(t, timed) ==
    /\ pc[t] = "held"
    /\ wait' = [wait EXCEPT ![t] = [value |-> futex, timed |-> timed]]
    /\ Goto(t, "loaded")
    /\ due'  = due \ {t}
    /\ owed' = [n \in Threads |-> IF t \in owed[n] THEN {} ELSE owed[n]]
    /\ UNCHANGED <<futex, owners, spurious>>

\* Mutant of WaitUnlock: reads the counter after the mutex is unlocked.
WaitUnlockThenLoad(t) ==
    /\ pc[t] = "loaded" /\ mutex!Release(t) /\ Goto(t, "unlocked")
    /\ wait' = [wait EXCEPT ![t].value = futex]
    /\ UNCHANGED <<futex, due, owed, spurious>>

WaitUnlock(t) ==
    /\ pc[t] = "loaded" /\ mutex!Release(t) /\ Goto(t, "unlocked")
    /\ UNCHANGED <<futex, wait, due, owed, spurious>>

(* Every way out of futex_wait; the locals are not used any more.          *)
WakeUp(woken, t, loc) ==
    /\ pc'   = [u \in Threads |-> IF u \in woken THEN "relock" ELSE IF u = t THEN loc ELSE pc[u]]
    /\ wait' = [u \in Threads |-> IF u \in woken THEN NoWait ELSE wait[u]]

FutexWait(t) ==
    /\ pc[t] = "unlocked"
    /\ \/ futex = wait[t].value /\ Goto(t, "asleep") /\ UNCHANGED wait
       \/ futex # wait[t].value /\ WakeUp({t}, t, "relock")
    /\ UNCHANGED <<futex, owners, due, owed, spurious>>

Timeout(t) ==
    /\ pc[t] = "asleep" /\ wait[t].timed
    /\ WakeUp({t}, t, "relock")
    /\ UNCHANGED <<futex, owners, due, owed, spurious>>

SpuriousWakeup(t) ==
    /\ pc[t] = "asleep" /\ spurious < MaxSpurious
    /\ spurious' = spurious + 1
    /\ WakeUp({t}, t, "relock")
    /\ UNCHANGED <<futex, owners, due, owed>>

Relock(t) ==
    /\ pc[t] = "relock" /\ mutex!Acquire(t) /\ Goto(t, "held")
    /\ UNCHANGED <<futex, wait, due, owed, spurious>>

(* fetch_add(1), which wraps around.                                       *)
Increment == futex' = (futex + 1) % Wrap

NotifyOne(t) ==
    /\ pc[t] \in {"idle", "held"} /\ Increment /\ Goto(t, "wake_one")
    /\ owed' = [owed EXCEPT ![t] = IF t \in owners THEN Blocked ELSE {}]
    /\ UNCHANGED <<owners, wait, due, spurious>>

NotifyAll(t) ==
    /\ pc[t] \in {"idle", "held"} /\ Increment /\ Goto(t, "wake_all")
    /\ due' = due \cup Blocked
    /\ UNCHANGED <<owners, wait, owed, spurious>>

(* futex_wake(&self.futex) and futex_wake_all(&self.futex)                 *)
FutexWake(sleepers) == IF sleepers = {} THEN {{}} ELSE {{w} : w \in sleepers}

Resume(t) == IF t \in owners THEN "held" ELSE "idle"

WakeOne(t) ==
    /\ pc[t] = "wake_one"
    /\ \E woken \in FutexWake(At({"asleep"})) : WakeUp(woken, t, Resume(t))
    /\ UNCHANGED <<futex, owners, due, owed, spurious>>

\* Mutant of WakeAll: wakes one sleeper.
WakeAllOne(t) ==
    /\ pc[t] = "wake_all"
    /\ \E woken \in FutexWake(At({"asleep"})) : WakeUp(woken, t, Resume(t))
    /\ UNCHANGED <<futex, owners, due, owed, spurious>>

WakeAll(t) ==
    /\ pc[t] = "wake_all" /\ WakeUp(At({"asleep"}), t, Resume(t))
    /\ UNCHANGED <<futex, owners, due, owed, spurious>>

-----------------------------------------------------------------------------
(* What a thread in a call of the condition variable does by itself.       *)
InCall(t) == \/ WaitUnlock(t) \/ FutexWait(t) \/ Timeout(t) \/ Relock(t)
             \/ WakeOne(t) \/ WakeAll(t)

Call(t) == calls[t] < MaxCalls /\ calls' = [calls EXCEPT ![t] = @ + 1]

Progress(t) == (InCall(t) \/ Unlock(t)) /\ UNCHANGED calls

(* All threads may fall asleep: nothing makes the client notify.           *)
Finished == /\ \A t \in Threads : pc[t] = "asleep" \/ (pc[t] = "idle" /\ calls[t] = MaxCalls)
            /\ UNCHANGED vars

Next == \/ \E t \in Threads :
             \/ Call(t) /\ \/ Lock(t) \/ \E b \in BOOLEAN : Wait(t, b)
                           \/ NotifyOne(t) \/ NotifyAll(t)
             \/ Progress(t)
             \/ SpuriousWakeup(t) /\ UNCHANGED calls
        \/ Finished

Spec == Init /\ [][Next]_vars

FairSpec == Spec /\ \A t \in Threads : WF_vars(Progress(t))

-----------------------------------------------------------------------------
(* notify_all releases every thread that was waiting when it was called,   *)
(* also one that had unlocked the mutex but was not asleep yet. notify_one *)
(* with the mutex held releases one of the threads that were waiting, if   *)
(* there were any: a thread that starts to wait later cannot take the      *)
(* wake-up away from them.                                                 *)
NotificationsRelease ==
    /\ \A t \in due \cap Blocked : pc[t] = "asleep" /\ At({"wake_all"}) # {}
    /\ \A n \in Threads : pc[n] # "wake_one" =>
          owed[n] = {} \/ \E w \in owed[n] : w \notin Blocked

(* A wait that a notify_all has to release returns with the mutex.         *)
NotifiedWaitReturns ==
    \A t \in Threads : t \in due /\ pc[t] \in {"loaded", "unlocked", "asleep", "relock"}
                       ~> pc[t] = "held"
=============================================================================
