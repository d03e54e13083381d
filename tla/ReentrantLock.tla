--------------------------- MODULE ReentrantLock ---------------------------
(***************************************************************************)
(* The reentrant lock, std/src/sync/reentrant_lock.rs, on top of the futex *)
(* mutex. A thread finds out whether it owns the lock already by reading   *)
(* `owner` before it holds anything, and only then decides between         *)
(* counting and locking; lock_count is a plain cell that the mutex is to   *)
(* protect. Every access to either field is an action of its own.          *)
(***************************************************************************)
EXTENDS FutexMutex

CONSTANTS CountMAX,    \* u32::MAX, the limit of lock_count
          MaxCalls     \* how often all threads together call lock or try_lock

ASSUME CountMAXAssumption == CountMAX \in Nat \ {0} /\ MaxCalls \in Nat

VARIABLES owner,       \* {} for None, {t} for Some(t)
          lock_count,
          guards,      \* live ReentrantLockGuards of each thread
          at,          \* where each thread is in lock, try_lock or drop
          made         \* calls of all threads so far, bounded by MaxCalls

lockVars == <<owner, lock_count, guards, at, made>>
allVars  == <<vars, lockVars>>

(***************************************************************************)
(* user   in its own code, with guards[t] guards                           *)
(* mutex.lock, mutex.try_lock   about to call the mutex                    *)
(* locking       in lock_contended       set_owner, set_count  owns the    *)
(* increment     about to count           mutex, not yet the lock          *)
(* clear_owner, unlock, wake   in the last drop, down to futex_wake        *)
(***************************************************************************)
LockInit == /\ Init
            /\ owner = {} /\ lock_count = 0
            /\ guards = [t \in Threads |-> 0]
            /\ at = [t \in Threads |-> "user"] /\ made = 0

contains(t) == t \in owner

GoTo(t, loc) == at' = [at EXCEPT ![t] = loc]

(* The bounds: MaxCalls calls in all, MaxLocks of a thread on the mutex.    *)
MayCall(t) == /\ at[t] = "user" /\ made < MaxCalls
              /\ contains(t) \/ calls[t] < MaxLocks

(* The start of lock and try_lock: owner.contains(this_thread), unlocked.  *)
Contains(t) ==
    /\ MayCall(t) /\ made' = made + 1
    /\ \E call \in {"mutex.lock", "mutex.try_lock"} :
          GoTo(t, IF contains(t) THEN "increment" ELSE call)
    /\ UNCHANGED <<vars, owner, lock_count, guards>>

\* Mutant of increment_lock_count: wraps in place of checked_add.
increment_lock_count_wraps(t) ==
    /\ at[t] = "increment"
    /\ lock_count' = (lock_count + 1) % (CountMAX + 1)
    /\ guards' = [guards EXCEPT ![t] = @ + 1]
    /\ GoTo(t, "user")
    /\ UNCHANGED <<vars, owner, made>>

(* At the limit checked_add fails: lock panics, try_lock returns None, and *)
(* in both cases there is no new guard.                                    *)
increment_lock_count(t) ==
    /\ at[t] = "increment"
    /\ \/ /\ lock_count < CountMAX
          /\ lock_count' = lock_count + 1
          /\ guards' = [guards EXCEPT ![t] = @ + 1]
       \/ /\ lock_count = CountMAX
          /\ UNCHANGED <<lock_count, guards>>
    /\ GoTo(t, "user")
    /\ UNCHANGED <<vars, owner, made>>

(* The calls of the inner mutex. A thread that gets it goes on to own the  *)
(* lock; a try_lock that does not returns None.                            *)
MutexLock(t) ==
    /\ at[t] = "mutex.lock" /\ Lock(t)
    /\ GoTo(t, IF pc'[t] = "held" THEN "set_owner" ELSE "locking")
    /\ UNCHANGED <<owner, lock_count, guards, made>>

MutexTryLock(t) ==
    /\ at[t] = "mutex.try_lock" /\ TryLock(t)
    /\ GoTo(t, IF pc'[t] = "held" THEN "set_owner" ELSE "user")
    /\ UNCHANGED <<owner, lock_count, guards, made>>

LockContended(t) ==
    /\ at[t] = "locking"
    /\ \/ SpinFirst(t) \/ CasUncontended(t) \/ MarkContended(t)
       \/ FutexWait(t) \/ SpinAgain(t)
    /\ GoTo(t, IF pc'[t] = "held" THEN "set_owner" ELSE "locking")
    /\ UNCHANGED <<owner, lock_count, guards, made>>

SetOwner(t) ==
    /\ at[t] = "set_owner"
    /\ owner' = {t}
    /\ GoTo(t, "set_count")
    /\ UNCHANGED <<vars, lock_count, guards, made>>

SetCount(t) ==
    /\ at[t] = "set_count"
    /\ lock_count' = 1
    /\ guards' = [guards EXCEPT ![t] = @ + 1]
    /\ GoTo(t, "user")
    /\ UNCHANGED <<vars, owner, made>>

(* The drop of a guard; the last one clears the owner, then unlocks.       *)
DropGuard(t) ==
    /\ at[t] = "user" /\ guards[t] > 0
    /\ lock_count' = lock_count - 1
    /\ guards' = [guards EXCEPT ![t] = @ - 1]
    /\ GoTo(t, IF lock_count' = 0 THEN "clear_owner" ELSE "user")
    /\ UNCHANGED <<vars, owner, made>>

\* Mutant of ClearOwner: the owner is left to the next thread to overwrite.
ClearOwnerLater(t) ==
    /\ at[t] = "clear_owner"
    /\ GoTo(t, "unlock")
    /\ UNCHANGED <<vars, owner, lock_count, guards, made>>

ClearOwner(t) ==
    /\ at[t] = "clear_owner"
    /\ owner' = {}
    /\ GoTo(t, "unlock")
    /\ UNCHANGED <<vars, lock_count, guards, made>>

MutexUnlock(t) ==
    /\ \/ at[t] = "unlock" /\ Unlock(t)
       \/ at[t] = "wake"   /\ Wake(t)
    /\ GoTo(t, IF pc'[t] = "wake" THEN "wake" ELSE "user")
    /\ UNCHANGED <<owner, lock_count, guards, made>>

Spurious(t) == SpuriousWakeup(t) /\ UNCHANGED lockVars

-----------------------------------------------------------------------------
(* A call under way goes on, and guards are dropped in the end.            *)
LockProgress(t) ==
    \/ increment_lock_count(t) \/ MutexLock(t) \/ MutexTryLock(t)
    \/ LockContended(t) \/ SetOwner(t) \/ SetCount(t)
    \/ DropGuard(t) \/ ClearOwner(t) \/ MutexUnlock(t)

AllReturned == /\ \A t \in Threads : /\ at[t] = "user" /\ guards[t] = 0
                                     /\ ~MayCall(t)
               /\ UNCHANGED allVars

LockNext == \/ \E t \in Threads : Contains(t) \/ LockProgress(t) \/ Spurious(t)
            \/ AllReturned

LockSpec == LockInit /\ [][LockNext]_allVars

FairLockSpec == LockSpec /\ \A t \in Threads : WF_allVars(LockProgress(t))

-----------------------------------------------------------------------------
(* The safety comment of lock and try_lock: "We only touch lock_count when *)
(* we own the inner mutex. Additionally, we only call self.owner.set()     *)
(* while holding the inner mutex". A thread that has a guard, or is about  *)
(* to use either field, owns the mutex; so what contains() read without it *)
(* was right, and no two threads meet on the plain cell.                   *)
TouchedUnderMutex ==
    \A t \in Threads :
       (guards[t] > 0 \/ at[t] \in {"increment", "set_owner", "set_count",
                                    "clear_owner", "unlock"}) => pc[t] = "held"

(* lock_count is the number of live guards: it is 0 where lock asserts so  *)
(* (debug_assert_eq), it never wraps, and the mutex is given up with the   *)
(* last guard and not before.                                              *)
CountIsGuards ==
    \A t \in Threads : pc[t] = "held" =>
       /\ lock_count = guards[t]
       /\ at[t] \in {"set_owner", "set_count", "clear_owner", "unlock"}
             => lock_count = 0

(* Both: the two fields are what the owner of the mutex takes them for.    *)
FieldsAreGuarded == TouchedUnderMutex /\ CountIsGuards

(* Every call returns and the lock comes to rest again: a blocked thread   *)
(* waits for another one to drop its guards, never for itself, however     *)
(* deep it nests, and no wake-up is lost.                                  *)
LockReturns == []<>(\A t \in Threads : at[t] = "user" /\ guards[t] = 0)
=============================================================================
