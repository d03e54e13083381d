------------------------ MODULE ReentrantLockProofs ------------------------
(***************************************************************************)
(* Proofs about the futex mutex, for any set of threads and any number of  *)
(* calls. Neither MutualExclusion nor SleepersAreCovered is inductive by   *)
(* itself: unlock() blindly stores UNLOCKED and lock_contended() blindly   *)
(* swaps in CONTENDED, so both need WordMatchesOwner, which says what the  *)
(* word tells about the owner.                                             *)
(*                                                                         *)
(* Proofs about the reentrant lock. It uses the mutex the way the mutex    *)
(* asks for, so that each of its behaviours is one of the futex mutex      *)
(* (UsesMutex) and the mutex's invariant holds in it. From exclusion it    *)
(* then follows that the fields agree with the guards, for any number of   *)
(* threads, nestings and any limit of the count. The check of `owner`,     *)
(* made without the mutex, is sound because of OwnerIsInside: only the     *)
(* thread itself puts its id there, and takes it out again.                *)
(***************************************************************************)
EXTENDS ReentrantLock, TLAPS

(* The inductive invariant.                                                *)
IInv == TypeOK /\ MutualExclusion /\ WordMatchesOwner /\ SleepersAreCovered

(* The steps of one thread.                                                *)
Step(t) == TryLock(t) \/ Lock(t) \/ Progress(t) \/ SpuriousWakeup(t)

USE DEF UNLOCKED, LOCKED, CONTENDED, States, Locations

(* The initial word is UNLOCKED and every thread is outside the mutex.     *)
LEMMA InitIInv == Init => IInv
  BY MaxLocksAssumption
  DEF Init, IInv, TypeOK, MutualExclusion, WordMatchesOwner, SleepersAreCovered,
      Asleep

(* A step of Next is a step of one thread, or changes nothing.             *)
LEMMA NextIsStep == [Next]_vars => (\E t \in Threads : Step(t)) \/ UNCHANGED vars
  BY DEF Next, Step, Finished

(* Every step assigns values of the right type.                            *)
LEMMA StepType == ASSUME TypeOK, NEW t \in Threads, Step(t) PROVE TypeOK'
<1> USE MaxLocksAssumption DEF TypeOK, Goto
<1>1. CASE TryLock(t) BY <1>1 DEF TryLock, Call, CompareExchange
<1>2. CASE Lock(t) BY <1>2 DEF Lock, Call, CompareExchange
<1>3. CASE SpinFirst(t) BY <1>3 DEF SpinFirst
<1>4. CASE CasUncontended(t) BY <1>4 DEF CasUncontended, CompareExchange
<1>5. CASE MarkContended(t) BY <1>5 DEF MarkContended
<1>6. CASE FutexWait(t) BY <1>6 DEF FutexWait
<1>7. CASE SpinAgain(t) BY <1>7 DEF SpinAgain
<1>8. CASE Unlock(t) BY <1>8 DEF Unlock
<1>9. CASE Wake(t) BY <1>9 DEF Wake, Asleep
<1>10. CASE SpuriousWakeup(t) BY <1>10 DEF SpuriousWakeup
<1>. QED
  BY <1>1, <1>2, <1>3, <1>4, <1>5, <1>6, <1>7, <1>8, <1>9, <1>10 DEF Step, Progress

(* The word tells whether the mutex is owned, and nobody takes it from its *)
(* owner: only the steps that leave the word UNLOCKED or find it UNLOCKED  *)
(* change the owner.                                                       *)
LEMMA StepOwner ==
  ASSUME TypeOK, MutualExclusion, WordMatchesOwner, NEW t \in Threads, Step(t)
  PROVE  MutualExclusion' /\ WordMatchesOwner'
<1> USE DEF TypeOK, MutualExclusion, WordMatchesOwner, Goto
<1>1. CASE TryLock(t) BY <1>1 DEF TryLock, Call, CompareExchange
<1>2. CASE Lock(t) BY <1>2 DEF Lock, Call, CompareExchange
<1>3. CASE SpinFirst(t) BY <1>3 DEF SpinFirst
<1>4. CASE CasUncontended(t) BY <1>4 DEF CasUncontended, CompareExchange
<1>5. CASE MarkContended(t) BY <1>5 DEF MarkContended
<1>6. CASE FutexWait(t) BY <1>6 DEF FutexWait
<1>7. CASE SpinAgain(t) BY <1>7 DEF SpinAgain
<1>8. CASE Unlock(t) BY <1>8 DEF Unlock
<1>9. CASE Wake(t) BY <1>9 DEF Wake, Asleep
<1>10. CASE SpuriousWakeup(t) BY <1>10 DEF SpuriousWakeup
<1>. QED
  BY <1>1, <1>2, <1>3, <1>4, <1>5, <1>6, <1>7, <1>8, <1>9, <1>10 DEF Step, Progress

(* A sleeping thread stays covered. The interesting steps: FutexWait only  *)
(* sleeps on a CONTENDED word; Unlock of a CONTENDED word commits its      *)
(* thread to a wake-up, and of a LOCKED word leaves the committed thread   *)
(* there was; Wake commits the thread it wakes.                            *)
LEMMA StepCovered ==
  ASSUME IInv, NEW t \in Threads, Step(t)
  PROVE  SleepersAreCovered'
<1> USE DEF IInv, TypeOK, WordMatchesOwner, SleepersAreCovered, Asleep, Committed, Goto
<1>1. CASE TryLock(t) BY <1>1 DEF TryLock, Call, CompareExchange
<1>2. CASE Lock(t) BY <1>2 DEF Lock, Call, CompareExchange
<1>3. CASE SpinFirst(t) BY <1>3 DEF SpinFirst
<1>4. CASE CasUncontended(t) BY <1>4 DEF CasUncontended, CompareExchange
<1>5. CASE MarkContended(t) BY <1>5 DEF MarkContended
<1>6. CASE FutexWait(t) BY <1>6 DEF FutexWait
<1>7. CASE SpinAgain(t) BY <1>7 DEF SpinAgain
<1>8. CASE Unlock(t) BY <1>8 DEF Unlock
<1>9. CASE Wake(t) BY <1>9 DEF Wake
<1>10. CASE SpuriousWakeup(t) BY <1>10 DEF SpuriousWakeup
<1>. QED
  BY <1>1, <1>2, <1>3, <1>4, <1>5, <1>6, <1>7, <1>8, <1>9, <1>10 DEF Step, Progress

(* IInv is an invariant of the futex mutex.                                *)
THEOREM Invariance == Spec => []IInv
<1>1. IInv /\ [Next]_vars => IInv'
  <2> SUFFICES ASSUME IInv, [Next]_vars PROVE IInv'
    OBVIOUS
  <2>1. CASE UNCHANGED vars
    BY <2>1 DEF vars, IInv, TypeOK, MutualExclusion, WordMatchesOwner,
                SleepersAreCovered, Asleep, Committed
  <2>2. CASE \E t \in Threads : Step(t)
    BY <2>2, StepType, StepOwner, StepCovered DEF IInv
  <2>. QED
    BY <2>1, <2>2, NextIsStep
<1>. QED
  BY InitIInv, <1>1, PTL DEF Spec

(* lock(), try_lock() and unlock() give mutual exclusion.                  *)
THEOREM Exclusion == Spec => []MutualExclusion
  BY Invariance, PTL DEF IInv

(* Waking one thread per unlock() of a contended mutex loses no wake-up.   *)
THEOREM NoLostWakeup == Spec => []SleepersAreCovered
  BY Invariance, PTL DEF IInv

(* Every behaviour of the futex mutex is one of the abstract mutex.        *)
THEOREM Refinement == Spec => ImplementsMutex
<1>1. Init => Abstract!Init
  BY DEF Init, Abstract!Init, Owners
<1>2. IInv /\ [Next]_vars => [Abstract!Next]_Owners
  <2> SUFFICES ASSUME IInv, [Next]_vars PROVE [Abstract!Next]_Owners
    OBVIOUS
  <2>1. CASE UNCHANGED vars
    BY <2>1 DEF vars, Owners
  <2>2. ASSUME NEW t \in Threads, Step(t) PROVE [Abstract!Next]_Owners
    <3> USE DEF IInv, TypeOK, MutualExclusion, WordMatchesOwner, Goto, Owners
    <3>1. CASE TryLock(t) \/ Lock(t) \/ CasUncontended(t)
      BY <2>2, <3>1
      DEF TryLock, Lock, CasUncontended, Call, CompareExchange, Abstract!Next, Abstract!Acquire
    <3>2. CASE MarkContended(t)
      BY <2>2, <3>2 DEF MarkContended, Abstract!Next, Abstract!Acquire
    <3>3. CASE Unlock(t)
      BY <2>2, <3>3 DEF Unlock, Abstract!Next, Abstract!Release
    <3>4. CASE SpinFirst(t) \/ FutexWait(t) \/ SpinAgain(t) \/ SpuriousWakeup(t)
      BY <2>2, <3>4 DEF SpinFirst, FutexWait, SpinAgain, SpuriousWakeup
    <3>5. CASE Wake(t)
      BY <2>2, <3>5 DEF Wake, Asleep
    <3>. QED
      BY <2>2, <3>1, <3>2, <3>3, <3>4, <3>5 DEF Step, Progress
  <2>. QED
    BY <2>1, <2>2, NextIsStep
<1>. QED
  BY <1>1, <1>2, Invariance, PTL DEF Spec, ImplementsMutex, Abstract!Spec

-----------------------------------------------------------------------------
LockLocations == {"user", "mutex.lock", "mutex.try_lock", "locking", "increment",
                  "set_owner", "set_count", "clear_owner", "unlock", "wake"}

LockType == /\ owner \subseteq Threads /\ lock_count \in Nat
            /\ guards \in [Threads -> Nat]
            /\ at \in [Threads -> LockLocations]

(* Between the mutex's lock and unlock a thread has a guard, or is on its  *)
(* way to the first or from the last one.                                  *)
HeldInside ==
    \A t \in Threads :
       /\ pc[t] = "held" <=>
            \/ guards[t] > 0
            \/ at[t] \in {"increment", "set_owner", "set_count", "clear_owner", "unlock"}
       /\ guards[t] > 0 => at[t] \in {"user", "increment"}
       /\ at[t] = "increment" => guards[t] > 0

OwnerIsInside ==
    \A t \in Threads : t \in owner <=> guards[t] > 0 \/ at[t] \in {"set_count", "clear_owner"}

CountMatches ==
    /\ \A t \in Threads : pc[t] = "held" => lock_count = guards[t]
    /\ (\A t \in Threads : pc[t] # "held") => lock_count = 0

(* The inductive invariant, next to the one of the mutex.                  *)
LInv == LockType /\ HeldInside /\ OwnerIsInside /\ CountMatches

(* The steps of one thread.                                                *)
LockStep(t) == Contains(t) \/ LockProgress(t) \/ Spurious(t)

(* A step of LockNext is a step of one thread, or changes nothing.         *)
LEMMA LockNextIsStep ==
  [LockNext]_allVars => (\E t \in Threads : LockStep(t)) \/ UNCHANGED allVars
  BY DEF LockNext, LockStep, AllReturned

(* What a step of the lock does to the mutex is a step of the mutex.       *)
LEMMA StepOfMutex ==
  ASSUME NEW t \in Threads, LockStep(t)
  PROVE  Step(t) \/ UNCHANGED vars
  BY DEF LockStep, LockProgress, Contains, increment_lock_count, MutexLock, MutexTryLock,
         LockContended, SetOwner, SetCount, DropGuard, ClearOwner, MutexUnlock, Spurious,
         Step, Progress

(* The reentrant lock calls the mutex as it must be called: lock only by a *)
(* thread outside, unlock only by the owner. All that is proved about the  *)
(* futex mutex holds for the mutex inside a reentrant lock.                *)
THEOREM UsesMutex == LockSpec => Spec
<1>1. LockInit => Init
  BY DEF LockInit
<1>2. [LockNext]_allVars => [Next]_vars
  <2> SUFFICES ASSUME [LockNext]_allVars PROVE [Next]_vars
    OBVIOUS
  <2>1. CASE UNCHANGED allVars
    BY <2>1 DEF allVars
  <2>2. CASE \E t \in Threads : LockStep(t)
    BY <2>2, StepOfMutex DEF Step, Next
  <2>. QED
    BY <2>1, <2>2, LockNextIsStep
<1>. QED
  BY <1>1, <1>2, PTL DEF LockSpec, Spec

(* No guard, no owner and a count of zero.                                 *)
LEMMA InitLInv == LockInit => LInv
  BY DEF LockInit, Init, LInv, LockType, LockLocations, HeldInside, OwnerIsInside,
         CountMatches

(* A step that leaves the mutex alone.                                     *)
LEMMA FieldStep ==
  ASSUME IInv, LInv, NEW t \in Threads,
         \/ Contains(t) \/ increment_lock_count(t) \/ SetOwner(t) \/ SetCount(t)
         \/ DropGuard(t) \/ ClearOwner(t)
  PROVE  LInv'
<1> USE CountMAXAssumption
    DEF IInv, MutualExclusion, LInv, LockType, LockLocations, HeldInside, OwnerIsInside,
        CountMatches, vars, GoTo
<1>1. CASE Contains(t) BY <1>1 DEF Contains, contains, MayCall
<1>2. CASE increment_lock_count(t) BY <1>2 DEF increment_lock_count
<1>3. CASE SetOwner(t) BY <1>3 DEF SetOwner
<1>4. CASE SetCount(t) BY <1>4 DEF SetCount
<1>5. CASE DropGuard(t) BY <1>5 DEF DropGuard
<1>6. CASE ClearOwner(t) BY <1>6 DEF ClearOwner
<1>. QED
  BY <1>1, <1>2, <1>3, <1>4, <1>5, <1>6

(* A step of the mutex. Who gets it finds a count of zero, since nobody    *)
(* owned it; who gives it up leaves a count of zero.                       *)
LEMMA MutexStep ==
  ASSUME IInv, LInv, NEW t \in Threads,
         \/ MutexLock(t) \/ MutexTryLock(t) \/ LockContended(t) \/ MutexUnlock(t)
         \/ Spurious(t)
  PROVE  LInv'
<1> USE DEF IInv, TypeOK, MutualExclusion, WordMatchesOwner, LInv, LockType,
            LockLocations, HeldInside, OwnerIsInside, CountMatches, GoTo, Goto
<1>1. CASE MutexLock(t)
  BY <1>1 DEF MutexLock, Lock, Call, CompareExchange
<1>2. CASE MutexTryLock(t)
  BY <1>2 DEF MutexTryLock, TryLock, Call, CompareExchange
<1>3. CASE LockContended(t) /\ (CasUncontended(t) \/ MarkContended(t))
  BY <1>3 DEF LockContended, CasUncontended, MarkContended, CompareExchange
<1>4. CASE LockContended(t) /\ (SpinFirst(t) \/ FutexWait(t) \/ SpinAgain(t))
  BY <1>4 DEF LockContended, SpinFirst, FutexWait, SpinAgain
<1>5. CASE MutexUnlock(t) /\ Unlock(t)
  BY <1>5 DEF MutexUnlock, Unlock
<1>6. CASE MutexUnlock(t) /\ Wake(t)
  BY <1>6 DEF MutexUnlock, Wake, Asleep
<1>7. CASE Spurious(t)
  BY <1>7 DEF Spurious, SpuriousWakeup, lockVars
<1>. QED
  BY <1>1, <1>2, <1>3, <1>4, <1>5, <1>6, <1>7 DEF LockContended, MutexUnlock

(* Both invariants hold throughout.                                        *)
THEOREM LockInvariance == LockSpec => []LInv
<1>1. LInv /\ IInv /\ [LockNext]_allVars => LInv'
  <2> SUFFICES ASSUME LInv, IInv, [LockNext]_allVars PROVE LInv'
    OBVIOUS
  <2>1. CASE UNCHANGED allVars
    BY <2>1 DEF allVars, lockVars, vars, LInv, LockType, HeldInside, OwnerIsInside,
                CountMatches
  <2>2. CASE \E t \in Threads : LockStep(t)
    BY <2>2, FieldStep, MutexStep DEF LockStep, LockProgress
  <2>. QED
    BY <2>1, <2>2, LockNextIsStep
<1>. QED
  BY InitLInv, <1>1, UsesMutex, Invariance, PTL DEF LockSpec

(* The safety comment of lock and try_lock, and the count: owner and       *)
(* lock_count are touched only by the owner of the mutex, and the count is *)
(* the number of its guards, zero where lock asserts so.                   *)
THEOREM FieldsGuarded == LockSpec => []FieldsAreGuarded
<1>1. LInv => FieldsAreGuarded
  BY DEF LInv, LockType, HeldInside, CountMatches, FieldsAreGuarded, TouchedUnderMutex,
         CountIsGuards
<1>. QED
  BY <1>1, LockInvariance, PTL

(* Nested or not, a sleeping thread of a reentrant lock is woken: the      *)
(* mutex's guarantee carries over.                                         *)
THEOREM LockNoLostWakeup == LockSpec => []SleepersAreCovered
  BY UsesMutex, NoLostWakeup, PTL
=============================================================================
