--------------------------- MODULE BarrierProofs ----------------------------
(***************************************************************************)
(* Proofs about the condition variable and the barrier that is built on    *)
(* it, for any set of threads and any number of calls. The first part is   *)
(* about the steps of the condition variable alone, so that it serves both *)
(* the client of FutexCondvar and the barrier.                             *)
(*                                                                         *)
(* The counter of the condition variable wraps around: a waiter that has   *)
(* loaded it and is not asleep yet misses its notification if, in between, *)
(* the counter comes back to the value that it has loaded, which takes a   *)
(* multiple of Wrap (2^32) notifications. The theorems about wake-ups are  *)
(* about the behaviours where that does not happen (NoAba).                *)
(***************************************************************************)
EXTENDS Barrier, TLAPS, FiniteSetTheorems

CvLocations == {"idle", "held", "loaded", "unlocked", "asleep", "relock",
                "wake_one", "wake_all"}
Waits == [value : Nat, timed : BOOLEAN]

CvTypeOK == /\ futex \in Nat
            /\ owners \subseteq Threads
            /\ pc   \in [Threads -> CvLocations]
            /\ wait \in [Threads -> Waits]
            /\ due \subseteq Threads
            /\ owed \in [Threads -> SUBSET Threads]

(* Who owns the mutex is where an owner can be, and nobody else.           *)
MutexIsHeld ==
    /\ \A t \in Threads : /\ pc[t] \in {"held", "loaded"} => owners = {t}
                          /\ t \in owners => /\ owners = {t}
                                             /\ pc[t] \in {"held", "loaded", "wake_one", "wake_all"}

(* The waiters that a notify_all has to release and that are not released  *)
(* yet are asleep, and will be woken.                                      *)
DueAreWoken ==
    \A t \in due \cap Blocked : pc[t] = "asleep" /\ At({"wake_all"}) # {}

(* A notify_one that owes a waiter its release finds only such waiters     *)
(* asleep, and keeps others from joining them by owning the mutex.         *)
OwedIsFound ==
    \A n \in Threads : pc[n] = "wake_one" /\ owed[n] # {} =>
        n \in owners /\ \A t \in Blocked : pc[t] = "asleep" /\ t \in owed[n]

OwedIsReleased ==
    \A n \in Threads : pc[n] # "wake_one" =>
        owed[n] = {} \/ \E w \in owed[n] : w \notin Blocked

(* The inductive invariant of the condition variable.                      *)
CvInv == CvTypeOK /\ MutexIsHeld /\ DueAreWoken /\ OwedIsFound /\ OwedIsReleased

(* A notification leaves the counter at a value that no waiter on its way  *)
(* to sleep has loaded.                                                    *)
NoAba == \A n, t \in Threads :
            (NotifyOne(n) \/ NotifyAll(n)) /\ pc[t] \in {"loaded", "unlocked"}
               => futex' # wait[t].value

(* The steps of the condition variable, whoever its client is.             *)
CvStep == \/ \E t \in Threads : \/ Lock(t) \/ Unlock(t)
                                \/ \E b \in BOOLEAN : Wait(t, b)
                                \/ NotifyOne(t) \/ NotifyAll(t)
                                \/ InCall(t) \/ SpuriousWakeup(t)
          \/ UNCHANGED cvVars

(* Thread t wakes others, or itself, and goes on at loc.                   *)
Wakes(t, woken, loc) ==
    \A u \in Threads : /\ u \in woken => pc'[u] = "relock"
                       /\ u \notin woken => /\ pc'[u] = IF u = t THEN loc ELSE pc[u]
                                            /\ wait'[u] = wait[u]

-----------------------------------------------------------------------------
(* The ways out of futex_wait end the wait.                                *)
LEMMA WakeUpType ==
  ASSUME CvTypeOK, NEW woken \in SUBSET Threads, NEW t \in Threads, NEW loc \in CvLocations,
         WakeUp(woken, t, loc)
  PROVE  /\ pc' \in [Threads -> CvLocations] /\ wait' \in [Threads -> Waits]
         /\ Wakes(t, woken, loc)
<1>1. NoWait \in Waits
  BY DEF NoWait, Waits
<1>. QED
  BY <1>1 DEF CvTypeOK, WakeUp, CvLocations, Wakes

(* What futex_wake wakes: nobody if nobody sleeps, else one sleeper.       *)
LEMMA WokenOne ==
  ASSUME NEW woken \in FutexWake(At({"asleep"}))
  PROVE  /\ woken \in SUBSET Threads
         /\ woken = {} => \A u \in Threads : pc[u] # "asleep"
         /\ \A u \in woken : pc[u] = "asleep"
  BY DEF FutexWake, At

(* The steps out of futex_wait and out of futex_wake, in one form: a set   *)
(* of threads that were not locking is woken by t.                         *)
LEMMA StepWakes ==
  ASSUME CvTypeOK, MutexIsHeld, NEW t \in Threads,
         \/ Timeout(t) \/ SpuriousWakeup(t) \/ WakeOne(t) \/ WakeAll(t)
         \/ FutexWait(t) /\ futex # wait[t].value
  PROVE  /\ UNCHANGED <<futex, owners, due, owed>>
         /\ pc' \in [Threads -> CvLocations] /\ wait' \in [Threads -> Waits]
         /\ \E woken \in SUBSET Threads, loc \in CvLocations :
               /\ Wakes(t, woken, loc)
               /\ \A u \in woken : pc[u] \in {"asleep", "unlocked"}
               /\ \/ woken = {t} /\ pc[t] \in {"asleep", "unlocked"}
                  \/ /\ pc[t] = "wake_all" /\ loc = Resume(t)
                     /\ woken = At({"asleep"})
                  \/ /\ pc[t] = "wake_one" /\ loc = Resume(t)
                     /\ woken \in FutexWake(At({"asleep"}))
<1>0. "relock" \in CvLocations /\ Resume(t) \in CvLocations
  BY DEF CvLocations, Resume
<1>1. CASE Timeout(t) \/ SpuriousWakeup(t)
  <2>1. WakeUp({t}, t, "relock") /\ pc[t] = "asleep" /\ UNCHANGED <<futex, owners, due, owed>>
    BY <1>1 DEF Timeout, SpuriousWakeup
  <2>. QED
    BY <1>0, <2>1, WakeUpType
<1>2. CASE FutexWait(t) /\ futex # wait[t].value
  <2>1. WakeUp({t}, t, "relock") /\ pc[t] = "unlocked" /\ UNCHANGED <<futex, owners, due, owed>>
    BY <1>2 DEF FutexWait
  <2>. QED
    BY <1>0, <2>1, WakeUpType
<1>3. CASE WakeOne(t)
  <2>1. PICK woken \in FutexWake(At({"asleep"})) : WakeUp(woken, t, Resume(t))
    BY <1>3 DEF WakeOne
  <2>2. woken \in SUBSET Threads /\ \A u \in woken : pc[u] = "asleep"
    BY WokenOne
  <2>. QED
    BY <1>0, <1>3, <2>1, <2>2, WakeUpType DEF WakeOne
<1>4. CASE WakeAll(t)
  <2>1. WakeUp(At({"asleep"}), t, Resume(t))
    BY <1>4 DEF WakeAll
  <2>2. At({"asleep"}) \in SUBSET Threads /\ \A u \in At({"asleep"}) : pc[u] = "asleep"
    BY DEF At
  <2>. QED
    BY <1>0, <1>4, <2>1, <2>2, WakeUpType DEF WakeAll
<1>. QED
  BY <1>1, <1>2, <1>3, <1>4

(* A waiter sleeps if the counter is what it has loaded.                   *)
LEMMA StepSleeps ==
  ASSUME CvTypeOK, NEW t \in Threads, FutexWait(t), futex = wait[t].value
  PROVE  /\ pc[t] = "unlocked" /\ pc' = [pc EXCEPT ![t] = "asleep"]
         /\ UNCHANGED <<futex, owners, wait, due, owed>>
  BY DEF FutexWait, Goto

(* The steps of the condition variable, sorted.                            *)
LEMMA CvSteps ==
  ASSUME CvStep
  PROVE  \/ UNCHANGED <<futex, owners, pc, wait, due, owed>>
         \/ \E t \in Threads :
               \/ Lock(t) \/ Relock(t) \/ Unlock(t) \/ WaitUnlock(t)
               \/ \E b \in BOOLEAN : Wait(t, b)
               \/ NotifyOne(t) \/ NotifyAll(t)
               \/ FutexWait(t) /\ futex = wait[t].value
               \/ Timeout(t) \/ SpuriousWakeup(t) \/ WakeOne(t) \/ WakeAll(t)
               \/ FutexWait(t) /\ futex # wait[t].value
  BY DEF CvStep, InCall, cvVars

(* The steps assign values of the right type.                              *)
LEMMA CvType ==
  ASSUME CvTypeOK, MutexIsHeld, CvStep
  PROVE  CvTypeOK'
<1> USE DEF CvTypeOK
<1>0. CASE UNCHANGED <<futex, owners, pc, wait, due, owed>>
  BY <1>0
<1>1. ASSUME NEW t \in Threads,
             Lock(t) \/ Relock(t) \/ Unlock(t) \/ WaitUnlock(t)
      PROVE  CvTypeOK'
  BY <1>1 DEF Lock, Relock, Unlock, WaitUnlock, Goto, CvLocations,
     mutex!Acquire, mutex!Release
<1>2. ASSUME NEW t \in Threads, NEW b \in BOOLEAN, Wait(t, b) PROVE CvTypeOK'
  <2>1. [value |-> futex, timed |-> b] \in Waits
    BY DEF Waits
  <2>2. owed' \in [Threads -> SUBSET Threads]
    BY <1>2 DEF Wait
  <2>. QED
    BY <1>2, <2>1, <2>2 DEF Wait, Goto, CvLocations
<1>3. ASSUME NEW t \in Threads, NotifyOne(t) \/ NotifyAll(t) PROVE CvTypeOK'
  <2>1. futex' \in Nat
    BY <1>3, ConstantsAssumption DEF NotifyOne, NotifyAll, Increment
  <2>2. Blocked \subseteq Threads
    BY DEF Blocked
  <2>3. pc' \in [Threads -> CvLocations] /\ UNCHANGED <<owners, wait>>
    BY <1>3 DEF NotifyOne, NotifyAll, Goto, CvLocations
  <2>4. due' \subseteq Threads /\ owed' \in [Threads -> SUBSET Threads]
    BY <1>3, <2>2 DEF NotifyOne, NotifyAll
  <2>. QED
    BY <2>1, <2>3, <2>4
<1>4. ASSUME NEW t \in Threads, FutexWait(t), futex = wait[t].value PROVE CvTypeOK'
  BY <1>4, StepSleeps DEF CvLocations
<1>5. ASSUME NEW t \in Threads,
             \/ Timeout(t) \/ SpuriousWakeup(t) \/ WakeOne(t) \/ WakeAll(t)
             \/ FutexWait(t) /\ futex # wait[t].value
      PROVE  CvTypeOK'
  BY <1>5, StepWakes
<1>. QED
  BY <1>0, <1>1, <1>2, <1>3, <1>4, <1>5, CvSteps

(* The mutex is handed over correctly.                                     *)
LEMMA CvMutex ==
  ASSUME CvTypeOK, MutexIsHeld, CvStep
  PROVE  MutexIsHeld'
<1> USE DEF CvTypeOK, MutexIsHeld
<1>0. CASE UNCHANGED <<futex, owners, pc, wait, due, owed>>
  BY <1>0
<1>1. ASSUME NEW t \in Threads, Lock(t) \/ Relock(t) PROVE MutexIsHeld'
  BY <1>1 DEF Lock, Relock, Goto, mutex!Acquire
<1>2. ASSUME NEW t \in Threads, Unlock(t) \/ WaitUnlock(t) PROVE MutexIsHeld'
  BY <1>2 DEF Unlock, WaitUnlock, Goto, mutex!Release
<1>3. ASSUME NEW t \in Threads, NEW b \in BOOLEAN, Wait(t, b) PROVE MutexIsHeld'
  BY <1>3 DEF Wait, Goto
<1>4. ASSUME NEW t \in Threads, NotifyOne(t) \/ NotifyAll(t) PROVE MutexIsHeld'
  BY <1>4 DEF NotifyOne, NotifyAll, Goto
<1>5. ASSUME NEW t \in Threads, FutexWait(t), futex = wait[t].value PROVE MutexIsHeld'
  BY <1>5, StepSleeps
<1>6. ASSUME NEW t \in Threads,
             \/ Timeout(t) \/ SpuriousWakeup(t) \/ WakeOne(t) \/ WakeAll(t)
             \/ FutexWait(t) /\ futex # wait[t].value
      PROVE  MutexIsHeld'
  <2>1. PICK woken \in SUBSET Threads, loc \in CvLocations :
               /\ Wakes(t, woken, loc)
               /\ \A u \in woken : pc[u] \in {"asleep", "unlocked"}
               /\ t \in woken \/ loc = Resume(t)
    BY <1>6, StepWakes
  <2>2. \A u \in Threads : \/ pc'[u] = pc[u]
                           \/ pc'[u] = "relock" /\ pc[u] \in {"asleep", "unlocked"}
                           \/ pc'[u] = "held" /\ owners = {u}
                           \/ pc'[u] = "idle" /\ u \notin owners
    BY <2>1 DEF Wakes, Resume
  <2>3. owners' = owners
    BY <1>6, StepWakes
  <2>. QED
    BY <2>2, <2>3
<1>. QED
  BY <1>0, <1>1, <1>2, <1>3, <1>4, <1>5, <1>6, CvSteps

(* Only a new wait makes a thread one that will sleep; and a notification  *)
(* keeps every thread from sleeping that is not asleep already.            *)
LEMMA CvBlocked ==
  ASSUME CvTypeOK, MutexIsHeld, CvStep, NoAba, NEW u \in Threads, u \in Blocked'
  PROVE  /\ u \in Blocked \/ \E b \in BOOLEAN : Wait(u, b)
         /\ \A n \in Threads : NotifyOne(n) \/ NotifyAll(n) =>
               pc[u] = "asleep" /\ pc'[u] = "asleep"
<1> DEFINE Goal == /\ u \in Blocked \/ \E b \in BOOLEAN : Wait(u, b)
                   /\ \A n \in Threads : NotifyOne(n) \/ NotifyAll(n) =>
                         pc[u] = "asleep" /\ pc'[u] = "asleep"
<1> SUFFICES Goal
  OBVIOUS
<1>a. \/ pc'[u] = "asleep"
      \/ pc'[u] \in {"loaded", "unlocked"} /\ wait'[u].value = futex'
  BY DEF Blocked
<1>b. ASSUME NEW n \in Threads, NotifyOne(n) \/ NotifyAll(n)
      PROVE  pc[u] = "asleep" /\ pc'[u] = "asleep"
  <2>1. (u # n => pc'[u] = pc[u]) /\ pc'[n] \in {"wake_one", "wake_all"} /\ wait' = wait
    BY <1>b DEF NotifyOne, NotifyAll, Goto, CvTypeOK
  <2>. QED
    BY <1>a, <1>b, <2>1 DEF NoAba
<1>c. ASSUME u \in Blocked PROVE Goal
  BY <1>b, <1>c
<1>d. ASSUME pc'[u] = pc[u], wait'[u] = wait[u], futex' = futex PROVE Goal
  BY <1>a, <1>c, <1>d DEF Blocked
<1>0. CASE UNCHANGED <<futex, owners, pc, wait, due, owed>>
  BY <1>0, <1>d
<1>1. ASSUME NEW t \in Threads, Lock(t) \/ Relock(t) \/ Unlock(t) PROVE Goal
  BY <1>1, <1>a, <1>d DEF Lock, Relock, Unlock, Goto, CvTypeOK
<1>2. ASSUME NEW t \in Threads, WaitUnlock(t) PROVE Goal
  <2>1. CASE u = t
    BY <1>2, <1>a, <1>c, <2>1 DEF WaitUnlock, Goto, CvTypeOK, Blocked
  <2>2. CASE u # t
    BY <1>2, <1>d, <2>2 DEF WaitUnlock, Goto, CvTypeOK
  <2>. QED
    BY <2>1, <2>2
<1>3. ASSUME NEW t \in Threads, NEW b \in BOOLEAN, Wait(t, b) PROVE Goal
  <2>1. CASE u = t
    BY <1>3, <1>b, <2>1
  <2>2. CASE u # t
    BY <1>3, <1>d, <2>2 DEF Wait, Goto, CvTypeOK
  <2>. QED
    BY <2>1, <2>2
<1>4. ASSUME NEW t \in Threads, NotifyOne(t) \/ NotifyAll(t) PROVE Goal
  BY <1>4, <1>b, <1>c DEF Blocked
<1>5. ASSUME NEW t \in Threads, FutexWait(t), futex = wait[t].value PROVE Goal
  <2>1. CASE u = t
    BY <1>5, <1>c, <2>1, StepSleeps DEF Blocked
  <2>2. CASE u # t
    BY <1>5, <1>d, <2>2, StepSleeps DEF CvTypeOK
  <2>. QED
    BY <2>1, <2>2
<1>6. ASSUME NEW t \in Threads,
             \/ Timeout(t) \/ SpuriousWakeup(t) \/ WakeOne(t) \/ WakeAll(t)
             \/ FutexWait(t) /\ futex # wait[t].value
      PROVE  Goal
  <2>1. PICK woken \in SUBSET Threads, loc \in CvLocations :
               Wakes(t, woken, loc) /\ (t \in woken \/ loc \in {"held", "idle"})
    BY <1>6, StepWakes DEF Resume
  <2>2. pc'[u] = pc[u] /\ wait'[u] = wait[u]
    BY <1>a, <2>1 DEF Wakes
  <2>3. futex' = futex
    BY <1>6, StepWakes
  <2>. QED
    BY <1>d, <2>2, <2>3
<1>. QED
  BY <1>0, <1>1, <1>2, <1>3, <1>4, <1>5, <1>6, CvSteps

(* Where a thread comes to wake, and how it leaves.                        *)
LEMMA CvWakers ==
  ASSUME CvTypeOK, MutexIsHeld, CvStep, NEW n \in Threads
  PROVE  /\ pc[n] = "wake_all" => pc'[n] = "wake_all" \/ WakeAll(n)
         /\ pc[n] = "wake_one" => pc'[n] = "wake_one" \/ WakeOne(n)
         /\ pc'[n] = "wake_one" => pc[n] = "wake_one" \/ NotifyOne(n)
<1> DEFINE Goal == /\ pc[n] = "wake_all" => pc'[n] = "wake_all" \/ WakeAll(n)
                   /\ pc[n] = "wake_one" => pc'[n] = "wake_one" \/ WakeOne(n)
                   /\ pc'[n] = "wake_one" => pc[n] = "wake_one" \/ NotifyOne(n)
<1> SUFFICES Goal
  OBVIOUS
<1>0. CASE UNCHANGED <<futex, owners, pc, wait, due, owed>>
  BY <1>0
<1>1. ASSUME NEW t \in Threads,
             Lock(t) \/ Relock(t) \/ Unlock(t) \/ WaitUnlock(t) PROVE Goal
  BY <1>1 DEF Lock, Relock, Unlock, WaitUnlock, Goto, CvTypeOK
<1>2. ASSUME NEW t \in Threads, NEW b \in BOOLEAN, Wait(t, b) PROVE Goal
  BY <1>2 DEF Wait, Goto, CvTypeOK
<1>3. ASSUME NEW t \in Threads, NotifyOne(t) \/ NotifyAll(t) PROVE Goal
  <2>1. (n # t => pc'[n] = pc[n]) /\ pc[t] \in {"idle", "held"}
    BY <1>3 DEF NotifyOne, NotifyAll, Goto, CvTypeOK
  <2>2. NotifyAll(t) => pc'[t] = "wake_all"
    BY DEF NotifyAll, Goto, CvTypeOK
  <2>. QED
    BY <1>3, <2>1, <2>2
<1>4. ASSUME NEW t \in Threads, FutexWait(t), futex = wait[t].value PROVE Goal
  BY <1>4, StepSleeps DEF CvTypeOK
<1>5. ASSUME NEW t \in Threads,
             \/ Timeout(t) \/ SpuriousWakeup(t) \/ WakeOne(t) \/ WakeAll(t)
             \/ FutexWait(t) /\ futex # wait[t].value
      PROVE  Goal
  <2>1. PICK woken \in SUBSET Threads, loc \in CvLocations :
               /\ Wakes(t, woken, loc)
               /\ \A u \in woken : pc[u] \in {"asleep", "unlocked"}
               /\ t \in woken \/ loc \in {"held", "idle"}
    BY <1>5, StepWakes DEF Resume
  <2>2. /\ n # t => \/ pc'[n] = pc[n]
                    \/ pc[n] \in {"asleep", "unlocked"} /\ pc'[n] = "relock"
        /\ pc'[t] \in {"relock", "held", "idle"}
    BY <2>1 DEF Wakes
  <2>3. /\ pc[t] = "wake_all" => WakeAll(t)
        /\ pc[t] = "wake_one" => WakeOne(t)
    BY <1>5 DEF Timeout, SpuriousWakeup, FutexWait, WakeOne, WakeAll
  <2>. QED
    BY <2>2, <2>3
<1>. QED
  BY <1>0, <1>1, <1>2, <1>3, <1>4, <1>5, CvSteps

(* Which waiters a step owes a release.                                    *)
LEMMA CvGhosts ==
  ASSUME CvTypeOK, MutexIsHeld, CvStep
  PROVE  /\ due' \subseteq due \cup Blocked
         /\ (\A n \in Threads : ~NotifyAll(n)) => due' \subseteq due
         /\ \A t \in Threads, b \in BOOLEAN : Wait(t, b) => t \notin due'
         /\ \A n \in Threads : ~NotifyOne(n) => owed'[n] = owed[n] \/ owed'[n] = {}
         /\ \A n, t \in Threads, b \in BOOLEAN : Wait(t, b) => t \notin owed'[n]
         /\ \A n \in Threads : NotifyOne(n) =>
               owed'[n] = IF n \in owners THEN Blocked ELSE {}
<1>1. /\ \A t \in Threads, b \in BOOLEAN : Wait(t, b) => t \notin due'
      /\ \A n, t \in Threads, b \in BOOLEAN : Wait(t, b) => t \notin owed'[n]
  BY DEF Wait, CvTypeOK
<1>2. \A n \in Threads : NotifyOne(n) =>
          owed'[n] = IF n \in owners THEN Blocked ELSE {}
  BY DEF NotifyOne, CvTypeOK
<1> DEFINE Goal == /\ due' \subseteq due \cup Blocked
                   /\ (\A n \in Threads : ~NotifyAll(n)) => due' \subseteq due
                   /\ \A n \in Threads : ~NotifyOne(n) => owed'[n] = owed[n] \/ owed'[n] = {}
<1>3. ASSUME UNCHANGED <<due, owed>> PROVE Goal
  BY <1>3
<1>4. ASSUME UNCHANGED <<futex, owners, pc, wait, due, owed>> PROVE Goal
  BY <1>3, <1>4
<1>5. ASSUME NEW t \in Threads,
             Lock(t) \/ Relock(t) \/ Unlock(t) \/ WaitUnlock(t)
      PROVE  Goal
  BY <1>3, <1>5 DEF Lock, Relock, Unlock, WaitUnlock
<1>6. ASSUME NEW t \in Threads, NEW b \in BOOLEAN, Wait(t, b) PROVE Goal
  <2>1. due' \subseteq due /\ \A n \in Threads : owed'[n] = owed[n] \/ owed'[n] = {}
    BY <1>6 DEF Wait
  <2>. QED
    BY <2>1
<1>7. ASSUME NEW t \in Threads, NotifyOne(t) \/ NotifyAll(t) PROVE Goal
  <2>1. CASE NotifyOne(t)
    <3>1. due' = due /\ \A n \in Threads : n # t => owed'[n] = owed[n]
      BY <2>1 DEF NotifyOne, CvTypeOK
    <3>. QED
      BY <2>1, <3>1
  <2>2. CASE NotifyAll(t)
    <3>1. due' = due \cup Blocked /\ owed' = owed
      BY <2>2 DEF NotifyAll
    <3>. QED
      BY <2>2, <3>1
  <2>. QED
    BY <1>7, <2>1, <2>2
<1>8. ASSUME NEW t \in Threads,
             \/ FutexWait(t)
             \/ Timeout(t) \/ SpuriousWakeup(t) \/ WakeOne(t) \/ WakeAll(t)
      PROVE  Goal
  BY <1>3, <1>8 DEF FutexWait, Timeout, SpuriousWakeup, WakeOne, WakeAll
<1>9. Goal
  BY <1>4, <1>5, <1>6, <1>7, <1>8, CvSteps
<1>. QED
  BY <1>1, <1>2, <1>9

(* A futex_wake_all leaves nobody asleep.                                  *)
LEMMA AllWoken ==
  ASSUME CvTypeOK, NEW n \in Threads, WakeAll(n), NEW t \in Threads
  PROVE  pc'[t] # "asleep" /\ pc'[n] \in {"idle", "held"}
<1>1. WakeUp(At({"asleep"}), n, Resume(n)) /\ pc[n] = "wake_all"
  BY DEF WakeAll
<1>2. Resume(n) \in CvLocations /\ Resume(n) \in {"idle", "held"}
  BY DEF Resume, CvLocations
<1>. QED
  BY <1>1, <1>2 DEF WakeUp, At, CvTypeOK

(* A sleeper that is still to sleep stays asleep.                          *)
LEMMA AsleepStays ==
  ASSUME CvTypeOK, MutexIsHeld, CvStep, NEW t \in Threads, pc[t] = "asleep", t \in Blocked'
  PROVE  pc'[t] = "asleep"
<1>1. pc'[t] \in {"asleep", "loaded", "unlocked"}
  BY DEF Blocked
<1>2. CASE UNCHANGED <<futex, owners, pc, wait, due, owed>>
  BY <1>2
<1>3. ASSUME NEW u \in Threads, WaitUnlock(u) \/ \E b \in BOOLEAN : Wait(u, b)
      PROVE  pc'[t] = "asleep"
  BY <1>3 DEF WaitUnlock, Wait, Goto, CvTypeOK
<1>4. ASSUME NEW u \in Threads, \/ Lock(u) \/ Relock(u) \/ Unlock(u)
                                \/ NotifyOne(u) \/ NotifyAll(u)
      PROVE  pc'[t] = "asleep"
  BY <1>4 DEF Lock, Relock, Unlock, NotifyOne, NotifyAll, Goto, CvTypeOK
<1>5. ASSUME NEW u \in Threads, FutexWait(u), futex = wait[u].value
      PROVE  pc'[t] = "asleep"
  BY <1>5, StepSleeps DEF CvTypeOK
<1>6. ASSUME NEW u \in Threads,
             \/ Timeout(u) \/ SpuriousWakeup(u) \/ WakeOne(u) \/ WakeAll(u)
             \/ FutexWait(u) /\ futex # wait[u].value
      PROVE  pc'[t] = "asleep"
  <2>1. PICK woken \in SUBSET Threads, loc \in CvLocations :
             Wakes(u, woken, loc) /\ (u \in woken \/ loc \in {"held", "idle"})
    BY <1>6, StepWakes DEF Resume
  <2>. QED
    BY <1>1, <2>1 DEF Wakes
<1>. QED
  BY <1>2, <1>3, <1>4, <1>5, <1>6, CvSteps

(* notify_all has released those that it had to.                           *)
LEMMA CvDue ==
  ASSUME CvTypeOK, MutexIsHeld, DueAreWoken, CvStep, NoAba
  PROVE  DueAreWoken'
<1> SUFFICES ASSUME NEW t \in Threads, t \in due', t \in Blocked'
             PROVE  pc'[t] = "asleep" /\ \E n \in Threads : pc'[n] = "wake_all"
  BY CvType DEF DueAreWoken, At, CvTypeOK
<1>1. t \in Blocked
  BY CvBlocked, CvGhosts
<1>2. CASE \E n \in Threads : NotifyAll(n)
  <2>1. PICK n \in Threads : NotifyAll(n)
    BY <1>2
  <2>2. pc'[n] = "wake_all"
    BY <2>1 DEF NotifyAll, Goto, CvTypeOK
  <2>. QED
    BY <2>1, <2>2, CvBlocked
<1>3. CASE \A n \in Threads : ~NotifyAll(n)
  <2>1. t \in due /\ pc[t] = "asleep"
    BY <1>1, <1>3, CvGhosts DEF DueAreWoken
  <2>2. PICK n \in Threads : pc[n] = "wake_all"
    BY <1>1, <2>1 DEF DueAreWoken, At
  <2>3. pc'[t] = "asleep"
    BY <2>1, AsleepStays
  <2>4. pc'[n] = "wake_all"
    BY <2>2, <2>3, CvWakers, AllWoken
  <2>. QED
    BY <2>3, <2>4
<1>. QED
  BY <1>2, <1>3

(* What notify_one is still to do, it can do.                              *)
LEMMA CvOwed ==
  ASSUME CvTypeOK, MutexIsHeld, OwedIsFound, CvStep, NoAba
  PROVE  OwedIsFound'
<1> SUFFICES ASSUME NEW n \in Threads, pc'[n] = "wake_one", owed'[n] # {}
             PROVE  /\ n \in owners'
                    /\ \A t \in Threads : t \in Blocked' => pc'[t] = "asleep" /\ t \in owed'[n]
  BY DEF OwedIsFound, Blocked
<1>1. CASE NotifyOne(n)
  <2>1. n \in owners /\ owed'[n] = Blocked /\ owners' = owners
    BY <1>1, CvGhosts DEF NotifyOne
  <2>. QED
    BY <1>1, <2>1, CvBlocked DEF Blocked
<1>2. CASE ~NotifyOne(n)
  <2>1. pc[n] = "wake_one" /\ owed'[n] = owed[n]
    BY <1>2, CvWakers, CvGhosts
  <2>2. n \in owners /\ owners = {n}
    BY <2>1 DEF OwedIsFound, MutexIsHeld
  <2>3. owners' = owners
    <3>1. ASSUME NEW t \in Threads,
                 Lock(t) \/ Relock(t) \/ Unlock(t) \/ WaitUnlock(t)
          PROVE  FALSE
      BY <2>1, <2>2, <3>1 DEF Lock, Relock, Unlock, WaitUnlock,
         mutex!Acquire, mutex!Release
    <3>. QED
      BY <3>1, CvSteps DEF Wait, NotifyOne, NotifyAll, FutexWait, Timeout,
         SpuriousWakeup, WakeOne, WakeAll
  <2>4. ASSUME NEW t \in Threads, t \in Blocked'
        PROVE  pc'[t] = "asleep" /\ t \in owed'[n]
    <3>1. \A b \in BOOLEAN : ~Wait(t, b)
      BY <2>1, <2>2 DEF Wait, MutexIsHeld
    <3>2. t \in Blocked
      BY <2>4, <3>1, CvBlocked
    <3>3. pc[t] = "asleep" /\ t \in owed[n]
      BY <2>1, <3>2 DEF OwedIsFound
    <3>4. pc'[t] = "asleep"
      BY <2>4, <3>3, AsleepStays
    <3>. QED
      BY <2>1, <3>3, <3>4
  <2>. QED
    BY <2>2, <2>3, <2>4
<1>. QED
  BY <1>1, <1>2

(* What notify_one has done stays done, as long as the waiter that it has  *)
(* released does not wait again.                                           *)
LEMMA CvReleased ==
  ASSUME CvTypeOK, MutexIsHeld, OwedIsFound, OwedIsReleased, CvStep, NoAba
  PROVE  OwedIsReleased'
<1> SUFFICES ASSUME NEW n \in Threads, pc'[n] # "wake_one", owed'[n] # {}
             PROVE  \E w \in owed'[n] : w \notin Blocked'
  BY DEF OwedIsReleased
<1>1. ~NotifyOne(n)
  BY DEF NotifyOne, Goto, CvTypeOK
<1>2. owed'[n] = owed[n] /\ owed[n] \subseteq Threads
  BY <1>1, CvGhosts DEF CvTypeOK
<1>3. ASSUME NEW w \in owed[n], w \notin Blocked
      PROVE  w \notin Blocked'
  BY <1>2, <1>3, CvBlocked, CvGhosts
<1>4. CASE pc[n] # "wake_one"
  BY <1>2, <1>3, <1>4 DEF OwedIsReleased
<1>5. CASE pc[n] = "wake_one"
  <2>1. WakeOne(n)
    BY <1>5, CvWakers
  <2>2. PICK woken \in FutexWake(At({"asleep"})) : WakeUp(woken, n, Resume(n))
    BY <2>1 DEF WakeOne
  <2>3. /\ woken \in SUBSET Threads
        /\ woken = {} => \A u \in Threads : pc[u] # "asleep"
        /\ \A u \in woken : pc[u] = "asleep"
    BY WokenOne
  <2>4. CASE woken = {}
    <3>1. \A u \in Threads : u \notin Blocked
      BY <1>2, <1>5, <2>3, <2>4 DEF OwedIsFound
    <3>. QED
      BY <1>2, <1>3, <3>1
  <2>5. ASSUME NEW w \in woken PROVE w \in owed[n] /\ w \notin Blocked'
    <3>1. w \in Threads /\ pc[w] = "asleep" /\ w \in Blocked
      BY <2>3 DEF Blocked
    <3>2. w \in owed[n]
      BY <1>2, <1>5, <3>1 DEF OwedIsFound
    <3>3. pc'[w] = "relock"
      BY <2>2, <3>1 DEF WakeUp
    <3>. QED
      BY <3>2, <3>3 DEF Blocked
  <2>. QED
    BY <1>2, <2>4, <2>5
<1>. QED
  BY <1>4, <1>5

(* Every step of the condition variable preserves its invariant.           *)
LEMMA CvStepInv == CvInv /\ CvStep /\ NoAba => CvInv'
  BY CvType, CvMutex, CvDue, CvOwed, CvReleased DEF CvInv

(* A condition variable that nobody uses yet.                              *)
LEMMA CvInitInv == cvInit => CvInv
<1> SUFFICES ASSUME cvInit PROVE CvInv
  OBVIOUS
<1>1. CvTypeOK
  BY DEF cvInit, NoWait, CvTypeOK, CvLocations, Waits
<1>2. MutexIsHeld /\ DueAreWoken /\ OwedIsFound /\ OwedIsReleased
  BY DEF cvInit, MutexIsHeld, DueAreWoken, OwedIsFound, OwedIsReleased
<1>. QED
  BY <1>1, <1>2 DEF CvInv

(* The invariant is at least as strong as what it was made for.            *)
LEMMA CvInvImplies == CvInv => NotificationsRelease
  BY DEF CvInv, DueAreWoken, OwedIsReleased, NotificationsRelease

-----------------------------------------------------------------------------
(* With any client, notify_all releases every thread that was waiting, and *)
(* notify_one with the mutex held one of them, as long as the counter does *)
(* not come round to a value that a waiter on its way to sleep has loaded. *)
THEOREM CondvarReleases ==
  Spec /\ [][NoAba]_vars => []NotificationsRelease
<1>1. Init => CvInv
  BY CvInitInv DEF Init
<1>2. CvInv /\ [Next]_vars /\ [NoAba]_vars => CvInv'
  <2> SUFFICES ASSUME CvInv, [Next]_vars, [NoAba]_vars PROVE CvInv'
    OBVIOUS
  <2>1. CASE UNCHANGED vars
    <3>1. UNCHANGED <<futex, owners, pc, wait, due, owed>>
      BY <2>1 DEF vars, cvVars
    <3>. QED
      BY <3>1 DEF CvInv, CvTypeOK, MutexIsHeld, DueAreWoken, OwedIsFound, OwedIsReleased,
         Blocked, At
  <2>2. CASE Next /\ NoAba
    <3>1. CvStep
      BY <2>2 DEF Next, Progress, Finished, vars, CvStep
    <3>. QED
      BY <2>2, <3>1, CvStepInv
  <2>. QED
    BY <2>1, <2>2
<1>. QED
  BY <1>1, <1>2, CvInvImplies, PTL DEF Spec

-----------------------------------------------------------------------------
(* The calls made, each as a thread and a number: a set that grows by one  *)
(* with every call and has a bound.                                        *)
CallsMade == {c \in Threads \X (1..MaxCalls) : c[2] <= calls[c[1]]}

(* So few calls are made that the counter cannot wrap around.              *)
FewCalls == IsFiniteSet(Threads) /\ Cardinality(Threads) * MaxCalls < Wrap

(* In a client of the condition variable every notification is a call.     *)
CounterIsBounded ==
    /\ calls \in [Threads -> 0..MaxCalls]
    /\ futex <= Cardinality(CallsMade)
    /\ \A t \in Threads : wait[t].value <= futex

(* The calls are counted and bounded, now and after a step.                *)
LEMMA CallsBounded ==
  ASSUME FewCalls
  PROVE  /\ IsFiniteSet(CallsMade)  /\ Cardinality(CallsMade)  \in 0..(Wrap - 1)
         /\ IsFiniteSet(CallsMade') /\ Cardinality(CallsMade') \in 0..(Wrap - 1)
<1>1. IsFiniteSet(1..MaxCalls) /\ Cardinality(1..MaxCalls) = MaxCalls
  BY FS_Interval, ConstantsAssumption
<1>2. /\ IsFiniteSet(Threads \X (1..MaxCalls))
      /\ Cardinality(Threads \X (1..MaxCalls)) = Cardinality(Threads) * MaxCalls
  BY <1>1, FS_Product DEF FewCalls
<1>3. Cardinality(Threads) \in Nat /\ Cardinality(Threads) * MaxCalls \in Nat
  BY FS_CardinalityType, ConstantsAssumption DEF FewCalls
<1>4. ASSUME NEW S \in SUBSET (Threads \X (1..MaxCalls))
      PROVE  IsFiniteSet(S) /\ Cardinality(S) \in 0..(Wrap - 1)
  <2>1. IsFiniteSet(S) /\ Cardinality(S) <= Cardinality(Threads) * MaxCalls
    BY <1>2, FS_Subset
  <2>2. Cardinality(S) \in Nat
    BY <2>1, FS_CardinalityType
  <2>. QED
    BY <1>3, <2>1, <2>2, ConstantsAssumption DEF FewCalls
<1>5. CallsMade \in SUBSET (Threads \X (1..MaxCalls)) /\ CallsMade' \in SUBSET (Threads \X (1..MaxCalls))
  BY DEF CallsMade
<1>. QED
  BY <1>4, <1>5

(* A call adds one to them.                                                *)
LEMMA CallCounted ==
  ASSUME FewCalls, calls \in [Threads -> 0..MaxCalls], NEW t \in Threads,
         calls[t] < MaxCalls, calls' = [calls EXCEPT ![t] = @ + 1]
  PROVE  /\ calls' \in [Threads -> 0..MaxCalls]
         /\ Cardinality(CallsMade') = Cardinality(CallsMade) + 1
<1>1. calls[t] \in 0..MaxCalls /\ calls[t] + 1 \in 1..MaxCalls
  BY ConstantsAssumption
<1>2. calls' \in [Threads -> 0..MaxCalls]
  BY <1>1
<1>3. ASSUME NEW u \in Threads, NEW k \in 1..MaxCalls
      PROVE  k <= calls'[u] <=> k <= calls[u] \/ (u = t /\ k = calls[t] + 1)
  BY <1>1, ConstantsAssumption
<1>4. \A c \in Threads \X (1..MaxCalls) :
         c \in CallsMade' <=> c \in CallsMade \/ c = <<t, calls[t] + 1>>
  BY <1>3 DEF CallsMade
<1>5. CallsMade' = CallsMade \cup {<<t, calls[t] + 1>>} /\ <<t, calls[t] + 1>> \notin CallsMade
  BY <1>1, <1>4 DEF CallsMade
<1>6. IsFiniteSet(CallsMade)
  BY CallsBounded
<1>. QED
  BY <1>2, <1>5, <1>6, FS_AddElement

(* The steps that are not notifications leave the counter alone, and no    *)
(* wait has a value that is ahead of it.                                   *)
LEMMA CounterUnchanged ==
  ASSUME CvTypeOK, MutexIsHeld, \A u \in Threads : wait[u].value <= futex, NEW t \in Threads,
         \/ Lock(t) \/ Unlock(t) \/ InCall(t) \/ SpuriousWakeup(t)
         \/ \E b \in BOOLEAN : Wait(t, b)
  PROVE  /\ futex' = futex
         /\ \A u \in Threads : wait'[u].value <= futex
         /\ \A n \in Threads : ~NotifyOne(n) /\ ~NotifyAll(n)
<1>1. futex' = futex
  BY DEF Lock, Unlock, Wait, InCall, WaitUnlock, Relock, FutexWait,
     Timeout, SpuriousWakeup, WakeOne, WakeAll
<1>2. \A u \in Threads : wait'[u] = wait[u] \/ wait'[u].value = 0 \/ wait'[u].value = futex
  <2>1. NoWait.value = 0
    BY DEF NoWait
  <2>2. CASE \E b \in BOOLEAN : Wait(t, b)
    BY <2>2 DEF Wait, CvTypeOK
  <2>3. ASSUME NEW woken, NEW v, NEW loc, WakeUp(woken, v, loc), NEW u \in Threads
        PROVE  wait'[u] = wait[u] \/ wait'[u].value = 0
    BY <2>1, <2>3 DEF WakeUp
  <2>. QED
    BY <2>2, <2>3 DEF Lock, Unlock, InCall, WaitUnlock, Relock, FutexWait,
       Timeout, SpuriousWakeup, WakeOne, WakeAll
<1>3. ASSUME NEW n \in Threads, pc[n] \in {"idle", "held"}
      PROVE  pc'[n] \notin {"wake_one", "wake_all"}
  <2>1. ASSUME NEW woken, NEW loc, WakeUp(woken, t, loc), loc \in {"relock", "idle", "held"}
        PROVE  pc'[n] \notin {"wake_one", "wake_all"}
    BY <1>3, <2>1 DEF WakeUp
  <2>2. CASE Timeout(t) \/ SpuriousWakeup(t) \/ WakeOne(t) \/ WakeAll(t)
    BY <2>1, <2>2 DEF Timeout, SpuriousWakeup, WakeOne, WakeAll, Resume
  <2>3. CASE FutexWait(t)
    BY <1>3, <2>1, <2>3 DEF FutexWait, Goto, CvTypeOK
  <2>4. CASE \/ Lock(t) \/ Unlock(t) \/ WaitUnlock(t) \/ Relock(t)
             \/ \E b \in BOOLEAN : Wait(t, b)
    BY <1>3, <2>4 DEF Lock, Unlock, WaitUnlock, Relock, Wait, Goto, CvTypeOK
  <2>. QED
    BY <2>2, <2>3, <2>4 DEF InCall
<1>4. ASSUME NEW n \in Threads, NotifyOne(n) \/ NotifyAll(n) PROVE FALSE
  <2>1. pc[n] \in {"idle", "held"} /\ pc'[n] \in {"wake_one", "wake_all"}
    BY <1>4 DEF NotifyOne, NotifyAll, Goto, CvTypeOK
  <2>. QED
    BY <1>3, <2>1
<1>. QED
  BY <1>1, <1>2, <1>4 DEF CvTypeOK

(* A notification that does not wrap around produces a value that nobody   *)
(* has loaded.                                                             *)
LEMMA CounterGrows ==
  ASSUME CvTypeOK, \A u \in Threads : wait[u].value <= futex, NEW t \in Threads,
         NotifyOne(t) \/ NotifyAll(t), futex + 1 < Wrap
  PROVE  futex' = futex + 1 /\ wait' = wait /\ NoAba
<1>1. futex' = futex + 1
  BY ConstantsAssumption DEF NotifyOne, NotifyAll, Increment, CvTypeOK
<1>2. wait' = wait
  BY DEF NotifyOne, NotifyAll
<1>3. \A u \in Threads : wait[u].value \in Nat
  BY DEF CvTypeOK, Waits
<1>. QED
  BY <1>1, <1>2, <1>3 DEF NoAba, CvTypeOK

(* With fewer calls than the counter has values, 2^32, nothing has to be   *)
(* assumed about the counter: every notification releases those that it    *)
(* has to.                                                                 *)
THEOREM CondvarReleasesInFewCalls ==
  ASSUME FewCalls
  PROVE  Spec => []NotificationsRelease
<1> DEFINE Inv == CvInv /\ CounterIsBounded
<1>1. Init => Inv
  <2> SUFFICES ASSUME Init PROVE Inv
    OBVIOUS
  <2>1. CvInv /\ futex = 0 /\ \A t \in Threads : wait[t].value = 0
    BY CvInitInv DEF Init, cvInit, NoWait
  <2>2. calls \in [Threads -> 0..MaxCalls]
    BY ConstantsAssumption DEF Init
  <2>3. Cardinality(CallsMade) \in Nat
    BY CallsBounded
  <2>. QED
    BY <2>1, <2>2, <2>3 DEF CounterIsBounded
<1>2. Inv /\ [Next]_vars => Inv'
  <2> SUFFICES ASSUME Inv, [Next]_vars PROVE Inv'
    OBVIOUS
  <2>0. /\ CvTypeOK /\ MutexIsHeld /\ calls \in [Threads -> 0..MaxCalls]
        /\ \A u \in Threads : wait[u].value <= futex
        /\ futex <= Cardinality(CallsMade) /\ futex \in Nat
        /\ Cardinality(CallsMade) \in Nat /\ Cardinality(CallsMade) < Wrap
    BY CallsBounded, ConstantsAssumption DEF CvInv, CounterIsBounded, CvTypeOK
  <2>1. CASE UNCHANGED vars
    <3>1. UNCHANGED <<futex, owners, pc, wait, due, owed, calls>>
      BY <2>1 DEF vars, cvVars
    <3>. QED
      BY <3>1 DEF CvInv, CvTypeOK, MutexIsHeld, DueAreWoken, OwedIsFound, OwedIsReleased,
         Blocked, At, CounterIsBounded, CallsMade
  <2>2. ASSUME NEW t \in Threads,
               \/ Lock(t) \/ Unlock(t) \/ InCall(t) \/ SpuriousWakeup(t)
               \/ \E b \in BOOLEAN : Wait(t, b),
               calls' = calls \/ Call(t)
        PROVE  Inv'
    <3>1. /\ futex' = futex /\ \A u \in Threads : wait'[u].value <= futex'
          /\ \A n \in Threads : ~NotifyOne(n) /\ ~NotifyAll(n)
      BY <2>0, <2>2, CounterUnchanged
    <3>2. CvStep /\ NoAba
      BY <2>2, <3>1 DEF CvStep, NoAba
    <3>3. CvInv'
      BY <3>2, CvStepInv
    <3>4. calls' \in [Threads -> 0..MaxCalls] /\ futex' <= Cardinality(CallsMade')
      <4>1. CASE calls' = calls
        BY <2>0, <3>1, <4>1 DEF CallsMade
      <4>2. CASE Call(t)
        <5>1. /\ calls' \in [Threads -> 0..MaxCalls]
              /\ Cardinality(CallsMade') = Cardinality(CallsMade) + 1
          BY <2>0, <4>2, CallCounted DEF Call
        <5>. QED
          BY <2>0, <3>1, <5>1
      <4>. QED
        BY <2>2, <4>1, <4>2
    <3>. QED
      BY <3>1, <3>3, <3>4 DEF CounterIsBounded
  <2>3. ASSUME NEW t \in Threads, Call(t), NotifyOne(t) \/ NotifyAll(t)
        PROVE  Inv'
    <3>1. /\ calls' \in [Threads -> 0..MaxCalls]
          /\ Cardinality(CallsMade') = Cardinality(CallsMade) + 1
      BY <2>0, <2>3, CallCounted DEF Call
    <3>2. Cardinality(CallsMade') < Wrap
      BY CallsBounded, ConstantsAssumption
    <3>3. futex' = futex + 1 /\ wait' = wait /\ NoAba
      BY <2>0, <2>3, <3>1, <3>2, CounterGrows, ConstantsAssumption
    <3>4. CvInv'
      BY <2>3, <3>3, CvStepInv DEF CvStep
    <3>5. \A u \in Threads : wait'[u].value <= futex'
      BY <2>0, <3>3 DEF CvTypeOK, Waits
    <3>. QED
      BY <2>0, <3>1, <3>3, <3>4, <3>5 DEF CounterIsBounded
  <2>4. CASE Finished
    BY <2>1, <2>4 DEF Finished
  <2>. QED
    BY <2>1, <2>2, <2>3, <2>4 DEF Next, Progress
<1>3. Inv => NotificationsRelease
  BY CvInvImplies
<1> HIDE DEF Inv
<1>. QED
  BY <1>1, <1>2, <1>3, PTL DEF Spec

-----------------------------------------------------------------------------
(* The barrier. A generation has as many threads as the barrier was made   *)
(* for, and one if it was made for none.                                   *)
Full == IF num_threads = 0 THEN 1 ELSE num_threads

BarrierTypeOK == /\ count \in Nat /\ generation_id \in Nat
                 /\ local_gen \in [Threads -> Nat]
                 /\ inside \subseteq Threads /\ IsFiniteSet(inside)
                 /\ calls \in [Threads -> 0..MaxCalls]

(* Nobody is ahead of the generation under way; a thread is inside exactly *)
(* while it is not idle, and notifies only with the mutex held.            *)
InsideIsBusy ==
    \A t \in Threads : /\ local_gen[t] <= generation_id
                       /\ t \in inside <=> pc[t] # "idle"
                       /\ pc[t] # "wake_one"
                       /\ pc[t] = "wake_all" => t \in owners

(* The thread that made the generation full owns the mutex, so that nobody *)
(* arrives before it has begun the next one.                               *)
FullIsHeld ==
    /\ count <= Full
    /\ count = Full => \E t \in inside : /\ owners = {t} /\ pc[t] = "held"
                                         /\ local_gen[t] = generation_id

(* The inductive invariant of the barrier.                                 *)
BarrierInv == /\ CvTypeOK /\ MutexIsHeld
              /\ BarrierTypeOK /\ InsideIsBusy /\ CountMatchesArrived /\ FullIsHeld

(* A thread that is still to sleep although its generation is complete     *)
(* sleeps already, and is about to be woken.                               *)
CompletedAreWoken ==
    \A t \in inside \cap Blocked : local_gen[t] # generation_id =>
        pc[t] = "asleep" /\ At({"wake_all"}) # {}

(* A generation ends only when it is full.                                 *)
GenerationIsFull ==
    generation_id' # generation_id =>
        generation_id' = generation_id + 1 /\ Cardinality(Arrived) = Full

(* The barrier notifies once per generation, which takes at least one call. *)
CounterIsGeneration ==
    /\ futex = generation_id
    /\ \A t \in Threads : wait[t].value <= futex
    /\ generation_id + (IF count = 0 THEN 0 ELSE 1) <= Cardinality(CallsMade)

-----------------------------------------------------------------------------
(* The steps of the barrier.                                               *)
BarrierStep(t) == \/ Arrive(t) \/ CompleteGeneration(t) \/ WaitWhile(t) \/ Return(t)
                  \/ InCondvar(t) \/ Spurious(t)

LEMMA BarrierSteps == [BarrierNext]_allVars => (\E t \in Threads : BarrierStep(t)) \/ UNCHANGED allVars
  BY DEF BarrierNext, BarrierProgress, BarrierFinished, BarrierStep

(* Every one of them is a step of the condition variable.                  *)
LEMMA BarrierIsClient ==
  ASSUME NEW t \in Threads, BarrierStep(t)
  PROVE  CvStep
  BY DEF BarrierStep, Arrive, CompleteGeneration, WaitWhile, Return, InCondvar, Spurious, CvStep

(* A step inside the condition variable moves only threads that are inside *)
(* the barrier, and takes the mutex only from a waiter.                    *)
LEMMA InsideCondvar ==
  ASSUME CvTypeOK, MutexIsHeld, InsideIsBusy, NEW t \in Threads,
         InCall(t) \/ SpuriousWakeup(t)
  PROVE  /\ \A u \in Threads : /\ pc'[u] = "idle" <=> pc[u] = "idle"
                               /\ pc'[u] # "wake_one"
                               /\ pc'[u] = "wake_all" => pc[u] = "wake_all"
                               /\ pc[u] = "held" => pc'[u] = "held"
         /\ \/ owners' = owners
            \/ owners = {} /\ owners' = {t}
            \/ owners = {t} /\ pc[t] = "loaded" /\ owners' = {}
<1> DEFINE Goal == /\ \A u \in Threads : /\ pc'[u] = "idle" <=> pc[u] = "idle"
                                         /\ pc'[u] # "wake_one"
                                         /\ pc'[u] = "wake_all" => pc[u] = "wake_all"
                                         /\ pc[u] = "held" => pc'[u] = "held"
                   /\ \/ owners' = owners
                      \/ owners = {} /\ owners' = {t}
                      \/ owners = {t} /\ pc[t] = "loaded" /\ owners' = {}
<1> SUFFICES Goal
  OBVIOUS
<1>0. \A u \in Threads : pc[u] # "wake_one" /\ (pc[u] = "wake_all" => u \in owners)
  BY DEF InsideIsBusy
<1>1. CASE WaitUnlock(t)
  BY <1>0, <1>1 DEF WaitUnlock, Goto, mutex!Release, CvTypeOK
<1>2. CASE Relock(t)
  BY <1>0, <1>2 DEF Relock, Goto, mutex!Acquire, CvTypeOK
<1>3. CASE FutexWait(t) /\ futex = wait[t].value
  BY <1>0, <1>3, StepSleeps DEF CvTypeOK
<1>4. CASE \/ Timeout(t) \/ SpuriousWakeup(t) \/ WakeOne(t) \/ WakeAll(t)
           \/ FutexWait(t) /\ futex # wait[t].value
  <2>1. PICK woken \in SUBSET Threads, loc \in CvLocations :
               /\ Wakes(t, woken, loc)
               /\ \A u \in woken : pc[u] \in {"asleep", "unlocked"}
               /\ t \in woken \/ (loc = "held" /\ pc[t] = "wake_all")
    BY <1>0, <1>4, StepWakes DEF Resume
  <2>2. owners' = owners
    BY <1>4, StepWakes
  <2>. QED
    BY <1>0, <2>1, <2>2 DEF Wakes
<1>. QED
  BY <1>1, <1>2, <1>3, <1>4 DEF InCall

(* The barrier's own variables have their types.                           *)
LEMMA BarrierType ==
  ASSUME BarrierTypeOK, NEW t \in Threads, BarrierStep(t)
  PROVE  BarrierTypeOK'
<1>1. CASE Arrive(t)
  <2>1. IsFiniteSet(inside \cup {t})
    BY FS_AddElement DEF BarrierTypeOK
  <2>2. calls' \in [Threads -> 0..MaxCalls]
    BY <1>1, ConstantsAssumption DEF Arrive, BarrierTypeOK
  <2>. QED
    BY <1>1, <2>1, <2>2 DEF Arrive, BarrierTypeOK
<1>2. CASE Return(t)
  <2>1. IsFiniteSet(inside \ {t})
    BY FS_RemoveElement DEF BarrierTypeOK
  <2>. QED
    BY <1>2, <2>1 DEF Return, BarrierTypeOK
<1>3. CASE CompleteGeneration(t)
  BY <1>3 DEF CompleteGeneration, BarrierTypeOK
<1>4. CASE WaitWhile(t) \/ InCondvar(t) \/ Spurious(t)
  BY <1>4 DEF WaitWhile, InCondvar, Spurious, barrierVars, BarrierTypeOK
<1>. QED
  BY <1>1, <1>2, <1>3, <1>4 DEF BarrierStep

(* A thread is inside while it is busy.                                    *)
LEMMA BarrierBusy ==
  ASSUME CvTypeOK, MutexIsHeld, BarrierTypeOK, InsideIsBusy, NEW t \in Threads, BarrierStep(t)
  PROVE  InsideIsBusy'
<1> USE DEF InsideIsBusy
<1>1. CASE Arrive(t)
  <2>1. /\ pc' = [pc EXCEPT ![t] = "held"] /\ owners = {}
        /\ inside' = inside \cup {t} /\ local_gen' = [local_gen EXCEPT ![t] = generation_id]
        /\ generation_id' = generation_id
    BY <1>1 DEF Arrive, Lock, Goto, mutex!Acquire
  <2>. QED
    BY <2>1 DEF CvTypeOK, BarrierTypeOK
<1>2. CASE Return(t)
  <2>1. /\ pc[t] = "held" /\ pc' = [pc EXCEPT ![t] = "idle"] /\ owners = {t}
        /\ inside' = inside \ {t} /\ local_gen' = [local_gen EXCEPT ![t] = 0]
        /\ generation_id' = generation_id
    BY <1>2 DEF Return, Unlock, Goto, mutex!Release
  <2>. QED
    BY <2>1 DEF CvTypeOK, BarrierTypeOK
<1>3. CASE CompleteGeneration(t)
  <2>1. /\ pc[t] = "held" /\ pc' = [pc EXCEPT ![t] = "wake_all"] /\ owners' = owners
        /\ UNCHANGED <<inside, local_gen>> /\ generation_id' = generation_id + 1
    BY <1>3 DEF CompleteGeneration, NotifyAll, Goto
  <2>2. t \in owners
    BY <2>1 DEF MutexIsHeld
  <2>. QED
    BY <2>1, <2>2 DEF CvTypeOK, BarrierTypeOK
<1>4. CASE WaitWhile(t)
  <2>1. /\ pc[t] = "held" /\ pc' = [pc EXCEPT ![t] = "loaded"] /\ owners' = owners
        /\ UNCHANGED <<inside, local_gen, generation_id>>
    BY <1>4 DEF WaitWhile, Wait, Goto, barrierVars
  <2>. QED
    BY <2>1 DEF CvTypeOK
<1>5. CASE InCondvar(t) \/ Spurious(t)
  <2>1. UNCHANGED <<inside, local_gen, generation_id>>
    BY <1>5 DEF InCondvar, Spurious, barrierVars
  <2>2. InCall(t) \/ SpuriousWakeup(t)
    BY <1>5 DEF InCondvar, Spurious
  <2>. QED
    BY <2>1, <2>2, InsideCondvar
<1>. QED
  BY <1>1, <1>2, <1>3, <1>4, <1>5 DEF BarrierStep

(* The count stays the number of threads of the generation.                *)
LEMMA BarrierCounts ==
  ASSUME CvTypeOK, BarrierTypeOK, InsideIsBusy, CountMatchesArrived, NEW t \in Threads, BarrierStep(t)
  PROVE  CountMatchesArrived'
<1>0. IsFiniteSet(Arrived) /\ Arrived \subseteq inside
  BY FS_Subset DEF Arrived, BarrierTypeOK
<1>1. CASE Arrive(t)
  <2>1. /\ t \notin inside /\ count' = count + 1 /\ generation_id' = generation_id
        /\ inside' = inside \cup {t} /\ local_gen' = [local_gen EXCEPT ![t] = generation_id]
    BY <1>1 DEF Arrive
  <2>2. Arrived' = Arrived \cup {t} /\ t \notin Arrived
    BY <2>1 DEF Arrived, BarrierTypeOK
  <2>. QED
    BY <1>0, <2>1, <2>2, FS_AddElement DEF CountMatchesArrived
<1>2. CASE Return(t)
  <2>1. /\ local_gen[t] # generation_id /\ count' = count /\ generation_id' = generation_id
        /\ inside' = inside \ {t} /\ local_gen' = [local_gen EXCEPT ![t] = 0]
    BY <1>2 DEF Return
  <2>2. Arrived' = Arrived
    BY <2>1 DEF Arrived, BarrierTypeOK
  <2>. QED
    BY <2>1, <2>2 DEF CountMatchesArrived
<1>3. CASE CompleteGeneration(t)
  <2>1. UNCHANGED <<inside, local_gen>> /\ generation_id' = generation_id + 1 /\ count' = 0
    BY <1>3 DEF CompleteGeneration
  <2>2. Arrived' = {}
    BY <2>1 DEF Arrived, BarrierTypeOK, InsideIsBusy
  <2>. QED
    BY <2>1, <2>2, FS_EmptySet DEF CountMatchesArrived
<1>4. CASE WaitWhile(t) \/ InCondvar(t) \/ Spurious(t)
  BY <1>4 DEF WaitWhile, InCondvar, Spurious, barrierVars, CountMatchesArrived, Arrived
<1>. QED
  BY <1>1, <1>2, <1>3, <1>4 DEF BarrierStep

(* The mutex keeps a full generation from growing.                         *)
LEMMA BarrierFull ==
  ASSUME CvTypeOK, MutexIsHeld, BarrierTypeOK, InsideIsBusy, FullIsHeld, NEW t \in Threads, BarrierStep(t)
  PROVE  FullIsHeld'
<1>0. Full \in Nat \ {0} /\ num_threads <= Full /\ count \in Nat /\ num_threads \in Nat
  BY ConstantsAssumption, NumThreadsAssumption DEF Full, BarrierTypeOK
<1>1. CASE Arrive(t)
  <2>1. /\ owners = {} /\ owners' = {t} /\ pc' = [pc EXCEPT ![t] = "held"] /\ count' = count + 1
        /\ inside' = inside \cup {t} /\ local_gen' = [local_gen EXCEPT ![t] = generation_id]
        /\ generation_id' = generation_id
    BY <1>1 DEF Arrive, Lock, Goto, mutex!Acquire
  <2>2. count < Full
    BY <1>0, <2>1 DEF FullIsHeld
  <2>3. t \in inside' /\ owners' = {t} /\ pc'[t] = "held" /\ local_gen'[t] = generation_id'
    BY <2>1 DEF CvTypeOK, BarrierTypeOK
  <2>. QED
    BY <1>0, <2>1, <2>2, <2>3 DEF FullIsHeld, Full
<1>2. CASE CompleteGeneration(t)
  BY <1>0, <1>2 DEF CompleteGeneration, FullIsHeld, Full
<1>3. CASE Return(t) \/ WaitWhile(t)
  <2>a. ASSUME Return(t)
        PROVE  count' = count /\ pc[t] = "held" /\ (local_gen[t] # generation_id \/ count < num_threads)
    <3>1. count' = count /\ pc[t] = "held" /\ local_gen[t] # generation_id
      BY <2>a DEF Return
    <3>. QED
      BY <3>1
  <2>b. ASSUME WaitWhile(t)
        PROVE  count' = count /\ pc[t] = "held" /\ (local_gen[t] # generation_id \/ count < num_threads)
    <3>1. count' = count /\ pc[t] = "held" /\ local_gen[t] = generation_id /\ ~IsLast(t)
      BY <2>b DEF WaitWhile, barrierVars
    <3>2. count < num_threads
      BY <1>0, <3>1 DEF IsLast
    <3>. QED
      BY <3>1, <3>2
  <2>1. /\ count' = count /\ pc[t] = "held"
        /\ local_gen[t] # generation_id \/ count < num_threads
    BY <1>3, <2>a, <2>b
  <2>2. owners = {t}
    BY <2>1 DEF MutexIsHeld
  <2>3. count # Full
    BY <1>0, <2>1, <2>2 DEF FullIsHeld
  <2>. QED
    BY <2>1, <2>3 DEF FullIsHeld, Full
<1>4. CASE InCondvar(t) \/ Spurious(t)
  <2>1. UNCHANGED <<count, inside, local_gen, generation_id>>
    BY <1>4 DEF InCondvar, Spurious, barrierVars
  <2>2. InCall(t) \/ SpuriousWakeup(t)
    BY <1>4 DEF InCondvar, Spurious
  <2>3. ASSUME NEW u \in inside, owners = {u}, pc[u] = "held"
        PROVE  owners' = {u} /\ pc'[u] = "held"
    BY <2>2, <2>3, InsideCondvar DEF BarrierTypeOK
  <2>. QED
    BY <2>1, <2>3 DEF FullIsHeld, Full
<1>. QED
  BY <1>1, <1>2, <1>3, <1>4 DEF BarrierStep

(* A barrier that nobody has reached yet.                                  *)
LEMMA BarrierStart == BarrierInit => BarrierInv
<1> SUFFICES ASSUME BarrierInit PROVE BarrierInv
  OBVIOUS
<1>1. CvTypeOK /\ MutexIsHeld
  BY CvInitInv DEF BarrierInit, Init, CvInv
<1>2. BarrierTypeOK
  BY FS_EmptySet, ConstantsAssumption, NumThreadsAssumption DEF BarrierInit, Init, BarrierTypeOK
<1>3. InsideIsBusy
  <2>1. /\ inside = {} /\ generation_id = 0
        /\ \A t \in Threads : pc[t] = "idle" /\ local_gen[t] = 0
    BY DEF BarrierInit, Init, cvInit
  <2> SUFFICES ASSUME NEW t \in Threads
               PROVE  /\ local_gen[t] <= generation_id /\ t \notin inside /\ pc[t] = "idle"
                      /\ pc[t] # "wake_one" /\ pc[t] # "wake_all"
    BY DEF InsideIsBusy
  <2>2. pc[t] = "idle" /\ local_gen[t] = 0
    BY <2>1
  <2>. QED
    BY <2>1, <2>2
<1>4. CountMatchesArrived
  <2>1. Arrived = {}
    BY DEF BarrierInit, Arrived
  <2>. QED
    BY <2>1, FS_EmptySet DEF BarrierInit, CountMatchesArrived
<1>5. FullIsHeld
  BY ConstantsAssumption, NumThreadsAssumption DEF BarrierInit, FullIsHeld, Full
<1>. QED
  BY <1>1, <1>2, <1>3, <1>4, <1>5 DEF BarrierInv

(* Every step of the barrier preserves its invariant.                      *)
LEMMA BarrierPreserves == BarrierInv /\ [BarrierNext]_allVars => BarrierInv'
<1> SUFFICES ASSUME BarrierInv, [BarrierNext]_allVars PROVE BarrierInv'
  OBVIOUS
<1>1. CASE UNCHANGED allVars
  BY <1>1 DEF allVars, vars, cvVars, barrierVars, BarrierInv, CvTypeOK, MutexIsHeld, BarrierTypeOK, InsideIsBusy,
     CountMatchesArrived, Arrived, FullIsHeld, Full
<1>2. ASSUME NEW t \in Threads, BarrierStep(t) PROVE BarrierInv'
  <2>1. CvTypeOK' /\ MutexIsHeld'
    BY <1>2, BarrierIsClient, CvType, CvMutex DEF BarrierInv
  <2>. QED
    BY <1>2, <2>1, BarrierType, BarrierBusy, BarrierCounts, BarrierFull DEF BarrierInv
<1>. QED
  BY <1>1, <1>2, BarrierSteps

(* BarrierInv is an invariant of the barrier.                              *)
THEOREM BarrierInvariance == BarrierSpec => []BarrierInv
  BY BarrierStart, BarrierPreserves, PTL DEF BarrierSpec

(* count is exactly the number of threads that have arrived and wait for   *)
(* the generation under way.                                               *)
THEOREM CountIsExact == BarrierSpec => []CountMatchesArrived
<1>1. BarrierInv => CountMatchesArrived
  BY DEF BarrierInv
<1>. QED
  BY <1>1, BarrierInvariance, PTL

(* No thread passes the barrier before as many as it was made for have     *)
(* arrived: a generation ends with exactly that many threads in it.        *)
THEOREM GenerationsAreFull == BarrierSpec => [][GenerationIsFull]_allVars
<1>1. BarrierInv /\ [BarrierNext]_allVars => [GenerationIsFull]_allVars
  <2> SUFFICES ASSUME BarrierInv, NEW t \in Threads, BarrierStep(t), generation_id' # generation_id
               PROVE  generation_id' = generation_id + 1 /\ Cardinality(Arrived) = Full
    BY BarrierSteps DEF GenerationIsFull
  <2>1. CompleteGeneration(t)
    BY DEF BarrierStep, Arrive, WaitWhile, Return, InCondvar, Spurious, barrierVars
  <2>2. /\ generation_id' = generation_id + 1 /\ count >= num_threads
        /\ t \in inside /\ local_gen[t] = generation_id
    BY <2>1 DEF CompleteGeneration, IsLast
  <2>3. count = Cardinality(Arrived) /\ IsFiniteSet(Arrived)
    BY FS_Subset DEF BarrierInv, CountMatchesArrived, Arrived, BarrierTypeOK
  <2>4. t \in Arrived
    BY <2>2 DEF Arrived
  <2>5. count # 0
    BY <2>3, <2>4, FS_EmptySet
  <2>6. count <= Full /\ count \in Nat
    BY DEF BarrierInv, FullIsHeld, BarrierTypeOK
  <2>. QED
    BY <2>2, <2>3, <2>5, <2>6, ConstantsAssumption, NumThreadsAssumption DEF Full
<1>. QED
  BY <1>1, BarrierInvariance, PTL DEF BarrierSpec

-----------------------------------------------------------------------------
(* A notification of the leader reaches everyone that still waits for the  *)
(* generation that it has completed.                                       *)
LEMMA BarrierWoken ==
  ASSUME BarrierInv, CompletedAreWoken, NEW n \in Threads, BarrierStep(n), NoAba
  PROVE  CompletedAreWoken'
<1> SUFFICES ASSUME NEW t \in Threads, t \in inside', t \in Blocked', local_gen'[t] # generation_id'
             PROVE  pc'[t] = "asleep" /\ \E m \in Threads : pc'[m] = "wake_all"
  BY DEF CompletedAreWoken, At, Blocked
<1>0. CvTypeOK /\ MutexIsHeld /\ BarrierTypeOK /\ InsideIsBusy /\ CvStep
  BY BarrierIsClient DEF BarrierInv
<1>1. CASE CompleteGeneration(n)
  <2>1. NotifyAll(n)
    BY <1>1 DEF CompleteGeneration
  <2>2. pc'[n] = "wake_all"
    BY <1>0, <2>1 DEF NotifyAll, Goto, CvTypeOK
  <2>. QED
    BY <1>0, <2>1, <2>2, CvBlocked
<1>2. CASE ~CompleteGeneration(n)
  <2>1. t \in inside /\ local_gen[t] # generation_id
    <3>1. CASE Arrive(n)
      BY <1>0, <3>1 DEF Arrive, BarrierTypeOK
    <3>2. CASE Return(n)
      BY <1>0, <3>2 DEF Return, BarrierTypeOK
    <3>3. CASE WaitWhile(n) \/ InCondvar(n) \/ Spurious(n)
      BY <3>3 DEF WaitWhile, InCondvar, Spurious, barrierVars
    <3>. QED
      BY <1>2, <3>1, <3>2, <3>3 DEF BarrierStep
  <2>2. ASSUME NEW b \in BOOLEAN, Wait(t, b) PROVE FALSE
    <3>1. pc[t] = "held" /\ pc'[t] = "loaded"
      BY <1>0, <2>2 DEF Wait, Goto, CvTypeOK
    <3>2. CASE Arrive(n) \/ Return(n)
      <4>1. pc' = [pc EXCEPT ![n] = "held"] \/ pc' = [pc EXCEPT ![n] = "idle"]
        BY <3>2 DEF Arrive, Return, Lock, Unlock, Goto
      <4>. QED
        BY <1>0, <3>1, <4>1 DEF CvTypeOK
    <3>3. CASE WaitWhile(n)
      <4>1. pc[n] = "held" /\ local_gen[n] = generation_id
        BY <3>3 DEF WaitWhile
      <4>2. owners = {n} /\ owners = {t}
        BY <1>0, <3>1, <4>1 DEF MutexIsHeld
      <4>. QED
        BY <2>1, <4>1, <4>2
    <3>4. CASE InCondvar(n) \/ Spurious(n)
      <4>1. InCall(n) \/ SpuriousWakeup(n)
        BY <3>4 DEF InCondvar, Spurious
      <4>2. pc'[t] = "held"
        BY <1>0, <3>1, <4>1, InsideCondvar
      <4>. QED
        BY <3>1, <4>2
    <3>. QED
      BY <1>2, <3>2, <3>3, <3>4 DEF BarrierStep
  <2>3. t \in Blocked
    BY <1>0, <2>2, CvBlocked
  <2>4. pc[t] = "asleep" /\ \E m \in Threads : pc[m] = "wake_all"
    BY <2>1, <2>3 DEF CompletedAreWoken, At
  <2>5. pc'[t] = "asleep"
    BY <1>0, <2>4, AsleepStays
  <2>6. PICK m \in Threads : pc[m] = "wake_all"
    BY <2>4
  <2>7. ~WakeAll(m)
    BY <1>0, <2>5, AllWoken
  <2>8. pc'[m] = "wake_all"
    BY <1>0, <2>6, <2>7, CvWakers
  <2>. QED
    BY <2>5, <2>8
<1>. QED
  BY <1>1, <1>2

(* At first nobody waits.                                                  *)
LEMMA BarrierInitWoken == BarrierInit => CompletedAreWoken
  BY DEF BarrierInit, CompletedAreWoken

(* No thread sleeps on in a generation that is complete: whoever is still  *)
(* to sleep in it sleeps already and is about to be woken by the leader.   *)
(* The counter of the condition variable is assumed not to come round to a *)
(* value that a waiter on its way to sleep has loaded.                     *)
THEOREM GenerationsAreReleased == BarrierSpec /\ [][NoAba]_allVars => []CompletedAreWoken
<1>1. BarrierInv /\ CompletedAreWoken /\ [BarrierNext]_allVars /\ [NoAba]_allVars => CompletedAreWoken'
  <2> SUFFICES ASSUME BarrierInv, CompletedAreWoken, [BarrierNext]_allVars, [NoAba]_allVars PROVE CompletedAreWoken'
    OBVIOUS
  <2>1. CASE UNCHANGED allVars
    BY <2>1 DEF allVars, vars, cvVars, barrierVars, CompletedAreWoken, Blocked, At
  <2>2. ASSUME NEW n \in Threads, BarrierStep(n), NoAba PROVE CompletedAreWoken'
    BY <2>2, BarrierWoken
  <2>. QED
    BY <2>1, <2>2, BarrierSteps
<1>. QED
  BY <1>1, BarrierInitWoken, BarrierInvariance, PTL DEF BarrierSpec

-----------------------------------------------------------------------------
(* The counter of the condition variable is the generation number as long  *)
(* as it does not wrap around, and so it does not come round.              *)
LEMMA BarrierCounter ==
  ASSUME FewCalls, BarrierInv, CounterIsGeneration, NEW n \in Threads, BarrierStep(n)
  PROVE  CounterIsGeneration' /\ NoAba
<1> DEFINE Goal == CounterIsGeneration' /\ NoAba
<1> SUFFICES Goal
  OBVIOUS
<1>0. /\ CvTypeOK /\ MutexIsHeld /\ calls \in [Threads -> 0..MaxCalls]
      /\ futex = generation_id /\ futex \in Nat /\ count \in Nat
      /\ \A u \in Threads : wait[u].value <= futex
      /\ Cardinality(CallsMade) \in Nat /\ Cardinality(CallsMade) < Wrap
      /\ generation_id <= Cardinality(CallsMade)
      /\ count # 0 => generation_id + 1 <= Cardinality(CallsMade)
  BY CallsBounded, ConstantsAssumption DEF BarrierInv, BarrierTypeOK, CvTypeOK, CounterIsGeneration
<1>1. ASSUME \/ Lock(n) \/ Unlock(n) \/ InCall(n) \/ SpuriousWakeup(n)
             \/ \E b \in BOOLEAN : Wait(n, b)
      PROVE  futex' = futex /\ (\A u \in Threads : wait'[u].value <= futex') /\ NoAba
  <2>1. /\ futex' = futex /\ \A u \in Threads : wait'[u].value <= futex
        /\ \A m \in Threads : ~NotifyOne(m) /\ ~NotifyAll(m)
    BY <1>0, <1>1, CounterUnchanged
  <2>. QED
    BY <2>1 DEF NoAba
<1>2. CASE Arrive(n)
  <2>1. /\ Lock(n) /\ count' = count + 1 /\ generation_id' = generation_id
        /\ calls[n] < MaxCalls /\ calls' = [calls EXCEPT ![n] = @ + 1]
    BY <1>2 DEF Arrive
  <2>2. Cardinality(CallsMade') = Cardinality(CallsMade) + 1
    BY <1>0, <2>1, CallCounted
  <2>3. futex' = futex /\ (\A u \in Threads : wait'[u].value <= futex') /\ NoAba
    BY <1>1, <2>1
  <2>. QED
    BY <1>0, <2>1, <2>2, <2>3 DEF CounterIsGeneration
<1>3. CASE CompleteGeneration(n)
  <2>1. /\ NotifyAll(n) /\ count' = 0 /\ generation_id' = generation_id + 1 /\ calls' = calls
        /\ n \in Arrived
    BY <1>3 DEF CompleteGeneration, IsLast, Arrived
  <2>2. count # 0
    <3>1. count = Cardinality(Arrived) /\ IsFiniteSet(Arrived)
      BY FS_Subset DEF BarrierInv, CountMatchesArrived, Arrived, BarrierTypeOK
    <3>. QED
      BY <2>1, <3>1, FS_EmptySet
  <2>3. futex + 1 < Wrap
    BY <1>0, <2>2, ConstantsAssumption
  <2>4. futex' = futex + 1 /\ wait' = wait /\ NoAba
    BY <1>0, <2>1, <2>3, CounterGrows
  <2>5. \A u \in Threads : wait'[u].value <= futex'
    BY <1>0, <2>4 DEF CvTypeOK, Waits
  <2>6. CallsMade' = CallsMade
    BY <2>1 DEF CallsMade
  <2>. QED
    BY <1>0, <2>1, <2>2, <2>4, <2>5, <2>6 DEF CounterIsGeneration
<1>4. CASE WaitWhile(n) \/ Return(n) \/ InCondvar(n) \/ Spurious(n)
  <2>1. UNCHANGED <<count, generation_id, calls>>
    BY <1>4 DEF WaitWhile, Return, InCondvar, Spurious, barrierVars
  <2>2. \/ Unlock(n) \/ InCall(n) \/ SpuriousWakeup(n)
        \/ \E b \in BOOLEAN : Wait(n, b)
    BY <1>4 DEF WaitWhile, Return, InCondvar, Spurious
  <2>3. futex' = futex /\ (\A u \in Threads : wait'[u].value <= futex') /\ NoAba
    BY <1>1, <2>2
  <2>4. CallsMade' = CallsMade
    BY <2>1 DEF CallsMade
  <2>. QED
    BY <2>1, <2>3, <2>4 DEF CounterIsGeneration
<1>. QED
  BY <1>2, <1>3, <1>4 DEF BarrierStep

(* The counter starts with the generations.                                *)
LEMMA BarrierInitCounter ==
  ASSUME FewCalls
  PROVE  BarrierInit => CounterIsGeneration
<1> SUFFICES ASSUME BarrierInit PROVE CounterIsGeneration
  OBVIOUS
<1>1. futex = 0 /\ generation_id = 0 /\ count = 0 /\ \A t \in Threads : wait[t].value = 0
  BY DEF BarrierInit, Init, cvInit, NoWait
<1>2. Cardinality(CallsMade) \in Nat
  BY CallsBounded
<1>. QED
  BY <1>1, <1>2 DEF CounterIsGeneration

(* With fewer calls than the counter of the condition variable has values  *)
(* nothing has to be assumed about it: every complete generation releases  *)
(* all of its threads.                                                     *)
THEOREM GenerationsAreReleasedInFewCalls ==
  ASSUME FewCalls
  PROVE  BarrierSpec => []CompletedAreWoken
<1> DEFINE Inv == BarrierInv /\ CompletedAreWoken /\ CounterIsGeneration
<1>1. BarrierInit => Inv
  BY BarrierStart, BarrierInitWoken, BarrierInitCounter
<1>2. Inv /\ [BarrierNext]_allVars => Inv'
  <2> SUFFICES ASSUME Inv, [BarrierNext]_allVars PROVE Inv'
    OBVIOUS
  <2>0. BarrierInv'
    BY BarrierPreserves
  <2>1. CASE UNCHANGED allVars
    <3>1. CompletedAreWoken'
      BY <2>1 DEF allVars, vars, cvVars, barrierVars, CompletedAreWoken, Blocked, At
    <3>2. CounterIsGeneration'
      BY <2>1 DEF allVars, vars, cvVars, barrierVars, CounterIsGeneration, CallsMade
    <3>. QED
      BY <2>0, <3>1, <3>2
  <2>2. ASSUME NEW n \in Threads, BarrierStep(n) PROVE Inv'
    <3>1. CounterIsGeneration' /\ NoAba
      BY <2>2, BarrierCounter
    <3>2. CompletedAreWoken'
      BY <2>2, <3>1, BarrierWoken
    <3>. QED
      BY <2>0, <3>1, <3>2
  <2>. QED
    BY <2>1, <2>2, BarrierSteps
<1>3. Inv => CompletedAreWoken
  OBVIOUS
<1> HIDE DEF Inv
<1>. QED
  BY <1>1, <1>2, <1>3, PTL DEF BarrierSpec
=============================================================================
