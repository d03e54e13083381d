--------------------------- MODULE OnceCellsProofs ---------------------------
(***************************************************************************)
(* Proofs about the futex Once, for any set of threads and any number of   *)
(* calls. A thread acts on `seen`, which may be out of date, and the weak  *)
(* point of the algorithm is the QUEUED bit that wait sets on an Once that *)
(* nobody is running. Two facts join the invariants that the runs check:   *)
(* SeenIsPast, which says how stale `seen` can be, and QueuedHasWaiter,    *)
(* which says who is still there when the bit is set.                      *)
(*                                                                         *)
(* Proofs about LazyLock and OnceLock, for any set of threads and any      *)
(* number of calls. They use the Once as it must be used (UsesOnce), so    *)
(* that its invariant holds in them. What is added is what the cell holds  *)
(* while an initializer runs, when the word says only RUNNING: that        *)
(* depends on how far the closure is, and for LazyLock on whether the      *)
(* thread found the Once poisoned (RunningCell).                           *)
(***************************************************************************)
EXTENDS OnceCells, TLAPS

(* The state never comes back to INCOMPLETE and never leaves COMPLETE, so  *)
(* what a thread saw is no further than the word.                          *)
SeenIsPast == \A t \in Threads :
                 /\ seen[t].state = COMPLETE => word.state = COMPLETE
                 /\ word.state = INCOMPLETE => seen[t].state = INCOMPLETE

(* A thread that will not leave before the bit is taken off.               *)
Waits(t) == /\ pc[t] \in {"loop", "asleep", "reload"} /\ op[t].fn = "wait"
            /\ word.state = POISONED => op[t].ignore

(* While nobody runs, QUEUED means that such a thread is there.            *)
QueuedHasWaiter ==
    word.queued /\ word.state # RUNNING => \E t \in Threads : Waits(t)

(* The inductive invariant.                                                *)
IInv == /\ TypeOK /\ RunningMatchesWord /\ SeenIsPast /\ ReturnsInitialized
        /\ SleepersAreCovered /\ QueuedHasWaiter

(* The steps of one thread.                                                *)
Step(t) == (\E o \in Ops : Enter(t, o)) \/ Progress(t) \/ SpuriousWakeup(t)

(* The parts of a word.                                                    *)
LEMMA WordParts == \A s, q : Word(s, q).state = s /\ Word(s, q).queued = q
  BY DEF Word

(* The words that the model builds are words.                              *)
LEMMA WordType ==
  /\ \A s \in {COMPLETE, RUNNING, POISONED, INCOMPLETE} : Word(s, FALSE) \in Words
  /\ \A s \in {RUNNING, POISONED, INCOMPLETE} : \A q \in BOOLEAN : Word(s, q) \in Words
  BY DEF Word, Words

(* The four states are different.                                          *)
LEMMA StatesDiffer ==
  /\ COMPLETE # RUNNING /\ COMPLETE # POISONED /\ COMPLETE # INCOMPLETE
  /\ RUNNING # POISONED /\ RUNNING # INCOMPLETE /\ POISONED # INCOMPLETE
  BY DEF COMPLETE, RUNNING, POISONED, INCOMPLETE

(* What is known of a word.                                                *)
LEMMA WordFacts ==
  ASSUME NEW w \in Words
  PROVE  /\ w.state \in {COMPLETE, RUNNING, POISONED, INCOMPLETE}
         /\ w.queued \in BOOLEAN
         /\ w.state = COMPLETE => w.queued = FALSE
<1>1. CASE w \in [state : {RUNNING, POISONED, INCOMPLETE}, queued : BOOLEAN]
  BY <1>1, StatesDiffer
<1>2. CASE w \in [state : {COMPLETE}, queued : {FALSE}]
  BY <1>2
<1>. QED
  BY <1>1, <1>2 DEF Words

(* The value of op outside a call.                                         *)
LEMMA NoOpType == NoOp \in Ops
  BY DEF NoOp, Ops

(* The initial word is INCOMPLETE and no thread is in a call.              *)
LEMMA InitIInv == Init => IInv
<1> SUFFICES ASSUME Init PROVE IInv
  OBVIOUS
<1> USE WordParts, WordType, StatesDiffer DEF Init
<1>1. TypeOK
  <2>1. calls \in [Threads -> 0..MaxCalls] BY MaxCallsAssumption
  <2>2. word \in Words /\ seen \in [Threads -> Words] OBVIOUS
  <2>3. op \in [Threads -> Ops] BY NoOpType
  <2>. QED
    BY <2>1, <2>2, <2>3 DEF TypeOK, Locations, Results
<1>2. RunningMatchesWord BY DEF RunningMatchesWord, At
<1>3. SeenIsPast /\ QueuedHasWaiter BY DEF SeenIsPast, QueuedHasWaiter
<1>4. ReturnsInitialized BY DEF ReturnsInitialized
<1>5. SleepersAreCovered BY DEF SleepersAreCovered, At
<1>. QED
  BY <1>1, <1>2, <1>3, <1>4, <1>5 DEF IInv

(* A step of Next is a step of one thread, SetStateMut, or no step.        *)
LEMMA NextIsStep ==
  [Next]_vars => (\E t \in Threads : Step(t)) \/ SetStateMut \/ UNCHANGED vars
  BY DEF Next, Step, Finished

(* Every step assigns values of the right type.                            *)
LEMMA StepType == ASSUME TypeOK, NEW t \in Threads, Step(t) PROVE TypeOK'
<1> USE WordType, WordFacts, NoOpType, MaxCallsAssumption DEF TypeOK, Goto, See, Locations, Results
<1>1. ASSUME NEW o \in Ops, Enter(t, o) PROVE TypeOK'
  BY <1>1 DEF Enter
<1>2. CASE ReturnComplete(t) \/ PanicPoisoned(t)
  <2>1. PICK r \in Results : Return(t, r)
    BY <1>2 DEF ReturnComplete, PanicPoisoned
  <2>2. Word(INCOMPLETE, FALSE) \in Words OBVIOUS
  <2>. QED
    BY <2>1, <2>2 DEF Return, Forget
<1>3. CASE StartRunning(t)
  <2>1. Word(RUNNING, seen[t].queued) \in Words
    <3>1. seen[t] \in Words OBVIOUS
    <3>. QED
      BY <3>1
  <2>. QED
    BY <1>3, <2>1 DEF StartRunning, CompareExchange
<1>4. CASE MarkQueued(t)
  <2>1. Word(seen[t].state, TRUE) \in Words
    <3>1. seen[t] \in Words /\ seen[t].state # COMPLETE
      BY <1>4 DEF MarkQueued, MustQueue
    <3>. QED
      BY <3>1
  <2>. QED
    BY <1>4, <2>1 DEF MarkQueued, CompareExchange
<1>5. CASE FutexWait(t) BY <1>5 DEF FutexWait
<1>6. CASE SpuriousWakeup(t) \/ Reload(t) BY <1>6 DEF SpuriousWakeup, Reload
<1>7. CASE Finish(t) BY <1>7 DEF Finish, Forget, set_state_on_drop_to
<1>8. CASE WakeAll(t) BY <1>8 DEF WakeAll
<1>. QED
  BY <1>1, <1>2, <1>3, <1>4, <1>5, <1>6, <1>7, <1>8 DEF Step, Progress

(* MarkQueued only sets the bit.                                           *)
LEMMA MarkQueuedEffect ==
  ASSUME TypeOK, NEW t \in Threads, MarkQueued(t)
  PROVE  /\ word'.state = word.state /\ pc' = pc /\ UNCHANGED <<op, result>>
         /\ word.queued => word'.queued
         /\ word'.queued => word.queued \/ (MustQueue(t) /\ word = seen[t])
         /\ seen' = [seen EXCEPT ![t] = word']
<1> USE WordParts DEF TypeOK, See, Goto, CompareExchange
<1>1. CASE word = seen[t]
  <2>1. /\ word' = Word(seen[t].state, TRUE) /\ seen' = [seen EXCEPT ![t] = word']
        /\ pc' = [pc EXCEPT ![t] = "loop"] /\ pc[t] = "loop"
        /\ MustQueue(t) /\ UNCHANGED <<op, result>>
    BY <1>1 DEF MarkQueued, MustQueue
  <2>. QED
    BY <1>1, <2>1
<1>2. CASE word # seen[t]
  BY <1>2 DEF MarkQueued
<1>. QED
  BY <1>1, <1>2

(* Finish is a step of the running thread, and leaves a word that no one   *)
(* has queued on.                                                          *)
LEMMA FinishEffect ==
  ASSUME TypeOK, RunningMatchesWord, NEW t \in Threads, Finish(t)
  PROVE  /\ word.state = RUNNING /\ word'.state \in {COMPLETE, POISONED}
         /\ ~word'.queued
         /\ result'[t] = "done" => word'.state = COMPLETE
<1>1. PICK r \in Results : /\ word' = Word(set_state_on_drop_to(r), FALSE)
                           /\ result' = [result EXCEPT ![t] = r]
  BY DEF Finish
<1>2. word.state = RUNNING
  BY DEF Finish, RunningMatchesWord, At
<1>. QED
  BY <1>1, <1>2, WordParts DEF TypeOK, set_state_on_drop_to

(* One thread runs, exactly while the word says so: StartRunning finds the *)
(* word not RUNNING, hence nobody running, and Finish is the runner's own. *)
LEMMA StepRunning ==
  ASSUME IInv, TypeOK', NEW t \in Threads, Step(t) PROVE RunningMatchesWord'
<1> USE WordParts, StatesDiffer DEF IInv, TypeOK, RunningMatchesWord, At, Goto
<1>1. CASE (\E o \in Ops : Enter(t, o)) \/ ReturnComplete(t) \/ PanicPoisoned(t)
  BY <1>1 DEF Enter, ReturnComplete, PanicPoisoned, Return
<1>2. CASE StartRunning(t) BY <1>2 DEF StartRunning, CompareExchange
<1>3. CASE MarkQueued(t) BY <1>3, MarkQueuedEffect
<1>4. CASE FutexWait(t) BY <1>4 DEF FutexWait, MustQueue
<1>5. CASE SpuriousWakeup(t) \/ Reload(t) BY <1>5 DEF SpuriousWakeup, Reload
<1>6. CASE Finish(t)
  <2>1. \A u \in Threads : pc'[u] = "running" => u # t /\ pc[u] = "running"
    BY <1>6 DEF Finish
  <2>2. pc[t] = "running" /\ word'.state # RUNNING
    BY <1>6, FinishEffect DEF Finish
  <2>. QED
    BY <2>1, <2>2
<1>7. CASE WakeAll(t) BY <1>7 DEF WakeAll
<1>. QED
  BY <1>1, <1>2, <1>3, <1>4, <1>5, <1>6, <1>7 DEF Step, Progress

(* COMPLETE stays and INCOMPLETE does not return, so `seen` stays behind   *)
(* the word, and a call that returned "done" stays right.                  *)
LEMMA StepSeen ==
  ASSUME IInv, TypeOK', NEW t \in Threads, Step(t)
  PROVE  SeenIsPast' /\ ReturnsInitialized'
<1> USE WordParts, StatesDiffer
    DEF IInv, TypeOK, SeenIsPast, ReturnsInitialized, See
<1>1. CASE \E o \in Ops : Enter(t, o) BY <1>1 DEF Enter
<1>2. CASE ReturnComplete(t) BY <1>2 DEF ReturnComplete, Return, Forget
<1>3. CASE PanicPoisoned(t) BY <1>3 DEF PanicPoisoned, MustPanic, Return, Forget
<1>4. CASE StartRunning(t) BY <1>4 DEF StartRunning, CompareExchange
<1>5. CASE MarkQueued(t) BY <1>5, MarkQueuedEffect
<1>6. CASE FutexWait(t) \/ SpuriousWakeup(t) BY <1>6 DEF FutexWait, SpuriousWakeup
<1>7. CASE Reload(t) BY <1>7 DEF Reload
<1>8. CASE Finish(t)
  <2>1. \A u \in Threads : u # t => result'[u] = result[u] /\ seen'[u] = seen[u]
    BY <1>8 DEF Finish, Forget
  <2>2. seen'[t].state = INCOMPLETE
    BY <1>8 DEF Finish, Forget
  <2>. QED
    BY <1>8, <2>1, <2>2, FinishEffect
<1>9. CASE WakeAll(t) BY <1>9 DEF WakeAll
<1>. QED
  BY <1>1, <1>2, <1>3, <1>4, <1>5, <1>6, <1>7, <1>8, <1>9 DEF Step, Progress

(* A sleeping thread stays covered: FutexWait sleeps on a QUEUED word,     *)
(* StartRunning keeps the bit, Finish takes it and goes on to wake all.    *)
LEMMA StepCovered ==
  ASSUME IInv, TypeOK', NEW t \in Threads, Step(t) PROVE SleepersAreCovered'
<1> USE WordParts, StatesDiffer DEF IInv, TypeOK, SleepersAreCovered, At, Goto
<1>1. CASE (\E o \in Ops : Enter(t, o)) \/ ReturnComplete(t) \/ PanicPoisoned(t)
  BY <1>1 DEF Enter, ReturnComplete, PanicPoisoned, Return
<1>2. CASE StartRunning(t) BY <1>2 DEF StartRunning, CompareExchange
<1>3. CASE MarkQueued(t) BY <1>3, MarkQueuedEffect
<1>4. CASE FutexWait(t) BY <1>4 DEF FutexWait, MustQueue
<1>5. CASE SpuriousWakeup(t) \/ Reload(t) BY <1>5 DEF SpuriousWakeup, Reload
<1>6. CASE Finish(t) BY <1>6 DEF Finish
<1>7. CASE WakeAll(t) BY <1>7 DEF WakeAll
<1>. QED
  BY <1>1, <1>2, <1>3, <1>4, <1>5, <1>6, <1>7 DEF Step, Progress

(* A thread that Waits stays until the bit is gone. It leaves the loop by  *)
(* ReturnComplete, when the word is COMPLETE and not QUEUED, or by         *)
(* PanicPoisoned, when it does not ignore the poison, so that the word it  *)
(* saw is past INCOMPLETE and it is not what keeps a POISONED word QUEUED. *)
LEMMA StepWaiter ==
  ASSUME IInv, TypeOK', NEW t \in Threads, Step(t) PROVE QueuedHasWaiter'
<1> SUFFICES ASSUME word'.queued, word'.state # RUNNING
             PROVE  \E u \in Threads : Waits(u)'
  BY DEF QueuedHasWaiter
<1> USE WordParts, StatesDiffer DEF IInv, TypeOK, Waits, Goto
<1>1. ASSUME word' = word, NEW u \in Threads, Waits(u), pc'[u] \in {"loop", "asleep", "reload"},
             op'[u] = op[u]
      PROVE  \E v \in Threads : Waits(v)'
  BY <1>1
<1>2. CASE word' = word
  <2>1. PICK u \in Threads : Waits(u)
    BY <1>2 DEF QueuedHasWaiter
  <2>2. word.state # COMPLETE
    BY <1>2, WordFacts
  <2>3. CASE u # t
    <3>1. op'[u] = op[u] /\ (pc'[u] = pc[u] \/ (pc[u] = "asleep" /\ pc'[u] = "reload"))
      BY <2>3, MarkQueuedEffect
      DEF Step, Progress, Enter, ReturnComplete, PanicPoisoned, Return, Forget, StartRunning,
          CompareExchange, FutexWait, SpuriousWakeup, Reload, Finish, WakeAll
    <3>. QED
      BY <1>1, <1>2, <2>1, <3>1
  <2>4. CASE u = t
    <3>1. ~ReturnComplete(t)
      BY <2>2 DEF ReturnComplete, SeenIsPast
    <3>2. ~PanicPoisoned(t)
      <4>1. ASSUME PanicPoisoned(t) PROVE word.state = RUNNING
        BY <2>1, <2>2, <2>4, <4>1, WordFacts DEF PanicPoisoned, MustPanic, SeenIsPast
      <4>. QED
        BY <1>2, <4>1
    <3>3. op'[u] = op[u] /\ pc'[u] \in {"loop", "asleep", "reload"}
      BY <2>1, <2>4, <3>1, <3>2, MarkQueuedEffect
      DEF Step, Progress, Enter, StartRunning, MustQueue, FutexWait,
          SpuriousWakeup, Reload, Finish, WakeAll
    <3>. QED
      BY <1>1, <1>2, <2>1, <3>3
  <2>. QED
    BY <2>3, <2>4
<1>3. CASE word' # word
  <2>1. CASE MarkQueued(t)
    <3>1. CASE word.queued
      <4>1. PICK u \in Threads : Waits(u)
        BY <2>1, <3>1, MarkQueuedEffect DEF QueuedHasWaiter
      <4>. QED
        BY <2>1, <4>1, MarkQueuedEffect
    <3>2. CASE ~word.queued
      <4>1. MustQueue(t) /\ word = seen[t]
        BY <2>1, <3>2, MarkQueuedEffect
      <4>2. op[t].fn = "wait"
        BY <2>1, <4>1, MarkQueuedEffect DEF MustQueue, Ops
      <4>. QED
        BY <2>1, <4>1, <4>2, MarkQueuedEffect DEF MustQueue, MustPanic
    <3>. QED
      BY <3>1, <3>2
  <2>2. CASE StartRunning(t)
    BY <1>3, <2>2 DEF StartRunning, CompareExchange
  <2>3. CASE Finish(t)
    BY <2>3, FinishEffect
  <2>. QED
    BY <1>3, <2>1, <2>2, <2>3
    DEF Step, Progress, Enter, ReturnComplete, PanicPoisoned, Return, FutexWait,
        SpuriousWakeup, Reload, WakeAll
<1>. QED
  BY <1>2, <1>3

(* With no thread in a call, setting an INCOMPLETE word disturbs nothing.  *)
LEMMA SetStateMutIInv == ASSUME IInv, SetStateMut PROVE IInv'
<1>1. /\ word.state = INCOMPLETE /\ word'.state \in {COMPLETE, POISONED} /\ ~word'.queued
      /\ UNCHANGED <<pc, op, seen, result, calls>>
      /\ word' \in Words /\ \A t \in Threads : pc[t] = "idle"
  BY WordParts, WordType DEF SetStateMut, At
<1> USE <1>1, StatesDiffer DEF IInv
<1>2. TypeOK' BY DEF TypeOK
<1>3. RunningMatchesWord' BY DEF RunningMatchesWord, At
<1>4. SeenIsPast' BY DEF SeenIsPast
<1>5. ReturnsInitialized' BY DEF ReturnsInitialized
<1>6. SleepersAreCovered' BY DEF SleepersAreCovered, At
<1>7. QueuedHasWaiter' BY DEF QueuedHasWaiter
<1>. QED
  BY <1>2, <1>3, <1>4, <1>5, <1>6, <1>7

(* IInv is an invariant of the futex Once.                                 *)
THEOREM Invariance == Spec => []IInv
<1>1. IInv /\ [Next]_vars => IInv'
  <2> SUFFICES ASSUME IInv, [Next]_vars PROVE IInv'
    OBVIOUS
  <2>1. CASE UNCHANGED vars
    BY <2>1 DEF vars, IInv, TypeOK, RunningMatchesWord, SeenIsPast, ReturnsInitialized,
                SleepersAreCovered, QueuedHasWaiter, Waits, At
  <2>2. ASSUME NEW t \in Threads, Step(t) PROVE IInv'
    <3>1. TypeOK' BY <2>2, StepType DEF IInv
    <3>. QED
      BY <2>2, <3>1, StepRunning, StepSeen, StepCovered, StepWaiter DEF IInv
  <2>. QED
    BY <2>1, <2>2, SetStateMutIInv, NextIsStep
<1>. QED
  BY InitIInv, <1>1, PTL DEF Spec

(* Two initializers never overlap, and a RUNNING word has its runner.      *)
THEOREM OneInitializer == Spec => []RunningMatchesWord
  BY Invariance, PTL DEF IInv

(* A call that returned for a COMPLETE Once stays right for ever.          *)
THEOREM InitializedForGood == Spec => []ReturnsInitialized
  BY Invariance, PTL DEF IInv

(* No thread sleeps beyond the reach of the next futex_wake_all.           *)
THEOREM NoLostWakeup == Spec => []SleepersAreCovered
  BY Invariance, PTL DEF IInv

(* state() finds neither QUEUED nor RUNNING: its unreachable!() is.        *)
THEOREM ExclusiveAccess == Spec => []ExclusiveStateValid
<1>1. IInv => ExclusiveStateValid
  BY DEF IInv, RunningMatchesWord, QueuedHasWaiter, Waits, ExclusiveStateValid, At
<1>. QED
  BY <1>1, Invariance, PTL

(* Every behaviour of the futex Once is one of the abstract Once.          *)
THEOREM Refinement == Spec => ImplementsOnce
<1>1. Init => Abstract!Init
  BY WordParts, StatesDiffer DEF Init, Abstract!Init, Status, At
<1>2. IInv /\ [Next]_vars => [Abstract!Next]_(Abstract!vars)
  <2> SUFFICES ASSUME IInv, [Next]_vars PROVE Abstract!Next \/ UNCHANGED Abstract!vars
    OBVIOUS
  <2> USE WordParts, StatesDiffer DEF IInv, TypeOK, Status, At, Goto, Abstract!vars
  <2>1. CASE UNCHANGED vars
    BY <2>1 DEF vars
  <2>2. CASE SetStateMut
    <3>1. Status = "incomplete" /\ Status' \in {"complete", "poisoned"}
      BY <2>2 DEF SetStateMut
    <3>2. At({"running"}) = {} /\ At({"running"})' = {}
      BY <2>2 DEF SetStateMut
    <3>. QED
      BY <3>1, <3>2 DEF Abstract!Next, Abstract!Exclusive
  <2>3. ASSUME NEW t \in Threads, Step(t) PROVE Abstract!Next \/ UNCHANGED Abstract!vars
    <3>1. CASE StartRunning(t)
      <4>1. CASE word = seen[t]
        <5>1. /\ Status \in {"incomplete", "poisoned"} /\ Status' = "running"
          BY <3>1, <4>1 DEF StartRunning, CompareExchange
        <5>2. At({"running"}) = {} /\ At({"running"})' = {t}
          BY <3>1, <4>1 DEF StartRunning, CompareExchange, RunningMatchesWord
        <5>. QED
          BY <5>1, <5>2 DEF Abstract!Next, Abstract!Begin
      <4>2. CASE word # seen[t]
        BY <3>1, <4>2 DEF StartRunning, CompareExchange
      <4>. QED
        BY <4>1, <4>2
    <3>2. CASE Finish(t)
      <4>1. Status = "running" /\ Status' \in {"complete", "poisoned"}
        BY <3>2, FinishEffect
      <4>2. At({"running"}) = {t} /\ At({"running"})' = {}
        BY <3>2 DEF Finish, RunningMatchesWord
      <4>. QED
        BY <4>1, <4>2 DEF Abstract!Next, Abstract!End
    <3>3. CASE MarkQueued(t)
      BY <3>3, MarkQueuedEffect
    <3>4. CASE (\E o \in Ops : Enter(t, o)) \/ ReturnComplete(t) \/ PanicPoisoned(t)
      BY <3>4 DEF Enter, ReturnComplete, PanicPoisoned, Return
    <3>5. CASE FutexWait(t) \/ SpuriousWakeup(t) \/ Reload(t)
      BY <3>5 DEF FutexWait, MustQueue, SpuriousWakeup, Reload
    <3>6. CASE WakeAll(t)
      BY <3>6 DEF WakeAll
    <3>. QED
      BY <2>3, <3>1, <3>2, <3>3, <3>4, <3>5, <3>6 DEF Step, Progress
  <2>. QED
    BY <2>1, <2>2, <2>3, NextIsStep
<1>. QED
  BY <1>1, <1>2, Invariance, PTL DEF Spec, ImplementsOnce, Abstract!Spec

-----------------------------------------------------------------------------
CellLocations == {"out", "in", "taken", "wrote", "read"}

CellType == /\ kind \in Kinds /\ cell \subseteq {"f", "value"}
            /\ at \in [Threads -> CellLocations]
            /\ ran \in Nat /\ gone \in BOOLEAN

(* Where a thread is in the cell, and where in the Once.                   *)
Placed ==
    \A t \in Threads :
       /\ pc[t] = "idle" <=> at[t] \in {"out", "read"}
       /\ at[t] \in {"taken", "wrote"} => pc[t] = "running"
       /\ at[t] = "read" => word.state = COMPLETE /\ kind # "Once"
       /\ at[t] = "wrote" => kind # "Once"
       /\ pc[t] = "running" => seen[t].state \in {INCOMPLETE, POISONED}

(* The cell while nobody runs an initializer.                              *)
RestingCell == ~gone /\ word.state # RUNNING => cell = HoldsIn(word.state)

(* The cell while thread t does.                                           *)
RunningCell ==
    \A t \in Threads : pc[t] = "running" =>
       /\ at[t] = "in"    => cell = HoldsIn(seen[t].state)
       /\ at[t] = "taken" => cell = {}
       /\ at[t] = "wrote" => cell = {"value"}

GoneIsEmpty == gone => cell = {} /\ \A t \in Threads : at[t] = "out"

RanOnce == ran <= 1 /\ ("f" \in cell => ran = 0)

(* The inductive invariant, next to the one of the Once.                   *)
CInv == CellType /\ Placed /\ RestingCell /\ RunningCell /\ GoneIsEmpty /\ RanOnce

(* The steps of one thread.                                                *)
CellStep(t) == CellCall(t) \/ Get(t) \/ CellProgress(t) \/ Spurious(t)

(* A step of CellNext is one of a thread, an exclusive one, or none.       *)
LEMMA CellNextIsStep ==
  [CellNext]_allVars =>
     \/ \E t \in Threads : CellStep(t)
     \/ ForceMut \/ Consume \/ UNCHANGED allVars
  BY DEF CellNext, CellStep, AllReturned

(* What a step of a thread does to the Once is a step of the Once.         *)
LEMMA StepOfOnce ==
  ASSUME NEW t \in Threads, CellStep(t)
  PROVE  Step(t) \/ UNCHANGED vars
<1>1. CASE CellCall(t)
  BY <1>1 DEF CellCall, OpsOf, Step
<1>2. CASE InOnce(t) \/ EndClosure(t) \/ Spurious(t)
  BY <1>2 DEF InOnce, EndClosure, Spurious, Step, Progress
<1>3. CASE Get(t) \/ RunClosure(t) \/ StoreValue(t) \/ UseValue(t)
  BY <1>3 DEF Get, RunClosure, StoreValue, UseValue
<1>. QED
  BY <1>1, <1>2, <1>3 DEF CellStep, CellProgress

(* LazyLock and OnceLock use the Once as it must be used, the exclusive    *)
(* operations included: all that is proved about the futex Once holds for  *)
(* the Once inside of them.                                                *)
THEOREM UsesOnce == CellSpec => Spec
<1>1. CellInit => Init
  BY DEF CellInit
<1>2. [CellNext]_allVars => [Next]_vars
  <2> SUFFICES ASSUME [CellNext]_allVars PROVE [Next]_vars
    OBVIOUS
  <2>1. CASE UNCHANGED allVars
    BY <2>1 DEF allVars
  <2>2. CASE \E t \in Threads : CellStep(t)
    BY <2>2, StepOfOnce DEF Step, Next
  <2>3. CASE ForceMut \/ Consume
    BY <2>3 DEF ForceMut, Consume, Next
  <2>. QED
    BY <2>1, <2>2, <2>3, CellNextIsStep
<1>. QED
  BY <1>1, <1>2, PTL DEF CellSpec, Spec

(* A new cell holds f, if it is a LazyLock, and nothing otherwise.         *)
LEMMA InitCInv == CellInit => CInv
<1> SUFFICES ASSUME CellInit PROVE CInv
  OBVIOUS
<1>1. word.state = INCOMPLETE
  BY WordParts DEF CellInit, Init
<1>2. CellType
  BY DEF CellInit, CellType, CellLocations
<1>3. Placed /\ RunningCell
  BY DEF CellInit, Init, Placed, RunningCell
<1>4. RestingCell
  BY <1>1, StatesDiffer DEF CellInit, RestingCell, HoldsIn
<1>5. GoneIsEmpty /\ RanOnce
  BY DEF CellInit, GoneIsEmpty, RanOnce
<1>. QED
  BY <1>2, <1>3, <1>4, <1>5 DEF CInv

(* Steps within a method that concern the cell only.                       *)
LEMMA CellOnlyStep ==
  ASSUME IInv, CInv, NEW t \in Threads,
         Get(t) \/ RunClosure(t) \/ StoreValue(t) \/ UseValue(t)
  PROVE  CInv'
<1> USE DEF CInv, CellType, CellLocations, Kinds, Placed, RestingCell, RunningCell,
            GoneIsEmpty, RanOnce, HoldsIn, vars, GoTo
<1>1. CASE Get(t) BY <1>1, StatesDiffer DEF Get
<1>2. CASE RunClosure(t)
  BY <1>2, StatesDiffer DEF RunClosure, is_poisoned, IInv, RunningMatchesWord, At
<1>3. CASE StoreValue(t)
  <2>1. /\ word.state = RUNNING /\ cell = {} /\ ~gone
        /\ \A u \in Threads : pc[u] = "running" => u = t
    BY <1>3 DEF StoreValue, IInv, RunningMatchesWord, At
  <2>2. cell' = {"value"}
    BY <1>3, <2>1 DEF StoreValue
  <2>. QED
    BY <1>3, <2>1, <2>2 DEF StoreValue
<1>4. CASE UseValue(t) BY <1>4 DEF UseValue
<1>. QED
  BY <1>1, <1>2, <1>3, <1>4

(* A step of the Once that neither starts nor ends an initializer, with    *)
(* what the thread then does.                                              *)
Quietly(t) ==
    /\ word'.state = word.state
    /\ \A u \in Threads : /\ pc'[u] = "running" <=> pc[u] = "running"
                          /\ pc[u] = "running" => seen'[u] = seen[u]
                          /\ u # t => (pc'[u] = "idle" <=> pc[u] = "idle")
    /\ at' = [at EXCEPT ![t] = at'[t]]
    /\ pc[t] # "running"
    /\ \/ at'[t] = "in" /\ pc'[t] # "idle"
       \/ at'[t] = "out" /\ pc'[t] = "idle"
       \/ at'[t] = "read" /\ pc'[t] = "idle" /\ kind # "Once" /\ word'.state = COMPLETE
    /\ UNCHANGED <<kind, cell, ran, gone>>

(* Such a step leaves the cell as the invariant describes it.              *)
LEMMA QuietStep ==
  ASSUME IInv, CInv, ~gone, NEW t \in Threads, Quietly(t)
  PROVE  CInv'
<1> USE DEF CInv, Quietly
<1>1. CellType'
  BY DEF CellType, CellLocations
<1>2. Placed'
  BY DEF Placed, CellType
<1>3. RestingCell' /\ GoneIsEmpty' /\ RanOnce'
  BY DEF RestingCell, GoneIsEmpty, RanOnce, HoldsIn
<1>4. RunningCell'
  BY DEF RunningCell, HoldsIn, CellType
<1>. QED
  BY <1>1, <1>2, <1>3, <1>4
(* Which steps are such steps.                                             *)
LEMMA OnceStepIsQuiet ==
  ASSUME IInv, IInv', CInv, NEW t \in Threads,
         \/ CellCall(t) \/ Spurious(t)
         \/ InOnce(t) /\ ~StartRunning(t)
         \/ InOnce(t) /\ StartRunning(t) /\ word # seen[t]
  PROVE  ~gone /\ Quietly(t)
<1> USE DEF Quietly, IInv, TypeOK, Goto, GoTo, See
<1>1. at[t] # "out" => ~gone
  BY DEF CInv, GoneIsEmpty
<1>2. CASE CellCall(t)
  <2>1. PICK o \in Ops : Enter(t, o)
    BY <1>2 DEF CellCall, OpsOf
  <2>. QED
    BY <1>2, <2>1 DEF CellCall, Enter, CInv, CellType
<1>3. CASE Spurious(t)
  <2>1. at[t] = "in"
    BY <1>3 DEF Spurious, SpuriousWakeup, CInv, CellType, CellLocations, Placed
  <2>. QED
    BY <1>1, <1>3, <2>1 DEF Spurious, SpuriousWakeup, cellVars, CInv, CellType
<1>4. CASE InOnce(t) /\ (ReturnComplete(t) \/ PanicPoisoned(t))
  <2>1. PICK r \in Results : Return(t, r)
    BY <1>4 DEF ReturnComplete, PanicPoisoned, Results
  <2>2. pc[t] = "loop"
    BY <1>4 DEF ReturnComplete, PanicPoisoned
  <2>3. result'[t] = "done" => word'.state = COMPLETE
    BY DEF ReturnsInitialized
  <2>. QED
    BY <1>1, <1>4, <2>1, <2>2, <2>3 DEF InOnce, Continue, Return, Forget, CInv, CellType
<1>5. CASE InOnce(t) /\ StartRunning(t) /\ word # seen[t]
  BY <1>1, <1>5 DEF InOnce, Continue, StartRunning, CompareExchange, CInv, CellType
<1>6. CASE InOnce(t) /\ MarkQueued(t)
  BY <1>1, <1>6, MarkQueuedEffect
  DEF InOnce, Continue, MarkQueued, MustQueue, CInv, CellType
<1>7. CASE InOnce(t) /\ (FutexWait(t) \/ Reload(t))
  BY <1>1, <1>7 DEF InOnce, Continue, FutexWait, MustQueue, Reload, CInv, CellType
<1>8. CASE InOnce(t) /\ WakeAll(t)
  <2>1. result'[t] = "done" => word'.state = COMPLETE
    BY DEF ReturnsInitialized
  <2>. QED
    BY <1>1, <1>8, <2>1 DEF InOnce, Continue, WakeAll, CInv, CellType
<1>. QED
  BY <1>2, <1>3, <1>4, <1>5, <1>6, <1>7, <1>8 DEF InOnce

(* The step that starts the initializer: the runner remembers in `seen`    *)
(* the state that the cell still is in.                                    *)
LEMMA StartStep ==
  ASSUME IInv, CInv, NEW t \in Threads, InOnce(t), StartRunning(t), word = seen[t]
  PROVE  CInv'
<1>1. /\ word' = Word(RUNNING, seen[t].queued) /\ seen' = [seen EXCEPT ![t] = seen[t]]
      /\ pc' = [pc EXCEPT ![t] = "running"] /\ pc[t] = "loop" /\ at[t] = "in"
      /\ seen[t].state \in {INCOMPLETE, POISONED}
      /\ UNCHANGED <<kind, cell, ran, gone>>
  BY DEF InOnce, StartRunning, CompareExchange, Goto, See
<1>2. at' = at /\ seen' = seen
  BY <1>1 DEF InOnce, Continue, GoTo, IInv, TypeOK, CInv, CellType
<1>3. word'.state = RUNNING
  BY <1>1, WordParts
<1>4. ~gone /\ \A u \in Threads : pc[u] # "running"
  BY <1>1, StatesDiffer DEF CInv, GoneIsEmpty, IInv, RunningMatchesWord, At
<1>5. cell = HoldsIn(seen[t].state)
  BY <1>1, <1>4, StatesDiffer DEF CInv, RestingCell
<1>6. CellType' /\ RestingCell' /\ GoneIsEmpty' /\ RanOnce'
  BY <1>1, <1>2, <1>3, <1>4 DEF CInv, CellType, RestingCell, GoneIsEmpty, RanOnce
<1>7. Placed'
  BY <1>1, <1>2, <1>3, <1>4, StatesDiffer DEF CInv, CellType, Placed, IInv, TypeOK
<1>8. RunningCell'
  BY <1>1, <1>2, <1>4, <1>5 DEF RunningCell, HoldsIn, IInv, TypeOK
<1>. QED
  BY <1>6, <1>7, <1>8 DEF CInv

(* The step that ends it: the value is there exactly if the Once becomes   *)
(* complete, and f is gone in any case.                                    *)
LEMMA EndStep ==
  ASSUME IInv, CInv, NEW t \in Threads, EndClosure(t)
  PROVE  CInv'
<1>1. PICK r \in Results :
        /\ r # "none" /\ r \in EndsOf(t)
        /\ word' = Word(set_state_on_drop_to(r), FALSE)
        /\ result' = [result EXCEPT ![t] = r]
  BY DEF EndClosure, Finish, IInv, TypeOK
<1>2. /\ pc[t] = "running" /\ UNCHANGED <<kind, cell, ran, gone>>
      /\ \/ pc' = [pc EXCEPT ![t] = "wake"]
         \/ pc' = [pc EXCEPT ![t] = "idle"]
      /\ \A u \in Threads : u # t => seen'[u] = seen[u]
  BY DEF EndClosure, Finish, Goto, Forget, See, IInv, TypeOK
<1>3. /\ word'.state = IF r = "done" THEN COMPLETE ELSE POISONED
      /\ result'[t] = r
  BY <1>1, WordParts DEF set_state_on_drop_to, IInv, TypeOK
<1>4. ~gone /\ \A u \in Threads : pc[u] = "running" => u = t
  BY <1>2 DEF CInv, Placed, GoneIsEmpty, IInv, RunningMatchesWord, At
<1>5. /\ r = "done" => cell = IF kind = "Once" THEN {} ELSE {"value"}
      /\ r # "done" => cell = {}
  BY <1>1, <1>2, StatesDiffer
  DEF EndsOf, is_poisoned, CInv, Placed, RunningCell, HoldsIn, CellType, Kinds
<1>6. at' = [at EXCEPT ![t] = IF pc'[t] # "idle" THEN "in"
                              ELSE IF kind # "Once" /\ r = "done" THEN "read" ELSE "out"]
  BY <1>3 DEF EndClosure, Continue, GoTo
<1>7. CellType' /\ GoneIsEmpty' /\ RanOnce'
  BY <1>2, <1>4, <1>6 DEF CInv, CellType, CellLocations, GoneIsEmpty, RanOnce
<1>8. Placed'
  <2>1. \A u \in Threads : at[u] # "read"
    BY <1>2, StatesDiffer DEF CInv, Placed, IInv, RunningMatchesWord, At
  <2>. QED
    BY <1>2, <1>3, <1>4, <1>6, <2>1 DEF CInv, CellType, Placed, IInv, TypeOK
<1>9. RestingCell'
  BY <1>2, <1>3, <1>5, StatesDiffer DEF RestingCell, HoldsIn
<1>10. RunningCell'
  BY <1>2, <1>4 DEF RunningCell, IInv, TypeOK
<1>. QED
  BY <1>7, <1>8, <1>9, <1>10 DEF CInv

(* The operations that have the cell to themselves.                        *)
LEMMA ExclusiveStep ==
  ASSUME IInv, CInv, ForceMut \/ Consume
  PROVE  CInv'
<1>1. ~gone /\ (\A t \in Threads : at[t] = "out" /\ pc[t] = "idle") /\ at' = at /\ pc' = pc
  BY DEF ForceMut, Consume, Exclusive, SetStateMut, vars, CInv, Placed
<1>2. word.state # RUNNING
  BY <1>1 DEF IInv, RunningMatchesWord, At
<1>3. cell = HoldsIn(word.state)
  BY <1>1, <1>2 DEF CInv, RestingCell
<1>4. CASE ForceMut
  <2>1. /\ kind = "LazyLock" /\ kind' = kind /\ gone' = gone /\ ran' = ran + 1
        /\ word.state = INCOMPLETE
        /\ \E s \in {COMPLETE, POISONED} : word' = Word(s, FALSE)
        /\ cell' = (cell \ {"f"}) \cup (IF word'.state = COMPLETE THEN {"value"} ELSE {})
    BY <1>4, WordParts, StatesDiffer DEF ForceMut, SetStateMut
  <2>2. cell = {"f"}
    BY <1>3, <2>1, StatesDiffer DEF HoldsIn
  <2>3. ran = 0
    BY <2>1, <2>2 DEF CInv, RanOnce
  <2>4. word'.state \in {COMPLETE, POISONED}
    BY <2>1, WordParts
  <2>5. cell' = IF word'.state = COMPLETE THEN {"value"} ELSE {}
    BY <2>1, <2>2
  <2>6. CellType'
    <3>1. cell' \in SUBSET {"f", "value"}
      BY <2>5
    <3>2. ran' \in Nat
      BY <2>1, <2>3
    <3>. QED
      BY <1>1, <2>1, <3>1, <3>2 DEF CInv, CellType
  <2>7. Placed' /\ RunningCell' /\ GoneIsEmpty'
    BY <1>1, <2>1 DEF Placed, RunningCell, GoneIsEmpty
  <2>8. RestingCell'
    BY <2>1, <2>4, <2>5, StatesDiffer DEF RestingCell, HoldsIn
  <2>9. RanOnce'
    BY <2>1, <2>3, <2>5 DEF RanOnce
  <2>. QED
    BY <2>6, <2>7, <2>8, <2>9 DEF CInv
<1>5. CASE Consume
  <2>1. cell' = {} /\ kind' = kind /\ gone' = TRUE /\ ran' = ran
    BY <1>3, <1>5 DEF Consume
  <2>. QED
    BY <1>1, <2>1 DEF CInv, CellType, Placed, RestingCell, RunningCell, GoneIsEmpty, RanOnce
<1>. QED
  BY <1>4, <1>5

(* The cell is always in a state that the invariant describes.             *)
THEOREM CellInvariance == CellSpec => []CInv
<1>1. CInv /\ IInv /\ IInv' /\ [CellNext]_allVars => CInv'
  <2> SUFFICES ASSUME CInv, IInv, IInv', [CellNext]_allVars PROVE CInv'
    OBVIOUS
  <2>1. CASE UNCHANGED allVars
    BY <2>1 DEF allVars, cellVars, vars, CInv, CellType, Placed, RestingCell, RunningCell,
                GoneIsEmpty, RanOnce, HoldsIn
  <2>2. CASE \E t \in Threads : CellStep(t)
    BY <2>2, CellOnlyStep, OnceStepIsQuiet, QuietStep, StartStep, EndStep
    DEF CellStep, CellProgress
  <2>3. CASE ForceMut \/ Consume
    BY <2>3, ExclusiveStep
  <2>. QED
    BY <2>1, <2>2, <2>3, CellNextIsStep
<1>. QED
  BY InitCInv, <1>1, UsesOnce, Invariance, PTL DEF CellSpec

(* The state of the Once says what the cell holds, whoever looks when: who *)
(* is let through finds the value, drop and into_inner leak nothing and    *)
(* free nothing twice, and LazyLock's f runs once, ever.                   *)
THEOREM StateIsDiscriminant == CellSpec => []CellMatchesOnce
<1>1. CInv /\ IInv => CellMatchesOnce
  <2> SUFFICES ASSUME CInv, IInv PROVE CellMatchesOnce
    OBVIOUS
  <2>1. Exclusive => cell = HoldsIn(word.state)
    BY DEF Exclusive, CInv, Placed, RestingCell, IInv, RunningMatchesWord, At
  <2>2. ASSUME NEW t \in Threads, at[t] = "read" PROVE cell = {"value"}
    BY <2>2, StatesDiffer DEF CInv, Placed, GoneIsEmpty, RestingCell, HoldsIn
  <2>. QED
    BY <2>1, <2>2 DEF CInv, GoneIsEmpty, RanOnce, CellMatchesOnce
<1>. QED
  BY <1>1, CellInvariance, UsesOnce, Invariance, PTL
=============================================================================
