------------------------------ MODULE FutexOnce ------------------------------
(***************************************************************************)
(* The futex Once, std/src/sys/sync/once/futex.rs, below call_once,        *)
(* call_once_force, wait and wait_force of std/src/sync/once.rs. One word  *)
(* holds a state and the QUEUED bit, "a thread may be asleep on the word". *)
(* Every action is one access to the word or one futex call.               *)
(***************************************************************************)
EXTENDS Naturals

CONSTANTS Threads,   \* the threads that use the Once
          MaxCalls   \* how often each of them calls one of its methods

ASSUME MaxCallsAssumption == MaxCalls \in Nat

VARIABLES word,      \* state_and_queued, as [state, queued]
          pc,        \* where each thread is
          op,        \* the method it called, and its ignore_poisoning
          seen,      \* its local variable state_and_queued
          result,    \* how its last call ended
          calls      \* calls made so far, bounded by MaxCalls

vars == <<word, pc, op, seen, result, calls>>

COMPLETE   == 0
RUNNING    == 1
POISONED   == 2
INCOMPLETE == 3
(* QUEUED "may only be set if the state is not COMPLETE".                  *)
Words == [state : {RUNNING, POISONED, INCOMPLETE}, queued : BOOLEAN]
         \cup [state : {COMPLETE}, queued : {FALSE}]

Word(s, q) == [state |-> s, queued |-> q]

Ops  == [fn : {"call", "wait"}, ignore : BOOLEAN]
NoOp == [fn |-> "call", ignore |-> FALSE]

(***************************************************************************)
(* idle    outside the Once            loop    top of the loop of a call   *)
(* asleep  blocked in futex_wait       reload  after futex_wait            *)
(* running running the initializer     wake    about to futex_wake_all     *)
(***************************************************************************)
Locations == {"idle", "loop", "asleep", "reload", "running", "wake"}

(* done      the call returned because the Once is COMPLETE                *)
(* poisoned  this thread's own initializer called OnceState::poison        *)
(* panicked  its initializer panicked, or the Once was POISONED            *)
Results == {"none", "done", "poisoned", "panicked"}

At(locs) == {t \in Threads : pc[t] \in locs}

Goto(t, loc) == pc' = [pc EXCEPT ![t] = loc]

See(t, w) == seen' = [seen EXCEPT ![t] = w]

(* The local variables of a call that no longer needs them.                *)
Forget(t) == op' = [op EXCEPT ![t] = NoOp] /\ See(t, Word(INCOMPLETE, FALSE))

Init == /\ word   = Word(INCOMPLETE, FALSE)
        /\ pc     = [t \in Threads |-> "idle"]
        /\ op     = [t \in Threads |-> NoOp]
        /\ seen   = [t \in Threads |-> Word(INCOMPLETE, FALSE)]
        /\ result = [t \in Threads |-> "none"]
        /\ calls  = [t \in Threads |-> 0]

-----------------------------------------------------------------------------
(* call and wait start alike, with a load of the word.                     *)
Enter(t, o) ==
    /\ pc[t] = "idle" /\ calls[t] < MaxCalls
    /\ calls'  = [calls EXCEPT ![t] = @ + 1]
    /\ op'     = [op EXCEPT ![t] = o]
    /\ result' = [result EXCEPT ![t] = "none"]
    /\ See(t, word) /\ Goto(t, "loop")
    /\ UNCHANGED word

Return(t, r) ==
    /\ Goto(t, "idle")
    /\ result' = [result EXCEPT ![t] = r]
    /\ Forget(t)
    /\ UNCHANGED <<word, calls>>

ReturnComplete(t) ==
    /\ pc[t] = "loop" /\ seen[t].state = COMPLETE
    /\ Return(t, "done")

MustPanic(t) == seen[t].state = POISONED /\ ~op[t].ignore

PanicPoisoned(t) ==
    /\ pc[t] = "loop" /\ MustPanic(t)
    /\ Return(t, "panicked")

(* compare_exchange_weak(seen, new): on success the thread goes on at      *)
(* `loc`, knowing `now`; otherwise it learns the present word. A failure   *)
(* for no reason changes nothing.                                          *)
CompareExchange(t, new, loc, now) ==
    /\ \/ word = seen[t] /\ word' = new  /\ Goto(t, loc) /\ See(t, now)
       \/ word # seen[t] /\ word' = word /\ pc' = pc     /\ See(t, word)
    /\ UNCHANGED <<op, result, calls>>

\* Mutant of StartRunning: starts with a QUEUED bit that is always clear.
StartRunningUnqueued(t) ==
    /\ pc[t] = "loop" /\ op[t].fn = "call"
    /\ seen[t].state \in {INCOMPLETE, POISONED} /\ ~MustPanic(t)
    /\ CompareExchange(t, Word(RUNNING, FALSE), "running", seen[t])

(* call registers the thread as the one that runs. It keeps QUEUED, which  *)
(* threads in wait may have set before.                                    *)
StartRunning(t) ==
    /\ pc[t] = "loop" /\ op[t].fn = "call"
    /\ seen[t].state \in {INCOMPLETE, POISONED} /\ ~MustPanic(t)
    /\ CompareExchange(t, Word(RUNNING, seen[t].queued), "running", seen[t])

(* call waits for a RUNNING Once only, wait for any that is not COMPLETE.  *)
MustQueue(t) ==
    /\ pc[t] = "loop"
    /\ seen[t].state # COMPLETE /\ ~MustPanic(t)
    /\ op[t].fn = "call" => seen[t].state = RUNNING

\* Mutant of MarkQueued: sets the bit whatever the state has become.
MarkQueuedAlways(t) ==
    /\ MustQueue(t) /\ ~seen[t].queued
    /\ word' = [word EXCEPT !.queued = TRUE] /\ pc' = pc
    /\ See(t, word') /\ UNCHANGED <<op, result, calls>>

MarkQueued(t) ==
    /\ MustQueue(t) /\ ~seen[t].queued
    /\ CompareExchange(t, Word(seen[t].state, TRUE), "loop", Word(seen[t].state, TRUE))

(* futex_wait(&self.state_and_queued, state_and_queued)                    *)
FutexWait(t) ==
    /\ MustQueue(t) /\ seen[t].queued
    /\ Goto(t, IF word = seen[t] THEN "asleep" ELSE "reload")
    /\ UNCHANGED <<word, op, seen, result, calls>>

SpuriousWakeup(t) ==
    /\ pc[t] = "asleep"
    /\ Goto(t, "reload")
    /\ UNCHANGED <<word, op, seen, result, calls>>

\* Mutant of Reload: returns after a wake-up without looking at the word.
ReloadReturns(t) == pc[t] = "reload" /\ Return(t, "done")

Reload(t) ==
    /\ pc[t] = "reload"
    /\ See(t, word) /\ Goto(t, "loop")
    /\ UNCHANGED <<word, op, result, calls>>

(* What the state becomes when an initializer ends with result r.          *)
set_state_on_drop_to(r) == IF r = "done" THEN COMPLETE ELSE POISONED

\* Mutant of Finish: a plain store, which does not tell who queued.
FinishStore(t) ==
    /\ pc[t] = "running"
    /\ \E r \in Results \ {"none"} :
         /\ word'   = Word(set_state_on_drop_to(r), FALSE)
         /\ result' = [result EXCEPT ![t] = r]
    /\ Goto(t, IF seen[t].queued THEN "wake" ELSE "idle")
    /\ Forget(t)
    /\ UNCHANGED calls

(* The initializer succeeds, poisons the Once or panics, and the drop of   *)
(* CompletionGuard swaps the state in, taking QUEUED with it.              *)
Finish(t) ==
    /\ pc[t] = "running"
    /\ \E r \in Results \ {"none"} :
         /\ word'   = Word(set_state_on_drop_to(r), FALSE)
         /\ result' = [result EXCEPT ![t] = r]
    /\ Goto(t, IF word.queued THEN "wake" ELSE "idle")
    /\ Forget(t)
    /\ UNCHANGED calls

WakeAll(t) ==
    /\ pc[t] = "wake"
    /\ pc' = [u \in Threads |-> IF u = t THEN "idle"
                                ELSE IF pc[u] = "asleep" THEN "reload" ELSE pc[u]]
    /\ UNCHANGED <<word, op, seen, result, calls>>

\* Mutant of SetStateMut: lets LazyLock::force_mut initialize a poisoned Once.
SetStateMutAgain ==
    /\ At({"idle"}) = Threads /\ word.state # COMPLETE
    /\ word' \in {Word(COMPLETE, FALSE), Word(POISONED, FALSE)}
    /\ UNCHANGED <<pc, op, seen, result, calls>>

(* state() and set_state() through a mutable reference, while no thread    *)
(* is in a call: LazyLock::force_mut initializes an incomplete Once.       *)
SetStateMut ==
    /\ At({"idle"}) = Threads /\ word.state = INCOMPLETE
    /\ word' \in {Word(COMPLETE, FALSE), Word(POISONED, FALSE)}
    /\ UNCHANGED <<pc, op, seen, result, calls>>

-----------------------------------------------------------------------------
(* What the scheduler eventually lets a thread do; initializers end.       *)
Progress(t) == \/ ReturnComplete(t) \/ PanicPoisoned(t) \/ StartRunning(t)
               \/ MarkQueued(t) \/ FutexWait(t) \/ Reload(t)
               \/ Finish(t) \/ WakeAll(t)

Finished == /\ \A t \in Threads : pc[t] = "idle" /\ calls[t] = MaxCalls
            /\ UNCHANGED vars

Next == \/ \E t \in Threads : \/ \E o \in Ops : Enter(t, o)
                              \/ Progress(t) \/ SpuriousWakeup(t)
        \/ SetStateMut
        \/ Finished

Spec == Init /\ [][Next]_vars

-----------------------------------------------------------------------------
TypeOK == /\ word   \in Words
          /\ pc     \in [Threads -> Locations]
          /\ op     \in [Threads -> Ops]
          /\ seen   \in [Threads -> Words]
          /\ result \in [Threads -> Results]
          /\ calls  \in [Threads -> 0..MaxCalls]

(* The word says RUNNING exactly while one thread runs an initializer, so  *)
(* two initializers never overlap and a RUNNING Once always has a thread   *)
(* that will end it.                                                       *)
RunningMatchesWord ==
    /\ word.state = RUNNING <=> At({"running"}) # {}
    /\ \A t, u \in At({"running"}) : t = u

(* A call that returned for a completed Once was right, and stays right:   *)
(* the data that the initializer wrote may be used from then on.           *)
ReturnsInitialized == \A t \in Threads : result[t] = "done" => word.state = COMPLETE

(* No thread sleeps unless the next swap of the word will see QUEUED, or   *)
(* a thread is about to wake all the sleeping ones.                        *)
SleepersAreCovered == At({"asleep"}) # {} => word.queued \/ At({"wake"}) # {}

(* The unreachable!() of state(): with no thread in a call, the word has   *)
(* neither QUEUED nor RUNNING in it, whoever came and panicked or left.    *)
ExclusiveStateValid ==
    At({"idle"}) = Threads => ~word.queued /\ word.state # RUNNING

(* call returns, whatever the initializers of other threads do. And every  *)
(* thread in a call learns how the initializer ended: it returns from a    *)
(* completed Once, even if it slept while that was incomplete or poisoned, *)
(* and without ignore_poisoning it is woken to see a failure.              *)
OutcomeReachesWaiters == \A t \in Threads :
    /\ pc[t] # "idle" /\ op[t].fn = "call" ~> pc[t] = "idle"
    /\ pc[t] # "idle" /\ word.state = COMPLETE ~> pc[t] = "idle"
    /\ pc[t] = "asleep" /\ word.state = POISONED /\ ~op[t].ignore ~> pc[t] # "asleep"

(* "No initialization has run yet, and no thread is currently using the    *)
(* Once" (INCOMPLETE) and "there are no other threads currently accessing  *)
(* this Once" (POISONED): then no thread is asleep on it.                  *)
IdleStatesAreUnused ==
    word.state \in {INCOMPLETE, POISONED} => At({"asleep"}) = {}

(* The futex Once implements the abstract one.                             *)
Status == CASE word.state = COMPLETE -> "complete" [] word.state = RUNNING -> "running"
            [] word.state = POISONED -> "poisoned" [] OTHER -> "incomplete"

Abstract == INSTANCE Once WITH status <- Status, runner <- At({"running"})

ImplementsOnce == Abstract!Spec
=============================================================================
