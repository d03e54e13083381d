------------------------------ MODULE OnceCells ------------------------------
(***************************************************************************)
(* LazyLock and OnceLock, std/src/sync/lazy_lock.rs and once_lock.rs, on   *)
(* top of the futex Once, and the bare Once beside them. Neither keeps a   *)
(* flag of its own: the state of the Once says what the cell holds, the    *)
(* closure f (LazyLock only), the value, or nothing. The cell is a plain   *)
(* UnsafeCell; each access to it is an action of its own.                  *)
(***************************************************************************)
EXTENDS FutexOnce

VARIABLES kind,      \* which of the three types this is
          cell,      \* what is initialized in it, of {"f", "value"}
          at,        \* where each thread is in a method of the cell
          ran,       \* how often LazyLock has taken f out of the cell
          gone       \* the cell was dropped, or consumed by into_inner

cellVars == <<kind, cell, at, ran, gone>>
allVars  == <<vars, cellVars>>

Kinds == {"Once", "LazyLock", "OnceLock"}

(***************************************************************************)
(* out    in its own code          in     in call or wait of the Once      *)
(* taken  in the closure, f runs   wrote  in the closure, value stored     *)
(* read   the call has returned, about to use the value                    *)
(***************************************************************************)
CellInit == /\ Init
            /\ kind \in Kinds
            /\ cell = IF kind = "LazyLock" THEN {"f"} ELSE {}
            /\ at = [t \in Threads |-> "out"]
            /\ ran = 0 /\ gone = FALSE

GoTo(t, loc) == at' = [at EXCEPT ![t] = loc]

(* force and initialize use call_once_force, OnceLock::wait wait_force.    *)
OpsOf(k) == {o \in Ops : /\ k # "Once" => o.ignore
                         /\ k = "LazyLock" => o.fn = "call"}

(* force, get_or_try_init and wait. The get() that get_or_try_init makes   *)
(* first leaves no trace when it finds nothing; otherwise it is Get.       *)
CellCall(t) ==
    /\ at[t] = "out" /\ ~gone
    /\ \E o \in OpsOf(kind) : Enter(t, o)
    /\ GoTo(t, "in")
    /\ UNCHANGED <<kind, cell, ran, gone>>

(* get: is_completed(), a load of the word, then the value.                *)
Get(t) ==
    /\ at[t] = "out" /\ ~gone /\ kind # "Once"
    /\ word.state = COMPLETE
    /\ GoTo(t, "read")
    /\ UNCHANGED <<vars, kind, cell, ran, gone>>

(* A call that has returned uses the value, unless it panicked or failed.  *)
Continue(t) ==
    GoTo(t, IF pc'[t] # "idle" THEN "in"
            ELSE IF kind # "Once" /\ result'[t] = "done" THEN "read" ELSE "out")

InOnce(t) ==
    /\ at[t] = "in"
    /\ \/ ReturnComplete(t) \/ PanicPoisoned(t) \/ StartRunning(t)
       \/ MarkQueued(t) \/ FutexWait(t) \/ Reload(t) \/ WakeAll(t)
    /\ Continue(t)
    /\ UNCHANGED <<kind, cell, ran, gone>>

\* Mutant of RunClosure: force does not look at OnceState::is_poisoned.
RunClosureUnchecked(t) ==
    /\ at[t] = "in" /\ pc[t] = "running"
    /\ cell' = cell \ {"f"}
    /\ ran' = IF kind = "LazyLock" THEN ran + 1 ELSE ran
    /\ GoTo(t, "taken")
    /\ UNCHANGED <<vars, kind, gone>>

(* The closure starts: force panics when the Once was poisoned, and takes  *)
(* f out of the cell otherwise.                                            *)
is_poisoned(t) == seen[t].state = POISONED

RunClosure(t) ==
    /\ at[t] = "in" /\ pc[t] = "running"
    /\ kind = "LazyLock" => ~is_poisoned(t)
    /\ cell' = cell \ {"f"}
    /\ ran' = IF kind = "LazyLock" THEN ran + 1 ELSE ran
    /\ GoTo(t, "taken")
    /\ UNCHANGED <<vars, kind, gone>>

StoreValue(t) ==
    /\ at[t] = "taken" /\ kind # "Once"
    /\ cell' = cell \cup {"value"}
    /\ GoTo(t, "wrote")
    /\ UNCHANGED <<vars, kind, ran, gone>>

(* How the closure can end: with a panic (for force also at once, if the   *)
(* Once was poisoned), or with poison() where OnceLock's f returned Err,   *)
(* unless the value is stored already.                                     *)
EndsOf(t) ==
    {r \in Results \ {"none"} :
       IF kind = "Once" THEN at[t] = "taken"
       ELSE \/ r = "done"     /\ at[t] = "wrote"
            \/ r = "panicked" /\ at[t] = "taken"
            \/ r = "panicked" /\ at[t] = "in" /\ kind = "LazyLock" /\ is_poisoned(t)
            \/ r = "poisoned" /\ at[t] = "taken" /\ kind = "OnceLock"}

EndClosure(t) ==
    /\ pc[t] = "running" /\ Finish(t)
    /\ result'[t] \in EndsOf(t)
    /\ Continue(t)
    /\ UNCHANGED <<kind, cell, ran, gone>>

UseValue(t) ==
    /\ at[t] = "read"
    /\ GoTo(t, "out")
    /\ UNCHANGED <<vars, kind, cell, ran, gone>>

-----------------------------------------------------------------------------
(* A mutable reference: no thread is in a method.                          *)
Exclusive == ~gone /\ \A t \in Threads : at[t] = "out"

(* really_init_mut: takes f and runs it; stores the value and completes    *)
(* the Once, or poisons it on the way out of a panic.                      *)
ForceMut ==
    /\ Exclusive /\ kind = "LazyLock" /\ SetStateMut
    /\ cell' = (cell \ {"f"}) \cup (IF word'.state = COMPLETE THEN {"value"} ELSE {})
    /\ ran' = ran + 1
    /\ UNCHANGED <<kind, at, gone>>

(* What the code takes the cell to hold when the Once is in state s.       *)
HoldsIn(s) == IF kind # "Once" /\ s = COMPLETE THEN {"value"}
              ELSE IF kind = "LazyLock" /\ s = INCOMPLETE THEN {"f"} ELSE {}

(* into_inner, and the drop of the cell: what state() says is moved out,   *)
(* and nothing else. (OnceLock::take leaves a new cell behind, which is    *)
(* the initial state.)                                                     *)
Consume ==
    /\ Exclusive
    /\ cell' = cell \ HoldsIn(word.state)
    /\ gone' = TRUE
    /\ UNCHANGED <<vars, kind, at, ran>>

Spurious(t) == SpuriousWakeup(t) /\ UNCHANGED cellVars

-----------------------------------------------------------------------------
CellProgress(t) == \/ InOnce(t) \/ RunClosure(t) \/ StoreValue(t)
                   \/ EndClosure(t) \/ UseValue(t)

(* The cell is gone, or all its calls are made.                            *)
AllReturned == /\ \A t \in Threads : at[t] = "out"
               /\ gone \/ \A t \in Threads : calls[t] = MaxCalls
               /\ UNCHANGED allVars

CellNext == \/ \E t \in Threads : \/ CellCall(t) \/ Get(t) \/ CellProgress(t)
                                  \/ Spurious(t)
            \/ ForceMut \/ Consume \/ AllReturned

CellSpec == CellInit /\ [][CellNext]_allVars

FairCellSpec == CellSpec /\ \A t \in Threads : WF_allVars(CellProgress(t))

-----------------------------------------------------------------------------
(* "We use the state of a Once as discriminant value" (LazyLock): through  *)
(* a mutable reference the cell holds what state() says, so that drop and  *)
(* into_inner leak nothing and free nothing twice; a thread that was let   *)
(* through, by get or by a call, finds the value; and f runs "once, ever". *)
CellMatchesOnce ==
    /\ Exclusive => cell = HoldsIn(word.state)
    /\ \A t \in Threads : at[t] = "read" => cell = {"value"}
    /\ gone => cell = {}
    /\ ran <= 1
=============================================================================
