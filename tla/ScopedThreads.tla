--------------------------- MODULE ScopedThreads ----------------------------
(***************************************************************************)
(* thread::scope, std/src/thread/scoped.rs, with the life of a spawned     *)
(* thread, lifecycle.rs. The main thread runs f, which spawns threads,     *)
(* joins them or drops their handles; then it waits until the count of     *)
(* running threads is zero, parking (FutexParker) in between. A thread and *)
(* its handle share a packet with the result; whoever lets go of the       *)
(* packet last drops the result, and then counts the thread as finished.   *)
(***************************************************************************)
EXTENDS FutexParker, FiniteSets

CONSTANTS Scoped,        \* the threads that may be spawned in the scope
          Main,          \* the thread that calls scope
          MaxUserParks   \* calls of park_timeout made by f

ASSUME ScopeAssumption == /\ Main \notin Scoped /\ IsFiniteSet(Scoped)
                          /\ Unparkers = Scoped \cup {Main}
                          /\ MaxUserParks \in Nat

VARIABLES main,                  \* where the main thread is, "parking" included
          f_panicked,            \* whether f has panicked
          num_running_threads,   \* ScopeData
          a_thread_panicked,
          thread,                \* where each thread is
          spawner,               \* who spawned it and has its handle
          holders,               \* who holds its packet: "my" and "their"
          result,                \* the result in the packet
          drop,                  \* how far the drop of the packet is
          dropper,               \* and who drops it
          outcome,               \* how the thread ended
          joined                 \* the threads whose result was taken by join

dataVars   == <<f_panicked, num_running_threads, a_thread_panicked>>
packetVars == <<holders, result, drop, dropper>>
scopeVars  == <<main, dataVars, thread, spawner, packetVars, outcome, joined>>
allVars    == <<vars, scopeVars>>

ScopeInit ==
    /\ Init
    /\ main = "f" /\ f_panicked = FALSE
    /\ num_running_threads = 0 /\ a_thread_panicked = FALSE
    /\ thread  = [t \in Scoped |-> "unborn"]
    /\ spawner = [t \in Scoped |-> Main]
    /\ holders = [t \in Scoped |-> {}]
    /\ result  = [t \in Scoped |-> "none"]
    /\ drop    = [t \in Scoped |-> "no"]
    /\ dropper = [t \in Scoped |-> Main]
    /\ outcome = [t \in Scoped |-> "none"]
    /\ joined  = {}

(* What a thread is busy with besides its own code: a spawn, the drop of a *)
(* packet, a futex_wake.                                                   *)
Busy(p) == \/ p \in wakers
           \/ \E t \in Scoped : \/ thread[t] = "starting" /\ spawner[t] = p
                                \/ drop[t] \notin {"no", "done"} /\ dropper[t] = p

(* p runs the code of f, or the closure of its thread.                     *)
InUserCode(p) == /\ ~Busy(p)
                 /\ IF p = Main THEN main = "f" /\ pc = "idle" ELSE thread[p] = "run"

HasHandle(p, t) == spawner[t] = p /\ thread[t] \notin {"unborn", "starting"} /\ "my" \in holders[t]

-----------------------------------------------------------------------------
(* spawn_unchecked counts the thread before it exists; a thread may spawn  *)
(* another one into the scope.                                             *)
Spawn(p, t) ==
    /\ InUserCode(p) /\ thread[t] = "unborn" /\ p # t
    /\ num_running_threads' = num_running_threads + 1
    /\ thread'  = [thread EXCEPT ![t] = "starting"]
    /\ spawner' = [spawner EXCEPT ![t] = p]
    /\ holders' = [holders EXCEPT ![t] = {"my", "their"}]
    /\ UNCHANGED <<vars, main, f_panicked, a_thread_panicked, result, drop, dropper, outcome, joined>>

(* h lets go of the packet of t; p runs the drop if it was the last.       *)
LetGo(p, t, h) ==
    /\ holders' = [holders EXCEPT ![t] = @ \ h]
    /\ drop'    = [drop EXCEPT ![t] = IF holders[t] \subseteq h THEN "result" ELSE @]
    /\ dropper' = [dropper EXCEPT ![t] = IF holders[t] \subseteq h THEN p ELSE @]

NativeStart(t) ==
    /\ thread[t] = "starting" /\ thread' = [thread EXCEPT ![t] = "run"]
    /\ UNCHANGED <<vars, main, dataVars, spawner, packetVars, outcome, joined>>

(* The system creates no thread: the closure is dropped, then the packet.  *)
NativeFail(t) ==
    /\ thread[t] = "starting" /\ thread' = [thread EXCEPT ![t] = "exited"]
    /\ LetGo(spawner[t], t, {"my", "their"})
    /\ UNCHANGED <<vars, main, dataVars, spawner, result, outcome, joined>>

\* Mutant of Finish: a panic leaves the packet without a result.
FinishIfReturned(t, r) ==
    /\ t # Main /\ InUserCode(t) /\ \A u \in Scoped : ~HasHandle(t, u)
    /\ result'  = [result EXCEPT ![t] = IF r = "ok" THEN r ELSE @]
    /\ outcome' = [outcome EXCEPT ![t] = r]
    /\ thread'  = [thread EXCEPT ![t] = "finishing"]
    /\ UNCHANGED <<vars, main, dataVars, spawner, holders, drop, dropper, joined>>

(* The closure returns or panics. Its handles have been dropped by then.   *)
Finish(t, r) ==
    /\ t # Main /\ InUserCode(t) /\ \A u \in Scoped : ~HasHandle(t, u)
    /\ result'  = [result EXCEPT ![t] = r]
    /\ outcome' = [outcome EXCEPT ![t] = r]
    /\ thread'  = [thread EXCEPT ![t] = "finishing"]
    /\ UNCHANGED <<vars, main, dataVars, spawner, holders, drop, dropper, joined>>

DropTheirPacket(t) ==
    /\ thread[t] = "finishing" /\ thread' = [thread EXCEPT ![t] = "ending"]
    /\ LetGo(t, t, {"their"})
    /\ UNCHANGED <<vars, main, dataVars, spawner, result, outcome, joined>>

Exit(t) ==
    /\ thread[t] = "ending" /\ ~Busy(t)
    /\ thread' = [thread EXCEPT ![t] = "exited"]
    /\ UNCHANGED <<vars, main, dataVars, spawner, packetVars, outcome, joined>>

(* JoinInner::join, when the system's join has returned: the result is     *)
(* taken, and the handle dropped.                                          *)
Join(p, t) ==
    /\ InUserCode(p) /\ HasHandle(p, t) /\ thread[t] = "exited"
    /\ joined' = joined \cup {t}
    /\ result' = [result EXCEPT ![t] = "none"]
    /\ LetGo(p, t, {"my"})
    /\ UNCHANGED <<vars, main, dataVars, thread, spawner, outcome>>

DropHandle(p, t) ==
    /\ InUserCode(p) /\ HasHandle(p, t)
    /\ LetGo(p, t, {"my"})
    /\ UNCHANGED <<vars, main, dataVars, thread, spawner, result, outcome, joined>>

-----------------------------------------------------------------------------
\* Mutant of DropResult: looks for the panic after the result is gone.
DropResultFirst(t) ==
    /\ drop[t] = "result"
    /\ result' = [result EXCEPT ![t] = "none"]
    /\ drop'   = [drop EXCEPT ![t] = IF result'[t] = "panic" THEN "panic" ELSE "sub"]
    /\ UNCHANGED <<vars, main, dataVars, thread, spawner, holders, dropper, outcome, joined>>

(* Packet::drop: the result, which may still borrow from the scope, then   *)
(* decrement_num_running_threads.                                          *)
DropResult(t) ==
    /\ drop[t] = "result"
    /\ result' = [result EXCEPT ![t] = "none"]
    /\ drop'   = [drop EXCEPT ![t] = IF result[t] = "panic" THEN "panic" ELSE "sub"]
    /\ UNCHANGED <<vars, main, dataVars, thread, spawner, holders, dropper, outcome, joined>>

StorePanicked(t) ==
    /\ drop[t] = "panic" /\ drop' = [drop EXCEPT ![t] = "sub"]
    /\ a_thread_panicked' = TRUE
    /\ UNCHANGED <<vars, main, f_panicked, num_running_threads, thread, spawner, holders,
                   result, dropper, outcome, joined>>

\* Mutant of Decrement: takes the old value for the new one.
DecrementOld(t) ==
    /\ drop[t] = "sub"
    /\ num_running_threads' = num_running_threads - 1
    /\ drop' = [drop EXCEPT ![t] = IF num_running_threads = 0 THEN "unpark" ELSE "done"]
    /\ UNCHANGED <<vars, main, f_panicked, a_thread_panicked, thread, spawner, holders,
                   result, dropper, outcome, joined>>

Decrement(t) ==
    /\ drop[t] = "sub"
    /\ num_running_threads' = num_running_threads - 1
    /\ drop' = [drop EXCEPT ![t] = IF num_running_threads = 1 THEN "unpark" ELSE "done"]
    /\ UNCHANGED <<vars, main, f_panicked, a_thread_panicked, thread, spawner, holders,
                   result, dropper, outcome, joined>>

(* The main thread may be past the scope by now, or be the one that does   *)
(* this.                                                                   *)
UnparkMain(t) ==
    /\ drop[t] = "unpark" /\ drop' = [drop EXCEPT ![t] = "done"]
    /\ Unpark(dropper[t])
    /\ UNCHANGED <<main, dataVars, thread, spawner, holders, result, dropper, outcome, joined>>

WakeMain(p) == FutexWake(p) /\ UNCHANGED scopeVars

-----------------------------------------------------------------------------
(* The code of the user parks and unparks the main thread for its own      *)
(* purposes.                                                               *)
UserPark == /\ InUserCode(Main) /\ parks < MaxUserParks
            /\ Park(TRUE) /\ UNCHANGED scopeVars

UserUnpark(t) == /\ InUserCode(t) /\ unparks[t] + Cardinality(Scoped) < MaxUnparks
                 /\ Unpark(t) /\ UNCHANGED scopeVars

(* A thread that parks goes on with the steps of the Parker.               *)
ParkStep == OwnerStep /\ UNCHANGED scopeVars

Spurious == SpuriousWakeup /\ UNCHANGED scopeVars

(* f returns or panics.                                                    *)
EndOfF(panics) ==
    /\ InUserCode(Main) /\ \A t \in Scoped : ~HasHandle(Main, t)
    /\ main' = "load" /\ f_panicked' = panics
    /\ UNCHANGED <<vars, num_running_threads, a_thread_panicked, thread, spawner, packetVars,
                   outcome, joined>>

(* while num_running_threads != 0 { park }                                 *)
LoadRunning ==
    /\ main = "load" /\ pc = "idle"
    /\ main' = IF num_running_threads = 0 THEN "match" ELSE "park"
    /\ UNCHANGED <<vars, dataVars, thread, spawner, packetVars, outcome, joined>>

\* Mutant of ScopePark: parks once, and does not look again.
ScopeParkOnce ==
    /\ main = "park" /\ main' = "match"
    /\ Park(FALSE)
    /\ UNCHANGED <<dataVars, thread, spawner, packetVars, outcome, joined>>

ScopePark ==
    /\ main = "park" /\ main' = "load"
    /\ Park(FALSE)
    /\ UNCHANGED <<dataVars, thread, spawner, packetVars, outcome, joined>>

MatchResult ==
    /\ main = "match" /\ pc = "idle"
    /\ main' = IF f_panicked \/ a_thread_panicked THEN "panicked" ELSE "returned"
    /\ UNCHANGED <<vars, dataVars, thread, spawner, packetVars, outcome, joined>>

-----------------------------------------------------------------------------
(* What happens without the user's doing.                                  *)
SystemStep(t) == \/ NativeStart(t) \/ NativeFail(t) \/ DropTheirPacket(t) \/ Exit(t)
                 \/ DropResult(t) \/ StorePanicked(t) \/ Decrement(t) \/ UnparkMain(t)

(* What a closure does; all closures end.                                  *)
UserStep(t) == \/ \E r \in {"ok", "panic"} : Finish(t, r)
               \/ UserUnpark(t)
               \/ \E u \in Scoped : Spawn(t, u) \/ Join(t, u) \/ DropHandle(t, u)

MainUserStep == \/ UserPark
                \/ \E panics \in BOOLEAN : EndOfF(panics)
                \/ \E t \in Scoped : Spawn(Main, t) \/ Join(Main, t) \/ DropHandle(Main, t)

MainStep == ParkStep \/ LoadRunning \/ ScopePark \/ MatchResult

Done == /\ main \in {"returned", "panicked"} /\ wakers = {}
        /\ \A t \in Scoped : thread[t] \in {"unborn", "exited"} /\ drop[t] \in {"no", "done"}
        /\ UNCHANGED allVars

ScopeNext == \/ \E t \in Scoped : SystemStep(t) \/ UserStep(t)
             \/ \E p \in Unparkers : WakeMain(p)
             \/ MainUserStep \/ MainStep \/ Spurious
             \/ Done

ScopeSpec == ScopeInit /\ [][ScopeNext]_allVars

FairScopeSpec == /\ ScopeSpec
                 /\ WF_allVars(MainStep)
                 /\ \A t \in Scoped : WF_allVars(SystemStep(t)) /\ WF_allVars(UserStep(t))
                 /\ \A p \in Unparkers : WF_allVars(WakeMain(p))

-----------------------------------------------------------------------------
(* When scope has seen the count at zero, no thread runs code that borrows *)
(* from the scope, and no result of one is left to be dropped: this is     *)
(* what makes scoped threads sound.                                        *)
ScopeOutlivesThreads ==
    main \in {"match", "returned", "panicked"} /\ pc = "idle" =>
       \A t \in Scoped : thread[t] \notin {"starting", "run"} /\ result[t] = "none"

(* scope returns normally only if every panic of a thread was taken by a   *)
(* join.                                                                   *)
PanicsSurface ==
    main = "returned" => \A t \in Scoped : outcome[t] = "panic" => t \in joined

(* The expect and the unwrap of join: when the system's join returns, the  *)
(* handle has the packet alone and the result is in it.                    *)
JoinFindsResult ==
    \A t \in Scoped : thread[t] = "exited" /\ "my" \in holders[t] =>
                         holders[t] = {"my"} /\ result[t] # "none"

(* The outcome of a thread reaches the join that waits for it or the       *)
(* scope, never nobody.                                                    *)
ResultsSurface == PanicsSurface /\ JoinFindsResult

(* scope returns once f has, whatever tokens the user's own parking leaves *)
(* behind, and although the last thread counts itself out before it        *)
(* unparks the main thread.                                                *)
ScopeReturns == main = "load" ~> main \in {"returned", "panicked"}
=============================================================================
