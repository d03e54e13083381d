----------------------------- MODULE FutexParker -----------------------------
(***************************************************************************)
(* The futex Parker, std/src/sys/sync/thread_parking/futex.rs: what        *)
(* thread::park, thread::park_timeout and Thread::unpark come down to. One *)
(* word per thread, EMPTY, NOTIFIED or PARKED; only the thread that owns   *)
(* the Parker parks, any thread unparks it.                                *)
(***************************************************************************)
EXTENDS Naturals

CONSTANTS Unparkers,    \* the threads that call unpark
          MaxParks,     \* how often the owner calls park or park_timeout
          MaxUnparks,   \* how often each unparker calls unpark
          StateMAX      \* State::MAX, the largest value of the word

ASSUME ConstantsAssumption == /\ MaxParks \in Nat /\ MaxUnparks \in Nat
                              /\ StateMAX \in Nat /\ StateMAX > 1

VARIABLES state,        \* the word
          pc,           \* where the owner is
          timed,        \* whether its call is park_timeout
          wakers,       \* the unparkers that are about to call futex_wake
          parks,        \* calls made so far by the owner
          unparks       \* and by the unparkers

vars == <<state, pc, timed, wakers, parks, unparks>>

PARKED   == StateMAX
EMPTY    == 0
NOTIFIED == 1

(* idle outside park, wait about to futex_wait, asleep blocked in it,      *)
(* woken back from it.                                                     *)
Locations == {"idle", "wait", "asleep", "woken"}

Init == /\ state = EMPTY
        /\ pc = "idle" /\ timed = FALSE
        /\ wakers = {}
        /\ parks = 0 /\ unparks = [u \in Unparkers |-> 0]

-----------------------------------------------------------------------------
(* fetch_sub(1): NOTIFIED => EMPTY and return, or EMPTY => PARKED, which   *)
(* is how the subtraction wraps around.                                    *)
Park(with_timeout) ==
    /\ pc = "idle" /\ parks < MaxParks
    /\ parks' = parks + 1
    /\ state' = (state + StateMAX) % (StateMAX + 1)
    /\ IF state = NOTIFIED THEN UNCHANGED <<pc, timed>>
                           ELSE pc' = "wait" /\ timed' = with_timeout
    /\ UNCHANGED <<wakers, unparks>>

\* Mutant of FutexWait: sleeps without comparing the word.
FutexWaitBlindly ==
    /\ pc = "wait" /\ pc' = "asleep"
    /\ UNCHANGED <<state, timed, wakers, parks, unparks>>

(* futex_wait(&self.state, PARKED, timeout)                                *)
FutexWait ==
    /\ pc = "wait"
    /\ pc' = IF state = PARKED THEN "asleep" ELSE "woken"
    /\ UNCHANGED <<state, timed, wakers, parks, unparks>>

(* A signal, on the platforms whose futex_wait does not retry, or a late   *)
(* futex_wake meant for an earlier user of the address.                    *)
SpuriousWakeup ==
    /\ pc = "asleep" /\ pc' = "woken"
    /\ UNCHANGED <<state, timed, wakers, parks, unparks>>

Timeout ==
    /\ pc = "asleep" /\ timed /\ pc' = "woken"
    /\ UNCHANGED <<state, timed, wakers, parks, unparks>>

(* compare_exchange(NOTIFIED, EMPTY) of park: return, or sleep again.      *)
CheckToken ==
    /\ pc = "woken" /\ ~timed
    /\ \/ state = NOTIFIED /\ state' = EMPTY /\ pc' = "idle"
       \/ state # NOTIFIED /\ state' = state /\ pc' = "wait"
    /\ UNCHANGED <<timed, wakers, parks, unparks>>

\* Mutant of SwapEmpty: only a token is taken back, as in park.
SwapEmptyIfNotified ==
    /\ pc = "woken" /\ timed
    /\ state' = IF state = NOTIFIED THEN EMPTY ELSE state
    /\ pc' = "idle" /\ timed' = FALSE
    /\ UNCHANGED <<wakers, parks, unparks>>

(* swap(EMPTY) of park_timeout, which returns in any case.                 *)
SwapEmpty ==
    /\ pc = "woken" /\ timed
    /\ state' = EMPTY /\ pc' = "idle" /\ timed' = FALSE
    /\ UNCHANGED <<wakers, parks, unparks>>

\* Mutant of Unpark: wakes a parked thread without leaving it the token.
UnparkWithoutToken(u) ==
    /\ u \notin wakers /\ unparks[u] < MaxUnparks
    /\ unparks' = [unparks EXCEPT ![u] = @ + 1]
    /\ state' = IF state = PARKED THEN state ELSE NOTIFIED
    /\ wakers' = IF state = PARKED THEN wakers \cup {u} ELSE wakers
    /\ UNCHANGED <<pc, timed, parks>>

(* swap(NOTIFIED); futex_wake follows if the owner was PARKED.             *)
Unpark(u) ==
    /\ u \notin wakers /\ unparks[u] < MaxUnparks
    /\ unparks' = [unparks EXCEPT ![u] = @ + 1]
    /\ state' = NOTIFIED
    /\ wakers' = IF state = PARKED THEN wakers \cup {u} ELSE wakers
    /\ UNCHANGED <<pc, timed, parks>>

FutexWake(u) ==
    /\ u \in wakers /\ wakers' = wakers \ {u}
    /\ pc' = IF pc = "asleep" THEN "woken" ELSE pc
    /\ UNCHANGED <<state, timed, parks, unparks>>

-----------------------------------------------------------------------------
OwnerStep == FutexWait \/ Timeout \/ CheckToken \/ SwapEmpty

(* The owner may be left parked when nobody calls unpark any more.         *)
Finished == /\ pc = "idle" /\ parks = MaxParks
            /\ \A u \in Unparkers : unparks[u] = MaxUnparks
            /\ wakers = {}
            /\ UNCHANGED vars

Next == \/ \E b \in BOOLEAN : Park(b)
        \/ OwnerStep \/ SpuriousWakeup
        \/ \E u \in Unparkers : Unpark(u) \/ FutexWake(u)
        \/ Finished

Spec == Init /\ [][Next]_vars

(* The owner is scheduled, its timeout expires, and an unparker goes on    *)
(* from the swap to the futex_wake; nobody has to call unpark.             *)
-----------------------------------------------------------------------------
TypeOK == /\ state \in {EMPTY, NOTIFIED, PARKED}
          /\ pc \in Locations /\ timed \in BOOLEAN
          /\ wakers \subseteq Unparkers
          /\ parks \in 0..MaxParks
          /\ unparks \in [Unparkers -> 0..MaxUnparks]

(* park assumes that it "is only called by the thread that owns the        *)
(* Parker, which means that self.state != PARKED"; were the word PARKED    *)
(* the subtraction would make it a value nobody understands. While the     *)
(* owner is in the call, the word is never EMPTY.                          *)
ParkedOnlyInside == /\ pc = "idle" => state # PARKED
                    /\ pc # "idle" => state # EMPTY

(* The owner sleeps only while the word is PARKED, so that the next unpark *)
(* wakes it, or while an unparker is about to.                             *)
SleeperIsCovered == pc = "asleep" => state = PARKED \/ wakers # {}

(* The futex Parker implements the token.                                  *)
Owner == IF pc = "idle" THEN "running" ELSE IF timed THEN "timed" ELSE "parked"

Abstract == INSTANCE ParkToken WITH token <- state = NOTIFIED, owner <- Owner

ImplementsParkToken == Abstract!Spec
=============================================================================
