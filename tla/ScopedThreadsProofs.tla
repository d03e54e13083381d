------------------------ MODULE ScopedThreadsProofs -------------------------
(***************************************************************************)
(* Proofs about the futex Parker, for any number of unparkers, any number  *)
(* of calls and any width of the word. The inductive invariant is the      *)
(* conjunction of the three invariants that the run checks: without        *)
(* ParkedOnlyInside the subtraction in park could leave a value that is    *)
(* none of the three, and a sleeper could be facing an EMPTY word, on      *)
(* which no unpark calls futex_wake.                                       *)
(*                                                                         *)
(* Proofs about thread::scope, for any finite set of scoped threads and    *)
(* any number of calls. A scope drives the Parker of its main thread, so   *)
(* that what is shown of the Parker here holds in the scope too.           *)
(* The count of running threads is the number of threads that have been    *)
(* spawned and whose packet has not been dropped as far as the decrement;  *)
(* who holds the packet, and what is in it, follows the life of the        *)
(* thread; and while the main thread parks in vain, somebody is on the way *)
(* to unpark it.                                                           *)
(***************************************************************************)
EXTENDS ScopedThreads, TLAPS, FiniteSetTheorems

(* The inductive invariant.                                                *)
IInv == TypeOK /\ ParkedOnlyInside /\ SleeperIsCovered

(* How the fetch_sub of park changes the word.                             *)
LEMMA FetchSub == /\ (EMPTY + StateMAX) % (StateMAX + 1) = PARKED
                  /\ (NOTIFIED + StateMAX) % (StateMAX + 1) = EMPTY
  BY ConstantsAssumption DEF EMPTY, NOTIFIED, PARKED

(* The three values of the word are different.                             *)
LEMMA ValuesDiffer == EMPTY # NOTIFIED /\ EMPTY # PARKED /\ NOTIFIED # PARKED
  BY ConstantsAssumption DEF EMPTY, NOTIFIED, PARKED

(* The Parker starts EMPTY, its owner outside park.                        *)
LEMMA InitIInv == Init => IInv
<1> SUFFICES ASSUME Init PROVE IInv
  OBVIOUS
<1>1. parks \in 0..MaxParks /\ unparks \in [Unparkers -> 0..MaxUnparks]
  BY ConstantsAssumption DEF Init
<1>2. TypeOK
  BY <1>1, Zenon DEF Init, TypeOK, Locations
<1>. QED
  BY <1>2, ValuesDiffer DEF Init, IInv, ParkedOnlyInside, SleeperIsCovered

(* Every action preserves the invariant. In Park the word is EMPTY or      *)
(* NOTIFIED, by ParkedOnlyInside; FutexWait only sleeps on PARKED; an      *)
(* Unpark that takes PARKED away is about to wake.                         *)
LEMMA NextIInv == IInv /\ [Next]_vars => IInv'
<1> SUFFICES ASSUME IInv, [Next]_vars PROVE IInv'
  OBVIOUS
<1> USE ConstantsAssumption, ValuesDiffer
    DEF IInv, TypeOK, ParkedOnlyInside, SleeperIsCovered, Locations
<1>1. ASSUME NEW b \in BOOLEAN, Park(b) PROVE IInv'
  <2>1. (state = EMPTY /\ state' = PARKED) \/ (state = NOTIFIED /\ state' = EMPTY)
    BY <1>1, FetchSub DEF Park
  <2>. QED
    BY <1>1, <2>1 DEF Park
<1>2. CASE FutexWait BY <1>2 DEF FutexWait
<1>3. CASE Timeout \/ SpuriousWakeup BY <1>3 DEF Timeout, SpuriousWakeup
<1>4. CASE CheckToken BY <1>4 DEF CheckToken
<1>5. CASE SwapEmpty BY <1>5 DEF SwapEmpty
<1>6. ASSUME NEW u \in Unparkers, Unpark(u) PROVE IInv'
  BY <1>6 DEF Unpark
<1>7. ASSUME NEW u \in Unparkers, FutexWake(u) PROVE IInv'
  BY <1>7 DEF FutexWake
<1>8. CASE UNCHANGED vars BY <1>8 DEF vars
<1>. QED
  BY <1>1, <1>2, <1>3, <1>4, <1>5, <1>6, <1>7, <1>8 DEF Next, OwnerStep, Finished

(* IInv is an invariant of the Parker.                                     *)
THEOREM Invariance == Spec => []IInv
  BY InitIInv, NextIInv, PTL DEF Spec

(* The word always is one of the three values, so the subtraction never    *)
(* wraps around from PARKED.                                               *)
THEOREM TypeCorrect == Spec => []TypeOK
  BY Invariance, PTL DEF IInv

(* The word tells whether the owner is inside park.                        *)
THEOREM WordTellsOwner == Spec => []ParkedOnlyInside
  BY Invariance, PTL DEF IInv

(* No owner sleeps beyond the reach of the next, or of a pending, unpark.  *)
THEOREM NoLostUnpark == Spec => []SleeperIsCovered
  BY Invariance, PTL DEF IInv

(* Every behaviour of the futex Parker is one of the park token.           *)
THEOREM Refinement == Spec => ImplementsParkToken
<1>1. Init => Abstract!Init
  BY ValuesDiffer DEF Init, Abstract!Init, Owner
<1>2. IInv /\ [Next]_vars => [Abstract!Next]_(Abstract!vars)
  <2> SUFFICES ASSUME IInv, [Next]_vars PROVE Abstract!Next \/ UNCHANGED Abstract!vars
    OBVIOUS
  <2> USE ValuesDiffer
      DEF IInv, TypeOK, ParkedOnlyInside, Locations, Owner, Abstract!vars
  <2>1. ASSUME NEW b \in BOOLEAN, Park(b) PROVE Abstract!Next
    <3>1. (state = EMPTY /\ state' = PARKED) \/ (state = NOTIFIED /\ state' = EMPTY)
      BY <2>1, FetchSub DEF Park
    <3>2. CASE state = NOTIFIED
      BY <2>1, <3>1, <3>2 DEF Park, Abstract!Next, Abstract!TakeToken
    <3>3. CASE state = EMPTY
      BY <2>1, <3>1, <3>3 DEF Park, Abstract!Next, Abstract!Park
    <3>. QED
      BY <3>1, <3>2, <3>3
  <2>2. CASE FutexWait \/ Timeout \/ SpuriousWakeup
    BY <2>2 DEF FutexWait, Timeout, SpuriousWakeup
  <2>3. CASE CheckToken
    BY <2>3 DEF CheckToken, Abstract!Next, Abstract!Return
  <2>4. CASE SwapEmpty
    BY <2>4 DEF SwapEmpty, Abstract!Next, Abstract!Return
  <2>5. ASSUME NEW u \in Unparkers, Unpark(u) PROVE Abstract!Next
    BY <2>5 DEF Unpark, Abstract!Next, Abstract!Unpark
  <2>6. ASSUME NEW u \in Unparkers, FutexWake(u) PROVE UNCHANGED Abstract!vars
    BY <2>6 DEF FutexWake
  <2>7. CASE UNCHANGED vars
    BY <2>7 DEF vars
  <2>. QED
    BY <2>1, <2>2, <2>3, <2>4, <2>5, <2>6, <2>7 DEF Next, OwnerStep, Finished
<1>. QED
  BY <1>1, <1>2, Invariance, PTL DEF Spec, ImplementsParkToken, Abstract!Spec

-----------------------------------------------------------------------------
ScopeTypeOK ==
    /\ main \in {"f", "load", "park", "match", "returned", "panicked"}
    /\ f_panicked \in BOOLEAN /\ a_thread_panicked \in BOOLEAN
    /\ num_running_threads \in Nat
    /\ thread  \in [Scoped -> {"unborn", "starting", "run", "finishing", "ending", "exited"}]
    /\ spawner \in [Scoped -> Unparkers]
    /\ holders \in [Scoped -> SUBSET {"my", "their"}]
    /\ result  \in [Scoped -> {"none", "ok", "panic"}]
    /\ drop    \in [Scoped -> {"no", "result", "panic", "sub", "unpark", "done"}]
    /\ dropper \in [Scoped -> Unparkers]
    /\ outcome \in [Scoped -> {"none", "ok", "panic"}]
    /\ joined \subseteq Scoped

(* The threads that have been counted in and not yet counted out.          *)
IsCounted(t) == thread[t] # "unborn" /\ drop[t] \in {"no", "result", "panic", "sub"}
Counted == {t \in Scoped : IsCounted(t)}

CountIsExact == num_running_threads = Cardinality(Counted)

(* The packet is held by the thread until it ends, dropped once nobody     *)
(* holds it, and has the result from the end of the closure until it is    *)
(* taken or dropped.                                                       *)
PacketFollowsThread(t) ==
    /\ thread[t] = "unborn" => holders[t] = {} /\ drop[t] = "no"
    /\ thread[t] # "unborn" => (holders[t] = {} <=> drop[t] # "no")
    /\ "their" \in holders[t] <=> thread[t] \in {"starting", "run", "finishing"}
    /\ thread[t] \in {"unborn", "starting", "run"} => result[t] = "none" /\ outcome[t] = "none"
    /\ thread[t] = "finishing" => result[t] # "none"
    /\ thread[t] \in {"ending", "exited"} /\ "my" \in holders[t] => result[t] # "none"
    /\ result[t] # "none" => drop[t] \in {"no", "result"}

(* A panic is in the packet, or on its way from there, until a join or the *)
(* scope has it.                                                           *)
PanicIsKept(t) == outcome[t] = "panic" =>
    result[t] = "panic" \/ drop[t] = "panic" \/ a_thread_panicked \/ t \in joined

Packets == \A t \in Scoped : PacketFollowsThread(t) /\ PanicIsKept(t)

(* What the main thread has seen stays true.                               *)
MainKnows ==
    /\ main \in {"match", "returned", "panicked"} => num_running_threads = 0
    /\ main = "returned" => ~a_thread_panicked

(* A main thread that parks, or is about to, while no thread is left to be *)
(* counted out has its token or will be unparked.                          *)
ScopeIsReleased ==
    (main = "park" \/ (main = "load" /\ pc # "idle")) /\ num_running_threads = 0 =>
       state = NOTIFIED \/ \E t \in Scoped : drop[t] = "unpark"

(* Only the code of f and the loop of scope park.                          *)
ParksInside == main \notin {"f", "load"} => pc = "idle"

(* The inductive invariant.                                                *)
ScopeIInv == /\ ScopeTypeOK /\ CountIsExact /\ Packets
             /\ MainKnows /\ ParksInside /\ ScopeIsReleased

-----------------------------------------------------------------------------
(* The steps that touch nothing but the Parker.                            *)
ParkerOnly == /\ UNCHANGED scopeVars
              /\ \/ OwnerStep \/ SpuriousWakeup
                 \/ UserPark
                 \/ \E t \in Scoped : UserUnpark(t)
                 \/ \E p \in Unparkers : FutexWake(p)
                 \/ UNCHANGED vars

(* The steps of user code that lets go of a handle.                        *)
HandleStep(p, t) == Spawn(p, t) \/ Join(p, t) \/ DropHandle(p, t)

(* The steps of the main thread in scope itself.                           *)
MainOnly == \/ \E panics \in BOOLEAN : EndOfF(panics)
            \/ LoadRunning \/ ScopePark \/ MatchResult

(* The steps of a scope, sorted by what they touch.                        *)
LEMMA ScopeSteps ==
  ASSUME [ScopeNext]_allVars
  PROVE  \/ ParkerOnly \/ MainOnly
         \/ \E t \in Scoped : SystemStep(t) \/ \E r \in {"ok", "panic"} : Finish(t, r)
         \/ \E p \in Unparkers, t \in Scoped : HandleStep(p, t)
<1>1. CASE UNCHANGED allVars
  BY <1>1 DEF allVars, ParkerOnly
<1>2. CASE \E p \in Unparkers : WakeMain(p)
  BY <1>2 DEF WakeMain, ParkerOnly
<1>3. CASE MainUserStep
  BY <1>3, ScopeAssumption DEF MainUserStep, UserPark, ParkerOnly, MainOnly, HandleStep
<1>4. CASE MainStep \/ Spurious
  BY <1>4 DEF MainStep, Spurious, ParkStep, ParkerOnly, MainOnly
<1>5. CASE \E t \in Scoped : UserStep(t)
  BY <1>5, ScopeAssumption DEF UserStep, UserUnpark, ParkerOnly, HandleStep
<1>. QED
  BY <1>1, <1>2, <1>3, <1>4, <1>5 DEF ScopeNext, Done

(* What letting go of a packet does, for its thread and for the others.    *)
LEMMA LetGoChanges ==
  ASSUME ScopeTypeOK, NEW p \in Unparkers, NEW t \in Scoped, NEW h, LetGo(p, t, h)
  PROVE  /\ holders' \in [Scoped -> SUBSET {"my", "their"}]
         /\ drop' \in [Scoped -> {"no", "result", "panic", "sub", "unpark", "done"}]
         /\ dropper' \in [Scoped -> Unparkers]
         /\ holders'[t] = holders[t] \ h
         /\ drop'[t] = IF holders[t] \subseteq h THEN "result" ELSE drop[t]
         /\ \A u \in Scoped : u # t => holders'[u] = holders[u] /\ drop'[u] = drop[u]
<1>1. holders' \in [Scoped -> SUBSET {"my", "their"}]
  BY DEF ScopeTypeOK, LetGo
<1>. QED
  BY <1>1 DEF ScopeTypeOK, LetGo

(* A scope assigns values of the right type.                               *)
LEMMA ScopeType ==
  ASSUME ScopeTypeOK, Packets, CountIsExact, [ScopeNext]_allVars
  PROVE  ScopeTypeOK'
<1>1. CASE ParkerOnly
  BY <1>1 DEF ParkerOnly, scopeVars, dataVars, packetVars, ScopeTypeOK
<1>2. CASE MainOnly
  BY <1>2 DEF MainOnly, EndOfF, LoadRunning, ScopePark, MatchResult, dataVars, packetVars,
     ScopeTypeOK
<1>3. ASSUME NEW t \in Scoped, NativeStart(t) \/ Exit(t) PROVE ScopeTypeOK'
  BY <1>3 DEF NativeStart, Exit, dataVars, packetVars, ScopeTypeOK
<1>4. ASSUME NEW t \in Scoped, NativeFail(t) \/ DropTheirPacket(t) PROVE ScopeTypeOK'
  <2>1. PICK p \in Unparkers, h \in SUBSET {"my", "their"} : LetGo(p, t, h)
    BY <1>4, ScopeAssumption DEF NativeFail, DropTheirPacket, ScopeTypeOK
  <2>. QED
    BY <1>4, <2>1, LetGoChanges DEF NativeFail, DropTheirPacket, dataVars, ScopeTypeOK
<1>5. ASSUME NEW t \in Scoped, DropResult(t) \/ StorePanicked(t) \/ UnparkMain(t)
      PROVE  ScopeTypeOK'
  BY <1>5 DEF DropResult, StorePanicked, UnparkMain, dataVars, ScopeTypeOK
<1>6. ASSUME NEW t \in Scoped, Decrement(t) PROVE ScopeTypeOK'
  <2>1. t \in Counted
    BY <1>6 DEF Decrement, Packets, PacketFollowsThread, Counted, IsCounted
  <2>2. IsFiniteSet(Counted)
    BY ScopeAssumption, FS_Subset DEF Counted
  <2>3. num_running_threads \in Nat \ {0}
    BY <2>1, <2>2, FS_CardinalityType, FS_EmptySet DEF CountIsExact
  <2>. QED
    BY <1>6, <2>3 DEF Decrement, ScopeTypeOK
<1>7. ASSUME NEW t \in Scoped, NEW r \in {"ok", "panic"}, Finish(t, r) PROVE ScopeTypeOK'
  BY <1>7 DEF Finish, dataVars, ScopeTypeOK
<1>8. ASSUME NEW p \in Unparkers, NEW t \in Scoped, HandleStep(p, t) PROVE ScopeTypeOK'
  <2>1. CASE Spawn(p, t)
    BY <2>1 DEF Spawn, ScopeTypeOK
  <2>2. CASE Join(p, t)
    BY <2>2, LetGoChanges DEF Join, dataVars, ScopeTypeOK
  <2>3. CASE DropHandle(p, t)
    BY <2>3, LetGoChanges DEF DropHandle, dataVars, ScopeTypeOK
  <2>. QED
    BY <1>8, <2>1, <2>2, <2>3 DEF HandleStep
<1>. QED
  BY <1>1, <1>2, <1>3, <1>4, <1>5, <1>6, <1>7, <1>8, ScopeSteps DEF SystemStep

(* How a step changes the set of the threads that are counted, and the     *)
(* count with it.                                                          *)
LEMMA ScopeCounts ==
  ASSUME ScopeTypeOK, Packets, [ScopeNext]_allVars
  PROVE  \/ Counted' = Counted /\ num_running_threads' = num_running_threads
         \/ \E t \in Scoped : /\ t \notin Counted /\ Counted' = Counted \cup {t}
                              /\ num_running_threads' = num_running_threads + 1
                              /\ \E p \in Unparkers : Spawn(p, t)
         \/ \E t \in Scoped : /\ t \in Counted /\ Counted' = Counted \ {t}
                              /\ num_running_threads' = num_running_threads - 1
                              /\ Decrement(t)
<1> DEFINE Same == Counted' = Counted /\ num_running_threads' = num_running_threads
<1>a. ASSUME \A u \in Scoped : IsCounted(u)' <=> IsCounted(u) PROVE Counted' = Counted
  BY <1>a DEF Counted
<1>1. CASE ParkerOnly \/ MainOnly
  <2>1. UNCHANGED <<thread, drop, num_running_threads>>
    BY <1>1 DEF ParkerOnly, MainOnly, scopeVars, EndOfF, LoadRunning, ScopePark, MatchResult, dataVars,
       packetVars
  <2>. QED
    BY <1>a, <2>1 DEF IsCounted
<1>2. ASSUME NEW t \in Scoped, \/ NativeStart(t) \/ NativeFail(t) \/ DropTheirPacket(t) \/ Exit(t)
                               \/ \E r \in {"ok", "panic"} : Finish(t, r)
      PROVE  Same
  <2>1. num_running_threads' = num_running_threads /\ thread[t] # "unborn" /\ thread'[t] # "unborn"
    BY <1>2 DEF NativeStart, NativeFail, DropTheirPacket, Exit, Finish, InUserCode, dataVars, ScopeTypeOK
  <2>2. \A u \in Scoped : u # t => thread'[u] = thread[u] /\ drop'[u] = drop[u]
    BY <1>2 DEF NativeStart, NativeFail, DropTheirPacket, LetGo, Exit, Finish, packetVars, ScopeTypeOK
  <2>3. drop[t] \in {"no", "result", "panic", "sub"} <=> drop'[t] \in {"no", "result", "panic", "sub"}
    BY <1>2 DEF NativeStart, NativeFail, DropTheirPacket, LetGo, Exit, Finish, packetVars, ScopeTypeOK,
       Packets, PacketFollowsThread, InUserCode
  <2>. QED
    BY <1>a, <2>1, <2>2, <2>3 DEF IsCounted
<1>3. ASSUME NEW t \in Scoped, DropResult(t) \/ StorePanicked(t) \/ UnparkMain(t)
      PROVE  Same
  <2>1. /\ \A u \in Scoped : IsCounted(u)' <=> IsCounted(u)
        /\ num_running_threads' = num_running_threads
    BY <1>3 DEF DropResult, StorePanicked, UnparkMain, dataVars, ScopeTypeOK, IsCounted
  <2>. QED
    BY <1>a, <2>1
<1>4. ASSUME NEW t \in Scoped, Decrement(t)
      PROVE  /\ t \in Counted /\ Counted' = Counted \ {t}
             /\ num_running_threads' = num_running_threads - 1
  <2>1. /\ thread' = thread /\ drop[t] = "sub" /\ drop'[t] \in {"unpark", "done"}
        /\ num_running_threads' = num_running_threads - 1
        /\ \A u \in Scoped : u # t => drop'[u] = drop[u]
    BY <1>4 DEF Decrement, ScopeTypeOK
  <2>2. thread[t] # "unborn"
    BY <2>1 DEF Packets, PacketFollowsThread
  <2>. QED
    BY <2>1, <2>2 DEF Counted, IsCounted
<1>5. ASSUME NEW p \in Unparkers, NEW t \in Scoped, Spawn(p, t)
      PROVE  /\ t \notin Counted /\ Counted' = Counted \cup {t}
             /\ num_running_threads' = num_running_threads + 1
  <2>1. /\ thread[t] = "unborn" /\ thread'[t] = "starting" /\ drop' = drop /\ drop[t] = "no"
        /\ num_running_threads' = num_running_threads + 1
        /\ \A u \in Scoped : u # t => thread'[u] = thread[u]
    BY <1>5 DEF Spawn, ScopeTypeOK, Packets, PacketFollowsThread
  <2>. QED
    BY <2>1 DEF Counted, IsCounted
<1>6. ASSUME NEW p \in Unparkers, NEW t \in Scoped, Join(p, t) \/ DropHandle(p, t)
      PROVE  Same
  <2>1. /\ num_running_threads' = num_running_threads /\ thread' = thread
        /\ thread[t] # "unborn" /\ holders[t] # {} /\ LetGo(p, t, {"my"})
    BY <1>6 DEF Join, DropHandle, HasHandle, dataVars
  <2>2. drop[t] = "no" /\ drop'[t] \in {"no", "result"}
    BY <2>1, LetGoChanges DEF Packets, PacketFollowsThread
  <2>3. \A u \in Scoped : u # t => drop'[u] = drop[u]
    BY <2>1, LetGoChanges
  <2>. QED
    BY <1>a, <2>1, <2>2, <2>3 DEF IsCounted
<1>. QED
  BY <1>1, <1>2, <1>3, <1>4, <1>5, <1>6, ScopeSteps DEF SystemStep, HandleStep

(* The count stays exact.                                                  *)
LEMMA ScopeCountIsExact ==
  ASSUME ScopeTypeOK, Packets, CountIsExact, [ScopeNext]_allVars
  PROVE  CountIsExact'
<1>1. IsFiniteSet(Counted)
  BY ScopeAssumption, FS_Subset DEF Counted
<1>2. ASSUME NEW t \in Scoped, t \notin Counted, Counted' = Counted \cup {t}
      PROVE  Cardinality(Counted') = Cardinality(Counted) + 1
  BY <1>1, <1>2, FS_AddElement
<1>3. ASSUME NEW t \in Scoped, t \in Counted, Counted' = Counted \ {t}
      PROVE  Cardinality(Counted') = Cardinality(Counted) - 1
  BY <1>1, <1>3, FS_RemoveElement
<1>. QED
  BY <1>2, <1>3, ScopeCounts DEF CountIsExact

(* The packets keep following their threads.                               *)
LEMMA ScopePackets ==
  ASSUME ScopeTypeOK, Packets, [ScopeNext]_allVars
  PROVE  Packets'
<1> SUFFICES ASSUME NEW u \in Scoped PROVE PacketFollowsThread(u)' /\ PanicIsKept(u)'
  BY DEF Packets
<1>0. PacketFollowsThread(u) /\ PanicIsKept(u)
  BY DEF Packets
<1>1. CASE ParkerOnly \/ MainOnly
  <2>1. UNCHANGED <<thread, packetVars, outcome, joined, a_thread_panicked>>
    BY <1>1 DEF ParkerOnly, MainOnly, scopeVars, EndOfF, LoadRunning, ScopePark, MatchResult, dataVars
  <2>. QED
    BY <1>0, <2>1 DEF PacketFollowsThread, PanicIsKept, packetVars
<1> USE DEF PacketFollowsThread, PanicIsKept
<1>2. ASSUME NEW t \in Scoped, NativeStart(t) \/ Exit(t)
      PROVE  PacketFollowsThread(u)' /\ PanicIsKept(u)'
  BY <1>0, <1>2 DEF NativeStart, Exit, packetVars, dataVars, ScopeTypeOK
<1>3. ASSUME NEW t \in Scoped, NEW r \in {"ok", "panic"}, Finish(t, r)
      PROVE  PacketFollowsThread(u)' /\ PanicIsKept(u)'
  <2>1. t # Main /\ thread[t] = "run"
    BY <1>3 DEF Finish, InUserCode
  <2>2. drop[t] = "no"
    BY <2>1 DEF Packets
  <2>. QED
    BY <1>0, <1>3, <2>1, <2>2 DEF Finish, dataVars, ScopeTypeOK
<1>4. ASSUME NEW t \in Scoped, NativeFail(t)
      PROVE  PacketFollowsThread(u)' /\ PanicIsKept(u)'
  <2>1. LetGo(spawner[t], t, {"my", "their"}) /\ spawner[t] \in Unparkers
    BY <1>4 DEF NativeFail, ScopeTypeOK
  <2>2. holders'[t] = {} /\ drop'[t] = "result"
    BY <2>1, LetGoChanges DEF ScopeTypeOK
  <2>3. CASE u = t
    BY <1>0, <1>4, <2>2, <2>3 DEF NativeFail, dataVars, ScopeTypeOK
  <2>4. CASE u # t
    BY <1>0, <1>4, <2>1, <2>4, LetGoChanges DEF NativeFail, dataVars, ScopeTypeOK
  <2>. QED
    BY <2>3, <2>4
<1>5. ASSUME NEW t \in Scoped, DropTheirPacket(t)
      PROVE  PacketFollowsThread(u)' /\ PanicIsKept(u)'
  <2>1. LetGo(t, t, {"their"}) /\ t \in Unparkers
    BY <1>5, ScopeAssumption DEF DropTheirPacket
  <2>2. /\ holders'[t] = holders[t] \ {"their"}
        /\ drop'[t] = IF holders[t] \subseteq {"their"} THEN "result" ELSE drop[t]
        /\ u # t => holders'[u] = holders[u] /\ drop'[u] = drop[u]
    BY <2>1, LetGoChanges
  <2>. QED
    BY <1>0, <1>5, <2>2 DEF DropTheirPacket, dataVars, ScopeTypeOK
<1>6. ASSUME NEW t \in Scoped, \/ DropResult(t) \/ StorePanicked(t) \/ Decrement(t) \/ UnparkMain(t)
      PROVE  PacketFollowsThread(u)' /\ PanicIsKept(u)'
  <2>1. drop[t] # "no" /\ holders[t] = {}
    BY <1>6 DEF DropResult, StorePanicked, Decrement, UnparkMain, Packets
  <2>2. UNCHANGED <<thread, holders, outcome, joined>>
    BY <1>6 DEF DropResult, StorePanicked, Decrement, UnparkMain
  <2>3. CASE DropResult(t)
    BY <1>0, <2>1, <2>2, <2>3 DEF DropResult, dataVars, ScopeTypeOK
  <2>4. CASE StorePanicked(t)
    BY <1>0, <2>1, <2>2, <2>4 DEF StorePanicked, ScopeTypeOK
  <2>5. CASE Decrement(t) \/ UnparkMain(t)
    BY <1>0, <2>1, <2>2, <2>5 DEF Decrement, UnparkMain, dataVars, ScopeTypeOK
  <2>. QED
    BY <1>6, <2>3, <2>4, <2>5
<1>7. ASSUME NEW p \in Unparkers, NEW t \in Scoped, Spawn(p, t)
      PROVE  PacketFollowsThread(u)' /\ PanicIsKept(u)'
  BY <1>0, <1>7 DEF Spawn, ScopeTypeOK
<1>8. ASSUME NEW p \in Unparkers, NEW t \in Scoped, Join(p, t) \/ DropHandle(p, t)
      PROVE  PacketFollowsThread(u)' /\ PanicIsKept(u)'
  <2>1. LetGo(p, t, {"my"}) /\ "my" \in holders[t] /\ thread[t] \notin {"unborn", "starting"}
    BY <1>8 DEF Join, DropHandle, HasHandle
  <2>2. /\ holders'[t] = holders[t] \ {"my"}
        /\ drop'[t] = IF holders[t] \subseteq {"my"} THEN "result" ELSE drop[t]
        /\ u # t => holders'[u] = holders[u] /\ drop'[u] = drop[u]
    BY <2>1, LetGoChanges
  <2>3. CASE Join(p, t)
    BY <1>0, <2>1, <2>2, <2>3 DEF Join, dataVars, ScopeTypeOK
  <2>4. CASE DropHandle(p, t)
    BY <1>0, <2>1, <2>2, <2>4 DEF DropHandle, dataVars, ScopeTypeOK
  <2>. QED
    BY <1>8, <2>3, <2>4
<1>. QED
  BY <1>1, <1>2, <1>3, <1>4, <1>5, <1>6, <1>7, <1>8, ScopeSteps DEF SystemStep, HandleStep

(* With the count at zero, every thread has been counted out.              *)
LEMMA NoneCounted ==
  ASSUME ScopeTypeOK, CountIsExact, num_running_threads = 0, NEW t \in Scoped
  PROVE  ~IsCounted(t)
<1>1. IsFiniteSet(Counted)
  BY ScopeAssumption, FS_Subset DEF Counted
<1>2. Counted = {}
  BY <1>1, FS_EmptySet DEF CountIsExact
<1>. QED
  BY <1>2 DEF Counted

(* Once the main thread has seen the count at zero nothing happens that it *)
(* would have to know.                                                     *)
LEMMA ScopeMainKnows ==
  ASSUME ScopeTypeOK, Packets, CountIsExact, MainKnows, [ScopeNext]_allVars
  PROVE  MainKnows'
<1>1. CASE main \in {"match", "returned", "panicked"}
  <2>1. num_running_threads = 0 /\ \A t \in Scoped : ~IsCounted(t)
    BY <1>1, NoneCounted DEF MainKnows
  <2>2. num_running_threads' = 0
    <3>1. ASSUME NEW p \in Unparkers, NEW t \in Scoped, Spawn(p, t) PROVE FALSE
      <4>1. p \in Scoped /\ thread[p] = "run"
        BY <1>1, <3>1, ScopeAssumption DEF Spawn, InUserCode
      <4>2. IsCounted(p)
        BY <4>1 DEF Packets, PacketFollowsThread, IsCounted
      <4>. QED
        BY <2>1, <4>1, <4>2
    <3>. QED
      BY <2>1, <3>1, ScopeCounts DEF Counted
  <2>3. CASE MatchResult
    BY <2>2, <2>3 DEF MatchResult, MainKnows, dataVars
  <2>4. CASE main' = main
    <3>1. ASSUME NEW t \in Scoped, StorePanicked(t) PROVE FALSE
      BY <2>1, <3>1 DEF StorePanicked, IsCounted, Packets, PacketFollowsThread
    <3>2. a_thread_panicked' = a_thread_panicked
      BY <3>1, ScopeSteps DEF ParkerOnly, MainOnly, scopeVars, EndOfF, LoadRunning, ScopePark,
         MatchResult, dataVars, SystemStep, NativeStart, NativeFail, DropTheirPacket, Exit,
         DropResult, Decrement, UnparkMain, Finish, HandleStep, Spawn, Join, DropHandle
    <3>. QED
      BY <2>2, <2>4, <3>2 DEF MainKnows
  <2>5. main' = main \/ MatchResult
    BY <1>1, ScopeSteps DEF ParkerOnly, MainOnly, scopeVars, EndOfF, LoadRunning, ScopePark,
       InUserCode, SystemStep, NativeStart, NativeFail, DropTheirPacket, Exit,
       DropResult, StorePanicked, Decrement, UnparkMain, Finish, HandleStep, Spawn, Join, DropHandle
  <2>. QED
    BY <2>3, <2>4, <2>5
<1>2. CASE main \notin {"match", "returned", "panicked"}
  <2>1. \/ main' \notin {"match", "returned", "panicked"}
        \/ main' = "match" /\ num_running_threads' = 0
    BY <1>2, ScopeSteps DEF ParkerOnly, MainOnly, scopeVars, EndOfF, LoadRunning, ScopePark,
       MatchResult, dataVars, SystemStep, NativeStart, NativeFail, DropTheirPacket, Exit,
       DropResult, StorePanicked, Decrement, UnparkMain, Finish, HandleStep, Spawn, Join, DropHandle
  <2>. QED
    BY <2>1 DEF MainKnows
<1>. QED
  BY <1>1, <1>2

(* The main thread parks nowhere else.                                     *)
LEMMA ScopeParks ==
  ASSUME ScopeTypeOK, ParksInside, [ScopeNext]_allVars
  PROVE  ParksInside'
<1>1. CASE ParkerOnly
  <2>1. main' = main
    BY <1>1 DEF ParkerOnly, scopeVars
  <2>. QED
    BY <1>1, <2>1 DEF ParksInside, ParkerOnly, OwnerStep, FutexWait, Timeout, CheckToken, SwapEmpty,
       SpuriousWakeup, UserPark, InUserCode, UserUnpark, Unpark, FutexWake, vars
<1>2. CASE MainOnly
  BY <1>2 DEF MainOnly, EndOfF, LoadRunning, ScopePark, MatchResult, ParksInside, vars
<1>3. CASE main' = main /\ pc' = pc
  BY <1>3 DEF ParksInside
<1>. QED
  BY <1>1, <1>2, <1>3, ScopeSteps DEF SystemStep, NativeStart, NativeFail, DropTheirPacket, Exit,
     DropResult, StorePanicked, Decrement, UnparkMain, Unpark, Finish, HandleStep, Spawn, Join,
     DropHandle, vars

(* The main thread does not lose the token of the last decrement before it *)
(* has looked at the count again.                                          *)
LEMMA ScopeReleased ==
  ASSUME ScopeTypeOK, Packets, ParksInside, ScopeIsReleased, [ScopeNext]_allVars
  PROVE  ScopeIsReleased'
<1> SUFFICES ASSUME main' = "park" \/ (main' = "load" /\ pc' # "idle"), num_running_threads' = 0
             PROVE  state' = NOTIFIED \/ \E t \in Scoped : drop'[t] = "unpark"
  BY DEF ScopeIsReleased
<1> DEFINE Waiting == main = "park" \/ (main = "load" /\ pc # "idle")
           Goal == state' = NOTIFIED \/ \E t \in Scoped : drop'[t] = "unpark"
<1>0. ASSUME Waiting, num_running_threads = 0
      PROVE  state = NOTIFIED \/ \E t \in Scoped : drop[t] = "unpark"
  BY <1>0 DEF ScopeIsReleased
<1>1. CASE ParkerOnly
  <2>1. UNCHANGED <<main, num_running_threads, drop>>
    BY <1>1 DEF ParkerOnly, scopeVars, dataVars, packetVars
  <2>2. ~UserPark
    BY <2>1 DEF UserPark, InUserCode
  <2>3. Waiting /\ (state' = state \/ state' = NOTIFIED)
    BY <1>1, <2>1, <2>2 DEF ParksInside, ParkerOnly, OwnerStep, FutexWait, Timeout, CheckToken, SwapEmpty,
       SpuriousWakeup, UserUnpark, Unpark, FutexWake, vars
  <2>. QED
    BY <1>0, <2>1, <2>3
<1>2. CASE MainOnly
  <2>1. UNCHANGED <<num_running_threads, drop>>
    BY <1>2 DEF MainOnly, EndOfF, LoadRunning, ScopePark, MatchResult, dataVars, packetVars
  <2>2. ScopePark
    BY <1>2, <2>1 DEF MainOnly, EndOfF, LoadRunning, MatchResult, InUserCode, vars
  <2>3. main = "park" /\ state # NOTIFIED
    BY <2>2 DEF ScopePark, Park
  <2>. QED
    BY <1>0, <2>1, <2>3
<1>3. ASSUME NEW t \in Scoped, Decrement(t) PROVE Goal
  BY <1>3 DEF Decrement, ScopeTypeOK
<1>4. ASSUME NEW t \in Scoped, UnparkMain(t) PROVE Goal
  BY <1>4 DEF UnparkMain, Unpark
<1>5. ASSUME UNCHANGED <<vars, main, num_running_threads>>,
             \A t \in Scoped : drop[t] = "unpark" => drop'[t] = "unpark"
      PROVE  Goal
  BY <1>0, <1>5 DEF vars
<1>6. ASSUME NEW t \in Scoped, \/ NativeStart(t) \/ Exit(t) \/ DropResult(t) \/ StorePanicked(t)
                               \/ \E r \in {"ok", "panic"} : Finish(t, r)
      PROVE  Goal
  BY <1>5, <1>6 DEF NativeStart, Exit, DropResult, StorePanicked, Finish, dataVars, packetVars,
     ScopeTypeOK
<1>7. ASSUME NEW p \in Unparkers, NEW t \in Scoped, NEW h, LetGo(p, t, h), holders[t] # {},
             thread[t] # "unborn", UNCHANGED <<vars, main, num_running_threads>>
      PROVE  Goal
  <2>1. drop[t] # "unpark"
    BY <1>7 DEF Packets, PacketFollowsThread
  <2>. QED
    BY <1>5, <1>7, <2>1, LetGoChanges
<1>8. ASSUME NEW t \in Scoped, NativeFail(t) \/ DropTheirPacket(t) PROVE Goal
  <2>1. "their" \in holders[t] /\ thread[t] # "unborn"
    BY <1>8 DEF NativeFail, DropTheirPacket, Packets, PacketFollowsThread
  <2>2. t \in Unparkers /\ spawner[t] \in Unparkers
    BY ScopeAssumption DEF ScopeTypeOK
  <2>. QED
    BY <1>7, <1>8, <2>1, <2>2 DEF NativeFail, DropTheirPacket, dataVars
<1>9. ASSUME NEW p \in Unparkers, NEW t \in Scoped, HandleStep(p, t) PROVE Goal
  <2>1. CASE Spawn(p, t)
    BY <2>1 DEF Spawn, ScopeTypeOK
  <2>2. CASE Join(p, t) \/ DropHandle(p, t)
    BY <1>7, <2>2 DEF Join, DropHandle, HasHandle, dataVars
  <2>. QED
    BY <1>9, <2>1, <2>2 DEF HandleStep
<1>. QED
  BY <1>1, <1>2, <1>3, <1>4, <1>6, <1>8, <1>9, ScopeSteps DEF SystemStep

-----------------------------------------------------------------------------
(* A scope starts with nothing spawned.                                    *)
LEMMA ScopeInitIInv == ScopeInit => ScopeIInv
<1> SUFFICES ASSUME ScopeInit PROVE ScopeIInv
  OBVIOUS
<1>1. ScopeTypeOK
  BY ScopeAssumption DEF ScopeInit, ScopeTypeOK
<1>2. Counted = {}
  BY DEF ScopeInit, Counted, IsCounted
<1>3. CountIsExact
  BY <1>2, FS_EmptySet DEF ScopeInit, CountIsExact
<1>4. Packets
  BY DEF ScopeInit, Packets, PacketFollowsThread, PanicIsKept
<1>5. MainKnows /\ ParksInside /\ ScopeIsReleased
  BY DEF ScopeInit, MainKnows, ParksInside, ScopeIsReleased
<1>. QED
  BY <1>1, <1>3, <1>4, <1>5 DEF ScopeIInv

(* Every step of a scope preserves the invariant.                          *)
LEMMA ScopeNextIInv == ScopeIInv /\ [ScopeNext]_allVars => ScopeIInv'
  BY ScopeType, ScopeCountIsExact, ScopePackets, ScopeMainKnows, ScopeParks, ScopeReleased
     DEF ScopeIInv

(* ScopeIInv is an invariant of a scope.                                   *)
THEOREM ScopeInvariance == ScopeSpec => []ScopeIInv
  BY ScopeInitIInv, ScopeNextIInv, PTL DEF ScopeSpec

(* What a scope does to the Parker of its main thread, the Parker allows.  *)
THEOREM ScopeUsesParker == ScopeSpec => Spec
<1>1. ScopeInit => Init
  BY DEF ScopeInit
<1>2. ScopeIInv /\ [ScopeNext]_allVars => [Next]_vars
  <2> SUFFICES ASSUME ScopeIInv, [ScopeNext]_allVars PROVE Next \/ UNCHANGED vars
    OBVIOUS
  <2>1. CASE ParkerOnly
    BY <2>1, ScopeAssumption DEF ParkerOnly, UserPark, UserUnpark, Next
  <2>2. CASE MainOnly
    BY <2>2 DEF MainOnly, EndOfF, LoadRunning, ScopePark, MatchResult, Next
  <2>3. ASSUME NEW t \in Scoped, UnparkMain(t) PROVE Next
    BY <2>3 DEF UnparkMain, Next, ScopeIInv, ScopeTypeOK
  <2>. QED
    BY <2>1, <2>2, <2>3, ScopeSteps DEF SystemStep, NativeStart, NativeFail, DropTheirPacket, Exit,
       DropResult, StorePanicked, Decrement, Finish, HandleStep, Spawn, Join, DropHandle
<1>. QED
  BY <1>1, <1>2, ScopeInvariance, PTL DEF ScopeSpec, Spec

(* A scope, its user's own parking and the unparks of late threads keep    *)
(* the contract of park and unpark.                                        *)
THEOREM ScopeParker == ScopeSpec => ImplementsParkToken
  BY ScopeUsesParker, Refinement, PTL

(* When scope has seen the count at zero, no thread runs code that borrows *)
(* from the scope, and no result of one is left to be dropped.             *)
THEOREM ScopeIsSound == ScopeSpec => []ScopeOutlivesThreads
<1>1. ScopeIInv => ScopeOutlivesThreads
  <2> SUFFICES ASSUME ScopeIInv, num_running_threads = 0, NEW t \in Scoped
               PROVE  thread[t] \notin {"starting", "run"} /\ result[t] = "none"
    BY DEF ScopeOutlivesThreads, ScopeIInv, MainKnows
  <2>1. ~IsCounted(t) /\ PacketFollowsThread(t)
    BY NoneCounted DEF ScopeIInv, Packets
  <2>. QED
    BY <2>1 DEF IsCounted, PacketFollowsThread, ScopeIInv, ScopeTypeOK
<1>. QED
  BY <1>1, ScopeInvariance, PTL

(* The outcome of every thread reaches the join that waits for it, or the  *)
(* scope: scope returns normally only if every panic was taken by a join,  *)
(* and a join finds a result in a packet that it has alone.                *)
THEOREM OutcomesSurface == ScopeSpec => []ResultsSurface
<1>1. ScopeIInv => ResultsSurface
  <2> SUFFICES ASSUME ScopeIInv PROVE ResultsSurface
    OBVIOUS
  <2>1. ASSUME NEW t \in Scoped, main = "returned", outcome[t] = "panic" PROVE t \in joined
    <3>1. num_running_threads = 0 /\ ~a_thread_panicked
      BY <2>1 DEF ScopeIInv, MainKnows
    <3>2. ~IsCounted(t) /\ PacketFollowsThread(t) /\ PanicIsKept(t)
      BY <3>1, NoneCounted DEF ScopeIInv, Packets
    <3>. QED
      BY <2>1, <3>1, <3>2 DEF IsCounted, PacketFollowsThread, PanicIsKept
  <2>2. ASSUME NEW t \in Scoped, thread[t] = "exited", "my" \in holders[t]
        PROVE  holders[t] = {"my"} /\ result[t] # "none"
    <3>1. PacketFollowsThread(t) /\ holders[t] \subseteq {"my", "their"}
      BY DEF ScopeIInv, Packets, ScopeTypeOK
    <3>. QED
      BY <2>2, <3>1 DEF PacketFollowsThread
  <2>. QED
    BY <2>1, <2>2 DEF ResultsSurface, PanicsSurface, JoinFindsResult
<1>. QED
  BY <1>1, ScopeInvariance, PTL

(* The scope does not hang: when the last thread has been counted out, a   *)
(* main thread that parks has its token or will be unparked; and when it   *)
(* sleeps without a futex_wake under way, the unpark is still to come.     *)
THEOREM ScopeIsNotStranded ==
  ScopeSpec => [](/\ ScopeIsReleased
                  /\ main = "load" /\ pc = "asleep" /\ num_running_threads = 0 =>
                        wakers # {} \/ \E t \in Scoped : drop[t] = "unpark")
<1>1. ScopeIInv /\ IInv =>
         /\ ScopeIsReleased
         /\ main = "load" /\ pc = "asleep" /\ num_running_threads = 0 =>
               wakers # {} \/ \E t \in Scoped : drop[t] = "unpark"
  BY ValuesDiffer DEF ScopeIInv, ScopeIsReleased, IInv, SleeperIsCovered
<1>2. Spec => []IInv
  BY Invariance
<1>. QED
  BY <1>1, <1>2, ScopeInvariance, ScopeUsesParker, PTL
=============================================================================
