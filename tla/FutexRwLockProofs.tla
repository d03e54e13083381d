------------------------- MODULE FutexRwLockProofs --------------------------
(***************************************************************************)
(* Proofs about the futex reader-writer lock, for any set of threads, any  *)
(* number of calls and any MAX_READERS. Besides the invariants that the    *)
(* run checks, the inductive invariant says what a thread that sees a word *)
(* with flags may conclude from it: only a writer, or a writer that has    *)
(* just become a reader, owns a lock with sleeping readers and no sleeping *)
(* writers (ReadersWaitBehindWriters); a writer that is about to sleep on  *)
(* the present value of writer_notify still has its flag in the word, or a *)
(* notification is to come (WaitIsNotified); and a thread in               *)
(* wake_writer_or_readers can be relied on only as long as the word that   *)
(* it knows is the one that it will find (Serves).                         *)
(***************************************************************************)
EXTENDS FutexRwLock, TLAPS, FiniteSetTheorems

Locations == {"idle", "held_r", "held_w", "r_spin", "r_loop", "r_asleep", "w_spin",
              "w_loop", "w_check", "w_wait", "w_asleep", "wake", "wake2", "notify",
              "notify2", "wake_one", "wake_one2", "wake_all", "down_clear", "down_wake"}

Words  == [n : Nat, rw : BOOLEAN, ww : BOOLEAN]
Locals == [state : Words, has_slept : BOOLEAN, others : BOOLEAN, seq : Nat]

TypeOK == /\ state \in Words
          /\ writer_notify \in Nat
          /\ pc \in [Threads -> Locations]
          /\ local \in [Threads -> Locals]

(* A writer that has been through WriteLoadSeq keeps the flag for others.  *)
WaitersCare ==
    \A t \in Threads : /\ pc[t] \in {"w_check", "w_wait", "w_asleep"} => local[t].others
                       /\ local[t].seq <= writer_notify

ReadersWaitBehindWriters ==
    \A t \in Threads : /\ pc[t] \in {"held_r", "down_wake"} => (state.rw => state.ww)
                       /\ pc[t] = "down_clear" => state.rw /\ Readers = {t}

WaitIsNotified ==
    \A t \in Threads : pc[t] = "w_wait" /\ local[t].seq = writer_notify =>
                          state.ww \/ At({"notify", "notify2"}) # {}

(* Thread t takes care of an unlocked word with flags.                     *)
Serves(t) ==
    \/ pc[t] = "wake"  /\ (local[t].state = state \/ local[t].state = Word(0, FALSE, TRUE))
    \/ pc[t] = "wake2" /\ local[t].state = state /\ state.rw
    \/ pc[t] \in {"notify2", "wake_one2"} /\ state = Word(0, TRUE, FALSE)
    \/ t \in Caring /\ (pc[t] = "w_wait" => local[t].seq # writer_notify)

FlagsHaveServer ==
    is_unlocked(state) /\ (state.rw \/ state.ww) => \E t \in Threads : Serves(t)

(* CountMatchesOwners with sets in the place of cardinalities that are     *)
(* one, and with the finiteness that a count needs.                        *)
OwnersAreCounted ==
    /\ IsFiniteSet(Readers)
    /\ \/ Writers = {} /\ state.n = Cardinality(Readers) /\ state.n <= MAX_READERS
       \/ Readers = {} /\ state.n = WRITE_LOCKED /\ \E t \in Threads : Writers = {t}

(* The inductive invariant.                                                *)
IInv == /\ TypeOK /\ OwnersAreCounted
        /\ WaitersCare /\ ReadersWaitBehindWriters /\ WaitIsNotified
        /\ SleepersAreCovered /\ FlagsHaveServer

(* The steps of one thread.                                                *)
Step(t) == \/ TryRead(t) \/ Read(t) \/ TryWrite(t) \/ Write(t)
           \/ Downgrade(t) \/ Progress(t) \/ SpuriousWakeup(t)

(* A step of Next is a step of one thread or no step.                      *)
LEMMA NextIsStep == [Next]_vars => (\E t \in Threads : Step(t)) \/ UNCHANGED vars
  BY DEF Next, Step, Finished

(* The words that the model builds are words, with the parts given.        *)
LEMMA WordType ==
  \A n \in Nat, rw, ww \in BOOLEAN :
     /\ Word(n, rw, ww) \in Words
     /\ Word(n, rw, ww).n = n /\ Word(n, rw, ww).rw = rw /\ Word(n, rw, ww).ww = ww
  BY DEF Word, Words

(* The parts of a word.                                                    *)
LEMMA WordParts ==
  \A w \in Words : /\ w.n \in Nat /\ w.rw \in BOOLEAN /\ w.ww \in BOOLEAN
                  /\ w = Word(w.n, w.rw, w.ww)
  BY DEF Word, Words

(* A word with one of its parts replaced.                                  *)
LEMMA WordUpdate ==
  ASSUME NEW w \in Words, NEW n \in Nat, NEW b \in BOOLEAN
  PROVE  /\ [w EXCEPT !.n = n] = Word(n, w.rw, w.ww)
         /\ [w EXCEPT !.rw = b] = Word(w.n, b, w.ww)
         /\ [w EXCEPT !.ww = b] = Word(w.n, w.rw, b)
<1>1. [w EXCEPT !.n = n] = Word(n, w.rw, w.ww)
  BY DEF Word, Words
<1>2. [w EXCEPT !.rw = b] = Word(w.n, b, w.ww)
  BY DEF Word, Words
<1>3. [w EXCEPT !.ww = b] = Word(w.n, w.rw, b)
  BY DEF Word, Words
<1>. QED
  BY <1>1, <1>2, <1>3

(* A word with the two parts replaced that a writer assigns.               *)
LEMMA WordUpdate2 ==
  \A w \in Words, n \in Nat, b \in BOOLEAN :
     [w EXCEPT !.n = n, !.ww = b] = Word(n, w.rw, b)
<1> TAKE w \in Words, n \in Nat, b \in BOOLEAN
<1> DEFINE v == [w EXCEPT !.n = n]
<1>1. v \in Words /\ v.n = n /\ v.rw = w.rw
  BY WordUpdate DEF Word, Words
<1>2. [w EXCEPT !.n = n, !.ww = b] = [v EXCEPT !.ww = b]
  BY Zenon
<1> HIDE DEF v
<1>3. [v EXCEPT !.ww = b] = Word(v.n, v.rw, b)
  BY <1>1 DEF Word, Words
<1>. QED
  BY <1>1, <1>2, <1>3, Zenon

(* WRITE_LOCKED is a count that no number of readers reaches.              *)
LEMMA WriteLockedType == WRITE_LOCKED \in Nat /\ WRITE_LOCKED > MAX_READERS /\ WRITE_LOCKED > 1
  BY ConstantsAssumption DEF WRITE_LOCKED

(* The locals outside a call.                                              *)
LEMMA FreshType == Fresh \in Locals /\ Fresh.seq = 0 /\ Fresh.others = FALSE
  BY WordType DEF Fresh, Locals

(* The locals after the word has been looked at.                           *)
LEMMA SeeingType ==
  ASSUME TypeOK, NEW t \in Threads, NEW w \in Words
  PROVE  /\ Seeing(t, w) \in Locals
         /\ Seeing(t, w).state = w
         /\ Seeing(t, w).seq = local[t].seq
         /\ Seeing(t, w).others = local[t].others
  BY DEF TypeOK, Seeing, Locals

(* Goto assigns values of the right type.                                  *)
LEMMA GotoType ==
  ASSUME TypeOK, NEW t \in Threads, NEW loc \in Locations, NEW l \in Locals, Goto(t, loc, l)
  PROVE  pc' \in [Threads -> Locations] /\ local' \in [Threads -> Locals]
  BY FreshType DEF TypeOK, Goto

(* compare_exchange assigns values of the right type.                      *)
LEMMA CompareExchangeType ==
  ASSUME TypeOK, NEW t \in Threads, NEW old \in Words, NEW new \in Words,
         NEW loc \in Locations, NEW retry \in Locations,
         CompareExchange(t, old, new, loc, retry)
  PROVE  state' \in Words /\ pc' \in [Threads -> Locations] /\ local' \in [Threads -> Locals]
<1>1. Seeing(t, new) \in Locals /\ Seeing(t, state) \in Locals
  BY SeeingType DEF TypeOK
<1>. QED
  BY <1>1, GotoType DEF CompareExchange, TypeOK

(* What the count says of an owner of the lock: a reader is one of the     *)
(* readers counted, and a writer is alone.                                 *)
LEMMA OwnersCount ==
  ASSUME TypeOK, OwnersAreCounted
  PROVE  /\ Readers # {} => Writers = {} /\ state.n \in 1..MAX_READERS
         /\ \A t \in Writers : Writers = {t} /\ Readers = {} /\ state.n = WRITE_LOCKED
         /\ state.n = 0 => Readers = {} /\ Writers = {}
         /\ state.n <= MAX_READERS => Writers = {} /\ state.n = Cardinality(Readers)
<1>1. Cardinality(Readers) \in Nat /\ (Cardinality(Readers) = 0 <=> Readers = {})
  BY FS_CardinalityType, FS_EmptySet DEF OwnersAreCounted
<1>. QED
  BY <1>1, ConstantsAssumption DEF WRITE_LOCKED, OwnersAreCounted, TypeOK, Words

(* How a step that moves t to another place changes the owners.            *)
LEMMA MoveOwners ==
  ASSUME TypeOK, NEW t \in Threads, NEW loc \in Locations, pc' = [pc EXCEPT ![t] = loc]
  PROVE  /\ loc \in {"held_r", "down_clear", "down_wake"} => Readers' = Readers \cup {t}
         /\ loc \notin {"held_r", "down_clear", "down_wake"} => Readers' = Readers \ {t}
         /\ loc = "held_w" => Writers' = Writers \cup {t}
         /\ loc # "held_w" => Writers' = Writers \ {t}
         /\ t \in Readers <=> pc[t] \in {"held_r", "down_clear", "down_wake"}
         /\ t \in Writers <=> pc[t] = "held_w"
  BY DEF TypeOK, Readers, Writers, At

(* Every step assigns values of the right type; in ReadUnlock because a    *)
(* reader has been counted.                                                *)
LEMMA StepType == ASSUME TypeOK, OwnersAreCounted, NEW t \in Threads, Step(t) PROVE TypeOK'
<1>0. local[t] \in Locals /\ local[t].state \in Words /\ state \in Words
  BY DEF TypeOK, Locals
<1>a. ASSUME NEW loc \in Locations, NEW l \in Locals, Goto(t, loc, l),
             state' \in Words, UNCHANGED writer_notify
      PROVE  TypeOK'
  BY <1>a, GotoType DEF TypeOK
<1>b. ASSUME NEW new \in Words, NEW loc \in Locations, NEW retry \in Locations,
             CompareExchange(t, local[t].state, new, loc, retry), UNCHANGED writer_notify
      PROVE  TypeOK'
  BY <1>0, <1>b, CompareExchangeType DEF TypeOK
<1>c. AddReader(state) \in Words /\ AddReader(local[t].state) \in Words
  BY <1>0 DEF AddReader, Words
<1>1. CASE TryRead(t) \/ Read(t)
  <2>1. CASE is_read_lockable(state) /\ state' = AddReader(state) /\ Goto(t, "held_r", Fresh)
    BY <1>1, <1>a, <1>c, <2>1, FreshType DEF TryRead, Read, Call, Locations
  <2>2. CASE UNCHANGED state /\ Goto(t, "r_spin", Fresh)
    BY <1>0, <1>1, <1>a, <2>2, FreshType DEF TryRead, Read, Call, Locations
  <2>3. CASE UNCHANGED <<state, pc, local>>
    BY <1>1, <2>3 DEF TryRead, Read, Call, TypeOK
  <2>. QED
    BY <1>1, <2>1, <2>2, <2>3 DEF TryRead, Read
<1>2. CASE TryWrite(t) \/ Write(t)
  <2>0. /\ [state EXCEPT !.n = WRITE_LOCKED] = Word(WRITE_LOCKED, state.rw, state.ww)
        /\ Word(WRITE_LOCKED, state.rw, state.ww) \in Words
        /\ Word(WRITE_LOCKED, FALSE, FALSE) \in Words
    BY <1>0, WriteLockedType, WordType, WordParts, WordUpdate
  <2>1. CASE state' \in Words /\ Goto(t, "held_w", Fresh)
    BY <1>2, <1>a, <2>1, FreshType DEF TryWrite, Write, Call, Locations
  <2>2. CASE UNCHANGED state /\ Goto(t, "w_spin", Fresh)
    BY <1>0, <1>2, <1>a, <2>2, FreshType DEF TryWrite, Write, Call, Locations
  <2>3. CASE UNCHANGED <<state, pc, local>>
    BY <1>2, <2>3 DEF TryWrite, Write, Call, TypeOK
  <2>. QED
    BY <1>2, <2>0, <2>1, <2>2, <2>3 DEF TryWrite, Write
<1>3. CASE SpinRead(t) \/ SpinWrite(t)
  BY <1>0, <1>3, <1>a, SeeingType DEF SpinRead, SpinWrite, Spin, Locations
<1>4. CASE ReadContendedLock(t)
  BY <1>4, <1>b, <1>c DEF ReadContendedLock, Locations
<1>5. CASE ReadOverflow(t)
  BY <1>0, <1>5, <1>a, FreshType DEF ReadOverflow, Locations
<1>6. CASE ReadMarkWaiting(t)
  <2>1. [local[t].state EXCEPT !.rw = TRUE] \in Words
    BY <1>0 DEF Words
  <2>. QED
    BY <1>6, <1>b, <2>1 DEF ReadMarkWaiting, Locations
<1>7. CASE ReadFutexWait(t)
  <2>1. [local[t] EXCEPT !.has_slept = TRUE] \in Locals
    BY <1>0 DEF Locals
  <2>. QED
    BY <1>0, <1>7, <1>a, <2>1 DEF ReadFutexWait, Locations
<1>8. CASE ReadUnlock(t)
  <2>1. state.n - 1 \in Nat
    BY <1>8, OwnersCount, ConstantsAssumption DEF ReadUnlock, Readers, At
  <2>2. state' \in Words
    BY <1>0, <1>8, <2>1 DEF ReadUnlock, Words
  <2>. QED
    BY <1>8, <1>a, <2>2, SeeingType DEF ReadUnlock, Locations
<1>9. CASE WriteUnlock(t)
  <2>1. state' \in Words
    BY <1>0, <1>9 DEF WriteUnlock, Words
  <2>. QED
    BY <1>9, <1>a, <2>1, SeeingType DEF WriteUnlock, Locations
<1>10. CASE Downgrade(t) \/ DowngradeClear(t)
  <2>1. Downgrade(t) => state' \in Words
    BY <1>0 DEF Downgrade, Words
  <2>2. DowngradeClear(t) => state' \in Words
    BY <1>0 DEF DowngradeClear, Words
  <2>3. state' \in Words
    BY <1>10, <2>1, <2>2
  <2>. QED
    BY <1>10, <1>a, <2>3, FreshType DEF Downgrade, DowngradeClear, Locations
<1>11. CASE WriteContendedLock(t)
  <2>1. local[t].others \in BOOLEAN /\ local[t].state.ww \in BOOLEAN
    BY <1>0 DEF Locals, Words
  <2>2. PICK b \in BOOLEAN : b = (local[t].state.ww \/ local[t].others)
    BY <2>1
  <2>3. [local[t].state EXCEPT !.n = WRITE_LOCKED, !.ww = b]
           = Word(WRITE_LOCKED, local[t].state.rw, b)
    BY <1>0, WriteLockedType, WordUpdate2, Zenon
  <2>4. Word(WRITE_LOCKED, local[t].state.rw, b) \in Words
    BY <1>0, WriteLockedType, WordType, WordParts
  <2>. QED
    BY <1>11, <1>b, <2>2, <2>3, <2>4 DEF WriteContendedLock, Locations
<1>12. CASE WriteMarkWaiting(t)
  <2>1. [local[t].state EXCEPT !.ww = TRUE] \in Words
    BY <1>0 DEF Words
  <2>. QED
    BY <1>12, <1>b, <2>1 DEF WriteMarkWaiting, Locations
<1>13. CASE WriteLoadSeq(t)
  <2>1. [local[t] EXCEPT !.others = TRUE, !.seq = writer_notify] \in Locals
    BY <1>0 DEF Locals, TypeOK
  <2>. QED
    BY <1>0, <1>13, <1>a, <2>1 DEF WriteLoadSeq, Locations
<1>14. CASE WriteRecheck(t)
  BY <1>0, <1>14, <1>a, SeeingType DEF WriteRecheck, Locations
<1>15. CASE WriteFutexWait(t) \/ SpuriousWakeup(t)
  BY <1>0, <1>15, <1>a DEF WriteFutexWait, SpuriousWakeup, Locations
<1>16. CASE WakeOnlyWriters(t) \/ WakeWriterFirst(t) \/ WakeReaders(t)
  BY <1>16, <1>b, WordType DEF WakeOnlyWriters, WakeWriterFirst, WakeReaders, Locations
<1>17. CASE WakeNobody(t)
  BY <1>0, <1>17, <1>a, FreshType DEF WakeNobody, Locations
<1>18. CASE NotifyWriter(t)
  BY <1>18, GotoType, FreshType DEF NotifyWriter, Locations, TypeOK
<1>19. CASE WakeWriter(t)
  <2>1. Seeing(t, Word(0, TRUE, FALSE)) \in Locals
    BY WordType, SeeingType
  <2>2. pc' \in [Threads -> Locations]
    BY <1>19 DEF WakeWriter, Locations, TypeOK
  <2>3. local' \in [Threads -> Locals]
    BY <1>19, <2>1 DEF WakeWriter, TypeOK
  <2>. QED
    BY <1>19, <2>2, <2>3 DEF WakeWriter, TypeOK
<1>20. CASE WakeAllReaders(t)
  BY <1>20 DEF WakeAllReaders, Locations, TypeOK
<1>. QED
  BY <1>1, <1>2, <1>3, <1>4, <1>5, <1>6, <1>7, <1>8, <1>9, <1>10, <1>11, <1>12, <1>13, <1>14,
     <1>15, <1>16, <1>17, <1>18, <1>19, <1>20 DEF Step, Progress

(* What a step does to the owners and to the count: nothing, or what the   *)
(* abstract lock allows.                                                   *)
LEMMA StepOwners ==
  ASSUME TypeOK, OwnersAreCounted, NEW t \in Threads, Step(t)
  PROVE  \/ UNCHANGED <<Readers, Writers>> /\ state'.n = state.n
         \/ /\ Abstract!AcquireRead(t) /\ state.n < MAX_READERS
            /\ state'.n = state.n + 1
         \/ Abstract!ReleaseRead(t)  /\ state'.n = state.n - 1
         \/ Abstract!AcquireWrite(t) /\ state.n = 0 /\ state'.n = WRITE_LOCKED
         \/ Abstract!ReleaseWrite(t) /\ state'.n = 0
         \/ Abstract!Downgrade(t)    /\ state'.n = 1
<1> DEFINE Goal == \/ UNCHANGED <<Readers, Writers>> /\ state'.n = state.n
                   \/ /\ Abstract!AcquireRead(t) /\ state.n < MAX_READERS
                      /\ state'.n = state.n + 1
                   \/ Abstract!ReleaseRead(t)  /\ state'.n = state.n - 1
                   \/ Abstract!AcquireWrite(t) /\ state.n = 0 /\ state'.n = WRITE_LOCKED
                   \/ Abstract!ReleaseWrite(t) /\ state'.n = 0
                   \/ Abstract!Downgrade(t)    /\ state'.n = 1
<1> SUFFICES Goal
  OBVIOUS
<1>0. state \in Words /\ local[t].state \in Words /\ local[t] \in Locals
  BY DEF TypeOK, Locals
<1>a. ASSUME NEW w \in Words, is_read_lockable(w) \/ is_read_lockable_after_wakeup(w),
             w = state, state' = AddReader(w), pc' = [pc EXCEPT ![t] = "held_r"],
             pc[t] \in {"idle", "r_loop"}
      PROVE  Goal
  <2>1. state'.n = state.n + 1 /\ state.n < MAX_READERS
    BY <1>a DEF AddReader, Words, is_read_lockable, is_read_lockable_after_wakeup
  <2>2. Writers = {} /\ t \notin Readers
    BY <1>a, <2>1, OwnersCount, ConstantsAssumption DEF Readers, At, TypeOK, Words
  <2>3. Readers' = Readers \cup {t} /\ Writers' = Writers
    BY <1>a, <2>2, MoveOwners DEF Locations
  <2>. QED
    BY <2>1, <2>2, <2>3 DEF Abstract!AcquireRead
<1>b. ASSUME state'.n = state.n, NEW loc \in Locations, pc' = [pc EXCEPT ![t] = loc],
             t \notin Readers, t \notin Writers, loc # "held_w",
             loc \notin {"held_r", "down_clear", "down_wake"}
      PROVE  Goal
  BY <1>b, MoveOwners
<1>c. ASSUME state.n = 0, state'.n = WRITE_LOCKED, pc' = [pc EXCEPT ![t] = "held_w"]
      PROVE  Goal
  BY <1>c, MoveOwners, OwnersCount DEF Abstract!AcquireWrite, Locations
<1>1. CASE TryRead(t) \/ Read(t)
  <2>1. CASE is_read_lockable(state) /\ state' = AddReader(state) /\ Goto(t, "held_r", Fresh)
    BY <1>0, <1>1, <1>a, <2>1 DEF TryRead, Read, Call, Goto
  <2>2. CASE UNCHANGED state /\ Goto(t, "r_spin", Fresh)
    BY <1>1, <1>b, <2>2 DEF TryRead, Read, Call, Goto, Locations, Readers, Writers, At
  <2>3. CASE UNCHANGED <<state, pc, local>>
    BY <2>3 DEF Readers, Writers, At
  <2>. QED
    BY <1>1, <2>1, <2>2, <2>3 DEF TryRead, Read
<1>2. CASE TryWrite(t) \/ Write(t)
  <2>1. CASE state' = [state EXCEPT !.n = WRITE_LOCKED] /\ is_unlocked(state)
             /\ Goto(t, "held_w", Fresh)
    BY <1>0, <1>c, <2>1 DEF is_unlocked, Goto, Words
  <2>2. CASE state = Word(0, FALSE, FALSE) /\ state' = Word(WRITE_LOCKED, FALSE, FALSE)
             /\ Goto(t, "held_w", Fresh)
    BY <1>c, <2>2, WordType, WriteLockedType DEF Goto
  <2>3. CASE UNCHANGED state /\ Goto(t, "w_spin", Fresh)
    BY <1>2, <1>b, <2>3 DEF TryWrite, Write, Call, Goto, Locations, Readers, Writers, At
  <2>4. CASE UNCHANGED <<state, pc, local>>
    BY <2>4 DEF Readers, Writers, At
  <2>. QED
    BY <1>2, <2>1, <2>2, <2>3, <2>4 DEF TryWrite, Write
<1>3. CASE \/ SpinRead(t) \/ SpinWrite(t) \/ ReadOverflow(t) \/ ReadFutexWait(t)
           \/ WriteLoadSeq(t) \/ WriteRecheck(t) \/ WriteFutexWait(t) \/ WakeNobody(t)
           \/ NotifyWriter(t) \/ SpuriousWakeup(t)
  BY <1>3, <1>b DEF SpinRead, SpinWrite, Spin, ReadOverflow, ReadFutexWait, MustWaitToRead,
     WriteLoadSeq, WriteRecheck, WriteFutexWait, WakeNobody, NotifyWriter, SpuriousWakeup,
     Goto, Locations, Readers, Writers, At
<1>4. CASE ReadContendedLock(t)
  <2>1. CASE state = local[t].state /\ state' = AddReader(local[t].state)
             /\ pc' = [pc EXCEPT ![t] = "held_r"]
    BY <1>0, <1>4, <1>a, <2>1 DEF ReadContendedLock, CanReadLock
  <2>2. CASE state' = state /\ pc' = [pc EXCEPT ![t] = "r_loop"]
    BY <1>4, <1>b, <2>2 DEF ReadContendedLock, Locations, Readers, Writers, At
  <2>. QED
    BY <1>4, <2>1, <2>2 DEF ReadContendedLock, CompareExchange, Goto
<1>5. CASE ReadMarkWaiting(t)
  <2>1. state'.n = state.n /\ pc' = [pc EXCEPT ![t] = "r_loop"] /\ pc[t] = "r_loop"
    BY <1>0, <1>5 DEF ReadMarkWaiting, MustWaitToRead, CompareExchange, Goto, Words
  <2>. QED
    BY <1>b, <2>1 DEF Locations, Readers, Writers, At
<1>6. CASE WriteMarkWaiting(t)
  <2>1. state'.n = state.n /\ pc' = [pc EXCEPT ![t] = "w_loop"] /\ pc[t] = "w_loop"
    BY <1>0, <1>6 DEF WriteMarkWaiting, CompareExchange, Goto, Words
  <2>. QED
    BY <1>b, <2>1 DEF Locations, Readers, Writers, At
<1>7. CASE WriteContendedLock(t)
  <2>1. CASE state = local[t].state /\ pc' = [pc EXCEPT ![t] = "held_w"]
             /\ state' = [local[t].state EXCEPT !.n = WRITE_LOCKED, !.ww = @ \/ local[t].others]
    <3>1. state'.n = WRITE_LOCKED
      BY <1>0, <2>1, WriteLockedType DEF Words
    <3>. QED
      BY <1>7, <1>c, <2>1, <3>1 DEF WriteContendedLock, is_unlocked
  <2>2. CASE state' = state /\ pc' = [pc EXCEPT ![t] = "w_loop"]
    BY <1>7, <1>b, <2>2 DEF WriteContendedLock, Locations, Readers, Writers, At
  <2>. QED
    BY <1>7, <2>1, <2>2 DEF WriteContendedLock, CompareExchange, Goto
<1>8. CASE WakeOnlyWriters(t) \/ WakeWriterFirst(t) \/ WakeReaders(t)
  <2>0. \A rw, ww \in BOOLEAN : Word(0, rw, ww).n = 0
    BY WordType
  <2>1. state'.n = state.n
    BY <1>8, <2>0 DEF WakeOnlyWriters, WakeWriterFirst, WakeReaders, CompareExchange
  <2>2. /\ pc[t] \in {"wake", "wake2"}
        /\ \E loc \in {"notify", "notify2", "wake2", "wake_all", "idle"} : pc' = [pc EXCEPT ![t] = loc]
    BY <1>8 DEF WakeOnlyWriters, WakeWriterFirst, WakeReaders, CompareExchange, Goto
  <2>. QED
    BY <1>b, <2>1, <2>2 DEF Locations, Readers, Writers, At
<1>9. CASE ReadUnlock(t)
  <2>1. state'.n = state.n - 1 /\ pc[t] = "held_r"
    BY <1>0, <1>9 DEF ReadUnlock, Words
  <2>2. \E loc \in {"wake", "idle"} : pc' = [pc EXCEPT ![t] = loc]
    BY <1>9 DEF ReadUnlock, Goto
  <2>. QED
    BY <2>1, <2>2, MoveOwners DEF Abstract!ReleaseRead, Locations, Readers, Writers, At
<1>10. CASE WriteUnlock(t)
  <2>1. state'.n = 0 /\ t \in Writers
    BY <1>0, <1>10 DEF WriteUnlock, Words, Writers, At
  <2>2. \E loc \in {"wake", "idle"} : pc' = [pc EXCEPT ![t] = loc]
    BY <1>10 DEF WriteUnlock, Goto
  <2>. QED
    BY <2>1, <2>2, MoveOwners, OwnersCount DEF Abstract!ReleaseWrite, Locations
<1>11. CASE Downgrade(t)
  <2>1. state'.n = 1 /\ t \in Writers
    BY <1>0, <1>11 DEF Downgrade, Words, Writers, At
  <2>2. \E loc \in {"down_clear", "held_r"} : pc' = [pc EXCEPT ![t] = loc]
    BY <1>11 DEF Downgrade, Goto
  <2>3. Writers = {t} /\ Readers = {}
    BY <2>1, OwnersCount
  <2>4. Writers' = {} /\ Readers' = {t}
    BY <2>2, <2>3, MoveOwners DEF Locations
  <2>. QED
    BY <2>1, <2>3, <2>4 DEF Abstract!Downgrade
<1>12. CASE DowngradeClear(t)
  <2>1. state'.n = state.n
    BY <1>0, <1>12 DEF DowngradeClear, Words
  <2>. QED
    BY <1>12, <2>1 DEF DowngradeClear, Goto, Readers, Writers, At, TypeOK
<1>13. CASE WakeWriter(t)
  <2>1. UNCHANGED <<Readers, Writers>>
    BY <1>13 DEF WakeWriter, FutexWake, Readers, Writers, At
  <2>. QED
    BY <1>13, <2>1 DEF WakeWriter
<1>14. CASE WakeAllReaders(t)
  <2>1. UNCHANGED <<Readers, Writers>>
    BY <1>14 DEF WakeAllReaders, Readers, Writers, At
  <2>. QED
    BY <1>14, <2>1 DEF WakeAllReaders
<1>. QED
  BY <1>1, <1>2, <1>3, <1>4, <1>5, <1>6, <1>7, <1>8, <1>9, <1>10, <1>11, <1>12, <1>13, <1>14
     DEF Step, Progress

(* The count goes with the owners.                                         *)
LEMMA StepCounted ==
  ASSUME TypeOK, OwnersAreCounted, NEW t \in Threads, Step(t)
  PROVE  OwnersAreCounted'
<1>0. /\ IsFiniteSet(Readers) /\ Cardinality(Readers) \in Nat
      /\ MAX_READERS \in Nat \ {0} /\ WRITE_LOCKED = MAX_READERS + 1
      /\ state.n \in Nat
  BY FS_CardinalityType, ConstantsAssumption DEF OwnersAreCounted, WRITE_LOCKED, TypeOK, Words
<1>1. CASE UNCHANGED <<Readers, Writers>> /\ state'.n = state.n
  BY <1>1 DEF OwnersAreCounted
<1>2. CASE Abstract!AcquireRead(t) /\ state.n < MAX_READERS /\ state'.n = state.n + 1
  <2>1. Readers' = Readers \cup {t} /\ t \notin Readers /\ Writers' = {} /\ Writers = {}
    BY <1>2 DEF Abstract!AcquireRead
  <2>2. IsFiniteSet(Readers \cup {t}) /\ Cardinality(Readers \cup {t}) = Cardinality(Readers) + 1
    BY <1>0, <2>1, FS_AddElement
  <2>. QED
    BY <1>0, <1>2, <2>1, <2>2 DEF OwnersAreCounted
<1>3. CASE Abstract!ReleaseRead(t) /\ state'.n = state.n - 1
  <2>1. Readers' = Readers \ {t} /\ t \in Readers /\ Writers' = Writers
    BY <1>3 DEF Abstract!ReleaseRead
  <2>2. IsFiniteSet(Readers \ {t}) /\ Cardinality(Readers \ {t}) = Cardinality(Readers) - 1
    BY <1>0, <2>1, FS_RemoveElement
  <2>3. Writers = {} /\ state.n = Cardinality(Readers) /\ state.n <= MAX_READERS
    BY <2>1 DEF OwnersAreCounted
  <2>. QED
    BY <1>0, <1>3, <2>1, <2>2, <2>3 DEF OwnersAreCounted
<1>4. CASE Abstract!AcquireWrite(t) /\ state.n = 0 /\ state'.n = WRITE_LOCKED
  BY <1>0, <1>4 DEF OwnersAreCounted, Abstract!AcquireWrite
<1>5. CASE Abstract!ReleaseWrite(t) /\ state'.n = 0
  <2>1. Writers' = {} /\ Readers' = {}
    BY <1>5 DEF Abstract!ReleaseWrite, OwnersAreCounted
  <2>. QED
    BY <1>0, <1>5, <2>1, FS_EmptySet DEF OwnersAreCounted
<1>6. CASE Abstract!Downgrade(t) /\ state'.n = 1
  <2>1. Readers' = {t} /\ Writers' = {}
    BY <1>6 DEF Abstract!Downgrade
  <2>2. IsFiniteSet({t}) /\ Cardinality({t}) = 1
    BY FS_Singleton
  <2>. QED
    BY <1>0, <1>6, <2>1, <2>2 DEF OwnersAreCounted
<1>. QED
  BY <1>1, <1>2, <1>3, <1>4, <1>5, <1>6, StepOwners

(* A step of t changes nothing for the other threads, except that it may   *)
(* wake them.                                                              *)
LEMMA StepOthers ==
  ASSUME TypeOK, NEW t \in Threads, Step(t), NEW u \in Threads, u # t
  PROVE  /\ local'[u] = local[u]
         /\ \/ pc'[u] = pc[u]
            \/ pc[u] = "w_asleep" /\ pc'[u] = "w_spin" /\ WakeWriter(t)
            \/ pc[u] = "r_asleep" /\ pc'[u] = "r_spin" /\ WakeAllReaders(t)
<1>1. CASE WakeWriter(t)
  BY <1>1 DEF WakeWriter, FutexWake, At, TypeOK
<1>2. CASE WakeAllReaders(t)
  BY <1>2 DEF WakeAllReaders, TypeOK
<1>3. CASE TryRead(t) \/ Read(t) \/ TryWrite(t) \/ Write(t)
  BY <1>3 DEF TryRead, Read, TryWrite, Write, Goto, TypeOK
<1>4. CASE \/ SpinRead(t) \/ SpinWrite(t) \/ ReadOverflow(t) \/ ReadFutexWait(t)
           \/ WriteLoadSeq(t) \/ WriteRecheck(t) \/ WriteFutexWait(t) \/ WakeNobody(t)
           \/ NotifyWriter(t) \/ SpuriousWakeup(t)
           \/ ReadUnlock(t) \/ WriteUnlock(t) \/ Downgrade(t) \/ DowngradeClear(t)
  BY <1>4 DEF SpinRead, SpinWrite, Spin, ReadOverflow, ReadFutexWait, WriteLoadSeq,
     WriteRecheck, WriteFutexWait, WakeNobody, NotifyWriter, SpuriousWakeup, ReadUnlock,
     WriteUnlock, Downgrade, DowngradeClear, Goto, TypeOK
<1>5. CASE \/ ReadContendedLock(t) \/ ReadMarkWaiting(t) \/ WriteContendedLock(t)
           \/ WriteMarkWaiting(t) \/ WakeOnlyWriters(t) \/ WakeWriterFirst(t) \/ WakeReaders(t)
  BY <1>5 DEF ReadContendedLock, ReadMarkWaiting, WriteContendedLock, WriteMarkWaiting,
     WakeOnlyWriters, WakeWriterFirst, WakeReaders, CompareExchange, Goto, TypeOK
<1>. QED
  BY <1>1, <1>2, <1>3, <1>4, <1>5 DEF Step, Progress

(* The thread's own locals: others and seq are only assigned, together, by *)
(* WriteLoadSeq, and forgotten at the end of a call.                       *)
LEMMA StepSelf ==
  ASSUME TypeOK, OwnersAreCounted, WaitersCare, NEW t \in Threads, Step(t)
  PROVE  /\ local'[t].seq <= writer_notify
         /\ pc'[t] \in {"w_check", "w_wait", "w_asleep"} => local'[t].others
         /\ pc'[t] \in {"w_spin", "w_loop"} /\ pc[t] # "idle" => local'[t].others = local[t].others
<1> DEFINE Goal == /\ local'[t].seq <= writer_notify
                   /\ pc'[t] \in {"w_check", "w_wait", "w_asleep"} => local'[t].others
                   /\ pc'[t] \in {"w_spin", "w_loop"} /\ pc[t] # "idle"
                        => local'[t].others = local[t].others
<1> SUFFICES Goal
  OBVIOUS
<1>0. /\ local[t] \in Locals /\ state \in Words /\ writer_notify \in Nat
      /\ local[t].seq <= writer_notify /\ local[t].seq \in Nat
      /\ pc[t] \in {"w_check", "w_wait", "w_asleep"} => local[t].others
      /\ state' \in Words
  BY StepType DEF TypeOK, Locals, WaitersCare
<1>a. ASSUME NEW loc \in Locations, NEW l \in Locals, Goto(t, loc, l), l.seq <= writer_notify,
             loc \in {"w_check", "w_wait", "w_asleep"} => l.others,
             loc \in {"w_spin", "w_loop"} /\ pc[t] # "idle" => l.others = local[t].others
      PROVE  Goal
  <2>1. local'[t] = (IF loc \in Scoped THEN l ELSE Fresh) /\ pc'[t] = loc
    BY <1>a DEF Goto, TypeOK
  <2>. QED
    BY <1>0, <1>a, <2>1, FreshType DEF Scoped
<1>b. ASSUME NEW w \in Words, NEW loc \in Locations, Goto(t, loc, Seeing(t, w)),
             loc \in {"w_check", "w_wait", "w_asleep"} => local[t].others
      PROVE  Goal
  BY <1>0, <1>a, <1>b, SeeingType
<1>c. ASSUME NEW loc \in Locations, Goto(t, loc, Fresh), loc \notin {"w_check", "w_wait", "w_asleep"},
             loc \in {"w_spin", "w_loop"} => pc[t] = "idle"
      PROVE  Goal
  BY <1>0, <1>a, <1>c, FreshType
<1>1. CASE TryRead(t) \/ Read(t) \/ TryWrite(t) \/ Write(t)
  <2>1. CASE UNCHANGED <<pc, local>>
    BY <1>0, <2>1 DEF TypeOK
  <2>2. CASE Goto(t, "held_r", Fresh) \/ Goto(t, "r_spin", Fresh) \/ Goto(t, "held_w", Fresh)
    BY <1>c, <2>2 DEF Locations
  <2>3. CASE Goto(t, "w_spin", Fresh)
    BY <1>1, <1>c, <2>3 DEF Locations, TryRead, Read, TryWrite, Write, Call
  <2>. QED
    BY <1>1, <2>1, <2>2, <2>3 DEF TryRead, Read, TryWrite, Write
<1>2. CASE SpinRead(t) \/ SpinWrite(t)
  BY <1>0, <1>2, <1>b DEF SpinRead, SpinWrite, Spin, Locations
<1>3. CASE ReadOverflow(t) \/ WakeNobody(t) \/ NotifyWriter(t) \/ Downgrade(t) \/ DowngradeClear(t)
  BY <1>3, <1>c DEF ReadOverflow, WakeNobody, NotifyWriter, Downgrade, DowngradeClear, Locations
<1>4. CASE ReadFutexWait(t)
  <2>1. /\ [local[t] EXCEPT !.has_slept = TRUE] \in Locals
        /\ [local[t] EXCEPT !.has_slept = TRUE].seq = local[t].seq
    BY <1>0 DEF Locals
  <2>. QED
    BY <1>0, <1>4, <1>a, <2>1 DEF ReadFutexWait, Locations
<1>5. CASE \/ ReadContendedLock(t) \/ ReadMarkWaiting(t) \/ WriteContendedLock(t)
           \/ WriteMarkWaiting(t) \/ WakeOnlyWriters(t) \/ WakeWriterFirst(t) \/ WakeReaders(t)
  <2>1. \E loc \in {"held_r", "r_loop", "held_w", "w_loop", "notify", "notify2", "wake2",
                    "wake_all", "idle"} : Goto(t, loc, Seeing(t, state'))
    BY <1>5 DEF ReadContendedLock, ReadMarkWaiting, WriteContendedLock, WriteMarkWaiting,
       WakeOnlyWriters, WakeWriterFirst, WakeReaders, CompareExchange
  <2>. QED
    BY <1>0, <1>b, <2>1 DEF Locations
<1>6. CASE ReadUnlock(t) \/ WriteUnlock(t)
  BY <1>0, <1>6, <1>b DEF ReadUnlock, WriteUnlock, Locations
<1>7. CASE WriteLoadSeq(t)
  <2> DEFINE l == [local[t] EXCEPT !.others = TRUE, !.seq = writer_notify]
  <2>1. l \in Locals /\ l.seq = writer_notify /\ l.others = TRUE
    BY <1>0 DEF Locals
  <2>2. Goto(t, "w_check", l)
    BY <1>7 DEF WriteLoadSeq
  <2> HIDE DEF l
  <2>. QED
    BY <1>0, <1>a, <2>1, <2>2 DEF Locations
<1>8. CASE WriteRecheck(t)
  BY <1>0, <1>8, <1>b DEF WriteRecheck, Locations
<1>9. CASE WriteFutexWait(t) \/ SpuriousWakeup(t)
  BY <1>0, <1>9, <1>a DEF WriteFutexWait, SpuriousWakeup, Locations
<1>10. CASE WakeWriter(t)
  <2>0. Seeing(t, Word(0, TRUE, FALSE)).seq = local[t].seq
    BY SeeingType, WordType
  <2>1. local'[t].seq = local[t].seq
    BY <1>10, <2>0 DEF WakeWriter, TypeOK
  <2>2. pc'[t] \in {"idle", "wake2"}
    BY <1>10 DEF WakeWriter, FutexWake, At
  <2>. QED
    BY <1>0, <2>1, <2>2
<1>11. CASE WakeAllReaders(t)
  BY <1>0, <1>11 DEF WakeAllReaders
<1>. QED
  BY <1>1, <1>2, <1>3, <1>4, <1>5, <1>6, <1>7, <1>8, <1>9, <1>10, <1>11 DEF Step, Progress

(* The notification counter only grows, in wake_writer.                    *)
LEMMA StepNotify ==
  ASSUME NEW t \in Threads, Step(t)
  PROVE  \/ writer_notify' = writer_notify /\ ~(pc[t] \in {"notify", "notify2"})
         \/ NotifyWriter(t)
  BY DEF Step, Progress, TryRead, Read, TryWrite, Write, Call, SpinRead, SpinWrite, Spin,
     ReadOverflow, ReadFutexWait, MustWaitToRead, WriteLoadSeq, WriteRecheck, WriteFutexWait,
     WakeNobody, SpuriousWakeup, ReadUnlock, WriteUnlock, Downgrade, DowngradeClear,
     ReadContendedLock, ReadMarkWaiting, WriteContendedLock, WriteMarkWaiting,
     WakeOnlyWriters, WakeWriterFirst, WakeReaders, WakeWriter, WakeAllReaders

(* Writers that wait keep caring for the others.                           *)
LEMMA StepCare ==
  ASSUME TypeOK, OwnersAreCounted, WaitersCare, NEW t \in Threads, Step(t)
  PROVE  WaitersCare'
<1>1. writer_notify \in Nat /\ writer_notify <= writer_notify'
  BY StepNotify DEF TypeOK, NotifyWriter
<1>2. ASSUME NEW u \in Threads
      PROVE  /\ pc'[u] \in {"w_check", "w_wait", "w_asleep"} => local'[u].others
             /\ local'[u].seq <= writer_notify /\ local'[u].seq \in Nat
  <2>1. CASE u = t
    BY <2>1, StepSelf, StepType DEF TypeOK, Locals
  <2>2. CASE u # t
    BY <2>2, StepOthers DEF WaitersCare, TypeOK, Locals
  <2>. QED
    BY <2>1, <2>2
<1>3. writer_notify' \in Nat
  BY StepType DEF TypeOK
<1>. QED
  BY <1>1, <1>2, <1>3 DEF WaitersCare

(* Who changes a flag. The flag of the writers is taken off an unlocked    *)
(* word by a thread that goes on to notify; the flag of the readers by one *)
(* that goes on to wake them, and it is set only behind a writer that owns *)
(* the lock or waits for it. A new reader finds it off, unless it has been *)
(* a writer before.                                                        *)
LEMMA StepFlags ==
  ASSUME TypeOK, OwnersAreCounted, NEW t \in Threads, Step(t)
  PROVE  /\ state.ww /\ ~state'.ww => state.n = 0 /\ pc'[t] \in {"notify", "notify2"}
         /\ state.rw /\ ~state'.rw => /\ pc'[t] \in {"wake_all", "down_wake"}
                                      /\ pc[t] = "down_clear" \/ state.n = 0
         /\ ~state.rw /\ state'.rw => (state.n > MAX_READERS \/ state.ww) /\ state'.ww = state.ww
         /\ pc'[t] \in {"held_r", "down_wake"} =>
                 ~state'.rw \/ (pc[t] = "down_wake" /\ state' = state)
         /\ pc'[t] = "down_clear" => pc[t] = "held_w" /\ state'.rw
<1> DEFINE Goal ==
         /\ state.ww /\ ~state'.ww => state.n = 0 /\ pc'[t] \in {"notify", "notify2"}
         /\ state.rw /\ ~state'.rw => /\ pc'[t] \in {"wake_all", "down_wake"}
                                      /\ pc[t] = "down_clear" \/ state.n = 0
         /\ ~state.rw /\ state'.rw => (state.n > MAX_READERS \/ state.ww) /\ state'.ww = state.ww
         /\ pc'[t] \in {"held_r", "down_wake"} =>
                 ~state'.rw \/ (pc[t] = "down_wake" /\ state' = state)
         /\ pc'[t] = "down_clear" => pc[t] = "held_w" /\ state'.rw
<1> SUFFICES Goal
  OBVIOUS
<1>0. state \in Words /\ local[t] \in Locals /\ local[t].state \in Words /\ pc \in [Threads -> Locations]
  BY DEF TypeOK, Locals
<1>a. ASSUME state' = state, pc'[t] \notin {"held_r", "down_wake", "down_clear"}
      PROVE  Goal
  BY <1>a
<1>b. ASSUME NEW w \in Words, w = state, is_read_lockable(w) \/ is_read_lockable_after_wakeup(w),
             state' = AddReader(w), pc'[t] = "held_r"
      PROVE  Goal
  <2>1. state'.rw = state.rw /\ state'.ww = state.ww /\ ~state.rw
    BY <1>b DEF AddReader, Words, is_read_lockable, is_read_lockable_after_wakeup
  <2>. QED
    BY <1>b, <2>1
<1>c. ASSUME state'.rw = state.rw, state'.ww = state.ww \/ state'.ww = TRUE,
             pc'[t] \notin {"held_r", "down_wake", "down_clear"}
      PROVE  Goal
  BY <1>c
<1>1. CASE TryRead(t) \/ Read(t)
  <2>1. CASE is_read_lockable(state) /\ state' = AddReader(state) /\ Goto(t, "held_r", Fresh)
    BY <1>0, <1>b, <2>1 DEF Goto
  <2>2. CASE UNCHANGED state /\ (Goto(t, "r_spin", Fresh) \/ UNCHANGED pc) /\ pc[t] = "idle"
    BY <1>0, <1>a, <2>2 DEF Goto
  <2>. QED
    BY <1>1, <2>1, <2>2 DEF TryRead, Read, Call
<1>2. CASE TryWrite(t) \/ Write(t)
  <2>1. CASE state' = [state EXCEPT !.n = WRITE_LOCKED] /\ Goto(t, "held_w", Fresh)
    <3>1. state'.rw = state.rw /\ state'.ww = state.ww
      BY <1>0, <2>1 DEF Words
    <3>. QED
      BY <1>0, <1>c, <2>1, <3>1 DEF Goto
  <2>2. CASE state = Word(0, FALSE, FALSE) /\ state' = Word(WRITE_LOCKED, FALSE, FALSE)
             /\ Goto(t, "held_w", Fresh)
    <3>1. state'.rw = state.rw /\ state'.ww = state.ww
      BY <2>2, WordType, WriteLockedType
    <3>. QED
      BY <1>0, <1>c, <2>2, <3>1 DEF Goto
  <2>3. CASE UNCHANGED state /\ (Goto(t, "w_spin", Fresh) \/ UNCHANGED pc) /\ pc[t] = "idle"
    BY <1>0, <1>a, <2>3 DEF Goto
  <2>. QED
    BY <1>2, <2>1, <2>2, <2>3 DEF TryWrite, Write, Call
<1>3. CASE \/ SpinRead(t) \/ SpinWrite(t) \/ ReadOverflow(t) \/ ReadFutexWait(t)
           \/ WriteLoadSeq(t) \/ WriteRecheck(t) \/ WriteFutexWait(t) \/ WakeNobody(t)
           \/ NotifyWriter(t) \/ SpuriousWakeup(t)
  BY <1>0, <1>3, <1>a DEF SpinRead, SpinWrite, Spin, ReadOverflow, ReadFutexWait, WriteLoadSeq,
     WriteRecheck, WriteFutexWait, WakeNobody, NotifyWriter, SpuriousWakeup, Goto
<1>4. CASE ReadContendedLock(t)
  <2>1. CASE state = local[t].state /\ state' = AddReader(local[t].state) /\ pc'[t] = "held_r"
    BY <1>0, <1>4, <1>b, <2>1 DEF ReadContendedLock, CanReadLock
  <2>2. CASE state' = state /\ pc'[t] = "r_loop"
    BY <1>a, <2>2
  <2>. QED
    BY <1>0, <1>4, <2>1, <2>2 DEF ReadContendedLock, CompareExchange, Goto
<1>5. CASE ReadMarkWaiting(t)
  <2>1. pc'[t] = "r_loop"
    BY <1>0, <1>5 DEF ReadMarkWaiting, CompareExchange, Goto
  <2>2. CASE state = local[t].state /\ state' = [local[t].state EXCEPT !.rw = TRUE]
    <3>1. state'.ww = state.ww /\ state'.rw = TRUE
      BY <1>0, <2>2 DEF Words
    <3>2. state.n > MAX_READERS \/ state.ww
      BY <1>0, <1>5, <2>2, ConstantsAssumption DEF ReadMarkWaiting, MustWaitToRead, CanReadLock,
         is_read_lockable, has_reached_max_readers, Words
    <3>. QED
      BY <2>1, <3>1, <3>2
  <2>3. CASE state' = state
    BY <1>a, <2>1, <2>3
  <2>. QED
    BY <1>5, <2>2, <2>3 DEF ReadMarkWaiting, CompareExchange
<1>6. CASE WriteMarkWaiting(t)
  <2>1. pc'[t] = "w_loop"
    BY <1>0, <1>6 DEF WriteMarkWaiting, CompareExchange, Goto
  <2>2. state'.rw = state.rw /\ (state'.ww = state.ww \/ state'.ww = TRUE)
    BY <1>0, <1>6 DEF WriteMarkWaiting, CompareExchange, Words
  <2>. QED
    BY <1>c, <2>1, <2>2
<1>7. CASE WriteContendedLock(t)
  <2>1. pc'[t] \in {"held_w", "w_loop"}
    BY <1>0, <1>7 DEF WriteContendedLock, CompareExchange, Goto
  <2>2. CASE state = local[t].state
             /\ state' = [local[t].state EXCEPT !.n = WRITE_LOCKED, !.ww = @ \/ local[t].others]
    <3>1. PICK b \in BOOLEAN : b = (local[t].state.ww \/ local[t].others)
      BY <1>0 DEF Words, Locals
    <3>2. state' = Word(WRITE_LOCKED, local[t].state.rw, b)
      <4>1. [local[t].state EXCEPT !.n = WRITE_LOCKED, !.ww = b]
               = Word(WRITE_LOCKED, local[t].state.rw, b)
        BY <1>0, WriteLockedType, WordUpdate2, Zenon
      <4>. QED
        BY <2>2, <3>1, <4>1
    <3>3. state'.rw = state.rw /\ state'.ww = b
      <4>1. PICK r \in BOOLEAN : r = local[t].state.rw
        BY <1>0 DEF Words
      <4>2. Word(WRITE_LOCKED, r, b).rw = r /\ Word(WRITE_LOCKED, r, b).ww = b
        BY WriteLockedType, WordType, Zenon
      <4>3. state'.rw = r /\ state'.ww = b
        BY <3>2, <4>1, <4>2, Zenon
      <4>4. state.rw = r
        BY <2>2, <4>1, Zenon
      <4>. QED
        BY <4>3, <4>4, Zenon
    <3>4. b = state.ww \/ b = TRUE
      BY <1>0, <2>2, <3>1 DEF Words
    <3>. QED
      BY <1>c, <2>1, <3>3, <3>4
  <2>3. CASE state' = state
    BY <1>a, <2>1, <2>3
  <2>. QED
    BY <1>7, <2>2, <2>3 DEF WriteContendedLock, CompareExchange
<1>8. CASE WakeOnlyWriters(t) \/ WakeWriterFirst(t) \/ WakeReaders(t)
  <2>0. /\ \A rw, ww \in BOOLEAN : /\ Word(0, rw, ww).n = 0 /\ Word(0, rw, ww).rw = rw
                                   /\ Word(0, rw, ww).ww = ww
    BY WordType
  <2>1. CASE state' = state /\ pc'[t] \in {"wake2", "idle"}
    BY <1>a, <2>1
  <2>2. CASE state = Word(0, FALSE, TRUE) /\ state' = Word(0, FALSE, FALSE) /\ pc'[t] = "notify"
    BY <2>0, <2>2
  <2>3. CASE state = Word(0, TRUE, TRUE) /\ state' = Word(0, TRUE, FALSE) /\ pc'[t] = "notify2"
    BY <2>0, <2>3
  <2>4. CASE state = Word(0, TRUE, FALSE) /\ state' = Word(0, FALSE, FALSE) /\ pc'[t] = "wake_all"
    BY <2>0, <2>4
  <2>. QED
    BY <1>0, <1>8, <2>1, <2>2, <2>3, <2>4 DEF WakeOnlyWriters, WakeWriterFirst, WakeReaders,
       CompareExchange, Goto
<1>9. CASE ReadUnlock(t) \/ WriteUnlock(t)
  <2>1. pc'[t] \in {"wake", "idle"}
    BY <1>0, <1>9 DEF ReadUnlock, WriteUnlock, Goto
  <2>2. state'.rw = state.rw /\ state'.ww = state.ww
    BY <1>0, <1>9 DEF ReadUnlock, WriteUnlock, Words
  <2>. QED
    BY <1>c, <2>1, <2>2
<1>10. CASE Downgrade(t)
  <2>1. state'.rw = state.rw /\ state'.ww = state.ww /\ pc[t] = "held_w"
    BY <1>0, <1>10 DEF Downgrade, Words
  <2>2. pc'[t] = (IF state.rw THEN "down_clear" ELSE "held_r")
    BY <1>0, <1>10 DEF Downgrade, Goto
  <2>. QED
    BY <2>1, <2>2
<1>11. CASE DowngradeClear(t)
  <2>1. state'.rw = FALSE /\ state'.ww = state.ww /\ pc[t] = "down_clear" /\ pc'[t] = "down_wake"
    BY <1>0, <1>11 DEF DowngradeClear, Goto, Words
  <2>. QED
    BY <2>1
<1>12. CASE WakeWriter(t)
  <2>1. state' = state /\ pc'[t] \in {"idle", "wake2"}
    BY <1>12 DEF WakeWriter, FutexWake, At
  <2>. QED
    BY <1>a, <2>1
<1>13. CASE WakeAllReaders(t)
  <2>1. state' = state /\ pc'[t] = IF pc[t] = "wake_all" THEN "idle" ELSE "held_r"
    BY <1>13 DEF WakeAllReaders
  <2>. QED
    BY <1>13, <2>1 DEF WakeAllReaders
<1>. QED
  BY <1>1, <1>2, <1>3, <1>4, <1>5, <1>6, <1>7, <1>8, <1>9, <1>10, <1>11, <1>12, <1>13
     DEF Step, Progress

(* A lock with owners that are readers has sleeping readers only behind a  *)
(* sleeping writer, and downgrade finds the flag that it is about to clear. *)
LEMMA StepBehind ==
  ASSUME TypeOK, OwnersAreCounted, ReadersWaitBehindWriters, NEW t \in Threads, Step(t)
  PROVE  ReadersWaitBehindWriters'
<1>0. /\ state \in Words /\ state' \in Words
      /\ \A u \in Threads : u \in Readers <=> pc[u] \in {"held_r", "down_clear", "down_wake"}
      /\ \A u \in Threads : u \in Readers' <=> pc'[u] \in {"held_r", "down_clear", "down_wake"}
      /\ Readers \subseteq Threads /\ Readers' \subseteq Threads
  BY StepType DEF TypeOK, Readers, At
<1>1. ASSUME NEW u \in Threads, pc'[u] \in {"held_r", "down_wake"}
      PROVE  state'.rw => state'.ww
  <2>1. CASE u = t
    BY <1>1, <2>1, StepFlags DEF ReadersWaitBehindWriters
  <2>2. CASE u # t
    <3>1. pc[u] = pc'[u] /\ (state.rw => state.ww)
      BY <1>1, <2>2, StepOthers DEF ReadersWaitBehindWriters
    <3>2. state.n \in 1..MAX_READERS
      BY <1>0, <1>1, <3>1, OwnersCount
    <3>. QED
      BY <1>0, <3>1, <3>2, StepFlags, ConstantsAssumption DEF Words
  <2>. QED
    BY <2>1, <2>2
<1>2. ASSUME NEW u \in Threads, pc'[u] = "down_clear"
      PROVE  state'.rw /\ Readers' = {u}
  <2>1. CASE u = t
    <3>1. pc[t] = "held_w" /\ state'.rw
      BY <1>2, <2>1, StepFlags
    <3>2. t \in Writers /\ t \notin Readers /\ t \in Readers'
      BY <1>0, <1>2, <2>1, <3>1 DEF Writers, At
    <3>3. Readers = {}
      BY <3>2, OwnersCount
    <3>4. \A v \in Threads : v # t => v \notin Readers'
      BY <1>0, <3>3, StepOthers
    <3>. QED
      BY <1>0, <2>1, <3>1, <3>2, <3>4
  <2>2. CASE u # t
    <3>1. pc[u] = "down_clear" /\ state.rw /\ Readers = {u}
      BY <1>2, <2>2, StepOthers DEF ReadersWaitBehindWriters
    <3>2. state.n \in 1..MAX_READERS /\ Writers = {} /\ t \notin Readers
      BY <2>2, <3>1, OwnersCount
    <3>3. state'.rw
      BY <1>0, <3>1, <3>2, StepFlags
    <3>4. t \notin Readers'
      BY <1>0, <3>2, <3>3, StepFlags DEF Writers, At
    <3>5. \A v \in Threads : v # t => (v \in Readers' <=> v \in Readers)
      BY <1>0, StepOthers
    <3>. QED
      BY <1>0, <2>2, <3>1, <3>3, <3>4, <3>5
  <2>. QED
    BY <2>1, <2>2
<1>. QED
  BY <1>1, <1>2 DEF ReadersWaitBehindWriters

(* Where a step of t may lead.                                             *)
LEMMA StepArrives ==
  ASSUME TypeOK, NEW t \in Threads, Step(t)
  PROVE  /\ pc'[t] = "w_wait"   => state' = state /\ state.ww
         /\ pc'[t] = "w_asleep" => /\ WriteFutexWait(t) /\ pc[t] = "w_wait" /\ state' = state
                                   /\ local[t].seq = writer_notify
         /\ pc'[t] = "r_asleep" => state' = state /\ state.rw
<1>0. /\ state \in Words /\ local[t] \in Locals /\ local[t].state \in Words
      /\ pc \in [Threads -> Locations]
  BY DEF TypeOK, Locals
<1> DEFINE Elsewhere == pc'[t] \notin {"w_wait", "w_asleep", "r_asleep"}
<1>1. CASE TryRead(t) \/ Read(t) \/ TryWrite(t) \/ Write(t)
  <2>1. Elsewhere
    BY <1>0, <1>1 DEF TryRead, Read, TryWrite, Write, Call, Goto
  <2>. QED
    BY <2>1
<1>2. CASE \/ SpinRead(t) \/ SpinWrite(t) \/ ReadOverflow(t) \/ WriteLoadSeq(t) \/ WakeNobody(t)
           \/ NotifyWriter(t) \/ SpuriousWakeup(t) \/ ReadUnlock(t) \/ WriteUnlock(t)
           \/ Downgrade(t) \/ DowngradeClear(t)
  <2>1. Elsewhere
    BY <1>0, <1>2 DEF SpinRead, SpinWrite, Spin, ReadOverflow, WriteLoadSeq, WakeNobody,
       NotifyWriter, SpuriousWakeup, ReadUnlock, WriteUnlock, Downgrade, DowngradeClear, Goto
  <2>. QED
    BY <2>1
<1>3. CASE \/ ReadContendedLock(t) \/ ReadMarkWaiting(t) \/ WriteContendedLock(t)
           \/ WriteMarkWaiting(t) \/ WakeOnlyWriters(t) \/ WakeWriterFirst(t) \/ WakeReaders(t)
  <2>1. Elsewhere
    BY <1>0, <1>3 DEF ReadContendedLock, ReadMarkWaiting, WriteContendedLock, WriteMarkWaiting,
       WakeOnlyWriters, WakeWriterFirst, WakeReaders, CompareExchange, Goto
  <2>. QED
    BY <2>1
<1>4. CASE WakeWriter(t) \/ WakeAllReaders(t)
  <2>1. Elsewhere
    BY <1>4 DEF WakeWriter, WakeAllReaders, FutexWake, At
  <2>. QED
    BY <2>1
<1>5. CASE ReadFutexWait(t)
  BY <1>0, <1>5 DEF ReadFutexWait, Goto
<1>6. CASE WriteRecheck(t)
  BY <1>0, <1>6 DEF WriteRecheck, Goto
<1>7. CASE WriteFutexWait(t)
  BY <1>0, <1>7 DEF WriteFutexWait, Goto
<1>. QED
  BY <1>1, <1>2, <1>3, <1>4, <1>5, <1>6, <1>7 DEF Step, Progress

(* A writer that is about to sleep has its flag set or a notification to   *)
(* come.                                                                   *)
LEMMA StepNotified ==
  ASSUME TypeOK, OwnersAreCounted, WaitersCare, WaitIsNotified, NEW t \in Threads, Step(t)
  PROVE  WaitIsNotified'
<1> SUFFICES ASSUME NEW u \in Threads, pc'[u] = "w_wait", local'[u].seq = writer_notify'
             PROVE  state'.ww \/ \E v \in Threads : pc'[v] \in {"notify", "notify2"}
  BY DEF WaitIsNotified, At
<1>0. state \in Words /\ state' \in Words /\ writer_notify \in Nat
  BY StepType DEF TypeOK
<1>1. CASE u = t
  BY <1>1, StepArrives
<1>2. CASE u # t
  <2>1. pc[u] = "w_wait" /\ local'[u] = local[u]
    BY <1>2, StepOthers
  <2>2. ~NotifyWriter(t)
    BY <1>0, <2>1 DEF NotifyWriter, WaitersCare
  <2>3. writer_notify' = writer_notify /\ pc[t] \notin {"notify", "notify2"}
    BY <2>2, StepNotify
  <2>4. state.ww \/ \E v \in Threads : pc[v] \in {"notify", "notify2"}
    BY <2>1, <2>3 DEF WaitIsNotified, At
  <2>5. CASE state.ww
    BY <1>0, <2>5, StepFlags
  <2>6. ASSUME NEW v \in Threads, pc[v] \in {"notify", "notify2"}
        PROVE  pc'[v] \in {"notify", "notify2"}
    BY <2>3, <2>6, StepOthers
  <2>. QED
    BY <2>4, <2>5, <2>6
<1>. QED
  BY <1>1, <1>2

(* What a thread that wakes others, or waits to write, may do next.        *)
LEMMA StepLeaves ==
  ASSUME NEW t \in Threads, Step(t)
  PROVE  /\ pc[t] \in {"wake_all", "down_wake"} => WakeAllReaders(t)
         /\ pc[t] \in {"notify", "notify2"}     => NotifyWriter(t)
         /\ pc[t] \in {"wake_one", "wake_one2"} => WakeWriter(t)
         /\ pc[t] = "w_spin"  => SpinWrite(t)
         /\ pc[t] = "w_loop"  => WriteContendedLock(t) \/ WriteMarkWaiting(t) \/ WriteLoadSeq(t)
         /\ pc[t] = "w_check" => WriteRecheck(t)
         /\ pc[t] = "w_wait"  => WriteFutexWait(t)
         /\ pc[t] = "wake"    => WakeOnlyWriters(t) \/ WakeWriterFirst(t) \/ WakeReaders(t)
         /\ pc[t] = "wake2"   => WakeWriterFirst(t) \/ WakeReaders(t) \/ WakeNobody(t)
  BY DEF Step, Progress, TryRead, Read, TryWrite, Write, Call, SpinRead, SpinWrite, Spin,
     ReadOverflow, ReadFutexWait, MustWaitToRead, WriteLoadSeq, WriteRecheck, WriteFutexWait,
     WakeNobody, SpuriousWakeup, ReadUnlock, WriteUnlock, Downgrade, DowngradeClear,
     ReadContendedLock, ReadMarkWaiting, WriteContendedLock, WriteMarkWaiting,
     WakeOnlyWriters, WakeWriterFirst, WakeReaders, WakeWriter, WakeAllReaders, NotifyWriter

(* futex_wake on a word with sleepers wakes one of them.                   *)
LEMMA WakeWriterWakes ==
  ASSUME TypeOK, WaitersCare, NEW t \in Threads, WakeWriter(t),
         NEW u \in Threads, pc[u] = "w_asleep"
  PROVE  \E w \in Threads : pc'[w] = "w_spin" /\ local'[w].others
<1>1. PICK woken \in FutexWake(At({"w_asleep"})) :
           /\ \A v \in woken \cap Threads : pc'[v] = "w_spin"
           /\ \A v \in Threads \ {t} : local'[v] = local[v]
  BY DEF WakeWriter, TypeOK
<1>2. u \in At({"w_asleep"})
  BY DEF At
<1>3. PICK w \in At({"w_asleep"}) : woken = {w}
  BY <1>1, <1>2 DEF FutexWake
<1>4. w \in Threads /\ pc[w] = "w_asleep" /\ w # t
  BY <1>3 DEF At, WakeWriter
<1>. QED
  BY <1>1, <1>3, <1>4 DEF WaitersCare

(* A writer that keeps the flag for the others goes on doing so until it   *)
(* locks, with the flag set, or sleeps.                                    *)
LEMMA StepCaring ==
  ASSUME TypeOK, OwnersAreCounted, WaitersCare, NEW t \in Threads, Step(t), t \in Caring
  PROVE  \/ pc'[t] \in {"w_spin", "w_loop", "w_check", "w_wait"} /\ local'[t].others
         \/ pc'[t] = "held_w" /\ state'.ww
         \/ pc'[t] = "w_asleep"
<1>0. /\ state \in Words /\ local[t] \in Locals /\ local[t].state \in Words
      /\ pc \in [Threads -> Locations]
  BY DEF TypeOK, Locals
<1>1. local[t].others = TRUE /\ pc[t] \in {"w_spin", "w_loop", "w_check", "w_wait"}
  BY <1>0 DEF Caring, At, Locals
<1>2. ASSUME pc'[t] \in {"w_spin", "w_loop", "w_check", "w_wait"}
      PROVE  local'[t].others
  BY <1>1, <1>2, StepSelf
<1>3. CASE pc'[t] \notin {"w_spin", "w_loop", "w_check", "w_wait", "w_asleep"}
  <2>1. WriteContendedLock(t) /\ pc'[t] = "held_w"
    BY <1>0, <1>1, <1>3, StepLeaves DEF SpinWrite, Spin, WriteMarkWaiting, WriteLoadSeq,
       WriteRecheck, WriteFutexWait, WriteContendedLock, CompareExchange, Goto
  <2>2. state' = [local[t].state EXCEPT !.n = WRITE_LOCKED, !.ww = @ \/ local[t].others]
    BY <1>0, <2>1 DEF WriteContendedLock, CompareExchange, Goto
  <2>3. [local[t].state EXCEPT !.n = WRITE_LOCKED, !.ww = TRUE]
          = Word(WRITE_LOCKED, local[t].state.rw, TRUE)
    BY <1>0, WriteLockedType, WordUpdate2, Zenon
  <2>4. state' = Word(WRITE_LOCKED, local[t].state.rw, TRUE)
    <3>1. (local[t].state.ww \/ local[t].others) = TRUE
      BY <1>1
    <3>. QED
      BY <2>2, <2>3, <3>1, Zenon
  <2>5. state'.ww = TRUE
    BY <2>4 DEF Word
  <2>. QED
    BY <2>1, <2>5
<1>. QED
  BY <1>2, <1>3

(* No thread sleeps without a flag that will be seen or a wake-up that is  *)
(* under way.                                                              *)
LEMMA StepCovered ==
  ASSUME TypeOK, OwnersAreCounted, WaitersCare, WaitIsNotified, SleepersAreCovered,
         NEW t \in Threads, Step(t)
  PROVE  SleepersAreCovered'
<1>0. state \in Words /\ state' \in Words /\ pc \in [Threads -> Locations]
  BY StepType DEF TypeOK
<1>1. ASSUME NEW u \in Threads, pc'[u] = "r_asleep"
      PROVE  state'.rw \/ \E v \in Threads : pc'[v] \in {"wake_all", "down_wake"}
  <2>1. CASE u = t
    BY <1>1, <2>1, StepArrives
  <2>2. CASE u # t
    <3>1. pc[u] = "r_asleep" /\ ~WakeAllReaders(t)
      BY <1>1, <2>2, StepOthers DEF WakeAllReaders
    <3>2. pc[t] \notin {"wake_all", "down_wake"}
      BY <3>1, StepLeaves
    <3>3. CASE state.rw
      BY <1>0, <3>3, StepFlags
    <3>4. ASSUME NEW v \in Threads, pc[v] \in {"wake_all", "down_wake"}
          PROVE  pc'[v] = pc[v]
      BY <3>2, <3>4, StepOthers
    <3>. QED
      BY <3>1, <3>3, <3>4 DEF SleepersAreCovered, At
  <2>. QED
    BY <2>1, <2>2
<1> DEFINE Coming == \E v \in Threads : pc'[v] \in {"notify", "notify2", "wake_one", "wake_one2"}
           Cared  == \E v \in Threads : /\ pc'[v] \in {"w_spin", "w_loop", "w_check", "w_wait"}
                                        /\ local'[v].others
<1>2. ASSUME NEW u \in Threads, pc'[u] = "w_asleep"
      PROVE  state'.ww \/ Coming \/ Cared
  <2>1. CASE pc'[t] = "w_asleep"
    <3>1. pc[t] = "w_wait" /\ state' = state /\ local[t].seq = writer_notify
      BY <2>1, StepArrives
    <3>2. state.ww \/ \E v \in Threads : pc[v] \in {"notify", "notify2"}
      BY <3>1 DEF WaitIsNotified, At
    <3>3. ASSUME NEW v \in Threads, pc[v] \in {"notify", "notify2"}
          PROVE  pc'[v] = pc[v]
      BY <3>1, <3>3, StepOthers
    <3>. QED
      BY <3>1, <3>2, <3>3
  <2>2. CASE pc'[t] # "w_asleep"
    <3>1. u # t /\ pc[u] = "w_asleep"
      BY <1>2, <2>2, StepOthers
    <3>2. CASE state.ww
      BY <1>0, <3>2, StepFlags
    <3>3. ASSUME NEW v \in Threads, pc[v] \in {"notify", "notify2", "wake_one", "wake_one2"}
          PROVE  Coming \/ Cared
      <4>1. CASE v # t
        BY <3>3, <4>1, StepOthers
      <4>2. CASE pc[t] \in {"notify", "notify2"}
        <5>1. pc'[t] \in {"wake_one", "wake_one2"}
          BY <1>0, <4>2, StepLeaves DEF NotifyWriter, Goto
        <5>. QED
          BY <5>1
      <4>3. CASE pc[t] \in {"wake_one", "wake_one2"}
        BY <3>1, <4>3, StepLeaves, WakeWriterWakes
      <4>. QED
        BY <3>3, <4>1, <4>2, <4>3
    <3>4. ASSUME NEW v \in Caring PROVE state'.ww \/ Cared
      <4>1. CASE v # t
        <5>1. v \in Threads /\ pc'[v] = pc[v] /\ local'[v] = local[v]
          BY <3>4, <4>1, StepOthers DEF Caring, At
        <5>. QED
          BY <3>4, <5>1 DEF Caring, At
      <4>2. CASE v = t
        BY <2>2, <3>4, <4>2, StepCaring
      <4>. QED
        BY <4>1, <4>2
    <3>. QED
      BY <3>1, <3>2, <3>3, <3>4 DEF SleepersAreCovered, At
  <2>. QED
    BY <2>1, <2>2
<1>. QED
  BY <1>1, <1>2 DEF SleepersAreCovered, At, Caring

(* The words without owners.                                               *)
LEMMA FreeWords ==
  ASSUME NEW w \in Words, w.n = 0
  PROVE  /\ w.rw /\ w.ww   => w = Word(0, TRUE, TRUE)
         /\ w.rw /\ ~w.ww  => w = Word(0, TRUE, FALSE)
         /\ ~w.rw /\ w.ww  => w = Word(0, FALSE, TRUE)
  BY DEF Word, Words

(* A free lock with flags stays in somebody's care.                        *)
LEMMA StepServed ==
  ASSUME IInv, NEW t \in Threads, Step(t)
  PROVE  FlagsHaveServer'
<1> DEFINE Goal == \E v \in Threads : Serves(v)'
<1> SUFFICES ASSUME state'.n = 0, state'.rw \/ state'.ww PROVE Goal
  BY DEF FlagsHaveServer, is_unlocked
<1>0. /\ TypeOK /\ OwnersAreCounted /\ WaitersCare /\ ReadersWaitBehindWriters
      /\ state \in Words /\ local[t] \in Locals /\ local[t].state \in Words
      /\ pc \in [Threads -> Locations] /\ local \in [Threads -> Locals] /\ writer_notify \in Nat
      /\ state' \in Words
  BY StepType DEF IInv, TypeOK, Locals
<1>f. \A rw, ww \in BOOLEAN : /\ Word(0, rw, ww).n = 0 /\ Word(0, rw, ww).rw = rw
                              /\ Word(0, rw, ww).ww = ww
  BY WordType
<1>a. ASSUME state' = state, NEW u \in Threads, u # t, Serves(u)
      PROVE  Goal
  <2>1. pc'[u] = pc[u] /\ local'[u] = local[u]
    BY <1>0, <1>a, StepOthers DEF Serves, Caring, At
  <2>2. local[u].seq # writer_notify => local'[u].seq # writer_notify'
    BY <1>0, <2>1, StepNotify DEF NotifyWriter, WaitersCare, Locals
  <2>. QED
    BY <1>a, <2>1, <2>2 DEF Serves, Caring, At
<1>b. ASSUME state' = state, ~Serves(t)
      PROVE  Goal
  BY <1>a, <1>b DEF IInv, FlagsHaveServer, is_unlocked
<1>c. ASSUME state' = state, Serves(t) => pc'[t] \in {"w_spin", "w_loop", "w_check"} /\ t \in Caring
      PROVE  Goal
  <2>1. CASE ~Serves(t)
    BY <1>b, <1>c, <2>1
  <2>2. CASE Serves(t)
    <3>1. pc'[t] \in {"w_spin", "w_loop", "w_check"} /\ local'[t].others
      BY <1>0, <1>c, <2>2, StepCaring
    <3>. QED
      BY <3>1 DEF Serves, Caring, At
  <2>. QED
    BY <2>1, <2>2
<1>1. CASE TryRead(t) \/ Read(t) \/ TryWrite(t) \/ Write(t)
  <2>1. pc[t] = "idle"
    BY <1>1 DEF TryRead, Read, TryWrite, Write, Call
  <2>2. state' = state
    <3>1. CASE state' = AddReader(state)
      BY <1>0, <3>1 DEF AddReader, Words
    <3>2. CASE state' = [state EXCEPT !.n = WRITE_LOCKED]
      BY <1>0, <3>2, WriteLockedType DEF Words
    <3>3. CASE state' = Word(WRITE_LOCKED, FALSE, FALSE)
      BY <3>3, WordType, WriteLockedType
    <3>. QED
      BY <1>1, <3>1, <3>2, <3>3 DEF TryRead, Read, TryWrite, Write
  <2>. QED
    BY <1>b, <2>1, <2>2 DEF Serves, Caring, At
<1>2. CASE SpinRead(t) \/ ReadOverflow(t) \/ ReadFutexWait(t) \/ SpuriousWakeup(t) \/ WakeAllReaders(t)
  BY <1>2, <1>b DEF SpinRead, Spin, ReadOverflow, ReadFutexWait, MustWaitToRead, SpuriousWakeup,
     WakeAllReaders, Serves, Caring, At
<1>3. CASE SpinWrite(t) \/ WriteLoadSeq(t) \/ WriteRecheck(t) \/ WriteFutexWait(t)
  <2>1. state' = state /\ pc[t] \in {"w_spin", "w_loop", "w_check", "w_wait"}
    BY <1>3 DEF SpinWrite, Spin, WriteLoadSeq, WriteRecheck, WriteFutexWait
  <2>2. Serves(t) => t \in Caring /\ (pc[t] = "w_wait" => local[t].seq # writer_notify)
    BY <2>1 DEF Serves
  <2>3. Serves(t) => pc'[t] \in {"w_spin", "w_loop", "w_check"}
    BY <1>0, <1>3, <2>1, <2>2 DEF SpinWrite, Spin, WriteLoadSeq, WriteRecheck, WriteFutexWait, Goto,
       is_unlocked
  <2>. QED
    BY <1>c, <2>1, <2>2, <2>3
<1>4. CASE ReadContendedLock(t)
  <2>1. pc[t] = "r_loop"
    BY <1>4 DEF ReadContendedLock
  <2>2. state' = state
    BY <1>0, <1>4 DEF ReadContendedLock, CompareExchange, AddReader, Words
  <2>. QED
    BY <1>b, <2>1, <2>2 DEF Serves, Caring, At
<1>5. CASE ReadMarkWaiting(t)
  <2>1. pc[t] = "r_loop"
    BY <1>5 DEF ReadMarkWaiting, MustWaitToRead
  <2>2. CASE state' = state
    BY <1>b, <2>1, <2>2 DEF Serves, Caring, At
  <2>3. CASE state = local[t].state /\ state' = [local[t].state EXCEPT !.rw = TRUE]
    <3>1. state.n = 0 /\ ~state.rw /\ state'.rw
      BY <1>0, <1>5, <2>3 DEF ReadMarkWaiting, Words
    <3>2. state.ww
      BY <1>0, <3>1, StepFlags, ConstantsAssumption DEF Words
    <3>3. state = Word(0, FALSE, TRUE)
      BY <1>0, <3>1, <3>2, FreeWords
    <3>4. PICK u \in Threads : Serves(u)
      BY <3>1, <3>2 DEF IInv, FlagsHaveServer, is_unlocked
    <3>5. u # t /\ pc'[u] = pc[u] /\ local'[u] = local[u]
      BY <1>0, <2>1, <3>4, StepOthers DEF Serves, Caring, At
    <3>6. writer_notify' = writer_notify
      BY <1>5 DEF ReadMarkWaiting
    <3>7. state # Word(0, TRUE, FALSE)
      BY <3>1, <1>f
    <3>. QED
      BY <3>1, <3>3, <3>4, <3>5, <3>6, <3>7 DEF Serves, Caring, At
  <2>. QED
    BY <1>5, <2>2, <2>3 DEF ReadMarkWaiting, CompareExchange
<1>6. CASE WriteContendedLock(t) \/ WriteMarkWaiting(t)
  <2>1. state' = state /\ Goto(t, "w_loop", Seeing(t, state))
    <3>1. ASSUME WriteMarkWaiting(t), state = local[t].state,
                 state' = [local[t].state EXCEPT !.ww = TRUE]
          PROVE  FALSE
      BY <1>0, <3>1 DEF WriteMarkWaiting, is_unlocked, Words
    <3>2. ASSUME state' = [local[t].state EXCEPT !.n = WRITE_LOCKED, !.ww = @ \/ local[t].others]
          PROVE  FALSE
      <4>1. PICK b \in BOOLEAN : b = (local[t].state.ww \/ local[t].others)
        BY <1>0 DEF Words, Locals
      <4>2. [local[t].state EXCEPT !.n = WRITE_LOCKED, !.ww = b]
               = Word(WRITE_LOCKED, local[t].state.rw, b)
        BY <1>0, WriteLockedType, WordUpdate2, Zenon
      <4>3. state' = Word(WRITE_LOCKED, local[t].state.rw, b)
        BY <3>2, <4>1, <4>2
      <4>4. state'.n = WRITE_LOCKED
        BY <4>3 DEF Word
      <4>. QED
        BY <4>4, WriteLockedType
    <3>. QED
      BY <1>6, <3>1, <3>2 DEF WriteContendedLock, WriteMarkWaiting, CompareExchange
  <2>2. pc[t] = "w_loop"
    BY <1>6 DEF WriteContendedLock, WriteMarkWaiting
  <2>3. Serves(t) => t \in Caring
    BY <2>2 DEF Serves
  <2>4. pc'[t] = "w_loop"
    BY <1>0, <2>1 DEF Goto
  <2>. QED
    BY <1>c, <2>1, <2>3, <2>4
<1>7. CASE ReadUnlock(t)
  <2>1. pc[t] = "held_r" /\ state'.rw = state.rw /\ state'.ww = state.ww
    BY <1>0, <1>7 DEF ReadUnlock, Words
  <2>2. state'.ww
    BY <1>0, <2>1 DEF ReadersWaitBehindWriters
  <2>3. pc'[t] = "wake" /\ local'[t] = Seeing(t, state')
    BY <1>0, <1>7, <2>2 DEF ReadUnlock, Goto, Scoped, is_unlocked
  <2>4. local'[t].state = state'
    BY <1>0, <2>3, SeeingType
  <2>. QED
    BY <2>3, <2>4 DEF Serves
<1>8. CASE WriteUnlock(t)
  <2>1. pc'[t] = "wake" /\ local'[t] = Seeing(t, state')
    BY <1>0, <1>8 DEF WriteUnlock, Goto, Scoped
  <2>2. local'[t].state = state'
    BY <1>0, <2>1, SeeingType
  <2>. QED
    BY <2>1, <2>2 DEF Serves
<1>9. CASE Downgrade(t)
  BY <1>0, <1>9 DEF Downgrade, Words
<1>10. CASE DowngradeClear(t)
  <2>1. t \in Readers /\ state'.n = state.n
    BY <1>0, <1>10 DEF DowngradeClear, Readers, At, Words
  <2>. QED
    BY <1>0, <2>1, OwnersCount
<1>d. ASSUME ~Serves(t), state' = state \/ state' = Word(0, FALSE, FALSE)
      PROVE  Goal
  <2>1. state' = state
    BY <1>d, <1>f
  <2>. QED
    BY <1>b, <1>d, <2>1
<1>11. CASE WakeOnlyWriters(t)
  <2>1. state' = state /\ Goto(t, "wake2", Seeing(t, state)) /\ state # Word(0, FALSE, TRUE)
    BY <1>11, <1>f DEF WakeOnlyWriters, CompareExchange
  <2>2. pc'[t] = "wake2" /\ local'[t] = Seeing(t, state)
    BY <1>0, <2>1 DEF Goto, Scoped
  <2>3. local'[t].state = state
    BY <1>0, <2>2, SeeingType
  <2>4. state.rw
    BY <1>0, <2>1, FreeWords
  <2>. QED
    BY <2>1, <2>2, <2>3, <2>4 DEF Serves
<1>12. CASE WakeWriterFirst(t)
  <2>1. CASE state' = Word(0, TRUE, FALSE) /\ pc'[t] = "notify2"
    BY <2>1 DEF Serves
  <2>2. CASE state' = state /\ state # local[t].state
    <3>1. pc[t] \in {"wake", "wake2"} /\ local[t].state = Word(0, TRUE, TRUE)
      BY <1>12 DEF WakeWriterFirst
    <3>2. local[t].state # Word(0, FALSE, TRUE)
      BY <1>f, <3>1
    <3>3. ~Serves(t)
      BY <2>2, <3>1, <3>2 DEF Serves, Caring, At
    <3>. QED
      BY <1>b, <2>2, <3>3
  <2>. QED
    BY <1>0, <1>12, <2>1, <2>2 DEF WakeWriterFirst, CompareExchange, Goto
<1>13. CASE WakeReaders(t)
  <2>1. pc[t] \in {"wake", "wake2"} /\ local[t].state = Word(0, TRUE, FALSE)
    BY <1>13 DEF WakeReaders
  <2>2. state' = state /\ state # local[t].state
    BY <1>13, <1>f, <2>1 DEF WakeReaders, CompareExchange
  <2>3. local[t].state # Word(0, FALSE, TRUE)
    BY <1>f, <2>1
  <2>4. ~Serves(t)
    BY <2>1, <2>2, <2>3 DEF Serves, Caring, At
  <2>. QED
    BY <1>b, <2>2, <2>4
<1>14. CASE WakeNobody(t)
  <2>1. state' = state /\ pc[t] = "wake2"
        /\ local[t].state # Word(0, TRUE, TRUE) /\ local[t].state # Word(0, TRUE, FALSE)
    BY <1>14 DEF WakeNobody
  <2>2. ~(local[t].state = state /\ state.rw)
    BY <1>0, <2>1, FreeWords DEF Words
  <2>. QED
    BY <1>b, <2>1, <2>2 DEF Serves, Caring, At
<1>15. CASE NotifyWriter(t)
  <2>1. state' = state /\ pc[t] \in {"notify", "notify2"}
        /\ pc'[t] = IF pc[t] = "notify" THEN "wake_one" ELSE "wake_one2"
    BY <1>0, <1>15 DEF NotifyWriter, Goto
  <2>2. CASE Serves(t)
    BY <2>1, <2>2 DEF Serves, Caring, At
  <2>. QED
    BY <1>b, <2>1, <2>2
<1>16. CASE WakeWriter(t)
  <2>1. state' = state /\ pc[t] \in {"wake_one", "wake_one2"}
    BY <1>16 DEF WakeWriter
  <2>2. CASE Serves(t)
    <3>1. pc[t] = "wake_one2" /\ state = Word(0, TRUE, FALSE)
      BY <2>1, <2>2 DEF Serves, Caring, At
    <3>2. CASE \E u \in Threads : pc[u] = "w_asleep"
      <4>1. PICK w \in Threads : pc'[w] = "w_spin" /\ local'[w].others
        BY <1>0, <1>16, <3>2, WakeWriterWakes
      <4>. QED
        BY <4>1 DEF Serves, Caring, At
    <3>3. CASE ~\E u \in Threads : pc[u] = "w_asleep"
      <4>1. FutexWake(At({"w_asleep"})) = {{}}
        BY <3>3 DEF FutexWake, At
      <4>2. pc'[t] = "wake2" /\ local'[t] = Seeing(t, Word(0, TRUE, FALSE))
        BY <1>0, <1>16, <3>1, <4>1 DEF WakeWriter
      <4>3. local'[t].state = Word(0, TRUE, FALSE)
        <5>1. Word(0, TRUE, FALSE) \in Words
          BY DEF Word, Words
        <5>. QED
          BY <1>0, <4>2, <5>1, SeeingType, Zenon
      <4>4. state.rw
        BY <1>f, <3>1
      <4>. QED
        BY <2>1, <3>1, <4>2, <4>3, <4>4 DEF Serves
    <3>. QED
      BY <3>2, <3>3
  <2>. QED
    BY <1>b, <2>1, <2>2
<1>. QED
  BY <1>1, <1>2, <1>3, <1>4, <1>5, <1>6, <1>7, <1>8, <1>9, <1>10, <1>11, <1>12, <1>13, <1>14,
     <1>15, <1>16 DEF Step, Progress

(* The initial state satisfies the invariant.                              *)
LEMMA InitIInv == Init => IInv
<1> SUFFICES ASSUME Init PROVE IInv
  OBVIOUS
<1>1. /\ \A t \in Threads : pc[t] = "idle" /\ local[t] = Fresh
      /\ state = Word(0, FALSE, FALSE) /\ state.n = 0 /\ state.rw = FALSE /\ state.ww = FALSE
      /\ writer_notify = 0
  BY WordType DEF Init
<1>2. TypeOK
  <2>1. state \in Words
    BY <1>1 DEF Word, Words
  <2>2. pc \in [Threads -> Locations] /\ local \in [Threads -> Locals]
    BY FreshType DEF Init, Locations
  <2>. QED
    BY <1>1, <2>1, <2>2 DEF TypeOK
<1>3. Readers = {} /\ Writers = {}
  BY <1>1 DEF Readers, Writers, At
<1>4. OwnersAreCounted
  <2>1. IsFiniteSet(Readers) /\ Cardinality(Readers) = 0
    BY <1>3, FS_EmptySet, Zenon
  <2>2. 0 <= MAX_READERS
    BY ConstantsAssumption
  <2>. QED
    BY <1>1, <1>3, <2>1, <2>2, Zenon DEF OwnersAreCounted
<1>5. WaitersCare /\ ReadersWaitBehindWriters /\ WaitIsNotified
  <2>1. \A t \in Threads : local[t].seq = 0 /\ pc[t] = "idle"
    BY <1>1, FreshType, Zenon
  <2>2. WaitersCare
    BY <1>1, <2>1 DEF WaitersCare
  <2>3. ReadersWaitBehindWriters /\ WaitIsNotified
    BY <2>1 DEF ReadersWaitBehindWriters, WaitIsNotified
  <2>. QED
    BY <2>2, <2>3
<1>6. SleepersAreCovered /\ FlagsHaveServer
  BY <1>1 DEF SleepersAreCovered, FlagsHaveServer, At
<1>. QED
  BY <1>2, <1>4, <1>5, <1>6 DEF IInv

(* Every step preserves it.                                                *)
LEMMA NextIInv == IInv /\ [Next]_vars => IInv'
<1> SUFFICES ASSUME IInv, [Next]_vars PROVE IInv'
  OBVIOUS
<1>1. CASE UNCHANGED vars
  BY <1>1 DEF vars, IInv, TypeOK, OwnersAreCounted, WaitersCare, ReadersWaitBehindWriters,
     WaitIsNotified, SleepersAreCovered, FlagsHaveServer, Serves, Caring, Readers, Writers, At
<1>2. ASSUME NEW t \in Threads, Step(t) PROVE IInv'
  BY <1>2, StepType, StepCounted, StepCare, StepBehind, StepNotified, StepCovered, StepServed
     DEF IInv
<1>. QED
  BY <1>1, <1>2, NextIsStep

-----------------------------------------------------------------------------
(* The invariant holds in every reachable state.                           *)
THEOREM Invariance == Spec => []IInv
  BY InitIInv, NextIInv, PTL DEF Spec

(* The two words and every thread's locals have their types.               *)
THEOREM TypeCorrect == Spec => []TypeOK
<1>1. IInv => TypeOK
  BY DEF IInv
<1>. QED
  BY <1>1, Invariance, PTL

(* The word counts the owners of the lock exactly: any number of readers   *)
(* up to MAX_READERS, or one writer, and never both.                       *)
THEOREM CountIsExact == Spec => []CountMatchesOwners
<1>1. IInv => CountMatchesOwners
  BY FS_Singleton DEF IInv, OwnersAreCounted, CountMatchesOwners, is_write_locked
<1>. QED
  BY <1>1, Invariance, PTL

(* The debug_assert of read_unlock and the claim of downgrade hold.        *)
THEOREM AssertionsAreTrue == Spec => []AssertionsHold
<1>1. IInv => AssertionsHold
  BY DEF IInv, ReadersWaitBehindWriters, AssertionsHold
<1>. QED
  BY <1>1, Invariance, PTL

(* No thread sleeps unnoticed, and nobody walks away from a free lock that *)
(* others wait for: the safety core of the absence of lost wake-ups.       *)
THEOREM SleepersAreNoticed == Spec => []SleepersAreServed
<1>1. IInv => SleepersAreServed
  <2> SUFFICES ASSUME IInv PROVE SleepersAreServed
    OBVIOUS
  <2>1. FlagsAreServed
    BY DEF IInv, FlagsHaveServer, Serves, FlagsAreServed, At
  <2>. QED
    BY <2>1 DEF IInv, SleepersAreServed
<1>. QED
  BY <1>1, Invariance, PTL

(* The two words implement the reader-writer lock of RwLock: every step of *)
(* the code acquires, releases or downgrades as the abstract lock may, or  *)
(* leaves its owners alone.                                                *)
THEOREM Refinement == Spec => ImplementsRwLock
<1>1. Init => Abstract!Init
  BY DEF Init, Abstract!Init, Readers, Writers, At
<1>2. IInv /\ [Next]_vars => [Abstract!Next]_<<Readers, Writers>>
  <2> SUFFICES ASSUME IInv, [Next]_vars PROVE Abstract!Next \/ UNCHANGED <<Readers, Writers>>
    OBVIOUS
  <2>1. CASE UNCHANGED vars
    BY <2>1 DEF vars, Readers, Writers, At
  <2>2. ASSUME NEW t \in Threads, Step(t) PROVE Abstract!Next \/ UNCHANGED <<Readers, Writers>>
    BY <2>2, StepOwners DEF IInv, Abstract!Next
  <2>. QED
    BY <2>1, <2>2, NextIsStep
<1>. QED
  BY <1>1, <1>2, Invariance, PTL DEF Spec, ImplementsRwLock, Abstract!Spec
=============================================================================
