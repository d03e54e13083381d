---------------------------- MODULE FutexRwLock ----------------------------
(***************************************************************************)
(* The futex reader-writer lock, std/src/sys/sync/rwlock/futex.rs. The     *)
(* word `state` packs a reader count (WRITE_LOCKED for a writer) and two   *)
(* flags, "readers are asleep on state" and "writers are asleep on         *)
(* writer_notify"; writer_notify is a counter that only says that          *)
(* something happened. Every action is one access to one of the two words  *)
(* or one futex call, with the local decisions that lead to it.            *)
(***************************************************************************)
EXTENDS Naturals, FiniteSets

CONSTANTS Threads,        \* the threads that use the lock
          MaxCalls,       \* how often they ask for the lock, all together
          MAX_READERS,    \* the largest reader count, 2^30 - 2 in the code
          WakeReports     \* what futex_wake may answer when it woke a thread:
                          \* TRUE on most systems, FALSE on FreeBSD,
                          \* DragonFlyBSD and Fuchsia

ASSUME ConstantsAssumption ==
    /\ MaxCalls \in Nat
    /\ MAX_READERS \in Nat \ {0}
    /\ WakeReports \subseteq BOOLEAN /\ WakeReports # {}

VARIABLES state,          \* the word, as [n, rw, ww]
          writer_notify,  \* the notification counter
          pc,             \* where each thread is
          local,          \* the local variables of each thread's call
          calls           \* calls made so far, bounded by MaxCalls

vars == <<state, writer_notify, pc, local, calls>>

WRITE_LOCKED == MAX_READERS + 1
Word(n, rw, ww) == [n |-> n, rw |-> rw, ww |-> ww]

(* `state` of either contended loop and of wake_writer_or_readers,         *)
(* `has_slept` of read_contended, other_writers_waiting and `seq` of       *)
(* write_contended.                                                        *)
Fresh  == [state |-> Word(0, FALSE, FALSE), has_slept |-> FALSE,
           others |-> FALSE, seq |-> 0]

(***************************************************************************)
(* idle        outside the lock       held_r, held_w  owns a guard         *)
(* r_spin      read_contended spins   w_spin   write_contended spins       *)
(* r_loop      top of its loop        w_loop   top of its loop             *)
(* r_asleep    asleep on state        w_check  has loaded writer_notify    *)
(* w_wait      about to futex_wait    w_asleep asleep on writer_notify     *)
(* wake        in wake_writer_or_readers, wake2 after its first `if`       *)
(* notify, wake_one    in wake_writer, returning afterwards                *)
(* notify2, wake_one2  in wake_writer, looking at the readers afterwards   *)
(* wake_all    about to wake all the readers                               *)
(* down_clear, down_wake   in downgrade, already owning a read guard       *)
(***************************************************************************)
Scoped    == {"r_spin", "r_loop", "r_asleep", "w_spin", "w_loop", "w_check",
              "w_wait", "w_asleep", "wake", "wake2"}
At(locs) == {t \in Threads : pc[t] \in locs}

(* Thread t goes on at `loc` with the local variables l, which it forgets  *)
(* where they are out of scope or will not be read again.                  *)
Goto(t, loc, l) ==
    /\ pc'    = [pc EXCEPT ![t] = loc]
    /\ local' = [local EXCEPT ![t] = IF loc \in Scoped THEN l ELSE Fresh]

Seeing(t, word) == [local[t] EXCEPT !.state = word]

Init == /\ state = Word(0, FALSE, FALSE)
        /\ writer_notify = 0
        /\ pc    = [t \in Threads |-> "idle"]
        /\ local = [t \in Threads |-> Fresh]
        /\ calls = 0

-----------------------------------------------------------------------------
(* The predicates on a word. is_read_lockable also refuses an unlocked     *)
(* word with waiters: they are about to be woken and go first.             *)
is_unlocked(w) == w.n = 0

is_write_locked(w) == w.n = WRITE_LOCKED

\* Mutant of is_read_lockable: the count may reach WRITE_LOCKED.
is_read_lockable_overflow(w) == w.n <= MAX_READERS /\ ~w.rw /\ ~w.ww

\* Mutant of is_read_lockable: lets a reader in before the waiting readers.
is_read_lockable_barging(w) == w.n < MAX_READERS /\ ~w.ww

is_read_lockable(w) == w.n < MAX_READERS /\ ~w.rw /\ ~w.ww

is_read_lockable_after_wakeup(w) ==
    w.n < MAX_READERS /\ ~w.rw /\ ~is_write_locked(w) /\ ~is_unlocked(w)

has_reached_max_readers(w) == w.n = MAX_READERS

AddReader(w) == [w EXCEPT !.n = @ + 1]

(* compare_exchange: `new` is stored and the thread goes on at `loc`, or   *)
(* the thread learns the present value and goes on at `retry`.             *)
CompareExchange(t, old, new, loc, retry) ==
    \/ state = old /\ state' = new   /\ Goto(t, loc, Seeing(t, new))
    \/ state # old /\ state' = state /\ Goto(t, retry, Seeing(t, state))

(* Threads outside the lock ask for it, MaxCalls times at most in all.     *)
Call(t) == /\ pc[t] = "idle"
           /\ calls < MaxCalls
           /\ calls' = calls + 1
           /\ UNCHANGED writer_notify

-----------------------------------------------------------------------------
(* Readers                                                                 *)

TryRead(t) ==
    /\ Call(t)
    /\ \/ /\ is_read_lockable(state)
          /\ state' = AddReader(state) /\ Goto(t, "held_r", Fresh)
       \/ /\ ~is_read_lockable(state)
          /\ UNCHANGED <<state, pc, local>>

(* The load and the weak compare_exchange of read(): it takes the lock in  *)
(* the state that it loaded, or gives up for any reason.                   *)
Read(t) ==
    /\ Call(t)
    /\ \/ /\ is_read_lockable(state)
          /\ state' = AddReader(state) /\ Goto(t, "held_r", Fresh)
       \/ UNCHANGED state /\ Goto(t, "r_spin", Fresh)

(* spin_read and spin_write return the last value they loaded, after at    *)
(* most 100 loads.                                                         *)
Spin(t, from, to) ==
    /\ pc[t] = from
    /\ Goto(t, to, Seeing(t, state))
    /\ UNCHANGED <<state, writer_notify, calls>>

SpinRead(t) == Spin(t, "r_spin", "r_loop")

CanReadLock(l) ==
    \/ l.has_slept /\ is_read_lockable_after_wakeup(l.state)
    \/ is_read_lockable(l.state)

ReadContendedLock(t) ==
    /\ pc[t] = "r_loop"
    /\ CanReadLock(local[t])
    /\ CompareExchange(t, local[t].state, AddReader(local[t].state), "held_r", "r_loop")
    /\ UNCHANGED <<writer_notify, calls>>

(* assert!(!has_reached_max_readers(state)): the call panics.              *)
ReadOverflow(t) ==
    /\ pc[t] = "r_loop"
    /\ ~CanReadLock(local[t])
    /\ has_reached_max_readers(local[t].state)
    /\ Goto(t, "idle", Fresh)
    /\ UNCHANGED <<state, writer_notify, calls>>

(* The loop's path to futex_wait.                                          *)
MustWaitToRead(t) == /\ pc[t] = "r_loop"
                     /\ ~CanReadLock(local[t])
                     /\ ~has_reached_max_readers(local[t].state)

(* The readers waiting flag is set before the thread sleeps; a value seen  *)
(* with the flag is what it then waits on.                                 *)
ReadMarkWaiting(t) ==
    /\ MustWaitToRead(t)
    /\ ~local[t].state.rw
    /\ CompareExchange(t, local[t].state, [local[t].state EXCEPT !.rw = TRUE],
                       "r_loop", "r_loop")
    /\ UNCHANGED <<writer_notify, calls>>

(* futex_wait(&self.state, state | READERS_WAITING)                        *)
ReadFutexWait(t) ==
    /\ MustWaitToRead(t)
    /\ local[t].state.rw
    /\ Goto(t, IF state = local[t].state THEN "r_asleep" ELSE "r_spin",
            [local[t] EXCEPT !.has_slept = TRUE])
    /\ UNCHANGED <<state, writer_notify, calls>>

ReadUnlock(t) ==
    /\ pc[t] = "held_r"
    /\ state' = [state EXCEPT !.n = @ - 1]
    /\ Goto(t, IF is_unlocked(state') /\ state'.ww THEN "wake" ELSE "idle", Seeing(t, state'))
    /\ UNCHANGED <<writer_notify, calls>>

-----------------------------------------------------------------------------
(* Writers                                                                 *)

TryWrite(t) ==
    /\ Call(t)
    /\ \/ /\ is_unlocked(state)
          /\ state' = [state EXCEPT !.n = WRITE_LOCKED] /\ Goto(t, "held_w", Fresh)
       \/ /\ ~is_unlocked(state)
          /\ UNCHANGED <<state, pc, local>>

(* compare_exchange_weak(0, WRITE_LOCKED), which may fail for no reason.   *)
Write(t) ==
    /\ Call(t)
    /\ \/ /\ state = Word(0, FALSE, FALSE)
          /\ state' = Word(WRITE_LOCKED, FALSE, FALSE) /\ Goto(t, "held_w", Fresh)
       \/ UNCHANGED state /\ Goto(t, "w_spin", Fresh)

SpinWrite(t) == Spin(t, "w_spin", "w_loop")

WriteContendedLock(t) ==
    /\ pc[t] = "w_loop"
    /\ is_unlocked(local[t].state)
    /\ CompareExchange(t, local[t].state,
                       [local[t].state EXCEPT !.n = WRITE_LOCKED, !.ww = @ \/ local[t].others],
                       "held_w", "w_loop")
    /\ UNCHANGED <<writer_notify, calls>>

WriteMarkWaiting(t) ==
    /\ pc[t] = "w_loop"
    /\ ~is_unlocked(local[t].state) /\ ~local[t].state.ww
    /\ CompareExchange(t, local[t].state, [local[t].state EXCEPT !.ww = TRUE],
                       "w_loop", "w_loop")
    /\ UNCHANGED <<writer_notify, calls>>

(* From here on the thread keeps the flag for the others that may wait.    *)
WriteLoadSeq(t) ==
    /\ pc[t] = "w_loop"
    /\ ~is_unlocked(local[t].state) /\ local[t].state.ww
    /\ Goto(t, "w_check", [local[t] EXCEPT !.others = TRUE, !.seq = writer_notify])
    /\ UNCHANGED <<state, writer_notify, calls>>

\* Mutant of WriteRecheck: goes to sleep without looking at the word again.
WriteRecheckSkipped(t) ==
    /\ pc[t] = "w_check"
    /\ Goto(t, "w_wait", Seeing(t, state))
    /\ UNCHANGED <<state, writer_notify, calls>>

(* No sleep if the lock is free, or if the flag is gone.                   *)
WriteRecheck(t) ==
    /\ pc[t] = "w_check"
    /\ Goto(t, IF is_unlocked(state) \/ ~state.ww THEN "w_loop" ELSE "w_wait", Seeing(t, state))
    /\ UNCHANGED <<state, writer_notify, calls>>

(* futex_wait(&self.writer_notify, seq)                                    *)
WriteFutexWait(t) ==
    /\ pc[t] = "w_wait"
    /\ Goto(t, IF writer_notify = local[t].seq THEN "w_asleep" ELSE "w_spin", local[t])
    /\ UNCHANGED <<state, writer_notify, calls>>

\* Mutant of WriteUnlock: forgets the readers when no writer waits.
WriteUnlockWritersOnly(t) ==
    /\ pc[t] = "held_w"
    /\ state' = [state EXCEPT !.n = 0]
    /\ Goto(t, IF state'.ww THEN "wake" ELSE "idle", Seeing(t, state'))
    /\ UNCHANGED <<writer_notify, calls>>

WriteUnlock(t) ==
    /\ pc[t] = "held_w"
    /\ state' = [state EXCEPT !.n = 0]
    /\ Goto(t, IF state'.ww \/ state'.rw THEN "wake" ELSE "idle", Seeing(t, state'))
    /\ UNCHANGED <<writer_notify, calls>>

\* Mutant of Downgrade: unlocks first, and would take a read lock afterwards.
DowngradeUnlocks(t) ==
    /\ pc[t] = "held_w"
    /\ state' = [state EXCEPT !.n = 0]
    /\ Goto(t, IF state.rw THEN "down_clear" ELSE "held_r", Fresh)
    /\ UNCHANGED <<writer_notify, calls>>

(* fetch_add(READ_LOCKED - WRITE_LOCKED)                                   *)
Downgrade(t) ==
    /\ pc[t] = "held_w"
    /\ state' = [state EXCEPT !.n = 1]
    /\ Goto(t, IF state.rw THEN "down_clear" ELSE "held_r", Fresh)
    /\ UNCHANGED <<writer_notify, calls>>

(* fetch_sub(READERS_WAITING): sound only if the flag is still set.        *)
DowngradeClear(t) ==
    /\ pc[t] = "down_clear"
    /\ state' = [state EXCEPT !.rw = FALSE]
    /\ Goto(t, "down_wake", Fresh)
    /\ UNCHANGED <<writer_notify, calls>>

-----------------------------------------------------------------------------
(* Waking. wake_writer_or_readers is called with the word that the unlock  *)
(* left behind.                                                            *)

WakeOnlyWriters(t) ==
    /\ pc[t] = "wake"
    /\ local[t].state = Word(0, FALSE, TRUE)
    /\ CompareExchange(t, local[t].state, Word(0, FALSE, FALSE), "notify", "wake2")
    /\ UNCHANGED <<writer_notify, calls>>

\* Mutant of WakeWriterFirst: returns even if no writer was asleep.
WakeWriterFirstOnly(t) ==
    /\ pc[t] \in {"wake", "wake2"}
    /\ local[t].state = Word(0, TRUE, TRUE)
    /\ CompareExchange(t, local[t].state, Word(0, TRUE, FALSE), "notify", "idle")
    /\ UNCHANGED <<writer_notify, calls>>

(* Readers stay asleep, with their flag, while one writer is woken. When   *)
(* the lock has been taken it is no longer this thread's problem.          *)
WakeWriterFirst(t) ==
    /\ pc[t] \in {"wake", "wake2"}
    /\ local[t].state = Word(0, TRUE, TRUE)
    /\ CompareExchange(t, local[t].state, Word(0, TRUE, FALSE), "notify2", "idle")
    /\ UNCHANGED <<writer_notify, calls>>

\* Mutant of WakeReaders: clears the flag whatever has become of the word.
WakeReadersAlways(t) ==
    /\ pc[t] \in {"wake", "wake2"}
    /\ local[t].state = Word(0, TRUE, FALSE)
    /\ state' = [state EXCEPT !.rw = FALSE]
    /\ Goto(t, "wake_all", Fresh)
    /\ UNCHANGED <<writer_notify, calls>>

WakeReaders(t) ==
    /\ pc[t] \in {"wake", "wake2"}
    /\ local[t].state = Word(0, TRUE, FALSE)
    /\ CompareExchange(t, local[t].state, Word(0, FALSE, FALSE), "wake_all", "idle")
    /\ UNCHANGED <<writer_notify, calls>>

WakeNobody(t) ==
    /\ pc[t] = "wake2"
    /\ local[t].state \notin {Word(0, TRUE, TRUE), Word(0, TRUE, FALSE)}
    /\ Goto(t, "idle", Fresh)
    /\ UNCHANGED <<state, writer_notify, calls>>

(* wake_writer: first the counter, then futex_wake.                        *)
NotifyWriter(t) ==
    /\ pc[t] \in {"notify", "notify2"}
    /\ writer_notify' = writer_notify + 1
    /\ Goto(t, IF pc[t] = "notify" THEN "wake_one" ELSE "wake_one2", Fresh)
    /\ UNCHANGED <<state, calls>>

(* What futex_wake can wake: one of the sleeping threads, if any.          *)
FutexWake(sleepers) == IF sleepers = {} THEN {{}} ELSE {{w} : w \in sleepers}

(* A thread that woke no writer, or does not know, turns to the readers.   *)
WakeWriter(t) ==
    /\ pc[t] \in {"wake_one", "wake_one2"}
    /\ \E woken \in FutexWake(At({"w_asleep"})), reports \in WakeReports :
         LET return == pc[t] = "wake_one" \/ (reports /\ woken # {}) IN
         /\ pc' = [u \in Threads |-> IF u \in woken THEN "w_spin"
                                     ELSE IF u # t THEN pc[u]
                                     ELSE IF return THEN "idle" ELSE "wake2"]
         /\ local' = IF return THEN local
                     ELSE [local EXCEPT ![t] = Seeing(t, Word(0, TRUE, FALSE))]
    /\ UNCHANGED <<state, writer_notify, calls>>

(* futex_wake_all on state, for an unlock and for a downgrade.             *)
WakeAllReaders(t) ==
    /\ pc[t] \in {"wake_all", "down_wake"}
    /\ pc' = [u \in Threads |-> IF pc[u] = "r_asleep" THEN "r_spin"
                                ELSE IF u # t THEN pc[u]
                                ELSE IF pc[t] = "wake_all" THEN "idle" ELSE "held_r"]
    /\ UNCHANGED <<state, writer_notify, local, calls>>

(* Either kind of sleeper may wake up for no reason.                       *)
SpuriousWakeup(t) ==
    /\ \/ pc[t] = "r_asleep" /\ Goto(t, "r_spin", local[t])
       \/ pc[t] = "w_asleep" /\ Goto(t, "w_spin", local[t])
    /\ UNCHANGED <<state, writer_notify, calls>>

-----------------------------------------------------------------------------
(* The steps that the scheduler eventually lets a thread take. A guard is  *)
(* eventually dropped.                                                     *)
Progress(t) ==
    \/ SpinRead(t) \/ ReadContendedLock(t) \/ ReadOverflow(t) \/ ReadMarkWaiting(t)
    \/ ReadFutexWait(t) \/ ReadUnlock(t)
    \/ SpinWrite(t) \/ WriteContendedLock(t) \/ WriteMarkWaiting(t) \/ WriteLoadSeq(t)
    \/ WriteRecheck(t) \/ WriteFutexWait(t) \/ WriteUnlock(t) \/ DowngradeClear(t)
    \/ WakeOnlyWriters(t) \/ WakeWriterFirst(t) \/ WakeReaders(t) \/ WakeNobody(t)
    \/ NotifyWriter(t) \/ WakeWriter(t) \/ WakeAllReaders(t)

Finished == /\ calls = MaxCalls /\ \A t \in Threads : pc[t] = "idle"
            /\ UNCHANGED vars

Next == \/ \E t \in Threads : \/ TryRead(t) \/ Read(t) \/ TryWrite(t) \/ Write(t)
                              \/ Downgrade(t) \/ Progress(t) \/ SpuriousWakeup(t)
        \/ Finished

Spec == Init /\ [][Next]_vars

FairSpec == Spec /\ \A t \in Threads : WF_vars(Progress(t))

-----------------------------------------------------------------------------
Readers == At({"held_r", "down_clear", "down_wake"})
Writers == At({"held_w"})

(* The word counts the owners of the lock: the readers when there is no    *)
(* writer, WRITE_LOCKED when there is one, and never both. A reader count  *)
(* that reached WRITE_LOCKED, or a lost decrement, would break it.         *)
CountMatchesOwners ==
    \/ Writers = {} /\ state.n = Cardinality(Readers) /\ state.n <= MAX_READERS
    \/ Readers = {} /\ Cardinality(Writers) = 1 /\ is_write_locked(state)

(* The debug_assert of read_unlock: "It's impossible for a reader to be    *)
(* waiting on a read-locked RwLock, except if there is also a writer       *)
(* waiting", whenever a thread is about to call it. And the claim of       *)
(* downgrade: "Since we had the exclusive lock, nobody else can unset this *)
(* bit"; were it unset, the fetch_sub would borrow from the other fields.  *)
AssertionsHold ==
    \A t \in Threads : /\ pc[t] = "held_r" => (state.rw => state.ww)
                       /\ pc[t] = "down_clear" => state.rw

(* The writers in write_contended that keep the flag for the others.       *)
Caring == {t \in At({"w_spin", "w_loop", "w_check", "w_wait"}) : local[t].others}

(* No thread sleeps without its flag in the word, unless for a reader a    *)
(* thread is about to wake all the sleeping readers, and for a writer a    *)
(* notification is under way or a writer that has slept is about to put    *)
(* the flag back.                                                          *)
SleepersAreCovered ==
    /\ At({"r_asleep"}) # {} => state.rw \/ At({"wake_all", "down_wake"}) # {}
    /\ At({"w_asleep"}) # {} =>
          \/ state.ww
          \/ At({"notify", "notify2", "wake_one", "wake_one2"}) # {}
          \/ Caring # {}

(* Nobody unlocks a lock with waiters and walks away: while the lock is    *)
(* free and a flag is set, some thread is still in wake_writer_or_readers  *)
(* or a writer that was woken is about to take the lock.                   *)
FlagsAreServed ==
    is_unlocked(state) /\ (state.rw \/ state.ww) =>
       At({"wake", "wake2", "notify2", "wake_one2"}) # {} \/ Caring # {}

(* The flags do their work, from both ends.                                *)
SleepersAreServed == SleepersAreCovered /\ FlagsAreServed

(* Every read() and write() returns when every guard is dropped: no        *)
(* wake-up is lost. The calls are finitely many, so that all of them       *)
(* return exactly if the lock comes to rest again, always.                 *)
EveryCallReturns == []<>(\A t \in Threads : pc[t] = "idle")

(* The futex lock implements the abstract reader-writer lock.              *)
Abstract == INSTANCE RwLock WITH readers <- Readers, writers <- Writers

ImplementsRwLock == Abstract!Spec
=============================================================================
