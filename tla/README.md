# A TLA+ model of the synchronization core of the Rust standard library

The repository is the Rust standard library: `core`, `alloc`, `std` and their
support crates. Most of it is sequential code that its tests reach well. This
project models the part that they hardly reach: **the locks, the blocking
primitives and the channels of `std`**, in which a handful of atomic words and
the kernel's futex calls have to be right under every interleaving.

Contents: [inventory](#1-inventory) · [modules](#2-modules-and-the-code) ·
[runs](#3-what-the-runs-check) · [assumptions](#4-assumptions-of-the-model) ·
[proofs](#5-what-is-proved) · [limits](#6-what-is-not-modelled) ·
[plan](#7-plan) · [using it](#8-using-it)

## 1. Inventory

Paths are relative to `src/std/src/` unless they start with `alloc/`.

| component | state | operations | hard behaviour | correct when |
|---|---|---|---|---|
| **Futex mutex** `sys/sync/mutex/futex.rs` | one word: UNLOCKED, LOCKED, CONTENDED; the kernel's sleepers | `lock`, `try_lock`, `unlock` | `unlock` wakes one sleeper; a third thread may steal the mutex in between; stale view of the word before `futex_wait` | one owner; no sleeper is forgotten; every `lock` returns |
| **Futex RwLock** `sys/sync/rwlock/futex.rs` | `state` (reader count or write lock, READERS_WAITING, WRITERS_WAITING) and the counter `writer_notify` | `read`, `try_read`, `read_unlock`, `write`, `try_write`, `write_unlock`, `downgrade`, `wake_writer_or_readers` | two futexes; writers lock over the waiting bits; `downgrade` changes the word in two steps; `futex_wake` that cannot report | readers xor one writer; the flags cover the sleepers, and a free lock with a flag set has somebody at work on it; every call returns |
| **Futex Once** `sys/sync/once/futex.rs` | one word: INCOMPLETE, POISONED, RUNNING, COMPLETE, and the bit QUEUED | `call`, `wait`, the `CompletionGuard`, `state`/`set_state` through `&mut` | waiters queue before anybody runs; an initializer panics with waiters asleep | one initializer at a time; who returns finds it COMPLETE; all sleepers are woken |
| **Thread parker** `sys/sync/thread_parking/futex.rs` | one word: EMPTY, NOTIFIED, PARKED = EMPTY - 1 | `park`, `park_timeout`, `unpark` | `unpark` between the subtraction and the sleep; timeout against a late `unpark`; wrapping arithmetic | a token ends the park under way or the next one, and one only |
| **Futex condition variable** `sys/sync/condvar/futex.rs` | a counter, the mutex of the caller | `wait`, `wait_timeout`, `notify_one`, `notify_all` | a notification between the unlock and the sleep | no notification of a thread that waits is lost; `wait` returns with the mutex |
| **Kernel futex** `sys/pal/unix/futex.rs` | the queues of sleepers | `futex_wait`, `futex_wake`, `futex_wake_all` | compare and sleep are one step; results differ between systems | – (a premise of the above) |
| **Barrier** `sync/barrier.rs` | `count`, `generation_id` under a mutex, a condition variable | `wait` | a fast thread is back for the next generation while others of the last still sleep | each generation releases exactly its own threads |
| **Channel wakers** `sync/mpmc/{waker,context,select}.rs` | per side: the list of selectors, `is_empty`; per thread: `select` | `register`, `unregister`, `notify`, `disconnect`, `try_select`, `wait_until` | `notify` reads `is_empty` without the lock; a deadline races the selection | no entry is left behind; whoever must be woken is |
| **Bounded channel** `sync/mpmc/array.rs` | `head`, `tail`, the stamps and messages of the ring | `send`, `try_send`, `recv`, `try_recv` and the timed ones, `disconnect_senders`, `disconnect_receivers`, `discard_all_messages` | lock-free ring, laps, decisions on stale loads, disconnection under way | a FIFO queue of `cap` messages; nothing leaks; blocked threads are woken |
| **Handle counting** `sync/mpmc/counter.rs` | two counts, `destroy` | `acquire`, `release` | the last sender and the last receiver leave together | freed once, by the later one |
| **Unbounded channel** `sync/mpmc/list.rs` | linked blocks of 31 slots, index and block of `head` and of `tail`, WRITE/READ/DESTROY bits of each slot | as above, `len` | a block is installed in three stores while others wait; the receivers hand its destruction to one another; the last receiver leaves a half-initialized channel | as above, without a limit; no block is used after it is freed, none leaks; `len` is exact |
| **Rendezvous channel** `sync/mpmc/zero.rs` | two wakers under one mutex, packets on the stacks of waiting threads | as above | the partner uses the packet without the lock while the deadline passes | a message is handed over once, and never through a dead frame; nobody misses a partner |
| Channel front ends `sync/mpmc/mod.rs`, `sync/mpsc.rs`, `sync/oneshot.rs` | none | dispatch over the three flavours | – | – |
| Queue-based RwLock and Once `sys/sync/{rwlock,once}/queue.rs` | a word that is also the head of a list of nodes on stacks | as for the futex ones | list surgery under contention | as for the futex ones |
| **OnceLock, LazyLock** `sync/{once_lock,lazy_lock}.rs` | a Once and a cell; no flag of their own | `get`, `get_or_try_init` (`set`, `get_or_init`), `wait`, `force`, `force_mut`, `into_inner`, drop | initializers that panic or fail, readers at any moment, the state of the Once as the tag of a union | the state of the Once says what the cell holds; `f` runs once |
| Poisoning locks `sync/poison*` | a flag beside the lock | guards, `lock`, `clear_poison` | a panic while the guard lives | a panic in a guard is seen by the next owner |
| **Reentrant lock** `sync/reentrant_lock.rs` | a mutex, `owner` (read without the lock), `lock_count` | `lock`, `try_lock`, drop of a guard | `owner` is read while it changes; `lock_count` at its limit | only the owner of the mutex re-enters; the last guard unlocks |
| **Scoped threads** `thread/scoped.rs` | running count, panic flag, the main thread's handle | `scope`, `spawn`, `join` | the last thread decrements, then unparks; stray tokens; a failed spawn; results that borrow from the scope | `scope` returns when all have ended, and only then; no panic is swallowed |
| **Thread lifecycle** `thread/lifecycle.rs` | the packet with the result, shared by thread and handle | `spawn_unchecked`, `join`, drop of the packet | who lets go last runs the drop | `join` finds the result; it is dropped before the thread is counted out |
| Arc and Weak `alloc/src/sync.rs` | strong and weak counts | `clone`, `drop`, `upgrade`, `downgrade`, `get_mut`, `try_unwrap` | `is_unique` locks the weak count | dropped once; `get_mut` only when unique |
| Collections, buffered I/O, other platforms' locks, `core`, files, network, intrinsics, test harness | – | – | sequential, or thin layers over the system | – |

How they interact. The futex locks call the kernel futex. A condition variable
unlocks and locks the caller's mutex. The barrier is a client of a mutex and a
condition variable, and calls both in one critical section. A channel keeps
its waiting threads in wakers; a waker parks and unparks threads, and is
protected by a mutex; the last handle of a channel disconnects it. OnceLock
and LazyLock drive a Once and take its state for the tag of their cell; the
reentrant lock drives a mutex; the main thread of a scope parks until the last
thread of the scope, or the last handle of one, unparks it.

The hazards of all this code, each at its line and with the property that
covers it, are listed in `PROJECT.json`.

## 2. Modules and the code

The style is the same everywhere. `pc[t]` says where a thread is; one action is
one access to shared memory or one system call, so that every interleaving the
code admits is explored. What a function keeps in local variables over such a
point is a variable of the model (`state` in FutexMutex, `local` in
FutexRwLock, `pos` in ArrayChannel, the record `at` in ListChannel): a decision on a stale value stays one.
Clients (ReentrantLock, OnceCells, ScopedThreads, Barrier) extend the module of the
primitive that they use and take its actions as their own steps, so that they are
checked against the real primitive, not against its promise. Operators named
`...Blindly`, `...Quietly`, `...Skipped` and so on, marked *Mutant of*, are
deliberately wrong variants: used in place of the definition it precedes, each shows
that the property which ought to notice it does.

| module | models | notes |
|---|---|---|
| `FutexMutex` | the futex mutex | `Asleep` is the kernel's queue: wake picks any sleeper |
| `Mutex` | what it promises | a set of owners with at most one member |
| `ReentrantLock` | the reentrant lock over FutexMutex | `owner` is a set with at most one member; each access to `owner` or `lock_count` is a step; `CountMAX` stands for `u32::MAX` |
| `ReentrantLockProofs` | | theorems on the mutex and the reentrant lock |
| `FutexRwLock` | the futex RwLock | the word is the record `[n, rw, ww]` of its three fields; `n = WRITE_LOCKED` is one above `MAX_READERS`, as in the code's mask; `WakeReports` is the set of answers `futex_wake` may give after it woke a thread (FALSE on FreeBSD, DragonFlyBSD, Fuchsia) |
| `RwLock` | what it promises | readers, writers, and the atomic `downgrade` that lets no writer in between |
| `FutexRwLockProofs` | | theorems |
| `FutexOnce` | the futex Once | `call` and `wait` with `ignore_poisoning` either way; initializers that succeed, poison by `OnceState::poison`, or panic; `SetStateMut` for the access through `&mut` |
| `Once` | what it promises | |
| `OnceCells` | LazyLock and OnceLock over FutexOnce, and the bare Once | `kind` is chosen in the initial state; `cell` is the set of fields of the union that are initialized; every access to it is a step |
| `OnceCellsProofs` | | theorems on the Once and its cells |
| `FutexParker` | the futex parker | one owner, many unparkers; the word wraps at `StateMAX` |
| `ParkToken` | what it promises | one token |
| `ScopedThreads` | `thread::scope`, the packet of a thread, `join`, over FutexParker | the parker's owner is the main thread; a packet is dropped by whoever lets go of it last, in the order of the code: result, panic flag, count, unpark. A handle stays with the thread that spawned |
| `ScopedThreadsProofs` | | theorems on the parker and the scope |
| `FutexCondvar` | the futex condition variable | over a mutex in its abstract form (`owners`): FutexMutex shows that the real one implements it. `due` and `owed` are history variables: which waits a notification has to end |
| `Barrier` | the barrier | extends FutexCondvar: the condition variable and its mutex are those of the barrier's `lock` and `cvar`, and its steps are those of the barrier |
| `BarrierProofs` | | theorems on the condition variable and the barrier |
| `SyncWaker` | wakers, contexts, selection | extended by the three channels; a section under the waker's mutex is one step |
| `SyncWakerProofs` | | lemmas on the wakers, for the proofs of the channels |
| `ArrayChannel` | the bounded channel and its handles | stamps are numbers `lap + mark + index` with the bit widths of the code; the `destroy` flag and deallocation included |
| `ArrayChannelProofs` | | theorems |
| `BoundedChannel` | what a channel promises | a queue with `Send`, `Receive`, `Close`, `Discard` |
| `ListChannel` | the unbounded channel and its handles | an index is a position and a mark; positions per block are `LAP`, of which `LAP - 1` have slots; a block gets its number when it is published and is `live` until it is freed |
| `ZeroChannel` | the rendezvous channel, its handles and their cloning | a packet is `alive` while its thread is in the call; all that happens under the channel's mutex is one step |
| `Rendezvous` | what it promises | a message is offered, and handed over or taken back |
| `ZeroChannelProofs` | | theorems |
| `MCArrayChannel`, `MCListChannel` | symmetry sets for TLC | |

Refinement mappings. `ImplementsMutex` maps the owners to the threads between a
successful exchange and the release of the word. `ImplementsRwLock` counts a
downgrading thread as a reader from its first step. `ImplementsOnce` and
`ImplementsParkToken` read the abstract state off the word. In
`ImplementsChannel` a message is in the abstract queue from the successful
compare-and-swap of `tail` (not from the later store of the stamp, so the queue
holds messages whose sender has not written them yet) to the successful
compare-and-swap of `head`; the unbounded channel implements the same queue with a
capacity that its senders cannot reach, and its positions at the end of a block
carry no message. In `ImplementsRendezvous` a message changes hands when one thread
selects the other, before it is copied.

## 3. What the runs check

| run | instance | states | what it shows |
|---|---|---|---|
| `reentrant` | 3 threads, 6 calls in all, 2 on the mutex each, counts up to 2 | 401 863 | `owner` and `lock_count` belong to the owner of the mutex; no lost wake-up; every `lock` returns; refinement of Mutex |
| `rwlock` | 3 threads, 4 calls in all, `MAX_READERS` 2, `futex_wake` with and without an answer | 462 013 | the word counts its owners; the two assertions of the code hold; sleepers are covered and flags are served; every call returns, also where `futex_wake` is silent, as the comment in `wake_writer` claims; refinement with `downgrade` |
| `once` | Once, LazyLock and OnceLock, 3 threads, 1 call each and any number of `get` | 49 868 | the state of the Once is a true tag of the cell; returns only when COMPLETE; `state()` never meets its `unreachable!()`; every outcome reaches all who wait, even those who queued before the initializer started; refinement |
| `once_comment` | 3 threads | – | **violated**: see below |
| `scope` | main thread and 2 threads that spawn, join, park and unpark | 358 248 | `scope` returns, outlives every borrow and swallows no panic; `join` finds its result; the word is PARKED only inside `park`; refinement of the token |
| `condvar` | 3 threads, 2 calls each | 34 045 | notifications release whom they must; a wait under way at `notify_all` returns with the mutex |
| `barrier` | 3 threads, barrier for 2, 3 calls each | 49 172 | generations that overlap do not mix; a complete one lets all its threads go |
| `channel` | 2 senders, 1 receiver, capacity 2, 2 calls each | 1 032 634 | slots are exclusive on a ring that is lapped; FIFO refinement; "full" and "empty" are never false; wakers end empty, nothing leaks, freed once |
| `channel_live` | 1 sender, 2 receivers, capacity 1, receivers with and without a deadline | 450 720 | everybody asleep means nothing to do; disconnection ends every call |
| `list` | 2 senders × 2, 2 receivers with 3 receives in all, 2 slots per block | 963 346 | FIFO refinement across blocks; blocks are live when used and freed once; nothing leaks; `len` is exact |
| `list_live` | 2 senders, 1 receiver × 2, 1 slot per block, with and without a deadline | 117 509 | the waits for blocks, slots and messages end; disconnection ends every call |
| `zero` | 3 threads that send or receive, clone and drop handles | 166 538 | no packet is used after its frame is gone; no two threads miss each other; refinement of the rendezvous; selected and disconnected threads return |

**Bounds.** Three threads are the least for the typical failure of these locks (one
owner, one sleeper, one that steals in between). The RwLock has four calls for three
threads, so that one of them calls again and meets the traces of its own earlier
call. For the Once, which is run with one call each, and the mutex, the proofs cover
any number. `MAX_READERS` 2 and `CountMAX` 2 make the overflow checks reachable. In
the scope `MaxParks` is never reached; `MaxUnparks` leaves each thread one `unpark`
of its own. `cap` 1 and 2 are the two shapes of the ring, with and without an index
that wraps; four sends into two slots make two laps. `LAP` 2 and 3 are the two
shapes of a block, where every slot is the last one, and where a receiver may still
be reading the first slot when another takes the last; with four messages the
channel passes through three blocks. Three receives are the least with which one
receiver takes the last message of the first block, another finds the head at the
end of that block or holds an index and a block from either side of the move, and a
message of the second block is received, under the mark if the senders have filled
that block by then; which receiver makes how many of them is open. No run has blocks
of three slots, where the reader that inherits the destruction of a block has a
further slot to look at, nor two receivers that block in `list_live` (4.6 million
states for two receives), where one would wait for the other to move the head.
`MaxSpurious` bounds the spurious wake-ups of the condition variable, whose waiters
may always wake; elsewhere they are unbounded. `Wrap` (5 for the condition variable,
8 for the barrier) is the modulus of the condition variable's counter: small enough
that the counter wraps in the first of these runs, and larger than the number of
notifications that can fall between one waiter's load and its sleep: with exactly
`Wrap` of them the code too would lose one, and has no guard against it. `"timed"`
as the only kind of call in `channel` is the general case for safety: a timed call
may give up at any moment it can wait, or never. Receivers in `list` only try, since
blocking is the part it shares with `list_live`.

In `zero` deadlock is not checked: a thread may block in a send while it holds
the last handle of the receivers itself, and then nobody ever comes. That the
channel causes no other wait is `NoMissedPartner` and `WaitsEnd`. A sleeping
thread that spurious wake-ups may wake is not a deadlock for TLC; there the
invariants on sleepers and the liveness properties carry the claim.

**A disagreement found.** `once_comment`: the comments on the states of the Once
(`sys/sync/once/futex.rs:10` and `:12`) say that no thread uses the Once while it
is INCOMPLETE or POISONED. `wait` sets QUEUED and sleeps in both. The algorithm
copes, because `call` keeps the bit when it starts to run
(`SleepersAreCovered`, `OutcomeReachesWaiters`); the comments mislead whoever
would drop it.

## 4. Assumptions of the model

*Memory.* Steps interleave in one order. The futex locks decide on one word
each, whose modification order is such an order (the RwLock's second word is a
counter that is re-read); the channel uses `SeqCst` operations and fences where
it relates two words. That acquire and release publish the protected data is
not modelled.

*Kernel.* `futex_wait` compares and sleeps in one step; `futex_wake` wakes one
sleeper, any of them, or nobody if there is none. A wait may return for no
reason: with a timeout, on a signal (OpenBSD and DragonFlyBSD report it, Linux
and FreeBSD retry inside `futex_wait`), or for a wake meant for an earlier user
of the address.

*Fairness.* Weak fairness of each thread's steps inside a call: the operating
system runs every runnable thread. A sleeping thread has no such step until
it is woken. Nothing says that a thread ever makes another call. Guards are
dropped and initializers end (a program that keeps a guard blocks the others by
right). Deadlines pass; closures of scoped threads end and drop their handles. In the channel runs dropping a handle is not fair, so no
blocked thread owes its wake-up to a disconnection that happened to come. A spin
loop is the one load with which it ends (the loads before it change nothing),
and the code bounds it by a counter; the loops of the unbounded channel that wait
for a block or a slot are the step that finds it. Spurious wake-ups are never
assumed to happen.

*Form of the liveness properties.* Every run has finitely many calls, so "again and
again all threads are idle" (`[]<>`) says that each call returns, and is far cheaper
for TLC than one leads-to per thread.

## 5. What is proved

TLAPS proves, for every number of calls and, but for the exceptions below, for every
set of threads:

| module | theorems | obligations |
|---|---|---|
| `ReentrantLockProofs` | of the mutex: `Exclusion`, `NoLostWakeup`, `Refinement` of Mutex; of the lock: `UsesMutex`, `LockInvariance`, `FieldsGuarded`, `LockNoLostWakeup` | 240 |
| `FutexRwLockProofs` | `TypeCorrect`, `CountIsExact`, `AssertionsAreTrue`, `SleepersAreNoticed`, `Refinement` of RwLock | 1582 |
| `OnceCellsProofs` | of the Once: `OneInitializer`, `InitializedForGood`, `NoLostWakeup`, `ExclusiveAccess`, `Refinement` of Once; of the cells: `UsesOnce`, `CellInvariance`, `StateIsDiscriminant` | 678 |
| `ScopedThreadsProofs` | of the parker: `TypeCorrect`, `WordTellsOwner`, `NoLostUnpark`, `Refinement` of ParkToken; of the scope: `ScopeUsesParker`, `ScopeParker`, `ScopeIsSound`, `OutcomesSurface`, `ScopeIsNotStranded` | 575 |
| `BarrierProofs` | of the condition variable: `CondvarReleases`, `CondvarReleasesInFewCalls`; of the barrier: `CountIsExact`, `GenerationsAreFull`, `GenerationsAreReleased`, `GenerationsAreReleasedInFewCalls` | 1119 |
| `SyncWakerProofs` | lemmas: what `register`, `unregister`, `notify`, `disconnect` and `try_select` do to the entries of every thread | 342 |
| `ZeroChannelProofs` | `NothingIsUsedAfterwards`, `PartnersMeet`, `DecidedAreUnparked`, `Refinement` of Rendezvous | 2953 |
| `ArrayChannelProofs` | `CoreInvariance`, `ExclusiveSlots`, `NotReadyTheorem`, `Refinement` of BoundedChannel, `EntriesInvariance`, `NoLeaks`, `ArrayInvariance`, `NoWakeupIsLost`, `DecidedAreUnparked` | 5572 |

From which assumptions: the bounds on calls are natural numbers; the parker's word
has at least three values; `MAX_READERS` and the limit of `lock_count` are at least one;
a zero-capacity channel has its two wakers, and one thread starts with the handles; a bounded
channel has a positive capacity (as `with_capacity` asserts), two wakers, and at least one
handle on each side, as `mpmc::channel` returns them. The set
of threads of a scope is finite, since the code counts it. Otherwise nothing is
assumed of the set of threads, not even that it is finite, except in the two
theorems `...InFewCalls`.

*Mutex.* The inductive invariant is `TypeOK`, `MutualExclusion`,
`WordMatchesOwner` and `SleepersAreCovered`. Exclusion alone is not inductive:
that an exchange from UNLOCKED meets no owner needs `WordMatchesOwner` (the word
is UNLOCKED exactly when there is no owner). `SleepersAreCovered` is: while a
thread sleeps the word is CONTENDED, or some thread is on its way to look at the
word as one that has waited (and will leave it CONTENDED), or is about to call
`futex_wake`.

*Parker.* `TypeOK`, `ParkedOnlyInside` and `SleeperIsCovered`. The subtraction
wraps only from EMPTY, since outside `park` the word is never PARKED: this is
what `ParkedOnlyInside` keeps through the timeout path, where the owner swaps
EMPTY in after a wake-up that may or may not have come with a token.

*Once.* `TypeOK`, `RunningMatchesWord`, `SeenIsPast`, `ReturnsInitialized`,
`SleepersAreCovered` and `QueuedHasWaiter`. `SeenIsPast` relates a thread's
stale copy of the word to the present one: COMPLETE is final, so a thread that
saw it may return on the stale value. `QueuedHasWaiter` (a QUEUED word has a
thread inside a call) gives `ExclusiveAccess`: with `&mut` access there is no
such thread, so `state()` meets no QUEUED bit.

*Reentrant lock.* A composition. `UsesMutex` proves that every step of the lock is a
step of the mutex, or leaves the mutex alone: it unlocks only what it holds. So
the lock inherits the theorems of the mutex (`LockNoLostWakeup`), and its own
invariant may use `MutualExclusion`. That invariant relates the place of each
thread in the lock to its place in the mutex, `owner` to the thread that holds
the mutex between its two stores, and `lock_count` to that thread's guards.
`contains`, an unprotected read, is right because `owner` can name a thread only
while that thread holds the mutex, and only that thread writes or clears its name.

*RwLock.* `OwnersAreCounted` relates the count in the word to the threads that hold
the lock, a downgrading one among them. The rest is about the flags.
`SleepersAreCovered`: a sleeping reader is announced by READERS_WAITING, or all readers
are about to be woken; a sleeping writer by WRITERS_WAITING, by a notification under
way, or by a writer that keeps the flag for the others. `FlagsHaveServer`: while the lock
is free and a flag is set, somebody serves it. A thread in `wake_writer_or_readers`
counts only if its compare-and-swap will find the word that it knows, a writer on its
way to `futex_wait` only if the counter has moved since it read it (`Serves`); the
property that the run checks says less and is not inductive. `ReadersWaitBehindWriters` (with
readers inside, READERS_WAITING comes with WRITERS_WAITING) is why the last reader's
unlock may expect WRITERS_WAITING, as its assertion says; while `downgrade` is between
its two steps READERS_WAITING stays set and no reader joins, which is why the
subtraction in its second step is sound. `WaitIsNotified`: a writer that is about
to sleep on the present value of `writer_notify` has its flag set, or a notification is
under way. `WaitersCare`: such a writer keeps the flag for others.

*Scope.* The invariant `ScopeIInv` says that the running count is the number of
threads whose packet has not been counted out (`CountIsExact`); who holds each packet, and that a
panic is in it, or on its way from there, until a `join` or the scope has it
(`Packets`); that what the main thread has seen stays true (`MainKnows`); that a count of zero
with a main thread that parks comes with a token or with the thread that is about to
bring it (`ScopeIsReleased`); and that only the closure and the loop of `scope` park.
The steps of the scope are steps of the parker (`ScopeUsesParker`), so the parker's
theorems carry over. `ScopeIsNotStranded` is the safety half of `ScopeReturns`: a
main thread that sleeps after the last thread was counted out has an `unpark` or a `futex_wake` to come.

*Condition variable and barrier.* `CvInv`: the mutex has the owner that the places of
the threads say; a waiter that `notify_all` has to release sleeps only until the
`futex_wake` that is still to come (`DueAreWoken`); a `notify_one` that owes somebody a release
finds only such threads asleep (`OwedIsFound`). This is false of the code if the
counter returns to a value that a waiter on its way to sleep has loaded. So one form of the
theorem assumes of the behaviour that no notification does so (`[][NoAba]_vars`), for any
set of threads; the other assumes instead that fewer calls are made in all than the counter
has values (`FewCalls`, which needs finitely many threads), and proves the rest from a bound on the counter. The steps
of the barrier are steps of the condition variable, and its invariant adds that
`count` is the number of threads that arrived in the generation under way, and that a full one has
its leader in the critical section (`FullIsHeld`). `CountIsExact` and
`GenerationsAreFull`, an action property, need no assumption on the counter; that a complete
generation leaves nobody asleep (`GenerationsAreReleased`) has the same two forms.

*Rendezvous channel.* The invariant `ZeroInv` relates a thread's place in its call to its
entries in the wakers (registered exactly while its wait is undecided), to its packet
(alive as long as it waits) and to its token (a thread that parks although its wait is
decided has it). `PairsAreExclusive`: a thread that uses a packet is the only one, and the
owner of the packet has been selected and cannot leave. `SelectedHavePartners`:
whoever is selected has a partner at work, or a packet that is ready. `NoMissedPartner` is part of
the induction; `ClosedInTurn` says how far the handles of each side, the disconnection
and the deallocation have come. In the refinement a selection is the transfer
of the message, the start of a call its offer or request, and leaving after the deadline or the
disconnection takes it back; every other step, the copying included, is a stutter.
An offer is fresh because `SentOK` bounds the messages there are, and
`PairsAreExclusive` makes the message in flight to a receiver unique.

*Bounded channel, the ring.* The positions of the ring are numbered in the order of their
use: `PosOf(k)` is the stamp of the k-th, `Ordinal` its inverse, and `Advance` takes one to the
next. That this holds for the stamps of the code rests on the mark bit, a power of two above the
capacity: a lemma shows that there is one between `cap + 1` and `2 cap + 1` (a least number
without one would have a predecessor with one, whose double will do). From then on the proofs
speak of `Sent`, `Received` and `Dropped`, how far the sends, the receives and the discarding
have come, and of the turn of each thread. The invariant `RingInv` says that `Received <= Sent <=
Received + cap`; that a position between the two has its message in its slot, with stamp
`PosOf(k) + 1`, or a sender at work on it; that one of the `cap` positions from `Received` on
that has not been sent has a free slot, with stamp `PosOf(k)`, or a receiver of the last lap still at work on it;
and what a thread knows of its turn. This last part is the point: a thread decides on a stale
stamp, and the invariant keeps what it saw only *if its turn is still the next one*, which is
what its compare-and-swap will find out. Two turns that share a slot are at least `cap` apart,
so a slot has one owner (`ExclusiveSlots`), and a thread that gives up saw a full or empty
channel at its last load (`NotReadyTheorem`). The refinement sends at the step of `tail` and
receives at the step of `head`; the message of a position whose sender has not written yet is
the one that this sender carries.

*Bounded channel, its end.* `EndInv`: the handles are those of the threads that have not begun
to leave; the one that leaves last on its side is the only one that disconnects; the tail is
marked from then on; the last receiver knows the final tail, discards up to it, and `destroy`
says whether one side is gone. With `EntriesOK` (registered exactly while blocking and
not selected) this gives `NoLeaks`.

*Bounded channel, blocking.* `NoLostWakeup` speaks of states in which everybody sleeps, and is far from
inductive. What is kept at every step is a count (`Covered`): while a receiver counts on being
woken (it has found the channel empty after it registered), there are at least as many helpers
as messages, where a helper is a receiver that looks at the channel or has been
selected, or a sender between its compare-and-swap of `tail` and the end of its `notify`; for the
senders, likewise with free slots, while the channel is connected. A send brings a message and a
helper; a receive takes a message, and becomes a helper of the senders; `notify` hands the role to the thread
that it selects, or finds that nobody counts on it; a thread stops looking only when the channel is
empty (or full). Nobody helps in a state in which all sleep, so the number of messages is zero.
The count needs that only finitely many threads are in a call at a time, which is an invariant,
not an assumption. `WillBeTold` covers the disconnection: in a marked channel an undecided thread
about to sleep is one that the thread at `disconnect` will reach. `DecidedAreUnparked`
adds the tokens, and is the safety half of `DisconnectEndsCalls`.

*LazyLock and OnceLock.* Again `UsesOnce` first, which brings the invariant of the
Once: one thread at a time is RUNNING, and COMPLETE is final. The invariant of the
cell says what it holds while nobody runs (`HoldsIn` of the state of the Once), and,
while the closure runs, at each of its steps. Taking `f` is safe because a closure
that saw INCOMPLETE, not POISONED, runs with the cell as it was created.

`MutualExclusion`, `RunningMatchesWord` and the type invariants are theorems only:
in the runs the refinements of `Mutex` and `Once` say as much.

The inductive invariants were checked with TLC before they were proved.

Only model-checked: every liveness property (the prover has no fairness), and the
unbounded channel (`BlocksAreLive`, `NothingLeaks`, `LenIsExact` and its refinement of
BoundedChannel): which blocks are live depends on who of several receivers inherits the
destruction of a block, an invariant of its own that has not been worked out.

## 6. What is not modelled

- The components of the inventory without a module; `PROJECT.json` gives each
  one's status and reason.
- Most of the repository by lines of code: the generated intrinsics of `stdarch`,
  the pure functions of `core`, collections, files, network and processes. They keep
  no concurrent state; nothing in them is hard to test in the way of the hazards
  listed here.
- `Sender::clone` and `Receiver::clone` (`counter.rs` `acquire`) except in
  `ZeroChannel`: elsewhere the threads start with their handles, which comes to the
  same once they have them. The aborts when a count of handles or of scoped threads
  overflows, and handles that are forgotten (`mem::forget`), are left out.
- `is_empty`, `is_full` and `capacity` of the channels as queries; inside the calls
  they are modelled. `len` is an operator, evaluated on the indices of every state.
- Observers of a waker, and packets on the heap: `std` never makes one.
- `OnceLock::take` on a cell that lives on: it puts a new Once in place, with no
  thread in a method, so the cell starts over in its initial state.
- Spawn hooks, names and stack sizes of threads.
- Poisoning, the channel front ends and `Arc`, for the reasons in `PROJECT.json`.
- Weak memory, and the data a lock protects.
- The wrap-around of 32- and 64-bit counters where a single call would have to
  last for a whole cycle (`writer_notify`, the condition variable's counter,
  `generation_id`, the laps of the ring). The code has no guard against it.
- The conversion of timeouts to absolute times in `futex_wait`.

## 7. Plan

Done: the futex mutex, RwLock, Once, parker, condition variable, the barrier, the
wakers and the three channels; the reentrant lock, LazyLock, OnceLock and scoped
threads over the primitives they use; six abstract specifications; proofs of all
safety properties of these but those of the unbounded channel.

Next, in this order:

1. Proofs for the unbounded channel: which blocks are live; its blocking is that of the
   bounded channel without the senders' half.
2. The queue-based RwLock and Once, further implementations of `RwLock` and `Once`.
3. Pure algorithms: the ring arithmetic of `VecDeque`, the partial writes of
   `BufWriter`.

## 8. Using it

    tlc -config FutexRwLock.cfg FutexRwLock      # a run; PROJECT.json lists them
    tlapm ReentrantLockProofs.tla                # a proof

A run named MC... checks the module of that name with symmetric threads, which is
sound for its invariants and safety properties; runs with liveness properties
have no symmetry.
