----------------------------- MODULE SyncWaker -----------------------------
(***************************************************************************)
(* How the channels block a thread, std/src/sync/mpmc/waker.rs and         *)
(* context.rs: a SyncWaker keeps the entries of the threads that wait for  *)
(* one side of a channel; each thread has a Context with a `select` word   *)
(* that says what became of its wait and a token to park on (ParkToken,    *)
(* which FutexParker implements). Whoever moves `select` away from         *)
(* "waiting" decides how the wait ends. A step with the lock of a waker    *)
(* held is one action: what it touches is either guarded by that lock or   *)
(* decided by a single compare_exchange per entry.                         *)
(***************************************************************************)
EXTENDS Naturals, Sequences, SequencesExt, FiniteSetsExt

CONSTANTS Threads,       \* the threads that use the channel
          Wakers         \* the two SyncWakers of the channel

VARIABLES selectors,     \* the entries of each waker, in order
          is_empty,      \* its flag, which is read without the lock
          select,        \* the Context of each thread: "waiting", "aborted",
                         \* "disconnected" or "operation",
          token          \* and the park token of the thread

wakerVars == <<selectors, is_empty, select, token>>

WakerInit == /\ selectors = [w \in Wakers |-> <<>>]
             /\ is_empty  = [w \in Wakers |-> TRUE]
             /\ select    = [t \in Threads |-> "waiting"]
             /\ token     = [t \in Threads |-> FALSE]

-----------------------------------------------------------------------------
(* The selectors become s, and is_empty is brought up to date.             *)
SetSelectors(w, s) == /\ selectors' = [selectors EXCEPT ![w] = s]
                      /\ is_empty'  = [is_empty EXCEPT ![w] = s = <<>>]

(* Context::with resets the context before the thread registers.           *)
register(t, w) ==
    /\ SetSelectors(w, Append(selectors[w], t))
    /\ select' = [select EXCEPT ![t] = "waiting"]
    /\ UNCHANGED token

unregister(t, w) ==
    /\ SetSelectors(w, RemoveFirst(selectors[w], t))
    /\ UNCHANGED <<select, token>>

\* Mutant of Selectable: takes an entry whose wait has been decided.
SelectableAny(t, w) == {i \in DOMAIN selectors[w] : selectors[w][i] # t}

(* The entries that a thread t may select: the ones of other threads whose *)
(* wait has not been decided.                                              *)
Selectable(t, w) == {i \in DOMAIN selectors[w] :
                       selectors[w][i] # t /\ select[selectors[w][i]] = "waiting"}

\* Mutant of notify: takes the first entry, whether or not it is waiting.
notify_first(t, w) ==
    IF is_empty[w] THEN UNCHANGED wakerVars
    ELSE /\ select' = [select EXCEPT ![Head(selectors[w])] =
                         IF @ = "waiting" THEN "operation" ELSE @]
         /\ token'  = [token EXCEPT ![Head(selectors[w])] = TRUE]
         /\ SetSelectors(w, Tail(selectors[w]))

(* try_select: the first entry whose thread is still waiting is selected,  *)
(* unparked and removed.                                                   *)
Candidate(t, w) == Min(Selectable(t, w))

try_select(t, w) ==
    LET u == selectors[w][Candidate(t, w)] IN
    /\ select' = [select EXCEPT ![u] = "operation"]
    /\ token'  = [token EXCEPT ![u] = TRUE]
    /\ SetSelectors(w, RemoveAt(selectors[w], Candidate(t, w)))

(* The part of notify with the lock held.                                  *)
notify(t, w) ==
    IF is_empty[w] \/ Selectable(t, w) = {} THEN UNCHANGED wakerVars ELSE try_select(t, w)

(* Every thread that is still waiting learns of the disconnection. The     *)
(* threads remove their entries themselves.                                *)
Disconnected(ws) == {u \in Threads : /\ select[u] = "waiting"
                                     /\ \E w \in ws : u \in ToSet(selectors[w])}

disconnect(ws) ==
    /\ select' = [u \in Threads |-> IF u \in Disconnected(ws) THEN "disconnected" ELSE select[u]]
    /\ token'  = [u \in Threads |-> u \in Disconnected(ws) \/ token[u]]
    /\ is_empty' = [w \in Wakers |-> IF w \in ws THEN selectors[w] = <<>> ELSE is_empty[w]]
    /\ UNCHANGED selectors

(* try_select(Selected::Aborted) on the thread's own context.              *)
try_abort(t) ==
    /\ select' = [select EXCEPT ![t] = IF @ = "waiting" THEN "aborted" ELSE @]
    /\ UNCHANGED <<selectors, is_empty, token>>

(* The thread's own park returns: with the token, or at the deadline.      *)
park(t) == /\ token' = [token EXCEPT ![t] = FALSE]
           /\ UNCHANGED <<selectors, is_empty, select>>
=============================================================================
