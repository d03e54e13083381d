------------------------------- MODULE Mutex -------------------------------
(***************************************************************************)
(* What a mutex promises its callers: at any time at most one thread is    *)
(* between a successful lock() or try_lock() and the matching unlock().    *)
(* The futex mutex of std is shown to implement this specification, and    *)
(* the modules of components built on a mutex use it in its place.         *)
(***************************************************************************)
CONSTANT Threads     \* the threads of the process

VARIABLE owners      \* the threads that own the mutex

Init == owners = {}

Acquire(t) == owners = {} /\ owners' = {t}

Release(t) == owners = {t} /\ owners' = {}

Next == \E t \in Threads : Acquire(t) \/ Release(t)

Spec == Init /\ [][Next]_owners
=============================================================================
