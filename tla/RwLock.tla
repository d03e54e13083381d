------------------------------- MODULE RwLock -------------------------------
(***************************************************************************)
(* What a reader-writer lock promises its callers: any number of readers   *)
(* or one writer, and a writer that downgrades becomes a reader without    *)
(* letting another writer in.                                              *)
(***************************************************************************)
CONSTANT Threads             \* the threads of the process

VARIABLES readers, writers   \* the threads that own a guard of either kind

Init == readers = {} /\ writers = {}

AcquireRead(t) == /\ writers = {} /\ t \notin readers
                  /\ readers' = readers \cup {t} /\ UNCHANGED writers

ReleaseRead(t) == t \in readers /\ readers' = readers \ {t} /\ UNCHANGED writers

AcquireWrite(t) == /\ readers = {} /\ writers = {}
                   /\ writers' = {t} /\ UNCHANGED readers

ReleaseWrite(t) == writers = {t} /\ writers' = {} /\ UNCHANGED readers

Downgrade(t) == writers = {t} /\ writers' = {} /\ readers' = {t}

Next == \E t \in Threads : \/ AcquireRead(t)  \/ ReleaseRead(t)
                           \/ AcquireWrite(t) \/ ReleaseWrite(t)
                           \/ Downgrade(t)

Spec == Init /\ [][Next]_<<readers, writers>>
=============================================================================
