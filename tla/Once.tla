-------------------------------- MODULE Once --------------------------------
(***************************************************************************)
(* What a Once promises: initializers run one at a time, and none starts   *)
(* after one of them has succeeded. After a failure the Once is poisoned,  *)
(* and only a caller that ignores the poison may try again.                *)
(***************************************************************************)
CONSTANT Threads     \* the threads of the process

VARIABLES status,    \* "incomplete", "running", "poisoned" or "complete"
          runner     \* the threads that are running an initializer

vars == <<status, runner>>

Init == status = "incomplete" /\ runner = {}

Begin(t) == /\ status \in {"incomplete", "poisoned"} /\ runner = {}
            /\ status' = "running" /\ runner' = {t}

End(t) == /\ status = "running" /\ runner = {t}
          /\ status' \in {"complete", "poisoned"} /\ runner' = {}

(* Through a mutable reference nobody else can look while it happens.      *)
Exclusive == /\ status = "incomplete" /\ runner = {}
             /\ status' \in {"complete", "poisoned"} /\ UNCHANGED runner

Next == Exclusive \/ \E t \in Threads : Begin(t) \/ End(t)

Spec == Init /\ [][Next]_vars
=============================================================================
