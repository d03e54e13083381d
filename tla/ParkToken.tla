----------------------------- MODULE ParkToken -----------------------------
(***************************************************************************)
(* What park and unpark promise: every thread has a token that unpark      *)
(* makes available and park consumes. park returns only by consuming it,   *)
(* park_timeout may return without it, and no unpark is forgotten.         *)
(***************************************************************************)
EXTENDS Naturals

CONSTANT Unparkers   \* the threads that call unpark

VARIABLES token,     \* whether the token is available
          owner,     \* "running", "parked" or "timed"
          unparks    \* how often each thread has called unpark

vars == <<token, owner, unparks>>

Init == token = FALSE /\ owner = "running" /\ unparks = [u \in Unparkers |-> 0]

Unpark(u) == /\ unparks' = [unparks EXCEPT ![u] = @ + 1]
             /\ token' = TRUE /\ UNCHANGED owner

TakeToken == /\ owner = "running" /\ token
             /\ token' = FALSE /\ UNCHANGED <<owner, unparks>>

Park == /\ owner = "running" /\ ~token
        /\ owner' \in {"parked", "timed"} /\ UNCHANGED <<token, unparks>>

Return == /\ owner = "timed" \/ (owner = "parked" /\ token)
          /\ owner' = "running" /\ token' = FALSE /\ UNCHANGED unparks

Next == TakeToken \/ Park \/ Return \/ \E u \in Unparkers : Unpark(u)

Spec == Init /\ [][Next]_vars
=============================================================================
