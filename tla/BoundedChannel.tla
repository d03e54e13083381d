--------------------------- MODULE BoundedChannel ---------------------------
(***************************************************************************)
(* What a bounded channel promises: a queue of at most `cap` messages. A   *)
(* receiver takes the oldest message, each message is taken once, nothing  *)
(* is sent into a closed channel, and only a closed channel drops messages.*)
(***************************************************************************)
EXTENDS Naturals, Sequences

CONSTANTS Receivers,   \* the threads that receive
          cap          \* the capacity

VARIABLES queue,       \* the messages in the channel, oldest first
          delivered,   \* what each receiver has taken, in order
          closed       \* whether one side of the channel is gone

vars == <<queue, delivered, closed>>

Init == queue = <<>> /\ delivered = [r \in Receivers |-> <<>>] /\ closed = FALSE

Send == /\ ~closed /\ Len(queue) < cap
        /\ Len(queue') = Len(queue) + 1 /\ SubSeq(queue', 1, Len(queue)) = queue
        /\ UNCHANGED <<delivered, closed>>

Receive(r) == /\ queue # <<>> /\ queue' = Tail(queue)
              /\ delivered' = [delivered EXCEPT ![r] = Append(@, Head(queue))]
              /\ UNCHANGED closed

Close == ~closed /\ closed' = TRUE /\ UNCHANGED <<queue, delivered>>

Discard == /\ closed /\ queue # <<>> /\ queue' = Tail(queue)
           /\ UNCHANGED <<delivered, closed>>

(* Most steps of a detailed channel change nothing here. Saying so first    *)
(* spares TLC the other disjuncts.                                         *)
Next == UNCHANGED vars \/ Send \/ Close \/ Discard \/ \E r \in Receivers : Receive(r)

Spec == Init /\ [][Next]_vars
=============================================================================
