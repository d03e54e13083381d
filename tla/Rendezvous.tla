----------------------------- MODULE Rendezvous -----------------------------
(***************************************************************************)
(* What a channel without capacity promises: a message goes from a thread  *)
(* that offers it straight to a thread that asks for one, both of them in  *)
(* a call at that moment; an offer is either taken once or withdrawn; and  *)
(* nothing changes hands once the channel is closed.                       *)
(***************************************************************************)
EXTENDS Naturals, Sequences

CONSTANT Threads

VARIABLES offered,     \* the messages of the sends under way
          asking,      \* the threads whose receive is under way
          delivered,   \* what each thread has received, in order
          closed       \* whether one side of the channel is gone

vars == <<offered, asking, delivered, closed>>

Init == /\ offered = {} /\ asking = {} /\ closed = FALSE
        /\ delivered = [t \in Threads |-> <<>>]

Offer(m) == /\ m \notin offered
            /\ \A t \in Threads : \A i \in DOMAIN delivered[t] : delivered[t][i] # m
            /\ offered' = offered \cup {m}
            /\ UNCHANGED <<asking, delivered, closed>>

Ask(t) == t \notin asking /\ asking' = asking \cup {t} /\ UNCHANGED <<offered, delivered, closed>>

Transfer(m, t) == /\ m \in offered /\ t \in asking /\ ~closed
                  /\ offered' = offered \ {m} /\ asking' = asking \ {t}
                  /\ delivered' = [delivered EXCEPT ![t] = Append(@, m)]
                  /\ UNCHANGED closed

Withdraw(m) == m \in offered /\ offered' = offered \ {m} /\ UNCHANGED <<asking, delivered, closed>>

GiveUp(t) == t \in asking /\ asking' = asking \ {t} /\ UNCHANGED <<offered, delivered, closed>>

Close == ~closed /\ closed' = TRUE /\ UNCHANGED <<offered, asking, delivered>>

Next == \/ \E m \in offered' : Offer(m)
        \/ \E m \in offered : Withdraw(m) \/ \E t \in asking : Transfer(m, t)
        \/ \E t \in Threads : Ask(t) \/ GiveUp(t)
        \/ Close

Spec == Init /\ [][Next]_vars
=============================================================================
