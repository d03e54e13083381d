---------------------------- MODULE ZeroChannel -----------------------------
(***************************************************************************)
(* The channel without capacity, std/src/sync/mpmc/zero.rs, with the       *)
(* counting of its handles (counter.rs). A thread that finds a partner     *)
(* selects it under the lock of the channel and then exchanges the message *)
(* through the partner's packet, without the lock: the packet lies on the  *)
(* stack of the thread that waits, which must not leave before `ready`. A  *)
(* step with the lock held is one action; the wakers are those of          *)
(* SyncWaker, of which this channel uses the part under its own lock.      *)
(***************************************************************************)
EXTENDS SyncWaker, FiniteSets

CONSTANTS Modes,      \* how the threads call: "try", "block", "timed"
          MaxCalls,   \* calls of each thread
          First       \* the thread that creates the channel

ASSUME ConstantsAssumption == /\ Wakers = {"senders", "receivers"}
                              /\ Modes \subseteq {"try", "block", "timed"}
                              /\ MaxCalls \in Nat /\ First \in Threads

VARIABLES is_disconnected,   \* the flag of Inner
          packet,            \* the packet on the stack of each waiting thread
          pc,                \* where each thread is
          side,              \* what it does: it is one of the "senders" or
                             \* of the "receivers", or in no call
          mode,              \* "try", "block", or "timed" for one with a deadline
          peer,              \* whose packet it has selected, or itself
          got,               \* what it has received, in order
          handles,           \* which thread has a handle of which side
          destroy,           \* the flag of Counter
          freed,             \* how often the channel has been deallocated
          calls              \* calls made so far

endVars == <<handles, destroy, freed>>
callVars == <<side, mode, peer>>
vars == <<wakerVars, is_disconnected, packet, endVars, callVars, pc, got, calls>>

NoMsg    == <<>>
NoPacket == [alive |-> FALSE, ready |-> FALSE, msg |-> NoMsg]

Message(t) == <<t, calls[t]>>
Other(t)   == IF side[t] = "senders" THEN "receivers" ELSE "senders"

Goto(t, loc) == pc' = [pc EXCEPT ![t] = loc]

At(locs) == {t \in Threads : pc[t] \in locs}

Init == /\ WakerInit /\ is_disconnected = FALSE
        /\ packet = [t \in Threads |-> NoPacket]
        /\ pc   = [t \in Threads |-> "idle"]
        /\ side = [t \in Threads |-> "none"]
        /\ mode = [t \in Threads |-> "try"]
        /\ peer = [t \in Threads |-> t]
        /\ got  = [t \in Threads |-> <<>>]
        /\ handles = {First} \X Wakers /\ destroy = FALSE /\ freed = 0
        /\ calls = [t \in Threads |-> 0]

-----------------------------------------------------------------------------
(* try_send, send and send_timeout; try_recv, recv and recv_timeout.       *)
Call(t, s, m) ==
    /\ pc[t] = "idle" /\ <<t, s>> \in handles /\ calls[t] < MaxCalls
    /\ calls' = [calls EXCEPT ![t] = @ + 1]
    /\ side'  = [side EXCEPT ![t] = s]
    /\ mode'  = [mode EXCEPT ![t] = m]
    /\ Goto(t, "start")
    /\ UNCHANGED <<wakerVars, is_disconnected, packet, endVars, peer, got>>

(* The end of a call takes its packet, if it has one, off the stack.       *)
Leave(t) == /\ Goto(t, "idle")
            /\ side' = [side EXCEPT ![t] = "none"]
            /\ mode' = [mode EXCEPT ![t] = "try"]
            /\ peer' = [peer EXCEPT ![t] = t]

Return(t) == Leave(t) /\ packet' = [packet EXCEPT ![t] = NoPacket]

(* If there is a partner, pair up with it.                                 *)
Pair(t) ==
    /\ pc[t] = "start" /\ Selectable(t, Other(t)) # {}
    /\ try_select(t, Other(t))
    /\ peer' = [peer EXCEPT ![t] = selectors[Other(t)][Candidate(t, Other(t))]]
    /\ Goto(t, IF side[t] = "senders" THEN "write" ELSE "read")
    /\ UNCHANGED <<is_disconnected, packet, endVars, side, mode, got, calls>>

(* Disconnected, or nobody there; a sender gets its message back.          *)
Refuse(t) ==
    /\ pc[t] = "start" /\ Selectable(t, Other(t)) = {}
    /\ is_disconnected \/ mode[t] = "try"
    /\ Return(t)
    /\ UNCHANGED <<wakerVars, is_disconnected, endVars, got, calls>>

\* Mutant of Register: does not look for a partner in the same section.
RegisterBlindly(t) ==
    /\ pc[t] = "start" /\ ~is_disconnected /\ mode[t] # "try"
    /\ register(t, side[t])
    /\ packet' = [packet EXCEPT ![t] =
                    [alive |-> TRUE, ready |-> FALSE,
                     msg   |-> IF side[t] = "senders" THEN Message(t) ELSE NoMsg]]
    /\ Goto(t, "wait")
    /\ UNCHANGED <<is_disconnected, endVars, callVars, got, calls>>

(* Otherwise wait for a partner, in the same section of the lock. The      *)
(* other side's waker has no observers to notify.                          *)
Register(t) ==
    /\ pc[t] = "start" /\ Selectable(t, Other(t)) = {}
    /\ ~is_disconnected /\ mode[t] # "try"
    /\ register(t, side[t])
    /\ packet' = [packet EXCEPT ![t] =
                    [alive |-> TRUE, ready |-> FALSE,
                     msg   |-> IF side[t] = "senders" THEN Message(t) ELSE NoMsg]]
    /\ Goto(t, "wait")
    /\ UNCHANGED <<is_disconnected, endVars, callVars, got, calls>>

(* write and read, in the partner's packet; `ready` lets the partner go.   *)
Write(t) ==
    /\ pc[t] = "write"
    /\ packet' = [packet EXCEPT ![peer[t]].msg = Message(t)]
    /\ Goto(t, "ready")
    /\ UNCHANGED <<wakerVars, is_disconnected, endVars, callVars, got, calls>>

Read(t) ==
    /\ pc[t] = "read"
    /\ got' = [got EXCEPT ![t] = Append(@, packet[peer[t]].msg)]
    /\ packet' = [packet EXCEPT ![peer[t]].msg = NoMsg]
    /\ Goto(t, "ready")
    /\ UNCHANGED <<wakerVars, is_disconnected, endVars, callVars, calls>>

\* Mutant of StoreReady: a receiver does not tell the sender that it is done.
StoreReadyIfSent(t) ==
    /\ pc[t] = "ready"
    /\ packet' = [packet EXCEPT ![peer[t]].ready = side[t] = "senders"]
    /\ Leave(t)
    /\ UNCHANGED <<wakerVars, is_disconnected, endVars, got, calls>>

StoreReady(t) ==
    /\ pc[t] = "ready"
    /\ packet' = [packet EXCEPT ![peer[t]].ready = TRUE]
    /\ Leave(t)
    /\ UNCHANGED <<wakerVars, is_disconnected, endVars, got, calls>>

-----------------------------------------------------------------------------
(* wait_until: the loop around park.                                       *)
WaitUntil(t) ==
    /\ pc[t] = "wait"
    /\ Goto(t, CASE select[t] = "waiting"   -> "parked"
                 [] select[t] = "operation" -> "wait_ready"
                 [] OTHER                   -> "unregister")
    /\ UNCHANGED <<wakerVars, is_disconnected, packet, endVars, callVars, got, calls>>

(* What a step on the context alone leaves as it is.                       *)
Waiting == UNCHANGED <<is_disconnected, packet, endVars, callVars, got, calls>>

Park(t) == pc[t] = "parked" /\ token[t] /\ park(t) /\ Goto(t, "wait") /\ Waiting

Deadline(t) == pc[t] = "parked" /\ mode[t] = "timed" /\ try_abort(t) /\ Goto(t, "wait") /\ Waiting

(* Aborted or disconnected: the entry is taken off, a sender takes its     *)
(* message back.                                                           *)
Unregister(t) ==
    /\ pc[t] = "unregister"
    /\ unregister(t, side[t]) /\ Return(t)
    /\ UNCHANGED <<is_disconnected, endVars, got, calls>>

\* Mutant of WaitReady: a sender that has been selected returns at once.
WaitReadyIfReceiving(t) ==
    /\ pc[t] = "wait_ready"
    /\ packet[t].ready \/ side[t] = "senders"
    /\ got' = [got EXCEPT ![t] = IF side[t] = "receivers" THEN Append(@, packet[t].msg) ELSE @]
    /\ Return(t)
    /\ UNCHANGED <<wakerVars, is_disconnected, endVars, calls>>

(* Selected: the packet has to be ready before the thread may go.          *)
WaitReady(t) ==
    /\ pc[t] = "wait_ready" /\ packet[t].ready
    /\ got' = [got EXCEPT ![t] = IF side[t] = "receivers" THEN Append(@, packet[t].msg) ELSE @]
    /\ Return(t)
    /\ UNCHANGED <<wakerVars, is_disconnected, endVars, calls>>

-----------------------------------------------------------------------------
(* Counter::acquire: a handle is cloned for a thread that has none.        *)
Acquire(t, s, u) ==
    /\ pc[t] = "idle" /\ <<t, s>> \in handles
    /\ pc[u] = "idle" /\ \A w \in Wakers : <<u, w>> \notin handles
    /\ handles' = handles \cup {<<u, s>>}
    /\ UNCHANGED <<wakerVars, is_disconnected, packet, callVars, pc, destroy, freed, got, calls>>

(* Counter::release: the last handle of a side disconnects the channel.    *)
Release(t, s) ==
    /\ pc[t] = "idle" /\ <<t, s>> \in handles
    /\ handles' = handles \ {<<t, s>>}
    /\ Goto(t, IF \E u \in Threads : <<u, s>> \in handles' THEN "idle" ELSE "disconnect")
    /\ UNCHANGED <<wakerVars, is_disconnected, packet, callVars, destroy, freed, got, calls>>

Disconnect(t) ==
    /\ pc[t] = "disconnect"
    /\ is_disconnected' = TRUE
    /\ \/ ~is_disconnected /\ disconnect(Wakers)
       \/ is_disconnected /\ UNCHANGED wakerVars
    /\ Goto(t, "destroy")
    /\ UNCHANGED <<packet, endVars, callVars, got, calls>>

\* Mutant of Destroy: the first side to disconnect deallocates as well.
DestroyAlways(t) ==
    /\ pc[t] = "destroy"
    /\ destroy' = TRUE /\ freed' = freed + 1
    /\ Goto(t, "idle")
    /\ UNCHANGED <<wakerVars, is_disconnected, packet, callVars, handles, got, calls>>

(* destroy.swap(true): the second of the two sides deallocates.            *)
Destroy(t) ==
    /\ pc[t] = "destroy"
    /\ destroy' = TRUE /\ freed' = IF destroy THEN freed + 1 ELSE freed
    /\ Goto(t, "idle")
    /\ UNCHANGED <<wakerVars, is_disconnected, packet, callVars, handles, got, calls>>

-----------------------------------------------------------------------------
(* The steps of a call that has begun; a thread inside one is scheduled.   *)
InCall(t) == \/ Pair(t) \/ Refuse(t) \/ Register(t) \/ Write(t) \/ Read(t) \/ StoreReady(t)
             \/ WaitUntil(t) \/ Park(t) \/ Deadline(t) \/ Unregister(t) \/ WaitReady(t)
             \/ Disconnect(t) \/ Destroy(t)

Finished == handles = {} /\ At({"idle"}) = Threads /\ UNCHANGED vars

Next == \/ \E t \in Threads : InCall(t)
        \/ \E t \in Threads, s \in Wakers : \/ \E m \in Modes : Call(t, s, m)
                                            \/ \E u \in Threads : Acquire(t, s, u)
                                            \/ Release(t, s)
        \/ Finished

Spec == Init /\ [][Next]_vars

FairSpec == Spec /\ \A t \in Threads : WF_vars(InCall(t))

-----------------------------------------------------------------------------
(* A thread that has selected a partner finds the packet in place: the     *)
(* partner is still in its call, whatever its deadline, and the message is *)
(* there, or not there yet (the unwraps of read, and of a sender that      *)
(* takes its message back).                                                *)
PacketsAreAlive ==
    /\ \A t \in At({"write", "read", "ready"}) : packet[peer[t]].alive /\ ~packet[peer[t]].ready
    /\ \A t \in At({"write"}) : packet[peer[t]].msg = NoMsg
    /\ \A t \in At({"read"})  : packet[peer[t]].msg # NoMsg
    /\ \A t \in At({"unregister"}) : side[t] = "senders" => packet[t].msg # NoMsg

(* The threads that wait for a partner.                                    *)
Unpaired(s) == {t \in At({"wait", "parked"}) : side[t] = s /\ select[t] = "waiting"}

(* No two threads wait for each other: with a sender waiting and a         *)
(* receiver waiting, one of them has missed the other.                     *)
NoMissedPartner == Unpaired("senders") = {} \/ Unpaired("receivers") = {}

(* The channel is deallocated once, after the last step of every thread;   *)
(* nobody is left on its wakers (the debug_asserts of their drop).         *)
FreedOnce ==
    /\ freed > 0 => freed = 1 /\ handles = {} /\ At({"idle"}) = Threads
    /\ handles = {} /\ At({"idle"}) = Threads =>
         freed = 1 /\ \A w \in Wakers : selectors[w] = <<>>

(* Nothing is used after it is gone, neither a packet nor the channel.     *)
NothingDangles == PacketsAreAlive /\ FreedOnce

(* A call is undecided until one of the two threads selects the other.     *)
Undecided(t) == \/ pc[t] \in {"start", "unregister"}
                \/ pc[t] \in {"wait", "parked"} /\ select[t] # "operation"

Selected(t) == pc[t] = "wait_ready" \/ (pc[t] \in {"wait", "parked"} /\ select[t] = "operation")

(* The message on its way to a receiver that has been selected.            *)
Incoming(t) == IF packet[t].msg # NoMsg THEN packet[t].msg
               ELSE LET u == CHOOSE u \in At({"write"}) : peer[u] = t IN Message(u)

Delivered == [t \in Threads |->
                CASE pc[t] = "read" -> Append(got[t], packet[peer[t]].msg)
                  [] side[t] = "receivers" /\ Selected(t) -> Append(got[t], Incoming(t))
                  [] OTHER -> got[t]]

(* The messages and the requests of the calls that are undecided.          *)
Offered == {Message(t) : t \in {u \in Threads : side[u] = "senders" /\ Undecided(u)}}
Asking  == {t \in Threads : side[t] = "receivers" /\ Undecided(t)}

(* The channel implements the rendezvous: a message changes hands when one *)
(* thread selects the other, and a send that fails, at its deadline or     *)
(* because of a disconnection, keeps its message.                          *)
Abstract == INSTANCE Rendezvous WITH offered <- Offered, asking <- Asking,
                                     delivered <- Delivered, closed <- is_disconnected

ImplementsRendezvous == Abstract!Spec

(* A thread that has been selected returns, and once the channel is        *)
(* disconnected every thread does.                                         *)
WaitsEnd == /\ \A t \in Threads : Selected(t) ~> pc[t] = "idle"
            /\ is_disconnected ~> At({"idle"}) = Threads
=============================================================================
