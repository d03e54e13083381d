---------------------------- MODULE ArrayChannel ----------------------------
(***************************************************************************)
(* The bounded channel, std/src/sync/mpmc/array.rs, with the counting of   *)
(* its handles (counter.rs) and the blocking of its threads (SyncWaker). A *)
(* ring of `cap` slots is shared by lock-free senders and receivers. head  *)
(* and tail are "stamps", a lap, a mark bit (in tail: disconnected) and an *)
(* index; the stamp of a slot tells whose turn it is: it equals tail when  *)
(* the slot is free for the send at tail, and tail + 1 when its message is *)
(* there. Every action is one access to shared memory, or one section with *)
(* the lock of a waker held.                                               *)
(***************************************************************************)
EXTENDS SyncWaker, FiniteSets

CONSTANTS Senders, Receivers,   \* the threads, each with a handle of its own
          cap,                  \* the capacity
          SendModes, RecvModes, \* how they call: "try", "block", "timed"
          MaxSends, MaxRecvs    \* calls of each sender, of each receiver

ASSUME ConstantsAssumption == /\ Threads = Senders \cup Receivers
                              /\ Senders \cap Receivers = {}
                              /\ Senders # {} /\ Receivers # {}
                              /\ Wakers = {"senders", "receivers"}
                              /\ cap \in Nat \ {0} /\ MaxSends \in Nat
                              /\ MaxRecvs \in Nat
                              /\ SendModes \subseteq {"try", "block", "timed"}
                              /\ RecvModes \subseteq {"try", "block", "timed"}

VARIABLES head, tail,   \* the two ends
          buffer,       \* the slots, each with its stamp and its message
          pc,           \* where each thread is
          pos,          \* its local variable `tail` or `head`
          mode,         \* "try", "block", or "timed" for one with a deadline
          got,          \* what each receiver has read, in order
          dhead,        \* the `head` of discard_all_messages
          handles,      \* the threads that still have their handle
          destroy,      \* the flag of Counter
          freed,        \* how often the channel has been deallocated
          calls         \* calls made so far, bounded by MaxCalls(t)

chanVars == <<head, tail, buffer>>
endVars  == <<dhead, handles, destroy, freed>>
vars == <<wakerVars, chanVars, endVars, pc, pos, mode, got, calls>>

(* A number of which every divisor but one is even.                        *)
IsPowerOfTwo(m) == \A d \in 2..m : m % d = 0 => d % 2 = 0

(* The mark bit, (cap + 1).next_power_of_two(): every index is below it.   *)
mark_bit == Min({m \in (cap + 1)..(2 * cap + 1) : IsPowerOfTwo(m)})
one_lap  == 2 * mark_bit

(* The parts of a stamp, and the stamp of the next slot.                   *)
Index(p)   == p % mark_bit
Lap(p)     == p - (p % one_lap)
Marked(p)  == (p \div mark_bit) % 2 = 1
Unmark(p)  == IF Marked(p) THEN p - mark_bit ELSE p
Advance(p) == IF Index(p) + 1 < cap THEN p + 1 ELSE Lap(p) + one_lap

NoMsg == <<>>

(* The waker on which a thread waits, and the one of the other side.       *)
Own(t)   == IF t \in Senders THEN "senders" ELSE "receivers"
Other(t) == IF t \in Senders THEN "receivers" ELSE "senders"

(* The top of the loop of start_send or start_recv.                        *)
Start(t) == IF t \in Senders THEN "s_tail" ELSE "r_head"

Message(t) == <<t, calls[t]>>

MaxCalls(t) == IF t \in Senders THEN MaxSends ELSE MaxRecvs

Modes(t) == IF t \in Senders THEN SendModes ELSE RecvModes

Goto(t, loc) == pc' = [pc EXCEPT ![t] = loc]

At(locs) == {t \in Threads : pc[t] \in locs}

(* A call that is over needs its locals no more.                           *)
Return(t) == /\ Goto(t, "idle")
             /\ pos'  = [pos EXCEPT ![t] = 0]
             /\ mode' = [mode EXCEPT ![t] = "try"]

Init == /\ WakerInit
        /\ head = 0 /\ tail = 0
        /\ buffer = [i \in 0..(cap - 1) |-> [stamp |-> i, msg |-> NoMsg]]
        /\ pc   = [t \in Threads |-> "idle"]
        /\ pos  = [t \in Threads |-> 0]
        /\ mode = [t \in Threads |-> "try"]
        /\ got  = [r \in Receivers |-> <<>>]
        /\ dhead = 0 /\ handles = Threads /\ destroy = FALSE /\ freed = 0
        /\ calls = [t \in Threads |-> 0]

-----------------------------------------------------------------------------
(* try_send, send and send_timeout; try_recv, recv and recv_timeout.       *)
Call(t, m) ==
    /\ pc[t] = "idle" /\ calls[t] < MaxCalls(t)
    /\ calls' = [calls EXCEPT ![t] = @ + 1]
    /\ mode'  = [mode EXCEPT ![t] = m]
    /\ Goto(t, Start(t))
    /\ UNCHANGED <<wakerVars, chanVars, endVars, pos, got>>

(* What start_send or start_recv does not change.                          *)
Reading == UNCHANGED <<wakerVars, chanVars, endVars, got, calls>>

LoadTail(t) ==
    /\ pc[t] = "s_tail"
    /\ \/ Marked(tail)  /\ Return(t)
       \/ ~Marked(tail) /\ pos' = [pos EXCEPT ![t] = tail] /\ Goto(t, "s_stamp") /\ UNCHANGED mode
    /\ Reading

(* The slot is free for this send, or full one lap behind, or its stamp is *)
(* about to change.                                                        *)
LoadStampForSend(t) ==
    /\ pc[t] = "s_stamp"
    /\ LET stamp == buffer[Index(pos[t])].stamp IN
       Goto(t, CASE stamp = pos[t]               -> "s_cas"
                 [] stamp + one_lap = pos[t] + 1 -> "s_head"
                 [] OTHER                        -> "s_tail")
    /\ UNCHANGED <<pos, mode>> /\ Reading

\* Mutant of CasTail: moves the tail even if it is no longer what it was.
CasTailBlindly(t) ==
    /\ pc[t] = "s_cas"
    /\ tail' = Advance(pos[t]) /\ Goto(t, "s_write")
    /\ UNCHANGED <<wakerVars, endVars, head, buffer, pos, mode, got, calls>>

(* A failure for no reason would only repeat the loop.                     *)
CasTail(t) ==
    /\ pc[t] = "s_cas"
    /\ \/ tail = pos[t] /\ tail' = Advance(pos[t]) /\ Goto(t, "s_write")
       \/ tail # pos[t] /\ tail' = tail /\ Goto(t, "s_tail")
    /\ UNCHANGED <<wakerVars, endVars, head, buffer, pos, mode, got, calls>>

(* start_send or start_recv has returned false: a try_ call returns, one   *)
(* with a deadline may find that it has passed.                            *)
NotReady(t) == \/ mode[t] # "block" /\ Return(t)
               \/ mode[t] # "try" /\ Goto(t, "register") /\ UNCHANGED <<pos, mode>>

\* Mutant of LoadHeadForSend: takes the stamp alone for a full channel.
LoadHeadForSendSkipped(t) == pc[t] = "s_head" /\ NotReady(t) /\ Reading

LoadHeadForSend(t) ==
    /\ pc[t] = "s_head"
    /\ \/ head + one_lap = pos[t] /\ NotReady(t)
       \/ head + one_lap # pos[t] /\ Goto(t, "s_tail") /\ UNCHANGED <<pos, mode>>
    /\ Reading

(* write: the message first, then the stamp, then the receivers.           *)
WriteMsg(t) ==
    /\ pc[t] = "s_write"
    /\ buffer' = [buffer EXCEPT ![Index(pos[t])].msg = Message(t)]
    /\ Goto(t, "s_store")
    /\ UNCHANGED <<wakerVars, endVars, head, tail, pos, mode, got, calls>>

StoreStamp(t, stamp) ==
    /\ buffer' = [buffer EXCEPT ![Index(pos[t])].stamp = stamp]
    /\ Goto(t, "notify")
    /\ UNCHANGED <<wakerVars, endVars, head, tail, pos, mode, got, calls>>

\* Mutant of StoreStampSent: the send wakes no receiver.
StoreStampSentQuietly(t) ==
    /\ pc[t] = "s_store"
    /\ buffer' = [buffer EXCEPT ![Index(pos[t])].stamp = pos[t] + 1]
    /\ Return(t)
    /\ UNCHANGED <<wakerVars, endVars, head, tail, got, calls>>

StoreStampSent(t) == pc[t] = "s_store" /\ StoreStamp(t, pos[t] + 1)

-----------------------------------------------------------------------------
LoadHead(t) ==
    /\ pc[t] = "r_head"
    /\ pos' = [pos EXCEPT ![t] = head] /\ Goto(t, "r_stamp")
    /\ UNCHANGED mode /\ Reading

LoadStampForRecv(t) ==
    /\ pc[t] = "r_stamp"
    /\ LET stamp == buffer[Index(pos[t])].stamp IN
       Goto(t, CASE stamp = pos[t] + 1 -> "r_cas"
                 [] stamp = pos[t]     -> "r_tail"
                 [] OTHER              -> "r_head")
    /\ UNCHANGED <<pos, mode>> /\ Reading

CasHead(t) ==
    /\ pc[t] = "r_cas"
    /\ \/ head = pos[t] /\ head' = Advance(pos[t]) /\ Goto(t, "r_read")
       \/ head # pos[t] /\ head' = head /\ Goto(t, "r_head")
    /\ UNCHANGED <<wakerVars, endVars, tail, buffer, pos, mode, got, calls>>

\* Mutant of LoadTailForRecv: an empty channel is not ready, disconnected or not.
LoadTailForRecvUnmarked(t) ==
    /\ pc[t] = "r_tail"
    /\ \/ Unmark(tail) = pos[t] /\ NotReady(t)
       \/ Unmark(tail) # pos[t] /\ Goto(t, "r_head") /\ UNCHANGED <<pos, mode>>
    /\ Reading

(* Empty, and disconnected or not; or a message was sent meanwhile.        *)
LoadTailForRecv(t) ==
    /\ pc[t] = "r_tail"
    /\ \/ Unmark(tail) = pos[t] /\ Marked(tail)  /\ Return(t)
       \/ Unmark(tail) = pos[t] /\ ~Marked(tail) /\ NotReady(t)
       \/ Unmark(tail) # pos[t] /\ Goto(t, "r_head") /\ UNCHANGED <<pos, mode>>
    /\ Reading

(* read: the message first, then the stamp, then the senders.              *)
ReadMsg(t) ==
    /\ pc[t] = "r_read"
    /\ got' = [got EXCEPT ![t] = Append(@, buffer[Index(pos[t])].msg)]
    /\ buffer' = [buffer EXCEPT ![Index(pos[t])].msg = NoMsg]
    /\ Goto(t, "r_store")
    /\ UNCHANGED <<wakerVars, endVars, head, tail, pos, mode, calls>>

\* Mutant of StoreStampReceived: the receive wakes no sender.
StoreStampReceivedQuietly(t) ==
    /\ pc[t] = "r_store"
    /\ buffer' = [buffer EXCEPT ![Index(pos[t])].stamp = pos[t] + one_lap]
    /\ Return(t)
    /\ UNCHANGED <<wakerVars, endVars, head, tail, got, calls>>

StoreStampReceived(t) == pc[t] = "r_store" /\ StoreStamp(t, pos[t] + one_lap)

-----------------------------------------------------------------------------
(* SyncWaker::notify of the other side: the flag first, without the lock.  *)
NotifyCheck(t) ==
    /\ pc[t] = "notify"
    /\ \/ is_empty[Other(t)]  /\ Return(t)
       \/ ~is_empty[Other(t)] /\ Goto(t, "notify_lock") /\ UNCHANGED <<pos, mode>>
    /\ Reading

NotifyLock(t) ==
    /\ pc[t] = "notify_lock"
    /\ notify(t, Other(t)) /\ Return(t)
    /\ UNCHANGED <<chanVars, endVars, got, calls>>

Register(t) ==
    /\ pc[t] = "register"
    /\ register(t, Own(t)) /\ Goto(t, "check")
    /\ UNCHANGED <<chanVars, endVars, pos, mode, got, calls>>

(* is_full loads the tail and then the head, is_empty the other way round; *)
(* then is_disconnected.                                                   *)
CheckFirst(t) ==
    /\ pc[t] = "check"
    /\ pos' = [pos EXCEPT ![t] = IF t \in Senders THEN Unmark(tail) ELSE head]
    /\ Goto(t, "check2")
    /\ UNCHANGED mode /\ Reading

CheckSecond(t) ==
    /\ pc[t] = "check2"
    /\ LET blocked == IF t \in Senders THEN head + one_lap = pos[t] ELSE Unmark(tail) = pos[t]
       IN  Goto(t, IF blocked THEN "check3" ELSE "abort")
    /\ UNCHANGED <<pos, mode>> /\ Reading

CheckDisconnected(t) ==
    /\ pc[t] = "check3"
    /\ Goto(t, IF Marked(tail) THEN "abort" ELSE "wait")
    /\ UNCHANGED <<pos, mode>> /\ Reading

Abort(t) ==
    /\ pc[t] = "abort"
    /\ try_abort(t) /\ Goto(t, "wait")
    /\ UNCHANGED <<chanVars, endVars, pos, mode, got, calls>>

(* wait_until: the loop around park. A thread that was selected has been   *)
(* taken off the waker, the others take themselves off.                    *)
WaitUntil(t) ==
    /\ pc[t] = "wait"
    /\ Goto(t, CASE select[t] = "waiting"   -> "parked"
                 [] select[t] = "operation" -> Start(t)
                 [] OTHER                   -> "unregister")
    /\ UNCHANGED <<pos, mode>> /\ Reading

(* The deadline: the thread stops parking, and tries to abort.             *)
Deadline(t) ==
    /\ pc[t] = "parked" /\ mode[t] = "timed"
    /\ try_abort(t) /\ Goto(t, "wait")
    /\ UNCHANGED <<chanVars, endVars, pos, mode, got, calls>>

Park(t) ==
    /\ pc[t] = "parked" /\ token[t]
    /\ park(t) /\ Goto(t, "wait")
    /\ UNCHANGED <<chanVars, endVars, pos, mode, got, calls>>

Unregister(t) ==
    /\ pc[t] = "unregister"
    /\ unregister(t, Own(t)) /\ Goto(t, Start(t))
    /\ UNCHANGED <<chanVars, endVars, pos, mode, got, calls>>

-----------------------------------------------------------------------------
(* Counter::release: the last handle of a side disconnects the channel.    *)
Release(t) ==
    /\ pc[t] = "idle" /\ t \in handles
    /\ handles' = handles \ {t}
    /\ LET side == IF t \in Senders THEN Senders ELSE Receivers
       IN  Goto(t, IF handles' \cap side = {} THEN "mark" ELSE "gone")
    /\ UNCHANGED <<wakerVars, chanVars, dhead, destroy, freed, pos, mode, got, calls>>

(* After the disconnection the last receiver goes on to the messages.      *)
AfterMark(t) == IF t \in Senders THEN "destroy" ELSE "discard_start"

(* tail.fetch_or(mark_bit)                                                 *)
Mark(t) ==
    /\ pc[t] = "mark"
    /\ tail' = Unmark(tail) + mark_bit
    /\ pos'  = [pos EXCEPT ![t] = Unmark(tail)]
    /\ Goto(t, IF Marked(tail) THEN AfterMark(t) ELSE "disconnect")
    /\ UNCHANGED <<wakerVars, endVars, head, buffer, mode, got, calls>>

Disconnect(t) ==
    /\ pc[t] = "disconnect"
    /\ disconnect({Other(t)}) /\ Goto(t, AfterMark(t))
    /\ UNCHANGED <<chanVars, endVars, pos, mode, got, calls>>

DiscardStart(t) ==
    /\ pc[t] = "discard_start"
    /\ dhead' = head /\ Goto(t, "discard")
    /\ UNCHANGED <<wakerVars, chanVars, handles, destroy, freed, pos, mode, got, calls>>

DropMsg(t) ==
    /\ pc[t] = "discard"
    /\ buffer[Index(dhead)].stamp = dhead + 1
    /\ buffer' = [buffer EXCEPT ![Index(dhead)].msg = NoMsg]
    /\ dhead'  = Advance(dhead)
    /\ UNCHANGED <<wakerVars, head, tail, handles, destroy, freed, pc, pos, mode, got, calls>>

\* Mutant of DiscardDone: stops at a slot that a sender has not filled yet.
DiscardDoneEarly(t) ==
    /\ pc[t] = "discard"
    /\ buffer[Index(dhead)].stamp # dhead + 1
    /\ Goto(t, "destroy")
    /\ UNCHANGED <<wakerVars, chanVars, endVars, pos, mode, got, calls>>

(* Otherwise a sender is about to write into the slot: wait for it.        *)
DiscardDone(t) ==
    /\ pc[t] = "discard"
    /\ buffer[Index(dhead)].stamp # dhead + 1 /\ dhead = pos[t]
    /\ Goto(t, "destroy")
    /\ UNCHANGED <<wakerVars, chanVars, endVars, pos, mode, got, calls>>

\* Mutant of Destroy: the first side to disconnect deallocates as well.
DestroyAlways(t) ==
    /\ pc[t] = "destroy"
    /\ destroy' = TRUE /\ freed' = freed + 1
    /\ Goto(t, "gone")
    /\ UNCHANGED <<wakerVars, chanVars, dhead, handles, pos, mode, got, calls>>

(* destroy.swap(true): the second of the two sides deallocates.            *)
Destroy(t) ==
    /\ pc[t] = "destroy"
    /\ destroy' = TRUE /\ freed' = IF destroy THEN freed + 1 ELSE freed
    /\ Goto(t, "gone")
    /\ UNCHANGED <<wakerVars, chanVars, dhead, handles, pos, mode, got, calls>>

-----------------------------------------------------------------------------
SendStep(t) == \/ LoadTail(t) \/ LoadStampForSend(t) \/ CasTail(t) \/ LoadHeadForSend(t)
               \/ WriteMsg(t) \/ StoreStampSent(t)

RecvStep(t) == \/ LoadHead(t) \/ LoadStampForRecv(t) \/ CasHead(t) \/ LoadTailForRecv(t)
               \/ ReadMsg(t) \/ StoreStampReceived(t)

WakerStep(t) == \/ NotifyCheck(t) \/ NotifyLock(t) \/ Register(t) \/ CheckFirst(t)
                \/ CheckSecond(t) \/ CheckDisconnected(t) \/ Abort(t) \/ WaitUntil(t)
                \/ Deadline(t) \/ Park(t) \/ Unregister(t)

EndStep(t) == \/ Mark(t) \/ Disconnect(t) \/ DiscardStart(t) \/ DropMsg(t)
              \/ DiscardDone(t) \/ Destroy(t)

(* The steps of a call that has begun; a thread inside one is scheduled.   *)
InCall(t) == SendStep(t) \/ RecvStep(t) \/ WakerStep(t) \/ EndStep(t)

Finished == At({"gone"}) = Threads /\ UNCHANGED vars

Next == \/ \E t \in Threads : \/ InCall(t)
                               \/ \E m \in Modes(t) : Call(t, m)
                               \/ Release(t)
        \/ Finished

Spec == Init /\ [][Next]_vars

FairSpec == Spec /\ \A t \in Threads : WF_vars(InCall(t))

-----------------------------------------------------------------------------
(* A sender writes into a slot that holds no message, a receiver reads     *)
(* from one that does, and nobody else has that slot.                      *)
SlotsAreExclusive ==
    /\ \A t \in At({"s_write"}) : buffer[Index(pos[t])].msg = NoMsg
    /\ \A t \in At({"s_store", "r_read"}) : buffer[Index(pos[t])].msg # NoMsg
    /\ \A t, u \in At({"s_write", "s_store", "r_read", "r_store"}) :
         Index(pos[t]) = Index(pos[u]) => t = u

(* Positions count the sends; PosOf is the stamp of the k-th.              *)
Ordinal(p) == (p \div one_lap) * cap + Index(p)
PosOf(k)   == (k \div cap) * one_lap + (k % cap)

(* The message at p: in its slot, or on its way into it.                   *)
MsgAt(p) == IF buffer[Index(p)].stamp = p + 1 THEN buffer[Index(p)].msg
            ELSE LET t == CHOOSE u \in At({"s_write", "s_store"}) : pos[u] = p IN Message(t)

(* Where the oldest message is, for the receivers or for the last of them  *)
(* that discards the rest.                                                 *)
First == IF handles \cap Receivers = {}
            /\ At({"mark", "disconnect", "discard_start"}) \cap Receivers = {}
         THEN Ordinal(dhead) ELSE Ordinal(head)

Queue == [i \in 1..(Ordinal(Unmark(tail)) - First) |-> MsgAt(PosOf(First + i - 1))]

(* A receiver has taken its message when it has moved the head.            *)
Delivered == [r \in Receivers |->
                IF pc[r] = "r_read" THEN Append(got[r], buffer[Index(pos[r])].msg) ELSE got[r]]

(* The ring of slots implements the bounded channel: sends take effect     *)
(* when they move the tail, receives when they move the head.              *)
Abstract == INSTANCE BoundedChannel
              WITH queue <- Queue, delivered <- Delivered, closed <- Marked(tail)

ImplementsChannel == Abstract!Spec

(* A call that gives up, or goes to sleep, because the channel is full or  *)
(* empty is right: at that moment it is, or it has been disconnected. The  *)
(* call has stale values of the tail and of a stamp in hand; this is what  *)
(* its last load has to ensure.                                            *)
NotReadyIsTrue ==
    [][\A t \in Threads :
         /\ pc[t] = "s_head" /\ pc'[t] \in {"idle", "register"} => Len(Queue) = cap \/ Marked(tail)
         /\ pc[t] = "r_tail" /\ pc'[t] \in {"idle", "register"} => Queue = <<>>]_vars

(* unregister(oper).unwrap(): the entry is there when the thread takes     *)
(* itself off. A thread outside the blocking part has none, so that the    *)
(* wakers are empty in the end (the debug_asserts of their drop).          *)
EntriesMatchThreads ==
    \A t \in Threads :
       /\ pc[t] = "unregister" => t \in ToSet(selectors[Own(t)])
       /\ pc[t] \notin {"check", "check2", "check3", "abort", "wait", "parked", "unregister"}
            => t \notin ToSet(selectors[Own(t)])
       /\ t \notin ToSet(selectors[Other(t)])

(* The channel is deallocated once, after the last step of every thread,   *)
(* and no message is left behind in it, nor an entry in a waker.           *)
NothingLeaks ==
    /\ freed > 0 => At({"gone"}) = Threads /\ Queue = <<>>
    /\ At({"gone"}) = Threads => freed = 1
    /\ EntriesMatchThreads

(* No wake-up is lost: when every call under way is parked, without a      *)
(* token and not selected, the senders among them face a full channel and  *)
(* the receivers an empty one, and it is not disconnected. Nobody sleeps   *)
(* beside a slot that is free or a message that no other thread takes.     *)
NoLostWakeup ==
    LET waiting == {t \in At({"parked"}) : select[t] = "waiting" /\ ~token[t]}
    IN  At({"idle", "gone"}) \cup waiting = Threads =>
           \A t \in waiting :
              /\ IF t \in Senders THEN Len(Queue) = cap ELSE Queue = <<>>
              /\ ~Marked(tail)

(* Once the channel is disconnected, every call returns, the ones that     *)
(* were registering or parked just then included, and the handles that are *)
(* being dropped go: as the calls are finitely many, a time comes when all *)
(* threads are out of the channel.                                         *)
DisconnectEndsCalls == Marked(tail) ~> At({"idle", "gone"}) = Threads
=============================================================================
