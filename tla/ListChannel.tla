---------------------------- MODULE ListChannel -----------------------------
(***************************************************************************)
(* The unbounded channel, std/src/sync/mpmc/list.rs, with the counting of  *)
(* its handles (counter.rs) and the blocking of its receivers (SyncWaker). *)
(* Messages live in a linked list of blocks. A block covers LAP positions, *)
(* LAP - 1 of them with a slot; while the tail, or the head, is at the     *)
(* last position of a block, the thread that got there is installing the   *)
(* next block and the others wait. The receivers free a block among        *)
(* themselves, by the READ and DESTROY bits of its slots. Every action is  *)
(* one access to shared memory, or one section with the lock of the waker  *)
(* held. A block gets its number when it is published; until then it is    *)
(* private to its sender, which drops it if it is not needed.              *)
(***************************************************************************)
EXTENDS SyncWaker, FiniteSets, Functions

CONSTANTS Senders, Receivers,   \* the threads, each with a handle of its own
          LAP,                  \* positions per block
          RecvModes,            \* how receivers call: "try", "block", "timed"
          MaxSends,             \* calls of each sender
          MaxRecvs              \* calls of all receivers together

ASSUME ConstantsAssumption == /\ Threads = Senders \cup Receivers
                              /\ Senders \cap Receivers = {}
                              /\ Wakers = {"receivers"}
                              /\ LAP \in Nat /\ LAP > 1
                              /\ MaxSends \in Nat /\ MaxRecvs \in Nat
                              /\ RecvModes \subseteq {"try", "block", "timed"}

VARIABLES head, tail,      \* index (a position and a mark) and block of each end
          blocks,          \* the blocks published so far
          pc,              \* where each thread is
          at,              \* its local variables
          mode,            \* "try", "block", or "timed" for one with a deadline
          got,             \* what each receiver has read, in order
          handles,         \* the threads that still have their handle
          destroy,         \* the flag of Counter
          freed,           \* whether the channel has been deallocated
          calls            \* calls made so far, bounded by MayCall(t)

chanVars == <<head, tail, blocks>>
endVars  == <<handles, destroy, freed>>
vars == <<wakerVars, chanVars, endVars, pc, at, mode, got, calls>>

BLOCK_CAP == LAP - 1
Offset(p) == p % LAP
Lap(p)    == p \div LAP

null  == 0
NoMsg == <<>>

NewBlock == [next  |-> null, live |-> TRUE,
             slots |-> [i \in 0..(BLOCK_CAP - 1) |-> [msg |-> NoMsg, state |-> {}]]]

(* The local variables of a call: the index it loaded (pos, mark), the     *)
(* block, the mark of new_head or next_index, the next block, the `tail`   *)
(* of a discard, the loop variable of Block::destroy.                      *)
NoLocals == [pos |-> 0, mark |-> FALSE, block |-> null, newmark |-> FALSE,
             next |-> null, end |-> 0, i |-> 0]

Message(t) == <<t, calls[t]>>
Modes(t)   == IF t \in Senders THEN {"block"} ELSE RecvModes
Start(t)   == IF t \in Senders THEN "s_index" ELSE "r_index"

(* The bounds of the runs.                                                 *)
MayCall(t) == IF t \in Senders THEN calls[t] < MaxSends
              ELSE FoldFunctionOnSet(+, 0, calls, Receivers) < MaxRecvs

Goto(t, loc) == pc' = [pc EXCEPT ![t] = loc]

At(locs) == {t \in Threads : pc[t] \in locs}

(* A call that is over, or starts again, needs its locals no more.         *)
Forget(t) == at' = [at EXCEPT ![t] = NoLocals]

Retry(t) == Goto(t, Start(t)) /\ Forget(t)

Return(t) == Goto(t, "idle") /\ Forget(t) /\ mode' = [mode EXCEPT ![t] = "try"]

(* The slot of a thread, and what happens to its state.                    *)
Slot(t) == blocks[at[t].block].slots[Offset(at[t].pos)]

OrState(b, i, bit) == blocks' = [blocks EXCEPT ![b].slots[i].state = @ \cup {bit}]

Init == /\ WakerInit
        /\ head = [pos |-> 0, mark |-> FALSE, block |-> null]
        /\ tail = [pos |-> 0, mark |-> FALSE, block |-> null]
        /\ blocks = <<>>
        /\ pc   = [t \in Threads |-> "idle"]
        /\ at   = [t \in Threads |-> NoLocals]
        /\ mode = [t \in Threads |-> "try"]
        /\ got  = [r \in Receivers |-> <<>>]
        /\ handles = Threads /\ destroy = FALSE /\ freed = FALSE
        /\ calls = [t \in Threads |-> 0]

-----------------------------------------------------------------------------
(* send, which never blocks; try_recv, recv and recv_timeout.              *)
Call(t, m) ==
    /\ pc[t] = "idle" /\ t \in handles /\ MayCall(t)
    /\ calls' = [calls EXCEPT ![t] = @ + 1]
    /\ mode'  = [mode EXCEPT ![t] = m]
    /\ Goto(t, Start(t))
    /\ UNCHANGED <<wakerVars, chanVars, endVars, at, got>>

(* What a step that only reads the channel leaves alone.                   *)
Reading == UNCHANGED <<wakerVars, chanVars, endVars, got, calls>>

(* What a step on the channel leaves alone.                                *)
Rest == UNCHANGED <<wakerVars, endVars, mode, got, calls>>

LoadTailIndex(t) ==
    /\ pc[t] = "s_index"
    /\ at' = [at EXCEPT ![t].pos = tail.pos, ![t].mark = tail.mark]
    /\ Goto(t, "s_block") /\ UNCHANGED mode /\ Reading

(* Disconnected, or at the end of a block, or in a channel without blocks, *)
(* or ready to move the tail.                                              *)
LoadTailBlock(t) ==
    /\ pc[t] = "s_block"
    /\ \/ at[t].mark /\ Return(t)
       \/ ~at[t].mark /\ Offset(at[t].pos) = BLOCK_CAP /\ Retry(t) /\ UNCHANGED mode
       \/ /\ ~at[t].mark /\ Offset(at[t].pos) # BLOCK_CAP
          /\ at' = [at EXCEPT ![t].block = tail.block]
          /\ Goto(t, IF tail.block = null THEN "s_init" ELSE "s_cas")
          /\ UNCHANGED mode
    /\ Reading

(* The first block is installed in the tail and then in the head; a sender *)
(* that comes too late keeps its block as the next one.                    *)
InitTailBlock(t) ==
    /\ pc[t] = "s_init"
    /\ \/ /\ tail.block = null
          /\ blocks' = Append(blocks, NewBlock)
          /\ tail' = [tail EXCEPT !.block = Len(blocks')]
          /\ at'   = [at EXCEPT ![t].block = Len(blocks')]
          /\ Goto(t, "s_head")
       \/ tail.block # null /\ Retry(t) /\ UNCHANGED <<tail, blocks>>
    /\ UNCHANGED head /\ Rest

InitHeadBlock(t) ==
    /\ pc[t] = "s_head"
    /\ head' = [head EXCEPT !.block = at[t].block] /\ Goto(t, "s_cas")
    /\ UNCHANGED <<tail, blocks, at>> /\ Rest

\* Mutant of CasTail: compares the position only, not the mark.
CasTailUnmarked(t) ==
    /\ pc[t] = "s_cas"
    /\ \/ /\ tail.pos = at[t].pos
          /\ tail' = [tail EXCEPT !.pos = @ + 1]
          /\ Goto(t, IF Offset(at[t].pos) + 1 = BLOCK_CAP THEN "s_next" ELSE "s_write")
          /\ UNCHANGED at
       \/ tail.pos # at[t].pos /\ Retry(t) /\ UNCHANGED tail
    /\ UNCHANGED <<head, blocks>> /\ Rest

(* A failure for no reason would only repeat the loop.                     *)
CasTail(t) ==
    /\ pc[t] = "s_cas"
    /\ \/ /\ tail.pos = at[t].pos /\ ~tail.mark
          /\ tail' = [tail EXCEPT !.pos = @ + 1]
          /\ Goto(t, IF Offset(at[t].pos) + 1 = BLOCK_CAP THEN "s_next" ELSE "s_write")
          /\ UNCHANGED at
       \/ /\ tail.pos # at[t].pos \/ tail.mark
          /\ Retry(t) /\ UNCHANGED tail
    /\ UNCHANGED <<head, blocks>> /\ Rest

(* Whoever takes the last slot installs the next block: the tail's block,  *)
(* its index, and then the link, in this order.                            *)
StoreTailBlock(t) ==
    /\ pc[t] = "s_next"
    /\ blocks' = Append(blocks, NewBlock)
    /\ tail' = [tail EXCEPT !.block = Len(blocks')]
    /\ at'   = [at EXCEPT ![t].next = Len(blocks')]
    /\ Goto(t, "s_skip")
    /\ UNCHANGED head /\ Rest

AddTailIndex(t) ==
    /\ pc[t] = "s_skip"
    /\ tail' = [tail EXCEPT !.pos = @ + 1] /\ Goto(t, "s_link")
    /\ UNCHANGED <<head, blocks, at>> /\ Rest

StoreNext(t) ==
    /\ pc[t] = "s_link"
    /\ blocks' = [blocks EXCEPT ![at[t].block].next = at[t].next]
    /\ at' = [at EXCEPT ![t].next = null] /\ Goto(t, "s_write")
    /\ UNCHANGED <<head, tail>> /\ Rest

WriteMsg(t) ==
    /\ pc[t] = "s_write"
    /\ blocks' = [blocks EXCEPT ![at[t].block].slots[Offset(at[t].pos)].msg = Message(t)]
    /\ Goto(t, "s_flag")
    /\ UNCHANGED <<head, tail, at>> /\ Rest

\* Mutant of SetWrite: the send wakes no receiver.
SetWriteQuietly(t) ==
    /\ pc[t] = "s_flag"
    /\ OrState(at[t].block, Offset(at[t].pos), "WRITE") /\ Return(t)
    /\ UNCHANGED <<wakerVars, endVars, head, tail, got, calls>>

SetWrite(t) ==
    /\ pc[t] = "s_flag"
    /\ OrState(at[t].block, Offset(at[t].pos), "WRITE")
    /\ Goto(t, "notify") /\ Forget(t)
    /\ UNCHANGED <<head, tail>> /\ Rest

-----------------------------------------------------------------------------
LoadHeadIndex(t) ==
    /\ pc[t] = "r_index"
    /\ at' = [at EXCEPT ![t].pos = head.pos, ![t].mark = head.mark, ![t].newmark = head.mark]
    /\ Goto(t, "r_block") /\ UNCHANGED mode /\ Reading

(* With the mark there is another block, hence no need to look at the tail.*)
(* Without a block the first message is just being sent.                   *)
LoadHeadBlock(t) ==
    /\ pc[t] = "r_block"
    /\ LET again == Offset(at[t].pos) = BLOCK_CAP \/ (at[t].mark /\ head.block = null) IN
       \/ again /\ Retry(t)
       \/ /\ ~again /\ at' = [at EXCEPT ![t].block = head.block]
          /\ Goto(t, IF at[t].mark THEN "r_cas" ELSE "r_tail")
    /\ UNCHANGED mode /\ Reading

(* start_recv has returned false: a try_recv returns, a call with a        *)
(* deadline may find that it has passed.                                   *)
NotReady(t) == \/ mode[t] # "block" /\ Return(t)
               \/ mode[t] # "try" /\ Goto(t, "register") /\ Forget(t) /\ UNCHANGED mode

\* Mutant of LoadTail: an empty channel is not ready, disconnected or not.
LoadTailUnmarked(t) ==
    /\ pc[t] = "r_tail"
    /\ \/ tail.pos = at[t].pos /\ NotReady(t)
       \/ tail.pos # at[t].pos /\ at[t].block = null /\ Retry(t) /\ UNCHANGED mode
       \/ /\ tail.pos # at[t].pos /\ at[t].block # null
          /\ at' = [at EXCEPT ![t].newmark = Lap(at[t].pos) # Lap(tail.pos)]
          /\ Goto(t, "r_cas") /\ UNCHANGED mode
    /\ Reading

LoadTail(t) ==
    /\ pc[t] = "r_tail"
    /\ \/ tail.pos = at[t].pos /\ tail.mark  /\ Return(t)
       \/ tail.pos = at[t].pos /\ ~tail.mark /\ NotReady(t)
       \/ tail.pos # at[t].pos /\ at[t].block = null /\ Retry(t) /\ UNCHANGED mode
       \/ /\ tail.pos # at[t].pos /\ at[t].block # null
          /\ at' = [at EXCEPT ![t].newmark = Lap(at[t].pos) # Lap(tail.pos)]
          /\ Goto(t, "r_cas") /\ UNCHANGED mode
    /\ Reading

CasHead(t) ==
    /\ pc[t] = "r_cas"
    /\ \/ /\ head.pos = at[t].pos /\ head.mark = at[t].mark
          /\ head' = [head EXCEPT !.pos = @ + 1, !.mark = at[t].newmark]
          /\ Goto(t, IF Offset(at[t].pos) + 1 = BLOCK_CAP THEN "r_next" ELSE "r_read")
          /\ at' = [at EXCEPT ![t].mark = FALSE, ![t].newmark = FALSE]
       \/ /\ head.pos # at[t].pos \/ head.mark # at[t].mark
          /\ Retry(t) /\ UNCHANGED head
    /\ UNCHANGED <<tail, blocks>> /\ Rest

(* Whoever takes the last message of a block moves the head to the next.   *)
WaitNext(t) ==
    /\ pc[t] = "r_next" /\ blocks[at[t].block].next # null
    /\ at' = [at EXCEPT ![t].next = blocks[at[t].block].next]
    /\ Goto(t, "r_peek") /\ UNCHANGED mode /\ Reading

LoadNextNext(t) ==
    /\ pc[t] = "r_peek"
    /\ at' = [at EXCEPT ![t].newmark = blocks[at[t].next].next # null]
    /\ Goto(t, "r_hblock") /\ UNCHANGED mode /\ Reading

StoreHeadBlock(t) ==
    /\ pc[t] = "r_hblock"
    /\ head' = [head EXCEPT !.block = at[t].next] /\ Goto(t, "r_hindex")
    /\ UNCHANGED <<tail, blocks, at>> /\ Rest

StoreHeadIndex(t) ==
    /\ pc[t] = "r_hindex"
    /\ head' = [head EXCEPT !.pos = at[t].pos + 2, !.mark = at[t].newmark]
    /\ at' = [at EXCEPT ![t].next = null, ![t].newmark = FALSE] /\ Goto(t, "r_read")
    /\ UNCHANGED <<tail, blocks>> /\ Rest

(* read: the last slot of a block starts its destruction.                  *)
ReadMsg(t) ==
    /\ pc[t] = "r_read" /\ "WRITE" \in Slot(t).state
    /\ got' = [got EXCEPT ![t] = Append(@, Slot(t).msg)]
    /\ blocks' = [blocks EXCEPT ![at[t].block].slots[Offset(at[t].pos)].msg = NoMsg]
    /\ Goto(t, IF Offset(at[t].pos) + 1 = BLOCK_CAP THEN "d_load" ELSE "r_flag")
    /\ UNCHANGED <<wakerVars, endVars, head, tail, at, mode, calls>>

\* Mutant of SetRead: does not look for the DESTROY bit.
SetReadOnly(t) ==
    /\ pc[t] = "r_flag"
    /\ OrState(at[t].block, Offset(at[t].pos), "READ") /\ Return(t)
    /\ UNCHANGED <<wakerVars, endVars, head, tail, got, calls>>

SetRead(t) ==
    /\ pc[t] = "r_flag"
    /\ OrState(at[t].block, Offset(at[t].pos), "READ")
    /\ \/ "DESTROY" \notin Slot(t).state /\ Return(t)
       \/ /\ "DESTROY" \in Slot(t).state /\ Goto(t, "d_load")
          /\ at' = [at EXCEPT ![t].i = Offset(at[t].pos) + 1] /\ UNCHANGED mode
    /\ UNCHANGED <<wakerVars, endVars, head, tail, got, calls>>

\* Mutant of DestroyLoad: passes over a slot that is still being read.
DestroyLoadPasses(t) ==
    /\ pc[t] = "d_load" /\ at[t].i < BLOCK_CAP - 1
    /\ at' = [at EXCEPT ![t].i = @ + 1]
    /\ UNCHANGED <<pc, mode>> /\ Reading

(* Block::destroy: a slot that is not READ yet gets the DESTROY bit, and   *)
(* its reader goes on with the destruction.                                *)
DestroyLoad(t) ==
    /\ pc[t] = "d_load" /\ at[t].i < BLOCK_CAP - 1
    /\ \/ /\ "READ" \in blocks[at[t].block].slots[at[t].i].state
          /\ at' = [at EXCEPT ![t].i = @ + 1] /\ UNCHANGED pc
       \/ /\ "READ" \notin blocks[at[t].block].slots[at[t].i].state
          /\ Goto(t, "d_or") /\ UNCHANGED at
    /\ UNCHANGED mode /\ Reading

DestroyOr(t) ==
    /\ pc[t] = "d_or"
    /\ OrState(at[t].block, at[t].i, "DESTROY")
    /\ \/ /\ "READ" \in blocks[at[t].block].slots[at[t].i].state
          /\ at' = [at EXCEPT ![t].i = @ + 1] /\ Goto(t, "d_load") /\ UNCHANGED mode
       \/ "READ" \notin blocks[at[t].block].slots[at[t].i].state /\ Return(t)
    /\ UNCHANGED <<wakerVars, endVars, head, tail, got, calls>>

Free(b) == blocks' = [blocks EXCEPT ![b].live = FALSE]

DestroyFree(t) ==
    /\ pc[t] = "d_load" /\ at[t].i >= BLOCK_CAP - 1
    /\ Free(at[t].block) /\ Return(t)
    /\ UNCHANGED <<wakerVars, endVars, head, tail, got, calls>>

-----------------------------------------------------------------------------
(* notify looks at is_empty before it takes the lock.                      *)
NotifyCheck(t) ==
    /\ pc[t] = "notify"
    /\ \/ is_empty["receivers"]  /\ Return(t)
       \/ ~is_empty["receivers"] /\ Goto(t, "notify_lock") /\ UNCHANGED <<at, mode>>
    /\ Reading

NotifyLock(t) ==
    /\ pc[t] = "notify_lock"
    /\ notify(t, "receivers") /\ Return(t)
    /\ UNCHANGED <<chanVars, endVars, got, calls>>

(* What a step on the waker leaves alone.                                  *)
Waiting == UNCHANGED <<chanVars, endVars, at, mode, got, calls>>

Register(t) ==
    /\ pc[t] = "register"
    /\ register(t, "receivers") /\ Goto(t, "check") /\ Waiting

(* is_empty loads the head and then the tail; then is_disconnected.        *)
CheckHead(t) ==
    /\ pc[t] = "check"
    /\ at' = [at EXCEPT ![t].pos = head.pos] /\ Goto(t, "check2")
    /\ UNCHANGED mode /\ Reading

CheckTail(t) ==
    /\ pc[t] = "check2"
    /\ Goto(t, IF tail.pos = at[t].pos THEN "check3" ELSE "abort") /\ Forget(t)
    /\ UNCHANGED mode /\ Reading

CheckDisconnected(t) ==
    /\ pc[t] = "check3"
    /\ Goto(t, IF tail.mark THEN "abort" ELSE "wait")
    /\ UNCHANGED <<at, mode>> /\ Reading

Abort(t) ==
    /\ pc[t] = "abort"
    /\ try_abort(t) /\ Goto(t, "wait") /\ Waiting

(* wait_until: the loop around park. A thread that was selected has been   *)
(* taken off the waker, the others take themselves off.                    *)
WaitUntil(t) ==
    /\ pc[t] = "wait"
    /\ Goto(t, CASE select[t] = "waiting"   -> "parked"
                 [] select[t] = "operation" -> "r_index"
                 [] OTHER                   -> "unregister")
    /\ UNCHANGED <<at, mode>> /\ Reading

Deadline(t) ==
    /\ pc[t] = "parked" /\ mode[t] = "timed"
    /\ try_abort(t) /\ Goto(t, "wait") /\ Waiting

Park(t) ==
    /\ pc[t] = "parked" /\ token[t]
    /\ park(t) /\ Goto(t, "wait") /\ Waiting

Unregister(t) ==
    /\ pc[t] = "unregister"
    /\ unregister(t, "receivers") /\ Goto(t, "r_index") /\ Waiting

-----------------------------------------------------------------------------
(* Counter::release: the last handle of a side disconnects the channel.    *)
Release(t) ==
    /\ pc[t] = "idle" /\ t \in handles
    /\ handles' = handles \ {t}
    /\ LET side == IF t \in Senders THEN Senders ELSE Receivers
       IN  Goto(t, IF handles' \cap side = {} THEN "mark" ELSE "gone")
    /\ UNCHANGED <<wakerVars, chanVars, destroy, freed, at, mode, got, calls>>

(* tail.index.fetch_or(MARK_BIT)                                           *)
Mark(t) ==
    /\ pc[t] = "mark"
    /\ tail' = [tail EXCEPT !.mark = TRUE]
    /\ Goto(t, CASE tail.mark      -> "destroy"
                 [] t \in Senders  -> "disconnect"
                 [] OTHER          -> "k_tail")
    /\ UNCHANGED <<head, blocks, at>> /\ Rest

Disconnect(t) ==
    /\ pc[t] = "disconnect"
    /\ disconnect({"receivers"}) /\ Goto(t, "destroy") /\ Waiting

(* discard_all_messages first waits for a block that is being installed.   *)
DiscardTail(t) ==
    /\ pc[t] = "k_tail" /\ Offset(tail.pos) # BLOCK_CAP
    /\ at' = [at EXCEPT ![t].end = tail.pos]
    /\ Goto(t, "k_head") /\ UNCHANGED mode /\ Reading

DiscardHead(t) ==
    /\ pc[t] = "k_head"
    /\ at' = [at EXCEPT ![t].pos = head.pos]
    /\ Goto(t, "k_swap") /\ UNCHANGED mode /\ Reading

(* The block is taken out of the head; if there are messages but no block  *)
(* the swap is repeated.                                                   *)
DiscardSwap(t) ==
    /\ pc[t] = "k_swap"
    /\ at[t].pos = at[t].end \/ head.block # null
    /\ head' = [head EXCEPT !.block = null]
    /\ at'   = [at EXCEPT ![t].block = head.block]
    /\ Goto(t, "k_drop")
    /\ UNCHANGED <<tail, blocks>> /\ Rest

(* The two loops that drop what is left, in discard_all_messages and when  *)
(* the channel is deallocated, differ in that the first one has to wait    *)
(* for senders that are not done with their slots.                         *)
DropSlot(t) ==
    /\ at[t].pos # at[t].end /\ Offset(at[t].pos) < BLOCK_CAP
    /\ blocks' = [blocks EXCEPT ![at[t].block].slots[Offset(at[t].pos)].msg = NoMsg]
    /\ at' = [at EXCEPT ![t].pos = @ + 1]
    /\ UNCHANGED <<head, tail, pc>> /\ Rest

DropBlock(t) ==
    /\ at[t].pos # at[t].end /\ Offset(at[t].pos) = BLOCK_CAP
    /\ Free(at[t].block)
    /\ at' = [at EXCEPT ![t].pos = @ + 1, ![t].block = blocks[at[t].block].next]
    /\ UNCHANGED <<head, tail, pc>> /\ Rest

(* The last block, if there is one.                                        *)
DropRest(t, loc) ==
    /\ at[t].pos = at[t].end
    /\ \/ at[t].block # null /\ Free(at[t].block)
       \/ at[t].block = null /\ UNCHANGED blocks
    /\ Goto(t, loc)

DiscardSlot(t)  == pc[t] = "k_drop" /\ DropSlot(t) /\ "WRITE" \in Slot(t).state

DiscardBlock(t) == pc[t] = "k_drop" /\ DropBlock(t) /\ blocks[at[t].block].next # null

DiscardRest(t)  == pc[t] = "k_drop" /\ DropRest(t, "k_store") /\ UNCHANGED <<head, tail, at>> /\ Rest

DiscardStore(t) ==
    /\ pc[t] = "k_store"
    /\ head' = [head EXCEPT !.pos = at[t].pos, !.mark = FALSE]
    /\ Goto(t, "destroy") /\ Forget(t)
    /\ UNCHANGED <<tail, blocks>> /\ Rest

(* destroy.swap(true): the second of the two sides drops the channel.      *)
Destroy(t) ==
    /\ pc[t] = "destroy"
    /\ destroy' = TRUE
    /\ \/ ~destroy /\ Goto(t, "gone") /\ UNCHANGED at
       \/ destroy /\ Goto(t, "x_drop")
          /\ at' = [at EXCEPT ![t] = [NoLocals EXCEPT !.pos = head.pos, !.end = tail.pos, !.block = head.block]]
    /\ UNCHANGED <<wakerVars, chanVars, handles, freed, mode, got, calls>>

ChannelDropSlot(t)  == pc[t] = "x_drop" /\ DropSlot(t)

ChannelDropBlock(t) == pc[t] = "x_drop" /\ DropBlock(t)

ChannelFree(t) ==
    /\ pc[t] = "x_drop" /\ DropRest(t, "gone") /\ Forget(t) /\ freed' = TRUE
    /\ UNCHANGED <<wakerVars, head, tail, handles, destroy, mode, got, calls>>

(* len, from a head that was loaded while the tail did not move: positions *)
(* at the end of a block move on to the next one, and both are counted     *)
(* from the first position of the head's block.                            *)
FixUp(p) == IF Offset(p) = LAP - 1 THEN p + 1 ELSE p

\* Mutant of len: counts the blocks from the tail as it was loaded.
len_tail_at_end(h, t) ==
    LET base == Lap(FixUp(h)) * LAP
        last == FixUp(t) - base
    IN  last - (FixUp(h) - base) - (Lap(t) - Lap(FixUp(h)))

len(h, t) ==
    LET base == Lap(FixUp(h)) * LAP
        last == FixUp(t) - base
    IN  last - (FixUp(h) - base) - Lap(last)

-----------------------------------------------------------------------------
SendStep(t) == \/ LoadTailIndex(t) \/ LoadTailBlock(t) \/ InitTailBlock(t) \/ InitHeadBlock(t)
               \/ CasTail(t) \/ StoreTailBlock(t) \/ AddTailIndex(t) \/ StoreNext(t)
               \/ WriteMsg(t) \/ SetWrite(t)

RecvStep(t) == \/ LoadHeadIndex(t) \/ LoadHeadBlock(t) \/ LoadTail(t) \/ CasHead(t)
               \/ WaitNext(t) \/ LoadNextNext(t) \/ StoreHeadBlock(t) \/ StoreHeadIndex(t)
               \/ ReadMsg(t) \/ SetRead(t)
               \/ DestroyLoad(t) \/ DestroyOr(t) \/ DestroyFree(t)

WakerStep(t) == \/ NotifyCheck(t) \/ NotifyLock(t) \/ Register(t) \/ CheckHead(t)
                \/ CheckTail(t) \/ CheckDisconnected(t) \/ Abort(t) \/ WaitUntil(t)
                \/ Deadline(t) \/ Park(t) \/ Unregister(t)

EndStep(t) == \/ Mark(t) \/ Disconnect(t) \/ DiscardTail(t) \/ DiscardHead(t) \/ DiscardSwap(t)
              \/ DiscardSlot(t) \/ DiscardBlock(t) \/ DiscardRest(t) \/ DiscardStore(t)
              \/ Destroy(t) \/ ChannelDropSlot(t) \/ ChannelDropBlock(t) \/ ChannelFree(t)

(* The steps of a call that has begun; a thread inside one is scheduled.   *)
InCall(t) == SendStep(t) \/ RecvStep(t) \/ WakerStep(t) \/ EndStep(t)

Finished == At({"gone"}) = Threads /\ UNCHANGED vars

Next == \/ \E t \in Threads : \/ InCall(t)
                               \/ \E m \in Modes(t) : Call(t, m)
                               \/ Release(t)
        \/ Finished

Spec == Init /\ [][Next]_vars

FairSpec == Spec /\ \A t \in Threads : WF_vars(InCall(t))

-----------------------------------------------------------------------------
(* A thread that uses a block, up to the step that frees it, finds it      *)
(* allocated: a block is freed once, when nobody needs it any more. The    *)
(* receiver that moves the head looks into the next block as well.         *)
BlocksAreLive ==
    /\ \A t \in At({"s_head", "s_next", "s_skip", "s_link", "s_write", "s_flag", "r_next",
                    "r_peek", "r_hblock", "r_hindex", "r_read", "r_flag", "d_load", "d_or"}) :
         blocks[at[t].block].live
    /\ \A t \in At({"r_peek"}) : blocks[at[t].next].live
    /\ \A t \in At({"k_drop", "x_drop"}) : at[t].block # null => blocks[at[t].block].live

(* How many messages there are in the positions before p, and message n,   *)
(* counted from 0: in its slot, or still with a sender that has taken the  *)
(* position and is about to write it. As functions, for TLC evaluates the  *)
(* argument of a function once.                                            *)
Before[p \in Nat] == p - Lap(p)

SlotOf(n) == blocks[n \div BLOCK_CAP + 1].slots[n % BLOCK_CAP]

Msg[n \in Nat] ==
    IF n \div BLOCK_CAP < Len(blocks) /\ SlotOf(n).msg # NoMsg THEN SlotOf(n).msg
    ELSE Message(CHOOSE t \in At({"s_next", "s_skip", "s_link", "s_write"}) : Before[at[t].pos] = n)

(* Where the oldest message is; a thread that drops the messages works on  *)
(* its own copy of the head.                                               *)
First == LET dropping == At({"k_drop", "k_store", "x_drop"})
         IN  CASE freed          -> tail.pos
               [] dropping # {}  -> at[CHOOSE t \in dropping : TRUE].pos
               [] OTHER          -> head.pos

Queue == [i \in 1..(Before[tail.pos] - Before[First]) |-> Msg[Before[First] + i - 1]]

(* A receiver has taken its message when it has moved the head.            *)
Delivered == [r \in Receivers |->
                IF pc[r] \in {"r_next", "r_peek", "r_hblock", "r_hindex", "r_read"}
                THEN Append(got[r], Msg[Before[at[r].pos]]) ELSE got[r]]

(* The list of blocks implements a queue without a bound (none that the    *)
(* senders could reach): sends take effect when they move the tail,        *)
(* receives when they move the head, although the index and the block of   *)
(* each end are loaded one after the other.                                *)
Abstract == INSTANCE BoundedChannel
              WITH queue <- Queue, delivered <- Delivered, closed <- tail.mark,
                   cap <- Cardinality(Senders) * MaxSends

ImplementsChannel == Abstract!Spec

(* len is the number of messages, one for each position with a slot from   *)
(* the head up to the tail, whatever is going on at the two ends, in       *)
(* particular while either is at the end of a block; the subtraction never *)
(* underflows.                                                             *)
LenIsExact == handles \cap Receivers # {} =>
                /\ FixUp(head.pos) <= FixUp(tail.pos)
                /\ len(head.pos, tail.pos)
                     = Cardinality({p \in head.pos..(tail.pos - 1) : Offset(p) # BLOCK_CAP})

(* When all handles are gone the channel has been deallocated, after the   *)
(* last step of every other thread, and with it every block and message,   *)
(* whoever allocated the first block, or the next one, while the receivers *)
(* left.                                                                   *)
NothingLeaks ==
    /\ freed => At({"gone"}) = Threads
    /\ At({"gone"}) = Threads =>
         /\ freed
         /\ \A b \in DOMAIN blocks : /\ ~blocks[b].live
                                     /\ \A i \in DOMAIN blocks[b].slots : blocks[b].slots[i].msg = NoMsg

(* The waits for other threads end. A parked receiver is woken if there is *)
(* a message that no other thread takes; a send returns, also one that     *)
(* finds the tail at the end of a block; and once the channel is           *)
(* disconnected every call does, the destruction included.                 *)
WaitsEnd == /\ []<>(At({"parked"}) = {} \/ Queue = <<>>)
            /\ []<>(\A t \in Senders : pc[t] \in {"idle", "gone"})
            /\ tail.mark ~> At({"idle", "gone"}) = Threads
=============================================================================
