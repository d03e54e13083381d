------------------------- MODULE ZeroChannelProofs --------------------------
(***************************************************************************)
(* Proofs about the channel without capacity, for any set of threads and   *)
(* any number of calls: nothing is used after it is gone, no two threads   *)
(* miss each other, a wait that has been decided is unparked, and the      *)
(* channel implements the rendezvous.                                      *)
(***************************************************************************)
EXTENDS ZeroChannel, SyncWakerProofs

Packets  == [alive : BOOLEAN, ready : BOOLEAN, msg : {NoMsg} \cup (Threads \X Nat)]

Locations == {"idle", "start", "write", "read", "ready", "wait", "parked", "unregister",
              "wait_ready", "disconnect", "destroy"}

ChanTypeOK ==
    /\ is_disconnected \in BOOLEAN /\ destroy \in BOOLEAN /\ freed \in Nat
    /\ pc     \in [Threads -> Locations]
    /\ side   \in [Threads -> {"none", "senders", "receivers"}]
    /\ peer   \in [Threads -> Threads]
    /\ packet \in [Threads -> Packets]
    /\ got    \in [Threads -> Seq(Threads \X Nat)]
    /\ calls  \in [Threads -> Nat]
    /\ handles \subseteq Threads \X Wakers

(* Where a thread has a packet of its own, and where it uses one of a      *)
(* partner.                                                                *)
Waits == {"wait", "parked", "unregister", "wait_ready"}
Pairs == {"write", "read", "ready"}

(* A thread in a call has a handle of its side, and only a sender writes,  *)
(* only a receiver reads.                                                  *)
CallOK(t) ==
    /\ side[t] # "none" <=> pc[t] \notin {"idle", "disconnect", "destroy"}
    /\ side[t] # "none" => <<t, side[t]>> \in handles
    /\ pc[t] = "write" => side[t] = "senders"
    /\ pc[t] = "read"  => side[t] = "receivers"

(* The registered threads are those whose wait is undecided.               *)
EntryOK(t) ==
    /\ \A w \in Wakers : t \in Registered(w) <=> side[t] = w /\ pc[t] # "start" /\ Undecided(t)
    /\ pc[t] = "wait_ready" => select[t] = "operation"
    /\ pc[t] = "unregister" => select[t] \in {"aborted", "disconnected"}

(* A packet is there as long as its thread waits. Until a partner has      *)
(* selected the thread, a sender's message is in it, and nothing else.     *)
PacketOK(t) ==
    /\ packet[t].alive <=> pc[t] \in Waits
    /\ pc[t] \in Waits /\ Undecided(t) =>
         /\ packet[t].ready = FALSE
         /\ packet[t].msg = IF side[t] = "senders" THEN Message(t) ELSE NoMsg

(* What became of a wait does not get lost: a thread that parks although   *)
(* its wait is decided has its token, and nobody waits in a channel that   *)
(* is disconnected.                                                        *)
DecidedOK(t) ==
    /\ pc[t] = "parked" => select[t] = "waiting" \/ token[t]
    /\ is_disconnected /\ pc[t] \in {"wait", "parked"} => select[t] # "waiting"

(* The messages there are have been sent.                                  *)
Sent(m) == m[2] <= calls[m[1]]

SentOK(t) == /\ \A i \in 1..Len(got[t]) : Sent(got[t][i])
             /\ packet[t].msg # NoMsg => Sent(packet[t].msg)

ThreadOK(t) == CallOK(t) /\ EntryOK(t) /\ PacketOK(t) /\ DecidedOK(t) /\ SentOK(t)

ThreadsAreOK == \A t \in Threads : ThreadOK(t)

(* Where a thread finds a packet that it may use.                          *)
PairOK(t) ==
    /\ Selected(peer[t]) /\ side[peer[t]] = Other(t) /\ packet[peer[t]].ready = FALSE
    /\ pc[t] = "write" => packet[peer[t]].msg = NoMsg
    /\ pc[t] = "read"  => packet[peer[t]].msg = Message(peer[t])
    /\ pc[t] = "ready" /\ side[t] = "senders" => packet[peer[t]].msg = Message(t)

(* A thread that uses a packet is the only one, and the thread that owns   *)
(* it cannot leave.                                                        *)
PairsAreExclusive ==
    \A t \in Threads : pc[t] \in Pairs =>
       PairOK(t) /\ \A u \in Threads : pc[u] \in Pairs /\ peer[u] = peer[t] => u = t

(* A thread that has been selected has a partner, until its packet is      *)
(* ready; a receiver's packet holds a message then.                        *)
SelectedHavePartners ==
    \A t \in Threads : Selected(t) =>
       \/ packet[t].ready /\ (side[t] = "receivers" => packet[t].msg # NoMsg)
       \/ \E u \in Threads : pc[u] \in Pairs /\ peer[u] = t

(* Each side whose last handle is gone has one thread that disconnects, or *)
(* has had one; the second of them deallocates.                            *)
Gone(s) == \A t \in Threads : <<t, s>> \notin handles

Closing == At({"disconnect", "destroy"})

ClosedInTurn ==
    \/ /\ ~destroy /\ freed = 0 /\ Closing = {}
       /\ ~Gone("senders") /\ ~Gone("receivers")
    \/ /\ freed = 0 /\ ~(Gone("senders") <=> Gone("receivers"))
       /\ \/ ~destroy /\ \E t \in Threads : Closing = {t}
          \/ destroy /\ Closing = {}
    \/ /\ Gone("senders") /\ Gone("receivers")
       /\ \/ ~destroy /\ freed = 0 /\ \E t, u \in Threads : t # u /\ Closing = {t, u}
          \/ destroy /\ freed = 0 /\ \E t \in Threads : Closing = {t}
          \/ destroy /\ freed = 1 /\ Closing = {}

(* The inductive invariant of the channel.                                 *)
ZeroInv == /\ WakerInv /\ ChanTypeOK /\ ThreadsAreOK
           /\ PairsAreExclusive /\ SelectedHavePartners
           /\ NoMissedPartner /\ ClosedInTurn

-----------------------------------------------------------------------------
(* What is known of a thread that a step leaves alone.                     *)
Same(u) == /\ pc'[u] = pc[u] /\ side'[u] = side[u] /\ peer'[u] = peer[u] /\ packet'[u] = packet[u]
           /\ got'[u] = got[u] /\ calls'[u] = calls[u]
           /\ select'[u] = select[u] /\ token'[u] = token[u]

SameEntries(u) ==
    \A w \in Wakers : /\ u \in Registered(w)' <=> u \in Registered(w)
                      /\ <<u, w>> \in handles => <<u, w>> \in handles'

(* A step that changes nothing but thread t.                               *)
OnlyThread(t) ==
    /\ \A u \in Threads : u # t => Same(u) /\ SameEntries(u)
    /\ \A u \in Threads : calls[u] <= calls'[u]
    /\ is_disconnected' = is_disconnected

LEMMA SameMeans ==
  ASSUME NEW u \in Threads, Same(u)
  PROVE  /\ Undecided(u)' <=> Undecided(u)
         /\ Selected(u)' <=> Selected(u)
         /\ Message(u)' = Message(u) /\ Other(u)' = Other(u)
  BY DEF Same, Undecided, Selected, Message, Other

LEMMA SentStays ==
  ASSUME ChanTypeOK, ChanTypeOK', \A u \in Threads : calls[u] <= calls'[u],
         NEW m \in Threads \X Nat, Sent(m)
  PROVE  Sent(m)'
<1>1. m[1] \in Threads /\ m[2] \in Nat
  OBVIOUS
<1>2. calls[m[1]] \in Nat /\ calls'[m[1]] \in Nat /\ calls[m[1]] <= calls'[m[1]]
  BY <1>1 DEF ChanTypeOK
<1>. QED
  BY <1>1, <1>2 DEF Sent

(* A thread that is left alone stays as it should be.                      *)
LEMMA SentOKStays ==
  ASSUME ChanTypeOK, ChanTypeOK', NEW u \in Threads, SentOK(u),
         got'[u] = got[u], packet'[u].msg \in {packet[u].msg, NoMsg},
         \A v \in Threads : calls[v] <= calls'[v]
  PROVE  SentOK(u)'
<1>1. got[u] \in Seq(Threads \X Nat) /\ packet[u].msg \in {NoMsg} \cup (Threads \X Nat)
  BY DEF ChanTypeOK, Packets
<1>2. ASSUME NEW i \in 1..Len(got[u]) PROVE Sent(got[u][i])'
  <2>1. got[u][i] \in Threads \X Nat
    BY <1>1, ElementOfSeq
  <2>2. Sent(got[u][i])
    BY DEF SentOK
  <2>. QED
    BY <2>1, <2>2, SentStays
<1>3. ASSUME NEW m, m = packet[u].msg, m # NoMsg PROVE Sent(m)'
  <2>1. m \in Threads \X Nat /\ Sent(m)
    BY <1>1, <1>3 DEF SentOK
  <2>. QED
    BY <2>1, SentStays
<1>. QED
  BY <1>2, <1>3 DEF SentOK, Sent

LEMMA SameOK ==
  ASSUME ChanTypeOK, ChanTypeOK', NEW u \in Threads, ThreadOK(u), Same(u), SameEntries(u),
         \A v \in Threads : calls[v] <= calls'[v], is_disconnected' = is_disconnected
  PROVE  ThreadOK(u)'
<1>0. Undecided(u)' <=> Undecided(u)
  BY SameMeans
<1>00. Message(u)' = Message(u)
  BY SameMeans
<1>1. CallOK(u)'
  <2>1. side[u] # "none" => side[u] \in Wakers
    BY ConstantsAssumption DEF ChanTypeOK
  <2>. QED
    BY <2>1 DEF ThreadOK, CallOK, Same, SameEntries
<1>2. EntryOK(u)'
  BY <1>0 DEF ThreadOK, EntryOK, Same, SameEntries
<1>3. PacketOK(u)'
  BY <1>0, <1>00 DEF ThreadOK, PacketOK, Same
<1>4. DecidedOK(u)'
  BY DEF ThreadOK, DecidedOK, Same
<1>5. SentOK(u)'
  BY SentOKStays DEF ThreadOK, Same
<1>. QED
  BY <1>1, <1>2, <1>3, <1>4, <1>5 DEF ThreadOK

(* A step of a thread t that has to do with nobody else keeps the pairs.   *)
LEMMA LocalStep ==
  ASSUME ZeroInv, ChanTypeOK', NEW t \in Threads, OnlyThread(t), ThreadOK(t)',
         pc[t] \notin Pairs, pc'[t] \notin Pairs, Selected(t)' => Selected(t),
         Selected(t) => \/ Selected(t)' /\ packet'[t] = packet[t] /\ side'[t] = side[t] /\ calls'[t] = calls[t]
                        \/ packet[t].ready /\ ~Selected(t)'
  PROVE  ThreadsAreOK' /\ PairsAreExclusive' /\ SelectedHavePartners'
<1>0. ChanTypeOK /\ ThreadsAreOK /\ PairsAreExclusive /\ SelectedHavePartners
  BY DEF ZeroInv
<1>1. ThreadsAreOK'
  BY <1>0, SameOK DEF OnlyThread, ThreadsAreOK
<1>2. ASSUME NEW v \in Threads, pc'[v] \in Pairs
      PROVE  /\ v # t /\ pc[v] \in Pairs /\ peer'[v] = peer[v] /\ side'[v] = side[v] /\ pc'[v] = pc[v]
             /\ peer[v] \in Threads /\ PairOK(v)
  BY <1>0, <1>2 DEF OnlyThread, Same, PairsAreExclusive, ChanTypeOK
<1>3. ASSUME NEW v \in Threads, pc'[v] \in Pairs PROVE PairOK(v)'
  <2> DEFINE p == peer[v]
  <2>1. p \in Threads /\ PairOK(v) /\ v # t /\ peer'[v] = p /\ Same(v)
    BY <1>2, <1>3 DEF OnlyThread
  <2>2. /\ Selected(p)' /\ packet'[p] = packet[p] /\ side'[p] = side[p]
        /\ Message(p)' = Message(p)
    <3>1. CASE p = t
      BY <2>1, <3>1 DEF PairOK, Message
    <3>2. CASE p # t
      BY <2>1, <3>2, SameMeans DEF PairOK, OnlyThread, Same
    <3>. QED
      BY <3>1, <3>2
  <2>3. Message(v)' = Message(v) /\ Other(v)' = Other(v) /\ pc'[v] = pc[v] /\ side'[v] = side[v]
    BY <2>1, SameMeans DEF Same
  <2>. QED
    BY <2>1, <2>2, <2>3 DEF PairOK
<1>4. PairsAreExclusive'
  BY <1>0, <1>2, <1>3 DEF PairsAreExclusive
<1>5. SelectedHavePartners'
  <2> SUFFICES ASSUME NEW v \in Threads, Selected(v)'
               PROVE  \/ packet'[v].ready /\ (side'[v] = "receivers" => packet'[v].msg # NoMsg)
                      \/ \E u \in Threads : pc'[u] \in Pairs /\ peer'[u] = v
    BY DEF SelectedHavePartners
  <2>1. Selected(v) /\ packet'[v] = packet[v] /\ side'[v] = side[v]
    <3>1. CASE v = t
      BY <3>1
    <3>2. CASE v # t
      BY <3>2, SameMeans DEF OnlyThread, Same
    <3>. QED
      BY <3>1, <3>2
  <2>2. ASSUME NEW u \in Threads, pc[u] \in Pairs, peer[u] = v
        PROVE  pc'[u] \in Pairs /\ peer'[u] = v
    BY <2>2 DEF OnlyThread, Same
  <2>. QED
    BY <1>0, <2>1, <2>2 DEF SelectedHavePartners
<1>. QED
  BY <1>1, <1>4, <1>5

(* Nobody starts to wait.                                                  *)
LEMMA NobodyMissed ==
  ASSUME NoMissedPartner,
         \A u \in Threads : pc'[u] \in {"wait", "parked"} /\ select'[u] = "waiting" =>
            pc[u] \in {"wait", "parked"} /\ select[u] = "waiting" /\ side'[u] = side[u]
  PROVE  NoMissedPartner'
  BY DEF NoMissedPartner, Unpaired, At

(* Nobody lets go of a handle.                                             *)
LEMMA ClosingStays ==
  ASSUME ClosedInTurn, UNCHANGED <<handles, destroy, freed>>,
         \A u \in Threads : pc'[u] \in {"disconnect", "destroy"} <=> pc[u] \in {"disconnect", "destroy"}
  PROVE  ClosedInTurn'
<1>1. Closing' = Closing
  BY DEF Closing, At
<1>2. Gone("senders")' <=> Gone("senders")
  BY DEF Gone
<1>3. Gone("receivers")' <=> Gone("receivers")
  BY DEF Gone
<1>. QED
  BY <1>1, <1>2, <1>3 DEF ClosedInTurn

(* A step of a call that keeps the invariant if it does so for its thread. *)
LEMMA CallStep ==
  ASSUME ZeroInv, ChanTypeOK', WakerInv', NEW t \in Threads, OnlyThread(t), ThreadOK(t)',
         pc[t] \notin Pairs, pc'[t] \notin Pairs, Selected(t)' => Selected(t),
         Selected(t) => \/ Selected(t)' /\ packet'[t] = packet[t] /\ side'[t] = side[t] /\ calls'[t] = calls[t]
                        \/ packet[t].ready /\ ~Selected(t)',
         UNCHANGED endVars, pc[t] \notin {"disconnect", "destroy"}, pc'[t] \notin {"disconnect", "destroy"},
         pc'[t] \in {"wait", "parked"} /\ select'[t] = "waiting" =>
            pc[t] \in {"wait", "parked"} /\ select[t] = "waiting" /\ side'[t] = side[t]
  PROVE  ZeroInv'
<1>1. ThreadsAreOK' /\ PairsAreExclusive' /\ SelectedHavePartners'
  BY LocalStep
<1>2. \A u \in Threads : u # t => pc'[u] = pc[u] /\ select'[u] = select[u] /\ side'[u] = side[u]
  BY DEF OnlyThread, Same
<1>3. NoMissedPartner'
  <2>1. \A u \in Threads : pc'[u] \in {"wait", "parked"} /\ select'[u] = "waiting" =>
            pc[u] \in {"wait", "parked"} /\ select[u] = "waiting" /\ side'[u] = side[u]
    BY <1>2
  <2>. QED
    BY <2>1, NobodyMissed DEF ZeroInv
<1>4. ClosedInTurn'
  BY <1>2, ClosingStays DEF ZeroInv, endVars
<1>. QED
  BY <1>1, <1>3, <1>4 DEF ZeroInv

-----------------------------------------------------------------------------
(* A call begins.                                                          *)
LEMMA ZeroCall ==
  ASSUME ZeroInv, NEW t \in Threads, NEW s \in Wakers, NEW m \in Modes, Call(t, s, m)
  PROVE  ZeroInv'
<1>0. ChanTypeOK /\ WakerInv /\ ThreadOK(t) /\ s \in {"senders", "receivers"}
  BY ConstantsAssumption DEF ZeroInv, ThreadsAreOK
<1>1. /\ pc[t] = "idle" /\ <<t, s>> \in handles
      /\ calls' = [calls EXCEPT ![t] = @ + 1] /\ side' = [side EXCEPT ![t] = s]
      /\ pc' = [pc EXCEPT ![t] = "start"]
      /\ UNCHANGED <<is_disconnected, packet, endVars, peer, got>> /\ UNCHANGED wakerVars
  BY DEF Call, Goto
<1>2. UNCHANGED <<handles, destroy, freed>>
  BY <1>1 DEF endVars
<1>3. ChanTypeOK'
  BY <1>0, <1>1, <1>2 DEF ChanTypeOK, Locations
<1>4. WakerInv' /\ \A w \in Wakers : Registered(w)' = Registered(w)
  BY <1>0, <1>1, WakerUnchanged
<1>5. select' = select /\ token' = token
  BY <1>1 DEF wakerVars
<1>6. OnlyThread(t)
  BY <1>0, <1>1, <1>2, <1>4, <1>5 DEF OnlyThread, Same, SameEntries, ChanTypeOK
<1>7. pc'[t] = "start" /\ side'[t] = s /\ packet'[t] = packet[t] /\ got'[t] = got[t]
  BY <1>0, <1>1 DEF ChanTypeOK
<1>8. ThreadOK(t)'
  <2>1. side[t] = "none" /\ ~packet[t].alive
    BY <1>0, <1>1 DEF ThreadOK, CallOK, PacketOK, Waits
  <2>2. CallOK(t)'
    BY <1>0, <1>1, <1>2, <1>7 DEF CallOK
  <2>3. EntryOK(t)'
    <3>1. \A w \in Wakers : t \notin Registered(w)
      BY <1>0, <2>1, ConstantsAssumption DEF ThreadOK, EntryOK
    <3>. QED
      BY <1>4, <1>7, <3>1 DEF EntryOK
  <2>4. PacketOK(t)'
    BY <1>7, <2>1 DEF PacketOK, Waits
  <2>5. DecidedOK(t)'
    BY <1>7 DEF DecidedOK
  <2>6. SentOK(t)'
    BY <1>0, <1>3, <1>6, <1>7, SentOKStays DEF ThreadOK, OnlyThread
  <2>. QED
    BY <2>2, <2>3, <2>4, <2>5, <2>6 DEF ThreadOK
<1>9. ~Selected(t) /\ ~Selected(t)'
  BY <1>1, <1>7 DEF Selected
<1>. QED
  BY <1>1, <1>3, <1>4, <1>6, <1>7, <1>8, <1>9, CallStep DEF Pairs

(* What remains of a call that returns.                                    *)
LEMMA ReturnIsClean ==
  ASSUME ChanTypeOK, NEW t \in Threads, Return(t)
  PROVE  /\ pc' \in [Threads -> Locations] /\ side' \in [Threads -> {"none", "senders", "receivers"}]
         /\ peer' \in [Threads -> Threads] /\ packet' \in [Threads -> Packets]
         /\ pc'[t] = "idle" /\ side'[t] = "none" /\ packet'[t] = NoPacket
         /\ \A u \in Threads : u # t => /\ pc'[u] = pc[u] /\ side'[u] = side[u] /\ peer'[u] = peer[u]
                                        /\ packet'[u] = packet[u]
<1>1. NoPacket \in Packets
  BY DEF NoPacket, Packets
<1>. QED
  BY <1>1 DEF ChanTypeOK, Return, Leave, Goto, Locations

(* A thread whose call is over is as it should be.                         *)
LEMMA ReturnIsOK ==
  ASSUME ChanTypeOK, ChanTypeOK', NEW t \in Threads, pc'[t] = "idle", side'[t] = "none",
         packet'[t] = NoPacket, \A w \in Wakers : t \notin Registered(w)',
         SentOK(t)'
  PROVE  ThreadOK(t)' /\ ~Selected(t)'
<1>1. CallOK(t)' /\ DecidedOK(t)' /\ ~Selected(t)'
  BY DEF CallOK, DecidedOK, Selected
<1>2. EntryOK(t)'
  BY DEF EntryOK, Undecided
<1>3. PacketOK(t)'
  BY DEF PacketOK, NoPacket, Waits
<1>. QED
  BY <1>1, <1>2, <1>3 DEF ThreadOK

(* A call that finds no partner returns.                                   *)
LEMMA ZeroRefuse ==
  ASSUME ZeroInv, NEW t \in Threads, Refuse(t)
  PROVE  ZeroInv'
<1>0. ChanTypeOK /\ WakerInv /\ ThreadOK(t)
  BY DEF ZeroInv, ThreadsAreOK
<1>1. /\ pc[t] = "start" /\ Return(t) /\ UNCHANGED wakerVars
      /\ UNCHANGED <<is_disconnected, endVars, got, calls>>
  BY DEF Refuse
<1>2. UNCHANGED <<handles, destroy, freed>>
  BY <1>1 DEF endVars
<1>3. ChanTypeOK'
  BY <1>0, <1>1, <1>2, ReturnIsClean DEF ChanTypeOK
<1>4. WakerInv' /\ \A w \in Wakers : Registered(w)' = Registered(w)
  BY <1>0, <1>1, WakerUnchanged
<1>5. select' = select /\ token' = token
  BY <1>1 DEF wakerVars
<1>6. OnlyThread(t)
  BY <1>0, <1>1, <1>2, <1>4, <1>5, ReturnIsClean DEF OnlyThread, Same, SameEntries, ChanTypeOK
<1>7. pc'[t] = "idle" /\ side'[t] = "none" /\ packet'[t] = NoPacket
  BY <1>0, <1>1, ReturnIsClean
<1>8. SentOK(t)'
  <2>1. packet'[t].msg = NoMsg /\ got'[t] = got[t]
    BY <1>1, <1>7 DEF NoPacket
  <2>. QED
    BY <1>0, <1>3, <1>6, <2>1, SentOKStays DEF ThreadOK, OnlyThread
<1>9. \A w \in Wakers : t \notin Registered(w)'
  BY <1>0, <1>1, <1>4 DEF ThreadOK, EntryOK
<1>10. ThreadOK(t)' /\ ~Selected(t)'
  BY <1>0, <1>3, <1>7, <1>8, <1>9, ReturnIsOK
<1>11. ~Selected(t)
  BY <1>1 DEF Selected
<1>. QED
  BY <1>1, <1>3, <1>4, <1>6, <1>7, <1>10, <1>11, CallStep DEF Pairs

(* A thread that gave up, or was told of the disconnection, takes its      *)
(* entry off and returns.                                                  *)
LEMMA ZeroUnregister ==
  ASSUME ZeroInv, NEW t \in Threads, Unregister(t)
  PROVE  ZeroInv'
<1>0. ChanTypeOK /\ WakerInv /\ ThreadOK(t)
  BY DEF ZeroInv, ThreadsAreOK
<1>1. /\ pc[t] = "unregister" /\ Return(t) /\ unregister(t, side[t])
      /\ UNCHANGED <<is_disconnected, endVars, got, calls>>
  BY DEF Unregister
<1>2. UNCHANGED <<handles, destroy, freed>>
  BY <1>1 DEF endVars
<1>3. ChanTypeOK'
  BY <1>0, <1>1, <1>2, ReturnIsClean DEF ChanTypeOK
<1>a. side[t] \in Wakers
  BY <1>0, <1>1, ConstantsAssumption DEF ThreadOK, CallOK, ChanTypeOK
<1>4. /\ WakerInv' /\ select' = select /\ token' = token
      /\ \A w \in Wakers : Registered(w)' = IF w = side[t] THEN Registered(w) \ {t} ELSE Registered(w)
  BY <1>0, <1>1, <1>a, UnregisterEffect
<1>5. \A u \in Threads : u # t => Same(u)
  BY <1>0, <1>1, <1>4, ReturnIsClean DEF Same
<1>b. \A u \in Threads : u # t => SameEntries(u)
  BY <1>2, <1>4 DEF SameEntries
<1>6. OnlyThread(t)
  BY <1>0, <1>1, <1>5, <1>b DEF OnlyThread, ChanTypeOK
<1>7. pc'[t] = "idle" /\ side'[t] = "none" /\ packet'[t] = NoPacket
  BY <1>0, <1>1, ReturnIsClean
<1>8. SentOK(t)'
  <2>1. packet'[t].msg = NoMsg /\ got'[t] = got[t]
    BY <1>1, <1>7 DEF NoPacket
  <2>. QED
    BY <1>0, <1>3, <1>6, <2>1, SentOKStays DEF ThreadOK, OnlyThread
<1>9. \A w \in Wakers : t \notin Registered(w)'
  BY <1>0, <1>1, <1>4 DEF ThreadOK, EntryOK
<1>10. ThreadOK(t)' /\ ~Selected(t)'
  BY <1>0, <1>3, <1>7, <1>8, <1>9, ReturnIsOK
<1>11. ~Selected(t)
  BY <1>1 DEF Selected
<1>. QED
  BY <1>1, <1>3, <1>4, <1>6, <1>7, <1>10, <1>11, CallStep DEF Pairs

(* Selected, and the packet ready: the partner is done with it.            *)
LEMMA ReadyHasNoPartner ==
  ASSUME ZeroInv, NEW t \in Threads, Selected(t), packet[t].ready
  PROVE  side[t] = "receivers" => packet[t].msg \in Threads \X Nat /\ packet[t].msg # NoMsg
<1>1. ASSUME NEW u \in Threads, pc[u] \in Pairs, peer[u] = t PROVE FALSE
  BY <1>1 DEF ZeroInv, PairsAreExclusive, PairOK
<1>2. packet[t].msg \in {NoMsg} \cup (Threads \X Nat)
  BY DEF ZeroInv, ChanTypeOK, Packets
<1>. QED
  BY <1>1, <1>2 DEF ZeroInv, SelectedHavePartners

LEMMA ZeroWaitReady ==
  ASSUME ZeroInv, NEW t \in Threads, WaitReady(t)
  PROVE  ZeroInv'
<1>0. ChanTypeOK /\ WakerInv /\ ThreadOK(t)
  BY DEF ZeroInv, ThreadsAreOK
<1>1. /\ pc[t] = "wait_ready" /\ packet[t].ready /\ Return(t) /\ UNCHANGED wakerVars
      /\ got' = [got EXCEPT ![t] = IF side[t] = "receivers" THEN Append(@, packet[t].msg) ELSE @]
      /\ UNCHANGED <<is_disconnected, endVars, calls>>
  BY DEF WaitReady
<1>2. UNCHANGED <<handles, destroy, freed>>
  BY <1>1 DEF endVars
<1>s. Selected(t)
  BY <1>1 DEF Selected
<1>m. side[t] = "receivers" => packet[t].msg \in Threads \X Nat /\ packet[t].msg # NoMsg
  BY <1>1, <1>s, ReadyHasNoPartner
<1>g. /\ got' \in [Threads -> Seq(Threads \X Nat)]
      /\ \A u \in Threads : u # t => got'[u] = got[u]
      /\ got'[t] = IF side[t] = "receivers" THEN Append(got[t], packet[t].msg) ELSE got[t]
  <2>1. got[t] \in Seq(Threads \X Nat)
    BY <1>0 DEF ChanTypeOK
  <2>2. side[t] = "receivers" => Append(got[t], packet[t].msg) \in Seq(Threads \X Nat)
    BY <1>m, <2>1, AppendProperties
  <2>. QED
    BY <1>0, <1>1, <2>1, <2>2 DEF ChanTypeOK
<1>3. ChanTypeOK'
  BY <1>0, <1>1, <1>2, <1>g, ReturnIsClean DEF ChanTypeOK
<1>4. WakerInv' /\ \A w \in Wakers : Registered(w)' = Registered(w)
  BY <1>0, <1>1, WakerUnchanged
<1>5. select' = select /\ token' = token
  BY <1>1 DEF wakerVars
<1>6. OnlyThread(t)
  BY <1>0, <1>1, <1>2, <1>4, <1>5, <1>g, ReturnIsClean DEF OnlyThread, Same, SameEntries, ChanTypeOK
<1>7. pc'[t] = "idle" /\ side'[t] = "none" /\ packet'[t] = NoPacket
  BY <1>0, <1>1, ReturnIsClean
<1>8. SentOK(t)'
  <2>1. calls' = calls /\ packet'[t].msg = NoMsg
    BY <1>1, <1>7 DEF NoPacket
  <2>2. /\ \A i \in 1..Len(got[t]) : Sent(got[t][i])
        /\ packet[t].msg # NoMsg => Sent(packet[t].msg)
    BY <1>0 DEF ThreadOK, SentOK
  <2>3. got[t] \in Seq(Threads \X Nat) /\ Len(got[t]) \in Nat
    BY <1>0, LenProperties DEF ChanTypeOK
  <2>4. ASSUME NEW i \in 1..Len(got'[t]) PROVE Sent(got'[t][i])
    <3>1. CASE side[t] = "receivers"
      <4>1. /\ got'[t] = Append(got[t], packet[t].msg) /\ Len(got'[t]) = Len(got[t]) + 1
            /\ \A j \in 1..Len(got[t]) : got'[t][j] = got[t][j]
            /\ got'[t][Len(got[t]) + 1] = packet[t].msg
        BY <1>g, <1>m, <2>3, <3>1, AppendProperties
      <4>2. i \in 1..Len(got[t]) \/ i = Len(got[t]) + 1
        BY <2>3, <4>1
      <4>. QED
        BY <1>m, <2>2, <3>1, <4>1, <4>2
    <3>2. CASE side[t] # "receivers"
      BY <1>g, <2>2, <3>2
    <3>. QED
      BY <3>1, <3>2
  <2>. QED
    BY <2>1, <2>4 DEF SentOK, Sent
<1>9. \A w \in Wakers : t \notin Registered(w)'
  BY <1>0, <1>1, <1>4 DEF ThreadOK, EntryOK, Undecided
<1>10. ThreadOK(t)' /\ ~Selected(t)'
  BY <1>0, <1>3, <1>7, <1>8, <1>9, ReturnIsOK
<1>. QED
  BY <1>1, <1>3, <1>4, <1>6, <1>7, <1>10, <1>s, CallStep DEF Pairs

(* The loop of wait_until: the thread goes where its context says, or its  *)
(* deadline has passed and it tries to abort.                              *)
LEMMA ZeroWaiting ==
  ASSUME ZeroInv, NEW t \in Threads, WaitUntil(t) \/ Park(t) \/ Deadline(t)
  PROVE  ZeroInv'
<1>0. ChanTypeOK /\ WakerInv /\ ThreadOK(t)
  BY DEF ZeroInv, ThreadsAreOK
<1>1. UNCHANGED <<is_disconnected, packet, endVars, side, peer, got, calls, selectors, is_empty>>
  BY DEF WaitUntil, Park, Deadline, Waiting, callVars, wakerVars, park, try_abort
<1>2. UNCHANGED <<handles, destroy, freed>>
  BY <1>1 DEF endVars
<1>3. /\ pc' \in [Threads -> Locations]
      /\ select' \in [Threads -> {"waiting", "aborted", "disconnected", "operation"}]
      /\ token' \in [Threads -> BOOLEAN]
      /\ \A u \in Threads : u # t => pc'[u] = pc[u] /\ select'[u] = select[u] /\ token'[u] = token[u]
      /\ \/ /\ pc[t] = "wait" /\ select'[t] = select[t] /\ token'[t] = token[t]
            /\ \/ select[t] = "waiting" /\ pc'[t] = "parked"
               \/ select[t] = "operation" /\ pc'[t] = "wait_ready"
               \/ select[t] \in {"aborted", "disconnected"} /\ pc'[t] = "unregister"
         \/ pc[t] = "parked" /\ pc'[t] = "wait" /\ select'[t] = select[t]
         \/ /\ pc[t] = "parked" /\ pc'[t] = "wait"
            /\ select[t] = "waiting" /\ select'[t] = "aborted"
  <2>1. CASE WaitUntil(t)
    <3>1. UNCHANGED <<select, token>> /\ pc[t] = "wait"
      BY <2>1 DEF WaitUntil, wakerVars
    <3>2. select[t] \in {"waiting", "aborted", "disconnected", "operation"}
      BY <1>0 DEF WakerInv, WakerTypeOK
    <3>3. pc' = [pc EXCEPT ![t] = CASE select[t] = "waiting"   -> "parked"
                                    [] select[t] = "operation" -> "wait_ready"
                                    [] OTHER                   -> "unregister"]
      BY <2>1 DEF WaitUntil, Goto
    <3>. QED
      BY <1>0, <3>1, <3>2, <3>3 DEF ChanTypeOK, WakerInv, WakerTypeOK, Locations
  <2>2. CASE Park(t)
    BY <1>0, <2>2 DEF Park, park, Goto, ChanTypeOK, WakerInv, WakerTypeOK, Locations
  <2>3. CASE Deadline(t)
    BY <1>0, <2>3 DEF Deadline, try_abort, Goto, ChanTypeOK, WakerInv, WakerTypeOK, Locations
  <2>. QED
    BY <2>1, <2>2, <2>3
<1>4. ChanTypeOK'
  BY <1>0, <1>1, <1>2, <1>3 DEF ChanTypeOK
<1>5. WakerInv' /\ \A w \in Wakers : Registered(w)' = Registered(w)
  BY <1>0, <1>1, <1>3, WakerSame
<1>6. OnlyThread(t)
  BY <1>0, <1>1, <1>2, <1>3, <1>5 DEF OnlyThread, Same, SameEntries, ChanTypeOK
<1>7. (Undecided(t)' <=> Undecided(t)) /\ (Selected(t)' <=> Selected(t))
  BY <1>3 DEF Undecided, Selected
<1>8. ThreadOK(t)'
  <2>1. CallOK(t)'
    BY <1>0, <1>1, <1>2, <1>3 DEF ThreadOK, CallOK
  <2>2. EntryOK(t)'
    BY <1>0, <1>1, <1>3, <1>5, <1>7 DEF ThreadOK, EntryOK
  <2>3. PacketOK(t)'
    <3>1. Message(t)' = Message(t)
      BY <1>1 DEF Message
    <3>. QED
      BY <1>0, <1>1, <1>3, <1>7, <3>1 DEF ThreadOK, PacketOK, Waits
  <2>4. DecidedOK(t)'
    BY <1>0, <1>1, <1>3 DEF ThreadOK, DecidedOK
  <2>5. SentOK(t)'
    BY <1>0, <1>1, <1>4, <1>6, SentOKStays DEF ThreadOK, OnlyThread
  <2>. QED
    BY <2>1, <2>2, <2>3, <2>4, <2>5 DEF ThreadOK
<1>. QED
  BY <1>1, <1>3, <1>4, <1>5, <1>6, <1>7, <1>8, CallStep DEF Pairs

(* A thread that registers has found nobody to pair up with, and whoever   *)
(* comes next will find it.                                                *)
LEMMA ZeroRegister ==
  ASSUME ZeroInv, NEW t \in Threads, Register(t)
  PROVE  ZeroInv'
<1>0. ChanTypeOK /\ WakerInv /\ ThreadOK(t)
  BY DEF ZeroInv, ThreadsAreOK
<1> DEFINE p == [alive |-> TRUE, ready |-> FALSE,
                 msg   |-> IF side[t] = "senders" THEN Message(t) ELSE NoMsg]
<1>1. /\ pc[t] = "start" /\ Selectable(t, Other(t)) = {} /\ ~is_disconnected
      /\ register(t, side[t]) /\ packet' = [packet EXCEPT ![t] = p]
      /\ pc' = [pc EXCEPT ![t] = "wait"]
      /\ UNCHANGED <<is_disconnected, side, peer, got, calls>> /\ UNCHANGED endVars
  BY DEF Register, Goto, callVars
<1>2. UNCHANGED <<handles, destroy, freed>>
  BY <1>1 DEF endVars
<1>3. side[t] \in {"senders", "receivers"} /\ side[t] \in Wakers /\ Other(t) \in Wakers /\ Other(t) # side[t]
  BY <1>0, <1>1, ConstantsAssumption DEF ThreadOK, CallOK, ChanTypeOK, Other
<1>4. \A w \in Wakers : t \notin Registered(w)
  BY <1>0, <1>1 DEF ThreadOK, EntryOK
<1>5. /\ WakerInv' /\ select' = [select EXCEPT ![t] = "waiting"] /\ token' = token
      /\ \A v \in Wakers : Registered(v)' = IF v = side[t] THEN Registered(v) \cup {t} ELSE Registered(v)
  BY <1>0, <1>1, <1>3, <1>4, RegisterEffect
<1>6. Message(t) \in Threads \X Nat
  BY <1>0 DEF Message, ChanTypeOK
<1>7. p \in Packets /\ p.alive = TRUE /\ p.ready = FALSE /\ p.msg = IF side[t] = "senders" THEN Message(t) ELSE NoMsg
  BY <1>6 DEF Packets
<1> HIDE DEF p
<1>8. ChanTypeOK'
  BY <1>0, <1>1, <1>2, <1>7 DEF ChanTypeOK, Locations
<1>9. /\ pc'[t] = "wait" /\ side'[t] = side[t] /\ packet'[t] = p /\ got'[t] = got[t]
      /\ calls'[t] = calls[t] /\ select'[t] = "waiting"
  BY <1>0, <1>1, <1>5 DEF ChanTypeOK, WakerInv, WakerTypeOK
<1>10. \A u \in Threads : u # t => Same(u)
  BY <1>0, <1>1, <1>5 DEF Same, ChanTypeOK, WakerInv, WakerTypeOK
<1>11. \A u \in Threads : u # t => SameEntries(u)
  BY <1>2, <1>5 DEF SameEntries
<1>12. OnlyThread(t)
  BY <1>0, <1>1, <1>10, <1>11 DEF OnlyThread, ChanTypeOK
<1>13. Undecided(t)' /\ ~Selected(t)' /\ ~Selected(t)
  BY <1>1, <1>9 DEF Undecided, Selected
<1>14. ThreadOK(t)'
  <2>1. CallOK(t)'
    BY <1>0, <1>1, <1>2, <1>9 DEF ThreadOK, CallOK
  <2>2. EntryOK(t)'
    BY <1>4, <1>5, <1>9, <1>13 DEF EntryOK
  <2>3. PacketOK(t)'
    <3>1. Message(t)' = Message(t)
      BY <1>1 DEF Message
    <3>. QED
      BY <1>7, <1>9, <3>1 DEF PacketOK, Waits
  <2>4. DecidedOK(t)'
    BY <1>1, <1>9 DEF DecidedOK
  <2>5. SentOK(t)'
    <3>1. calls' = calls /\ \A i \in 1..Len(got[t]) : Sent(got[t][i])
      BY <1>0, <1>1 DEF ThreadOK, SentOK
    <3>2. packet'[t].msg # NoMsg => packet'[t].msg = <<t, calls[t]>>
      BY <1>7, <1>9 DEF Message
    <3>3. calls[t] \in Nat
      BY <1>0 DEF ChanTypeOK
    <3>. QED
      BY <1>9, <3>1, <3>2, <3>3 DEF SentOK, Sent
  <2>. QED
    BY <2>1, <2>2, <2>3, <2>4, <2>5 DEF ThreadOK
<1>15. ThreadsAreOK' /\ PairsAreExclusive' /\ SelectedHavePartners'
  BY <1>1, <1>8, <1>9, <1>12, <1>13, <1>14, LocalStep DEF Pairs
<1>16. ClosedInTurn'
  <2>1. \A u \in Threads : pc'[u] \in {"disconnect", "destroy"} <=> pc[u] \in {"disconnect", "destroy"}
    BY <1>1, <1>9, <1>10 DEF Same
  <2>. QED
    BY <1>2, <2>1, ClosingStays DEF ZeroInv
<1>17. ASSUME NEW u \in Threads, pc'[u] \in {"wait", "parked"}, side'[u] = Other(t), select'[u] = "waiting"
       PROVE  FALSE
  <2>1. u # t
    BY <1>3, <1>9, <1>17
  <2>2. pc[u] \in {"wait", "parked"} /\ side[u] = Other(t) /\ select[u] = "waiting"
    BY <1>10, <1>17, <2>1 DEF Same
  <2>3. u \in Registered(Other(t))
    BY <1>3, <2>2 DEF ZeroInv, ThreadsAreOK, ThreadOK, EntryOK, Undecided
  <2>. QED
    BY <1>0, <1>1, <1>3, <2>1, <2>2, <2>3, SelectableThreads
<1>18. NoMissedPartner'
  <2>1. \A u \in Threads : ~(pc'[u] \in {"wait", "parked"} /\ side'[u] = Other(t) /\ select'[u] = "waiting")
    BY <1>17
  <2>2. Other(t) = "senders" \/ Other(t) = "receivers"
    BY DEF Other
  <2>. QED
    BY <2>1, <2>2 DEF NoMissedPartner, Unpaired, At
<1>. QED
  BY <1>5, <1>8, <1>15, <1>16, <1>18 DEF ZeroInv

-----------------------------------------------------------------------------
(* A clone of a handle adds to a side that is not gone.                    *)
LEMMA ZeroAcquire ==
  ASSUME ZeroInv, NEW t \in Threads, NEW s \in Wakers, NEW u \in Threads, Acquire(t, s, u)
  PROVE  ZeroInv'
<1>0. ChanTypeOK /\ WakerInv /\ ThreadOK(t)
  BY DEF ZeroInv, ThreadsAreOK
<1>1. /\ pc[t] = "idle" /\ <<t, s>> \in handles /\ handles' = handles \cup {<<u, s>>}
      /\ UNCHANGED <<is_disconnected, packet, side, peer, pc, destroy, freed, got, calls>>
      /\ UNCHANGED wakerVars
  BY DEF Acquire, callVars
<1>2. ChanTypeOK'
  BY <1>0, <1>1 DEF ChanTypeOK
<1>3. WakerInv' /\ \A w \in Wakers : Registered(w)' = Registered(w)
  BY <1>0, <1>1, WakerUnchanged
<1>4. select' = select /\ token' = token
  BY <1>1 DEF wakerVars
<1>5. \A v \in Threads : Same(v) /\ SameEntries(v)
  BY <1>1, <1>3, <1>4 DEF Same, SameEntries
<1>6. OnlyThread(t)
  BY <1>0, <1>1, <1>5 DEF OnlyThread, ChanTypeOK
<1>7. ThreadOK(t)'
  BY <1>0, <1>2, <1>5, <1>6, SameOK DEF OnlyThread
<1>8. ~Selected(t) /\ ~Selected(t)'
  BY <1>1 DEF Selected
<1>9. ThreadsAreOK' /\ PairsAreExclusive' /\ SelectedHavePartners'
  BY <1>1, <1>2, <1>6, <1>7, <1>8, LocalStep DEF Pairs
<1>10. NoMissedPartner'
  BY <1>1, <1>4, NobodyMissed DEF ZeroInv
<1>11. \A w \in {"senders", "receivers"} : Gone(w)' <=> Gone(w)
  BY <1>1 DEF Gone
<1>12. Closing' = Closing
  BY <1>1 DEF Closing, At
<1>13. ClosedInTurn'
  <2>1. (Gone("senders")' <=> Gone("senders")) /\ (Gone("receivers")' <=> Gone("receivers"))
    BY <1>11
  <2>. QED
    BY <1>1, <1>12, <2>1 DEF ZeroInv, ClosedInTurn
<1>. QED
  BY <1>2, <1>3, <1>9, <1>10, <1>13 DEF ZeroInv

(* The last handle of a side leaves one thread to disconnect.              *)
LEMMA ZeroRelease ==
  ASSUME ZeroInv, NEW t \in Threads, NEW s \in Wakers, Release(t, s)
  PROVE  ZeroInv'
<1>0. ChanTypeOK /\ WakerInv /\ ThreadOK(t) /\ s \in {"senders", "receivers"}
  BY ConstantsAssumption DEF ZeroInv, ThreadsAreOK
<1>1. /\ pc[t] = "idle" /\ <<t, s>> \in handles /\ handles' = handles \ {<<t, s>>}
      /\ pc' = [pc EXCEPT ![t] = IF \E u \in Threads : <<u, s>> \in handles' THEN "idle" ELSE "disconnect"]
      /\ UNCHANGED <<is_disconnected, packet, side, peer, destroy, freed, got, calls>>
      /\ UNCHANGED wakerVars
  BY DEF Release, Goto, callVars
<1>2. ChanTypeOK'
  <2>1. handles' \subseteq Threads \X Wakers
    BY <1>0, <1>1 DEF ChanTypeOK
  <2>2. pc' \in [Threads -> Locations]
    BY <1>0, <1>1 DEF ChanTypeOK, Locations
  <2>. QED
    BY <1>0, <1>1, <2>1, <2>2 DEF ChanTypeOK
<1>3. WakerInv' /\ \A w \in Wakers : Registered(w)' = Registered(w)
  BY <1>0, <1>1, WakerUnchanged
<1>4. select' = select /\ token' = token
  BY <1>1 DEF wakerVars
<1>5. /\ pc'[t] = IF \E u \in Threads : <<u, s>> \in handles' THEN "idle" ELSE "disconnect"
      /\ \A u \in Threads : u # t => pc'[u] = pc[u]
  BY <1>0, <1>1 DEF ChanTypeOK
<1>6. \A v \in Threads : v # t => Same(v) /\ SameEntries(v)
  BY <1>1, <1>3, <1>4, <1>5 DEF Same, SameEntries
<1>7. OnlyThread(t)
  BY <1>0, <1>1, <1>6 DEF OnlyThread, ChanTypeOK
<1>8. ThreadOK(t)'
  <2>1. side'[t] = "none" /\ pc'[t] \in {"idle", "disconnect"} /\ side[t] = "none"
    BY <1>0, <1>1, <1>5 DEF ThreadOK, CallOK
  <2>2. CallOK(t)' /\ DecidedOK(t)'
    BY <2>1 DEF CallOK, DecidedOK
  <2>3. EntryOK(t)'
    BY <1>0, <1>1, <1>3, <2>1, ConstantsAssumption DEF ThreadOK, EntryOK
  <2>4. PacketOK(t)'
    BY <1>0, <1>1, <2>1 DEF ThreadOK, PacketOK, Waits
  <2>5. SentOK(t)'
    BY <1>0, <1>1, <1>2, <1>7, SentOKStays DEF ThreadOK, OnlyThread
  <2>. QED
    BY <2>2, <2>3, <2>4, <2>5 DEF ThreadOK
<1>9. ~Selected(t) /\ ~Selected(t)' /\ pc'[t] \in {"idle", "disconnect"}
  BY <1>1, <1>5 DEF Selected
<1>10. ThreadsAreOK' /\ PairsAreExclusive' /\ SelectedHavePartners'
  BY <1>1, <1>2, <1>7, <1>8, <1>9, LocalStep DEF Pairs
<1>11. NoMissedPartner'
  <2>1. \A u \in Threads : pc'[u] \in {"wait", "parked"} /\ select'[u] = "waiting" =>
            pc[u] \in {"wait", "parked"} /\ select[u] = "waiting" /\ side'[u] = side[u]
    BY <1>1, <1>4, <1>5, <1>9
  <2>. QED
    BY <2>1, NobodyMissed DEF ZeroInv
<1>12. /\ ~Gone(s) /\ (Gone(s)' <=> ~\E u \in Threads : <<u, s>> \in handles')
       /\ \A w \in {"senders", "receivers"} : w # s => (Gone(w)' <=> Gone(w))
  BY <1>0, <1>1 DEF Gone
<1>13. ClosedInTurn'
  <2>0. ClosedInTurn /\ UNCHANGED <<destroy, freed>> /\ t \notin Closing
    BY <1>1 DEF ZeroInv, Closing, At
  <2>1. CASE ~Gone(s)'
    <3>1. pc' [t] = "idle"
      BY <1>5, <1>12, <2>1
    <3>2. Closing' = Closing
      BY <1>1, <1>5, <3>1 DEF Closing, At
    <3>3. (Gone("senders")' <=> Gone("senders")) /\ (Gone("receivers")' <=> Gone("receivers"))
      BY <1>0, <1>12, <2>1
    <3>. QED
      BY <2>0, <3>2, <3>3 DEF ClosedInTurn
  <2>2. CASE Gone(s)'
    <3>1. pc'[t] = "disconnect"
      BY <1>5, <1>12, <2>2
    <3>2. Closing' = Closing \cup {t}
      BY <1>5, <3>1 DEF Closing, At
    <3>3. PICK o \in {"senders", "receivers"} : o # s
      BY <1>0
    <3>4. Gone(o)' <=> Gone(o)
      BY <1>12, <3>3
    <3>5. CASE ~Gone(o)
      <4>1. ~destroy /\ freed = 0 /\ Closing = {}
        BY <1>0, <1>12, <2>0, <3>3, <3>5 DEF ClosedInTurn
      <4>2. Closing' = {t} /\ ~(Gone("senders")' <=> Gone("receivers")')
        BY <1>0, <2>2, <3>2, <3>3, <3>4, <3>5, <4>1
      <4>. QED
        BY <2>0, <4>1, <4>2 DEF ClosedInTurn
    <3>6. CASE Gone(o)
      <4>1. freed = 0 /\ \/ ~destroy /\ \E u \in Threads : Closing = {u}
                         \/ destroy /\ Closing = {}
        BY <1>0, <1>12, <2>0, <3>3, <3>6 DEF ClosedInTurn
      <4>2. Gone("senders")' /\ Gone("receivers")'
        BY <1>0, <2>2, <3>3, <3>4, <3>6
      <4>3. CASE destroy /\ Closing = {}
        <5>1. Closing' = {t}
          BY <3>2, <4>3
        <5>. QED
          BY <2>0, <4>1, <4>2, <4>3, <5>1 DEF ClosedInTurn
      <4>4. ASSUME ~destroy, NEW u \in Threads, Closing = {u} PROVE ClosedInTurn'
        <5>1. Closing' = {u, t} /\ u # t
          BY <2>0, <3>2, <4>4
        <5>. QED
          BY <2>0, <4>1, <4>2, <4>4, <5>1 DEF ClosedInTurn
      <4>. QED
        BY <4>1, <4>3, <4>4
    <3>. QED
      BY <3>5, <3>6
  <2>. QED
    BY <2>1, <2>2
<1>. QED
  BY <1>2, <1>3, <1>10, <1>11, <1>13 DEF ZeroInv

(* The second of the two sides deallocates.                                *)
LEMMA ZeroDestroy ==
  ASSUME ZeroInv, NEW t \in Threads, Destroy(t)
  PROVE  ZeroInv'
<1>0. ChanTypeOK /\ WakerInv /\ ThreadOK(t)
  BY DEF ZeroInv, ThreadsAreOK
<1>1. /\ pc[t] = "destroy" /\ pc' = [pc EXCEPT ![t] = "idle"]
      /\ destroy' = TRUE /\ freed' = IF destroy THEN freed + 1 ELSE freed
      /\ UNCHANGED <<is_disconnected, packet, side, peer, handles, got, calls>>
      /\ UNCHANGED wakerVars
  BY DEF Destroy, Goto, callVars
<1>2. ChanTypeOK'
  BY <1>0, <1>1 DEF ChanTypeOK, Locations
<1>3. WakerInv' /\ \A w \in Wakers : Registered(w)' = Registered(w)
  BY <1>0, <1>1, WakerUnchanged
<1>4. select' = select /\ token' = token
  BY <1>1 DEF wakerVars
<1>5. pc'[t] = "idle" /\ \A u \in Threads : u # t => pc'[u] = pc[u]
  BY <1>0, <1>1 DEF ChanTypeOK
<1>6. \A v \in Threads : v # t => Same(v) /\ SameEntries(v)
  BY <1>1, <1>3, <1>4, <1>5 DEF Same, SameEntries
<1>7. OnlyThread(t)
  BY <1>0, <1>1, <1>6 DEF OnlyThread, ChanTypeOK
<1>8. ThreadOK(t)'
  <2>1. side'[t] = "none" /\ side[t] = "none"
    BY <1>0, <1>1 DEF ThreadOK, CallOK
  <2>2. CallOK(t)' /\ DecidedOK(t)'
    BY <1>5, <2>1 DEF CallOK, DecidedOK
  <2>3. EntryOK(t)'
    BY <1>0, <1>3, <1>5, <2>1, ConstantsAssumption DEF ThreadOK, EntryOK
  <2>4. PacketOK(t)'
    BY <1>0, <1>1, <1>5 DEF ThreadOK, PacketOK, Waits
  <2>5. SentOK(t)'
    BY <1>0, <1>1, <1>2, <1>7, SentOKStays DEF ThreadOK, OnlyThread
  <2>. QED
    BY <2>2, <2>3, <2>4, <2>5 DEF ThreadOK
<1>9. ~Selected(t) /\ ~Selected(t)'
  BY <1>1, <1>5 DEF Selected
<1>10. ThreadsAreOK' /\ PairsAreExclusive' /\ SelectedHavePartners'
  BY <1>1, <1>2, <1>5, <1>7, <1>8, <1>9, LocalStep DEF Pairs
<1>11. NoMissedPartner'
  <2>1. \A u \in Threads : pc'[u] \in {"wait", "parked"} /\ select'[u] = "waiting" =>
            pc[u] \in {"wait", "parked"} /\ select[u] = "waiting" /\ side'[u] = side[u]
    BY <1>1, <1>4, <1>5
  <2>. QED
    BY <2>1, NobodyMissed DEF ZeroInv
<1>12. ClosedInTurn'
  <2>1. t \in Closing /\ Closing' = Closing \ {t}
    BY <1>1, <1>5 DEF Closing, At
  <2>2. (Gone("senders")' <=> Gone("senders")) /\ (Gone("receivers")' <=> Gone("receivers"))
    BY <1>1 DEF Gone
  <2>3. ClosedInTurn
    BY DEF ZeroInv
  <2>4. ASSUME ~destroy, freed = 0, NEW u \in Threads, Closing = {u},
               ~(Gone("senders") <=> Gone("receivers"))
        PROVE  ClosedInTurn'
    <3>1. Closing' = {} /\ freed' = 0
      BY <1>1, <2>1, <2>4
    <3>. QED
      BY <1>1, <2>2, <2>4, <3>1 DEF ClosedInTurn
  <2>5. ASSUME ~destroy, freed = 0, NEW u \in Threads, NEW v \in Threads, u # v, Closing = {u, v},
               Gone("senders"), Gone("receivers")
        PROVE  ClosedInTurn'
    <3>1. freed' = 0 /\ \E x \in Threads : Closing' = {x}
      BY <1>1, <2>1, <2>5
    <3>. QED
      BY <1>1, <2>2, <2>5, <3>1 DEF ClosedInTurn
  <2>6. ASSUME destroy, freed = 0, NEW u \in Threads, Closing = {u},
               Gone("senders"), Gone("receivers")
        PROVE  ClosedInTurn'
    <3>1. Closing' = {} /\ freed' = 1
      BY <1>1, <2>1, <2>6
    <3>. QED
      BY <1>1, <2>2, <2>6, <3>1 DEF ClosedInTurn
  <2>. QED
    BY <2>1, <2>3, <2>4, <2>5, <2>6 DEF ClosedInTurn
<1>. QED
  BY <1>2, <1>3, <1>10, <1>11, <1>12 DEF ZeroInv

(* A step that leaves the pairs, their packets and their messages alone.   *)
LEMMA PairsStay ==
  ASSUME ChanTypeOK, PairsAreExclusive, SelectedHavePartners, UNCHANGED <<side, peer, packet, calls>>,
         \A u \in Threads : /\ Selected(u)' <=> Selected(u)
                            /\ pc'[u] \in Pairs \/ pc[u] \in Pairs => pc'[u] = pc[u]
  PROVE  PairsAreExclusive' /\ SelectedHavePartners'
<1>1. ASSUME NEW v \in Threads, pc'[v] \in Pairs PROVE PairOK(v)'
  <2>1. pc'[v] = pc[v] /\ peer[v] \in Threads /\ PairOK(v)
    BY <1>1 DEF PairsAreExclusive, ChanTypeOK
  <2>2. Selected(peer[v])' <=> Selected(peer[v])
    <3>1. \A u \in Threads : u = peer[v] => (Selected(u)' <=> Selected(u)) /\ peer'[v] = u
      OBVIOUS
    <3>. QED
      BY <2>1, <3>1 DEF Selected
  <2>3. Message(v)' = Message(v) /\ Other(v)' = Other(v) /\ Message(peer[v])' = Message(peer[v])
    BY DEF Message, Other
  <2>. QED
    BY <2>1, <2>2, <2>3 DEF PairOK
<1>2. PairsAreExclusive'
  BY <1>1 DEF PairsAreExclusive
<1>3. SelectedHavePartners'
  BY DEF SelectedHavePartners
<1>. QED
  BY <1>2, <1>3

(* Whoever waits when the channel is disconnected is told, and unparked.   *)
LEMMA ZeroDisconnect ==
  ASSUME ZeroInv, NEW t \in Threads, Disconnect(t)
  PROVE  ZeroInv'
<1>0. ChanTypeOK /\ WakerInv /\ ThreadsAreOK /\ PairsAreExclusive /\ SelectedHavePartners
  BY DEF ZeroInv
<1>1. /\ pc[t] = "disconnect" /\ pc' = [pc EXCEPT ![t] = "destroy"] /\ is_disconnected' = TRUE
      /\ UNCHANGED <<packet, side, peer, got, calls>> /\ UNCHANGED endVars
  BY DEF Disconnect, Goto, callVars
<1>2. UNCHANGED <<handles, destroy, freed>>
  BY <1>1 DEF endVars
<1>3. ChanTypeOK'
  BY <1>0, <1>1, <1>2 DEF ChanTypeOK, Locations
<1>4. /\ WakerInv' /\ \A w \in Wakers : Registered(w)' = Registered(w)
      /\ \A u \in Threads :
           \/ select'[u] = select[u] /\ token'[u] = token[u]
           \/ select[u] = "waiting" /\ select'[u] = "disconnected" /\ token'[u]
      /\ ~is_disconnected =>
           \A u \in Threads, w \in Wakers : u \in Registered(w) => select'[u] # "waiting"
  <2>1. CASE is_disconnected /\ UNCHANGED wakerVars
    <3>1. select' = select /\ token' = token
      BY <2>1 DEF wakerVars
    <3>. QED
      BY <1>0, <2>1, <3>1, WakerUnchanged
  <2>2. CASE disconnect(Wakers)
    <3>1. Wakers \in SUBSET Wakers
      OBVIOUS
    <3>2. /\ WakerInv' /\ \A w \in Wakers : Registered(w)' = Registered(w)
          /\ \A u \in Threads :
               /\ u \in Disconnected(Wakers) <=> select[u] = "waiting" /\ \E w \in Wakers : u \in Registered(w)
               /\ u \in Disconnected(Wakers) => select'[u] = "disconnected" /\ token'[u]
               /\ u \notin Disconnected(Wakers) => select'[u] = select[u] /\ token'[u] = token[u]
      BY <1>0, <2>2, <3>1, DisconnectEffect
    <3>. QED
      BY <3>2
  <2>. QED
    BY <2>1, <2>2 DEF Disconnect
<1>5. pc'[t] = "destroy" /\ \A u \in Threads : u # t => pc'[u] = pc[u]
  BY <1>0, <1>1 DEF ChanTypeOK
<1>6. \A u \in Threads : (Selected(u)' <=> Selected(u)) /\ (Undecided(u)' <=> Undecided(u))
  BY <1>1, <1>4, <1>5 DEF Selected, Undecided
<1>7. ASSUME NEW u \in Threads PROVE ThreadOK(u)'
  <2>0. ThreadOK(u)
    BY <1>0 DEF ThreadsAreOK
  <2>1. CallOK(u)'
    BY <1>1, <1>2, <1>5, <2>0 DEF ThreadOK, CallOK
  <2>2. EntryOK(u)'
    <3>1. \A w \in Wakers : u \in Registered(w)' <=> side'[u] = w /\ pc'[u] # "start" /\ Undecided(u)'
      BY <1>1, <1>4, <1>5, <1>6, <2>0 DEF ThreadOK, EntryOK
    <3>2. /\ pc'[u] = "wait_ready" => select'[u] = "operation"
          /\ pc'[u] = "unregister" => select'[u] \in {"aborted", "disconnected"}
      BY <1>4, <1>5, <2>0 DEF ThreadOK, EntryOK
    <3>. QED
      BY <3>1, <3>2 DEF EntryOK
  <2>3. PacketOK(u)'
    <3>1. Message(u)' = Message(u)
      BY <1>1 DEF Message
    <3>2. pc'[u] \in Waits <=> pc[u] \in Waits
      BY <1>1, <1>5 DEF Waits
    <3>. QED
      BY <1>1, <1>6, <2>0, <3>1, <3>2 DEF ThreadOK, PacketOK
  <2>4. DecidedOK(u)'
    <3>1. pc'[u] = "parked" => select'[u] = "waiting" \/ token'[u]
      BY <1>4, <1>5, <2>0 DEF ThreadOK, DecidedOK
    <3>2. ASSUME pc'[u] \in {"wait", "parked"} PROVE select'[u] # "waiting"
      <4>1. pc[u] \in {"wait", "parked"}
        BY <1>5, <3>2
      <4>2. CASE is_disconnected
        BY <1>4, <2>0, <4>1, <4>2 DEF ThreadOK, DecidedOK
      <4>3. CASE ~is_disconnected /\ select[u] = "waiting"
        <5>1. side[u] \in Wakers
          BY <1>0, <2>0, <4>1, ConstantsAssumption DEF ThreadOK, CallOK, ChanTypeOK
        <5>2. u \in Registered(side[u])
          BY <2>0, <4>1, <4>3, <5>1 DEF ThreadOK, EntryOK, Undecided
        <5>. QED
          BY <1>4, <4>3, <5>1, <5>2
      <4>4. CASE select[u] # "waiting"
        BY <1>4, <4>4
      <4>. QED
        BY <4>2, <4>3, <4>4
    <3>. QED
      BY <3>1, <3>2 DEF DecidedOK
  <2>5. SentOK(u)'
    <3>1. \A v \in Threads : calls[v] <= calls'[v]
      BY <1>0, <1>1 DEF ChanTypeOK
    <3>. QED
      BY <1>0, <1>1, <1>3, <2>0, <3>1, SentOKStays DEF ThreadOK
  <2>. QED
    BY <2>1, <2>2, <2>3, <2>4, <2>5 DEF ThreadOK
<1>8. PairsAreExclusive' /\ SelectedHavePartners'
  <2>1. \A u \in Threads : pc'[u] \in Pairs \/ pc[u] \in Pairs => pc'[u] = pc[u]
    BY <1>1, <1>5 DEF Pairs
  <2>. QED
    BY <1>0, <1>1, <1>6, <2>1, PairsStay
<1>9. NoMissedPartner'
  <2>1. \A u \in Threads : pc'[u] \in {"wait", "parked"} /\ select'[u] = "waiting" =>
            pc[u] \in {"wait", "parked"} /\ select[u] = "waiting" /\ side'[u] = side[u]
    BY <1>1, <1>4, <1>5
  <2>. QED
    BY <2>1, NobodyMissed DEF ZeroInv
<1>10. ClosedInTurn'
  <2>1. \A u \in Threads : pc'[u] \in {"disconnect", "destroy"} <=> pc[u] \in {"disconnect", "destroy"}
    BY <1>1, <1>5
  <2>. QED
    BY <1>2, <2>1, ClosingStays DEF ZeroInv
<1>11. ThreadsAreOK'
  BY <1>7 DEF ThreadsAreOK
<1>. QED
  BY <1>3, <1>4, <1>8, <1>9, <1>10, <1>11 DEF ZeroInv

-----------------------------------------------------------------------------
(* A step of a thread t and of the partner u that it has selected.         *)
OnlyTwo(t, u) ==
    /\ \A v \in Threads : v # t /\ v # u => Same(v) /\ SameEntries(v)
    /\ \A v \in Threads : calls[v] <= calls'[v]
    /\ is_disconnected' = is_disconnected

LEMMA PairStep ==
  ASSUME ZeroInv, ChanTypeOK', WakerInv', NEW t \in Threads, NEW u \in Threads, t # u, OnlyTwo(t, u),
         ThreadOK(t)', ThreadOK(u)',
         \A v \in Threads : v # t /\ pc[v] \in Pairs => peer[v] # t /\ peer[v] # u,
         pc[t] \in Pairs => peer[t] = u,
         pc[u] \notin Pairs, pc'[u] \notin Pairs, ~Selected(t), ~Selected(t)',
         pc'[t] \in Pairs => peer'[t] = u /\ PairOK(t)',
         Selected(u)' => \/ packet'[u].ready /\ (side'[u] = "receivers" => packet'[u].msg # NoMsg)
                         \/ pc'[t] \in Pairs /\ peer'[t] = u,
         UNCHANGED endVars,
         \A v \in {t, u} : /\ pc[v] \notin {"disconnect", "destroy"} /\ pc'[v] \notin {"disconnect", "destroy"}
                           /\ pc'[v] \in {"wait", "parked"} /\ select'[v] = "waiting" =>
                                pc[v] \in {"wait", "parked"} /\ select[v] = "waiting" /\ side'[v] = side[v]
  PROVE  ZeroInv'
<1>0. ChanTypeOK /\ ThreadsAreOK /\ PairsAreExclusive /\ SelectedHavePartners
  BY DEF ZeroInv
<1>1. ThreadsAreOK'
  <2>1. ASSUME NEW v \in Threads, v # t, v # u PROVE ThreadOK(v)'
    <3>1. ThreadOK(v) /\ Same(v) /\ SameEntries(v)
      BY <1>0, <2>1 DEF OnlyTwo, ThreadsAreOK
    <3>. QED
      BY <1>0, <3>1, SameOK DEF OnlyTwo
  <2>. QED
    BY <2>1 DEF ThreadsAreOK
<1>2. ASSUME NEW v \in Threads, v # t, pc'[v] \in Pairs
      PROVE  /\ v # u /\ pc[v] \in Pairs /\ Same(v) /\ PairOK(v)
             /\ peer[v] \in Threads /\ peer[v] # t /\ peer[v] # u /\ Same(peer[v])
  <2>1. v # u /\ Same(v)
    BY <1>2 DEF OnlyTwo
  <2>2. pc[v] \in Pairs
    BY <1>2, <2>1 DEF Same
  <2>3. PairOK(v) /\ peer[v] \in Threads /\ peer[v] # t /\ peer[v] # u
    BY <1>0, <1>2, <2>2 DEF PairsAreExclusive, ChanTypeOK
  <2>. QED
    BY <2>1, <2>2, <2>3 DEF OnlyTwo
<1>3. ASSUME NEW v \in Threads, v # t, pc'[v] \in Pairs PROVE PairOK(v)' /\ peer'[v] = peer[v]
  <2> DEFINE p == peer[v]
  <2>1. p \in Threads /\ PairOK(v) /\ peer'[v] = p /\ Same(v) /\ Same(p)
    BY <1>2, <1>3 DEF Same
  <2>2. /\ Selected(p)' /\ packet'[p] = packet[p] /\ side'[p] = side[p]
        /\ Message(p)' = Message(p)
    BY <2>1, SameMeans DEF PairOK, Same
  <2>3. Message(v)' = Message(v) /\ Other(v)' = Other(v) /\ pc'[v] = pc[v] /\ side'[v] = side[v]
    BY <2>1, SameMeans DEF Same
  <2>. QED
    BY <2>1, <2>2, <2>3 DEF PairOK
<1>4. PairsAreExclusive'
  <2> SUFFICES ASSUME NEW v \in Threads, pc'[v] \in Pairs
               PROVE  PairOK(v)' /\ \A x \in Threads : pc'[x] \in Pairs /\ peer'[x] = peer'[v] => x = v
    BY DEF PairsAreExclusive
  <2>1. PairOK(v)'
    BY <1>3
  <2>2. ASSUME NEW x \in Threads, pc'[x] \in Pairs, peer'[x] = peer'[v], x # v PROVE FALSE
    <3>1. CASE x = t
      BY <1>2, <1>3, <2>2, <3>1
    <3>2. CASE v = t
      BY <1>2, <1>3, <2>2, <3>2
    <3>3. CASE x # t /\ v # t
      <4>1. pc[x] \in Pairs /\ pc[v] \in Pairs /\ peer[x] = peer[v]
        BY <1>2, <1>3, <2>2, <3>3
      <4>. QED
        BY <1>0, <2>2, <4>1 DEF PairsAreExclusive
    <3>. QED
      BY <3>1, <3>2, <3>3
  <2>. QED
    BY <2>1, <2>2
<1>5. SelectedHavePartners'
  <2> SUFFICES ASSUME NEW v \in Threads, Selected(v)'
               PROVE  \/ packet'[v].ready /\ (side'[v] = "receivers" => packet'[v].msg # NoMsg)
                      \/ \E x \in Threads : pc'[x] \in Pairs /\ peer'[x] = v
    BY DEF SelectedHavePartners
  <2>1. CASE v = u
    BY <2>1
  <2>2. CASE v # u
    <3>1. v # t /\ Same(v)
      BY <2>2 DEF OnlyTwo
    <3>2. Selected(v) /\ packet'[v] = packet[v] /\ side'[v] = side[v]
      BY <3>1, SameMeans DEF Same
    <3>3. ASSUME NEW x \in Threads, pc[x] \in Pairs, peer[x] = v
          PROVE  pc'[x] \in Pairs /\ peer'[x] = v
      <4>1. CASE x = t
        BY <2>2, <3>3, <4>1
      <4>2. CASE x # t
        BY <3>3, <4>2 DEF OnlyTwo, Same
      <4>. QED
        BY <4>1, <4>2
    <3>. QED
      BY <1>0, <3>2, <3>3 DEF SelectedHavePartners
  <2>. QED
    BY <2>1, <2>2
<1>6. \A v \in Threads : v # t /\ v # u => pc'[v] = pc[v] /\ select'[v] = select[v] /\ side'[v] = side[v]
  BY DEF OnlyTwo, Same
<1>7. NoMissedPartner'
  <2>1. \A v \in Threads : pc'[v] \in {"wait", "parked"} /\ select'[v] = "waiting" =>
            pc[v] \in {"wait", "parked"} /\ select[v] = "waiting" /\ side'[v] = side[v]
    BY <1>6
  <2>. QED
    BY <2>1, NobodyMissed DEF ZeroInv
<1>8. ClosedInTurn'
  BY <1>6, ClosingStays DEF ZeroInv, endVars
<1>. QED
  BY <1>1, <1>4, <1>5, <1>7, <1>8 DEF ZeroInv

(* A thread that selects a partner has found one that waits, undecided and *)
(* registered, with its packet as it was put there.                        *)
LEMMA PairEffect ==
  ASSUME ZeroInv, NEW t \in Threads, Pair(t)
  PROVE  \E u \in Threads :
           /\ u # t /\ side[t] \in {"senders", "receivers"} /\ side[u] = Other(t)
           /\ pc[t] = "start" /\ pc[u] \in {"wait", "parked"} /\ select[u] = "waiting" /\ Undecided(u)
           /\ pc' = [pc EXCEPT ![t] = IF side[t] = "senders" THEN "write" ELSE "read"]
           /\ peer' = [peer EXCEPT ![t] = u]
           /\ select' = [select EXCEPT ![u] = "operation"] /\ token' = [token EXCEPT ![u] = TRUE]
           /\ WakerInv'
           /\ \A w \in Wakers : Registered(w)' = IF w = Other(t) THEN Registered(w) \ {u} ELSE Registered(w)
           /\ UNCHANGED <<is_disconnected, packet, side, got, calls>> /\ UNCHANGED endVars
<1>0. ChanTypeOK /\ WakerInv /\ ThreadOK(t)
  BY DEF ZeroInv, ThreadsAreOK
<1>1. /\ pc[t] = "start" /\ Selectable(t, Other(t)) # {} /\ try_select(t, Other(t))
      /\ peer' = [peer EXCEPT ![t] = selectors[Other(t)][Candidate(t, Other(t))]]
      /\ pc' = [pc EXCEPT ![t] = IF side[t] = "senders" THEN "write" ELSE "read"]
      /\ UNCHANGED <<is_disconnected, packet, side, got, calls>> /\ UNCHANGED endVars
  BY DEF Pair, Goto
<1>2. side[t] \in {"senders", "receivers"} /\ Other(t) \in Wakers
  BY <1>0, <1>1, ConstantsAssumption DEF ThreadOK, CallOK, ChanTypeOK, Other
<1>3. PICK u \in Registered(Other(t)) :
            /\ u = selectors[Other(t)][Candidate(t, Other(t))]
            /\ u \in Threads /\ u # t /\ select[u] = "waiting"
            /\ WakerInv'
            /\ select' = [select EXCEPT ![u] = "operation"] /\ token' = [token EXCEPT ![u] = TRUE]
            /\ \A v \in Wakers : Registered(v)' = IF v = Other(t) THEN Registered(v) \ {u} ELSE Registered(v)
  BY <1>0, <1>1, <1>2, TrySelectEffect
<1>4. ThreadOK(u)
  BY <1>3 DEF ZeroInv, ThreadsAreOK
<1>5. side[u] = Other(t) /\ pc[u] # "start" /\ Undecided(u)
  BY <1>2, <1>3, <1>4 DEF ThreadOK, EntryOK
<1>6. pc[u] \in {"wait", "parked"}
  BY <1>3, <1>4, <1>5 DEF ThreadOK, EntryOK, Undecided
<1>. QED
  BY <1>1, <1>2, <1>3, <1>5, <1>6

LEMMA ZeroPair ==
  ASSUME ZeroInv, NEW t \in Threads, Pair(t)
  PROVE  ZeroInv'
<1>1. PICK u \in Threads :
           /\ u # t /\ side[t] \in {"senders", "receivers"} /\ side[u] = Other(t)
           /\ pc[t] = "start" /\ pc[u] \in {"wait", "parked"} /\ select[u] = "waiting" /\ Undecided(u)
           /\ pc' = [pc EXCEPT ![t] = IF side[t] = "senders" THEN "write" ELSE "read"]
           /\ peer' = [peer EXCEPT ![t] = u]
           /\ select' = [select EXCEPT ![u] = "operation"] /\ token' = [token EXCEPT ![u] = TRUE]
           /\ WakerInv'
           /\ \A w \in Wakers : Registered(w)' = IF w = Other(t) THEN Registered(w) \ {u} ELSE Registered(w)
           /\ UNCHANGED <<is_disconnected, packet, side, got, calls>> /\ UNCHANGED endVars
  BY PairEffect
<1>0. ChanTypeOK /\ WakerInv /\ ThreadOK(t) /\ ThreadOK(u) /\ PairsAreExclusive
  BY DEF ZeroInv, ThreadsAreOK
<1>2. UNCHANGED <<handles, destroy, freed>>
  BY <1>1 DEF endVars
<1>3. ChanTypeOK'
  BY <1>0, <1>1, <1>2 DEF ChanTypeOK, Locations
<1>4. /\ pc'[t] = IF side[t] = "senders" THEN "write" ELSE "read"
      /\ pc'[u] = pc[u] /\ peer'[t] = u /\ peer'[u] = peer[u]
      /\ select'[u] = "operation" /\ token'[u] = TRUE
      /\ select'[t] = select[t] /\ token'[t] = token[t]
  <2>1. /\ pc'[t] = IF side[t] = "senders" THEN "write" ELSE "read"
        /\ pc'[u] = pc[u] /\ peer'[t] = u /\ peer'[u] = peer[u]
    BY <1>0, <1>1 DEF ChanTypeOK
  <2>2. select'[u] = "operation" /\ select'[t] = select[t]
    BY <1>0, <1>1 DEF WakerInv, WakerTypeOK
  <2>3. token'[u] = TRUE /\ token'[t] = token[t]
    BY <1>0, <1>1 DEF WakerInv, WakerTypeOK
  <2>. QED
    BY <2>1, <2>2, <2>3
<1>5. OnlyTwo(t, u)
  <2>1. \A v \in Threads : v # t /\ v # u => Same(v)
    BY <1>0, <1>1 DEF Same, ChanTypeOK, WakerInv, WakerTypeOK
  <2>2. \A v \in Threads : v # t /\ v # u => SameEntries(v)
    BY <1>1, <1>2 DEF SameEntries
  <2>3. \A v \in Threads : calls[v] <= calls'[v]
    BY <1>0, <1>1 DEF ChanTypeOK
  <2>. QED
    BY <1>1, <2>1, <2>2, <2>3 DEF OnlyTwo
<1>6. ~Selected(u) /\ ~Selected(t) /\ Selected(u)' /\ ~Selected(t)' /\ ~Undecided(u)' /\ ~Undecided(t)'
  BY <1>1, <1>4 DEF Selected, Undecided
<1>m. \A v \in Threads : Message(v)' = Message(v) /\ Other(v)' = Other(v)
  BY <1>1 DEF Message, Other
<1>w. side[u] \in Wakers /\ Other(t) \in Wakers
  BY <1>1, ConstantsAssumption DEF Other
<1>7. ThreadOK(t)'
  <2>1. CallOK(t)'
    BY <1>0, <1>1, <1>2, <1>4 DEF ThreadOK, CallOK
  <2>2. EntryOK(t)'
    <3>1. \A w \in Wakers : t \notin Registered(w)
      BY <1>0, <1>1 DEF ThreadOK, EntryOK
    <3>. QED
      BY <1>1, <1>4, <1>6, <3>1 DEF EntryOK
  <2>3. PacketOK(t)'
    BY <1>0, <1>1, <1>4 DEF ThreadOK, PacketOK, Waits
  <2>4. DecidedOK(t)'
    BY <1>4 DEF DecidedOK
  <2>5. SentOK(t)'
    BY <1>0, <1>1, <1>3, <1>5, SentOKStays DEF ThreadOK, OnlyTwo
  <2>. QED
    BY <2>1, <2>2, <2>3, <2>4, <2>5 DEF ThreadOK
<1>8. ThreadOK(u)'
  <2>1. CallOK(u)'
    BY <1>0, <1>1, <1>2, <1>4 DEF ThreadOK, CallOK
  <2>2. EntryOK(u)'
    <3>1. \A w \in Wakers : u \notin Registered(w)'
      BY <1>0, <1>1, <1>w DEF ThreadOK, EntryOK
    <3>. QED
      BY <1>1, <1>4, <1>6, <3>1 DEF EntryOK
  <2>3. PacketOK(u)'
    BY <1>0, <1>1, <1>4, <1>6 DEF ThreadOK, PacketOK
  <2>4. DecidedOK(u)'
    BY <1>4 DEF DecidedOK
  <2>5. SentOK(u)'
    BY <1>0, <1>1, <1>3, <1>5, SentOKStays DEF ThreadOK, OnlyTwo
  <2>. QED
    BY <2>1, <2>2, <2>3, <2>4, <2>5 DEF ThreadOK
<1>9. \A v \in Threads : v # t /\ pc[v] \in Pairs => peer[v] # t /\ peer[v] # u
  BY <1>0, <1>6 DEF PairsAreExclusive, PairOK
<1>10. PairOK(t)'
  <2>1. /\ packet[u].ready = FALSE
        /\ packet[u].msg = IF side[u] = "senders" THEN Message(u) ELSE NoMsg
    BY <1>0, <1>1 DEF ThreadOK, PacketOK, Waits
  <2>2. peer'[t] = u /\ packet'[u] = packet[u] /\ side'[u] = Other(t)' /\ Message(u)' = Message(u)
    BY <1>1, <1>4, <1>m
  <2>3. pc'[t] = "write" => side[u] = "receivers"
    BY <1>1, <1>4 DEF Other
  <2>4. pc'[t] = "read" => side[u] = "senders"
    BY <1>1, <1>4 DEF Other
  <2>5. pc'[t] # "ready"
    BY <1>4
  <2>. QED
    BY <1>6, <2>1, <2>2, <2>3, <2>4, <2>5 DEF PairOK
<1>. QED
  BY <1>1, <1>3, <1>4, <1>5, <1>6, <1>7, <1>8, <1>9, <1>10, PairStep DEF Pairs

-----------------------------------------------------------------------------
(* A thread that uses the packet of a partner: what is known of the two.   *)
LEMMA PairMeans ==
  ASSUME ZeroInv, NEW t \in Threads, pc[t] \in Pairs, NEW p, p = peer[t]
  PROVE  /\ p \in Threads /\ p # t /\ pc[p] \in {"wait", "parked", "wait_ready"}
         /\ Selected(p) /\ ~Undecided(p) /\ ~Selected(t) /\ side[p] = Other(t)
         /\ side[t] \in {"senders", "receivers"} /\ PairOK(t)
         /\ packet[p].alive /\ packet[p].ready = FALSE /\ packet[t].alive = FALSE
         /\ \A v \in Threads : v # t /\ pc[v] \in Pairs => peer[v] # t /\ peer[v] # p
<1>1. ChanTypeOK /\ ThreadOK(t) /\ PairOK(t) /\ p \in Threads /\ ThreadOK(p)
  BY DEF ZeroInv, ThreadsAreOK, PairsAreExclusive, ChanTypeOK
<1>2. Selected(p) /\ side[p] = Other(t) /\ packet[p].ready = FALSE
  BY <1>1 DEF PairOK
<1>3. pc[p] \in {"wait", "parked", "wait_ready"} /\ ~Undecided(p)
  BY <1>2 DEF Selected, Undecided
<1>4. ~Selected(t)
  BY DEF Selected, Pairs
<1>5. side[t] \in {"senders", "receivers"}
  BY <1>1 DEF ThreadOK, CallOK, ChanTypeOK, Pairs
<1>6. packet[p].alive
  BY <1>1, <1>3 DEF ThreadOK, PacketOK, Waits
<1>7. packet[t].alive = FALSE
  <2>1. packet[t].alive \in BOOLEAN
    BY <1>1 DEF ChanTypeOK, Packets
  <2>2. ~packet[t].alive
    BY <1>1 DEF ThreadOK, PacketOK, Waits, Pairs
  <2>. QED
    BY <2>1, <2>2
<1>8. \A v \in Threads : v # t /\ pc[v] \in Pairs => peer[v] # p
  BY DEF ZeroInv, PairsAreExclusive
<1>9. \A v \in Threads : v # t /\ pc[v] \in Pairs => peer[v] # t
  BY <1>4 DEF ZeroInv, PairsAreExclusive, PairOK
<1>. QED
  BY <1>1, <1>2, <1>3, <1>4, <1>5, <1>6, <1>7, <1>8, <1>9

(* One field of one packet changes.                                        *)
LEMMA SetMsg ==
  ASSUME ChanTypeOK, NEW p \in Threads, NEW m \in {NoMsg} \cup (Threads \X Nat),
         packet' = [packet EXCEPT ![p].msg = m]
  PROVE  /\ packet' \in [Threads -> Packets]
         /\ packet'[p].msg = m /\ packet'[p].ready = packet[p].ready /\ packet'[p].alive = packet[p].alive
         /\ \A v \in Threads : v # p => packet'[v] = packet[v]
<1>1. packet' = [packet EXCEPT ![p] = [packet[p] EXCEPT !.msg = m]]
  OBVIOUS
<1>2. packet[p] \in Packets
  BY DEF ChanTypeOK
<1> DEFINE q == [packet[p] EXCEPT !.msg = m]
<1>3. q \in Packets /\ q.msg = m /\ q.ready = packet[p].ready /\ q.alive = packet[p].alive
  BY <1>2 DEF Packets
<1> HIDE DEF q
<1>. QED
  BY <1>1, <1>3 DEF ChanTypeOK, q

LEMMA SetReady ==
  ASSUME ChanTypeOK, NEW p \in Threads, packet' = [packet EXCEPT ![p].ready = TRUE]
  PROVE  /\ packet' \in [Threads -> Packets]
         /\ packet'[p].msg = packet[p].msg /\ packet'[p].ready = TRUE /\ packet'[p].alive = packet[p].alive
         /\ \A v \in Threads : v # p => packet'[v] = packet[v]
<1>1. packet' = [packet EXCEPT ![p] = [packet[p] EXCEPT !.ready = TRUE]]
  OBVIOUS
<1>2. packet[p] \in Packets
  BY DEF ChanTypeOK
<1> DEFINE q == [packet[p] EXCEPT !.ready = TRUE]
<1>3. q \in Packets /\ q.msg = packet[p].msg /\ q.ready = TRUE /\ q.alive = packet[p].alive
  BY <1>2 DEF Packets
<1> HIDE DEF q
<1>. QED
  BY <1>1, <1>3 DEF ChanTypeOK, q

(* The partner stays as it should be while its packet is used.             *)
LEMMA PartnerIsOK ==
  ASSUME ZeroInv, ChanTypeOK', NEW t \in Threads, pc[t] \in Pairs, NEW p, p = peer[t],
         UNCHANGED wakerVars, UNCHANGED <<is_disconnected, endVars, calls>>,
         pc'[p] = pc[p], side'[p] = side[p], got'[p] = got[p], packet'[p].alive = packet[p].alive,
         packet'[p].msg # NoMsg => Sent(packet'[p].msg)
  PROVE  ThreadOK(p)'
<1>1. p \in Threads /\ ~Undecided(p) /\ ChanTypeOK /\ WakerInv
  BY PairMeans DEF ZeroInv
<1>2. ThreadOK(p)
  BY <1>1 DEF ZeroInv, ThreadsAreOK
<1>3. handles' = handles /\ select' = select /\ token' = token
  BY DEF endVars, wakerVars
<1>4. \A w \in Wakers : Registered(w)' = Registered(w)
  BY <1>1, WakerUnchanged
<1>5. ~Undecided(p)'
  BY <1>1, <1>3 DEF Undecided
<1>6. CallOK(p)'
  BY <1>2, <1>3 DEF ThreadOK, CallOK
<1>7. EntryOK(p)'
  BY <1>1, <1>2, <1>3, <1>4, <1>5 DEF ThreadOK, EntryOK
<1>8. PacketOK(p)'
  BY <1>2, <1>5 DEF ThreadOK, PacketOK
<1>9. DecidedOK(p)'
  BY <1>2, <1>3 DEF ThreadOK, DecidedOK
<1>10. SentOK(p)'
  BY <1>2 DEF ThreadOK, SentOK, Sent
<1>. QED
  BY <1>6, <1>7, <1>8, <1>9, <1>10 DEF ThreadOK

(* A thread that uses a packet, or has stopped using it, is as it should   *)
(* be itself.                                                              *)
LEMMA UserIsOK ==
  ASSUME ZeroInv, ChanTypeOK', NEW t \in Threads, pc[t] \in Pairs,
         UNCHANGED wakerVars, UNCHANGED <<endVars, calls>>, packet'[t] = packet[t],
         \/ pc'[t] = "ready" /\ side'[t] = side[t]
         \/ pc'[t] = "idle" /\ side'[t] = "none",
         SentOK(t)'
  PROVE  ThreadOK(t)' /\ ~Selected(t)'
<1>1. packet[t].alive = FALSE /\ ChanTypeOK /\ WakerInv /\ ThreadOK(t) /\ side[t] \in {"senders", "receivers"}
  BY PairMeans DEF ZeroInv, ThreadsAreOK
<1>2. handles' = handles
  BY DEF endVars
<1>3. \A w \in Wakers : Registered(w)' = Registered(w)
  BY <1>1, WakerUnchanged
<1>4. CallOK(t)'
  BY <1>1, <1>2 DEF ThreadOK, CallOK, Pairs
<1>5. EntryOK(t)'
  <2>1. \A w \in Wakers : t \notin Registered(w)
    BY <1>1 DEF ThreadOK, EntryOK, Undecided, Pairs
  <2>. QED
    BY <1>3, <2>1 DEF EntryOK, Undecided
<1>6. PacketOK(t)' /\ DecidedOK(t)' /\ ~Selected(t)'
  BY <1>1 DEF PacketOK, DecidedOK, Selected, Waits
<1>. QED
  BY <1>4, <1>5, <1>6 DEF ThreadOK

(* What a step between two partners leaves alone.                          *)
LEMMA OthersStay ==
  ASSUME ZeroInv, NEW t \in Threads, NEW p \in Threads,
         UNCHANGED wakerVars, UNCHANGED <<is_disconnected, endVars, calls>>,
         \A v \in Threads : v # t /\ v # p => /\ pc'[v] = pc[v] /\ side'[v] = side[v] /\ peer'[v] = peer[v]
                                              /\ packet'[v] = packet[v] /\ got'[v] = got[v]
  PROVE  WakerInv' /\ OnlyTwo(t, p)
<1>1. ChanTypeOK /\ WakerInv
  BY DEF ZeroInv
<1>2. WakerInv' /\ \A w \in Wakers : Registered(w)' = Registered(w)
  BY <1>1, WakerUnchanged
<1>3. handles' = handles /\ select' = select /\ token' = token
  BY DEF endVars, wakerVars
<1>4. \A v \in Threads : calls[v] <= calls'[v]
  BY <1>1 DEF ChanTypeOK
<1>. QED
  BY <1>2, <1>3, <1>4 DEF OnlyTwo, Same, SameEntries

LEMMA ZeroWrite ==
  ASSUME ZeroInv, NEW t \in Threads, Write(t)
  PROVE  ZeroInv'
<1> SUFFICES ASSUME NEW p, p = peer[t], NEW m, m = Message(t) PROVE ZeroInv'
  OBVIOUS
<1>1. /\ pc[t] = "write" /\ packet' = [packet EXCEPT ![p].msg = m] /\ pc' = [pc EXCEPT ![t] = "ready"]
      /\ UNCHANGED wakerVars /\ UNCHANGED <<is_disconnected, endVars, side, peer, got, calls>>
  BY DEF Write, Goto, callVars
<1>2. pc[t] \in Pairs /\ ChanTypeOK /\ ThreadOK(t)
  BY <1>1 DEF Pairs, ZeroInv, ThreadsAreOK
<1>3. /\ p \in Threads /\ p # t /\ pc[p] \in {"wait", "parked", "wait_ready"}
      /\ Selected(p) /\ ~Undecided(p) /\ ~Selected(t) /\ side[p] = Other(t)
      /\ side[t] \in {"senders", "receivers"} /\ PairOK(t)
      /\ packet[p].alive /\ packet[p].ready = FALSE
      /\ \A v \in Threads : v # t /\ pc[v] \in Pairs => peer[v] # t /\ peer[v] # p
  BY <1>2, PairMeans, Zenon
<1>4. m = <<t, calls[t]>> /\ calls[t] \in Nat /\ m \in Threads \X Nat
  BY <1>2 DEF Message, ChanTypeOK
<1>5. m # NoMsg /\ Sent(m)
  BY <1>4 DEF NoMsg, Sent
<1>6. /\ packet' \in [Threads -> Packets]
      /\ packet'[p].msg = m /\ packet'[p].ready = packet[p].ready /\ packet'[p].alive = packet[p].alive
      /\ \A v \in Threads : v # p => packet'[v] = packet[v]
  BY <1>1, <1>2, <1>3, <1>4, SetMsg
<1>7. pc'[t] = "ready" /\ \A v \in Threads : v # t => pc'[v] = pc[v]
  BY <1>1, <1>2 DEF ChanTypeOK
<1>8. ChanTypeOK'
  BY <1>1, <1>2, <1>6 DEF ChanTypeOK, Locations, endVars
<1>9. WakerInv' /\ OnlyTwo(t, p)
  BY <1>1, <1>3, <1>6, <1>7, OthersStay
<1>10. ThreadOK(p)'
  BY <1>1, <1>2, <1>3, <1>5, <1>6, <1>7, <1>8, PartnerIsOK
<1>11. packet'[t] = packet[t]
  BY <1>3, <1>6
<1>12. SentOK(t)'
  BY <1>1, <1>2, <1>11 DEF ThreadOK, SentOK, Sent
<1>13. ThreadOK(t)' /\ ~Selected(t)'
  BY <1>1, <1>2, <1>7, <1>8, <1>11, <1>12, UserIsOK
<1>14. PairOK(t)' /\ Selected(p)'
  <2>1. select' = select
    BY <1>1 DEF wakerVars
  <2>2. Selected(p)'
    BY <1>3, <1>7, <2>1 DEF Selected
  <2>3. Other(t)' = Other(t) /\ Message(t)' = m /\ side'[p] = side[p] /\ peer'[t] = p
    BY <1>1 DEF Other, Message
  <2>. QED
    BY <1>3, <1>6, <1>7, <2>2, <2>3 DEF PairOK
<1>15. pc[p] \notin Pairs /\ pc'[p] \notin Pairs /\ pc'[t] \in Pairs /\ peer'[t] = p
  BY <1>1, <1>3, <1>7 DEF Pairs
<1>16. \A v \in {t, p} : /\ pc[v] \notin {"disconnect", "destroy"} /\ pc'[v] \notin {"disconnect", "destroy"}
                         /\ pc'[v] \in {"wait", "parked"} /\ select'[v] = "waiting" =>
                              pc[v] \in {"wait", "parked"} /\ select[v] = "waiting" /\ side'[v] = side[v]
  BY <1>1, <1>3, <1>7 DEF wakerVars
<1>. QED
  BY <1>1, <1>3, <1>8, <1>9, <1>10, <1>13, <1>14, <1>15, <1>16, PairStep

LEMMA ZeroRead ==
  ASSUME ZeroInv, NEW t \in Threads, Read(t)
  PROVE  ZeroInv'
<1> SUFFICES ASSUME NEW p, p = peer[t], NEW m, m = packet[p].msg PROVE ZeroInv'
  OBVIOUS
<1>1. /\ pc[t] = "read" /\ packet' = [packet EXCEPT ![p].msg = NoMsg] /\ pc' = [pc EXCEPT ![t] = "ready"]
      /\ got' = [got EXCEPT ![t] = Append(@, m)]
      /\ UNCHANGED wakerVars /\ UNCHANGED <<is_disconnected, endVars, side, peer, calls>>
  BY DEF Read, Goto, callVars
<1>2. pc[t] \in Pairs /\ ChanTypeOK /\ ThreadOK(t)
  BY <1>1 DEF Pairs, ZeroInv, ThreadsAreOK
<1>3. /\ p \in Threads /\ p # t /\ pc[p] \in {"wait", "parked", "wait_ready"}
      /\ Selected(p) /\ ~Undecided(p) /\ ~Selected(t) /\ side[p] = Other(t)
      /\ side[t] \in {"senders", "receivers"} /\ PairOK(t)
      /\ packet[p].alive /\ packet[p].ready = FALSE
      /\ \A v \in Threads : v # t /\ pc[v] \in Pairs => peer[v] # t /\ peer[v] # p
  BY <1>2, PairMeans, Zenon
<1>4. m = <<p, calls[p]>> /\ calls[p] \in Nat /\ m \in Threads \X Nat
  <2>1. packet[p].msg = Message(p)
    BY <1>1, <1>3 DEF PairOK
  <2>2. calls[p] \in Nat
    BY <1>2, <1>3 DEF ChanTypeOK
  <2>. QED
    BY <1>3, <2>1, <2>2 DEF Message
<1>5. m # NoMsg /\ Sent(m)
  BY <1>4 DEF NoMsg, Sent
<1>6. /\ packet' \in [Threads -> Packets]
      /\ packet'[p].msg = NoMsg /\ packet'[p].ready = packet[p].ready /\ packet'[p].alive = packet[p].alive
      /\ \A v \in Threads : v # p => packet'[v] = packet[v]
  BY <1>1, <1>2, <1>3, SetMsg
<1>7. pc'[t] = "ready" /\ \A v \in Threads : v # t => pc'[v] = pc[v]
  BY <1>1, <1>2 DEF ChanTypeOK
<1>g. /\ got' \in [Threads -> Seq(Threads \X Nat)] /\ got'[t] = Append(got[t], m)
      /\ \A v \in Threads : v # t => got'[v] = got[v]
  <2>1. Append(got[t], m) \in Seq(Threads \X Nat)
    BY <1>2, <1>4, AppendProperties DEF ChanTypeOK
  <2>. QED
    BY <1>1, <1>2, <2>1 DEF ChanTypeOK
<1>8. ChanTypeOK'
  BY <1>1, <1>2, <1>6, <1>g DEF ChanTypeOK, Locations, endVars
<1>9. WakerInv' /\ OnlyTwo(t, p)
  BY <1>1, <1>3, <1>6, <1>7, <1>g, OthersStay
<1>10. ThreadOK(p)'
  BY <1>1, <1>2, <1>3, <1>6, <1>7, <1>8, <1>g, PartnerIsOK
<1>11. packet'[t] = packet[t]
  BY <1>3, <1>6
<1>12. SentOK(t)'
  <2>1. calls' = calls /\ packet'[t] = packet[t]
    BY <1>1, <1>11
  <2>2. /\ \A i \in 1..Len(got[t]) : Sent(got[t][i])
        /\ packet[t].msg # NoMsg => Sent(packet[t].msg)
    BY <1>2 DEF ThreadOK, SentOK
  <2>3. got[t] \in Seq(Threads \X Nat) /\ Len(got[t]) \in Nat
    BY <1>2, LenProperties DEF ChanTypeOK
  <2>4. /\ Len(got'[t]) = Len(got[t]) + 1 /\ got'[t][Len(got[t]) + 1] = m
        /\ \A j \in 1..Len(got[t]) : got'[t][j] = got[t][j]
    BY <1>4, <1>g, <2>3, AppendProperties
  <2>5. ASSUME NEW i \in 1..Len(got'[t]) PROVE Sent(got'[t][i])
    <3>1. i \in 1..Len(got[t]) \/ i = Len(got[t]) + 1
      BY <2>3, <2>4
    <3>. QED
      BY <1>5, <2>2, <2>4, <3>1
  <2>. QED
    BY <2>1, <2>2, <2>5 DEF SentOK, Sent
<1>13. ThreadOK(t)' /\ ~Selected(t)'
  BY <1>1, <1>2, <1>7, <1>8, <1>11, <1>12, UserIsOK
<1>14. PairOK(t)' /\ Selected(p)'
  <2>1. select' = select
    BY <1>1 DEF wakerVars
  <2>2. Selected(p)'
    BY <1>3, <1>7, <2>1 DEF Selected
  <2>3. Other(t)' = Other(t) /\ side'[p] = side[p] /\ peer'[t] = p
    BY <1>1 DEF Other
  <2>4. side'[t] # "senders"
    BY <1>1, <1>2 DEF ThreadOK, CallOK
  <2>. QED
    BY <1>3, <1>6, <1>7, <2>2, <2>3, <2>4 DEF PairOK
<1>15. pc[p] \notin Pairs /\ pc'[p] \notin Pairs /\ pc'[t] \in Pairs /\ peer'[t] = p
  BY <1>1, <1>3, <1>7 DEF Pairs
<1>16. \A v \in {t, p} : /\ pc[v] \notin {"disconnect", "destroy"} /\ pc'[v] \notin {"disconnect", "destroy"}
                         /\ pc'[v] \in {"wait", "parked"} /\ select'[v] = "waiting" =>
                              pc[v] \in {"wait", "parked"} /\ select[v] = "waiting" /\ side'[v] = side[v]
  BY <1>1, <1>3, <1>7 DEF wakerVars
<1>. QED
  BY <1>1, <1>3, <1>8, <1>9, <1>10, <1>13, <1>14, <1>15, <1>16, PairStep

(* The packet of a receiver holds the message when it becomes ready.       *)
LEMMA ZeroStoreReady ==
  ASSUME ZeroInv, NEW t \in Threads, StoreReady(t)
  PROVE  ZeroInv'
<1> SUFFICES ASSUME NEW p, p = peer[t] PROVE ZeroInv'
  OBVIOUS
<1>1. /\ pc[t] = "ready" /\ packet' = [packet EXCEPT ![p].ready = TRUE] /\ pc' = [pc EXCEPT ![t] = "idle"]
      /\ side' = [side EXCEPT ![t] = "none"] /\ peer' = [peer EXCEPT ![t] = t]
      /\ UNCHANGED wakerVars /\ UNCHANGED <<is_disconnected, endVars, got, calls>>
  BY DEF StoreReady, Leave, Goto
<1>2. pc[t] \in Pairs /\ ChanTypeOK /\ ThreadOK(t)
  BY <1>1 DEF Pairs, ZeroInv, ThreadsAreOK
<1>3. /\ p \in Threads /\ p # t /\ pc[p] \in {"wait", "parked", "wait_ready"}
      /\ Selected(p) /\ ~Undecided(p) /\ ~Selected(t) /\ side[p] = Other(t)
      /\ side[t] \in {"senders", "receivers"} /\ PairOK(t)
      /\ packet[p].alive /\ packet[p].ready = FALSE
      /\ \A v \in Threads : v # t /\ pc[v] \in Pairs => peer[v] # t /\ peer[v] # p
  BY <1>2, PairMeans, Zenon
<1>4. side[p] = "receivers" => packet[p].msg # NoMsg
  <2>1. side[p] = "receivers" => side[t] = "senders"
    BY <1>3 DEF Other
  <2>2. side[t] = "senders" => packet[p].msg = <<t, calls[t]>>
    BY <1>1, <1>3 DEF PairOK, Message
  <2>3. <<t, calls[t]>> # NoMsg
    BY DEF NoMsg
  <2>. QED
    BY <2>1, <2>2, <2>3
<1>6. /\ packet' \in [Threads -> Packets]
      /\ packet'[p].msg = packet[p].msg /\ packet'[p].ready = TRUE /\ packet'[p].alive = packet[p].alive
      /\ \A v \in Threads : v # p => packet'[v] = packet[v]
  BY <1>1, <1>2, <1>3, SetReady
<1>7. /\ pc'[t] = "idle" /\ side'[t] = "none"
      /\ \A v \in Threads : v # t => pc'[v] = pc[v] /\ side'[v] = side[v] /\ peer'[v] = peer[v]
  BY <1>1, <1>2 DEF ChanTypeOK
<1>8. ChanTypeOK'
  BY <1>1, <1>2, <1>6 DEF ChanTypeOK, Locations, endVars
<1>9. WakerInv' /\ OnlyTwo(t, p)
  BY <1>1, <1>3, <1>6, <1>7, OthersStay
<1>10. ThreadOK(p)'
  <2>1. packet[p].msg # NoMsg => Sent(packet[p].msg)
    BY <1>3 DEF ZeroInv, ThreadsAreOK, ThreadOK, SentOK
  <2>. QED
    BY <1>1, <1>2, <1>3, <1>6, <1>7, <1>8, <2>1, PartnerIsOK
<1>11. packet'[t] = packet[t]
  BY <1>3, <1>6
<1>12. SentOK(t)'
  BY <1>1, <1>2, <1>11 DEF ThreadOK, SentOK, Sent
<1>13. ThreadOK(t)' /\ ~Selected(t)'
  BY <1>1, <1>2, <1>7, <1>8, <1>11, <1>12, UserIsOK
<1>15. pc[p] \notin Pairs /\ pc'[p] \notin Pairs /\ pc'[t] \notin Pairs
  BY <1>1, <1>3, <1>7 DEF Pairs
<1>16. \A v \in {t, p} : /\ pc[v] \notin {"disconnect", "destroy"} /\ pc'[v] \notin {"disconnect", "destroy"}
                         /\ pc'[v] \in {"wait", "parked"} /\ select'[v] = "waiting" =>
                              pc[v] \in {"wait", "parked"} /\ select[v] = "waiting" /\ side'[v] = side[v]
  BY <1>1, <1>3, <1>7 DEF wakerVars
<1>17. packet'[p].ready /\ (side'[p] = "receivers" => packet'[p].msg # NoMsg)
  BY <1>3, <1>4, <1>6, <1>7
<1>. QED
  BY <1>1, <1>3, <1>8, <1>9, <1>10, <1>13, <1>15, <1>16, <1>17, PairStep

-----------------------------------------------------------------------------
LEMMA ZeroStart ==
  ASSUME Init
  PROVE  ZeroInv
<1>1. /\ WakerInit /\ is_disconnected = FALSE /\ destroy = FALSE /\ freed = 0
      /\ handles = {First} \X Wakers /\ First \in Threads /\ Wakers = {"senders", "receivers"}
      /\ \A t \in Threads : /\ packet[t] = NoPacket /\ pc[t] = "idle" /\ side[t] = "none"
                            /\ got[t] = <<>>
  BY ConstantsAssumption DEF Init
<1>2. WakerInv /\ \A w \in Wakers : Registered(w) = {}
  BY <1>1, WakerStart
<1>3. ChanTypeOK
  <2>1. NoPacket \in Packets /\ <<>> \in Seq(Threads \X Nat)
    BY EmptySeq DEF NoPacket, Packets
  <2>2. calls \in [Threads -> Nat] /\ got \in [Threads -> Seq(Threads \X Nat)] /\ packet \in [Threads -> Packets]
    BY <2>1 DEF Init
  <2>3. /\ pc \in [Threads -> Locations] /\ side \in [Threads -> {"none", "senders", "receivers"}]
        /\ peer \in [Threads -> Threads]
    BY DEF Init, Locations
  <2>. QED
    BY <1>1, <2>2, <2>3 DEF ChanTypeOK
<1>4. ASSUME NEW t \in Threads PROVE ThreadOK(t) /\ pc[t] \notin Pairs /\ ~Selected(t)
  <2>1. /\ packet[t].alive = FALSE /\ packet[t].msg = NoMsg
        /\ pc[t] = "idle" /\ side[t] = "none" /\ Len(got[t]) = 0
    BY <1>1, EmptySeq DEF NoPacket
  <2>2. CallOK(t) /\ PacketOK(t) /\ DecidedOK(t) /\ pc[t] \notin Pairs /\ ~Selected(t)
    BY <2>1 DEF CallOK, PacketOK, DecidedOK, Pairs, Selected, Waits
  <2>3. EntryOK(t)
    BY <1>2, <2>1 DEF EntryOK, Undecided
  <2>4. SentOK(t)
    BY <2>1 DEF SentOK
  <2>. QED
    BY <2>2, <2>3, <2>4 DEF ThreadOK
<1>5. PairsAreExclusive /\ SelectedHavePartners /\ ThreadsAreOK
  BY <1>4 DEF PairsAreExclusive, SelectedHavePartners, ThreadsAreOK
<1>6. NoMissedPartner
  BY <1>1 DEF NoMissedPartner, Unpaired, At
<1>7. ClosedInTurn
  <2>1. Closing = {}
    BY <1>1 DEF Closing, At
  <2>2. ~Gone("senders") /\ ~Gone("receivers")
    BY <1>1 DEF Gone
  <2>. QED
    BY <1>1, <2>1, <2>2 DEF ClosedInTurn
<1>. QED
  BY <1>2, <1>3, <1>5, <1>6, <1>7 DEF ZeroInv

LEMMA ZeroSame ==
  ASSUME ZeroInv, UNCHANGED vars
  PROVE  ZeroInv'
<1>1. /\ UNCHANGED <<is_disconnected, packet, side, peer, pc, got, calls, handles, destroy, freed>>
      /\ UNCHANGED wakerVars /\ UNCHANGED <<select, token, selectors, is_empty>>
  BY DEF vars, wakerVars, endVars, callVars
<1>2. WakerInv' /\ ChanTypeOK'
  BY <1>1 DEF ZeroInv, WakerInv, WakerTypeOK, EntriesAreDistinct, FlagsAreTrue, ChanTypeOK
<1>3. \A u \in Threads : Same(u) /\ SameEntries(u)
  BY <1>1 DEF Same, SameEntries, Registered
<1>4. \A u \in Threads : calls[u] <= calls'[u]
  BY <1>1 DEF ZeroInv, ChanTypeOK
<1>5. ThreadsAreOK'
  BY <1>1, <1>2, <1>3, <1>4, SameOK DEF ZeroInv, ThreadsAreOK
<1>6. PairsAreExclusive' /\ SelectedHavePartners'
  <2>1. \A u \in Threads : (Selected(u)' <=> Selected(u)) /\ pc'[u] = pc[u]
    BY <1>3, SameMeans DEF Same
  <2>. QED
    BY <1>1, <2>1, PairsStay DEF ZeroInv
<1>7. NoMissedPartner' /\ ClosedInTurn'
  BY <1>1, NobodyMissed, ClosingStays DEF ZeroInv
<1>. QED
  BY <1>2, <1>5, <1>6, <1>7 DEF ZeroInv

LEMMA ZeroNext ==
  ASSUME ZeroInv, [Next]_vars
  PROVE  ZeroInv'
<1>1. ASSUME NEW t \in Threads, InCall(t) PROVE ZeroInv'
  BY <1>1, ZeroPair, ZeroRefuse, ZeroRegister, ZeroWrite, ZeroRead, ZeroStoreReady, ZeroWaiting,
     ZeroUnregister, ZeroWaitReady, ZeroDisconnect, ZeroDestroy DEF InCall
<1>2. ASSUME NEW t \in Threads, NEW s \in Wakers,
             \/ \E m \in Modes : Call(t, s, m)
             \/ \E u \in Threads : Acquire(t, s, u)
             \/ Release(t, s)
      PROVE  ZeroInv'
  BY <1>2, ZeroCall, ZeroAcquire, ZeroRelease
<1>3. CASE Finished \/ UNCHANGED vars
  BY <1>3, ZeroSame DEF Finished
<1>. QED
  BY <1>1, <1>2, <1>3 DEF Next

(* The inductive invariant holds in every reachable state of zero.rs, for  *)
(* any set of threads, any modes and any number of calls.                  *)
THEOREM ZeroIsInvariant == Spec => []ZeroInv
<1>1. Init => ZeroInv
  BY ZeroStart
<1>2. ZeroInv /\ [Next]_vars => ZeroInv'
  BY ZeroNext
<1>. QED
  BY <1>1, <1>2, PTL DEF Spec

LEMMA ZeroMeansPackets ==
  ASSUME ZeroInv
  PROVE  PacketsAreAlive
<1>1. ASSUME NEW t \in Threads, pc[t] \in {"write", "read", "ready"}
      PROVE  packet[peer[t]].alive /\ ~packet[peer[t]].ready
  BY <1>1, PairMeans DEF Pairs
<1>2. ASSUME NEW t \in Threads, pc[t] = "write" PROVE packet[peer[t]].msg = NoMsg
  BY <1>2 DEF ZeroInv, PairsAreExclusive, PairOK, Pairs
<1>3. \A u : Message(u) # NoMsg
  BY DEF Message, NoMsg
<1>4. ASSUME NEW t \in Threads, pc[t] = "read" PROVE packet[peer[t]].msg # NoMsg
  BY <1>3, <1>4 DEF ZeroInv, PairsAreExclusive, PairOK, Pairs
<1>5. ASSUME NEW t \in Threads, pc[t] = "unregister", side[t] = "senders" PROVE packet[t].msg # NoMsg
  BY <1>3, <1>5 DEF ZeroInv, ThreadsAreOK, ThreadOK, PacketOK, Waits, Undecided
<1>. QED
  BY <1>1, <1>2, <1>4, <1>5 DEF PacketsAreAlive, At

LEMMA ZeroMeansFreed ==
  ASSUME ZeroInv
  PROVE  FreedOnce
<1>0. ChanTypeOK /\ ThreadsAreOK /\ ClosedInTurn /\ Wakers = {"senders", "receivers"}
  BY ConstantsAssumption DEF ZeroInv
<1>1. ASSUME freed > 0 PROVE freed = 1 /\ handles = {} /\ At({"idle"}) = Threads
  <2>1. freed = 1 /\ Gone("senders") /\ Gone("receivers") /\ Closing = {}
    BY <1>0, <1>1 DEF ClosedInTurn
  <2>2. handles = {}
    <3>1. \A t \in Threads, w \in Wakers : <<t, w>> \notin handles
      BY <1>0, <2>1 DEF Gone
    <3>2. \A h \in handles : \E t \in Threads, w \in Wakers : h = <<t, w>>
      BY <1>0 DEF ChanTypeOK
    <3>. QED
      BY <3>1, <3>2
  <2>3. ASSUME NEW t \in Threads PROVE pc[t] = "idle"
    <3>1. pc[t] \in {"idle", "disconnect", "destroy"}
      BY <1>0, <2>2 DEF ThreadsAreOK, ThreadOK, CallOK
    <3>. QED
      BY <2>1, <3>1 DEF Closing, At
  <2>. QED
    BY <2>1, <2>2, <2>3 DEF At
<1>2. ASSUME handles = {}, At({"idle"}) = Threads
      PROVE  freed = 1 /\ \A w \in Wakers : selectors[w] = <<>>
  <2>1. \A t \in Threads : pc[t] = "idle"
    BY <1>2 DEF At
  <2>2. Gone("senders") /\ Gone("receivers") /\ Closing = {}
    BY <1>2, <2>1 DEF Gone, Closing, At
  <2>3. freed = 1
    BY <1>0, <2>2 DEF ClosedInTurn
  <2>4. ASSUME NEW w \in Wakers PROVE selectors[w] = <<>>
    <3>1. selectors[w] \in Seq(Threads)
      BY DEF ZeroInv, WakerInv, WakerTypeOK
    <3>2. ToSet(selectors[w]) \subseteq Threads
      BY <3>1, SetOfSeq
    <3>3. \A t \in Threads : t \notin ToSet(selectors[w])
      BY <1>0, <2>1 DEF ThreadsAreOK, ThreadOK, EntryOK, Undecided, Registered
    <3>4. ToSet(selectors[w]) = {}
      BY <3>2, <3>3
    <3>. QED
      BY <3>1, <3>4, SetOfSeq
  <2>. QED
    BY <2>3, <2>4
<1>. QED
  BY <1>1, <1>2 DEF FreedOnce

(* Whatever the deadlines and the disconnections, a thread finds the       *)
(* packet of its partner on a live stack frame, with the message in it     *)
(* when it reads; and the channel is deallocated once, by the last thread, *)
(* with nobody left on its wakers (zero.rs and counter.rs).                *)
THEOREM NothingIsUsedAfterwards == Spec => []NothingDangles
<1>1. ZeroInv => NothingDangles
  BY ZeroMeansPackets, ZeroMeansFreed DEF NothingDangles
<1>. QED
  BY <1>1, ZeroIsInvariant, PTL

(* A sender and a receiver never wait for each other: looking for a        *)
(* partner and registering are one section of the lock (zero.rs).          *)
THEOREM PartnersMeet == Spec => []NoMissedPartner
<1>1. ZeroInv => NoMissedPartner
  BY DEF ZeroInv
<1>. QED
  BY <1>1, ZeroIsInvariant, PTL

(* A thread parks only while its wait is undecided or with its token at    *)
(* hand, and nobody waits undecided in a disconnected channel: wait_until  *)
(* (context.rs) cannot sleep through what has become of the wait.          *)
THEOREM DecidedAreUnparked == Spec => [](\A t \in Threads : DecidedOK(t))
<1>1. ZeroInv => \A t \in Threads : DecidedOK(t)
  BY DEF ZeroInv, ThreadsAreOK, ThreadOK
<1>. QED
  BY <1>1, ZeroIsInvariant, PTL

-----------------------------------------------------------------------------
(* The refinement. What a thread has been delivered, with the message on   *)
(* its way to it: that one lies in the packet, or the partner is about to  *)
(* write it there.                                                         *)
DeliveredTo(t) == CASE pc[t] = "read" -> Append(got[t], packet[peer[t]].msg)
                    [] side[t] = "receivers" /\ Selected(t) -> Append(got[t], Incoming(t))
                    [] OTHER -> got[t]

Arrives(t, m) == \/ packet[t].msg = m /\ m # NoMsg
                 \/ /\ packet[t].msg = NoMsg
                    /\ \E u \in Threads : pc[u] = "write" /\ peer[u] = t /\ m = Message(u)

LEMMA MessageIsSome ==
  ASSUME NEW t
  PROVE  Message(t) # NoMsg
  BY DEF Message, NoMsg

LEMMA SomethingArrives ==
  ASSUME ZeroInv, NEW t \in Threads, Selected(t), side[t] = "receivers"
  PROVE  \E m : Arrives(t, m)
<1>1. CASE packet[t].msg # NoMsg
  BY <1>1 DEF Arrives
<1>2. CASE packet[t].msg = NoMsg
  <2>1. PICK u \in Threads : pc[u] \in Pairs /\ peer[u] = t
    BY <1>2 DEF ZeroInv, SelectedHavePartners
  <2>2. side[u] = "senders" /\ PairOK(u)
    BY <2>1, PairMeans DEF Other
  <2>3. pc[u] # "ready"
    BY <1>2, <2>1, <2>2, MessageIsSome DEF PairOK
  <2>4. pc[u] # "read"
    BY <2>2 DEF ZeroInv, ThreadsAreOK, ThreadOK, CallOK
  <2>5. pc[u] = "write"
    BY <2>1, <2>3, <2>4 DEF Pairs
  <2>. QED
    BY <1>2, <2>1, <2>5 DEF Arrives
<1>. QED
  BY <1>1, <1>2

LEMMA IncomingIs ==
  ASSUME ZeroInv, NEW t \in Threads, Selected(t), side[t] = "receivers", NEW m, Arrives(t, m)
  PROVE  Incoming(t) = m
<1>1. CASE packet[t].msg # NoMsg
  BY <1>1 DEF Arrives, Incoming
<1>2. CASE packet[t].msg = NoMsg
  <2>1. PICK u \in Threads : pc[u] = "write" /\ peer[u] = t /\ m = Message(u)
    BY <1>2 DEF Arrives
  <2>2. \A v \in At({"write"}) : peer[v] = t => v = u
    BY <2>1 DEF ZeroInv, PairsAreExclusive, Pairs, At
  <2>3. u \in At({"write"}) /\ peer[u] = t
    BY <2>1 DEF At
  <2>4. (CHOOSE v \in At({"write"}) : peer[v] = t) = u
    BY <2>2, <2>3
  <2>. QED
    BY <1>2, <2>1, <2>4 DEF Incoming
<1>. QED
  BY <1>1, <1>2

LEMMA IncomingIsNext ==
  ASSUME ZeroInv', NEW t \in Threads, Selected(t)', side'[t] = "receivers", NEW m, Arrives(t, m)'
  PROVE  Incoming(t)' = m
<1>1. CASE packet'[t].msg # NoMsg
  BY <1>1 DEF Arrives, Incoming
<1>2. CASE packet'[t].msg = NoMsg
  <2>1. PICK u \in Threads : pc'[u] = "write" /\ peer'[u] = t /\ m = Message(u)'
    BY <1>2 DEF Arrives
  <2>2. \A v \in At({"write"})' : peer'[v] = t => v = u
    BY <2>1 DEF ZeroInv, PairsAreExclusive, Pairs, At
  <2>3. u \in At({"write"})' /\ peer'[u] = t
    BY <2>1 DEF At
  <2>4. (CHOOSE v \in At({"write"})' : peer'[v] = t) = u
    BY <2>2, <2>3
  <2>. QED
    BY <1>2, <2>1, <2>4 DEF Incoming
<1>. QED
  BY <1>1, <1>2

(* When what a thread has been delivered does not change.                  *)
LEMMA DeliveredStays ==
  ASSUME ZeroInv, ZeroInv', NEW t \in Threads, got'[t] = got[t], pc'[t] = "read" <=> pc[t] = "read",
         pc[t] = "read" => packet'[peer'[t]].msg = packet[peer[t]].msg,
         Selected(t)' <=> Selected(t), Selected(t) => side'[t] = side[t],
         \A m : Selected(t) /\ side[t] = "receivers" /\ Arrives(t, m) => Arrives(t, m)'
  PROVE  DeliveredTo(t)' = DeliveredTo(t)
<1>1. CASE pc[t] = "read"
  BY <1>1 DEF DeliveredTo, Selected
<1>2. CASE pc[t] # "read" /\ side[t] = "receivers" /\ Selected(t)
  <2>1. PICK m : Arrives(t, m)
    BY <1>2, SomethingArrives
  <2>2. Incoming(t) = m
    BY <1>2, <2>1, IncomingIs
  <2>3. Arrives(t, m)' /\ Selected(t)' /\ side'[t] = "receivers"
    BY <1>2, <2>1
  <2>4. Incoming(t)' = m
    <3>1. ZeroInv' /\ t \in Threads /\ Selected(t)' /\ side'[t] = "receivers" /\ Arrives(t, m)'
      BY <2>3
    <3>. QED
      BY <3>1, IncomingIsNext
  <2>. QED
    BY <1>2, <2>2, <2>3, <2>4 DEF DeliveredTo
<1>3. CASE pc[t] # "read" /\ ~(side[t] = "receivers" /\ Selected(t))
  BY <1>3 DEF DeliveredTo
<1>. QED
  BY <1>1, <1>2, <1>3

LEMMA AppendSent ==
  ASSUME NEW s \in Seq(Threads \X Nat), \A i \in 1..Len(s) : Sent(s[i]),
         NEW m \in Threads \X Nat, Sent(m)
  PROVE  /\ Append(s, m) \in Seq(Threads \X Nat)
         /\ \A i \in 1..Len(Append(s, m)) : Sent(Append(s, m)[i])
<1>1. Len(s) \in Nat
  BY LenProperties
<1>2. /\ Append(s, m) \in Seq(Threads \X Nat) /\ Len(Append(s, m)) = Len(s) + 1
      /\ Append(s, m)[Len(s) + 1] = m /\ \A i \in 1..Len(s) : Append(s, m)[i] = s[i]
  BY AppendProperties
<1>3. ASSUME NEW i \in 1..Len(Append(s, m)) PROVE Sent(Append(s, m)[i])
  <2>1. i \in 1..Len(s) \/ i = Len(s) + 1
    BY <1>1, <1>2
  <2>. QED
    BY <1>2, <2>1
<1>. QED
  BY <1>2, <1>3

LEMMA ArrivesSent ==
  ASSUME ZeroInv, NEW t \in Threads, NEW m, Arrives(t, m)
  PROVE  m \in Threads \X Nat /\ Sent(m)
<1>1. CASE packet[t].msg = m /\ m # NoMsg
  <2>1. packet[t].msg \in {NoMsg} \cup (Threads \X Nat)
    BY DEF ZeroInv, ChanTypeOK, Packets
  <2>2. Sent(packet[t].msg)
    BY <1>1 DEF ZeroInv, ThreadsAreOK, ThreadOK, SentOK
  <2>. QED
    BY <1>1, <2>1, <2>2
<1>2. ASSUME NEW u \in Threads, m = Message(u) PROVE m \in Threads \X Nat /\ Sent(m)
  <2>1. calls[u] \in Nat
    BY DEF ZeroInv, ChanTypeOK
  <2>. QED
    BY <1>2, <2>1 DEF Message, Sent
<1>. QED
  BY <1>1, <1>2 DEF Arrives

(* Whatever has been delivered has been sent.                              *)
LEMMA DeliveredSent ==
  ASSUME ZeroInv, NEW t \in Threads
  PROVE  /\ DeliveredTo(t) \in Seq(Threads \X Nat)
         /\ \A i \in DOMAIN DeliveredTo(t) : Sent(DeliveredTo(t)[i])
<1>1. got[t] \in Seq(Threads \X Nat) /\ \A i \in 1..Len(got[t]) : Sent(got[t][i])
  BY DEF ZeroInv, ChanTypeOK, ThreadsAreOK, ThreadOK, SentOK
<1>2. ASSUME NEW m \in Threads \X Nat, Sent(m), DeliveredTo(t) = Append(got[t], m)
      PROVE  /\ DeliveredTo(t) \in Seq(Threads \X Nat)
             /\ \A i \in 1..Len(DeliveredTo(t)) : Sent(DeliveredTo(t)[i])
  BY <1>1, <1>2, AppendSent
<1>3. /\ DeliveredTo(t) \in Seq(Threads \X Nat)
      /\ \A i \in 1..Len(DeliveredTo(t)) : Sent(DeliveredTo(t)[i])
  <2>1. CASE pc[t] = "read"
    <3>1. peer[t] \in Threads /\ packet[peer[t]].msg = Message(peer[t])
      BY <2>1 DEF ZeroInv, ChanTypeOK, PairsAreExclusive, PairOK, Pairs
    <3>2. Arrives(peer[t], packet[peer[t]].msg)
      BY <3>1, MessageIsSome DEF Arrives
    <3>3. packet[peer[t]].msg \in Threads \X Nat /\ Sent(packet[peer[t]].msg)
      BY <3>1, <3>2, ArrivesSent
    <3>4. DeliveredTo(t) = Append(got[t], packet[peer[t]].msg)
      BY <2>1 DEF DeliveredTo, Selected
    <3>. QED
      BY <1>2, <3>3, <3>4
  <2>2. CASE pc[t] # "read" /\ side[t] = "receivers" /\ Selected(t)
    <3>1. PICK m : Arrives(t, m)
      BY <2>2, SomethingArrives
    <3>2. m \in Threads \X Nat /\ Sent(m) /\ Incoming(t) = m
      BY <2>2, <3>1, ArrivesSent, IncomingIs
    <3>3. DeliveredTo(t) = Append(got[t], m)
      BY <2>2, <3>2 DEF DeliveredTo
    <3>. QED
      BY <1>2, <3>2, <3>3
  <2>3. CASE pc[t] # "read" /\ ~(side[t] = "receivers" /\ Selected(t))
    BY <1>1, <2>3 DEF DeliveredTo
  <2>. QED
    BY <2>1, <2>2, <2>3
<1>4. DOMAIN DeliveredTo(t) = 1..Len(DeliveredTo(t))
  BY <1>3, LenProperties
<1>. QED
  BY <1>3, <1>4

(* A thread that neither reads nor has been selected has what it got.      *)
LEMMA DeliveredIsGot ==
  ASSUME NEW t \in Threads, pc[t] # "read", ~Selected(t) \/ side[t] # "receivers"
  PROVE  DeliveredTo(t) = got[t]
  BY DEF DeliveredTo

(* A step that no message arrives in.                                      *)
LEMMA NothingArrives ==
  ASSUME ZeroInv, ZeroInv', NEW t \in Threads, got'[t] = got[t],
         \A u \in Threads : /\ Selected(u)' <=> Selected(u)
                            /\ Selected(u) => side'[u] = side[u] /\ packet'[u].msg = packet[u].msg
                            /\ pc[u] \in {"read", "write"} \/ pc'[u] \in {"read", "write"} =>
                                 pc'[u] = pc[u] /\ peer'[u] = peer[u] /\ Message(u)' = Message(u)
  PROVE  DeliveredTo(t)' = DeliveredTo(t)
<1>1. ASSUME pc[t] = "read" PROVE packet'[peer'[t]].msg = packet[peer[t]].msg
  <2>1. peer[t] \in Threads /\ Selected(peer[t]) /\ peer'[t] = peer[t]
    BY <1>1 DEF ZeroInv, ChanTypeOK, PairsAreExclusive, PairOK, Pairs
  <2>. QED
    BY <2>1
<1>2. ASSUME NEW m, Selected(t), side[t] = "receivers", Arrives(t, m) PROVE Arrives(t, m)'
  BY <1>2 DEF Arrives
<1>3. pc'[t] = "read" <=> pc[t] = "read"
  OBVIOUS
<1>. QED
  BY <1>1, <1>2, <1>3, DeliveredStays

(* Steps that the abstract channel does not see.                           *)
LEMMA QuietStep ==
  ASSUME ZeroInv, ZeroInv', UNCHANGED <<got, calls>>,
         \A u \in Threads : /\ Selected(u)' <=> Selected(u)
                            /\ Undecided(u)' <=> Undecided(u)
                            /\ Selected(u) => side'[u] = side[u] /\ packet'[u].msg = packet[u].msg
                            /\ Undecided(u) => side'[u] = side[u]
                            /\ pc[u] \in {"read", "write"} \/ pc'[u] \in {"read", "write"} =>
                                 pc'[u] = pc[u] /\ peer'[u] = peer[u]
  PROVE  UNCHANGED <<Offered, Asking, Delivered>>
<1>1. \A u \in Threads : Message(u)' = Message(u)
  BY DEF Message
<1>2. \A u \in Threads : DeliveredTo(u)' = DeliveredTo(u)
  BY <1>1, NothingArrives
<1>3. Delivered' = Delivered
  BY <1>2 DEF Delivered, DeliveredTo
<1>4. Offered' = Offered
  BY <1>1 DEF Offered
<1>5. Asking' = Asking
  BY DEF Asking
<1>. QED
  BY <1>3, <1>4, <1>5

(* No call begins and none is decided.                                     *)
LEMMA OffersStay ==
  ASSUME UNCHANGED calls,
         \A u \in Threads : (Undecided(u)' <=> Undecided(u)) /\ (Undecided(u) => side'[u] = side[u])
  PROVE  UNCHANGED <<Offered, Asking>>
<1>1. \A u \in Threads : Message(u)' = Message(u)
  BY DEF Message
<1>. QED
  BY <1>1 DEF Offered, Asking

LEMMA WaitingIsQuiet ==
  ASSUME ZeroInv, ZeroInv', NEW t \in Threads, WaitUntil(t) \/ Park(t) \/ Deadline(t)
  PROVE  UNCHANGED <<Offered, Asking, Delivered, is_disconnected>>
<1>0. ChanTypeOK /\ WakerInv
  BY DEF ZeroInv
<1>1. UNCHANGED <<is_disconnected, packet, side, peer, got, calls>>
  BY DEF WaitUntil, Park, Deadline, Waiting, callVars
<1>2. select[t] \in {"waiting", "aborted", "disconnected", "operation"}
  BY <1>0 DEF WakerInv, WakerTypeOK
<1>3. /\ \A u \in Threads : u # t => pc'[u] = pc[u] /\ select'[u] = select[u]
      /\ \/ /\ pc[t] = "wait" /\ select'[t] = select[t]
            /\ \/ select[t] = "waiting" /\ pc'[t] = "parked"
               \/ select[t] = "operation" /\ pc'[t] = "wait_ready"
               \/ select[t] \in {"aborted", "disconnected"} /\ pc'[t] = "unregister"
         \/ pc[t] = "parked" /\ pc'[t] = "wait" /\ select'[t] = select[t]
         \/ /\ pc[t] = "parked" /\ pc'[t] = "wait"
            /\ select[t] = "waiting" /\ select'[t] = "aborted"
  <2>1. CASE WaitUntil(t)
    <3>1. select' = select /\ pc[t] = "wait"
      BY <2>1 DEF WaitUntil, wakerVars
    <3>2. pc' = [pc EXCEPT ![t] = CASE select[t] = "waiting"   -> "parked"
                                    [] select[t] = "operation" -> "wait_ready"
                                    [] OTHER                   -> "unregister"]
      BY <2>1 DEF WaitUntil, Goto
    <3>. QED
      BY <1>0, <1>2, <3>1, <3>2 DEF ChanTypeOK
  <2>2. CASE Park(t)
    BY <1>0, <2>2 DEF Park, park, Goto, ChanTypeOK
  <2>3. CASE Deadline(t)
    BY <1>0, <2>3 DEF Deadline, try_abort, Goto, ChanTypeOK, WakerInv, WakerTypeOK
  <2>. QED
    BY <2>1, <2>2, <2>3
<1>4. \A u \in Threads : (Selected(u)' <=> Selected(u)) /\ (Undecided(u)' <=> Undecided(u))
  BY <1>3 DEF Selected, Undecided
<1>5. \A u \in Threads : pc[u] \in {"read", "write"} \/ pc'[u] \in {"read", "write"} => pc'[u] = pc[u]
  BY <1>3
<1>. QED
  BY <1>1, <1>4, <1>5, QuietStep

LEMMA HandlesAreQuiet ==
  ASSUME ZeroInv, ZeroInv', NEW t \in Threads,
         \/ \E s \in Wakers : Release(t, s) \/ \E u \in Threads : Acquire(t, s, u)
         \/ Destroy(t)
  PROVE  UNCHANGED <<Offered, Asking, Delivered, is_disconnected>>
<1>1. UNCHANGED <<is_disconnected, packet, side, peer, got, calls>> /\ UNCHANGED wakerVars
  BY DEF Release, Acquire, Destroy, callVars
<1>2. select' = select
  BY <1>1 DEF wakerVars
<1>3. /\ \A u \in Threads : u # t => pc'[u] = pc[u]
      /\ pc[t] \in {"idle", "destroy"} /\ pc'[t] \in {"idle", "disconnect"}
  <2>1. ChanTypeOK
    BY DEF ZeroInv
  <2>2. CASE \E s \in Wakers, u \in Threads : Acquire(t, s, u)
    BY <2>2 DEF Acquire
  <2>3. ASSUME NEW s \in Wakers, Release(t, s)
        PROVE  /\ \A u \in Threads : u # t => pc'[u] = pc[u]
               /\ pc[t] \in {"idle", "destroy"} /\ pc'[t] \in {"idle", "disconnect"}
    BY <2>1, <2>3 DEF Release, Goto, ChanTypeOK
  <2>4. CASE Destroy(t)
    BY <2>1, <2>4 DEF Destroy, Goto, ChanTypeOK
  <2>. QED
    BY <2>2, <2>3, <2>4
<1>4. \A u \in Threads : (Selected(u)' <=> Selected(u)) /\ (Undecided(u)' <=> Undecided(u))
  BY <1>2, <1>3 DEF Selected, Undecided
<1>5. \A u \in Threads : pc[u] \in {"read", "write"} \/ pc'[u] \in {"read", "write"} => pc'[u] = pc[u]
  BY <1>3
<1>. QED
  BY <1>1, <1>4, <1>5, QuietStep

LEMMA RegisterIsQuiet ==
  ASSUME ZeroInv, ZeroInv', NEW t \in Threads, Register(t)
  PROVE  UNCHANGED <<Offered, Asking, Delivered, is_disconnected>>
<1>0. ChanTypeOK /\ WakerInv
  BY DEF ZeroInv
<1>1. /\ pc[t] = "start" /\ pc' = [pc EXCEPT ![t] = "wait"] /\ select' = [select EXCEPT ![t] = "waiting"]
      /\ UNCHANGED <<is_disconnected, side, peer, got, calls>>
  BY DEF Register, register, Goto, callVars
<1>2. \E p : packet' = [packet EXCEPT ![t] = p]
  BY DEF Register
<1>3. /\ pc'[t] = "wait" /\ select'[t] = "waiting"
      /\ \A u \in Threads : u # t => pc'[u] = pc[u] /\ select'[u] = select[u] /\ packet'[u] = packet[u]
  BY <1>0, <1>1, <1>2 DEF ChanTypeOK, WakerInv, WakerTypeOK
<1>4. \A u \in Threads : (Selected(u)' <=> Selected(u)) /\ (Undecided(u)' <=> Undecided(u))
  BY <1>1, <1>3 DEF Selected, Undecided
<1>5. ~Selected(t)
  BY <1>1 DEF Selected
<1>6. \A u \in Threads : pc[u] \in {"read", "write"} \/ pc'[u] \in {"read", "write"} => pc'[u] = pc[u]
  BY <1>1, <1>3
<1>. QED
  BY <1>1, <1>3, <1>4, <1>5, <1>6, QuietStep

LEMMA StoreReadyIsQuiet ==
  ASSUME ZeroInv, ZeroInv', NEW t \in Threads, StoreReady(t)
  PROVE  UNCHANGED <<Offered, Asking, Delivered, is_disconnected>>
<1> SUFFICES ASSUME NEW p, p = peer[t] PROVE UNCHANGED <<Offered, Asking, Delivered, is_disconnected>>
  OBVIOUS
<1>0. ChanTypeOK
  BY DEF ZeroInv
<1>1. /\ pc[t] = "ready" /\ packet' = [packet EXCEPT ![p].ready = TRUE] /\ pc' = [pc EXCEPT ![t] = "idle"]
      /\ side' = [side EXCEPT ![t] = "none"] /\ peer' = [peer EXCEPT ![t] = t]
      /\ UNCHANGED wakerVars /\ UNCHANGED <<is_disconnected, got, calls>>
  BY DEF StoreReady, Leave, Goto
<1>2. select' = select
  BY <1>1 DEF wakerVars
<1>3. p \in Threads
  BY <1>0 DEF ChanTypeOK
<1>4. \A u \in Threads : packet'[u].msg = packet[u].msg
  BY <1>0, <1>1, <1>3, SetReady
<1>5. /\ pc'[t] = "idle"
      /\ \A u \in Threads : u # t => pc'[u] = pc[u] /\ side'[u] = side[u] /\ peer'[u] = peer[u]
  BY <1>0, <1>1 DEF ChanTypeOK
<1>6. \A u \in Threads : (Selected(u)' <=> Selected(u)) /\ (Undecided(u)' <=> Undecided(u))
  BY <1>1, <1>2, <1>5 DEF Selected, Undecided
<1>7. ~Selected(t) /\ ~Undecided(t)
  BY <1>1 DEF Selected, Undecided
<1>8. \A u \in Threads : pc[u] \in {"read", "write"} \/ pc'[u] \in {"read", "write"} =>
                           pc'[u] = pc[u] /\ peer'[u] = peer[u]
  BY <1>1, <1>5
<1>. QED
  BY <1>1, <1>4, <1>5, <1>6, <1>7, <1>8, QuietStep

LEMMA DisconnectIsQuiet ==
  ASSUME ZeroInv, ZeroInv', NEW t \in Threads, Disconnect(t)
  PROVE  UNCHANGED <<Offered, Asking, Delivered>> /\ is_disconnected' = TRUE
<1>0. ChanTypeOK
  BY DEF ZeroInv
<1>1. /\ pc[t] = "disconnect" /\ pc' = [pc EXCEPT ![t] = "destroy"] /\ is_disconnected' = TRUE
      /\ UNCHANGED <<packet, side, peer, got, calls>>
  BY DEF Disconnect, Goto, callVars
<1>2. /\ pc'[t] = "destroy" /\ \A u \in Threads : u # t => pc'[u] = pc[u]
  BY <1>0, <1>1 DEF ChanTypeOK
<1>3. \A u \in Threads : \/ select'[u] = select[u]
                         \/ select[u] = "waiting" /\ select'[u] = "disconnected"
  <2>1. CASE UNCHANGED wakerVars
    BY <2>1 DEF wakerVars
  <2>2. CASE disconnect(Wakers)
    BY <2>2 DEF disconnect, Disconnected
  <2>. QED
    BY <2>1, <2>2 DEF Disconnect
<1>4. \A u \in Threads : (Selected(u)' <=> Selected(u)) /\ (Undecided(u)' <=> Undecided(u))
  BY <1>1, <1>2, <1>3 DEF Selected, Undecided
<1>5. \A u \in Threads : pc[u] \in {"read", "write"} \/ pc'[u] \in {"read", "write"} => pc'[u] = pc[u]
  BY <1>1, <1>2
<1>. QED
  BY <1>1, <1>4, <1>5, QuietStep

(* The exchange of the message and the return of the partner were decided  *)
(* when the one selected the other.                                        *)
LEMMA WriteIsQuiet ==
  ASSUME ZeroInv, ZeroInv', NEW t \in Threads, Write(t)
  PROVE  UNCHANGED <<Offered, Asking, Delivered, is_disconnected>>
<1> SUFFICES ASSUME NEW p, p = peer[t], NEW q, q = Message(t)
             PROVE  UNCHANGED <<Offered, Asking, Delivered, is_disconnected>>
  OBVIOUS
<1>0. ChanTypeOK /\ pc[t] = "write" /\ pc[t] \in Pairs
  BY DEF ZeroInv, Write, Pairs
<1>1. /\ packet' = [packet EXCEPT ![p].msg = q] /\ pc' = [pc EXCEPT ![t] = "ready"]
      /\ UNCHANGED wakerVars /\ UNCHANGED <<is_disconnected, side, peer, got, calls>>
  BY DEF Write, Goto, callVars
<1>2. select' = select
  BY <1>1 DEF wakerVars
<1>3. /\ p \in Threads /\ p # t /\ ~Selected(t) /\ PairOK(t)
      /\ \A v \in Threads : v # t /\ pc[v] \in Pairs => peer[v] # t /\ peer[v] # p
  BY <1>0, PairMeans, Zenon
<1>4. q \in Threads \X Nat /\ q # NoMsg
  <2>1. calls[t] \in Nat /\ q # NoMsg
    BY <1>0, MessageIsSome DEF ChanTypeOK
  <2>. QED
    BY <2>1 DEF Message
<1>5. /\ packet' \in [Threads -> Packets]
      /\ packet'[p].msg = q /\ packet'[p].ready = packet[p].ready /\ packet'[p].alive = packet[p].alive
      /\ \A v \in Threads : v # p => packet'[v] = packet[v]
  <2>1. /\ ChanTypeOK /\ p \in Threads /\ q \in {NoMsg} \cup (Threads \X Nat)
        /\ packet' = [packet EXCEPT ![p].msg = q]
    BY <1>0, <1>1, <1>3, <1>4
  <2>. QED
    BY <2>1, SetMsg, Zenon
<1>6. pc'[t] = "ready" /\ \A v \in Threads : v # t => pc'[v] = pc[v]
  BY <1>0, <1>1 DEF ChanTypeOK
<1>7. \A u \in Threads : (Selected(u)' <=> Selected(u)) /\ (Undecided(u)' <=> Undecided(u))
  BY <1>0, <1>2, <1>6 DEF Selected, Undecided
<1>8. ASSUME NEW u \in Threads PROVE DeliveredTo(u)' = DeliveredTo(u)
  <2>1. got'[u] = got[u] /\ side'[u] = side[u] /\ (pc'[u] = "read" <=> pc[u] = "read")
    BY <1>0, <1>1, <1>6
  <2>2. ASSUME pc[u] = "read" PROVE packet'[peer'[u]].msg = packet[peer[u]].msg
    <3>1. peer'[u] = peer[u] /\ peer[u] \in Threads /\ peer[u] # p
      BY <1>0, <1>1, <1>3, <2>2 DEF ChanTypeOK, Pairs
    <3>. QED
      BY <1>5, <3>1
  <2>3. ASSUME NEW m, Arrives(u, m) PROVE Arrives(u, m)'
    <3>1. CASE u = p
      <4>1. packet[p].msg = NoMsg
        BY <1>0, <1>3 DEF PairOK
      <4>2. PICK v \in Threads : pc[v] = "write" /\ peer[v] = p /\ m = Message(v)
        BY <2>3, <3>1, <4>1 DEF Arrives
      <4>3. v = t
        BY <1>3, <4>2 DEF Pairs
      <4>. QED
        BY <1>4, <1>5, <3>1, <4>2, <4>3 DEF Arrives
    <3>2. CASE u # p
      <4>1. packet'[u] = packet[u]
        BY <1>5, <3>2
      <4>2. ASSUME NEW v \in Threads, pc[v] = "write", peer[v] = u, m = Message(v)
            PROVE  pc'[v] = "write" /\ peer'[v] = u /\ m = Message(v)'
        BY <1>1, <1>6, <3>2, <4>2 DEF Message
      <4>. QED
        BY <2>3, <4>1, <4>2 DEF Arrives
    <3>. QED
      BY <3>1, <3>2
  <2>. QED
    BY <1>7, <2>1, <2>2, <2>3, DeliveredStays
<1>9. Delivered' = Delivered
  BY <1>8 DEF Delivered, DeliveredTo
<1>. QED
  BY <1>1, <1>7, <1>9, OffersStay

LEMMA ReadIsQuiet ==
  ASSUME ZeroInv, ZeroInv', NEW t \in Threads, Read(t)
  PROVE  UNCHANGED <<Offered, Asking, Delivered, is_disconnected>>
<1> SUFFICES ASSUME NEW p, p = peer[t], NEW q, q = packet[p].msg
             PROVE  UNCHANGED <<Offered, Asking, Delivered, is_disconnected>>
  OBVIOUS
<1>0. ChanTypeOK /\ pc[t] = "read" /\ pc[t] \in Pairs
  BY DEF ZeroInv, Read, Pairs
<1>1. /\ packet' = [packet EXCEPT ![p].msg = NoMsg] /\ pc' = [pc EXCEPT ![t] = "ready"]
      /\ got' = [got EXCEPT ![t] = Append(@, q)]
      /\ UNCHANGED wakerVars /\ UNCHANGED <<is_disconnected, side, peer, calls>>
  BY DEF Read, Goto, callVars
<1>2. select' = select
  BY <1>1 DEF wakerVars
<1>3. /\ p \in Threads /\ p # t /\ ~Selected(t) /\ side[p] = Other(t)
      /\ \A v \in Threads : v # t /\ pc[v] \in Pairs => peer[v] # t /\ peer[v] # p
  BY <1>0, PairMeans, Zenon
<1>4. side[p] # "receivers"
  BY <1>0, <1>3 DEF ZeroInv, ThreadsAreOK, ThreadOK, CallOK, Other
<1>5. \A v \in Threads : v # p => packet'[v] = packet[v]
  BY <1>0, <1>1, <1>3, SetMsg
<1>6. /\ pc'[t] = "ready" /\ got'[t] = Append(got[t], q)
      /\ \A v \in Threads : v # t => pc'[v] = pc[v] /\ got'[v] = got[v]
  BY <1>0, <1>1 DEF ChanTypeOK
<1>7. \A u \in Threads : (Selected(u)' <=> Selected(u)) /\ (Undecided(u)' <=> Undecided(u))
  BY <1>0, <1>2, <1>6 DEF Selected, Undecided
<1>8. ASSUME NEW u \in Threads, u # t PROVE DeliveredTo(u)' = DeliveredTo(u)
  <2>1. got'[u] = got[u] /\ side'[u] = side[u] /\ pc'[u] = pc[u] /\ peer'[u] = peer[u]
    BY <1>1, <1>6, <1>8
  <2>2. ASSUME pc[u] = "read" PROVE packet'[peer'[u]].msg = packet[peer[u]].msg
    <3>1. peer[u] \in Threads /\ peer[u] # p
      BY <1>0, <1>3, <1>8, <2>2 DEF ChanTypeOK, Pairs
    <3>. QED
      BY <1>5, <2>1, <3>1
  <2>3. ASSUME NEW m, side[u] = "receivers", Arrives(u, m) PROVE Arrives(u, m)'
    <3>1. packet'[u] = packet[u]
      BY <1>4, <1>5, <2>3
    <3>2. ASSUME NEW v \in Threads, pc[v] = "write", peer[v] = u, m = Message(v)
          PROVE  pc'[v] = "write" /\ peer'[v] = u /\ m = Message(v)'
      BY <1>0, <1>1, <1>6, <3>2 DEF Message
    <3>. QED
      BY <2>3, <3>1, <3>2 DEF Arrives
  <2>. QED
    BY <1>7, <2>1, <2>2, <2>3, DeliveredStays
<1>9. DeliveredTo(t)' = DeliveredTo(t)
  <2>1. DeliveredTo(t) = Append(got[t], q)
    BY <1>0 DEF DeliveredTo, Selected
  <2>2. DeliveredTo(t)' = got'[t]
    BY <1>3, <1>6, <1>7 DEF DeliveredTo
  <2>. QED
    BY <1>6, <2>1, <2>2
<1>10. Delivered' = Delivered
  BY <1>8, <1>9 DEF Delivered, DeliveredTo
<1>. QED
  BY <1>1, <1>7, <1>10, OffersStay

LEMMA WaitReadyIsQuiet ==
  ASSUME ZeroInv, ZeroInv', NEW t \in Threads, WaitReady(t)
  PROVE  UNCHANGED <<Offered, Asking, Delivered, is_disconnected>>
<1>0. ChanTypeOK /\ pc[t] = "wait_ready" /\ packet[t].ready /\ Return(t)
  BY DEF ZeroInv, WaitReady
<1>1. /\ got' = [got EXCEPT ![t] = IF side[t] = "receivers" THEN Append(@, packet[t].msg) ELSE @]
      /\ UNCHANGED wakerVars /\ UNCHANGED <<is_disconnected, calls>>
  BY DEF WaitReady
<1>2. select' = select /\ Selected(t)
  BY <1>0, <1>1 DEF wakerVars, Selected
<1>3. /\ pc'[t] = "idle" /\ side'[t] = "none"
      /\ \A u \in Threads : u # t => /\ pc'[u] = pc[u] /\ side'[u] = side[u] /\ peer'[u] = peer[u]
                                     /\ packet'[u] = packet[u]
  BY <1>0, ReturnIsClean
<1>4. /\ got'[t] = IF side[t] = "receivers" THEN Append(got[t], packet[t].msg) ELSE got[t]
      /\ \A u \in Threads : u # t => got'[u] = got[u]
  BY <1>0, <1>1 DEF ChanTypeOK
<1>5. \A v \in Threads : pc[v] \in Pairs => peer[v] # t
  BY <1>0 DEF ZeroInv, PairsAreExclusive, PairOK
<1>6. \A u \in Threads : /\ Undecided(u)' <=> Undecided(u)
                         /\ Undecided(u) => u # t
                         /\ u # t => (Selected(u)' <=> Selected(u))
  BY <1>0, <1>2, <1>3 DEF Selected, Undecided
<1>7. ASSUME NEW u \in Threads, u # t PROVE DeliveredTo(u)' = DeliveredTo(u)
  <2>1. /\ got'[u] = got[u] /\ side'[u] = side[u] /\ pc'[u] = pc[u] /\ peer'[u] = peer[u]
        /\ packet'[u] = packet[u]
    BY <1>3, <1>4, <1>7
  <2>2. ASSUME pc[u] = "read" PROVE packet'[peer'[u]].msg = packet[peer[u]].msg
    <3>1. peer[u] \in Threads /\ peer[u] # t
      BY <1>0, <1>5, <2>2 DEF ChanTypeOK, Pairs
    <3>. QED
      BY <1>3, <2>1, <3>1
  <2>3. ASSUME NEW m, Arrives(u, m) PROVE Arrives(u, m)'
    <3>1. ASSUME NEW v \in Threads, pc[v] = "write", peer[v] = u, m = Message(v)
          PROVE  pc'[v] = "write" /\ peer'[v] = u /\ m = Message(v)'
      BY <1>0, <1>1, <1>3, <3>1 DEF Message
    <3>. QED
      BY <2>1, <2>3, <3>1 DEF Arrives
  <2>. QED
    BY <1>6, <1>7, <2>1, <2>2, <2>3, DeliveredStays
<1>8. DeliveredTo(t)' = DeliveredTo(t)
  <2>1. DeliveredTo(t)' = got'[t]
    BY <1>3 DEF DeliveredTo
  <2>2. CASE side[t] = "receivers"
    <3>1. packet[t].msg # NoMsg
      BY <1>0, <1>2, <2>2, ReadyHasNoPartner
    <3>2. Incoming(t) = packet[t].msg
      BY <3>1 DEF Incoming
    <3>. QED
      BY <1>0, <1>2, <1>4, <2>1, <2>2, <3>2 DEF DeliveredTo
  <2>3. CASE side[t] # "receivers"
    BY <1>0, <1>4, <2>1, <2>3 DEF DeliveredTo
  <2>. QED
    BY <2>2, <2>3
<1>9. Delivered' = Delivered
  BY <1>7, <1>8 DEF Delivered, DeliveredTo
<1>10. \A u \in Threads : Undecided(u) => side'[u] = side[u]
  BY <1>3, <1>6
<1>. QED
  BY <1>1, <1>6, <1>9, <1>10, OffersStay

(* A call that gives up withdraws its message or its request.              *)
LEMMA CallGivesUp ==
  ASSUME ZeroInv, ZeroInv', NEW t \in Threads, Refuse(t) \/ Unregister(t)
  PROVE  Abstract!Next
<1>0. ChanTypeOK /\ ThreadOK(t) /\ pc[t] \in {"start", "unregister"} /\ Return(t)
  BY DEF ZeroInv, ThreadsAreOK, Refuse, Unregister
<1>1. UNCHANGED <<is_disconnected, got, calls>> /\ select' = select
  BY DEF Refuse, Unregister, unregister, wakerVars
<1>2. /\ pc'[t] = "idle" /\ side'[t] = "none"
      /\ \A u \in Threads : u # t => /\ pc'[u] = pc[u] /\ side'[u] = side[u] /\ peer'[u] = peer[u]
                                     /\ packet'[u] = packet[u]
  BY <1>0, ReturnIsClean
<1>3. \A u \in Threads : /\ u # t => (Undecided(u)' <=> Undecided(u))
                         /\ Selected(u)' <=> Selected(u)
  BY <1>0, <1>1, <1>2 DEF Selected, Undecided
<1>4. Undecided(t) /\ ~Undecided(t)' /\ ~Selected(t)
  BY <1>0, <1>2 DEF Undecided, Selected
<1>5. \A u \in Threads : Message(u)' = Message(u) /\ Message(u) = <<u, calls[u]>>
  BY <1>1 DEF Message
<1>6. Delivered' = Delivered
  <2>1. \A u \in Threads : /\ Selected(u)' <=> Selected(u)
                           /\ Selected(u) => side'[u] = side[u] /\ packet'[u].msg = packet[u].msg
                           /\ pc[u] \in {"read", "write"} \/ pc'[u] \in {"read", "write"} =>
                                pc'[u] = pc[u] /\ peer'[u] = peer[u] /\ Message(u)' = Message(u)
    BY <1>0, <1>2, <1>3, <1>4, <1>5
  <2>2. \A u \in Threads : DeliveredTo(u)' = DeliveredTo(u)
    BY <1>1, <2>1, NothingArrives
  <2>. QED
    BY <2>2 DEF Delivered, DeliveredTo
<1>7. CASE side[t] = "senders"
  <2>1. Message(t) \in Offered /\ Offered' = Offered \ {Message(t)}
    BY <1>2, <1>3, <1>4, <1>5, <1>7 DEF Offered
  <2>2. Asking' = Asking
    BY <1>2, <1>3, <1>4, <1>7 DEF Asking
  <2>. QED
    BY <1>1, <1>6, <2>1, <2>2 DEF Abstract!Next, Abstract!Withdraw
<1>8. CASE side[t] = "receivers"
  <2>1. Offered' = Offered
    BY <1>2, <1>3, <1>4, <1>5, <1>8 DEF Offered
  <2>2. t \in Asking /\ Asking' = Asking \ {t}
    BY <1>2, <1>3, <1>4, <1>8 DEF Asking
  <2>. QED
    BY <1>1, <1>6, <2>1, <2>2 DEF Abstract!Next, Abstract!GiveUp
<1>9. side[t] \in {"senders", "receivers"}
  BY <1>0 DEF ThreadOK, CallOK, ChanTypeOK
<1>. QED
  BY <1>7, <1>8, <1>9

(* A call that begins offers a message that nobody has seen, or asks.      *)
LEMMA CallBegins ==
  ASSUME ZeroInv, ZeroInv', NEW t \in Threads, NEW s \in Wakers, NEW c \in Modes, Call(t, s, c)
  PROVE  Abstract!Next
<1>0. ChanTypeOK /\ s \in {"senders", "receivers"} /\ pc[t] = "idle"
  BY ConstantsAssumption DEF ZeroInv, Call
<1>1. /\ calls' = [calls EXCEPT ![t] = @ + 1] /\ side' = [side EXCEPT ![t] = s]
      /\ pc' = [pc EXCEPT ![t] = "start"]
      /\ UNCHANGED <<is_disconnected, packet, peer, got>> /\ UNCHANGED wakerVars
  BY DEF Call, Goto
<1>2. select' = select
  BY <1>1 DEF wakerVars
<1>3. /\ pc'[t] = "start" /\ side'[t] = s /\ calls'[t] = calls[t] + 1 /\ calls[t] \in Nat
      /\ \A u \in Threads : u # t => pc'[u] = pc[u] /\ side'[u] = side[u] /\ calls'[u] = calls[u]
  BY <1>0, <1>1 DEF ChanTypeOK
<1>4. /\ \A u \in Threads : /\ u # t => (Undecided(u)' <=> Undecided(u))
                            /\ Selected(u)' <=> Selected(u)
      /\ ~Undecided(t) /\ Undecided(t)' /\ ~Selected(t)
  BY <1>0, <1>2, <1>3 DEF Selected, Undecided
<1>5. /\ \A u \in Threads : u # t => Message(u)' = Message(u)
      /\ \A u \in Threads : Message(u) = <<u, calls[u]>>
      /\ Message(t)' = <<t, calls[t] + 1>>
  BY <1>3 DEF Message
<1>6. \A u \in Threads : DeliveredTo(u)' = DeliveredTo(u)
  <2>1. \A u \in Threads : /\ Selected(u)' <=> Selected(u)
                           /\ Selected(u) => side'[u] = side[u] /\ packet'[u].msg = packet[u].msg
                           /\ pc[u] \in {"read", "write"} \/ pc'[u] \in {"read", "write"} =>
                                pc'[u] = pc[u] /\ peer'[u] = peer[u] /\ Message(u)' = Message(u)
    BY <1>0, <1>1, <1>3, <1>4, <1>5
  <2>. QED
    BY <1>1, <2>1, NothingArrives
<1>7. Delivered' = Delivered
  BY <1>6 DEF Delivered, DeliveredTo
<1>8. CASE s = "senders"
  <2> DEFINE m == <<t, calls[t] + 1>>
  <2>1. ~Sent(m)
    BY <1>3 DEF Sent
  <2>2. \A u \in Threads : Message(u) # m
    BY <1>3, <1>5
  <2>3. \A u \in Threads : \A i \in DOMAIN DeliveredTo(u) : DeliveredTo(u)[i] # m
    BY <2>1, DeliveredSent
  <2>4. \A u \in Threads : Delivered[u] = DeliveredTo(u)
    BY DEF Delivered, DeliveredTo
  <2>5. m \notin Offered /\ m \in Offered' /\ Offered' = Offered \cup {m}
    BY <1>3, <1>4, <1>5, <1>8, <2>2 DEF Offered
  <2>6. Asking' = Asking
    BY <1>3, <1>4, <1>8 DEF Asking
  <2> HIDE DEF m
  <2>7. Abstract!Offer(m)
    BY <1>1, <1>7, <2>3, <2>4, <2>5, <2>6 DEF Abstract!Offer
  <2>. QED
    BY <2>5, <2>7 DEF Abstract!Next
<1>9. CASE s = "receivers"
  <2>1. Offered' = Offered
    BY <1>3, <1>4, <1>5, <1>9 DEF Offered
  <2>2. t \notin Asking /\ Asking' = Asking \cup {t}
    BY <1>3, <1>4, <1>9 DEF Asking
  <2>. QED
    BY <1>1, <1>7, <2>1, <2>2 DEF Abstract!Next, Abstract!Ask
<1>. QED
  BY <1>0, <1>8, <1>9

(* The message changes hands when one thread selects the other.            *)
LEMMA PairTransfers ==
  ASSUME ZeroInv, ZeroInv', NEW t \in Threads, Pair(t)
  PROVE  Abstract!Next
<1>1. PICK u \in Threads :
           /\ u # t /\ side[t] \in {"senders", "receivers"} /\ side[u] = Other(t)
           /\ pc[t] = "start" /\ pc[u] \in {"wait", "parked"} /\ select[u] = "waiting" /\ Undecided(u)
           /\ pc' = [pc EXCEPT ![t] = IF side[t] = "senders" THEN "write" ELSE "read"]
           /\ peer' = [peer EXCEPT ![t] = u]
           /\ select' = [select EXCEPT ![u] = "operation"]
           /\ UNCHANGED <<is_disconnected, packet, side, got, calls>>
  BY PairEffect
<1>0. ChanTypeOK /\ WakerInv /\ ThreadOK(u) /\ PairsAreExclusive
  BY DEF ZeroInv, ThreadsAreOK
<1>2. /\ pc'[t] = IF side[t] = "senders" THEN "write" ELSE "read"
      /\ \A v \in Threads : v # t => pc'[v] = pc[v] /\ peer'[v] = peer[v]
      /\ peer'[t] = u
  BY <1>0, <1>1 DEF ChanTypeOK
<1>3. select'[u] = "operation" /\ \A v \in Threads : v # u => select'[v] = select[v]
  BY <1>0, <1>1 DEF WakerInv, WakerTypeOK
<1>4. /\ Undecided(t) /\ Undecided(u) /\ ~Undecided(t)' /\ ~Undecided(u)'
      /\ ~Selected(t) /\ ~Selected(u) /\ ~Selected(t)' /\ Selected(u)'
      /\ \A v \in Threads : v # t /\ v # u => /\ Undecided(v)' <=> Undecided(v)
                                              /\ Selected(v)' <=> Selected(v)
  BY <1>1, <1>2, <1>3 DEF Undecided, Selected
<1>5. \A v \in Threads : Message(v)' = Message(v) /\ Message(v) = <<v, calls[v]>>
  BY <1>1 DEF Message
<1>6. ~is_disconnected
  BY <1>0, <1>1 DEF ThreadOK, DecidedOK
<1>7. packet[u].msg = IF side[u] = "senders" THEN Message(u) ELSE NoMsg
  BY <1>0, <1>1 DEF ThreadOK, PacketOK, Waits
<1>8. ASSUME NEW v \in Threads, v # t, v # u PROVE DeliveredTo(v)' = DeliveredTo(v)
  <2>1. /\ got'[v] = got[v] /\ side'[v] = side[v] /\ pc'[v] = pc[v] /\ peer'[v] = peer[v]
        /\ packet' = packet
    BY <1>1, <1>2, <1>8
  <2>2. ASSUME NEW m, Arrives(v, m) PROVE Arrives(v, m)'
    <3>1. ASSUME NEW x \in Threads, pc[x] = "write", peer[x] = v, m = Message(x)
          PROVE  pc'[x] = "write" /\ peer'[x] = v /\ m = Message(x)'
      BY <1>1, <1>2, <1>5, <3>1
    <3>. QED
      BY <2>1, <2>2, <3>1 DEF Arrives
  <2>. QED
    BY <1>4, <1>8, <2>1, <2>2, DeliveredStays
<1>9. DeliveredTo(t) = got[t] /\ DeliveredTo(u) = got[u]
  BY <1>1, <1>4, DeliveredIsGot
<1>d. /\ Delivered = [v \in Threads |-> DeliveredTo(v)]
      /\ Delivered' = [v \in Threads |-> DeliveredTo(v)']
  BY DEF Delivered, DeliveredTo
<1>10. CASE side[t] = "senders"
  <2>1. side[u] = "receivers" /\ pc'[t] = "write"
    BY <1>1, <1>2, <1>10 DEF Other
  <2>2. Arrives(u, Message(t))'
    <3>1. \A m : m = Message(t) => Arrives(u, m)'
      BY <1>1, <1>2, <1>5, <1>7, <2>1 DEF Arrives
    <3>. QED
      BY <1>5, <3>1
  <2>3. Incoming(u)' = Message(t)
    <3>1. ASSUME NEW m, m = Message(t) PROVE Incoming(u)' = m
      <4>1. Arrives(u, m)' /\ Selected(u)' /\ side'[u] = "receivers"
        BY <1>1, <1>4, <1>5, <2>1, <2>2, <3>1
      <4>. QED
        BY <4>1, IncomingIsNext
    <3>. QED
      BY <3>1
  <2>4. DeliveredTo(u)' = Append(got[u], Message(t)) /\ DeliveredTo(t)' = got[t]
    <3>1. pc'[u] # "read" /\ side'[u] = "receivers" /\ got' = got /\ pc'[t] # "read" /\ side'[t] # "receivers"
      BY <1>1, <1>2, <1>10, <2>1
    <3>. QED
      BY <1>4, <2>3, <3>1 DEF DeliveredTo
  <2>5. Delivered' = [Delivered EXCEPT ![u] = Append(@, Message(t))]
    BY <1>8, <1>9, <1>d, <2>4
  <2>6. Message(t) \in Offered /\ Offered' = Offered \ {Message(t)}
    BY <1>1, <1>4, <1>5, <1>10, <2>1 DEF Offered
  <2>7. u \in Asking /\ Asking' = Asking \ {u}
    BY <1>1, <1>4, <1>10, <2>1 DEF Asking
  <2>8. Abstract!Transfer(Message(t), u)
    BY <1>1, <1>6, <2>5, <2>6, <2>7 DEF Abstract!Transfer
  <2>. QED
    BY <2>6, <2>7, <2>8 DEF Abstract!Next
<1>11. CASE side[t] = "receivers"
  <2>1. side[u] = "senders" /\ pc'[t] = "read"
    BY <1>1, <1>2, <1>11 DEF Other
  <2>2. packet'[peer'[t]].msg = Message(u)
    BY <1>1, <1>2, <1>7, <2>1
  <2>3. DeliveredTo(t)' = Append(got[t], Message(u)) /\ DeliveredTo(u)' = got[u]
    <3>1. pc'[u] # "read" /\ side'[u] # "receivers" /\ got' = got
      BY <1>1, <1>2, <2>1
    <3>. QED
      BY <1>4, <2>1, <2>2, <3>1 DEF DeliveredTo
  <2>4. Delivered' = [Delivered EXCEPT ![t] = Append(@, Message(u))]
    BY <1>8, <1>9, <1>d, <2>3
  <2>5. Message(u) \in Offered /\ Offered' = Offered \ {Message(u)}
    BY <1>1, <1>4, <1>5, <1>11, <2>1 DEF Offered
  <2>6. t \in Asking /\ Asking' = Asking \ {t}
    BY <1>1, <1>4, <1>11, <2>1 DEF Asking
  <2>7. Abstract!Transfer(Message(u), t)
    BY <1>1, <1>6, <2>4, <2>5, <2>6 DEF Abstract!Transfer
  <2>. QED
    BY <2>5, <2>6, <2>7 DEF Abstract!Next
<1>. QED
  BY <1>1, <1>10, <1>11

(* The channel implements the rendezvous of Rendezvous: a message goes     *)
(* from one thread straight to another, once, while both are in a call;    *)
(* a send that fails keeps it, and nothing changes hands once the channel  *)
(* is disconnected (zero.rs).                                              *)
THEOREM Refinement == Spec => ImplementsRendezvous
<1>1. Init => Abstract!Init
  <2> SUFFICES ASSUME Init PROVE Abstract!Init
    OBVIOUS
  <2>1. \A t \in Threads : pc[t] = "idle" /\ side[t] = "none" /\ got[t] = <<>>
    BY DEF Init
  <2>2. \A t \in Threads : DeliveredTo(t) = <<>>
    BY <2>1 DEF DeliveredTo
  <2>3. Delivered = [t \in Threads |-> <<>>]
    BY <2>2 DEF Delivered, DeliveredTo
  <2>4. Offered = {} /\ Asking = {}
    BY <2>1 DEF Offered, Asking
  <2>. QED
    BY <2>3, <2>4 DEF Init, Abstract!Init
<1>2. ZeroInv /\ ZeroInv' /\ [Next]_vars => [Abstract!Next]_<<Offered, Asking, Delivered, is_disconnected>>
  <2> SUFFICES ASSUME ZeroInv, ZeroInv', [Next]_vars
               PROVE  Abstract!Next \/ UNCHANGED <<Offered, Asking, Delivered, is_disconnected>>
    OBVIOUS
  <2>1. CASE UNCHANGED vars
    <3>1. /\ UNCHANGED <<is_disconnected, packet, side, peer, pc, got, calls>>
          /\ select' = select
      BY <2>1 DEF vars, wakerVars, callVars
    <3>2. \A u \in Threads : (Selected(u)' <=> Selected(u)) /\ (Undecided(u)' <=> Undecided(u))
      BY <3>1 DEF Selected, Undecided
    <3>. QED
      BY <3>1, <3>2, QuietStep
  <2>2. ASSUME NEW t \in Threads, InCall(t)
        PROVE  Abstract!Next \/ UNCHANGED <<Offered, Asking, Delivered, is_disconnected>>
    <3>1. CASE Pair(t) \/ Refuse(t) \/ Unregister(t)
      BY <3>1, PairTransfers, CallGivesUp
    <3>2. CASE \/ Register(t) \/ Write(t) \/ Read(t) \/ StoreReady(t) \/ WaitUntil(t) \/ Park(t)
               \/ Deadline(t) \/ WaitReady(t) \/ Destroy(t)
      BY <3>2, RegisterIsQuiet, WriteIsQuiet, ReadIsQuiet, StoreReadyIsQuiet, WaitingIsQuiet,
         WaitReadyIsQuiet, HandlesAreQuiet
    <3>3. CASE Disconnect(t)
      <4>1. UNCHANGED <<Offered, Asking, Delivered>> /\ is_disconnected' = TRUE
        BY <3>3, DisconnectIsQuiet
      <4>2. is_disconnected \in BOOLEAN
        BY DEF ZeroInv, ChanTypeOK
      <4>. QED
        BY <4>1, <4>2 DEF Abstract!Next, Abstract!Close
    <3>. QED
      BY <2>2, <3>1, <3>2, <3>3 DEF InCall
  <2>3. ASSUME NEW t \in Threads, NEW s \in Wakers,
               \/ \E m \in Modes : Call(t, s, m)
               \/ \E u \in Threads : Acquire(t, s, u)
               \/ Release(t, s)
        PROVE  Abstract!Next \/ UNCHANGED <<Offered, Asking, Delivered, is_disconnected>>
    BY <2>3, CallBegins, HandlesAreQuiet
  <2>. QED
    BY <2>1, <2>2, <2>3 DEF Next, Finished
<1>. QED
  BY <1>1, <1>2, ZeroIsInvariant, PTL DEF Spec, ImplementsRendezvous, Abstract!Spec, Abstract!vars
=============================================================================
