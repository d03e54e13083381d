------------------------ MODULE ArrayChannelProofs --------------------------
(***************************************************************************)
(* Theorems about the bounded channel, for every capacity and every set of *)
(* threads. The positions of the ring are numbered in the order in which   *)
(* they are used (Ordinal, PosOf): the sends have got as far as Sent, the  *)
(* receives as far as Received, and a thread that has a position has the   *)
(* turn of that number. Turns that share a slot are cap apart, so that the *)
(* cap turns before Sent have a slot each; the stamp of a slot says which  *)
(* of its turns it serves. The proofs use the arithmetic of stamps only    *)
(* through the lemmas on PosOf.                                            *)
(***************************************************************************)
EXTENDS ArrayChannel, SyncWakerProofs, FiniteSetTheorems

Msgs == {NoMsg} \cup (Senders \X Nat)

SendLocs == {"s_tail", "s_stamp", "s_cas", "s_head", "s_write", "s_store"}
RecvLocs == {"r_head", "r_stamp", "r_cas", "r_tail", "r_read", "r_store"}
Blocking == {"check", "check2", "check3", "abort", "wait", "parked", "unregister"}
Leaving  == {"mark", "disconnect", "discard_start", "discard", "destroy"}
Locs == {"idle", "notify", "notify_lock", "register", "gone"}
           \cup SendLocs \cup RecvLocs \cup Blocking \cup Leaving

ChanTypeOK ==
    /\ head \in Nat /\ tail \in Nat /\ dhead \in Nat
    /\ buffer \in [0..(cap - 1) -> [stamp : Nat, msg : Msgs]]
    /\ pc   \in [Threads -> Locs]
    /\ pos  \in [Threads -> Nat]
    /\ mode \in [Threads -> {"try", "block", "timed"}]
    /\ got  \in [Receivers -> Seq(Msgs)]
    /\ handles \in SUBSET Threads /\ destroy \in BOOLEAN /\ freed \in Nat
    /\ calls \in [Threads -> Nat]

(* Only senders send, and only receivers receive or discard.               *)
SidesOK(t) == /\ t \in Senders   => pc[t] \notin RecvLocs \cup {"discard_start", "discard"}
              /\ t \in Receivers => pc[t] \notin SendLocs

-----------------------------------------------------------------------------
(* The ring.                                                               *)
Sent     == Ordinal(Unmark(tail))
Received == Ordinal(head)
Dropped  == Ordinal(dhead)
Turn(t)  == Ordinal(pos[t])

IsPos(p) == p = PosOf(Ordinal(p))

Slot(k) == buffer[k % cap]

PositionsOK ==
    /\ IsPos(head) /\ IsPos(dhead) /\ IsPos(Unmark(tail))
    /\ tail = Unmark(tail) \/ tail = Unmark(tail) + mark_bit
    /\ Received <= Sent /\ Sent <= Received + cap

(* The threads that own the slot of their turn.                            *)
Writing == {"s_write", "s_store"}
Taking  == {"r_read", "r_store"}

(* What a thread knows of its turn: it has come, and what the thread saw   *)
(* of the slot is true if the turn is still the next one.                  *)
SendTurnOK(t) ==
    /\ pc[t] \in {"s_stamp", "s_cas", "s_head"} => IsPos(pos[t]) /\ Turn(t) <= Sent
    /\ pc[t] = "s_cas" /\ Turn(t) = Sent => Slot(Sent).stamp = PosOf(Sent)
    /\ pc[t] \in Writing =>
         /\ IsPos(pos[t]) /\ First <= Turn(t) /\ Turn(t) < Sent
         /\ Slot(Turn(t)).stamp = PosOf(Turn(t))
         /\ Slot(Turn(t)).msg = IF pc[t] = "s_write" THEN NoMsg ELSE Message(t)

RecvTurnOK(t) ==
    /\ pc[t] \in {"r_stamp", "r_cas", "r_tail"} => IsPos(pos[t]) /\ Turn(t) <= Received
    /\ pc[t] = "r_cas" /\ Turn(t) = Received => Slot(Received).stamp = PosOf(Received) + 1
    /\ pc[t] \in Taking =>
         /\ IsPos(pos[t]) /\ Sent <= Turn(t) + cap /\ Turn(t) < Received
         /\ Slot(Turn(t)).stamp = PosOf(Turn(t)) + 1
         /\ pc[t] = "r_read" <=> Slot(Turn(t)).msg # NoMsg

(* What is_full and is_empty have loaded first.                            *)
CheckOK(t) ==
    pc[t] = "check2" => IsPos(pos[t]) /\ Turn(t) <= IF t \in Senders THEN Sent ELSE Received

TurnsOK == \A t \in Threads : SendTurnOK(t) /\ RecvTurnOK(t) /\ CheckOK(t)

(* The slots with a message, and the ones without.                         *)
FullSlots ==
    \A k \in Received..(Sent - 1) :
       \/ Slot(k).stamp = PosOf(k) + 1 /\ (First <= k => Slot(k).msg # NoMsg)
       \/ \E t \in At(Writing) : Turn(t) = k

FreeSlots ==
    \A k \in Sent..(Received + cap - 1) :
       \/ Slot(k).stamp = PosOf(k) /\ Slot(k).msg = NoMsg
       \/ \E t \in At(Taking) : Turn(t) + cap = k

TurnsAreTakenOnce == \A t, u \in At(Writing \cup Taking) : Turn(t) = Turn(u) => t = u

RingInv == PositionsOK /\ TurnsOK /\ FullSlots /\ FreeSlots /\ TurnsAreTakenOnce

-----------------------------------------------------------------------------
(* The handles, and the end of the channel.                                *)
Side(t) == IF t \in Senders THEN Senders ELSE Receivers

AllGone(S) == \A t \in S : pc[t] = "gone"

HandlesMatchThreads == \A t \in Threads : t \in handles <=> pc[t] \notin Leaving \cup {"gone"}

LastOneLeaves ==
    \A t \in Threads : pc[t] \in Leaving =>
       \A u \in Side(t) : u \notin handles /\ (pc[u] \in Leaving => u = t)

Disconnects ==
    /\ \A t \in Threads : pc[t] \in Leaving \ {"mark"} => Marked(tail)
    /\ \A t \in Receivers : pc[t] \in {"disconnect", "discard_start", "discard"} =>
          pos[t] = Unmark(tail)
    /\ AllGone(Senders) \/ AllGone(Receivers) => Marked(tail)

Discards ==
    /\ \A t \in Receivers : pc[t] = "discard" => Received <= Dropped /\ Dropped <= Sent
    /\ \A t \in Receivers : pc[t] = "destroy" => Dropped = Sent
    /\ AllGone(Receivers) => Dropped = Sent

FreedOnce ==
    /\ destroy <=> AllGone(Senders) \/ AllGone(Receivers)
    /\ freed = IF AllGone(Senders) /\ AllGone(Receivers) THEN 1 ELSE 0

EndInv == HandlesMatchThreads /\ LastOneLeaves /\ Disconnects /\ Discards /\ FreedOnce

-----------------------------------------------------------------------------
(* The wakers. A thread is registered with its own waker while it is in    *)
(* the blocking part of its call and has not been selected.                *)
EntryOK(t) ==
    /\ t \in Registered(Own(t)) <=> pc[t] \in Blocking /\ select[t] # "operation"
    /\ t \notin Registered(Other(t))
    /\ pc[t] = "unregister" => select[t] \in {"aborted", "disconnected"}

EntriesOK == \A t \in Threads : EntryOK(t)

(* A thread that is about to park in a disconnected channel will be told.  *)
WillBeTold ==
    \A t \in Threads :
       Marked(tail) /\ pc[t] \in {"wait", "parked"} /\ select[t] = "waiting" =>
          \E u \in At({"disconnect"}) : Own(u) # Own(t)

(* The threads that count on being woken, and the ones that will look at   *)
(* the channel again or will wake one that does.                           *)
CountOnIt(S) == {t \in S : pc[t] \in {"check3", "wait", "parked"} /\ select[t] = "waiting"}

Chosen(S) == {t \in S : pc[t] \in Blocking /\ select[t] = "operation"}

RecvHelpers == At({"r_head", "r_stamp", "r_cas", "r_tail"}) \cup Chosen(Receivers)
                 \cup (At(Writing \cup {"notify", "notify_lock"}) \cap Senders)

SendHelpers == At({"s_tail", "s_stamp", "s_cas", "s_head"}) \cup Chosen(Senders)
                 \cup (At(Taking \cup {"notify", "notify_lock"}) \cap Receivers)

(* While a receiver counts on being woken there is a helper for each       *)
(* message; while a sender does, one for each free slot.                   *)
RecvCovered == CountOnIt(Receivers) # {} => Sent - Received <= Cardinality(RecvHelpers)

SendCovered == CountOnIt(Senders) # {} /\ ~Marked(tail) =>
                  cap - (Sent - Received) <= Cardinality(SendHelpers)

(* Only finitely many threads are in a call at any time.                   *)
Active == {t \in Threads : pc[t] # "idle"}

Covered == IsFiniteSet(Active) /\ RecvCovered /\ SendCovered

(* The inductive invariant of the channel: of the ring and its end, which  *)
(* needs nothing of the wakers, and of the blocking.                       *)
CoreInv == ChanTypeOK /\ (\A t \in Threads : SidesOK(t)) /\ RingInv /\ EndInv

WakeInv == WakerInv /\ EntriesOK /\ WillBeTold /\ Covered

ArrayInv == CoreInv /\ WakeInv

-----------------------------------------------------------------------------
(* The arithmetic of stamps.                                               *)
LEMMA Division ==
  /\ \A q, r, d \in Nat : r < d => (q * d + r) \div d = q /\ (q * d + r) % d = r
  /\ \A n \in Nat, d \in Nat \ {0} : /\ n = (n \div d) * d + (n % d)
                                     /\ n \div d \in Nat /\ n % d \in Nat /\ n % d < d
<1>1. \A q, r, d \in Nat : r < d => (q * d + r) \div d = q
  OBVIOUS
<1>2. \A q, r, d \in Nat : r < d => (q * d + r) % d = r
  OBVIOUS
<1>3. \A n \in Nat, d \in Nat \ {0} : n = (n \div d) * d + (n % d)
  OBVIOUS
<1>4. \A n \in Nat, d \in Nat \ {0} : n \div d \in Nat /\ n % d \in Nat /\ n % d < d
  OBVIOUS
<1>. QED
  BY <1>1, <1>2, <1>3, <1>4

LEMMA Quotient ==
  ASSUME NEW n, NEW q \in Nat, NEW r \in Nat, NEW d \in Nat, r < d, n = q * d + r
  PROVE  n \div d = q /\ n % d = r
  BY Division

(* Twice a power of two is one.                                            *)
LEMMA PowerDoubles ==
  ASSUME NEW m \in Nat \ {0}, IsPowerOfTwo(m)
  PROVE  IsPowerOfTwo(2 * m)
<1> SUFFICES ASSUME NEW d \in 2..(2 * m), (2 * m) % d = 0, d % 2 # 0 PROVE FALSE
  BY DEF IsPowerOfTwo
<1>1. d \in Nat \ {0} /\ 2 * m \in Nat /\ d >= 2
  OBVIOUS
<1> DEFINE q == (2 * m) \div d
<1>2. q \in Nat /\ 2 * m = q * d
  BY <1>1, Division
<1> HIDE DEF q
<1>3. PICK a \in Nat : d = a * 2 + 1
  <2>1. d = (d \div 2) * 2 + (d % 2) /\ d \div 2 \in Nat /\ d % 2 \in Nat /\ d % 2 < 2
    BY <1>1, Division
  <2>. QED
    BY <2>1
<1>4. PICK b \in Nat : q = b * 2
  <2>1. q = (q \div 2) * 2 + (q % 2) /\ q \div 2 \in Nat /\ q % 2 \in Nat /\ q % 2 < 2
    BY <1>2, Division
  <2>2. CASE q % 2 = 0
    <3>1. q = (q \div 2) * 2
      BY <2>1, <2>2
    <3>. QED
      BY <2>1, <3>1
  <2>3. CASE q % 2 = 1
    <3> DEFINE c == q \div 2
    <3>1. q = c * 2 + 1 /\ c \in Nat
      BY <2>1, <2>3
    <3> HIDE DEF c
    <3>2. q * d = (2 * c * a + c + a) * 2 + 1
      BY <1>3, <3>1
    <3>3. (2 * c * a + c + a) \in Nat
      BY <3>1
    <3> DEFINE e == 2 * c * a + c + a
    <3> HIDE DEF e
    <3>4. 2 * m = e * 2 + 1 /\ e \in Nat
      BY <1>2, <3>2, <3>3 DEF e
    <3>. QED
      BY <3>4
  <2>4. q % 2 = 0 \/ q % 2 = 1
    <3> DEFINE r == q % 2
    <3>1. r \in Nat /\ r < 2
      BY <2>1
    <3> HIDE DEF r
    <3>2. r = 0 \/ r = 1
      BY <3>1
    <3>. QED
      BY <3>2 DEF r
  <2>. QED
    BY <2>2, <2>3, <2>4
<1>5. m = b * d
  BY <1>1, <1>2, <1>4
<1>6. m % d = 0
  <2>1. m = b * d + 0 /\ 0 < d
    BY <1>1, <1>5
  <2>. QED
    BY <1>1, <2>1, Division
<1>7. d <= m
  <2>1. b # 0
    BY <1>1, <1>5
  <2>. QED
    BY <1>1, <1>5, <2>1
<1>. QED
  BY <1>1, <1>6, <1>7 DEF IsPowerOfTwo

(* From n to 2n - 1 there is a power of two: a least n without one would   *)
(* have n - 1 for one, and then 2n - 2.                                    *)
LEMMA PowerExists ==
  ASSUME NEW n \in Nat \ {0}
  PROVE  \E m \in n..(2 * n - 1) : IsPowerOfTwo(m)
<1> DEFINE S == {k \in Nat \ {0} : \A m \in k..(2 * k - 1) : ~IsPowerOfTwo(m)}
<1>1. SUFFICES ASSUME S # {} PROVE FALSE
  OBVIOUS
<1> DEFINE k == Min(S)
<1>2. k \in S /\ \A j \in S : k <= j
  <2>1. S \in SUBSET Nat
    OBVIOUS
  <2> HIDE DEF S
  <2>. QED
    BY <1>1, <2>1, MinIsLeast
<1> HIDE DEF k
<1>3. k \in Nat \ {0} /\ \A m \in k..(2 * k - 1) : ~IsPowerOfTwo(m)
  BY <1>2
<1>4. k # 1
  <2>1. IsPowerOfTwo(1)
    BY DEF IsPowerOfTwo
  <2>2. k = 1 => 1 \in k..(2 * k - 1)
    OBVIOUS
  <2>. QED
    BY <1>3, <2>1, <2>2
<1>5. k - 1 \in Nat \ {0} /\ k - 1 \notin S
  <2>1. k - 1 \in Nat \ {0} /\ ~(k <= k - 1)
    BY <1>3, <1>4
  <2>. QED
    BY <1>2, <2>1
<1>6. PICK m \in (k - 1)..(2 * (k - 1) - 1) : IsPowerOfTwo(m)
  BY <1>5
<1>7. m \in Nat \ {0} /\ m < 2 * k - 1
  <2>1. k \in Nat /\ k - 1 >= 1
    BY <1>3, <1>4
  <2>2. m \in Nat /\ k - 1 <= m /\ m <= 2 * (k - 1) - 1
    BY <1>6, <2>1
  <2>. QED
    BY <2>1, <2>2
<1>8. CASE m >= k
  BY <1>3, <1>6, <1>7, <1>8
<1>9. CASE m = k - 1
  <2>1. IsPowerOfTwo(2 * m)
    BY <1>6, <1>7, PowerDoubles
  <2>2. 2 * m \in k..(2 * k - 1)
    BY <1>3, <1>5, <1>9
  <2>. QED
    BY <1>3, <2>1, <2>2
<1>. QED
  BY <1>3, <1>5, <1>6, <1>7, <1>8, <1>9

(* The capacity, the mark bit and the lap.                                 *)
LEMMA Sizes == /\ cap \in Nat /\ cap > 0
               /\ mark_bit \in Nat /\ mark_bit > cap
               /\ one_lap \in Nat /\ one_lap = 2 * mark_bit
<1>1. cap \in Nat /\ cap > 0
  BY ConstantsAssumption
<1> DEFINE S == {m \in (cap + 1)..(2 * cap + 1) : IsPowerOfTwo(m)}
<1>2. S # {}
  <2>1. cap + 1 \in Nat \ {0} /\ 2 * (cap + 1) - 1 = 2 * cap + 1
    BY <1>1
  <2>. QED
    BY <2>1, PowerExists
<1>3. S \in SUBSET Nat
  BY <1>1
<1>4. Min(S) \in S
  <2> HIDE DEF S
  <2>. QED
    BY <1>2, <1>3, MinIsLeast
<1>5. mark_bit \in (cap + 1)..(2 * cap + 1)
  BY <1>4 DEF mark_bit
<1>. QED
  BY <1>1, <1>5 DEF one_lap

(* A turn is a lap and the index of a slot.                                *)
LEMMA TurnParts ==
  ASSUME NEW k \in Nat
  PROVE  /\ k = (k \div cap) * cap + (k % cap) /\ k \div cap \in Nat
         /\ k % cap \in Nat /\ k % cap < cap /\ k % cap \in 0..(cap - 1)
<1>1. cap \in Nat \ {0}
  BY Sizes
<1>2. /\ k = (k \div cap) * cap + (k % cap) /\ k \div cap \in Nat
      /\ k % cap \in Nat /\ k % cap < cap
  BY <1>1, Division
<1>. QED
  BY <1>1, <1>2

(* The position of a turn: its slot, its number, and its mark.             *)
LEMMA PosParts ==
  ASSUME NEW k \in Nat
  PROVE  /\ PosOf(k) \in Nat /\ Index(PosOf(k)) = k % cap /\ Ordinal(PosOf(k)) = k
         /\ ~Marked(PosOf(k)) /\ Unmark(PosOf(k)) = PosOf(k)
         /\ Marked(PosOf(k) + mark_bit) /\ Unmark(PosOf(k) + mark_bit) = PosOf(k)
<1> DEFINE a == k \div cap
           i == k % cap
           p == PosOf(k)
<1>1. a \in Nat /\ i \in Nat /\ i < cap /\ k = a * cap + i
  BY TurnParts
<1>2. p = a * one_lap + i
  BY DEF PosOf
<1> HIDE DEF a, i, p
<1>3. i < mark_bit /\ i < one_lap
  BY <1>1, Sizes
<1>4. p \in Nat /\ p \div one_lap = a
  BY <1>1, <1>2, <1>3, Sizes, Division
<1>5. p = (2 * a) * mark_bit + i /\ 2 * a \in Nat
  BY <1>1, <1>2, Sizes
<1>6. p \div mark_bit = 2 * a /\ p % mark_bit = i
  BY <1>1, <1>3, <1>5, Sizes, Division
<1>7. p + mark_bit = (2 * a + 1) * mark_bit + i /\ 2 * a + 1 \in Nat
  BY <1>1, <1>5, Sizes
<1>8. (p + mark_bit) \div mark_bit = 2 * a + 1
  <2> DEFINE n == p + mark_bit
             q == 2 * a + 1
  <2>1. n = q * mark_bit + i /\ q \in Nat
    BY <1>7
  <2> HIDE DEF n, q
  <2>2. n \div mark_bit = q
    BY <1>1, <1>3, <2>1, Sizes, Quotient
  <2>. QED
    BY <2>2 DEF n, q
<1>9. Index(p) = i
  BY <1>6 DEF Index
<1>10. Ordinal(p) = k
  BY <1>1, <1>4, <1>9 DEF Ordinal
<1>11. ~Marked(p)
  <2>1. (2 * a) % 2 = 0
    BY <1>1
  <2>. QED
    BY <1>6, <2>1 DEF Marked
<1>12. Marked(p + mark_bit)
  <2>1. (2 * a + 1) % 2 = 1
    BY <1>1
  <2>. QED
    BY <1>8, <2>1 DEF Marked
<1>13. (p + mark_bit) - mark_bit = p
  BY <1>4, Sizes
<1>. QED
  BY <1>4, <1>9, <1>10, <1>11, <1>12, <1>13 DEF Unmark, i, p

(* Different turns have different positions.                               *)
LEMMA PosInjective ==
  ASSUME NEW k \in Nat, NEW j \in Nat, PosOf(k) = PosOf(j)
  PROVE  k = j
  BY PosParts

(* The position after the one of a turn, and the one a lap later.          *)
LEMMA PosAdvance ==
  ASSUME NEW k \in Nat
  PROVE  Advance(PosOf(k)) = PosOf(k + 1) /\ PosOf(k) + one_lap = PosOf(k + cap)
<1> DEFINE a == k \div cap
           i == k % cap
<1>1. a \in Nat /\ i \in Nat /\ i < cap /\ k = a * cap + i
  BY TurnParts
<1>2. PosOf(k) = a * one_lap + i
  BY DEF PosOf
<1>3. Index(PosOf(k)) = i
  BY PosParts
<1> HIDE DEF a, i
<1>4. PosOf(k) % one_lap = i
  <2> DEFINE n == PosOf(k)
  <2>1. i < one_lap /\ one_lap \in Nat /\ n = a * one_lap + i
    BY <1>1, <1>2, Sizes
  <2> HIDE DEF n
  <2>2. n % one_lap = i
    BY <1>1, <2>1, Quotient
  <2>. QED
    BY <2>2 DEF n
<1>5. Lap(PosOf(k)) = a * one_lap
  <2>1. a * one_lap \in Nat
    BY <1>1, Sizes
  <2>2. \A x \in Nat : (x + i) - i = x
    BY <1>1
  <2>. QED
    BY <1>2, <1>4, <2>1, <2>2 DEF Lap
<1>6. PosOf(k) + one_lap = PosOf(k + cap)
  <2>1. k + cap = (a + 1) * cap + i /\ a + 1 \in Nat
    BY <1>1, Sizes
  <2>2. (k + cap) \div cap = a + 1 /\ (k + cap) % cap = i
    BY <1>1, <2>1, Sizes, Division
  <2>3. PosOf(k + cap) = (a + 1) * one_lap + i
    BY <2>2 DEF PosOf
  <2>4. (a + 1) * one_lap + i = (a * one_lap + i) + one_lap
    BY <1>1, Sizes
  <2>. QED
    BY <1>2, <2>3, <2>4
<1>7. CASE i + 1 < cap
  <2>1. k + 1 = a * cap + (i + 1) /\ i + 1 \in Nat
    BY <1>1, Sizes
  <2>2. (k + 1) \div cap = a /\ (k + 1) % cap = i + 1
    BY <1>1, <1>7, <2>1, Sizes, Division
  <2>3. PosOf(k + 1) = a * one_lap + (i + 1)
    BY <2>2 DEF PosOf
  <2>4. a * one_lap + (i + 1) = (a * one_lap + i) + 1
    BY <1>1, Sizes
  <2>5. Advance(PosOf(k)) = PosOf(k) + 1
    BY <1>3, <1>7 DEF Advance
  <2>. QED
    BY <1>2, <1>6, <2>3, <2>4, <2>5
<1>8. CASE ~(i + 1 < cap)
  <2>1. k + 1 = (a + 1) * cap + 0 /\ a + 1 \in Nat
    BY <1>1, <1>8, Sizes
  <2> DEFINE n == k + 1
             q == a + 1
  <2>2. n \div cap = q /\ n % cap = 0
    <3>1. n = q * cap + 0 /\ q \in Nat
      BY <2>1
    <3> HIDE DEF n, q
    <3>. QED
      BY <3>1, Sizes, Quotient
  <2>3. PosOf(k + 1) = (a + 1) * one_lap + 0
    BY <2>2 DEF PosOf
  <2>4. (a + 1) * one_lap + 0 = a * one_lap + one_lap
    BY <1>1, Sizes
  <2>5. Advance(PosOf(k)) = Lap(PosOf(k)) + one_lap
    BY <1>3, <1>8 DEF Advance
  <2>. QED
    BY <1>5, <1>6, <2>3, <2>4, <2>5
<1>. QED
  BY <1>7, <1>8, <1>6

(* Turns that share a slot are a lap apart, and a stamp that says that the *)
(* message of one is there is the position of none.                        *)
LEMMA SharedSlot ==
  ASSUME NEW k \in Nat, NEW j \in Nat
  PROVE  /\ (k + cap) % cap = k % cap
         /\ k % cap = j % cap => (k < j => k + cap <= j) /\ PosOf(k) + 1 # PosOf(j)
<1> DEFINE a == k \div cap
           i == k % cap
           b == j \div cap
           h == j % cap
<1>1. /\ a \in Nat /\ i \in Nat /\ i < cap /\ k = a * cap + i
      /\ b \in Nat /\ h \in Nat /\ h < cap /\ j = b * cap + h
  BY TurnParts
<1>2. PosOf(k) = a * one_lap + i /\ PosOf(j) = b * one_lap + h
  BY DEF PosOf
<1> HIDE DEF a, i, b, h
<1>3. (k + cap) % cap = i
  <2>1. k + cap = (a + 1) * cap + i /\ a + 1 \in Nat
    BY <1>1, Sizes
  <2>. QED
    BY <1>1, <2>1, Sizes, Division
<1>4. ASSUME i = h, k < j PROVE k + cap <= j
  <2>1. a < b
    <3>1. a * cap < b * cap
      BY <1>1, <1>4, Sizes
    <3>2. b <= a => b * cap <= a * cap
      BY <1>1, Sizes
    <3>. QED
      BY <1>1, <3>1, <3>2, Sizes
  <2>2. (a + 1) * cap <= b * cap
    BY <1>1, <2>1, Sizes
  <2>3. (a + 1) * cap = a * cap + cap
    BY <1>1, Sizes
  <2>. QED
    BY <1>1, <1>4, <2>2, <2>3, Sizes
<1>5. ASSUME i = h, PosOf(k) + 1 = PosOf(j) PROVE FALSE
  <2>1. one_lap > 2
    BY Sizes
  <2>2. a * one_lap \in Nat /\ b * one_lap \in Nat
    BY <1>1, Sizes
  <2>3. a * one_lap + 1 = b * one_lap
    BY <1>1, <1>2, <1>5, <2>2
  <2>4. CASE b <= a
    <3>1. b * one_lap <= a * one_lap
      BY <1>1, <2>4, Sizes
    <3>. QED
      BY <2>2, <2>3, <3>1
  <2>5. CASE a + 1 <= b
    <3>1. (a + 1) * one_lap <= b * one_lap
      BY <1>1, <2>5, Sizes
    <3>2. (a + 1) * one_lap = a * one_lap + one_lap
      BY <1>1, Sizes
    <3>. QED
      BY <2>1, <2>2, <2>3, <3>1, <3>2, Sizes
  <2>. QED
    BY <1>1, <2>4, <2>5
<1>. QED
  BY <1>3, <1>4, <1>5 DEF i, h

-----------------------------------------------------------------------------
(* Positions and slots in a state of the channel.                          *)
LEMMA OrdinalType == \A p \in Nat : Ordinal(p) \in Nat
<1> SUFFICES ASSUME NEW p \in Nat PROVE Ordinal(p) \in Nat
  OBVIOUS
<1>1. p \div one_lap \in Nat /\ p % mark_bit \in Nat
  <2>1. one_lap \in Nat \ {0} /\ mark_bit \in Nat \ {0}
    BY Sizes
  <2>. QED
    BY <2>1, Division
<1> DEFINE a == p \div one_lap
           i == p % mark_bit
<1>2. a \in Nat /\ i \in Nat
  BY <1>1
<1> HIDE DEF a, i
<1>3. a * cap + i \in Nat
  BY <1>2, Sizes
<1>. QED
  BY <1>3 DEF Ordinal, Index, a, i

LEMMA UnmarkType ==
  ASSUME NEW p \in Nat
  PROVE  Unmark(p) \in Nat
<1>1. Marked(p) => p >= mark_bit
  <2> SUFFICES ASSUME p < mark_bit PROVE ~Marked(p)
    BY Sizes
  <2>1. p = 0 * mark_bit + p
    BY Sizes
  <2>2. p \div mark_bit = 0
    BY <2>1, Sizes, Quotient
  <2>. QED
    BY <2>2 DEF Marked
<1>. QED
  BY <1>1, Sizes DEF Unmark

LEMMA PosFacts ==
  ASSUME ChanTypeOK, PositionsOK
  PROVE  /\ Sent \in Nat /\ Received \in Nat /\ Dropped \in Nat /\ First \in Nat
         /\ Unmark(tail) = PosOf(Sent) /\ head = PosOf(Received) /\ dhead = PosOf(Dropped)
         /\ ~Marked(tail) <=> tail = PosOf(Sent)
         /\ Marked(tail) => tail = PosOf(Sent) + mark_bit
         /\ First = Received \/ First = Dropped
<1>1. Sent \in Nat /\ Received \in Nat /\ Dropped \in Nat
  BY OrdinalType, UnmarkType DEF ChanTypeOK, Sent, Received, Dropped
<1>2. Unmark(tail) = PosOf(Sent) /\ head = PosOf(Received) /\ dhead = PosOf(Dropped)
  BY DEF PositionsOK, IsPos, Sent, Received, Dropped
<1>3. First = Received \/ First = Dropped
  BY DEF First, Received, Dropped
<1>4. CASE tail = Unmark(tail)
  <2>1. tail = PosOf(Sent) /\ ~Marked(PosOf(Sent))
    BY <1>1, <1>2, <1>4, PosParts
  <2>. QED
    BY <1>1, <1>2, <1>3, <2>1
<1>5. CASE tail = Unmark(tail) + mark_bit
  <2>1. tail = PosOf(Sent) + mark_bit /\ Marked(PosOf(Sent) + mark_bit) /\ ~Marked(PosOf(Sent))
    BY <1>1, <1>2, <1>5, PosParts
  <2>. QED
    BY <1>1, <1>2, <1>3, <2>1
<1>. QED
  BY <1>4, <1>5 DEF PositionsOK

LEMMA TurnPos ==
  ASSUME ChanTypeOK, NEW t \in Threads
  PROVE  /\ Turn(t) \in Nat
         /\ IsPos(pos[t]) => /\ pos[t] = PosOf(Turn(t)) /\ Index(pos[t]) = Turn(t) % cap
                             /\ buffer[Index(pos[t])] = Slot(Turn(t))
<1>1. Turn(t) \in Nat
  BY OrdinalType DEF ChanTypeOK, Turn
<1>2. ASSUME IsPos(pos[t]) PROVE pos[t] = PosOf(Turn(t))
  BY <1>2 DEF IsPos, Turn
<1>. QED
  BY <1>1, <1>2, PosParts DEF Slot

(* What a position that has just been loaded is worth.                     *)
LEMMA PosIsPos == \A k \in Nat : IsPos(PosOf(k))
  BY PosParts DEF IsPos

LEMMA SlotType ==
  ASSUME ChanTypeOK, NEW k \in Nat
  PROVE  Slot(k) \in [stamp : Nat, msg : Msgs] /\ k % cap \in DOMAIN buffer
  BY TurnParts DEF ChanTypeOK, Slot

(* The threads that own a slot.                                            *)
LEMMA OwnersTurn ==
  ASSUME ChanTypeOK, RingInv, NEW t \in Threads, pc[t] \in Writing \cup Taking
  PROVE  /\ IsPos(pos[t]) /\ Turn(t) \in Nat /\ Index(pos[t]) = Turn(t) % cap
         /\ pos[t] = PosOf(Turn(t)) /\ buffer[Index(pos[t])] = Slot(Turn(t))
         /\ pc[t] \in Writing => /\ Slot(Turn(t)).stamp = PosOf(Turn(t))
                                 /\ First <= Turn(t) /\ Turn(t) < Sent
         /\ pc[t] \in Taking => /\ Slot(Turn(t)).stamp = PosOf(Turn(t)) + 1
                                /\ Sent <= Turn(t) + cap /\ Turn(t) < Received
<1>1. SendTurnOK(t) /\ RecvTurnOK(t)
  BY DEF RingInv, TurnsOK
<1>2. CASE pc[t] \in Writing
  <2>1. pc[t] \notin Taking
    BY <1>2 DEF Writing, Taking
  <2>. QED
    BY <1>1, <1>2, <2>1, TurnPos DEF SendTurnOK
<1>3. CASE pc[t] \in Taking
  <2>1. pc[t] \notin Writing
    BY <1>3 DEF Writing, Taking
  <2>. QED
    BY <1>1, <1>3, <2>1, TurnPos DEF RecvTurnOK
<1>. QED
  BY <1>2, <1>3

(* The stamp of a slot tells whose turn it is: a thread that owns the slot *)
(* has the turn of the stamp, and is a sender or a receiver as it says.    *)
LEMMA StampTells ==
  ASSUME ChanTypeOK, RingInv, NEW t \in Threads, pc[t] \in Writing \cup Taking,
         NEW k \in Nat, Turn(t) % cap = k % cap
  PROVE  /\ Slot(k).stamp = PosOf(k) => pc[t] \in Writing /\ Turn(t) = k
         /\ Slot(k).stamp = PosOf(k) + 1 => pc[t] \in Taking /\ Turn(t) = k
<1> DEFINE j == Turn(t)
<1>1. Slot(j) = Slot(k)
  BY DEF Slot
<1>2. /\ j \in Nat /\ j % cap = k % cap
      /\ pc[t] \in Writing => Slot(j).stamp = PosOf(j)
      /\ pc[t] \in Taking => Slot(j).stamp = PosOf(j) + 1
  BY OwnersTurn
<1> HIDE DEF j
<1>3. PosOf(k) \in Nat /\ PosOf(j) \in Nat
  BY <1>2, PosParts
<1>4. j \in Nat /\ j % cap = k % cap
  BY <1>2
<1>5. PosOf(k) + 1 # PosOf(j) /\ PosOf(j) + 1 # PosOf(k)
  BY <1>4, SharedSlot
<1>6. PosOf(k) = PosOf(j) => k = j
  BY <1>4, PosInjective
<1>7. PosOf(k) + 1 = PosOf(j) + 1 => k = j
  BY <1>3, <1>6
<1>. QED
  BY <1>1, <1>2, <1>5, <1>6, <1>7 DEF j

(* Two threads that own slots own different ones.                          *)
LEMMA OwnersApart ==
  ASSUME ChanTypeOK, RingInv, NEW t \in Threads, NEW u \in Threads,
         pc[t] \in Writing \cup Taking, pc[u] \in Writing \cup Taking,
         Turn(t) % cap = Turn(u) % cap
  PROVE  t = u
<1>1. Turn(t) \in Nat /\ Turn(u) \in Nat
  BY TurnPos
<1>2. Slot(Turn(u)).stamp = PosOf(Turn(u)) \/ Slot(Turn(u)).stamp = PosOf(Turn(u)) + 1
  BY OwnersTurn
<1>3. Turn(t) = Turn(u)
  BY <1>1, <1>2, StampTells
<1>. QED
  BY <1>3 DEF RingInv, TurnsAreTakenOnce, At

(* The stamp of the slot of the next send says whether it is free, and of  *)
(* the next receive whether its message is there.                          *)
LEMMA NextSendStamp ==
  ASSUME ChanTypeOK, RingInv
  PROVE  /\ Slot(Sent).stamp = PosOf(Sent) => Sent < Received + cap /\ Slot(Sent).msg = NoMsg
         /\ Slot(Sent).stamp # PosOf(Sent) + 1
<1>1. /\ Sent \in Nat /\ Received \in Nat /\ PosOf(Sent) \in Nat
      /\ Received <= Sent /\ Sent <= Received + cap
  BY PosFacts, PosParts DEF RingInv, PositionsOK
<1>2. CASE Sent = Received + cap
  <2>1. Received \in Received..(Sent - 1) /\ Received # Sent
    BY <1>1, <1>2, Sizes
  <2>2. Received % cap = Sent % cap /\ Slot(Received) = Slot(Sent)
    BY <1>1, <1>2, SharedSlot DEF Slot
  <2>3. PosOf(Received) + 1 # PosOf(Sent) /\ PosOf(Sent) + 1 # PosOf(Received)
    BY <1>1, <2>2, SharedSlot
  <2>4. PosOf(Received) # PosOf(Sent) /\ PosOf(Received) + 1 # PosOf(Sent) + 1
    BY <1>1, <2>1, PosInjective, PosParts
  <2>5. CASE Slot(Received).stamp = PosOf(Received) + 1
    BY <2>2, <2>3, <2>4, <2>5
  <2>6. CASE \E t \in At(Writing) : Turn(t) = Received
    <3>1. PICK t \in Threads : pc[t] \in Writing /\ Turn(t) = Received
      BY <2>6 DEF At
    <3>2. Slot(Received).stamp = PosOf(Received)
      BY <3>1, OwnersTurn
    <3>. QED
      BY <2>2, <2>3, <2>4, <3>2
  <2>. QED
    BY <2>1, <2>5, <2>6 DEF RingInv, FullSlots
<1>3. CASE Sent < Received + cap
  <2>1. Sent \in Sent..(Received + cap - 1)
    BY <1>1, <1>3, Sizes
  <2>2. CASE Slot(Sent).stamp = PosOf(Sent) /\ Slot(Sent).msg = NoMsg
    BY <1>1, <1>3, <2>2
  <2>3. CASE \E t \in At(Taking) : Turn(t) + cap = Sent
    <3>1. PICK t \in Threads : pc[t] \in Taking /\ Turn(t) + cap = Sent
      BY <2>3 DEF At
    <3>2. Turn(t) \in Nat /\ Turn(t) < Received
      BY <3>1, OwnersTurn
    <3>3. Turn(t) % cap = Sent % cap /\ pc[t] \notin Writing /\ Turn(t) # Sent
      BY <1>1, <3>1, <3>2, SharedSlot DEF Writing, Taking
    <3>. QED
      BY <1>1, <3>1, <3>3, StampTells
  <2>. QED
    BY <2>1, <2>2, <2>3 DEF RingInv, FreeSlots
<1>. QED
  BY <1>1, <1>2, <1>3, Sizes

LEMMA NextRecvStamp ==
  ASSUME ChanTypeOK, RingInv, NEW k \in Nat, Received <= k, k <= Sent,
         Slot(k).stamp = PosOf(k) + 1
  PROVE  k < Sent /\ (First <= k => Slot(k).msg # NoMsg)
<1>1. Sent \in Nat /\ Received \in Nat /\ Received <= Sent /\ Sent <= Received + cap
  BY PosFacts DEF RingInv, PositionsOK
<1>2. k # Sent
  BY NextSendStamp
<1>3. k \in Received..(Sent - 1)
  BY <1>1, <1>2
<1>4. ASSUME NEW t \in Threads, pc[t] \in Writing, Turn(t) = k PROVE FALSE
  BY <1>4, StampTells DEF Writing, Taking
<1>. QED
  BY <1>1, <1>2, <1>3, <1>4 DEF RingInv, FullSlots, At

-----------------------------------------------------------------------------
(* Steps and the ring. A step of thread t leaves the other threads alone.  *)
OthersSame(t) == \A u \in Threads \ {t} : pc'[u] = pc[u] /\ pos'[u] = pos[u] /\ calls'[u] = calls[u]

TurnOK(t) == SendTurnOK(t) /\ RecvTurnOK(t) /\ CheckOK(t)

(* What a thread knows of its turn stays true as long as the sends and     *)
(* receives that others make do not disturb it.                            *)
LEMMA TurnKept ==
  ASSUME ChanTypeOK, RingInv, NEW u \in Threads,
         pc'[u] = pc[u], pos'[u] = pos[u], calls'[u] = calls[u],
         Sent' \in Nat, Received' \in Nat, Sent <= Sent', Received <= Received',
         pc[u] \in Writing => First' <= Turn(u),
         pc[u] \in Taking => Sent' <= Turn(u) + cap,
         pc[u] \in Writing \cup Taking => buffer'[Turn(u) % cap] = buffer[Turn(u) % cap],
         pc[u] = "s_cas" /\ Turn(u) = Sent /\ Sent' = Sent =>
            buffer'[Sent % cap].stamp = buffer[Sent % cap].stamp,
         pc[u] = "r_cas" /\ Turn(u) = Received /\ Received' = Received =>
            buffer'[Received % cap].stamp = buffer[Received % cap].stamp
  PROVE  TurnOK(u)'
<1>1. /\ Turn(u)' = Turn(u) /\ Message(u)' = Message(u)
      /\ IsPos(pos[u])' <=> IsPos(pos[u])
  BY DEF Turn, Message, IsPos
<1>2. SendTurnOK(u) /\ RecvTurnOK(u) /\ CheckOK(u)
  BY DEF RingInv, TurnsOK
<1>3. Sent \in Nat /\ Received \in Nat /\ Turn(u) \in Nat
  BY PosFacts, TurnPos DEF RingInv
<1>4. SendTurnOK(u)'
  <2>1. ASSUME pc[u] \in {"s_stamp", "s_cas", "s_head"} PROVE IsPos(pos[u]) /\ Turn(u) <= Sent'
    BY <1>2, <1>3, <2>1 DEF SendTurnOK
  <2>2. ASSUME pc[u] = "s_cas", Turn(u) = Sent' PROVE buffer'[Sent' % cap].stamp = PosOf(Sent')
    <3>1. Turn(u) <= Sent
      BY <1>2, <2>2 DEF SendTurnOK
    <3>2. Sent' = Sent
      BY <1>3, <2>2, <3>1
    <3>. QED
      BY <1>2, <2>2, <3>2 DEF SendTurnOK, Slot
  <2>3. ASSUME pc[u] \in Writing
        PROVE  /\ IsPos(pos[u]) /\ First' <= Turn(u) /\ Turn(u) < Sent'
               /\ buffer'[Turn(u) % cap].stamp = PosOf(Turn(u))
               /\ buffer'[Turn(u) % cap].msg = IF pc[u] = "s_write" THEN NoMsg ELSE Message(u)
    BY <1>2, <1>3, <2>3 DEF SendTurnOK, Slot
  <2>. QED
    BY <1>1, <2>1, <2>2, <2>3 DEF SendTurnOK, Slot
<1>5. RecvTurnOK(u)'
  <2>1. ASSUME pc[u] \in {"r_stamp", "r_cas", "r_tail"} PROVE IsPos(pos[u]) /\ Turn(u) <= Received'
    BY <1>2, <1>3, <2>1 DEF RecvTurnOK
  <2>2. ASSUME pc[u] = "r_cas", Turn(u) = Received'
        PROVE  buffer'[Received' % cap].stamp = PosOf(Received') + 1
    <3>1. Turn(u) <= Received
      BY <1>2, <2>2 DEF RecvTurnOK
    <3>2. Received' = Received
      BY <1>3, <2>2, <3>1
    <3>. QED
      BY <1>2, <2>2, <3>2 DEF RecvTurnOK, Slot
  <2>3. ASSUME pc[u] \in Taking
        PROVE  /\ IsPos(pos[u]) /\ Sent' <= Turn(u) + cap /\ Turn(u) < Received'
               /\ buffer'[Turn(u) % cap].stamp = PosOf(Turn(u)) + 1
               /\ pc[u] = "r_read" <=> buffer'[Turn(u) % cap].msg # NoMsg
    BY <1>2, <1>3, <2>3 DEF RecvTurnOK, Slot
  <2>. QED
    BY <1>1, <2>1, <2>2, <2>3 DEF RecvTurnOK, Slot
<1>6. CheckOK(u)'
  BY <1>1, <1>2, <1>3 DEF CheckOK
<1>. QED
  BY <1>4, <1>5, <1>6 DEF TurnOK

(* A step that moves neither end, and of a thread that owns no slot.       *)
LEMMA RingQuiet ==
  ASSUME ChanTypeOK, RingInv, NEW t \in Threads, OthersSame(t),
         pc[t] \notin Writing \cup Taking, pc'[t] \notin Writing \cup Taking,
         buffer' = buffer, Sent' = Sent, Received' = Received, First' = First,
         PositionsOK', TurnOK(t)'
  PROVE  RingInv'
<1>1. Sent \in Nat /\ Received \in Nat
  BY PosFacts DEF RingInv
<1>2. \A u \in Threads \ {t} : pc'[u] = pc[u] /\ pos'[u] = pos[u] /\ calls'[u] = calls[u] /\ Turn(u)' = Turn(u)
  BY DEF OthersSame, Turn
<1>3. ASSUME NEW u \in Threads PROVE TurnOK(u)'
  <2>1. CASE u = t
    BY <2>1
  <2>2. CASE u # t
    <3>1. /\ pc[u] \in Writing => First' <= Turn(u)
          /\ pc[u] \in Taking => Sent' <= Turn(u) + cap
      BY OwnersTurn
    <3>. QED
      BY <1>1, <1>2, <2>2, <3>1, TurnKept
  <2>. QED
    BY <2>1, <2>2
<1>4. TurnsOK'
  BY <1>3 DEF TurnsOK, TurnOK
<1>5. \A u \in Threads : pc[u] \in Writing \cup Taking \/ pc'[u] \in Writing \cup Taking =>
         pc'[u] = pc[u] /\ Turn(u)' = Turn(u)
  BY <1>2
<1>6. FullSlots'
  <2> SUFFICES ASSUME NEW k \in Received..(Sent - 1)
               PROVE  \/ /\ buffer[k % cap].stamp = PosOf(k) + 1
                         /\ First <= k => buffer[k % cap].msg # NoMsg
                      \/ \E u \in At(Writing)' : Turn(u)' = k
    BY DEF FullSlots, Slot
  <2>1. CASE \E u \in At(Writing) : Turn(u) = k
    BY <1>5, <2>1 DEF At
  <2>. QED
    BY <2>1 DEF RingInv, FullSlots, Slot
<1>7. FreeSlots'
  <2> SUFFICES ASSUME NEW k \in Sent..(Received + cap - 1)
               PROVE  \/ buffer[k % cap].stamp = PosOf(k) /\ buffer[k % cap].msg = NoMsg
                      \/ \E u \in At(Taking)' : Turn(u)' + cap = k
    BY DEF FreeSlots, Slot
  <2>1. CASE \E u \in At(Taking) : Turn(u) + cap = k
    BY <1>5, <2>1 DEF At
  <2>. QED
    BY <2>1 DEF RingInv, FreeSlots, Slot
<1>8. TurnsAreTakenOnce'
  BY <1>5 DEF RingInv, TurnsAreTakenOnce, At
<1>. QED
  BY <1>4, <1>6, <1>7, <1>8 DEF RingInv

(* A step of a thread that owns a slot changes that slot, and nothing else *)
(* of the ring.                                                            *)
LEMMA RingOwner ==
  ASSUME ChanTypeOK, RingInv, NEW t \in Threads, OthersSame(t), pos'[t] = pos[t],
         pc[t] \in Writing \cup Taking,
         UNCHANGED <<head, tail, dhead>>, First' = First, TurnOK(t)',
         \A i \in 0..(cap - 1) : i # Turn(t) % cap => buffer'[i] = buffer[i],
         pc[t] \in Writing => \/ pc'[t] \in Writing
                              \/ /\ pc'[t] \notin Writing \cup Taking
                                 /\ buffer'[Turn(t) % cap].stamp = PosOf(Turn(t)) + 1
                                 /\ buffer'[Turn(t) % cap].msg # NoMsg,
         pc[t] \in Taking => \/ pc'[t] \in Taking
                             \/ /\ pc'[t] \notin Writing \cup Taking
                                /\ buffer'[Turn(t) % cap].stamp = PosOf(Turn(t) + cap)
                                /\ buffer'[Turn(t) % cap].msg = NoMsg
  PROVE  RingInv'
<1>1. /\ Sent \in Nat /\ Received \in Nat /\ Turn(t) \in Nat
      /\ Sent' = Sent /\ Received' = Received /\ PositionsOK'
  BY PosFacts, TurnPos DEF RingInv, PositionsOK, Sent, Received
<1>2. \A u \in Threads : Turn(u)' = Turn(u)
  BY DEF OthersSame, Turn
<1>3. \A u \in Threads \ {t} : pc'[u] = pc[u] /\ pos'[u] = pos[u] /\ calls'[u] = calls[u]
  BY DEF OthersSame
<1>4. ASSUME NEW k \in Nat, k % cap # Turn(t) % cap PROVE buffer'[k % cap] = buffer[k % cap]
  BY <1>4, TurnParts
<1>5. ASSUME NEW u \in Threads PROVE TurnOK(u)'
  <2>1. CASE u = t
    BY <2>1
  <2>2. CASE u # t
    <3>0. Turn(u) \in Nat
      BY TurnPos
    <3>1. /\ pc[u] \in Writing => First' <= Turn(u)
          /\ pc[u] \in Taking => Sent' <= Turn(u) + cap
      BY <1>1, OwnersTurn
    <3>2. ASSUME pc[u] \in Writing \cup Taking
          PROVE  buffer'[Turn(u) % cap] = buffer[Turn(u) % cap]
      <4>1. Turn(u) % cap # Turn(t) % cap
        BY <2>2, <3>2, OwnersApart
      <4>. QED
        BY <1>4, <3>0, <4>1
    <3>3. ASSUME pc[u] = "s_cas", Turn(u) = Sent PROVE buffer'[Sent % cap] = buffer[Sent % cap]
      <4>1. Slot(Sent).stamp = PosOf(Sent)
        BY <3>3 DEF RingInv, TurnsOK, SendTurnOK
      <4>2. ASSUME Turn(t) % cap = Sent % cap PROVE FALSE
        <5>1. pc[t] \in Writing /\ Turn(t) = Sent
          BY <1>1, <4>1, <4>2, StampTells
        <5>. QED
          BY <1>1, <5>1, OwnersTurn
      <4>. QED
        BY <1>1, <1>4, <4>2
    <3>4. ASSUME pc[u] = "r_cas", Turn(u) = Received
          PROVE  buffer'[Received % cap] = buffer[Received % cap]
      <4>1. Slot(Received).stamp = PosOf(Received) + 1
        BY <3>4 DEF RingInv, TurnsOK, RecvTurnOK
      <4>2. ASSUME Turn(t) % cap = Received % cap PROVE FALSE
        <5>1. pc[t] \in Taking /\ Turn(t) = Received
          BY <1>1, <4>1, <4>2, StampTells
        <5>. QED
          BY <1>1, <5>1, OwnersTurn
      <4>. QED
        BY <1>1, <1>4, <4>2
    <3>. QED
      BY <1>1, <1>3, <2>2, <3>1, <3>2, <3>3, <3>4, TurnKept
  <2>. QED
    BY <2>1, <2>2
<1>6. TurnsOK'
  BY <1>5 DEF TurnsOK, TurnOK
<1>7. FullSlots'
  <2> SUFFICES ASSUME NEW k \in Received..(Sent - 1)
               PROVE  \/ /\ buffer'[k % cap].stamp = PosOf(k) + 1
                         /\ First <= k => buffer'[k % cap].msg # NoMsg
                      \/ \E u \in At(Writing)' : Turn(u) = k
    BY <1>1, <1>2 DEF FullSlots, Slot, At
  <2>0. k \in Nat /\ Received <= k
    BY <1>1
  <2>1. CASE \E u \in At(Writing) : Turn(u) = k
    <3>1. PICK u \in Threads : pc[u] \in Writing /\ Turn(u) = k
      BY <2>1 DEF At
    <3>2. CASE u # t \/ pc'[t] \in Writing
      BY <1>3, <3>1, <3>2 DEF At
    <3>3. CASE u = t /\ pc'[t] \notin Writing
      BY <3>1, <3>3
    <3>. QED
      BY <3>2, <3>3
  <2>2. CASE Slot(k).stamp = PosOf(k) + 1 /\ (First <= k => Slot(k).msg # NoMsg)
    <3>1. ASSUME Turn(t) % cap = k % cap PROVE FALSE
      <4>1. pc[t] \in Taking /\ Turn(t) = k
        BY <2>0, <2>2, <3>1, StampTells
      <4>. QED
        BY <1>1, <2>0, <4>1, OwnersTurn
    <3>. QED
      BY <1>4, <2>0, <2>2, <3>1 DEF Slot
  <2>. QED
    BY <2>1, <2>2 DEF RingInv, FullSlots
<1>8. FreeSlots'
  <2> SUFFICES ASSUME NEW k \in Sent..(Received + cap - 1)
               PROVE  \/ buffer'[k % cap].stamp = PosOf(k) /\ buffer'[k % cap].msg = NoMsg
                      \/ \E u \in At(Taking)' : Turn(u) + cap = k
    BY <1>1, <1>2 DEF FreeSlots, Slot, At
  <2>0. k \in Nat /\ Sent <= k
    BY <1>1
  <2>1. CASE \E u \in At(Taking) : Turn(u) + cap = k
    <3>1. PICK u \in Threads : pc[u] \in Taking /\ Turn(u) + cap = k
      BY <2>1 DEF At
    <3>2. CASE u # t \/ pc'[t] \in Taking
      BY <1>3, <3>1, <3>2 DEF At
    <3>3. CASE u = t /\ pc'[t] \notin Taking
      <4>1. k % cap = Turn(t) % cap
        BY <1>1, <3>1, <3>3, SharedSlot
      <4>. QED
        BY <3>1, <3>3, <4>1
    <3>. QED
      BY <3>2, <3>3
  <2>2. CASE Slot(k).stamp = PosOf(k) /\ Slot(k).msg = NoMsg
    <3>1. ASSUME Turn(t) % cap = k % cap PROVE FALSE
      <4>1. pc[t] \in Writing /\ Turn(t) = k
        BY <2>0, <2>2, <3>1, StampTells
      <4>. QED
        BY <1>1, <2>0, <4>1, OwnersTurn
    <3>. QED
      BY <1>4, <2>0, <2>2, <3>1 DEF Slot
  <2>. QED
    BY <2>1, <2>2 DEF RingInv, FreeSlots
<1>9. TurnsAreTakenOnce'
  <2>1. \A u \in Threads : pc'[u] \in Writing \cup Taking => pc[u] \in Writing \cup Taking
    BY <1>3
  <2>. QED
    BY <1>2, <2>1 DEF RingInv, TurnsAreTakenOnce, At
<1>. QED
  BY <1>1, <1>6, <1>7, <1>8, <1>9 DEF RingInv

(* A sender takes the next turn: the slot is free, and it owns it now.     *)
LEMMA RingSend ==
  ASSUME ChanTypeOK, RingInv, NEW t \in Threads, OthersSame(t), pos'[t] = pos[t],
         pc[t] = "s_cas", pc'[t] = "s_write", tail = pos[t], tail' = Advance(pos[t]),
         UNCHANGED <<head, dhead, buffer>>, First' = First, First <= Sent
  PROVE  RingInv' /\ Sent' = Sent + 1 /\ Turn(t) = Sent /\ ~Marked(tail) /\ ~Marked(tail')
<1>1. IsPos(pos[t]) /\ (Turn(t) = Sent => Slot(Sent).stamp = PosOf(Sent))
  BY DEF RingInv, TurnsOK, SendTurnOK
<1>2. Turn(t) \in Nat /\ pos[t] = PosOf(Turn(t))
  BY <1>1, TurnPos
<1>3. Unmark(tail) = tail /\ ~Marked(tail)
  BY <1>2, PosParts
<1>4. Turn(t) = Sent
  BY <1>3 DEF Turn, Sent
<1>5. tail' = PosOf(Sent + 1) /\ Sent \in Nat /\ Received \in Nat
  BY <1>2, <1>4, PosAdvance, PosFacts DEF RingInv
<1>6. Sent + 1 \in Nat
  BY <1>5
<1>7. Unmark(tail') = tail' /\ ~Marked(tail') /\ Ordinal(tail') = Sent + 1 /\ IsPos(tail')
  BY <1>5, <1>6, PosParts, PosIsPos
<1>8. Sent' = Sent + 1 /\ Received' = Received
  BY <1>7 DEF Sent, Received
<1>9. Slot(Sent).stamp = PosOf(Sent) /\ Sent < Received + cap /\ Slot(Sent).msg = NoMsg
  BY <1>1, <1>4, NextSendStamp
<1>10. PositionsOK'
  BY <1>5, <1>7, <1>8, <1>9, Sizes DEF RingInv, PositionsOK
<1>11. /\ \A u \in Threads : Turn(u)' = Turn(u)
       /\ \A u \in Threads \ {t} : pc'[u] = pc[u] /\ pos'[u] = pos[u] /\ calls'[u] = calls[u]
  BY DEF OthersSame, Turn
<1>12. ASSUME NEW u \in Threads, pc[u] \in Taking PROVE Turn(u) + cap # Sent
  <2> SUFFICES ASSUME Turn(u) + cap = Sent PROVE FALSE
    OBVIOUS
  <2>1. Turn(u) \in Nat /\ Turn(u) % cap = Sent % cap
    BY <1>5, TurnPos, SharedSlot
  <2>2. pc[u] \in Writing
    BY <1>5, <1>9, <1>12, <2>1, StampTells
  <2>. QED
    BY <1>12, <2>2 DEF Writing, Taking
<1>13. ASSUME NEW u \in Threads PROVE TurnOK(u)'
  <2>1. CASE u = t
    <3>1. /\ pc'[t] = "s_write" /\ IsPos(pos[t])' /\ Turn(t)' = Sent
          /\ buffer'[Turn(t)' % cap] = Slot(Sent)
      BY <1>1, <1>4, <1>11 DEF IsPos, Slot
    <3>2. First' <= Turn(t)' /\ Turn(t)' < Sent'
      BY <1>5, <1>8, <3>1
    <3>. QED
      BY <1>9, <2>1, <3>1, <3>2 DEF TurnOK, SendTurnOK, RecvTurnOK, CheckOK, Slot, Taking
  <2>2. CASE u # t
    <3>1. /\ pc[u] \in Writing => First' <= Turn(u)
          /\ pc[u] \in Taking => Sent <= Turn(u) + cap /\ Turn(u) \in Nat
      BY OwnersTurn
    <3>2. pc[u] \in Taking => Sent' <= Turn(u) + cap
      BY <1>5, <1>8, <1>12, <3>1, Sizes
    <3>3. Sent' \in Nat /\ Received' \in Nat /\ Sent <= Sent' /\ Received <= Received'
      BY <1>5, <1>8
    <3>. QED
      BY <1>11, <2>2, <3>1, <3>2, <3>3, TurnKept
  <2>. QED
    BY <2>1, <2>2
<1>14. TurnsOK'
  BY <1>13 DEF TurnsOK, TurnOK
<1>15. \A u \in Threads : pc[u] \in Writing \cup Taking => u # t /\ pc'[u] = pc[u]
  BY <1>11 DEF Writing, Taking
<1>16. FullSlots'
  <2> SUFFICES ASSUME NEW k \in Received..((Sent + 1) - 1)
               PROVE  \/ /\ buffer[k % cap].stamp = PosOf(k) + 1
                         /\ First <= k => buffer[k % cap].msg # NoMsg
                      \/ \E u \in At(Writing)' : Turn(u) = k
    BY <1>8, <1>11 DEF FullSlots, Slot, At
  <2>1. CASE k = Sent
    BY <1>4, <2>1 DEF At, Writing
  <2>2. CASE k # Sent
    <3>1. k \in Received..(Sent - 1)
      BY <1>5, <2>2
    <3>. QED
      BY <1>15, <3>1 DEF RingInv, FullSlots, Slot, At
  <2>. QED
    BY <2>1, <2>2
<1>17. FreeSlots'
  <2> SUFFICES ASSUME NEW k \in (Sent + 1)..(Received + cap - 1)
               PROVE  \/ buffer[k % cap].stamp = PosOf(k) /\ buffer[k % cap].msg = NoMsg
                      \/ \E u \in At(Taking)' : Turn(u) + cap = k
    BY <1>8, <1>11 DEF FreeSlots, Slot, At
  <2>1. k \in Sent..(Received + cap - 1)
    BY <1>5
  <2>. QED
    BY <1>15, <2>1 DEF RingInv, FreeSlots, Slot, At
<1>18. TurnsAreTakenOnce'
  <2>1. ASSUME NEW u \in Threads, pc[u] \in Writing \cup Taking PROVE Turn(u) # Sent
    BY <1>5, <2>1, OwnersTurn DEF RingInv, PositionsOK
  <2>2. \A u \in Threads : pc'[u] \in Writing \cup Taking => u = t \/ pc[u] \in Writing \cup Taking
    BY <1>11
  <2>. QED
    BY <1>4, <1>11, <2>1, <2>2 DEF RingInv, TurnsAreTakenOnce, At
<1>. QED
  BY <1>3, <1>4, <1>7, <1>8, <1>10, <1>14, <1>16, <1>17, <1>18 DEF RingInv

(* A receiver takes the next turn: the message is there.                   *)
LEMMA RingReceive ==
  ASSUME ChanTypeOK, RingInv, NEW t \in Threads, OthersSame(t), pos'[t] = pos[t],
         pc[t] = "r_cas", pc'[t] = "r_read", head = pos[t], head' = Advance(pos[t]),
         UNCHANGED <<tail, dhead, buffer>>, First = Received, First' = Received'
  PROVE  /\ RingInv' /\ Received' = Received + 1 /\ Turn(t) = Received
         /\ Slot(Received).stamp = PosOf(Received) + 1 /\ Received < Sent
<1>1. IsPos(pos[t]) /\ (Turn(t) = Received => Slot(Received).stamp = PosOf(Received) + 1)
  BY DEF RingInv, TurnsOK, RecvTurnOK
<1>2. Turn(t) = Received
  BY DEF Turn, Received
<1>3. /\ Sent \in Nat /\ Received \in Nat /\ head = PosOf(Received)
      /\ Received <= Sent /\ Sent <= Received + cap
  BY PosFacts DEF RingInv, PositionsOK
<1>4. head' = PosOf(Received + 1) /\ Received + 1 \in Nat
  BY <1>3, PosAdvance
<1>5. Received' = Received + 1 /\ Sent' = Sent /\ IsPos(head')
  BY <1>4, PosParts, PosIsPos DEF Received, Sent
<1>6. Slot(Received).stamp = PosOf(Received) + 1 /\ Received < Sent /\ Slot(Received).msg # NoMsg
  BY <1>1, <1>2, <1>3, NextRecvStamp
<1>7. PositionsOK'
  <2>1. Received + 1 <= Sent /\ Sent <= (Received + 1) + cap
    BY <1>3, <1>6, Sizes
  <2>. QED
    BY <1>5, <2>1 DEF RingInv, PositionsOK
<1>8. /\ \A u \in Threads : Turn(u)' = Turn(u)
      /\ \A u \in Threads \ {t} : pc'[u] = pc[u] /\ pos'[u] = pos[u] /\ calls'[u] = calls[u]
  BY DEF OthersSame, Turn
<1>9. ASSUME NEW u \in Threads, pc[u] \in Writing PROVE Turn(u) # Received
  <2> SUFFICES ASSUME Turn(u) = Received PROVE FALSE
    OBVIOUS
  <2>1. pc[u] \in Taking
    BY <1>3, <1>6, <1>9, StampTells
  <2>. QED
    BY <1>9, <2>1 DEF Writing, Taking
<1>10. ASSUME NEW u \in Threads PROVE TurnOK(u)'
  <2>1. CASE u = t
    <3>1. /\ pc'[t] = "r_read" /\ IsPos(pos[t])' /\ Turn(t)' = Received
          /\ buffer'[Turn(t)' % cap] = Slot(Received)
      BY <1>1, <1>2, <1>8 DEF IsPos, Slot
    <3>2. Sent' <= Turn(t)' + cap /\ Turn(t)' < Received'
      BY <1>3, <1>5, <3>1
    <3>. QED
      BY <1>6, <2>1, <3>1, <3>2 DEF TurnOK, SendTurnOK, RecvTurnOK, CheckOK, Slot, Writing
  <2>2. CASE u # t
    <3>1. /\ pc[u] \in Writing => First <= Turn(u) /\ Turn(u) \in Nat
          /\ pc[u] \in Taking => Sent' <= Turn(u) + cap
      BY <1>5, OwnersTurn
    <3>2. pc[u] \in Writing => First' <= Turn(u)
      BY <1>3, <1>5, <1>9, <3>1
    <3>3. Sent' \in Nat /\ Received' \in Nat /\ Sent <= Sent' /\ Received <= Received'
      BY <1>3, <1>5
    <3>. QED
      BY <1>8, <2>2, <3>1, <3>2, <3>3, TurnKept
  <2>. QED
    BY <2>1, <2>2
<1>11. TurnsOK'
  BY <1>10 DEF TurnsOK, TurnOK
<1>12. \A u \in Threads : pc[u] \in Writing \cup Taking => u # t /\ pc'[u] = pc[u]
  BY <1>8 DEF Writing, Taking
<1>13. FullSlots'
  <2> SUFFICES ASSUME NEW k \in (Received + 1)..(Sent - 1)
               PROVE  \/ /\ buffer[k % cap].stamp = PosOf(k) + 1
                         /\ Received + 1 <= k => buffer[k % cap].msg # NoMsg
                      \/ \E u \in At(Writing)' : Turn(u) = k
    BY <1>5, <1>8 DEF FullSlots, Slot, At
  <2>1. k \in Received..(Sent - 1) /\ Received <= k
    BY <1>3
  <2>. QED
    BY <1>12, <2>1 DEF RingInv, FullSlots, Slot, At
<1>14. FreeSlots'
  <2> SUFFICES ASSUME NEW k \in Sent..((Received + 1) + cap - 1)
               PROVE  \/ buffer[k % cap].stamp = PosOf(k) /\ buffer[k % cap].msg = NoMsg
                      \/ \E u \in At(Taking)' : Turn(u) + cap = k
    BY <1>5, <1>8 DEF FreeSlots, Slot, At
  <2>1. CASE k = Received + cap
    BY <1>2, <2>1 DEF At, Taking
  <2>2. CASE k # Received + cap
    <3>1. k \in Sent..(Received + cap - 1)
      BY <1>3, <2>2, Sizes
    <3>. QED
      BY <1>12, <3>1 DEF RingInv, FreeSlots, Slot, At
  <2>. QED
    BY <2>1, <2>2
<1>15. TurnsAreTakenOnce'
  <2>1. ASSUME NEW u \in Threads, pc[u] \in Writing \cup Taking PROVE Turn(u) # Received
    BY <1>3, <1>9, <2>1, OwnersTurn
  <2>2. \A u \in Threads : pc'[u] \in Writing \cup Taking => u = t \/ pc[u] \in Writing \cup Taking
    BY <1>8
  <2>. QED
    BY <1>2, <1>8, <2>1, <2>2 DEF RingInv, TurnsAreTakenOnce, At
<1>. QED
  BY <1>2, <1>5, <1>6, <1>7, <1>11, <1>13, <1>14, <1>15 DEF RingInv

(* The last receiver drops the message that is next.                       *)
LEMMA RingDrop ==
  ASSUME ChanTypeOK, RingInv, UNCHANGED <<head, tail, pc, pos, calls>>,
         First = Dropped, First' = Dropped', Received <= Dropped, Dropped <= Sent,
         buffer[Index(dhead)].stamp = dhead + 1,
         buffer' = [buffer EXCEPT ![Index(dhead)].msg = NoMsg], dhead' = Advance(dhead)
  PROVE  /\ RingInv' /\ Dropped' = Dropped + 1 /\ Dropped < Sent
         /\ Slot(Dropped).stamp = PosOf(Dropped) + 1
<1>1. /\ Sent \in Nat /\ Received \in Nat /\ Dropped \in Nat /\ dhead = PosOf(Dropped)
      /\ Received <= Sent /\ Sent <= Received + cap
  BY PosFacts DEF RingInv, PositionsOK
<1>2. dhead' = PosOf(Dropped + 1) /\ Dropped + 1 \in Nat /\ Index(dhead) = Dropped % cap
  BY <1>1, PosAdvance, PosParts
<1>3. Dropped' = Dropped + 1 /\ IsPos(dhead') /\ Sent' = Sent /\ Received' = Received
  BY <1>2, PosParts, PosIsPos DEF Dropped, Sent, Received
<1>4. Slot(Dropped).stamp = PosOf(Dropped) + 1
  BY <1>1, <1>2 DEF Slot
<1>5. Dropped < Sent
  BY <1>1, <1>4, NextRecvStamp
<1>6. PositionsOK'
  BY <1>3 DEF RingInv, PositionsOK
<1>7. \A u \in Threads : Turn(u)' = Turn(u)
  BY DEF Turn
<1>8. ASSUME NEW k \in Nat
      PROVE  /\ buffer'[k % cap].stamp = buffer[k % cap].stamp
             /\ k % cap # Dropped % cap => buffer'[k % cap] = buffer[k % cap]
  <2>1. k % cap \in 0..(cap - 1) /\ Dropped % cap \in 0..(cap - 1)
    BY <1>1, TurnParts
  <2>2. buffer[Dropped % cap] \in [stamp : Nat, msg : Msgs]
    BY <2>1 DEF ChanTypeOK
  <2>. QED
    BY <1>2, <2>1, <2>2 DEF ChanTypeOK
<1>9. ASSUME NEW u \in Threads, pc[u] \in Writing \cup Taking PROVE Turn(u) % cap # Dropped % cap
  <2> SUFFICES ASSUME Turn(u) % cap = Dropped % cap PROVE FALSE
    OBVIOUS
  <2>1. pc[u] \in Taking /\ Turn(u) = Dropped
    BY <1>1, <1>4, <1>9, StampTells
  <2>. QED
    BY <1>1, <2>1, OwnersTurn
<1>10. ASSUME NEW u \in Threads PROVE TurnOK(u)'
  <2>0. Turn(u) \in Nat
    BY TurnPos
  <2>1. /\ pc[u] \in Writing => First <= Turn(u)
        /\ pc[u] \in Taking => Sent' <= Turn(u) + cap
    BY <1>3, OwnersTurn
  <2>2. pc[u] \in Writing => First' <= Turn(u)
    <3>1. pc[u] \in Writing => Turn(u) # Dropped
      BY <1>9
    <3>. QED
      BY <1>1, <1>3, <2>0, <2>1, <3>1
  <2>3. pc[u] \in Writing \cup Taking => buffer'[Turn(u) % cap] = buffer[Turn(u) % cap]
    BY <1>8, <1>9, <2>0
  <2>4. /\ buffer'[Sent % cap].stamp = buffer[Sent % cap].stamp
        /\ buffer'[Received % cap].stamp = buffer[Received % cap].stamp
    BY <1>1, <1>8
  <2>. QED
    BY <1>1, <1>3, <2>1, <2>2, <2>3, <2>4, TurnKept
<1>11. TurnsOK'
  BY <1>10 DEF TurnsOK, TurnOK
<1>12. FullSlots'
  <2> SUFFICES ASSUME NEW k \in Received..(Sent - 1)
               PROVE  \/ /\ buffer'[k % cap].stamp = PosOf(k) + 1
                         /\ Dropped + 1 <= k => buffer'[k % cap].msg # NoMsg
                      \/ \E u \in At(Writing) : Turn(u) = k
    BY <1>3, <1>7 DEF FullSlots, Slot, At
  <2>0. k \in Nat /\ Received <= k /\ k < Sent
    BY <1>1
  <2>1. CASE Slot(k).stamp = PosOf(k) + 1 /\ (First <= k => Slot(k).msg # NoMsg)
    <3>1. ASSUME Dropped + 1 <= k PROVE buffer'[k % cap].msg # NoMsg
      <4>1. k % cap # Dropped % cap
        <5>1. Dropped < k /\ ~(Dropped + cap <= k)
          BY <1>1, <2>0, <3>1, Sizes
        <5>. QED
          BY <1>1, <2>0, <5>1, SharedSlot
      <4>2. First <= k
        BY <1>1, <2>0, <3>1
      <4>. QED
        BY <1>8, <2>0, <2>1, <4>1, <4>2 DEF Slot
    <3>. QED
      BY <1>8, <2>0, <2>1, <3>1 DEF Slot
  <2>. QED
    BY <2>1 DEF RingInv, FullSlots
<1>13. FreeSlots'
  <2> SUFFICES ASSUME NEW k \in Sent..(Received + cap - 1)
               PROVE  \/ buffer'[k % cap].stamp = PosOf(k) /\ buffer'[k % cap].msg = NoMsg
                      \/ \E u \in At(Taking) : Turn(u) + cap = k
    BY <1>3, <1>7 DEF FreeSlots, Slot, At
  <2>0. k \in Nat /\ Sent <= k /\ k < Received + cap
    BY <1>1, Sizes
  <2>1. CASE Slot(k).stamp = PosOf(k) /\ Slot(k).msg = NoMsg
    <3>1. k % cap # Dropped % cap
      <4>1. Dropped < k /\ ~(Dropped + cap <= k)
        BY <1>1, <1>5, <2>0, Sizes
      <4>. QED
        BY <1>1, <2>0, <4>1, SharedSlot
    <3>. QED
      BY <1>8, <2>0, <2>1, <3>1 DEF Slot
  <2>. QED
    BY <2>1 DEF RingInv, FreeSlots
<1>14. TurnsAreTakenOnce'
  BY <1>7 DEF RingInv, TurnsAreTakenOnce, At
<1>. QED
  BY <1>3, <1>4, <1>5, <1>6, <1>11, <1>12, <1>13, <1>14 DEF RingInv

-----------------------------------------------------------------------------
(* The steps of a thread.                                                  *)
Step(t) == InCall(t) \/ (\E m \in Modes(t) : Call(t, m)) \/ Release(t)

LEMMA NextIsStep == [Next]_vars => (\E t \in Threads : Step(t)) \/ UNCHANGED vars
  BY DEF Next, Step, Finished

(* The steps of a call: the ones that only load, the ones in the blocking  *)
(* part that change a waker, and the ones that use the ring.               *)
Loading(t) == \/ LoadTail(t) \/ LoadStampForSend(t) \/ LoadHeadForSend(t)
              \/ LoadHead(t) \/ LoadStampForRecv(t) \/ LoadTailForRecv(t)
              \/ NotifyCheck(t) \/ CheckFirst(t) \/ CheckSecond(t) \/ CheckDisconnected(t)
              \/ WaitUntil(t)

WakerOnly(t) == NotifyLock(t) \/ Register(t) \/ Abort(t) \/ Deadline(t) \/ Park(t) \/ Unregister(t)

RingStep(t) == \/ CasTail(t) \/ WriteMsg(t) \/ StoreStampSent(t)
               \/ CasHead(t) \/ ReadMsg(t) \/ StoreStampReceived(t)

CallStep(t) == Loading(t) \/ WakerOnly(t) \/ RingStep(t) \/ \E m \in Modes(t) : Call(t, m)

LEMMA StepCases == \A t : Step(t) => CallStep(t) \/ Release(t) \/ EndStep(t)
  BY DEF Step, CallStep, Loading, WakerOnly, RingStep, InCall, SendStep, RecvStep, WakerStep

(* Where the steps of a call lead.                                         *)
CallLocs == {"idle", "notify", "notify_lock", "register"} \cup SendLocs \cup RecvLocs \cup Blocking

(* A sender's way through its call, and a receiver's.                      *)
MovesOn(t) == /\ pc[t] \in CallLocs /\ pc'[t] \in CallLocs
              /\ pc' = [pc EXCEPT ![t] = pc'[t]]
              /\ SidesOK(t)' /\ OthersSame(t)
              /\ pos' \in [Threads -> Nat] /\ mode' \in [Threads -> {"try", "block", "timed"}]

LEMMA StartLoc ==
  ASSUME NEW t \in Threads
  PROVE  /\ Start(t) \in CallLocs \ (Writing \cup Taking)
         /\ t \in Senders => Start(t) = "s_tail" /\ t \notin Receivers
         /\ t \in Receivers => Start(t) = "r_head" /\ t \notin Senders
         /\ t \in Senders \/ t \in Receivers
  BY ConstantsAssumption DEF Start, CallLocs, SendLocs, RecvLocs, Writing, Taking

(* One thread moves; the rest is a matter of types.                        *)
LEMMA MoveOne ==
  ASSUME ChanTypeOK, NEW t \in Threads, NEW loc, pc' = [pc EXCEPT ![t] = loc],
         pc[t] \in CallLocs, loc \in CallLocs,
         t \in Senders => loc \notin RecvLocs, t \in Receivers => loc \notin SendLocs,
         pos' = pos \/ \E p \in Nat : pos' = [pos EXCEPT ![t] = p],
         mode' = mode \/ \E m \in {"try", "block", "timed"} : mode' = [mode EXCEPT ![t] = m],
         calls' = calls \/ \E n \in Nat : calls' = [calls EXCEPT ![t] = n]
  PROVE  MovesOn(t) /\ pc'[t] = loc
<1>1. pc'[t] = loc /\ pc' = [pc EXCEPT ![t] = pc'[t]]
  BY DEF ChanTypeOK
<1>2. OthersSame(t)
  <2> SUFFICES ASSUME NEW u \in Threads \ {t}
               PROVE  pc'[u] = pc[u] /\ pos'[u] = pos[u] /\ calls'[u] = calls[u]
    BY DEF OthersSame
  <2>1. pc'[u] = pc[u]
    BY DEF ChanTypeOK
  <2>2. pos'[u] = pos[u]
    BY DEF ChanTypeOK
  <2>3. calls'[u] = calls[u]
    BY DEF ChanTypeOK
  <2>. QED
    BY <2>1, <2>2, <2>3
<1>3. pos' \in [Threads -> Nat] /\ mode' \in [Threads -> {"try", "block", "timed"}]
  <2>1. pos' \in [Threads -> Nat]
    BY DEF ChanTypeOK
  <2>2. mode' \in [Threads -> {"try", "block", "timed"}]
    <3>1. CASE mode' = mode
      BY <3>1 DEF ChanTypeOK
    <3>2. ASSUME NEW m \in {"try", "block", "timed"}, mode' = [mode EXCEPT ![t] = m]
          PROVE  mode' \in [Threads -> {"try", "block", "timed"}]
      BY <3>2 DEF ChanTypeOK
    <3>. QED
      BY <3>1, <3>2
  <2>. QED
    BY <2>1, <2>2
<1>4. loc \notin {"discard_start", "discard"}
  BY DEF CallLocs, SendLocs, RecvLocs, Blocking
<1>5. SidesOK(t)'
  BY <1>1, <1>4 DEF SidesOK
<1>. QED
  BY <1>1, <1>2, <1>3, <1>5 DEF MovesOn

LEMMA ReturnMoves ==
  ASSUME ChanTypeOK, NEW t \in Threads, pc[t] \in CallLocs, Return(t), calls' = calls
  PROVE  MovesOn(t) /\ pc'[t] = "idle"
<1>1. /\ pc' = [pc EXCEPT ![t] = "idle"] /\ pos' = [pos EXCEPT ![t] = 0] /\ 0 \in Nat
      /\ mode' = [mode EXCEPT ![t] = "try"]
  BY DEF Return, Goto
<1>2. "idle" \in CallLocs /\ "idle" \notin RecvLocs /\ "idle" \notin SendLocs
  BY DEF CallLocs, SendLocs, RecvLocs
<1>. QED
  BY <1>1, <1>2, MoveOne

LEMMA NotReadyMoves ==
  ASSUME ChanTypeOK, NEW t \in Threads, pc[t] \in CallLocs, NotReady(t), calls' = calls
  PROVE  MovesOn(t) /\ pc'[t] \in {"idle", "register"}
<1>1. CASE Return(t)
  BY <1>1, ReturnMoves
<1>2. CASE Goto(t, "register") /\ UNCHANGED <<pos, mode>>
  <2>1. "register" \in CallLocs /\ "register" \notin RecvLocs /\ "register" \notin SendLocs
    BY DEF CallLocs, SendLocs, RecvLocs
  <2>. QED
    BY <1>2, <2>1, MoveOne DEF Goto
<1>. QED
  BY <1>1, <1>2 DEF NotReady

(* The steps that only load.                                               *)
LEMMA LoadingMoves ==
  ASSUME ChanTypeOK, NEW t \in Threads, SidesOK(t), Loading(t)
  PROVE  /\ MovesOn(t) /\ UNCHANGED <<wakerVars, chanVars, endVars, got, calls>>
         /\ pc[t] \notin Writing \cup Taking /\ pc'[t] \notin Writing \cup Taking
<1>0. UNCHANGED <<wakerVars, chanVars, endVars, got, calls>>
  BY DEF Loading, LoadTail, LoadStampForSend, LoadHeadForSend, LoadHead, LoadStampForRecv,
         LoadTailForRecv, NotifyCheck, CheckFirst, CheckSecond, CheckDisconnected, WaitUntil, Reading
<1> USE <1>0 DEF CallLocs, SendLocs, RecvLocs, Blocking, Writing, Taking
<1>s. /\ pc[t] \in SendLocs => t \notin Receivers
      /\ pc[t] \in RecvLocs => t \notin Senders
  BY ConstantsAssumption DEF SidesOK
<1>1. CASE LoadTail(t)
  BY <1>1, <1>s, ReturnMoves, MoveOne DEF LoadTail, Goto, ChanTypeOK
<1>2. CASE LoadStampForSend(t)
  <2>1. PICK loc \in {"s_cas", "s_head", "s_tail"} : Goto(t, loc)
    BY <1>2 DEF LoadStampForSend
  <2>. QED
    BY <1>2, <1>s, <2>1, MoveOne DEF LoadStampForSend, Goto
<1>3. CASE LoadHeadForSend(t)
  BY <1>3, <1>s, NotReadyMoves, MoveOne DEF LoadHeadForSend, Goto
<1>4. CASE LoadHead(t)
  BY <1>4, <1>s, MoveOne DEF LoadHead, Goto, ChanTypeOK
<1>5. CASE LoadStampForRecv(t)
  <2>1. PICK loc \in {"r_cas", "r_tail", "r_head"} : Goto(t, loc)
    BY <1>5 DEF LoadStampForRecv
  <2>. QED
    BY <1>5, <1>s, <2>1, MoveOne DEF LoadStampForRecv, Goto
<1>6. CASE LoadTailForRecv(t)
  BY <1>6, <1>s, ReturnMoves, NotReadyMoves, MoveOne DEF LoadTailForRecv, Goto
<1>7. CASE NotifyCheck(t)
  BY <1>7, ReturnMoves, MoveOne DEF NotifyCheck, Goto
<1>8. CASE CheckFirst(t)
  <2>1. (IF t \in Senders THEN Unmark(tail) ELSE head) \in Nat
    BY UnmarkType DEF ChanTypeOK
  <2>. QED
    BY <1>8, <2>1, MoveOne DEF CheckFirst, Goto
<1>9. CASE CheckSecond(t)
  <2>1. PICK loc \in {"check3", "abort"} : Goto(t, loc)
    BY <1>9 DEF CheckSecond
  <2>. QED
    BY <1>9, <2>1, MoveOne DEF CheckSecond, Goto
<1>10. CASE CheckDisconnected(t)
  <2>1. PICK loc \in {"wait", "abort"} : Goto(t, loc)
    BY <1>10 DEF CheckDisconnected
  <2>. QED
    BY <1>10, <2>1, MoveOne DEF CheckDisconnected, Goto
<1>11. CASE WaitUntil(t)
  <2>1. PICK loc \in {"parked", Start(t), "unregister"} : Goto(t, loc)
    BY <1>11 DEF WaitUntil
  <2>. QED
    BY <1>11, <2>1, StartLoc, MoveOne DEF WaitUntil, Goto
<1>. QED
  BY <1>1, <1>2, <1>3, <1>4, <1>5, <1>6, <1>7, <1>8, <1>9, <1>10, <1>11 DEF Loading

(* The steps in the blocking part that change a waker.                     *)
LEMMA WakerOnlyMoves ==
  ASSUME ChanTypeOK, NEW t \in Threads, SidesOK(t), WakerOnly(t)
  PROVE  /\ MovesOn(t) /\ UNCHANGED <<chanVars, endVars, got, calls>>
         /\ pc[t] \notin Writing \cup Taking /\ pc'[t] \notin Writing \cup Taking
<1>0. UNCHANGED <<chanVars, endVars, got, calls>>
  BY DEF WakerOnly, NotifyLock, Register, Abort, Deadline, Park, Unregister
<1> USE <1>0 DEF CallLocs, SendLocs, RecvLocs, Blocking, Writing, Taking
<1>1. CASE NotifyLock(t)
  BY <1>1, ReturnMoves DEF NotifyLock
<1>2. CASE Register(t)
  BY <1>2, MoveOne DEF Register, Goto
<1>3. CASE Abort(t) \/ Deadline(t) \/ Park(t)
  BY <1>3, MoveOne DEF Abort, Deadline, Park, Goto
<1>4. CASE Unregister(t)
  BY <1>4, StartLoc, MoveOne DEF Unregister, Goto
<1>. QED
  BY <1>1, <1>2, <1>3, <1>4 DEF WakerOnly

LEMMA RingMoves ==
  ASSUME ChanTypeOK, NEW t \in Threads, SidesOK(t), RingStep(t)
  PROVE  /\ MovesOn(t) /\ UNCHANGED <<wakerVars, endVars, pos, mode, calls>>
         /\ pc[t] \notin {"idle", "notify", "notify_lock", "register"} \cup Blocking
         /\ t \in Senders <=> CasTail(t) \/ WriteMsg(t) \/ StoreStampSent(t)
         /\ pc'[t] \notin {"idle", "register", "notify_lock"} \cup Blocking
<1>0. UNCHANGED <<wakerVars, endVars, pos, mode, calls>>
  BY DEF RingStep, CasTail, WriteMsg, StoreStampSent, StoreStamp, CasHead, ReadMsg, StoreStampReceived
<1> USE <1>0 DEF CallLocs, SendLocs, RecvLocs, Blocking
<1>1. CASE CasTail(t) \/ WriteMsg(t) \/ StoreStampSent(t)
  <2>1. PICK loc \in {"s_write", "s_tail", "s_store", "notify"} : Goto(t, loc)
    BY <1>1 DEF CasTail, WriteMsg, StoreStampSent, StoreStamp
  <2>2. pc[t] \in {"s_cas", "s_write", "s_store"}
    BY <1>1 DEF CasTail, WriteMsg, StoreStampSent
  <2>3. t \in Senders /\ t \notin Receivers
    BY <2>2, ConstantsAssumption DEF SidesOK
  <2>. QED
    BY <1>1, <2>1, <2>2, <2>3, MoveOne DEF Goto
<1>2. CASE CasHead(t) \/ ReadMsg(t) \/ StoreStampReceived(t)
  <2>1. PICK loc \in {"r_read", "r_head", "r_store", "notify"} : Goto(t, loc)
    BY <1>2 DEF CasHead, ReadMsg, StoreStampReceived, StoreStamp
  <2>2. pc[t] \in {"r_cas", "r_read", "r_store"}
    BY <1>2 DEF CasHead, ReadMsg, StoreStampReceived
  <2>3. t \in Receivers /\ t \notin Senders
    BY <2>2, ConstantsAssumption DEF SidesOK
  <2>4. ~(CasTail(t) \/ WriteMsg(t) \/ StoreStampSent(t))
    BY <2>2 DEF CasTail, WriteMsg, StoreStampSent
  <2>. QED
    BY <1>2, <2>1, <2>2, <2>3, <2>4, MoveOne DEF Goto
<1>. QED
  BY <1>1, <1>2 DEF RingStep

LEMMA CallMoves ==
  ASSUME ChanTypeOK, NEW t \in Threads, SidesOK(t), NEW m \in Modes(t), Call(t, m)
  PROVE  /\ MovesOn(t) /\ UNCHANGED <<wakerVars, chanVars, endVars, pos, got>>
         /\ pc[t] = "idle" /\ pc'[t] = Start(t) /\ calls' \in [Threads -> Nat]
<1>1. /\ UNCHANGED <<wakerVars, chanVars, endVars, pos, got>>
      /\ pc[t] = "idle" /\ pc' = [pc EXCEPT ![t] = Start(t)]
      /\ calls' = [calls EXCEPT ![t] = calls[t] + 1] /\ mode' = [mode EXCEPT ![t] = m]
  BY DEF Call, Goto
<1>2. m \in {"try", "block", "timed"} /\ calls[t] + 1 \in Nat
  BY ConstantsAssumption DEF Modes, ChanTypeOK
<1>3. /\ "idle" \in CallLocs /\ Start(t) \in CallLocs
      /\ t \in Senders => Start(t) \notin RecvLocs
      /\ t \in Receivers => Start(t) \notin SendLocs
  BY StartLoc DEF CallLocs, RecvLocs, SendLocs
<1>4. MovesOn(t) /\ pc'[t] = Start(t)
  BY <1>1, <1>2, <1>3, MoveOne
<1>5. calls' \in [Threads -> Nat]
  BY <1>1, <1>2 DEF ChanTypeOK
<1>. QED
  BY <1>1, <1>4, <1>5

(* A thread that drops its handle goes on to leave the channel.            *)
MovesOut(t) == /\ pc[t] \in {"idle"} \cup Leaving /\ pc'[t] \in {"gone"} \cup Leaving
               /\ pc' = [pc EXCEPT ![t] = pc'[t]]
               /\ SidesOK(t)' /\ OthersSame(t) /\ pos' \in [Threads -> Nat]

LEMMA EndMoves ==
  ASSUME ChanTypeOK, NEW t \in Threads, SidesOK(t), EndStep(t) \/ Release(t)
  PROVE  MovesOut(t) /\ UNCHANGED <<mode, got, calls>>
<1>0. UNCHANGED <<mode, got, calls>>
  BY DEF EndStep, Release, Mark, Disconnect, DiscardStart, DropMsg, DiscardDone, Destroy
<1>1. PICK loc \in {"gone"} \cup Leaving : /\ pc' = [pc EXCEPT ![t] = loc]
                                           /\ loc \in {"discard_start", "discard"} => t \notin Senders
  <2> USE DEF Leaving
  <2>1. CASE Release(t) \/ DiscardDone(t) \/ Destroy(t)
    BY <2>1 DEF Release, DiscardDone, Destroy, Goto
  <2>2. CASE Mark(t) \/ Disconnect(t)
    BY <2>2 DEF Mark, Disconnect, AfterMark, Goto
  <2>3. CASE DiscardStart(t)
    BY <2>3 DEF DiscardStart, Goto, SidesOK
  <2>4. CASE DropMsg(t)
    <3>1. pc' = [pc EXCEPT ![t] = "discard"]
      BY <2>4 DEF DropMsg, ChanTypeOK
    <3>. QED
      BY <2>4, <3>1 DEF DropMsg, SidesOK
  <2>. QED
    BY <2>1, <2>2, <2>3, <2>4 DEF EndStep
<1>2. pc[t] \in {"idle"} \cup Leaving
  BY DEF EndStep, Release, Mark, Disconnect, DiscardStart, DropMsg, DiscardDone, Destroy, Leaving
<1>3. pc'[t] = loc /\ \A u \in Threads \ {t} : pc'[u] = pc[u]
  BY <1>1 DEF ChanTypeOK
<1>4. loc \notin SendLocs /\ loc \notin RecvLocs
  BY DEF Leaving, SendLocs, RecvLocs
<1>5. SidesOK(t)'
  BY <1>1, <1>3, <1>4 DEF SidesOK
<1>6. pos' = pos \/ pos' = [pos EXCEPT ![t] = Unmark(tail)]
  BY DEF EndStep, Release, Mark, Disconnect, DiscardStart, DropMsg, DiscardDone, Destroy
<1>7. pos' \in [Threads -> Nat] /\ \A u \in Threads \ {t} : pos'[u] = pos[u]
  BY <1>6, UnmarkType DEF ChanTypeOK
<1>. QED
  BY <1>0, <1>1, <1>2, <1>3, <1>5, <1>7 DEF MovesOut, OthersSame

-----------------------------------------------------------------------------
(* The types.                                                              *)
LEMMA OtherSides ==
  ASSUME NEW t \in Threads, OthersSame(t), SidesOK(t)', \A u \in Threads : SidesOK(u)
  PROVE  \A u \in Threads : SidesOK(u)'
  BY DEF OthersSame, SidesOK

LEMMA CallTypes ==
  ASSUME ChanTypeOK, RingInv, NEW t \in Threads, SidesOK(t), CallStep(t)
  PROVE  ChanTypeOK' /\ MovesOn(t) /\ UNCHANGED endVars
<1>1. MovesOn(t) /\ UNCHANGED endVars
  BY LoadingMoves, WakerOnlyMoves, RingMoves, CallMoves DEF CallStep
<1>2. pc' \in [Threads -> Locs]
  <2>1. pc'[t] \in Locs /\ pc' = [pc EXCEPT ![t] = pc'[t]]
    BY <1>1 DEF MovesOn, CallLocs, Locs
  <2>. QED
    BY <2>1 DEF ChanTypeOK
<1>3. calls' \in [Threads -> Nat]
  BY LoadingMoves, WakerOnlyMoves, RingMoves, CallMoves DEF CallStep, ChanTypeOK
<1>4. /\ head' \in Nat /\ tail' \in Nat /\ buffer' \in [0..(cap - 1) -> [stamp : Nat, msg : Msgs]]
      /\ got' \in [Receivers -> Seq(Msgs)]
  <2>1. CASE UNCHANGED <<chanVars, got>>
    BY <2>1 DEF chanVars, ChanTypeOK
  <2>2. CASE RingStep(t)
    <3>1. ASSUME IsPos(pos[t])
          PROVE  /\ Index(pos[t]) \in 0..(cap - 1) /\ Advance(pos[t]) \in Nat
                 /\ pos[t] + 1 \in Nat /\ pos[t] + one_lap \in Nat
                 /\ buffer[Index(pos[t])].msg \in Msgs
      <4>1. Turn(t) \in Nat /\ pos[t] = PosOf(Turn(t)) /\ Index(pos[t]) = Turn(t) % cap
        BY <3>1, TurnPos
      <4>2. Turn(t) + 1 \in Nat /\ Advance(pos[t]) = PosOf(Turn(t) + 1)
        BY <4>1, PosAdvance
      <4>3. PosOf(Turn(t)) \in Nat /\ PosOf(Turn(t) + 1) \in Nat /\ Turn(t) % cap \in 0..(cap - 1)
        BY <4>1, <4>2, PosParts, TurnParts
      <4>4. Slot(Turn(t)).msg \in Msgs
        BY <4>1, SlotType
      <4>. QED
        BY <4>1, <4>2, <4>3, <4>4, Sizes DEF Slot
    <3>2. pc[t] \in {"s_cas", "r_cas"} \cup Writing \cup Taking
      BY <2>2 DEF RingStep, CasTail, WriteMsg, StoreStampSent, CasHead, ReadMsg,
                  StoreStampReceived, Writing, Taking
    <3>3. IsPos(pos[t])
      BY <3>2 DEF RingInv, TurnsOK, SendTurnOK, RecvTurnOK
    <3>4. t \in Senders => Message(t) \in Msgs
      BY DEF Message, Msgs, ChanTypeOK
    <3>5. NoMsg \in Msgs
      BY DEF Msgs
    <3>6. CASE CasTail(t) \/ CasHead(t)
      BY <3>1, <3>3, <3>6 DEF CasTail, CasHead, ChanTypeOK
    <3>7. CASE WriteMsg(t)
      <4>1. t \in Senders
        BY <2>2, <3>7, RingMoves
      <4>2. /\ buffer' = [buffer EXCEPT ![Index(pos[t])].msg = Message(t)]
            /\ UNCHANGED <<head, tail, got>>
        BY <3>7 DEF WriteMsg
      <4>. QED
        BY <3>1, <3>3, <3>4, <4>1, <4>2 DEF ChanTypeOK
    <3>8. CASE StoreStampSent(t) \/ StoreStampReceived(t)
      <4>1. PICK n \in Nat : /\ buffer' = [buffer EXCEPT ![Index(pos[t])].stamp = n]
                             /\ UNCHANGED <<head, tail, got>>
        BY <3>1, <3>3, <3>8 DEF StoreStampSent, StoreStampReceived, StoreStamp
      <4>. QED
        BY <3>1, <3>3, <4>1 DEF ChanTypeOK
    <3>9. CASE ReadMsg(t)
      <4>0. t \in Receivers
        BY <3>9, ConstantsAssumption DEF ReadMsg, SidesOK, RecvLocs
      <4>1. /\ buffer' = [buffer EXCEPT ![Index(pos[t])].msg = NoMsg]
            /\ got' = [got EXCEPT ![t] = Append(got[t], buffer[Index(pos[t])].msg)]
            /\ UNCHANGED <<head, tail>>
        BY <3>9 DEF ReadMsg
      <4>2. Append(got[t], buffer[Index(pos[t])].msg) \in Seq(Msgs)
        BY <3>1, <3>3, <4>0, AppendProperties DEF ChanTypeOK
      <4>3. got' \in [Receivers -> Seq(Msgs)]
        BY <4>1, <4>2 DEF ChanTypeOK
      <4>4. buffer' \in [0..(cap - 1) -> [stamp : Nat, msg : Msgs]]
        BY <3>1, <3>3, <3>5, <4>1 DEF ChanTypeOK
      <4>. QED
        BY <4>1, <4>3, <4>4 DEF ChanTypeOK
    <3>. QED
      BY <2>2, <3>6, <3>7, <3>8, <3>9 DEF RingStep
  <2>. QED
    BY <2>1, <2>2, LoadingMoves, WakerOnlyMoves, CallMoves DEF CallStep
<1>. QED
  BY <1>1, <1>2, <1>3, <1>4 DEF ChanTypeOK, MovesOn, endVars

LEMMA EndTypes ==
  ASSUME ChanTypeOK, RingInv, NEW t \in Threads, SidesOK(t), EndStep(t) \/ Release(t)
  PROVE  ChanTypeOK' /\ MovesOut(t) /\ UNCHANGED <<mode, got, calls>>
<1>1. MovesOut(t) /\ UNCHANGED <<mode, got, calls>>
  BY EndMoves
<1>2. pc' \in [Threads -> Locs] /\ pos' \in [Threads -> Nat]
  <2>1. pc'[t] \in Locs /\ pc' = [pc EXCEPT ![t] = pc'[t]]
    BY <1>1 DEF MovesOut, Leaving, Locs
  <2>. QED
    BY <1>1, <2>1 DEF ChanTypeOK, MovesOut
<1>3. head' \in Nat /\ tail' \in Nat
  BY UnmarkType, Sizes DEF EndStep, Release, Mark, Disconnect, DiscardStart, DropMsg, DiscardDone,
         Destroy, ChanTypeOK, chanVars
<1>4. buffer' \in [0..(cap - 1) -> [stamp : Nat, msg : Msgs]] /\ dhead' \in Nat
  <2>1. CASE DropMsg(t)
    <3>1. Dropped \in Nat /\ dhead = PosOf(Dropped) /\ Dropped + 1 \in Nat
      BY PosFacts DEF RingInv
    <3>2. dhead' = PosOf(Dropped + 1) /\ Index(dhead) = Dropped % cap
      BY <2>1, <3>1, PosAdvance, PosParts DEF DropMsg
    <3>3. dhead' \in Nat /\ Index(dhead) \in 0..(cap - 1) /\ NoMsg \in Msgs
      BY <3>1, <3>2, PosParts, TurnParts DEF Msgs
    <3>. QED
      BY <2>1, <3>3 DEF DropMsg, ChanTypeOK
  <2>2. CASE ~DropMsg(t)
    BY <2>2 DEF EndStep, Release, Mark, Disconnect, DiscardStart, DiscardDone,
           Destroy, ChanTypeOK, chanVars, endVars
  <2>. QED
    BY <2>1, <2>2
<1>5. handles' \in SUBSET Threads /\ destroy' \in BOOLEAN /\ freed' \in Nat
  <2>1. CASE Release(t)
    BY <2>1 DEF Release, ChanTypeOK
  <2>2. CASE Destroy(t)
    <3>1. destroy' = TRUE /\ handles' = handles /\ (freed' = freed \/ freed' = freed + 1)
      BY <2>2 DEF Destroy
    <3>. QED
      BY <3>1 DEF ChanTypeOK
  <2>3. CASE ~(Release(t) \/ Destroy(t))
    <3>1. UNCHANGED <<handles, destroy, freed>>
      BY <2>3 DEF EndStep, Mark, Disconnect, DiscardStart, DropMsg, DiscardDone, endVars
    <3>. QED
      BY <3>1 DEF ChanTypeOK
  <2>. QED
    BY <2>1, <2>2, <2>3
<1>. QED
  BY <1>1, <1>2, <1>3, <1>4, <1>5 DEF ChanTypeOK

-----------------------------------------------------------------------------
(* The last receiver is past its disconnection: from then on the messages  *)
(* that are left are discarded.                                            *)
Discarding == \A r \in Receivers : pc[r] \in {"discard", "destroy", "gone"}

LEMMA WhoIsFirst ==
  ChanTypeOK /\ HandlesMatchThreads => First = IF Discarding THEN Dropped ELSE Received
<1> SUFFICES ASSUME ChanTypeOK, HandlesMatchThreads
             PROVE  First = IF Discarding THEN Dropped ELSE Received
  OBVIOUS
<1>1. \A r \in Receivers : r \in Threads /\ (r \in handles <=> pc[r] \notin Leaving \cup {"gone"})
  BY ConstantsAssumption DEF HandlesMatchThreads
<1>2. /\ handles \cap Receivers = {}
      /\ At({"mark", "disconnect", "discard_start"}) \cap Receivers = {}
      <=> Discarding
  BY <1>1 DEF Discarding, At, Leaving
<1>. QED
  BY <1>2 DEF First, Dropped, Received

LEMMA WhoIsFirstNext ==
  ChanTypeOK' /\ HandlesMatchThreads' => First' = IF Discarding' THEN Dropped' ELSE Received'
<1>1. (ChanTypeOK /\ HandlesMatchThreads => First = IF Discarding THEN Dropped ELSE Received)'
  BY WhoIsFirst, PTL
<1>. QED
  BY <1>1

LEMMA FirstBounds ==
  ASSUME ChanTypeOK, RingInv, EndInv
  PROVE  /\ Received <= First /\ First <= Sent
         /\ First = IF Discarding THEN Dropped ELSE Received
         /\ Discarding => Marked(tail)
         /\ \A t \in Receivers : pc[t] \in CallLocs => ~Discarding
<1>1. /\ Sent \in Nat /\ Received \in Nat /\ Dropped \in Nat
      /\ Received <= Sent /\ Sent <= Received + cap
  BY PosFacts DEF RingInv, PositionsOK
<1>2. First = IF Discarding THEN Dropped ELSE Received
  BY WhoIsFirst DEF EndInv
<1>3. \A t \in Receivers : pc[t] \in CallLocs => ~Discarding
  BY DEF Discarding, CallLocs, SendLocs, RecvLocs, Blocking
<1>4. ASSUME Discarding PROVE Marked(tail) /\ Received <= Dropped /\ Dropped <= Sent
  <2>1. CASE AllGone(Receivers)
    BY <1>1, <2>1 DEF EndInv, Disconnects, Discards
  <2>2. CASE ~AllGone(Receivers)
    <3>1. PICK r \in Receivers : pc[r] \in {"discard", "destroy"}
      BY <1>4, <2>2 DEF AllGone, Discarding
    <3>2. r \in Threads /\ pc[r] \in Leaving \ {"mark"}
      BY <3>1, ConstantsAssumption DEF Leaving
    <3>. QED
      BY <1>1, <3>1, <3>2 DEF EndInv, Disconnects, Discards
  <2>. QED
    BY <2>1, <2>2
<1>. QED
  BY <1>1, <1>2, <1>3, <1>4

(* The steps of a call leave the handles alone, and the side that is       *)
(* leaving is not disturbed by them.                                       *)
LEMMA EndKept ==
  ASSUME ChanTypeOK, EndInv, NEW t \in Threads, MovesOn(t), UNCHANGED endVars,
         tail' = tail \/ (~Marked(tail) /\ ~Marked(tail')), head' = head \/ t \in Receivers
  PROVE  EndInv' /\ (Discarding' <=> Discarding)
<1>0. Senders \subseteq Threads /\ Receivers \subseteq Threads
  BY ConstantsAssumption
<1>1. /\ \A u \in Threads : u # t => pc'[u] = pc[u] /\ pos'[u] = pos[u]
      /\ pc[t] \notin Leaving \cup {"gone"} /\ pc'[t] \notin Leaving \cup {"gone"}
  BY DEF MovesOn, OthersSame, CallLocs, SendLocs, RecvLocs, Blocking, Leaving
<1>2. UNCHANGED <<dhead, handles, destroy, freed>>
  BY DEF endVars
<1>3. \A u \in Threads : pc[u] \in Leaving \cup {"gone"} \/ pc'[u] \in Leaving \cup {"gone"} =>
         u # t /\ pc'[u] = pc[u] /\ pos'[u] = pos[u]
  BY <1>1
<1>4. /\ AllGone(Senders)' <=> AllGone(Senders)
      /\ AllGone(Receivers)' <=> AllGone(Receivers)
      /\ Discarding' <=> Discarding
  BY <1>0, <1>3 DEF AllGone, Discarding, Leaving
<1>5. HandlesMatchThreads'
  BY <1>1, <1>2, <1>3 DEF EndInv, HandlesMatchThreads
<1>6. LastOneLeaves'
  <2>1. \A u \in Threads : \A v \in Side(u) : v \in Threads
    BY <1>0 DEF Side
  <2>. QED
    BY <1>2, <1>3, <2>1 DEF EndInv, LastOneLeaves, Side
<1>7. Disconnects'
  <2>1. Marked(tail) => tail' = tail
    OBVIOUS
  <2>2. ASSUME NEW u \in Threads, pc'[u] \in Leaving \ {"mark"} PROVE Marked(tail')
    BY <1>3, <2>1, <2>2 DEF EndInv, Disconnects
  <2>3. ASSUME NEW u \in Receivers, pc'[u] \in {"disconnect", "discard_start", "discard"}
        PROVE  pos'[u] = Unmark(tail')
    <3>1. pc'[u] = pc[u] /\ pos'[u] = pos[u] /\ pc[u] \in Leaving \ {"mark"}
      BY <1>0, <1>3, <2>3 DEF Leaving
    <3>. QED
      BY <1>0, <2>1, <2>3, <3>1 DEF EndInv, Disconnects
  <2>. QED
    BY <1>4, <2>1, <2>2, <2>3 DEF EndInv, Disconnects
<1>8. Discards'
  <2>1. ASSUME Marked(tail), ~(t \in Receivers) PROVE Received' = Received /\ Sent' = Sent /\ Dropped' = Dropped
    BY <1>2, <2>1 DEF Received, Sent, Dropped
  <2>2. ASSUME NEW u \in Receivers, pc'[u] \in {"discard", "destroy"}
        PROVE  Received' = Received /\ Sent' = Sent /\ Dropped' = Dropped /\ pc'[u] = pc[u]
    <3>1. pc'[u] = pc[u] /\ u # t /\ pc[u] \in Leaving \ {"mark"}
      BY <1>0, <1>3, <2>2 DEF Leaving
    <3>2. ~(t \in Receivers)
      <4>1. Side(u) = Receivers
        BY ConstantsAssumption DEF Side
      <4>2. t \in handles
        BY <1>1 DEF EndInv, HandlesMatchThreads
      <4>. QED
        BY <1>0, <3>1, <4>1, <4>2 DEF EndInv, LastOneLeaves
    <3>3. Marked(tail)
      BY <1>0, <3>1 DEF EndInv, Disconnects
    <3>. QED
      BY <2>1, <3>1, <3>2, <3>3
  <2>3. ASSUME AllGone(Receivers) PROVE Received' = Received /\ Sent' = Sent /\ Dropped' = Dropped
    <3>1. ~(t \in Receivers)
      BY <1>1, <2>3 DEF AllGone
    <3>. QED
      BY <2>1, <2>3, <3>1 DEF EndInv, Disconnects
  <2>. QED
    BY <1>4, <2>2, <2>3 DEF EndInv, Discards
<1>9. FreedOnce'
  BY <1>2, <1>4 DEF EndInv, FreedOnce
<1>. QED
  BY <1>4, <1>5, <1>6, <1>7, <1>8, <1>9 DEF EndInv

-----------------------------------------------------------------------------
(* The steps of a call and the ring.                                       *)
HasTurn == {"s_stamp", "s_cas", "s_head", "r_stamp", "r_cas", "r_tail", "check2"}
              \cup Writing \cup Taking

LEMMA NoTurn ==
  ASSUME NEW t, pc'[t] \notin HasTurn
  PROVE  TurnOK(t)'
  BY DEF HasTurn, TurnOK, SendTurnOK, RecvTurnOK, CheckOK, Writing, Taking

LEMMA SameEnds ==
  ASSUME CoreInv, ChanTypeOK', NEW t \in Threads, MovesOn(t), UNCHANGED endVars, UNCHANGED <<head, tail>>
  PROVE  /\ EndInv' /\ Sent' = Sent /\ Received' = Received /\ Dropped' = Dropped /\ First' = First
         /\ PositionsOK'
<1>1. EndInv' /\ (Discarding' <=> Discarding)
  BY EndKept DEF CoreInv
<1>2. dhead' = dhead
  BY DEF endVars
<1>3. Sent' = Sent /\ Received' = Received /\ Dropped' = Dropped /\ PositionsOK'
  BY <1>2 DEF CoreInv, RingInv, PositionsOK, Sent, Received, Dropped
<1>. QED
  BY <1>1, <1>3, WhoIsFirst, WhoIsFirstNext DEF CoreInv, EndInv

(* A step of a call that leaves the ring alone.                            *)
LEMMA QuietCall ==
  ASSUME CoreInv, ChanTypeOK', NEW t \in Threads, MovesOn(t), UNCHANGED <<chanVars, endVars>>,
         pc[t] \notin Writing \cup Taking, pc'[t] \notin Writing \cup Taking, TurnOK(t)'
  PROVE  CoreInv' /\ Sent' = Sent /\ Received' = Received /\ Dropped' = Dropped /\ First' = First
<1>1. UNCHANGED <<head, tail, buffer>> /\ UNCHANGED endVars
  BY DEF chanVars
<1>2. /\ EndInv' /\ Sent' = Sent /\ Received' = Received /\ Dropped' = Dropped /\ First' = First
      /\ PositionsOK'
  BY <1>1, SameEnds
<1>3. RingInv'
  BY <1>1, <1>2, RingQuiet DEF CoreInv, MovesOn
<1>4. \A u \in Threads : SidesOK(u)'
  BY OtherSides DEF CoreInv, MovesOn
<1>. QED
  BY <1>2, <1>3, <1>4 DEF CoreInv

(* What a load tells the thread of its turn.                               *)
LEMMA LoadingTurn ==
  ASSUME CoreInv, NEW t \in Threads, Loading(t)
  PROVE  TurnOK(t)'
<1>0. ChanTypeOK /\ RingInv /\ SidesOK(t) /\ TurnOK(t)
  BY DEF CoreInv, RingInv, TurnsOK, TurnOK
<1>1. /\ Sent \in Nat /\ Received \in Nat /\ Unmark(tail) = PosOf(Sent) /\ head = PosOf(Received)
      /\ ~Marked(tail) => tail = PosOf(Sent)
  BY <1>0, PosFacts DEF RingInv
<1>2. UNCHANGED <<head, tail, buffer>>
  BY <1>0, LoadingMoves DEF chanVars
<1>3. Sent' = Sent /\ Received' = Received
  BY <1>2 DEF Sent, Received
<1>4. Ordinal(PosOf(Sent)) = Sent /\ Ordinal(PosOf(Received)) = Received
  BY <1>1, PosParts
<1>5. IsPos(PosOf(Sent)) /\ IsPos(PosOf(Received))
  BY <1>1, PosIsPos
<1>6. CASE LoadTail(t)
  <2>1. CASE Return(t)
    <3>1. pc'[t] = "idle"
      BY <1>0, <2>1 DEF Return, Goto, ChanTypeOK
    <3>. QED
      BY <3>1, NoTurn DEF HasTurn, Writing, Taking
  <2>2. CASE ~Marked(tail) /\ pos' = [pos EXCEPT ![t] = tail] /\ Goto(t, "s_stamp")
    <3>1. pc'[t] = "s_stamp" /\ pos'[t] = PosOf(Sent)
      BY <1>0, <1>1, <2>2 DEF Goto, ChanTypeOK
    <3>. QED
      BY <1>1, <1>3, <1>4, <1>5, <3>1
      DEF TurnOK, SendTurnOK, RecvTurnOK, CheckOK, Writing, Taking, IsPos, Turn
  <2>. QED
    BY <1>6, <2>1, <2>2 DEF LoadTail
<1>7. CASE LoadStampForSend(t)
  <2>1. IsPos(pos[t]) /\ Turn(t) <= Sent /\ buffer[Index(pos[t])] = Slot(Turn(t)) /\ pos[t] = PosOf(Turn(t))
    BY <1>0, <1>7, TurnPos DEF LoadStampForSend, TurnOK, SendTurnOK
  <2>2. pos' = pos /\ pc'[t] \in {"s_cas", "s_head", "s_tail"}
    BY <1>0, <1>7 DEF LoadStampForSend, Goto, ChanTypeOK
  <2>3. pc'[t] = "s_cas" => Slot(Turn(t)).stamp = PosOf(Turn(t))
    BY <1>0, <1>7, <2>1 DEF LoadStampForSend, Goto, ChanTypeOK
  <2>4. Turn(t)' = Turn(t) /\ \A k \in Nat : Slot(k)' = Slot(k)
    BY <1>2, <2>2 DEF Turn, Slot
  <2>. QED
    BY <1>1, <1>2, <1>3, <2>1, <2>2, <2>3, <2>4
    DEF TurnOK, SendTurnOK, RecvTurnOK, CheckOK, Writing, Taking, IsPos
<1>8. CASE LoadHead(t)
  <2>1. pc'[t] = "r_stamp" /\ pos'[t] = PosOf(Received)
    BY <1>0, <1>1, <1>8 DEF LoadHead, Goto, ChanTypeOK
  <2>. QED
    BY <1>1, <1>3, <1>4, <1>5, <2>1
    DEF TurnOK, SendTurnOK, RecvTurnOK, CheckOK, Writing, Taking, IsPos, Turn
<1>9. CASE LoadStampForRecv(t)
  <2>1. /\ IsPos(pos[t]) /\ Turn(t) <= Received /\ buffer[Index(pos[t])] = Slot(Turn(t))
        /\ pos[t] = PosOf(Turn(t))
    BY <1>0, <1>9, TurnPos DEF LoadStampForRecv, TurnOK, RecvTurnOK
  <2>2. pos' = pos /\ pc'[t] \in {"r_cas", "r_tail", "r_head"}
    BY <1>0, <1>9 DEF LoadStampForRecv, Goto, ChanTypeOK
  <2>3. pc'[t] = "r_cas" => Slot(Turn(t)).stamp = PosOf(Turn(t)) + 1
    BY <1>0, <1>9, <2>1 DEF LoadStampForRecv, Goto, ChanTypeOK
  <2>4. Turn(t)' = Turn(t) /\ \A k \in Nat : Slot(k)' = Slot(k)
    BY <1>2, <2>2 DEF Turn, Slot
  <2>. QED
    BY <1>1, <1>2, <1>3, <2>1, <2>2, <2>3, <2>4
    DEF TurnOK, SendTurnOK, RecvTurnOK, CheckOK, Writing, Taking, IsPos
<1>10. CASE CheckFirst(t)
  <2>1. pc'[t] = "check2" /\ pos'[t] = IF t \in Senders THEN PosOf(Sent) ELSE PosOf(Received)
    BY <1>0, <1>1, <1>10 DEF CheckFirst, Goto, ChanTypeOK
  <2>. QED
    BY <1>1, <1>3, <1>4, <1>5, <2>1
    DEF TurnOK, SendTurnOK, RecvTurnOK, CheckOK, Writing, Taking, IsPos, Turn
<1>11. CASE LoadHeadForSend(t) \/ LoadTailForRecv(t)
  <2>1. pc'[t] \in {"idle", "register", "s_tail", "r_head"}
    BY <1>0, <1>11 DEF LoadHeadForSend, LoadTailForRecv, NotReady, Return, Goto, ChanTypeOK
  <2>. QED
    BY <2>1, NoTurn DEF HasTurn, Writing, Taking
<1>12. CASE NotifyCheck(t) \/ CheckSecond(t) \/ CheckDisconnected(t) \/ WaitUntil(t)
  <2>1. pc'[t] \in {"idle", "notify_lock", "check3", "abort", "wait", "parked", "unregister", Start(t)}
    BY <1>0, <1>12 DEF NotifyCheck, CheckSecond, CheckDisconnected, WaitUntil, Return, Goto, ChanTypeOK
  <2>2. Start(t) \in {"s_tail", "r_head"}
    BY DEF Start
  <2>. QED
    BY <2>1, <2>2, NoTurn DEF HasTurn, Writing, Taking
<1>. QED
  BY <1>6, <1>7, <1>8, <1>9, <1>10, <1>11, <1>12 DEF Loading

LEMMA LoadingCore ==
  ASSUME CoreInv, NEW t \in Threads, Loading(t)
  PROVE  CoreInv' /\ Sent' = Sent /\ Received' = Received /\ Dropped' = Dropped /\ First' = First
<1>1. ChanTypeOK' /\ MovesOn(t)
  BY CallTypes DEF CoreInv, CallStep
<1>2. /\ UNCHANGED <<chanVars, endVars>>
      /\ pc[t] \notin Writing \cup Taking /\ pc'[t] \notin Writing \cup Taking
  BY LoadingMoves DEF CoreInv
<1>. QED
  BY <1>1, <1>2, LoadingTurn, QuietCall

LEMMA WakerOnlyCore ==
  ASSUME CoreInv, NEW t \in Threads, WakerOnly(t)
  PROVE  CoreInv' /\ Sent' = Sent /\ Received' = Received /\ Dropped' = Dropped /\ First' = First
<1>1. ChanTypeOK' /\ MovesOn(t)
  BY CallTypes DEF CoreInv, CallStep
<1>2. /\ UNCHANGED <<chanVars, endVars>>
      /\ pc[t] \notin Writing \cup Taking /\ pc'[t] \notin Writing \cup Taking
  BY WakerOnlyMoves DEF CoreInv
<1>3. pc'[t] \in {"idle", "check", "wait", Start(t)}
  BY DEF WakerOnly, NotifyLock, Register, Abort, Deadline, Park, Unregister, Return, Goto,
         CoreInv, ChanTypeOK
<1>4. TurnOK(t)'
  <2>1. Start(t) \in {"s_tail", "r_head"}
    BY DEF Start
  <2>. QED
    BY <1>3, <2>1, NoTurn DEF HasTurn, Writing, Taking
<1>. QED
  BY <1>1, <1>2, <1>4, QuietCall

LEMMA CallCore ==
  ASSUME CoreInv, NEW t \in Threads, NEW m \in Modes(t), Call(t, m)
  PROVE  CoreInv' /\ Sent' = Sent /\ Received' = Received /\ Dropped' = Dropped /\ First' = First
<1>1. ChanTypeOK' /\ MovesOn(t)
  BY CallTypes DEF CoreInv, CallStep
<1>2. UNCHANGED <<chanVars, endVars>> /\ pc[t] = "idle" /\ pc'[t] = Start(t)
  BY CallMoves DEF CoreInv
<1>3. Start(t) \in {"s_tail", "r_head"}
  BY DEF Start
<1>4. TurnOK(t)'
  BY <1>2, <1>3, NoTurn DEF HasTurn, Writing, Taking
<1>5. pc[t] \notin Writing \cup Taking /\ pc'[t] \notin Writing \cup Taking
  BY <1>2, <1>3 DEF Writing, Taking
<1>. QED
  BY <1>1, <1>2, <1>4, <1>5, QuietCall

(* A send takes its turn by moving the tail; a failure changes nothing.    *)
LEMMA CasTailCore ==
  ASSUME CoreInv, NEW t \in Threads, CasTail(t)
  PROVE  /\ CoreInv' /\ Received' = Received /\ Dropped' = Dropped /\ First' = First
         /\ t \in Senders /\ UNCHANGED <<buffer, head>> /\ (Marked(tail)' <=> Marked(tail))
         /\ \/ Sent' = Sent /\ pc'[t] = "s_tail" /\ tail' = tail
            \/ /\ Sent' = Sent + 1 /\ pc'[t] = "s_write" /\ Turn(t) = Sent /\ pos'[t] = pos[t]
               /\ ~Marked(tail) /\ Sent < Received + cap
<1>1. /\ ChanTypeOK /\ RingInv /\ EndInv /\ SidesOK(t) /\ ChanTypeOK' /\ MovesOn(t)
      /\ UNCHANGED endVars
  BY CallTypes DEF CoreInv, CallStep, RingStep
<1>2. UNCHANGED <<head, buffer, pos>> /\ pc[t] = "s_cas"
  BY DEF CasTail
<1>3. t \in Senders
  BY <1>1, <1>2, ConstantsAssumption DEF SidesOK, SendLocs
<1>4. \A u \in Threads : SidesOK(u)'
  BY <1>1, OtherSides DEF CoreInv, MovesOn
<1>5. CASE tail # pos[t] /\ tail' = tail /\ Goto(t, "s_tail")
  <2>1. pc'[t] = "s_tail"
    BY <1>1, <1>5 DEF Goto, ChanTypeOK
  <2>2. TurnOK(t)'
    BY <2>1, NoTurn DEF HasTurn, Writing, Taking
  <2>3. UNCHANGED <<chanVars, endVars>>
    BY <1>1, <1>2, <1>5 DEF chanVars
  <2>. QED
    BY <1>1, <1>2, <1>3, <1>5, <2>1, <2>2, <2>3, QuietCall DEF Writing, Taking
<1>6. CASE tail = pos[t] /\ tail' = Advance(pos[t]) /\ Goto(t, "s_write")
  <2>1. pc'[t] = "s_write"
    BY <1>1, <1>6 DEF Goto, ChanTypeOK
  <2>2. IsPos(pos[t]) /\ (Turn(t) = Sent => Slot(Sent).stamp = PosOf(Sent))
    BY <1>1, <1>2 DEF RingInv, TurnsOK, SendTurnOK
  <2>3. Turn(t) \in Nat /\ Turn(t) + 1 \in Nat /\ pos[t] = PosOf(Turn(t))
    BY <1>1, <2>2, TurnPos
  <2>4. ~Marked(tail) /\ ~Marked(tail')
    BY <1>6, <2>3, PosAdvance, PosParts
  <2>5. EndInv' /\ (Discarding' <=> Discarding)
    BY <1>1, <1>2, <2>4, EndKept
  <2>6. UNCHANGED dhead
    BY <1>1 DEF endVars
  <2>7. Received' = Received /\ Dropped' = Dropped
    BY <1>2, <2>6 DEF Received, Dropped
  <2>8. First' = First /\ First <= Sent
    BY <1>1, <2>5, <2>7, FirstBounds, WhoIsFirstNext DEF EndInv
  <2>9. RingInv' /\ Sent' = Sent + 1 /\ Turn(t) = Sent
    BY <1>1, <1>2, <1>6, <2>1, <2>6, <2>8, RingSend DEF MovesOn
  <2>10. Sent < Received + cap
    BY <1>1, <2>2, <2>9, NextSendStamp
  <2>. QED
    BY <1>1, <1>2, <1>3, <1>4, <2>1, <2>4, <2>5, <2>7, <2>8, <2>9, <2>10 DEF CoreInv
<1>. QED
  BY <1>5, <1>6 DEF CasTail

(* A receive takes its turn by moving the head.                            *)
LEMMA CasHeadCore ==
  ASSUME CoreInv, NEW t \in Threads, CasHead(t)
  PROVE  /\ CoreInv' /\ Sent' = Sent /\ Dropped' = Dropped
         /\ t \in Receivers /\ UNCHANGED <<buffer, tail>>
         /\ First = Received /\ First' = Received'
         /\ \/ Received' = Received /\ pc'[t] = "r_head"
            \/ /\ Received' = Received + 1 /\ pc'[t] = "r_read" /\ Turn(t) = Received /\ pos'[t] = pos[t]
               /\ Received < Sent /\ Slot(Received).stamp = PosOf(Received) + 1
<1>1. /\ ChanTypeOK /\ RingInv /\ EndInv /\ SidesOK(t) /\ ChanTypeOK' /\ MovesOn(t)
      /\ UNCHANGED endVars
  BY CallTypes DEF CoreInv, CallStep, RingStep
<1>2. UNCHANGED <<tail, buffer, pos>> /\ pc[t] = "r_cas"
  BY DEF CasHead
<1>3. t \in Receivers
  BY <1>1, <1>2, ConstantsAssumption DEF SidesOK, RecvLocs
<1>4. \A u \in Threads : SidesOK(u)'
  BY <1>1, OtherSides DEF CoreInv, MovesOn
<1>5. EndInv' /\ (Discarding' <=> Discarding)
  BY <1>1, <1>2, <1>3, EndKept
<1>6. ~Discarding /\ First = Received
  BY <1>1, <1>2, <1>3, FirstBounds DEF CallLocs, RecvLocs
<1>7. First' = Received'
  BY <1>1, <1>5, <1>6, WhoIsFirstNext DEF EndInv
<1>8. UNCHANGED dhead
  BY <1>1 DEF endVars
<1>9. Sent' = Sent /\ Dropped' = Dropped
  BY <1>2, <1>8 DEF Sent, Dropped
<1>10. CASE head # pos[t] /\ head' = head /\ Goto(t, "r_head")
  <2>1. pc'[t] = "r_head"
    BY <1>1, <1>10 DEF Goto, ChanTypeOK
  <2>2. TurnOK(t)'
    BY <2>1, NoTurn DEF HasTurn, Writing, Taking
  <2>3. UNCHANGED <<chanVars, endVars>>
    BY <1>1, <1>2, <1>10 DEF chanVars
  <2>. QED
    BY <1>1, <1>2, <1>3, <1>6, <1>7, <2>1, <2>2, <2>3, QuietCall DEF Writing, Taking
<1>11. CASE head = pos[t] /\ head' = Advance(pos[t]) /\ Goto(t, "r_read")
  <2>1. pc'[t] = "r_read"
    BY <1>1, <1>11 DEF Goto, ChanTypeOK
  <2>2. /\ RingInv' /\ Received' = Received + 1 /\ Turn(t) = Received
        /\ Slot(Received).stamp = PosOf(Received) + 1 /\ Received < Sent
    BY <1>1, <1>2, <1>6, <1>7, <1>8, <1>11, <2>1, RingReceive DEF MovesOn
  <2>. QED
    BY <1>1, <1>2, <1>3, <1>4, <1>5, <1>6, <1>7, <1>9, <2>1, <2>2 DEF CoreInv
<1>. QED
  BY <1>10, <1>11 DEF CasHead

(* The owner of a slot writes, reads, and passes it on.                    *)
LEMMA OwnerCore ==
  ASSUME CoreInv, NEW t \in Threads, WriteMsg(t) \/ StoreStampSent(t) \/ ReadMsg(t) \/ StoreStampReceived(t)
  PROVE  /\ CoreInv' /\ UNCHANGED <<head, tail, pos>>
         /\ Sent' = Sent /\ Received' = Received /\ Dropped' = Dropped /\ First' = First
         /\ pc[t] \in Writing \cup Taking
<1>1. /\ ChanTypeOK /\ RingInv /\ EndInv /\ SidesOK(t) /\ ChanTypeOK' /\ MovesOn(t)
      /\ UNCHANGED endVars
  BY CallTypes DEF CoreInv, CallStep, RingStep
<1>2. UNCHANGED <<head, tail, pos, calls>> /\ pc[t] \in Writing \cup Taking
  BY DEF WriteMsg, StoreStampSent, ReadMsg, StoreStampReceived, StoreStamp, Writing, Taking
<1>3. \A u \in Threads : SidesOK(u)'
  BY <1>1, OtherSides DEF CoreInv, MovesOn
<1>4. EndInv' /\ Sent' = Sent /\ Received' = Received /\ Dropped' = Dropped /\ First' = First
  BY <1>1, <1>2, SameEnds
<1>5. UNCHANGED <<head, tail, dhead>> /\ pos'[t] = pos[t]
  BY <1>1, <1>2 DEF endVars
<1> DEFINE k == Turn(t)
<1>6. /\ IsPos(pos[t]) /\ k \in Nat /\ Index(pos[t]) = k % cap
      /\ pos[t] = PosOf(k) /\ buffer[Index(pos[t])] = Slot(k)
      /\ pc[t] \in Writing => Slot(k).stamp = PosOf(k) /\ First <= k /\ k < Sent
      /\ pc[t] \in Taking => Slot(k).stamp = PosOf(k) + 1 /\ Sent <= k + cap /\ k < Received
  BY <1>1, <1>2, OwnersTurn
<1>7. Turn(t)' = k /\ Message(t)' = Message(t) /\ IsPos(pos[t])'
  BY <1>2, <1>6 DEF Turn, Message, IsPos
<1>8. TurnOK(t)
  BY <1>1 DEF RingInv, TurnsOK, TurnOK
<1>9. k % cap \in 0..(cap - 1) /\ buffer[k % cap] \in [stamp : Nat, msg : Msgs] /\ DOMAIN buffer = 0..(cap - 1)
  BY <1>1, <1>6, TurnParts, SlotType DEF Slot, ChanTypeOK
<1> HIDE DEF k
<1>10. CASE WriteMsg(t)
  <2>1. pc[t] = "s_write" /\ pc'[t] = "s_store" /\ buffer' = [buffer EXCEPT ![k % cap].msg = Message(t)]
    BY <1>1, <1>6, <1>10 DEF WriteMsg, Goto, ChanTypeOK
  <2>2. /\ buffer'[k % cap].msg = Message(t) /\ buffer'[k % cap].stamp = PosOf(k)
        /\ \A i \in 0..(cap - 1) : i # k % cap => buffer'[i] = buffer[i]
    BY <1>6, <1>9, <2>1 DEF Slot, Writing
  <2>3. TurnOK(t)'
    BY <1>4, <1>6, <1>7, <2>1, <2>2
    DEF TurnOK, SendTurnOK, RecvTurnOK, CheckOK, Writing, Taking, Slot
  <2>4. RingInv'
    BY <1>1, <1>2, <1>4, <1>5, <2>1, <2>2, <2>3, RingOwner DEF MovesOn, Writing, Taking, k
  <2>. QED
    BY <1>1, <1>2, <1>3, <1>4, <2>4 DEF CoreInv
<1>11. CASE StoreStampSent(t)
  <2>1. pc[t] = "s_store" /\ pc'[t] = "notify" /\ buffer' = [buffer EXCEPT ![k % cap].stamp = PosOf(k) + 1]
    BY <1>1, <1>6, <1>11 DEF StoreStampSent, StoreStamp, Goto, ChanTypeOK
  <2>2. Slot(k).msg # NoMsg
    BY <1>8, <2>1 DEF TurnOK, SendTurnOK, Writing, Message, NoMsg, k
  <2>3. /\ buffer'[k % cap].msg # NoMsg /\ buffer'[k % cap].stamp = PosOf(k) + 1
        /\ \A i \in 0..(cap - 1) : i # k % cap => buffer'[i] = buffer[i]
    BY <1>9, <2>1, <2>2 DEF Slot
  <2>4. TurnOK(t)'
    BY <2>1, NoTurn DEF HasTurn, Writing, Taking
  <2>5. RingInv'
    BY <1>1, <1>2, <1>4, <1>5, <2>1, <2>3, <2>4, RingOwner DEF MovesOn, Writing, Taking, k
  <2>. QED
    BY <1>1, <1>2, <1>3, <1>4, <2>5 DEF CoreInv
<1>12. CASE ReadMsg(t)
  <2>1. pc[t] = "r_read" /\ pc'[t] = "r_store" /\ buffer' = [buffer EXCEPT ![k % cap].msg = NoMsg]
    BY <1>1, <1>6, <1>12 DEF ReadMsg, Goto, ChanTypeOK
  <2>2. /\ buffer'[k % cap].msg = NoMsg /\ buffer'[k % cap].stamp = PosOf(k) + 1
        /\ \A i \in 0..(cap - 1) : i # k % cap => buffer'[i] = buffer[i]
    BY <1>6, <1>9, <2>1 DEF Slot, Taking
  <2>3. TurnOK(t)'
    BY <1>4, <1>6, <1>7, <2>1, <2>2
    DEF TurnOK, SendTurnOK, RecvTurnOK, CheckOK, Writing, Taking, Slot
  <2>4. RingInv'
    BY <1>1, <1>2, <1>4, <1>5, <2>1, <2>2, <2>3, RingOwner DEF MovesOn, Writing, Taking, k
  <2>. QED
    BY <1>1, <1>2, <1>3, <1>4, <2>4 DEF CoreInv
<1>13. CASE StoreStampReceived(t)
  <2>1. /\ pc[t] = "r_store" /\ pc'[t] = "notify"
        /\ buffer' = [buffer EXCEPT ![k % cap].stamp = PosOf(k + cap)]
    BY <1>1, <1>6, <1>13, PosAdvance DEF StoreStampReceived, StoreStamp, Goto, ChanTypeOK
  <2>2. Slot(k).msg = NoMsg
    BY <1>8, <2>1 DEF TurnOK, RecvTurnOK, Taking, k
  <2>3. /\ buffer'[k % cap].msg = NoMsg /\ buffer'[k % cap].stamp = PosOf(k + cap)
        /\ \A i \in 0..(cap - 1) : i # k % cap => buffer'[i] = buffer[i]
    BY <1>9, <2>1, <2>2 DEF Slot
  <2>4. TurnOK(t)'
    BY <2>1, NoTurn DEF HasTurn, Writing, Taking
  <2>5. RingInv'
    BY <1>1, <1>2, <1>4, <1>5, <2>1, <2>3, <2>4, RingOwner DEF MovesOn, Writing, Taking, k
  <2>. QED
    BY <1>1, <1>2, <1>3, <1>4, <2>5 DEF CoreInv
<1>. QED
  BY <1>10, <1>11, <1>12, <1>13

-----------------------------------------------------------------------------
(* Leaving the channel. Whoever does is the last of its side.              *)
LEMMA LastOne ==
  ASSUME ChanTypeOK, EndInv, NEW t \in Threads, pc[t] \in Leaving
  PROVE  /\ t \in Side(t) /\ \A u \in Side(t) \ {t} : u \in Threads /\ pc[u] = "gone"
         /\ t \in Senders => t \notin Receivers /\ Side(t) = Senders
         /\ t \in Receivers => t \notin Senders /\ Side(t) = Receivers
         /\ t \in Senders \/ t \in Receivers
<1>1. /\ t \in Side(t) /\ Side(t) \subseteq Threads
      /\ t \in Senders => t \notin Receivers /\ Side(t) = Senders
      /\ t \in Receivers => t \notin Senders /\ Side(t) = Receivers
      /\ t \in Senders \/ t \in Receivers
  BY ConstantsAssumption DEF Side
<1>2. ASSUME NEW u \in Side(t) \ {t} PROVE pc[u] = "gone"
  <2>1. u \in Threads /\ u \notin handles /\ pc[u] \notin Leaving
    BY <1>1 DEF EndInv, LastOneLeaves
  <2>. QED
    BY <2>1 DEF EndInv, HandlesMatchThreads
<1>. QED
  BY <1>1, <1>2

(* Its way to the destruction of the channel.                              *)
LEMMA StillLeaving ==
  ASSUME ChanTypeOK, EndInv, NEW t \in Threads, OthersSame(t), pc[t] \in Leaving, pc'[t] \in Leaving,
         UNCHANGED <<handles, destroy, freed>>
  PROVE  /\ HandlesMatchThreads' /\ LastOneLeaves' /\ FreedOnce'
         /\ AllGone(Senders)' <=> AllGone(Senders)
         /\ AllGone(Receivers)' <=> AllGone(Receivers)
<1>0. Senders \subseteq Threads /\ Receivers \subseteq Threads
  BY ConstantsAssumption
<1>1. \A u \in Threads : u # t => pc'[u] = pc[u]
  BY DEF OthersSame
<1>2. pc[t] # "gone" /\ pc'[t] # "gone"
  BY DEF Leaving
<1>3. /\ AllGone(Senders)' <=> AllGone(Senders)
      /\ AllGone(Receivers)' <=> AllGone(Receivers)
  BY <1>0, <1>1, <1>2 DEF AllGone
<1>4. HandlesMatchThreads'
  BY <1>1 DEF EndInv, HandlesMatchThreads
<1>5. LastOneLeaves'
  <2>1. \A u \in Threads : \A v \in Side(u) : v \in Threads
    BY <1>0 DEF Side
  <2>2. \A u \in Threads : pc'[u] \in Leaving <=> pc[u] \in Leaving
    BY <1>1
  <2>. QED
    BY <2>1, <2>2 DEF EndInv, LastOneLeaves, Side
<1>6. FreedOnce'
  BY <1>3 DEF EndInv, FreedOnce
<1>. QED
  BY <1>3, <1>4, <1>5, <1>6

LEMMA ReleaseEnd ==
  ASSUME ChanTypeOK, EndInv, NEW t \in Threads, MovesOut(t), Release(t)
  PROVE  EndInv' /\ (Discarding' <=> Discarding)
<1>0. Senders \subseteq Threads /\ Receivers \subseteq Threads
  BY ConstantsAssumption
<1>1. /\ pc[t] = "idle" /\ t \in handles /\ handles' = handles \ {t}
      /\ UNCHANGED <<tail, head, dhead, destroy, freed, pos>>
      /\ pc'[t] = IF handles' \cap Side(t) = {} THEN "mark" ELSE "gone"
  BY DEF Release, Goto, Side, chanVars, ChanTypeOK
<1>2. \A u \in Threads : u # t => pc'[u] = pc[u]
  BY DEF MovesOut, OthersSame
<1>3. pc'[t] \in {"mark", "gone"} /\ t \in Side(t) /\ Side(t) \subseteq Threads
  BY <1>1, ConstantsAssumption DEF Side
<1>4. \A u \in Threads : u \in handles <=> pc[u] \notin Leaving \cup {"gone"}
  BY DEF EndInv, HandlesMatchThreads
<1>5. HandlesMatchThreads'
  BY <1>1, <1>2, <1>3, <1>4 DEF HandlesMatchThreads, Leaving
<1>6. ASSUME NEW u \in Threads, t \in Side(u) PROVE pc[u] \notin Leaving
  BY <1>1, <1>6 DEF EndInv, LastOneLeaves
<1>7. LastOneLeaves'
  <2> SUFFICES ASSUME NEW v \in Threads, pc'[v] \in Leaving, NEW u \in Side(v)
               PROVE  u \notin handles' /\ (pc'[u] \in Leaving => u = v)
    BY DEF LastOneLeaves, Side
  <2>0. u \in Threads /\ (u \in Side(t) => t \in Side(u))
    BY <1>0, ConstantsAssumption DEF Side
  <2>1. CASE v = t
    <3>1. handles' \cap Side(t) = {}
      BY <1>1, <2>1 DEF Leaving
    <3>. QED
      BY <1>2, <1>6, <2>0, <2>1, <3>1
  <2>2. CASE v # t
    <3>1. pc[v] \in Leaving /\ u \notin handles /\ (pc[u] \in Leaving => u = v)
      BY <1>2, <2>2 DEF EndInv, LastOneLeaves
    <3>2. u # t
      BY <1>6, <3>1
    <3>. QED
      BY <1>1, <1>2, <2>0, <3>1, <3>2
  <2>. QED
    BY <2>1, <2>2
<1>8. \E u \in Side(t) : pc'[u] \notin Leaving \ {"mark"} /\ pc'[u] # "gone"
  <2>1. CASE pc'[t] = "mark"
    BY <1>3, <2>1
  <2>2. CASE pc'[t] = "gone"
    <3>1. PICK u \in handles' : u \in Side(t)
      BY <1>1, <2>2
    <3>2. u # t /\ u \in Threads /\ pc'[u] = pc[u] /\ pc[u] \notin Leaving \cup {"gone"}
      BY <1>1, <1>2, <1>3, <1>4, <3>1
    <3>. QED
      BY <3>1, <3>2
  <2>. QED
    BY <1>3, <2>1, <2>2
<1>9. /\ AllGone(Senders)' <=> AllGone(Senders)
      /\ AllGone(Receivers)' <=> AllGone(Receivers)
      /\ Discarding' <=> Discarding
  <2>1. CASE t \in Senders
    <3>1. Side(t) = Senders /\ t \notin Receivers
      BY <2>1, ConstantsAssumption DEF Side
    <3>. QED
      BY <1>0, <1>1, <1>2, <1>8, <2>1, <3>1 DEF AllGone, Discarding
  <2>2. CASE t \notin Senders
    <3>1. Side(t) = Receivers /\ t \in Receivers
      BY <2>2, ConstantsAssumption DEF Side
    <3>. QED
      BY <1>0, <1>1, <1>2, <1>8, <2>2, <3>1 DEF AllGone, Discarding, Leaving
  <2>. QED
    BY <2>1, <2>2
<1>10. \A u \in Threads : pc'[u] \in Leaving \ {"mark"} => pc'[u] = pc[u]
  BY <1>2, <1>3 DEF Leaving
<1>11. Disconnects'
  BY <1>0, <1>1, <1>9, <1>10 DEF EndInv, Disconnects, Leaving
<1>12. Discards'
  <2>1. Sent' = Sent /\ Received' = Received /\ Dropped' = Dropped
    BY <1>1 DEF Sent, Received, Dropped
  <2>. QED
    BY <1>0, <1>9, <1>10, <2>1 DEF EndInv, Discards, Leaving
<1>13. FreedOnce'
  BY <1>1, <1>9 DEF EndInv, FreedOnce
<1>. QED
  BY <1>5, <1>7, <1>9, <1>11, <1>12, <1>13 DEF EndInv

LEMMA MarkEnd ==
  ASSUME CoreInv, NEW t \in Threads, MovesOut(t), Mark(t)
  PROVE  /\ EndInv' /\ (Discarding' <=> Discarding)
         /\ Sent' = Sent /\ Received' = Received /\ Dropped' = Dropped /\ PositionsOK' /\ Marked(tail')
<1>0. Senders \subseteq Threads /\ Receivers \subseteq Threads /\ ChanTypeOK /\ RingInv /\ EndInv
  BY ConstantsAssumption DEF CoreInv
<1>1. /\ pc[t] = "mark" /\ tail' = Unmark(tail) + mark_bit /\ pos'[t] = Unmark(tail)
      /\ UNCHANGED <<head, dhead, handles, destroy, freed>>
      /\ pc'[t] = IF Marked(tail) THEN AfterMark(t) ELSE "disconnect"
  BY <1>0 DEF Mark, Goto, ChanTypeOK, endVars
<1>2. pc'[t] \in {"disconnect", "discard_start", "destroy"} /\ (pc'[t] = "destroy" => t \in Senders)
  BY <1>1 DEF AfterMark
<1>3. \A u \in Threads : u # t => pc'[u] = pc[u] /\ pos'[u] = pos[u]
  BY DEF MovesOut, OthersSame
<1>4. Marked(tail') /\ Unmark(tail') = Unmark(tail)
  <2>1. Sent \in Nat /\ Unmark(tail) = PosOf(Sent)
    BY <1>0, PosFacts DEF RingInv
  <2>. QED
    BY <1>1, <2>1, PosParts
<1>5. Sent' = Sent /\ Received' = Received /\ Dropped' = Dropped
  BY <1>1, <1>4 DEF Sent, Received, Dropped
<1>6. PositionsOK'
  BY <1>0, <1>1, <1>4, <1>5 DEF RingInv, PositionsOK
<1>7. /\ HandlesMatchThreads' /\ LastOneLeaves' /\ FreedOnce'
      /\ AllGone(Senders)' <=> AllGone(Senders)
      /\ AllGone(Receivers)' <=> AllGone(Receivers)
  BY <1>0, <1>1, <1>2, StillLeaving DEF Leaving, MovesOut
<1>8. Discarding' <=> Discarding
  <2>1. t \in Receivers => t \notin Senders
    BY ConstantsAssumption
  <2>. QED
    BY <1>0, <1>1, <1>2, <1>3, <2>1 DEF Discarding
<1>9. Disconnects'
  BY <1>0, <1>1, <1>3, <1>4, <1>7 DEF EndInv, Disconnects
<1>10. Discards'
  <2>1. t \in Receivers => t \notin Senders
    BY ConstantsAssumption
  <2>. QED
    BY <1>0, <1>2, <1>3, <1>5, <1>7, <2>1 DEF EndInv, Discards
<1>. QED
  BY <1>4, <1>5, <1>6, <1>7, <1>8, <1>9, <1>10 DEF EndInv

LEMMA DisconnectEnd ==
  ASSUME CoreInv, NEW t \in Threads, MovesOut(t), Disconnect(t)
  PROVE  EndInv' /\ (Discarding' <=> Discarding)
<1>0. Senders \subseteq Threads /\ Receivers \subseteq Threads /\ ChanTypeOK /\ EndInv
  BY ConstantsAssumption DEF CoreInv
<1>1. /\ pc[t] = "disconnect" /\ UNCHANGED <<head, tail, pos, dhead, handles, destroy, freed>>
      /\ pc'[t] = AfterMark(t)
  BY <1>0 DEF Disconnect, Goto, ChanTypeOK, endVars, chanVars
<1>2. pc'[t] \in {"discard_start", "destroy"} /\ (pc'[t] = "destroy" => t \in Senders)
  BY <1>1 DEF AfterMark
<1>3. \A u \in Threads : u # t => pc'[u] = pc[u]
  BY DEF MovesOut, OthersSame
<1>4. Sent' = Sent /\ Received' = Received /\ Dropped' = Dropped
  BY <1>1 DEF Sent, Received, Dropped
<1>5. /\ HandlesMatchThreads' /\ LastOneLeaves' /\ FreedOnce'
      /\ AllGone(Senders)' <=> AllGone(Senders)
      /\ AllGone(Receivers)' <=> AllGone(Receivers)
  BY <1>0, <1>1, <1>2, StillLeaving DEF Leaving, MovesOut
<1>6. t \in Receivers => t \notin Senders
  BY ConstantsAssumption
<1>7. Discarding' <=> Discarding
  BY <1>0, <1>1, <1>2, <1>3, <1>6 DEF Discarding
<1>8. Disconnects'
  BY <1>0, <1>1, <1>2, <1>3, <1>5 DEF EndInv, Disconnects, Leaving
<1>9. Discards'
  BY <1>0, <1>2, <1>3, <1>4, <1>5, <1>6 DEF EndInv, Discards
<1>. QED
  BY <1>5, <1>7, <1>8, <1>9 DEF EndInv

LEMMA DiscardStartEnd ==
  ASSUME CoreInv, NEW t \in Threads, MovesOut(t), DiscardStart(t)
  PROVE  EndInv' /\ ~Discarding /\ Dropped' = Received
<1>0. Senders \subseteq Threads /\ Receivers \subseteq Threads /\ ChanTypeOK /\ RingInv /\ EndInv
  BY ConstantsAssumption DEF CoreInv
<1>1. /\ pc[t] = "discard_start" /\ UNCHANGED <<head, tail, pos, handles, destroy, freed>>
      /\ pc'[t] = "discard" /\ dhead' = head
  BY <1>0 DEF DiscardStart, Goto, ChanTypeOK, chanVars
<1>2. t \in Receivers /\ \A u \in Receivers : u # t => pc[u] = "gone" /\ pc'[u] = "gone"
  <2>1. t \in Receivers
    BY <1>1, ConstantsAssumption DEF CoreInv, SidesOK
  <2>. QED
    BY <1>0, <1>1, <2>1, LastOne DEF Leaving, MovesOut, OthersSame
<1>3. \A u \in Threads : u # t => pc'[u] = pc[u]
  BY DEF MovesOut, OthersSame
<1>4. Sent' = Sent /\ Received' = Received /\ Dropped' = Received
  BY <1>1 DEF Sent, Received, Dropped
<1>5. /\ HandlesMatchThreads' /\ LastOneLeaves' /\ FreedOnce'
      /\ AllGone(Senders)' <=> AllGone(Senders)
      /\ AllGone(Receivers)' <=> AllGone(Receivers)
  BY <1>0, <1>1, StillLeaving DEF Leaving, MovesOut
<1>6. ~Discarding
  BY <1>1, <1>2 DEF Discarding
<1>7. Disconnects'
  BY <1>0, <1>1, <1>3, <1>5 DEF EndInv, Disconnects, Leaving
<1>8. Discards'
  <2>1. Received <= Sent /\ Received \in Nat
    BY <1>0, PosFacts DEF RingInv, PositionsOK
  <2>2. ~AllGone(Receivers)'
    BY <1>1, <1>2 DEF AllGone
  <2>. QED
    BY <1>1, <1>2, <1>4, <2>1, <2>2 DEF Discards
<1>. QED
  BY <1>4, <1>5, <1>6, <1>7, <1>8 DEF EndInv

LEMMA DiscardDoneEnd ==
  ASSUME CoreInv, NEW t \in Threads, MovesOut(t), DiscardDone(t)
  PROVE  EndInv' /\ (Discarding' <=> Discarding)
<1>0. Senders \subseteq Threads /\ Receivers \subseteq Threads /\ ChanTypeOK /\ EndInv
  BY ConstantsAssumption DEF CoreInv
<1>1. /\ pc[t] = "discard" /\ UNCHANGED <<head, tail, pos, dhead, handles, destroy, freed>>
      /\ pc'[t] = "destroy" /\ dhead = pos[t]
  BY <1>0 DEF DiscardDone, Goto, ChanTypeOK, endVars, chanVars
<1>2. t \in Receivers /\ \A u \in Receivers : u # t => pc[u] = "gone" /\ pc'[u] = "gone"
  <2>1. t \in Receivers
    BY <1>1, ConstantsAssumption DEF CoreInv, SidesOK
  <2>. QED
    BY <1>0, <1>1, <2>1, LastOne DEF Leaving, MovesOut, OthersSame
<1>3. \A u \in Threads : u # t => pc'[u] = pc[u]
  BY DEF MovesOut, OthersSame
<1>4. Sent' = Sent /\ Received' = Received /\ Dropped' = Dropped /\ Dropped = Sent
  <2>1. pos[t] = Unmark(tail)
    BY <1>0, <1>1, <1>2 DEF EndInv, Disconnects
  <2>. QED
    BY <1>1, <2>1 DEF Sent, Received, Dropped
<1>5. /\ HandlesMatchThreads' /\ LastOneLeaves' /\ FreedOnce'
      /\ AllGone(Senders)' <=> AllGone(Senders)
      /\ AllGone(Receivers)' <=> AllGone(Receivers)
  BY <1>0, <1>1, StillLeaving DEF Leaving, MovesOut
<1>6. Discarding' <=> Discarding
  BY <1>0, <1>1, <1>2, <1>3 DEF Discarding
<1>7. Disconnects'
  BY <1>0, <1>1, <1>3, <1>5 DEF EndInv, Disconnects, Leaving
<1>8. Discards'
  BY <1>1, <1>2, <1>4 DEF Discards
<1>. QED
  BY <1>5, <1>6, <1>7, <1>8 DEF EndInv

LEMMA DestroyEnd ==
  ASSUME CoreInv, NEW t \in Threads, MovesOut(t), Destroy(t)
  PROVE  EndInv' /\ (Discarding' <=> Discarding)
<1>0. Senders \subseteq Threads /\ Receivers \subseteq Threads /\ ChanTypeOK /\ EndInv
  BY ConstantsAssumption DEF CoreInv
<1>1. /\ pc[t] = "destroy" /\ UNCHANGED <<head, tail, pos, dhead, handles>>
      /\ pc'[t] = "gone" /\ destroy' = TRUE /\ freed' = IF destroy THEN freed + 1 ELSE freed
  BY <1>0 DEF Destroy, Goto, ChanTypeOK, chanVars
<1>2. \A u \in Threads : u # t => pc'[u] = pc[u]
  BY DEF MovesOut, OthersSame
<1>3. /\ t \in Side(t) /\ (\A u \in Side(t) \ {t} : u \in Threads /\ pc[u] = "gone")
      /\ t \in Senders => t \notin Receivers /\ Side(t) = Senders
      /\ t \in Receivers => t \notin Senders /\ Side(t) = Receivers
      /\ t \in Senders \/ t \in Receivers
  BY <1>0, <1>1, LastOne DEF Leaving
<1>4. Sent' = Sent /\ Received' = Received /\ Dropped' = Dropped
  BY <1>1 DEF Sent, Received, Dropped
<1>5. /\ t \in Senders => /\ ~AllGone(Senders) /\ AllGone(Senders)'
                          /\ AllGone(Receivers)' <=> AllGone(Receivers)
      /\ t \in Receivers => /\ ~AllGone(Receivers) /\ AllGone(Receivers)'
                            /\ AllGone(Senders)' <=> AllGone(Senders)
  BY <1>0, <1>1, <1>2, <1>3 DEF AllGone
<1>6. HandlesMatchThreads'
  BY <1>0, <1>1, <1>2 DEF EndInv, HandlesMatchThreads, Leaving
<1>7. LastOneLeaves'
  <2>1. \A u \in Threads : \A v \in Side(u) : v \in Threads
    BY <1>0 DEF Side
  <2>2. \A u \in Threads : pc'[u] \in Leaving => pc[u] \in Leaving
    BY <1>1, <1>2 DEF Leaving
  <2>. QED
    BY <1>0, <1>1, <2>1, <2>2 DEF EndInv, LastOneLeaves, Side
<1>8. Marked(tail)
  BY <1>0, <1>1 DEF EndInv, Disconnects, Leaving
<1>9. Disconnects'
  BY <1>0, <1>1, <1>2, <1>8 DEF EndInv, Disconnects
<1>10. Discards'
  <2>1. t \in Receivers => Dropped = Sent
    BY <1>0, <1>1 DEF EndInv, Discards
  <2>2. \A u \in Receivers : pc'[u] \in {"discard", "destroy"} => pc'[u] = pc[u]
    BY <1>0, <1>1, <1>2
  <2>3. AllGone(Receivers)' => Dropped = Sent
    BY <1>0, <1>3, <1>5, <2>1 DEF EndInv, Discards
  <2>. QED
    BY <1>0, <1>4, <2>2, <2>3 DEF EndInv, Discards
<1>11. FreedOnce'
  <2>1. freed = 0 /\ (destroy <=> AllGone(Senders) \/ AllGone(Receivers))
    BY <1>0, <1>3, <1>5 DEF EndInv, FreedOnce
  <2>2. freed' = IF destroy THEN 1 ELSE 0
    BY <1>1, <2>1
  <2>. QED
    BY <1>1, <1>3, <1>5, <2>1, <2>2 DEF FreedOnce
<1>12. Discarding' <=> Discarding
  BY <1>0, <1>1, <1>2 DEF Discarding
<1>. QED
  BY <1>6, <1>7, <1>9, <1>10, <1>11, <1>12 DEF EndInv

LEMMA DropEnd ==
  ASSUME CoreInv, ChanTypeOK', NEW t \in Threads, MovesOut(t), DropMsg(t)
  PROVE  /\ EndInv' /\ RingInv' /\ Dropped' = Dropped + 1 /\ Dropped < Sent
         /\ Slot(Dropped).stamp = PosOf(Dropped) + 1 /\ First = Dropped /\ First' = Dropped'
         /\ Sent' = Sent /\ Received' = Received
<1>0. Senders \subseteq Threads /\ Receivers \subseteq Threads /\ ChanTypeOK /\ RingInv /\ EndInv
  BY ConstantsAssumption DEF CoreInv
<1>1. /\ pc[t] = "discard" /\ UNCHANGED <<head, tail, pc, pos, calls, handles, destroy, freed>>
      /\ buffer[Index(dhead)].stamp = dhead + 1
      /\ buffer' = [buffer EXCEPT ![Index(dhead)].msg = NoMsg] /\ dhead' = Advance(dhead)
  BY DEF DropMsg
<1>2. t \in Receivers /\ \A u \in Receivers : u # t => pc[u] = "gone"
  <2>1. t \in Receivers
    BY <1>1, ConstantsAssumption DEF CoreInv, SidesOK
  <2>. QED
    BY <1>0, <1>1, <2>1, LastOne DEF Leaving
<1>3. Discarding /\ Discarding'
  BY <1>1, <1>2 DEF Discarding
<1>4. Received <= Dropped /\ Dropped <= Sent
  BY <1>0, <1>1, <1>2 DEF EndInv, Discards
<1>5. /\ HandlesMatchThreads' /\ LastOneLeaves' /\ FreedOnce'
      /\ AllGone(Senders)' <=> AllGone(Senders)
      /\ AllGone(Receivers)' <=> AllGone(Receivers)
  BY <1>0, <1>1, StillLeaving DEF Leaving, MovesOut
<1>6. First = Dropped /\ First' = Dropped'
  BY <1>0, <1>3, <1>5, WhoIsFirst, WhoIsFirstNext DEF EndInv
<1>7. /\ RingInv' /\ Dropped' = Dropped + 1 /\ Dropped < Sent
      /\ Slot(Dropped).stamp = PosOf(Dropped) + 1
  BY <1>0, <1>1, <1>4, <1>6, RingDrop
<1>8. Sent' = Sent /\ Received' = Received
  BY <1>1 DEF Sent, Received
<1>9. Disconnects'
  BY <1>0, <1>1, <1>5 DEF EndInv, Disconnects
<1>10. Discards'
  <2>1. ~AllGone(Receivers)' /\ \A u \in Receivers : pc'[u] # "destroy"
    BY <1>1, <1>2 DEF AllGone
  <2>2. Received <= Dropped + 1 /\ Dropped + 1 <= Sent
    <3>1. Sent \in Nat /\ Received \in Nat /\ Dropped \in Nat
      BY <1>0, PosFacts DEF RingInv
    <3>. QED
      BY <1>4, <1>7, <3>1
  <2>. QED
    BY <1>7, <1>8, <2>1, <2>2 DEF Discards
<1>. QED
  BY <1>5, <1>6, <1>7, <1>8, <1>9, <1>10 DEF EndInv

(* The steps of a thread that leaves.                                      *)
LEMMA LeavingCore ==
  ASSUME CoreInv, NEW t \in Threads, EndStep(t) \/ Release(t)
  PROVE  /\ CoreInv' /\ MovesOut(t) /\ Sent' = Sent /\ Received' = Received
         /\ ~DropMsg(t) => First' = First
         /\ Marked(tail) => Marked(tail')
         /\ ~Mark(t) => tail' = tail
<1>1. ChanTypeOK' /\ MovesOut(t) /\ UNCHANGED <<mode, got, calls>>
  BY EndTypes DEF CoreInv
<1>2. \A u \in Threads : SidesOK(u)'
  BY <1>1, OtherSides DEF CoreInv, MovesOut
<1>3. pc[t] \notin HasTurn /\ pc'[t] \notin HasTurn
  BY <1>1 DEF MovesOut, Leaving, HasTurn, Writing, Taking
<1>4. ChanTypeOK /\ RingInv /\ EndInv
  BY DEF CoreInv
<1>5. CASE DropMsg(t)
  <2>1. tail' = tail /\ ~Mark(t)
    BY <1>5 DEF DropMsg, Mark
  <2>. QED
    BY <1>1, <1>2, <1>5, <2>1, DropEnd DEF CoreInv
<1>6. CASE ~DropMsg(t)
  <2>0. buffer' = buffer /\ head' = head
    BY <1>6 DEF EndStep, Release, Mark, Disconnect, DiscardStart, DiscardDone, Destroy, chanVars
  <2>1. ASSUME EndInv', Sent' = Sent, Received' = Received, PositionsOK', First' = First PROVE CoreInv'
    <3>1. RingInv'
      BY <1>1, <1>3, <1>4, <2>0, <2>1, NoTurn, RingQuiet DEF MovesOut, HasTurn
    <3>. QED
      BY <1>1, <1>2, <2>1, <3>1 DEF CoreInv
  <2>2. ASSUME EndInv', Discarding' <=> Discarding, Received' = Received, Dropped' = Dropped
        PROVE  First' = First
    BY <1>1, <1>4, <2>2, WhoIsFirst, WhoIsFirstNext DEF EndInv
  <2>3. CASE Mark(t)
    BY <1>1, <2>1, <2>2, <2>3, MarkEnd
  <2>4. ASSUME tail' = tail, dhead' = dhead
        PROVE  Sent' = Sent /\ Received' = Received /\ Dropped' = Dropped /\ PositionsOK'
    BY <1>4, <2>0, <2>4 DEF RingInv, PositionsOK, Sent, Received, Dropped
  <2>5. CASE Release(t)
    <3>1. tail' = tail /\ dhead' = dhead
      BY <2>5 DEF Release, chanVars
    <3>. QED
      BY <1>1, <1>4, <2>1, <2>2, <2>4, <2>5, <3>1, ReleaseEnd
  <2>6. CASE Disconnect(t)
    <3>1. tail' = tail /\ dhead' = dhead
      BY <2>6 DEF Disconnect, chanVars, endVars
    <3>. QED
      BY <1>1, <2>1, <2>2, <2>4, <2>6, <3>1, DisconnectEnd
  <2>7. CASE DiscardDone(t)
    <3>1. tail' = tail /\ dhead' = dhead
      BY <2>7 DEF DiscardDone, chanVars, endVars
    <3>. QED
      BY <1>1, <2>1, <2>2, <2>4, <2>7, <3>1, DiscardDoneEnd
  <2>8. CASE Destroy(t)
    <3>1. tail' = tail /\ dhead' = dhead
      BY <2>8 DEF Destroy, chanVars
    <3>. QED
      BY <1>1, <2>1, <2>2, <2>4, <2>8, <3>1, DestroyEnd
  <2>9. CASE DiscardStart(t)
    <3>1. EndInv' /\ ~Discarding /\ Dropped' = Received
      BY <1>1, <2>9, DiscardStartEnd
    <3>2. tail' = tail /\ dhead' = head
      BY <2>9 DEF DiscardStart, chanVars
    <3>3. Sent' = Sent /\ Received' = Received /\ PositionsOK'
      BY <1>4, <2>0, <3>2 DEF RingInv, PositionsOK, Sent, Received
    <3>4. First' = First
      BY <1>1, <1>4, <3>1, <3>3, WhoIsFirst, WhoIsFirstNext DEF EndInv
    <3>. QED
      BY <1>1, <2>1, <3>1, <3>2, <3>3, <3>4
  <2>. QED
    BY <1>6, <2>3, <2>5, <2>6, <2>7, <2>8, <2>9 DEF EndStep
<1>. QED
  BY <1>5, <1>6

LEMMA InitCore == Init => CoreInv
<1> SUFFICES ASSUME Init PROVE CoreInv
  OBVIOUS
<1>0. /\ Senders \subseteq Threads /\ Receivers \subseteq Threads
      /\ Senders # {} /\ Receivers # {}
  BY ConstantsAssumption
<1>1. /\ head = 0 /\ tail = 0 /\ dhead = 0 /\ handles = Threads /\ destroy = FALSE /\ freed = 0
      /\ buffer = [i \in 0..(cap - 1) |-> [stamp |-> i, msg |-> NoMsg]]
      /\ \A t \in Threads : pc[t] = "idle"
  BY DEF Init
<1>2. ChanTypeOK
  <2>1. <<>> \in Seq(Msgs)
    BY EmptySeq
  <2>2. NoMsg \in Msgs /\ \A i \in 0..(cap - 1) : i \in Nat
    BY Sizes DEF Msgs
  <2>3. buffer \in [0..(cap - 1) -> [stamp : Nat, msg : Msgs]]
    BY <1>1, <2>2
  <2>4. /\ pc \in [Threads -> Locs] /\ pos \in [Threads -> Nat] /\ calls \in [Threads -> Nat]
        /\ mode \in [Threads -> {"try", "block", "timed"}]
    BY DEF Init, Locs
  <2>5. got \in [Receivers -> Seq(Msgs)]
    BY <2>1 DEF Init
  <2>6. head \in Nat /\ tail \in Nat /\ dhead \in Nat /\ freed \in Nat /\ handles \in SUBSET Threads
    BY <1>1
  <2>7. destroy \in BOOLEAN
    BY <1>1
  <2>. QED
    BY <2>3, <2>4, <2>5, <2>6, <2>7 DEF ChanTypeOK
<1>3. \A t \in Threads : SidesOK(t)
  BY <1>1 DEF SidesOK, SendLocs, RecvLocs
<1>4. ASSUME NEW k \in 0..(cap - 1) PROVE k % cap = k /\ PosOf(k) = k
  <2>1. k \in Nat /\ k < cap /\ k = 0 * cap + k
    BY Sizes
  <2>2. k \div cap = 0 /\ k % cap = k
    BY <2>1, Sizes, Quotient
  <2>. QED
    BY <2>1, <2>2, Sizes DEF PosOf
<1>5. 0 \in 0..(cap - 1)
  BY Sizes
<1>6. Ordinal(0) = 0 /\ PosOf(0) = 0 /\ Unmark(0) = 0
  BY <1>4, <1>5, PosParts
<1>7. Sent = 0 /\ Received = 0
  BY <1>1, <1>6 DEF Sent, Received
<1>8. PositionsOK
  BY <1>1, <1>6, <1>7, Sizes DEF PositionsOK, IsPos
<1>9. TurnsOK
  BY <1>1 DEF TurnsOK, SendTurnOK, RecvTurnOK, CheckOK, Writing, Taking
<1>10. FullSlots
  BY <1>7 DEF FullSlots
<1>11. FreeSlots
  <2> SUFFICES ASSUME NEW k \in 0..(0 + cap - 1)
               PROVE  Slot(k).stamp = PosOf(k) /\ Slot(k).msg = NoMsg
    BY <1>7 DEF FreeSlots
  <2>1. k \in 0..(cap - 1)
    BY Sizes
  <2>2. k % cap = k /\ PosOf(k) = k
    BY <1>4, <2>1
  <2>. QED
    BY <1>1, <2>1, <2>2 DEF Slot
<1>12. TurnsAreTakenOnce
  BY <1>1 DEF TurnsAreTakenOnce, At, Writing, Taking
<1>13. ~AllGone(Senders) /\ ~AllGone(Receivers)
  BY <1>0, <1>1 DEF AllGone
<1>14. EndInv
  BY <1>0, <1>1, <1>13 DEF EndInv, HandlesMatchThreads, LastOneLeaves, Disconnects, Discards, FreedOnce, Leaving
<1>. QED
  BY <1>2, <1>3, <1>8, <1>9, <1>10, <1>11, <1>12, <1>14 DEF CoreInv, RingInv

LEMMA CoreSame ==
  ASSUME CoreInv, UNCHANGED vars
  PROVE  CoreInv'
<1>1. UNCHANGED <<head, tail, buffer, pc, pos, mode, got, dhead, handles, destroy, freed, calls>>
  BY DEF vars, chanVars, endVars
<1>2. ChanTypeOK' /\ \A t \in Threads : SidesOK(t)'
  BY <1>1 DEF CoreInv, ChanTypeOK, SidesOK
<1>3. /\ Sent' = Sent /\ Received' = Received /\ Dropped' = Dropped
      /\ \A t \in Threads : Turn(t)' = Turn(t) /\ Message(t)' = Message(t)
  BY <1>1 DEF Sent, Received, Dropped, Turn, Message
<1>4. First' = First
  BY <1>1 DEF First, At
<1>5. PositionsOK' /\ TurnsOK'
  BY <1>1, <1>3, <1>4
  DEF CoreInv, RingInv, PositionsOK, TurnsOK, SendTurnOK, RecvTurnOK, CheckOK, IsPos, Slot
<1>6. FullSlots' /\ FreeSlots' /\ TurnsAreTakenOnce'
  BY <1>1, <1>3, <1>4 DEF CoreInv, RingInv, FullSlots, FreeSlots, TurnsAreTakenOnce, At, Slot
<1>7. EndInv'
  BY <1>1, <1>3 DEF CoreInv, EndInv, HandlesMatchThreads, LastOneLeaves, Disconnects, Discards,
                    FreedOnce, AllGone, Side
<1>. QED
  BY <1>2, <1>5, <1>6, <1>7 DEF CoreInv, RingInv

LEMMA CoreStep ==
  ASSUME CoreInv, NEW t \in Threads, Step(t)
  PROVE  CoreInv'
<1>1. CASE CallStep(t)
  <2>1. CASE RingStep(t)
    BY <2>1, CasTailCore, CasHeadCore, OwnerCore DEF RingStep
  <2>2. CASE ~RingStep(t)
    BY <1>1, <2>2, LoadingCore, WakerOnlyCore, CallCore DEF CallStep
  <2>. QED
    BY <2>1, <2>2
<1>2. CASE EndStep(t) \/ Release(t)
  BY <1>2, LeavingCore
<1>. QED
  BY <1>1, <1>2, StepCases

(* The ring of slots, the handles and the threads fit together in every    *)
(* reachable state, whatever the capacity and the threads.                 *)
THEOREM CoreInvariance == Spec => []CoreInv
<1>1. CoreInv /\ [Next]_vars => CoreInv'
  BY NextIsStep, CoreStep, CoreSame
<1>. QED
  BY InitCore, <1>1, PTL DEF Spec

(* A sender has a free slot for itself and a receiver one with a message:  *)
(* the stamp of the slot says so, and compare_exchange gives the turn to   *)
(* one thread.                                                             *)
THEOREM ExclusiveSlots == Spec => []SlotsAreExclusive
<1>1. CoreInv => SlotsAreExclusive
  <2> SUFFICES ASSUME CoreInv PROVE SlotsAreExclusive
    OBVIOUS
  <2>0. ChanTypeOK /\ RingInv
    BY DEF CoreInv
  <2>1. ASSUME NEW t \in Threads, pc[t] \in Writing \cup Taking
        PROVE  /\ Turn(t) \in Nat /\ Index(pos[t]) = Turn(t) % cap /\ buffer[Index(pos[t])] = Slot(Turn(t))
               /\ SendTurnOK(t) /\ RecvTurnOK(t)
    BY <2>0, <2>1, OwnersTurn DEF RingInv, TurnsOK
  <2>2. \A t \in At({"s_write"}) : buffer[Index(pos[t])].msg = NoMsg
    BY <2>1 DEF At, SendTurnOK, Writing
  <2>3. \A t \in At({"s_store"}) : buffer[Index(pos[t])].msg # NoMsg
    <3> SUFFICES ASSUME NEW t \in Threads, pc[t] = "s_store"
                 PROVE  buffer[Index(pos[t])].msg # NoMsg
      BY DEF At
    <3>1. buffer[Index(pos[t])].msg = Message(t)
      BY <2>1 DEF SendTurnOK, Writing
    <3>. QED
      BY <3>1 DEF Message, NoMsg
  <2>4. \A t \in At({"r_read"}) : buffer[Index(pos[t])].msg # NoMsg
    BY <2>1 DEF At, RecvTurnOK, Taking
  <2>5. ASSUME NEW t \in Threads, NEW u \in Threads, pc[t] \in Writing \cup Taking,
               pc[u] \in Writing \cup Taking, Index(pos[t]) = Index(pos[u])
        PROVE  t = u
    BY <2>0, <2>1, <2>5, OwnersApart
  <2>. QED
    BY <2>2, <2>3, <2>4, <2>5 DEF SlotsAreExclusive, At, Writing, Taking
<1>. QED
  BY <1>1, CoreInvariance, PTL

-----------------------------------------------------------------------------
(* The messages in the channel.                                            *)
LEMMA FunctionIsSeq ==
  ASSUME NEW S, NEW n \in Nat, NEW f \in [1..n -> S]
  PROVE  f \in Seq(S) /\ Len(f) = n
<1>1. f \in Seq(S)
  OBVIOUS
<1>2. Len(f) \in Nat /\ DOMAIN f = 1..Len(f)
  BY <1>1, LenProperties
<1>3. 1..Len(f) = 1..n
  BY <1>2
<1>4. CASE Len(f) < n
  BY <1>2, <1>3, <1>4
<1>5. CASE n < Len(f)
  BY <1>2, <1>3, <1>5
<1>. QED
  BY <1>1, <1>2, <1>4, <1>5

(* Where the message of a turn is: in its slot, or with its writer.        *)
LEMMA MsgInSlot ==
  ASSUME NEW k \in Nat
  PROVE  /\ buffer[k % cap].stamp = PosOf(k) + 1 => MsgAt(PosOf(k)) = buffer[k % cap].msg
         /\ buffer'[k % cap].stamp = PosOf(k) + 1 => MsgAt(PosOf(k))' = buffer'[k % cap].msg
<1>1. Index(PosOf(k)) = k % cap
  BY PosParts
<1>. QED
  BY <1>1 DEF MsgAt

LEMMA MsgOfWriter ==
  CoreInv => \A t \in Threads, k \in Nat :
                pc[t] \in Writing /\ Turn(t) = k => MsgAt(PosOf(k)) = Message(t)
<1> SUFFICES ASSUME CoreInv, NEW t \in Threads, NEW k \in Nat, pc[t] \in Writing, Turn(t) = k
             PROVE  MsgAt(PosOf(k)) = Message(t)
  OBVIOUS
<1>0. ChanTypeOK /\ RingInv
  BY DEF CoreInv
<1>1. buffer[Index(PosOf(k))] = Slot(k) /\ PosOf(k) \in Nat
  BY PosParts DEF Slot
<1>2. Slot(k).stamp = PosOf(k) /\ pos[t] = PosOf(k)
  BY <1>0, OwnersTurn
<1>3. Slot(k).stamp # PosOf(k) + 1
  BY <1>1, <1>2
<1>4. ASSUME NEW u \in At(Writing), pos[u] = PosOf(k) PROVE u = t
  <2>1. u \in Threads /\ Turn(u) = k
    BY <1>4, PosParts DEF At, Turn
  <2>. QED
    BY <1>0, <1>4, <2>1 DEF RingInv, TurnsAreTakenOnce, At
<1>5. t \in At(Writing)
  BY DEF At
<1>6. (CHOOSE u \in At(Writing) : pos[u] = PosOf(k)) = t
  BY <1>2, <1>4, <1>5
<1>. QED
  BY <1>1, <1>3, <1>6 DEF MsgAt, Writing

LEMMA MsgOfWriterNext ==
  CoreInv' => \A t \in Threads, k \in Nat :
                 pc'[t] \in Writing /\ Turn(t)' = k => MsgAt(PosOf(k))' = Message(t)'
<1>1. (CoreInv => \A t \in Threads, k \in Nat :
                     pc[t] \in Writing /\ Turn(t) = k => MsgAt(PosOf(k)) = Message(t))'
  BY MsgOfWriter, PTL
<1>. QED
  BY <1>1

LEMMA EveryTurnHasMsg ==
  ASSUME CoreInv, NEW k \in Nat, First <= k, k < Sent
  PROVE  /\ MsgAt(PosOf(k)) \in Msgs
         /\ Slot(k).stamp = PosOf(k) + 1 \/ \E t \in Threads : pc[t] \in Writing /\ Turn(t) = k
<1>0. ChanTypeOK /\ RingInv /\ EndInv
  BY DEF CoreInv
<1>1. k \in Received..(Sent - 1)
  BY <1>0, FirstBounds, PosFacts DEF RingInv
<1>2. CASE Slot(k).stamp = PosOf(k) + 1
  BY <1>0, <1>2, SlotType, MsgInSlot DEF Slot
<1>3. ASSUME NEW t \in At(Writing), Turn(t) = k
      PROVE  t \in Threads /\ pc[t] \in Writing /\ MsgAt(PosOf(k)) \in Msgs
  <2>1. t \in Threads /\ t \in Senders /\ pc[t] \in Writing
    BY ConstantsAssumption DEF At, CoreInv, SidesOK, Writing, SendLocs
  <2>. QED
    BY <1>0, <1>3, <2>1, MsgOfWriter DEF Message, Msgs, ChanTypeOK
<1>. QED
  BY <1>0, <1>1, <1>2, <1>3 DEF RingInv, FullSlots

LEMMA QueueParts ==
  CoreInv => /\ Queue \in Seq(Msgs) /\ Len(Queue) = Sent - First
             /\ Sent \in Nat /\ First \in Nat /\ First <= Sent
             /\ \A k \in Nat : First <= k /\ k < Sent => Queue[(k - First) + 1] = MsgAt(PosOf(k))
<1> SUFFICES ASSUME CoreInv
             PROVE  /\ Queue \in Seq(Msgs) /\ Len(Queue) = Sent - First
                    /\ Sent \in Nat /\ First \in Nat /\ First <= Sent
                    /\ \A k \in Nat : First <= k /\ k < Sent => Queue[(k - First) + 1] = MsgAt(PosOf(k))
  OBVIOUS
<1>1. Sent \in Nat /\ First \in Nat /\ First <= Sent
  BY FirstBounds, PosFacts DEF CoreInv, RingInv
<1>2. Sent - First \in Nat
  BY <1>1
<1>3. Queue = [i \in 1..(Sent - First) |-> MsgAt(PosOf(First + i - 1))]
  BY DEF Queue, Sent
<1>4. ASSUME NEW i \in 1..(Sent - First) PROVE MsgAt(PosOf(First + i - 1)) \in Msgs
  <2>1. First + i - 1 \in Nat /\ First <= First + i - 1 /\ First + i - 1 < Sent
    BY <1>1
  <2>. QED
    BY <2>1, EveryTurnHasMsg
<1>5. Queue \in [1..(Sent - First) -> Msgs]
  BY <1>3, <1>4
<1>6. Queue \in Seq(Msgs) /\ Len(Queue) = Sent - First
  BY <1>2, <1>5, FunctionIsSeq
<1>7. ASSUME NEW k \in Nat, First <= k, k < Sent PROVE Queue[(k - First) + 1] = MsgAt(PosOf(k))
  <2>1. (k - First) + 1 \in 1..(Sent - First) /\ First + ((k - First) + 1) - 1 = k
    BY <1>1, <1>7
  <2>. QED
    BY <1>3, <2>1
<1>. QED
  BY <1>1, <1>6, <1>7

LEMMA QueuePartsNext ==
  CoreInv' => /\ Queue' \in Seq(Msgs) /\ Len(Queue') = Sent' - First'
              /\ Sent' \in Nat /\ First' \in Nat /\ First' <= Sent'
              /\ \A k \in Nat : First' <= k /\ k < Sent' => Queue'[(k - First') + 1] = MsgAt(PosOf(k))'
<1>1. (CoreInv => /\ Queue \in Seq(Msgs) /\ Len(Queue) = Sent - First
                  /\ Sent \in Nat /\ First \in Nat /\ First <= Sent
                  /\ \A k \in Nat : First <= k /\ k < Sent => Queue[(k - First) + 1] = MsgAt(PosOf(k)))'
  BY QueueParts, PTL
<1>. QED
  BY <1>1

LEMMA QueueEmpty ==
  ASSUME CoreInv
  PROVE  Queue = <<>> <=> Sent = First
<1>1. Queue \in Seq(Msgs) /\ Len(Queue) = Sent - First
  BY QueueParts
<1>2. Sent \in Nat /\ First \in Nat
  BY PosFacts DEF CoreInv, RingInv
<1>3. Queue = <<>> <=> Len(Queue) = 0
  BY <1>1, EmptySeq
<1>. QED
  BY <1>1, <1>2, <1>3

-----------------------------------------------------------------------------
(* A call that gives up because the channel is full or empty is right.     *)
LEMMA FullOrEmpty ==
  ASSUME CoreInv, NEW t \in Threads
  PROVE  /\ /\ pc[t] = "s_head" \/ (pc[t] = "check2" /\ t \in Senders)
            /\ head + one_lap = pos[t]
            => Sent = Received + cap
         /\ /\ pc[t] = "r_tail" \/ (pc[t] = "check2" /\ t \in Receivers)
            /\ Unmark(tail) = pos[t]
            => Sent = Received
<1>0. ChanTypeOK /\ RingInv
  BY DEF CoreInv
<1>1. /\ Sent \in Nat /\ Received \in Nat /\ Unmark(tail) = PosOf(Sent) /\ head = PosOf(Received)
      /\ Received <= Sent /\ Sent <= Received + cap
  BY <1>0, PosFacts DEF RingInv, PositionsOK
<1>2. Turn(t) \in Nat /\ (IsPos(pos[t]) => pos[t] = PosOf(Turn(t)))
  BY <1>0, TurnPos
<1>3. TurnOK(t)
  BY <1>0 DEF RingInv, TurnsOK, TurnOK
<1>4. ASSUME pc[t] = "s_head" \/ (pc[t] = "check2" /\ t \in Senders), head + one_lap = pos[t]
      PROVE  Sent = Received + cap
  <2>1. IsPos(pos[t]) /\ Turn(t) <= Sent
    BY <1>3, <1>4 DEF TurnOK, SendTurnOK, CheckOK
  <2>2. PosOf(Received + cap) = PosOf(Turn(t)) /\ Received + cap \in Nat
    BY <1>1, <1>2, <1>4, <2>1, PosAdvance, Sizes
  <2>3. Received + cap = Turn(t)
    BY <1>2, <2>2, PosInjective
  <2>. QED
    BY <1>1, <2>1, <2>3, Sizes
<1>5. ASSUME pc[t] = "r_tail" \/ (pc[t] = "check2" /\ t \in Receivers), Unmark(tail) = pos[t]
      PROVE  Sent = Received
  <2>1. IsPos(pos[t]) /\ Turn(t) <= Received
    BY <1>3, <1>5, ConstantsAssumption DEF TurnOK, RecvTurnOK, CheckOK
  <2>2. Sent = Turn(t)
    BY <1>1, <1>2, <1>5, <2>1, PosInjective
  <2>. QED
    BY <1>1, <2>1, <2>2
<1>. QED
  BY <1>4, <1>5

(* LoadHeadForSend and LoadTailForRecv: the last load of a call that gives *)
(* up makes the stale values it has in hand true of that moment.           *)
THEOREM NotReadyTheorem == Spec => NotReadyIsTrue
<1> DEFINE Right(t) ==
      /\ pc[t] = "s_head" /\ pc'[t] \in {"idle", "register"} => Len(Queue) = cap \/ Marked(tail)
      /\ pc[t] = "r_tail" /\ pc'[t] \in {"idle", "register"} => Queue = <<>>
<1>1. ASSUME CoreInv, [Next]_vars, NEW t \in Threads PROVE Right(t)
  <2>0. ChanTypeOK /\ RingInv /\ EndInv
    BY <1>1 DEF CoreInv
  <2>1. /\ Sent \in Nat /\ Received \in Nat
        /\ First = IF Discarding THEN Dropped ELSE Received
        /\ Discarding => Marked(tail)
        /\ \A r \in Receivers : pc[r] \in CallLocs => ~Discarding
    BY <2>0, FirstBounds, PosFacts DEF RingInv
  <2>2. CASE UNCHANGED vars
    BY <2>2 DEF vars
  <2>3. ASSUME NEW u \in Threads, Step(u), u # t PROVE pc'[t] = pc[t]
    <3>1. MovesOn(u) \/ MovesOut(u)
      BY <1>1, <2>3, StepCases, CallTypes, EndTypes DEF CoreInv
    <3>. QED
      BY <2>3, <3>1 DEF MovesOn, MovesOut, OthersSame
  <2>4. ASSUME Step(t), pc[t] = "s_head", pc'[t] \in {"idle", "register"}
        PROVE  Len(Queue) = cap \/ Marked(tail)
    <3>1. LoadHeadForSend(t)
      BY <2>4 DEF Step, InCall, SendStep, RecvStep, WakerStep, EndStep, LoadTail, LoadStampForSend,
           CasTail, WriteMsg, StoreStampSent, LoadHead, LoadStampForRecv, CasHead, LoadTailForRecv,
           ReadMsg, StoreStampReceived, NotifyCheck, NotifyLock, Register, CheckFirst, CheckSecond,
           CheckDisconnected, Abort, WaitUntil, Deadline, Park, Unregister, Mark, Disconnect,
           DiscardStart, DropMsg, DiscardDone, Destroy, Call, Release
    <3>2. head + one_lap = pos[t]
      BY <2>0, <2>4, <3>1 DEF LoadHeadForSend, Goto, ChanTypeOK
    <3>3. Sent = Received + cap
      BY <1>1, <2>4, <3>2, FullOrEmpty
    <3>4. ~Marked(tail) => Sent - First = cap
      BY <2>1, <3>3, Sizes
    <3>. QED
      BY <1>1, <3>4, QueueParts
  <2>5. ASSUME Step(t), pc[t] = "r_tail", pc'[t] \in {"idle", "register"} PROVE Queue = <<>>
    <3>1. LoadTailForRecv(t)
      BY <2>5 DEF Step, InCall, SendStep, RecvStep, WakerStep, EndStep, LoadTail, LoadStampForSend,
           CasTail, WriteMsg, StoreStampSent, LoadHead, LoadStampForRecv, CasHead, LoadHeadForSend,
           ReadMsg, StoreStampReceived, NotifyCheck, NotifyLock, Register, CheckFirst, CheckSecond,
           CheckDisconnected, Abort, WaitUntil, Deadline, Park, Unregister, Mark, Disconnect,
           DiscardStart, DropMsg, DiscardDone, Destroy, Call, Release
    <3>2. Unmark(tail) = pos[t]
      BY <2>0, <2>5, <3>1 DEF LoadTailForRecv, Goto, ChanTypeOK
    <3>3. Sent = Received
      BY <1>1, <2>5, <3>2, FullOrEmpty
    <3>4. t \in Receivers
      BY <1>1, <2>5, ConstantsAssumption DEF CoreInv, SidesOK, RecvLocs
    <3>5. Sent = First
      BY <2>1, <2>5, <3>3, <3>4 DEF CallLocs, RecvLocs
    <3>. QED
      BY <1>1, <3>5, QueueEmpty
  <2>. QED
    BY <1>1, <2>2, <2>3, <2>4, <2>5, NextIsStep
<1>2. CoreInv /\ [Next]_vars => [\A t \in Threads : Right(t)]_vars
  BY <1>1
<1>. QED
  BY <1>2, CoreInvariance, PTL DEF Spec, NotReadyIsTrue

-----------------------------------------------------------------------------
(* The refinement. A message stays where it is, or is written where it     *)
(* belongs.                                                                *)
LEMMA MsgKept ==
  ASSUME CoreInv, CoreInv', NEW k \in Nat, First <= k, k < Sent,
         Slot(k).stamp = PosOf(k) + 1 => buffer'[k % cap] = buffer[k % cap],
         \A u \in Threads : pc[u] \in Writing /\ Turn(u) = k =>
            \/ pc'[u] \in Writing /\ Turn(u)' = k /\ Message(u)' = Message(u)
            \/ buffer'[k % cap].stamp = PosOf(k) + 1 /\ buffer'[k % cap].msg = Message(u)
  PROVE  MsgAt(PosOf(k))' = MsgAt(PosOf(k))
<1>1. CASE Slot(k).stamp = PosOf(k) + 1
  BY <1>1, MsgInSlot DEF Slot
<1>2. ASSUME NEW u \in Threads, pc[u] \in Writing, Turn(u) = k
      PROVE  MsgAt(PosOf(k))' = MsgAt(PosOf(k))
  <2>1. MsgAt(PosOf(k)) = Message(u)
    BY <1>2, MsgOfWriter
  <2>2. CASE pc'[u] \in Writing /\ Turn(u)' = k /\ Message(u)' = Message(u)
    BY <2>1, <2>2, MsgOfWriterNext
  <2>3. CASE buffer'[k % cap].stamp = PosOf(k) + 1 /\ buffer'[k % cap].msg = Message(u)
    BY <2>1, <2>3, MsgInSlot
  <2>. QED
    BY <1>2, <2>2, <2>3
<1>. QED
  BY <1>1, <1>2, EveryTurnHasMsg

LEMMA QueueElement ==
  ASSUME CoreInv, NEW i \in 1..Len(Queue)
  PROVE  \E k \in Nat : /\ First <= k /\ k < Sent /\ i = (k - First) + 1
                        /\ Queue[i] = MsgAt(PosOf(k))
<1>1. /\ Len(Queue) = Sent - First /\ Sent \in Nat /\ First \in Nat /\ First <= Sent
      /\ \A k \in Nat : First <= k /\ k < Sent => Queue[(k - First) + 1] = MsgAt(PosOf(k))
  BY QueueParts
<1>2. PICK k \in Nat : k = First + i - 1
  BY <1>1
<1>3. First <= k /\ k < Sent /\ i = (k - First) + 1
  BY <1>1, <1>2
<1>. QED
  BY <1>1, <1>3

LEMMA QueueKept ==
  ASSUME CoreInv, CoreInv', Sent' = Sent, First' = First,
         \A k \in Nat : First <= k /\ k < Sent => MsgAt(PosOf(k))' = MsgAt(PosOf(k))
  PROVE  Queue' = Queue
<1>1. /\ Queue \in Seq(Msgs) /\ Queue' \in Seq(Msgs) /\ Len(Queue) = Len(Queue')
      /\ \A k \in Nat : First <= k /\ k < Sent => Queue'[(k - First) + 1] = MsgAt(PosOf(k))'
  BY QueueParts, QueuePartsNext
<1>2. ASSUME NEW i \in 1..Len(Queue) PROVE Queue'[i] = Queue[i]
  BY <1>1, QueueElement
<1>. QED
  BY <1>1, <1>2, SeqEqual

LEMMA QueueSend ==
  ASSUME CoreInv, CoreInv', Sent' = Sent + 1, First' = First,
         \A k \in Nat : First <= k /\ k < Sent => MsgAt(PosOf(k))' = MsgAt(PosOf(k))
  PROVE  Len(Queue') = Len(Queue) + 1 /\ SubSeq(Queue', 1, Len(Queue)) = Queue
<1>0. Sent \in Nat /\ First \in Nat /\ First <= Sent
  BY QueueParts
<1>1. /\ Queue \in Seq(Msgs) /\ Queue' \in Seq(Msgs)
      /\ Len(Queue) = Sent - First /\ Len(Queue') = (Sent + 1) - First
      /\ \A k \in Nat : First <= k /\ k < Sent + 1 => Queue'[(k - First) + 1] = MsgAt(PosOf(k))'
  BY QueueParts, QueuePartsNext
<1>2. Len(Queue) \in Nat /\ Len(Queue') = Len(Queue) + 1
  BY <1>0, <1>1
<1>3. ASSUME NEW i \in 1..Len(Queue) PROVE Queue'[i] = Queue[i]
  <2>1. PICK k \in Nat : /\ First <= k /\ k < Sent /\ i = (k - First) + 1
                         /\ Queue[i] = MsgAt(PosOf(k))
    BY QueueElement
  <2>2. k < Sent + 1
    BY <1>0, <2>1
  <2>. QED
    BY <1>1, <2>1, <2>2
<1>4. \A i \in 1..Len(Queue) : Queue'[i] \in Msgs
  BY <1>1, <1>3, ElementOfSeq
<1> DEFINE s == SubSeq(Queue', 1, Len(Queue))
<1>5. /\ s \in Seq(Msgs) /\ Len(s) = IF 1 <= Len(Queue) THEN Len(Queue) - 1 + 1 ELSE 0
      /\ \A i \in 1..(Len(Queue) - 1 + 1) : s[i] = Queue'[1 + i - 1]
  BY <1>2, <1>4, SubSeqProperties
<1>6. Len(s) = Len(Queue) /\ \A i \in 1..Len(Queue) : s[i] = Queue'[i]
  BY <1>2, <1>5
<1> HIDE DEF s
<1>7. s = Queue
  BY <1>1, <1>3, <1>5, <1>6, SeqEqual
<1>. QED
  BY <1>2, <1>7 DEF s

LEMMA QueueTail ==
  ASSUME CoreInv, CoreInv', Sent' = Sent, First' = First + 1, First < Sent,
         \A k \in Nat : First < k /\ k < Sent => MsgAt(PosOf(k))' = MsgAt(PosOf(k))
  PROVE  Queue # <<>> /\ Queue' = Tail(Queue) /\ Head(Queue) = MsgAt(PosOf(First))
<1>0. Sent \in Nat /\ First \in Nat
  BY QueueParts
<1>1. /\ Queue \in Seq(Msgs) /\ Queue' \in Seq(Msgs)
      /\ Len(Queue) = Sent - First /\ Len(Queue') = Sent - (First + 1)
      /\ \A k \in Nat : First <= k /\ k < Sent => Queue[(k - First) + 1] = MsgAt(PosOf(k))
      /\ \A k \in Nat : First + 1 <= k /\ k < Sent => Queue'[(k - (First + 1)) + 1] = MsgAt(PosOf(k))'
  BY QueueParts, QueuePartsNext
<1>2. Queue # <<>>
  BY <1>0, QueueEmpty
<1>3. /\ Tail(Queue) \in Seq(Msgs) /\ Len(Tail(Queue)) = Len(Queue) - 1
      /\ \A i \in 1..Len(Tail(Queue)) : Tail(Queue)[i] = Queue[i + 1]
  BY <1>1, <1>2, HeadTailProperties
<1>4. Len(Queue') = Len(Tail(Queue))
  BY <1>0, <1>1, <1>3
<1>5. ASSUME NEW i \in 1..Len(Queue') PROVE Queue'[i] = Tail(Queue)[i]
  <2>1. PICK k \in Nat : k = First + i
    BY <1>0, <1>1
  <2>2. /\ First < k /\ First <= k /\ First + 1 <= k /\ k < Sent
        /\ (k - First) + 1 = i + 1 /\ (k - (First + 1)) + 1 = i
    BY <1>0, <1>1, <2>1
  <2>3. Queue[i + 1] = MsgAt(PosOf(k)) /\ Queue'[i] = MsgAt(PosOf(k))'
    BY <1>1, <2>2
  <2>. QED
    BY <1>3, <1>4, <2>2, <2>3
<1>6. Queue' = Tail(Queue)
  BY <1>1, <1>3, <1>4, <1>5, SeqEqual
<1>7. Head(Queue) = MsgAt(PosOf(First))
  <2>1. (First - First) + 1 = 1 /\ First <= First
    BY <1>0
  <2>2. Queue[1] = MsgAt(PosOf(First))
    BY <1>0, <1>1, <2>1
  <2>. QED
    BY <1>1, <1>2, <2>2
<1>. QED
  BY <1>2, <1>6, <1>7

(* What the receivers have, the message that one is about to read included.*)
Taken(r) == IF pc[r] = "r_read" THEN Append(got[r], buffer[Index(pos[r])].msg) ELSE got[r]

LEMMA DeliveredKept ==
  ASSUME CoreInv, NEW t \in Threads, OthersSame(t),
         \A r \in Receivers : r # t => got'[r] = got[r],
         \A r \in Receivers : r # t /\ pc[r] = "r_read" => buffer'[Index(pos[r])] = buffer[Index(pos[r])],
         t \in Receivers => Taken(t)' = Taken(t)
  PROVE  Delivered' = Delivered
<1>0. Receivers \subseteq Threads
  BY ConstantsAssumption
<1>1. ASSUME NEW r \in Receivers PROVE Taken(r)' = Taken(r)
  BY <1>0 DEF OthersSame, Taken
<1>2. Delivered = [r \in Receivers |-> Taken(r)]
  BY DEF Delivered, Taken
<1>3. Delivered' = [r \in Receivers |-> Taken(r)']
  BY DEF Delivered, Taken
<1>. QED
  BY <1>1, <1>2, <1>3

(* Steps that the abstract channel does not see.                           *)
LEMMA QuietAbs ==
  ASSUME CoreInv, CoreInv', NEW t \in Threads, OthersSame(t), UNCHANGED <<buffer, got>>,
         Sent' = Sent, First' = First,
         pc[t] \notin Writing \cup Taking, pc'[t] \notin Writing \cup Taking
  PROVE  Queue' = Queue /\ Delivered' = Delivered
<1>1. \A u \in Threads : pc[u] \in Writing =>
         pc'[u] \in Writing /\ Turn(u)' = Turn(u) /\ Message(u)' = Message(u)
  BY DEF OthersSame, Turn, Message
<1>2. ASSUME NEW k \in Nat, First <= k, k < Sent PROVE MsgAt(PosOf(k))' = MsgAt(PosOf(k))
  BY <1>1, <1>2, MsgKept
<1>3. Taken(t)' = Taken(t)
  BY DEF Taken, Taking
<1>. QED
  BY <1>2, <1>3, QueueKept, DeliveredKept

(* A slot with a message, and the slot of a thread that owns one.          *)
LEMMA OtherSlot ==
  ASSUME CoreInv, NEW t \in Threads, pc[t] \in Writing \cup Taking,
         NEW k \in Nat, First <= k, k < Sent, Slot(k).stamp = PosOf(k) + 1
  PROVE  Turn(t) % cap # k % cap
<1>0. ChanTypeOK /\ RingInv /\ EndInv
  BY DEF CoreInv
<1> SUFFICES ASSUME Turn(t) % cap = k % cap PROVE FALSE
  OBVIOUS
<1>1. pc[t] \in Taking /\ Turn(t) = k
  BY <1>0, StampTells
<1>2. k < Received
  BY <1>0, <1>1, OwnersTurn
<1>3. Received <= First /\ Received \in Nat /\ First \in Nat
  BY <1>0, FirstBounds, PosFacts DEF RingInv
<1>. QED
  BY <1>2, <1>3

LEMMA OwnerAbs ==
  ASSUME CoreInv, NEW t \in Threads,
         WriteMsg(t) \/ StoreStampSent(t) \/ ReadMsg(t) \/ StoreStampReceived(t)
  PROVE  Queue' = Queue /\ Delivered' = Delivered
<1>1. /\ CoreInv' /\ UNCHANGED <<head, tail, pos>>
      /\ Sent' = Sent /\ First' = First /\ pc[t] \in Writing \cup Taking
  BY OwnerCore
<1>2. ChanTypeOK /\ RingInv /\ OthersSame(t) /\ UNCHANGED calls
  <2>1. MovesOn(t) /\ UNCHANGED calls
    BY RingMoves DEF CoreInv, RingStep
  <2>. QED
    BY <2>1 DEF CoreInv, MovesOn
<1>3. /\ Turn(t) \in Nat /\ Index(pos[t]) = Turn(t) % cap /\ buffer[Index(pos[t])] = Slot(Turn(t))
      /\ pos[t] = PosOf(Turn(t))
  BY <1>1, <1>2, OwnersTurn
<1>4. /\ \A i \in 0..(cap - 1) : i # Turn(t) % cap => buffer'[i] = buffer[i]
      /\ Turn(t) % cap \in 0..(cap - 1)
  <2>1. Turn(t) % cap \in 0..(cap - 1)
    BY <1>3, TurnParts
  <2>. QED
    BY <1>2, <1>3, <2>1 DEF WriteMsg, StoreStampSent, ReadMsg, StoreStampReceived, StoreStamp, ChanTypeOK
<1>5. \A u \in Threads : Turn(u)' = Turn(u) /\ Message(u)' = Message(u)
  BY <1>1, <1>2 DEF Turn, Message
<1>6. ASSUME NEW k \in Nat, First <= k, k < Sent PROVE MsgAt(PosOf(k))' = MsgAt(PosOf(k))
  <2>1. ASSUME Slot(k).stamp = PosOf(k) + 1 PROVE buffer'[k % cap] = buffer[k % cap]
    <3>1. Turn(t) % cap # k % cap
      BY <1>1, <1>6, <2>1, OtherSlot
    <3>. QED
      BY <1>4, <3>1, TurnParts
  <2>2. ASSUME NEW u \in Threads, pc[u] \in Writing, Turn(u) = k
        PROVE  \/ pc'[u] \in Writing
               \/ buffer'[k % cap].stamp = PosOf(k) + 1 /\ buffer'[k % cap].msg = Message(u)
    <3>1. CASE u # t
      BY <1>2, <2>2, <3>1 DEF OthersSame
    <3>2. CASE u = t /\ WriteMsg(t)
      BY <1>2, <3>2 DEF WriteMsg, Goto, ChanTypeOK, Writing
    <3>3. CASE u = t /\ StoreStampSent(t)
      <4>1. /\ pc[t] = "s_store"
            /\ buffer' = [buffer EXCEPT ![Turn(t) % cap].stamp = PosOf(Turn(t)) + 1]
        BY <1>3, <3>3 DEF StoreStampSent, StoreStamp
      <4>2. Slot(Turn(t)).msg = Message(t)
        BY <1>2, <4>1 DEF RingInv, TurnsOK, SendTurnOK, Writing
      <4>. QED
        BY <1>2, <1>4, <2>2, <3>3, <4>1, <4>2 DEF Slot, ChanTypeOK
    <3>4. CASE u = t /\ (ReadMsg(t) \/ StoreStampReceived(t))
      BY <2>2, <3>4 DEF ReadMsg, StoreStampReceived, Writing
    <3>. QED
      BY <3>1, <3>2, <3>3, <3>4
  <2>. QED
    BY <1>1, <1>5, <1>6, <2>1, <2>2, MsgKept
<1>7. Queue' = Queue
  BY <1>1, <1>6, QueueKept
<1>8. \A r \in Receivers : r # t => got'[r] = got[r]
  BY <1>2 DEF WriteMsg, StoreStampSent, ReadMsg, StoreStampReceived, StoreStamp, ChanTypeOK
<1>9. ASSUME NEW r \in Receivers, r # t, pc[r] = "r_read"
      PROVE  buffer'[Index(pos[r])] = buffer[Index(pos[r])]
  <2>1. r \in Threads /\ pc[r] \in Writing \cup Taking
    BY <1>9, ConstantsAssumption DEF Taking
  <2>2. Turn(r) \in Nat /\ Index(pos[r]) = Turn(r) % cap
    BY <1>2, <2>1, OwnersTurn
  <2>3. Turn(r) % cap # Turn(t) % cap
    BY <1>1, <1>2, <1>9, <2>1, OwnersApart
  <2>. QED
    BY <1>4, <2>2, <2>3, TurnParts
<1>10. ASSUME t \in Receivers PROVE Taken(t)' = Taken(t)
  <2>1. CASE ReadMsg(t)
    <3>1. /\ pc[t] = "r_read" /\ pc'[t] = "r_store"
          /\ got'[t] = Append(got[t], buffer[Index(pos[t])].msg)
      BY <1>2, <1>10, <2>1 DEF ReadMsg, Goto, ChanTypeOK
    <3>. QED
      BY <3>1 DEF Taken
  <2>2. CASE ~ReadMsg(t)
    <3>1. pc[t] # "r_read" /\ pc'[t] # "r_read" /\ got' = got
      BY <1>2, <2>2 DEF WriteMsg, StoreStampSent, StoreStampReceived, StoreStamp, Goto, ChanTypeOK
    <3>. QED
      BY <3>1 DEF Taken
  <2>. QED
    BY <2>1, <2>2
<1>. QED
  BY <1>2, <1>7, <1>8, <1>9, <1>10, DeliveredKept

LEMMA CasTailAbs ==
  ASSUME CoreInv, NEW t \in Threads, CasTail(t)
  PROVE  Abstract!Send \/ UNCHANGED Abstract!vars
<1>1. /\ CoreInv' /\ Received' = Received /\ First' = First
      /\ t \in Senders /\ UNCHANGED <<buffer, head>> /\ (Marked(tail)' <=> Marked(tail))
      /\ \/ Sent' = Sent /\ pc'[t] = "s_tail" /\ tail' = tail
         \/ /\ Sent' = Sent + 1 /\ pc'[t] = "s_write" /\ Turn(t) = Sent /\ pos'[t] = pos[t]
            /\ ~Marked(tail) /\ Sent < Received + cap
  BY CasTailCore
<1>2. OthersSame(t) /\ UNCHANGED <<got, calls, pos>> /\ pc[t] = "s_cas"
  <2>1. MovesOn(t)
    BY RingMoves DEF CoreInv, RingStep
  <2>. QED
    BY <2>1 DEF MovesOn, CasTail
<1>3. CASE Sent' = Sent /\ pc'[t] = "s_tail" /\ tail' = tail
  <2>1. Queue' = Queue /\ Delivered' = Delivered
    BY <1>1, <1>2, <1>3, QuietAbs DEF Writing, Taking
  <2>. QED
    BY <1>3, <2>1 DEF Abstract!vars, Marked
<1>4. CASE Sent' = Sent + 1 /\ pc'[t] = "s_write" /\ ~Marked(tail) /\ Sent < Received + cap
  <2>1. \A u \in Threads : pc[u] \in Writing =>
           pc'[u] \in Writing /\ Turn(u)' = Turn(u) /\ Message(u)' = Message(u)
    BY <1>2 DEF OthersSame, Turn, Message, Writing
  <2>2. ASSUME NEW k \in Nat, First <= k, k < Sent PROVE MsgAt(PosOf(k))' = MsgAt(PosOf(k))
    BY <1>1, <2>1, <2>2, MsgKept
  <2>3. Len(Queue') = Len(Queue) + 1 /\ SubSeq(Queue', 1, Len(Queue)) = Queue
    BY <1>1, <1>4, <2>2, QueueSend
  <2>4. Taken(t)' = Taken(t)
    BY <1>2, <1>4 DEF Taken
  <2>5. Delivered' = Delivered
    BY <1>1, <1>2, <2>4, DeliveredKept
  <2>6. Len(Queue) < cap
    <3>1. Len(Queue) = Sent - First /\ Sent \in Nat /\ First \in Nat
      BY QueueParts
    <3>2. Received <= First /\ Received \in Nat
      BY FirstBounds, PosFacts DEF CoreInv, RingInv
    <3>. QED
      BY <1>4, <3>1, <3>2, Sizes
  <2>7. Marked(tail)' = Marked(tail)
    BY <1>1 DEF Marked
  <2>. QED
    BY <1>4, <2>3, <2>5, <2>6, <2>7 DEF Abstract!Send
<1>. QED
  BY <1>1, <1>3, <1>4

LEMMA CasHeadAbs ==
  ASSUME CoreInv, NEW t \in Threads, CasHead(t)
  PROVE  (\E r \in Receivers : Abstract!Receive(r)) \/ UNCHANGED Abstract!vars
<1>1. /\ CoreInv' /\ Sent' = Sent /\ t \in Receivers /\ UNCHANGED <<buffer, tail>>
      /\ First = Received /\ First' = Received'
      /\ \/ Received' = Received /\ pc'[t] = "r_head"
         \/ /\ Received' = Received + 1 /\ pc'[t] = "r_read" /\ Turn(t) = Received /\ pos'[t] = pos[t]
            /\ Received < Sent /\ Slot(Received).stamp = PosOf(Received) + 1
  BY CasHeadCore
<1>2. OthersSame(t) /\ UNCHANGED <<got, calls, pos>> /\ pc[t] = "r_cas"
  <2>1. MovesOn(t)
    BY RingMoves DEF CoreInv, RingStep
  <2>. QED
    BY <2>1 DEF MovesOn, CasHead
<1>3. CASE Received' = Received /\ pc'[t] = "r_head"
  <2>1. Queue' = Queue /\ Delivered' = Delivered
    BY <1>1, <1>2, <1>3, QuietAbs DEF Writing, Taking
  <2>. QED
    BY <1>1, <2>1 DEF Abstract!vars, Marked
<1>4. CASE /\ Received' = Received + 1 /\ pc'[t] = "r_read" /\ Turn(t) = Received
           /\ Received < Sent /\ Slot(Received).stamp = PosOf(Received) + 1
  <2>0. Sent \in Nat /\ Received \in Nat /\ ChanTypeOK /\ RingInv
    BY PosFacts DEF CoreInv, RingInv
  <2>1. \A u \in Threads : pc[u] \in Writing =>
           pc'[u] \in Writing /\ Turn(u)' = Turn(u) /\ Message(u)' = Message(u)
    BY <1>2 DEF OthersSame, Turn, Message, Writing
  <2>2. ASSUME NEW k \in Nat, First < k, k < Sent PROVE MsgAt(PosOf(k))' = MsgAt(PosOf(k))
    BY <1>1, <2>0, <2>1, <2>2, MsgKept
  <2>3. Queue # <<>> /\ Queue' = Tail(Queue) /\ Head(Queue) = MsgAt(PosOf(First))
    BY <1>1, <1>4, <2>2, QueueTail
  <2>4. MsgAt(PosOf(First)) = Slot(Received).msg
    BY <1>1, <1>4, <2>0, MsgInSlot DEF Slot
  <2>5. buffer[Index(pos[t])] = Slot(Received)
    <3>1. IsPos(pos[t])
      BY <1>2, <2>0 DEF RingInv, TurnsOK, RecvTurnOK
    <3>. QED
      BY <1>4, <2>0, <3>1, TurnPos
  <2>6. Delivered' = [Delivered EXCEPT ![t] = Append(Delivered[t], Head(Queue))]
    <3>1. Delivered = [r \in Receivers |-> Taken(r)]
      BY DEF Delivered, Taken
    <3>2. Delivered' = [r \in Receivers |-> Taken(r)']
      BY DEF Delivered, Taken
    <3>3. \A r \in Receivers : r # t => Taken(r)' = Taken(r)
      BY <1>1, <1>2, ConstantsAssumption DEF Taken, OthersSame
    <3>4. Taken(t)' = Append(Taken(t), Head(Queue))
      BY <1>1, <1>2, <1>4, <2>3, <2>4, <2>5 DEF Taken
    <3>. QED
      BY <1>1, <3>1, <3>2, <3>3, <3>4
  <2>7. Marked(tail)' = Marked(tail)
    BY <1>1 DEF Marked
  <2>8. Abstract!Receive(t)
    BY <2>3, <2>6, <2>7 DEF Abstract!Receive
  <2>. QED
    BY <1>1, <2>8
<1>. QED
  BY <1>1, <1>3, <1>4

LEMMA DropAbs ==
  ASSUME CoreInv, NEW t \in Threads, DropMsg(t)
  PROVE  Abstract!Discard
<1>0. ChanTypeOK /\ RingInv /\ EndInv
  BY DEF CoreInv
<1>1. CoreInv' /\ MovesOut(t) /\ Sent' = Sent
  BY LeavingCore DEF EndStep
<1>2. /\ Dropped' = Dropped + 1 /\ Dropped < Sent
      /\ Slot(Dropped).stamp = PosOf(Dropped) + 1 /\ First = Dropped /\ First' = Dropped'
  BY <1>1, DropEnd DEF CoreInv
<1>3. /\ Sent \in Nat /\ Received \in Nat /\ Dropped \in Nat /\ dhead = PosOf(Dropped)
      /\ Received <= Sent /\ Sent <= Received + cap /\ Received <= First
  BY <1>0, PosFacts, FirstBounds DEF RingInv, PositionsOK
<1>4. /\ pc[t] = "discard" /\ UNCHANGED <<head, tail, pc, pos, calls, got>>
      /\ buffer' = [buffer EXCEPT ![Index(dhead)].msg = NoMsg]
  BY DEF DropMsg
<1>5. Index(dhead) = Dropped % cap /\ Dropped % cap \in 0..(cap - 1)
  BY <1>3, PosParts, TurnParts
<1>6. ASSUME NEW k \in Nat, k % cap # Dropped % cap PROVE buffer'[k % cap] = buffer[k % cap]
  BY <1>0, <1>4, <1>5, <1>6, TurnParts DEF ChanTypeOK
<1>7. ASSUME NEW k \in Nat, First < k, k < Sent PROVE MsgAt(PosOf(k))' = MsgAt(PosOf(k))
  <2>1. k % cap # Dropped % cap
    <3>1. Dropped < k /\ ~(Dropped + cap <= k)
      BY <1>2, <1>3, <1>7, Sizes
    <3>. QED
      BY <1>3, <3>1, SharedSlot
  <2>2. First <= k
    BY <1>2, <1>3, <1>7
  <2>. QED
    BY <1>1, <1>4, <1>6, <1>7, <2>1, <2>2, MsgKept DEF Turn, Message
<1>8. Queue # <<>> /\ Queue' = Tail(Queue)
  BY <1>1, <1>2, <1>7, QueueTail
<1>9. ASSUME NEW r \in Receivers, pc[r] = "r_read"
      PROVE  buffer'[Index(pos[r])] = buffer[Index(pos[r])]
  <2>1. r \in Threads /\ pc[r] \in Writing \cup Taking
    BY <1>9, ConstantsAssumption DEF Taking
  <2>2. Turn(r) \in Nat /\ Index(pos[r]) = Turn(r) % cap
    BY <1>0, <2>1, OwnersTurn
  <2>3. Turn(r) % cap # Dropped % cap
    BY <1>2, <1>3, <2>1, OtherSlot
  <2>. QED
    BY <1>6, <2>2, <2>3
<1>10. Delivered' = Delivered
  <2>1. Taken(t)' = Taken(t)
    BY <1>4 DEF Taken
  <2>. QED
    BY <1>1, <1>4, <1>9, <2>1, DeliveredKept DEF MovesOut
<1>11. Marked(tail)
  BY <1>0, <1>4 DEF EndInv, Disconnects, Leaving
<1>12. Marked(tail)' = Marked(tail)
  BY <1>4 DEF Marked
<1>. QED
  BY <1>8, <1>10, <1>11, <1>12 DEF Abstract!Discard

LEMMA MarkAbs ==
  ASSUME CoreInv, NEW t \in Threads, Mark(t)
  PROVE  Abstract!Close \/ UNCHANGED Abstract!vars
<1>1. CoreInv' /\ MovesOut(t) /\ Sent' = Sent /\ First' = First
  <2>1. ~DropMsg(t)
    BY DEF Mark, DropMsg
  <2>. QED
    BY <2>1, LeavingCore DEF EndStep
<1>2. Marked(tail')
  BY <1>1, MarkEnd
<1>3. UNCHANGED <<buffer, got>>
  BY DEF Mark
<1>4. Queue' = Queue /\ Delivered' = Delivered
  BY <1>1, <1>3, QuietAbs DEF MovesOut, Leaving, Writing, Taking
<1>5. CASE Marked(tail)
  <2>1. Marked(tail)' = Marked(tail)
    BY <1>2, <1>5 DEF Marked
  <2>. QED
    BY <1>4, <2>1 DEF Abstract!vars
<1>6. CASE ~Marked(tail)
  <2>1. Marked(tail)' = TRUE
    BY <1>2 DEF Marked
  <2>. QED
    BY <1>4, <1>6, <2>1 DEF Abstract!Close
<1>. QED
  BY <1>5, <1>6

LEMMA StepAbs ==
  ASSUME CoreInv, NEW t \in Threads, Step(t)
  PROVE  Abstract!Next \/ UNCHANGED Abstract!vars
<1>1. CASE CasTail(t)
  BY <1>1, CasTailAbs DEF Abstract!Next
<1>2. CASE CasHead(t)
  BY <1>2, CasHeadAbs DEF Abstract!Next
<1>3. CASE DropMsg(t)
  BY <1>3, DropAbs DEF Abstract!Next
<1>4. CASE Mark(t)
  BY <1>4, MarkAbs DEF Abstract!Next
<1>5. ASSUME Queue' = Queue, Delivered' = Delivered, tail' = tail PROVE UNCHANGED Abstract!vars
  BY <1>5 DEF Abstract!vars, Marked
<1>6. CASE WriteMsg(t) \/ StoreStampSent(t) \/ ReadMsg(t) \/ StoreStampReceived(t)
  BY <1>5, <1>6, OwnerAbs, OwnerCore
<1>7. ASSUME CoreInv', OthersSame(t), UNCHANGED <<chanVars, got>>, Sent' = Sent, First' = First,
             pc[t] \notin Writing \cup Taking, pc'[t] \notin Writing \cup Taking
      PROVE  UNCHANGED Abstract!vars
  BY <1>5, <1>7, QuietAbs DEF chanVars
<1>8. CASE Loading(t)
  BY <1>7, <1>8, LoadingCore, LoadingMoves DEF CoreInv, MovesOn
<1>9. CASE WakerOnly(t)
  BY <1>7, <1>9, WakerOnlyCore, WakerOnlyMoves DEF CoreInv, MovesOn
<1>10. ASSUME NEW m \in Modes(t), Call(t, m) PROVE UNCHANGED Abstract!vars
  <2>1. pc[t] \notin Writing \cup Taking /\ pc'[t] \notin Writing \cup Taking
    BY <1>10, CallMoves, StartLoc DEF CoreInv, Writing, Taking
  <2>. QED
    BY <1>7, <1>10, <2>1, CallCore, CallMoves DEF CoreInv, MovesOn
<1>11. ASSUME EndStep(t) \/ Release(t), ~DropMsg(t), ~Mark(t) PROVE UNCHANGED Abstract!vars
  <2>1. CoreInv' /\ MovesOut(t) /\ Sent' = Sent /\ First' = First
    BY <1>11, LeavingCore
  <2>2. UNCHANGED <<chanVars, got>>
    BY <1>11 DEF EndStep, Release, Disconnect, DiscardStart, DiscardDone, Destroy
  <2>. QED
    BY <1>7, <2>1, <2>2 DEF MovesOut, Leaving, Writing, Taking
<1>. QED
  BY <1>1, <1>2, <1>3, <1>4, <1>6, <1>8, <1>9, <1>10, <1>11, StepCases DEF CallStep, RingStep

(* The ring implements the bounded channel: a send takes effect when it    *)
(* moves the tail and a receive when it moves the head, so that messages   *)
(* come out in the order in which they went in, each of them once, never   *)
(* more than cap are inside, and only the last receiver throws any away.   *)
THEOREM Refinement == Spec => ImplementsChannel
<1>1. Init => Abstract!Init
  <2> SUFFICES ASSUME Init PROVE Abstract!Init
    OBVIOUS
  <2>0. CoreInv
    BY InitCore
  <2>1. tail = 0 /\ head = 0 /\ dhead = 0
    BY DEF Init
  <2>2. Ordinal(0) = 0 /\ PosOf(0) = 0 /\ Unmark(0) = 0 /\ ~Marked(0)
    <3>1. PosOf(0) = 0
      <4>1. 0 = 0 * cap + 0
        BY Sizes
      <4>2. 0 \div cap = 0 /\ 0 % cap = 0
        BY <4>1, Sizes, Quotient
      <4>. QED
        BY <4>2, Sizes DEF PosOf
    <3>. QED
      BY <3>1, PosParts
  <2>3. Sent = First
    BY <2>1, <2>2 DEF Sent, First
  <2>4. Queue = <<>>
    BY <2>0, <2>3, QueueEmpty
  <2>5. Delivered = [r \in Receivers |-> <<>>]
    BY ConstantsAssumption DEF Init, Delivered
  <2>6. Marked(tail) = FALSE
    BY <2>1, <2>2 DEF Marked
  <2>. QED
    BY <2>4, <2>5, <2>6 DEF Abstract!Init
<1>2. CoreInv /\ [Next]_vars => [Abstract!Next]_(Abstract!vars)
  <2> SUFFICES ASSUME CoreInv, [Next]_vars PROVE Abstract!Next \/ UNCHANGED Abstract!vars
    OBVIOUS
  <2>1. CASE UNCHANGED vars
    <3>1. UNCHANGED <<head, tail, buffer, pc, pos, got, dhead, handles, calls>>
      BY <2>1 DEF vars, chanVars, endVars
    <3>2. UNCHANGED Queue
      <4>1. Sent' = Sent /\ First' = First
        BY <3>1 DEF Sent, First, At
      <4>2. \A u \in Threads : pc'[u] = pc[u] /\ Turn(u)' = Turn(u) /\ Message(u)' = Message(u)
        BY <3>1 DEF Turn, Message
      <4>3. ASSUME NEW k \in Nat, First <= k, k < Sent PROVE MsgAt(PosOf(k))' = MsgAt(PosOf(k))
        BY <2>1, <3>1, <4>2, <4>3, CoreSame, MsgKept
      <4>. QED
        BY <2>1, <4>1, <4>3, CoreSame, QueueKept
    <3>3. UNCHANGED <<Delivered, Marked(tail)>>
      BY <3>1 DEF Delivered, Marked
    <3>. QED
      BY <3>2, <3>3 DEF Abstract!vars
  <2>. QED
    BY <2>1, NextIsStep, StepAbs
<1>. QED
  BY <1>1, <1>2, CoreInvariance, PTL DEF Spec, ImplementsChannel, Abstract!Spec

-----------------------------------------------------------------------------
(* The entries of the wakers.                                              *)
LEMMA OwnAndOther ==
  ASSUME NEW t \in Threads
  PROVE  /\ Own(t) \in Wakers /\ Other(t) \in Wakers /\ Own(t) # Other(t)
         /\ \A w \in Wakers : w = Own(t) \/ w = Other(t)
         /\ t \in Senders => Own(t) = "senders" /\ Other(t) = "receivers" /\ t \notin Receivers
         /\ t \in Receivers => Own(t) = "receivers" /\ Other(t) = "senders" /\ t \notin Senders
         /\ t \in Senders \/ t \in Receivers
  BY ConstantsAssumption DEF Own, Other

(* What a step of t does to the entry and the context of another thread.   *)
Untouched(u) == /\ select'[u] = select[u]
                /\ \A w \in Wakers : u \in Registered(w)' <=> u \in Registered(w)

LEMMA EntryKept ==
  ASSUME NEW u \in Threads, EntryOK(u), Untouched(u), pc'[u] = pc[u]
  PROVE  EntryOK(u)'
<1>1. Own(u) \in Wakers /\ Other(u) \in Wakers
  BY OwnAndOther
<1>2. /\ u \in Registered(Own(u))' <=> u \in Registered(Own(u))
      /\ u \in Registered(Other(u))' <=> u \in Registered(Other(u))
  BY <1>1 DEF Untouched
<1>. QED
  BY <1>2 DEF EntryOK, Untouched

(* Outside the blocking part a thread has no entry.                        *)
LEMMA EntryOutside ==
  ASSUME NEW u \in Threads, EntryOK(u), Untouched(u),
         pc[u] \notin Blocking \/ select[u] = "operation", pc'[u] \notin Blocking
  PROVE  EntryOK(u)'
<1>1. Own(u) \in Wakers /\ Other(u) \in Wakers
  BY OwnAndOther
<1>2. /\ u \in Registered(Own(u))' <=> u \in Registered(Own(u))
      /\ u \in Registered(Other(u))' <=> u \in Registered(Other(u))
  BY <1>1 DEF Untouched
<1>. QED
  BY <1>2 DEF EntryOK, Blocking

LEMMA NoWakerStep ==
  ASSUME WakerInv, UNCHANGED wakerVars
  PROVE  WakerInv' /\ UNCHANGED <<select, token>> /\ \A u \in Threads : Untouched(u)
<1>1. WakerInv' /\ \A w \in Wakers : Registered(w)' = Registered(w)
  BY WakerUnchanged
<1>2. UNCHANGED <<select, token>>
  BY DEF wakerVars
<1>. QED
  BY <1>1, <1>2 DEF Untouched

LEMMA OtherEntries ==
  ASSUME EntriesOK, NEW t \in Threads, OthersSame(t), \A u \in Threads \ {t} : Untouched(u), EntryOK(t)'
  PROVE  EntriesOK'
<1> SUFFICES ASSUME NEW u \in Threads PROVE EntryOK(u)'
  BY DEF EntriesOK
<1>1. CASE u = t
  BY <1>1
<1>2. CASE u # t
  BY <1>2, EntryKept DEF OthersSame, EntriesOK
<1>. QED
  BY <1>1, <1>2

LEMMA LoadingEntries ==
  ASSUME CoreInv, WakerInv, EntriesOK, NEW t \in Threads, Loading(t)
  PROVE  WakerInv' /\ EntriesOK' /\ UNCHANGED <<select, token>>
<1>0. ChanTypeOK /\ SidesOK(t) /\ EntryOK(t)
  BY DEF CoreInv, EntriesOK
<1>1. OthersSame(t) /\ UNCHANGED wakerVars
  BY <1>0, LoadingMoves DEF MovesOn
<1>2. WakerInv' /\ UNCHANGED <<select, token>> /\ \A u \in Threads : Untouched(u)
  BY <1>1, NoWakerStep
<1>3. EntryOK(t)'
  <2>1. CASE pc[t] \notin Blocking /\ pc'[t] \notin Blocking
    BY <1>0, <1>2, <2>1, EntryOutside
  <2>2. CASE CheckFirst(t) \/ CheckSecond(t) \/ CheckDisconnected(t)
    <3>1. pc[t] \in Blocking \ {"unregister"} /\ pc'[t] \in Blocking \ {"unregister"}
      BY <1>0, <2>2 DEF CheckFirst, CheckSecond, CheckDisconnected, Goto, ChanTypeOK, Blocking
    <3>2. /\ t \in Registered(Own(t))' <=> t \in Registered(Own(t))
          /\ t \in Registered(Other(t))' <=> t \in Registered(Other(t))
      BY <1>2, OwnAndOther DEF Untouched
    <3>. QED
      BY <1>0, <1>2, <3>1, <3>2 DEF EntryOK
  <2>3. CASE WaitUntil(t)
    <3>1. pc[t] = "wait" /\ pc'[t] = CASE select[t] = "waiting"   -> "parked"
                                       [] select[t] = "operation" -> Start(t)
                                       [] OTHER                   -> "unregister"
      BY <1>0, <2>3 DEF WaitUntil, Goto, ChanTypeOK
    <3>2. select[t] \in {"waiting", "aborted", "disconnected", "operation"}
      BY DEF WakerInv, WakerTypeOK
    <3>3. CASE select[t] = "operation"
      <4>1. pc'[t] \notin Blocking
        BY <3>1, <3>3 DEF Start, Blocking
      <4>. QED
        BY <1>0, <1>2, <3>3, <4>1, EntryOutside
    <3>4. CASE select[t] # "operation"
      <4>1. pc'[t] \in Blocking /\ pc[t] \in Blocking /\ (pc'[t] = "unregister" => select[t] # "waiting")
        BY <3>1, <3>4 DEF Blocking
      <4>2. /\ t \in Registered(Own(t))' <=> t \in Registered(Own(t))
            /\ t \in Registered(Other(t))' <=> t \in Registered(Other(t))
        BY <1>2, OwnAndOther DEF Untouched
      <4>. QED
        BY <1>0, <1>2, <3>2, <3>4, <4>1, <4>2 DEF EntryOK
    <3>. QED
      BY <3>3, <3>4
  <2>4. ASSUME LoadTail(t) \/ LoadStampForSend(t) \/ LoadHeadForSend(t) \/ NotifyCheck(t)
               \/ LoadHead(t) \/ LoadStampForRecv(t) \/ LoadTailForRecv(t)
        PROVE  pc[t] \notin Blocking /\ pc'[t] \notin Blocking
    BY <1>0, <2>4 DEF LoadTail, LoadStampForSend, LoadHeadForSend, LoadHead, LoadStampForRecv,
         LoadTailForRecv, NotifyCheck, NotReady, Return, Goto, ChanTypeOK, Blocking
  <2>. QED
    BY <2>1, <2>2, <2>3, <2>4 DEF Loading
<1>. QED
  BY <1>1, <1>2, <1>3, OtherEntries

(* The steps of a thread on its own entry and context.                     *)
OwnWaker(t) == Register(t) \/ Abort(t) \/ Deadline(t) \/ Park(t) \/ Unregister(t)

LEMMA OwnWakerEntries ==
  ASSUME CoreInv, WakerInv, EntriesOK, NEW t \in Threads, OwnWaker(t)
  PROVE  /\ WakerInv' /\ EntriesOK'
         /\ \A u \in Threads \ {t} : select'[u] = select[u] /\ token'[u] = token[u]
<1>0. ChanTypeOK /\ SidesOK(t) /\ EntryOK(t) /\ WakerTypeOK
  BY DEF CoreInv, EntriesOK, WakerInv
<1>1. OthersSame(t)
  BY <1>0, WakerOnlyMoves DEF MovesOn, OwnWaker, WakerOnly
<1>2. /\ Own(t) \in Wakers /\ Other(t) \in Wakers /\ Own(t) # Other(t)
      /\ \A w \in Wakers : w = Own(t) \/ w = Other(t)
  BY OwnAndOther
<1>3. CASE Register(t)
  <2>1. pc[t] = "register" /\ pc'[t] = "check" /\ register(t, Own(t))
    BY <1>0, <1>3 DEF Register, Goto, ChanTypeOK
  <2>2. t \notin Registered(Own(t))
    BY <1>0, <2>1 DEF EntryOK, Blocking
  <2>3. /\ WakerInv' /\ select' = [select EXCEPT ![t] = "waiting"] /\ token' = token
        /\ \A v \in Wakers : Registered(v)' = IF v = Own(t) THEN Registered(v) \cup {t} ELSE Registered(v)
    BY <1>2, <2>1, <2>2, RegisterEffect
  <2>4. \A u \in Threads \ {t} : Untouched(u) /\ select'[u] = select[u] /\ token'[u] = token[u]
    BY <1>0, <2>3 DEF Untouched, WakerTypeOK
  <2>5. EntryOK(t)'
    <3>1. select'[t] = "waiting" /\ t \in Registered(Own(t))' /\ t \notin Registered(Other(t))'
      BY <1>0, <1>2, <2>3 DEF WakerTypeOK, EntryOK
    <3>. QED
      BY <2>1, <3>1 DEF EntryOK, Blocking
  <2>. QED
    BY <1>1, <2>3, <2>4, <2>5, OtherEntries
<1>4. CASE Abort(t) \/ Deadline(t)
  <2>1. pc[t] \in {"abort", "parked"} /\ pc'[t] = "wait" /\ try_abort(t)
    BY <1>0, <1>4 DEF Abort, Deadline, Goto, ChanTypeOK
  <2>2. /\ select' = [select EXCEPT ![t] = IF select[t] = "waiting" THEN "aborted" ELSE select[t]]
        /\ UNCHANGED <<selectors, is_empty, token>>
    BY <2>1 DEF try_abort
  <2>3. select' \in [Threads -> {"waiting", "aborted", "disconnected", "operation"}] /\ token' \in [Threads -> BOOLEAN]
    <3>1. select' \in [Threads -> {"waiting", "aborted", "disconnected", "operation"}]
      BY <1>0, <2>2 DEF WakerTypeOK
    <3>. QED
      BY <1>0, <2>2, <3>1 DEF WakerTypeOK
  <2>4. WakerInv' /\ \A w \in Wakers : Registered(w)' = Registered(w)
    BY <2>2, <2>3, WakerSame
  <2>5. \A u \in Threads \ {t} : Untouched(u) /\ select'[u] = select[u] /\ token'[u] = token[u]
    BY <1>0, <2>2, <2>4 DEF Untouched, WakerTypeOK
  <2>6. select'[t] = "operation" <=> select[t] = "operation"
    BY <1>0, <2>2 DEF WakerTypeOK
  <2>7. EntryOK(t)'
    BY <1>0, <1>2, <2>1, <2>4, <2>6 DEF EntryOK, Blocking
  <2>. QED
    BY <1>1, <2>4, <2>5, <2>7, OtherEntries
<1>5. CASE Park(t)
  <2>1. pc[t] = "parked" /\ pc'[t] = "wait" /\ park(t)
    BY <1>0, <1>5 DEF Park, Goto, ChanTypeOK
  <2>2. token' = [token EXCEPT ![t] = FALSE] /\ UNCHANGED <<selectors, is_empty, select>>
    BY <2>1 DEF park
  <2>3. select' \in [Threads -> {"waiting", "aborted", "disconnected", "operation"}] /\ token' \in [Threads -> BOOLEAN]
    BY <1>0, <2>2 DEF WakerTypeOK
  <2>4. WakerInv' /\ \A w \in Wakers : Registered(w)' = Registered(w)
    BY <2>2, <2>3, WakerSame
  <2>5. \A u \in Threads \ {t} : Untouched(u) /\ select'[u] = select[u] /\ token'[u] = token[u]
    BY <1>0, <2>2, <2>4 DEF Untouched, WakerTypeOK
  <2>6. EntryOK(t)'
    BY <1>0, <1>2, <2>1, <2>2, <2>4 DEF EntryOK, Blocking
  <2>. QED
    BY <1>1, <2>4, <2>5, <2>6, OtherEntries
<1>6. CASE Unregister(t)
  <2>1. pc[t] = "unregister" /\ pc'[t] = Start(t) /\ unregister(t, Own(t))
    BY <1>0, <1>6 DEF Unregister, Goto, ChanTypeOK
  <2>2. /\ WakerInv' /\ UNCHANGED <<select, token>>
        /\ \A v \in Wakers : Registered(v)' = IF v = Own(t) THEN Registered(v) \ {t} ELSE Registered(v)
    BY <1>2, <2>1, UnregisterEffect
  <2>3. \A u \in Threads \ {t} : Untouched(u) /\ select'[u] = select[u] /\ token'[u] = token[u]
    BY <2>2 DEF Untouched
  <2>4. EntryOK(t)'
    <3>1. t \notin Registered(Own(t))' /\ t \notin Registered(Other(t))' /\ pc'[t] \notin Blocking
      BY <1>0, <1>2, <2>1, <2>2 DEF EntryOK, Start, Blocking
    <3>. QED
      BY <3>1 DEF EntryOK, Blocking
  <2>. QED
    BY <1>1, <2>2, <2>3, <2>4, OtherEntries
<1>. QED
  BY <1>3, <1>4, <1>5, <1>6 DEF OwnWaker

(* notify: nobody waits on the other side, or the first one that does is   *)
(* selected and unparked.                                                  *)
LEMMA NotifyEntries ==
  ASSUME CoreInv, WakerInv, EntriesOK, NEW t \in Threads, NotifyLock(t)
  PROVE  /\ WakerInv' /\ EntriesOK' /\ pc[t] = "notify_lock" /\ pc'[t] = "idle"
         /\ \/ /\ UNCHANGED <<select, token>>
               /\ \A u \in Registered(Other(t)) : u \in Threads => select[u] # "waiting"
            \/ \E u \in Threads \ {t} :
                  /\ Own(u) = Other(t) /\ pc[u] \in Blocking /\ select[u] = "waiting"
                  /\ select' = [select EXCEPT ![u] = "operation"] /\ token' = [token EXCEPT ![u] = TRUE]
<1>0. ChanTypeOK /\ SidesOK(t) /\ EntryOK(t) /\ WakerTypeOK
  BY DEF CoreInv, EntriesOK, WakerInv
<1>1. OthersSame(t)
  BY <1>0, WakerOnlyMoves DEF MovesOn, WakerOnly
<1>2. pc[t] = "notify_lock" /\ pc'[t] = "idle" /\ notify(t, Other(t))
  BY <1>0 DEF NotifyLock, Return, Goto, ChanTypeOK
<1>3. Other(t) \in Wakers /\ Own(t) # Other(t)
  BY OwnAndOther
<1>4. CASE is_empty[Other(t)] \/ Selectable(t, Other(t)) = {}
  <2>1. UNCHANGED wakerVars
    BY <1>2, <1>4 DEF notify
  <2>2. WakerInv' /\ UNCHANGED <<select, token>> /\ \A u \in Threads : Untouched(u)
    BY <2>1, NoWakerStep
  <2>3. EntryOK(t)'
    BY <1>0, <1>2, <2>2, EntryOutside DEF Blocking
  <2>4. ASSUME NEW u \in Registered(Other(t)), u \in Threads PROVE select[u] # "waiting"
    <3>1. CASE is_empty[Other(t)]
      <4>1. selectors[Other(t)] = <<>>
        BY <1>3, <3>1 DEF WakerInv, FlagsAreTrue
      <4>2. Registered(Other(t)) = {}
        <5>1. selectors[Other(t)] \in Seq(Threads)
          BY <1>0, <1>3 DEF WakerTypeOK
        <5>. QED
          BY <4>1, <5>1, SetOfSeq DEF Registered
      <4>. QED
        BY <4>2
    <3>2. CASE Selectable(t, Other(t)) = {}
      <4>1. u # t
        BY <1>0 DEF EntryOK
      <4>. QED
        BY <1>3, <3>2, <4>1, SelectableThreads
    <3>. QED
      BY <1>4, <3>1, <3>2
  <2>. QED
    BY <1>1, <1>2, <2>2, <2>3, <2>4, OtherEntries
<1>5. CASE ~is_empty[Other(t)] /\ Selectable(t, Other(t)) # {}
  <2>1. try_select(t, Other(t))
    BY <1>2, <1>5 DEF notify
  <2>2. PICK u \in Registered(Other(t)) :
            /\ u \in Threads /\ u # t /\ select[u] = "waiting" /\ WakerInv'
            /\ select' = [select EXCEPT ![u] = "operation"] /\ token' = [token EXCEPT ![u] = TRUE]
            /\ \A v \in Wakers : Registered(v)' = IF v = Other(t) THEN Registered(v) \ {u} ELSE Registered(v)
    BY <1>3, <1>5, <2>1, TrySelectEffect
  <2>3. Own(u) = Other(t) /\ EntryOK(u)
    BY <1>3, <2>2, OwnAndOther DEF EntriesOK, EntryOK
  <2>4. pc[u] \in Blocking /\ pc[u] # "unregister" /\ pc'[u] = pc[u]
    BY <1>1, <2>2, <2>3 DEF EntryOK, OthersSame
  <2>5. \A v \in Threads \ {u} : Untouched(v)
    BY <1>0, <2>2 DEF Untouched, WakerTypeOK
  <2>6. EntryOK(t)'
    BY <1>0, <1>2, <2>2, <2>5, EntryOutside DEF Blocking
  <2>7. EntryOK(u)'
    <3>1. select'[u] = "operation" /\ u \notin Registered(Own(u))'
      BY <1>0, <1>3, <2>2, <2>3 DEF WakerTypeOK
    <3>2. Other(u) \in Wakers /\ Other(u) # Other(t)
      BY <2>2, <2>3, OwnAndOther
    <3>3. u \notin Registered(Other(u))'
      BY <2>2, <2>3, <3>2 DEF EntryOK
    <3>. QED
      BY <2>4, <3>1, <3>3 DEF EntryOK
  <2>8. EntriesOK'
    <3> SUFFICES ASSUME NEW v \in Threads, v # t, v # u PROVE EntryOK(v)'
      BY <2>6, <2>7 DEF EntriesOK
    <3>1. pc'[v] = pc[v] /\ EntryOK(v)
      BY <1>1 DEF OthersSame, EntriesOK
    <3>. QED
      BY <2>5, <3>1, EntryKept
  <2>. QED
    BY <1>2, <2>2, <2>3, <2>4, <2>8
<1>. QED
  BY <1>4, <1>5

(* disconnect: everybody who waits on the other side is told.              *)
LEMMA DisconnectEntries ==
  ASSUME CoreInv, WakerInv, EntriesOK, NEW t \in Threads, Disconnect(t)
  PROVE  /\ WakerInv' /\ EntriesOK'
         /\ \A u \in Threads : IF select[u] = "waiting" /\ u \in Registered(Other(t))
                               THEN select'[u] = "disconnected" /\ token'[u]
                               ELSE select'[u] = select[u] /\ token'[u] = token[u]
<1>0. ChanTypeOK /\ SidesOK(t)
  BY DEF CoreInv
<1>1. OthersSame(t) /\ MovesOut(t)
  BY <1>0, EndMoves DEF MovesOut, EndStep
<1>2. Other(t) \in Wakers /\ {Other(t)} \in SUBSET Wakers
  BY OwnAndOther
<1>3. disconnect({Other(t)}) /\ pc[t] = "disconnect"
  BY DEF Disconnect
<1>4. /\ WakerInv' /\ \A w \in Wakers : Registered(w)' = Registered(w)
      /\ \A u \in Threads :
           /\ u \in Disconnected({Other(t)}) <=> select[u] = "waiting" /\ \E w \in {Other(t)} : u \in Registered(w)
           /\ u \in Disconnected({Other(t)}) => select'[u] = "disconnected" /\ token'[u]
           /\ u \notin Disconnected({Other(t)}) => select'[u] = select[u] /\ token'[u] = token[u]
  BY <1>2, <1>3, DisconnectEffect
<1>5. \A u \in Threads : IF select[u] = "waiting" /\ u \in Registered(Other(t))
                         THEN select'[u] = "disconnected" /\ token'[u]
                         ELSE select'[u] = select[u] /\ token'[u] = token[u]
  BY <1>4
<1>6. ASSUME NEW u \in Threads PROVE EntryOK(u)'
  <2>1. Own(u) \in Wakers /\ Other(u) \in Wakers /\ EntryOK(u)
    BY OwnAndOther DEF EntriesOK
  <2>2. Registered(Own(u))' = Registered(Own(u)) /\ Registered(Other(u))' = Registered(Other(u))
    BY <1>4, <2>1
  <2>3. select'[u] = "operation" <=> select[u] = "operation"
    BY <1>5
  <2>4. select[u] \in {"aborted", "disconnected"} => select'[u] = select[u]
    BY <1>5
  <2>5. pc'[u] = pc[u] \/ (pc[u] \notin Blocking /\ pc'[u] \notin Blocking)
    BY <1>1 DEF MovesOut, OthersSame, Leaving, Blocking
  <2>6. "unregister" \in Blocking
    BY DEF Blocking
  <2>. QED
    BY <2>1, <2>2, <2>3, <2>4, <2>5, <2>6 DEF EntryOK
<1>. QED
  BY <1>4, <1>5, <1>6 DEF EntriesOK

(* The steps that leave the wakers alone, outside the blocking part.       *)
Silent(t) == \/ RingStep(t) \/ Release(t) \/ (\E m \in Modes(t) : Call(t, m))
             \/ Mark(t) \/ DiscardStart(t) \/ DropMsg(t) \/ DiscardDone(t) \/ Destroy(t)

LEMMA SilentEntries ==
  ASSUME CoreInv, WakerInv, EntriesOK, NEW t \in Threads, Silent(t)
  PROVE  /\ WakerInv' /\ EntriesOK' /\ UNCHANGED <<select, token>> /\ OthersSame(t)
         /\ pc[t] \notin Blocking /\ pc'[t] \notin Blocking
<1>0. ChanTypeOK /\ SidesOK(t) /\ EntryOK(t)
  BY DEF CoreInv, EntriesOK
<1>1. UNCHANGED wakerVars /\ OthersSame(t) /\ pc[t] \notin Blocking /\ pc'[t] \notin Blocking
  <2>1. CASE RingStep(t)
    BY <1>0, <2>1, RingMoves DEF MovesOn
  <2>2. CASE \E m \in Modes(t) : Call(t, m)
    <3>1. PICK m \in Modes(t) : Call(t, m)
      BY <2>2
    <3>2. MovesOn(t) /\ UNCHANGED wakerVars /\ pc[t] = "idle" /\ pc'[t] = Start(t)
      BY <1>0, <3>1, CallMoves
    <3>. QED
      BY <3>2 DEF MovesOn, Start, Blocking
  <2>3. CASE Release(t) \/ Mark(t) \/ DiscardStart(t) \/ DropMsg(t) \/ DiscardDone(t) \/ Destroy(t)
    <3>1. MovesOut(t)
      BY <1>0, <2>3, EndMoves DEF EndStep
    <3>2. UNCHANGED wakerVars
      BY <2>3 DEF Release, Mark, DiscardStart, DropMsg, DiscardDone, Destroy
    <3>. QED
      BY <3>1, <3>2 DEF MovesOut, Leaving, Blocking
  <2>. QED
    BY <2>1, <2>2, <2>3 DEF Silent
<1>2. WakerInv' /\ UNCHANGED <<select, token>> /\ \A u \in Threads : Untouched(u)
  BY <1>1, NoWakerStep
<1>3. EntryOK(t)'
  BY <1>0, <1>1, <1>2, EntryOutside
<1>. QED
  BY <1>1, <1>2, <1>3, OtherEntries

(* Every step, by what it does to the wakers.                              *)
LEMMA StepKinds ==
  ASSUME NEW t \in Threads, Step(t)
  PROVE  Loading(t) \/ OwnWaker(t) \/ NotifyLock(t) \/ Disconnect(t) \/ Silent(t)
  BY StepCases DEF CallStep, WakerOnly, OwnWaker, Silent, EndStep

LEMMA EntriesStep ==
  ASSUME CoreInv, WakerInv, EntriesOK, NEW t \in Threads, Step(t)
  PROVE  WakerInv' /\ EntriesOK'
  BY StepKinds, LoadingEntries, OwnWakerEntries, NotifyEntries, DisconnectEntries, SilentEntries

LEMMA EntriesSame ==
  ASSUME WakerInv, EntriesOK, UNCHANGED vars
  PROVE  WakerInv' /\ EntriesOK'
<1>1. UNCHANGED wakerVars /\ pc' = pc
  BY DEF vars
<1>2. WakerInv' /\ \A u \in Threads : Untouched(u)
  BY <1>1, NoWakerStep
<1>3. ASSUME NEW u \in Threads PROVE EntryOK(u)'
  BY <1>1, <1>2, EntryKept DEF EntriesOK
<1>. QED
  BY <1>2, <1>3 DEF EntriesOK

LEMMA InitEntries == Init => WakerInv /\ EntriesOK
<1> SUFFICES ASSUME Init PROVE WakerInv /\ EntriesOK
  OBVIOUS
<1>1. WakerInv /\ \A w \in Wakers : Registered(w) = {}
  BY WakerStart DEF Init
<1>2. ASSUME NEW t \in Threads PROVE EntryOK(t)
  <2>1. pc[t] = "idle"
    BY DEF Init
  <2>2. Registered(Own(t)) = {} /\ Registered(Other(t)) = {}
    BY <1>1, OwnAndOther
  <2>. QED
    BY <2>1, <2>2 DEF EntryOK, Blocking
<1>. QED
  BY <1>1, <1>2 DEF EntriesOK

(* At any time a thread is registered with the waker of its side exactly   *)
(* while it is in the blocking part of its call and has not been selected. *)
THEOREM EntriesInvariance == Spec => [](CoreInv /\ WakerInv /\ EntriesOK)
<1>1. Init => CoreInv /\ WakerInv /\ EntriesOK
  BY InitCore, InitEntries
<1>2. CoreInv /\ WakerInv /\ EntriesOK /\ [Next]_vars => (CoreInv /\ WakerInv /\ EntriesOK)'
  BY NextIsStep, CoreStep, CoreSame, EntriesStep, EntriesSame
<1>. QED
  BY <1>1, <1>2, PTL DEF Spec

(* The channel is deallocated exactly once, by the last thread to leave,   *)
(* when all messages have been received or dropped; and no waker keeps an  *)
(* entry of a thread that is not blocked (counter.rs release, array.rs     *)
(* discard_all_messages, waker.rs unregister).                             *)
THEOREM NoLeaks == Spec => []NothingLeaks
<1>1. ASSUME CoreInv, WakerInv, EntriesOK PROVE NothingLeaks
  <2>1. ChanTypeOK /\ RingInv /\ EndInv
    BY <1>1 DEF CoreInv
  <2>2. /\ AllGone(Senders) /\ AllGone(Receivers) <=> At({"gone"}) = Threads
    BY ConstantsAssumption DEF AllGone, At
  <2>3. freed = IF AllGone(Senders) /\ AllGone(Receivers) THEN 1 ELSE 0
    BY <2>1 DEF EndInv, FreedOnce
  <2>4. ASSUME At({"gone"}) = Threads PROVE Queue = <<>>
    <3>1. AllGone(Receivers) /\ Dropped = Sent
      BY <2>1, <2>2, <2>4 DEF EndInv, Discards
    <3>2. Discarding
      BY <3>1 DEF AllGone, Discarding
    <3>3. First = Dropped
      BY <2>1, <3>2, FirstBounds
    <3>. QED
      BY <1>1, <3>1, <3>3, QueueEmpty
  <2>5. freed > 0 => At({"gone"}) = Threads
    BY <2>2, <2>3
  <2>6. At({"gone"}) = Threads => freed = 1
    BY <2>2, <2>3
  <2>7. ASSUME NEW t \in Threads
        PROVE  /\ pc[t] = "unregister" => t \in ToSet(selectors[Own(t)])
               /\ pc[t] \notin Blocking => t \notin ToSet(selectors[Own(t)])
               /\ t \notin ToSet(selectors[Other(t)])
    BY <1>1 DEF EntriesOK, EntryOK, Registered, Blocking
  <2>8. EntriesMatchThreads
    BY <2>7 DEF EntriesMatchThreads, Blocking
  <2>. QED
    BY <2>4, <2>5, <2>6, <2>8 DEF NothingLeaks
<1>2. CoreInv /\ WakerInv /\ EntriesOK => NothingLeaks
  BY <1>1
<1>. QED
  BY <1>2, EntriesInvariance, PTL

-----------------------------------------------------------------------------
(* Where a load takes its thread, and what the thread has learnt: the      *)
(* loops of start_send and start_recv,                                     *)
LookingToSend == {"s_tail", "s_stamp", "s_cas", "s_head"}
LookingToRecv == {"r_head", "r_stamp", "r_cas", "r_tail"}

LooksOn(t) ==
    \/ t \in Senders /\ pc[t] \in LookingToSend /\ pc'[t] \in LookingToSend
    \/ t \in Receivers /\ pc[t] \in LookingToRecv /\ pc'[t] \in LookingToRecv

GivesUp(t) ==
    /\ pc'[t] \in {"idle", "register"}
    /\ \/ t \in Senders /\ pc[t] \in LookingToSend /\ (Marked(tail) \/ Sent = Received + cap)
       \/ t \in Receivers /\ pc[t] \in LookingToRecv /\ Sent = Received

(* the look at the flag of a waker,                                        *)
Peeks(t) ==
    /\ pc[t] = "notify"
    /\ pc'[t] = "notify_lock" \/ (pc'[t] = "idle" /\ Registered(Other(t)) = {})

(* the checks of a thread that has registered, and its wait.               *)
Checks(t) ==
    \/ pc[t] = "check" /\ pc'[t] = "check2"
    \/ pc[t] \in {"check2", "check3"} /\ pc'[t] = "abort"
    \/ /\ pc[t] = "check2" /\ pc'[t] = "check3"
       /\ t \in Senders => Sent = Received + cap
       /\ t \in Receivers => Sent = Received
    \/ pc[t] = "check3" /\ pc'[t] = "wait" /\ ~Marked(tail)

Waits(t) ==
    /\ pc[t] = "wait"
    /\ \/ select[t] = "waiting" /\ pc'[t] = "parked"
       \/ select[t] = "operation" /\ pc'[t] = Start(t)
       \/ select[t] \notin {"waiting", "operation"} /\ pc'[t] = "unregister"

LEMMA LoadingTable ==
  ASSUME CoreInv, WakerInv, NEW t \in Threads, Loading(t)
  PROVE  LooksOn(t) \/ GivesUp(t) \/ Peeks(t) \/ Checks(t) \/ Waits(t)
<1>0. ChanTypeOK /\ SidesOK(t) /\ pc \in [Threads -> Locs]
  BY DEF CoreInv, ChanTypeOK
<1>1. t \in Senders \/ t \in Receivers
  BY ConstantsAssumption
<1>2. CASE LoadTail(t) \/ LoadStampForSend(t)
  BY <1>0, <1>1, <1>2 DEF LoadTail, LoadStampForSend, Return, Goto, SidesOK, SendLocs,
       LooksOn, GivesUp, LookingToSend
<1>3. CASE LoadHeadForSend(t)
  <2>1. pc[t] = "s_head" /\ t \in Senders
    BY <1>0, <1>1, <1>3 DEF LoadHeadForSend, SidesOK, SendLocs
  <2>2. CASE head + one_lap = pos[t] /\ NotReady(t)
    <3>1. pc'[t] \in {"idle", "register"}
      BY <1>0, <2>2 DEF NotReady, Return, Goto
    <3>. QED
      BY <2>1, <2>2, <3>1, FullOrEmpty DEF GivesUp, LookingToSend
  <2>3. CASE Goto(t, "s_tail")
    BY <1>0, <2>1, <2>3 DEF Goto, LooksOn, LookingToSend
  <2>. QED
    BY <1>3, <2>2, <2>3 DEF LoadHeadForSend
<1>4. CASE LoadHead(t) \/ LoadStampForRecv(t)
  BY <1>0, <1>1, <1>4 DEF LoadHead, LoadStampForRecv, Goto, SidesOK, RecvLocs, LooksOn, LookingToRecv
<1>5. CASE LoadTailForRecv(t)
  <2>1. pc[t] = "r_tail" /\ t \in Receivers
    BY <1>0, <1>1, <1>5 DEF LoadTailForRecv, SidesOK, RecvLocs
  <2>2. CASE Unmark(tail) = pos[t] /\ (Return(t) \/ NotReady(t))
    <3>1. pc'[t] \in {"idle", "register"}
      BY <1>0, <2>2 DEF NotReady, Return, Goto
    <3>. QED
      BY <2>1, <2>2, <3>1, FullOrEmpty DEF GivesUp, LookingToRecv
  <2>3. CASE Goto(t, "r_head")
    BY <1>0, <2>1, <2>3 DEF Goto, LooksOn, LookingToRecv
  <2>. QED
    BY <1>5, <2>2, <2>3 DEF LoadTailForRecv
<1>6. CASE NotifyCheck(t)
  <2>1. pc[t] = "notify" /\ Other(t) \in Wakers
    BY <1>6, OwnAndOther DEF NotifyCheck
  <2>2. CASE is_empty[Other(t)] /\ Return(t)
    <3>1. selectors[Other(t)] = <<>> /\ selectors[Other(t)] \in Seq(Threads)
      BY <2>1, <2>2 DEF WakerInv, FlagsAreTrue, WakerTypeOK
    <3>2. Registered(Other(t)) = {}
      BY <3>1, SetOfSeq DEF Registered
    <3>3. pc'[t] = "idle"
      BY <1>0, <2>2 DEF Return, Goto
    <3>. QED
      BY <2>1, <3>2, <3>3 DEF Peeks
  <2>3. CASE Goto(t, "notify_lock")
    BY <1>0, <2>1, <2>3 DEF Goto, Peeks
  <2>. QED
    BY <1>6, <2>2, <2>3 DEF NotifyCheck
<1>7. CASE CheckFirst(t) \/ CheckDisconnected(t)
  BY <1>0, <1>7 DEF CheckFirst, CheckDisconnected, Goto, Checks
<1>8. CASE CheckSecond(t)
  <2>1. pc[t] = "check2"
    BY <1>8 DEF CheckSecond
  <2>2. t \in Senders => t \notin Receivers
    BY ConstantsAssumption
  <2>3. CASE pc'[t] = "abort"
    BY <2>1, <2>3 DEF Checks
  <2>4. CASE pc'[t] = "check3"
    <3>1. IF t \in Senders THEN head + one_lap = pos[t] ELSE Unmark(tail) = pos[t]
      BY <1>0, <1>8, <2>4 DEF CheckSecond, Goto
    <3>2. /\ t \in Senders => Sent = Received + cap
          /\ t \in Receivers => Sent = Received
      BY <2>1, <2>2, <3>1, FullOrEmpty
    <3>. QED
      BY <2>1, <2>4, <3>2 DEF Checks
  <2>5. pc'[t] = "abort" \/ pc'[t] = "check3"
    BY <1>0, <1>8 DEF CheckSecond, Goto
  <2>. QED
    BY <2>3, <2>4, <2>5
<1>9. CASE WaitUntil(t)
  BY <1>0, <1>9 DEF WaitUntil, Goto, Waits
<1>. QED
  BY <1>2, <1>3, <1>4, <1>5, <1>6, <1>7, <1>8, <1>9 DEF Loading

(* The steps of a thread on its own entry.                                 *)
LEMMA OwnWakerTable ==
  ASSUME CoreInv, WakerInv, EntriesOK, NEW t \in Threads, OwnWaker(t)
  PROVE  \/ pc[t] = "register" /\ pc'[t] = "check" /\ select'[t] = "waiting"
         \/ /\ pc[t] \in {"abort", "parked"} /\ pc'[t] = "wait" /\ select'[t] # "waiting"
            /\ select'[t] = "operation" <=> select[t] = "operation"
         \/ pc[t] = "parked" /\ pc'[t] = "wait" /\ select'[t] = select[t]
         \/ pc[t] = "unregister" /\ pc'[t] = Start(t) /\ select[t] # "operation"
<1>0. pc \in [Threads -> Locs] /\ select \in [Threads -> {"waiting", "aborted", "disconnected", "operation"}]
  BY DEF CoreInv, ChanTypeOK, WakerInv, WakerTypeOK
<1>1. CASE Register(t)
  BY <1>0, <1>1 DEF Register, register, Goto
<1>2. CASE Abort(t) \/ Deadline(t)
  BY <1>0, <1>2 DEF Abort, Deadline, try_abort, Goto
<1>3. CASE Park(t)
  BY <1>0, <1>3 DEF Park, park, Goto
<1>4. CASE Unregister(t)
  BY <1>0, <1>4 DEF Unregister, Goto, EntriesOK, EntryOK
<1>. QED
  BY <1>1, <1>2, <1>3, <1>4 DEF OwnWaker

(* Nobody but the thread that disconnects ceases to be at it, and only a   *)
(* thread that has not been told of the end goes on waiting.               *)
LEMMA Told ==
  ASSUME WillBeTold, NEW t \in Threads, OthersSame(t), pc[t] # "disconnect",
         Marked(tail') => Marked(tail),
         \A u \in Threads \ {t} : select'[u] = "waiting" => select[u] = "waiting",
         Marked(tail) /\ pc'[t] \in {"wait", "parked"} /\ select'[t] = "waiting" =>
            pc[t] \in {"wait", "parked"} /\ select[t] = "waiting"
  PROVE  WillBeTold'
<1> SUFFICES ASSUME NEW u \in Threads, Marked(tail'), pc'[u] \in {"wait", "parked"}, select'[u] = "waiting"
             PROVE  \E v \in At({"disconnect"})' : Own(v) # Own(u)
  BY DEF WillBeTold
<1>1. Marked(tail) /\ pc[u] \in {"wait", "parked"} /\ select[u] = "waiting"
  BY DEF OthersSame
<1>2. PICK v \in At({"disconnect"}) : Own(v) # Own(u)
  BY <1>1 DEF WillBeTold
<1>3. v \in At({"disconnect"})'
  BY <1>2 DEF At, OthersSame
<1>. QED
  BY <1>2, <1>3

LEMMA MarkTold ==
  ASSUME CoreInv, WakerInv, EntriesOK, WillBeTold, NEW t \in Threads, Mark(t)
  PROVE  WillBeTold'
<1>0. ChanTypeOK /\ EndInv /\ Silent(t)
  BY DEF CoreInv, Silent
<1>1. UNCHANGED <<select, token>> /\ OthersSame(t) /\ pc'[t] \notin Blocking
  BY <1>0, SilentEntries
<1>2. pc[t] = "mark" /\ pc'[t] = IF Marked(tail) THEN AfterMark(t) ELSE "disconnect"
  BY <1>0 DEF Mark, Goto, ChanTypeOK
<1>3. CASE Marked(tail)
  BY <1>1, <1>2, <1>3, Told DEF Blocking
<1>4. CASE ~Marked(tail)
  <2> SUFFICES ASSUME NEW u \in Threads, pc'[u] \in {"wait", "parked"}
               PROVE  \E v \in At({"disconnect"})' : Own(v) # Own(u)
    BY DEF WillBeTold
  <2>1. u # t /\ pc[u] # "gone"
    BY <1>1 DEF OthersSame, Blocking
  <2>2. u \notin Side(t)
    BY <1>0, <1>2, <2>1, LastOne DEF Leaving
  <2>3. Own(t) # Own(u)
    BY <2>2, ConstantsAssumption DEF Side, Own
  <2>4. t \in At({"disconnect"})'
    BY <1>2, <1>4 DEF At
  <2>. QED
    BY <2>3, <2>4
<1>. QED
  BY <1>3, <1>4

LEMMA DisconnectTold ==
  ASSUME CoreInv, WakerInv, EntriesOK, NEW t \in Threads, Disconnect(t)
  PROVE  WillBeTold'
<1>0. ChanTypeOK /\ EndInv /\ SidesOK(t)
  BY DEF CoreInv
<1>1. OthersSame(t)
  BY <1>0, EndMoves DEF EndStep, MovesOut
<1>2. pc[t] = "disconnect" /\ pc'[t] = AfterMark(t)
  BY <1>0 DEF Disconnect, Goto, ChanTypeOK
<1> SUFFICES ASSUME NEW u \in Threads, pc'[u] \in {"wait", "parked"}, select'[u] = "waiting" PROVE FALSE
  BY DEF WillBeTold
<1>3. u # t /\ pc[u] \in {"wait", "parked"}
  BY <1>1, <1>2 DEF OthersSame, AfterMark
<1>4. select[u] = "waiting" /\ u \notin Registered(Other(t))
  BY DisconnectEntries
<1>5. u \in Registered(Own(u))
  BY <1>3, <1>4 DEF EntriesOK, EntryOK, Blocking
<1>6. u \notin Side(t)
  BY <1>0, <1>2, <1>3, LastOne DEF Leaving
<1>7. Own(u) = Other(t)
  BY <1>6, ConstantsAssumption DEF Side, Own, Other
<1>. QED
  BY <1>4, <1>5, <1>7

LEMMA ToldStep ==
  ASSUME CoreInv, WakerInv, EntriesOK, WillBeTold, NEW t \in Threads, Step(t)
  PROVE  WillBeTold'
<1>0. ChanTypeOK /\ SidesOK(t) /\ select \in [Threads -> {"waiting", "aborted", "disconnected", "operation"}]
  BY DEF CoreInv, WakerInv, WakerTypeOK
<1>1. CASE Loading(t)
  <2>1. OthersSame(t) /\ tail' = tail /\ pc[t] # "disconnect"
    BY <1>0, <1>1, LoadingMoves DEF MovesOn, chanVars, CallLocs, SendLocs, RecvLocs, Blocking
  <2>2. UNCHANGED <<select, token>>
    BY <1>1, LoadingEntries
  <2>3. Marked(tail) /\ pc'[t] \in {"wait", "parked"} /\ select[t] = "waiting" => pc[t] \in {"wait", "parked"}
    BY <1>1, LoadingTable DEF LooksOn, GivesUp, Peeks, Checks, Waits, LookingToSend, LookingToRecv, Start
  <2>. QED
    BY <2>1, <2>2, <2>3, Told
<1>2. CASE OwnWaker(t)
  <2>1. OthersSame(t) /\ tail' = tail
    BY <1>0, <1>2, WakerOnlyMoves DEF MovesOn, chanVars, OwnWaker, WakerOnly
  <2>2. \A u \in Threads \ {t} : select'[u] = select[u]
    BY <1>2, OwnWakerEntries
  <2>3. /\ pc'[t] \in {"wait", "parked"} /\ select'[t] = "waiting" => pc[t] \in {"wait", "parked"} /\ select[t] = "waiting"
        /\ pc[t] # "disconnect"
    BY <1>2, OwnWakerTable DEF Start
  <2>. QED
    BY <2>1, <2>2, <2>3, Told
<1>3. CASE NotifyLock(t)
  <2>1. OthersSame(t) /\ tail' = tail
    BY <1>0, <1>3, WakerOnlyMoves DEF MovesOn, chanVars, WakerOnly
  <2>2. \A u \in Threads : select'[u] = "waiting" => select[u] = "waiting"
    BY <1>0, <1>3, NotifyEntries
  <2>3. pc[t] = "notify_lock" /\ pc'[t] = "idle"
    BY <1>3, NotifyEntries
  <2>. QED
    BY <2>1, <2>2, <2>3, Told
<1>4. CASE Disconnect(t)
  BY <1>4, DisconnectTold
<1>5. CASE Mark(t)
  BY <1>5, MarkTold
<1>6. CASE Silent(t) /\ ~Mark(t)
  <2>1. UNCHANGED <<select, token>> /\ OthersSame(t) /\ pc[t] \notin Blocking /\ pc'[t] \notin Blocking
    BY <1>6, SilentEntries
  <2>2. Marked(tail') => Marked(tail)
    <3>1. CASE CasTail(t)
      BY <3>1, CasTailCore
    <3>2. CASE Release(t) \/ EndStep(t)
      BY <1>6, <3>2, LeavingCore
    <3>3. CASE \E m \in Modes(t) : Call(t, m)
      BY <3>3 DEF Call, chanVars
    <3>4. CASE RingStep(t) /\ ~CasTail(t)
      BY <3>4 DEF RingStep, WriteMsg, StoreStampSent, CasHead, ReadMsg, StoreStampReceived, StoreStamp
    <3>. QED
      BY <1>6, <3>1, <3>2, <3>3, <3>4 DEF Silent, EndStep
  <2>3. pc[t] # "disconnect"
    <3>1. CASE RingStep(t)
      BY <3>1 DEF RingStep, CasTail, WriteMsg, StoreStampSent, CasHead, ReadMsg, StoreStampReceived
    <3>. QED
      BY <1>6, <3>1 DEF Silent, Call, Release, DiscardStart, DropMsg, DiscardDone, Destroy
  <2>. QED
    BY <2>1, <2>2, <2>3, Told DEF Blocking
<1>. QED
  BY <1>1, <1>2, <1>3, <1>4, <1>5, <1>6, StepKinds

-----------------------------------------------------------------------------
(* Counting the helpers: what becomes of n <= |A| when at most the element *)
(* t comes or goes.                                                        *)
LEMMA CoverKept ==
  ASSUME NEW A, NEW B, IsFiniteSet(A), IsFiniteSet(B), NEW t,
         \A u : u # t => (u \in A <=> u \in B),
         NEW n \in Int, NEW m \in Int, n <= Cardinality(A),
         \/ m <= 0
         \/ m <= n /\ (t \in A => t \in B)
         \/ m <= n + 1 /\ t \notin A /\ t \in B
         \/ m <= n - 1
  PROVE  m <= Cardinality(B)
<1>1. Cardinality(A) \in Nat /\ Cardinality(B) \in Nat
  BY FS_CardinalityType
<1>2. CASE t \in A /\ t \notin B
  <2>1. B = A \ {t}
    BY <1>2
  <2>2. Cardinality(B) = Cardinality(A) - 1
    BY <1>2, <2>1, FS_RemoveElement
  <2>. QED
    BY <1>1, <1>2, <2>2
<1>3. CASE t \notin A /\ t \in B
  <2>1. B = A \cup {t}
    BY <1>3
  <2>2. Cardinality(B) = Cardinality(A) + 1
    BY <1>3, <2>1, FS_AddElement
  <2>. QED
    BY <1>1, <1>3, <2>2
<1>4. CASE t \in A <=> t \in B
  <2>1. A = B
    BY <1>4
  <2>. QED
    BY <1>1, <1>4, <2>1
<1>. QED
  BY <1>2, <1>3, <1>4

(* When t goes, u comes in its place.                                      *)
LEMMA CoverSwapped ==
  ASSUME NEW A, NEW B, IsFiniteSet(A), IsFiniteSet(B), NEW t, NEW u, u # t,
         \A v : v # t /\ v # u => (v \in A <=> v \in B),
         u \notin A, u \in B, NEW n \in Int, n <= Cardinality(A)
  PROVE  n <= Cardinality(B)
<1> DEFINE C == A \cup {u}
<1>1. IsFiniteSet(C) /\ Cardinality(C) = Cardinality(A) + 1
  BY FS_AddElement
<1>2. Cardinality(A) \in Nat /\ Cardinality(C) \in Nat
  BY <1>1, FS_CardinalityType
<1>3. \A v : v # t => (v \in C <=> v \in B)
  OBVIOUS
<1> HIDE DEF C
<1>4. n + 1 <= Cardinality(C) /\ n + 1 \in Int /\ n <= (n + 1) - 1
  BY <1>1, <1>2
<1>. QED
  BY <1>1, <1>3, <1>4, CoverKept

(* The helpers, thread by thread.                                          *)
HelpsRecv(t) == \/ pc[t] \in LookingToRecv
                \/ t \in Receivers /\ pc[t] \in Blocking /\ select[t] = "operation"
                \/ t \in Senders /\ pc[t] \in Writing \cup {"notify", "notify_lock"}

HelpsSend(t) == \/ pc[t] \in LookingToSend
                \/ t \in Senders /\ pc[t] \in Blocking /\ select[t] = "operation"
                \/ t \in Receivers /\ pc[t] \in Taking \cup {"notify", "notify_lock"}

Counts(t) == pc[t] \in {"check3", "wait", "parked"} /\ select[t] = "waiting"

LEMMA Helpers ==
  ASSUME ChanTypeOK, IsFiniteSet(Active)
  PROVE  /\ RecvHelpers = {t \in Threads : HelpsRecv(t)} /\ IsFiniteSet(RecvHelpers)
         /\ SendHelpers = {t \in Threads : HelpsSend(t)} /\ IsFiniteSet(SendHelpers)
         /\ CountOnIt(Receivers) = {t \in Receivers : Counts(t)}
         /\ CountOnIt(Senders) = {t \in Senders : Counts(t)}
<1>1. RecvHelpers = {t \in Threads : HelpsRecv(t)}
  BY ConstantsAssumption DEF RecvHelpers, HelpsRecv, At, Chosen, LookingToRecv
<1>2. SendHelpers = {t \in Threads : HelpsSend(t)}
  BY ConstantsAssumption DEF SendHelpers, HelpsSend, At, Chosen, LookingToSend
<1>3. RecvHelpers \subseteq Active
  BY <1>1 DEF Active, HelpsRecv, LookingToRecv, Writing, Blocking
<1>4. SendHelpers \subseteq Active
  BY <1>2 DEF Active, HelpsSend, LookingToSend, Taking, Blocking
<1>5. IsFiniteSet(RecvHelpers) /\ IsFiniteSet(SendHelpers)
  BY <1>3, <1>4, FS_Subset
<1>. QED
  BY <1>1, <1>2, <1>5 DEF CountOnIt, Counts

LEMMA HelpersNext ==
  (ChanTypeOK /\ IsFiniteSet(Active) =>
         /\ RecvHelpers = {t \in Threads : HelpsRecv(t)} /\ IsFiniteSet(RecvHelpers)
         /\ SendHelpers = {t \in Threads : HelpsSend(t)} /\ IsFiniteSet(SendHelpers)
         /\ CountOnIt(Receivers) = {t \in Receivers : Counts(t)}
         /\ CountOnIt(Senders) = {t \in Senders : Counts(t)})'
<1>1. ChanTypeOK /\ IsFiniteSet(Active) =>
         /\ RecvHelpers = {t \in Threads : HelpsRecv(t)} /\ IsFiniteSet(RecvHelpers)
         /\ SendHelpers = {t \in Threads : HelpsSend(t)} /\ IsFiniteSet(SendHelpers)
         /\ CountOnIt(Receivers) = {t \in Receivers : Counts(t)}
         /\ CountOnIt(Senders) = {t \in Senders : Counts(t)}
  BY Helpers
<1>. QED
  BY <1>1, PTL

LEMMA CoreNumbers == CoreInv => ChanTypeOK /\ Sent \in Nat /\ Received \in Nat
  BY PosFacts DEF CoreInv, RingInv

LEMMA CoreNumbersNext == CoreInv' => ChanTypeOK' /\ Sent' \in Nat /\ Received' \in Nat
<1>1. (CoreInv => ChanTypeOK /\ Sent \in Nat /\ Received \in Nat)'
  BY CoreNumbers, PTL
<1>. QED
  BY <1>1

(* A step of t that keeps the helpers of the receivers in step with the    *)
(* number of messages.                                                     *)
RecvBalance(t) ==
    \/ \A u \in Receivers : ~Counts(u)'
    \/ Sent' = Received'
    \/ Sent' - Received' = Sent - Received /\ (HelpsRecv(t) => HelpsRecv(t)')
    \/ Sent' - Received' = (Sent - Received) + 1 /\ ~HelpsRecv(t) /\ HelpsRecv(t)'
    \/ Sent' - Received' = (Sent - Received) - 1

LEMMA RecvCoverStep ==
  ASSUME CoreInv, CoreInv', IsFiniteSet(Active), IsFiniteSet(Active'), RecvCovered, NEW t \in Threads,
         \A u \in Threads \ {t} : /\ HelpsRecv(u)' <=> HelpsRecv(u)
                                  /\ u \in Receivers /\ Counts(u)' => Counts(u),
         t \in Receivers /\ Counts(t)' => Counts(t) \/ Sent' = Received',
         RecvBalance(t)
  PROVE  RecvCovered'
<1>0. /\ ChanTypeOK /\ ChanTypeOK' /\ Sent \in Nat /\ Received \in Nat /\ Sent' \in Nat /\ Received' \in Nat
  BY CoreNumbers, CoreNumbersNext
<1>1. /\ RecvHelpers = {u \in Threads : HelpsRecv(u)} /\ IsFiniteSet(RecvHelpers)
      /\ CountOnIt(Receivers) = {u \in Receivers : Counts(u)}
  BY <1>0, Helpers
<1>2. /\ RecvHelpers' = {u \in Threads : HelpsRecv(u)'} /\ IsFiniteSet(RecvHelpers')
      /\ CountOnIt(Receivers)' = {u \in Receivers : Counts(u)'}
  BY <1>0, HelpersNext
<1>3. Cardinality(RecvHelpers') \in Nat
  BY <1>2, FS_CardinalityType
<1>4. CASE Sent' = Received' \/ \A u \in Receivers : ~Counts(u)'
  BY <1>0, <1>2, <1>3, <1>4 DEF RecvCovered
<1>5. CASE Sent' # Received' /\ \E u \in Receivers : Counts(u)'
  <2> SUFFICES ASSUME CountOnIt(Receivers)' # {} PROVE Sent' - Received' <= Cardinality(RecvHelpers')
    BY DEF RecvCovered
  <2>1. CountOnIt(Receivers) # {}
    BY <1>1, <1>2, <1>5, ConstantsAssumption
  <2>2. Sent - Received <= Cardinality(RecvHelpers)
    BY <2>1 DEF RecvCovered
  <2>3. \A u : u # t => (u \in RecvHelpers <=> u \in RecvHelpers')
    BY <1>1, <1>2
  <2>4. t \in RecvHelpers <=> HelpsRecv(t)
    BY <1>1
  <2>5. t \in RecvHelpers' <=> HelpsRecv(t)'
    BY <1>2
  <2> DEFINE n == Sent - Received
             m == Sent' - Received'
  <2>6. n \in Int /\ m \in Int
    BY <1>0
  <2>7. \/ m <= n /\ (t \in RecvHelpers => t \in RecvHelpers')
        \/ m <= n + 1 /\ t \notin RecvHelpers /\ t \in RecvHelpers'
        \/ m <= n - 1
    BY <1>5, <2>4, <2>5, <2>6 DEF RecvBalance
  <2>8. n <= Cardinality(RecvHelpers)
    BY <2>2
  <2> HIDE DEF n, m
  <2>9. m <= Cardinality(RecvHelpers')
    BY <1>1, <1>2, <2>3, <2>6, <2>7, <2>8, CoverKept
  <2>. QED
    BY <2>9 DEF m
<1>. QED
  BY <1>4, <1>5

(* The same for the senders and the free slots.                            *)
SendBalance(t) ==
    \/ \A u \in Senders : ~Counts(u)'
    \/ Marked(tail')
    \/ Sent' = Received' + cap
    \/ Sent' - Received' = Sent - Received /\ (HelpsSend(t) => HelpsSend(t)')
    \/ Sent' - Received' = (Sent - Received) - 1 /\ ~HelpsSend(t) /\ HelpsSend(t)'
    \/ Sent' - Received' = (Sent - Received) + 1

LEMMA SendCoverStep ==
  ASSUME CoreInv, CoreInv', IsFiniteSet(Active), IsFiniteSet(Active'), SendCovered, NEW t \in Threads,
         Marked(tail) => Marked(tail'),
         \A u \in Threads \ {t} : /\ HelpsSend(u)' <=> HelpsSend(u)
                                  /\ u \in Senders /\ Counts(u)' => Counts(u),
         t \in Senders /\ Counts(t)' => Counts(t) \/ Sent' = Received' + cap,
         SendBalance(t)
  PROVE  SendCovered'
<1>0. /\ ChanTypeOK /\ ChanTypeOK' /\ Sent \in Nat /\ Received \in Nat /\ Sent' \in Nat /\ Received' \in Nat
  BY CoreNumbers, CoreNumbersNext
<1>1. /\ SendHelpers = {u \in Threads : HelpsSend(u)} /\ IsFiniteSet(SendHelpers)
      /\ CountOnIt(Senders) = {u \in Senders : Counts(u)}
  BY <1>0, Helpers
<1>2. /\ SendHelpers' = {u \in Threads : HelpsSend(u)'} /\ IsFiniteSet(SendHelpers')
      /\ CountOnIt(Senders)' = {u \in Senders : Counts(u)'}
  BY <1>0, HelpersNext
<1>3. Cardinality(SendHelpers') \in Nat /\ cap \in Nat
  BY <1>2, FS_CardinalityType, Sizes
<1>4. CASE Marked(tail') \/ \A u \in Senders : ~Counts(u)'
  BY <1>2, <1>4 DEF SendCovered
<1>5. CASE Sent' = Received' + cap
  BY <1>0, <1>3, <1>5 DEF SendCovered
<1>6. CASE Sent' # Received' + cap /\ ~Marked(tail') /\ \E u \in Senders : Counts(u)'
  <2> SUFFICES ASSUME CountOnIt(Senders)' # {}
               PROVE  cap - (Sent' - Received') <= Cardinality(SendHelpers')
    BY DEF SendCovered
  <2>1. CountOnIt(Senders) # {}
    BY <1>1, <1>2, <1>6, ConstantsAssumption
  <2>2. cap - (Sent - Received) <= Cardinality(SendHelpers)
    BY <1>6, <2>1 DEF SendCovered
  <2>3. \A u : u # t => (u \in SendHelpers <=> u \in SendHelpers')
    BY <1>1, <1>2
  <2>4. t \in SendHelpers <=> HelpsSend(t)
    BY <1>1
  <2>5. t \in SendHelpers' <=> HelpsSend(t)'
    BY <1>2
  <2> DEFINE n == cap - (Sent - Received)
             m == cap - (Sent' - Received')
  <2>6. n \in Int /\ m \in Int
    BY <1>0, <1>3
  <2>7. \/ m <= n /\ (t \in SendHelpers => t \in SendHelpers')
        \/ m <= n + 1 /\ t \notin SendHelpers /\ t \in SendHelpers'
        \/ m <= n - 1
    <3> DEFINE a == Sent - Received
               b == Sent' - Received'
    <3>1. \/ b = a /\ (t \in SendHelpers => t \in SendHelpers')
          \/ b = a - 1 /\ t \notin SendHelpers /\ t \in SendHelpers'
          \/ b = a + 1
      BY <1>6, <2>4, <2>5 DEF SendBalance
    <3>2. a \in Int /\ b \in Int /\ cap \in Int /\ n = cap - a /\ m = cap - b
      BY <1>0, <1>3
    <3> HIDE DEF a, b, n, m
    <3>. QED
      BY <3>1, <3>2
  <2>8. n <= Cardinality(SendHelpers)
    BY <2>2
  <2> HIDE DEF n, m
  <2>9. m <= Cardinality(SendHelpers')
    BY <1>1, <1>2, <2>3, <2>6, <2>7, <2>8, CoverKept
  <2>. QED
    BY <2>9 DEF m
<1>. QED
  BY <1>4, <1>5, <1>6

LEMMA OthersHelp ==
  ASSUME NEW t \in Threads, OthersSame(t),
         \A u \in Threads \ {t} : /\ select'[u] = "operation" <=> select[u] = "operation"
                                  /\ select'[u] = "waiting" => select[u] = "waiting"
  PROVE  \A u \in Threads \ {t} : /\ HelpsRecv(u)' <=> HelpsRecv(u)
                                  /\ HelpsSend(u)' <=> HelpsSend(u)
                                  /\ Counts(u)' => Counts(u)
  BY DEF OthersSame, HelpsRecv, HelpsSend, Counts

LEMMA ActiveStep ==
  ASSUME IsFiniteSet(Active), NEW t \in Threads, OthersSame(t)
  PROVE  IsFiniteSet(Active')
<1>1. Active' \subseteq Active \cup {t}
  BY DEF Active, OthersSame
<1>2. IsFiniteSet(Active \cup {t})
  BY FS_AddElement
<1>. QED
  BY <1>1, <1>2, FS_Subset

LEMMA CoverStep ==
  ASSUME CoreInv, CoreInv', Covered, NEW t \in Threads, OthersSame(t),
         \A u \in Threads \ {t} : /\ select'[u] = "operation" <=> select[u] = "operation"
                                  /\ select'[u] = "waiting" => select[u] = "waiting",
         Marked(tail) => Marked(tail'),
         t \in Receivers /\ Counts(t)' => Counts(t) \/ Sent' = Received',
         t \in Senders /\ Counts(t)' => Counts(t) \/ Sent' = Received' + cap,
         RecvBalance(t), SendBalance(t)
  PROVE  Covered'
<1>1. IsFiniteSet(Active) /\ IsFiniteSet(Active') /\ RecvCovered /\ SendCovered
  BY ActiveStep DEF Covered
<1>2. \A u \in Threads \ {t} : /\ HelpsRecv(u)' <=> HelpsRecv(u)
                               /\ HelpsSend(u)' <=> HelpsSend(u)
                               /\ Counts(u)' => Counts(u)
  BY OthersHelp
<1>3. RecvCovered'
  BY <1>1, <1>2, RecvCoverStep
<1>4. SendCovered'
  BY <1>1, <1>2, SendCoverStep
<1>. QED
  BY <1>1, <1>3, <1>4 DEF Covered

(* A thread that counts on being woken is registered.                      *)
LEMMA CountsRegistered ==
  ASSUME EntriesOK, NEW u \in Threads, Counts(u)
  PROVE  u \in Registered(Own(u)) /\ select[u] = "waiting"
  BY DEF EntriesOK, EntryOK, Counts, Blocking

LEMMA LoadingCovered ==
  ASSUME CoreInv, WakerInv, EntriesOK, Covered, NEW t \in Threads, Loading(t)
  PROVE  Covered'
<1>0. ChanTypeOK /\ SidesOK(t)
  BY DEF CoreInv
<1>1. OthersSame(t) /\ tail' = tail
  BY <1>0, LoadingMoves DEF MovesOn, chanVars
<1>2. CoreInv' /\ Sent' = Sent /\ Received' = Received
  BY LoadingCore
<1>3. select' = select
  BY LoadingEntries
<1>4. t \in Senders => t \notin Receivers
  BY ConstantsAssumption
<1>n. Sent - Received = Sent' - Received'
  BY <1>2
<1>5. /\ t \in Receivers /\ Counts(t)' => Counts(t) \/ Sent' = Received'
      /\ t \in Senders /\ Counts(t)' => Counts(t) \/ Sent' = Received' + cap
  BY <1>2, <1>3, LoadingTable DEF LooksOn, GivesUp, Peeks, Checks, Waits, LookingToSend, LookingToRecv, Start, Counts
<1>6. RecvBalance(t) /\ SendBalance(t)
  <2>1. CASE LooksOn(t)
    <3>1. (HelpsRecv(t) => HelpsRecv(t)') /\ (HelpsSend(t) => HelpsSend(t)')
      BY <1>4, <2>1 DEF LooksOn, LookingToSend, LookingToRecv, HelpsRecv, HelpsSend, Blocking, Writing, Taking
    <3>. QED
      BY <1>n, <3>1 DEF RecvBalance, SendBalance
  <2>2. CASE GivesUp(t)
    <3>1. CASE t \in Senders
      <4>1. ~HelpsRecv(t) /\ (Marked(tail') \/ Sent' = Received' + cap)
        BY <1>1, <1>2, <1>4, <2>2, <3>1 DEF GivesUp, LookingToSend, LookingToRecv, HelpsRecv, Blocking, Writing
      <4>. QED
        BY <1>n, <4>1 DEF RecvBalance, SendBalance
    <3>2. CASE t \in Receivers
      <4>1. ~HelpsSend(t) /\ Sent' = Received'
        BY <1>2, <1>4, <2>2, <3>2 DEF GivesUp, LookingToSend, LookingToRecv, HelpsSend, Blocking, Taking
      <4>. QED
        BY <1>n, <4>1 DEF RecvBalance, SendBalance
    <3>. QED
      BY <3>1, <3>2, ConstantsAssumption
  <2>3. CASE Peeks(t)
    <3>1. CASE pc'[t] = "notify_lock"
      <4>1. (HelpsRecv(t) => HelpsRecv(t)') /\ (HelpsSend(t) => HelpsSend(t)')
        BY <2>3, <3>1 DEF Peeks, LookingToSend, LookingToRecv, HelpsRecv, HelpsSend, Blocking
      <4>. QED
        BY <1>n, <4>1 DEF RecvBalance, SendBalance
    <3>2. CASE pc'[t] = "idle" /\ Registered(Other(t)) = {}
      <4>1. \A u \in Threads : Own(u) = Other(t) => ~Counts(u)
        BY <3>2, CountsRegistered
      <4>2. \A u \in Threads : Counts(u)' => Counts(u)
        BY <1>1, <1>3, <3>2, OthersHelp DEF Counts
      <4>3. CASE t \in Senders
        <5>1. \A u \in Receivers : ~Counts(u)'
          BY <4>1, <4>2, <4>3, ConstantsAssumption DEF Own, Other
        <5>2. ~HelpsSend(t)
          BY <1>4, <2>3, <4>3 DEF Peeks, HelpsSend, LookingToSend, Blocking
        <5>. QED
          BY <1>n, <5>1, <5>2 DEF RecvBalance, SendBalance
      <4>4. CASE t \in Receivers
        <5>1. \A u \in Senders : ~Counts(u)'
          BY <4>1, <4>2, <4>4, ConstantsAssumption DEF Own, Other
        <5>2. ~HelpsRecv(t)
          BY <1>4, <2>3, <4>4 DEF Peeks, HelpsRecv, LookingToRecv, Blocking
        <5>. QED
          BY <1>n, <5>1, <5>2 DEF RecvBalance, SendBalance
      <4>. QED
        BY <4>3, <4>4, ConstantsAssumption
    <3>. QED
      BY <2>3, <3>1, <3>2 DEF Peeks
  <2>4. CASE Checks(t)
    <3>1. (HelpsRecv(t) => HelpsRecv(t)') /\ (HelpsSend(t) => HelpsSend(t)')
      BY <1>3, <2>4 DEF Checks, HelpsRecv, HelpsSend, Blocking, LookingToSend, LookingToRecv, Writing, Taking
    <3>. QED
      BY <1>n, <3>1 DEF RecvBalance, SendBalance
  <2>5. CASE Waits(t)
    <3>1. (HelpsRecv(t) => HelpsRecv(t)') /\ (HelpsSend(t) => HelpsSend(t)')
      BY <1>3, <1>4, <2>5 DEF Waits, HelpsRecv, HelpsSend, Blocking, LookingToSend, LookingToRecv, Writing, Taking, Start
    <3>. QED
      BY <1>n, <3>1 DEF RecvBalance, SendBalance
  <2>. QED
    BY <2>1, <2>2, <2>3, <2>4, <2>5, LoadingTable
<1>. QED
  BY <1>1, <1>2, <1>3, <1>5, <1>6, CoverStep

LEMMA OwnWakerCovered ==
  ASSUME CoreInv, WakerInv, EntriesOK, Covered, NEW t \in Threads, OwnWaker(t)
  PROVE  Covered'
<1>0. ChanTypeOK /\ SidesOK(t) /\ WakerOnly(t)
  BY DEF CoreInv, OwnWaker, WakerOnly
<1>1. OthersSame(t) /\ tail' = tail
  BY <1>0, WakerOnlyMoves DEF MovesOn, chanVars
<1>2. CoreInv' /\ Sent' = Sent /\ Received' = Received
  BY <1>0, WakerOnlyCore
<1>3. \A u \in Threads \ {t} : select'[u] = select[u]
  BY OwnWakerEntries
<1>4. /\ Counts(t)' => Counts(t)
      /\ HelpsRecv(t) => HelpsRecv(t)'
      /\ HelpsSend(t) => HelpsSend(t)'
  BY OwnWakerTable DEF Counts, HelpsRecv, HelpsSend, Blocking, LookingToSend, LookingToRecv, Writing, Taking, Start
<1>5. RecvBalance(t) /\ SendBalance(t)
  BY <1>2, <1>4 DEF RecvBalance, SendBalance
<1>. QED
  BY <1>1, <1>2, <1>3, <1>4, <1>5, CoverStep

(* The thread that is selected takes over from the one that notifies.      *)
LEMMA NotifyCovered ==
  ASSUME CoreInv, WakerInv, EntriesOK, Covered, NEW t \in Threads, NotifyLock(t)
  PROVE  Covered'
<1>0. ChanTypeOK /\ SidesOK(t) /\ WakerOnly(t) /\ WakerTypeOK
  BY DEF CoreInv, WakerOnly, WakerInv
<1>1. OthersSame(t) /\ tail' = tail
  BY <1>0, WakerOnlyMoves DEF MovesOn, chanVars
<1>2. CoreInv' /\ ChanTypeOK' /\ Sent' = Sent /\ Received' = Received
  BY <1>0, WakerOnlyCore DEF CoreInv
<1>n. Sent - Received = Sent' - Received'
  BY <1>2
<1>3. pc[t] = "notify_lock" /\ pc'[t] = "idle"
  BY NotifyEntries
<1>4. t \in Senders => t \notin Receivers
  BY ConstantsAssumption
<1>5. /\ t \in Senders => ~HelpsSend(t) /\ HelpsRecv(t)
      /\ t \in Receivers => ~HelpsRecv(t) /\ HelpsSend(t)
      /\ ~HelpsSend(t)' /\ ~HelpsRecv(t)' /\ ~Counts(t)'
  BY <1>3, <1>4 DEF HelpsRecv, HelpsSend, Counts, Blocking, LookingToSend, LookingToRecv, Writing, Taking
<1>6. CASE select' = select /\ \A u \in Registered(Other(t)) : u \in Threads => select[u] # "waiting"
  <2>1. \A u \in Threads : Own(u) = Other(t) => ~Counts(u)
    BY <1>6, CountsRegistered
  <2>2. \A u \in Threads : Counts(u)' => Counts(u)
    BY <1>1, <1>5, <1>6, OthersHelp
  <2>3. CASE t \in Senders
    <3>1. \A u \in Receivers : ~Counts(u)'
      BY <2>1, <2>2, <2>3, ConstantsAssumption DEF Own, Other
    <3>2. RecvBalance(t) /\ SendBalance(t)
      BY <1>n, <1>5, <2>3, <3>1 DEF RecvBalance, SendBalance
    <3>. QED
      BY <1>1, <1>2, <1>5, <1>6, <3>2, CoverStep
  <2>4. CASE t \in Receivers
    <3>1. \A u \in Senders : ~Counts(u)'
      BY <2>1, <2>2, <2>4, ConstantsAssumption DEF Own, Other
    <3>2. RecvBalance(t) /\ SendBalance(t)
      BY <1>n, <1>5, <2>4, <3>1 DEF RecvBalance, SendBalance
    <3>. QED
      BY <1>1, <1>2, <1>5, <1>6, <3>2, CoverStep
  <2>. QED
    BY <2>3, <2>4, ConstantsAssumption
<1>7. ASSUME NEW u \in Threads \ {t}, Own(u) = Other(t), pc[u] \in Blocking, select[u] = "waiting",
             select' = [select EXCEPT ![u] = "operation"]
      PROVE  Covered'
  <2>1. /\ \A v \in Threads \ {u} : select'[v] = select[v]
        /\ select'[u] = "operation" /\ pc'[u] = pc[u]
    BY <1>0, <1>1, <1>7 DEF WakerTypeOK, OthersSame
  <2>2. \A v \in Threads \ {t, u} : /\ HelpsRecv(v)' <=> HelpsRecv(v)
                                    /\ HelpsSend(v)' <=> HelpsSend(v)
                                    /\ Counts(v)' => Counts(v)
    BY <1>1, <2>1 DEF OthersSame, HelpsRecv, HelpsSend, Counts
  <2>3. ~Counts(u)'
    BY <2>1 DEF Counts
  <2>4. IsFiniteSet(Active) /\ IsFiniteSet(Active') /\ RecvCovered /\ SendCovered
    BY <1>1, ActiveStep DEF Covered
  <2>5. Sent \in Nat /\ Received \in Nat /\ cap \in Nat
    BY PosFacts, Sizes DEF CoreInv, RingInv
  <2>6. /\ RecvHelpers = {v \in Threads : HelpsRecv(v)} /\ IsFiniteSet(RecvHelpers)
        /\ SendHelpers = {v \in Threads : HelpsSend(v)} /\ IsFiniteSet(SendHelpers)
        /\ CountOnIt(Receivers) = {v \in Receivers : Counts(v)}
        /\ CountOnIt(Senders) = {v \in Senders : Counts(v)}
    BY <1>0, <2>4, Helpers
  <2>7. /\ RecvHelpers' = {v \in Threads : HelpsRecv(v)'} /\ IsFiniteSet(RecvHelpers')
        /\ SendHelpers' = {v \in Threads : HelpsSend(v)'} /\ IsFiniteSet(SendHelpers')
        /\ CountOnIt(Receivers)' = {v \in Receivers : Counts(v)'}
        /\ CountOnIt(Senders)' = {v \in Senders : Counts(v)'}
    BY <1>2, <2>4, HelpersNext
  <2>8. CASE t \in Senders
    <3>1. u \in Receivers /\ u \notin Senders
      BY <1>4, <1>7, <2>8, ConstantsAssumption DEF Own, Other
    <3>2. ~HelpsRecv(u) /\ HelpsRecv(u)' /\ (HelpsSend(u)' <=> HelpsSend(u))
      BY <1>7, <2>1, <3>1 DEF HelpsRecv, HelpsSend, Blocking, LookingToSend, LookingToRecv, Writing, Taking
    <3>3. RecvCovered'
      <4> SUFFICES ASSUME CountOnIt(Receivers)' # {} PROVE Sent' - Received' <= Cardinality(RecvHelpers')
        BY DEF RecvCovered
      <4>1. CountOnIt(Receivers) # {}
        BY <1>5, <2>2, <2>3, <2>6, <2>7, ConstantsAssumption
      <4>2. Sent - Received <= Cardinality(RecvHelpers) /\ Sent - Received \in Int
        BY <2>4, <2>5, <4>1 DEF RecvCovered
      <4>3. \A v : v # t /\ v # u => (v \in RecvHelpers <=> v \in RecvHelpers')
        BY <2>2, <2>6, <2>7
      <4>4. u \notin RecvHelpers /\ u \in RecvHelpers' /\ u # t
        BY <1>7, <2>6, <2>7, <3>2
      <4>5. Sent - Received <= Cardinality(RecvHelpers')
        BY <2>6, <2>7, <4>2, <4>3, <4>4, CoverSwapped
      <4>. QED
        BY <1>n, <4>5
    <3>4. SendCovered'
      <4>1. SendBalance(t)
        BY <1>n, <1>5, <2>8 DEF SendBalance
      <4>2. \A v \in Threads \ {t} : /\ HelpsSend(v)' <=> HelpsSend(v)
                                     /\ v \in Senders /\ Counts(v)' => Counts(v)
        BY <2>2, <2>3, <3>2
      <4>. QED
        BY <1>1, <1>2, <1>5, <2>4, <4>1, <4>2, SendCoverStep
    <3>. QED
      BY <2>4, <3>3, <3>4 DEF Covered
  <2>9. CASE t \in Receivers
    <3>1. u \in Senders /\ u \notin Receivers
      BY <1>4, <1>7, <2>9, ConstantsAssumption DEF Own, Other
    <3>2. ~HelpsSend(u) /\ HelpsSend(u)' /\ (HelpsRecv(u)' <=> HelpsRecv(u))
      BY <1>7, <2>1, <3>1 DEF HelpsRecv, HelpsSend, Blocking, LookingToSend, LookingToRecv, Writing, Taking
    <3>3. SendCovered'
      <4> SUFFICES ASSUME CountOnIt(Senders)' # {}, ~Marked(tail')
                   PROVE  cap - (Sent' - Received') <= Cardinality(SendHelpers')
        BY DEF SendCovered
      <4>1. CountOnIt(Senders) # {}
        BY <1>5, <2>2, <2>3, <2>6, <2>7, ConstantsAssumption
      <4>2. cap - (Sent - Received) <= Cardinality(SendHelpers) /\ cap - (Sent - Received) \in Int
        BY <1>1, <2>4, <2>5, <4>1 DEF SendCovered
      <4>3. \A v : v # t /\ v # u => (v \in SendHelpers <=> v \in SendHelpers')
        BY <2>2, <2>6, <2>7
      <4>4. u \notin SendHelpers /\ u \in SendHelpers' /\ u # t
        BY <1>7, <2>6, <2>7, <3>2
      <4>5. cap - (Sent - Received) <= Cardinality(SendHelpers')
        BY <2>6, <2>7, <4>2, <4>3, <4>4, CoverSwapped
      <4>. QED
        BY <1>n, <4>5
    <3>4. RecvCovered'
      <4>1. RecvBalance(t)
        BY <1>n, <1>5, <2>9 DEF RecvBalance
      <4>2. \A v \in Threads \ {t} : /\ HelpsRecv(v)' <=> HelpsRecv(v)
                                     /\ v \in Receivers /\ Counts(v)' => Counts(v)
        BY <2>2, <2>3, <3>2
      <4>. QED
        BY <1>1, <1>2, <1>5, <2>4, <4>1, <4>2, RecvCoverStep
    <3>. QED
      BY <2>4, <3>3, <3>4 DEF Covered
  <2>. QED
    BY <2>8, <2>9, ConstantsAssumption
<1>. QED
  BY <1>6, <1>7, NotifyEntries

(* The steps on the ring: a send brings a message and becomes a helper of  *)
(* the receivers, a receive frees a slot and becomes one of the senders.   *)
LEMMA RingCovered ==
  ASSUME CoreInv, WakerInv, EntriesOK, Covered, NEW t \in Threads, RingStep(t)
  PROVE  Covered'
<1>0. ChanTypeOK /\ SidesOK(t) /\ Silent(t) /\ pc \in [Threads -> Locs]
  BY DEF CoreInv, Silent, ChanTypeOK
<1>1. UNCHANGED <<select, token>> /\ OthersSame(t) /\ ~Counts(t)'
  BY <1>0, SilentEntries DEF Counts, Blocking
<1>4. (t \in Senders => t \notin Receivers) /\ (t \in Senders \/ t \in Receivers)
  BY ConstantsAssumption
<1>5. CASE CasTail(t)
  <2>1. /\ CoreInv' /\ Received' = Received /\ t \in Senders /\ t \notin Receivers
        /\ Marked(tail)' <=> Marked(tail)
        /\ (Sent' = Sent /\ pc'[t] = "s_tail") \/ (Sent' = Sent + 1 /\ pc'[t] = "s_write")
    BY <1>4, <1>5, CasTailCore
  <2>2. pc[t] = "s_cas" /\ Sent \in Nat /\ Received \in Nat
    BY <1>5, PosFacts DEF CasTail, CoreInv, RingInv
  <2>3. /\ ~HelpsRecv(t) /\ HelpsSend(t)
        /\ pc'[t] = "s_tail" => HelpsSend(t)'
        /\ pc'[t] = "s_write" => HelpsRecv(t)'
    BY <2>1, <2>2 DEF HelpsRecv, HelpsSend, Blocking, LookingToSend, LookingToRecv, Writing
  <2>4. RecvBalance(t) /\ SendBalance(t)
    BY <2>1, <2>2, <2>3 DEF RecvBalance, SendBalance
  <2>. QED
    BY <1>1, <2>1, <2>4, CoverStep
<1>6. CASE CasHead(t)
  <2>1. /\ CoreInv' /\ Sent' = Sent /\ t \in Receivers /\ t \notin Senders /\ tail' = tail
        /\ (Received' = Received /\ pc'[t] = "r_head") \/ (Received' = Received + 1 /\ pc'[t] = "r_read")
    BY <1>4, <1>6, CasHeadCore
  <2>2. pc[t] = "r_cas" /\ Sent \in Nat /\ Received \in Nat
    BY <1>6, PosFacts DEF CasHead, CoreInv, RingInv
  <2>3. /\ ~HelpsSend(t) /\ HelpsRecv(t)
        /\ pc'[t] = "r_head" => HelpsRecv(t)'
        /\ pc'[t] = "r_read" => HelpsSend(t)'
    BY <2>1, <2>2 DEF HelpsRecv, HelpsSend, Blocking, LookingToSend, LookingToRecv, Taking
  <2>4. RecvBalance(t) /\ SendBalance(t)
    BY <2>1, <2>2, <2>3 DEF RecvBalance, SendBalance
  <2>. QED
    BY <1>1, <2>1, <2>4, CoverStep
<1>7. CASE WriteMsg(t) \/ StoreStampSent(t) \/ ReadMsg(t) \/ StoreStampReceived(t)
  <2>1. CoreInv' /\ tail' = tail /\ Sent' = Sent /\ Received' = Received
    BY <1>7, OwnerCore
  <2>2. \/ pc[t] \in Writing /\ pc'[t] \in Writing \cup {"notify"}
        \/ pc[t] \in Taking /\ pc'[t] \in Taking \cup {"notify"}
    BY <1>0, <1>7 DEF WriteMsg, StoreStampSent, ReadMsg, StoreStampReceived, StoreStamp, Goto, Writing, Taking
  <2>3. (HelpsRecv(t) => HelpsRecv(t)') /\ (HelpsSend(t) => HelpsSend(t)')
    BY <2>2 DEF HelpsRecv, HelpsSend, Blocking, LookingToSend, LookingToRecv, Writing, Taking
  <2>4. RecvBalance(t) /\ SendBalance(t)
    BY <2>1, <2>3 DEF RecvBalance, SendBalance
  <2>. QED
    BY <1>1, <2>1, <2>4, CoverStep
<1>. QED
  BY <1>5, <1>6, <1>7 DEF RingStep

(* Calls begin, and handles go.                                            *)
LEMMA OutsideCovered ==
  ASSUME CoreInv, WakerInv, EntriesOK, Covered, NEW t \in Threads,
         (\E m \in Modes(t) : Call(t, m)) \/ Release(t) \/ EndStep(t)
  PROVE  Covered'
<1>0. ChanTypeOK /\ SidesOK(t)
  BY DEF CoreInv
<1>1. /\ CoreInv' /\ OthersSame(t) /\ Sent' = Sent /\ Received' = Received
      /\ Marked(tail) => Marked(tail')
      /\ pc[t] \in {"idle"} \cup Leaving /\ pc'[t] \notin Blocking
  <2>1. CASE \E m \in Modes(t) : Call(t, m)
    <3>1. PICK m \in Modes(t) : Call(t, m)
      BY <2>1
    <3>2. OthersSame(t) /\ tail' = tail /\ pc[t] = "idle" /\ pc'[t] = Start(t)
      BY <1>0, <3>1, CallMoves DEF MovesOn, chanVars
    <3>3. CoreInv' /\ Sent' = Sent /\ Received' = Received
      BY <3>1, CallCore
    <3>. QED
      BY <3>2, <3>3 DEF Start, Blocking
  <2>2. CASE Release(t) \/ EndStep(t)
    BY <2>2, LeavingCore DEF MovesOut, Leaving, Blocking
  <2>. QED
    BY <2>1, <2>2
<1>2. \A u \in Threads \ {t} : /\ select'[u] = "operation" <=> select[u] = "operation"
                               /\ select'[u] = "waiting" => select[u] = "waiting"
  <2>1. CASE Disconnect(t)
    BY <2>1, DisconnectEntries
  <2>2. CASE Silent(t)
    BY <2>2, SilentEntries
  <2>. QED
    BY <2>1, <2>2 DEF Silent, EndStep
<1>3. ~HelpsRecv(t) /\ ~HelpsSend(t) /\ ~Counts(t)'
  BY <1>1 DEF HelpsRecv, HelpsSend, Counts, Leaving, Blocking, LookingToSend, LookingToRecv, Writing, Taking
<1>4. RecvBalance(t) /\ SendBalance(t)
  BY <1>1, <1>3 DEF RecvBalance, SendBalance
<1>. QED
  BY <1>1, <1>2, <1>3, <1>4, CoverStep

LEMMA CoveredStep ==
  ASSUME CoreInv, WakerInv, EntriesOK, Covered, NEW t \in Threads, Step(t)
  PROVE  Covered'
  BY StepCases, LoadingCovered, OwnWakerCovered, NotifyCovered, RingCovered, OutsideCovered
     DEF CallStep, WakerOnly, OwnWaker

LEMMA WakeStart == Init => WakeInv
<1> SUFFICES ASSUME Init PROVE WakeInv
  OBVIOUS
<1>1. \A t \in Threads : pc[t] = "idle"
  BY DEF Init
<1>2. WakerInv /\ EntriesOK
  BY InitEntries
<1>3. WillBeTold
  BY <1>1 DEF WillBeTold
<1>4. IsFiniteSet(Active)
  <2>1. Active = {}
    BY <1>1 DEF Active
  <2>. QED
    BY <2>1, FS_EmptySet
<1>5. CountOnIt(Senders) = {} /\ CountOnIt(Receivers) = {}
  BY <1>1, ConstantsAssumption DEF CountOnIt
<1>. QED
  BY <1>2, <1>3, <1>4, <1>5 DEF WakeInv, Covered, RecvCovered, SendCovered

LEMMA WakeSame ==
  ASSUME WakeInv, UNCHANGED vars
  PROVE  WakeInv'
<1>1. WakerInv' /\ EntriesOK'
  BY EntriesSame DEF WakeInv
<1>2. UNCHANGED <<pc, pos, head, tail, select>>
  BY DEF vars, chanVars, wakerVars
<1>3. WillBeTold'
  BY <1>2 DEF WakeInv, WillBeTold, At
<1>4. Active' = Active /\ Sent' = Sent /\ Received' = Received
  BY <1>2 DEF Active, Sent, Received
<1>5. /\ RecvHelpers' = RecvHelpers /\ SendHelpers' = SendHelpers
      /\ CountOnIt(Senders)' = CountOnIt(Senders) /\ CountOnIt(Receivers)' = CountOnIt(Receivers)
  BY <1>2 DEF RecvHelpers, SendHelpers, CountOnIt, Chosen, At
<1>6. Covered'
  BY <1>2, <1>4, <1>5 DEF WakeInv, Covered, RecvCovered, SendCovered
<1>. QED
  BY <1>1, <1>3, <1>6 DEF WakeInv

(* The inductive invariant of the channel, the ring, its end and the       *)
(* blocking together, for every number of threads and every capacity.      *)
THEOREM ArrayInvariance == Spec => []ArrayInv
<1>1. Init => ArrayInv
  BY InitCore, WakeStart DEF ArrayInv
<1>2. ArrayInv /\ [Next]_vars => ArrayInv'
  <2> SUFFICES ASSUME ArrayInv, [Next]_vars PROVE ArrayInv'
    OBVIOUS
  <2>1. CoreInv /\ WakeInv /\ WakerInv /\ EntriesOK /\ WillBeTold /\ Covered
    BY DEF ArrayInv, WakeInv
  <2>2. CASE UNCHANGED vars
    BY <2>1, <2>2, CoreSame, WakeSame DEF ArrayInv
  <2>3. CASE \E t \in Threads : Step(t)
    <3>1. PICK t \in Threads : Step(t)
      BY <2>3
    <3>2. CoreInv'
      BY <2>1, <3>1, CoreStep
    <3>3. WakerInv' /\ EntriesOK'
      BY <2>1, <3>1, EntriesStep
    <3>4. WillBeTold' /\ Covered'
      BY <2>1, <3>1, ToldStep, CoveredStep
    <3>. QED
      BY <3>2, <3>3, <3>4 DEF ArrayInv, WakeInv
  <2>. QED
    BY <2>2, <2>3, NextIsStep
<1>. QED
  BY <1>1, <1>2, PTL DEF Spec

(* No wake-up is lost. When every thread is outside the channel or parked  *)
(* with nobody having selected it, nobody is a helper: so the channel is   *)
(* empty if a receiver sleeps and full if a sender does, and it is not     *)
(* disconnected (array.rs send and recv, waker.rs notify and disconnect).  *)
THEOREM NoWakeupIsLost == Spec => []NoLostWakeup
<1>1. ASSUME ArrayInv PROVE NoLostWakeup
  <2> DEFINE waiting == {t \in At({"parked"}) : select[t] = "waiting" /\ ~token[t]}
  <2>1. SUFFICES ASSUME At({"idle", "gone"}) \cup waiting = Threads, NEW t \in waiting
                 PROVE  /\ IF t \in Senders THEN Len(Queue) = cap ELSE Queue = <<>>
                        /\ ~Marked(tail)
    BY DEF NoLostWakeup
  <2>2. CoreInv /\ ChanTypeOK /\ RingInv /\ EndInv /\ WillBeTold /\ Covered
    BY <1>1 DEF ArrayInv, WakeInv, CoreInv
  <2>3. \A u \in Threads : pc[u] \in {"idle", "gone"} \/ (pc[u] = "parked" /\ select[u] = "waiting")
    BY <2>1 DEF At
  <2>4. t \in Threads /\ pc[t] = "parked" /\ select[t] = "waiting"
    BY <2>1 DEF At
  <2>5. ~Marked(tail)
    <3>1. At({"disconnect"}) = {}
      BY <2>3 DEF At
    <3>. QED
      BY <2>2, <2>4, <3>1 DEF WillBeTold
  <2>6. \A u \in Threads : ~HelpsRecv(u) /\ ~HelpsSend(u)
    BY <2>3 DEF HelpsRecv, HelpsSend, Blocking, LookingToSend, LookingToRecv, Writing, Taking
  <2>7. RecvHelpers = {} /\ SendHelpers = {}
    BY <2>2, <2>6, Helpers DEF Covered
  <2>8. Cardinality(RecvHelpers) = 0 /\ Cardinality(SendHelpers) = 0
    BY <2>7, FS_EmptySet
  <2>9. First = Received
    BY <2>2, <2>5, FirstBounds
  <2>10. /\ Sent \in Nat /\ Received \in Nat /\ cap \in Nat
         /\ Received <= Sent /\ Sent <= Received + cap
    BY <2>2, PosFacts, Sizes DEF RingInv, PositionsOK
  <2>11. CASE t \in Senders
    <3>1. t \in CountOnIt(Senders)
      BY <2>4, <2>11 DEF CountOnIt
    <3>2. cap - (Sent - Received) <= Cardinality(SendHelpers)
      BY <2>2, <2>5, <3>1 DEF Covered, SendCovered
    <3>3. Sent - First = cap
      BY <2>8, <2>9, <2>10, <3>2
    <3>4. Len(Queue) = cap
      BY <2>2, <3>3, QueueParts
    <3>. QED
      BY <2>5, <2>11, <3>4
  <2>12. CASE t \notin Senders
    <3>1. t \in CountOnIt(Receivers)
      BY <2>4, <2>12, ConstantsAssumption DEF CountOnIt
    <3>2. Sent - Received <= Cardinality(RecvHelpers)
      BY <2>2, <3>1 DEF Covered, RecvCovered
    <3>3. Sent = First
      BY <2>8, <2>9, <2>10, <3>2
    <3>. QED
      BY <2>2, <2>5, <2>12, <3>3, QueueEmpty
  <2>. QED
    BY <2>11, <2>12
<1>2. ArrayInv => NoLostWakeup
  BY <1>1
<1>. QED
  BY <1>2, ArrayInvariance, PTL

-----------------------------------------------------------------------------
(* A parked thread whose wait has been decided has its token.              *)
DecidedOK(t) == pc[t] = "parked" /\ select[t] # "waiting" => token[t]

LEMMA DecidedStep ==
  ASSUME CoreInv, WakerInv, EntriesOK, \A u \in Threads : DecidedOK(u), NEW t \in Threads, Step(t)
  PROVE  \A u \in Threads : DecidedOK(u)'
<1>0. ChanTypeOK /\ SidesOK(t) /\ WakerTypeOK
  BY DEF CoreInv, WakerInv
<1>1. CASE Loading(t)
  <2>1. OthersSame(t) /\ UNCHANGED <<select, token>>
    BY <1>0, <1>1, LoadingMoves, LoadingEntries DEF MovesOn
  <2>2. pc'[t] = "parked" => select[t] = "waiting"
    BY <1>1, LoadingTable DEF LooksOn, GivesUp, Peeks, Checks, Waits, LookingToSend, LookingToRecv, Start
  <2>. QED
    BY <2>1, <2>2 DEF OthersSame, DecidedOK
<1>2. CASE OwnWaker(t)
  <2>1. OthersSame(t) /\ \A u \in Threads \ {t} : select'[u] = select[u] /\ token'[u] = token[u]
    BY <1>0, <1>2, WakerOnlyMoves, OwnWakerEntries DEF MovesOn, OwnWaker, WakerOnly
  <2>2. pc'[t] # "parked"
    BY <1>2, OwnWakerTable DEF Start
  <2>. QED
    BY <2>1, <2>2 DEF OthersSame, DecidedOK
<1>3. CASE NotifyLock(t)
  <2>1. OthersSame(t) /\ pc'[t] = "idle"
    BY <1>0, <1>3, WakerOnlyMoves, NotifyEntries DEF MovesOn, WakerOnly
  <2>2. \A u \in Threads : token'[u] = TRUE \/ (select'[u] = select[u] /\ token'[u] = token[u])
    BY <1>0, <1>3, NotifyEntries DEF WakerTypeOK
  <2>. QED
    BY <2>1, <2>2 DEF OthersSame, DecidedOK
<1>4. CASE Disconnect(t)
  <2>1. OthersSame(t) /\ pc'[t] # "parked"
    BY <1>0, <1>4, EndMoves DEF EndStep, MovesOut, Leaving
  <2>2. \A u \in Threads : token'[u] \/ (select'[u] = select[u] /\ token'[u] = token[u])
    BY <1>4, DisconnectEntries
  <2>. QED
    BY <2>1, <2>2 DEF OthersSame, DecidedOK
<1>5. CASE Silent(t)
  <2>1. OthersSame(t) /\ UNCHANGED <<select, token>> /\ pc'[t] # "parked"
    BY <1>5, SilentEntries DEF Blocking
  <2>. QED
    BY <2>1 DEF OthersSame, DecidedOK
<1>. QED
  BY <1>1, <1>2, <1>3, <1>4, <1>5, StepKinds

(* wait_until (context.rs) cannot sleep through what has become of a wait: *)
(* a parked thread that has been selected or told of the disconnection has *)
(* its token, and in a disconnected channel a parked thread without one    *)
(* is about to be told by the thread that disconnects the other side. This *)
(* is what keeps DisconnectEndsCalls from failing.                         *)
THEOREM DecidedAreUnparked ==
  Spec => [](\A t \in Threads :
                /\ DecidedOK(t)
                /\ Marked(tail) /\ pc[t] = "parked" =>
                     token[t] \/ \E u \in At({"disconnect"}) : Own(u) # Own(t))
<1> DEFINE AllDecided == \A t \in Threads : DecidedOK(t)
<1>1. Init => AllDecided
  BY DEF Init, DecidedOK
<1>2. ArrayInv /\ AllDecided /\ [Next]_vars => AllDecided'
  <2> SUFFICES ASSUME ArrayInv, AllDecided, [Next]_vars PROVE AllDecided'
    OBVIOUS
  <2>1. CoreInv /\ WakerInv /\ EntriesOK
    BY DEF ArrayInv, WakeInv
  <2>2. CASE UNCHANGED vars
    BY <2>2 DEF vars, wakerVars, DecidedOK
  <2>3. CASE \E t \in Threads : Step(t)
    BY <2>1, <2>3, DecidedStep
  <2>. QED
    BY <2>2, <2>3, NextIsStep
<1>3. ArrayInv /\ AllDecided =>
        \A t \in Threads :
           /\ DecidedOK(t)
           /\ Marked(tail) /\ pc[t] = "parked" =>
                token[t] \/ \E u \in At({"disconnect"}) : Own(u) # Own(t)
  BY DEF ArrayInv, WakeInv, WillBeTold, DecidedOK
<1> HIDE DEF AllDecided
<1>. QED
  BY <1>1, <1>2, <1>3, ArrayInvariance, PTL DEF Spec
=============================================================================
