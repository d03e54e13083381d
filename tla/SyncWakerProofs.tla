-------------------------- MODULE SyncWakerProofs ---------------------------
(***************************************************************************)
(* What the operations of the channels' wakers do to the set of threads    *)
(* that are registered, for the proofs about the channels. A waker keeps   *)
(* its entries in a sequence without repetitions; which threads are in it  *)
(* is what the channels depend on, the order is not.                       *)
(***************************************************************************)
EXTENDS SyncWaker, TLAPS, SequenceTheorems, WellFoundedInduction

(* A sequence without repetitions.                                         *)
Distinct(s) == \A i, j \in 1..Len(s) : s[i] = s[j] => i = j

WakerTypeOK ==
    /\ selectors \in [Wakers -> Seq(Threads)]
    /\ is_empty  \in [Wakers -> BOOLEAN]
    /\ select \in [Threads -> {"waiting", "aborted", "disconnected", "operation"}]
    /\ token  \in [Threads -> BOOLEAN]

EntriesAreDistinct == \A w \in Wakers : Distinct(selectors[w])

FlagsAreTrue == \A w \in Wakers : is_empty[w] <=> selectors[w] = <<>>

(* The inductive invariant of the wakers.                                  *)
WakerInv == WakerTypeOK /\ EntriesAreDistinct /\ FlagsAreTrue

(* The threads that are registered with waker w.                           *)
Registered(w) == ToSet(selectors[w])

-----------------------------------------------------------------------------
(* A nonempty set of numbers has a least element.                          *)
LEMMA MinIsLeast ==
  ASSUME NEW S \in SUBSET Nat, S # {}
  PROVE  Min(S) \in S /\ \A n \in S : Min(S) <= n
<1> DEFINE R == {ss \in Nat \X Nat : ss[1] < ss[2]}
<1>1. IsWellFoundedOn(R, Nat)
  BY NatLessThanWellFounded, Zenon DEF OpToRel
<1>2. PICK m \in S : \A n \in S : ~(<<n, m>> \in R)
  <2> HIDE DEF R
  <2>. QED
    BY <1>1, WFMin
<1>3. \A n \in S : m <= n
  <2>1. ASSUME NEW n \in S, n < m PROVE <<n, m>> \in R
    BY <2>1
  <2>2. \A n \in S : ~(n < m) /\ n \in Nat /\ m \in Nat
    BY <1>2, <2>1
  <2>. QED
    BY <2>2
<1>. QED
  BY <1>3 DEF Min

(* The elements of a sequence are those at its positions.                  *)
LEMMA SetOfSeq ==
  ASSUME NEW T, NEW s \in Seq(T)
  PROVE  /\ ToSet(s) \subseteq T
         /\ \A x : x \in ToSet(s) <=> \E i \in 1..Len(s) : s[i] = x
         /\ s = <<>> <=> ToSet(s) = {}
<1>1. DOMAIN s = 1..Len(s) /\ Len(s) \in Nat /\ \A i \in 1..Len(s) : s[i] \in T
  BY LenProperties, ElementOfSeq
<1>2. ToSet(s) = {} => s = <<>>
  <2>1. ASSUME Len(s) # 0 PROVE s[1] \in ToSet(s)
    <3>1. 1 \in DOMAIN s
      BY <1>1, <2>1
    <3>. QED
      BY <3>1 DEF ToSet
  <2>. QED
    BY <2>1, EmptySeq
<1>3. s = <<>> => ToSet(s) = {}
  <2>1. s = <<>> => 1..Len(s) = {}
    BY EmptySeq
  <2>. QED
    BY <1>1, <2>1 DEF ToSet
<1>. QED
  BY <1>1, <1>2, <1>3 DEF ToSet

(* Taking out one position.                                                *)
LEMMA RemoveAtIsSeq ==
  ASSUME NEW T, NEW s \in Seq(T), NEW k \in 1..Len(s)
  PROVE  /\ RemoveAt(s, k) \in Seq(T) /\ Len(RemoveAt(s, k)) = Len(s) - 1
         /\ \A i \in 1..(Len(s) - 1) : RemoveAt(s, k)[i] = IF i < k THEN s[i] ELSE s[i + 1]
<1> DEFINE a == SubSeq(s, 1, k - 1)
           b == SubSeq(s, k + 1, Len(s))
<1>0. Len(s) \in Nat /\ k \in Nat /\ 1 <= k /\ k <= Len(s) /\ \A i \in 1..Len(s) : s[i] \in T
  BY LenProperties, ElementOfSeq
<1>1. /\ a \in Seq(T) /\ Len(a) = k - 1
      /\ \A i \in 1..(k - 1) : a[i] = s[i]
  <2>1. \A i \in 1..(k - 1) : s[i] \in T
    BY <1>0
  <2>2. /\ a \in Seq(T) /\ Len(a) = IF 1 <= k - 1 THEN (k - 1) - 1 + 1 ELSE 0
        /\ \A i \in 1..((k - 1) - 1 + 1) : a[i] = s[1 + i - 1]
    BY <1>0, <2>1, SubSeqProperties
  <2>. QED
    BY <1>0, <2>2
<1>2. /\ b \in Seq(T) /\ Len(b) = Len(s) - k
      /\ \A i \in 1..(Len(s) - k) : b[i] = s[k + i]
  <2>1. \A i \in (k + 1)..Len(s) : s[i] \in T
    BY <1>0
  <2>2. /\ b \in Seq(T) /\ Len(b) = IF k + 1 <= Len(s) THEN Len(s) - (k + 1) + 1 ELSE 0
        /\ \A i \in 1..(Len(s) - (k + 1) + 1) : b[i] = s[(k + 1) + i - 1]
    BY <1>0, <2>1, SubSeqProperties
  <2>. QED
    BY <1>0, <2>2
<1> HIDE DEF a, b
<1>3. /\ a \o b \in Seq(T) /\ Len(a \o b) = Len(a) + Len(b)
      /\ \A i \in 1..(Len(a) + Len(b)) : (a \o b)[i] = IF i <= Len(a) THEN a[i] ELSE b[i - Len(a)]
  BY <1>1, <1>2, ConcatProperties
<1>4. ASSUME NEW i \in 1..(Len(s) - 1)
      PROVE  (a \o b)[i] = IF i < k THEN s[i] ELSE s[i + 1]
  <2>1. CASE i < k
    BY <1>0, <1>1, <1>2, <1>3, <2>1
  <2>2. CASE ~(i < k)
    <3>1. (a \o b)[i] = b[i - (k - 1)] /\ i - (k - 1) \in 1..(Len(s) - k)
      BY <1>0, <1>1, <1>2, <1>3, <2>2
    <3>2. k + (i - (k - 1)) = i + 1
      BY <1>0
    <3>. QED
      BY <1>2, <2>2, <3>1, <3>2
  <2>. QED
    BY <2>1, <2>2
<1>5. RemoveAt(s, k) = a \o b
  BY DEF RemoveAt, a, b
<1>6. Len(a) + Len(b) = Len(s) - 1
  BY <1>0, <1>1, <1>2
<1>. QED
  BY <1>3, <1>4, <1>5, <1>6

(* A sequence without repetitions loses exactly the element taken out.     *)
LEMMA RemoveAtSet ==
  ASSUME NEW T, NEW s \in Seq(T), Distinct(s), NEW k \in 1..Len(s)
  PROVE  /\ RemoveAt(s, k) \in Seq(T) /\ Distinct(RemoveAt(s, k))
         /\ ToSet(RemoveAt(s, k)) = ToSet(s) \ {s[k]}
<1> DEFINE r == RemoveAt(s, k)
           n == Len(s)
<1>0. n \in Nat /\ k \in 1..n
  BY LenProperties
<1>1. /\ r \in Seq(T) /\ Len(r) = n - 1
      /\ \A i \in 1..(n - 1) : r[i] = IF i < k THEN s[i] ELSE s[i + 1]
  BY RemoveAtIsSeq
<1> HIDE DEF r, n
<1>s. \A i, j \in 1..n : s[i] = s[j] => i = j
  BY DEF Distinct, n
<1>2. Distinct(r)
  <2> SUFFICES ASSUME NEW i \in 1..(n - 1), NEW j \in 1..(n - 1), r[i] = r[j] PROVE i = j
    BY <1>1 DEF Distinct
  <2>1. PICK p \in 1..n : r[i] = s[p] /\ p = IF i < k THEN i ELSE i + 1
    BY <1>0, <1>1
  <2>2. PICK q \in 1..n : r[j] = s[q] /\ q = IF j < k THEN j ELSE j + 1
    BY <1>0, <1>1
  <2>3. p = q
    BY <1>s, <2>1, <2>2
  <2>. QED
    BY <1>0, <2>1, <2>2, <2>3
<1>3. ASSUME NEW x PROVE x \in ToSet(r) <=> x \in ToSet(s) /\ x # s[k]
  <2>1. x \in ToSet(r) <=> \E i \in 1..(n - 1) : r[i] = x
    BY <1>1, SetOfSeq
  <2>2. x \in ToSet(s) <=> \E i \in 1..n : s[i] = x
    BY SetOfSeq DEF n
  <2>3. ASSUME NEW i \in 1..(n - 1), r[i] = x PROVE x \in ToSet(s) /\ x # s[k]
    <3>1. PICK p \in 1..n : r[i] = s[p] /\ p # k
      BY <1>0, <1>1
    <3>. QED
      BY <1>0, <1>s, <2>2, <2>3, <3>1
  <2>4. ASSUME NEW p \in 1..n, s[p] = x, p # k PROVE \E i \in 1..(n - 1) : r[i] = x
    <3>1. CASE p < k
      BY <1>0, <1>1, <2>4, <3>1
    <3>2. CASE k < p
      <4>1. p - 1 \in 1..(n - 1) /\ ~(p - 1 < k) /\ (p - 1) + 1 = p
        BY <1>0, <3>2
      <4>. QED
        BY <1>1, <2>4, <4>1
    <3>. QED
      BY <1>0, <2>4, <3>1, <3>2
  <2>. QED
    BY <1>0, <2>1, <2>2, <2>3, <2>4
<1>. QED
  BY <1>1, <1>2, <1>3 DEF r

(* The same for the element itself.                                        *)
LEMMA RemoveFirstSet ==
  ASSUME NEW T, NEW s \in Seq(T), Distinct(s), NEW e
  PROVE  /\ RemoveFirst(s, e) \in Seq(T) /\ Distinct(RemoveFirst(s, e))
         /\ ToSet(RemoveFirst(s, e)) = ToSet(s) \ {e}
<1> DEFINE I == {i \in 1..Len(s) : s[i] = e}
<1>1. CASE I # {}
  <2>1. I \in SUBSET Nat
    OBVIOUS
  <2>2. RemoveFirst(s, e) = RemoveAt(s, Min(I))
    BY <1>1 DEF RemoveFirst, SelectInSeq
  <2> DEFINE k == Min(I)
  <2>3. k \in I
    <3> HIDE DEF I
    <3>. QED
      BY <1>1, <2>1, MinIsLeast
  <2> HIDE DEF k
  <2>4. k \in 1..Len(s) /\ s[k] = e
    BY <2>3
  <2>5. /\ RemoveAt(s, k) \in Seq(T) /\ Distinct(RemoveAt(s, k))
        /\ ToSet(RemoveAt(s, k)) = ToSet(s) \ {s[k]}
    BY <2>4, RemoveAtSet
  <2>. QED
    BY <2>2, <2>4, <2>5 DEF k
<1>2. CASE I = {}
  <2>1. RemoveFirst(s, e) = s /\ e \notin ToSet(s)
    BY <1>2, SetOfSeq DEF RemoveFirst
  <2>. QED
    BY <2>1
<1>. QED
  BY <1>1, <1>2

(* A new element at the end.                                               *)
LEMMA AppendSet ==
  ASSUME NEW T, NEW s \in Seq(T), Distinct(s), NEW e \in T, e \notin ToSet(s)
  PROVE  /\ Append(s, e) \in Seq(T) /\ Distinct(Append(s, e))
         /\ ToSet(Append(s, e)) = ToSet(s) \cup {e}
<1> DEFINE r == Append(s, e)
           n == Len(s)
<1>0. n \in Nat
  BY LenProperties
<1>1. r \in Seq(T) /\ Len(r) = n + 1 /\ (\A i \in 1..n : r[i] = s[i]) /\ r[n + 1] = e
  BY AppendProperties
<1>2. \A x : x \in ToSet(s) <=> \E i \in 1..n : s[i] = x
  BY SetOfSeq
<1>3. \A x : x \in ToSet(r) <=> \E i \in 1..(n + 1) : r[i] = x
  BY <1>1, SetOfSeq
<1>4. \A i, j \in 1..n : s[i] = s[j] => i = j
  BY DEF Distinct
<1> HIDE DEF r, n
<1>5. Distinct(r)
  BY <1>0, <1>1, <1>2, <1>4 DEF Distinct
<1>6. \A x : x \in ToSet(r) <=> x \in ToSet(s) \/ x = e
  BY <1>0, <1>1, <1>2, <1>3
<1>. QED
  BY <1>1, <1>5, <1>6 DEF r

-----------------------------------------------------------------------------
(* The wakers of a new channel.                                            *)
LEMMA WakerStart ==
  ASSUME WakerInit
  PROVE  WakerInv /\ \A w \in Wakers : Registered(w) = {}
<1>1. \A w \in Wakers : selectors[w] = <<>> /\ is_empty[w] = TRUE
  BY DEF WakerInit
<1>2. <<>> \in Seq(Threads) /\ Len(<<>>) = 0
  BY EmptySeq
<1>3. WakerTypeOK
  BY <1>2 DEF WakerInit, WakerTypeOK
<1>4. EntriesAreDistinct
  <2>1. Distinct(<<>>)
    BY <1>2 DEF Distinct
  <2>. QED
    BY <1>1, <2>1 DEF EntriesAreDistinct
<1>5. \A w \in Wakers : Registered(w) = {}
  BY <1>1, <1>2, SetOfSeq DEF Registered
<1>. QED
  BY <1>1, <1>3, <1>4, <1>5 DEF WakerInv, FlagsAreTrue

(* What the wakers are made of does not change while they do not.          *)
LEMMA WakerSame ==
  ASSUME WakerInv, UNCHANGED <<selectors, is_empty>>,
         select' \in [Threads -> {"waiting", "aborted", "disconnected", "operation"}],
         token' \in [Threads -> BOOLEAN]
  PROVE  WakerInv' /\ \A w \in Wakers : Registered(w)' = Registered(w)
  BY DEF WakerInv, WakerTypeOK, EntriesAreDistinct, FlagsAreTrue, Registered

LEMMA WakerUnchanged ==
  ASSUME WakerInv, UNCHANGED wakerVars
  PROVE  WakerInv' /\ \A w \in Wakers : Registered(w)' = Registered(w)
<1>1. UNCHANGED <<selectors, is_empty, select, token>>
  BY DEF wakerVars
<1>. QED
  BY <1>1, WakerSame DEF WakerInv, WakerTypeOK

(* Every change of the entries of one waker.                               *)
LEMMA SetSelectorsEffect ==
  ASSUME WakerInv, NEW w \in Wakers, NEW s \in Seq(Threads), Distinct(s), SetSelectors(w, s),
         select' \in [Threads -> {"waiting", "aborted", "disconnected", "operation"}],
         token' \in [Threads -> BOOLEAN]
  PROVE  /\ WakerInv'
         /\ \A v \in Wakers : Registered(v)' = IF v = w THEN ToSet(s) ELSE Registered(v)
<1>1. \A v \in Wakers : selectors'[v] = IF v = w THEN s ELSE selectors[v]
  BY DEF SetSelectors, WakerInv, WakerTypeOK
<1>2. selectors' \in [Wakers -> Seq(Threads)]
  BY DEF SetSelectors, WakerInv, WakerTypeOK
<1>3. \A v \in Wakers : is_empty'[v] = IF v = w THEN s = <<>> ELSE is_empty[v]
  BY DEF SetSelectors, WakerInv, WakerTypeOK
<1>4. is_empty' \in [Wakers -> BOOLEAN]
  BY Zenon DEF SetSelectors, WakerInv, WakerTypeOK
<1>5. WakerTypeOK' /\ EntriesAreDistinct'
  BY <1>1, <1>2, <1>4 DEF WakerInv, WakerTypeOK, EntriesAreDistinct
<1>6. FlagsAreTrue'
  BY <1>1, <1>3 DEF WakerInv, FlagsAreTrue
<1>. QED
  BY <1>1, <1>5, <1>6 DEF WakerInv, Registered

(* A thread that registers is the only new one, and waits.                 *)
LEMMA RegisterEffect ==
  ASSUME WakerInv, NEW t \in Threads, NEW w \in Wakers, t \notin Registered(w), register(t, w)
  PROVE  /\ WakerInv' /\ select' = [select EXCEPT ![t] = "waiting"] /\ token' = token
         /\ \A v \in Wakers : Registered(v)' = IF v = w THEN Registered(v) \cup {t} ELSE Registered(v)
<1> DEFINE s == Append(selectors[w], t)
<1>1. /\ select' = [select EXCEPT ![t] = "waiting"] /\ token' = token /\ SetSelectors(w, s)
  BY DEF register
<1>2. selectors[w] \in Seq(Threads) /\ Distinct(selectors[w]) /\ t \notin ToSet(selectors[w])
  BY DEF WakerInv, WakerTypeOK, EntriesAreDistinct, Registered
<1>3. s \in Seq(Threads) /\ Distinct(s) /\ ToSet(s) = Registered(w) \cup {t}
  BY <1>2, AppendSet DEF Registered
<1>4. /\ select' \in [Threads -> {"waiting", "aborted", "disconnected", "operation"}]
      /\ token' \in [Threads -> BOOLEAN]
  BY <1>1 DEF WakerInv, WakerTypeOK
<1> HIDE DEF s
<1>. QED
  BY <1>1, <1>3, <1>4, SetSelectorsEffect

(* A thread that unregisters is the only one to go.                        *)
LEMMA UnregisterEffect ==
  ASSUME WakerInv, NEW t \in Threads, NEW w \in Wakers, unregister(t, w)
  PROVE  /\ WakerInv' /\ UNCHANGED <<select, token>>
         /\ \A v \in Wakers : Registered(v)' = IF v = w THEN Registered(v) \ {t} ELSE Registered(v)
<1> DEFINE s == RemoveFirst(selectors[w], t)
<1>1. UNCHANGED <<select, token>> /\ SetSelectors(w, s)
  BY DEF unregister
<1>2. selectors[w] \in Seq(Threads) /\ Distinct(selectors[w])
  BY DEF WakerInv, WakerTypeOK, EntriesAreDistinct
<1>3. s \in Seq(Threads) /\ Distinct(s) /\ ToSet(s) = Registered(w) \ {t}
  BY <1>2, RemoveFirstSet DEF Registered
<1>4. /\ select' \in [Threads -> {"waiting", "aborted", "disconnected", "operation"}]
      /\ token' \in [Threads -> BOOLEAN]
  BY <1>1 DEF WakerInv, WakerTypeOK
<1> HIDE DEF s
<1>. QED
  BY <1>1, <1>3, <1>4, SetSelectorsEffect

(* Whom a thread can select.                                               *)
LEMMA SelectableThreads ==
  ASSUME WakerInv, NEW t \in Threads, NEW w \in Wakers
  PROVE  Selectable(t, w) # {} <=> \E u \in Registered(w) : u # t /\ select[u] = "waiting"
<1>1. selectors[w] \in Seq(Threads)
  BY DEF WakerInv, WakerTypeOK
<1>2. DOMAIN selectors[w] = 1..Len(selectors[w])
  BY <1>1, LenProperties
<1>3. \A u : u \in Registered(w) <=> \E i \in 1..Len(selectors[w]) : selectors[w][i] = u
  BY <1>1, SetOfSeq DEF Registered
<1>. QED
  BY <1>2, <1>3 DEF Selectable

(* The thread that is selected was waiting, and is taken off and unparked. *)
LEMMA TrySelectEffect ==
  ASSUME WakerInv, NEW t \in Threads, NEW w \in Wakers, Selectable(t, w) # {}, try_select(t, w)
  PROVE  \E u \in Registered(w) :
            /\ u = selectors[w][Candidate(t, w)]
            /\ u \in Threads /\ u # t /\ select[u] = "waiting"
            /\ WakerInv'
            /\ select' = [select EXCEPT ![u] = "operation"] /\ token' = [token EXCEPT ![u] = TRUE]
            /\ \A v \in Wakers : Registered(v)' = IF v = w THEN Registered(v) \ {u} ELSE Registered(v)
<1> DEFINE k == Candidate(t, w)
           u == selectors[w][k]
           s == RemoveAt(selectors[w], k)
<1>1. selectors[w] \in Seq(Threads) /\ Distinct(selectors[w])
  BY DEF WakerInv, WakerTypeOK, EntriesAreDistinct
<1>2. DOMAIN selectors[w] = 1..Len(selectors[w]) /\ Len(selectors[w]) \in Nat
  BY <1>1, LenProperties
<1>3. k \in Selectable(t, w)
  <2>1. Selectable(t, w) \in SUBSET Nat
    BY <1>2 DEF Selectable
  <2>. QED
    BY <2>1, MinIsLeast DEF Candidate
<1>4. /\ select' = [select EXCEPT ![u] = "operation"] /\ token' = [token EXCEPT ![u] = TRUE]
      /\ SetSelectors(w, s)
  BY DEF try_select
<1> HIDE DEF k
<1>5. k \in 1..Len(selectors[w]) /\ u # t /\ select[u] = "waiting"
  BY <1>2, <1>3 DEF Selectable
<1>6. u \in Registered(w) /\ u \in Threads
  BY <1>1, <1>5, SetOfSeq DEF Registered
<1>7. s \in Seq(Threads) /\ Distinct(s) /\ ToSet(s) = Registered(w) \ {u}
  BY <1>1, <1>5, RemoveAtSet DEF Registered
<1>8. u = selectors[w][Candidate(t, w)]
  BY DEF k
<1> HIDE DEF u, s
<1>9. /\ select' \in [Threads -> {"waiting", "aborted", "disconnected", "operation"}]
      /\ token' \in [Threads -> BOOLEAN]
  BY <1>4 DEF WakerInv, WakerTypeOK
<1>10. /\ WakerInv'
       /\ \A v \in Wakers : Registered(v)' = IF v = w THEN ToSet(s) ELSE Registered(v)
  BY <1>4, <1>7, <1>9, SetSelectorsEffect
<1>. QED
  BY <1>4, <1>5, <1>6, <1>7, <1>8, <1>10

(* A disconnection tells every registered thread that still waits.         *)
LEMMA DisconnectEffect ==
  ASSUME WakerInv, NEW ws \in SUBSET Wakers, disconnect(ws)
  PROVE  /\ WakerInv' /\ \A w \in Wakers : Registered(w)' = Registered(w)
         /\ \A u \in Threads :
              /\ u \in Disconnected(ws) <=> select[u] = "waiting" /\ \E w \in ws : u \in Registered(w)
              /\ u \in Disconnected(ws) => select'[u] = "disconnected" /\ token'[u]
              /\ u \notin Disconnected(ws) => select'[u] = select[u] /\ token'[u] = token[u]
<1>1. selectors' = selectors
  BY DEF disconnect
<1>2. \A w \in Wakers : is_empty'[w] = IF w \in ws THEN selectors[w] = <<>> ELSE is_empty[w]
  BY DEF disconnect
<1>3. is_empty' \in [Wakers -> BOOLEAN]
  <2>1. \A w \in Wakers : (IF w \in ws THEN selectors[w] = <<>> ELSE is_empty[w]) \in BOOLEAN
    BY DEF WakerInv, WakerTypeOK
  <2>. QED
    BY <2>1, Zenon DEF disconnect
<1>4. token' \in [Threads -> BOOLEAN]
  BY Zenon DEF disconnect
<1>5. select' \in [Threads -> {"waiting", "aborted", "disconnected", "operation"}]
  BY DEF disconnect, WakerInv, WakerTypeOK
<1>6. WakerTypeOK' /\ EntriesAreDistinct'
  BY <1>1, <1>3, <1>4, <1>5 DEF WakerInv, WakerTypeOK, EntriesAreDistinct
<1>7. FlagsAreTrue'
  BY <1>1, <1>2 DEF WakerInv, FlagsAreTrue
<1>8. ASSUME NEW u \in Threads
      PROVE  /\ u \in Disconnected(ws) <=> select[u] = "waiting" /\ \E w \in ws : u \in Registered(w)
             /\ u \in Disconnected(ws) => select'[u] = "disconnected" /\ token'[u]
             /\ u \notin Disconnected(ws) => select'[u] = select[u] /\ token'[u] = token[u]
  <2>1. u \in Disconnected(ws) <=> select[u] = "waiting" /\ \E w \in ws : u \in Registered(w)
    BY DEF Disconnected, Registered
  <2>2. /\ select'[u] = IF u \in Disconnected(ws) THEN "disconnected" ELSE select[u]
        /\ token'[u] = (u \in Disconnected(ws) \/ token[u])
    BY DEF disconnect
  <2>3. token[u] \in BOOLEAN
    BY DEF WakerInv, WakerTypeOK
  <2>. QED
    BY <2>1, <2>2, <2>3
<1>. QED
  BY <1>1, <1>6, <1>7, <1>8 DEF WakerInv, Registered
=============================================================================
