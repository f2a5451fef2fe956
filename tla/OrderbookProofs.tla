--------------------------- MODULE OrderbookProofs ---------------------------
(***************************************************************************)
(* Theorems about Orderbook for every number of orders and every finite or *)
(* infinite set of prices and sizes: the structure of the book in the      *)
(* middle of every loop, then what is a sum over it (the volume of a level, *)
(* what a market order was given), then what a call has done so far to the *)
(* depth and to the orders it found, from which the engine implements      *)
(* DepthBook and MatchingEngine.                                           *)
(***************************************************************************)
EXTENDS Orderbook, Sums, SequenceTheorems, TLAPS

-----------------------------------------------------------------------------
(* Sequences: taking one element out.                                       *)

\* RemoveAt shifts what follows the removed element by one.
LEMMA RemoveAtProperties ==
    ASSUME NEW S, NEW s \in Seq(S), NEW k \in 1..Len(s)
    PROVE  /\ RemoveAt(s, k) \in Seq(S)
           /\ Len(RemoveAt(s, k)) = Len(s) - 1
           /\ \A j \in 1..(Len(s) - 1) :
                 RemoveAt(s, k)[j] = IF j < k THEN s[j] ELSE s[j + 1]
<1> DEFINE l == SubSeq(s, 1, k - 1)
           r == SubSeq(s, k + 1, Len(s))
<1>1. /\ l \in Seq(S) /\ Len(l) = k - 1
      /\ \A j \in 1..(k - 1) : l[j] = s[j]
  BY SubSeqProperties, LenProperties
<1>2. /\ r \in Seq(S) /\ Len(r) = Len(s) - k
      /\ \A j \in 1..(Len(s) - k) : r[j] = s[j + k]
  BY SubSeqProperties, LenProperties
<1>3. RemoveAt(s, k) = l \o r
  BY DEF RemoveAt
<1> HIDE DEF l, r
<1>4. /\ l \o r \in Seq(S)
      /\ Len(l \o r) = Len(l) + Len(r)
      /\ \A j \in 1..(Len(l) + Len(r)) :
            (l \o r)[j] = IF j <= Len(l) THEN l[j] ELSE r[j - Len(l)]
  BY <1>1, <1>2, ConcatProperties
<1>5. k \in Nat /\ Len(s) \in Nat /\ 1 <= k /\ k <= Len(s)
  BY LenProperties
<1>6. ASSUME NEW j \in 1..(Len(s) - 1)
      PROVE  (l \o r)[j] = IF j < k THEN s[j] ELSE s[j + 1]
  <2>1. CASE j < k
    BY <1>1, <1>2, <1>4, <1>5, <2>1
  <2>2. CASE ~ (j < k)
    <3>1. j \in 1..(Len(l) + Len(r)) /\ ~ (j <= Len(l)) /\ j - Len(l) = j - k + 1
      BY <1>1, <1>2, <1>5, <2>2
    <3>2. j - k + 1 \in 1..(Len(s) - k) /\ (j - k + 1) + k = j + 1
      BY <1>5, <2>2
    <3> QED BY <1>2, <1>4, <2>2, <3>1, <3>2
  <2> QED BY <2>1, <2>2
<1> QED
  BY <1>1, <1>2, <1>3, <1>4, <1>5, <1>6

\* What Without leaves of a sequence.
LEMMA WithoutProperties ==
    ASSUME NEW S, NEW s \in Seq(S), NEW e
    PROVE  /\ Without(s, e) \in Seq(S)
           /\ ToSet(Without(s, e)) \subseteq ToSet(s)
           /\ ToSet(s) \ {e} \subseteq ToSet(Without(s, e))
           /\ (\A j, k \in DOMAIN s : s[j] = s[k] => j = k)
                 => e \notin ToSet(Without(s, e))
           /\ \A b \in BOOLEAN : BestFirst(b, s) => BestFirst(b, Without(s, e))
<1>0. DOMAIN s = 1..Len(s) /\ Len(s) \in Nat
  BY LenProperties
<1>1. CASE e \notin ToSet(s)
  BY <1>1 DEF Without
<1>2. CASE e \in ToSet(s)
  <2> DEFINE k == Position(s, e)
             t == RemoveAt(s, k)
  <2>1. k \in 1..Len(s) /\ s[k] = e
    BY <1>0, <1>2 DEF ToSet, Position
  <2>2. Without(s, e) = t
    BY <1>2 DEF Without
  <2> HIDE DEF k
  <2>3. /\ t \in Seq(S) /\ Len(t) = Len(s) - 1
        /\ \A j \in 1..(Len(s) - 1) : t[j] = IF j < k THEN s[j] ELSE s[j + 1]
    BY <2>1, RemoveAtProperties
  <2> HIDE DEF t
  <2>4. DOMAIN t = 1..(Len(s) - 1)
    BY <2>3, LenProperties
  <2>5. ASSUME NEW j \in DOMAIN t
        PROVE  \E m \in DOMAIN s : m # k /\ t[j] = s[m] /\ m = IF j < k THEN j ELSE j + 1
    BY <1>0, <2>1, <2>3, <2>4
  <2>6. ASSUME NEW m \in DOMAIN s, m # k
        PROVE  \E j \in DOMAIN t : t[j] = s[m]
    <3>1. CASE m < k
      BY <1>0, <2>1, <2>3, <2>4, <3>1
    <3>2. CASE m > k
      <4>1. m - 1 \in DOMAIN t /\ ~(m - 1 < k) /\ (m - 1) + 1 = m
        BY <1>0, <2>1, <2>4, <3>2
      <4> QED BY <2>3, <2>4, <4>1
    <3> QED BY <1>0, <2>1, <2>6, <3>1, <3>2
  <2>7. ToSet(t) \subseteq ToSet(s)
    BY <2>5 DEF ToSet
  <2>8. ToSet(s) \ {e} \subseteq ToSet(t)
    BY <2>1, <2>6 DEF ToSet
  <2>9. (\A j, m \in DOMAIN s : s[j] = s[m] => j = m) => e \notin ToSet(t)
    BY <1>0, <2>1, <2>5 DEF ToSet
  <2>10. ASSUME NEW b \in BOOLEAN, BestFirst(b, s), NEW j \in DOMAIN t, NEW m \in DOMAIN t, j < m
         PROVE  Better(b, t[j], t[m])
    <3>1. PICK j2 \in DOMAIN s : t[j] = s[j2] /\ j2 = IF j < k THEN j ELSE j + 1
      BY <2>5
    <3>2. PICK m2 \in DOMAIN s : t[m] = s[m2] /\ m2 = IF m < k THEN m ELSE m + 1
      BY <2>5
    <3>3. j2 < m2
      BY <1>0, <2>1, <2>4, <2>10, <3>1, <3>2
    <3> QED BY <2>10, <3>1, <3>2, <3>3 DEF BestFirst
  <2> QED BY <2>2, <2>3, <2>7, <2>8, <2>9, <2>10 DEF BestFirst
<1> QED BY <1>1, <1>2
-----------------------------------------------------------------------------
(* The invariant holds at the start and every action keeps it.              *)

USE MaxOrdersAssumption, PricesAssumption, SizesAssumption

LEMMA OrdersAreNat == Orders \subseteq Nat \ {0} /\ (MaxOrders > 0 => MaxOrders \in Orders)
  BY DEF Orders

LEMMA InitInv == Init => IInv
<1> SUFFICES ASSUME Init PROVE IInv
  OBVIOUS
<1>1. TypeOK
  BY DEF Init, TypeOK, Orders, NoLimit
<1>2. LevelsAgree
  BY EmptySequence DEF Init, LevelsAgree, BestFirst
<1>3. CallInv /\ NotCrossed /\ FillInv
  BY DEF Init, CallInv, NotCrossed, FillInv
<1>4. QueueInv /\ SpentInv
  BY EmptySequence DEF Init, QueueInv, SpentInv
<1> QED BY <1>1, <1>2, <1>3, <1>4 DEF IInv

\* A new order reaches an idle engine.
LEMMA ReceiveInv ==
    ASSUME IInv, NEW b \in BOOLEAN, NEW p \in Nat, NEW n \in Sizes, Receive(b, p, n),
           \/ pc' = "loop" /\ at' = 1 /\ call' \in {"limit", "market"}
           \/ UNCHANGED <<pc, at, call>>,
           pc' = "loop" /\ call' = "limit" => p \in Prices
    PROVE  IInv'
<1> USE DEF IInv, Receive, book
<1>0. /\ placed' \in Orders /\ placed' = placed + 1 /\ placed \in Nat
      /\ pc' \in {"idle", "loop"} /\ pc = "idle"
  BY DEF TypeOK, Orders
<1>1. TypeOK'
  <2>1. bid' \in [Orders -> BOOLEAN] /\ price' \in [Orders -> Nat]
    BY DEF TypeOK
  <2>2. size' \in [Orders -> Nat] /\ given' \in [Orders -> Nat]
    BY DEF TypeOK
  <2>3. placed' \in 0..MaxOrders /\ pc' \in {"idle", "loop", "fill", "delete"}
    BY <1>0 DEF Orders
  <2>4. call' \in {"limit", "market"} /\ at' \in Nat \ {0}
    <3>1. call \in {"limit", "market"} /\ at \in Nat \ {0}
      BY DEF TypeOK
    <3> HIDE DEF IInv, Receive
    <3> QED BY <3>1
  <2>5. /\ engineLimit' \in [Orders -> Nat]
        /\ levels' \in [BOOLEAN -> Seq(Prices)] /\ limits' \in [BOOLEAN -> SUBSET Prices]
        /\ queue' \in [BOOLEAN -> [Prices -> Seq(Orders)]]
        /\ volume' \in [BOOLEAN -> [Prices -> Int]]
        /\ idx' \in Nat \ {0} /\ toDelete' \in Seq(Orders)
    BY DEF TypeOK
  <2> QED BY <2>1, <2>2, <2>3, <2>4, <2>5 DEF TypeOK
<1>2. LevelsAgree' /\ NotCrossed'
  BY DEF LevelsAgree, NotCrossed
<1>3. CallInv'
  <2>1. CASE pc' = "idle"
    BY <2>1 DEF CallInv
  <2>2. CASE pc' # "idle"
    <3>1. pc' = "loop" /\ at' = 1
      BY <1>0, <2>2
    <3>2. price'[placed'] = p
      BY <1>0 DEF TypeOK
    <3>3. call' = "limit" => p \in Prices
      BY <3>1
    <3> HIDE DEF IInv, Receive
    <3> QED BY <1>0, <3>1, <3>2, <3>3 DEF CallInv, InFill, Taker
  <2> QED BY <2>1, <2>2
<1>4. ASSUME NEW c \in BOOLEAN, NEW q \in Prices, NEW o \in ToSet(queue[c][q])
      PROVE  /\ o \in Orders /\ o <= placed /\ o # placed' /\ bid'[o] = c /\ price'[o] = q
             /\ size'[o] = size[o]
  <2>1. queue[c][q] \in Seq(Orders)
    BY DEF TypeOK
  <2>2. o \in Orders /\ o <= placed /\ bid[o] = c /\ price[o] = q
    BY <2>1, InToSet DEF QueueInv
  <2> QED BY <1>0, <2>2, OrdersAreNat DEF TypeOK
<1>5. QueueInv'
  <2>1. UNCHANGED <<limits, queue>>
    OBVIOUS
  <2>2. ASSUME NEW c \in BOOLEAN, NEW q \in Prices, NEW o \in ToSet(queue[c][q])
        PROVE  o <= placed'
    <3>1. o \in Nat /\ o <= placed /\ placed' = placed + 1 /\ placed \in Nat
      BY <1>0, <1>4, OrdersAreNat
    <3> HIDE DEF IInv, Receive
    <3> QED BY <3>1
  <2> QED BY <1>4, <2>1, <2>2 DEF QueueInv, Taker
<1>6. SpentInv'
  <2>1. UNCHANGED <<limits, queue, toDelete>>
    OBVIOUS
  <2>2. ASSUME NEW c \in BOOLEAN, NEW q \in Prices PROVE q \in limits[c] => queue[c][q] # <<>>
    BY <1>0 DEF SpentInv
  <2>3. ASSUME NEW c \in BOOLEAN, NEW q \in Prices, NEW o \in ToSet(queue[c][q])
        PROVE  size'[o] # 0
    BY <1>0, <1>4 DEF SpentInv, InFill
  <2> QED BY <2>1, <2>2, <2>3 DEF SpentInv
<1>7. FillInv'
  BY <1>0 DEF FillInv
<1> QED BY <1>1, <1>2, <1>3, <1>5, <1>6, <1>7

LEMMA StartFillInv == IInv /\ StartFill => IInv'
<1> SUFFICES ASSUME IInv, StartFill PROVE IInv'
  OBVIOUS
<1> USE DEF IInv, StartFill, book
<1>0. /\ placed \in Orders /\ at = 1 /\ at \in DOMAIN levels[Opp]
      /\ Opp \in BOOLEAN /\ Opp' = Opp /\ Target' = Target /\ Target \in Prices
      /\ queue[Opp][Target] \in Seq(Orders)
  <2>1. placed \in Orders /\ Opp \in BOOLEAN /\ Opp' = Opp /\ Target' = Target
    BY DEF CallInv, TypeOK, Opp, Target, Taker
  <2>2. levels[Opp] \in Seq(Prices) /\ queue[Opp] \in [Prices -> Seq(Orders)]
    BY <2>1 DEF TypeOK
  <2>3. at = 1 /\ at <= Len(levels[Opp])
    BY <2>1 DEF CallInv, CanMatch, TypeOK, Taker
  <2>4. at \in DOMAIN levels[Opp] /\ Target \in Prices
    BY <2>2, <2>3, InToSet DEF Target
  <2> QED BY <2>1, <2>2, <2>3, <2>4
<1>1. TypeOK'
  BY DEF TypeOK
<1>2. LevelsAgree' /\ NotCrossed'
  BY DEF LevelsAgree, NotCrossed
<1>3. CallInv'
  BY <1>0, InToSet DEF CallInv, InFill, Taker
<1>4. QueueInv'
  BY DEF QueueInv, Taker
<1>5. SpentInv'
  BY <1>0 DEF SpentInv, InFill
<1>6. FillInv'
  BY <1>0, EmptySequence DEF FillInv
<1> QED BY <1>1, <1>2, <1>3, <1>4, <1>5, <1>6

\* Where Fill works.
LEMMA FillPlace ==
    ASSUME IInv, InFill
    PROVE  /\ placed \in Orders /\ at = 1 /\ pc # "idle"
           /\ Opp \in BOOLEAN /\ bid[Taker] \in BOOLEAN /\ Opp # bid[Taker]
           /\ levels[Opp] \in Seq(Prices) /\ at \in DOMAIN levels[Opp]
           /\ Target \in Prices /\ Target \in limits[Opp] /\ Target \in ToSet(levels[Opp])
           /\ queue[Opp][Target] \in Seq(Orders)
<1>1. placed \in Orders /\ at = 1 /\ at \in DOMAIN levels[Opp] /\ pc # "idle"
  BY DEF IInv, CallInv, InFill
<1>2. Opp \in BOOLEAN /\ bid[Taker] \in BOOLEAN /\ Opp # bid[Taker]
  BY <1>1 DEF IInv, TypeOK, Opp, Taker
<1>3. levels[Opp] \in Seq(Prices) /\ queue[Opp] \in [Prices -> Seq(Orders)]
  BY <1>2 DEF IInv, TypeOK
<1>4. Target \in Prices /\ Target \in ToSet(levels[Opp])
  BY <1>1, <1>3, InToSet DEF Target
<1>5. Target \in limits[Opp]
  BY <1>2, <1>4 DEF IInv, LevelsAgree
<1> QED BY <1>1, <1>2, <1>3, <1>4, <1>5

\* What a queue holds.
LEMMA QueueOrders ==
    ASSUME IInv, NEW b \in BOOLEAN, NEW p \in Prices
    PROVE  /\ queue[b][p] \in Seq(Orders)
           /\ DOMAIN queue[b][p] = 1..Len(queue[b][p]) /\ Len(queue[b][p]) \in Nat
           /\ \A j \in DOMAIN queue[b][p] : queue[b][p][j] \in ToSet(queue[b][p])
           /\ \A o \in ToSet(queue[b][p]) :
                 /\ o \in Orders /\ o \in Nat /\ o <= placed /\ (pc # "idle" => o # Taker)
                 /\ bid[o] = b /\ price[o] = p /\ size[o] \in Nat
                 /\ \E j \in DOMAIN queue[b][p] : queue[b][p][j] = o
           /\ \A j, k \in DOMAIN queue[b][p] : queue[b][p][j] = queue[b][p][k] => j = k
<1>1. queue[b][p] \in Seq(Orders)
  BY DEF IInv, TypeOK
<1>2. \A o \in ToSet(queue[b][p]) : o \in Orders /\ o \in Nat /\ size[o] \in Nat
  <2>1. \A o \in ToSet(queue[b][p]) : o \in Orders
    BY <1>1, InToSet
  <2>2. \A o \in Orders : o \in Nat /\ size[o] \in Nat
    BY OrdersAreNat DEF IInv, TypeOK
  <2> QED BY <2>1, <2>2
<1>3. \A o \in ToSet(queue[b][p]) :
         /\ o <= placed /\ (pc # "idle" => o # Taker)
         /\ bid[o] = b /\ price[o] = p
  BY DEF IInv, QueueInv
<1>4. ASSUME NEW j \in DOMAIN queue[b][p], NEW k \in DOMAIN queue[b][p],
             queue[b][p][j] = queue[b][p][k]
      PROVE  j = k
  <2>1. queue[b][p][j] \in Nat /\ j \in Nat /\ k \in Nat
    <3>1. queue[b][p][j] \in Orders
      BY <1>1, <1>4, InToSet
    <3>2. j \in 1..Len(queue[b][p]) /\ k \in 1..Len(queue[b][p]) /\ Len(queue[b][p]) \in Nat
      BY <1>1, <1>4, InToSet
    <3>3. j \in Nat /\ k \in Nat
      BY <3>2
    <3> QED BY <3>1, <3>3, OrdersAreNat
  <2>2. ~ (j < k) /\ ~ (k < j)
    BY <1>4, <2>1 DEF IInv, QueueInv
  <2> QED BY <2>1, <2>2
<1> QED BY <1>1, <1>2, <1>3, <1>4, InToSet

\* What one iteration of Fill does to the sizes.
LEMMA FillSizes ==
    ASSUME IInv, FillOrder
    PROVE  LET q == queue[Opp][Target]
               maker == q[idx]
               filled == Minimum(size[maker], size[Taker])
           IN  /\ idx \in DOMAIN q /\ maker \in ToSet(q) /\ maker \in Orders /\ maker # Taker
               /\ filled \in Nat /\ filled <= size[maker] /\ filled <= size[Taker]
               /\ filled = size[maker] \/ filled = size[Taker]
               /\ size' \in [Orders -> Nat]
               /\ size'[maker] = size[maker] - filled
               /\ size'[Taker] = size[Taker] - filled
               /\ \A o \in Orders \ {maker, Taker} : size'[o] = size[o]
<1> DEFINE q == queue[Opp][Target]
           maker == q[idx]
           filled == Minimum(size[maker], size[Taker])
<1>1. InFill /\ pc # "idle" /\ pc = "fill"
  BY DEF InFill, FillOrder
<1>2. idx \in DOMAIN q /\ maker \in ToSet(q) /\ maker \in Orders /\ maker # Taker
  <2>1. idx \in DOMAIN q
    BY <1>1 DEF IInv, CallInv
  <2>2. maker \in ToSet(q) /\ Opp \in BOOLEAN /\ Target \in Prices
    BY <1>1, <2>1, FillPlace, InToSet
  <2> QED BY <1>1, <2>1, <2>2, QueueOrders
<1>3. size[maker] \in Nat /\ size[Taker] \in Nat /\ Taker \in Orders /\ size \in [Orders -> Nat]
  BY <1>1, <1>2, FillPlace DEF IInv, TypeOK, Taker
<1>4. /\ filled \in Nat /\ filled <= size[maker] /\ filled <= size[Taker]
      /\ filled = size[maker] \/ filled = size[Taker]
  BY <1>3 DEF Minimum
<1>5. size' = [size EXCEPT ![maker] = @ - filled, ![Taker] = @ - filled]
  BY DEF FillOrder
<1> HIDE DEF maker, filled
<1>6. /\ size'[maker] = size[maker] - filled
      /\ size'[Taker] = size[Taker] - filled
      /\ \A o \in Orders \ {maker, Taker} : size'[o] = size[o]
  BY <1>2, <1>3, <1>5
<1>7. size' \in [Orders -> Nat]
  BY <1>2, <1>3, <1>4, <1>5
<1> QED BY <1>2, <1>4, <1>6, <1>7 DEF maker, filled

LEMMA FillOrderInv == IInv /\ FillOrder => IInv'
<1> SUFFICES ASSUME IInv, FillOrder PROVE IInv'
  OBVIOUS
<1> DEFINE q == queue[Opp][Target]
           maker == q[idx]
           filled == Minimum(size[maker], size[Taker])
<1>1. InFill /\ pc = "fill"
  BY DEF InFill, FillOrder
<1>2. /\ idx \in DOMAIN q /\ maker \in ToSet(q) /\ maker \in Orders /\ maker # Taker
      /\ filled \in Nat /\ filled <= size[maker] /\ filled <= size[Taker]
      /\ filled = size[maker] \/ filled = size[Taker]
      /\ size' \in [Orders -> Nat]
      /\ size'[maker] = size[maker] - filled
      /\ size'[Taker] = size[Taker] - filled
      /\ \A o \in Orders \ {maker, Taker} : size'[o] = size[o]
  BY FillSizes
<1>3. /\ placed \in Orders /\ at = 1 /\ Opp \in BOOLEAN /\ at \in DOMAIN levels[Opp]
      /\ Target \in Prices /\ q \in Seq(Orders) /\ DOMAIN q = 1..Len(q) /\ Len(q) \in Nat
      /\ size[maker] \in Nat /\ size[Taker] \in Nat
  BY <1>1, <1>2, FillPlace, InToSet DEF IInv, TypeOK, Taker
<1>4. UNCHANGED <<placed, bid, price, engineLimit, levels, limits, queue, call, at, given>>
  BY DEF FillOrder
<1>5. Taker' = Taker /\ Opp' = Opp /\ Target' = Target
  BY <1>4 DEF Taker, Opp, Target
<1>6. /\ pc' = IF size[Taker] = filled \/ idx = Len(q) THEN "delete" ELSE "fill"
      /\ idx' = idx + 1
      /\ toDelete' = IF size[maker] = filled THEN Append(toDelete, maker) ELSE toDelete
      /\ volume' = [volume EXCEPT ![Opp][Target] = @ - filled]
  BY DEF FillOrder
<1> HIDE DEF maker, filled, q
<1>7. TypeOK'
  <2>1. toDelete' \in Seq(Orders)
    BY <1>2, <1>6, AppendProperties DEF IInv, TypeOK
  <2>2. volume' \in [BOOLEAN -> [Prices -> Int]]
    <3>1. volume \in [BOOLEAN -> [Prices -> Int]]
      BY DEF IInv, TypeOK
    <3>2. volume[Opp][Target] - filled \in Int
      BY <1>2, <1>3, <3>1
    <3> QED BY <1>3, <1>6, <3>1, <3>2
  <2>3. pc' \in {"idle", "loop", "fill", "delete"} /\ idx' \in Nat \ {0}
    BY <1>2, <1>3, <1>6
  <2> QED BY <1>2, <1>4, <2>1, <2>2, <2>3 DEF IInv, TypeOK
<1>8. LevelsAgree' /\ NotCrossed'
  BY <1>4 DEF IInv, LevelsAgree, NotCrossed
<1>9. CallInv'
  <2>1. pc' = "fill" => idx' \in DOMAIN queue'[Opp'][Target']
    BY <1>2, <1>3, <1>4, <1>5, <1>6 DEF q
  <2>2. call = "limit" => price[Taker] \in Prices
    BY <1>1 DEF IInv, CallInv
  <2> QED BY <1>3, <1>4, <1>5, <2>1, <2>2 DEF CallInv
<1>10. QueueInv'
  BY <1>1, <1>4, <1>5 DEF IInv, QueueInv
\* A resting order other than the maker keeps its size.
<1>11. ASSUME NEW b \in BOOLEAN, NEW p \in Prices, NEW o \in ToSet(queue[b][p]), o # maker
       PROVE  size'[o] = size[o]
  BY <1>1, <1>2, <1>11, QueueOrders
<1>12. SpentInv'
  <2>1. ASSUME NEW b \in BOOLEAN, NEW p \in Prices PROVE p \in limits[b] => queue[b][p] # <<>>
    BY <1>1 DEF IInv, SpentInv
  <2>2. ASSUME NEW b \in BOOLEAN, NEW p \in Prices, NEW o \in ToSet(queue[b][p]), size'[o] = 0
        PROVE  b = Opp /\ p = Target /\ o \in ToSet(toDelete')
    <3>1. CASE o = maker
      <4>1. b = Opp /\ p = Target
        <5>1. bid[o] = b /\ price[o] = p
          BY <2>2, QueueOrders
        <5>2. bid[maker] = Opp /\ price[maker] = Target
          BY <1>2, <1>3, QueueOrders DEF q
        <5> QED BY <3>1, <5>1, <5>2
      <4>2. size[maker] = filled
        BY <1>2, <1>3, <2>2, <3>1
      <4>3. toDelete \in Seq(Orders) /\ toDelete' = Append(toDelete, maker)
        BY <1>6, <4>2 DEF IInv, TypeOK
      <4>4. maker \in ToSet(toDelete')
        <5>1. /\ toDelete' \in Seq(Orders) /\ Len(toDelete') = Len(toDelete) + 1
              /\ toDelete'[Len(toDelete) + 1] = maker
          BY <1>2, <4>3, AppendProperties
        <5>2. Len(toDelete) + 1 \in DOMAIN toDelete'
          BY <4>3, <5>1, InToSet
        <5> QED BY <5>1, <5>2, InToSet
      <4> QED BY <3>1, <4>1, <4>4
    <3>2. CASE o # maker
      <4>1. b = Opp /\ p = Target /\ o \in ToSet(toDelete)
        BY <1>1, <1>11, <2>2, <3>2 DEF IInv, SpentInv
      <4>2. ToSet(toDelete) \subseteq ToSet(toDelete')
        <5>1. CASE toDelete' = toDelete
          BY <5>1
        <5>2. CASE toDelete' = Append(toDelete, maker)
          <6>1. toDelete \in Seq(Orders)
            BY DEF IInv, TypeOK
          <6>2. /\ toDelete' \in Seq(Orders) /\ Len(toDelete') = Len(toDelete) + 1
                /\ \A j \in 1..Len(toDelete) : toDelete'[j] = toDelete[j]
            BY <1>2, <5>2, <6>1, AppendProperties
          <6>3. ASSUME NEW e \in ToSet(toDelete) PROVE e \in ToSet(toDelete')
            <7>1. PICK j \in 1..Len(toDelete) : toDelete[j] = e
              BY <6>1, <6>3, InToSet
            <7>2. j \in DOMAIN toDelete' /\ toDelete'[j] = e
              BY <6>1, <6>2, <7>1, InToSet
            <7> QED BY <6>2, <7>2, InToSet
          <6> QED BY <6>3
        <5> QED BY <1>6, <5>1, <5>2
      <4> QED BY <4>1, <4>2
    <3> QED BY <3>1, <3>2
  <2>3. InFill'
    BY <1>6 DEF InFill
  <2> QED BY <1>4, <1>5, <2>1, <2>2, <2>3 DEF SpentInv
<1>13. FillInv'
  <2>1. ASSUME NEW j \in 1..(idx - 1) PROVE q[j] \in ToSet(q) /\ size'[q[j]] = 0
    <3>1. j \in DOMAIN q /\ j # idx /\ size[q[j]] = 0
      BY <1>1, <1>2, <1>3 DEF IInv, FillInv, q
    <3>2. q[j] \in ToSet(q) /\ q[j] # maker
      <4>1. q[j] \in ToSet(q)
        BY <1>3, <3>1, InToSet
      <4>2. \A k, l \in DOMAIN q : q[k] = q[l] => k = l
        BY <1>3, QueueOrders DEF q
      <4> QED BY <1>2, <3>1, <4>1, <4>2 DEF maker
    <3> QED BY <1>3, <1>11, <3>1, <3>2 DEF q
  <2>2. filled = size[maker] => size'[maker] = 0
    BY <1>2, <1>3
  <2>3. ASSUME pc' = "fill", NEW j \in 1..(idx' - 1) PROVE size'[q[j]] = 0
    <3>1. filled = size[maker]
      BY <1>2, <1>6, <2>3
    <3>2. CASE j = idx
      BY <2>2, <3>1, <3>2 DEF maker
    <3>3. CASE j # idx
      <4>1. j \in 1..(idx - 1)
        BY <1>2, <1>3, <1>6, <3>3
      <4> QED BY <2>1, <4>1
    <3> QED BY <3>2, <3>3
  <2>4. ASSUME pc' = "delete", size'[Taker] > 0, NEW o \in ToSet(q) PROVE size'[o] = 0
    <3>1. size[Taker] # filled
      BY <1>2, <1>3, <2>4
    <3>2. filled = size[maker] /\ idx = Len(q)
      BY <1>2, <1>6, <2>4, <3>1
    <3>3. PICK j \in DOMAIN q : q[j] = o
      BY <1>3, <2>4, InToSet
    <3>4. CASE j = idx
      BY <2>2, <3>2, <3>3, <3>4 DEF maker
    <3>5. CASE j # idx
      <4>1. j \in 1..(idx - 1)
        BY <1>3, <3>2, <3>3, <3>5
      <4> QED BY <2>1, <3>3, <4>1
    <3> QED BY <3>4, <3>5
  <2> QED BY <1>4, <1>5, <2>3, <2>4 DEF FillInv, q
<1> QED BY <1>7, <1>8, <1>9, <1>10, <1>12, <1>13 DEF IInv

\* DeleteOrder takes one order out of one queue and leaves the rest in order.
LEMMA DeleteOrderFacts ==
    ASSUME IInv, NEW b \in BOOLEAN, NEW p \in Prices, NEW o \in Orders, DeleteOrder(b, p, o)
    PROVE  /\ queue' \in [BOOLEAN -> [Prices -> Seq(Orders)]]
           /\ volume' \in [BOOLEAN -> [Prices -> Int]]
           /\ o \notin ToSet(queue'[b][p])
           /\ \A c \in BOOLEAN, q \in Prices :
                 /\ ToSet(queue'[c][q]) \subseteq ToSet(queue[c][q])
                 /\ c # b \/ q # p => queue'[c][q] = queue[c][q]
                 /\ BestFirst(FALSE, queue'[c][q])
<1>1. queue[b][p] \in Seq(Orders) /\ BestFirst(FALSE, queue[b][p])
  BY QueueOrders DEF IInv, QueueInv, BestFirst, Better
<1>2. \A j, k \in DOMAIN queue[b][p] : queue[b][p][j] = queue[b][p][k] => j = k
  BY QueueOrders
<1>3. /\ Without(queue[b][p], o) \in Seq(Orders)
      /\ ToSet(Without(queue[b][p], o)) \subseteq ToSet(queue[b][p])
      /\ o \notin ToSet(Without(queue[b][p], o))
      /\ BestFirst(FALSE, Without(queue[b][p], o))
  BY <1>1, <1>2, WithoutProperties
<1>4. queue \in [BOOLEAN -> [Prices -> Seq(Orders)]] /\ volume \in [BOOLEAN -> [Prices -> Int]]
  BY DEF IInv, TypeOK
<1>5. /\ queue'  = [queue EXCEPT ![b][p] = Without(@, o)]
      /\ volume' = [volume EXCEPT ![b][p] = @ - size[o]]
  BY DEF DeleteOrder
<1>6. /\ queue' \in [BOOLEAN -> [Prices -> Seq(Orders)]]
      /\ queue'[b][p] = Without(queue[b][p], o)
      /\ \A c \in BOOLEAN, q \in Prices : c # b \/ q # p => queue'[c][q] = queue[c][q]
  BY <1>3, <1>4, <1>5
<1>7. volume' \in [BOOLEAN -> [Prices -> Int]]
  <2>1. size[o] \in Nat
    BY DEF IInv, TypeOK
  <2>2. volume[b][p] - size[o] \in Int
    BY <1>4, <2>1
  <2> QED BY <1>4, <1>5, <2>2
<1>8. \A c \in BOOLEAN, q \in Prices : BestFirst(FALSE, queue[c][q])
  BY DEF IInv, QueueInv, BestFirst, Better
<1> QED BY <1>3, <1>6, <1>7, <1>8

\* clearLimit takes a limit out of the slice and the map of its side.
LEMMA ClearLimitFacts ==
    ASSUME IInv, NEW b \in BOOLEAN, NEW p \in limits[b], ClearLimit(b, p)
    PROVE  /\ levels' \in [BOOLEAN -> Seq(Prices)]
           /\ limits' \in [BOOLEAN -> SUBSET Prices]
           /\ limits'[b] = limits[b] \ {p}
           /\ \A c \in BOOLEAN : c # b => limits'[c] = limits[c]
           /\ LevelsAgree' /\ NotCrossed'
<1>1. levels \in [BOOLEAN -> Seq(Prices)] /\ limits \in [BOOLEAN -> SUBSET Prices]
  BY DEF IInv, TypeOK
<1>2. /\ limits' = [limits EXCEPT ![b] = @ \ {p}]
      /\ levels' = [levels EXCEPT ![b] = Without(@, p)]
  BY DEF ClearLimit
<1>3. levels[b] \in Seq(Prices) /\ BestFirst(b, levels[b]) /\ ToSet(levels[b]) = limits[b]
  BY <1>1 DEF IInv, LevelsAgree
<1>4. ASSUME NEW j \in DOMAIN levels[b], NEW k \in DOMAIN levels[b], levels[b][j] = levels[b][k]
      PROVE  j = k
  <2>1. j \in 1..Len(levels[b]) /\ k \in 1..Len(levels[b]) /\ Len(levels[b]) \in Nat
    BY <1>3, <1>4, InToSet
  <2>2. j \in Nat /\ k \in Nat
    BY <2>1
  <2>3. levels[b][j] \in Nat
    BY <1>3, <1>4, InToSet
  <2>4. ~ (j < k) /\ ~ (k < j)
    BY <1>3, <1>4, <2>3 DEF BestFirst, Better
  <2> QED BY <2>2, <2>4
<1>5. /\ Without(levels[b], p) \in Seq(Prices)
      /\ ToSet(Without(levels[b], p)) = limits[b] \ {p}
      /\ BestFirst(b, Without(levels[b], p))
  BY <1>3, <1>4, WithoutProperties
<1>6. /\ limits' \in [BOOLEAN -> SUBSET Prices]
      /\ limits'[b] = limits[b] \ {p}
      /\ \A c \in BOOLEAN : c # b => limits'[c] = limits[c]
  BY <1>1, <1>2
<1>7. /\ levels' \in [BOOLEAN -> Seq(Prices)]
      /\ levels'[b] = Without(levels[b], p)
      /\ \A c \in BOOLEAN : c # b => levels'[c] = levels[c]
  BY <1>1, <1>2, <1>5
<1>8. LevelsAgree'
  BY <1>5, <1>6, <1>7 DEF IInv, LevelsAgree
<1>9. NotCrossed'
  BY <1>6 DEF IInv, NotCrossed
<1> QED BY <1>6, <1>7, <1>8, <1>9

LEMMA DeleteFilledInv == IInv /\ DeleteFilled => IInv'
<1> SUFFICES ASSUME IInv, DeleteFilled PROVE IInv'
  OBVIOUS
<1> DEFINE o == Head(toDelete)
<1>1. InFill /\ pc = "delete" /\ toDelete # <<>> /\ toDelete \in Seq(Orders)
  BY DEF InFill, DeleteFilled, IInv, TypeOK
<1>2. /\ o \in Orders /\ toDelete' \in Seq(Orders)
      /\ ToSet(toDelete) \ {o} \subseteq ToSet(toDelete')
  <2>1. toDelete' = Tail(toDelete)
    BY DEF DeleteFilled
  <2>2. /\ o \in Orders /\ toDelete' \in Seq(Orders) /\ Len(toDelete') = Len(toDelete) - 1
        /\ \A j \in 1..Len(toDelete') : toDelete'[j] = toDelete[j + 1]
    BY <1>1, <2>1, HeadTailProperties
  <2>3. ASSUME NEW e \in ToSet(toDelete), e # o PROVE e \in ToSet(toDelete')
    <3>1. PICK j \in 1..Len(toDelete) : toDelete[j] = e
      BY <1>1, <2>3, InToSet
    <3>2. j # 1 /\ Len(toDelete) \in Nat
      BY <1>1, <2>3, <3>1, InToSet
    <3>3. j - 1 \in 1..Len(toDelete') /\ (j - 1) + 1 = j
      BY <2>2, <3>1, <3>2
    <3>4. toDelete'[j - 1] = e /\ j - 1 \in DOMAIN toDelete'
      BY <2>2, <3>1, <3>3, InToSet
    <3> QED BY <2>2, <3>4, InToSet
  <2> QED BY <2>2, <2>3
<1>3. placed \in Orders /\ Opp \in BOOLEAN /\ Target \in Prices /\ pc # "idle"
  BY <1>1, FillPlace
<1>4. /\ UNCHANGED <<placed, bid, price, size, engineLimit, levels, limits, call, pc, at, idx, given>>
      /\ DeleteOrder(Opp, Target, o)
  BY DEF DeleteFilled
<1>5. /\ queue' \in [BOOLEAN -> [Prices -> Seq(Orders)]]
      /\ volume' \in [BOOLEAN -> [Prices -> Int]]
      /\ o \notin ToSet(queue'[Opp][Target])
      /\ \A c \in BOOLEAN, q \in Prices :
            /\ ToSet(queue'[c][q]) \subseteq ToSet(queue[c][q])
            /\ c # Opp \/ q # Target => queue'[c][q] = queue[c][q]
            /\ BestFirst(FALSE, queue'[c][q])
  BY <1>2, <1>3, <1>4, DeleteOrderFacts
<1>6. Taker' = Taker /\ Opp' = Opp /\ Target' = Target /\ InFill'
  BY <1>1, <1>4 DEF Taker, Opp, Target, InFill
<1> HIDE DEF o
<1>7. TypeOK'
  BY <1>2, <1>4, <1>5 DEF IInv, TypeOK
<1>8. LevelsAgree' /\ NotCrossed'
  BY <1>4 DEF IInv, LevelsAgree, NotCrossed
<1>9. CallInv'
  BY <1>1, <1>4, <1>6 DEF IInv, CallInv
<1>10. QueueInv'
  <2>1. ASSUME NEW b \in BOOLEAN, NEW p \in Prices, p \notin limits[b]
        PROVE  queue'[b][p] = <<>>
    <3>1. queue[b][p] = <<>>
      BY <2>1 DEF IInv, QueueInv
    <3>2. ToSet(queue'[b][p]) = {} /\ queue'[b][p] \in Seq(Orders)
      BY <1>5, <3>1, EmptySequence
    <3> QED BY <3>2, InToSet
  <2>2. ASSUME NEW b \in BOOLEAN, NEW p \in Prices, NEW e \in ToSet(queue'[b][p])
        PROVE  e <= placed /\ e # Taker /\ bid[e] = b /\ price[e] = p
    <3>1. e \in ToSet(queue[b][p])
      BY <1>5
    <3> QED BY <1>3, <3>1, QueueOrders
  <2>3. ASSUME NEW b \in BOOLEAN, NEW p \in Prices, NEW j \in DOMAIN queue'[b][p],
               NEW k \in DOMAIN queue'[b][p], j < k
        PROVE  queue'[b][p][j] < queue'[b][p][k]
    BY <1>5, <2>3 DEF BestFirst, Better
  <2> QED BY <1>4, <1>6, <2>1, <2>2, <2>3 DEF QueueInv
<1>11. SpentInv'
  <2>1. ASSUME NEW b \in BOOLEAN, NEW p \in Prices, p \in limits[b], queue'[b][p] = <<>>
        PROVE  b = Opp /\ p = Target
    BY <1>5, <2>1 DEF IInv, SpentInv
  <2>2. ASSUME NEW b \in BOOLEAN, NEW p \in Prices, NEW e \in ToSet(queue'[b][p]), size[e] = 0
        PROVE  b = Opp /\ p = Target /\ e \in ToSet(toDelete')
    <3>1. b = Opp /\ p = Target /\ e \in ToSet(toDelete)
      BY <1>5, <2>2 DEF IInv, SpentInv
    <3>2. e # o
      BY <1>5, <2>2, <3>1
    <3> QED BY <1>2, <3>1, <3>2
  <2> QED BY <1>1, <1>4, <1>6, <2>1, <2>2 DEF SpentInv
<1>12. FillInv'
  BY <1>1, <1>3, <1>4, <1>5, <1>6 DEF IInv, FillInv
<1> QED BY <1>7, <1>8, <1>9, <1>10, <1>11, <1>12 DEF IInv

LEMMA EndFillInv == IInv /\ EndFill => IInv'
<1> SUFFICES ASSUME IInv, EndFill PROVE IInv'
  OBVIOUS
<1>1. InFill /\ pc = "delete" /\ toDelete = <<>> /\ pc' = "loop"
  BY DEF InFill, EndFill
<1>2. /\ placed \in Orders /\ Opp \in BOOLEAN /\ Target \in Prices /\ at = 1
      /\ Target \in limits[Opp] /\ queue[Opp][Target] \in Seq(Orders) /\ pc # "idle"
  BY <1>1, FillPlace
<1>3. /\ UNCHANGED <<placed, bid, price, size, engineLimit, queue, volume, call, idx, toDelete,
                     given>>
      /\ \/ queue[Opp][Target] = <<>> /\ ClearLimit(Opp, Target) /\ at' = at
         \/ /\ queue[Opp][Target] # <<>> /\ at' = IF call = "market" THEN at + 1 ELSE at
            /\ UNCHANGED <<levels, limits>>
  BY DEF EndFill
<1>4. /\ levels' \in [BOOLEAN -> Seq(Prices)] /\ limits' \in [BOOLEAN -> SUBSET Prices]
      /\ LevelsAgree' /\ NotCrossed'
      /\ limits'[Opp] \subseteq limits[Opp]
      /\ \A c \in BOOLEAN : c # Opp => limits'[c] = limits[c]
      /\ queue[Opp][Target] = <<>> => Target \notin limits'[Opp]
      /\ \A p \in limits[Opp] \ {Target} : p \in limits'[Opp]
      /\ queue[Opp][Target] # <<>> => limits' = limits
  <2>1. CASE queue[Opp][Target] = <<>> /\ ClearLimit(Opp, Target)
    BY <1>2, <2>1, ClearLimitFacts
  <2>2. CASE queue[Opp][Target] # <<>> /\ UNCHANGED <<levels, limits>>
    BY <2>2 DEF IInv, TypeOK, LevelsAgree, NotCrossed
  <2> QED BY <1>3, <2>1, <2>2
<1>5. Taker' = Taker
  BY <1>3 DEF Taker
\* No used-up order is left in any queue.
<1>6. ASSUME NEW b \in BOOLEAN, NEW p \in Prices, NEW o \in ToSet(queue[b][p])
      PROVE  size[o] # 0
  BY <1>1, EmptySequence DEF IInv, SpentInv
<1>7. TypeOK'
  <2>1. at' \in Nat \ {0}
    BY <1>2, <1>3
  <2> QED BY <1>1, <1>3, <1>4, <2>1 DEF IInv, TypeOK
<1>8. CallInv'
  <2>1. ASSUME at' # 1 PROVE size[Taker] = 0 /\ call # "limit"
    <3>1. queue[Opp][Target] # <<>> /\ call = "market"
      BY <1>2, <1>3, <2>1
    <3>2. PICK o : o \in ToSet(queue[Opp][Target])
      BY <1>2, <3>1, InToSet
    <3>3. ~ (size[Taker] > 0)
      BY <1>1, <1>2, <1>6, <3>2 DEF IInv, FillInv
    <3>4. size[Taker] \in Nat
      BY <1>2 DEF IInv, TypeOK, Taker
    <3> QED BY <3>1, <3>3, <3>4
  <2>2. call = "limit" => price[Taker] \in Prices
    BY <1>2 DEF IInv, CallInv
  <2> QED BY <1>1, <1>2, <1>3, <1>5, <2>1, <2>2 DEF CallInv, InFill
<1>9. QueueInv'
  <2>1. ASSUME NEW b \in BOOLEAN, NEW p \in Prices, p \notin limits'[b]
        PROVE  queue[b][p] = <<>>
    <3>1. p \notin limits[b] \/ (b = Opp /\ p = Target /\ limits' # limits)
      BY <1>4, <2>1
    <3> QED BY <1>4, <3>1 DEF IInv, QueueInv
  <2> QED BY <1>1, <1>2, <1>3, <1>5, <2>1 DEF IInv, QueueInv
<1>10. SpentInv'
  <2>1. ASSUME NEW b \in BOOLEAN, NEW p \in Prices, p \in limits'[b]
        PROVE  queue[b][p] # <<>>
    <3>1. p \in limits[b]
      BY <1>4, <2>1
    <3> QED BY <1>4, <2>1, <3>1 DEF IInv, SpentInv
  <2> QED BY <1>3, <1>6, <2>1 DEF SpentInv
<1>11. FillInv'
  BY <1>1 DEF FillInv
<1> QED BY <1>4, <1>7, <1>8, <1>9, <1>10, <1>11 DEF IInv

LEMMA ReturnInv == IInv /\ Return => IInv'
<1> SUFFICES ASSUME IInv, Return PROVE IInv'
  OBVIOUS
<1>1. pc = "loop" /\ pc' = "idle"
  BY DEF Return
<1>2. UNCHANGED <<placed, bid, price, size, engineLimit, levels, limits, queue, volume, call, at,
                  idx, toDelete, given>>
  BY DEF Return, book, loopv
<1>3. TypeOK'
  BY <1>1, <1>2 DEF IInv, TypeOK
<1>4. LevelsAgree' /\ NotCrossed'
  BY <1>2 DEF IInv, LevelsAgree, NotCrossed
<1>5. CallInv' /\ FillInv'
  BY <1>1 DEF CallInv, FillInv
<1>6. QueueInv'
  BY <1>1, <1>2 DEF IInv, QueueInv
<1>7. SpentInv'
  BY <1>1, <1>2 DEF IInv, SpentInv, InFill
<1> QED BY <1>3, <1>4, <1>5, <1>6, <1>7 DEF IInv

\* The loops end only when nothing on the other side is in the taker's reach.
LEMMA NothingCrosses ==
    ASSUME IInv, pc = "loop", ~CanMatch, call = "limit", size[Taker] > 0
    PROVE  \A q \in limits[Opp] : ~ Crosses(bid[Taker], price[Taker], q)
<1>1. /\ Taker \in Orders /\ at = 1 /\ bid[Taker] \in BOOLEAN /\ Opp \in BOOLEAN
      /\ Opp = ~bid[Taker] /\ price[Taker] \in Prices
  BY DEF IInv, CallInv, TypeOK, Opp, Taker
<1>2. /\ levels[Opp] \in Seq(Prices) /\ ToSet(levels[Opp]) = limits[Opp]
      /\ BestFirst(Opp, levels[Opp])
  BY <1>1 DEF IInv, TypeOK, LevelsAgree
<1>3. SUFFICES ASSUME NEW q \in limits[Opp] PROVE ~ Crosses(bid[Taker], price[Taker], q)
  OBVIOUS
<1>4. PICK j \in 1..Len(levels[Opp]) : levels[Opp][j] = q
  BY <1>2, <1>3, InToSet
<1>5. 1 \in DOMAIN levels[Opp] /\ j \in DOMAIN levels[Opp] /\ Len(levels[Opp]) \in Nat
  BY <1>2, <1>4, InToSet
<1>6. Target \in Prices /\ q \in Prices /\ Target = levels[Opp][1]
  BY <1>1, <1>2, <1>4, <1>5, InToSet DEF Target
<1>7. ~ Crosses(bid[Taker], price[Taker], Target)
  BY <1>1, <1>4, <1>5 DEF CanMatch
<1>8. j = 1 \/ Better(Opp, Target, q)
  BY <1>2, <1>4, <1>5, <1>6 DEF BestFirst
<1>9. price[Taker] \in Nat /\ Target \in Nat /\ q \in Nat
  BY <1>1, <1>6
<1>10. CASE bid[Taker] = TRUE
  <2>1. Opp = FALSE
    BY <1>1, <1>10
  <2>2. ~ (Target <= price[Taker])
    BY <1>7, <1>10 DEF Crosses
  <2>3. j = 1 \/ Target < q
    BY <1>8, <2>1 DEF Better
  <2>4. ~ (q <= price[Taker])
    BY <1>4, <1>6, <1>9, <2>2, <2>3
  <2> QED BY <1>10, <2>4 DEF Crosses
<1>11. CASE bid[Taker] = FALSE
  <2>1. Opp = TRUE
    BY <1>1, <1>11
  <2>2. ~ (Target >= price[Taker])
    BY <1>7, <1>11 DEF Crosses
  <2>3. j = 1 \/ Target > q
    BY <1>8, <2>1 DEF Better
  <2>4. ~ (q >= price[Taker])
    BY <1>4, <1>6, <1>9, <2>2, <2>3
  <2> QED BY <1>11, <2>4 DEF Crosses
<1> QED BY <1>1, <1>10, <1>11

LEMMA AddRestingLimitOrderInv == IInv /\ AddRestingLimitOrder => IInv'
<1> SUFFICES ASSUME IInv, AddRestingLimitOrder PROVE IInv'
  OBVIOUS
<1> DEFINE b == bid[Taker]
           p == price[Taker]
           q == IF p \notin limits[b] THEN <<Taker>> ELSE Append(queue[b][p], Taker)
<1>1. pc = "loop" /\ pc' = "idle" /\ ~CanMatch /\ call = "limit" /\ size[Taker] > 0
  BY DEF AddRestingLimitOrder, MustRest
<1>2. /\ placed \in Orders /\ Taker = placed /\ b \in BOOLEAN /\ p \in Prices
      /\ Opp = ~b /\ Opp \in BOOLEAN /\ size[Taker] \in Nat
  BY <1>1 DEF IInv, CallInv, TypeOK, Opp, Taker
<1>3. UNCHANGED <<placed, bid, price, size, call, at, idx, toDelete, given>>
  BY DEF AddRestingLimitOrder, loopv
<1>4. /\ limits' = [limits EXCEPT ![b] = @ \cup {p}]
      /\ queue' = [queue EXCEPT ![b][p] = q]
      /\ volume' = [volume EXCEPT ![b][p] = IF p \notin limits[b] THEN size[Taker]
                                            ELSE @ + size[Taker]]
      /\ engineLimit' = [engineLimit EXCEPT ![Taker] = p]
      /\ p \notin limits[b] => AddLevel(b, p)
      /\ p \in limits[b] => levels' = levels
  BY DEF AddRestingLimitOrder
<1> HIDE DEF b, p, q
<1>5. /\ queue \in [BOOLEAN -> [Prices -> Seq(Orders)]]
      /\ volume \in [BOOLEAN -> [Prices -> Int]]
      /\ limits \in [BOOLEAN -> SUBSET Prices]
      /\ levels \in [BOOLEAN -> Seq(Prices)]
      /\ engineLimit \in [Orders -> Nat]
  BY DEF IInv, TypeOK
\* The taker is the last of the queue and the youngest.
<1>6. /\ q \in Seq(Orders) /\ q # <<>>
      /\ ToSet(q) \subseteq ToSet(queue[b][p]) \cup {Taker}
      /\ \A j, k \in DOMAIN q : j < k => q[j] < q[k]
  <2>1. CASE p \notin limits[b]
    <3>1. q = <<Taker>>
      BY <2>1 DEF q
    <3> QED BY <1>2, <3>1 DEF ToSet
  <2>2. CASE p \in limits[b]
    <3> DEFINE s == queue[b][p]
    <3>1. q = Append(s, Taker) /\ s \in Seq(Orders) /\ Len(s) \in Nat /\ DOMAIN s = 1..Len(s)
      BY <1>2, <1>5, <2>2, InToSet DEF q
    <3> HIDE DEF s
    <3>2. /\ q \in Seq(Orders) /\ q # <<>> /\ Len(q) = Len(s) + 1
          /\ \A j \in 1..Len(s) : q[j] = s[j]
          /\ q[Len(s) + 1] = Taker
      BY <1>2, <3>1, AppendProperties
    <3>3. DOMAIN q = 1..(Len(s) + 1)
      BY <3>2, InToSet
    <3>4. ASSUME NEW j \in DOMAIN q, j # Len(s) + 1
          PROVE  j \in DOMAIN s /\ q[j] = s[j] /\ s[j] \in ToSet(s)
      BY <3>1, <3>2, <3>3, <3>4, InToSet
    <3>5. ToSet(q) \subseteq ToSet(s) \cup {Taker}
      BY <3>2, <3>4 DEF ToSet
    <3>6. ASSUME NEW j \in DOMAIN q, NEW k \in DOMAIN q, j < k PROVE q[j] < q[k]
      <4>1. j \in DOMAIN s /\ q[j] = s[j] /\ s[j] \in ToSet(s)
        <5>1. j # Len(s) + 1
          BY <3>1, <3>3, <3>6
        <5> QED BY <3>4, <5>1
      <4>2. CASE k = Len(s) + 1
        <5>1. s[j] \in Nat /\ s[j] <= placed /\ s[j] # Taker
          BY <1>1, <1>2, <4>1, QueueOrders DEF s
        <5>2. placed \in Nat
          BY <1>2, OrdersAreNat
        <5> QED BY <1>2, <3>2, <4>1, <4>2, <5>1, <5>2
      <4>3. CASE k # Len(s) + 1
        <5>1. k \in DOMAIN s /\ q[k] = s[k]
          BY <3>4, <4>3
        <5> QED BY <1>2, <3>6, <4>1, <5>1 DEF s, IInv, QueueInv
      <4> QED BY <4>2, <4>3
    <3> QED BY <3>2, <3>5, <3>6 DEF s
  <2> QED BY <2>1, <2>2
<1>7. /\ queue' \in [BOOLEAN -> [Prices -> Seq(Orders)]]
      /\ queue'[b][p] = q
      /\ \A c \in BOOLEAN, r \in Prices : c # b \/ r # p => queue'[c][r] = queue[c][r]
  BY <1>2, <1>4, <1>5, <1>6
<1>8. /\ limits' \in [BOOLEAN -> SUBSET Prices]
      /\ limits'[b] = limits[b] \cup {p}
      /\ \A c \in BOOLEAN : c # b => limits'[c] = limits[c]
  BY <1>2, <1>4, <1>5
<1>9. levels' \in [BOOLEAN -> Seq(Prices)] /\ LevelsAgree'
  <2>1. CASE p \in limits[b]
    BY <1>4, <1>5, <1>8, <2>1 DEF IInv, LevelsAgree
  <2>2. CASE p \notin limits[b]
    <3>1. PICK s \in [1..(Len(levels[b]) + 1) -> ToSet(levels[b]) \cup {p}] :
             /\ BestFirst(b, s) /\ ToSet(s) = ToSet(levels[b]) \cup {p}
             /\ levels' = [levels EXCEPT ![b] = s]
      BY <1>4, <2>2 DEF AddLevel
    <3>2. ToSet(levels[b]) = limits[b] /\ levels[b] \in Seq(Prices)
      BY <1>2, <1>5 DEF IInv, LevelsAgree
    <3>3. s \in Seq(Prices)
      <4>1. ToSet(levels[b]) \cup {p} \subseteq Prices /\ Len(levels[b]) + 1 \in Nat
        BY <1>2, <1>5, <3>2, InToSet
      <4>2. s \in [1..(Len(levels[b]) + 1) -> Prices]
        BY <3>1, <4>1
      <4> QED BY <4>1, <4>2, IsASeq
    <3>4. /\ levels' \in [BOOLEAN -> Seq(Prices)] /\ levels'[b] = s
          /\ \A c \in BOOLEAN : c # b => levels'[c] = levels[c]
      BY <1>2, <1>5, <3>1, <3>3
    <3> QED BY <1>8, <3>1, <3>2, <3>4 DEF IInv, LevelsAgree
  <2> QED BY <2>1, <2>2
<1>10. TypeOK'
  <2>1. volume' \in [BOOLEAN -> [Prices -> Int]]
    BY <1>2, <1>4, <1>5
  <2>2. engineLimit' \in [Orders -> Nat]
    BY <1>2, <1>4, <1>5
  <2> QED BY <1>1, <1>3, <1>7, <1>8, <1>9, <2>1, <2>2 DEF IInv, TypeOK
<1>11. NotCrossed'
  <2>1. \A r \in limits[Opp] : ~ Crosses(b, p, r)
    BY <1>1, NothingCrosses DEF b, p
  <2>2. \A c \in BOOLEAN : limits[c] \subseteq Nat
    BY <1>5
  <2>3. CASE b = TRUE
    <3>1. limits'[TRUE] = limits[TRUE] \cup {p} /\ limits'[FALSE] = limits[FALSE]
      BY <1>8, <2>3
    <3>2. \A r \in limits[FALSE] : p < r
      <4> SUFFICES ASSUME NEW r \in limits[FALSE] PROVE p < r
        OBVIOUS
      <4>1. Opp = FALSE /\ r \in limits[Opp]
        BY <1>2, <2>3
      <4>2. ~ (r <= p)
        BY <2>1, <2>3, <4>1 DEF Crosses
      <4>3. r \in Nat /\ p \in Nat
        BY <1>2, <2>2
      <4> QED BY <4>2, <4>3
    <3> QED BY <3>1, <3>2 DEF IInv, NotCrossed
  <2>4. CASE b = FALSE
    <3>1. limits'[FALSE] = limits[FALSE] \cup {p} /\ limits'[TRUE] = limits[TRUE]
      BY <1>8, <2>4
    <3>2. \A r \in limits[TRUE] : r < p
      <4> SUFFICES ASSUME NEW r \in limits[TRUE] PROVE r < p
        OBVIOUS
      <4>1. Opp = TRUE /\ r \in limits[Opp]
        BY <1>2, <2>4
      <4>2. ~ (r >= p)
        BY <2>1, <2>4, <4>1 DEF Crosses
      <4>3. r \in Nat /\ p \in Nat
        BY <1>2, <2>2
      <4> QED BY <4>2, <4>3
    <3> QED BY <3>1, <3>2 DEF IInv, NotCrossed
  <2> QED BY <1>2, <2>3, <2>4
<1>12. CallInv' /\ FillInv'
  BY <1>1 DEF CallInv, FillInv
\* Every queue element is an old one or the taker.
<1>13. ASSUME NEW c \in BOOLEAN, NEW r \in Prices, NEW o \in ToSet(queue'[c][r])
       PROVE  o <= placed /\ bid[o] = c /\ price[o] = r /\ size[o] # 0
  <2>1. CASE o \in ToSet(queue[c][r])
    <3>1. o <= placed /\ bid[o] = c /\ price[o] = r
      BY <2>1, QueueOrders
    <3>2. size[o] # 0
      BY <1>1, <2>1 DEF IInv, SpentInv, InFill
    <3> QED BY <3>1, <3>2
  <2>2. CASE o \notin ToSet(queue[c][r])
    <3>1. c = b /\ r = p
      BY <1>7, <2>2
    <3>2. o = Taker
      BY <1>6, <1>7, <2>2, <3>1
    <3>3. placed \in Nat
      BY <1>2, OrdersAreNat
    <3> QED BY <1>1, <1>2, <3>1, <3>2, <3>3 DEF b, p
  <2> QED BY <2>1, <2>2
<1>14. QueueInv'
  <2>1. ASSUME NEW c \in BOOLEAN, NEW r \in Prices, r \notin limits'[c] PROVE queue'[c][r] = <<>>
    <3>1. (c # b \/ r # p) /\ r \notin limits[c]
      BY <1>2, <1>8, <2>1
    <3> QED BY <1>7, <3>1 DEF IInv, QueueInv
  <2>2. ASSUME NEW c \in BOOLEAN, NEW r \in Prices, NEW j \in DOMAIN queue'[c][r],
               NEW k \in DOMAIN queue'[c][r], j < k
        PROVE  queue'[c][r][j] < queue'[c][r][k]
    <3>1. CASE c = b /\ r = p
      BY <1>6, <1>7, <2>2, <3>1
    <3>2. CASE c # b \/ r # p
      BY <1>7, <2>2, <3>2 DEF IInv, QueueInv
    <3> QED BY <3>1, <3>2
  <2> QED BY <1>1, <1>3, <1>13, <2>1, <2>2 DEF QueueInv
<1>15. SpentInv'
  <2>1. ASSUME NEW c \in BOOLEAN, NEW r \in Prices, r \in limits'[c] PROVE queue'[c][r] # <<>>
    <3>1. CASE c = b /\ r = p
      BY <1>6, <1>7, <3>1
    <3>2. CASE c # b \/ r # p
      BY <1>1, <1>7, <1>8, <2>1, <3>2 DEF IInv, SpentInv
    <3> QED BY <3>1, <3>2
  <2> QED BY <1>3, <1>13, <2>1 DEF SpentInv
<1> QED BY <1>9, <1>10, <1>11, <1>12, <1>14, <1>15 DEF IInv

\* Both ways to cancel an order between two calls.
LEMMA CancelInv ==
    ASSUME IInv, pc = "idle", NEW b \in BOOLEAN, NEW p \in limits[b], NEW o \in Orders,
           DeleteOrder(b, p, o), ClearIfEmpty(b, p), engineLimit' \in [Orders -> Nat],
           UNCHANGED <<placed, bid, price, size, call, pc, at, idx, toDelete, given>>
    PROVE  IInv'
<1>1. p \in Prices /\ limits \in [BOOLEAN -> SUBSET Prices]
  BY DEF IInv, TypeOK
<1>2. /\ queue' \in [BOOLEAN -> [Prices -> Seq(Orders)]]
      /\ volume' \in [BOOLEAN -> [Prices -> Int]]
      /\ \A c \in BOOLEAN, q \in Prices :
            /\ ToSet(queue'[c][q]) \subseteq ToSet(queue[c][q])
            /\ c # b \/ q # p => queue'[c][q] = queue[c][q]
            /\ BestFirst(FALSE, queue'[c][q])
  BY <1>1, DeleteOrderFacts
<1>3. /\ levels' \in [BOOLEAN -> Seq(Prices)] /\ limits' \in [BOOLEAN -> SUBSET Prices]
      /\ LevelsAgree' /\ NotCrossed'
      /\ \A c \in BOOLEAN : limits'[c] \subseteq limits[c]
      /\ \A c \in BOOLEAN, q \in Prices :
            q \in limits[c] \ limits'[c] => c = b /\ q = p /\ queue'[b][p] = <<>>
      /\ queue'[b][p] = <<>> => p \notin limits'[b]
  <2>1. CASE queue'[b][p] = <<>> /\ ClearLimit(b, p)
    BY <1>1, <2>1, ClearLimitFacts
  <2>2. CASE queue'[b][p] # <<>> /\ UNCHANGED <<levels, limits>>
    BY <2>2 DEF IInv, TypeOK, LevelsAgree, NotCrossed
  <2> QED BY <2>1, <2>2 DEF ClearIfEmpty
<1>4. TypeOK'
  BY <1>2, <1>3 DEF IInv, TypeOK
<1>5. CallInv' /\ FillInv'
  BY DEF CallInv, FillInv
<1>6. ASSUME NEW c \in BOOLEAN, NEW q \in Prices, NEW e \in ToSet(queue'[c][q])
      PROVE  e <= placed /\ bid[e] = c /\ price[e] = q /\ size[e] # 0
  <2>1. e \in ToSet(queue[c][q])
    BY <1>2
  <2>2. e <= placed /\ bid[e] = c /\ price[e] = q
    BY <2>1, QueueOrders
  <2>3. size[e] # 0
    BY <2>1 DEF IInv, SpentInv, InFill
  <2> QED BY <2>2, <2>3
<1>7. ASSUME NEW c \in BOOLEAN, NEW q \in Prices, q \notin limits'[c] PROVE queue'[c][q] = <<>>
  <2>1. CASE q \in limits[c]
    BY <1>3, <1>7, <2>1
  <2>2. CASE q \notin limits[c]
    <3>1. queue[c][q] = <<>> /\ (c # b \/ q # p)
      BY <2>2 DEF IInv, QueueInv
    <3> QED BY <1>2, <3>1
  <2> QED BY <2>1, <2>2
<1>8. QueueInv'
  <2>1. ASSUME NEW c \in BOOLEAN, NEW q \in Prices, NEW j \in DOMAIN queue'[c][q],
               NEW k \in DOMAIN queue'[c][q], j < k
        PROVE  queue'[c][q][j] < queue'[c][q][k]
    BY <1>2, <2>1 DEF BestFirst, Better
  <2> QED BY <1>6, <1>7, <2>1 DEF QueueInv
<1>9. SpentInv'
  <2>1. ASSUME NEW c \in BOOLEAN, NEW q \in Prices, q \in limits'[c] PROVE queue'[c][q] # <<>>
    <3>1. CASE c = b /\ q = p
      BY <1>3, <2>1, <3>1
    <3>2. CASE c # b \/ q # p
      <4>1. q \in limits[c]
        BY <1>3, <2>1
      <4>2. queue[c][q] # <<>>
        BY <4>1 DEF IInv, SpentInv
      <4> QED BY <1>2, <3>2, <4>2
    <3> QED BY <3>1, <3>2
  <2> QED BY <1>6, <2>1 DEF SpentInv
<1> QED BY <1>3, <1>4, <1>5, <1>8, <1>9 DEF IInv

\* Every step of the specification keeps the invariant.
LEMMA NextInv == IInv /\ [Next]_vars => IInv'
<1> SUFFICES ASSUME IInv, [Next]_vars PROVE IInv'
  OBVIOUS
<1>1. ASSUME NEW b \in BOOLEAN, NEW p \in Prices, NEW n \in Sizes, PlaceLimitOrder(b, p, n)
      PROVE  IInv'
  BY <1>1, ReceiveInv DEF PlaceLimitOrder, StartLoop
<1>2. ASSUME NEW b \in BOOLEAN, NEW n \in Sizes, PlaceMarketOrder(b, n)
      PROVE  IInv'
  BY <1>2, ReceiveInv DEF PlaceMarketOrder, StartLoop
<1>3. ASSUME NEW b \in BOOLEAN, NEW n \in Sizes, PanicMarketOrder(b, n)
      PROVE  IInv'
  <2>1. Receive(b, 0, n) /\ UNCHANGED <<pc, at, call>> /\ pc' # "loop"
    BY <1>3 DEF PanicMarketOrder, Receive
  <2> QED BY <2>1, ReceiveInv
<1>4. CASE StartFill
  BY <1>4, StartFillInv
<1>5. CASE FillOrder
  BY <1>5, FillOrderInv
<1>6. CASE DeleteFilled
  BY <1>6, DeleteFilledInv
<1>7. CASE EndFill
  BY <1>7, EndFillInv
<1>8. CASE AddRestingLimitOrder
  BY <1>8, AddRestingLimitOrderInv
<1>9. CASE Return
  BY <1>9, ReturnInv
<1>10. ASSUME NEW o \in Orders, CancelOrder(o) PROVE IInv'
  <2>1. bid[o] \in BOOLEAN
    BY DEF IInv, TypeOK
  <2>2. engineLimit' \in [Orders -> Nat]
    BY <1>10 DEF CancelOrder, NoLimit, IInv, TypeOK
  <2> QED BY <1>10, <2>1, <2>2, CancelInv DEF CancelOrder, loopv
<1>11. ASSUME NEW o \in Orders, CancelOrderByID(o) PROVE IInv'
  <2>1. PICK b \in BOOLEAN, p \in Prices :
           /\ pc = "idle" /\ p \in ToSet(levels[b])
           /\ DeleteOrder(b, p, o) /\ ClearIfEmpty(b, p)
           /\ UNCHANGED <<placed, bid, price, size, engineLimit, call, pc, loopv, given>>
    BY <1>11 DEF CancelOrderByID
  <2>2. p \in limits[b] /\ engineLimit' \in [Orders -> Nat]
    BY <2>1 DEF IInv, LevelsAgree, TypeOK
  <2> QED BY <2>1, <2>2, CancelInv DEF loopv
<1>12. CASE UNCHANGED vars
  <2>1. UNCHANGED <<placed, bid, price, size, engineLimit, levels, limits, queue, volume, call,
                    pc, at, idx, toDelete, given>>
    BY <1>12 DEF vars, book, loopv
  <2>2. Taker' = Taker /\ Opp' = Opp /\ Target' = Target /\ (InFill' <=> InFill)
    BY <2>1 DEF Taker, Opp, Target, InFill
  <2>3. TypeOK' /\ LevelsAgree' /\ NotCrossed'
    BY <2>1 DEF IInv, TypeOK, LevelsAgree, NotCrossed
  <2>4. CallInv' /\ QueueInv'
    BY <2>1, <2>2 DEF IInv, CallInv, QueueInv
  <2>5. SpentInv' /\ FillInv'
    BY <2>1, <2>2 DEF IInv, SpentInv, FillInv
  <2> QED BY <2>3, <2>4, <2>5 DEF IInv
<1> QED
  BY <1>1, <1>2, <1>3, <1>4, <1>5, <1>6, <1>7, <1>8, <1>9, <1>10, <1>11, <1>12 DEF Next

-----------------------------------------------------------------------------
(* Volumes.                                                                 *)

\* What is in a queue can be summed.
LEMMA QueueFinite ==
    ASSUME IInv, NEW b \in BOOLEAN, NEW p \in Prices
    PROVE  /\ IsFiniteSet(ToSet(queue[b][p])) /\ ToSet(queue[b][p]) \subseteq Orders
           /\ \A o \in ToSet(queue[b][p]) : size[o] \in Nat /\ size[o] \in Int
<1>1. IsFiniteSet(Orders)
  BY FS_Interval DEF Orders
<1>2. \A o \in ToSet(queue[b][p]) : o \in Orders /\ size[o] \in Nat
  BY QueueOrders
<1> QED BY <1>1, <1>2, FS_Subset

LEMMA LevelsFinite ==
    ASSUME IInv, VolumeInv, NEW b \in BOOLEAN
    PROVE  /\ IsFiniteSet(ToSet(levels[b])) /\ ToSet(levels[b]) \subseteq Prices
           /\ \A p \in Prices : volume[b][p] \in Nat /\ volume[b][p] \in Int
<1>1. levels[b] \in Seq(Prices)
  BY DEF IInv, TypeOK
<1>2. IsFiniteSet(ToSet(levels[b]))
  BY <1>1, FiniteToSet
<1>3. ToSet(levels[b]) \subseteq Prices
  BY <1>1, InToSet
<1>4. ASSUME NEW p \in Prices PROVE volume[b][p] \in Nat
  <2>1. volume[b][p] = SumFunctionOnSet(size, ToSet(queue[b][p]))
    BY DEF VolumeInv
  <2> QED BY <2>1, QueueFinite, SumNat
<1> QED BY <1>2, <1>3, <1>4

LEMMA InitSum == Init => SumInv
<1> SUFFICES ASSUME Init PROVE SumInv
  OBVIOUS
<1>1. ToDeleteInv /\ BackReferenceInv /\ MarketInv
  BY DEF Init, ToDeleteInv, BackReferenceInv, MarketInv, InFill
<1>2. VolumeInv
  BY EmptySequence, SumEmpty DEF Init, VolumeInv
<1> QED BY <1>1, <1>2 DEF SumInv

\* A new order changes the size of none that rests.
LEMMA ReceiveSum ==
    ASSUME IInv, SumInv, NEW b \in BOOLEAN, NEW p \in Nat, NEW n \in Sizes, Receive(b, p, n),
           \/ pc' = "loop" /\ call' = "limit"
           \/ pc' = "loop" /\ call' = "market" /\ n <= TotalVolume(~b)
           \/ UNCHANGED <<pc, call>>
    PROVE  SumInv'
<1>0. /\ placed' \in Orders /\ placed' = placed + 1 /\ placed \in Nat
      /\ pc = "idle" /\ pc' \in {"idle", "loop"} /\ Taker' = placed'
      /\ UNCHANGED <<engineLimit, levels, limits, queue, volume, toDelete>>
  BY DEF IInv, TypeOK, Orders, Receive, book, Taker
<1>1. /\ bid' = [bid EXCEPT ![placed'] = b] /\ price' = [price EXCEPT ![placed'] = p]
      /\ size' = [size EXCEPT ![placed'] = n] /\ given' = [given EXCEPT ![placed'] = n]
      /\ bid \in [Orders -> BOOLEAN] /\ price \in [Orders -> Nat]
      /\ size \in [Orders -> Nat] /\ given \in [Orders -> Nat]
  BY DEF Receive, IInv, TypeOK
<1>2. \A o \in Orders : o # placed' => /\ size'[o] = size[o] /\ given'[o] = given[o]
                                       /\ price'[o] = price[o] /\ bid'[o] = bid[o]
  BY <1>0, <1>1
<1>3. /\ size'[placed'] = n /\ given'[placed'] = n /\ bid'[placed'] = b
  BY <1>0, <1>1
<1>4. ToDeleteInv'
  BY <1>0 DEF ToDeleteInv, InFill
<1>5. BackReferenceInv'
  <2> SUFFICES ASSUME NEW o \in Orders, engineLimit[o] # NoLimit
               PROVE  /\ o <= placed' /\ (pc' # "idle" => o # Taker')
                      /\ engineLimit[o] = price'[o] /\ price'[o] \in Prices
                      /\ o \notin ById /\ size'[o] > 0 => o \in ToSet(queue[bid'[o]][price'[o]])
    BY <1>0 DEF BackReferenceInv
  <2>1. /\ o <= placed /\ engineLimit[o] = price[o] /\ price[o] \in Prices
        /\ o \notin ById /\ size[o] > 0 => o \in ToSet(queue[bid[o]][price[o]])
    BY DEF SumInv, BackReferenceInv
  <2>2. o \in Nat /\ o <= placed' /\ o # placed'
    BY <1>0, <2>1, OrdersAreNat
  <2> QED BY <1>0, <1>2, <2>1, <2>2
<1>6. VolumeInv'
  <2> SUFFICES ASSUME NEW c \in BOOLEAN, NEW q \in Prices
               PROVE  volume[c][q] = SumFunctionOnSet(size', ToSet(queue[c][q]))
    BY <1>0 DEF VolumeInv
  <2>1. \A o \in ToSet(queue[c][q]) : size[o] = size'[o]
    <3> SUFFICES ASSUME NEW o \in ToSet(queue[c][q]) PROVE size[o] = size'[o]
      OBVIOUS
    <3>1. o \in Orders /\ o \in Nat /\ o <= placed
      BY QueueOrders
    <3> QED BY <1>0, <1>2, <3>1
  <2>2. SumFunctionOnSet(size, ToSet(queue[c][q])) = SumFunctionOnSet(size', ToSet(queue[c][q]))
    BY <2>1, QueueFinite, SumSame
  <2> QED BY <2>2 DEF SumInv, VolumeInv
<1>7. MarketInv'
  <2>1. ASSUME pc' # "idle", call' = "market" PROVE size'[Taker'] <= TotalVolume(Opp)'
    <3>1. n <= TotalVolume(~b)
      BY <1>0, <2>1
    <3>2. Opp' = ~b
      BY <1>0, <1>3 DEF Opp
    <3>3. TotalVolume(Opp)' = TotalVolume(~b)
      BY <1>0, <3>2 DEF TotalVolume
    <3> QED BY <1>0, <1>3, <3>1, <3>3
  <2>2. ASSUME NEW o \in 1..placed', price'[o] = 0, pc' = "idle" \/ o # Taker'
        PROVE  size'[o] \in {0, given'[o]}
    <3>1. CASE o = placed'
      BY <1>3, <3>1
    <3>2. CASE o # placed'
      <4>1. o \in 1..placed /\ o \in Orders
        BY <1>0, <3>2 DEF Orders
      <4>2. price[o] = 0 /\ size'[o] = size[o] /\ given'[o] = given[o]
        BY <1>2, <2>2, <3>2, <4>1
      <4> QED BY <1>0, <4>1, <4>2 DEF SumInv, MarketInv
    <3> QED BY <3>1, <3>2
  <2> QED BY <2>1, <2>2 DEF MarketInv
<1> QED BY <1>4, <1>5, <1>6, <1>7 DEF SumInv

\* A fill takes the same from the maker, the taker, the limit and the side.
LEMMA FillOrderSum == IInv /\ SumInv /\ FillOrder => SumInv'
<1> SUFFICES ASSUME IInv, SumInv, FillOrder PROVE SumInv'
  OBVIOUS
<1> DEFINE q == queue[Opp][Target]
           maker == q[idx]
           filled == Minimum(size[maker], size[Taker])
<1>1. InFill /\ pc = "fill" /\ pc # "idle"
  BY DEF InFill, FillOrder
<1>2. /\ idx \in DOMAIN q /\ maker \in ToSet(q) /\ maker \in Orders /\ maker # Taker
      /\ filled \in Nat /\ filled <= size[maker] /\ filled <= size[Taker]
      /\ size' \in [Orders -> Nat]
      /\ size'[maker] = size[maker] - filled
      /\ size'[Taker] = size[Taker] - filled
      /\ \A o \in Orders \ {maker, Taker} : size'[o] = size[o]
  BY FillSizes
<1>3. /\ placed \in Orders /\ Taker \in Orders /\ Opp \in BOOLEAN /\ Target \in Prices
      /\ Target \in ToSet(levels[Opp]) /\ size \in [Orders -> Nat]
  BY <1>1, FillPlace DEF IInv, TypeOK, Taker
<1>4. UNCHANGED <<placed, bid, price, engineLimit, levels, limits, queue, call, at, given>>
  BY DEF FillOrder
<1>5. Taker' = Taker /\ Opp' = Opp /\ Target' = Target /\ pc' # "idle"
  BY <1>4 DEF Taker, Opp, Target, FillOrder
<1>6. /\ toDelete' = IF size[maker] = filled THEN Append(toDelete, maker) ELSE toDelete
      /\ volume' = [volume EXCEPT ![Opp][Target] = @ - filled]
  BY DEF FillOrder
<1>14. bid[maker] = Opp /\ price[maker] = Target
  <2>1. \A o \in ToSet(queue[Opp][Target]) : bid[o] = Opp /\ price[o] = Target
    BY <1>3, QueueOrders
  <2> HIDE DEF maker
  <2> QED BY <1>2, <2>1
<1> HIDE DEF maker, filled, q
\* No order grows.
<1>7. \A o \in Orders : size'[o] <= size[o] /\ size[o] \in Nat /\ size'[o] \in Nat
  BY <1>2, <1>3
<1>8. ToDeleteInv'
  <2> SUFFICES ASSUME NEW o \in ToSet(toDelete') PROVE size'[o] = 0
    BY DEF ToDeleteInv
  <2>0. toDelete \in Seq(Orders)
    BY DEF IInv, TypeOK
  <2>1. ASSUME o \in ToSet(toDelete) PROVE size'[o] = 0
    <3>1. o \in Orders /\ size[o] = 0
      BY <1>1, <2>0, <2>1, InToSet DEF SumInv, ToDeleteInv
    <3> QED BY <1>7, <3>1
  <2>2. CASE o \notin ToSet(toDelete)
    <3>1. toDelete' = Append(toDelete, maker) /\ size[maker] = filled
      BY <1>6, <2>2
    <3>2. /\ toDelete' \in Seq(Orders) /\ Len(toDelete') = Len(toDelete) + 1
          /\ \A j \in 1..Len(toDelete) : toDelete'[j] = toDelete[j]
          /\ toDelete'[Len(toDelete) + 1] = maker
      BY <1>2, <2>0, <3>1, AppendProperties
    <3>3. PICK j \in 1..Len(toDelete') : toDelete'[j] = o
      BY <3>2, InToSet
    <3>4. j # Len(toDelete) + 1 => j \in DOMAIN toDelete /\ toDelete[j] = o
      BY <2>0, <3>2, <3>3, InToSet
    <3>5. o = maker
      BY <2>0, <2>2, <3>2, <3>3, <3>4, InToSet
    <3> QED BY <1>2, <1>7, <3>1, <3>5
  <2> QED BY <2>1, <2>2
<1>9. BackReferenceInv'
  <2> SUFFICES ASSUME NEW o \in Orders, engineLimit[o] # NoLimit
               PROVE  /\ o <= placed /\ (pc' # "idle" => o # Taker')
                      /\ engineLimit[o] = price[o] /\ price[o] \in Prices
                      /\ o \notin ById /\ size'[o] > 0 => o \in ToSet(queue[bid[o]][price[o]])
    BY <1>4 DEF BackReferenceInv
  <2>1. size'[o] > 0 => size[o] > 0
    BY <1>7
  <2> QED BY <1>1, <1>5, <2>1 DEF SumInv, BackReferenceInv
<1>10. volume \in [BOOLEAN -> [Prices -> Int]]
  BY DEF IInv, TypeOK
<1>11. /\ volume'[Opp][Target] = volume[Opp][Target] - filled
       /\ \A b \in BOOLEAN, p \in Prices :
             b # Opp \/ p # Target => volume'[b][p] = volume[b][p]
  BY <1>3, <1>6, <1>10
<1>12. VolumeInv'
  <2> SUFFICES ASSUME NEW b \in BOOLEAN, NEW p \in Prices
               PROVE  volume'[b][p] = SumFunctionOnSet(size', ToSet(queue[b][p]))
    BY <1>4 DEF VolumeInv
  <2>1. volume[b][p] = SumFunctionOnSet(size, ToSet(queue[b][p]))
    BY DEF SumInv, VolumeInv
  <2>2. \A o \in ToSet(queue[b][p]) : o # Taker /\ bid[o] = b /\ price[o] = p /\ o \in Orders
    BY <1>1, QueueOrders
  <2>3. CASE b = Opp /\ p = Target
    <3>1. maker \in ToSet(queue[b][p]) /\ \A o \in ToSet(queue[b][p]) : size[o] \in Int
      BY <1>2, <2>3, QueueFinite DEF q
    <3>2. \A o \in ToSet(queue[b][p]) \ {maker} : size'[o] = size[o]
      BY <1>2, <2>2
    <3>3. size'[maker] \in Int /\ IsFiniteSet(ToSet(queue[b][p]))
      BY <1>2, QueueFinite
    <3>4. SumFunctionOnSet(size', ToSet(queue[b][p]))
             = SumFunctionOnSet(size, ToSet(queue[b][p])) - size[maker] + size'[maker]
      BY <3>1, <3>2, <3>3, SumChange
    <3>5. volume[b][p] \in Int /\ size[maker] \in Nat
      BY <1>2, <1>3, <1>10
    <3> QED BY <1>2, <1>11, <2>1, <2>3, <3>4, <3>5
  <2>4. CASE b # Opp \/ p # Target
    <3>1. bid[maker] = Opp /\ price[maker] = Target
      BY <1>14
    <3>2. \A o \in ToSet(queue[b][p]) : size[o] = size'[o]
      BY <1>2, <2>2, <2>4, <3>1
    <3>3. SumFunctionOnSet(size, ToSet(queue[b][p])) = SumFunctionOnSet(size', ToSet(queue[b][p]))
      BY <3>2, QueueFinite, SumSame
    <3> QED BY <1>11, <2>1, <2>4, <3>3
  <2> QED BY <2>3, <2>4
<1>13. MarketInv'
  <2>1. ASSUME call' = "market" PROVE size'[Taker'] <= TotalVolume(Opp)'
    <3>1. size[Taker] <= TotalVolume(Opp)
      BY <1>1, <1>4, <2>1 DEF SumInv, MarketInv
    <3> DEFINE P == ToSet(levels[Opp])
    <3>2. IsFiniteSet(P) /\ P \subseteq Prices /\ \A p \in P : volume[Opp][p] \in Int
      BY <1>3, LevelsFinite DEF SumInv
    <3>3. \A p \in P \ {Target} : volume'[Opp][p] = volume[Opp][p]
      BY <1>3, <1>11, <3>2
    <3>4. Target \in P
      BY <1>3
    <3> HIDE DEF P
    <3>9. volume[Opp][Target] \in Int /\ volume'[Opp][Target] \in Int
      <4>1. volume[Opp][Target] \in Int
        BY <3>2, <3>4
      <4>2. filled \in Int
        BY <1>2
      <4>3. volume'[Opp][Target] = volume[Opp][Target] - filled
        BY <1>11
      <4> QED BY <4>1, <4>2, <4>3
    <3>5. SumFunctionOnSet(volume'[Opp], P)
            = SumFunctionOnSet(volume[Opp], P) - volume[Opp][Target] + volume'[Opp][Target]
      <4> DEFINE V == volume[Opp]
                 W == volume'[Opp]
      <4>1. /\ IsFiniteSet(P) /\ Target \in P /\ W[Target] \in Int
            /\ \A x \in P : V[x] \in Int
            /\ \A x \in P \ {Target} : W[x] = V[x]
        BY <3>2, <3>3, <3>4, <3>9
      <4> HIDE DEF V, W
      <4>2. SumFunctionOnSet(W, P) = SumFunctionOnSet(V, P) - V[Target] + W[Target]
        BY <4>1, SumChange
      <4> QED BY <4>2 DEF V, W
    <3>6. SumFunctionOnSet(volume[Opp], P) \in Int
      BY <3>2, SumInt
    <3>7. /\ TotalVolume(Opp) = SumFunctionOnSet(volume[Opp], P)
          /\ TotalVolume(Opp)' = SumFunctionOnSet(volume'[Opp], P)
      BY <1>4, <1>5 DEF TotalVolume, P
    <3>8. size[Taker] \in Nat
      BY <1>3
    <3> QED BY <1>2, <1>5, <1>11, <3>1, <3>5, <3>6, <3>7, <3>8, <3>9
  <2>2. ASSUME NEW o \in 1..placed, price[o] = 0, o # Taker PROVE size'[o] \in {0, given[o]}
    <3>1. o \in Orders
      BY <1>3 DEF Orders
    <3>2. o # maker
      <4>1. price[maker] = Target /\ Target # 0
        BY <1>3, <1>14
      <4> QED BY <2>2, <4>1
    <3> QED BY <1>2, <2>2, <3>1, <3>2 DEF SumInv, MarketInv
  <2> QED BY <1>4, <1>5, <2>1, <2>2 DEF MarketInv
<1> QED BY <1>8, <1>9, <1>12, <1>13 DEF SumInv

\* One order less in the queue of (b, p), and its size less in the volume.
OneLess(b, p, o) ==
    /\ ToSet(queue'[b][p]) = ToSet(queue[b][p]) \ {o}
    /\ \A c \in BOOLEAN, q \in Prices :
          c # b \/ q # p => queue'[c][q] = queue[c][q] /\ volume'[c][q] = volume[c][q]
    /\ volume'[b][p] = volume[b][p] - size[o]

\* Deleting an order that is in the queue or used up keeps the volumes right.
LEMMA DeleteOrderVolume ==
    ASSUME IInv, VolumeInv, NEW b \in BOOLEAN, NEW p \in Prices, NEW o \in Orders,
           DeleteOrder(b, p, o), UNCHANGED size, o \in ToSet(queue[b][p]) \/ size[o] = 0
    PROVE  /\ VolumeInv'
           /\ OneLess(b, p, o)
<1>1. /\ queue' \in [BOOLEAN -> [Prices -> Seq(Orders)]]
      /\ volume' \in [BOOLEAN -> [Prices -> Int]]
      /\ o \notin ToSet(queue'[b][p])
      /\ \A c \in BOOLEAN, q \in Prices :
            /\ ToSet(queue'[c][q]) \subseteq ToSet(queue[c][q])
            /\ c # b \/ q # p => queue'[c][q] = queue[c][q]
            /\ BestFirst(FALSE, queue'[c][q])
  BY DeleteOrderFacts
<1>2. /\ queue'  = [queue EXCEPT ![b][p] = Without(@, o)]
      /\ volume' = [volume EXCEPT ![b][p] = @ - size[o]]
      /\ queue \in [BOOLEAN -> [Prices -> Seq(Orders)]]
      /\ volume \in [BOOLEAN -> [Prices -> Int]] /\ size[o] \in Nat
  BY DEF DeleteOrder, IInv, TypeOK
<1>3. queue'[b][p] = Without(queue[b][p], o) /\ queue[b][p] \in Seq(Orders)
  BY <1>2
<1>4. ToSet(queue'[b][p]) = ToSet(queue[b][p]) \ {o}
  <2>1. ToSet(queue[b][p]) \ {o} \subseteq ToSet(queue'[b][p])
    BY <1>3, WithoutProperties
  <2> QED BY <1>1, <2>1
<1>5. /\ \A c \in BOOLEAN, q \in Prices : c # b \/ q # p => volume'[c][q] = volume[c][q]
      /\ volume'[b][p] = volume[b][p] - size[o]
  BY <1>2
<1>6. VolumeInv'
  <2> SUFFICES ASSUME NEW c \in BOOLEAN, NEW q \in Prices
               PROVE  volume'[c][q] = SumFunctionOnSet(size, ToSet(queue'[c][q]))
    BY DEF VolumeInv
  <2>1. CASE c # b \/ q # p
    <3>1. queue'[c][q] = queue[c][q] /\ volume'[c][q] = volume[c][q]
      BY <1>1, <1>5, <2>1
    <3>2. volume[c][q] = SumFunctionOnSet(size, ToSet(queue[c][q]))
      BY DEF VolumeInv
    <3> QED BY <3>1, <3>2
  <2>2. CASE c = b /\ q = p
    <3>1. volume[b][p] = SumFunctionOnSet(size, ToSet(queue[b][p])) /\ volume[b][p] \in Int
      BY <1>2 DEF VolumeInv
    <3>2. CASE o \in ToSet(queue[b][p])
      <4> DEFINE Q == ToSet(queue[b][p])
      <4>1. o \in Q /\ IsFiniteSet(Q) /\ IsFiniteSet(Q \ {o}) /\ \A e \in Q : size[e] \in Int
        BY <3>2, QueueFinite, FS_Subset
      <4>2. SumFunctionOnSet(size, Q) = size[o] + SumFunctionOnSet(size, Q \ {o})
        <5> HIDE DEF Q
        <5> QED BY <4>1, SumRemove
      <4>3. SumFunctionOnSet(size, Q \ {o}) \in Int
        <5>1. \A e \in Q \ {o} : size[e] \in Int
          BY <4>1
        <5> HIDE DEF Q
        <5> QED BY <4>1, <5>1, SumInt
      <4> DEFINE V == SumFunctionOnSet(size, Q)
                 W == SumFunctionOnSet(size, Q \ {o})
      <4>4. V = size[o] + W /\ W \in Int /\ volume[b][p] = V
        BY <3>1, <4>2, <4>3
      <4>5. volume'[c][q] = volume[b][p] - size[o] /\ ToSet(queue'[c][q]) = Q \ {o}
        BY <1>4, <1>5, <2>2
      <4>6. SumFunctionOnSet(size, ToSet(queue'[c][q])) = W
        BY <4>5
      <4> HIDE DEF V, W
      <4> QED BY <1>2, <4>4, <4>5, <4>6
    <3>3. CASE o \notin ToSet(queue[b][p])
      <4>1. size[o] = 0 /\ ToSet(queue'[b][p]) = ToSet(queue[b][p])
        BY <1>4, <3>3
      <4> QED BY <1>5, <2>2, <3>1, <4>1
    <3> QED BY <3>2, <3>3
  <2> QED BY <2>1, <2>2
<1>7. OneLess(b, p, o)
  BY <1>1, <1>4, <1>5 DEF OneLess
<1> QED BY <1>6, <1>7

LEMMA StartFillSum == IInv /\ SumInv /\ StartFill => SumInv'
<1> SUFFICES ASSUME IInv, SumInv, StartFill PROVE SumInv'
  OBVIOUS
<1>1. /\ pc = "loop" /\ pc' # "idle" /\ toDelete' = <<>>
      /\ UNCHANGED <<placed, bid, price, size, engineLimit, levels, limits, queue, volume, call,
                     given>>
  BY DEF StartFill, book
<1>2. Taker' = Taker /\ Opp' = Opp
  BY <1>1 DEF Taker, Opp
<1>3. ToDeleteInv'
  BY <1>1, EmptySequence DEF ToDeleteInv
<1>4. BackReferenceInv'
  BY <1>1, <1>2 DEF SumInv, BackReferenceInv
<1>5. VolumeInv'
  BY <1>1 DEF SumInv, VolumeInv
<1>6. MarketInv'
  <2>1. TotalVolume(Opp)' = TotalVolume(Opp)
    BY <1>1, <1>2 DEF TotalVolume
  <2> QED BY <1>1, <1>2, <2>1 DEF SumInv, MarketInv
<1> QED BY <1>3, <1>4, <1>5, <1>6 DEF SumInv

LEMMA DeleteFilledSum == IInv /\ SumInv /\ DeleteFilled => SumInv'
<1> SUFFICES ASSUME IInv, SumInv, DeleteFilled PROVE SumInv'
  OBVIOUS
<1> DEFINE o == Head(toDelete)
<1>1. InFill /\ pc = "delete" /\ toDelete # <<>> /\ toDelete \in Seq(Orders)
  BY DEF InFill, DeleteFilled, IInv, TypeOK
<1>2. /\ o \in ToSet(toDelete) /\ o \in Orders
      /\ ToSet(toDelete') \subseteq ToSet(toDelete)
  <2>1. toDelete' = Tail(toDelete)
    BY DEF DeleteFilled
  <2>2. /\ o = toDelete[1] /\ toDelete' \in Seq(Orders) /\ Len(toDelete') = Len(toDelete) - 1
        /\ \A j \in 1..Len(toDelete') : toDelete'[j] = toDelete[j + 1]
    BY <1>1, <2>1, HeadTailProperties
  <2>3. Len(toDelete) # 0 /\ Len(toDelete) \in Nat /\ DOMAIN toDelete = 1..Len(toDelete)
    BY <1>1, InToSet, EmptySeq
  <2>4. 1 \in DOMAIN toDelete
    BY <2>3
  <2>5. o \in ToSet(toDelete) /\ o \in Orders
    <3> HIDE DEF o
    <3> QED BY <1>1, <2>2, <2>4, InToSet
  <2>6. ASSUME NEW e \in ToSet(toDelete') PROVE e \in ToSet(toDelete)
    <3>1. PICK j \in DOMAIN toDelete' : toDelete'[j] = e
      BY <2>2, InToSet
    <3>2. j \in 1..Len(toDelete')
      BY <2>2, <3>1, InToSet
    <3>3. j + 1 \in DOMAIN toDelete /\ toDelete[j + 1] = e
      BY <2>2, <2>3, <3>1, <3>2
    <3> QED BY <1>1, <3>3, InToSet
  <2> QED BY <2>5, <2>6
<1>3. placed \in Orders /\ Opp \in BOOLEAN /\ Target \in Prices /\ pc # "idle"
  BY <1>1, FillPlace
<1>4. /\ UNCHANGED <<placed, bid, price, size, engineLimit, levels, limits, call, pc, at, given>>
      /\ DeleteOrder(Opp, Target, o)
  BY DEF DeleteFilled
<1>5. Taker' = Taker /\ Opp' = Opp /\ Target' = Target
  BY <1>4 DEF Taker, Opp, Target
<1>6. size[o] = 0
  BY <1>1, <1>2 DEF SumInv, ToDeleteInv
<1> HIDE DEF o
<1>7. /\ VolumeInv'
      /\ ToSet(queue'[Opp][Target]) = ToSet(queue[Opp][Target]) \ {o}
      /\ \A c \in BOOLEAN, q \in Prices :
            c # Opp \/ q # Target => queue'[c][q] = queue[c][q] /\ volume'[c][q] = volume[c][q]
      /\ volume'[Opp][Target] = volume[Opp][Target] - size[o]
  <2>1. VolumeInv /\ UNCHANGED size /\ o \in Orders
    BY <1>2, <1>4 DEF SumInv
  <2>2. VolumeInv' /\ OneLess(Opp, Target, o)
    BY <1>3, <1>4, <1>6, <2>1, DeleteOrderVolume
  <2> QED BY <2>2 DEF OneLess
<1>8. ToDeleteInv'
  BY <1>1, <1>2, <1>4 DEF SumInv, ToDeleteInv
<1>9. BackReferenceInv'
  <2> SUFFICES ASSUME NEW e \in Orders, engineLimit[e] # NoLimit
               PROVE  /\ e <= placed /\ (pc' # "idle" => e # Taker')
                      /\ engineLimit[e] = price[e] /\ price[e] \in Prices
                      /\ e \notin ById /\ size[e] > 0 => e \in ToSet(queue'[bid[e]][price[e]])
    BY <1>4 DEF BackReferenceInv
  <2>1. /\ e <= placed /\ (pc # "idle" => e # Taker)
        /\ engineLimit[e] = price[e] /\ price[e] \in Prices
        /\ e \notin ById /\ size[e] > 0 => e \in ToSet(queue[bid[e]][price[e]])
    BY DEF SumInv, BackReferenceInv
  <2>2. size[e] > 0 => e # o
    BY <1>6
  <2>3. bid[e] \in BOOLEAN
    BY DEF IInv, TypeOK
  <2> QED BY <1>4, <1>5, <1>7, <2>1, <2>2, <2>3
<1>10. MarketInv'
  <2>1. TotalVolume(Opp)' = TotalVolume(Opp)
    <3>1. volume[Opp][Target] \in Int
      BY <1>3, LevelsFinite DEF SumInv
    <3>2. \A p \in Prices : volume'[Opp][p] = volume[Opp][p]
      BY <1>3, <1>6, <1>7, <3>1
    <3>3. IsFiniteSet(ToSet(levels[Opp])) /\ ToSet(levels[Opp]) \subseteq Prices
      BY <1>3, LevelsFinite DEF SumInv
    <3>4. \A p \in ToSet(levels[Opp]) : volume'[Opp][p] = volume[Opp][p]
      BY <3>2, <3>3
    <3>5. SumFunctionOnSet(volume'[Opp], ToSet(levels[Opp]))
            = SumFunctionOnSet(volume[Opp], ToSet(levels[Opp]))
      BY <3>3, <3>4, SumSame
    <3> QED BY <1>4, <1>5, <3>5 DEF TotalVolume
  <2> QED BY <1>4, <1>5, <2>1 DEF SumInv, MarketInv
<1> QED BY <1>7, <1>8, <1>9, <1>10 DEF SumInv

LEMMA EndFillSum == IInv /\ SumInv /\ EndFill => SumInv'
<1> SUFFICES ASSUME IInv, SumInv, EndFill PROVE SumInv'
  OBVIOUS
<1>1. InFill /\ pc = "delete" /\ toDelete = <<>> /\ pc' = "loop"
  BY DEF InFill, EndFill
<1>2. placed \in Orders /\ Opp \in BOOLEAN /\ Target \in Prices /\ Target \in limits[Opp]
  BY <1>1, FillPlace
<1>3. /\ UNCHANGED <<placed, bid, price, size, engineLimit, queue, volume, call, toDelete, given>>
      /\ \/ queue[Opp][Target] = <<>> /\ ClearLimit(Opp, Target)
         \/ UNCHANGED <<levels, limits>>
  BY DEF EndFill
<1>4. Taker' = Taker /\ Opp' = Opp
  BY <1>3 DEF Taker, Opp
<1>5. ToDeleteInv'
  BY <1>1, <1>3, EmptySequence DEF ToDeleteInv
<1>6. BackReferenceInv'
  BY <1>1, <1>3, <1>4 DEF SumInv, BackReferenceInv
<1>7. VolumeInv'
  BY <1>3 DEF SumInv, VolumeInv
<1>8. MarketInv'
  <2>1. TotalVolume(Opp)' = TotalVolume(Opp)
    <3>1. CASE queue[Opp][Target] = <<>> /\ ClearLimit(Opp, Target)
      <4> DEFINE P == ToSet(levels[Opp])
      <4>1. volume[Opp][Target] = 0
        <5>1. volume[Opp][Target] = SumFunctionOnSet(size, ToSet(queue[Opp][Target]))
          BY <1>2 DEF SumInv, VolumeInv
        <5> QED BY <3>1, <5>1, EmptySequence, SumEmpty
      <4>2. ToSet(levels'[Opp]) = P \ {Target} /\ Target \in P
        <5>1. LevelsAgree' /\ limits'[Opp] = limits[Opp] \ {Target}
          BY <1>2, <3>1, ClearLimitFacts
        <5>2. ToSet(levels'[Opp]) = limits'[Opp] /\ ToSet(levels[Opp]) = limits[Opp]
          BY <1>2, <5>1 DEF LevelsAgree, IInv
        <5> QED BY <1>2, <5>1, <5>2
      <4>3. IsFiniteSet(P) /\ \A p \in P : volume[Opp][p] \in Int
        BY <1>2, LevelsFinite DEF SumInv
      <4> HIDE DEF P
      <4>4. SumFunctionOnSet(volume[Opp], P)
              = volume[Opp][Target] + SumFunctionOnSet(volume[Opp], P \ {Target})
        BY <4>2, <4>3, SumRemove
      <4>5. SumFunctionOnSet(volume[Opp], P \ {Target}) \in Int
        <5>1. IsFiniteSet(P \ {Target}) /\ \A p \in P \ {Target} : volume[Opp][p] \in Int
          BY <4>3, FS_Subset
        <5> QED BY <5>1, SumInt
      <4>6. /\ TotalVolume(Opp) = SumFunctionOnSet(volume[Opp], P)
            /\ TotalVolume(Opp)' = SumFunctionOnSet(volume[Opp], P \ {Target})
        BY <1>3, <1>4, <4>2 DEF TotalVolume, P
      <4> QED BY <4>1, <4>4, <4>5, <4>6
    <3>2. CASE UNCHANGED <<levels, limits>>
      BY <1>3, <1>4, <3>2 DEF TotalVolume
    <3> QED BY <1>3, <3>1, <3>2
  <2> QED BY <1>1, <1>3, <1>4, <2>1 DEF SumInv, MarketInv
<1> QED BY <1>5, <1>6, <1>7, <1>8 DEF SumInv

\* A market order is done when it is filled: what it still needs is there.
LEMMA MarketFilled ==
    ASSUME IInv, SumInv, pc = "loop", ~CanMatch, call = "market"
    PROVE  size[Taker] = 0
<1>1. placed \in Orders /\ Taker = placed /\ Opp \in BOOLEAN /\ size[Taker] \in Nat
  BY DEF IInv, CallInv, TypeOK, Taker, Opp
<1>2. CASE at # 1
  BY <1>2 DEF IInv, CallInv
<1>3. CASE at = 1 /\ ~ (size[Taker] > 0)
  BY <1>1, <1>3
<1>4. CASE at = 1 /\ size[Taker] > 0
  <2>1. ~ (1 <= Len(levels[Opp])) /\ levels[Opp] \in Seq(Prices)
    BY <1>1, <1>4 DEF CanMatch, IInv, TypeOK
  <2>2. Len(levels[Opp]) \in Nat /\ DOMAIN levels[Opp] = 1..Len(levels[Opp])
    BY <2>1, InToSet
  <2>3. DOMAIN levels[Opp] = {}
    BY <2>1, <2>2
  <2>4. ToSet(levels[Opp]) = {}
    BY <2>3 DEF ToSet
  <2>5. TotalVolume(Opp) = 0
    BY <2>4, SumEmpty DEF TotalVolume
  <2>6. size[Taker] <= TotalVolume(Opp)
    BY DEF SumInv, MarketInv
  <2> QED BY <1>1, <2>5, <2>6
<1> QED BY <1>2, <1>3, <1>4

LEMMA ReturnSum == IInv /\ SumInv /\ Return => SumInv'
<1> SUFFICES ASSUME IInv, SumInv, Return PROVE SumInv'
  OBVIOUS
<1>1. pc = "loop" /\ pc' = "idle" /\ ~CanMatch /\ ~MustRest
  BY DEF Return
<1>2. UNCHANGED <<placed, bid, price, size, engineLimit, levels, limits, queue, volume, call,
                  toDelete, given>>
  BY DEF Return, book, loopv
<1>3. ToDeleteInv' /\ VolumeInv'
  BY <1>1, <1>2 DEF SumInv, ToDeleteInv, VolumeInv, InFill
<1>4. BackReferenceInv'
  BY <1>1, <1>2 DEF SumInv, BackReferenceInv
<1>5. ASSUME price[Taker] = 0 PROVE size[Taker] = 0
  <2>1. call = "market"
    BY <1>1, <1>5 DEF IInv, CallInv, TypeOK
  <2> QED BY <1>1, <2>1, MarketFilled
<1>6. MarketInv'
  BY <1>1, <1>2, <1>5 DEF SumInv, MarketInv
<1> QED BY <1>3, <1>4, <1>6 DEF SumInv

LEMMA AddRestingLimitOrderSum == IInv /\ SumInv /\ AddRestingLimitOrder => SumInv'
<1> SUFFICES ASSUME IInv, SumInv, AddRestingLimitOrder PROVE SumInv'
  OBVIOUS
<1> DEFINE b == bid[Taker]
           p == price[Taker]
<1>1. pc = "loop" /\ pc' = "idle" /\ call = "limit" /\ size[Taker] > 0
  BY DEF AddRestingLimitOrder, MustRest
<1>2. /\ placed \in Orders /\ Taker = placed /\ Taker \in Orders /\ b \in BOOLEAN /\ p \in Prices
      /\ size[Taker] \in Nat /\ placed \in Nat
  BY <1>1, OrdersAreNat DEF IInv, CallInv, TypeOK, Taker
<1>3. UNCHANGED <<placed, bid, price, size, call, given, toDelete>>
  BY DEF AddRestingLimitOrder, loopv
<1>4. /\ queue' = [queue EXCEPT ![b][p] = IF p \notin limits[b] THEN <<Taker>>
                                          ELSE Append(@, Taker)]
      /\ volume' = [volume EXCEPT ![b][p] = IF p \notin limits[b] THEN size[Taker]
                                            ELSE @ + size[Taker]]
      /\ engineLimit' = [engineLimit EXCEPT ![Taker] = p]
  BY DEF AddRestingLimitOrder
<1> HIDE DEF b, p
<1>5. /\ queue \in [BOOLEAN -> [Prices -> Seq(Orders)]]
      /\ volume \in [BOOLEAN -> [Prices -> Int]]
      /\ engineLimit \in [Orders -> Nat]
  BY DEF IInv, TypeOK
<1>6. /\ queue'[b][p] = IF p \notin limits[b] THEN <<Taker>> ELSE Append(queue[b][p], Taker)
      /\ volume'[b][p] = IF p \notin limits[b] THEN size[Taker] ELSE volume[b][p] + size[Taker]
      /\ \A c \in BOOLEAN, q \in Prices :
            c # b \/ q # p => queue'[c][q] = queue[c][q] /\ volume'[c][q] = volume[c][q]
  BY <1>2, <1>4, <1>5
<1>7. ToSet(queue'[b][p]) = ToSet(queue[b][p]) \cup {Taker}
  <2>1. CASE p \notin limits[b]
    <3>1. queue[b][p] = <<>>
      BY <1>2, <2>1 DEF IInv, QueueInv
    <3>2. ToSet(<<Taker>>) = {Taker}
      BY DEF ToSet
    <3> QED BY <1>6, <2>1, <3>1, <3>2, EmptySequence
  <2>2. CASE p \in limits[b]
    <3> DEFINE s == queue[b][p]
               t == queue'[b][p]
    <3>1. t = Append(s, Taker) /\ s \in Seq(Orders) /\ Len(s) \in Nat /\ DOMAIN s = 1..Len(s)
      <4>1. t = Append(s, Taker)
        BY <1>6, <2>2
      <4>2. s \in Seq(Orders)
        BY <1>2, <1>5
      <4> HIDE DEF s
      <4> QED BY <4>1, <4>2, InToSet
    <3> HIDE DEF s, t
    <3>2. /\ t \in Seq(Orders) /\ Len(t) = Len(s) + 1
          /\ \A j \in 1..Len(s) : t[j] = s[j]
          /\ t[Len(s) + 1] = Taker
      BY <1>2, <3>1, AppendProperties
    <3>3. DOMAIN t = 1..(Len(s) + 1)
      BY <3>2, InToSet
    <3>4. ASSUME NEW e \in ToSet(t) PROVE e \in ToSet(s) \cup {Taker}
      <4>1. PICK j \in DOMAIN t : t[j] = e
        BY <3>2, InToSet
      <4>2. j # Len(s) + 1 => j \in DOMAIN s /\ s[j] = e
        BY <3>1, <3>2, <3>3, <4>1
      <4> QED BY <3>1, <3>2, <4>1, <4>2, InToSet
    <3>5. ASSUME NEW e \in ToSet(s) PROVE e \in ToSet(t)
      <4>1. PICK j \in DOMAIN s : s[j] = e
        BY <3>1, InToSet
      <4>2. j \in DOMAIN t /\ t[j] = e
        BY <3>1, <3>2, <3>3, <4>1
      <4> QED BY <3>2, <4>2, InToSet
    <3>6. Taker \in ToSet(t)
      <4>1. Len(s) + 1 \in DOMAIN t
        BY <3>1, <3>3
      <4> QED BY <3>2, <4>1, InToSet
    <3>7. ToSet(t) = ToSet(s) \cup {Taker}
      BY <3>4, <3>5, <3>6
    <3> QED BY <3>7 DEF s, t
  <2> QED BY <2>1, <2>2
<1>8. ToDeleteInv'
  BY <1>1 DEF ToDeleteInv, InFill
<1>9. BackReferenceInv'
  <2> SUFFICES ASSUME NEW e \in Orders, engineLimit'[e] # NoLimit
               PROVE  /\ e <= placed /\ engineLimit'[e] = price[e] /\ price[e] \in Prices
                      /\ e \notin ById /\ size[e] > 0 => e \in ToSet(queue'[bid[e]][price[e]])
    BY <1>1, <1>3 DEF BackReferenceInv
  <2>1. CASE e = Taker
    <3>1. engineLimit'[e] = p /\ price[e] = p /\ bid[e] = b
      BY <1>2, <1>4, <1>5, <2>1 DEF b, p
    <3> QED BY <1>2, <1>7, <2>1, <3>1
  <2>2. CASE e # Taker
    <3>1. engineLimit'[e] = engineLimit[e]
      BY <1>2, <1>4, <1>5, <2>2
    <3>2. /\ e <= placed /\ engineLimit[e] = price[e] /\ price[e] \in Prices
          /\ e \notin ById /\ size[e] > 0 => e \in ToSet(queue[bid[e]][price[e]])
      BY <3>1 DEF SumInv, BackReferenceInv
    <3>3. bid[e] \in BOOLEAN
      BY DEF IInv, TypeOK
    <3>4. ToSet(queue[bid[e]][price[e]]) \subseteq ToSet(queue'[bid[e]][price[e]])
      BY <1>6, <1>7, <3>2, <3>3
    <3> QED BY <3>1, <3>2, <3>4
  <2> QED BY <2>1, <2>2
<1>10. VolumeInv'
  <2> SUFFICES ASSUME NEW c \in BOOLEAN, NEW q \in Prices
               PROVE  volume'[c][q] = SumFunctionOnSet(size, ToSet(queue'[c][q]))
    BY <1>3 DEF VolumeInv
  <2>1. volume[c][q] = SumFunctionOnSet(size, ToSet(queue[c][q]))
    BY DEF SumInv, VolumeInv
  <2>2. CASE c # b \/ q # p
    <3>1. queue'[c][q] = queue[c][q] /\ volume'[c][q] = volume[c][q]
      BY <1>6, <2>2
    <3> QED BY <2>1, <3>1
  <2>3. CASE c = b /\ q = p
    <3> DEFINE Q == ToSet(queue[b][p])
               V == SumFunctionOnSet(size, Q)
    <3>1. /\ IsFiniteSet(Q) /\ Taker \notin Q /\ \A e \in Q \cup {Taker} : size[e] \in Int
      BY <1>1, <1>2, QueueFinite, QueueOrders
    <3>2. SumFunctionOnSet(size, Q \cup {Taker}) = size[Taker] + V
      <4> HIDE DEF Q
      <4> QED BY <3>1, SumAdd
    <3>3. volume'[b][p] = size[Taker] + V
      <4>1. V = volume[b][p] /\ volume[b][p] \in Int
        BY <1>2, <1>5, <2>1, <2>3
      <4>2. p \notin limits[b] => volume[b][p] = 0
        <5>1. p \notin limits[b] => queue[b][p] = <<>>
          BY <1>2 DEF IInv, QueueInv
        <5> QED BY <2>1, <2>3, <5>1, EmptySequence, SumEmpty
      <4> HIDE DEF V
      <4> QED BY <1>2, <1>6, <4>1, <4>2
    <3> QED BY <1>7, <2>3, <3>2, <3>3
  <2> QED BY <2>2, <2>3
<1>11. MarketInv'
  <2>1. p # 0
    BY <1>2
  <2> QED BY <1>1, <1>3, <2>1 DEF SumInv, MarketInv, p
<1> QED BY <1>8, <1>9, <1>10, <1>11 DEF SumInv

\* Both ways to cancel, of an order that rests or is used up.
LEMMA CancelSum ==
    ASSUME IInv, SumInv, pc = "idle", NEW b \in BOOLEAN, NEW p \in Prices, NEW o \in Orders,
           DeleteOrder(b, p, o), o \in ToSet(queue[b][p]) \/ size[o] = 0,
           o \in ById \/ engineLimit'[o] = NoLimit,
           \A e \in Orders \ {o} : engineLimit'[e] = engineLimit[e],
           engineLimit'[o] \in {NoLimit, engineLimit[o]},
           UNCHANGED <<placed, bid, price, size, call, pc, toDelete, given>>
    PROVE  SumInv'
<1>1. /\ VolumeInv'
      /\ ToSet(queue'[b][p]) = ToSet(queue[b][p]) \ {o}
      /\ \A c \in BOOLEAN, q \in Prices :
            c # b \/ q # p => queue'[c][q] = queue[c][q] /\ volume'[c][q] = volume[c][q]
      /\ volume'[b][p] = volume[b][p] - size[o]
  <2>1. VolumeInv /\ UNCHANGED size
    BY DEF SumInv
  <2>2. VolumeInv' /\ OneLess(b, p, o)
    BY <2>1, DeleteOrderVolume
  <2> QED BY <2>2 DEF OneLess
<1>2. ToDeleteInv' /\ MarketInv'
  BY DEF SumInv, ToDeleteInv, MarketInv, InFill
<1>3. BackReferenceInv'
  <2> SUFFICES ASSUME NEW e \in Orders, engineLimit'[e] # NoLimit
               PROVE  /\ e <= placed /\ engineLimit'[e] = price[e] /\ price[e] \in Prices
                      /\ e \notin ById /\ size[e] > 0 => e \in ToSet(queue'[bid[e]][price[e]])
    BY DEF BackReferenceInv
  <2>1. engineLimit'[e] = engineLimit[e]
    OBVIOUS
  <2>2. /\ e <= placed /\ engineLimit[e] = price[e] /\ price[e] \in Prices
        /\ e \notin ById /\ size[e] > 0 => e \in ToSet(queue[bid[e]][price[e]])
    BY <2>1 DEF SumInv, BackReferenceInv
  <2>3. bid[e] \in BOOLEAN
    BY DEF IInv, TypeOK
  <2>4. e = o => e \in ById
    OBVIOUS
  <2>5. e # o => ToSet(queue[bid[e]][price[e]]) \subseteq ToSet(queue'[bid[e]][price[e]]) \cup {o}
    BY <1>1, <2>2, <2>3
  <2> QED BY <2>1, <2>2, <2>4, <2>5
<1> QED BY <1>1, <1>2, <1>3 DEF SumInv

\* No order is cancelled both by pointer and by id.
LEMMA NextSum ==
    ASSUME ByPointer \cap ById = {}
    PROVE  IInv /\ SumInv /\ [Next]_vars => SumInv'
<1> SUFFICES ASSUME IInv, SumInv, [Next]_vars PROVE SumInv'
  OBVIOUS
<1>1. ASSUME NEW b \in BOOLEAN, NEW p \in Prices, NEW n \in Sizes, PlaceLimitOrder(b, p, n)
      PROVE  SumInv'
  BY <1>1, ReceiveSum DEF PlaceLimitOrder, StartLoop
<1>2. ASSUME NEW b \in BOOLEAN, NEW n \in Sizes, PlaceMarketOrder(b, n)
      PROVE  SumInv'
  BY <1>2, ReceiveSum DEF PlaceMarketOrder, StartLoop
<1>3. ASSUME NEW b \in BOOLEAN, NEW n \in Sizes, PanicMarketOrder(b, n)
      PROVE  SumInv'
  <2>1. Receive(b, 0, n) /\ UNCHANGED <<pc, call>>
    BY <1>3 DEF PanicMarketOrder
  <2> QED BY <2>1, ReceiveSum
<1>4. CASE StartFill
  BY <1>4, StartFillSum
<1>5. CASE FillOrder
  BY <1>5, FillOrderSum
<1>6. CASE DeleteFilled
  BY <1>6, DeleteFilledSum
<1>7. CASE EndFill
  BY <1>7, EndFillSum
<1>8. CASE AddRestingLimitOrder
  BY <1>8, AddRestingLimitOrderSum
<1>9. CASE Return
  BY <1>9, ReturnSum
<1>10. ASSUME NEW o \in Orders, CancelOrder(o) PROVE SumInv'
  <2>1. /\ o \in ByPointer /\ pc = "idle" /\ engineLimit[o] \in limits[bid[o]]
        /\ DeleteOrder(bid[o], engineLimit[o], o)
        /\ engineLimit' = [engineLimit EXCEPT ![o] = NoLimit]
        /\ UNCHANGED <<placed, bid, price, size, call, pc, toDelete, given>>
    BY <1>10 DEF CancelOrder, loopv
  <2>2. /\ bid[o] \in BOOLEAN /\ engineLimit[o] \in Prices /\ engineLimit \in [Orders -> Nat]
        /\ size[o] \in Nat
    BY <2>1 DEF IInv, TypeOK
  <2>3. engineLimit[o] # NoLimit /\ o \notin ById
    BY <2>1, <2>2 DEF NoLimit
  <2>4. o \in ToSet(queue[bid[o]][engineLimit[o]]) \/ size[o] = 0
    BY <2>2, <2>3 DEF SumInv, BackReferenceInv
  <2>5. /\ engineLimit'[o] = NoLimit
        /\ \A e \in Orders \ {o} : engineLimit'[e] = engineLimit[e]
    BY <2>1, <2>2
  <2> QED BY <2>1, <2>2, <2>4, <2>5, CancelSum
<1>11. ASSUME NEW o \in Orders, CancelOrderByID(o) PROVE SumInv'
  <2>1. PICK b \in BOOLEAN, p \in Prices :
           /\ o \in ById /\ pc = "idle" /\ o \in ToSet(queue[b][p])
           /\ DeleteOrder(b, p, o)
           /\ UNCHANGED <<placed, bid, price, size, engineLimit, call, pc, toDelete, given>>
    BY <1>11 DEF CancelOrderByID, loopv
  <2> QED BY <2>1, CancelSum
<1>12. CASE UNCHANGED vars
  <2>1. UNCHANGED <<placed, bid, price, size, engineLimit, levels, limits, queue, volume, call,
                    pc, at, idx, toDelete, given>>
    BY <1>12 DEF vars, book, loopv
  <2>2. Taker' = Taker /\ Opp' = Opp /\ (InFill' <=> InFill)
    BY <2>1 DEF Taker, Opp, InFill
  <2>3. ToDeleteInv' /\ BackReferenceInv' /\ VolumeInv'
    BY <2>1, <2>2 DEF SumInv, ToDeleteInv, BackReferenceInv, VolumeInv
  <2>4. TotalVolume(Opp)' = TotalVolume(Opp)
    BY <2>1, <2>2 DEF TotalVolume
  <2>5. MarketInv'
    BY <2>1, <2>2, <2>4 DEF SumInv, MarketInv
  <2> QED BY <2>3, <2>5 DEF SumInv
<1> QED
  BY <1>1, <1>2, <1>3, <1>4, <1>5, <1>6, <1>7, <1>8, <1>9, <1>10, <1>11, <1>12 DEF Next

-----------------------------------------------------------------------------
(* The theorems.                                                            *)

\* The inductive invariant holds in every reachable state.
THEOREM Invariance == Spec => []IInv
  BY InitInv, NextInv, PTL DEF Spec

\* Every variable keeps its type; in particular no size ever falls below zero,
\* whatever mixture of orders and cancellations the engine is called with.
THEOREM TypeCorrect == Spec => []TypeOK
<1>1. IInv => TypeOK
  BY DEF IInv
<1> QED BY <1>1, Invariance, PTL

\* The best bid stays below the best ask at every step of every call.
THEOREM NeverCrossed == Spec => []NotCrossed
<1>1. IInv => NotCrossed
  BY DEF IInv
<1> QED BY <1>1, Invariance, PTL

\* The slices, the maps and the queues of the book stay consistent.
THEOREM BookConsistent == Spec => []BookStructure
<1>1. ASSUME IInv PROVE BookStructure
  <2>1. LevelsAgree
    BY <1>1 DEF IInv
  <2>2. \A b \in BOOLEAN : limits[b] \subseteq Prices
    BY <1>1 DEF IInv, TypeOK
  <2>3. NothingSpent
    <3>1. ASSUME pc \in {"idle", "loop"}, NEW b \in BOOLEAN, NEW p \in limits[b]
          PROVE  queue[b][p] # <<>> /\ \A o \in ToSet(queue[b][p]) : size[o] > 0
      <4>1. p \in Prices /\ ~ InFill /\ pc # "delete"
        BY <2>2, <3>1 DEF InFill
      <4>2. queue[b][p] # <<>> /\ \A o \in ToSet(queue[b][p]) : size[o] # 0
        BY <1>1, <4>1 DEF IInv, SpentInv
      <4>3. \A o \in ToSet(queue[b][p]) : size[o] \in Nat
        BY <1>1, <4>1, QueueOrders
      <4> QED BY <4>2, <4>3
    <3> QED BY <3>1 DEF NothingSpent
  <2>4. RestsOnce
    <3>1. ASSUME NEW b \in BOOLEAN, NEW p \in limits[b], NEW j \in DOMAIN queue[b][p]
          PROVE  LET o == queue[b][p][j]
                 IN  /\ o <= placed /\ bid[o] = b /\ price[o] = p
                     /\ \A k \in DOMAIN queue[b][p] : queue[b][p][k] = o => k = j
      <4>1. p \in Prices
        BY <2>2
      <4> QED BY <1>1, <4>1, QueueOrders
    <3> QED BY <3>1 DEF RestsOnce
  <2> QED BY <2>1, <2>3, <2>4 DEF BookStructure
<1> QED BY <1>1, Invariance, PTL

\* The invariant that relates volumes, sizes and back-references, as long as no order
\* is cancelled both through its caller's pointer and by its id.
THEOREM SumInvariance == ASSUME ByPointer \cap ById = {} PROVE Spec => [](IInv /\ SumInv)
<1>1. IInv /\ SumInv /\ [Next]_vars => (IInv /\ SumInv)'
  BY NextInv, NextSum
<1> QED BY <1>1, InitInv, InitSum, PTL DEF Spec

\* TotalVolume, which is kept by hand, is the open size of the orders at the limit
\* at every step of every call, for every number of orders.
THEOREM VolumesAreSums == ASSUME ByPointer \cap ById = {} PROVE Spec => []VolumeIsSum
<1>1. IInv /\ SumInv => VolumeIsSum
  BY DEF IInv, TypeOK, SumInv, VolumeInv, VolumeIsSum
<1> QED BY <1>1, SumInvariance, PTL

\* The volume check before a market order suffices: the order is filled to the last
\* lot or refused with nothing of it filled.
THEOREM MarketOrdersComplete ==
    ASSUME ByPointer \cap ById = {} PROVE Spec => []MarketAllOrNothing
<1>1. IInv /\ SumInv => MarketAllOrNothing
  BY DEF SumInv, MarketInv, MarketAllOrNothing
<1> QED BY <1>1, SumInvariance, PTL

\* What rests on a side.
LEMMA RestingOrders ==
    ASSUME IInv, NEW b \in BOOLEAN, NEW o \in Resting(b)
    PROVE  /\ o \in Orders /\ o \in Nat /\ o <= placed /\ size[o] \in Nat
           /\ pc # "idle" => o # Taker
           /\ bid[o] = b /\ price[o] \in ToSet(levels[b]) /\ price[o] \in Prices
           /\ o \in ToSet(queue[b][price[o]])
<1>1. PICK p \in ToSet(levels[b]) : o \in ToSet(queue[b][p])
  BY DEF Resting
<1>2. p \in Prices
  <2>1. levels[b] \in Seq(Prices)
    BY DEF IInv, TypeOK
  <2> QED BY <1>1, <2>1, InToSet
<1>3. /\ o \in Orders /\ o \in Nat /\ o <= placed /\ (pc # "idle" => o # Taker)
      /\ bid[o] = b /\ price[o] = p /\ size[o] \in Nat
  <2>1. queue[b][p] \in Seq(Orders)
    BY <1>2 DEF IInv, TypeOK
  <2>2. o \in Orders
    BY <1>1, <2>1, InToSet
  <2>3. o \in Nat /\ size[o] \in Nat
    BY <2>2, OrdersAreNat DEF IInv, TypeOK
  <2>4. o <= placed /\ (pc # "idle" => o # Taker) /\ bid[o] = b /\ price[o] = p
    BY <1>1, <1>2 DEF IInv, QueueInv
  <2> QED BY <2>2, <2>3, <2>4
<1> QED BY <1>1, <1>2, <1>3

\* A fill takes from the order that has priority over all others of its side.
LEMMA FillKeepsPriority ==
    ASSUME IInv, FillOrder, NEW b \in BOOLEAN, NEW o \in Resting(b), NEW q \in Resting(b),
           size'[o] < size[o], Better(b, price[q], price[o]) \/ (price[q] = price[o] /\ q < o)
    PROVE  size'[q] = 0
<1> DEFINE line == queue[Opp][Target]
           maker == line[idx]
<1>1. InFill /\ pc = "fill" /\ pc # "idle"
  BY DEF InFill, FillOrder
<1>2. /\ idx \in DOMAIN line /\ maker \in ToSet(line) /\ maker \in Orders /\ maker # Taker
      /\ \A e \in Orders \ {maker, Taker} : size'[e] = size[e]
  BY FillSizes
<1>3. /\ at = 1 /\ Opp \in BOOLEAN /\ levels[Opp] \in Seq(Prices) /\ 1 \in DOMAIN levels[Opp]
      /\ Target \in Prices /\ line \in Seq(Orders)
  BY <1>1, FillPlace
<1>4. o = maker
  <2>1. o \in Orders /\ o # Taker /\ size[o] \in Nat
    BY <1>1, RestingOrders
  <2>2. o # maker => ~ (size'[o] < size[o])
    BY <1>2, <2>1
  <2> QED BY <2>2
<1>5. b = Opp /\ price[o] = Target
  <2>1. bid[maker] = Opp /\ price[maker] = Target
    BY <1>2, <1>3, QueueOrders
  <2>2. bid[o] = b
    BY RestingOrders
  <2> QED BY <1>4, <2>1, <2>2
\* No limit is better than the first.
<1>6. ~ Better(b, price[q], price[o])
  <2>1. price[q] \in ToSet(levels[Opp]) /\ price[q] \in Prices
    BY <1>5, RestingOrders
  <2>2. PICK j \in 1..Len(levels[Opp]) : levels[Opp][j] = price[q]
    BY <1>3, <2>1, InToSet
  <2>3. j \in DOMAIN levels[Opp] /\ Target = levels[Opp][1]
    BY <1>3, <2>2, InToSet DEF Target
  <2>4. j = 1 \/ Better(Opp, Target, price[q])
    BY <1>3, <2>2, <2>3 DEF IInv, LevelsAgree, BestFirst
  <2>5. Target \in Nat /\ price[q] \in Nat
    BY <1>3, <2>1
  <2> QED BY <1>5, <2>2, <2>3, <2>4, <2>5 DEF Better
\* Among the orders of the limit, the earlier ones are behind the index.
<1>7. price[q] = Target /\ q < o /\ q \in ToSet(line) /\ q \in Orders /\ q \in Nat /\ q # Taker
  BY <1>1, <1>5, <1>6, RestingOrders
<1>8. PICK j \in DOMAIN line : line[j] = q
  BY <1>3, <1>7, InToSet
<1>9. j \in Nat /\ idx \in Nat /\ j >= 1 /\ o \in Nat
  <2>1. DOMAIN line = 1..Len(line) /\ Len(line) \in Nat
    BY <1>3, InToSet
  <2> QED BY <1>2, <1>8, <2>1, RestingOrders
<1>10. ~ (idx < j) /\ idx # j
  <2>1. idx < j => line[idx] < line[j]
    BY <1>2, <1>3, <1>8 DEF IInv, QueueInv
  <2> QED BY <1>4, <1>7, <1>8, <1>9, <2>1
<1>11. size[q] = 0
  <2>1. j \in 1..(idx - 1)
    BY <1>9, <1>10
  <2> QED BY <1>1, <1>8, <2>1 DEF IInv, FillInv
<1>12. q # maker
  BY <1>4, <1>7, <1>9
<1> QED BY <1>2, <1>7, <1>11, <1>12

\* Price-time priority for every number of orders, prices and sizes: the loops of
\* the engine never fill an order while one with priority over it has anything left.
THEOREM PriorityKept == Spec => PriceTimePriority
<1> DEFINE Kept ==
      \A b \in BOOLEAN : \A o \in Resting(b) : size'[o] < size[o] =>
          \A q \in Resting(b) :
              Better(b, price[q], price[o]) \/ (price[q] = price[o] /\ q < o)
                  => size'[q] = 0
<1>1. ASSUME IInv, [Next]_vars PROVE Kept
  <2>1. CASE FillOrder
    BY <1>1, <2>1, FillKeepsPriority
  <2>2. ASSUME NEW b \in BOOLEAN, NEW p, NEW n, Receive(b, p, n) PROVE Kept
    <3>1. ASSUME NEW c \in BOOLEAN, NEW o \in Resting(c) PROVE ~ (size'[o] < size[o])
      <4>1. o \in Nat /\ o <= placed /\ size[o] \in Nat /\ placed \in Nat
        BY <1>1, RestingOrders DEF IInv, TypeOK
      <4>2. o # placed + 1 /\ size' = [size EXCEPT ![placed + 1] = n]
        BY <2>2, <4>1 DEF Receive
      <4>3. size'[o] = size[o]
        BY <1>1, <4>2, RestingOrders DEF IInv, TypeOK
      <4> QED BY <4>1, <4>3
    <3> QED BY <3>1
  <2>3. CASE size' = size
    <3>1. ASSUME NEW c \in BOOLEAN, NEW o \in Resting(c) PROVE ~ (size'[o] < size[o])
      BY <1>1, <2>3, RestingOrders
    <3> QED BY <3>1
  <2>4. CASE StartFill \/ DeleteFilled \/ EndFill \/ AddRestingLimitOrder \/ Return
    BY <2>3, <2>4 DEF StartFill, DeleteFilled, EndFill, AddRestingLimitOrder, Return
  <2>5. ASSUME NEW o \in Orders, CancelOrder(o) \/ CancelOrderByID(o) PROVE Kept
    BY <2>3, <2>5 DEF CancelOrder, CancelOrderByID
  <2>6. CASE UNCHANGED vars
    BY <2>3, <2>6 DEF vars
  <2>7. ASSUME NEW b \in BOOLEAN, NEW p \in Prices, NEW n \in Sizes, PlaceLimitOrder(b, p, n)
        PROVE  Kept
    BY <2>2, <2>7 DEF PlaceLimitOrder
  <2>8. ASSUME NEW b \in BOOLEAN, NEW n \in Sizes,
               PlaceMarketOrder(b, n) \/ PanicMarketOrder(b, n)
        PROVE  Kept
    BY <2>2, <2>8 DEF PlaceMarketOrder, PanicMarketOrder
  <2> HIDE DEF Kept
  <2> QED BY <1>1, <2>1, <2>4, <2>5, <2>6, <2>7, <2>8 DEF Next
<1> QED
  BY <1>1, Invariance, PTL DEF Spec, PriceTimePriority


-----------------------------------------------------------------------------
(* What a call has taken from the book it found.                            *)

\* Orders only shrink.
LEMMA NextGiven == IInv /\ GivenInv /\ [Next]_vars => GivenInv'
<1> SUFFICES ASSUME IInv, GivenInv, [Next]_vars PROVE GivenInv'
  OBVIOUS
<1>0. /\ placed \in Nat /\ size \in [Orders -> Nat] /\ given \in [Orders -> Nat]
      /\ 1..placed \subseteq Orders
  BY MaxOrdersAssumption DEF IInv, TypeOK, Orders
<1>1. ASSUME UNCHANGED <<placed, size, given>> PROVE GivenInv'
  BY <1>1 DEF GivenInv
<1>2. ASSUME NEW b, NEW p, NEW n \in Sizes, Receive(b, p, n) PROVE GivenInv'
  <2>1. placed' = placed + 1 /\ placed' \in Orders /\ n \in Nat
    BY <1>0, <1>2, SizesAssumption, MaxOrdersAssumption DEF Receive, Orders
  <2>2. size' = [size EXCEPT ![placed'] = n] /\ given' = [given EXCEPT ![placed'] = n]
    BY <1>2 DEF Receive
  <2> SUFFICES ASSUME NEW o \in 1..placed' PROVE given'[o] \in Sizes /\ size'[o] <= given'[o]
    BY DEF GivenInv
  <2>3. CASE o = placed'
    BY <1>0, <2>1, <2>2, <2>3
  <2>4. CASE o # placed'
    <3>1. o \in 1..placed /\ o \in Orders
      BY <1>0, <2>1, <2>4
    <3> QED BY <1>0, <2>2, <2>4, <3>1 DEF GivenInv
  <2> QED BY <2>3, <2>4
<1>3. CASE FillOrder
  <2> DEFINE maker == queue[Opp][Target][idx]
             filled == Minimum(size[maker], size[Taker])
  <2>1. /\ maker \in Orders /\ filled \in Nat
        /\ size'[maker] = size[maker] - filled /\ size'[Taker] = size[Taker] - filled
        /\ \A o \in Orders \ {maker, Taker} : size'[o] = size[o]
    BY <1>3, FillSizes
  <2> HIDE DEF maker, filled
  <2>2. ASSUME NEW o \in 1..placed PROVE size'[o] <= size[o] /\ size'[o] \in Int
    BY <1>0, <2>1
  <2>3. UNCHANGED <<placed, given>>
    BY <1>3 DEF FillOrder
  <2> SUFFICES ASSUME NEW o \in 1..placed PROVE given[o] \in Sizes /\ size'[o] <= given[o]
    BY <2>3 DEF GivenInv
  <2>4. given[o] \in Sizes /\ size[o] <= given[o] /\ size[o] \in Nat /\ given[o] \in Nat
    BY <1>0 DEF GivenInv
  <2> QED BY <2>2, <2>4
<1> QED BY <1>1, <1>2, <1>3 DEF Next, vars, PlaceLimitOrder, PlaceMarketOrder, PanicMarketOrder,
         StartFill, DeleteFilled, EndFill, AddRestingLimitOrder, Return, CancelOrder,
         CancelOrderByID

\* A call begins with everything to take.
LEMMA PlaceDepth ==
    ASSUME IInv, SumInv, NEW b \in BOOLEAN, NEW p, NEW n \in Sizes, Receive(b, p, n), StartLoop
    PROVE  DepthInv'
<1>1. /\ placed' \in Orders /\ Taker' = placed' /\ n \in Nat
      /\ UNCHANGED <<levels, volume>> /\ pc' = "loop"
  BY SizesAssumption, MaxOrdersAssumption DEF Receive, StartLoop, book, Taker, IInv, TypeOK, Orders
<1>2. bid'[Taker'] = b /\ Opp' = ~b /\ size'[Taker'] = n /\ given'[Taker'] = n
  BY <1>1 DEF Receive, Opp, IInv, TypeOK
<1>3. before'.depth = [s \in BOOLEAN |-> Depth(s)]
  BY DEF StartLoop
<1>4. /\ FoundLevels' = [q \in ToSet(levels[~b]) |-> volume[~b][q]] /\ (~b) \in BOOLEAN
      /\ before'.depth[bid'[Taker']] = Depth(bid[Taker])'
  <2>1. (~b) \in BOOLEAN
    OBVIOUS
  <2>2. before'.depth[~b] = Depth(~b) /\ before'.depth[b] = Depth(b)
    BY <1>3, <2>1
  <2>3. FoundLevels' = before'.depth[~b]
    BY <1>2 DEF FoundLevels
  <2>4. Depth(bid[Taker])' = [q \in ToSet(levels'[bid'[Taker']]) |-> volume'[bid'[Taker']][q]]
    BY DEF Depth
  <2>5. Depth(bid[Taker])' = [q \in ToSet(levels[b]) |-> volume[b][q]]
    BY <1>1, <1>2, <2>4
  <2> QED BY <1>2, <2>1, <2>2, <2>3, <2>5 DEF Depth
<1> DEFINE L == ToSet(levels[~b])
           D == FoundLevels'
<1>5. /\ IsFiniteSet(L) /\ L \subseteq Prices
      /\ \A q \in L : volume[~b][q] \in Nat
  BY <1>4, LevelsFinite DEF SumInv
<1>6. /\ DOMAIN D = L /\ \A q \in L : D[q] = volume[~b][q]
      /\ ToSet(levels'[Opp']) = L
  BY <1>1, <1>2, <1>4
<1>7. Gone' = {}
  BY <1>6 DEF Gone
<1>8. SumFunctionOnSet(D, DOMAIN D) = TotalVolume(Opp)' /\ TotalVolume(Opp)' \in Nat
  <2>1. TotalVolume(Opp)' = SumFunctionOnSet(volume[~b], L)
    BY <1>1, <1>2 DEF TotalVolume
  <2> HIDE DEF D, L
  <2>2. SumFunctionOnSet(D, L) = SumFunctionOnSet(volume[~b], L)
    <3>1. PICK g : g = volume[~b]
      OBVIOUS
    <3>2. \A q \in L : D[q] = g[q]
      BY <1>6, <3>1
    <3>3. IsFiniteSet(L)
      BY <1>5
    <3>4. SumFunctionOnSet(D, L) = SumFunctionOnSet(g, L)
      BY <3>2, <3>3, SumSame
    <3> QED BY <3>1, <3>4
  <2>3. SumFunctionOnSet(volume[~b], L) \in Nat
    BY <1>5, SumNat
  <2> QED BY <1>6, <2>1, <2>2, <2>3
<1>9. volume'[Opp'] = volume[~b] /\ ~ InFill'
  BY <1>1, <1>2 DEF InFill
<1> HIDE DEF L, D
<1>10. /\ \A q \in DOMAIN D : D[q] \in Nat
       /\ IsFiniteSet(DOMAIN D) /\ DOMAIN D \subseteq Prices
       /\ ToSet(levels'[Opp']) \subseteq DOMAIN D
       /\ \A q \in ToSet(levels'[Opp']) : volume'[Opp'][q] <= D[q] /\ volume'[Opp'][q] = D[q]
  <2>1. \A q \in L : volume'[Opp'][q] = D[q] /\ D[q] \in Nat
    BY <1>5, <1>6, <1>9
  <2>2. \A q \in L : volume'[Opp'][q] <= D[q]
    BY <2>1
  <2> QED BY <1>5, <1>6, <2>1, <2>2
<1>11. given'[Taker'] - size'[Taker'] = SumFunctionOnSet(D, DOMAIN D) - TotalVolume(Opp)'
  BY <1>1, <1>2, <1>8
<1>12. DOMAIN before'.depth = BOOLEAN
  BY <1>3
<1> HIDE DEF D
<1> QED BY <1>4, <1>7, <1>9, <1>10, <1>11, <1>12 DEF DepthInv, D

\* What stays as it is through the steps of a call.
LEMMA DuringCall ==
    ASSUME IInv, pc # "idle", UNCHANGED <<placed, bid, price, call, before, given>>,
           levels' \in [BOOLEAN -> Seq(Prices)], volume' \in [BOOLEAN -> [Prices -> Int]],
           levels'[bid[Taker]] = levels[bid[Taker]],
           \A q \in Prices : volume'[bid[Taker]][q] = volume[bid[Taker]][q]
    PROVE  /\ Taker' = Taker /\ Opp' = Opp /\ FoundLevels' = FoundLevels
           /\ Opp \in BOOLEAN /\ bid[Taker] \in BOOLEAN /\ Opp # bid[Taker] /\ Taker \in Orders
           /\ Depth(bid[Taker])' = Depth(bid[Taker])
           /\ \A q : InReach(q)' <=> InReach(q)
<1>1. /\ Taker' = Taker /\ Opp' = Opp /\ FoundLevels' = FoundLevels
      /\ \A q : InReach(q)' <=> InReach(q)
  BY DEF Taker, Opp, FoundLevels, InReach
<1>2. Taker \in Orders /\ bid \in [Orders -> BOOLEAN]
  BY DEF IInv, CallInv, Taker, TypeOK
<1>3. Opp \in BOOLEAN /\ bid[Taker] \in BOOLEAN /\ Opp # bid[Taker]
  BY <1>2 DEF Opp
<1>4. ToSet(levels[bid[Taker]]) \subseteq Prices
  BY <1>3, InToSet DEF IInv, TypeOK
<1>5. Depth(bid[Taker])' = [q \in ToSet(levels'[bid[Taker]]) |-> volume'[bid[Taker]][q]]
  BY <1>1 DEF Depth
<1>6. Depth(bid[Taker])' = [q \in ToSet(levels[bid[Taker]]) |-> volume[bid[Taker]][q]]
  BY <1>4, <1>5
<1> QED BY <1>1, <1>2, <1>3, <1>6 DEF Depth

LEMMA StartFillDepth == IInv /\ SumInv /\ DepthInv /\ StartFill => DepthInv'
<1> SUFFICES ASSUME IInv, SumInv, DepthInv, StartFill PROVE DepthInv'
  OBVIOUS
<1>1. /\ pc = "loop" /\ pc' \in {"fill", "delete"} /\ pc # "idle" /\ CanMatch
      /\ UNCHANGED <<placed, bid, price, size, levels, limits, volume, call, at, given, before>>
  BY DEF StartFill, book
<1>2. /\ Taker' = Taker /\ Opp' = Opp /\ FoundLevels' = FoundLevels
      /\ Depth(bid[Taker])' = Depth(bid[Taker])
      /\ \A q : InReach(q)' <=> InReach(q)
  BY <1>1, DuringCall DEF IInv, TypeOK
<1>3. Target' = Target /\ InReach(Target)
  BY <1>1, <1>2 DEF Target, CanMatch, InReach
<1>4. Gone' = Gone /\ TotalVolume(Opp)' = TotalVolume(Opp)
  BY <1>1, <1>2 DEF Gone, TotalVolume
<1>5. InReach(Target)'
  BY <1>1, <1>2, <1>3 DEF InReach
<1> QED BY <1>1, <1>2, <1>3, <1>4, <1>5 DEF DepthInv

\* A fill takes what the taker gets from the first level.
LEMMA FillOrderDepth == IInv /\ SumInv /\ DepthInv /\ FillOrder => DepthInv'
<1> SUFFICES ASSUME IInv, SumInv, DepthInv, FillOrder PROVE DepthInv'
  OBVIOUS
<1> DEFINE maker == queue[Opp][Target][idx]
           filled == Minimum(size[maker], size[Taker])
           P == ToSet(levels[Opp])
           V == volume[Opp]
           W == volume'[Opp]
<1>1. /\ InFill /\ pc # "idle" /\ pc' \in {"fill", "delete"}
      /\ UNCHANGED <<placed, bid, price, levels, limits, call, at, given, before>>
      /\ volume' = [volume EXCEPT ![Opp][Target] = @ - filled]
  BY DEF FillOrder, InFill
<1>2. filled \in Nat /\ size'[Taker] = size[Taker] - filled
  BY FillSizes
<1>3. /\ at = 1 /\ Target \in P /\ Target \in Prices /\ P \subseteq Prices
      /\ Opp \in BOOLEAN /\ Opp # bid[Taker] /\ Target = levels[Opp][1] /\ bid[Taker] \in BOOLEAN
  BY <1>1, FillPlace, InToSet DEF Target
<1> HIDE DEF filled
<1>4. /\ volume \in [BOOLEAN -> [Prices -> Int]] /\ volume' \in [BOOLEAN -> [Prices -> Int]]
      /\ volume'[bid[Taker]] = volume[bid[Taker]]
      /\ W[Target] = V[Target] - filled /\ \A q \in Prices \ {Target} : W[q] = V[q]
      /\ \A q \in Prices : V[q] \in Int /\ W[q] \in Int
  <2>1. volume \in [BOOLEAN -> [Prices -> Int]]
    BY DEF IInv, TypeOK
  <2> QED BY <1>1, <1>2, <1>3, <2>1
<1>5. /\ Taker' = Taker /\ Opp' = Opp /\ FoundLevels' = FoundLevels /\ Taker \in Orders
      /\ Depth(bid[Taker])' = Depth(bid[Taker])
      /\ \A q : InReach(q)' <=> InReach(q)
  BY <1>1, <1>4, DuringCall DEF IInv, TypeOK
<1>6. Target' = Target /\ Gone' = Gone
  BY <1>1, <1>5 DEF Target, Gone
<1>7. InReach(Target) /\ InReach(Target)'
  BY <1>1, <1>5, <1>6 DEF DepthInv, InReach
<1>8. TotalVolume(Opp)' = TotalVolume(Opp) - filled /\ TotalVolume(Opp) \in Int
  <2>1. IsFiniteSet(P) /\ \A q \in P : V[q] \in Int
    BY <1>3, <1>4, LevelsFinite DEF SumInv
  <2>2. W[Target] \in Int /\ \A q \in P \ {Target} : W[q] = V[q]
    BY <1>3, <1>4
  <2>3. TotalVolume(Opp) = SumFunctionOnSet(V, P) /\ TotalVolume(Opp)' = SumFunctionOnSet(W, P)
    BY <1>1, <1>5 DEF TotalVolume
  <2>4. Target \in P /\ V[Target] \in Int
    BY <1>3, <1>4
  <2> HIDE DEF P, V, W
  <2>5. SumFunctionOnSet(W, P) = SumFunctionOnSet(V, P) - V[Target] + W[Target]
    BY <2>1, <2>2, <2>4, SumChange
  <2>6. SumFunctionOnSet(V, P) \in Int
    BY <2>1, SumInt
  <2> QED BY <1>2, <1>4, <2>2, <2>3, <2>4, <2>5, <2>6
<1>9. ASSUME NEW q \in P
      PROVE  /\ W[q] <= FoundLevels[q]
             /\ W[q] # FoundLevels[q] => q = levels[Opp][1] /\ InReach(q)
  <2>1. /\ V[q] <= FoundLevels[q] /\ FoundLevels[q] \in Int /\ q \in Prices
        /\ V[q] # FoundLevels[q] => q = levels[Opp][1] /\ InReach(q)
    BY <1>1, <1>3 DEF DepthInv
  <2>2. CASE q = Target
    BY <1>2, <1>3, <1>4, <1>7, <2>1, <2>2
  <2>3. CASE q # Target
    BY <1>4, <2>1, <2>3
  <2> QED BY <2>2, <2>3
<1>10. given[Taker] - size'[Taker]
         = SumFunctionOnSet(FoundLevels, DOMAIN FoundLevels) - (TotalVolume(Opp) - filled)
  <2> DEFINE S == SumFunctionOnSet(FoundLevels, DOMAIN FoundLevels)
  <2>1. given[Taker] - size[Taker] = S - TotalVolume(Opp)
    BY <1>1 DEF DepthInv
  <2>2. S \in Int
    <3>1. IsFiniteSet(DOMAIN FoundLevels) /\ \A q \in DOMAIN FoundLevels : FoundLevels[q] \in Int
      BY <1>1 DEF DepthInv
    <3> QED BY <3>1, SumInt
  <2>3. given[Taker] \in Nat /\ size[Taker] \in Nat
    BY <1>5 DEF IInv, TypeOK
  <2> HIDE DEF S
  <2>4. given[Taker] - size'[Taker] = S - (TotalVolume(Opp) - filled)
    BY <1>2, <1>8, <2>1, <2>2, <2>3
  <2> QED BY <2>4 DEF S
<1> QED BY <1>1, <1>5, <1>6, <1>7, <1>8, <1>9, <1>10 DEF DepthInv

LEMMA DeleteFilledDepth == IInv /\ SumInv /\ DepthInv /\ DeleteFilled => DepthInv'
<1> SUFFICES ASSUME IInv, SumInv, DepthInv, DeleteFilled PROVE DepthInv'
  OBVIOUS
<1> DEFINE o == Head(toDelete)
<1>1. /\ InFill /\ pc = "delete" /\ pc' = "delete" /\ toDelete # <<>> /\ toDelete \in Seq(Orders)
      /\ UNCHANGED <<placed, bid, price, size, levels, limits, call, at, given, before>>
      /\ DeleteOrder(Opp, Target, o)
  BY DEF InFill, DeleteFilled, IInv, TypeOK
<1>2. o \in Orders /\ size[o] = 0
  <2>1. o = toDelete[1] /\ 1 \in DOMAIN toDelete
    BY <1>1, InToSet, HeadTailProperties
  <2>2. o \in ToSet(toDelete) /\ o \in Orders
    BY <1>1, <2>1, InToSet
  <2> QED BY <1>1, <2>2 DEF SumInv, ToDeleteInv
<1>3. Opp \in BOOLEAN /\ Target \in Prices
  BY <1>1, FillPlace
<1>4. volume' = volume
  <2>1. volume' = [volume EXCEPT ![Opp][Target] = @ - size[o]]
    BY <1>1 DEF DeleteOrder
  <2>2. volume \in [BOOLEAN -> [Prices -> Int]]
    BY DEF IInv, TypeOK
  <2> HIDE DEF o
  <2>3. volume[Opp][Target] - size[o] = volume[Opp][Target]
    BY <1>2, <1>3, <2>2
  <2> QED BY <1>3, <2>1, <2>2, <2>3
<1>5. /\ Taker' = Taker /\ Opp' = Opp /\ FoundLevels' = FoundLevels
      /\ Depth(bid[Taker])' = Depth(bid[Taker])
      /\ \A q : InReach(q)' <=> InReach(q)
  BY <1>1, <1>4, DuringCall DEF IInv, TypeOK
<1>6. Target' = Target /\ Gone' = Gone /\ TotalVolume(Opp)' = TotalVolume(Opp)
  BY <1>1, <1>4, <1>5 DEF Target, Gone, TotalVolume
<1>7. InReach(Target)'
  BY <1>1, <1>5, <1>6 DEF DepthInv, InReach
<1> HIDE DEF o
<1> QED BY <1>1, <1>4, <1>5, <1>6, <1>7 DEF DepthInv

\* Clearing a level that is used up moves it to those that are gone.
LEMMA ClearDepth ==
    ASSUME IInv, SumInv, DepthInv, EndFill, queue[Opp][Target] = <<>>
    PROVE  DepthInv'
<1> DEFINE P == ToSet(levels[Opp])
           Q == P \ {Target}
           V == volume[Opp]
<1>1. /\ InFill /\ pc = "delete" /\ pc' = "loop" /\ ~ InFill'
      /\ UNCHANGED <<placed, bid, price, size, queue, volume, call, at, given, before>>
      /\ ClearLimit(Opp, Target)
  BY DEF EndFill, InFill
<1>2. /\ at = 1 /\ Target \in P /\ Target \in limits[Opp] /\ P \subseteq Prices
      /\ Opp \in BOOLEAN /\ bid[Taker] \in BOOLEAN /\ Opp # bid[Taker] /\ Target = levels[Opp][1]
      /\ levels[Opp] \in Seq(Prices)
  BY <1>1, FillPlace, InToSet DEF Target
<1>3. /\ levels' \in [BOOLEAN -> Seq(Prices)] /\ limits'[Opp] = limits[Opp] \ {Target}
      /\ LevelsAgree'
  BY <1>1, <1>2, ClearLimitFacts
<1>4. /\ ToSet(levels'[Opp]) = Q
      /\ levels'[bid[Taker]] = levels[bid[Taker]]
  <2>1. ToSet(levels'[Opp]) = limits'[Opp] /\ ToSet(levels[Opp]) = limits[Opp]
    BY <1>2, <1>3 DEF LevelsAgree, IInv
  <2>2. levels' = [levels EXCEPT ![Opp] = Without(@, Target)] /\ levels \in [BOOLEAN -> Seq(Prices)]
    BY <1>1 DEF ClearLimit, IInv, TypeOK
  <2> QED BY <1>2, <1>3, <2>1, <2>2
<1>5. /\ Taker' = Taker /\ Opp' = Opp /\ FoundLevels' = FoundLevels
      /\ Depth(bid[Taker])' = Depth(bid[Taker])
      /\ \A q : InReach(q)' <=> InReach(q)
  BY <1>1, <1>3, <1>4, DuringCall DEF IInv, TypeOK
<1>6. \A q \in Q : Better(Opp, Target, q) /\ q # levels[Opp][1]
  <2> SUFFICES ASSUME NEW q \in Q PROVE Better(Opp, Target, q)
    BY <1>2
  <2>1. PICK k \in DOMAIN levels[Opp] : levels[Opp][k] = q
    BY <1>2, InToSet
  <2>2. k # 1 /\ 1 \in DOMAIN levels[Opp] /\ DOMAIN levels[Opp] \subseteq Nat \ {0}
    BY <1>2, <2>1, InToSet
  <2>3. BestFirst(Opp, levels[Opp])
    BY <1>2 DEF IInv, LevelsAgree
  <2> QED BY <1>2, <2>1, <2>2, <2>3 DEF BestFirst
<1>7. TotalVolume(Opp)' = TotalVolume(Opp)
  <2>1. IsFiniteSet(P) /\ \A q \in P : V[q] \in Int
    BY <1>2, LevelsFinite DEF SumInv
  <2>2. V[Target] = 0
    <3>1. Target \in Prices
      BY <1>2
    <3>2. V[Target] = SumFunctionOnSet(size, ToSet(queue[Opp][Target]))
      BY <1>2, <3>1 DEF SumInv, VolumeInv
    <3> QED BY <3>2, EmptySequence, SumEmpty
  <2>3. TotalVolume(Opp) = SumFunctionOnSet(V, P) /\ TotalVolume(Opp)' = SumFunctionOnSet(V, Q)
    BY <1>1, <1>4, <1>5 DEF TotalVolume
  <2>4. IsFiniteSet(Q) /\ \A q \in Q : V[q] \in Int
    BY <2>1, FS_Subset
  <2>5. SumFunctionOnSet(V, P) = V[Target] + SumFunctionOnSet(V, P \ {Target})
    <3>1. Target \in P
      BY <1>2
    <3> HIDE DEF P, V
    <3> QED BY <2>1, <3>1, SumRemove
  <2>6. SumFunctionOnSet(V, Q) \in Int
    <3> HIDE DEF Q, V
    <3> QED BY <2>4, SumInt
  <2> QED BY <2>2, <2>3, <2>5, <2>6
<1>8. Gone' \subseteq Gone \cup {Target}
  BY <1>4, <1>5 DEF Gone
<1>9. ASSUME NEW g \in Gone' PROVE InReach(g) /\ \A q \in Q : Better(Opp, g, q)
  <2>1. g = Target \/ g \in Gone
    BY <1>8
  <2>2. CASE g = Target
    BY <1>1, <1>6, <2>2 DEF DepthInv
  <2>3. CASE g \in Gone
    BY <1>1, <2>3 DEF DepthInv
  <2> QED BY <2>1, <2>2, <2>3
<1>10. \A q \in Q : V[q] <= FoundLevels[q] /\ V[q] = FoundLevels[q]
  BY <1>1, <1>6 DEF DepthInv
<1>11. Q \subseteq DOMAIN FoundLevels
  BY <1>1 DEF DepthInv
<1> HIDE DEF P, Q
<1>12. V = volume'[Opp']
  BY <1>1, <1>5
<1> HIDE DEF V
<1> QED BY <1>1, <1>4, <1>5, <1>7, <1>9, <1>10, <1>11, <1>12 DEF DepthInv

LEMMA EndFillDepth == IInv /\ SumInv /\ DepthInv /\ EndFill => DepthInv'
<1> SUFFICES ASSUME IInv, SumInv, DepthInv, EndFill, queue[Opp][Target] # <<>> PROVE DepthInv'
  BY ClearDepth
<1>1. /\ InFill /\ pc = "delete" /\ pc' = "loop" /\ ~ InFill' /\ toDelete = <<>>
      /\ UNCHANGED <<placed, bid, price, size, levels, volume, call, given, before>>
  BY DEF EndFill, InFill
<1>2. /\ Taker' = Taker /\ Opp' = Opp /\ FoundLevels' = FoundLevels
      /\ Depth(bid[Taker])' = Depth(bid[Taker]) /\ Opp \in BOOLEAN /\ Taker \in Orders
      /\ \A q : InReach(q)' <=> InReach(q)
  BY <1>1, DuringCall DEF IInv, TypeOK
<1>3. Gone' = Gone /\ TotalVolume(Opp)' = TotalVolume(Opp)
  BY <1>1, <1>2 DEF Gone, TotalVolume
<1>4. size[Taker] = 0
  <2>0. Target \in Prices
    BY <1>1, FillPlace
  <2>1. PICK o : o \in ToSet(queue[Opp][Target])
    BY <1>2, <2>0, QueueOrders, InToSet
  <2>2. size[o] = 0 => o \in ToSet(toDelete)
    BY <1>2, <2>0, <2>1 DEF IInv, SpentInv
  <2>3. size[o] # 0
    BY <1>1, <2>2, EmptySequence
  <2>4. size[Taker] \in Nat
    BY <1>2 DEF IInv, TypeOK
  <2> QED BY <1>1, <2>1, <2>3, <2>4 DEF IInv, FillInv
<1> QED BY <1>1, <1>2, <1>3, <1>4 DEF DepthInv

LEMMA NextDepth == IInv /\ SumInv /\ DepthInv /\ [Next]_vars => DepthInv'
<1> SUFFICES ASSUME IInv, SumInv, DepthInv, [Next]_vars PROVE DepthInv'
  OBVIOUS
<1>1. ASSUME NEW b \in BOOLEAN, NEW p \in Prices, NEW n \in Sizes, PlaceLimitOrder(b, p, n)
      PROVE  DepthInv'
  BY <1>1, PlaceDepth DEF PlaceLimitOrder
<1>2. ASSUME NEW b \in BOOLEAN, NEW n \in Sizes, PlaceMarketOrder(b, n) PROVE DepthInv'
  BY <1>2, PlaceDepth DEF PlaceMarketOrder
<1>3. ASSUME pc' = "idle" PROVE DepthInv'
  BY <1>3 DEF DepthInv
<1>4. ASSUME NEW b \in BOOLEAN, NEW n \in Sizes, PanicMarketOrder(b, n) PROVE DepthInv'
  BY <1>3, <1>4 DEF PanicMarketOrder, Receive
<1>5. CASE AddRestingLimitOrder \/ Return
  BY <1>3, <1>5 DEF AddRestingLimitOrder, Return
<1>6. ASSUME NEW o \in Orders, CancelOrder(o) \/ CancelOrderByID(o) PROVE DepthInv'
  BY <1>3, <1>6 DEF CancelOrder, CancelOrderByID
<1>7. CASE UNCHANGED vars
  BY <1>7 DEF vars, book, loopv, DepthInv, FoundLevels, Gone, InReach, InFill, Opp, Target, Taker,
            Depth, TotalVolume
<1> QED BY <1>1, <1>2, <1>4, <1>5, <1>6, <1>7, StartFillDepth, FillOrderDepth, DeleteFilledDepth,
           EndFillDepth DEF Next

-----------------------------------------------------------------------------
(* What a call has matched of the orders it found.                          *)

\* The pairs of orders of which the first goes before the second on side b.
InFront(b) == {e \in Orders \X Orders : Before(b, e[1], e[2])}

LEMMA InFrontIs ==
    ASSUME IInv, NEW b \in BOOLEAN
    PROVE  /\ Asymmetric(InFront(b))
           /\ \A o, q \in Orders : <<o, q>> \in InFront(b) <=> Before(b, o, q)
<1>1. \A o, q \in Orders : <<o, q>> \in InFront(b) <=> Before(b, o, q)
  BY DEF InFront
<1>2. ASSUME NEW o \in Orders, NEW q \in Orders, Before(b, o, q) PROVE ~ Before(b, q, o)
  <2>1. o \in Nat /\ q \in Nat /\ price[o] \in Nat /\ price[q] \in Nat
    BY OrdersAreNat DEF IInv, TypeOK
  <2> QED BY <1>2, <2>1 DEF Before, Better
<1>3. \A o, q : <<o, q>> \in InFront(b) => o \in Orders /\ q \in Orders
  BY DEF InFront
<1> QED BY <1>1, <1>2, <1>3 DEF Asymmetric

\* A side in order: the orders that rest, each of them once.
LEMMA InOrderFacts ==
    ASSUME IInv, NEW b \in BOOLEAN
    PROVE  /\ InOrder(b) \in Seq(Orders) /\ ToSet(InOrder(b)) = Resting(b)
           /\ Ordered(InOrder(b), InFront(b))
<1> DEFINE L == levels[b]
           s == [k \in DOMAIN L |-> queue[b][L[k]]]
<1>1. /\ L \in Seq(Prices) /\ DOMAIN L = 1..Len(L) /\ Len(L) \in Nat
      /\ \A k \in DOMAIN L : L[k] \in Prices
  BY InToSet DEF IInv, TypeOK
<1>2. \A k \in DOMAIN L : queue[b][L[k]] \in Seq(Orders)
  BY <1>1, QueueOrders
<1>3. s \in Seq(Seq(Orders)) /\ DOMAIN s = DOMAIN L /\ \A k \in DOMAIN L : s[k] = queue[b][L[k]]
  BY <1>1, <1>2
<1>4. ASSUME NEW k \in DOMAIN L PROVE Ordered(queue[b][L[k]], InFront(b))
  <2> DEFINE q == queue[b][L[k]]
  <2>1. L[k] \in Prices
    BY <1>1
  <2>2. \A j \in DOMAIN q : q[j] \in Orders /\ price[q[j]] = L[k]
    BY <2>1, QueueOrders
  <2>3. \A i, j \in DOMAIN q : i < j => q[i] < q[j]
    BY <2>1 DEF IInv, QueueInv
  <2> QED BY <2>2, <2>3, InFrontIs DEF Ordered, Before
<1>5. ASSUME NEW k \in DOMAIN L, NEW l \in DOMAIN L, k < l,
             NEW x \in ToSet(queue[b][L[k]]), NEW y \in ToSet(queue[b][L[l]])
      PROVE  <<x, y>> \in InFront(b)
  <2>1. /\ L[k] \in Prices /\ L[l] \in Prices /\ Better(b, L[k], L[l])
    BY <1>1, <1>5 DEF IInv, LevelsAgree, BestFirst
  <2>2. \A p \in Prices : \A o \in ToSet(queue[b][p]) : o \in Orders /\ price[o] = p
    BY QueueOrders
  <2>3. x \in Orders /\ y \in Orders /\ price[x] = L[k] /\ price[y] = L[l]
    BY <2>1, <2>2
  <2> QED BY <2>1, <2>3, InFrontIs DEF Before
<1>6. InOrder(b) = FlattenSeq(s)
  BY DEF InOrder
<1> HIDE DEF s
<1>7. /\ FlattenSeq(s) \in Seq(Orders) /\ Ordered(FlattenSeq(s), InFront(b))
      /\ ToSet(FlattenSeq(s)) = UNION {ToSet(s[k]) : k \in DOMAIN s}
  <2>1. \A k \in DOMAIN s : Ordered(s[k], InFront(b))
    BY <1>3, <1>4
  <2>2. \A k, l \in DOMAIN s : k < l =>
           \A x \in ToSet(s[k]), y \in ToSet(s[l]) : <<x, y>> \in InFront(b)
    BY <1>3, <1>5
  <2> QED BY <1>3, <2>1, <2>2, FlattenProperties
<1>8. UNION {ToSet(s[k]) : k \in DOMAIN s} = Resting(b)
  <2>1. ASSUME NEW o \in Resting(b) PROVE \E k \in DOMAIN s : o \in ToSet(s[k])
    <3>1. PICK p \in ToSet(L) : o \in ToSet(queue[b][p])
      BY DEF Resting
    <3>2. PICK k \in DOMAIN L : L[k] = p
      BY <1>1, <3>1, InToSet
    <3> QED BY <1>3, <3>1, <3>2
  <2>2. ASSUME NEW k \in DOMAIN s, NEW o \in ToSet(s[k]) PROVE o \in Resting(b)
    <3>1. L[k] \in ToSet(L)
      BY <1>1, <1>3, InToSet
    <3> QED BY <1>3, <2>2, <3>1 DEF Resting
  <2> QED BY <2>1, <2>2
<1> QED BY <1>6, <1>7, <1>8

\* A call begins with the orders that rest, none of them matched.
LEMMA PlaceMatch ==
    ASSUME IInv, MatchInv, NEW b \in BOOLEAN, NEW p \in Nat, NEW n \in Sizes,
           Receive(b, p, n), StartLoop, call' = "market" => p = 0
    PROVE  MatchInv'
<1>1. /\ pc = "idle" /\ pc' = "loop" /\ placed' = placed + 1 /\ placed \in Nat /\ placed' \in Orders
      /\ Taker' = placed' /\ n \in Nat /\ UNCHANGED <<levels, queue>> /\ matches' = <<>>
      /\ bid' = [bid EXCEPT ![placed'] = b] /\ price' = [price EXCEPT ![placed'] = p]
      /\ size' = [size EXCEPT ![placed'] = n] /\ given' = [given EXCEPT ![placed'] = n]
  BY SizesAssumption, MaxOrdersAssumption DEF Receive, StartLoop, book, Taker, IInv, TypeOK, Orders
<1>2. /\ bid \in [Orders -> BOOLEAN] /\ price \in [Orders -> Nat] /\ size \in [Orders -> Nat]
      /\ given \in [Orders -> Nat]
  BY DEF IInv, TypeOK
<1>3. /\ bid'[Taker'] = b /\ Opp' = ~b /\ (~b) \in BOOLEAN
      /\ given'[Taker'] = n /\ size'[Taker'] = n /\ price'[Taker'] = p
      /\ \A o \in Orders : o # placed' => bid'[o] = bid[o] /\ price'[o] = price[o] /\ size'[o] = size[o]
  BY <1>1, <1>2 DEF Opp
<1>4. \A s : InOrder(s)' = InOrder(s) /\ Resting(s)' = Resting(s)
  BY <1>1 DEF InOrder, Resting
<1>5. before'.book = [s \in BOOLEAN |-> InOrder(s)] /\ before'.size = size
  BY DEF StartLoop
<1>6. Found' = InOrder(~b) /\ before'.book[b] = InOrder(b)
  BY <1>3, <1>5 DEF Found
<1>7. /\ InOrder(~b) \in Seq(Orders) /\ ToSet(InOrder(~b)) = Resting(~b)
      /\ Ordered(InOrder(~b), InFront(~b))
      /\ \A j \in DOMAIN InOrder(~b) : InOrder(~b)[j] \in Resting(~b)
  <2>1. /\ InOrder(~b) \in Seq(Orders) /\ ToSet(InOrder(~b)) = Resting(~b)
        /\ Ordered(InOrder(~b), InFront(~b))
    BY <1>3, InOrderFacts
  <2> QED BY <2>1, InToSet
<1>8. \A o \in Resting(~b) : /\ o \in Orders /\ o <= placed /\ o # placed' /\ bid[o] = ~b
                             /\ price[o] \in Prices /\ size[o] > 0 /\ size'[o] = size[o]
  <2> SUFFICES ASSUME NEW o \in Resting(~b) PROVE
         /\ o \in Orders /\ o <= placed /\ o # placed' /\ bid[o] = ~b
         /\ price[o] \in Prices /\ size[o] > 0 /\ size'[o] = size[o]
    OBVIOUS
  <2>1. /\ o \in Orders /\ o \in Nat /\ o <= placed /\ bid[o] = ~b /\ price[o] \in Prices
        /\ size[o] \in Nat /\ o \in ToSet(queue[~b][price[o]])
    BY <1>3, RestingOrders
  <2>2. size[o] # 0
    BY <1>1, <1>3, <2>1 DEF IInv, SpentInv, InFill
  <2> QED BY <1>1, <1>3, <2>1, <2>2
<1>9. UnusedInv'
  BY <1>1, <1>3, OrdersAreNat DEF MatchInv, UnusedInv
<1>10. FoundInv'
  <2>1. ASSUME NEW j \in DOMAIN InOrder(~b), NEW k \in DOMAIN InOrder(~b), j < k
        PROVE  Before(~b, InOrder(~b)[j], InOrder(~b)[k])'
    <3>1. Before(~b, InOrder(~b)[j], InOrder(~b)[k])
      BY <1>3, <1>7, <1>8, <2>1, InFrontIs DEF Ordered
    <3>2. /\ price'[InOrder(~b)[j]] = price[InOrder(~b)[j]]
          /\ price'[InOrder(~b)[k]] = price[InOrder(~b)[k]]
      BY <1>3, <1>7, <1>8
    <3>3. \A x, y : price'[x] = price[x] /\ price'[y] = price[y] /\ Before(~b, x, y) =>
             Better(~b, price'[x], price'[y]) \/ (price'[x] = price'[y] /\ x < y)
      BY DEF Before
    <3>4. InOrder(~b)' = InOrder(~b)
      BY <1>4
    <3> QED BY <3>1, <3>2, <3>3, <3>4 DEF Before, Better
  <2>2. \A o \in ToSet(Found') :
           /\ o < placed' /\ bid'[o] = Opp' /\ price'[o] \in Prices /\ before'.size[o] > 0
           /\ size'[o] > 0 => o \in Resting(Opp)'
    <3> SUFFICES ASSUME NEW o \in Resting(~b)
                 PROVE  /\ o < placed' /\ bid'[o] = ~b /\ price'[o] \in Prices /\ size[o] > 0
      BY <1>3, <1>4, <1>5, <1>6, <1>7
    <3>1. /\ o \in Orders /\ o <= placed /\ o # placed' /\ bid[o] = ~b
          /\ price[o] \in Prices /\ size[o] > 0
      BY <1>8
    <3>2. o < placed'
      BY <1>1, <3>1, OrdersAreNat
    <3> QED BY <1>3, <3>1, <3>2
  <2>3. \A o \in Orders \ (ToSet(Found') \cup {Taker'}) : size'[o] = before'.size[o]
    BY <1>1, <1>3, <1>5
  <2> QED BY <1>1, <1>2, <1>3, <1>4, <1>5, <1>6, <1>7, <2>1, <2>2, <2>3 DEF FoundInv
<1>11. FilledInv'
  <2>1. DOMAIN matches' = {} /\ Len(matches') = 0
    BY <1>1, EmptySequence
  <2>2. SumFunctionOnSet([i \in DOMAIN matches' |-> matches'[i].size], DOMAIN matches') = 0
    BY <2>1, SumEmpty
  <2>3. ASSUME NEW i \in DOMAIN Found'
        PROVE  ~ (i <= Len(matches')) /\ size'[Found'[i]] = before'.size[Found'[i]]
    <3>1. i \in Nat \ {0} /\ Found'[i] \in Resting(~b)
      BY <1>6, <1>7, <2>3, InToSet
    <3> QED BY <1>5, <1>8, <2>1, <3>1
  <2>4. Len(Found') \in Nat
    BY <1>6, <1>7, InToSet
  <2>5. given'[Taker'] - size'[Taker'] = 0
    BY <1>1, <1>3
  <2> QED BY <1>1, <2>1, <2>2, <2>3, <2>4, <2>5 DEF FilledInv
<1> QED BY <1>9, <1>10, <1>11 DEF MatchInv

\* What a call does not change while it looks for its next match.
LEMMA KeptMatch ==
    ASSUME IInv, MatchInv, pc # "idle", pc' # "idle",
           UNCHANGED <<placed, bid, price, size, call, matches, given, before>>,
           levels'[bid[Taker]] = levels[bid[Taker]], queue'[bid[Taker]] = queue[bid[Taker]],
           Resting(Opp)' \subseteq Resting(Opp),
           \A o \in Resting(Opp) : size[o] > 0 => o \in Resting(Opp)',
           pc' = "fill" => size[Taker] > 0 /\ toDelete' = <<>>
    PROVE  MatchInv'
<1>1. /\ Taker' = Taker /\ Opp' = Opp /\ Found' = Found
      /\ \A q : InReach(q)' <=> InReach(q)
      /\ \A i : FilledInTurn(i)' <=> FilledInTurn(i)
      /\ \A s, o, q : Before(s, o, q)' <=> Before(s, o, q)
  BY DEF Taker, Opp, Found, InReach, FilledInTurn, Before, Better
<1>2. InOrder(bid[Taker])' = InOrder(bid[Taker])
  <2>1. \A s : levels'[s] = levels[s] /\ queue'[s] = queue[s] =>
           FlattenSeq([k \in DOMAIN levels'[s] |-> queue'[s][levels'[s][k]]]) = InOrder(s)
    BY DEF InOrder
  <2> QED BY <1>1, <2>1 DEF InOrder
<1>3. UnusedInv'
  BY DEF MatchInv, UnusedInv
<1>4. FoundInv'
  BY <1>1, <1>2 DEF MatchInv, FoundInv
<1>5. FilledInv'
  <2>1. pc' = "fill" => ToSet(toDelete') = {}
    BY EmptySequence
  <2> QED BY <1>1, <2>1 DEF MatchInv, FilledInv
<1> QED BY <1>3, <1>4, <1>5 DEF MatchInv

LEMMA StartFillMatch == IInv /\ MatchInv /\ StartFill => MatchInv'
<1> SUFFICES ASSUME IInv, MatchInv, StartFill PROVE MatchInv'
  OBVIOUS
<1>1. /\ pc # "idle" /\ pc' # "idle" /\ toDelete' = <<>> /\ CanMatch
      /\ UNCHANGED <<placed, bid, price, size, levels, queue, call, matches, given, before>>
  BY DEF StartFill, book
<1>2. size[Taker] > 0
  BY <1>1 DEF CanMatch
<1>3. Opp' = Opp /\ Resting(Opp)' = Resting(Opp)
  BY <1>1 DEF Opp, Taker, Resting
<1> QED BY <1>1, <1>2, <1>3, KeptMatch

\* Only orders that are used up leave the other side during a call.
LEMMA DeleteFilledMatch == IInv /\ SumInv /\ MatchInv /\ DeleteFilled => MatchInv'
<1> SUFFICES ASSUME IInv, SumInv, MatchInv, DeleteFilled PROVE MatchInv'
  OBVIOUS
<1> DEFINE o == Head(toDelete)
<1>1. /\ InFill /\ pc = "delete" /\ pc' = "delete" /\ toDelete # <<>> /\ toDelete \in Seq(Orders)
      /\ UNCHANGED <<placed, bid, price, size, levels, limits, call, matches, given, before>>
      /\ DeleteOrder(Opp, Target, o)
  BY DEF InFill, DeleteFilled, IInv, TypeOK
<1>2. o \in Orders /\ size[o] = 0
  <2>1. o = toDelete[1] /\ 1 \in DOMAIN toDelete
    BY <1>1, InToSet, HeadTailProperties
  <2>2. o \in ToSet(toDelete) /\ o \in Orders
    BY <1>1, <2>1, InToSet
  <2> QED BY <1>1, <2>2 DEF SumInv, ToDeleteInv
<1>3. /\ Opp \in BOOLEAN /\ Target \in Prices /\ bid[Taker] \in BOOLEAN /\ Opp # bid[Taker]
      /\ levels[Opp] \in Seq(Prices)
  BY <1>1, FillPlace
<1>4. queue' = [queue EXCEPT ![Opp][Target] = Without(@, o)]
  BY <1>1 DEF DeleteOrder
<1> HIDE DEF o
<1>5. /\ queue \in [BOOLEAN -> [Prices -> Seq(Orders)]]
      /\ \A q \in ToSet(levels[Opp]) : q \in Prices
  BY <1>3, InToSet DEF IInv, TypeOK
<1>6. queue'[bid[Taker]] = queue[bid[Taker]]
  BY <1>3, <1>4, <1>5
<1>7. \A q \in Prices : /\ ToSet(queue'[Opp][q]) \subseteq ToSet(queue[Opp][q])
                        /\ ToSet(queue[Opp][q]) \ {o} \subseteq ToSet(queue'[Opp][q])
  <2> SUFFICES ASSUME NEW q \in Prices
               PROVE  /\ ToSet(queue'[Opp][q]) \subseteq ToSet(queue[Opp][q])
                      /\ ToSet(queue[Opp][q]) \ {o} \subseteq ToSet(queue'[Opp][q])
    OBVIOUS
  <2>1. CASE q = Target
    <3>1. queue'[Opp][q] = Without(queue[Opp][q], o) /\ queue[Opp][q] \in Seq(Orders)
      BY <1>3, <1>4, <1>5, <2>1
    <3> QED BY <3>1, WithoutProperties
  <2>2. CASE q # Target
    BY <1>3, <1>4, <1>5, <2>2
  <2> QED BY <2>1, <2>2
<1>8. Opp' = Opp /\ Resting(Opp)' = UNION {ToSet(queue'[Opp][q]) : q \in ToSet(levels[Opp])}
  BY <1>1 DEF Opp, Taker, Resting
<1>9. Resting(Opp)' \subseteq Resting(Opp)
  <2> SUFFICES ASSUME NEW x \in Resting(Opp)' PROVE x \in Resting(Opp)
    OBVIOUS
  <2>1. PICK q \in ToSet(levels[Opp]) : x \in ToSet(queue'[Opp][q])
    BY <1>8
  <2>2. x \in ToSet(queue[Opp][q])
    BY <1>5, <1>7, <2>1
  <2> QED BY <2>1, <2>2 DEF Resting
<1>10. \A x \in Resting(Opp) : size[x] > 0 => x \in Resting(Opp)'
  <2> SUFFICES ASSUME NEW x \in Resting(Opp), size[x] > 0 PROVE x \in Resting(Opp)'
    OBVIOUS
  <2>1. PICK q \in ToSet(levels[Opp]) : x \in ToSet(queue[Opp][q])
    BY DEF Resting
  <2>2. x # o
    BY <1>2
  <2>3. x \in ToSet(queue'[Opp][q])
    BY <1>5, <1>7, <2>1, <2>2
  <2> QED BY <1>8, <2>1, <2>3
<1> QED BY <1>1, <1>6, <1>9, <1>10, KeptMatch

LEMMA EndFillMatch == IInv /\ MatchInv /\ EndFill => MatchInv'
<1> SUFFICES ASSUME IInv, MatchInv, EndFill PROVE MatchInv'
  OBVIOUS
<1>1. /\ InFill /\ pc = "delete" /\ pc' = "loop"
      /\ UNCHANGED <<placed, bid, price, size, queue, call, matches, given, before>>
  BY DEF InFill, EndFill
<1>2. /\ Opp \in BOOLEAN /\ Target \in Prices /\ bid[Taker] \in BOOLEAN /\ Opp # bid[Taker]
      /\ levels[Opp] \in Seq(Prices) /\ Target \in limits[Opp]
  BY <1>1, FillPlace
<1>3. Opp' = Opp /\ Resting(Opp)' = UNION {ToSet(queue[Opp][q]) : q \in ToSet(levels'[Opp])}
  BY <1>1 DEF Opp, Taker, Resting
<1>4. CASE queue[Opp][Target] # <<>>
  <2>1. levels' = levels
    BY <1>4 DEF EndFill
  <2> QED BY <1>1, <1>3, <2>1, KeptMatch DEF Resting
<1>5. CASE queue[Opp][Target] = <<>>
  <2>1. ClearLimit(Opp, Target)
    BY <1>5 DEF EndFill
  <2>2. /\ ToSet(Without(levels[Opp], Target)) \subseteq ToSet(levels[Opp])
        /\ ToSet(levels[Opp]) \ {Target} \subseteq ToSet(Without(levels[Opp], Target))
    BY <1>2, WithoutProperties
  <2>3. levels' = [levels EXCEPT ![Opp] = Without(@, Target)] /\ levels \in [BOOLEAN -> Seq(Prices)]
    BY <2>1 DEF ClearLimit, IInv, TypeOK
  <2>4. levels'[bid[Taker]] = levels[bid[Taker]] /\ levels'[Opp] = Without(levels[Opp], Target)
    BY <1>2, <2>3
  <2>5. Resting(Opp)' = Resting(Opp)
    <3>1. ToSet(queue[Opp][Target]) = {}
      BY <1>5, EmptySequence
    <3> QED BY <1>3, <2>2, <2>4, <3>1 DEF Resting
  <2> QED BY <1>1, <2>4, <2>5, KeptMatch
<1> QED BY <1>4, <1>5

Matched == [maker : Orders, price : Prices, size : Nat]

\* What one more match adds.
LEMMA MatchedSum ==
    ASSUME NEW s \in Seq(Matched), NEW e \in Matched,
           NEW f, \A i \in DOMAIN s : f[i] = s[i].size,
           NEW g, \A i \in DOMAIN Append(s, e) : g[i] = Append(s, e)[i].size
    PROVE  /\ SumFunctionOnSet(f, DOMAIN s) \in Int
           /\ SumFunctionOnSet(g, DOMAIN Append(s, e)) = SumFunctionOnSet(f, DOMAIN s) + e.size
<1>0. PICK t : t = Append(s, e)
  OBVIOUS
<1> DEFINE N == Len(s)
<1>1. /\ DOMAIN s = 1..N /\ N \in Nat
      /\ \A i \in DOMAIN s : s[i] \in Matched /\ s[i].size \in Int
  <2>1. \A x \in Matched : x.size \in Int
    BY DEF Matched
  <2> QED BY <2>1, InToSet
<1>2. t \in Seq(Matched) /\ Len(t) = N + 1 /\ (\A i \in 1..N : t[i] = s[i]) /\ t[N + 1] = e
  BY <1>0, <1>1, AppendProperties
<1>3. DOMAIN t = 1..(N + 1)
  BY <1>2, InToSet
<1> HIDE DEF N
<1>4. 1..(N + 1) = (1..N) \cup {N + 1} /\ N + 1 \notin 1..N
  BY <1>1
<1>5. /\ \A i \in 1..N : f[i] \in Int /\ g[i] = f[i]
      /\ g[N + 1] = e.size /\ g[N + 1] \in Int
  <2>1. \A i \in DOMAIN t : g[i] = t[i].size
    BY <1>0
  <2>2. e.size \in Int
    BY DEF Matched
  <2> QED BY <1>1, <1>2, <1>3, <1>4, <2>1, <2>2
<1>6. PICK U : U = 1..N
  OBVIOUS
<1>7. PICK x : x = N + 1
  OBVIOUS
<1>8. IsFiniteSet(U) /\ DOMAIN s = U /\ DOMAIN t = U \cup {x} /\ x \notin U
  <2>1. IsFiniteSet(1..N)
    BY <1>1, FS_Interval
  <2> QED BY <1>1, <1>3, <1>4, <1>6, <1>7, <2>1
<1>9. g[x] = e.size /\ g[x] \in Int /\ \A y \in U : f[y] \in Int /\ g[y] = f[y]
  BY <1>5, <1>6, <1>7
<1>10. SumFunctionOnSet(f, U) \in Int
  BY <1>8, <1>9, SumInt
<1>11. SumFunctionOnSet(g, U) = SumFunctionOnSet(f, U)
  <2>1. IsFiniteSet(U) /\ \A y \in U : g[y] = f[y]
    BY <1>8, <1>9
  <2> QED BY <2>1, SumSame
<1>12. SumFunctionOnSet(g, U \cup {x}) = g[x] + SumFunctionOnSet(g, U)
  <2>1. IsFiniteSet(U) /\ x \notin U /\ \A y \in U \cup {x} : g[y] \in Int
    BY <1>8, <1>9
  <2> QED BY <2>1, SumAdd
<1>13. SumFunctionOnSet(g, U \cup {x}) = SumFunctionOnSet(f, U) + e.size
  BY <1>9, <1>10, <1>11, <1>12
<1> QED BY <1>0, <1>8, <1>10, <1>13

\* What a call found, typed and in order.
LEMMA FoundIs ==
    ASSUME IInv, FoundInv, pc # "idle"
    PROVE  /\ Opp \in BOOLEAN /\ bid[Taker] \in BOOLEAN /\ Opp = ~bid[Taker] /\ Taker \in Orders
           /\ Found \in Seq(Orders) /\ DOMAIN Found = 1..Len(Found) /\ Len(Found) \in Nat
           /\ Ordered(Found, InFront(Opp)) /\ Asymmetric(InFront(Opp))
           /\ \A i, j \in DOMAIN Found : Found[i] = Found[j] => i = j
           /\ \A i \in DOMAIN Found :
                 /\ Found[i] \in ToSet(Found) /\ Found[i] \in Orders /\ Found[i] # Taker
                 /\ bid[Found[i]] = Opp /\ price[Found[i]] \in Prices
                 /\ before.size[Found[i]] \in Nat \ {0} /\ size[Found[i]] \in Nat
<1>1. Opp \in BOOLEAN /\ bid[Taker] \in BOOLEAN /\ Opp = ~bid[Taker] /\ Taker \in Orders
  BY DEF IInv, CallInv, TypeOK, Opp, Taker
<1>2. Found \in Seq(Orders) /\ DOMAIN Found = 1..Len(Found) /\ Len(Found) \in Nat
  BY InToSet DEF FoundInv
<1>3. \A i \in DOMAIN Found : Found[i] \in ToSet(Found) /\ Found[i] \in Orders
  BY <1>2, InToSet
<1>4. \A i \in DOMAIN Found :
         /\ Found[i] # Taker /\ bid[Found[i]] = Opp /\ price[Found[i]] \in Prices
         /\ before.size[Found[i]] \in Nat \ {0} /\ size[Found[i]] \in Nat
  <2> SUFFICES ASSUME NEW i \in DOMAIN Found
               PROVE  /\ Found[i] # Taker /\ bid[Found[i]] = Opp /\ price[Found[i]] \in Prices
                      /\ before.size[Found[i]] \in Nat \ {0} /\ size[Found[i]] \in Nat
    OBVIOUS
  <2>1. /\ Found[i] < placed /\ bid[Found[i]] = Opp /\ price[Found[i]] \in Prices
        /\ before.size[Found[i]] > 0 /\ before.size \in [Orders -> Nat]
    BY <1>3 DEF FoundInv
  <2>2. size \in [Orders -> Nat] /\ Found[i] \in Orders /\ placed \in Nat
    BY <1>3, MaxOrdersAssumption DEF IInv, TypeOK
  <2>3. Found[i] # Taker
    BY <2>1, <2>2, OrdersAreNat DEF Taker
  <2>4. before.size[Found[i]] \in Nat \ {0} /\ size[Found[i]] \in Nat
    BY <2>1, <2>2
  <2> QED BY <2>1, <2>3, <2>4
<1>5. Asymmetric(InFront(Opp))
  BY <1>1, InFrontIs
<1>6. Ordered(Found, InFront(Opp))
  <2>1. \A j, k \in DOMAIN Found : j < k => Before(Opp, Found[j], Found[k])
    BY DEF FoundInv
  <2> QED BY <1>1, <1>3, <2>1, InFrontIs DEF Ordered
<1>7. \A i, j \in DOMAIN Found : Found[i] = Found[j] => i = j
  BY <1>2, <1>5, <1>6, OrderedOnce
<1> QED BY <1>1, <1>2, <1>3, <1>4, <1>5, <1>6, <1>7

\* Fill's next maker is the first order found that has not been matched.
LEMMA NextMaker ==
    ASSUME IInv, MatchInv, FillOrder,
           NEW maker, maker = queue[Opp][Target][idx], NEW t, t = Len(matches) + 1
    PROVE  /\ t \in DOMAIN Found /\ Found[t] = maker /\ price[maker] = Target
           /\ size[maker] > 0 /\ size[Taker] > 0 /\ Len(matches) \in Nat
<1> DEFINE line == queue[Opp][Target]
           filled == Minimum(size[maker], size[Taker])
<1>1. InFill /\ pc = "fill" /\ pc # "idle" /\ MatchInv /\ FoundInv /\ FilledInv
  BY DEF InFill, FillOrder, MatchInv
<1>2. /\ idx \in DOMAIN line /\ maker \in ToSet(line) /\ maker \in Orders /\ maker # Taker
      /\ size'[maker] = size[maker] - filled
      /\ filled = size[maker] \/ filled = size[Taker]
      /\ \A e \in Orders \ {maker, Taker} : size'[e] = size[e]
  BY FillSizes
<1>3. /\ Opp \in BOOLEAN /\ Target \in Prices /\ Target \in ToSet(levels[Opp])
      /\ line \in Seq(Orders) /\ DOMAIN line = 1..Len(line)
  BY <1>1, FillPlace, InToSet
<1>4. size[maker] \in Nat /\ price[maker] = Target
  BY <1>2, <1>3, QueueOrders
<1>5. size[Taker] > 0 /\ size[Taker] \in Nat
  BY <1>1, FoundIs DEF FilledInv, IInv, TypeOK
<1>6. size[maker] # 0
  <2> SUFFICES ASSUME size[maker] = 0 PROVE FALSE
    OBVIOUS
  <2>1. maker \in ToSet(toDelete)
    BY <1>2, <1>3 DEF IInv, SpentInv
  <2>2. PICK j \in 1..(idx - 1) : line[j] = maker
    BY <1>1, <2>1 DEF FilledInv
  <2>3. idx \in Nat
    BY <1>2, <1>3
  <2>4. j \in DOMAIN line /\ j # idx
    BY <1>2, <1>3, <2>3, InToSet
  <2> QED BY <1>2, <1>3, <2>2, <2>4, QueueOrders
<1>7. maker \in Resting(Opp) /\ maker \in ToSet(Found)
  <2>1. maker \in Resting(Opp)
    BY <1>2, <1>3 DEF Resting
  <2> QED BY <1>1, <2>1 DEF FoundInv
<1>8. /\ Found \in Seq(Orders) /\ DOMAIN Found = 1..Len(Found) /\ Len(Found) \in Nat
      /\ Ordered(Found, InFront(Opp))
  BY <1>1, FoundIs
<1>9. PICK k \in DOMAIN Found : Found[k] = maker
  BY <1>7, <1>8, InToSet
<1>10. Len(matches) \in Nat
  BY <1>1, InToSet DEF FilledInv
<1>11. k > Len(matches)
  <2> SUFFICES ASSUME k <= Len(matches) PROVE FALSE
    BY <1>8, <1>10
  <2>1. FilledInTurn(k)
    BY <1>1 DEF FilledInv
  <2> QED BY <1>4, <1>5, <1>6, <1>9, <2>1 DEF FilledInTurn
<1>12. ~ (k > t)
  <2> SUFFICES ASSUME k > t PROVE FALSE
    OBVIOUS
  <2>1. t \in DOMAIN Found /\ ~ (t <= Len(matches))
    BY <1>8, <1>10
  <2> DEFINE q == Found[t]
  <2>2. q \in Orders /\ q # Taker /\ q \in ToSet(Found) /\ before.size[q] \in Nat \ {0}
    BY <1>1, <2>1, FoundIs
  <2>3. size[q] = before.size[q]
    BY <1>1, <2>1 DEF FilledInv
  <2>4. q \in Resting(Opp)
    BY <1>1, <2>2, <2>3 DEF FoundInv
  <2>5. Before(Opp, q, maker) /\ k # t
    BY <1>1, <1>8, <1>9, <2>1 DEF FoundInv
  <2>6. q # maker
    BY <1>1, <1>9, <2>1, <2>5, FoundIs
  <2>7. size'[q] = size[q]
    BY <1>2, <2>2, <2>6
  <2>8. size'[maker] < size[maker]
    <3> HIDE DEF filled
    <3> QED BY <1>2, <1>4, <1>5, <1>6
  <2> HIDE DEF q
  <2>9. size'[q] = 0
    BY <1>3, <1>7, <2>4, <2>5, <2>8, FillKeepsPriority DEF Before
  <2> QED BY <2>2, <2>3, <2>7, <2>9
<1>13. k = t
  BY <1>8, <1>10, <1>11, <1>12
<1> QED BY <1>4, <1>5, <1>6, <1>9, <1>10, <1>13

LEMMA FillOrderMatch == IInv /\ DepthInv /\ MatchInv /\ FillOrder => MatchInv'
<1> SUFFICES ASSUME IInv, DepthInv, MatchInv, FillOrder PROVE MatchInv'
  OBVIOUS
<1> DEFINE line == queue[Opp][Target]
           m == Len(matches)
<1>1. PICK maker : maker = line[idx]
  OBVIOUS
<1>2. PICK filled : filled = Minimum(size[maker], size[Taker])
  OBVIOUS
<1>3. PICK t : t = m + 1
  OBVIOUS
<1>4. /\ InFill /\ pc = "fill" /\ pc # "idle" /\ pc' \in {"fill", "delete"}
      /\ UNCHANGED <<placed, bid, price, levels, queue, call, given, before>>
      /\ matches' = Append(matches, [maker |-> maker, price |-> Target, size |-> filled])
      /\ toDelete' = IF size[maker] = filled THEN Append(toDelete, maker) ELSE toDelete
      /\ idx' = idx + 1 /\ (pc' = "fill" => size[Taker] # filled)
  BY <1>1, <1>2 DEF FillOrder, InFill, book
<1>5. /\ idx \in DOMAIN line /\ maker \in Orders /\ maker # Taker
      /\ filled \in Nat /\ filled <= size[maker] /\ filled <= size[Taker]
      /\ filled = size[maker] \/ filled = size[Taker]
      /\ size' \in [Orders -> Nat] /\ size'[maker] = size[maker] - filled
      /\ size'[Taker] = size[Taker] - filled
      /\ \A o \in Orders \ {maker, Taker} : size'[o] = size[o]
  BY <1>1, <1>2, FillSizes
<1>6. /\ t \in DOMAIN Found /\ Found[t] = maker /\ price[maker] = Target
      /\ size[maker] > 0 /\ size[Taker] > 0 /\ m \in Nat
  BY <1>1, <1>3, NextMaker
<1>7. /\ Opp \in BOOLEAN /\ Taker \in Orders /\ Target \in Prices /\ line \in Seq(Orders)
      /\ DOMAIN line = 1..Len(line)
  BY <1>4, FillPlace, InToSet DEF Taker
<1>8. FoundInv /\ FilledInv /\ UnusedInv
  BY DEF MatchInv
<1>9. /\ Found \in Seq(Orders) /\ DOMAIN Found = 1..Len(Found) /\ Len(Found) \in Nat
      /\ \A i, j \in DOMAIN Found : Found[i] = Found[j] => i = j
      /\ \A i \in DOMAIN Found :
            /\ Found[i] \in ToSet(Found) /\ Found[i] \in Orders /\ Found[i] # Taker
            /\ before.size[Found[i]] \in Nat \ {0} /\ size[Found[i]] \in Nat
  BY <1>4, <1>8, FoundIs
<1>10. /\ size \in [Orders -> Nat] /\ given \in [Orders -> Nat] /\ placed \in Nat
       /\ filled > 0 /\ size[maker] \in Nat /\ size[Taker] \in Nat
  <2>1. size \in [Orders -> Nat] /\ given \in [Orders -> Nat] /\ placed \in Nat
    BY MaxOrdersAssumption DEF IInv, TypeOK
  <2> QED BY <1>5, <1>6, <1>7, <2>1
<1>11. /\ Taker' = Taker /\ Opp' = Opp /\ Found' = Found
       /\ \A q : InReach(q)' <=> InReach(q)
       /\ \A s : InOrder(s)' = InOrder(s) /\ Resting(s)' = Resting(s)
       /\ Target' = Target
       /\ \A s, o, q : Before(s, o, q)' <=> Before(s, o, q)
  BY <1>4, FillPlace DEF Taker, Opp, Found, InReach, InOrder, Resting, Target, Before, Better, FillOrder
<1> HIDE DEF line, m
<1>12. UnusedInv'
  <2>1. \A o \in Orders : o > placed => o # Taker /\ o # maker
    <3>1. maker < placed
      BY <1>4, <1>6, <1>8, <1>9 DEF FoundInv
    <3> QED BY <1>10, <3>1, OrdersAreNat DEF Taker
  <2> QED BY <1>4, <1>5, <1>8, <2>1 DEF UnusedInv
<1>13. FoundInv'
  <2>1. \A o \in ToSet(Found) : size'[o] > 0 => o \in Resting(Opp)
    <3> SUFFICES ASSUME NEW o \in ToSet(Found), size'[o] > 0 PROVE o \in Resting(Opp)
      OBVIOUS
    <3>1. o \in Orders
      BY <1>9, InToSet
    <3>2. size[o] > 0
      BY <1>5, <1>6, <1>10, <3>1
    <3> QED BY <1>4, <1>8, <3>2 DEF FoundInv
  <2>2. \A o \in Orders \ (ToSet(Found) \cup {Taker}) : size'[o] = before.size[o]
    <3>1. maker \in ToSet(Found)
      BY <1>6, <1>9
    <3> QED BY <1>4, <1>5, <1>8, <3>1 DEF FoundInv
  <2> QED BY <1>4, <1>8, <1>11, <2>1, <2>2 DEF FoundInv
<1>14. FilledInv'
  <2> DEFINE e == [maker |-> maker, price |-> Target, size |-> filled]
  <2>1. matches \in Seq(Matched) /\ e \in Matched
    BY <1>4, <1>5, <1>7, <1>8, <1>10 DEF FilledInv, Matched
  <2>2. /\ matches' \in Seq(Matched) /\ Len(matches') = t /\ matches'[t] = e
        /\ \A i \in 1..m : matches'[i] = matches[i]
    <3>0. matches' = Append(matches, e)
      BY <1>4
    <3> HIDE DEF e
    <3>1. /\ Append(matches, e) \in Seq(Matched) /\ Len(Append(matches, e)) = Len(matches) + 1
          /\ \A i \in 1..Len(matches) : Append(matches, e)[i] = matches[i]
          /\ Append(matches, e)[Len(matches) + 1] = e
      BY <2>1, AppendProperties
    <3> QED BY <1>3, <3>0, <3>1 DEF m
  <2>3. ASSUME NEW i \in DOMAIN Found
        PROVE  IF i <= t THEN FilledInTurn(i)' ELSE size'[Found[i]] = before.size[Found[i]]
    <3>0. i \in Nat \ {0} /\ t \in Nat
      BY <1>3, <1>6, <1>9
    <3>1. CASE i < t
      <4>1. i <= m /\ i \in 1..m
        BY <1>3, <1>6, <3>0, <3>1
      <4>2. FilledInTurn(i)
        BY <1>4, <1>8, <4>1 DEF FilledInv, m
      <4>3. size[Found[i]] = 0
        BY <1>6, <1>9, <1>10, <4>2 DEF FilledInTurn
      <4>4. Found[i] # maker
        BY <1>6, <1>9, <3>0, <3>1
      <4>5. size'[Found[i]] = size[Found[i]]
        BY <1>5, <1>9, <4>4
      <4>6. matches'[i] = matches[i]
        BY <2>2, <4>1
      <4>7. /\ matches[i] = [maker |-> Found[i], price |-> price[Found[i]],
                              size |-> before.size[Found[i]] - size[Found[i]]]
            /\ size[Found[i]] < before.size[Found[i]] /\ InReach(price[Found[i]])
        BY <4>2 DEF FilledInTurn
      <4>8. FilledInTurn(i)'
        <5>1. ~ (size'[Found[i]] > 0)
          BY <4>3, <4>5
        <5> QED BY <1>4, <1>11, <4>5, <4>6, <4>7, <5>1 DEF FilledInTurn
      <4> QED BY <3>0, <3>1, <4>8
    <3>2. CASE i = t
      <4>1. size[maker] = before.size[maker]
        <5>1. ~ (t <= Len(matches))
          BY <1>3, <1>6 DEF m
        <5> QED BY <1>4, <1>6, <1>8, <5>1 DEF FilledInv
      <4>2. matches'[i] = [maker |-> maker, price |-> price[maker],
                           size |-> before.size[maker] - size'[maker]]
        <5>1. filled = before.size[maker] - size'[maker]
          BY <1>5, <1>10, <4>1
        <5> QED BY <1>6, <2>2, <3>2, <5>1
      <4>3. size'[maker] < before.size[maker]
        BY <1>5, <1>10, <4>1
      <4>4. InReach(price[maker])
        BY <1>4, <1>6 DEF DepthInv
      <4>5. size'[maker] > 0 => size'[Taker] = 0
        BY <1>5, <1>10
      <4> QED BY <1>4, <1>6, <1>11, <2>2, <3>0, <3>2, <4>2, <4>3, <4>4, <4>5 DEF FilledInTurn
    <3>3. CASE i > t
      <4>1. ~ (i <= Len(matches)) /\ ~ (i <= t) /\ i # t
        BY <1>3, <1>6, <3>0, <3>3 DEF m
      <4>2. size[Found[i]] = before.size[Found[i]]
        BY <1>4, <1>8, <4>1 DEF FilledInv
      <4>3. Found[i] # maker
        BY <1>6, <1>9, <4>1
      <4> QED BY <1>5, <1>9, <4>1, <4>2, <4>3
    <3> QED BY <3>0, <3>1, <3>2, <3>3
  <2>4. given[Taker] - size'[Taker] =
           SumFunctionOnSet([i \in DOMAIN matches' |-> matches'[i].size], DOMAIN matches')
    <3>1. PICK f : f = [i \in DOMAIN matches |-> matches[i].size]
      OBVIOUS
    <3>2. PICK g : g = [i \in DOMAIN matches' |-> matches'[i].size]
      OBVIOUS
    <3>3. matches' = Append(matches, e) /\ e.size = filled
      BY <1>4
    <3> HIDE DEF e
    <3>5. /\ SumFunctionOnSet(f, DOMAIN matches) \in Int
          /\ SumFunctionOnSet(g, DOMAIN matches') = SumFunctionOnSet(f, DOMAIN matches) + e.size
      <4>1. \A i \in DOMAIN matches : f[i] = matches[i].size
        BY <3>1
      <4>2. \A i \in DOMAIN matches' : g[i] = matches'[i].size
        BY <3>2
      <4>3. \A i \in DOMAIN Append(matches, e) : g[i] = Append(matches, e)[i].size
        BY <3>3, <4>2
      <4> QED BY <2>1, <3>3, <4>1, <4>3, MatchedSum
    <3>6. given[Taker] - size[Taker] = SumFunctionOnSet(f, DOMAIN matches)
      BY <1>4, <1>8, <3>1 DEF FilledInv
    <3>7. given[Taker] \in Nat
      BY <1>7, <1>10
    <3>8. given[Taker] - size'[Taker] = SumFunctionOnSet(g, DOMAIN matches')
      BY <1>5, <1>10, <3>3, <3>5, <3>6, <3>7
    <3> QED BY <3>2, <3>8
  <2>5. ASSUME pc' = "fill"
        PROVE  /\ size'[Taker] > 0
               /\ \A o \in ToSet(toDelete') : \E j \in 1..(idx' - 1) : queue'[Opp][Target][j] = o
    <3>1. size'[Taker] > 0 /\ filled = size[maker]
      BY <1>4, <1>5, <1>10, <2>5
    <3>2. toDelete' = Append(toDelete, maker) /\ toDelete \in Seq(Orders)
      BY <1>4, <3>1 DEF IInv, TypeOK
    <3>3. ASSUME NEW o \in ToSet(toDelete') PROVE o = maker \/ o \in ToSet(toDelete)
      <4>1. /\ toDelete' \in Seq(Orders) /\ Len(toDelete') = Len(toDelete) + 1
            /\ \A i \in 1..Len(toDelete) : toDelete'[i] = toDelete[i]
            /\ toDelete'[Len(toDelete) + 1] = maker
        BY <1>5, <3>2, AppendProperties
      <4>2. PICK i \in 1..(Len(toDelete) + 1) : toDelete'[i] = o
        BY <3>3, <4>1, InToSet
      <4>3. DOMAIN toDelete = 1..Len(toDelete) /\ Len(toDelete) \in Nat
        BY <3>2, InToSet
      <4>4. CASE i = Len(toDelete) + 1
        BY <4>1, <4>2, <4>4
      <4>5. CASE i # Len(toDelete) + 1
        <5>1. i \in DOMAIN toDelete
          BY <4>2, <4>3, <4>5
        <5> QED BY <3>2, <4>1, <4>2, <4>3, <5>1, InToSet
      <4> QED BY <4>4, <4>5
    <3>4. idx \in Nat /\ idx >= 1 /\ idx' - 1 = idx
      <4>1. idx \in Nat \ {0} /\ idx' = idx + 1
        BY <1>4 DEF IInv, TypeOK
      <4> QED BY <4>1
    <3>5. \A o \in ToSet(toDelete) : \E j \in 1..(idx - 1) : line[j] = o
      BY <1>4, <1>8 DEF FilledInv, line
    <3>6. ASSUME NEW o \in ToSet(toDelete') PROVE \E j \in 1..idx : line[j] = o
      <4>1. CASE o = maker
        BY <1>1, <3>4, <4>1
      <4>2. CASE o \in ToSet(toDelete)
        <5>1. PICK j \in 1..(idx - 1) : line[j] = o
          BY <3>5, <4>2
        <5>2. j \in 1..idx
          BY <3>4
        <5> QED BY <5>1, <5>2
      <4> QED BY <3>3, <3>6, <4>1, <4>2
    <3> QED BY <1>4, <3>1, <3>4, <3>6 DEF line
  <2>6. t <= Len(Found)
    BY <1>6, <1>9
  <2> HIDE DEF e
  <2> QED BY <1>4, <1>11, <2>2, <2>3, <2>4, <2>5, <2>6 DEF FilledInv, Matched
<1> QED BY <1>12, <1>13, <1>14 DEF MatchInv

LEMMA InitMatch == Init => MatchInv
<1> SUFFICES ASSUME Init PROVE MatchInv
  OBVIOUS
<1>1. UnusedInv
  BY DEF Init, UnusedInv
<1>2. FoundInv /\ FilledInv
  BY DEF Init, FoundInv, FilledInv
<1> QED BY <1>1, <1>2 DEF MatchInv

LEMMA NextMatch == IInv /\ SumInv /\ DepthInv /\ MatchInv /\ [Next]_vars => MatchInv'
<1> SUFFICES ASSUME IInv, SumInv, DepthInv, MatchInv, [Next]_vars PROVE MatchInv'
  OBVIOUS
<1>1. ASSUME NEW b \in BOOLEAN, NEW p \in Prices, NEW n \in Sizes, PlaceLimitOrder(b, p, n)
      PROVE  MatchInv'
  <2>1. p \in Nat /\ call' # "market"
    BY <1>1, PricesAssumption DEF PlaceLimitOrder
  <2> QED BY <1>1, <2>1, PlaceMatch DEF PlaceLimitOrder
<1>2. ASSUME NEW b \in BOOLEAN, NEW n \in Sizes, PlaceMarketOrder(b, n) PROVE MatchInv'
  <2>1. Receive(b, 0, n) /\ StartLoop
    BY <1>2 DEF PlaceMarketOrder
  <2> QED BY <2>1, PlaceMatch
<1>3. ASSUME pc' = "idle", UnusedInv' PROVE MatchInv'
  BY <1>3 DEF MatchInv, FoundInv, FilledInv
<1>4. ASSUME UNCHANGED <<placed, bid, price, size>> PROVE UnusedInv'
  BY <1>4 DEF MatchInv, UnusedInv
<1>5. ASSUME NEW b \in BOOLEAN, NEW n \in Sizes, PanicMarketOrder(b, n) PROVE MatchInv'
  <2>1. /\ pc' = "idle" /\ placed' = placed + 1 /\ placed \in Nat
        /\ bid' = [bid EXCEPT ![placed'] = b] /\ price' = [price EXCEPT ![placed'] = 0]
        /\ size' = [size EXCEPT ![placed'] = n]
    BY <1>5, MaxOrdersAssumption DEF PanicMarketOrder, Receive, IInv, TypeOK
  <2>2. UnusedInv'
    BY <2>1, OrdersAreNat DEF MatchInv, UnusedInv, IInv, TypeOK
  <2> QED BY <1>3, <2>1, <2>2
<1>6. CASE AddRestingLimitOrder \/ Return
  BY <1>3, <1>4, <1>6 DEF AddRestingLimitOrder, Return
<1>7. ASSUME NEW o \in Orders, CancelOrder(o) \/ CancelOrderByID(o) PROVE MatchInv'
  BY <1>3, <1>4, <1>7 DEF CancelOrder, CancelOrderByID
<1>8. CASE UNCHANGED vars
  <2>1. UNCHANGED <<placed, bid, price, size, levels, queue, call, matches, pc, at, idx, toDelete,
                    given, before>>
    BY <1>8 DEF vars, book, loopv
  <2>2. Taker' = Taker /\ Opp' = Opp /\ Found' = Found /\ Target' = Target
    BY <2>1 DEF Taker, Opp, Found, Target
  <2>3. FoundInv'
    <3>1. /\ \A s : InOrder(s)' = InOrder(s) /\ Resting(s)' = Resting(s)
          /\ \A s, o, q : Before(s, o, q)' <=> Before(s, o, q)
      BY <2>1 DEF InOrder, Resting, Before, Better
    <3> QED BY <2>1, <2>2, <3>1 DEF MatchInv, FoundInv
  <2>4. FilledInv'
    <3>1. \A i : FilledInTurn(i)' <=> FilledInTurn(i)
      BY <2>1, <2>2 DEF FilledInTurn, InReach
    <3> QED BY <2>1, <2>2, <3>1 DEF MatchInv, FilledInv
  <2> QED BY <1>4, <2>1, <2>3, <2>4 DEF MatchInv
<1> QED BY <1>1, <1>2, <1>5, <1>6, <1>7, <1>8, StartFillMatch, FillOrderMatch, DeleteFilledMatch,
           EndFillMatch DEF Next

LEMMA InitFull == Init => FullInv
<1> SUFFICES ASSUME Init PROVE FullInv
  OBVIOUS
<1>1. GivenInv /\ DepthInv
  BY DEF Init, GivenInv, DepthInv
<1> QED BY <1>1, InitInv, InitSum, InitMatch DEF FullInv

\* The invariant with all its parts.
THEOREM FullInvariance == ASSUME ByPointer \cap ById = {} PROVE Spec => []FullInv
<1>1. FullInv /\ [Next]_vars => FullInv'
  BY NextInv, NextSum, NextGiven, NextDepth, NextMatch DEF FullInv
<1> QED BY <1>1, InitFull, PTL DEF Spec

-----------------------------------------------------------------------------
(* The engine implements DepthBook.                                         *)

\* Between calls and between the turns of the loops, levels are the prices with volume.
LEMMA LevelsHaveVolume ==
    ASSUME IInv, SumInv, pc \in {"idle", "loop"}, NEW b \in BOOLEAN, NEW p \in Prices
    PROVE  /\ volume[b][p] \in Nat
           /\ p \in ToSet(levels[b]) <=> volume[b][p] > 0
<1>1. volume[b][p] \in Nat
  BY LevelsFinite DEF SumInv
<1>2. volume[b][p] = SumFunctionOnSet(size, ToSet(queue[b][p]))
  BY DEF SumInv, VolumeInv
<1>3. /\ IsFiniteSet(ToSet(queue[b][p])) /\ \A o \in ToSet(queue[b][p]) : size[o] \in Nat
      /\ queue[b][p] \in Seq(Orders)
  BY QueueFinite, QueueOrders
<1>4. ToSet(levels[b]) = limits[b]
  BY DEF IInv, LevelsAgree
<1>5. ~ InFill /\ pc # "delete"
  BY DEF InFill
<1>6. CASE p \in limits[b]
  <2>1. PICK o : o \in ToSet(queue[b][p])
    <3>1. queue[b][p] # <<>>
      BY <1>5, <1>6 DEF IInv, SpentInv
    <3> QED BY <1>3, <3>1, InToSet
  <2>2. size[o] # 0
    BY <1>5, <2>1 DEF IInv, SpentInv
  <2>3. size[o] <= SumFunctionOnSet(size, ToSet(queue[b][p]))
    BY <1>3, <2>1, SumNat
  <2> QED BY <1>1, <1>2, <1>3, <1>4, <1>6, <2>1, <2>2, <2>3
<1>7. CASE p \notin limits[b]
  <2>1. queue[b][p] = <<>>
    BY <1>7 DEF IInv, QueueInv
  <2>2. volume[b][p] = 0
    BY <1>2, <2>1, EmptySequence, SumEmpty
  <2> QED BY <1>4, <1>7, <2>2
<1> QED BY <1>6, <1>7

LEMMA DepthIsVolume ==
    ASSUME IInv, SumInv, pc \in {"idle", "loop"}, NEW b \in BOOLEAN
    PROVE  /\ DOMAIN Depth(b) = {q \in Prices : volume[b][q] > 0}
           /\ Depth(b) = [q \in {r \in Prices : volume[b][r] > 0} |-> volume[b][q]]
<1>1. ToSet(levels[b]) \subseteq Prices
  BY InToSet DEF IInv, TypeOK
<1>2. ToSet(levels[b]) = {q \in Prices : volume[b][q] > 0}
  BY <1>1, LevelsHaveVolume
<1> QED BY <1>2 DEF Depth

\* DepthBook's own copies of the library's operators.
LEMMA ViewLibrary ==
    /\ \A S : DepthView!Max(S) = Max(S) /\ DepthView!Min(S) = Min(S)
    /\ \A f, S : DepthView!SumFunctionOnSet(f, S) = SumFunctionOnSet(f, S)
<1>1. \A S : DepthView!Max(S) = Max(S) /\ DepthView!Min(S) = Min(S)
  BY DEF DepthView!Max, DepthView!Min, Max, Min
<1>2. \A f, S : DepthView!SumFunctionOnSet(f, S) = SumFunctionOnSet(f, S)
  BY DEF DepthView!SumFunctionOnSet, DepthView!FoldFunctionOnSet, DepthView!MapThenFoldSet,
         SumFunctionOnSet, FoldFunctionOnSet, MapThenFoldSet
<1> QED BY <1>1, <1>2

\* How to recognise what an order leaves.
LEMMA EatenIs ==
    ASSUME NEW b \in BOOLEAN, NEW n, NEW P, NEW D, D = DepthSeen[b],
           NEW A, \A q \in P : A[q] = {r \in P : Better(b, r, q)},
           NEW F, F = [q \in DOMAIN F |-> F[q]], DOMAIN F \subseteq DOMAIN D,
           \A q \in DOMAIN F : F[q] > 0,
           \A q \in DOMAIN D :
              D[q] - (IF q \in P THEN Taken(D, A, n, q) ELSE 0) =
                 IF q \in DOMAIN F THEN F[q] ELSE 0
    PROVE  DepthView!Eaten(b, n, P) = F
<1> DEFINE m(q) == n - DepthView!Volume(b, {r \in P : DepthView!Better(b, r, q)})
           taken(q) == DepthView!Max({0, DepthView!Min({DepthSeen[b][q], m(q)})})
           left == [q \in DOMAIN DepthSeen[b] |->
                      DepthSeen[b][q] - IF q \in P THEN taken(q) ELSE 0]
<1>1. DepthView!Eaten(b, n, P) = [q \in {r \in DOMAIN D : left[r] > 0} |-> left[q]]
  BY DEF DepthView!Eaten, DepthView!Levels
<1>2. ASSUME NEW q \in P PROVE taken(q) = Taken(D, A, n, q)
  <2>1. {r \in P : DepthView!Better(b, r, q)} = A[q]
    BY DEF Better, DepthView!Better
  <2>2. m(q) = n - SumFunctionOnSet(D, A[q])
    BY <2>1, ViewLibrary DEF DepthView!Volume
  <2> HIDE DEF m
  <2>3. taken(q) = Max({0, Min({D[q], m(q)})})
    BY ViewLibrary
  <2> QED BY <2>2, <2>3 DEF Taken
<1> HIDE DEF taken
<1>3. \A q \in DOMAIN D : left[q] = IF q \in DOMAIN F THEN F[q] ELSE 0
  BY <1>2
<1> HIDE DEF left
<1>4. {r \in DOMAIN D : left[r] > 0} = DOMAIN F
  <2>1. ASSUME NEW r \in DOMAIN D PROVE left[r] > 0 <=> r \in DOMAIN F
    BY <1>3
  <2> QED BY <2>1
<1>5. \A q \in DOMAIN F : left[q] = F[q]
  BY <1>3
<1> QED BY <1>1, <1>4, <1>5

\* When the loops end there is nothing left to do or nothing left in reach.
LEMMA NothingInReach ==
    ASSUME IInv, pc = "loop", ~CanMatch, size[Taker] # 0
    PROVE  \A q \in ToSet(levels[Opp]) : ~ InReach(q)
<1>1. /\ Taker \in Orders /\ at = 1 /\ Opp \in BOOLEAN /\ size[Taker] \in Nat
      /\ call \in {"limit", "market"}
  BY DEF IInv, CallInv, TypeOK, Opp, Taker
<1>2. CASE call = "limit"
  <2>1. \A q \in limits[Opp] : ~ Crosses(bid[Taker], price[Taker], q)
    BY <1>1, <1>2, NothingCrosses
  <2> QED BY <1>1, <1>2, <2>1 DEF InReach, IInv, LevelsAgree
<1>3. CASE call = "market"
  <2>1. ~ (1 <= Len(levels[Opp])) /\ levels[Opp] \in Seq(Prices)
    BY <1>1, <1>3 DEF CanMatch, IInv, TypeOK
  <2>2. Len(levels[Opp]) \in Nat /\ DOMAIN levels[Opp] = 1..Len(levels[Opp])
    BY <2>1, InToSet
  <2>3. DOMAIN levels[Opp] = {}
    BY <2>1, <2>2
  <2> QED BY <2>3 DEF ToSet
<1> QED BY <1>1, <1>2, <1>3

\* What the loops leave is what DepthBook says.
LEMMA LoopLeaves ==
    ASSUME IInv, SumInv, GivenInv, DepthInv, pc = "loop", ~CanMatch,
           NEW P, P = {q \in DOMAIN FoundLevels : InReach(q)}
    PROVE  /\ DepthView!Eaten(Opp, given[Taker], P) = Depth(Opp)
           /\ given[Taker] - Min({given[Taker], SumFunctionOnSet(FoundLevels, P)}) = size[Taker]
<1> DEFINE D == FoundLevels
           X == DOMAIN FoundLevels
           L == ToSet(levels[Opp])
           V == volume[Opp]
           n == given[Taker]
           rest == size[Taker]
           A == [q \in X |-> {r \in P : Better(Opp, r, q)}]
           Is(q) == Taken(D, A, n, q)
<1>1. /\ Taker \in Orders /\ Taker \in 1..placed /\ Opp \in BOOLEAN /\ bid[Taker] \in BOOLEAN
      /\ Opp = ~bid[Taker] /\ n \in Nat /\ rest \in Nat /\ rest <= n
      /\ (call = "limit" => price[Taker] \in Nat)
  <2>1. /\ Taker \in Orders /\ Taker \in Nat \ {0} /\ Taker = placed /\ price \in [Orders -> Nat]
        /\ bid \in [Orders -> BOOLEAN] /\ size \in [Orders -> Nat] /\ given \in [Orders -> Nat]
    BY OrdersAreNat DEF IInv, CallInv, TypeOK, Taker
  <2>2. Taker \in 1..placed
    BY <2>1
  <2> QED BY <2>1, <2>2 DEF GivenInv, Opp
<1>2. /\ \A q \in X : D[q] \in Nat
      /\ IsFiniteSet(X) /\ X \subseteq Prices /\ X \subseteq Nat /\ L \subseteq X
      /\ \A g \in Gone : InReach(g) /\ \A q \in L : Better(Opp, g, q)
      /\ \A q \in L : V[q] <= D[q] /\ (V[q] # D[q] => q = levels[Opp][1] /\ InReach(q) /\ rest = 0)
      /\ n - rest = SumFunctionOnSet(D, X) - SumFunctionOnSet(V, L)
  BY PricesAssumption DEF DepthInv, TotalVolume
<1>3. /\ \A q \in L : V[q] \in Nat /\ V[q] > 0
      /\ Gone = X \ L /\ Gone \subseteq P /\ P \subseteq X
  BY <1>1, <1>2, LevelsHaveVolume DEF Gone
<1>4. \A q, r \in X : ~ (Better(Opp, q, r) /\ Better(Opp, r, q)) /\ ~ Better(Opp, q, q)
  BY <1>2 DEF Better
<1>5. DepthSeen[Opp] = D
  BY DEF DepthSeen, FoundLevels
<1>6. \A q \in P : A[q] = {r \in P : Better(Opp, r, q)}
  BY <1>3
<1>7. Depth(Opp) = [q \in L |-> V[q]]
  BY DEF Depth
<1> HIDE DEF D, X, L, V, n, rest, A
<1>8. /\ IsFiniteSet(P) /\ IsFiniteSet(L) /\ IsFiniteSet(Gone)
      /\ SumFunctionOnSet(D, X) = SumFunctionOnSet(D, Gone) + SumFunctionOnSet(D, L)
      /\ SumFunctionOnSet(D, Gone) \in Nat /\ SumFunctionOnSet(D, L) \in Nat
      /\ SumFunctionOnSet(D, P) \in Nat /\ SumFunctionOnSet(V, L) \in Nat
  <2>1. IsFiniteSet(P) /\ IsFiniteSet(L) /\ IsFiniteSet(Gone)
    BY <1>2, <1>3, FS_Subset
  <2>0. Gone \cap L = {} /\ Gone \cup L = X
    BY <1>2, <1>3
  <2>2. ASSUME NEW q \in Gone \cup L PROVE D[q] \in Int
    <3>1. q \in X
      BY <2>0
    <3> QED BY <1>2, <3>1
  <2>3. SumFunctionOnSet(D, Gone \cup L) = SumFunctionOnSet(D, Gone) + SumFunctionOnSet(D, L)
    BY <2>0, <2>1, <2>2, SumUnion
  <2>4. /\ \A q \in Gone : D[q] \in Nat
        /\ \A q \in L : D[q] \in Nat
        /\ \A q \in P : D[q] \in Nat
    BY <1>2, <1>3
  <2> QED BY <1>3, <2>0, <2>1, <2>3, <2>4, SumNat
<1>9. ASSUME \A q \in X : D[q] - (IF q \in P THEN Is(q) ELSE 0) = IF q \in L THEN V[q] ELSE 0
      PROVE  DepthView!Eaten(Opp, n, P) = Depth(Opp)
  <2>1. X = DOMAIN D
    BY DEF X, D
  <2> DEFINE F == Depth(Opp)
  <2>2. /\ F = [q \in DOMAIN F |-> F[q]] /\ DOMAIN F = L /\ DOMAIN F \subseteq DOMAIN D
        /\ \A q \in DOMAIN F : F[q] > 0 /\ F[q] = V[q]
    BY <1>2, <1>3, <1>7, <2>1
  <2> HIDE DEF F
  <2>3. \A q \in DOMAIN D :
           D[q] - (IF q \in P THEN Taken(D, A, n, q) ELSE 0) = IF q \in DOMAIN F THEN F[q] ELSE 0
    BY <1>9, <2>1, <2>2
  <2>4. Opp \in BOOLEAN /\ D = DepthSeen[Opp]
    BY <1>1, <1>5
  <2>5. DepthView!Eaten(Opp, n, P) = F
    BY <1>6, <2>2, <2>3, <2>4, EatenIs
  <2> QED BY <2>5 DEF F
\* Nothing in reach is left.
<1>10. ASSUME L \cap P = {}
       PROVE  /\ DepthView!Eaten(Opp, n, P) = Depth(Opp)
              /\ n - Min({n, SumFunctionOnSet(D, P)}) = rest
  <2>1. P = Gone /\ \A q \in L : V[q] = D[q]
    <3>1. \A q \in L : ~ InReach(q)
      BY <1>2, <1>10 DEF X
    <3> QED BY <1>2, <1>3, <1>10, <3>1
  <2>2. SumFunctionOnSet(V, L) = SumFunctionOnSet(D, L)
    BY <1>8, <2>1, SumSame
  <2>3. n - rest = SumFunctionOnSet(D, P)
    <3>1. n - rest = SumFunctionOnSet(D, Gone) + SumFunctionOnSet(D, L) - SumFunctionOnSet(D, L)
      BY <1>2, <1>8, <2>2
    <3> QED BY <1>8, <2>1, <3>1
  <2>4. \A q \in P : Is(q) = D[q]
    <3>1. /\ \A q \in P : D[q] \in Nat
          /\ \A q \in P : A[q] \subseteq P \ {q}
      <4>1. \A q \in P : D[q] \in Nat /\ q \in X
        BY <1>2, <1>3
      <4> QED BY <1>4, <1>6, <4>1
    <3>2. SumFunctionOnSet(D, P) <= n
      BY <1>1, <1>8, <2>3 DEF n, rest
    <3> QED BY <1>1, <1>8, <3>1, <3>2, TakesAll DEF n
  <2>5. n \in Nat /\ rest \in Nat /\ rest <= n
    BY <1>1
  <2>6. Min({n, SumFunctionOnSet(D, P)}) = SumFunctionOnSet(D, P)
    <3> DEFINE S == SumFunctionOnSet(D, P)
    <3>1. S \in Int /\ n \in Int /\ S <= n
      BY <1>8, <2>3, <2>5
    <3> HIDE DEF S
    <3>2. Min({n, S}) = S
      BY <3>1, Smaller
    <3> QED BY <3>2 DEF S
  <2>7. \A q \in X : D[q] - (IF q \in P THEN Is(q) ELSE 0) = IF q \in L THEN V[q] ELSE 0
    BY <1>2, <1>3, <1>10, <2>1, <2>4
  <2> HIDE DEF Is
  <2> QED BY <1>8, <1>9, <2>3, <2>5, <2>6, <2>7
\* The first level was not used up.
<1>11. ASSUME NEW e \in L \cap P
       PROVE  /\ DepthView!Eaten(Opp, n, P) = Depth(Opp)
              /\ n - Min({n, SumFunctionOnSet(D, P)}) = rest
  <2> DEFINE t == levels[Opp][1]
             d == D[t] - V[t]
             R == P \ (Gone \cup {t})
  <2>1. rest = 0
    BY <1>11, NothingInReach DEF rest, L
  <2>2. /\ t \in L /\ \A q \in L \ {t} : Better(Opp, t, q)
    <3>1. levels[Opp] \in Seq(Prices) /\ BestFirst(Opp, levels[Opp])
      BY <1>1 DEF IInv, TypeOK, LevelsAgree
    <3>2. 1 \in DOMAIN levels[Opp] /\ DOMAIN levels[Opp] \subseteq Nat \ {0}
      <4>1. PICK k \in DOMAIN levels[Opp] : levels[Opp][k] = e
        BY <3>1, InToSet DEF L
      <4> QED BY <3>1, <4>1, InToSet
    <3>3. t \in L
      BY <3>1, <3>2, InToSet DEF L
    <3>4. ASSUME NEW q \in L \ {t} PROVE Better(Opp, t, q)
      <4>1. PICK k \in DOMAIN levels[Opp] : levels[Opp][k] = q
        BY <3>1, InToSet DEF L
      <4>2. k > 1
        BY <3>2, <4>1
      <4> QED BY <3>1, <3>2, <4>1, <4>2 DEF BestFirst
    <3> QED BY <3>3, <3>4
  <2> HIDE DEF t
  <2>3. t \in P /\ t \notin Gone /\ t \in X
    <3>1. t \in X /\ e \in X /\ t \notin Gone
      BY <1>2, <1>3, <2>2
    <3>2. InReach(e) /\ (e = t \/ Better(Opp, t, e))
      BY <2>2
    <3>3. InReach(t)
      <4>1. t \in Nat /\ e \in Nat
        BY <1>2, <3>1
      <4> SUFFICES ASSUME call = "limit" PROVE Crosses(bid[Taker], price[Taker], t)
        BY DEF InReach
      <4>2. price[Taker] \in Nat /\ Crosses(bid[Taker], price[Taker], e)
        BY <1>1, <3>2 DEF InReach
      <4>3. CASE bid[Taker] = TRUE
        <5>1. e = t \/ t < e
          BY <1>1, <3>2, <4>3 DEF Better
        <5>2. e <= price[Taker]
          BY <4>2, <4>3 DEF Crosses
        <5>3. t <= price[Taker]
          BY <4>1, <4>2, <5>1, <5>2
        <5> QED BY <4>3, <5>3 DEF Crosses
      <4>4. CASE bid[Taker] = FALSE
        <5>1. e = t \/ t > e
          BY <1>1, <3>2, <4>4 DEF Better
        <5>2. e >= price[Taker]
          BY <4>2, <4>4 DEF Crosses
        <5>3. t >= price[Taker]
          BY <4>1, <4>2, <5>1, <5>2
        <5> QED BY <4>4, <5>3 DEF Crosses
      <4> QED BY <1>1, <4>3, <4>4
    <3> QED BY <3>1, <3>3 DEF X
  <2>4. /\ \A q \in L \ {t} : V[q] = D[q]
        /\ V[t] \in Nat /\ V[t] > 0 /\ V[t] <= D[t] /\ D[t] \in Nat
    BY <1>2, <1>3, <2>2, <2>3 DEF t
  <2>5. d \in Nat /\ d <= D[t] /\ D[t] - d = V[t]
    BY <2>4
  <2>6. n = SumFunctionOnSet(D, Gone) + d
    <3>1. /\ \A q \in L : D[q] \in Int
          /\ V[t] \in Int
      BY <1>2, <2>4
    <3>2. SumFunctionOnSet(V, L) = SumFunctionOnSet(D, L) - D[t] + V[t]
      BY <1>8, <2>2, <2>4, <3>1, SumChange
    <3>3. n \in Nat
      BY <1>1
    <3> QED BY <1>2, <1>8, <2>1, <2>4, <3>2, <3>3
  <2> HIDE DEF d
  <2>7. /\ \A q \in P : D[q] \in Nat /\ A[q] \subseteq P
        /\ \A q \in Gone : A[q] \subseteq Gone \ {q}
        /\ A[t] = Gone
        /\ \A q \in R : Gone \cup {t} \subseteq A[q]
    <3>1. /\ P \subseteq X /\ Gone \subseteq X /\ L \subseteq X
          /\ \A q \in P \ Gone : q \in L
      BY <1>2, <1>3
    <3>2. \A q \in P : D[q] \in Nat /\ A[q] \subseteq P
      BY <1>2, <1>6, <3>1
    <3>3. ASSUME NEW q \in Gone, NEW r \in A[q] PROVE r \in Gone \ {q}
      <4>1. r \in P /\ Better(Opp, r, q)
        BY <1>3, <1>6
      <4>2. r \notin L
        BY <1>2, <1>4, <3>1, <4>1
      <4> QED BY <1>4, <3>1, <4>1, <4>2
    <3>4. A[t] \subseteq Gone
      <4> SUFFICES ASSUME NEW r \in A[t] PROVE r \in Gone
        OBVIOUS
      <4>1. r \in P /\ Better(Opp, r, t)
        BY <1>6, <2>3
      <4>2. r \notin L
        BY <1>4, <2>2, <2>3, <3>1, <4>1
      <4> QED BY <3>1, <4>1, <4>2
    <3>5. Gone \subseteq A[t]
      BY <1>2, <1>3, <1>6, <2>2, <2>3
    <3>6. ASSUME NEW q \in R PROVE Gone \cup {t} \subseteq A[q]
      <4>1. q \in L \ {t} /\ q \in P
        BY <3>1
      <4>2. Better(Opp, t, q) /\ \A g \in Gone : Better(Opp, g, q)
        BY <1>2, <2>2, <4>1
      <4> QED BY <1>3, <1>6, <2>3, <4>1, <4>2
    <3> QED BY <3>2, <3>3, <3>4, <3>5, <3>6
  <2>8. /\ \A q \in Gone : Is(q) = D[q]
        /\ Is(t) = d
        /\ \A q \in R : Is(q) = 0
        /\ n <= SumFunctionOnSet(D, P)
    <3>1. n \in Nat
      BY <1>1
    <3>2. Gone \in SUBSET P /\ t \in P \ Gone
      BY <1>3, <2>3
    <3> QED BY <1>8, <2>5, <2>6, <2>7, <3>1, <3>2, TakesPart
  <2> HIDE DEF Is
  <2>9. Min({n, SumFunctionOnSet(D, P)}) = n /\ n \in Nat
    <3> DEFINE S == SumFunctionOnSet(D, P)
    <3>1. S \in Int /\ n \in Int /\ n <= S /\ n \in Nat
      BY <1>1, <1>8, <2>8
    <3> HIDE DEF S
    <3>2. Min({n, S}) = n
      BY <3>1, Smaller
    <3> QED BY <3>1, <3>2 DEF S
  <2>10. ASSUME NEW q \in X
         PROVE  D[q] - (IF q \in P THEN Is(q) ELSE 0) = IF q \in L THEN V[q] ELSE 0
    <3>1. CASE q \in Gone
      BY <1>2, <1>3, <2>8, <3>1
    <3>2. CASE q = t
      BY <2>2, <2>3, <2>5, <2>8, <3>2
    <3>3. CASE q \notin Gone /\ q # t
      <4>1. q \in L \ {t} /\ D[q] \in Nat /\ V[q] = D[q]
        BY <1>2, <1>3, <2>4, <3>3
      <4>2. q \in P => Is(q) = 0
        BY <2>8, <3>3
      <4> QED BY <4>1, <4>2
    <3> QED BY <3>1, <3>2, <3>3
  <2> QED BY <1>9, <2>1, <2>9, <2>10
<1> QED BY <1>10, <1>11 DEF D, n, rest

\* A call that ends has done to the depth it found what DepthBook says.
LEMMA CallEnds ==
    ASSUME FullInv, pc = "loop", ~CanMatch
    PROVE  /\ DepthSeen = before.depth /\ DOMAIN DepthSeen = BOOLEAN
           /\ bid[Taker] \in BOOLEAN /\ Opp = ~bid[Taker] /\ Opp \in BOOLEAN
           /\ given[Taker] \in Sizes /\ Taker \in Orders
           /\ DepthSeen[bid[Taker]] = Depth(bid[Taker]) /\ DepthSeen[Opp] = FoundLevels
           /\ call = "limit" =>
                LET P == DepthView!Marketable(bid[Taker], price[Taker])
                IN  /\ price[Taker] \in Prices
                    /\ DepthView!Eaten(Opp, given[Taker], P) = Depth(Opp)
                    /\ given[Taker] - DepthView!Min({given[Taker], DepthView!Volume(Opp, P)}) =
                          size[Taker]
           /\ call = "market" =>
                LET P == DepthView!Levels(Opp)
                IN  /\ DepthView!Eaten(Opp, given[Taker], P) = Depth(Opp)
                    /\ given[Taker] - DepthView!Min({given[Taker], DepthView!Volume(Opp, P)}) =
                          size[Taker]
<1>1. /\ placed \in Orders /\ Taker = placed /\ bid \in [Orders -> BOOLEAN] /\ placed \in 1..placed
      /\ call = "limit" => price[Taker] \in Prices
  BY OrdersAreNat DEF FullInv, IInv, TypeOK, CallInv, Taker
<1>2. bid[Taker] \in BOOLEAN /\ Opp = ~bid[Taker] /\ Opp \in BOOLEAN /\ given[Taker] \in Sizes
  BY <1>1 DEF Opp, FullInv, GivenInv
<1>3. /\ DepthSeen = before.depth /\ DOMAIN DepthSeen = BOOLEAN
      /\ DepthSeen[bid[Taker]] = Depth(bid[Taker]) /\ DepthSeen[Opp] = FoundLevels
  BY DEF DepthSeen, FullInv, DepthInv, FoundLevels
<1> DEFINE P == {q \in DOMAIN FoundLevels : InReach(q)}
           n == given[Taker]
<1>4. /\ DepthView!Eaten(Opp, n, P) = Depth(Opp)
      /\ n - DepthView!Min({n, DepthView!Volume(Opp, P)}) = size[Taker]
  <2> HIDE DEF P, n
  <2>1. /\ DepthView!Eaten(Opp, n, P) = Depth(Opp)
        /\ n - Min({n, SumFunctionOnSet(FoundLevels, P)}) = size[Taker]
    BY LoopLeaves DEF FullInv, P, n
  <2>2. DepthView!Volume(Opp, P) = SumFunctionOnSet(FoundLevels, P)
    BY <1>3, ViewLibrary DEF DepthView!Volume
  <2> QED BY <2>1, <2>2, ViewLibrary
<1>5. ASSUME call = "limit" PROVE DepthView!Marketable(bid[Taker], price[Taker]) = P
  BY <1>2, <1>3, <1>5 DEF DepthView!Marketable, DepthView!Levels, InReach, Crosses
<1>6. ASSUME call = "market" PROVE DepthView!Levels(Opp) = P
  BY <1>3, <1>6 DEF DepthView!Levels, InReach
<1> HIDE DEF P, n
<1> QED BY <1>1, <1>2, <1>3, <1>4, <1>5, <1>6 DEF n

\* The depth that a call found has a total.
LEMMA FoundTotal ==
    ASSUME FullInv, pc = "loop"
    PROVE  DepthView!Volume(Opp, DepthView!Levels(Opp)) \in Nat
<1>1. /\ DepthSeen[Opp] = FoundLevels /\ IsFiniteSet(DOMAIN FoundLevels)
      /\ \A q \in DOMAIN FoundLevels : FoundLevels[q] \in Nat
  BY DEF FullInv, DepthInv, DepthSeen, FoundLevels
<1>2. SumFunctionOnSet(FoundLevels, DOMAIN FoundLevels) \in Nat
  BY <1>1, SumNat
<1> QED BY <1>1, <1>2, ViewLibrary DEF DepthView!Volume, DepthView!Levels

LEMMA ViewReturn == FullInv /\ Return => DepthView!Next
<1> SUFFICES ASSUME FullInv, Return PROVE DepthView!Next
  OBVIOUS
<1> DEFINE b == bid[Taker]
           n == given[Taker]
<1>1. pc = "loop" /\ ~CanMatch /\ ~MustRest /\ pc' = "idle" /\ UNCHANGED <<levels, volume>>
  BY DEF Return, book
<1>2. DepthSeen' = [s \in BOOLEAN |-> Depth(s)]
  <2>1. DepthSeen' = [s \in BOOLEAN |-> Depth(s)']
    BY <1>1 DEF DepthSeen
  <2>2. \A s : Depth(s)' = Depth(s)
    BY <1>1 DEF Depth
  <2> QED BY <2>1, <2>2
<1>3. /\ DOMAIN DepthSeen = BOOLEAN /\ b \in BOOLEAN /\ Opp = ~b /\ n \in Sizes /\ Taker \in Orders
      /\ DepthSeen[b] = Depth(b)
  BY <1>1, CallEnds
<1>4. size[Taker] \in Nat /\ call \in {"limit", "market"}
  BY <1>3 DEF FullInv, IInv, TypeOK
<1>5. CASE call = "limit"
  <2> DEFINE p == price[Taker]
             P == DepthView!Marketable(b, p)
  <2>1. size[Taker] = 0
    BY <1>1, <1>4, <1>5 DEF MustRest
  <2>2. /\ p \in Prices /\ DepthView!Eaten(~b, n, P) = Depth(~b)
        /\ n - DepthView!Min({n, DepthView!Volume(~b, P)}) = 0
    BY <1>1, <1>3, <1>5, <2>1, CallEnds
  <2> HIDE DEF b, n, p
  <2>3. DepthView!LimitOrder(b, p, n)
    <3>1. DepthSeen' = [s \in BOOLEAN |-> IF s # b THEN DepthView!Eaten(s, n, P) ELSE DepthSeen[s]]
      <4>1. \A s \in BOOLEAN : Depth(s) = IF s # b THEN DepthView!Eaten(s, n, P) ELSE DepthSeen[s]
        <5> SUFFICES ASSUME NEW s \in BOOLEAN, s # b PROVE Depth(s) = DepthView!Eaten(s, n, P)
          BY <1>3
        <5>1. s = ~b
          BY <1>3
        <5> HIDE DEF P
        <5> QED BY <2>2, <5>1
      <4> QED BY <1>2, <4>1
    <3> QED BY <2>2, <3>1 DEF DepthView!LimitOrder
  <2> QED BY <1>3, <2>2, <2>3 DEF DepthView!Next, b, n
<1>6. CASE call = "market"
  <2> DEFINE P == DepthView!Levels(~b)
  <2>1. size[Taker] = 0
    BY <1>1, <1>6, MarketFilled DEF FullInv
  <2>2. /\ DepthView!Eaten(~b, n, P) = Depth(~b)
        /\ n - DepthView!Min({n, DepthView!Volume(~b, P)}) = 0
    BY <1>1, <1>3, <1>6, <2>1, CallEnds
  <2>3. n <= DepthView!Total(~b)
    <3> DEFINE S == DepthView!Volume(~b, P)
    <3>1. S \in Int /\ n \in Int
      <4>1. DepthView!Volume(Opp, DepthView!Levels(Opp)) \in Nat
        BY <1>1, FoundTotal
      <4>2. n \in Nat
        BY <1>3, SizesAssumption
      <4> HIDE DEF n, b
      <4> QED BY <1>3, <4>1, <4>2
    <3> HIDE DEF S, n
    <3>2. Min({n, S}) = IF n <= S THEN n ELSE S
      BY <3>1, Smaller
    <3>3. n - Min({n, S}) = 0
      BY <2>2, ViewLibrary DEF S
    <3>4. n <= S
      BY <3>1, <3>2, <3>3
    <3> QED BY <3>4 DEF DepthView!Total, S
  <2> HIDE DEF b, n
  <2>4. DepthView!MarketOrder(b, n)
    <3>1. DepthSeen' = [DepthSeen EXCEPT ![~b] = DepthView!Eaten(~b, n, P)]
      <4>1. \A s \in BOOLEAN : s # ~b => Depth(s) = DepthSeen[s]
        BY <1>3
      <4> HIDE DEF P
      <4> QED BY <1>2, <1>3, <2>2, <4>1
    <3> QED BY <2>3, <3>1 DEF DepthView!MarketOrder
  <2> QED BY <1>3, <2>4 DEF DepthView!Next, b, n
<1> QED BY <1>4, <1>5, <1>6

\* What is seen when no call is in progress.
SeenVolumes ==
    [s \in BOOLEAN |-> [q \in {r \in Prices : volume[s][r] > 0} |-> volume[s][q]]]

LEMMA SeenIsVolume == FullInv /\ pc = "idle" => DepthSeen = SeenVolumes
<1> SUFFICES ASSUME FullInv, pc = "idle" PROVE DepthSeen = SeenVolumes
  OBVIOUS
<1>1. \A s \in BOOLEAN : Depth(s) = [q \in {r \in Prices : volume[s][r] > 0} |-> volume[s][q]]
  BY DepthIsVolume DEF FullInv
<1> QED BY <1>1 DEF DepthSeen, SeenVolumes

LEMMA ViewRest == FullInv /\ FullInv' /\ AddRestingLimitOrder => DepthView!Next
<1> SUFFICES ASSUME FullInv, FullInv', AddRestingLimitOrder PROVE DepthView!Next
  OBVIOUS
<1> DEFINE b == bid[Taker]
           p == price[Taker]
           n == given[Taker]
           P == DepthView!Marketable(b, p)
           rest == size[Taker]
<1>1. /\ pc = "loop" /\ ~CanMatch /\ pc' = "idle" /\ call = "limit" /\ rest > 0
      /\ volume' = [volume EXCEPT ![b][p] = IF p \notin limits[b] THEN rest ELSE @ + rest]
  BY DEF AddRestingLimitOrder, MustRest
<1>2. /\ DOMAIN DepthSeen = BOOLEAN /\ b \in BOOLEAN /\ Opp = ~b /\ n \in Sizes /\ Taker \in Orders
      /\ (~b) \in BOOLEAN /\ DepthSeen[b] = Depth(b)
  BY <1>1, CallEnds
<1>3. /\ p \in Prices /\ DepthView!Eaten(~b, n, P) = Depth(~b)
      /\ n - DepthView!Min({n, DepthView!Volume(~b, P)}) = rest
  BY <1>1, <1>2, CallEnds
<1>4. rest \in Nat /\ volume \in [BOOLEAN -> [Prices -> Int]]
  BY <1>2 DEF FullInv, IInv, TypeOK
<1>5. /\ volume'[~b] = volume[~b]
      /\ \A q \in Prices : /\ volume[b][q] \in Nat
                            /\ volume'[b][q] = volume[b][q] + IF q = p THEN rest ELSE 0
  <2>1. ASSUME NEW q \in Prices
        PROVE  volume[b][q] \in Nat /\ (q \notin limits[b] => volume[b][q] = 0)
    <3>1. volume[b][q] \in Nat /\ (q \in ToSet(levels[b]) <=> volume[b][q] > 0)
      BY <1>1, <1>2, LevelsHaveVolume DEF FullInv
    <3>2. ToSet(levels[b]) = limits[b]
      BY <1>2 DEF FullInv, IInv, LevelsAgree
    <3> QED BY <3>1, <3>2
  <2> HIDE DEF b, p, rest
  <2>2. volume'[~b] = volume[~b]
    BY <1>1, <1>2, <1>4
  <2>3. volume'[b][p] = volume[b][p] + rest
    BY <1>1, <1>2, <1>3, <1>4, <2>1
  <2>4. \A q \in Prices \ {p} : volume'[b][q] = volume[b][q]
    BY <1>1, <1>2, <1>3, <1>4
  <2>5. ASSUME NEW q \in Prices
        PROVE  volume[b][q] \in Nat /\ volume'[b][q] = volume[b][q] + IF q = p THEN rest ELSE 0
    <3>1. volume[b][q] \in Nat
      BY <2>1
    <3>2. CASE q = p
      BY <2>3, <3>1, <3>2
    <3>3. CASE q # p
      BY <2>4, <3>1, <3>3
    <3> QED BY <3>2, <3>3
  <2> QED BY <2>2, <2>5
<1> HIDE DEF b, p, n, rest
<1>6. \A s \in BOOLEAN : Depth(s) = [q \in {r \in Prices : volume[s][r] > 0} |-> volume[s][q]]
  BY <1>1, DepthIsVolume DEF FullInv
<1>7. DepthSeen' = [s \in BOOLEAN |-> [q \in {r \in Prices : volume'[s][r] > 0} |-> volume'[s][q]]]
  <2>1. FullInv' /\ (pc = "idle")' => (DepthSeen = SeenVolumes)'
    BY SeenIsVolume, PTL
  <2> QED BY <1>1, <2>1 DEF SeenVolumes
<1>8. [q \in {r \in Prices : volume'[b][r] > 0} |-> volume'[b][q]]
         = DepthView!Joined(Depth(b), p, rest)
  <2> DEFINE F == Depth(b)
             Q == {r \in Prices : volume'[b][r] > 0}
  <2>1. F = [q \in {r \in Prices : volume[b][r] > 0} |-> volume[b][q]]
    BY <1>2, <1>6
  <2> HIDE DEF F
  <2>2. Q = DOMAIN F \cup {p}
    <3>1. \A q \in Prices : volume'[b][q] > 0 <=> volume[b][q] > 0 \/ q = p
      BY <1>1, <1>4, <1>5
    <3> QED BY <1>3, <2>1, <3>1
  <2>3. \A q \in Q : volume'[b][q] =
           (IF q \in DOMAIN F THEN F[q] ELSE 0) + (IF q = p THEN rest ELSE 0)
    <3> SUFFICES ASSUME NEW q \in Prices
                 PROVE  volume'[b][q] =
                          (IF q \in DOMAIN F THEN F[q] ELSE 0) + (IF q = p THEN rest ELSE 0)
      OBVIOUS
    <3>1. volume[b][q] \in Nat /\ volume'[b][q] = volume[b][q] + IF q = p THEN rest ELSE 0
      BY <1>5
    <3>2. volume[b][q] = IF q \in DOMAIN F THEN F[q] ELSE 0
      BY <2>1, <3>1
    <3> QED BY <3>1, <3>2
  <2> HIDE DEF Q
  <2>4. [q \in Q |-> volume'[b][q]] = DepthView!Joined(F, p, rest)
    BY <2>2, <2>3 DEF DepthView!Joined
  <2> QED BY <2>4 DEF F, Q
<1>9. DepthView!LimitOrder(b, p, n)
  <2>1. \A s \in BOOLEAN : s = b \/ s = ~b
    BY <1>2
  <2>2. [q \in {r \in Prices : volume'[~b][r] > 0} |-> volume'[~b][q]] = DepthView!Eaten(~b, n, P)
    BY <1>2, <1>3, <1>5, <1>6
  <2> HIDE DEF P
  <2>3. DepthSeen' = [s \in BOOLEAN |-> IF s # b THEN DepthView!Eaten(s, n, P)
                                       ELSE DepthView!Joined(DepthSeen[s], p, rest)]
    <3>1. \A s \in BOOLEAN : [q \in {r \in Prices : volume'[s][r] > 0} |-> volume'[s][q]]
                                = IF s # b THEN DepthView!Eaten(s, n, P)
                                  ELSE DepthView!Joined(DepthSeen[s], p, rest)
      BY <1>2, <1>8, <2>1, <2>2
    <3> QED BY <1>7, <3>1
  <2> QED BY <1>1, <1>3, <2>3 DEF DepthView!LimitOrder, P
<1> QED BY <1>2, <1>3, <1>9 DEF DepthView!Next

\* Cancelling takes what is left of the order from its level, if anything is.
LEMMA ViewCancel ==
    ASSUME FullInv, FullInv', pc = "idle", pc' = "idle", NEW b \in BOOLEAN, NEW p \in Prices,
           NEW o \in Orders, DeleteOrder(b, p, o), o \in ToSet(queue[b][p]) \/ size[o] = 0
    PROVE  DepthView!Next \/ UNCHANGED DepthSeen
<1> DEFINE n == size[o]
<1>1. /\ volume' = [volume EXCEPT ![b][p] = @ - n] /\ volume \in [BOOLEAN -> [Prices -> Int]]
      /\ n \in Nat
  BY DEF DeleteOrder, FullInv, IInv, TypeOK
<1>2. /\ \A s \in BOOLEAN : s # b => volume'[s] = volume[s]
      /\ \A q \in Prices : volume'[b][q] = volume[b][q] - IF q = p THEN n ELSE 0
      /\ volume' \in [BOOLEAN -> [Prices -> Int]]
  <2> HIDE DEF n
  <2> QED BY <1>1
<1>3. DepthSeen = SeenVolumes /\ DepthSeen' = SeenVolumes'
  <2>1. FullInv' /\ (pc = "idle")' => (DepthSeen = SeenVolumes)'
    BY SeenIsVolume, PTL
  <2> QED BY <2>1, SeenIsVolume
<1> HIDE DEF n
<1>4. CASE n = 0
  <2>1. volume[b][p] - n = volume[b][p]
    BY <1>1, <1>4
  <2>2. volume' = volume
    BY <1>1, <2>1
  <2> QED BY <1>3, <2>2 DEF SeenVolumes
<1>5. CASE n # 0
  <2>1. o \in ToSet(queue[b][p]) /\ o \in 1..placed /\ n \in 1..volume[b][p] /\ volume[b][p] \in Nat
    <3>1. o \in ToSet(queue[b][p])
      BY <1>5 DEF n
    <3>2. o <= placed /\ o \in Nat \ {0} /\ placed \in Nat
      <4>1. IInv /\ placed \in Nat
        <5>1. IInv
          BY DEF FullInv
        <5> QED BY <5>1, MaxOrdersAssumption DEF IInv, TypeOK
      <4>2. o <= placed /\ o \in Orders
        BY <3>1, <4>1, QueueOrders
      <4> QED BY <4>1, <4>2, OrdersAreNat
    <3>3. n <= SumFunctionOnSet(size, ToSet(queue[b][p]))
      BY <3>1, QueueFinite, SumNat DEF FullInv, n
    <3>4. volume[b][p] = SumFunctionOnSet(size, ToSet(queue[b][p]))
      BY DEF FullInv, SumInv, VolumeInv
    <3>5. PICK v : v = volume[b][p]
      OBVIOUS
    <3>6. v \in Int /\ n \in Nat /\ n <= v /\ n # 0
      BY <1>1, <1>5, <3>3, <3>4, <3>5
    <3>7. v \in Nat /\ n \in 1..v
      BY <3>6
    <3>8. o \in 1..placed
      BY <3>2
    <3> QED BY <3>1, <3>5, <3>7, <3>8
  <2>2. given[o] \in Sizes /\ n \in 1..given[o]
    <3>1. given[o] \in Sizes /\ n <= given[o]
      BY <2>1 DEF FullInv, GivenInv, n
    <3> QED BY <1>1, <1>5, <3>1, SizesAssumption
  <2> DEFINE D == DepthSeen[b]
             F == DepthSeen'[b]
             A == [q \in {p} |-> {r \in {p} : Better(b, r, q)}]
  <2>3. /\ D = [q \in {r \in Prices : volume[b][r] > 0} |-> volume[b][q]]
        /\ F = [q \in {r \in Prices : volume'[b][r] > 0} |-> volume'[b][q]]
    BY <1>3 DEF SeenVolumes
  <2>4. /\ DOMAIN D = {r \in Prices : volume[b][r] > 0}
        /\ \A q \in DOMAIN D : D[q] = volume[b][q] /\ q \in Prices
        /\ DOMAIN F = {r \in Prices : volume'[b][r] > 0}
        /\ \A q \in DOMAIN F : F[q] = volume'[b][q] /\ F[q] > 0
        /\ F = [q \in DOMAIN F |-> F[q]]
    BY <2>3
  <2> HIDE DEF F, D
  <2>5. p \in DOMAIN D /\ D[p] = volume[b][p]
    BY <2>1, <2>4
  <2>6. Taken(D, A, n, p) = n
    <3>1. p \in Nat /\ A[p] = {}
      BY PricesAssumption DEF Better
    <3>2. SumFunctionOnSet(D, A[p]) = 0
      BY <3>1, SumEmpty
    <3>3. D[p] \in Nat /\ n \in Int
      BY <1>1, <2>1, <2>5
    <3> DEFINE m == n - SumFunctionOnSet(D, A[p])
    <3>4. m = n
      BY <1>1, <3>2
    <3>5. SumFunctionOnSet(D, A[p]) \in Int
      BY <3>2
    <3> HIDE DEF A
    <3>6. Taken(D, A, n, p) = IF m <= 0 THEN 0 ELSE IF D[p] <= m THEN D[p] ELSE m
      BY <3>3, <3>5, TakenIs
    <3> HIDE DEF m
    <3> QED BY <1>1, <2>1, <2>5, <3>4, <3>6
  <2>7. ASSUME NEW q \in DOMAIN D
        PROVE  D[q] - (IF q \in {p} THEN Taken(D, A, n, q) ELSE 0) =
                  IF q \in DOMAIN F THEN F[q] ELSE 0
    <3> HIDE DEF A
    <3>1. volume[b][q] \in Nat /\ volume'[b][q] \in Nat
      <4>1. volume[b][q] \in Nat
        BY <2>4, LevelsHaveVolume DEF FullInv
      <4> QED BY <1>1, <1>2, <2>1, <2>4, <4>1
    <3>2. volume'[b][q] = volume[b][q] - (IF q = p THEN n ELSE 0) /\ D[q] = volume[b][q]
      BY <1>2, <2>4
    <3>3. volume'[b][q] = IF q \in DOMAIN F THEN F[q] ELSE 0
      BY <2>4, <3>1
    <3> QED BY <2>6, <3>2, <3>3
  <2>8. DOMAIN F \subseteq DOMAIN D
    <3> SUFFICES ASSUME NEW q \in DOMAIN F PROVE volume[b][q] > 0
      BY <2>4
    <3>1. q \in Prices /\ volume'[b][q] > 0 /\ volume[b][q] \in Int
      BY <1>1, <2>4
    <3> QED BY <1>1, <1>2, <3>1
  <2>9. \A q \in {p} : A[q] = {r \in {p} : Better(b, r, q)}
    OBVIOUS
  <2>10. DepthView!Eaten(b, n, {p}) = F
    <3>1. D = DepthSeen[b]
      BY DEF D
    <3> HIDE DEF A
    <3>2. /\ F = [q \in DOMAIN F |-> F[q]]
          /\ \A q \in DOMAIN F : F[q] > 0
          /\ \A q \in DOMAIN D :
                D[q] - (IF q \in {p} THEN Taken(D, A, n, q) ELSE 0) =
                   IF q \in DOMAIN F THEN F[q] ELSE 0
      BY <2>4, <2>7
    <3> QED BY <2>8, <2>9, <3>1, <3>2, EatenIs
  <2>11. DepthSeen' = [DepthSeen EXCEPT ![b] = F]
    <3>1. \A s \in BOOLEAN : s # b => DepthSeen'[s] = DepthSeen[s]
      BY <1>2, <1>3 DEF SeenVolumes
    <3>2. /\ DepthSeen = [s \in BOOLEAN |-> DepthSeen[s]]
          /\ DepthSeen' = [s \in BOOLEAN |-> DepthSeen'[s]]
      BY <1>3 DEF SeenVolumes
    <3>3. DepthSeen'[b] = F
      BY DEF F
    <3> QED BY <3>1, <3>2, <3>3
  <2>12. DepthView!Cancel(b, p, n)
    BY <2>1, <2>5, <2>10, <2>11 DEF DepthView!Cancel, DepthView!Levels, D
  <2> QED BY <2>2, <2>12 DEF DepthView!Next
<1> QED BY <1>4, <1>5

LEMMA ViewNext ==
    ASSUME ByPointer \cap ById = {}
    PROVE  FullInv /\ FullInv' /\ [Next]_vars => [DepthView!Next]_DepthSeen
<1> SUFFICES ASSUME FullInv, FullInv', [Next]_vars PROVE DepthView!Next \/ UNCHANGED DepthSeen
  OBVIOUS
<1>1. ASSUME NEW b, NEW p, NEW n, Receive(b, p, n), StartLoop PROVE UNCHANGED DepthSeen
  BY <1>1 DEF Receive, StartLoop, DepthSeen
<1>2. ASSUME NEW b \in BOOLEAN, NEW n \in Sizes, PanicMarketOrder(b, n) PROVE UNCHANGED DepthSeen
  <2>1. pc = "idle" /\ pc' = "idle" /\ UNCHANGED <<levels, volume>>
    BY <1>2 DEF PanicMarketOrder, Receive, book
  <2> QED BY <2>1 DEF DepthSeen, Depth
<1>3. CASE StartFill \/ FillOrder \/ DeleteFilled \/ EndFill
  <2>1. pc # "idle" /\ pc' # "idle" /\ UNCHANGED before
    BY <1>3 DEF StartFill, FillOrder, DeleteFilled, EndFill
  <2> QED BY <2>1 DEF DepthSeen
<1>4. ASSUME NEW o \in Orders, CancelOrder(o) PROVE DepthView!Next \/ UNCHANGED DepthSeen
  <2>1. /\ o \in ByPointer /\ pc = "idle" /\ pc' = "idle" /\ engineLimit[o] \in limits[bid[o]]
        /\ DeleteOrder(bid[o], engineLimit[o], o)
    BY <1>4 DEF CancelOrder
  <2>2. bid[o] \in BOOLEAN /\ engineLimit[o] \in Prices /\ engineLimit[o] # NoLimit
    BY <2>1, PricesAssumption DEF FullInv, IInv, TypeOK, NoLimit
  <2>3. o \in ToSet(queue[bid[o]][engineLimit[o]]) \/ size[o] = 0
    <3>1. size[o] \in Nat /\ o \notin ById
      BY <2>1 DEF FullInv, IInv, TypeOK
    <3> QED BY <2>2, <3>1 DEF FullInv, SumInv, BackReferenceInv
  <2> QED BY <2>1, <2>2, <2>3, ViewCancel
<1>5. ASSUME NEW o \in Orders, CancelOrderByID(o) PROVE DepthView!Next \/ UNCHANGED DepthSeen
  <2>1. PICK b \in BOOLEAN, p \in Prices :
           /\ pc = "idle" /\ pc' = "idle" /\ o \in ToSet(queue[b][p]) /\ DeleteOrder(b, p, o)
    BY <1>5 DEF CancelOrderByID
  <2> QED BY <2>1, ViewCancel
<1>6. CASE UNCHANGED vars
  BY <1>6 DEF vars, book, DepthSeen, Depth
<1> QED BY <1>1, <1>2, <1>3, <1>4, <1>5, <1>6, ViewRest, ViewReturn
           DEF Next, PlaceLimitOrder, PlaceMarketOrder

\* The volumes that a snapshot shows change as DepthBook says: whatever the engine does
\* order by order, a call takes the best levels of the other side and adds the rest.
THEOREM DepthRefined == ASSUME ByPointer \cap ById = {} PROVE Spec => DepthSpec
<1>1. Init => DepthView!Init
  <2> SUFFICES ASSUME Init PROVE DepthSeen = [b \in BOOLEAN |-> <<>>]
    BY DEF DepthView!Init, DepthView!Empty
  <2>1. ASSUME NEW b \in BOOLEAN PROVE Depth(b) = <<>>
    <3>1. ToSet(levels[b]) = {}
      BY EmptySequence DEF Init
    <3> QED BY <3>1 DEF Depth
  <2> QED BY <2>1 DEF DepthSeen, Init
<1>2. FullInv /\ FullInv' /\ [Next]_vars => [DepthView!Next]_DepthSeen
  BY ViewNext
<1> QED BY <1>1, <1>2, FullInvariance, PTL DEF Spec, DepthSpec, DepthView!Spec

-----------------------------------------------------------------------------
(* The engine implements MatchingEngine.                                    *)

\* The first m of N makers, which have D, give g to an order of n, of which rest is left:
\* all they have but for the last of them, and all of them if anything is left.
GivenInTurn(D, g, N, m, n, rest) ==
    /\ \A i \in 1..N : D[i] \in Nat \ {0} /\ g[i] \in Nat /\ g[i] <= D[i]
    /\ \A i \in 1..N : (i < m => g[i] = D[i]) /\ (i > m => g[i] = 0)
    /\ n - rest = SumFunctionOnSet(g, 1..m)
    /\ rest # 0 => \A i \in 1..N : g[i] = D[i]

Earlier(N) == [i \in 1..N |-> 1..(i - 1)]

\* Then each gives what those before it leave.
LEMMA TakenInTurn ==
    ASSUME NEW N \in Nat, NEW m \in 0..N, NEW D, NEW g, NEW n \in Nat \ {0}, NEW rest \in Nat,
           GivenInTurn(D, g, N, m, n, rest)
    PROVE  /\ \A i \in 1..N : Taken(D, Earlier(N), n, i) = g[i]
           /\ SumFunctionOnSet(D, 1..N) \in Nat
           /\ n - Min({n, SumFunctionOnSet(D, 1..N)}) = rest
           /\ rest = 0 => n <= SumFunctionOnSet(D, 1..N)
<1>a. /\ \A i \in 1..N : D[i] \in Nat \ {0} /\ g[i] \in Nat /\ g[i] <= D[i]
      /\ \A i \in 1..N : (i < m => g[i] = D[i]) /\ (i > m => g[i] = 0)
      /\ n - rest = SumFunctionOnSet(g, 1..m)
      /\ rest # 0 => \A i \in 1..N : g[i] = D[i]
  BY DEF GivenInTurn
<1>b. PICK A : A = Earlier(N)
  OBVIOUS
<1>c. \A i \in 1..N : A[i] = 1..(i - 1)
  BY <1>b DEF Earlier
<1>1. PICK P : P = 1..N
  OBVIOUS
<1>2. IsFiniteSet(P) /\ \A i \in P : D[i] \in Nat
  <2>1. IsFiniteSet(1..N)
    BY FS_Interval
  <2> QED BY <1>a, <1>1, <2>1
<1>3. SumFunctionOnSet(D, P) \in Nat
  BY <1>2, SumNat
<1>4. CASE rest # 0
  <2>1. m = N
    <3>1. m < N => N \in 1..N /\ g[N] = 0 /\ D[N] # 0
      BY <1>a
    <3> QED BY <1>4, <1>a, <3>1
  <2>2. SumFunctionOnSet(g, P) = SumFunctionOnSet(D, P)
    <3>1. \A i \in P : g[i] = D[i]
      BY <1>a, <1>1, <1>4
    <3> QED BY <1>2, <3>1, SumSame
  <2>3. n - rest = SumFunctionOnSet(D, P)
    BY <1>a, <1>1, <2>1, <2>2
  <2>4. SumFunctionOnSet(D, P) <= n
    BY <1>3, <2>3
  <2>5. \A i \in P : Taken(D, A, n, i) = D[i]
    <3>1. \A i \in P : A[i] \subseteq P \ {i}
      BY <1>c, <1>1
    <3>2. n \in Nat
      OBVIOUS
    <3> QED BY <1>2, <2>4, <3>1, <3>2, TakesAll
  <2>6. n - Min({n, SumFunctionOnSet(D, P)}) = rest
    <3>1. PICK S : S = SumFunctionOnSet(D, P)
      OBVIOUS
    <3>2. n \in Int /\ S \in Int /\ S <= n
      BY <1>3, <2>4, <3>1
    <3>3. Min({n, S}) = IF n <= S THEN n ELSE S
      BY <3>2, Smaller
    <3> QED BY <2>3, <3>1, <3>2, <3>3
  <2> QED BY <1>a, <1>b, <1>1, <1>3, <1>4, <2>5, <2>6
<1>5. CASE rest = 0
  <2>1. m # 0
    <3>1. m = 0 => 1..m = {}
      OBVIOUS
    <3>2. m = 0 => SumFunctionOnSet(g, 1..m) = 0
      BY <3>1, SumEmpty
    <3> QED BY <1>a, <1>5, <3>2
  <2>2. PICK G : G = 1..(m - 1)
    OBVIOUS
  <2>3. /\ G \in SUBSET P /\ m \in P \ G /\ 1..m = G \cup {m} /\ IsFiniteSet(G)
        /\ \A i \in G : A[i] \subseteq G \ {i}
        /\ A[m] = G /\ \A i \in P \ (G \cup {m}) : G \cup {m} \subseteq A[i]
        /\ \A i \in P : A[i] \subseteq P
    <3>1. IsFiniteSet(1..(m - 1))
      BY FS_Interval
    <3> QED BY <1>c, <1>1, <2>1, <2>2, <3>1
  <2>4. /\ \A i \in G : g[i] = D[i] /\ g[i] \in Int
        /\ g[m] \in Nat /\ g[m] <= D[m]
        /\ \A i \in P \ (G \cup {m}) : g[i] = 0
    BY <1>a, <1>1, <2>1, <2>2
  <2>5. SumFunctionOnSet(g, G) = SumFunctionOnSet(D, G)
    <3>1. IsFiniteSet(G) /\ \A i \in G : g[i] = D[i]
      BY <2>3, <2>4
    <3> QED BY <3>1, SumSame
  <2>6. SumFunctionOnSet(g, G \cup {m}) = g[m] + SumFunctionOnSet(g, G)
    <3>1. m \notin G /\ \A i \in G \cup {m} : g[i] \in Int
      BY <2>3, <2>4
    <3> QED BY <2>3, <3>1, SumAdd
  <2>7. SumFunctionOnSet(g, G) \in Int
    <3>1. \A i \in G : g[i] \in Int
      BY <2>4
    <3> QED BY <2>3, <3>1, SumInt
  <2>8. n = SumFunctionOnSet(D, G) + g[m]
    <3>1. SumFunctionOnSet(g, 1..m) = SumFunctionOnSet(g, G \cup {m})
      BY <2>3
    <3>2. PICK S : S = SumFunctionOnSet(g, G)
      OBVIOUS
    <3>3. n - rest = g[m] + S /\ S \in Int
      BY <1>a, <2>6, <2>7, <3>1, <3>2
    <3>4. n = S + g[m]
      BY <1>5, <2>4, <3>3
    <3> QED BY <2>5, <3>2, <3>4
  <2>9. /\ \A i \in G : Taken(D, A, n, i) = D[i]
        /\ Taken(D, A, n, m) = g[m]
        /\ \A i \in P \ (G \cup {m}) : Taken(D, A, n, i) = 0
        /\ n <= SumFunctionOnSet(D, P)
    <3>1. PICK t : t = m
      OBVIOUS
    <3>2. PICK d : d = g[m]
      OBVIOUS
    <3>3. /\ t \in P \ G /\ A[t] = G /\ \A i \in P \ (G \cup {t}) : G \cup {t} \subseteq A[i]
          /\ d \in Nat /\ d <= D[t] /\ n = SumFunctionOnSet(D, G) + d /\ n \in Nat
      BY <2>3, <2>4, <2>8, <3>1, <3>2
    <3>4. /\ \A i \in G : Taken(D, A, n, i) = D[i]
          /\ Taken(D, A, n, t) = d
          /\ \A i \in P \ (G \cup {t}) : Taken(D, A, n, i) = 0
          /\ n <= SumFunctionOnSet(D, P)
      <4>1. G \in SUBSET P /\ t \in P \ G /\ d \in Nat /\ d <= D[t] /\ n \in Nat
        BY <2>3, <3>3
      <4>2. /\ \A i \in P : A[i] \subseteq P
            /\ \A i \in G : A[i] \subseteq G \ {i}
            /\ A[t] = G
            /\ \A i \in P \ (G \cup {t}) : G \cup {t} \subseteq A[i]
        BY <2>3, <3>3
      <4>3. n = SumFunctionOnSet(D, G) + d
        BY <3>3
      <4>4. IsFiniteSet(P) /\ \A q \in P : D[q] \in Nat
        BY <1>2
      <4>5. \A q \in P : A[q] \subseteq P
        BY <4>2
      <4>6. \A q \in G : A[q] \subseteq G \ {q}
        BY <4>2
      <4>7. \A q \in P \ (G \cup {t}) : G \cup {t} \subseteq A[q]
        BY <4>2
      <4>8. A[t] = G
        BY <4>2
      <4>9. /\ \A q \in G : Taken(D, A, n, q) = D[q]
            /\ Taken(D, A, n, t) = d
            /\ \A q \in P \ (G \cup {t}) : Taken(D, A, n, q) = 0
            /\ n <= SumFunctionOnSet(D, P)
        BY ONLY <4>1, <4>3, <4>4, <4>5, <4>6, <4>7, <4>8, TakesPart
      <4> QED BY <4>9
    <3> QED BY <3>1, <3>2, <3>4
  <2>10. \A i \in P : Taken(D, A, n, i) = g[i]
    <3> SUFFICES ASSUME NEW i \in P PROVE Taken(D, A, n, i) = g[i]
      OBVIOUS
    <3>1. i \in G \/ i = m \/ i \in P \ (G \cup {m})
      OBVIOUS
    <3> QED BY <2>4, <2>9, <3>1
  <2>11. n - Min({n, SumFunctionOnSet(D, P)}) = rest
    <3>1. PICK S : S = SumFunctionOnSet(D, P)
      OBVIOUS
    <3>2. n \in Int /\ S \in Int /\ n <= S
      BY <1>3, <2>9, <3>1
    <3>3. Min({n, S}) = IF n <= S THEN n ELSE S
      BY <3>2, Smaller
    <3> QED BY <1>5, <3>1, <3>2, <3>3
  <2> QED BY <1>b, <1>1, <1>3, <2>9, <2>10, <2>11
<1> QED BY <1>4, <1>5

\* MatchingEngine's own copies of the library's operators.
LEMMA EngineLibrary ==
    /\ \A S : Engine!Max(S) = Max(S) /\ Engine!Min(S) = Min(S)
    /\ \A S : Engine!Cardinality(S) = Cardinality(S)
    /\ \A f, S : Engine!SumFunctionOnSet(f, S) = SumFunctionOnSet(f, S)
    /\ \A s : Engine!ToSet(s) = ToSet(s)
    /\ \A s, i, e : Engine!InsertAt(s, i, e) = InsertAt(s, i, e)
    /\ \A s, T : Engine!Select(s, T) = Among(s, T)
<1>1. \A S : Engine!Max(S) = Max(S) /\ Engine!Min(S) = Min(S)
  BY DEF Engine!Max, Engine!Min, Max, Min
<1>2. \A f, S : Engine!SumFunctionOnSet(f, S) = SumFunctionOnSet(f, S)
  BY DEF Engine!SumFunctionOnSet, Engine!FoldFunctionOnSet, Engine!MapThenFoldSet,
         SumFunctionOnSet, FoldFunctionOnSet, MapThenFoldSet
<1>3. \A s : Engine!ToSet(s) = ToSet(s)
  BY DEF Engine!ToSet, ToSet
<1>4. \A s, i, e : Engine!InsertAt(s, i, e) = InsertAt(s, i, e)
  BY DEF Engine!InsertAt, InsertAt
<1>5. \A s, T : Engine!Select(s, T) = Among(s, T)
  BY DEF Engine!Select, Among, IsAmong
<1>6. \A S : Engine!Cardinality(S) = Cardinality(S)
  BY DEF Engine!Cardinality, Cardinality
<1> QED BY <1>1, <1>2, <1>3, <1>4, <1>5, <1>6

\* When the loops are over, the makers that the taker could reach, the first of those
\* found, have traded as MatchingEngine says.
LEMMA CallExecutes ==
    ASSUME FullInv, pc = "loop", ~CanMatch, pc' = "idle", UNCHANGED <<size, matches>>,
           NEW M \in Seq(Orders), Len(M) <= Len(Found),
           \A i \in DOMAIN M : M[i] = Found[i] /\ InReach(price[M[i]]),
           \A i \in DOMAIN Found : i > Len(M) => ~ InReach(price[Found[i]])
    PROVE  /\ Engine!Execute(Taker, bid[Taker], given[Taker], M)
           /\ size[Taker] = 0 => given[Taker] <= Engine!Ahead(M, Len(M) + 1)
<1> DEFINE sz == IF pc = "idle" THEN size ELSE Undone(before.size, 0)
           pr == IF pc = "idle" THEN price ELSE Undone(price, 0)
           D == [j \in DOMAIN M |-> sz[M[j]]]
<1>0. IInv /\ FoundInv /\ FilledInv /\ pc # "idle"
  BY DEF FullInv, MatchInv
<1>1. PICK N : N = Len(M)
  OBVIOUS
<1>2. PICK m : m = Len(matches)
  OBVIOUS
<1>3. PICK n : n = given[Taker]
  OBVIOUS
<1>4. /\ Opp \in BOOLEAN /\ Taker \in Orders
      /\ Found \in Seq(Orders) /\ DOMAIN Found = 1..Len(Found) /\ Len(Found) \in Nat
      /\ \A i, j \in DOMAIN Found : Found[i] = Found[j] => i = j
      /\ \A i \in DOMAIN Found :
            /\ Found[i] \in ToSet(Found) /\ Found[i] \in Orders /\ Found[i] # Taker
            /\ price[Found[i]] \in Prices
            /\ before.size[Found[i]] \in Nat \ {0} /\ size[Found[i]] \in Nat
  BY <1>0, FoundIs
<1>5. N \in Nat /\ DOMAIN M = 1..N /\ N <= Len(Found) /\ \A i \in 1..N : i \in DOMAIN Found /\ M[i] = Found[i]
  <2>1. N \in Nat /\ DOMAIN M = 1..N
    BY <1>1, InToSet
  <2> QED BY <1>1, <1>4, <2>1
<1>6. /\ sz = [x \in Orders |-> IF x = Taker THEN 0 ELSE before.size[x]]
      /\ pr = [x \in Orders |-> IF x = Taker THEN 0 ELSE price[x]]
  <2>1. before.size \in [Orders -> Nat] /\ price \in [Orders -> Nat]
    BY <1>0 DEF FoundInv, IInv, TypeOK
  <2> QED BY <1>0, <2>1 DEF Undone
<1>7. /\ matches \in Seq(Matched) /\ m \in Nat /\ DOMAIN matches = 1..m /\ m <= Len(Found)
      /\ \A i \in 1..m : FilledInTurn(i) /\ i \in DOMAIN Found
      /\ \A i \in DOMAIN Found : i > m => size[Found[i]] = before.size[Found[i]]
  <2>1. matches \in Seq(Matched) /\ m <= Len(Found)
    BY <1>0, <1>2 DEF FilledInv, Matched
  <2>2. m \in Nat /\ DOMAIN matches = 1..m
    BY <1>2, <2>1, InToSet
  <2>3. \A i \in 1..m : i \in DOMAIN Found
    BY <1>4, <2>1, <2>2
  <2>4. \A i \in 1..m : FilledInTurn(i)
    BY <1>0, <1>2, <2>2, <2>3 DEF FilledInv
  <2>5. \A i \in DOMAIN Found : i > m => size[Found[i]] = before.size[Found[i]]
    BY <1>0, <1>2, <1>4, <2>2 DEF FilledInv
  <2> QED BY <2>1, <2>2, <2>3, <2>4, <2>5
<1>8. m <= N
  <2> SUFFICES ASSUME m > N PROVE FALSE
    BY <1>5, <1>7
  <2>1. m \in DOMAIN Found /\ FilledInTurn(m)
    BY <1>5, <1>7
  <2>2. InReach(price[Found[m]])
    BY <2>1 DEF FilledInTurn
  <2> QED BY <1>1, <2>1, <2>2
<1>9. n \in Nat \ {0} /\ size[Taker] \in Nat
  <2>1. Taker \in 1..placed
    BY <1>4, OrdersAreNat DEF Taker
  <2>2. given[Taker] \in Sizes
    BY <2>1 DEF FullInv, GivenInv
  <2> QED BY <1>0, <1>3, <1>4, <2>2, SizesAssumption DEF IInv, TypeOK
<1> DEFINE g == [i \in 1..N |-> before.size[Found[i]] - size[Found[i]]]
<1>10. \A i \in 1..N : D[i] = before.size[Found[i]] /\ D[i] \in Nat \ {0}
  <2> HIDE DEF sz
  <2> QED BY <1>4, <1>5, <1>6
<1>11. ASSUME NEW i \in 1..m
       PROVE  /\ i \in 1..N /\ i \in DOMAIN Found
              /\ matches[i] = [maker |-> M[i], price |-> pr[M[i]], size |-> g[i]]
              /\ size[Found[i]] < before.size[Found[i]]
              /\ size[Found[i]] > 0 => i = m /\ size[Taker] = 0
  <2>1. FilledInTurn(i) /\ i \in 1..N /\ i \in DOMAIN Found
    BY <1>5, <1>7, <1>8
  <2>2. /\ matches[i] = [maker |-> Found[i], price |-> price[Found[i]],
                         size |-> before.size[Found[i]] - size[Found[i]]]
        /\ size[Found[i]] < before.size[Found[i]]
        /\ size[Found[i]] > 0 => i = m /\ size[Taker] = 0
    BY <1>2, <2>1 DEF FilledInTurn
  <2>3. M[i] = Found[i] /\ pr[M[i]] = price[Found[i]]
    <3> HIDE DEF pr
    <3> QED BY <1>4, <1>5, <1>6, <2>1
  <2> QED BY <2>1, <2>2, <2>3
<1>12. GivenInTurn(D, g, N, m, n, size[Taker])
  <2>1. \A i \in 1..N : g[i] \in Nat /\ g[i] <= D[i] /\ (g[i] = D[i] <=> size[Found[i]] = 0)
    <3> SUFFICES ASSUME NEW i \in 1..N
                 PROVE  g[i] \in Nat /\ g[i] <= D[i] /\ (g[i] = D[i] <=> size[Found[i]] = 0)
      OBVIOUS
    <3>1. /\ i \in DOMAIN Found /\ D[i] = before.size[Found[i]]
          /\ g[i] = before.size[Found[i]] - size[Found[i]]
      BY <1>5, <1>10
    <3>2. before.size[Found[i]] \in Nat /\ size[Found[i]] \in Nat
      BY <1>4, <3>1
    <3>3. size[Found[i]] <= before.size[Found[i]]
      <4>1. CASE i <= m
        <5>1. i \in 1..m
          BY <1>7, <4>1
        <5>2. size[Found[i]] < before.size[Found[i]]
          BY <1>11, <5>1
        <5> QED BY <3>2, <5>2
      <4>2. CASE i > m
        BY <1>7, <3>1, <3>2, <4>2
      <4> QED BY <1>7, <4>1, <4>2
    <3> HIDE DEF g, D
    <3> QED BY <3>1, <3>2, <3>3
  <2>2. \A i \in 1..N : i < m => size[Found[i]] = 0
    <3> SUFFICES ASSUME NEW i \in 1..N, i < m PROVE size[Found[i]] = 0
      OBVIOUS
    <3>1. i \in 1..m /\ i # m
      BY <1>7
    <3>2. size[Found[i]] \in Nat
      BY <1>4, <1>5
    <3>3. ~ (size[Found[i]] > 0)
      BY <1>11, <3>1
    <3> QED BY <3>2, <3>3
  <2>3. \A i \in 1..N : i > m => g[i] = 0
    BY <1>4, <1>5, <1>7
  <2>4. n - size[Taker] = SumFunctionOnSet(g, 1..m)
    <3>1. PICK f : f = [i \in DOMAIN matches |-> matches[i].size]
      OBVIOUS
    <3>2. PICK U : U = 1..m
      OBVIOUS
    <3>3. n - size[Taker] = SumFunctionOnSet(f, U)
      BY <1>0, <1>3, <1>7, <3>1, <3>2 DEF FilledInv
    <3>4. \A i \in U : f[i] = g[i]
      <4> SUFFICES ASSUME NEW i \in 1..m PROVE f[i] = g[i]
        BY <3>2
      <4>1. f[i] = matches[i].size
        BY <1>7, <3>1
      <4>2. matches[i].size = g[i]
        <5>1. matches[i] = [maker |-> M[i], price |-> pr[M[i]], size |-> g[i]]
          BY <1>11
        <5> HIDE DEF g, pr
        <5> QED BY <5>1
      <4> QED BY <4>1, <4>2
    <3>5. IsFiniteSet(U)
      <4>1. IsFiniteSet(1..m)
        BY <1>7, FS_Interval
      <4> QED BY <3>2, <4>1
    <3> HIDE DEF g
    <3>6. SumFunctionOnSet(f, U) = SumFunctionOnSet(g, U)
      BY <3>4, <3>5, SumSame
    <3> QED BY <3>2, <3>3, <3>6
  <2>5. ASSUME size[Taker] # 0 PROVE \A i \in 1..N : size[Found[i]] = 0
    <3> SUFFICES ASSUME NEW i \in 1..N, size[Found[i]] # 0 PROVE FALSE
      OBVIOUS
    <3>1. /\ i \in DOMAIN Found /\ Found[i] \in ToSet(Found) /\ size[Found[i]] \in Nat
          /\ M[i] = Found[i]
      BY <1>4, <1>5
    <3>2. Found[i] \in Resting(Opp)
      BY <1>0, <3>1 DEF FoundInv
    <3>3. price[Found[i]] \in ToSet(levels[Opp])
      BY <1>0, <1>4, <3>2, RestingOrders
    <3>4. ~ InReach(price[Found[i]])
      BY <1>0, <2>5, <3>3, NothingInReach
    <3> QED BY <1>5, <3>1, <3>4
  <2> HIDE DEF g, D
  <2> QED BY <1>10, <2>1, <2>2, <2>3, <2>4, <2>5 DEF GivenInTurn
<1> HIDE DEF D
<1>13. /\ \A i \in 1..N : Taken(D, Earlier(N), n, i) = g[i]
       /\ SumFunctionOnSet(D, 1..N) \in Nat
       /\ n - Min({n, SumFunctionOnSet(D, 1..N)}) = size[Taker]
       /\ size[Taker] = 0 => n <= SumFunctionOnSet(D, 1..N)
  <2>1. m \in 0..N
    BY <1>5, <1>7, <1>8
  <2> HIDE DEF g
  <2>2. PICK h : h = g
    OBVIOUS
  <2>3. PICK rest : rest = size[Taker]
    OBVIOUS
  <2>4. N \in Nat /\ n \in Nat \ {0} /\ rest \in Nat
    BY <1>5, <1>9, <2>3
  <2>5. GivenInTurn(D, h, N, m, n, rest)
    BY <1>12, <2>2, <2>3
  <2>6. /\ \A i \in 1..N : Taken(D, Earlier(N), n, i) = h[i]
        /\ SumFunctionOnSet(D, 1..N) \in Nat
        /\ n - Min({n, SumFunctionOnSet(D, 1..N)}) = rest
        /\ rest = 0 => n <= SumFunctionOnSet(D, 1..N)
    BY <2>1, <2>4, <2>5, TakenInTurn
  <2> QED BY <2>2, <2>3, <2>6
<1>14. ASSUME NEW i \in 1..N PROVE g[i] \in Nat /\ (g[i] > 0 <=> i <= m)
  <2>1. i \in DOMAIN Found
    BY <1>5
  <2>2. before.size[Found[i]] \in Nat /\ size[Found[i]] \in Nat
    BY <1>4, <2>1
  <2>3. CASE i <= m
    <3>1. i \in 1..m
      BY <1>7, <2>3
    <3>2. size[Found[i]] < before.size[Found[i]]
      BY <1>11, <3>1
    <3> QED BY <2>2, <2>3, <3>2
  <2>4. CASE i > m
    <3>1. g[i] = 0
      BY <1>7, <2>1, <2>2, <2>4
    <3> HIDE DEF g
    <3> QED BY <1>5, <1>7, <2>4, <3>1
  <2> QED BY <1>5, <1>7, <2>3, <2>4
<1>15. \A i \in 1..(N + 1) : Engine!Ahead(M, i) = SumFunctionOnSet(D, 1..(i - 1))
  BY EngineLibrary DEF Engine!Ahead, D
<1>16. \A i \in 1..N : Engine!Taken(M, n, i) = g[i]
  <2> SUFFICES ASSUME NEW i \in 1..N PROVE Engine!Taken(M, n, i) = Taken(D, Earlier(N), n, i)
    BY <1>13
  <2>1. D[i] = sz[M[i]] /\ Earlier(N)[i] = 1..(i - 1)
    BY <1>5 DEF D, Earlier
  <2>2. Engine!Taken(M, n, i) = Max({0, Min({sz[M[i]], n - Engine!Ahead(M, i)})})
    BY EngineLibrary DEF Engine!Taken
  <2>3. Engine!Ahead(M, i) = SumFunctionOnSet(D, Earlier(N)[i])
    BY <1>5, <1>15, <2>1
  <2> HIDE DEF sz
  <2> QED BY <2>1, <2>2, <2>3 DEF Taken
<1>17. PICK used : used = {i \in DOMAIN M : Engine!Taken(M, n, i) > 0}
  OBVIOUS
<1>18. PICK total : total = Engine!Min({n, Engine!Ahead(M, Len(M) + 1)})
  OBVIOUS
<1>19. used = 1..m
  <2> HIDE DEF g
  <2>1. \A i \in 1..N : i \in used <=> i <= m
    BY <1>5, <1>14, <1>16, <1>17
  <2> QED BY <1>5, <1>7, <1>8, <1>17, <2>1
<1>20. n - total = size[Taker] /\ (size[Taker] = 0 => n <= Engine!Ahead(M, N + 1))
  <2>1. Engine!Ahead(M, N + 1) = SumFunctionOnSet(D, 1..N)
    <3>1. N + 1 \in 1..(N + 1) /\ (N + 1) - 1 = N
      BY <1>5
    <3> QED BY <1>15, <3>1
  <2> QED BY <1>1, <1>13, <1>18, <2>1, EngineLibrary
<1>21. matches = [i \in used |-> [maker |-> M[i], price |-> pr[M[i]],
                                  size |-> Engine!Taken(M, n, i)]]
  <2> DEFINE F == [i \in used |-> [maker |-> M[i], price |-> pr[M[i]],
                                    size |-> Engine!Taken(M, n, i)]]
  <2>1. \A i \in 1..m : matches[i] = F[i]
    <3> SUFFICES ASSUME NEW i \in 1..m PROVE matches[i] = F[i]
      OBVIOUS
    <3>1. i \in 1..N /\ matches[i] = [maker |-> M[i], price |-> pr[M[i]], size |-> g[i]]
      BY <1>11
    <3>2. F[i] = [maker |-> M[i], price |-> pr[M[i]], size |-> Engine!Taken(M, n, i)]
      BY <1>19
    <3> HIDE DEF F, g, pr
    <3> QED BY <1>16, <3>1, <3>2
  <2>2. matches = [i \in 1..m |-> matches[i]]
    BY <1>7
  <2>3. F = [i \in 1..m |-> F[i]]
    BY <1>19
  <2> HIDE DEF F
  <2>4. matches = F
    BY <2>1, <2>2, <2>3
  <2> QED BY <2>4 DEF F
<1>22. size = [x \in Orders |->
                 IF x = Taker THEN n - total
                 ELSE IF x \in {M[i] : i \in used}
                      THEN sz[x] - Engine!Taken(M, n, CHOOSE i \in used : M[i] = x)
                      ELSE sz[x]]
  <2>1. size \in [Orders -> Nat]
    BY <1>0 DEF IInv, TypeOK
  <2> SUFFICES ASSUME NEW x \in Orders
               PROVE  size[x] = IF x = Taker THEN n - total
                                ELSE IF x \in {M[i] : i \in used}
                                     THEN sz[x] - Engine!Taken(M, n, CHOOSE i \in used : M[i] = x)
                                     ELSE sz[x]
    BY <2>1
  <2>2. x # Taker => sz[x] = before.size[x]
    BY <1>6
  <2> HIDE DEF sz
  <2>3. CASE x = Taker
    BY <1>20, <2>3
  <2>4. CASE x # Taker /\ x \in {M[i] : i \in used}
    <3>1. PICK i : i = CHOOSE j \in used : M[j] = x
      OBVIOUS
    <3>2. i \in used /\ M[i] = x
      BY <2>4, <3>1
    <3>3. i \in 1..N /\ i \in DOMAIN Found /\ Found[i] = x
      BY <1>5, <1>17, <3>2
    <3>4. Engine!Taken(M, n, i) = before.size[x] - size[x]
      BY <1>16, <3>3
    <3>5. before.size[x] \in Nat /\ size[x] \in Nat
      BY <1>4, <3>3
    <3>6. sz[x] - Engine!Taken(M, n, i) = size[x]
      BY <2>2, <2>4, <3>4, <3>5
    <3> QED BY <2>4, <3>1, <3>6
  <2>5. CASE x # Taker /\ x \notin {M[i] : i \in used}
    <3>1. before.size[x] = size[x]
      <4>1. CASE x \notin ToSet(Found)
        BY <1>0, <2>5, <4>1 DEF FoundInv
      <4>2. CASE x \in ToSet(Found)
        <5>1. PICK i \in DOMAIN Found : Found[i] = x
          BY <1>4, <4>2, InToSet
        <5>2. i \notin used
          BY <1>5, <1>17, <2>5, <5>1
        <5>3. i > m
          BY <1>4, <1>7, <1>19, <5>2
        <5> QED BY <1>7, <5>1, <5>3
      <4> QED BY <4>1, <4>2
    <3> QED BY <2>2, <2>5, <3>1
  <2> QED BY <2>3, <2>4, <2>5
<1>23. Engine!Execute(Taker, bid[Taker], n, M)
  <2>1. (IF pc = "idle" THEN matches ELSE before.matches)' = matches
    OBVIOUS
  <2>2. (IF pc = "idle" THEN size ELSE Undone(before.size, 0))' = size
    OBVIOUS
  <2> QED BY <1>17, <1>18, <1>21, <1>22, <2>1, <2>2 DEF Engine!Execute
<1> QED BY <1>1, <1>3, <1>20, <1>23

\* What rests is what the queues hold.
RestsInQueues ==
    \A s \in BOOLEAN : \A x : x \in Resting(s) <=> \E p \in Prices : x \in ToSet(queue[s][p])

LEMMA HasRestsInQueues == IInv => RestsInQueues
<1> SUFFICES ASSUME IInv, NEW s \in BOOLEAN, NEW x
             PROVE  x \in Resting(s) <=> \E p \in Prices : x \in ToSet(queue[s][p])
  BY DEF RestsInQueues
<1>1. levels[s] \in Seq(Prices) /\ ToSet(levels[s]) = limits[s]
  BY DEF IInv, TypeOK, LevelsAgree
<1>2. ASSUME NEW p \in Prices, x \in ToSet(queue[s][p]) PROVE p \in ToSet(levels[s])
  <2>1. queue[s][p] # <<>>
    BY <1>2, EmptySequence
  <2>2. p \notin limits[s] => queue[s][p] = <<>>
    BY DEF IInv, QueueInv
  <2> QED BY <1>1, <2>1, <2>2
<1>3. \A p \in ToSet(levels[s]) : p \in Prices
  BY <1>1, InToSet
<1> QED BY <1>2, <1>3 DEF Resting

\* A sequence of what rests on a side, in the order of its orders, is the side in order.
LEMMA InOrderIs ==
    ASSUME IInv, NEW b \in BOOLEAN, NEW s \in Seq(Orders), ToSet(s) = Resting(b),
           Ordered(s, InFront(b))
    PROVE  InOrder(b) = s
<1>1. /\ InOrder(b) \in Seq(Orders) /\ ToSet(InOrder(b)) = Resting(b)
      /\ Ordered(InOrder(b), InFront(b))
  BY InOrderFacts
<1>2. Asymmetric(InFront(b))
  BY InFrontIs
<1>3. ToSet(InOrder(b)) = ToSet(s)
  BY <1>1
<1> QED BY <1>1, <1>2, <1>3, OrderedUnique

\* The orders found that are still open are those that rest.
LEMMA FoundStillOpen ==
    ASSUME FullInv, pc = "loop", pc' = "idle", UNCHANGED size
    PROVE  Engine!StillOpen(Found) = InOrder(Opp)
<1> DEFINE T == {m \in Orders : size[m] > 0}
<1>1. IInv /\ FoundInv /\ pc # "idle"
  BY DEF FullInv, MatchInv
<1>2. Found \in Seq(Orders) /\ Opp \in BOOLEAN /\ Ordered(Found, InFront(Opp))
  BY <1>1, FoundIs
<1>3. PICK s : s = Among(Found, T)
  OBVIOUS
<1>4. s \in Seq(Orders) /\ ToSet(s) = ToSet(Found) \cap T /\ Ordered(s, InFront(Opp))
  <2> HIDE DEF T
  <2> QED BY <1>2, <1>3, AmongProperties
<1>5. \A x \in Resting(Opp) : x \in ToSet(Found) /\ x \in T
  <2> SUFFICES ASSUME NEW x \in Resting(Opp) PROVE x \in ToSet(Found) /\ x \in T
    OBVIOUS
  <2>1. /\ x \in Orders /\ size[x] \in Nat /\ x \in ToSet(queue[Opp][price[x]])
        /\ price[x] \in Prices
    BY <1>1, <1>2, RestingOrders
  <2>2. size[x] # 0
    BY <1>1, <1>2, <2>1 DEF IInv, SpentInv, InFill
  <2> QED BY <1>1, <2>1, <2>2 DEF FoundInv
<1>6. \A x \in ToSet(Found) \cap T : x \in Resting(Opp)
  BY <1>1 DEF FoundInv
<1>7. ToSet(s) = Resting(Opp)
  BY <1>4, <1>5, <1>6
<1>8. InOrder(Opp) = s
  BY <1>1, <1>2, <1>4, <1>7, InOrderIs
<1>9. Engine!StillOpen(Found) = Engine!Select(Found, T)
  BY DEF Engine!StillOpen
<1> QED BY <1>3, <1>8, <1>9, EngineLibrary

\* The makers a limit order can reach are the first of those found.
LEMMA MakersFound ==
    ASSUME FullInv, pc = "loop", call = "limit",
           NEW T, \A x \in ToSet(Found) : x \in T <=> Crosses(bid[Taker], price[Taker], price[x]),
           NEW M, M = Among(Found, T)
    PROVE  /\ M \in Seq(Orders) /\ Len(M) <= Len(Found)
           /\ \A i \in DOMAIN M : M[i] = Found[i] /\ InReach(price[M[i]])
           /\ \A i \in DOMAIN Found : i > Len(M) => ~ InReach(price[Found[i]])
<1> DEFINE b == bid[Taker]
<1>1. IInv /\ FoundInv /\ pc # "idle"
  BY DEF FullInv, MatchInv
<1>2. /\ Found \in Seq(Orders) /\ DOMAIN Found = 1..Len(Found) /\ Len(Found) \in Nat
      /\ Opp \in BOOLEAN /\ Opp = ~b /\ b \in BOOLEAN /\ Taker \in Orders
      /\ Ordered(Found, InFront(Opp)) /\ Asymmetric(InFront(Opp))
      /\ \A i, j \in DOMAIN Found : Found[i] = Found[j] => i = j
      /\ \A i \in DOMAIN Found : Found[i] \in ToSet(Found) /\ Found[i] \in Orders
  BY <1>1, FoundIs
<1>3. M \in Seq(Orders) /\ ToSet(M) = ToSet(Found) \cap T /\ Ordered(M, InFront(Opp))
  BY <1>2, AmongProperties
<1>4. \A x \in ToSet(Found) : x \in T <=> InReach(price[x])
  BY DEF InReach
<1>5. ASSUME NEW j \in DOMAIN Found, NEW k \in DOMAIN Found, j < k, Found[k] \in T
      PROVE  Found[j] \in T
  <2>1. Before(Opp, Found[j], Found[k]) /\ Found[j] \in Orders /\ Found[k] \in Orders
    BY <1>1, <1>2, <1>5 DEF FoundInv
  <2>2. price[Found[j]] \in Nat /\ price[Found[k]] \in Nat /\ price[Taker] \in Nat
    BY <1>1, <1>2, <2>1 DEF IInv, TypeOK
  <2>3. Crosses(b, price[Taker], price[Found[k]])
    BY <1>2, <1>5
  <2>4. Crosses(b, price[Taker], price[Found[j]])
    <3>1. PICK pj \in Nat, pk \in Nat, pt \in Nat :
             pj = price[Found[j]] /\ pk = price[Found[k]] /\ pt = price[Taker]
      BY <2>2
    <3>2. Better(Opp, pj, pk) \/ pj = pk
      BY <2>1, <3>1 DEF Before
    <3>3. Crosses(b, pt, pk)
      BY <2>3, <3>1
    <3> HIDE DEF b
    <3>4. CASE b = TRUE
      <4>1. Opp = FALSE
        BY <1>2, <3>4
      <4>2. (pj < pk \/ pj = pk) /\ pk <= pt
        BY <3>2, <3>3, <3>4, <4>1 DEF Better, Crosses
      <4>3. pj <= pt
        BY <4>2
      <4> QED BY <3>1, <3>4, <4>3 DEF Crosses
    <3>5. CASE b = FALSE
      <4>1. Opp = TRUE
        BY <1>2, <3>5
      <4>2. (pj > pk \/ pj = pk) /\ pk >= pt
        BY <3>2, <3>3, <3>5, <4>1 DEF Better, Crosses
      <4>3. pj >= pt
        BY <4>2
      <4> QED BY <3>1, <3>5, <4>3 DEF Crosses
    <3> QED BY <1>2, <3>4, <3>5
  <2> QED BY <1>2, <2>1, <2>4
<1> HIDE DEF b
<1>6. Len(M) <= Len(Found) /\ \A i \in DOMAIN M : i \in DOMAIN Found /\ M[i] = Found[i]
  <2>1. \A j, k \in DOMAIN Found : j < k /\ Found[k] \in ToSet(M) => Found[j] \in ToSet(M)
    BY <1>2, <1>3, <1>5
  <2>2. ToSet(M) \subseteq ToSet(Found)
    BY <1>3
  <2> QED BY <1>2, <1>3, <2>1, <2>2, OrderedPrefix
<1>7. DOMAIN M = 1..Len(M) /\ Len(M) \in Nat /\ \A i \in DOMAIN M : M[i] \in ToSet(M) /\ M[i] \in Orders
  BY <1>3, InToSet
<1>8. ASSUME NEW i \in DOMAIN Found, InReach(price[Found[i]]) PROVE i <= Len(M)
  <2>1. Found[i] \in ToSet(M)
    BY <1>2, <1>3, <1>4, <1>8
  <2>2. PICK k \in DOMAIN M : M[k] = Found[i]
    <3>1. M \in Seq(Orders)
      BY <1>3
    <3>2. \A x \in ToSet(M) : \E k \in DOMAIN M : M[k] = x
      BY <3>1, InToSet
    <3> QED BY <2>1, <3>2
  <2>3. k = i
    BY <1>2, <1>6, <2>2
  <2> QED BY <1>7, <2>3
<1>9. \A i \in DOMAIN M : InReach(price[M[i]])
  <2>1. \A i \in DOMAIN M : M[i] \in ToSet(Found) /\ M[i] \in T
    BY <1>3, <1>7
  <2> QED BY <1>4, <2>1
<1>10. \A i \in DOMAIN Found : i > Len(M) => ~ InReach(price[Found[i]])
  <2> SUFFICES ASSUME NEW i \in DOMAIN Found, i > Len(M), InReach(price[Found[i]]) PROVE FALSE
    OBVIOUS
  <2>1. i <= Len(M)
    BY <1>8
  <2>2. i \in Nat /\ Len(M) \in Nat
    BY <1>2, <1>7
  <2> QED BY <2>1, <2>2
<1> QED BY <1>3, <1>6, <1>9, <1>10

\* When a call returns, its order has been received.
LEMMA EngineReceive ==
    ASSUME IInv, pc # "idle", pc' = "idle", UNCHANGED <<placed, bid, price>>
    PROVE  Engine!Receive(Taker, bid[Taker], price[Taker])
<1>1. Taker \in Orders /\ Taker' = Taker /\ placed = Taker /\ Taker \in Nat \ {0}
  BY OrdersAreNat DEF IInv, CallInv, Taker
<1>2. 1..Taker = 1..(Taker - 1) \cup {Taker} /\ Taker \notin 1..(Taker - 1)
  BY <1>1
<1>3. bid \in [Orders -> BOOLEAN] /\ price \in [Orders -> Nat]
  BY DEF IInv, TypeOK
<1>4. Undone(bid, FALSE)' = bid /\ Undone(price, 0)' = price
  BY DEF Undone
<1>5. /\ bid = [Undone(bid, FALSE) EXCEPT ![Taker] = bid[Taker]]
      /\ price = [Undone(price, 0) EXCEPT ![Taker] = price[Taker]]
  BY <1>1, <1>3 DEF Undone
<1> QED BY <1>1, <1>2, <1>4, <1>5 DEF Engine!Receive

\* The makers of the call are those that MatchingEngine selects, they have traded as it
\* says, and the other side is what is still open of it.
LEMMA CallOfLimit ==
    ASSUME FullInv, pc = "loop", ~CanMatch, call = "limit", pc' = "idle",
           UNCHANGED <<placed, bid, price, size, matches>>,
           NEW B, B = IF size[Taker] > 0
                      THEN Engine!Enqueue(InOrder(bid[Taker]), Taker, bid[Taker], price[Taker])
                      ELSE InOrder(bid[Taker]),
           \A s \in BOOLEAN : InOrder(s)' = IF s = Opp THEN InOrder(s) ELSE B
    PROVE  Engine!Next
<1> DEFINE b == bid[Taker]
           T == {m \in Orders : Engine!Crosses(b, price[Taker], Undone(price, 0)[m])}
           bk == IF pc = "idle" THEN [s \in BOOLEAN |-> InOrder(s)] ELSE before.book
           sz == IF pc = "idle" THEN size ELSE Undone(before.size, 0)
<1>1. IInv /\ FoundInv /\ pc # "idle"
  BY DEF FullInv, MatchInv
<1>2. /\ Opp \in BOOLEAN /\ Opp = ~b /\ b \in BOOLEAN /\ Taker \in Orders
      /\ Found \in Seq(Orders)
      /\ \A i \in DOMAIN Found : Found[i] \in Orders /\ Found[i] # Taker
  BY <1>1, FoundIs
<1>3. \A x \in ToSet(Found) : x \in Orders /\ x # Taker
  <2>1. \A x \in ToSet(Found) : \E i \in DOMAIN Found : Found[i] = x
    BY <1>2, InToSet
  <2> QED BY <1>2, <2>1
<1>4. \A x \in ToSet(Found) : x \in T <=> Crosses(b, price[Taker], price[x])
  <2>1. \A x \in ToSet(Found) : Undone(price, 0)[x] = price[x]
    BY <1>1, <1>3 DEF Undone, IInv, TypeOK
  <2> QED BY <1>3, <2>1 DEF Crosses, Engine!Crosses
<1>5. PICK M : M = Engine!Select(Found, T)
  OBVIOUS
<1>6. /\ M \in Seq(Orders) /\ Len(M) <= Len(Found)
      /\ \A i \in DOMAIN M : M[i] = Found[i] /\ InReach(price[M[i]])
      /\ \A i \in DOMAIN Found : i > Len(M) => ~ InReach(price[Found[i]])
  <2>1. M = Among(Found, T)
    BY <1>5, EngineLibrary
  <2> HIDE DEF T
  <2> QED BY <1>4, <2>1, MakersFound
<1>7. Engine!Execute(Taker, b, given[Taker], M)
  BY <1>6, CallExecutes
<1>8. Engine!Receive(Taker, b, price[Taker])
  BY <1>1, EngineReceive
<1>9. Engine!StillOpen(Found) = InOrder(Opp)
  BY FoundStillOpen
<1>10. bk[~b] = Found /\ bk[b] = InOrder(b) /\ sz'[Taker] = size[Taker] /\ bk = before.book
  BY <1>1, <1>2 DEF Found, FoundInv
<1>11. bk' = [s \in BOOLEAN |-> InOrder(s)']
  OBVIOUS
<1>13. \A s \in BOOLEAN : s # b => s = ~b
  BY <1>2
<1> HIDE DEF T, bk, sz
<1>14. bk' = [s \in BOOLEAN |->
                IF s # b THEN Engine!StillOpen(bk[s])
                ELSE IF sz'[Taker] > 0 THEN Engine!Enqueue(bk[b], Taker, b, price[Taker])
                ELSE bk[b]]
  <2>1. ASSUME NEW s \in BOOLEAN, s # b PROVE InOrder(s)' = Engine!StillOpen(bk[s])
    <3>1. s = ~b
      BY <1>13, <2>1
    <3>2. Engine!StillOpen(bk[s]) = InOrder(Opp)
      BY <1>9, <1>10, <3>1
    <3>3. InOrder(s)' = InOrder(Opp)
      BY <1>2, <3>1, Zenon
    <3> QED BY <3>2, <3>3
  <2>2. ASSUME NEW s \in BOOLEAN, ~ (s # b)
        PROVE  InOrder(s)' = IF sz'[Taker] > 0 THEN Engine!Enqueue(bk[b], Taker, b, price[Taker])
                             ELSE bk[b]
    <3>1. InOrder(s)' = B
      BY <1>2, <2>2
    <3>2. B = IF size[Taker] > 0 THEN Engine!Enqueue(InOrder(b), Taker, b, price[Taker])
              ELSE InOrder(b)
      BY DEF b
    <3> QED BY <1>10, <3>1, <3>2, Zenon
  <2> QED BY <1>11, <2>1, <2>2
<1>15. Engine!LimitOrder(Taker, b, price[Taker], given[Taker])
  BY <1>5, <1>7, <1>8, <1>10, <1>14 DEF Engine!LimitOrder, T, bk, sz
<1>16. price[Taker] \in Prices /\ given[Taker] \in Sizes
  <2>1. Taker \in 1..placed
    BY <1>2, OrdersAreNat DEF Taker
  <2> QED BY <1>1, <2>1 DEF FullInv, GivenInv, IInv, CallInv
<1> QED BY <1>2, <1>15, <1>16 DEF Engine!Next

\* The loops end with nothing to rest: what the call has found and left.
LEMMA EngineReturn == FullInv /\ Return => Engine!Next
<1> SUFFICES ASSUME FullInv, Return PROVE Engine!Next
  OBVIOUS
<1> DEFINE b == bid[Taker]
           bk == IF pc = "idle" THEN [s \in BOOLEAN |-> InOrder(s)] ELSE before.book
<1>1. /\ pc = "loop" /\ ~CanMatch /\ ~MustRest /\ pc' = "idle"
      /\ UNCHANGED <<placed, bid, price, size, matches, levels, queue>>
  BY DEF Return, book
<1>2. IInv /\ SumInv /\ FoundInv /\ pc # "idle"
  BY <1>1 DEF FullInv, MatchInv
<1>3. \A s \in BOOLEAN : InOrder(s)' = InOrder(s)
  BY <1>1 DEF InOrder
<1>4. /\ Opp \in BOOLEAN /\ Opp = ~b /\ b \in BOOLEAN /\ Taker \in Orders
      /\ Found \in Seq(Orders)
  BY <1>2, FoundIs
<1>5. CASE call = "limit"
  <2>1. size[Taker] \in Nat /\ ~ (size[Taker] > 0)
    BY <1>1, <1>2, <1>4, <1>5 DEF MustRest, IInv, TypeOK
  <2>2. PICK B : B = InOrder(b)
    OBVIOUS
  <2>3. \A s \in BOOLEAN : InOrder(s)' = IF s = Opp THEN InOrder(s) ELSE B
    <3> SUFFICES ASSUME NEW s \in BOOLEAN PROVE InOrder(s)' = IF s = Opp THEN InOrder(s) ELSE B
      OBVIOUS
    <3>1. s = Opp \/ s = b
      BY <1>4
    <3>2. InOrder(s)' = InOrder(s)
      BY <1>3
    <3> QED BY <2>2, <3>1, <3>2, Zenon
  <2>4. B = IF size[Taker] > 0
            THEN Engine!Enqueue(InOrder(bid[Taker]), Taker, bid[Taker], price[Taker])
            ELSE InOrder(bid[Taker])
    BY <2>1, <2>2
  <2> QED BY <1>1, <1>5, <2>3, <2>4, CallOfLimit
<1>6. CASE call = "market"
  <2>1. size[Taker] = 0
    BY <1>1, <1>2, <1>6, MarketFilled
  <2>2. \A q : InReach(q)
    BY <1>6 DEF InReach
  <2>3. /\ Engine!Execute(Taker, b, given[Taker], Found)
        /\ given[Taker] <= Engine!Ahead(Found, Len(Found) + 1)
    <3>1. Len(Found) \in Nat /\ DOMAIN Found = 1..Len(Found)
      BY <1>4, InToSet
    <3>2. PICK M : M = Found
      OBVIOUS
    <3>3. /\ M \in Seq(Orders) /\ Len(M) <= Len(Found)
          /\ \A i \in DOMAIN M : M[i] = Found[i] /\ InReach(price[M[i]])
          /\ \A i \in DOMAIN Found : i > Len(M) => ~ InReach(price[Found[i]])
      BY <1>4, <2>2, <3>1, <3>2
    <3>4. /\ Engine!Execute(Taker, b, given[Taker], M)
          /\ size[Taker] = 0 => given[Taker] <= Engine!Ahead(M, Len(M) + 1)
      BY <1>1, <3>3, CallExecutes
    <3> QED BY <2>1, <3>2, <3>4
  <2>4. price[Taker] = 0 /\ Engine!Receive(Taker, b, price[Taker])
    BY <1>1, <1>2, <1>6, EngineReceive DEF FoundInv
  <2>5. /\ bk = before.book /\ bk[~b] = Found /\ bk[b] = InOrder(b) /\ DOMAIN bk = BOOLEAN
        /\ bk' = [s \in BOOLEAN |-> InOrder(s)']
    BY <1>1, <1>2, <1>4 DEF Found, FoundInv
  <2> HIDE DEF bk
  <2>6. bk' = [bk EXCEPT ![~b] = Engine!StillOpen(@)]
    <3>1. Engine!StillOpen(Found) = InOrder(Opp)
      BY <1>1, FoundStillOpen
    <3>2. ASSUME NEW s \in BOOLEAN
          PROVE  InOrder(s)' = IF s = ~b THEN Engine!StillOpen(bk[~b]) ELSE bk[s]
      <4>1. InOrder(s)' = InOrder(s) /\ (s = ~b \/ s = b)
        BY <1>3, <1>4
      <4> QED BY <1>4, <2>5, <3>1, <4>1
    <3> QED BY <2>5, <3>2
  <2>7. Engine!MarketOrder(Taker, b, given[Taker])
    BY <2>3, <2>4, <2>5, <2>6 DEF Engine!MarketOrder, Engine!Depth, bk
  <2>8. given[Taker] \in Sizes
    <3>1. Taker \in 1..placed
      BY <1>4, OrdersAreNat DEF Taker
    <3> QED BY <3>1 DEF FullInv, GivenInv
  <2> QED BY <1>4, <2>7, <2>8 DEF Engine!Next
<1> QED BY <1>2, <1>5, <1>6 DEF IInv, TypeOK

\* A sequence of what rests on a side, in the order of its orders, is the side in order.
OneOrder ==
    \A b \in BOOLEAN : \A s \in Seq(Orders) :
       ToSet(s) = Resting(b) /\ Ordered(s, InFront(b)) => InOrder(b) = s

LEMMA HasOneOrder == IInv => OneOrder
  BY InOrderIs DEF OneOrder

LEMMA InOrderNext ==
    ASSUME IInv', UNCHANGED price, NEW b \in BOOLEAN, NEW s \in Seq(Orders),
           ToSet(s) = Resting(b)', Ordered(s, InFront(b))
    PROVE  InOrder(b)' = s
<1>1. IInv' => OneOrder'
  BY HasOneOrder, PTL
<1>2. InFront(b)' = InFront(b)
  BY DEF InFront, Before, Better
<1> QED BY <1>1, <1>2 DEF OneOrder

\* The taker goes behind the orders that are before it.
LEMMA Enqueued ==
    ASSUME IInv, pc # "idle",
           NEW B, B = Engine!Enqueue(InOrder(bid[Taker]), Taker, bid[Taker], price[Taker])
    PROVE  /\ B \in Seq(Orders) /\ ToSet(B) = Resting(bid[Taker]) \cup {Taker}
           /\ Ordered(B, InFront(bid[Taker]))
<1> DEFINE K0 == {i \in DOMAIN InOrder(bid[Taker]) :
                    ~ Engine!Better(bid[Taker], price[Taker],
                                    Undone(price, 0)[InOrder(bid[Taker])[i]])}
<1>a. PICK b : b = bid[Taker]
  OBVIOUS
<1>b. PICK p : p = price[Taker]
  OBVIOUS
<1>c. PICK s : s = InOrder(b)
  OBVIOUS
<1>d. PICK K : K = K0
  OBVIOUS
<1>1. /\ b \in BOOLEAN /\ Taker \in Orders /\ Taker \in Nat /\ Taker = placed /\ p \in Nat
      /\ price \in [Orders -> Nat]
  BY <1>a, <1>b, OrdersAreNat DEF IInv, CallInv, TypeOK, Taker
<1>2. /\ s \in Seq(Orders) /\ ToSet(s) = Resting(b) /\ Ordered(s, InFront(b))
  BY <1>1, <1>c, InOrderFacts
<1>3. /\ DOMAIN s = 1..Len(s) /\ Len(s) \in Nat
      /\ \A i \in DOMAIN s : s[i] \in ToSet(s)
  BY <1>2, InToSet
<1>4. \A i \in DOMAIN s : /\ s[i] \in Orders /\ s[i] < Taker /\ price[s[i]] \in Nat
                          /\ Undone(price, 0)[s[i]] = price[s[i]]
  <2> SUFFICES ASSUME NEW i \in DOMAIN s
               PROVE  /\ s[i] \in Orders /\ s[i] < Taker /\ price[s[i]] \in Nat
                      /\ Undone(price, 0)[s[i]] = price[s[i]]
    OBVIOUS
  <2>1. s[i] \in Resting(b)
    BY <1>2, <1>3
  <2>2. s[i] \in Orders /\ s[i] \in Nat /\ s[i] <= placed /\ s[i] # Taker
    BY <1>1, <2>1, RestingOrders
  <2>3. s[i] < Taker
    BY <1>1, <2>2
  <2> QED BY <1>1, <2>2, <2>3 DEF Undone
<1>5. K = {i \in DOMAIN s : ~ Better(b, p, price[s[i]])}
  <2>1. K = {i \in DOMAIN s : ~ Engine!Better(b, p, Undone(price, 0)[s[i]])}
    BY <1>a, <1>b, <1>c, <1>d
  <2> QED BY <1>4, <2>1 DEF Better, Engine!Better
<1>6. \A i \in DOMAIN s : i \in K => <<s[i], Taker>> \in InFront(b)
  <2> SUFFICES ASSUME NEW i \in DOMAIN s, ~ Better(b, p, price[s[i]])
               PROVE  Before(b, s[i], Taker)
    BY <1>1, <1>4, <1>5, InFrontIs
  <2>1. PICK q \in Nat : q = price[s[i]]
    BY <1>4
  <2>2. Better(b, q, p) \/ q = p
    BY <1>1, <2>1 DEF Better
  <2> QED BY <1>b, <1>4, <2>1, <2>2 DEF Before
<1>7. \A i \in DOMAIN s : i \notin K => <<Taker, s[i]>> \in InFront(b)
  <2> SUFFICES ASSUME NEW i \in DOMAIN s, Better(b, p, price[s[i]])
               PROVE  Before(b, Taker, s[i])
    BY <1>1, <1>4, <1>5, InFrontIs
  <2> QED BY <1>b DEF Before
<1>8. ASSUME NEW i \in DOMAIN s, NEW j \in DOMAIN s, i < j, j \in K PROVE i \in K
  <2>1. PICK q \in Nat, r \in Nat : q = price[s[i]] /\ r = price[s[j]]
    BY <1>4
  <2>2. Before(b, s[i], s[j])
    BY <1>1, <1>2, <1>4, <1>8, InFrontIs DEF Ordered
  <2>3. Better(b, q, r) \/ q = r
    BY <2>1, <2>2 DEF Before
  <2>4. ~ Better(b, p, r)
    BY <1>5, <1>8, <2>1
  <2>5. ~ Better(b, p, q)
    BY <1>1, <2>3, <2>4 DEF Better
  <2> QED BY <1>5, <2>1, <2>5
<1>9. PICK k : k = Cardinality(K)
  OBVIOUS
<1>10. k \in 0..Len(s) /\ K = 1..k
  <2>1. PICK n : n = Len(s)
    OBVIOUS
  <2>2. n \in Nat /\ K \in SUBSET (1..n)
    BY <1>3, <1>5, <2>1
  <2>3. \A i, j \in 1..n : i < j /\ j \in K => i \in K
    BY <1>3, <1>8, <2>1
  <2> QED BY <1>9, <2>1, <2>2, <2>3, FirstNumbers
<1>11. PICK l : l = k + 1
  OBVIOUS
<1>12. B = InsertAt(s, l, Taker)
  <2>1. B = Engine!InsertAt(InOrder(bid[Taker]), Engine!Cardinality(K0) + 1, Taker)
    BY DEF Engine!Enqueue
  <2>2. B = InsertAt(InOrder(bid[Taker]), Cardinality(K0) + 1, Taker)
    BY <2>1, EngineLibrary
  <2> QED BY <1>a, <1>c, <1>d, <1>9, <1>11, <2>2
<1> HIDE DEF K0
<1>13. l \in 1..(Len(s) + 1)
  BY <1>3, <1>10, <1>11
<1>14. /\ \A i \in DOMAIN s : i < l => <<s[i], Taker>> \in InFront(b)
       /\ \A i \in DOMAIN s : i >= l => <<Taker, s[i]>> \in InFront(b)
  <2>1. \A i \in DOMAIN s : i < l => i \in K
    BY <1>3, <1>10, <1>11
  <2>2. \A i \in DOMAIN s : i >= l => i \notin K
    BY <1>3, <1>10, <1>11
  <2> QED BY <1>6, <1>7, <2>1, <2>2
<1>15. B \in Seq(Orders)
  BY <1>1, <1>2, <1>12, <1>13, InsertProperties
<1>16. ToSet(B) = ToSet(s) \cup {Taker}
  BY <1>1, <1>2, <1>12, <1>13, InsertProperties
<1>17. Ordered(B, InFront(b))
  <2>1. \A r : /\ Ordered(s, r)
               /\ \A i \in DOMAIN s : i < l => <<s[i], Taker>> \in r
               /\ \A i \in DOMAIN s : i >= l => <<Taker, s[i]>> \in r
               => Ordered(InsertAt(s, l, Taker), r)
    BY <1>1, <1>2, <1>13, InsertProperties
  <2> QED BY <1>2, <1>12, <1>14, <2>1
<1> QED BY <1>a, <1>2, <1>15, <1>16, <1>17

\* The loops of a limit order end with something left, which rests.
LEMMA EngineRest == FullInv /\ IInv' /\ AddRestingLimitOrder => Engine!Next
<1> SUFFICES ASSUME FullInv, IInv', AddRestingLimitOrder PROVE Engine!Next
  OBVIOUS
<1>a. PICK b : b = bid[Taker]
  OBVIOUS
<1>b. PICK p : p = price[Taker]
  OBVIOUS
<1>1. /\ pc = "loop" /\ ~CanMatch /\ MustRest /\ call = "limit" /\ pc' = "idle"
      /\ UNCHANGED <<placed, bid, price, size, matches>>
      /\ queue' = [queue EXCEPT ![b][p] = IF p \notin limits[b] THEN <<Taker>>
                                           ELSE Append(@, Taker)]
  BY <1>a, <1>b DEF AddRestingLimitOrder, MustRest
<1>2. IInv /\ FoundInv /\ pc # "idle"
  BY <1>1 DEF FullInv, MatchInv
<1>3. Opp \in BOOLEAN /\ Opp = ~b /\ b \in BOOLEAN /\ Taker \in Orders
  BY <1>a, <1>2, FoundIs
<1>4. p \in Prices /\ size[Taker] > 0
  BY <1>b, <1>1, <1>2 DEF IInv, CallInv, MustRest
<1>5. PICK B : B = Engine!Enqueue(InOrder(bid[Taker]), Taker, bid[Taker], price[Taker])
  OBVIOUS
<1>6. B \in Seq(Orders) /\ ToSet(B) = Resting(b) \cup {Taker} /\ Ordered(B, InFront(b))
  BY <1>a, <1>2, <1>5, Enqueued
<1>7. \A s \in BOOLEAN : \A q \in Prices :
         ToSet(queue'[s][q]) = IF s = b /\ q = p THEN ToSet(queue[s][q]) \cup {Taker}
                               ELSE ToSet(queue[s][q])
  <2>1. queue \in [BOOLEAN -> [Prices -> Seq(Orders)]]
    BY <1>2 DEF IInv, TypeOK
  <2>2. \A s \in BOOLEAN : \A q \in Prices : ~ (s = b /\ q = p) => queue'[s][q] = queue[s][q]
    BY <1>1, <1>3, <1>4, <2>1
  <2>3. queue'[b][p] = IF p \notin limits[b] THEN <<Taker>> ELSE Append(queue[b][p], Taker)
    BY <1>1, <1>3, <1>4, <2>1
  <2>4. p \notin limits[b] => queue[b][p] = <<>>
    BY <1>2, <1>3, <1>4 DEF IInv, QueueInv
  <2>5. ToSet(<<Taker>>) = {Taker}
    BY DEF ToSet
  <2>6. queue[b][p] \in Seq(Orders)
    BY <1>3, <1>4, <2>1
  <2>7. ToSet(Append(queue[b][p], Taker)) = ToSet(queue[b][p]) \cup {Taker}
    <3>1. \A s \in Seq(Orders) : ToSet(Append(s, Taker)) = ToSet(s) \cup {Taker}
      <4> SUFFICES ASSUME NEW s \in Seq(Orders)
                   PROVE  ToSet(Append(s, Taker)) = ToSet(s) \cup {Taker}
        OBVIOUS
      <4>1. /\ Append(s, Taker) \in Seq(Orders)
            /\ Len(Append(s, Taker)) = Len(s) + 1
            /\ \A i \in 1..Len(s) : Append(s, Taker)[i] = s[i]
            /\ Append(s, Taker)[Len(s) + 1] = Taker
        BY <1>3, AppendProperties
      <4>2. PICK t : t = Append(s, Taker)
        OBVIOUS
      <4>3. /\ DOMAIN s = 1..Len(s) /\ Len(s) \in Nat /\ DOMAIN t = 1..(Len(s) + 1)
        BY <4>1, <4>2, InToSet
      <4>4. /\ \A i \in DOMAIN s : i \in DOMAIN t /\ t[i] = s[i]
            /\ Len(s) + 1 \in DOMAIN t /\ t[Len(s) + 1] = Taker
            /\ \A i \in DOMAIN t : i \in DOMAIN s \/ i = Len(s) + 1
        BY <4>1, <4>2, <4>3
      <4>5. ToSet(t) = ToSet(s) \cup {Taker}
        BY <4>4 DEF ToSet
      <4> QED BY <4>2, <4>5
    <3> QED BY <2>6, <3>1
  <2>8. ToSet(queue'[b][p]) = ToSet(queue[b][p]) \cup {Taker}
    BY <2>3, <2>4, <2>5, <2>7, EmptySequence
  <2> QED BY <2>2, <2>8
<1>8. /\ \A s \in BOOLEAN : \A x : x \in Resting(s) <=> \E q \in Prices : x \in ToSet(queue[s][q])
      /\ \A s \in BOOLEAN : \A x : x \in Resting(s)' <=> \E q \in Prices : x \in ToSet(queue'[s][q])
  <2>1. IInv' => RestsInQueues'
    BY HasRestsInQueues, PTL
  <2> QED BY <1>2, <2>1, HasRestsInQueues DEF RestsInQueues
<1>9. ASSUME NEW s \in BOOLEAN
      PROVE  Resting(s)' = IF s = b THEN Resting(s) \cup {Taker} ELSE Resting(s)
  <2>1. CASE s = b
    <3>1. ASSUME NEW x PROVE x \in Resting(s)' <=> x \in Resting(s) \/ x = Taker
      <4>1. \A q \in Prices :
               x \in ToSet(queue'[s][q]) <=> x \in ToSet(queue[s][q]) \/ (q = p /\ x = Taker)
        BY <1>7, <2>1
      <4>2. (\E q \in Prices : x \in ToSet(queue'[s][q])) <=>
               (\E q \in Prices : x \in ToSet(queue[s][q])) \/ x = Taker
        BY <1>4, <4>1
      <4> QED BY <1>8, <4>2
    <3> QED BY <2>1, <3>1
  <2>2. CASE s # b
    <3>1. \A q \in Prices : ToSet(queue'[s][q]) = ToSet(queue[s][q])
      BY <1>7, <2>2
    <3>2. ASSUME NEW x PROVE x \in Resting(s)' <=> x \in Resting(s)
      <4>1. (\E q \in Prices : x \in ToSet(queue'[s][q])) <=>
               (\E q \in Prices : x \in ToSet(queue[s][q]))
        BY <3>1
      <4> QED BY <1>8, <4>1
    <3> QED BY <2>2, <3>2
  <2> QED BY <2>1, <2>2
<1>10. ASSUME NEW s \in BOOLEAN
       PROVE  InOrder(s)' = IF s = Opp THEN InOrder(s) ELSE B
  <2>1. CASE s = Opp
    <3>1. /\ InOrder(s) \in Seq(Orders) /\ ToSet(InOrder(s)) = Resting(s)
          /\ Ordered(InOrder(s), InFront(s))
      BY <1>2, InOrderFacts
    <3>2. PICK t : t = InOrder(s)
      OBVIOUS
    <3>3. ToSet(t) = Resting(s)'
      BY <1>3, <1>9, <2>1, <3>1, <3>2
    <3>4. InOrder(s)' = t
      BY <1>1, <3>1, <3>2, <3>3, InOrderNext
    <3> QED BY <2>1, <3>2, <3>4
  <2>2. CASE s # Opp
    <3>1. s = b
      BY <1>3, <2>2
    <3>2. ToSet(B) = Resting(s)' /\ Ordered(B, InFront(s)) /\ B \in Seq(Orders)
      BY <1>6, <1>9, <3>1
    <3>3. InOrder(s)' = B
      BY <1>1, <3>2, InOrderNext
    <3> QED BY <2>2, <3>3
  <2> QED BY <2>1, <2>2
<1>11. B = IF size[Taker] > 0
           THEN Engine!Enqueue(InOrder(bid[Taker]), Taker, bid[Taker], price[Taker])
           ELSE InOrder(bid[Taker])
  BY <1>4, <1>5
<1> QED BY <1>1, <1>10, <1>11, CallOfLimit

\* A side's TotalVolume is what its orders have open.
LEMMA TotalIs ==
    ASSUME IInv, VolumeInv, NEW b \in BOOLEAN, NEW s, s = InOrder(b),
           NEW D, D = [j \in DOMAIN s |-> size[s[j]]]
    PROVE  SumFunctionOnSet(D, 1..Len(s)) = TotalVolume(b)
<1>1. s \in Seq(Orders) /\ ToSet(s) = Resting(b) /\ Ordered(s, InFront(b)) /\ Asymmetric(InFront(b))
  BY InOrderFacts, InFrontIs
<1>2. DOMAIN s = 1..Len(s) /\ \A x \in ToSet(s) : x \in Orders
  BY <1>1, InToSet
<1>3. \A x \in Orders : size[x] \in Int
  BY DEF IInv, TypeOK
<1>4. \A i, j \in DOMAIN s : s[i] = s[j] => i = j
  BY <1>1, OrderedOnce
<1>5. SumFunctionOnSet(D, DOMAIN s) = SumFunctionOnSet(size, ToSet(s))
  <2>1. \A i \in DOMAIN s : D[i] = size[s[i]]
    OBVIOUS
  <2>2. \A x \in ToSet(s) : size[x] \in Int
    BY <1>2, <1>3
  <2> QED BY <1>1, <1>4, <2>1, <2>2, SumAlong
<1>6. PICK P : P = ToSet(levels[b])
  OBVIOUS
<1>7. PICK Q : Q = [p \in P |-> ToSet(queue[b][p])]
  OBVIOUS
<1>8. levels[b] \in Seq(Prices) /\ IsFiniteSet(P) /\ \A p \in P : p \in Prices
  <2>1. levels[b] \in Seq(Prices)
    BY DEF IInv, TypeOK
  <2> QED BY <1>6, <2>1, InToSet, FiniteToSet
<1>9. \A p \in P : Q[p] = ToSet(queue[b][p]) /\ IsFiniteSet(Q[p])
  BY <1>7, <1>8, QueueFinite
<1>10. \A p \in P : \A x \in Q[p] : price[x] = p /\ x \in Orders
  <2> SUFFICES ASSUME NEW p \in P, NEW x \in Q[p] PROVE price[x] = p /\ x \in Orders
    OBVIOUS
  <2>1. p \in Prices /\ x \in ToSet(queue[b][p])
    BY <1>8, <1>9
  <2> QED BY <2>1, QueueOrders
<1>11. \A p, q \in P : p # q => Q[p] \cap Q[q] = {}
  BY <1>10
<1>12. \A p \in P : \A x \in Q[p] : size[x] \in Int
  BY <1>3, <1>10
<1>13. \A p \in P : volume[b][p] = SumFunctionOnSet(size, Q[p])
  BY <1>8, <1>9 DEF VolumeInv
<1>14. \A x : x \in Resting(b) <=> \E p \in P : x \in Q[p]
  BY <1>6, <1>9 DEF Resting
<1>15. SumFunctionOnSet(size, Resting(b)) = SumFunctionOnSet(volume[b], P)
  <2>1. PICK V : V = volume[b]
    OBVIOUS
  <2>2. PICK W : W = Resting(b)
    OBVIOUS
  <2>3. PICK f : f = size
    OBVIOUS
  <2>4. \A p \in P : V[p] = SumFunctionOnSet(f, Q[p])
    BY <1>13, <2>1, <2>3
  <2>5. \A x : x \in W <=> \E p \in P : x \in Q[p]
    BY <1>14, <2>2
  <2>6. \A p \in P : IsFiniteSet(Q[p])
    BY <1>9
  <2>7. \A p \in P : \A x \in Q[p] : f[x] \in Int
    BY <1>12, <2>3
  <2>8. IsFiniteSet(P)
    BY <1>8
  <2>9. SumFunctionOnSet(f, W) = SumFunctionOnSet(V, P)
    BY ONLY <1>11, <2>4, <2>5, <2>6, <2>7, <2>8, SumOfParts
  <2> QED BY <2>1, <2>2, <2>3, <2>9
<1> QED BY <1>1, <1>2, <1>5, <1>6, <1>14, <1>15 DEF TotalVolume

\* A market order that the engine refuses is one that MatchingEngine refuses.
LEMMA EngineRefuse ==
    ASSUME FullInv, NEW b \in BOOLEAN, NEW n \in Sizes, PanicMarketOrder(b, n)
    PROVE  Engine!Next
<1>a. PICK o : o = placed'
  OBVIOUS
<1>1. /\ pc = "idle" /\ pc' = "idle" /\ o = placed + 1 /\ placed \in Nat /\ o \in Orders
      /\ bid' = [bid EXCEPT ![o] = b] /\ price' = [price EXCEPT ![o] = 0]
      /\ size' = [size EXCEPT ![o] = n] /\ matches' = <<>> /\ n > TotalVolume(~b)
      /\ UNCHANGED <<levels, queue>>
  BY <1>a, MaxOrdersAssumption DEF PanicMarketOrder, Receive, book, FullInv, IInv, TypeOK, Orders
<1>2. 1..o = 1..placed \cup {o} /\ o \notin 1..placed /\ o - 1 = placed
  BY <1>1
<1>3. Engine!Receive(o, b, 0)
  BY <1>a, <1>1, <1>2 DEF Engine!Receive, Undone
<1>4. n > Engine!Depth(~b)
  <2>1. (~b) \in BOOLEAN
    OBVIOUS
  <2>2. PICK s : s = InOrder(~b)
    OBVIOUS
  <2>3. PICK D : D = [j \in DOMAIN s |-> size[s[j]]]
    OBVIOUS
  <2>4. s \in Seq(Orders) /\ IInv /\ VolumeInv
    BY <2>1, <2>2, InOrderFacts DEF FullInv, SumInv
  <2>5. SumFunctionOnSet(D, 1..Len(s)) = TotalVolume(~b)
    BY <2>1, <2>2, <2>3, <2>4, TotalIs
  <2>6. Len(s) + 1 - 1 = Len(s)
    BY <2>4, InToSet
  <2>7. Engine!Depth(~b) = Engine!SumFunctionOnSet(D, 1..(Len(s) + 1 - 1))
    BY <1>1, <2>2, <2>3 DEF Engine!Depth, Engine!Ahead
  <2>8. Engine!Depth(~b) = TotalVolume(~b)
    BY <2>5, <2>6, <2>7, EngineLibrary
  <2> QED BY <1>1, <2>8
<1>5. \A s \in BOOLEAN : InOrder(s)' = InOrder(s)
  BY <1>1 DEF InOrder
<1>6. Engine!RefuseMarketOrder(o, b, n)
  BY <1>1, <1>3, <1>4, <1>5 DEF Engine!RefuseMarketOrder, Undone
<1> QED BY <1>1, <1>6 DEF Engine!Next

\* A cancel takes its order, and nothing else, out of its side; the cancel of an order that
\* does not rest changes nothing.
LEMMA EngineCancel ==
    ASSUME IInv, IInv', pc = "idle", pc' = "idle", UNCHANGED <<placed, bid, price, size, matches>>,
           NEW b \in BOOLEAN, NEW p \in Prices, NEW o \in Orders, DeleteOrder(b, p, o)
    PROVE  Engine!Next \/ UNCHANGED Engine!vars
<1>1. queue \in [BOOLEAN -> [Prices -> Seq(Orders)]] /\ queue[b][p] \in Seq(Orders)
  BY DEF IInv, TypeOK
<1>2. /\ \A s \in BOOLEAN : \A q \in Prices : ~ (s = b /\ q = p) => queue'[s][q] = queue[s][q]
      /\ queue'[b][p] = Without(queue[b][p], o)
  BY <1>1 DEF DeleteOrder
<1>3. /\ \A s \in BOOLEAN : \A x : x \in Resting(s) <=> \E q \in Prices : x \in ToSet(queue[s][q])
      /\ \A s \in BOOLEAN : \A x : x \in Resting(s)' <=> \E q \in Prices : x \in ToSet(queue'[s][q])
  <2>1. IInv' => RestsInQueues'
    BY HasRestsInQueues, PTL
  <2> QED BY <2>1, HasRestsInQueues DEF RestsInQueues
<1>4. CASE o \in ToSet(queue[b][p])
  <2>1. ToSet(queue'[b][p]) = ToSet(queue[b][p]) \ {o}
    <3>1. o \notin ToSet(queue'[b][p]) /\ ToSet(queue'[b][p]) \subseteq ToSet(queue[b][p])
      BY DeleteOrderFacts
    <3>2. ToSet(queue[b][p]) \ {o} \subseteq ToSet(queue'[b][p])
      BY <1>1, <1>2, WithoutProperties
    <3> QED BY <3>1, <3>2
  <2>2. bid[o] = b /\ price[o] = p
    BY <1>4 DEF IInv, QueueInv
  <2>3. ASSUME NEW s \in BOOLEAN PROVE Resting(s)' = Resting(s) \ {o}
    <3>1. \A q \in Prices : ToSet(queue'[s][q]) = ToSet(queue[s][q]) \ {o}
      <4> SUFFICES ASSUME NEW q \in Prices PROVE ToSet(queue'[s][q]) = ToSet(queue[s][q]) \ {o}
        OBVIOUS
      <4>1. CASE s = b /\ q = p
        BY <2>1, <4>1
      <4>2. CASE ~ (s = b /\ q = p)
        <5>1. o \notin ToSet(queue[s][q])
          BY <2>2, <4>2 DEF IInv, QueueInv
        <5> QED BY <1>2, <4>2, <5>1
      <4> QED BY <4>1, <4>2
    <3>2. \A x : x \in Resting(s)' <=> x \in Resting(s) /\ x # o
      <4>1. \A x : x \in Resting(s)' <=> \E q \in Prices : x \in ToSet(queue[s][q]) /\ x # o
        BY <1>3, <3>1
      <4> QED BY <1>3, <4>1
    <3> QED BY <3>2
  <2>4. ASSUME NEW s \in BOOLEAN PROVE InOrder(s)' = Engine!Select(InOrder(s), Orders \ {o})
    <3>1. PICK u : u = InOrder(s)
      OBVIOUS
    <3>2. PICK T : T = Orders \ {o}
      OBVIOUS
    <3>3. PICK t : t = Among(u, T)
      OBVIOUS
    <3>4. u \in Seq(Orders) /\ ToSet(u) = Resting(s) /\ Ordered(u, InFront(s))
      BY <3>1, InOrderFacts
    <3>5. t \in Seq(Orders) /\ ToSet(t) = ToSet(u) \cap T /\ Ordered(t, InFront(s))
      BY <3>3, <3>4, AmongProperties
    <3>6. \A x \in ToSet(u) : x \in Orders
      BY <3>4, InToSet
    <3>7. ToSet(t) = Resting(s)'
      BY <2>3, <3>2, <3>4, <3>5, <3>6
    <3>8. InOrder(s)' = t
      BY <3>5, <3>7, InOrderNext
    <3> QED BY <3>1, <3>2, <3>3, <3>8, EngineLibrary
  <2>5. o \in Engine!ToSet(InOrder(b))
    <3>1. o \in Resting(b) /\ ToSet(InOrder(b)) = Resting(b)
      BY <1>3, <1>4, InOrderFacts
    <3> QED BY <3>1, EngineLibrary
  <2>6. Engine!Cancel(o)
    BY <2>4, <2>5 DEF Engine!Cancel, Undone
  <2> QED BY <2>6 DEF Engine!Next
<1>5. CASE o \notin ToSet(queue[b][p])
  <2>1. \A s \in BOOLEAN : \A q \in Prices : queue'[s][q] = queue[s][q]
    BY <1>2, <1>5 DEF Without
  <2>2. ASSUME NEW s \in BOOLEAN PROVE InOrder(s)' = InOrder(s)
    <3>1. PICK t : t = InOrder(s)
      OBVIOUS
    <3>2. t \in Seq(Orders) /\ ToSet(t) = Resting(s) /\ Ordered(t, InFront(s))
      BY <3>1, InOrderFacts
    <3>3. ToSet(t) = Resting(s)'
      BY <1>3, <2>1, <3>2
    <3>4. InOrder(s)' = t
      BY <3>2, <3>3, InOrderNext
    <3> QED BY <3>1, <3>4
  <2> QED BY <2>2 DEF Engine!vars, Undone
<1> QED BY <1>4, <1>5

\* The call that has begun is not seen yet.
LEMMA EnginePlace ==
    ASSUME IInv, UnusedInv, NEW b, NEW p, NEW n, Receive(b, p, n), StartLoop
    PROVE  UNCHANGED Engine!vars
<1>a. PICK o : o = placed'
  OBVIOUS
<1>1. /\ pc = "idle" /\ pc' = "loop" /\ o = placed + 1 /\ placed \in Nat /\ o \in Orders /\ Taker' = o
      /\ bid' = [bid EXCEPT ![o] = b] /\ price' = [price EXCEPT ![o] = p]
  BY <1>a, MaxOrdersAssumption DEF Receive, StartLoop, IInv, TypeOK, Orders, Taker
<1>2. /\ before'.book = [s \in BOOLEAN |-> InOrder(s)] /\ before'.size = size
      /\ before'.matches = matches
  BY DEF StartLoop
<1>3. /\ bid \in [Orders -> BOOLEAN] /\ price \in [Orders -> Nat] /\ size \in [Orders -> Nat]
  BY DEF IInv, TypeOK
<1>4. bid[o] = FALSE /\ price[o] = 0 /\ size[o] = 0
  BY <1>1, <1>3 DEF UnusedInv
<1>5. Undone(bid, FALSE)' = bid
  <2>1. Undone(bid, FALSE)' = [bid' EXCEPT ![o] = FALSE]
    BY <1>1 DEF Undone
  <2> QED BY <1>1, <1>3, <1>4, <2>1
<1>6. Undone(price, 0)' = price
  <2>1. Undone(price, 0)' = [price' EXCEPT ![o] = 0]
    BY <1>1 DEF Undone
  <2> QED BY <1>1, <1>3, <1>4, <2>1
<1>7. Undone(before.size, 0)' = size
  <2>1. Undone(before.size, 0)' = [size EXCEPT ![o] = 0]
    BY <1>1, <1>2 DEF Undone
  <2> QED BY <1>1, <1>3, <1>4, <2>1
<1>8. Undone(bid, FALSE) = bid /\ Undone(price, 0) = price
  BY <1>1 DEF Undone
<1>9. placed' - 1 = placed
  BY <1>a, <1>1
<1> QED BY <1>1, <1>2, <1>5, <1>6, <1>7, <1>8, <1>9 DEF Engine!vars

LEMMA EngineInit == Init => Engine!Init
<1> SUFFICES ASSUME Init PROVE Engine!Init
  OBVIOUS
<1>1. ASSUME NEW b \in BOOLEAN PROVE InOrder(b) = <<>>
  <2>1. ToSet(levels[b]) = {}
    BY EmptySequence DEF Init
  <2>2. Resting(b) = {}
    BY <2>1 DEF Resting
  <2>3. InOrder(b) \in Seq(Orders) /\ ToSet(InOrder(b)) = Resting(b)
    BY InitInv, InOrderFacts
  <2> QED BY <2>2, <2>3, InToSet
<1>2. pc = "idle" /\ placed = 0 /\ 1..placed = {}
  BY DEF Init
<1> QED BY <1>1, <1>2 DEF Init, Engine!Init, Undone

LEMMA EngineNext ==
    ASSUME ByPointer \cap ById = {}
    PROVE  FullInv /\ FullInv' /\ [Next]_vars => [Engine!Next]_(Engine!vars)
<1> SUFFICES ASSUME FullInv, FullInv', [Next]_vars PROVE Engine!Next \/ UNCHANGED Engine!vars
  OBVIOUS
<1>0. IInv /\ IInv' /\ UnusedInv
  BY DEF FullInv, MatchInv
<1>1. ASSUME NEW b, NEW p, NEW n, Receive(b, p, n), StartLoop PROVE UNCHANGED Engine!vars
  BY <1>0, <1>1, EnginePlace
<1>2. ASSUME NEW b \in BOOLEAN, NEW n \in Sizes, PanicMarketOrder(b, n) PROVE Engine!Next
  BY <1>2, EngineRefuse
<1>3. CASE StartFill \/ FillOrder \/ DeleteFilled \/ EndFill
  <2>1. pc # "idle" /\ pc' # "idle" /\ UNCHANGED <<placed, bid, price, before>>
    BY <1>3 DEF StartFill, FillOrder, DeleteFilled, EndFill
  <2> QED BY <2>1 DEF Engine!vars, Undone, Taker
<1>4. ASSUME NEW o \in Orders, CancelOrder(o) PROVE Engine!Next \/ UNCHANGED Engine!vars
  <2>1. /\ pc = "idle" /\ pc' = "idle" /\ UNCHANGED <<placed, bid, price, size, matches>>
        /\ engineLimit[o] \in limits[bid[o]] /\ DeleteOrder(bid[o], engineLimit[o], o)
    BY <1>4 DEF CancelOrder
  <2>2. bid[o] \in BOOLEAN /\ engineLimit[o] \in Prices
    BY <1>0, <2>1 DEF IInv, TypeOK
  <2> QED BY <1>0, <2>1, <2>2, EngineCancel
<1>5. ASSUME NEW o \in Orders, CancelOrderByID(o) PROVE Engine!Next \/ UNCHANGED Engine!vars
  <2>1. PICK b \in BOOLEAN, p \in Prices : DeleteOrder(b, p, o)
    BY <1>5 DEF CancelOrderByID
  <2>2. pc = "idle" /\ pc' = "idle" /\ UNCHANGED <<placed, bid, price, size, matches>>
    BY <1>5 DEF CancelOrderByID
  <2> QED BY <1>0, <2>1, <2>2, EngineCancel
<1>6. CASE UNCHANGED vars
  <2>1. UNCHANGED <<placed, bid, price, size, levels, queue, matches, pc, before>>
    BY <1>6 DEF vars, book
  <2>2. \A s : InOrder(s)' = InOrder(s)
    BY <2>1 DEF InOrder
  <2> QED BY <2>1, <2>2 DEF Engine!vars, Undone, Taker
<1>7. CASE AddRestingLimitOrder \/ Return
  BY <1>0, <1>7, EngineRest, EngineReturn
<1> QED BY <1>1, <1>2, <1>3, <1>4, <1>5, <1>6, <1>7 DEF Next, PlaceLimitOrder, PlaceMarketOrder

\* The loops of the code do what MatchingEngine says in one step: who trades with whom, at
\* what price and for how much, what is left of every order, who rests and in what order.
THEOREM EngineRefined == ASSUME ByPointer \cap ById = {} PROVE Spec => EngineSpec
<1>1. Init => Engine!Init
  BY EngineInit
<1>2. FullInv /\ FullInv' /\ [Next]_vars => [Engine!Next]_(Engine!vars)
  BY EngineNext
<1> QED BY <1>1, <1>2, FullInvariance, PTL DEF Spec, EngineSpec, Engine!Spec
=============================================================================
