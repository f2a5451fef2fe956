-------------------------- MODULE PrecisionProofs ---------------------------
(* Proofs about Precision, for every scale and word width.                 *)
EXTENDS Precision, TLAPS

\* A quotient is the only integer whose multiple is less than one below x.
LEMMA Division ==
    ASSUME NEW d \in Nat \ {0}, NEW x \in Nat
    PROVE  /\ x \div d \in Nat
           /\ d * (x \div d) <= x
           /\ x < d * (x \div d) + d
  <1>1. x = d * (x \div d) + (x % d) /\ x % d \in 0..(d - 1) /\ x \div d \in Int
    BY SMT
  <1>2. x \div d >= 0
    BY SMT
  <1> QED BY <1>1, <1>2

LEMMA DivisionUnique ==
    ASSUME NEW d \in Nat \ {0}, NEW x \in Nat, NEW y \in Int,
           d * y <= x
    PROVE  y <= x \div d
  <1> DEFINE k == x \div d
  <1>1. k \in Nat /\ x < d * k + d
    BY Division
  <1>2. d * y < d * (k + 1)
    BY <1>1, SMT
  <1>3. y < k + 1
    BY <1>1, <1>2, SMT
  <1> QED BY <1>1, <1>3

\* Division by QuantityScale splits: the pieces' quotients add up to the
\* whole's, or to one less.
LEMMA SplitQuotient ==
    ASSUME NEW d \in Nat \ {0}, NEW x \in Nat, NEW y \in Nat
    PROVE  /\ (x \div d) + (y \div d) <= (x + y) \div d
           /\ (x + y) \div d <= (x \div d) + (y \div d) + 1
  <1> DEFINE a == x \div d
             b == y \div d
             c == (x + y) \div d
  <1>1. a \in Nat /\ b \in Nat /\ c \in Nat
    BY Division
  <1>2. d * a <= x /\ d * b <= y /\ x < d * a + d /\ y < d * b + d
    BY Division
  <1>3. d * c <= x + y
    BY Division
  <1>4. d * (a + b) <= x + y
    BY <1>1, <1>2, SMT
  <1>5. a + b <= c
    BY <1>1, <1>4, DivisionUnique
  <1>6. d * c < d * (a + b + 2)
    BY <1>1, <1>2, <1>3, SMT
  <1>7. c < a + b + 2
    BY <1>1, <1>6, SMT
  <1> QED BY <1>1, <1>5, <1>7

\* Within the word, CalculateNotionalInt is the truncated product.
LEMMA NotionalWithoutOverflow ==
    ASSUME NEW p \in Nat, NEW q \in Nat, p * q < Half
    PROVE  CalculateNotionalInt(p, q) = (p * q) \div QuantityScale
  <1> DEFINE x == p * q
  <1>1. x \in Nat /\ x + Half >= 0 /\ x + Half < 2 * Half
    BY PrecisionAssumption, SMT
  <1>2. (x + Half) % (2 * Half) = x + Half
    <2> DEFINE y == x + Half
               m == 2 * Half
    <2>1. y \in Nat /\ m \in Nat /\ m > 0 /\ y < m
      BY <1>1, PrecisionAssumption
    <2> HIDE DEF y, m
    <2>2. y % m = y
      BY <2>1, SMT
    <2> QED BY <2>2 DEF y, m
  <1>3. Wrap(x) = x
    BY <1>1, <1>2, PrecisionAssumption DEF Wrap
  <1> QED BY <1>1, <1>3 DEF CalculateNotionalInt, Quot

\* What truncation takes off a notional is less than one quantum.
LEMMA NotionalIsNear ==
    ASSUME NEW p \in Nat, NEW q \in Nat, p * q < Half
    PROVE  /\ CalculateNotionalInt(p, q) \in Nat
           /\ QuantityScale * CalculateNotionalInt(p, q) <= p * q
           /\ p * q < QuantityScale * CalculateNotionalInt(p, q) + QuantityScale
  <1>1. p * q \in Nat
    BY SMT
  <1>2. CalculateNotionalInt(p, q) = (p * q) \div QuantityScale
    BY NotionalWithoutOverflow
  <1> QED BY <1>1, <1>2, PrecisionAssumption, Division

\* Truncated notionals are monotone in the price.
LEMMA NotionalMonotone ==
    ASSUME NEW p \in Nat, NEW r \in Nat, NEW q \in Nat, p <= r, r * q < Half
    PROVE  /\ CalculateNotionalInt(p, q) \in Int
           /\ CalculateNotionalInt(r, q) \in Int
           /\ CalculateNotionalInt(p, q) <= CalculateNotionalInt(r, q)
  <1>1. p * q \in Nat /\ r * q \in Nat /\ p * q <= r * q
    BY SMT
  <1>2. p * q < Half
    BY <1>1, PrecisionAssumption
  <1>3. /\ CalculateNotionalInt(p, q) = (p * q) \div QuantityScale
        /\ CalculateNotionalInt(r, q) = (r * q) \div QuantityScale
    BY <1>2, NotionalWithoutOverflow
  <1> DEFINE x == p * q
             y == r * q
  <1>4. x \in Nat /\ y \in Nat /\ x <= y
    BY <1>1
  <1> HIDE DEF x, y
  <1>5. x \div QuantityScale \in Nat /\ QuantityScale * (x \div QuantityScale) <= y
    BY <1>4, PrecisionAssumption, Division
  <1>6. x \div QuantityScale <= y \div QuantityScale
    BY <1>4, <1>5, PrecisionAssumption, DivisionUnique
  <1>7. y \div QuantityScale \in Nat
    BY <1>4, PrecisionAssumption, Division
  <1> QED BY <1>3, <1>5, <1>6, <1>7 DEF x, y

\* The mean of n prices that sum up to v, rounded, is within half a unit of
\* it, and a natural bound on the mean bounds it too.
LEMMA RoundMeanIsNear ==
    ASSUME NEW v \in Nat, NEW n \in Nat \ {0}, NEW p \in Nat, v <= p * n
    PROVE  LET m == RoundMean(v, n)
           IN  /\ m \in Nat
               /\ 2 * (m * n - v) <= n
               /\ 2 * (v - m * n) <= n
               /\ m <= p
  <1> DEFINE d == 2 * n
             x == 2 * v + n
             m == x \div d
  <1>1. d \in Nat \ {0} /\ x \in Nat
    BY SMT
  <1>2. m \in Nat /\ d * m <= x /\ x < d * m + d
    BY <1>1, Division
  <1>3. 2 * (m * n - v) <= n /\ 2 * (v - m * n) <= n
    BY <1>2, SMT
  <1>4. d * m < d * (p + 1)
    BY <1>2, SMT
  <1>5. m < p + 1
    BY <1>1, <1>2, <1>4, SMT
  <1>6. m = RoundMean(v, n)
    BY DEF RoundMean
  <1> QED BY <1>2, <1>3, <1>5, <1>6

-----------------------------------------------------------------------------
(* The inductive invariant: the order's numbers, the value of its fills    *)
(* against its limit, and what the settled pieces have charged and         *)
(* released.                                                               *)

TypeInv ==
    /\ limit \in Nat /\ quantity \in Nat
    /\ filled \in 0..quantity
    /\ value \in Nat
    /\ placed \in BOOLEAN /\ atOnce \in Nat
    /\ unlocked \in Int /\ recorded \in Int
    /\ pieces \in Nat
    /\ locked = CalculateNotionalInt(limit, quantity)

ValueInv == value <= limit * filled

\* Nothing is settled while the engine call runs.
PlacingInv == ~ placed => recorded = 0 /\ unlocked = 0 /\ pieces = 0

DueQuotient == (limit * filled) \div QuantityScale

PiecesInv ==
    (placed /\ Fits) =>
        /\ recorded <= unlocked
        /\ unlocked <= DueQuotient
        /\ pieces = 0 => filled = 0 /\ unlocked = 0
        /\ pieces > 0 => DueQuotient < unlocked + pieces

\* What the row records is the fills' value up to half a unit per lot matched at once,
\* and falls short of that by less than one quantum per piece.
RecordedInv ==
    (placed /\ Fits) =>
        /\ 2 * (QuantityScale * recorded) <= 2 * value + atOnce
        /\ 2 * value <= 2 * (QuantityScale * recorded) + 2 * (QuantityScale * pieces) + atOnce
        /\ pieces > 0 =>
             2 * value < 2 * (QuantityScale * recorded) + 2 * (QuantityScale * pieces) + atOnce

IInv == TypeInv /\ ValueInv /\ PlacingInv /\ PiecesInv /\ RecordedInv

LEMMA InitInv == Init => IInv
  <1> SUFFICES ASSUME Init PROVE IInv
    OBVIOUS
  <1>1. limit \in Nat /\ quantity \in Nat
    BY PrecisionAssumption DEF Init
  <1>2. TypeInv
    <2>1. placed \in BOOLEAN
      BY DEF Init
    <2>2. filled \in 0..quantity /\ {value, atOnce, pieces} \subseteq Nat /\ {unlocked, recorded} \subseteq Int
      BY <1>1 DEF Init
    <2>3. locked = CalculateNotionalInt(limit, quantity)
      BY DEF Init
    <2> QED BY <1>1, <2>1, <2>2, <2>3 DEF TypeInv
  <1>3. limit * filled = 0
    BY <1>1 DEF Init
  <1> QED BY <1>2, <1>3 DEF IInv, Init, ValueInv, PlacingInv, PiecesInv, RecordedInv

LEMMA NotionalIsInteger ==
    ASSUME NEW p \in Nat, NEW q \in Nat
    PROVE  CalculateNotionalInt(p, q) \in Int
  <1>1. p * q \in Int
    BY SMT
  <1>2. Wrap(p * q) \in Int
    BY <1>1, PrecisionAssumption DEF Wrap
  <1>3. \A x \in Int : Quot(x) \in Int
    BY PrecisionAssumption DEF Quot
  <1> QED BY <1>2, <1>3 DEF CalculateNotionalInt

LEMMA MatchInv ==
    ASSUME IInv, NEW p \in 1..limit, NEW n \in 1..quantity, Match(p, n)
    PROVE  IInv'
  <1> USE DEF IInv
  <1>1. /\ p \in Nat /\ n \in Nat /\ p <= limit
        /\ limit \in Nat /\ quantity \in Nat /\ filled \in Nat /\ value \in Nat
        /\ filled + n <= quantity
    BY DEF TypeInv, Match
  <1>2. p * n \in Nat /\ limit * n \in Nat /\ p * n <= limit * n
    BY <1>1, SMT
  <1>3. limit * filled \in Nat /\ limit * (filled + n) = limit * filled + limit * n
    BY <1>1, SMT
  <1>4. TypeInv'
    BY <1>1, <1>2 DEF TypeInv, Match, settled
  <1>5. ValueInv'
    BY <1>1, <1>2, <1>3 DEF ValueInv, Match
  <1>6. PlacingInv' /\ PiecesInv' /\ RecordedInv'
    BY DEF PlacingInv, PiecesInv, RecordedInv, Match, settled
  <1> QED BY <1>4, <1>5, <1>6

\* One piece at the average price: the charge is the fills' value up to the rounding
\* of that price and of the notional, and no more than what is released.
LEMMA SettleInv ==
    ASSUME IInv, SettleAtOnce
    PROVE  IInv'
  <1> USE DEF IInv
  <1>1. /\ limit \in Nat /\ quantity \in Nat /\ filled \in Nat /\ value \in Nat
        /\ filled <= quantity /\ value <= limit * filled
    BY DEF TypeInv, ValueInv
  <1>2. limit * filled \in Nat /\ limit * quantity \in Nat /\ limit * filled <= limit * quantity
    BY <1>1, SMT
  <1> DEFINE v      == executionPrice(value, filled)
             charge == CalculateNotionalInt(v, filled)
             due    == CalculateNotionalInt(limit, filled)
  <1>3. /\ v \in Nat /\ v <= limit
        /\ filled > 0 => 2 * (v * filled - value) <= filled /\ 2 * (value - v * filled) <= filled
    <2>1. CASE filled = 0
      BY <1>1, <2>1 DEF executionPrice
    <2>2. CASE filled # 0
      <3>1. filled \in Nat \ {0}
        BY <1>1, <2>2
      <3>2. v = RoundMean(value, filled)
        BY <3>1 DEF executionPrice
      <3> QED BY <1>1, <3>1, <3>2, RoundMeanIsNear
    <2> QED BY <2>1, <2>2
  <1>4. /\ recorded' = charge /\ unlocked' = due /\ placed' = TRUE /\ atOnce' = filled
        /\ pieces' = IF filled > 0 THEN 1 ELSE 0
        /\ UNCHANGED <<limit, quantity, locked, filled, value>>
    BY DEF SettleAtOnce
  <1> HIDE DEF v
  <1>5. charge \in Int /\ due \in Int
    BY <1>1, <1>3, NotionalIsInteger
  <1>6. TypeInv' /\ ValueInv' /\ PlacingInv'
    <2> HIDE DEF charge, due
    <2> QED BY <1>1, <1>4, <1>5 DEF TypeInv, ValueInv, PlacingInv
  <1>7. ASSUME Fits
        PROVE  PiecesInv' /\ RecordedInv'
    <2>1. limit * filled < Half
      BY <1>2, <1>7, PrecisionAssumption DEF Fits
    <2>2. charge <= due
      BY <1>1, <1>3, <2>1, NotionalMonotone
    <2>3. due = DueQuotient /\ DueQuotient' = DueQuotient
      BY <1>1, <1>4, <2>1, NotionalWithoutOverflow DEF DueQuotient
    <2>4. v * filled \in Nat /\ v * filled <= limit * filled
      BY <1>1, <1>3, SMT
    <2>5. v * filled < Half
      BY <1>2, <2>1, <2>4, PrecisionAssumption
    <2>6. /\ charge \in Nat
          /\ QuantityScale * charge <= v * filled
          /\ v * filled < QuantityScale * charge + QuantityScale
      BY <1>1, <1>3, <2>5, NotionalIsNear
    <2>7. CASE filled = 0
      <3>1. limit * filled = 0 /\ v * filled = 0 /\ value = 0
        BY <1>1, <1>3, <2>7
      <3>2. DueQuotient = 0
        BY <3>1, PrecisionAssumption, SMT DEF DueQuotient
      <3>3. PiecesInv'
        <4> HIDE DEF charge, due
        <4> QED BY <1>4, <1>5, <2>2, <2>3, <2>7, <3>2 DEF PiecesInv
      <3>4. QuantityScale * charge = 0
        <4>1. QuantityScale * charge \in Nat
          BY <2>6, PrecisionAssumption, SMT
        <4> HIDE DEF charge
        <4> QED BY <2>6, <3>1, <4>1
      <3>5. QuantityScale * 0 = 0
        BY PrecisionAssumption
      <3>6. RecordedInv'
        <4> HIDE DEF charge, due
        <4> QED BY <1>4, <2>7, <3>1, <3>4, <3>5 DEF RecordedInv
      <3> QED BY <3>3, <3>6
    <2>8. CASE filled > 0
      <3>1. PiecesInv'
        <4> HIDE DEF charge, due
        <4>1. pieces' = 1 /\ due < due + 1
          BY <1>4, <1>5, <2>8
        <4> QED BY <1>1, <1>4, <1>5, <2>2, <2>3, <2>8, <4>1 DEF PiecesInv
      <3> DEFINE w == v * filled
                 r == QuantityScale * charge
      <3>2. /\ w \in Nat /\ r \in Nat /\ r <= w /\ w < r + QuantityScale
            /\ 2 * (w - value) <= filled /\ 2 * (value - w) <= filled
        BY <1>3, <2>4, <2>6, <2>8, PrecisionAssumption, SMT
      <3>3. /\ QuantityScale * recorded' = r /\ QuantityScale * pieces' = QuantityScale
            /\ value' = value /\ atOnce' = filled
        BY <1>4, <2>8, PrecisionAssumption
      <3> HIDE DEF w, r
      <3>4. 2 * r <= 2 * value + filled /\ 2 * value < 2 * r + 2 * QuantityScale + filled
        BY <1>1, <3>2, PrecisionAssumption
      <3>5. 2 * value <= 2 * r + 2 * QuantityScale + filled
        BY <1>1, <3>2, PrecisionAssumption
      <3> QED BY <3>1, <3>3, <3>4, <3>5 DEF RecordedInv
    <2> QED BY <1>1, <2>7, <2>8
  <1>8. Fits' <=> Fits
    BY <1>4 DEF Fits
  <1>9. ~ Fits => PiecesInv' /\ RecordedInv'
    BY <1>8 DEF PiecesInv, RecordedInv
  <1> QED BY <1>6, <1>7, <1>9

\* Another piece at the order's own price, which only truncation takes something off.
LEMMA SyncInv ==
    ASSUME IInv, NEW n \in 1..quantity, Sync(n)
    PROVE  IInv'
  <1> USE DEF IInv
  <1>1. /\ n \in Nat /\ placed /\ placed'
        /\ limit \in Nat /\ quantity \in Nat /\ filled \in Nat /\ value \in Nat
        /\ pieces \in Nat /\ unlocked \in Int /\ recorded \in Int /\ atOnce \in Nat
        /\ filled + n <= quantity
    BY DEF TypeInv, Sync
  <1>2. limit * n \in Nat /\ limit * filled \in Nat /\ limit * quantity \in Nat
    BY <1>1, SMT
  <1>3. limit * (filled + n) = limit * filled + limit * n
    BY <1>1, SMT
  <1> DEFINE piece == CalculateNotionalInt(limit, n)
  <1>4. /\ unlocked' = unlocked + piece /\ recorded' = recorded + piece
        /\ pieces' = pieces + 1 /\ filled' = filled + n /\ value' = value + limit * n
        /\ UNCHANGED <<limit, quantity, locked, placed, atOnce>>
    BY DEF Sync
  <1>5. piece \in Int
    BY <1>1, NotionalIsInteger
  <1>6. TypeInv' /\ ValueInv' /\ PlacingInv'
    <2> HIDE DEF piece
    <2>1. TypeInv'
      BY <1>1, <1>2, <1>4, <1>5 DEF TypeInv
    <2>2. ValueInv'
      BY <1>1, <1>2, <1>3, <1>4 DEF ValueInv
    <2> QED BY <1>1, <2>1, <2>2 DEF PlacingInv
  <1>7. ASSUME Fits
        PROVE  PiecesInv' /\ RecordedInv'
    <2>1. limit * n <= limit * quantity
      BY <1>1, SMT
    <2>2. limit * n < Half
      BY <1>2, <1>7, <2>1, PrecisionAssumption DEF Fits
    <2>3. piece = (limit * n) \div QuantityScale
      BY <1>1, <2>2, NotionalWithoutOverflow
    <2>4. /\ DueQuotient + piece <= (limit * filled + limit * n) \div QuantityScale
          /\ (limit * filled + limit * n) \div QuantityScale <= DueQuotient + piece + 1
      BY <1>2, <2>3, PrecisionAssumption, SplitQuotient DEF DueQuotient
    <2>5. DueQuotient' = (limit * filled + limit * n) \div QuantityScale
      BY <1>3, <1>4 DEF DueQuotient
    <2>6. DueQuotient \in Int /\ DueQuotient' \in Int
      BY <1>2, <2>5, PrecisionAssumption, Division DEF DueQuotient
    <2>7. /\ piece \in Nat
          /\ QuantityScale * piece <= limit * n
          /\ limit * n < QuantityScale * piece + QuantityScale
      BY <1>1, <2>2, NotionalIsNear
    <2>8. PiecesInv'
      <3>1. recorded' <= unlocked' /\ unlocked' <= DueQuotient'
        <4> HIDE DEF piece
        <4> QED BY <1>1, <1>4, <1>5, <1>7, <2>4, <2>5, <2>6 DEF PiecesInv
      <3>2. DueQuotient' < unlocked' + pieces'
        <4>1. CASE pieces = 0
          <5>1. filled = 0 /\ unlocked = 0
            BY <1>1, <1>7, <4>1 DEF PiecesInv
          <5>2. limit * filled + limit * n = limit * n
            BY <1>1, <1>2, <5>1, SMT
          <5>3. DueQuotient' = piece
            BY <2>3, <2>5, <5>2
          <5> HIDE DEF piece
          <5> QED BY <1>4, <1>5, <4>1, <5>1, <5>3
        <4>2. CASE pieces # 0
          <5> HIDE DEF piece
          <5> QED BY <1>1, <1>4, <1>5, <1>7, <2>4, <2>5, <2>6, <4>2 DEF PiecesInv
        <4> QED BY <4>1, <4>2
      <3>3. pieces' # 0
        BY <1>1, <1>4
      <3> QED BY <3>1, <3>2, <3>3 DEF PiecesInv
    <2>9. RecordedInv'
      <3> DEFINE a == QuantityScale * recorded
                 b == QuantityScale * piece
                 c == QuantityScale * pieces
                 x == limit * n
      <3>1. /\ a \in Int /\ b \in Nat /\ c \in Nat /\ x \in Nat
            /\ b <= x /\ x < b + QuantityScale
        BY <1>1, <1>2, <2>7, PrecisionAssumption, SMT
      <3>2. 2 * a <= 2 * value + atOnce /\ 2 * value <= 2 * a + 2 * c + atOnce
        BY <1>1, <1>7 DEF RecordedInv
      <3>3. /\ QuantityScale * recorded' = a + b
            /\ QuantityScale * pieces' = c + QuantityScale
        <4> HIDE DEF piece
        <4> QED BY <1>1, <1>4, <1>5, PrecisionAssumption, SMT
      <3>4. value' = value + x /\ atOnce' = atOnce
        BY <1>4
      <3> HIDE DEF a, b, c, x
      <3>5. 2 * (a + b) <= 2 * (value + x) + atOnce
        BY <1>1, <3>1, <3>2
      <3>6. 2 * (value + x) < 2 * (a + b) + 2 * (c + QuantityScale) + atOnce
        BY <1>1, <3>1, <3>2, PrecisionAssumption
      <3>7. 2 * (value + x) <= 2 * (a + b) + 2 * (c + QuantityScale) + atOnce
        BY <1>1, <3>1, <3>2, PrecisionAssumption
      <3> QED BY <3>3, <3>4, <3>5, <3>6, <3>7 DEF RecordedInv
    <2> QED BY <2>8, <2>9
  <1>8. Fits' <=> Fits
    BY <1>4 DEF Fits
  <1>9. ~ Fits => PiecesInv' /\ RecordedInv'
    BY <1>8 DEF PiecesInv, RecordedInv
  <1> QED BY <1>6, <1>7, <1>9

LEMMA StepInv == IInv /\ [Next]_vars => IInv'
  <1> SUFFICES ASSUME IInv, [Next]_vars PROVE IInv'
    OBVIOUS
  <1>1. CASE \E p \in 1..limit, n \in 1..quantity : Match(p, n)
    BY <1>1, MatchInv
  <1>2. CASE SettleAtOnce
    BY <1>2, SettleInv
  <1>3. CASE \E n \in 1..quantity : Sync(n)
    BY <1>3, SyncInv
  <1>4. CASE UNCHANGED vars
    BY <1>4 DEF vars, settled, IInv, TypeInv, ValueInv, PlacingInv, PiecesInv, RecordedInv, DueQuotient, Fits
  <1> QED BY <1>1, <1>2, <1>3, <1>4 DEF Next

\* IInv holds in every reachable state of Precision.
THEOREM PrecisionInvariance == Spec => []IInv
  BY InitInv, StepInv, PTL DEF Spec

\* However much of a buy order is matched at once and in however many pieces the rest
\* is settled (PlaceLimitOrderPost, then every syncUserOpenOrders), it is charged no
\* more than is released, and no more is released than the lock of what was filled;
\* less than one micro-USDT of dust per piece is left.  For every scale and word
\* width, as long as the order's own notional does not overflow.
THEOREM LockSuffices == Spec => []PiecesWithinLock
  <1>1. IInv => PiecesWithinLock
    <2> SUFFICES ASSUME IInv, Fits
                 PROVE  LET due == CalculateNotionalInt(limit, filled)
                        IN  /\ recorded <= unlocked
                            /\ unlocked <= due
                            /\ due <= locked
                            /\ pieces > 0 => due < unlocked + pieces
      BY DEF PiecesWithinLock
    <2>1. /\ limit \in Nat /\ quantity \in Nat /\ filled \in Nat /\ filled <= quantity
          /\ locked = CalculateNotionalInt(limit, quantity)
      BY DEF IInv, TypeInv
    <2> DEFINE whole == limit * quantity
               part  == limit * filled
               rest  == limit * (quantity - filled)
    <2>2. /\ whole \in Nat /\ part \in Nat /\ rest \in Nat
          /\ whole = part + rest /\ whole < Half
      BY <2>1, SMT DEF Fits
    <2>3. /\ CalculateNotionalInt(limit, filled) = part \div QuantityScale
          /\ locked = whole \div QuantityScale
      BY <2>1, <2>2, PrecisionAssumption, NotionalWithoutOverflow
    <2>4. /\ part \div QuantityScale <= whole \div QuantityScale
          /\ part \div QuantityScale \in Nat
      <3> HIDE DEF whole, part, rest
      <3>1. (part \div QuantityScale) + (rest \div QuantityScale) <= whole \div QuantityScale
        BY <2>2, PrecisionAssumption, SplitQuotient
      <3>2. /\ part \div QuantityScale \in Nat
            /\ rest \div QuantityScale \in Nat
            /\ whole \div QuantityScale \in Nat
        BY <2>2, PrecisionAssumption, Division
      <3> QED BY <3>1, <3>2
    <2>5. CASE placed
      <3>1. /\ recorded <= unlocked /\ unlocked <= part \div QuantityScale
            /\ pieces > 0 => part \div QuantityScale < unlocked + pieces
        BY <2>5 DEF IInv, PiecesInv, DueQuotient
      <3> QED BY <2>3, <2>4, <3>1
    <2>6. CASE ~ placed
      <3>1. recorded = 0 /\ unlocked = 0 /\ pieces = 0
        BY <2>6 DEF IInv, PlacingInv
      <3> QED BY <2>3, <2>4, <3>1
    <2> QED BY <2>5, <2>6
  <1> QED BY <1>1, PrecisionInvariance, PTL

\* The price aggregateMatch reports for any set of fills is their mean up to
\* half a unit per lot, and never above the limit of the order they fill.
THEOREM AveragePriceFair == Spec => []AverageIsFair
  <1>1. IInv => AverageIsFair
    <2> SUFFICES ASSUME IInv, filled > 0 PROVE AverageIsFair
      BY DEF AverageIsFair
    <2>1. /\ filled \in Nat \ {0} /\ value \in Nat /\ limit \in Nat
          /\ value <= limit * filled
      BY DEF IInv, TypeInv, ValueInv
    <2>2. executionPrice(value, filled) = RoundMean(value, filled)
      BY <2>1 DEF executionPrice
    <2> QED BY <2>1, <2>2, RoundMeanIsNear DEF AverageIsFair
  <1> QED BY <1>1, PrecisionInvariance, PTL

\* The average price the order page computes back from what was recorded of the piece
\* matched at once and of any number of later ones.
LEMMA PageAverage ==
    ASSUME IInv, placed, Fits, filled > 0
    PROVE  LET v == averageFillPrice(recorded, filled)
           IN  /\ v \in Nat
               /\ 2 * (v * filled - value) <= filled + atOnce
               /\ 2 * (value - v * filled) < filled + atOnce + 2 * QuantityScale * pieces
               /\ v <= limit
  <1> DEFINE shown == recorded * QuantityScale
             dust  == QuantityScale * pieces
             m     == RoundMean(shown, filled)
  <1>1. /\ filled \in Nat \ {0} /\ limit \in Nat /\ value \in Nat /\ pieces \in Nat
        /\ recorded \in Int /\ unlocked \in Int /\ atOnce \in Nat
    BY DEF IInv, TypeInv
  <1>2. /\ shown = QuantityScale * recorded /\ shown \in Int /\ dust \in Nat
    BY <1>1, PrecisionAssumption, SMT
  <1>3. pieces > 0
    BY <1>1 DEF IInv, PiecesInv
  <1>4. 2 * shown <= 2 * value + atOnce /\ 2 * value < 2 * shown + 2 * dust + atOnce
    <2>1. /\ 2 * (QuantityScale * recorded) <= 2 * value + atOnce
          /\ 2 * value < 2 * (QuantityScale * recorded) + 2 * (QuantityScale * pieces) + atOnce
      BY <1>3 DEF IInv, RecordedInv
    <2> HIDE DEF shown
    <2> QED BY <1>2, <2>1
  <1>5. limit * filled \in Nat /\ shown <= limit * filled
    <2>1. limit * filled \in Nat
      BY <1>1, SMT
    <2>2. DueQuotient \in Nat /\ QuantityScale * DueQuotient <= limit * filled
      BY <2>1, PrecisionAssumption, Division DEF DueQuotient
    <2>3. recorded <= DueQuotient
      BY <1>1, <2>2 DEF IInv, PiecesInv
    <2>4. QuantityScale * recorded <= QuantityScale * DueQuotient
      BY <1>1, <2>2, <2>3, PrecisionAssumption, SMT
    <2>5. QuantityScale * recorded \in Int /\ QuantityScale * DueQuotient \in Int
      BY <1>1, <2>2, PrecisionAssumption, SMT
    <2> HIDE DEF shown
    <2> QED BY <1>2, <2>1, <2>2, <2>4, <2>5
  <1>6. 2 * QuantityScale * pieces = 2 * dust
    BY <1>1, PrecisionAssumption, SMT
  <1>7. CASE recorded > 0
    <2>1. shown \in Nat
      BY <1>1, <1>7, PrecisionAssumption, SMT
    <2>2. /\ m \in Nat /\ m <= limit
          /\ 2 * (m * filled - shown) <= filled /\ 2 * (shown - m * filled) <= filled
      <3> HIDE DEF shown
      <3> QED BY <1>1, <1>5, <2>1, RoundMeanIsNear
    <2>3. averageFillPrice(recorded, filled) = m
      BY <1>1, <1>7 DEF averageFillPrice
    <2>4. m * filled \in Int
      BY <1>1, <2>2, SMT
    <2> HIDE DEF shown, dust, m
    <2>5. /\ 2 * (m * filled - value) <= filled + atOnce
          /\ 2 * (value - m * filled) < filled + atOnce + 2 * dust
      <3> DEFINE w == m * filled
      <3>1. w \in Int /\ 2 * (w - shown) <= filled /\ 2 * (shown - w) <= filled
        BY <2>2, <2>4
      <3> HIDE DEF w
      <3>2. 2 * (w - value) <= filled + atOnce /\ 2 * (value - w) < filled + atOnce + 2 * dust
        BY <3>1, <1>1, <1>2, <1>4
      <3> QED BY <3>2 DEF w
    <2> QED BY <1>6, <2>2, <2>3, <2>5
  <1>8. CASE recorded <= 0
    <2>1. averageFillPrice(recorded, filled) = 0
      BY <1>8 DEF averageFillPrice
    <2>2. shown <= 0
      BY <1>1, <1>8, PrecisionAssumption, SMT
    <2>3. 0 * filled = 0
      BY <1>1
    <2> HIDE DEF shown, dust
    <2>4. 2 * value < filled + atOnce + 2 * dust
      BY <1>1, <1>2, <1>4, <2>2
    <2> QED BY <1>1, <1>6, <2>1, <2>3, <2>4
  <1> QED BY <1>1, <1>7, <1>8

\* For every split into matches, an immediate piece at its rounded average and any
\* number of synced pieces: the page's average is the mean price of the fills up to the
\* two roundings and the quanta truncated, and never above the limit.
THEOREM PageAverageFair == Spec => []PageEntryFair
  <1>1. IInv => PageEntryFair
    BY PageAverage DEF PageEntryFair
  <1> QED BY <1>1, PrecisionInvariance, PTL

\* However a buy was filled, calculateUnrealizedPnL shows no loss on it while the
\* market is at its limit or above.
THEOREM NoPhantomLoss == Spec => []NoLossAboveLimit
  <1>1. IInv => NoLossAboveLimit
    <2> SUFFICES ASSUME IInv, NEW mark \in limit..(MaxPrice * PriceScale),
                        placed, filled > 0, Fits, mark * filled < Half
                 PROVE  unrealizedPnL(recorded, filled, limit, mark) >= 0
      BY DEF NoLossAboveLimit
    <2> DEFINE e == entryPrice(recorded, filled, limit)
    <2>1. limit \in Nat /\ filled \in Nat /\ mark \in Nat /\ limit <= mark
      BY DEF IInv, TypeInv
    <2>2. e \in Nat /\ e <= limit
      BY <2>1, PageAverage DEF entryPrice
    <2> HIDE DEF e
    <2>3. e <= mark
      BY <2>1, <2>2
    <2>4. /\ CalculateNotionalInt(e, filled) \in Int
          /\ CalculateNotionalInt(mark, filled) \in Int
          /\ CalculateNotionalInt(e, filled) <= CalculateNotionalInt(mark, filled)
      BY <2>1, <2>2, <2>3, NotionalMonotone
    <2>5. unrealizedPnL(recorded, filled, limit, mark) =
            IF CalculateNotionalInt(e, filled) <= 0 THEN 0
            ELSE CalculateNotionalInt(mark, filled) - CalculateNotionalInt(e, filled)
      BY DEF unrealizedPnL, e
    <2> QED BY <2>4, <2>5
  <1> QED BY <1>1, PrecisionInvariance, PTL
=============================================================================
