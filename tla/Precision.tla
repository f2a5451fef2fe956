----------------------------- MODULE Precision ------------------------------
(***************************************************************************)
(* The integer money of internal/engine/precision.go, and what becomes of  *)
(* it while one limit buy is filled.  What the engine call matches at once *)
(* is settled as one piece, at its rounded average price                   *)
(* (PlaceLimitOrderPost); what rests trades at the order's own price and   *)
(* is settled by every sync that finds more of it filled                   *)
(* (syncUserOpenOrders).  Each piece is truncated on its own, so that      *)
(* roundings add up.  Integers are signed words of the range               *)
(* -Half..Half-1; Half is 2^63 in the code.                                *)
(***************************************************************************)
EXTENDS Integers

CONSTANTS PriceScale, QuantityScale, Half,
          MaxPrice,      \* ValidatePrice's bound, in USDT: 1,000,000
          Limits,        \* limit prices of the order, in micro-USDT
          Quantities     \* its quantities, in base units

ASSUME PrecisionAssumption ==
    /\ PriceScale \in Nat \ {0}
    /\ QuantityScale \in Nat \ {0}
    /\ Half \in Nat \ {0}
    /\ MaxPrice \in Nat
    /\ Limits \subseteq Nat
    /\ Quantities \subseteq Nat

VARIABLES limit, quantity,  \* the order
          locked,    \* what LockAmount reserved for it
          filled,    \* how much of it is filled
          value,     \* sum of price*size of its fills
          placed,    \* PlaceLimitOrderPost has settled what was matched at once
          atOnce,    \* how much that was
          unlocked,  \* what settling has released of the lock
          recorded,  \* filled_notional of its row, which is what the buyer was charged
          pieces     \* how many pieces it was settled in

settled == <<placed, atOnce, unlocked, recorded, pieces>>
vars    == <<limit, quantity, locked, filled, value, settled>>

-----------------------------------------------------------------------------
\* What a Go int64 holds after an operation with exact result x.
Wrap(x) == ((x + Half) % (2 * Half)) - Half

\* Mutant: a quotient rounded up.
CeilQuot(x) == IF x >= 0 THEN (x + QuantityScale - 1) \div QuantityScale
                         ELSE -((-x) \div QuantityScale)

\* Go's division by QuantityScale, truncated towards zero.
Quot(x) == IF x >= 0 THEN x \div QuantityScale ELSE -((-x) \div QuantityScale)

CalculateNotionalInt(p, q) == Quot(Wrap(p * q))

ValidatePrice(p) == p > 0 /\ p <= MaxPrice * PriceScale

ValidateQuantity(q) == q > 0

\* Mutant: the conversion to int64 truncates.
TruncateMean(v, n) == v \div n

\* math.Round(v / n) for naturals: aggregateMatch's average price.  The code adds and
\* divides float64s, and the sums exceed 2^53: the mean is off by some 2^-52 of itself for
\* each product, far less than one unit, so only a mean that close to the middle of two
\* integers can be rounded otherwise.
RoundMean(v, n) == (2 * v + n) \div (2 * n)

\* Mutant: the conversion to int64 truncates.
truncatedFillPrice(n, q) ==
    IF n <= 0 \/ q <= 0 THEN 0 ELSE (n * QuantityScale) \div q

\* The average price shown for a row, of its filled_notional and its filled.
averageFillPrice(n, q) ==
    IF n <= 0 \/ q <= 0 THEN 0 ELSE RoundMean(n * QuantityScale, q)

\* What calculateUnrealizedPnL takes for the price paid.
entryPrice(n, q, p) ==
    IF averageFillPrice(n, q) > 0 THEN averageFillPrice(n, q) ELSE p

\* Mutant: the sign is turned for buys, not for sells.
profitOfSell(n, q, p, mark) ==
    LET entry == CalculateNotionalInt(entryPrice(n, q, p), q)
    IN  IF entry <= 0 THEN 0 ELSE entry - CalculateNotionalInt(mark, q)

\* The profit shown for a buy when the market is at mark; 0 when none is shown.
unrealizedPnL(n, q, p, mark) ==
    LET entry == CalculateNotionalInt(entryPrice(n, q, p), q)
    IN  IF entry <= 0 THEN 0 ELSE CalculateNotionalInt(mark, q) - entry

-----------------------------------------------------------------------------
Init ==
    /\ limit \in Limits
    /\ quantity \in Quantities
    /\ locked = CalculateNotionalInt(limit, quantity)
    /\ filled = 0
    /\ value = 0
    /\ placed = FALSE /\ atOnce = 0
    /\ unlocked = 0
    /\ recorded = 0
    /\ pieces = 0

\* The engine call matches n more at price p, no worse than the limit.
Match(p, n) ==
    /\ ~ placed
    /\ n > 0 /\ p > 0 /\ p <= limit
    /\ filled + n <= quantity
    /\ filled' = filled + n
    /\ value' = value + p * n
    /\ UNCHANGED <<limit, quantity, locked, settled>>

\* The one price for all that was matched at once.
executionPrice(v, n) == IF n > 0 THEN RoundMean(v, n) ELSE limit

\* The handler settles what the call has matched.  That order.Size may have changed
\* again by the time it is read is a matter of Settlement.
SettleAtOnce ==
    /\ ~ placed
    /\ placed' = TRUE
    /\ atOnce' = filled
    /\ unlocked' = CalculateNotionalInt(limit, filled)
    /\ recorded' = CalculateNotionalInt(executionPrice(value, filled), filled)
    /\ pieces' = IF filled > 0 THEN 1 ELSE 0
    /\ UNCHANGED <<limit, quantity, locked, filled, value>>

\* Others have taken n more of what rests, at the order's price, and a sync finds it.
Sync(n) ==
    /\ placed
    /\ n > 0 /\ filled + n <= quantity
    /\ filled' = filled + n
    /\ value' = value + limit * n
    /\ unlocked' = unlocked + CalculateNotionalInt(limit, n)
    /\ recorded' = recorded + CalculateNotionalInt(limit, n)
    /\ pieces' = pieces + 1
    /\ UNCHANGED <<limit, quantity, locked, placed, atOnce>>

Next ==
    \/ \E p \in 1..limit, n \in 1..quantity : Match(p, n)
    \/ SettleAtOnce
    \/ \E n \in 1..quantity : Sync(n)

Spec == Init /\ [][Next]_vars

-----------------------------------------------------------------------------
(* Properties.                                                             *)

\* The product fits into the word.
Fits == limit * quantity < Half

\* Settling an order in pieces never charges more than it releases, so it leaves the
\* available balance alone, and never releases more than was locked for what is
\* filled, so it never eats into the lock of another order; the dust that truncation
\* leaves locked is less than one micro-USDT per piece.
PiecesWithinLock ==
    Fits => LET due == CalculateNotionalInt(limit, filled)
            IN  /\ recorded <= unlocked
                /\ unlocked <= due
                /\ due <= locked
                /\ pieces > 0 => due < unlocked + pieces

\* Wherever the engine call ends, the average price of what it has matched is their
\* mean, rounded: charging it for all of them is off by at most half a unit per lot,
\* and never above the limit.
AverageIsFair ==
    ~ placed /\ filled > 0 =>
        LET v == executionPrice(value, filled)
        IN  /\ 2 * (v * filled - value) <= filled
            /\ 2 * (value - v * filled) <= filled
            /\ v <= limit

\* The average price on the order page, computed back from the recorded notional, is
\* the fills' mean up to two roundings and one quantum per piece: half a unit per lot
\* for its own, half a unit per lot matched at once for the price charged for those,
\* and, below the mean only, what each piece has lost to truncation.  It never exceeds
\* the order's limit.
PageEntryFair ==
    (placed /\ Fits /\ filled > 0) =>
        LET v == averageFillPrice(recorded, filled)
        IN  /\ 2 * (v * filled - value) <= filled + atOnce
            /\ 2 * (value - v * filled) < filled + atOnce + 2 * QuantityScale * pieces
            /\ v <= limit

\* The page shows no loss on a buy while the market is at its limit or above.
NoLossAboveLimit ==
    \A mark \in limit..(MaxPrice * PriceScale) :
        (placed /\ filled > 0 /\ Fits /\ mark * filled < Half) =>
            unrealizedPnL(recorded, filled, limit, mark) >= 0

\* The notional of a valid price and a valid quantity is the truncated product:
\* ValidatePrice's bound is there "to prevent overflow".
NotionalIsExact ==
    (ValidatePrice(limit) /\ ValidateQuantity(quantity)) =>
        CalculateNotionalInt(limit, quantity) = (limit * quantity) \div QuantityScale
=============================================================================
