----------------------------- MODULE Liquidity ------------------------------
(***************************************************************************)
(* DemoLiquidityManager of internal/service/liquidity.go and its callers.  *)
(* Tickers (book streams and trade pages) call Ensure, which keeps both    *)
(* sides of the book at MinLevels levels; traders (PlaceMarketOrderPost)   *)
(* call EnsureForMarketOrder before their order.  m.mu is held from the    *)
(* cool-down check to the last order, through the price requests and the   *)
(* sleeps, but the book is not: everybody else trades between the orders,  *)
(* while the manager works on the snapshot it took first.                  *)
(*                                                                         *)
(* Time is three timers that actions run out.  Prices and sizes are small  *)
(* integers; what the random generator draws is a choice.                  *)
(***************************************************************************)
EXTENDS Integers, FiniteSetsExt

CONSTANTS Tickers,       \* callers of Ensure
          Traders,       \* market orders, one each
          MinLevels,     \* minLevels
          BpsScale,      \* basis points in a whole: 10,000 in the code
          SpreadBps, RecenterBps, DriftBps,
          BasePrice,     \* basePriceUSD
          References,    \* prices the sources may answer with
          MinSizeUnits,
          CalmSizes, VolatileSizes, \* what nextSize may draw
          MarketSizes,   \* sizes of market orders
          Prices, OtherSizes, \* of the other participants' orders
          MaxOthers,     \* bound: orders of other participants
          MaxTicks       \* bound: timers that run out

Callers == Tickers \cup Traders
NoOne   == "no one"

ASSUME CallersAssumption == Tickers \cap Traders = {} /\ NoOne \notin Callers

\* Settings with the signs of their defaults, answers that count as a price, and
\* orders that parseOrderInput accepts.
ASSUME QuantitiesAssumption ==
    /\ {MinLevels, BpsScale, BasePrice, MinSizeUnits} \subseteq Nat \ {0}
    /\ {SpreadBps, RecenterBps, DriftBps} \subseteq Nat
    /\ CalmSizes \cup VolatileSizes \subseteq Nat
    /\ References \cup MarketSizes \cup Prices \cup OtherSizes \subseteq Nat \ {0}

VARIABLES depth,        \* the book, of DepthBook
          mu,           \* the caller that holds m.mu, or NoOne
          req,          \* caller -> its position and local variables
          cooling,      \* less than cooldown has passed since lastTopUp
          volatile,     \* volatileRegime
          regimeOver,   \* now is not before regimeUntil
          cachedPrice,  \* 0 until a source has answered
          fresh,        \* less than priceTTL has passed since cachedAt
          lastSideBuy,
          traded,       \* RecentTradesCount() > 0
          others, ticks,
          \* History variables, read by properties only.
          begun,        \* top-ups Ensure began since the cool-down last ran out
          sure          \* callers whose last look at the book nobody has spoilt

B == INSTANCE DepthBook WITH Sizes <- OtherSizes

settings == <<volatile, regimeOver, cachedPrice, fresh>>
bounds   == <<others, ticks>>
trading  == <<depth, traded, sure>>
vars     == <<trading, mu, req, cooling, settings, lastSideBuy, bounds, begun>>

Idle == [pc |-> "idle"]

Init ==
    /\ B!Init
    /\ mu = NoOne
    /\ req = [c \in Callers |-> Idle]
    /\ cooling = FALSE
    /\ volatile = FALSE /\ regimeOver = TRUE
    /\ cachedPrice = 0 /\ fresh = FALSE
    /\ lastSideBuy = FALSE
    /\ traded = FALSE
    /\ others = 0 /\ ticks = 0
    /\ begun = 0 /\ sure = {}

-----------------------------------------------------------------------------
(* Pure helpers.                                                           *)

\* math.Round(x / n) for naturals.
RoundDiv(x, n) == (2 * x + n) \div (2 * n)

\* In tenths of a basis point, never below one.
currentSpreadBps == Max({10, SpreadBps * (IF volatile THEN 16 ELSE 9)})

priceDelta(mid, i) == Max({1, RoundDiv(mid * currentSpreadBps * (i + 1), 10 * BpsScale)})

bidPrice(mid, i) == mid - priceDelta(mid, i)

\* Mutant: the sign of the offset is not turned for asks.
bidPriceAgain(mid, i) == mid - priceDelta(mid, i)

askPrice(mid, i) == mid + priceDelta(mid, i)

\* Mutant: an offset that swallows the whole price is not noticed.
AnyPrice(p) == TRUE

\* A bid without a price is not placed.
HasPrice(p) == p > 0

nextSize == {Max({MinSizeUnits, u}) : u \in IF volatile THEN VolatileSizes ELSE CalmSizes}

pickMidPrice ==
    IF B!Levels(TRUE) # {} /\ B!Levels(FALSE) # {} THEN (B!Best(TRUE) + B!Best(FALSE)) \div 2
    ELSE IF B!Levels(TRUE) # {} THEN B!Best(TRUE)
    ELSE IF B!Levels(FALSE) # {} THEN B!Best(FALSE)
    ELSE 0

Distance(p, q) == IF p < q THEN q - p ELSE p - q

shouldRecenter(book, target) ==
    book > 0 /\ target > 0 /\ Distance(book, target) * BpsScale >= RecenterBps * target

\* The price a source answers with, 0 when it does not answer in time.
fetchCoinGeckoSimple == References \cup {0}
fetchBinanceTicker   == References \cup {0}

\* A fresh price is kept; when no source answers the stale one is used.
fetchReferencePrice ==
    IF cachedPrice > 0 /\ fresh THEN UNCHANGED <<cachedPrice, fresh>>
    ELSE \E gecko \in fetchCoinGeckoSimple, binance \in fetchBinanceTicker :
           LET answer == IF gecko > 0 THEN gecko ELSE binance
           IN  IF answer > 0 THEN cachedPrice' = answer /\ fresh' = TRUE
                             ELSE UNCHANGED <<cachedPrice, fresh>>

\* The targets that drift may turn the fetched price p into.
targetMidPrice(p) ==
    LET price == IF p > 0 THEN p ELSE IF pickMidPrice > 0 THEN pickMidPrice ELSE BasePrice
        drift == RoundDiv(price * DriftBps, BpsScale)
    IN  {IF t > 0 THEN t ELSE BasePrice : t \in (price - drift)..(price + drift)}

rotateRegimeIfNeeded ==
    IF regimeOver THEN volatile' \in BOOLEAN /\ regimeOver' = FALSE
                  ELSE UNCHANGED <<volatile, regimeOver>>

\* How many levels EnsureForMarketOrder spreads an order over.
injectLevels == Max({3, MinLevels \div 2})

chunkOf(remaining, i) == Max({1, remaining \div (injectLevels - i)})

\* Mutant: the volume of the order's own side is taken.
ownDepthVolume(b) == B!Total(b)

oppositeDepthVolume(b) == B!Total(~ b)

\* The handler's own sum of the same volume.
depthForMarketSide(b) == B!Total(~ b)

-----------------------------------------------------------------------------
(* The book behind ExchangeServer's own mutex.                             *)

Order(c) == IF req[c].pc = "inject" THEN req[c].order ELSE req[c]

\* What a step of others must not do for c to stay sure: a trader relies on the
\* side it will take from and on nobody undercutting the orders placed for it.
Undisturbed(c) ==
    IF c \in Tickers THEN depth' = depth
    ELSE \A b \in BOOLEAN : b = Order(c).bid =>
           B!Total(~ b)' >= B!Total(~ b) /\ B!Levels(b)' \subseteq B!Levels(b)

RelyOn(c, ok) == sure' = IF ok THEN sure \cup {c} ELSE sure \ {c}
Observe(c) == sure' = {d \in sure : d = c \/ Undisturbed(d)}

PlaceLimitOrder(c, b, p, n) ==
    /\ B!LimitOrder(b, p, n)
    /\ traded' = (traded \/ B!Marketable(b, p) # {})
    /\ Observe(c)

PlaceMarketOrder(c, b, n) ==
    /\ B!MarketOrder(b, n)
    /\ traded' = TRUE
    /\ Observe(c)

-----------------------------------------------------------------------------
(* Callers and m.mu.                                                       *)

Become(c, r) == req' = [req EXCEPT ![c] = r]
Goto(c, pc)  == req' = [req EXCEPT ![c].pc = pc]

StartEnsure(c) ==
    /\ c \in Tickers /\ req[c].pc = "idle"
    /\ Goto(c, "lock")
    /\ UNCHANGED <<trading, mu, cooling, settings, lastSideBuy, bounds, begun>>

StartMarketOrder(c) ==
    /\ c \in Traders /\ req[c].pc = "idle"
    /\ \E b \in BOOLEAN, n \in MarketSizes :
         Become(c, [pc |-> "lock", bid |-> b, size |-> n, attempt |-> 1])
    /\ UNCHANGED <<trading, mu, cooling, settings, lastSideBuy, bounds, begun>>

Unlocked == mu = NoOne

Lock(c) ==
    /\ req[c].pc = "lock" /\ Unlocked
    /\ mu' = c

\* Mutant: a return that skips the unlock.
ReturnLocked(c, r, pc) == Become(c, [r EXCEPT !.pc = pc]) /\ UNCHANGED mu

Return(c, r, pc) == Become(c, [r EXCEPT !.pc = pc]) /\ mu' = NoOne

\* Mutant: the time of the top-up is not kept.
StaysCool == UNCHANGED cooling

SetLastTopUp == cooling' = TRUE

-----------------------------------------------------------------------------
(* Ensure.                                                                 *)

\* The lock is taken and given back.
CoolingDown(c) ==
    /\ c \in Tickers /\ cooling
    /\ req[c].pc = "lock" /\ Unlocked
    /\ Return(c, Idle, "idle")
    /\ UNCHANGED <<trading, cooling, settings, lastSideBuy, bounds, begun>>

\* Up to the first order everything is read from one snapshot of the book.
\* Orders around a middle far from the book's may trade with it at once.
MidPrice(target) ==
    IF pickMidPrice > 0 /\ ~ shouldRecenter(pickMidPrice, target) THEN pickMidPrice ELSE target

LookToTopUp(c) ==
    LET need == [b \in BOOLEAN |-> MinLevels - Cardinality(B!Levels(b))]
        full == need[TRUE] <= 0 /\ need[FALSE] <= 0
    IN  /\ c \in Tickers /\ ~ cooling
        /\ Lock(c)
        /\ rotateRegimeIfNeeded
        /\ fetchReferencePrice
        /\ \E target \in targetMidPrice(cachedPrice') :
             /\ Become(c, [pc |-> IF full THEN "pulse" ELSE "bid", need |-> need,
                           mid |-> MidPrice(target), i |-> 0, size |-> 0])
             /\ RelyOn(c, ~ shouldRecenter(pickMidPrice, target))
        /\ begun' = begun + 1
        /\ UNCHANGED <<depth, traded, cooling, lastSideBuy, bounds>>

\* The two orders of one turn of the loop have one size.
PlaceBid(c) ==
    LET r == req[c]
        p == bidPrice(r.mid, r.i)
    IN  /\ r.pc = "bid"
        /\ \E n \in nextSize :
             /\ Become(c, [r EXCEPT !.pc = "ask", !.size = n])
             /\ IF r.i >= r.need[TRUE] THEN UNCHANGED trading
                ELSE IF HasPrice(p) THEN PlaceLimitOrder(c, TRUE, p, n)
                ELSE RelyOn(c, FALSE) /\ UNCHANGED <<depth, traded>>
        /\ UNCHANGED <<mu, cooling, settings, lastSideBuy, bounds, begun>>

PlaceAsk(c) ==
    LET r == req[c] IN
    /\ r.pc = "ask"
    /\ IF r.i < r.need[FALSE]
       THEN PlaceLimitOrder(c, FALSE, askPrice(r.mid, r.i), r.size) ELSE UNCHANGED trading
    /\ Become(c, [r EXCEPT !.i = r.i + 1,
                           !.pc = IF r.i + 1 < Max({r.need[TRUE], r.need[FALSE]})
                                  THEN "bid" ELSE "pulse"])
    /\ UNCHANGED <<mu, cooling, settings, lastSideBuy, bounds, begun>>

\* pulseFlow: a market order for a sixth of the best level, on alternating
\* sides, sized by a new snapshot ...
PulseLook(c) ==
    LET buy == (~ lastSideBuy /\ B!Levels(FALSE) # {}) \/ B!Levels(TRUE) = {}
    IN  /\ req[c].pc = "pulse"
        /\ Become(c, IF B!Levels(~ buy) = {} THEN [pc |-> "count"]
                     ELSE [pc |-> "flow", buy |-> buy,
                           size |-> Max({1, depth[~ buy][B!Best(~ buy)] \div 6})])
        /\ RelyOn(c, FALSE)
        /\ UNCHANGED <<depth, traded, mu, cooling, settings, lastSideBuy, bounds, begun>>

\* ... and placed after a sleep; the engine's panic is recovered from.
Pulse(c) ==
    LET r == req[c] IN
    /\ r.pc = "flow"
    /\ Become(c, [pc |-> "count"])
    /\ IF r.size <= B!Total(~ r.buy)
       THEN PlaceMarketOrder(c, r.buy, r.size) /\ lastSideBuy' = r.buy
       ELSE UNCHANGED <<trading, lastSideBuy>>
    /\ UNCHANGED <<mu, cooling, settings, bounds, begun>>

\* A first tick is seeded when the list of trades was empty.
CountTrades(c) ==
    /\ req[c].pc = "count"
    /\ IF traded THEN SetLastTopUp /\ Return(c, Idle, "idle")
                 ELSE Goto(c, "seed") /\ UNCHANGED <<cooling, mu>>
    /\ UNCHANGED <<trading, settings, lastSideBuy, bounds, begun>>

SeedOneTradeTick(c) ==
    /\ req[c].pc = "seed"
    /\ traded' = TRUE
    /\ SetLastTopUp
    /\ Return(c, Idle, "idle")
    /\ UNCHANGED <<depth, sure, settings, lastSideBuy, bounds, begun>>

-----------------------------------------------------------------------------
(* EnsureForMarketOrder, and the handler around it.                        *)

LookForTrader(c) ==
    LET r       == req[c]
        missing == r.size - oppositeDepthVolume(r.bid)
    IN  /\ c \in Traders
        /\ r.pc = "lock" /\ Unlocked
        /\ rotateRegimeIfNeeded
        /\ fetchReferencePrice
        /\ \E target \in targetMidPrice(cachedPrice') :
             IF missing <= 0
             THEN Return(c, r, "check") /\ RelyOn(c, TRUE)
             ELSE /\ Become(c, [pc |-> "inject", order |-> r, mid |-> MidPrice(target),
                                i |-> 0, remaining |-> missing])
                  /\ RelyOn(c, ~ shouldRecenter(pickMidPrice, target))
                  /\ mu' = c
        /\ UNCHANGED <<depth, traded, cooling, lastSideBuy, bounds, begun>>

\* One turn of injectDepthForSide; without a price the turn is lost.
Inject(c) ==
    LET r     == req[c]
        bid   == r.order.bid
        p     == IF bid THEN askPrice(r.mid, r.i) ELSE bidPrice(r.mid, r.i)
        chunk == chunkOf(r.remaining, r.i)
        left  == IF HasPrice(p) THEN r.remaining - chunk ELSE r.remaining
    IN  /\ r.pc = "inject"
        /\ \E n \in nextSize :
             IF HasPrice(p) THEN PlaceLimitOrder(c, ~ bid, p, Max({MinSizeUnits, chunk + n \div 2}))
                      ELSE RelyOn(c, FALSE) /\ UNCHANGED <<depth, traded>>
        /\ IF r.i + 1 < injectLevels /\ left > 0
           THEN /\ Become(c, [r EXCEPT !.i = r.i + 1, !.remaining = left])
                /\ UNCHANGED <<mu, cooling>>
           ELSE SetLastTopUp /\ Return(c, r.order, "check")
        /\ UNCHANGED <<settings, lastSideBuy, bounds, begun>>

\* ensureMarketDepth looks again and tries once more.
CheckDepth(c) ==
    LET r    == req[c]
        next == IF depthForMarketSide(r.bid) >= r.size THEN "place"
                ELSE IF r.attempt = 1 THEN "lock" ELSE "refused"
    IN  /\ r.pc = "check"
        /\ IF next = "refused" THEN Become(c, [pc |-> next]) /\ RelyOn(c, FALSE)
           ELSE Become(c, [r EXCEPT !.pc = next, !.attempt = 2]) /\ UNCHANGED sure
        /\ UNCHANGED <<depth, traded, mu, cooling, settings, lastSideBuy, bounds, begun>>

\* safePlaceMarketOrder; quote and row are those of Settlement.
SafePlaceMarketOrder(c) ==
    LET r == req[c] IN
    /\ r.pc = "place"
    /\ IF r.size <= B!Total(~ r.bid)
       THEN PlaceMarketOrder(NoOne, r.bid, r.size) /\ Become(c, [pc |-> "filled"])
       ELSE Become(c, [pc |-> "refused"]) /\ RelyOn(c, FALSE) /\ UNCHANGED <<depth, traded>>
    /\ UNCHANGED <<mu, cooling, settings, lastSideBuy, bounds, begun>>

-----------------------------------------------------------------------------
(* Other participants and time.                                            *)

Others ==
    /\ others < MaxOthers
    /\ others' = others + 1
    /\ \E b \in BOOLEAN, n \in OtherSizes :
         \/ PlaceMarketOrder(NoOne, b, n)
         \/ \E p \in Prices :
              \/ PlaceLimitOrder(NoOne, b, p, n)
              \/ B!Cancel(b, p, n) /\ Observe(NoOne) /\ UNCHANGED traded
    /\ UNCHANGED <<mu, req, cooling, settings, lastSideBuy, ticks, begun>>

Tick ==
    /\ ticks < MaxTicks
    /\ ticks' = ticks + 1
    /\ UNCHANGED <<trading, mu, req, volatile, cachedPrice, lastSideBuy, others>>

CooldownElapses ==
    /\ Tick /\ cooling
    /\ cooling' = FALSE
    /\ begun' = 0
    /\ UNCHANGED <<regimeOver, fresh>>

RegimeEnds ==
    /\ Tick /\ ~ regimeOver
    /\ regimeOver' = TRUE
    /\ UNCHANGED <<cooling, fresh, begun>>

PriceExpires ==
    /\ Tick /\ fresh
    /\ fresh' = FALSE
    /\ UNCHANGED <<cooling, regimeOver, begun>>

\* Steps that wait for m.mu, and the others a call takes.
Enter(c) == CoolingDown(c) \/ LookToTopUp(c) \/ LookForTrader(c)

Step(c) ==
    \/ PlaceBid(c) \/ PlaceAsk(c) \/ PulseLook(c) \/ Pulse(c)
    \/ CountTrades(c) \/ SeedOneTradeTick(c)
    \/ Inject(c) \/ CheckDepth(c) \/ SafePlaceMarketOrder(c)

Next ==
    \/ \E c \in Callers : StartEnsure(c) \/ StartMarketOrder(c) \/ Enter(c) \/ Step(c)
    \/ Others \/ CooldownElapses \/ RegimeEnds \/ PriceExpires

Spec == Init /\ [][Next]_vars

\* Goroutines run, and a waiter gets m.mu in the end although others take it
\* again and again: after a millisecond sync.Mutex hands over to it.
FairSpec == Spec /\ \A c \in Callers : WF_vars(Step(c)) /\ SF_vars(Enter(c))

-----------------------------------------------------------------------------
(* Properties.                                                             *)

Holding == {"bid", "ask", "pulse", "flow", "count", "seed", "inject"}
Done    == {"idle", "filled", "refused"}

\* Types; every level of the book has a price and a volume, whatever drift, spread
\* and somebody else's orders did to the middle the offsets are taken from.
TypeOK ==
    /\ \A b \in BOOLEAN : \A p \in B!Levels(b) : p > 0 /\ depth[b][p] > 0
    /\ mu \in Callers \cup {NoOne}
    /\ \A c \in Callers : req[c].pc \in Holding \cup Done \cup {"lock", "check", "place"}
    /\ {cooling, volatile, regimeOver, fresh, lastSideBuy, traded} \subseteq BOOLEAN
    /\ cachedPrice \in References \cup {0}
    /\ sure \subseteq Callers

\* However many streams tick, the book is topped up once per cool-down.
OnePerCooldown == begun <= 1

\* After the loop of Ensure there is something on both sides, unless somebody else
\* traded meanwhile, the book was recentred, or a bid would have had no price.
TwoSidedAfterTopUp ==
    \A c \in sure : req[c].pc = "pulse" => \A b \in BOOLEAN : B!Levels(b) # {}

\* A market order is turned away only when others spoilt the depth that was looked
\* at or added for it, the book was recentred, or a bid would have had no price.
RefusedOnlyIfDisturbed ==
    [][\A c \in Traders :
         req[c].pc # "refused" /\ req'[c].pc = "refused" => c \notin sure]_vars

\* Every market order gets its answer, and every stream tick and trade page comes back
\* from the manager, although others take m.mu again and again and hold it through
\* sleeps and price requests: no call stays unanswered for ever.
CallersAnswered == \A c \in Callers : []<>(req[c].pc \in Done)
=============================================================================
