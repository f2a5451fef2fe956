# Zaraba: TLA+ models and proofs

Zaraba is a demo exchange: one Go process with an in-memory matching engine, a
PostgreSQL database for users, wallets and orders, server-rendered pages and SSE
streams.  This directory models what can go wrong in it and is hard to test: the
engine's loops, the statement-by-statement settlement of orders, the fan-out of
book, trades and prices, the integer money, the liquidity manager that trades by
old snapshots, and sessions that overlapping requests copy and write back.  Paths
are relative to `src/`.

## Inventory

| component | state | operations | hard part |
| --- | --- | --- | --- |
| matching engine `internal/engine/orderbook.go` | sorted slices and maps of levels, queue and volume per level, back-reference per order | place limit / market, cancel by id / by pointer, snapshot | loops that delete while they iterate; three places that keep the volume |
| precision `internal/engine/precision.go` | none | notional, validation, conversions | int64 width, truncation |
| exchange server `internal/service/grpc_ob.go` | the book behind `s.mu` | the engine's operations, average price of the matches | what runs under the lock, what in a goroutine afterwards |
| brokers and price fetcher `internal/service/sse.go` | client channels, the last 100 trades | add / remove client, broadcast, recent trades, fetch the price list | unordered snapshots, full buffers, closed channels, a request without time-out |
| demo liquidity `internal/service/liquidity.go` | cool-down, regime, cached price behind `m.mu` | top up the book, add depth for a market order, pulse trades, seed a tick | acts on snapshots it read before sleeping, with the mutex held |
| wallets and orders `internal/models` | one row per user, one per order | one SQL statement per method; debit, lock and unlock carry their check in the `WHERE` clause | no transaction spans two statements |
| trading handlers `cmd/exchange/handlers.go` | only locals | market / limit order, cancel, sync, deposit, withdraw, SSE streams | read-then-write sequences, unlocked reads of `order.Size` |
| order page | none | tabs, averages, profit | what is computed back from rounded sums |
| users and sessions `internal/models/users.go`, handlers, `middleware.go` | rows, stored sessions, cookies | sign-up, login, logout, flash messages | three writes without a transaction; every request works on a copy of the session |

The handlers call the engine through the exchange server, in the same process.
The database rows and the book are two records of the same orders that nothing
keeps together: a taker settles its own match; the maker's row is only brought
up to date when its owner opens the order page or cancels
(`syncUserOpenOrders`), from a snapshot of the book, an order that is missing
from the snapshot counting as filled unless it is older than the process.
Streams and market orders call the liquidity manager, which calls the exchange
server like any trader.  Every page and every POST runs inside the session
library's `LoadAndSave`.

What makes each part correct: the engine trades in price-time priority, never
leaves the book crossed and keeps its slices, maps and volumes in step; the
wallet never goes negative, what is locked covers the open buys and is covered
by the balance, no money is reserved twice, no order pays for trades it did not
have, rows show only real fills, what rests can be cancelled; a slow browser never
stops trading, trades reach browsers in order and without gaps, stale books and
prices are repaired; truncation and rounding
never make an order exceed its lock or the page show a loss that is none; the
book is topped up once per cool-down, a market order is refused only when
somebody took the depth, and nobody waits for the manager for ever; a session belongs to whoever logged in on it, and
everybody who signed up has a wallet.

## Modules

`Orderbook` is the engine as it is written, one step per loop turn: `pc` is
idle, loop, fill or delete; `levels` is the sorted slice, `limits` the map,
`queue` and `volume` are those of a level, `at` / `idx` are the loop indices and
`toDelete` the list `Fill` deletes after its loop.  Two abstract books stand above
it, each one atomic step per call because `ExchangeServer` holds `s.mu` around
each call, and `Orderbook` is shown to implement both under the mappings at its
end: `MatchingEngine` (`EngineSpec`), orders that trade with the longest useful
prefix of the opposite side, is the book of `Settlement`; `DepthBook`
(`DepthSpec`), volumes per level as `GetSnapshot` returns them, is the book of
`Liquidity`.

`Settlement` follows one user in full.  A thread of `req` is an HTTP request;
its `pc` names the next SQL statement or engine call, its fields are the
handler's locals (copies, stale as in the code).  `wallet` and `orders` are the
rows, `fresh` the rows created since the process started (`created_at` not before
`startedAt`), `size[o]` the `order.Size` all pointers share.  `unlockWalletUpTo`
is a read and a write; the two reads of `order.Size` in `PlaceLimitOrderPost`
are two steps.  A statement that fails, or whose `WHERE` clause matches no row,
takes the handler's error branch (`OnError`).  `OtherOrder` and `OtherCancel` are
the other participants, demo liquidity included.  `Crash` empties the book and
the requests.  `OrdersPage` is what the order page lists.  `paid`, `withdrawn`,
`cost` and `unlockRefused` (an `UnlockAmount` has found too little locked) are
history.  The reads that only refuse a request are merged with the
step that submits it, where they are its first statement.  Symbols, time stamps
and messages are left out; the row id and the engine id are one number.

`Feed` is the publishing side: an engine call takes `s.mu`, changes the book
(`version`), leaves a goroutine (`ready`), stores and broadcasts its trades
(`stage`, `pending`) and releases the lock.  Goroutines are counted, by the
snapshot they carry.  A client has a channel, a handler position `conn` and, as
history, what its browser has been given.  A call that changes nothing (a
refused market order, a cancel of an unknown id) publishes nothing and is left
out; so are heartbeats and the failing writes that end in a disconnect, which
may happen at any time anyway.

`MarketFeed` is the third-party price list: `StartMarketFetcher` with its request
that has no time-out (`Answer` may never come), the walk of `Broadcast` over
`b.clients` one client at a time, `SseMarketHandler`, and the market, trade and
order pages with their own requests, which give up.  A list is known by how often
the prices had changed.  What the trade page and the order page wait for before they
ask for prices is in `Liquidity` (`m.mu`) and `Settlement` (the sync).  The script of the markets page only fills rows the
server rendered; a page rendered without rows is "empty".

`Liquidity` is `DemoLiquidityManager` and its callers: tickers (the streams and
trade pages that call `Ensure`) and traders (`PlaceMarketOrderPost` with
`ensureMarketDepth`).  `mu` is `m.mu`, held from the cool-down check to the last
order; the book is not, so `Others` trade between any two orders.  Time is three
timers that run out at any moment; what the random generator draws and what the
sources answer are choices.  The spread, regimes, recentring, drift and the size
of chunks are computed as in the code, in integers.  `sure` is history: the
callers whose last look at the book nobody has spoilt since.

`Accounts` is sign-up, login, logout and the session every request runs in.
`Load` is the copy of the stored session a request gets, `Commit` writes it back
under its token if the request changed it, `Respond` delivers the cookie or
loses it; `RenewToken` deletes the old token at once, while the new one is only
stored with the response.  The library that does this is outside `src/` and
modelled from how the code uses it.  Orders, cancellations and wallet posts
appear as `Notice`, the flash message they leave.  A statement may fail
anywhere (`StatementFails`, `serverError`) and the process may `Crash`.
`issued`, `renewed`, `shared` and `cut` are history.

`Precision` has the arithmetic with its word width, and one limit buy: what the
engine call matches (`Match`) is settled as one piece at its rounded average price
(`SettleAtOnce`, the price of `aggregateMatch`), what rests trades at the order's own
price and is settled by syncs (`Sync`), each piece with a truncated notional that is
charged and recorded for the order page.  That more may trade before `order.Size` is
read, and that statements fail, is in `Settlement`.  Averages are taken of exact
integers.  The code adds and divides float64s, and the products it adds exceed 2^53 for
ordinary orders: its mean is off by some 2^-52 of itself for each product, for valid prices (up to
10^12) by less than a thousandth of a unit.  So a mean that close to the middle
between two integers may be rounded the other way there, and then the half units of
`AverageIsFair` and `PageEntryFair` are exceeded by as little; the limit is not, being
an integer.

`MC...` modules are the entry points for TLC.  `...Proofs` hold the theorems
about the module they are named after (`FeedProofs` also that about `MarketFeed`,
`WalletProofs` those about the money of `Settlement`), `Sums` the lemmas about
finite sums and ordered sequences they share.
Operators whose comment starts with "Mutant:" are wrong variants of the
definition that follows them, used to show that a property can fail.

## Runs

| run | bounds | shows |
| --- | --- | --- |
| `orderbook` | 4 orders, 2 prices, sizes 1 and 3, one cancelled by pointer, fair | the book's structure between calls, not crossed, volumes, all-or-nothing market orders, price-time priority, the inductive invariant of the proofs, refinement of `MatchingEngine` and of `DepthBook`, every call returns |
| `settlement` | 1 request at a time of every kind, 2 rows, 1 other order, prices 3 and 4, sizes 1 and 2, notional scale 2, one restart anywhere | no overcharge, no invented fill, what rests can be cancelled from the order page; without a restart the lock covers the open buys and the balance the lock |
| `settlement_concurrent` | 2 requests at a time (one moves money and orders, one orders, cancels and syncs), 2 rows, 1 other order, one failing statement | balance and lock stay naturals; no money is reserved twice |
| `settlement_withdraw` | 1 row | *violated*: withdrawals take reserved funds (schema.sql:9) |
| `settlement_notional` | 1 row, 2 other orders | *violated*: `filled_notional` is not the filled value (schema.sql:31) |
| `feed_trades` | 2 callers, 3 calls, 2 trades each, list of 2, buffer of 2 | the list is the newest trades; clients get trades in order, without gaps |
| `feed_book` | 1 caller, 2 calls, buffer of 1, a book client and a trade client, fair | calls return whatever clients do; a connected browser ends up with the current book |
| `market` | 2 browsers, 3 price lists, buffer of 2, fair | no send on a closed channel; connected pages become current again and again |
| `precision` | limits up to 7, quantities up to 8, scale 3, 7-bit words | pieces charge no more than they release and stay within the lock, averages charged and shown are fair, no invented loss |
| `precision_overflow` | 8-bit words, scales in proportion | *violated*: validated price and quantity overflow (precision.go:84) |
| `liquidity` | 2 stream ticks, 1 market order, 2 levels, 2 orders of others, 1 timer, fair | levels have prices, one top-up per cool-down, two sides after it, no undeserved refusal, every market order, tick and trade page gets through |
| `accounts` | 2 users, 1 browser with 2 overlapping requests, 3 tokens, 1 failed statement or restart | sessions are earned, retired tokens stay gone, wallets are only missing where a sign-up broke off |

The bounds are small but each interesting case occurs in them: two makers at one
price and at two, a taker that takes part of a maker or several makers and rests;
own orders that meet each other and others' orders; a fill at every point of a
request; a restart at every point; odd products and averages, so that truncation
and rounding occur; a list and buffers shorter than what is published.  In
`feed_book` one caller is enough for snapshots out of order, since every call
leaves its own goroutine.  In `liquidity` the others' orders are as large as a
whole side, so that a level, a side or the middle moves under a snapshot; the
spread swallows the price of an outer bid; a timer is enough for a second top-up.
In `accounts` one browser is enough because two browsers share nothing but the
user rows, while the races are between requests that share a cookie.

What the settlement runs leave out is as important: `FundsReserved` does not
hold with withdrawals (a finding) nor with market buys, whose quote may be stale
when they execute; `NeverOvercharged` and `FilledIsReal` do not hold with two
requests in flight or with failing statements, because a sync charges again what
a debit already took, and charges an order that is not in the book yet, or no
longer.  `NoDoubleReserve` is `FundsReserved` for overlapping requests, as long as
nothing is withdrawn and no `UnlockAmount` is refused.  The second condition is a
race of the code: a cancel reads its row, the order is filled
and a sync debits the fill and releases its lock, the cancel releases the whole lock
again by its old copy; then the settlement of another order debits, its unlock is
refused, and the lock is left above the balance (handlers.go:1397).  `PROJECT.json` lists these under "hazards",
at their lines, with the reason where no property covers one: mostly money that
is leaked or not charged, about which the repository states nothing.

## Fairness

`Orderbook`: weak fairness of the steps of a call; a goroutine that holds the
lock is scheduled.  Nothing is assumed of callers.

`Feed`: goroutines run (weak fairness of publishing steps and of sending a
snapshot), a reader waiting for `s.mu` gets it in the end (strong fairness;
`sync.RWMutex` does not starve readers), the 3-second ticker ticks, and a
`select` with both the channel and the ticker ready does not ignore one of them
forever (Go picks at random).  Nothing is assumed of trade clients: they may stop
reading, and `CallsReturn` holds all the same.  The number of calls is bounded, so
"current" means the book after the last one.

`MarketFeed`: the fetcher's own steps and the handlers that drain a channel are
weakly fair.  That the source ever answers is no fairness of
the code and is not in `FairMarketSpec`: `MarketsStayCurrent` has strong fairness of
`Answer` as its antecedent.

`Liquidity`: weak fairness of the steps of a call, strong fairness of getting
`m.mu`, which stream ticks take again and again: `sync.Mutex` hands over to a
waiter that has waited for a millisecond.  The price requests and sleeps inside
a call end (the manager's requests have time-outs), so they are part of steps.

`Accounts` and `Settlement` have no liveness property: a request may fail, a
response may be lost, and a browser need not try again.

## Proofs

Each proof module states an inductive invariant, a conjunction of named parts,
shows that the initial states have it and that every action keeps it (a lemma per
action or group of actions), and derives the theorems.  `PROJECT.json` lists these
with the properties they state.  A theorem holds for every value of the constants
that meets the assumptions named in its module and the hypotheses it states; 31 of
the 36 properties of the passing runs have one, all but the liveness properties.

`Sums`: what `SumFunctionOnSet` returns for a finite set: the empty sum, adding and
removing an element, changing one summand, comparison, union, scaling.  The
library's induction theorems take an operator as a parameter, which the prover
cannot instantiate; `SetInduction` states induction over finite sets through the
set of the good subsets instead, and the fold is shown to be the one function with
its recursion equation.  Then the arithmetic of a queue served from its head, and
sequences in the order of a relation: a set has at most one (`OrderedUnique`), one of
the first elements is a prefix (`OrderedPrefix`), and flattening, keeping some elements
and inserting one keep the order.

`OrderbookProofs`: for all sets of orders, prices and sizes.  The invariants are
not inductive as they stand: during a fill volumes, queues and the list of orders
to delete are out of step.  `IInv` adds which step of which call the state belongs
to (`CallInv`), that queues hold each open order once and in the right level
(`QueueInv`), that used-up orders are exactly those waiting for deletion
(`SpentInv`), and what the loop has passed (`FillInv`); from it follow
`NeverCrossed`, `BookConsistent`, `PriorityKept` and `TypeCorrect`.  `SumInv` adds
that volumes are the sums of their queues also in the middle of a fill, when what
waits for deletion is used up, that a caller's back-reference is to the level that
holds its order, and that the book still has the volume a market order in progress
wants; from it `VolumesAreSums` and `MarketOrdersComplete`.  `DepthInv` says what
the call in progress has done to the book it found: it has used up the levels that
are gone, all of them in its reach and better than those left, and part of the first
that is left; what its order has got (`GivenInv`) is what the side has lost.
`DepthRefined` maps the return of a call to the one step of `DepthBook` and every
other step to a stutter.  `MatchInv` says the same of single orders: those the call
found are still there unless used up (`FoundInv`), and the matches so far are the first
of them in priority order, each filled but perhaps the last (`FilledInv`).  `EngineRefined`
follows, the strongest statement about the engine: what `MatchingEngine` says every maker
gives, `n` minus what those before it have, is what the loops took from it, and
what is open of the orders found is the side that is left, since a set of orders has
only one order of priority; a remaining limit order joins behind those at least as
good, a cancel takes one order out, the other steps stutter.  `FullInvariance` is the
conjunction, `FullInv`, which the run checks as well.
The hypothesis of these theorems is that no order is cancelled both by id and by
pointer (`ByPointer` and `ById` are disjoint, as in the run): the pointer a placing
caller keeps has its `engineLimit` still, and a cancel by it after one by id lowers
the volume of a level that no longer holds the order (orderbook.go:307).  The server
cancels by id only; the repository cancels by pointer in tests.

`PrecisionProofs`: for all scales, word widths, limits and quantities
(`PrecisionAssumption`: scales and width positive).  Division by the scale is
superadditive up to one (`SplitQuotient`), and the product is exact below the word
width (`NotionalWithoutOverflow`).  `PiecesInv` says that what is unlocked lies
within `pieces` of the notional of what is filled and is no less than what is
charged, and `RecordedInv` that the record is the fills' value up to half a unit per
lot matched at once, from the rounding of their average, and one quantum per piece.
From these `LockSuffices` and `PageAverageFair` follow, provided that the order's own
product does not overflow, which is the condition the overflow run shows not to
be guaranteed.  The bound of the second is reached: with whole quantities, one unit at
3 and one at 4 are recorded as two at 4; two more at the limit of 5 make 18 for four,
shown as 5 each, three more than the 17 they cost, and 2 * 3 is the 4 + 2 allowed.
`NoPhantomLoss` adds that the notional is monotone in the price.
`AveragePriceFair` needs only that the fills' value is at most limit times size.

`SettlementProofs`: `StateOK`, for any number of overlapping requests, failing
statements and restarts.  Each request is at a step of its handler and has there
what that step relies on (`Control`), rows and wallet have their types, and so does
the book they see.  The engine's instance is reduced to lemmas about one call: what
placing an order does to queues, sizes and trades, and that a match gives a taker no
more than it asked for.  `Select`, which
`MatchingEngine` writes as a recursive function, is unfolded in `Sums` through the
equation it satisfies (`IsAmong`).  `WalletStaysNonNegative` follows from the conditions in
SQL, once every amount is known to be a natural number.

`Real` needs one request at a time.  It relates rows, the handler's copies and the
engine: what a row shows or is about to show as filled is no more than the order
has traded; an order that rests has an open row; a row of this process whose order
is gone was used up, cancelled or is being placed.  The last is what entitles a
sync to take an order it misses in the book for filled, and it is false with two
requests: between `Create` and the engine's call a sync of the same user does not
find the order.  `RestingStaysCancellable` holds at any moment, also after failing
statements and restarts; `FillsAreReal` needs that no statement fails
(`MaxFailures = 0`), since a failing `MarkCancelled` leaves an open row without an
order.

`WalletProofs`: what the money is worth, first for one request at a time.  `Known`:
what the handler copied of its row still holds.  `Secure`, without failures and
restarts: the lock covers, order by order, what the row and the running handler
still hold of it (`Held`), and is within the balance and what has been debited but
is still locked (`Owing`).  It is kept because notionals of parts add up to at most that of the
whole, a buy never pays more than its own price, so that no debit of a limit order
is ever refused, and `unlockWalletUpTo` releases only the order's own share.
`LocksAlwaysCover` and, until money is withdrawn, `FundsStayReserved` follow.
`Charged`, restarts included: the value an order traded covers what it has been
charged and what syncs may still charge, at the row's price, for fills the row does
not show; a maker's fills are at its own price, so that this is no more than they
cost; the average of a taker's fills is off by at most half a unit per lot.
`NobodyIsOvercharged` follows, if no statement fails and no fill is worth nothing
(`NothingIsFree`): a market buy whose notional rounds to zero is charged its
estimate instead (handlers.go:565).  In the code that takes a price and a quantity
whose product is below one micro-USDT.
`NothingReservedTwice` is for any number of requests at a time.  Its invariant
`Shared` says that the lock is within the balance and what all settlements together
have debited and not yet unlocked (`Debts`, a sum over the requests, each owing no
more than it is about to unlock, `Sensible`), as long as every market order on record
is one that the engine has not filled yet; for that, rows and requests must be in
step: each pending market order has a row of its own, and whoever is about to create
a row finds a number for it (`Orderly`).  The lock may be less than what rows hold,
since two settlements can release the same funds; a step that does so finds the
lock too small or leaves it smaller, and only a refused unlock, which
`unlockRefused` records, leaves a debit without one.

`FeedProofs`: for any number of callers, clients, calls and trades
(`FeedAssumption`).  `Publishing` says that the holder of `s.mu` alone has trades
to publish and that these are the newest executed ones, in order; `Streams` that
what a client has got or still has in its channel is increasing and not beyond
what was sent, the seed tick apart.  `ListIsRecent` adds that the list runs without
a gap down from the newest trade stored.  `NoGap` adds what a page's list and
stream cover together from the moment it subscribes; it needs a list of at least
two ticks and uses that the seed tick is stored at most once, or that tick could
push out a trade the page has not got.  For any number of price browsers,
`SendsToOpen`: the mutex is held exactly while a broadcast walks, and what it has
still to visit is connected.

`LiquidityProofs`: for any callers, prices and sizes (`CallersAssumption`,
`QuantitiesAssumption`).  A caller inside a call holds `m.mu` (`Mutex`), so a top-up
that has begun keeps the next one from looking at the cool-down until it has set
it (`Begun`): `ToppedUpOnce`.  `TradeInv` says of each step of a call what it has
computed and, while nobody else has traded, what the book holds by then: a bid and
an ask once a top-up has placed its first level, the missing depth once a market
order's has.  `TypesHold`, `BothSidesQuoted` and the action property of
`UndisturbedIsServed` follow.

`AccountsProofs`: for any number of users, browsers, overlapping requests, tokens
and faults (`EmailsAssumption`, `TokensAssumption`).  A stored session is earned
only if every copy a request holds is: `CopiesEarned` says of a request's copy what
`SessionIsEarned` says of the store, and that a request about to renew is given
only the user it proved; `TokensDrawn` that a new token is nobody's yet;
`CopiesShared` that whoever holds a retired token held it when it was retired;
`SignupsUnderWay` that a request which creates a wallet does so for a user whose
row it inserted.

Only model-checked: all liveness (`CallReturns`, `CallsReturn`,
`EventuallyCurrent`, `MarketsStayCurrent`, `CallersAnswered`), which is out of the prover's reach.

## Not modelled

HTML, styles, number formats, percentages and labels, and the code generated from
templates and protobuf definitions.  Password hashing, CSRF tokens, the 12-hour
expiry of sessions; `ComparePassword` and `UpdatePassword`, which nothing calls.
The gRPC transport in front of the exchange server and `ResetOrderbook`, which
nothing calls.  Flags, pool limits, HTTP time-outs, deployment.  Symbols: all
trade pages share the one book, so nothing in the book depends on them.

## Plan

1. Engine, settlement, publishing, precision with their theorems: done.
2. Liquidity manager, sessions and sign-up, price stream, order page, the second
   abstract book, one session's concurrency: done.
3. Theorems about sums, money and sequences, about requests that overlap, and that the
   engine implements both abstract books: done.
4. Left: what single-request theorems of `Settlement` (`FundsStayReserved`,
   `NobodyIsOvercharged`) become when requests overlap; the hazards without a property
   are where they fail.
