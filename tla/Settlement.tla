----------------------------- MODULE Settlement -----------------------------
(***************************************************************************)
(* How the handlers of cmd/exchange move one user's money and order rows.  *)
(* Every HTTP request is a thread whose steps are the SQL statements and   *)
(* engine calls of its handler, in the handler's order; nothing encloses   *)
(* them in a transaction, so the steps of concurrent requests, the trades  *)
(* of other participants, failing statements and crashes fall between      *)
(* them.  The engine is the atomic one of MatchingEngine: ExchangeServer   *)
(* holds its mutex around each call.  Wallet and rows survive a crash, the *)
(* book does not.  A row of the user and its engine order share one id.    *)
(***************************************************************************)
EXTENDS Integers, Sequences, FiniteSetsExt, SequencesExt

CONSTANTS Threads,      \* requests of the user that may be in flight at once
          Kinds,        \* thread -> the handlers the user may call with it
          MaxRows,      \* bound: orders the user places
          MaxOthers,    \* bound: orders the other participants place
          Prices, Sizes,
          Scale,        \* engine.QuantityScale: notional = price*size \div Scale
          Amount,       \* what one deposit or withdrawal moves
          MaxBalance,   \* bound: deposits stop here
          MaxCrashes,   \* bound: restarts of the process
          MaxFailures,  \* bound: SQL statements that fail
          PageLimit     \* rows the order page and a sync list: 500 in the code

\* Prices, sizes and amounts are checked to be positive before they are used.
ASSUME SettlementAssumption ==
    /\ MaxRows \in Nat /\ MaxOthers \in Nat
    /\ Prices \subseteq Nat \ {0} /\ Sizes \subseteq Nat \ {0}
    /\ Scale \in Nat \ {0} /\ Amount \in Nat /\ PageLimit \in Nat

Rows   == 1..MaxRows
Others == (MaxRows + 1)..(MaxRows + MaxOthers)

VARIABLES wallet,   \* the user's row of table wallets: balance and locked
          orders,   \* id -> the user's row of table orders
          lastRow,  \* the last id given to an order of the user
          fresh,    \* rows created since the process started
          req,      \* thread -> the handler's position and local variables
          crashes, failures,
          unlockRefused, \* history: UnlockAmount has found too little locked
          paid,     \* history: id -> what DebitWallet took for the order
          withdrawn, \* history: the user has withdrawn money
          cost,     \* history: id -> sum of price*size of the order's trades
          received, bid, price, size, book, matches  \* of MatchingEngine

E == INSTANCE MatchingEngine WITH Orders <- Rows \cup Others

db     == <<wallet, orders, lastRow, fresh, paid, withdrawn>>
faults == <<crashes, failures, unlockRefused>>
engine == <<received, bid, price, size, book, matches>>
market == <<engine, cost>>
vars   == <<db, req, faults, market>>

NoRow == [status |-> "NONE", kind |-> "LIMIT", bid |-> FALSE, price |-> 0,
          quantity |-> 0, filled |-> 0, notional |-> 0]

\* A handler's position and local variables, before it has set any.
Idle == [kind |-> "none", pc |-> "idle", row |-> 0,
         bid |-> FALSE, price |-> 0, quantity |-> 0, lock |-> 0,
         available |-> 0, estimate |-> 0, got |-> 0, paidPrice |-> 0,
         filled |-> 0, notional |-> 0, status |-> "NONE", debit |-> 0, unlock |-> 0,
         amount |-> 0, next |-> "idle", todo |-> <<>>, seen |-> <<>>, order |-> NoRow]

\* Record r with the fields of f in place of its own.
With(r, f) == [x \in DOMAIN r |-> IF x \in DOMAIN f THEN f[x] ELSE r[x]]

IsRow(r) == orders[r].status # "NONE"

Init ==
    /\ wallet = [balance |-> 0, locked |-> 0]
    /\ orders = [r \in Rows |-> NoRow]
    /\ lastRow = 0
    /\ fresh = {}
    /\ req = [t \in Threads |-> Idle]
    /\ crashes = 0
    /\ failures = 0
    /\ unlockRefused = FALSE
    /\ paid = [r \in Rows |-> 0]
    /\ withdrawn = FALSE
    /\ cost = [r \in Rows |-> 0]
    /\ E!Init

-----------------------------------------------------------------------------
(* Pure helpers of the handlers.                                           *)

Notional(p, q) == (p * q) \div Scale

\* Mutant: what is locked may be spent again.
Balance == wallet.balance

Available == wallet.balance - wallet.locked

\* Mutant: the handler's reading of the wallet is taken to suffice.
AlreadyChecked(a) == TRUE

\* The WHERE clause of LockAmount.
CanReserve(a) == Available >= a

\* Mutant: UnlockAmount without the WHERE clause.
AlwaysUnlock(a) == TRUE

CanUnlock(a) == wallet.locked >= a

Remaining(o) == o.quantity - o.filled

IsOpen(o) == o.status \in {"OPEN", "PARTIALLY_FILLED"}

statusFromProgress(q, f) ==
    IF f >= q THEN "FILLED" ELSE IF f > 0 THEN "PARTIALLY_FILLED" ELSE "OPEN"

CanCancelOrder(o) == o.kind = "LIMIT" /\ IsOpen(o) /\ Remaining(o) > 0

\* Mutant: the start of the process is not considered.
AlwaysInfer(r) == TRUE

\* An order that is missing from the book was filled, unless it was placed
\* before this process, and its book, started.
ShouldInferMissingProgress(r) == r \in fresh

\* The size and the rounded average price of the trades ms (aggregateMatch).
SizeFilled(ms) == SumFunctionOnSet([k \in DOMAIN ms |-> ms[k].size], DOMAIN ms)
Value(ms, K)   == SumFunctionOnSet([k \in DOMAIN ms |-> ms[k].price * ms[k].size], K)
VWAP(ms) ==
    LET n == SizeFilled(ms)
    IN  (2 * Value(ms, DOMAIN ms) + n) \div (2 * n)

OnBook == ToSet(book[TRUE]) \cup ToSet(book[FALSE])

RemainingByID == [o \in OnBook \cap Rows |-> size[o]]

\* Mutant: what was settled before is settled again.
WholeFill(o, f) == f

FillDelta(o, f) == f - o.filled

\* What a market buy of n is expected to cost, summed level by level.
MarketBuyQuote(n) ==
    LET asks   == ToSet(book[FALSE])
        levels == {price[o] : o \in asks}
        vol(P) == SumFunctionOnSet(size, {o \in asks : price[o] \in P})
        take(p) == Max({0, Min({vol({p}), n - vol({q \in levels : q < p})})})
    IN  SumFunctionOnSet([p \in levels |-> Notional(p, take(p))], levels)

BestPrice(b) == IF book[b] = <<>> THEN 0 ELSE price[Head(book[b])]

-----------------------------------------------------------------------------
(* What OrdersHandler shows.                                               *)

\* The rows with the ids in S, newest first, as the SELECTs order them.
NewestFirst(S) ==
    LET ids == E!Select([k \in Rows |-> MaxRows + 1 - k], S)
    IN  [k \in DOMAIN ids |-> [id |-> ids[k], row |-> orders[ids[k]]]]

\* The newest of the rows in S, up to the limit of the SELECT.
Newest(S) == {r \in S : Cardinality({q \in S : q > r}) < PageLimit}

ListByUser == Newest({r \in Rows : IsRow(r)})

\* Mutant: a partially filled order is neither active nor completed.
onlyUntouched(tab) ==
    CASE tab = "completed" -> {"FILLED", "CANCELLED"}
      [] tab = "all"       -> {"OPEN", "PARTIALLY_FILLED", "FILLED", "CANCELLED"}
      [] OTHER             -> {"OPEN"}

\* The statuses a tab lists; a tab of another name is the active one.
normalizeOrdersTab(tab) ==
    CASE tab = "completed" -> {"FILLED", "CANCELLED"}
      [] tab = "all"       -> {"OPEN", "PARTIALLY_FILLED", "FILLED", "CANCELLED"}
      [] OTHER             -> {"OPEN", "PARTIALLY_FILLED"}

OrdersPage(tab) == NewestFirst({r \in ListByUser : orders[r].status \in normalizeOrdersTab(tab)})

-----------------------------------------------------------------------------
(* The thread's control: where a handler goes next.                        *)

Become(t, r) == req' = [req EXCEPT ![t] = r]
Set(t, f)    == Become(t, With(req[t], f))
Start(t, f)  == Become(t, With(Idle, f))

\* unlockWalletUpTo(amount), a read and a write of the wallet, then next.
UnlockUpTo(amount, next) ==
    IF amount > 0 THEN [pc |-> "unlockRead", amount |-> amount, next |-> next]
                  ELSE [pc |-> next, next |-> next]

\* What syncUserOpenOrders returns to: the cancel it precedes, or the page.
AfterSync(r) ==
    IF r.kind = "cancel" THEN With(Idle, [kind |-> "cancel", row |-> r.row, pc |-> "get"])
                         ELSE Idle
NextOrder(r) == With(r, [pc |-> "order", todo |-> Tail(r.todo)])

InSync(r) == r.kind \in {"sync", "cancel"} /\ r.pc \notin {"get", "mark"}

\* The handler's reaction to a statement that returns an error or no row.
OnError(r) ==
    CASE r.pc = "list"                              -> AfterSync(r)
      [] r.pc = "create" /\ r.kind = "limit" /\ r.bid -> With(r, [pc |-> "release"])
      [] r.pc = "debit" /\ r.kind = "limit"         -> With(r, UnlockUpTo(r.lock, "update"))
      [] r.pc = "debit" /\ r.kind = "market"        -> With(r, [pc |-> "update"])
      [] r.pc = "debit" /\ InSync(r)                -> NextOrder(r)
      [] r.pc \in {"unlockRead", "unlockWrite"} /\ r.kind = "limit" -> With(r, [pc |-> "update"])
      [] r.pc \in {"unlockRead", "unlockWrite"} /\ r.next = "update" /\ InSync(r) -> NextOrder(r)
      [] r.pc = "update" /\ InSync(r)               -> AfterSync(r)
      [] OTHER                                      -> Idle

Statements == {"list", "get", "withdraw", "wallet", "lock", "create", "release", "debit",
               "unlockRead", "unlockWrite", "update", "delete", "mark"}

StatementFails(t) ==
    /\ req[t].pc \in Statements
    /\ failures < MaxFailures
    /\ failures' = failures + 1
    /\ Become(t, OnError(req[t]))
    /\ UNCHANGED <<db, crashes, unlockRefused, market>>

-----------------------------------------------------------------------------
(* WalletHandlerPost.                                                      *)

Deposit(t) ==
    /\ req[t].pc = "idle" /\ "deposit" \in Kinds[t]
    /\ wallet.balance + Amount <= MaxBalance
    /\ wallet' = With(wallet, [balance |-> wallet.balance + Amount])
    /\ UNCHANGED <<orders, lastRow, withdrawn, fresh, paid, req, faults, market>>

RequestWithdrawal(t) ==
    /\ req[t].pc = "idle" /\ "withdraw" \in Kinds[t]
    /\ wallet.balance + wallet.locked >= Amount
    /\ Start(t, [kind |-> "withdraw", pc |-> "withdraw"])
    /\ UNCHANGED <<db, faults, market>>

Withdraw(t) ==
    /\ req[t].pc = "withdraw"
    /\ wallet' = IF wallet.balance >= Amount
                 THEN With(wallet, [balance |-> wallet.balance - Amount]) ELSE wallet
    /\ withdrawn' = TRUE
    /\ Become(t, Idle)
    /\ UNCHANGED <<orders, lastRow, fresh, paid, faults, market>>

-----------------------------------------------------------------------------
(* PlaceLimitOrderPost and PlaceMarketOrderPost.                           *)

\* MaxRows bounds the rows created and still to be created.
CanSubmit ==
    lastRow + Cardinality({t \in Threads : req[t].pc \in {"lock", "wallet", "quote", "create"}})
        < MaxRows

\* The forms that parse: a side, a size and, if asked for, a price above zero.
parseOrderInput(requirePrice) ==
    [bid : BOOLEAN, price : IF requirePrice THEN Prices ELSE {0}, quantity : Sizes]

\* The wallet is read before it is locked; sells reserve nothing.
SubmitLimit(t) ==
    /\ req[t].pc = "idle" /\ "limit" \in Kinds[t] /\ CanSubmit
    /\ \E o \in parseOrderInput(TRUE) :
         LET worth == IF o.bid THEN Notional(o.price, o.quantity) ELSE 0
         IN  /\ o.bid => Available >= worth
             /\ Start(t, [kind |-> "limit", pc |-> IF o.bid THEN "lock" ELSE "create",
                          lock |-> worth, bid |-> o.bid, price |-> o.price,
                          quantity |-> o.quantity])
    /\ UNCHANGED <<db, faults, market>>

LockAmount(t) ==
    LET r == req[t] IN
    /\ r.pc = "lock"
    /\ IF CanReserve(r.lock)
       THEN /\ wallet' = With(wallet, [locked |-> wallet.locked + r.lock])
            /\ Set(t, [pc |-> "create"])
       ELSE /\ Become(t, OnError(r))
            /\ UNCHANGED wallet
    /\ UNCHANGED <<orders, lastRow, withdrawn, fresh, paid, faults, market>>

SubmitMarket(t) ==
    /\ req[t].pc = "idle" /\ "market" \in Kinds[t] /\ CanSubmit
    /\ \E o \in parseOrderInput(FALSE) :
         /\ E!Depth(~o.bid) >= o.quantity
         /\ Start(t, [kind |-> "market", pc |-> IF o.bid THEN "wallet" ELSE "quote",
                      bid |-> o.bid, quantity |-> o.quantity])
    /\ UNCHANGED <<db, faults, market>>

ReadWallet(t) ==
    /\ req[t].pc = "wallet"
    /\ Set(t, [pc |-> "quote", available |-> Available])
    /\ UNCHANGED <<db, faults, market>>

\* A buy is refused when the book no longer fills it or is too expensive.
Quote(t) ==
    LET r == req[t] IN
    /\ r.pc = "quote"
    /\ IF r.bid
       THEN LET estimate == MarketBuyQuote(r.quantity) IN
            IF E!Depth(FALSE) >= r.quantity /\ r.available >= estimate
            THEN Set(t, [pc |-> "create", price |-> BestPrice(FALSE), estimate |-> estimate])
            ELSE Become(t, Idle)
       ELSE Set(t, [pc |-> "create", price |-> BestPrice(TRUE)])
    /\ UNCHANGED <<db, faults, market>>

Create(t) ==
    LET r == req[t] IN
    /\ r.pc = "create"
    /\ lastRow' = lastRow + 1
    /\ orders' = [orders EXCEPT ![lastRow'] =
         [status |-> "OPEN", kind |-> IF r.kind = "limit" THEN "LIMIT" ELSE "MARKET",
          bid |-> r.bid, price |-> r.price, quantity |-> r.quantity,
          filled |-> 0, notional |-> 0]]
    /\ fresh' = fresh \cup {lastRow'}
    /\ Set(t, [pc |-> "place", row |-> lastRow'])
    /\ UNCHANGED <<wallet, paid, withdrawn, faults, market>>

\* The unlock after a failed INSERT; its own error is ignored.
Release(t) ==
    LET r == req[t] IN
    /\ r.pc = "release"
    /\ wallet' = IF CanUnlock(r.lock)
                 THEN With(wallet, [locked |-> wallet.locked - r.lock]) ELSE wallet
    /\ Become(t, Idle)
    /\ UNCHANGED <<orders, lastRow, withdrawn, fresh, paid, faults, market>>

\* Book the trades of incoming order o in the history.
Traded(o) ==
    cost' = [r \in Rows |->
               cost[r] + Value(matches', {k \in DOMAIN matches' : r \in {o, matches'[k].maker}})]

PlaceLimit(t) ==
    LET r == req[t] IN
    /\ r.pc = "place" /\ r.kind = "limit"
    /\ E!LimitOrder(r.row, r.bid, r.price, r.quantity)
    /\ Traded(r.row)
    /\ Set(t, [pc |-> "readSize", got |-> SizeFilled(matches'),
               paidPrice |-> IF matches' = <<>> THEN r.price ELSE VWAP(matches')])
    /\ UNCHANGED <<db, faults>>

\* The handler reads order.Size without the engine's lock, twice: the order
\* may rest in the book by now and be filled in between.
FilledSoFar(r) == Max({r.quantity - size[r.row], r.got})

ReadSize(t) ==
    LET r == req[t]
        f == FilledSoFar(r)
    IN  /\ r.pc = "readSize"
        /\ Set(t, [pc |-> "readStatus", filled |-> f, notional |-> Notional(r.paidPrice, f)])
        /\ UNCHANGED <<db, faults, market>>

\* Mutant: the first fill releases the whole lock.
ReleasesAll(r) == r.lock

FilledLock(r) == Notional(r.price, r.filled)

ReadStatus(t) ==
    LET r == req[t] IN
    /\ r.pc = "readStatus"
    /\ Set(t, [pc |-> IF r.bid /\ r.filled > 0 THEN "debit" ELSE "update",
               debit |-> r.notional,
               unlock |-> FilledLock(r),
               status |-> IF size[r.row] = 0 THEN "FILLED"
                          ELSE IF r.filled > 0 THEN "PARTIALLY_FILLED" ELSE "OPEN"])
    /\ UNCHANGED <<db, faults, market>>

\* safePlaceMarketOrder: the engine fills the order or panics.
PlaceMarket(t) ==
    LET r == req[t] IN
    /\ r.pc = "place" /\ r.kind = "market"
    /\ \/ /\ E!MarketOrder(r.row, r.bid, r.quantity)
          /\ Traded(r.row)
          /\ LET n == Notional(VWAP(matches'), r.quantity)
                 v == IF n > 0 \/ ~ r.bid THEN n
                      ELSE IF r.estimate > 0 THEN r.estimate ELSE Notional(r.price, r.quantity)
             IN  Set(t, [pc |-> IF r.bid THEN "debit" ELSE "update", filled |-> r.quantity,
                         notional |-> v, debit |-> v, unlock |-> 0, status |-> "FILLED"])
       \/ /\ E!RefuseMarketOrder(r.row, r.bid, r.quantity)
          /\ Set(t, [pc |-> "delete"])
          /\ UNCHANGED cost
    /\ UNCHANGED <<db, faults>>

DeleteByEngineOrderID(t) ==
    /\ req[t].pc = "delete"
    /\ orders' = [orders EXCEPT ![req[t].row] = NoRow]
    /\ Become(t, Idle)
    /\ UNCHANGED <<wallet, lastRow, withdrawn, fresh, paid, faults, market>>

-----------------------------------------------------------------------------
(* Statements several handlers share.                                      *)

DebitWallet(t) ==
    LET r == req[t] IN
    /\ r.pc = "debit"
    /\ IF wallet.balance >= r.debit
       THEN /\ wallet' = With(wallet, [balance |-> wallet.balance - r.debit])
            /\ paid' = [paid EXCEPT ![IF InSync(r) THEN Head(r.todo).id ELSE r.row] = @ + r.debit]
            /\ Set(t, UnlockUpTo(r.unlock, "update"))
       ELSE /\ Become(t, OnError(r))
            /\ UNCHANGED <<wallet, paid>>
    /\ UNCHANGED <<orders, lastRow, withdrawn, fresh, faults, market>>

\* unlockWalletUpTo: the wallet is read ...
UnlockRead(t) ==
    LET r == req[t]
        a == Min({r.amount, wallet.locked})
    IN  /\ r.pc = "unlockRead"
        /\ Set(t, [pc |-> IF a > 0 THEN "unlockWrite" ELSE r.next, amount |-> a])
        /\ UNCHANGED <<db, faults, market>>

\* ... and UnlockAmount refuses when it has less locked by now.
UnlockWrite(t) ==
    LET r == req[t] IN
    /\ r.pc = "unlockWrite"
    /\ IF CanUnlock(r.amount)
       THEN /\ wallet' = With(wallet, [locked |-> wallet.locked - r.amount])
            /\ Set(t, [pc |-> r.next])
            /\ UNCHANGED unlockRefused
       ELSE /\ Become(t, OnError(r))
            /\ unlockRefused' = TRUE
            /\ UNCHANGED wallet
    /\ UNCHANGED <<orders, lastRow, withdrawn, fresh, paid, crashes, failures, market>>

\* The row is overwritten whatever it holds by now.
UpdateExecution(t) ==
    LET r  == req[t]
        id == IF InSync(r) THEN Head(r.todo).id ELSE r.row
    IN  /\ r.pc = "update"
        /\ orders' = IF ~ IsRow(id) THEN orders
                     ELSE [orders EXCEPT ![id] = With(@, [filled   |-> r.filled,
                                                          notional |-> r.notional,
                                                          status   |-> r.status])]
        /\ Become(t, IF InSync(r) THEN NextOrder(r) ELSE Idle)
        /\ UNCHANGED <<wallet, lastRow, withdrawn, fresh, paid, faults, market>>

-----------------------------------------------------------------------------
(* syncUserOpenOrders, called by OrdersHandler and before a cancellation.  *)

\* The newest open rows, newest first, as the SELECT returns them.
OpenRows == NewestFirst(Newest({r \in Rows : IsOpen(orders[r])}))

StartSync(t) ==
    /\ req[t].pc = "idle"
    /\ \/ /\ "sync" \in Kinds[t]
          /\ Start(t, [kind |-> "sync", pc |-> "list"])
       \/ /\ "cancel" \in Kinds[t]
          /\ \E r \in Rows :
                r <= lastRow /\ Start(t, [kind |-> "cancel", row |-> r, pc |-> "list"])
    /\ UNCHANGED <<db, faults, market>>

ListOpenByUser(t) ==
    LET r == req[t] IN
    /\ r.pc = "list"
    /\ Become(t, IF OpenRows = <<>> THEN AfterSync(r)
                 ELSE With(r, [pc |-> "snapshot", todo |-> OpenRows]))
    /\ UNCHANGED <<db, faults, market>>

StreamOrderBook(t) ==
    /\ req[t].pc = "snapshot"
    /\ Set(t, [pc |-> "order", seen |-> RemainingByID])
    /\ UNCHANGED <<db, faults, market>>

\* One turn of the loop, up to its first statement.
SyncOrder(t) ==
    LET r == req[t] IN
    /\ r.pc = "order"
    /\ IF r.todo = <<>> THEN Become(t, AfterSync(r))
       ELSE LET id     == Head(r.todo).id
                o      == Head(r.todo).row
                left   == IF id \in DOMAIN r.seen THEN r.seen[id] ELSE 0
                f      == Max({o.filled, o.quantity - left})
                delta  == Notional(o.price, FillDelta(o, f))
                status == statusFromProgress(o.quantity, f)
            IN  IF \/ id \notin DOMAIN r.seen /\ ~ ShouldInferMissingProgress(id)
                   \/ f = o.filled /\ delta = 0 /\ status = o.status
                THEN Become(t, NextOrder(r))
                ELSE Set(t, [pc |-> IF o.bid /\ delta > 0 THEN "debit" ELSE "update",
                             filled |-> f, notional |-> o.notional + delta, status |-> status,
                             debit |-> delta, unlock |-> delta])
    /\ UNCHANGED <<db, faults, market>>

-----------------------------------------------------------------------------
(* CancelOrderPost, after its sync: read the row, cancel in the engine,    *)
(* release what the row still holds, mark the row.                         *)

GetByIDForUser(t) ==
    LET r == req[t]
        o == orders[r.row]
    IN  /\ r.pc = "get"
        /\ Become(t, IF CanCancelOrder(o) THEN With(r, [pc |-> "cancel", order |-> o]) ELSE Idle)
        /\ UNCHANGED <<db, faults, market>>

CancelOrderByID(t) ==
    LET r    == req[t]
        rem  == Remaining(r.order)
        held == IF r.row \in OnBook /\ size[r.row] > 0 THEN Min({rem, size[r.row]}) ELSE rem
    IN  /\ r.pc = "cancel"
        /\ IF r.row \in OnBook THEN E!Cancel(r.row) ELSE UNCHANGED engine
        /\ Set(t, UnlockUpTo(IF r.order.bid THEN Notional(r.order.price, held) ELSE 0, "mark"))
        /\ UNCHANGED <<db, faults, cost>>

MarkCancelled(t) ==
    LET id == req[t].row IN
    /\ req[t].pc = "mark"
    /\ orders' = IF ~ IsRow(id) THEN orders
                 ELSE [orders EXCEPT ![id] = With(@, [status |-> "CANCELLED"])]
    /\ Become(t, Idle)
    /\ UNCHANGED <<wallet, lastRow, withdrawn, fresh, paid, faults, market>>

-----------------------------------------------------------------------------
(* Other participants trade in the same book; the process may crash.       *)

OtherOrder ==
    /\ \E o \in Others \ received, b \in BOOLEAN, n \in Sizes :
          /\ o = Min(Others \ received)
          /\ \/ E!MarketOrder(o, b, n)
             \/ \E p \in Prices : E!LimitOrder(o, b, p, n)
          /\ Traded(o)
    /\ UNCHANGED <<db, req, faults>>

OtherCancel ==
    /\ \E o \in Others : E!Cancel(o)
    /\ UNCHANGED <<db, req, faults, cost>>

Crash ==
    /\ crashes < MaxCrashes
    /\ crashes' = crashes + 1
    /\ req' = [t \in Threads |-> Idle]
    /\ book' = [b \in BOOLEAN |-> <<>>]
    /\ fresh' = {}
    /\ UNCHANGED <<wallet, orders, lastRow, withdrawn, paid, failures, unlockRefused,
                   cost, received, bid, price, size, matches>>

Handler(t) ==
    \/ Deposit(t) \/ RequestWithdrawal(t) \/ Withdraw(t)
    \/ SubmitLimit(t) \/ LockAmount(t) \/ SubmitMarket(t) \/ ReadWallet(t) \/ Quote(t)
    \/ Create(t) \/ Release(t) \/ PlaceLimit(t) \/ ReadSize(t) \/ ReadStatus(t)
    \/ PlaceMarket(t) \/ DeleteByEngineOrderID(t)
    \/ DebitWallet(t) \/ UnlockRead(t) \/ UnlockWrite(t) \/ UpdateExecution(t)
    \/ StartSync(t) \/ ListOpenByUser(t) \/ StreamOrderBook(t) \/ SyncOrder(t)
    \/ GetByIDForUser(t) \/ CancelOrderByID(t) \/ MarkCancelled(t)
    \/ StatementFails(t)

Next == OtherOrder \/ OtherCancel \/ Crash \/ \E t \in Threads : Handler(t)

Spec == Init /\ [][Next]_vars

-----------------------------------------------------------------------------
(* Properties.                                                             *)

Quiet == \A t \in Threads : req[t].pc = "idle"

Executed(r) == IF r \in received THEN orders[r].quantity - size[r] ELSE 0

\* The wallet is two natural numbers, whatever requests interleave and
\* whichever statements fail: DebitWallet and UnlockAmount check in SQL.
WalletNonNegative == wallet.balance \in Nat /\ wallet.locked \in Nat

\* Funds reserved for open orders exist: between requests, what is locked is part
\* of the balance.  Said of histories without market orders, which are paid from
\* a wallet read earlier, and without restarts and failed statements.
FundsReserved ==
    (Quiet /\ crashes = 0 /\ failures = 0 /\ \A r \in Rows : orders[r].kind = "LIMIT") =>
        wallet.locked <= wallet.balance

\* Two requests never reserve the same money, and settling one order's fills never
\* eats what another has reserved, whatever places, cancels and syncs interleave,
\* as long as nothing was withdrawn and every settlement could unlock what it read
\* as locked.  (A cancel that releases a lock the settlement of a fill has released
\* as well makes UnlockAmount refuse the next settlement, whose debit stands.)
NoDoubleReserve == (~withdrawn /\ ~unlockRefused) => FundsReserved

\* Between requests every open buy is covered: the lock holds at least the
\* notional of what remains of each of them, as long as nothing was interrupted.
LocksCoverOpenOrders ==
    (Quiet /\ crashes = 0 /\ failures = 0) => wallet.locked >=
        SumFunctionOnSet([r \in Rows |-> Notional(orders[r].price, Remaining(orders[r]))],
                         {r \in Rows : IsOpen(orders[r]) /\ orders[r].bid})

\* No order costs more than its trades did, up to the half unit per lot that
\* rounding the average price may add (aggregateMatch).
NeverOvercharged ==
    \A r \in Rows : IsRow(r) =>
        2 * Scale * paid[r] <= 2 * cost[r] + Executed(r)

\* A row never shows more filled than its order has traded: neither a restart
\* that loses the book nor a race with other participants invents fills.
FilledIsReal ==
    \A r \in Rows : IsRow(r) => orders[r].filled <= Executed(r)

\* The owner of a resting order finds it on the active tab of the order page, as
\* long as the page lists all rows, with a cancel button and at least the size that
\* rests: no restart, no failed statement and no handler under way hides it.
RestingIsCancellable ==
    lastRow <= PageLimit => \A r \in Rows \cap OnBook :
        \E k \in DOMAIN OrdersPage("active") :
            LET o == OrdersPage("active")[k]
            IN  o.id = r /\ CanCancelOrder(o.row) /\ Remaining(o.row) >= size[r]

\* A row that shows all its trades shows their value: filled_notional is the
\* micro-USDT filled value.
FilledNotionalIsValue ==
    Quiet => \A r \in Rows :
        (IsRow(r) /\ orders[r].filled = Executed(r)) =>
            2 * Scale * orders[r].notional >= 2 * cost[r] - Executed(r)
=============================================================================
