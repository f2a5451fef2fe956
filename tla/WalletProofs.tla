----------------------------- MODULE WalletProofs -----------------------------
(***************************************************************************)
(* What Settlement's wallet is worth, for any prices, sizes, orders and    *)
(* scale.                                                                  *)
(*                                                                         *)
(* One request at a time:                                                  *)
(* Known: what a handler remembers of its row is still so.  Secure: what   *)
(* is locked covers what each row still holds of its lock, and is part of  *)
(* the balance and of what was debited and not yet unlocked; it rests on   *)
(* Notional(p, q) + Notional(p, v) <= Notional(p, q + v), on a buy never   *)
(* paying more than its own price, and on a debit never being refused.     *)
(* Charged: the trades of an order cover what it has been charged and what *)
(* a sync may still charge for the fills that its row does not show.       *)
(*                                                                         *)
(* Any number of requests at a time.  Shared: what is locked is part of    *)
(* the balance and of what all settlements together have debited and not   *)
(* yet unlocked, as long as every market order is still to be filled; it   *)
(* rests on each settlement unlocking no less than it debits.              *)
(***************************************************************************)
EXTENDS SettlementProofs

USE SettlementAssumption

-----------------------------------------------------------------------------
(* One request at a time: what a handler remembers.                         *)

\* The row a handler is about to settle or to write.
Target(r) == IF InSync(r) THEN Head(r.todo).id ELSE r.row

\* A buy reserves its worth and pays at most its own price; a sell pays nothing.
LimitKnows(r) ==
    /\ r.bid => r.lock = Notional(r.price, r.quantity)
    /\ r.bid /\ r.pc = "readSize" => r.paidPrice <= r.price
    /\ r.bid /\ r.pc = "readStatus" => r.notional <= Notional(r.price, r.filled)
    /\ r.pc = "debit" => r.unlock = Notional(r.price, r.filled) /\ r.debit <= r.unlock
    /\ r.pc = "debit" \/ Unlocking(r) => r.bid

MarketKnows(r) ==
    /\ r.pc = "debit" => r.bid
    /\ r.pc \in {"debit", "update"} => r.status = "FILLED"

\* The row of an order that is being placed is the one that was submitted.
PlacingKnows(r) ==
    LET o == orders[r.row]
    IN  /\ r.row \in fresh /\ o.price = r.price /\ o.bid = r.bid
        /\ o.kind = "MARKET" <=> r.kind = "market"

\* What a sync has listed is still so, and what it has seen is of this process.
ListKnows(r) ==
    /\ \A j, k \in DOMAIN r.todo : r.todo[j].id = r.todo[k].id => j = k
    /\ \A k \in DOMAIN r.todo : r.todo[k].row = orders[r.todo[k].id] /\ IsOpen(r.todo[k].row)
    /\ Looking(r) => DOMAIN r.seen \subseteq fresh

\* What it owes for the row at the head of the list is what was filled since.
HeadKnows(r) ==
    LET e   == Head(r.todo)
        due == Notional(e.row.price, r.filled - e.row.filled)
    IN  /\ e.id \in fresh /\ e.row.filled <= r.filled
        /\ r.pc = "debit" => r.debit = due /\ r.unlock = due
        /\ r.pc = "debit" \/ Unlocking(r) => e.row.bid
        /\ Unlocking(r) => r.amount <= due

\* What a cancellation releases is no more than the row still holds.
CancelKnows(r) ==
    LET o == orders[r.row]
    IN  /\ r.pc = "cancel" => r.order = o /\ IsOpen(o)
        /\ Unlocking(r) /\ r.next = "mark" =>
              o.bid /\ IsOpen(o) /\ r.amount <= Notional(o.price, Remaining(o))

Knows(r) ==
    /\ r.kind = "limit" => LimitKnows(r)
    /\ r.kind = "market" => MarketKnows(r)
    /\ Placing(r) => PlacingKnows(r)
    /\ ListKnows(r)
    /\ InLoop(r) => HeadKnows(r)
    /\ r.kind = "cancel" => CancelKnows(r)

RowKnown(x) == x \in OnBook => x \in fresh /\ price[x] = orders[x].price

Known ==
    /\ crashes \in Nat
    /\ \A x \in Rows : RowKnown(x)
    /\ \A t \in Threads : Knows(req[t])

-----------------------------------------------------------------------------
(* One request at a time: what is locked, for which order.                  *)

\* What the row will show as filled once the handler has written it.
Settled(r, x) == IF r.pc = "update" /\ x = Target(r) THEN r.filled ELSE orders[x].filled

\* Nothing is locked for a market order or one whose lock the cancel has released.
Released(r, x) ==
    \/ ~ (IsOpen(orders[x]) /\ orders[x].bid)
    \/ x = r.row /\ (r.pc = "mark" \/ (r.kind = "market" /\ Placing(r)))

\* A limit buy whose lock no row explains yet ...
Creating(r) == r.kind = "limit" /\ r.bid /\ r.pc = "create"

\* ... and one that holds its lock, all of it.
Reserving(r) ==
    r.kind = "limit" /\ r.bid /\ r.pc \in {"create", "place", "readSize", "readStatus", "debit"}

\* The part of the lock that is for row x, of the next row before it is inserted.
Holding(r, x) ==
    IF Creating(r) /\ x = lastRow + 1 THEN r.lock
    ELSE IF Released(r, x) THEN 0
    ELSE Notional(orders[x].price, orders[x].quantity - Settled(r, x))

Held(r) == SumFunctionOnSet([x \in Rows |-> Holding(r, x)], Rows)

\* What has been debited but is still locked.
Owing(r) == IF Unlocking(r) /\ r.next = "update" THEN r.amount ELSE 0

\* There is no market order but the one that the engine is to fill or has refused.
OnlyLimits(r) ==
    \A x \in Rows : IsRow(x) /\ orders[x].kind = "MARKET" =>
        r.kind = "market" /\ r.row = x /\ r.pc \in {"place", "delete"}

Secured(r) ==
    /\ r.pc # "release"
    /\ Held(r) <= wallet.locked
    /\ Reserving(r) => wallet.locked <= wallet.balance
    /\ r.kind = "limit" /\ Unlocking(r) => r.amount <= Notional(r.price, r.filled)
    /\ ~withdrawn /\ OnlyLimits(r) => wallet.locked <= wallet.balance + Owing(r)

Secure == crashes = 0 /\ failures = 0 => \A t \in Threads : Secured(req[t])


-----------------------------------------------------------------------------
(* What handlers remember.                                                  *)

\* What the money depends on besides.
LEMMA WithMoney ==
    ASSUME NEW r, DOMAIN r = Fields, NEW f
    PROVE  LET w == With(r, f)
           IN  /\ w.bid = IF "bid" \in DOMAIN f THEN f.bid ELSE r.bid
               /\ w.lock = IF "lock" \in DOMAIN f THEN f.lock ELSE r.lock
               /\ w.paidPrice = IF "paidPrice" \in DOMAIN f THEN f.paidPrice ELSE r.paidPrice
               /\ w.notional = IF "notional" \in DOMAIN f THEN f.notional ELSE r.notional
               /\ w.debit = IF "debit" \in DOMAIN f THEN f.debit ELSE r.debit
  BY WithIs DEF Fields

\* Of the only request there is nothing else to show.
LEMMA KnownMoves ==
    ASSUME OneAtATime, Known, NEW t \in Threads, NEW w, req'[t] = w,
           UNCHANGED <<orders, fresh, price, crashes>>, OnBook' \subseteq OnBook, Knows(w)
    PROVE  Known'
<1>1. \A s \in Threads : s = t /\ req'[s] = w
  BY DEF OneAtATime
<1>2. \A s \in Threads : Knows(req[s])'
  <2> SUFFICES ASSUME NEW s \in Threads PROVE Knows(req[s])'
    OBVIOUS
  <2>1. req'[s] = w
    BY <1>1
  <2> QED BY <2>1 DEF Knows, LimitKnows, MarketKnows, PlacingKnows, ListKnows, HeadKnows, CancelKnows,
     IsOpen, Placing, Looking, InLoop, Unlocking, Remaining, Notional
<1>3. \A x \in Rows : RowKnown(x)'
  BY DEF Known, RowKnown
<1> QED BY <1>2, <1>3 DEF Known, Rows

\* A handler at a step of which Knows says nothing but, for a buy, what to lock.
LEMMA PlainKnows ==
    ASSUME NEW w, Allowed(w), w.todo = <<>>,
           w.pc \in {"idle", "withdraw", "lock", "wallet", "quote", "create", "release",
                     "list", "get", "mark"},
           w.kind = "limit" => (w.bid => w.lock = Notional(w.price, w.quantity))
    PROVE  Knows(w)
<1>1. DOMAIN w.todo = {}
  BY EmptySequence
<1>2. ~ Placing(w) /\ ~ Looking(w) /\ ~ InLoop(w) /\ ~ Unlocking(w)
  BY DEF Placing, Looking, InLoop, Unlocking, Allowed, Control, At
<1> QED BY <1>1, <1>2 DEF Knows, LimitKnows, MarketKnows, ListKnows, CancelKnows

\* A handler that places an order, from its row on ...
LEMMA PlacingIs ==
    ASSUME NEW w, w.kind \in {"limit", "market"}, w.todo = <<>>, Placing(w) => PlacingKnows(w),
           w.kind = "limit" => LimitKnows(w), w.kind = "market" => MarketKnows(w), Allowed(w)
    PROVE  Knows(w)
<1>1. DOMAIN w.todo = {}
  BY EmptySequence
<1>2. ~ Looking(w) /\ ~ InLoop(w)
  BY DEF Looking, InLoop, Allowed, Control, At
<1> QED BY <1>1, <1>2 DEF Knows, ListKnows

\* ... and one that follows the orders up.
LEMMA SyncIs ==
    ASSUME NEW w, w.kind \in {"sync", "cancel"}, ListKnows(w), InLoop(w) => HeadKnows(w),
           w.kind = "cancel" => CancelKnows(w)
    PROVE  Knows(w)
  BY DEF Knows, Placing

LEMMA IdleKnows == Knows(Idle) /\ Idle.pc = "idle" /\ Idle.todo = <<>>
<1>1. Idle.pc = "idle" /\ Idle.kind = "none" /\ Idle.todo = <<>>
  BY DEF Idle
<1> QED BY <1>1, IdleAllowed, PlainKnows

\* A request that ends.
LEMMA KnownEnds ==
    ASSUME StateOK, OneAtATime, Known, NEW t \in Threads, Become(t, Idle),
           UNCHANGED <<orders, fresh, crashes>>, UNCHANGED engine
    PROVE  Known'
<1>1. req'[t] = Idle
  BY DEF StateOK, ReqOK, Become
<1>2. OnBook' = OnBook /\ price' = price
  BY DEF OnBook, engine, ToSet
<1> QED BY <1>1, <1>2, IdleKnows, KnownMoves

\* The steps that prepare an order or begin a request of another kind.
LEMMA StartsKnown ==
    ASSUME StateOK, StateOK', OneAtATime, Known, NEW t \in Threads, NEW f, Start(t, f),
           DOMAIN f \subseteq Fields \ {"todo"}, {"kind", "pc"} \subseteq DOMAIN f,
           f.pc \in {"withdraw", "lock", "wallet", "quote", "create", "list"},
           f.kind = "limit" => (f.bid => f.lock = Notional(f.price, f.quantity)),
           f.kind = "limit" => {"bid", "lock", "price", "quantity"} \subseteq DOMAIN f,
           UNCHANGED <<orders, fresh, crashes>>, UNCHANGED engine
    PROVE  Known'
<1>1. PICK w : w = With(Idle, f)
  OBVIOUS
<1>2. Become(t, w)
  BY <1>1 DEF Start
<1>3. Allowed(w) /\ req'[t] = w
  BY <1>2, Moved
<1>4. DOMAIN Idle = Fields /\ Idle.todo = <<>>
  BY IdleTyped DEF Typed, Idle
<1>5. /\ w.kind = f.kind /\ w.pc = f.pc /\ w.todo = <<>>
      /\ f.kind = "limit" => w.price = f.price /\ w.quantity = f.quantity
  BY <1>1, <1>4, WithControl
<1>6. f.kind = "limit" => w.bid = f.bid /\ w.lock = f.lock
  BY <1>1, <1>4, WithMoney
<1>7. Knows(w)
  BY <1>3, <1>5, <1>6, PlainKnows
<1>8. OnBook' = OnBook /\ price' = price
  BY DEF OnBook, engine, ToSet
<1> QED BY <1>3, <1>7, <1>8, KnownMoves

LEMMA StartingKnown ==
    ASSUME StateOK, StateOK', OneAtATime, Known, NEW t \in Threads,
           RequestWithdrawal(t) \/ SubmitLimit(t) \/ SubmitMarket(t) \/ StartSync(t)
    PROVE  Known'
<1>1. CASE RequestWithdrawal(t)
  <2>1. PICK f : f = [kind |-> "withdraw", pc |-> "withdraw"]
    OBVIOUS
  <2>2. DOMAIN f \subseteq Fields \ {"todo"} /\ {"kind", "pc"} \subseteq DOMAIN f
        /\ f.pc = "withdraw" /\ f.kind = "withdraw"
    BY <2>1 DEF Fields
  <2>3. Start(t, f)
    BY <1>1, <2>1 DEF RequestWithdrawal
  <2> QED BY <1>1, <2>2, <2>3, StartsKnown DEF RequestWithdrawal, db, faults, market
<1>2. CASE SubmitLimit(t)
  <2>0. PICK o \in parseOrderInput(TRUE) :
           LET worth == IF o.bid THEN Notional(o.price, o.quantity) ELSE 0
           IN  Start(t, [kind |-> "limit", pc |-> IF o.bid THEN "lock" ELSE "create",
                         lock |-> worth, bid |-> o.bid, price |-> o.price,
                         quantity |-> o.quantity])
    BY <1>2 DEF SubmitLimit
  <2>1. PICK worth, f :
           /\ worth = (IF o.bid THEN Notional(o.price, o.quantity) ELSE 0)
           /\ f = [kind |-> "limit", pc |-> IF o.bid THEN "lock" ELSE "create",
                   lock |-> worth, bid |-> o.bid, price |-> o.price, quantity |-> o.quantity]
           /\ Start(t, f)
    BY <2>0
  <2>2. /\ DOMAIN f = {"kind", "pc", "lock", "bid", "price", "quantity"}
        /\ f.kind = "limit" /\ f.pc \in {"lock", "create"}
        /\ f.price = o.price /\ f.quantity = o.quantity /\ f.lock = worth
    BY <2>1
  <2>3. f.bid = o.bid
    BY <2>1
  <2>4. DOMAIN f \subseteq Fields \ {"todo"} /\ {"kind", "pc", "bid", "lock", "price", "quantity"} \subseteq DOMAIN f
    BY <2>2 DEF Fields
  <2>5. f.bid => f.lock = Notional(f.price, f.quantity)
    BY <2>1, <2>2, <2>3
  <2> QED BY <1>2, <2>1, <2>2, <2>4, <2>5, StartsKnown DEF SubmitLimit, db, faults, market
<1>3. CASE SubmitMarket(t)
  <2>1. PICK f : /\ Start(t, f) /\ f.kind = "market" /\ f.pc \in {"wallet", "quote"}
                 /\ DOMAIN f = {"kind", "pc", "bid", "quantity"}
    BY <1>3 DEF SubmitMarket
  <2>2. DOMAIN f \subseteq Fields \ {"todo"} /\ {"kind", "pc"} \subseteq DOMAIN f
    BY <2>1 DEF Fields
  <2> QED BY <1>3, <2>1, <2>2, StartsKnown DEF SubmitMarket, db, faults, market
<1>4. CASE StartSync(t)
  <2>1. PICK f : /\ Start(t, f) /\ f.kind \in {"sync", "cancel"} /\ f.pc = "list"
                 /\ DOMAIN f \subseteq {"kind", "pc", "row"} /\ {"kind", "pc"} \subseteq DOMAIN f
    <3>1. CASE Start(t, [kind |-> "sync", pc |-> "list"])
      <4>1. PICK f : f = [kind |-> "sync", pc |-> "list"]
        OBVIOUS
      <4> QED BY <3>1, <4>1
    <3>2. ASSUME NEW q \in Rows, Start(t, [kind |-> "cancel", row |-> q, pc |-> "list"])
          PROVE  \E f : /\ Start(t, f) /\ f.kind \in {"sync", "cancel"} /\ f.pc = "list"
                        /\ DOMAIN f \subseteq {"kind", "pc", "row"} /\ {"kind", "pc"} \subseteq DOMAIN f
      <4>1. PICK f : f = [kind |-> "cancel", row |-> q, pc |-> "list"]
        OBVIOUS
      <4> QED BY <3>2, <4>1
    <3> QED BY <1>4, <3>1, <3>2 DEF StartSync
  <2>2. DOMAIN f \subseteq Fields \ {"todo"}
    BY <2>1 DEF Fields
  <2> QED BY <1>4, <2>1, <2>2, StartsKnown DEF StartSync, db, faults, market
<1> QED BY <1>1, <1>2, <1>3, <1>4

\* The steps before the row, none of which changes what to lock.
LEMMA PreparingKnown ==
    ASSUME StateOK, StateOK', OneAtATime, Real, Known, NEW t \in Threads,
           LockAmount(t) \/ ReadWallet(t) \/ Quote(t)
    PROVE  Known'
<1>1. UNCHANGED <<orders, fresh, crashes>> /\ UNCHANGED engine
  BY DEF LockAmount, ReadWallet, Quote, db, faults, market
<1>2. CASE Become(t, Idle)
  BY <1>1, <1>2, KnownEnds
<1>3. PICK r : r = req[t]
  OBVIOUS
<1>4. Allowed(r) /\ RequestReal(r) /\ Knows(r) /\ r.pc \in {"lock", "wallet", "quote"}
  BY <1>3 DEF StateOK, ReqOK, Real, Known, LockAmount, ReadWallet, Quote
<1>5. ASSUME NEW f, Set(t, f), "pc" \in DOMAIN f, f.pc \in {"quote", "create"},
             \/ DOMAIN f = {"pc"}
             \/ r.pc \in {"wallet", "quote"} /\ DOMAIN f \subseteq {"pc", "available", "price", "estimate"}
      PROVE  Known'
  <2>1. PICK w : w = With(r, f)
    OBVIOUS
  <2>2. Become(t, w)
    BY <1>3, <1>5, <2>1 DEF Set
  <2>3. Allowed(w) /\ req'[t] = w
    BY <2>2, Moved
  <2>4. DOMAIN r = Fields
    BY <1>4 DEF Allowed, Typed
  <2>5. /\ w.kind = r.kind /\ w.pc = f.pc /\ w.todo = r.todo /\ w.quantity = r.quantity
        /\ r.pc = "lock" => w.price = r.price
    BY <1>5, <2>1, <2>4, WithControl
  <2>6. w.bid = r.bid /\ w.lock = r.lock
    BY <1>5, <2>1, <2>4, WithMoney
  <2>7. r.todo = <<>> /\ (r.kind = "limit" => r.pc = "lock")
    BY <1>4 DEF RequestReal, Allowed, Control, At
  <2>8. w.kind = "limit" => (w.bid => w.lock = Notional(w.price, w.quantity))
    BY <1>4, <2>5, <2>6, <2>7 DEF Knows, LimitKnows
  <2>9. Knows(w)
    BY <1>5, <2>3, <2>5, <2>7, <2>8, PlainKnows
  <2>10. OnBook' = OnBook /\ price' = price
    BY <1>1 DEF OnBook, engine, ToSet
  <2> QED BY <1>1, <2>3, <2>9, <2>10, KnownMoves
<1>6. CASE LockAmount(t)
  <2>1. CASE CanReserve(req[t].lock)
    <3>1. PICK f : f = [pc |-> "create"]
      OBVIOUS
    <3>2. Set(t, f) /\ DOMAIN f = {"pc"} /\ f.pc = "create"
      BY <1>6, <2>1, <3>1 DEF LockAmount
    <3> QED BY <1>5, <3>2
  <2>2. CASE ~ CanReserve(req[t].lock)
    BY <1>2, <1>6, <2>2 DEF LockAmount, OnError, InSync
  <2> QED BY <2>1, <2>2
<1>7. CASE ReadWallet(t)
  <2>1. PICK f : f = [pc |-> "quote", available |-> Available]
    OBVIOUS
  <2>2. Set(t, f) /\ r.pc = "wallet" /\ DOMAIN f = {"pc", "available"} /\ f.pc = "quote"
    BY <1>3, <1>7, <2>1 DEF ReadWallet
  <2> QED BY <1>5, <2>2
<1>8. CASE Quote(t)
  <2>1. r.pc = "quote"
    BY <1>3, <1>8 DEF Quote
  <2>2. CASE Set(t, [pc |-> "create", price |-> BestPrice(FALSE),
                     estimate |-> MarketBuyQuote(req[t].quantity)])
    <3>1. PICK f : f = [pc |-> "create", price |-> BestPrice(FALSE),
                        estimate |-> MarketBuyQuote(req[t].quantity)]
      OBVIOUS
    <3>2. Set(t, f) /\ DOMAIN f = {"pc", "price", "estimate"} /\ f.pc = "create"
      BY <2>2, <3>1
    <3> QED BY <1>5, <2>1, <3>2
  <2>3. CASE Set(t, [pc |-> "create", price |-> BestPrice(TRUE)])
    <3>1. PICK f : f = [pc |-> "create", price |-> BestPrice(TRUE)]
      OBVIOUS
    <3>2. Set(t, f) /\ DOMAIN f = {"pc", "price"} /\ f.pc = "create"
      BY <2>3, <3>1
    <3> QED BY <1>5, <2>1, <3>2
  <2> QED BY <1>2, <1>8, <2>2, <2>3 DEF Quote
<1> QED BY <1>6, <1>7, <1>8

LEMMA NotionalInt ==
    ASSUME NEW p \in Int, NEW q \in Int
    PROVE  Notional(p, q) \in Int
<1>1. PICK v \in Int : v = p * q
  OBVIOUS
<1>2. v \div Scale \in Int
  OBVIOUS
<1> QED BY <1>1, <1>2 DEF Notional

LEMMA RowTyped ==
    ASSUME StateOK, NEW x \in Rows
    PROVE  orders[x] \in RowSet
  BY DEF StateOK

\* A handler of any kind that goes on to unlock or to write a row.
LEMMA GoesOnKnows ==
    ASSUME StateOK, NEW r, Allowed(r), RequestReal(r), Knows(r), r.pc \in {"debit", "unlockRead", "unlockWrite"},
           NEW f, DOMAIN f \subseteq {"pc", "amount", "next"}, "pc" \in DOMAIN f,
           \/ f.pc \in {"unlockRead", "unlockWrite"}
           \/ f.pc = IF r.pc = "debit" THEN "update" ELSE r.next,
           "next" \in DOMAIN f => f.next = "update" /\ r.pc = "debit",
           r.pc = "debit" /\ f.pc # "update" => "next" \in DOMAIN f,
           r.kind = "market" => f.pc = "update",
           Allowed(With(r, f)),
           r.kind \in {"sync", "cancel"} /\ Unlocking(With(r, f)) =>
              With(r, f).amount <= IF r.pc = "debit" THEN r.unlock ELSE r.amount
    PROVE  Knows(With(r, f))
<1>1. PICK w : w = With(r, f)
  OBVIOUS
<1>2. DOMAIN r = Fields /\ Allowed(w)
  BY <1>1 DEF Allowed, Typed
<1>3. /\ w.pc = f.pc /\ w.kind = r.kind /\ w.row = r.row /\ w.quantity = r.quantity
      /\ w.todo = r.todo /\ w.next = (IF "next" \in DOMAIN f THEN f.next ELSE r.next)
      /\ w.price = r.price
  BY <1>1, <1>2, WithControl
<1>4. w.filled = r.filled /\ w.status = r.status /\ w.seen = r.seen
  BY <1>1, <1>2, WithLocals
<1>5. w.bid = r.bid /\ w.lock = r.lock
  BY <1>1, <1>2, WithMoney
<1>6. CASE r.kind \in {"limit", "market"}
  <2>1. r.next = "update" \/ r.pc = "debit"
    BY <1>6 DEF Allowed, Control
  <2>2. w.pc \in {"unlockRead", "unlockWrite", "update"}
    BY <1>3, <2>1
  <2>3. PlacingKnows(w)
    BY <1>3, <1>5, <1>6 DEF Knows, Placing, PlacingKnows
  <2>4. w.kind = "limit" => LimitKnows(w)
    BY <1>3, <1>5, <2>2 DEF Knows, LimitKnows, Unlocking
  <2>5. w.kind = "market" => MarketKnows(w)
    <3>1. r.kind = "market" => r.pc = "debit"
      BY DEF Allowed, Control, At
    <3> QED BY <1>3, <1>4, <3>1 DEF Knows, MarketKnows
  <2>6. w.todo = <<>>
    BY <1>3, <1>6 DEF RequestReal
  <2> QED BY <1>1, <1>2, <1>3, <1>6, <2>3, <2>4, <2>5, <2>6, PlacingIs
<1>7. CASE r.kind \in {"sync", "cancel"}
  <2>1. InLoop(r) <=> InLoop(w)
    BY <1>3, <1>7 DEF InLoop, Allowed, Control
  <2>2. Looking(w) => Looking(r)
    BY <1>3, <1>7, <2>1 DEF Looking, Allowed, Control
  <2>3. ListKnows(w)
    BY <1>3, <1>4, <2>2 DEF Knows, ListKnows
  <2>4. InLoop(w) => HeadKnows(w)
    <3> SUFFICES ASSUME InLoop(w) PROVE HeadKnows(w)
      OBVIOUS
    <3>1. PICK e : e = Head(r.todo)
      OBVIOUS
    <3>2. e \in Todo
      <4>1. r.todo \in Seq(Todo) /\ r.todo # <<>>
        BY <2>1 DEF Allowed, Typed, Fits, Fields, Control
      <4> QED BY <3>1, <4>1, InTail
    <3>3. PICK due : due = Notional(e.row.price, r.filled - e.row.filled)
      OBVIOUS
    <3>4. /\ e.id \in fresh /\ e.row.filled <= r.filled
          /\ r.pc = "debit" => r.debit = due /\ r.unlock = due
          /\ r.pc = "debit" \/ Unlocking(r) => e.row.bid
          /\ Unlocking(r) => r.amount <= due
      BY <2>1, <3>1, <3>3 DEF Knows, HeadKnows
    <3>5. due \in Nat
      <4>1. e.row.filled \in Nat /\ e.row.price \in Nat /\ r.filled \in Nat
        BY <3>2 DEF Todo, RowSet, Allowed, Typed, Fits, Fields
      <4>2. r.filled - e.row.filled \in Nat
        BY <3>4, <4>1
      <4> QED BY <3>3, <4>1, <4>2, NotionalNat
    <3>6. Unlocking(w) => w.amount <= due
      <4>1. w.amount \in Nat /\ r.amount \in Nat
        BY <1>2 DEF Allowed, Typed, Fits, Fields
      <4>2. CASE r.pc = "debit"
        BY <1>1, <1>7, <3>4, <4>2
      <4>3. CASE r.pc # "debit"
        <5>1. Unlocking(r)
          BY <4>3 DEF Unlocking
        <5>2. Unlocking(w) => w.amount <= r.amount
          BY <1>1, <1>7, <4>3
        <5> QED BY <3>4, <3>5, <4>1, <5>1, <5>2
      <4> QED BY <4>2, <4>3
    <3>7. w.pc # "debit" /\ (Unlocking(w) => e.row.bid)
      BY <1>3, <1>7, <3>4 DEF Unlocking, Allowed, Control
    <3> QED BY <1>3, <1>4, <3>1, <3>3, <3>4, <3>6, <3>7 DEF HeadKnows
  <2>5. w.kind = "cancel" => CancelKnows(w)
    <3> SUFFICES ASSUME w.kind = "cancel" PROVE CancelKnows(w)
      OBVIOUS
    <3>1. w.pc # "cancel"
      BY <1>3 DEF Allowed, Control
    <3>2. ASSUME Unlocking(w), w.next = "mark"
          PROVE  LET o == orders[w.row]
                 IN  o.bid /\ IsOpen(o) /\ w.amount <= Notional(o.price, Remaining(o))
      <4>1. r.pc # "debit" /\ Unlocking(r) /\ r.next = "mark" /\ r.kind = "cancel"
        BY <1>3, <3>2 DEF Unlocking
      <4>2. PICK o \in RowSet : o = orders[r.row]
        <5>1. r.row \in Rows
          BY <4>1 DEF Allowed, Control
        <5> QED BY <5>1, RowTyped
      <4>3. o.bid /\ IsOpen(o) /\ r.amount <= Notional(o.price, Remaining(o))
        BY <4>1, <4>2 DEF Knows, CancelKnows
      <4>4. w.amount <= r.amount /\ w.amount \in Nat /\ r.amount \in Nat
        BY <1>1, <1>2, <1>7, <3>2, <4>1 DEF Allowed, Typed, Fits, Fields
      <4>5. Notional(o.price, Remaining(o)) \in Int
        BY NotionalInt DEF RowSet, Remaining
      <4> QED BY <1>3, <4>2, <4>3, <4>4, <4>5
    <3> QED BY <3>1, <3>2 DEF CancelKnows
  <2> QED BY <1>1, <1>3, <1>7, <2>3, <2>4, <2>5, SyncIs
<1>8. r.kind \in {"limit", "market", "sync", "cancel"}
  BY DEF Allowed, Control, At
<1> QED BY <1>6, <1>7, <1>8

LEMMA AfterSyncKnows == ASSUME NEW r, Allowed(r) PROVE Knows(AfterSync(r))
<1>1. Allowed(AfterSync(r))
  BY AfterSyncAllowed
<1>2. CASE r.kind = "cancel"
  <2>1. PICK f : f = [kind |-> "cancel", row |-> r.row, pc |-> "get"]
    OBVIOUS
  <2>2. PICK w : w = With(Idle, f)
    OBVIOUS
  <2>3. DOMAIN Idle = Fields /\ Idle.todo = <<>>
    BY IdleTyped DEF Typed, Idle
  <2>4. w.kind = "cancel" /\ w.pc = "get" /\ w.todo = <<>>
    BY <2>1, <2>2, <2>3, WithControl
  <2>5. w = AfterSync(r)
    BY <1>2, <2>1, <2>2 DEF AfterSync
  <2> QED BY <1>1, <2>4, <2>5, PlainKnows
<1>3. CASE r.kind # "cancel"
  BY <1>3, IdleKnows DEF AfterSync
<1> QED BY <1>2, <1>3

LEMMA NextOrderKnows ==
    ASSUME NEW r, Allowed(r), Knows(r), r.todo # <<>>, Looking(r), r.kind \in {"sync", "cancel"}
    PROVE  Knows(NextOrder(r))
<1>1. PICK f : f = [pc |-> "order", todo |-> Tail(r.todo)]
  OBVIOUS
<1>2. PICK w : w = With(r, f)
  OBVIOUS
<1>3. DOMAIN r = Fields /\ r.todo \in Seq(Todo)
  BY DEF Allowed, Typed, Fits, Fields
<1>4. DOMAIN f = {"pc", "todo"} /\ f.pc = "order" /\ f.todo = Tail(r.todo)
  BY <1>1
<1>5. w.pc = "order" /\ w.kind = r.kind /\ w.todo = Tail(r.todo)
  BY <1>2, <1>3, <1>4, WithControl
<1>6. w.seen = r.seen
  BY <1>1, <1>2, <1>3, WithLocals
<1>7. \A k \in DOMAIN w.todo : k \in Int /\ k + 1 \in DOMAIN r.todo /\ w.todo[k] = r.todo[k + 1]
  <2>1. \A k \in DOMAIN w.todo : k + 1 \in DOMAIN r.todo /\ w.todo[k] = r.todo[k + 1]
    BY <1>3, <1>5, InTail
  <2>2. w.todo \in Seq(Todo)
    BY <1>3, <1>5
  <2>3. \A k \in DOMAIN w.todo : k \in Int
    BY <2>2, InToSet
  <2> QED BY <2>1, <2>3
<1>8. \A j, k \in DOMAIN w.todo : w.todo[j].id = w.todo[k].id => j = k
  <2> SUFFICES ASSUME NEW j \in DOMAIN w.todo, NEW k \in DOMAIN w.todo, w.todo[j].id = w.todo[k].id
               PROVE  j = k
    OBVIOUS
  <2>1. j + 1 = k + 1
    BY <1>7 DEF Knows, ListKnows
  <2> QED BY <1>7, <2>1
<1>9. ListKnows(w)
  BY <1>6, <1>7, <1>8 DEF Knows, ListKnows
<1>10. ~ InLoop(w) /\ (w.kind = "cancel" => CancelKnows(w))
  BY <1>5 DEF InLoop, CancelKnows, Unlocking
<1> QED BY <1>1, <1>2, <1>5, <1>9, <1>10, SyncIs DEF NextOrder

\* Whichever statement fails, the handler goes on with what it knows.
LEMMA OnErrorKnows ==
    ASSUME StateOK, NEW r, Allowed(r), RequestReal(r), Knows(r), r.pc \in Statements
    PROVE  Knows(OnError(r))
<1>1. CASE r.pc = "list"
  BY <1>1, AfterSyncKnows DEF OnError, InSync
<1>2. CASE r.pc = "create" /\ r.kind = "limit" /\ r.bid
  <2>1. PICK f : f = [pc |-> "release"]
    OBVIOUS
  <2>2. PICK w : w = OnError(r)
    OBVIOUS
  <2>3. w = With(r, f)
    BY <1>2, <2>1, <2>2 DEF OnError, InSync
  <2>4. DOMAIN r = Fields /\ DOMAIN f = {"pc"} /\ f.pc = "release" /\ Allowed(w)
    BY <2>1, <2>2, OnErrorAllowed DEF Allowed, Typed
  <2>5. /\ w.pc = "release" /\ w.kind = "limit" /\ w.todo = r.todo /\ w.price = r.price
        /\ w.quantity = r.quantity
    BY <1>2, <2>3, <2>4, WithControl
  <2>6. w.bid = r.bid /\ w.lock = r.lock
    BY <2>3, <2>4, WithMoney
  <2>7. r.todo = <<>>
    BY <1>2 DEF RequestReal
  <2>8. w.bid => w.lock = Notional(w.price, w.quantity)
    BY <1>2, <2>5, <2>6 DEF Knows, LimitKnows
  <2> QED BY <2>2, <2>4, <2>5, <2>7, <2>8, PlainKnows
<1>3. CASE r.pc = "debit" /\ r.kind = "limit"
  <2>1. PICK f : f = UnlockUpTo(r.lock, "update")
    OBVIOUS
  <2>2. OnError(r) = With(r, f)
    BY <1>3, <2>1 DEF OnError, InSync
  <2>3. r.lock \in Nat
    BY DEF Allowed, Typed, Fits, Fields
  <2>4. /\ DOMAIN f \subseteq {"pc", "amount", "next"} /\ "pc" \in DOMAIN f
        /\ f.pc \in {"unlockRead", "update"} /\ "next" \in DOMAIN f /\ f.next = "update"
    BY <2>1, <2>3, UnlockUpToIs
  <2>5. Allowed(With(r, f))
    BY <2>2, OnErrorAllowed
  <2>6. Knows(With(r, f))
    BY <1>3, <2>4, <2>5, GoesOnKnows
  <2> QED BY <2>2, <2>6
<1>4. CASE (r.pc = "debit" /\ r.kind = "market")
        \/ (r.pc \in {"unlockRead", "unlockWrite"} /\ r.kind = "limit")
  <2>1. PICK f : f = [pc |-> "update"]
    OBVIOUS
  <2>2. OnError(r) = With(r, f)
    BY <1>4, <2>1 DEF OnError, InSync
  <2>3. DOMAIN f = {"pc"} /\ f.pc = "update"
    BY <2>1
  <2>4. Allowed(With(r, f))
    BY <2>2, OnErrorAllowed
  <2>5. f.pc = IF r.pc = "debit" THEN "update" ELSE r.next
    BY <1>4, <2>3 DEF Allowed, Control
  <2>6. Knows(With(r, f))
    BY <1>4, <2>3, <2>4, <2>5, GoesOnKnows
  <2> QED BY <2>2, <2>6
<1>5. CASE /\ r.kind \in {"sync", "cancel"}
           /\ \/ r.pc = "debit"
              \/ r.pc \in {"unlockRead", "unlockWrite"} /\ r.next = "update"
  <2>1. OnError(r) = NextOrder(r) /\ InLoop(r)
    BY <1>5 DEF OnError, InSync, InLoop
  <2>2. Looking(r) /\ r.todo # <<>>
    BY <2>1 DEF Looking, Allowed, Control
  <2> QED BY <1>5, <2>1, <2>2, NextOrderKnows
<1>6. CASE r.pc = "update" /\ InSync(r)
  BY <1>6, AfterSyncKnows DEF OnError
<1>7. CASE /\ r.pc # "list" /\ ~ (r.pc = "create" /\ r.kind = "limit" /\ r.bid)
           /\ ~ (r.pc = "debit" /\ r.kind \in {"limit", "market", "sync", "cancel"})
           /\ ~ (r.pc \in {"unlockRead", "unlockWrite"} /\ r.kind = "limit")
           /\ ~ (r.pc \in {"unlockRead", "unlockWrite"} /\ r.next = "update"
                 /\ r.kind \in {"sync", "cancel"})
           /\ ~ (r.pc = "update" /\ InSync(r))
  <2>1. OnError(r) = Idle
    BY <1>7 DEF OnError, InSync
  <2> QED BY <2>1, IdleKnows
<1> QED BY <1>1, <1>2, <1>3, <1>4, <1>5, <1>6, <1>7

LEMMA EngineKept == ASSUME UNCHANGED engine PROVE OnBook' = OnBook /\ price' = price /\ size' = size /\ received' = received
  BY DEF OnBook, engine, ToSet

LEMMA StatementFailsKnown ==
    ASSUME StateOK, StateOK', OneAtATime, Real, Known, NEW t \in Threads, StatementFails(t) PROVE Known'
<1>1. PICK r : r = req[t]
  OBVIOUS
<1>2. PICK w : w = OnError(r)
  OBVIOUS
<1>3. Allowed(r) /\ RequestReal(r) /\ Knows(r) /\ r.pc \in Statements /\ Become(t, w)
  BY <1>1, <1>2 DEF StateOK, ReqOK, Real, Known, StatementFails
<1>4. req'[t] = w
  BY <1>3, Moved
<1>5. Knows(w)
  BY <1>2, <1>3, OnErrorKnows
<1>6. UNCHANGED engine /\ UNCHANGED <<orders, fresh, crashes>>
  BY DEF StatementFails, db, market
<1> QED BY <1>4, <1>5, <1>6, EngineKept, KnownMoves

LEMMA DebitKnown ==
    ASSUME StateOK, StateOK', OneAtATime, Real, Known, NEW t \in Threads, DebitWallet(t) PROVE Known'
<1>1. PICK r : r = req[t]
  OBVIOUS
<1>2. Allowed(r) /\ RequestReal(r) /\ Knows(r) /\ r.pc = "debit"
  BY <1>1 DEF StateOK, ReqOK, Real, Known, DebitWallet
<1>3. UNCHANGED engine /\ UNCHANGED <<orders, fresh, crashes>>
  BY DEF DebitWallet, faults, market
<1>4. ASSUME NEW w, Become(t, w), Knows(w) PROVE Known'
  <2>1. req'[t] = w
    BY <1>4, Moved
  <2> QED BY <1>3, <1>4, <2>1, EngineKept, KnownMoves
<1>5. CASE wallet.balance >= r.debit
  <2>1. PICK f : f = UnlockUpTo(r.unlock, "update")
    OBVIOUS
  <2>2. PICK w : w = With(r, f)
    OBVIOUS
  <2>3. Become(t, w)
    BY <1>1, <1>5, <2>1, <2>2 DEF DebitWallet, Set
  <2>4. Allowed(w)
    BY <2>3, Moved
  <2>5. r.unlock \in Nat
    BY <1>2 DEF Allowed, Typed, Fits, Fields
  <2>6. /\ DOMAIN f \subseteq {"pc", "amount", "next"} /\ "pc" \in DOMAIN f /\ "next" \in DOMAIN f
        /\ f.next = "update" /\ f.pc = (IF r.unlock > 0 THEN "unlockRead" ELSE "update")
        /\ "amount" \in DOMAIN f => f.amount = r.unlock
    BY <2>1, <2>5, UnlockUpToIs
  <2>7. Unlocking(w) => w.amount <= r.unlock
    <3>1. "amount" \in DOMAIN f \/ f.pc = "update"
      BY <2>1 DEF UnlockUpTo
    <3>2. w.amount = (IF "amount" \in DOMAIN f THEN f.amount ELSE r.amount) /\ w.pc = f.pc
      BY <1>2, <2>2, <2>6, WithLocals, WithControl DEF Allowed, Typed
    <3> QED BY <2>5, <2>6, <3>1, <3>2 DEF Unlocking
  <2>8. r.kind = "market" => f.pc = "update"
    BY <1>2, <2>6 DEF Allowed, Control
  <2>9. Knows(With(r, f))
    BY <1>2, <2>2, <2>4, <2>6, <2>7, <2>8, GoesOnKnows
  <2> QED BY <1>4, <2>2, <2>3, <2>9
<1>6. CASE ~ (wallet.balance >= r.debit)
  <2>1. PICK w : w = OnError(r)
    OBVIOUS
  <2>2. Become(t, w)
    BY <1>1, <1>6, <2>1 DEF DebitWallet
  <2>3. Knows(w)
    BY <1>2, <2>1, OnErrorKnows DEF Statements
  <2> QED BY <1>4, <2>2, <2>3
<1> QED BY <1>5, <1>6

LEMMA UnlockReadKnown ==
    ASSUME StateOK, StateOK', OneAtATime, Real, Known, NEW t \in Threads, UnlockRead(t) PROVE Known'
<1>1. PICK r : r = req[t]
  OBVIOUS
<1>2. Allowed(r) /\ RequestReal(r) /\ Knows(r) /\ r.pc = "unlockRead"
  BY <1>1 DEF StateOK, ReqOK, Real, Known, UnlockRead
<1>3. PICK a : a = Min({r.amount, wallet.locked})
  OBVIOUS
<1>4. a <= r.amount
  <2>1. r.amount \in Nat /\ wallet.locked \in Nat
    BY <1>2 DEF Allowed, Typed, Fits, Fields, StateOK, WalletOK
  <2>2. PICK x \in Int, y \in Int : x = r.amount /\ y = wallet.locked
    BY <2>1
  <2>3. Min({x, y}) <= x
    BY MinOfTwo, Zenon
  <2> QED BY <1>3, <2>2, <2>3
<1>5. PICK f : f = [pc |-> IF a > 0 THEN "unlockWrite" ELSE r.next, amount |-> a]
  OBVIOUS
<1>6. PICK w : w = With(r, f)
  OBVIOUS
<1>7. Become(t, w)
  BY <1>1, <1>3, <1>5, <1>6 DEF UnlockRead, Set
<1>8. Allowed(w) /\ req'[t] = w
  BY <1>7, Moved
<1>9. DOMAIN f = {"pc", "amount"} /\ f.pc \in {"unlockWrite", r.next} /\ f.amount = a
  BY <1>5
<1>10. w.amount = a
  BY <1>2, <1>6, <1>9, WithLocals DEF Allowed, Typed
<1>11. r.kind # "market"
  BY <1>2 DEF Allowed, Control, At
<1>12. Knows(w)
  BY <1>2, <1>4, <1>6, <1>8, <1>9, <1>10, <1>11, GoesOnKnows
<1>13. UNCHANGED engine /\ UNCHANGED <<orders, fresh, crashes>>
  BY DEF UnlockRead, db, faults, market
<1> QED BY <1>8, <1>12, <1>13, EngineKept, KnownMoves

LEMMA UnlockWriteKnown ==
    ASSUME StateOK, StateOK', OneAtATime, Real, Known, NEW t \in Threads, UnlockWrite(t) PROVE Known'
<1>1. PICK r : r = req[t]
  OBVIOUS
<1>2. Allowed(r) /\ RequestReal(r) /\ Knows(r) /\ r.pc = "unlockWrite"
  BY <1>1 DEF StateOK, ReqOK, Real, Known, UnlockWrite
<1>3. CanUnlock(r.amount)
  <2>1. r.amount \in Nat /\ wallet.locked \in Nat
    BY <1>2 DEF Allowed, Typed, Fits, Fields, StateOK, WalletOK
  <2> QED BY <1>2, <2>1 DEF RequestReal, CanUnlock
<1>4. PICK f : f = [pc |-> r.next]
  OBVIOUS
<1>5. PICK w : w = With(r, f)
  OBVIOUS
<1>6. Become(t, w)
  BY <1>1, <1>3, <1>4, <1>5 DEF UnlockWrite, Set
<1>7. Allowed(w) /\ req'[t] = w
  BY <1>6, Moved
<1>8. DOMAIN f = {"pc"} /\ f.pc = r.next /\ r.next \in {"update", "mark"}
  BY <1>2, <1>4 DEF Allowed, Control
<1>9. w.pc = r.next /\ ~ Unlocking(w)
  BY <1>2, <1>5, <1>8, WithControl DEF Allowed, Typed, Unlocking
<1>10. r.kind # "market"
  BY <1>2 DEF Allowed, Control, At
<1>11. Knows(w)
  BY <1>2, <1>5, <1>7, <1>8, <1>9, <1>10, GoesOnKnows
<1>12. UNCHANGED engine /\ UNCHANGED <<orders, fresh, crashes>>
  BY DEF UnlockWrite, faults, market
<1> QED BY <1>7, <1>11, <1>12, EngineKept, KnownMoves

\* A notional grows with the price and the size.
LEMMA NotionalGrows ==
    ASSUME NEW p \in Nat, NEW u \in Nat, p <= u, NEW q \in Nat, NEW v \in Nat, q <= v
    PROVE  Notional(p, q) <= Notional(u, v)
<1>1. PICK a \in Nat, b \in Nat : a = p * q /\ b = u * v
  OBVIOUS
<1>2. a <= b
  <2>1. PICK c \in Nat : c = u * q
    OBVIOUS
  <2>2. a <= c
    <3>1. PICK d \in Nat : u = p + d
      <4>1. u - p \in Nat /\ u = p + (u - p)
        OBVIOUS
      <4> QED BY <4>1
    <3>2. c = a + d * q /\ d * q \in Nat
      BY <1>1, <2>1, <3>1
    <3> QED BY <3>2
  <2>3. c <= b
    <3>1. PICK d \in Nat : v = q + d
      <4>1. v - q \in Nat /\ v = q + (v - q)
        OBVIOUS
      <4> QED BY <4>1
    <3>2. b = c + u * d /\ u * d \in Nat
      BY <1>1, <2>1, <3>1
    <3> QED BY <3>2
  <2> QED BY <2>2, <2>3
<1>3. a \div Scale <= b \div Scale
  BY <1>2
<1> QED BY <1>1, <1>3 DEF Notional

\* Paying in parts costs no more than paying at once.
LEMMA NotionalAdds ==
    ASSUME NEW p \in Nat, NEW q \in Nat, NEW v \in Nat
    PROVE  Notional(p, q) + Notional(p, v) <= Notional(p, q + v)
<1>1. PICK a \in Nat, b \in Nat : a = p * q /\ b = p * v
  OBVIOUS
<1>2. p * (q + v) = a + b
  BY <1>1
<1>3. a \div Scale + b \div Scale <= (a + b) \div Scale
  OBVIOUS
<1> QED BY <1>1, <1>2, <1>3 DEF Notional

LEMMA NotionalScale ==
    ASSUME NEW p \in Nat, NEW q \in Nat
    PROVE  Scale * Notional(p, q) <= p * q /\ Notional(p, 0) = 0
<1>1. PICK a \in Nat : a = p * q
  OBVIOUS
<1>2. Scale * (a \div Scale) <= a
  OBVIOUS
<1>3. p * 0 = 0 /\ 0 \div Scale = 0
  OBVIOUS
<1> QED BY <1>1, <1>2, <1>3 DEF Notional

\* The average price of trades is between the lowest and the highest, and off by no
\* more than half a unit.
LEMMA VWAPBounds ==
    ASSUME NEW ms, IsFiniteSet(DOMAIN ms),
           \A k \in DOMAIN ms : ms[k].size \in Nat /\ ms[k].price \in Nat,
           SizeFilled(ms) > 0
    PROVE  /\ VWAP(ms) * (2 * SizeFilled(ms)) <= 2 * Value(ms, DOMAIN ms) + SizeFilled(ms)
           /\ \A p \in Nat : (\A k \in DOMAIN ms : ms[k].price <= p) => VWAP(ms) <= p
           /\ \A p \in Nat : (\A k \in DOMAIN ms : ms[k].price >= p) => VWAP(ms) >= p
<1>1. PICK f : f = [k \in DOMAIN ms |-> ms[k].size]
  OBVIOUS
<1>2. PICK g : g = [k \in DOMAIN ms |-> ms[k].price * ms[k].size]
  OBVIOUS
<1>3. PICK n \in Nat, v \in Nat, a \in Nat :
         n = SizeFilled(ms) /\ v = Value(ms, DOMAIN ms) /\ a = VWAP(ms) /\ n > 0
  BY TradesTyped
<1>4. n = SumFunctionOnSet(f, DOMAIN ms) /\ v = SumFunctionOnSet(g, DOMAIN ms)
  BY <1>1, <1>2, <1>3 DEF SizeFilled, Value
<1>5. a = (2 * v + n) \div (2 * n)
  BY <1>3 DEF VWAP
<1>6. \A k \in DOMAIN ms : f[k] \in Nat /\ f[k] = ms[k].size
  BY <1>1
<1>7. \A k \in DOMAIN ms : g[k] \in Nat /\ g[k] = ms[k].price * f[k]
  <2> SUFFICES ASSUME NEW k \in DOMAIN ms PROVE g[k] \in Nat /\ g[k] = ms[k].price * f[k]
    OBVIOUS
  <2>1. PICK p \in Nat, m \in Nat : p = ms[k].price /\ m = ms[k].size
    OBVIOUS
  <2>2. p * m \in Nat
    OBVIOUS
  <2> QED BY <1>1, <1>2, <2>1, <2>2
<1>8. ASSUME NEW p \in Nat
      PROVE  /\ (\A k \in DOMAIN ms : ms[k].price <= p) => v <= p * n
             /\ (\A k \in DOMAIN ms : ms[k].price >= p) => v >= p * n
  <2>1. PICK h : h = [k \in DOMAIN ms |-> p * f[k]]
    OBVIOUS
  <2>2. \A k \in DOMAIN ms : f[k] \in Int /\ h[k] = p * f[k] /\ h[k] \in Int
    <3> SUFFICES ASSUME NEW k \in DOMAIN ms PROVE f[k] \in Int /\ h[k] = p * f[k] /\ h[k] \in Int
      OBVIOUS
    <3>1. PICK m \in Nat : m = f[k]
      BY <1>6
    <3> QED BY <2>1, <3>1
  <2>3. SumFunctionOnSet(h, DOMAIN ms) = p * n
    BY <1>4, <2>2, SumScale
  <2>4. ASSUME \A k \in DOMAIN ms : ms[k].price <= p PROVE v <= p * n
    <3>1. \A k \in DOMAIN ms : g[k] \in Int /\ h[k] \in Int /\ g[k] <= h[k]
      <4> SUFFICES ASSUME NEW k \in DOMAIN ms PROVE g[k] \in Int /\ h[k] \in Int /\ g[k] <= h[k]
        OBVIOUS
      <4>1. PICK q \in Nat, m \in Nat : q = ms[k].price /\ m = f[k] /\ q <= p
        BY <1>6, <2>4
      <4>2. q * m <= p * m
        BY <4>1
      <4> QED BY <1>7, <2>2, <4>1, <4>2
    <3>2. SumFunctionOnSet(g, DOMAIN ms) <= SumFunctionOnSet(h, DOMAIN ms)
      BY <3>1, SumMonotone
    <3> QED BY <1>4, <2>3, <3>2
  <2>5. ASSUME \A k \in DOMAIN ms : ms[k].price >= p PROVE v >= p * n
    <3>1. \A k \in DOMAIN ms : h[k] \in Int /\ g[k] \in Int /\ h[k] <= g[k]
      <4> SUFFICES ASSUME NEW k \in DOMAIN ms PROVE h[k] \in Int /\ g[k] \in Int /\ h[k] <= g[k]
        OBVIOUS
      <4>1. PICK q \in Nat, m \in Nat : q = ms[k].price /\ m = f[k] /\ q >= p
        BY <1>6, <2>5
      <4>2. p * m <= q * m
        BY <4>1
      <4> QED BY <1>7, <2>2, <4>1, <4>2
    <3>2. SumFunctionOnSet(h, DOMAIN ms) <= SumFunctionOnSet(g, DOMAIN ms)
      BY <3>1, SumMonotone
    <3>3. p * n \in Int
      OBVIOUS
    <3> QED BY <1>4, <2>3, <3>2, <3>3
  <2> QED BY <2>4, <2>5
<1>9. PICK y \in Nat, x \in Nat : y = 2 * n /\ x = 2 * v + n /\ y > 0
  BY <1>3
<1>10. a = x \div y
  BY <1>5, <1>9
<1>11. a * y <= x /\ x < a * y + y
  <2>1. y * (x \div y) <= x /\ x < y * (x \div y) + y
    BY <1>9
  <2>2. y * a = a * y
    OBVIOUS
  <2> QED BY <1>10, <2>1, <2>2
<1>12. ASSUME NEW p \in Nat, v <= p * n PROVE a <= p
  <2> SUFFICES ASSUME a >= p + 1 PROVE FALSE
    OBVIOUS
  <2>1. a * y >= (p + 1) * y
    <3>1. PICK d \in Nat : a = (p + 1) + d
      <4>1. a - (p + 1) \in Nat /\ a = (p + 1) + (a - (p + 1))
        OBVIOUS
      <4> QED BY <4>1
    <3>2. a * y = (p + 1) * y + d * y /\ d * y \in Nat /\ (p + 1) * y \in Nat
      BY <3>1
    <3> QED BY <3>2
  <2>2. (p + 1) * y = 2 * (p * n) + 2 * n
    BY <1>9
  <2>3. PICK z \in Nat : z = p * n
    OBVIOUS
  <2>4. PICK c \in Nat : c = a * y
    OBVIOUS
  <2> QED BY <1>3, <1>9, <1>11, <1>12, <2>1, <2>2, <2>3, <2>4
<1>13. ASSUME NEW p \in Nat, v >= p * n PROVE a >= p
  <2> SUFFICES ASSUME a + 1 <= p PROVE FALSE
    OBVIOUS
  <2>1. (a + 1) * y <= p * y
    <3>1. PICK d \in Nat : p = (a + 1) + d
      <4>1. p - (a + 1) \in Nat /\ p = (a + 1) + (p - (a + 1))
        OBVIOUS
      <4> QED BY <4>1
    <3>2. p * y = (a + 1) * y + d * y /\ d * y \in Nat /\ (a + 1) * y \in Nat
      BY <3>1
    <3> QED BY <3>2
  <2>2. p * y = 2 * (p * n) /\ (a + 1) * y = a * y + y
    BY <1>9
  <2>3. PICK z \in Nat, c \in Nat : z = p * n /\ c = a * y
    OBVIOUS
  <2> QED BY <1>3, <1>9, <1>11, <1>13, <2>1, <2>2, <2>3
<1>14. a * (2 * n) <= 2 * v + n
  BY <1>9, <1>11
<1> QED BY <1>3, <1>8, <1>12, <1>13, <1>14

\* The rows a SELECT returns are different ones.
LEMMA NewestFirstUnrepeated ==
    ASSUME NEW S \in SUBSET Rows
    PROVE  \A j, k \in DOMAIN NewestFirst(S) : NewestFirst(S)[j].id = NewestFirst(S)[k].id => j = k
<1>1. PICK all : all = [k \in Rows |-> MaxRows + 1 - k]
  OBVIOUS
<1>2. PICK ids : ids = E!Select(all, S)
  OBVIOUS
<1>3. all \in Seq(Rows)
  <2>1. \A k \in Rows : MaxRows + 1 - k \in Rows
    BY DEF Rows
  <2>2. all \in [1..MaxRows -> Rows]
    BY <1>1, <2>1 DEF Rows
  <2> QED BY <2>2
<1>4. Unrepeated(all)
  BY <1>1 DEF Unrepeated, Rows
<1>5. Unrepeated(ids)
  BY <1>2, <1>3, <1>4, SelectUnrepeated
<1>6. NewestFirst(S) = [k \in DOMAIN ids |-> [id |-> ids[k], row |-> orders[ids[k]]]]
  BY <1>1, <1>2 DEF NewestFirst
<1>7. PICK s : s = NewestFirst(S)
  OBVIOUS
<1>8. DOMAIN s = DOMAIN ids /\ \A k \in DOMAIN s : s[k].id = ids[k]
  BY <1>6, <1>7
<1> QED BY <1>5, <1>7, <1>8 DEF Unrepeated

\* Of the only request, whatever the step changes.
LEMMA KnownStep ==
    ASSUME OneAtATime, NEW t \in Threads, NEW w, req'[t] = w, crashes' \in Nat,
           Knows(w)', \A x \in Rows : RowKnown(x)'
    PROVE  Known'
<1>1. \A s \in Threads : s = t /\ req'[s] = w
  BY DEF OneAtATime
<1>2. \A s \in Threads : Knows(req[s])'
  <2> SUFFICES ASSUME NEW s \in Threads PROVE Knows(req[s])'
    OBVIOUS
  <2>1. req'[s] = w
    BY <1>1
  <2> QED BY <2>1 DEF Knows, LimitKnows, MarketKnows, PlacingKnows, ListKnows, HeadKnows, CancelKnows,
     IsOpen, Placing, Looking, InLoop, Unlocking, Remaining, Notional
<1> QED BY <1>2 DEF Known, Rows

\* The steps that change nothing but the request and perhaps the wallet.
LEMMA KnownBecomes ==
    ASSUME StateOK, StateOK', OneAtATime, Known, NEW t \in Threads, NEW w, Become(t, w), Knows(w),
           UNCHANGED <<orders, fresh, crashes>>, UNCHANGED engine
    PROVE  Known'
<1>1. req'[t] = w
  BY Moved
<1> QED BY <1>1, EngineKept, KnownMoves

LEMMA WalletStepsKnown ==
    ASSUME StateOK, StateOK', OneAtATime, Known, NEW t \in Threads,
           Deposit(t) \/ Withdraw(t) \/ Release(t)
    PROVE  Known'
<1>1. CASE Deposit(t)
  <2>1. PICK w : w = req[t]
    OBVIOUS
  <2>2. req'[t] = w /\ Knows(w)
    BY <1>1, <2>1 DEF Deposit, Known
  <2>3. UNCHANGED <<orders, fresh, crashes>> /\ UNCHANGED engine
    BY <1>1 DEF Deposit, faults, market
  <2> QED BY <2>2, <2>3, EngineKept, KnownMoves
<1>2. CASE Withdraw(t) \/ Release(t)
  <2>1. Become(t, Idle) /\ UNCHANGED <<orders, fresh, crashes>> /\ UNCHANGED engine
    BY <1>2 DEF Withdraw, Release, faults, market
  <2> QED BY <2>1, KnownEnds
<1> QED BY <1>1, <1>2

LEMMA CreateKnown ==
    ASSUME StateOK, StateOK', OneAtATime, Real, Known, NEW t \in Threads, Create(t) PROVE Known'
<1>1. PICK r : r = req[t]
  OBVIOUS
<1>2. Allowed(r) /\ RequestReal(r) /\ Knows(r) /\ r.pc = "create"
  BY <1>1 DEF StateOK, ReqOK, Real, Known, Create
<1>3. PICK n : n = lastRow + 1
  OBVIOUS
<1>4. /\ lastRow' = n /\ n \in Rows /\ lastRow \in Nat /\ lastRow < n /\ n \in Nat
  BY <1>2, <1>3 DEF Create, RequestReal, StateOK, Rows
<1>5. PICK f : f = [pc |-> "place", row |-> n]
  OBVIOUS
<1>6. PICK w : w = With(r, f)
  OBVIOUS
<1>7. Become(t, w)
  BY <1>1, <1>4, <1>5, <1>6 DEF Create, Set
<1>8. Allowed(w) /\ req'[t] = w
  BY <1>7, Moved
<1>9. DOMAIN f = {"pc", "row"} /\ f.pc = "place" /\ f.row = n
  BY <1>5
<1>10. /\ w.pc = "place" /\ w.kind = r.kind /\ w.row = n /\ w.quantity = r.quantity
       /\ w.todo = r.todo /\ w.price = r.price
  BY <1>2, <1>6, <1>9, WithControl DEF Allowed, Typed
<1>11. w.bid = r.bid /\ w.lock = r.lock
  BY <1>2, <1>6, <1>9, WithMoney DEF Allowed, Typed
<1>12. r.kind \in {"limit", "market"} /\ r.todo = <<>>
  BY <1>2 DEF Allowed, Control, At, RequestReal
<1>13. n \notin OnBook
  <2>1. n \notin received
    <3>1. RowReal(n)
      BY <1>4 DEF Real
    <3>2. ~ (n <= lastRow)
      BY <1>4
    <3> QED BY <3>1, <3>2 DEF RowReal
  <2> QED BY <2>1, OnBookSides DEF StateOK, EngineOK, Rests
<1>14. /\ UNCHANGED engine /\ crashes' = crashes
       /\ fresh' = fresh \cup {n} /\ \A x \in Rows \ {n} : orders'[x] = orders[x]
  BY <1>4 DEF Create, market, StateOK, faults
<1>15. /\ orders'[n].price = r.price /\ orders'[n].kind = (IF r.kind = "limit" THEN "LIMIT" ELSE "MARKET")
  BY <1>1, <1>4 DEF Create, StateOK
<1>16. orders'[n].bid = r.bid
  BY <1>1, <1>4 DEF Create, StateOK
<1>17. PlacingKnows(w)'
  <2>1. r.kind = "limit" \/ r.kind = "market"
    BY <1>12
  <2> QED BY <1>10, <1>11, <1>14, <1>15, <1>16, <2>1 DEF PlacingKnows
<1>18. w.kind = "limit" => LimitKnows(w)'
  BY <1>2, <1>10, <1>11 DEF Knows, LimitKnows, Unlocking, Notional
<1>19. Knows(w)'
  <2>1. DOMAIN w.todo = {}
    BY <1>10, <1>12, EmptySequence
  <2>2. ~ Looking(w) /\ ~ InLoop(w)
    BY <1>10 DEF Looking, InLoop
  <2> QED BY <1>10, <1>12, <1>17, <1>18, <2>1, <2>2
          DEF Knows, ListKnows, MarketKnows, Looking, InLoop, Placing
<1>20. \A x \in Rows : RowKnown(x)'
  BY <1>13, <1>14, EngineKept DEF Known, RowKnown
<1> QED BY <1>8, <1>14, <1>19, <1>20, KnownStep DEF Known

\* A limit order that has been placed reads its size: it pays no more than its price.
LEMMA ReadSizeKnown ==
    ASSUME StateOK, StateOK', OneAtATime, Real, Known, NEW t \in Threads, ReadSize(t) PROVE Known'
<1>1. PICK r : r = req[t]
  OBVIOUS
<1>2. PICK c : c = FilledSoFar(r)
  OBVIOUS
<1>3. PICK f : f = [pc |-> "readStatus", filled |-> c, notional |-> Notional(r.paidPrice, c)]
  OBVIOUS
<1>4. PICK w : w = With(r, f)
  OBVIOUS
<1>5. Become(t, w) /\ r.pc = "readSize"
  BY <1>1, <1>2, <1>3, <1>4 DEF ReadSize, Set
<1>6. Allowed(w) /\ Allowed(r) /\ RequestReal(r) /\ Knows(r)
  BY <1>1, <1>5, Moved DEF Real, Known
<1>7. r.kind = "limit" /\ DOMAIN r = Fields
  BY <1>5, <1>6 DEF Allowed, Typed, Control, At
<1>8. DOMAIN f = {"pc", "filled", "notional"} /\ f.pc = "readStatus" /\ f.filled = c
      /\ f.notional = Notional(r.paidPrice, c)
  BY <1>3
<1>9. /\ w.pc = "readStatus" /\ w.kind = "limit" /\ w.row = r.row /\ w.quantity = r.quantity
      /\ w.todo = r.todo /\ w.price = r.price
  BY <1>4, <1>7, <1>8, WithControl
<1>10. w.filled = c
  BY <1>4, <1>7, <1>8, WithLocals
<1>11. w.bid = r.bid /\ w.lock = r.lock /\ w.notional = Notional(r.paidPrice, c)
  BY <1>4, <1>7, <1>8, WithMoney
<1>12. r.todo = <<>> /\ PlacingKnows(r) /\ LimitKnows(r)
  BY <1>5, <1>6, <1>7 DEF RequestReal, Knows, Placing
<1>13. PlacingKnows(w)
  BY <1>7, <1>9, <1>11, <1>12 DEF PlacingKnows
<1>14. LimitKnows(w)
  <2>1. w.bid => w.notional <= Notional(w.price, w.filled)
    <3>1. c \in Nat /\ r.paidPrice \in Nat /\ r.price \in Nat
      BY <1>6, <1>10 DEF Allowed, Typed, Fits, Fields
    <3>2. w.bid => r.paidPrice <= r.price
      BY <1>5, <1>11, <1>12 DEF LimitKnows
    <3> QED BY <1>9, <1>10, <1>11, <3>1, <3>2, NotionalGrows
  <2> QED BY <1>9, <1>11, <1>12, <2>1 DEF LimitKnows, Unlocking
<1>15. Knows(w)
  BY <1>6, <1>9, <1>12, <1>13, <1>14, PlacingIs
<1> QED BY <1>5, <1>15, KnownBecomes DEF ReadSize, db, faults, market

LEMMA ReadStatusKnown ==
    ASSUME StateOK, StateOK', OneAtATime, Real, Known, NEW t \in Threads, ReadStatus(t) PROVE Known'
<1>1. PICK r : r = req[t]
  OBVIOUS
<1>2. PICK s : s = IF size[r.row] = 0 THEN "FILLED"
                   ELSE IF r.filled > 0 THEN "PARTIALLY_FILLED" ELSE "OPEN"
  OBVIOUS
<1>3. PICK f : f = [pc |-> IF r.bid /\ r.filled > 0 THEN "debit" ELSE "update",
                    debit |-> r.notional, unlock |-> FilledLock(r), status |-> s]
  OBVIOUS
<1>4. PICK w : w = With(r, f)
  OBVIOUS
<1>5. Become(t, w) /\ r.pc = "readStatus"
  BY <1>1, <1>2, <1>3, <1>4 DEF ReadStatus, Set
<1>6. Allowed(w) /\ Allowed(r) /\ RequestReal(r) /\ Knows(r)
  BY <1>1, <1>5, Moved DEF Real, Known
<1>7. r.kind = "limit" /\ DOMAIN r = Fields
  BY <1>5, <1>6 DEF Allowed, Typed, Control, At
<1>8. /\ DOMAIN f = {"pc", "debit", "unlock", "status"} /\ f.unlock = Notional(r.price, r.filled)
      /\ f.debit = r.notional /\ f.pc \in {"debit", "update"}
  BY <1>3 DEF FilledLock
<1>9. f.pc = "debit" => r.bid
  BY <1>3
<1>10. /\ w.pc = f.pc /\ w.kind = "limit" /\ w.row = r.row
       /\ w.quantity = r.quantity /\ w.todo = r.todo /\ w.price = r.price /\ w.unlock = f.unlock
  BY <1>4, <1>7, <1>8, WithControl
<1>11. w.filled = r.filled
  BY <1>4, <1>7, <1>8, WithLocals
<1>12. w.bid = r.bid /\ w.lock = r.lock /\ w.debit = r.notional
  BY <1>4, <1>7, <1>8, WithMoney
<1>13. r.todo = <<>> /\ PlacingKnows(r) /\ LimitKnows(r)
  BY <1>5, <1>6, <1>7 DEF RequestReal, Knows, Placing
<1>14. PlacingKnows(w)
  BY <1>7, <1>10, <1>12, <1>13 DEF PlacingKnows
<1>15. LimitKnows(w)
  BY <1>5, <1>8, <1>9, <1>10, <1>11, <1>12, <1>13 DEF LimitKnows, Unlocking
<1>16. Knows(w)
  BY <1>6, <1>10, <1>13, <1>14, <1>15, PlacingIs
<1> QED BY <1>5, <1>16, KnownBecomes DEF ReadStatus, db, faults, market

LEMMA ListOpenKnown ==
    ASSUME StateOK, StateOK', OneAtATime, Real, Known, NEW t \in Threads, ListOpenByUser(t) PROVE Known'
<1>1. PICK r : r = req[t]
  OBVIOUS
<1>2. Allowed(r) /\ Knows(r) /\ r.pc = "list"
  BY <1>1 DEF StateOK, ReqOK, Known, ListOpenByUser
<1>3. UNCHANGED <<orders, fresh, crashes>> /\ UNCHANGED engine
  BY DEF ListOpenByUser, db, faults, market
<1>4. PICK s : s = OpenRows
  OBVIOUS
<1>5. CASE s = <<>>
  <2>1. Become(t, AfterSync(r))
    BY <1>1, <1>4, <1>5 DEF ListOpenByUser
  <2>2. PICK w : w = AfterSync(r)
    OBVIOUS
  <2> QED BY <1>2, <1>3, <2>1, <2>2, AfterSyncKnows, KnownBecomes
<1>6. CASE s # <<>>
  <2>1. PICK f : f = [pc |-> "snapshot", todo |-> s]
    OBVIOUS
  <2>2. PICK w : w = With(r, f)
    OBVIOUS
  <2>3. Become(t, w)
    BY <1>1, <1>4, <1>6, <2>1, <2>2 DEF ListOpenByUser
  <2>4. DOMAIN f = {"pc", "todo"} /\ f.pc = "snapshot" /\ f.todo = s
    BY <2>1
  <2>5. w.pc = "snapshot" /\ w.kind = r.kind /\ w.todo = s
    BY <1>2, <2>2, <2>4, WithControl DEF Allowed, Typed
  <2>6. r.kind \in {"sync", "cancel"}
    BY <1>2 DEF Allowed, Control, At
  <2>7. /\ \A k \in DOMAIN s : s[k].row = orders[s[k].id] /\ IsOpen(s[k].row)
        /\ \A j, k \in DOMAIN s : s[j].id = s[k].id => j = k
    <3> DEFINE S == Newest({x \in Rows : IsOpen(orders[x])})
    <3>1. S \in SUBSET Rows /\ s = NewestFirst(S)
      BY <1>4 DEF OpenRows, Newest
    <3>2. \A x \in S : IsOpen(orders[x])
      BY DEF Newest
    <3> HIDE DEF S
    <3>3. \A k \in DOMAIN s : s[k].id \in S /\ s[k].row = orders[s[k].id]
      BY <3>1, NewestFirstFacts DEF StateOK
    <3> QED BY <3>1, <3>2, <3>3, NewestFirstUnrepeated
  <2>8. ~ Looking(w) /\ ~ InLoop(w)
    BY <2>5 DEF Looking, InLoop
  <2>9. ListKnows(w)
    BY <2>5, <2>7, <2>8 DEF ListKnows
  <2>10. w.kind = "cancel" => CancelKnows(w)
    BY <2>5 DEF CancelKnows, Unlocking
  <2>11. Knows(w)
    BY <2>5, <2>6, <2>8, <2>9, <2>10, SyncIs
  <2> QED BY <1>3, <2>3, <2>11, KnownBecomes
<1> QED BY <1>5, <1>6

LEMMA StreamKnown ==
    ASSUME StateOK, StateOK', OneAtATime, Real, Known, NEW t \in Threads, StreamOrderBook(t) PROVE Known'
<1>1. PICK r : r = req[t]
  OBVIOUS
<1>2. Allowed(r) /\ Knows(r) /\ r.pc = "snapshot"
  BY <1>1 DEF StateOK, ReqOK, Known, StreamOrderBook
<1>3. PICK s : s = RemainingByID
  OBVIOUS
<1>4. PICK f : f = [pc |-> "order", seen |-> s]
  OBVIOUS
<1>5. PICK w : w = With(r, f)
  OBVIOUS
<1>6. Become(t, w)
  BY <1>1, <1>3, <1>4, <1>5 DEF StreamOrderBook, Set
<1>7. DOMAIN f = {"pc", "seen"} /\ f.pc = "order" /\ f.seen = s
  BY <1>4
<1>8. w.pc = "order" /\ w.kind = r.kind /\ w.todo = r.todo
  BY <1>2, <1>5, <1>7, WithControl DEF Allowed, Typed
<1>9. w.seen = s
  BY <1>2, <1>5, <1>7, WithLocals DEF Allowed, Typed
<1>10. r.kind \in {"sync", "cancel"}
  BY <1>2 DEF Allowed, Control, At
<1>11. DOMAIN s \subseteq fresh
  <2>1. DOMAIN s = OnBook \cap Rows
    BY <1>3, SeenTyped DEF StateOK
  <2> QED BY <2>1 DEF Known, RowKnown
<1>12. ListKnows(w)
  BY <1>2, <1>8, <1>9, <1>11 DEF Knows, ListKnows
<1>13. ~ InLoop(w) /\ (w.kind = "cancel" => CancelKnows(w))
  BY <1>8 DEF InLoop, CancelKnows, Unlocking
<1>14. Knows(w)
  BY <1>8, <1>10, <1>12, <1>13, SyncIs
<1> QED BY <1>6, <1>14, KnownBecomes DEF StreamOrderBook, db, faults, market

LEMMA SyncOrderKnown ==
    ASSUME StateOK, StateOK', OneAtATime, Real, Known, NEW t \in Threads, SyncOrder(t) PROVE Known'
<1>1. PICK r : r = req[t]
  OBVIOUS
<1>2. Allowed(r) /\ RequestReal(r) /\ Knows(r) /\ r.pc = "order"
  BY <1>1 DEF StateOK, ReqOK, Real, Known, SyncOrder
<1>3. r.kind \in {"sync", "cancel"} /\ Looking(r)
  BY <1>2 DEF Allowed, Control, At, Looking
<1>4. ASSUME NEW w, Become(t, w), Knows(w) PROVE Known'
  BY <1>4, KnownBecomes DEF SyncOrder, db, faults, market
<1>5. CASE r.todo = <<>>
  <2>1. PICK w : w = AfterSync(r)
    OBVIOUS
  <2>2. Knows(w)
    BY <1>2, <2>1, AfterSyncKnows
  <2>3. Become(t, w)
    BY <1>1, <1>5, <2>1 DEF SyncOrder
  <2> QED BY <1>4, <2>2, <2>3
<1>6. CASE r.todo # <<>> /\ Become(t, NextOrder(r))
  <2>1. PICK w : w = NextOrder(r)
    OBVIOUS
  <2>2. Knows(w)
    BY <1>2, <1>3, <1>6, <2>1, NextOrderKnows
  <2>3. Become(t, w)
    BY <1>6, <2>1
  <2> QED BY <1>4, <2>2, <2>3
<1>7. CASE r.todo # <<>> /\ ~ Become(t, NextOrder(r))
  <2>1. PICK e : e = Head(r.todo)
    OBVIOUS
  <2>2. PICK left : left = IF e.id \in DOMAIN r.seen THEN r.seen[e.id] ELSE 0
    OBVIOUS
  <2>3. PICK c : c = Max({e.row.filled, e.row.quantity - left})
    OBVIOUS
  <2>4. PICK delta : delta = Notional(e.row.price, FillDelta(e.row, c))
    OBVIOUS
  <2>5. PICK status : status = statusFromProgress(e.row.quantity, c)
    OBVIOUS
  <2>6. PICK f : f = [pc |-> IF e.row.bid /\ delta > 0 THEN "debit" ELSE "update",
                      filled |-> c, notional |-> e.row.notional + delta, status |-> status,
                      debit |-> delta, unlock |-> delta]
    OBVIOUS
  <2>7. Set(t, f) /\ (e.id \in DOMAIN r.seen \/ ShouldInferMissingProgress(e.id))
    BY <1>1, <1>7, <2>1, <2>2, <2>3, <2>4, <2>5, <2>6 DEF SyncOrder
  <2>8. e.id \in fresh
    BY <1>2, <1>3, <2>7 DEF Knows, ListKnows, ShouldInferMissingProgress
  <2>9. PICK w : w = With(r, f)
    OBVIOUS
  <2>10. Become(t, w)
    BY <1>1, <2>7, <2>9 DEF Set
  <2>11. Allowed(w)
    BY <2>10, Moved
  <2>12. /\ DOMAIN f = {"pc", "filled", "notional", "status", "debit", "unlock"}
         /\ f.filled = c /\ f.unlock = delta /\ f.debit = delta /\ f.pc \in {"debit", "update"}
    BY <2>6
  <2>13. f.pc = "debit" => e.row.bid
    BY <2>6
  <2>14. w.pc = f.pc /\ w.kind = r.kind /\ w.todo = r.todo /\ w.unlock = delta
    BY <1>2, <2>9, <2>12, WithControl DEF Allowed, Typed
  <2>15. w.seen = r.seen /\ w.filled = c
    BY <1>2, <2>9, <2>12, WithLocals DEF Allowed, Typed
  <2>16. w.debit = delta
    BY <1>2, <2>9, <2>12, WithMoney DEF Allowed, Typed
  <2>17. e.row.filled <= c
    <3>1. r.todo \in Seq(Todo) /\ \A x \in DOMAIN r.seen : r.seen[x] \in Nat
      BY <1>2 DEF Allowed, Typed, Fits, Fields
    <3>2. e \in Todo
      BY <1>7, <2>1, <3>1, InTail
    <3>3. PICK y \in Int, z \in Int : y = e.row.filled /\ z = e.row.quantity - left
      BY <2>2, <3>1, <3>2 DEF Todo, RowSet
    <3>4. y <= Max({y, z})
      BY MaxOfTwo, Zenon
    <3> QED BY <2>3, <3>3, <3>4
  <2>18. HeadKnows(w)
    BY <2>1, <2>4, <2>8, <2>12, <2>13, <2>14, <2>15, <2>16, <2>17 DEF HeadKnows, FillDelta, Unlocking
  <2>19. ListKnows(w)
    BY <1>2, <1>3, <2>14, <2>15 DEF Knows, ListKnows
  <2>20. w.kind = "cancel" => CancelKnows(w)
    BY <2>12, <2>14 DEF CancelKnows, Unlocking
  <2>21. Knows(w)
    BY <1>3, <2>14, <2>18, <2>19, <2>20, SyncIs
  <2> QED BY <1>4, <2>10, <2>21
<1> QED BY <1>5, <1>6, <1>7

LEMMA GetKnown ==
    ASSUME StateOK, StateOK', OneAtATime, Real, Known, NEW t \in Threads, GetByIDForUser(t) PROVE Known'
<1>1. PICK r : r = req[t]
  OBVIOUS
<1>2. Allowed(r) /\ Knows(r) /\ r.pc = "get"
  BY <1>1 DEF StateOK, ReqOK, Known, GetByIDForUser
<1>3. UNCHANGED <<orders, fresh, crashes>> /\ UNCHANGED engine
  BY DEF GetByIDForUser, db, faults, market
<1>4. PICK o : o = orders[r.row]
  OBVIOUS
<1>5. CASE CanCancelOrder(o)
  <2>1. PICK f : f = [pc |-> "cancel", order |-> o]
    OBVIOUS
  <2>2. PICK w : w = With(r, f)
    OBVIOUS
  <2>3. Become(t, w)
    BY <1>1, <1>4, <1>5, <2>1, <2>2 DEF GetByIDForUser
  <2>4. DOMAIN f = {"pc", "order"} /\ f.pc = "cancel" /\ f.order = o
    BY <2>1
  <2>5. w.pc = "cancel" /\ w.kind = r.kind /\ w.todo = r.todo /\ w.order = o /\ w.row = r.row
    BY <1>2, <2>2, <2>4, WithControl DEF Allowed, Typed
  <2>6. r.kind = "cancel"
    BY <1>2 DEF Allowed, Control, At
  <2>7. ListKnows(w) /\ ~ InLoop(w)
    BY <1>2, <2>5 DEF Knows, ListKnows, Looking, InLoop
  <2>8. CancelKnows(w)
    BY <1>4, <1>5, <2>5 DEF CancelKnows, CanCancelOrder, Unlocking
  <2>9. Knows(w)
    BY <2>5, <2>6, <2>7, <2>8, SyncIs
  <2> QED BY <1>3, <2>3, <2>9, KnownBecomes
<1>6. CASE ~ CanCancelOrder(o)
  <2>1. Become(t, Idle)
    BY <1>1, <1>4, <1>6 DEF GetByIDForUser
  <2> QED BY <1>3, <2>1, KnownEnds
<1> QED BY <1>5, <1>6

LEMMA IdleStaysKnown == Knows(Idle)'
<1>1. DOMAIN Idle.todo = {} /\ Idle.todo = <<>> /\ Idle.pc = "idle" /\ Idle.kind = "none"
  BY EmptySequence DEF Idle
<1> QED BY <1>1 DEF Knows, Placing, ListKnows, Looking, InLoop

\* A row whose order the engine has been given is known by its price.
LEMMA PlacedKnown ==
    ASSUME StateOK, StateOK', OneAtATime, Known, NEW t \in Threads, NEW w, Become(t, w),
           w.kind \in {"limit", "market"}, w.todo = <<>>, UNCHANGED <<orders, fresh, crashes>>,
           NEW o, o = w.row, o \in Rows, PlacingKnows(w),
           price' = [price EXCEPT ![o] = IF w.kind = "limit" THEN w.price ELSE 0],
           w.kind = "market" => o \notin OnBook', OnBook' \subseteq OnBook \cup {o},
           w.kind = "limit" => LimitKnows(w), w.kind = "market" => MarketKnows(w)
    PROVE  Known'
<1>1. Allowed(w) /\ req'[t] = w
  BY Moved
<1>2. Knows(w)'
  <2>1. DOMAIN w.todo = {}
    BY EmptySequence
  <2>2. ~ Looking(w) /\ ~ InLoop(w)
    BY <1>1 DEF Looking, InLoop, Allowed, Control, At
  <2>3. PlacingKnows(w)'
    BY DEF PlacingKnows
  <2> QED BY <2>1, <2>2, <2>3 DEF Knows, LimitKnows, MarketKnows, ListKnows, Looking, InLoop,
     Placing, Unlocking, Notional
<1>3. \A x \in Rows : RowKnown(x)'
  <2> SUFFICES ASSUME NEW x \in Rows, x \in OnBook' PROVE x \in fresh' /\ price'[x] = orders'[x].price
    BY DEF RowKnown
  <2>1. price \in [AllOrders -> Nat] /\ x \in AllOrders /\ o \in AllOrders
    BY DEF StateOK, EngineOK, EngineTyped, AllOrders
  <2>2. CASE x = o
    <3>1. w.kind = "limit"
      BY <2>2
    <3> QED BY <2>1, <2>2, <3>1 DEF PlacingKnows
  <2>3. CASE x # o
    BY <2>1, <2>3 DEF Known, RowKnown
  <2> QED BY <2>2, <2>3
<1> QED BY <1>1, <1>2, <1>3, KnownStep DEF Known

LEMMA PlaceLimitKnown ==
    ASSUME StateOK, StateOK', OneAtATime, Real, Known, NEW t \in Threads, PlaceLimit(t) PROVE Known'
<1>1. PICK r : r = req[t]
  OBVIOUS
<1>2. Allowed(r) /\ RequestReal(r) /\ Knows(r) /\ r.pc = "place" /\ r.kind = "limit"
  BY <1>1 DEF StateOK, ReqOK, Real, Known, PlaceLimit
<1>3. PICK o : o = r.row
  OBVIOUS
<1>4. r.bid \in BOOLEAN /\ r.quantity \in Nat /\ r.price \in Nat
  BY <1>2 DEF Allowed, Typed, Fits, Fields
<1>5. Placed(o, r.bid, r.price, r.quantity) /\ Crossed(r.bid, r.price)
  <2>1. r.price \in Prices /\ r.quantity \in Sizes
    BY <1>2 DEF Allowed, Control
  <2> QED BY <1>1, <1>3, <1>4, <2>1, LimitPlaced DEF PlaceLimit, StateOK
<1>6. PICK f : f = [pc |-> "readSize", got |-> SizeFilled(matches'),
                    paidPrice |-> IF matches' = <<>> THEN r.price ELSE VWAP(matches')]
  OBVIOUS
<1>7. PICK w : w = With(r, f)
  OBVIOUS
<1>8. Become(t, w)
  BY <1>1, <1>6, <1>7 DEF PlaceLimit, Set
<1>9. DOMAIN f = {"pc", "got", "paidPrice"} /\ f.pc = "readSize"
      /\ f.paidPrice = IF matches' = <<>> THEN r.price ELSE VWAP(matches')
  BY <1>6
<1>10. /\ w.pc = "readSize" /\ w.kind = "limit" /\ w.row = o /\ w.quantity = r.quantity
       /\ w.todo = r.todo /\ w.price = r.price
  BY <1>2, <1>3, <1>7, <1>9, WithControl DEF Allowed, Typed
<1>11. w.bid = r.bid /\ w.lock = r.lock /\ w.paidPrice = f.paidPrice
  BY <1>2, <1>7, <1>9, WithMoney DEF Allowed, Typed
<1>12. r.todo = <<>> /\ PlacingKnows(r) /\ o \in Rows
  BY <1>2, <1>3 DEF RequestReal, Knows, Placing, PlacingReal
<1>13. PlacingKnows(w)
  BY <1>2, <1>3, <1>10, <1>11, <1>12 DEF PlacingKnows
<1>14. r.bid => f.paidPrice <= r.price
  <2> SUFFICES ASSUME r.bid, matches' # <<>> PROVE VWAP(matches') <= r.price
    BY <1>4, <1>9
  <2>1. PICK ms : ms = matches'
    OBVIOUS
  <2>2. /\ IsFiniteSet(DOMAIN ms)
        /\ \A k \in DOMAIN ms : /\ ms[k].maker \in ToSet(book[~r.bid])
                                /\ ms[k].price = price[ms[k].maker]
                                /\ ms[k].size \in Nat
    BY <1>5, <2>1 DEF Placed, Trades
  <2>3. \A x \in ToSet(book[~r.bid]) : price[x] \in Nat
    BY <1>4, BothSides DEF StateOK, EngineOK, Rests
  <2>4. SizeFilled(ms) > 0
    BY <1>4, <1>5, <2>1, TradedTyped DEF StateOK
  <2>5. \A k \in DOMAIN ms : ms[k].size \in Nat /\ ms[k].price \in Nat /\ ms[k].price <= r.price
    BY <1>5, <2>1, <2>2, <2>3 DEF Crossed
  <2>6. VWAP(ms) <= r.price
    BY <1>4, <2>2, <2>4, <2>5, VWAPBounds
  <2> QED BY <2>1, <2>6
<1>15. LimitKnows(w)
  BY <1>2, <1>10, <1>11, <1>14 DEF Knows, LimitKnows, Unlocking
<1>16. price' = [price EXCEPT ![o] = IF w.kind = "limit" THEN w.price ELSE 0]
       /\ OnBook' \subseteq OnBook \cup {o}
  BY <1>5, <1>10 DEF Placed
<1>17. UNCHANGED <<orders, fresh, crashes>>
  BY DEF PlaceLimit, db, faults
<1> QED BY <1>8, <1>10, <1>12, <1>13, <1>15, <1>16, <1>17, PlacedKnown

LEMMA PlaceMarketKnown ==
    ASSUME StateOK, StateOK', OneAtATime, Real, Known, NEW t \in Threads, PlaceMarket(t) PROVE Known'
<1>1. PICK r : r = req[t]
  OBVIOUS
<1>2. Allowed(r) /\ RequestReal(r) /\ Knows(r) /\ r.pc = "place" /\ r.kind = "market"
  BY <1>1 DEF StateOK, ReqOK, Real, Known, PlaceMarket
<1>3. PICK o : o = r.row
  OBVIOUS
<1>4. r.bid \in BOOLEAN
  BY <1>2 DEF Allowed, Typed, Fits, Fields
<1>5. r.quantity \in Nat /\ r.quantity \in Sizes /\ r.todo = <<>> /\ DOMAIN r = Fields
  BY <1>2 DEF Allowed, Typed, Control, Fits, Fields, RequestReal
<1>6. PlacingKnows(r) /\ o \in Rows /\ o \notin received
  BY <1>2, <1>3 DEF RequestReal, Knows, Placing, PlacingReal
<1>7. UNCHANGED <<orders, fresh, crashes>>
  BY DEF PlaceMarket, db, faults
<1>8. CASE E!RefuseMarketOrder(o, r.bid, r.quantity) /\ Set(t, [pc |-> "delete"])
  <2>1. PICK f : f = [pc |-> "delete"]
    OBVIOUS
  <2>2. PICK w : w = With(r, f)
    OBVIOUS
  <2>3. Become(t, w)
    BY <1>1, <1>8, <2>1, <2>2 DEF Set
  <2>4. DOMAIN f = {"pc"} /\ f.pc = "delete"
    BY <2>1
  <2>5. /\ w.pc = "delete" /\ w.kind = "market" /\ w.row = o /\ w.todo = r.todo /\ w.price = r.price
    BY <1>2, <1>3, <1>5, <2>2, <2>4, WithControl
  <2>6. w.bid = r.bid
    BY <1>5, <2>2, <2>4, WithMoney
  <2>7. OnBook' = OnBook /\ price' = [price EXCEPT ![o] = 0]
    BY <1>4, <1>5, <1>8, MarketRefused DEF StateOK
  <2>8. o \notin OnBook'
    BY <1>6, <2>7, OnBookSides DEF StateOK, EngineOK, Rests
  <2>9. PlacingKnows(w)
    BY <1>2, <1>3, <1>6, <2>5, <2>6 DEF PlacingKnows
  <2>10. MarketKnows(w)
    BY <2>5 DEF MarketKnows
  <2>11. price' = [price EXCEPT ![o] = IF w.kind = "limit" THEN w.price ELSE 0]
         /\ OnBook' \subseteq OnBook \cup {o}
    BY <2>5, <2>7
  <2> QED BY <1>5, <1>6, <1>7, <2>3, <2>5, <2>8, <2>9, <2>10, <2>11, PlacedKnown
<1>9. CASE E!MarketOrder(o, r.bid, r.quantity)
            /\ LET n == Notional(VWAP(matches'), r.quantity)
                   v == IF n > 0 \/ ~ r.bid THEN n
                        ELSE IF r.estimate > 0 THEN r.estimate ELSE Notional(r.price, r.quantity)
               IN  Set(t, [pc |-> IF r.bid THEN "debit" ELSE "update", filled |-> r.quantity,
                           notional |-> v, debit |-> v, unlock |-> 0, status |-> "FILLED"])
  <2>1. Placed(o, r.bid, 0, r.quantity) /\ size'[o] = 0
    BY <1>4, <1>5, <1>9, MarketPlaced DEF StateOK
  <2>2. PICK v : Set(t, [pc |-> IF r.bid THEN "debit" ELSE "update", filled |-> r.quantity,
                         notional |-> v, debit |-> v, unlock |-> 0, status |-> "FILLED"])
    BY <1>9
  <2>3. PICK f : f = [pc |-> IF r.bid THEN "debit" ELSE "update", filled |-> r.quantity,
                      notional |-> v, debit |-> v, unlock |-> 0, status |-> "FILLED"]
    OBVIOUS
  <2>4. /\ DOMAIN f = {"pc", "filled", "notional", "debit", "unlock", "status"}
        /\ f.pc \in {"debit", "update"} /\ f.status = "FILLED"
    BY <2>3
  <2>5. f.pc = "debit" => r.bid
    BY <2>3
  <2>6. PICK w : w = With(r, f)
    OBVIOUS
  <2>7. Become(t, w)
    BY <1>1, <2>2, <2>3, <2>6 DEF Set
  <2>8. /\ w.pc = f.pc /\ w.kind = "market" /\ w.row = o /\ w.todo = r.todo /\ w.price = r.price
    BY <1>2, <1>3, <1>5, <2>4, <2>6, WithControl
  <2>9. w.bid = r.bid
    BY <1>5, <2>4, <2>6, WithMoney
  <2>10. w.status = "FILLED"
    BY <1>5, <2>4, <2>6, WithLocals
  <2>11. o \notin OnBook' /\ OnBook' \subseteq OnBook \cup {o}
    BY <2>1 DEF Placed
  <2>12. PlacingKnows(w)
    BY <1>2, <1>3, <1>6, <2>8, <2>9 DEF PlacingKnows
  <2>13. MarketKnows(w)
    BY <2>5, <2>8, <2>9, <2>10 DEF MarketKnows
  <2>14. price' = [price EXCEPT ![o] = IF w.kind = "limit" THEN w.price ELSE 0]
    BY <2>1, <2>8 DEF Placed
  <2> QED BY <1>5, <1>6, <1>7, <2>7, <2>8, <2>11, <2>12, <2>13, <2>14, PlacedKnown
<1> QED BY <1>1, <1>3, <1>8, <1>9 DEF PlaceMarket

\* A write of row id that leaves its price.
LEMMA WritesKnown ==
    ASSUME StateOK, StateOK', OneAtATime, Known, NEW t \in Threads, NEW w, Become(t, w),
           UNCHANGED <<fresh, crashes>>, UNCHANGED engine,
           NEW id \in Rows, \A x \in Rows \ {id} : orders'[x] = orders[x],
           id \in OnBook => orders'[id].price = orders[id].price, Knows(w)'
    PROVE  Known'
<1>1. req'[t] = w
  BY Moved
<1>2. \A x \in Rows : RowKnown(x)'
  BY EngineKept DEF Known, RowKnown
<1> QED BY <1>1, <1>2, KnownStep DEF Known

LEMMA DeleteKnown ==
    ASSUME StateOK, StateOK', OneAtATime, Real, Known, NEW t \in Threads, DeleteByEngineOrderID(t)
    PROVE  Known'
<1>1. PICK r : r = req[t]
  OBVIOUS
<1>2. Allowed(r) /\ RequestReal(r) /\ r.pc = "delete"
  BY <1>1 DEF StateOK, ReqOK, Real, DeleteByEngineOrderID
<1>3. r.kind = "market"
  BY <1>2 DEF Allowed, Control, At
<1>4. PlacingReal(r)
  BY <1>2, <1>3 DEF RequestReal, Placing
<1>5. PICK id \in Rows : id = r.row
  BY <1>4 DEF PlacingReal
<1>6. id \notin OnBook
  BY <1>2, <1>3, <1>4, <1>5 DEF PlacingReal
<1>7. /\ \A x \in Rows \ {id} : orders'[x] = orders[x]
      /\ UNCHANGED <<fresh, crashes>> /\ UNCHANGED engine /\ Become(t, Idle)
  BY <1>1, <1>5 DEF DeleteByEngineOrderID, StateOK, faults, market
<1> QED BY <1>6, <1>7, IdleStaysKnown, WritesKnown

LEMMA MarkKnown ==
    ASSUME StateOK, StateOK', OneAtATime, Real, Known, NEW t \in Threads, MarkCancelled(t)
    PROVE  Known'
<1>1. PICK r : r = req[t]
  OBVIOUS
<1>2. Allowed(r) /\ r.pc = "mark"
  BY <1>1 DEF StateOK, ReqOK, MarkCancelled
<1>3. PICK id \in Rows : id = r.row
  BY <1>2 DEF Allowed, Control, At
<1>4. PICK o \in RowSet : o = orders[id]
  BY DEF StateOK
<1>5. PICK w : w = With(o, [status |-> "CANCELLED"])
  OBVIOUS
<1>6. w.price = o.price
  BY <1>5, RowCancelled
<1>7. orders' = IF ~ IsRow(id) THEN orders ELSE [orders EXCEPT ![id] = w]
  BY <1>1, <1>3, <1>4, <1>5 DEF MarkCancelled
<1>8. orders'[id].price = orders[id].price /\ \A x \in Rows \ {id} : orders'[x] = orders[x]
  BY <1>4, <1>6, <1>7 DEF StateOK
<1>9. UNCHANGED <<fresh, crashes>> /\ UNCHANGED engine /\ Become(t, Idle)
  BY DEF MarkCancelled, faults, market
<1> QED BY <1>8, <1>9, IdleStaysKnown, WritesKnown

\* A write of what a handler has worked out of the row.
LEMMA UpdatedRow ==
    ASSUME StateOK, NEW r, Allowed(r), NEW id \in Rows,
           orders' = IF ~ IsRow(id) THEN orders
                     ELSE [orders EXCEPT ![id] = With(@, [filled   |-> r.filled,
                                                          notional |-> r.notional,
                                                          status   |-> r.status])]
    PROVE  /\ \A x \in Rows \ {id} : orders'[x] = orders[x]
           /\ orders'[id].price = orders[id].price /\ orders'[id].quantity = orders[id].quantity
           /\ orders'[id].kind = orders[id].kind /\ orders'[id].bid = orders[id].bid
           /\ IsRow(id) => orders'[id].filled = r.filled /\ orders'[id].status = r.status
                           /\ orders'[id].notional = r.notional
<1>1. r.filled \in Nat /\ r.notional \in Nat /\ r.status \in Statuses
  BY DEF Allowed, Typed, Fits, Fields
<1>2. PICK o \in RowSet : o = orders[id]
  BY DEF StateOK
<1>3. PICK v : v = With(o, [filled |-> r.filled, notional |-> r.notional, status |-> r.status])
  OBVIOUS
<1>4. /\ v.filled = r.filled /\ v.status = r.status /\ v.notional = r.notional
      /\ v.quantity = o.quantity /\ v.kind = o.kind /\ v.price = o.price
  BY <1>1, <1>3, RowUpdated
<1>5. v.bid = o.bid
  BY <1>1, <1>3, RowUpdated
<1>6. orders'[id] = (IF ~ IsRow(id) THEN o ELSE v) /\ \A x \in Rows \ {id} : orders'[x] = orders[x]
  BY <1>2, <1>3 DEF StateOK
<1>7. IsRow(id) => orders'[id] = v
  BY <1>6
<1>8. orders'[id] = o \/ orders'[id] = v
  BY <1>6
<1> QED BY <1>2, <1>4, <1>5, <1>6, <1>7, <1>8

LEMMA UpdateKnown ==
    ASSUME StateOK, StateOK', OneAtATime, Real, Known, NEW t \in Threads, UpdateExecution(t)
    PROVE  Known'
<1>1. PICK r : r = req[t]
  OBVIOUS
<1>2. Allowed(r) /\ RequestReal(r) /\ Knows(r) /\ r.pc = "update"
  BY <1>1 DEF StateOK, ReqOK, Real, Known, UpdateExecution
<1>3. UNCHANGED <<fresh, crashes>> /\ UNCHANGED engine
  BY DEF UpdateExecution, faults, market
<1>4. CASE InSync(r)
  <2>1. r.kind \in {"sync", "cancel"} /\ InLoop(r) /\ Looking(r)
    BY <1>2, <1>4 DEF InSync, InLoop, Looking
  <2>2. r.todo # <<>> /\ r.todo \in Seq(Todo)
    BY <1>2, <2>1 DEF Allowed, Typed, Fits, Fields, Control
  <2>3. 1 \in DOMAIN r.todo /\ Head(r.todo) = r.todo[1] /\ Head(r.todo) \in Todo
    BY <2>2, InTail
  <2>4. PICK id \in Rows : id = Head(r.todo).id
    BY <2>3 DEF Todo
  <2>5. PICK w : w = NextOrder(r)
    OBVIOUS
  <2>6. Become(t, w) /\ Knows(w)
    BY <1>1, <1>2, <1>4, <2>1, <2>2, <2>5, NextOrderKnows DEF UpdateExecution
  <2>7. \A x \in Rows \ {id} : orders'[x] = orders[x] /\ orders'[id].price = orders[id].price
    BY <1>1, <1>2, <1>4, <2>4, UpdatedRow DEF UpdateExecution
  <2>8. orders'[id].price = orders[id].price /\ \A x \in Rows \ {id} : orders'[x] = orders[x]
    BY <1>1, <1>2, <1>4, <2>4, UpdatedRow DEF UpdateExecution
  <2>9. w.pc = "order" /\ w.kind = r.kind /\ w.todo = Tail(r.todo)
    <3>1. PICK f : f = [pc |-> "order", todo |-> Tail(r.todo)]
      OBVIOUS
    <3>2. DOMAIN f = {"pc", "todo"} /\ f.pc = "order" /\ f.todo = Tail(r.todo) /\ w = With(r, f)
      BY <2>5, <3>1 DEF NextOrder
    <3> QED BY <1>2, <3>2, WithControl DEF Allowed, Typed
  <2>10. \A k \in DOMAIN w.todo : w.todo[k].id \in Rows \ {id}
    <3> SUFFICES ASSUME NEW k \in DOMAIN w.todo PROVE w.todo[k].id \in Rows \ {id}
      OBVIOUS
    <3>1. w.todo \in Seq(Todo)
      BY <2>2, <2>9
    <3>2. w.todo[k] \in Todo /\ k \in Nat /\ k >= 1
      BY <3>1, InToSet
    <3>3. k + 1 \in DOMAIN r.todo /\ w.todo[k] = r.todo[k + 1] /\ k + 1 # 1
      BY <2>2, <2>9, <3>2, InTail
    <3>4. r.todo[k + 1].id # r.todo[1].id
      BY <1>2, <2>3, <3>3 DEF Knows, ListKnows
    <3> QED BY <2>3, <2>4, <3>2, <3>3, <3>4 DEF Todo
  <2>11. ListKnows(w)'
    <3>1. ListKnows(w)
      BY <2>6 DEF Knows
    <3>2. \A k \in DOMAIN w.todo : w.todo[k].row = orders'[w.todo[k].id] /\ IsOpen(w.todo[k].row)
      BY <2>8, <2>10, <3>1 DEF ListKnows
    <3> QED BY <1>3, <3>1, <3>2 DEF ListKnows, Looking, InLoop, IsOpen
  <2>12. Knows(w)'
    BY <2>1, <2>9, <2>11 DEF Knows, Placing, InLoop, CancelKnows, Unlocking
  <2> QED BY <1>3, <2>6, <2>8, <2>12, WritesKnown
<1>5. CASE ~ InSync(r)
  <2>1. r.kind \in {"limit", "market"}
    BY <1>2, <1>5 DEF InSync, Allowed, Control, At
  <2>2. PICK id \in Rows : id = r.row
    BY <1>2, <2>1 DEF RequestReal, Placing, PlacingReal
  <2>3. orders'[id].price = orders[id].price /\ \A x \in Rows \ {id} : orders'[x] = orders[x]
    BY <1>1, <1>2, <1>5, <2>2, UpdatedRow DEF UpdateExecution
  <2>4. Become(t, Idle)
    BY <1>1, <1>5 DEF UpdateExecution
  <2> QED BY <1>3, <2>3, <2>4, IdleStaysKnown, WritesKnown
<1> QED BY <1>4, <1>5

\* What a cancellation is to release, it has read of the open row.
LEMMA CancelOrderKnown ==
    ASSUME StateOK, StateOK', OneAtATime, Real, Known, NEW t \in Threads, CancelOrderByID(t)
    PROVE  Known'
<1>1. PICK r : r = req[t]
  OBVIOUS
<1>2. Allowed(r) /\ Knows(r) /\ r.pc = "cancel"
  BY <1>1 DEF StateOK, ReqOK, Known, CancelOrderByID
<1>3. r.kind = "cancel" /\ r.row \in Rows
  BY <1>2 DEF Allowed, Control, At
<1>4. PICK id \in Rows : id = r.row
  BY <1>3
<1>5. OnBook' \subseteq OnBook /\ price' = price /\ UNCHANGED <<orders, fresh, crashes>>
  <2>1. CASE id \in OnBook
    <3>1. E!Cancel(id)
      BY <1>1, <1>4, <2>1 DEF CancelOrderByID
    <3>2. OnBook' = OnBook \ {id} /\ price' = price
      BY <3>1, Cancelled DEF StateOK
    <3> QED BY <3>2 DEF CancelOrderByID, db, faults
  <2>2. CASE id \notin OnBook
    <3>1. UNCHANGED engine
      BY <1>1, <1>4, <2>2 DEF CancelOrderByID
    <3> QED BY <3>1, EngineKept DEF CancelOrderByID, db, faults
  <2> QED BY <2>1, <2>2
<1>6. PICK o \in RowSet : o = orders[id]
  BY DEF StateOK
<1>7. r.order = o /\ IsOpen(o) /\ Remaining(o) \in Nat
  <2>1. r.order = o /\ IsOpen(o)
    BY <1>2, <1>3, <1>4, <1>6 DEF Knows, CancelKnows
  <2>2. Remaining(o) \in Int /\ Remaining(o) > 0
    BY <1>2, <1>6, <2>1 DEF Allowed, Control, Remaining, RowSet
  <2> QED BY <2>1, <2>2
<1>8. PICK held : held = IF id \in OnBook /\ size[id] > 0 THEN Min({Remaining(o), size[id]}) ELSE Remaining(o)
  OBVIOUS
<1>9. held \in Nat /\ held <= Remaining(o)
  <2>1. size[id] \in Nat
    BY DEF StateOK, EngineOK, EngineTyped, AllOrders
  <2>2. PICK x \in Int, y \in Int : x = Remaining(o) /\ y = size[id]
    BY <1>7, <2>1
  <2>3. LET m == Min({x, y}) IN m <= x /\ m \in {x, y}
    BY MinOfTwo, Zenon
  <2> QED BY <1>7, <1>8, <2>1, <2>2, <2>3
<1>10. PICK a : a = IF o.bid THEN Notional(o.price, held) ELSE 0
  OBVIOUS
<1>11. Set(t, UnlockUpTo(a, "mark"))
  BY <1>1, <1>4, <1>7, <1>8, <1>10 DEF CancelOrderByID
<1>12. a \in Nat /\ a <= Notional(o.price, Remaining(o)) /\ (a > 0 => o.bid)
  <2>1. o.price \in Nat
    BY <1>6 DEF RowSet
  <2>2. PICK x \in Nat, y \in Nat, p \in Nat : x = held /\ y = Remaining(o) /\ p = o.price
    BY <1>7, <1>9, <2>1
  <2>3. x <= y
    BY <1>9, <2>2
  <2>4. Notional(p, x) \in Nat /\ Notional(p, y) \in Nat
    BY NotionalNat
  <2>5. Notional(p, x) <= Notional(p, y)
    BY <2>3, NotionalGrows
  <2> QED BY <1>10, <2>2, <2>4, <2>5
<1>13. PICK f : f = UnlockUpTo(a, "mark")
  OBVIOUS
<1>14. /\ DOMAIN f \subseteq {"pc", "amount", "next"} /\ "pc" \in DOMAIN f /\ "next" \in DOMAIN f
       /\ f.pc = (IF a > 0 THEN "unlockRead" ELSE "mark") /\ f.next = "mark"
       /\ "amount" \in DOMAIN f => f.amount = a
  BY <1>12, <1>13, UnlockUpToIs
<1>15. a > 0 => "amount" \in DOMAIN f
  BY <1>13 DEF UnlockUpTo
<1>16. PICK w : w = With(r, f)
  OBVIOUS
<1>17. Become(t, w)
  BY <1>1, <1>11, <1>13, <1>16 DEF Set
<1>18. /\ w.pc = f.pc /\ w.next = "mark" /\ w.kind = "cancel" /\ w.row = id /\ w.todo = r.todo
  BY <1>2, <1>3, <1>4, <1>14, <1>16, WithControl DEF Allowed, Typed
<1>19. w.pc = "unlockRead" => a > 0 /\ w.amount = a
  <2>1. w.amount = IF "amount" \in DOMAIN f THEN f.amount ELSE r.amount
    BY <1>2, <1>14, <1>16, WithLocals DEF Allowed, Typed
  <2> QED BY <1>14, <1>15, <1>18, <2>1
<1>20. w.pc \in {"unlockRead", "mark"}
  BY <1>14, <1>18
<1>21. CancelKnows(w)
  BY <1>6, <1>7, <1>12, <1>18, <1>19, <1>20 DEF CancelKnows, Unlocking
<1>22. ListKnows(w) /\ ~ InLoop(w)
  BY <1>2, <1>18, <1>20 DEF Knows, ListKnows, Looking, InLoop
<1>23. Knows(w)
  BY <1>18, <1>21, <1>22, SyncIs
<1>24. req'[t] = w
  BY <1>17, Moved
<1> QED BY <1>5, <1>23, <1>24, KnownMoves

LEMMA OthersKnown ==
    ASSUME StateOK, Known, OtherOrder \/ OtherCancel PROVE Known'
<1>1. /\ \A x \in Rows : x \in OnBook' => x \in OnBook
      /\ \A x \in Rows : price'[x] = price[x]
  <2>1. CASE OtherOrder
    <3>1. PICK o \in AllOrders \ Rows, b \in BOOLEAN, p \in Nat, n \in Sizes : Placed(o, b, p, n)
      BY <2>1, OtherPlaced DEF StateOK
    <3>2. \A x \in Rows : x # o
      BY <3>1
    <3>3. price' = [price EXCEPT ![o] = p] /\ price \in [AllOrders -> Nat]
      BY <3>1 DEF Placed, StateOK, EngineOK, EngineTyped
    <3>4. \A x \in Rows : x \in AllOrders
      BY DEF AllOrders
    <3> QED BY <3>1, <3>2, <3>3, <3>4 DEF Placed
  <2>2. CASE OtherCancel
    <3>1. PICK o \in Others : E!Cancel(o)
      BY <2>2 DEF OtherCancel
    <3> QED BY <3>1, Cancelled DEF StateOK
  <2> QED BY <2>1, <2>2
<1>2. UNCHANGED <<orders, fresh, crashes, req>>
  BY DEF OtherOrder, OtherCancel, db, faults
<1>3. \A x \in Rows : RowKnown(x)'
  BY <1>1, <1>2 DEF Known, RowKnown
<1>4. \A s \in Threads : Knows(req[s])'
  BY <1>2 DEF Known, Knows, LimitKnows, MarketKnows, PlacingKnows, ListKnows, HeadKnows, CancelKnows,
     IsOpen, Placing, Looking, InLoop, Unlocking, Remaining, Notional
<1> QED BY <1>2, <1>3, <1>4 DEF Known, Rows

LEMMA CrashKnown ==
    ASSUME StateOK, Known, Crash PROVE Known'
<1>1. OnBook' = {} /\ crashes' \in Nat
  BY CrashOK DEF Crash, Known
<1>2. \A s \in Threads : Knows(req[s])'
  <2> SUFFICES ASSUME NEW s \in Threads PROVE Knows(req[s])'
    OBVIOUS
  <2>1. req'[s] = Idle
    BY DEF Crash
  <2> QED BY <2>1, IdleStaysKnown
          DEF Knows, LimitKnows, MarketKnows, PlacingKnows, ListKnows, HeadKnows, CancelKnows,
     IsOpen, Placing, Looking, InLoop, Unlocking, Remaining, Notional
<1>3. \A x \in Rows : RowKnown(x)'
  BY <1>1 DEF RowKnown
<1> QED BY <1>1, <1>2, <1>3 DEF Known, Rows

LEMMA InitKnown == Init => Known
<1> SUFFICES ASSUME Init PROVE Known
  OBVIOUS
<1>1. OnBook = {}
  BY EmptySequence DEF Init, E!Init, OnBook
<1>2. \A x \in Rows : RowKnown(x)
  BY <1>1 DEF RowKnown
<1>3. \A t \in Threads : Knows(req[t])
  BY IdleKnows DEF Init
<1> QED BY <1>2, <1>3 DEF Init, Known

LEMMA NextKnown == OneAtATime /\ StateOK /\ Real /\ Known /\ [Next]_vars => Known'
<1> SUFFICES ASSUME OneAtATime, StateOK, Real, Known, [Next]_vars PROVE Known'
  OBVIOUS
<1>1. StateOK'
  BY NextOK
<1>2. ASSUME NEW t \in Threads, Handler(t) PROVE Known'
  BY <1>1, <1>2, WalletStepsKnown, StartingKnown, PreparingKnown, CreateKnown, PlaceLimitKnown,
     ReadSizeKnown, ReadStatusKnown, PlaceMarketKnown, DeleteKnown, DebitKnown, UnlockReadKnown,
     UnlockWriteKnown, UpdateKnown, ListOpenKnown, StreamKnown, SyncOrderKnown, GetKnown,
     CancelOrderKnown, MarkKnown, StatementFailsKnown DEF Handler
<1>3. CASE UNCHANGED vars
  <2>1. UNCHANGED <<orders, fresh, crashes, req>> /\ UNCHANGED engine
    BY <1>3 DEF vars, db, faults, market
  <2>2. \A x \in Rows : RowKnown(x)'
    BY <2>1, EngineKept DEF Known, RowKnown
  <2>3. \A s \in Threads : Knows(req[s])'
    BY <2>1 DEF Known, Knows, LimitKnows, MarketKnows, PlacingKnows, ListKnows, HeadKnows, CancelKnows,
       IsOpen, Placing, Looking, InLoop, Unlocking, Remaining, Notional
  <2> QED BY <2>1, <2>2, <2>3 DEF Known, Rows
<1> QED BY <1>2, <1>3, OthersKnown, CrashKnown DEF Next

\* With one request at a time, a buy pays at most what it has reserved and a sync
\* settles exactly what was filled since the row was written.
LEMMA KnownAlways == ASSUME OneAtATime PROVE Spec => []Known
<1>1. Init => Known
  BY InitKnown
<1>2. StateOK /\ Real /\ Known /\ [Next]_vars => Known'
  BY NextKnown
<1> QED BY <1>1, <1>2, StateAlwaysOK, RealAlways, PTL DEF Spec

-----------------------------------------------------------------------------
(* What is held of the lock.                                                *)

\* What a row keeps locked between requests.
Base(x) ==
    IF IsOpen(orders[x]) /\ orders[x].bid THEN Notional(orders[x].price, Remaining(orders[x])) ELSE 0

\* Nothing that the handler has done or is to do with the row changes what it holds.
Plain(r) ==
    r.pc \notin {"mark", "update"} /\ ~ Creating(r) /\ ~ (r.kind = "market" /\ Placing(r))

LEMMA PlainHolds == ASSUME NEW r, Plain(r), NEW x PROVE Holding(r, x) = Base(x)
  BY DEF Plain, Holding, Base, Released, Settled, Remaining

\* What a handler is about to write is between what the row shows and its size.
WritesBetween ==
    \A t \in Threads :
       LET r == req[t]
           x == Target(r)
       IN  /\ r.pc \in {"debit", "update"} \/ (Unlocking(r) /\ r.next = "update") =>
                 /\ x \in Rows /\ orders[x].filled <= r.filled /\ r.filled <= orders[x].quantity
                 /\ IsOpen(orders[x])

FilledWithin == \A x \in Rows : IsRow(x) => orders[x].filled <= orders[x].quantity

LEMMA WithinSize == StateOK /\ Real /\ Known /\ failures = 0 => WritesBetween /\ FilledWithin
<1> SUFFICES ASSUME StateOK, Real, Known, failures = 0 PROVE WritesBetween /\ FilledWithin
  OBVIOUS
<1>1. \A x \in Rows : /\ Executed(x) <= orders[x].quantity /\ orders[x] \in RowSet
                      /\ Executed(x) \in Int /\ orders[x].quantity \in Nat
  <2> SUFFICES ASSUME NEW x \in Rows
               PROVE  /\ Executed(x) <= orders[x].quantity /\ orders[x] \in RowSet
                      /\ Executed(x) \in Int /\ orders[x].quantity \in Nat
    OBVIOUS
  <2>1. size[x] \in Nat /\ orders[x] \in RowSet
    BY DEF StateOK, EngineOK, EngineTyped, AllOrders
  <2>2. orders[x].quantity \in Nat
    BY <2>1 DEF RowSet
  <2> QED BY <2>1, <2>2 DEF Executed
<1>2. FilledWithin
  <2> SUFFICES ASSUME NEW x \in Rows, IsRow(x) PROVE orders[x].filled <= orders[x].quantity
    BY DEF FilledWithin
  <2>1. orders[x].filled <= Executed(x)
    BY DEF Real, RowReal, Counted
  <2>2. orders[x].filled \in Nat /\ orders[x].quantity \in Nat
    BY <1>1 DEF RowSet
  <2>3. Executed(x) \in Int
    BY <2>2 DEF Executed, StateOK, EngineOK, EngineTyped, AllOrders
  <2> QED BY <1>1, <2>1, <2>2, <2>3
<1>3. ASSUME NEW t \in Threads, NEW r, r = req[t],
             r.pc \in {"debit", "update"} \/ (Unlocking(r) /\ r.next = "update")
      PROVE  LET x == Target(r)
             IN  /\ x \in Rows /\ orders[x].filled <= r.filled /\ r.filled <= orders[x].quantity
                 /\ IsOpen(orders[x])
  <2>1. Allowed(r) /\ RequestReal(r) /\ Knows(r)
    BY <1>3 DEF StateOK, ReqOK, Real, Known
  <2>2. PICK x : x = Target(r)
    OBVIOUS
  <2>3. CASE r.kind \in {"limit", "market"}
    <3>1. x = r.row /\ Placing(r)
      BY <1>3, <2>2, <2>3 DEF Target, InSync, Placing, Unlocking
    <3>2. x \in Rows /\ orders[x].status = "OPEN" /\ orders[x].filled = 0 /\ r.filled <= Executed(x)
      BY <1>3, <2>1, <3>1 DEF RequestReal, PlacingReal, Unlocking
    <3>3. r.filled \in Nat
      BY <2>1 DEF Allowed, Typed, Fits, Fields
    <3>4. PICK e \in Int, q \in Nat : e = Executed(x) /\ q = orders[x].quantity /\ e <= q
      BY <1>1, <3>2
    <3> QED BY <2>2, <3>2, <3>3, <3>4 DEF IsOpen
  <2>4. CASE r.kind \in {"sync", "cancel"}
    <3>1. InLoop(r) /\ InSync(r)
      BY <1>3, <2>4 DEF InLoop, InSync, Unlocking
    <3>2. r.todo # <<>> /\ r.todo \in Seq(Todo)
      BY <2>1, <3>1 DEF Allowed, Control, Typed, Fits, Fields
    <3>3. 1 \in DOMAIN r.todo /\ Head(r.todo) = r.todo[1] /\ r.todo[1] \in Todo
      BY <3>2, InTail
    <3>4. x = r.todo[1].id /\ x \in Rows
      BY <2>2, <3>1, <3>3 DEF Target, Todo
    <3>5. r.todo[1].row = orders[x] /\ IsOpen(orders[x]) /\ orders[x].filled <= r.filled
      BY <2>1, <3>1, <3>3, <3>4 DEF Knows, ListKnows, HeadKnows
    <3>6. r.filled <= Executed(x)
      BY <2>1, <3>1, <3>3, <3>4 DEF RequestReal, HeadReal, Counted
    <3>7. r.filled \in Nat
      BY <2>1 DEF Allowed, Typed, Fits, Fields
    <3>8. PICK e \in Int, q \in Nat : e = Executed(x) /\ q = orders[x].quantity /\ e <= q
      BY <1>1, <3>4
    <3> QED BY <2>2, <3>4, <3>5, <3>6, <3>7, <3>8
  <2> QED BY <1>3, <2>1, <2>3, <2>4 DEF Allowed, Control, At, Unlocking
<1>4. WritesBetween
  BY <1>3 DEF WritesBetween
<1> QED BY <1>2, <1>4

\* What is held of a row is a natural number, and once the row exists no more than
\* what remains of it is worth.
HeldWithin ==
    \A x \in Rows :
       /\ Base(x) \in Nat
       /\ \A t \in Threads : /\ Holding(req[t], x) \in Nat
                             /\ ~ Creating(req[t]) => Holding(req[t], x) <= Base(x)

LEMMA HoldingBounds == StateOK /\ Real /\ Known /\ failures = 0 => HeldWithin
<1> SUFFICES ASSUME StateOK, Real, Known, failures = 0, NEW x \in Rows
             PROVE  /\ Base(x) \in Nat
                    /\ \A t \in Threads : /\ Holding(req[t], x) \in Nat
                                          /\ ~ Creating(req[t]) => Holding(req[t], x) <= Base(x)
  BY DEF HeldWithin
<1>1. WritesBetween /\ FilledWithin
  BY WithinSize
<1>2. PICK o \in RowSet : o = orders[x]
  BY RowTyped
<1>3. PICK p \in Nat, q \in Nat, g \in Nat : p = o.price /\ q = o.quantity /\ g = o.filled
  BY DEF RowSet
<1>4. IsOpen(o) => g <= q
  BY <1>1, <1>2, <1>3 DEF FilledWithin, IsRow, IsOpen
<1>5. Base(x) \in Nat
  <2>1. CASE IsOpen(o) /\ o.bid
    <3>1. PICK d \in Nat : d = q - g
      BY <1>4, <2>1
    <3>2. Base(x) = Notional(p, d)
      BY <1>2, <1>3, <2>1, <3>1 DEF Base, Remaining
    <3> QED BY <3>2, NotionalNat
  <2>2. CASE ~ (IsOpen(o) /\ o.bid)
    BY <1>2, <2>2 DEF Base
  <2> QED BY <2>1, <2>2
<1>6. ASSUME NEW t \in Threads
      PROVE  /\ Holding(req[t], x) \in Nat
             /\ ~ Creating(req[t]) => Holding(req[t], x) <= Base(x)
  <2>1. PICK r : r = req[t]
    OBVIOUS
  <2>2. Allowed(r)
    BY <2>1 DEF StateOK, ReqOK
  <2>3. CASE Creating(r) /\ x = lastRow + 1
    BY <2>1, <2>2, <2>3 DEF Holding, Allowed, Typed, Fits, Fields
  <2>4. CASE ~ (Creating(r) /\ x = lastRow + 1) /\ Released(r, x)
    BY <1>5, <2>1, <2>4 DEF Holding
  <2>5. CASE ~ (Creating(r) /\ x = lastRow + 1) /\ ~ Released(r, x)
    <3>1. IsOpen(o) /\ o.bid
      BY <1>2, <2>5 DEF Released
    <3>2. PICK f : f = Settled(r, x)
      OBVIOUS
    <3>3. f \in Nat /\ g <= f /\ f <= q
      <4>1. CASE r.pc = "update" /\ x = Target(r)
        <5>1. f = r.filled
          BY <3>2, <4>1 DEF Settled
        <5>2. r.filled \in Nat
          BY <2>2 DEF Allowed, Typed, Fits, Fields
        <5> QED BY <1>1, <1>2, <1>3, <2>1, <4>1, <5>1, <5>2 DEF WritesBetween
      <4>2. CASE ~ (r.pc = "update" /\ x = Target(r))
        BY <1>2, <1>3, <1>4, <3>1, <3>2, <4>2 DEF Settled
      <4> QED BY <4>1, <4>2
    <3>4. PICK d \in Nat, e \in Nat : d = q - g /\ e = q - f /\ e <= d
      BY <1>4, <3>1, <3>3
    <3>5. Holding(r, x) = Notional(p, e)
      BY <1>2, <1>3, <2>5, <3>2, <3>4 DEF Holding
    <3>6. Base(x) = Notional(p, d)
      BY <1>2, <1>3, <3>1, <3>4 DEF Base, Remaining
    <3>7. Notional(p, e) <= Notional(p, d)
      BY <3>4, NotionalGrows
    <3>8. Notional(p, e) \in Nat
      BY NotionalNat
    <3> QED BY <2>1, <3>5, <3>6, <3>7, <3>8
  <2> QED BY <2>3, <2>4, <2>5
<1> QED BY <1>5, <1>6

LEMMA HoldingBoundsNext == (StateOK /\ Real /\ Known /\ failures = 0 => HeldWithin)'
  BY HoldingBounds, PTL

\* A sum of which no part grows but one, and that one shrinks by a.
LEMMA SumFalls ==
    ASSUME NEW f, NEW g, NEW S, IsFiniteSet(S), NEW y \in S, NEW a \in Int,
           \A x \in S : f[x] \in Int /\ g[x] \in Int,
           \A x \in S \ {y} : g[x] <= f[x], g[y] + a <= f[y]
    PROVE  SumFunctionOnSet(g, S) + a <= SumFunctionOnSet(f, S)
<1>1. PICK h : h = [x \in S |-> IF x = y THEN f[y] - a ELSE f[x]]
  OBVIOUS
<1>2. h[y] = f[y] - a /\ h[y] \in Int /\ \A x \in S \ {y} : h[x] = f[x]
  BY <1>1
<1>3. SumFunctionOnSet(h, S) = SumFunctionOnSet(f, S) - f[y] + h[y]
  BY <1>2, SumChange
<1>4. \A x \in S : g[x] \in Int /\ h[x] \in Int /\ g[x] <= h[x]
  BY <1>2
<1>5. SumFunctionOnSet(g, S) <= SumFunctionOnSet(h, S)
  BY <1>4, SumMonotone
<1>6. SumFunctionOnSet(f, S) \in Int /\ SumFunctionOnSet(g, S) \in Int
  BY SumInt
<1> QED BY <1>2, <1>3, <1>5, <1>6

LEMMA RowsFinite == IsFiniteSet(Rows)
  BY FS_Interval DEF Rows

\* What is held changes with what is held of the rows ...
LEMMA HeldFalls ==
    ASSUME NEW r, NEW w, NEW y \in Rows, NEW a \in Int,
           \A x \in Rows : Holding(r, x) \in Nat /\ Holding(w, x)' \in Nat,
           \A x \in Rows \ {y} : Holding(w, x)' <= Holding(r, x),
           Holding(w, y)' + a <= Holding(r, y)
    PROVE  Held(w)' + a <= Held(r)
<1>1. PICK f, g : f = [x \in Rows |-> Holding(r, x)] /\ g = [x \in Rows |-> Holding(w, x)']
  OBVIOUS
<1>2. \A x \in Rows : f[x] = Holding(r, x) /\ g[x] = Holding(w, x)'
  BY <1>1
<1>3. Held(r) = SumFunctionOnSet(f, Rows)
  BY <1>1 DEF Held
<1>4. Held(w)' = SumFunctionOnSet(g, Rows)
  BY <1>1 DEF Held, Rows
<1>5. \A x \in Rows : f[x] \in Int /\ g[x] \in Int
  BY <1>2
<1>6. (\A x \in Rows \ {y} : g[x] <= f[x]) /\ g[y] + a <= f[y]
  BY <1>2
<1>7. SumFunctionOnSet(g, Rows) + a <= SumFunctionOnSet(f, Rows)
  BY <1>5, <1>6, RowsFinite, SumFalls
<1> QED BY <1>3, <1>4, <1>7

LEMMA HeldStays ==
    ASSUME NEW r, NEW w,
           \A x \in Rows : Holding(r, x) \in Nat /\ Holding(w, x)' \in Nat,
           \A x \in Rows : Holding(w, x)' <= Holding(r, x)
    PROVE  Held(w)' <= Held(r) /\ Held(w)' \in Nat
<1>1. PICK f, g : f = [x \in Rows |-> Holding(r, x)] /\ g = [x \in Rows |-> Holding(w, x)']
  OBVIOUS
<1>2. \A x \in Rows : f[x] = Holding(r, x) /\ g[x] = Holding(w, x)'
  BY <1>1
<1>3. Held(r) = SumFunctionOnSet(f, Rows)
  BY <1>1 DEF Held
<1>4. Held(w)' = SumFunctionOnSet(g, Rows)
  BY <1>1 DEF Held, Rows
<1>5. \A x \in Rows : f[x] \in Int /\ g[x] \in Int /\ g[x] <= f[x]
  BY <1>2
<1>6. SumFunctionOnSet(g, Rows) <= SumFunctionOnSet(f, Rows)
  BY <1>5, RowsFinite, SumMonotone
<1>7. \A x \in Rows : g[x] \in Nat
  BY <1>2
<1>8. SumFunctionOnSet(g, Rows) \in Nat
  BY <1>7, RowsFinite, SumNat
<1> QED BY <1>3, <1>4, <1>6, <1>8

\* ... and of each row no more is held than of all.
LEMMA HeldCovers ==
    ASSUME NEW r, \A x \in Rows : Holding(r, x) \in Nat
    PROVE  Held(r) \in Nat /\ \A x \in Rows : Holding(r, x) <= Held(r)
<1>1. PICK f : f = [x \in Rows |-> Holding(r, x)]
  OBVIOUS
<1>2. \A x \in Rows : f[x] = Holding(r, x)
  BY <1>1
<1>3. Held(r) = SumFunctionOnSet(f, Rows)
  BY <1>1 DEF Held
<1>4. \A x \in Rows : f[x] \in Nat
  BY <1>2
<1>5. SumFunctionOnSet(f, Rows) \in Nat /\ \A x \in Rows : f[x] <= SumFunctionOnSet(f, Rows)
  BY <1>4, RowsFinite, SumNat
<1> QED BY <1>2, <1>3, <1>5

LEMMA HeldNatNext ==
    ASSUME NEW w, \A x \in Rows : Holding(w, x)' \in Nat
    PROVE  Held(w)' \in Nat
<1>1. PICK g : g = [x \in Rows |-> Holding(w, x)']
  OBVIOUS
<1>2. Held(w)' = SumFunctionOnSet(g, Rows)
  BY <1>1 DEF Held, Rows
<1>3. \A x \in Rows : g[x] \in Nat
  BY <1>1
<1> QED BY <1>2, <1>3, RowsFinite, SumNat

-----------------------------------------------------------------------------
(* A step that keeps the wallet covered.                                    *)

\* What is known of a state before which nothing failed.
Undisturbed == StateOK /\ Real /\ Known /\ crashes = 0 /\ failures = 0

\* Of the only request there is nothing else to show.
LEMMA SecureStep ==
    ASSUME OneAtATime, NEW t \in Threads, NEW w, req'[t] = w,
           crashes' = 0 /\ failures' = 0 => Secured(w)'
    PROVE  Secure'
<1>1. \A s \in Threads : req'[s] = w
  BY DEF OneAtATime
<1> SUFFICES ASSUME crashes' = 0, failures' = 0, NEW s \in Threads PROVE Secured(req[s])'
  BY DEF Secure
<1>2. req'[s] = w
  BY <1>1
<1> QED BY <1>2 DEF Secured, Held, Holding, Reserving, Owing, OnlyLimits, Creating, Released, Settled,
     Target, InSync, Placing, Unlocking, IsRow, IsOpen, Notional, Rows

\* Rows that are not written hold no more than before.
LEMMA HeldSame ==
    ASSUME Undisturbed, Undisturbed', NEW t \in Threads, NEW r, NEW w, r = req[t], w = req'[t],
           UNCHANGED <<orders, lastRow>>, Plain(r), ~ Creating(w)
    PROVE  Held(w)' <= Held(r) /\ Held(w)' \in Nat
<1>1. HeldWithin /\ HeldWithin'
  BY HoldingBounds, HoldingBoundsNext DEF Undisturbed
<1>2. \A x \in Rows : Holding(r, x) \in Nat /\ Holding(r, x) = Base(x)
  BY <1>1, PlainHolds DEF HeldWithin
<1>3. \A x \in Rows : Holding(w, x)' \in Nat /\ Holding(w, x)' <= Base(x)'
  <2> SUFFICES ASSUME NEW x \in Rows PROVE Holding(w, x)' \in Nat /\ Holding(w, x)' <= Base(x)'
    OBVIOUS
  <2>1. x \in Rows'
    BY DEF Rows
  <2>2. Holding(req[t], x)' \in Nat /\ (~ Creating(req'[t]) => Holding(req[t], x)' <= Base(x)')
    BY <1>1, <2>1 DEF HeldWithin, Creating
  <2>3. Holding(req[t], x)' = Holding(w, x)'
    BY DEF Holding, Creating, Released, Settled, Target, InSync, Placing, IsOpen, Notional
  <2> QED BY <2>2, <2>3
<1>4. \A x \in Rows : Base(x)' = Base(x)
  BY DEF Base, IsOpen, Remaining, Notional
<1>5. \A x \in Rows : Holding(w, x)' <= Holding(r, x)
  BY <1>2, <1>3, <1>4
<1> QED BY <1>2, <1>3, <1>5, HeldStays

LEMMA OwingNat == ASSUME NEW r, Typed(r) PROVE Owing(r) \in Nat
  BY DEF Owing, Typed, Fits, Fields

\* Steps that touch neither the wallet nor a row.
LEMMA SecuredQuietly ==
    ASSUME Undisturbed, Undisturbed', NEW t \in Threads, NEW r, NEW w, r = req[t], w = req'[t],
           Secured(r), UNCHANGED <<wallet, orders, lastRow, withdrawn>>,
           Plain(r), ~ Unlocking(r), ~ Creating(w), w.pc \notin {"release", "place", "delete"},
           Reserving(w) => Reserving(r), ~ (w.kind = "limit" /\ Unlocking(w))
    PROVE  Secured(w)'
<1>1. Held(w)' <= Held(r) /\ Held(w)' \in Nat
  BY HeldSame
<1>2. Held(r) \in Nat
  BY HeldCovers, HoldingBounds DEF Undisturbed, HeldWithin
<1>3. wallet.locked \in Nat /\ wallet.balance \in Nat
  BY DEF Undisturbed, StateOK, WalletOK
<1>4. Owing(r) = 0 /\ Owing(w) \in Nat
  <2>1. Typed(w)
    BY DEF Undisturbed, StateOK, ReqOK, Allowed
  <2> QED BY <2>1, OwingNat DEF Owing
<1>5. OnlyLimits(w)' => OnlyLimits(r)
  BY DEF OnlyLimits, IsRow, Rows
<1>6. Held(w)' <= wallet'.locked
  BY <1>1, <1>2, <1>3 DEF Secured
<1>7. ~withdrawn' /\ OnlyLimits(w)' => wallet'.locked <= wallet'.balance + Owing(w)
  BY <1>3, <1>4, <1>5 DEF Secured
<1>8. Reserving(w) => wallet'.locked <= wallet'.balance
  BY DEF Secured
<1> QED BY <1>6, <1>7, <1>8 DEF Secured, Owing, OnlyLimits, Reserving, Unlocking

\* The part of the lock that an unlocking handler is about to release belongs to the
\* row that it is about to write.
LEMMA PaysFor ==
    ASSUME Undisturbed, NEW t \in Threads, NEW r, r = req[t], Secured(r),
           Unlocking(r), r.next = "update"
    PROVE  LET x == Target(r)
           IN  /\ x \in Rows /\ orders[x].filled <= r.filled /\ r.filled <= orders[x].quantity
               /\ IsOpen(orders[x]) /\ orders[x].bid
               /\ r.amount + Notional(orders[x].price, orders[x].quantity - r.filled) <= Base(x)
<1>1. Allowed(r) /\ RequestReal(r) /\ Knows(r) /\ WritesBetween
  BY WithinSize DEF Undisturbed, StateOK, ReqOK, Real, Known
<1>2. PICK x : x = Target(r)
  OBVIOUS
<1>3. x \in Rows /\ orders[x].filled <= r.filled /\ r.filled <= orders[x].quantity /\ IsOpen(orders[x])
  BY <1>1, <1>2 DEF WritesBetween
<1>4. PICK o \in RowSet : o = orders[x]
  BY <1>3, RowTyped DEF Undisturbed
<1>5. PICK p \in Nat, q \in Nat, g \in Nat, f \in Nat, a \in Nat :
         p = o.price /\ q = o.quantity /\ g = o.filled /\ f = r.filled /\ a = r.amount
  BY <1>1 DEF RowSet, Allowed, Typed, Fits, Fields
<1>6. o.bid /\ a <= Notional(p, f - g)
  <2>1. CASE r.kind = "limit"
    <3>1. Placing(r) /\ x = r.row
      BY <1>2, <2>1 DEF Placing, Unlocking, Target, InSync
    <3>2. g = 0 /\ p = r.price /\ o.bid = r.bid
      BY <1>1, <1>4, <1>5, <3>1 DEF RequestReal, PlacingReal, Knows, PlacingKnows
    <3>3. r.bid
      BY <1>1, <2>1 DEF Knows, LimitKnows
    <3>4. a <= Notional(p, f)
      BY <1>5, <2>1, <3>2 DEF Secured
    <3>5. f - g = f
      BY <3>2
    <3> QED BY <3>2, <3>3, <3>4, <3>5
  <2>2. CASE r.kind \in {"sync", "cancel"}
    <3>1. InLoop(r) /\ InSync(r)
      BY <2>2 DEF InLoop, InSync, Unlocking
    <3>2. r.todo # <<>> /\ r.todo \in Seq(Todo)
      BY <1>1, <3>1 DEF Allowed, Control, Typed, Fits, Fields
    <3>3. 1 \in DOMAIN r.todo /\ Head(r.todo) = r.todo[1]
      BY <3>2, InTail
    <3>4. x = r.todo[1].id
      BY <1>2, <3>1, <3>3 DEF Target
    <3>5. r.todo[1].row = o
      BY <1>1, <1>4, <3>3, <3>4 DEF Knows, ListKnows
    <3> QED BY <1>1, <1>5, <3>1, <3>3, <3>5 DEF Knows, HeadKnows
  <2> QED BY <1>1, <2>1, <2>2 DEF Allowed, Control, At, Unlocking
<1>7. PICK d \in Nat, e \in Nat, u \in Nat : d = f - g /\ e = q - f /\ q - g = u /\ u = d + e
  BY <1>3, <1>4, <1>5
<1>8. Notional(p, d) + Notional(p, e) <= Notional(p, d + e)
  BY NotionalAdds
<1>9. Base(x) = Notional(p, u)
  BY <1>3, <1>4, <1>5, <1>6, <1>7 DEF Base, Remaining
<1>10. Notional(p, d) \in Nat /\ Notional(p, e) \in Nat /\ Notional(p, u) \in Nat
  BY NotionalNat
<1>11. a + Notional(p, e) <= Base(x)
  BY <1>6, <1>7, <1>8, <1>9, <1>10
<1> QED BY <1>2, <1>3, <1>4, <1>5, <1>6, <1>7, <1>11

LEMMA KindKept ==
    ASSUME NEW r, DOMAIN r = Fields, NEW f, "kind" \notin DOMAIN f
    PROVE  With(r, f).kind = r.kind
  BY WithControl

LEMMA AfterSyncKind == ASSUME NEW r PROVE AfterSync(r).kind \in {"none", "cancel"}
<1>1. CASE r.kind = "cancel"
  <2>1. PICK f : f = [kind |-> "cancel", row |-> r.row, pc |-> "get"]
    OBVIOUS
  <2>2. f.kind = "cancel" /\ "kind" \in DOMAIN f
    BY <2>1
  <2>3. With(Idle, f).kind = "cancel"
    BY <2>2, IdleTyped, WithControl DEF Typed
  <2> QED BY <1>1, <2>1, <2>3 DEF AfterSync
<1>2. CASE r.kind # "cancel"
  BY <1>2 DEF AfterSync, Idle
<1> QED BY <1>1, <1>2

LEMMA NextOrderKind == ASSUME NEW r, DOMAIN r = Fields PROVE NextOrder(r).kind = r.kind
<1>1. PICK f : f = [pc |-> "order", todo |-> Tail(r.todo)]
  OBVIOUS
<1>2. "kind" \notin DOMAIN f
  BY <1>1
<1> QED BY <1>1, <1>2, KindKept DEF NextOrder

\* The handlers that place no order move no money but by statements of their own.
LEMMA SyncSecure ==
    ASSUME OneAtATime, Undisturbed, Undisturbed', Secure, NEW t \in Threads,
           RequestWithdrawal(t) \/ StartSync(t) \/ ListOpenByUser(t) \/ StreamOrderBook(t)
              \/ SyncOrder(t) \/ GetByIDForUser(t) \/ CancelOrderByID(t)
    PROVE  Secure'
<1>1. PICK r : r = req[t]
  OBVIOUS
<1>2. PICK w : w = req'[t]
  OBVIOUS
<1>3. Allowed(r) /\ Allowed(w) /\ Secured(r) /\ DOMAIN r = Fields /\ DOMAIN Idle = Fields
  BY <1>1, <1>2, IdleTyped DEF Undisturbed, StateOK, ReqOK, Secure, Allowed, Typed
<1>4. r.pc \in {"idle", "list", "snapshot", "order", "get", "cancel"}
  BY <1>1 DEF RequestWithdrawal, StartSync, ListOpenByUser, StreamOrderBook, SyncOrder,
              GetByIDForUser, CancelOrderByID
<1>5. r.kind \in {"none", "sync", "cancel"}
  BY <1>3, <1>4 DEF Allowed, Control, At
<1>6. ASSUME NEW x, Become(t, x) PROVE w = x
  BY <1>2, <1>6 DEF Become, Undisturbed, StateOK, ReqOK
<1>7. ASSUME NEW f, Set(t, f), "kind" \notin DOMAIN f PROVE w.kind = r.kind
  <2>1. PICK x : x = With(r, f)
    OBVIOUS
  <2>2. x.kind = r.kind
    BY <1>3, <1>7, <2>1, KindKept
  <2> QED BY <1>1, <1>6, <1>7, <2>1, <2>2 DEF Set
<1>8. ASSUME NEW f, Start(t, f), "kind" \in DOMAIN f PROVE w.kind = f.kind
  <2>1. PICK x : x = With(Idle, f)
    OBVIOUS
  <2>2. x.kind = f.kind
    BY <1>3, <1>8, <2>1, WithControl
  <2> QED BY <1>6, <1>8, <2>1, <2>2 DEF Start
<1>9. ASSUME Become(t, AfterSync(r)) PROVE w.kind \in {"none", "cancel"}
  BY <1>6, <1>9, AfterSyncKind
<1>10. w.kind \in {"none", "withdraw", "sync", "cancel"}
  <2>1. CASE RequestWithdrawal(t)
    <3>1. PICK f : f = [kind |-> "withdraw", pc |-> "withdraw"]
      OBVIOUS
    <3>2. Start(t, f) /\ "kind" \in DOMAIN f /\ f.kind = "withdraw"
      BY <2>1, <3>1 DEF RequestWithdrawal
    <3> QED BY <1>8, <3>2
  <2>2. CASE StartSync(t)
    <3>1. ASSUME NEW f, Start(t, f), f = [kind |-> "sync", pc |-> "list"] PROVE w.kind = "sync"
      <4>1. "kind" \in DOMAIN f /\ f.kind = "sync"
        BY <3>1
      <4> QED BY <1>8, <3>1, <4>1
    <3>2. ASSUME NEW q \in Rows, NEW f, Start(t, f), f = [kind |-> "cancel", row |-> q, pc |-> "list"]
          PROVE  w.kind = "cancel"
      <4>1. "kind" \in DOMAIN f /\ f.kind = "cancel"
        BY <3>2
      <4> QED BY <1>8, <3>2, <4>1
    <3> QED BY <2>2, <3>1, <3>2 DEF StartSync
  <2>3. CASE ListOpenByUser(t)
    <3>1. CASE OpenRows = <<>>
      BY <1>1, <1>9, <2>3, <3>1 DEF ListOpenByUser
    <3>2. CASE OpenRows # <<>>
      <4>1. PICK f : f = [pc |-> "snapshot", todo |-> OpenRows]
        OBVIOUS
      <4>2. "kind" \notin DOMAIN f /\ Set(t, f)
        BY <1>1, <2>3, <3>2, <4>1 DEF ListOpenByUser, Set
      <4> QED BY <1>5, <1>7, <4>2
    <3> QED BY <3>1, <3>2
  <2>4. CASE StreamOrderBook(t)
    <3>1. PICK f : f = [pc |-> "order", seen |-> RemainingByID]
      OBVIOUS
    <3>2. "kind" \notin DOMAIN f /\ Set(t, f)
      BY <2>4, <3>1 DEF StreamOrderBook
    <3> QED BY <1>5, <1>7, <3>2
  <2>5. CASE SyncOrder(t)
    <3>1. CASE Become(t, AfterSync(r))
      BY <1>9, <3>1
    <3>2. CASE Become(t, NextOrder(r))
      <4>1. w = NextOrder(r)
        BY <1>6, <3>2
      <4> QED BY <1>3, <1>5, <4>1, NextOrderKind
    <3>3. ASSUME NEW a, NEW f, NEW n, NEW s, NEW d, NEW u,
                 Set(t, [pc |-> a, filled |-> f, notional |-> n, status |-> s, debit |-> d, unlock |-> u])
          PROVE  w.kind = r.kind
      <4>1. PICK g : g = [pc |-> a, filled |-> f, notional |-> n, status |-> s, debit |-> d, unlock |-> u]
        OBVIOUS
      <4>2. "kind" \notin DOMAIN g
        BY <4>1
      <4> QED BY <1>7, <3>3, <4>1, <4>2
    <3>4. \/ Become(t, AfterSync(r)) \/ Become(t, NextOrder(r))
          \/ \E a, f, n, s, d, u :
                Set(t, [pc |-> a, filled |-> f, notional |-> n, status |-> s, debit |-> d, unlock |-> u])
      BY <1>1, <2>5 DEF SyncOrder
    <3> QED BY <1>5, <3>1, <3>2, <3>3, <3>4
  <2>6. CASE GetByIDForUser(t)
    <3>1. CASE Become(t, Idle)
      <4>1. w = Idle
        BY <1>6, <3>1
      <4> QED BY <4>1 DEF Idle
    <3>2. CASE Become(t, With(r, [pc |-> "cancel", order |-> orders[r.row]]))
      <4>1. PICK f : f = [pc |-> "cancel", order |-> orders[r.row]]
        OBVIOUS
      <4>2. "kind" \notin DOMAIN f /\ Set(t, f)
        BY <1>1, <3>2, <4>1 DEF Set
      <4> QED BY <1>5, <1>7, <4>2
    <3> QED BY <1>1, <2>6, <3>1, <3>2 DEF GetByIDForUser
  <2>7. CASE CancelOrderByID(t)
    <3>1. PICK a : Set(t, UnlockUpTo(a, "mark"))
      BY <2>7 DEF CancelOrderByID
    <3>2. PICK f : f = UnlockUpTo(a, "mark")
      OBVIOUS
    <3>3. "kind" \notin DOMAIN f
      BY <3>2 DEF UnlockUpTo
    <3> QED BY <1>5, <1>7, <3>1, <3>2, <3>3
  <2> QED BY <2>1, <2>2, <2>3, <2>4, <2>5, <2>6, <2>7
<1>11. w.pc \notin {"create", "release", "place", "delete"} /\ ~ Creating(w) /\ ~ Reserving(w)
  BY <1>3, <1>10 DEF Allowed, Control, At, Creating, Reserving
<1>12. Plain(r) /\ ~ Unlocking(r)
  BY <1>4, <1>5 DEF Plain, Creating, Unlocking
<1>13. UNCHANGED <<wallet, orders, lastRow, withdrawn>>
  BY DEF RequestWithdrawal, StartSync, ListOpenByUser, StreamOrderBook, SyncOrder,
         GetByIDForUser, CancelOrderByID, db
<1>14. Secured(w)'
  BY <1>1, <1>2, <1>3, <1>10, <1>11, <1>12, <1>13, SecuredQuietly
<1> QED BY <1>2, <1>14, SecureStep

\* Where a handler is that has set the fields of f.
LEMMA SetTo ==
    ASSUME StateOK, StateOK', NEW t \in Threads, NEW r, r = req[t], NEW f, Set(t, f),
           "kind" \notin DOMAIN f, "pc" \in DOMAIN f
    PROVE  LET w == req'[t]
           IN  /\ w = With(r, f) /\ Allowed(w) /\ Allowed(r)
               /\ w.kind = r.kind /\ w.pc = f.pc
               /\ "row" \notin DOMAIN f => w.row = r.row
               /\ "bid" \notin DOMAIN f => w.bid = r.bid
               /\ "lock" \notin DOMAIN f => w.lock = r.lock
               /\ "todo" \notin DOMAIN f => w.todo = r.todo
<1>1. PICK w : w = With(r, f)
  OBVIOUS
<1>2. Become(t, w)
  BY <1>1 DEF Set
<1>3. req'[t] = w /\ Allowed(w) /\ Allowed(r)
  BY <1>2, Moved
<1>4. DOMAIN r = Fields
  BY <1>3 DEF Allowed, Typed
<1>5. /\ w.kind = r.kind /\ w.pc = f.pc
      /\ "row" \notin DOMAIN f => w.row = r.row
      /\ "todo" \notin DOMAIN f => w.todo = r.todo
  BY <1>1, <1>4, WithControl
<1>6. /\ "bid" \notin DOMAIN f => w.bid = r.bid
      /\ "lock" \notin DOMAIN f => w.lock = r.lock
  BY <1>1, <1>4, WithMoney
<1> QED BY <1>1, <1>3, <1>5, <1>6

\* A handler that starts afresh, with the fields of f.
LEMMA StartsAt ==
    ASSUME StateOK, StateOK', NEW t \in Threads, NEW f, Start(t, f), {"kind", "pc"} \subseteq DOMAIN f
    PROVE  LET w == req'[t]
           IN  /\ w.kind = f.kind /\ w.pc = f.pc /\ ("bid" \in DOMAIN f => w.bid = f.bid)
<1>1. PICK w : w = With(Idle, f)
  OBVIOUS
<1>2. Become(t, w)
  BY <1>1 DEF Start
<1>3. req'[t] = w
  BY <1>2, Moved
<1>4. DOMAIN Idle = Fields
  BY IdleTyped DEF Typed
<1>5. w.kind = f.kind /\ w.pc = f.pc
  BY <1>1, <1>4, WithControl
<1>6. "bid" \in DOMAIN f => w.bid = f.bid
  BY <1>1, <1>4, WithMoney
<1> QED BY <1>3, <1>5, <1>6

\* Before the row there is nothing to hold, and a limit order that is in the book
\* holds what it did.
LEMMA PlacingSecure ==
    ASSUME OneAtATime, Undisturbed, Undisturbed', Secure, NEW t \in Threads,
           SubmitLimit(t) \/ SubmitMarket(t) \/ ReadWallet(t) \/ Quote(t)
              \/ PlaceLimit(t) \/ ReadSize(t) \/ ReadStatus(t)
    PROVE  Secure'
<1>1. PICK r : r = req[t]
  OBVIOUS
<1>2. PICK w : w = req'[t]
  OBVIOUS
<1>3. Allowed(r) /\ Allowed(w) /\ Secured(r) /\ StateOK /\ StateOK'
  BY <1>1, <1>2 DEF Undisturbed, StateOK, ReqOK, Secure
<1>4. UNCHANGED <<wallet, orders, lastRow, withdrawn>>
  BY DEF SubmitLimit, SubmitMarket, ReadWallet, Quote, PlaceLimit, ReadSize, ReadStatus, db
<1>5. ASSUME Plain(r), ~ Unlocking(r), ~ Creating(w), w.pc \notin {"release", "place", "delete"},
             Reserving(w) => Reserving(r), ~ Unlocking(w)
      PROVE  Secure'
  <2>1. Secured(w)'
    BY <1>1, <1>2, <1>3, <1>4, <1>5, SecuredQuietly
  <2> QED BY <1>2, <2>1, SecureStep
<1>6. CASE SubmitLimit(t)
  <2>1. PICK o \in parseOrderInput(TRUE) :
           LET worth == IF o.bid THEN Notional(o.price, o.quantity) ELSE 0
           IN  Start(t, [kind |-> "limit", pc |-> IF o.bid THEN "lock" ELSE "create",
                         lock |-> worth, bid |-> o.bid, price |-> o.price,
                         quantity |-> o.quantity])
    BY <1>6 DEF SubmitLimit
  <2>2. PICK worth, f :
           /\ f = [kind |-> "limit", pc |-> IF o.bid THEN "lock" ELSE "create",
                   lock |-> worth, bid |-> o.bid, price |-> o.price, quantity |-> o.quantity]
           /\ Start(t, f)
    BY <2>1
  <2>3. f.kind = "limit" /\ f.pc = (IF o.bid THEN "lock" ELSE "create")
        /\ {"kind", "pc", "bid"} \subseteq DOMAIN f
    BY <2>2
  <2>4. f.bid = o.bid
    BY <2>2
  <2>5. w.kind = "limit" /\ w.pc = (IF w.bid THEN "lock" ELSE "create")
    BY <1>2, <1>3, <2>2, <2>3, <2>4, StartsAt
  <2>6. r.pc = "idle" /\ r.kind = "none"
    BY <1>1, <1>3, <1>6 DEF SubmitLimit, Allowed, Control, At
  <2> QED BY <1>5, <2>5, <2>6 DEF Plain, Creating, Reserving, Unlocking
<1>7. CASE SubmitMarket(t)
  <2>1. PICK f : /\ Start(t, f) /\ f.kind = "market" /\ f.pc \in {"wallet", "quote"}
                 /\ DOMAIN f = {"kind", "pc", "bid", "quantity"}
    BY <1>7 DEF SubmitMarket
  <2>2. w.kind = "market" /\ w.pc \in {"wallet", "quote"}
    BY <1>2, <1>3, <2>1, StartsAt
  <2>3. r.pc = "idle" /\ r.kind = "none"
    BY <1>1, <1>3, <1>7 DEF SubmitMarket, Allowed, Control, At
  <2> QED BY <1>5, <2>2, <2>3 DEF Plain, Creating, Reserving, Unlocking
<1>8. CASE ReadWallet(t) \/ Quote(t)
  <2>1. r.pc \in {"wallet", "quote"} /\ r.kind = "market"
    BY <1>1, <1>3, <1>8 DEF ReadWallet, Quote, Allowed, Control, At
  <2>2. ASSUME NEW f, Set(t, f), "kind" \notin DOMAIN f, "pc" \in DOMAIN f, f.pc \in {"quote", "create"}
        PROVE  Secure'
    <3>1. w.kind = "market" /\ w.pc \in {"quote", "create"}
      BY <1>1, <1>2, <1>3, <2>1, <2>2, SetTo
    <3> QED BY <1>5, <2>1, <3>1 DEF Plain, Creating, Reserving, Unlocking, Placing
  <2>3. CASE ReadWallet(t)
    <3>1. PICK f : f = [pc |-> "quote", available |-> Available]
      OBVIOUS
    <3>2. Set(t, f) /\ "kind" \notin DOMAIN f /\ "pc" \in DOMAIN f /\ f.pc = "quote"
      BY <2>3, <3>1 DEF ReadWallet
    <3> QED BY <2>2, <3>2
  <2>4. CASE Set(t, [pc |-> "create", price |-> BestPrice(FALSE),
                     estimate |-> MarketBuyQuote(req[t].quantity)])
    <3>1. PICK f : f = [pc |-> "create", price |-> BestPrice(FALSE),
                        estimate |-> MarketBuyQuote(req[t].quantity)]
      OBVIOUS
    <3>2. Set(t, f) /\ "kind" \notin DOMAIN f /\ "pc" \in DOMAIN f /\ f.pc = "create"
      BY <2>4, <3>1
    <3> QED BY <2>2, <3>2
  <2>5. CASE Set(t, [pc |-> "create", price |-> BestPrice(TRUE)])
    <3>1. PICK f : f = [pc |-> "create", price |-> BestPrice(TRUE)]
      OBVIOUS
    <3>2. Set(t, f) /\ "kind" \notin DOMAIN f /\ "pc" \in DOMAIN f /\ f.pc = "create"
      BY <2>5, <3>1
    <3> QED BY <2>2, <3>2
  <2>6. CASE Become(t, Idle)
    <3>1. w = Idle
      BY <1>2, <1>3, <2>6, Moved
    <3>2. w.kind = "none" /\ w.pc = "idle"
      BY <3>1 DEF Idle
    <3> QED BY <1>5, <2>1, <3>2 DEF Plain, Creating, Reserving, Unlocking, Placing
  <2> QED BY <1>8, <2>3, <2>4, <2>5, <2>6 DEF Quote
<1>9. CASE PlaceLimit(t) \/ ReadSize(t) \/ ReadStatus(t)
  <2>1. r.pc \in {"place", "readSize", "readStatus"} /\ r.kind = "limit"
    BY <1>1, <1>3, <1>9 DEF PlaceLimit, ReadSize, ReadStatus, Allowed, Control, At
  <2>2. ASSUME NEW f, Set(t, f), DOMAIN f \cap {"kind", "bid"} = {}, "pc" \in DOMAIN f,
               f.pc \in {"readSize", "readStatus", "debit", "update"}
        PROVE  Secure'
    <3>1. "kind" \notin DOMAIN f /\ "bid" \notin DOMAIN f
      BY <2>2
    <3>2. w.kind = "limit" /\ w.bid = r.bid /\ w.pc \in {"readSize", "readStatus", "debit", "update"}
      BY <1>1, <1>2, <1>3, <2>1, <2>2, <3>1, SetTo
    <3> QED BY <1>5, <2>1, <3>2 DEF Plain, Creating, Reserving, Unlocking
  <2>3. CASE PlaceLimit(t)
    <3>1. PICK f : /\ Set(t, f) /\ DOMAIN f = {"pc", "got", "paidPrice"} /\ f.pc = "readSize"
      BY <2>3 DEF PlaceLimit
    <3> QED BY <2>2, <3>1
  <2>4. CASE ReadSize(t)
    <3>1. PICK f : /\ Set(t, f) /\ DOMAIN f = {"pc", "filled", "notional"} /\ f.pc = "readStatus"
      BY <2>4 DEF ReadSize
    <3> QED BY <2>2, <3>1
  <2>5. CASE ReadStatus(t)
    <3>1. PICK f : /\ Set(t, f) /\ DOMAIN f = {"pc", "debit", "unlock", "status"}
                   /\ f.pc \in {"debit", "update"}
      BY <2>5 DEF ReadStatus
    <3> QED BY <2>2, <3>1
  <2> QED BY <1>9, <2>3, <2>4, <2>5
<1> QED BY <1>6, <1>7, <1>8, <1>9

-----------------------------------------------------------------------------
(* The handlers, one by one.                                                *)

LEMMA WalletIs ==
    ASSUME WalletOK, NEW x
    PROVE  /\ wallet' = With(wallet, [balance |-> x]) => wallet'.balance = x /\ wallet'.locked = wallet.locked
           /\ wallet' = With(wallet, [locked |-> x]) => wallet'.locked = x /\ wallet'.balance = wallet.balance
  BY DEF WalletOK, With

\* A placing handler holds what the other rows do, and a market order holds nothing.
LEMMA PlacingHolds ==
    ASSUME NEW r, NEW x
    PROVE  /\ Creating(r) /\ x # lastRow + 1 => Holding(r, x) = Base(x)
           /\ Creating(r) /\ x = lastRow + 1 => Holding(r, x) = r.lock
           /\ r.kind = "market" /\ Placing(r) => Holding(r, x) = IF x = r.row THEN 0 ELSE Base(x)
<1>1. Creating(r) /\ x # lastRow + 1 => Holding(r, x) = Base(x)
  BY DEF Creating, Holding, Base, Released, Settled, Remaining
<1>2. Creating(r) /\ x = lastRow + 1 => Holding(r, x) = r.lock
  BY DEF Holding
<1>3. r.kind = "market" /\ Placing(r) => Holding(r, x) = IF x = r.row THEN 0 ELSE Base(x)
  BY DEF Creating, Holding, Base, Released, Settled, Target, InSync, Remaining
<1> QED BY <1>1, <1>2, <1>3

LEMMA IdleIs == Idle.kind = "none" /\ Idle.pc = "idle" /\ Plain(Idle) /\ ~ Unlocking(Idle)
               /\ ~ Creating(Idle) /\ ~ Reserving(Idle) /\ Owing(Idle) = 0
<1>1. Idle.kind = "none" /\ Idle.pc = "idle"
  BY DEF Idle
<1> QED BY <1>1 DEF Plain, Unlocking, Creating, Reserving, Owing

LEMMA DepositSecure ==
    ASSUME OneAtATime, Undisturbed, Undisturbed', Secure, NEW t \in Threads, Deposit(t)
    PROVE  Secure'
<1>1. PICK r : r = req[t]
  OBVIOUS
<1>2. Secured(r) /\ req'[t] = r
  BY <1>1 DEF Secure, Undisturbed, Deposit
<1>3. wallet'.balance = wallet.balance + Amount /\ wallet'.locked = wallet.locked
  BY WalletIs DEF Deposit, Undisturbed, StateOK
<1>4. wallet.balance \in Nat /\ wallet.locked \in Nat
  BY DEF Undisturbed, StateOK, WalletOK
<1>5. UNCHANGED <<orders, lastRow, withdrawn>>
  BY DEF Deposit
<1>6. Owing(r) = 0
  BY <1>1 DEF Deposit, Owing, Unlocking
<1>7. Held(r)' = Held(r)
  BY <1>5 DEF Held, Holding, Creating, Released, Settled, Target, InSync, Placing, IsOpen, Notional, Rows
<1>8. OnlyLimits(r)' <=> OnlyLimits(r)
  BY <1>5 DEF OnlyLimits, IsRow, Rows
<1>9. Secured(r)'
  BY <1>2, <1>3, <1>4, <1>5, <1>6, <1>7, <1>8 DEF Secured, Owing, Reserving, Unlocking, Notional
<1> QED BY <1>2, <1>9, SecureStep

LEMMA WithdrawSecure ==
    ASSUME OneAtATime, Undisturbed, Undisturbed', Secure, NEW t \in Threads, Withdraw(t)
    PROVE  Secure'
<1>1. PICK r : r = req[t]
  OBVIOUS
<1>2. PICK w : w = Idle
  OBVIOUS
<1>3. Secured(r) /\ req'[t] = w /\ Allowed(r)
  BY <1>1, <1>2, Moved DEF Secure, Undisturbed, Withdraw, StateOK, ReqOK
<1>4. wallet'.locked = wallet.locked /\ withdrawn' /\ UNCHANGED <<orders, lastRow>>
  BY WalletIs DEF Withdraw, Undisturbed, StateOK
<1>5. Plain(r)
  BY <1>1, <1>3 DEF Withdraw, Plain, Creating, Placing, Allowed, Control, At
<1>6. Held(w)' <= Held(r) /\ Held(w)' \in Nat
  BY <1>1, <1>2, <1>3, <1>4, <1>5, HeldSame, IdleIs
<1>7. Held(r) \in Nat /\ wallet.locked \in Nat
  BY <1>1, HeldCovers, HoldingBounds DEF Undisturbed, HeldWithin, StateOK, WalletOK
<1>8. Held(w)' <= wallet'.locked
  BY <1>3, <1>4, <1>6, <1>7 DEF Secured
<1>9. Secured(w)'
  BY <1>2, <1>4, <1>8, IdleIs DEF Secured, Reserving, Unlocking
<1> QED BY <1>3, <1>9, SecureStep

\* The lock that the wallet takes is what the handler holds for its next row.
LEMMA LockAmountSecure ==
    ASSUME OneAtATime, Undisturbed, Undisturbed', Secure, NEW t \in Threads, LockAmount(t)
    PROVE  Secure'
<1>1. PICK r : r = req[t]
  OBVIOUS
<1>2. /\ StateOK /\ StateOK' /\ Allowed(r) /\ RequestReal(r) /\ Secured(r)
      /\ r.pc = "lock" /\ r.kind = "limit" /\ UNCHANGED <<orders, lastRow, withdrawn>>
  BY <1>1 DEF Undisturbed, StateOK, ReqOK, Real, Secure, LockAmount, Allowed, Control, At
<1>3. Plain(r) /\ ~ Unlocking(r) /\ Owing(r) = 0
  BY <1>2 DEF Plain, Creating, Unlocking, Owing
<1>4. CASE ~ CanReserve(r.lock)
  <2>1. PICK w : w = Idle
    OBVIOUS
  <2>2. Become(t, w)
    BY <1>1, <1>2, <1>4, <2>1 DEF LockAmount, OnError, InSync
  <2>3. req'[t] = w /\ UNCHANGED wallet
    BY <1>1, <1>2, <1>4, <2>2, Moved DEF LockAmount
  <2>4. Secured(w)'
    BY <1>1, <1>2, <1>3, <2>1, <2>3, IdleIs, SecuredQuietly
  <2> QED BY <2>3, <2>4, SecureStep
<1>5. CASE CanReserve(r.lock)
  <2>1. PICK f : f = [pc |-> "create"]
    OBVIOUS
  <2>2. Set(t, f) /\ DOMAIN f = {"pc"} /\ f.pc = "create"
    BY <1>1, <1>5, <2>1 DEF LockAmount
  <2>3. PICK w : w = req'[t]
    OBVIOUS
  <2>4. w.kind = "limit" /\ w.pc = "create" /\ w.lock = r.lock
    BY <1>1, <1>2, <2>2, <2>3, SetTo
  <2>5. PICK k \in Nat, b \in Nat, l \in Nat : k = r.lock /\ b = wallet.balance /\ l = wallet.locked
    BY <1>2 DEF Allowed, Typed, Fits, Fields, StateOK, WalletOK
  <2>6. wallet'.locked = l + k /\ wallet'.balance = b
    BY <1>1, <1>2, <1>5, <2>5, WalletIs DEF LockAmount, StateOK
  <2>7. l + k <= b
    BY <1>5, <2>5 DEF CanReserve, Available
  <2>8. HeldWithin /\ HeldWithin'
    BY HoldingBounds, HoldingBoundsNext DEF Undisturbed
  <2>9. \A x \in Rows : Holding(r, x) \in Nat /\ Holding(r, x) = Base(x)
    BY <1>1, <1>3, <2>8, PlainHolds DEF HeldWithin
  <2>10. \A x \in Rows : Holding(w, x)' \in Nat
    <3>1. \A x \in Rows : Holding(req[t], x)' \in Nat
      BY <2>8 DEF HeldWithin, Rows
    <3> QED BY <2>3, <3>1 DEF Holding, Creating, Released, Settled, Target, InSync, Placing, IsOpen, Notional
  <2>11. \A x \in Rows : Holding(w, x)' = Holding(w, x) /\ Base(x) = Holding(r, x)
    BY <1>2, <2>9 DEF Holding, Creating, Released, Settled, Target, InSync, Placing, IsOpen, Notional
  <2>12. Held(w)' - k <= Held(r)
    <3>1. PICK n \in Rows : n = lastRow + 1
      BY <1>2 DEF RequestReal, StateOK, Rows
    <3>2. \A x \in Rows \ {n} : Holding(w, x)' <= Holding(r, x)
      <4> SUFFICES ASSUME NEW x \in Rows, x # n PROVE Holding(w, x)' <= Holding(r, x)
        OBVIOUS
      <4>1. Holding(w, x) = Base(x)
        <5>1. CASE Creating(w)
          BY <3>1, <5>1, PlacingHolds
        <5>2. CASE ~ Creating(w)
          BY <2>4, <5>2, PlainHolds DEF Plain
        <5> QED BY <5>1, <5>2
      <4> QED BY <2>9, <2>11, <4>1
    <3>3. Holding(w, n) = k \/ Holding(w, n) = Base(n)
      <4>1. CASE Creating(w)
        BY <2>4, <2>5, <3>1, <4>1, PlacingHolds
      <4>2. CASE ~ Creating(w)
        BY <2>4, <4>2, PlainHolds DEF Plain
      <4> QED BY <4>1, <4>2
    <3>4. PICK a \in Int : a = - k
      OBVIOUS
    <3>5. Holding(w, n)' + a <= Holding(r, n)
      BY <2>9, <2>11, <3>3, <3>4
    <3>6. Held(w)' + a <= Held(r)
      BY <2>9, <2>10, <3>2, <3>5, HeldFalls
    <3>7. Held(w)' \in Nat
      BY <2>10, HeldNatNext
    <3> QED BY <3>4, <3>6, <3>7
  <2>13. Held(w)' \in Nat /\ Held(r) \in Nat
    BY <2>9, <2>10, HeldCovers, HeldNatNext
  <2>14. Held(w)' <= wallet'.locked
    BY <1>2, <2>5, <2>6, <2>12, <2>13 DEF Secured
  <2>15. wallet'.locked <= wallet'.balance
    BY <2>6, <2>7
  <2>16. Owing(w) = 0 /\ ~ Unlocking(w)
    BY <2>4 DEF Owing, Unlocking
  <2>17. Secured(w)'
    BY <2>4, <2>5, <2>6, <2>14, <2>15, <2>16 DEF Secured, Owing, Unlocking
  <2> QED BY <2>3, <2>17, SecureStep
<1> QED BY <1>1, <1>4, <1>5

\* The row of a limit buy holds what its lock did; nothing is held of other rows.
LEMMA CreateSecure ==
    ASSUME OneAtATime, Undisturbed, Undisturbed', Secure, NEW t \in Threads, Create(t)
    PROVE  Secure'
<1>1. PICK r : r = req[t]
  OBVIOUS
<1>2. /\ StateOK /\ StateOK' /\ Allowed(r) /\ RequestReal(r) /\ Knows(r) /\ Secured(r)
      /\ r.pc = "create" /\ r.kind \in {"limit", "market"} /\ UNCHANGED <<wallet, withdrawn>>
  BY <1>1 DEF Undisturbed, StateOK, ReqOK, Real, Known, Secure, Create, Allowed, Control, At
<1>3. PICK n \in Rows : n = lastRow + 1 /\ lastRow' = n /\ ~ (n <= lastRow)
  BY <1>1, <1>2 DEF RequestReal, StateOK, Rows, Create
<1>4. PICK f : f = [pc |-> "place", row |-> n]
  OBVIOUS
<1>5. Set(t, f) /\ DOMAIN f = {"pc", "row"} /\ f.pc = "place" /\ f.row = n
  BY <1>3, <1>4 DEF Create
<1>6. PICK w : w = req'[t]
  OBVIOUS
<1>7. w.kind = r.kind /\ w.pc = "place" /\ w.bid = r.bid /\ w.lock = r.lock
  BY <1>1, <1>2, <1>5, <1>6, SetTo
<1>8. w.row = n
  <2>1. w = With(r, f) /\ DOMAIN r = Fields
    BY <1>1, <1>2, <1>5, <1>6, SetTo DEF Allowed, Typed
  <2> QED BY <1>5, <2>1, WithControl
<1>9. \A x \in Rows \ {n} : orders'[x] = orders[x]
  BY <1>2, <1>3 DEF Create, StateOK
<1>10. /\ orders'[n].price = r.price /\ orders'[n].quantity = r.quantity /\ orders'[n].filled = 0
       /\ orders'[n].status = "OPEN" /\ orders'[n].kind = (IF r.kind = "limit" THEN "LIMIT" ELSE "MARKET")
  BY <1>1, <1>2, <1>3 DEF Create, StateOK
<1>11. orders'[n].bid = r.bid
  BY <1>1, <1>2, <1>3 DEF Create, StateOK
<1>12. ~ IsRow(n)
  BY <1>3 DEF Undisturbed, Real, RowReal
<1>13. HeldWithin /\ HeldWithin'
  BY HoldingBounds, HoldingBoundsNext DEF Undisturbed
<1>14. \A x \in Rows : Holding(r, x) \in Nat
  BY <1>1, <1>13 DEF HeldWithin
<1>15. \A x \in Rows : Holding(w, x)' \in Nat
  <2>1. \A x \in Rows : Holding(req[t], x)' \in Nat
    BY <1>13 DEF HeldWithin, Rows
  <2> QED BY <1>6, <2>1 DEF Holding, Creating, Released, Settled, Target, InSync, Placing, IsOpen, Notional
<1>16. \A x : Holding(w, x)' = IF w.kind = "market" /\ x = n THEN 0 ELSE Base(x)'
  BY <1>2, <1>7, <1>8 DEF Holding, Base, Creating, Released, Settled, Placing, Remaining, IsOpen, Notional
<1>17. \A x : Holding(r, x) = IF Creating(r) /\ x = n THEN r.lock ELSE Base(x)
  <2>1. CASE Creating(r)
    BY <1>3, <2>1, PlacingHolds
  <2>2. CASE ~ Creating(r)
    BY <1>2, <2>2, PlainHolds DEF Plain, Placing
  <2> QED BY <2>1, <2>2
<1>18. \A x \in Rows : Holding(w, x)' <= Holding(r, x)
  <2> SUFFICES ASSUME NEW x \in Rows PROVE Holding(w, x)' <= Holding(r, x)
    OBVIOUS
  <2>1. CASE x # n
    <3>1. Base(x)' = Base(x)
      BY <1>9, <2>1 DEF Base, IsOpen, Remaining, Notional
    <3>2. Holding(w, x)' = Holding(r, x)
      BY <1>16, <1>17, <2>1, <3>1
    <3> QED BY <1>14, <3>2
  <2>2. CASE x = n /\ Creating(r)
    <3>1. r.quantity - 0 = r.quantity
      BY <1>2 DEF Allowed, Typed, Fits, Fields
    <3>2. Base(n)' = Notional(r.price, r.quantity)
      BY <1>10, <1>11, <2>2, <3>1 DEF Base, IsOpen, Remaining, Creating, Notional
    <3>3. r.lock = Notional(r.price, r.quantity)
      BY <1>2, <2>2 DEF Knows, LimitKnows, Creating
    <3>4. Holding(w, x)' = Holding(r, x)
      BY <1>7, <1>16, <1>17, <2>2, <3>2, <3>3 DEF Creating
    <3> QED BY <1>14, <3>4
  <2>3. CASE x = n /\ ~ Creating(r)
    <3>1. Holding(w, n)' = 0
      <4>1. CASE r.kind = "market"
        BY <1>7, <1>16, <4>1
      <4>2. CASE r.kind = "limit"
        <5>1. ~ r.bid
          BY <1>2, <2>3, <4>2 DEF Creating
        <5> QED BY <1>7, <1>11, <1>16, <4>2, <5>1 DEF Base
      <4> QED BY <1>2, <4>1, <4>2
    <3> QED BY <1>14, <2>3, <3>1
  <2> QED BY <2>1, <2>2, <2>3
<1>19. Held(w)' <= Held(r) /\ Held(w)' \in Nat /\ Held(r) \in Nat
  BY <1>14, <1>15, <1>18, HeldStays, HeldCovers
<1>20. wallet.locked \in Nat /\ wallet.balance \in Nat
  BY <1>2 DEF StateOK, WalletOK
<1>21. Held(w)' <= wallet'.locked
  BY <1>2, <1>19, <1>20 DEF Secured
<1>22. OnlyLimits(w)' => OnlyLimits(r)
  <2> SUFFICES ASSUME OnlyLimits(w)', NEW x \in Rows, IsRow(x), orders[x].kind = "MARKET" PROVE FALSE
    BY DEF OnlyLimits
  <2>1. x # n
    BY <1>12
  <2>2. IsRow(x)' /\ orders'[x].kind = "MARKET" /\ x \in Rows'
    BY <1>9, <2>1 DEF IsRow, Rows
  <2>3. w.row = x
    BY <2>2 DEF OnlyLimits
  <2> QED BY <1>8, <2>1, <2>3
<1>23. Owing(r) = 0 /\ Owing(w) = 0 /\ ~ Unlocking(w)
  BY <1>2, <1>7 DEF Owing, Unlocking
<1>24. Reserving(w) => Reserving(r)
  BY <1>2, <1>7 DEF Reserving
<1>25. Secured(w)'
  BY <1>2, <1>7, <1>20, <1>21, <1>22, <1>23, <1>24 DEF Secured, Owing, Unlocking, Reserving
<1> QED BY <1>6, <1>25, SecureStep

\* A market order never holds anything.
LEMMA PlaceMarketSecure ==
    ASSUME OneAtATime, Undisturbed, Undisturbed', Secure, NEW t \in Threads, PlaceMarket(t)
    PROVE  Secure'
<1>1. PICK r : r = req[t]
  OBVIOUS
<1>2. /\ StateOK /\ StateOK' /\ Allowed(r) /\ RequestReal(r) /\ Knows(r) /\ Secured(r)
      /\ r.pc = "place" /\ r.kind = "market"
      /\ UNCHANGED <<wallet, withdrawn, orders, lastRow>>
  BY <1>1 DEF Undisturbed, StateOK, ReqOK, Real, Known, Secure, PlaceMarket, db
<1>3. PICK w : w = req'[t]
  OBVIOUS
<1>4. w.kind = "market" /\ w.row = r.row /\ w.pc \in {"debit", "update", "delete"}
  <2>1. ASSUME NEW f, Set(t, f), DOMAIN f \cap {"kind", "row"} = {}, "pc" \in DOMAIN f
        PROVE  w.kind = "market" /\ w.row = r.row /\ w.pc = f.pc
    <3>1. "kind" \notin DOMAIN f /\ "row" \notin DOMAIN f
      BY <2>1
    <3> QED BY <1>1, <1>2, <1>3, <2>1, <3>1, SetTo
  <2>2. CASE Set(t, [pc |-> "delete"])
    <3>1. PICK f : f = [pc |-> "delete"]
      OBVIOUS
    <3>2. Set(t, f) /\ DOMAIN f = {"pc"} /\ f.pc = "delete"
      BY <2>2, <3>1
    <3> QED BY <2>1, <3>2
  <2>3. CASE ~ Set(t, [pc |-> "delete"])
    <3>1. PICK f : /\ Set(t, f) /\ f.pc \in {"debit", "update"}
                   /\ DOMAIN f = {"pc", "filled", "notional", "debit", "unlock", "status"}
      BY <2>3 DEF PlaceMarket
    <3> QED BY <2>1, <3>1
  <2> QED BY <2>2, <2>3
<1>5. Placing(r) /\ Placing(w) /\ ~ Unlocking(w) /\ ~ Reserving(w) /\ Owing(w) = 0 /\ Owing(r) = 0
  BY <1>2, <1>4 DEF Placing, Unlocking, Reserving, Owing
<1>6. \A x : Holding(w, x) = Holding(r, x)
  BY <1>2, <1>4, <1>5, PlacingHolds
<1>7. Held(w)' = Held(r)
  <2>1. \A x : Holding(w, x)' = Holding(w, x)
    BY <1>2 DEF Holding, Creating, Released, Settled, Target, InSync, Placing, IsOpen, Notional
  <2>2. [x \in Rows |-> Holding(w, x)]' = [x \in Rows |-> Holding(r, x)]
    BY <1>6, <2>1 DEF Rows
  <2> QED BY <2>2 DEF Held, Rows
<1>8. OnlyLimits(w)' => OnlyLimits(r)
  <2> SUFFICES ASSUME OnlyLimits(w)', NEW x \in Rows, IsRow(x), orders[x].kind = "MARKET"
               PROVE  r.row = x
    BY <1>2 DEF OnlyLimits
  <2>1. IsRow(x)' /\ orders'[x].kind = "MARKET" /\ x \in Rows'
    BY <1>2 DEF IsRow, Rows
  <2> QED BY <1>4, <2>1 DEF OnlyLimits
<1>9. Secured(w)'
  BY <1>2, <1>4, <1>5, <1>7, <1>8 DEF Secured, Owing, Unlocking, Reserving
<1> QED BY <1>3, <1>9, SecureStep

LEMMA DeleteSecure ==
    ASSUME OneAtATime, Undisturbed, Undisturbed', Secure, NEW t \in Threads, DeleteByEngineOrderID(t)
    PROVE  Secure'
<1>1. PICK r : r = req[t]
  OBVIOUS
<1>2. /\ StateOK /\ StateOK' /\ Allowed(r) /\ RequestReal(r) /\ Secured(r)
      /\ r.pc = "delete" /\ r.kind = "market" /\ Placing(r)
      /\ UNCHANGED <<wallet, withdrawn, lastRow>>
  BY <1>1 DEF Undisturbed, StateOK, ReqOK, Real, Secure, DeleteByEngineOrderID, Allowed, Control, At, Placing
<1>3. PICK w : w = Idle
  OBVIOUS
<1>4. req'[t] = w
  BY <1>2, <1>3, Moved DEF DeleteByEngineOrderID
<1>5. PICK n \in Rows : n = r.row
  BY <1>2 DEF RequestReal, PlacingReal
<1>6. orders'[n] = NoRow /\ \A x \in Rows \ {n} : orders'[x] = orders[x]
  BY <1>1, <1>2, <1>5 DEF DeleteByEngineOrderID, StateOK
<1>7. HeldWithin
  BY HoldingBounds DEF Undisturbed
<1>8. \A x \in Rows : Holding(r, x) \in Nat /\ Holding(r, x) = IF x = n THEN 0 ELSE Base(x)
  BY <1>1, <1>2, <1>5, <1>7, PlacingHolds DEF HeldWithin
<1>9. \A x \in Rows : Holding(w, x)' = Holding(r, x)
  <2> SUFFICES ASSUME NEW x \in Rows PROVE Holding(w, x)' = Holding(r, x)
    OBVIOUS
  <2>1. Holding(w, x)' = Base(x)'
    BY <1>3, IdleIs DEF Plain, Holding, Base, Creating, Released, Settled, Placing, Remaining, IsOpen, Notional
  <2>2. CASE x = n
    <3>1. ~ IsOpen(NoRow)
      BY DEF NoRow, IsOpen
    <3>2. Base(x)' = 0
      BY <1>6, <2>2, <3>1 DEF Base, IsOpen
    <3> QED BY <1>8, <2>1, <2>2, <3>2
  <2>3. CASE x # n
    <3>1. Base(x)' = Base(x)
      BY <1>6, <2>3 DEF Base, IsOpen, Remaining, Notional
    <3> QED BY <1>8, <2>1, <2>3, <3>1
  <2> QED BY <2>2, <2>3
<1>10. Held(w)' <= Held(r) /\ Held(w)' \in Nat /\ Held(r) \in Nat
  <2>1. \A x \in Rows : Holding(w, x)' \in Nat /\ Holding(w, x)' <= Holding(r, x)
    BY <1>8, <1>9
  <2> QED BY <1>8, <2>1, HeldStays, HeldCovers
<1>11. wallet.locked \in Nat
  BY <1>2 DEF StateOK, WalletOK
<1>12. Held(w)' <= wallet'.locked
  BY <1>2, <1>10, <1>11 DEF Secured
<1>13. OnlyLimits(w)' => OnlyLimits(r)
  <2> SUFFICES ASSUME OnlyLimits(w)', NEW x \in Rows, IsRow(x), orders[x].kind = "MARKET", x # n
               PROVE  FALSE
    BY <1>2, <1>5 DEF OnlyLimits
  <2>1. IsRow(x)' /\ orders'[x].kind = "MARKET" /\ x \in Rows'
    BY <1>6 DEF IsRow, Rows
  <2> QED BY <1>3, <2>1, IdleIs DEF OnlyLimits
<1>14. Owing(r) = 0
  BY <1>2 DEF Owing, Unlocking
<1>15. Secured(w)'
  BY <1>2, <1>3, <1>12, <1>13, <1>14, IdleIs DEF Secured, Owing, Unlocking, Reserving
<1> QED BY <1>4, <1>15, SecureStep

\* A handler that unlocks next, or writes the row.
LEMMA UnlocksNext ==
    ASSUME StateOK, StateOK', NEW t \in Threads, NEW r, r = req[t], NEW a \in Nat, NEW next,
           Set(t, UnlockUpTo(a, next))
    PROVE  LET w == req'[t]
           IN  /\ Allowed(w) /\ w.kind = r.kind /\ w.row = r.row /\ w.bid = r.bid /\ w.todo = r.todo
               /\ w.price = r.price /\ w.filled = r.filled
               /\ w.pc = (IF a > 0 THEN "unlockRead" ELSE next) /\ w.next = next
               /\ a > 0 => w.amount = a
<1>1. PICK f : f = UnlockUpTo(a, next)
  OBVIOUS
<1>2. /\ DOMAIN f \subseteq {"pc", "amount", "next"} /\ "pc" \in DOMAIN f /\ "next" \in DOMAIN f
      /\ f.pc = (IF a > 0 THEN "unlockRead" ELSE next) /\ f.next = next
      /\ a > 0 => "amount" \in DOMAIN f /\ f.amount = a
  BY <1>1 DEF UnlockUpTo
<1>3. PICK w : w = req'[t]
  OBVIOUS
<1>4. /\ "kind" \notin DOMAIN f /\ "row" \notin DOMAIN f /\ "bid" \notin DOMAIN f
      /\ "todo" \notin DOMAIN f /\ "price" \notin DOMAIN f /\ "filled" \notin DOMAIN f
  BY <1>2
<1>5. /\ w = With(r, f) /\ Allowed(w) /\ Allowed(r) /\ w.kind = r.kind /\ w.pc = f.pc
      /\ w.row = r.row /\ w.bid = r.bid /\ w.todo = r.todo
  BY <1>1, <1>2, <1>3, <1>4, SetTo
<1>6. DOMAIN r = Fields
  BY <1>5 DEF Allowed, Typed
<1>7. w.price = r.price /\ w.next = f.next
  BY <1>2, <1>4, <1>5, <1>6, WithControl
<1>8. w.filled = r.filled /\ (a > 0 => w.amount = f.amount)
  BY <1>2, <1>4, <1>5, <1>6, WithLocals
<1> QED BY <1>2, <1>3, <1>5, <1>7, <1>8

\* A debit takes from the balance no more than it leaves to be unlocked, and a limit
\* order's is never refused: its lock is part of the balance.
LEMMA DebitSecure ==
    ASSUME OneAtATime, Undisturbed, Undisturbed', Secure, NEW t \in Threads, DebitWallet(t)
    PROVE  Secure'
<1>1. PICK r : r = req[t]
  OBVIOUS
<1>2. /\ StateOK /\ StateOK' /\ Allowed(r) /\ RequestReal(r) /\ Knows(r) /\ Secured(r)
      /\ r.pc = "debit" /\ UNCHANGED <<withdrawn, orders, lastRow>>
  BY <1>1 DEF Undisturbed, StateOK, ReqOK, Real, Known, Secure, DebitWallet
<1>3. PICK w : w = req'[t]
  OBVIOUS
<1>4. PICK d \in Nat, u \in Nat, b \in Nat, l \in Nat :
         d = r.debit /\ u = r.unlock /\ b = wallet.balance /\ l = wallet.locked
  BY <1>2 DEF Allowed, Typed, Fits, Fields, StateOK, WalletOK
<1>5. ~ Unlocking(r) /\ Owing(r) = 0
  BY <1>2 DEF Owing, Unlocking
<1>6. ASSUME b >= d
      PROVE  wallet'.balance = b - d /\ wallet'.locked = l /\ Set(t, UnlockUpTo(u, "update"))
    BY <1>1, <1>2, <1>4, <1>6, WalletIs DEF DebitWallet, StateOK
<1>7. ASSUME b >= d, d <= u, r.kind # "market", r.kind = "limit" => u = Notional(r.price, r.filled)
      PROVE  Secure'
  <2>1. /\ Allowed(w) /\ w.kind = r.kind /\ w.price = r.price /\ w.filled = r.filled
        /\ w.pc = (IF u > 0 THEN "unlockRead" ELSE "update") /\ w.next = "update"
        /\ u > 0 => w.amount = u
    BY <1>1, <1>2, <1>3, <1>6, <1>7, UnlocksNext
  <2>2. Plain(r) /\ ~ Creating(w) /\ ~ Reserving(w) /\ w.pc \notin {"release", "place", "delete"}
    BY <1>2, <1>7, <2>1 DEF Plain, Creating, Reserving
  <2>3. Held(w)' <= Held(r) /\ Held(w)' \in Nat
    BY <1>1, <1>2, <1>3, <2>2, HeldSame
  <2>4. Held(r) \in Nat
    BY <1>1, HeldCovers, HoldingBounds DEF Undisturbed, HeldWithin
  <2>5. Held(w)' <= wallet'.locked
    BY <1>2, <1>4, <1>6, <1>7, <2>3, <2>4 DEF Secured
  <2>6. w.kind = "limit" /\ Unlocking(w) => w.amount <= Notional(w.price, w.filled)
    BY <1>4, <1>7, <2>1 DEF Unlocking
  <2>7. OnlyLimits(w)' => OnlyLimits(r)
    BY <1>2, <2>2 DEF OnlyLimits, IsRow, Rows
  <2>8. Owing(w) = u
    BY <1>4, <2>1 DEF Owing, Unlocking
  <2>9. ~withdrawn' /\ OnlyLimits(w)' => wallet'.locked <= wallet'.balance + Owing(w)
    <3> SUFFICES ASSUME ~withdrawn', OnlyLimits(w)' PROVE wallet'.locked <= wallet'.balance + Owing(w)
      OBVIOUS
    <3>1. l <= b
      BY <1>2, <1>4, <1>5, <2>7 DEF Secured
    <3> QED BY <1>4, <1>6, <1>7, <2>8, <3>1
  <2>10. Secured(w)'
    BY <2>2, <2>5, <2>6, <2>9 DEF Secured, Owing, Unlocking, Reserving, Notional
  <2> QED BY <1>3, <2>10, SecureStep
<1>8. CASE r.kind = "limit"
  <2>1. r.bid /\ u = Notional(r.price, r.filled) /\ d <= u /\ Placing(r) /\ Target(r) = r.row
    BY <1>2, <1>4, <1>8 DEF Knows, LimitKnows, Placing, Target, InSync
  <2>2. PICK x \in Rows : x = r.row
    BY <1>2, <2>1 DEF RequestReal, PlacingReal
  <2>3. orders[x].status = "OPEN" /\ orders[x].filled = 0 /\ orders[x].bid /\ orders[x].price = r.price
    BY <1>2, <2>1, <2>2 DEF RequestReal, PlacingReal, Knows, PlacingKnows
  <2>4. PICK p \in Nat, q \in Nat, f \in Nat : p = r.price /\ q = orders[x].quantity /\ f = r.filled
    BY <1>2 DEF Allowed, Typed, Fits, Fields, StateOK, RowSet
  <2>5. f <= q
    BY <1>1, <1>2, <2>1, <2>2, <2>4, WithinSize DEF WritesBetween, Undisturbed
  <2>6. Base(x) = Notional(p, q)
    BY <2>3, <2>4 DEF Base, IsOpen, Remaining
  <2>7. Notional(p, f) <= Notional(p, q) /\ Notional(p, f) \in Nat /\ Notional(p, q) \in Nat
    <3>1. Notional(p, f) <= Notional(p, q)
      BY <2>5, NotionalGrows
    <3> QED BY <3>1, NotionalNat
  <2>8. Plain(r)
    BY <1>2, <1>8 DEF Plain, Creating
  <2>9. Holding(r, x) = Base(x) /\ Holding(r, x) <= Held(r) /\ Held(r) \in Nat
    BY <1>1, <2>8, PlainHolds, HeldCovers, HoldingBounds DEF Undisturbed, HeldWithin
  <2>10. Held(r) <= l /\ l <= b
    BY <1>2, <1>4, <1>8, <2>1 DEF Secured, Reserving
  <2>11. u = Notional(p, f)
    BY <2>1, <2>4
  <2>12. b >= d
    BY <2>1, <2>6, <2>7, <2>9, <2>10, <2>11
  <2> QED BY <1>7, <1>8, <2>1, <2>12
<1>9. CASE r.kind = "market"
  <2>1. u = 0 /\ Placing(r)
    BY <1>2, <1>4, <1>9 DEF Allowed, Control, Placing
  <2>2. w.kind = "market" /\ w.row = r.row /\ w.pc = "update" /\ wallet'.locked = l
    <3>1. CASE b >= d
      <4>1. Set(t, UnlockUpTo(u, "update"))
        BY <1>6, <3>1
      <4>2. w.kind = r.kind /\ w.row = r.row /\ w.pc = (IF u > 0 THEN "unlockRead" ELSE "update")
        BY <1>1, <1>2, <1>3, <4>1, UnlocksNext
      <4> QED BY <1>6, <1>9, <2>1, <3>1, <4>2
    <3>2. CASE ~ (b >= d)
      <4>1. PICK f : f = [pc |-> "update"]
        OBVIOUS
      <4>2. DOMAIN f = {"pc"} /\ f.pc = "update"
        BY <4>1
      <4>3. OnError(r) = With(r, f)
        BY <1>2, <1>9, <4>1 DEF OnError, InSync
      <4>4. Set(t, f) /\ UNCHANGED wallet
        BY <1>1, <1>2, <1>4, <3>2, <4>3 DEF DebitWallet, Set
      <4> QED BY <1>1, <1>2, <1>3, <1>4, <1>9, <4>2, <4>4, SetTo
    <3> QED BY <3>1, <3>2
  <2>3. Placing(w) /\ ~ Unlocking(w) /\ ~ Reserving(w)
    BY <2>2 DEF Placing, Unlocking, Reserving
  <2>4. \A x : Holding(w, x) = Holding(r, x)
    BY <1>9, <2>1, <2>2, <2>3, PlacingHolds
  <2>5. Held(w)' = Held(r)
    <3>1. \A x : Holding(w, x)' = Holding(w, x)
      BY <1>2 DEF Holding, Creating, Released, Settled, Target, InSync, Placing, IsOpen, Notional
    <3>2. [x \in Rows |-> Holding(w, x)]' = [x \in Rows |-> Holding(r, x)]
      BY <2>4, <3>1 DEF Rows
    <3> QED BY <3>2 DEF Held, Rows
  <2>6. ~ OnlyLimits(w)'
    <3>1. PICK x \in Rows : x = r.row
      BY <1>2, <2>1 DEF RequestReal, PlacingReal
    <3>2. orders[x].status = "OPEN" /\ orders[x].kind = "MARKET"
      BY <1>2, <1>9, <2>1, <3>1 DEF RequestReal, PlacingReal, Knows, PlacingKnows
    <3>3. IsRow(x)' /\ orders'[x].kind = "MARKET" /\ x \in Rows'
      BY <1>2, <3>2 DEF IsRow, Rows
    <3> QED BY <2>2, <3>3 DEF OnlyLimits
  <2>7. Secured(w)'
    BY <1>2, <1>4, <2>2, <2>3, <2>5, <2>6 DEF Secured, Unlocking, Reserving
  <2> QED BY <1>3, <2>7, SecureStep
<1>10. CASE r.kind \in {"sync", "cancel"}
  <2>1. InLoop(r) /\ InSync(r) /\ d = u
    <3>1. InLoop(r) /\ InSync(r)
      BY <1>2, <1>10 DEF InLoop, InSync
    <3> QED BY <1>2, <1>4, <3>1 DEF Knows, HeadKnows
  <2>2. CASE b >= d
    BY <1>4, <1>7, <1>10, <2>1, <2>2
  <2>3. CASE ~ (b >= d)
    <3>1. Become(t, NextOrder(r)) /\ UNCHANGED wallet
      BY <1>1, <1>2, <1>4, <1>10, <2>1, <2>3 DEF DebitWallet, OnError
    <3>2. w = NextOrder(r) /\ Allowed(w)
      BY <1>2, <1>3, <3>1, Moved
    <3>3. w.kind \in {"sync", "cancel"}
      BY <1>2, <1>10, <3>2, NextOrderKind DEF Allowed, Typed
    <3>4. w.pc \notin {"create", "release", "place", "delete"} /\ ~ Creating(w) /\ ~ Reserving(w)
      BY <3>2, <3>3 DEF Allowed, Control, At, Creating, Reserving
    <3>5. Plain(r)
      BY <1>2, <1>10 DEF Plain, Creating
    <3>6. Secured(w)'
      BY <1>1, <1>2, <1>3, <1>5, <3>1, <3>3, <3>4, <3>5, SecuredQuietly
    <3> QED BY <1>3, <3>6, SecureStep
  <2> QED BY <2>2, <2>3
<1> QED BY <1>2, <1>8, <1>9, <1>10 DEF Allowed, Control, At

LEMMA UnlockReadSecure ==
    ASSUME OneAtATime, Undisturbed, Undisturbed', Secure, NEW t \in Threads, UnlockRead(t)
    PROVE  Secure'
<1>1. PICK r : r = req[t]
  OBVIOUS
<1>2. /\ StateOK /\ StateOK' /\ Allowed(r) /\ Secured(r) /\ Unlocking(r)
      /\ r.pc = "unlockRead" /\ UNCHANGED <<wallet, withdrawn, orders, lastRow>>
  BY <1>1 DEF Undisturbed, StateOK, ReqOK, Secure, UnlockRead, Unlocking, db
<1>3. PICK w : w = req'[t]
  OBVIOUS
<1>4. PICK m \in Nat, l \in Nat, b \in Nat : m = r.amount /\ l = wallet.locked /\ b = wallet.balance
  BY <1>2 DEF Allowed, Typed, Fits, Fields, StateOK, WalletOK
<1>5. PICK a \in Nat : a = Min({m, l}) /\ a <= m /\ (m <= l => a = m)
  <2>1. PICK i \in Int, j \in Int : i = m /\ j = l
    OBVIOUS
  <2>2. LET a == Min({i, j}) IN a \in {i, j} /\ a <= i /\ a <= j
    BY MinOfTwo, Zenon
  <2> QED BY <2>1, <2>2
<1>6. PICK f : f = [pc |-> IF a > 0 THEN "unlockWrite" ELSE r.next, amount |-> a]
  OBVIOUS
<1>7. Set(t, f)
  BY <1>1, <1>4, <1>5, <1>6 DEF UnlockRead
<1>8. DOMAIN f = {"pc", "amount"} /\ f.pc = (IF a > 0 THEN "unlockWrite" ELSE r.next) /\ f.amount = a
  BY <1>6
<1>9. /\ w = With(r, f) /\ Allowed(w) /\ w.kind = r.kind /\ w.pc = f.pc /\ DOMAIN r = Fields
  BY <1>1, <1>2, <1>3, <1>7, <1>8, SetTo DEF Allowed, Typed
<1>10. w.price = r.price /\ w.next = r.next
  BY <1>8, <1>9, WithControl
<1>11. w.filled = r.filled /\ w.amount = a
  BY <1>8, <1>9, WithLocals
<1>12. r.next \in {"update", "mark"} /\ r.kind # "market" /\ (r.next = "mark" => r.kind = "cancel")
  BY <1>2 DEF Allowed, Control, At
<1>13. w.pc \in {"unlockWrite", "update", "mark"}
  BY <1>8, <1>9, <1>12
<1>14. Plain(r) /\ ~ Creating(w) /\ ~ Reserving(w) /\ w.pc \notin {"release", "place", "delete"}
  BY <1>2, <1>12, <1>13 DEF Plain, Creating, Reserving
<1>15. Held(w)' <= Held(r) /\ Held(w)' \in Nat
  BY <1>1, <1>2, <1>3, <1>14, HeldSame
<1>16. \A x \in Rows : Holding(r, x) = Base(x) /\ Holding(r, x) <= Held(r) /\ Base(x) \in Nat
  BY <1>1, <1>14, PlainHolds, HeldCovers, HoldingBounds DEF Undisturbed, HeldWithin
<1>17. Held(r) \in Nat /\ Held(r) <= l
  BY <1>1, <1>2, <1>4, HeldCovers, HoldingBounds DEF Undisturbed, HeldWithin, Secured
<1>18. Owing(r) = Owing(w)
  <2>1. CASE r.next = "update"
    <3>1. PICK x : x = Target(r)
      OBVIOUS
    <3>2. /\ x \in Rows /\ orders[x].filled <= r.filled /\ r.filled <= orders[x].quantity
          /\ m + Notional(orders[x].price, orders[x].quantity - r.filled) <= Base(x)
      BY <1>1, <1>2, <1>4, <2>1, <3>1, PaysFor
    <3>3. PICK p \in Nat, e \in Nat : p = orders[x].price /\ e = orders[x].quantity - r.filled
      <4>1. r.filled \in Nat
        BY <1>2 DEF Allowed, Typed, Fits, Fields
      <4>2. orders[x] \in RowSet
        BY <1>2, <3>2, RowTyped
      <4>3. orders[x].price \in Nat /\ orders[x].quantity \in Nat
        BY <4>2 DEF RowSet
      <4> QED BY <3>2, <4>1, <4>3
    <3>4. Notional(p, e) \in Nat
      BY NotionalNat
    <3>5. m <= l
      BY <1>16, <1>17, <3>2, <3>3, <3>4
    <3>6. Owing(r) = m
      BY <1>2, <1>4, <2>1 DEF Owing
    <3>7. Owing(w) = m
      BY <1>5, <1>8, <1>9, <1>10, <1>11, <2>1, <3>5 DEF Owing, Unlocking
    <3> QED BY <3>6, <3>7
  <2>2. CASE r.next = "mark"
    BY <1>10, <2>2 DEF Owing
  <2> QED BY <1>12, <2>1, <2>2
<1>19. OnlyLimits(w)' => OnlyLimits(r)
  BY <1>2, <1>14 DEF OnlyLimits, IsRow, Rows
<1>20. w.kind = "limit" /\ Unlocking(w) => w.amount <= Notional(w.price, w.filled)
  <2> SUFFICES ASSUME w.kind = "limit" PROVE w.amount <= Notional(w.price, w.filled)
    OBVIOUS
  <2>1. r.amount <= Notional(r.price, r.filled)
    BY <1>2, <1>9 DEF Secured
  <2>2. PICK p \in Nat, f1 \in Nat : p = r.price /\ f1 = r.filled
    BY <1>2 DEF Allowed, Typed, Fits, Fields
  <2>3. PICK n \in Nat : n = Notional(p, f1)
    BY NotionalNat
  <2> QED BY <1>4, <1>5, <1>10, <1>11, <2>1, <2>2, <2>3
<1>21. Held(w)' <= wallet'.locked
  BY <1>2, <1>4, <1>15, <1>17
<1>22. ~withdrawn' /\ OnlyLimits(w)' => wallet'.locked <= wallet'.balance + Owing(w)
  BY <1>2, <1>18, <1>19 DEF Secured
<1>23. Secured(w)'
  BY <1>14, <1>20, <1>21, <1>22 DEF Secured, Owing, Unlocking, Reserving, Notional
<1> QED BY <1>3, <1>23, SecureStep

\* What is unlocked is no longer held of the row that is about to be written.
LEMMA UnlockWriteSecure ==
    ASSUME OneAtATime, Undisturbed, Undisturbed', Secure, NEW t \in Threads, UnlockWrite(t)
    PROVE  Secure'
<1>1. PICK r : r = req[t]
  OBVIOUS
<1>2. /\ StateOK /\ StateOK' /\ Allowed(r) /\ RequestReal(r) /\ Knows(r) /\ Secured(r) /\ Unlocking(r)
      /\ r.pc = "unlockWrite" /\ UNCHANGED <<withdrawn, orders, lastRow>>
  BY <1>1 DEF Undisturbed, StateOK, ReqOK, Real, Known, Secure, UnlockWrite, Unlocking
<1>3. PICK w : w = req'[t]
  OBVIOUS
<1>4. PICK m \in Nat, l \in Nat, b \in Nat : m = r.amount /\ l = wallet.locked /\ b = wallet.balance
  BY <1>2 DEF Allowed, Typed, Fits, Fields, StateOK, WalletOK
<1>5. m <= l
  BY <1>2, <1>4 DEF RequestReal
<1>6. PICK f : f = [pc |-> r.next]
  OBVIOUS
<1>7. Set(t, f) /\ wallet'.locked = l - m /\ wallet'.balance = b
  BY <1>1, <1>2, <1>4, <1>5, <1>6, WalletIs DEF UnlockWrite, CanUnlock, StateOK
<1>8. DOMAIN f = {"pc"} /\ f.pc = r.next
  BY <1>6
<1>9. /\ w = With(r, f) /\ Allowed(w) /\ w.kind = r.kind /\ w.pc = r.next /\ w.row = r.row
      /\ w.todo = r.todo /\ DOMAIN r = Fields
  BY <1>1, <1>2, <1>3, <1>7, <1>8, SetTo DEF Allowed, Typed
<1>10. w.filled = r.filled
  BY <1>8, <1>9, WithLocals
<1>11. r.next \in {"update", "mark"} /\ r.kind \in {"limit", "sync", "cancel"} /\ (r.next = "mark" => r.kind = "cancel")
  BY <1>2 DEF Allowed, Control, At
<1>12. Plain(r) /\ ~ Creating(w) /\ ~ Reserving(w) /\ w.pc \notin {"release", "place", "delete"}
       /\ ~ Unlocking(w) /\ Owing(w) = 0
  BY <1>2, <1>9, <1>11 DEF Plain, Creating, Reserving, Unlocking, Owing
<1>13. HeldWithin /\ HeldWithin'
  BY HoldingBounds, HoldingBoundsNext DEF Undisturbed
<1>14. \A x \in Rows : Holding(r, x) \in Nat /\ Holding(r, x) = Base(x)
  BY <1>1, <1>12, <1>13, PlainHolds DEF HeldWithin
<1>15. \A x \in Rows : Holding(w, x)' = Holding(w, x) /\ Base(x)' = Base(x)
  BY <1>2 DEF Holding, Creating, Released, Settled, Target, InSync, Placing, IsOpen, Notional, Base, Remaining
<1>16. \A x \in Rows : Holding(w, x)' \in Nat /\ Holding(w, x)' <= Holding(r, x)
  <2> SUFFICES ASSUME NEW x \in Rows PROVE Holding(w, x)' \in Nat /\ Holding(w, x)' <= Holding(r, x)
    OBVIOUS
  <2>1. x \in Rows'
    BY DEF Rows
  <2>2. Holding(req[t], x)' \in Nat /\ (~ Creating(req'[t]) => Holding(req[t], x)' <= Base(x)')
    BY <1>13, <2>1 DEF HeldWithin, Creating
  <2>3. Holding(req[t], x)' = Holding(w, x)'
    BY <1>3 DEF Holding, Creating, Released, Settled, Target, InSync, Placing, IsOpen, Notional
  <2> QED BY <1>3, <1>12, <1>14, <1>15, <2>2, <2>3
<1>17. PICK y \in Rows : Holding(w, y)' + m <= Holding(r, y)
  <2>1. CASE r.next = "update"
    <3>1. PICK x : x = Target(r)
      OBVIOUS
    <3>2. /\ x \in Rows /\ IsOpen(orders[x]) /\ orders[x].bid
          /\ m + Notional(orders[x].price, orders[x].quantity - r.filled) <= Base(x)
      BY <1>1, <1>2, <1>4, <2>1, <3>1, PaysFor
    <3>3. w.pc = "update" /\ Target(w) = x
      BY <1>2, <1>9, <1>11, <2>1, <3>1 DEF Target, InSync
    <3>4. Settled(w, x) = r.filled /\ ~ Released(w, x)
      BY <1>9, <1>10, <1>11, <3>2, <3>3 DEF Settled, Released
    <3>5. Holding(w, x) = Notional(orders[x].price, orders[x].quantity - r.filled)
      BY <1>12, <3>4 DEF Holding
    <3>6. PICK h \in Nat, v \in Nat : h = Holding(w, x) /\ v = Base(x)
      BY <1>14, <1>15, <1>16, <3>2
    <3>7. m + h <= v
      BY <3>2, <3>5, <3>6
    <3> QED BY <1>14, <1>15, <3>2, <3>6, <3>7
  <2>2. CASE r.next = "mark"
    <3>1. PICK x \in Rows : x = r.row
      BY <1>2, <1>11, <2>2 DEF Allowed, Control, At
    <3>2. orders[x].bid /\ IsOpen(orders[x]) /\ m <= Notional(orders[x].price, Remaining(orders[x]))
      BY <1>2, <1>4, <1>11, <2>2, <3>1 DEF Knows, CancelKnows
    <3>3. m <= Base(x)
      BY <3>2 DEF Base
    <3>4. Holding(w, x) = 0
      BY <1>9, <1>12, <2>2, <3>1 DEF Holding, Released
    <3>5. Holding(w, x)' + m <= Holding(r, x)
      BY <1>14, <1>15, <3>3, <3>4
    <3> QED BY <3>5
  <2> QED BY <1>11, <2>1, <2>2
<1>18. Held(w)' + m <= Held(r)
  BY <1>14, <1>16, <1>17, HeldFalls
<1>19. Held(w)' \in Nat /\ Held(r) \in Nat
  BY <1>14, <1>16, HeldCovers, HeldNatNext
<1>20. Held(w)' <= wallet'.locked
  BY <1>2, <1>4, <1>5, <1>7, <1>18, <1>19 DEF Secured
<1>21. OnlyLimits(w)' => OnlyLimits(r)
  BY <1>2, <1>12 DEF OnlyLimits, IsRow, Rows
<1>22. Owing(r) \in Nat /\ Owing(r) <= m
  BY <1>4 DEF Owing
<1>23. ~withdrawn' /\ OnlyLimits(w)' => wallet'.locked <= wallet'.balance + Owing(w)
  <2> SUFFICES ASSUME ~withdrawn', OnlyLimits(w)' PROVE wallet'.locked <= wallet'.balance + Owing(w)
    OBVIOUS
  <2>1. l <= b + Owing(r)
    BY <1>2, <1>4, <1>21 DEF Secured
  <2> QED BY <1>4, <1>5, <1>7, <1>12, <1>22, <2>1
<1>24. Secured(w)'
  BY <1>12, <1>20, <1>23 DEF Secured, Owing, Unlocking, Reserving
<1> QED BY <1>3, <1>24, SecureStep

\* A row that is written holds what the handler had worked out that it would.
LEMMA UpdateSecure ==
    ASSUME OneAtATime, Undisturbed, Undisturbed', Secure, NEW t \in Threads, UpdateExecution(t)
    PROVE  Secure'
<1>1. PICK r : r = req[t]
  OBVIOUS
<1>2. /\ StateOK /\ StateOK' /\ Allowed(r) /\ RequestReal(r) /\ Knows(r) /\ Secured(r)
      /\ r.pc = "update" /\ UNCHANGED <<wallet, withdrawn, lastRow>>
  BY <1>1 DEF Undisturbed, StateOK, ReqOK, Real, Known, Secure, UpdateExecution
<1>3. PICK w : w = req'[t]
  OBVIOUS
<1>4. WritesBetween
  BY WithinSize DEF Undisturbed
<1>5. PICK n : n = Target(r)
  OBVIOUS
<1>6. n \in Rows /\ IsOpen(orders[n])
  BY <1>1, <1>2, <1>4, <1>5 DEF WritesBetween
<1>7. IsRow(n)
  BY <1>6 DEF IsRow, IsOpen
<1>8. orders' = [orders EXCEPT ![n] = With(@, [filled   |-> r.filled, notional |-> r.notional,
                                              status   |-> r.status])]
  BY <1>1, <1>5, <1>7 DEF UpdateExecution, Target
<1>9. /\ \A x \in Rows \ {n} : orders'[x] = orders[x]
      /\ orders'[n].price = orders[n].price /\ orders'[n].quantity = orders[n].quantity
      /\ orders'[n].kind = orders[n].kind /\ orders'[n].bid = orders[n].bid
      /\ orders'[n].filled = r.filled /\ orders'[n].status = r.status
  BY <1>2, <1>6, <1>7, <1>8, UpdatedRow
<1>10. w.kind \in {"none", "sync", "cancel"} /\ Allowed(w)
  <2>1. CASE InSync(r)
    <3>1. Become(t, NextOrder(r))
      BY <1>1, <2>1 DEF UpdateExecution
    <3>2. w = NextOrder(r) /\ Allowed(w)
      BY <1>2, <1>3, <3>1, Moved
    <3> QED BY <1>2, <2>1, <3>2, NextOrderKind DEF InSync, Allowed, Typed
  <2>2. CASE ~ InSync(r)
    <3>1. Become(t, Idle)
      BY <1>1, <2>2 DEF UpdateExecution
    <3>2. w = Idle /\ Allowed(w)
      BY <1>2, <1>3, <3>1, Moved
    <3> QED BY <3>2, IdleIs
  <2> QED BY <2>1, <2>2
<1>11. w.pc \in {"idle", "order"}
  <2>1. CASE InSync(r)
    <3>1. PICK f : f = [pc |-> "order", todo |-> Tail(r.todo)]
      OBVIOUS
    <3>2. "kind" \notin DOMAIN f /\ "pc" \in DOMAIN f /\ f.pc = "order" /\ Set(t, f)
      BY <1>1, <2>1, <3>1 DEF UpdateExecution, NextOrder, Set
    <3> QED BY <1>1, <1>2, <1>3, <3>2, SetTo
  <2>2. CASE ~ InSync(r)
    <3>1. Become(t, Idle)
      BY <1>1, <2>2 DEF UpdateExecution
    <3>2. w = Idle
      BY <1>2, <1>3, <3>1, Moved
    <3> QED BY <3>2, IdleIs
  <2> QED BY <2>1, <2>2
<1>12. Plain(w) /\ ~ Creating(w) /\ ~ Reserving(w) /\ ~ Unlocking(w) /\ Owing(w) = 0 /\ Owing(r) = 0
  BY <1>2, <1>10, <1>11 DEF Plain, Creating, Reserving, Unlocking, Owing
<1>13. HeldWithin /\ HeldWithin'
  BY HoldingBounds, HoldingBoundsNext DEF Undisturbed
<1>14. \A x \in Rows : Holding(r, x) \in Nat
  BY <1>1, <1>13 DEF HeldWithin
<1>15. \A x \in Rows : Holding(w, x)' = Base(x)'
  BY <1>12 DEF Plain, Holding, Base, Creating, Released, Settled, Placing, Remaining, IsOpen, Notional
<1>16. r.kind = "market" => n = r.row /\ r.status = "FILLED"
  BY <1>2, <1>5 DEF Target, InSync, Knows, MarketKnows
<1>17. \A x \in Rows : Holding(w, x)' <= Holding(r, x)
  <2> SUFFICES ASSUME NEW x \in Rows PROVE Holding(w, x)' <= Holding(r, x)
    OBVIOUS
  <2>1. CASE x # n
    <3>1. Base(x)' = Base(x)
      BY <1>9, <2>1 DEF Base, IsOpen, Remaining, Notional
    <3>2. Holding(r, x) = Base(x)
      BY <1>2, <1>5, <1>16, <2>1 DEF Holding, Base, Creating, Released, Settled, Remaining
    <3> QED BY <1>14, <1>15, <3>1, <3>2
  <2>2. CASE x = n /\ (r.status \notin {"OPEN", "PARTIALLY_FILLED"} \/ ~ orders[n].bid)
    <3>1. Base(n)' = 0
      BY <1>9, <2>2 DEF Base, IsOpen
    <3> QED BY <1>14, <1>15, <2>2, <3>1
  <2>3. CASE x = n /\ r.status \in {"OPEN", "PARTIALLY_FILLED"} /\ orders[n].bid
    <3>1. Base(n)' = Notional(orders[n].price, orders[n].quantity - r.filled)
      BY <1>9, <2>3 DEF Base, IsOpen, Remaining, Notional
    <3>2. ~ Released(r, n)
      BY <1>2, <1>6, <1>16, <2>3 DEF Released
    <3>3. Holding(r, n) = Notional(orders[n].price, orders[n].quantity - r.filled)
      BY <1>2, <1>5, <3>2 DEF Holding, Settled, Creating
    <3>4. Holding(w, n)' = Holding(r, n)
      BY <1>6, <1>15, <3>1, <3>3
    <3> QED BY <1>14, <2>3, <3>4
  <2> QED BY <2>1, <2>2, <2>3
<1>18. Held(w)' <= Held(r) /\ Held(w)' \in Nat /\ Held(r) \in Nat
  <2>1. \A x \in Rows : Holding(w, x)' \in Nat
    <3>1. \A x \in Rows : Base(x)' \in Nat
      BY <1>13 DEF HeldWithin, Rows
    <3> QED BY <1>15, <3>1
  <2> QED BY <1>14, <1>17, <2>1, HeldStays, HeldCovers
<1>19. wallet.locked \in Nat
  BY <1>2 DEF StateOK, WalletOK
<1>20. Held(w)' <= wallet'.locked
  BY <1>2, <1>18, <1>19 DEF Secured
<1>21. OnlyLimits(w)' => OnlyLimits(r)
  <2> SUFFICES ASSUME OnlyLimits(w)', NEW x \in Rows, IsRow(x), orders[x].kind = "MARKET" PROVE FALSE
    BY DEF OnlyLimits
  <2>1. ~ IsRow(x)'
    <3>1. orders'[x].kind = "MARKET" /\ x \in Rows'
      BY <1>9 DEF Rows
    <3> QED BY <1>10, <3>1 DEF OnlyLimits
  <2>2. x = n /\ r.status = "NONE"
    BY <1>9, <2>1 DEF IsRow
  <2>3. r.kind = "limit" \/ InLoop(r)
    BY <1>2, <1>16, <2>2 DEF InLoop, Allowed, Control, At
  <2>4. r.kind # "limit"
    BY <1>2, <1>5, <2>2 DEF RequestReal, PlacingReal, Placing, Target, InSync
  <2> QED BY <1>2, <2>2, <2>3, <2>4 DEF RequestReal, HeadReal
<1>22. Secured(w)'
  BY <1>2, <1>11, <1>12, <1>20, <1>21 DEF Secured, Owing, Unlocking, Reserving
<1> QED BY <1>3, <1>22, SecureStep

LEMMA MarkSecure ==
    ASSUME OneAtATime, Undisturbed, Undisturbed', Secure, NEW t \in Threads, MarkCancelled(t)
    PROVE  Secure'
<1>1. PICK r : r = req[t]
  OBVIOUS
<1>2. /\ StateOK /\ StateOK' /\ Allowed(r) /\ Secured(r)
      /\ r.pc = "mark" /\ UNCHANGED <<wallet, withdrawn, lastRow>>
  BY <1>1 DEF Undisturbed, StateOK, ReqOK, Secure, MarkCancelled
<1>3. PICK w : w = Idle
  OBVIOUS
<1>4. req'[t] = w
  BY <1>2, <1>3, Moved DEF MarkCancelled
<1>5. PICK n \in Rows : n = r.row /\ r.kind = "cancel"
  BY <1>2 DEF Allowed, Control, At
<1>6. PICK o \in RowSet : o = orders[n]
  BY <1>2, RowTyped
<1>7. PICK v : v = With(o, [status |-> "CANCELLED"])
  OBVIOUS
<1>8. v.status = "CANCELLED" /\ v.kind = o.kind
  BY <1>7, RowCancelled
<1>9. orders' = IF ~ IsRow(n) THEN orders ELSE [orders EXCEPT ![n] = v]
  BY <1>1, <1>5, <1>6, <1>7 DEF MarkCancelled
<1>10. /\ \A x \in Rows \ {n} : orders'[x] = orders[x]
       /\ ~ IsOpen(orders'[n]) /\ orders'[n].kind = orders[n].kind /\ (IsRow(n) => IsRow(n)')
  <2>1. CASE IsRow(n)
    <3>1. orders'[n] = v /\ \A x \in Rows \ {n} : orders'[x] = orders[x]
      BY <1>2, <1>9, <2>1 DEF StateOK
    <3> QED BY <1>6, <1>8, <3>1 DEF IsRow, IsOpen
  <2>2. CASE ~ IsRow(n)
    BY <1>9, <2>2 DEF IsRow, IsOpen
  <2> QED BY <2>1, <2>2
<1>11. HeldWithin
  BY HoldingBounds DEF Undisturbed
<1>12. \A x \in Rows : Holding(r, x) \in Nat
  BY <1>1, <1>11 DEF HeldWithin
<1>13. \A x \in Rows : Holding(w, x)' \in Nat /\ Holding(w, x)' <= Holding(r, x)
  <2> SUFFICES ASSUME NEW x \in Rows PROVE Holding(w, x)' \in Nat /\ Holding(w, x)' <= Holding(r, x)
    OBVIOUS
  <2>1. Holding(w, x)' = Base(x)'
    BY <1>3, IdleIs DEF Plain, Holding, Base, Creating, Released, Settled, Placing, Remaining, IsOpen, Notional
  <2>2. CASE x = n
    <3>1. Base(n)' = 0
      BY <1>10 DEF Base, IsOpen
    <3> QED BY <1>12, <2>1, <2>2, <3>1
  <2>3. CASE x # n
    <3>1. Base(x)' = Base(x)
      BY <1>10, <2>3 DEF Base, IsOpen, Remaining, Notional
    <3>2. Holding(r, x) = Base(x)
      BY <1>2, <1>5, <2>3 DEF Holding, Base, Creating, Released, Settled, Remaining
    <3> QED BY <1>12, <2>1, <3>1, <3>2
  <2> QED BY <2>2, <2>3
<1>14. Held(w)' <= Held(r) /\ Held(w)' \in Nat /\ Held(r) \in Nat
  BY <1>12, <1>13, HeldStays, HeldCovers
<1>15. wallet.locked \in Nat
  BY <1>2 DEF StateOK, WalletOK
<1>16. Held(w)' <= wallet'.locked
  BY <1>2, <1>14, <1>15 DEF Secured
<1>17. OnlyLimits(w)' => OnlyLimits(r)
  <2> SUFFICES ASSUME OnlyLimits(w)', NEW x \in Rows, IsRow(x), orders[x].kind = "MARKET" PROVE FALSE
    BY DEF OnlyLimits
  <2>1. IsRow(x)' /\ orders'[x].kind = "MARKET" /\ x \in Rows'
    BY <1>10 DEF IsRow, Rows
  <2> QED BY <1>3, <2>1, IdleIs DEF OnlyLimits
<1>18. Owing(r) = 0
  BY <1>2 DEF Owing, Unlocking
<1>19. Secured(w)'
  BY <1>2, <1>3, <1>16, <1>17, <1>18, IdleIs DEF Secured, Owing, Unlocking, Reserving
<1> QED BY <1>4, <1>19, SecureStep

\* Faults are counted and never forgotten.
LEMMA FaultsGrow ==
    ASSUME [Next]_vars, crashes \in Nat, failures \in Nat, crashes' = 0, failures' = 0
    PROVE  crashes = 0 /\ failures = 0 /\ ~ Crash /\ \A t \in Threads : ~ StatementFails(t)
<1>1. ~ Crash /\ \A t \in Threads : ~ StatementFails(t)
  BY DEF Crash, StatementFails
<1>2. ASSUME NEW t \in Threads, Handler(t) PROVE crashes' = crashes /\ failures' = failures
  <2>1. CASE \/ Deposit(t) \/ RequestWithdrawal(t) \/ Withdraw(t) \/ SubmitLimit(t)
             \/ LockAmount(t) \/ SubmitMarket(t) \/ ReadWallet(t) \/ Quote(t) \/ Create(t)
    BY <2>1 DEF Deposit, RequestWithdrawal, Withdraw, SubmitLimit, LockAmount, SubmitMarket,
       ReadWallet, Quote, Create, faults
  <2>2. CASE \/ Release(t) \/ PlaceLimit(t) \/ ReadSize(t) \/ ReadStatus(t) \/ PlaceMarket(t)
             \/ DeleteByEngineOrderID(t) \/ DebitWallet(t) \/ UnlockRead(t) \/ UnlockWrite(t)
    BY <2>2 DEF Release, PlaceLimit, ReadSize, ReadStatus, PlaceMarket, DeleteByEngineOrderID,
       DebitWallet, UnlockRead, UnlockWrite, faults
  <2>3. CASE \/ UpdateExecution(t) \/ StartSync(t) \/ ListOpenByUser(t) \/ StreamOrderBook(t)
             \/ SyncOrder(t) \/ GetByIDForUser(t) \/ CancelOrderByID(t) \/ MarkCancelled(t)
    BY <2>3 DEF UpdateExecution, StartSync, ListOpenByUser, StreamOrderBook, SyncOrder,
       GetByIDForUser, CancelOrderByID, MarkCancelled, faults
  <2> QED BY <1>1, <1>2, <2>1, <2>2, <2>3 DEF Handler
<1> QED BY <1>1, <1>2 DEF Next, OtherOrder, OtherCancel, vars, faults

\* Whatever leaves the wallet, the rows and the request alone.
LEMMA NothingMoves ==
    ASSUME Undisturbed, OneAtATime, Secure, UNCHANGED <<db, req>> PROVE Secure'
<1> SUFFICES ASSUME NEW t \in Threads PROVE Secured(req[t])'
  BY DEF Secure
<1>1. Secured(req[t])
  BY DEF Secure, Undisturbed
<1>2. UNCHANGED <<wallet, orders, lastRow, withdrawn, req>>
  BY DEF db
<1>3. Held(req[t])' = Held(req[t])
  BY <1>2 DEF Held, Holding, Creating, Released, Settled, Target, InSync, Placing, IsOpen, Notional, Rows
<1>4. OnlyLimits(req[t])' <=> OnlyLimits(req[t])
  BY <1>2 DEF OnlyLimits, IsRow, Rows
<1> QED BY <1>1, <1>2, <1>3, <1>4 DEF Secured, Owing, Reserving, Unlocking, Notional

LEMMA InitSecure == Init => Secure
<1> SUFFICES ASSUME Init, NEW t \in Threads PROVE Secured(req[t])
  BY DEF Secure
<1>1. req[t] = Idle /\ wallet.locked = 0 /\ wallet.balance = 0
  BY DEF Init
<1>2. \A x \in Rows : Holding(Idle, x) = 0
  <2> SUFFICES ASSUME NEW x \in Rows PROVE Holding(Idle, x) = 0
    OBVIOUS
  <2>1. orders[x] = NoRow
    BY DEF Init
  <2>2. ~ IsOpen(NoRow)
    BY DEF NoRow, IsOpen
  <2>3. Base(x) = 0
    BY <2>1, <2>2 DEF Base
  <2>4. Holding(Idle, x) = Base(x)
    BY IdleIs, PlainHolds
  <2> QED BY <2>3, <2>4
<1>3. Held(Idle) = 0
  <2>1. PICK f : f = [x \in Rows |-> Holding(Idle, x)]
    OBVIOUS
  <2>2. \A x \in Rows : f[x] = 0
    BY <1>2, <2>1
  <2>3. SumFunctionOnSet(f, Rows) = 0
    BY <2>2, RowsFinite, SumNat
  <2> QED BY <2>1, <2>3 DEF Held
<1> QED BY <1>1, <1>3, IdleIs DEF Secured

LEMMA NextSecure ==
    OneAtATime /\ StateOK /\ Real /\ Known /\ Secure /\ [Next]_vars => Secure'
<1> SUFFICES ASSUME OneAtATime, StateOK, Real, Known, Secure, [Next]_vars, crashes' = 0, failures' = 0
             PROVE  Secure'
  BY DEF Secure
<1>1. StateOK' /\ Real' /\ Known'
  BY NextOK, NextReal, NextKnown
<1>2. crashes = 0 /\ failures = 0 /\ ~ Crash /\ \A t \in Threads : ~ StatementFails(t)
  BY FaultsGrow DEF Known, Real
<1>3. Undisturbed /\ Undisturbed'
  BY <1>1, <1>2 DEF Undisturbed
<1>4. ASSUME NEW t \in Threads, Handler(t) PROVE Secure'
  <2>1. ~ Release(t)
    BY <1>3 DEF Release, Secure, Secured, Undisturbed
  <2> QED BY <1>2, <1>3, <1>4, <2>1, SyncSecure, PlacingSecure, DepositSecure, WithdrawSecure,
     LockAmountSecure, CreateSecure, PlaceMarketSecure, DeleteSecure, DebitSecure, UnlockReadSecure,
     UnlockWriteSecure, UpdateSecure, MarkSecure DEF Handler
<1>5. CASE UNCHANGED vars \/ OtherOrder \/ OtherCancel
  <2>1. UNCHANGED <<db, req>>
    BY <1>5 DEF vars, OtherOrder, OtherCancel
  <2> QED BY <1>3, <2>1, NothingMoves
<1> QED BY <1>2, <1>4, <1>5 DEF Next

LEMMA SecureAlways == ASSUME OneAtATime PROVE Spec => []Secure
<1>1. Init => Secure
  BY InitSecure
<1>2. StateOK /\ Real /\ Known /\ Secure /\ [Next]_vars => Secure'
  BY NextSecure
<1> QED BY <1>1, <1>2, StateAlwaysOK, RealAlways, KnownAlways, PTL DEF Spec

LEMMA SecureCovers ==
    ASSUME Threads # {}
    PROVE  StateOK /\ Real /\ Known /\ Secure => LocksCoverOpenOrders /\ (~withdrawn => FundsReserved)
<1> SUFFICES ASSUME StateOK, Real, Known, Secure, Quiet, crashes = 0, failures = 0
             PROVE  /\ wallet.locked >= SumFunctionOnSet(
                           [r \in Rows |-> Notional(orders[r].price, Remaining(orders[r]))],
                           {r \in Rows : IsOpen(orders[r]) /\ orders[r].bid})
                    /\ ((~withdrawn /\ \A r \in Rows : orders[r].kind = "LIMIT") =>
                           wallet.locked <= wallet.balance)
  BY DEF LocksCoverOpenOrders, FundsReserved
<1>1. PICK t \in Threads : TRUE
  OBVIOUS
<1>2. PICK r : r = req[t]
  OBVIOUS
<1>3. Secured(r) /\ r.pc = "idle" /\ Allowed(r)
  BY <1>2 DEF Secure, Quiet, StateOK, ReqOK
<1>4. Plain(r) /\ Owing(r) = 0
  BY <1>3 DEF Plain, Creating, Placing, Owing, Unlocking, Allowed, Control, At
<1>5. HeldWithin
  BY HoldingBounds
<1>6. PICK f, g, S : /\ f = [x \in Rows |-> Holding(r, x)]
                     /\ g = [x \in Rows |-> Notional(orders[x].price, Remaining(orders[x]))]
                     /\ S = {x \in Rows : IsOpen(orders[x]) /\ orders[x].bid}
  OBVIOUS
<1>7. \A x \in Rows : f[x] \in Nat /\ f[x] = Base(x)
  BY <1>2, <1>4, <1>5, <1>6, PlainHolds DEF HeldWithin
<1>8. S \in SUBSET Rows /\ \A x \in S : g[x] = f[x]
  BY <1>6, <1>7 DEF Base
<1>9. SumFunctionOnSet(f, S) <= SumFunctionOnSet(f, Rows)
  BY <1>7, <1>8, RowsFinite, SumSubset
<1>10. IsFiniteSet(S)
  BY <1>8, RowsFinite, FS_Subset
<1>11. SumFunctionOnSet(g, S) = SumFunctionOnSet(f, S)
  BY <1>8, <1>10, SumSame
<1>12. SumFunctionOnSet(f, Rows) <= wallet.locked
  BY <1>3, <1>6 DEF Secured, Held
<1>13. SumFunctionOnSet(f, S) \in Int /\ SumFunctionOnSet(f, Rows) \in Int /\ wallet.locked \in Int
  <2>1. \A x \in S : f[x] \in Int
    BY <1>7, <1>8
  <2>2. \A x \in Rows : f[x] \in Int
    BY <1>7
  <2>3. SumFunctionOnSet(f, S) \in Int
    BY <1>10, <2>1, SumInt
  <2>4. SumFunctionOnSet(f, Rows) \in Int
    BY <2>2, RowsFinite, SumInt
  <2> QED BY <2>3, <2>4 DEF StateOK, WalletOK
<1>14. wallet.locked >= SumFunctionOnSet(g, S)
  BY <1>9, <1>11, <1>12, <1>13
<1>15. (~withdrawn /\ \A x \in Rows : orders[x].kind = "LIMIT") => wallet.locked <= wallet.balance
  <2> SUFFICES ASSUME ~withdrawn, \A x \in Rows : orders[x].kind = "LIMIT"
               PROVE  wallet.locked <= wallet.balance
    OBVIOUS
  <2>1. OnlyLimits(r)
    BY DEF OnlyLimits
  <2> QED BY <1>3, <1>4, <2>1 DEF Secured, StateOK, WalletOK
<1> QED BY <1>6, <1>14, <1>15

\* The lock always holds at least what the open buys still need, for any prices and
\* sizes, whatever the other participants do between the handlers' statements: filled
\* parts of an order are paid for out of its own share of the lock.
THEOREM LocksAlwaysCover ==
    ASSUME OneAtATime, Threads # {} PROVE Spec => []LocksCoverOpenOrders
<1>1. StateOK /\ Real /\ Known /\ Secure => LocksCoverOpenOrders
  BY SecureCovers
<1> QED BY <1>1, StateAlwaysOK, RealAlways, KnownAlways, SecureAlways, PTL

\* What is locked is part of the balance, until a withdrawal takes money that is not
\* checked against the lock.
THEOREM FundsStayReserved ==
    ASSUME OneAtATime, Threads # {} PROVE Spec => [](~withdrawn => FundsReserved)
<1>1. StateOK /\ Real /\ Known /\ Secure => (~withdrawn => FundsReserved)
  BY SecureCovers
<1> QED BY <1>1, StateAlwaysOK, RealAlways, KnownAlways, SecureAlways, PTL

-----------------------------------------------------------------------------
(* One request at a time: what was charged, for which trades.               *)

\* The trades of order x cover v, and p for each lot of them beyond the first f.
Within(x, v, p, f) == 2 * v + 2 * (p * (Executed(x) - f)) <= 2 * cost[x] + Executed(x)

\* The handler has matched or listed a fill of its order that the row does not show.
Charging(r) ==
    r.pc \in {"readSize", "readStatus", "debit", "update"} \/ (Unlocking(r) /\ r.next = "update")

\* It may have charged the fill.
Settling(r, x) == Charging(r) /\ ~ (InSync(r) /\ r.pc = "debit") /\ Target(r) = x

ChargedRow(r, x) ==
    /\ paid[x] \in Nat /\ cost[x] \in Nat
    /\ x \notin received => paid[x] = 0 /\ cost[x] = 0
    /\ IsRow(x) => Within(x, Scale * paid[x], 0, 0)
    /\ IsRow(x) /\ x \in fresh /\ orders[x].bid /\ ~ Settling(r, x) =>
          Within(x, Scale * paid[x], orders[x].price, orders[x].filled)

ChargedRequest(r) ==
    LET x == Target(r)
        p == orders[x].price
    IN  /\ Placing(r) /\ r.pc \in {"readSize", "readStatus", "debit"} => paid[x] = 0
        /\ r.pc = "readSize" /\ r.bid => Within(x, r.paidPrice * r.got, p, r.got)
        /\ r.pc = "readStatus" /\ r.bid => Within(x, Scale * r.notional, p, r.filled)
        /\ r.pc = "debit" => Within(x, Scale * (paid[x] + r.debit), p, r.filled)
        /\ (r.pc = "update" \/ (Unlocking(r) /\ r.next = "update")) /\ orders[x].bid =>
              Within(x, Scale * paid[x], p, r.filled)

Charged ==
    failures = 0 => \A t \in Threads : (\A x \in Rows : ChargedRow(req[t], x)) /\ ChargedRequest(req[t])

-----------------------------------------------------------------------------
(* A step that keeps what was charged within the trades.                    *)

\* More, or a fill at a worse price, may be charged when that much less is left to charge.
LEMMA WithinMoves ==
    ASSUME NEW x, Executed(x) \in Int, cost[x] \in Int,
           NEW v \in Int, NEW u \in Int, NEW p \in Int, NEW f \in Int, NEW g \in Int,
           Within(x, v, p, f), u <= v + p * (g - f)
    PROVE  Within(x, u, p, g)
<1>1. PICK e \in Int, c \in Int : e = Executed(x) /\ c = cost[x]
  OBVIOUS
<1>2. PICK a \in Int, b \in Int, d \in Int : a = p * (e - f) /\ b = p * (e - g) /\ d = p * (g - f)
  OBVIOUS
<1>3. a = b + d
  BY <1>2
<1>4. 2 * v + 2 * a <= 2 * c + e
  BY <1>1, <1>2 DEF Within
<1>5. 2 * u + 2 * b <= 2 * c + e
  BY <1>2, <1>3, <1>4
<1> QED BY <1>1, <1>2, <1>5 DEF Within

\* What is left of a fill need not be charged.
LEMMA WithinAtAll ==
    ASSUME NEW x, Executed(x) \in Int, cost[x] \in Int,
           NEW v \in Int, NEW p \in Nat, NEW f \in Int, Within(x, v, p, f), f <= Executed(x)
    PROVE  Within(x, v, 0, 0)
<1>1. PICK e \in Int, c \in Int : e = Executed(x) /\ c = cost[x]
  OBVIOUS
<1>2. PICK d \in Nat : d = e - f
  BY <1>1
<1>3. PICK a \in Nat : a = p * d
  OBVIOUS
<1>4. 2 * v + 2 * a <= 2 * c + e
  BY <1>1, <1>2, <1>3 DEF Within
<1>5. 2 * v + 2 * (0 * (e - 0)) <= 2 * c + e
  BY <1>4
<1> QED BY <1>1, <1>5 DEF Within

\* What the orders and their trades are known to be.
ChargesTyped ==
    \A x \in Rows : /\ paid[x] \in Nat /\ cost[x] \in Nat /\ size[x] \in Nat
                    /\ orders[x] \in RowSet /\ Executed(x) \in Int

LEMMA ChargesAreTyped ==
    ASSUME StateOK, NEW r, \A x \in Rows : ChargedRow(r, x) PROVE ChargesTyped
<1> SUFFICES ASSUME NEW x \in Rows
             PROVE  /\ paid[x] \in Nat /\ cost[x] \in Nat /\ size[x] \in Nat
                    /\ orders[x] \in RowSet /\ Executed(x) \in Int
  BY DEF ChargesTyped
<1>1. orders[x] \in RowSet /\ size[x] \in Nat /\ paid[x] \in Nat /\ cost[x] \in Nat
  BY RowTyped DEF StateOK, EngineOK, EngineTyped, AllOrders, ChargedRow
<1>2. orders[x].quantity \in Nat
  BY <1>1 DEF RowSet
<1>3. Executed(x) \in Int
  BY <1>1, <1>2 DEF Executed
<1> QED BY <1>1, <1>3

\* Of the only request there is nothing else to show.
LEMMA ChargedStep ==
    ASSUME OneAtATime, NEW t \in Threads, NEW w, req'[t] = w,
           failures' = 0 => (\A x \in Rows : ChargedRow(w, x)') /\ ChargedRequest(w)'
    PROVE  Charged'
<1>1. \A s \in Threads : req'[s] = w
  BY DEF OneAtATime
<1> SUFFICES ASSUME failures' = 0, NEW s \in Threads
             PROVE  (\A x \in Rows : ChargedRow(req[s], x)') /\ ChargedRequest(req[s])'
  BY DEF Charged, Rows
<1>2. req'[s] = w
  BY <1>1
<1> QED BY <1>2 DEF ChargedRow, ChargedRequest, Settling, Charging, Within, Executed, Target, InSync,
     Placing, Unlocking, IsRow

\* What a step needs of the state before it.
Agreed == StateOK /\ Real /\ Known /\ failures = 0 /\ Charged

\* A row whose order neither trades nor is paid for.
LEMMA RowStaysCharged ==
    ASSUME NEW r, NEW w, NEW x \in Rows, ChargedRow(r, x), UNCHANGED <<cost, paid, received, size>>,
           /\ orders'[x].price = orders[x].price /\ orders'[x].bid = orders[x].bid
           /\ orders'[x].quantity = orders[x].quantity /\ orders'[x].filled = orders[x].filled,
           IsRow(x)' => IsRow(x), x \in fresh' => x \in fresh,
           x \in fresh' /\ Settling(r, x) => Settling(w, x)' \/ Within(x, Scale * paid[x], orders[x].price, orders[x].filled)
    PROVE  ChargedRow(w, x)'
<1>1. Executed(x)' = Executed(x)
  BY DEF Executed
<1> QED BY <1>1 DEF ChargedRow, Within

\* A step that charges nothing, of a handler that has nothing to settle.
LEMMA ChargedQuietly ==
    ASSUME OneAtATime, Agreed, NEW t \in Threads, NEW w, req'[t] = w, ~ Charging(w),
           \A x \in Rows : ~ Settling(req[t], x),
           UNCHANGED <<cost, paid, received, size>>, fresh' \subseteq fresh,
           \A x \in Rows : /\ orders'[x].price = orders[x].price /\ orders'[x].bid = orders[x].bid
                           /\ orders'[x].quantity = orders[x].quantity
                           /\ orders'[x].filled = orders[x].filled /\ (IsRow(x)' => IsRow(x))
    PROVE  Charged'
<1>1. PICK r : r = req[t]
  OBVIOUS
<1>2. \A x \in Rows : ChargedRow(r, x)
  BY <1>1 DEF Agreed, Charged
<1>3. \A x \in Rows : ChargedRow(w, x)'
  <2> SUFFICES ASSUME NEW x \in Rows PROVE ChargedRow(w, x)'
    OBVIOUS
  <2> QED BY <1>1, <1>2, RowStaysCharged
<1>4. ChargedRequest(w)'
  BY DEF ChargedRequest, Charging, Unlocking
<1> QED BY <1>3, <1>4, ChargedStep

\* What a call that is not about order x does to what its trades have cost.
Trading(x) ==
    /\ x \in received' <=> x \in received
    /\ size'[x] <= size[x] /\ size[x] \in Nat /\ size'[x] \in Nat /\ price[x] \in Nat
    /\ x \notin OnBook => size'[x] = size[x]
    /\ cost'[x] = cost[x] + price[x] * (size[x] - size'[x])

LEMMA PlacedTrading ==
    ASSUME StateOK, StateOK', ChargesTyped, NEW o, NEW b \in BOOLEAN, NEW p, NEW n, Placed(o, b, p, n), Traded(o)
    PROVE  \A x \in Rows \ {o} : Trading(x)
<1> SUFFICES ASSUME NEW x \in Rows \ {o} PROVE Trading(x)
  OBVIOUS
<1>1. PICK ms : ms = matches'
  OBVIOUS
<1>2. /\ x \in AllOrders \ {o} /\ size'[x] <= size[x] /\ (x \in received' <=> x \in received)
      /\ size[x] \in Nat /\ size'[x] \in Nat /\ price[x] \in Nat
  <2>1. x \in AllOrders \ {o} /\ size'[x] \in Nat /\ size[x] \in Nat /\ price[x] \in Nat
    BY DEF AllOrders, StateOK, EngineOK, EngineTyped, Rows, Others
  <2> QED BY <2>1 DEF Placed, Trades
<1>3. PICK u \in Nat, v \in Nat, c \in Nat, q \in Nat :
         u = size[x] /\ v = size'[x] /\ c = cost[x] /\ q = price[x]
  BY <1>2 DEF ChargesTyped
<1>4. PICK K : K = {k \in DOMAIN ms : x = ms[k].maker}
  OBVIOUS
<1>5. cost'[x] = c + Value(ms, K)
  <2>1. {k \in DOMAIN matches' : x \in {o, matches'[k].maker}} = K
    BY <1>1, <1>4
  <2> QED BY <1>1, <1>3, <2>1 DEF Traded
<1>6. \A k \in K : /\ ms[k].maker \in ToSet(book[~b]) /\ ms[k].maker = x /\ ms[k].price = q
                   /\ ms[k].size = u - v /\ u - v > 0
  BY <1>1, <1>3, <1>4 DEF Placed, Trades
<1>7. \A k, l \in K : k = l
  BY <1>1, <1>4 DEF Placed, Trades
<1>8. u # v => K # {}
  BY <1>1, <1>2, <1>3, <1>4 DEF Placed, Trades
<1>9. x \in ToSet(book[~b]) => x \in OnBook
  BY OnBookSides
<1>10. x \notin OnBook => u = v
  BY <1>6, <1>8, <1>9
<1>11. Value(ms, K) = q * (u - v)
  <2>1. PICK g : g = [k \in DOMAIN ms |-> ms[k].price * ms[k].size]
    OBVIOUS
  <2>2. Value(ms, K) = SumFunctionOnSet(g, K)
    BY <2>1 DEF Value
  <2>3. CASE K = {}
    <3>1. u - v = 0 /\ q * 0 = 0
      BY <1>8, <2>3
    <3> QED BY <2>2, <2>3, <3>1, SumEmpty
  <2>4. CASE K # {}
    <3>1. PICK k \in K : TRUE
      BY <2>4
    <3>2. K = {k}
      BY <1>7, <3>1
    <3>3. g[k] = ms[k].price * ms[k].size
      BY <1>4, <2>1
    <3>4. PICK d \in Nat : d = u - v
      BY <1>2, <1>3
    <3>5. g[k] = q * d /\ q * d \in Int
      BY <1>6, <3>3, <3>4
    <3>6. SumFunctionOnSet(g, {} \cup {k}) = g[k] + SumFunctionOnSet(g, {})
      BY <3>5, SumAdd, FS_EmptySet
    <3>7. SumFunctionOnSet(g, {}) = 0 /\ {} \cup {k} = {k}
      BY SumEmpty
    <3> QED BY <2>2, <3>2, <3>4, <3>5, <3>6, <3>7
  <2> QED BY <2>3, <2>4
<1>12. cost'[x] = cost[x] + price[x] * (size[x] - size'[x])
  BY <1>3, <1>5, <1>11
<1> QED BY <1>2, <1>3, <1>10, <1>12 DEF Trading

\* The trades of a resting order are at its own price.
LEMMA WithinTrades ==
    ASSUME StateOK, ChargesTyped, NEW x \in Rows, Trading(x), orders'[x].quantity = orders[x].quantity,
           NEW v \in Int, NEW p \in Int, NEW f \in Int, Within(x, v, p, f),
           x \notin OnBook \/ p = 0 \/ p = price[x]
    PROVE  Within(x, v, p, f)'
<1>1. PICK a \in Nat, b \in Nat, c \in Nat, q \in Nat, e \in Int :
         a = size[x] /\ b = size'[x] /\ c = cost[x] /\ q = price[x] /\ e = Executed(x)
  BY DEF ChargesTyped, Trading
<1>2. PICK d \in Nat : d = a - b
  BY <1>1 DEF Trading
<1>3. cost'[x] = c + q * d
  BY <1>1, <1>2 DEF Trading
<1>4. 2 * v + 2 * (p * (e - f)) <= 2 * c + e
  BY <1>1 DEF Within
<1>5. CASE x \notin OnBook \/ x \notin received
  <2>1. x \notin OnBook
    BY <1>5, OnBookSides DEF StateOK, EngineOK, Rests
  <2>2. d = 0 /\ Executed(x)' = e
    BY <1>1, <1>2, <2>1 DEF Trading, Executed
  <2>3. cost'[x] = c
    BY <1>3, <2>2
  <2> QED BY <1>1, <1>4, <2>2, <2>3 DEF Within
<1>6. CASE x \in received /\ (p = 0 \/ p = q)
  <2>1. PICK n \in Nat : n = orders[x].quantity
    BY DEF ChargesTyped, RowSet
  <2>2. e = n - a /\ Executed(x)' = n - b
    BY <1>1, <1>6, <2>1 DEF Trading, Executed
  <2>3. Executed(x)' = e + d
    BY <1>1, <1>2, <2>1, <2>2
  <2>4. PICK y \in Int, z \in Int, m \in Nat : y = p * (e - f) /\ z = p * d /\ m = q * d
    OBVIOUS
  <2>5. p * ((e + d) - f) = y + z
    BY <2>4
  <2>6. z <= m
    BY <1>6, <2>4
  <2>7. 2 * v + 2 * (y + z) <= 2 * (c + m) + (e + d)
    BY <1>4, <2>4, <2>6
  <2> QED BY <1>3, <2>3, <2>4, <2>5, <2>7 DEF Within
<1> QED BY <1>1, <1>5, <1>6

-----------------------------------------------------------------------------
(* What each step charges, and the theorem.                                 *)

\* Where a handler is that has nothing to settle.
Elsewhere == {"idle", "withdraw", "lock", "wallet", "quote", "create", "release", "place", "delete",
              "list", "snapshot", "order", "get", "cancel", "mark"}

LEMMA AfterSyncElsewhere == ASSUME NEW r PROVE AfterSync(r).pc \in Elsewhere
<1>1. CASE r.kind = "cancel"
  <2>1. PICK f : f = [kind |-> "cancel", row |-> r.row, pc |-> "get"]
    OBVIOUS
  <2>2. "pc" \in DOMAIN f /\ f.pc = "get"
    BY <2>1
  <2>3. DOMAIN Idle = Fields
    BY IdleTyped DEF Typed
  <2>4. With(Idle, f).pc = "get"
    BY <2>2, <2>3, WithControl
  <2> QED BY <1>1, <2>1, <2>4 DEF AfterSync, Elsewhere
<1>2. CASE r.kind # "cancel"
  BY <1>2, IdleIs DEF AfterSync, Elsewhere
<1> QED BY <1>1, <1>2

LEMMA NextOrderElsewhere == ASSUME NEW r, DOMAIN r = Fields PROVE NextOrder(r).pc \in Elsewhere
<1>1. PICK f : f = [pc |-> "order", todo |-> Tail(r.todo)]
  OBVIOUS
<1>2. "pc" \in DOMAIN f /\ f.pc = "order"
  BY <1>1
<1>3. With(r, f).pc = "order"
  BY <1>2, WithControl
<1> QED BY <1>1, <1>3 DEF NextOrder, Elsewhere

\* The steps before the engine is called, and those of a sync that only read.
LEMMA ReadsCharged ==
    ASSUME OneAtATime, Agreed, StateOK', NEW t \in Threads,
           \/ Deposit(t) \/ RequestWithdrawal(t) \/ Withdraw(t)
           \/ SubmitLimit(t) \/ LockAmount(t) \/ SubmitMarket(t) \/ ReadWallet(t) \/ Quote(t)
           \/ Release(t) \/ StartSync(t) \/ ListOpenByUser(t) \/ StreamOrderBook(t) \/ GetByIDForUser(t)
    PROVE  Charged'
<1>1. PICK r : r = req[t]
  OBVIOUS
<1>2. PICK w : w = req'[t]
  OBVIOUS
<1>3. Allowed(r) /\ StateOK
  BY <1>1 DEF Agreed, StateOK, ReqOK
<1>4. r.pc \in Elsewhere /\ UNCHANGED <<cost, paid, received, size, orders, fresh>>
  <2>1. CASE \/ Deposit(t) \/ RequestWithdrawal(t) \/ Withdraw(t)
             \/ SubmitLimit(t) \/ LockAmount(t) \/ SubmitMarket(t) \/ ReadWallet(t) \/ Quote(t)
    BY <1>1, <2>1 DEF Deposit, RequestWithdrawal, Withdraw, SubmitLimit, LockAmount, SubmitMarket,
       ReadWallet, Quote, Elsewhere, db, market, engine
  <2>2. CASE Release(t) \/ StartSync(t) \/ ListOpenByUser(t) \/ StreamOrderBook(t) \/ GetByIDForUser(t)
    BY <1>1, <2>2 DEF Release, StartSync, ListOpenByUser, StreamOrderBook, GetByIDForUser, Elsewhere,
       db, market, engine
  <2> QED BY <2>1, <2>2
<1>5. ASSUME NEW f, Set(t, f), "kind" \notin DOMAIN f, "pc" \in DOMAIN f, f.pc \in Elsewhere
      PROVE  w.pc \in Elsewhere
  BY <1>1, <1>2, <1>3, <1>5, SetTo
<1>6. ASSUME NEW f, Start(t, f), {"kind", "pc"} \subseteq DOMAIN f, f.pc \in Elsewhere
      PROVE  w.pc \in Elsewhere
  BY <1>2, <1>3, <1>6, StartsAt
<1>7. ASSUME Become(t, Idle) PROVE w.pc \in Elsewhere
  BY <1>2, <1>3, <1>7, Moved, IdleIs DEF Elsewhere
<1>8. ASSUME Become(t, AfterSync(r)) PROVE w.pc \in Elsewhere
  BY <1>2, <1>3, <1>8, Moved, AfterSyncElsewhere
<1>9. w.pc \in Elsewhere
  <2>1. CASE Deposit(t)
    BY <1>1, <1>2, <1>4, <2>1 DEF Deposit
  <2>2. CASE RequestWithdrawal(t)
    <3>1. PICK f : f = [kind |-> "withdraw", pc |-> "withdraw"]
      OBVIOUS
    <3> QED BY <1>6, <2>2, <3>1 DEF RequestWithdrawal, Elsewhere
  <2>3. CASE Withdraw(t) \/ Release(t)
    BY <1>7, <2>3 DEF Withdraw, Release
  <2>4. CASE SubmitLimit(t) \/ SubmitMarket(t)
    <3>1. PICK f, o, worth : /\ Start(t, f)
                             /\ \/ f = [kind |-> "limit", pc |-> IF o.bid THEN "lock" ELSE "create",
                                        lock |-> worth, bid |-> o.bid, price |-> o.price,
                                        quantity |-> o.quantity]
                                \/ f = [kind |-> "market", pc |-> IF o.bid THEN "wallet" ELSE "quote",
                                        bid |-> o.bid, quantity |-> o.quantity]
      BY <2>4 DEF SubmitLimit, SubmitMarket
    <3>2. {"kind", "pc"} \subseteq DOMAIN f /\ f.pc \in {"lock", "create", "wallet", "quote"}
      BY <3>1
    <3> QED BY <1>6, <3>1, <3>2 DEF Elsewhere
  <2>5. CASE LockAmount(t)
    <3>1. r.kind = "limit" /\ r.pc = "lock"
      BY <1>1, <1>3, <2>5 DEF LockAmount, Allowed, Control, At
    <3>2. OnError(r) = Idle
      BY <3>1 DEF OnError, InSync
    <3>3. PICK f : f = [pc |-> "create"]
      OBVIOUS
    <3>4. Set(t, f) \/ Become(t, Idle)
      BY <1>1, <2>5, <3>2, <3>3 DEF LockAmount
    <3> QED BY <1>5, <1>7, <3>3, <3>4 DEF Elsewhere
  <2>6. CASE ReadWallet(t)
    <3>1. PICK f : f = [pc |-> "quote", available |-> Available]
      OBVIOUS
    <3> QED BY <1>5, <2>6, <3>1 DEF ReadWallet, Elsewhere
  <2>7. CASE Quote(t)
    <3>1. PICK f, g : /\ f = [pc |-> "create", price |-> BestPrice(FALSE), estimate |-> MarketBuyQuote(r.quantity)]
                      /\ g = [pc |-> "create", price |-> BestPrice(TRUE)]
      OBVIOUS
    <3>2. Set(t, f) \/ Set(t, g) \/ Become(t, Idle)
      BY <1>1, <2>7, <3>1 DEF Quote
    <3> QED BY <1>5, <1>7, <3>1, <3>2 DEF Elsewhere
  <2>8. CASE StartSync(t)
    <3>1. PICK f : Start(t, f) /\ (\/ f = [kind |-> "sync", pc |-> "list"]
                                  \/ \E x \in Rows : f = [kind |-> "cancel", row |-> x, pc |-> "list"])
      BY <2>8 DEF StartSync
    <3>2. {"kind", "pc"} \subseteq DOMAIN f /\ f.pc = "list"
      BY <3>1
    <3> QED BY <1>6, <3>1, <3>2 DEF Elsewhere
  <2>9. CASE ListOpenByUser(t)
    <3>1. PICK f : f = [pc |-> "snapshot", todo |-> OpenRows]
      OBVIOUS
    <3>2. Set(t, f) \/ Become(t, AfterSync(r))
      BY <1>1, <2>9, <3>1 DEF ListOpenByUser, Set
    <3> QED BY <1>5, <1>8, <3>1, <3>2 DEF Elsewhere
  <2>10. CASE StreamOrderBook(t)
    <3>1. PICK f : f = [pc |-> "order", seen |-> RemainingByID]
      OBVIOUS
    <3> QED BY <1>5, <2>10, <3>1 DEF StreamOrderBook, Elsewhere
  <2>11. CASE GetByIDForUser(t)
    <3>1. PICK f : f = [pc |-> "cancel", order |-> orders[r.row]]
      OBVIOUS
    <3>2. Set(t, f) \/ Become(t, Idle)
      BY <1>1, <2>11, <3>1 DEF GetByIDForUser, Set
    <3> QED BY <1>5, <1>7, <3>1, <3>2 DEF Elsewhere
  <2> QED BY <2>1, <2>2, <2>3, <2>4, <2>5, <2>6, <2>7, <2>8, <2>9, <2>10, <2>11
<1>10. ~ Charging(w) /\ \A x \in Rows : ~ Settling(req[t], x)
  BY <1>1, <1>4, <1>9 DEF Elsewhere, Charging, Settling, Unlocking
<1> QED BY <1>2, <1>4, <1>10, ChargedQuietly DEF IsRow

\* An order that has traded nothing and whose row shows no fill.
LEMMA NothingCharged ==
    ASSUME NEW w, NEW x, Executed(x)' = 0, paid'[x] = 0, cost'[x] = 0,
           IsRow(x)' => orders'[x].price \in Int /\ orders'[x].filled = 0
    PROVE  ChargedRow(w, x)'
<1>1. Within(x, Scale * paid[x], 0, 0)'
  <2>1. 2 * (Scale * 0) + 2 * (0 * (0 - 0)) <= 2 * 0 + 0
    OBVIOUS
  <2> QED BY <2>1 DEF Within
<1>2. IsRow(x)' => Within(x, Scale * paid[x], orders[x].price, orders[x].filled)'
  <2> SUFFICES ASSUME IsRow(x)' PROVE Within(x, Scale * paid[x], orders[x].price, orders[x].filled)'
    OBVIOUS
  <2>1. PICK p \in Int : p = orders'[x].price
    OBVIOUS
  <2>2. 2 * (Scale * 0) + 2 * (p * (0 - 0)) <= 2 * 0 + 0
    OBVIOUS
  <2> QED BY <2>1, <2>2 DEF Within
<1> QED BY <1>1, <1>2 DEF ChargedRow

LEMMA CreateCharged ==
    ASSUME OneAtATime, Agreed, StateOK', NEW t \in Threads, Create(t) PROVE Charged'
<1>1. PICK r : r = req[t]
  OBVIOUS
<1>2. /\ Allowed(r) /\ RequestReal(r) /\ StateOK /\ r.pc = "create"
      /\ \A x \in Rows : ChargedRow(r, x) /\ RowReal(x)
  BY <1>1 DEF Agreed, Charged, StateOK, ReqOK, Real, Create
<1>3. PICK n \in Rows : n = lastRow + 1 /\ ~ (n <= lastRow)
  BY <1>2 DEF RequestReal, StateOK, Rows
<1>4. n \notin received /\ paid[n] = 0 /\ cost[n] = 0
  BY <1>2, <1>3 DEF RowReal, ChargedRow
<1>5. PICK f : f = [pc |-> "place", row |-> n]
  OBVIOUS
<1>6. Set(t, f) /\ "kind" \notin DOMAIN f /\ "pc" \in DOMAIN f /\ f.pc = "place"
  BY <1>1, <1>3, <1>5 DEF Create
<1>7. PICK w : w = req'[t]
  OBVIOUS
<1>8. w.pc = "place"
  BY <1>1, <1>2, <1>6, <1>7, SetTo
<1>9. UNCHANGED <<cost, paid, received, size>> /\ fresh' = fresh \cup {n}
  BY <1>3 DEF Create, market, engine
<1>10. orders'[n].filled = 0 /\ \A x \in Rows \ {n} : orders'[x] = orders[x]
  BY <1>1, <1>3 DEF Create, StateOK
<1>11. orders'[n].price \in Int
  BY RowTyped DEF StateOK, RowSet, Rows, Statuses
<1>12. \A x \in Rows : ChargedRow(w, x)'
  <2> SUFFICES ASSUME NEW x \in Rows PROVE ChargedRow(w, x)'
    OBVIOUS
  <2>1. CASE x = n
    <3>1. Executed(n)' = 0
      BY <1>4, <1>9 DEF Executed
    <3> QED BY <1>4, <1>9, <1>10, <1>11, <2>1, <3>1, NothingCharged
  <2>2. CASE x # n
    <3>1. ~ Settling(r, x)
      BY <1>2 DEF Settling, Charging, Unlocking
    <3> QED BY <1>2, <1>9, <1>10, <2>2, <3>1, RowStaysCharged DEF IsRow
  <2> QED BY <2>1, <2>2
<1>13. ChargedRequest(w)'
  BY <1>8 DEF ChargedRequest, Charging, Unlocking
<1> QED BY <1>7, <1>12, <1>13, ChargedStep

LEMMA DeleteCharged ==
    ASSUME OneAtATime, Agreed, StateOK', NEW t \in Threads, DeleteByEngineOrderID(t) PROVE Charged'
<1>1. PICK r : r = req[t]
  OBVIOUS
<1>2. /\ Allowed(r) /\ StateOK /\ r.pc = "delete" /\ \A x \in Rows : ChargedRow(r, x)
  BY <1>1 DEF Agreed, Charged, StateOK, ReqOK, DeleteByEngineOrderID
<1>3. PICK w : w = Idle
  OBVIOUS
<1>4. req'[t] = w /\ w.pc = "idle"
  BY <1>2, <1>3, Moved, IdleIs DEF DeleteByEngineOrderID
<1>5. UNCHANGED <<cost, paid, received, size, fresh>> /\ orders' = [orders EXCEPT ![r.row] = NoRow]
  BY <1>1 DEF DeleteByEngineOrderID, market, engine
<1>6. \A x \in Rows : ChargedRow(w, x)'
  <2> SUFFICES ASSUME NEW x \in Rows PROVE ChargedRow(w, x)'
    OBVIOUS
  <2>1. CASE x = r.row
    <3>1. ~ IsRow(x)'
      BY <1>2, <1>5, <2>1 DEF StateOK, IsRow, NoRow
    <3> QED BY <1>2, <1>5, <3>1 DEF ChargedRow
  <2>2. CASE x # r.row
    <3>1. ~ Settling(r, x)
      BY <1>2 DEF Settling, Charging, Unlocking
    <3>2. orders'[x] = orders[x]
      BY <1>2, <1>5, <2>2 DEF StateOK
    <3> QED BY <1>2, <1>5, <3>1, <3>2, RowStaysCharged DEF IsRow
  <2> QED BY <2>1, <2>2
<1>7. ChargedRequest(w)'
  BY <1>4 DEF ChargedRequest, Charging, Unlocking
<1> QED BY <1>4, <1>6, <1>7, ChargedStep

LEMMA CancelCharged ==
    ASSUME OneAtATime, Agreed, StateOK', NEW t \in Threads, CancelOrderByID(t) \/ MarkCancelled(t)
    PROVE  Charged'
<1>1. PICK r : r = req[t]
  OBVIOUS
<1>2. Allowed(r) /\ StateOK
  BY <1>1 DEF Agreed, StateOK, ReqOK
<1>3. r.pc \in {"cancel", "mark"} /\ UNCHANGED <<cost, paid, fresh>>
  BY <1>1 DEF CancelOrderByID, MarkCancelled, db, market
<1>4. \A x \in Rows : ~ Settling(req[t], x)
  BY <1>1, <1>3 DEF Settling, Charging, Unlocking
<1>5. CASE CancelOrderByID(t)
  <2>1. UNCHANGED <<received, size, orders>>
    <3>1. CASE UNCHANGED engine
      BY <1>5, <3>1 DEF CancelOrderByID, engine, db
    <3>2. CASE E!Cancel(r.row)
      BY <1>2, <1>5, <3>2, Cancelled DEF CancelOrderByID, db, StateOK
    <3> QED BY <1>1, <1>5, <3>1, <3>2 DEF CancelOrderByID
  <2>2. PICK f, a : Set(t, f) /\ f = UnlockUpTo(a, "mark")
    BY <1>5 DEF CancelOrderByID
  <2>3. /\ DOMAIN f \subseteq {"pc", "amount", "next"} /\ "pc" \in DOMAIN f /\ "next" \in DOMAIN f
        /\ f.pc \in {"unlockRead", "mark"} /\ f.next = "mark"
    BY <2>2 DEF UnlockUpTo
  <2>4. PICK w : w = req'[t]
    OBVIOUS
  <2>5. "kind" \notin DOMAIN f
    BY <2>3
  <2>6. w.pc = f.pc /\ w = With(r, f)
    BY <1>1, <1>2, <2>2, <2>3, <2>4, <2>5, SetTo
  <2>7. w.next = "mark"
    BY <1>2, <2>3, <2>6, WithControl DEF Allowed, Typed
  <2>8. ~ Charging(w)
    BY <2>3, <2>6, <2>7 DEF Charging, Unlocking
  <2> QED BY <1>3, <1>4, <2>1, <2>4, <2>8, ChargedQuietly DEF IsRow
<1>6. CASE MarkCancelled(t)
  <2>1. PICK n \in Rows : n = r.row
    BY <1>1, <1>2, <1>6 DEF MarkCancelled, Allowed, Control, At
  <2>2. PICK o \in RowSet : o = orders[n]
    BY <1>2, RowTyped
  <2>3. PICK v : v = With(o, [status |-> "CANCELLED"])
    OBVIOUS
  <2>4. v.filled = o.filled /\ v.price = o.price /\ v.quantity = o.quantity
    BY <2>3, RowCancelled
  <2>5. v.bid = o.bid
    BY <2>3, RowCancelled
  <2>6. orders' = IF ~ IsRow(n) THEN orders ELSE [orders EXCEPT ![n] = v]
    BY <1>1, <1>6, <2>1, <2>2, <2>3 DEF MarkCancelled
  <2>7. \A x \in Rows : orders'[x] = orders[x] \/ (x = n /\ IsRow(n) /\ orders'[x] = v)
    BY <1>2, <2>6 DEF StateOK
  <2>8. \A x \in Rows : /\ orders'[x].price = orders[x].price /\ orders'[x].bid = orders[x].bid
                        /\ orders'[x].quantity = orders[x].quantity
                        /\ orders'[x].filled = orders[x].filled /\ (IsRow(x)' => IsRow(x))
    BY <2>2, <2>4, <2>5, <2>7 DEF IsRow
  <2>9. req'[t] = Idle /\ ~ Charging(Idle)
    BY <1>2, <1>6, Moved, IdleIs DEF MarkCancelled, Charging
  <2>10. UNCHANGED <<received, size>>
    BY <1>6 DEF MarkCancelled, market, engine
  <2>11. PICK w : w = Idle
    OBVIOUS
  <2> QED BY <1>3, <1>4, <2>8, <2>9, <2>10, <2>11, ChargedQuietly
<1> QED BY <1>5, <1>6

LEMMA CrashCharged ==
    ASSUME OneAtATime, Agreed, StateOK', Crash PROVE Charged'
<1> SUFFICES ASSUME NEW t \in Threads
             PROVE  (\A x \in Rows : ChargedRow(req[t], x)') /\ ChargedRequest(req[t])'
  BY DEF Charged, Rows
<1>1. PICK r : r = req[t]
  OBVIOUS
<1>2. PICK w : w = Idle
  OBVIOUS
<1>3. req'[t] = w /\ ~ Charging(w)
  BY <1>2, IdleIs DEF Crash, Charging
<1>4. \A x \in Rows : ChargedRow(r, x)
  BY <1>1 DEF Agreed, Charged
<1>5. UNCHANGED <<cost, paid, received, size, orders>> /\ fresh' = {}
  BY DEF Crash
<1>6. \A x \in Rows : ChargedRow(w, x)'
  <2> SUFFICES ASSUME NEW x \in Rows PROVE ChargedRow(w, x)'
    OBVIOUS
  <2>1. ChargedRow(r, x)
    BY <1>4
  <2> QED BY <1>5, <2>1, RowStaysCharged DEF IsRow
<1>7. ChargedRequest(w)'
  BY <1>3 DEF ChargedRequest, Charging, Unlocking
<1> QED BY <1>3, <1>6, <1>7 DEF ChargedRow, ChargedRequest, Settling, Charging, Within, Executed, Target,
     InSync, Placing, Unlocking, IsRow

\* Whatever leaves the rows, the trades and the request alone.
LEMMA NothingCharges ==
    ASSUME Agreed, UNCHANGED <<orders, fresh, paid, cost, received, size, req>> PROVE Charged'
<1> SUFFICES ASSUME NEW t \in Threads
             PROVE  (\A x \in Rows : ChargedRow(req[t], x)') /\ ChargedRequest(req[t])'
  BY DEF Charged, Rows
<1>1. (\A x \in Rows : ChargedRow(req[t], x)) /\ ChargedRequest(req[t])
  BY DEF Agreed, Charged
<1>2. \A x : Executed(x)' = Executed(x)
  BY DEF Executed
<1> QED BY <1>1, <1>2 DEF ChargedRow, ChargedRequest, Settling, Charging, Within, Target,
     InSync, Placing, Unlocking, IsRow

LEMMA TargetIsRow ==
    ASSUME NEW r, Allowed(r), RequestReal(r), Charging(r)
    PROVE  Target(r) \in Rows /\ (Placing(r) \/ InLoop(r))
<1>1. CASE r.kind \in {"limit", "market"}
  <2>1. Placing(r) /\ Target(r) = r.row
    BY <1>1 DEF Charging, Unlocking, Placing, Target, InSync
  <2> QED BY <2>1 DEF RequestReal, PlacingReal
<1>2. CASE r.kind \in {"sync", "cancel"}
  <2>1. InLoop(r) /\ InSync(r)
    BY <1>2 DEF Charging, Unlocking, InLoop, InSync, Allowed, Control, At
  <2>2. r.todo # <<>> /\ r.todo \in Seq(Todo)
    BY <2>1 DEF Allowed, Control, Typed, Fits, Fields
  <2>3. Head(r.todo) \in Todo
    BY <2>2, InTail
  <2> QED BY <2>1, <2>3 DEF Target, Todo
<1> QED BY <1>1, <1>2 DEF Charging, Unlocking, Allowed, Control, At

\* A row of which others take a part.
LEMMA RowTrades ==
    ASSUME StateOK, Known, ChargesTyped, NEW r, NEW w, NEW x \in Rows, ChargedRow(r, x), Trading(x),
           UNCHANGED <<orders, fresh, paid>>, Settling(r, x) => Settling(w, x)'
    PROVE  ChargedRow(w, x)'
<1>1. PICK p \in Nat, f \in Nat, m \in Nat :
         m = paid[x] /\ p = orders[x].price /\ f = orders[x].filled
  BY DEF ChargesTyped, RowSet
<1>2. PICK v \in Int : v = Scale * m
  OBVIOUS
<1>3. m = paid[x] /\ v = Scale * m /\ p = orders[x].price /\ f = orders[x].filled
  BY <1>1, <1>2
<1>4. IsRow(x) => Within(x, v, 0, 0)'
  <2> SUFFICES ASSUME IsRow(x) PROVE Within(x, v, 0, 0)'
    OBVIOUS
  <2>1. Within(x, v, 0, 0)
    BY <1>3 DEF ChargedRow
  <2>2. 0 \in Int
    OBVIOUS
  <2> QED BY <2>1, <2>2, WithinTrades
<1>5. IsRow(x) /\ x \in fresh /\ orders[x].bid /\ ~ Settling(r, x) => Within(x, v, p, f)'
  <2> SUFFICES ASSUME IsRow(x), x \in fresh, orders[x].bid, ~ Settling(r, x) PROVE Within(x, v, p, f)'
    OBVIOUS
  <2>1. Within(x, v, p, f)
    BY <1>3 DEF ChargedRow
  <2>2. x \notin OnBook \/ p = price[x]
    BY <1>3 DEF Known, RowKnown
  <2>3. p \in Int /\ f \in Int
    OBVIOUS
  <2> QED BY <2>1, <2>2, <2>3, WithinTrades
<1>6. cost'[x] \in Nat /\ (x \notin received' => paid'[x] = 0 /\ cost'[x] = 0)
  <2>1. PICK c \in Nat, q \in Nat, a \in Nat, b \in Nat :
           c = cost[x] /\ q = price[x] /\ a = size[x] /\ b = size'[x] /\ b <= a
    BY DEF ChargesTyped, Trading
  <2>2. PICK d \in Nat : d = a - b
    BY <2>1
  <2>3. q * d \in Nat /\ cost'[x] = c + q * d
    BY <2>1, <2>2 DEF Trading
  <2>4. x \notin received' => d = 0
    BY <2>1, <2>2, OnBookSides DEF Trading, StateOK, EngineOK, Rests
  <2>5. q * 0 = 0
    OBVIOUS
  <2>6. x \notin received' => cost'[x] = c
    BY <2>3, <2>4, <2>5
  <2> QED BY <2>1, <2>3, <2>6 DEF Trading, ChargedRow
<1>7. Within(x, v, 0, 0)' <=> Within(x, Scale * paid[x], 0, 0)'
  BY <1>3 DEF Within
<1>8. Within(x, v, p, f)' <=> Within(x, Scale * paid[x], orders[x].price, orders[x].filled)'
  BY <1>3 DEF Within
<1> QED BY <1>3, <1>4, <1>5, <1>6, <1>7, <1>8 DEF ChargedRow, IsRow

\* A handler whose order others take a part of.
LEMMA RequestTrades ==
    ASSUME StateOK, Known, ChargesTyped, NEW r, Allowed(r), RequestReal(r), ChargedRequest(r),
           \A x \in Rows : Trading(x), UNCHANGED <<orders, paid>>
    PROVE  ChargedRequest(r)'
<1>1. CASE ~ Charging(r)
  BY <1>1 DEF ChargedRequest, Charging, Unlocking
<1>2. CASE Charging(r)
  <2>1. PICK x \in Rows : x = Target(r)
    BY <1>2, TargetIsRow
  <2>2. PICK p \in Nat : p = orders[x].price
    BY DEF ChargesTyped, RowSet
  <2>3. x \notin OnBook \/ p = price[x]
    BY <2>2 DEF Known, RowKnown
  <2>4. Trading(x) /\ p \in Int
    OBVIOUS
  <2>5. \A v, f \in Int : Within(x, v, p, f) => Within(x, v, p, f)'
    <3> SUFFICES ASSUME NEW v \in Int, NEW f \in Int, Within(x, v, p, f) PROVE Within(x, v, p, f)'
      OBVIOUS
    <3> QED BY <2>3, <2>4, WithinTrades
  <2>6. PICK pp \in Nat, g \in Nat, f \in Nat, m \in Nat, d \in Nat, y \in Nat :
           pp = r.paidPrice /\ g = r.got /\ f = r.filled /\ m = r.notional /\ d = r.debit /\ y = paid[x]
    BY DEF Allowed, Typed, Fits, Fields, ChargesTyped
  <2>7. pp * g \in Int /\ Scale * m \in Int /\ Scale * (y + d) \in Int /\ Scale * y \in Int
        /\ g \in Int /\ f \in Int
    OBVIOUS
  <2>8. Within(x, pp * g, p, g) => Within(x, pp * g, p, g)'
    BY <2>5, <2>7
  <2>9. Within(x, Scale * m, p, f) => Within(x, Scale * m, p, f)'
    BY <2>5, <2>7
  <2>10. Within(x, Scale * (y + d), p, f) => Within(x, Scale * (y + d), p, f)'
    BY <2>5, <2>7
  <2>11. Within(x, Scale * y, p, f) => Within(x, Scale * y, p, f)'
    BY <2>5, <2>7
  <2>12. Target(r)' = Target(r)
    BY DEF Target, InSync
  <2>13. paid'[x] = y /\ orders'[x].price = p
    BY <2>2, <2>6
  <2>14. r.pc = "readSize" /\ r.bid => Within(x, r.paidPrice * r.got, p, r.got)'
    BY <2>1, <2>2, <2>6, <2>8 DEF ChargedRequest, Within
  <2>15. r.pc = "readStatus" /\ r.bid => Within(x, Scale * r.notional, p, r.filled)'
    BY <2>1, <2>2, <2>6, <2>9 DEF ChargedRequest, Within
  <2>16. r.pc = "debit" => Within(x, Scale * (y + r.debit), p, r.filled)'
    BY <2>1, <2>2, <2>6, <2>10 DEF ChargedRequest, Within
  <2>17. (r.pc = "update" \/ (Unlocking(r) /\ r.next = "update")) /\ orders[x].bid =>
            Within(x, Scale * y, p, r.filled)'
    BY <2>1, <2>2, <2>6, <2>11 DEF ChargedRequest, Within
  <2>18. Placing(r) /\ r.pc \in {"readSize", "readStatus", "debit"} => paid'[x] = 0
    BY <2>1, <2>6, <2>13 DEF ChargedRequest
  <2> QED BY <2>1, <2>12, <2>13, <2>14, <2>15, <2>16, <2>17, <2>18
          DEF ChargedRequest, Within, Placing, Unlocking
<1> QED BY <1>1, <1>2

LEMMA OtherOrderCharged ==
    ASSUME OneAtATime, Agreed, StateOK', OtherOrder PROVE Charged'
<1> SUFFICES ASSUME NEW t \in Threads
             PROVE  (\A x \in Rows : ChargedRow(req[t], x)') /\ ChargedRequest(req[t])'
  BY DEF Charged, Rows
<1>1. PICK r : r = req[t]
  OBVIOUS
<1>2. /\ StateOK /\ Known /\ Allowed(r) /\ RequestReal(r) /\ ChargedRequest(r)
      /\ \A x \in Rows : ChargedRow(r, x)
  BY <1>1 DEF Agreed, Charged, Real, StateOK, ReqOK
<1>3. ChargesTyped
  BY <1>2, ChargesAreTyped
<1>4. PICK o \in AllOrders \ Rows, b \in BOOLEAN, p \in Nat, n \in Sizes : Placed(o, b, p, n) /\ Traded(o)
  BY <1>2, OtherPlaced DEF StateOK
<1>5. \A x \in Rows \ {o} : Trading(x)
  BY <1>2, <1>3, <1>4, PlacedTrading
<1>6. \A x \in Rows : Trading(x)
  BY <1>4, <1>5
<1>7. UNCHANGED <<orders, fresh, paid>> /\ req'[t] = r
  BY <1>1 DEF OtherOrder, db
<1>8. \A x \in Rows : ChargedRow(r, x)'
  <2> SUFFICES ASSUME NEW x \in Rows PROVE ChargedRow(r, x)'
    OBVIOUS
  <2>1. Settling(r, x) => Settling(r, x)'
    BY DEF Settling, Charging, Unlocking, InSync, Target
  <2> QED BY <1>2, <1>3, <1>6, <1>7, <2>1, RowTrades
<1>9. ChargedRequest(r)'
  BY <1>2, <1>3, <1>6, <1>7, RequestTrades
<1> QED BY <1>7, <1>8, <1>9 DEF ChargedRow, ChargedRequest, Settling, Charging, Within, Executed, Target,
     InSync, Placing, Unlocking, IsRow

\* What the trades of an order that is placed for n cost it.
LEMMA OwnTrades ==
    ASSUME StateOK, ChargesTyped, NEW o \in Rows, o \notin received, cost[o] = 0,
           NEW b \in BOOLEAN, NEW p, NEW n \in Nat, Placed(o, b, p, n), Traded(o),
           orders'[o].quantity = n
    PROVE  LET g == SizeFilled(matches')
           IN  /\ g \in Nat /\ Executed(o)' = g /\ g = n - size'[o] /\ o \in received' /\ cost'[o] \in Nat
               /\ matches' = <<>> => g = 0
               /\ matches' # <<>> => /\ VWAP(matches') \in Nat /\ g > 0
                                     /\ VWAP(matches') * (2 * g) <= 2 * cost'[o] + g
                                     /\ \E q \in Prices : q <= VWAP(matches')
<1>1. PICK ms : ms = matches'
  OBVIOUS
<1>2. PICK g : g = SizeFilled(ms)
  OBVIOUS
<1>3. /\ g \in Nat /\ g = n - size'[o] /\ \A K \in SUBSET DOMAIN ms : Value(ms, K) \in Nat
      /\ ms # <<>> => g > 0
      /\ g > 0 => VWAP(ms) \in Nat
  BY <1>1, <1>2, TradedTyped DEF StateOK
<1>4. o \in received' /\ Executed(o)' = g
  BY <1>3 DEF Placed, Executed
<1>5. cost'[o] = Value(ms, DOMAIN ms)
  <2>1. {k \in DOMAIN matches' : o \in {o, matches'[k].maker}} = DOMAIN ms
    BY <1>1
  <2>2. cost'[o] = 0 + Value(ms, DOMAIN ms)
    BY <1>1, <2>1 DEF Traded
  <2>3. Value(ms, DOMAIN ms) \in Nat
    BY <1>3
  <2> QED BY <2>2, <2>3
<1>6. cost'[o] \in Nat
  BY <1>3, <1>5
<1>7. ASSUME ms = <<>> PROVE g = 0
  <2>1. DOMAIN ms = {}
    BY <1>7, EmptySequence
  <2> QED BY <1>2, <2>1, SumEmpty DEF SizeFilled
<1>8. ASSUME ms # <<>>
      PROVE  /\ VWAP(ms) \in Nat /\ g > 0 /\ VWAP(ms) * (2 * g) <= 2 * cost'[o] + g
             /\ \E q \in Prices : q <= VWAP(ms)
  <2>1. IsFiniteSet(DOMAIN ms)
    BY <1>1 DEF Placed, Trades
  <2>2. \A k \in DOMAIN ms : ms[k].size \in Nat /\ ms[k].price \in Prices
    <3> SUFFICES ASSUME NEW k \in DOMAIN ms PROVE ms[k].size \in Nat /\ ms[k].price \in Prices
      OBVIOUS
    <3>1. ms[k].maker \in ToSet(book[~b]) /\ ms[k].price = price[ms[k].maker] /\ ms[k].size \in Nat
      BY <1>1 DEF Placed, Trades
    <3> QED BY <3>1, BothSides DEF StateOK, EngineOK, Rests
  <2>3. /\ SizeFilled(ms) > 0 /\ \A k \in DOMAIN ms : ms[k].size \in Nat /\ ms[k].price \in Nat
    BY <1>2, <1>3, <1>8, <2>2
  <2>4. PICK a \in Nat : a = VWAP(ms)
    BY <1>2, <1>3, <2>3
  <2>5. a * (2 * g) <= 2 * Value(ms, DOMAIN ms) + g
    BY <1>2, <2>1, <2>3, <2>4, VWAPBounds
  <2>6. \E q \in Prices : q <= a
    <3> SUFFICES ASSUME \A q \in Prices : ~ (q <= a) PROVE FALSE
      OBVIOUS
    <3>1. a + 1 \in Nat /\ \A k \in DOMAIN ms : ms[k].price >= a + 1
      BY <2>2, <2>3
    <3>2. VWAP(ms) >= a + 1
      BY <2>1, <2>3, <3>1, VWAPBounds
    <3> QED BY <2>4, <3>2
  <2> QED BY <1>2, <1>5, <2>3, <2>4, <2>5, <2>6
<1> QED BY <1>1, <1>2, <1>3, <1>4, <1>6, <1>7, <1>8

\* The row of the order that was placed, until the handler settles it.
LEMMA PlacedCharged ==
    ASSUME NEW w, NEW x, paid'[x] = 0, cost'[x] \in Nat, Executed(x)' \in Nat, x \in received',
           Settling(w, x)'
    PROVE  ChargedRow(w, x)'
<1>1. PICK c \in Nat, e \in Nat : c = cost'[x] /\ e = Executed(x)'
  OBVIOUS
<1>2. 2 * (Scale * 0) + 2 * (0 * (e - 0)) <= 2 * c + e
  OBVIOUS
<1> QED BY <1>1, <1>2 DEF ChargedRow, Within

LEMMA PlaceLimitCharged ==
    ASSUME OneAtATime, Agreed, StateOK', NEW t \in Threads, PlaceLimit(t) PROVE Charged'
<1>1. PICK r : r = req[t]
  OBVIOUS
<1>2. /\ StateOK /\ Known /\ Allowed(r) /\ RequestReal(r) /\ Knows(r) /\ r.pc = "place" /\ r.kind = "limit"
      /\ \A x \in Rows : ChargedRow(r, x)
  BY <1>1 DEF Agreed, Charged, Real, Known, StateOK, ReqOK, PlaceLimit
<1>3. ChargesTyped
  BY <1>2, ChargesAreTyped
<1>4. Placing(r) /\ r.price \in Prices /\ r.quantity \in Sizes /\ r.bid \in BOOLEAN
  BY <1>2 DEF Placing, Allowed, Control, Typed, Fits, Fields
<1>5. PICK o \in Rows : o = r.row /\ o \notin received /\ orders[o].quantity = r.quantity
  BY <1>2, <1>4 DEF RequestReal, PlacingReal
<1>6. E!LimitOrder(o, r.bid, r.price, r.quantity) /\ Traded(o) /\ UNCHANGED <<orders, fresh, paid>>
  BY <1>1, <1>5 DEF PlaceLimit, db
<1>7. Placed(o, r.bid, r.price, r.quantity)
  BY <1>2, <1>4, <1>6, LimitPlaced DEF StateOK
<1>8. cost[o] = 0 /\ paid[o] = 0 /\ r.quantity \in Nat
  BY <1>2, <1>4, <1>5 DEF ChargedRow
<1>9. PICK g : g = SizeFilled(matches')
  OBVIOUS
<1>10. /\ g \in Nat /\ Executed(o)' = g /\ o \in received' /\ cost'[o] \in Nat
       /\ matches' = <<>> => g = 0
       /\ matches' # <<>> => VWAP(matches') \in Nat /\ g > 0 /\ VWAP(matches') * (2 * g) <= 2 * cost'[o] + g
  BY <1>2, <1>3, <1>4, <1>5, <1>6, <1>7, <1>8, <1>9, OwnTrades
<1>11. PICK pp : pp = IF matches' = <<>> THEN r.price ELSE VWAP(matches')
  OBVIOUS
<1>12. pp \in Nat /\ pp * (2 * g) <= 2 * cost'[o] + g
  <2>1. CASE matches' = <<>>
    <3>1. pp \in Nat /\ g = 0
      BY <1>4, <1>10, <1>11, <2>1
    <3>2. pp * (2 * 0) = 0
      BY <3>1
    <3> QED BY <1>10, <3>1, <3>2
  <2>2. CASE matches' # <<>>
    BY <1>10, <1>11, <2>2
  <2> QED BY <2>1, <2>2
<1>13. PICK f : f = [pc |-> "readSize", got |-> g, paidPrice |-> pp]
  OBVIOUS
<1>14. Set(t, f)
  BY <1>1, <1>9, <1>11, <1>13 DEF PlaceLimit
<1>15. DOMAIN f = {"pc", "got", "paidPrice"} /\ f.pc = "readSize" /\ f.got = g /\ f.paidPrice = pp
  BY <1>13
<1>16. PICK w : w = req'[t]
  OBVIOUS
<1>17. "kind" \notin DOMAIN f /\ "row" \notin DOMAIN f /\ "pc" \in DOMAIN f
  BY <1>15
<1>18. w = With(r, f) /\ w.kind = "limit" /\ w.pc = "readSize" /\ w.row = o
  BY <1>1, <1>2, <1>5, <1>14, <1>15, <1>16, <1>17, SetTo
<1>19. DOMAIN r = Fields
  BY <1>2 DEF Allowed, Typed
<1>20. w.got = g
  BY <1>15, <1>18, <1>19, WithLocals
<1>21. w.paidPrice = pp
  BY <1>15, <1>18, <1>19, WithMoney
<1>22. Target(w) = o /\ Settling(w, o)'
  BY <1>18 DEF Target, InSync, Settling, Charging
<1>23. \A x \in Rows : ChargedRow(w, x)'
  <2> SUFFICES ASSUME NEW x \in Rows PROVE ChargedRow(w, x)'
    OBVIOUS
  <2>1. CASE x = o
    BY <1>6, <1>8, <1>10, <1>22, <2>1, PlacedCharged
  <2>2. CASE x # o
    <3>1. Trading(x)
      BY <1>2, <1>3, <1>4, <1>6, <1>7, <2>2, PlacedTrading
    <3>2. ~ Settling(r, x)
      BY <1>2 DEF Settling, Charging, Unlocking
    <3> QED BY <1>2, <1>3, <1>6, <3>1, <3>2, RowTrades
  <2> QED BY <2>1, <2>2
<1>24. Within(o, pp * g, orders[o].price, g)'
  <2>1. PICK c \in Nat, q \in Nat : c = cost'[o] /\ q = orders'[o].price
    BY <1>3, <1>6, <1>10 DEF ChargesTyped, RowSet
  <2>2. 2 * (pp * g) = pp * (2 * g) /\ q * (g - g) = 0 /\ pp * g \in Nat
    BY <1>10, <1>12
  <2>3. 2 * (pp * g) + 2 * (q * (g - g)) <= 2 * c + g
    BY <1>10, <1>12, <2>1, <2>2
  <2> QED BY <1>10, <2>1, <2>3 DEF Within
<1>25. ChargedRequest(w)'
  BY <1>6, <1>8, <1>18, <1>20, <1>21, <1>22, <1>24 DEF ChargedRequest, Target, InSync, Within, Unlocking
<1> QED BY <1>16, <1>23, <1>25, ChargedStep

\* Whatever is filled is worth something: a market buy is not charged its estimate.
NothingIsFree == \A p \in Prices, q \in Sizes : Notional(p, q) > 0

LEMMA PlaceMarketCharged ==
    ASSUME NothingIsFree, OneAtATime, Agreed, StateOK', NEW t \in Threads, PlaceMarket(t) PROVE Charged'
<1>1. PICK r : r = req[t]
  OBVIOUS
<1>2. /\ StateOK /\ Known /\ Allowed(r) /\ RequestReal(r) /\ Knows(r) /\ r.pc = "place" /\ r.kind = "market"
      /\ \A x \in Rows : ChargedRow(r, x)
  BY <1>1 DEF Agreed, Charged, Real, Known, StateOK, ReqOK, PlaceMarket
<1>3. ChargesTyped
  BY <1>2, ChargesAreTyped
<1>4. Placing(r) /\ r.quantity \in Sizes /\ r.bid \in BOOLEAN
  BY <1>2 DEF Placing, Allowed, Control, Typed, Fits, Fields
<1>5. PICK o \in Rows : o = r.row /\ o \notin received /\ orders[o].quantity = r.quantity /\ orders[o].filled = 0
  BY <1>2, <1>4 DEF RequestReal, PlacingReal
<1>6. UNCHANGED <<orders, fresh, paid>> /\ orders[o].bid = r.bid
  BY <1>1, <1>2, <1>4, <1>5 DEF PlaceMarket, db, Knows, PlacingKnows
<1>7. cost[o] = 0 /\ paid[o] = 0
  BY <1>2, <1>5 DEF ChargedRow
<1>8. PICK n \in Sizes : n = r.quantity
  BY <1>4
<1>14. n \in Nat /\ n > 0
  OBVIOUS
<1>9. PICK w : w = req'[t]
  OBVIOUS
<1>10. \A x \in Rows : ~ Settling(r, x)
  BY <1>2 DEF Settling, Charging, Unlocking
<1>11. DOMAIN r = Fields
  BY <1>2 DEF Allowed, Typed
<1>12. CASE E!MarketOrder(o, r.bid, n) /\ Traded(o) /\
            LET v == Notional(VWAP(matches'), r.quantity)
                u == IF v > 0 \/ ~ r.bid THEN v
                     ELSE IF r.estimate > 0 THEN r.estimate ELSE Notional(r.price, r.quantity)
            IN  Set(t, [pc |-> IF r.bid THEN "debit" ELSE "update", filled |-> r.quantity,
                        notional |-> u, debit |-> u, unlock |-> 0, status |-> "FILLED"])
  <2>1. Placed(o, r.bid, 0, n) /\ size'[o] = 0
    BY <1>2, <1>4, <1>8, <1>14, <1>12, MarketPlaced DEF StateOK
  <2>2. /\ Executed(o)' = n /\ o \in received' /\ cost'[o] \in Nat
        /\ VWAP(matches') \in Nat /\ VWAP(matches') * (2 * n) <= 2 * cost'[o] + n
        /\ \E q \in Prices : q <= VWAP(matches')
    <3>1. PICK g : g = SizeFilled(matches')
      OBVIOUS
    <3>2. orders'[o].quantity = n /\ Traded(o) /\ n \in Nat /\ r.bid \in BOOLEAN /\ StateOK
      BY <1>2, <1>4, <1>5, <1>6, <1>8, <1>14, <1>12
    <3>3. /\ g \in Nat /\ Executed(o)' = g /\ g = n - size'[o] /\ o \in received' /\ cost'[o] \in Nat
          /\ matches' = <<>> => g = 0
          /\ matches' # <<>> => /\ VWAP(matches') \in Nat /\ g > 0
                                /\ VWAP(matches') * (2 * g) <= 2 * cost'[o] + g
                                /\ \E q \in Prices : q <= VWAP(matches')
      <4>1. PICK z : z = 0
        OBVIOUS
      <4>2. Placed(o, r.bid, z, n)
        BY <2>1, <4>1
      <4>3. LET h == SizeFilled(matches')
            IN  /\ h \in Nat /\ Executed(o)' = h /\ h = n - size'[o] /\ o \in received' /\ cost'[o] \in Nat
                /\ matches' = <<>> => h = 0
                /\ matches' # <<>> => /\ VWAP(matches') \in Nat /\ h > 0
                                      /\ VWAP(matches') * (2 * h) <= 2 * cost'[o] + h
                                      /\ \E q \in Prices : q <= VWAP(matches')
        BY <1>3, <1>5, <1>7, <3>2, <4>2, OwnTrades
      <4> QED BY <3>1, <4>3
    <3>4. g = n /\ matches' # <<>>
      BY <1>14, <2>1, <3>3
    <3> QED BY <3>3, <3>4
  <2>3. PICK a \in Nat, c \in Nat : a = VWAP(matches') /\ c = cost'[o]
    BY <2>2
  <2>4. PICK v \in Nat : v = Notional(a, n) /\ v > 0
    <3>1. PICK q \in Prices : q <= a
      BY <2>2, <2>3
    <3>2. Notional(q, n) <= Notional(a, n)
      BY <3>1, NotionalGrows
    <3>3. Notional(a, n) \in Nat /\ Notional(q, n) \in Nat
      BY <3>1, NotionalNat
    <3>4. Notional(q, n) > 0
      BY <1>8, <1>14 DEF NothingIsFree
    <3> QED BY <3>2, <3>3, <3>4
  <2>5. PICK f : f = [pc |-> IF r.bid THEN "debit" ELSE "update", filled |-> n,
                      notional |-> v, debit |-> v, unlock |-> 0, status |-> "FILLED"]
    OBVIOUS
  <2>6. Set(t, f)
    <3>1. v = Notional(VWAP(matches'), r.quantity) /\ n = r.quantity
      BY <1>8, <1>14, <2>3, <2>4
    <3> QED BY <1>12, <2>4, <2>5, <3>1
  <2>7. /\ DOMAIN f = {"pc", "filled", "notional", "debit", "unlock", "status"}
        /\ f.pc = (IF r.bid THEN "debit" ELSE "update") /\ f.filled = n /\ f.debit = v
    BY <2>5
  <2>8. "kind" \notin DOMAIN f /\ "row" \notin DOMAIN f /\ "pc" \in DOMAIN f
    BY <2>7
  <2>9. w = With(r, f) /\ w.kind = "market" /\ w.pc = f.pc /\ w.row = o
    BY <1>1, <1>2, <1>5, <1>9, <2>6, <2>8, SetTo
  <2>10. w.filled = n
    BY <1>11, <2>7, <2>9, WithLocals
  <2>11. w.debit = v
    BY <1>11, <2>7, <2>9, WithMoney
  <2>12. Target(w) = o /\ w.pc \in {"debit", "update"} /\ ~ InSync(w)
    BY <2>7, <2>9 DEF Target, InSync
  <2>13. \A x \in Rows : ChargedRow(w, x)'
    <3> SUFFICES ASSUME NEW x \in Rows PROVE ChargedRow(w, x)'
      OBVIOUS
    <3>1. CASE x = o
      <4>1. Settling(w, o)'
        BY <2>12 DEF Settling, Charging, InSync, Target
      <4> QED BY <1>6, <1>7, <2>2, <3>1, <4>1, PlacedCharged
    <3>2. CASE x # o
      <4>1. Trading(x)
        BY <1>2, <1>3, <1>4, <1>12, <2>1, <3>2, PlacedTrading
      <4> QED BY <1>2, <1>3, <1>6, <1>10, <4>1, RowTrades
    <3> QED BY <3>1, <3>2
  <2>14. Within(o, Scale * (paid[o] + v), orders[o].price, n)'
    <3>1. PICK q \in Nat : q = orders'[o].price
      BY <1>3, <1>6 DEF ChargesTyped, RowSet
    <3>2. PICK y \in Nat, z \in Nat : y = Scale * v /\ z = a * n
      OBVIOUS
    <3>3. y <= z
      BY <2>4, <3>2, NotionalScale
    <3>4. a * (2 * n) = 2 * z /\ q * (n - n) = 0 /\ Scale * (0 + v) = y
      BY <3>2
    <3>5. 2 * (Scale * (0 + v)) + 2 * (q * (n - n)) <= 2 * c + n
      BY <2>2, <2>3, <3>3, <3>4
    <3> QED BY <1>6, <1>7, <2>2, <2>3, <3>1, <3>5 DEF Within
  <2>15. w.pc = "update" => ~ orders'[o].bid
    BY <1>6, <2>7, <2>9
  <2>16. ChargedRequest(w)'
    BY <1>6, <1>7, <2>10, <2>11, <2>12, <2>14, <2>15
       DEF ChargedRequest, Target, InSync, Within, Unlocking
  <2> QED BY <1>9, <2>13, <2>16, ChargedStep
<1>13. CASE E!RefuseMarketOrder(o, r.bid, n) /\ Set(t, [pc |-> "delete"]) /\ UNCHANGED cost
  <2>1. received' = received \cup {o} /\ size' = [size EXCEPT ![o] = n]
    BY <1>2, <1>4, <1>8, <1>14, <1>13, MarketRefused DEF StateOK
  <2>2. size'[o] = n /\ \A x \in Rows \ {o} : size'[x] = size[x]
    BY <1>2, <2>1 DEF StateOK, EngineOK, EngineTyped, AllOrders, Rows, Others
  <2>3. PICK f : f = [pc |-> "delete"]
    OBVIOUS
  <2>4. w.pc = "delete"
    BY <1>1, <1>2, <1>9, <1>13, <2>3, SetTo
  <2>5. \A x \in Rows : ChargedRow(w, x)'
    <3> SUFFICES ASSUME NEW x \in Rows PROVE ChargedRow(w, x)'
      OBVIOUS
    <3>1. CASE x = o
      <4>1. Executed(o)' = 0
        BY <1>5, <1>6, <1>8, <1>14, <2>1, <2>2 DEF Executed
      <4>2. orders'[o].filled = 0 /\ orders'[o].price \in Int
        BY <1>3, <1>5, <1>6 DEF ChargesTyped, RowSet
      <4> QED BY <1>6, <1>7, <1>13, <3>1, <4>1, <4>2, NothingCharged
    <3>2. CASE x # o
      <4>1. Executed(x)' = Executed(x) /\ (x \in received' <=> x \in received)
        BY <1>6, <2>1, <2>2, <3>2 DEF Executed
      <4> QED BY <1>2, <1>6, <1>10, <1>13, <4>1 DEF ChargedRow, Within, IsRow
    <3> QED BY <3>1, <3>2
  <2>6. ChargedRequest(w)'
    BY <2>4 DEF ChargedRequest, Charging, Unlocking
  <2> QED BY <1>9, <2>5, <2>6, ChargedStep
<1> QED BY <1>1, <1>5, <1>8, <1>14, <1>12, <1>13 DEF PlaceMarket

\* A step that trades nothing and charges nothing, of a handler on its way.
LEMMA ChargedOn ==
    ASSUME OneAtATime, Agreed, NEW t \in Threads, NEW w, req'[t] = w, ChargedRequest(w),
           UNCHANGED <<orders, fresh, paid, cost, received, size>>,
           \A x \in Rows : Settling(req[t], x) =>
              Settling(w, x) \/ Within(x, Scale * paid[x], orders[x].price, orders[x].filled)
    PROVE  Charged'
<1>1. PICK r : r = req[t]
  OBVIOUS
<1>2. \A x \in Rows : ChargedRow(r, x)
  BY <1>1 DEF Agreed, Charged
<1>3. \A x \in Rows : ChargedRow(w, x)'
  <2> SUFFICES ASSUME NEW x \in Rows PROVE ChargedRow(w, x)'
    OBVIOUS
  <2>1. Settling(w, x)' <=> Settling(w, x)
    BY DEF Settling, Charging, Unlocking, InSync, Target
  <2> QED BY <1>1, <1>2, <2>1, RowStaysCharged DEF IsRow
<1>4. ChargedRequest(w)'
  <2>1. \A x : Executed(x)' = Executed(x)
    BY DEF Executed
  <2> QED BY <2>1 DEF ChargedRequest, Within, Target, InSync, Placing, Unlocking
<1> QED BY <1>3, <1>4, ChargedStep

LEMMA ReadSizeCharged ==
    ASSUME OneAtATime, Agreed, StateOK', NEW t \in Threads, ReadSize(t) PROVE Charged'
<1>1. PICK r : r = req[t]
  OBVIOUS
<1>2. /\ StateOK /\ Allowed(r) /\ RequestReal(r) /\ Knows(r) /\ r.pc = "readSize" /\ r.kind = "limit"
      /\ ChargedRequest(r) /\ \A x \in Rows : ChargedRow(r, x)
  BY <1>1 DEF Agreed, Charged, Real, Known, StateOK, ReqOK, ReadSize, Allowed, Control, At
<1>3. ChargesTyped
  BY <1>2, ChargesAreTyped
<1>4. PICK o \in Rows : o = r.row /\ o = Target(r)
  BY <1>2 DEF RequestReal, Placing, PlacingReal, Target, InSync
<1>5. PICK pp \in Nat, g \in Nat, n \in Nat, s \in Nat, p \in Nat :
         pp = r.paidPrice /\ g = r.got /\ n = r.quantity /\ s = size[o] /\ p = orders[o].price
  BY <1>2, <1>3 DEF Allowed, Typed, Fits, Fields, ChargesTyped, RowSet
<1>6. PICK m \in Int : m = Max({n - s, g}) /\ g <= m
  <2>1. PICK d \in Int : d = n - s
    OBVIOUS
  <2>2. PICK m \in Int : m = Max({d, g}) /\ g <= m
    BY MaxOfTwo
  <2> QED BY <2>1, <2>2
<1>7. m = FilledSoFar(r) /\ m \in Nat
  BY <1>4, <1>5, <1>6 DEF FilledSoFar
<1>8. PICK v \in Nat : v = Notional(pp, m) /\ Scale * v <= pp * m
  BY <1>7, NotionalNat, NotionalScale
<1>9. PICK f : f = [pc |-> "readStatus", filled |-> m, notional |-> v]
  OBVIOUS
<1>10. Set(t, f)
  BY <1>1, <1>5, <1>7, <1>8, <1>9 DEF ReadSize
<1>11. DOMAIN f = {"pc", "filled", "notional"} /\ f.pc = "readStatus" /\ f.filled = m /\ f.notional = v
  BY <1>9
<1>12. "kind" \notin DOMAIN f /\ "row" \notin DOMAIN f /\ "pc" \in DOMAIN f /\ "bid" \notin DOMAIN f
  BY <1>11
<1>13. PICK w : w = req'[t]
  OBVIOUS
<1>14. w = With(r, f) /\ w.kind = "limit" /\ w.pc = "readStatus" /\ w.row = o
  <2>1. w = With(r, f) /\ w.kind = r.kind /\ w.pc = f.pc /\ w.row = r.row
    BY <1>1, <1>2, <1>10, <1>12, <1>13, SetTo
  <2> QED BY <1>2, <1>4, <1>11, <2>1
<1>15. DOMAIN r = Fields
  BY <1>2 DEF Allowed, Typed
<1>16. w.filled = m
  BY <1>11, <1>14, <1>15, WithLocals
<1>17. w.notional = v
  BY <1>11, <1>14, <1>15, WithMoney
<1>18. w.bid = r.bid
  BY <1>12, <1>14, <1>15, WithMoney
<1>19. Target(w) = o /\ Settling(w, o) /\ paid[o] = 0
  BY <1>2, <1>4, <1>14 DEF Target, InSync, Settling, Charging, ChargedRequest, Placing
<1>20. r.bid => Within(o, Scale * v, p, m)
  <2> SUFFICES ASSUME r.bid PROVE Within(o, Scale * v, p, m)
    OBVIOUS
  <2>1. pp <= p
    BY <1>2, <1>4, <1>5 DEF Knows, LimitKnows, Placing, PlacingKnows
  <2>2. PICK a \in Int, u \in Int : a = pp * g /\ u = Scale * v
    OBVIOUS
  <2>3. Within(o, a, p, g)
    BY <1>2, <1>4, <1>5, <2>2 DEF ChargedRequest
  <2>4. PICK d \in Nat : d = m - g
    BY <1>6, <1>7
  <2>5. pp * m = a + pp * d /\ pp * d <= p * d
    BY <2>1, <2>2, <2>4
  <2>6. u <= a + p * (m - g)
    BY <1>8, <2>2, <2>4, <2>5
  <2>7. Executed(o) \in Int /\ cost[o] \in Int
    BY <1>3 DEF ChargesTyped
  <2> QED BY <2>2, <2>3, <2>6, <2>7, WithinMoves
<1>21. ChargedRequest(w)
  BY <1>5, <1>14, <1>16, <1>17, <1>18, <1>19, <1>20 DEF ChargedRequest, Unlocking
<1>22. UNCHANGED <<orders, fresh, paid, cost, received, size>>
  BY DEF ReadSize, db, market, engine
<1>23. \A x \in Rows : Settling(r, x) => Settling(w, x)
  BY <1>4, <1>19 DEF Settling
<1> QED BY <1>1, <1>13, <1>21, <1>22, <1>23, ChargedOn

LEMMA ReadStatusCharged ==
    ASSUME OneAtATime, Agreed, StateOK', NEW t \in Threads, ReadStatus(t) PROVE Charged'
<1>1. PICK r : r = req[t]
  OBVIOUS
<1>2. /\ StateOK /\ Allowed(r) /\ RequestReal(r) /\ Knows(r) /\ r.pc = "readStatus" /\ r.kind = "limit"
      /\ ChargedRequest(r) /\ \A x \in Rows : ChargedRow(r, x)
  BY <1>1 DEF Agreed, Charged, Real, Known, StateOK, ReqOK, ReadStatus, Allowed, Control, At
<1>3. ChargesTyped
  BY <1>2, ChargesAreTyped
<1>4. PICK o \in Rows : o = r.row /\ o = Target(r) /\ orders[o].bid = r.bid
  BY <1>2 DEF RequestReal, Placing, PlacingReal, Target, InSync, Knows, PlacingKnows
<1>5. PICK g \in Nat, v \in Nat, p \in Nat : g = r.filled /\ v = r.notional /\ p = orders[o].price
  BY <1>2, <1>3 DEF Allowed, Typed, Fits, Fields, ChargesTyped, RowSet
<1>6. PICK f : f = [pc |-> IF r.bid /\ r.filled > 0 THEN "debit" ELSE "update",
                    debit |-> r.notional,
                    unlock |-> FilledLock(r),
                    status |-> IF size[r.row] = 0 THEN "FILLED"
                               ELSE IF r.filled > 0 THEN "PARTIALLY_FILLED" ELSE "OPEN"]
  OBVIOUS
<1>7. Set(t, f)
  BY <1>1, <1>6 DEF ReadStatus
<1>8. /\ DOMAIN f = {"pc", "debit", "unlock", "status"} /\ f.debit = v
      /\ f.pc = IF r.bid /\ g > 0 THEN "debit" ELSE "update"
  BY <1>5, <1>6
<1>9. "kind" \notin DOMAIN f /\ "row" \notin DOMAIN f /\ "pc" \in DOMAIN f /\ "filled" \notin DOMAIN f
  BY <1>8
<1>10. PICK w : w = req'[t]
  OBVIOUS
<1>11. w = With(r, f) /\ w.kind = "limit" /\ w.pc = f.pc /\ w.row = o
  <2>1. w = With(r, f) /\ w.kind = r.kind /\ w.pc = f.pc /\ w.row = r.row
    BY <1>1, <1>2, <1>7, <1>9, <1>10, SetTo
  <2> QED BY <1>2, <1>4, <2>1
<1>12. DOMAIN r = Fields
  BY <1>2 DEF Allowed, Typed
<1>13. w.filled = g
  BY <1>5, <1>9, <1>11, <1>12, WithLocals
<1>14. w.debit = v
  BY <1>8, <1>11, <1>12, WithMoney
<1>15. Target(w) = o /\ Settling(w, o) /\ paid[o] = 0
  BY <1>2, <1>4, <1>8, <1>11 DEF Target, InSync, Settling, Charging, ChargedRequest, Placing
<1>16. r.bid => Within(o, Scale * v, p, g)
  BY <1>2, <1>4, <1>5 DEF ChargedRequest
<1>17. orders[o].bid => Within(o, Scale * 0, p, g)
  <2> SUFFICES ASSUME orders[o].bid PROVE Within(o, Scale * 0, p, g)
    OBVIOUS
  <2>1. PICK a \in Nat, u \in Int : a = Scale * v /\ u = Scale * 0
    OBVIOUS
  <2>2. Within(o, a, p, g)
    BY <1>4, <1>16, <2>1
  <2>3. u <= a + p * (g - g)
    BY <2>1
  <2>4. Executed(o) \in Int /\ cost[o] \in Int
    BY <1>3 DEF ChargesTyped
  <2> QED BY <2>1, <2>2, <2>3, <2>4, WithinMoves
<1>18. w.pc = "debit" => Within(o, Scale * (0 + v), p, g)
  <2>1. 0 + v = v
    OBVIOUS
  <2> QED BY <1>8, <1>11, <1>16, <2>1
<1>19. ChargedRequest(w)
  BY <1>5, <1>8, <1>11, <1>13, <1>14, <1>15, <1>17, <1>18 DEF ChargedRequest, Unlocking
<1>20. UNCHANGED <<orders, fresh, paid, cost, received, size>>
  BY DEF ReadStatus, db, market, engine
<1>21. \A x \in Rows : Settling(r, x) => Settling(w, x)
  BY <1>4, <1>15 DEF Settling
<1> QED BY <1>1, <1>10, <1>19, <1>20, <1>21, ChargedOn

\* What has been taken is counted for every row.
PaidOK == DOMAIN paid = Rows

\* What is to be charged need not be.
LEMMA NotCharged ==
    ASSUME ChargesTyped, NEW x \in Rows, NEW d \in Nat, NEW f \in Nat,
           Within(x, Scale * (paid[x] + d), orders[x].price, f)
    PROVE  Within(x, Scale * paid[x], orders[x].price, f)
<1>1. PICK y \in Nat, p \in Nat : y = paid[x] /\ p = orders[x].price
  BY DEF ChargesTyped, RowSet
<1>2. PICK a \in Int, u \in Int : a = Scale * (y + d) /\ u = Scale * y
  OBVIOUS
<1>3. u <= a + p * (f - f)
  <2>1. Scale * (y + d) = Scale * y + Scale * d /\ Scale * d >= 0 /\ p * (f - f) = 0
    BY <1>1
  <2> QED BY <1>2, <2>1
<1>4. Executed(x) \in Int /\ cost[x] \in Int
  BY DEF ChargesTyped
<1>5. Within(x, a, p, f)
  BY <1>1, <1>2
<1>6. Within(x, u, p, f)
  BY <1>3, <1>4, <1>5, WithinMoves
<1> QED BY <1>1, <1>2, <1>6

LEMMA DebitCharged ==
    ASSUME OneAtATime, Agreed, PaidOK, StateOK', NEW t \in Threads, DebitWallet(t) PROVE Charged'
<1>1. PICK r : r = req[t]
  OBVIOUS
<1>2. /\ StateOK /\ Allowed(r) /\ RequestReal(r) /\ Knows(r) /\ r.pc = "debit" /\ failures = 0
      /\ ChargedRequest(r) /\ \A x \in Rows : ChargedRow(r, x)
  BY <1>1 DEF Agreed, Charged, Real, Known, StateOK, ReqOK, DebitWallet
<1>3. ChargesTyped
  BY <1>2, ChargesAreTyped
<1>4. Charging(r)
  BY <1>2 DEF Charging
<1>5. PICK x \in Rows : x = Target(r) /\ (Placing(r) \/ InLoop(r))
  BY <1>2, <1>4, TargetIsRow
<1>6. PICK y \in Nat, d \in Nat, p \in Nat, g \in Nat, a \in Nat, l \in Nat :
         y = paid[x] /\ d = r.debit /\ p = orders[x].price /\ g = r.filled /\ a = r.unlock /\ l = r.lock
  BY <1>2, <1>3 DEF Allowed, Typed, Fits, Fields, ChargesTyped, RowSet
<1>7. Within(x, Scale * (y + d), p, g)
  BY <1>2, <1>5, <1>6 DEF ChargedRequest
<1>8. PICK w : w = req'[t]
  OBVIOUS
<1>9. UNCHANGED <<orders, fresh, cost, received, size>>
  BY DEF DebitWallet, market, engine
<1>10. \A z \in Rows \ {x} : ~ Settling(r, z)
  BY <1>5 DEF Settling
<1>11. ASSUME NEW b \in Nat, Set(t, UnlockUpTo(b, "update"))
       PROVE  Target(w) = x /\ Settling(w, x) /\ w.filled = g /\ ~ w.pc \in {"readSize", "readStatus", "debit"}
  <2>1. PICK next : next = "update"
    OBVIOUS
  <2>2. /\ w.kind = r.kind /\ w.row = r.row /\ w.todo = r.todo /\ w.filled = r.filled
        /\ w.pc = (IF b > 0 THEN "unlockRead" ELSE next) /\ w.next = next
    BY <1>1, <1>2, <1>8, <1>11, <2>1, UnlocksNext
  <2>3. w.pc \in {"unlockRead", "update"} /\ w.next = "update"
    BY <2>1, <2>2
  <2>4. Target(w) = Target(r)
    BY <1>2, <2>2, <2>3 DEF Target, InSync
  <2> QED BY <1>5, <1>6, <2>2, <2>3, <2>4 DEF Settling, Charging, Unlocking
<1>12. CASE wallet.balance >= r.debit
  <2>1. Set(t, UnlockUpTo(a, "update")) /\ paid' = [paid EXCEPT ![x] = @ + d]
    BY <1>1, <1>5, <1>6, <1>12 DEF DebitWallet, Target
  <2>2. paid'[x] = y + d /\ \A z \in Rows \ {x} : paid'[z] = paid[z]
    BY <1>6, <2>1 DEF PaidOK
  <2>3. Target(w) = x /\ Settling(w, x) /\ w.filled = g /\ ~ w.pc \in {"readSize", "readStatus", "debit"}
    BY <1>11, <2>1
  <2>4. \A z : Executed(z)' = Executed(z)
    BY <1>9 DEF Executed
  <2>5. g <= Executed(x)
    <3>1. CASE Placing(r)
      BY <1>2, <1>5, <1>6, <3>1 DEF RequestReal, PlacingReal, Placing, Target, InSync
    <3>2. CASE InLoop(r)
      BY <1>2, <1>5, <1>6, <3>2 DEF RequestReal, HeadReal, InLoop, Counted, Target, InSync
    <3> QED BY <1>5, <3>1, <3>2
  <2>6. x \in received \/ (y = 0 /\ d = 0)
    <3>1. CASE Placing(r)
      BY <1>2, <1>5, <3>1 DEF RequestReal, PlacingReal, Placing, Target, InSync
    <3>2. CASE InLoop(r) /\ x \notin received
      <4>1. y = 0 /\ g = 0
        BY <1>2, <1>6, <2>5, <3>2 DEF ChargedRow, Executed
      <4>2. PICK e \in Todo : e = Head(r.todo)
        <5>1. r.todo # <<>> /\ r.todo \in Seq(Todo)
          BY <1>2, <3>2 DEF Allowed, Control, Typed, Fits, Fields
        <5> QED BY <5>1, InTail
      <4>3. /\ e.row.filled <= r.filled /\ r.debit = Notional(e.row.price, r.filled - e.row.filled)
        BY <1>2, <3>2, <4>2 DEF Knows, HeadKnows
      <4>4. PICK q \in Nat, k \in Nat : q = e.row.price /\ k = e.row.filled
        BY <4>2 DEF Todo, RowSet
      <4>5. k = 0 /\ g - k = 0
        BY <1>6, <4>1, <4>3, <4>4
      <4>6. d = Notional(q, 0)
        BY <1>6, <4>3, <4>4, <4>5
      <4> QED BY <4>1, <4>6, NotionalScale
    <3> QED BY <1>5, <3>1, <3>2
  <2>7. Within(x, Scale * (y + d), 0, 0)
    <3>1. PICK v \in Int : v = Scale * (y + d)
      OBVIOUS
    <3>2. Executed(x) \in Int /\ cost[x] \in Int
      BY <1>3 DEF ChargesTyped
    <3>3. Within(x, v, 0, 0)
      BY <1>7, <2>5, <3>1, <3>2, WithinAtAll
    <3> QED BY <3>1, <3>3
  <2>8. \A z \in Rows : ChargedRow(w, z)'
    <3> SUFFICES ASSUME NEW z \in Rows PROVE ChargedRow(w, z)'
      OBVIOUS
    <3>1. CASE z = x
      <4>1. Settling(w, x)'
        BY <2>3 DEF Settling, Charging, Unlocking, InSync, Target
      <4>2. paid'[x] \in Nat /\ cost'[x] \in Nat
        BY <1>3, <1>9, <2>2 DEF ChargesTyped
      <4>3. x \notin received' => paid'[x] = 0 /\ cost'[x] = 0
        BY <1>2, <1>9, <2>2, <2>6 DEF ChargedRow
      <4>4. Within(x, Scale * paid[x], 0, 0)'
        BY <1>9, <2>2, <2>4, <2>7 DEF Within
      <4> QED BY <3>1, <4>1, <4>2, <4>3, <4>4 DEF ChargedRow
    <3>2. CASE z # x
      <4>1. ~ Settling(r, z) /\ ChargedRow(r, z) /\ paid'[z] = paid[z] /\ Executed(z)' = Executed(z)
        BY <1>2, <1>10, <2>2, <2>4, <3>2
      <4> QED BY <1>9, <4>1 DEF ChargedRow, Within, IsRow
    <3> QED BY <3>1, <3>2
  <2>9. ChargedRequest(w)'
    BY <1>6, <1>7, <1>9, <2>2, <2>3, <2>4 DEF ChargedRequest, Within, Target, InSync
  <2> QED BY <1>8, <2>8, <2>9, ChargedStep
<1>13. CASE ~ (wallet.balance >= r.debit)
  <2>1. Become(t, OnError(r)) /\ UNCHANGED paid
    BY <1>1, <1>13 DEF DebitWallet
  <2>2. Within(x, Scale * paid[x], p, g)
    BY <1>3, <1>6, <1>7, NotCharged
  <2>3. CASE InLoop(r)
    <3>1. r.kind \in {"sync", "cancel"} /\ InSync(r)
      BY <1>2, <2>3 DEF InLoop, InSync
    <3>2. Become(t, NextOrder(r)) /\ DOMAIN r = Fields
      BY <1>2, <2>1, <3>1 DEF OnError, Allowed, Typed
    <3>3. w.pc \in Elsewhere
      BY <1>2, <1>8, <3>2, Moved, NextOrderElsewhere
    <3>4. ChargedRequest(w)
      BY <3>3 DEF ChargedRequest, Elsewhere, Unlocking
    <3>5. \A z \in Rows : ~ Settling(r, z)
      BY <1>2, <3>1 DEF Settling
    <3> QED BY <1>1, <1>8, <1>9, <2>1, <3>4, <3>5, ChargedOn
  <2>4. CASE Placing(r)
    <3>1. Target(w) = x /\ Settling(w, x) /\ w.filled = g /\ ~ w.pc \in {"readSize", "readStatus", "debit"}
      <4>1. CASE r.kind = "limit"
        <5>1. OnError(r) = With(r, UnlockUpTo(r.lock, "update"))
          BY <1>2, <4>1 DEF OnError, InSync
        <5>2. Set(t, UnlockUpTo(l, "update"))
          BY <1>1, <1>6, <2>1, <5>1 DEF Set
        <5> QED BY <1>11, <5>2
      <4>2. CASE r.kind = "market"
        <5>1. PICK f : f = [pc |-> "update"]
          OBVIOUS
        <5>2. Set(t, f)
          <6>1. OnError(r) = With(r, [pc |-> "update"])
            BY <1>2, <4>2 DEF OnError, InSync
          <6> QED BY <1>1, <2>1, <5>1, <6>1 DEF Set
        <5>3. /\ DOMAIN f = {"pc"} /\ f.pc = "update" /\ "filled" \notin DOMAIN f
              /\ "kind" \notin DOMAIN f /\ "row" \notin DOMAIN f /\ "pc" \in DOMAIN f
          BY <5>1
        <5>4. w = With(r, f) /\ w.kind = r.kind /\ w.pc = f.pc /\ w.row = r.row
          BY <1>1, <1>2, <1>8, <5>2, <5>3, SetTo
        <5>5. w.filled = g
          BY <1>2, <1>6, <5>3, <5>4, WithLocals DEF Allowed, Typed
        <5>6. Target(w) = Target(r) /\ w.pc = "update"
          BY <4>2, <5>3, <5>4 DEF Target, InSync
        <5> QED BY <1>5, <5>5, <5>6 DEF Settling, Charging
      <4> QED BY <2>4, <4>1, <4>2 DEF Placing
    <3>2. ChargedRequest(w)
      BY <1>6, <2>2, <3>1 DEF ChargedRequest
    <3>3. \A z \in Rows : Settling(r, z) => Settling(w, z)
      BY <1>10, <3>1
    <3> QED BY <1>1, <1>8, <1>9, <2>1, <3>2, <3>3, ChargedOn
  <2> QED BY <1>5, <2>3, <2>4
<1> QED BY <1>12, <1>13

LEMMA UnlockCharged ==
    ASSUME OneAtATime, Agreed, StateOK', NEW t \in Threads, UnlockRead(t) \/ UnlockWrite(t) PROVE Charged'
<1>1. PICK r : r = req[t]
  OBVIOUS
<1>2. /\ StateOK /\ Allowed(r) /\ RequestReal(r) /\ ChargedRequest(r) /\ Unlocking(r)
  BY <1>1 DEF Agreed, Charged, Real, StateOK, ReqOK, UnlockRead, UnlockWrite, Unlocking
<1>3. PICK f : Set(t, f) /\ DOMAIN f \subseteq {"pc", "amount"} /\ "pc" \in DOMAIN f /\ f.pc \in {"unlockWrite", r.next}
  <2>1. CASE UnlockRead(t)
    <3>1. PICK a : a = Min({r.amount, wallet.locked})
      OBVIOUS
    <3>2. PICK f : f = [pc |-> IF a > 0 THEN "unlockWrite" ELSE r.next, amount |-> a]
      OBVIOUS
    <3>3. Set(t, f)
      BY <1>1, <2>1, <3>1, <3>2 DEF UnlockRead
    <3> QED BY <3>2, <3>3
  <2>2. CASE UnlockWrite(t)
    <3>1. CanUnlock(r.amount)
      <4>1. wallet.locked \in Int /\ r.amount \in Int /\ r.amount <= wallet.locked
        BY <1>1, <1>2, <2>2 DEF UnlockWrite, RequestReal, StateOK, WalletOK, Allowed, Typed, Fits, Fields
      <4> QED BY <4>1 DEF CanUnlock
    <3>2. PICK f : f = [pc |-> r.next]
      OBVIOUS
    <3>3. Set(t, f)
      BY <1>1, <2>2, <3>1, <3>2 DEF UnlockWrite
    <3> QED BY <3>2, <3>3
  <2> QED BY <2>1, <2>2
<1>4. /\ "kind" \notin DOMAIN f /\ "row" \notin DOMAIN f /\ "todo" \notin DOMAIN f
      /\ "filled" \notin DOMAIN f /\ "next" \notin DOMAIN f
  BY <1>3
<1>5. PICK w : w = req'[t]
  OBVIOUS
<1>6. w = With(r, f) /\ w.kind = r.kind /\ w.pc = f.pc /\ w.row = r.row
  BY <1>1, <1>2, <1>3, <1>4, <1>5, SetTo
<1>7. w.next = r.next /\ w.todo = r.todo
  BY <1>2, <1>4, <1>6, WithControl DEF Allowed, Typed
<1>8. w.filled = r.filled
  BY <1>2, <1>4, <1>6, WithLocals DEF Allowed, Typed
<1>9. UNCHANGED <<orders, fresh, paid, cost, received, size>>
  BY DEF UnlockRead, UnlockWrite, db, market, engine
<1>10. r.next = "update" \/ r.next = "mark"
  BY <1>2 DEF Allowed, Control, Unlocking
<1>11. CASE r.next = "update"
  <2>1. w.pc \in {"unlockWrite", "update"}
    BY <1>3, <1>6, <1>11
  <2>2. Target(w) = Target(r)
    BY <1>2, <1>6, <1>7, <2>1 DEF Target, InSync, Unlocking
  <2>3. \A x \in Rows : Settling(r, x) => Settling(w, x)
    BY <1>7, <1>11, <2>1, <2>2 DEF Settling, Charging, Unlocking
  <2>4. ChargedRequest(w)
    BY <1>2, <1>7, <1>8, <1>11, <2>1, <2>2 DEF ChargedRequest, Unlocking
  <2> QED BY <1>1, <1>5, <1>9, <2>3, <2>4, ChargedOn
<1>12. CASE r.next = "mark"
  <2>1. w.pc \in {"unlockWrite", "mark"}
    BY <1>3, <1>6, <1>12
  <2>2. ChargedRequest(w)
    BY <1>7, <1>12, <2>1 DEF ChargedRequest, Unlocking
  <2>3. \A x \in Rows : ~ Settling(r, x)
    BY <1>2, <1>12 DEF Settling, Charging, Unlocking
  <2> QED BY <1>1, <1>5, <1>9, <2>2, <2>3, ChargedOn
<1> QED BY <1>10, <1>11, <1>12

LEMMA UpdateCharged ==
    ASSUME OneAtATime, Agreed, StateOK', NEW t \in Threads, UpdateExecution(t) PROVE Charged'
<1>1. PICK r : r = req[t]
  OBVIOUS
<1>2. /\ StateOK /\ Allowed(r) /\ RequestReal(r) /\ r.pc = "update"
      /\ ChargedRequest(r) /\ \A x \in Rows : ChargedRow(r, x)
  BY <1>1 DEF Agreed, Charged, Real, StateOK, ReqOK, UpdateExecution
<1>3. Charging(r)
  BY <1>2 DEF Charging
<1>4. PICK x \in Rows : x = Target(r)
  BY <1>2, <1>3, TargetIsRow
<1>5. orders' = IF ~ IsRow(x) THEN orders
                ELSE [orders EXCEPT ![x] = With(@, [filled   |-> r.filled,
                                                    notional |-> r.notional,
                                                    status   |-> r.status])]
  BY <1>1, <1>4 DEF UpdateExecution, Target
<1>6. /\ \A z \in Rows \ {x} : orders'[z] = orders[z]
      /\ orders'[x].price = orders[x].price /\ orders'[x].quantity = orders[x].quantity
      /\ orders'[x].bid = orders[x].bid
      /\ IsRow(x) => orders'[x].filled = r.filled
  BY <1>2, <1>5, UpdatedRow
<1>7. UNCHANGED <<fresh, paid, cost, received, size>>
  BY DEF UpdateExecution, market, engine
<1>8. PICK w : w = req'[t]
  OBVIOUS
<1>9. w.pc \in Elsewhere
  <2>1. CASE InSync(r)
    <3>1. Become(t, NextOrder(r)) /\ DOMAIN r = Fields
      BY <1>1, <1>2, <2>1 DEF UpdateExecution, Allowed, Typed
    <3> QED BY <1>2, <1>8, <3>1, Moved, NextOrderElsewhere
  <2>2. CASE ~ InSync(r)
    <3>1. Become(t, Idle)
      BY <1>1, <2>2 DEF UpdateExecution
    <3> QED BY <1>2, <1>8, <3>1, Moved, IdleIs DEF Elsewhere
  <2> QED BY <2>1, <2>2
<1>10. \A z \in Rows : ChargedRow(w, z)'
  <2> SUFFICES ASSUME NEW z \in Rows PROVE ChargedRow(w, z)'
    OBVIOUS
  <2>1. Executed(z)' = Executed(z)
    BY <1>6, <1>7 DEF Executed
  <2>2. CASE z = x /\ IsRow(x)
    <3>1. orders[x].bid => Within(x, Scale * paid[x], orders[x].price, r.filled)
      BY <1>2, <1>4 DEF ChargedRequest
    <3> QED BY <1>2, <1>6, <1>7, <2>1, <2>2, <3>1 DEF ChargedRow, Within
  <2>3. CASE z = x /\ ~ IsRow(x)
    <3>1. ~ IsRow(x)'
      BY <1>5, <2>3 DEF IsRow
    <3> QED BY <1>2, <1>7, <2>3, <3>1 DEF ChargedRow
  <2>4. CASE z # x
    <3>1. ~ Settling(r, z) /\ orders'[z] = orders[z]
      BY <1>4, <1>6, <2>4 DEF Settling
    <3> QED BY <1>2, <1>7, <2>1, <3>1 DEF ChargedRow, Within, IsRow
  <2> QED BY <2>2, <2>3, <2>4
<1>11. ChargedRequest(w)'
  BY <1>9 DEF ChargedRequest, Elsewhere, Unlocking
<1> QED BY <1>8, <1>10, <1>11, ChargedStep

LEMMA SyncOrderCharged ==
    ASSUME OneAtATime, Agreed, StateOK', NEW t \in Threads, SyncOrder(t) PROVE Charged'
<1>1. PICK r : r = req[t]
  OBVIOUS
<1>2. /\ StateOK /\ Allowed(r) /\ RequestReal(r) /\ Knows(r) /\ r.pc = "order"
      /\ r.kind \in {"sync", "cancel"} /\ \A x \in Rows : ChargedRow(r, x)
  BY <1>1 DEF Agreed, Charged, Real, Known, StateOK, ReqOK, SyncOrder, Allowed, Control, At
<1>3. ChargesTyped /\ DOMAIN r = Fields
  BY <1>2, ChargesAreTyped DEF Allowed, Typed
<1>4. \A x \in Rows : ~ Settling(r, x)
  BY <1>2 DEF Settling, Charging, Unlocking
<1>5. UNCHANGED <<orders, fresh, paid, cost, received, size>>
  BY DEF SyncOrder, db, market, engine
<1>6. PICK w : w = req'[t]
  OBVIOUS
<1>7. ASSUME w.pc \in Elsewhere PROVE Charged'
  <2>1. ChargedRequest(w)
    BY <1>7 DEF ChargedRequest, Elsewhere, Unlocking
  <2> QED BY <1>1, <1>4, <1>5, <1>6, <2>1, ChargedOn
<1>8. CASE r.todo = <<>>
  <2>1. Become(t, AfterSync(r))
    BY <1>1, <1>8 DEF SyncOrder
  <2> QED BY <1>2, <1>6, <1>7, <2>1, Moved, AfterSyncElsewhere
<1>9. CASE r.todo # <<>> /\ Become(t, NextOrder(r))
  BY <1>2, <1>3, <1>6, <1>7, <1>9, Moved, NextOrderElsewhere
<1>10. CASE r.todo # <<>> /\ ~ Become(t, NextOrder(r))
  <2>1. PICK e : e = Head(r.todo)
    OBVIOUS
  <2>2. PICK left : left = IF e.id \in DOMAIN r.seen THEN r.seen[e.id] ELSE 0
    OBVIOUS
  <2>3. PICK c : c = Max({e.row.filled, e.row.quantity - left})
    OBVIOUS
  <2>4. PICK delta : delta = Notional(e.row.price, FillDelta(e.row, c))
    OBVIOUS
  <2>5. PICK status : status = statusFromProgress(e.row.quantity, c)
    OBVIOUS
  <2>6. PICK f : f = [pc |-> IF e.row.bid /\ delta > 0 THEN "debit" ELSE "update",
                      filled |-> c, notional |-> e.row.notional + delta, status |-> status,
                      debit |-> delta, unlock |-> delta]
    OBVIOUS
  <2>7. Set(t, f) /\ (e.id \in DOMAIN r.seen \/ ShouldInferMissingProgress(e.id))
    BY <1>1, <1>10, <2>1, <2>2, <2>3, <2>4, <2>5, <2>6 DEF SyncOrder
  <2>8. e \in Todo /\ e = r.todo[1] /\ 1 \in DOMAIN r.todo
    <3>1. r.todo \in Seq(Todo)
      BY <1>2 DEF Allowed, Typed, Fits, Fields
    <3> QED BY <1>10, <2>1, <3>1, InTail
  <2>9. PICK x \in Rows : x = e.id /\ e.row = orders[x] /\ IsOpen(orders[x])
    BY <1>2, <2>8 DEF Todo, Knows, ListKnows
  <2>10. PICK o \in RowSet : o = orders[x] /\ o = e.row
    BY <1>3, <2>9 DEF ChargesTyped
  <2>11. PICK p \in Nat, g \in Nat, n \in Nat, y \in Nat :
            p = o.price /\ g = o.filled /\ n = o.quantity /\ y = paid[x]
    BY <1>3 DEF ChargesTyped, RowSet
  <2>12. left \in Nat
    BY <1>2, <2>2 DEF Allowed, Typed, Fits, Fields
  <2>13. c \in Int /\ g <= c
    <3>1. PICK d \in Int : d = n - left
      BY <2>12
    <3>2. PICK k \in Int : k = g
      OBVIOUS
    <3>3. c = Max({k, d})
      BY <2>3, <2>10, <2>11, <3>1, <3>2
    <3>4. PICK m \in Int : m = Max({k, d}) /\ k <= m
      BY MaxOfTwo
    <3> QED BY <3>2, <3>3, <3>4
  <2>14. PICK a \in Nat : a = c - g
    BY <2>13
  <2>15. delta \in Nat /\ Scale * delta <= p * a
    <3>1. delta = Notional(p, a)
      BY <2>4, <2>10, <2>11, <2>14 DEF FillDelta
    <3> QED BY <3>1, NotionalNat, NotionalScale
  <2>16. /\ DOMAIN f = {"pc", "filled", "notional", "status", "debit", "unlock"} /\ f.filled = c /\ f.debit = delta
         /\ f.pc \in {"debit", "update"} /\ (f.pc = "debit" => e.row.bid)
    BY <2>6
  <2>17. "kind" \notin DOMAIN f /\ "todo" \notin DOMAIN f /\ "pc" \in DOMAIN f
    BY <2>16
  <2>18. w = With(r, f) /\ w.kind = r.kind /\ w.pc = f.pc /\ w.todo = r.todo
    BY <1>1, <1>2, <1>6, <2>7, <2>17, SetTo
  <2>19. w.filled = c
    BY <1>3, <2>16, <2>18, WithLocals
  <2>20. w.debit = delta
    BY <1>3, <2>16, <2>18, WithMoney
  <2>21. Target(w) = x
    BY <1>2, <2>1, <2>9, <2>16, <2>18 DEF Target, InSync
  <2>22. IsRow(x) /\ x \in fresh
    BY <1>2, <2>7, <2>9 DEF IsRow, IsOpen, ShouldInferMissingProgress, Knows, ListKnows, Looking
  <2>23. ASSUME o.bid PROVE Within(x, Scale * (y + delta), p, c)
    <3>1. PICK v \in Int, u \in Int : v = Scale * y /\ u = Scale * (y + delta)
      BY <2>15
    <3>2. Within(x, v, p, g)
      BY <1>2, <1>4, <2>10, <2>11, <2>22, <2>23, <3>1 DEF ChargedRow
    <3>3. Executed(x) \in Int /\ cost[x] \in Int
      BY <1>3 DEF ChargesTyped
    <3>4. u = v + Scale * delta
      BY <2>15, <3>1
    <3>5. u <= v + p * (c - g)
      BY <2>14, <2>15, <3>4
    <3> QED BY <2>13, <3>1, <3>2, <3>3, <3>5, WithinMoves
  <2>24. ASSUME o.bid PROVE Within(x, Scale * paid[x], orders[x].price, c)
    <3>1. Within(x, Scale * (paid[x] + delta), orders[x].price, c)
      BY <2>10, <2>11, <2>23, <2>24
    <3>2. c \in Nat
      BY <2>13
    <3> QED BY <1>3, <2>15, <3>1, <3>2, NotCharged
  <2>25. ChargedRequest(w)
    BY <1>2, <2>10, <2>11, <2>16, <2>18, <2>19, <2>20, <2>21, <2>23, <2>24 DEF ChargedRequest, Placing, Unlocking
  <2> QED BY <1>1, <1>4, <1>5, <1>6, <2>25, ChargedOn
<1> QED BY <1>8, <1>9, <1>10

\* Money is only ever taken for a row.
LEMMA PaidStep ==
    ASSUME [Next]_vars PROVE paid' = paid \/ \E x, v : paid' = [paid EXCEPT ![x] = v]
<1>1. CASE UNCHANGED vars
  BY <1>1 DEF vars, db
<1>2. CASE OtherOrder \/ OtherCancel \/ Crash
  BY <1>2 DEF OtherOrder, OtherCancel, Crash, db
<1>3. ASSUME NEW t \in Threads, Handler(t) PROVE paid' = paid \/ \E x, v : paid' = [paid EXCEPT ![x] = v]
  <2>1. CASE \/ Deposit(t) \/ RequestWithdrawal(t) \/ Withdraw(t)
             \/ SubmitLimit(t) \/ LockAmount(t) \/ SubmitMarket(t) \/ ReadWallet(t) \/ Quote(t)
    BY <2>1 DEF Deposit, RequestWithdrawal, Withdraw, SubmitLimit, LockAmount, SubmitMarket, ReadWallet,
       Quote, db
  <2>2. CASE \/ Create(t) \/ Release(t) \/ PlaceLimit(t) \/ ReadSize(t) \/ ReadStatus(t)
             \/ PlaceMarket(t) \/ DeleteByEngineOrderID(t)
    BY <2>2 DEF Create, Release, PlaceLimit, ReadSize, ReadStatus, PlaceMarket, DeleteByEngineOrderID, db
  <2>3. CASE DebitWallet(t)
    BY <2>3 DEF DebitWallet
  <2>4. CASE \/ UnlockRead(t) \/ UnlockWrite(t) \/ UpdateExecution(t)
             \/ StartSync(t) \/ ListOpenByUser(t) \/ StreamOrderBook(t) \/ SyncOrder(t)
    BY <2>4 DEF UnlockRead, UnlockWrite, UpdateExecution, StartSync, ListOpenByUser, StreamOrderBook,
       SyncOrder, db
  <2>5. CASE GetByIDForUser(t) \/ CancelOrderByID(t) \/ MarkCancelled(t) \/ StatementFails(t)
    BY <2>5 DEF GetByIDForUser, CancelOrderByID, MarkCancelled, StatementFails, db
  <2> QED BY <1>3, <2>1, <2>2, <2>3, <2>4, <2>5 DEF Handler
<1> QED BY <1>1, <1>2, <1>3 DEF Next

LEMMA PaidAlways == Spec => []PaidOK
<1>1. Init => PaidOK
  BY DEF Init, PaidOK
<1>2. PaidOK /\ [Next]_vars => PaidOK'
  BY PaidStep DEF PaidOK, Rows
<1> QED BY <1>1, <1>2, PTL DEF Spec

LEMMA InitCharged == Init => Charged
<1> SUFFICES ASSUME Init, NEW t \in Threads
             PROVE  (\A x \in Rows : ChargedRow(req[t], x)) /\ ChargedRequest(req[t])
  BY DEF Charged
<1>1. PICK w : w = req[t]
  OBVIOUS
<1>2. w.pc = "idle"
  BY <1>1, IdleIs DEF Init
<1>3. \A x \in Rows : ChargedRow(w, x)
  BY DEF Init, ChargedRow, IsRow, NoRow
<1> QED BY <1>1, <1>2, <1>3 DEF ChargedRequest, Unlocking

LEMMA NextCharged ==
    OneAtATime /\ NothingIsFree /\ Agreed /\ PaidOK /\ StateOK' /\ failures' = 0 /\ [Next]_vars => Charged'
<1> SUFFICES ASSUME OneAtATime, NothingIsFree, Agreed, PaidOK, StateOK', failures' = 0, [Next]_vars
             PROVE  Charged'
  OBVIOUS
<1>1. CASE UNCHANGED vars
  BY <1>1, NothingCharges DEF vars, db, market, engine
<1>2. CASE OtherOrder \/ Crash
  BY <1>2, OtherOrderCharged, CrashCharged
<1>3. CASE OtherCancel
  <2>1. UNCHANGED <<received, size>>
    BY <1>3, Cancelled DEF OtherCancel, Agreed, StateOK
  <2> QED BY <1>3, <2>1, NothingCharges DEF OtherCancel, db
<1>4. ASSUME NEW t \in Threads, Handler(t) PROVE Charged'
  <2>1. CASE \/ Deposit(t) \/ RequestWithdrawal(t) \/ Withdraw(t)
             \/ SubmitLimit(t) \/ LockAmount(t) \/ SubmitMarket(t) \/ ReadWallet(t) \/ Quote(t)
             \/ Release(t) \/ StartSync(t) \/ ListOpenByUser(t) \/ StreamOrderBook(t) \/ GetByIDForUser(t)
    BY <2>1, ReadsCharged
  <2>2. CASE Create(t) \/ PlaceLimit(t) \/ ReadSize(t) \/ ReadStatus(t)
    BY <2>2, CreateCharged, PlaceLimitCharged, ReadSizeCharged, ReadStatusCharged
  <2>3. CASE PlaceMarket(t) \/ DeleteByEngineOrderID(t) \/ DebitWallet(t)
    BY <2>3, PlaceMarketCharged, DeleteCharged, DebitCharged
  <2>4. CASE UnlockRead(t) \/ UnlockWrite(t) \/ UpdateExecution(t)
    BY <2>4, UnlockCharged, UpdateCharged
  <2>5. CASE SyncOrder(t) \/ CancelOrderByID(t) \/ MarkCancelled(t)
    BY <2>5, SyncOrderCharged, CancelCharged
  <2>6. CASE StatementFails(t)
    BY <2>6 DEF StatementFails, Agreed
  <2> QED BY <1>4, <2>1, <2>2, <2>3, <2>4, <2>5, <2>6 DEF Handler
<1> QED BY <1>1, <1>2, <1>3, <1>4 DEF Next

\* As long as one request runs at a time, no statement fails and whatever is filled
\* is worth something, no order is charged more than its trades came to, up to half
\* a unit for each lot: not across restarts, refused orders and cancellations either.
THEOREM NobodyIsOvercharged ==
    ASSUME OneAtATime, Threads # {}, MaxFailures = 0, NothingIsFree PROVE Spec => []NeverOvercharged
<1>1. Init => NoneFailed
  BY DEF Init, NoneFailed
<1>2. NoneFailed /\ [Next]_vars => NoneFailed'
  BY StillNoneFailed
<1>3. Spec => []NoneFailed
  BY <1>1, <1>2, PTL DEF Spec
<1>4. StateOK /\ StateOK' /\ Real /\ Known /\ PaidOK /\ NoneFailed /\ NoneFailed' /\ Charged /\ [Next]_vars => Charged'
  BY NextCharged DEF Agreed, NoneFailed
<1>5. Spec => []Charged
  BY <1>3, <1>4, InitCharged, StateAlwaysOK, RealAlways, KnownAlways, PaidAlways, PTL DEF Spec
<1>6. StateOK /\ NoneFailed /\ Charged => NeverOvercharged
  <2> SUFFICES ASSUME StateOK, NoneFailed, Charged, NEW x \in Rows, IsRow(x)
               PROVE  2 * Scale * paid[x] <= 2 * cost[x] + Executed(x)
    BY DEF NeverOvercharged
  <2>1. PICK t \in Threads : TRUE
    OBVIOUS
  <2>2. PICK r : r = req[t]
    OBVIOUS
  <2>3. \A z \in Rows : ChargedRow(r, z)
    BY <2>2 DEF Charged, NoneFailed
  <2>4. ChargesTyped
    BY <2>3, ChargesAreTyped
  <2>5. PICK y \in Nat, c \in Nat, e \in Int : y = paid[x] /\ c = cost[x] /\ e = Executed(x)
    BY <2>4 DEF ChargesTyped
  <2>6. 2 * (Scale * y) + 2 * (0 * (e - 0)) <= 2 * c + e
    BY <2>3, <2>5 DEF ChargedRow, Within
  <2> QED BY <2>5, <2>6
<1> QED BY <1>3, <1>5, <1>6, StateAlwaysOK, PTL


-----------------------------------------------------------------------------
(* Any number of requests at a time: nobody reserves the same money twice.  *)

\* What the requests have debited but not yet unlocked.
Debts == SumFunctionOnSet([t \in Threads |-> Owing(req[t])], Threads)

\* A request that is about to create a row, and one whose market order the engine has
\* not filled.
Entering(r) == r.pc \in {"lock", "wallet", "quote", "create"}
Pending(r)  == r.kind = "market" /\ r.pc \in {"place", "delete"}

Preparing == {t \in Threads : Entering(req[t])}

\* Every pending market order has a row of its own, and there is room for the next rows.
Orderly ==
    /\ lastRow + Cardinality(Preparing) <= MaxRows
    /\ \A x \in Rows : IsRow(x) => x <= lastRow
    /\ \A t \in Threads : Pending(req[t]) =>
          /\ req[t].row \in Rows /\ IsRow(req[t].row) /\ orders[req[t].row].kind = "MARKET"
          /\ \A s \in Threads : Pending(req[s]) /\ req[s].row = req[t].row => s = t

\* What a handler is about to debit it is about to unlock as well.
Sensible(r) ==
    /\ r.pc # "release"
    /\ r.kind = "limit" /\ r.bid /\ r.pc = "readSize" => r.paidPrice <= r.price
    /\ r.kind = "limit" /\ r.bid /\ r.pc = "readStatus" => r.notional <= Notional(r.price, r.filled)
    /\ r.pc = "debit" /\ r.kind # "market" => r.debit <= r.unlock
    /\ r.pc \in {"debit", "update"} \/ (Unlocking(r) /\ r.next = "update") => r.status # "NONE"

\* No market order has been filled or is about to be paid for.
AllPending ==
    \A x \in Rows : IsRow(x) /\ orders[x].kind = "MARKET" =>
        \E t \in Threads : Pending(req[t]) /\ req[t].row = x

Paying(r) == r.kind = "market" /\ r.pc = "debit"

Backed ==
    AllPending => /\ \A t \in Threads : ~ Paying(req[t])
                  /\ wallet.locked <= wallet.balance + Debts

Calm == crashes = 0 /\ failures = 0 /\ ~withdrawn /\ ~unlockRefused

Shared ==
    /\ crashes \in Nat /\ failures \in Nat
    /\ Calm => Orderly /\ Backed /\ \A t \in Threads : Sensible(req[t])

\* A step of one of the requests, in such a state.
Sharing == IsFiniteSet(Threads) /\ StateOK /\ StateOK' /\ Orderly /\ Backed /\ \A t \in Threads : Sensible(req[t])

OthersStay(t) == \A s \in Threads \ {t} : req'[s] = req[s]

LEMMA SetKeeps ==
    ASSUME StateOK, StateOK', NEW t \in Threads, NEW r, r = req[t], NEW f, Set(t, f)
    PROVE  LET w == req'[t]
           IN  /\ Allowed(w) /\ Allowed(r) /\ DOMAIN r = Fields
               /\ \A x \in Fields : w[x] = IF x \in DOMAIN f THEN f[x] ELSE r[x]
<1>1. PICK w : w = With(r, f)
  OBVIOUS
<1>2. Become(t, w)
  BY <1>1 DEF Set
<1>3. req'[t] = w /\ Allowed(w) /\ Allowed(r)
  BY <1>2, Moved
<1>4. DOMAIN r = Fields
  BY <1>3 DEF Allowed, Typed
<1>5. \A x \in Fields : w[x] = IF x \in DOMAIN f THEN f[x] ELSE r[x]
  BY <1>1, <1>4, WithIs
<1> QED BY <1>3, <1>4, <1>5

\* One request's debt is a part of all.
LEMMA DebtsChange ==
    ASSUME IsFiniteSet(Threads), StateOK, StateOK', NEW t \in Threads,
           \A s \in Threads \ {t} : req'[s] = req[s]
    PROVE  \E d \in Nat : Debts = Owing(req[t]) + d /\ Debts' = Owing(req'[t]) + d
<1>1. PICK f, g : f = [s \in Threads |-> Owing(req[s])] /\ g = [s \in Threads |-> Owing(req'[s])]
  OBVIOUS
<1>2. \A s \in Threads : f[s] \in Nat /\ g[s] \in Nat /\ f[s] = Owing(req[s]) /\ g[s] = Owing(req'[s])
  <2> SUFFICES ASSUME NEW s \in Threads PROVE Owing(req[s]) \in Nat /\ Owing(req'[s]) \in Nat
    BY <1>1
  <2>1. Typed(req[s]) /\ Typed(req'[s])
    BY DEF StateOK, ReqOK, Allowed
  <2> QED BY <2>1, OwingNat
<1>3. PICK T : T = Threads \ {t}
  OBVIOUS
<1>4. IsFiniteSet(T) /\ \A s \in T : s \in Threads /\ f[s] = g[s]
  <2>1. \A s \in T : f[s] = g[s]
    BY <1>2, <1>3
  <2> QED BY <1>3, <2>1, FS_RemoveElement
<1>5. PICK d : d = SumFunctionOnSet(f, T)
  OBVIOUS
<1>6. d \in Nat
  BY <1>2, <1>4, <1>5, SumNat
<1>7. SumFunctionOnSet(g, T) = d
  BY <1>4, <1>5, SumSame
<1>8. SumFunctionOnSet(f, Threads) = f[t] + d
  BY <1>2, <1>3, <1>5, SumRemove
<1>9. SumFunctionOnSet(g, Threads) = g[t] + d
  BY <1>2, <1>3, <1>7, SumRemove
<1>10. Debts = f[t] + d /\ Debts' = g[t] + d
  BY <1>1, <1>8, <1>9 DEF Debts
<1> QED BY <1>2, <1>6, <1>10

\* A step keeps the wallet backed if its request's own debt makes up for it.
LEMMA BackedStep ==
    ASSUME Sharing, NEW t \in Threads, NEW r, r = req[t], NEW w, w = req'[t], OthersStay(t),
           AllPending' => /\ AllPending
                          /\ ~ Paying(w)
                          /\ \A d \in Nat : wallet.locked <= wallet.balance + Owing(r) + d =>
                                               wallet'.locked <= wallet'.balance + Owing(w) + d
    PROVE  Backed'
<1> SUFFICES ASSUME AllPending'
             PROVE  (\A s \in Threads : ~ Paying(req'[s])) /\ wallet'.locked <= wallet'.balance + Debts'
  BY DEF Backed, Paying
<1>1. (\A s \in Threads : ~ Paying(req[s])) /\ wallet.locked <= wallet.balance + Debts
  BY DEF Sharing, Backed
<1>2. \A s \in Threads : ~ Paying(req'[s])
  BY <1>1 DEF OthersStay
<1>3. PICK d \in Nat : Debts = Owing(r) + d /\ Debts' = Owing(w) + d
  BY DebtsChange DEF Sharing, OthersStay
<1>4. PICK b \in Nat, l \in Nat, c \in Nat, m \in Nat :
         b = wallet.balance /\ l = wallet.locked /\ c = wallet'.balance /\ m = wallet'.locked
  BY DEF Sharing, StateOK, WalletOK
<1>5. PICK o \in Nat, p \in Nat : o = Owing(r) /\ p = Owing(w)
  <2>1. Typed(r) /\ Typed(w)
    BY DEF Sharing, StateOK, ReqOK, Allowed
  <2> QED BY <2>1, OwingNat
<1>6. l <= b + o + d => m <= c + p + d
  BY <1>4, <1>5
<1>7. l <= b + o + d
  BY <1>1, <1>3, <1>4, <1>5
<1> QED BY <1>2, <1>3, <1>4, <1>5, <1>6, <1>7

\* A step after which the rows and those who are about to write them are as before.
LEMMA OrderlyStep ==
    ASSUME Sharing, NEW t \in Threads, NEW r, r = req[t], NEW w, w = req'[t], OthersStay(t),
           lastRow' = lastRow, \A x \in Rows : IsRow(x)' = IsRow(x) /\ orders'[x].kind = orders[x].kind,
           Entering(w) => Entering(r), Pending(w) => Pending(r) /\ w.row = r.row
    PROVE  Orderly' /\ (AllPending' => AllPending)
<1>1. \A s \in Threads : (Pending(req'[s]) => Pending(req[s]) /\ req'[s].row = req[s].row)
                         /\ (Entering(req'[s]) => Entering(req[s]))
  BY DEF OthersStay
<1>2. Preparing' \subseteq Preparing
  BY <1>1 DEF Preparing, Entering
<1>3. IsFiniteSet(Preparing)
  BY FS_Subset DEF Sharing, Preparing
<1>4. Cardinality(Preparing') <= Cardinality(Preparing) /\ Cardinality(Preparing) \in Nat
      /\ Cardinality(Preparing') \in Nat
  BY <1>2, <1>3, FS_Subset, FS_CardinalityType
<1>5. lastRow' + Cardinality(Preparing') <= MaxRows
  BY <1>4 DEF Sharing, Orderly, StateOK
<1>6. \A x \in Rows : IsRow(x)' => x <= lastRow'
  BY DEF Sharing, Orderly
<1>7. ASSUME NEW s \in Threads, Pending(req'[s])
      PROVE  /\ req'[s].row \in Rows /\ IsRow(req[s].row)' /\ orders'[req'[s].row].kind = "MARKET"
             /\ \A u \in Threads : Pending(req'[u]) /\ req'[u].row = req'[s].row => u = s
  <2>1. PICK x \in Rows : x = req[s].row /\ x = req'[s].row /\ IsRow(x) /\ orders[x].kind = "MARKET"
    BY <1>1, <1>7 DEF Sharing, Orderly
  <2>2. IsRow(x)' /\ orders'[x].kind = "MARKET"
    BY <2>1
  <2>3. IsRow(req[s].row)'
    BY <2>1, <2>2 DEF IsRow
  <2>4. \A u \in Threads : Pending(req'[u]) /\ req'[u].row = req'[s].row => u = s
    BY <1>1, <1>7 DEF Sharing, Orderly
  <2> QED BY <2>1, <2>2, <2>3, <2>4
<1>8. Orderly'
  BY <1>5, <1>6, <1>7 DEF Orderly, Pending, Rows
<1>9. AllPending' => AllPending
  BY <1>1 DEF AllPending, Pending, Rows, IsRow
<1> QED BY <1>8, <1>9

Covered == Orderly /\ Backed /\ \A t \in Threads : Sensible(req[t])

LEMMA SensibleStays ==
    ASSUME Sharing, NEW t \in Threads, OthersStay(t), Sensible(req'[t])
    PROVE  \A s \in Threads : Sensible(req[s])'
<1> SUFFICES ASSUME NEW s \in Threads PROVE Sensible(req[s])'
  OBVIOUS
<1>1. Sensible(req'[s])
  BY DEF Sharing, OthersStay
<1> QED BY <1>1 DEF Sensible, Unlocking, Notional

LEMMA OthersStayPut ==
    ASSUME StateOK, NEW t \in Threads, NEW w, Become(t, w)
    PROVE  OthersStay(t) /\ req'[t] = w
  BY DEF StateOK, ReqOK, Become, OthersStay

\* A step that moves no money and owes none.
LEMMA QuietStep ==
    ASSUME Sharing, NEW t \in Threads, NEW r, r = req[t], NEW w, w = req'[t], OthersStay(t),
           UNCHANGED <<wallet, orders, lastRow>>, Entering(w) => Entering(r),
           Pending(w) => Pending(r) /\ w.row = r.row, ~ Paying(w), ~ Unlocking(r), Sensible(w)
    PROVE  Covered'
<1>1. \A x \in Rows : IsRow(x)' = IsRow(x) /\ orders'[x].kind = orders[x].kind
  BY DEF IsRow
<1>2. Orderly' /\ (AllPending' => AllPending)
  BY <1>1, OrderlyStep
<1>3. Owing(r) = 0 /\ Owing(w) \in Nat
  <2>1. Typed(w)
    BY DEF Sharing, StateOK, ReqOK, Allowed
  <2> QED BY <2>1, OwingNat DEF Owing
<1>4. wallet.balance \in Nat /\ wallet.locked \in Nat
  BY DEF Sharing, StateOK, WalletOK
<1>5. \A d \in Nat : wallet.locked <= wallet.balance + Owing(r) + d =>
                        wallet'.locked <= wallet'.balance + Owing(w) + d
  BY <1>3, <1>4
<1>6. Backed'
  BY <1>2, <1>5, BackedStep
<1>7. \A s \in Threads : Sensible(req[s])'
  BY SensibleStays
<1> QED BY <1>2, <1>6, <1>7 DEF Covered

LEMMA ElsewhereSensible ==
    ASSUME NEW r, r.pc \in Elsewhere, r.pc # "release"
    PROVE  Sensible(r) /\ ~ Paying(r) /\ ~ Unlocking(r)
  BY DEF Elsewhere, Sensible, Paying, Unlocking

LEMMA AfterSyncAt == ASSUME NEW r PROVE AfterSync(r).pc \in {"idle", "get"}
<1>1. CASE r.kind = "cancel"
  <2>1. PICK f : f = [kind |-> "cancel", row |-> r.row, pc |-> "get"]
    OBVIOUS
  <2>2. DOMAIN Idle = Fields
    BY IdleTyped DEF Typed
  <2>3. With(Idle, f).pc = "get"
    BY <2>1, <2>2, WithControl
  <2> QED BY <1>1, <2>1, <2>3 DEF AfterSync
<1>2. CASE r.kind # "cancel"
  BY <1>2, IdleIs DEF AfterSync
<1> QED BY <1>1, <1>2

LEMMA NextOrderAt == ASSUME NEW r, DOMAIN r = Fields PROVE NextOrder(r).pc = "order"
<1>1. PICK f : f = [pc |-> "order", todo |-> Tail(r.todo)]
  OBVIOUS
<1>2. "pc" \in DOMAIN f /\ f.pc = "order"
  BY <1>1
<1>3. With(r, f).pc = "order"
  BY <1>2, WithControl
<1> QED BY <1>1, <1>3 DEF NextOrder

\* The handlers' steps that only read or call the engine.
LEMMA ReadsShared ==
    ASSUME Sharing, NEW t \in Threads,
           \/ RequestWithdrawal(t) \/ ReadWallet(t) \/ Quote(t) \/ StartSync(t)
           \/ ListOpenByUser(t) \/ StreamOrderBook(t) \/ GetByIDForUser(t)
    PROVE  Covered'
<1>1. PICK r : r = req[t]
  OBVIOUS
<1>2. PICK w : w = req'[t]
  OBVIOUS
<1>3. StateOK /\ StateOK'
  BY DEF Sharing
<1>4. r.pc \in {"idle", "wallet", "quote", "list", "snapshot", "get"} /\ UNCHANGED <<wallet, orders, lastRow>>
  BY <1>1 DEF RequestWithdrawal, ReadWallet, Quote, StartSync, ListOpenByUser, StreamOrderBook,
              GetByIDForUser, db
<1>5. OthersStay(t)
  BY <1>3, OthersStayPut DEF RequestWithdrawal, ReadWallet, Quote, StartSync, ListOpenByUser,
     StreamOrderBook, GetByIDForUser, Set, Start
<1>6. ASSUME w.pc \in {"idle", "withdraw", "list", "snapshot", "order", "get", "cancel", "quote", "create"},
             w.pc \in {"quote", "create"} => r.pc \in {"wallet", "quote"}
      PROVE  Covered'
  <2>1. w.pc \in Elsewhere /\ w.pc # "release" /\ ~ Pending(w) /\ (Entering(w) => Entering(r))
    BY <1>6 DEF Elsewhere, Pending, Entering
  <2>2. ~ Unlocking(r)
    BY <1>4 DEF Unlocking
  <2> QED BY <1>1, <1>2, <1>4, <1>5, <2>1, <2>2, ElsewhereSensible, QuietStep
<1>7. ASSUME NEW f, Set(t, f), "pc" \in DOMAIN f PROVE w.pc = f.pc
  <2>1. \A x \in Fields : w[x] = IF x \in DOMAIN f THEN f[x] ELSE r[x]
    BY <1>1, <1>2, <1>3, <1>7, SetKeeps
  <2> QED BY <1>7, <2>1 DEF Fields
<1>8. ASSUME NEW f, Start(t, f), {"kind", "pc"} \subseteq DOMAIN f PROVE w.pc = f.pc
  BY <1>2, <1>3, <1>8, StartsAt
<1>9. ASSUME Become(t, Idle) PROVE w.pc = "idle"
  BY <1>2, <1>3, <1>9, OthersStayPut, IdleIs
<1>10. ASSUME Become(t, AfterSync(r)) PROVE w.pc \in {"idle", "get"}
  BY <1>2, <1>3, <1>10, OthersStayPut, AfterSyncAt
<1>11. CASE RequestWithdrawal(t)
  <2>1. PICK f : f = [kind |-> "withdraw", pc |-> "withdraw"]
    OBVIOUS
  <2>2. w.pc = "withdraw"
    BY <1>8, <1>11, <2>1 DEF RequestWithdrawal
  <2> QED BY <1>6, <2>2
<1>12. CASE ReadWallet(t)
  <2>1. PICK f : f = [pc |-> "quote", available |-> Available]
    OBVIOUS
  <2>2. w.pc = "quote" /\ r.pc = "wallet"
    BY <1>1, <1>7, <1>12, <2>1 DEF ReadWallet
  <2> QED BY <1>6, <2>2
<1>13. CASE Quote(t)
  <2>1. PICK f, g : /\ f = [pc |-> "create", price |-> BestPrice(FALSE), estimate |-> MarketBuyQuote(r.quantity)]
                    /\ g = [pc |-> "create", price |-> BestPrice(TRUE)]
    OBVIOUS
  <2>2. (Set(t, f) \/ Set(t, g) \/ Become(t, Idle)) /\ r.pc = "quote"
    BY <1>1, <1>13, <2>1 DEF Quote
  <2>3. w.pc \in {"create", "idle"}
    BY <1>7, <1>9, <2>1, <2>2
  <2> QED BY <1>6, <2>2, <2>3
<1>14. CASE StartSync(t)
  <2>1. PICK f : Start(t, f) /\ (\/ f = [kind |-> "sync", pc |-> "list"]
                                \/ \E x \in Rows : f = [kind |-> "cancel", row |-> x, pc |-> "list"])
    BY <1>14 DEF StartSync
  <2>2. {"kind", "pc"} \subseteq DOMAIN f /\ f.pc = "list"
    BY <2>1
  <2>3. w.pc = "list"
    BY <1>8, <2>1, <2>2
  <2> QED BY <1>6, <2>3
<1>15. CASE ListOpenByUser(t)
  <2>1. PICK f : f = [pc |-> "snapshot", todo |-> OpenRows]
    OBVIOUS
  <2>2. Set(t, f) \/ Become(t, AfterSync(r))
    BY <1>1, <1>15, <2>1 DEF ListOpenByUser, Set
  <2>3. w.pc \in {"snapshot", "idle", "get"}
    BY <1>7, <1>10, <2>1, <2>2
  <2> QED BY <1>6, <2>3
<1>16. CASE StreamOrderBook(t)
  <2>1. PICK f : f = [pc |-> "order", seen |-> RemainingByID]
    OBVIOUS
  <2>2. w.pc = "order"
    BY <1>7, <1>16, <2>1 DEF StreamOrderBook
  <2> QED BY <1>6, <2>2
<1>17. CASE GetByIDForUser(t)
  <2>1. PICK f : f = [pc |-> "cancel", order |-> orders[r.row]]
    OBVIOUS
  <2>2. Set(t, f) \/ Become(t, Idle)
    BY <1>1, <1>17, <2>1 DEF GetByIDForUser, Set
  <2>3. w.pc \in {"cancel", "idle"}
    BY <1>7, <1>9, <2>1, <2>2
  <2> QED BY <1>6, <2>3
<1> QED BY <1>11, <1>12, <1>13, <1>14, <1>15, <1>16, <1>17

\* A request that starts to place an order is one for which there is room.
LEMMA SubmitShared ==
    ASSUME Sharing, NEW t \in Threads, SubmitLimit(t) \/ SubmitMarket(t)
    PROVE  Covered'
<1>1. PICK r : r = req[t]
  OBVIOUS
<1>2. PICK w : w = req'[t]
  OBVIOUS
<1>3. StateOK /\ StateOK' /\ UNCHANGED <<wallet, orders, lastRow>> /\ CanSubmit /\ r.pc = "idle"
  BY <1>1 DEF Sharing, SubmitLimit, SubmitMarket, db
<1>4. OthersStay(t)
  BY <1>3, OthersStayPut DEF SubmitLimit, SubmitMarket, Start
<1>5. w.pc \in {"lock", "create", "wallet", "quote"}
  <2>1. PICK f, o, worth : /\ Start(t, f)
                           /\ \/ f = [kind |-> "limit", pc |-> IF o.bid THEN "lock" ELSE "create",
                                      lock |-> worth, bid |-> o.bid, price |-> o.price,
                                      quantity |-> o.quantity]
                              \/ f = [kind |-> "market", pc |-> IF o.bid THEN "wallet" ELSE "quote",
                                      bid |-> o.bid, quantity |-> o.quantity]
    BY DEF SubmitLimit, SubmitMarket
  <2>2. {"kind", "pc"} \subseteq DOMAIN f /\ f.pc \in {"lock", "create", "wallet", "quote"}
    BY <2>1
  <2> QED BY <1>2, <1>3, <2>1, <2>2, StartsAt
<1>6. w.pc \in Elsewhere /\ w.pc # "release" /\ ~ Pending(w) /\ ~ Unlocking(r) /\ ~ Pending(r)
  BY <1>3, <1>5 DEF Elsewhere, Pending, Unlocking
<1>7. Sensible(w) /\ ~ Paying(w)
  BY <1>6, ElsewhereSensible
<1>8. \A s \in Threads : Pending(req'[s]) <=> Pending(req[s])
  BY <1>1, <1>2, <1>4, <1>6 DEF OthersStay
<1>9. \A s \in Threads : Pending(req[s]) => req'[s] = req[s]
  BY <1>1, <1>4, <1>6 DEF OthersStay
<1>10. lastRow + Cardinality(Preparing') <= MaxRows
  <2>1. IsFiniteSet(Preparing)
    BY FS_Subset DEF Sharing, Preparing
  <2>2. Preparing = {s \in Threads : req[s].pc \in {"lock", "wallet", "quote", "create"}}
    BY DEF Preparing, Entering
  <2>3. lastRow + Cardinality(Preparing) < MaxRows
    BY <1>3, <2>2 DEF CanSubmit
  <2>4. Preparing' = Preparing \cup {t} /\ t \notin Preparing
    BY <1>1, <1>2, <1>3, <1>4, <1>5 DEF Preparing, Entering, OthersStay
  <2>5. PICK k \in Nat : k = Cardinality(Preparing)
    BY <2>1, FS_CardinalityType
  <2>6. Cardinality(Preparing') = k + 1
    BY <2>1, <2>4, <2>5, FS_AddElement
  <2> QED BY <1>3, <2>3, <2>5, <2>6 DEF StateOK
<1>11. Orderly'
  <2>1. \A x \in Rows : IsRow(x)' => x <= lastRow'
    BY <1>3 DEF Sharing, Orderly, IsRow
  <2>2. ASSUME NEW s \in Threads, Pending(req'[s])
        PROVE  /\ req'[s].row \in Rows /\ IsRow(req[s].row)' /\ orders'[req'[s].row].kind = "MARKET"
               /\ \A u \in Threads : Pending(req'[u]) /\ req'[u].row = req'[s].row => u = s
    <3>1. Pending(req[s]) /\ req'[s] = req[s]
      BY <1>8, <1>9, <2>2
    <3> QED BY <1>3, <1>8, <1>9, <3>1 DEF Sharing, Orderly, IsRow
  <2> QED BY <1>3, <1>10, <2>1, <2>2 DEF Orderly, Pending, Rows
<1>12. AllPending' => AllPending
  BY <1>3, <1>8, <1>9 DEF AllPending, Pending, Rows, IsRow
<1>13. \A d \in Nat : wallet.locked <= wallet.balance + Owing(r) + d =>
                        wallet'.locked <= wallet'.balance + Owing(w) + d
  <2>1. Owing(r) = 0 /\ Owing(w) = 0
    BY <1>3, <1>5 DEF Owing, Unlocking
  <2> QED BY <1>3, <2>1
<1>14. Backed'
  BY <1>1, <1>2, <1>4, <1>7, <1>12, <1>13, BackedStep
<1> QED BY <1>2, <1>4, <1>7, <1>11, <1>14, SensibleStays DEF Covered

\* A step that leaves the rows alone and moves money.
LEMMA MoneyStep ==
    ASSUME Sharing, NEW t \in Threads, NEW r, r = req[t], NEW w, w = req'[t], OthersStay(t),
           UNCHANGED <<orders, lastRow>>, Entering(w) => Entering(r), ~ Pending(w), ~ Paying(w), Sensible(w),
           AllPending => \A d \in Nat : wallet.locked <= wallet.balance + Owing(r) + d =>
                                           wallet'.locked <= wallet'.balance + Owing(w) + d
    PROVE  Covered'
<1>1. \A x \in Rows : IsRow(x)' = IsRow(x) /\ orders'[x].kind = orders[x].kind
  BY DEF IsRow
<1>2. Orderly' /\ (AllPending' => AllPending)
  BY <1>1, OrderlyStep
<1>3. Backed'
  BY <1>2, BackedStep
<1>4. \A s \in Threads : Sensible(req[s])'
  BY SensibleStays
<1> QED BY <1>2, <1>3, <1>4 DEF Covered

\* What is reserved was available.
LEMMA LockShared ==
    ASSUME Sharing, NEW t \in Threads, LockAmount(t) PROVE Covered'
<1>1. PICK r : r = req[t]
  OBVIOUS
<1>2. PICK w : w = req'[t]
  OBVIOUS
<1>3. /\ StateOK /\ StateOK' /\ Allowed(r) /\ r.pc = "lock" /\ r.kind = "limit"
      /\ UNCHANGED <<orders, lastRow>>
  BY <1>1 DEF Sharing, StateOK, ReqOK, LockAmount, Allowed, Control, At
<1>4. OnError(r) = Idle
  BY <1>3 DEF OnError, InSync
<1>5. OthersStay(t)
  BY <1>3, OthersStayPut DEF LockAmount, Set
<1>6. PICK k \in Nat, b \in Nat, l \in Nat : k = r.lock /\ b = wallet.balance /\ l = wallet.locked
  BY <1>3 DEF Allowed, Typed, Fits, Fields, StateOK, WalletOK
<1>7. Owing(r) = 0 /\ Entering(r)
  BY <1>3 DEF Owing, Unlocking, Entering
<1>8. w.pc \in {"create", "idle"} /\ w.kind \in {"limit", "none"}
  <2>1. CASE CanReserve(r.lock)
    <3>1. PICK f : f = [pc |-> "create"]
      OBVIOUS
    <3>2. Set(t, f) /\ DOMAIN f = {"pc"} /\ f.pc = "create"
      BY <1>1, <2>1, <3>1 DEF LockAmount
    <3> QED BY <1>1, <1>2, <1>3, <3>2, SetTo
  <2>2. CASE ~ CanReserve(r.lock)
    BY <1>1, <1>2, <1>3, <1>4, <2>2, OthersStayPut, IdleIs DEF LockAmount
  <2> QED BY <2>1, <2>2
<1>9. Owing(w) = 0 /\ ~ Pending(w) /\ ~ Paying(w) /\ Sensible(w)
  <2>1. w.pc \in Elsewhere /\ w.pc # "release"
    BY <1>8 DEF Elsewhere
  <2> QED BY <1>8, <2>1, ElsewhereSensible DEF Owing, Pending
<1>10. wallet'.balance = b /\ (wallet'.locked = l \/ (wallet'.locked = l + k /\ l + k <= b))
  <2>1. CASE CanReserve(r.lock)
    <3>1. wallet'.locked = l + k /\ wallet'.balance = b
      BY <1>1, <1>3, <1>6, <2>1, WalletIs DEF LockAmount, StateOK
    <3> QED BY <1>6, <2>1, <3>1 DEF CanReserve, Available
  <2>2. CASE ~ CanReserve(r.lock)
    BY <1>1, <1>6, <2>2 DEF LockAmount
  <2> QED BY <2>1, <2>2
<1>11. \A d \in Nat : wallet.locked <= wallet.balance + Owing(r) + d =>
                         wallet'.locked <= wallet'.balance + Owing(w) + d
  BY <1>6, <1>7, <1>9, <1>10
<1> QED BY <1>1, <1>2, <1>3, <1>5, <1>7, <1>9, <1>11, MoneyStep

LEMMA DepositShared ==
    ASSUME Sharing, NEW t \in Threads, Deposit(t) PROVE Covered'
<1>1. PICK r : r = req[t]
  OBVIOUS
<1>2. /\ StateOK /\ r.pc = "idle" /\ UNCHANGED <<orders, lastRow, req>>
  BY <1>1 DEF Sharing, Deposit
<1>3. r = req'[t] /\ OthersStay(t) /\ Sensible(r)
  BY <1>1, <1>2 DEF OthersStay, Sharing
<1>4. PICK a \in Nat, b \in Nat, l \in Nat : a = Amount /\ b = wallet.balance /\ l = wallet.locked
  BY <1>2 DEF StateOK, WalletOK
<1>5. wallet'.balance = b + a /\ wallet'.locked = l
  BY <1>2, <1>4, WalletIs DEF Deposit, StateOK
<1>6. Owing(r) = 0 /\ ~ Pending(r) /\ ~ Paying(r)
  BY <1>2 DEF Owing, Unlocking, Pending, Paying
<1>7. \A d \in Nat : wallet.locked <= wallet.balance + Owing(r) + d =>
                        wallet'.locked <= wallet'.balance + Owing(r) + d
  BY <1>4, <1>5, <1>6
<1> QED BY <1>1, <1>2, <1>3, <1>6, <1>7, MoneyStep

\* The row that is inserted is a new one, and its own.
LEMMA CreateShared ==
    ASSUME Sharing, NEW t \in Threads, Create(t) PROVE Covered'
<1>1. PICK r : r = req[t]
  OBVIOUS
<1>2. PICK w : w = req'[t]
  OBVIOUS
<1>3. /\ StateOK /\ StateOK' /\ Allowed(r) /\ r.pc = "create" /\ r.kind \in {"limit", "market"}
      /\ UNCHANGED wallet /\ lastRow' = lastRow + 1 /\ lastRow \in Nat
  BY <1>1 DEF Sharing, StateOK, ReqOK, Create, Allowed, Control, At
<1>4. OthersStay(t)
  BY <1>3, OthersStayPut DEF Create, Set
<1>5. PICK n : n = lastRow + 1
  OBVIOUS
<1>6. PICK f : f = [pc |-> "place", row |-> n]
  OBVIOUS
<1>7. Set(t, f) /\ DOMAIN f = {"pc", "row"} /\ f.pc = "place" /\ f.row = n
  BY <1>3, <1>5, <1>6 DEF Create
<1>8. w.pc = "place" /\ w.row = n /\ w.kind = r.kind
  <2>1. \A x \in Fields : w[x] = IF x \in DOMAIN f THEN f[x] ELSE r[x]
    BY <1>1, <1>2, <1>3, <1>7, SetKeeps
  <2> QED BY <1>7, <2>1 DEF Fields
<1>9. lastRow' + Cardinality(Preparing') <= MaxRows /\ n \in Rows
  <2>1. IsFiniteSet(Preparing)
    BY FS_Subset DEF Sharing, Preparing
  <2>2. Preparing' = Preparing \ {t} /\ t \in Preparing
    BY <1>1, <1>2, <1>3, <1>4, <1>8 DEF Preparing, Entering, OthersStay
  <2>3. PICK k \in Nat : k = Cardinality(Preparing)
    BY <2>1, FS_CardinalityType
  <2>4. PICK j : j = Cardinality(Preparing')
    OBVIOUS
  <2>5. IsFiniteSet(Preparing') /\ j = k - 1
    BY <2>1, <2>2, <2>3, <2>4, FS_RemoveElement
  <2>6. j \in Nat
    BY <2>4, <2>5, FS_CardinalityType
  <2>7. lastRow + k <= MaxRows
    BY <2>3 DEF Sharing, Orderly
  <2>8. n + j <= MaxRows
    BY <1>3, <1>5, <2>3, <2>5, <2>6, <2>7
  <2> QED BY <1>3, <1>5, <2>4, <2>6, <2>8 DEF Rows
<1>10. PICK o : o = [status |-> "OPEN", kind |-> IF r.kind = "limit" THEN "LIMIT" ELSE "MARKET",
                     bid |-> r.bid, price |-> r.price, quantity |-> r.quantity,
                     filled |-> 0, notional |-> 0]
  OBVIOUS
<1>11. orders' = [orders EXCEPT ![n] = o]
  BY <1>1, <1>3, <1>5, <1>10 DEF Create
<1>12. orders'[n] = o /\ \A x \in Rows \ {n} : orders'[x] = orders[x]
  BY <1>3, <1>9, <1>11 DEF StateOK
<1>13. o.status = "OPEN" /\ (r.kind = "market" => o.kind = "MARKET")
  BY <1>10
<1>14. \A x \in Rows : IsRow(x) => x # n /\ x <= lastRow
  BY <1>3, <1>5 DEF Sharing, Orderly, Rows
<1>15. \A x \in Rows : IsRow(x) => orders'[x] = orders[x] /\ x # n
  BY <1>12, <1>14
<1>16. \A s \in Threads \ {t} : req'[s] = req[s]
  BY <1>4 DEF OthersStay
<1>17. ~ Pending(r) /\ ~ Paying(w) /\ ~ Paying(r) /\ Owing(r) = 0 /\ Owing(w) = 0
  BY <1>3, <1>8 DEF Pending, Paying, Owing, Unlocking
<1>18. \A x \in Rows : IsRow(x)' => x <= lastRow'
  BY <1>3, <1>5, <1>12, <1>14 DEF IsRow, Rows
<1>19. ASSUME NEW s \in Threads, Pending(req'[s])
       PROVE  /\ req'[s].row \in Rows /\ IsRow(req[s].row)' /\ orders'[req'[s].row].kind = "MARKET"
              /\ \A u \in Threads : Pending(req'[u]) /\ req'[u].row = req'[s].row => u = s
  <2>1. ASSUME NEW u \in Threads \ {t}, Pending(req'[u])
        PROVE  /\ Pending(req[u]) /\ req'[u].row \in Rows /\ req'[u].row = req[u].row
               /\ IsRow(req'[u].row) /\ orders[req'[u].row].kind = "MARKET"
               /\ req'[u].row # n
    <3>1. req'[u] = req[u]
      BY <1>16
    <3>2. Pending(req[u]) /\ req[u].row \in Rows /\ IsRow(req[u].row) /\ orders[req[u].row].kind = "MARKET"
      BY <2>1, <3>1 DEF Sharing, Orderly
    <3> QED BY <1>15, <3>1, <3>2
  <2>2. CASE s = t
    <3>1. r.kind = "market" /\ req'[s].row = n
      BY <1>2, <1>8, <1>19, <2>2 DEF Pending
    <3>2. IsRow(n)' /\ orders'[n].kind = "MARKET"
      BY <1>12, <1>13, <3>1 DEF IsRow
    <3>3. IsRow(req[s].row)'
      BY <3>1, <3>2 DEF IsRow
    <3> QED BY <1>9, <2>1, <2>2, <3>1, <3>2, <3>3
  <2>3. CASE s # t
    <3>1. PICK x \in Rows : /\ x = req'[s].row /\ x = req[s].row /\ IsRow(x) /\ orders[x].kind = "MARKET"
                            /\ x # n /\ Pending(req[s])
      BY <1>19, <2>1, <2>3
    <3>2. orders'[x] = orders[x]
      BY <1>15, <3>1
    <3>3. IsRow(req[s].row)' /\ orders'[x].kind = "MARKET"
      BY <3>1, <3>2 DEF IsRow
    <3>4. ASSUME NEW u \in Threads, Pending(req'[u]), req'[u].row = x PROVE u = s
      <4>1. u # t
        BY <1>2, <1>8, <3>1, <3>4
      <4>2. Pending(req[u]) /\ req[u].row = x
        BY <2>1, <3>4, <4>1
      <4> QED BY <3>1, <4>2 DEF Sharing, Orderly
    <3> QED BY <3>1, <3>3, <3>4
  <2> QED BY <2>2, <2>3
<1>20. Orderly'
  BY <1>9, <1>18, <1>19 DEF Orderly, Pending, Rows
<1>21. AllPending' => AllPending
  <2> SUFFICES ASSUME AllPending', NEW x \in Rows, IsRow(x), orders[x].kind = "MARKET"
               PROVE  \E s \in Threads : Pending(req[s]) /\ req[s].row = x
    BY DEF AllPending
  <2>1. orders'[x] = orders[x] /\ x # n
    BY <1>15
  <2>2. IsRow(x)' /\ orders'[x].kind = "MARKET" /\ x \in Rows'
    BY <2>1 DEF IsRow, Rows
  <2>3. PICK s \in Threads : Pending(req'[s]) /\ req'[s].row = x
    BY <2>2 DEF AllPending, Pending
  <2>4. s # t
    BY <1>2, <1>8, <2>1, <2>3
  <2>5. req'[s] = req[s]
    BY <1>16, <2>4
  <2> QED BY <2>3, <2>5
<1>22. \A d \in Nat : wallet.locked <= wallet.balance + Owing(r) + d =>
                         wallet'.locked <= wallet'.balance + Owing(w) + d
  BY <1>3, <1>17
<1>23. Backed'
  BY <1>1, <1>2, <1>4, <1>17, <1>21, <1>22, BackedStep
<1>24. Sensible(w)
  <2>1. w.pc \in Elsewhere /\ w.pc # "release"
    BY <1>8 DEF Elsewhere
  <2> QED BY <2>1, ElsewhereSensible
<1> QED BY <1>2, <1>4, <1>20, <1>23, <1>24, SensibleStays DEF Covered

\* Only the row of the refused order goes.
LEMMA DeleteShared ==
    ASSUME Sharing, NEW t \in Threads, DeleteByEngineOrderID(t) PROVE Covered'
<1>1. PICK r : r = req[t]
  OBVIOUS
<1>2. PICK w : w = req'[t]
  OBVIOUS
<1>3. /\ StateOK /\ StateOK' /\ Allowed(r) /\ r.pc = "delete" /\ r.kind = "market"
      /\ UNCHANGED <<wallet, lastRow>>
  BY <1>1 DEF Sharing, StateOK, ReqOK, DeleteByEngineOrderID, Allowed, Control, At
<1>4. OthersStay(t) /\ w = Idle
  BY <1>2, <1>3, OthersStayPut DEF DeleteByEngineOrderID
<1>5. Pending(r)
  BY <1>3 DEF Pending
<1>6. PICK n \in Rows : n = r.row
  BY <1>1, <1>5 DEF Sharing, Orderly
<1>7. orders'[n] = NoRow /\ \A x \in Rows \ {n} : orders'[x] = orders[x]
  BY <1>1, <1>3, <1>6 DEF DeleteByEngineOrderID, StateOK
<1>8. NoRow.status = "NONE"
  BY DEF NoRow
<1>9. \A x \in Rows : IsRow(x)' => x # n /\ IsRow(x) /\ orders'[x] = orders[x]
  BY <1>7, <1>8 DEF IsRow
<1>10. ~ Pending(w) /\ ~ Paying(w) /\ ~ Entering(w) /\ Owing(w) = 0 /\ Owing(r) = 0 /\ Sensible(w)
  <2>1. w.pc = "idle" /\ w.kind = "none"
    BY <1>4, IdleIs
  <2>2. w.pc \in Elsewhere /\ w.pc # "release"
    BY <2>1 DEF Elsewhere
  <2> QED BY <1>3, <2>1, <2>2, ElsewhereSensible DEF Pending, Entering, Owing, Unlocking
<1>11. \A s \in Threads : Pending(req'[s]) => s # t /\ req'[s] = req[s]
  BY <1>2, <1>4, <1>10 DEF OthersStay
<1>12. lastRow' + Cardinality(Preparing') <= MaxRows
  <2>1. IsFiniteSet(Preparing)
    BY FS_Subset DEF Sharing, Preparing
  <2>2. Preparing' = Preparing
    BY <1>1, <1>2, <1>3, <1>4, <1>10 DEF Preparing, Entering, OthersStay
  <2> QED BY <1>3, <2>2 DEF Sharing, Orderly
<1>13. \A x \in Rows : IsRow(x)' => x <= lastRow'
  BY <1>3, <1>9 DEF Sharing, Orderly
<1>14. ASSUME NEW s \in Threads, Pending(req'[s])
       PROVE  /\ req'[s].row \in Rows /\ IsRow(req[s].row)' /\ orders'[req'[s].row].kind = "MARKET"
              /\ \A u \in Threads : Pending(req'[u]) /\ req'[u].row = req'[s].row => u = s
  <2>1. s # t /\ req'[s] = req[s] /\ Pending(req[s])
    BY <1>11, <1>14
  <2>2. PICK x \in Rows : x = req[s].row /\ x = req'[s].row /\ IsRow(x) /\ orders[x].kind = "MARKET" /\ x # n
    BY <1>1, <1>5, <1>6, <2>1 DEF Sharing, Orderly
  <2>3. orders'[x] = orders[x]
    BY <1>7, <2>2
  <2>4. IsRow(req[s].row)' /\ orders'[x].kind = "MARKET"
    BY <2>2, <2>3 DEF IsRow
  <2>5. \A u \in Threads : Pending(req'[u]) /\ req'[u].row = req'[s].row => u = s
    BY <1>11, <2>1 DEF Sharing, Orderly
  <2> QED BY <2>2, <2>4, <2>5
<1>15. Orderly'
  BY <1>12, <1>13, <1>14 DEF Orderly, Pending, Rows
<1>16. AllPending' => AllPending
  <2> SUFFICES ASSUME AllPending', NEW x \in Rows, IsRow(x), orders[x].kind = "MARKET"
               PROVE  \E s \in Threads : Pending(req[s]) /\ req[s].row = x
    BY DEF AllPending
  <2>1. CASE x = n
    BY <1>1, <1>5, <1>6, <2>1
  <2>2. CASE x # n
    <3>1. orders'[x] = orders[x]
      BY <1>7, <2>2
    <3>2. IsRow(x)' /\ orders'[x].kind = "MARKET" /\ x \in Rows'
      BY <3>1 DEF IsRow, Rows
    <3>3. PICK s \in Threads : Pending(req'[s]) /\ req'[s].row = x
      BY <3>2 DEF AllPending, Pending
    <3> QED BY <1>11, <3>3
  <2> QED BY <2>1, <2>2
<1>17. \A d \in Nat : wallet.locked <= wallet.balance + Owing(r) + d =>
                         wallet'.locked <= wallet'.balance + Owing(w) + d
  BY <1>3, <1>10
<1>18. Backed'
  BY <1>1, <1>2, <1>4, <1>10, <1>16, <1>17, BackedStep
<1> QED BY <1>2, <1>4, <1>10, <1>15, <1>18, SensibleStays DEF Covered

\* The average of the prices at which a buy traded is no worse than its own.
LEMMA PlaceLimitShared ==
    ASSUME Sharing, NEW t \in Threads, PlaceLimit(t) PROVE Covered'
<1>1. PICK r : r = req[t]
  OBVIOUS
<1>2. PICK w : w = req'[t]
  OBVIOUS
<1>3. /\ StateOK /\ StateOK' /\ Allowed(r) /\ r.pc = "place" /\ r.kind = "limit"
      /\ UNCHANGED <<wallet, orders, lastRow>>
  BY <1>1 DEF Sharing, StateOK, ReqOK, PlaceLimit, db
<1>4. OthersStay(t)
  BY <1>3, OthersStayPut DEF PlaceLimit, Set
<1>5. r.bid \in BOOLEAN /\ r.quantity \in Nat /\ r.price \in Nat
  BY <1>3 DEF Allowed, Typed, Fits, Fields
<1>6. Placed(r.row, r.bid, r.price, r.quantity) /\ Crossed(r.bid, r.price)
  <2>1. r.price \in Prices /\ r.quantity \in Sizes
    BY <1>3 DEF Allowed, Control
  <2> QED BY <1>1, <1>3, <1>5, <2>1, LimitPlaced DEF PlaceLimit, StateOK
<1>7. PICK f : f = [pc |-> "readSize", got |-> SizeFilled(matches'),
                    paidPrice |-> IF matches' = <<>> THEN r.price ELSE VWAP(matches')]
  OBVIOUS
<1>8. Set(t, f)
  BY <1>1, <1>7 DEF PlaceLimit
<1>9. DOMAIN f = {"pc", "got", "paidPrice"} /\ f.pc = "readSize"
      /\ f.paidPrice = IF matches' = <<>> THEN r.price ELSE VWAP(matches')
  BY <1>7
<1>10. \A x \in Fields : w[x] = IF x \in DOMAIN f THEN f[x] ELSE r[x]
  BY <1>1, <1>2, <1>3, <1>8, SetKeeps
<1>11. /\ w.pc = "readSize" /\ w.kind = "limit" /\ w.bid = r.bid /\ w.price = r.price
       /\ w.paidPrice = f.paidPrice
  BY <1>3, <1>9, <1>10 DEF Fields
<1>12. r.bid => f.paidPrice <= r.price
  <2> SUFFICES ASSUME r.bid, matches' # <<>> PROVE VWAP(matches') <= r.price
    BY <1>5, <1>9
  <2>1. PICK ms : ms = matches'
    OBVIOUS
  <2>2. /\ IsFiniteSet(DOMAIN ms)
        /\ \A k \in DOMAIN ms : /\ ms[k].maker \in ToSet(book[~r.bid])
                                /\ ms[k].price = price[ms[k].maker]
                                /\ ms[k].size \in Nat
    BY <1>6, <2>1 DEF Placed, Trades
  <2>3. \A x \in ToSet(book[~r.bid]) : price[x] \in Nat
    BY <1>3, <1>5, BothSides DEF StateOK, EngineOK, Rests
  <2>4. SizeFilled(ms) > 0
    BY <1>3, <1>5, <1>6, <2>1, TradedTyped DEF StateOK
  <2>5. \A k \in DOMAIN ms : ms[k].size \in Nat /\ ms[k].price \in Nat /\ ms[k].price <= r.price
    BY <1>6, <2>1, <2>2, <2>3 DEF Crossed
  <2>6. VWAP(ms) <= r.price
    BY <1>5, <2>2, <2>4, <2>5, VWAPBounds
  <2> QED BY <2>1, <2>6
<1>13. Sensible(w) /\ ~ Paying(w) /\ ~ Pending(w) /\ ~ Entering(w) /\ ~ Unlocking(r)
  BY <1>3, <1>11, <1>12 DEF Sensible, Paying, Pending, Entering, Unlocking
<1> QED BY <1>1, <1>2, <1>3, <1>4, <1>13, QuietStep

LEMMA ReadSizeShared ==
    ASSUME Sharing, NEW t \in Threads, ReadSize(t) PROVE Covered'
<1>1. PICK r : r = req[t]
  OBVIOUS
<1>2. PICK w : w = req'[t]
  OBVIOUS
<1>3. /\ StateOK /\ StateOK' /\ Allowed(r) /\ Sensible(r) /\ r.pc = "readSize" /\ r.kind = "limit"
      /\ UNCHANGED <<wallet, orders, lastRow>>
  BY <1>1 DEF Sharing, StateOK, ReqOK, ReadSize, db, Allowed, Control, At
<1>4. OthersStay(t)
  BY <1>3, OthersStayPut DEF ReadSize, Set
<1>5. PICK m : m = FilledSoFar(r)
  OBVIOUS
<1>6. PICK f : f = [pc |-> "readStatus", filled |-> m, notional |-> Notional(r.paidPrice, m)]
  OBVIOUS
<1>7. Set(t, f)
  BY <1>1, <1>5, <1>6 DEF ReadSize
<1>8. DOMAIN f = {"pc", "filled", "notional"} /\ f.pc = "readStatus" /\ f.filled = m
      /\ f.notional = Notional(r.paidPrice, m)
  BY <1>6
<1>9. Allowed(w) /\ \A x \in Fields : w[x] = IF x \in DOMAIN f THEN f[x] ELSE r[x]
  BY <1>1, <1>2, <1>3, <1>7, SetKeeps
<1>10. /\ w.pc = "readStatus" /\ w.kind = "limit" /\ w.bid = r.bid /\ w.price = r.price
       /\ w.filled = m /\ w.notional = Notional(r.paidPrice, m)
  BY <1>3, <1>8, <1>9 DEF Fields
<1>11. m \in Nat
  BY <1>9, <1>10 DEF Allowed, Typed, Fits, Fields
<1>12. PICK p \in Nat, u \in Nat : p = r.paidPrice /\ u = r.price
  BY <1>3 DEF Allowed, Typed, Fits, Fields
<1>13. w.bid => w.notional <= Notional(w.price, w.filled)
  <2> SUFFICES ASSUME r.bid PROVE Notional(p, m) <= Notional(u, m)
    BY <1>10, <1>12
  <2>1. p <= u
    BY <1>3, <1>12 DEF Sensible
  <2>2. m <= m
    BY <1>11
  <2> QED BY <1>11, <1>12, <2>1, <2>2, NotionalGrows
<1>14. Sensible(w) /\ ~ Paying(w) /\ ~ Pending(w) /\ ~ Entering(w) /\ ~ Unlocking(r)
  BY <1>3, <1>10, <1>13 DEF Sensible, Paying, Pending, Entering, Unlocking
<1> QED BY <1>1, <1>2, <1>3, <1>4, <1>14, QuietStep

LEMMA ReadStatusShared ==
    ASSUME Sharing, NEW t \in Threads, ReadStatus(t) PROVE Covered'
<1>1. PICK r : r = req[t]
  OBVIOUS
<1>2. PICK w : w = req'[t]
  OBVIOUS
<1>3. /\ StateOK /\ StateOK' /\ Allowed(r) /\ Sensible(r) /\ r.pc = "readStatus" /\ r.kind = "limit"
      /\ UNCHANGED <<wallet, orders, lastRow>>
  BY <1>1 DEF Sharing, StateOK, ReqOK, ReadStatus, db, Allowed, Control, At
<1>4. OthersStay(t)
  BY <1>3, OthersStayPut DEF ReadStatus, Set
<1>5. PICK f : f = [pc |-> IF r.bid /\ r.filled > 0 THEN "debit" ELSE "update",
                    debit |-> r.notional,
                    unlock |-> FilledLock(r),
                    status |-> IF size[r.row] = 0 THEN "FILLED"
                               ELSE IF r.filled > 0 THEN "PARTIALLY_FILLED" ELSE "OPEN"]
  OBVIOUS
<1>6. Set(t, f)
  BY <1>1, <1>5 DEF ReadStatus
<1>7. /\ DOMAIN f = {"pc", "debit", "unlock", "status"} /\ f.debit = r.notional
      /\ f.unlock = Notional(r.price, r.filled) /\ f.status # "NONE"
      /\ f.pc \in {"debit", "update"} /\ (f.pc = "debit" => r.bid)
  BY <1>5 DEF FilledLock
<1>8. \A x \in Fields : w[x] = IF x \in DOMAIN f THEN f[x] ELSE r[x]
  BY <1>1, <1>2, <1>3, <1>6, SetKeeps
<1>9. /\ w.pc = f.pc /\ w.kind = "limit" /\ w.debit = r.notional
      /\ w.unlock = Notional(r.price, r.filled) /\ w.status # "NONE"
  BY <1>3, <1>7, <1>8 DEF Fields
<1>10. w.pc = "debit" => w.debit <= w.unlock
  BY <1>3, <1>7, <1>9 DEF Sensible
<1>11. Sensible(w) /\ ~ Paying(w) /\ ~ Pending(w) /\ ~ Entering(w) /\ ~ Unlocking(r)
  BY <1>3, <1>7, <1>9, <1>10 DEF Sensible, Paying, Pending, Entering, Unlocking
<1> QED BY <1>1, <1>2, <1>3, <1>4, <1>11, QuietStep

\* A market order that is filled is pending no longer, and its row shows it.
LEMMA PlaceMarketShared ==
    ASSUME Sharing, NEW t \in Threads, PlaceMarket(t) PROVE Covered'
<1>1. PICK r : r = req[t]
  OBVIOUS
<1>2. PICK w : w = req'[t]
  OBVIOUS
<1>3. /\ StateOK /\ StateOK' /\ Allowed(r) /\ r.pc = "place" /\ r.kind = "market"
      /\ UNCHANGED <<wallet, orders, lastRow>>
  BY <1>1 DEF Sharing, StateOK, ReqOK, PlaceMarket, db
<1>4. OthersStay(t)
  BY <1>3, OthersStayPut DEF PlaceMarket, Set
<1>5. Pending(r) /\ ~ Unlocking(r)
  BY <1>3 DEF Pending, Unlocking
<1>6. CASE Set(t, [pc |-> "delete"])
  <2>1. PICK f : f = [pc |-> "delete"]
    OBVIOUS
  <2>2. Set(t, f) /\ DOMAIN f = {"pc"} /\ f.pc = "delete"
    BY <1>6, <2>1
  <2>3. \A x \in Fields : w[x] = IF x \in DOMAIN f THEN f[x] ELSE r[x]
    BY <1>1, <1>2, <1>3, <2>2, SetKeeps
  <2>4. w.pc = "delete" /\ w.row = r.row
    BY <2>2, <2>3 DEF Fields
  <2>5. w.pc \in Elsewhere /\ w.pc # "release" /\ ~ Entering(w)
    BY <2>4 DEF Elsewhere, Entering
  <2> QED BY <1>1, <1>2, <1>3, <1>4, <1>5, <2>4, <2>5, ElsewhereSensible, QuietStep
<1>7. CASE ~ Set(t, [pc |-> "delete"])
  <2>1. PICK f : /\ Set(t, f) /\ f.pc \in {"debit", "update"} /\ f.status = "FILLED"
                 /\ DOMAIN f = {"pc", "filled", "notional", "debit", "unlock", "status"}
    BY <1>7 DEF PlaceMarket
  <2>2. \A x \in Fields : w[x] = IF x \in DOMAIN f THEN f[x] ELSE r[x]
    BY <1>1, <1>2, <1>3, <2>1, SetKeeps
  <2>3. w.pc \in {"debit", "update"} /\ w.kind = "market" /\ w.status = "FILLED"
    BY <1>3, <2>1, <2>2 DEF Fields
  <2>4. ~ Pending(w) /\ ~ Entering(w) /\ Sensible(w)
    BY <2>3 DEF Pending, Entering, Sensible, Unlocking
  <2>5. \A x \in Rows : IsRow(x)' = IsRow(x) /\ orders'[x].kind = orders[x].kind
    BY <1>3 DEF IsRow
  <2>6. Orderly'
    BY <1>1, <1>2, <1>3, <1>4, <2>4, <2>5, OrderlyStep
  <2>7. PICK n \in Rows : n = r.row /\ IsRow(n) /\ orders[n].kind = "MARKET"
    BY <1>1, <1>5 DEF Sharing, Orderly
  <2>8. ~ AllPending'
    <3> SUFFICES ASSUME AllPending' PROVE FALSE
      OBVIOUS
    <3>1. n \in Rows' /\ IsRow(n)' /\ orders'[n].kind = "MARKET"
      BY <2>5, <2>7 DEF Rows
    <3>2. PICK s \in Threads : Pending(req'[s]) /\ req'[s].row = n
      BY <3>1 DEF AllPending, Pending
    <3>3. s # t /\ req'[s] = req[s]
      BY <1>2, <1>4, <2>4, <3>2 DEF OthersStay
    <3> QED BY <1>1, <1>5, <2>7, <3>2, <3>3 DEF Sharing, Orderly
  <2>9. Backed'
    BY <2>8 DEF Backed
  <2> QED BY <1>2, <1>4, <2>4, <2>6, <2>9, SensibleStays DEF Covered
<1> QED BY <1>6, <1>7

\* What a sync is about to debit it is about to unlock.
LEMMA SyncOrderShared ==
    ASSUME Sharing, NEW t \in Threads, SyncOrder(t) PROVE Covered'
<1>1. PICK r : r = req[t]
  OBVIOUS
<1>2. PICK w : w = req'[t]
  OBVIOUS
<1>3. /\ StateOK /\ StateOK' /\ Allowed(r) /\ r.pc = "order" /\ r.kind \in {"sync", "cancel"}
      /\ UNCHANGED <<wallet, orders, lastRow>>
  BY <1>1 DEF Sharing, StateOK, ReqOK, SyncOrder, db, Allowed, Control, At
<1>4. OthersStay(t)
  BY <1>3, OthersStayPut DEF SyncOrder, Set
<1>5. ~ Unlocking(r) /\ DOMAIN r = Fields
  BY <1>3 DEF Unlocking, Allowed, Typed
<1>6. ASSUME w.pc \in {"idle", "get", "order"} PROVE Covered'
  <2>1. w.pc \in Elsewhere /\ w.pc # "release" /\ ~ Pending(w) /\ ~ Entering(w)
    BY <1>6 DEF Elsewhere, Pending, Entering
  <2> QED BY <1>1, <1>2, <1>3, <1>4, <1>5, <2>1, ElsewhereSensible, QuietStep
<1>7. CASE Become(t, AfterSync(r))
  <2>1. w = AfterSync(r)
    BY <1>2, <1>3, <1>7, OthersStayPut
  <2> QED BY <1>6, <2>1, AfterSyncAt
<1>8. CASE Become(t, NextOrder(r))
  <2>1. w = NextOrder(r)
    BY <1>2, <1>3, <1>8, OthersStayPut
  <2> QED BY <1>5, <1>6, <2>1, NextOrderAt
<1>9. CASE ~ Become(t, AfterSync(r)) /\ ~ Become(t, NextOrder(r))
  <2>1. PICK e : e = Head(r.todo)
    OBVIOUS
  <2>2. PICK left : left = IF e.id \in DOMAIN r.seen THEN r.seen[e.id] ELSE 0
    OBVIOUS
  <2>3. PICK c : c = Max({e.row.filled, e.row.quantity - left})
    OBVIOUS
  <2>4. PICK delta : delta = Notional(e.row.price, FillDelta(e.row, c))
    OBVIOUS
  <2>5. PICK status : status = statusFromProgress(e.row.quantity, c)
    OBVIOUS
  <2>6. PICK f : f = [pc |-> IF e.row.bid /\ delta > 0 THEN "debit" ELSE "update",
                      filled |-> c, notional |-> e.row.notional + delta, status |-> status,
                      debit |-> delta, unlock |-> delta]
    OBVIOUS
  <2>7. Set(t, f)
    BY <1>1, <1>9, <2>1, <2>2, <2>3, <2>4, <2>5, <2>6 DEF SyncOrder
  <2>8. /\ DOMAIN f = {"pc", "filled", "notional", "status", "debit", "unlock"} /\ f.debit = delta
        /\ f.unlock = delta /\ f.status # "NONE" /\ f.pc \in {"debit", "update"}
    BY <2>5, <2>6 DEF statusFromProgress
  <2>9. Allowed(w) /\ \A x \in Fields : w[x] = IF x \in DOMAIN f THEN f[x] ELSE r[x]
    BY <1>1, <1>2, <1>3, <2>7, SetKeeps
  <2>10. /\ w.pc \in {"debit", "update"} /\ w.kind = r.kind /\ w.debit = delta /\ w.unlock = delta
         /\ w.status # "NONE"
    BY <2>8, <2>9 DEF Fields
  <2>11. w.debit <= w.unlock
    <3>1. PICK d \in Nat : d = w.debit
      BY <2>9 DEF Allowed, Typed, Fits, Fields
    <3> QED BY <2>10, <3>1
  <2>12. Sensible(w) /\ ~ Paying(w) /\ ~ Pending(w) /\ ~ Entering(w)
    BY <1>3, <2>10, <2>11 DEF Sensible, Paying, Pending, Entering, Unlocking
  <2> QED BY <1>1, <1>2, <1>3, <1>4, <1>5, <2>12, QuietStep
<1> QED BY <1>7, <1>8, <1>9

\* A cancellation unlocks, and marks the row.
LEMMA CancelShared ==
    ASSUME Sharing, NEW t \in Threads, CancelOrderByID(t) PROVE Covered'
<1>1. PICK r : r = req[t]
  OBVIOUS
<1>2. PICK w : w = req'[t]
  OBVIOUS
<1>3. /\ StateOK /\ StateOK' /\ Allowed(r) /\ r.pc = "cancel" /\ r.kind = "cancel"
      /\ UNCHANGED <<wallet, orders, lastRow>>
  BY <1>1 DEF Sharing, StateOK, ReqOK, CancelOrderByID, db, Allowed, Control, At
<1>4. OthersStay(t)
  BY <1>3, OthersStayPut DEF CancelOrderByID, Set
<1>5. PICK a, f : f = UnlockUpTo(a, "mark") /\ Set(t, f)
  BY DEF CancelOrderByID
<1>6. /\ DOMAIN f \subseteq {"pc", "amount", "next"} /\ "pc" \in DOMAIN f /\ "next" \in DOMAIN f
      /\ f.pc \in {"unlockRead", "mark"} /\ f.next = "mark"
  BY <1>5 DEF UnlockUpTo
<1>7. \A x \in Fields : w[x] = IF x \in DOMAIN f THEN f[x] ELSE r[x]
  BY <1>1, <1>2, <1>3, <1>5, SetKeeps
<1>8. w.pc = f.pc /\ w.next = "mark" /\ w.kind = r.kind
  BY <1>6, <1>7 DEF Fields
<1>9. Sensible(w) /\ ~ Paying(w) /\ ~ Pending(w) /\ ~ Entering(w) /\ ~ Unlocking(r)
  BY <1>3, <1>6, <1>8 DEF Sensible, Paying, Pending, Entering, Unlocking
<1> QED BY <1>1, <1>2, <1>3, <1>4, <1>9, QuietStep

\* What a settlement debits it owes to the lock until it has unlocked it.
LEMMA DebitShared ==
    ASSUME Sharing, NEW t \in Threads, DebitWallet(t) PROVE Covered'
<1>1. PICK r : r = req[t]
  OBVIOUS
<1>2. PICK w : w = req'[t]
  OBVIOUS
<1>3. /\ StateOK /\ StateOK' /\ Allowed(r) /\ Sensible(r) /\ r.pc = "debit" /\ UNCHANGED <<orders, lastRow>>
  BY <1>1 DEF Sharing, StateOK, ReqOK, DebitWallet
<1>4. r.kind \in {"limit", "market", "sync", "cancel"} /\ DOMAIN r = Fields /\ r.status # "NONE"
  BY <1>3 DEF Allowed, Typed, Control, At, Sensible
<1>5. OthersStay(t)
  BY <1>3, OthersStayPut DEF DebitWallet, Set
<1>6. PICK m \in Nat, u \in Nat, b \in Nat, l \in Nat :
         m = r.debit /\ u = r.unlock /\ b = wallet.balance /\ l = wallet.locked
  BY <1>3 DEF Allowed, Typed, Fits, Fields, StateOK, WalletOK
<1>7. Owing(r) = 0 /\ ~ Unlocking(r)
  BY <1>3 DEF Owing, Unlocking
<1>8. CASE b >= m
  <2>1. PICK f : f = UnlockUpTo(u, "update")
    OBVIOUS
  <2>2. Set(t, f)
    BY <1>1, <1>6, <1>8, <2>1 DEF DebitWallet
  <2>3. /\ DOMAIN f \subseteq {"pc", "amount", "next"} /\ "pc" \in DOMAIN f /\ "next" \in DOMAIN f
        /\ f.next = "update" /\ f.pc = (IF u > 0 THEN "unlockRead" ELSE "update")
        /\ u > 0 => "amount" \in DOMAIN f /\ f.amount = u
    BY <2>1 DEF UnlockUpTo
  <2>4. \A x \in Fields : w[x] = IF x \in DOMAIN f THEN f[x] ELSE r[x]
    BY <1>1, <1>2, <1>3, <2>2, SetKeeps
  <2>5. /\ w.pc = f.pc /\ w.next = "update" /\ w.kind = r.kind /\ w.status = r.status
        /\ u > 0 => w.amount = u
    BY <2>3, <2>4 DEF Fields
  <2>6. w.pc \in {"unlockRead", "update"}
    BY <2>3, <2>5
  <2>7. ~ Entering(w) /\ ~ Pending(w) /\ ~ Paying(w) /\ Sensible(w)
    BY <1>4, <2>5, <2>6 DEF Entering, Pending, Paying, Sensible, Unlocking
  <2>8. Owing(w) = u
    BY <1>6, <2>3, <2>5 DEF Owing, Unlocking
  <2>9. wallet'.balance = b - m /\ wallet'.locked = l
    BY <1>1, <1>3, <1>6, <1>8, WalletIs DEF DebitWallet, StateOK
  <2>10. AllPending => m <= u
    BY <1>1, <1>3, <1>4, <1>6 DEF Sharing, Backed, Paying, Sensible
  <2>11. AllPending => \A d \in Nat : wallet.locked <= wallet.balance + Owing(r) + d =>
                                         wallet'.locked <= wallet'.balance + Owing(w) + d
    BY <1>6, <1>7, <2>8, <2>9, <2>10
  <2> QED BY <1>1, <1>2, <1>3, <1>5, <2>7, <2>11, MoneyStep
<1>9. CASE ~ (b >= m)
  <2>1. w = OnError(r) /\ UNCHANGED wallet
    BY <1>1, <1>2, <1>3, <1>6, <1>9, OthersStayPut DEF DebitWallet
  <2>2. /\ r.kind = "limit" => OnError(r) = With(r, UnlockUpTo(r.lock, "update"))
        /\ r.kind = "market" => OnError(r) = With(r, [pc |-> "update"])
        /\ r.kind \in {"sync", "cancel"} => OnError(r) = NextOrder(r)
    BY <1>3, <1>4 DEF OnError, InSync
  <2>3. /\ ~ Entering(w) /\ ~ Pending(w) /\ ~ Paying(w) /\ Sensible(w)
    <3>1. CASE r.kind \in {"sync", "cancel"}
      <4>1. w.pc = "order"
        BY <1>4, <2>1, <2>2, <3>1, NextOrderAt
      <4>2. w.pc \in Elsewhere /\ w.pc # "release"
        BY <4>1 DEF Elsewhere
      <4> QED BY <4>1, <4>2, ElsewhereSensible DEF Entering, Pending
    <3>2. ASSUME NEW f, w = With(r, f), DOMAIN f \subseteq {"pc", "amount", "next"}, "pc" \in DOMAIN f,
                 f.pc \in {"unlockRead", "update"}
          PROVE  ~ Entering(w) /\ ~ Pending(w) /\ ~ Paying(w) /\ Sensible(w)
      <4>1. \A x \in Fields : w[x] = IF x \in DOMAIN f THEN f[x] ELSE r[x]
        BY <1>4, <3>2, WithIs
      <4>2. w.pc \in {"unlockRead", "update"} /\ w.kind = r.kind /\ w.status = r.status
        BY <3>2, <4>1 DEF Fields
      <4> QED BY <1>4, <4>2 DEF Entering, Pending, Paying, Sensible, Unlocking
    <3>3. CASE r.kind = "limit"
      <4>1. PICK f : f = UnlockUpTo(r.lock, "update")
        OBVIOUS
      <4>2. DOMAIN f \subseteq {"pc", "amount", "next"} /\ "pc" \in DOMAIN f /\ f.pc \in {"unlockRead", "update"}
        BY <4>1 DEF UnlockUpTo
      <4> QED BY <2>1, <2>2, <3>2, <3>3, <4>1, <4>2
    <3>4. CASE r.kind = "market"
      <4>1. PICK f : f = [pc |-> "update"]
        OBVIOUS
      <4>2. DOMAIN f \subseteq {"pc", "amount", "next"} /\ "pc" \in DOMAIN f /\ f.pc \in {"unlockRead", "update"}
        BY <4>1
      <4> QED BY <2>1, <2>2, <3>2, <3>4, <4>1, <4>2
    <3> QED BY <1>4, <3>1, <3>3, <3>4
  <2>4. Owing(w) \in Nat
    <3>1. Typed(w)
      BY <1>2, <1>3 DEF StateOK, ReqOK, Allowed
    <3> QED BY <3>1, OwingNat
  <2>5. AllPending => \A d \in Nat : wallet.locked <= wallet.balance + Owing(r) + d =>
                                        wallet'.locked <= wallet'.balance + Owing(w) + d
    BY <1>6, <1>7, <2>1, <2>4
  <2> QED BY <1>1, <1>2, <1>3, <1>5, <2>3, <2>5, MoneyStep
<1> QED BY <1>6, <1>8, <1>9

\* What is unlocked is what is owed, or all that is locked.
LEMMA UnlockReadShared ==
    ASSUME Sharing, NEW t \in Threads, UnlockRead(t) PROVE Covered'
<1>1. PICK r : r = req[t]
  OBVIOUS
<1>2. PICK w : w = req'[t]
  OBVIOUS
<1>3. /\ StateOK /\ StateOK' /\ Allowed(r) /\ Sensible(r) /\ r.pc = "unlockRead"
      /\ UNCHANGED <<wallet, orders, lastRow>>
  BY <1>1 DEF Sharing, StateOK, ReqOK, UnlockRead, db
<1>4. /\ r.kind \in {"limit", "sync", "cancel"} /\ r.next \in {"update", "mark"} /\ DOMAIN r = Fields
      /\ r.next = "update" => r.status # "NONE"
  BY <1>3 DEF Allowed, Typed, Control, At, Sensible, Unlocking
<1>5. OthersStay(t)
  BY <1>3, OthersStayPut DEF UnlockRead, Set
<1>6. PICK m \in Nat, l \in Nat, b \in Nat : m = r.amount /\ l = wallet.locked /\ b = wallet.balance
  BY <1>3 DEF Allowed, Typed, Fits, Fields, StateOK, WalletOK
<1>7. PICK a \in Nat : a = Min({m, l}) /\ a \in {m, l}
  <2>1. PICK i \in Int, j \in Int : i = m /\ j = l
    OBVIOUS
  <2>2. LET a == Min({i, j}) IN a \in {i, j} /\ a <= i /\ a <= j
    BY MinOfTwo, Zenon
  <2> QED BY <2>1, <2>2
<1>8. PICK f : f = [pc |-> IF a > 0 THEN "unlockWrite" ELSE r.next, amount |-> a]
  OBVIOUS
<1>9. Set(t, f)
  BY <1>1, <1>6, <1>7, <1>8 DEF UnlockRead
<1>10. DOMAIN f = {"pc", "amount"} /\ f.pc = (IF a > 0 THEN "unlockWrite" ELSE r.next) /\ f.amount = a
  BY <1>8
<1>11. \A x \in Fields : w[x] = IF x \in DOMAIN f THEN f[x] ELSE r[x]
  BY <1>1, <1>2, <1>3, <1>9, SetKeeps
<1>12. /\ w.pc = f.pc /\ w.amount = a /\ w.next = r.next /\ w.kind = r.kind /\ w.status = r.status
  BY <1>10, <1>11 DEF Fields
<1>13. w.pc \in {"unlockWrite", "update", "mark"} /\ (w.pc = "update" => r.next = "update")
  BY <1>4, <1>10, <1>12
<1>14. ~ Entering(w) /\ ~ Pending(w) /\ ~ Paying(w) /\ Sensible(w)
  BY <1>4, <1>12, <1>13 DEF Entering, Pending, Paying, Sensible, Unlocking
<1>15. Owing(r) = (IF r.next = "update" THEN m ELSE 0) /\ Owing(w) = (IF r.next = "update" THEN a ELSE 0)
  BY <1>3, <1>4, <1>6, <1>7, <1>10, <1>12 DEF Owing, Unlocking
<1>16. \A d \in Nat : wallet.locked <= wallet.balance + Owing(r) + d =>
                         wallet'.locked <= wallet'.balance + Owing(w) + d
  <2>1. a = m \/ a = l
    BY <1>7
  <2> QED BY <1>3, <1>6, <1>15, <2>1
<1> QED BY <1>1, <1>2, <1>3, <1>5, <1>14, <1>16, MoneyStep

LEMMA UnlockWriteShared ==
    ASSUME Sharing, NEW t \in Threads, UnlockWrite(t), ~ unlockRefused' PROVE Covered'
<1>1. PICK r : r = req[t]
  OBVIOUS
<1>2. PICK w : w = req'[t]
  OBVIOUS
<1>3. /\ StateOK /\ StateOK' /\ Allowed(r) /\ Sensible(r) /\ r.pc = "unlockWrite"
      /\ UNCHANGED <<orders, lastRow>> /\ CanUnlock(r.amount)
  BY <1>1 DEF Sharing, StateOK, ReqOK, UnlockWrite
<1>4. /\ r.kind \in {"limit", "sync", "cancel"} /\ r.next \in {"update", "mark"} /\ DOMAIN r = Fields
      /\ r.next = "update" => r.status # "NONE"
  BY <1>3 DEF Allowed, Typed, Control, At, Sensible, Unlocking
<1>5. PICK f : f = [pc |-> r.next]
  OBVIOUS
<1>6. Set(t, f)
  BY <1>1, <1>3, <1>5 DEF UnlockWrite
<1>7. OthersStay(t)
  BY <1>3, <1>6, OthersStayPut DEF Set
<1>8. PICK m \in Nat, l \in Nat, b \in Nat : m = r.amount /\ l = wallet.locked /\ b = wallet.balance
  BY <1>3 DEF Allowed, Typed, Fits, Fields, StateOK, WalletOK
<1>9. m <= l
  BY <1>3, <1>8 DEF CanUnlock
<1>10. DOMAIN f = {"pc"} /\ f.pc = r.next
  BY <1>5
<1>11. \A x \in Fields : w[x] = IF x \in DOMAIN f THEN f[x] ELSE r[x]
  BY <1>1, <1>2, <1>3, <1>6, SetKeeps
<1>12. w.pc = r.next /\ w.kind = r.kind /\ w.status = r.status
  BY <1>10, <1>11 DEF Fields
<1>13. ~ Entering(w) /\ ~ Pending(w) /\ ~ Paying(w) /\ Sensible(w)
  BY <1>4, <1>12 DEF Entering, Pending, Paying, Sensible, Unlocking
<1>14. Owing(r) \in {m, 0} /\ Owing(w) = 0
  BY <1>3, <1>4, <1>8, <1>12 DEF Owing, Unlocking
<1>15. wallet'.locked = l - m /\ wallet'.balance = b
  BY <1>1, <1>3, <1>8, WalletIs DEF UnlockWrite, StateOK
<1>16. \A d \in Nat : wallet.locked <= wallet.balance + Owing(r) + d =>
                         wallet'.locked <= wallet'.balance + Owing(w) + d
  BY <1>8, <1>9, <1>14, <1>15
<1> QED BY <1>1, <1>2, <1>3, <1>7, <1>13, <1>16, MoneyStep

\* A row that is overwritten stays a row, of the same kind.
LEMMA OverwriteShared ==
    ASSUME Sharing, NEW t \in Threads, OthersStay(t), UNCHANGED <<wallet, lastRow>>,
           NEW r, r = req[t], NEW w, w = req'[t], ~ Unlocking(r), w.pc \in {"idle", "order"},
           \A x \in Rows : IsRow(x)' = IsRow(x) /\ orders'[x].kind = orders[x].kind
    PROVE  Covered'
<1>1. /\ ~ Entering(w) /\ ~ Pending(w) /\ ~ Paying(w) /\ Sensible(w)
      /\ Owing(r) = 0 /\ Owing(w) = 0
  <2>1. w.pc \in Elsewhere /\ w.pc # "release"
    BY DEF Elsewhere
  <2> QED BY <2>1, ElsewhereSensible DEF Entering, Pending, Owing
<1>2. Orderly' /\ (AllPending' => AllPending)
  BY <1>1, OrderlyStep
<1>3. \A d \in Nat : wallet.locked <= wallet.balance + Owing(r) + d =>
                        wallet'.locked <= wallet'.balance + Owing(w) + d
  BY <1>1
<1>4. Backed'
  BY <1>1, <1>2, <1>3, BackedStep
<1> QED BY <1>1, <1>2, <1>4, SensibleStays DEF Covered

LEMMA UpdateShared ==
    ASSUME Sharing, NEW t \in Threads, UpdateExecution(t) PROVE Covered'
<1>1. PICK r : r = req[t]
  OBVIOUS
<1>2. PICK w : w = req'[t]
  OBVIOUS
<1>3. /\ StateOK /\ StateOK' /\ Allowed(r) /\ r.pc = "update" /\ UNCHANGED <<wallet, lastRow>>
      /\ DOMAIN r = Fields /\ r.status # "NONE"
  BY <1>1 DEF Sharing, StateOK, ReqOK, UpdateExecution, Allowed, Typed, Sensible
<1>4. OthersStay(t) /\ w = (IF InSync(r) THEN NextOrder(r) ELSE Idle)
  BY <1>1, <1>2, <1>3, OthersStayPut DEF UpdateExecution
<1>5. w.pc \in {"idle", "order"} /\ ~ Unlocking(r)
  BY <1>3, <1>4, NextOrderAt, IdleIs DEF Unlocking
<1>6. \A x \in Rows : IsRow(x)' = IsRow(x) /\ orders'[x].kind = orders[x].kind
  <2>1. PICK id : orders' = IF ~ IsRow(id) THEN orders
                     ELSE [orders EXCEPT ![id] = With(@, [filled   |-> r.filled,
                                                          notional |-> r.notional,
                                                          status   |-> r.status])]
    BY <1>1 DEF UpdateExecution
  <2>2. CASE id \in Rows
    <3>1. /\ \A x \in Rows \ {id} : orders'[x] = orders[x]
          /\ orders'[id].kind = orders[id].kind
          /\ IsRow(id) => orders'[id].status = r.status
      BY <1>3, <2>1, <2>2, UpdatedRow
    <3>2. ~ IsRow(id) => orders' = orders
      BY <2>1
    <3> QED BY <1>3, <3>1, <3>2 DEF IsRow
  <2>3. CASE id \notin Rows
    <3>1. \A x \in Rows : orders'[x] = orders[x]
      BY <1>3, <2>1, <2>3 DEF StateOK
    <3> QED BY <3>1 DEF IsRow
  <2> QED BY <2>2, <2>3
<1> QED BY <1>1, <1>2, <1>3, <1>4, <1>5, <1>6, OverwriteShared

LEMMA MarkShared ==
    ASSUME Sharing, NEW t \in Threads, MarkCancelled(t) PROVE Covered'
<1>1. PICK r : r = req[t]
  OBVIOUS
<1>2. PICK w : w = req'[t]
  OBVIOUS
<1>3. /\ StateOK /\ r.pc = "mark" /\ UNCHANGED <<wallet, lastRow>>
  BY <1>1 DEF Sharing, MarkCancelled
<1>4. OthersStay(t) /\ w = Idle
  BY <1>2, <1>3, OthersStayPut DEF MarkCancelled
<1>5. w.pc \in {"idle", "order"} /\ ~ Unlocking(r)
  BY <1>3, <1>4, IdleIs DEF Unlocking
<1>6. \A x \in Rows : IsRow(x)' = IsRow(x) /\ orders'[x].kind = orders[x].kind
  <2>1. PICK id : orders' = IF ~ IsRow(id) THEN orders
                            ELSE [orders EXCEPT ![id] = With(orders[id], [status |-> "CANCELLED"])]
    BY DEF MarkCancelled
  <2>2. CASE id \in Rows /\ IsRow(id)
    <3>1. PICK o \in RowSet : o = orders[id]
      BY <1>3, <2>2 DEF StateOK
    <3>2. PICK v : v = With(o, [status |-> "CANCELLED"])
      OBVIOUS
    <3>3. v.status = "CANCELLED" /\ v.kind = o.kind
      BY <3>2, RowCancelled
    <3>4. orders'[id] = v /\ \A x \in Rows \ {id} : orders'[x] = orders[x]
      BY <1>3, <2>1, <2>2, <3>1, <3>2 DEF StateOK
    <3> QED BY <2>2, <3>1, <3>3, <3>4 DEF IsRow
  <2>3. CASE id \notin Rows \/ ~ IsRow(id)
    <3>1. \A x \in Rows : orders'[x] = orders[x]
      BY <1>3, <2>1, <2>3 DEF StateOK
    <3> QED BY <3>1 DEF IsRow
  <2> QED BY <2>2, <2>3
<1> QED BY <1>1, <1>2, <1>3, <1>4, <1>5, <1>6, OverwriteShared

\* Nothing that has disturbed the requests is ever forgotten.
LEMMA CalmBefore ==
    ASSUME [Next]_vars, crashes \in Nat, failures \in Nat
    PROVE  /\ crashes' \in Nat /\ failures' \in Nat
           /\ Calm' => /\ Calm /\ ~ Crash
                       /\ \A t \in Threads : ~ StatementFails(t) /\ ~ Withdraw(t)
<1> DEFINE Grow == /\ crashes' = crashes \/ crashes' = crashes + 1
                   /\ failures' = failures \/ failures' = failures + 1
                   /\ withdrawn' = withdrawn \/ withdrawn' = TRUE
                   /\ unlockRefused' = unlockRefused \/ unlockRefused' = TRUE
<1>1. Grow
  <2>1. ASSUME NEW t \in Threads, Handler(t) PROVE Grow
    <3>1. CASE \/ Deposit(t) \/ RequestWithdrawal(t) \/ Withdraw(t) \/ SubmitLimit(t)
               \/ LockAmount(t) \/ SubmitMarket(t) \/ ReadWallet(t) \/ Quote(t) \/ Create(t)
      BY <3>1 DEF Deposit, RequestWithdrawal, Withdraw, SubmitLimit, LockAmount, SubmitMarket,
         ReadWallet, Quote, Create, faults, db
    <3>2. CASE \/ Release(t) \/ PlaceLimit(t) \/ ReadSize(t) \/ ReadStatus(t) \/ PlaceMarket(t)
               \/ DeleteByEngineOrderID(t) \/ DebitWallet(t) \/ UnlockRead(t) \/ UnlockWrite(t)
      BY <3>2 DEF Release, PlaceLimit, ReadSize, ReadStatus, PlaceMarket, DeleteByEngineOrderID,
         DebitWallet, UnlockRead, UnlockWrite, faults, db
    <3>3. CASE \/ UpdateExecution(t) \/ StartSync(t) \/ ListOpenByUser(t) \/ StreamOrderBook(t)
               \/ SyncOrder(t) \/ GetByIDForUser(t) \/ CancelOrderByID(t) \/ MarkCancelled(t)
               \/ StatementFails(t)
      BY <3>3 DEF UpdateExecution, StartSync, ListOpenByUser, StreamOrderBook, SyncOrder,
         GetByIDForUser, CancelOrderByID, MarkCancelled, StatementFails, faults, db
    <3> QED BY <2>1, <3>1, <3>2, <3>3 DEF Handler
  <2> QED BY <2>1 DEF Next, OtherOrder, OtherCancel, Crash, vars, db, faults
<1>2. crashes' \in Nat /\ failures' \in Nat
  BY <1>1
<1>3. Calm' => Calm
  <2> SUFFICES ASSUME crashes' = 0, failures' = 0, ~ withdrawn', ~ unlockRefused' PROVE Calm
    BY DEF Calm
  <2>1. crashes = 0 /\ failures = 0
    BY <1>1
  <2>2. ~ withdrawn
    BY <1>1
  <2>3. ~ unlockRefused
    BY <1>1
  <2> QED BY <2>1, <2>2, <2>3 DEF Calm
<1>4. Calm' => ~ Crash /\ \A t \in Threads : ~ StatementFails(t) /\ ~ Withdraw(t)
  BY DEF Calm, Crash, StatementFails, Withdraw
<1> QED BY <1>2, <1>3, <1>4

LEMMA ElsewhereShared ==
    ASSUME Sharing, UNCHANGED <<db, req>> PROVE Covered'
<1>1. UNCHANGED <<wallet, orders, lastRow, req>>
  BY DEF db
<1>2. Debts' = Debts
  BY <1>1 DEF Debts, Owing, Unlocking
<1>3. Preparing' = Preparing
  BY <1>1 DEF Preparing, Entering
<1>4. Orderly'
  BY <1>1, <1>3 DEF Sharing, Orderly, Pending, IsRow, Rows
<1>5. AllPending' <=> AllPending
  BY <1>1 DEF AllPending, Pending, IsRow, Rows
<1>6. Backed'
  BY <1>1, <1>2, <1>5 DEF Sharing, Backed, Paying
<1>7. \A t \in Threads : Sensible(req[t])'
  BY <1>1 DEF Sharing, Sensible, Unlocking, Notional
<1> QED BY <1>4, <1>6, <1>7 DEF Covered

LEMMA InitShared == ASSUME IsFiniteSet(Threads) PROVE Init => Shared
<1> SUFFICES ASSUME Init PROVE Shared
  OBVIOUS
<1>1. /\ \A t \in Threads : req[t] = Idle
      /\ wallet.locked = 0 /\ wallet.balance = 0 /\ lastRow = 0 /\ crashes = 0 /\ failures = 0
      /\ \A x \in Rows : ~ IsRow(x)
  BY DEF Init, IsRow, NoRow
<1>2. \A t \in Threads : /\ Sensible(req[t]) /\ ~ Pending(req[t]) /\ ~ Entering(req[t])
                         /\ ~ Paying(req[t]) /\ Owing(req[t]) = 0
  <2>1. /\ Sensible(Idle) /\ ~ Pending(Idle) /\ ~ Entering(Idle) /\ ~ Paying(Idle) /\ Owing(Idle) = 0
    <3>1. Idle.pc = "idle"
      BY IdleIs
    <3>2. Idle.pc \in Elsewhere /\ Idle.pc # "release"
      BY <3>1 DEF Elsewhere
    <3> QED BY <3>1, <3>2, IdleIs, ElsewhereSensible DEF Pending, Entering
  <2> QED BY <1>1, <2>1
<1>3. Orderly
  <2>1. Preparing = {}
    BY <1>2 DEF Preparing
  <2>2. Cardinality(Preparing) = 0
    BY <2>1, FS_EmptySet
  <2> QED BY <1>1, <1>2, <2>2 DEF Orderly
<1>4. Backed
  <2>1. PICK f : f = [t \in Threads |-> Owing(req[t])]
    OBVIOUS
  <2>2. \A t \in Threads : f[t] = 0
    BY <1>2, <2>1
  <2>3. SumFunctionOnSet(f, Threads) = 0
    BY <2>2, SumNat
  <2>4. Debts = 0
    BY <2>1, <2>3 DEF Debts
  <2> QED BY <1>1, <1>2, <2>4 DEF Backed
<1> QED BY <1>1, <1>2, <1>3, <1>4 DEF Shared

LEMMA NextShared == ASSUME IsFiniteSet(Threads) PROVE StateOK /\ Shared /\ [Next]_vars => Shared'
<1> SUFFICES ASSUME StateOK, Shared, [Next]_vars PROVE Shared'
  OBVIOUS
<1>1. crashes \in Nat /\ failures \in Nat
  BY DEF Shared
<1>2. /\ crashes' \in Nat /\ failures' \in Nat
      /\ Calm' => /\ Calm /\ ~ Crash
                  /\ \A t \in Threads : ~ StatementFails(t) /\ ~ Withdraw(t)
  BY <1>1, CalmBefore
<1>3. ASSUME Calm' PROVE Covered'
  <2>1. Sharing
    BY <1>2, <1>3, NextOK DEF Sharing, Shared
  <2>2. ~ Crash /\ ~ unlockRefused' /\ \A t \in Threads : ~ StatementFails(t) /\ ~ Withdraw(t)
    BY <1>2, <1>3 DEF Calm
  <2>3. ASSUME NEW t \in Threads, Handler(t) PROVE Covered'
    <3>1. ~ Release(t)
      BY <2>1 DEF Release, Sharing, Sensible
    <3> QED BY <2>1, <2>2, <2>3, <3>1, ReadsShared, SubmitShared, LockShared, DepositShared,
       CreateShared, DeleteShared, PlaceLimitShared, ReadSizeShared, ReadStatusShared,
       PlaceMarketShared, SyncOrderShared, CancelShared, DebitShared, UnlockReadShared,
       UnlockWriteShared, UpdateShared, MarkShared DEF Handler
  <2>4. CASE UNCHANGED vars \/ OtherOrder \/ OtherCancel
    <3>1. UNCHANGED <<db, req>>
      BY <2>4 DEF vars, OtherOrder, OtherCancel
    <3> QED BY <2>1, <3>1, ElsewhereShared
  <2> QED BY <2>2, <2>3, <2>4 DEF Next
<1>4. Calm' => Orderly' /\ Backed' /\ \A t \in Threads : Sensible(req[t])'
  BY <1>3 DEF Covered
<1> QED BY <1>2, <1>4 DEF Shared

LEMMA SharedAlways == ASSUME IsFiniteSet(Threads) PROVE Spec => []Shared
<1>1. Init => Shared
  BY InitShared
<1>2. StateOK /\ Shared /\ [Next]_vars => Shared'
  BY NextShared
<1> QED BY <1>1, <1>2, StateAlwaysOK, PTL DEF Spec

\* Between the requests nothing is owed and no market order has been filled.
LEMMA SharedReserves == ASSUME IsFiniteSet(Threads) PROVE StateOK /\ Shared => NoDoubleReserve
<1> SUFFICES ASSUME StateOK, Shared, ~withdrawn, ~unlockRefused, Quiet, crashes = 0, failures = 0,
                    \A r \in Rows : orders[r].kind = "LIMIT"
             PROVE  wallet.locked <= wallet.balance
  BY DEF NoDoubleReserve, FundsReserved
<1>1. Backed
  BY DEF Shared, Calm
<1>2. AllPending
  BY DEF AllPending
<1>3. PICK f : f = [t \in Threads |-> Owing(req[t])]
  OBVIOUS
<1>4. \A t \in Threads : f[t] = 0
  BY <1>3 DEF Quiet, Owing, Unlocking
<1>5. SumFunctionOnSet(f, Threads) = 0
  BY <1>4, SumNat
<1>6. Debts = 0
  BY <1>3, <1>5 DEF Debts
<1> QED BY <1>1, <1>2, <1>6 DEF Backed, StateOK, WalletOK

\* However many requests place, cancel and sync at once, no two of them reserve the same
\* money and no settlement takes what another order has reserved, as long as nothing was
\* interrupted or withdrawn and each settlement could unlock what it read as locked.
THEOREM NothingReservedTwice ==
    ASSUME IsFiniteSet(Threads) PROVE Spec => []NoDoubleReserve
<1>1. StateOK /\ Shared => NoDoubleReserve
  BY SharedReserves
<1> QED BY <1>1, StateAlwaysOK, SharedAlways, PTL
===============================================================================
