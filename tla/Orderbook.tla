----------------------------- MODULE Orderbook -----------------------------
(***************************************************************************)
(* The matching engine of internal/engine/orderbook.go, one action per     *)
(* iteration of its loops.  ExchangeServer calls the engine under its      *)
(* write lock, so one call is in progress at a time; its steps are kept    *)
(* apart because the handlers keep a pointer to the order they placed and  *)
(* read its Size without the lock, and because the loops (the index, the     *)
(* "i--" after clearLimit, the deferred deletions of Fill) are where such  *)
(* code goes wrong.                                                        *)
(*                                                                         *)
(* A *Limit is named by its side and its price: the maps BidLimits and     *)
(* AskLimits hold one per price.  Orders are numbered in the order in      *)
(* which the engine receives them.  Sides are BOOLEAN as in the code.      *)
(***************************************************************************)
EXTENDS Integers, Sequences, SequencesExt

CONSTANTS MaxOrders, \* bound: placing calls in a behaviour
          Prices,    \* prices of limit orders, in ticks
          Sizes,     \* sizes of incoming orders, in lots
          ByPointer, \* orders their caller may cancel with CancelOrder
          ById       \* orders that may be cancelled with CancelOrderByID

ASSUME MaxOrdersAssumption == MaxOrders \in Nat
ASSUME PricesAssumption    == Prices \subseteq Nat \ {0}
ASSUME SizesAssumption     == Sizes \subseteq Nat \ {0}
ASSUME CancelAssumption    == ByPointer \subseteq Nat /\ ById \subseteq Nat

Orders  == 1..MaxOrders
NoLimit == 0

VARIABLES
    placed,      \* how many orders the engine has received
    bid,         \* Order.Bid
    price,       \* the price argument of PlaceLimitOrder, 0 for a market order
    size,        \* Order.Size
    engineLimit, \* Order.engineLimit: the price of the *Limit, or NoLimit
    levels,      \* Orderbook.Bids and Asks: the prices of their limits in order
    limits,      \* the keys of BidLimits and AskLimits
    queue,       \* Limit.Orders
    volume,      \* Limit.TotalVolume
    matches,     \* the matches of the call in progress, or of the last one
    call,        \* "limit" or "market": the method in progress
    pc,          \* where it is: "idle", "loop", "fill" or "delete"
    at,          \* index into Asks or Bids of the limit to fill
    idx,         \* index of the loop of Fill
    toDelete,    \* Fill's ordersToDelete
    \* History variables, read by properties and the refinement only.
    given,       \* the size an order came with
    before       \* book, sizes and matches at the start of the call

book  == <<levels, limits, queue, volume>>
loopv == <<at, idx, toDelete>>
vars  == <<placed, bid, price, size, engineLimit, book, matches, call, pc, loopv,
           given, before>>

\* The order the call in progress brought.
Taker == placed

Better(b, p, q)  == IF b THEN p > q ELSE p < q
StrictCrosses(b, p, q) == IF b THEN q < p ELSE q > p
Crosses(b, p, q) == IF b THEN q <= p ELSE q >= p
Maximum(m, n)    == IF m <= n THEN n ELSE m
Minimum(m, n)    == IF m <= n THEN m ELSE n
Position(s, e)   == CHOOSE k \in DOMAIN s : s[k] = e
SwapDelete(s, e) == [k \in 1..(Len(s) - 1) |-> IF s[k] = e THEN s[Len(s)] ELSE s[k]]
Without(s, e)    == IF e \in ToSet(s) THEN RemoveAt(s, Position(s, e)) ELSE s
BestFirst(b, s)  == \A j, k \in DOMAIN s : j < k => Better(b, s[j], s[k])

\* AskTotalVolume and BidTotalVolume.
OtherVolume(b) == SumFunctionOnSet(volume[~b], ToSet(levels[~b]))
TotalVolume(b) == SumFunctionOnSet(volume[b], ToSet(levels[b]))

Resting(b) == UNION {ToSet(queue[b][p]) : p \in ToSet(levels[b])}

\* A side's orders in priority order.
InOrder(b) == FlattenSeq([k \in DOMAIN levels[b] |-> queue[b][levels[b][k]]])

\* A side's levels and their volumes.
Depth(b) == [p \in ToSet(levels[b]) |-> volume[b][p]]

TypeOK ==
    /\ placed \in 0..MaxOrders
    /\ bid \in [Orders -> BOOLEAN]
    /\ price \in [Orders -> Nat]
    /\ size \in [Orders -> Nat]
    /\ engineLimit \in [Orders -> Nat]
    /\ levels \in [BOOLEAN -> Seq(Prices)]
    /\ limits \in [BOOLEAN -> SUBSET Prices]
    /\ queue \in [BOOLEAN -> [Prices -> Seq(Orders)]]
    /\ volume \in [BOOLEAN -> [Prices -> Int]]
    /\ call \in {"limit", "market"}
    /\ pc \in {"idle", "loop", "fill", "delete"}
    /\ at \in Nat \ {0}
    /\ idx \in Nat \ {0}
    /\ toDelete \in Seq(Orders)
    /\ given \in [Orders -> Nat]

Init ==
    /\ placed = 0
    /\ bid = [o \in Orders |-> FALSE]
    /\ price = [o \in Orders |-> 0]
    /\ size = [o \in Orders |-> 0]
    /\ engineLimit = [o \in Orders |-> NoLimit]
    /\ levels = [b \in BOOLEAN |-> <<>>]
    /\ limits = [b \in BOOLEAN |-> {}]
    /\ queue = [b \in BOOLEAN |-> [p \in Prices |-> <<>>]]
    /\ volume = [b \in BOOLEAN |-> [p \in Prices |-> 0]]
    /\ matches = <<>>
    /\ call = "limit"
    /\ pc = "idle"
    /\ at = 1 /\ idx = 1 /\ toDelete = <<>>
    /\ given = [o \in Orders |-> 0]
    /\ before = <<>>
-----------------------------------------------------------------------------
\* An order of side b, limit price p and size n reaches the engine.
Receive(b, p, n) ==
    /\ pc = "idle"
    /\ placed < MaxOrders
    /\ placed' = placed + 1
    /\ bid'   = [bid EXCEPT ![placed'] = b]
    /\ price' = [price EXCEPT ![placed'] = p]
    /\ size'  = [size EXCEPT ![placed'] = n]
    /\ given' = [given EXCEPT ![placed'] = n]
    /\ matches' = <<>>
    /\ UNCHANGED <<engineLimit, book, idx, toDelete>>

StartLoop ==
    /\ pc' = "loop"
    /\ at' = 1
    /\ before' = [book |-> [s \in BOOLEAN |-> InOrder(s)], size |-> size,
                  matches |-> matches, depth |-> [s \in BOOLEAN |-> Depth(s)]]

PlaceLimitOrder(b, p, n) ==
    /\ Receive(b, p, n)
    /\ StartLoop
    /\ call' = "limit"

PlaceMarketOrder(b, n) ==
    /\ n <= TotalVolume(~b)
    /\ Receive(b, 0, n)
    /\ StartLoop
    /\ call' = "market"

\* Not enough volume: the engine panics before it touches the book.
PanicMarketOrder(b, n) ==
    /\ n > TotalVolume(~b)
    /\ Receive(b, 0, n)
    /\ UNCHANGED <<call, pc, at, before>>
-----------------------------------------------------------------------------
(* The matching loops.  Opp is the side the taker trades with and Target    *)
(* the limit at the loop's index (always the first for a limit order).      *)
Opp    == ~bid[Taker]
Target == levels[Opp][at]

\* The condition of both loops.
CanMatchAnyPrice == at <= Len(levels[Opp]) /\ size[Taker] > 0
CanMatch ==
    /\ at <= Len(levels[Opp])
    /\ size[Taker] > 0
    /\ call = "limit" => Crosses(bid[Taker], price[Taker], Target)

\* Enter Limit.Fill of the target.
StartFill ==
    /\ pc = "loop" /\ CanMatch
    /\ pc' = IF queue[Opp][Target] = <<>> THEN "delete" ELSE "fill"
    /\ idx' = 1
    /\ toDelete' = <<>>
    /\ UNCHANGED <<placed, bid, price, size, engineLimit, book, matches, call, at,
                   given, before>>

\* One iteration of Fill: fillOrder and the bookkeeping after it.
FillOrder ==
    LET maker  == queue[Opp][Target][idx]
        filled == Minimum(size[maker], size[Taker])
    IN  /\ pc = "fill"
        /\ size' = [size EXCEPT ![maker] = @ - filled, ![Taker] = @ - filled]
        /\ matches' = Append(matches, [maker |-> maker, price |-> Target, size |-> filled])
        /\ volume' = [volume EXCEPT ![Opp][Target] = @ - filled]
        /\ toDelete' = IF size[maker] = filled THEN Append(toDelete, maker) ELSE toDelete
        /\ pc' = IF size[Taker] = filled \/ idx = Len(queue[Opp][Target])
                 THEN "delete" ELSE "fill"
        /\ idx' = idx + 1
        /\ UNCHANGED <<placed, bid, price, engineLimit, levels, limits, queue, call, at,
                       given, before>>

\* Limit.DeleteOrder; the volume drops whether the limit holds o or not.
DeleteKeepsVolume(b, p, o) ==
    queue' = [queue EXCEPT ![b][p] = Without(@, o)] /\ UNCHANGED volume
DeleteOrder(b, p, o) ==
    /\ queue'  = [queue EXCEPT ![b][p] = Without(@, o)]
    /\ volume' = [volume EXCEPT ![b][p] = @ - size[o]]

\* One iteration of Fill's deletions.  Fill wraps the order anew, so the
\* engineLimit it resets is the wrapper's and not the placing caller's.
DeleteFilled ==
    /\ pc = "delete" /\ toDelete # <<>>
    /\ DeleteOrder(Opp, Target, Head(toDelete))
    /\ toDelete' = Tail(toDelete)
    /\ UNCHANGED <<placed, bid, price, size, engineLimit, levels, limits, matches,
                   call, pc, at, idx, given, before>>

ClearForgetsSlice(b, p) == limits' = [limits EXCEPT ![b] = @ \ {p}] /\ UNCHANGED levels
ClearLimit(b, p) ==
    /\ limits' = [limits EXCEPT ![b] = @ \ {p}]
    /\ levels' = [levels EXCEPT ![b] = Without(@, p)]

\* The rest of the loop's body: clearLimit and i-- when the limit is empty.
\* PlaceLimitOrder always looks at the first limit.
EndFill ==
    /\ pc = "delete" /\ toDelete = <<>>
    /\ pc' = "loop"
    /\ IF queue[Opp][Target] = <<>>
       THEN ClearLimit(Opp, Target) /\ UNCHANGED at
       ELSE /\ at' = IF call = "market" THEN at + 1 ELSE at
            /\ UNCHANGED <<levels, limits>>
    /\ UNCHANGED <<placed, bid, price, size, engineLimit, queue, volume, matches, call,
                   idx, toDelete, given, before>>

\* append and sort.Slice, which leaves the only permutation that is sorted.
AppendLevel(b, p) == levels' = [levels EXCEPT ![b] = Append(@, p)]
AddLevel(b, p) ==
    \E s \in [1..(Len(levels[b]) + 1) -> ToSet(levels[b]) \cup {p}] :
        /\ BestFirst(b, s)
        /\ ToSet(s) = ToSet(levels[b]) \cup {p}
        /\ levels' = [levels EXCEPT ![b] = s]

\* Both loops are over; a limit order with something left rests.
MustRest == call = "limit" /\ size[Taker] > 0

AddRestingLimitOrder ==
    LET b == bid[Taker]
        p == price[Taker]
        new == p \notin limits[b]
    IN  /\ pc = "loop" /\ ~CanMatch /\ MustRest
        /\ IF new THEN AddLevel(b, p) ELSE UNCHANGED levels
        /\ limits' = [limits EXCEPT ![b] = @ \cup {p}]
        /\ queue'  = [queue EXCEPT ![b][p] = IF new THEN <<Taker>> ELSE Append(@, Taker)]
        /\ volume' = [volume EXCEPT ![b][p] = IF new THEN size[Taker] ELSE @ + size[Taker]]
        /\ engineLimit' = [engineLimit EXCEPT ![Taker] = p]
        /\ pc' = "idle"
        /\ before' = <<>>
        /\ UNCHANGED <<placed, bid, price, size, matches, call, loopv, given>>

Return ==
    /\ pc = "loop" /\ ~CanMatch /\ ~MustRest
    /\ pc' = "idle"
    /\ before' = <<>>
    /\ UNCHANGED <<placed, bid, price, size, engineLimit, book, matches, call, loopv, given>>
-----------------------------------------------------------------------------
\* clearLimit when the cancelled order was the last.
ClearIfEmpty(b, p) ==
    IF queue'[b][p] = <<>> THEN ClearLimit(b, p) ELSE UNCHANGED <<levels, limits>>

\* Cancelling by the caller's pointer: the limit is looked up through the
\* price of the back-reference.
CancelOrder(o) ==
    /\ o \in ByPointer
    /\ pc = "idle" /\ engineLimit[o] \in limits[bid[o]]
    /\ DeleteOrder(bid[o], engineLimit[o], o)
    /\ ClearIfEmpty(bid[o], engineLimit[o])
    /\ engineLimit' = [engineLimit EXCEPT ![o] = NoLimit]
    /\ UNCHANGED <<placed, bid, price, size, matches, call, pc, loopv, given, before>>

\* Cancelling by Id: the limit that holds o is searched for; a miss is no step.
CancelOrderByID(o) ==
    \E b \in BOOLEAN, p \in Prices :
        /\ o \in ById
        /\ pc = "idle" /\ p \in ToSet(levels[b]) /\ o \in ToSet(queue[b][p])
        /\ DeleteOrder(b, p, o)
        /\ ClearIfEmpty(b, p)
        /\ UNCHANGED <<placed, bid, price, size, engineLimit, matches, call, pc, loopv,
                       given, before>>

\* The steps of a call in progress.
Step == StartFill \/ FillOrder \/ DeleteFilled \/ EndFill \/ AddRestingLimitOrder \/ Return

Next ==
    \/ \E b \in BOOLEAN, p \in Prices, n \in Sizes : PlaceLimitOrder(b, p, n)
    \/ \E b \in BOOLEAN, n \in Sizes : PlaceMarketOrder(b, n) \/ PanicMarketOrder(b, n)
    \/ StartFill \/ FillOrder \/ DeleteFilled \/ EndFill
    \/ AddRestingLimitOrder \/ Return
    \/ \E o \in Orders : CancelOrder(o) \/ CancelOrderByID(o)

Spec == Init /\ [][Next]_vars

\* A call runs to its end: nothing in the engine blocks.
FairSpec == Spec /\ WF_vars(Step)
-----------------------------------------------------------------------------
(* Safety.                                                                  *)

\* The slices and the maps of limits agree and the slices are sorted, best price
\* first.
LevelsAgree ==
    \A b \in BOOLEAN : BestFirst(b, levels[b]) /\ ToSet(levels[b]) = limits[b]

\* Outside Fill and the clearLimit after it no limit is empty and no resting order
\* is used up.
NothingSpent ==
    pc \in {"idle", "loop"} =>
        \A b \in BOOLEAN : \A p \in limits[b] :
            /\ queue[b][p] # <<>>
            /\ \A o \in ToSet(queue[b][p]) : size[o] > 0

\* An order rests at most once, on its own side and at its own price.
RestsOnce ==
    \A b \in BOOLEAN : \A p \in limits[b] : \A j \in DOMAIN queue[b][p] :
        LET o == queue[b][p][j]
        IN  /\ o <= placed /\ bid[o] = b /\ price[o] = p
            /\ \A k \in DOMAIN queue[b][p] : queue[b][p][k] = o => k = j

\* The three structures a side is kept in (slice, map, queues) stay consistent.
BookStructure == LevelsAgree /\ NothingSpent /\ RestsOnce

\* The book is never crossed, not even between two fills: every resting bid is
\* below every resting ask.
NotCrossed == \A p \in limits[TRUE], q \in limits[FALSE] : p < q

\* TotalVolume, which decides whether a market order is taken, is the open size
\* of the orders at the limit, at every step of every call.
VolumeIsSum ==
    \A b \in BOOLEAN : \A p \in limits[b] :
        volume[b][p] = SumFunctionOnSet(size, ToSet(queue[b][p]))

-----------------------------------------------------------------------------
(* The inductive invariant behind the theorems of OrderbookProofs.          *)

InFill == pc \in {"fill", "delete"}

\* Where a call in progress can be: it fills the first limit only, since it moves
\* past one only when the taker is used up.
CallInv ==
    pc # "idle" =>
        /\ placed \in Orders
        /\ at # 1 => size[Taker] = 0
        /\ InFill => at \in DOMAIN levels[Opp]
        /\ InFill \/ call = "limit" => at = 1
        /\ call = "limit" => price[Taker] \in Prices
        /\ pc = "fill" => idx \in DOMAIN queue[Opp][Target]

\* Queues hang on limits and hold orders of their side and price by arrival.
QueueInv ==
    \A b \in BOOLEAN, p \in Prices :
        /\ p \notin limits[b] => queue[b][p] = <<>>
        /\ \A o \in ToSet(queue[b][p]) :
              /\ o <= placed /\ (pc # "idle" => o # Taker)
              /\ bid[o] = b /\ price[o] = p
        /\ \A j, k \in DOMAIN queue[b][p] : j < k => queue[b][p][j] < queue[b][p][k]

\* Empty limits and used-up orders exist only at the limit that is being filled.
SpentInv ==
    \A b \in BOOLEAN, p \in Prices :
        /\ p \in limits[b] /\ queue[b][p] = <<>> => pc = "delete" /\ b = Opp /\ p = Target
        /\ \A o \in ToSet(queue[b][p]) :
              size[o] = 0 => InFill /\ b = Opp /\ p = Target /\ o \in ToSet(toDelete)

\* What Fill has passed is used up, and all of it is if the taker is not.
FillInv ==
    /\ pc = "fill" => \A j \in 1..(idx - 1) : size[queue[Opp][Target][j]] = 0
    /\ pc = "delete" /\ size[Taker] > 0 =>
          \A o \in ToSet(queue[Opp][Target]) : size[o] = 0

IInv == TypeOK /\ CallInv /\ LevelsAgree /\ NotCrossed /\ QueueInv /\ SpentInv /\ FillInv

\* What Fill is about to delete is used up, so that its deletion leaves the volume.
ToDeleteInv == InFill => \A o \in ToSet(toDelete) : size[o] = 0

\* A caller's back-reference is to the limit its order rests at until it is used up
\* or, without the caller's knowing, cancelled by id.
BackReferenceInv ==
    \A o \in Orders : engineLimit[o] # NoLimit =>
        /\ o <= placed /\ (pc # "idle" => o # Taker)
        /\ engineLimit[o] = price[o] /\ price[o] \in Prices
        /\ o \notin ById /\ size[o] > 0 => o \in ToSet(queue[bid[o]][price[o]])

\* Volumes and queues agree, at prices without limit too.
VolumeInv ==
    \A b \in BOOLEAN, p \in Prices :
        volume[b][p] = SumFunctionOnSet(size, ToSet(queue[b][p]))

\* A market order in progress finds the volume for what is left of it; one that is
\* done has been filled or refused.
MarketInv ==
    /\ pc # "idle" /\ call = "market" => size[Taker] <= TotalVolume(Opp)
    /\ \A o \in 1..placed :
          price[o] = 0 /\ (pc = "idle" \/ o # Taker) => size[o] \in {0, given[o]}

SumInv == ToDeleteInv /\ BackReferenceInv /\ VolumeInv /\ MarketInv

\* What is open of an order is part of the size it came with.
GivenInv == \A o \in 1..placed : given[o] \in Sizes /\ size[o] <= given[o]

\* The other side as the call found it, and the levels it has used up since.
FoundLevels == before.depth[Opp]
Gone == DOMAIN FoundLevels \ ToSet(levels[Opp])

InReach(q) == call = "limit" => Crosses(bid[Taker], price[Taker], q)

\* What the call in progress has taken from the book it found: the levels it has
\* cleared, all of them in its reach and better than those that are left, and a part
\* of the first that is left.
DepthInv ==
    pc # "idle" =>
        /\ DOMAIN before.depth = BOOLEAN
        /\ before.depth[bid[Taker]] = Depth(bid[Taker])
        /\ \A q \in DOMAIN FoundLevels : FoundLevels[q] \in Nat
        /\ IsFiniteSet(DOMAIN FoundLevels) /\ DOMAIN FoundLevels \subseteq Prices
        /\ ToSet(levels[Opp]) \subseteq DOMAIN FoundLevels
        /\ \A g \in Gone : InReach(g) /\ \A q \in ToSet(levels[Opp]) : Better(Opp, g, q)
        /\ \A q \in ToSet(levels[Opp]) :
              /\ volume[Opp][q] <= FoundLevels[q]
              /\ volume[Opp][q] # FoundLevels[q] =>
                    q = levels[Opp][1] /\ InReach(q) /\ (pc = "loop" => size[Taker] = 0)
        /\ InFill => InReach(Target)
        /\ given[Taker] - size[Taker] =
              SumFunctionOnSet(FoundLevels, DOMAIN FoundLevels) - TotalVolume(Opp)

\* The other side's orders as the call found them, best first, and an order of side b
\* that goes before another.
Found == before.book[Opp]
Before(b, o, q) == Better(b, price[o], price[q]) \/ (price[o] = price[q] /\ o < q)

\* The i-th order found has been filled: the last of them at most in part, and then
\* the taker is used up.
FilledInTurn(i) ==
    LET o == Found[i]
    IN  /\ matches[i] = [maker |-> o, price |-> price[o], size |-> before.size[o] - size[o]]
        /\ size[o] < before.size[o] /\ InReach(price[o])
        /\ size[o] > 0 => i = Len(matches) /\ size[Taker] = 0

\* An order that has not come yet is as Init says.
UnusedInv == \A o \in Orders : o > placed => ~ bid[o] /\ price[o] = 0 /\ size[o] = 0

\* The call keeps what it found: in priority order, every order open, and as it was but
\* for what it has taken.  Its own side is left alone.
FoundInv ==
    pc # "idle" =>
        /\ DOMAIN before.book = BOOLEAN /\ Found \in Seq(Orders)
        /\ before.book[bid[Taker]] = InOrder(bid[Taker])
        /\ before.size \in [Orders -> Nat]
        /\ call = "market" => price[Taker] = 0
        /\ \A j, k \in DOMAIN Found : j < k => Before(Opp, Found[j], Found[k])
        /\ \A o \in ToSet(Found) :
              /\ o < placed /\ bid[o] = Opp /\ price[o] \in Prices /\ before.size[o] > 0
              /\ size[o] > 0 => o \in Resting(Opp)
        /\ Resting(Opp) \subseteq ToSet(Found)
        /\ \A o \in Orders \ (ToSet(Found) \cup {Taker}) : size[o] = before.size[o]

\* It matches the orders it found in their order.
FilledInv ==
    pc # "idle" =>
        /\ matches \in Seq([maker : Orders, price : Prices, size : Nat])
        /\ Len(matches) <= Len(Found)
        /\ \A i \in DOMAIN Found :
              IF i <= Len(matches) THEN FilledInTurn(i)
              ELSE size[Found[i]] = before.size[Found[i]]
        /\ given[Taker] - size[Taker] =
              SumFunctionOnSet([i \in DOMAIN matches |-> matches[i].size], DOMAIN matches)
        /\ pc = "fill" =>
              /\ size[Taker] > 0
              /\ \A o \in ToSet(toDelete) : \E j \in 1..(idx - 1) : queue[Opp][Target][j] = o

MatchInv == UnusedInv /\ FoundInv /\ FilledInv

FullInv == IInv /\ SumInv /\ GivenInv /\ DepthInv /\ MatchInv
-----------------------------------------------------------------------------
(* Safety of whole calls, refinement and liveness.                          *)

\* When the engine is done with a market order it has filled all of it or, after
\* the panic, nothing.
MarketAllOrNothing ==
    pc = "idle" => \A o \in 1..placed : price[o] = 0 => size[o] \in {0, given[o]}

\* Price-time priority: a resting order trades only when every order of its side
\* with a better price, or the same price and an earlier arrival, is used up.
PriceTimePriority ==
    [][\A b \in BOOLEAN : \A o \in Resting(b) : size'[o] < size[o] =>
          \A q \in Resting(b) :
              Better(b, price[q], price[o]) \/ (price[q] = price[o] /\ q < o)
                  => size'[q] = 0]_vars

\* Every call returns.
CallReturns == (pc # "idle") ~> (pc = "idle")

\* The engine implements the atomic one.  A call takes effect when it returns.
Undone(f, v) == IF pc = "idle" THEN f ELSE [f EXCEPT ![Taker] = v]
Engine == INSTANCE MatchingEngine WITH
    received <- IF pc = "idle" THEN 1..placed ELSE 1..(placed - 1),
    bid      <- Undone(bid, FALSE),
    price    <- Undone(price, 0),
    size     <- IF pc = "idle" THEN size ELSE Undone(before.size, 0),
    book     <- IF pc = "idle" THEN [b \in BOOLEAN |-> InOrder(b)] ELSE before.book,
    matches  <- IF pc = "idle" THEN matches ELSE before.matches

\* The loops compute what MatchingEngine says in one step.
EngineSpec == Engine!Spec

\* What a snapshot shows of the book changes as DepthBook says: the volumes kept
\* by hand are those an order leaves when it eats the other side best first.
DepthSeen == IF pc = "idle" THEN [s \in BOOLEAN |-> Depth(s)] ELSE before.depth
DepthView == INSTANCE DepthBook WITH depth <- DepthSeen

DepthSpec == DepthView!Spec
=============================================================================
