--------------------------- MODULE MatchingEngine ---------------------------
(***************************************************************************)
(* What the matching engine of internal/engine promises, one atomic step   *)
(* per call.  A book is, for each side, the resting orders in priority     *)
(* order (best price first, then time of arrival).  An incoming order      *)
(* trades with the longest useful prefix of the opposite side: the i-th    *)
(* maker gives up to its size of what the makers before it have left.      *)
(* Orderbook, which models the loops of the code, implements this module.  *)
(* Sides are BOOLEAN as in the code: TRUE is the bid side.                 *)
(***************************************************************************)
EXTENDS Integers, Sequences, SequencesExt

CONSTANTS Orders,   \* the orders that may reach the engine
          Prices,   \* prices of limit orders, in ticks
          Sizes     \* sizes of incoming orders, in lots

VARIABLES received, \* the orders whose call has returned or panicked
          bid,      \* order -> its side
          price,    \* order -> its limit price, 0 for a market order
          size,     \* order -> what is still open of it
          book,     \* side -> resting orders in priority order
          matches   \* what the last placing call returned

vars == <<received, bid, price, size, book, matches>>

\* A resting order of side b at price p has price priority over one at q.
Better(b, p, q) == IF b THEN p > q ELSE p < q

\* An order of side b with limit p accepts to trade at the resting price q.
Crosses(b, p, q) == IF b THEN q <= p ELSE q >= p

\* The elements of s that are in T, in their order.
Select(s, T) ==
    LET among[k \in 0..Len(s)] ==
          IF k = 0 THEN <<>>
          ELSE IF s[k] \in T THEN Append(among[k - 1], s[k]) ELSE among[k - 1]
    IN  among[Len(s)]

\* What the makers before the i-th one can fill.
Ahead(makers, i) == SumFunctionOnSet([j \in DOMAIN makers |-> size[makers[j]]], 1..(i - 1))

Depth(b) == Ahead(book[b], Len(book[b]) + 1)

\* What the i-th maker gives to an order of size n.
Taken(makers, n, i) == Max({0, Min({size[makers[i]], n - Ahead(makers, i)})})

\* Order o of side b and size n trades with makers; pass what is left of it.
Execute(o, b, n, makers) ==
    LET used  == {i \in DOMAIN makers : Taken(makers, n, i) > 0}
        total == Min({n, Ahead(makers, Len(makers) + 1)})
    IN  /\ matches' = [i \in used |-> [maker |-> makers[i],
                                       price |-> price[makers[i]],
                                       size  |-> Taken(makers, n, i)]]
        /\ size' = [x \in Orders |->
                      IF x = o THEN n - total
                      ELSE IF x \in {makers[i] : i \in used}
                           THEN size[x] - Taken(makers, n, CHOOSE i \in used : makers[i] = x)
                           ELSE size[x]]

Receive(o, b, p) ==
    /\ o \in Orders \ received
    /\ received' = received \cup {o}
    /\ bid'   = [bid EXCEPT ![o] = b]
    /\ price' = [price EXCEPT ![o] = p]

StillOpen(s) == Select(s, {m \in Orders : size'[m] > 0})

\* o goes behind every resting order of its side that is at least as good.
Enqueue(s, o, b, p) ==
    LET k == Cardinality({i \in DOMAIN s : ~ Better(b, p, price[s[i]])})
    IN  InsertAt(s, k + 1, o)

LimitOrder(o, b, p, n) ==
    LET makers == Select(book[~b], {m \in Orders : Crosses(b, p, price[m])})
    IN  /\ Receive(o, b, p)
        /\ Execute(o, b, n, makers)
        /\ book' = [s \in BOOLEAN |->
                      IF s # b THEN StillOpen(book[s])
                      ELSE IF size'[o] > 0 THEN Enqueue(book[b], o, b, p)
                      ELSE book[b]]

\* A market order is executed in full ...
MarketOrder(o, b, n) ==
    /\ n <= Depth(~b)
    /\ Receive(o, b, 0)
    /\ Execute(o, b, n, book[~b])
    /\ book' = [book EXCEPT ![~b] = StillOpen(@)]

\* ... or refused with the book untouched.
RefuseMarketOrder(o, b, n) ==
    /\ n > Depth(~b)
    /\ Receive(o, b, 0)
    /\ size' = [size EXCEPT ![o] = n]
    /\ matches' = <<>>
    /\ UNCHANGED book

Cancel(o) ==
    /\ \E b \in BOOLEAN : o \in ToSet(book[b])
    /\ book' = [s \in BOOLEAN |-> Select(book[s], Orders \ {o})]
    /\ UNCHANGED <<received, bid, price, size, matches>>

Init ==
    /\ received = {}
    /\ bid   = [o \in Orders |-> FALSE]
    /\ price = [o \in Orders |-> 0]
    /\ size  = [o \in Orders |-> 0]
    /\ book  = [b \in BOOLEAN |-> <<>>]
    /\ matches = <<>>

Next ==
    \E o \in Orders :
        \/ Cancel(o)
        \/ \E b \in BOOLEAN, n \in Sizes :
              \/ MarketOrder(o, b, n)
              \/ RefuseMarketOrder(o, b, n)
              \/ \E p \in Prices : LimitOrder(o, b, p, n)

Spec == Init /\ [][Next]_vars
=============================================================================
