----------------------------- MODULE DepthBook -----------------------------
(***************************************************************************)
(* The order book as a snapshot shows it: the volume of every level.  The  *)
(* demo liquidity manager and the depth checks of the market order handler *)
(* read nothing else.  An order eats the levels of the other side it may   *)
(* trade at, best first, and what is left of a limit order becomes volume. *)
(* Orderbook implements this module; Liquidity uses it as its book.        *)
(* Sides are BOOLEAN as in the code: TRUE is the bid side.                 *)
(***************************************************************************)
EXTENDS Integers, FiniteSetsExt, Functions

CONSTANTS Prices, \* prices of limit orders, in ticks
          Sizes   \* sizes of incoming orders, in lots

VARIABLE depth    \* side -> level -> its volume; a price without level is not there

Empty == [b \in BOOLEAN |-> <<>>]

Levels(b) == DOMAIN depth[b]
Volume(b, P) == SumFunctionOnSet(depth[b], P)
Total(b) == Volume(b, Levels(b))

Better(b, p, q) == IF b THEN p > q ELSE p < q
Best(b) == CHOOSE p \in Levels(b) : \A q \in Levels(b) \ {p} : Better(b, p, q)

\* The levels an order of side b with limit p trades at.
Marketable(b, p) == {q \in Levels(~b) : IF b THEN q <= p ELSE q >= p}

\* The levels of side b after an order of n has eaten into those in P.
Eaten(b, n, P) ==
    LET taken(q) == Max({0, Min({depth[b][q], n - Volume(b, {r \in P : Better(b, r, q)})})})
        left == [q \in Levels(b) |-> depth[b][q] - IF q \in P THEN taken(q) ELSE 0]
    IN  [q \in {r \in Levels(b) : left[r] > 0} |-> left[q]]

\* Volume n joins the levels f at price p.
Joined(f, p, n) ==
    [q \in DOMAIN f \cup {p} |->
        (IF q \in DOMAIN f THEN f[q] ELSE 0) + (IF q = p THEN n ELSE 0)]

LimitOrder(b, p, n) ==
    LET P    == Marketable(b, p)
        rest == n - Min({n, Volume(~b, P)})
    IN  depth' = [s \in BOOLEAN |->
                    IF s # b THEN Eaten(s, n, P)
                    ELSE IF rest > 0 THEN Joined(depth[s], p, rest) ELSE depth[s]]

\* A market order is executed in full; one that is too large changes nothing.
MarketOrder(b, n) ==
    /\ n <= Total(~b)
    /\ depth' = [depth EXCEPT ![~b] = Eaten(~b, n, Levels(~b))]

\* An order with n left is cancelled.
Cancel(b, p, n) ==
    /\ p \in Levels(b) /\ n \in 1..depth[b][p]
    /\ depth' = [depth EXCEPT ![b] = Eaten(b, n, {p})]

Init == depth = Empty

Next ==
    \E b \in BOOLEAN, n \in Sizes :
        \/ MarketOrder(b, n)
        \/ \E p \in Prices : LimitOrder(b, p, n)
        \/ \E p \in Prices, left \in 1..n : Cancel(b, p, left)

Spec == Init /\ [][Next]_depth
=============================================================================
