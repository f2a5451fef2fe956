--------------------------- MODULE LiquidityProofs ---------------------------
(***************************************************************************)
(* For any number of stream ticks and market orders, any prices and sizes: *)
(* the cool-down holds, because what Ensure has begun since it last ran out *)
(* is still in the hands of the caller that holds m.mu; the types hold,    *)
(* because every price that is quoted stays positive; and for a caller     *)
(* whose look at the book nobody has spoilt since, the book still is what  *)
(* its own orders made of it, so that a top-up leaves both sides quoted and *)
(* a market order finds the depth that was looked at or added for it.      *)
(***************************************************************************)
EXTENDS Liquidity, Sums, TLAPS

\* Callers are records with a position; a trader that injects kept its order.
Positions ==
    /\ DOMAIN req = Callers /\ req = [c \in Callers |-> req[c]]
    /\ \A c \in Callers : "pc" \in DOMAIN req[c]
    /\ \A c \in Callers : req[c].pc = "inject" => "pc" \in DOMAIN req[c].order

\* Who is at work holds the mutex, and only tickers top up.
Mutex ==
    /\ \A c \in Callers : req[c].pc \in Holding => mu = c
    /\ \A c \in Callers : req[c].pc = "inject" => c \in Traders
    /\ \A c \in Callers : req[c].pc \in Holding \ {"inject"} => c \in Tickers

\* A top-up that has begun has started the cool-down or is still going on.
Begun == begun \in 0..1 /\ (begun = 1 /\ ~ cooling => mu \in Tickers)

IInv == Positions /\ Mutex /\ Begun

\* A step of one caller leaves the others where they are.
LEMMA OneMoves ==
    ASSUME Positions, NEW c \in Callers, NEW r, Become(c, r), "pc" \in DOMAIN r,
           r.pc = "inject" => "pc" \in DOMAIN r.order
    PROVE  /\ req'[c] = r
           /\ \A d \in Callers \ {c} : req'[d] = req[d]
           /\ Positions'
  BY DEF Positions, Become

\* The same of a step that only moves the position.
LEMMA MovesOn ==
    ASSUME NEW r, "pc" \in DOMAIN r, NEW pc
    PROVE  LET s == [r EXCEPT !.pc = pc] IN s.pc = pc /\ "pc" \in DOMAIN s
  OBVIOUS

\* Given the step of one caller to r, what is left to check.
LEMMA Keeps ==
    ASSUME IInv, NEW c \in Callers, NEW r, Become(c, r), "pc" \in DOMAIN r,
           r.pc = "inject" => "pc" \in DOMAIN r.order,
           mu = NoOne \/ mu = c \/ mu' = mu,
           r.pc \in Holding => mu' = c,
           mu' = NoOne \/ mu' = c \/ mu' = mu,
           mu' = NoOne => mu = NoOne \/ mu = c,
           mu' = c => mu = NoOne \/ mu = c,
           r.pc = "inject" => c \in Traders,
           r.pc \in Holding \ {"inject"} => c \in Tickers
    PROVE  Positions' /\ Mutex'
  <1>1. req'[c] = r /\ (\A d \in Callers \ {c} : req'[d] = req[d]) /\ Positions'
    BY OneMoves DEF IInv
  <1>2. \A d \in Callers \ {c} : d # NoOne
    BY CallersAssumption DEF Callers
  <1>3. \A d \in Callers \ {c} : req[d].pc \in Holding => mu' = d
    BY <1>2 DEF IInv, Mutex
  <1> QED BY <1>1, <1>3 DEF IInv, Mutex

-----------------------------------------------------------------------------
(* Steps that neither take nor give back the mutex.                        *)

LEMMA CallsKeep ==
    ASSUME IInv, NEW c \in Callers, StartEnsure(c) \/ StartMarketOrder(c)
    PROVE  IInv'
  <1>1. CASE StartEnsure(c)
    <2> DEFINE r == [req[c] EXCEPT !.pc = "lock"]
    <2>1. /\ Become(c, r) /\ r.pc = "lock" /\ "pc" \in DOMAIN r
          /\ UNCHANGED <<mu, cooling, begun>>
      BY <1>1, MovesOn DEF StartEnsure, Goto, Become, IInv, Positions
    <2> HIDE DEF r
    <2>2. Positions' /\ Mutex'
      BY <2>1, Keeps DEF Holding
    <2> QED BY <2>1, <2>2 DEF IInv, Begun
  <1>2. CASE StartMarketOrder(c)
    <2>1. PICK b \in BOOLEAN, n \in MarketSizes :
            Become(c, [pc |-> "lock", bid |-> b, size |-> n, attempt |-> 1])
      BY <1>2 DEF StartMarketOrder
    <2>2. UNCHANGED <<mu, cooling, begun>>
      BY <1>2 DEF StartMarketOrder
    <2> DEFINE r == [pc |-> "lock", bid |-> b, size |-> n, attempt |-> 1]
    <2>3. r.pc = "lock" /\ "pc" \in DOMAIN r /\ Become(c, r)
      BY <2>1
    <2> HIDE DEF r
    <2>4. Positions' /\ Mutex'
      BY <2>2, <2>3, Keeps DEF Holding
    <2> QED BY <2>2, <2>4 DEF IInv, Begun
  <1> QED BY <1>1, <1>2

LEMMA OrdersKeep ==
    ASSUME IInv, NEW c \in Callers, PlaceBid(c) \/ PlaceAsk(c)
    PROVE  IInv'
  <1>1. c \in Tickers /\ mu = c
    BY DEF PlaceBid, PlaceAsk, IInv, Mutex, Holding
  <1>2. UNCHANGED <<mu, cooling, begun>>
    BY DEF PlaceBid, PlaceAsk
  <1>3. \E r : Become(c, r) /\ "pc" \in DOMAIN r /\ r.pc \in {"ask", "bid", "pulse"}
    <2>1. CASE PlaceBid(c)
      <3>1. PICK n \in nextSize : Become(c, [req[c] EXCEPT !.pc = "ask", !.size = n])
        BY <2>1 DEF PlaceBid
      <3> DEFINE r == [req[c] EXCEPT !.pc = "ask", !.size = n]
      <3>2. "pc" \in DOMAIN r /\ r.pc = "ask"
        BY DEF IInv, Positions
      <3> QED BY <3>1, <3>2
    <2>2. CASE PlaceAsk(c)
      <3> DEFINE pc == IF req[c].i + 1 < Max({req[c].need[TRUE], req[c].need[FALSE]})
                       THEN "bid" ELSE "pulse"
                 r  == [req[c] EXCEPT !.i = req[c].i + 1, !.pc = pc]
      <3>1. Become(c, r)
        BY <2>2 DEF PlaceAsk
      <3>2. "pc" \in DOMAIN r /\ r.pc = pc
        <4> HIDE DEF pc
        <4> QED BY DEF IInv, Positions
      <3>3. pc \in {"bid", "pulse"}
        OBVIOUS
      <3> HIDE DEF r, pc
      <3> QED BY <3>1, <3>2, <3>3
    <2> QED BY <2>1, <2>2
  <1>4. Positions' /\ Mutex'
    BY <1>1, <1>2, <1>3, Keeps DEF Holding
  <1> QED BY <1>2, <1>4 DEF IInv, Begun

LEMMA PulseKeeps ==
    ASSUME IInv, NEW c \in Callers, PulseLook(c) \/ Pulse(c)
    PROVE  IInv'
  <1>1. c \in Tickers /\ mu = c
    BY DEF PulseLook, Pulse, IInv, Mutex, Holding
  <1>2. UNCHANGED <<mu, cooling, begun>>
    BY DEF PulseLook, Pulse
  <1>3. \E r : Become(c, r) /\ "pc" \in DOMAIN r /\ r.pc \in {"count", "flow"}
    <2>1. CASE Pulse(c)
      BY <2>1 DEF Pulse
    <2>2. CASE PulseLook(c)
      <3> DEFINE buy  == (~ lastSideBuy /\ B!Levels(FALSE) # {}) \/ B!Levels(TRUE) = {}
                 size == Max({1, depth[~ buy][B!Best(~ buy)] \div 6})
                 r    == IF B!Levels(~ buy) = {} THEN [pc |-> "count"]
                         ELSE [pc |-> "flow", buy |-> buy, size |-> size]
      <3>1. Become(c, r)
        BY <2>2 DEF PulseLook
      <3>2. "pc" \in DOMAIN r /\ r.pc \in {"count", "flow"}
        <4> HIDE DEF buy, size
        <4> QED OBVIOUS
      <3> HIDE DEF r
      <3> QED BY <3>1, <3>2
    <2> QED BY <2>1, <2>2
  <1>4. Positions' /\ Mutex'
    BY <1>1, <1>2, <1>3, Keeps DEF Holding
  <1> QED BY <1>2, <1>4 DEF IInv, Begun

LEMMA HandlerKeeps ==
    ASSUME IInv, NEW c \in Callers, CheckDepth(c) \/ SafePlaceMarketOrder(c)
    PROVE  IInv'
  <1>1. UNCHANGED <<mu, cooling, begun>>
    BY DEF CheckDepth, SafePlaceMarketOrder
  <1>2. \E r : Become(c, r) /\ "pc" \in DOMAIN r /\ r.pc \in {"place", "lock", "refused", "filled"}
    <2>1. CASE SafePlaceMarketOrder(c)
      <3>1. Become(c, [pc |-> "filled"]) \/ Become(c, [pc |-> "refused"])
        BY <2>1 DEF SafePlaceMarketOrder
      <3> QED BY <3>1
    <2>2. CASE CheckDepth(c)
      <3> DEFINE next == IF depthForMarketSide(req[c].bid) >= req[c].size THEN "place"
                         ELSE IF req[c].attempt = 1 THEN "lock" ELSE "refused"
                 r == [req[c] EXCEPT !.pc = next, !.attempt = 2]
      <3>1. Become(c, [pc |-> next]) \/ Become(c, r)
        BY <2>2 DEF CheckDepth
      <3>2. next \in {"place", "lock", "refused"}
        OBVIOUS
      <3> HIDE DEF next
      <3>3. "pc" \in DOMAIN r /\ r.pc = next
        BY DEF IInv, Positions
      <3> DEFINE q == [pc |-> next]
      <3>4. "pc" \in DOMAIN q /\ q.pc = next
        OBVIOUS
      <3>5. CASE Become(c, r)
        <4> HIDE DEF r
        <4> QED BY <3>2, <3>3, <3>5
      <3>6. CASE Become(c, q)
        <4> HIDE DEF q
        <4> QED BY <3>2, <3>4, <3>6
      <3> QED BY <3>1, <3>5, <3>6
    <2> QED BY <2>1, <2>2
  <1>3. Positions' /\ Mutex'
    BY <1>1, <1>2, Keeps DEF Holding
  <1> QED BY <1>1, <1>3 DEF IInv, Begun

-----------------------------------------------------------------------------
(* Taking the mutex and giving it back.                                    *)

LEMMA EnsureKeeps ==
    ASSUME IInv, NEW c \in Callers, CoolingDown(c) \/ LookToTopUp(c)
    PROVE  IInv'
  <1>1. c \in Tickers /\ mu = NoOne /\ c # NoOne
    BY CallersAssumption DEF CoolingDown, LookToTopUp, Lock, Unlocked, Callers
  <1>2. CASE CoolingDown(c)
    <2> DEFINE r == [Idle EXCEPT !.pc = "idle"]
    <2>1. Become(c, r) /\ "pc" \in DOMAIN r /\ r.pc = "idle" /\ mu' = NoOne
      BY <1>2 DEF CoolingDown, Return, Idle
    <2>2. UNCHANGED <<cooling, begun>>
      BY <1>2 DEF CoolingDown
    <2> HIDE DEF r
    <2>3. Positions' /\ Mutex'
      BY <1>1, <2>1, Keeps DEF Holding
    <2> QED BY <1>1, <2>1, <2>2, <2>3, CallersAssumption DEF IInv, Begun, Callers
  <1>3. CASE LookToTopUp(c)
    <2> DEFINE need == [b \in BOOLEAN |-> MinLevels - Cardinality(B!Levels(b))]
               pc == IF need[TRUE] <= 0 /\ need[FALSE] <= 0 THEN "pulse" ELSE "bid"
    <2>1. /\ mu' = c /\ ~ cooling /\ cooling' = cooling /\ begun' = begun + 1
          /\ \E target \in targetMidPrice(cachedPrice') :
                Become(c, [pc |-> pc, need |-> need, mid |-> MidPrice(target), i |-> 0, size |-> 0])
      BY <1>3 DEF LookToTopUp, Lock
    <2>2. pc \in {"pulse", "bid"}
      OBVIOUS
    <2> HIDE DEF pc, need
    <2>3. PICK target \in targetMidPrice(cachedPrice') :
            Become(c, [pc |-> pc, need |-> need, mid |-> MidPrice(target), i |-> 0, size |-> 0])
      BY <2>1
    <2> DEFINE r == [pc |-> pc, need |-> need, mid |-> MidPrice(target), i |-> 0, size |-> 0]
    <2>4. "pc" \in DOMAIN r /\ r.pc = pc /\ Become(c, r)
      BY <2>3
    <2> HIDE DEF r
    <2>5. Positions' /\ Mutex'
      BY <1>1, <2>1, <2>2, <2>4, Keeps DEF Holding
    <2>6. Begun'
      BY <1>1, <2>1, CallersAssumption DEF IInv, Begun, Callers
    <2> QED BY <2>5, <2>6 DEF IInv
  <1> QED BY <1>2, <1>3

LEMMA TopUpEnds ==
    ASSUME IInv, NEW c \in Callers, CountTrades(c) \/ SeedOneTradeTick(c)
    PROVE  IInv'
  <1>1. c \in Tickers /\ mu = c /\ begun' = begun
    BY DEF CountTrades, SeedOneTradeTick, IInv, Mutex, Holding
  <1>2. CASE SetLastTopUp /\ Return(c, Idle, "idle")
    <2> DEFINE r == [Idle EXCEPT !.pc = "idle"]
    <2>1. Become(c, r) /\ "pc" \in DOMAIN r /\ r.pc = "idle" /\ mu' = NoOne /\ cooling'
      BY <1>2 DEF Return, Idle, SetLastTopUp
    <2> HIDE DEF r
    <2>2. Positions' /\ Mutex'
      BY <1>1, <2>1, Keeps DEF Holding
    <2> QED BY <1>1, <2>1, <2>2 DEF IInv, Begun
  <1>3. CASE Goto(c, "seed") /\ UNCHANGED <<cooling, mu>>
    <2> DEFINE r == [req[c] EXCEPT !.pc = "seed"]
    <2>1. Become(c, r) /\ r.pc = "seed" /\ "pc" \in DOMAIN r
      BY <1>3, MovesOn DEF Goto, Become, IInv, Positions
    <2> HIDE DEF r
    <2>2. Positions' /\ Mutex'
      BY <1>1, <1>3, <2>1, Keeps DEF Holding
    <2> QED BY <1>1, <1>3, <2>2 DEF IInv, Begun
  <1> QED BY <1>2, <1>3 DEF CountTrades, SeedOneTradeTick

LEMMA LookForTraderKeeps ==
    ASSUME IInv, NEW c \in Callers, LookForTrader(c)
    PROVE  IInv'
  <1> DEFINE missing == req[c].size - oppositeDepthVolume(req[c].bid)
  <1>1. /\ c \in Traders /\ mu = NoOne /\ c # NoOne /\ UNCHANGED <<cooling, begun>>
    BY CallersAssumption DEF LookForTrader, Unlocked, Callers
  <1>2. PICK target \in targetMidPrice(cachedPrice') :
          \/ Return(c, req[c], "check")
          \/ /\ Become(c, [pc |-> "inject", order |-> req[c], mid |-> MidPrice(target),
                           i |-> 0, remaining |-> missing])
             /\ mu' = c
    BY DEF LookForTrader
  <1> HIDE DEF missing
  <1>3. CASE Return(c, req[c], "check")
    <2> DEFINE r == [req[c] EXCEPT !.pc = "check"]
    <2>1. Become(c, r) /\ r.pc = "check" /\ "pc" \in DOMAIN r /\ mu' = NoOne
      BY <1>3, MovesOn DEF Return, IInv, Positions
    <2> HIDE DEF r
    <2>2. Positions' /\ Mutex'
      BY <1>1, <2>1, Keeps DEF Holding
    <2> QED BY <1>1, <2>1, <2>2 DEF IInv, Begun
  <1>4. CASE ~ Return(c, req[c], "check")
    <2> DEFINE r == [pc |-> "inject", order |-> req[c], mid |-> MidPrice(target),
                     i |-> 0, remaining |-> missing]
    <2>1. Become(c, r) /\ r.pc = "inject" /\ "pc" \in DOMAIN r /\ r.order = req[c] /\ mu' = c
      BY <1>2, <1>4
    <2> HIDE DEF r
    <2>2. Positions' /\ Mutex'
      BY <1>1, <2>1, Keeps DEF Holding, IInv, Positions
    <2> QED BY <1>1, <2>1, <2>2, CallersAssumption DEF IInv, Begun, Callers
  <1> QED BY <1>3, <1>4

LEMMA InjectKeeps ==
    ASSUME IInv, NEW c \in Callers, Inject(c)
    PROVE  IInv'
  <1>1. /\ c \in Traders /\ mu = c /\ begun' = begun /\ "pc" \in DOMAIN req[c].order
        /\ req[c].pc = "inject" /\ "pc" \in DOMAIN req[c]
    BY DEF Inject, IInv, Mutex, Holding, Positions
  <1>2. CASE SetLastTopUp /\ Return(c, req[c].order, "check")
    <2> DEFINE r == [req[c].order EXCEPT !.pc = "check"]
    <2>1. Become(c, r) /\ r.pc = "check" /\ "pc" \in DOMAIN r /\ mu' = NoOne /\ cooling'
      BY <1>1, <1>2, MovesOn DEF Return, SetLastTopUp
    <2> HIDE DEF r
    <2>2. Positions' /\ Mutex'
      BY <1>1, <2>1, Keeps DEF Holding
    <2> QED BY <1>1, <2>1, <2>2 DEF IInv, Begun
  <1>3. CASE ~ (SetLastTopUp /\ Return(c, req[c].order, "check"))
    <2>1. /\ UNCHANGED <<mu, cooling>>
          /\ \E left : Become(c, [req[c] EXCEPT !.i = req[c].i + 1, !.remaining = left])
      BY <1>3 DEF Inject
    <2>2. PICK left : Become(c, [req[c] EXCEPT !.i = req[c].i + 1, !.remaining = left])
      BY <2>1
    <2> DEFINE r == [req[c] EXCEPT !.i = req[c].i + 1, !.remaining = left]
    <2>3. Become(c, r) /\ r.pc = req[c].pc /\ "pc" \in DOMAIN r /\ r.order = req[c].order
      BY <1>1, <2>2
    <2> HIDE DEF r
    <2>4. Positions' /\ Mutex'
      BY <1>1, <2>1, <2>3, Keeps DEF Holding
    <2> QED BY <1>1, <2>1, <2>4 DEF IInv, Begun
  <1> QED BY <1>2, <1>3

LEMMA OthersKeep ==
    ASSUME IInv, Others \/ CooldownElapses \/ RegimeEnds \/ PriceExpires \/ UNCHANGED vars
    PROVE  IInv'
  <1>1. UNCHANGED <<mu, req>>
    BY DEF Others, CooldownElapses, RegimeEnds, PriceExpires, Tick, vars
  <1>2. Positions' /\ Mutex'
    BY <1>1 DEF IInv, Positions, Mutex
  <1>3. CASE CooldownElapses
    BY <1>2, <1>3 DEF CooldownElapses, IInv, Begun
  <1>4. CASE Others \/ RegimeEnds \/ PriceExpires \/ UNCHANGED vars
    <2>1. UNCHANGED <<begun, cooling>>
      BY <1>4 DEF Others, RegimeEnds, PriceExpires, vars
    <2> QED BY <1>1, <1>2, <2>1 DEF IInv, Begun
  <1> QED BY <1>3, <1>4

-----------------------------------------------------------------------------
(* The theorem.                                                            *)

LEMMA NextKeeps == IInv /\ [Next]_vars => IInv'
  <1> SUFFICES ASSUME IInv, [Next]_vars PROVE IInv'
    OBVIOUS
  <1>1. ASSUME NEW c \in Callers, StartEnsure(c) \/ StartMarketOrder(c) \/ Enter(c) \/ Step(c)
        PROVE  IInv'
    BY <1>1, CallsKeep, OrdersKeep, PulseKeeps, HandlerKeeps, EnsureKeeps, TopUpEnds,
       LookForTraderKeeps, InjectKeeps DEF Enter, Step
  <1> QED BY <1>1, OthersKeep DEF Next

\* However many streams tick and orders need depth, whatever they find: the book is
\* topped up at most once between two ends of the cool-down, because Ensure keeps
\* m.mu until it has set lastTopUp.
THEOREM ToppedUpOnce == Spec => []OnePerCooldown
  <1>1. Init => IInv
    <2> SUFFICES ASSUME Init PROVE IInv
      OBVIOUS
    <2>1. req = [c \in Callers |-> Idle] /\ begun = 0
      BY DEF Init
    <2>2. \A c \in Callers : req[c].pc = "idle" /\ "pc" \in DOMAIN req[c]
      BY <2>1 DEF Idle
    <2> QED BY <2>1, <2>2 DEF IInv, Positions, Mutex, Begun, Holding
  <1>2. IInv => OnePerCooldown
    BY DEF IInv, Begun, OnePerCooldown
  <1> QED BY <1>1, <1>2, NextKeeps, PTL DEF Spec

-----------------------------------------------------------------------------
(* The book.                                                               *)

Positive == Nat \ {0}

\* Levels have prices and volumes, and the sides do not cross.
BookOK ==
    /\ DOMAIN depth = BOOLEAN
    /\ \A b \in BOOLEAN :
         /\ IsFiniteSet(B!Levels(b)) /\ B!Levels(b) \subseteq Positive
         /\ \A p \in B!Levels(b) : depth[b][p] \in Positive
    /\ \A p \in B!Levels(TRUE), q \in B!Levels(FALSE) : p < q

\* The instance has its own copies of the library's operators.
LEMMA BookLibrary ==
    /\ \A S : B!Max(S) = Max(S) /\ B!Min(S) = Min(S)
    /\ \A f, S : B!SumFunctionOnSet(f, S) = SumFunctionOnSet(f, S)
  <1>1. \A S : B!Max(S) = Max(S) /\ B!Min(S) = Min(S)
    BY DEF B!Max, B!Min, Max, Min
  <1>2. \A f, S : B!SumFunctionOnSet(f, S) = SumFunctionOnSet(f, S)
    BY DEF B!SumFunctionOnSet, B!FoldFunctionOnSet, B!MapThenFoldSet,
           SumFunctionOnSet, FoldFunctionOnSet, MapThenFoldSet
  <1> QED BY <1>1, <1>2

\* Volumes are natural numbers.
LEMMA VolumeNat ==
    ASSUME BookOK, NEW b \in BOOLEAN, NEW P \in SUBSET B!Levels(b)
    PROVE  B!Volume(b, P) \in Nat /\ B!Volume(b, P) = SumFunctionOnSet(depth[b], P)
  <1>1. IsFiniteSet(P) /\ \A q \in P : depth[b][q] \in Nat
    BY FS_Subset DEF BookOK, Positive
  <1>2. SumFunctionOnSet(depth[b], P) \in Nat
    BY <1>1, SumNat
  <1> QED BY <1>2, BookLibrary DEF B!Volume

\* What an order that eats n of the levels in P leaves of a side.
LEMMA EatenLeaves ==
    ASSUME BookOK, NEW b \in BOOLEAN, NEW n \in Nat, NEW P \in SUBSET B!Levels(b)
    PROVE  /\ DOMAIN B!Eaten(b, n, P) \subseteq B!Levels(b)
           /\ \A q \in DOMAIN B!Eaten(b, n, P) : B!Eaten(b, n, P)[q] \in Positive
           /\ B!Levels(b) \ P \subseteq DOMAIN B!Eaten(b, n, P)
           /\ n >= B!Volume(b, P) => DOMAIN B!Eaten(b, n, P) = B!Levels(b) \ P
  <1> DEFINE D == depth[b]
             A == [q \in P |-> {r \in P : B!Better(b, r, q)}]
             m(q) == n - B!Volume(b, {r \in P : B!Better(b, r, q)})
             taken(q) == B!Max({0, B!Min({depth[b][q], m(q)})})
             left == [q \in B!Levels(b) |-> depth[b][q] - IF q \in P THEN taken(q) ELSE 0]
  <1>1. B!Eaten(b, n, P) = [q \in {r \in B!Levels(b) : left[r] > 0} |-> left[q]]
    BY DEF B!Eaten
  <1>2. \A q \in B!Levels(b) : D[q] \in Positive
    BY DEF BookOK
  <1>3. ASSUME NEW q \in P
        PROVE  taken(q) = Taken(D, A, n, q) /\ taken(q) \in 0..D[q]
    <2>1. A[q] \in SUBSET B!Levels(b) /\ A[q] = {r \in P : B!Better(b, r, q)}
      OBVIOUS
    <2>2. B!Volume(b, A[q]) \in Nat /\ B!Volume(b, A[q]) = SumFunctionOnSet(D, A[q])
      BY <2>1, VolumeNat
    <2>3. m(q) = n - SumFunctionOnSet(D, A[q])
      BY <2>1, <2>2
    <2> HIDE DEF m, A, D
    <2>4. taken(q) = Max({0, Min({D[q], m(q)})})
      BY BookLibrary DEF D
    <2>5. taken(q) = Taken(D, A, n, q)
      BY <2>3, <2>4 DEF Taken
    <2>6. D[q] \in Nat /\ SumFunctionOnSet(D, A[q]) \in Int
      BY <1>2, <2>2 DEF Positive
    <2>7. taken(q) \in 0..D[q]
      BY <2>2, <2>5, <2>6, TakenIs
    <2> QED BY <2>5, <2>7
  <1>4. \A q \in B!Levels(b) :
          left[q] = IF q \in P THEN D[q] - Taken(D, A, n, q) ELSE D[q]
    <2> HIDE DEF A, taken
    <2> SUFFICES ASSUME NEW q \in B!Levels(b)
                 PROVE  left[q] = IF q \in P THEN D[q] - Taken(D, A, n, q) ELSE D[q]
      OBVIOUS
    <2>1. D[q] \in Nat
      BY <1>2 DEF Positive
    <2> QED BY <1>3, <2>1
  <1>5. \A q \in P : Taken(D, A, n, q) \in 0..D[q]
    BY <1>3
  <1> HIDE DEF left, taken
  <1>6. ASSUME n >= B!Volume(b, P), NEW q \in P PROVE left[q] = 0
    <2>1. IsFiniteSet(P) /\ \A r \in P : D[r] \in Nat
      BY <1>2, FS_Subset DEF BookOK, Positive
    <2>2. \A r \in P : A[r] \subseteq P \ {r}
      <3>1. \A r \in P : r \in Int
        BY DEF BookOK, Positive
      <3> QED BY <3>1 DEF B!Better
    <2>3. SumFunctionOnSet(D, P) <= n
      BY <1>6, VolumeNat
    <2> HIDE DEF A, D
    <2>4. Taken(D, A, n, q) = D[q]
      BY <2>1, <2>2, <2>3, TakesAll
    <2> QED BY <1>4, <1>6, <2>1, <2>4
  <1>7. \A q \in B!Levels(b) : left[q] \in Int
    <2> SUFFICES ASSUME NEW q \in B!Levels(b) PROVE left[q] \in Int
      OBVIOUS
    <2>1. D[q] \in Nat
      BY <1>2 DEF Positive
    <2> HIDE DEF D, A
    <2> QED BY <1>4, <1>5, <2>1
  <1> DEFINE F == B!Eaten(b, n, P)
  <1>8. DOMAIN F = {r \in B!Levels(b) : left[r] > 0} /\ \A q \in DOMAIN F : F[q] = left[q]
    BY <1>1
  <1> HIDE DEF F
  <1>9. \A q \in DOMAIN F : F[q] \in Positive
    BY <1>7, <1>8 DEF Positive
  <1>10. B!Levels(b) \ P \subseteq DOMAIN F
    <2> SUFFICES ASSUME NEW q \in B!Levels(b) \ P PROVE q \in DOMAIN F
      OBVIOUS
    <2>1. D[q] \in Nat /\ D[q] > 0
      BY <1>2 DEF Positive
    <2>2. left[q] = D[q]
      BY <1>4
    <2> QED BY <1>8, <2>1, <2>2
  <1>11. n >= B!Volume(b, P) => DOMAIN F = B!Levels(b) \ P
    BY <1>6, <1>8, <1>10
  <1> QED BY <1>8, <1>9, <1>10, <1>11 DEF F

\* The best level of a side that has one.
LEMMA BestIs ==
    ASSUME BookOK, NEW b \in BOOLEAN, B!Levels(b) # {}
    PROVE  B!Best(b) \in B!Levels(b) /\ \A q \in B!Levels(b) \ {B!Best(b)} : B!Better(b, B!Best(b), q)
  <1> DEFINE IsBest(p, T) == p \in T /\ \A q \in T \ {p} : B!Better(b, p, q)
             Good == {T \in SUBSET B!Levels(b) : T # {} => \E p \in T : IsBest(p, T)}
  <1>1. \A T \in SUBSET B!Levels(b) : (\A U \in SUBSET T : U # T => U \in Good) => T \in Good
    <2> SUFFICES ASSUME NEW T \in SUBSET B!Levels(b), \A U \in SUBSET T : U # T => U \in Good,
                        T # {}
                 PROVE  \E p \in T : IsBest(p, T)
      OBVIOUS
    <2>1. PICK x \in T : TRUE
      OBVIOUS
    <2>2. T \ {x} \in Good
      BY <2>1
    <2>3. \A y \in T : y \in Int
      BY DEF BookOK, Positive
    <2>4. CASE T \ {x} = {}
      <3>1. IsBest(x, T)
        BY <2>1, <2>4
      <3> QED BY <2>1, <3>1
    <2>5. CASE T \ {x} # {}
      <3>1. PICK p \in T \ {x} : IsBest(p, T \ {x})
        BY <2>2, <2>5
      <3>2. CASE B!Better(b, p, x)
        <4>1. IsBest(p, T)
          BY <3>1, <3>2
        <4> QED BY <3>1, <4>1
      <3>3. CASE ~ B!Better(b, p, x)
        <4>1. B!Better(b, x, p)
          BY <2>1, <2>3, <3>1, <3>3 DEF B!Better
        <4>2. \A q \in T \ {x} : B!Better(b, x, q)
          BY <2>1, <2>3, <3>1, <4>1 DEF B!Better
        <4> QED BY <2>1, <4>2
      <3> QED BY <3>2, <3>3
    <2> QED BY <2>4, <2>5
  <1>2. IsFiniteSet(B!Levels(b))
    BY DEF BookOK
  <1> HIDE DEF Good
  <1>3. B!Levels(b) \in Good
    BY <1>1, <1>2, SetInduction
  <1>4. \E p \in B!Levels(b) : IsBest(p, B!Levels(b))
    BY <1>3 DEF Good
  <1> QED BY <1>4 DEF B!Best

\* A limit order keeps the book in order; one that meets nobody joins in full.
LEMMA LimitOrderKeeps ==
    ASSUME BookOK, NEW b \in BOOLEAN, NEW p \in Positive, NEW n \in Positive, B!LimitOrder(b, p, n)
    PROVE  /\ BookOK'
           /\ B!Levels(~ b)' \subseteq B!Levels(~ b)
           /\ B!Marketable(b, p) = {} =>
                /\ B!Levels(~ b)' = B!Levels(~ b)
                /\ B!Levels(b)' = B!Levels(b) \cup {p}
                /\ B!Total(b)' = B!Total(b) + n
  <1> DEFINE P    == B!Marketable(b, p)
             rest == n - B!Min({n, B!Volume(~ b, P)})
             F    == B!Eaten(~ b, n, P)
  <1>1. depth' = [s \in BOOLEAN |-> IF s # b THEN B!Eaten(s, n, P)
                                    ELSE IF rest > 0 THEN B!Joined(depth[s], p, rest) ELSE depth[s]]
    BY DEF B!LimitOrder
  <1>2. /\ (~ b) \in BOOLEAN /\ (~ b) # b /\ P \in SUBSET B!Levels(~ b) /\ n \in Nat /\ n > 0 /\ p \in Nat
        /\ p > 0
    BY DEF B!Marketable, Positive
  <1>3. /\ B!Volume(~ b, P) \in Nat
        /\ rest = IF n <= B!Volume(~ b, P) THEN 0 ELSE n - B!Volume(~ b, P)
    <2>1. B!Volume(~ b, P) \in Nat
      BY <1>2, VolumeNat
    <2> QED BY <1>2, <2>1, BookLibrary, Smaller
  <1>4. /\ DOMAIN F \subseteq B!Levels(~ b)
        /\ \A q \in DOMAIN F : F[q] \in Positive
        /\ B!Levels(~ b) \ P \subseteq DOMAIN F
        /\ n >= B!Volume(~ b, P) => DOMAIN F = B!Levels(~ b) \ P
    BY <1>2, EatenLeaves
  <1>5. DOMAIN depth' = BOOLEAN /\ depth'[~ b] = F
        /\ depth'[b] = IF rest > 0 THEN B!Joined(depth[b], p, rest) ELSE depth[b]
    BY <1>1, <1>2
  <1> HIDE DEF F, rest
  <1>6. B!Levels(~ b)' = DOMAIN F
    BY <1>5 DEF B!Levels
  <1>7. /\ B!Levels(b)' = IF rest > 0 THEN B!Levels(b) \cup {p} ELSE B!Levels(b)
        /\ \A q \in B!Levels(b)' : depth'[b][q] =
             (IF q \in B!Levels(b) THEN depth[b][q] ELSE 0) + (IF q = p /\ rest > 0 THEN rest ELSE 0)
    <2>1. CASE rest > 0
      <3>1. depth'[b] = B!Joined(depth[b], p, rest)
        BY <1>5, <2>1
      <3>2. /\ DOMAIN B!Joined(depth[b], p, rest) = B!Levels(b) \cup {p}
            /\ \A q \in B!Levels(b) \cup {p} : B!Joined(depth[b], p, rest)[q] =
                  (IF q \in B!Levels(b) THEN depth[b][q] ELSE 0) + (IF q = p THEN rest ELSE 0)
        BY DEF B!Joined, B!Levels
      <3> QED BY <2>1, <3>1, <3>2 DEF B!Levels
    <2>2. CASE ~ (rest > 0)
      <3>1. depth'[b] = depth[b] /\ \A q \in B!Levels(b) : depth[b][q] \in Nat
        BY <1>5, <2>2 DEF BookOK, Positive
      <3>2. B!Levels(b)' = B!Levels(b)
        BY <3>1 DEF B!Levels
      <3> QED BY <2>2, <3>1, <3>2
    <2> QED BY <2>1, <2>2
  <1>8. rest \in Nat /\ (rest > 0 => n >= B!Volume(~ b, P))
    BY <1>2, <1>3
  <1>9. \A q \in B!Levels(b)' : depth'[b][q] \in Positive
    <2> SUFFICES ASSUME NEW q \in B!Levels(b)' PROVE depth'[b][q] \in Positive
      OBVIOUS
    <2>1. CASE q \in B!Levels(b)
      <3>1. depth[b][q] \in Nat /\ depth[b][q] > 0
        BY <2>1 DEF BookOK, Positive
      <3> QED BY <1>7, <1>8, <2>1, <3>1 DEF Positive
    <2>2. CASE q \notin B!Levels(b)
      <3>1. q = p /\ rest > 0
        BY <1>7, <2>2
      <3> QED BY <1>7, <1>8, <2>2, <3>1 DEF Positive
    <2> QED BY <2>1, <2>2
  <1>10. \A s \in BOOLEAN : IsFiniteSet(B!Levels(s)') /\ B!Levels(s)' \subseteq Positive
    <2>1. \A s \in BOOLEAN : IsFiniteSet(B!Levels(s)) /\ B!Levels(s) \subseteq Positive
      BY DEF BookOK
    <2>2. IsFiniteSet(B!Levels(b)') /\ B!Levels(b)' \subseteq Positive
      BY <1>7, <2>1, FS_AddElement
    <2>3. IsFiniteSet(B!Levels(~ b)') /\ B!Levels(~ b)' \subseteq Positive
      BY <1>2, <1>4, <1>6, <2>1, FS_Subset
    <2> QED BY <1>2, <2>2, <2>3
  <1>11. \A x \in B!Levels(TRUE)', y \in B!Levels(FALSE)' : x < y
    <2>1. \A x \in B!Levels(TRUE), y \in B!Levels(FALSE) : x < y
      BY DEF BookOK
    <2>2. CASE rest > 0
      <3>1. B!Levels(~ b)' = B!Levels(~ b) \ P
        BY <1>4, <1>6, <1>8, <2>2
      <3>2. \A q \in B!Levels(~ b) \ P : IF b THEN p < q ELSE q < p
        <4>1. \A q \in B!Levels(~ b) : q \in Nat
          BY <1>2 DEF BookOK, Positive
        <4> QED BY <1>2, <4>1 DEF B!Marketable
      <3> QED BY <1>2, <1>7, <2>1, <2>2, <3>1, <3>2
    <2>3. CASE ~ (rest > 0)
      BY <1>2, <1>4, <1>6, <1>7, <2>1, <2>3
    <2> QED BY <2>2, <2>3
  <1>12. BookOK'
    <2>1. \A q \in B!Levels(~ b)' : depth'[~ b][q] \in Positive
      BY <1>4, <1>5, <1>6
    <2>2. \A s \in BOOLEAN : s = b \/ s = ~ b
      BY <1>2
    <2> QED BY <1>5, <1>9, <1>10, <1>11, <2>1, <2>2 DEF BookOK
  <1>13. ASSUME P = {}
         PROVE  /\ B!Levels(~ b)' = B!Levels(~ b) /\ B!Levels(b)' = B!Levels(b) \cup {p}
                /\ B!Total(b)' = B!Total(b) + n
    <2>1. B!Volume(~ b, P) = 0
      BY <1>13, BookLibrary, SumEmpty DEF B!Volume
    <2>2. rest = n /\ rest > 0
      BY <1>2, <1>3, <2>1
    <2>3. B!Levels(~ b)' = B!Levels(~ b)
      BY <1>4, <1>6, <1>13
    <2> DEFINE D == depth[b]
               E == depth'[b]
               L == B!Levels(b)
    <2>4. /\ IsFiniteSet(L) /\ \A q \in L : D[q] \in Nat
          /\ B!Levels(b)' = L \cup {p}
          /\ \A q \in L \cup {p} : E[q] = (IF q \in L THEN D[q] ELSE 0) + (IF q = p THEN n ELSE 0)
      BY <1>7, <2>2 DEF BookOK, Positive
    <2>5. B!Total(b) = SumFunctionOnSet(D, L) /\ B!Total(b)' = SumFunctionOnSet(E, L \cup {p})
      BY <2>4, BookLibrary DEF B!Total, B!Volume
    <2> HIDE DEF D, E, L
    <2>6. SumFunctionOnSet(E, L \cup {p}) = SumFunctionOnSet(D, L) + n
      <3>0. SumFunctionOnSet(D, L) \in Int
        BY <2>4, SumInt
      <3>1. CASE p \in L
        <4>1. L \cup {p} = L /\ E[p] = D[p] + n /\ D[p] \in Nat /\ E[p] \in Int
          BY <1>2, <2>4, <3>1
        <4>2. \A y \in L \ {p} : E[y] = D[y]
          BY <2>4
        <4>3. SumFunctionOnSet(E, L) = SumFunctionOnSet(D, L) - D[p] + E[p]
          BY <2>4, <3>1, <4>1, <4>2, SumChange
        <4>4. SumFunctionOnSet(E, L \cup {p}) = SumFunctionOnSet(D, L) - D[p] + (D[p] + n)
          BY <4>1, <4>3
        <4> QED BY <1>2, <3>0, <4>1, <4>4
      <3>2. CASE p \notin L
        <4>1. \A y \in L : E[y] = D[y] /\ E[y] \in Int
          BY <2>4, <3>2
        <4>2. E[p] = n
          BY <1>2, <2>4, <3>2
        <4>3. SumFunctionOnSet(E, L \cup {p}) = E[p] + SumFunctionOnSet(E, L)
          BY <1>2, <2>4, <3>2, <4>1, <4>2, SumAdd
        <4>4. SumFunctionOnSet(E, L) = SumFunctionOnSet(D, L)
          BY <2>4, <4>1, SumSame
        <4> QED BY <1>2, <3>0, <4>2, <4>3, <4>4
      <3> QED BY <3>1, <3>2
    <2>7. B!Total(b)' = B!Total(b) + n
      BY <2>5, <2>6
    <2> QED BY <2>3, <2>4, <2>7 DEF L
  <1> QED BY <1>4, <1>6, <1>12, <1>13

\* What only takes from one side keeps the book in order.
LEMMA TakingKeeps ==
    ASSUME BookOK, NEW b \in BOOLEAN, NEW n \in Nat, NEW P \in SUBSET B!Levels(b),
           depth' = [depth EXCEPT ![b] = B!Eaten(b, n, P)]
    PROVE  BookOK'
  <1> DEFINE F == B!Eaten(b, n, P)
  <1>1. DOMAIN F \subseteq B!Levels(b) /\ \A q \in DOMAIN F : F[q] \in Positive
    BY EatenLeaves
  <1>2. DOMAIN depth' = BOOLEAN /\ depth'[b] = F /\ \A s \in BOOLEAN \ {b} : depth'[s] = depth[s]
    BY DEF BookOK
  <1> HIDE DEF F
  <1>3. B!Levels(b)' = DOMAIN F /\ \A s \in BOOLEAN \ {b} : B!Levels(s)' = B!Levels(s)
    BY <1>2 DEF B!Levels
  <1>4. \A s \in BOOLEAN : B!Levels(s)' \subseteq B!Levels(s)
    BY <1>1, <1>3
  <1>5. \A s \in BOOLEAN : IsFiniteSet(B!Levels(s)') /\ B!Levels(s)' \subseteq Positive
    <2>1. \A s \in BOOLEAN : IsFiniteSet(B!Levels(s)) /\ B!Levels(s) \subseteq Positive
      BY DEF BookOK
    <2> QED BY <1>4, <2>1, FS_Subset
  <1>6. \A s \in BOOLEAN : \A q \in B!Levels(s)' : depth'[s][q] \in Positive
    <2>1. \A s \in BOOLEAN : \A q \in B!Levels(s) : depth[s][q] \in Positive
      BY DEF BookOK
    <2> QED BY <1>1, <1>2, <1>3, <2>1
  <1>7. \A x \in B!Levels(TRUE)', y \in B!Levels(FALSE)' : x < y
    BY <1>4 DEF BookOK
  <1> QED BY <1>2, <1>5, <1>6, <1>7 DEF BookOK

LEMMA OrdersKeepBook ==
    ASSUME BookOK, NEW b \in BOOLEAN, NEW n \in Nat,
           B!MarketOrder(b, n) \/ \E p : B!Cancel(b, p, n)
    PROVE  BookOK'
  <1>1. CASE B!MarketOrder(b, n)
    <2>1. (~ b) \in BOOLEAN
      OBVIOUS
    <2> QED BY <1>1, <2>1, TakingKeeps DEF B!MarketOrder
  <1>2. ASSUME NEW p, B!Cancel(b, p, n) PROVE BookOK'
    <2>1. {p} \in SUBSET B!Levels(b)
      BY <1>2 DEF B!Cancel
    <2> QED BY <1>2, <2>1, TakingKeeps DEF B!Cancel
  <1> QED BY <1>1, <1>2

-----------------------------------------------------------------------------
(* Prices and sizes.                                                       *)

\* No level of the book is on the wrong side of a middle.
Around(b, mid) == \A p \in B!Levels(b) : IF b THEN p <= mid ELSE p >= mid

LEMMA SettingsAre ==
    /\ MinLevels \in Positive /\ BpsScale \in Positive /\ BasePrice \in Positive
    /\ MinSizeUnits \in Positive
    /\ SpreadBps \in Nat /\ RecenterBps \in Nat /\ DriftBps \in Nat
    /\ CalmSizes \subseteq Nat /\ VolatileSizes \subseteq Nat
    /\ References \subseteq Positive /\ MarketSizes \subseteq Positive
    /\ Prices \subseteq Positive /\ OtherSizes \subseteq Positive
  BY QuantitiesAssumption DEF Positive

LEMMA RoundDivInt ==
    ASSUME NEW x \in Int, NEW n \in Positive
    PROVE  RoundDiv(x, n) \in Int
  BY DEF RoundDiv, Positive

\* Every offset is at least one tick.
LEMMA PriceDeltaIs ==
    ASSUME NEW mid \in Int, NEW i \in Int
    PROVE  priceDelta(mid, i) \in Positive
  <1>1. currentSpreadBps \in Int
    <2> DEFINE y == SpreadBps * (IF volatile THEN 16 ELSE 9)
    <2>1. y \in Int
      BY SettingsAre
    <2>2. currentSpreadBps = Max({10, y})
      BY DEF currentSpreadBps
    <2> HIDE DEF y
    <2>3. Max({10, y}) = IF 10 <= y THEN y ELSE 10
      BY <2>1, Smaller
    <2> QED BY <2>1, <2>2, <2>3
  <1> DEFINE x == mid * currentSpreadBps * (i + 1)
             n == 10 * BpsScale
  <1>2. x \in Int /\ n \in Positive
    BY <1>1, SettingsAre DEF Positive
  <1>3. priceDelta(mid, i) = Max({1, RoundDiv(x, n)})
    BY DEF priceDelta
  <1> HIDE DEF x, n
  <1>4. RoundDiv(x, n) \in Int
    BY <1>2, RoundDivInt
  <1>5. priceDelta(mid, i) = IF 1 <= RoundDiv(x, n) THEN RoundDiv(x, n) ELSE 1
    <2> DEFINE y == RoundDiv(x, n)
    <2>1. y \in Int
      BY <1>4
    <2> HIDE DEF y
    <2>2. Max({1, y}) = IF 1 <= y THEN y ELSE 1
      BY <2>1, Smaller
    <2> QED BY <1>3, <2>2 DEF y
  <1> QED BY <1>4, <1>5 DEF Positive

LEMMA PricesAre ==
    ASSUME NEW mid \in Positive, NEW i \in Nat
    PROVE  /\ bidPrice(mid, i) \in Int /\ bidPrice(mid, i) < mid
           /\ HasPrice(bidPrice(mid, i)) => bidPrice(mid, i) \in Positive
           /\ askPrice(mid, i) \in Positive /\ askPrice(mid, i) > mid /\ HasPrice(askPrice(mid, i))
  <1>1. priceDelta(mid, i) \in Positive
    BY PriceDeltaIs DEF Positive
  <1> QED BY <1>1 DEF bidPrice, askPrice, HasPrice, Positive

LEMMA NextSizeIs == nextSize \subseteq Positive
  <1>1. \A u \in Nat : Max({MinSizeUnits, u}) \in Positive
    BY SettingsAre, Smaller DEF Positive
  <1> QED BY <1>1, SettingsAre DEF nextSize

LEMMA InjectLevelsIs == injectLevels \in Positive
  <1> DEFINE y == MinLevels \div 2
  <1>1. y \in Int
    BY SettingsAre DEF Positive
  <1>2. injectLevels = Max({3, y})
    BY DEF injectLevels
  <1> HIDE DEF y
  <1>3. Max({3, y}) = IF 3 <= y THEN y ELSE 3
    BY <1>1, Smaller
  <1> QED BY <1>1, <1>2, <1>3 DEF Positive

LEMMA LevelsAre ==
    ASSUME BookOK, NEW b \in BOOLEAN
    PROVE  \A q \in B!Levels(b) : q \in Nat /\ q > 0
  <1>1. B!Levels(b) \subseteq Positive
    BY DEF BookOK
  <1> QED BY <1>1 DEF Positive

\* The middle is zero just when there is no level, and between the sides otherwise.
LEMMA MiddleIs ==
    ASSUME BookOK
    PROVE  /\ pickMidPrice \in Nat
           /\ pickMidPrice = 0 => \A b \in BOOLEAN : B!Levels(b) = {}
           /\ pickMidPrice > 0 => \A b \in BOOLEAN : Around(b, pickMidPrice)
  <1> DEFINE bids == B!Levels(TRUE)
             asks == B!Levels(FALSE)
             top  == B!Best(TRUE)
             low  == B!Best(FALSE)
  <1>1. bids # {} => top \in bids /\ \A q \in bids : q <= top
    <2> SUFFICES ASSUME bids # {} PROVE top \in bids /\ \A q \in bids : q <= top
      OBVIOUS
    <2>1. top \in bids /\ \A q \in bids \ {top} : B!Better(TRUE, top, q)
      BY BestIs
    <2>2. \A q \in bids : q \in Nat /\ q > 0
      BY LevelsAre
    <2> HIDE DEF top, bids
    <2> QED BY <2>1, <2>2 DEF B!Better
  <1>2. asks # {} => low \in asks /\ \A q \in asks : low <= q
    <2> SUFFICES ASSUME asks # {} PROVE low \in asks /\ \A q \in asks : low <= q
      OBVIOUS
    <2>1. low \in asks /\ \A q \in asks \ {low} : B!Better(FALSE, low, q)
      BY BestIs
    <2>2. \A q \in asks : q \in Nat /\ q > 0
      BY LevelsAre
    <2> HIDE DEF low, asks
    <2> QED BY <2>1, <2>2 DEF B!Better
  <1>3. /\ \A q \in bids : q \in Nat /\ q > 0
        /\ \A q \in asks : q \in Nat /\ q > 0
        /\ \A p \in bids, q \in asks : p < q
    BY LevelsAre DEF BookOK
  <1>4. pickMidPrice = IF bids # {} /\ asks # {} THEN (top + low) \div 2
                       ELSE IF bids # {} THEN top ELSE IF asks # {} THEN low ELSE 0
    BY DEF pickMidPrice
  <1>5. \A m : (\A b \in BOOLEAN : Around(b, m)) <=>
              (\A q \in bids : q <= m) /\ (\A q \in asks : q >= m)
    BY DEF Around
  <1> HIDE DEF bids, asks, top, low
  <1>6. CASE bids # {} /\ asks # {}
    <2>1. top \in Nat /\ low \in Nat /\ top > 0 /\ top < low
      BY <1>1, <1>2, <1>3, <1>6
    <2>2. pickMidPrice = (top + low) \div 2
      BY <1>4, <1>6
    <2>3. pickMidPrice \in Nat /\ pickMidPrice > 0 /\ top <= pickMidPrice /\ pickMidPrice <= low
      BY <2>1, <2>2
    <2>4. (\A q \in bids : q <= pickMidPrice) /\ (\A q \in asks : q >= pickMidPrice)
      BY <1>1, <1>2, <1>3, <1>6, <2>1, <2>3
    <2> QED BY <1>5, <2>3, <2>4
  <1>7. CASE bids # {} /\ asks = {}
    <2>1. pickMidPrice = top /\ top \in Nat /\ top > 0
      BY <1>1, <1>3, <1>4, <1>7
    <2>2. (\A q \in bids : q <= pickMidPrice) /\ (\A q \in asks : q >= pickMidPrice)
      BY <1>1, <1>7, <2>1
    <2> QED BY <1>5, <2>1, <2>2
  <1>8. CASE bids = {} /\ asks # {}
    <2>1. pickMidPrice = low /\ low \in Nat /\ low > 0
      BY <1>2, <1>3, <1>4, <1>8
    <2>2. (\A q \in bids : q <= pickMidPrice) /\ (\A q \in asks : q >= pickMidPrice)
      BY <1>2, <1>3, <1>8, <2>1
    <2> QED BY <1>5, <2>1, <2>2
  <1>9. CASE bids = {} /\ asks = {}
    <2>1. pickMidPrice = 0 /\ \A b \in BOOLEAN : B!Levels(b) = {}
      BY <1>4, <1>9 DEF bids, asks
    <2> QED BY <2>1
  <1> QED BY <1>6, <1>7, <1>8, <1>9

\* The middle that a call works with, from any target.
LEMMA TargetsAre ==
    ASSUME BookOK, NEW p \in Nat, NEW target \in targetMidPrice(p)
    PROVE  /\ target \in Positive /\ MidPrice(target) \in Positive
           /\ ~ shouldRecenter(pickMidPrice, target) => \A b \in BOOLEAN : Around(b, MidPrice(target))
  <1> DEFINE price == IF p > 0 THEN p ELSE IF pickMidPrice > 0 THEN pickMidPrice ELSE BasePrice
             drift == RoundDiv(price * DriftBps, BpsScale)
  <1>1. pickMidPrice \in Nat
    BY MiddleIs
  <1>2. BasePrice \in Nat /\ BasePrice > 0
    BY SettingsAre DEF Positive
  <1>3. price \in Nat
    BY <1>1, <1>2
  <1>4. PICK t \in (price - drift)..(price + drift) : target = IF t > 0 THEN t ELSE BasePrice
    BY DEF targetMidPrice
  <1>5. price * DriftBps \in Int
    BY <1>3, SettingsAre
  <1>6. drift \in Int
    BY <1>5, SettingsAre, RoundDivInt
  <1> HIDE DEF price, drift
  <1>7. target \in Nat /\ target > 0
    BY <1>2, <1>3, <1>4, <1>6
  <1>8. MidPrice(target) \in Positive
    BY <1>1, <1>7 DEF MidPrice, Positive
  <1>9. ASSUME ~ shouldRecenter(pickMidPrice, target)
        PROVE  \A b \in BOOLEAN : Around(b, MidPrice(target))
    <2>1. CASE pickMidPrice > 0
      <3>1. MidPrice(target) = pickMidPrice
        BY <1>9, <2>1 DEF MidPrice
      <3> QED BY <2>1, <3>1, MiddleIs
    <2>2. CASE pickMidPrice = 0
      <3>1. \A b \in BOOLEAN : B!Levels(b) = {}
        BY <2>2, MiddleIs
      <3> QED BY <3>1 DEF Around
    <2> QED BY <1>1, <2>1, <2>2
  <1> QED BY <1>7, <1>8, <1>9 DEF Positive

\* A bid below the middle and an ask above it meet nobody.
LEMMA NobodyMet ==
    ASSUME BookOK, NEW b \in BOOLEAN, NEW mid \in Positive, Around(~ b, mid),
           NEW p \in Positive, IF b THEN p < mid ELSE p > mid
    PROVE  B!Marketable(b, p) = {}
  <1>1. \A q \in B!Levels(~ b) : q \in Nat /\ q > 0
    BY LevelsAre
  <1> QED BY <1>1 DEF Around, B!Marketable, Positive

-----------------------------------------------------------------------------
(* What a caller has in hand, and what it may rely on.                     *)

Plain(pcs) == [pc : pcs]
TopUps  == [pc : {"bid", "ask", "pulse"}, need : [BOOLEAN -> Int], mid : Positive, i : Nat, size : Nat]
Flows   == [pc : {"flow"}, buy : BOOLEAN, size : Positive]
Orders  == [pc : {"lock", "check", "place"}, bid : BOOLEAN, size : Positive, attempt : {1, 2}]
Injects == [pc : {"inject"}, order : Orders, mid : Positive, i : Nat, remaining : Int]

IsTicker(r) ==
    /\ r \in Plain({"idle", "lock", "count", "seed"}) \cup TopUps \cup Flows
    /\ r.pc = "ask" => r.size > 0

IsTrader(r) ==
    /\ r \in Plain({"idle", "filled", "refused"}) \cup Orders \cup Injects
    /\ r.pc = "inject" => r.i < injectLevels

Requests ==
    /\ DOMAIN req = Callers
    /\ \A c \in Tickers : IsTicker(req[c])
    /\ \A c \in Traders : IsTrader(req[c])

Scalars ==
    /\ mu \in Callers \cup {NoOne}
    /\ {cooling, volatile, regimeOver, fresh, lastSideBuy, traded} \subseteq BOOLEAN
    /\ cachedPrice \in References \cup {0}
    /\ sure \subseteq Callers

\* A top-up that nobody disturbed: the sides are where its middle is, and a side
\* that was full enough or has had its turn has a level.
TickerSure(r) ==
    r.pc \in {"bid", "ask", "pulse"} =>
      /\ r.pc # "pulse" => \A b \in BOOLEAN : Around(b, r.mid)
      /\ \A b \in BOOLEAN :
           r.pc = "pulse" \/ r.need[b] <= 0 \/ r.i > 0 \/ (b /\ r.pc = "ask") => B!Levels(b) # {}

\* A market order that nobody disturbed: the depth it needs is there up to what
\* has still to be injected, and what is injected will not trade.
TraderSure(r) ==
    /\ r.pc = "inject" => /\ Around(r.order.bid, r.mid)
                          /\ B!Total(~ r.order.bid) >= r.order.size - r.remaining
    /\ r.pc \in {"check", "place"} => B!Total(~ r.bid) >= r.size

Sure(c) == (c \in Tickers => TickerSure(req[c])) /\ (c \in Traders => TraderSure(req[c]))

TradeInv == BookOK /\ Requests /\ Scalars /\ \A c \in sure : Sure(c)

LEMMA TickerAt ==
    ASSUME NEW r, IsTicker(r)
    PROVE  /\ r.pc \in {"idle", "lock", "count", "seed"} <=> r \in Plain({"idle", "lock", "count", "seed"})
           /\ r.pc \in {"bid", "ask", "pulse"} <=> r \in TopUps
           /\ r.pc = "flow" <=> r \in Flows
           /\ r.pc \in {"idle", "lock", "count", "seed", "bid", "ask", "pulse", "flow"}
  BY DEF IsTicker, Plain, TopUps, Flows

LEMMA TraderAt ==
    ASSUME NEW r, IsTrader(r)
    PROVE  /\ r.pc \in {"idle", "filled", "refused"} <=> r \in Plain({"idle", "filled", "refused"})
           /\ r.pc \in {"lock", "check", "place"} <=> r \in Orders
           /\ r.pc = "inject" <=> r \in Injects
           /\ r.pc \in {"idle", "filled", "refused", "lock", "check", "place", "inject"}
  BY DEF IsTrader, Plain, Orders, Injects

TotalsOK == \A b \in BOOLEAN : B!Total(b) \in Nat

LEMMA TotalsNat == BookOK => TotalsOK
  BY VolumeNat DEF B!Total, TotalsOK

\* What a step of somebody else leaves of the confidence of c.
LEMMA StaysSure ==
    ASSUME BookOK, BookOK', Requests, NEW c \in Callers, Sure(c), req'[c] = req[c],
           depth' = depth \/ Undisturbed(c)
    PROVE  Sure(c)'
  <1> DEFINE r == req[c]
  <1>1. ASSUME depth' = depth PROVE Sure(c)'
    BY <1>1 DEF Sure, TickerSure, TraderSure, Around, B!Total, B!Volume, B!Levels
  <1>2. CASE c \in Tickers
    <2>1. depth' = depth
      BY <1>2 DEF Undisturbed
    <2> QED BY <1>1, <2>1
  <1>3. CASE c \in Traders /\ Undisturbed(c)
    <2>1. c \notin Tickers /\ IsTrader(r) /\ TraderSure(r)
      BY <1>3, CallersAssumption DEF Requests, Sure
    <2>2. \A b \in BOOLEAN : b = Order(c).bid =>
            B!Total(~ b)' >= B!Total(~ b) /\ B!Levels(b)' \subseteq B!Levels(b)
      BY <1>3, <2>1 DEF Undisturbed
    <2>3. \A b \in BOOLEAN : B!Total(b) \in Nat
      BY TotalsNat DEF TotalsOK
    <2>4. \A b \in BOOLEAN : B!Total(b)' \in Nat
      <3>1. BookOK' => TotalsOK'
        BY TotalsNat, PTL
      <3> QED BY <3>1 DEF TotalsOK
    <2>5. TraderSure(req[c])'
      <3>1. CASE r.pc = "inject"
        <4>1. r \in Injects /\ r.order.bid \in BOOLEAN /\ r.order.size \in Nat /\ r.remaining \in Int
          BY <2>1, <3>1, TraderAt DEF Injects, Orders, Positive
        <4>2. /\ B!Total(~ r.order.bid)' >= B!Total(~ r.order.bid)
              /\ B!Levels(r.order.bid)' \subseteq B!Levels(r.order.bid)
          BY <2>2, <3>1, <4>1 DEF Order
        <4>3. Around(r.order.bid, r.mid) /\ B!Total(~ r.order.bid) >= r.order.size - r.remaining
          BY <2>1, <3>1 DEF TraderSure
        <4>4. \A p \in B!Levels(r.order.bid)' : IF r.order.bid THEN p <= r.mid ELSE p >= r.mid
          BY <4>2, <4>3 DEF Around
        <4>5. B!Total(~ r.order.bid)' >= r.order.size - r.remaining
          <5>1. (~ r.order.bid) \in BOOLEAN
            BY <4>1
          <5>2. B!Total(~ r.order.bid)' \in Nat /\ B!Total(~ r.order.bid) \in Nat
            BY <2>3, <2>4, <5>1
          <5> HIDE DEF r
          <5> QED BY <4>1, <4>2, <4>3, <5>2
        <4> QED BY <3>1, <4>4, <4>5 DEF TraderSure, Around
      <3>2. CASE r.pc \in {"check", "place"}
        <4>1. r \in Orders /\ r.bid \in BOOLEAN /\ r.size \in Nat
          BY <2>1, <3>2, TraderAt DEF Orders, Positive
        <4>2. B!Total(~ r.bid)' >= B!Total(~ r.bid)
          BY <2>2, <3>2, <4>1 DEF Order
        <4>3. B!Total(~ r.bid) >= r.size
          BY <2>1, <3>2 DEF TraderSure
        <4>4. B!Total(~ r.bid)' >= r.size
          <5>1. (~ r.bid) \in BOOLEAN
            BY <4>1
          <5>2. B!Total(~ r.bid)' \in Nat /\ B!Total(~ r.bid) \in Nat
            BY <2>3, <2>4, <5>1
          <5> HIDE DEF r
          <5> QED BY <4>1, <4>2, <4>3, <5>2
        <4> QED BY <3>2, <4>4 DEF TraderSure
      <3>3. CASE r.pc \notin {"inject", "check", "place"}
        BY <3>3 DEF TraderSure
      <3> QED BY <3>1, <3>2, <3>3
    <2> QED BY <2>1, <2>5 DEF Sure
  <1> QED BY <1>1, <1>2, <1>3 DEF Callers

\* The step of one caller c to r, and what is left to check of it.
LEMMA TradeStep ==
    ASSUME TradeInv, NEW c \in Callers, NEW r, Become(c, r),
           c \in Tickers => IsTicker(r), c \in Traders => IsTrader(r),
           BookOK', Scalars',
           \A d \in sure' \ {c} : d \in sure /\ (depth' = depth \/ Undisturbed(d)),
           c \in sure' /\ c \in Tickers => TickerSure(r)',
           c \in sure' /\ c \in Traders => TraderSure(r)'
    PROVE  TradeInv'
  <1>1. /\ req'[c] = r /\ \A d \in Callers \ {c} : req'[d] = req[d]
        /\ DOMAIN req' = Callers
    BY DEF TradeInv, Requests, Become
  <1>2. Requests'
    BY <1>1 DEF TradeInv, Requests, IsTicker, IsTrader, injectLevels, Callers
  <1>3. ASSUME NEW d \in sure' \ {c} PROVE Sure(d)'
    <2>1. d \in Callers /\ d \in sure /\ (depth' = depth \/ Undisturbed(d)) /\ req'[d] = req[d]
      BY <1>1, <1>3 DEF TradeInv, Scalars
    <2> QED BY <2>1, StaysSure DEF TradeInv
  <1>4. c \in sure' => Sure(c)'
    BY <1>1 DEF Sure, TickerSure, TraderSure, Around
  <1> QED BY <1>2, <1>3, <1>4 DEF TradeInv

\* Nobody else is sure afterwards who was not before, or was disturbed.
LEMMA OthersObserve ==
    ASSUME NEW c, Observe(c)
    PROVE  \A d \in sure' \ {c} : d \in sure /\ Undisturbed(d)
  BY DEF Observe

\* A step of c to r that leaves the book alone.
LEMMA QuietStep ==
    ASSUME TradeInv, NEW c \in Callers, NEW r, Become(c, r),
           c \in Tickers => IsTicker(r), c \in Traders => IsTrader(r),
           depth' = depth, Scalars', sure' \ {c} \subseteq sure,
           c \in sure' /\ c \in Tickers => TickerSure(r),
           c \in sure' /\ c \in Traders => TraderSure(r)
    PROVE  TradeInv'
  <1>1. BookOK'
    BY DEF TradeInv, BookOK, B!Levels
  <1>2. /\ c \in sure' /\ c \in Tickers => TickerSure(r)'
        /\ c \in sure' /\ c \in Traders => TraderSure(r)'
    BY DEF TickerSure, TraderSure, Around, B!Total, B!Volume, B!Levels
  <1> QED BY <1>1, <1>2, TradeStep

\* Where a caller is tells which kind of caller it is.
LEMMA WhoIsWhere ==
    ASSUME TradeInv, NEW c \in Callers
    PROVE  /\ req[c].pc \in {"count", "seed", "bid", "ask", "pulse", "flow"} => c \in Tickers
           /\ req[c].pc \in {"check", "place", "inject"} => c \in Traders
           /\ c \in Tickers => c \notin Traders /\ IsTicker(req[c])
           /\ c \in Traders => c \notin Tickers /\ IsTrader(req[c])
  <1>1. c \in Tickers => IsTicker(req[c])
    BY DEF TradeInv, Requests
  <1>2. c \in Traders => IsTrader(req[c])
    BY DEF TradeInv, Requests
  <1>3. c \in Tickers \/ c \in Traders
    BY DEF Callers
  <1>4. c \in Tickers => req[c].pc \in {"idle", "lock", "count", "seed", "bid", "ask", "pulse", "flow"}
    BY <1>1, TickerAt
  <1>5. c \in Traders => req[c].pc \in {"idle", "filled", "refused", "lock", "check", "place", "inject"}
    BY <1>2, TraderAt
  <1>6. c \in Tickers => c \notin Traders
    BY CallersAssumption
  <1> QED BY <1>1, <1>2, <1>3, <1>4, <1>5, <1>6

LEMMA FetchIs ==
    ASSUME Scalars, fetchReferencePrice
    PROVE  cachedPrice' \in References \cup {0} /\ fresh' \in BOOLEAN
  BY DEF Scalars, fetchReferencePrice, fetchCoinGeckoSimple, fetchBinanceTicker

LEMMA RotateIs ==
    ASSUME Scalars, rotateRegimeIfNeeded
    PROVE  volatile' \in BOOLEAN /\ regimeOver' \in BOOLEAN
  BY DEF Scalars, rotateRegimeIfNeeded

LEMMA StartEnsureTrades ==
    ASSUME TradeInv, NEW c \in Callers, StartEnsure(c)
    PROVE  TradeInv'
  <1> DEFINE r == [req[c] EXCEPT !.pc = "lock"]
  <1>1. c \in Tickers /\ c \notin Traders /\ IsTicker(req[c])
    BY WhoIsWhere DEF StartEnsure
  <1>2. Become(c, r)
    BY DEF StartEnsure, Goto, Become
  <1>3. IsTicker(r) /\ r.pc = "lock"
    <2>1. req[c] \in Plain({"idle", "lock", "count", "seed"})
      BY <1>1, TickerAt DEF StartEnsure
    <2> QED BY <2>1 DEF IsTicker, Plain
  <1>4. TickerSure(r)
    BY <1>3 DEF TickerSure
  <1>5. depth' = depth /\ sure' = sure /\ Scalars'
    BY DEF StartEnsure, trading, settings, TradeInv, Scalars
  <1> HIDE DEF r
  <1> QED BY <1>1, <1>2, <1>3, <1>4, <1>5, QuietStep

LEMMA StartMarketOrderTrades ==
    ASSUME TradeInv, NEW c \in Callers, StartMarketOrder(c)
    PROVE  TradeInv'
  <1>1. PICK b \in BOOLEAN, n \in MarketSizes :
               Become(c, [pc |-> "lock", bid |-> b, size |-> n, attempt |-> 1])
    BY DEF StartMarketOrder
  <1> DEFINE r == [pc |-> "lock", bid |-> b, size |-> n, attempt |-> 1]
  <1>2. c \in Traders /\ c \notin Tickers
    BY WhoIsWhere DEF StartMarketOrder
  <1>3. IsTrader(r) /\ r.pc = "lock"
    BY SettingsAre DEF IsTrader, Orders
  <1>4. TraderSure(r)
    BY <1>3 DEF TraderSure
  <1>5. depth' = depth /\ sure' = sure /\ Scalars'
    BY DEF StartMarketOrder, trading, settings, TradeInv, Scalars
  <1>6. Become(c, r)
    BY <1>1
  <1> HIDE DEF r
  <1> QED BY <1>2, <1>3, <1>4, <1>5, <1>6, QuietStep

LEMMA IdleIsPlain == IsTicker([Idle EXCEPT !.pc = "idle"]) /\ TickerSure([Idle EXCEPT !.pc = "idle"])
  BY DEF Idle, IsTicker, TickerSure, Plain

LEMMA CoolingDownTrades ==
    ASSUME TradeInv, NEW c \in Callers, CoolingDown(c)
    PROVE  TradeInv'
  <1> DEFINE r == [Idle EXCEPT !.pc = "idle"]
  <1>1. c \in Tickers /\ c \notin Traders /\ Become(c, r)
    BY WhoIsWhere DEF CoolingDown, Return
  <1>2. depth' = depth /\ sure' = sure /\ Scalars'
    BY DEF CoolingDown, Return, trading, settings, TradeInv, Scalars
  <1>3. IsTicker(r) /\ TickerSure(r)
    BY IdleIsPlain
  <1> HIDE DEF r
  <1> QED BY <1>1, <1>2, <1>3, QuietStep

LEMMA CountTradesTrades ==
    ASSUME TradeInv, NEW c \in Callers, CountTrades(c) \/ SeedOneTradeTick(c)
    PROVE  TradeInv'
  <1>1. c \in Tickers /\ c \notin Traders /\ IsTicker(req[c])
    BY WhoIsWhere DEF CountTrades, SeedOneTradeTick
  <1>2. depth' = depth /\ sure' = sure /\ Scalars'
    BY DEF CountTrades, SeedOneTradeTick, Return, SetLastTopUp, trading, settings, TradeInv, Scalars
  <1>3. CASE Become(c, [Idle EXCEPT !.pc = "idle"])
    <2> DEFINE r == [Idle EXCEPT !.pc = "idle"]
    <2>1. Become(c, r) /\ IsTicker(r) /\ TickerSure(r)
      BY <1>3, IdleIsPlain
    <2> HIDE DEF r
    <2> QED BY <1>1, <1>2, <2>1, QuietStep
  <1>4. CASE CountTrades(c) /\ Goto(c, "seed")
    <2> DEFINE r == [req[c] EXCEPT !.pc = "seed"]
    <2>1. Become(c, r)
      BY <1>4 DEF Goto, Become
    <2>2. req[c] \in Plain({"idle", "lock", "count", "seed"})
      BY <1>1, <1>4, TickerAt DEF CountTrades
    <2>3. IsTicker(r) /\ TickerSure(r)
      BY <2>2 DEF IsTicker, TickerSure, Plain
    <2> HIDE DEF r
    <2> QED BY <1>1, <1>2, <2>1, <2>3, QuietStep
  <1> QED BY <1>3, <1>4 DEF CountTrades, SeedOneTradeTick, Return

LEMMA LookToTopUpTrades ==
    ASSUME TradeInv, NEW c \in Callers, LookToTopUp(c)
    PROVE  TradeInv'
  <1> DEFINE need == [b \in BOOLEAN |-> MinLevels - Cardinality(B!Levels(b))]
             full == need[TRUE] <= 0 /\ need[FALSE] <= 0
             record(t) == [pc |-> IF full THEN "pulse" ELSE "bid", need |-> need,
                           mid |-> MidPrice(t), i |-> 0, size |-> 0]
  <1>1. c \in Tickers /\ c \notin Traders
    BY WhoIsWhere DEF LookToTopUp
  <1>2. PICK t \in targetMidPrice(cachedPrice') :
               Become(c, record(t)) /\ RelyOn(c, ~ shouldRecenter(pickMidPrice, t))
    BY DEF LookToTopUp
  <1>3. Scalars'
    <2>1. cachedPrice' \in References \cup {0} /\ fresh' \in BOOLEAN
      BY FetchIs DEF LookToTopUp, TradeInv
    <2>2. volatile' \in BOOLEAN /\ regimeOver' \in BOOLEAN
      BY RotateIs DEF LookToTopUp, TradeInv
    <2>3. mu' = c /\ UNCHANGED <<cooling, lastSideBuy, traded>> /\ sure' \subseteq Callers
      BY <1>2 DEF LookToTopUp, Lock, RelyOn, TradeInv, Scalars
    <2> QED BY <2>1, <2>2, <2>3 DEF TradeInv, Scalars
  <1>4. cachedPrice' \in Nat
    BY <1>3, SettingsAre DEF Scalars, Positive
  <1>5. /\ MidPrice(t) \in Positive
        /\ ~ shouldRecenter(pickMidPrice, t) => \A b \in BOOLEAN : Around(b, MidPrice(t))
    BY <1>2, <1>4, TargetsAre DEF TradeInv
  <1>6. /\ \A b \in BOOLEAN : Cardinality(B!Levels(b)) \in Nat /\ IsFiniteSet(B!Levels(b))
        /\ MinLevels \in Nat /\ MinLevels > 0
    BY SettingsAre, FS_CardinalityType DEF TradeInv, BookOK, Positive
  <1>7. need \in [BOOLEAN -> Int]
    BY <1>6
  <1>8. \A b \in BOOLEAN : need[b] <= 0 => B!Levels(b) # {}
    <2> SUFFICES ASSUME NEW b \in BOOLEAN, need[b] <= 0, B!Levels(b) = {} PROVE FALSE
      OBVIOUS
    <2>1. Cardinality(B!Levels(b)) = 0
      BY FS_EmptySet
    <2> QED BY <1>6, <2>1
  <1> DEFINE r == record(t)
  <1>9. /\ r.pc = (IF full THEN "pulse" ELSE "bid") /\ r.need = need /\ r.mid = MidPrice(t)
        /\ r.i = 0 /\ r.size = 0 /\ r = [pc |-> r.pc, need |-> r.need, mid |-> r.mid, i |-> 0, size |-> 0]
    OBVIOUS
  <1>10. depth' = depth /\ sure' \ {c} \subseteq sure /\ Become(c, r)
    BY <1>2 DEF LookToTopUp, RelyOn
  <1>11. c \in sure' => ~ shouldRecenter(pickMidPrice, t)
    BY <1>2 DEF RelyOn
  <1>12. full => \A b \in BOOLEAN : need[b] <= 0
    OBVIOUS
  <1> HIDE DEF need, full, r
  <1>13. IsTicker(r)
    BY <1>5, <1>7, <1>9 DEF IsTicker, TopUps
  <1>14. c \in sure' => TickerSure(r)
    BY <1>5, <1>8, <1>9, <1>11, <1>12 DEF TickerSure
  <1> QED BY <1>1, <1>3, <1>10, <1>13, <1>14, QuietStep

LEMMA LookForTraderTrades ==
    ASSUME TradeInv, NEW c \in Callers, LookForTrader(c)
    PROVE  TradeInv'
  <1> DEFINE r       == req[c]
             missing == r.size - oppositeDepthVolume(r.bid)
  <1>1. c \in Traders /\ c \notin Tickers /\ IsTrader(r) /\ r.pc = "lock"
    BY WhoIsWhere DEF LookForTrader
  <1>2. r \in Orders
    BY <1>1, TraderAt
  <1>3. PICK t \in targetMidPrice(cachedPrice') :
          IF missing <= 0
          THEN Return(c, r, "check") /\ RelyOn(c, TRUE)
          ELSE /\ Become(c, [pc |-> "inject", order |-> r, mid |-> MidPrice(t),
                             i |-> 0, remaining |-> missing])
               /\ RelyOn(c, ~ shouldRecenter(pickMidPrice, t))
               /\ mu' = c
    BY DEF LookForTrader
  <1>4. /\ r.bid \in BOOLEAN /\ r.size \in Nat /\ r.size > 0
        /\ (~ r.bid) \in BOOLEAN
    BY <1>2 DEF Orders, Positive
  <1>5. oppositeDepthVolume(r.bid) \in Nat /\ oppositeDepthVolume(r.bid) = B!Total(~ r.bid)
    BY <1>4, TotalsNat DEF TotalsOK, oppositeDepthVolume, TradeInv
  <1>6. missing \in Int
    BY <1>4, <1>5
  <1>7. Scalars'
    <2>1. cachedPrice' \in References \cup {0} /\ fresh' \in BOOLEAN
      BY FetchIs DEF LookForTrader, TradeInv
    <2>2. volatile' \in BOOLEAN /\ regimeOver' \in BOOLEAN
      BY RotateIs DEF LookForTrader, TradeInv
    <2>3. mu' \in {NoOne, c} /\ UNCHANGED <<cooling, lastSideBuy, traded>> /\ sure' \subseteq Callers
      BY <1>3 DEF LookForTrader, Return, RelyOn, TradeInv, Scalars
    <2> QED BY <2>1, <2>2, <2>3 DEF TradeInv, Scalars
  <1>8. cachedPrice' \in Nat
    BY <1>7, SettingsAre DEF Scalars, Positive
  <1>9. /\ MidPrice(t) \in Positive
        /\ ~ shouldRecenter(pickMidPrice, t) => \A b \in BOOLEAN : Around(b, MidPrice(t))
    BY <1>3, <1>8, TargetsAre DEF TradeInv
  <1>10. depth' = depth /\ sure' \ {c} \subseteq sure
    BY <1>3 DEF LookForTrader, RelyOn
  <1>11. CASE missing <= 0
    <2> DEFINE s == [r EXCEPT !.pc = "check"]
    <2>1. Become(c, s)
      BY <1>3, <1>11 DEF Return
    <2>2. s \in Orders /\ s.pc = "check" /\ s.bid = r.bid /\ s.size = r.size
      BY <1>2 DEF Orders
    <2>3. B!Total(~ r.bid) >= r.size
      <3> HIDE DEF r
      <3> QED BY <1>4, <1>5, <1>11
    <2> HIDE DEF s
    <2>4. IsTrader(s) /\ TraderSure(s)
      BY <2>2, <2>3 DEF IsTrader, TraderSure
    <2> QED BY <1>1, <1>7, <1>10, <2>1, <2>4, QuietStep
  <1>12. CASE ~ (missing <= 0)
    <2> DEFINE s == [pc |-> "inject", order |-> r, mid |-> MidPrice(t), i |-> 0, remaining |-> missing]
    <2>1. Become(c, s) /\ (c \in sure' => ~ shouldRecenter(pickMidPrice, t))
      BY <1>3, <1>12 DEF RelyOn
    <2>2. s \in Injects
      BY <1>2, <1>6, <1>9 DEF Injects
    <2>3. /\ s.pc = "inject" /\ s.i = 0 /\ s.order = r /\ s.mid = MidPrice(t)
          /\ s.remaining = missing
      OBVIOUS
    <2>4. 0 < injectLevels
      BY InjectLevelsIs DEF Positive
    <2>5. B!Total(~ r.bid) >= r.size - missing
      <3> HIDE DEF r
      <3> QED BY <1>4, <1>5
    <2> HIDE DEF s
    <2>6. IsTrader(s)
      BY <2>2, <2>3, <2>4 DEF IsTrader
    <2>7. c \in sure' => TraderSure(s)
      <3>1. c \in sure' => Around(r.bid, MidPrice(t))
        BY <1>4, <1>9, <2>1
      <3> QED BY <2>3, <2>5, <3>1 DEF TraderSure
    <2> QED BY <1>1, <1>7, <1>10, <2>1, <2>6, <2>7, QuietStep
  <1> QED BY <1>11, <1>12

LEMMA CheckDepthTrades ==
    ASSUME TradeInv, NEW c \in Callers, CheckDepth(c)
    PROVE  TradeInv'
  <1> DEFINE r == req[c]
             next == IF depthForMarketSide(r.bid) >= r.size THEN "place"
                     ELSE IF r.attempt = 1 THEN "lock" ELSE "refused"
  <1>1. c \in Traders /\ c \notin Tickers /\ IsTrader(r) /\ r.pc = "check"
    BY WhoIsWhere DEF CheckDepth
  <1>2. r \in Orders
    BY <1>1, TraderAt
  <1>3. depth' = depth /\ sure' \ {c} \subseteq sure /\ Scalars'
    BY DEF CheckDepth, RelyOn, settings, TradeInv, Scalars
  <1>4. CASE next = "refused"
    <2>1. Become(c, [pc |-> "refused"])
      BY <1>4 DEF CheckDepth
    <2>2. IsTrader([pc |-> "refused"]) /\ TraderSure([pc |-> "refused"])
      BY DEF IsTrader, TraderSure, Plain
    <2> QED BY <1>1, <1>3, <2>1, <2>2, QuietStep
  <1>5. CASE next # "refused"
    <2> DEFINE s == [r EXCEPT !.pc = next, !.attempt = 2]
    <2>1. Become(c, s)
      BY <1>5 DEF CheckDepth
    <2>2. next \in {"lock", "place"} /\ (next = "place" => B!Total(~ r.bid) >= r.size)
      BY <1>5 DEF depthForMarketSide
    <2> HIDE DEF next
    <2>3. s \in Orders /\ s.pc = next /\ s.bid = r.bid /\ s.size = r.size
      BY <1>2, <2>2 DEF Orders
    <2> HIDE DEF s
    <2>4. IsTrader(s) /\ TraderSure(s)
      BY <2>2, <2>3 DEF IsTrader, TraderSure
    <2> QED BY <1>1, <1>3, <2>1, <2>4, QuietStep
  <1> QED BY <1>4, <1>5

LEMMA PulseLookTrades ==
    ASSUME TradeInv, NEW c \in Callers, PulseLook(c)
    PROVE  TradeInv'
  <1> DEFINE buy == (~ lastSideBuy /\ B!Levels(FALSE) # {}) \/ B!Levels(TRUE) = {}
             n   == Max({1, depth[~ buy][B!Best(~ buy)] \div 6})
  <1>1. c \in Tickers /\ c \notin Traders
    BY WhoIsWhere DEF PulseLook
  <1>2. depth' = depth /\ sure' \ {c} \subseteq sure /\ Scalars'
    BY DEF PulseLook, RelyOn, settings, TradeInv, Scalars
  <1>3. CASE B!Levels(~ buy) = {}
    <2>1. Become(c, [pc |-> "count"])
      BY <1>3 DEF PulseLook
    <2>2. IsTicker([pc |-> "count"]) /\ TickerSure([pc |-> "count"])
      BY DEF IsTicker, TickerSure, Plain
    <2> QED BY <1>1, <1>2, <2>1, <2>2, QuietStep
  <1>4. CASE B!Levels(~ buy) # {}
    <2> DEFINE s == [pc |-> "flow", buy |-> buy, size |-> n]
    <2>1. Become(c, s)
      BY <1>4 DEF PulseLook
    <2>2. buy \in BOOLEAN /\ (~ buy) \in BOOLEAN
      OBVIOUS
    <2> HIDE DEF buy
    <2>3. B!Best(~ buy) \in B!Levels(~ buy)
      BY <1>4, <2>2, BestIs DEF TradeInv
    <2> DEFINE x == depth[~ buy][B!Best(~ buy)]
               y == x \div 6
    <2>4. x \in Nat
      BY <2>2, <2>3 DEF TradeInv, BookOK, Positive
    <2>5. y \in Int
      BY <2>4
    <2>6. n = Max({1, y})
      OBVIOUS
    <2> HIDE DEF x, y, n
    <2>7. n \in Positive
      <3>1. Max({1, y}) = IF 1 <= y THEN y ELSE 1
        BY <2>5, Smaller
      <3> QED BY <2>5, <2>6, <3>1 DEF Positive
    <2>8. s \in Flows /\ s.pc = "flow"
      BY <2>2, <2>7 DEF Flows
    <2> HIDE DEF s
    <2>9. IsTicker(s) /\ TickerSure(s)
      BY <2>8 DEF IsTicker, TickerSure
    <2> QED BY <1>1, <1>2, <2>1, <2>9, QuietStep
  <1> QED BY <1>3, <1>4

\* The engine's part of a limit order and of a market order.
LEMMA Placing ==
    ASSUME TradeInv, NEW c, NEW b \in BOOLEAN, NEW p \in Positive, NEW n \in Positive,
           PlaceLimitOrder(c, b, p, n)
    PROVE  /\ BookOK' /\ traded' \in BOOLEAN /\ sure' \subseteq sure
           /\ \A d \in sure' \ {c} : d \in sure /\ Undisturbed(d)
           /\ B!Levels(~ b)' \subseteq B!Levels(~ b)
           /\ B!Marketable(b, p) = {} =>
                /\ B!Levels(~ b)' = B!Levels(~ b)
                /\ B!Levels(b)' = B!Levels(b) \cup {p}
                /\ B!Total(b)' = B!Total(b) + n
  <1>1. B!LimitOrder(b, p, n) /\ BookOK
    BY DEF PlaceLimitOrder, TradeInv
  <1>2. traded' \in BOOLEAN /\ sure' \subseteq sure
    BY DEF PlaceLimitOrder, Observe, TradeInv, Scalars
  <1>3. \A d \in sure' \ {c} : d \in sure /\ Undisturbed(d)
    BY OthersObserve DEF PlaceLimitOrder
  <1>4. /\ BookOK'
        /\ B!Levels(~ b)' \subseteq B!Levels(~ b)
        /\ B!Marketable(b, p) = {} =>
             /\ B!Levels(~ b)' = B!Levels(~ b)
             /\ B!Levels(b)' = B!Levels(b) \cup {p}
             /\ B!Total(b)' = B!Total(b) + n
    BY <1>1, LimitOrderKeeps
  <1> QED BY <1>2, <1>3, <1>4

LEMMA Taking ==
    ASSUME TradeInv, NEW c, NEW b \in BOOLEAN, NEW n \in Positive, PlaceMarketOrder(c, b, n)
    PROVE  /\ BookOK' /\ traded' \in BOOLEAN /\ sure' \subseteq sure
           /\ \A d \in sure' \ {c} : d \in sure /\ Undisturbed(d)
  <1>1. BookOK'
    <2>1. B!MarketOrder(b, n) /\ BookOK /\ n \in Nat
      BY DEF PlaceMarketOrder, TradeInv, Positive
    <2> QED BY <2>1, OrdersKeepBook
  <1>2. traded' \in BOOLEAN /\ sure' \subseteq sure
    BY DEF PlaceMarketOrder, Observe
  <1>3. \A d \in sure' \ {c} : d \in sure /\ Undisturbed(d)
    BY OthersObserve DEF PlaceMarketOrder
  <1> QED BY <1>1, <1>2, <1>3

LEMMA PulseTrades ==
    ASSUME TradeInv, NEW c \in Callers, Pulse(c)
    PROVE  TradeInv'
  <1> DEFINE r == req[c]
             s == [pc |-> "count"]
  <1>1. c \in Tickers /\ c \notin Traders /\ IsTicker(r) /\ r.pc = "flow" /\ Become(c, s)
    BY WhoIsWhere DEF Pulse
  <1>2. IsTicker(s) /\ TickerSure(s) /\ TickerSure(s)'
    BY DEF IsTicker, TickerSure, Plain
  <1>3. CASE r.size <= B!Total(~ r.buy)
    <2>1. r.buy \in BOOLEAN /\ r.size \in Positive
      BY <1>1, TickerAt DEF Flows
    <2>2. PlaceMarketOrder(c, r.buy, r.size) /\ lastSideBuy' = r.buy
      BY <1>3 DEF Pulse
    <2>3. /\ BookOK' /\ traded' \in BOOLEAN /\ sure' \subseteq sure
          /\ \A d \in sure' \ {c} : d \in sure /\ Undisturbed(d)
      BY <2>1, <2>2, Taking
    <2>4. Scalars'
      BY <2>1, <2>2, <2>3 DEF Pulse, settings, TradeInv, Scalars
    <2> HIDE DEF s, r
    <2> QED BY <1>1, <1>2, <2>3, <2>4, TradeStep
  <1>4. CASE ~ (r.size <= B!Total(~ r.buy))
    <2>1. depth' = depth /\ sure' = sure /\ Scalars'
      BY <1>4 DEF Pulse, trading, settings, TradeInv, Scalars
    <2> HIDE DEF s, r
    <2> QED BY <1>1, <1>2, <2>1, QuietStep
  <1> QED BY <1>3, <1>4

LEMMA SafePlaceMarketOrderTrades ==
    ASSUME TradeInv, NEW c \in Callers, SafePlaceMarketOrder(c)
    PROVE  TradeInv'
  <1>a. PICK r : r = req[c]
    OBVIOUS
  <1>b. PICK s : s = [pc |-> IF r.size <= B!Total(~ r.bid) THEN "filled" ELSE "refused"]
    OBVIOUS
  <1>1. c \in Traders /\ c \notin Tickers /\ IsTrader(r) /\ r.pc = "place" /\ Become(c, s)
    BY <1>a, <1>b, WhoIsWhere DEF SafePlaceMarketOrder
  <1>2. s.pc \in {"filled", "refused"} /\ s \in Plain({"idle", "filled", "refused"})
    BY <1>b DEF Plain
  <1>3. IsTrader(s) /\ TraderSure(s) /\ TraderSure(s)'
    BY <1>2 DEF IsTrader, TraderSure
  <1>4. CASE r.size <= B!Total(~ r.bid)
    <2>1. r.bid \in BOOLEAN /\ r.size \in Positive
      BY <1>1, TraderAt DEF Orders
    <2>2. PlaceMarketOrder(NoOne, r.bid, r.size)
      BY <1>a, <1>4 DEF SafePlaceMarketOrder
    <2>3. /\ BookOK' /\ traded' \in BOOLEAN /\ sure' \subseteq sure
          /\ \A d \in sure' \ {NoOne} : d \in sure /\ Undisturbed(d)
      BY <2>1, <2>2, Taking
    <2>4. Scalars' /\ NoOne \notin sure
      BY <2>3, CallersAssumption DEF SafePlaceMarketOrder, settings, TradeInv, Scalars
    <2>5. \A d \in sure' \ {c} : d \in sure /\ (depth' = depth \/ Undisturbed(d))
      BY <2>3, <2>4
    <2>6. BookOK' /\ Scalars' /\ c \in Traders /\ c \notin Tickers
      BY <1>1, <2>3, <2>4
    <2> QED BY <1>1, <1>3, <2>5, <2>6, TradeStep
  <1>5. CASE ~ (r.size <= B!Total(~ r.bid))
    <2>1. depth' = depth /\ sure' \ {c} \subseteq sure /\ Scalars'
      BY <1>a, <1>5 DEF SafePlaceMarketOrder, RelyOn, settings, TradeInv, Scalars
    <2> QED BY <1>1, <1>3, <2>1, QuietStep
  <1> QED BY <1>4, <1>5

\* An order of the manager is on its side of the middle it works with.
LEMMA PlaceBidTrades ==
    ASSUME TradeInv, NEW c \in Callers, PlaceBid(c)
    PROVE  TradeInv'
  <1>a. PICK r : r = req[c]
    OBVIOUS
  <1>b. PICK p : p = bidPrice(r.mid, r.i)
    OBVIOUS
  <1>1. c \in Tickers /\ c \notin Traders /\ IsTicker(r) /\ r.pc = "bid"
    BY <1>a, WhoIsWhere DEF PlaceBid
  <1>2. r \in TopUps
    BY <1>1, TickerAt
  <1>3. PICK n \in nextSize :
          /\ Become(c, [r EXCEPT !.pc = "ask", !.size = n])
          /\ IF r.i >= r.need[TRUE] THEN UNCHANGED trading
             ELSE IF HasPrice(p) THEN PlaceLimitOrder(c, TRUE, p, n)
             ELSE RelyOn(c, FALSE) /\ UNCHANGED <<depth, traded>>
    BY <1>a, <1>b DEF PlaceBid
  <1>c. PICK s : s = [r EXCEPT !.pc = "ask", !.size = n]
    OBVIOUS
  <1>4. Become(c, s)
    BY <1>3, <1>c
  <1>5. n \in Nat /\ n > 0 /\ n \in Positive
    BY <1>3, NextSizeIs DEF Positive
  <1>6. /\ r.i \in Nat /\ r.mid \in Positive /\ r.need \in [BOOLEAN -> Int]
        /\ s \in TopUps /\ s.pc = "ask" /\ s.i = r.i /\ s.mid = r.mid /\ s.need = r.need /\ s.size = n
    BY <1>2, <1>5, <1>c DEF TopUps
  <1>7. IsTicker(s)
    BY <1>5, <1>6 DEF IsTicker
  <1>8. c \in sure => /\ \A b \in BOOLEAN : Around(b, r.mid)
                      /\ \A b \in BOOLEAN : r.need[b] <= 0 \/ r.i > 0 => B!Levels(b) # {}
    BY <1>a, <1>1 DEF TradeInv, Sure, TickerSure
  <1>9. UNCHANGED <<mu, cooling, settings, lastSideBuy>>
    BY DEF PlaceBid
  <1>10. p \in Int /\ (HasPrice(p) => p \in Positive /\ p < r.mid)
    BY <1>b, <1>6, PricesAre
  <1>11. CASE r.i >= r.need[TRUE]
    <2>1. depth' = depth /\ sure' = sure /\ Scalars'
      BY <1>3, <1>9, <1>11 DEF trading, settings, TradeInv, Scalars
    <2>2. c \in sure => TickerSure(s)
      <3>1. r.i > 0 \/ r.need[TRUE] <= 0
        <4>1. r.need[TRUE] \in Int /\ r.i \in Nat
          BY <1>6
        <4>2. \A m \in Nat, k \in Int : m >= k => m > 0 \/ k <= 0
          OBVIOUS
        <4> QED BY <1>11, <4>1, <4>2, Zenon
      <3>2. SUFFICES ASSUME c \in sure PROVE TickerSure(s)
        OBVIOUS
      <3>3. \A b \in BOOLEAN : Around(b, s.mid)
        BY <1>6, <1>8, <3>2
      <3>4. \A b \in BOOLEAN : s.need[b] <= 0 \/ s.i > 0 \/ b => B!Levels(b) # {}
        BY <1>6, <1>8, <3>1, <3>2
      <3> QED BY <1>6, <3>3, <3>4 DEF TickerSure
    <2> QED BY <1>1, <1>4, <1>7, <2>1, <2>2, QuietStep
  <1>12. CASE ~ (r.i >= r.need[TRUE]) /\ HasPrice(p)
    <2>1. PlaceLimitOrder(c, TRUE, p, n) /\ p \in Positive /\ p < r.mid
      BY <1>3, <1>10, <1>12
    <2>2. /\ BookOK' /\ traded' \in BOOLEAN /\ sure' \subseteq sure
          /\ \A d \in sure' \ {c} : d \in sure /\ Undisturbed(d)
          /\ B!Marketable(TRUE, p) = {} =>
               B!Levels(FALSE)' = B!Levels(FALSE) /\ B!Levels(TRUE)' = B!Levels(TRUE) \cup {p}
      BY <1>5, <2>1, Placing
    <2>3. Scalars'
      BY <1>9, <2>2 DEF settings, TradeInv, Scalars
    <2>4. c \in sure' => TickerSure(s)'
      <3>1. SUFFICES ASSUME c \in sure PROVE TickerSure(s)'
        BY <2>2
      <3>2. \A b \in BOOLEAN : Around(b, r.mid)
        BY <1>8, <3>1
      <3>3. B!Marketable(TRUE, p) = {}
        BY <1>6, <2>1, <3>2, NobodyMet DEF TradeInv
      <3>4. B!Levels(FALSE)' = B!Levels(FALSE) /\ B!Levels(TRUE)' = B!Levels(TRUE) \cup {p}
        BY <2>2, <3>3
      <3>5. p \in Int /\ r.mid \in Int /\ p <= r.mid
        BY <1>6, <1>10, <2>1 DEF Positive
      <3>6. \A b \in BOOLEAN : \A q \in B!Levels(b)' : IF b THEN q <= s.mid ELSE q >= s.mid
        BY <1>6, <3>2, <3>4, <3>5 DEF Around
      <3>7. \A b \in BOOLEAN : s.need[b] <= 0 \/ s.i > 0 \/ b => B!Levels(b)' # {}
        BY <1>6, <1>8, <3>1, <3>4
      <3> QED BY <1>6, <3>6, <3>7 DEF TickerSure, Around
    <2>5. \A d \in sure' \ {c} : d \in sure /\ (depth' = depth \/ Undisturbed(d))
      BY <2>2
    <2>6. BookOK'
      BY <2>2
    <2> QED BY <1>1, <1>4, <1>7, <2>3, <2>4, <2>5, <2>6, TradeStep
  <1>13. CASE ~ (r.i >= r.need[TRUE]) /\ ~ HasPrice(p)
    <2>1. depth' = depth /\ sure' \subseteq sure /\ c \notin sure' /\ Scalars'
      BY <1>3, <1>9, <1>13 DEF RelyOn, settings, TradeInv, Scalars
    <2> QED BY <1>1, <1>4, <1>7, <2>1, QuietStep
  <1> QED BY <1>11, <1>12, <1>13

LEMMA PlaceAskTrades ==
    ASSUME TradeInv, NEW c \in Callers, PlaceAsk(c)
    PROVE  TradeInv'
  <1>a. PICK r : r = req[c]
    OBVIOUS
  <1>b. PICK p : p = askPrice(r.mid, r.i)
    OBVIOUS
  <1>c. PICK turns : turns = Max({r.need[TRUE], r.need[FALSE]})
    OBVIOUS
  <1>d. PICK s : s = [r EXCEPT !.i = r.i + 1, !.pc = IF r.i + 1 < turns THEN "bid" ELSE "pulse"]
    OBVIOUS
  <1>1. c \in Tickers /\ c \notin Traders /\ IsTicker(r) /\ r.pc = "ask" /\ r.size > 0
    BY <1>a, WhoIsWhere DEF PlaceAsk, IsTicker
  <1>2. r \in TopUps
    BY <1>1, TickerAt
  <1>3. /\ Become(c, s)
        /\ IF r.i < r.need[FALSE] THEN PlaceLimitOrder(c, FALSE, p, r.size) ELSE UNCHANGED trading
        /\ UNCHANGED <<mu, cooling, settings, lastSideBuy>>
    BY <1>a, <1>b, <1>c, <1>d DEF PlaceAsk
  <1>4. /\ r.i \in Nat /\ r.mid \in Positive /\ r.size \in Positive
        /\ r.need[TRUE] \in Int /\ r.need[FALSE] \in Int
    <2>1. r.i \in Nat /\ r.mid \in Positive /\ r.size \in Nat /\ r.need \in [BOOLEAN -> Int]
      BY <1>2 DEF TopUps
    <2>2. r.need[TRUE] \in Int /\ r.need[FALSE] \in Int
      BY <2>1
    <2>3. r.size \in Positive
      BY <1>1, <2>1 DEF Positive
    <2> QED BY <2>1, <2>2, <2>3
  <1>5. /\ s \in TopUps /\ s.i = r.i + 1 /\ s.mid = r.mid /\ s.need = r.need
        /\ s.pc \in {"bid", "pulse"}
    <2>1. s.pc \in {"bid", "pulse"}
      BY <1>2, <1>d DEF TopUps
    <2>2. r.i + 1 \in Nat
      BY <1>4
    <2>3. s \in TopUps /\ s.i = r.i + 1 /\ s.mid = r.mid /\ s.need = r.need
      BY <1>2, <1>d, <2>2 DEF TopUps
    <2> QED BY <2>1, <2>3
  <1>6. IsTicker(s)
    BY <1>5 DEF IsTicker
  <1>7. c \in sure => /\ \A b \in BOOLEAN : Around(b, r.mid)
                      /\ \A b \in BOOLEAN : r.need[b] <= 0 \/ r.i > 0 \/ b => B!Levels(b) # {}
    BY <1>a, <1>1 DEF TradeInv, Sure, TickerSure
  <1>8. p \in Positive /\ p > r.mid
    BY <1>b, <1>4, PricesAre
  <1>9. CASE ~ (r.i < r.need[FALSE])
    <2>1. depth' = depth /\ sure' = sure /\ Scalars'
      BY <1>3, <1>9 DEF trading, settings, TradeInv, Scalars
    <2>2. r.i > 0 \/ r.need[FALSE] <= 0
      <3>1. \A m \in Nat, k \in Int : ~ (m < k) => m > 0 \/ k <= 0
        OBVIOUS
      <3> QED BY <1>4, <1>9, <3>1, Zenon
    <2>3. ASSUME c \in sure PROVE TickerSure(s)
      <3>1. \A b \in BOOLEAN : Around(b, s.mid)
        BY <1>5, <1>7, <2>3
      <3>2. \A b \in BOOLEAN : B!Levels(b) # {}
        BY <1>7, <2>2, <2>3
      <3> QED BY <3>1, <3>2 DEF TickerSure
    <2> QED BY <1>1, <1>3, <1>6, <2>1, <2>3, QuietStep
  <1>10. CASE r.i < r.need[FALSE]
    <2>1. PlaceLimitOrder(c, FALSE, p, r.size)
      BY <1>3, <1>10
    <2>2. /\ BookOK' /\ traded' \in BOOLEAN /\ sure' \subseteq sure
          /\ \A d \in sure' \ {c} : d \in sure /\ Undisturbed(d)
          /\ B!Marketable(FALSE, p) = {} =>
               B!Levels(TRUE)' = B!Levels(TRUE) /\ B!Levels(FALSE)' = B!Levels(FALSE) \cup {p}
      BY <1>4, <1>8, <2>1, Placing
    <2>3. Scalars'
      BY <1>3, <2>2 DEF settings, TradeInv, Scalars
    <2>4. ASSUME c \in sure PROVE TickerSure(s)'
      <3>1. \A b \in BOOLEAN : Around(b, r.mid)
        BY <1>7, <2>4
      <3>2. B!Marketable(FALSE, p) = {}
        BY <1>4, <1>8, <3>1, NobodyMet DEF TradeInv
      <3>3. B!Levels(TRUE)' = B!Levels(TRUE) /\ B!Levels(FALSE)' = B!Levels(FALSE) \cup {p}
        BY <2>2, <3>2
      <3>4. p \in Int /\ r.mid \in Int /\ p >= r.mid
        BY <1>4, <1>8 DEF Positive
      <3>5. \A b \in BOOLEAN : \A q \in B!Levels(b)' : IF b THEN q <= s.mid ELSE q >= s.mid
        BY <1>5, <3>1, <3>3, <3>4 DEF Around
      <3>6. \A b \in BOOLEAN : B!Levels(b)' # {}
        BY <1>7, <2>4, <3>3
      <3> QED BY <3>5, <3>6 DEF TickerSure, Around
    <2>5. \A d \in sure' \ {c} : d \in sure /\ (depth' = depth \/ Undisturbed(d))
      BY <2>2
    <2>6. BookOK' /\ sure' \subseteq sure
      BY <2>2
    <2> QED BY <1>1, <1>3, <1>6, <2>3, <2>4, <2>5, <2>6, TradeStep
  <1> QED BY <1>9, <1>10

\* The chunks add up: the last turn takes all that is missing.
LEMMA ChunkIs ==
    ASSUME NEW left \in Int, NEW i \in Nat, i < injectLevels
    PROVE  /\ chunkOf(left, i) \in Positive
           /\ i + 1 >= injectLevels => chunkOf(left, i) >= left
  <1> DEFINE n == injectLevels - i
             y == left \div n
  <1>1. n \in Int /\ n > 0 /\ injectLevels \in Nat
    BY InjectLevelsIs DEF Positive
  <1>2. i + 1 >= injectLevels => n = 1
    BY <1>1
  <1>3. chunkOf(left, i) = Max({1, y})
    BY DEF chunkOf
  <1> HIDE DEF n
  <1>4. y \in Int /\ (n = 1 => y = left)
    BY <1>1
  <1> HIDE DEF y
  <1>5. Max({1, y}) = IF 1 <= y THEN y ELSE 1
    BY <1>4, Smaller
  <1> QED BY <1>2, <1>3, <1>4, <1>5 DEF Positive

\* What is placed is at least the chunk.
LEMMA InjectedIs ==
    ASSUME NEW chunk \in Positive, NEW n \in Positive
    PROVE  LET size == Max({MinSizeUnits, chunk + n \div 2})
           IN  size \in Positive /\ size >= chunk
  <1> DEFINE y == chunk + n \div 2
  <1>1. y \in Int /\ y >= chunk /\ chunk \in Int /\ chunk > 0
    BY DEF Positive
  <1>2. MinSizeUnits \in Int /\ MinSizeUnits > 0
    BY SettingsAre DEF Positive
  <1> HIDE DEF y
  <1>3. Max({MinSizeUnits, y}) = IF MinSizeUnits <= y THEN y ELSE MinSizeUnits
    BY <1>1, <1>2, Smaller
  <1>4. Max({MinSizeUnits, y}) \in Positive /\ Max({MinSizeUnits, y}) >= chunk
    BY <1>1, <1>2, <1>3 DEF Positive
  <1> QED BY <1>4 DEF y

LEMMA InjectTrades ==
    ASSUME TradeInv, NEW c \in Callers, Inject(c)
    PROVE  TradeInv'
  <1>a. PICK r : r = req[c]
    OBVIOUS
  <1>b. PICK bid : bid = r.order.bid
    OBVIOUS
  <1>c. PICK p : p = IF bid THEN askPrice(r.mid, r.i) ELSE bidPrice(r.mid, r.i)
    OBVIOUS
  <1>d. PICK chunk : chunk = chunkOf(r.remaining, r.i)
    OBVIOUS
  <1>e. PICK left : left = IF HasPrice(p) THEN r.remaining - chunk ELSE r.remaining
    OBVIOUS
  <1>f. PICK s : s = IF r.i + 1 < injectLevels /\ left > 0
                     THEN [r EXCEPT !.i = r.i + 1, !.remaining = left]
                     ELSE [r.order EXCEPT !.pc = "check"]
    OBVIOUS
  <1>1. c \in Traders /\ c \notin Tickers /\ IsTrader(r) /\ r.pc = "inject" /\ r.i < injectLevels
    BY <1>a, WhoIsWhere DEF Inject, IsTrader
  <1>2. r \in Injects
    BY <1>1, TraderAt
  <1>3. PICK n \in nextSize :
          IF HasPrice(p) THEN PlaceLimitOrder(c, ~ bid, p, Max({MinSizeUnits, chunk + n \div 2}))
          ELSE RelyOn(c, FALSE) /\ UNCHANGED <<depth, traded>>
    BY <1>a, <1>b, <1>c, <1>d DEF Inject
  <1>4. /\ Become(c, s) /\ mu' \in {mu, NoOne} /\ cooling' \in {cooling, TRUE}
        /\ UNCHANGED <<settings, lastSideBuy>>
    BY <1>a, <1>b, <1>c, <1>d, <1>e, <1>f DEF Inject, Return, SetLastTopUp
  <1>5. /\ r.order \in Orders /\ r.mid \in Positive /\ r.i \in Nat /\ r.remaining \in Int
        /\ bid \in BOOLEAN /\ r.order.size \in Nat
    BY <1>2, <1>b DEF Injects, Orders, Positive
  <1>6. /\ chunk \in Positive /\ chunk \in Int
        /\ r.i + 1 >= injectLevels => chunk >= r.remaining
    <2>1. /\ chunkOf(r.remaining, r.i) \in Positive
          /\ r.i + 1 >= injectLevels => chunkOf(r.remaining, r.i) >= r.remaining
      BY <1>1, <1>5, ChunkIs
    <2> QED BY <1>d, <2>1 DEF Positive
  <1>7. left \in Int
    BY <1>5, <1>6, <1>e
  <1>8. \/ /\ s \in Injects /\ s.pc = "inject" /\ s.i < injectLevels /\ s.order = r.order
           /\ s.mid = r.mid /\ s.remaining = left
        \/ /\ s \in Orders /\ s.pc = "check" /\ s.bid = bid /\ s.size = r.order.size
           /\ ~ (r.i + 1 < injectLevels /\ left > 0)
    <2>1. CASE r.i + 1 < injectLevels /\ left > 0
      <3>1. s = [r EXCEPT !.i = r.i + 1, !.remaining = left] /\ r.i + 1 \in Nat
        BY <1>5, <1>f, <2>1
      <3>2. /\ s \in Injects /\ s.pc = "inject" /\ s.i = r.i + 1 /\ s.order = r.order
            /\ s.mid = r.mid /\ s.remaining = left
        BY <1>2, <1>7, <3>1 DEF Injects
      <3> QED BY <2>1, <3>2
    <2>2. CASE ~ (r.i + 1 < injectLevels /\ left > 0)
      <3>1. s = [r.order EXCEPT !.pc = "check"]
        BY <1>f, <2>2
      <3>2. s \in Orders /\ s.pc = "check" /\ s.bid = bid /\ s.size = r.order.size
        BY <1>5, <1>b, <3>1 DEF Orders
      <3> QED BY <2>2, <3>2
    <2> QED BY <2>1, <2>2
  <1>9. IsTrader(s)
    BY <1>8 DEF IsTrader, Orders
  <1>10. CASE ~ HasPrice(p)
    <2>1. depth' = depth /\ sure' \subseteq sure /\ c \notin sure' /\ traded' = traded
      BY <1>3, <1>10 DEF RelyOn
    <2>2. Scalars'
      BY <1>4, <2>1 DEF settings, TradeInv, Scalars
    <2> QED BY <1>1, <1>4, <1>9, <2>1, <2>2, QuietStep
  <1>11. CASE HasPrice(p)
    <2>a. PICK b \in BOOLEAN : b = ~ bid
      OBVIOUS
    <2>b. PICK size : size = Max({MinSizeUnits, chunk + n \div 2})
      OBVIOUS
    <2>1. bid = ~ b
      BY <1>5, <2>a
    <2>2. size \in Positive /\ size >= chunk /\ size \in Int
      <3>1. n \in Positive
        BY <1>3, NextSizeIs
      <3>2. size \in Positive /\ size >= chunk
        BY <1>6, <2>b, <3>1, InjectedIs
      <3> QED BY <3>2 DEF Positive
    <2>3. p \in Positive /\ IF b THEN p < r.mid ELSE p > r.mid
      BY <1>5, <1>11, <1>c, <2>1, PricesAre
    <2>4. PlaceLimitOrder(c, b, p, size)
      BY <1>3, <1>11, <2>a, <2>b
    <2>5. /\ BookOK' /\ traded' \in BOOLEAN /\ sure' \subseteq sure
          /\ \A d \in sure' \ {c} : d \in sure /\ Undisturbed(d)
          /\ B!Marketable(b, p) = {} =>
               B!Levels(~ b)' = B!Levels(~ b) /\ B!Total(b)' = B!Total(b) + size
      <3>1. size \in Positive /\ p \in Positive
        BY <2>2, <2>3
      <3>2. /\ BookOK' /\ traded' \in BOOLEAN /\ sure' \subseteq sure
            /\ \A d \in sure' \ {c} : d \in sure /\ Undisturbed(d)
            /\ B!Levels(~ b)' \subseteq B!Levels(~ b)
            /\ B!Marketable(b, p) = {} =>
                 /\ B!Levels(~ b)' = B!Levels(~ b)
                 /\ B!Levels(b)' = B!Levels(b) \cup {p}
                 /\ B!Total(b)' = B!Total(b) + size
        BY <2>4, <3>1, Placing
      <3> QED BY <3>2
    <2>6. Scalars'
      BY <1>4, <2>5 DEF settings, TradeInv, Scalars
    <2>7. ASSUME c \in sure PROVE TraderSure(s)'
      <3>1. Around(bid, r.mid) /\ B!Total(~ bid) >= r.order.size - r.remaining
        BY <1>1, <1>a, <1>b, <2>7 DEF TradeInv, Sure, TraderSure
      <3>2. B!Marketable(b, p) = {}
        BY <1>5, <2>1, <2>3, <3>1, NobodyMet DEF TradeInv
      <3>3. B!Levels(bid)' = B!Levels(bid) /\ B!Total(~ bid)' = B!Total(~ bid) + size
        BY <2>1, <2>a, <2>5, <3>2
      <3>4. B!Total(~ bid) \in Nat
        BY <2>a, TotalsNat DEF TotalsOK, TradeInv
      <3>5. left = r.remaining - chunk
        BY <1>11, <1>e
      <3>6. B!Total(~ bid)' >= r.order.size - left
        BY <1>5, <1>6, <2>2, <3>1, <3>3, <3>4, <3>5
      <3>7. \A q \in B!Levels(bid)' : IF bid THEN q <= r.mid ELSE q >= r.mid
        BY <3>1, <3>3 DEF Around
      <3>8. ~ (r.i + 1 < injectLevels /\ left > 0) => B!Total(~ bid)' >= r.order.size
        <4>1. B!Total(~ bid)' \in Int
          BY <2>2, <3>3, <3>4
        <4>2. injectLevels \in Int
          BY InjectLevelsIs DEF Positive
        <4>3. ~ (r.i + 1 < injectLevels /\ left > 0) => left <= 0
          BY <1>5, <1>6, <1>7, <3>5, <4>2
        <4> QED BY <1>5, <1>7, <3>6, <4>1, <4>3
      <3> QED BY <1>8, <1>b, <3>6, <3>7, <3>8 DEF TraderSure, Around
    <2>8. \A d \in sure' \ {c} : d \in sure /\ (depth' = depth \/ Undisturbed(d))
      BY <2>5
    <2>9. BookOK' /\ sure' \subseteq sure
      BY <2>5
    <2> QED BY <1>1, <1>4, <1>9, <2>6, <2>7, <2>8, <2>9, TradeStep
  <1> QED BY <1>10, <1>11

\* A step that is not a caller's.
LEMMA ElsewhereStep ==
    ASSUME TradeInv, BookOK', Scalars', req' = req,
           \A d \in sure' : d \in sure /\ (depth' = depth \/ Undisturbed(d))
    PROVE  TradeInv'
  <1>1. Requests'
    BY DEF TradeInv, Requests, IsTicker, IsTrader, injectLevels, Callers
  <1>2. ASSUME NEW d \in sure' PROVE Sure(d)'
    <2>1. d \in Callers /\ Sure(d) /\ (depth' = depth \/ Undisturbed(d)) /\ req'[d] = req[d]
      BY <1>2 DEF TradeInv, Scalars
    <2> QED BY <2>1, StaysSure DEF TradeInv
  <1> QED BY <1>1, <1>2 DEF TradeInv

LEMMA OthersTrade == TradeInv /\ Others => TradeInv'
  <1> SUFFICES ASSUME TradeInv, Others PROVE TradeInv'
    OBVIOUS
  <1>1. PICK b \in BOOLEAN, n \in OtherSizes :
          \/ PlaceMarketOrder(NoOne, b, n)
          \/ \E p \in Prices : PlaceLimitOrder(NoOne, b, p, n)
          \/ (\E p \in Prices : B!Cancel(b, p, n)) /\ Observe(NoOne) /\ UNCHANGED traded
    BY DEF Others
  <1>2. n \in Positive /\ n \in Nat
    BY SettingsAre DEF Positive
  <1>3. /\ BookOK' /\ traded' \in BOOLEAN /\ sure' \subseteq sure
        /\ \A d \in sure' \ {NoOne} : d \in sure /\ Undisturbed(d)
    <2>1. CASE PlaceMarketOrder(NoOne, b, n)
      BY <1>2, <2>1, Taking
    <2>2. ASSUME NEW p \in Prices, PlaceLimitOrder(NoOne, b, p, n)
          PROVE  /\ BookOK' /\ traded' \in BOOLEAN /\ sure' \subseteq sure
                 /\ \A d \in sure' \ {NoOne} : d \in sure /\ Undisturbed(d)
      <3>1. p \in Positive
        BY SettingsAre
      <3> QED BY <1>2, <2>2, <3>1, Placing
    <2>3. CASE (\E p \in Prices : B!Cancel(b, p, n)) /\ Observe(NoOne) /\ UNCHANGED traded
      <3>1. BookOK'
        BY <1>2, <2>3, OrdersKeepBook DEF TradeInv
      <3>2. \A d \in sure' \ {NoOne} : d \in sure /\ Undisturbed(d)
        BY <2>3, OthersObserve
      <3>3. traded' \in BOOLEAN /\ sure' \subseteq sure
        BY <2>3 DEF Observe, TradeInv, Scalars
      <3> QED BY <3>1, <3>2, <3>3
    <2> QED BY <1>1, <2>1, <2>2, <2>3
  <1>4. NoOne \notin sure'
    BY <1>3, CallersAssumption DEF TradeInv, Scalars
  <1>5. \A d \in sure' : d \in sure /\ (depth' = depth \/ Undisturbed(d))
    BY <1>3, <1>4
  <1>6. traded' \in BOOLEAN /\ sure' \subseteq sure /\ BookOK'
    BY <1>3
  <1>7. req' = req /\ Scalars'
    BY <1>6 DEF Others, settings, TradeInv, Scalars
  <1> QED BY <1>5, <1>6, <1>7, ElsewhereStep

LEMMA TimeTrades ==
    ASSUME TradeInv, CooldownElapses \/ RegimeEnds \/ PriceExpires \/ UNCHANGED vars
    PROVE  TradeInv'
  <1>1. depth' = depth /\ req' = req /\ sure' = sure /\ Scalars'
    BY DEF CooldownElapses, RegimeEnds, PriceExpires, Tick, vars, trading, settings, TradeInv, Scalars
  <1>2. BookOK'
    BY <1>1 DEF TradeInv, BookOK, B!Levels
  <1> QED BY <1>1, <1>2, ElsewhereStep

LEMMA InitTrades == Init => TradeInv
  <1> SUFFICES ASSUME Init PROVE TradeInv
    OBVIOUS
  <1>1. \A b \in BOOLEAN : depth[b] = <<>>
    BY DEF Init, B!Init, B!Empty
  <1>2. \A b \in BOOLEAN : B!Levels(b) = {}
    BY <1>1 DEF B!Levels
  <1>3. BookOK
    <2>1. DOMAIN depth = BOOLEAN
      BY DEF Init, B!Init, B!Empty
    <2> QED BY <1>2, <2>1, FS_EmptySet DEF BookOK
  <1>4. Requests
    BY DEF Init, Requests, Idle, IsTicker, IsTrader, Plain, Callers
  <1>5. Scalars
    BY DEF Init, Scalars
  <1>6. sure = {}
    BY DEF Init
  <1> QED BY <1>3, <1>4, <1>5, <1>6 DEF TradeInv

LEMMA NextTrades == TradeInv /\ [Next]_vars => TradeInv'
  <1> SUFFICES ASSUME TradeInv, [Next]_vars PROVE TradeInv'
    OBVIOUS
  <1>1. ASSUME NEW c \in Callers, StartEnsure(c) \/ StartMarketOrder(c) \/ Enter(c) PROVE TradeInv'
    BY <1>1, StartEnsureTrades, StartMarketOrderTrades, CoolingDownTrades, LookToTopUpTrades,
       LookForTraderTrades DEF Enter
  <1>2. ASSUME NEW c \in Callers, Step(c) PROVE TradeInv'
    BY <1>2, PlaceBidTrades, PlaceAskTrades, PulseLookTrades, PulseTrades, CountTradesTrades,
       InjectTrades, CheckDepthTrades, SafePlaceMarketOrderTrades DEF Step
  <1> QED BY <1>1, <1>2, OthersTrade, TimeTrades DEF Next

LEMMA TradeInvariance == Spec => []TradeInv
  BY InitTrades, NextTrades, PTL DEF Spec

-----------------------------------------------------------------------------
(* The theorems.                                                           *)

\* The types, and that every level of the book has a price and a volume, however
\* far drift, spread and other participants' orders move the middle.
THEOREM TypesHold == Spec => []TypeOK
  <1>1. ASSUME TradeInv PROVE TypeOK
    <2>1. \A b \in BOOLEAN : \A p \in B!Levels(b) : p > 0 /\ depth[b][p] > 0
      BY <1>1 DEF TradeInv, BookOK, Positive
    <2>2. ASSUME NEW c \in Callers
          PROVE  req[c].pc \in Holding \cup Done \cup {"lock", "check", "place"}
      <3>1. c \in Tickers => req[c].pc \in {"idle", "lock", "count", "seed", "bid", "ask", "pulse", "flow"}
        BY <1>1, WhoIsWhere, TickerAt
      <3>2. c \in Traders =>
              req[c].pc \in {"idle", "filled", "refused", "lock", "check", "place", "inject"}
        BY <1>1, WhoIsWhere, TraderAt
      <3> QED BY <3>1, <3>2 DEF Callers, Holding, Done
    <2> QED BY <1>1, <2>1, <2>2 DEF TypeOK, TradeInv, Scalars
  <1>2. TradeInv => TypeOK
    BY <1>1
  <1> QED BY <1>2, TradeInvariance, PTL

\* An undisturbed top-up ends with both sides of the book quoted.
THEOREM BothSidesQuoted == Spec => []TwoSidedAfterTopUp
  <1>1. ASSUME TradeInv, NEW c \in sure, req[c].pc = "pulse"
        PROVE  \A b \in BOOLEAN : B!Levels(b) # {}
    <2>1. c \in Callers /\ Sure(c)
      BY <1>1 DEF TradeInv, Scalars
    <2>2. c \in Tickers
      BY <1>1, <2>1, WhoIsWhere
    <2> QED BY <1>1, <2>1, <2>2 DEF Sure, TickerSure
  <1>2. TradeInv => TwoSidedAfterTopUp
    BY <1>1 DEF TwoSidedAfterTopUp
  <1> QED BY <1>2, TradeInvariance, PTL

\* A step of one caller does not move another.
LEMMA OnlyOneMoves ==
    ASSUME TradeInv, NEW c \in Callers, NEW d \in Callers \ {c},
           StartEnsure(c) \/ StartMarketOrder(c) \/ Enter(c) \/ Step(c)
    PROVE  req'[d] = req[d]
  <1>1. DOMAIN req = Callers
    BY DEF TradeInv, Requests
  <1>2. ASSUME NEW r, Become(c, r) PROVE req'[d] = req[d]
    BY <1>1, <1>2 DEF Become
  <1>3. ASSUME NEW pc, Goto(c, pc) PROVE req'[d] = req[d]
    BY <1>1, <1>3 DEF Goto
  <1>4. StartEnsure(c) \/ StartMarketOrder(c) => req'[d] = req[d]
    BY <1>2, <1>3 DEF StartEnsure, StartMarketOrder
  <1>5. Enter(c) => req'[d] = req[d]
    BY <1>2 DEF Enter, CoolingDown, LookToTopUp, LookForTrader, Return
  <1>6. PlaceBid(c) \/ PlaceAsk(c) \/ PulseLook(c) \/ Pulse(c) => req'[d] = req[d]
    BY <1>2 DEF PlaceBid, PlaceAsk, PulseLook, Pulse
  <1>7. CountTrades(c) \/ SeedOneTradeTick(c) => req'[d] = req[d]
    BY <1>2, <1>3 DEF CountTrades, SeedOneTradeTick, Return
  <1>8. Inject(c) \/ CheckDepth(c) \/ SafePlaceMarketOrder(c) => req'[d] = req[d]
    BY <1>2 DEF Inject, CheckDepth, SafePlaceMarketOrder, Return
  <1> QED BY <1>4, <1>5, <1>6, <1>7, <1>8 DEF Step

\* Only a look at too little depth refuses an order, and only one that is not sure.
LEMMA RefusalIsUnsure ==
    ASSUME TradeInv, NEW c \in Traders, [Next]_vars,
           req[c].pc # "refused", req'[c].pc = "refused"
    PROVE  c \notin sure
  <1>a. PICK r : r = req[c]
    OBVIOUS
  <1>1. c \in Callers /\ c \notin Tickers /\ DOMAIN req = Callers /\ IsTrader(r)
    BY <1>a, CallersAssumption DEF Callers, TradeInv, Requests
  <1>2. c \in sure => TraderSure(r)
    BY <1>a DEF TradeInv, Sure
  <1>3. ASSUME NEW s, Become(c, s) PROVE req'[c] = s
    BY <1>1, <1>3 DEF Become
  <1>4. StartEnsure(c) \/ StartMarketOrder(c) \/ Enter(c) \/ Step(c)
    <2>1. req' # req
      OBVIOUS
    <2>2. ~ (Others \/ CooldownElapses \/ RegimeEnds \/ PriceExpires \/ UNCHANGED vars)
      BY <2>1 DEF Others, CooldownElapses, RegimeEnds, PriceExpires, Tick, vars
    <2>3. PICK d \in Callers : StartEnsure(d) \/ StartMarketOrder(d) \/ Enter(d) \/ Step(d)
      BY <2>2 DEF Next
    <2>4. d = c
      BY <1>1, <2>3, OnlyOneMoves
    <2> QED BY <2>3, <2>4
  <1>5. ~ (StartEnsure(c) \/ CoolingDown(c) \/ LookToTopUp(c))
    BY <1>1 DEF StartEnsure, CoolingDown, LookToTopUp
  <1>m. ASSUME NEW s, Become(c, s), s.pc # "refused" PROVE FALSE
    BY <1>3, <1>m
  <1>6. ~ StartMarketOrder(c)
    <2> SUFFICES ASSUME StartMarketOrder(c) PROVE FALSE
      OBVIOUS
    <2>1. PICK s : Become(c, s) /\ s.pc = "lock"
      BY DEF StartMarketOrder
    <2> QED BY <1>m, <2>1
  <1>7. ~ LookForTrader(c)
    <2> SUFFICES ASSUME LookForTrader(c) PROVE FALSE
      OBVIOUS
    <2>1. r \in Orders
      BY <1>a, <1>1, TraderAt DEF LookForTrader
    <2>2. [r EXCEPT !.pc = "check"].pc = "check"
      BY <2>1 DEF Orders
    <2>3. \/ Become(c, [r EXCEPT !.pc = "check"])
          \/ \E mid, n : Become(c, [pc |-> "inject", order |-> r, mid |-> mid, i |-> 0, remaining |-> n])
      BY <1>a DEF LookForTrader, Return
    <2>4. ~ Become(c, [r EXCEPT !.pc = "check"])
      BY <1>m, <2>2
    <2>5. ASSUME NEW mid, NEW n PROVE
            ~ Become(c, [pc |-> "inject", order |-> r, mid |-> mid, i |-> 0, remaining |-> n])
      <3>1. [pc |-> "inject", order |-> r, mid |-> mid, i |-> 0, remaining |-> n].pc # "refused"
        OBVIOUS
      <3> QED BY <1>m, <3>1
    <2> QED BY <2>3, <2>4, <2>5
  <1>8. ~ (PlaceBid(c) \/ PlaceAsk(c) \/ PulseLook(c) \/ Pulse(c) \/ CountTrades(c) \/ SeedOneTradeTick(c))
    BY <1>1, WhoIsWhere DEF PlaceBid, PlaceAsk, PulseLook, Pulse, CountTrades, SeedOneTradeTick
  <1>9. ~ Inject(c)
    <2> SUFFICES ASSUME Inject(c) PROVE FALSE
      OBVIOUS
    <2>1. r \in Injects /\ r.pc = "inject" /\ r.order \in Orders
      BY <1>a, <1>1, TraderAt DEF Inject, Injects
    <2>2. [r.order EXCEPT !.pc = "check"].pc = "check"
      BY <2>1 DEF Orders
    <2>3. \A i, n : [r EXCEPT !.i = i, !.remaining = n].pc = "inject"
      BY <2>1 DEF Injects
    <2>4. \/ \E i, n : Become(c, [r EXCEPT !.i = i, !.remaining = n])
          \/ Become(c, [r.order EXCEPT !.pc = "check"])
      BY <1>a DEF Inject, Return
    <2>5. PICK s : Become(c, s) /\ s.pc \in {"inject", "check"}
      BY <2>2, <2>3, <2>4
    <2> QED BY <1>m, <2>5
  <1>10. CheckDepth(c) => c \notin sure
    <2> SUFFICES ASSUME CheckDepth(c), c \in sure PROVE FALSE
      OBVIOUS
    <2>1. r.pc = "check" /\ r \in Orders /\ B!Total(~ r.bid) >= r.size
      BY <1>a, <1>1, <1>2, TraderAt DEF CheckDepth, TraderSure
    <2>2. Become(c, [r EXCEPT !.pc = "place", !.attempt = 2])
      BY <1>a, <2>1 DEF CheckDepth, depthForMarketSide
    <2>3. [r EXCEPT !.pc = "place", !.attempt = 2].pc = "place"
      BY <2>1 DEF Orders
    <2>4. PICK s : Become(c, s) /\ s.pc = "place"
      BY <2>2, <2>3
    <2> QED BY <1>m, <2>4
  <1>11. SafePlaceMarketOrder(c) => c \notin sure
    <2> SUFFICES ASSUME SafePlaceMarketOrder(c), c \in sure PROVE FALSE
      OBVIOUS
    <2>1. r.pc = "place" /\ r \in Orders /\ B!Total(~ r.bid) >= r.size
      BY <1>a, <1>1, <1>2, TraderAt DEF SafePlaceMarketOrder, TraderSure
    <2>2. r.size \in Nat /\ B!Total(~ r.bid) \in Nat
      <3>1. r.bid \in BOOLEAN /\ r.size \in Nat
        BY <2>1 DEF Orders, Positive
      <3> QED BY <3>1, TotalsNat DEF TradeInv, TotalsOK
    <2>3. r.size <= B!Total(~ r.bid)
      BY <2>1, <2>2
    <2> QED BY <1>a, <1>3, <2>3 DEF SafePlaceMarketOrder
  <1> QED BY <1>4, <1>5, <1>6, <1>7, <1>8, <1>9, <1>10, <1>11 DEF Enter, Step

\* A market order whose depth nobody spoilt is not turned away.
THEOREM UndisturbedIsServed == Spec => RefusedOnlyIfDisturbed
  <1>1. TradeInv /\ [Next]_vars =>
          [\A c \in Traders :
             req[c].pc # "refused" /\ req'[c].pc = "refused" => c \notin sure]_vars
    BY RefusalIsUnsure
  <1> QED BY <1>1, TradeInvariance, PTL DEF Spec, RefusedOnlyIfDisturbed
=============================================================================
