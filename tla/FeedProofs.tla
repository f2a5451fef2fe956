----------------------------- MODULE FeedProofs -----------------------------
(***************************************************************************)
(* For any number of callers and browsers and any buffers: the state keeps *)
(* its types and its bounds, a trade stream is in execution order, the     *)
(* trade list is the newest trades, and no trade falls between the list a  *)
(* page is given and its stream.  The price list of MarketFeed, whose      *)
(* broker is one of its own, comes last.                                   *)
(* The order follows from s.mu: what a call has still to publish is just   *)
(* what has been executed and not yet sent.  The list needs that its       *)
(* oldest entry is its least, and the last claim that at most one seed     *)
(* tick is ever stored: with a list of one, that tick could hide a trade.  *)
(***************************************************************************)
EXTENDS Feed, MarketFeed, SequenceTheorems, TLAPS

Types ==
    /\ mu \in Callers \cup {NoOne}
    /\ version \in 0..MaxCalls
    /\ stage \in [Callers -> {"idle", "locked", "stored"}]
    /\ pending \in [Callers -> Seq(Nat)]
    /\ ready \in Nat
    /\ carried \in [0..MaxCalls -> Nat]
    /\ trades \in Seq(Nat) /\ Len(trades) <= MaxRecent
    /\ chan \in [Clients -> Seq(Nat)] /\ \A c \in Clients : Len(chan[c]) <= Buffer
    /\ got \in [TradeClients -> Seq(Nat)]
    /\ shown \in [BookClients -> Nat] /\ held \in [BookClients -> Nat]
    /\ executed \in Nat /\ sent \in Nat

\* The caller that holds s.mu has to publish the trades sent + 1 .. executed.
Publishing ==
    /\ \A k \in Callers : stage[k] # "idle" <=> mu = k
    /\ \A k \in Callers : mu # k => pending[k] = <<>>
    /\ \A k \in Callers : mu = k => Len(pending[k]) = executed - sent
    /\ \A k \in Callers : \A i \in DOMAIN pending[k] : pending[k][i] = sent + i
    /\ \A k \in Callers : stage[k] = "stored" => pending[k] # <<>>
    /\ mu = NoOne => sent = executed

\* What a browser has got or will get was sent, in order.
InOrder(s) == \A i, j \in DOMAIN s : i < j /\ s[j] # 0 => s[i] < s[j]

Streams ==
    \A c \in TradeClients :
        /\ InOrder(got[c]) /\ InOrder(chan[c])
        /\ \A i \in DOMAIN got[c] : got[c][i] <= sent
        /\ \A j \in DOMAIN chan[c] : chan[c][j] <= sent
        /\ \A i \in DOMAIN got[c], j \in DOMAIN chan[c] : chan[c][j] # 0 => got[c][i] < chan[c][j]

IInv == Types /\ Publishing /\ Streams

-----------------------------------------------------------------------------
(* The operators.                                                          *)

LEMMA MinOfTwo ==
    ASSUME NEW a \in Nat, NEW b \in Nat
    PROVE  Min({a, b}) = IF a <= b THEN a ELSE b
  <1>1. CASE a <= b
    <2>1. \A x \in {a, b} : (\A y \in {a, b} : x =< y) <=> x = a
      BY <1>1
    <2> QED BY <1>1, <2>1 DEF Min
  <1>2. CASE ~ (a <= b)
    <2>1. \A x \in {a, b} : (\A y \in {a, b} : x =< y) <=> x = b
      BY <1>2
    <2> QED BY <1>2, <2>1 DEF Min
  <1> QED BY <1>1, <1>2

\* The list stays a list, no longer than MaxRecent.
LEMMA PrependKeeps ==
    ASSUME NEW m \in Nat, trades \in Seq(Nat)
    PROVE  PrependTrade(m) \in Seq(Nat) /\ Len(PrependTrade(m)) <= MaxRecent
  <1> DEFINE s == <<m>> \o trades
             n == Min({Len(trades) + 1, MaxRecent})
  <1>1. s \in Seq(Nat) /\ Len(s) = Len(trades) + 1 /\ Len(trades) \in Nat
    BY ConcatProperties, LenProperties
  <1>2. n \in 0..MaxRecent /\ n <= Len(s)
    BY <1>1, MinOfTwo, FeedAssumption
  <1>3. \A i \in 1..n : s[i] \in Nat
    BY <1>1, <1>2, FeedAssumption, ElementOfSeq
  <1> HIDE DEF s, n
  <1>4. SubSeq(s, 1, n) \in Seq(Nat) /\ Len(SubSeq(s, 1, n)) = IF 1 <= n THEN n ELSE 0
    BY <1>2, <1>3, FeedAssumption, SubSeqProperties
  <1>5. PrependTrade(m) = SubSeq(s, 1, n)
    BY Zenon DEF PrependTrade, s, n
  <1> HIDE DEF PrependTrade
  <1> QED BY <1>2, <1>4, <1>5, FeedAssumption

\* A broadcast adds its message to some of the buffers that have room.
LEMMA BroadcastAdds ==
    ASSUME Types, NEW cs \in SUBSET Clients, NEW m \in Nat, Broadcast(cs, m)
    PROVE  /\ chan' \in [Clients -> Seq(Nat)] /\ \A c \in Clients : Len(chan'[c]) <= Buffer
           /\ \A c \in Clients : chan'[c] = chan[c] \/ (c \in cs /\ chan'[c] = Append(chan[c], m))
  <1> DEFINE to   == {c \in cs : Subscribed(c)}
             full == {c \in to : Len(chan[c]) >= Buffer}
  <1>1. chan' = [c \in Clients |-> IF c \in to \ full THEN Append(chan[c], m) ELSE chan[c]]
    BY DEF Broadcast
  <1>2. \A c \in to \ full : c \in cs /\ Len(chan[c]) + 1 <= Buffer
    BY FeedAssumption DEF Types
  <1> HIDE DEF to, full
  <1>3. \A c \in Clients :
          /\ chan'[c] \in Seq(Nat) /\ Len(chan'[c]) <= Buffer
          /\ chan'[c] = chan[c] \/ (c \in cs /\ chan'[c] = Append(chan[c], m))
    BY <1>1, <1>2, FeedAssumption DEF Types
  <1> QED BY <1>1, <1>3

\* A trade's message may join the streams when it is newer than all that was sent.
LEMMA StreamsGrow ==
    ASSUME Types, Streams, NEW m \in Nat, m = 0 \/ m = sent + 1,
           sent' \in Nat, sent' >= sent, sent' >= m, UNCHANGED got,
           \A c \in TradeClients : chan'[c] = chan[c] \/ chan'[c] = Append(chan[c], m)
    PROVE  Streams'
  <1> SUFFICES ASSUME NEW c \in TradeClients
               PROVE  /\ InOrder(got[c]) /\ InOrder(chan'[c])
                      /\ \A i \in DOMAIN got[c] : got[c][i] <= sent'
                      /\ \A j \in DOMAIN chan'[c] : chan'[c][j] <= sent'
                      /\ \A i \in DOMAIN got[c], j \in DOMAIN chan'[c] :
                           chan'[c][j] # 0 => got[c][i] < chan'[c][j]
    BY DEF Streams, InOrder
  <1>1. /\ got[c] \in Seq(Nat) /\ chan[c] \in Seq(Nat) /\ sent \in Nat
        /\ InOrder(got[c]) /\ InOrder(chan[c])
        /\ \A i \in DOMAIN got[c] : got[c][i] <= sent
        /\ \A j \in DOMAIN chan[c] : chan[c][j] <= sent
        /\ \A i \in DOMAIN got[c], j \in DOMAIN chan[c] : chan[c][j] # 0 => got[c][i] < chan[c][j]
    BY DEF Types, Streams, Clients
  <1>2. \A i \in DOMAIN got[c] : got[c][i] <= sent'
    BY <1>1
  <1>3. CASE chan'[c] = chan[c]
    BY <1>1, <1>2, <1>3
  <1>4. CASE chan'[c] = Append(chan[c], m)
    <2>1. /\ Len(chan'[c]) = Len(chan[c]) + 1 /\ Len(chan[c]) \in Nat
          /\ DOMAIN chan'[c] = 1..(Len(chan[c]) + 1) /\ DOMAIN chan[c] = 1..Len(chan[c])
          /\ \A j \in 1..Len(chan[c]) : chan'[c][j] = chan[c][j]
          /\ chan'[c][Len(chan[c]) + 1] = m
      BY <1>1, <1>4
    <2>2. \A j \in DOMAIN chan[c] : chan[c][j] \in Nat
      BY <1>1
    <2>3. \A i \in DOMAIN got[c] : got[c][i] \in Nat
      BY <1>1
    <2>4. InOrder(chan'[c])
      <3> SUFFICES ASSUME NEW i \in 1..(Len(chan[c]) + 1), NEW j \in 1..(Len(chan[c]) + 1),
                          i < j, chan'[c][j] # 0
                   PROVE  chan'[c][i] < chan'[c][j]
        BY <2>1 DEF InOrder
      <3>1. i \in DOMAIN chan[c] /\ chan'[c][i] = chan[c][i] /\ chan[c][i] \in Nat
        BY <2>1, <2>2
      <3>2. CASE j \in DOMAIN chan[c]
        BY <1>1, <2>1, <3>1, <3>2 DEF InOrder
      <3>3. CASE j = Len(chan[c]) + 1
        BY <1>1, <2>1, <3>1, <3>3
      <3> QED BY <2>1, <3>2, <3>3
    <2>5. \A j \in DOMAIN chan'[c] : chan'[c][j] <= sent'
      BY <1>1, <2>1, <2>2
    <2>6. \A i \in DOMAIN got[c], j \in DOMAIN chan'[c] :
            chan'[c][j] # 0 => got[c][i] < chan'[c][j]
      <3> SUFFICES ASSUME NEW i \in DOMAIN got[c], NEW j \in 1..(Len(chan[c]) + 1), chan'[c][j] # 0
                   PROVE  got[c][i] < chan'[c][j]
        BY <2>1
      <3>1. CASE j \in DOMAIN chan[c]
        BY <1>1, <2>1, <3>1
      <3>2. CASE j = Len(chan[c]) + 1
        BY <1>1, <2>1, <2>3, <3>2
      <3> QED BY <2>1, <3>1, <3>2
    <2> QED BY <1>1, <1>2, <2>4, <2>5, <2>6
  <1> QED BY <1>3, <1>4

-----------------------------------------------------------------------------
(* The engine calls.                                                       *)

LEMMA CallKeeps ==
    ASSUME IInv, NEW k \in Callers, EngineCall(k)
    PROVE  IInv'
  <1>1. /\ stage[k] = "idle" /\ version < MaxCalls /\ mu = NoOne /\ mu' = k
        /\ version' = version + 1 /\ ready' = ready + 1
        /\ stage' = [stage EXCEPT ![k] = "locked"]
        /\ UNCHANGED <<carried, held, shown, tradeVars, clientVars>>
    BY DEF EngineCall, CanLock
  <1>2. PICK n \in 0..MaxTrades :
          /\ executed' = executed + n
          /\ pending' = [pending EXCEPT ![k] = [i \in 1..n |-> executed + i]]
    BY DEF EngineCall
  <1>3. /\ k # NoOne /\ n \in Nat /\ sent = executed /\ executed \in Nat
        /\ pending \in [Callers -> Seq(Nat)] /\ stage \in [Callers -> {"idle", "locked", "stored"}]
    BY <1>1, FeedAssumption DEF IInv, Types, Publishing
  <1> DEFINE s == [i \in 1..n |-> executed + i]
  <1>4. s \in Seq(Nat) /\ Len(s) = n /\ DOMAIN s = 1..n /\ \A i \in 1..n : s[i] = sent + i
    BY <1>3
  <1>5. pending'[k] = s /\ \A l \in Callers \ {k} : pending'[l] = pending[l] /\ pending[l] = <<>>
    BY <1>1, <1>2, <1>3 DEF IInv, Publishing
  <1>6. stage'[k] = "locked" /\ \A l \in Callers \ {k} : stage'[l] = stage[l] /\ stage[l] = "idle"
    BY <1>1, <1>3, FeedAssumption DEF IInv, Publishing
  <1> HIDE DEF s
  <1>7. Types'
    <2>1. pending' \in [Callers -> Seq(Nat)]
      BY <1>2, <1>3, <1>4 DEF s
    <2> QED BY <1>1, <1>2, <1>3, <2>1, FeedAssumption DEF IInv, Types, tradeVars, clientVars
  <1>8. Publishing'
    <2>1. executed' - sent' = n
      BY <1>1, <1>2, <1>3 DEF tradeVars
    <2>2. \A l \in Callers :
            /\ stage'[l] # "idle" <=> mu' = l
            /\ mu' # l => pending'[l] = <<>>
            /\ mu' = l => Len(pending'[l]) = executed' - sent'
            /\ stage'[l] # "stored"
      BY <1>1, <1>4, <1>5, <1>6, <2>1
    <2>3. \A l \in Callers : \A i \in DOMAIN pending'[l] : pending'[l][i] = sent' + i
      BY <1>1, <1>4, <1>5 DEF tradeVars
    <2> QED BY <1>1, <1>3, <2>2, <2>3 DEF Publishing
  <1>9. Streams'
    BY <1>1 DEF IInv, Streams, InOrder, tradeVars, clientVars
  <1> QED BY <1>7, <1>8, <1>9 DEF IInv

LEMMA StoreKeeps ==
    ASSUME IInv, NEW k \in Callers, StoreTrade(k)
    PROVE  IInv'
  <1>1. /\ stage[k] = "locked" /\ pending[k] # <<>>
        /\ trades' = PrependTrade(Head(pending[k]))
        /\ stage' = [stage EXCEPT ![k] = "stored"]
        /\ UNCHANGED <<mu, version, pending, executed, bookVars, seed, sent, initial, got, clientVars>>
    BY DEF StoreTrade
  <1>2. Head(pending[k]) \in Nat
    BY <1>1, HeadTailProperties DEF IInv, Types
  <1>3. trades' \in Seq(Nat) /\ Len(trades') <= MaxRecent
    BY <1>1, <1>2, PrependKeeps DEF IInv, Types
  <1>4. Types'
    BY <1>1, <1>3 DEF IInv, Types, bookVars, clientVars
  <1>5. Publishing'
    BY <1>1 DEF IInv, Types, Publishing
  <1>6. Streams'
    BY <1>1 DEF IInv, Streams, InOrder, clientVars
  <1> QED BY <1>4, <1>5, <1>6 DEF IInv

LEMMA SendKeeps ==
    ASSUME IInv, NEW k \in Callers, SendTrade(k)
    PROVE  IInv'
  <1> DEFINE s == pending[k]
  <1>1. /\ stage[k] = "stored" /\ Broadcast(TradeClients, Head(s))
        /\ sent' = sent + 1
        /\ pending' = [pending EXCEPT ![k] = Tail(s)]
        /\ stage' = [stage EXCEPT ![k] = "locked"]
        /\ UNCHANGED <<mu, version, executed, bookVars, trades, seed, stored, initial, got, conn>>
    BY DEF SendTrade
  <1>2. /\ mu = k /\ s \in Seq(Nat) /\ s # <<>> /\ Len(s) = executed - sent
        /\ \A i \in DOMAIN s : s[i] = sent + i
        /\ sent \in Nat /\ executed \in Nat
    BY <1>1 DEF IInv, Types, Publishing
  <1>3. Head(s) = sent + 1 /\ Head(s) \in Nat
    BY <1>2
  <1>4. /\ Tail(s) \in Seq(Nat) /\ Len(Tail(s)) = executed - sent'
        /\ \A i \in DOMAIN Tail(s) : Tail(s)[i] = sent' + i
    <2>1. /\ Tail(s) \in Seq(Nat) /\ Len(Tail(s)) = Len(s) - 1 /\ Len(s) \in Nat
          /\ \A i \in 1..Len(Tail(s)) : Tail(s)[i] = s[i + 1]
      BY <1>2, HeadTailProperties, LenProperties
    <2>2. DOMAIN s = 1..Len(s) /\ DOMAIN Tail(s) = 1..Len(Tail(s))
      BY <1>2, <2>1, LenProperties
    <2>3. \A i \in DOMAIN Tail(s) : i + 1 \in DOMAIN s /\ s[i + 1] = sent + (i + 1)
      BY <1>2, <2>1, <2>2
    <2> QED BY <1>1, <1>2, <2>1, <2>2, <2>3
  <1>5. TradeClients \in SUBSET Clients
    BY DEF Clients
  <1>6. /\ chan' \in [Clients -> Seq(Nat)] /\ \A c \in Clients : Len(chan'[c]) <= Buffer
        /\ \A c \in Clients : chan'[c] = chan[c] \/ (c \in TradeClients /\ chan'[c] = Append(chan[c], Head(s)))
    BY <1>1, <1>3, <1>5, BroadcastAdds DEF IInv
  <1> HIDE DEF s
  <1>7. /\ pending'[k] = Tail(s) /\ stage'[k] = "locked"
        /\ \A l \in Callers \ {k} : pending'[l] = pending[l] /\ stage'[l] = stage[l]
    BY <1>1 DEF IInv, Types
  <1>8. Types'
    BY <1>1, <1>2, <1>4, <1>6 DEF IInv, Types, bookVars
  <1>9. Publishing'
    <2>1. \A l \in Callers \ {k} : stage[l] = "idle" /\ pending[l] = <<>> /\ mu' # l
      BY <1>1, <1>2 DEF IInv, Types, Publishing
    <2>2. mu' = k /\ mu' # NoOne /\ executed' = executed
      BY <1>1, <1>2, FeedAssumption
    <2>3. \A l \in Callers :
            /\ stage'[l] # "idle" <=> mu' = l
            /\ mu' # l => pending'[l] = <<>>
            /\ mu' = l => Len(pending'[l]) = executed' - sent'
            /\ stage'[l] # "stored"
      BY <1>1, <1>4, <1>7, <2>1, <2>2, FeedAssumption DEF IInv, Publishing
    <2>4. \A l \in Callers : \A i \in DOMAIN pending'[l] : pending'[l][i] = sent' + i
      BY <1>4, <1>7, <2>1
    <2> QED BY <2>2, <2>3, <2>4 DEF Publishing
  <1>10. Streams'
    <2>1. /\ sent' \in Nat /\ sent' >= sent /\ sent' >= Head(s) /\ UNCHANGED got
          /\ \A c \in TradeClients : chan'[c] = chan[c] \/ chan'[c] = Append(chan[c], Head(s))
      BY <1>1, <1>2, <1>3, <1>5, <1>6
    <2> QED BY <1>3, <2>1, StreamsGrow DEF IInv
  <1> QED BY <1>8, <1>9, <1>10 DEF IInv

LEMMA ReturnKeeps ==
    ASSUME IInv, NEW k \in Callers, Return(k)
    PROVE  IInv'
  <1>1. /\ stage[k] = "locked" /\ pending[k] = <<>> /\ mu' = NoOne
        /\ stage' = [stage EXCEPT ![k] = "idle"]
        /\ UNCHANGED <<version, pending, executed, bookVars, tradeVars, clientVars>>
    BY DEF Return
  <1>2. Types'
    BY <1>1 DEF IInv, Types, bookVars, tradeVars, clientVars
  <1>3. mu = k /\ executed \in Nat /\ sent \in Nat /\ Len(pending[k]) = executed - sent
    BY <1>1 DEF IInv, Types, Publishing
  <1>4. sent = executed
    BY <1>1, <1>3
  <1>5. Publishing'
    BY <1>1, <1>3, <1>4, FeedAssumption DEF IInv, Types, Publishing, tradeVars
  <1>6. Streams'
    BY <1>1 DEF IInv, Streams, InOrder, tradeVars, clientVars
  <1> QED BY <1>2, <1>5, <1>6 DEF IInv

-----------------------------------------------------------------------------
(* Goroutines that s.mu does not order.                                    *)

LEMMA SnapshotsKeep ==
    ASSUME IInv, ReadSnapshot \/ \E v \in 0..MaxCalls : SendSnapshot(v)
    PROVE  IInv'
  <1>1. CASE ReadSnapshot
    <2>1. /\ ready > 0 /\ ready' = ready - 1
          /\ carried' = [carried EXCEPT ![version] = carried[version] + 1]
          /\ UNCHANGED <<callVars, held, shown, tradeVars, clientVars>>
      BY <1>1 DEF ReadSnapshot
    <2>2. ready \in Nat /\ version \in 0..MaxCalls /\ carried \in [0..MaxCalls -> Nat]
      BY DEF IInv, Types
    <2>3. ready' \in Nat /\ carried' \in [0..MaxCalls -> Nat]
      <3>1. carried[version] \in Nat
        BY <2>2
      <3>2. carried[version] + 1 \in Nat /\ ready - 1 \in Nat
        BY <2>1, <2>2, <3>1
      <3> QED BY <2>1, <2>2, <3>2
    <2>4. Types'
      BY <2>1, <2>3 DEF IInv, Types, callVars, tradeVars, clientVars
    <2> QED BY <2>1, <2>4 DEF IInv, Publishing, Streams, InOrder, callVars, tradeVars, clientVars
  <1>2. ASSUME NEW v \in 0..MaxCalls, SendSnapshot(v) PROVE IInv'
    <2>1. /\ carried[v] > 0 /\ carried' = [carried EXCEPT ![v] = carried[v] - 1]
          /\ Broadcast(BookClients, v) /\ v \in Nat /\ BookClients \in SUBSET Clients
          /\ UNCHANGED <<callVars, ready, held, shown, tradeVars, conn>>
      BY <1>2, FeedAssumption DEF SendSnapshot, Clients
    <2>2. /\ chan' \in [Clients -> Seq(Nat)] /\ \A c \in Clients : Len(chan'[c]) <= Buffer
          /\ \A c \in TradeClients : chan'[c] = chan[c]
      BY <2>1, BroadcastAdds, FeedAssumption DEF IInv, Clients
    <2>3. carried' \in [0..MaxCalls -> Nat]
      <3>1. carried \in [0..MaxCalls -> Nat]
        BY DEF IInv, Types
      <3>2. carried[v] \in Nat
        BY <3>1
      <3>3. carried[v] - 1 \in Nat
        BY <2>1, <3>2
      <3> QED BY <2>1, <3>1, <3>3
    <2>4. Types'
      BY <2>1, <2>2, <2>3 DEF IInv, Types, callVars, tradeVars
    <2>5. Publishing' /\ Streams'
      BY <2>1, <2>2 DEF IInv, Publishing, Streams, InOrder, callVars, tradeVars
    <2> QED BY <2>4, <2>5 DEF IInv
  <1> QED BY <1>1, <1>2

LEMMA SeedKeeps ==
    ASSUME IInv, StartSeed \/ StoreSeed \/ SendSeed
    PROVE  IInv'
  <1>1. CASE StartSeed
    BY <1>1 DEF StartSeed, IInv, Types, Publishing, Streams, InOrder, callVars, bookVars, clientVars
  <1>2. CASE StoreSeed
    <2>1. /\ trades' = PrependTrade(0)
          /\ UNCHANGED <<callVars, bookVars, sent, initial, got, clientVars>>
      BY <1>2 DEF StoreSeed
    <2>2. trades' \in Seq(Nat) /\ Len(trades') <= MaxRecent
      BY <2>1, PrependKeeps DEF IInv, Types
    <2>3. Types'
      BY <2>1, <2>2 DEF IInv, Types, callVars, bookVars, clientVars
    <2> QED BY <2>1, <2>3 DEF IInv, Publishing, Streams, InOrder, callVars, clientVars
  <1>3. CASE SendSeed
    <2>1. /\ Broadcast(TradeClients, 0) /\ TradeClients \in SUBSET Clients
          /\ UNCHANGED <<callVars, bookVars, trades, stored, sent, initial, got, conn>>
      BY <1>3 DEF SendSeed, Clients
    <2>2. /\ chan' \in [Clients -> Seq(Nat)] /\ \A c \in Clients : Len(chan'[c]) <= Buffer
          /\ \A c \in TradeClients : chan'[c] = chan[c] \/ chan'[c] = Append(chan[c], 0)
      BY <2>1, BroadcastAdds DEF IInv, Clients
    <2>3. Types'
      BY <2>1, <2>2 DEF IInv, Types, callVars, bookVars
    <2>4. sent' = sent /\ sent \in Nat
      BY <2>1 DEF IInv, Types
    <2>5. Streams'
      BY <2>1, <2>2, <2>4, StreamsGrow DEF IInv
    <2> QED BY <2>1, <2>3, <2>5 DEF IInv, Publishing, callVars
  <1> QED BY <1>1, <1>2, <1>3

-----------------------------------------------------------------------------
(* The SSE handlers.                                                       *)

LEMMA BookHandlerKeeps ==
    ASSUME IInv, NEW c \in BookClients, BookHandler(c)
    PROVE  IInv'
  <1>1. c \in Clients /\ c \notin TradeClients
    BY FeedAssumption DEF Clients
  <1>2. UNCHANGED <<callVars, ready, carried, tradeVars>>
    BY DEF BookHandler, ConnectBook, HandlerSnapshot, HandlerBroadcast, Tick, ShowBook,
           DisconnectBook, bookVars
  <1>3. ASSUME /\ chan' \in [Clients -> Seq(Nat)] /\ \A d \in Clients : Len(chan'[d]) <= Buffer
               /\ \A d \in TradeClients : chan'[d] = chan[d]
               /\ shown' \in [BookClients -> Nat] /\ held' \in [BookClients -> Nat]
        PROVE  IInv'
    <2>1. Types'
      BY <1>2, <1>3 DEF IInv, Types, callVars, tradeVars
    <2> QED BY <1>2, <1>3, <2>1 DEF IInv, Publishing, Streams, InOrder, callVars, tradeVars
  <1>4. CASE ConnectBook(c) \/ Tick(c)
    BY <1>3, <1>4 DEF ConnectBook, Tick, bookVars, IInv, Types
  <1>5. CASE HandlerSnapshot(c)
    BY <1>3, <1>5 DEF HandlerSnapshot, IInv, Types
  <1>6. CASE HandlerBroadcast(c)
    <2>1. /\ Broadcast(BookClients, held[c]) /\ held[c] \in Nat /\ BookClients \in SUBSET Clients
          /\ held' = [held EXCEPT ![c] = 0] /\ UNCHANGED shown
      BY <1>6 DEF HandlerBroadcast, IInv, Types, Clients
    <2>2. /\ chan' \in [Clients -> Seq(Nat)] /\ \A d \in Clients : Len(chan'[d]) <= Buffer
          /\ \A d \in TradeClients : chan'[d] = chan[d]
      BY <2>1, BroadcastAdds, FeedAssumption DEF IInv, Clients
    <2>3. shown' \in [BookClients -> Nat] /\ held' \in [BookClients -> Nat]
      BY <2>1 DEF IInv, Types
    <2> QED BY <1>3, <2>2, <2>3
  <1>7. CASE ShowBook(c)
    <2>1. /\ chan[c] \in Seq(Nat) /\ chan[c] # <<>> /\ Len(chan[c]) <= Buffer
          /\ shown' = [shown EXCEPT ![c] = Head(chan[c])]
          /\ chan' = [chan EXCEPT ![c] = Tail(chan[c])] /\ UNCHANGED held
      BY <1>1, <1>7 DEF ShowBook, IInv, Types
    <2>2. Head(chan[c]) \in Nat /\ Tail(chan[c]) \in Seq(Nat) /\ Len(Tail(chan[c])) <= Buffer
      BY <2>1, HeadTailProperties, LenProperties, FeedAssumption
    <2>3. shown' \in [BookClients -> Nat] /\ held' \in [BookClients -> Nat]
      BY <2>1, <2>2 DEF IInv, Types
    <2>4. chan' \in [Clients -> Seq(Nat)] /\ \A d \in Clients : Len(chan'[d]) <= Buffer
      BY <1>1, <2>1, <2>2 DEF IInv, Types
    <2>5. \A d \in TradeClients : chan'[d] = chan[d]
      BY <1>1, <2>1 DEF IInv, Types, Clients
    <2> QED BY <1>3, <2>3, <2>4, <2>5
  <1>8. CASE DisconnectBook(c)
    <2>1. /\ chan' = [chan EXCEPT ![c] = <<>>] /\ shown' = [shown EXCEPT ![c] = 0]
          /\ UNCHANGED held
      BY <1>8 DEF DisconnectBook
    <2>2. shown' \in [BookClients -> Nat] /\ held' \in [BookClients -> Nat]
      BY <2>1 DEF IInv, Types
    <2>3. chan' \in [Clients -> Seq(Nat)] /\ \A d \in Clients : Len(chan'[d]) <= Buffer
      BY <1>1, <2>1, FeedAssumption DEF IInv, Types
    <2>4. \A d \in TradeClients : chan'[d] = chan[d]
      BY <1>1, <2>1 DEF IInv, Types, Clients
    <2> QED BY <1>3, <2>2, <2>3, <2>4
  <1> QED BY <1>4, <1>5, <1>6, <1>7, <1>8 DEF BookHandler

LEMMA TradeHandlerKeeps ==
    ASSUME IInv, NEW c \in TradeClients, TradeHandler(c)
    PROVE  IInv'
  <1>1. UNCHANGED <<callVars, bookVars, trades, sent>> /\ c \in Clients
    BY DEF TradeHandler, ConnectTrades, RecentTradesPayload, WriteInitial, ShowTrade,
           DisconnectTrades, tradeVars, Clients
  <1>2. Publishing'
    BY <1>1 DEF IInv, Publishing, callVars
  <1>3. CASE UNCHANGED <<chan, got>>
    BY <1>1, <1>2, <1>3 DEF IInv, Types, Streams, InOrder, callVars, bookVars
  <1>4. CASE ShowTrade(c)
    <2> DEFINE s == chan[c]
               g == got[c]
    <2>1. /\ s \in Seq(Nat) /\ s # <<>> /\ Len(s) <= Buffer /\ g \in Seq(Nat)
          /\ got' = [got EXCEPT ![c] = Append(g, Head(s))]
          /\ chan' = [chan EXCEPT ![c] = Tail(s)]
      BY <1>1, <1>4 DEF ShowTrade, IInv, Types
    <2>2. /\ Head(s) \in Nat /\ Head(s) = s[1] /\ Tail(s) \in Seq(Nat) /\ Len(Tail(s)) = Len(s) - 1
          /\ Len(s) \in Nat \ {0} /\ DOMAIN s = 1..Len(s) /\ DOMAIN Tail(s) = 1..(Len(s) - 1)
          /\ \A j \in DOMAIN Tail(s) : j + 1 \in DOMAIN s /\ Tail(s)[j] = s[j + 1]
          /\ \A j \in DOMAIN s : s[j] \in Nat
      BY <2>1, HeadTailProperties, LenProperties, EmptySeq
    <2>3. /\ Append(g, Head(s)) \in Seq(Nat) /\ Len(g) \in Nat /\ DOMAIN g = 1..Len(g)
          /\ DOMAIN Append(g, Head(s)) = 1..(Len(g) + 1)
          /\ \A i \in DOMAIN g : Append(g, Head(s))[i] = g[i] /\ g[i] \in Nat
          /\ Append(g, Head(s))[Len(g) + 1] = s[1]
      BY <2>1, <2>2
    <2>4. /\ InOrder(g) /\ InOrder(s)
          /\ \A i \in DOMAIN g : g[i] <= sent
          /\ \A j \in DOMAIN s : s[j] <= sent
          /\ \A i \in DOMAIN g, j \in DOMAIN s : s[j] # 0 => g[i] < s[j]
      BY DEF IInv, Streams
    <2> DEFINE G == Append(g, Head(s))
               T == Tail(s)
    <2>5. /\ got'[c] = G /\ chan'[c] = T
          /\ \A d \in TradeClients \ {c} : got'[d] = got[d] /\ chan'[d] = chan[d]
      BY <1>1, <2>1 DEF IInv, Types, Clients
    <2>6. chan' \in [Clients -> Seq(Nat)] /\ got' \in [TradeClients -> Seq(Nat)]
      BY <1>1, <2>1, <2>2, <2>3 DEF IInv, Types
    <2>7. \A d \in Clients : Len(chan'[d]) <= Buffer
      BY <1>1, <2>1, <2>2, FeedAssumption DEF IInv, Types
    <2>8. Types'
      BY <1>1, <2>6, <2>7 DEF IInv, Types, callVars, bookVars
    <2> HIDE DEF s, g, G, T
    <2>9. InOrder(G)
      BY <2>2, <2>3, <2>4 DEF InOrder, G
    <2>10. InOrder(T)
      BY <2>2, <2>4 DEF InOrder, T
    <2>11. /\ \A i \in DOMAIN G : G[i] <= sent
           /\ \A j \in DOMAIN T : T[j] <= sent
      BY <2>2, <2>3, <2>4 DEF G, T
    <2>12. \A i \in DOMAIN G, j \in DOMAIN T : T[j] # 0 => G[i] < T[j]
      <3> SUFFICES ASSUME NEW i \in DOMAIN G, NEW j \in DOMAIN T, T[j] # 0 PROVE G[i] < T[j]
        OBVIOUS
      <3>1. j + 1 \in DOMAIN s /\ T[j] = s[j + 1] /\ 1 \in DOMAIN s /\ 1 < j + 1
        BY <2>2 DEF T
      <3>2. CASE i \in DOMAIN g
        BY <2>3, <2>4, <3>1, <3>2 DEF G
      <3>3. CASE i = Len(g) + 1
        BY <2>3, <2>4, <3>1, <3>3 DEF G, InOrder
      <3> QED BY <2>3, <3>2, <3>3 DEF G
    <2>13. Streams'
      BY <1>1, <2>5, <2>9, <2>10, <2>11, <2>12 DEF IInv, Streams, InOrder
    <2> QED BY <1>2, <2>8, <2>13 DEF IInv
  <1>5. CASE DisconnectTrades(c)
    <2>1. chan' = [chan EXCEPT ![c] = <<>>] /\ got' = [got EXCEPT ![c] = <<>>]
      BY <1>5 DEF DisconnectTrades
    <2>2. /\ got'[c] = <<>> /\ chan'[c] = <<>>
          /\ \A d \in TradeClients \ {c} : got'[d] = got[d] /\ chan'[d] = chan[d]
      BY <1>1, <2>1 DEF IInv, Types, Clients
    <2>3. chan' \in [Clients -> Seq(Nat)] /\ got' \in [TradeClients -> Seq(Nat)]
      BY <1>1, <2>1 DEF IInv, Types
    <2>4. \A d \in Clients : Len(chan'[d]) <= Buffer
      BY <1>1, <2>1, FeedAssumption DEF IInv, Types
    <2>5. Types'
      BY <1>1, <2>3, <2>4 DEF IInv, Types, callVars, bookVars
    <2>6. Streams'
      BY <1>1, <2>2 DEF IInv, Streams, InOrder
    <2> QED BY <1>2, <2>5, <2>6 DEF IInv
  <1> QED BY <1>3, <1>4, <1>5
          DEF TradeHandler, ConnectTrades, RecentTradesPayload, WriteInitial, tradeVars

-----------------------------------------------------------------------------
(* The theorems.                                                           *)

LEMMA InitHolds == Init => IInv
  <1> SUFFICES ASSUME Init PROVE IInv
    OBVIOUS
  <1>1. Types
    BY FeedAssumption DEF Init, Types, Clients
  <1>2. Publishing
    BY FeedAssumption DEF Init, Publishing
  <1>3. Streams
    BY DEF Init, Streams, InOrder, Clients
  <1> QED BY <1>1, <1>2, <1>3 DEF IInv

LEMMA NextKeeps == IInv /\ [Next]_vars => IInv'
  <1> SUFFICES ASSUME IInv, [Next]_vars PROVE IInv'
    OBVIOUS
  <1>1. ASSUME NEW k \in Callers, EngineCall(k) \/ Publish(k) PROVE IInv'
    BY <1>1, CallKeeps, StoreKeeps, SendKeeps, ReturnKeeps DEF Publish
  <1>2. CASE UNCHANGED vars
    <2>1. UNCHANGED <<mu, version, stage, pending, executed, ready, carried, held, shown,
                      trades, sent, got, chan>>
      BY <1>2 DEF vars, callVars, bookVars, tradeVars, clientVars
    <2> QED BY <2>1 DEF IInv, Types, Publishing, Streams, InOrder
  <1> QED BY <1>1, <1>2, SnapshotsKeep, SeedKeeps, BookHandlerKeeps, TradeHandlerKeeps DEF Next

\* For every number of callers and browsers: no buffer and no list outgrows its
\* bound, and s.mu and the counters stay what the handlers take them for.
THEOREM TypeCorrect == Spec => []TypeOK
  <1>1. IInv => TypeOK
    BY DEF IInv, Types, TypeOK
  <1> QED BY <1>1, InitHolds, NextKeeps, PTL DEF Spec

\* However many engine calls, seed ticks, slow and leaving browsers interleave, no
\* trade stream is ever out of execution order, because a call keeps s.mu until it
\* has broadcast its last trade.
THEOREM OrderKept == Spec => []TradesInOrder
  <1>1. IInv => TradesInOrder
    <2> SUFFICES ASSUME IInv, NEW c \in TradeClients,
                        NEW i \in DOMAIN (got[c] \o chan[c]), NEW j \in DOMAIN (got[c] \o chan[c]),
                        i < j, (got[c] \o chan[c])[j] # 0
                 PROVE  (got[c] \o chan[c])[i] < (got[c] \o chan[c])[j]
      BY DEF TradesInOrder
    <2> DEFINE g == got[c]
               s == chan[c]
    <2>1. g \in Seq(Nat) /\ s \in Seq(Nat)
      BY DEF IInv, Types, Clients
    <2>2. /\ InOrder(g) /\ InOrder(s)
          /\ \A m \in DOMAIN g, n \in DOMAIN s : s[n] # 0 => g[m] < s[n]
      BY DEF IInv, Streams
    <2> DEFINE all == g \o s
    <2>3. /\ Len(g) \in Nat /\ DOMAIN g = 1..Len(g)
          /\ Len(s) \in Nat /\ DOMAIN s = 1..Len(s)
      BY <2>1, LenProperties
    <2>4. /\ DOMAIN all = 1..(Len(g) + Len(s))
          /\ \A m \in 1..(Len(g) + Len(s)) : all[m] = IF m <= Len(g) THEN g[m] ELSE s[m - Len(g)]
      <3>1. /\ all \in Seq(Nat) /\ Len(all) = Len(g) + Len(s)
            /\ \A m \in 1..(Len(g) + Len(s)) : all[m] = IF m <= Len(g) THEN g[m] ELSE s[m - Len(g)]
        <4> HIDE DEF g, s
        <4> QED BY <2>1, ConcatProperties
      <3>2. DOMAIN all = 1..Len(all)
        <4> HIDE DEF all
        <4> QED BY <3>1, LenProperties
      <3> QED BY <3>1, <3>2
    <2>5. i \in DOMAIN all /\ j \in DOMAIN all /\ all[j] # 0
      OBVIOUS
    <2> HIDE DEF all, g, s
    <2>6. all[i] < all[j]
      <3>1. CASE j <= Len(g)
        BY <2>2, <2>3, <2>4, <2>5, <3>1 DEF InOrder
      <3>2. CASE i <= Len(g) /\ j > Len(g)
        BY <2>2, <2>3, <2>4, <2>5, <3>2
      <3>3. CASE i > Len(g)
        <4>1. /\ i - Len(g) \in DOMAIN s /\ j - Len(g) \in DOMAIN s /\ i - Len(g) < j - Len(g)
              /\ all[i] = s[i - Len(g)] /\ all[j] = s[j - Len(g)]
          BY <2>3, <2>4, <2>5, <3>3
        <4> QED BY <2>2, <2>5, <4>1 DEF InOrder
      <3> QED BY <2>3, <2>4, <2>5, <3>1, <3>2, <3>3
    <2> QED BY <2>6 DEF all, g, s
  <1> QED BY <1>1, InitHolds, NextKeeps, PTL DEF Spec

-----------------------------------------------------------------------------
(* The trade list.                                                         *)

\* The last trade that was stored.
Newest == IF \E k \in Callers : stage[k] = "stored" THEN sent + 1 ELSE sent

\* Newest first, and no trade between the oldest and the last one is missing.
RunsTo(s, newest) ==
    /\ \A i, j \in DOMAIN s : i < j /\ s[i] # 0 => s[j] < s[i]
    /\ \E oldest \in 1..(newest + 1) : Executions(s) = oldest..newest

Recent ==
    /\ stored \in Nat /\ Len(trades) = Min({stored, MaxRecent})
    /\ RunsTo(trades, Newest)

\* What storing a tick does to the list, entry by entry.
LEMMA Prepended ==
    ASSUME NEW m \in Nat, trades \in Seq(Nat), Len(trades) <= MaxRecent, trades' = PrependTrade(m)
    PROVE  /\ trades' \in Seq(Nat) /\ DOMAIN trades' = 1..Len(trades')
           /\ DOMAIN trades = 1..Len(trades)
           /\ Len(trades') = IF Len(trades) < MaxRecent THEN Len(trades) + 1 ELSE MaxRecent
           /\ \A i \in DOMAIN trades' : trades'[i] = IF i = 1 THEN m ELSE trades[i - 1]
  <1> DEFINE s == <<m>> \o trades
             n == Min({Len(trades) + 1, MaxRecent})
  <1>1. /\ s \in Seq(Nat) /\ Len(s) = Len(trades) + 1 /\ Len(trades) \in Nat
        /\ \A i \in 1..Len(s) : s[i] = IF i = 1 THEN m ELSE trades[i - 1]
    BY ConcatProperties, LenProperties
  <1>2. n \in 0..MaxRecent /\ n <= Len(s) /\ n = IF Len(trades) < MaxRecent THEN Len(trades) + 1 ELSE MaxRecent
    BY <1>1, MinOfTwo, FeedAssumption
  <1>3. \A i \in 1..n : s[i] \in Nat
    BY <1>1, <1>2, FeedAssumption, ElementOfSeq
  <1>4. trades' = SubSeq(s, 1, n)
    BY Zenon DEF PrependTrade, s, n
  <1> HIDE DEF s, n
  <1>5. /\ trades' \in Seq(Nat) /\ Len(trades') = n
        /\ \A i \in 1..n : trades'[i] = s[i]
    BY <1>2, <1>3, <1>4, FeedAssumption, SubSeqProperties
  <1>6. DOMAIN trades' = 1..Len(trades') /\ DOMAIN trades = 1..Len(trades)
    BY <1>5, LenProperties
  <1>7. \A i \in 1..n : i \in 1..Len(s)
    BY <1>1, <1>2, FeedAssumption
  <1>8. \A i \in DOMAIN trades' : trades'[i] = IF i = 1 THEN m ELSE trades[i - 1]
    BY <1>1, <1>5, <1>6, <1>7
  <1> QED BY <1>2, <1>5, <1>6, <1>8

\* Storing the next trade, or a seed tick, keeps the list a run of trades.
LEMMA RunGrows ==
    ASSUME NEW m \in Nat, NEW a \in Nat, NEW b \in Nat,
           (m = 0 /\ b = a) \/ (m = a + 1 /\ b = m),
           trades \in Seq(Nat), Len(trades) <= MaxRecent, trades' = PrependTrade(m),
           RunsTo(trades, a)
    PROVE  RunsTo(trades', b)
  <1> DEFINE L == Len(trades)
             n == Len(trades')
  <1>1. /\ trades' \in Seq(Nat) /\ DOMAIN trades' = 1..n /\ DOMAIN trades = 1..L
        /\ n = IF L < MaxRecent THEN L + 1 ELSE MaxRecent
        /\ \A i \in 1..n : trades'[i] = IF i = 1 THEN m ELSE trades[i - 1]
        /\ L \in Nat /\ n \in Nat /\ n <= L + 1
    BY Prepended, LenProperties, FeedAssumption
  <1>2. PICK oldest \in 1..(a + 1) : Executions(trades) = oldest..a
    BY DEF RunsTo
  <1>3. \A i \in 1..L : trades[i] \in Nat /\ (trades[i] = 0 \/ trades[i] \in oldest..a)
    <2>1. \A i \in 1..L : trades[i] \in Nat /\ trades[i] \in ToSet(trades)
      BY <1>1, ElementOfSeq DEF ToSet
    <2>2. \A x \in ToSet(trades) : x = 0 \/ x \in oldest..a
      BY <1>2 DEF Executions
    <2> QED BY <2>1, <2>2
  <1>4. \A i, j \in 1..L : i < j /\ trades[i] # 0 => trades[j] < trades[i]
    BY <1>1 DEF RunsTo
  <1> HIDE DEF L, n
  <1>5. \A i, j \in DOMAIN trades' : i < j /\ trades'[i] # 0 => trades'[j] < trades'[i]
    <2> SUFFICES ASSUME NEW i \in 1..n, NEW j \in 1..n, i < j, trades'[i] # 0
                 PROVE  trades'[j] < trades'[i]
      BY <1>1
    <2>1. j - 1 \in 1..L /\ trades'[j] = trades[j - 1]
      BY <1>1
    <2>2. CASE i = 1
      <3>1. trades'[i] = m /\ trades[j - 1] \in Nat /\ (trades[j - 1] = 0 \/ trades[j - 1] <= a)
        BY <1>1, <1>3, <2>1, <2>2
      <3> QED BY <2>1, <3>1, <2>2
    <2>3. CASE i # 1
      <3>1. i - 1 \in 1..L /\ trades'[i] = trades[i - 1] /\ i - 1 < j - 1
        BY <1>1, <2>3
      <3> QED BY <1>4, <2>1, <3>1
    <2> QED BY <2>2, <2>3
  <1>6. \A x : x \in Executions(trades') <=>
                 x # 0 /\ ((n > 0 /\ x = m) \/ \E i \in 1..L : i < n /\ x = trades[i])
    <2>0. L \in Nat /\ n \in Nat /\ n <= L + 1
      BY <1>1
    <2>1. \A x : x \in ToSet(trades') <=> \E i \in 1..n : x = trades'[i]
      BY <1>1 DEF ToSet
    <2>2. \A x : (\E i \in 1..n : x = trades'[i])
                    <=> ((n > 0 /\ x = m) \/ \E i \in 1..L : i < n /\ x = trades[i])
      <3> SUFFICES ASSUME NEW x
                   PROVE (\E i \in 1..n : x = trades'[i])
                          <=> ((n > 0 /\ x = m) \/ \E i \in 1..L : i < n /\ x = trades[i])
        OBVIOUS
      <3>1. ASSUME NEW i \in 1..n, x = trades'[i]
            PROVE  (n > 0 /\ x = m) \/ \E h \in 1..L : h < n /\ x = trades[h]
        <4>1. CASE i = 1
          BY <1>1, <3>1, <4>1
        <4>2. CASE i # 1
          <5>1. i - 1 \in 1..L /\ i - 1 < n
            BY <2>0, <4>2
          <5>2. x = trades[i - 1]
            BY <1>1, <3>1, <4>2
          <5> QED BY <5>1, <5>2
        <4> QED BY <4>1, <4>2
      <3>2. ASSUME n > 0, x = m PROVE \E i \in 1..n : x = trades'[i]
        <4>1. 1 \in 1..n /\ trades'[1] = m
          BY <1>1, <3>2
        <4> QED BY <3>2, <4>1
      <3>3. ASSUME NEW i \in 1..L, i < n, x = trades[i] PROVE \E h \in 1..n : x = trades'[h]
        <4>1. i + 1 \in 1..n /\ i + 1 # 1 /\ (i + 1) - 1 = i
          BY <2>0, <3>3
        <4>2. trades'[i + 1] = trades[(i + 1) - 1]
          BY <1>1, <4>1
        <4> QED BY <3>3, <4>1, <4>2
      <3> QED BY <3>1, <3>2, <3>3
    <2> QED BY <2>1, <2>2 DEF Executions
  <1>7. \A x : x \in oldest..a <=> x # 0 /\ \E i \in 1..L : x = trades[i]
    BY <1>1, <1>2 DEF Executions, ToSet
  <1>8. \E low \in 1..(b + 1) : Executions(trades') = low..b
    <2>1. CASE n = 0
      <3>1. \A x : x \notin Executions(trades')
        BY <1>1, <1>6, <2>1
      <3>2. \A x : x \notin (b + 1)..b
        OBVIOUS
      <3>3. Executions(trades') = (b + 1)..b
        BY <3>1, <3>2, Zenon
      <3> QED BY <3>3
    <2>2. CASE n = L + 1
      <3>1. \A x : x \in Executions(trades') <=> x \in oldest..a \/ (x # 0 /\ x = m)
        BY <1>1, <1>6, <1>7, <2>2
      <3>2. \A x : x \in oldest..a \/ (x # 0 /\ x = m) <=> x \in oldest..b
        OBVIOUS
      <3>3. Executions(trades') = oldest..b
        BY <3>1, <3>2, Zenon
      <3> QED BY <3>3
    <2>3. CASE n = L /\ n > 0
      <3>1. L \in 1..L
        BY <1>1, <2>3
      <3>2. CASE trades[L] = 0
        <4>1. \A x : x \in Executions(trades') <=> x \in oldest..a \/ (x # 0 /\ x = m)
          BY <1>1, <1>6, <1>7, <2>3, <3>2
        <4>2. \A x : x \in oldest..a \/ (x # 0 /\ x = m) <=> x \in oldest..b
          OBVIOUS
        <4>3. Executions(trades') = oldest..b
          BY <4>1, <4>2, Zenon
        <4> QED BY <4>3
      <3>3. CASE trades[L] # 0
        <4>1. trades[L] \in oldest..a
          BY <1>3, <3>1, <3>3
        <4>2. oldest \in oldest..a
          BY <4>1
        <4>3. PICK h \in 1..L : oldest = trades[h]
          BY <1>7, <4>2
        <4>4. trades[L] = oldest
          <5>1. h = L \/ trades[L] < trades[h]
            <6>1. trades[h] # 0 /\ (h = L \/ h < L)
              BY <1>1, <4>1, <4>3
            <6> QED BY <1>4, <3>1, <6>1
          <5> QED BY <4>1, <4>3, <5>1
        <4>5. \A x : (\E i \in 1..L : i < n /\ x = trades[i]) /\ x # 0 <=> x \in (oldest + 1)..a
          <5>1. ASSUME NEW i \in 1..L, i < n, trades[i] # 0 PROVE trades[i] \in (oldest + 1)..a
            BY <1>3, <1>4, <2>3, <3>1, <4>4, <5>1
          <5>2. ASSUME NEW x \in (oldest + 1)..a PROVE x # 0 /\ \E i \in 1..L : i < n /\ x = trades[i]
            <6>1. PICK i \in 1..L : x = trades[i]
              <7>1. x \in oldest..a
                BY <4>1
              <7> QED BY <1>7, <7>1
            <6>2. i < n /\ x # 0
              BY <1>1, <2>3, <4>4, <6>1
            <6> QED BY <6>1, <6>2
          <5> QED BY <5>1, <5>2
        <4>6. \A x : x \in Executions(trades') <=> x \in (oldest + 1)..a \/ (x # 0 /\ x = m)
          BY <1>6, <2>3, <4>5
        <4>9. \A x : x \in (oldest + 1)..a \/ (x # 0 /\ x = m) <=> x \in (oldest + 1)..b
          BY <4>1
        <4>7. Executions(trades') = (oldest + 1)..b
          BY <4>6, <4>9, Zenon
        <4>8. oldest + 1 \in 1..(b + 1)
          BY <4>1
        <4> QED BY <4>7, <4>8
      <3> QED BY <3>2, <3>3
    <2> QED BY <1>1, <2>1, <2>2, <2>3, FeedAssumption
  <1> QED BY <1>5, <1>8 DEF RunsTo

\* Which trade was stored last, by what the calls are doing.
LEMMA NewestIs ==
    ASSUME IInv
    PROVE  /\ Newest \in {sent, sent + 1} /\ Newest \in Nat
           /\ mu = NoOne => Newest = executed
           /\ \A k \in Callers : stage[k] = "locked" => Newest = sent
  <1>1. sent \in Nat
    BY DEF IInv, Types
  <1>2. ASSUME mu = NoOne PROVE Newest = executed
    BY <1>2, FeedAssumption DEF IInv, Types, Publishing, Newest
  <1>3. ASSUME NEW k \in Callers, stage[k] = "locked" PROVE Newest = sent
    BY <1>3 DEF IInv, Types, Publishing, Newest
  <1> QED BY <1>1, <1>2, <1>3 DEF Newest

LEMMA RecentNext ==
    ASSUME IInv, IInv', Recent, [Next]_vars
    PROVE  Recent'
  <1> USE DEF callVars, bookVars, tradeVars, clientVars
  <1>1. ASSUME UNCHANGED <<trades, stored>>, Newest' = Newest PROVE Recent'
    BY <1>1 DEF Recent, RunsTo, Executions
  <1>2. ASSUME NEW m \in Nat, trades' = PrependTrade(m), stored' = stored + 1,
               (m = 0 /\ Newest' = Newest) \/ (m = Newest + 1 /\ Newest' = m)
        PROVE  Recent'
    <2>1. /\ trades \in Seq(Nat) /\ Len(trades) <= MaxRecent /\ Len(trades) \in Nat
          /\ stored \in Nat /\ Len(trades) = Min({stored, MaxRecent})
          /\ Newest \in Nat /\ Newest' \in Nat /\ RunsTo(trades, Newest)
      BY <1>2, NewestIs, LenProperties DEF IInv, Types, Recent
    <2>2. RunsTo(trades', Newest')
      BY <1>2, <2>1, RunGrows
    <2>3. Len(trades') = IF Len(trades) < MaxRecent THEN Len(trades) + 1 ELSE MaxRecent
      BY <1>2, <2>1, Prepended
    <2>4. Len(trades) = IF stored <= MaxRecent THEN stored ELSE MaxRecent
      BY <2>1, MinOfTwo, FeedAssumption
    <2>5. Min({stored', MaxRecent}) = IF stored' <= MaxRecent THEN stored' ELSE MaxRecent
      BY <1>2, <2>1, MinOfTwo, FeedAssumption
    <2>6. Len(trades') = Min({stored', MaxRecent}) /\ stored' \in Nat
      BY <1>2, <2>1, <2>3, <2>4, <2>5, FeedAssumption
    <2> QED BY <2>2, <2>6 DEF Recent
  <1>3. ASSUME NEW k \in Callers, EngineCall(k) PROVE Recent'
    <2>1. \A l \in Callers : stage'[l] = "stored" <=> stage[l] = "stored"
      BY <1>3 DEF EngineCall, IInv, Types
    <2>2. UNCHANGED <<trades, stored>> /\ sent' = sent
      BY <1>3 DEF EngineCall
    <2> QED BY <1>1, <2>1, <2>2 DEF Newest
  <1>4. ASSUME NEW k \in Callers, StoreTrade(k) PROVE Recent'
    <2>1. stage[k] = "locked" /\ pending[k] # <<>> /\ mu = k /\ pending[k] \in Seq(Nat)
      BY <1>4 DEF StoreTrade, IInv, Types, Publishing
    <2>2. Head(pending[k]) = sent + 1 /\ sent + 1 \in Nat
      BY <2>1 DEF IInv, Types, Publishing
    <2>3. stage'[k] = "stored" /\ sent' = sent
      BY <1>4 DEF StoreTrade, IInv, Types
    <2>4. Newest = sent /\ Newest' = sent + 1
      BY <2>1, <2>3, NewestIs DEF Newest
    <2> QED BY <1>2, <1>4, <2>2, <2>4 DEF StoreTrade
  <1>5. ASSUME NEW k \in Callers, SendTrade(k) PROVE Recent'
    <2>1. /\ stage[k] = "stored" /\ sent' = sent + 1 /\ UNCHANGED <<trades, stored>>
          /\ stage' = [stage EXCEPT ![k] = "locked"]
      BY <1>5 DEF SendTrade
    <2>2. \A l \in Callers : stage'[l] # "stored"
      BY <2>1 DEF IInv, Types, Publishing
    <2>3. Newest = sent + 1 /\ Newest' = sent + 1
      BY <2>1, <2>2 DEF Newest
    <2> QED BY <1>1, <2>1, <2>3
  <1>6. ASSUME NEW k \in Callers, Return(k) PROVE Recent'
    <2>1. \A l \in Callers : stage'[l] = "stored" <=> stage[l] = "stored"
      BY <1>6 DEF Return, IInv, Types
    <2>2. UNCHANGED <<trades, stored>> /\ sent' = sent
      BY <1>6 DEF Return
    <2> QED BY <1>1, <2>1, <2>2 DEF Newest
  <1>7. CASE StoreSeed
    <2>1. trades' = PrependTrade(0) /\ stored' = stored + 1 /\ UNCHANGED <<stage, sent>>
      BY <1>7 DEF StoreSeed
    <2>2. Newest' = Newest
      BY <2>1 DEF Newest
    <2> QED BY <1>2, <2>1, <2>2
  <1>8. ASSUME UNCHANGED <<trades, stored, stage, sent>> PROVE Recent'
    BY <1>1, <1>8 DEF Newest
  <1>9. CASE ReadSnapshot \/ \E v \in 0..MaxCalls : SendSnapshot(v)
    BY <1>8, <1>9 DEF ReadSnapshot, SendSnapshot
  <1>10. CASE StartSeed \/ SendSeed
    BY <1>8, <1>10 DEF StartSeed, SendSeed
  <1>11. ASSUME NEW c \in BookClients, BookHandler(c) PROVE Recent'
    BY <1>8, <1>11 DEF BookHandler, ConnectBook, HandlerSnapshot, HandlerBroadcast, Tick, ShowBook,
           DisconnectBook
  <1>12. ASSUME NEW c \in TradeClients, TradeHandler(c) PROVE Recent'
    BY <1>8, <1>12 DEF TradeHandler, ConnectTrades, RecentTradesPayload, WriteInitial, ShowTrade,
           DisconnectTrades
  <1>13. CASE UNCHANGED vars
    BY <1>8, <1>13 DEF vars
  <1> QED BY <1>3, <1>4, <1>5, <1>6, <1>7, <1>9, <1>10, <1>11, <1>12, <1>13 DEF Next, Publish

LEMMA InitRecent == Init => Recent
  <1> SUFFICES ASSUME Init PROVE Recent
    OBVIOUS
  <1>1. stored = 0 /\ trades = <<>> /\ Newest = 0
    BY DEF Init, Newest
  <1>2. Min({stored, MaxRecent}) = 0
    BY <1>1, MinOfTwo, FeedAssumption
  <1>3. Executions(trades) = 1..0
    BY <1>1 DEF Executions, ToSet
  <1>4. RunsTo(trades, Newest)
    BY <1>1, <1>3 DEF RunsTo
  <1> QED BY <1>1, <1>2, <1>4 DEF Recent

\* Between engine calls the list of recent trades is the newest of them, newest
\* first and without a gap, for any number of callers, seed ticks and readers:
\* BroadcastTrade runs under s.mu, and the list is cut at its old end only.
THEOREM ListIsRecent == Spec => []StoreIsRecent
  <1> DEFINE Inv == IInv /\ Recent
  <1>1. Init => Inv
    BY InitHolds, InitRecent
  <1>2. Inv /\ [Next]_vars => Inv'
    BY NextKeeps, RecentNext
  <1>3. Inv => StoreIsRecent
    BY NewestIs DEF Recent, RunsTo, StoreIsRecent
  <1> QED BY <1>1, <1>2, <1>3, PTL DEF Spec

-----------------------------------------------------------------------------
(* The initial list and the stream.                                        *)

\* At most one seed tick is ever stored, so a list of two holds a trade if any
\* trade was stored.
OneSeed ==
    /\ seed = "store" => \A i \in DOMAIN trades : trades[i] # 0
    /\ \A i, j \in DOMAIN trades : trades[i] = 0 /\ trades[j] = 0 => i = j
    /\ Newest > 0 => Executions(trades) # {}

First(c) == IF Executions(initial[c]) = {} THEN 1 ELSE Min(Executions(initial[c]))
Seen(c)  == Executions(initial[c]) \cup ToSet(got[c]) \cup ToSet(chan[c])

\* From the oldest trade of the list that a handler took on, nothing is missing.
Unbroken ==
    \A c \in TradeClients :
        conn[c] \in {"write", "loop"} /\ c \notin skipped => First(c)..sent \subseteq Seen(c)

Connections ==
    /\ conn \in [Clients -> {"off", "snapshot", "broadcast", "initial", "write", "loop"}]
    /\ initial \in [TradeClients -> Seq(Nat)]

StreamInv == IInv /\ Recent /\ OneSeed /\ Connections /\ Unbroken

LEMMA MinOfInterval ==
    ASSUME NEW a \in Nat, NEW b \in Nat, a <= b
    PROVE  Min(a..b) = a
  <1>1. \A x \in a..b : (\A y \in a..b : x =< y) <=> x = a
    OBVIOUS
  <1>2. a \in a..b
    OBVIOUS
  <1> QED BY <1>1, <1>2 DEF Min

LEMMA AppendedSet ==
    ASSUME NEW s \in Seq(Nat), NEW m \in Nat
    PROVE  ToSet(Append(s, m)) = ToSet(s) \cup {m}
  <1>1. /\ DOMAIN s = 1..Len(s) /\ Len(s) \in Nat /\ DOMAIN Append(s, m) = 1..(Len(s) + 1)
        /\ \A i \in 1..Len(s) : Append(s, m)[i] = s[i]
        /\ Append(s, m)[Len(s) + 1] = m
    OBVIOUS
  <1>2. ToSet(Append(s, m)) \subseteq ToSet(s) \cup {m}
    BY <1>1 DEF ToSet
  <1>3. ToSet(s) \subseteq ToSet(Append(s, m))
    <2>1. \A i \in 1..Len(s) : i \in 1..(Len(s) + 1)
      BY <1>1
    <2> QED BY <1>1, <2>1, Zenon DEF ToSet
  <1>4. m \in ToSet(Append(s, m))
    <2>1. Len(s) + 1 \in 1..(Len(s) + 1)
      BY <1>1
    <2> QED BY <1>1, <2>1, Zenon DEF ToSet
  <1> QED BY <1>2, <1>3, <1>4

\* A broadcast reaches every subscribed client that does not lose it.
LEMMA BroadcastReaches ==
    ASSUME Types, NEW cs \in SUBSET Clients, NEW m \in Nat, Broadcast(cs, m), NEW c \in cs,
           conn[c] # "off", c \notin skipped'
    PROVE  chan'[c] = Append(chan[c], m) /\ c \notin skipped
  <1> DEFINE to   == {d \in cs : Subscribed(d)}
             full == {d \in to : Len(chan[d]) >= Buffer}
  <1>1. /\ chan' = [d \in Clients |-> IF d \in to \ full THEN Append(chan[d], m) ELSE chan[d]]
        /\ skipped' = skipped \cup full
    BY DEF Broadcast
  <1>2. c \in to
    BY DEF Subscribed
  <1> QED BY <1>1, <1>2

\* The other broadcasts only add to what a client sees, and to who lost something.
LEMMA BroadcastGrows ==
    ASSUME Types, NEW cs \in SUBSET Clients, NEW m \in Nat, Broadcast(cs, m), NEW c \in Clients
    PROVE  ToSet(chan[c]) \subseteq ToSet(chan'[c]) /\ (c \notin skipped' => c \notin skipped)
  <1>1. chan'[c] = chan[c] \/ chan'[c] = Append(chan[c], m)
    BY BroadcastAdds
  <1>2. chan[c] \in Seq(Nat)
    BY DEF Types
  <1>3. ToSet(chan[c]) \subseteq ToSet(Append(chan[c], m))
    BY <1>2, AppendedSet
  <1>4. skipped \subseteq skipped'
    BY DEF Broadcast
  <1> QED BY <1>1, <1>3, <1>4

LEMMA OneSeedNext ==
    ASSUME IInv, IInv', Recent, OneSeed, MaxRecent > 1, [Next]_vars
    PROVE  OneSeed'
  <1> USE DEF callVars, bookVars, tradeVars, clientVars
  <1>1. ASSUME UNCHANGED trades, Newest' = Newest, seed' = seed \/ seed' = "off"
        PROVE  OneSeed'
    BY <1>1 DEF OneSeed, Executions
  <1>2. ASSUME NEW m \in Nat, trades' = PrependTrade(m),
               \/ m = 0 /\ Newest' = Newest /\ seed = "store" /\ seed' = "send"
               \/ m # 0 /\ UNCHANGED seed
        PROVE  OneSeed'
    <2> DEFINE L == Len(trades)
               n == Len(trades')
    <2>1. trades \in Seq(Nat) /\ L <= MaxRecent
      BY DEF IInv, Types
    <2>2. /\ DOMAIN trades' = 1..n /\ DOMAIN trades = 1..L /\ L \in Nat
          /\ n = IF L < MaxRecent THEN L + 1 ELSE MaxRecent
          /\ \A i \in 1..n : trades'[i] = IF i = 1 THEN m ELSE trades[i - 1]
      BY <1>2, <2>1, Prepended, LenProperties
    <2>3. n \in Nat /\ n > 0 /\ n <= L + 1 /\ (L > 0 => n > 1)
      BY <2>1, <2>2, FeedAssumption
    <2> HIDE DEF L, n
    <2>4. \A i \in 1..n : i # 1 => i - 1 \in 1..L
      BY <2>2, <2>3
    <2>5. seed' = "store" => \A i \in 1..n : trades'[i] # 0
      BY <1>2, <2>2, <2>4 DEF OneSeed
    <2>6. \A i, j \in 1..n : trades'[i] = 0 /\ trades'[j] = 0 => i = j
      <3> SUFFICES ASSUME NEW i \in 1..n, NEW j \in 1..n, trades'[i] = 0, trades'[j] = 0
                   PROVE  i = j
        OBVIOUS
      <3>1. CASE m = 0
        <4>1. \A h \in 1..L : trades[h] # 0
          BY <1>2, <2>2, <3>1 DEF OneSeed
        <4>2. \A h \in 1..n : h # 1 => trades'[h] # 0
          BY <2>2, <2>4, <4>1
        <4> QED BY <4>2
      <3>2. CASE m # 0
        <4>1. i # 1 /\ j # 1
          BY <2>2, <3>2
        <4>2. i - 1 \in 1..L /\ trades[i - 1] = 0 /\ j - 1 \in 1..L /\ trades[j - 1] = 0
          BY <2>2, <2>4, <4>1
        <4>3. i - 1 = j - 1
          BY <2>2, <4>2 DEF OneSeed
        <4> QED BY <4>3
      <3> QED BY <3>1, <3>2
    <2>7. Newest' > 0 => Executions(trades') # {}
      <3>1. CASE m # 0
        <4>1. trades'[1] = m /\ 1 \in DOMAIN trades'
          BY <2>2, <2>3
        <4>2. m \in Executions(trades')
          BY <3>1, <4>1 DEF Executions, ToSet
        <4> QED BY <4>2
      <3>2. CASE m = 0 /\ Newest' > 0
        <4>1. Executions(trades) # {} /\ \A i \in 1..L : trades[i] # 0
          BY <1>2, <2>2, <3>2 DEF OneSeed
        <4>2. L > 0
          <5>1. PICK x : x \in ToSet(trades)
            BY <4>1 DEF Executions
          <5> QED BY <2>2, <5>1 DEF ToSet
        <4>3. 2 \in 1..n /\ 1 \in 1..L
          BY <2>2, <2>3, <4>2
        <4>4. trades'[2] = trades[1]
          BY <2>2, <4>3
        <4>5. trades[1] \in Executions(trades')
          BY <2>2, <4>1, <4>3, <4>4 DEF Executions, ToSet
        <4> QED BY <4>5
      <3> QED BY <3>1, <3>2
    <2> QED BY <2>2, <2>5, <2>6, <2>7 DEF OneSeed
  <1>3. ASSUME NEW k \in Callers, EngineCall(k) \/ Return(k) PROVE OneSeed'
    <2>1. \A l \in Callers : stage'[l] = "stored" <=> stage[l] = "stored"
      BY <1>3 DEF EngineCall, Return, IInv, Types
    <2>2. UNCHANGED <<trades, seed, sent>>
      BY <1>3 DEF EngineCall, Return
    <2> QED BY <1>1, <2>1, <2>2 DEF Newest
  <1>4. ASSUME NEW k \in Callers, StoreTrade(k) PROVE OneSeed'
    <2>1. stage[k] = "locked" /\ pending[k] # <<>> /\ mu = k /\ pending[k] \in Seq(Nat)
      BY <1>4 DEF StoreTrade, IInv, Types, Publishing
    <2>2. Head(pending[k]) = sent + 1 /\ sent + 1 \in Nat /\ sent + 1 # 0
      BY <2>1 DEF IInv, Types, Publishing
    <2> QED BY <1>2, <1>4, <2>2 DEF StoreTrade
  <1>5. ASSUME NEW k \in Callers, SendTrade(k) PROVE OneSeed'
    <2>1. /\ stage[k] = "stored" /\ sent' = sent + 1 /\ UNCHANGED <<trades, seed>>
          /\ stage' = [stage EXCEPT ![k] = "locked"]
      BY <1>5 DEF SendTrade
    <2>2. \A l \in Callers : stage'[l] # "stored"
      BY <2>1 DEF IInv, Types, Publishing
    <2>3. Newest = sent + 1 /\ Newest' = sent + 1
      BY <2>1, <2>2 DEF Newest
    <2> QED BY <1>1, <2>1, <2>3
  <1>6. CASE StoreSeed
    <2>1. trades' = PrependTrade(0) /\ seed = "store" /\ seed' = "send" /\ UNCHANGED <<stage, sent>>
      BY <1>6 DEF StoreSeed
    <2>2. Newest' = Newest
      BY <2>1 DEF Newest
    <2> QED BY <1>2, <2>1, <2>2
  <1>7. CASE StartSeed
    <2>1. trades = <<>> /\ UNCHANGED <<trades, stage, sent>>
      BY <1>7 DEF StartSeed
    <2>2. Newest' = Newest
      BY <2>1 DEF Newest
    <2> QED BY <2>1, <2>2 DEF OneSeed, Executions
  <1>8. ASSUME UNCHANGED <<trades, stage, sent>>, seed' = seed \/ seed' = "off" PROVE OneSeed'
    BY <1>1, <1>8 DEF Newest
  <1>9. CASE ReadSnapshot \/ \E v \in 0..MaxCalls : SendSnapshot(v)
    BY <1>8, <1>9 DEF ReadSnapshot, SendSnapshot
  <1>10. CASE SendSeed
    BY <1>8, <1>10 DEF SendSeed
  <1>11. ASSUME NEW c \in BookClients, BookHandler(c) PROVE OneSeed'
    BY <1>8, <1>11 DEF BookHandler, ConnectBook, HandlerSnapshot, HandlerBroadcast, Tick, ShowBook,
           DisconnectBook
  <1>12. ASSUME NEW c \in TradeClients, TradeHandler(c) PROVE OneSeed'
    BY <1>8, <1>12 DEF TradeHandler, ConnectTrades, RecentTradesPayload, WriteInitial, ShowTrade,
           DisconnectTrades
  <1>13. CASE UNCHANGED vars
    BY <1>8, <1>13 DEF vars
  <1> QED BY <1>3, <1>4, <1>5, <1>6, <1>7, <1>9, <1>10, <1>11, <1>12, <1>13 DEF Next, Publish

LEMMA ConnectionsNext ==
    ASSUME Connections, IInv, [Next]_vars
    PROVE  Connections'
  <1> USE DEF callVars, bookVars, tradeVars, clientVars
  <1>1. ASSUME UNCHANGED <<conn, initial>> PROVE Connections'
    BY <1>1 DEF Connections
  <1>2. ASSUME NEW k \in Callers, EngineCall(k) \/ Publish(k) PROVE Connections'
    BY <1>1, <1>2 DEF EngineCall, Publish, StoreTrade, SendTrade, Return
  <1>3. CASE \/ ReadSnapshot \/ \E v \in 0..MaxCalls : SendSnapshot(v)
             \/ StartSeed \/ StoreSeed \/ SendSeed
    BY <1>1, <1>3 DEF ReadSnapshot, SendSnapshot, StartSeed, StoreSeed, SendSeed
  <1>4. ASSUME NEW c \in BookClients, BookHandler(c) PROVE Connections'
    <2>1. UNCHANGED initial
      BY <1>4 DEF BookHandler, ConnectBook, HandlerSnapshot, HandlerBroadcast, Tick, ShowBook,
             DisconnectBook
    <2>2. \/ UNCHANGED conn
          \/ \E v \in {"off", "snapshot", "broadcast", "loop"} : conn' = [conn EXCEPT ![c] = v]
      BY <1>4 DEF BookHandler, ConnectBook, HandlerSnapshot, HandlerBroadcast, Tick, ShowBook,
             DisconnectBook
    <2> QED BY <2>1, <2>2 DEF Connections
  <1>5. ASSUME NEW c \in TradeClients, TradeHandler(c) PROVE Connections'
    <2>1. \/ UNCHANGED conn
          \/ \E v \in {"off", "initial", "write", "loop"} : conn' = [conn EXCEPT ![c] = v]
      BY <1>5 DEF TradeHandler, ConnectTrades, RecentTradesPayload, WriteInitial, ShowTrade,
             DisconnectTrades
    <2>2. \/ UNCHANGED initial
          \/ initial' = [initial EXCEPT ![c] = trades]
          \/ initial' = [initial EXCEPT ![c] = <<>>]
      BY <1>5 DEF TradeHandler, ConnectTrades, RecentTradesPayload, WriteInitial, ShowTrade,
             DisconnectTrades
    <2>3. trades \in Seq(Nat) /\ <<>> \in Seq(Nat)
      BY DEF IInv, Types
    <2> QED BY <2>1, <2>2, <2>3 DEF Connections
  <1>6. CASE UNCHANGED vars
    BY <1>1, <1>6 DEF vars
  <1> QED BY <1>2, <1>3, <1>4, <1>5, <1>6 DEF Next

\* The list a handler takes on reaches the last trade that was sent.
LEMMA ListCovers ==
    ASSUME IInv, Recent, OneSeed
    PROVE  (IF Executions(trades) = {} THEN 1 ELSE Min(Executions(trades)))..sent
             \subseteq Executions(trades)
  <1>1. Newest \in {sent, sent + 1} /\ sent \in Nat
    BY NewestIs DEF IInv, Types
  <1>2. CASE Executions(trades) = {}
    BY <1>1, <1>2 DEF OneSeed
  <1>3. CASE Executions(trades) # {}
    <2>1. PICK oldest \in 1..(Newest + 1) : Executions(trades) = oldest..Newest
      BY DEF Recent, RunsTo
    <2>2. oldest \in Nat /\ oldest <= Newest /\ Newest \in Nat
      BY <1>1, <1>3, <2>1
    <2>3. Min(Executions(trades)) = oldest
      BY <2>1, <2>2, MinOfInterval
    <2> QED BY <1>1, <1>3, <2>1, <2>2, <2>3
  <1> QED BY <1>2, <1>3

LEMMA UnbrokenNext ==
    ASSUME StreamInv, IInv', [Next]_vars
    PROVE  Unbroken'
  <1> USE DEF callVars, bookVars, tradeVars, clientVars
  <1> DEFINE Holds(c) == conn[c] \in {"write", "loop"} /\ c \notin skipped
                           => First(c)..sent \subseteq Seen(c)
  <1>1. \A c \in TradeClients : Holds(c)
    BY DEF StreamInv, Unbroken
  <1>2. Types /\ Connections
    BY DEF StreamInv, IInv
  \* One client: the rest of the state may change in what it does not see.
  <1>3. ASSUME NEW c \in TradeClients, UNCHANGED sent, initial'[c] = initial[c], got'[c] = got[c],
               ToSet(chan[c]) \subseteq ToSet(chan'[c]), conn'[c] = conn[c],
               c \notin skipped' => c \notin skipped
        PROVE  Holds(c)'
    <2>1. Executions(initial'[c]) = Executions(initial[c])
      BY <1>3 DEF Executions
    <2>2. First(c)' = First(c) /\ Seen(c) \subseteq Seen(c)'
      BY <1>3, <2>1 DEF First, Seen
    <2> QED BY <1>1, <1>3, <2>2
  <1>4. ASSUME UNCHANGED <<sent, conn, initial, got, chan, skipped>> PROVE Unbroken'
    BY <1>3, <1>4 DEF Unbroken
  <1>5. ASSUME NEW k \in Callers, EngineCall(k) \/ StoreTrade(k) \/ Return(k) PROVE Unbroken'
    BY <1>4, <1>5 DEF EngineCall, StoreTrade, Return
  <1>6. ASSUME NEW k \in Callers, SendTrade(k) PROVE Unbroken'
    <2> DEFINE m == Head(pending[k])
    <2>1. /\ stage[k] = "stored" /\ Broadcast(TradeClients, m) /\ sent' = sent + 1
          /\ UNCHANGED <<initial, got, conn>>
      BY <1>6 DEF SendTrade
    <2>2. m = sent + 1 /\ m \in Nat /\ sent \in Nat
      BY <2>1 DEF StreamInv, IInv, Types, Publishing
    <2> HIDE DEF m
    <2>3. ASSUME NEW c \in TradeClients, conn'[c] \in {"write", "loop"}, c \notin skipped'
          PROVE  First(c)'..sent' \subseteq Seen(c)'
      <3>1. /\ TradeClients \in SUBSET Clients /\ conn[c] # "off"
            /\ conn[c] \in {"write", "loop"}
        BY <2>1, <2>3 DEF Clients
      <3>2. chan'[c] = Append(chan[c], m) /\ c \notin skipped
        BY <1>2, <2>1, <2>2, <2>3, <3>1, BroadcastReaches
      <3>3. First(c)..sent \subseteq Seen(c)
        BY <1>1, <3>1, <3>2
      <3>4. chan[c] \in Seq(Nat)
        BY <1>2 DEF Types, Clients
      <3>5. m \in ToSet(Append(chan[c], m)) /\ ToSet(chan[c]) \subseteq ToSet(Append(chan[c], m))
        BY <2>2, <3>4, AppendedSet
      <3>6. First(c)' = First(c) /\ Seen(c) \cup {m} \subseteq Seen(c)'
        BY <2>1, <3>2, <3>5 DEF First, Seen, Executions
      <3>7. ASSUME NEW x \in First(c)'..sent' PROVE x = m \/ x \in First(c)..sent
        BY <2>1, <2>2, <3>6, <3>7
      <3> QED BY <3>3, <3>6, <3>7
    <2> QED BY <2>3 DEF Unbroken
  <1>7. CASE StartSeed \/ StoreSeed \/ ReadSnapshot
    BY <1>4, <1>7 DEF StartSeed, StoreSeed, ReadSnapshot
  <1>8. ASSUME NEW cs \in SUBSET Clients, NEW m \in Nat, Broadcast(cs, m),
               UNCHANGED <<sent, initial, got>>, \A c \in TradeClients : conn'[c] = conn[c]
        PROVE  Unbroken'
    <2>1. \A c \in TradeClients :
            ToSet(chan[c]) \subseteq ToSet(chan'[c]) /\ (c \notin skipped' => c \notin skipped)
      BY <1>2, <1>8, BroadcastGrows DEF Clients
    <2> QED BY <1>3, <1>8, <2>1 DEF Unbroken
  <1>9. CASE SendSeed \/ \E v \in 0..MaxCalls : SendSnapshot(v)
    <2>1. TradeClients \in SUBSET Clients /\ BookClients \in SUBSET Clients
      BY DEF Clients
    <2> QED BY <1>8, <1>9, <2>1, FeedAssumption DEF SendSeed, SendSnapshot
  <1>10. ASSUME NEW b \in BookClients, BookHandler(b) PROVE Unbroken'
    <2>1. b \in Clients /\ b \notin TradeClients /\ held[b] \in Nat /\ BookClients \in SUBSET Clients
      BY <1>2, FeedAssumption DEF Clients, Types
    <2>2. UNCHANGED <<sent, initial, got>>
      BY <1>10 DEF BookHandler, ConnectBook, HandlerSnapshot, HandlerBroadcast, Tick, ShowBook,
             DisconnectBook
    <2>3. \A c \in TradeClients : conn'[c] = conn[c]
      BY <1>2, <1>10, <2>1 DEF BookHandler, ConnectBook, HandlerSnapshot, HandlerBroadcast, Tick,
             ShowBook, DisconnectBook, Connections, Clients
    <2>4. CASE HandlerBroadcast(b)
      BY <1>8, <2>1, <2>2, <2>3, <2>4 DEF HandlerBroadcast
    <2>5. CASE ~ HandlerBroadcast(b)
      <3>1. \A c \in TradeClients : chan'[c] = chan[c] /\ (c \notin skipped' => c \notin skipped)
        BY <1>2, <1>10, <2>1, <2>5 DEF BookHandler, ConnectBook, HandlerSnapshot, Tick, ShowBook,
               DisconnectBook, Types, Clients
      <3> QED BY <1>3, <2>2, <2>3, <3>1 DEF Unbroken
    <2> QED BY <2>4, <2>5
  <1>11. ASSUME NEW d \in TradeClients, TradeHandler(d) PROVE Unbroken'
    <2>1. UNCHANGED sent /\ d \in Clients
      BY <1>11 DEF TradeHandler, ConnectTrades, RecentTradesPayload, WriteInitial, ShowTrade,
             DisconnectTrades, Clients
    <2>2. \A c \in TradeClients \ {d} :
            /\ conn'[c] = conn[c] /\ chan'[c] = chan[c] /\ initial'[c] = initial[c]
            /\ got'[c] = got[c] /\ (c \notin skipped' => c \notin skipped)
      BY <1>2, <1>11 DEF TradeHandler, ConnectTrades, RecentTradesPayload, WriteInitial, ShowTrade,
             DisconnectTrades, Types, Connections, Clients
    <2>3. \A c \in TradeClients \ {d} : Holds(c)'
      BY <1>3, <2>1, <2>2
    <2>4. CASE ConnectTrades(d) \/ DisconnectTrades(d)
      <3>1. conn'[d] \notin {"write", "loop"}
        BY <1>2, <2>1, <2>4 DEF ConnectTrades, DisconnectTrades, Connections
      <3> QED BY <2>3, <3>1 DEF Unbroken
    <2>5. CASE WriteInitial(d)
      <3>1. conn[d] = "write" /\ UNCHANGED <<initial, got, chan, skipped>>
        BY <2>5 DEF WriteInitial
      <3>2. First(d)' = First(d) /\ Seen(d)' = Seen(d)
        BY <3>1 DEF First, Seen, Executions
      <3>3. Holds(d)'
        BY <1>1, <2>1, <3>1, <3>2
      <3> QED BY <2>3, <3>3 DEF Unbroken
    <2>6. CASE RecentTradesPayload(d)
      <3>1. initial'[d] = trades
        BY <1>2, <2>6 DEF RecentTradesPayload, Connections
      <3>2. /\ First(d)' = IF Executions(trades) = {} THEN 1 ELSE Min(Executions(trades))
            /\ Executions(trades) \subseteq Seen(d)'
        BY <3>1 DEF First, Seen, Executions
      <3>3. First(d)'..sent \subseteq Seen(d)'
        BY <3>2, ListCovers DEF StreamInv
      <3> QED BY <2>1, <2>3, <3>3 DEF Unbroken
    <2>7. CASE ShowTrade(d)
      <3>1. /\ conn[d] = "loop" /\ chan[d] # <<>> /\ UNCHANGED <<initial, conn, skipped>>
            /\ got'[d] = Append(got[d], Head(chan[d])) /\ chan'[d] = Tail(chan[d])
            /\ chan[d] \in Seq(Nat) /\ got[d] \in Seq(Nat)
        BY <1>2, <2>1, <2>7 DEF ShowTrade, Types
      <3>2. ToSet(chan[d]) \subseteq ToSet(Tail(chan[d])) \cup {Head(chan[d])}
        <4> SUFFICES ASSUME NEW i \in DOMAIN chan[d]
                     PROVE  chan[d][i] \in ToSet(Tail(chan[d])) \cup {Head(chan[d])}
          BY DEF ToSet
        <4>1. CASE i = 1
          BY <3>1, <4>1
        <4>2. CASE i # 1
          <5>1. i - 1 \in DOMAIN Tail(chan[d]) /\ Tail(chan[d])[i - 1] = chan[d][i]
            BY <3>1, <4>2
          <5> QED BY <5>1 DEF ToSet
        <4> QED BY <4>1, <4>2
      <3>3. ToSet(Append(got[d], Head(chan[d]))) = ToSet(got[d]) \cup {Head(chan[d])}
        BY <3>1, HeadTailProperties, AppendedSet
      <3>4. First(d)' = First(d) /\ Seen(d) \subseteq Seen(d)'
        BY <3>1, <3>2, <3>3 DEF First, Seen, Executions
      <3>5. Holds(d)'
        BY <1>1, <2>1, <3>1, <3>4
      <3> QED BY <2>3, <3>5 DEF Unbroken
    <2> QED BY <1>11, <2>4, <2>5, <2>6, <2>7 DEF TradeHandler
  <1>12. CASE UNCHANGED vars
    BY <1>4, <1>12 DEF vars
  <1> QED BY <1>5, <1>6, <1>7, <1>9, <1>10, <1>11, <1>12 DEF Next, Publish

\* A trade page has no gap between the list it is given and the stream after it:
\* SseTradesHandler subscribes before it reads the list, and a list that holds
\* two ticks or more holds a trade as soon as one was stored.
THEOREM NoGap ==
    ASSUME MaxRecent > 1
    PROVE  Spec => []NoTradeMissed
  <1>1. Init => StreamInv
    <2> SUFFICES ASSUME Init PROVE StreamInv
      OBVIOUS
    <2>1. IInv /\ Recent
      BY InitHolds, InitRecent
    <2>2. OneSeed
      BY DEF Init, OneSeed, Newest
    <2>3. Connections
      BY DEF Init, Connections
    <2>4. Unbroken
      BY DEF Init, Unbroken, Clients
    <2> QED BY <2>1, <2>2, <2>3, <2>4 DEF StreamInv
  <1>2. StreamInv /\ [Next]_vars => StreamInv'
    BY NextKeeps, RecentNext, OneSeedNext, ConnectionsNext, UnbrokenNext DEF StreamInv
  <1>3. StreamInv => NoTradeMissed
    BY DEF StreamInv, Unbroken, First, Seen, NoTradeMissed
  <1> QED BY <1>1, <1>2, <1>3, PTL DEF Spec

-----------------------------------------------------------------------------
(* The price list: its broker is one of its own, with its own browsers.    *)

\* The broker's mutex is held exactly while a broadcast walks over the clients.
Walking ==
    /\ locked <=> fetcher = "send"
    /\ locked \in BOOLEAN
    /\ todo \subseteq listeners
    /\ fetcher # "send" => todo = {}

LEMMA WalkingNext == Walking /\ [MarketNext]_marketVars => Walking'
  <1> SUFFICES ASSUME Walking, [MarketNext]_marketVars PROVE Walking'
    OBVIOUS
  <1> USE DEF Walking, fetching, browsing
  <1>1. ASSUME PricesMove \/ LookForClients \/ Answer \/ FetchFails
        PROVE  Walking'
    BY <1>1 DEF PricesMove, LookForClients, Answer, FetchFails,
                AfterError
  <1>2. CASE StartBroadcast
    BY <1>2 DEF StartBroadcast, BrokerFree
  <1>3. ASSUME NEW c \in Browsers, SendTo(c) PROVE Walking'
    BY <1>3 DEF SendTo
  <1>4. CASE EndBroadcast
    BY <1>4 DEF EndBroadcast
  <1>5. ASSUME NEW c \in Browsers,
               \/ AskPage(c) \/ RenderPage(c) \/ RenderWithoutData(c)
               \/ LeavePage(c) \/ ShowMarkets(c)
        PROVE  Walking'
    BY <1>5 DEF AskPage, RenderPage, RenderWithoutData, LeavePage,
                ShowMarkets
  <1>6. ASSUME NEW c \in Browsers, Connect(c) PROVE Walking'
    BY <1>6 DEF Connect
  <1>7. ASSUME NEW c \in Browsers, Disconnect(c) PROVE Walking'
    BY <1>7 DEF Disconnect, BrokerFree
  <1>8. CASE UNCHANGED marketVars
    BY <1>8 DEF marketVars
  <1> QED BY <1>1, <1>2, <1>3, <1>4, <1>5, <1>6, <1>7, <1>8 DEF MarketNext, Fetcher

\* Any number of browsers may come and go: whoever Broadcast has still to visit is
\* connected, so that no send meets a channel RemoveClient has closed.
THEOREM SendsToOpen == MarketSpec => []SendsOnlyToOpen
  <1>1. MarketInit => Walking
    BY DEF MarketInit, Walking
  <1>2. Walking => SendsOnlyToOpen
    BY DEF Walking, SendsOnlyToOpen
  <1> QED BY <1>1, <1>2, WalkingNext, PTL DEF MarketSpec
=============================================================================
