-------------------------------- MODULE Feed --------------------------------
(***************************************************************************)
(* How book changes and trades reach the browsers: ExchangeServer of       *)
(* internal/service/grpc_ob.go publishes into the brokers of sse.go, which *)
(* the SSE handlers of cmd/exchange drain.                                 *)
(*                                                                         *)
(* An engine call holds s.mu while it stores and broadcasts each of its    *)
(* trades, and leaves a goroutine behind that reads a snapshot under s.mu  *)
(* and broadcasts it later, in any order with the others.  A broadcast     *)
(* never waits: a client whose buffer is full loses the message.           *)
(*                                                                         *)
(* A book is known by the number of calls that changed it, a trade by its  *)
(* place in the execution order; 0 is the tick DemoLiquidityManager seeds. *)
(***************************************************************************)
EXTENDS Integers, Sequences, SequencesExt

CONSTANTS Callers,       \* goroutines that place and cancel orders
          BookClients,   \* browsers on the order book stream
          TradeClients,  \* browsers on the trade stream
          Buffer,        \* capacity of a client's channel
          MaxRecent,     \* MaxRecentTrades
          MaxCalls,      \* bound: engine calls
          MaxTrades      \* bound: trades of one call

Clients == BookClients \cup TradeClients
NoOne   == "no one"

ASSUME FeedAssumption ==
    /\ NoOne \notin Callers
    /\ BookClients \cap TradeClients = {}
    /\ Buffer \in Nat /\ MaxRecent \in Nat /\ MaxCalls \in Nat /\ MaxTrades \in Nat

VARIABLES mu,       \* the caller that holds s.mu for writing, or NoOne
          version,  \* calls that changed the book
          stage,    \* caller -> idle, locked, stored
          pending,  \* caller -> the trades its call has still to publish
          ready,    \* goroutines about to read their snapshot
          carried,  \* version -> goroutines about to broadcast it
          trades,   \* tradeStore, newest first
          seed,     \* seedOneTradeTick: off, store, send
          conn,     \* client -> off, or where its handler is
          held,     \* book client -> the snapshot its handler broadcasts
          chan,     \* client -> its channel
          shown,    \* book client -> the snapshot the browser saw last
          executed, \* history: trades executed
          stored,   \* history: ticks stored
          sent,     \* history: trades broadcast
          initial,  \* history: trade client -> the list it was given first
          got,      \* history: trade client -> the trades it received since
          skipped   \* history: clients that lost a message

callVars   == <<mu, version, stage, pending, executed>>
bookVars   == <<ready, carried, held, shown>>
tradeVars  == <<trades, seed, stored, sent, initial, got>>
clientVars == <<conn, chan, skipped>>
vars == <<callVars, bookVars, tradeVars, clientVars>>

Init ==
    /\ mu = NoOne
    /\ version = 0
    /\ stage = [k \in Callers |-> "idle"]
    /\ pending = [k \in Callers |-> <<>>]
    /\ ready = 0
    /\ carried = [v \in 0..MaxCalls |-> 0]
    /\ trades = <<>>
    /\ seed = "off"
    /\ conn = [c \in Clients |-> "off"]
    /\ held = [c \in BookClients |-> 0]
    /\ chan = [c \in Clients |-> <<>>]
    /\ shown = [c \in BookClients |-> 0]
    /\ executed = 0
    /\ stored = 0
    /\ sent = 0
    /\ initial = [c \in TradeClients |-> <<>>]
    /\ got = [c \in TradeClients |-> <<>>]
    /\ skipped = {}

-----------------------------------------------------------------------------
(* Broker and tradeStore, each behind its own mutex.                       *)

\* Mutant: the channel is registered after the initial list was read.
SubscribedLate(c) == conn[c] = "loop"

\* AddClient has run and RemoveClient has not.
Subscribed(c) == conn[c] # "off"

Broadcast(cs, m) ==
    LET to   == {c \in cs : Subscribed(c)}
        full == {c \in to : Len(chan[c]) >= Buffer}
    IN  /\ chan' = [c \in Clients |-> IF c \in to \ full THEN Append(chan[c], m) ELSE chan[c]]
        /\ skipped' = skipped \cup full

\* Mutant: the list is never cut.
KeepAllTrades(m) == <<m>> \o trades

\* Mutant: the newest trade goes to the end, where the list is cut.
AppendTrade(m) == SubSeq(Append(trades, m), 1, Min({Len(trades) + 1, MaxRecent}))

PrependTrade(m) == SubSeq(<<m>> \o trades, 1, Min({Len(trades) + 1, MaxRecent}))

-----------------------------------------------------------------------------
(* ExchangeServer: one engine call.                                        *)

\* Mutant: a call does not take s.mu.
Unlocked == TRUE

CanLock == mu = NoOne

\* Lock s.mu, change the book, start the goroutine.
EngineCall(k) ==
    /\ stage[k] = "idle" /\ version < MaxCalls
    /\ CanLock
    /\ mu' = k
    /\ version' = version + 1
    /\ ready' = ready + 1
    /\ stage' = [stage EXCEPT ![k] = "locked"]
    /\ \E n \in 0..MaxTrades :
         /\ executed' = executed + n
         /\ pending' = [pending EXCEPT ![k] = [i \in 1..n |-> executed + i]]
    /\ UNCHANGED <<carried, held, shown, tradeVars, clientVars>>

\* BroadcastTrade, first half: into tradeStore.
StoreTrade(k) ==
    /\ stage[k] = "locked" /\ pending[k] # <<>>
    /\ trades' = PrependTrade(Head(pending[k]))
    /\ stored' = stored + 1
    /\ stage' = [stage EXCEPT ![k] = "stored"]
    /\ UNCHANGED <<mu, version, pending, executed, bookVars, seed, sent, initial, got, clientVars>>

\* Mutant: the channel send has no default branch.
BlockingSendTrade(k) ==
    /\ stage[k] = "stored"
    /\ \A c \in TradeClients : Subscribed(c) => Len(chan[c]) < Buffer
    /\ Broadcast(TradeClients, Head(pending[k]))
    /\ sent' = sent + 1
    /\ pending' = [pending EXCEPT ![k] = Tail(@)]
    /\ stage' = [stage EXCEPT ![k] = "locked"]
    /\ UNCHANGED <<mu, version, executed, bookVars, trades, seed, stored, initial, got, conn>>

\* BroadcastTrade, second half: to the trade clients.
SendTrade(k) ==
    /\ stage[k] = "stored"
    /\ Broadcast(TradeClients, Head(pending[k]))
    /\ sent' = sent + 1
    /\ pending' = [pending EXCEPT ![k] = Tail(@)]
    /\ stage' = [stage EXCEPT ![k] = "locked"]
    /\ UNCHANGED <<mu, version, executed, bookVars, trades, seed, stored, initial, got, conn>>

\* The deferred Unlock.
Return(k) ==
    /\ stage[k] = "locked" /\ pending[k] = <<>>
    /\ mu' = NoOne
    /\ stage' = [stage EXCEPT ![k] = "idle"]
    /\ UNCHANGED <<version, pending, executed, bookVars, tradeVars, clientVars>>

\* The goroutine of a call: StreamOrderBook, then Broadcast.
ReadSnapshot ==
    /\ ready > 0 /\ CanLock
    /\ ready' = ready - 1
    /\ carried' = [carried EXCEPT ![version] = @ + 1]
    /\ UNCHANGED <<callVars, held, shown, tradeVars, clientVars>>

SendSnapshot(v) ==
    /\ carried[v] > 0
    /\ carried' = [carried EXCEPT ![v] = @ - 1]
    /\ Broadcast(BookClients, v)
    /\ UNCHANGED <<callVars, ready, held, shown, tradeVars, conn>>

\* seedOneTradeTick: checked, stored and sent without s.mu.
StartSeed ==
    /\ seed = "off" /\ trades = <<>>
    /\ seed' = "store"
    /\ UNCHANGED <<callVars, bookVars, trades, stored, sent, initial, got, clientVars>>

StoreSeed ==
    /\ seed = "store"
    /\ trades' = PrependTrade(0)
    /\ stored' = stored + 1
    /\ seed' = "send"
    /\ UNCHANGED <<callVars, bookVars, sent, initial, got, clientVars>>

SendSeed ==
    /\ seed = "send"
    /\ Broadcast(TradeClients, 0)
    /\ seed' = "off"
    /\ UNCHANGED <<callVars, bookVars, trades, stored, sent, initial, got, conn>>

-----------------------------------------------------------------------------
(* The SSE handlers.                                                       *)

\* SseOrderBookHandler: AddClient, then a broadcast of its own ...
ConnectBook(c) ==
    /\ conn[c] = "off"
    /\ conn' = [conn EXCEPT ![c] = "snapshot"]
    /\ UNCHANGED <<callVars, bookVars, tradeVars, chan, skipped>>

HandlerSnapshot(c) ==
    /\ conn[c] = "snapshot" /\ CanLock
    /\ held' = [held EXCEPT ![c] = version]
    /\ conn' = [conn EXCEPT ![c] = "broadcast"]
    /\ UNCHANGED <<callVars, ready, carried, shown, tradeVars, chan, skipped>>

HandlerBroadcast(c) ==
    /\ conn[c] = "broadcast"
    /\ Broadcast(BookClients, held[c])
    /\ held' = [held EXCEPT ![c] = 0]
    /\ conn' = [conn EXCEPT ![c] = "loop"]
    /\ UNCHANGED <<callVars, ready, carried, shown, tradeVars>>

\* Mutant: the ticker only keeps the liquidity up.
TickPings(c) == FALSE /\ UNCHANGED vars

\* ... and another one at every tick.
Tick(c) ==
    /\ conn[c] = "loop"
    /\ conn' = [conn EXCEPT ![c] = "snapshot"]
    /\ UNCHANGED <<callVars, bookVars, tradeVars, chan, skipped>>

ShowBook(c) ==
    /\ conn[c] = "loop" /\ chan[c] # <<>>
    /\ shown' = [shown EXCEPT ![c] = Head(chan[c])]
    /\ chan' = [chan EXCEPT ![c] = Tail(@)]
    /\ UNCHANGED <<callVars, ready, carried, held, tradeVars, conn, skipped>>

\* SseTradesHandler: AddClient, then the recent trades, then the channel.
ConnectTrades(c) ==
    /\ conn[c] = "off"
    /\ conn' = [conn EXCEPT ![c] = "initial"]
    /\ UNCHANGED <<callVars, bookVars, tradeVars, chan, skipped>>

RecentTradesPayload(c) ==
    /\ conn[c] = "initial"
    /\ initial' = [initial EXCEPT ![c] = trades]
    /\ conn' = [conn EXCEPT ![c] = "write"]
    /\ UNCHANGED <<callVars, bookVars, trades, seed, stored, sent, got, chan, skipped>>

WriteInitial(c) ==
    /\ conn[c] = "write"
    /\ conn' = [conn EXCEPT ![c] = "loop"]
    /\ UNCHANGED <<callVars, bookVars, tradeVars, chan, skipped>>

ShowTrade(c) ==
    /\ conn[c] = "loop" /\ chan[c] # <<>>
    /\ got' = [got EXCEPT ![c] = Append(@, Head(chan[c]))]
    /\ chan' = [chan EXCEPT ![c] = Tail(@)]
    /\ UNCHANGED <<callVars, bookVars, trades, seed, stored, sent, initial, conn, skipped>>

\* The browser leaves; RemoveClient closes the channel.
DisconnectBook(c) ==
    /\ conn[c] = "loop"
    /\ conn' = [conn EXCEPT ![c] = "off"]
    /\ chan' = [chan EXCEPT ![c] = <<>>]
    /\ shown' = [shown EXCEPT ![c] = 0]
    /\ skipped' = skipped \ {c}
    /\ UNCHANGED <<callVars, ready, carried, held, tradeVars>>

DisconnectTrades(c) ==
    /\ conn[c] \in {"write", "loop"}
    /\ conn' = [conn EXCEPT ![c] = "off"]
    /\ chan' = [chan EXCEPT ![c] = <<>>]
    /\ initial' = [initial EXCEPT ![c] = <<>>]
    /\ got' = [got EXCEPT ![c] = <<>>]
    /\ skipped' = skipped \ {c}
    /\ UNCHANGED <<callVars, bookVars, trades, seed, stored, sent>>

Publish(k) == StoreTrade(k) \/ SendTrade(k) \/ Return(k)

BookHandler(c)  == ConnectBook(c) \/ HandlerSnapshot(c) \/ HandlerBroadcast(c) \/ Tick(c)
                     \/ ShowBook(c) \/ DisconnectBook(c)
TradeHandler(c) == ConnectTrades(c) \/ RecentTradesPayload(c) \/ WriteInitial(c)
                     \/ ShowTrade(c) \/ DisconnectTrades(c)

Next ==
    \/ \E k \in Callers : EngineCall(k) \/ Publish(k)
    \/ ReadSnapshot
    \/ \E v \in 0..MaxCalls : SendSnapshot(v)
    \/ StartSeed \/ StoreSeed \/ SendSeed
    \/ \E c \in BookClients : BookHandler(c)
    \/ \E c \in TradeClients : TradeHandler(c)

Spec == Init /\ [][Next]_vars

\* Goroutines are scheduled, tickers tick, and a select that finds both the
\* channel and the ticker ready takes each of them again and again.  Nothing
\* is assumed of trade clients: they may stop reading.
Fairness ==
    /\ \A k \in Callers : WF_vars(Publish(k))
    /\ SF_vars(ReadSnapshot)
    /\ \A v \in 0..MaxCalls : WF_vars(SendSnapshot(v))
    /\ \A c \in BookClients : /\ SF_vars(HandlerSnapshot(c))
                              /\ WF_vars(HandlerBroadcast(c))
                              /\ WF_vars(Tick(c))
                              /\ SF_vars(ShowBook(c))

FairSpec == Spec /\ Fairness

-----------------------------------------------------------------------------
(* Properties.                                                             *)

Executions(s) == ToSet(s) \ {0}

TypeOK ==
    /\ mu \in Callers \cup {NoOne}
    /\ version \in 0..MaxCalls
    /\ stage \in [Callers -> {"idle", "locked", "stored"}]
    /\ ready \in Nat
    /\ carried \in [0..MaxCalls -> Nat]
    /\ Len(trades) <= MaxRecent
    /\ \A c \in Clients : Len(chan[c]) <= Buffer

\* The trade list is the newest trades, newest first, as far as MaxRecent
\* reaches: concurrent calls never reorder it (BroadcastTrade runs under s.mu).
StoreIsRecent ==
    mu = NoOne =>
        /\ Len(trades) = Min({stored, MaxRecent})
        /\ \A i, j \in DOMAIN trades : i < j /\ trades[i] # 0 => trades[j] < trades[i]
        /\ \E oldest \in 1..(executed + 1) : Executions(trades) = oldest..executed

\* A trade client receives trades in the order the engine executed them, each of
\* them once, wherever a seed tick may fall between them.
TradesInOrder ==
    \A c \in TradeClients :
        LET s == got[c] \o chan[c]
        IN  \A i, j \in DOMAIN s : i < j /\ s[j] # 0 => s[i] < s[j]

\* A trade client that lost no message to a full buffer has, in its initial
\* list or after it, every trade from the oldest of that list on: subscribing
\* before reading the list leaves no gap (it may show a trade twice).
NoTradeMissed ==
    \A c \in TradeClients :
        (conn[c] = "loop" /\ c \notin skipped) =>
            LET list == Executions(initial[c])
                seen == list \cup ToSet(got[c]) \cup ToSet(chan[c])
            IN  (IF list = {} THEN 1 ELSE Min(list))..sent \subseteq seen

\* Every engine call returns and releases s.mu, however slowly clients read.
CallsReturn == \A k \in Callers : stage[k] # "idle" ~> stage[k] = "idle"

\* Snapshots are broadcast out of order and may be lost, but once the book
\* stays as it is a browser that stays connected sees it: the ticker repairs.
EventuallyCurrent ==
    \A c \in BookClients :
        <>[](conn[c] # "off") => []<>(shown[c] = version)
=============================================================================
