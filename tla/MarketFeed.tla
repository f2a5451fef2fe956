----------------------------- MODULE MarketFeed ------------------------------
(***************************************************************************)
(* The third-party price list: StartMarketFetcher of internal/service/     *)
(* sse.go asks for it while somebody listens and broadcasts it through     *)
(* PriceBroker, SseMarketHandler passes it on, and the pages of            *)
(* MarketsHandler, TradeHandler and OrdersHandler are rendered with a list *)
(* of their own, asked for with a time-out.  The fetcher's request has     *)
(* none.                                                                   *)
(*                                                                         *)
(* A list is known by the number of times the source has changed its       *)
(* prices.  Broadcast walks over b.clients one client at a time.           *)
(***************************************************************************)
EXTENDS Integers, Sequences

CONSTANTS Browsers,
          PriceBuffer, \* capacity of a client's channel: 5 in the code
          MaxQuotes    \* bound: changes of the prices

VARIABLES quotes,    \* the list the source holds
          fetcher,   \* look, ask, have, send: where StartMarketFetcher is, or gone
          list,      \* the list it has decoded
          todo,      \* clients its Broadcast has still to visit
          locked,    \* PriceBroker.mu is held by Broadcast
          page,      \* browser -> none, a page asked for, or what it has been given
          listeners, \* browsers with a channel in b.clients
          queues,    \* browser -> the channel
          prices     \* browser -> the list on its page, 0 for none

fetching   == <<fetcher, list, todo, locked>>
browsing   == <<page, listeners, queues, prices>>
marketVars == <<quotes, fetching, browsing>>

MarketInit ==
    /\ quotes = 1
    /\ fetcher = "look" /\ list = 0 /\ todo = {} /\ locked = FALSE
    /\ page = [c \in Browsers |-> "none"]
    /\ listeners = {}
    /\ queues = [c \in Browsers |-> <<>>]
    /\ prices = [c \in Browsers |-> 0]

\* Mutant: the broker has no mutex.
NoMutex == TRUE

BrokerFree == ~ locked

-----------------------------------------------------------------------------
(* The source, and StartMarketFetcher.                                     *)

PricesMove ==
    /\ quotes < MaxQuotes
    /\ quotes' = quotes + 1
    /\ UNCHANGED <<fetching, browsing>>

\* ClientCount; without clients the loop sleeps and looks again.
LookForClients ==
    /\ fetcher = "look" /\ BrokerFree
    /\ listeners # {}
    /\ fetcher' = "ask"
    /\ UNCHANGED <<quotes, list, todo, locked, browsing>>

Answer ==
    /\ fetcher = "ask"
    /\ fetcher' = "have" /\ list' = quotes
    /\ UNCHANGED <<quotes, todo, locked, browsing>>

\* Mutant: an error ends the loop.
GivesUp == "gone"

AfterError == "look"

\* No connection, or a body that is no list, such as that of a refusal.
FetchFails ==
    /\ fetcher = "ask"
    /\ fetcher' = AfterError
    /\ UNCHANGED <<quotes, list, todo, locked, browsing>>

StartBroadcast ==
    /\ fetcher = "have" /\ BrokerFree
    /\ fetcher' = "send" /\ todo' = listeners /\ locked' = TRUE
    /\ UNCHANGED <<quotes, list, browsing>>

\* The send has a default branch: a full client is skipped.
SendTo(c) ==
    /\ c \in todo
    /\ todo' = todo \ {c}
    /\ queues' = IF Len(queues[c]) < PriceBuffer THEN [queues EXCEPT ![c] = Append(@, list)] ELSE queues
    /\ UNCHANGED <<quotes, fetcher, list, locked, page, listeners, prices>>

EndBroadcast ==
    /\ fetcher = "send" /\ todo = {}
    /\ fetcher' = "look" /\ locked' = FALSE
    /\ UNCHANGED <<quotes, list, todo, browsing>>

-----------------------------------------------------------------------------
(* MarketsHandler, TradeHandler and OrdersHandler.                         *)

Asked == {"markets", "trade", "orders"}

\* A list that is kept up to date, one without rows, one that stays as it is (the
\* order page, whose profits are worked out once), or nothing at all.
Given == {"rows", "empty", "still", "blank"}

\* A browser asks, and the handler runs up to its request for prices.  On the trade
\* page that is after safeEnsureDemoLiquidity has waited for the liquidity manager
\* (StartEnsure and what follows in Liquidity), on the order page after the sync
\* (StartSync in Settlement); neither touches a price list, and how long they take is
\* how long the page stays asked.
AskPage(c) ==
    /\ page[c] = "none"
    /\ \E kind \in Asked : page' = [page EXCEPT ![c] = kind]
    /\ UNCHANGED <<quotes, fetching, listeners, queues, prices>>

\* fetchCoinMarket or FetchSymbolData answers.
RenderPage(c) ==
    /\ page[c] \in Asked
    /\ page' = [page EXCEPT ![c] = IF @ = "orders" THEN "still" ELSE "rows"]
    /\ prices' = [prices EXCEPT ![c] = quotes]
    /\ UNCHANGED <<quotes, fetching, listeners, queues>>

\* An error, a status that is not 2xx, an unknown symbol, or four seconds.  The
\* markets page is rendered without rows, the order page without prices, the trade
\* page not at all.
RenderWithoutData(c) ==
    /\ page[c] \in Asked
    /\ page' = [page EXCEPT ![c] = CASE @ = "markets" -> "empty"
                                       [] @ = "orders"  -> "still"
                                       [] OTHER         -> "blank"]
    /\ UNCHANGED <<quotes, fetching, listeners, queues, prices>>

-----------------------------------------------------------------------------
(* SseMarketHandler, and the script of the page.                           *)

\* An empty list is written first, which no page shows; then AddClient.
Connect(c) ==
    /\ page[c] \in {"rows", "empty"} /\ c \notin listeners
    /\ BrokerFree
    /\ listeners' = listeners \cup {c}
    /\ UNCHANGED <<quotes, fetching, page, queues, prices>>

\* The script only fills rows that the server has rendered.
ShowMarkets(c) ==
    /\ c \in listeners /\ queues[c] # <<>>
    /\ queues' = [queues EXCEPT ![c] = Tail(@)]
    /\ prices' = IF page[c] = "rows" THEN [prices EXCEPT ![c] = Head(queues[c])] ELSE prices
    /\ UNCHANGED <<quotes, fetching, page, listeners>>

\* The request is done or a write fails; the deferred RemoveClient runs.
Disconnect(c) ==
    /\ c \in listeners
    /\ BrokerFree
    /\ listeners' = listeners \ {c}
    /\ queues' = [queues EXCEPT ![c] = <<>>]
    /\ UNCHANGED <<quotes, fetching, page, prices>>

\* The browser goes elsewhere; its stream ends later.
LeavePage(c) ==
    /\ page[c] \in Given /\ c \notin listeners
    /\ page' = [page EXCEPT ![c] = "none"]
    /\ prices' = [prices EXCEPT ![c] = 0]
    /\ UNCHANGED <<quotes, fetching, listeners, queues>>

Fetcher == LookForClients \/ StartBroadcast \/ EndBroadcast \/ \E c \in Browsers : SendTo(c)

MarketNext ==
    \/ PricesMove \/ Fetcher \/ Answer \/ FetchFails
    \/ \E c \in Browsers :
         \/ AskPage(c) \/ RenderPage(c) \/ RenderWithoutData(c) \/ LeavePage(c)
         \/ Connect(c) \/ ShowMarkets(c) \/ Disconnect(c)

MarketSpec == MarketInit /\ [][MarketNext]_marketVars

\* Goroutines run; of the source nothing is assumed here, and of browsers only that a
\* handler drains its channel.
FairMarketSpec ==
    /\ MarketSpec
    /\ WF_marketVars(Fetcher)
    /\ \A c \in Browsers : WF_marketVars(ShowMarkets(c))

-----------------------------------------------------------------------------
(* Properties.                                                             *)

\* While a broadcast walks over b.clients no handler adds or closes a channel: a
\* send on a closed channel would panic in a goroutine nothing recovers.
SendsOnlyToOpen == fetcher = "send" => todo \subseteq listeners /\ locked

\* A page with rows that stays connected shows the current prices again and again,
\* if the source now and then answers what it is asked: failed requests, full
\* buffers and pauses without clients are made up for.
MarketsStayCurrent ==
    SF_marketVars(Answer) =>
        \A c \in Browsers :
            <>[](page[c] = "rows" /\ c \in listeners) => []<>(prices[c] = quotes)

=============================================================================
