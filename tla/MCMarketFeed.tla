---------------------------- MODULE MCMarketFeed ----------------------------
(* Instance of MarketFeed for TLC: two browsers, a buffer that can fill.   *)
EXTENDS MarketFeed
=============================================================================
