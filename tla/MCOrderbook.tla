---------------------------- MODULE MCOrderbook ----------------------------
(* Orderbook for TLC.                                                       *)
EXTENDS Orderbook
=============================================================================
