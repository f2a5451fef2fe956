---------------------------- MODULE MCLiquidity ----------------------------
(* Entry point of TLC for Liquidity. *)
EXTENDS Liquidity
=============================================================================
