---------------------------- MODULE MCPrecision -----------------------------
(* Instances of Precision for TLC, with narrow words.                      *)
EXTENDS Precision
=============================================================================
