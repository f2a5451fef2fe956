---------------------------- MODULE MCSettlement ----------------------------
(* Instances of Settlement for TLC: one user, few orders, coarse prices.   *)
EXTENDS Settlement

CONSTANTS t1, t2

\* Which handlers the user calls in which instance.
Everything   == [t \in Threads |-> {"deposit", "limit", "market", "cancel", "sync"}]
Investing    == [t \in Threads |-> {"deposit", "limit", "sync"}]
Withdrawing  == [t \in Threads |-> {"deposit", "withdraw", "limit"}]
TwoTabs      == [t \in Threads |-> IF t = t1 THEN {"deposit", "withdraw", "limit"}
                                             ELSE {"limit", "cancel", "sync"}]
=============================================================================
