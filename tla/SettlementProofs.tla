--------------------------- MODULE SettlementProofs ---------------------------
(***************************************************************************)
(* Theorems about Settlement for any prices, sizes, orders and scale.      *)
(*                                                                         *)
(* StateOK, for any number of requests: every request is at a step of its  *)
(* handler and holds there what that step relies on, so that the SQL       *)
(* conditions keep the wallet of its type.                                 *)
(*                                                                         *)
(* Real, for one request at a time: what rows show as filled and what the  *)
(* handler is about to write is no more than what the order has executed,  *)
(* an order that rests has an open row, and a row of this process whose    *)
(* order is gone was used up.  With two requests this is false: a sync     *)
(* between Create and the call of the engine takes the order for filled.   *)
(***************************************************************************)
EXTENDS Settlement, Sums, TLAPS

USE SettlementAssumption

-----------------------------------------------------------------------------
(* The operators of the engine's instance are those of the libraries.       *)

LEMMA EngineLibrary ==
    /\ \A S : E!Max(S) = Max(S) /\ E!Min(S) = Min(S)
    /\ \A f, S : E!SumFunctionOnSet(f, S) = SumFunctionOnSet(f, S)
    /\ \A s : E!ToSet(s) = ToSet(s)
    /\ \A S : E!Cardinality(S) = Cardinality(S)
<1>1. \A S : E!Max(S) = Max(S) /\ E!Min(S) = Min(S)
  BY DEF E!Max, E!Min, Max, Min
<1>2. \A f, S : E!SumFunctionOnSet(f, S) = SumFunctionOnSet(f, S)
  BY DEF E!SumFunctionOnSet, E!FoldFunctionOnSet, E!MapThenFoldSet,
         SumFunctionOnSet, FoldFunctionOnSet, MapThenFoldSet
<1>3. \A s : E!ToSet(s) = ToSet(s)
  BY DEF E!ToSet, ToSet
<1>4. \A S : E!Cardinality(S) = Cardinality(S)
  BY DEF E!Cardinality, Cardinality
<1> QED BY <1>1, <1>2, <1>3, <1>4

-----------------------------------------------------------------------------
(* Selecting from a sequence.                                               *)

\* Select keeps the elements that are in T, in their order.
LEMMA SelectProperties ==
    ASSUME NEW S, NEW s \in Seq(S), NEW T
    PROVE  LET t == E!Select(s, T)
           IN  /\ t \in Seq(S) /\ ToSet(t) = ToSet(s) \cap T
               /\ \A i, j \in DOMAIN t : i < j =>
                     \E k, l \in DOMAIN s : k < l /\ s[k] = t[i] /\ s[l] = t[j]
<1>1. E!Select(s, T) = Among(s, T)
  BY DEF E!Select, Among, IsAmong
<1>2. PICK t : t = E!Select(s, T)
  OBVIOUS
<1>3. /\ t \in Seq(S) /\ ToSet(t) = ToSet(s) \cap T
      /\ \A i, j \in DOMAIN t : i < j =>
            \E k, l \in DOMAIN s : k < l /\ s[k] = t[i] /\ s[l] = t[j]
  BY <1>1, <1>2, AmongProperties
<1> QED BY <1>2, <1>3

-----------------------------------------------------------------------------
(* What an incoming order does to the sizes and which trades it reports.    *)

AllOrders == Rows \cup Others

Unrepeated(s) == \A i, j \in DOMAIN s : s[i] = s[j] => i = j

\* The trades with makers M of an order o that came with n, in the words the
\* settlement needs: every maker in one trade at most, at its own price, for what it
\* gave; all of what o is filled is reported.
Trades(o, n, M) ==
    /\ size' \in [AllOrders -> Nat] /\ size'[o] <= n
    /\ \A x \in AllOrders \ {o} : size'[x] <= size[x]
    /\ \A x \in AllOrders \ {o} : size'[x] # size[x] =>
          \E k \in DOMAIN matches' : matches'[k].maker = x
    /\ IsFiniteSet(DOMAIN matches') /\ matches' = [k \in DOMAIN matches' |-> matches'[k]]
    /\ \A k \in DOMAIN matches' :
          LET x == matches'[k].maker
          IN  /\ x \in M /\ matches'[k].price = price[x]
              /\ matches'[k].size \in Nat /\ matches'[k].size > 0
              /\ matches'[k].size = size[x] - size'[x]
    /\ \A k, l \in DOMAIN matches' : matches'[k].maker = matches'[l].maker => k = l
    /\ SizeFilled(matches') = n - size'[o]

LEMMA TakenFacts ==
    ASSUME size \in [AllOrders -> Nat], NEW makers \in Seq(AllOrders), NEW n \in Nat
    PROVE  /\ \A i \in DOMAIN makers :
                 /\ E!Taken(makers, n, i) \in Nat
                 /\ E!Taken(makers, n, i) <= size[makers[i]]
           /\ E!Ahead(makers, Len(makers) + 1) \in Nat
           /\ SumFunctionOnSet([i \in DOMAIN makers |-> E!Taken(makers, n, i)], DOMAIN makers)
                = LET all == E!Ahead(makers, Len(makers) + 1) IN IF all <= n THEN all ELSE n
<1> DEFINE N == Len(makers)
           D == [j \in DOMAIN makers |-> size[makers[j]]]
           g == [i \in DOMAIN makers |-> E!Taken(makers, n, i)]
<1>1. DOMAIN makers = 1..N /\ N \in Nat /\ \A i \in DOMAIN makers : makers[i] \in AllOrders
  BY InToSet
<1>2. \A i \in 1..N : D[i] = size[makers[i]] /\ D[i] \in Nat
  BY <1>1
<1>3. \A i : E!Ahead(makers, i) = SumFunctionOnSet(D, 1..(i - 1))
  BY EngineLibrary DEF E!Ahead
<1>4. \A i \in 1..N : g[i] = Part(D[i], n - SumFunctionOnSet(D, 1..(i - 1)))
  <2> SUFFICES ASSUME NEW i \in 1..N
               PROVE  g[i] = Part(D[i], n - SumFunctionOnSet(D, 1..(i - 1)))
    OBVIOUS
  <2>1. g[i] = E!Taken(makers, n, i) /\ D[i] = size[makers[i]]
    BY <1>1, <1>2
  <2> HIDE DEF D, g
  <2>2. E!Taken(makers, n, i) = Part(size[makers[i]], n - E!Ahead(makers, i))
    BY EngineLibrary DEF E!Taken, Part
  <2> QED BY <1>3, <2>1, <2>2
<1> HIDE DEF D
<1>5. ASSUME NEW i \in 1..N PROVE g[i] \in Nat /\ g[i] <= D[i]
  <2> DEFINE m == n - SumFunctionOnSet(D, 1..(i - 1))
  <2>1. D[i] \in Nat
    BY <1>2
  <2>2. m \in Int
    <3>1. IsFiniteSet(1..(i - 1))
      BY <1>1, FS_Interval
    <3>2. \A j \in 1..(i - 1) : j \in 1..N
      BY <1>1
    <3>3. \A j \in 1..(i - 1) : D[j] \in Int
      BY <1>2, <3>2
    <3>4. SumFunctionOnSet(D, 1..(i - 1)) \in Int
      BY <3>1, <3>3, SumInt
    <3> QED BY <3>4
  <2>3. g[i] = Part(D[i], m)
    BY <1>4
  <2> HIDE DEF m, g
  <2>4. Part(D[i], m) = IF m <= 0 THEN 0 ELSE IF D[i] <= m THEN D[i] ELSE m
    BY <2>1, <2>2, PartIs
  <2> QED BY <2>1, <2>2, <2>3, <2>4
<1>6. SumFunctionOnSet(g, 1..N)
        = LET all == SumFunctionOnSet(D, 1..N) IN IF all <= n THEN all ELSE n
  <2>1. \A i \in 1..N : D[i] \in Nat
    BY <1>2
  <2>2. N \in Nat
    BY <1>1
  <2> HIDE DEF g, N
  <2>3. InLine(D, g, N, n)
    BY <1>4, <2>1 DEF InLine
  <2> QED BY <2>2, <2>3, TakenInLine
<1>7. E!Ahead(makers, N + 1) = SumFunctionOnSet(D, 1..N)
  <2>1. (N + 1) - 1 = N
    BY <1>1
  <2> QED BY <1>3, <2>1
<1>8. SumFunctionOnSet(D, 1..N) \in Nat
  <2>1. IsFiniteSet(1..N)
    BY <1>1, FS_Interval
  <2> QED BY <1>2, <2>1, SumNat
<1>9. \A i \in DOMAIN makers : g[i] = E!Taken(makers, n, i)
  OBVIOUS
<1> HIDE DEF N
<1>10. \A i \in DOMAIN makers :
         /\ E!Taken(makers, n, i) \in Nat
         /\ E!Taken(makers, n, i) <= size[makers[i]]
  BY <1>1, <1>2, <1>5, <1>9
<1> QED BY <1>1, <1>6, <1>7, <1>8, <1>10 DEF N

LEMMA ExecuteTrades ==
    ASSUME size \in [AllOrders -> Nat], NEW makers \in Seq(AllOrders), NEW n \in Nat,
           NEW o \in AllOrders, NEW b, Unrepeated(makers), o \notin ToSet(makers),
           E!Execute(o, b, n, makers)
    PROVE  Trades(o, n, ToSet(makers))
<1> DEFINE T(i)  == E!Taken(makers, n, i)
           used  == {i \in DOMAIN makers : T(i) > 0}
           all   == E!Ahead(makers, Len(makers) + 1)
           total == Min({n, all})
           ms    == [i \in used |-> [maker |-> makers[i], price |-> price[makers[i]], size |-> T(i)]]
<1>1. /\ matches' = ms
      /\ size' = [x \in AllOrders |->
                    IF x = o THEN n - total
                    ELSE IF x \in {makers[i] : i \in used}
                         THEN size[x] - T(CHOOSE i \in used : makers[i] = x)
                         ELSE size[x]]
  BY EngineLibrary DEF E!Execute, AllOrders
<1>2. /\ \A i \in DOMAIN makers : T(i) \in Nat /\ T(i) <= size[makers[i]]
      /\ all \in Nat
      /\ SumFunctionOnSet([i \in DOMAIN makers |-> T(i)], DOMAIN makers)
           = IF all <= n THEN all ELSE n
  BY TakenFacts
<1>3. total = IF all <= n THEN all ELSE n
  <2>1. Min({n, all}) = IF n <= all THEN n ELSE all
    BY <1>2, Smaller
  <2> QED BY <1>2, <2>1
<1>4. /\ DOMAIN makers = 1..Len(makers) /\ Len(makers) \in Nat
      /\ \A i \in DOMAIN makers : makers[i] \in AllOrders /\ makers[i] \in ToSet(makers)
  BY InToSet
<1>5. DOMAIN matches' = used /\ \A i \in used : matches'[i] = ms[i]
  BY <1>1
<1>6. \A i \in used : /\ matches'[i].maker = makers[i] /\ matches'[i].price = price[makers[i]]
                      /\ matches'[i].size = T(i)
  BY <1>5
<1>7. \A i \in used : makers[i] # o /\ size'[makers[i]] = size[makers[i]] - T(i)
  <2> SUFFICES ASSUME NEW i \in used
               PROVE  makers[i] # o /\ size'[makers[i]] = size[makers[i]] - T(i)
    OBVIOUS
  <2>1. makers[i] # o /\ makers[i] \in AllOrders /\ makers[i] \in {makers[j] : j \in used}
    BY <1>4
  <2> DEFINE c == CHOOSE j \in used : makers[j] = makers[i]
  <2>2. c \in used /\ makers[c] = makers[i]
    OBVIOUS
  <2>3. c = i
    BY <2>2 DEF Unrepeated
  <2>4. size'[makers[i]] = size[makers[i]] - T(c)
    BY <1>1, <2>1
  <2> QED BY <2>1, <2>3, <2>4
<1>8. \A x \in AllOrders \ {o} : (\A i \in used : makers[i] # x) => size'[x] = size[x]
  BY <1>1
<1>9. size'[o] = n - total
  BY <1>1
<1> HIDE DEF used, total, all, ms
<1>10. \A i \in used : i \in DOMAIN makers /\ T(i) > 0 /\ T(i) \in Nat /\ T(i) <= size[makers[i]]
  BY <1>2 DEF used
<1>11. \A x \in AllOrders \ {o} : size'[x] \in Nat /\ size'[x] <= size[x]
  <2> SUFFICES ASSUME NEW x \in AllOrders \ {o} PROVE size'[x] \in Nat /\ size'[x] <= size[x]
    OBVIOUS
  <2>1. size[x] \in Nat
    OBVIOUS
  <2>2. CASE \A i \in used : makers[i] # x
    BY <1>8, <2>1, <2>2
  <2>3. ASSUME NEW i \in used, makers[i] = x PROVE size'[x] \in Nat /\ size'[x] <= size[x]
    <3>1. size'[x] = size[x] - T(i) /\ T(i) \in Nat /\ T(i) <= size[x]
      BY <1>7, <1>10, <2>3
    <3> QED BY <2>1, <3>1
  <2> QED BY <2>2, <2>3
<1>12. size'[o] \in Nat /\ size'[o] <= n
  BY <1>2, <1>3, <1>9
<1>13. size' \in [AllOrders -> Nat]
  <2>1. DOMAIN size' = AllOrders /\ size' = [x \in AllOrders |-> size'[x]]
    BY <1>1
  <2> QED BY <1>11, <1>12, <2>1
<1>14. IsFiniteSet(DOMAIN matches')
  <2>1. IsFiniteSet(DOMAIN makers) /\ used \subseteq DOMAIN makers
    BY <1>4, <1>10, FS_Interval
  <2> QED BY <1>5, <2>1, FS_Subset
<1>15. SizeFilled(matches') = n - size'[o]
  <2> DEFINE f == [i \in DOMAIN makers |-> T(i)]
             h == [k \in DOMAIN matches' |-> matches'[k].size]
             rest == DOMAIN makers \ used
  <2>1. IsFiniteSet(used) /\ IsFiniteSet(rest) /\ used \cap rest = {} /\ DOMAIN makers = used \cup rest
    <3>1. IsFiniteSet(DOMAIN makers)
      BY <1>4, FS_Interval
    <3>2. rest \subseteq DOMAIN makers
      OBVIOUS
    <3>3. used \cap rest = {} /\ DOMAIN makers = used \cup rest
      BY <1>10
    <3>4. IsFiniteSet(rest)
      BY <3>1, <3>2, FS_Subset
    <3> QED BY <1>5, <1>14, <3>3, <3>4
  <2>2. \A i \in used : h[i] = f[i]
    BY <1>5, <1>6, <1>10
  <2>3. \A i \in used \cup rest : f[i] \in Nat /\ f[i] \in Int
    BY <1>2, <2>1
  <2>4. \A i \in rest : f[i] = 0
    BY <1>2 DEF used
  <2> HIDE DEF f, h, rest
  <2>5. SumFunctionOnSet(f, used \cup rest) = SumFunctionOnSet(f, used) + SumFunctionOnSet(f, rest)
    BY <2>1, <2>3, SumUnion
  <2>6. SumFunctionOnSet(f, rest) = 0
    BY <2>1, <2>3, <2>4, SumNat
  <2>7. SumFunctionOnSet(h, used) = SumFunctionOnSet(f, used)
    BY <2>1, <2>2, SumSame
  <2>8. SumFunctionOnSet(f, used) \in Nat
    BY <2>1, <2>3, SumNat
  <2>9. SumFunctionOnSet(f, used \cup rest) = total
    BY <1>2, <1>3, <2>1 DEF f
  <2>10. SizeFilled(matches') = SumFunctionOnSet(h, used)
    BY <1>5 DEF SizeFilled, h
  <2>11. n - (n - total) = total
    BY <1>2, <1>3
  <2> QED BY <1>9, <2>5, <2>6, <2>7, <2>8, <2>9, <2>10, <2>11
<1>16. \A x \in AllOrders \ {o} : size'[x] # size[x] => \E k \in DOMAIN matches' : matches'[k].maker = x
  BY <1>5, <1>6, <1>8
<1>17. \A k \in DOMAIN matches' :
          LET x == matches'[k].maker
          IN  /\ x \in ToSet(makers) /\ matches'[k].price = price[x]
              /\ matches'[k].size \in Nat /\ matches'[k].size > 0
              /\ matches'[k].size = size[x] - size'[x]
  <2> SUFFICES ASSUME NEW k \in used
               PROVE  LET x == matches'[k].maker
                      IN  /\ x \in ToSet(makers) /\ matches'[k].price = price[x]
                          /\ matches'[k].size \in Nat /\ matches'[k].size > 0
                          /\ matches'[k].size = size[x] - size'[x]
    BY <1>5
  <2>1. /\ matches'[k].maker = makers[k] /\ matches'[k].price = price[makers[k]]
        /\ matches'[k].size = T(k)
    BY <1>6
  <2>2. k \in DOMAIN makers /\ T(k) > 0 /\ T(k) \in Nat /\ T(k) <= size[makers[k]]
    BY <1>10
  <2>3. makers[k] \in ToSet(makers) /\ size[makers[k]] \in Nat
    BY <1>4, <2>2
  <2>4. size'[makers[k]] = size[makers[k]] - T(k)
    BY <1>7
  <2> QED BY <2>1, <2>2, <2>3, <2>4
<1>18. \A k, l \in DOMAIN matches' : matches'[k].maker = matches'[l].maker => k = l
  BY <1>5, <1>6, <1>10 DEF Unrepeated
<1>19. matches' = [k \in DOMAIN matches' |-> matches'[k]]
  BY <1>1 DEF ms
<1> QED BY <1>11, <1>12, <1>13, <1>14, <1>15, <1>16, <1>17, <1>18, <1>19 DEF Trades

\* A selection of a sequence without repetitions has none.
LEMMA SelectUnrepeated ==
    ASSUME NEW S, NEW s \in Seq(S), NEW T, Unrepeated(s)
    PROVE  Unrepeated(E!Select(s, T))
<1>1. PICK t : t = E!Select(s, T)
  OBVIOUS
<1>2. t \in Seq(S)
  BY <1>1, SelectProperties
<1>3. \A i, j \in DOMAIN t : i < j => \E k, l \in DOMAIN s : k < l /\ s[k] = t[i] /\ s[l] = t[j]
  BY <1>1, SelectProperties
<1>4. DOMAIN s = 1..Len(s) /\ DOMAIN t = 1..Len(t) /\ Len(s) \in Nat /\ Len(t) \in Nat
  BY <1>2, InToSet
<1>5. \A i, j \in DOMAIN t : i < j => t[i] # t[j]
  <2> SUFFICES ASSUME NEW i \in DOMAIN t, NEW j \in DOMAIN t, i < j PROVE t[i] # t[j]
    OBVIOUS
  <2>1. PICK k \in DOMAIN s, l \in DOMAIN s : k < l /\ s[k] = t[i] /\ s[l] = t[j]
    BY <1>3
  <2>2. k # l
    BY <1>4, <2>1
  <2> QED BY <2>1, <2>2 DEF Unrepeated
<1>6. \A i, j \in DOMAIN t : i < j \/ j < i \/ i = j
  BY <1>4
<1>7. Unrepeated(t)
  BY <1>5, <1>6 DEF Unrepeated
<1> QED BY <1>1, <1>7

\* What a selection keeps.
LEMMA SelectSet ==
    ASSUME NEW S, NEW s \in Seq(S), NEW T
    PROVE  E!Select(s, T) \in Seq(S) /\ ToSet(E!Select(s, T)) = ToSet(s) \cap T
  BY SelectProperties

\* What an insertion adds.
LEMMA Insertion ==
    ASSUME NEW S, NEW s \in Seq(S), NEW k \in Nat, k <= Len(s), NEW o \in S
    PROVE  LET t == E!InsertAt(s, k + 1, o)
           IN  /\ t \in Seq(S) /\ ToSet(t) = ToSet(s) \cup {o}
               /\ (Unrepeated(s) /\ o \notin ToSet(s)) => Unrepeated(t)
<1>1. DOMAIN s = 1..Len(s) /\ Len(s) \in Nat /\ \A i \in DOMAIN s : s[i] \in S
  BY InToSet
<1>2. PICK t : t = E!InsertAt(s, k + 1, o)
  OBVIOUS
<1>3. PICK p : p = k + 1
  OBVIOUS
<1>4. t = InsertAt(s, p, o) /\ p \in 1..(Len(s) + 1)
  BY <1>1, <1>2, <1>3 DEF E!InsertAt, InsertAt
<1>8. /\ t \in Seq(S) /\ DOMAIN t = 1..(Len(s) + 1) /\ ToSet(t) = ToSet(s) \cup {o}
      /\ \A i \in 1..(Len(s) + 1) : t[i] = IF i < p THEN s[i] ELSE IF i = p THEN o ELSE s[i - 1]
  <2>0. p \in 1..(Len(s) + 1)
    BY <1>4
  <2>1. InsertAt(s, p, o) \in Seq(S) /\ DOMAIN InsertAt(s, p, o) = 1..(Len(s) + 1)
    BY <2>0, InsertProperties
  <2>2. ToSet(InsertAt(s, p, o)) = ToSet(s) \cup {o}
    BY <2>0, InsertProperties
  <2>3. \A i \in 1..(Len(s) + 1) :
           InsertAt(s, p, o)[i] = IF i < p THEN s[i] ELSE IF i = p THEN o ELSE s[i - 1]
    BY <2>0, InsertProperties
  <2> QED BY <1>4, <2>1, <2>2, <2>3
<1>10. ASSUME NEW i \in 1..(Len(s) + 1)
       PROVE  t[i] = IF i <= k THEN s[i] ELSE IF i = k + 1 THEN o ELSE s[i - 1]
  BY <1>1, <1>3, <1>8
<1>12. ASSUME Unrepeated(s), o \notin ToSet(s) PROVE Unrepeated(t)
  <2> DEFINE at(i) == IF i <= k THEN i ELSE i - 1
  <2>1. \A i \in 1..(Len(s) + 1) : i # k + 1 => at(i) \in DOMAIN s /\ t[i] = s[at(i)] /\ t[i] # o
    <3> SUFFICES ASSUME NEW i \in 1..(Len(s) + 1), i # k + 1
                 PROVE  at(i) \in DOMAIN s /\ t[i] = s[at(i)] /\ t[i] # o
      OBVIOUS
    <3>1. at(i) \in DOMAIN s
      BY <1>1
    <3>2. t[i] = s[at(i)]
      BY <1>10
    <3> QED BY <1>12, <3>1, <3>2 DEF ToSet
  <2>2. t[k + 1] = o
    <3>1. k + 1 \in 1..(Len(s) + 1) /\ ~ (k + 1 <= k)
      BY <1>1
    <3> QED BY <1>10, <3>1
  <2>3. \A i, j \in 1..(Len(s) + 1) : (i # k + 1 /\ j # k + 1 /\ at(i) = at(j)) => i = j
    BY <1>1
  <2> HIDE DEF at
  <2> SUFFICES ASSUME NEW i \in DOMAIN t, NEW j \in DOMAIN t, t[i] = t[j] PROVE i = j
    BY DEF Unrepeated
  <2>4. i \in 1..(Len(s) + 1) /\ j \in 1..(Len(s) + 1)
    BY <1>8
  <2>5. CASE i = k + 1
    BY <2>1, <2>2, <2>4, <2>5
  <2>6. CASE j = k + 1
    BY <2>1, <2>2, <2>4, <2>6
  <2>7. CASE i # k + 1 /\ j # k + 1
    <3>1. at(i) \in DOMAIN s /\ at(j) \in DOMAIN s /\ s[at(i)] = s[at(j)]
      BY <2>1, <2>4, <2>7
    <3>2. at(i) = at(j)
      BY <1>12, <3>1 DEF Unrepeated
    <3> QED BY <2>3, <2>4, <2>7, <3>2
  <2> QED BY <2>5, <2>6, <2>7
<1> QED BY <1>2, <1>8, <1>12

-----------------------------------------------------------------------------
(* The engine between two calls, and what each call changes.                *)

EngineTyped ==
    /\ received \subseteq AllOrders
    /\ bid \in [AllOrders -> BOOLEAN] /\ price \in [AllOrders -> Nat]
    /\ size \in [AllOrders -> Nat]
    /\ book \in [BOOLEAN -> Seq(AllOrders)]

\* An order rests on its own side, once, at a price and with something open.
Rests(b) ==
    /\ Unrepeated(book[b])
    /\ \A o \in ToSet(book[b]) :
          o \in received /\ bid[o] = b /\ size[o] > 0 /\ price[o] \in Prices

EngineOK == EngineTyped /\ \A b \in BOOLEAN : Rests(b)

\* What a call that takes order o of side b at p (0: at any price) for n leaves.
Placed(o, b, p, n) ==
    /\ o \in AllOrders \ received /\ received' = received \cup {o}
    /\ bid' = [bid EXCEPT ![o] = b] /\ price' = [price EXCEPT ![o] = p]
    /\ Trades(o, n, ToSet(book[~b]))
    /\ OnBook' = {x \in OnBook \cup {o} : size'[x] > 0}

\* The trades are at the order's own price or better.
Crossed(b, p) ==
    \A k \in DOMAIN matches' : IF b THEN matches'[k].price <= p ELSE matches'[k].price >= p

LEMMA BothSides == \A b \in BOOLEAN : (~b) \in BOOLEAN /\ b # (~b) /\ {b, ~b} = BOOLEAN
  OBVIOUS

\* OnBook, side by side.
LEMMA OnBookSides ==
    /\ \A x : x \in OnBook <=> \E b \in BOOLEAN : x \in ToSet(book[b])
    /\ \A b \in BOOLEAN : OnBook = ToSet(book[b]) \cup ToSet(book[~b])
<1>1. \A b \in BOOLEAN : b = TRUE \/ b = FALSE
  OBVIOUS
<1>2. TRUE \in BOOLEAN /\ FALSE \in BOOLEAN /\ (~TRUE) = FALSE /\ (~FALSE) = TRUE
  OBVIOUS
<1> QED BY <1>1, <1>2 DEF OnBook

\* An order placed on side s of the book is there with the others.
LEMMA EnqueueFacts ==
    ASSUME NEW s \in Seq(AllOrders), NEW o \in AllOrders, NEW b, NEW p,
           Unrepeated(s), o \notin ToSet(s)
    PROVE  LET t == E!Enqueue(s, o, b, p)
           IN  t \in Seq(AllOrders) /\ ToSet(t) = ToSet(s) \cup {o} /\ Unrepeated(t)
<1> DEFINE K == {i \in DOMAIN s : ~ E!Better(b, p, price[s[i]])}
           k == Cardinality(K)
<1>1. DOMAIN s = 1..Len(s) /\ Len(s) \in Nat
  BY InToSet
<1>2. k \in Nat /\ k <= Len(s)
  <2>1. IsFiniteSet(1..Len(s)) /\ Cardinality(1..Len(s)) = Len(s)
    <3>1. 1 \in Int /\ Len(s) \in Int
      BY <1>1
    <3>2. Cardinality(1..Len(s)) = IF 1 > Len(s) THEN 0 ELSE Len(s) - 1 + 1
      BY <3>1, FS_Interval
    <3>3. IsFiniteSet(1..Len(s))
      BY <3>1, FS_Interval
    <3> QED BY <1>1, <3>2, <3>3
  <2>2. K \in SUBSET (1..Len(s))
    BY <1>1
  <2> HIDE DEF K
  <2>3. IsFiniteSet(K) /\ Cardinality(K) <= Cardinality(1..Len(s))
    BY <2>1, <2>2, FS_Subset
  <2>4. Cardinality(K) \in Nat
    BY <2>3, FS_CardinalityType
  <2> QED BY <2>1, <2>3, <2>4
<1>3. E!Enqueue(s, o, b, p) = E!InsertAt(s, k + 1, o)
  BY EngineLibrary DEF E!Enqueue
<1> HIDE DEF k
<1> QED BY <1>2, <1>3, Insertion

\* The orders of a side that keep something open after the call.
LEMMA StillOpenFacts ==
    ASSUME EngineOK, NEW b \in BOOLEAN
    PROVE  LET t == E!StillOpen(book[b])
           IN  /\ t \in Seq(AllOrders) /\ Unrepeated(t)
               /\ ToSet(t) = {x \in ToSet(book[b]) : size'[x] > 0}
<1>1. book[b] \in Seq(AllOrders) /\ Unrepeated(book[b])
  BY DEF EngineOK, EngineTyped, Rests
<1> DEFINE T == {m \in AllOrders : size'[m] > 0}
<1>2. E!StillOpen(book[b]) = E!Select(book[b], T)
  BY DEF E!StillOpen, AllOrders
<1>3. \A x \in ToSet(book[b]) : x \in AllOrders
  BY <1>1, InToSet
<1>4. ToSet(book[b]) \cap T = {x \in ToSet(book[b]) : size'[x] > 0}
  BY <1>3
<1> HIDE DEF T
<1> QED BY <1>1, <1>2, <1>4, SelectSet, SelectUnrepeated

\* The makers of an order come from the other side and it is none of them.
LEMMA MakersFacts ==
    ASSUME EngineOK, NEW b \in BOOLEAN, NEW o \in AllOrders \ received, NEW T
    PROVE  LET makers == E!Select(book[~b], T)
           IN  /\ makers \in Seq(AllOrders) /\ Unrepeated(makers) /\ o \notin ToSet(makers)
               /\ ToSet(makers) = ToSet(book[~b]) \cap T
<1>1. book[~b] \in Seq(AllOrders) /\ Unrepeated(book[~b]) /\ o \notin ToSet(book[~b])
  BY BothSides DEF EngineOK, EngineTyped, Rests
<1> QED BY <1>1, SelectSet, SelectUnrepeated

\* Enough to know of a book after a call that places order o.
LEMMA BookAfter ==
    ASSUME EngineOK, NEW b \in BOOLEAN, NEW o \in AllOrders \ received, NEW p, NEW n \in Nat,
           received' = received \cup {o},
           bid' = [bid EXCEPT ![o] = b], price' = [price EXCEPT ![o] = p],
           Trades(o, n, ToSet(book[~b])), p \in Nat, size'[o] > 0 => p \in Prices,
           DOMAIN book' = BOOLEAN,
           book'[~b] = E!StillOpen(book[~b]),
           book'[b] = IF size'[o] > 0 THEN E!Enqueue(book[b], o, b, p) ELSE book[b],
           book' = [s \in BOOLEAN |-> book'[s]]
    PROVE  EngineOK' /\ Placed(o, b, p, n)
<1> USE BothSides
<1>1. /\ book[b] \in Seq(AllOrders) /\ Unrepeated(book[b]) /\ o \notin ToSet(book[b])
      /\ book[~b] \in Seq(AllOrders) /\ o \notin ToSet(book[~b])
      /\ \A x \in ToSet(book[b]) : x \in received /\ bid[x] = b /\ size[x] > 0 /\ price[x] \in Prices
      /\ \A x \in ToSet(book[~b]) :
            x \in received /\ bid[x] = (~b) /\ size[x] > 0 /\ price[x] \in Prices
  BY DEF EngineOK, EngineTyped, Rests
<1>2. \A x \in ToSet(book[b]) : x \in AllOrders
  BY <1>1, InToSet
<1>3. \A x \in ToSet(book[~b]) : x \in AllOrders
  BY <1>1, InToSet
<1>4. \A x \in AllOrders \ {o} : bid'[x] = bid[x] /\ price'[x] = price[x]
  BY DEF EngineOK, EngineTyped
<1>5. bid'[o] = b /\ price'[o] = p
  BY DEF EngineOK, EngineTyped
<1>6. \A x \in ToSet(book[b]) : size'[x] = size[x]
  <2> SUFFICES ASSUME NEW x \in ToSet(book[b]), size'[x] # size[x] PROVE FALSE
    OBVIOUS
  <2>1. x \in AllOrders \ {o}
    BY <1>1, <1>2
  <2>2. PICK k \in DOMAIN matches' : matches'[k].maker = x
    BY <2>1 DEF Trades
  <2>3. x \in ToSet(book[~b])
    BY <2>2 DEF Trades
  <2> QED BY <1>1, <2>3
<1>7. /\ book'[~b] \in Seq(AllOrders) /\ Unrepeated(book'[~b])
      /\ ToSet(book'[~b]) = {x \in ToSet(book[~b]) : size'[x] > 0}
  BY StillOpenFacts
<1>8. /\ book'[b] \in Seq(AllOrders) /\ Unrepeated(book'[b])
      /\ ToSet(book'[b]) = ToSet(book[b]) \cup (IF size'[o] > 0 THEN {o} ELSE {})
  <2>1. CASE size'[o] > 0
    <3>1. /\ E!Enqueue(book[b], o, b, p) \in Seq(AllOrders)
          /\ ToSet(E!Enqueue(book[b], o, b, p)) = ToSet(book[b]) \cup {o}
          /\ Unrepeated(E!Enqueue(book[b], o, b, p))
      BY <1>1, EnqueueFacts
    <3> QED BY <2>1, <3>1
  <2>2. CASE ~ (size'[o] > 0)
    BY <1>1, <2>2
  <2> QED BY <2>1, <2>2
<1>9. EngineTyped'
  <2>1. book' \in [BOOLEAN -> Seq(AllOrders)]
    BY <1>7, <1>8
  <2>2. received' \subseteq AllOrders /\ bid' \in [AllOrders -> BOOLEAN]
        /\ price' \in [AllOrders -> Nat] /\ size' \in [AllOrders -> Nat]
    BY DEF EngineOK, EngineTyped, Trades
  <2> QED BY <2>1, <2>2 DEF EngineTyped, AllOrders, Rows, Others
<1>10. Rests(b)'
  <2>1. \A x \in ToSet(book'[b]) :
           x \in received' /\ bid'[x] = b /\ size'[x] > 0 /\ price'[x] \in Prices
    BY <1>1, <1>2, <1>4, <1>5, <1>6, <1>8
  <2> QED BY <1>8, <2>1 DEF Rests, Unrepeated, ToSet
<1>11. Rests(~b)'
  <2>1. \A x \in ToSet(book'[~b]) :
           x \in received' /\ bid'[x] = (~b) /\ size'[x] > 0 /\ price'[x] \in Prices
    BY <1>1, <1>3, <1>4, <1>7
  <2> QED BY <1>7, <2>1 DEF Rests, Unrepeated, ToSet
<1>12. OnBook' = ToSet(book'[b]) \cup ToSet(book'[~b])
  <2>1. CASE b = TRUE
    BY <2>1 DEF OnBook, ToSet
  <2>2. CASE b = FALSE
    BY <2>2 DEF OnBook, ToSet
  <2> QED BY <2>1, <2>2
<1>13. OnBook' = {x \in OnBook \cup {o} : size'[x] > 0}
  <2>1. OnBook = ToSet(book[b]) \cup ToSet(book[~b])
    BY OnBookSides
  <2> QED BY <1>1, <1>6, <1>7, <1>8, <1>12, <2>1
<1>14. \A s \in BOOLEAN : Rests(s)'
  <2> SUFFICES ASSUME NEW s \in BOOLEAN PROVE Rests(s)'
    OBVIOUS
  <2>1. s = b \/ s = (~b)
    OBVIOUS
  <2>2. CASE s = b
    BY <1>10, <2>2
  <2>3. CASE s = (~b)
    BY <1>11, <2>3
  <2> QED BY <2>1, <2>2, <2>3
<1> QED BY <1>9, <1>13, <1>14 DEF EngineOK, Placed

LEMMA LimitPlaced ==
    ASSUME EngineOK, NEW b \in BOOLEAN, NEW o, NEW p \in Prices, NEW n \in Sizes,
           E!LimitOrder(o, b, p, n)
    PROVE  EngineOK' /\ Placed(o, b, p, n) /\ Crossed(b, p)
<1> DEFINE T == {m \in AllOrders : E!Crosses(b, p, price[m])}
           makers == E!Select(book[~b], T)
<1>1. /\ o \in AllOrders \ received /\ received' = received \cup {o}
      /\ bid' = [bid EXCEPT ![o] = b] /\ price' = [price EXCEPT ![o] = p]
      /\ E!Execute(o, b, n, makers)
      /\ book' = [s \in BOOLEAN |->
                    IF s # b THEN E!StillOpen(book[s])
                    ELSE IF size'[o] > 0 THEN E!Enqueue(book[b], o, b, p)
                    ELSE book[b]]
  BY DEF E!LimitOrder, E!Receive, AllOrders
<1>2. /\ makers \in Seq(AllOrders) /\ Unrepeated(makers) /\ o \notin ToSet(makers)
      /\ ToSet(makers) = ToSet(book[~b]) \cap T
  BY <1>1, MakersFacts
<1>3. n \in Nat /\ p \in Nat
  OBVIOUS
<1> HIDE DEF makers
<1>4. Trades(o, n, ToSet(makers))
  <2>1. size \in [AllOrders -> Nat]
    BY DEF EngineOK, EngineTyped
  <2> QED BY <1>1, <1>2, <1>3, <2>1, ExecuteTrades
<1>5. Trades(o, n, ToSet(book[~b]))
  BY <1>2, <1>4 DEF Trades
<1>6. /\ DOMAIN book' = BOOLEAN /\ book' = [s \in BOOLEAN |-> book'[s]]
      /\ book'[~b] = E!StillOpen(book[~b])
      /\ book'[b] = IF size'[o] > 0 THEN E!Enqueue(book[b], o, b, p) ELSE book[b]
  BY <1>1, BothSides
<1>7. EngineOK' /\ Placed(o, b, p, n)
  BY <1>1, <1>3, <1>5, <1>6, BookAfter
<1>8. Crossed(b, p)
  <2> SUFFICES ASSUME NEW k \in DOMAIN matches'
               PROVE  IF b THEN matches'[k].price <= p ELSE matches'[k].price >= p
    BY DEF Crossed
  <2>1. matches'[k].maker \in T /\ matches'[k].price = price[matches'[k].maker]
    BY <1>2, <1>4 DEF Trades
  <2> QED BY <2>1 DEF E!Crosses
<1> QED BY <1>7, <1>8

LEMMA MarketPlaced ==
    ASSUME EngineOK, NEW b \in BOOLEAN, NEW o, NEW n \in Sizes, E!MarketOrder(o, b, n)
    PROVE  EngineOK' /\ Placed(o, b, 0, n) /\ size'[o] = 0
<1> DEFINE makers == book[~b]
<1>1. /\ o \in AllOrders \ received /\ received' = received \cup {o}
      /\ bid' = [bid EXCEPT ![o] = b] /\ price' = [price EXCEPT ![o] = 0]
      /\ E!Execute(o, b, n, makers) /\ n <= E!Depth(~b)
      /\ book' = [book EXCEPT ![~b] = E!StillOpen(@)]
  BY DEF E!MarketOrder, E!Receive, AllOrders
<1>2. makers \in Seq(AllOrders) /\ Unrepeated(makers) /\ o \notin ToSet(makers)
  BY <1>1, BothSides DEF EngineOK, EngineTyped, Rests
<1>3. n \in Nat
  OBVIOUS
<1>4. size \in [AllOrders -> Nat]
  BY DEF EngineOK, EngineTyped
<1>5. Trades(o, n, ToSet(makers))
  BY <1>1, <1>2, <1>3, <1>4, ExecuteTrades
<1>6. size'[o] = 0
  <2>1. size'[o] = n - Min({n, E!Ahead(makers, Len(makers) + 1)})
    BY <1>1, EngineLibrary DEF E!Execute, AllOrders
  <2>2. E!Ahead(makers, Len(makers) + 1) \in Nat
    BY <1>2, <1>3, <1>4, TakenFacts
  <2>3. n <= E!Ahead(makers, Len(makers) + 1)
    BY <1>1 DEF E!Depth
  <2>4. Min({n, E!Ahead(makers, Len(makers) + 1)}) = n
    BY <1>3, <2>2, <2>3, Smaller
  <2> QED BY <1>3, <2>1, <2>4
<1>7. /\ DOMAIN book' = BOOLEAN /\ book' = [s \in BOOLEAN |-> book'[s]]
      /\ book'[~b] = E!StillOpen(book[~b]) /\ book'[b] = book[b]
  BY <1>1, BothSides DEF EngineOK, EngineTyped
<1>8. ~ (size'[o] > 0)
  BY <1>6
<1> HIDE DEF makers
<1>9. Trades(o, n, ToSet(book[~b]))
  BY <1>5 DEF makers
<1>10. /\ book'[b] = (IF size'[o] > 0 THEN E!Enqueue(book[b], o, b, 0) ELSE book[b])
       /\ 0 \in Nat /\ (size'[o] > 0 => 0 \in Prices)
  BY <1>7, <1>8
<1>11. EngineOK' /\ Placed(o, b, 0, n)
  BY <1>1, <1>3, <1>7, <1>9, <1>10, BookAfter
<1> QED BY <1>6, <1>11

LEMMA MarketRefused ==
    ASSUME EngineOK, NEW b \in BOOLEAN, NEW o, NEW n \in Sizes, E!RefuseMarketOrder(o, b, n)
    PROVE  /\ EngineOK' /\ OnBook' = OnBook /\ matches' = <<>>
           /\ o \in AllOrders \ received /\ received' = received \cup {o}
           /\ price' = [price EXCEPT ![o] = 0] /\ size' = [size EXCEPT ![o] = n]
<1>1. /\ o \in AllOrders \ received /\ received' = received \cup {o}
      /\ bid' = [bid EXCEPT ![o] = b] /\ price' = [price EXCEPT ![o] = 0]
      /\ size' = [size EXCEPT ![o] = n] /\ matches' = <<>> /\ book' = book
  BY DEF E!RefuseMarketOrder, E!Receive, AllOrders
<1>2. OnBook' = OnBook
  BY <1>1 DEF OnBook
<1>3. EngineTyped'
  <2>1. n \in Nat
    OBVIOUS
  <2> QED BY <1>1, <2>1 DEF EngineOK, EngineTyped, AllOrders, Rows, Others
<1>4. ASSUME NEW s \in BOOLEAN PROVE Rests(s)'
  <2>1. /\ Unrepeated(book[s]) /\ book[s] \in Seq(AllOrders)
        /\ \A x \in ToSet(book[s]) :
              x \in received /\ bid[x] = s /\ size[x] > 0 /\ price[x] \in Prices
    BY DEF EngineOK, EngineTyped, Rests
  <2>2. \A x \in ToSet(book[s]) : x \in AllOrders \ {o}
    BY <1>1, <2>1, InToSet
  <2>3. \A x \in AllOrders \ {o} : bid'[x] = bid[x] /\ price'[x] = price[x] /\ size'[x] = size[x]
    BY <1>1 DEF EngineOK, EngineTyped
  <2>4. \A x \in ToSet(book[s]) :
              x \in received' /\ bid'[x] = s /\ size'[x] > 0 /\ price'[x] \in Prices
    BY <1>1, <2>1, <2>2, <2>3
  <2> QED BY <1>1, <2>1, <2>4 DEF Rests, Unrepeated, ToSet
<1> QED BY <1>1, <1>2, <1>3, <1>4 DEF EngineOK

LEMMA Cancelled ==
    ASSUME EngineOK, NEW o, E!Cancel(o)
    PROVE  /\ EngineOK' /\ OnBook' = OnBook \ {o} /\ o \in OnBook
           /\ UNCHANGED <<received, bid, price, size, matches>>
<1>1. /\ book' = [s \in BOOLEAN |-> E!Select(book[s], AllOrders \ {o})]
      /\ UNCHANGED <<received, bid, price, size, matches>>
  BY DEF E!Cancel, AllOrders
<1>2. \A s \in BOOLEAN : /\ book[s] \in Seq(AllOrders) /\ Unrepeated(book[s])
                         /\ \A x \in ToSet(book[s]) : /\ x \in received /\ bid[x] = s
                                                      /\ size[x] > 0 /\ price[x] \in Prices
  BY DEF EngineOK, EngineTyped, Rests
<1>3. ASSUME NEW s \in BOOLEAN
      PROVE  /\ book'[s] \in Seq(AllOrders) /\ Unrepeated(book'[s])
             /\ ToSet(book'[s]) = ToSet(book[s]) \ {o}
  <2>1. book'[s] = E!Select(book[s], AllOrders \ {o})
    BY <1>1
  <2>2. \A x \in ToSet(book[s]) : x \in AllOrders
    BY <1>2, InToSet
  <2>3. ToSet(book[s]) \cap (AllOrders \ {o}) = ToSet(book[s]) \ {o}
    BY <2>2
  <2>4. book[s] \in Seq(AllOrders) /\ Unrepeated(book[s])
    BY <1>2
  <2> QED BY <2>1, <2>3, <2>4, SelectSet, SelectUnrepeated
<1>4. EngineTyped'
  <2>1. book' \in [BOOLEAN -> Seq(AllOrders)]
    BY <1>1, <1>3
  <2> QED BY <1>1, <2>1 DEF EngineOK, EngineTyped, AllOrders, Rows, Others
<1>5. ASSUME NEW s \in BOOLEAN PROVE Rests(s)'
  <2>1. \A x \in ToSet(book'[s]) :
              x \in received' /\ bid'[x] = s /\ size'[x] > 0 /\ price'[x] \in Prices
    BY <1>1, <1>2, <1>3
  <2> QED BY <1>3, <2>1 DEF Rests, Unrepeated, ToSet
<1>6. OnBook' = OnBook \ {o}
  <2>1. OnBook' = ToSet(book'[TRUE]) \cup ToSet(book'[FALSE])
    BY DEF OnBook, ToSet
  <2> QED BY <1>3, <2>1 DEF OnBook
<1>7. o \in OnBook
  BY OnBookSides, EngineLibrary DEF E!Cancel
<1> QED BY <1>1, <1>4, <1>5, <1>6, <1>7 DEF EngineOK

-----------------------------------------------------------------------------
(* The types of rows and of a handler's local variables.                    *)

Statuses == {"NONE", "OPEN", "PARTIALLY_FILLED", "FILLED", "CANCELLED"}

RowSet == [status : Statuses, kind : {"LIMIT", "MARKET"}, bid : BOOLEAN, price : Nat,
           quantity : Nat, filled : Nat, notional : Nat]

Todo == [id : Rows, row : RowSet]

Fields == {"kind", "pc", "row", "bid", "price", "quantity", "lock", "available", "estimate",
           "got", "paidPrice", "filled", "notional", "status", "debit", "unlock", "amount",
           "next", "todo", "seen", "order"}

\* The values that record f has for some of the fields are of the fields' types.
Fits(f) ==
    /\ "row" \in DOMAIN f => f.row \in Nat
    /\ "bid" \in DOMAIN f => f.bid \in BOOLEAN
    /\ "price" \in DOMAIN f => f.price \in Nat
    /\ "quantity" \in DOMAIN f => f.quantity \in Nat
    /\ "lock" \in DOMAIN f => f.lock \in Nat
    /\ "available" \in DOMAIN f => f.available \in Int
    /\ "estimate" \in DOMAIN f => f.estimate \in Nat
    /\ "got" \in DOMAIN f => f.got \in Nat
    /\ "paidPrice" \in DOMAIN f => f.paidPrice \in Nat
    /\ "filled" \in DOMAIN f => f.filled \in Nat
    /\ "notional" \in DOMAIN f => f.notional \in Nat
    /\ "status" \in DOMAIN f => f.status \in Statuses
    /\ "debit" \in DOMAIN f => f.debit \in Nat
    /\ "unlock" \in DOMAIN f => f.unlock \in Nat
    /\ "amount" \in DOMAIN f => f.amount \in Nat
    /\ "todo" \in DOMAIN f => f.todo \in Seq(Todo)
    /\ "seen" \in DOMAIN f => DOMAIN f.seen \subseteq Rows /\ \A x \in DOMAIN f.seen : f.seen[x] \in Nat
    /\ "order" \in DOMAIN f => f.order \in RowSet

Typed(r) == DOMAIN r = Fields /\ Fits(r)

LEMMA WithIs ==
    ASSUME NEW r, NEW f
    PROVE  /\ DOMAIN With(r, f) = DOMAIN r
           /\ \A x \in DOMAIN r : With(r, f)[x] = IF x \in DOMAIN f THEN f[x] ELSE r[x]
  BY DEF With

LEMMA WithTyped ==
    ASSUME NEW r, Typed(r), NEW f, Fits(f)
    PROVE  Typed(With(r, f))
<1>1. PICK w : w = With(r, f)
  OBVIOUS
<1>2. DOMAIN w = Fields /\ \A x \in Fields : w[x] = IF x \in DOMAIN f THEN f[x] ELSE r[x]
  BY <1>1, WithIs DEF Typed
<1>3. Fits(w)
  <2>0. \A x \in Fields : w[x] = r[x] \/ (x \in DOMAIN f /\ w[x] = f[x])
    BY <1>2
  <2>1. w.row \in Nat
    BY <2>0 DEF Typed, Fits, Fields
  <2>2. w.bid \in BOOLEAN
    BY <2>0 DEF Typed, Fits, Fields
  <2>3. w.price \in Nat
    BY <2>0 DEF Typed, Fits, Fields
  <2>4. w.quantity \in Nat
    BY <2>0 DEF Typed, Fits, Fields
  <2>5. w.lock \in Nat
    BY <2>0 DEF Typed, Fits, Fields
  <2>6. w.available \in Int
    BY <2>0 DEF Typed, Fits, Fields
  <2>7. w.estimate \in Nat
    BY <2>0 DEF Typed, Fits, Fields
  <2>8. w.got \in Nat
    BY <2>0 DEF Typed, Fits, Fields
  <2>9. w.paidPrice \in Nat
    BY <2>0 DEF Typed, Fits, Fields
  <2>10. w.filled \in Nat
    BY <2>0 DEF Typed, Fits, Fields
  <2>11. w.notional \in Nat
    BY <2>0 DEF Typed, Fits, Fields
  <2>12. w.status \in Statuses
    BY <2>0 DEF Typed, Fits, Fields
  <2>13. w.debit \in Nat
    BY <2>0 DEF Typed, Fits, Fields
  <2>14. w.unlock \in Nat
    BY <2>0 DEF Typed, Fits, Fields
  <2>15. w.amount \in Nat
    BY <2>0 DEF Typed, Fits, Fields
  <2>16. w.todo \in Seq(Todo)
    BY <2>0 DEF Typed, Fits, Fields
  <2>17. w.order \in RowSet
    BY <2>0 DEF Typed, Fits, Fields
  <2>18. DOMAIN w.seen \subseteq Rows /\ \A x \in DOMAIN w.seen : w.seen[x] \in Nat
    BY <2>0 DEF Typed, Fits, Fields
  <2> QED BY <2>1, <2>2, <2>3, <2>4, <2>5, <2>6, <2>7, <2>8, <2>9, <2>10, <2>11, <2>12, <2>13, <2>14, <2>15, <2>16, <2>17, <2>18 DEF Fits
<1> QED BY <1>1, <1>2, <1>3 DEF Typed

LEMMA NoRowTyped == NoRow \in RowSet
  BY DEF NoRow, RowSet, Statuses

LEMMA IdleTyped == Typed(Idle)
<1>1. DOMAIN Idle = Fields
  BY DEF Idle, Fields
<1>2. Idle.order \in RowSet
  BY NoRowTyped DEF Idle
<1>3. Idle.todo \in Seq(Todo) /\ DOMAIN Idle.seen = {}
  BY EmptySequence DEF Idle
<1>4. Idle.bid \in BOOLEAN /\ Idle.status \in Statuses
  BY DEF Idle, Statuses
<1>5. /\ Idle.row = 0 /\ Idle.price = 0 /\ Idle.quantity = 0 /\ Idle.lock = 0 /\ Idle.available = 0
      /\ Idle.estimate = 0 /\ Idle.got = 0 /\ Idle.paidPrice = 0 /\ Idle.filled = 0
      /\ Idle.notional = 0 /\ Idle.debit = 0 /\ Idle.unlock = 0 /\ Idle.amount = 0
  BY DEF Idle
<1> QED BY <1>1, <1>2, <1>3, <1>4, <1>5 DEF Typed, Fits

-----------------------------------------------------------------------------
(* Where a handler can be, and what it knows there.                         *)

\* The steps of each handler.
At(r) ==
    \/ r.kind = "none" /\ r.pc = "idle"
    \/ r.kind = "withdraw" /\ r.pc = "withdraw"
    \/ r.kind = "limit" /\ r.pc \in {"lock", "create", "release", "place", "readSize", "readStatus",
                                     "debit", "unlockRead", "unlockWrite", "update"}
    \/ r.kind = "market" /\ r.pc \in {"wallet", "quote", "create", "place", "delete",
                                      "debit", "update"}
    \/ r.kind = "sync" /\ r.pc \in {"list", "snapshot", "order", "debit", "unlockRead",
                                    "unlockWrite", "update"}
    \/ r.kind = "cancel" /\ r.pc \in {"list", "snapshot", "order", "debit", "unlockRead",
                                      "unlockWrite", "update", "get", "cancel", "mark"}

\* The loop of a sync is at the head of what it has listed.
InLoop(r) == r.kind \in {"sync", "cancel"} /\ (\/ r.pc \in {"debit", "update"}
                                               \/ r.pc \in {"unlockRead", "unlockWrite"} /\ r.next = "update")

Control(r) ==
    /\ At(r)
    /\ r.kind \in {"limit", "market"} => r.quantity \in Sizes
    /\ r.kind = "limit" => r.price \in Prices
    /\ r.kind = "cancel" => r.row \in Rows
    /\ r.pc \in {"readSize", "readStatus"} => r.row \in AllOrders
    /\ r.pc = "cancel" => Remaining(r.order) > 0
    /\ r.pc \in {"unlockRead", "unlockWrite"} =>
          r.next = "update" \/ (r.next = "mark" /\ r.kind = "cancel")
    /\ InLoop(r) => r.todo # <<>>
    /\ r.kind = "market" /\ r.pc = "debit" => r.unlock = 0

Allowed(r) == Typed(r) /\ Control(r)

\* Of every request, whatever the others do.
ReqOK == DOMAIN req = Threads /\ \A t \in Threads : Allowed(req[t])

WalletOK == DOMAIN wallet = {"balance", "locked"} /\ wallet.balance \in Nat /\ wallet.locked \in Nat

StateOK ==
    /\ WalletOK
    /\ orders \in [Rows -> RowSet] /\ lastRow \in Nat
    /\ ReqOK
    /\ EngineOK

\* What Control speaks of.
LEMMA WithControl ==
    ASSUME NEW r, DOMAIN r = Fields, NEW f
    PROVE  LET w == With(r, f)
           IN  /\ w.kind = IF "kind" \in DOMAIN f THEN f.kind ELSE r.kind
               /\ w.pc = IF "pc" \in DOMAIN f THEN f.pc ELSE r.pc
               /\ w.row = IF "row" \in DOMAIN f THEN f.row ELSE r.row
               /\ w.price = IF "price" \in DOMAIN f THEN f.price ELSE r.price
               /\ w.quantity = IF "quantity" \in DOMAIN f THEN f.quantity ELSE r.quantity
               /\ w.next = IF "next" \in DOMAIN f THEN f.next ELSE r.next
               /\ w.todo = IF "todo" \in DOMAIN f THEN f.todo ELSE r.todo
               /\ w.order = IF "order" \in DOMAIN f THEN f.order ELSE r.order
               /\ w.unlock = IF "unlock" \in DOMAIN f THEN f.unlock ELSE r.unlock
  BY WithIs DEF Fields

LEMMA Becomes ==
    ASSUME ReqOK, NEW t \in Threads, NEW r, Allowed(r), Become(t, r)
    PROVE  ReqOK'
  BY DEF ReqOK, Become

\* A handler that sets the fields of f is still in order if f fits and it is where it may be.
LEMMA Moves ==
    ASSUME ReqOK, NEW t \in Threads, NEW f, Fits(f), Control(With(req[t], f)), Set(t, f)
    PROVE  ReqOK'
<1>1. PICK w : w = With(req[t], f)
  OBVIOUS
<1>2. Typed(w)
  <2>1. PICK r : r = req[t]
    OBVIOUS
  <2> QED BY <1>1, <2>1, WithTyped DEF ReqOK, Allowed
<1> QED BY <1>1, <1>2, Becomes DEF Allowed, Set

LEMMA IdleAllowed == Allowed(Idle)
  BY IdleTyped DEF Allowed, Control, At, InLoop, Idle

LEMMA LockAmountOK ==
    ASSUME StateOK, NEW t \in Threads, LockAmount(t)
    PROVE  StateOK'
<1>1. PICK r : r = req[t]
  OBVIOUS
<1>2. Allowed(r) /\ r.pc = "lock" /\ r.kind = "limit"
  BY <1>1 DEF StateOK, ReqOK, Allowed, Control, At, LockAmount
<1>3. ReqOK'
  <2>1. CASE CanReserve(r.lock)
    <3>1. PICK f : f = [pc |-> "create"]
      OBVIOUS
    <3>2. Fits(f)
      BY <3>1 DEF Fits
    <3>3. Control(With(r, f))
      BY <1>2, <3>1, WithControl DEF Allowed, Typed, Control, At, InLoop
    <3> QED BY <1>1, <2>1, <3>1, <3>2, <3>3, Moves DEF LockAmount, StateOK
  <2>2. CASE ~ CanReserve(r.lock)
    <3>1. OnError(r) = Idle
      BY <1>2 DEF OnError, InSync
    <3> QED BY <1>1, <2>2, <3>1, Becomes, IdleAllowed DEF LockAmount, StateOK
  <2> QED BY <2>1, <2>2
<1>4. WalletOK'
  <2>1. r.lock \in Nat
    BY <1>2 DEF Allowed, Typed, Fits, Fields
  <2> QED BY <1>1, <2>1 DEF LockAmount, StateOK, WalletOK, With
<1> QED BY <1>3, <1>4 DEF StateOK, LockAmount, market, engine, EngineOK, EngineTyped, Rests

-----------------------------------------------------------------------------
(* What the handlers compute.                                               *)

LEMMA NotionalNat ==
    ASSUME NEW p \in Nat, NEW q \in Nat
    PROVE  Notional(p, q) \in Nat
<1>1. PICK v : v = p * q
  OBVIOUS
<1>2. v \in Nat
  BY <1>1
<1>3. v \div Scale \in Nat
  BY <1>2
<1> QED BY <1>1, <1>3 DEF Notional

\* Max and Min of two numbers, with what their users need.
LEMMA MaxOfTwo ==
    ASSUME NEW x \in Int, NEW y \in Int
    PROVE  LET m == Max({x, y}) IN m \in Int /\ x <= m /\ y <= m /\ m \in {x, y}
<1>1. Max({x, y}) = IF x <= y THEN y ELSE x
  BY Smaller
<1> QED BY <1>1

LEMMA MinOfTwo ==
    ASSUME NEW x \in Int, NEW y \in Int
    PROVE  LET m == Min({x, y}) IN m \in Int /\ m <= x /\ m <= y /\ m \in {x, y}
<1>1. Min({x, y}) = IF x <= y THEN x ELSE y
  BY Smaller
<1> QED BY <1>1

\* The size and the average price of a list of trades.
LEMMA TradesTyped ==
    ASSUME NEW ms, IsFiniteSet(DOMAIN ms),
           \A k \in DOMAIN ms : ms[k].size \in Nat /\ ms[k].price \in Nat
    PROVE  /\ SizeFilled(ms) \in Nat
           /\ \A K \in SUBSET DOMAIN ms : Value(ms, K) \in Nat
           /\ SizeFilled(ms) > 0 => VWAP(ms) \in Nat
           /\ \A k \in DOMAIN ms : ms[k].size <= SizeFilled(ms)
<1> DEFINE f == [k \in DOMAIN ms |-> ms[k].size]
           g == [k \in DOMAIN ms |-> ms[k].price * ms[k].size]
<1>1. \A k \in DOMAIN ms : f[k] \in Nat /\ f[k] = ms[k].size
  OBVIOUS
<1>2. \A k \in DOMAIN ms : g[k] \in Nat
  <2> SUFFICES ASSUME NEW k \in DOMAIN ms PROVE g[k] \in Nat
    OBVIOUS
  <2>1. PICK p \in Nat, n \in Nat : p = ms[k].price /\ n = ms[k].size
    OBVIOUS
  <2>2. p * n \in Nat
    OBVIOUS
  <2> QED BY <2>1, <2>2
<1>3. SizeFilled(ms) = SumFunctionOnSet(f, DOMAIN ms)
  BY DEF SizeFilled
<1>4. \A K : Value(ms, K) = SumFunctionOnSet(g, K)
  BY DEF Value
<1> HIDE DEF f, g
<1>5. SizeFilled(ms) \in Nat
  BY <1>1, <1>3, SumNat
<1>6. ASSUME NEW K \in SUBSET DOMAIN ms PROVE Value(ms, K) \in Nat
  <2>1. IsFiniteSet(K)
    BY FS_Subset
  <2>2. \A k \in K : g[k] \in Nat
    BY <1>2
  <2> QED BY <1>4, <2>1, <2>2, SumNat
<1>7. ASSUME SizeFilled(ms) > 0 PROVE VWAP(ms) \in Nat
  <2>1. PICK n : n = SizeFilled(ms)
    OBVIOUS
  <2>2. PICK v : v = Value(ms, DOMAIN ms)
    OBVIOUS
  <2>3. n \in Nat /\ n > 0 /\ v \in Nat
    BY <1>5, <1>6, <1>7, <2>1, <2>2
  <2>4. 2 * v + n \in Nat /\ 2 * n \in Nat /\ 2 * n > 0
    BY <2>3
  <2>5. (2 * v + n) \div (2 * n) \in Nat
    <3>1. PICK x \in Nat, y \in Nat : x = 2 * v + n /\ y = 2 * n /\ y > 0
      BY <2>4
    <3>2. x \div y \in Nat
      BY <3>1
    <3> QED BY <3>1, <3>2
  <2> QED BY <2>1, <2>2, <2>5 DEF VWAP
<1>8. ASSUME NEW k \in DOMAIN ms PROVE ms[k].size <= SizeFilled(ms)
  BY <1>1, <1>3, SumNat
<1> QED BY <1>5, <1>6, <1>7, <1>8

\* A placing call that trades returns trades of some size.
LEMMA TradedTyped ==
    ASSUME EngineOK, NEW b, NEW o, NEW p, NEW n \in Nat, Placed(o, b, p, n), b \in BOOLEAN
    PROVE  /\ SizeFilled(matches') \in Nat /\ SizeFilled(matches') = n - size'[o]
           /\ \A K \in SUBSET DOMAIN matches' : Value(matches', K) \in Nat
           /\ matches' # <<>> => SizeFilled(matches') > 0
           /\ SizeFilled(matches') > 0 => VWAP(matches') \in Nat
<1>1. PICK ms : ms = matches'
  OBVIOUS
<1>2. /\ IsFiniteSet(DOMAIN ms) /\ ms = [k \in DOMAIN ms |-> ms[k]]
      /\ \A k \in DOMAIN ms : /\ ms[k].maker \in ToSet(book[~b])
                              /\ ms[k].price = price[ms[k].maker]
                              /\ ms[k].size \in Nat /\ ms[k].size > 0
      /\ SizeFilled(ms) = n - size'[o]
  BY <1>1 DEF Placed, Trades
<1>3. \A x \in ToSet(book[~b]) : price[x] \in Nat
  BY BothSides DEF EngineOK, Rests
<1>4. /\ SizeFilled(ms) \in Nat
      /\ \A K \in SUBSET DOMAIN ms : Value(ms, K) \in Nat
      /\ SizeFilled(ms) > 0 => VWAP(ms) \in Nat
      /\ \A k \in DOMAIN ms : ms[k].size <= SizeFilled(ms)
  BY <1>2, <1>3, TradesTyped
<1>5. ASSUME ms # <<>> PROVE SizeFilled(ms) > 0
  <2>1. DOMAIN ms # {}
    <3> SUFFICES ASSUME DOMAIN ms = {} PROVE FALSE
      OBVIOUS
    <3>1. DOMAIN ms = 1..0
      OBVIOUS
    <3>2. ms \in Seq(Nat)
      BY <1>2, <3>1
    <3>3. ToSet(ms) = {}
      BY <3>1 DEF ToSet
    <3> QED BY <1>5, <3>2, <3>3, InToSet
  <2>2. PICK k \in DOMAIN ms : TRUE
    BY <2>1
  <2> QED BY <1>2, <1>4, <2>2
<1>6. SizeFilled(matches') = SizeFilled(ms)
  BY <1>1
<1> QED BY <1>1, <1>2, <1>4, <1>5

LEMMA StillARow ==
    ASSUME NEW o \in RowSet, NEW w, DOMAIN w = DOMAIN o, w = [x \in DOMAIN w |-> w[x]],
           w.status \in Statuses, w.kind = o.kind, w.bid = o.bid, w.price = o.price,
           w.quantity = o.quantity, w.filled \in Nat, w.notional \in Nat
    PROVE  w \in RowSet
<1>1. DOMAIN o = {"status", "kind", "bid", "price", "quantity", "filled", "notional"}
  BY DEF RowSet
<1>2. w = [status |-> w.status, kind |-> w.kind, bid |-> w.bid, price |-> w.price,
           quantity |-> w.quantity, filled |-> w.filled, notional |-> w.notional]
  BY <1>1
<1>3. w.bid \in BOOLEAN
  BY DEF RowSet
<1>4. w.kind \in {"LIMIT", "MARKET"} /\ w.price \in Nat /\ w.quantity \in Nat
  BY DEF RowSet
<1> QED BY <1>2, <1>3, <1>4 DEF RowSet

\* UpdateExecution and MarkCancelled leave a row of the same order.
LEMMA RowUpdated ==
    ASSUME NEW o \in RowSet, NEW f \in Nat, NEW n \in Nat, NEW s \in Statuses
    PROVE  LET w == With(o, [filled |-> f, notional |-> n, status |-> s])
           IN  /\ w \in RowSet /\ w.filled = f /\ w.notional = n /\ w.status = s
               /\ w.kind = o.kind /\ w.bid = o.bid /\ w.price = o.price /\ w.quantity = o.quantity
<1>1. DOMAIN o = {"status", "kind", "bid", "price", "quantity", "filled", "notional"}
  BY DEF RowSet
<1>2. PICK w : w = With(o, [filled |-> f, notional |-> n, status |-> s])
  OBVIOUS
<1>3. /\ DOMAIN w = DOMAIN o /\ w = [x \in DOMAIN w |-> w[x]]
      /\ w.filled = f /\ w.notional = n /\ w.status = s
  BY <1>1, <1>2 DEF With
<1>4. w.kind = o.kind /\ w.bid = o.bid /\ w.price = o.price /\ w.quantity = o.quantity
  BY <1>1, <1>2 DEF With
<1>5. w \in RowSet
  BY <1>3, <1>4, StillARow
<1> QED BY <1>2, <1>3, <1>4, <1>5

LEMMA RowCancelled ==
    ASSUME NEW o \in RowSet
    PROVE  LET w == With(o, [status |-> "CANCELLED"])
           IN  /\ w \in RowSet /\ w.filled = o.filled /\ w.notional = o.notional
               /\ w.status = "CANCELLED"
               /\ w.kind = o.kind /\ w.bid = o.bid /\ w.price = o.price /\ w.quantity = o.quantity
<1>1. DOMAIN o = {"status", "kind", "bid", "price", "quantity", "filled", "notional"}
  BY DEF RowSet
<1>2. PICK w : w = With(o, [status |-> "CANCELLED"])
  OBVIOUS
<1>3. /\ DOMAIN w = DOMAIN o /\ w = [x \in DOMAIN w |-> w[x]]
      /\ w.filled = o.filled /\ w.notional = o.notional /\ w.status = "CANCELLED"
  BY <1>1, <1>2 DEF With
<1>4. w.kind = o.kind /\ w.bid = o.bid /\ w.price = o.price /\ w.quantity = o.quantity
  BY <1>1, <1>2 DEF With
<1>5. w.filled \in Nat /\ w.notional \in Nat /\ w.status \in Statuses
  BY <1>3 DEF RowSet, Statuses
<1>6. w \in RowSet
  BY <1>3, <1>4, <1>5, StillARow
<1> QED BY <1>2, <1>3, <1>4, <1>6

\* What a SELECT of rows returns.
LEMMA NewestFirstFacts ==
    ASSUME orders \in [Rows -> RowSet], NEW S \in SUBSET Rows
    PROVE  LET s == NewestFirst(S)
           IN  /\ s \in Seq(Todo)
               /\ \A k \in DOMAIN s : s[k].id \in S /\ s[k].row = orders[s[k].id]
               /\ \A r \in S : \E k \in DOMAIN s : s[k].id = r
<1> DEFINE all == [k \in Rows |-> MaxRows + 1 - k]
           ids == E!Select(all, S)
<1>1. all \in Seq(Rows)
  <2>1. \A k \in Rows : MaxRows + 1 - k \in Rows
    BY DEF Rows
  <2>2. all \in [1..MaxRows -> Rows]
    BY <2>1 DEF Rows
  <2> QED BY <2>2
<1>2. ToSet(all) = Rows
  <2>1. \A r \in Rows : MaxRows + 1 - r \in Rows /\ all[MaxRows + 1 - r] = r
    BY DEF Rows
  <2>2. DOMAIN all = Rows
    OBVIOUS
  <2>3. \A r \in Rows : all[r] \in Rows
    BY DEF Rows
  <2> HIDE DEF all
  <2> QED BY <2>1, <2>2, <2>3 DEF ToSet
<1> HIDE DEF all
<1>3. ids \in Seq(Rows) /\ ToSet(ids) = S
  <2>1. Rows \cap S = S
    OBVIOUS
  <2> QED BY <1>1, <1>2, <2>1, SelectSet
<1>4. NewestFirst(S) = [k \in DOMAIN ids |-> [id |-> ids[k], row |-> orders[ids[k]]]]
  BY DEF NewestFirst, all
<1> HIDE DEF ids
<1>5. DOMAIN ids = 1..Len(ids) /\ Len(ids) \in Nat /\ \A k \in DOMAIN ids : ids[k] \in Rows
  BY <1>3, InToSet
<1>6. PICK s : s = NewestFirst(S)
  OBVIOUS
<1>7. DOMAIN s = DOMAIN ids /\ \A k \in DOMAIN s : s[k].id = ids[k] /\ s[k].row = orders[ids[k]]
  BY <1>4, <1>6
<1>8. s \in Seq(Todo)
  <2>1. \A k \in DOMAIN ids : [id |-> ids[k], row |-> orders[ids[k]]] \in Todo
    BY <1>5 DEF Todo
  <2>2. s \in [1..Len(ids) -> Todo]
    BY <1>4, <1>5, <1>6, <2>1
  <2> QED BY <1>5, <2>2
<1>9. \A k \in DOMAIN s : s[k].id \in S /\ s[k].row = orders[s[k].id]
  BY <1>3, <1>7, InToSet
<1>10. \A r \in S : \E k \in DOMAIN s : s[k].id = r
  BY <1>3, <1>7, InToSet
<1> QED BY <1>6, <1>8, <1>9, <1>10

\* What a market buy is expected to cost is a number.
LEMMA QuoteNat ==
    ASSUME EngineOK, NEW n \in Nat
    PROVE  MarketBuyQuote(n) \in Nat
<1> DEFINE asks   == ToSet(book[FALSE])
           levels == {price[o] : o \in asks}
           vol(P) == SumFunctionOnSet(size, {o \in asks : price[o] \in P})
           take(p) == Max({0, Min({vol({p}), n - vol({q \in levels : q < p})})})
           cost0  == [p \in levels |-> Notional(p, take(p))]
<1>1. book[FALSE] \in Seq(AllOrders) /\ size \in [AllOrders -> Nat] /\ price \in [AllOrders -> Nat]
  BY DEF EngineOK, EngineTyped
<1>2. IsFiniteSet(asks) /\ \A o \in asks : o \in AllOrders
  BY <1>1, FiniteToSet, InToSet
<1> HIDE DEF asks
<1>3. \A P : vol(P) \in Nat
  <2> SUFFICES ASSUME NEW P PROVE vol(P) \in Nat
    OBVIOUS
  <2> DEFINE A == {o \in asks : price[o] \in P}
  <2>1. A \in SUBSET asks
    OBVIOUS
  <2>2. \A o \in A : size[o] \in Nat
    BY <1>1, <1>2
  <2> HIDE DEF A
  <2>3. IsFiniteSet(A)
    BY <1>2, <2>1, FS_Subset
  <2>4. SumFunctionOnSet(size, A) \in Nat
    BY <2>2, <2>3, SumNat
  <2> QED BY <2>4 DEF A
<1>4. \A p : take(p) \in Nat
  <2> SUFFICES ASSUME NEW p PROVE take(p) \in Nat
    OBVIOUS
  <2>1. PICK x \in Nat : x = vol({p})
    BY <1>3
  <2>2. PICK y \in Nat : y = vol({q \in levels : q < p})
    BY <1>3
  <2>3. take(p) = Part(x, n - y)
    BY <2>1, <2>2 DEF Part
  <2>4. n - y \in Int
    OBVIOUS
  <2>5. Part(x, n - y) \in Nat
    <3>1. Part(x, n - y) = IF n - y <= 0 THEN 0 ELSE IF x <= n - y THEN x ELSE n - y
      BY <2>4, PartIs
    <3> QED BY <2>4, <3>1
  <2> HIDE DEF take
  <2> QED BY <2>3, <2>5
<1> HIDE DEF vol, take
<1>5. \A p \in levels : p \in Nat
  BY <1>1, <1>2
<1>6. IsFiniteSet(levels)
  <2>1. PICK s : s = book[FALSE]
    OBVIOUS
  <2>2. DOMAIN s = 1..Len(s) /\ Len(s) \in Nat /\ \A j \in DOMAIN s : s[j] \in asks
    BY <1>1, <2>1, InToSet DEF asks
  <2> DEFINE prices == [j \in 1..Len(s) |-> price[s[j]]]
  <2>3. \A o \in asks : \E j \in DOMAIN s : s[j] = o
    <3>1. s \in Seq(AllOrders) /\ asks = ToSet(s)
      BY <1>1, <2>1 DEF asks
    <3> QED BY <3>1, InToSet
  <2>4. prices \in [1..Len(s) -> levels]
    BY <2>2
  <2>5. \A p \in levels : \E j \in 1..Len(s) : prices[j] = p
    BY <2>2, <2>3
  <2> HIDE DEF prices, levels
  <2>6. prices \in Surjection(1..Len(s), levels)
    BY <2>4, <2>5 DEF Surjection
  <2>7. ExistsSurjection(1..Len(s), levels)
    BY <2>6 DEF ExistsSurjection
  <2> QED BY <2>2, <2>7, FS_NatSurjection
<1>7. \A p \in levels : cost0[p] \in Nat
  BY <1>4, <1>5, NotionalNat
<1>8. MarketBuyQuote(n) = SumFunctionOnSet(cost0, levels)
  BY DEF MarketBuyQuote, asks, vol, take
<1> HIDE DEF cost0, levels
<1> QED BY <1>6, <1>7, <1>8, SumNat

LEMMA BestPriceNat ==
    ASSUME EngineOK, NEW b \in BOOLEAN
    PROVE  BestPrice(b) \in Nat
<1>1. PICK s : s = book[b]
  OBVIOUS
<1>2. s \in Seq(AllOrders) /\ price \in [AllOrders -> Nat]
  BY <1>1 DEF EngineOK, EngineTyped
<1>3. ASSUME s # <<>> PROVE price[Head(s)] \in Nat
  <2>1. Head(s) \in AllOrders
    BY <1>2, <1>3
  <2> QED BY <1>2, <2>1
<1> QED BY <1>1, <1>3 DEF BestPrice

\* What the snapshot shows of the user's orders.
LEMMA SeenTyped ==
    ASSUME EngineOK
    PROVE  /\ DOMAIN RemainingByID = OnBook \cap Rows
           /\ \A x \in OnBook \cap Rows : RemainingByID[x] = size[x] /\ RemainingByID[x] \in Nat
<1>1. \A x \in Rows : size[x] \in Nat
  BY DEF EngineOK, EngineTyped, AllOrders
<1> QED BY <1>1 DEF RemainingByID

-----------------------------------------------------------------------------
(* Every step keeps StateOK: the steps of deposits and withdrawals.         *)

LEMMA EngineSame == ASSUME EngineOK, UNCHANGED engine PROVE EngineOK'
  BY DEF EngineOK, EngineTyped, Rests, engine, Unrepeated, ToSet, AllOrders, Rows, Others

LEMMA WalletSame == ASSUME WalletOK, UNCHANGED wallet PROVE WalletOK'
  BY DEF WalletOK

\* A step that changes no more than where a handler is.
LEMMA OnlyMoves ==
    ASSUME StateOK, ReqOK', UNCHANGED <<wallet, orders, lastRow>>, UNCHANGED engine
    PROVE  StateOK'
  BY EngineSame, WalletSame DEF StateOK, RowSet, Rows, Statuses

\* A step that also leaves another balance.
LEMMA WalletMoves ==
    ASSUME StateOK, ReqOK', WalletOK', UNCHANGED <<orders, lastRow>>, UNCHANGED engine
    PROVE  StateOK'
  BY EngineSame DEF StateOK, RowSet, Rows, Statuses

\* A change of the balance or of what is locked.
LEMMA WalletChange ==
    ASSUME WalletOK, NEW x, x \in Nat,
           \/ wallet' = With(wallet, [balance |-> x])
           \/ wallet' = With(wallet, [locked |-> x])
           \/ wallet' = wallet
    PROVE  WalletOK'
  BY DEF WalletOK, With

LEMMA DepositOK ==
    ASSUME StateOK, NEW t \in Threads, Deposit(t)
    PROVE  StateOK'
<1>1. wallet.balance + Amount \in Nat
  BY DEF StateOK, WalletOK
<1>2. WalletOK'
  BY <1>1, WalletChange DEF Deposit, StateOK
<1>3. ReqOK'
  BY DEF Deposit, StateOK, ReqOK
<1> QED BY <1>2, <1>3, WalletMoves DEF Deposit, market

LEMMA RequestWithdrawalOK ==
    ASSUME StateOK, NEW t \in Threads, RequestWithdrawal(t)
    PROVE  StateOK'
<1>1. PICK f : f = [kind |-> "withdraw", pc |-> "withdraw"]
  OBVIOUS
<1>2. Fits(f)
  BY <1>1 DEF Fits
<1>3. Control(With(Idle, f))
  BY <1>1, IdleTyped, WithControl DEF Typed, Control, At, InLoop
<1>4. Allowed(With(Idle, f))
  BY <1>2, <1>3, IdleTyped, WithTyped DEF Allowed
<1>5. ReqOK'
  BY <1>1, <1>4, Becomes DEF RequestWithdrawal, Start, StateOK
<1> QED BY <1>5, OnlyMoves DEF RequestWithdrawal, market, db

LEMMA WithdrawOK ==
    ASSUME StateOK, NEW t \in Threads, Withdraw(t)
    PROVE  StateOK'
<1>1. wallet.balance >= Amount => wallet.balance - Amount \in Nat
  BY DEF StateOK, WalletOK
<1>2. WalletOK'
  <2>1. CASE wallet.balance >= Amount
    BY <1>1, <2>1, WalletChange DEF Withdraw, StateOK
  <2>2. CASE ~ (wallet.balance >= Amount)
    BY <2>2, WalletSame DEF Withdraw, StateOK
  <2> QED BY <2>1, <2>2
<1>3. ReqOK'
  BY IdleAllowed, Becomes DEF Withdraw, StateOK
<1> QED BY <1>2, <1>3, WalletMoves DEF Withdraw, market

-----------------------------------------------------------------------------
(* The steps of limit and market orders before the engine is called.        *)

LEMMA SubmitLimitOK ==
    ASSUME StateOK, NEW t \in Threads, SubmitLimit(t)
    PROVE  StateOK'
<1> DEFINE worthOf(o) == IF o.bid THEN Notional(o.price, o.quantity) ELSE 0
<1>1. PICK o \in parseOrderInput(TRUE) :
         Start(t, [kind |-> "limit", pc |-> IF o.bid THEN "lock" ELSE "create",
                   lock |-> worthOf(o), bid |-> o.bid, price |-> o.price,
                   quantity |-> o.quantity])
  BY DEF SubmitLimit
<1>2. o.bid \in BOOLEAN /\ o.price \in Prices /\ o.quantity \in Sizes
  BY DEF parseOrderInput
<1>3. PICK worth : worth = worthOf(o)
  OBVIOUS
<1>4. PICK f : f = [kind |-> "limit", pc |-> IF o.bid THEN "lock" ELSE "create",
                    lock |-> worth, bid |-> o.bid, price |-> o.price, quantity |-> o.quantity]
  OBVIOUS
<1>5. worth \in Nat
  BY <1>2, <1>3, NotionalNat
<1>6. /\ DOMAIN f = {"kind", "pc", "lock", "bid", "price", "quantity"}
      /\ f.kind = "limit" /\ f.pc \in {"lock", "create"} /\ f.lock = worth
      /\ f.price = o.price /\ f.quantity = o.quantity
  BY <1>4
<1>7. f.bid = o.bid
  BY <1>4
<1>8. Fits(f)
  BY <1>2, <1>6, <1>7, <1>5 DEF Fits
<1>9. Control(With(Idle, f))
  BY <1>2, <1>6, IdleTyped, WithControl DEF Typed, Control, At, InLoop
<1>10. Allowed(With(Idle, f))
  BY <1>8, <1>9, IdleTyped, WithTyped DEF Allowed
<1>11. ReqOK'
  BY <1>1, <1>3, <1>4, <1>10, Becomes DEF Start, StateOK
<1> QED BY <1>11, OnlyMoves DEF SubmitLimit, market, db

LEMMA SubmitMarketOK ==
    ASSUME StateOK, NEW t \in Threads, SubmitMarket(t)
    PROVE  StateOK'
<1>1. PICK o \in parseOrderInput(FALSE) :
         Start(t, [kind |-> "market", pc |-> IF o.bid THEN "wallet" ELSE "quote",
                   bid |-> o.bid, quantity |-> o.quantity])
  BY DEF SubmitMarket
<1>2. o.bid \in BOOLEAN /\ o.quantity \in Sizes
  BY DEF parseOrderInput
<1>3. PICK f : f = [kind |-> "market", pc |-> IF o.bid THEN "wallet" ELSE "quote",
                    bid |-> o.bid, quantity |-> o.quantity]
  OBVIOUS
<1>4. /\ DOMAIN f = {"kind", "pc", "bid", "quantity"}
      /\ f.kind = "market" /\ f.pc \in {"wallet", "quote"} /\ f.quantity = o.quantity
  BY <1>3
<1>5. f.bid = o.bid
  BY <1>3
<1>6. Fits(f)
  BY <1>2, <1>4, <1>5 DEF Fits
<1>7. Control(With(Idle, f))
  BY <1>2, <1>4, IdleTyped, WithControl DEF Typed, Control, At, InLoop
<1>8. Allowed(With(Idle, f))
  BY <1>6, <1>7, IdleTyped, WithTyped DEF Allowed
<1>9. ReqOK'
  BY <1>1, <1>3, <1>8, Becomes DEF Start, StateOK
<1> QED BY <1>9, OnlyMoves DEF SubmitMarket, market, db

LEMMA ReadWalletOK ==
    ASSUME StateOK, NEW t \in Threads, ReadWallet(t)
    PROVE  StateOK'
<1>1. PICK r : r = req[t]
  OBVIOUS
<1>2. Allowed(r) /\ r.kind = "market"
  BY <1>1 DEF StateOK, ReqOK, Allowed, Control, At, ReadWallet
<1>3. PICK f : f = [pc |-> "quote", available |-> Available]
  OBVIOUS
<1>4. Available \in Int
  BY DEF Available, StateOK, WalletOK
<1>5. Fits(f)
  BY <1>3, <1>4 DEF Fits
<1>6. Control(With(r, f))
  BY <1>2, <1>3, WithControl DEF Allowed, Typed, Control, At, InLoop
<1>7. ReqOK'
  BY <1>1, <1>3, <1>5, <1>6, Moves DEF ReadWallet, StateOK
<1> QED BY <1>7, OnlyMoves DEF ReadWallet, market, db

LEMMA QuoteOK ==
    ASSUME StateOK, NEW t \in Threads, Quote(t)
    PROVE  StateOK'
<1>1. PICK r : r = req[t]
  OBVIOUS
<1>2. Allowed(r) /\ r.kind = "market"
  BY <1>1 DEF StateOK, ReqOK, Allowed, Control, At, Quote
<1>3. r.quantity \in Nat
  BY <1>2 DEF Allowed, Control
<1>4. MarketBuyQuote(r.quantity) \in Nat /\ BestPrice(TRUE) \in Nat /\ BestPrice(FALSE) \in Nat
  BY <1>3, QuoteNat, BestPriceNat DEF StateOK
<1>5. ASSUME NEW f, Set(t, f), DOMAIN f \subseteq {"pc", "price", "estimate"}, "pc" \in DOMAIN f,
             f.pc = "create", f.price \in Nat, "estimate" \in DOMAIN f => f.estimate \in Nat
      PROVE  ReqOK'
  <2>1. Fits(f)
    BY <1>5 DEF Fits
  <2>2. Control(With(r, f))
    BY <1>2, <1>5, WithControl DEF Allowed, Typed, Control, At, InLoop
  <2> QED BY <1>1, <1>5, <2>1, <2>2, Moves DEF StateOK
<1>6. ReqOK'
  <2>1. CASE Become(t, Idle)
    BY <2>1, IdleAllowed, Becomes DEF StateOK
  <2>2. CASE Set(t, [pc |-> "create", price |-> BestPrice(FALSE),
                     estimate |-> MarketBuyQuote(r.quantity)])
    <3>1. PICK f : f = [pc |-> "create", price |-> BestPrice(FALSE),
                        estimate |-> MarketBuyQuote(r.quantity)]
      OBVIOUS
    <3> QED BY <1>4, <1>5, <2>2, <3>1
  <2>3. CASE Set(t, [pc |-> "create", price |-> BestPrice(TRUE)])
    <3>1. PICK f : f = [pc |-> "create", price |-> BestPrice(TRUE)]
      OBVIOUS
    <3> QED BY <1>4, <1>5, <2>3, <3>1
  <2> QED BY <1>1, <2>1, <2>2, <2>3 DEF Quote
<1> QED BY <1>6, OnlyMoves DEF Quote, market, db

LEMMA CreateOK ==
    ASSUME StateOK, NEW t \in Threads, Create(t)
    PROVE  StateOK'
<1>1. PICK r : r = req[t]
  OBVIOUS
<1>2. Allowed(r) /\ r.kind \in {"limit", "market"}
  BY <1>1 DEF StateOK, ReqOK, Allowed, Control, At, Create
<1>3. PICK f : f = [pc |-> "place", row |-> lastRow']
  OBVIOUS
<1>4. lastRow' \in Nat
  BY DEF Create, StateOK
<1>5. Fits(f)
  BY <1>3, <1>4 DEF Fits
<1>6. Control(With(r, f))
  BY <1>2, <1>3, WithControl DEF Allowed, Typed, Control, At, InLoop
<1>7. ReqOK'
  BY <1>1, <1>3, <1>5, <1>6, Moves DEF Create, StateOK
<1>8. orders' \in [Rows -> RowSet]
  <2>1. PICK o : o = [status |-> "OPEN", kind |-> IF r.kind = "limit" THEN "LIMIT" ELSE "MARKET",
                      bid |-> r.bid, price |-> r.price, quantity |-> r.quantity,
                      filled |-> 0, notional |-> 0]
    OBVIOUS
  <2>2. r.bid \in BOOLEAN
    BY <1>2 DEF Allowed, Typed, Fits, Fields
  <2>3. r.price \in Nat /\ r.quantity \in Nat
    BY <1>2 DEF Allowed, Typed, Fits, Fields
  <2>4. o \in RowSet
    BY <2>1, <2>2, <2>3 DEF RowSet, Statuses
  <2>5. orders' = [orders EXCEPT ![lastRow'] = o]
    BY <1>1, <2>1 DEF Create
  <2> QED BY <2>4, <2>5 DEF StateOK
<1>9. WalletOK' /\ EngineOK'
  BY EngineSame, WalletSame DEF Create, StateOK, market
<1> QED BY <1>4, <1>7, <1>8, <1>9 DEF StateOK, RowSet, Rows, Statuses

LEMMA ReleaseOK ==
    ASSUME StateOK, NEW t \in Threads, Release(t)
    PROVE  StateOK'
<1>1. PICK r : r = req[t]
  OBVIOUS
<1>2. Allowed(r)
  BY <1>1 DEF StateOK, ReqOK
<1>3. r.lock \in Nat
  BY <1>2 DEF Allowed, Typed, Fits, Fields
<1>4. CanUnlock(r.lock) => wallet.locked - r.lock \in Nat
  BY <1>3 DEF CanUnlock, StateOK, WalletOK
<1>5. WalletOK'
  <2>1. CASE CanUnlock(r.lock)
    BY <1>1, <1>4, <2>1, WalletChange DEF Release, StateOK
  <2>2. CASE ~ CanUnlock(r.lock)
    BY <1>1, <2>2, WalletSame DEF Release, StateOK
  <2> QED BY <2>1, <2>2
<1>6. ReqOK'
  BY IdleAllowed, Becomes DEF Release, StateOK
<1> QED BY <1>5, <1>6, WalletMoves DEF Release, market

-----------------------------------------------------------------------------
(* The steps of limit and market orders from the call of the engine on.     *)

\* A step that calls the engine and moves on.
LEMMA EngineMoves ==
    ASSUME StateOK, ReqOK', EngineOK', UNCHANGED <<wallet, orders, lastRow>>
    PROVE  StateOK'
  BY WalletSame DEF StateOK, RowSet, Rows, Statuses

LEMMA PlaceLimitOK ==
    ASSUME StateOK, NEW t \in Threads, PlaceLimit(t)
    PROVE  StateOK' /\ Placed(req[t].row, req[t].bid, req[t].price, req[t].quantity)
<1>1. PICK r : r = req[t]
  OBVIOUS
<1>2. Allowed(r) /\ r.kind = "limit"
  BY <1>1 DEF StateOK, ReqOK, PlaceLimit
<1>3. r.bid \in BOOLEAN
  BY <1>2 DEF Allowed, Typed, Fits, Fields
<1>4. r.price \in Prices /\ r.quantity \in Sizes
  BY <1>2 DEF Allowed, Control
<1>5. E!LimitOrder(r.row, r.bid, r.price, r.quantity)
  BY <1>1 DEF PlaceLimit
<1>6. EngineOK' /\ Placed(r.row, r.bid, r.price, r.quantity)
  BY <1>3, <1>4, <1>5, LimitPlaced DEF StateOK
<1>7. /\ SizeFilled(matches') \in Nat
      /\ matches' # <<>> => SizeFilled(matches') > 0
      /\ SizeFilled(matches') > 0 => VWAP(matches') \in Nat
  BY <1>3, <1>4, <1>6, TradedTyped DEF StateOK
<1>8. PICK f : f = [pc |-> "readSize", got |-> SizeFilled(matches'),
                    paidPrice |-> IF matches' = <<>> THEN r.price ELSE VWAP(matches')]
  OBVIOUS
<1>9. f.got \in Nat /\ f.paidPrice \in Nat /\ f.pc = "readSize" /\ DOMAIN f = {"pc", "got", "paidPrice"}
  BY <1>4, <1>7, <1>8
<1>10. Fits(f)
  BY <1>9 DEF Fits
<1>11. r.row \in AllOrders
  BY <1>6 DEF Placed
<1>12. Control(With(r, f))
  BY <1>2, <1>9, <1>11, WithControl DEF Allowed, Typed, Control, At, InLoop
<1>13. ReqOK'
  BY <1>1, <1>8, <1>10, <1>12, Moves DEF PlaceLimit, StateOK
<1>14. StateOK'
  BY <1>6, <1>13, EngineMoves DEF PlaceLimit, db
<1> QED BY <1>1, <1>6, <1>14

LEMMA ReadSizeOK ==
    ASSUME StateOK, NEW t \in Threads, ReadSize(t)
    PROVE  StateOK'
<1>1. PICK r : r = req[t]
  OBVIOUS
<1>2. Allowed(r) /\ r.pc = "readSize" /\ r.kind = "limit"
  BY <1>1 DEF StateOK, ReqOK, Allowed, Control, At, ReadSize
<1>3. PICK c : c = FilledSoFar(r)
  OBVIOUS
<1>4. c \in Nat
  <2>1. r.row \in AllOrders /\ r.quantity \in Nat
    BY <1>2 DEF Allowed, Control
  <2>2. r.got \in Nat
    BY <1>2 DEF Allowed, Typed, Fits, Fields
  <2>3. PICK x : x = r.quantity - size[r.row]
    OBVIOUS
  <2>4. x \in Int
    BY <2>1, <2>3 DEF StateOK, EngineOK, EngineTyped
  <2>5. PICK y \in Nat : y = r.got
    BY <2>2
  <2>6. c = Max({x, y})
    BY <1>3, <2>3, <2>5 DEF FilledSoFar
  <2>7. Max({x, y}) \in Int /\ y <= Max({x, y})
    <3>1. x \in Int /\ y \in Int
      BY <2>4
    <3> QED BY <3>1, MaxOfTwo, Zenon
  <2> QED BY <2>6, <2>7
<1>5. Notional(r.paidPrice, c) \in Nat
  <2>1. r.paidPrice \in Nat
    BY <1>2 DEF Allowed, Typed, Fits, Fields
  <2> QED BY <1>4, <2>1, NotionalNat
<1>6. PICK f : f = [pc |-> "readStatus", filled |-> c, notional |-> Notional(r.paidPrice, c)]
  OBVIOUS
<1>7. Fits(f)
  BY <1>4, <1>5, <1>6 DEF Fits
<1>8. Control(With(r, f))
  BY <1>2, <1>6, WithControl DEF Allowed, Typed, Control, At, InLoop
<1>9. ReqOK'
  BY <1>1, <1>3, <1>6, <1>7, <1>8, Moves DEF ReadSize, StateOK
<1> QED BY <1>9, OnlyMoves DEF ReadSize, market, db

LEMMA ReadStatusOK ==
    ASSUME StateOK, NEW t \in Threads, ReadStatus(t)
    PROVE  StateOK'
<1>1. PICK r : r = req[t]
  OBVIOUS
<1>2. Allowed(r) /\ r.pc = "readStatus" /\ r.kind = "limit"
  BY <1>1 DEF StateOK, ReqOK, Allowed, Control, At, ReadStatus
<1>3. r.notional \in Nat /\ r.price \in Nat /\ r.filled \in Nat
  BY <1>2 DEF Allowed, Typed, Fits, Fields
<1>4. FilledLock(r) \in Nat
  BY <1>3, NotionalNat DEF FilledLock
<1>5. PICK f : f = [pc |-> IF r.bid /\ r.filled > 0 THEN "debit" ELSE "update",
                    debit |-> r.notional, unlock |-> FilledLock(r),
                    status |-> IF size[r.row] = 0 THEN "FILLED"
                               ELSE IF r.filled > 0 THEN "PARTIALLY_FILLED" ELSE "OPEN"]
  OBVIOUS
<1>6. /\ DOMAIN f = {"pc", "debit", "unlock", "status"} /\ f.debit \in Nat /\ f.unlock \in Nat
      /\ f.pc \in {"debit", "update"} /\ f.status \in {"FILLED", "PARTIALLY_FILLED", "OPEN"}
  BY <1>3, <1>4, <1>5
<1>7. Fits(f)
  BY <1>6 DEF Fits, Statuses
<1>8. Control(With(r, f))
  BY <1>2, <1>6, WithControl DEF Allowed, Typed, Control, At, InLoop
<1>9. ReqOK'
  BY <1>1, <1>5, <1>7, <1>8, Moves DEF ReadStatus, StateOK
<1> QED BY <1>9, OnlyMoves DEF ReadStatus, market, db

LEMMA PlaceMarketOK ==
    ASSUME StateOK, NEW t \in Threads, PlaceMarket(t)
    PROVE  StateOK'
<1>1. PICK r : r = req[t]
  OBVIOUS
<1>2. Allowed(r) /\ r.kind = "market"
  BY <1>1 DEF StateOK, ReqOK, PlaceMarket
<1>3. r.bid \in BOOLEAN
  BY <1>2 DEF Allowed, Typed, Fits, Fields
<1>4. r.estimate \in Nat /\ r.price \in Nat /\ r.quantity \in Sizes /\ r.quantity \in Nat
  BY <1>2 DEF Allowed, Typed, Control, Fits, Fields
<1>5. CASE E!RefuseMarketOrder(r.row, r.bid, r.quantity) /\ Set(t, [pc |-> "delete"])
  <2>1. EngineOK'
    BY <1>3, <1>4, <1>5, MarketRefused DEF StateOK
  <2>2. PICK f : f = [pc |-> "delete"]
    OBVIOUS
  <2>3. Fits(f)
    BY <2>2 DEF Fits
  <2>4. Control(With(r, f))
    BY <1>2, <2>2, WithControl DEF Allowed, Typed, Control, At, InLoop
  <2>5. ReqOK'
    BY <1>1, <1>5, <2>2, <2>3, <2>4, Moves DEF StateOK
  <2> QED BY <2>1, <2>5, EngineMoves DEF PlaceMarket, db
<1>6. CASE E!MarketOrder(r.row, r.bid, r.quantity)
            /\ LET n == Notional(VWAP(matches'), r.quantity)
                   v == IF n > 0 \/ ~ r.bid THEN n
                        ELSE IF r.estimate > 0 THEN r.estimate ELSE Notional(r.price, r.quantity)
               IN  Set(t, [pc |-> IF r.bid THEN "debit" ELSE "update", filled |-> r.quantity,
                           notional |-> v, debit |-> v, unlock |-> 0, status |-> "FILLED"])
  <2>1. EngineOK' /\ Placed(r.row, r.bid, 0, r.quantity) /\ size'[r.row] = 0
    BY <1>3, <1>4, <1>6, MarketPlaced DEF StateOK
  <2>2. VWAP(matches') \in Nat
    <3>1. /\ SizeFilled(matches') = r.quantity - size'[r.row]
          /\ SizeFilled(matches') > 0 => VWAP(matches') \in Nat
      BY <1>3, <1>4, <2>1, TradedTyped DEF StateOK
    <3>2. r.quantity > 0
      BY <1>4
    <3> QED BY <1>4, <2>1, <3>1, <3>2
  <2>3. PICK n : n = Notional(VWAP(matches'), r.quantity)
    OBVIOUS
  <2>4. n \in Nat /\ Notional(r.price, r.quantity) \in Nat
    BY <1>4, <2>2, <2>3, NotionalNat
  <2>5. PICK v : v = IF n > 0 \/ ~ r.bid THEN n
                     ELSE IF r.estimate > 0 THEN r.estimate ELSE Notional(r.price, r.quantity)
    OBVIOUS
  <2>6. v \in Nat
    BY <1>4, <2>4, <2>5
  <2>7. PICK f : f = [pc |-> IF r.bid THEN "debit" ELSE "update", filled |-> r.quantity,
                      notional |-> v, debit |-> v, unlock |-> 0, status |-> "FILLED"]
    OBVIOUS
  <2>8. /\ DOMAIN f = {"pc", "filled", "notional", "debit", "unlock", "status"}
        /\ f.pc \in {"debit", "update"} /\ f.filled = r.quantity /\ f.notional = v
        /\ f.debit = v /\ f.unlock = 0 /\ f.status = "FILLED"
    BY <2>7
  <2>9. Fits(f)
    BY <1>4, <2>6, <2>8 DEF Fits, Statuses
  <2>10. Control(With(r, f))
    BY <1>2, <2>8, WithControl DEF Allowed, Typed, Control, At, InLoop
  <2>11. Set(t, f)
    BY <1>6, <2>3, <2>5, <2>7
  <2>12. ReqOK'
    BY <1>1, <2>9, <2>10, <2>11, Moves DEF StateOK
  <2> QED BY <2>1, <2>12, EngineMoves DEF PlaceMarket, db
<1> QED BY <1>1, <1>5, <1>6 DEF PlaceMarket

LEMMA DeleteOK ==
    ASSUME StateOK, NEW t \in Threads, DeleteByEngineOrderID(t)
    PROVE  StateOK'
<1>1. ReqOK'
  BY IdleAllowed, Becomes DEF DeleteByEngineOrderID, StateOK
<1>2. orders' \in [Rows -> RowSet]
  BY NoRowTyped DEF DeleteByEngineOrderID, StateOK
<1>3. WalletOK' /\ EngineOK'
  BY EngineSame, WalletSame DEF DeleteByEngineOrderID, StateOK, market
<1> QED BY <1>1, <1>2, <1>3 DEF DeleteByEngineOrderID, StateOK, RowSet, Rows, Statuses

-----------------------------------------------------------------------------
(* The statements several handlers share.                                   *)

\* Unlocking what is above zero.
LEMMA UnlockUpToIs ==
    ASSUME NEW a \in Nat, NEW n
    PROVE  LET f == UnlockUpTo(a, n)
           IN  /\ Fits(f) /\ f.next = n /\ DOMAIN f \subseteq {"pc", "amount", "next"}
               /\ "pc" \in DOMAIN f /\ "next" \in DOMAIN f
               /\ f.pc = IF a > 0 THEN "unlockRead" ELSE n
               /\ "amount" \in DOMAIN f => f.amount = a
  BY DEF UnlockUpTo, Fits

\* The rest of a sync follows in any case.
LEMMA NextOrderAllowed ==
    ASSUME NEW r, Allowed(r), r.todo # <<>>, r.kind \in {"sync", "cancel"}
    PROVE  Allowed(NextOrder(r))
<1>1. PICK f : f = [pc |-> "order", todo |-> Tail(r.todo)]
  OBVIOUS
<1>2. r.todo \in Seq(Todo)
  BY DEF Allowed, Typed, Fits, Fields
<1>3. Tail(r.todo) \in Seq(Todo)
  BY <1>2
<1>4. Fits(f)
  BY <1>1, <1>3 DEF Fits
<1>5. Control(With(r, f))
  BY <1>1, WithControl DEF Allowed, Typed, Control, At, InLoop
<1> QED BY <1>1, <1>4, <1>5, WithTyped DEF Allowed, NextOrder

LEMMA AfterSyncAllowed ==
    ASSUME NEW r, Allowed(r)
    PROVE  Allowed(AfterSync(r))
<1>1. CASE r.kind = "cancel"
  <2>1. PICK f : f = [kind |-> "cancel", row |-> r.row, pc |-> "get"]
    OBVIOUS
  <2>2. r.row \in Rows
    BY <1>1 DEF Allowed, Control
  <2>3. Fits(f)
    BY <2>1, <2>2 DEF Fits, Rows
  <2>4. Control(With(Idle, f))
    BY <2>1, <2>2, IdleTyped, WithControl DEF Typed, Control, At, InLoop
  <2> QED BY <1>1, <2>1, <2>3, <2>4, IdleTyped, WithTyped DEF Allowed, AfterSync
<1>2. CASE r.kind # "cancel"
  BY <1>2, IdleAllowed DEF AfterSync
<1> QED BY <1>1, <1>2

\* Whichever statement fails, the handler goes on somewhere it may be.
LEMMA OnErrorAllowed ==
    ASSUME NEW r, Allowed(r), r.pc \in Statements
    PROVE  Allowed(OnError(r))
<1>1. ASSUME NEW p, r.kind \in {"limit", "market"}, p \in {"release", "update"},
             r.kind = "market" => p = "update"
      PROVE  Allowed(With(r, [pc |-> p]))
  <2>1. PICK f : f = [pc |-> p]
    OBVIOUS
  <2>2. Fits(f)
    BY <2>1 DEF Fits
  <2>3. Control(With(r, f))
    BY <1>1, <2>1, WithControl DEF Allowed, Typed, Control, At, InLoop
  <2> QED BY <2>1, <2>2, <2>3, WithTyped DEF Allowed
<1>2. ASSUME r.kind = "limit" PROVE Allowed(With(r, UnlockUpTo(r.lock, "update")))
  <2>1. PICK f : f = UnlockUpTo(r.lock, "update")
    OBVIOUS
  <2>2. r.lock \in Nat
    BY DEF Allowed, Typed, Fits, Fields
  <2>3. /\ Fits(f) /\ f.next = "update" /\ DOMAIN f \subseteq {"pc", "amount", "next"}
        /\ "pc" \in DOMAIN f /\ "next" \in DOMAIN f
        /\ f.pc = IF r.lock > 0 THEN "unlockRead" ELSE "update"
    BY <2>1, <2>2, UnlockUpToIs
  <2>4. Control(With(r, f))
    BY <1>2, <2>3, WithControl DEF Allowed, Typed, Control, At, InLoop
  <2> QED BY <2>1, <2>3, <2>4, WithTyped DEF Allowed
<1>3. ASSUME InLoop(r) PROVE Allowed(NextOrder(r))
  BY <1>3, NextOrderAllowed DEF Allowed, Control, InLoop
<1>4. CASE r.pc = "list"
  BY <1>4, AfterSyncAllowed DEF OnError, InSync
<1>5. CASE r.pc = "create" /\ r.kind = "limit" /\ r.bid
  BY <1>1, <1>5 DEF OnError, InSync
<1>6. CASE r.pc = "debit" /\ r.kind = "limit"
  BY <1>2, <1>6 DEF OnError, InSync
<1>7. CASE r.pc = "debit" /\ r.kind = "market"
  BY <1>1, <1>7 DEF OnError, InSync
<1>8. CASE r.pc = "debit" /\ r.kind \in {"sync", "cancel"}
  <2>1. InLoop(r) /\ InSync(r)
    BY <1>8 DEF InLoop, InSync
  <2> QED BY <1>3, <1>8, <2>1 DEF OnError
<1>9. CASE r.pc \in {"unlockRead", "unlockWrite"} /\ r.kind = "limit"
  BY <1>1, <1>9 DEF OnError, InSync
<1>10. CASE r.pc \in {"unlockRead", "unlockWrite"} /\ r.kind \in {"sync", "cancel"} /\ r.next = "update"
  <2>1. InLoop(r) /\ InSync(r)
    BY <1>10 DEF InLoop, InSync
  <2> QED BY <1>3, <1>10, <2>1 DEF OnError
<1>11. CASE r.pc = "update" /\ InSync(r)
  BY <1>11, AfterSyncAllowed DEF OnError
<1>12. CASE /\ r.pc # "list" /\ ~ (r.pc = "create" /\ r.kind = "limit" /\ r.bid)
            /\ ~ (r.pc = "debit" /\ r.kind \in {"limit", "market", "sync", "cancel"})
            /\ ~ (r.pc \in {"unlockRead", "unlockWrite"} /\ r.kind = "limit")
            /\ ~ (r.pc \in {"unlockRead", "unlockWrite"} /\ r.next = "update"
                  /\ r.kind \in {"sync", "cancel"})
            /\ ~ (r.pc = "update" /\ InSync(r))
  <2>1. OnError(r) = Idle
    BY <1>12 DEF OnError, InSync
  <2> QED BY <2>1, IdleAllowed
<1> QED BY <1>4, <1>5, <1>6, <1>7, <1>8, <1>9, <1>10, <1>11, <1>12

LEMMA StatementFailsOK ==
    ASSUME StateOK, NEW t \in Threads, StatementFails(t)
    PROVE  StateOK'
<1>1. PICK r : r = req[t]
  OBVIOUS
<1>2. Allowed(r) /\ r.pc \in Statements
  BY <1>1 DEF StateOK, ReqOK, StatementFails
<1>3. PICK w : w = OnError(r)
  OBVIOUS
<1>4. Allowed(w)
  BY <1>2, <1>3, OnErrorAllowed
<1>5. ReqOK'
  BY <1>1, <1>3, <1>4, Becomes DEF StatementFails, StateOK
<1> QED BY <1>5, OnlyMoves DEF StatementFails, market, db

LEMMA DebitOK ==
    ASSUME StateOK, NEW t \in Threads, DebitWallet(t)
    PROVE  StateOK'
<1>1. PICK r : r = req[t]
  OBVIOUS
<1>2. Allowed(r) /\ r.pc = "debit"
  BY <1>1 DEF StateOK, ReqOK, DebitWallet
<1>3. r.debit \in Nat /\ r.unlock \in Nat
  BY <1>2 DEF Allowed, Typed, Fits, Fields
<1>4. CASE wallet.balance >= r.debit
  <2>1. PICK f : f = UnlockUpTo(r.unlock, "update")
    OBVIOUS
  <2>2. /\ Fits(f) /\ f.next = "update" /\ DOMAIN f \subseteq {"pc", "amount", "next"}
        /\ "pc" \in DOMAIN f /\ "next" \in DOMAIN f
        /\ f.pc = IF r.unlock > 0 THEN "unlockRead" ELSE "update"
    BY <1>3, <2>1, UnlockUpToIs
  <2>3. f.pc = "update" \/ r.kind # "market" => Control(With(r, f))
    BY <1>2, <2>2, WithControl DEF Allowed, Typed, Control, At, InLoop
  <2>4. r.kind = "market" => r.unlock = 0
    BY <1>2 DEF Allowed, Control
  <2>5. Control(With(r, f))
    BY <1>3, <2>2, <2>3, <2>4
  <2>6. ReqOK'
    BY <1>1, <1>4, <2>1, <2>2, <2>5, Moves DEF DebitWallet, StateOK
  <2>7. wallet.balance - r.debit \in Nat
    BY <1>3, <1>4 DEF StateOK, WalletOK
  <2>8. WalletOK'
    BY <1>1, <1>4, <2>7, WalletChange DEF DebitWallet, StateOK
  <2> QED BY <2>6, <2>8, WalletMoves DEF DebitWallet, market
<1>5. CASE ~ (wallet.balance >= r.debit)
  <2>1. Allowed(OnError(r))
    BY <1>2, OnErrorAllowed DEF Statements
  <2>2. PICK w : w = OnError(r)
    OBVIOUS
  <2>3. ReqOK'
    BY <1>1, <1>5, <2>1, <2>2, Becomes DEF DebitWallet, StateOK
  <2> QED BY <1>1, <1>5, <2>3, OnlyMoves DEF DebitWallet, market
<1> QED BY <1>4, <1>5

LEMMA UnlockReadOK ==
    ASSUME StateOK, NEW t \in Threads, UnlockRead(t)
    PROVE  StateOK'
<1>1. PICK r : r = req[t]
  OBVIOUS
<1>2. Allowed(r) /\ r.pc = "unlockRead"
  BY <1>1 DEF StateOK, ReqOK, UnlockRead
<1>3. PICK a : a = Min({r.amount, wallet.locked})
  OBVIOUS
<1>4. a \in Nat
  <2>1. r.amount \in Nat /\ wallet.locked \in Nat
    BY <1>2 DEF Allowed, Typed, Fits, Fields, StateOK, WalletOK
  <2>2. PICK x \in Nat, y \in Nat : x = r.amount /\ y = wallet.locked
    BY <2>1
  <2>3. x \in Int /\ y \in Int
    OBVIOUS
  <2>4. Min({x, y}) \in {x, y}
    BY <2>3, MinOfTwo, Zenon
  <2> QED BY <1>3, <2>2, <2>4
<1>5. PICK f : f = [pc |-> IF a > 0 THEN "unlockWrite" ELSE r.next, amount |-> a]
  OBVIOUS
<1>6. Fits(f)
  BY <1>4, <1>5 DEF Fits
<1>7. Control(With(r, f))
  BY <1>2, <1>5, WithControl DEF Allowed, Typed, Control, At, InLoop
<1>8. ReqOK'
  BY <1>1, <1>3, <1>5, <1>6, <1>7, Moves DEF UnlockRead, StateOK
<1> QED BY <1>8, OnlyMoves DEF UnlockRead, market, db

LEMMA UnlockWriteOK ==
    ASSUME StateOK, NEW t \in Threads, UnlockWrite(t)
    PROVE  StateOK'
<1>1. PICK r : r = req[t]
  OBVIOUS
<1>2. Allowed(r) /\ r.pc = "unlockWrite"
  BY <1>1 DEF StateOK, ReqOK, UnlockWrite
<1>3. r.amount \in Nat
  BY <1>2 DEF Allowed, Typed, Fits, Fields
<1>4. CASE CanUnlock(r.amount)
  <2>1. PICK f : f = [pc |-> r.next]
    OBVIOUS
  <2>2. Fits(f)
    BY <2>1 DEF Fits
  <2>3. Control(With(r, f))
    BY <1>2, <2>1, WithControl DEF Allowed, Typed, Control, At, InLoop
  <2>4. ReqOK'
    BY <1>1, <1>4, <2>1, <2>2, <2>3, Moves DEF UnlockWrite, StateOK
  <2>5. wallet.locked - r.amount \in Nat
    BY <1>3, <1>4 DEF StateOK, WalletOK, CanUnlock
  <2>6. WalletOK'
    BY <1>1, <1>4, <2>5, WalletChange DEF UnlockWrite, StateOK
  <2> QED BY <2>4, <2>6, WalletMoves DEF UnlockWrite, market
<1>5. CASE ~ CanUnlock(r.amount)
  <2>1. Allowed(OnError(r))
    BY <1>2, OnErrorAllowed DEF Statements
  <2>2. PICK w : w = OnError(r)
    OBVIOUS
  <2>3. ReqOK'
    BY <1>1, <1>5, <2>1, <2>2, Becomes DEF UnlockWrite, StateOK
  <2> QED BY <1>1, <1>5, <2>3, OnlyMoves DEF UnlockWrite, market
<1> QED BY <1>4, <1>5

LEMMA UpdateOK ==
    ASSUME StateOK, NEW t \in Threads, UpdateExecution(t)
    PROVE  StateOK'
<1>1. PICK r : r = req[t]
  OBVIOUS
<1>2. Allowed(r) /\ r.pc = "update"
  BY <1>1 DEF StateOK, ReqOK, UpdateExecution
<1>3. r.filled \in Nat /\ r.notional \in Nat /\ r.status \in Statuses
  BY <1>2 DEF Allowed, Typed, Fits, Fields
<1>4. orders' \in [Rows -> RowSet]
  <2>1. PICK id : orders' = IF ~ IsRow(id) THEN orders
                     ELSE [orders EXCEPT ![id] = With(orders[id], [filled   |-> r.filled,
                                                          notional |-> r.notional,
                                                          status   |-> r.status])]
    BY <1>1 DEF UpdateExecution
  <2>2. CASE id \in Rows
    <3>1. PICK w : w = With(orders[id], [filled |-> r.filled, notional |-> r.notional,
                                         status |-> r.status])
      OBVIOUS
    <3>2. PICK o \in RowSet : o = orders[id]
      BY <2>2 DEF StateOK
    <3>3. w \in RowSet
      BY <1>3, <3>1, <3>2, RowUpdated
    <3> QED BY <2>1, <3>1, <3>3 DEF StateOK
  <2>3. CASE id \notin Rows
    BY <2>1, <2>3 DEF StateOK
  <2> QED BY <2>2, <2>3
<1>5. ReqOK'
  <2>1. CASE InSync(r)
    <3>1. r.kind \in {"sync", "cancel"} /\ InLoop(r)
      BY <1>2, <2>1 DEF InSync, InLoop
    <3>2. Allowed(NextOrder(r))
      BY <1>2, <3>1, NextOrderAllowed DEF Allowed, Control
    <3>3. PICK w : w = NextOrder(r)
      OBVIOUS
    <3> QED BY <1>1, <2>1, <3>2, <3>3, Becomes DEF UpdateExecution, StateOK
  <2>2. CASE ~ InSync(r)
    BY <1>1, <2>2, IdleAllowed, Becomes DEF UpdateExecution, StateOK
  <2> QED BY <2>1, <2>2
<1>6. WalletOK' /\ EngineOK'
  BY EngineSame, WalletSame DEF UpdateExecution, StateOK, market
<1> QED BY <1>4, <1>5, <1>6 DEF UpdateExecution, StateOK, RowSet, Rows, Statuses

-----------------------------------------------------------------------------
(* The steps of a sync and of a cancellation.                               *)

LEMMA StartSyncOK ==
    ASSUME StateOK, NEW t \in Threads, StartSync(t)
    PROVE  StateOK'
<1>1. ReqOK'
  <2>1. CASE Start(t, [kind |-> "sync", pc |-> "list"])
    <3>1. PICK f : f = [kind |-> "sync", pc |-> "list"]
      OBVIOUS
    <3>2. Fits(f)
      BY <3>1 DEF Fits
    <3>3. Control(With(Idle, f))
      BY <3>1, IdleTyped, WithControl DEF Typed, Control, At, InLoop
    <3>4. Allowed(With(Idle, f))
      BY <3>2, <3>3, IdleTyped, WithTyped DEF Allowed
    <3> QED BY <2>1, <3>1, <3>4, Becomes DEF Start, StateOK
  <2>2. ASSUME NEW q \in Rows, Start(t, [kind |-> "cancel", row |-> q, pc |-> "list"])
        PROVE  ReqOK'
    <3>1. PICK f : f = [kind |-> "cancel", row |-> q, pc |-> "list"]
      OBVIOUS
    <3>2. Fits(f)
      BY <3>1 DEF Fits, Rows
    <3>3. Control(With(Idle, f))
      BY <3>1, IdleTyped, WithControl DEF Typed, Control, At, InLoop
    <3>4. Allowed(With(Idle, f))
      BY <3>2, <3>3, IdleTyped, WithTyped DEF Allowed
    <3> QED BY <2>2, <3>1, <3>4, Becomes DEF Start, StateOK
  <2> QED BY <2>1, <2>2 DEF StartSync
<1> QED BY <1>1, OnlyMoves DEF StartSync, market, db

LEMMA ListOpenOK ==
    ASSUME StateOK, NEW t \in Threads, ListOpenByUser(t)
    PROVE  StateOK'
<1>1. PICK r : r = req[t]
  OBVIOUS
<1>2. Allowed(r) /\ r.pc = "list" /\ r.kind \in {"sync", "cancel"}
  BY <1>1 DEF StateOK, ReqOK, Allowed, Control, At, ListOpenByUser
<1>3. PICK s : s = OpenRows
  OBVIOUS
<1>4. s \in Seq(Todo)
  <2>1. PICK S : S = Newest({x \in Rows : IsOpen(orders[x])})
    OBVIOUS
  <2>2. S \in SUBSET Rows
    BY <2>1 DEF Newest
  <2> QED BY <1>3, <2>1, <2>2, NewestFirstFacts DEF OpenRows, StateOK
<1>5. PICK f : f = [pc |-> "snapshot", todo |-> s]
  OBVIOUS
<1>6. Fits(f)
  BY <1>4, <1>5 DEF Fits
<1>7. Control(With(r, f))
  BY <1>2, <1>5, WithControl DEF Allowed, Typed, Control, At, InLoop
<1>8. ReqOK'
  <2>1. CASE s = <<>>
    <3>1. PICK w : w = AfterSync(r)
      OBVIOUS
    <3>2. Allowed(w)
      BY <1>2, <3>1, AfterSyncAllowed
    <3> QED BY <1>1, <1>3, <2>1, <3>1, <3>2, Becomes DEF ListOpenByUser, StateOK
  <2>2. CASE s # <<>>
    <3>1. Set(t, f)
      BY <1>1, <1>3, <1>5, <2>2 DEF ListOpenByUser, Set
    <3> QED BY <1>1, <1>6, <1>7, <3>1, Moves DEF StateOK
  <2> QED BY <2>1, <2>2
<1> QED BY <1>8, OnlyMoves DEF ListOpenByUser, market, db

LEMMA StreamOK ==
    ASSUME StateOK, NEW t \in Threads, StreamOrderBook(t)
    PROVE  StateOK'
<1>1. PICK r : r = req[t]
  OBVIOUS
<1>2. Allowed(r) /\ r.kind \in {"sync", "cancel"}
  BY <1>1 DEF StateOK, ReqOK, Allowed, Control, At, StreamOrderBook
<1>3. PICK s : s = RemainingByID
  OBVIOUS
<1>4. PICK f : f = [pc |-> "order", seen |-> s]
  OBVIOUS
<1>5. DOMAIN s \subseteq Rows /\ \A x \in DOMAIN s : s[x] \in Nat
  BY <1>3, SeenTyped DEF StateOK
<1>6. Fits(f)
  BY <1>4, <1>5 DEF Fits
<1>7. Control(With(r, f))
  BY <1>2, <1>4, WithControl DEF Allowed, Typed, Control, At, InLoop
<1>8. ReqOK'
  BY <1>1, <1>3, <1>4, <1>6, <1>7, Moves DEF StreamOrderBook, StateOK
<1> QED BY <1>8, OnlyMoves DEF StreamOrderBook, market, db

LEMMA SyncOrderOK ==
    ASSUME StateOK, NEW t \in Threads, SyncOrder(t)
    PROVE  StateOK'
<1>1. PICK r : r = req[t]
  OBVIOUS
<1>2. Allowed(r) /\ r.pc = "order" /\ r.kind \in {"sync", "cancel"}
  BY <1>1 DEF StateOK, ReqOK, Allowed, Control, At, SyncOrder
<1>3. ReqOK'
  <2>1. CASE r.todo = <<>>
    <3>1. PICK w : w = AfterSync(r)
      OBVIOUS
    <3>2. Allowed(w)
      BY <1>2, <3>1, AfterSyncAllowed
    <3> QED BY <1>1, <2>1, <3>1, <3>2, Becomes DEF SyncOrder, StateOK
  <2>2. CASE r.todo # <<>> /\ Become(t, NextOrder(r))
    <3>1. Allowed(NextOrder(r))
      BY <1>2, <2>2, NextOrderAllowed
    <3>2. PICK w : w = NextOrder(r)
      OBVIOUS
    <3> QED BY <2>2, <3>1, <3>2, Becomes DEF StateOK
  <2>3. CASE r.todo # <<>> /\ ~ Become(t, NextOrder(r))
    <3>1. PICK e : e = Head(r.todo)
      OBVIOUS
    <3>2. e \in Todo
      <4>1. r.todo \in Seq(Todo)
        BY <1>2 DEF Allowed, Typed, Fits, Fields
      <4> QED BY <2>3, <3>1, <4>1
    <3>3. PICK o \in RowSet : o = e.row
      BY <3>2 DEF Todo
    <3>4. PICK left : left = IF e.id \in DOMAIN r.seen THEN r.seen[e.id] ELSE 0
      OBVIOUS
    <3>5. PICK c : c = Max({o.filled, o.quantity - left})
      OBVIOUS
    <3>6. PICK delta : delta = Notional(o.price, FillDelta(o, c))
      OBVIOUS
    <3>7. PICK status : status = statusFromProgress(o.quantity, c)
      OBVIOUS
    <3>8. PICK f : f = [pc |-> IF o.bid /\ delta > 0 THEN "debit" ELSE "update",
                        filled |-> c, notional |-> o.notional + delta, status |-> status,
                        debit |-> delta, unlock |-> delta]
      OBVIOUS
    <3>9. Set(t, f)
      BY <1>1, <2>3, <3>1, <3>3, <3>4, <3>5, <3>6, <3>7, <3>8 DEF SyncOrder
    <3>10. left \in Nat
      BY <1>2, <3>4 DEF Allowed, Typed, Fits, Fields
    <3>11. /\ o.filled \in Nat /\ o.quantity \in Nat /\ o.price \in Nat /\ o.notional \in Nat
      BY DEF RowSet
    <3>12. c \in Nat /\ c >= o.filled
      <4>1. PICK x \in Nat, y \in Int : x = o.filled /\ y = o.quantity - left
        BY <3>10, <3>11
      <4>2. x \in Int /\ y \in Int
        OBVIOUS
      <4>3. Max({x, y}) \in Int /\ x <= Max({x, y})
        BY <4>2, MaxOfTwo, Zenon
      <4> QED BY <3>5, <4>1, <4>3
    <3>13. delta \in Nat
      <4>1. c - o.filled \in Nat
        BY <3>11, <3>12
      <4> QED BY <3>6, <3>11, <4>1, NotionalNat DEF FillDelta
    <3>14. /\ DOMAIN f = {"pc", "filled", "notional", "status", "debit", "unlock"}
           /\ f.pc \in {"debit", "update"} /\ f.filled = c /\ f.notional = o.notional + delta
           /\ f.status = status /\ f.debit = delta /\ f.unlock = delta
      BY <3>8
    <3>15. status \in Statuses
      BY <3>7 DEF statusFromProgress, Statuses
    <3>16. Fits(f)
      BY <3>11, <3>12, <3>13, <3>14, <3>15 DEF Fits
    <3>17. Control(With(r, f))
      BY <1>2, <2>3, <3>14, WithControl DEF Allowed, Typed, Control, At, InLoop
    <3> QED BY <1>1, <3>9, <3>16, <3>17, Moves DEF StateOK
  <2> QED BY <2>1, <2>2, <2>3
<1> QED BY <1>3, OnlyMoves DEF SyncOrder, market, db

LEMMA GetOK ==
    ASSUME StateOK, NEW t \in Threads, GetByIDForUser(t)
    PROVE  StateOK'
<1>1. PICK r : r = req[t]
  OBVIOUS
<1>2. Allowed(r) /\ r.pc = "get" /\ r.kind = "cancel" /\ r.row \in Rows
  BY <1>1 DEF StateOK, ReqOK, Allowed, Control, At, GetByIDForUser
<1>3. PICK o \in RowSet : o = orders[r.row]
  BY <1>2 DEF StateOK
<1>4. ReqOK'
  <2>1. CASE CanCancelOrder(o)
    <3>1. PICK f : f = [pc |-> "cancel", order |-> o]
      OBVIOUS
    <3>2. Fits(f)
      BY <3>1 DEF Fits
    <3>3. Remaining(o) > 0
      BY <2>1 DEF CanCancelOrder
    <3>4. Control(With(r, f))
      BY <1>2, <3>1, <3>3, WithControl DEF Allowed, Typed, Control, At, InLoop
    <3>5. Set(t, f)
      BY <1>1, <1>3, <2>1, <3>1 DEF GetByIDForUser, Set
    <3> QED BY <1>1, <3>2, <3>4, <3>5, Moves DEF StateOK
  <2>2. CASE ~ CanCancelOrder(o)
    BY <1>1, <1>3, <2>2, IdleAllowed, Becomes DEF GetByIDForUser, StateOK
  <2> QED BY <2>1, <2>2
<1> QED BY <1>4, OnlyMoves DEF GetByIDForUser, market, db

LEMMA CancelOrderOK ==
    ASSUME StateOK, NEW t \in Threads, CancelOrderByID(t)
    PROVE  StateOK'
<1>1. PICK r : r = req[t]
  OBVIOUS
<1>2. Allowed(r) /\ r.pc = "cancel" /\ r.kind = "cancel" /\ r.row \in Rows
  BY <1>1 DEF StateOK, ReqOK, Allowed, Control, At, CancelOrderByID
<1>3. PICK o \in RowSet : o = r.order
  BY <1>2 DEF Allowed, Typed, Fits, Fields
<1>4. PICK rem : rem = Remaining(o)
  OBVIOUS
<1>5. rem \in Nat
  BY <1>2, <1>3, <1>4 DEF Allowed, Control, Remaining, RowSet
<1>6. PICK held : held = IF r.row \in OnBook /\ size[r.row] > 0 THEN Min({rem, size[r.row]}) ELSE rem
  OBVIOUS
<1>7. held \in Nat
  <2>1. r.row \in AllOrders
    BY <1>2 DEF AllOrders
  <2>2. PICK y \in Nat : y = size[r.row]
    BY <2>1 DEF StateOK, EngineOK, EngineTyped
  <2>3. rem \in Int /\ y \in Int
    BY <1>5
  <2>4. Min({rem, y}) \in {rem, y}
    BY <2>3, MinOfTwo, Zenon
  <2> QED BY <1>5, <1>6, <2>2, <2>4
<1>8. PICK a : a = IF o.bid THEN Notional(o.price, held) ELSE 0
  OBVIOUS
<1>9. a \in Nat
  <2>1. o.price \in Nat
    BY DEF RowSet
  <2> QED BY <1>7, <1>8, <2>1, NotionalNat
<1>10. PICK f : f = UnlockUpTo(a, "mark")
  OBVIOUS
<1>11. /\ Fits(f) /\ f.next = "mark" /\ DOMAIN f \subseteq {"pc", "amount", "next"}
       /\ "pc" \in DOMAIN f /\ "next" \in DOMAIN f
       /\ f.pc = IF a > 0 THEN "unlockRead" ELSE "mark"
  BY <1>9, <1>10, UnlockUpToIs
<1>12. Control(With(r, f))
  BY <1>2, <1>11, WithControl DEF Allowed, Typed, Control, At, InLoop
<1>13. Set(t, f)
  BY <1>1, <1>3, <1>4, <1>6, <1>8, <1>10 DEF CancelOrderByID
<1>14. ReqOK'
  BY <1>1, <1>11, <1>12, <1>13, Moves DEF StateOK
<1>15. EngineOK'
  <2>1. CASE r.row \in OnBook
    BY <1>1, <2>1, Cancelled DEF CancelOrderByID, StateOK
  <2>2. CASE r.row \notin OnBook
    BY <1>1, <2>2, EngineSame DEF CancelOrderByID, StateOK
  <2> QED BY <2>1, <2>2
<1> QED BY <1>14, <1>15, EngineMoves DEF CancelOrderByID, db

LEMMA MarkOK ==
    ASSUME StateOK, NEW t \in Threads, MarkCancelled(t)
    PROVE  StateOK'
<1>1. ReqOK'
  BY IdleAllowed, Becomes DEF MarkCancelled, StateOK
<1>2. orders' \in [Rows -> RowSet]
  <2>1. PICK id : orders' = IF ~ IsRow(id) THEN orders
                            ELSE [orders EXCEPT ![id] = With(orders[id], [status |-> "CANCELLED"])]
    BY DEF MarkCancelled
  <2>2. CASE id \in Rows
    <3>1. PICK w : w = With(orders[id], [status |-> "CANCELLED"])
      OBVIOUS
    <3>2. PICK o \in RowSet : o = orders[id]
      BY <2>2 DEF StateOK
    <3>3. w \in RowSet
      BY <3>1, <3>2, RowCancelled
    <3> QED BY <2>1, <3>1, <3>3 DEF StateOK
  <2>3. CASE id \notin Rows
    BY <2>1, <2>3 DEF StateOK
  <2> QED BY <2>2, <2>3
<1>3. WalletOK' /\ EngineOK'
  BY EngineSame, WalletSame DEF MarkCancelled, StateOK, market
<1> QED BY <1>1, <1>2, <1>3 DEF MarkCancelled, StateOK, RowSet, Rows, Statuses

-----------------------------------------------------------------------------
(* Other participants, restarts, and the theorem.                           *)

\* The order of another participant is placed like one of the user's.
LEMMA OtherPlaced ==
    ASSUME EngineOK, OtherOrder
    PROVE  EngineOK' /\ \E o \in AllOrders \ Rows, b \in BOOLEAN, p \in Nat, n \in Sizes :
                            Placed(o, b, p, n) /\ Traded(o)
<1>1. PICK o \in Others, b \in BOOLEAN, n \in Sizes :
         /\ \/ E!MarketOrder(o, b, n)
            \/ \E p \in Prices : E!LimitOrder(o, b, p, n)
         /\ Traded(o)
  BY DEF OtherOrder
<1>2. o \notin Rows
  BY DEF Others, Rows
<1>3. CASE E!MarketOrder(o, b, n)
  <2>1. EngineOK' /\ Placed(o, b, 0, n)
    BY <1>3, MarketPlaced
  <2>2. o \in AllOrders /\ 0 \in Nat
    BY <2>1 DEF Placed
  <2> QED BY <1>1, <1>2, <2>1, <2>2
<1>4. ASSUME NEW p \in Prices, E!LimitOrder(o, b, p, n)
      PROVE  EngineOK' /\ Placed(o, b, p, n) /\ o \in AllOrders /\ p \in Nat
  <2>1. EngineOK' /\ Placed(o, b, p, n)
    BY <1>4, LimitPlaced
  <2> QED BY <2>1 DEF Placed
<1> QED BY <1>1, <1>2, <1>3, <1>4

LEMMA OtherCancelled ==
    ASSUME EngineOK, OtherCancel
    PROVE  \E o \in Others : E!Cancel(o) /\ EngineOK' /\ OnBook' = OnBook \ {o} /\ o \in OnBook
  BY Cancelled DEF OtherCancel

LEMMA CrashOK ==
    ASSUME StateOK, Crash
    PROVE  StateOK' /\ OnBook' = {}
<1>1. ReqOK'
  BY IdleAllowed DEF Crash, ReqOK
<1>2. EngineTyped'
  <2>1. book' \in [BOOLEAN -> Seq(AllOrders)]
    <3>1. <<>> \in Seq(AllOrders)
      OBVIOUS
    <3> QED BY <3>1 DEF Crash
  <2> QED BY <2>1 DEF Crash, StateOK, EngineOK, EngineTyped, AllOrders, Rows, Others
<1>3. \A b \in BOOLEAN : book'[b] = <<>>
  BY DEF Crash
<1>4. \A b \in BOOLEAN : Rests(b)'
  BY <1>3, EmptySequence DEF Rests, Unrepeated, ToSet
<1>5. OnBook' = {}
  BY <1>3, EmptySequence DEF OnBook, ToSet
<1>6. WalletOK'
  BY WalletSame DEF Crash, StateOK
<1> QED BY <1>1, <1>2, <1>4, <1>5, <1>6 DEF Crash, StateOK, EngineOK, RowSet, Rows, Statuses

LEMMA InitOK == Init => StateOK
<1> SUFFICES ASSUME Init PROVE StateOK
  OBVIOUS
<1>1. WalletOK
  BY DEF Init, WalletOK
<1>2. orders \in [Rows -> RowSet] /\ lastRow \in Nat
  BY NoRowTyped DEF Init
<1>3. ReqOK
  BY IdleAllowed DEF Init, ReqOK
<1>4. \A b \in BOOLEAN : book[b] = <<>>
  BY DEF Init, E!Init
<1>5. EngineTyped
  <2>1. <<>> \in Seq(AllOrders)
    OBVIOUS
  <2>2. book = [b \in BOOLEAN |-> <<>>]
    BY DEF Init, E!Init
  <2>3. book \in [BOOLEAN -> Seq(AllOrders)]
    BY <2>1, <2>2
  <2> QED BY <2>3 DEF Init, E!Init, EngineTyped, AllOrders
<1>6. \A b \in BOOLEAN : Rests(b)
  BY <1>4, EmptySequence DEF Rests, Unrepeated, ToSet
<1> QED BY <1>1, <1>2, <1>3, <1>5, <1>6 DEF StateOK, EngineOK

\* No step of a handler, of another participant or of the process spoils the state.
LEMMA NextOK == StateOK /\ [Next]_vars => StateOK'
<1> SUFFICES ASSUME StateOK, [Next]_vars PROVE StateOK'
  OBVIOUS
<1>1. CASE OtherOrder
  <2>1. EngineOK'
    BY <1>1, OtherPlaced DEF StateOK
  <2>2. ReqOK'
    BY <1>1 DEF OtherOrder, StateOK, ReqOK
  <2> QED BY <1>1, <2>1, <2>2, EngineMoves DEF OtherOrder, db
<1>2. CASE OtherCancel
  <2>1. EngineOK'
    BY <1>2, OtherCancelled DEF StateOK
  <2>2. ReqOK'
    BY <1>2 DEF OtherCancel, StateOK, ReqOK
  <2> QED BY <1>2, <2>1, <2>2, EngineMoves DEF OtherCancel, db
<1>3. CASE Crash
  BY <1>3, CrashOK
<1>4. ASSUME NEW t \in Threads, Handler(t) PROVE StateOK'
  BY <1>4, DepositOK, RequestWithdrawalOK, WithdrawOK, SubmitLimitOK, LockAmountOK,
     SubmitMarketOK, ReadWalletOK, QuoteOK, CreateOK, ReleaseOK, PlaceLimitOK, ReadSizeOK,
     ReadStatusOK, PlaceMarketOK, DeleteOK, DebitOK, UnlockReadOK, UnlockWriteOK, UpdateOK,
     StartSyncOK, ListOpenOK, StreamOK, SyncOrderOK, GetOK, CancelOrderOK, MarkOK,
     StatementFailsOK DEF Handler
<1>5. CASE UNCHANGED vars
  <2>1. ReqOK'
    BY <1>5 DEF vars, StateOK, ReqOK
  <2> QED BY <1>5, <2>1, OnlyMoves DEF vars, db, market
<1> QED BY <1>1, <1>2, <1>3, <1>4, <1>5 DEF Next

\* However requests interleave, whichever statements fail and whenever the process
\* restarts: wallet, rows and book are of their types and every request is at a step
\* of its handler, with the locals that step relies on.
THEOREM StateAlwaysOK == Spec => []StateOK
<1>1. Init => StateOK
  BY InitOK
<1>2. StateOK /\ [Next]_vars => StateOK'
  BY NextOK
<1> QED BY <1>1, <1>2, PTL DEF Spec

\* No interleaving of any number of requests, no failure and no restart makes the
\* balance or what is locked of it negative.
THEOREM WalletStaysNonNegative == Spec => []WalletNonNegative
<1>1. StateOK => WalletNonNegative
  BY DEF StateOK, WalletOK, WalletNonNegative
<1> QED BY <1>1, StateAlwaysOK, PTL

-----------------------------------------------------------------------------
(* One request at a time: what a row shows and what its order did.          *)

OneAtATime == \A s, t \in Threads : s = t

\* Rows of which the books and the handlers agree what was filled: those that rest,
\* and without failed statements all.
Counted(x) == x \in OnBook \/ failures = 0

Unlocking(r) == r.pc \in {"unlockRead", "unlockWrite"}

\* Between the engine's cancel and the row's mark.
Marking(r) == r.kind = "cancel" /\ (r.pc = "mark" \/ (Unlocking(r) /\ r.next = "mark"))

\* The handler has still to tell the row what became of the order.
Busy(r, x) == r.row = x /\ ((r.kind \in {"limit", "market"} /\ r.pc \in {"place", "delete"}) \/ Marking(r))

UsedUp(x) == x \in received /\ size[x] = 0

RowReal(x) ==
    /\ x \in received \/ IsRow(x) => x <= lastRow
    /\ x \in OnBook => orders[x].kind = "LIMIT" /\ IsOpen(orders[x])
    /\ (IsRow(x) /\ Counted(x)) => orders[x].filled <= Executed(x)
    /\ (failures = 0 /\ x \in fresh /\ IsOpen(orders[x]) /\ \A t \in Threads : ~ Busy(req[t], x)) =>
          x \in OnBook \/ UsedUp(x)

\* A handler that places an order, from its row on.
Placing(r) == r.kind \in {"limit", "market"} /\ r.pc \notin {"lock", "wallet", "quote", "create", "release"}

PlacingReal(r) ==
    /\ r.row \in Rows /\ r.row <= lastRow
    /\ orders[r.row].quantity = r.quantity
    /\ orders[r.row].status = "OPEN" /\ orders[r.row].filled = 0
    /\ r.kind = "limit" => orders[r.row].kind = "LIMIT"
    /\ IF r.pc = "place" THEN r.row \notin received
       ELSE /\ r.row \in received
            /\ r.kind = "market" => r.row \notin OnBook
            /\ r.kind = "limit" => r.got <= Executed(r.row)
            /\ r.pc \notin {"delete", "readSize"} => r.filled <= Executed(r.row)
            /\ r.pc \in {"debit", "unlockRead", "unlockWrite", "update"} /\ r.row \in OnBook =>
                  r.status \in {"OPEN", "PARTIALLY_FILLED"}

\* What a sync has listed ...
TodoReal(r) ==
    \A k \in DOMAIN r.todo :
       LET e == r.todo[k]
       IN  /\ IsRow(e.id) /\ e.row.quantity = orders[e.id].quantity
           /\ Counted(e.id) => e.row.filled <= Executed(e.id)
           /\ r.pc = "snapshot" => IsOpen(orders[e.id])

\* ... and seen in the book.
Looking(r) == r.pc = "order" \/ InLoop(r)

SeenReal(r) ==
    /\ \A x \in Rows : x \in OnBook => x \in DOMAIN r.seen
    /\ \A x \in DOMAIN r.seen : size[x] <= r.seen[x] /\ x \in received /\ (x \in OnBook \/ size[x] = 0)
    /\ \A k \in DOMAIN r.todo :
          LET x == r.todo[k].id IN (failures = 0 /\ x \in fresh /\ x \notin DOMAIN r.seen) => UsedUp(x)

\* The row at the head of the list is about to be written.
HeadReal(r) ==
    LET x == Head(r.todo).id
    IN  /\ Counted(x) => r.filled <= Executed(x)
        /\ x \in OnBook => r.status \in {"OPEN", "PARTIALLY_FILLED"}
        /\ r.status # "NONE"

RequestReal(r) ==
    /\ r.pc \in {"lock", "wallet", "quote", "create"} => lastRow < MaxRows
    /\ Placing(r) => PlacingReal(r)
    /\ r.kind \notin {"sync", "cancel"} => r.todo = <<>>
    /\ TodoReal(r)
    /\ Looking(r) => SeenReal(r)
    /\ InLoop(r) => HeadReal(r)
    /\ Marking(r) => r.row \notin OnBook
    /\ r.pc = "unlockWrite" => r.amount <= wallet.locked

Real ==
    /\ lastRow <= MaxRows /\ failures \in Nat
    /\ \A x \in Rows : RowReal(x)
    /\ \A t \in Threads : RequestReal(req[t])

LEMMA IdleReal == RequestReal(Idle)
<1>1. DOMAIN Idle.todo = {} /\ Idle.todo = <<>> /\ Idle.pc = "idle" /\ Idle.kind = "none"
  BY EmptySequence DEF Idle
<1> QED BY <1>1 DEF RequestReal, Placing, TodoReal, Looking, InLoop, Marking, Unlocking

\* What there is to know of a handler that places an order ...
LEMMA PlacingRequest ==
    ASSUME NEW r, Allowed(r), r.kind \in {"limit", "market"}, r.todo = <<>>,
           r.pc \in {"lock", "wallet", "quote", "create"} => lastRow < MaxRows,
           Placing(r) => PlacingReal(r), r.pc = "unlockWrite" => r.amount <= wallet.locked
    PROVE  RequestReal(r)
<1>1. DOMAIN r.todo = {}
  BY EmptySequence
<1> QED BY <1>1 DEF RequestReal, TodoReal, Looking, InLoop, Marking, Allowed, Control, At

\* ... and of one that follows the orders up.
LEMMA SyncRequest ==
    ASSUME NEW r, Allowed(r), r.kind \in {"sync", "cancel"}, TodoReal(r),
           Looking(r) => SeenReal(r), InLoop(r) => HeadReal(r), Marking(r) => r.row \notin OnBook,
           r.pc = "unlockWrite" => r.amount <= wallet.locked
    PROVE  RequestReal(r)
  BY DEF RequestReal, Placing, Allowed, Control, At

\* Of the only request there is nothing else to show.
LEMMA SoloStep ==
    ASSUME OneAtATime, NEW t \in Threads, NEW w, req'[t] = w,
           lastRow' <= MaxRows, failures' \in Nat, \A x \in Rows : RowReal(x)', RequestReal(w)'
    PROVE  Real'
<1>1. \A s \in Threads : s = t /\ req'[s] = w
  BY DEF OneAtATime
<1>2. \A s \in Threads : RequestReal(req[s])'
  <2> SUFFICES ASSUME NEW s \in Threads PROVE RequestReal(req[s])'
    OBVIOUS
  <2>1. req'[s] = w
    BY <1>1
  <2> QED BY <2>1 DEF RequestReal, PlacingReal, TodoReal, SeenReal, HeadReal, Counted,
     Executed, IsRow, IsOpen, UsedUp, Placing, Looking, InLoop, Marking, Unlocking
<1> QED BY <1>2 DEF Real, Rows

\* Who is busy with a row when there is one request.
LEMMA SoloBusy ==
    ASSUME OneAtATime, NEW t \in Threads, NEW w, req'[t] = w
    PROVE  \A x : /\ (\A s \in Threads : ~ Busy(req[s], x)) <=> ~ Busy(req[t], x)
                  /\ (\A s \in Threads : ~ Busy(req[s], x))' <=> ~ Busy(w, x)
<1>1. \A s \in Threads : s = t /\ req'[s] = w
  BY DEF OneAtATime
<1> QED BY <1>1 DEF Busy, Marking, Unlocking

\* A step after which the only request is at w and nothing but the wallet is
\* different, or a statement has failed.
LEMMA SoloMoves ==
    ASSUME OneAtATime, Real, NEW t \in Threads, NEW w, req'[t] = w,
           UNCHANGED <<orders, lastRow, fresh>>, UNCHANGED engine,
           RequestReal(w), w.pc = "unlockWrite" => wallet' = wallet,
           \/ failures' = failures /\ \A x \in Rows : Busy(req[t], x) => Busy(w, x)
           \/ failures' = failures + 1
    PROVE  Real'
<1>2. OnBook' = OnBook
  BY DEF OnBook, engine, ToSet
<1>3. failures' \in Nat /\ (failures' = 0 => failures = 0 /\ \A x \in Rows : Busy(req[t], x) => Busy(w, x))
  BY DEF Real
<1>4. ASSUME NEW x \in Rows PROVE RowReal(x)'
  <2>1. RowReal(x)
    BY DEF Real
  <2>2. failures' = 0 /\ (\A s \in Threads : ~ Busy(req[s], x))' => \A s \in Threads : ~ Busy(req[s], x)
    BY <1>3, SoloBusy
  <2> QED BY <1>2, <1>3, <2>1, <2>2 DEF RowReal, engine, Counted, Executed, IsRow, IsOpen, UsedUp
<1>5. RequestReal(w)'
  BY <1>2, <1>3 DEF RequestReal, PlacingReal, TodoReal, SeenReal, HeadReal, Counted, Executed,
              IsRow, IsOpen, UsedUp, Placing, Looking, InLoop, Marking, Unlocking, engine
<1>6. lastRow' <= MaxRows
  BY DEF Real
<1> QED BY <1>3, <1>4, <1>5, <1>6, SoloStep

\* What RequestReal speaks of besides.
LEMMA WithLocals ==
    ASSUME NEW r, DOMAIN r = Fields, NEW f
    PROVE  LET w == With(r, f)
           IN  /\ w.got = IF "got" \in DOMAIN f THEN f.got ELSE r.got
               /\ w.filled = IF "filled" \in DOMAIN f THEN f.filled ELSE r.filled
               /\ w.status = IF "status" \in DOMAIN f THEN f.status ELSE r.status
               /\ w.amount = IF "amount" \in DOMAIN f THEN f.amount ELSE r.amount
               /\ w.seen = IF "seen" \in DOMAIN f THEN f.seen ELSE r.seen
  BY WithIs DEF Fields

\* A handler that has moved to w is where it may be.
LEMMA Moved ==
    ASSUME StateOK, StateOK', NEW t \in Threads, NEW w, Become(t, w)
    PROVE  Allowed(w) /\ req'[t] = w /\ Allowed(req[t])
<1>1. req'[t] = w
  BY DEF StateOK, ReqOK, Become
<1>2. Allowed(req'[t]) /\ Allowed(req[t])
  BY DEF StateOK, ReqOK
<1> QED BY <1>1, <1>2

\* After its sync, and after each of its orders, a handler has nothing to be wrong about.
LEMMA AfterSyncReal ==
    ASSUME NEW r, Allowed(r)
    PROVE  RequestReal(AfterSync(r)) /\ AfterSync(r).pc # "unlockWrite"
<1>1. CASE r.kind = "cancel"
  <2>1. PICK f : f = [kind |-> "cancel", row |-> r.row, pc |-> "get"]
    OBVIOUS
  <2>2. PICK w : w = With(Idle, f)
    OBVIOUS
  <2>3. DOMAIN Idle = Fields /\ Idle.todo = <<>>
    BY IdleTyped DEF Typed, Idle
  <2>4. w.kind = "cancel" /\ w.pc = "get" /\ w.todo = <<>>
    BY <2>1, <2>2, <2>3, WithControl
  <2>5. DOMAIN w.todo = {}
    BY <2>4, EmptySequence
  <2>6. RequestReal(w)
    BY <2>4, <2>5 DEF RequestReal, Placing, TodoReal, Looking, InLoop, Marking, Unlocking
  <2> QED BY <1>1, <2>1, <2>2, <2>4, <2>6 DEF AfterSync
<1>2. CASE r.kind # "cancel"
  BY <1>2, IdleReal DEF AfterSync, Idle
<1> QED BY <1>1, <1>2

LEMMA InTail ==
    ASSUME NEW S, NEW s \in Seq(S), s # <<>>
    PROVE  /\ 1 \in DOMAIN s /\ Head(s) = s[1] /\ Head(s) \in S
           /\ \A k \in DOMAIN Tail(s) : k + 1 \in DOMAIN s /\ Tail(s)[k] = s[k + 1]
  OBVIOUS

LEMMA NextOrderReal ==
    ASSUME NEW r, Allowed(r), RequestReal(r), r.todo # <<>>, Looking(r), r.kind \in {"sync", "cancel"}
    PROVE  RequestReal(NextOrder(r)) /\ NextOrder(r).pc = "order"
<1>1. PICK f : f = [pc |-> "order", todo |-> Tail(r.todo)]
  OBVIOUS
<1>2. PICK w : w = With(r, f)
  OBVIOUS
<1>3. DOMAIN r = Fields /\ r.todo \in Seq(Todo)
  BY DEF Allowed, Typed, Fits, Fields
<1>4. DOMAIN f = {"pc", "todo"} /\ f.pc = "order" /\ f.todo = Tail(r.todo)
  BY <1>1
<1>5. w.pc = "order" /\ w.kind = r.kind /\ w.todo = Tail(r.todo)
  BY <1>2, <1>3, <1>4, WithControl
<1>6. w.seen = r.seen
  BY <1>1, <1>2, <1>3, WithLocals
<1>7. \A k \in DOMAIN w.todo : \E l \in DOMAIN r.todo : w.todo[k] = r.todo[l]
  BY <1>3, <1>5, InTail
<1>8. Allowed(w)
  BY <1>1, <1>2, NextOrderAllowed DEF NextOrder
<1>9. TodoReal(w)
  BY <1>5, <1>7 DEF RequestReal, TodoReal
<1>10. SeenReal(w)
  BY <1>6, <1>7 DEF RequestReal, SeenReal
<1>11. ~ InLoop(w) /\ ~ Marking(w)
  BY <1>5 DEF InLoop, Marking, Unlocking
<1> QED BY <1>1, <1>2, <1>5, <1>8, <1>9, <1>10, <1>11, SyncRequest DEF NextOrder

\* A handler that places an order and goes on to unlock or to write its row.
LEMMA PlacingGoesOn ==
    ASSUME NEW r, Allowed(r), RequestReal(r), r.kind \in {"limit", "market"},
           r.pc \in {"debit", "unlockRead", "unlockWrite"},
           NEW f, DOMAIN f \subseteq {"pc", "amount", "next"}, "pc" \in DOMAIN f,
           f.pc \in {"unlockRead", "unlockWrite", "update"},
           Allowed(With(r, f)), f.pc = "unlockWrite" => With(r, f).amount <= wallet.locked
    PROVE  RequestReal(With(r, f))
<1>1. PICK w : w = With(r, f)
  OBVIOUS
<1>2. DOMAIN r = Fields
  BY DEF Allowed, Typed
<1>3. w.pc = f.pc /\ w.kind = r.kind /\ w.row = r.row /\ w.quantity = r.quantity /\ w.todo = r.todo
  BY <1>1, <1>2, WithControl
<1>4. w.got = r.got /\ w.filled = r.filled /\ w.status = r.status
  BY <1>1, <1>2, WithLocals
<1>5. PlacingReal(r) /\ r.todo = <<>>
  BY DEF RequestReal, Placing
<1>6. PlacingReal(w)
  BY <1>3, <1>4, <1>5 DEF PlacingReal
<1> QED BY <1>1, <1>3, <1>5, <1>6, PlacingRequest

\* Whichever statement fails, what the handler goes on with is real.
LEMMA OnErrorReal ==
    ASSUME NEW r, Allowed(r), RequestReal(r), r.pc \in Statements
    PROVE  RequestReal(OnError(r)) /\ OnError(r).pc # "unlockWrite"
<1>1. CASE r.pc = "list"
  BY <1>1, AfterSyncReal DEF OnError, InSync
<1>2. CASE r.pc = "create" /\ r.kind = "limit" /\ r.bid
  <2>1. PICK f : f = [pc |-> "release"]
    OBVIOUS
  <2>2. PICK w : w = OnError(r)
    OBVIOUS
  <2>3. w = With(r, f)
    BY <1>2, <2>1, <2>2 DEF OnError, InSync
  <2>4. DOMAIN r = Fields /\ DOMAIN f = {"pc"} /\ f.pc = "release" /\ Allowed(w)
    BY <2>1, <2>2, OnErrorAllowed DEF Allowed, Typed
  <2>5. w.pc = "release" /\ w.kind = "limit" /\ w.todo = r.todo
    BY <1>2, <2>3, <2>4, WithControl
  <2>6. r.todo = <<>> /\ ~ Placing(w)
    BY <1>2, <2>5 DEF RequestReal, Placing
  <2>7. RequestReal(w)
    BY <2>4, <2>5, <2>6, PlacingRequest
  <2> QED BY <2>2, <2>5, <2>7
<1>3. CASE r.pc = "debit" /\ r.kind = "limit"
  <2>1. PICK f : f = UnlockUpTo(r.lock, "update")
    OBVIOUS
  <2>2. OnError(r) = With(r, f)
    BY <1>3, <2>1 DEF OnError, InSync
  <2>3. r.lock \in Nat
    BY DEF Allowed, Typed, Fits, Fields
  <2>4. /\ DOMAIN f \subseteq {"pc", "amount", "next"} /\ "pc" \in DOMAIN f
        /\ f.pc \in {"unlockRead", "update"}
    BY <2>1, <2>3, UnlockUpToIs
  <2>5. Allowed(With(r, f)) /\ DOMAIN r = Fields
    BY <2>2, OnErrorAllowed DEF Allowed, Typed
  <2>6. RequestReal(With(r, f))
    BY <1>3, <2>4, <2>5, PlacingGoesOn
  <2>7. With(r, f).pc = f.pc
    BY <2>4, <2>5, WithControl
  <2> QED BY <2>2, <2>4, <2>6, <2>7
<1>4. CASE (r.pc = "debit" /\ r.kind = "market")
        \/ (r.pc \in {"unlockRead", "unlockWrite"} /\ r.kind = "limit")
  <2>1. PICK f : f = [pc |-> "update"]
    OBVIOUS
  <2>2. OnError(r) = With(r, f)
    BY <1>4, <2>1 DEF OnError, InSync
  <2>3. DOMAIN f = {"pc"} /\ f.pc = "update"
    BY <2>1
  <2>4. Allowed(With(r, f)) /\ DOMAIN r = Fields
    BY <2>2, OnErrorAllowed DEF Allowed, Typed
  <2>5. RequestReal(With(r, f))
    BY <1>4, <2>3, <2>4, PlacingGoesOn
  <2>6. With(r, f).pc = f.pc
    BY <2>3, <2>4, WithControl
  <2> QED BY <2>2, <2>3, <2>5, <2>6
<1>5. CASE /\ r.kind \in {"sync", "cancel"}
           /\ \/ r.pc = "debit"
              \/ r.pc \in {"unlockRead", "unlockWrite"} /\ r.next = "update"
  <2>1. OnError(r) = NextOrder(r) /\ InLoop(r)
    BY <1>5 DEF OnError, InSync, InLoop
  <2>2. Looking(r) /\ r.todo # <<>>
    BY <2>1 DEF Looking, Allowed, Control
  <2>3. RequestReal(NextOrder(r)) /\ NextOrder(r).pc = "order"
    BY <1>5, <2>2, NextOrderReal
  <2> QED BY <2>1, <2>3
<1>6. CASE r.pc = "update" /\ InSync(r)
  BY <1>6, AfterSyncReal DEF OnError
<1>7. CASE /\ r.pc # "list" /\ ~ (r.pc = "create" /\ r.kind = "limit" /\ r.bid)
           /\ ~ (r.pc = "debit" /\ r.kind \in {"limit", "market", "sync", "cancel"})
           /\ ~ (r.pc \in {"unlockRead", "unlockWrite"} /\ r.kind = "limit")
           /\ ~ (r.pc \in {"unlockRead", "unlockWrite"} /\ r.next = "update"
                 /\ r.kind \in {"sync", "cancel"})
           /\ ~ (r.pc = "update" /\ InSync(r))
  <2>1. OnError(r) = Idle
    BY <1>7 DEF OnError, InSync
  <2> QED BY <2>1, IdleReal DEF Idle
<1> QED BY <1>1, <1>2, <1>3, <1>4, <1>5, <1>6, <1>7

\* A request that ends where it was not busy with a row.
LEMMA SoloEnds ==
    ASSUME StateOK, OneAtATime, Real, NEW t \in Threads, Become(t, Idle),
           UNCHANGED <<orders, lastRow, fresh, failures>>, UNCHANGED engine,
           \A x \in Rows : ~ Busy(req[t], x)
    PROVE  Real'
<1>1. req'[t] = Idle /\ Idle.pc # "unlockWrite"
  BY DEF StateOK, ReqOK, Become, Idle
<1> QED BY <1>1, IdleReal, SoloMoves

LEMMA DepositReal ==
    ASSUME StateOK, OneAtATime, Real, NEW t \in Threads, Deposit(t) PROVE Real'
<1>1. PICK w : w = req[t]
  OBVIOUS
<1>2. req'[t] = w
  BY <1>1 DEF Deposit
<1>3. RequestReal(w) /\ w.pc = "idle"
  BY <1>1 DEF Real, Deposit
<1> QED BY <1>1, <1>2, <1>3, SoloMoves DEF Deposit, market, faults

LEMMA RequestWithdrawalReal ==
    ASSUME StateOK, OneAtATime, Real, NEW t \in Threads, RequestWithdrawal(t) PROVE Real'
<1>1. PICK f : f = [kind |-> "withdraw", pc |-> "withdraw"]
  OBVIOUS
<1>2. PICK w : w = With(Idle, f)
  OBVIOUS
<1>3. DOMAIN Idle = Fields /\ Idle.todo = <<>>
  BY IdleTyped DEF Typed, Idle
<1>4. w.kind = "withdraw" /\ w.pc = "withdraw" /\ w.todo = <<>>
  BY <1>1, <1>2, <1>3, WithControl
<1>5. RequestReal(w)
  BY <1>4, EmptySequence DEF RequestReal, Placing, TodoReal, Looking, InLoop, Marking, Unlocking
<1>6. req'[t] = w
  BY <1>1, <1>2 DEF RequestWithdrawal, Start, Become, StateOK, ReqOK
<1>7. \A x : ~ Busy(req[t], x)
  BY DEF RequestWithdrawal, Busy, Marking, Unlocking
<1> QED BY <1>4, <1>5, <1>6, <1>7, SoloMoves DEF RequestWithdrawal, db, faults, market

LEMMA WithdrawReal ==
    ASSUME StateOK, OneAtATime, Real, NEW t \in Threads, Withdraw(t) PROVE Real'
<1>1. \A x \in Rows : ~ Busy(req[t], x)
  BY DEF Withdraw, Busy, Marking, Unlocking
<1> QED BY <1>1, SoloEnds DEF Withdraw, faults, market

\* A request to place an order, before the order has a row.
LEMMA Prepares ==
    ASSUME StateOK, StateOK', OneAtATime, Real, NEW t \in Threads, NEW w, Become(t, w),
           w.kind \in {"limit", "market"}, w.todo = <<>>,
           w.pc \in {"lock", "wallet", "quote", "create"}, lastRow < MaxRows,
           req[t].pc \in {"idle", "lock", "wallet", "quote"},
           UNCHANGED <<orders, lastRow, fresh, failures>>, UNCHANGED engine
    PROVE  Real'
<1>1. Allowed(w) /\ req'[t] = w
  BY Moved
<1>2. ~ Placing(w) /\ w.pc # "unlockWrite"
  BY DEF Placing
<1>3. RequestReal(w)
  BY <1>1, <1>2, PlacingRequest
<1>4. \A x : ~ Busy(req[t], x)
  BY DEF Busy, Marking, Unlocking
<1> QED BY <1>1, <1>2, <1>3, <1>4, SoloMoves

\* There is room for the row of an order that is submitted.
LEMMA RoomForRow ==
    ASSUME StateOK, OneAtATime, NEW t \in Threads, req[t].pc = "idle", CanSubmit
    PROVE  lastRow < MaxRows
<1> DEFINE S == {s \in Threads : req[s].pc \in {"lock", "wallet", "quote", "create"}}
<1>1. S = {}
  BY DEF OneAtATime
<1>2. Cardinality({}) = 0
  BY FS_EmptySet
<1>3. lastRow + Cardinality(S) < MaxRows
  BY DEF CanSubmit
<1> HIDE DEF S
<1> QED BY <1>1, <1>2, <1>3 DEF StateOK

LEMMA SubmitLimitReal ==
    ASSUME StateOK, StateOK', OneAtATime, Real, NEW t \in Threads, SubmitLimit(t) PROVE Real'
<1>1. PICK f : /\ Start(t, f) /\ f.kind = "limit" /\ f.pc \in {"lock", "create"}
               /\ DOMAIN f = {"kind", "pc", "lock", "bid", "price", "quantity"}
  BY DEF SubmitLimit
<1>2. PICK w : w = With(Idle, f)
  OBVIOUS
<1>3. DOMAIN Idle = Fields /\ Idle.todo = <<>>
  BY IdleTyped DEF Typed, Idle
<1>4. w.kind = "limit" /\ w.pc \in {"lock", "create"} /\ w.todo = <<>>
  BY <1>1, <1>2, <1>3, WithControl
<1>5. Become(t, w)
  BY <1>1, <1>2 DEF Start
<1>6. lastRow < MaxRows /\ req[t].pc = "idle"
  BY RoomForRow DEF SubmitLimit
<1> QED BY <1>4, <1>5, <1>6, Prepares DEF SubmitLimit, db, faults, market

LEMMA SubmitMarketReal ==
    ASSUME StateOK, StateOK', OneAtATime, Real, NEW t \in Threads, SubmitMarket(t) PROVE Real'
<1>1. PICK f : /\ Start(t, f) /\ f.kind = "market" /\ f.pc \in {"wallet", "quote"}
               /\ DOMAIN f = {"kind", "pc", "bid", "quantity"}
  BY DEF SubmitMarket
<1>2. PICK w : w = With(Idle, f)
  OBVIOUS
<1>3. DOMAIN Idle = Fields /\ Idle.todo = <<>>
  BY IdleTyped DEF Typed, Idle
<1>4. w.kind = "market" /\ w.pc \in {"wallet", "quote"} /\ w.todo = <<>>
  BY <1>1, <1>2, <1>3, WithControl
<1>5. Become(t, w)
  BY <1>1, <1>2 DEF Start
<1>6. lastRow < MaxRows /\ req[t].pc = "idle"
  BY RoomForRow DEF SubmitMarket
<1> QED BY <1>4, <1>5, <1>6, Prepares DEF SubmitMarket, db, faults, market

\* A request that goes on preparing its order.
LEMMA GoesOnPreparing ==
    ASSUME StateOK, StateOK', OneAtATime, Real, NEW t \in Threads, NEW f, Set(t, f),
           req[t].pc \in {"lock", "wallet", "quote"},
           DOMAIN f \subseteq Fields \ {"kind", "todo"}, "pc" \in DOMAIN f,
           f.pc \in {"lock", "wallet", "quote", "create"},
           UNCHANGED <<orders, lastRow, fresh, failures>>, UNCHANGED engine
    PROVE  Real'
<1>1. PICK r : r = req[t]
  OBVIOUS
<1>2. PICK w : w = With(r, f)
  OBVIOUS
<1>3. Become(t, w)
  BY <1>1, <1>2 DEF Set
<1>4. Allowed(r) /\ RequestReal(r)
  BY <1>1 DEF StateOK, ReqOK, Real
<1>5. r.kind \in {"limit", "market"} /\ DOMAIN r = Fields
  BY <1>1, <1>4 DEF Allowed, Typed, Control, At
<1>6. w.kind = r.kind /\ w.todo = r.todo /\ w.pc = f.pc
  BY <1>2, <1>5, WithControl
<1>7. r.todo = <<>> /\ lastRow < MaxRows
  BY <1>1, <1>4, <1>5 DEF RequestReal
<1> QED BY <1>3, <1>5, <1>6, <1>7, Prepares

LEMMA LockAmountReal ==
    ASSUME StateOK, StateOK', OneAtATime, Real, NEW t \in Threads, LockAmount(t) PROVE Real'
<1>1. CASE CanReserve(req[t].lock)
  <2>1. PICK f : f = [pc |-> "create"]
    OBVIOUS
  <2>2. Set(t, f) /\ req[t].pc = "lock"
    BY <1>1, <2>1 DEF LockAmount
  <2>3. DOMAIN f \subseteq Fields \ {"kind", "todo"} /\ "pc" \in DOMAIN f /\ f.pc = "create"
    BY <2>1 DEF Fields
  <2> QED BY <2>2, <2>3, GoesOnPreparing DEF LockAmount, faults, market
<1>2. CASE ~ CanReserve(req[t].lock)
  <2>1. Become(t, Idle)
    BY <1>2 DEF LockAmount, OnError, InSync
  <2>2. \A x \in Rows : ~ Busy(req[t], x)
    BY DEF LockAmount, Busy, Marking, Unlocking
  <2> QED BY <2>1, <2>2, SoloEnds DEF LockAmount, faults, market
<1> QED BY <1>1, <1>2

LEMMA ReadWalletReal ==
    ASSUME StateOK, StateOK', OneAtATime, Real, NEW t \in Threads, ReadWallet(t) PROVE Real'
<1>1. PICK f : f = [pc |-> "quote", available |-> Available]
  OBVIOUS
<1>2. Set(t, f) /\ req[t].pc = "wallet"
  BY <1>1 DEF ReadWallet
<1>3. DOMAIN f \subseteq Fields \ {"kind", "todo"} /\ "pc" \in DOMAIN f /\ f.pc = "quote"
  BY <1>1 DEF Fields
<1> QED BY <1>2, <1>3, GoesOnPreparing DEF ReadWallet, db, faults, market

LEMMA QuoteReal ==
    ASSUME StateOK, StateOK', OneAtATime, Real, NEW t \in Threads, Quote(t) PROVE Real'
<1>1. CASE Become(t, Idle)
  <2>1. \A x \in Rows : ~ Busy(req[t], x)
    BY DEF Quote, Busy, Marking, Unlocking
  <2> QED BY <1>1, <2>1, SoloEnds DEF Quote, db, faults, market
<1>2. ASSUME NEW f, Set(t, f), DOMAIN f \subseteq {"pc", "price", "estimate"}, "pc" \in DOMAIN f,
             f.pc = "create"
      PROVE  Real'
  <2>1. DOMAIN f \subseteq Fields \ {"kind", "todo"}
    BY <1>2 DEF Fields
  <2>2. req[t].pc = "quote"
    BY DEF Quote
  <2> QED BY <1>2, <2>1, <2>2, GoesOnPreparing DEF Quote, db, faults, market
<1>3. CASE Set(t, [pc |-> "create", price |-> BestPrice(FALSE),
                   estimate |-> MarketBuyQuote(req[t].quantity)])
  BY <1>2, <1>3
<1>4. CASE Set(t, [pc |-> "create", price |-> BestPrice(TRUE)])
  BY <1>2, <1>4
<1> QED BY <1>1, <1>3, <1>4 DEF Quote

LEMMA ReleaseReal ==
    ASSUME StateOK, OneAtATime, Real, NEW t \in Threads, Release(t) PROVE Real'
<1>1. \A x \in Rows : ~ Busy(req[t], x)
  BY DEF Release, Busy, Marking, Unlocking
<1> QED BY <1>1, SoloEnds DEF Release, faults, market

\* A limit order that has been placed reads its size, then its status.
LEMMA ReadSizeReal ==
    ASSUME StateOK, StateOK', OneAtATime, Real, NEW t \in Threads, ReadSize(t) PROVE Real'
<1>1. PICK r : r = req[t]
  OBVIOUS
<1>2. PICK c : c = FilledSoFar(r)
  OBVIOUS
<1>3. PICK f : f = [pc |-> "readStatus", filled |-> c, notional |-> Notional(r.paidPrice, c)]
  OBVIOUS
<1>4. PICK w : w = With(r, f)
  OBVIOUS
<1>5. Become(t, w) /\ r.pc = "readSize"
  BY <1>1, <1>2, <1>3, <1>4 DEF ReadSize, Set
<1>6. Allowed(w) /\ req'[t] = w /\ Allowed(r) /\ RequestReal(r)
  BY <1>1, <1>5, Moved DEF Real
<1>7. r.kind = "limit" /\ DOMAIN r = Fields
  BY <1>5, <1>6 DEF Allowed, Typed, Control, At
<1>8. DOMAIN f = {"pc", "filled", "notional"} /\ f.pc = "readStatus" /\ f.filled = c
  BY <1>3
<1>9. /\ w.pc = "readStatus" /\ w.kind = "limit" /\ w.row = r.row /\ w.quantity = r.quantity
      /\ w.todo = r.todo
  BY <1>4, <1>7, <1>8, WithControl
<1>10. w.got = r.got /\ w.filled = c
  BY <1>4, <1>7, <1>8, WithLocals
<1>11. r.todo = <<>> /\ PlacingReal(r)
  BY <1>5, <1>6, <1>7 DEF RequestReal, Placing
<1>12. r.row \in received /\ r.got <= Executed(r.row) /\ orders[r.row].quantity = r.quantity
       /\ r.row \in Rows
  BY <1>5, <1>7, <1>11 DEF PlacingReal
<1>13. c <= Executed(r.row)
  <2>1. Executed(r.row) = r.quantity - size[r.row]
    BY <1>12 DEF Executed
  <2>2. r.got \in Nat /\ r.quantity \in Nat /\ size[r.row] \in Nat
    BY <1>6, <1>12 DEF Allowed, Typed, Fits, Fields, StateOK, EngineOK, EngineTyped, AllOrders
  <2>3. PICK x \in Int, y \in Int : x = r.quantity - size[r.row] /\ y = r.got
    BY <2>2
  <2>4. Max({x, y}) \in {x, y}
    BY MaxOfTwo, Zenon
  <2> QED BY <1>2, <1>12, <2>1, <2>2, <2>3, <2>4 DEF FilledSoFar
<1>14. PlacingReal(w)
  BY <1>5, <1>7, <1>9, <1>10, <1>11, <1>12, <1>13 DEF PlacingReal
<1>15. RequestReal(w)
  BY <1>6, <1>9, <1>11, <1>14, PlacingRequest
<1>16. \A x : ~ Busy(req[t], x)
  BY <1>1, <1>5 DEF Busy, Marking, Unlocking
<1> QED BY <1>6, <1>9, <1>15, <1>16, SoloMoves DEF ReadSize, db, faults, market

LEMMA ReadStatusReal ==
    ASSUME StateOK, StateOK', OneAtATime, Real, NEW t \in Threads, ReadStatus(t) PROVE Real'
<1>1. PICK r : r = req[t]
  OBVIOUS
<1>2. PICK s : s = IF size[r.row] = 0 THEN "FILLED"
                   ELSE IF r.filled > 0 THEN "PARTIALLY_FILLED" ELSE "OPEN"
  OBVIOUS
<1>3. PICK f : f = [pc |-> IF r.bid /\ r.filled > 0 THEN "debit" ELSE "update",
                    debit |-> r.notional, unlock |-> FilledLock(r), status |-> s]
  OBVIOUS
<1>4. PICK w : w = With(r, f)
  OBVIOUS
<1>5. Become(t, w) /\ r.pc = "readStatus"
  BY <1>1, <1>2, <1>3, <1>4 DEF ReadStatus, Set
<1>6. Allowed(w) /\ req'[t] = w /\ Allowed(r) /\ RequestReal(r)
  BY <1>1, <1>5, Moved DEF Real
<1>7. r.kind = "limit" /\ DOMAIN r = Fields
  BY <1>5, <1>6 DEF Allowed, Typed, Control, At
<1>8. DOMAIN f = {"pc", "debit", "unlock", "status"} /\ f.pc \in {"debit", "update"} /\ f.status = s
  BY <1>3
<1>9. /\ w.pc \in {"debit", "update"} /\ w.kind = "limit" /\ w.row = r.row
      /\ w.quantity = r.quantity /\ w.todo = r.todo
  BY <1>4, <1>7, <1>8, WithControl
<1>10. w.got = r.got /\ w.filled = r.filled /\ w.status = s
  BY <1>4, <1>7, <1>8, WithLocals
<1>11. r.todo = <<>> /\ PlacingReal(r)
  BY <1>5, <1>6, <1>7 DEF RequestReal, Placing
<1>12. r.row \in OnBook => size[r.row] > 0
  BY OnBookSides DEF StateOK, EngineOK, Rests
<1>13. PlacingReal(w)
  BY <1>2, <1>5, <1>7, <1>9, <1>10, <1>11, <1>12 DEF PlacingReal
<1>14. RequestReal(w)
  BY <1>6, <1>9, <1>11, <1>13, PlacingRequest
<1>15. \A x : ~ Busy(req[t], x)
  BY <1>1, <1>5 DEF Busy, Marking, Unlocking
<1> QED BY <1>6, <1>9, <1>14, <1>15, SoloMoves DEF ReadStatus, db, faults, market

\* A handler of any kind that goes on to unlock or to write a row.
LEMMA GoesOn ==
    ASSUME NEW r, Allowed(r), RequestReal(r), r.pc \in {"debit", "unlockRead", "unlockWrite"},
           NEW f, DOMAIN f \subseteq {"pc", "amount", "next"}, "pc" \in DOMAIN f,
           \/ f.pc \in {"unlockRead", "unlockWrite"}
           \/ f.pc = IF r.pc = "debit" THEN "update" ELSE r.next,
           "next" \in DOMAIN f => f.next = "update" /\ r.pc = "debit",
           r.pc = "debit" /\ f.pc # "update" => "next" \in DOMAIN f,
           Allowed(With(r, f)), f.pc = "unlockWrite" => With(r, f).amount <= wallet.locked
    PROVE  RequestReal(With(r, f)) /\ \A x : Busy(r, x) => Busy(With(r, f), x)
<1>1. PICK w : w = With(r, f)
  OBVIOUS
<1>2. DOMAIN r = Fields
  BY DEF Allowed, Typed
<1>3. /\ w.pc = f.pc /\ w.kind = r.kind /\ w.row = r.row /\ w.quantity = r.quantity
      /\ w.todo = r.todo /\ w.next = IF "next" \in DOMAIN f THEN f.next ELSE r.next
  BY <1>1, <1>2, WithControl
<1>4. w.filled = r.filled /\ w.status = r.status /\ w.seen = r.seen
  BY <1>1, <1>2, WithLocals
<1>5. CASE r.kind \in {"limit", "market"}
  <2>1. r.next = "update" \/ r.pc = "debit"
    BY <1>5 DEF Allowed, Control
  <2>2. f.pc \in {"unlockRead", "unlockWrite", "update"}
    BY <2>1
  <2>3. RequestReal(w)
    BY <1>1, <1>5, <2>2, PlacingGoesOn
  <2> QED BY <1>1, <1>5, <2>3 DEF Busy, Marking
<1>6. CASE r.kind \in {"sync", "cancel"}
  <2>1. InLoop(r) <=> InLoop(w)
    BY <1>3, <1>6 DEF InLoop, Allowed, Control
  <2>2. Marking(r) <=> Marking(w)
    BY <1>3, <1>6, <2>1 DEF InLoop, Marking, Unlocking, Allowed, Control
  <2>3. TodoReal(w)
    <3>1. w.pc # "snapshot"
      BY <1>3, <1>6 DEF Allowed, Control
    <3> QED BY <1>3, <3>1 DEF RequestReal, TodoReal
  <2>4. Looking(w) => InLoop(w)
    BY <1>3, <1>6 DEF Looking, Allowed, Control, At
  <2>5. InLoop(w) => SeenReal(w) /\ HeadReal(w)
    BY <1>3, <1>4, <2>1 DEF RequestReal, Looking, SeenReal, HeadReal
  <2>6. Marking(w) => w.row \notin OnBook
    BY <1>3, <2>2 DEF RequestReal
  <2>7. RequestReal(w)
    BY <1>1, <1>3, <1>6, <2>3, <2>4, <2>5, <2>6, SyncRequest
  <2>8. \A x : Busy(r, x) => Busy(w, x)
    BY <1>3, <1>6, <2>2 DEF Busy
  <2> QED BY <1>1, <2>7, <2>8
<1>7. r.kind \in {"limit", "market", "sync", "cancel"}
  BY DEF Allowed, Control, At
<1> QED BY <1>5, <1>6, <1>7

LEMMA DebitReal ==
    ASSUME StateOK, StateOK', OneAtATime, Real, NEW t \in Threads, DebitWallet(t) PROVE Real'
<1>1. PICK r : r = req[t]
  OBVIOUS
<1>2. Allowed(r) /\ RequestReal(r) /\ r.pc = "debit"
  BY <1>1 DEF StateOK, ReqOK, Real, DebitWallet
<1>3. \A x : ~ Busy(r, x)
  BY <1>2 DEF Busy, Marking, Unlocking
<1>4. CASE wallet.balance >= r.debit
  <2>1. PICK f : f = UnlockUpTo(r.unlock, "update")
    OBVIOUS
  <2>2. PICK w : w = With(r, f)
    OBVIOUS
  <2>3. Become(t, w)
    BY <1>1, <1>4, <2>1, <2>2 DEF DebitWallet, Set
  <2>4. Allowed(w) /\ req'[t] = w
    BY <2>3, Moved
  <2>5. r.unlock \in Nat
    BY <1>2 DEF Allowed, Typed, Fits, Fields
  <2>6. /\ DOMAIN f \subseteq {"pc", "amount", "next"} /\ "pc" \in DOMAIN f /\ "next" \in DOMAIN f
        /\ f.next = "update" /\ f.pc \in {"unlockRead", "update"}
    BY <2>1, <2>5, UnlockUpToIs
  <2>7. Allowed(With(r, f)) /\ f.pc # "unlockWrite"
    BY <2>2, <2>4, <2>6
  <2>8. RequestReal(With(r, f))
    BY <1>2, <2>6, <2>7, GoesOn
  <2>9. With(r, f).pc = f.pc
    BY <1>2, <2>6, WithControl DEF Allowed, Typed
  <2> QED BY <1>1, <1>3, <2>2, <2>4, <2>7, <2>8, <2>9, SoloMoves DEF DebitWallet, faults, market
<1>5. CASE ~ (wallet.balance >= r.debit)
  <2>1. PICK w : w = OnError(r)
    OBVIOUS
  <2>2. Become(t, w)
    BY <1>1, <1>5, <2>1 DEF DebitWallet
  <2>3. Allowed(w) /\ req'[t] = w
    BY <2>2, Moved
  <2>4. RequestReal(w) /\ w.pc # "unlockWrite"
    BY <1>2, <2>1, OnErrorReal DEF Statements
  <2> QED BY <1>1, <1>3, <2>3, <2>4, SoloMoves DEF DebitWallet, faults, market
<1> QED BY <1>4, <1>5

LEMMA UnlockReadReal ==
    ASSUME StateOK, StateOK', OneAtATime, Real, NEW t \in Threads, UnlockRead(t) PROVE Real'
<1>1. PICK r : r = req[t]
  OBVIOUS
<1>2. Allowed(r) /\ RequestReal(r) /\ r.pc = "unlockRead"
  BY <1>1 DEF StateOK, ReqOK, Real, UnlockRead
<1>3. PICK a : a = Min({r.amount, wallet.locked})
  OBVIOUS
<1>4. a <= wallet.locked
  <2>1. r.amount \in Nat /\ wallet.locked \in Nat
    BY <1>2 DEF Allowed, Typed, Fits, Fields, StateOK, WalletOK
  <2>2. PICK x \in Int, y \in Int : x = r.amount /\ y = wallet.locked
    BY <2>1
  <2>3. Min({x, y}) <= y
    BY MinOfTwo, Zenon
  <2> QED BY <1>3, <2>2, <2>3
<1>5. PICK f : f = [pc |-> IF a > 0 THEN "unlockWrite" ELSE r.next, amount |-> a]
  OBVIOUS
<1>6. PICK w : w = With(r, f)
  OBVIOUS
<1>7. Become(t, w)
  BY <1>1, <1>3, <1>5, <1>6 DEF UnlockRead, Set
<1>8. Allowed(w) /\ req'[t] = w
  BY <1>7, Moved
<1>9. DOMAIN f = {"pc", "amount"} /\ f.pc \in {"unlockWrite", r.next} /\ f.amount = a
  BY <1>5
<1>10. w.amount = a
  BY <1>2, <1>6, <1>9, WithLocals DEF Allowed, Typed
<1>11. RequestReal(w) /\ \A x : Busy(r, x) => Busy(w, x)
  BY <1>2, <1>4, <1>6, <1>8, <1>9, <1>10, GoesOn
<1> QED BY <1>1, <1>8, <1>11, SoloMoves DEF UnlockRead, db, faults, market

\* With one request, what was read of the wallet is still so: the unlock succeeds.
LEMMA UnlockWriteReal ==
    ASSUME StateOK, StateOK', OneAtATime, Real, NEW t \in Threads, UnlockWrite(t) PROVE Real'
<1>1. PICK r : r = req[t]
  OBVIOUS
<1>2. Allowed(r) /\ RequestReal(r) /\ r.pc = "unlockWrite"
  BY <1>1 DEF StateOK, ReqOK, Real, UnlockWrite
<1>3. CanUnlock(r.amount)
  <2>1. r.amount \in Nat /\ wallet.locked \in Nat
    BY <1>2 DEF Allowed, Typed, Fits, Fields, StateOK, WalletOK
  <2> QED BY <1>2, <2>1 DEF RequestReal, CanUnlock
<1>4. PICK f : f = [pc |-> r.next]
  OBVIOUS
<1>5. PICK w : w = With(r, f)
  OBVIOUS
<1>6. Become(t, w)
  BY <1>1, <1>3, <1>4, <1>5 DEF UnlockWrite, Set
<1>7. Allowed(w) /\ req'[t] = w
  BY <1>6, Moved
<1>8. DOMAIN f = {"pc"} /\ f.pc = r.next /\ r.next \in {"update", "mark"}
  BY <1>2, <1>4 DEF Allowed, Control
<1>9. w.pc = r.next
  BY <1>2, <1>5, <1>8, WithControl DEF Allowed, Typed
<1>10. RequestReal(w) /\ \A x : Busy(r, x) => Busy(w, x)
  BY <1>2, <1>5, <1>7, <1>8, GoesOn
<1> QED BY <1>1, <1>7, <1>8, <1>9, <1>10, SoloMoves DEF UnlockWrite, faults, market

LEMMA StatementFailsReal ==
    ASSUME StateOK, StateOK', OneAtATime, Real, NEW t \in Threads, StatementFails(t) PROVE Real'
<1>1. PICK r : r = req[t]
  OBVIOUS
<1>2. PICK w : w = OnError(r)
  OBVIOUS
<1>3. Allowed(r) /\ RequestReal(r) /\ r.pc \in Statements /\ Become(t, w)
  BY <1>1, <1>2 DEF StateOK, ReqOK, Real, StatementFails
<1>4. Allowed(w) /\ req'[t] = w
  BY <1>3, Moved
<1>5. RequestReal(w) /\ w.pc # "unlockWrite"
  BY <1>2, <1>3, OnErrorReal
<1> QED BY <1>4, <1>5, SoloMoves DEF StatementFails, db, market

LEMMA StartSyncReal ==
    ASSUME StateOK, StateOK', OneAtATime, Real, NEW t \in Threads, StartSync(t) PROVE Real'
<1>1. PICK f : /\ Start(t, f) /\ f.kind \in {"sync", "cancel"} /\ f.pc = "list"
               /\ DOMAIN f \subseteq {"kind", "pc", "row"} /\ {"kind", "pc"} \subseteq DOMAIN f
  <2>1. CASE Start(t, [kind |-> "sync", pc |-> "list"])
    <3>1. PICK f : f = [kind |-> "sync", pc |-> "list"]
      OBVIOUS
    <3> QED BY <2>1, <3>1
  <2>2. ASSUME NEW q \in Rows, Start(t, [kind |-> "cancel", row |-> q, pc |-> "list"])
        PROVE  \E f : /\ Start(t, f) /\ f.kind \in {"sync", "cancel"} /\ f.pc = "list"
                      /\ DOMAIN f \subseteq {"kind", "pc", "row"} /\ {"kind", "pc"} \subseteq DOMAIN f
    <3>1. PICK f : f = [kind |-> "cancel", row |-> q, pc |-> "list"]
      OBVIOUS
    <3> QED BY <2>2, <3>1
  <2> QED BY <2>1, <2>2 DEF StartSync
<1>2. PICK w : w = With(Idle, f)
  OBVIOUS
<1>3. Become(t, w)
  BY <1>1, <1>2 DEF Start
<1>4. Allowed(w) /\ req'[t] = w
  BY <1>3, Moved
<1>5. DOMAIN Idle = Fields /\ Idle.todo = <<>>
  BY IdleTyped DEF Typed, Idle
<1>6. w.kind \in {"sync", "cancel"} /\ w.pc = "list" /\ w.todo = <<>>
  BY <1>1, <1>2, <1>5, WithControl
<1>7. RequestReal(w)
  BY <1>6, EmptySequence DEF RequestReal, Placing, TodoReal, Looking, InLoop, Marking, Unlocking
<1>8. \A x : ~ Busy(req[t], x)
  BY DEF StartSync, Busy, Marking, Unlocking
<1> QED BY <1>4, <1>6, <1>7, <1>8, SoloMoves DEF StartSync, db, faults, market

LEMMA ListOpenReal ==
    ASSUME StateOK, StateOK', OneAtATime, Real, NEW t \in Threads, ListOpenByUser(t) PROVE Real'
<1>1. PICK r : r = req[t]
  OBVIOUS
<1>2. Allowed(r) /\ RequestReal(r) /\ r.pc = "list"
  BY <1>1 DEF StateOK, ReqOK, Real, ListOpenByUser
<1>3. \A x : ~ Busy(req[t], x)
  BY <1>1, <1>2 DEF Busy, Marking, Unlocking
<1>4. PICK s : s = OpenRows
  OBVIOUS
<1>5. CASE s = <<>>
  <2>1. PICK w : w = AfterSync(r)
    OBVIOUS
  <2>2. Become(t, w)
    BY <1>1, <1>4, <1>5, <2>1 DEF ListOpenByUser
  <2>3. Allowed(w) /\ req'[t] = w
    BY <2>2, Moved
  <2>4. RequestReal(w) /\ w.pc # "unlockWrite"
    BY <1>2, <2>1, AfterSyncReal
  <2> QED BY <1>3, <2>3, <2>4, SoloMoves DEF ListOpenByUser, db, faults, market
<1>6. CASE s # <<>>
  <2>1. PICK f : f = [pc |-> "snapshot", todo |-> s]
    OBVIOUS
  <2>2. PICK w : w = With(r, f)
    OBVIOUS
  <2>3. Become(t, w)
    BY <1>1, <1>4, <1>6, <2>1, <2>2 DEF ListOpenByUser
  <2>4. Allowed(w) /\ req'[t] = w
    BY <2>3, Moved
  <2>5. DOMAIN f = {"pc", "todo"} /\ f.pc = "snapshot" /\ f.todo = s
    BY <2>1
  <2>6. w.pc = "snapshot" /\ w.kind = r.kind /\ w.todo = s
    BY <1>2, <2>2, <2>5, WithControl DEF Allowed, Typed
  <2>7. r.kind \in {"sync", "cancel"}
    BY <1>2 DEF Allowed, Control, At
  <2>8. \A k \in DOMAIN s : /\ s[k].id \in Rows /\ IsOpen(orders[s[k].id])
                            /\ s[k].row = orders[s[k].id]
    <3> DEFINE S == Newest({x \in Rows : IsOpen(orders[x])})
    <3>1. S \in SUBSET Rows /\ s = NewestFirst(S)
      BY <1>4 DEF OpenRows, Newest
    <3>2. \A x \in S : x \in Rows /\ IsOpen(orders[x])
      BY DEF Newest
    <3> HIDE DEF S
    <3>3. \A k \in DOMAIN s : s[k].id \in S /\ s[k].row = orders[s[k].id]
      BY <3>1, NewestFirstFacts DEF StateOK
    <3> QED BY <3>2, <3>3
  <2>9. TodoReal(w)
    BY <2>6, <2>8 DEF TodoReal, Real, RowReal, IsRow, IsOpen
  <2>10. ~ Looking(w) /\ ~ Marking(w) /\ ~ InLoop(w)
    BY <2>6 DEF Looking, InLoop, Marking, Unlocking
  <2>11. RequestReal(w)
    BY <2>4, <2>6, <2>7, <2>9, <2>10, SyncRequest
  <2> QED BY <1>3, <2>4, <2>6, <2>11, SoloMoves DEF ListOpenByUser, db, faults, market
<1> QED BY <1>5, <1>6

\* The snapshot shows what rests; an open row it does not show is used up.
LEMMA StreamReal ==
    ASSUME StateOK, StateOK', OneAtATime, Real, NEW t \in Threads, StreamOrderBook(t) PROVE Real'
<1>1. PICK r : r = req[t]
  OBVIOUS
<1>2. Allowed(r) /\ RequestReal(r) /\ r.pc = "snapshot"
  BY <1>1 DEF StateOK, ReqOK, Real, StreamOrderBook
<1>3. \A x : ~ Busy(req[t], x)
  BY <1>1, <1>2 DEF Busy, Marking, Unlocking
<1>4. PICK s : s = RemainingByID
  OBVIOUS
<1>5. PICK f : f = [pc |-> "order", seen |-> s]
  OBVIOUS
<1>6. PICK w : w = With(r, f)
  OBVIOUS
<1>7. Become(t, w)
  BY <1>1, <1>4, <1>5, <1>6 DEF StreamOrderBook, Set
<1>8. Allowed(w) /\ req'[t] = w
  BY <1>7, Moved
<1>9. DOMAIN f = {"pc", "seen"} /\ f.pc = "order" /\ f.seen = s
  BY <1>5
<1>10. w.pc = "order" /\ w.kind = r.kind /\ w.todo = r.todo
  BY <1>2, <1>6, <1>9, WithControl DEF Allowed, Typed
<1>11. w.seen = s
  BY <1>2, <1>6, <1>9, WithLocals DEF Allowed, Typed
<1>12. r.kind \in {"sync", "cancel"}
  BY <1>2 DEF Allowed, Control, At
<1>13. DOMAIN s = OnBook \cap Rows /\ \A x \in OnBook \cap Rows : s[x] = size[x] /\ s[x] \in Nat
  BY <1>4, SeenTyped DEF StateOK
<1>14. SeenReal(w)
  <2>1. \A x \in OnBook : x \in received
    BY OnBookSides DEF StateOK, EngineOK, Rests
  <2>2. \A x \in DOMAIN s : size[x] <= s[x] /\ x \in received /\ x \in OnBook
    BY <1>13, <2>1
  <2>3. ASSUME NEW k \in DOMAIN r.todo, failures = 0, r.todo[k].id \in fresh,
               r.todo[k].id \notin DOMAIN s
        PROVE  UsedUp(r.todo[k].id)
    <3>1. PICK x : x = r.todo[k].id
      OBVIOUS
    <3>2. x \in Rows
      <4>1. r.todo \in Seq(Todo)
        BY <1>2 DEF Allowed, Typed, Fits, Fields
      <4>2. r.todo[k] \in Todo
        BY <4>1, InToSet
      <4> QED BY <3>1, <4>2 DEF Todo
    <3>3. IsOpen(orders[x])
      BY <1>2, <3>1 DEF RequestReal, TodoReal
    <3>4. \A u \in Threads : ~ Busy(req[u], x)
      BY <1>3 DEF OneAtATime
    <3>5. x \in OnBook \/ UsedUp(x)
      BY <2>3, <3>1, <3>2, <3>3, <3>4 DEF Real, RowReal
    <3> QED BY <1>13, <2>3, <3>1, <3>2, <3>5
  <2> QED BY <1>10, <1>11, <1>13, <2>2, <2>3 DEF SeenReal
<1>15. TodoReal(w)
  BY <1>2, <1>10 DEF RequestReal, TodoReal
<1>16. ~ Marking(w) /\ ~ InLoop(w)
  BY <1>10 DEF InLoop, Marking, Unlocking
<1>17. RequestReal(w)
  BY <1>8, <1>10, <1>12, <1>14, <1>15, <1>16, SyncRequest
<1> QED BY <1>3, <1>8, <1>10, <1>17, SoloMoves DEF StreamOrderBook, db, faults, market

\* What a sync infers for the order at its head was really filled.
LEMMA Inferred ==
    ASSUME StateOK, NEW r, Allowed(r), TodoReal(r), SeenReal(r), r.todo # <<>>,
           NEW e, e = Head(r.todo), NEW left, NEW c, NEW status,
           left = IF e.id \in DOMAIN r.seen THEN r.seen[e.id] ELSE 0,
           c = Max({e.row.filled, e.row.quantity - left}),
           status = statusFromProgress(e.row.quantity, c),
           e.id \in DOMAIN r.seen \/ ShouldInferMissingProgress(e.id)
    PROVE  /\ Counted(e.id) => c <= Executed(e.id)
           /\ e.id \in OnBook => status \in {"OPEN", "PARTIALLY_FILLED"}
           /\ status # "NONE"
<1>1. r.todo \in Seq(Todo) /\ \A x \in DOMAIN r.seen : r.seen[x] \in Nat
  BY DEF Allowed, Typed, Fits, Fields
<1>2. 1 \in DOMAIN r.todo /\ e = r.todo[1] /\ e \in Todo
  BY <1>1, InTail
<1>3. PICK x \in Rows, o \in RowSet : x = e.id /\ o = e.row
  BY <1>2 DEF Todo
<1>4. o.filled \in Nat /\ o.quantity \in Nat /\ orders[x].quantity = o.quantity
  BY <1>2, <1>3 DEF RowSet, TodoReal
<1>5. size[x] \in Nat /\ (x \in OnBook => size[x] > 0 /\ x \in received)
  BY OnBookSides DEF StateOK, EngineOK, EngineTyped, AllOrders, Rests
<1>6. left \in Nat /\ c \in Int /\ c \in {o.filled, o.quantity - left}
  <2>1. left \in Nat
    BY <1>1
  <2>2. PICK y \in Int, z \in Int : y = o.filled /\ z = o.quantity - left
    BY <1>4, <2>1
  <2>3. Max({y, z}) \in {y, z}
    BY MaxOfTwo, Zenon
  <2> QED BY <1>3, <2>1, <2>2, <2>3
<1>7. Counted(x) => o.filled <= Executed(x)
  BY <1>2, <1>3 DEF TodoReal
<1>8. Counted(x) => o.quantity - left <= Executed(x)
  <2>1. CASE x \in DOMAIN r.seen
    <3>1. size[x] <= left /\ x \in received
      BY <1>3, <2>1 DEF SeenReal
    <3> QED BY <1>4, <1>5, <1>6, <3>1 DEF Executed
  <2>2. CASE x \notin DOMAIN r.seen
    <3>1. x \in fresh /\ x \notin OnBook /\ left = 0
      BY <1>3, <2>2 DEF SeenReal, ShouldInferMissingProgress
    <3>2. failures = 0 => UsedUp(x)
      BY <1>2, <1>3, <2>2, <3>1 DEF SeenReal
    <3> QED BY <1>4, <3>1, <3>2 DEF Counted, UsedUp, Executed
  <2> QED BY <2>1, <2>2
<1>9. Counted(x) => c <= Executed(x)
  BY <1>6, <1>7, <1>8
<1>10. x \in OnBook => c < o.quantity
  <2> SUFFICES ASSUME x \in OnBook PROVE c < o.quantity
    OBVIOUS
  <2>1. c <= o.quantity - size[x]
    BY <1>4, <1>5, <1>9 DEF Counted, Executed
  <2> QED BY <1>4, <1>5, <1>6, <2>1
<1>11. status = statusFromProgress(o.quantity, c)
  BY <1>3
<1>12. ~ (c >= o.quantity) => status \in {"OPEN", "PARTIALLY_FILLED"}
  BY <1>11 DEF statusFromProgress
<1>13. status # "NONE"
  BY <1>11 DEF statusFromProgress
<1>14. x \in OnBook => ~ (c >= o.quantity)
  BY <1>4, <1>6, <1>10
<1> QED BY <1>3, <1>9, <1>12, <1>13, <1>14

LEMMA SyncOrderReal ==
    ASSUME StateOK, StateOK', OneAtATime, Real, NEW t \in Threads, SyncOrder(t) PROVE Real'
<1>1. PICK r : r = req[t]
  OBVIOUS
<1>2. Allowed(r) /\ RequestReal(r) /\ r.pc = "order"
  BY <1>1 DEF StateOK, ReqOK, Real, SyncOrder
<1>3. (\A x : ~ Busy(req[t], x)) /\ r.kind \in {"sync", "cancel"} /\ Looking(r)
  BY <1>1, <1>2 DEF Busy, Marking, Unlocking, Allowed, Control, At, Looking
<1>4. ASSUME NEW w, Become(t, w), RequestReal(w), w.pc # "unlockWrite"
      PROVE  Real'
  <2>1. req'[t] = w
    BY <1>4, Moved
  <2> QED BY <1>3, <1>4, <2>1, SoloMoves DEF SyncOrder, db, faults, market
<1>5. CASE r.todo = <<>>
  <2>1. PICK w : w = AfterSync(r)
    OBVIOUS
  <2>2. RequestReal(w) /\ w.pc # "unlockWrite"
    BY <1>2, <2>1, AfterSyncReal
  <2>3. Become(t, w)
    BY <1>1, <1>5, <2>1 DEF SyncOrder
  <2> QED BY <1>4, <2>2, <2>3
<1>6. CASE r.todo # <<>> /\ Become(t, NextOrder(r))
  <2>1. PICK w : w = NextOrder(r)
    OBVIOUS
  <2>2. RequestReal(w) /\ w.pc = "order"
    BY <1>2, <1>3, <1>6, <2>1, NextOrderReal
  <2>3. Become(t, w)
    BY <1>6, <2>1
  <2> QED BY <1>4, <2>2, <2>3
<1>7. CASE r.todo # <<>> /\ ~ Become(t, NextOrder(r))
  <2>1. PICK e : e = Head(r.todo)
    OBVIOUS
  <2>2. PICK left : left = IF e.id \in DOMAIN r.seen THEN r.seen[e.id] ELSE 0
    OBVIOUS
  <2>3. PICK c : c = Max({e.row.filled, e.row.quantity - left})
    OBVIOUS
  <2>4. PICK delta : delta = Notional(e.row.price, FillDelta(e.row, c))
    OBVIOUS
  <2>5. PICK status : status = statusFromProgress(e.row.quantity, c)
    OBVIOUS
  <2>6. PICK f : f = [pc |-> IF e.row.bid /\ delta > 0 THEN "debit" ELSE "update",
                      filled |-> c, notional |-> e.row.notional + delta, status |-> status,
                      debit |-> delta, unlock |-> delta]
    OBVIOUS
  <2>7. Set(t, f) /\ (e.id \in DOMAIN r.seen \/ ShouldInferMissingProgress(e.id))
    BY <1>1, <1>7, <2>1, <2>2, <2>3, <2>4, <2>5, <2>6 DEF SyncOrder
  <2>8. TodoReal(r) /\ SeenReal(r)
    BY <1>2, <1>3 DEF RequestReal
  <2>9. /\ Counted(e.id) => c <= Executed(e.id)
        /\ e.id \in OnBook => status \in {"OPEN", "PARTIALLY_FILLED"}
        /\ status # "NONE"
    BY <1>2, <1>7, <2>1, <2>2, <2>3, <2>5, <2>7, <2>8, Inferred
  <2>10. PICK w : w = With(r, f)
    OBVIOUS
  <2>11. Become(t, w)
    BY <1>1, <2>7, <2>10 DEF Set
  <2>12. Allowed(w)
    BY <2>11, Moved
  <2>13. /\ DOMAIN f = {"pc", "filled", "notional", "status", "debit", "unlock"}
         /\ f.pc \in {"debit", "update"} /\ f.filled = c /\ f.status = status
    BY <2>6
  <2>14. w.pc = f.pc /\ w.kind = r.kind /\ w.todo = r.todo
    BY <1>2, <2>10, <2>13, WithControl DEF Allowed, Typed
  <2>15. w.seen = r.seen /\ w.filled = c /\ w.status = status
    BY <1>2, <2>10, <2>13, WithLocals DEF Allowed, Typed
  <2>16. HeadReal(w)
    BY <2>1, <2>9, <2>14, <2>15 DEF HeadReal
  <2>17. SeenReal(w)
    BY <2>8, <2>14, <2>15 DEF SeenReal
  <2>18. TodoReal(w)
    BY <2>8, <2>13, <2>14 DEF TodoReal
  <2>19. ~ Marking(w) /\ w.pc # "unlockWrite"
    BY <2>13, <2>14 DEF Marking, Unlocking
  <2>20. RequestReal(w)
    BY <1>3, <2>12, <2>14, <2>16, <2>17, <2>18, <2>19, SyncRequest
  <2> QED BY <1>4, <2>11, <2>19, <2>20
<1> QED BY <1>5, <1>6, <1>7

LEMMA GetReal ==
    ASSUME StateOK, StateOK', OneAtATime, Real, NEW t \in Threads, GetByIDForUser(t) PROVE Real'
<1>1. PICK r : r = req[t]
  OBVIOUS
<1>2. Allowed(r) /\ RequestReal(r) /\ r.pc = "get"
  BY <1>1 DEF StateOK, ReqOK, Real, GetByIDForUser
<1>3. (\A x : ~ Busy(req[t], x)) /\ r.kind = "cancel"
  BY <1>1, <1>2 DEF Busy, Marking, Unlocking, Allowed, Control, At
<1>4. PICK o : o = orders[r.row]
  OBVIOUS
<1>5. CASE CanCancelOrder(o)
  <2>1. PICK f : f = [pc |-> "cancel", order |-> o]
    OBVIOUS
  <2>2. PICK w : w = With(r, f)
    OBVIOUS
  <2>3. Become(t, w)
    BY <1>1, <1>4, <1>5, <2>1, <2>2 DEF GetByIDForUser
  <2>4. Allowed(w) /\ req'[t] = w
    BY <2>3, Moved
  <2>5. DOMAIN f = {"pc", "order"} /\ f.pc = "cancel"
    BY <2>1
  <2>6. w.pc = "cancel" /\ w.kind = r.kind /\ w.todo = r.todo
    BY <1>2, <2>2, <2>5, WithControl DEF Allowed, Typed
  <2>7. TodoReal(w)
    BY <1>2, <2>6 DEF RequestReal, TodoReal
  <2>8. ~ Looking(w) /\ ~ Marking(w) /\ ~ InLoop(w)
    BY <2>6 DEF Looking, InLoop, Marking, Unlocking
  <2>9. RequestReal(w)
    BY <1>3, <2>4, <2>6, <2>7, <2>8, SyncRequest
  <2> QED BY <1>3, <2>4, <2>6, <2>9, SoloMoves DEF GetByIDForUser, db, faults, market
<1>6. CASE ~ CanCancelOrder(o)
  <2>1. Become(t, Idle)
    BY <1>1, <1>4, <1>6 DEF GetByIDForUser
  <2> QED BY <1>3, <2>1, SoloEnds DEF GetByIDForUser, db, faults, market
<1> QED BY <1>5, <1>6

-----------------------------------------------------------------------------
(* The steps that call the engine, and those of the other participants.     *)

\* What a call that is not about order x may do to it.
Drifts(x) ==
    /\ x \in received' <=> x \in received
    /\ size'[x] <= size[x] /\ size[x] \in Nat /\ size'[x] \in Nat
    /\ x \in OnBook' => x \in OnBook
    /\ x \in OnBook /\ x \notin OnBook' => size'[x] = 0

LEMMA PlacedDrifts ==
    ASSUME EngineOK, EngineOK', NEW o, NEW b, NEW p, NEW n, Placed(o, b, p, n)
    PROVE  \A x \in Rows \ {o} : Drifts(x)
<1> SUFFICES ASSUME NEW x \in Rows \ {o} PROVE Drifts(x)
  OBVIOUS
<1>1. x \in AllOrders \ {o}
  BY DEF AllOrders
<1>2. size[x] \in Nat /\ size'[x] \in Nat
  BY <1>1 DEF EngineOK, EngineTyped, AllOrders, Rows, Others
<1>3. size'[x] <= size[x]
  BY <1>1 DEF Placed, Trades
<1>4. x \in received' <=> x \in received
  BY DEF Placed
<1>5. x \in OnBook' <=> x \in OnBook /\ size'[x] > 0
  BY DEF Placed
<1> QED BY <1>2, <1>3, <1>4, <1>5 DEF Drifts

\* A row whose order drifts, and that the handler has not left, is as real as before.
LEMMA RowDrifts ==
    ASSUME StateOK, NEW x \in Rows, RowReal(x), Drifts(x),
           UNCHANGED <<orders, lastRow, fresh, failures>>,
           (\A s \in Threads : ~ Busy(req[s], x))' => \A s \in Threads : ~ Busy(req[s], x)
    PROVE  RowReal(x)'
<1>1. orders[x].quantity \in Nat
  BY DEF StateOK, RowSet
<1>2. Executed(x) <= Executed(x)'
  BY <1>1 DEF Drifts, Executed
<1>3. Counted(x)' => Counted(x)
  BY DEF Drifts, Counted
<1>4. IsRow(x)' /\ Counted(x)' => orders'[x].filled <= Executed(x)'
  <2>1. Executed(x) \in Int /\ Executed(x)' \in Int /\ orders[x].filled \in Nat
    BY <1>1 DEF Drifts, Executed, StateOK, RowSet
  <2> QED BY <1>2, <1>3, <2>1 DEF RowReal, IsRow
<1>5. UsedUp(x) => UsedUp(x)'
  BY DEF Drifts, UsedUp
<1>6. x \in OnBook /\ x \notin OnBook' => UsedUp(x)'
  <2>1. x \in OnBook => x \in received
    BY OnBookSides DEF StateOK, EngineOK, Rests
  <2> QED BY <2>1 DEF Drifts, UsedUp
<1> QED BY <1>4, <1>5, <1>6 DEF RowReal, IsRow, IsOpen, Drifts

\* So is what a handler knows of rows that all drift.
LEMMA RequestDrifts ==
    ASSUME StateOK, NEW w, Allowed(w), RequestReal(w), \A x \in Rows : Drifts(x),
           UNCHANGED <<wallet, orders, lastRow, fresh, failures>>
    PROVE  RequestReal(w)'
<1>1. \A x \in Rows : /\ orders[x].quantity \in Nat
                      /\ Executed(x) <= Executed(x)' /\ Executed(x) \in Int /\ Executed(x)' \in Int
                      /\ Counted(x)' => Counted(x)
                      /\ UsedUp(x) => UsedUp(x)'
                      /\ x \in OnBook' => x \in OnBook
  <2> SUFFICES ASSUME NEW x \in Rows
               PROVE  /\ orders[x].quantity \in Nat
                      /\ Executed(x) <= Executed(x)' /\ Executed(x) \in Int /\ Executed(x)' \in Int
                      /\ Counted(x)' => Counted(x)
                      /\ UsedUp(x) => UsedUp(x)'
                      /\ x \in OnBook' => x \in OnBook
    OBVIOUS
  <2>1. orders[x].quantity \in Nat
    BY DEF StateOK, RowSet
  <2>2. Drifts(x)
    OBVIOUS
  <2>3. Executed(x) <= Executed(x)' /\ Executed(x) \in Int /\ Executed(x)' \in Int
    BY <2>1, <2>2 DEF Drifts, Executed
  <2> QED BY <2>1, <2>2, <2>3 DEF Drifts, Counted, UsedUp
<1>2. w.filled \in Nat /\ w.got \in Nat /\ w.todo \in Seq(Todo) /\ DOMAIN w.seen \subseteq Rows
      /\ \A x \in DOMAIN w.seen : w.seen[x] \in Nat
  BY DEF Allowed, Typed, Fits, Fields
<1>3. \A k \in DOMAIN w.todo : w.todo[k].id \in Rows /\ w.todo[k].row.filled \in Nat
  <2> SUFFICES ASSUME NEW k \in DOMAIN w.todo
               PROVE  w.todo[k].id \in Rows /\ w.todo[k].row.filled \in Nat
    OBVIOUS
  <2>1. w.todo[k] \in Todo
    BY <1>2, InToSet
  <2> QED BY <2>1 DEF Todo, RowSet
<1>4. PlacingReal(w) => PlacingReal(w)'
  <2> SUFFICES ASSUME PlacingReal(w) PROVE PlacingReal(w)'
    OBVIOUS
  <2>1. w.row \in Rows /\ Drifts(w.row)
    BY DEF PlacingReal
  <2>2. w.row \in received' <=> w.row \in received
    BY <2>1 DEF Drifts
  <2>3. w.got <= Executed(w.row) => w.got <= Executed(w.row)'
    BY <1>1, <1>2, <2>1
  <2>4. w.filled <= Executed(w.row) => w.filled <= Executed(w.row)'
    BY <1>1, <1>2, <2>1
  <2>5. w.row \in OnBook' => w.row \in OnBook
    BY <1>1, <2>1
  <2> QED BY <2>2, <2>3, <2>4, <2>5 DEF PlacingReal
<1>5. TodoReal(w)'
  <2> SUFFICES ASSUME NEW k \in DOMAIN w.todo
               PROVE  LET e == w.todo[k]
                      IN  /\ IsRow(e.id) /\ e.row.quantity = orders[e.id].quantity
                          /\ Counted(e.id)' => e.row.filled <= Executed(e.id)'
                          /\ w.pc = "snapshot" => IsOpen(orders[e.id])
    BY DEF TodoReal, IsRow, IsOpen
  <2>1. PICK x \in Rows : x = w.todo[k].id
    BY <1>3
  <2>2. Counted(x) => w.todo[k].row.filled <= Executed(x)
    BY <2>1 DEF RequestReal, TodoReal
  <2>3. Counted(x)' => w.todo[k].row.filled <= Executed(x)'
    BY <1>1, <1>3, <2>2
  <2> QED BY <2>1, <2>3 DEF RequestReal, TodoReal
<1>6. SeenReal(w) => SeenReal(w)'
  <2> SUFFICES ASSUME SeenReal(w) PROVE SeenReal(w)'
    OBVIOUS
  <2>1. \A x \in DOMAIN w.seen : size'[x] <= w.seen[x] /\ x \in received' /\ (x \in OnBook' \/ size'[x] = 0)
    <3> SUFFICES ASSUME NEW x \in DOMAIN w.seen
                 PROVE  size'[x] <= w.seen[x] /\ x \in received' /\ (x \in OnBook' \/ size'[x] = 0)
      OBVIOUS
    <3>1. x \in Rows /\ Drifts(x) /\ w.seen[x] \in Nat
      BY <1>2
    <3> QED BY <3>1 DEF SeenReal, Drifts
  <2> QED BY <1>1, <1>3, <2>1 DEF SeenReal
<1>7. InLoop(w) /\ HeadReal(w) => HeadReal(w)'
  <2> SUFFICES ASSUME InLoop(w), HeadReal(w) PROVE HeadReal(w)'
    OBVIOUS
  <2>1. w.todo # <<>>
    BY DEF Allowed, Control
  <2>2. PICK e \in Todo : e = Head(w.todo)
    BY <1>2, <2>1, InTail
  <2>3. PICK x \in Rows : x = e.id
    BY DEF Todo
  <2>4. Counted(x)' => w.filled <= Executed(x)'
    BY <1>1, <1>2, <2>2, <2>3 DEF HeadReal
  <2> QED BY <1>1, <2>2, <2>3, <2>4 DEF HeadReal
<1>8. Marking(w) => w.row \notin OnBook'
  BY <1>1 DEF RequestReal, Marking, Allowed, Control
<1> QED BY <1>4, <1>5, <1>6, <1>7, <1>8 DEF RequestReal, Placing, Looking, InLoop, Marking, Unlocking

LEMMA OthersReal ==
    ASSUME StateOK, Real, \A x \in Rows : Drifts(x),
           UNCHANGED <<db, req, faults>>
    PROVE  Real'
<1>1. UNCHANGED <<wallet, orders, lastRow, fresh, failures>>
  BY DEF db, faults
<1>2. \A x \in Rows : RowReal(x)'
  <2> SUFFICES ASSUME NEW x \in Rows PROVE RowReal(x)'
    OBVIOUS
  <2>1. RowReal(x) /\ Drifts(x)
    BY DEF Real
  <2>2. (\A s \in Threads : ~ Busy(req[s], x))' => \A s \in Threads : ~ Busy(req[s], x)
    BY DEF Busy, Marking, Unlocking
  <2> QED BY <1>1, <2>1, <2>2, RowDrifts
<1>3. \A t \in Threads : RequestReal(req[t])'
  <2> SUFFICES ASSUME NEW t \in Threads PROVE RequestReal(req[t])'
    OBVIOUS
  <2>1. PICK w : w = req[t]
    OBVIOUS
  <2>2. Allowed(w) /\ RequestReal(w)
    BY <2>1 DEF StateOK, ReqOK, Real
  <2>3. RequestReal(w)'
    BY <1>1, <2>2, RequestDrifts
  <2>4. req'[t] = w
    BY <2>1
  <2> QED BY <2>3, <2>4 DEF RequestReal, PlacingReal, TodoReal, SeenReal, HeadReal, Counted,
     Executed, IsRow, IsOpen, UsedUp, Placing, Looking, InLoop, Marking, Unlocking
<1> QED BY <1>1, <1>2, <1>3 DEF Real, Rows

LEMMA OtherOrderReal ==
    ASSUME StateOK, Real, OtherOrder PROVE Real'
<1>1. PICK o \in AllOrders \ Rows, b \in BOOLEAN, p \in Nat, n \in Sizes : EngineOK' /\ Placed(o, b, p, n)
  BY OtherPlaced DEF StateOK
<1>2. \A x \in Rows \ {o} : Drifts(x)
  BY <1>1, PlacedDrifts DEF StateOK
<1> QED BY <1>2, OthersReal DEF OtherOrder

LEMMA OtherCancelReal ==
    ASSUME StateOK, Real, OtherCancel PROVE Real'
<1>1. PICK o \in Others : E!Cancel(o)
  BY DEF OtherCancel
<1>2. OnBook' = OnBook \ {o} /\ UNCHANGED <<received, bid, price, size, matches>>
  BY <1>1, Cancelled DEF StateOK
<1>3. \A x \in Rows : Drifts(x)
  <2> SUFFICES ASSUME NEW x \in Rows PROVE Drifts(x)
    OBVIOUS
  <2>1. size[x] \in Nat /\ x # o
    BY DEF StateOK, EngineOK, EngineTyped, AllOrders, Rows, Others
  <2> QED BY <1>2, <2>1 DEF Drifts
<1> QED BY <1>3, OthersReal DEF OtherCancel

\* A new row is the last, and no order is known by it yet.
LEMMA CreateReal ==
    ASSUME StateOK, StateOK', OneAtATime, Real, NEW t \in Threads, Create(t) PROVE Real'
<1>1. PICK r : r = req[t]
  OBVIOUS
<1>2. Allowed(r) /\ RequestReal(r) /\ r.pc = "create"
  BY <1>1 DEF StateOK, ReqOK, Real, Create
<1>3. PICK n : n = lastRow + 1
  OBVIOUS
<1>4. /\ lastRow' = n /\ n \in Rows /\ lastRow \in Nat /\ lastRow < n /\ n <= MaxRows
      /\ n \in Nat /\ n <= n
  BY <1>2, <1>3 DEF Create, RequestReal, StateOK, Rows
<1>5. PICK f : f = [pc |-> "place", row |-> n]
  OBVIOUS
<1>6. PICK w : w = With(r, f)
  OBVIOUS
<1>7. Become(t, w)
  BY <1>1, <1>4, <1>5, <1>6 DEF Create, Set
<1>8. Allowed(w) /\ req'[t] = w
  BY <1>7, Moved
<1>9. DOMAIN f = {"pc", "row"} /\ f.pc = "place" /\ f.row = n
  BY <1>5
<1>10. /\ w.pc = "place" /\ w.kind = r.kind /\ w.row = n /\ w.quantity = r.quantity
       /\ w.todo = r.todo
  BY <1>2, <1>6, <1>9, WithControl DEF Allowed, Typed
<1>11. r.kind \in {"limit", "market"} /\ r.todo = <<>>
  BY <1>2 DEF Allowed, Control, At, RequestReal
<1>12. n \notin received /\ n \notin OnBook
  <2>1. n \notin received
    <3>1. RowReal(n)
      BY <1>4 DEF Real
    <3>2. ~ (n <= lastRow)
      BY <1>4
    <3> QED BY <3>1, <3>2 DEF RowReal
  <2> QED BY <2>1, OnBookSides DEF StateOK, EngineOK, Rests
<1>13. /\ UNCHANGED engine /\ OnBook' = OnBook /\ failures' = failures
       /\ fresh' = fresh \cup {n} /\ \A x \in Rows \ {n} : orders'[x] = orders[x]
  BY <1>4 DEF Create, market, engine, OnBook, ToSet, StateOK, faults
<1>14. PICK o : /\ orders'[n] = o /\ o.status = "OPEN" /\ o.quantity = r.quantity /\ o.filled = 0
                /\ r.kind = "limit" => o.kind = "LIMIT"
  BY <1>1, <1>4 DEF Create, StateOK
<1>15. ASSUME NEW x \in Rows PROVE RowReal(x)'
  <2>1. RowReal(x)
    BY DEF Real
  <2>2. CASE x = n
    <3>1. Busy(w, x)
      BY <1>10, <1>11, <2>2 DEF Busy
    <3>2. ~ (\A s \in Threads : ~ Busy(req[s], x))'
      BY <1>8, <3>1, SoloBusy
    <3> QED BY <1>4, <1>12, <1>13, <1>14, <2>2, <3>2 DEF RowReal, engine, Executed, IsRow, IsOpen
  <2>3. CASE x # n
    <3>1. ~ Busy(w, x) /\ ~ Busy(req[t], x)
      BY <1>1, <1>2, <1>10, <1>11, <2>3 DEF Busy, Marking, Unlocking
    <3>2. (\A s \in Threads : ~ Busy(req[s], x))
      BY <1>8, <3>1, SoloBusy
    <3>3. x <= lastRow => x <= lastRow'
      BY <1>4 DEF Rows
    <3> QED BY <1>13, <2>1, <2>3, <3>2, <3>3
            DEF RowReal, engine, Counted, Executed, IsRow, IsOpen, UsedUp
  <2> QED BY <2>2, <2>3
<1>16. PlacingReal(w)'
  BY <1>4, <1>10, <1>11, <1>12, <1>13, <1>14 DEF PlacingReal, engine
<1>17. RequestReal(w)'
  BY <1>10, <1>11, <1>16, EmptySequence
     DEF RequestReal, TodoReal, Looking, InLoop, Marking, Unlocking
<1>18. lastRow' <= MaxRows /\ failures' \in Nat
  BY <1>4, <1>13 DEF Real
<1> QED BY <1>8, <1>15, <1>17, <1>18, SoloStep

\* What holds of the row of an order the engine has been given.
LEMMA PlacedReal ==
    ASSUME StateOK, StateOK', OneAtATime, Real, NEW t \in Threads, NEW w, Become(t, w),
           req[t].pc = "place", req[t].kind \in {"limit", "market"},
           UNCHANGED <<orders, lastRow, fresh, failures>>,
           NEW o, o = req[t].row, w.row = o, w.todo = <<>>, w.kind = req[t].kind,
           w.quantity = req[t].quantity,
           w.pc \notin {"lock", "wallet", "quote", "create", "place", "release", "unlockWrite"},
           \A x \in Rows \ {o} : Drifts(x),
           o \in received', w.kind = "market" => o \notin OnBook', size'[o] <= w.quantity,
           w.kind = "limit" => w.got <= w.quantity - size'[o],
           w.pc \notin {"delete", "readSize"} =>
              w.filled <= w.quantity - size'[o] /\ (o \in OnBook' => w.status \in {"OPEN", "PARTIALLY_FILLED"}),
           w.pc # "delete" => o \in OnBook' \/ size'[o] = 0
    PROVE  Real'
<1>1. PICK r : r = req[t]
  OBVIOUS
<1>2. Allowed(r) /\ RequestReal(r) /\ Allowed(w) /\ req'[t] = w
  BY <1>1, Moved DEF Real
<1>3. PlacingReal(r)
  BY <1>1, <1>2 DEF RequestReal, Placing
<1>4. /\ o \in Rows /\ o <= lastRow /\ orders[o].quantity = w.quantity /\ orders[o].status = "OPEN"
      /\ orders[o].filled = 0 /\ (w.kind = "limit" => orders[o].kind = "LIMIT")
  BY <1>1, <1>3 DEF PlacingReal
<1>5. Executed(o)' = w.quantity - size'[o] /\ size'[o] \in Nat /\ w.quantity \in Nat
  BY <1>2, <1>4 DEF Executed, StateOK, EngineOK, EngineTyped, AllOrders, Rows, Others, Allowed,
                    Typed, Fits, Fields
<1>6. ASSUME NEW x \in Rows PROVE RowReal(x)'
  <2>1. RowReal(x)
    BY DEF Real
  <2>2. CASE x = o
    <3>1. w.pc = "delete" => ~ (\A s \in Threads : ~ Busy(req[s], x))'
      <4> SUFFICES ASSUME w.pc = "delete" PROVE Busy(w, x)
        BY <1>2, SoloBusy
      <4> QED BY <2>2 DEF Busy
    <3>2. 0 <= Executed(o)'
      BY <1>5
    <3> QED BY <1>4, <1>5, <2>2, <3>1, <3>2 DEF RowReal, IsRow, IsOpen, UsedUp
  <2>3. CASE x # o
    <3>1. ~ Busy(req[t], x)
      BY <2>3 DEF Busy, Marking, Unlocking
    <3>2. \A s \in Threads : ~ Busy(req[s], x)
      BY <1>2, <3>1, SoloBusy
    <3>3. Drifts(x)
      BY <2>3
    <3> QED BY <2>1, <3>2, <3>3, RowDrifts
  <2> QED BY <2>2, <2>3
<1>7. PlacingReal(w)'
  BY <1>4, <1>5 DEF PlacingReal
<1>8. RequestReal(w)'
  <2>1. DOMAIN w.todo = {}
    BY EmptySequence
  <2>2. TodoReal(w)'
    BY <2>1 DEF TodoReal
  <2>3. ~ Looking(w) /\ ~ InLoop(w) /\ ~ Marking(w)
    BY <1>2 DEF Looking, InLoop, Marking, Allowed, Control, At
  <2> QED BY <1>7, <2>2, <2>3 DEF RequestReal, Looking, InLoop, Marking, Unlocking
<1>9. lastRow' <= MaxRows /\ failures' \in Nat
  BY DEF Real
<1> QED BY <1>2, <1>6, <1>8, <1>9, SoloStep

LEMMA PlaceLimitReal ==
    ASSUME StateOK, StateOK', OneAtATime, Real, NEW t \in Threads, PlaceLimit(t) PROVE Real'
<1>1. PICK r : r = req[t]
  OBVIOUS
<1>2. Allowed(r) /\ RequestReal(r) /\ r.pc = "place" /\ r.kind = "limit"
  BY <1>1 DEF StateOK, ReqOK, Real, PlaceLimit
<1>3. PICK o : o = r.row
  OBVIOUS
<1>4. Placed(o, r.bid, r.price, r.quantity)
  BY <1>1, <1>3, PlaceLimitOK
<1>5. r.bid \in BOOLEAN
  BY <1>2 DEF Allowed, Typed, Fits, Fields
<1>6. r.quantity \in Nat
  BY <1>2 DEF Allowed, Typed, Fits, Fields
<1>7. SizeFilled(matches') = r.quantity - size'[o] /\ size'[o] <= r.quantity
  BY <1>4 DEF Placed, Trades
<1>8. PICK f : f = [pc |-> "readSize", got |-> SizeFilled(matches'),
                    paidPrice |-> IF matches' = <<>> THEN r.price ELSE VWAP(matches')]
  OBVIOUS
<1>9. PICK w : w = With(r, f)
  OBVIOUS
<1>10. Become(t, w)
  BY <1>1, <1>8, <1>9 DEF PlaceLimit, Set
<1>11. DOMAIN f = {"pc", "got", "paidPrice"} /\ f.pc = "readSize" /\ f.got = r.quantity - size'[o]
  BY <1>7, <1>8
<1>12. /\ w.pc = "readSize" /\ w.kind = "limit" /\ w.row = o /\ w.quantity = r.quantity
       /\ w.todo = r.todo
  BY <1>2, <1>3, <1>9, <1>11, WithControl DEF Allowed, Typed
<1>13. w.got = w.quantity - size'[o]
  BY <1>2, <1>9, <1>11, <1>12, WithLocals DEF Allowed, Typed
<1>14. r.todo = <<>>
  BY <1>2 DEF RequestReal
<1>15. \A x \in Rows \ {o} : Drifts(x)
  BY <1>4, PlacedDrifts DEF StateOK
<1>16. o \in received'
  BY <1>4 DEF Placed
<1>17. size'[o] \in Nat
  BY <1>4 DEF Placed, Trades
<1>18. o \in OnBook' \/ size'[o] = 0
  BY <1>4, <1>17 DEF Placed
<1>19. w.got <= w.quantity - size'[o] /\ size'[o] <= w.quantity
  BY <1>6, <1>7, <1>12, <1>13, <1>17
<1> QED BY <1>1, <1>2, <1>3, <1>10, <1>12, <1>14, <1>15, <1>16, <1>18, <1>19, PlacedReal
        DEF PlaceLimit, db, faults

LEMMA PlaceMarketReal ==
    ASSUME StateOK, StateOK', OneAtATime, Real, NEW t \in Threads, PlaceMarket(t) PROVE Real'
<1>1. PICK r : r = req[t]
  OBVIOUS
<1>2. Allowed(r) /\ RequestReal(r) /\ r.pc = "place" /\ r.kind = "market"
  BY <1>1 DEF StateOK, ReqOK, Real, PlaceMarket
<1>3. PICK o : o = r.row
  OBVIOUS
<1>4. r.bid \in BOOLEAN
  BY <1>2 DEF Allowed, Typed, Fits, Fields
<1>5. r.quantity \in Nat /\ r.quantity \in Sizes /\ r.todo = <<>> /\ DOMAIN r = Fields
  BY <1>2 DEF Allowed, Typed, Control, Fits, Fields, RequestReal
<1>6. CASE E!RefuseMarketOrder(o, r.bid, r.quantity) /\ Set(t, [pc |-> "delete"])
  <2>1. PICK f : f = [pc |-> "delete"]
    OBVIOUS
  <2>2. PICK w : w = With(r, f)
    OBVIOUS
  <2>3. Become(t, w)
    BY <1>1, <1>6, <2>1, <2>2 DEF Set
  <2>4. DOMAIN f = {"pc"} /\ f.pc = "delete"
    BY <2>1
  <2>5. /\ w.pc = "delete" /\ w.kind = "market" /\ w.row = o /\ w.quantity = r.quantity
        /\ w.todo = r.todo
    BY <1>2, <1>3, <1>5, <2>2, <2>4, WithControl
  <2>6. /\ OnBook' = OnBook /\ o \in AllOrders \ received /\ received' = received \cup {o}
        /\ size' = [size EXCEPT ![o] = r.quantity]
    BY <1>4, <1>5, <1>6, MarketRefused DEF StateOK
  <2>7. size'[o] <= r.quantity /\ o \notin OnBook'
    <3>1. size \in [AllOrders -> Nat] /\ \A x \in OnBook : x \in received
      BY OnBookSides DEF StateOK, EngineOK, EngineTyped, Rests
    <3> QED BY <1>5, <2>6, <3>1
  <2>8. \A x \in Rows \ {o} : Drifts(x)
    <3> SUFFICES ASSUME NEW x \in Rows \ {o} PROVE Drifts(x)
      OBVIOUS
    <3>1. size[x] \in Nat /\ size'[x] = size[x]
      BY <2>6 DEF StateOK, EngineOK, EngineTyped, AllOrders
    <3> QED BY <2>6, <3>1 DEF Drifts
  <2>9. o \in received'
    BY <2>6
  <2> QED BY <1>1, <1>2, <1>3, <1>5, <2>3, <2>5, <2>7, <2>8, <2>9, PlacedReal
          DEF PlaceMarket, db, faults
<1>7. CASE E!MarketOrder(o, r.bid, r.quantity)
            /\ LET n == Notional(VWAP(matches'), r.quantity)
                   v == IF n > 0 \/ ~ r.bid THEN n
                        ELSE IF r.estimate > 0 THEN r.estimate ELSE Notional(r.price, r.quantity)
               IN  Set(t, [pc |-> IF r.bid THEN "debit" ELSE "update", filled |-> r.quantity,
                           notional |-> v, debit |-> v, unlock |-> 0, status |-> "FILLED"])
  <2>1. Placed(o, r.bid, 0, r.quantity) /\ size'[o] = 0
    BY <1>4, <1>5, <1>7, MarketPlaced DEF StateOK
  <2>2. PICK n : n = Notional(VWAP(matches'), r.quantity)
    OBVIOUS
  <2>3. PICK v : v = IF n > 0 \/ ~ r.bid THEN n
                     ELSE IF r.estimate > 0 THEN r.estimate ELSE Notional(r.price, r.quantity)
    OBVIOUS
  <2>4. PICK f : f = [pc |-> IF r.bid THEN "debit" ELSE "update", filled |-> r.quantity,
                      notional |-> v, debit |-> v, unlock |-> 0, status |-> "FILLED"]
    OBVIOUS
  <2>5. /\ DOMAIN f = {"pc", "filled", "notional", "debit", "unlock", "status"}
        /\ f.pc \in {"debit", "update"} /\ f.filled = r.quantity
    BY <2>4
  <2>6. PICK w : w = With(r, f)
    OBVIOUS
  <2>7. Become(t, w)
    BY <1>1, <1>7, <2>2, <2>3, <2>4, <2>6 DEF Set
  <2>8. /\ w.pc \in {"debit", "update"} /\ w.kind = "market" /\ w.row = o
        /\ w.quantity = r.quantity /\ w.todo = r.todo
    BY <1>2, <1>3, <1>5, <2>5, <2>6, WithControl
  <2>9. w.filled = r.quantity
    BY <1>5, <2>5, <2>6, WithLocals
  <2>10. \A x \in Rows \ {o} : Drifts(x)
    BY <2>1, MarketPlaced, PlacedDrifts DEF StateOK
  <2>11. o \in received' /\ o \notin OnBook'
    BY <2>1 DEF Placed
  <2>12. size'[o] <= w.quantity /\ w.filled <= w.quantity - size'[o]
    BY <1>5, <2>1, <2>8, <2>9
  <2> QED BY <1>1, <1>2, <1>3, <1>5, <2>1, <2>7, <2>8, <2>10, <2>11, <2>12, PlacedReal
          DEF PlaceMarket, db, faults
<1> QED BY <1>1, <1>3, <1>6, <1>7 DEF PlaceMarket

\* A write of row id and the end of the request, or the next order of a sync.
LEMMA RowWritten ==
    ASSUME StateOK, OneAtATime, Real, NEW t \in Threads, NEW w, req'[t] = w,
           UNCHANGED <<lastRow, fresh, failures>>, UNCHANGED engine,
           NEW id \in Rows, \A x \in Rows \ {id} : orders'[x] = orders[x],
           RowReal(id)', RequestReal(w)',
           \A x \in Rows \ {id} : ~ Busy(req[t], x)
    PROVE  Real'
<1>1. ASSUME NEW x \in Rows PROVE RowReal(x)'
  <2>1. CASE x = id
    BY <2>1
  <2>2. CASE x # id
    <3>1. RowReal(x)
      BY DEF Real
    <3>2. OnBook' = OnBook
      BY DEF OnBook, engine, ToSet
    <3>3. \A s \in Threads : ~ Busy(req[s], x)
      BY <2>2, SoloBusy
    <3> QED BY <2>2, <3>1, <3>2, <3>3
            DEF RowReal, engine, Counted, Executed, IsRow, IsOpen, UsedUp
  <2> QED BY <2>1, <2>2
<1>2. lastRow' <= MaxRows /\ failures' \in Nat
  BY DEF Real
<1> QED BY <1>1, <1>2, SoloStep

LEMMA IdleStaysReal == RequestReal(Idle)'
<1>1. DOMAIN Idle.todo = {} /\ Idle.todo = <<>> /\ Idle.pc = "idle" /\ Idle.kind = "none"
  BY EmptySequence DEF Idle
<1> QED BY <1>1 DEF RequestReal, Placing, TodoReal, Looking, InLoop, Marking, Unlocking

LEMMA DeleteReal ==
    ASSUME StateOK, StateOK', OneAtATime, Real, NEW t \in Threads, DeleteByEngineOrderID(t)
    PROVE  Real'
<1>1. PICK r : r = req[t]
  OBVIOUS
<1>2. Allowed(r) /\ RequestReal(r) /\ r.pc = "delete"
  BY <1>1 DEF StateOK, ReqOK, Real, DeleteByEngineOrderID
<1>3. r.kind = "market"
  BY <1>2 DEF Allowed, Control, At
<1>4. PlacingReal(r)
  BY <1>2, <1>3 DEF RequestReal, Placing
<1>5. PICK id \in Rows : id = r.row
  BY <1>4 DEF PlacingReal
<1>6. id \notin OnBook /\ id <= lastRow
  BY <1>2, <1>3, <1>4, <1>5 DEF PlacingReal
<1>7. /\ orders'[id] = NoRow /\ (\A x \in Rows \ {id} : orders'[x] = orders[x])
      /\ UNCHANGED <<lastRow, fresh, failures>> /\ UNCHANGED engine /\ OnBook' = OnBook
  BY <1>1, <1>5 DEF DeleteByEngineOrderID, StateOK, faults, market, engine, OnBook, ToSet
<1>8. RowReal(id)'
  BY <1>6, <1>7 DEF RowReal, IsRow, IsOpen, NoRow, engine
<1>9. req'[t] = Idle
  BY DEF DeleteByEngineOrderID, Become, StateOK, ReqOK
<1>10. \A x \in Rows \ {id} : ~ Busy(req[t], x)
  BY <1>1, <1>3, <1>5 DEF Busy
<1> QED BY <1>7, <1>8, <1>9, <1>10, IdleStaysReal, RowWritten

LEMMA MarkReal ==
    ASSUME StateOK, StateOK', OneAtATime, Real, NEW t \in Threads, MarkCancelled(t)
    PROVE  Real'
<1>1. PICK r : r = req[t]
  OBVIOUS
<1>2. Allowed(r) /\ RequestReal(r) /\ r.pc = "mark"
  BY <1>1 DEF StateOK, ReqOK, Real, MarkCancelled
<1>3. r.kind = "cancel" /\ r.row \in Rows
  BY <1>2 DEF Allowed, Control, At
<1>4. PICK id \in Rows : id = r.row
  BY <1>3
<1>5. id \notin OnBook /\ RowReal(id)
  BY <1>2, <1>3, <1>4 DEF RequestReal, Marking, Real
<1>6. PICK o \in RowSet : o = orders[id]
  BY DEF StateOK
<1>7. PICK w : w = With(o, [status |-> "CANCELLED"])
  OBVIOUS
<1>8. w.filled = o.filled /\ w.status = "CANCELLED" /\ w.quantity = o.quantity
  BY <1>7, RowCancelled
<1>9. orders' = IF ~ IsRow(id) THEN orders ELSE [orders EXCEPT ![id] = w]
  BY <1>1, <1>4, <1>6, <1>7 DEF MarkCancelled
<1>10. /\ orders'[id] = (IF ~ IsRow(id) THEN orders[id] ELSE w)
       /\ \A x \in Rows \ {id} : orders'[x] = orders[x]
       /\ UNCHANGED <<lastRow, fresh, failures>> /\ UNCHANGED engine /\ OnBook' = OnBook
  BY <1>9 DEF MarkCancelled, StateOK, faults, market, engine, OnBook, ToSet
<1>11. RowReal(id)'
  BY <1>5, <1>6, <1>8, <1>10 DEF RowReal, IsRow, IsOpen, engine, Counted, Executed
<1>12. req'[t] = Idle
  BY DEF MarkCancelled, Become, StateOK, ReqOK
<1>13. \A x \in Rows \ {id} : ~ Busy(req[t], x)
  BY <1>1, <1>3, <1>4 DEF Busy
<1> QED BY <1>10, <1>11, <1>12, <1>13, IdleStaysReal, RowWritten

\* What a handler writes to a row is what it has worked out of it.
LEMMA UpdateReal ==
    ASSUME StateOK, StateOK', OneAtATime, Real, NEW t \in Threads, UpdateExecution(t)
    PROVE  Real'
<1>1. PICK r : r = req[t]
  OBVIOUS
<1>2. Allowed(r) /\ RequestReal(r) /\ r.pc = "update"
  BY <1>1 DEF StateOK, ReqOK, Real, UpdateExecution
<1>3. \A x : ~ Busy(req[t], x)
  BY <1>1, <1>2 DEF Busy, Marking, Unlocking
<1>4. r.filled \in Nat /\ r.notional \in Nat /\ r.status \in Statuses /\ r.todo \in Seq(Todo)
  BY <1>2 DEF Allowed, Typed, Fits, Fields
<1>5. ASSUME NEW id \in Rows, NEW w, req'[t] = w, IsRow(id),
             orders' = IF ~ IsRow(id) THEN orders
                       ELSE [orders EXCEPT ![id] = With(@, [filled   |-> r.filled,
                                                            notional |-> r.notional,
                                                            status   |-> r.status])],
             Counted(id) => r.filled <= Executed(id),
             id \in OnBook => r.status \in {"OPEN", "PARTIALLY_FILLED"},
             failures = 0 /\ id \in fresh => id \in OnBook \/ UsedUp(id),
             (/\ orders'[id].quantity = orders[id].quantity /\ orders'[id].status = r.status
              /\ \A x \in Rows \ {id} : orders'[x] = orders[x])
                => RequestReal(w)'
      PROVE  Real'
  <2>1. PICK o \in RowSet : o = orders[id]
    BY DEF StateOK
  <2>2. PICK v : v = With(o, [filled |-> r.filled, notional |-> r.notional, status |-> r.status])
    OBVIOUS
  <2>3. v.filled = r.filled /\ v.status = r.status /\ v.quantity = o.quantity /\ v.kind = o.kind
    BY <1>4, <2>2, RowUpdated
  <2>4. orders'[id] = v /\ \A x \in Rows \ {id} : orders'[x] = orders[x]
    BY <1>5, <2>1, <2>2 DEF StateOK
  <2>5. UNCHANGED <<lastRow, fresh, failures>> /\ UNCHANGED engine /\ OnBook' = OnBook
    BY DEF UpdateExecution, faults, market, engine, OnBook, ToSet
  <2>6. RowReal(id)
    BY DEF Real
  <2>7. RowReal(id)'
    BY <1>5, <2>1, <2>3, <2>4, <2>5, <2>6
       DEF RowReal, IsRow, IsOpen, engine, Counted, Executed, UsedUp
  <2>8. RequestReal(w)'
    BY <1>5, <2>1, <2>3, <2>4
  <2> QED BY <1>3, <1>5, <2>4, <2>5, <2>7, <2>8, RowWritten
<1>6. CASE InSync(r)
  <2>1. r.kind \in {"sync", "cancel"} /\ InLoop(r) /\ Looking(r)
    BY <1>2, <1>6 DEF InSync, InLoop, Looking
  <2>2. r.todo # <<>>
    BY <1>2, <2>1 DEF Allowed, Control
  <2>3. 1 \in DOMAIN r.todo /\ Head(r.todo) = r.todo[1] /\ Head(r.todo) \in Todo
    BY <1>4, <2>2, InTail
  <2>4. PICK id \in Rows : id = Head(r.todo).id
    BY <2>3 DEF Todo
  <2>5. TodoReal(r) /\ SeenReal(r) /\ HeadReal(r)
    BY <1>2, <2>1 DEF RequestReal
  <2>6. PICK w : w = NextOrder(r)
    OBVIOUS
  <2>7. Become(t, w)
    BY <1>1, <1>6, <2>6 DEF UpdateExecution
  <2>8. Allowed(w) /\ req'[t] = w
    BY <2>7, Moved
  <2>9. IsRow(id)
    BY <2>3, <2>4, <2>5 DEF TodoReal
  <2>10. failures = 0 /\ id \in fresh => id \in OnBook \/ UsedUp(id)
    BY <2>3, <2>4, <2>5 DEF SeenReal, UsedUp
  <2>11. /\ Counted(id) => r.filled <= Executed(id)
         /\ id \in OnBook => r.status \in {"OPEN", "PARTIALLY_FILLED"}
         /\ r.status # "NONE"
    BY <2>4, <2>5 DEF HeadReal
  <2>12. orders' = IF ~ IsRow(id) THEN orders
                   ELSE [orders EXCEPT ![id] = With(@, [filled   |-> r.filled,
                                                        notional |-> r.notional,
                                                        status   |-> r.status])]
    BY <1>1, <1>6, <2>4 DEF UpdateExecution
  <2>13. RequestReal(w) /\ w.pc = "order"
    BY <1>2, <2>1, <2>2, <2>6, NextOrderReal
  <2>14. w.kind \in {"sync", "cancel"} /\ w.todo \in Seq(Todo)
    BY <2>8, <2>13 DEF Allowed, Typed, Fits, Fields, Control, At
  <2>15. OnBook' = OnBook /\ UNCHANGED <<lastRow, fresh, failures, wallet>> /\ UNCHANGED engine
    BY DEF UpdateExecution, faults, market, engine, OnBook, ToSet
  <2>16. ASSUME orders'[id].quantity = orders[id].quantity, orders'[id].status = r.status,
                \A x \in Rows \ {id} : orders'[x] = orders[x]
         PROVE  RequestReal(w)'
    <3>1. TodoReal(w)'
      <4> SUFFICES ASSUME NEW k \in DOMAIN w.todo
                   PROVE  LET e == w.todo[k]
                          IN  /\ IsRow(e.id)' /\ e.row.quantity = orders'[e.id].quantity
                              /\ Counted(e.id)' => e.row.filled <= Executed(e.id)'
        BY <2>13 DEF TodoReal, IsRow, Counted, Executed
      <4>1. w.todo[k] \in Todo
        BY <2>14, InToSet
      <4>2. PICK x \in Rows : x = w.todo[k].id
        BY <4>1 DEF Todo
      <4>3. /\ IsRow(x) /\ w.todo[k].row.quantity = orders[x].quantity
            /\ Counted(x) => w.todo[k].row.filled <= Executed(x)
        BY <2>13, <4>2 DEF RequestReal, TodoReal
      <4>4. orders'[x].quantity = orders[x].quantity /\ IsRow(x)'
        BY <2>11, <2>16, <4>3 DEF IsRow
      <4>5. (Counted(x)' <=> Counted(x)) /\ Executed(x)' = Executed(x)
        BY <2>15, <4>4 DEF Counted, Executed, engine
      <4>6. IsRow(w.todo[k].id)' /\ Counted(w.todo[k].id)' = Counted(x)' /\ Executed(w.todo[k].id)' = Executed(x)'
        BY <4>2, <4>4 DEF IsRow, Counted, Executed
      <4> QED BY <4>2, <4>3, <4>4, <4>5, <4>6
    <3>2. SeenReal(w)'
      BY <2>13, <2>15 DEF RequestReal, Looking, SeenReal, UsedUp, engine
    <3> QED BY <2>13, <2>14, <3>1, <3>2 DEF RequestReal, Placing, Looking, InLoop, Marking, Unlocking
  <2> QED BY <1>5, <2>8, <2>9, <2>10, <2>11, <2>12, <2>16
<1>7. CASE ~ InSync(r)
  <2>1. r.kind \in {"limit", "market"}
    BY <1>2, <1>7 DEF InSync, Allowed, Control, At
  <2>2. PlacingReal(r)
    BY <1>2, <2>1 DEF RequestReal, Placing
  <2>3. PICK id \in Rows : id = r.row
    BY <2>2 DEF PlacingReal
  <2>4. /\ r.filled <= Executed(id) /\ orders[id].status = "OPEN"
        /\ id \in OnBook => r.status \in {"OPEN", "PARTIALLY_FILLED"}
    BY <1>2, <2>2, <2>3 DEF PlacingReal
  <2>5. failures = 0 /\ id \in fresh => id \in OnBook \/ UsedUp(id)
    <3>1. \A s \in Threads : ~ Busy(req[s], id)
      BY <1>3 DEF OneAtATime
    <3> QED BY <2>4, <3>1 DEF Real, RowReal, IsOpen
  <2>6. orders' = IF ~ IsRow(id) THEN orders
                   ELSE [orders EXCEPT ![id] = With(@, [filled   |-> r.filled,
                                                        notional |-> r.notional,
                                                        status   |-> r.status])]
    BY <1>1, <1>7, <2>3 DEF UpdateExecution
  <2>7. req'[t] = Idle
    BY <1>1, <1>7 DEF UpdateExecution, Become, StateOK, ReqOK
  <2>8. IsRow(id)
    BY <2>4 DEF IsRow
  <2> QED BY <1>5, <2>4, <2>5, <2>6, <2>7, <2>8, IdleStaysReal
<1> QED BY <1>6, <1>7

\* Once the engine has been asked, the order rests no more.
LEMMA CancelOrderReal ==
    ASSUME StateOK, StateOK', OneAtATime, Real, NEW t \in Threads, CancelOrderByID(t)
    PROVE  Real'
<1>1. PICK r : r = req[t]
  OBVIOUS
<1>2. Allowed(r) /\ RequestReal(r) /\ r.pc = "cancel"
  BY <1>1 DEF StateOK, ReqOK, Real, CancelOrderByID
<1>3. r.kind = "cancel" /\ r.row \in Rows
  BY <1>2 DEF Allowed, Control, At
<1>4. PICK id \in Rows : id = r.row
  BY <1>3
<1>5. /\ OnBook' = OnBook \ {id} /\ UNCHANGED <<received, size>>
      /\ UNCHANGED <<wallet, orders, lastRow, fresh, failures>>
  <2>1. CASE id \in OnBook
    BY <1>1, <1>4, <2>1, Cancelled DEF CancelOrderByID, db, faults, StateOK
  <2>2. CASE id \notin OnBook
    <3>1. UNCHANGED engine
      BY <1>1, <1>4, <2>2 DEF CancelOrderByID
    <3>2. OnBook' = OnBook
      BY <3>1 DEF engine, OnBook, ToSet
    <3> QED BY <2>2, <3>1, <3>2 DEF CancelOrderByID, db, faults, engine
  <2> QED BY <2>1, <2>2
<1>6. PICK a : Set(t, UnlockUpTo(a, "mark"))
  BY DEF CancelOrderByID
<1>7. PICK f : f = UnlockUpTo(a, "mark")
  OBVIOUS
<1>8. /\ DOMAIN f \subseteq {"pc", "amount", "next"} /\ {"pc", "next"} \subseteq DOMAIN f
      /\ f.pc \in {"unlockRead", "mark"} /\ f.next = "mark"
  BY <1>7 DEF UnlockUpTo
<1>9. PICK w : w = With(r, f)
  OBVIOUS
<1>10. Become(t, w)
  BY <1>1, <1>6, <1>7, <1>9 DEF Set
<1>11. Allowed(w) /\ req'[t] = w
  BY <1>10, Moved
<1>12. w.pc \in {"unlockRead", "mark"} /\ w.next = "mark" /\ w.kind = "cancel" /\ w.row = id
       /\ w.todo = r.todo
  BY <1>2, <1>3, <1>4, <1>8, <1>9, WithControl DEF Allowed, Typed
<1>13. Marking(w) /\ ~ Looking(w) /\ ~ InLoop(w)
  BY <1>12 DEF Marking, Unlocking, Looking, InLoop
<1>14. \A x : \A s \in Threads : ~ Busy(req[s], x)
  BY <1>1, <1>2 DEF OneAtATime, Busy, Marking, Unlocking
<1>15. ASSUME NEW x \in Rows PROVE RowReal(x)'
  <2>1. RowReal(x)
    BY DEF Real
  <2>2. CASE x = id
    <3>1. Busy(w, x)
      BY <1>12, <1>13, <2>2 DEF Busy
    <3>2. ~ (\A s \in Threads : ~ Busy(req[s], x))'
      BY <1>11, <3>1, SoloBusy
    <3> QED BY <1>5, <2>1, <2>2, <3>2 DEF RowReal, IsRow, Counted, Executed
  <2>3. CASE x # id
    BY <1>5, <1>14, <2>1, <2>3 DEF RowReal, IsRow, IsOpen, Counted, Executed, UsedUp
  <2> QED BY <2>2, <2>3
<1>16. TodoReal(w)'
  BY <1>2, <1>5, <1>12 DEF RequestReal, TodoReal, IsRow, Counted, Executed
<1>17. RequestReal(w)'
  BY <1>5, <1>12, <1>13, <1>16 DEF RequestReal, Placing, Looking, InLoop, Marking, Unlocking
<1>18. lastRow' <= MaxRows /\ failures' \in Nat
  BY <1>5 DEF Real
<1> QED BY <1>11, <1>15, <1>17, <1>18, SoloStep

LEMMA CrashReal ==
    ASSUME StateOK, Real, Crash PROVE Real'
<1>1. /\ OnBook' = {} /\ fresh' = {} /\ req' = [t \in Threads |-> Idle]
      /\ UNCHANGED <<orders, lastRow, failures, received, size>>
  BY CrashOK DEF Crash
<1>2. ASSUME NEW x \in Rows PROVE RowReal(x)'
  <2>1. RowReal(x)
    BY DEF Real
  <2> QED BY <1>1, <2>1 DEF RowReal, IsRow, Counted, Executed
<1>3. \A t \in Threads : RequestReal(req[t])'
  <2> SUFFICES ASSUME NEW t \in Threads PROVE RequestReal(req[t])'
    OBVIOUS
  <2>1. req'[t] = Idle
    BY <1>1
  <2> QED BY <2>1, IdleStaysReal DEF RequestReal, PlacingReal, TodoReal, SeenReal, HeadReal,
     Counted, Executed, IsRow, IsOpen, UsedUp, Placing, Looking, InLoop, Marking, Unlocking
<1> QED BY <1>1, <1>2, <1>3 DEF Real, Rows

LEMMA InitReal == Init => Real
<1> SUFFICES ASSUME Init PROVE Real
  OBVIOUS
<1>1. OnBook = {}
  BY EmptySequence DEF Init, E!Init, OnBook
<1>2. /\ received = {} /\ fresh = {} /\ lastRow = 0 /\ failures = 0
      /\ \A x \in Rows : orders[x] = NoRow
  BY DEF Init, E!Init
<1>3. \A x \in Rows : RowReal(x)
  BY <1>1, <1>2 DEF RowReal, IsRow, NoRow
<1>4. \A t \in Threads : RequestReal(req[t])
  BY IdleReal DEF Init
<1> QED BY <1>2, <1>3, <1>4 DEF Real

LEMMA NextReal == OneAtATime /\ StateOK /\ Real /\ [Next]_vars => Real'
<1> SUFFICES ASSUME OneAtATime, StateOK, Real, [Next]_vars PROVE Real'
  OBVIOUS
<1>1. StateOK'
  BY NextOK
<1>2. ASSUME NEW t \in Threads, Handler(t) PROVE Real'
  BY <1>1, <1>2, DepositReal, RequestWithdrawalReal, WithdrawReal, SubmitLimitReal,
     LockAmountReal, SubmitMarketReal, ReadWalletReal, QuoteReal, CreateReal, ReleaseReal,
     PlaceLimitReal, ReadSizeReal, ReadStatusReal, PlaceMarketReal, DeleteReal, DebitReal,
     UnlockReadReal, UnlockWriteReal, UpdateReal, StartSyncReal, ListOpenReal, StreamReal,
     SyncOrderReal, GetReal, CancelOrderReal, MarkReal, StatementFailsReal DEF Handler
<1>3. CASE UNCHANGED vars
  <2>1. \A x \in Rows : Drifts(x)
    <3> SUFFICES ASSUME NEW x \in Rows PROVE Drifts(x)
      OBVIOUS
    <3>1. size[x] \in Nat
      BY DEF StateOK, EngineOK, EngineTyped, AllOrders
    <3>2. OnBook' = OnBook
      BY <1>3 DEF vars, market, engine, OnBook, ToSet
    <3> QED BY <1>3, <3>1, <3>2 DEF Drifts, vars, market, engine
  <2> QED BY <1>3, <2>1, OthersReal DEF vars
<1> QED BY <1>2, <1>3, OtherOrderReal, OtherCancelReal, CrashReal DEF Next

\* With one request at a time, and whatever fails or restarts: rows show no more than
\* their orders have traded, what rests has an open row, and what a request knows of
\* rows and orders is so.
THEOREM RealAlways == ASSUME OneAtATime PROVE Spec => []Real
<1>1. Init => Real
  BY InitReal
<1>2. StateOK /\ Real /\ [Next]_vars => Real'
  BY NextReal
<1> QED BY <1>1, <1>2, StateAlwaysOK, PTL DEF Spec

\* Rows whose orders rest are listed as active, with what rests remaining.
LEMMA RealIsCancellable == StateOK /\ Real => RestingIsCancellable
<1> SUFFICES ASSUME StateOK, Real, lastRow <= PageLimit, NEW r \in Rows \cap OnBook
             PROVE  \E k \in DOMAIN OrdersPage("active") :
                       LET o == OrdersPage("active")[k]
                       IN  o.id = r /\ CanCancelOrder(o.row) /\ Remaining(o.row) >= size[r]
  BY DEF RestingIsCancellable
<1>1. r \in Rows /\ RowReal(r) /\ orders[r].kind = "LIMIT" /\ IsOpen(orders[r]) /\ IsRow(r)
  BY DEF Real, RowReal, IsOpen, IsRow
<1>2. r \in received /\ size[r] > 0 /\ size[r] \in Nat
  BY <1>1, OnBookSides DEF StateOK, EngineOK, EngineTyped, Rests, AllOrders
<1>3. Remaining(orders[r]) >= size[r] /\ Remaining(orders[r]) > 0
  <2>1. orders[r].filled <= orders[r].quantity - size[r]
    BY <1>1, <1>2 DEF RowReal, Counted, Executed
  <2>2. orders[r].filled \in Nat /\ orders[r].quantity \in Nat
    BY <1>1 DEF StateOK, RowSet
  <2> QED BY <1>2, <2>1, <2>2 DEF Remaining
<1>4. r \in ListByUser
  <2> DEFINE newer == {q \in {x \in Rows : IsRow(x)} : q > r}
  <2>1. newer \in SUBSET ((r + 1)..lastRow)
    <3> SUFFICES ASSUME NEW q \in Rows, q > r, IsRow(q) PROVE q \in (r + 1)..lastRow
      OBVIOUS
    <3>1. q <= lastRow
      BY DEF Real, RowReal
    <3> QED BY <1>1, <3>1 DEF Rows, StateOK
  <2>2. r \in Nat /\ r >= 1 /\ r <= lastRow /\ lastRow \in Nat
    BY <1>1 DEF Rows, RowReal, StateOK
  <2>3. IsFiniteSet((r + 1)..lastRow) /\ Cardinality((r + 1)..lastRow) < PageLimit
    <3>1. r + 1 \in Int /\ lastRow \in Int
      BY <2>2
    <3>2. PICK a \in Int, b \in Int : a = r + 1 /\ b = lastRow
      BY <3>1
    <3>3. IsFiniteSet(a..b) /\ Cardinality(a..b) = IF a > b THEN 0 ELSE b - a + 1
      BY FS_Interval
    <3> QED BY <2>2, <3>2, <3>3
  <2> HIDE DEF newer
  <2>4. IsFiniteSet(newer) /\ Cardinality(newer) <= Cardinality((r + 1)..lastRow)
    BY <2>1, <2>3, FS_Subset
  <2>5. Cardinality(newer) \in Nat /\ Cardinality((r + 1)..lastRow) \in Nat
    BY <2>3, <2>4, FS_CardinalityType
  <2>6. Cardinality(newer) < PageLimit
    BY <2>3, <2>4, <2>5
  <2> QED BY <1>1, <2>6 DEF ListByUser, Newest, newer
<1> DEFINE S == {x \in ListByUser : orders[x].status \in normalizeOrdersTab("active")}
<1>5. S \in SUBSET Rows /\ OrdersPage("active") = NewestFirst(S)
  BY DEF OrdersPage, ListByUser, Newest
<1>6. r \in S
  BY <1>1, <1>4 DEF normalizeOrdersTab, IsOpen
<1> HIDE DEF S
<1>7. PICK s : s = NewestFirst(S)
  OBVIOUS
<1>8. /\ \A k \in DOMAIN s : s[k].row = orders[s[k].id]
      /\ \A x \in S : \E k \in DOMAIN s : s[k].id = x
  BY <1>5, <1>7, NewestFirstFacts DEF StateOK
<1>9. PICK k \in DOMAIN s : s[k].id = r /\ s[k].row = orders[r]
  BY <1>6, <1>8
<1> QED BY <1>1, <1>3, <1>5, <1>7, <1>9 DEF CanCancelOrder

\* Whatever restarts and whichever statements fail, the owner of a resting order who
\* has one request at a time under way finds it on the order page with a cancel button.
THEOREM RestingStaysCancellable == ASSUME OneAtATime PROVE Spec => []RestingIsCancellable
  BY RealIsCancellable, RealAlways, StateAlwaysOK, PTL

NoneFailed == failures = 0

LEMMA StillNoneFailed == MaxFailures = 0 /\ NoneFailed /\ [Next]_vars => NoneFailed'
<1> SUFFICES ASSUME MaxFailures = 0, NoneFailed, [Next]_vars PROVE failures' = failures
  BY DEF NoneFailed
<1>1. ASSUME NEW t \in Threads, Handler(t) PROVE failures' = failures
  <2>1. CASE \/ Deposit(t) \/ RequestWithdrawal(t) \/ Withdraw(t) \/ SubmitLimit(t)
             \/ LockAmount(t) \/ SubmitMarket(t) \/ ReadWallet(t) \/ Quote(t) \/ Create(t)
    BY <2>1 DEF Deposit, RequestWithdrawal, Withdraw, SubmitLimit, LockAmount, SubmitMarket,
       ReadWallet, Quote, Create, faults
  <2>2. CASE \/ Release(t) \/ PlaceLimit(t) \/ ReadSize(t) \/ ReadStatus(t) \/ PlaceMarket(t)
             \/ DeleteByEngineOrderID(t) \/ DebitWallet(t) \/ UnlockRead(t) \/ UnlockWrite(t)
    BY <2>2 DEF Release, PlaceLimit, ReadSize, ReadStatus, PlaceMarket, DeleteByEngineOrderID,
       DebitWallet, UnlockRead, UnlockWrite, faults
  <2>3. CASE \/ UpdateExecution(t) \/ StartSync(t) \/ ListOpenByUser(t) \/ StreamOrderBook(t)
             \/ SyncOrder(t) \/ GetByIDForUser(t) \/ CancelOrderByID(t) \/ MarkCancelled(t)
    BY <2>3 DEF UpdateExecution, StartSync, ListOpenByUser, StreamOrderBook, SyncOrder,
       GetByIDForUser, CancelOrderByID, MarkCancelled, faults
  <2>4. ~ StatementFails(t)
    BY DEF StatementFails, NoneFailed
  <2> QED BY <1>1, <2>1, <2>2, <2>3, <2>4 DEF Handler
<1> QED BY <1>1 DEF Next, OtherOrder, OtherCancel, Crash, vars, faults

\* Without failed statements, no row ever shows a fill its order has not had, however
\* often the process restarts: progress is inferred only where it was made.
THEOREM FillsAreReal ==
    ASSUME OneAtATime, MaxFailures = 0 PROVE Spec => []FilledIsReal
<1>1. Init => NoneFailed
  BY DEF Init, NoneFailed
<1>2. NoneFailed /\ [Next]_vars => NoneFailed'
  BY StillNoneFailed
<1>3. NoneFailed /\ Real => FilledIsReal
  BY DEF NoneFailed, Real, RowReal, Counted, FilledIsReal
<1> QED BY <1>1, <1>2, <1>3, RealAlways, PTL DEF Spec
===============================================================================
