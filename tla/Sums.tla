--------------------------------- MODULE Sums ---------------------------------
(***************************************************************************)
(* Lemmas about SumFunctionOnSet, in which the specifications say what an  *)
(* aggregate kept by hand stands for (a limit's TotalVolume, a side's      *)
(* depth), and about sequences: as sets, in the order of a relation,       *)
(* flattened, filtered, with one element put in.  The community modules    *)
(* define the sum by recursion over subsets and flattening by recursion    *)
(* over positions; what they compute is proved here by induction over the  *)
(* set of the values for which a claim holds.                              *)
(***************************************************************************)
EXTENDS Integers, FiniteSets, FiniteSetsExt, Functions, Sequences, SequencesExt,
        FiniteSetTheorems, SequenceTheorems, WellFoundedInduction, TLAPS

-----------------------------------------------------------------------------
(* Sequences as sets.                                                       *)

LEMMA EmptySequence == DOMAIN <<>> = {} /\ ToSet(<<>>) = {}
  BY DEF ToSet

\* What is in a typed sequence.
LEMMA InToSet ==
    ASSUME NEW S, NEW s \in Seq(S)
    PROVE  /\ DOMAIN s = 1..Len(s) /\ Len(s) \in Nat
           /\ \A j \in DOMAIN s : s[j] \in S /\ s[j] \in ToSet(s)
           /\ \A e \in ToSet(s) : e \in S /\ \E j \in DOMAIN s : s[j] = e
           /\ s = <<>> <=> ToSet(s) = {}
<1>1. DOMAIN s = 1..Len(s) /\ Len(s) \in Nat
  BY LenProperties
<1>2. \A j \in DOMAIN s : s[j] \in S
  BY <1>1, ElementOfSeq
<1>3. s = <<>> <=> Len(s) = 0
  BY EmptySeq
<1>4. ToSet(s) = {} => Len(s) = 0
  <2>1. ASSUME Len(s) # 0 PROVE s[1] \in ToSet(s)
    BY <1>1, <2>1 DEF ToSet
  <2> QED BY <2>1
<1>5. Len(s) = 0 => ToSet(s) = {}
  BY <1>1 DEF ToSet
<1>6. \A j \in DOMAIN s : s[j] \in ToSet(s)
  BY DEF ToSet
<1>7. \A e \in ToSet(s) : \E j \in DOMAIN s : s[j] = e
  BY DEF ToSet
<1>8. s = <<>> <=> ToSet(s) = {}
  BY <1>3, <1>4, <1>5
<1>9. \A e \in ToSet(s) : e \in S
  BY <1>2, <1>7
<1> QED BY <1>1, <1>2, <1>6, <1>7, <1>8, <1>9

\* A sequence has finitely many elements.
LEMMA FiniteToSet ==
    ASSUME NEW S, NEW s \in Seq(S)
    PROVE  IsFiniteSet(ToSet(s))
<1>1. DOMAIN s = 1..Len(s) /\ Len(s) \in Nat
  BY InToSet
<1>2. s \in [1..Len(s) -> ToSet(s)]
  BY <1>1, InToSet
<1>3. s \in Surjection(1..Len(s), ToSet(s))
  BY <1>1, <1>2, InToSet DEF Surjection
<1>4. ExistsSurjection(1..Len(s), ToSet(s))
  BY <1>3 DEF ExistsSurjection
<1> QED BY <1>1, <1>4, FS_NatSurjection

-----------------------------------------------------------------------------
(* Induction, stated of the set of values for which a claim holds.          *)

LEMMA NatSetInduction ==
    ASSUME NEW Good, 0 \in Good, \A n \in Nat : n \in Good => n + 1 \in Good
    PROVE  Nat \subseteq Good
<1> DEFINE R == OpToRel(<, Nat)
           Bad == {n \in Nat : n \notin Good}
<1> SUFFICES ASSUME Bad # {} PROVE FALSE
  OBVIOUS
<1>1. IsWellFoundedOn(R, Nat)
  BY NatLessThanWellFounded
<1>2. PICK n \in Bad : \A m \in Bad : ~ (<<m, n>> \in R)
  <2> HIDE DEF R, Bad
  <2>1. Bad \subseteq Nat
    BY DEF Bad
  <2> QED BY <1>1, <2>1, WFMin
<1>3. n # 0 /\ n \in Nat
  OBVIOUS
<1>4. n - 1 \in Good
  <2>1. n - 1 \in Nat /\ n - 1 < n
    BY <1>3
  <2>2. <<n - 1, n>> \in R
    BY <2>1, <1>3 DEF OpToRel
  <2> QED BY <2>1, <2>2, <1>2
<1>5. n - 1 + 1 = n /\ n - 1 \in Nat
  BY <1>3
<1> QED BY <1>4, <1>5

LEMMA SetInduction ==
    ASSUME NEW S, IsFiniteSet(S), NEW Good,
           \A T \in SUBSET S : (\A U \in SUBSET T : U # T => U \in Good) => T \in Good
    PROVE  \A T \in SUBSET S : T \in Good
<1> DEFINE R == StrictSubsetOrdering(S)
           Bad == {T \in SUBSET S : T \notin Good}
<1> SUFFICES ASSUME Bad # {} PROVE FALSE
  OBVIOUS
<1>1. IsWellFoundedOn(R, SUBSET S)
  <2>1. IsWellFoundedOn(R, FiniteSubsetsOf(S))
    BY FS_StrictSubsetOrderingWellFounded
  <2>2. FiniteSubsetsOf(S) = SUBSET S
    BY FS_FiniteSubsetsOfFinite
  <2> QED BY <2>1, <2>2
<1>2. PICK T \in Bad : \A U \in Bad : ~ (<<U, T>> \in R)
  <2> HIDE DEF R, Bad
  <2>1. Bad \subseteq SUBSET S
    BY DEF Bad
  <2> QED BY <1>1, <2>1, WFMin
<1>3. \A U \in SUBSET T : U # T => U \in Good
  BY <1>2 DEF StrictSubsetOrdering
<1> QED BY <1>3

-----------------------------------------------------------------------------
(* Sums.                                                                    *)

First(s) == CHOOSE x \in s : TRUE

\* The recursive function that SumFunctionOnSet chooses.
IsSum(g, f, S) ==
    g = [s \in SUBSET S |-> IF s = {} THEN 0 ELSE f[First(s)] + g[s \ {First(s)}]]

LEMMA SumIsChosen ==
    ASSUME NEW f, NEW S
    PROVE  SumFunctionOnSet(f, S) = (CHOOSE g : IsSum(g, f, S))[S]
  BY DEF SumFunctionOnSet, FoldFunctionOnSet, MapThenFoldSet, IsSum, First

\* Two such functions agree where both are defined.
LEMMA SumUnique ==
    ASSUME NEW f, NEW S, NEW T, NEW g, NEW h, IsSum(g, f, S), IsSum(h, f, T),
           NEW U, IsFiniteSet(U), U \subseteq S, U \subseteq T
    PROVE  g[U] = h[U]
<1> DEFINE Good == {V \in SUBSET U : g[V] = h[V]}
<1>1. ASSUME NEW V \in SUBSET U, \A W \in SUBSET V : W # V => W \in Good
      PROVE  V \in Good
  <2>1. V \in SUBSET S /\ V \in SUBSET T
    OBVIOUS
  <2>2. /\ g[V] = IF V = {} THEN 0 ELSE f[First(V)] + g[V \ {First(V)}]
        /\ h[V] = IF V = {} THEN 0 ELSE f[First(V)] + h[V \ {First(V)}]
    BY <2>1 DEF IsSum
  <2>3. V # {} => First(V) \in V
    BY DEF First
  <2>4. V # {} => g[V \ {First(V)}] = h[V \ {First(V)}]
    BY <1>1, <2>3
  <2> QED BY <2>2, <2>4
<1> HIDE DEF Good
<1>2. \A V \in SUBSET U : V \in Good
  BY <1>1, SetInduction
<1> QED BY <1>2 DEF Good

\* There is one for every finite set.
LEMMA SumExists ==
    ASSUME NEW f, NEW S, IsFiniteSet(S)
    PROVE  \E g : IsSum(g, f, S)
<1> DEFINE Good == {T \in SUBSET S : \E g : IsSum(g, f, T)}
<1>1. ASSUME NEW T \in SUBSET S, \A U \in SUBSET T : U # T => U \in Good
      PROVE  T \in Good
  <2> DEFINE V(s) == (CHOOSE g : IsSum(g, f, s))[s]
             x == First(T)
             h == [s \in SUBSET T |-> IF s # T THEN V(s)
                                      ELSE IF T = {} THEN 0 ELSE f[x] + V(T \ {x})]
  <2>1. \A U \in SUBSET T : U # T => IsSum(CHOOSE g : IsSum(g, f, U), f, U)
    BY <1>1
  <2>2. ASSUME NEW s \in SUBSET T
        PROVE  h[s] = IF s = {} THEN 0 ELSE f[First(s)] + h[s \ {First(s)}]
    <3> DEFINE y == First(s)
    <3>0. s # {} => y \in s
      BY DEF First
    <3>1. CASE s = T
      <4>1. T # {} => T \ {x} # T /\ T \ {x} \in SUBSET T
        BY <3>0, <3>1
      <4> QED BY <3>1, <4>1
    <3>2. CASE s # T
      <4> DEFINE k == CHOOSE g : IsSum(g, f, s)
                 m == CHOOSE g : IsSum(g, f, s \ {y})
      <4>1. IsSum(k, f, s) /\ h[s] = k[s] /\ s \in SUBSET s
        BY <2>1, <3>2
      <4> HIDE DEF h
      <4>2. k[s] = IF s = {} THEN 0 ELSE f[y] + k[s \ {y}]
        BY <4>1 DEF IsSum
      <4>3. CASE s = {}
        BY <4>1, <4>2, <4>3
      <4>4. CASE s # {}
        <5>1. s \ {y} \in SUBSET T /\ s \ {y} # T
          BY <3>0, <4>4
        <5>2. IsSum(m, f, s \ {y}) /\ h[s \ {y}] = m[s \ {y}]
          BY <2>1, <5>1 DEF h
        <5> HIDE DEF k, m
        <5>3. IsFiniteSet(s \ {y})
          BY FS_Subset
        <5>4. k[s \ {y}] = m[s \ {y}]
          <6>1. s \ {y} \subseteq s /\ s \ {y} \subseteq s \ {y}
            OBVIOUS
          <6> HIDE DEF y
          <6> QED BY <4>1, <5>2, <5>3, <6>1, SumUnique
        <5> QED BY <4>1, <4>2, <4>4, <5>2, <5>4
      <4> QED BY <4>3, <4>4
    <3> QED BY <3>1, <3>2
  <2>3. h = [s \in SUBSET T |-> h[s]]
    OBVIOUS
  <2> HIDE DEF h
  <2>4. IsSum(h, f, T)
    BY <2>2, <2>3 DEF IsSum
  <2> QED BY <2>4
<1> HIDE DEF Good
<1>2. S \in Good
  BY <1>1, SetInduction
<1> QED BY <1>2 DEF Good

\* The sum over a finite set, one element at a time.
LEMMA SumUnfold ==
    ASSUME NEW f, NEW S, IsFiniteSet(S)
    PROVE  SumFunctionOnSet(f, S) =
              IF S = {} THEN 0 ELSE f[First(S)] + SumFunctionOnSet(f, S \ {First(S)})
<1> DEFINE T == S \ {First(S)}
           g == CHOOSE g : IsSum(g, f, S)
           h == CHOOSE h : IsSum(h, f, T)
<1>1. IsFiniteSet(T)
  BY FS_Subset
<1>2. IsSum(g, f, S) /\ IsSum(h, f, T)
  <2>1. (\E k : IsSum(k, f, S)) /\ (\E k : IsSum(k, f, T))
    <3> HIDE DEF T
    <3> QED BY <1>1, SumExists
  <2> QED BY <2>1
<1>3. SumFunctionOnSet(f, S) = g[S] /\ SumFunctionOnSet(f, T) = h[T]
  BY SumIsChosen
<1>4. g[T] = h[T]
  <2>1. T \subseteq S /\ T \subseteq T
    OBVIOUS
  <2> HIDE DEF T, g, h
  <2> QED BY <1>1, <1>2, <2>1, SumUnique
<1>5. g[S] = IF S = {} THEN 0 ELSE f[First(S)] + g[T]
  <2> HIDE DEF g
  <2> QED BY <1>2 DEF IsSum
<1> QED BY <1>3, <1>4, <1>5

LEMMA SumEmpty == ASSUME NEW f PROVE SumFunctionOnSet(f, {}) = 0
  BY SumUnfold, FS_EmptySet

\* A sum of integers is an integer.
LEMMA SumInt ==
    ASSUME NEW f, NEW S, IsFiniteSet(S), \A x \in S : f[x] \in Int
    PROVE  SumFunctionOnSet(f, S) \in Int
<1> DEFINE Good == {T \in SUBSET S : SumFunctionOnSet(f, T) \in Int}
<1>1. ASSUME NEW T \in SUBSET S, \A U \in SUBSET T : U # T => U \in Good
      PROVE  T \in Good
  <2>1. IsFiniteSet(T)
    BY FS_Subset
  <2>2. CASE T = {}
    BY <2>2, SumEmpty
  <2>3. CASE T # {}
    <3>1. First(T) \in T
      BY <2>3 DEF First
    <3>2. T \ {First(T)} \in Good /\ f[First(T)] \in Int
      BY <1>1, <3>1
    <3> QED BY <2>1, <2>3, <3>2, SumUnfold
  <2> QED BY <2>2, <2>3
<1> HIDE DEF Good
<1>2. S \in Good
  BY <1>1, SetInduction
<1> QED BY <1>2 DEF Good

\* The element that is counted first does not matter.
LEMMA SumRemove ==
    ASSUME NEW f, NEW S, IsFiniteSet(S), \A y \in S : f[y] \in Int, NEW x \in S
    PROVE  SumFunctionOnSet(f, S) = f[x] + SumFunctionOnSet(f, S \ {x})
<1> DEFINE V(T) == SumFunctionOnSet(f, T)
           Good == {T \in SUBSET S : \A y \in T : V(T) = f[y] + V(T \ {y})}
<1>1. ASSUME NEW T \in SUBSET S, \A U \in SUBSET T : U # T => U \in Good
      PROVE  T \in Good
  <2> SUFFICES ASSUME NEW y \in T PROVE V(T) = f[y] + V(T \ {y})
    OBVIOUS
  <2> DEFINE z == First(T)
             W == (T \ {z}) \ {y}
  <2>1. IsFiniteSet(T) /\ IsFiniteSet(T \ {z}) /\ IsFiniteSet(T \ {y}) /\ IsFiniteSet(W)
    BY FS_Subset
  <2>2. z \in T
    BY DEF First
  <2>3. V(T) = f[z] + V(T \ {z})
    BY <2>1, SumUnfold
  <2>4. CASE y = z
    BY <2>3, <2>4
  <2>5. CASE y # z
    <3> HIDE DEF z
    <3>1. y \in T \ {z} /\ z \in T \ {y} /\ (T \ {y}) \ {z} = W
      BY <2>2, <2>5
    <3>2. T \ {z} \in Good /\ T \ {y} \in Good
      BY <1>1, <2>2
    <3>3. V(T \ {z}) = f[y] + V(W)
      BY <3>1, <3>2
    <3>4. V(T \ {y}) = f[z] + V(W)
      BY <3>1, <3>2
    <3>5. V(W) \in Int /\ f[y] \in Int /\ f[z] \in Int
      BY <2>1, <2>2, SumInt
    <3> QED BY <2>3, <3>3, <3>4, <3>5
  <2> QED BY <2>4, <2>5
<1> HIDE DEF Good
<1>2. S \in Good
  BY <1>1, SetInduction
<1> QED BY <1>2 DEF Good

\* Functions that agree on a set have the same sum over it.
LEMMA SumSame ==
    ASSUME NEW f, NEW g, NEW S, IsFiniteSet(S), \A x \in S : f[x] = g[x]
    PROVE  SumFunctionOnSet(f, S) = SumFunctionOnSet(g, S)
<1> DEFINE Good == {T \in SUBSET S : SumFunctionOnSet(f, T) = SumFunctionOnSet(g, T)}
<1>1. ASSUME NEW T \in SUBSET S, \A U \in SUBSET T : U # T => U \in Good
      PROVE  T \in Good
  <2>1. IsFiniteSet(T)
    BY FS_Subset
  <2>2. CASE T = {}
    BY <2>2, SumEmpty
  <2>3. CASE T # {}
    <3>1. First(T) \in T
      BY <2>3 DEF First
    <3>2. T \ {First(T)} \in Good /\ f[First(T)] = g[First(T)]
      BY <1>1, <3>1
    <3> QED BY <2>1, <2>3, <3>2, SumUnfold
  <2> QED BY <2>2, <2>3
<1> HIDE DEF Good
<1>2. S \in Good
  BY <1>1, SetInduction
<1> QED BY <1>2 DEF Good

\* Smaller summands, smaller sum.
LEMMA SumMonotone ==
    ASSUME NEW f, NEW g, NEW S, IsFiniteSet(S),
           \A x \in S : f[x] \in Int /\ g[x] \in Int /\ f[x] <= g[x]
    PROVE  SumFunctionOnSet(f, S) <= SumFunctionOnSet(g, S)
<1> DEFINE Good == {T \in SUBSET S : SumFunctionOnSet(f, T) <= SumFunctionOnSet(g, T)}
<1>1. ASSUME NEW T \in SUBSET S, \A U \in SUBSET T : U # T => U \in Good
      PROVE  T \in Good
  <2>1. IsFiniteSet(T)
    BY FS_Subset
  <2>2. CASE T = {}
    BY <2>2, SumEmpty
  <2>3. CASE T # {}
    <3> DEFINE x == First(T)
               U == T \ {x}
    <3>1. x \in T
      BY <2>3 DEF First
    <3>2. U \in Good /\ f[x] \in Int /\ g[x] \in Int /\ f[x] <= g[x]
      BY <1>1, <3>1
    <3>3. SumFunctionOnSet(f, U) \in Int /\ SumFunctionOnSet(g, U) \in Int
      <4>1. IsFiniteSet(U) /\ \A y \in U : f[y] \in Int /\ g[y] \in Int
        BY <2>1, FS_Subset
      <4> HIDE DEF U
      <4> QED BY <4>1, SumInt
    <3>4. /\ SumFunctionOnSet(f, T) = f[x] + SumFunctionOnSet(f, U)
          /\ SumFunctionOnSet(g, T) = g[x] + SumFunctionOnSet(g, U)
      BY <2>1, <2>3, SumUnfold
    <3> QED BY <3>2, <3>3, <3>4
  <2> QED BY <2>2, <2>3
<1> HIDE DEF Good
<1>2. S \in Good
  BY <1>1, SetInduction
<1> QED BY <1>2 DEF Good

\* One more summand.
LEMMA SumAdd ==
    ASSUME NEW f, NEW S, IsFiniteSet(S), NEW x, x \notin S, \A y \in S \cup {x} : f[y] \in Int
    PROVE  SumFunctionOnSet(f, S \cup {x}) = f[x] + SumFunctionOnSet(f, S)
<1>1. IsFiniteSet(S \cup {x}) /\ (S \cup {x}) \ {x} = S /\ x \in S \cup {x}
  BY FS_AddElement
<1> QED BY <1>1, SumRemove

\* One summand changes.
LEMMA SumChange ==
    ASSUME NEW f, NEW g, NEW S, IsFiniteSet(S), NEW x \in S,
           \A y \in S : f[y] \in Int, g[x] \in Int, \A y \in S \ {x} : g[y] = f[y]
    PROVE  SumFunctionOnSet(g, S) = SumFunctionOnSet(f, S) - f[x] + g[x]
<1>1. IsFiniteSet(S \ {x})
  BY FS_Subset
<1>2. SumFunctionOnSet(f, S \ {x}) = SumFunctionOnSet(g, S \ {x})
  BY <1>1, SumSame
<1>3. \A y \in S : g[y] \in Int
  OBVIOUS
<1>4. SumFunctionOnSet(f, S) = f[x] + SumFunctionOnSet(f, S \ {x})
  BY SumRemove
<1>5. SumFunctionOnSet(g, S) = g[x] + SumFunctionOnSet(g, S \ {x})
  BY <1>3, SumRemove
<1>6. SumFunctionOnSet(f, S \ {x}) \in Int
  BY <1>1, SumInt
<1> QED BY <1>2, <1>4, <1>5, <1>6

\* A sum of naturals is one, and no less than any summand.
LEMMA SumNat ==
    ASSUME NEW f, NEW S, IsFiniteSet(S), \A x \in S : f[x] \in Nat
    PROVE  /\ SumFunctionOnSet(f, S) \in Nat
           /\ \A x \in S : f[x] <= SumFunctionOnSet(f, S)
           /\ (\A x \in S : f[x] = 0) => SumFunctionOnSet(f, S) = 0
           /\ SumFunctionOnSet(f, S) = 0 => \A x \in S : f[x] = 0
<1> DEFINE zero == [x \in S |-> 0]
           Zeroes == {T \in SUBSET S : SumFunctionOnSet(zero, T) = 0}
<1>1. ASSUME NEW T \in SUBSET S, \A U \in SUBSET T : U # T => U \in Zeroes
      PROVE  T \in Zeroes
  <2>1. IsFiniteSet(T)
    BY FS_Subset
  <2>2. CASE T = {}
    BY <2>2, SumEmpty
  <2>3. CASE T # {}
    <3>1. First(T) \in T
      BY <2>3 DEF First
    <3>2. T \ {First(T)} \in Zeroes /\ zero[First(T)] = 0
      BY <1>1, <3>1
    <3> QED BY <2>1, <2>3, <3>2, SumUnfold
  <2> QED BY <2>2, <2>3
<1>2. SumFunctionOnSet(zero, S) = 0
  <2>1. \A T \in SUBSET S : T \in Zeroes
    <3> HIDE DEF Zeroes
    <3> QED BY <1>1, SetInduction
  <2> QED BY <2>1
\* Any set of naturals, to be used for the rest of the summands too.
<1>3. ASSUME NEW T \in SUBSET S PROVE SumFunctionOnSet(f, T) \in Nat
  <2>1. IsFiniteSet(T)
    BY FS_Subset
  <2>2. \A y \in T : f[y] \in Int /\ zero[y] \in Int /\ zero[y] <= f[y]
    OBVIOUS
  <2>3. SumFunctionOnSet(zero, T) = 0
    <3>1. \A U \in SUBSET S : U \in Zeroes
      <4> HIDE DEF Zeroes
      <4> QED BY <1>1, SetInduction
    <3> QED BY <3>1
  <2>4. SumFunctionOnSet(zero, T) <= SumFunctionOnSet(f, T)
    <3> HIDE DEF zero
    <3> QED BY <2>1, <2>2, SumMonotone
  <2>5. SumFunctionOnSet(f, T) \in Int
    BY <2>1, <2>2, SumInt
  <2> QED BY <2>3, <2>4, <2>5
<1>4. ASSUME NEW x \in S PROVE f[x] <= SumFunctionOnSet(f, S)
  <2>1. SumFunctionOnSet(f, S) = f[x] + SumFunctionOnSet(f, S \ {x})
    BY SumRemove
  <2>2. SumFunctionOnSet(f, S \ {x}) \in Nat
    BY <1>3
  <2> QED BY <2>1, <2>2
<1>5. ASSUME \A x \in S : f[x] = 0 PROVE SumFunctionOnSet(f, S) = 0
  BY <1>2, <1>5, SumSame
<1>6. SumFunctionOnSet(f, S) \in Nat
  BY <1>3
<1> QED BY <1>4, <1>5, <1>6

\* More summands, larger sum.
LEMMA SumSubset ==
    ASSUME NEW f, NEW S, IsFiniteSet(S), \A x \in S : f[x] \in Nat, NEW T \in SUBSET S
    PROVE  SumFunctionOnSet(f, T) <= SumFunctionOnSet(f, S)
<1> DEFINE Good == {W \in SUBSET (S \ T) :
                      SumFunctionOnSet(f, T) <= SumFunctionOnSet(f, T \cup W)}
<1>1. ASSUME NEW W \in SUBSET (S \ T), \A U \in SUBSET W : U # W => U \in Good
      PROVE  W \in Good
  <2>0. IsFiniteSet(T) /\ IsFiniteSet(T \cup W)
    BY FS_Subset
  <2>1. SumFunctionOnSet(f, T) \in Nat
    BY <2>0, SumNat
  <2>2. CASE W = {}
    <3>1. T \cup W = T
      BY <2>2
    <3> QED BY <2>1, <3>1
  <2>3. CASE W # {}
    <3>1. PICK x : x \in W
      BY <2>3
    <3> DEFINE U == W \ {x}
    <3>2. U \in Good
      BY <1>1, <3>1
    <3>3. T \cup W = (T \cup U) \cup {x} /\ x \notin T \cup U /\ IsFiniteSet(T \cup U)
      BY <3>1, FS_Subset
    <3>4. \A y \in (T \cup U) \cup {x} : f[y] \in Nat
      BY <3>1
    <3>5. SumFunctionOnSet(f, T \cup W) = f[x] + SumFunctionOnSet(f, T \cup U)
      <4>1. \A y \in (T \cup U) \cup {x} : f[y] \in Int
        BY <3>4
      <4> HIDE DEF U
      <4> QED BY <3>3, <4>1, SumAdd
    <3>6. SumFunctionOnSet(f, T \cup U) \in Nat /\ f[x] \in Nat
      BY <3>3, <3>4, SumNat
    <3> QED BY <2>1, <3>2, <3>5, <3>6
  <2> QED BY <2>2, <2>3
<1>2. IsFiniteSet(S \ T)
  BY FS_Subset
<1>3. S \ T \in Good
  <2> DEFINE D == S \ T
  <2>1. D \in SUBSET D /\ IsFiniteSet(D)
    BY <1>2
  <2>2. \A W \in SUBSET D : (\A U \in SUBSET W : U # W => U \in Good) => W \in Good
    BY <1>1
  <2> HIDE DEF Good, D
  <2>3. \A W \in SUBSET D : W \in Good
    BY <2>1, <2>2, SetInduction
  <2> QED BY <2>1, <2>3 DEF D
<1>4. T \cup (S \ T) = S
  OBVIOUS
<1> QED BY <1>3, <1>4

\* The sum over two sets that have nothing in common.
LEMMA SumUnion ==
    ASSUME NEW f, NEW S, NEW T, IsFiniteSet(S), IsFiniteSet(T), S \cap T = {},
           \A x \in S \cup T : f[x] \in Int
    PROVE  SumFunctionOnSet(f, S \cup T) = SumFunctionOnSet(f, S) + SumFunctionOnSet(f, T)
<1> DEFINE V(U) == SumFunctionOnSet(f, U)
           Good == {U \in SUBSET T : V(S \cup U) = V(S) + V(U)}
<1>1. ASSUME NEW U \in SUBSET T, \A W \in SUBSET U : W # U => W \in Good
      PROVE  U \in Good
  <2>1. IsFiniteSet(U) /\ V(S) \in Int
    BY FS_Subset, SumInt
  <2>2. CASE U = {}
    <3>1. S \cup U = S /\ V(U) = 0
      BY <2>2, SumEmpty
    <3> QED BY <2>1, <3>1
  <2>3. CASE U # {}
    <3>1. PICK x : x \in U
      BY <2>3
    <3> DEFINE W == U \ {x}
    <3>2. W \in Good /\ x \notin S \cup W /\ S \cup U = (S \cup W) \cup {x} /\ U = W \cup {x}
      BY <1>1, <3>1
    <3>3. IsFiniteSet(W) /\ IsFiniteSet(S \cup W)
      BY <2>1, FS_Subset, FS_Union
    <3>4. /\ \A y \in (S \cup W) \cup {x} : f[y] \in Int
          /\ \A y \in W \cup {x} : f[y] \in Int
          /\ \A y \in S \cup W : f[y] \in Int
          /\ x \notin W
      BY <3>1
    <3>5. W \in SUBSET T /\ V(S \cup W) = V(S) + V(W)
      BY <3>2
    <3> HIDE DEF W, Good
    <3>6. SumFunctionOnSet(f, (S \cup W) \cup {x}) = f[x] + SumFunctionOnSet(f, S \cup W)
      BY <3>2, <3>3, <3>4, SumAdd
    <3>7. SumFunctionOnSet(f, W \cup {x}) = f[x] + SumFunctionOnSet(f, W)
      BY <3>3, <3>4, SumAdd
    <3>8. V(W) \in Int /\ f[x] \in Int
      BY <3>3, <3>4, SumInt
    <3>9. V(S \cup U) = f[x] + V(S \cup W) /\ V(U) = f[x] + V(W)
      BY <3>2, <3>6, <3>7
    <3> HIDE DEF V
    <3> QED BY <2>1, <3>5, <3>8, <3>9 DEF Good
  <2> QED BY <2>2, <2>3
<1> HIDE DEF Good
<1>2. T \in Good
  BY <1>1, SetInduction
<1> QED BY <1>2 DEF Good

-----------------------------------------------------------------------------
(* What an order of n takes from levels D when A[q] are those ahead of q.   *)

LEMMA Smaller ==
    ASSUME NEW m \in Int, NEW n \in Int
    PROVE  /\ Min({m, n}) = IF m <= n THEN m ELSE n
           /\ Max({m, n}) = IF m <= n THEN n ELSE m
<1>1. \A x \in {m, n} : (\A y \in {m, n} : x <= y) => x = IF m <= n THEN m ELSE n
  OBVIOUS
<1>2. \A x \in {m, n} : (\A y \in {m, n} : x >= y) => x = IF m <= n THEN n ELSE m
  OBVIOUS
<1>3. (IF m <= n THEN m ELSE n) \in {m, n} /\ \A y \in {m, n} : (IF m <= n THEN m ELSE n) <= y
  OBVIOUS
<1>4. (IF m <= n THEN n ELSE m) \in {m, n} /\ \A y \in {m, n} : (IF m <= n THEN n ELSE m) >= y
  OBVIOUS
<1>5. Min({m, n}) \in {m, n} /\ \A y \in {m, n} : Min({m, n}) <= y
  BY <1>3 DEF Min
<1>6. Max({m, n}) \in {m, n} /\ \A y \in {m, n} : Max({m, n}) >= y
  BY <1>4 DEF Max
<1> QED BY <1>1, <1>2, <1>5, <1>6

Taken(D, A, n, q) == Max({0, Min({D[q], n - SumFunctionOnSet(D, A[q])})})

LEMMA TakenIs ==
    ASSUME NEW D, NEW A, NEW n \in Int, NEW q, D[q] \in Nat, SumFunctionOnSet(D, A[q]) \in Int
    PROVE  LET m == n - SumFunctionOnSet(D, A[q])
           IN  Taken(D, A, n, q) = IF m <= 0 THEN 0 ELSE IF D[q] <= m THEN D[q] ELSE m
<1> DEFINE m == n - SumFunctionOnSet(D, A[q])
<1>1. m \in Int
  OBVIOUS
<1> HIDE DEF m
<1>2. Min({D[q], m}) = (IF D[q] <= m THEN D[q] ELSE m) /\ Min({D[q], m}) \in Int
  BY <1>1, Smaller
<1>3. ASSUME NEW k \in Int PROVE Max({0, k}) = IF 0 <= k THEN k ELSE 0
  <2>1. 0 \in Int
    OBVIOUS
  <2> QED BY <2>1, Smaller
<1>4. Taken(D, A, n, q) = Max({0, Min({D[q], m})})
  BY DEF Taken, m
<1>5. Taken(D, A, n, q) = IF m <= 0 THEN 0 ELSE IF D[q] <= m THEN D[q] ELSE m
  <2> DEFINE k == Min({D[q], m})
  <2>1. k = (IF D[q] <= m THEN D[q] ELSE m) /\ k \in Int
    BY <1>2
  <2>2. Max({0, k}) = IF 0 <= k THEN k ELSE 0
    BY <1>3, <2>1
  <2>3. Taken(D, A, n, q) = Max({0, k})
    BY <1>4
  <2> HIDE DEF k
  <2> QED BY <1>1, <2>1, <2>2, <2>3
<1> QED BY <1>5 DEF m

\* An order that is large enough takes all of the levels it reaches.
LEMMA TakesAll ==
    ASSUME NEW D, NEW P, IsFiniteSet(P), \A q \in P : D[q] \in Nat, NEW A,
           \A q \in P : A[q] \subseteq P \ {q},
           NEW n \in Nat, SumFunctionOnSet(D, P) <= n
    PROVE  \A q \in P : Taken(D, A, n, q) = D[q]
<1> SUFFICES ASSUME NEW q \in P PROVE Taken(D, A, n, q) = D[q]
  OBVIOUS
<1> DEFINE R == P \ {q}
           S == SumFunctionOnSet(D, A[q])
<1>1. IsFiniteSet(R) /\ IsFiniteSet(A[q]) /\ A[q] \subseteq P /\ A[q] \in SUBSET R
  <2>1. A[q] \subseteq P /\ A[q] \in SUBSET R
    OBVIOUS
  <2> QED BY <2>1, FS_Subset
<1>2. /\ \A x \in R : D[x] \in Nat
      /\ \A x \in A[q] : D[x] \in Nat
      /\ \A x \in P : D[x] \in Int
  BY <1>1
<1>3. SumFunctionOnSet(D, R) \in Nat /\ S \in Nat
  <2> HIDE DEF R
  <2> QED BY <1>1, <1>2, SumNat
<1>4. S <= SumFunctionOnSet(D, R)
  <2> HIDE DEF R
  <2> QED BY <1>1, <1>2, SumSubset
<1>5. SumFunctionOnSet(D, P) = D[q] + SumFunctionOnSet(D, R)
  BY <1>2, SumRemove
<1> HIDE DEF R, S
<1>6. D[q] <= n - S /\ D[q] \in Nat
  BY <1>3, <1>4, <1>5
<1>7. Taken(D, A, n, q) = IF n - S <= 0 THEN 0 ELSE IF D[q] <= n - S THEN D[q] ELSE n - S
  BY <1>3, <1>6, TakenIs DEF S
<1> QED BY <1>3, <1>6, <1>7

\* An order that stops inside level t takes all of the levels G ahead of it, the rest of
\* itself from t, and nothing from those behind.
LEMMA TakesPart ==
    ASSUME NEW D, NEW P, IsFiniteSet(P), \A q \in P : D[q] \in Nat, NEW A,
           \A q \in P : A[q] \subseteq P,
           NEW G \in SUBSET P, NEW t \in P \ G,
           \A q \in G : A[q] \subseteq G \ {q}, A[t] = G,
           \A q \in P \ (G \cup {t}) : G \cup {t} \subseteq A[q],
           NEW d \in Nat, d <= D[t],
           NEW n \in Nat, n = SumFunctionOnSet(D, G) + d
    PROVE  /\ \A q \in G : Taken(D, A, n, q) = D[q]
           /\ Taken(D, A, n, t) = d
           /\ \A q \in P \ (G \cup {t}) : Taken(D, A, n, q) = 0
           /\ n <= SumFunctionOnSet(D, P)
<1> DEFINE H == G \cup {t}
<1>0. IsFiniteSet(G) /\ IsFiniteSet(H) /\ H \in SUBSET P
  BY FS_Subset
<1>1. /\ \A q \in G : D[q] \in Nat
      /\ \A q \in H : D[q] \in Nat /\ D[q] \in Int
  BY <1>0
<1>2. SumFunctionOnSet(D, G) \in Nat
  BY <1>0, <1>1, SumNat
<1>3. SumFunctionOnSet(D, H) = D[t] + SumFunctionOnSet(D, G)
  BY <1>0, <1>1, SumAdd
<1>4. \A q \in G : Taken(D, A, n, q) = D[q]
  <2>1. SumFunctionOnSet(D, G) <= n
    BY <1>2
  <2>2. /\ \A q \in G : D[q] \in Nat
        /\ \A q \in G : A[q] \subseteq G \ {q}
    BY <1>1
  <2> QED BY <1>0, <2>1, <2>2, TakesAll
<1>5. Taken(D, A, n, t) = d
  <2>1. Taken(D, A, n, t) = IF d <= 0 THEN 0 ELSE IF D[t] <= d THEN D[t] ELSE d
    <3> DEFINE S == SumFunctionOnSet(D, A[t])
    <3>1. S \in Int /\ D[t] \in Nat /\ n - S = d
      BY <1>1, <1>2
    <3>3. n \in Int /\ D[t] \in Nat /\ SumFunctionOnSet(D, A[t]) \in Int
      BY <3>1
    <3> HIDE DEF S
    <3>2. Taken(D, A, n, t) = IF n - S <= 0 THEN 0 ELSE IF D[t] <= n - S THEN D[t] ELSE n - S
      BY ONLY <3>3, TakenIs DEF S
    <3> QED BY <3>1, <3>2
  <2> QED BY <1>1, <2>1
<1>6. ASSUME NEW q \in P \ H PROVE Taken(D, A, n, q) = 0
  <2> DEFINE S == SumFunctionOnSet(D, A[q])
  <2>1. IsFiniteSet(A[q]) /\ (\A x \in A[q] : D[x] \in Nat) /\ H \in SUBSET A[q]
    <3>1. A[q] \subseteq P
      OBVIOUS
    <3> QED BY <3>1, FS_Subset
  <2>2. S \in Nat
    BY <2>1, SumNat
  <2>3. SumFunctionOnSet(D, H) <= S
    <3> HIDE DEF H
    <3> QED BY <2>1, SumSubset
  <2> HIDE DEF S
  <2>4. n - S <= 0 /\ D[q] \in Nat
    BY <1>1, <1>2, <1>3, <2>2, <2>3
  <2>5. Taken(D, A, n, q) = IF n - S <= 0 THEN 0 ELSE IF D[q] <= n - S THEN D[q] ELSE n - S
    BY <2>2, <2>4, TakenIs DEF S
  <2> QED BY <2>4, <2>5
<1>7. n <= SumFunctionOnSet(D, P)
  <2>1. SumFunctionOnSet(D, H) <= SumFunctionOnSet(D, P)
    <3> HIDE DEF H
    <3> QED BY <1>0, SumSubset
  <2>2. SumFunctionOnSet(D, P) \in Nat
    BY SumNat
  <2> QED BY <1>1, <1>2, <1>3, <2>1, <2>2
<1> QED BY <1>4, <1>5, <1>6, <1>7

\* What is taken of d when at most m is wanted.
Part(d, m) == Max({0, Min({d, m})})

LEMMA PartIs ==
    ASSUME NEW d \in Nat, NEW m \in Int
    PROVE  Part(d, m) = IF m <= 0 THEN 0 ELSE IF d <= m THEN d ELSE m
<1>1. Min({d, m}) = (IF d <= m THEN d ELSE m) /\ Min({d, m}) \in Int
  BY Smaller
<1>2. PICK x : x = Min({d, m})
  OBVIOUS
<1>3. x = (IF d <= m THEN d ELSE m) /\ x \in Int
  BY <1>1, <1>2
<1>4. Max({0, x}) = IF 0 <= x THEN x ELSE 0
  <2>1. 0 \in Int /\ x \in Int
    BY <1>3
  <2> QED BY <2>1, Smaller, Zenon
<1>5. Part(d, m) = Max({0, x})
  BY <1>2 DEF Part
<1> QED BY <1>3, <1>4, <1>5

\* What makers in a line, each taken from after those before it, give together.
InLine(D, g, N, n) ==
    \A i \in 1..N : D[i] \in Nat /\ g[i] = Part(D[i], n - SumFunctionOnSet(D, 1..(i - 1)))

LEMMA TakenInLine ==
    ASSUME NEW D, NEW g, NEW N \in Nat, NEW n \in Nat, InLine(D, g, N, n)
    PROVE  LET all == SumFunctionOnSet(D, 1..N)
           IN  SumFunctionOnSet(g, 1..N) = IF all <= n THEN all ELSE n
<1>0. /\ \A i \in 1..N : D[i] \in Nat
      /\ \A i \in 1..N : g[i] = Part(D[i], n - SumFunctionOnSet(D, 1..(i - 1)))
  BY DEF InLine
<1> DEFINE F(i) == SumFunctionOnSet(D, 1..i)
           G(i) == SumFunctionOnSet(g, 1..i)
           Good == {i \in Nat : i <= N => G(i) = IF F(i) <= n THEN F(i) ELSE n}
<1>1. \A i \in 0..N : F(i) \in Nat
  <2> SUFFICES ASSUME NEW i \in 0..N PROVE F(i) \in Nat
    OBVIOUS
  <2>1. IsFiniteSet(1..i)
    BY FS_Interval
  <2>2. \A j \in 1..i : D[j] \in Nat
    BY <1>0
  <2> QED BY <2>1, <2>2, SumNat
<1>2. \A i \in 1..N : g[i] = IF n - F(i - 1) <= 0 THEN 0
                             ELSE IF D[i] <= n - F(i - 1) THEN D[i] ELSE n - F(i - 1)
  <2> SUFFICES ASSUME NEW i \in 1..N
               PROVE  g[i] = IF n - F(i - 1) <= 0 THEN 0
                             ELSE IF D[i] <= n - F(i - 1) THEN D[i] ELSE n - F(i - 1)
    OBVIOUS
  <2>1. F(i - 1) \in Int /\ D[i] \in Nat
    BY <1>0, <1>1
  <2>2. g[i] = Part(D[i], n - F(i - 1))
    BY <1>0
  <2>3. n - F(i - 1) \in Int
    BY <2>1
  <2> HIDE DEF F
  <2> QED BY <2>1, <2>2, <2>3, PartIs
<1>3. 0 \in Good
  <2>1. 1..0 = {}
    OBVIOUS
  <2> QED BY <2>1, SumEmpty
<1>4. ASSUME NEW i \in Nat, i \in Good PROVE i + 1 \in Good
  <2> SUFFICES ASSUME i + 1 <= N
               PROVE  G(i + 1) = IF F(i + 1) <= n THEN F(i + 1) ELSE n
    OBVIOUS
  <2>1. /\ i + 1 \in 1..N /\ i \in 0..N /\ (i + 1) - 1 = i /\ i + 1 \notin 1..i
        /\ 1..(i + 1) = (1..i) \cup {i + 1} /\ IsFiniteSet(1..i)
    <3>1. i + 1 \in 1..N /\ i \in 0..N /\ (i + 1) - 1 = i /\ i + 1 \notin 1..i
      OBVIOUS
    <3>2. \A x : x \in 1..(i + 1) <=> x \in (1..i) \cup {i + 1}
      OBVIOUS
    <3>3. 1..(i + 1) = (1..i) \cup {i + 1}
      BY <3>2, Zenon
    <3>4. IsFiniteSet(1..i)
      BY FS_Interval
    <3> QED BY <3>1, <3>3, <3>4
  <2>2. \A j \in (1..i) \cup {i + 1} : j \in 1..N /\ j - 1 \in 0..N
    BY <2>1
  <2>3. \A j \in 1..N : g[j] \in Int /\ D[j] \in Int
    <3> SUFFICES ASSUME NEW j \in 1..N PROVE g[j] \in Int /\ D[j] \in Int
      OBVIOUS
    <3>1. F(j - 1) \in Int /\ D[j] \in Int
      BY <1>0, <1>1
    <3> HIDE DEF F
    <3> QED BY <1>2, <3>1
  <2>4. F(i + 1) = D[i + 1] + F(i)
    BY <2>1, <2>2, <2>3, SumAdd
  <2>5. G(i + 1) = g[i + 1] + G(i)
    BY <2>1, <2>2, <2>3, SumAdd
  <2>6. G(i) = IF F(i) <= n THEN F(i) ELSE n
    BY <1>4, <2>1
  <2>7. F(i) \in Nat /\ D[i + 1] \in Nat
    BY <1>0, <1>1, <2>1
  <2>8. g[i + 1] = IF n - F(i) <= 0 THEN 0
                   ELSE IF D[i + 1] <= n - F(i) THEN D[i + 1] ELSE n - F(i)
    BY <1>2, <2>1
  <2> HIDE DEF F, G
  <2> QED BY <2>4, <2>5, <2>6, <2>7, <2>8
<1>5. N \in Good
  <2> HIDE DEF Good
  <2> QED BY <1>3, <1>4, NatSetInduction
<1> QED BY <1>5

\* A common factor.
LEMMA SumScale ==
    ASSUME NEW f, NEW g, NEW S, IsFiniteSet(S), NEW p \in Int,
           \A x \in S : f[x] \in Int /\ g[x] = p * f[x]
    PROVE  SumFunctionOnSet(g, S) = p * SumFunctionOnSet(f, S)
<1> DEFINE Good == {T \in SUBSET S : SumFunctionOnSet(g, T) = p * SumFunctionOnSet(f, T)}
<1>1. ASSUME NEW T \in SUBSET S, \A U \in SUBSET T : U # T => U \in Good
      PROVE  T \in Good
  <2>1. IsFiniteSet(T)
    BY FS_Subset
  <2>2. CASE T = {}
    BY <2>2, SumEmpty
  <2>3. CASE T # {}
    <3> DEFINE x == First(T)
               U == T \ {x}
    <3>1. x \in T
      BY <2>3 DEF First
    <3>2. U \in Good /\ f[x] \in Int /\ g[x] = p * f[x]
      BY <1>1, <3>1
    <3>3. SumFunctionOnSet(f, U) \in Int
      <4>1. IsFiniteSet(U) /\ \A y \in U : f[y] \in Int
        BY <2>1, FS_Subset
      <4> HIDE DEF U
      <4> QED BY <4>1, SumInt
    <3>4. /\ SumFunctionOnSet(f, T) = f[x] + SumFunctionOnSet(f, U)
          /\ SumFunctionOnSet(g, T) = g[x] + SumFunctionOnSet(g, U)
      BY <2>1, <2>3, SumUnfold
    <3> DEFINE V == SumFunctionOnSet(f, U)
    <3>5. SumFunctionOnSet(g, U) = p * V
      BY <3>2
    <3> HIDE DEF V, x
    <3>6. p * (f[x] + V) = p * f[x] + p * V
      BY <3>2, <3>3 DEF V
    <3> QED BY <3>2, <3>4, <3>5, <3>6 DEF V
  <2> QED BY <2>2, <2>3
<1> HIDE DEF Good
<1>2. S \in Good
  BY <1>1, SetInduction
<1> QED BY <1>2 DEF Good

-----------------------------------------------------------------------------
(* Sequences in an order.                                                   *)

\* Each element of s stands in relation r to all after it.
Ordered(s, r) == \A i, j \in DOMAIN s : i < j => <<s[i], s[j]>> \in r

Asymmetric(r) == \A x, y : <<x, y>> \in r => <<y, x>> \notin r

\* An ordered sequence t of the first elements of an ordered sequence s is a prefix of it.
LEMMA OrderedPrefix ==
    ASSUME NEW S, NEW s \in Seq(S), NEW t \in Seq(S), NEW r, Asymmetric(r),
           Ordered(s, r), Ordered(t, r), ToSet(t) \subseteq ToSet(s),
           \A j, k \in DOMAIN s : j < k /\ s[k] \in ToSet(t) => s[j] \in ToSet(t)
    PROVE  /\ Len(t) <= Len(s)
           /\ \A i \in DOMAIN t : i \in DOMAIN s /\ t[i] = s[i]
<1>1. DOMAIN s = 1..Len(s) /\ Len(s) \in Nat /\ DOMAIN t = 1..Len(t) /\ Len(t) \in Nat
  BY InToSet
<1>2. /\ \A i, j \in DOMAIN s : i < j => s[i] # s[j]
      /\ \A i, j \in DOMAIN t : i < j => t[i] # t[j]
  BY DEF Asymmetric, Ordered
<1> DEFINE Good == {n \in Nat : \A i \in 1..n : i <= Len(t) => i <= Len(s) /\ t[i] = s[i]}
<1>3. 0 \in Good
  OBVIOUS
<1>4. ASSUME NEW n \in Nat, n \in Good PROVE n + 1 \in Good
  <2>1. \A i \in 1..n : i <= Len(t) => i <= Len(s) /\ t[i] = s[i]
    BY <1>4
  <2>2. ASSUME n + 1 <= Len(t) PROVE n + 1 <= Len(s) /\ t[n + 1] = s[n + 1]
    <3>1. n + 1 \in DOMAIN t /\ t[n + 1] \in ToSet(t)
      BY <1>1, <2>2, InToSet
    <3>2. PICK k \in DOMAIN s : s[k] = t[n + 1]
      BY <3>1, InToSet
    <3>3. \A i \in 1..n : i \in DOMAIN s /\ i \in DOMAIN t /\ t[i] = s[i]
      BY <1>1, <2>1, <2>2
    <3>4. k >= n + 1
      <4>1. ASSUME k \in 1..n PROVE FALSE
        <5>1. t[k] = t[n + 1] /\ k \in DOMAIN t /\ k < n + 1
          BY <3>2, <3>3, <4>1
        <5> QED BY <1>2, <3>1, <5>1
      <4>2. k \in Nat /\ k >= 1
        BY <1>1
      <4> QED BY <4>1, <4>2
    <3>5. n + 1 \in DOMAIN s
      BY <1>1, <3>4
    <3>6. CASE k = n + 1
      BY <1>1, <3>2, <3>5, <3>6
    <3>7. CASE k > n + 1
      <4>1. s[n + 1] \in ToSet(t)
        BY <3>1, <3>2, <3>5, <3>7
      <4>2. PICK m \in DOMAIN t : t[m] = s[n + 1]
        BY <4>1, InToSet
      <4>3. m \in Nat /\ m >= 1
        BY <1>1
      <4>4. CASE m \in 1..n
        <5>1. s[m] = s[n + 1] /\ m \in DOMAIN s /\ m < n + 1
          BY <3>3, <4>2, <4>4
        <5> QED BY <1>2, <3>5, <5>1
      <4>5. CASE m = n + 1
        BY <1>1, <3>5, <4>2, <4>5
      <4>6. CASE m > n + 1
        <5>1. <<t[n + 1], t[m]>> \in r
          BY <3>1, <4>6 DEF Ordered
        <5>2. <<s[n + 1], s[k]>> \in r
          BY <3>5, <3>7 DEF Ordered
        <5> QED BY <3>2, <4>2, <5>1, <5>2 DEF Asymmetric
      <4> QED BY <4>3, <4>4, <4>5, <4>6
    <3> QED BY <1>1, <3>4, <3>6, <3>7
  <2>3. \A i \in 1..(n + 1) : i \in 1..n \/ i = n + 1
    OBVIOUS
  <2> QED BY <2>1, <2>2, <2>3
<1>5. Nat \subseteq Good
  <2> HIDE DEF Good
  <2> QED BY <1>3, <1>4, NatSetInduction
<1>6. \A i \in DOMAIN t : i <= Len(s) /\ t[i] = s[i]
  <2> SUFFICES ASSUME NEW i \in DOMAIN t PROVE i <= Len(s) /\ t[i] = s[i]
    OBVIOUS
  <2>1. i \in Nat /\ i \in 1..i /\ i <= Len(t)
    BY <1>1
  <2>2. i \in Good
    BY <1>5, <2>1
  <2> QED BY <2>1, <2>2
<1>7. Len(t) <= Len(s)
  <2>1. Len(t) >= 1 => Len(t) \in DOMAIN t
    BY <1>1
  <2> QED BY <1>1, <1>6, <2>1
<1> QED BY <1>1, <1>6, <1>7

\* A set has one ordered sequence.
LEMMA OrderedUnique ==
    ASSUME NEW S, NEW s \in Seq(S), NEW t \in Seq(S), NEW r, Asymmetric(r),
           Ordered(s, r), Ordered(t, r), ToSet(t) = ToSet(s)
    PROVE  t = s
<1>0. /\ \A j \in DOMAIN s : s[j] \in ToSet(t)
      /\ \A j \in DOMAIN t : t[j] \in ToSet(s)
  BY InToSet
<1>1. Len(t) <= Len(s) /\ \A i \in DOMAIN t : t[i] = s[i]
  BY <1>0, OrderedPrefix
<1>2. Len(s) <= Len(t)
  BY <1>0, OrderedPrefix
<1>3. /\ DOMAIN t = 1..Len(t) /\ Len(s) \in Nat /\ Len(t) \in Nat
  BY InToSet
<1> QED BY <1>1, <1>2, <1>3, SeqEqual

\* Ordered sequences repeat nothing.
LEMMA OrderedOnce ==
    ASSUME NEW S, NEW s \in Seq(S), NEW r, Asymmetric(r), Ordered(s, r)
    PROVE  \A i, j \in DOMAIN s : s[i] = s[j] => i = j
<1> SUFFICES ASSUME NEW i \in DOMAIN s, NEW j \in DOMAIN s, s[i] = s[j] PROVE i = j
  OBVIOUS
<1>1. i \in Nat /\ j \in Nat
  BY InToSet
<1>2. ~ (i < j) /\ ~ (j < i)
  BY DEF Ordered, Asymmetric
<1> QED BY <1>1, <1>2

\* One ordered sequence after another.
LEMMA OrderedConcat ==
    ASSUME NEW S, NEW s \in Seq(S), NEW t \in Seq(S)
    PROVE  /\ s \o t \in Seq(S) /\ ToSet(s \o t) = ToSet(s) \cup ToSet(t)
           /\ \A r : /\ Ordered(s, r) /\ Ordered(t, r)
                     /\ \A x \in ToSet(s), y \in ToSet(t) : <<x, y>> \in r
                     => Ordered(s \o t, r)
<1>1. /\ DOMAIN s = 1..Len(s) /\ Len(s) \in Nat /\ DOMAIN t = 1..Len(t) /\ Len(t) \in Nat
      /\ \A i \in DOMAIN s : s[i] \in ToSet(s)
      /\ \A i \in DOMAIN t : t[i] \in ToSet(t)
  BY InToSet
<1>2. PICK u : u = s \o t
  OBVIOUS
<1>3. /\ u \in Seq(S) /\ Len(u) = Len(s) + Len(t)
      /\ \A i \in 1..(Len(s) + Len(t)) : u[i] = IF i <= Len(s) THEN s[i] ELSE t[i - Len(s)]
  BY <1>2, ConcatProperties
<1>4. DOMAIN u = 1..(Len(s) + Len(t))
  BY <1>3, InToSet
<1>5. ASSUME NEW i \in DOMAIN u
      PROVE  \/ i \in DOMAIN s /\ u[i] = s[i]
             \/ i > Len(s) /\ i - Len(s) \in DOMAIN t /\ u[i] = t[i - Len(s)]
  BY <1>1, <1>3, <1>4
<1>6. /\ \A i \in DOMAIN s : i \in DOMAIN u /\ u[i] = s[i]
      /\ \A i \in DOMAIN t : i + Len(s) \in DOMAIN u /\ u[i + Len(s)] = t[i]
  <2>1. \A i \in DOMAIN s : i \in DOMAIN u /\ u[i] = s[i]
    BY <1>1, <1>3, <1>4
  <2>2. ASSUME NEW i \in DOMAIN t PROVE i + Len(s) \in DOMAIN u /\ u[i + Len(s)] = t[i]
    <3>1. i + Len(s) \in DOMAIN u /\ ~ (i + Len(s) <= Len(s)) /\ (i + Len(s)) - Len(s) = i
      BY <1>1, <1>4
    <3> QED BY <1>3, <1>4, <3>1
  <2> QED BY <2>1, <2>2
<1>7. ToSet(u) = ToSet(s) \cup ToSet(t)
  <2>1. ToSet(u) \subseteq ToSet(s) \cup ToSet(t)
    BY <1>1, <1>5 DEF ToSet
  <2>2. ToSet(s) \subseteq ToSet(u)
    BY <1>6 DEF ToSet
  <2>3. ToSet(t) \subseteq ToSet(u)
    BY <1>6 DEF ToSet
  <2> QED BY <2>1, <2>2, <2>3
<1>8. ASSUME NEW r, Ordered(s, r), Ordered(t, r),
             \A x \in ToSet(s), y \in ToSet(t) : <<x, y>> \in r
      PROVE  Ordered(u, r)
  <2> SUFFICES ASSUME NEW i \in DOMAIN u, NEW j \in DOMAIN u, i < j PROVE <<u[i], u[j]>> \in r
    BY DEF Ordered
  <2>0. i \in Nat /\ j \in Nat
    BY <1>1, <1>4
  <2>1. CASE j \in DOMAIN s /\ u[j] = s[j]
    <3>1. i \in DOMAIN s
      BY <1>1, <2>0, <2>1, <1>4
    <3> QED BY <1>6, <1>8, <2>1, <3>1 DEF Ordered
  <2>2. CASE j > Len(s) /\ j - Len(s) \in DOMAIN t /\ u[j] = t[j - Len(s)]
    <3>1. CASE i \in DOMAIN s /\ u[i] = s[i]
      BY <1>1, <1>8, <2>2, <3>1
    <3>2. CASE i > Len(s) /\ i - Len(s) \in DOMAIN t /\ u[i] = t[i - Len(s)]
      <4>1. i - Len(s) < j - Len(s)
        BY <1>1, <2>0
      <4> QED BY <1>8, <2>2, <3>2, <4>1 DEF Ordered
    <3> QED BY <1>5, <3>1, <3>2
  <2> QED BY <1>5, <2>1, <2>2
<1> QED BY <1>2, <1>3, <1>7, <1>8

-----------------------------------------------------------------------------
(* A sequence of sequences.                                                 *)

\* The recursive function inside FlattenSeq, up to position n.
IsFlat(f, s, n) == f = [i \in 1..n |-> IF i = 1 THEN s[i] ELSE f[i - 1] \o s[i]]

LEMMA FlattenIsChosen ==
    ASSUME NEW s
    PROVE  FlattenSeq(s) = IF Len(s) = 0 THEN s ELSE (CHOOSE f : IsFlat(f, s, Len(s)))[Len(s)]
  BY DEF FlattenSeq, IsFlat

LEMMA FlatExists ==
    ASSUME NEW s, NEW n \in Nat
    PROVE  \E f : IsFlat(f, s, n)
<1> DEFINE Good == {m \in Nat : \E f : IsFlat(f, s, m)}
<1>1. 0 \in Good
  <2> DEFINE f == [k \in 1..0 |-> <<>>]
  <2>1. ~ \E k : k \in 1..0
    OBVIOUS
  <2>2. f = [i \in 1..0 |-> IF i = 1 THEN s[i] ELSE f[i - 1] \o s[i]]
    BY <2>1
  <2> HIDE DEF f
  <2>3. IsFlat(f, s, 0)
    BY <2>2 DEF IsFlat
  <2> QED BY <2>3
<1>2. ASSUME NEW m \in Nat, m \in Good PROVE m + 1 \in Good
  <2>1. PICK f : IsFlat(f, s, m)
    BY <1>2
  <2> DEFINE last == IF m + 1 = 1 THEN s[m + 1] ELSE f[m] \o s[m + 1]
             g == [k \in 1..(m + 1) |-> IF k <= m THEN f[k] ELSE last]
  <2>2. ASSUME NEW k \in 1..(m + 1) PROVE g[k] = IF k = 1 THEN s[k] ELSE g[k - 1] \o s[k]
    <3>1. CASE k = m + 1
      <4>1. ~ (k <= m) /\ k - 1 = m /\ (k # 1 => m \in 1..(m + 1) /\ m <= m)
        BY <3>1
      <4>2. g[k] = last /\ (k # 1 => g[m] = f[m])
        BY <4>1
      <4> HIDE DEF g
      <4> QED BY <3>1, <4>1, <4>2
    <3>2. CASE k # m + 1
      <4>1. k <= m /\ k \in 1..m /\ (k # 1 => k - 1 <= m /\ k - 1 \in 1..(m + 1))
        BY <3>2
      <4>2. g[k] = f[k] /\ (k # 1 => g[k - 1] = f[k - 1])
        BY <4>1
      <4>3. f[k] = IF k = 1 THEN s[k] ELSE f[k - 1] \o s[k]
        BY <2>1, <4>1 DEF IsFlat
      <4> HIDE DEF g
      <4> QED BY <4>1, <4>2, <4>3
    <3> QED BY <3>1, <3>2
  <2>3. g = [k \in 1..(m + 1) |-> g[k]]
    OBVIOUS
  <2> HIDE DEF g
  <2>4. IsFlat(g, s, m + 1)
    BY <2>2, <2>3 DEF IsFlat
  <2> QED BY <2>4
<1> HIDE DEF Good
<1>3. Nat \subseteq Good
  BY <1>1, <1>2, NatSetInduction
<1> QED BY <1>3 DEF Good

\* Flattening keeps the elements, and their order if each sequence is before the next.
LEMMA FlattenProperties ==
    ASSUME NEW S, NEW s \in Seq(Seq(S)), NEW r,
           \A k \in DOMAIN s : Ordered(s[k], r),
           \A k, l \in DOMAIN s : k < l => \A x \in ToSet(s[k]), y \in ToSet(s[l]) : <<x, y>> \in r
    PROVE  /\ FlattenSeq(s) \in Seq(S) /\ Ordered(FlattenSeq(s), r)
           /\ ToSet(FlattenSeq(s)) = UNION {ToSet(s[k]) : k \in DOMAIN s}
<1> DEFINE N == Len(s)
           f == CHOOSE g : IsFlat(g, s, N)
           Until(m) == UNION {ToSet(s[k]) : k \in 1..m}
           Kept(m, t) == t \in Seq(S) /\ Ordered(t, r) /\ ToSet(t) = Until(m)
           Good == {m \in Nat : m + 1 <= N => Kept(m + 1, f[m + 1])}
<1>1. N \in Nat /\ DOMAIN s = 1..N /\ \A k \in DOMAIN s : s[k] \in Seq(S)
  BY InToSet
<1>2. IsFlat(f, s, N)
  BY <1>1, FlatExists
<1>3. CASE N = 0
  <2>1. s = <<>> /\ DOMAIN s = {}
    BY <1>1, <1>3, EmptySeq
  <2>2. FlattenSeq(s) = <<>>
    BY <1>3, <2>1, FlattenIsChosen
  <2>3. <<>> \in Seq(S) /\ Ordered(<<>>, r) /\ ToSet(<<>>) = {}
    BY EmptySequence DEF Ordered
  <2> QED BY <2>1, <2>2, <2>3
<1>4. CASE N # 0
  <2> HIDE DEF f
  <2>1. 0 \in Good
    <3>1. f[1] = s[1] /\ 1 \in DOMAIN s
      BY <1>1, <1>2, <1>4 DEF IsFlat
    <3>2. Until(1) = ToSet(s[1])
      <4>1. 1..1 = {1}
        OBVIOUS
      <4> QED BY <4>1
    <3>3. Kept(1, f[1])
      BY <1>1, <3>1, <3>2
    <3> QED BY <3>3
  <2>2. ASSUME NEW m \in Nat, m \in Good PROVE m + 1 \in Good
    <3> SUFFICES ASSUME (m + 1) + 1 <= N PROVE Kept((m + 1) + 1, f[(m + 1) + 1])
      OBVIOUS
    <3>1. PICK n : n = m + 1
      OBVIOUS
    <3>2. n \in 1..N /\ n + 1 \in 1..N /\ n + 1 # 1 /\ (n + 1) - 1 = n /\ n \in Nat
      BY <1>1, <3>1
    <3>3. Kept(n, f[n])
      BY <1>1, <2>2, <3>1, <3>2
    <3>4. f[n + 1] = f[n] \o s[n + 1]
      BY <1>2, <3>2 DEF IsFlat
    <3>5. s[n + 1] \in Seq(S) /\ Ordered(s[n + 1], r) /\ n + 1 \in DOMAIN s
      BY <1>1, <3>2
    <3>6. \A x \in Until(n), y \in ToSet(s[n + 1]) : <<x, y>> \in r
      <4> SUFFICES ASSUME NEW k \in 1..n, NEW x \in ToSet(s[k]), NEW y \in ToSet(s[n + 1])
                   PROVE  <<x, y>> \in r
        OBVIOUS
      <4>1. k \in DOMAIN s /\ k < n + 1
        BY <1>1, <3>2
      <4> QED BY <3>5, <4>1
    <3>7. Until(n + 1) = Until(n) \cup ToSet(s[n + 1])
      <4>1. \A k : k \in 1..(n + 1) <=> (k \in 1..n \/ k = n + 1)
        BY <3>2
      <4> QED BY <4>1
    <3> HIDE DEF Until
    <3>8. PICK t : t = f[n]
      OBVIOUS
    <3>9. t \in Seq(S) /\ Ordered(t, r) /\ ToSet(t) = Until(n)
      BY <3>3, <3>8
    <3>10. PICK u : u = s[n + 1]
      OBVIOUS
    <3>11. t \o u \in Seq(S) /\ ToSet(t \o u) = Until(n) \cup ToSet(u) /\ Ordered(t \o u, r)
      BY <3>5, <3>6, <3>9, <3>10, OrderedConcat
    <3>12. Kept(n + 1, f[n + 1])
      BY <3>4, <3>7, <3>8, <3>10, <3>11
    <3> QED BY <3>1, <3>12
  <2>3. Nat \subseteq Good
    <3> HIDE DEF Good
    <3> QED BY <2>1, <2>2, NatSetInduction
  <2>4. PICK m \in Nat : m + 1 = N
    <3> HIDE DEF N
    <3> QED BY <1>1, <1>4
  <2>5. Kept(N, f[N])
    <3>1. m \in Good
      BY <2>3
    <3>2. m + 1 <= N
      <4> HIDE DEF N
      <4> QED BY <1>1, <2>4
    <3> QED BY <2>4, <3>1, <3>2
  <2>6. FlattenSeq(s) = f[N]
    BY <1>4, FlattenIsChosen DEF f
  <2> HIDE DEF N, f
  <2> QED BY <1>1, <2>5, <2>6
<1> QED BY <1>3, <1>4
-----------------------------------------------------------------------------
(* Sums along a sequence and over disjoint parts.                           *)

\* The sum along a sequence without repetitions is the sum over its elements.
LEMMA SumAlong ==
    ASSUME NEW S, NEW s \in Seq(S), \A i, j \in DOMAIN s : s[i] = s[j] => i = j,
           NEW f, \A x \in ToSet(s) : f[x] \in Int,
           NEW D, \A i \in DOMAIN s : D[i] = f[s[i]]
    PROVE  SumFunctionOnSet(D, DOMAIN s) = SumFunctionOnSet(f, ToSet(s))
<1>1. DOMAIN s = 1..Len(s) /\ Len(s) \in Nat /\ \A i \in DOMAIN s : s[i] \in ToSet(s)
  BY InToSet
<1> DEFINE Heads(n) == {s[i] : i \in 1..n}
           Good == {n \in Nat : n <= Len(s) =>
                      /\ IsFiniteSet(Heads(n))
                      /\ SumFunctionOnSet(D, 1..n) = SumFunctionOnSet(f, Heads(n))}
<1>2. 0 \in Good
  <2>1. 1..0 = {} /\ Heads(0) = {}
    OBVIOUS
  <2>2. SumFunctionOnSet(D, {}) = 0 /\ SumFunctionOnSet(f, {}) = 0
    BY SumEmpty
  <2> HIDE DEF Heads
  <2> QED BY <2>1, <2>2, FS_EmptySet
<1>3. ASSUME NEW n \in Nat, n \in Good PROVE n + 1 \in Good
  <2> SUFFICES ASSUME n + 1 <= Len(s)
               PROVE  /\ IsFiniteSet(Heads(n + 1))
                      /\ SumFunctionOnSet(D, 1..(n + 1)) = SumFunctionOnSet(f, Heads(n + 1))
    OBVIOUS
  <2>1. PICK m : m = n + 1
    OBVIOUS
  <2>2. m \in DOMAIN s /\ m \notin 1..n /\ IsFiniteSet(1..n) /\ \A i \in 1..n : i \in DOMAIN s
    <3>1. IsFiniteSet(1..n)
      BY FS_Interval
    <3> QED BY <1>1, <2>1, <3>1
  <2>3. 1..m = (1..n) \cup {m}
    <3>1. \A i : i \in 1..m <=> i \in (1..n) \cup {m}
      BY <2>1
    <3> QED BY <3>1, Zenon
  <2>4. Heads(m) = Heads(n) \cup {s[m]} /\ s[m] \notin Heads(n) /\ Heads(n) \subseteq ToSet(s)
    BY <1>1, <2>2, <2>3
  <2>5. /\ IsFiniteSet(Heads(n))
        /\ SumFunctionOnSet(D, 1..n) = SumFunctionOnSet(f, Heads(n))
    <3>1. n <= Len(s)
      BY <1>1
    <3> QED BY <1>3, <3>1
  <2> HIDE DEF Heads
  <2>6. IsFiniteSet(Heads(m))
    BY <2>4, <2>5, FS_AddElement
  <2>7. SumFunctionOnSet(D, 1..m) = D[m] + SumFunctionOnSet(D, 1..n)
    <3>1. \A i \in (1..n) \cup {m} : D[i] \in Int
      BY <1>1, <2>2
    <3> QED BY <2>2, <2>3, <3>1, SumAdd
  <2>8. SumFunctionOnSet(f, Heads(m)) = f[s[m]] + SumFunctionOnSet(f, Heads(n))
    <3>1. \A x \in Heads(n) \cup {s[m]} : f[x] \in Int
      BY <1>1, <2>2, <2>4
    <3>2. PICK x : x = s[m]
      OBVIOUS
    <3>3. SumFunctionOnSet(f, Heads(n) \cup {x}) = f[x] + SumFunctionOnSet(f, Heads(n))
      BY <2>4, <2>5, <3>1, <3>2, SumAdd
    <3> QED BY <2>4, <3>2, <3>3
  <2> QED BY <2>1, <2>2, <2>5, <2>6, <2>7, <2>8
<1>4. Len(s) \in Good
  <2> HIDE DEF Good
  <2> QED BY <1>1, <1>2, <1>3, NatSetInduction
<1>5. Heads(Len(s)) = ToSet(s)
  BY <1>1 DEF ToSet
<1> HIDE DEF Heads
<1>6. SumFunctionOnSet(D, 1..Len(s)) = SumFunctionOnSet(f, Heads(Len(s)))
  BY <1>1, <1>4
<1> QED BY <1>1, <1>5, <1>6

\* The sum over parts that have nothing in common.
LEMMA SumOfParts ==
    ASSUME NEW P, IsFiniteSet(P), NEW Q, \A p \in P : IsFiniteSet(Q[p]),
           \A p, q \in P : p # q => Q[p] \cap Q[q] = {},
           NEW f, \A p \in P : \A x \in Q[p] : f[x] \in Int,
           NEW V, \A p \in P : V[p] = SumFunctionOnSet(f, Q[p]),
           NEW W, \A x : x \in W <=> \E p \in P : x \in Q[p]
    PROVE  IsFiniteSet(W) /\ SumFunctionOnSet(f, W) = SumFunctionOnSet(V, P)
<1> DEFINE All(T) == UNION {Q[p] : p \in T}
           Good == {T \in SUBSET P :
                      /\ IsFiniteSet(All(T))
                      /\ SumFunctionOnSet(f, All(T)) = SumFunctionOnSet(V, T)}
<1>1. \A p \in P : V[p] \in Int
  BY SumInt
<1>2. ASSUME NEW T \in SUBSET P, \A U \in SUBSET T : U # T => U \in Good
      PROVE  T \in Good
  <2>1. CASE T = {}
    <3>1. All(T) = {}
      BY <2>1
    <3> HIDE DEF All
    <3> QED BY <2>1, <3>1, SumEmpty, FS_EmptySet
  <2>2. CASE T # {}
    <3>1. PICK p : p \in T
      BY <2>2
    <3>2. PICK U : U = T \ {p}
      OBVIOUS
    <3>3. U \in Good /\ p \in P /\ U \in SUBSET P /\ p \notin U /\ T = U \cup {p}
      BY <1>2, <3>1, <3>2
    <3>4. All(T) = All(U) \cup Q[p] /\ All(U) \cap Q[p] = {}
      BY <3>1, <3>3
    <3>5. IsFiniteSet(All(U)) /\ SumFunctionOnSet(f, All(U)) = SumFunctionOnSet(V, U)
      BY <3>3
    <3>6. \A x \in All(U) \cup Q[p] : f[x] \in Int
      BY <3>3
    <3>7. IsFiniteSet(Q[p]) /\ V[p] = SumFunctionOnSet(f, Q[p]) /\ IsFiniteSet(U)
      BY <3>3, FS_Subset
    <3> HIDE DEF All
    <3>8. IsFiniteSet(All(T))
      <4>1. IsFiniteSet(All(U) \cup Q[p])
        BY <3>5, <3>7, FS_Union
      <4> QED BY <3>4, <4>1
    <3>9. SumFunctionOnSet(f, All(T)) = SumFunctionOnSet(f, All(U)) + SumFunctionOnSet(f, Q[p])
      <4>1. PICK A, B : A = All(U) /\ B = Q[p]
        OBVIOUS
      <4>2. /\ IsFiniteSet(A) /\ IsFiniteSet(B) /\ A \cap B = {}
            /\ \A x \in A \cup B : f[x] \in Int
        BY <3>4, <3>5, <3>6, <3>7, <4>1
      <4>3. SumFunctionOnSet(f, A \cup B) = SumFunctionOnSet(f, A) + SumFunctionOnSet(f, B)
        BY <4>2, SumUnion
      <4> QED BY <3>4, <4>1, <4>3
    <3>10. SumFunctionOnSet(V, T) = V[p] + SumFunctionOnSet(V, U)
      <4>1. \A x \in U \cup {p} : V[x] \in Int
        BY <1>1, <3>3
      <4> QED BY <3>3, <3>7, <4>1, SumAdd
    <3>11. V[p] \in Int /\ SumFunctionOnSet(V, U) \in Int
      BY <1>1, <3>3, <3>7, SumInt
    <3> QED BY <3>5, <3>7, <3>8, <3>9, <3>10, <3>11
  <2> QED BY <2>1, <2>2
<1>3. P \in Good
  <2> HIDE DEF Good
  <2> QED BY <1>2, SetInduction
<1>4. W = All(P)
  OBVIOUS
<1> QED BY <1>3, <1>4

\* The first numbers of which each goes with those before it.
LEMMA FirstNumbers ==
    ASSUME NEW n \in Nat, NEW K \in SUBSET (1..n), \A i, j \in 1..n : i < j /\ j \in K => i \in K
    PROVE  Cardinality(K) \in 0..n /\ K = 1..Cardinality(K)
<1> DEFINE Good == {m \in Nat : m <= n /\ K \subseteq 1..m => \E l \in 0..m : K = 1..l}
<1>1. 0 \in Good
  <2>1. 1..0 = {} /\ 0 \in 0..0
    OBVIOUS
  <2> QED BY <2>1
<1>2. ASSUME NEW m \in Nat, m \in Good PROVE m + 1 \in Good
  <2> SUFFICES ASSUME m + 1 <= n, K \subseteq 1..(m + 1) PROVE \E l \in 0..(m + 1) : K = 1..l
    OBVIOUS
  <2>1. CASE m + 1 \in K
    <3>1. \A i \in 1..(m + 1) : i \in K
      <4> SUFFICES ASSUME NEW i \in 1..(m + 1), i # m + 1 PROVE i \in K
        BY <2>1
      <4>1. i \in 1..n /\ m + 1 \in 1..n /\ i < m + 1
        OBVIOUS
      <4> QED BY <2>1, <4>1
    <3>2. K = 1..(m + 1)
      BY <3>1
    <3>3. m + 1 \in 0..(m + 1)
      OBVIOUS
    <3> QED BY <3>2, <3>3
  <2>2. CASE m + 1 \notin K
    <3>1. K \subseteq 1..m /\ m <= n
      BY <2>2
    <3>2. PICK l \in 0..m : K = 1..l
      BY <1>2, <3>1
    <3> QED BY <3>2
  <2> QED BY <2>1, <2>2
<1> HIDE DEF Good
<1>3. n \in Good
  BY <1>1, <1>2, NatSetInduction
<1>4. PICK l \in 0..n : K = 1..l
  BY <1>3 DEF Good
<1>5. Cardinality(1..l) = l
  <2>1. 1 \in Int /\ l \in Int
    OBVIOUS
  <2>2. Cardinality(1..l) = IF 1 > l THEN 0 ELSE l - 1 + 1
    BY <2>1, FS_Interval
  <2> QED BY <2>2
<1> QED BY <1>4, <1>5

-----------------------------------------------------------------------------
(* Keeping some elements of a sequence, putting one in.                     *)

\* The recursive function inside MatchingEngine's Select, up to position n.
IsAmong(f, s, T, n) ==
    f = [k \in 0..n |-> IF k = 0 THEN <<>>
                        ELSE IF s[k] \in T THEN Append(f[k - 1], s[k]) ELSE f[k - 1]]

Among(s, T) == (CHOOSE f : IsAmong(f, s, T, Len(s)))[Len(s)]

LEMMA AmongExists ==
    ASSUME NEW s, NEW T, NEW n \in Nat
    PROVE  \E f : IsAmong(f, s, T, n)
<1> DEFINE Good == {m \in Nat : \E f : IsAmong(f, s, T, m)}
<1>1. 0 \in Good
  <2> DEFINE f == [k \in 0..0 |-> <<>>]
  <2>1. \A k \in 0..0 : k = 0
    OBVIOUS
  <2>2. f = [k \in 0..0 |-> IF k = 0 THEN <<>>
                            ELSE IF s[k] \in T THEN Append(f[k - 1], s[k]) ELSE f[k - 1]]
    BY <2>1
  <2> HIDE DEF f
  <2>3. IsAmong(f, s, T, 0)
    BY <2>2 DEF IsAmong
  <2> QED BY <2>3
<1>2. ASSUME NEW m \in Nat, m \in Good PROVE m + 1 \in Good
  <2>1. PICK f : IsAmong(f, s, T, m)
    BY <1>2
  <2> DEFINE last == IF s[m + 1] \in T THEN Append(f[m], s[m + 1]) ELSE f[m]
             g == [k \in 0..(m + 1) |-> IF k <= m THEN f[k] ELSE last]
             Step(k) == IF k = 0 THEN <<>>
                        ELSE IF s[k] \in T THEN Append(g[k - 1], s[k]) ELSE g[k - 1]
  <2>2. ASSUME NEW k \in 0..(m + 1) PROVE g[k] = Step(k)
    <3>1. CASE k = m + 1
      <4>1. k # 0 /\ ~ (k <= m) /\ k - 1 = m /\ m \in 0..(m + 1) /\ m <= m
        BY <3>1
      <4>2. g[k] = last /\ g[m] = f[m]
        BY <4>1
      <4> HIDE DEF g
      <4> QED BY <3>1, <4>1, <4>2
    <3>2. CASE k = 0
      <4>1. f[0] = <<>>
        BY <2>1 DEF IsAmong
      <4> QED BY <3>2, <4>1
    <3>3. CASE k \in 1..m
      <4>1. /\ k # 0 /\ k <= m /\ k - 1 <= m /\ k \in 0..m /\ k - 1 \in 0..(m + 1)
        BY <3>3
      <4>2. g[k] = f[k] /\ g[k - 1] = f[k - 1]
        BY <4>1
      <4>3. f[k] = IF s[k] \in T THEN Append(f[k - 1], s[k]) ELSE f[k - 1]
        BY <2>1, <4>1 DEF IsAmong
      <4> HIDE DEF g
      <4> QED BY <4>1, <4>2, <4>3
    <3> QED BY <3>1, <3>2, <3>3
  <2>3. g = [k \in 0..(m + 1) |-> g[k]]
    OBVIOUS
  <2> HIDE DEF g
  <2>4. IsAmong(g, s, T, m + 1)
    BY <2>2, <2>3 DEF IsAmong
  <2> QED BY <2>4
<1> HIDE DEF Good
<1>3. Nat \subseteq Good
  BY <1>1, <1>2, NatSetInduction
<1> QED BY <1>3 DEF Good

\* It keeps the elements that are in T, in their order.
LEMMA AmongProperties ==
    ASSUME NEW S, NEW s \in Seq(S), NEW T, NEW t, t = Among(s, T)
    PROVE  /\ t \in Seq(S) /\ ToSet(t) = ToSet(s) \cap T
           /\ \A i, j \in DOMAIN t : i < j =>
                 \E k, l \in DOMAIN s : k < l /\ s[k] = t[i] /\ s[l] = t[j]
           /\ \A r : Ordered(s, r) => Ordered(t, r)
<1> DEFINE N == Len(s)
           f == CHOOSE g : IsAmong(g, s, T, N)
           Has(m, u) ==
             /\ u \in Seq(S) /\ ToSet(u) = {s[k] : k \in 1..m} \cap T
             /\ \A i, j \in DOMAIN u : i < j =>
                   \E k, l \in 1..m : k < l /\ s[k] = u[i] /\ s[l] = u[j]
           Good == {m \in Nat : m <= N => Has(m, f[m])}
<1>1. N \in Nat /\ DOMAIN s = 1..N
  BY InToSet
<1>2. IsAmong(f, s, T, N)
  BY <1>1, AmongExists
<1>7. t = f[N]
  BY DEF Among
<1> HIDE DEF f
<1>3. 0 \in Good
  <2>1. f[0] = <<>>
    BY <1>1, <1>2 DEF IsAmong
  <2>2. <<>> \in Seq(S) /\ DOMAIN <<>> = {} /\ ToSet(<<>>) = {} /\ {s[k] : k \in 1..0} = {}
    BY EmptySequence
  <2> QED BY <2>1, <2>2
<1>4. ASSUME NEW m \in Nat, m \in Good PROVE m + 1 \in Good
  <2> SUFFICES ASSUME m + 1 <= N PROVE Has(m + 1, f[m + 1])
    OBVIOUS
  <2>1. m <= N /\ m + 1 \in 0..N /\ m + 1 # 0 /\ (m + 1) - 1 = m /\ m + 1 \in 1..N
    BY <1>1
  <2>2. f[m + 1] = IF s[m + 1] \in T THEN Append(f[m], s[m + 1]) ELSE f[m]
    BY <1>2, <2>1 DEF IsAmong
  <2>3. Has(m, f[m])
    BY <1>4, <2>1
  <2>4. {s[k] : k \in 1..(m + 1)} = {s[k] : k \in 1..m} \cup {s[m + 1]} /\ s[m + 1] \in S
    <3>1. 1..(m + 1) = (1..m) \cup {m + 1}
      OBVIOUS
    <3>2. s[m + 1] \in S
      BY <1>1, <2>1, InToSet
    <3> QED BY <3>1, <3>2
  <2>5. CASE s[m + 1] \notin T
    <3>1. \A k \in 1..m : k \in 1..(m + 1)
      OBVIOUS
    <3> QED BY <2>2, <2>3, <2>4, <2>5, <3>1
  <2>6. CASE s[m + 1] \in T
    <3> DEFINE w == f[m]
               u == f[m + 1]
    <3>1. u = Append(w, s[m + 1]) /\ w \in Seq(S)
      BY <2>2, <2>3, <2>6
    <3>2. /\ u \in Seq(S) /\ Len(u) = Len(w) + 1 /\ u[Len(w) + 1] = s[m + 1]
          /\ \A i \in 1..Len(w) : u[i] = w[i]
      BY <2>4, <3>1, AppendProperties
    <3>3. DOMAIN w = 1..Len(w) /\ Len(w) \in Nat /\ DOMAIN u = 1..(Len(w) + 1)
      <4>1. DOMAIN w = 1..Len(w) /\ Len(w) \in Nat
        BY <3>1, InToSet
      <4>2. DOMAIN u = 1..Len(u)
        BY <3>2, InToSet
      <4> QED BY <3>2, <4>1, <4>2
    <3> HIDE DEF w, u
    <3>4. ToSet(u) = ToSet(w) \cup {s[m + 1]}
      BY <3>2, <3>3 DEF ToSet
    <3>5. ToSet(u) = {s[k] : k \in 1..(m + 1)} \cap T
      <4>1. ToSet(w) = {s[k] : k \in 1..m} \cap T
        BY <2>3 DEF w
      <4> QED BY <2>4, <2>6, <3>4, <4>1
    <3>6. ASSUME NEW i \in DOMAIN u, NEW j \in DOMAIN u, i < j
          PROVE  \E k, l \in 1..(m + 1) : k < l /\ s[k] = u[i] /\ s[l] = u[j]
      <4>1. i \in 1..Len(w) /\ u[i] = w[i]
        BY <3>2, <3>3, <3>6
      <4>2. CASE j = Len(w) + 1
        <5>1. w[i] \in ToSet(w)
          BY <3>3, <4>1 DEF ToSet
        <5>2. PICK k \in 1..m : s[k] = w[i]
          BY <2>3, <5>1 DEF w
        <5>3. k \in 1..(m + 1) /\ m + 1 \in 1..(m + 1) /\ k < m + 1
          OBVIOUS
        <5>4. s[k] = u[i] /\ s[m + 1] = u[j]
          BY <3>2, <4>1, <4>2, <5>2
        <5> QED BY <5>3, <5>4
      <4>3. CASE j # Len(w) + 1
        <5>1. j \in 1..Len(w) /\ u[j] = w[j] /\ i \in DOMAIN w /\ j \in DOMAIN w
          BY <3>2, <3>3, <4>1, <4>3
        <5>2. PICK k \in 1..m, l \in 1..m : k < l /\ s[k] = w[i] /\ s[l] = w[j]
          BY <2>3, <3>6, <5>1 DEF w
        <5>3. k \in 1..(m + 1) /\ l \in 1..(m + 1)
          OBVIOUS
        <5> QED BY <4>1, <5>1, <5>2, <5>3
      <4> QED BY <4>2, <4>3
    <3>7. u \in Seq(S)
      BY <3>2
    <3> QED BY <3>5, <3>6, <3>7 DEF u
  <2> QED BY <2>5, <2>6
<1>5. N \in Good
  <2> HIDE DEF Good
  <2> QED BY <1>1, <1>3, <1>4, NatSetInduction
<1>6. Has(N, f[N])
  BY <1>1, <1>5
<1>8. ToSet(s) = {s[k] : k \in 1..N}
  BY <1>1 DEF ToSet
<1> HIDE DEF N, Good
<1>9. t \in Seq(S) /\ ToSet(t) = ToSet(s) \cap T
  BY <1>6, <1>7, <1>8
<1>10. ASSUME NEW i \in DOMAIN t, NEW j \in DOMAIN t, i < j
       PROVE  \E k, l \in DOMAIN s : k < l /\ s[k] = t[i] /\ s[l] = t[j]
  <2>1. PICK k \in 1..N, l \in 1..N : k < l /\ s[k] = t[i] /\ s[l] = t[j]
    BY <1>6, <1>7, <1>10
  <2>2. k \in DOMAIN s /\ l \in DOMAIN s
    BY <1>1
  <2> QED BY <2>1, <2>2
<1>11. ASSUME NEW r, Ordered(s, r) PROVE Ordered(t, r)
  <2> SUFFICES ASSUME NEW i \in DOMAIN t, NEW j \in DOMAIN t, i < j PROVE <<t[i], t[j]>> \in r
    BY DEF Ordered
  <2>1. PICK k \in DOMAIN s, l \in DOMAIN s : k < l /\ s[k] = t[i] /\ s[l] = t[j]
    BY <1>10
  <2>2. <<s[k], s[l]>> \in r
    BY <1>11, <2>1 DEF Ordered
  <2> QED BY <2>1, <2>2
<1> QED BY <1>9, <1>10, <1>11

\* An element is put behind the first k.
LEMMA InsertProperties ==
    ASSUME NEW S, NEW s \in Seq(S), NEW p \in 1..(Len(s) + 1), NEW o \in S
    PROVE  /\ InsertAt(s, p, o) \in Seq(S) /\ DOMAIN InsertAt(s, p, o) = 1..(Len(s) + 1)
           /\ ToSet(InsertAt(s, p, o)) = ToSet(s) \cup {o}
           /\ \A i \in 1..(Len(s) + 1) :
                 InsertAt(s, p, o)[i] = IF i < p THEN s[i] ELSE IF i = p THEN o ELSE s[i - 1]
           /\ \A r : /\ Ordered(s, r)
                     /\ \A i \in DOMAIN s : i < p => <<s[i], o>> \in r
                     /\ \A i \in DOMAIN s : i >= p => <<o, s[i]>> \in r
                     => Ordered(InsertAt(s, p, o), r)
<1>k. PICK k : k = p - 1
  OBVIOUS
<1>t. PICK t : t = InsertAt(s, p, o)
  OBVIOUS
<1>0. k \in Nat /\ k <= Len(s) /\ p = k + 1
  BY <1>k, InToSet
<1> USE <1>0
<1>1. DOMAIN s = 1..Len(s) /\ Len(s) \in Nat /\ \A i \in DOMAIN s : s[i] \in S
  BY InToSet
<1> DEFINE a == SubSeq(s, 1, k)
           c == SubSeq(s, k + 1, Len(s))
<1>2. a \in Seq(S) /\ Len(a) = k /\ \A i \in 1..k : a[i] = s[i]
  <2>1. \A i \in 1..k : s[i] \in S
    BY <1>1
  <2>2. 1 \in Int /\ k \in Int
    OBVIOUS
  <2>3. /\ a \in Seq(S) /\ Len(a) = (IF 1 <= k THEN k - 1 + 1 ELSE 0)
        /\ \A i \in 1..(k - 1 + 1) : a[i] = s[1 + i - 1]
    BY <2>1, <2>2, SubSeqProperties
  <2> HIDE DEF a
  <2> QED BY <2>3
<1>3. /\ c \in Seq(S) /\ Len(c) = Len(s) - k
      /\ \A i \in 1..(Len(s) - k) : c[i] = s[k + i]
  <2>1. \A i \in (k + 1)..Len(s) : s[i] \in S
    BY <1>1
  <2>2. k + 1 \in Int /\ Len(s) \in Int
    BY <1>1
  <2>3. /\ c \in Seq(S) /\ Len(c) = (IF k + 1 <= Len(s) THEN Len(s) - (k + 1) + 1 ELSE 0)
        /\ \A i \in 1..(Len(s) - (k + 1) + 1) : c[i] = s[(k + 1) + i - 1]
    BY <2>1, <2>2, SubSeqProperties
  <2> HIDE DEF c
  <2>4. \A i \in 1..(Len(s) - k) : i \in 1..(Len(s) - (k + 1) + 1) /\ (k + 1) + i - 1 = k + i
    BY <1>1
  <2>5. Len(c) = Len(s) - k
    <3>1. PICK m : m = Len(s)
      OBVIOUS
    <3>2. m \in Nat /\ k <= m
      BY <1>1, <3>1
    <3>3. (IF k + 1 <= m THEN m - (k + 1) + 1 ELSE 0) = m - k
      BY <3>2
    <3> QED BY <2>3, <3>1, <3>3
  <2> QED BY <2>3, <2>4, <2>5
<1>4. InsertAt(s, k + 1, o) = (a \o <<o>>) \o c
  <2>1. (k + 1) - 1 = k
    OBVIOUS
  <2> QED BY <2>1 DEF InsertAt
<1>5. <<o>> \in Seq(S) /\ Len(<<o>>) = 1 /\ <<o>>[1] = o
  OBVIOUS
<1> DEFINE d == a \o <<o>>
<1>6. /\ d \in Seq(S) /\ Len(d) = k + 1
      /\ \A i \in 1..(k + 1) : d[i] = IF i <= k THEN a[i] ELSE <<o>>[i - k]
  BY <1>2, <1>5, ConcatProperties
<1> HIDE DEF a, c, d
<1>7. t = d \o c
  BY <1>t, <1>4 DEF d
<1>8. /\ t \in Seq(S) /\ Len(t) = Len(d) + Len(c)
      /\ \A i \in 1..(Len(d) + Len(c)) : t[i] = IF i <= Len(d) THEN d[i] ELSE c[i - Len(d)]
  <2>1. /\ d \o c \in Seq(S) /\ Len(d \o c) = Len(d) + Len(c)
        /\ \A i \in 1..(Len(d) + Len(c)) : (d \o c)[i] = IF i <= Len(d) THEN d[i] ELSE c[i - Len(d)]
    BY <1>3, <1>6, ConcatProperties
  <2> QED BY <1>7, <2>1
<1>9. Len(t) = Len(s) + 1 /\ DOMAIN t = 1..(Len(s) + 1)
  <2>1. Len(t) = Len(s) + 1
    BY <1>1, <1>3, <1>6, <1>8
  <2> QED BY <1>8, <2>1, InToSet
<1>10. ASSUME NEW i \in 1..(Len(s) + 1)
       PROVE  t[i] = IF i <= k THEN s[i] ELSE IF i = k + 1 THEN o ELSE s[i - 1]
  <2>0. Len(d) + Len(c) = Len(s) + 1
    BY <1>1, <1>3, <1>6
  <2>1. t[i] = IF i <= k + 1 THEN d[i] ELSE c[i - (k + 1)]
    BY <1>6, <1>8, <2>0
  <2>2. CASE i <= k
    <3>1. i \in 1..(k + 1) /\ i \in 1..k
      BY <2>2
    <3> QED BY <1>2, <1>6, <2>1, <2>2, <3>1
  <2>3. CASE i = k + 1
    <3>1. i \in 1..(k + 1) /\ ~ (i <= k) /\ i - k = 1
      BY <2>3
    <3> QED BY <1>5, <1>6, <2>1, <2>3, <3>1
  <2>4. CASE i > k + 1
    <3>1. i - (k + 1) \in 1..(Len(s) - k) /\ k + (i - (k + 1)) = i - 1 /\ ~ (i <= k + 1) /\ ~ (i <= k) /\ i # k + 1
      BY <1>1, <2>4
    <3> QED BY <1>3, <2>1, <3>1
  <2> QED BY <2>2, <2>3, <2>4
<1>11. ToSet(t) = ToSet(s) \cup {o}
  <2>1. ASSUME NEW x \in ToSet(t) PROVE x \in ToSet(s) \cup {o}
    <3>1. PICK i \in 1..(Len(s) + 1) : t[i] = x
      BY <1>9, <2>1 DEF ToSet
    <3>2. CASE i <= k
      <4>1. i \in DOMAIN s
        BY <1>1, <3>2
      <4> QED BY <1>10, <3>1, <3>2, <4>1 DEF ToSet
    <3>3. CASE i = k + 1
      BY <1>10, <3>1, <3>3
    <3>4. CASE i > k + 1
      <4>1. i - 1 \in DOMAIN s /\ ~ (i <= k) /\ i # k + 1
        BY <1>1, <3>4
      <4> QED BY <1>10, <3>1, <4>1 DEF ToSet
    <3> QED BY <3>2, <3>3, <3>4
  <2>2. ASSUME NEW x \in ToSet(s) PROVE x \in ToSet(t)
    <3>1. PICK i \in 1..Len(s) : s[i] = x
      BY <1>1, <2>2 DEF ToSet
    <3>2. CASE i <= k
      <4>1. i \in 1..(Len(s) + 1)
        BY <1>1
      <4> QED BY <1>9, <1>10, <3>1, <3>2, <4>1 DEF ToSet
    <3>3. CASE i > k
      <4>1. /\ i + 1 \in 1..(Len(s) + 1) /\ (i + 1) - 1 = i
            /\ ~ (i + 1 <= k) /\ i + 1 # k + 1
        BY <1>1, <3>3
      <4>2. t[i + 1] = s[i]
        BY <1>10, <4>1
      <4> QED BY <1>9, <3>1, <4>1, <4>2 DEF ToSet
    <3> QED BY <3>2, <3>3
  <2>3. o \in ToSet(t)
    <3>1. k + 1 \in 1..(Len(s) + 1) /\ ~ (k + 1 <= k)
      BY <1>1
    <3>2. t[k + 1] = o
      BY <1>10, <3>1
    <3> QED BY <1>9, <3>1, <3>2 DEF ToSet
  <2> QED BY <2>1, <2>2, <2>3
<1>12. ASSUME NEW r, Ordered(s, r), \A i \in DOMAIN s : i < p => <<s[i], o>> \in r,
              \A i \in DOMAIN s : i >= p => <<o, s[i]>> \in r
       PROVE  Ordered(t, r)
  <2> SUFFICES ASSUME NEW i \in DOMAIN t, NEW j \in DOMAIN t, i < j PROVE <<t[i], t[j]>> \in r
    BY DEF Ordered
  <2>1. i \in 1..(Len(s) + 1) /\ j \in 1..(Len(s) + 1)
    BY <1>9
  <2>2. CASE j <= k
    <3>1. i <= k /\ t[i] = s[i] /\ t[j] = s[j] /\ i \in DOMAIN s /\ j \in DOMAIN s
      BY <1>1, <1>10, <2>1, <2>2
    <3> QED BY <1>12, <3>1 DEF Ordered
  <2>3. CASE j = k + 1
    <3>1. i \in 1..k /\ t[i] = s[i] /\ t[j] = o
      BY <1>1, <1>10, <2>1, <2>3
    <3> QED BY <1>12, <3>1
  <2>4. CASE j > k + 1
    <3>1. t[j] = s[j - 1] /\ j - 1 \in DOMAIN s /\ j - 1 \in (k + 1)..Len(s)
      BY <1>1, <1>10, <2>1, <2>4
    <3>2. CASE i <= k
      <4>1. t[i] = s[i] /\ i \in DOMAIN s /\ i < j - 1
        BY <1>1, <1>10, <2>1, <2>4, <3>2
      <4> QED BY <1>12, <3>1, <4>1 DEF Ordered
    <3>3. CASE i = k + 1
      <4>1. t[i] = o
        BY <1>10, <2>1, <3>3
      <4> QED BY <1>12, <3>1, <4>1
    <3>4. CASE i > k + 1
      <4>1. t[i] = s[i - 1] /\ i - 1 \in DOMAIN s /\ i - 1 < j - 1
        BY <1>1, <1>10, <2>1, <2>4, <3>4
      <4> QED BY <1>12, <3>1, <4>1 DEF Ordered
    <3> QED BY <2>1, <3>2, <3>3, <3>4
  <2> QED BY <2>1, <2>2, <2>3, <2>4
<1>13. ASSUME NEW i \in 1..(Len(s) + 1)
       PROVE  t[i] = IF i < p THEN s[i] ELSE IF i = p THEN o ELSE s[i - 1]
  BY <1>10
<1> QED BY <1>t, <1>8, <1>9, <1>11, <1>12, <1>13
=============================================================================
