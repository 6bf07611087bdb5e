------------------------------ MODULE Induction ------------------------------
(***************************************************************************)
(* Induction and recursion in a form the provers can use: over a set of    *)
(* numbers instead of a predicate, and with a function for each step.      *)
(***************************************************************************)
EXTENDS WellFoundedInduction, FiniteSetTheorems, FiniteSetsExt, TLAPS

Less == {p \in Nat \X Nat : p[1] < p[2]}

LEMMA LessIsWellFounded == IsWellFoundedOn(Less, Nat)
BY NatLessThanWellFounded, IsWellFoundedOnSubrelation, Zenon DEF OpToRel, Less

(* A non-empty set of numbers has a least one.                             *)
LEMMA LeastNumber ==
  ASSUME NEW T \in SUBSET Nat, T # {}
  PROVE  \E n \in T : \A m \in T : n <= m
<1>1. PICK n \in T : \A m \in T : ~(<<m, n>> \in Less)
  BY LessIsWellFounded, WFMin, Zenon
<1>2. \A m \in T : m \in Nat /\ n \in Nat /\ ~(m < n)
  BY <1>1 DEF Less
<1> QED BY <1>1, <1>2

(* Min is that number.                                                     *)
LEMMA MinIsLeast ==
  ASSUME NEW T \in SUBSET Nat, T # {}
  PROVE  Min(T) \in T /\ \A m \in T : Min(T) <= m
<1>1. \E n \in T : \A m \in T : n <= m
  BY LeastNumber
<1> QED BY <1>1 DEF Min

(* A set of numbers up to n that is not empty has a greatest one.          *)
LEMMA MaxIsGreatest ==
  ASSUME NEW n \in Nat, NEW T \in SUBSET (0 .. n), T # {}
  PROVE  Max(T) \in T /\ \A m \in T : m <= Max(T)
<1> DEFINE below == {n - m : m \in T}
<1>0. \A m \in T : m \in Nat /\ n - m \in Nat
  OBVIOUS
<1>1. below \in SUBSET Nat /\ below # {}
  BY <1>0
<1>2. PICK d \in below : \A e \in below : d <= e
  <2> HIDE DEF below
  <2> QED BY <1>1, LeastNumber
<1>3. PICK g \in T : d = n - g
  BY <1>2
<1>4. ASSUME NEW m \in T PROVE m <= g
  <2>1. n - m \in below
    OBVIOUS
  <2>2. n - g <= n - m
    BY <1>2, <1>3, <2>1
  <2> QED BY <1>0, <2>2
<1> QED BY <1>3, <1>4 DEF Max

(* A set that has 0 and every successor of its numbers has all numbers.    *)
LEMMA InductOnNumbers ==
  ASSUME NEW S, 0 \in S, \A n \in Nat : n \in S => n + 1 \in S
  PROVE  Nat \subseteq S
<1> SUFFICES ASSUME Nat \ S # {} PROVE FALSE
  OBVIOUS
<1>1. PICK n \in Nat \ S : \A m \in Nat \ S : n <= m
  BY LeastNumber
<1>2. n - 1 \in Nat
  BY <1>1
<1> QED BY <1>1, <1>2

(* The same up to a bound.                                                 *)
LEMMA InductUpTo ==
  ASSUME NEW N \in Nat, NEW S, 0 \in S, \A n \in 1 .. N : n - 1 \in S => n \in S
  PROVE  0 .. N \subseteq S
<1> DEFINE T == {n \in Nat : n \in 0 .. N => n \in S}
<1>1. 0 \in T
  OBVIOUS
<1>2. \A n \in Nat : n \in T => n + 1 \in T
  OBVIOUS
<1>3. Nat \subseteq T
  <2> HIDE DEF T
  <2> QED BY <1>1, <1>2, InductOnNumbers
<1> QED BY <1>3

(* Recursion up to a bound: there is a function whose value at n is made   *)
(* from the one at n - 1.                                                  *)
Recurses(N, V, base, step, g) ==
    /\ g \in [0 .. N -> V] /\ g = [n \in 0 .. N |-> g[n]]
    /\ g[0] = base /\ \A n \in 1 .. N : g[n] = step[<<g[n - 1], n>>]

LEMMA RecursionExists ==
  ASSUME NEW N \in Nat, NEW V, NEW base \in V, NEW step \in [V \X (1 .. N) -> V]
  PROVE  \E g : Recurses(N, V, base, step, g)
<1> DEFINE Good(m, g) == \A n \in 0 .. m : g[n] = IF n = 0 THEN base ELSE step[<<g[n - 1], n>>]
<1> DEFINE S == {m \in 0 .. N : \E g \in [0 .. m -> V] : Good(m, g)}
<1>1. 0 \in S
  <2>1. [n \in 0 .. 0 |-> base] \in [0 .. 0 -> V] /\ Good(0, [n \in 0 .. 0 |-> base])
    OBVIOUS
  <2> HIDE DEF Good
  <2> QED BY <2>1
<1>2. ASSUME NEW m \in 1 .. N, m - 1 \in S PROVE m \in S
  <2>1. PICK g \in [0 .. m - 1 -> V] : Good(m - 1, g)
    BY <1>2
  <2> DEFINE h == [n \in 0 .. m |-> IF n = m THEN step[<<g[m - 1], m>>] ELSE g[n]]
  <2>2. m - 1 \in 0 .. m - 1 /\ g[m - 1] \in V
    BY <2>1
  <2>3. step[<<g[m - 1], m>>] \in V
    BY <2>2
  <2>4. h \in [0 .. m -> V]
    BY <2>1, <2>3
  <2>5. \A n \in 0 .. m - 1 : h[n] = g[n]
    OBVIOUS
  <2>6. h[m] = step[<<h[m - 1], m>>]
    <3>1. h[m] = step[<<g[m - 1], m>>]
      OBVIOUS
    <3> HIDE DEF h
    <3> QED BY <2>2, <2>5, <3>1
  <2>7. ASSUME NEW n \in 0 .. m PROVE h[n] = IF n = 0 THEN base ELSE step[<<h[n - 1], n>>]
    <3>1. CASE n = m
      BY <2>6, <3>1
    <3>2. CASE n = 0
      <4>1. 0 \in 0 .. m - 1
        OBVIOUS
      <4>2. g[0] = base
        BY <2>1, <4>1
      <4> HIDE DEF h
      <4> QED BY <3>2, <4>1, <4>2, <2>5
    <3>3. CASE n \in 1 .. m - 1
      <4>1. g[n] = step[<<g[n - 1], n>>]
        BY <2>1, <3>3
      <4>2. h[n] = g[n] /\ h[n - 1] = g[n - 1]
        BY <2>5, <3>3
      <4> HIDE DEF h
      <4> QED BY <3>3, <4>1, <4>2
    <3> QED BY <3>1, <3>2, <3>3
  <2>8. Good(m, h)
    <3> HIDE DEF h
    <3> QED BY <2>7
  <2> HIDE DEF h, Good
  <2> QED BY <2>4, <2>8
<1>3. N \in S
  <2> HIDE DEF S
  <2> QED BY <1>1, <1>2, InductUpTo
<1>4. PICK g \in [0 .. N -> V] : Good(N, g)
  BY <1>3
<1>5. g[0] = base /\ \A n \in 1 .. N : g[n] = step[<<g[n - 1], n>>]
  <2>1. 0 \in 0 .. N /\ \A n \in 1 .. N : n \in 0 .. N /\ n # 0
    OBVIOUS
  <2> QED BY <1>4, <2>1
<1>6. g = [n \in 0 .. N |-> g[n]]
  OBVIOUS
<1> QED BY <1>5, <1>6 DEF Recurses

(* The same, as the function is written.                                   *)
LEMMA RecursionUpTo ==
  ASSUME NEW N \in Nat, NEW V, NEW base \in V, NEW step \in [V \X (1 .. N) -> V]
  PROVE  \E g \in [0 .. N -> V] :
            g = [n \in 0 .. N |-> IF n = 0 THEN base ELSE step[<<g[n - 1], n>>]]
<1>1. PICK g : Recurses(N, V, base, step, g)
  BY RecursionExists, Zenon
<1>2. /\ g \in [0 .. N -> V] /\ g = [n \in 0 .. N |-> g[n]]
      /\ \A n \in 0 .. N : g[n] = IF n = 0 THEN base ELSE step[<<g[n - 1], n>>]
  <2>1. \A n \in 0 .. N : n = 0 \/ n \in 1 .. N
    OBVIOUS
  <2> QED BY <1>1, <2>1 DEF Recurses
<1>3. g = [n \in 0 .. N |-> IF n = 0 THEN base ELSE step[<<g[n - 1], n>>]]
  BY <1>2
<1> QED BY <1>2, <1>3

-----------------------------------------------------------------------------
(* A set of parts of S that has the empty set, and with a set every set of *)
(* one more element, has S.                                                *)
LEMMA InductOnFiniteSet ==
  ASSUME NEW S, IsFiniteSet(S), NEW P, {} \in P,
         \A s \in SUBSET S : \A x \in S \ s : s \in P => s \cup {x} \in P
  PROVE  S \in P
<1> DEFINE N == {n \in Nat : \A s \in SUBSET S : Cardinality(s) = n => s \in P}
<1>1. 0 \in N
  <2>1. ASSUME NEW s \in SUBSET S, Cardinality(s) = 0 PROVE s = {}
    BY <2>1, FS_Subset, FS_EmptySet
  <2> QED BY <2>1
<1>2. ASSUME NEW n \in Nat, n \in N PROVE n + 1 \in N
  <2> SUFFICES ASSUME NEW s \in SUBSET S, Cardinality(s) = n + 1 PROVE s \in P
    OBVIOUS
  <2>1. IsFiniteSet(s)
    BY FS_Subset
  <2>2. s # {}
    <3>1. Cardinality(s) # 0
      OBVIOUS
    <3> HIDE DEF N
    <3> QED BY <2>1, <3>1, FS_EmptySet
  <2>3. PICK x \in s : TRUE
    BY <2>2
  <2>4. Cardinality(s \ {x}) = n
    <3> HIDE DEF N
    <3>1. Cardinality(s \ {x}) = Cardinality(s) - 1
      BY <2>1, <2>3, FS_RemoveElement
    <3> QED BY <3>1
  <2>5. s \ {x} \in P
    BY <1>2, <2>4
  <2>6. (s \ {x}) \cup {x} \in P
    BY <2>3, <2>5
  <2>7. (s \ {x}) \cup {x} = s
    BY <2>3
  <2> QED BY <2>6, <2>7
<1>3. Nat \subseteq N
  <2> HIDE DEF N
  <2> QED BY <1>1, <1>2, InductOnNumbers
<1>4. Cardinality(S) \in Nat
  BY FS_CardinalityType
<1> QED BY <1>3, <1>4

-----------------------------------------------------------------------------
(* Sums.  The table a sum over a set is read from, and one whose entries   *)
(* do not depend on the order of adding.                                   *)
IsSumTable(fun, S, g) ==
    g = [s \in SUBSET S |-> IF s = {} THEN 0
                            ELSE fun[CHOOSE x \in s : TRUE] + g[s \ {CHOOSE x \in s : TRUE}]]

SumTable(fun, S) == CHOOSE g : IsSumTable(fun, S, g)

AnyOrder(fun, S, g) ==
    g[{}] = 0 /\ \A s \in SUBSET S : \A y \in s : g[s] = fun[y] + g[s \ {y}]

LEMMA SumIsInTable ==
  ASSUME NEW fun, NEW S
  PROVE  SumFunctionOnSet(fun, S) = SumTable(fun, S)[S]
BY DEF SumFunctionOnSet, FoldFunctionOnSet, MapThenFoldSet, SumTable, IsSumTable

LEMMA AnyOrderExists ==
  ASSUME NEW S, IsFiniteSet(S), NEW fun, \A x \in S : fun[x] \in Int
  PROVE  \E g \in [SUBSET S -> Int] : AnyOrder(fun, S, g)
<1> DEFINE P == {s \in SUBSET S : \E g \in [SUBSET s -> Int] : AnyOrder(fun, s, g)}
<1>1. {} \in P
  <2>1. AnyOrder(fun, {}, [s \in SUBSET {} |-> 0])
    BY DEF AnyOrder
  <2> QED BY <2>1
<1>2. ASSUME NEW s \in SUBSET S, NEW x \in S \ s, s \in P PROVE s \cup {x} \in P
  <2>1. PICK g \in [SUBSET s -> Int] : AnyOrder(fun, s, g)
    BY <1>2
  <2> DEFINE h == [t \in SUBSET (s \cup {x}) |-> IF x \in t THEN fun[x] + g[t \ {x}] ELSE g[t]]
  <2>2. ASSUME NEW t \in SUBSET (s \cup {x}) PROVE t \ {x} \in SUBSET s /\ (x \notin t => t \in SUBSET s)
    OBVIOUS
  <2>3. fun[x] \in Int
    OBVIOUS
  <2>4. h \in [SUBSET (s \cup {x}) -> Int]
    <3>1. ASSUME NEW t \in SUBSET (s \cup {x})
          PROVE  (IF x \in t THEN fun[x] + g[t \ {x}] ELSE g[t]) \in Int
      BY <2>1, <2>2, <2>3
    <3> QED BY <3>1
  <2>5. h[{}] = 0
    BY <2>1 DEF AnyOrder
  <2>6. \A t \in SUBSET (s \cup {x}) : h[t] = IF x \in t THEN fun[x] + g[t \ {x}] ELSE g[t]
    OBVIOUS
  <2>7. ASSUME NEW t \in SUBSET (s \cup {x}), NEW y \in t PROVE h[t] = fun[y] + h[t \ {y}]
    <3> HIDE DEF h
    <3>0. t \ {y} \in SUBSET (s \cup {x}) /\ fun[y] \in Int
      OBVIOUS
    <3>1. CASE x \notin t
      <4>1. t \in SUBSET s /\ x \notin t \ {y}
        BY <3>1
      <4>2. h[t] = g[t] /\ h[t \ {y}] = g[t \ {y}]
        BY <2>6, <3>0, <3>1, <4>1
      <4>3. g[t] = fun[y] + g[t \ {y}]
        BY <2>1, <4>1 DEF AnyOrder
      <4> QED BY <4>2, <4>3
    <3>2. CASE y = x
      <4>1. h[t] = fun[x] + g[t \ {x}]
        BY <2>6, <3>2
      <4>2. h[t \ {x}] = g[t \ {x}]
        BY <2>6, <3>0, <3>2
      <4> QED BY <3>2, <4>1, <4>2
    <3>3. CASE x \in t /\ y # x
      <4>1. h[t] = fun[x] + g[t \ {x}] /\ h[t \ {y}] = fun[x] + g[(t \ {y}) \ {x}]
        BY <2>6, <3>0, <3>3
      <4>2. t \ {x} \in SUBSET s /\ y \in t \ {x}
        BY <3>3
      <4>3. g[t \ {x}] = fun[y] + g[(t \ {x}) \ {y}]
        BY <2>1, <4>2 DEF AnyOrder
      <4>4. g[(t \ {x}) \ {y}] = g[(t \ {y}) \ {x}]
        <5>1. (t \ {x}) \ {y} = (t \ {y}) \ {x}
          OBVIOUS
        <5> QED BY <5>1, Zenon
      <4>5. g[(t \ {y}) \ {x}] \in Int
        <5>1. (t \ {y}) \ {x} \in SUBSET s
          OBVIOUS
        <5> QED BY <2>1, <5>1
      <4> DEFINE a == fun[x]  b == fun[y]  c == g[(t \ {y}) \ {x}]
      <4>6. h[t] = a + (b + c) /\ h[t \ {y}] = a + c /\ a \in Int /\ b \in Int /\ c \in Int
        BY <2>3, <3>0, <4>1, <4>3, <4>4, <4>5, Zenon
      <4> HIDE DEF a, b, c
      <4>7. h[t] = b + h[t \ {y}]
        BY <4>6
      <4> QED BY <4>7 DEF b
    <3> QED BY <3>1, <3>2, <3>3
  <2>8. AnyOrder(fun, s \cup {x}, h)
    <3> HIDE DEF h
    <3> QED BY <2>5, <2>7 DEF AnyOrder
  <2> HIDE DEF h
  <2> QED BY <2>4, <2>8
<1>3. S \in P
  <2> HIDE DEF P
  <2> QED BY <1>1, <1>2, InductOnFiniteSet
<1> QED BY <1>3

LEMMA AnyOrderIsTable ==
  ASSUME NEW S, NEW fun, NEW g \in [SUBSET S -> Int], AnyOrder(fun, S, g)
  PROVE  IsSumTable(fun, S, g)
<1>1. ASSUME NEW s \in SUBSET S
      PROVE  g[s] = IF s = {} THEN 0
                    ELSE fun[CHOOSE x \in s : TRUE] + g[s \ {CHOOSE x \in s : TRUE}]
  <2>1. CASE s = {}
    BY <2>1 DEF AnyOrder
  <2>2. CASE s # {}
    <3> DEFINE c == CHOOSE x \in s : TRUE
    <3>1. c \in s
      BY <2>2
    <3> HIDE DEF c
    <3>2. g[s] = fun[c] + g[s \ {c}]
      BY <3>1 DEF AnyOrder
    <3> QED BY <2>2, <3>2 DEF c
  <2> QED BY <2>1, <2>2
<1>2. g = [s \in SUBSET S |-> g[s]]
  OBVIOUS
<1> QED BY <1>1, <1>2 DEF IsSumTable

(* Every table is the one of any order.                                    *)
LEMMA TableIsAnyOrder ==
  ASSUME NEW S, IsFiniteSet(S), NEW fun, NEW g \in [SUBSET S -> Int], AnyOrder(fun, S, g),
         NEW h, IsSumTable(fun, S, h)
  PROVE  \A s \in SUBSET S : h[s] = g[s]
<1> DEFINE N == {n \in Nat : \A s \in SUBSET S : Cardinality(s) = n => h[s] = g[s]}
<1>0. \A s \in SUBSET S : h[s] = IF s = {} THEN 0
                            ELSE fun[CHOOSE x \in s : TRUE] + h[s \ {CHOOSE x \in s : TRUE}]
  BY DEF IsSumTable
<1>1. 0 \in N
  <2>1. ASSUME NEW s \in SUBSET S, Cardinality(s) = 0 PROVE h[s] = g[s]
    <3>1. s = {}
      BY <2>1, FS_Subset, FS_EmptySet
    <3> QED BY <1>0, <3>1 DEF AnyOrder
  <2> QED BY <2>1
<1>2. ASSUME NEW n \in Nat, n \in N PROVE n + 1 \in N
  <2> SUFFICES ASSUME NEW s \in SUBSET S, Cardinality(s) = n + 1 PROVE h[s] = g[s]
    OBVIOUS
  <2> DEFINE c == CHOOSE x \in s : TRUE
  <2>1. IsFiniteSet(s)
    BY FS_Subset
  <2>2. s # {}
    <3>1. Cardinality(s) # 0
      OBVIOUS
    <3> HIDE DEF N
    <3> QED BY <2>1, <3>1, FS_EmptySet
  <2>3. c \in s
    BY <2>2
  <2>4. h[s] = fun[c] + h[s \ {c}]
    BY <1>0, <2>2
  <2> HIDE DEF c
  <2>5. Cardinality(s \ {c}) = n
    <3> HIDE DEF N
    <3>1. Cardinality(s \ {c}) = Cardinality(s) - 1
      BY <2>1, <2>3, FS_RemoveElement
    <3> QED BY <3>1
  <2>6. h[s \ {c}] = g[s \ {c}]
    BY <1>2, <2>5
  <2>7. g[s] = fun[c] + g[s \ {c}]
    BY <2>3 DEF AnyOrder
  <2> QED BY <2>4, <2>6, <2>7
<1>3. Nat \subseteq N
  <2> HIDE DEF N
  <2> QED BY <1>1, <1>2, InductOnNumbers
<1>4. ASSUME NEW s \in SUBSET S PROVE Cardinality(s) \in Nat
  BY FS_Subset, FS_CardinalityType
<1> QED BY <1>3, <1>4

(* All sums over parts of a finite set, whatever the order of adding.      *)
LEMMA SumsOfParts ==
  ASSUME NEW S, IsFiniteSet(S), NEW fun, \A x \in S : fun[x] \in Int
  PROVE  \E g \in [SUBSET S -> Int] :
            AnyOrder(fun, S, g) /\ SumFunctionOnSet(fun, S) = g[S]
<1>1. PICK g \in [SUBSET S -> Int] : AnyOrder(fun, S, g)
  BY AnyOrderExists
<1>2. IsSumTable(fun, S, g)
  BY <1>1, AnyOrderIsTable
<1>3. IsSumTable(fun, S, SumTable(fun, S))
  BY <1>2 DEF SumTable
<1> DEFINE h == SumTable(fun, S)
<1>4. h[S] = g[S]
  <2>1. IsSumTable(fun, S, h)
    BY <1>3
  <2> HIDE DEF h
  <2>2. \A s \in SUBSET S : h[s] = g[s]
    BY <1>1, <2>1, TableIsAnyOrder
  <2> QED BY <2>2
<1> QED BY <1>1, <1>4, SumIsInTable

LEMMA SumOfNone ==
  ASSUME NEW fun
  PROVE  SumFunctionOnSet(fun, {}) = 0
<1>1. PICK g \in [SUBSET {} -> Int] : AnyOrder(fun, {}, g) /\ SumFunctionOnSet(fun, {}) = g[{}]
  BY SumsOfParts, FS_EmptySet
<1> QED BY <1>1 DEF AnyOrder

LEMMA SumIsInt ==
  ASSUME NEW S, IsFiniteSet(S), NEW fun, \A x \in S : fun[x] \in Int
  PROVE  SumFunctionOnSet(fun, S) \in Int
<1>1. \E g \in [SUBSET S -> Int] : SumFunctionOnSet(fun, S) = g[S]
  BY SumsOfParts
<1> QED BY <1>1

(* A sum is one of its terms and the sum of the others.                    *)
LEMMA SumWithout ==
  ASSUME NEW S, IsFiniteSet(S), NEW fun, \A x \in S : fun[x] \in Int, NEW y \in S
  PROVE  SumFunctionOnSet(fun, S) = fun[y] + SumFunctionOnSet(fun, S \ {y})
<1>1. PICK g \in [SUBSET S -> Int] : AnyOrder(fun, S, g) /\ SumFunctionOnSet(fun, S) = g[S]
  BY SumsOfParts
<1> DEFINE T == S \ {y}
<1>2. IsFiniteSet(T)
  BY FS_Subset
<1>3. PICK k \in [SUBSET T -> Int] : AnyOrder(fun, T, k) /\ SumFunctionOnSet(fun, T) = k[T]
  BY <1>2, SumsOfParts
<1> DEFINE h == [s \in SUBSET T |-> g[s]]
<1>4. h \in [SUBSET T -> Int]
  BY <1>1
<1>5. AnyOrder(fun, T, h)
  <2>1. \A s \in SUBSET T : s \in SUBSET S /\ h[s] = g[s]
    OBVIOUS
  <2>2. {} \in SUBSET T /\ \A s \in SUBSET T : \A x \in s : s \ {x} \in SUBSET T
    OBVIOUS
  <2> HIDE DEF h, T
  <2> QED BY <1>1, <2>1, <2>2 DEF AnyOrder
<1>6. k[T] = h[T]
  <2>1. IsSumTable(fun, T, k)
    BY <1>3, AnyOrderIsTable
  <2> HIDE DEF h, T
  <2> QED BY <1>2, <1>4, <1>5, <2>1, TableIsAnyOrder
<1>7. g[S] = fun[y] + g[T]
  BY <1>1 DEF AnyOrder
<1> QED BY <1>1, <1>3, <1>6, <1>7

(* Adding a term.                                                          *)
LEMMA SumWithOne ==
  ASSUME NEW s, IsFiniteSet(s), NEW x, x \notin s, NEW fun, \A y \in s \cup {x} : fun[y] \in Int
  PROVE  SumFunctionOnSet(fun, s \cup {x}) = fun[x] + SumFunctionOnSet(fun, s)
<1>1. (s \cup {x}) \ {x} = s /\ x \in s \cup {x} /\ IsFiniteSet(s \cup {x})
  BY FS_AddElement
<1>2. SumFunctionOnSet(fun, s \cup {x}) = fun[x] + SumFunctionOnSet(fun, (s \cup {x}) \ {x})
  BY <1>1, SumWithout
<1> QED BY <1>1, <1>2

(* A sum of terms that are not negative is not.                            *)
LEMMA SumNonNegative ==
  ASSUME NEW S, IsFiniteSet(S), NEW fun, \A x \in S : fun[x] \in Int /\ fun[x] >= 0
  PROVE  SumFunctionOnSet(fun, S) \in Int /\ SumFunctionOnSet(fun, S) >= 0
<1> DEFINE P == {s \in SUBSET S : SumFunctionOnSet(fun, s) >= 0}
<1>0. \A s \in SUBSET S : IsFiniteSet(s) /\ SumFunctionOnSet(fun, s) \in Int
  BY FS_Subset, SumIsInt
<1>1. {} \in P
  BY SumOfNone
<1>2. ASSUME NEW s \in SUBSET S, NEW x \in S \ s, s \in P PROVE s \cup {x} \in P
  <2>1. (s \cup {x}) \ {x} = s /\ s \cup {x} \in SUBSET S
    OBVIOUS
  <2>2. SumFunctionOnSet(fun, s \cup {x}) = fun[x] + SumFunctionOnSet(fun, s)
    BY <1>0, <2>1, SumWithOne
  <2>3. fun[x] \in Int /\ fun[x] >= 0 /\ SumFunctionOnSet(fun, s) \in Int /\ SumFunctionOnSet(fun, s) >= 0
    BY <1>0, <1>2
  <2>4. SumFunctionOnSet(fun, s \cup {x}) >= 0
    BY <2>2, <2>3
  <2> QED BY <2>1, <2>4
<1>3. S \in P
  <2> HIDE DEF P
  <2> QED BY <1>1, <1>2, InductOnFiniteSet
<1> QED BY <1>0, <1>3

(* Equal terms have equal sums.                                            *)
LEMMA SumExt ==
  ASSUME NEW S, IsFiniteSet(S), NEW fun, NEW other,
         \A x \in S : fun[x] \in Int /\ other[x] = fun[x]
  PROVE  SumFunctionOnSet(other, S) = SumFunctionOnSet(fun, S)
<1> DEFINE P == {s \in SUBSET S : SumFunctionOnSet(other, s) = SumFunctionOnSet(fun, s)}
<1>0. \A s \in SUBSET S : IsFiniteSet(s)
  BY FS_Subset
<1>1. {} \in P
  BY SumOfNone
<1>2. ASSUME NEW s \in SUBSET S, NEW x \in S \ s, s \in P PROVE s \cup {x} \in P
  <2>1. (s \cup {x}) \in SUBSET S
    OBVIOUS
  <2>2. SumFunctionOnSet(fun, s \cup {x}) = fun[x] + SumFunctionOnSet(fun, s)
    BY <1>0, <2>1, SumWithOne
  <2>3. SumFunctionOnSet(other, s \cup {x}) = other[x] + SumFunctionOnSet(other, s)
    BY <1>0, <2>1, SumWithOne
  <2>4. SumFunctionOnSet(other, s) = SumFunctionOnSet(fun, s) /\ other[x] = fun[x]
    BY <1>2
  <2> QED BY <2>1, <2>2, <2>3, <2>4
<1>3. S \in P
  <2> HIDE DEF P
  <2> QED BY <1>1, <1>2, InductOnFiniteSet
<1> QED BY <1>3

(* The sum over two sets with nothing in common is the sum of both.        *)
LEMMA SumDisjoint ==
  ASSUME NEW A, NEW S, IsFiniteSet(A), IsFiniteSet(S), A \cap S = {},
         NEW fun, \A x \in A \cup S : fun[x] \in Int
  PROVE  SumFunctionOnSet(fun, A \cup S) = SumFunctionOnSet(fun, A) + SumFunctionOnSet(fun, S)
<1> DEFINE P == {s \in SUBSET S : SumFunctionOnSet(fun, A \cup s)
                                   = SumFunctionOnSet(fun, A) + SumFunctionOnSet(fun, s)}
<1>0. \A s \in SUBSET S : IsFiniteSet(s) /\ IsFiniteSet(A \cup s)
  BY FS_Subset, FS_Union
<1>1. {} \in P
  <2>1. A \cup {} = A
    OBVIOUS
  <2>2. SumFunctionOnSet(fun, A) \in Int
    BY SumIsInt
  <2> QED BY <2>1, <2>2, SumOfNone
<1>2. ASSUME NEW s \in SUBSET S, NEW x \in S \ s, s \in P PROVE s \cup {x} \in P
  <2>1. s \cup {x} \in SUBSET S /\ A \cup (s \cup {x}) = (A \cup s) \cup {x} /\ x \notin A \cup s
    OBVIOUS
  <2>2. SumFunctionOnSet(fun, s \cup {x}) = fun[x] + SumFunctionOnSet(fun, s)
    BY <1>0, <2>1, SumWithOne
  <2>3. SumFunctionOnSet(fun, (A \cup s) \cup {x}) = fun[x] + SumFunctionOnSet(fun, A \cup s)
    <3>1. \A y \in (A \cup s) \cup {x} : fun[y] \in Int
      OBVIOUS
    <3> QED BY <1>0, <2>1, <3>1, SumWithOne
  <2>4. SumFunctionOnSet(fun, A \cup s) = SumFunctionOnSet(fun, A) + SumFunctionOnSet(fun, s)
    BY <1>2
  <2>5. fun[x] \in Int /\ SumFunctionOnSet(fun, A) \in Int /\ SumFunctionOnSet(fun, s) \in Int
    BY <1>0, SumIsInt
  <2>6. SumFunctionOnSet(fun, A \cup (s \cup {x}))
        = SumFunctionOnSet(fun, A) + SumFunctionOnSet(fun, s \cup {x})
    <3>1. SumFunctionOnSet(fun, A \cup (s \cup {x})) = SumFunctionOnSet(fun, (A \cup s) \cup {x})
      BY <2>1, Zenon
    <3> DEFINE a == SumFunctionOnSet(fun, A)  b == SumFunctionOnSet(fun, s)  c == fun[x]
               u == SumFunctionOnSet(fun, A \cup (s \cup {x}))  v == SumFunctionOnSet(fun, s \cup {x})
    <3>2. a \in Int /\ b \in Int /\ c \in Int /\ u = c + (a + b) /\ v = c + b
      BY <2>2, <2>3, <2>4, <2>5, <3>1, Zenon
    <3> HIDE DEF a, b, c, u, v, P
    <3>3. u = a + v
      BY <3>2
    <3> QED BY <3>3 DEF u, a, v
  <2> QED BY <2>1, <2>6
<1>3. S \in P
  <2> HIDE DEF P
  <2> QED BY <1>1, <1>2, InductOnFiniteSet
<1> QED BY <1>3

==============================================================================
