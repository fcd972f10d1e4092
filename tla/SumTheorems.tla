------------------------------- MODULE SumTheorems -------------------------------
(***************************************************************************)
(* What the sums of the community modules are, for every finite function   *)
(* to the integers: SumFunction is defined by a recursive table over the   *)
(* subsets of the domain, taken in an unspecified order.  The table exists *)
(* and the order does not matter; both are shown by a smallest             *)
(* counterexample, because the theorems on induction take an operator as   *)
(* a parameter.  The conservation theorems of the components rest on them. *)
(***************************************************************************)
EXTENDS Integers, FiniteSets, Functions, FiniteSetTheorems, WellFoundedInduction, TLAPS

\* Every non-empty set of naturals has a least element.
LEMMA LeastNatural ==
  ASSUME NEW N, N \subseteq Nat, N # {}
  PROVE  \E n \in N : \A m \in N : n <= m
<1>1. PICK n \in N : \A m \in N : <<m, n>> \notin OpToRel(<, Nat)
  BY NatLessThanWellFounded, WFMin
<1>2. \A m \in N : ~(m < n)
  BY <1>1 DEF OpToRel
<1> QED  BY <1>2

\* The element taken first, the sum of a set from the sums of its subsets, and the table.
Picked(u) == CHOOSE x \in u : TRUE
Rest(f, g, u) == IF u = {} THEN 0 ELSE f[Picked(u)] + g[u \ {Picked(u)}]
Table(f, S) == CHOOSE g : g = [u \in SUBSET S |-> Rest(f, g, u)]

\* The community module's sum is the last entry of the table.
LEMMA SumIsTable ==
  ASSUME NEW f, NEW S PROVE SumFunctionOnSet(f, S) = Table(f, S)[S]
  BY DEF SumFunctionOnSet, FoldFunctionOnSet, MapThenFoldSet, Table, Rest, Picked

\* A smaller set is left when one element is taken.
LEMMA OneLess ==
  ASSUME NEW S, IsFiniteSet(S), NEW u, u \subseteq S, NEW x \in u
  PROVE  /\ u \ {x} \subseteq S /\ IsFiniteSet(u) /\ IsFiniteSet(u \ {x})
         /\ Cardinality(u) \in Nat /\ Cardinality(u \ {x}) \in Nat
         /\ Cardinality(u \ {x}) = Cardinality(u) - 1
<1>1. IsFiniteSet(u)
  BY FS_Subset
<1>2. IsFiniteSet(u \ {x}) /\ Cardinality(u \ {x}) = Cardinality(u) - 1
  BY <1>1, FS_RemoveElement
<1> QED  BY <1>1, <1>2, FS_CardinalityType

\* The table of a finite set exists: it is built up by the number of elements.
LEMMA TableIsRecursive ==
  ASSUME NEW f, NEW S, IsFiniteSet(S)
  PROVE  \A u \in SUBSET S : Table(f, S)[u] = Rest(f, Table(f, S), u)
<1> DEFINE upTo(g, n) == \A u \in SUBSET S : Cardinality(u) <= n => g[u] = Rest(f, g, u)
           N == {n \in Nat : ~\E g : upTo(g, n)}
<1>0. \A u \in SUBSET S : IsFiniteSet(u) /\ Cardinality(u) \in Nat
  BY FS_Subset, FS_CardinalityType
<1>a. ASSUME NEW u \in SUBSET S, u # {}
      PROVE  /\ u \ {Picked(u)} \in SUBSET S /\ Cardinality(u) \in Nat
             /\ Cardinality(u \ {Picked(u)}) = Cardinality(u) - 1
  <2> HIDE DEF upTo, N
  <2>1. PICK x : x = Picked(u)
    OBVIOUS
  <2>2. x \in u
    BY <1>a, <2>1 DEF Picked
  <2>3. u \subseteq S
    OBVIOUS
  <2>4. u \ {x} \subseteq S /\ Cardinality(u) \in Nat
        /\ Cardinality(u \ {x}) = Cardinality(u) - 1
    BY <2>2, <2>3, OneLess
  <2> QED  BY <2>1, <2>4
<1>1. N = {}
  <2> SUFFICES ASSUME N # {} PROVE FALSE
    OBVIOUS
  <2>1. PICK n \in N : \A m \in N : n <= m
    BY LeastNatural
  <2>2. n # 0
    <3> DEFINE z == [u \in SUBSET S |-> 0]
    <3>1. \A u \in SUBSET S : Cardinality(u) <= 0 => u = {}
      BY <1>0, FS_EmptySet
    <3>2. upTo(z, 0)
      BY <3>1 DEF Rest
    <3> HIDE DEF z, upTo
    <3> QED  BY <3>2
  <2>3. n - 1 \in Nat /\ n - 1 \notin N
    BY <2>1, <2>2
  <2>4. PICK g : upTo(g, n - 1)
    BY <2>3
  <2> DEFINE h == [u \in SUBSET S |-> IF Cardinality(u) <= n - 1 THEN g[u] ELSE Rest(f, g, u)]
  <2>5. upTo(h, n)
    <3> SUFFICES ASSUME NEW u \in SUBSET S, Cardinality(u) <= n PROVE h[u] = Rest(f, h, u)
      OBVIOUS
    <3>1. CASE u = {}
      BY <2>3, <2>4, <3>1, FS_EmptySet DEF Rest
    <3>2. CASE u # {}
      <4>1. Picked(u) \in u
        BY <3>2 DEF Picked
      <4>2. u \ {Picked(u)} \in SUBSET S /\ Cardinality(u \ {Picked(u)}) <= n - 1
        BY <1>a, <3>2, <2>3
      <4>3. h[u \ {Picked(u)}] = g[u \ {Picked(u)}]
        BY <4>2
      <4>4. h[u] = Rest(f, g, u)
        BY <2>4
      <4> QED  BY <3>2, <4>3, <4>4 DEF Rest
    <3> QED  BY <3>1, <3>2
  <2> HIDE DEF h, upTo
  <2>6. n \notin N
    BY <2>5
  <2> QED  BY <2>1, <2>6
<1>2. PICK g : upTo(g, Cardinality(S))
  BY <1>0, <1>1
<1> DEFINE t == [u \in SUBSET S |-> g[u]]
<1>3. \A u \in SUBSET S : t[u] = Rest(f, t, u)
  <2> SUFFICES ASSUME NEW u \in SUBSET S PROVE t[u] = Rest(f, t, u)
    OBVIOUS
  <2>1. Cardinality(u) <= Cardinality(S)
    BY FS_Subset
  <2>2. g[u] = Rest(f, g, u)
    BY <1>2, <2>1
  <2>3. u \ {Picked(u)} \in SUBSET S
    OBVIOUS
  <2> QED  BY <2>2, <2>3 DEF Rest
<1>4. t = [u \in SUBSET S |-> Rest(f, t, u)]
  BY <1>3
<1> HIDE DEF t
<1>5. Table(f, S) = [u \in SUBSET S |-> Rest(f, Table(f, S), u)]
  BY <1>4 DEF Table
<1> QED  BY <1>5

-----------------------------------------------------------------------------
\* What holds of the empty set, and of a set when it holds of it less any element, holds
\* of every subset of a finite set.
LEMMA OneByOne ==
  ASSUME NEW S, IsFiniteSet(S), NEW T, {} \in T,
         \A u \in SUBSET S : u # {} /\ (\A x \in u : u \ {x} \in T) => u \in T
  PROVE  \A u \in SUBSET S : u \in T
<1> DEFINE N == {Cardinality(u) : u \in {v \in SUBSET S : v \notin T}}
<1>1. \A u \in SUBSET S : Cardinality(u) \in Nat
  BY FS_Subset, FS_CardinalityType
<1>2. N \subseteq Nat
  BY <1>1
<1> SUFFICES ASSUME N # {} PROVE FALSE
  OBVIOUS
<1>3. PICK n \in N : \A m \in N : n <= m
  BY <1>2, LeastNatural
<1>4. PICK u \in SUBSET S : u \notin T /\ Cardinality(u) = n
  OBVIOUS
<1>5. PICK x \in u : u \ {x} \notin T
  BY <1>4
<1>6. u \ {x} \in SUBSET S /\ Cardinality(u \ {x}) = Cardinality(u) - 1
  BY OneLess
<1>7. Cardinality(u \ {x}) \in N
  BY <1>5, <1>6
<1>8. n <= Cardinality(u \ {x})
  BY <1>3, <1>7
<1>9. Cardinality(u) \in Nat
  BY <1>1
<1> QED  BY <1>4, <1>6, <1>8, <1>9

\* Nothing sums up to zero; else there is an element taken first and the sum of the rest.
LEMMA TableEntries ==
  ASSUME NEW f, NEW S, IsFiniteSet(S)
  PROVE  /\ Table(f, S)[{}] = 0
         /\ \A u \in SUBSET S : u # {} =>
              /\ Picked(u) \in u
              /\ Table(f, S)[u] = f[Picked(u)] + Table(f, S)[u \ {Picked(u)}]
<1>1. Table(f, S)[{}] = 0
  BY TableIsRecursive DEF Rest
<1>2. ASSUME NEW u \in SUBSET S, u # {}
      PROVE  /\ Picked(u) \in u
             /\ Table(f, S)[u] = f[Picked(u)] + Table(f, S)[u \ {Picked(u)}]
  BY <1>2, TableIsRecursive DEF Rest, Picked
<1> QED  BY <1>1, <1>2

\* One entry of the table.
LEMMA TableStep ==
  ASSUME NEW S, IsFiniteSet(S), NEW f, NEW u \in SUBSET S, u # {}
  PROVE  Picked(u) \in u /\ Table(f, S)[u] = f[Picked(u)] + Table(f, S)[u \ {Picked(u)}]
<1>1. \A w \in SUBSET S : w # {} =>
         Picked(w) \in w /\ Table(f, S)[w] = f[Picked(w)] + Table(f, S)[w \ {Picked(w)}]
  BY TableEntries
<1> QED  BY <1>1

\* The entries of the table are integers.
LEMMA TableType ==
  ASSUME NEW S, IsFiniteSet(S), NEW f, \A x \in S : f[x] \in Int
  PROVE  \A u \in SUBSET S : Table(f, S)[u] \in Int
<1> DEFINE T == {u \in SUBSET S : Table(f, S)[u] \in Int}
<1>1. {} \in T
  BY TableEntries
<1>2. ASSUME NEW u \in SUBSET S, u # {}, \A x \in u : u \ {x} \in T PROVE u \in T
  <2>1. Picked(u) \in u
    BY <1>2, TableEntries
  <2>2. Table(f, S)[u] = f[Picked(u)] + Table(f, S)[u \ {Picked(u)}]
    BY <1>2, TableEntries
  <2>3. Table(f, S)[u \ {Picked(u)}] \in Int
    BY <1>2, <2>1
  <2>4. f[Picked(u)] \in Int
    BY <2>1
  <2> QED  BY <2>2, <2>3, <2>4
<1> HIDE DEF T
<1>3. \A u \in SUBSET S : u \in T
  BY <1>1, <1>2, OneByOne
<1> QED  BY <1>3 DEF T

\* An entry depends on the values of its elements only.
LEMMA TableIsLocal ==
  ASSUME NEW S, IsFiniteSet(S), NEW f, NEW g, NEW v \in SUBSET S, \A x \in v : f[x] = g[x]
  PROVE  Table(f, S)[v] = Table(g, S)[v]
<1> DEFINE T == {u \in SUBSET S : u \subseteq v => Table(f, S)[u] = Table(g, S)[u]}
<1>1. {} \in T
  BY TableEntries
<1>2. ASSUME NEW u \in SUBSET S, u # {}, \A x \in u : u \ {x} \in T PROVE u \in T
  <2>1. Picked(u) \in u
    BY <1>2, TableEntries
  <2>2. /\ Table(f, S)[u] = f[Picked(u)] + Table(f, S)[u \ {Picked(u)}]
        /\ Table(g, S)[u] = g[Picked(u)] + Table(g, S)[u \ {Picked(u)}]
    BY <1>2, TableEntries
  <2> QED  BY <1>2, <2>1, <2>2
<1> HIDE DEF T
<1>3. \A u \in SUBSET S : u \in T
  BY <1>1, <1>2, OneByOne
<1> QED  BY <1>3 DEF T

\* The order does not matter: any element may be the first.
LEMMA TakeAny ==
  ASSUME NEW S, IsFiniteSet(S), NEW f, \A x \in S : f[x] \in Int
  PROVE  \A u \in SUBSET S : \A y \in u :
           Table(f, S)[u] = f[y] + Table(f, S)[u \ {y}]
<1> DEFINE T == {u \in SUBSET S : \A y \in u : Table(f, S)[u] = f[y] + Table(f, S)[u \ {y}]}
<1>1. {} \in T
  OBVIOUS
<1>2. ASSUME NEW u \in SUBSET S, u # {}, \A x \in u : u \ {x} \in T PROVE u \in T
  <2> SUFFICES ASSUME NEW y \in u PROVE Table(f, S)[u] = f[y] + Table(f, S)[u \ {y}]
    OBVIOUS
  <2> DEFINE x == Picked(u)
             w == (u \ {x}) \ {y}
  <2>1. x \in u
    BY <1>2, TableEntries
  <2>2. Table(f, S)[u] = f[x] + Table(f, S)[u \ {x}]
    BY <1>2, TableEntries
  <2>3. CASE x = y
    BY <2>2, <2>3
  <2>4. CASE x # y
    <3>1. Table(f, S)[u \ {x}] = f[y] + Table(f, S)[w]
      BY <1>2, <2>1, <2>4
    <3>2. w = (u \ {y}) \ {x}
      OBVIOUS
    <3>3. Table(f, S)[u \ {y}] = f[x] + Table(f, S)[(u \ {y}) \ {x}]
      BY <1>2, <2>1, <2>4
    <3>4. Table(f, S)[w] \in Int /\ f[x] \in Int /\ f[y] \in Int
      BY <2>1, TableType
    <3> HIDE DEF x, w
    <3> QED  BY <2>2, <3>1, <3>2, <3>3, <3>4
  <2> QED  BY <2>3, <2>4
<1> HIDE DEF T
<1>3. \A u \in SUBSET S : u \in T
  BY <1>1, <1>2, OneByOne
<1> QED  BY <1>3 DEF T

-----------------------------------------------------------------------------
\* A sum is an integer.
LEMMA SumType ==
  ASSUME NEW S, IsFiniteSet(S), NEW f \in [S -> Int]
  PROVE  SumFunction(f) \in Int
<1>1. SumFunction(f) = Table(f, S)[S]
  BY SumIsTable DEF SumFunction
<1> QED  BY <1>1, TableType

\* A function that changes at one place changes its sum by the difference.
LEMMA SumUpdate ==
  ASSUME NEW S, IsFiniteSet(S), NEW f \in [S -> Int], NEW g \in [S -> Int], NEW x \in S,
         \A y \in S \ {x} : g[y] = f[y]
  PROVE  SumFunction(g) = SumFunction(f) - f[x] + g[x]
<1>1. SumFunction(f) = Table(f, S)[S] /\ SumFunction(g) = Table(g, S)[S]
  BY SumIsTable DEF SumFunction
<1>2. /\ Table(f, S)[S] = f[x] + Table(f, S)[S \ {x}]
      /\ Table(g, S)[S] = g[x] + Table(g, S)[S \ {x}]
  BY TakeAny
<1>3. Table(f, S)[S \ {x}] = Table(g, S)[S \ {x}]
  BY TableIsLocal
<1>4. Table(f, S)[S \ {x}] \in Int /\ f[x] \in Int /\ g[x] \in Int
  BY TableType
<1> QED  BY <1>1, <1>2, <1>3, <1>4

\* A function that changes at two places changes its sum by the two differences.
LEMMA SumTransfer ==
  ASSUME NEW S, IsFiniteSet(S), NEW f \in [S -> Int], NEW g \in [S -> Int],
         NEW x \in S, NEW z \in S, x # z,
         \A y \in S \ {x, z} : g[y] = f[y]
  PROVE  SumFunction(g) = SumFunction(f) - f[x] + g[x] - f[z] + g[z]
<1> DEFINE h == [f EXCEPT ![x] = g[x]]
<1>1. /\ h \in [S -> Int] /\ h[x] = g[x] /\ h[z] = f[z]
      /\ \A y \in S \ {x} : h[y] = f[y]
      /\ \A y \in S \ {z} : g[y] = h[y]
  OBVIOUS
<1> HIDE DEF h
<1>2. SumFunction(h) = SumFunction(f) - f[x] + h[x]
  BY <1>1, SumUpdate
<1>3. SumFunction(g) = SumFunction(h) - h[z] + g[z]
  BY <1>1, SumUpdate
<1>4. SumFunction(f) \in Int /\ f[x] \in Int /\ f[z] \in Int /\ g[x] \in Int /\ g[z] \in Int
  BY SumType
<1> QED  BY <1>1, <1>2, <1>3, <1>4

\* The sum of a function of sums.
LEMMA SumOfTwo ==
  ASSUME NEW S, IsFiniteSet(S), NEW f \in [S -> Int], NEW g \in [S -> Int],
         NEW h \in [S -> Int], \A x \in S : h[x] = f[x] + g[x]
  PROVE  SumFunction(h) = SumFunction(f) + SumFunction(g)
<1> DEFINE T == {u \in SUBSET S : Table(h, S)[u] = Table(f, S)[u] + Table(g, S)[u]}
<1>1. {} \in T
  BY TableEntries
<1>2. ASSUME NEW u \in SUBSET S, u # {}, \A x \in u : u \ {x} \in T PROVE u \in T
  <2> DEFINE x == Picked(u)
             v == u \ {x}
  <2>1. x \in u
    BY <1>2, TableEntries
  <2>2. /\ Table(f, S)[u] = f[x] + Table(f, S)[v]
        /\ Table(g, S)[u] = g[x] + Table(g, S)[v]
        /\ Table(h, S)[u] = h[x] + Table(h, S)[v]
    BY <1>2, TableEntries
  <2>3. Table(h, S)[v] = Table(f, S)[v] + Table(g, S)[v]
    BY <1>2, <2>1
  <2>4. Table(f, S)[v] \in Int /\ Table(g, S)[v] \in Int /\ f[x] \in Int /\ g[x] \in Int
    BY <2>1, TableType
  <2>5. h[x] = f[x] + g[x]
    BY <2>1
  <2> HIDE DEF x, v
  <2> QED  BY <2>2, <2>3, <2>4, <2>5
<1> HIDE DEF T
<1>3. \A u \in SUBSET S : u \in T
  BY <1>1, <1>2, OneByOne
<1>4. /\ SumFunction(f) = Table(f, S)[S] /\ SumFunction(g) = Table(g, S)[S]
      /\ SumFunction(h) = Table(h, S)[S]
  BY SumIsTable DEF SumFunction
<1> QED  BY <1>3, <1>4 DEF T

\* Counting: ones on a set and zero elsewhere sum up to its size.
LEMMA SumCounts ==
  ASSUME NEW S, IsFiniteSet(S), NEW A, A \subseteq S, NEW f \in [S -> Int],
         \A x \in S : f[x] = IF x \in A THEN 1 ELSE 0
  PROVE  SumFunction(f) = Cardinality(A)
<1>0. /\ Table(f, S)[{}] = 0
      /\ \A u \in SUBSET S : u # {} =>
           /\ Picked(u) \in u
           /\ Table(f, S)[u] = f[Picked(u)] + Table(f, S)[u \ {Picked(u)}]
  BY TableEntries
<1> DEFINE T == {u \in SUBSET S : Table(f, S)[u] = Cardinality(A \cap u)}
<1>1. {} \in T
  <2>1. A \cap {} = {}
    OBVIOUS
  <2> QED  BY <2>1, TableEntries, FS_EmptySet
<1>2. ASSUME NEW u \in SUBSET S, u # {}, \A x \in u : u \ {x} \in T PROVE u \in T
  <2> DEFINE x == Picked(u)
             v == u \ {x}
  <2>0. u # {}
    BY <1>2
  <2>1. x \in u
    BY <1>0, <2>0
  <2>2. Table(f, S)[u] = f[x] + Table(f, S)[v]
    BY <1>0, <2>0
  <2>3. Table(f, S)[v] = Cardinality(A \cap v)
    BY <1>2, <2>1
  <2>4. IsFiniteSet(A \cap u) /\ Cardinality(A \cap u) \in Nat
    BY FS_Subset, FS_CardinalityType
  <2>5. CASE x \in A
    <3>1. A \cap v = (A \cap u) \ {x} /\ x \in A \cap u
      BY <2>1, <2>5
    <3>2. Cardinality((A \cap u) \ {x}) = Cardinality(A \cap u) - 1
      BY <2>4, <3>1, FS_RemoveElement
    <3>3. f[x] = 1
      BY <2>1, <2>5
    <3>4. Cardinality(A \cap v) = Cardinality(A \cap u) - 1
      BY <3>1, <3>2
    <3> HIDE DEF x, v
    <3>5. Table(f, S)[u] = 1 + (Cardinality(A \cap u) - 1)
      BY <2>2, <2>3, <3>3, <3>4
    <3>6. Table(f, S)[u] = Cardinality(A \cap u)
      BY <2>4, <3>5
    <3> QED  BY <3>6
  <2>6. CASE x \notin A
    <3>1. A \cap v = A \cap u
      BY <2>6
    <3>2. f[x] = 0
      BY <2>1, <2>6
    <3> HIDE DEF x, v
    <3> QED  BY <2>2, <2>3, <2>4, <3>1, <3>2
  <2> QED  BY <2>5, <2>6
<1> HIDE DEF T
<1>3. S \in T
  BY <1>1, <1>2, OneByOne
<1>4. A \cap S = A
  OBVIOUS
<1>5. SumFunction(f) = Table(f, S)[S]
  BY SumIsTable DEF SumFunction
<1> QED  BY <1>3, <1>4, <1>5 DEF T

\* The sum of a constant.
LEMMA SumOfEqual ==
  ASSUME NEW A, IsFiniteSet(A), NEW f, NEW c \in Int, \A x \in A : f[x] = c
  PROVE  SumFunctionOnSet(f, A) = Cardinality(A) * c
<1> DEFINE T == {u \in SUBSET A : Table(f, A)[u] = Cardinality(u) * c}
<1>1. {} \in T
  <2>1. Table(f, A)[{}] = 0 /\ Cardinality({}) = 0
    BY TableEntries, FS_EmptySet
  <2> QED  BY <2>1
<1>2. ASSUME NEW u \in SUBSET A, u # {}, \A x \in u : u \ {x} \in T PROVE u \in T
  <2>1. PICK x : x = Picked(u)
    OBVIOUS
  <2>2. x \in u /\ Table(f, A)[u] = f[x] + Table(f, A)[u \ {x}]
    BY <1>2, <2>1, TableStep
  <2>3. f[x] = c /\ Table(f, A)[u \ {x}] = Cardinality(u \ {x}) * c
    BY <1>2, <2>2
  <2>4. Cardinality(u) \in Nat /\ Cardinality(u \ {x}) = Cardinality(u) - 1
    BY <2>2, OneLess
  <2>5. Table(f, A)[u] = c + (Cardinality(u) - 1) * c
    BY <2>2, <2>3, <2>4
  <2>6. PICK n \in Nat : n = Cardinality(u)
    BY <2>4
  <2>7. c + (n - 1) * c = n * c
    OBVIOUS
  <2> QED  BY <2>5, <2>6, <2>7
<1> HIDE DEF T
<1>3. \A u \in SUBSET A : u \in T
  BY <1>1, <1>2, OneByOne
<1>4. A \in T
  BY <1>3
<1> QED  BY <1>4, SumIsTable DEF T

\* The sum of a function that is zero but at one place is its value there.
LEMMA SumSingle ==
  ASSUME NEW S, IsFiniteSet(S), NEW f \in [S -> Int], NEW x \in S,
         \A y \in S \ {x} : f[y] = 0
  PROVE  SumFunction(f) = f[x]
<1> DEFINE z == [y \in S |-> 0]
<1>1. /\ z \in [S -> Int] /\ {} \subseteq S /\ z[x] = 0
      /\ \A y \in S : z[y] = IF y \in {} THEN 1 ELSE 0
      /\ \A y \in S \ {x} : f[y] = z[y]
  OBVIOUS
<1> HIDE DEF z
<1>2. SumFunction(z) = Cardinality({})
  BY <1>1, SumCounts
<1>3. SumFunction(f) = SumFunction(z) - z[x] + f[x]
  BY <1>1, SumUpdate
<1>4. f[x] \in Int
  OBVIOUS
<1> QED  BY <1>1, <1>2, <1>3, <1>4, FS_EmptySet

\* The sum over a part of the domain is the sum over the whole with zeros outside the part.
LEMMA SumWithin ==
  ASSUME NEW S, IsFiniteSet(S), NEW A, A \subseteq S, NEW f \in [S -> Int], NEW g \in [A -> Int],
         \A x \in A : g[x] = f[x], \A x \in S \ A : f[x] = 0
  PROVE  SumFunction(g) = SumFunction(f)
<1>0. IsFiniteSet(A)
  BY FS_Subset
<1> DEFINE T == {u \in SUBSET S : Table(f, S)[u] = Table(f, S)[u \cap A]}
           G == {u \in SUBSET A : Table(f, S)[u] = Table(g, A)[u]}
<1>1. {} \in T
  <2>1. {} \cap A = {}
    OBVIOUS
  <2> QED  BY <2>1
<1>2. ASSUME NEW u \in SUBSET S, u # {}, \A x \in u : u \ {x} \in T PROVE u \in T
  <2> DEFINE x == Picked(u)
             v == u \ {x}
  <2>1. x \in u
    BY <1>2, TableEntries
  <2>2. Table(f, S)[u] = f[x] + Table(f, S)[v]
    BY <1>2, TableEntries
  <2>3. Table(f, S)[v] = Table(f, S)[v \cap A]
    BY <1>2, <2>1
  <2>4. CASE x \in A
    <3>1. v \cap A = (u \cap A) \ {x} /\ x \in u \cap A /\ u \cap A \in SUBSET S
      BY <2>1, <2>4
    <3>2. Table(f, S)[u \cap A] = f[x] + Table(f, S)[(u \cap A) \ {x}]
      BY <3>1, TakeAny
    <3> QED  BY <2>2, <2>3, <3>1, <3>2
  <2>5. CASE x \notin A
    <3>1. v \cap A = u \cap A /\ v \in SUBSET S
      BY <2>5
    <3>2. f[x] = 0 /\ Table(f, S)[v] \in Int
      BY <2>1, <2>5, <3>1, TableType
    <3>3. Table(f, S)[v] = Table(f, S)[u \cap A]
      BY <2>3, <3>1
    <3> HIDE DEF x, v
    <3>4. Table(f, S)[u] = Table(f, S)[u \cap A]
      BY <2>2, <3>2, <3>3
    <3> QED  BY <3>4
  <2> QED  BY <2>4, <2>5
<1>3. {} \in G
  BY <1>0, TableEntries
<1>4. ASSUME NEW u \in SUBSET A, u # {}, \A x \in u : u \ {x} \in G PROVE u \in G
  <2>0. u \in SUBSET S
    OBVIOUS
  <2>1. Picked(u) \in u /\ Table(f, S)[u] = f[Picked(u)] + Table(f, S)[u \ {Picked(u)}]
    BY <1>4, <2>0, TableStep
  <2>2. Table(g, A)[u] = g[Picked(u)] + Table(g, A)[u \ {Picked(u)}]
    BY <1>0, <1>4, TableStep
  <2> QED  BY <1>4, <2>1, <2>2
<1> HIDE DEF T, G
<1>5. \A u \in SUBSET S : u \in T
  BY <1>1, <1>2, OneByOne
<1>6. \A u \in SUBSET A : u \in G
  BY <1>0, <1>3, <1>4, OneByOne
<1>7. S \cap A = A
  OBVIOUS
<1>8. SumFunction(f) = Table(f, S)[S] /\ SumFunction(g) = Table(g, A)[A]
  BY SumIsTable DEF SumFunction
<1> QED  BY <1>5, <1>6, <1>7, <1>8 DEF T, G

\* The sum on a part is the sum of the function that is zero outside the part.
PartOf(g, f, A, S) ==
  /\ A \subseteq S /\ f \in [S -> Int] /\ g \in [S -> Int]
  /\ \A x \in S : g[x] = IF x \in A THEN f[x] ELSE 0

\* The sum over a part is the sum of the function made zero elsewhere.
LEMMA SumOnPart ==
  ASSUME NEW S, IsFiniteSet(S), NEW A, NEW f, NEW g, PartOf(g, f, A, S)
  PROVE  SumFunctionOnSet(f, A) = SumFunction(g)
<1>0. /\ A \subseteq S /\ f \in [S -> Int] /\ g \in [S -> Int]
      /\ \A x \in S : g[x] = IF x \in A THEN f[x] ELSE 0
  BY DEF PartOf
<1> DEFINE k == [x \in A |-> f[x]]
<1>1. IsFiniteSet(A) /\ A \in SUBSET A
  BY <1>0, FS_Subset
<1>2. k \in [A -> Int] /\ \A x \in A : k[x] = f[x]
  BY <1>0
<1>3. SumFunction(k) = SumFunctionOnSet(k, A)
  BY DEF SumFunction
<1> HIDE DEF k
<1>4. Table(f, A)[A] = Table(k, A)[A]
  BY <1>1, <1>2, TableIsLocal
<1>5. SumFunction(k) = SumFunctionOnSet(f, A)
  BY <1>3, <1>4, SumIsTable
<1>6. \A x \in A : k[x] = g[x]
  BY <1>0, <1>2
<1>7. \A x \in S \ A : g[x] = 0
  BY <1>0
<1>8. SumFunction(k) = SumFunction(g)
  BY <1>0, <1>2, <1>6, <1>7, SumWithin
<1> QED  BY <1>5, <1>8

\* An entry that grows by an amount makes the sum grow by the amount.
LEMMA SumAdd ==
  ASSUME NEW S, IsFiniteSet(S), NEW f \in [S -> Int], NEW g \in [S -> Int], NEW x \in S,
         NEW q \in Int, g[x] = f[x] + q, \A y \in S : y # x => g[y] = f[y]
  PROVE  SumFunction(g) = SumFunction(f) + q
<1>1. SumFunction(g) = SumFunction(f) - f[x] + g[x]
  BY SumUpdate
<1>2. SumFunction(f) \in Int /\ f[x] \in Int
  BY SumType
<1> QED  BY <1>1, <1>2

\* What is below k in W, and the part of a function that lies there.
Under(W, k) == {y \in W : y < k}
Below(f, n, W, k) == [x \in 1 .. n |-> IF x \in W /\ x < k THEN f[x] ELSE 0]

\* Moving the bound up by one adds the value at the bound.
LEMMA BelowGrows ==
  ASSUME NEW n \in Nat, NEW W, NEW f \in [1 .. n -> Int], NEW k \in 1 .. n
  PROVE  SumFunction(Below(f, n, W, k + 1))
           = SumFunction(Below(f, n, W, k)) + IF k \in W THEN f[k] ELSE 0
<1> DEFINE S == 1 .. n
           u == Below(f, n, W, k)
           v == Below(f, n, W, k + 1)
           q == IF k \in W THEN f[k] ELSE 0
<1>1. IsFiniteSet(S)
  BY FS_Interval
<1>2. u \in [S -> Int] /\ v \in [S -> Int] /\ q \in Int
  BY DEF Below
<1>3. v[k] = u[k] + q
  BY DEF Below
<1>4. \A y \in S : y # k => v[y] = u[y]
  BY DEF Below
<1> HIDE DEF u, v, q
<1>5. k \in S
  OBVIOUS
<1> HIDE DEF S
<1>6. \A y \in S \ {k} : v[y] = u[y]
  BY <1>4
<1>7. SumFunction(v) = SumFunction(u) - u[k] + v[k]
  BY <1>1, <1>2, <1>5, <1>6, SumUpdate
<1>8. SumFunction(u) \in Int
  BY <1>1, <1>2, SumType
<1>9. u[k] \in Int
  BY <1>2, <1>5
<1>10. SumFunction(v) = SumFunction(u) + q
  BY <1>2, <1>3, <1>7, <1>8, <1>9
<1> QED  BY <1>10 DEF u, v, q

\* Sums over the members under a bound, and over all members, as sums of such functions.
LEMMA BelowAll ==
  ASSUME NEW n \in Nat, NEW W, W \subseteq 1 .. n, NEW f \in [1 .. n -> Int]
  PROVE  /\ \A k \in 1 .. (n + 1) :
              SumFunctionOnSet(f, Under(W, k)) = SumFunction(Below(f, n, W, k))
         /\ \A k \in 1 .. (n + 1) : SumFunction(Below(f, n, W, k)) \in Int
         /\ SumFunctionOnSet(f, W) = SumFunction(Below(f, n, W, n + 1))
         /\ SumFunction(Below(f, n, W, 1)) = 0
<1> DEFINE S == 1 .. n
<1>1. IsFiniteSet(S)
  BY FS_Interval
<1>2. ASSUME NEW k \in 1 .. (n + 1)
      PROVE  /\ SumFunctionOnSet(f, Under(W, k)) = SumFunction(Below(f, n, W, k))
             /\ SumFunction(Below(f, n, W, k)) \in Int
  <2> DEFINE A == Under(W, k)
             g == Below(f, n, W, k)
  <2>1. A \subseteq S
    BY DEF Under
  <2>2. g \in [S -> Int]
    BY DEF Below
  <2>3. \A x \in S : g[x] = IF x \in A THEN f[x] ELSE 0
    BY DEF Below, Under
  <2> HIDE DEF A, g, S
  <2>4. f \in [S -> Int]
    BY DEF S
  <2>5. PartOf(g, f, A, S)
    BY <2>1, <2>2, <2>3, <2>4 DEF PartOf
  <2>5a. SumFunctionOnSet(f, A) = SumFunction(g)
    BY <1>1, <2>5, SumOnPart
  <2>6. SumFunction(g) \in Int
    BY <1>1, <2>2, SumType
  <2> QED  BY <2>5a, <2>6 DEF A, g
<1>3. Under(W, n + 1) = W /\ n + 1 \in 1 .. (n + 1)
  <2>1. \A y \in W : y < n + 1
    OBVIOUS
  <2>2. n + 1 \in 1 .. (n + 1)
    OBVIOUS
  <2>3. Under(W, n + 1) = W
    BY <2>1 DEF Under
  <2> QED  BY <2>2, <2>3
<1>4. SumFunctionOnSet(f, W) = SumFunction(Below(f, n, W, n + 1))
  BY <1>2, <1>3
<1>5. SumFunction(Below(f, n, W, 1)) = 0
  <2> DEFINE g == Below(f, n, W, 1)
  <2>1. g \in [S -> Int] /\ \A x \in S : g[x] = IF x \in {} THEN 1 ELSE 0
    BY DEF Below
  <2> HIDE DEF g, S
  <2>2. SumFunction(g) = Cardinality({})
    BY <1>1, <2>1, SumCounts
  <2> QED  BY <2>2, FS_EmptySet DEF g
<1> QED  BY <1>2, <1>4, <1>5

\* Payments in order, each up to what is asked while the money lasts, together come to
\* what is asked or to all the money.
LEMMA PaidWithBefore ==
  ASSUME NEW n \in Nat, NEW W, W \subseteq 1 .. n, NEW f \in [1 .. n -> Nat], NEW T \in Nat,
         NEW b \in [1 .. n -> Int], NEW g \in [1 .. n -> Int],
         \A x \in 1 .. n : b[x] = SumFunctionOnSet(f, Under(W, x)),
         \A x \in 1 .. n : g[x] = IF x \notin W \/ T - b[x] <= 0 THEN 0
                                  ELSE IF f[x] <= T - b[x] THEN f[x] ELSE T - b[x]
  PROVE  /\ SumFunction(g) = IF SumFunctionOnSet(f, W) <= T THEN SumFunctionOnSet(f, W) ELSE T
         /\ SumFunctionOnSet(f, W) \in Nat
<1> DEFINE A(k) == SumFunction(Below(f, n, W, k))
           G(k) == SumFunction(Below(g, n, W, k))
           K == {k \in 1 .. (n + 1) :
                   ~(A(k) \in Nat /\ G(k) = IF A(k) <= T THEN A(k) ELSE T)}
<1>1. f \in [1 .. n -> Int]
  OBVIOUS
<1>2. ASSUME NEW x \in 1 .. n PROVE b[x] = A(x)
  <2>1. x \in 1 .. (n + 1)
    OBVIOUS
  <2>2. SumFunctionOnSet(f, Under(W, x)) = A(x)
    BY <1>1, <2>1, BelowAll
  <2> QED  BY <2>2
<1>3. A(1) = 0 /\ G(1) = 0
  BY <1>1, BelowAll
<1>4. ASSUME NEW k \in 1 .. n
      PROVE  /\ A(k + 1) = A(k) + IF k \in W THEN f[k] ELSE 0
             /\ G(k + 1) = G(k) + IF k \in W THEN g[k] ELSE 0
  <2>1. A(k + 1) = A(k) + IF k \in W THEN f[k] ELSE 0
    BY <1>1, BelowGrows, SMTT(30)
  <2>2. G(k + 1) = G(k) + IF k \in W THEN g[k] ELSE 0
    BY BelowGrows, SMTT(30)
  <2> QED  BY <2>1, <2>2
<1>5. SumFunctionOnSet(f, W) = A(n + 1)
  BY <1>1, BelowAll
<1>6. Below(g, n, W, n + 1) = g
  <2>1. \A x \in 1 .. n : g[x] = IF x \in W /\ x < n + 1 THEN g[x] ELSE 0
    OBVIOUS
  <2> QED  BY <2>1 DEF Below
<1>7. SumFunction(g) = G(n + 1)
  BY <1>6
<1> HIDE DEF A, G
<1>8. K = {}
  <2> SUFFICES ASSUME K # {} PROVE FALSE
    OBVIOUS
  <2>1. K \subseteq Nat
    OBVIOUS
  <2>2. PICK k \in K : \A m \in K : k <= m
    BY <2>1, LeastNatural
  <2>3. k \in 1 .. (n + 1) /\ k # 1
    BY <1>3
  <2> DEFINE x == k - 1
  <2>4. x \in 1 .. n /\ x \notin K /\ k = x + 1 /\ x \in 1 .. (n + 1)
    BY <2>2, <2>3
  <2>5. A(x) \in Nat /\ G(x) = IF A(x) <= T THEN A(x) ELSE T
    BY <2>4
  <2> HIDE DEF x
  <2>6. /\ A(k) = A(x) + IF x \in W THEN f[x] ELSE 0
        /\ G(k) = G(x) + IF x \in W THEN g[x] ELSE 0
    BY <1>4, <2>4
  <2>7. b[x] = A(x) /\ f[x] \in Nat
    BY <1>2, <2>4
  <2>8. g[x] = IF x \notin W \/ T - A(x) <= 0 THEN 0
               ELSE IF f[x] <= T - A(x) THEN f[x] ELSE T - A(x)
    BY <2>4, <2>7
  <2>9. A(k) \in Nat /\ G(k) = IF A(k) <= T THEN A(k) ELSE T
    <3>1. CASE x \notin W
      BY <2>5, <2>6, <3>1
    <3>2. CASE x \in W /\ T <= A(x)
      <4>1. g[x] = 0 /\ G(x) = T
        BY <2>5, <2>8, <3>2, SMTT(30)
      <4>2. A(k) = A(x) + f[x] /\ G(k) = T
        BY <2>6, <3>2, <4>1
      <4> QED  BY <2>5, <2>7, <3>2, <4>2
    <3>3. CASE x \in W /\ A(x) < T
      <4>1. G(x) = A(x) /\ g[x] = IF f[x] <= T - A(x) THEN f[x] ELSE T - A(x)
        BY <2>5, <2>8, <3>3
      <4>2. A(k) = A(x) + f[x] /\ G(k) = A(x) + g[x]
        BY <2>6, <3>3, <4>1
      <4>3. CASE f[x] <= T - A(x)
        <5>1. G(k) = A(k) /\ A(k) \in Nat /\ A(k) <= T
          BY <2>5, <2>7, <4>1, <4>2, <4>3, SMTT(30)
        <5> QED  BY <5>1
      <4>4. CASE ~(f[x] <= T - A(x))
        <5>1. g[x] = T - A(x)
          BY <4>1, <4>4
        <5>2. G(k) = T
          BY <2>5, <4>2, <5>1
        <5>3. f[x] > T - A(x)
          BY <2>5, <2>7, <4>4
        <5>4. A(k) \in Nat /\ A(k) > T
          BY <2>5, <2>7, <4>2, <5>3, SMTT(30)
        <5> QED  BY <5>2, <5>4
      <4> QED  BY <4>3, <4>4
    <3> QED  BY <2>5, <3>1, <3>2, <3>3
  <2> QED  BY <2>2, <2>9
<1>9. n + 1 \in 1 .. (n + 1)
  OBVIOUS
<1> QED  BY <1>5, <1>7, <1>8, <1>9

\* The same with what was asked before left implicit.
InTurn(g, f, W, T, n) ==
  /\ n \in Nat /\ W \subseteq 1 .. n /\ f \in [1 .. n -> Nat] /\ T \in Nat /\ g \in [1 .. n -> Int]
  /\ \E b \in [1 .. n -> Int] :
       /\ \A x \in 1 .. n : b[x] = SumFunctionOnSet(f, Under(W, x))
       /\ \A x \in 1 .. n : g[x] = IF x \notin W \/ T - b[x] <= 0 THEN 0
                                   ELSE IF f[x] <= T - b[x] THEN f[x] ELSE T - b[x]

\* Paid in turn out of T, members get what is owed, or T when that is more.
LEMMA PaidInOrder ==
  ASSUME NEW n, NEW W, NEW f, NEW T, NEW g, InTurn(g, f, W, T, n)
  PROVE  /\ SumFunction(g) = IF SumFunctionOnSet(f, W) <= T THEN SumFunctionOnSet(f, W) ELSE T
         /\ SumFunctionOnSet(f, W) \in Nat
<1>1. n \in Nat /\ W \subseteq 1 .. n /\ f \in [1 .. n -> Nat] /\ T \in Nat /\ g \in [1 .. n -> Int]
  BY DEF InTurn
<1>2. PICK b \in [1 .. n -> Int] :
       /\ \A x \in 1 .. n : b[x] = SumFunctionOnSet(f, Under(W, x))
       /\ \A x \in 1 .. n : g[x] = IF x \notin W \/ T - b[x] <= 0 THEN 0
                                   ELSE IF f[x] <= T - b[x] THEN f[x] ELSE T - b[x]
  BY DEF InTurn
<1> QED  BY <1>1, <1>2, PaidWithBefore

-----------------------------------------------------------------------------
(* Tables with a row for each holder and a column for each kind of thing: how  *)
(* much of a kind all the holders have.                                        *)
InColumn(T, F, j) == SumFunction([y \in T |-> F[y][j]])

\* What all holders have of a kind is an integer.
LEMMA ColumnType ==
  ASSUME NEW T, IsFiniteSet(T), NEW K, NEW F \in [T -> [K -> Int]]
  PROVE  \A j \in K : InColumn(T, F, j) \in Int
<1> SUFFICES ASSUME NEW j \in K PROVE InColumn(T, F, j) \in Int
  OBVIOUS
<1>1. [y \in T |-> F[y][j]] \in [T -> Int]
  OBVIOUS
<1> QED  BY <1>1, SumType DEF InColumn

\* One holder's row changes, each kind by an amount of its own.
LEMMA RowChange ==
  ASSUME NEW T, IsFiniteSet(T), NEW K, NEW F \in [T -> [K -> Int]], NEW G \in [T -> [K -> Int]],
         NEW x \in T, NEW d \in [K -> Int], \A j \in K : G[x][j] = F[x][j] + d[j],
         \A y \in T : y # x => G[y] = F[y]
  PROVE  \A j \in K : InColumn(T, G, j) = InColumn(T, F, j) + d[j]
<1> SUFFICES ASSUME NEW j \in K PROVE InColumn(T, G, j) = InColumn(T, F, j) + d[j]
  OBVIOUS
<1> DEFINE f == [y \in T |-> F[y][j]]
           g == [y \in T |-> G[y][j]]
<1>1. /\ f \in [T -> Int] /\ g \in [T -> Int] /\ d[j] \in Int
      /\ g[x] = f[x] + d[j] /\ \A y \in T : y # x => g[y] = f[y]
  OBVIOUS
<1>2. InColumn(T, F, j) = SumFunction(f) /\ InColumn(T, G, j) = SumFunction(g)
  BY DEF InColumn
<1> HIDE DEF f, g
<1> QED  BY <1>1, <1>2, SumAdd

\* What one holder gives another stays in the column.
LEMMA RowTransfer ==
  ASSUME NEW T, IsFiniteSet(T), NEW K, NEW F \in [T -> [K -> Int]], NEW G \in [T -> [K -> Int]],
         NEW x \in T, NEW z \in T, x # z, NEW d \in [K -> Int], NEW e \in [K -> Int],
         \A j \in K : G[x][j] = F[x][j] + d[j], \A j \in K : G[z][j] = F[z][j] + e[j],
         \A y \in T : y # x /\ y # z => G[y] = F[y]
  PROVE  \A j \in K : InColumn(T, G, j) = InColumn(T, F, j) + d[j] + e[j]
<1> DEFINE H == [F EXCEPT ![x] = G[x]]
<1>1. /\ H \in [T -> [K -> Int]] /\ H[x] = G[x] /\ H[z] = F[z]
      /\ \A y \in T : y # x => H[y] = F[y]
      /\ \A y \in T : y # z => G[y] = H[y]
  OBVIOUS
<1> HIDE DEF H
<1>2. \A j \in K : InColumn(T, H, j) = InColumn(T, F, j) + d[j]
  BY <1>1, RowChange
<1>3. \A j \in K : InColumn(T, G, j) = InColumn(T, H, j) + e[j]
  <2>1. \A j \in K : G[z][j] = H[z][j] + e[j]
    BY <1>1
  <2> QED  BY <1>1, <2>1, RowChange
<1> QED  BY <1>2, <1>3

\* Everybody of a set gets one more of a kind.
LEMMA ColumnCounts ==
  ASSUME NEW T, IsFiniteSet(T), NEW K, NEW F \in [T -> [K -> Int]], NEW G \in [T -> [K -> Int]],
         NEW j \in K, NEW A, A \subseteq T,
         \A y \in T : G[y][j] = F[y][j] + IF y \in A THEN 1 ELSE 0
  PROVE  InColumn(T, G, j) = InColumn(T, F, j) + Cardinality(A)
<1> DEFINE f == [y \in T |-> F[y][j]]
           g == [y \in T |-> G[y][j]]
           one == [y \in T |-> IF y \in A THEN 1 ELSE 0]
<1>1. /\ f \in [T -> Int] /\ g \in [T -> Int] /\ one \in [T -> Int]
      /\ \A y \in T : g[y] = f[y] + one[y]
      /\ \A y \in T : one[y] = IF y \in A THEN 1 ELSE 0
  OBVIOUS
<1>2. InColumn(T, F, j) = SumFunction(f) /\ InColumn(T, G, j) = SumFunction(g)
  BY DEF InColumn
<1> HIDE DEF f, g, one
<1>3. SumFunction(g) = SumFunction(f) + SumFunction(one)
  BY <1>1, SumOfTwo
<1>4. SumFunction(one) = Cardinality(A)
  BY <1>1, SumCounts
<1> QED  BY <1>2, <1>3, <1>4

\* A sum of naturals is one.
LEMMA SumOfNaturals ==
  ASSUME NEW S, IsFiniteSet(S), NEW f \in [S -> Nat]
  PROVE  SumFunction(f) \in Nat
<1> DEFINE T == {u \in SUBSET S : Table(f, S)[u] \in Nat}
<1>0. f \in [S -> Int]
  OBVIOUS
<1>1. {} \in T
  BY TableEntries
<1>2. ASSUME NEW u \in SUBSET S, u # {}, \A x \in u : u \ {x} \in T PROVE u \in T
  <2>1. PICK x : x = Picked(u)
    OBVIOUS
  <2>2. x \in u /\ Table(f, S)[u] = f[x] + Table(f, S)[u \ {x}]
    <3>1. Picked(u) \in u /\ Table(f, S)[u] = f[Picked(u)] + Table(f, S)[u \ {Picked(u)}]
      BY <1>2, TableStep
    <3> QED  BY <2>1, <3>1
  <2>3. f[x] \in Nat /\ Table(f, S)[u \ {x}] \in Nat
    BY <1>2, <2>2
  <2> QED  BY <2>2, <2>3
<1> HIDE DEF T
<1>3. \A u \in SUBSET S : u \in T
  BY <1>1, <1>2, OneByOne
<1> QED  BY <1>3, SumIsTable DEF T, SumFunction

\* A sum of naturals of which one is positive is positive.
LEMMA SumIsPositive ==
  ASSUME NEW S, IsFiniteSet(S), NEW f \in [S -> Nat], NEW x \in S, f[x] > 0
  PROVE  SumFunction(f) \in Nat \ {0}
<1>1. PICK g : g = [f EXCEPT ![x] = 0]
  OBVIOUS
<1>2. g \in [S -> Nat] /\ g[x] = 0 /\ \A y \in S \ {x} : f[y] = g[y]
  BY <1>1
<1>3. SumFunction(g) \in Nat
  BY <1>2, SumOfNaturals
<1>4. SumFunction(f) = SumFunction(g) - g[x] + f[x]
  <2>1. f \in [S -> Int] /\ g \in [S -> Int]
    BY <1>2
  <2> QED  BY <1>2, <2>1, SumUpdate
<1> QED  BY <1>2, <1>3, <1>4

=============================================================================
