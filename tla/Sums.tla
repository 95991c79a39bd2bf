-------------------------------- MODULE Sums --------------------------------
(* Sums over finite sets, for the proofs about what a shop holds and about   *)
(* what the dashboards report.                                               *)
EXTENDS Functions, FiniteSetTheorems, WellFoundedInduction, TLAPS

\* The community module sums a function over a set by a recursive function on
\* its subsets, which takes one member away at a time.
Pick(S) == CHOOSE x \in S : TRUE
SumStep(fun, S, g) ==
    [s \in SUBSET S |-> IF s = {} THEN 0 ELSE fun[Pick(s)] + g[s \ {Pick(s)}]]
Iter(fun, S) == CHOOSE g : g = SumStep(fun, S, g)

LEMMA SumIsIter == ASSUME NEW fun, NEW S PROVE SumFunctionOnSet(fun, S) = Iter(fun, S)[S]
  BY DEF SumFunctionOnSet, FoldFunctionOnSet, MapThenFoldSet, Iter, SumStep, Pick

\* A set of numbers that has a member has a least one.
LEMMA LeastOne == ASSUME NEW T \in SUBSET Nat, T # {}
  PROVE  \E n \in T : \A m \in T : n <= m
<1>0. T \subseteq Nat /\ T # {}
    OBVIOUS
<1>1. PICK n \in T : \A m \in T : ~(<<m, n>> \in OpToRel(<, Nat))
    BY <1>0, NatLessThanWellFounded, WFMin, Zenon
<1>2. ASSUME NEW m \in T PROVE n <= m
    <2>1. m \in Nat /\ n \in Nat /\ ~(m < n)
        BY <1>1 DEF OpToRel
    <2> QED
        BY <2>1
<1> QED
    BY <1>2

LEMMA PickLess ==
    ASSUME NEW S, IsFiniteSet(S), S # {}
    PROVE  /\ Pick(S) \in S /\ IsFiniteSet(S \ {Pick(S)})
           /\ Cardinality(S \ {Pick(S)}) = Cardinality(S) - 1
           /\ Cardinality(S) \in Nat \ {0} /\ Cardinality(S \ {Pick(S)}) \in Nat
<1>1. Pick(S) \in S
    BY DEF Pick
<1> QED
    BY <1>1, FS_RemoveElement, FS_CardinalityType, FS_EmptySet

\* The subsets of at most n members, and a solution of the recursion on them.
UpTo(S, n) == {s \in SUBSET S : Cardinality(s) <= n}
Solves(fun, S, n, g) ==
    /\ DOMAIN g = UpTo(S, n)
    /\ g = [s \in UpTo(S, n) |-> IF s = {} THEN 0 ELSE fun[Pick(s)] + g[s \ {Pick(s)}]]

LEMMA SolvedBelow ==
    ASSUME NEW fun, NEW S, IsFiniteSet(S), NEW n \in Nat
    PROVE  \E g : Solves(fun, S, n, g)
<1> DEFINE Bad == {k \in Nat : ~ \E g : Solves(fun, S, k, g)}
<1>0. \A s \in SUBSET S : IsFiniteSet(s) /\ Cardinality(s) \in Nat
    BY FS_Subset, FS_CardinalityType
<1>1. SUFFICES ASSUME Bad # {} PROVE FALSE
    OBVIOUS
<1>2. PICK k \in Bad : \A m \in Bad : k <= m
    BY <1>1, LeastOne
<1>3. CASE k = 0
    <2> DEFINE g == [s \in UpTo(S, k) |-> 0]
    <2>1. \A s \in UpTo(S, k) : s = {}
        <3>1. ASSUME NEW s \in UpTo(S, k) PROVE s = {}
            <4>1. IsFiniteSet(s) /\ Cardinality(s) = 0
                BY <1>0, <1>3 DEF UpTo
            <4> QED
                BY <4>1, FS_EmptySet
        <3> QED
            BY <3>1
    <2>2. Solves(fun, S, k, g)
        BY <2>1 DEF Solves
    <2> QED
        BY <1>2, <2>2
<1>4. CASE k # 0
    <2>1. k - 1 \in Nat /\ k - 1 \notin Bad
        BY <1>2, <1>4
    <2>2. PICK h : Solves(fun, S, k - 1, h)
        BY <2>1
    <2> DEFINE g == [s \in UpTo(S, k) |-> IF s = {} THEN 0 ELSE fun[Pick(s)] + h[s \ {Pick(s)}]]
    <2>3. ASSUME NEW s \in UpTo(S, k), s # {} PROVE s \ {Pick(s)} \in UpTo(S, k - 1)
        <3>1. IsFiniteSet(s) /\ Cardinality(s) <= k /\ s \subseteq S
            BY <1>0 DEF UpTo
        <3>2. Cardinality(s \ {Pick(s)}) = Cardinality(s) - 1 /\ Cardinality(s) \in Nat
            BY <2>3, <3>1, PickLess
        <3>3. Cardinality(s \ {Pick(s)}) <= k - 1
            BY <3>1, <3>2
        <3> QED
            BY <3>1, <3>3 DEF UpTo
    <2>4. ASSUME NEW t \in UpTo(S, k - 1) PROVE g[t] = h[t]
        <3>1. t \in UpTo(S, k)
            BY <1>0 DEF UpTo
        <3>2. h[t] = IF t = {} THEN 0 ELSE fun[Pick(t)] + h[t \ {Pick(t)}]
            BY <2>2 DEF Solves
        <3> QED
            BY <3>1, <3>2
    <2>5. \A s \in UpTo(S, k) : s # {} => g[s \ {Pick(s)}] = h[s \ {Pick(s)}]
        BY <2>3, <2>4
    <2>6. g = [s \in UpTo(S, k) |-> IF s = {} THEN 0 ELSE fun[Pick(s)] + g[s \ {Pick(s)}]]
        BY <2>5
    <2>7. Solves(fun, S, k, g)
        BY <2>6 DEF Solves
    <2> QED
        BY <1>2, <2>7
<1> QED
    BY <1>3, <1>4

LEMMA IterSolves ==
    ASSUME NEW fun, NEW S, IsFiniteSet(S)
    PROVE  Iter(fun, S) = SumStep(fun, S, Iter(fun, S))
<1>1. Cardinality(S) \in Nat
    BY FS_CardinalityType
<1>2. PICK g : Solves(fun, S, Cardinality(S), g)
    BY <1>1, SolvedBelow
<1>3. UpTo(S, Cardinality(S)) = SUBSET S
    BY FS_Subset DEF UpTo
<1>4. g = SumStep(fun, S, g)
    BY <1>2, <1>3 DEF Solves, SumStep
<1> QED
    BY <1>4 DEF Iter

\* What the recursion gives a set does not depend on the set it began with.
LEMMA IterAgrees ==
    ASSUME NEW fun, NEW S, IsFiniteSet(S), NEW T, T \subseteq S
    PROVE  Iter(fun, S)[T] = Iter(fun, T)[T]
<1> DEFINE f == Iter(fun, S)
           g == Iter(fun, T)
           Bad == {n \in Nat : \E s \in SUBSET T : Cardinality(s) = n /\ f[s] # g[s]}
<1>0. IsFiniteSet(T) /\ \A s \in SUBSET T : IsFiniteSet(s) /\ Cardinality(s) \in Nat
    BY FS_Subset, FS_CardinalityType
<1>1. f = SumStep(fun, S, f) /\ g = SumStep(fun, T, g)
    BY <1>0, IterSolves
<1> HIDE DEF f, g
<1>2. ASSUME NEW s \in SUBSET T, f[s] # g[s] PROVE FALSE
    <2>1. Cardinality(s) \in Bad
        BY <1>0, <1>2
    <2>2. PICK n \in Bad : \A m \in Bad : n <= m
        BY <2>1, LeastOne
    <2>3. PICK t \in SUBSET T : Cardinality(t) = n /\ f[t] # g[t]
        BY <2>2
    <2>4. /\ f[t] = IF t = {} THEN 0 ELSE fun[Pick(t)] + f[t \ {Pick(t)}]
          /\ g[t] = IF t = {} THEN 0 ELSE fun[Pick(t)] + g[t \ {Pick(t)}]
        BY <1>1 DEF SumStep
    <2>5. CASE t = {}
        BY <2>3, <2>4, <2>5
    <2>6. CASE t # {}
        <3>1. PICK u : u = t \ {Pick(t)}
            OBVIOUS
        <3>2. u \in SUBSET T /\ Cardinality(u) = n - 1 /\ Cardinality(u) \in Nat
            BY <1>0, <2>3, <2>6, <3>1, PickLess
        <3>3. Cardinality(u) \notin Bad
            BY <2>2, <3>2
        <3>4. f[u] = g[u]
            BY <3>2, <3>3
        <3> QED
            BY <2>3, <2>4, <2>6, <3>1, <3>4
    <2> QED
        BY <2>5, <2>6
<1> QED
    BY <1>2 DEF f, g

LEMMA SumTakes ==
    ASSUME NEW fun, NEW S, IsFiniteSet(S)
    PROVE  /\ S = {} => SumFunctionOnSet(fun, S) = 0
           /\ S # {} => SumFunctionOnSet(fun, S)
                          = fun[Pick(S)] + SumFunctionOnSet(fun, S \ {Pick(S)})
<1>1. PICK f : f = Iter(fun, S)
    OBVIOUS
<1>2. f = SumStep(fun, S, f)
    BY <1>1, IterSolves
<1>3. f[S] = IF S = {} THEN 0 ELSE fun[Pick(S)] + f[S \ {Pick(S)}]
    BY <1>2 DEF SumStep
<1>4. f[S \ {Pick(S)}] = SumFunctionOnSet(fun, S \ {Pick(S)})
    <2>1. PICK T : T = S \ {Pick(S)}
        OBVIOUS
    <2>2. T \subseteq S
        BY <2>1
    <2>3. f[T] = Iter(fun, T)[T]
        BY <1>1, <2>2, IterAgrees
    <2> QED
        BY <2>1, <2>3, SumIsIter
<1>5. f[S] = SumFunctionOnSet(fun, S)
    BY <1>1, SumIsIter
<1> QED
    BY <1>3, <1>4, <1>5

\* A sum of numbers is a number, whatever member is taken first.
LEMMA SumType ==
    ASSUME NEW fun, NEW S, IsFiniteSet(S), \A x \in S : fun[x] \in Nat
    PROVE  SumFunctionOnSet(fun, S) \in Nat
<1> DEFINE Total(s) == SumFunctionOnSet(fun, s)
           Bad == {n \in Nat : \E s \in SUBSET S : Cardinality(s) = n /\ Total(s) \notin Nat}
<1>0. \A s \in SUBSET S : IsFiniteSet(s) /\ Cardinality(s) \in Nat
    BY FS_Subset, FS_CardinalityType
<1>1. SUFFICES ASSUME Total(S) \notin Nat PROVE FALSE
    OBVIOUS
<1>2. Cardinality(S) \in Bad
    BY <1>0, <1>1
<1>3. PICK n \in Bad : \A m \in Bad : n <= m
    BY <1>2, LeastOne
<1>4. PICK t \in SUBSET S : Cardinality(t) = n /\ Total(t) \notin Nat
    BY <1>3
<1>5. t # {}
    <2>1. IsFiniteSet(t) /\ Total(t) # 0
        BY <1>0, <1>4
    <2> QED
        BY <2>1, SumTakes
<1>6. PICK u : u = t \ {Pick(t)}
    OBVIOUS
<1>7. u \in SUBSET S /\ Cardinality(u) = n - 1 /\ Cardinality(u) \in Nat /\ Pick(t) \in S
    BY <1>0, <1>4, <1>5, <1>6, PickLess
<1>8. Total(u) \in Nat
    BY <1>3, <1>7
<1>9. Total(t) = fun[Pick(t)] + Total(u)
    BY <1>0, <1>5, <1>6, SumTakes
<1> QED
    BY <1>4, <1>7, <1>8, <1>9

\* A member counts once, whichever the recursion takes first.
LEMMA SumWithout ==
    ASSUME NEW fun, NEW S, IsFiniteSet(S), \A x \in S : fun[x] \in Nat, NEW x \in S
    PROVE  SumFunctionOnSet(fun, S) = fun[x] + SumFunctionOnSet(fun, S \ {x})
<1> DEFINE Total(s) == SumFunctionOnSet(fun, s)
           Off(s, y) == Total(s) # fun[y] + Total(s \ {y})
           Bad == {n \in Nat : \E s \in SUBSET S : Cardinality(s) = n /\ \E y \in s : Off(s, y)}
<1>0. \A s \in SUBSET S : IsFiniteSet(s) /\ Cardinality(s) \in Nat /\ Total(s) \in Nat
    BY FS_Subset, FS_CardinalityType, SumType
<1>1. SUFFICES ASSUME Off(S, x) PROVE FALSE
    OBVIOUS
<1>2. Cardinality(S) \in Bad
    BY <1>0, <1>1
<1>3. PICK n \in Bad : \A m \in Bad : n <= m
    BY <1>2, LeastOne
<1>4. PICK t \in SUBSET S : Cardinality(t) = n /\ \E y \in t : Off(t, y)
    BY <1>3
<1>5. PICK y \in t : Off(t, y)
    BY <1>4
<1>6. PICK z, u : z = Pick(t) /\ u = t \ {z}
    OBVIOUS
<1>7. z \in t /\ u \in SUBSET S /\ Cardinality(u) = n - 1 /\ Cardinality(u) \in Nat
    BY <1>0, <1>4, <1>6, PickLess
<1>8. Total(t) = fun[z] + Total(u)
    BY <1>0, <1>4, <1>6, SumTakes
<1>9. z # y /\ y \in u
    BY <1>5, <1>6, <1>8
<1>10. PICK v, w : v = t \ {y} /\ w = u \ {y}
    OBVIOUS
<1>11. /\ v \in SUBSET S /\ w \in SUBSET S /\ z \in v /\ w = v \ {z}
       /\ Cardinality(v) = n - 1
    BY <1>0, <1>4, <1>6, <1>7, <1>9, <1>10, FS_RemoveElement
<1>12. Cardinality(u) \notin Bad /\ Cardinality(v) \notin Bad
    BY <1>3, <1>7, <1>11
<1>13. Total(u) = fun[y] + Total(w) /\ Total(v) = fun[z] + Total(w)
    <2>1. ~Off(u, y)
        BY <1>7, <1>9, <1>12
    <2>2. ~Off(v, z)
        BY <1>7, <1>11, <1>12
    <2> QED
        BY <1>10, <1>11, <2>1, <2>2
<1>14. fun[y] \in Nat /\ fun[z] \in Nat /\ Total(w) \in Nat
    BY <1>0, <1>4, <1>7, <1>11
<1>15. Total(t) = fun[y] + Total(v)
    BY <1>8, <1>13, <1>14
<1> QED
    BY <1>5, <1>10, <1>15

LEMMA SumWith ==
    ASSUME NEW fun, NEW S, IsFiniteSet(S), NEW x, x \notin S, \A y \in S \cup {x} : fun[y] \in Nat
    PROVE  SumFunctionOnSet(fun, S \cup {x}) = fun[x] + SumFunctionOnSet(fun, S)
<1>1. PICK T : T = S \cup {x}
    OBVIOUS
<1>2. IsFiniteSet(T) /\ x \in T /\ S = T \ {x}
    BY <1>1, FS_AddElement
<1> QED
    BY <1>1, <1>2, SumWithout

\* Only what the function gives the members matters.
LEMMA SumSame ==
    ASSUME NEW f, NEW g, NEW S, IsFiniteSet(S), \A x \in S : f[x] = g[x]
    PROVE  SumFunctionOnSet(f, S) = SumFunctionOnSet(g, S)
<1> DEFINE Off(s) == SumFunctionOnSet(f, s) # SumFunctionOnSet(g, s)
           Bad == {n \in Nat : \E s \in SUBSET S : Cardinality(s) = n /\ Off(s)}
<1>0. \A s \in SUBSET S : IsFiniteSet(s) /\ Cardinality(s) \in Nat
    BY FS_Subset, FS_CardinalityType
<1>1. SUFFICES ASSUME Off(S) PROVE FALSE
    OBVIOUS
<1>2. Cardinality(S) \in Bad
    BY <1>0, <1>1
<1>3. PICK n \in Bad : \A m \in Bad : n <= m
    BY <1>2, LeastOne
<1>4. PICK t \in SUBSET S : Cardinality(t) = n /\ Off(t)
    BY <1>3
<1>5. t # {}
    BY <1>0, <1>4, SumTakes
<1>6. PICK u : u = t \ {Pick(t)}
    OBVIOUS
<1>7. u \in SUBSET S /\ Cardinality(u) = n - 1 /\ Cardinality(u) \in Nat /\ Pick(t) \in S
    BY <1>0, <1>4, <1>5, <1>6, PickLess
<1>8. ~Off(u)
    BY <1>3, <1>7
<1>9. /\ SumFunctionOnSet(f, t) = f[Pick(t)] + SumFunctionOnSet(f, u)
      /\ SumFunctionOnSet(g, t) = g[Pick(t)] + SumFunctionOnSet(g, u)
    BY <1>0, <1>5, <1>6, SumTakes
<1> QED
    BY <1>4, <1>7, <1>8, <1>9

\* A part of the set sums up to no more than the set.
LEMMA SumAtMost ==
    ASSUME NEW fun, NEW S, IsFiniteSet(S), \A x \in S : fun[x] \in Nat, NEW T \in SUBSET S
    PROVE  SumFunctionOnSet(fun, T) <= SumFunctionOnSet(fun, S)
<1> DEFINE Total(s) == SumFunctionOnSet(fun, s)
           Bad == {n \in Nat : \E s \in SUBSET S : /\ Cardinality(s) = n
                                                   /\ T \subseteq s /\ ~(Total(T) <= Total(s))}
<1>0. \A s \in SUBSET S : IsFiniteSet(s) /\ Cardinality(s) \in Nat /\ Total(s) \in Nat
    BY FS_Subset, FS_CardinalityType, SumType
<1>1. SUFFICES ASSUME ~(Total(T) <= Total(S)) PROVE FALSE
    OBVIOUS
<1>2. Cardinality(S) \in Bad
    BY <1>0, <1>1
<1>3. PICK n \in Bad : \A m \in Bad : n <= m
    BY <1>2, LeastOne
<1>4. PICK s \in SUBSET S : Cardinality(s) = n /\ T \subseteq s /\ ~(Total(T) <= Total(s))
    BY <1>3
<1>5. PICK x \in s : x \notin T
    BY <1>0, <1>4
<1>6. PICK u : u = s \ {x}
    OBVIOUS
<1>7. u \in SUBSET S /\ T \subseteq u /\ Cardinality(u) = n - 1 /\ Cardinality(u) \in Nat
    BY <1>0, <1>4, <1>5, <1>6, FS_RemoveElement
<1>8. Total(T) <= Total(u)
    BY <1>3, <1>7
<1>9. Total(s) = fun[x] + Total(u)
    <2>1. IsFiniteSet(s) /\ \A y \in s : fun[y] \in Nat
        BY <1>0
    <2> QED
        BY <1>5, <1>6, <2>1, SumWithout
<1>10. fun[x] \in Nat /\ Total(u) \in Nat /\ Total(T) \in Nat
    BY <1>0, <1>5, <1>7
<1> QED
    BY <1>4, <1>8, <1>9, <1>10

\* Two sets without a common member sum up apart.
LEMMA SumUnion ==
    ASSUME NEW fun, NEW S, IsFiniteSet(S), \A x \in S : fun[x] \in Nat,
           NEW A \in SUBSET S, NEW B \in SUBSET S, A \cap B = {}
    PROVE  SumFunctionOnSet(fun, A \cup B) = SumFunctionOnSet(fun, A) + SumFunctionOnSet(fun, B)
<1> DEFINE Total(s) == SumFunctionOnSet(fun, s)
           Off(b) == Total(A \cup b) # Total(A) + Total(b)
           Bad == {n \in Nat : \E b \in SUBSET B : Cardinality(b) = n /\ Off(b)}
<1>0. \A s \in SUBSET S : IsFiniteSet(s) /\ Cardinality(s) \in Nat /\ Total(s) \in Nat
    BY FS_Subset, FS_CardinalityType, SumType
<1>1. SUFFICES ASSUME Off(B) PROVE FALSE
    OBVIOUS
<1>2. Cardinality(B) \in Bad
    BY <1>0, <1>1
<1>3. PICK n \in Bad : \A m \in Bad : n <= m
    BY <1>2, LeastOne
<1>4. PICK b \in SUBSET B : Cardinality(b) = n /\ Off(b)
    BY <1>3
<1>5. b # {}
    <2>1. SumFunctionOnSet(fun, {}) = 0
        BY FS_EmptySet, SumTakes
    <2>2. ASSUME b = {} PROVE FALSE
        <3>1. Total(A \cup b) = Total(A) /\ Total(b) = 0 /\ Total(A) \in Nat
            BY <1>0, <2>1, <2>2
        <3> QED
            BY <1>4, <3>1
    <2> QED
        BY <2>2
<1>6. PICK x, u : x = Pick(b) /\ u = b \ {x}
    OBVIOUS
<1>7. x \in b /\ u \in SUBSET B /\ Cardinality(u) = n - 1 /\ Cardinality(u) \in Nat
    BY <1>0, <1>4, <1>5, <1>6, PickLess
<1>8. ~Off(u)
    <2>1. Cardinality(u) \notin Bad
        BY <1>3, <1>7
    <2> HIDE DEF Off
    <2> QED
        BY <1>7, <2>1
<1>9. Total(b) = fun[x] + Total(u)
    BY <1>0, <1>4, <1>6, <1>7, SumWithout
<1>10. Total(A \cup b) = fun[x] + Total(A \cup u)
    <2>1. PICK w : w = A \cup b
        OBVIOUS
    <2>2. w \in SUBSET S /\ x \in w /\ w \ {x} = A \cup u
        BY <1>6, <1>7, <2>1
    <2>3. IsFiniteSet(w) /\ \A y \in w : fun[y] \in Nat
        BY <1>0, <2>2
    <2> QED
        BY <2>1, <2>2, <2>3, SumWithout
<1>11. fun[x] \in Nat /\ Total(A) \in Nat /\ Total(u) \in Nat
    BY <1>0, <1>7
<1> QED
    BY <1>4, <1>8, <1>9, <1>10, <1>11

\* The members of each kind summed up, and then the kinds, make the whole sum.
LEMMA SumOfGroups ==
    ASSUME NEW fun, NEW S, IsFiniteSet(S), \A x \in S : fun[x] \in Nat, NEW kind, NEW group,
           NEW K, K = {kind[x] : x \in S},
           \A k \in K : group[k] = SumFunctionOnSet(fun, {x \in S : kind[x] = k})
    PROVE  SumFunctionOnSet(group, K) = SumFunctionOnSet(fun, S)
<1> DEFINE Total(s) == SumFunctionOnSet(fun, s)
           Of(T) == {x \in S : kind[x] \in T}
           Off(T) == SumFunctionOnSet(group, T) # Total(Of(T))
           Bad == {n \in Nat : \E T \in SUBSET K : Cardinality(T) = n /\ Off(T)}
<1>0. \A s \in SUBSET S : IsFiniteSet(s) /\ Cardinality(s) \in Nat /\ Total(s) \in Nat
    BY FS_Subset, FS_CardinalityType, SumType
<1>1. IsFiniteSet(K) /\ \A T \in SUBSET K : IsFiniteSet(T) /\ Cardinality(T) \in Nat
    <2>1. IsFiniteSet(K)
        <3>1. PICK f : f = [x \in S |-> kind[x]]
            OBVIOUS
        <3>2. f \in Surjection(S, K)
            BY <3>1 DEF Surjection
        <3> QED
            BY <3>2, FS_Surjection
    <2> QED
        BY <2>1, FS_Subset, FS_CardinalityType
<1>2. \A k \in K : group[k] \in Nat
    <2>1. \A k : {x \in S : kind[x] = k} \in SUBSET S
        OBVIOUS
    <2> QED
        BY <1>0, <2>1
<1>3. Of(K) = S
    OBVIOUS
<1>4. SUFFICES ASSUME Off(K) PROVE FALSE
    BY <1>3
<1>5. Cardinality(K) \in Bad
    <2> HIDE DEF Off
    <2> QED
        BY <1>1, <1>4
<1>6. PICK n \in Bad : \A m \in Bad : n <= m
    BY <1>5, LeastOne
<1>7. PICK T \in SUBSET K : Cardinality(T) = n /\ Off(T)
    BY <1>6
<1>8. T # {}
    <2>1. SumFunctionOnSet(fun, {}) = 0 /\ SumFunctionOnSet(group, {}) = 0
        BY FS_EmptySet, SumTakes
    <2>2. Of({}) = {}
        OBVIOUS
    <2> QED
        BY <1>7, <2>1, <2>2
<1>9. PICK k, U : k = Pick(T) /\ U = T \ {k}
    OBVIOUS
<1>10. k \in T /\ U \in SUBSET K /\ Cardinality(U) = n - 1 /\ Cardinality(U) \in Nat
    BY <1>1, <1>7, <1>8, <1>9, PickLess
<1>11. ~Off(U)
    <2>1. Cardinality(U) \notin Bad
        BY <1>6, <1>10
    <2> HIDE DEF Off
    <2> QED
        BY <1>10, <2>1
<1>12. SumFunctionOnSet(group, T) = group[k] + SumFunctionOnSet(group, U)
    <2>1. IsFiniteSet(T) /\ \A y \in T : group[y] \in Nat
        BY <1>1, <1>2
    <2> QED
        BY <1>9, <1>10, <2>1, SumWithout
<1>13. PICK A, B : A = Of(U) /\ B = {x \in S : kind[x] = k}
    OBVIOUS
<1>14. A \in SUBSET S /\ B \in SUBSET S /\ A \cap B = {} /\ A \cup B = Of(T)
    BY <1>9, <1>10, <1>13
<1>15. Total(Of(T)) = Total(A) + Total(B)
    BY <1>14, SumUnion
<1>16. group[k] = Total(B) /\ Total(A) \in Nat /\ Total(B) \in Nat
    BY <1>0, <1>10, <1>13, <1>14
<1> QED
    BY <1>7, <1>11, <1>12, <1>13, <1>15, <1>16

\* A sum of ones is the number of members.
LEMMA SumOfOnes ==
    ASSUME NEW fun, NEW S, IsFiniteSet(S), \A x \in S : fun[x] = 1
    PROVE  SumFunctionOnSet(fun, S) = Cardinality(S)
<1> DEFINE Total(s) == SumFunctionOnSet(fun, s)
           Off(s) == Total(s) # Cardinality(s)
           Bad == {n \in Nat : \E s \in SUBSET S : Cardinality(s) = n /\ Off(s)}
<1>0. \A s \in SUBSET S : IsFiniteSet(s) /\ Cardinality(s) \in Nat
    BY FS_Subset, FS_CardinalityType
<1>1. SUFFICES ASSUME Off(S) PROVE FALSE
    OBVIOUS
<1>2. Cardinality(S) \in Bad
    BY <1>0, <1>1
<1>3. PICK n \in Bad : \A m \in Bad : n <= m
    BY <1>2, LeastOne
<1>4. PICK t \in SUBSET S : Cardinality(t) = n /\ Off(t)
    BY <1>3
<1>5. t # {}
    BY <1>0, <1>4, SumTakes, FS_EmptySet
<1>6. PICK u : u = t \ {Pick(t)}
    OBVIOUS
<1>7. u \in SUBSET S /\ Cardinality(u) = n - 1 /\ Cardinality(u) \in Nat /\ Pick(t) \in S
    BY <1>0, <1>4, <1>5, <1>6, PickLess
<1>8. ~Off(u)
    BY <1>3, <1>7
<1>9. Total(t) = fun[Pick(t)] + Total(u)
    BY <1>0, <1>5, <1>6, SumTakes
<1> QED
    BY <1>4, <1>7, <1>8, <1>9
=============================================================================
