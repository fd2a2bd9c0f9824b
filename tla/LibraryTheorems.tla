-------------------------- MODULE LibraryTheorems ---------------------------
(***************************************************************************)
(* Facts about operators of the library that the models use and the        *)
(* theorem modules of the prover do not mention: SumFunction, the sum of   *)
(* the values of a function, and a sequence that loses one of its elements. *)
(*                                                                         *)
(* A sum is defined by recursion over the subsets of the domain.  What is  *)
(* said of all of them is proved by induction over a set of numbers, their *)
(* sizes: the induction theorems of the library take an operator, which    *)
(* the provers cannot instantiate, but a set does as well.                 *)
(***************************************************************************)
EXTENDS Functions, FiniteSetTheorems, WellFoundedInduction, SequenceTheorems, TLAPS

-----------------------------------------------------------------------------
(* Induction.                                                                *)

\* Induction, over a set of numbers.
LEMMA NumbersByInduction ==
    ASSUME NEW T, 0 \in T, \A n \in T \cap Nat : n + 1 \in T
    PROVE  Nat \subseteq T
<1>. DEFINE R == {ss \in Nat \X Nat : ss[1] < ss[2]}
            B == Nat \ T
<1>. SUFFICES ASSUME B # {} PROVE FALSE
    OBVIOUS
<1>1. IsWellFoundedOn(R, Nat)
    BY NatLessThanWellFounded DEF OpToRel
<1>2. PICK n \in B : \A k \in B : <<k, n>> \notin R
    <2>1. B \subseteq Nat /\ B # {}
        OBVIOUS
    <2>. HIDE DEF B, R
    <2>. QED  BY <1>1, <2>1, WFMin, Zenon
<1>3. n # 0 /\ n \in Nat
    OBVIOUS
<1>4. n - 1 \in Nat /\ n - 1 < n
    BY <1>3
<1>5. n - 1 \in T
    BY <1>2, <1>4
<1>6. (n - 1) + 1 = n /\ n - 1 \in T \cap Nat
    BY <1>3, <1>4, <1>5
<1>7. (n - 1) + 1 \in T
    BY <1>6
<1>. QED  BY <1>6, <1>7

\* Induction, over the subsets of a finite set by their size.
LEMMA SubsetsByInduction ==
    ASSUME NEW S, IsFiniteSet(S), NEW T, {} \in T,
           \A s \in SUBSET S : s # {} /\ (\A x \in s : s \ {x} \in T) => s \in T
    PROVE  SUBSET S \subseteq T
<1>. DEFINE U == {n \in Nat : \A s \in SUBSET S : Cardinality(s) = n => s \in T}
<1>1. \A s \in SUBSET S : IsFiniteSet(s) /\ Cardinality(s) \in Nat
    BY FS_Subset, FS_CardinalityType
<1>2. 0 \in U
    BY <1>1, FS_EmptySet
<1>3. ASSUME NEW n \in U \cap Nat PROVE n + 1 \in U
    <2>. SUFFICES ASSUME NEW s \in SUBSET S, Cardinality(s) = n + 1 PROVE s \in T
        OBVIOUS
    <2>1. s # {}
        BY FS_EmptySet
    <2>2. ASSUME NEW x \in s PROVE s \ {x} \in T
        <3>1. Cardinality(s \ {x}) = n
            BY <1>1, FS_RemoveElement
        <3>. QED  BY <3>1
    <2>. QED  BY <2>1, <2>2
<1>4. Nat \subseteq U
    <2>. HIDE DEF U
    <2>. QED  BY <1>2, <1>3, NumbersByInduction
<1>. QED  BY <1>1, <1>4

-----------------------------------------------------------------------------
(* The recursive function a sum is the value of.                            *)

\* The element the definition of SumFunction takes first.
First(s) == CHOOSE x \in s : TRUE

\* g gives each of the sets D the sum of f over it.
IsSum(g, f, D) ==
    g = [s \in D |-> IF s = {} THEN 0 ELSE f[First(s)] + g[s \ {First(s)}]]

\* The element the sum takes first is one of the set.
LEMMA FirstIsIn ==
    ASSUME NEW s, s # {}
    PROVE  First(s) \in s
BY DEF First

\* Such a function exists for the subsets of a finite set.
LEMMA SumExists ==
    ASSUME NEW S, IsFiniteSet(S), NEW f
    PROVE  \E g : IsSum(g, f, SUBSET S)
<1>. DEFINE D(n) == {s \in SUBSET S : Cardinality(s) <= n}
            U == {n \in Nat : \E g : IsSum(g, f, D(n))}
<1>1. \A s \in SUBSET S : IsFiniteSet(s) /\ Cardinality(s) \in Nat
    BY FS_Subset, FS_CardinalityType
<1>2. 0 \in U
    <2>. DEFINE g == [s \in D(0) |-> 0]
    <2>1. \A s \in D(0) : s = {}
        BY <1>1, FS_EmptySet
    <2>2. g = [s \in D(0) |-> IF s = {} THEN 0 ELSE f[First(s)] + g[s \ {First(s)}]]
        BY <2>1
    <2>3. IsSum(g, f, D(0))
        BY <2>2 DEF IsSum
    <2>. QED  BY <2>3
<1>3. ASSUME NEW n \in U \cap Nat PROVE n + 1 \in U
    <2>1. PICK g : IsSum(g, f, D(n))
        OBVIOUS
    <2>. DEFINE h == [s \in D(n + 1) |->
                       IF s = {} THEN 0 ELSE f[First(s)] + g[s \ {First(s)}]]
    <2>2. \A s \in D(n + 1) : s # {} => s \ {First(s)} \in D(n)
        <3>1. TAKE s \in D(n + 1)
        <3>2. HAVE s # {}
        <3>3. Cardinality(s \ {First(s)}) = Cardinality(s) - 1
            BY <1>1, <3>2, FirstIsIn, FS_RemoveElement
        <3>. QED  BY <1>1, <3>3
    <2>3. \A s \in D(n) : s \in D(n + 1) /\ h[s] = g[s]
        <3>1. \A s \in D(n) : s \in D(n + 1)
            BY <1>1
        <3>2. \A s \in D(n) : g[s] = IF s = {} THEN 0 ELSE f[First(s)] + g[s \ {First(s)}]
            BY <2>1, Zenon DEF IsSum
        <3>3. \A s \in D(n + 1) : h[s] = IF s = {} THEN 0 ELSE f[First(s)] + g[s \ {First(s)}]
            OBVIOUS
        <3>. HIDE DEF D, h
        <3>. QED  BY <3>1, <3>2, <3>3
    <2>4. h = [s \in D(n + 1) |-> IF s = {} THEN 0 ELSE f[First(s)] + h[s \ {First(s)}]]
        <3>1. \A s \in D(n + 1) : s # {} => g[s \ {First(s)}] = h[s \ {First(s)}]
            BY <2>2, <2>3
        <3>. QED  BY <3>1
    <2>5. IsSum(h, f, D(n + 1))
        BY <2>4 DEF IsSum
    <2>. HIDE DEF D, h
    <2>. QED  BY <2>5
<1>4. Nat \subseteq U
    <2>. HIDE DEF U
    <2>. QED  BY <1>2, <1>3, NumbersByInduction
<1>5. PICK g : IsSum(g, f, D(Cardinality(S)))
    BY <1>1, <1>4
<1>6. D(Cardinality(S)) = SUBSET S
    BY <1>1, FS_Subset
<1>. QED  BY <1>5, <1>6

\* What the recursive function is worth.
LEMMA SumUnfolds ==
    ASSUME NEW g, NEW f, NEW D, IsSum(g, f, D)
    PROVE  \A s \in D : /\ s = {} => g[s] = 0
                       /\ s # {} => g[s] = f[First(s)] + g[s \ {First(s)}]
<1>1. \A s \in D : g[s] = IF s = {} THEN 0 ELSE f[First(s)] + g[s \ {First(s)}]
    BY Zenon DEF IsSum
<1>. QED  BY <1>1, Zenon

\* Nothing adds up to 0.
LEMMA SumOfEmpty ==
    ASSUME NEW g, NEW f, NEW D, IsSum(g, f, D), NEW s \in D, s = {}
    PROVE  g[s] = 0
<1>1. g[s] = IF s = {} THEN 0 ELSE f[First(s)] + g[s \ {First(s)}]
    BY Zenon DEF IsSum
<1>. QED  BY <1>1

\* Integers add up to an integer.
LEMMA SumType ==
    ASSUME NEW S, IsFiniteSet(S), NEW f, \A x \in S : f[x] \in Int,
           NEW g, IsSum(g, f, SUBSET S)
    PROVE  \A s \in SUBSET S : g[s] \in Int
<1>. DEFINE T == {s \in SUBSET S : g[s] \in Int}
<1>1. \A s \in SUBSET S : /\ s = {} => g[s] = 0
                         /\ s # {} => g[s] = f[First(s)] + g[s \ {First(s)}]
    BY SumUnfolds, Zenon
<1>2. {} \in T
    <2>1. {} \in SUBSET S
        OBVIOUS
    <2>2. g[{}] = 0
        BY <2>1, SumOfEmpty
    <2>. QED  BY <2>1, <2>2
<1>3. ASSUME NEW s \in SUBSET S, s # {}, \A x \in s : s \ {x} \in T
      PROVE  s \in T
    <2>1. First(s) \in S /\ g[s \ {First(s)}] \in Int
        BY <1>3, FirstIsIn
    <2>2. g[s] = f[First(s)] + g[s \ {First(s)}] /\ f[First(s)] \in Int
        BY <1>1, <1>3, <2>1
    <2>3. g[s] \in Int
        BY <2>1, <2>2
    <2>. QED  BY <2>3
<1>. HIDE DEF T
<1>4. SUBSET S \subseteq T
    BY <1>2, <1>3, SubsetsByInduction
<1>. QED  BY <1>4 DEF T

\* The order in which the elements are taken does not matter.
LEMMA SumOfAny ==
    ASSUME NEW S, IsFiniteSet(S), NEW f, \A x \in S : f[x] \in Int,
           NEW g, IsSum(g, f, SUBSET S), NEW u \in SUBSET S, NEW a \in u
    PROVE  g[u] = f[a] + g[u \ {a}]
<1>. DEFINE T == {s \in SUBSET S : \A x \in s : g[s] = f[x] + g[s \ {x}]}
<1>1. \A s \in SUBSET S : /\ s = {} => g[s] = 0
                         /\ s # {} => g[s] = f[First(s)] + g[s \ {First(s)}]
    BY SumUnfolds, Zenon
<1>2. {} \in T
    OBVIOUS
<1>3. ASSUME NEW s \in SUBSET S, s # {}, \A x \in s : s \ {x} \in T
      PROVE  s \in T
    <2>. SUFFICES ASSUME NEW x \in s PROVE g[s] = f[x] + g[s \ {x}]
        OBVIOUS
    <2>. DEFINE c == First(s)  t == s \ {c, x}
    <2>1. c \in s /\ g[s] = f[c] + g[s \ {c}]
        BY <1>1, <1>3, FirstIsIn
    <2>2. CASE c = x
        BY <2>1, <2>2
    <2>3. CASE c # x
        <3>1. s \ {c} \in T /\ x \in s \ {c} /\ s \ {x} \in T /\ c \in s \ {x}
            BY <1>3, <2>1, <2>3
        <3>2. (s \ {c}) \ {x} = t /\ (s \ {x}) \ {c} = t
            OBVIOUS
        <3>3. g[s \ {c}] = f[x] + g[t] /\ g[s \ {x}] = f[c] + g[t]
            BY <3>1, <3>2
        <3>4. f[c] \in Int /\ f[x] \in Int /\ g[t] \in Int
            BY <2>1, SumType
        <3>. HIDE DEF c, t
        <3>. QED  BY <2>1, <3>3, <3>4
    <2>. QED  BY <2>2, <2>3
<1>. HIDE DEF T
<1>4. SUBSET S \subseteq T
    BY <1>2, <1>3, SubsetsByInduction
<1>. QED  BY <1>4 DEF T

\* Two functions that agree on a set have one sum over it.
LEMMA SumAgrees ==
    ASSUME NEW S, IsFiniteSet(S), NEW f, NEW h, \A x \in S : f[x] = h[x],
           NEW D, SUBSET S \subseteq D, NEW E, SUBSET S \subseteq E,
           NEW g, IsSum(g, f, D), NEW k, IsSum(k, h, E)
    PROVE  g[S] = k[S]
<1>. DEFINE T == {s \in SUBSET S : g[s] = k[s]}
<1>1. {} \in T
    <2>1. {} \in SUBSET S
        OBVIOUS
    <2>2. {} \in D /\ {} \in E
        BY <2>1, Zenon
    <2>3. g[{}] = 0
        BY <2>2, SumOfEmpty
    <2>4. k[{}] = 0
        BY <2>2, SumOfEmpty
    <2>. QED  BY <2>1, <2>3, <2>4
<1>2. ASSUME NEW s \in SUBSET S, s # {}, \A x \in s : s \ {x} \in T
      PROVE  s \in T
    <2>1. First(s) \in s /\ g[s \ {First(s)}] = k[s \ {First(s)}]
        BY <1>2, FirstIsIn
    <2>2. /\ g[s] = f[First(s)] + g[s \ {First(s)}]
          /\ k[s] = h[First(s)] + k[s \ {First(s)}]
        BY <1>2, SumUnfolds
    <2>. QED  BY <2>1, <2>2
<1>. HIDE DEF T
<1>3. SUBSET S \subseteq T
    BY <1>1, <1>2, SubsetsByInduction
<1>. QED  BY <1>3 DEF T

-----------------------------------------------------------------------------
(* The sum of a function.                                                   *)

\* The value of SumFunction is that of such a function.
LEMMA SumIsSum ==
    ASSUME NEW f, IsFiniteSet(DOMAIN f)
    PROVE  \E g : IsSum(g, f, SUBSET DOMAIN f) /\ SumFunction(f) = g[DOMAIN f]
<1>. DEFINE g == CHOOSE h : IsSum(h, f, SUBSET DOMAIN f)
<1>1. IsSum(g, f, SUBSET DOMAIN f)
    BY SumExists
<1>2. SumFunction(f) = g[DOMAIN f]
    BY DEF SumFunction, SumFunctionOnSet, FoldFunctionOnSet, MapThenFoldSet, IsSum, First
<1>. QED  BY <1>1, <1>2

\* The sum of a function that is defined nowhere is 0.
LEMMA SumOfNone ==
    ASSUME NEW f, DOMAIN f = {}
    PROVE  SumFunction(f) = 0
<1>1. IsFiniteSet(DOMAIN f)
    BY FS_EmptySet
<1>2. PICK g : IsSum(g, f, SUBSET DOMAIN f) /\ SumFunction(f) = g[DOMAIN f]
    BY <1>1, SumIsSum
<1>3. {} \in SUBSET DOMAIN f
    OBVIOUS
<1>4. g[{}] = 0
    BY <1>2, <1>3, SumOfEmpty
<1>. QED  BY <1>2, <1>4

\* A sum of integers is one; of natural numbers too, see below.
LEMMA SumIsInt ==
    ASSUME NEW f, IsFiniteSet(DOMAIN f), \A x \in DOMAIN f : f[x] \in Int
    PROVE  SumFunction(f) \in Int
<1>1. PICK g : IsSum(g, f, SUBSET DOMAIN f) /\ SumFunction(f) = g[DOMAIN f]
    BY SumIsSum
<1>2. DOMAIN f \in SUBSET DOMAIN f
    OBVIOUS
<1>3. g[DOMAIN f] \in Int
    BY <1>1, <1>2, SumType, Zenon
<1>. QED  BY <1>1, <1>3

\* What one element adds.
LEMMA SumWithout ==
    ASSUME NEW f, IsFiniteSet(DOMAIN f), \A x \in DOMAIN f : f[x] \in Int,
           NEW a \in DOMAIN f, NEW h, DOMAIN h = DOMAIN f \ {a},
           \A x \in DOMAIN h : h[x] = f[x]
    PROVE  SumFunction(f) = f[a] + SumFunction(h)
<1>1. PICK g : IsSum(g, f, SUBSET DOMAIN f) /\ SumFunction(f) = g[DOMAIN f]
    BY SumIsSum
<1>2. IsFiniteSet(DOMAIN h)
    BY FS_Subset
<1>3. PICK k : IsSum(k, h, SUBSET DOMAIN h) /\ SumFunction(h) = k[DOMAIN h]
    BY <1>2, SumIsSum
<1>4. DOMAIN f \in SUBSET DOMAIN f /\ SUBSET DOMAIN h \subseteq SUBSET DOMAIN f
    OBVIOUS
<1>5. g[DOMAIN f] = f[a] + g[DOMAIN f \ {a}]
    <2>. DEFINE S == DOMAIN f
    <2>1. S \in SUBSET S
        OBVIOUS
    <2>. HIDE DEF S
    <2>2. IsFiniteSet(S) /\ (\A x \in S : f[x] \in Int) /\ IsSum(g, f, SUBSET S) /\ a \in S
        BY <1>1 DEF S
    <2>3. g[S] = f[a] + g[S \ {a}]
        BY <2>1, <2>2, SumOfAny
    <2>. QED  BY <2>3 DEF S
<1>6. g[DOMAIN h] = k[DOMAIN h]
    <2>. DEFINE S == DOMAIN h  D == SUBSET DOMAIN f  E == SUBSET S
    <2>1. \A x \in S : f[x] = h[x]
        OBVIOUS
    <2>2. SUBSET S \subseteq D /\ SUBSET S \subseteq E
        BY <1>4
    <2>. HIDE DEF S, D, E
    <2>3. IsFiniteSet(S) /\ IsSum(g, f, D) /\ IsSum(k, h, E)
        BY <1>1, <1>2, <1>3 DEF S, D, E
    <2>4. g[S] = k[S]
        BY <2>1, <2>2, <2>3, SumAgrees
    <2>. QED  BY <2>4 DEF S
<1>. QED  BY <1>1, <1>3, <1>5, <1>6

\* Two functions that agree have one sum.
LEMMA SumSame ==
    ASSUME NEW f, IsFiniteSet(DOMAIN f), NEW h, DOMAIN h = DOMAIN f,
           \A x \in DOMAIN f : f[x] = h[x]
    PROVE  SumFunction(f) = SumFunction(h)
<1>1. PICK g : IsSum(g, f, SUBSET DOMAIN f) /\ SumFunction(f) = g[DOMAIN f]
    BY SumIsSum
<1>2. PICK k : IsSum(k, h, SUBSET DOMAIN h) /\ SumFunction(h) = k[DOMAIN h]
    BY SumIsSum
<1>. DEFINE S == DOMAIN f  D == SUBSET DOMAIN f
<1>3. SUBSET S \subseteq D /\ \A x \in S : f[x] = h[x]
    OBVIOUS
<1>. HIDE DEF S, D
<1>4. IsFiniteSet(S) /\ IsSum(g, f, D) /\ IsSum(k, h, D)
    BY <1>1, <1>2 DEF S, D
<1>5. g[S] = k[S]
    BY <1>3, <1>4, SumAgrees
<1>. QED  BY <1>1, <1>2, <1>5 DEF S

-----------------------------------------------------------------------------
(* How sums change.                                                         *)

\* What a part of a function is.
LEMMA PartIsFunction ==
    ASSUME NEW f, NEW S
    PROVE  DOMAIN Restrict(f, S) = S /\ \A x \in S : Restrict(f, S)[x] = f[x]
BY DEF Restrict

\* All of a function has its sum.
LEMMA PartOfAll ==
    ASSUME NEW f, IsFiniteSet(DOMAIN f)
    PROVE  SumFunction(f) = SumFunction(Restrict(f, DOMAIN f))
BY PartIsFunction, SumSame

\* A part of a function less one element.
LEMMA PartWithout ==
    ASSUME NEW f, NEW S, IsFiniteSet(S), \A x \in S : f[x] \in Int, NEW a \in S
    PROVE  SumFunction(Restrict(f, S)) = f[a] + SumFunction(Restrict(f, S \ {a}))
<1>. DEFINE p == Restrict(f, S)  h == Restrict(f, S \ {a})
<1>1. DOMAIN p = S /\ DOMAIN h = S \ {a} /\ p[a] = f[a]
    BY PartIsFunction
<1>2. (\A x \in S : p[x] \in Int) /\ \A x \in S \ {a} : h[x] = p[x]
    BY PartIsFunction
<1>. HIDE DEF p, h
<1>3. SumFunction(p) = p[a] + SumFunction(h)
    BY <1>1, <1>2, SumWithout
<1>. QED  BY <1>1, <1>3 DEF p, h

\* Integers add up to an integer, over a part of a function.
LEMMA PartIsInt ==
    ASSUME NEW f, NEW S, IsFiniteSet(S), \A x \in S : f[x] \in Int
    PROVE  SumFunction(Restrict(f, S)) \in Int
BY PartIsFunction, SumIsInt

\* A sum of natural numbers is one, and none of them is above it.
LEMMA SumOfNaturals ==
    ASSUME NEW f, IsFiniteSet(DOMAIN f), \A x \in DOMAIN f : f[x] \in Nat
    PROVE  /\ SumFunction(f) \in Nat
           /\ \A x \in DOMAIN f : f[x] <= SumFunction(f)
<1>. DEFINE S == DOMAIN f
            T == {s \in SUBSET S : SumFunction(Restrict(f, s)) \in Nat}
<1>1. \A s \in SUBSET S : IsFiniteSet(s) /\ \A x \in s : f[x] \in Int
    BY FS_Subset
<1>2. IsFiniteSet(S)
    OBVIOUS
<1>3. {} \in T
    <2>1. SumFunction(Restrict(f, {})) = 0 /\ {} \in SUBSET S
        BY PartIsFunction, SumOfNone
    <2>. QED  BY <2>1
<1>4. ASSUME NEW s \in SUBSET S, s # {}, \A x \in s : s \ {x} \in T
      PROVE  s \in T
    <2>1. PICK a \in s : TRUE
        BY <1>4
    <2>2. f[a] \in Nat /\ SumFunction(Restrict(f, s \ {a})) \in Nat
        BY <1>4
    <2>3. SumFunction(Restrict(f, s)) = f[a] + SumFunction(Restrict(f, s \ {a}))
        BY <1>1, PartWithout
    <2>4. SumFunction(Restrict(f, s)) \in Nat
        BY <2>2, <2>3
    <2>. QED  BY <2>4
<1>5. SUBSET S \subseteq T
    <2>. HIDE DEF S, T
    <2>. QED  BY <1>2, <1>3, <1>4, SubsetsByInduction
<1>6. \A s \in SUBSET S : SumFunction(Restrict(f, s)) \in Nat
    BY <1>5 DEF T
<1>7. SumFunction(f) = SumFunction(Restrict(f, S))
    BY PartOfAll
<1>8. ASSUME NEW a \in S PROVE f[a] <= SumFunction(f)
    <2>1. SumFunction(Restrict(f, S)) = f[a] + SumFunction(Restrict(f, S \ {a}))
        BY <1>1, PartWithout
    <2>2. SumFunction(Restrict(f, S \ {a})) \in Nat /\ f[a] \in Nat
        BY <1>6
    <2>. QED  BY <1>7, <2>1, <2>2
<1>. QED  BY <1>6, <1>7, <1>8

\* One value changes.
LEMMA SumChanges ==
    ASSUME NEW f, IsFiniteSet(DOMAIN f), \A x \in DOMAIN f : f[x] \in Int,
           NEW a \in DOMAIN f, NEW h, DOMAIN h = DOMAIN f, h[a] \in Int,
           \A x \in DOMAIN f \ {a} : h[x] = f[x]
    PROVE  SumFunction(h) = SumFunction(f) - f[a] + h[a]
<1>. DEFINE r == Restrict(f, DOMAIN f \ {a})
<1>1. /\ DOMAIN r = DOMAIN f \ {a} /\ DOMAIN r = DOMAIN h \ {a}
      /\ \A x \in DOMAIN r : r[x] = f[x] /\ r[x] = h[x]
    BY PartIsFunction
<1>2. (\A x \in DOMAIN h : h[x] \in Int) /\ a \in DOMAIN h /\ IsFiniteSet(DOMAIN h)
    OBVIOUS
<1>. HIDE DEF r
<1>3. SumFunction(f) = f[a] + SumFunction(r)
    BY <1>1, SumWithout
<1>4. SumFunction(h) = h[a] + SumFunction(r)
    BY <1>1, <1>2, SumWithout
<1>5. SumFunction(r) \in Int
    <2>1. IsFiniteSet(DOMAIN r) /\ \A x \in DOMAIN r : r[x] \in Int
        BY <1>1, FS_Subset
    <2>. QED  BY <2>1, SumIsInt
<1>. QED  BY <1>3, <1>4, <1>5

\* A sum in two parts.
LEMMA SumOfParts ==
    ASSUME NEW f, NEW S, IsFiniteSet(S), \A x \in S : f[x] \in Int,
           NEW U \in SUBSET S
    PROVE  SumFunction(Restrict(f, S)) = SumFunction(Restrict(f, U)) + SumFunction(Restrict(f, S \ U))
<1>. DEFINE sum(s) == SumFunction(Restrict(f, s))
            T == {s \in SUBSET S : sum(S) = sum(s) + sum(S \ s)}
<1>1. \A s \in SUBSET S : IsFiniteSet(s) /\ sum(s) \in Int
    BY FS_Subset, PartIsInt
<1>2. {} \in T
    <2>1. sum({}) = 0 /\ {} \in SUBSET S /\ S \ {} = S
        BY PartIsFunction, SumOfNone
    <2>2. sum(S) = sum({}) + sum(S \ {})
        BY <1>1, <2>1
    <2>. QED  BY <2>1, <2>2
<1>3. ASSUME NEW s \in SUBSET S, s # {}, \A x \in s : s \ {x} \in T
      PROVE  s \in T
    <2>1. PICK a \in s : TRUE
        BY <1>3
    <2>. DEFINE r == S \ (s \ {a})
    <2>2. sum(S) = sum(s \ {a}) + sum(r)
        BY <1>3
    <2>3. sum(s) = f[a] + sum(s \ {a})
        BY <1>1, PartWithout
    <2>4. sum(r) = f[a] + sum(S \ s)
        <3>1. r \in SUBSET S /\ a \in r /\ r \ {a} = S \ s
            OBVIOUS
        <3>. HIDE DEF r
        <3>. QED  BY <1>1, <3>1, PartWithout
    <2>5. /\ sum(s \ {a}) \in Int /\ sum(S \ s) \in Int /\ f[a] \in Int
          /\ sum(S) \in Int /\ sum(s) \in Int
        BY <1>1
    <2>. HIDE DEF sum, r
    <2>6. sum(S) = sum(s) + sum(S \ s)
        BY <2>2, <2>3, <2>4, <2>5
    <2>. QED  BY <2>6
<1>. HIDE DEF T
<1>4. SUBSET S \subseteq T
    BY <1>2, <1>3, SubsetsByInduction
<1>. QED  BY <1>4 DEF T

\* A sum of zeros.
LEMMA SumOfZeros ==
    ASSUME NEW f, IsFiniteSet(DOMAIN f), \A x \in DOMAIN f : f[x] = 0
    PROVE  SumFunction(f) = 0
<1>. DEFINE S == DOMAIN f
            T == {s \in SUBSET S : SumFunction(Restrict(f, s)) = 0}
<1>1. \A s \in SUBSET S : IsFiniteSet(s) /\ \A x \in s : f[x] \in Int
    BY FS_Subset
<1>2. {} \in T
    BY PartIsFunction, SumOfNone
<1>3. ASSUME NEW s \in SUBSET S, s # {}, \A x \in s : s \ {x} \in T
      PROVE  s \in T
    <2>1. PICK a \in s : TRUE
        BY <1>3
    <2>2. SumFunction(Restrict(f, s)) = f[a] + SumFunction(Restrict(f, s \ {a}))
        <3>1. IsFiniteSet(s) /\ \A x \in s : f[x] \in Int
            BY <1>1
        <3>. HIDE DEF S, T
        <3>. QED  BY <2>1, <3>1, PartWithout
    <2>3. f[a] = 0 /\ SumFunction(Restrict(f, s \ {a})) = 0
        BY <1>3, <2>1
    <2>. QED  BY <2>2, <2>3
<1>4. SUBSET S \subseteq T
    <2>1. /\ IsFiniteSet(S) /\ {} \in T
          /\ \A s \in SUBSET S : s # {} /\ (\A x \in s : s \ {x} \in T) => s \in T
        BY <1>1, <1>2, <1>3
    <2>. HIDE DEF S, T
    <2>. QED  BY <2>1, SubsetsByInduction
<1>5. SumFunction(Restrict(f, S)) = 0
    BY <1>4
<1>. QED  BY <1>5, PartOfAll

\* A sum is that of the part where not all is zero.
LEMMA SumOfRest ==
    ASSUME NEW f, IsFiniteSet(DOMAIN f), \A x \in DOMAIN f : f[x] \in Int,
           NEW U \in SUBSET DOMAIN f, \A x \in DOMAIN f \ U : f[x] = 0
    PROVE  SumFunction(f) = SumFunction(Restrict(f, U))
<1>. DEFINE R == DOMAIN f \ U
<1>1. IsFiniteSet(R) /\ IsFiniteSet(U)
    BY FS_Subset
<1>2. SumFunction(Restrict(f, R)) = 0
    <2>1. DOMAIN Restrict(f, R) = R /\ \A x \in R : Restrict(f, R)[x] = 0
        BY PartIsFunction
    <2>. HIDE DEF R
    <2>. QED  BY <1>1, <2>1, SumOfZeros
<1>3. SumFunction(f) = SumFunction(Restrict(f, U)) + SumFunction(Restrict(f, R))
    BY PartOfAll, SumOfParts
<1>4. SumFunction(Restrict(f, U)) \in Int
    BY <1>1, PartIsInt
<1>. QED  BY <1>2, <1>3, <1>4

\* The sum of what is added to each value.
LEMMA SumOfIncrease ==
    ASSUME NEW f, IsFiniteSet(DOMAIN f), \A x \in DOMAIN f : f[x] \in Int,
           NEW d, DOMAIN d = DOMAIN f, \A x \in DOMAIN f : d[x] \in Int,
           NEW h, DOMAIN h = DOMAIN f, \A x \in DOMAIN f : h[x] = f[x] + d[x]
    PROVE  SumFunction(h) = SumFunction(f) + SumFunction(d)
<1>. DEFINE S == DOMAIN f
            F(s) == SumFunction(Restrict(f, s))
            D(s) == SumFunction(Restrict(d, s))
            H(s) == SumFunction(Restrict(h, s))
            T == {s \in SUBSET S : H(s) = F(s) + D(s)}
<1>1. \A s \in SUBSET S : IsFiniteSet(s)
    BY FS_Subset
<1>2. \A x \in S : f[x] \in Int /\ d[x] \in Int /\ h[x] \in Int
    OBVIOUS
<1>3. \A s \in SUBSET S : F(s) \in Int /\ D(s) \in Int /\ H(s) \in Int
    BY <1>1, <1>2, PartIsInt
<1>4. {} \in T
    <2>1. F({}) = 0 /\ D({}) = 0 /\ H({}) = 0
        BY PartIsFunction, SumOfNone
    <2>2. H({}) = F({}) + D({})
        BY <2>1
    <2>. HIDE DEF F, D, H
    <2>. QED  BY <2>2
<1>5. ASSUME NEW s \in SUBSET S, s # {}, \A x \in s : s \ {x} \in T
      PROVE  s \in T
    <2>1. PICK a \in s : TRUE
        BY <1>5
    <2>2. /\ F(s) = f[a] + F(s \ {a}) /\ D(s) = d[a] + D(s \ {a})
          /\ H(s) = h[a] + H(s \ {a})
        <3>1. IsFiniteSet(s) /\ a \in s
            BY <1>1
        <3>2. \A x \in s : f[x] \in Int /\ d[x] \in Int /\ h[x] \in Int
            BY <1>2
        <3>. HIDE DEF S, T
        <3>. QED  BY <3>1, <3>2, PartWithout
    <2>3. H(s \ {a}) = F(s \ {a}) + D(s \ {a})
        BY <1>5
    <2>4. /\ f[a] \in Int /\ d[a] \in Int /\ h[a] = f[a] + d[a]
          /\ F(s \ {a}) \in Int /\ D(s \ {a}) \in Int
        BY <1>2, <1>3
    <2>. HIDE DEF F, D, H
    <2>5. H(s) = F(s) + D(s)
        BY <2>2, <2>3, <2>4
    <2>. QED  BY <2>5
<1>6. SUBSET S \subseteq T
    <2>. HIDE DEF S, T
    <2>. QED  BY <1>1, <1>4, <1>5, SubsetsByInduction
<1>7. H(S) = F(S) + D(S)
    BY <1>6
<1>8. SumFunction(f) = F(S) /\ SumFunction(d) = D(S) /\ SumFunction(h) = H(S)
    BY PartOfAll
<1>. QED  BY <1>7, <1>8

\* A sum of ones and zeros counts the ones.
LEMMA SumCounts ==
    ASSUME NEW f, IsFiniteSet(DOMAIN f), \A x \in DOMAIN f : f[x] \in {0, 1}
    PROVE  SumFunction(f) = Cardinality({x \in DOMAIN f : f[x] = 1})
<1>. DEFINE S == DOMAIN f
            Ones(s) == {x \in s : f[x] = 1}
            T == {s \in SUBSET S : SumFunction(Restrict(f, s)) = Cardinality(Ones(s))}
<1>1. \A s \in SUBSET S : IsFiniteSet(s) /\ IsFiniteSet(Ones(s)) /\ \A x \in s : f[x] \in Int
    BY FS_Subset
<1>2. {} \in T
    <2>1. Ones({}) = {} /\ {} \in SUBSET S
        OBVIOUS
    <2>2. SumFunction(Restrict(f, {})) = 0
        BY PartIsFunction, SumOfNone
    <2>. QED  BY <2>1, <2>2, FS_EmptySet
<1>3. ASSUME NEW s \in SUBSET S, s # {}, \A x \in s : s \ {x} \in T
      PROVE  s \in T
    <2>1. PICK a \in s : TRUE
        BY <1>3
    <2>2. SumFunction(Restrict(f, s)) = f[a] + SumFunction(Restrict(f, s \ {a}))
        <3>1. IsFiniteSet(s) /\ \A x \in s : f[x] \in Int
            BY <1>1
        <3>. HIDE DEF S, T
        <3>. QED  BY <2>1, <3>1, PartWithout
    <2>3. SumFunction(Restrict(f, s \ {a})) = Cardinality(Ones(s \ {a}))
        BY <1>3
    <2>4. f[a] + Cardinality(Ones(s \ {a})) = Cardinality(Ones(s))
        <3>1. CASE f[a] = 1
            <4>1. Ones(s \ {a}) = Ones(s) \ {a} /\ a \in Ones(s)
                BY <3>1
            <4>2. /\ Cardinality(Ones(s) \ {a}) = Cardinality(Ones(s)) - 1
                  /\ Cardinality(Ones(s)) \in Nat
                BY <1>1, <4>1, FS_RemoveElement, FS_CardinalityType
            <4>. HIDE DEF Ones
            <4>. QED  BY <3>1, <4>1, <4>2
        <3>2. CASE f[a] = 0
            <4>1. Ones(s \ {a}) = Ones(s)
                BY <3>2
            <4>2. Cardinality(Ones(s)) \in Nat
                BY <1>1, FS_CardinalityType
            <4>. HIDE DEF Ones
            <4>. QED  BY <3>2, <4>1, <4>2
        <3>. QED  BY <3>1, <3>2
    <2>. QED  BY <2>2, <2>3, <2>4
<1>4. SUBSET S \subseteq T
    <2>. HIDE DEF S, T
    <2>. QED  BY <1>1, <1>2, <1>3, SubsetsByInduction
<1>5. SumFunction(Restrict(f, S)) = Cardinality(Ones(S))
    BY <1>4
<1>. QED  BY <1>5, PartOfAll

-----------------------------------------------------------------------------
(* Sequences.                                                                *)

\* A sequence without one of its elements.
LEMMA RemovedAt ==
    ASSUME NEW S, NEW s \in Seq(S), NEW i \in 1 .. Len(s)
    PROVE  /\ SubSeq(s, 1, i - 1) \o SubSeq(s, i + 1, Len(s)) \in Seq(S)
           /\ Len(SubSeq(s, 1, i - 1) \o SubSeq(s, i + 1, Len(s))) = Len(s) - 1
           /\ \A j \in 1 .. Len(s) - 1 :
                 (SubSeq(s, 1, i - 1) \o SubSeq(s, i + 1, Len(s)))[j] =
                     IF j < i THEN s[j] ELSE s[j + 1]
<1>. DEFINE u == SubSeq(s, 1, i - 1)  v == SubSeq(s, i + 1, Len(s))
<1>1. u \in Seq(S) /\ Len(u) = i - 1 /\ \A j \in 1 .. i - 1 : u[j] = s[j]
    OBVIOUS
<1>2. v \in Seq(S) /\ Len(v) = Len(s) - i /\ \A j \in 1 .. Len(s) - i : v[j] = s[i + j]
    OBVIOUS
<1>. HIDE DEF u, v
<1>3. /\ u \o v \in Seq(S) /\ Len(u \o v) = Len(s) - 1
      /\ \A j \in 1 .. Len(s) - 1 :
            (u \o v)[j] = IF j <= i - 1 THEN u[j] ELSE v[j - (i - 1)]
    <2>1. /\ u \o v \in Seq(S) /\ Len(u \o v) = Len(u) + Len(v)
          /\ \A j \in 1 .. Len(u) + Len(v) :
                (u \o v)[j] = IF j <= Len(u) THEN u[j] ELSE v[j - Len(u)]
        BY <1>1, <1>2, ConcatProperties
    <2>2. Len(u) = i - 1 /\ Len(u) + Len(v) = Len(s) - 1
        BY <1>1, <1>2
    <2>. QED  BY <2>1, <2>2
<1>4. ASSUME NEW j \in 1 .. Len(s) - 1
      PROVE  (u \o v)[j] = IF j < i THEN s[j] ELSE s[j + 1]
    <2>1. CASE j < i
        BY <1>1, <1>3, <2>1
    <2>2. CASE ~(j < i)
        <3>1. j - (i - 1) \in 1 .. Len(s) - i /\ i + (j - (i - 1)) = j + 1
            BY <2>2
        <3>. QED  BY <1>2, <1>3, <2>2, <3>1
    <2>. QED  BY <2>1, <2>2
<1>. QED  BY <1>3, <1>4 DEF u, v

\* What Append does to a sequence.
LEMMA Appended ==
    ASSUME NEW S, NEW s \in Seq(S), NEW x \in S
    PROVE  /\ Append(s, x) \in Seq(S)
           /\ Len(Append(s, x)) = Len(s) + 1
           /\ \A j \in 1 .. Len(s) : Append(s, x)[j] = s[j]
           /\ Append(s, x)[Len(s) + 1] = x
OBVIOUS

=============================================================================
