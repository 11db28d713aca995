---------------------------- MODULE SumTheorems ----------------------------
(***************************************************************************)
(* What a sum over a finite set is, for the budgets and limits of the      *)
(* daily flow and the backtest.                                            *)
(*                                                                         *)
(* SumFunction is a fold, a recursive function over the subsets of the     *)
(* domain.  That the recursion has a solution, and what it computes, is    *)
(* shown by least counterexamples: the library's induction theorems take   *)
(* an operator, its theorems on well-founded relations a set.              *)
(***************************************************************************)
EXTENDS Integers, FiniteSetsExt, FiniteSetTheorems, TLAPS

\* Every set of naturals has a least element.
LEMMA LeastNatural ==
  ASSUME NEW S \in SUBSET Nat, S # {}
  PROVE  \E n \in S : \A k \in S : n <= k
<1>1. PICK n \in S : \A k \in S : ~(<<k, n>> \in OpToRel(<, Nat))
  BY NatLessThanWellFounded, WFMin
<1>2. \A k \in S : ~(k < n)
  BY <1>1 DEF OpToRel
<1> QED
  BY <1>2

\* What holds of a finite set's subsets whenever it holds of their own
\* smaller subsets holds of all of them: otherwise there is a least subset
\* without it.
LEMMA LeastSubset ==
  ASSUME NEW S, IsFiniteSet(S), NEW bad, bad \subseteq SUBSET S, bad # {}
  PROVE  \E T \in bad : \A U \in SUBSET T : U # T => U \notin bad
<1>1. FiniteSubsetsOf(S) = SUBSET S
  BY FS_FiniteSubsetsOfFinite
<1>2. IsWellFoundedOn(StrictSubsetOrdering(S), SUBSET S)
  BY <1>1, FS_StrictSubsetOrderingWellFounded
<1>3. PICK T \in bad : \A U \in bad : ~(<<U, T>> \in StrictSubsetOrdering(S))
  BY <1>2, WFMin
<1> QED
  BY <1>3 DEF StrictSubsetOrdering

\* What a fold over a finite set tabulates, subset by subset.
IsTable(pick, step, base, family, table) ==
  table = [T \in family |->
             IF T = {} THEN base ELSE step[<<pick[T], table[T \ {pick[T]}]>>]]

\* There is such a table, built by the size of the subsets.
LEMMA TableExists ==
  ASSUME NEW S, IsFiniteSet(S), NEW pick, \A T \in SUBSET S : T # {} => pick[T] \in T,
         NEW step, NEW base
  PROVE  \E table : IsTable(pick, step, base, SUBSET S, table)
<1> DEFINE UpTo(n) == {T \in SUBSET S : Cardinality(T) <= n}
           Has(n) == \E table : IsTable(pick, step, base, UpTo(n), table)
           bad == {n \in Nat : ~Has(n)}
<1>1. \A T \in SUBSET S : IsFiniteSet(T) /\ Cardinality(T) \in Nat
  BY FS_Subset, FS_CardinalityType
<1>2. Has(0)
  <2>1. UpTo(0) = {{}}
    BY <1>1, FS_EmptySet
  <2>2. IsTable(pick, step, base, {{}}, [T \in {{}} |-> base])
    BY DEF IsTable
  <2> QED
    BY <2>1, <2>2
<1>3. ASSUME NEW n \in Nat, Has(n)
      PROVE  Has(n + 1)
  <2>1. PICK table : IsTable(pick, step, base, UpTo(n), table)
    BY <1>3
  <2> DEFINE more == [T \in UpTo(n + 1) |->
                        IF T = {} THEN base ELSE step[<<pick[T], table[T \ {pick[T]}]>>]]
  <2>2. \A T \in UpTo(n) : more[T] = table[T]
    <3>1. \A T \in UpTo(n) : T \in UpTo(n + 1)
      BY <1>1
    <3> QED
      BY <2>1, <3>1 DEF IsTable
  <2>3. \A T \in UpTo(n + 1) : T # {} => T \ {pick[T]} \in UpTo(n)
    <3> SUFFICES ASSUME NEW T \in UpTo(n + 1), T # {} PROVE T \ {pick[T]} \in UpTo(n)
      OBVIOUS
    <3>1. Cardinality(T \ {pick[T]}) = Cardinality(T) - 1
      BY <1>1, FS_RemoveElement
    <3> QED
      BY <1>1, <3>1
  <2>4. \A T \in UpTo(n + 1) : T # {} => more[T \ {pick[T]}] = table[T \ {pick[T]}]
    <3> HIDE DEF more
    <3> QED
      BY <2>2, <2>3
  <2>5. IsTable(pick, step, base, UpTo(n + 1), more)
    <3>1. more = [T \in UpTo(n + 1) |->
                    IF T = {} THEN base ELSE step[<<pick[T], table[T \ {pick[T]}]>>]]
      OBVIOUS
    <3> HIDE DEF more
    <3> QED
      BY <2>4, <3>1 DEF IsTable
  <2> QED
    BY <2>5
<1>4. bad = {}
  <2> SUFFICES ASSUME bad # {} PROVE FALSE
    OBVIOUS
  <2>1. bad \in SUBSET Nat
    OBVIOUS
  <2> HIDE DEF Has
  <2>2. PICK n \in bad : \A k \in bad : n <= k
    <3> HIDE DEF bad
    <3> QED
      BY <2>1, LeastNatural
  <2>3. n \in Nat /\ ~Has(n) /\ n # 0
    BY <1>2
  <2>4. n - 1 \in Nat /\ n - 1 \notin bad
    BY <2>2, <2>3
  <2>5. Has(n - 1)
    BY <2>4
  <2>6. Has((n - 1) + 1) /\ (n - 1) + 1 = n
    BY <1>3, <2>3, <2>4, <2>5
  <2> QED
    BY <2>3, <2>6
<1>5. Cardinality(S) \in Nat /\ UpTo(Cardinality(S)) = SUBSET S
  BY <1>1, FS_Subset
<1> QED
  BY <1>4, <1>5

\* Its entries have the type of the base, when the step keeps it.
LEMMA TableIsTyped ==
  ASSUME NEW S, IsFiniteSet(S), NEW pick, \A T \in SUBSET S : T # {} => pick[T] \in T,
         NEW V, NEW step \in [S \X V -> V], NEW base \in V,
         NEW table, IsTable(pick, step, base, SUBSET S, table)
  PROVE  table \in [SUBSET S -> V]
<1> DEFINE bad == {T \in SUBSET S : table[T] \notin V}
<1>1. /\ \A T \in SUBSET S :
           table[T] = IF T = {} THEN base ELSE step[<<pick[T], table[T \ {pick[T]}]>>]
      /\ table = [T \in SUBSET S |-> table[T]]
  BY DEF IsTable
<1>2. bad = {}
  <2> SUFFICES ASSUME bad # {} PROVE FALSE
    OBVIOUS
  <2>1. PICK T \in bad : \A U \in SUBSET T : U # T => U \notin bad
    <3>1. bad \subseteq SUBSET S
      OBVIOUS
    <3> HIDE DEF bad
    <3> QED
      BY <3>1, LeastSubset
  <2>2. T \in SUBSET S /\ table[T] \notin V
    BY <2>1
  <2>3. T # {}
    BY <1>1, <2>2
  <2>4. pick[T] \in T /\ pick[T] \in S
    BY <2>2, <2>3
  <2>5. table[T \ {pick[T]}] \in V
    BY <2>1, <2>2, <2>4
  <2>6. table[T] = step[<<pick[T], table[T \ {pick[T]}]>>]
    BY <1>1, <2>2, <2>3
  <2> QED
    BY <2>2, <2>4, <2>5, <2>6
<1>3. \A T \in SUBSET S : table[T] \in V
  BY <1>2
<1> QED
  BY <1>1, <1>3

\* SumFunction reads its result off a table.
Pick(T) == CHOOSE x \in T : TRUE
IsSums(f, family, sums) ==
  sums = [T \in family |-> IF T = {} THEN 0 ELSE f[Pick(T)] + sums[T \ {Pick(T)}]]
Sums(f) == CHOOSE sums : IsSums(f, SUBSET DOMAIN f, sums)

\* The sum of f is what the table has for the whole domain.
LEMMA SumIsOfTable ==
  ASSUME NEW f
  PROVE  SumFunction(f) = Sums(f)[DOMAIN f]
BY DEF SumFunction, SumFunctionOnSet, FoldFunctionOnSet, MapThenFoldSet, Sums, IsSums, Pick

\* On a finite domain there is such a table.
LEMMA SumsExist ==
  ASSUME NEW S, IsFiniteSet(S), NEW f \in [S -> Int]
  PROVE  IsSums(f, SUBSET S, Sums(f))
<1> DEFINE pick == [T \in SUBSET S |-> Pick(T)]
           step == [p \in S \X Int |-> f[p[1]] + p[2]]
<1>1. \A T \in SUBSET S : T # {} => pick[T] = Pick(T) /\ pick[T] \in T /\ pick[T] \in S
  BY DEF Pick
<1>2. step \in [S \X Int -> Int] /\ \A x \in S, v \in Int : step[<<x, v>>] = f[x] + v
  OBVIOUS
<1> HIDE DEF pick, step
<1>3. PICK table : IsTable(pick, step, 0, SUBSET S, table)
  BY <1>1, TableExists
<1>4. table \in [SUBSET S -> Int]
  <2>1. 0 \in Int
    OBVIOUS
  <2> QED
    BY <1>1, <1>2, <1>3, <2>1, TableIsTyped
<1>5. \A T \in SUBSET S : table[T] = IF T = {} THEN 0 ELSE f[Pick(T)] + table[T \ {Pick(T)}]
  <2> SUFFICES ASSUME NEW T \in SUBSET S
               PROVE  table[T] = IF T = {} THEN 0 ELSE f[Pick(T)] + table[T \ {Pick(T)}]
    OBVIOUS
  <2>1. table[T] = IF T = {} THEN 0 ELSE step[<<pick[T], table[T \ {pick[T]}]>>]
    BY <1>3 DEF IsTable
  <2>2. T # {} => table[T \ {pick[T]}] \in Int
    BY <1>4
  <2> QED
    BY <1>1, <1>2, <2>1, <2>2
<1>6. IsSums(f, SUBSET S, table) /\ DOMAIN f = S
  BY <1>4, <1>5 DEF IsSums
<1> QED
  BY <1>6 DEF Sums

\* The element that is taken first does not matter to the sum.
TakesAny(S, f) ==
  /\ Sums(f) \in [SUBSET S -> Int]
  /\ Sums(f)[{}] = 0
  /\ \A T \in SUBSET S : \A x \in T : Sums(f)[T] = f[x] + Sums(f)[T \ {x}]

\* That is so for whole numbers.
LEMMA SumsOfAny ==
  ASSUME NEW S, IsFiniteSet(S), NEW f \in [S -> Int]
  PROVE  TakesAny(S, f)
<1> DEFINE g == Sums(f)
<1>1. g = [T \in SUBSET S |-> IF T = {} THEN 0 ELSE f[Pick(T)] + g[T \ {Pick(T)}]]
  <2>1. IsSums(f, SUBSET S, g)
    BY SumsExist
  <2> HIDE DEF g
  <2> QED
    BY <2>1 DEF IsSums
<1>2. \A T \in SUBSET S : T # {} => Pick(T) \in T /\ Pick(T) \in S
  BY DEF Pick
<1> HIDE DEF g
<1>3. g[{}] = 0 /\ \A T \in SUBSET S : T # {} => g[T] = f[Pick(T)] + g[T \ {Pick(T)}]
  BY <1>1
<1>4. \A T \in SUBSET S : g[T] \in Int
  <2> DEFINE bad == {T \in SUBSET S : g[T] \notin Int}
  <2> SUFFICES ASSUME bad # {} PROVE FALSE
    OBVIOUS
  <2>1. PICK T \in bad : \A U \in SUBSET T : U # T => U \notin bad
    <3>1. bad \subseteq SUBSET S
      OBVIOUS
    <3> HIDE DEF bad
    <3> QED
      BY <3>1, LeastSubset
  <2>2. T # {}
    <3>1. T \in SUBSET S /\ g[T] \notin Int
      OBVIOUS
    <3>2. g[{}] \in Int
      BY <1>3
    <3> QED
      BY <3>1, <3>2, Zenon
  <2>3. g[T \ {Pick(T)}] \in Int
    BY <1>2, <2>1, <2>2
  <2> QED
    BY <1>2, <1>3, <2>1, <2>2, <2>3
<1>5. \A T \in SUBSET S : \A x \in T : g[T] = f[x] + g[T \ {x}]
  <2> DEFINE Any(T) == \A x \in T : g[T] = f[x] + g[T \ {x}]
             bad == {T \in SUBSET S : ~Any(T)}
  <2> SUFFICES ASSUME bad # {} PROVE FALSE
    OBVIOUS
  <2>1. PICK T \in bad : \A U \in SUBSET T : U # T => U \notin bad
    <3>1. bad \subseteq SUBSET S
      OBVIOUS
    <3> HIDE DEF bad
    <3> QED
      BY <3>1, LeastSubset
  <2>2. PICK x \in T : g[T] # f[x] + g[T \ {x}]
    BY <2>1
  <2>3. PICK y \in T : y = Pick(T) /\ g[T] = f[y] + g[T \ {y}]
    BY <1>2, <1>3, <2>1, <2>2
  <2>4. x # y
    BY <2>2, <2>3
  <2>5. Any(T \ {y}) /\ Any(T \ {x})
    BY <2>1, <2>2, <2>3
  <2>6. g[T \ {y}] = f[x] + g[(T \ {y}) \ {x}] /\ g[T \ {x}] = f[y] + g[(T \ {x}) \ {y}]
    BY <2>2, <2>3, <2>4, <2>5
  <2>7. (T \ {y}) \ {x} = (T \ {x}) \ {y}
    OBVIOUS
  <2>8. f[x] \in Int /\ f[y] \in Int /\ g[(T \ {x}) \ {y}] \in Int
    BY <1>4, <2>1, <2>2, <2>3
  <2>9. g[(T \ {y}) \ {x}] = g[(T \ {x}) \ {y}]
    BY <2>7
  <2>10. g[T] = f[y] + (f[x] + g[(T \ {x}) \ {y}])
    BY <2>3, <2>6, <2>9
  <2>11. f[x] + g[T \ {x}] = f[x] + (f[y] + g[(T \ {x}) \ {y}])
    BY <2>6
  <2> HIDE DEF Any
  <2> QED
    BY <2>2, <2>8, <2>10, <2>11
<1>6. g \in [SUBSET S -> Int]
  BY <1>1, <1>4
<1> QED
  BY <1>3, <1>5, <1>6 DEF g, TakesAny

\* Functions that agree on a set have the same sum over it.
LEMMA SumsAgree ==
  ASSUME NEW S, IsFiniteSet(S), NEW R, IsFiniteSet(R), R \subseteq S,
         NEW f \in [S -> Int], NEW h \in [R -> Int], \A x \in R : f[x] = h[x]
  PROVE  Sums(f)[R] = Sums(h)[R]
<1> DEFINE bad == {T \in SUBSET R : Sums(f)[T] # Sums(h)[T]}
<1> SUFFICES ASSUME bad # {} PROVE FALSE
  OBVIOUS
<1>1. PICK T \in bad : \A U \in SUBSET T : U # T => U \notin bad
  <2>1. bad \subseteq SUBSET R
    OBVIOUS
  <2> HIDE DEF bad
  <2> QED
    BY <2>1, LeastSubset
<1>2. /\ Sums(f)[{}] = 0
      /\ \A U \in SUBSET S : \A x \in U : Sums(f)[U] = f[x] + Sums(f)[U \ {x}]
  <2>1. TakesAny(S, f)
    BY SumsOfAny
  <2> QED
    BY <2>1 DEF TakesAny
<1>3. /\ Sums(h)[{}] = 0
      /\ \A U \in SUBSET R : \A x \in U : Sums(h)[U] = h[x] + Sums(h)[U \ {x}]
  <2>1. TakesAny(R, h)
    BY SumsOfAny
  <2> QED
    BY <2>1 DEF TakesAny
<1>4. PICK x \in T : TRUE
  <2>1. T # {}
    BY <1>1, <1>2, <1>3
  <2> QED
    BY <2>1
<1>5. Sums(f)[T] = f[x] + Sums(f)[T \ {x}]
  BY <1>1, <1>2, <1>4
<1>6. Sums(h)[T] = h[x] + Sums(h)[T \ {x}]
  BY <1>1, <1>3, <1>4
<1>7. Sums(f)[T \ {x}] = Sums(h)[T \ {x}]
  BY <1>1, <1>4
<1> QED
  BY <1>1, <1>4, <1>5, <1>6, <1>7

\* Sums are whole, of nothing 0, and one more argument adds its value.
LEMMA SumAdds ==
  ASSUME NEW S, IsFiniteSet(S), NEW f \in [S -> Int]
  PROVE  /\ SumFunction(f) \in Int
         /\ S = {} => SumFunction(f) = 0
         /\ \A x \in S : SumFunction(f) = f[x] + SumFunction([y \in S \ {x} |-> f[y]])
<1>1. SumFunction(f) = Sums(f)[S] /\ TakesAny(S, f)
  BY SumIsOfTable, SumsOfAny
<1>2. ASSUME NEW x \in S
      PROVE  SumFunction(f) = f[x] + SumFunction([y \in S \ {x} |-> f[y]])
  <2> DEFINE h == [y \in S \ {x} |-> f[y]]
  <2>1. IsFiniteSet(S \ {x}) /\ h \in [S \ {x} -> Int]
    BY FS_RemoveElement
  <2>2. DOMAIN h = S \ {x} /\ \A y \in S \ {x} : f[y] = h[y]
    OBVIOUS
  <2> HIDE DEF h
  <2>3. SumFunction(h) = Sums(h)[S \ {x}]
    BY <2>2, SumIsOfTable
  <2>4. Sums(f)[S \ {x}] = Sums(h)[S \ {x}]
    BY <2>1, <2>2, SumsAgree
  <2>5. Sums(f)[S] = f[x] + Sums(f)[S \ {x}]
    BY <1>1 DEF TakesAny
  <2> QED
    BY <1>1, <2>3, <2>4, <2>5 DEF h
<1>3. Sums(f) \in [SUBSET S -> Int] /\ Sums(f)[{}] = 0
  BY <1>1 DEF TakesAny
<1> QED
  BY <1>1, <1>2, <1>3

\* One more argument adds its value.
LEMMA SumGrows ==
  ASSUME NEW S, IsFiniteSet(S), NEW f \in [S -> Int], NEW x, x \notin S, NEW v \in Int
  PROVE  /\ SumFunction(f) \in Int
         /\ SumFunction([y \in S \cup {x} |-> IF y = x THEN v ELSE f[y]]) = SumFunction(f) + v
<1> DEFINE more == S \cup {x}
           g == [y \in more |-> IF y = x THEN v ELSE f[y]]
<1>1. IsFiniteSet(more) /\ more \ {x} = S /\ x \in more
  BY FS_AddElement
<1>2. g \in [more -> Int] /\ g[x] = v /\ [y \in S |-> g[y]] = f
  OBVIOUS
<1>3. SumFunction(f) \in Int
  BY SumAdds
<1> HIDE DEF more, g
<1>4. \A z \in more : SumFunction(g) = g[z] + SumFunction([y \in more \ {z} |-> g[y]])
  BY <1>1, <1>2, SumAdds
<1>5. SumFunction(g) = v + SumFunction(f)
  BY <1>1, <1>2, <1>4
<1> QED
  BY <1>3, <1>5 DEF more, g

\* A sum of naturals is natural.
LEMMA SumNatural ==
  ASSUME NEW S, IsFiniteSet(S), NEW f \in [S -> Nat]
  PROVE  SumFunction(f) \in Nat
<1> DEFINE g == Sums(f)
           bad == {T \in SUBSET S : g[T] \notin Nat}
<1>1. f \in [S -> Int]
  OBVIOUS
<1>2. /\ SumFunction(f) = g[S] /\ g[{}] = 0
      /\ \A T \in SUBSET S : \A x \in T : g[T] = f[x] + g[T \ {x}]
  <2>1. TakesAny(S, f)
    BY <1>1, SumsOfAny
  <2> QED
    BY <2>1, SumIsOfTable DEF TakesAny
<1> HIDE DEF g
<1>3. bad = {}
  <2> SUFFICES ASSUME bad # {} PROVE FALSE
    OBVIOUS
  <2>1. PICK T \in bad : \A U \in SUBSET T : U # T => U \notin bad
    <3>1. bad \subseteq SUBSET S
      OBVIOUS
    <3> HIDE DEF bad
    <3> QED
      BY <3>1, LeastSubset
  <2>2. T \in SUBSET S /\ g[T] \notin Nat
    BY <2>1
  <2>3. PICK x \in T : TRUE
    <3>1. T # {}
      <4>1. g[{}] \in Nat
        BY <1>2
      <4> QED
        BY <2>2, <4>1, Zenon
    <3> QED
      BY <3>1
  <2>4. g[T \ {x}] \in Nat
    BY <2>1, <2>2, <2>3
  <2>5. g[T] = f[x] + g[T \ {x}] /\ f[x] \in Nat
    BY <1>2, <2>2, <2>3
  <2> QED
    BY <2>2, <2>4, <2>5
<1>4. g[S] \in Nat
  BY <1>3
<1> QED
  BY <1>2, <1>4
============================================================================
