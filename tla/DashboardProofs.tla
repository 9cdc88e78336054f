--------------------------- MODULE DashboardProofs ---------------------------
(***************************************************************************)
(* Proofs about the figures of the dashboard, for any number of tenants,   *)
(* units, budgets and expenditures, any finite set of categories, and      *)
(* requests that change the tables between any two SELECTs of a report.    *)
(*                                                                         *)
(* First what a sum over a finite set is, from its definition in the       *)
(* library; then what the queries of a report select and sum, in one state *)
(* and from one state to the next; then the inductive invariant, which     *)
(* says for each stage of a report what it has read and what it has yet to *)
(* read; and that each step keeps it.                                      *)
(***************************************************************************)
EXTENDS Dashboard, BudgetsProofs, FiniteSetTheorems

-----------------------------------------------------------------------------
(* Sums over finite sets.                                                  *)

\* A set holds the whole of a finite S, if it holds each subset of S all of
\* whose proper subsets it holds.
LEMMA SubsetInduction ==
  ASSUME NEW S, IsFiniteSet(S), NEW G,
         \A T \in SUBSET S : (\A U \in SUBSET T : U # T => U \in G) => T \in G
  PROVE  S \in G
<1> SUFFICES ASSUME S \notin G PROVE FALSE
  OBVIOUS
<1> DEFINE Bad == {T \in SUBSET S : T \notin G}
<1>1. FiniteSubsetsOf(S) = SUBSET S
  BY FS_FiniteSubsetsOfFinite
<1>2. Bad \subseteq SUBSET S /\ Bad # {}
  OBVIOUS
<1>3. PICK T \in Bad : \A U \in Bad : <<U, T>> \notin StrictSubsetOrdering(S)
  <2>1. Bad \subseteq FiniteSubsetsOf(S)
    BY <1>1, <1>2
  <2>2. IsWellFoundedOn(StrictSubsetOrdering(S), FiniteSubsetsOf(S))
    BY FS_StrictSubsetOrderingWellFounded
  <2> HIDE DEF Bad
  <2> QED
    BY <1>2, <2>1, <2>2, WFMin
<1>4. \A U \in SUBSET T : U # T => U \in G
  BY <1>1, <1>3 DEF StrictSubsetOrdering
<1> QED
  BY <1>3, <1>4

\* SumFunctionOnSet is defined by a CHOOSE: take off any element, sum the rest.
Chosen(s) == CHOOSE x \in s : TRUE

Sums(f, D, g) == g = [s \in D |-> IF s = {} THEN 0 ELSE f[Chosen(s)] + g[s \ {Chosen(s)}]]

LEMMA SumIs ==
  ASSUME NEW f, NEW S
  PROVE  SumFunctionOnSet(f, S) = (CHOOSE g : Sums(f, SUBSET S, g))[S]
BY Zenon DEF SumFunctionOnSet, FoldFunctionOnSet, MapThenFoldSet, Sums, Chosen

LEMMA ChosenIn == \A s : s # {} => Chosen(s) \in s
BY Zenon DEF Chosen

\* What Sums says of one set.
LEMMA SumsAt ==
  ASSUME NEW f, NEW S, NEW g, Sums(f, SUBSET S, g), NEW s \in SUBSET S
  PROVE  g[s] = IF s = {} THEN 0 ELSE f[Chosen(s)] + g[s \ {Chosen(s)}]
BY DEF Sums

LEMMA SumsAtTop ==
  ASSUME NEW f, NEW S, NEW g, Sums(f, SUBSET S, g)
  PROVE  g[S] = IF S = {} THEN 0 ELSE f[Chosen(S)] + g[S \ {Chosen(S)}]
<1>1. S \in SUBSET S
  OBVIOUS
<1> QED
  BY <1>1 DEF Sums

\* Two functions that both are such a sum agree where both are defined.
LEMMA SumsUnique ==
  ASSUME NEW f, NEW S, NEW T, IsFiniteSet(T), T \subseteq S,
         NEW g, Sums(f, SUBSET S, g), NEW h, Sums(f, SUBSET T, h)
  PROVE  g[T] = h[T]
<1> DEFINE G == {s \in SUBSET T : g[s] = h[s]}
<1>1. ASSUME NEW s \in SUBSET T, \A u \in SUBSET s : u # s => u \in G
      PROVE  s \in G
  <2>1. CASE s = {}
    BY <2>1, SumsAt
  <2>2. CASE s # {}
    <3>1. Chosen(s) \in s
      BY <2>2, ChosenIn
    <3>2. s \ {Chosen(s)} \in G
      BY <1>1, <3>1
    <3>3. g[s] = f[Chosen(s)] + g[s \ {Chosen(s)}]
      BY <2>2, SumsAt
    <3>4. h[s] = f[Chosen(s)] + h[s \ {Chosen(s)}]
      BY <2>2, SumsAt
    <3> QED
      BY <3>2, <3>3, <3>4
  <2> QED
    BY <2>1, <2>2
<1> HIDE DEF G
<1>2. T \in G
  BY <1>1, SubsetInduction
<1> QED
  BY <1>2 DEF G

\* A sum over a set is a sum over each of its subsets.
LEMMA SumsBelow ==
  ASSUME NEW f, NEW S, NEW T \in SUBSET S, NEW g, Sums(f, SUBSET S, g)
  PROVE  \E h : Sums(f, SUBSET T, h) /\ h[T] = g[T]
<1> DEFINE h == [s \in SUBSET T |-> g[s]]
<1>1. ASSUME NEW s \in SUBSET T
      PROVE  h[s] = IF s = {} THEN 0 ELSE f[Chosen(s)] + h[s \ {Chosen(s)}]
  <2>1. g[s] = IF s = {} THEN 0 ELSE f[Chosen(s)] + g[s \ {Chosen(s)}]
    BY SumsAt
  <2>2. s \ {Chosen(s)} \in SUBSET T
    OBVIOUS
  <2> QED
    BY <2>1, <2>2
<1>2. h[T] = g[T]
  OBVIOUS
<1> HIDE DEF h
<1>3. h = [s \in SUBSET T |-> h[s]]
  BY DEF h
<1> QED
  BY <1>1, <1>2, <1>3 DEF Sums

\* The value of a sum that can be computed.
LEMMA SumIsValue ==
  ASSUME NEW f, NEW S, IsFiniteSet(S), NEW g, Sums(f, SUBSET S, g)
  PROVE  SumFunctionOnSet(f, S) = g[S]
<1> DEFINE h == CHOOSE k : Sums(f, SUBSET S, k)
<1>1. Sums(f, SUBSET S, h)
  BY Zenon
<1>2. SumFunctionOnSet(f, S) = h[S]
  BY SumIs
<1> HIDE DEF h
<1>3. h[S] = g[S]
  BY <1>1, SumsUnique
<1> QED
  BY <1>2, <1>3

\* Over a finite set the CHOOSE has something to choose.
LEMMA SumsExist ==
  ASSUME NEW f, NEW S, IsFiniteSet(S)
  PROVE  \E g : Sums(f, SUBSET S, g)
<1> DEFINE G == {T \in SUBSET S : \E g : Sums(f, SUBSET T, g)}
           V(s) == SumFunctionOnSet(f, s)
<1>1. ASSUME NEW T \in SUBSET S, \A U \in SUBSET T : U # T => U \in G
      PROVE  T \in G
  <2>1. ASSUME NEW s \in SUBSET T, s # T
        PROVE  V(s) = IF s = {} THEN 0 ELSE f[Chosen(s)] + V(s \ {Chosen(s)})
    <3>1. PICK h : Sums(f, SUBSET s, h)
      BY <1>1, <2>1
    <3>2. IsFiniteSet(s)
      BY FS_Subset
    <3>3. V(s) = h[s]
      BY <3>1, <3>2, SumIsValue
    <3>4. h[s] = IF s = {} THEN 0 ELSE f[Chosen(s)] + h[s \ {Chosen(s)}]
      BY <3>1, SumsAtTop
    <3>5. h[s \ {Chosen(s)}] = V(s \ {Chosen(s)})
      <4> DEFINE u == s \ {Chosen(s)}
      <4>1. IsFiniteSet(u) /\ u \in SUBSET s
        BY <3>2, FS_Subset
      <4> HIDE DEF u
      <4>2. PICK k : Sums(f, SUBSET u, k) /\ k[u] = h[u]
        BY <3>1, <4>1, SumsBelow
      <4>3. V(u) = k[u]
        BY <4>1, <4>2, SumIsValue
      <4> QED
        BY <4>2, <4>3 DEF u
    <3> QED
      BY <3>3, <3>4, <3>5
  <2> DEFINE c == Chosen(T)
             g == [s \in SUBSET T |-> IF s = T /\ T # {} THEN f[c] + V(T \ {c}) ELSE V(s)]
  <2> HIDE DEF V
  <2>2. ASSUME NEW s \in SUBSET T
        PROVE  g[s] = IF s = {} THEN 0 ELSE f[Chosen(s)] + g[s \ {Chosen(s)}]
    <3>1. s \ {Chosen(s)} \in SUBSET T
      OBVIOUS
    <3>2. s # {} => s \ {Chosen(s)} # T
      BY ChosenIn
    <3>3. s # {} => g[s \ {Chosen(s)}] = V(s \ {Chosen(s)})
      BY <3>1, <3>2
    <3>4. CASE s # T
      BY <2>1, <3>3, <3>4
    <3>5. CASE s = T /\ T # {}
      BY <3>3, <3>5
    <3>6. CASE s = T /\ T = {}
      <4>1. V({}) = 0
        <5> DEFINE k == [t \in SUBSET {} |-> 0]
        <5>1. Sums(f, SUBSET {}, k)
          BY DEF Sums
        <5>2. IsFiniteSet({})
          BY FS_EmptySet
        <5>3. k[{}] = 0
          OBVIOUS
        <5> HIDE DEF k
        <5> QED
          BY <5>1, <5>2, <5>3, SumIsValue DEF V
      <4> QED
        BY <3>6, <4>1
    <3> QED
      BY <3>4, <3>5, <3>6
  <2>3. g = [s \in SUBSET T |-> g[s]]
    OBVIOUS
  <2> HIDE DEF g
  <2>4. Sums(f, SUBSET T, g)
    BY <2>2, <2>3 DEF Sums
  <2> QED
    BY <2>4
<1> HIDE DEF G
<1>2. S \in G
  BY <1>1, SubsetInduction
<1> QED
  BY <1>2 DEF G

\* The sum over a set, one element at a time.
LEMMA SumUnfolds ==
  ASSUME NEW f, NEW S, IsFiniteSet(S)
  PROVE  SumFunctionOnSet(f, S) =
           IF S = {} THEN 0
           ELSE f[Chosen(S)] + SumFunctionOnSet(f, S \ {Chosen(S)})
<1>1. PICK g : Sums(f, SUBSET S, g)
  BY SumsExist
<1> DEFINE u == S \ {Chosen(S)}
<1>2. IsFiniteSet(u) /\ u \in SUBSET S
  BY FS_Subset
<1>3. PICK k : Sums(f, SUBSET u, k) /\ k[u] = g[u]
  BY <1>1, <1>2, SumsBelow
<1>5. g[S] = IF S = {} THEN 0 ELSE f[Chosen(S)] + g[u]
  BY <1>1, SumsAtTop
<1>6. SumFunctionOnSet(f, S) = g[S]
  BY <1>1, SumIsValue
<1> HIDE DEF u
<1>7. SumFunctionOnSet(f, u) = k[u]
  BY <1>2, <1>3, SumIsValue
<1>8. SumFunctionOnSet(f, S) = IF S = {} THEN 0 ELSE f[Chosen(S)] + SumFunctionOnSet(f, u)
  BY <1>3, <1>5, <1>6, <1>7
<1> QED
  BY <1>8 DEF u

Whole(f, S) == \A x \in S : f[x] \in Int

LEMMA SumEmpty == \A f : SumFunctionOnSet(f, {}) = 0
BY SumUnfolds, FS_EmptySet

LEMMA SumChosen ==
  ASSUME NEW f, NEW S, IsFiniteSet(S), S # {}
  PROVE  /\ Chosen(S) \in S
         /\ SumFunctionOnSet(f, S) = f[Chosen(S)] + SumFunctionOnSet(f, S \ {Chosen(S)})
BY SumUnfolds, ChosenIn

LEMMA SumInt ==
  ASSUME NEW f, NEW S, IsFiniteSet(S), Whole(f, S)
  PROVE  SumFunctionOnSet(f, S) \in Int
<1> DEFINE G == {T \in SUBSET S : SumFunctionOnSet(f, T) \in Int}
<1>1. ASSUME NEW T \in SUBSET S, \A U \in SUBSET T : U # T => U \in G
      PROVE  T \in G
  <2>1. CASE T = {}
    BY <2>1, SumEmpty
  <2>2. CASE T # {}
    <3>1. IsFiniteSet(T)
      BY FS_Subset
    <3> DEFINE x == Chosen(T)
    <3>2. x \in T /\ SumFunctionOnSet(f, T) = f[x] + SumFunctionOnSet(f, T \ {x})
      BY <2>2, <3>1, SumChosen
    <3>3. T \ {x} \in G
      BY <1>1, <3>2
    <3> QED
      BY <3>2, <3>3 DEF Whole
  <2> QED
    BY <2>1, <2>2
<1> HIDE DEF G
<1>2. S \in G
  BY <1>1, SubsetInduction
<1> QED
  BY <1>2 DEF G

\* Any element can be taken off first.
LEMMA SumTakes ==
  ASSUME NEW f, NEW S, IsFiniteSet(S), Whole(f, S), NEW x \in S
  PROVE  SumFunctionOnSet(f, S) = f[x] + SumFunctionOnSet(f, S \ {x})
<1> DEFINE G == {T \in SUBSET S : \A y \in T :
                   SumFunctionOnSet(f, T) = f[y] + SumFunctionOnSet(f, T \ {y})}
<1>1. ASSUME NEW T \in SUBSET S, \A U \in SUBSET T : U # T => U \in G
      PROVE  T \in G
  <2> SUFFICES ASSUME NEW y \in T
               PROVE  SumFunctionOnSet(f, T) = f[y] + SumFunctionOnSet(f, T \ {y})
    OBVIOUS
  <2> DEFINE c == Chosen(T)
  <2>1. IsFiniteSet(T) /\ IsFiniteSet(T \ {y, c})
    BY FS_Subset
  <2>2. c \in T /\ SumFunctionOnSet(f, T) = f[c] + SumFunctionOnSet(f, T \ {c})
    BY <2>1, SumChosen
  <2>3. CASE y = c
    BY <2>2, <2>3
  <2>4. CASE y # c
    <3>1. T \ {c} \in G /\ T \ {y} \in G
      BY <1>1, <2>2
    <3>2. (T \ {c}) \ {y} = T \ {y, c} /\ (T \ {y}) \ {c} = T \ {y, c}
      OBVIOUS
    <3>3. SumFunctionOnSet(f, T \ {c}) = f[y] + SumFunctionOnSet(f, T \ {y, c})
      BY <2>4, <3>1, <3>2
    <3>4. SumFunctionOnSet(f, T \ {y}) = f[c] + SumFunctionOnSet(f, T \ {y, c})
      BY <2>2, <2>4, <3>1, <3>2
    <3>5. SumFunctionOnSet(f, T \ {y, c}) \in Int /\ f[y] \in Int /\ f[c] \in Int
      BY <2>1, <2>2, SumInt DEF Whole
    <3> QED
      BY <2>2, <3>3, <3>4, <3>5
  <2> QED
    BY <2>3, <2>4
<1> HIDE DEF G
<1>2. S \in G
  BY <1>1, SubsetInduction
<1> QED
  BY <1>2 DEF G

\* A sum falls neither when its terms grow nor when terms that are not negative
\* come in.
LEMMA SumGrows ==
  ASSUME NEW f, NEW g, NEW T, IsFiniteSet(T), NEW S, S \subseteq T,
         Whole(f, S), Whole(g, T),
         \A x \in S : f[x] <= g[x], \A x \in T \ S : 0 <= g[x]
  PROVE  SumFunctionOnSet(f, S) <= SumFunctionOnSet(g, T)
<1> DEFINE G == {U \in SUBSET T : SumFunctionOnSet(f, U \cap S) <= SumFunctionOnSet(g, U)}
<1>1. ASSUME NEW U \in SUBSET T, \A W \in SUBSET U : W # U => W \in G
      PROVE  U \in G
  <2>1. CASE U = {}
    <3>1. U \cap S = {}
      BY <2>1
    <3> QED
      BY <2>1, <3>1, SumEmpty
  <2>2. CASE U # {}
    <3> DEFINE x == Chosen(U)
               W == U \ {x}
    <3>1. IsFiniteSet(U) /\ IsFiniteSet(W) /\ IsFiniteSet(U \cap S) /\ IsFiniteSet(W \cap S)
      BY FS_Subset
    <3>2. x \in U /\ SumFunctionOnSet(g, U) = g[x] + SumFunctionOnSet(g, W)
      BY <2>2, <3>1, SumChosen
    <3>3. SumFunctionOnSet(f, W \cap S) <= SumFunctionOnSet(g, W)
      BY <1>1, <3>2
    <3>4. SumFunctionOnSet(g, W) \in Int /\ SumFunctionOnSet(f, W \cap S) \in Int
      BY <3>1, SumInt DEF Whole
    <3>5. CASE x \in S
      <4>1. (U \cap S) \ {x} = W \cap S /\ x \in U \cap S
        BY <3>2, <3>5
      <4>2. Whole(f, U \cap S)
        BY DEF Whole
      <4>3. SumFunctionOnSet(f, U \cap S) = f[x] + SumFunctionOnSet(f, W \cap S)
        BY <3>1, <4>1, <4>2, SumTakes
      <4>4. f[x] \in Int /\ g[x] \in Int /\ f[x] <= g[x]
        BY <3>5 DEF Whole
      <4> QED
        BY <3>2, <3>3, <3>4, <4>3, <4>4
    <3>6. CASE x \notin S
      <4>1. U \cap S = W \cap S
        BY <3>6
      <4>2. g[x] \in Int /\ 0 <= g[x]
        BY <3>2, <3>6 DEF Whole
      <4>3. SumFunctionOnSet(f, U \cap S) = SumFunctionOnSet(f, W \cap S)
        BY <4>1
      <4>4. SumFunctionOnSet(f, U \cap S) <= SumFunctionOnSet(g, U)
        BY <3>2, <3>3, <3>4, <4>2, <4>3
      <4> QED
        BY <4>4
    <3> QED
      BY <3>5, <3>6
  <2> QED
    BY <2>1, <2>2
<1> HIDE DEF G
<1>2. T \in G
  BY <1>1, SubsetInduction
<1>3. T \cap S = S
  OBVIOUS
<1> QED
  BY <1>2, <1>3 DEF G

LEMMA SumNat ==
  ASSUME NEW f, NEW S, IsFiniteSet(S), Whole(f, S), \A x \in S : 0 <= f[x]
  PROVE  0 <= SumFunctionOnSet(f, S)
<1>1. Whole(f, {})
  BY DEF Whole
<1>2. SumFunctionOnSet(f, {}) <= SumFunctionOnSet(f, S)
  BY <1>1, SumGrows
<1> QED
  BY <1>2, SumEmpty

LEMMA SumSplits ==
  ASSUME NEW f, NEW S, NEW T, IsFiniteSet(S), IsFiniteSet(T), S \cap T = {},
         Whole(f, S \union T)
  PROVE  SumFunctionOnSet(f, S \union T) = SumFunctionOnSet(f, S) + SumFunctionOnSet(f, T)
<1> DEFINE G == {U \in SUBSET T : SumFunctionOnSet(f, S \union U)
                                    = SumFunctionOnSet(f, S) + SumFunctionOnSet(f, U)}
<1>0. SumFunctionOnSet(f, S) \in Int
  BY SumInt DEF Whole
<1>1. ASSUME NEW U \in SUBSET T, \A W \in SUBSET U : W # U => W \in G
      PROVE  U \in G
  <2>1. CASE U = {}
    <3>1. S \union U = S /\ SumFunctionOnSet(f, U) = 0
      BY <2>1, SumEmpty
    <3> QED
      BY <1>0, <3>1
  <2>2. CASE U # {}
    <3> DEFINE x == Chosen(U)
               W == U \ {x}
    <3>1. IsFiniteSet(U) /\ IsFiniteSet(W)
      BY FS_Subset
    <3>2. x \in U /\ SumFunctionOnSet(f, U) = f[x] + SumFunctionOnSet(f, W)
      BY <2>2, <3>1, SumChosen
    <3>3. SumFunctionOnSet(f, S \union W) = SumFunctionOnSet(f, S) + SumFunctionOnSet(f, W)
      BY <1>1, <3>2
    <3>4. (S \union U) \ {x} = S \union W /\ x \in S \union U
      BY <3>2
    <3>5. IsFiniteSet(S \union U)
      BY <3>1, FS_Union
    <3>6. Whole(f, S \union U) /\ Whole(f, W)
      BY DEF Whole
    <3>7. SumFunctionOnSet(f, S \union U) = f[x] + SumFunctionOnSet(f, S \union W)
      BY <3>4, <3>5, <3>6, SumTakes
    <3>8. f[x] \in Int /\ SumFunctionOnSet(f, W) \in Int
      BY <3>1, <3>2, <3>6, SumInt DEF Whole
    <3> QED
      BY <1>0, <3>2, <3>3, <3>7, <3>8
  <2> QED
    BY <2>1, <2>2
<1> HIDE DEF G
<1>2. T \in G
  BY <1>1, SubsetInduction
<1> QED
  BY <1>2 DEF G
-----------------------------------------------------------------------------
(* What the queries of a report select.                                    *)

\* An INSERT adds one row, so that no table ever has infinitely many.
TablesFinite ==
  IsFiniteSet(DOMAIN units) /\ IsFiniteSet(DOMAIN budgets) /\ IsFiniteSet(DOMAIN exps)

TablesOK ==
  /\ TypeOK /\ SpendingStaysInTenant /\ TablesFinite
  /\ wages \in [UnitIds -> Wages]

Cats(op) == IF op = "summary" THEN Categories \ {Wage} ELSE Categories
Paid(op, ns) == IF op = "summary" THEN WagesOf(ns) ELSE 0

\* The live expenditures ChargedTo sums.
Live(t, bs, cs) ==
  {e \in DOMAIN exps : /\ exps[e].budget \in bs /\ exps[e].category \in cs
                       /\ exps[e].tenant = t /\ ~exps[e].deleted}

LEMMA RowShapes ==
  ASSUME TablesOK
  PROVE  /\ \A n \in DOMAIN units : n \in UnitIds /\ units[n] \in Unit
         /\ \A b \in DOMAIN budgets :
              b \in BudgetIds /\ budgets[b] \in Budget /\ budgets[b].limit \in Limit
         /\ \A e \in DOMAIN exps :
              /\ e \in ExpIds /\ exps[e] \in Exp /\ exps[e].amount \in Amounts
              /\ exps[e].category \in Categories
BY DEF TablesOK, TypeOK, Budget, Exp

LEMMA FiguresWhole ==
  ASSUME TablesOK
  PROVE  /\ \A b \in DOMAIN budgets : Whole(budgets[b].limit, Categories)
         /\ Whole(LimitOf, DOMAIN budgets)
         /\ Whole(Amount, DOMAIN exps)
         /\ Whole(wages, UnitIds)
<1>1. \A b \in DOMAIN budgets : Whole(budgets[b].limit, Categories)
  BY RowShapes, DataAssumption DEF Whole, Limit
<1>2. \A b \in DOMAIN budgets : SumFunctionOnSet(budgets[b].limit, Categories) \in Int
  BY <1>1, SumInt, WageAssumption
<1>3. Whole(LimitOf, DOMAIN budgets)
  BY <1>2 DEF Whole, LimitOf
<1>4. Whole(Amount, DOMAIN exps)
  BY RowShapes, DataAssumption DEF Whole, Amount
<1>5. Whole(wages, UnitIds)
  BY WageAssumption DEF Whole, TablesOK
<1> QED
  BY <1>1, <1>3, <1>4, <1>5

LEMMA FiguresNotNegative ==
  ASSUME TablesOK, NoneNegative
  PROVE  /\ \A b \in DOMAIN budgets : 0 <= LimitOf[b]
         /\ \A e \in DOMAIN exps : 0 <= Amount[e]
         /\ \A n \in UnitIds : 0 <= wages[n]
<1>1. ASSUME NEW b \in DOMAIN budgets PROVE 0 <= LimitOf[b]
  <2>1. Whole(budgets[b].limit, Categories)
    BY FiguresWhole
  <2>2. \A c \in Categories : 0 <= budgets[b].limit[c]
    BY <2>1 DEF NoneNegative, Whole
  <2>3. 0 <= SumFunctionOnSet(budgets[b].limit, Categories)
    BY <2>1, <2>2, SumNat, WageAssumption
  <2> QED
    BY <2>3 DEF LimitOf
<1>2. \A e \in DOMAIN exps : 0 <= Amount[e]
  BY FiguresWhole DEF NoneNegative, Amount, Whole
<1>3. \A n \in UnitIds : 0 <= wages[n]
  BY FiguresWhole DEF NoneNegative, Whole
<1> QED
  BY <1>1, <1>2, <1>3

\* The money looked up at once, in terms of the queries of a report.
MoneyParts ==
  \A op, t, ns, y, bs, cs, money :
    bs = BudgetsOf(t, ns, y) /\ cs = Cats(op) /\ money = MoneyOf(op, t, ns, y) =>
      /\ money.total = LimitsOf(bs)
      /\ money.spent = ChargedTo(t, bs, cs) + Paid(op, ns)

LEMMA MoneyIs == TablesOK => MoneyParts
<1> SUFFICES ASSUME TablesOK, NEW op, NEW t, NEW ns, NEW y
             PROVE  /\ MoneyOf(op, t, ns, y).total = LimitsOf(BudgetsOf(t, ns, y))
                    /\ MoneyOf(op, t, ns, y).spent =
                         ChargedTo(t, BudgetsOf(t, ns, y), Cats(op)) + Paid(op, ns)
  BY DEF MoneyParts
<1> DEFINE own == {e \in DOMAIN exps : /\ ~exps[e].deleted /\ exps[e].tenant = t
                                       /\ budgets[exps[e].budget].unit \in ns
                                       /\ budgets[exps[e].budget].year = y
                                       /\ op = "summary" => exps[e].category # Wage}
<1>1. own = Live(t, BudgetsOf(t, ns, y), Cats(op))
  <2>1. \A e \in DOMAIN exps : /\ exps[e].budget \in DOMAIN budgets
                               /\ budgets[exps[e].budget].tenant = exps[e].tenant
                               /\ exps[e].category \in Categories
    BY RowShapes DEF TablesOK, SpendingStaysInTenant
  <2> QED
    BY <2>1 DEF Live, BudgetsOf, Cats
<1>2. ChargedTo(t, BudgetsOf(t, ns, y), Cats(op)) = SumFunctionOnSet(Amount, own)
  BY <1>1 DEF ChargedTo, Live
<1> QED
  BY <1>2 DEF MoneyOf, Paid

LEMMA MoneyIsNext == (TablesOK => MoneyParts)'
BY MoneyIs, PTL

-----------------------------------------------------------------------------
(* Within one state: a larger set has a larger sum.                        *)

LEMMA SetsFinite ==
  ASSUME TablesOK
  PROVE  /\ \A bs : bs \subseteq DOMAIN budgets => IsFiniteSet(bs)
         /\ \A ns : ns \subseteq DOMAIN units => IsFiniteSet(ns) /\ ns \subseteq UnitIds
         /\ \A t, bs, cs : IsFiniteSet(Live(t, bs, cs)) /\ Whole(Amount, Live(t, bs, cs))
<1>1. \A t, bs, cs : IsFiniteSet(Live(t, bs, cs)) /\ Whole(Amount, Live(t, bs, cs))
  <2> TAKE t, bs, cs
  <2>1. Live(t, bs, cs) \in SUBSET DOMAIN exps
    BY DEF Live
  <2> QED
    BY <2>1, FS_Subset, FiguresWhole DEF TablesOK, TablesFinite, Whole
<1>2. \A bs : bs \subseteq DOMAIN budgets => IsFiniteSet(bs)
  BY FS_Subset DEF TablesOK, TablesFinite
<1>3. \A ns : ns \subseteq DOMAIN units => IsFiniteSet(ns) /\ ns \subseteq UnitIds
  BY FS_Subset DEF TablesOK, TablesFinite, TypeOK
<1> QED
  BY <1>1, <1>2, <1>3

LEMMA SumsAreInt ==
  ASSUME TablesOK
  PROVE  /\ \A bs : bs \subseteq DOMAIN budgets => LimitsOf(bs) \in Int
         /\ \A ns : ns \subseteq DOMAIN units => WagesOf(ns) \in Int
         /\ \A t, bs, cs : ChargedTo(t, bs, cs) \in Int
<1>1. \A bs : bs \subseteq DOMAIN budgets => LimitsOf(bs) \in Int
  <2> SUFFICES ASSUME NEW bs, bs \subseteq DOMAIN budgets PROVE LimitsOf(bs) \in Int
    OBVIOUS
  <2>1. IsFiniteSet(bs) /\ Whole(LimitOf, bs)
    BY SetsFinite, FiguresWhole DEF Whole
  <2> QED
    BY <2>1, SumInt DEF LimitsOf
<1>2. \A ns : ns \subseteq DOMAIN units => WagesOf(ns) \in Int
  <2> SUFFICES ASSUME NEW ns, ns \subseteq DOMAIN units PROVE WagesOf(ns) \in Int
    OBVIOUS
  <2>1. IsFiniteSet(ns) /\ Whole(wages, ns)
    BY SetsFinite, FiguresWhole DEF Whole
  <2> QED
    BY <2>1, SumInt DEF WagesOf
<1>3. \A t, bs, cs : ChargedTo(t, bs, cs) \in Int
  <2> TAKE t, bs, cs
  <2>1. ChargedTo(t, bs, cs) = SumFunctionOnSet(Amount, Live(t, bs, cs))
    BY DEF ChargedTo, Live
  <2> QED
    BY <2>1, SetsFinite, SumInt
<1> QED
  BY <1>1, <1>2, <1>3

LEMMA SumsGrowWithSets ==
  ASSUME TablesOK, NoneNegative
  PROVE  /\ \A bs, as : as \subseteq bs /\ bs \subseteq DOMAIN budgets
                          => LimitsOf(as) <= LimitsOf(bs)
         /\ \A ns, ms : ms \subseteq ns /\ ns \subseteq DOMAIN units
                          => WagesOf(ms) <= WagesOf(ns)
         /\ \A t, as, bs, cs, ds : as \subseteq bs /\ ds \subseteq cs
                          => ChargedTo(t, as, ds) <= ChargedTo(t, bs, cs)
<1>1. ASSUME NEW bs, NEW as, as \subseteq bs, bs \subseteq DOMAIN budgets
      PROVE  LimitsOf(as) <= LimitsOf(bs)
  <2>1. IsFiniteSet(bs) /\ Whole(LimitOf, bs) /\ Whole(LimitOf, as)
    BY <1>1, SetsFinite, FiguresWhole DEF Whole
  <2>2. \A b \in bs : 0 <= LimitOf[b] /\ LimitOf[b] <= LimitOf[b]
    BY <1>1, <2>1, FiguresNotNegative DEF Whole
  <2> QED
    BY <1>1, <2>1, <2>2, SumGrows DEF LimitsOf
<1>2. ASSUME NEW ns, NEW ms, ms \subseteq ns, ns \subseteq DOMAIN units
      PROVE  WagesOf(ms) <= WagesOf(ns)
  <2>1. IsFiniteSet(ns) /\ Whole(wages, ns) /\ Whole(wages, ms) /\ ns \subseteq UnitIds
    BY <1>2, SetsFinite, FiguresWhole DEF Whole
  <2>2. \A n \in ns : 0 <= wages[n] /\ wages[n] <= wages[n]
    BY <2>1, FiguresNotNegative DEF Whole
  <2> QED
    BY <1>2, <2>1, <2>2, SumGrows DEF WagesOf
<1>3. ASSUME NEW t, NEW as, NEW bs, NEW cs, NEW ds, as \subseteq bs, ds \subseteq cs
      PROVE  ChargedTo(t, as, ds) <= ChargedTo(t, bs, cs)
  <2> DEFINE small == Live(t, as, ds)
             large == Live(t, bs, cs)
  <2>1. small \subseteq large /\ large \subseteq DOMAIN exps
    BY <1>3 DEF Live
  <2>2. IsFiniteSet(large) /\ Whole(Amount, large) /\ Whole(Amount, small)
    BY SetsFinite
  <2>3. \A e \in large : 0 <= Amount[e] /\ Amount[e] <= Amount[e]
    BY <2>1, <2>2, FiguresNotNegative DEF Whole
  <2>4. ChargedTo(t, as, ds) = SumFunctionOnSet(Amount, small)
        /\ ChargedTo(t, bs, cs) = SumFunctionOnSet(Amount, large)
    BY DEF ChargedTo, Live
  <2> QED
    BY <2>1, <2>2, <2>3, <2>4, SumGrows
<1> QED
  BY <1>1, <1>2, <1>3

\* Reading some of the categories and then the others is reading them all.
LEMMA ChargedSplits ==
  ASSUME TablesOK
  PROVE  \A t, bs, cs, ds : cs \cap ds = {} =>
           ChargedTo(t, bs, cs \union ds) = ChargedTo(t, bs, cs) + ChargedTo(t, bs, ds)
<1> SUFFICES ASSUME NEW t, NEW bs, NEW cs, NEW ds, cs \cap ds = {}
             PROVE  ChargedTo(t, bs, cs \union ds)
                      = ChargedTo(t, bs, cs) + ChargedTo(t, bs, ds)
  OBVIOUS
<1> DEFINE C == Live(t, bs, cs)
           D == Live(t, bs, ds)
<1>1. C \cap D = {} /\ Live(t, bs, cs \union ds) = C \union D
  BY DEF Live
<1>2. IsFiniteSet(C) /\ IsFiniteSet(D) /\ Whole(Amount, C \union D)
  BY SetsFinite DEF Whole
<1>3. /\ ChargedTo(t, bs, cs \union ds) = SumFunctionOnSet(Amount, C \union D)
      /\ ChargedTo(t, bs, cs) = SumFunctionOnSet(Amount, C)
      /\ ChargedTo(t, bs, ds) = SumFunctionOnSet(Amount, D)
  BY <1>1 DEF ChargedTo, Live
<1> HIDE DEF C, D
<1> QED
  BY <1>1, <1>2, <1>3, SumSplits

LEMMA NothingToSum ==
  /\ LimitsOf({}) = 0 /\ WagesOf({}) = 0
  /\ \A t, bs, cs : bs = {} \/ cs = {} => ChargedTo(t, bs, cs) = 0
<1>1. LimitsOf({}) = 0 /\ WagesOf({}) = 0
  BY SumEmpty DEF LimitsOf, WagesOf
<1>2. ASSUME NEW t, NEW bs, NEW cs, bs = {} \/ cs = {} PROVE ChargedTo(t, bs, cs) = 0
  <2>1. Live(t, bs, cs) = {}
    BY <1>2 DEF Live
  <2>2. ChargedTo(t, bs, cs) = SumFunctionOnSet(Amount, Live(t, bs, cs))
    BY DEF ChargedTo, Live
  <2> QED
    BY <2>1, <2>2, SumEmpty
<1> QED
  BY <1>1, <1>2

-----------------------------------------------------------------------------
(* From one state to the next.                                             *)

\* Rows are inserted one at a time, and keep what the queries select them by.
LEMMA UnitRowsStay ==
  ASSUME IInv, [Next]_vars
  PROVE  /\ \A n \in DOMAIN units : /\ n \in DOMAIN units'
                                    /\ units'[n].tenant = units[n].tenant
                                    /\ units'[n].kind = units[n].kind
         /\ \E n : DOMAIN units' \subseteq DOMAIN units \union {n}
<1>1. CASE UNCHANGED units
  BY <1>1
<1>2. ASSUME NEW r \in Requests, NEW u \in Admins, NEW n \in UnitIds,
             NEW kind \in Kinds \union {Market}, NEW plan \in Plans, CreateUnit(r, u, n, kind, plan)
      PROVE  /\ \A i \in DOMAIN units : i \in DOMAIN units' /\ units'[i] = units[i]
             /\ DOMAIN units' \subseteq DOMAIN units \union {n}
  BY <1>2 DEF CreateUnit, With
<1>3. ASSUME NEW r \in Requests, CommitUpdateUnit(r) \/ CommitDeleteUnit(r)
      PROVE  /\ \A i \in DOMAIN units : /\ units'[i].tenant = units[i].tenant
                                        /\ units'[i].kind = units[i].kind
             /\ DOMAIN units' = DOMAIN units
  <2>1. \A i \in DOMAIN units : units[i] \in Unit
    BY DEF IInv, TypeOK
  <2> QED
    BY <1>3, <2>1 DEF CommitUpdateUnit, CommitDeleteUnit, Unit
<1> QED
  BY <1>1, <1>2, <1>3, TableSteps

LEMMA BudgetRowsStay ==
  ASSUME IInv, [Next]_vars
  PROVE  /\ \A b \in DOMAIN budgets : /\ b \in DOMAIN budgets'
                                      /\ budgets'[b].unit = budgets[b].unit
                                      /\ budgets'[b].year = budgets[b].year
                                      /\ budgets'[b].tenant = budgets[b].tenant
         /\ \E b : DOMAIN budgets' \subseteq DOMAIN budgets \union {b}
<1>1. CASE UNCHANGED budgets
  BY <1>1
<1>2. ASSUME NEW r \in Requests, NEW u \in Admins, NEW b \in BudgetIds, NEW n \in UnitIds,
             NEW year \in Years, NEW limit \in Limit, CreateBudget(r, u, b, n, year, limit)
      PROVE  /\ \A i \in DOMAIN budgets : i \in DOMAIN budgets' /\ budgets'[i] = budgets[i]
             /\ DOMAIN budgets' \subseteq DOMAIN budgets \union {b}
  BY <1>2, BudgetCreated
<1>3. ASSUME NEW r \in Requests, CommitUpdateBudget(r)
      PROVE  /\ \A b \in DOMAIN budgets : /\ budgets'[b].unit = budgets[b].unit
                                          /\ budgets'[b].year = budgets[b].year
                                          /\ budgets'[b].tenant = budgets[b].tenant
             /\ DOMAIN budgets' = DOMAIN budgets
  BY <1>3, BudgetWritten
<1> QED
  BY <1>1, <1>2, <1>3, TableSteps

LEMMA ExpRowsStay ==
  ASSUME IInv, [Next]_vars
  PROVE  /\ \A e \in DOMAIN exps : /\ e \in DOMAIN exps'
                                   /\ exps'[e].budget = exps[e].budget
                                   /\ exps'[e].category = exps[e].category
                                   /\ exps'[e].tenant = exps[e].tenant
                                   /\ exps'[e].amount = exps[e].amount
         /\ \E e : DOMAIN exps' \subseteq DOMAIN exps \union {e}
<1>1. CASE UNCHANGED exps
  BY <1>1
<1>2. ASSUME NEW r \in Requests, CommitExpenditure(r)
      PROVE  /\ \A e \in DOMAIN exps : e \in DOMAIN exps' /\ exps'[e] = exps[e]
             /\ DOMAIN exps' \subseteq DOMAIN exps \union {req[r].id}
  BY <1>2, ExpCommitted
<1>3. ASSUME NEW r \in Requests, CommitDeleteExpenditure(r)
      PROVE  /\ \A e \in DOMAIN exps : /\ exps'[e].budget = exps[e].budget
                                       /\ exps'[e].category = exps[e].category
                                       /\ exps'[e].tenant = exps[e].tenant
                                       /\ exps'[e].amount = exps[e].amount
             /\ DOMAIN exps' = DOMAIN exps
  <2>1. \A e \in DOMAIN exps : exps[e] \in Exp
    BY DEF IInv, TypeOK
  <2> QED
    BY <1>3, <2>1 DEF CommitDeleteExpenditure, Exp
<1> QED
  BY <1>1, <1>2, <1>3, TableSteps

LEMMA FiniteStep ==
  ASSUME IInv, TablesFinite, [Next]_vars
  PROVE  TablesFinite'
<1>1. \A S, T, x : IsFiniteSet(S) /\ T \subseteq S \union {x} => IsFiniteSet(T)
  BY FS_AddElement, FS_Subset
<1>2. IsFiniteSet(DOMAIN units')
  BY <1>1, UnitRowsStay DEF TablesFinite
<1>3. IsFiniteSet(DOMAIN budgets')
  BY <1>1, BudgetRowsStay DEF TablesFinite
<1>4. IsFiniteSet(DOMAIN exps')
  BY <1>1, ExpRowsStay DEF TablesFinite
<1> QED
  BY <1>2, <1>3, <1>4 DEF TablesFinite

\* While money is only added, what a query selects and sums does not fall.
LEMMA SelectionGrows ==
  ASSUME IInv, [Next]_vars, Grows
  PROVE  /\ \A t, k, y : OpenUnits(t, k, y) \subseteq OpenUnits(t, k, y)'
         /\ \A t, ns, ms, y : ms \subseteq ns =>
              BudgetsOf(t, ms, y) \subseteq BudgetsOf(t, ns, y)'
         /\ \A t, as, bs, cs : as \subseteq bs =>
              Live(t, as, cs) \subseteq Live(t, bs, cs)'
<1>1. \A t, k, y : OpenUnits(t, k, y) \subseteq OpenUnits(t, k, y)'
  BY UnitRowsStay DEF OpenUnits, Grows
<1>2. \A t, ns, ms, y : ms \subseteq ns => BudgetsOf(t, ms, y) \subseteq BudgetsOf(t, ns, y)'
  BY BudgetRowsStay DEF BudgetsOf
<1>3. \A t, as, bs, cs : as \subseteq bs => Live(t, as, cs) \subseteq Live(t, bs, cs)'
  BY ExpRowsStay DEF Live, Grows
<1> QED
  BY <1>1, <1>2, <1>3

\* What the sums run over, with the name of a property so that it can be had of
\* the next state.
FiguresAreWhole ==
  /\ \A b \in DOMAIN budgets : Whole(budgets[b].limit, Categories)
  /\ Whole(LimitOf, DOMAIN budgets) /\ Whole(Amount, DOMAIN exps) /\ Whole(wages, UnitIds)
  /\ \A bs : bs \subseteq DOMAIN budgets => IsFiniteSet(bs)
  /\ \A ns : ns \subseteq DOMAIN units => IsFiniteSet(ns) /\ ns \subseteq UnitIds
  /\ \A t, bs, cs : IsFiniteSet(Live(t, bs, cs)) /\ Whole(Amount, Live(t, bs, cs))

FiguresArePositive ==
  /\ \A b \in DOMAIN budgets : 0 <= LimitOf[b]
  /\ \A e \in DOMAIN exps : 0 <= Amount[e]
  /\ \A n \in UnitIds : 0 <= wages[n]

LEMMA FiguresNow ==
  TablesOK => FiguresAreWhole /\ (NoneNegative => FiguresArePositive)
BY FiguresWhole, SetsFinite, FiguresNotNegative DEF FiguresAreWhole, FiguresArePositive

LEMMA FiguresNext ==
  (TablesOK => FiguresAreWhole /\ (NoneNegative => FiguresArePositive))'
BY FiguresNow, PTL

LEMMA FiguresGrow ==
  ASSUME IInv, [Next]_vars, Grows, TablesOK, TablesOK'
  PROVE  /\ \A b \in DOMAIN budgets : LimitOf[b] <= LimitOf'[b]
         /\ \A e \in DOMAIN exps : Amount[e] <= Amount'[e]
         /\ \A n \in UnitIds : wages[n] <= wages'[n]
<1>1. FiguresAreWhole /\ FiguresAreWhole'
  BY FiguresNow, FiguresNext
<1>2. ASSUME NEW b \in DOMAIN budgets PROVE LimitOf[b] <= LimitOf'[b]
  <2>1. b \in DOMAIN budgets'
    BY BudgetRowsStay
  <2>2. Whole(budgets[b].limit, Categories) /\ Whole(budgets'[b].limit, Categories)
    BY <1>1, <2>1 DEF FiguresAreWhole
  <2>3. \A c \in Categories : budgets[b].limit[c] <= budgets'[b].limit[c]
    BY <2>2 DEF Grows, Whole
  <2>4. SumFunctionOnSet(budgets[b].limit, Categories)
          <= SumFunctionOnSet(budgets'[b].limit, Categories)
    BY <2>2, <2>3, SumGrows, WageAssumption
  <2> QED
    BY <2>1, <2>4 DEF LimitOf
<1>3. ASSUME NEW e \in DOMAIN exps PROVE Amount[e] <= Amount'[e]
  <2>1. e \in DOMAIN exps' /\ exps'[e].amount = exps[e].amount
    BY ExpRowsStay
  <2>2. exps[e].amount \in Int
    BY <1>1 DEF FiguresAreWhole, Whole, Amount
  <2> QED
    BY <2>1, <2>2 DEF Amount
<1>4. \A n \in UnitIds : wages[n] <= wages'[n]
  BY <1>1 DEF Grows, FiguresAreWhole, Whole
<1> QED
  BY <1>2, <1>3, <1>4

LEMMA SumsGrowWithTime ==
  ASSUME IInv, [Next]_vars, Grows, TablesOK, TablesOK'
  PROVE  /\ \A as, bs : as \subseteq bs /\ as \subseteq DOMAIN budgets
                          /\ bs \subseteq DOMAIN budgets'
                          => LimitsOf(as) <= LimitsOf(bs)'
         /\ \A ms, ns : ms \subseteq ns /\ ms \subseteq DOMAIN units /\ ns \subseteq DOMAIN units'
                          => WagesOf(ms) <= WagesOf(ns)'
         /\ \A t, as, bs, cs : as \subseteq bs => ChargedTo(t, as, cs) <= ChargedTo(t, bs, cs)'
<1>1. NoneNegative'
  BY DEF Grows
<1>2. FiguresAreWhole /\ FiguresAreWhole' /\ FiguresArePositive'
  BY <1>1, FiguresNow, FiguresNext
<1>3. ASSUME NEW as, NEW bs, as \subseteq bs, as \subseteq DOMAIN budgets,
             bs \subseteq DOMAIN budgets'
      PROVE  LimitsOf(as) <= LimitsOf(bs)'
  <2>1. IsFiniteSet(bs) /\ Whole(LimitOf, as) /\ Whole(LimitOf', bs)
    BY <1>2, <1>3 DEF FiguresAreWhole, Whole
  <2>2. \A b \in as : LimitOf[b] <= LimitOf'[b]
    BY <1>3, FiguresGrow
  <2>3. \A b \in bs : 0 <= LimitOf'[b]
    BY <1>2, <1>3 DEF FiguresArePositive
  <2>4. SumFunctionOnSet(LimitOf, as) <= SumFunctionOnSet(LimitOf', bs)
    BY <1>3, <2>1, <2>2, <2>3, SumGrows
  <2> QED
    BY <2>4 DEF LimitsOf
<1>4. ASSUME NEW ms, NEW ns, ms \subseteq ns, ms \subseteq DOMAIN units, ns \subseteq DOMAIN units'
      PROVE  WagesOf(ms) <= WagesOf(ns)'
  <2>1. IsFiniteSet(ns) /\ ns \subseteq UnitIds /\ Whole(wages, ms) /\ Whole(wages', ns)
    BY <1>2, <1>4 DEF FiguresAreWhole, Whole
  <2>2. \A n \in ms : wages[n] <= wages'[n]
    BY <1>4, <2>1, FiguresGrow
  <2>3. \A n \in ns : 0 <= wages'[n]
    BY <1>2, <2>1 DEF FiguresArePositive
  <2>4. SumFunctionOnSet(wages, ms) <= SumFunctionOnSet(wages', ns)
    BY <1>4, <2>1, <2>2, <2>3, SumGrows
  <2> QED
    BY <2>4 DEF WagesOf
<1>5. ASSUME NEW t, NEW as, NEW bs, NEW cs, as \subseteq bs
      PROVE  ChargedTo(t, as, cs) <= ChargedTo(t, bs, cs)'
  <2>1. /\ Live(t, as, cs) \subseteq Live(t, bs, cs)'
        /\ Live(t, as, cs) \subseteq DOMAIN exps /\ Live(t, bs, cs)' \subseteq DOMAIN exps'
    BY <1>5, SelectionGrows DEF Live
  <2>2. /\ IsFiniteSet(Live(t, bs, cs)')
        /\ Whole(Amount, Live(t, as, cs)) /\ Whole(Amount', Live(t, bs, cs)')
    BY <1>2 DEF FiguresAreWhole
  <2>3. \A e \in Live(t, as, cs) : Amount[e] <= Amount'[e]
    BY <2>1, FiguresGrow
  <2>4. \A e \in Live(t, bs, cs)' : 0 <= Amount'[e]
    BY <1>2, <2>1 DEF FiguresArePositive
  <2>5. SumFunctionOnSet(Amount, Live(t, as, cs)) <= SumFunctionOnSet(Amount', Live(t, bs, cs)')
    BY <2>1, <2>2, <2>3, <2>4, SumGrows
  <2> QED
    BY <2>5 DEF ChargedTo, Live
<1> QED
  BY <1>3, <1>4, <1>5
-----------------------------------------------------------------------------
(* The inductive invariant.                                                *)

UnitsOpen(q) == q.units \subseteq OpenUnits(UserTenant[q.user], q.kind, q.year)
ListKnown(q) == q.list \subseteq BudgetsOf(UserTenant[q.user], q.units, q.year)

FloorBelow(q, money) == q.floor.total <= money.total /\ q.floor.spent <= money.spent

\* What was there when the report began is still to be read, all of it or the
\* rest of it, and what was read of it is still there.
UnitsAhead(q) == FloorBelow(q, Money(q.op, UserTenant[q.user], q.kind, q.year))

BudgetsAhead(q) ==
  UnitsOpen(q) /\ FloorBelow(q, MoneyOf(q.op, UserTenant[q.user], q.units, q.year))

TotalRead(q) ==
  /\ UnitsOpen(q) /\ ListKnown(q)
  /\ q.floor.total <= q.total /\ q.total <= LimitsOf(q.list)

WagesAhead(q) ==
  /\ q.op = "summary" /\ TotalRead(q)
  /\ q.floor.spent <= WagesOf(q.units) + ChargedTo(UserTenant[q.user], q.list, q.unread)

SpendingAhead(q) ==
  /\ TotalRead(q)
  /\ q.floor.spent <= q.spent + ChargedTo(UserTenant[q.user], q.list, q.unread)
  /\ q.spent <= Paid(q.op, q.units)
                  + ChargedTo(UserTenant[q.user], q.list, Cats(q.op) \ q.unread)

Between(q) ==
  LET now == Money(q.op, UserTenant[q.user], q.kind, q.year)
  IN  /\ q.floor.total <= q.total /\ q.total <= now.total
      /\ q.floor.spent <= q.spent /\ q.spent <= now.spent

\* What holds of a report at each stage while money is only added.
SteadyOK(q) ==
  /\ NoneNegative
  /\ q.at = "units" => UnitsAhead(q)
  /\ q.at = "budgets" => BudgetsAhead(q)
  /\ q.at = "wages" => WagesAhead(q)
  /\ q.at = "spending" => SpendingAhead(q)
  /\ q.at = "done" => Between(q)

\* Nothing is spent before it is read, and an alert is that of the figures read.
FiguresOK(q) ==
  /\ q.at \in {"units", "budgets", "wages"} => q.spent = 0 /\ q.unread = Cats(q.op) /\ ~q.alert
  /\ q.at \in {"units", "budgets"} => q.total = 0 /\ q.list = {}
  /\ q.at = "wages" => q.op = "summary"
  /\ q.at = "spending" => q.unread \subseteq Cats(q.op)
  /\ q.at = "done" /\ q.op = "alerts" => (q.alert <=> Alerted(q.spent, q.total))

Right(q) == FiguresOK(q) /\ (q.steady => SteadyOK(q))

ReportOK == report # NoReport => Right(report)

\* What is looked up depends on the tables alone.
LEMMA SameTables ==
  ASSUME UNCHANGED <<vars, wages>>
  PROVE  /\ NoneNegative' <=> NoneNegative
         /\ \A bs : LimitsOf(bs)' = LimitsOf(bs)
         /\ \A ns : WagesOf(ns)' = WagesOf(ns)
         /\ \A op, ns : Paid(op, ns)' = Paid(op, ns)
         /\ \A t, bs, cs : ChargedTo(t, bs, cs)' = ChargedTo(t, bs, cs)
         /\ \A t, k, y : OpenUnits(t, k, y)' = OpenUnits(t, k, y)
         /\ \A t, ns, y : BudgetsOf(t, ns, y)' = BudgetsOf(t, ns, y)
         /\ \A op, t, ns, y : MoneyOf(op, t, ns, y)' = MoneyOf(op, t, ns, y)
         /\ \A op, t, k, y : Money(op, t, k, y)' = Money(op, t, k, y)
<1> UNCHANGED <<units, budgets, exps, wages>>
  BY DEF vars
<1>1. NoneNegative' <=> NoneNegative
  BY DEF NoneNegative
<1>2. LimitOf' = LimitOf /\ Amount' = Amount
  BY DEF LimitOf, Amount
<1>3. \A bs : LimitsOf(bs)' = LimitsOf(bs)
  BY <1>2 DEF LimitsOf
<1>4. \A ns : WagesOf(ns)' = WagesOf(ns)
  BY DEF WagesOf
<1>5. \A op, ns : Paid(op, ns)' = Paid(op, ns)
  BY <1>4 DEF Paid
<1>6. \A t, bs, cs : ChargedTo(t, bs, cs)' = ChargedTo(t, bs, cs)
  BY <1>2 DEF ChargedTo
<1>7. \A t, k, y : OpenUnits(t, k, y)' = OpenUnits(t, k, y)
  BY DEF OpenUnits
<1>8. \A t, ns, y : BudgetsOf(t, ns, y)' = BudgetsOf(t, ns, y)
  BY DEF BudgetsOf
<1>9. \A op, t, ns, y : MoneyOf(op, t, ns, y)' = MoneyOf(op, t, ns, y)
  BY <1>2, <1>3, <1>4, <1>8 DEF MoneyOf
<1>10. \A op, t, k, y : Money(op, t, k, y)' = Money(op, t, k, y)
  BY <1>7, <1>9 DEF Money
<1> QED
  BY <1>1, <1>3, <1>4, <1>5, <1>6, <1>7, <1>8, <1>9, <1>10

LEMMA SelectionsKnown ==
  /\ \A t, k, y : OpenUnits(t, k, y) \subseteq DOMAIN units
  /\ \A t, ns, y : BudgetsOf(t, ns, y) \subseteq DOMAIN budgets
  /\ \A t, ns, ms, y : ms \subseteq ns => BudgetsOf(t, ms, y) \subseteq BudgetsOf(t, ns, y)
BY DEF OpenUnits, BudgetsOf

SumsInt ==
  /\ \A bs : bs \subseteq DOMAIN budgets => LimitsOf(bs) \in Int
  /\ \A ns : ns \subseteq DOMAIN units => WagesOf(ns) \in Int
  /\ \A t, bs, cs : ChargedTo(t, bs, cs) \in Int
  /\ \A op, ns : ns \subseteq DOMAIN units => Paid(op, ns) \in Int
  /\ \A op, t, ns, y : ns \subseteq DOMAIN units =>
       MoneyOf(op, t, ns, y).total \in Int /\ MoneyOf(op, t, ns, y).spent \in Int

LEMMA SumsIntNow == TablesOK => SumsInt
<1> SUFFICES ASSUME TablesOK PROVE SumsInt
  OBVIOUS
<1>1. \A op, ns : ns \subseteq DOMAIN units => Paid(op, ns) \in Int
  BY SumsAreInt DEF Paid
<1>2. ASSUME NEW op, NEW t, NEW ns, NEW y, ns \subseteq DOMAIN units
      PROVE  MoneyOf(op, t, ns, y).total \in Int /\ MoneyOf(op, t, ns, y).spent \in Int
  <2>1. /\ LimitsOf(BudgetsOf(t, ns, y)) \in Int
        /\ ChargedTo(t, BudgetsOf(t, ns, y), Cats(op)) \in Int
    BY SumsAreInt, SelectionsKnown
  <2> QED
    BY <1>1, <1>2, <2>1, MoneyIs DEF MoneyParts
<1> QED
  BY <1>1, <1>2, SumsAreInt DEF SumsInt

LEMMA SumsIntNext == (TablesOK => SumsInt)'
BY SumsIntNow, PTL

LEMMA MoneyGrows ==
  ASSUME IInv, [Next]_vars, Grows, TablesOK, TablesOK',
         NEW op, NEW t, NEW y, NEW ms, NEW ns,
         ms \subseteq ns, ms \subseteq DOMAIN units, ns \subseteq DOMAIN units'
  PROVE  /\ MoneyOf(op, t, ms, y).total <= MoneyOf(op, t, ns, y)'.total
         /\ MoneyOf(op, t, ms, y).spent <= MoneyOf(op, t, ns, y)'.spent
         /\ Paid(op, ms) <= Paid(op, ns)'
<1>1. MoneyParts /\ MoneyParts' /\ SumsInt /\ SumsInt'
  BY MoneyIs, MoneyIsNext, SumsIntNow, SumsIntNext
<1>2. PICK as : as = BudgetsOf(t, ms, y)
  OBVIOUS
<1>3. PICK bs : bs = BudgetsOf(t, ns, y)'
  OBVIOUS
<1>4. PICK cs : cs = Cats(op)
  OBVIOUS
<1>5. PICK old : old = MoneyOf(op, t, ms, y)
  OBVIOUS
<1>6. PICK new : new = MoneyOf(op, t, ns, y)'
  OBVIOUS
<1>7. as \subseteq bs /\ as \subseteq DOMAIN budgets /\ bs \subseteq DOMAIN budgets'
  <2>1. BudgetsOf(t, ms, y) \subseteq BudgetsOf(t, ns, y)'
    BY SelectionGrows
  <2>2. /\ BudgetsOf(t, ms, y) \subseteq DOMAIN budgets
        /\ BudgetsOf(t, ns, y)' \subseteq DOMAIN budgets'
    BY DEF BudgetsOf
  <2> QED
    BY <1>2, <1>3, <2>1, <2>2
<1>8. LimitsOf(as) <= LimitsOf(bs)' /\ ChargedTo(t, as, cs) <= ChargedTo(t, bs, cs)'
  BY <1>7, SumsGrowWithTime
<1>9. Paid(op, ms) <= Paid(op, ns)'
  BY <1>1, SumsGrowWithTime DEF Paid
<1>10. /\ ChargedTo(t, as, cs) \in Int /\ Paid(op, ms) \in Int
       /\ ChargedTo(t, bs, cs)' \in Int /\ Paid(op, ns)' \in Int
  BY <1>1 DEF SumsInt
<1>11. old.total = LimitsOf(as) /\ old.spent = ChargedTo(t, as, cs) + Paid(op, ms)
  BY <1>1, <1>2, <1>4, <1>5 DEF MoneyParts
<1>12. cs = Cats(op)'
  BY <1>4 DEF Cats
<1>13. new.total = LimitsOf(bs)' /\ new.spent = ChargedTo(t, bs, cs)' + Paid(op, ns)'
  BY <1>1, <1>3, <1>12, <1>6 DEF MoneyParts
<1>14. old.total <= new.total
  BY <1>8, <1>11, <1>13
<1>15. \A a, b, c, d \in Int : a <= c /\ b <= d => a + b <= c + d
  OBVIOUS
<1>16. ChargedTo(t, as, cs) + Paid(op, ms) <= ChargedTo(t, bs, cs)' + Paid(op, ns)'
  BY <1>8, <1>9, <1>10, <1>15
<1>17. old.spent <= new.spent
  BY <1>11, <1>13, <1>16
<1> QED
  BY <1>5, <1>6, <1>9, <1>14, <1>17

\* What a report can find in a set of units, it can find in a larger one.
LEMMA MoneyGrowsWithUnits ==
  ASSUME TablesOK, NoneNegative,
         NEW op, NEW t, NEW y, NEW ms, NEW ns, ms \subseteq ns, ns \subseteq DOMAIN units,
         NEW bs, bs \subseteq BudgetsOf(t, ms, y)
  PROVE  /\ LimitsOf(bs) <= MoneyOf(op, t, ns, y).total
         /\ Paid(op, ms) + ChargedTo(t, bs, Cats(op)) <= MoneyOf(op, t, ns, y).spent
<1>1. MoneyParts /\ SumsInt
  BY MoneyIs, SumsIntNow
<1> DEFINE all == BudgetsOf(t, ns, y)
<1>2. bs \subseteq all /\ all \subseteq DOMAIN budgets
  BY SelectionsKnown
<1>3. LimitsOf(bs) <= LimitsOf(all)
  BY <1>2, SumsGrowWithSets
<1>4. ChargedTo(t, bs, Cats(op)) <= ChargedTo(t, all, Cats(op))
  BY <1>2, SumsGrowWithSets
<1>5. Paid(op, ms) <= Paid(op, ns)
  BY SumsGrowWithSets DEF Paid
<1>6. /\ ChargedTo(t, bs, Cats(op)) \in Int /\ Paid(op, ms) \in Int
      /\ ChargedTo(t, all, Cats(op)) \in Int /\ Paid(op, ns) \in Int
  BY <1>1 DEF SumsInt
<1>7. /\ MoneyOf(op, t, ns, y).total = LimitsOf(all)
      /\ MoneyOf(op, t, ns, y).spent = ChargedTo(t, all, Cats(op)) + Paid(op, ns)
  BY <1>1 DEF MoneyParts
<1> QED
  BY <1>3, <1>4, <1>5, <1>6, <1>7

LEMMA SumAtMost ==
  /\ \A a, b, c \in Int : a <= b /\ b <= c => a <= c
  /\ \A a, b, c, d, e \in Int : a <= b + c /\ b <= d /\ c <= e => a <= d + e
OBVIOUS

MoneyIsOfOpenUnits ==
  \A op, t, k, y, ns :
    ns = OpenUnits(t, k, y) => Money(op, t, k, y) = MoneyOf(op, t, ns, y)

LEMMA OpenMoneyNow == MoneyIsOfOpenUnits
BY DEF MoneyIsOfOpenUnits, Money

LEMMA OpenMoneyNext == MoneyIsOfOpenUnits'
BY OpenMoneyNow, PTL

LEMMA ReportFields ==
  \A q \in Report :
    /\ q.op \in Op /\ q.user \in Users /\ q.total \in Int /\ q.spent \in Int
    /\ q.floor.total \in Int /\ q.floor.spent \in Int
    /\ q.at \in {"units", "budgets", "wages", "spending", "done"}
    /\ q.steady \in BOOLEAN /\ q.alert \in BOOLEAN
    /\ q.units \subseteq UnitIds /\ q.list \subseteq BudgetIds /\ q.unread \subseteq Categories
BY DEF Report

\* While money is only added, a report that is being read stays right.
LEMMA SteadyStays ==
  ASSUME IInv, [Next]_vars, Grows, TablesOK, TablesOK',
         NEW q \in Report, SteadyOK(q), q.at # "done"
  PROVE  SteadyOK(q)'
<1> DEFINE t == UserTenant[q.user]
<1>1. q.floor.total \in Int /\ q.floor.spent \in Int /\ q.total \in Int /\ q.spent \in Int
  BY ReportFields
<1>2. SumsInt /\ SumsInt'
  BY SumsIntNow, SumsIntNext
<1>3. NoneNegative'
  BY DEF Grows
<1>4. PICK ms : ms = OpenUnits(t, q.kind, q.year)
  OBVIOUS
<1>5. PICK ns : ns = OpenUnits(t, q.kind, q.year)'
  OBVIOUS
<1>6. ms \subseteq ns /\ ms \subseteq DOMAIN units /\ ns \subseteq DOMAIN units'
  <2>1. OpenUnits(t, q.kind, q.year) \subseteq OpenUnits(t, q.kind, q.year)'
    BY SelectionGrows
  <2>2. ns \subseteq DOMAIN units'
    BY <1>5 DEF OpenUnits
  <2> QED
    BY <1>4, <1>5, <2>1, <2>2, SelectionsKnown
<1>7. ASSUME q.at = "units" PROVE UnitsAhead(q)'
  <2>1. PICK old : old = MoneyOf(q.op, t, ms, q.year)
    OBVIOUS
  <2>2. PICK new : new = MoneyOf(q.op, t, ns, q.year)'
    OBVIOUS
  <2>3. FloorBelow(q, old)
    BY <1>4, <1>7, <2>1, OpenMoneyNow DEF SteadyOK, UnitsAhead, MoneyIsOfOpenUnits
  <2>4. old.total <= new.total /\ old.spent <= new.spent
    BY <1>6, <2>1, <2>2, MoneyGrows
  <2>5. old.total \in Int /\ old.spent \in Int /\ new.total \in Int /\ new.spent \in Int
    BY <1>2, <1>6, <2>1, <2>2 DEF SumsInt
  <2>6. FloorBelow(q, new)
    BY <1>1, <2>3, <2>4, <2>5, SumAtMost DEF FloorBelow
  <2>7. Money(q.op, t, q.kind, q.year)' = new
    BY <1>5, <2>2, OpenMoneyNext DEF MoneyIsOfOpenUnits
  <2> QED
    BY <2>6, <2>7 DEF UnitsAhead, FloorBelow
<1>8. UnitsOpen(q) =>
        UnitsOpen(q)' /\ q.units \subseteq DOMAIN units /\ q.units \subseteq DOMAIN units'
  BY <1>4, <1>5, <1>6 DEF UnitsOpen
<1>9. ASSUME q.at = "budgets" PROVE BudgetsAhead(q)'
  <2>1. PICK old : old = MoneyOf(q.op, t, q.units, q.year)
    OBVIOUS
  <2>2. PICK new : new = MoneyOf(q.op, t, q.units, q.year)'
    OBVIOUS
  <2>3. UnitsOpen(q) /\ FloorBelow(q, old)
    BY <1>9, <2>1 DEF SteadyOK, BudgetsAhead
  <2>4. old.total <= new.total /\ old.spent <= new.spent
    BY <1>8, <2>1, <2>2, <2>3, MoneyGrows
  <2>5. old.total \in Int /\ old.spent \in Int /\ new.total \in Int /\ new.spent \in Int
    BY <1>2, <1>8, <2>1, <2>2, <2>3 DEF SumsInt
  <2>6. FloorBelow(q, new)
    BY <1>1, <2>3, <2>4, <2>5, SumAtMost DEF FloorBelow
  <2> QED
    BY <1>8, <2>2, <2>3, <2>6 DEF BudgetsAhead, FloorBelow
<1>10. ASSUME TotalRead(q)
       PROVE  /\ TotalRead(q)' /\ q.units \subseteq DOMAIN units /\ q.units \subseteq DOMAIN units'
              /\ \A cs : ChargedTo(t, q.list, cs) <= ChargedTo(t, q.list, cs)'
  <2>1. UnitsOpen(q) /\ ListKnown(q) /\ q.total <= LimitsOf(q.list)
    BY <1>10 DEF TotalRead
  <2>2. BudgetsOf(t, q.units, q.year) \subseteq BudgetsOf(t, q.units, q.year)'
    BY SelectionGrows
  <2>3. ListKnown(q)'
    BY <2>1, <2>2 DEF ListKnown
  <2>4. q.list \subseteq DOMAIN budgets
    BY <2>1, SelectionsKnown DEF ListKnown
  <2>5. q.list \subseteq DOMAIN budgets'
    BY <2>4, BudgetRowsStay
  <2>6. /\ LimitsOf(q.list) <= LimitsOf(q.list)'
        /\ \A cs : ChargedTo(t, q.list, cs) <= ChargedTo(t, q.list, cs)'
    BY <2>4, <2>5, SumsGrowWithTime
  <2>7. LimitsOf(q.list) \in Int /\ LimitsOf(q.list)' \in Int
    BY <1>2, <2>4, <2>5 DEF SumsInt
  <2>8. q.total <= LimitsOf(q.list)'
    BY <1>1, <2>1, <2>6, <2>7, SumAtMost
  <2> QED
    BY <1>8, <1>10, <2>1, <2>3, <2>6, <2>8 DEF TotalRead
<1>11. ASSUME q.at = "wages" PROVE WagesAhead(q)'
  <2>1. WagesAhead(q) /\ TotalRead(q)
    BY <1>11 DEF SteadyOK, WagesAhead
  <2>2. WagesOf(q.units) <= WagesOf(q.units)'
    BY <1>10, <2>1, SumsGrowWithTime
  <2>3. ChargedTo(t, q.list, q.unread) <= ChargedTo(t, q.list, q.unread)'
    BY <1>10, <2>1
  <2>4. /\ WagesOf(q.units) \in Int /\ WagesOf(q.units)' \in Int
        /\ ChargedTo(t, q.list, q.unread) \in Int /\ ChargedTo(t, q.list, q.unread)' \in Int
    BY <1>2, <1>10, <2>1 DEF SumsInt
  <2>5. q.floor.spent <= WagesOf(q.units) + ChargedTo(t, q.list, q.unread)
    BY <2>1 DEF WagesAhead
  <2>6. q.floor.spent <= WagesOf(q.units)' + ChargedTo(t, q.list, q.unread)'
    BY <1>1, <2>2, <2>3, <2>4, <2>5, SumAtMost
  <2> QED
    BY <1>10, <2>1, <2>6 DEF WagesAhead
<1>12. ASSUME q.at = "spending" PROVE SpendingAhead(q)'
  <2>1. SpendingAhead(q) /\ TotalRead(q)
    BY <1>12 DEF SteadyOK, SpendingAhead
  <2>2. PICK cs : cs = Cats(q.op) \ q.unread
    OBVIOUS
  <2>3. /\ ChargedTo(t, q.list, q.unread) <= ChargedTo(t, q.list, q.unread)'
        /\ ChargedTo(t, q.list, cs) <= ChargedTo(t, q.list, cs)'
    BY <1>10, <2>1
  <2>4. Paid(q.op, q.units) <= Paid(q.op, q.units)'
    BY <1>10, <2>1, MoneyGrows
  <2>5. /\ Paid(q.op, q.units) \in Int /\ Paid(q.op, q.units)' \in Int
        /\ ChargedTo(t, q.list, q.unread) \in Int /\ ChargedTo(t, q.list, q.unread)' \in Int
        /\ ChargedTo(t, q.list, cs) \in Int /\ ChargedTo(t, q.list, cs)' \in Int
    BY <1>2, <1>10, <2>1 DEF SumsInt
  <2>6. /\ q.floor.spent <= q.spent + ChargedTo(t, q.list, q.unread)
        /\ q.spent <= Paid(q.op, q.units) + ChargedTo(t, q.list, cs)
    BY <2>1, <2>2 DEF SpendingAhead
  <2>7. q.floor.spent <= q.spent + ChargedTo(t, q.list, q.unread)'
    BY <1>1, <2>3, <2>5, <2>6
  <2>8. q.spent <= Paid(q.op, q.units)' + ChargedTo(t, q.list, cs)'
    BY <1>1, <2>3, <2>4, <2>5, <2>6, SumAtMost
  <2>9. Cats(q.op)' \ q.unread = cs
    BY <2>2 DEF Cats
  <2> QED
    BY <1>10, <2>1, <2>7, <2>8, <2>9 DEF SpendingAhead
<1> QED
  BY <1>3, <1>7, <1>9, <1>11, <1>12 DEF SteadyOK
-----------------------------------------------------------------------------
(* The steps: of the tables, or of a report that leaves them alone.        *)

LEMMA DashboardSteps ==
  [DashboardNext]_dashboard =>
    \/ UNCHANGED dashboard
    \/ Next /\ UNCHANGED wages /\ Observed
    \/ \E n \in UnitIds, sum \in Wages : PayWages(n, sum)
    \/ UNCHANGED <<vars, wages>>
       /\ \/ \E op \in Op, u \in Users, kind \in Kinds \union {Market}, year \in Years :
               BeginReport(op, u, kind, year)
          \/ ReadUnits \/ ReadBudgets \/ ReadWages
          \/ \E cs \in SUBSET Categories : ReadSpending(cs)
BY DEF DashboardNext, BeginReport, ReadUnits, ReadBudgets, ReadWages, ReadSpending, Read

\* The tables know nothing of the reports: each step is one of Budgets or
\* leaves the tables alone.
THEOREM TablesAreBudgets == DashboardSpec => Spec
<1>1. DashboardInit => Init
  BY DEF DashboardInit
<1>2. [DashboardNext]_dashboard => [Next]_vars
  BY DashboardSteps DEF dashboard, PayWages
<1> QED
  BY <1>1, <1>2, PTL DEF DashboardSpec, Spec

WagesOK == wages \in [UnitIds -> Wages]

LEMMA TablesInvariant == DashboardSpec => [](IInv /\ TablesOK)
<1>1. DashboardInit => TablesFinite /\ WagesOK
  BY FS_EmptySet, WageAssumption DEF DashboardInit, Init, TablesFinite, WagesOK
<1>2. ASSUME IInv, TablesFinite, WagesOK, [DashboardNext]_dashboard, [Next]_vars
      PROVE  TablesFinite' /\ WagesOK'
  <2>1. WagesOK'
    BY <1>2, DashboardSteps DEF WagesOK, PayWages, dashboard
  <2> QED
    BY <1>2, <2>1, FiniteStep
<1>3. IInv /\ SpendingStaysInTenant /\ TablesFinite /\ WagesOK => TablesOK
  BY DEF IInv, TablesOK, WagesOK
<1>4. [DashboardNext]_dashboard => [Next]_vars
  BY DashboardSteps DEF dashboard, PayWages
<1> QED
  BY <1>1, <1>2, <1>3, <1>4, TablesAreBudgets, Invariance, TenantSpending, PTL DEF DashboardSpec

-----------------------------------------------------------------------------
(* The shape of a report.                                                  *)

ReportTyped == report \in Report \union {NoReport}
UnitsKnown == report # NoReport => report.units \subseteq DOMAIN units

\* A business unit that was found does not go away.
LEMMA UnitsKnownStep ==
  ASSUME IInv, ReportTyped, UnitsKnown, [DashboardNext]_dashboard
  PROVE  UnitsKnown'
<1>1. Observed /\ report' # NoReport => report # NoReport /\ report'.units = report.units
  BY DEF Observed, ReportTyped, Ready, Report
<1>2. CASE UNCHANGED dashboard
  BY <1>2 DEF dashboard, vars, UnitsKnown
<1>3. CASE Next /\ UNCHANGED wages /\ Observed
  BY <1>1, <1>3, UnitRowsStay DEF UnitsKnown
<1>4. ASSUME NEW n, NEW sum, PayWages(n, sum) PROVE UnitsKnown'
  BY <1>1, <1>4 DEF PayWages, vars, UnitsKnown
<1>5. ASSUME UNCHANGED <<vars, wages>>,
             \/ \E op \in Op, u \in Users, kind \in Kinds \union {Market}, year \in Years :
                  BeginReport(op, u, kind, year)
             \/ ReadUnits \/ ReadBudgets \/ ReadWages
             \/ \E cs \in SUBSET Categories : ReadSpending(cs)
      PROVE  UnitsKnown'
  <2>1. UNCHANGED units
    BY <1>5 DEF vars
  <2>2. ASSUME NEW op, NEW u, NEW kind, NEW year, BeginReport(op, u, kind, year)
        PROVE  report'.units = {}
    BY <2>2 DEF BeginReport, Read
  <2>3. ASSUME ReadUnits PROVE report'.units \subseteq DOMAIN units
    BY <2>3, SelectionsKnown DEF ReadUnits, Read, Reading, ReportTyped, Report
  <2>4. ASSUME ReadBudgets \/ ReadWages PROVE report # NoReport /\ report'.units = report.units
    BY <2>4 DEF ReadBudgets, ReadWages, Read, Reading, ReportTyped, Report
  <2>5. ASSUME NEW cs, ReadSpending(cs) PROVE report # NoReport /\ report'.units = report.units
    BY <2>5 DEF ReadSpending, Read, Reading, ReportTyped, Report
  <2> QED
    BY <1>5, <2>1, <2>2, <2>3, <2>4, <2>5 DEF UnitsKnown
<1> QED
  BY <1>2, <1>3, <1>4, <1>5, DashboardSteps

LEMMA ObservedTyped ==
  ASSUME ReportTyped, Observed
  PROVE  ReportTyped'
<1> DEFINE grows == Grows
<1>1. CASE Ready
  BY <1>1 DEF Observed, ReportTyped
<1>2. CASE ~Ready
  <2>1. report \in Report
    BY <1>2 DEF Ready, ReportTyped
  <2>2. report' = [report EXCEPT !.steady = @ /\ grows]
    BY <1>2 DEF Observed
  <2>3. report.steady \in BOOLEAN
    BY <2>1, ReportFields
  <2> HIDE DEF grows
  <2> QED
    BY <2>1, <2>2, <2>3 DEF ReportTyped, Report
<1> QED
  BY <1>1, <1>2

LEMMA BeginTyped ==
  ASSUME TablesOK, NEW op \in Op, NEW u \in Users, NEW kind \in Kinds \union {Market},
         NEW year \in Years, BeginReport(op, u, kind, year)
  PROVE  ReportTyped'
<1> DEFINE money == Money(op, UserTenant[u], kind, year)
           steady == NoneNegative
<1>1. money.total \in Int /\ money.spent \in Int
  BY SumsIntNow, SelectionsKnown DEF SumsInt, Money
<1>2. money = [total |-> money.total, spent |-> money.spent]
  BY DEF Money, MoneyOf
<1>3. money \in [total : Int, spent : Int]
  BY <1>1, <1>2
<1>4. Cats(op) \subseteq Categories
  BY DEF Cats
<1>5. steady \in BOOLEAN
  BY DEF NoneNegative
<1>6. report' = [op |-> op, user |-> u, kind |-> kind, year |-> year, at |-> "units",
                 units |-> {}, list |-> {}, unread |-> Cats(op),
                 total |-> 0, spent |-> 0, alert |-> FALSE, floor |-> money, steady |-> steady]
  BY DEF BeginReport, Read, Cats
<1> HIDE DEF money, steady
<1> QED
  BY <1>3, <1>4, <1>5, <1>6 DEF ReportTyped, Report

LEMMA ReadTyped ==
  ASSUME TablesOK, ReportTyped, UnitsKnown,
         \/ ReadUnits \/ ReadBudgets \/ ReadWages
         \/ \E cs \in SUBSET Categories : ReadSpending(cs)
  PROVE  ReportTyped'
<1>1. report \in Report
  BY DEF ReportTyped, ReadUnits, ReadBudgets, ReadWages, ReadSpending, Reading
<1> DEFINE t == UserTenant[report.user]
<1>2. CASE ReadUnits
  <2> DEFINE ns == OpenUnits(t, report.kind, report.year)
  <2>1. ns \subseteq UnitIds
    BY SelectionsKnown DEF TablesOK, TypeOK
  <2>2. report' = [report EXCEPT !.units = ns, !.at = IF ns = {} THEN "done" ELSE "budgets"]
    BY <1>2 DEF ReadUnits, Read
  <2> HIDE DEF ns
  <2> QED
    BY <1>1, <2>1, <2>2 DEF ReportTyped, Report
<1>3. CASE ReadBudgets
  <2> DEFINE bs == BudgetsOf(t, report.units, report.year)
             at == IF report.op = "summary" THEN "wages" ELSE IF bs = {} THEN "done" ELSE "spending"
             total == LimitsOf(bs)
  <2>1. bs \subseteq BudgetIds
    BY SelectionsKnown DEF TablesOK, TypeOK
  <2>2. total \in Int
    BY SumsIntNow, SelectionsKnown DEF SumsInt
  <2>3. report' = [report EXCEPT !.list = bs, !.total = total, !.at = at]
    BY <1>3 DEF ReadBudgets, Read
  <2> HIDE DEF bs, total
  <2> QED
    BY <1>1, <2>1, <2>2, <2>3 DEF ReportTyped, Report
<1>4. CASE ReadWages
  <2>1. PICK spent : spent = WagesOf(report.units)
    OBVIOUS
  <2>2. report' = [report EXCEPT !.spent = spent,
                     !.at = IF report.list = {} THEN "done" ELSE "spending"]
    BY <1>4, <2>1 DEF ReadWages, Read
  <2>3. report.units \subseteq DOMAIN units
    BY <1>4 DEF ReadWages, Reading, UnitsKnown
  <2>4. spent \in Int
    BY <2>1, <2>3, SumsIntNow DEF SumsInt
  <2> QED
    BY <1>1, <2>2, <2>4 DEF ReportTyped, Report
<1>5. ASSUME NEW cs \in SUBSET Categories, ReadSpending(cs) PROVE ReportTyped'
  <2>1. PICK spent : spent = report.spent + ChargedTo(t, report.list, cs)
    OBVIOUS
  <2> DEFINE alert == report.op = "alerts" /\ Alerted(spent, report.total)
             at == IF cs = report.unread THEN "done" ELSE "spending"
  <2>2. spent \in Int
    BY <1>1, <2>1, SumsIntNow, ReportFields DEF SumsInt
  <2>3. report' = [report EXCEPT !.spent = spent, !.unread = @ \ cs, !.alert = alert, !.at = at]
    BY <1>5, <2>1 DEF ReadSpending, Read
  <2>4. alert \in BOOLEAN /\ at \in {"done", "spending"}
    OBVIOUS
  <2> HIDE DEF alert, at
  <2>5. report.unread \ cs \subseteq Categories
    BY <1>1, ReportFields
  <2> QED
    BY <1>1, <2>2, <2>3, <2>4, <2>5 DEF ReportTyped, Report
<1> QED
  BY <1>2, <1>3, <1>4, <1>5

LEMMA TypedStep ==
  ASSUME IInv, TablesOK, ReportTyped, UnitsKnown, [DashboardNext]_dashboard
  PROVE  ReportTyped'
<1>1. UNCHANGED dashboard => ReportTyped'
  BY DEF dashboard, ReportTyped
<1>2. ASSUME NEW n, NEW sum, PayWages(n, sum) PROVE ReportTyped'
  BY <1>2, ObservedTyped DEF PayWages
<1> QED
  BY <1>1, <1>2, DashboardSteps, ObservedTyped, BeginTyped, ReadTyped

TypedInv == IInv /\ TablesOK /\ ReportTyped /\ UnitsKnown

LEMMA TypedInvariant == DashboardSpec => []TypedInv
<1>1. DashboardInit => ReportTyped /\ UnitsKnown
  BY DEF DashboardInit, ReportTyped, UnitsKnown
<1>2. IInv /\ TablesOK /\ ReportTyped /\ UnitsKnown /\ [DashboardNext]_dashboard
        => ReportTyped' /\ UnitsKnown'
  BY TypedStep, UnitsKnownStep
<1>3. IInv /\ TablesOK /\ ReportTyped /\ UnitsKnown <=> TypedInv
  BY DEF TypedInv
<1> QED
  BY <1>1, <1>2, <1>3, TablesInvariant, PTL DEF DashboardSpec

\* The tables, and a report being read, keep their shape: every figure is an
\* integer, since what it sums is finite.
THEOREM DashboardTypes == DashboardSpec => []DashboardTypeOK
<1>1. TypedInv => DashboardTypeOK
  BY DEF TypedInv, TablesOK, ReportTyped, DashboardTypeOK
<1> QED
  BY <1>1, TypedInvariant, PTL

-----------------------------------------------------------------------------
(* The figures of a report.                                                *)

\* Requests and payrolls: a report either stays steady or says no more.
LEMMA ObservedRight ==
  ASSUME IInv, [Next]_vars, TablesOK, TablesOK', ReportTyped, ReportOK, Observed
  PROVE  ReportOK'
<1> DEFINE grows == Grows
<1>1. CASE Ready
  BY <1>1 DEF Observed, ReportOK
<1>2. CASE ~Ready
  <2>1. PICK q \in Report : q = report /\ q.at # "done"
    BY <1>2 DEF Ready, ReportTyped
  <2>2. PICK p : p = report'
    OBVIOUS
  <2>3. p = [q EXCEPT !.steady = @ /\ grows]
    BY <1>2, <2>1, <2>2 DEF Observed
  <2>4. FiguresOK(q) /\ (q.steady => SteadyOK(q))
    BY <2>1, NoReportAssumption DEF ReportOK, Right
  <2>5. /\ p.op = q.op /\ p.user = q.user /\ p.kind = q.kind /\ p.year = q.year /\ p.at = q.at
        /\ p.units = q.units /\ p.list = q.list /\ p.unread = q.unread
        /\ p.total = q.total /\ p.spent = q.spent /\ p.floor = q.floor /\ p.alert = q.alert
        /\ p.steady = (q.steady /\ grows)
    BY <2>3 DEF Report
  <2> HIDE DEF grows
  <2>6. FiguresOK(p)'
    BY <2>4, <2>5 DEF FiguresOK, Cats
  <2>7. ASSUME p.steady PROVE SteadyOK(p)'
    <3>1. q.steady /\ Grows
      BY <2>5, <2>7 DEF grows
    <3>2. SteadyOK(q)'
      BY <2>1, <2>4, <3>1, SteadyStays
    <3> QED
      BY <2>5, <3>2 DEF SteadyOK, UnitsAhead, BudgetsAhead, WagesAhead, SpendingAhead, TotalRead,
                        UnitsOpen, ListKnown, FloorBelow, Between
  <2> QED
    BY <2>2, <2>6, <2>7 DEF ReportOK, Right
<1> QED
  BY <1>1, <1>2
\* A value is as right after a step that leaves the tables alone as before it.
LEMMA RightStays ==
  ASSUME UNCHANGED <<vars, wages>>, NEW q, Right(q)
  PROVE  Right(q)'
<1>1. FiguresOK(q)'
  BY DEF Right, FiguresOK, Cats
<1>2. ASSUME q.steady PROVE SteadyOK(q)'
  <2>1. SteadyOK(q)
    BY <1>2 DEF Right
  <2>2. q.at = "units" => UnitsAhead(q)'
    BY <2>1, SameTables DEF SteadyOK, UnitsAhead, FloorBelow
  <2>3. UnitsOpen(q)' <=> UnitsOpen(q)
    BY SameTables DEF UnitsOpen
  <2>4. q.at = "budgets" => BudgetsAhead(q)'
    BY <2>1, <2>3, SameTables DEF SteadyOK, BudgetsAhead, FloorBelow
  <2>5. TotalRead(q)' <=> TotalRead(q)
    BY <2>3, SameTables DEF TotalRead, ListKnown
  <2>6. q.at = "wages" => WagesAhead(q)'
    BY <2>1, <2>5, SameTables DEF SteadyOK, WagesAhead
  <2>7. Cats(q.op)' = Cats(q.op)
    BY DEF Cats
  <2>8. q.at = "spending" => SpendingAhead(q)'
    BY <2>1, <2>5, <2>7, SameTables DEF SteadyOK, SpendingAhead
  <2>9. q.at = "done" => Between(q)'
    BY <2>1, SameTables DEF SteadyOK, Between
  <2> QED
    BY <2>1, <2>2, <2>4, <2>6, <2>8, <2>9, SameTables DEF SteadyOK
<1> QED
  BY <1>1, <1>2 DEF Right

\* When nothing is left to be read the figures lie where they should.
LEMMA NothingLeft ==
  ASSUME TablesOK, NoneNegative, NEW p \in Report, SpendingAhead(p),
         p.list = {} \/ p.unread = {}
  PROVE  Between(p)
<1> DEFINE t == UserTenant[p.user]
<1>1. PICK ns : ns = OpenUnits(t, p.kind, p.year)
  OBVIOUS
<1>2. PICK now : now = MoneyOf(p.op, t, ns, p.year)
  OBVIOUS
<1>3. /\ TotalRead(p)
      /\ p.floor.spent <= p.spent + ChargedTo(t, p.list, p.unread)
      /\ p.spent <= Paid(p.op, p.units) + ChargedTo(t, p.list, Cats(p.op) \ p.unread)
  BY DEF SpendingAhead
<1>4. /\ p.units \subseteq ns /\ ns \subseteq DOMAIN units
      /\ p.list \subseteq BudgetsOf(t, p.units, p.year)
      /\ p.floor.total <= p.total /\ p.total <= LimitsOf(p.list)
  BY <1>1, <1>3, SelectionsKnown DEF TotalRead, UnitsOpen, ListKnown
<1>5. /\ p.floor.total \in Int /\ p.floor.spent \in Int
      /\ p.total \in Int /\ p.spent \in Int
  BY ReportFields
<1>6. ChargedTo(t, p.list, p.unread) = 0
  BY NothingToSum
<1>7. ChargedTo(t, p.list, Cats(p.op) \ p.unread) = ChargedTo(t, p.list, Cats(p.op))
  <2>1. CASE p.list = {}
    BY <2>1, NothingToSum
  <2>2. CASE p.unread = {}
    <3>1. Cats(p.op) \ p.unread = Cats(p.op)
      BY <2>2
    <3> QED
      BY <3>1
  <2> QED
    BY <2>1, <2>2
<1>8. /\ LimitsOf(p.list) <= now.total
      /\ Paid(p.op, p.units) + ChargedTo(t, p.list, Cats(p.op)) <= now.spent
  BY <1>2, <1>4, MoneyGrowsWithUnits
<1>9. /\ LimitsOf(p.list) \in Int /\ now.total \in Int /\ now.spent \in Int
      /\ Paid(p.op, p.units) \in Int /\ ChargedTo(t, p.list, Cats(p.op)) \in Int
  <2>1. p.list \subseteq DOMAIN budgets /\ p.units \subseteq DOMAIN units
    BY <1>4, SelectionsKnown
  <2> QED
    BY <1>2, <1>4, <2>1, SumsIntNow DEF SumsInt
<1>10. p.total <= now.total
  BY <1>4, <1>5, <1>8, <1>9, SumAtMost
<1>11. p.floor.spent <= p.spent
  BY <1>3, <1>5, <1>6
<1>12. p.spent <= now.spent
  BY <1>3, <1>5, <1>7, <1>8, <1>9
<1>13. Money(p.op, t, p.kind, p.year) = now
  BY <1>1, <1>2, OpenMoneyNow DEF MoneyIsOfOpenUnits
<1> QED
  BY <1>4, <1>10, <1>11, <1>12, <1>13 DEF Between

\* A report begins with everything ahead of it.
LEMMA BeginRight ==
  ASSUME TablesOK, NEW p \in Report,
         p.at = "units", p.list = {}, p.total = 0, p.spent = 0, ~p.alert,
         p.unread = Cats(p.op), p.steady <=> NoneNegative,
         NEW money, money = Money(p.op, UserTenant[p.user], p.kind, p.year),
         p.floor = money
  PROVE  Right(p)
<1>1. money.total \in Int /\ money.spent \in Int
  BY ReportFields
<1>2. UnitsAhead(p)
  BY <1>1 DEF UnitsAhead, FloorBelow
<1> QED
  BY <1>2 DEF Right, FiguresOK, SteadyOK

\* SELECT of the business units; without one every figure is 0.
LEMMA UnitsRight ==
  ASSUME TablesOK, NEW q \in Report, Right(q), q.at = "units", NEW p \in Report,
         NEW ns, ns = OpenUnits(UserTenant[q.user], q.kind, q.year),
         p = [q EXCEPT !.units = ns, !.at = IF ns = {} THEN "done" ELSE "budgets"]
  PROVE  Right(p)
<1> DEFINE t == UserTenant[q.user]
<1>1. /\ p.op = q.op /\ p.user = q.user /\ p.kind = q.kind /\ p.year = q.year
      /\ p.units = ns /\ p.unread = q.unread /\ p.total = q.total /\ p.list = q.list
      /\ p.spent = q.spent /\ p.floor = q.floor /\ p.alert = q.alert /\ p.steady = q.steady
      /\ p.at = IF ns = {} THEN "done" ELSE "budgets"
  BY DEF Report
<1>2. q.total = 0 /\ q.spent = 0 /\ q.list = {} /\ q.unread = Cats(q.op) /\ ~q.alert
  BY DEF Right, FiguresOK
<1>3. ~Alerted(0, 0)
  BY DEF Alerted
<1>4. FiguresOK(p)
  BY <1>1, <1>2, <1>3 DEF FiguresOK
<1>5. ASSUME p.steady PROVE SteadyOK(p)
  <2>1. NoneNegative /\ UnitsAhead(q)
    BY <1>1, <1>5 DEF Right, SteadyOK
  <2>2. PICK now : now = MoneyOf(q.op, t, ns, q.year)
    OBVIOUS
  <2>3. FloorBelow(p, now)
    BY <1>1, <2>1, <2>2, OpenMoneyNow DEF UnitsAhead, FloorBelow, MoneyIsOfOpenUnits
  <2>4. UnitsOpen(p)
    BY <1>1 DEF UnitsOpen
  <2>5. BudgetsAhead(p)
    BY <1>1, <2>2, <2>3, <2>4 DEF BudgetsAhead, FloorBelow
  <2>6. ASSUME ns = {} PROVE Between(p)
    <3>1. PICK bs : bs = BudgetsOf(t, ns, q.year)
      OBVIOUS
    <3>2. bs = {}
      BY <2>6, <3>1 DEF BudgetsOf
    <3>3. now.total = LimitsOf(bs) /\ now.spent = ChargedTo(t, bs, Cats(q.op)) + Paid(q.op, ns)
      BY <2>2, <3>1, MoneyIs DEF MoneyParts
    <3>4. Paid(q.op, ns) = 0 /\ LimitsOf({}) = 0 /\ \A cs : ChargedTo(t, {}, cs) = 0
      BY <2>6, NothingToSum DEF Paid
    <3>5. p.floor.total <= 0 /\ p.floor.spent <= 0
      BY <2>3, <3>2, <3>3, <3>4 DEF FloorBelow
    <3>6. TotalRead(p)
      BY <1>1, <1>2, <2>4, <3>4, <3>5 DEF TotalRead, ListKnown
    <3>7. SpendingAhead(p)
      BY <1>1, <1>2, <3>4, <3>5, <3>6 DEF SpendingAhead
    <3> QED
      BY <1>1, <1>2, <2>1, <3>7, NothingLeft
  <2>7. (ns = {} /\ p.at = "done") \/ (ns # {} /\ p.at = "budgets")
    BY <1>1
  <2>8. CASE p.at = "done"
    BY <2>1, <2>6, <2>7, <2>8 DEF SteadyOK
  <2>9. CASE p.at = "budgets"
    BY <2>1, <2>5, <2>9 DEF SteadyOK
  <2> QED
    BY <2>7, <2>8, <2>9
<1> QED
  BY <1>4, <1>5 DEF Right

\* SELECT of the budgets of those units, and the sum of their limits.
LEMMA BudgetsRight ==
  ASSUME TablesOK, NEW q \in Report, Right(q), q.at = "budgets", NEW p \in Report,
         q.units \subseteq DOMAIN units,
         NEW bs, bs = BudgetsOf(UserTenant[q.user], q.units, q.year),
         NEW total, total = LimitsOf(bs),
         p = [q EXCEPT !.list = bs, !.total = total,
                !.at = IF q.op = "summary" THEN "wages"
                       ELSE IF bs = {} THEN "done" ELSE "spending"]
  PROVE  Right(p)
<1> DEFINE t == UserTenant[q.user]
<1>1. /\ p.op = q.op /\ p.user = q.user /\ p.kind = q.kind /\ p.year = q.year
      /\ p.units = q.units /\ p.unread = q.unread /\ p.total = total /\ p.list = bs
      /\ p.spent = q.spent /\ p.floor = q.floor /\ p.alert = q.alert /\ p.steady = q.steady
      /\ p.at = IF q.op = "summary" THEN "wages" ELSE IF bs = {} THEN "done" ELSE "spending"
  BY DEF Report
<1>2. q.spent = 0 /\ q.unread = Cats(q.op) /\ ~q.alert
  BY DEF Right, FiguresOK
<1>3. bs = {} => ~Alerted(p.spent, p.total)
  BY <1>1, NothingToSum DEF Alerted
<1>4. \/ p.op = "summary" /\ p.at = "wages"
      \/ p.op # "summary" /\ bs = {} /\ p.at = "done"
      \/ p.op # "summary" /\ p.at = "spending"
  BY <1>1
<1>5. FiguresOK(p)
  <2>1. p.unread = Cats(p.op) /\ p.spent = 0 /\ ~p.alert
    BY <1>1, <1>2
  <2> QED
    BY <1>3, <1>4, <2>1 DEF FiguresOK
<1>6. ASSUME p.steady PROVE SteadyOK(p)
  <2>1. NoneNegative /\ BudgetsAhead(q)
    BY <1>1, <1>6 DEF Right, SteadyOK
  <2>2. PICK now : now = MoneyOf(q.op, t, q.units, q.year)
    OBVIOUS
  <2>3. UnitsOpen(q) /\ FloorBelow(q, now)
    BY <2>1, <2>2 DEF BudgetsAhead
  <2>4. now.total = total /\ now.spent = ChargedTo(t, bs, Cats(q.op)) + Paid(q.op, q.units)
    BY <2>2, MoneyIs DEF MoneyParts
  <2>5. total \in Int /\ ChargedTo(t, bs, Cats(q.op)) \in Int /\ Paid(q.op, q.units) \in Int
    BY SumsIntNow, SelectionsKnown DEF SumsInt
  <2>6. TotalRead(p)
    BY <1>1, <2>3, <2>4, <2>5 DEF TotalRead, UnitsOpen, ListKnown, FloorBelow
  <2>7. ASSUME p.op = "summary" PROVE WagesAhead(p)
    <3>1. Paid(q.op, q.units) = WagesOf(q.units)
      BY <1>1, <2>7 DEF Paid
    <3>2. p.floor.spent <= Paid(q.op, q.units) + ChargedTo(t, bs, Cats(q.op))
      BY <1>1, <2>3, <2>4, <2>5 DEF FloorBelow
    <3> QED
      BY <1>1, <1>2, <2>6, <2>7, <3>1, <3>2 DEF WagesAhead
  <2>8. ASSUME p.op # "summary" PROVE SpendingAhead(p)
    <3>1. Paid(q.op, q.units) = 0
      BY <1>1, <2>8 DEF Paid
    <3>2. p.floor.spent <= 0 + ChargedTo(t, bs, Cats(q.op))
      BY <1>1, <2>3, <2>4, <2>5, <3>1 DEF FloorBelow
    <3>3. Cats(q.op) \ Cats(q.op) = {}
      OBVIOUS
    <3>4. ChargedTo(t, bs, Cats(q.op) \ Cats(q.op)) = 0
      BY <3>3, NothingToSum
    <3> QED
      BY <1>1, <1>2, <2>6, <3>1, <3>2, <3>4 DEF SpendingAhead
  <2>9. CASE p.op = "summary" /\ p.at = "wages"
    BY <2>1, <2>7, <2>9 DEF SteadyOK
  <2>10. CASE p.op # "summary" /\ p.at = "spending"
    BY <2>1, <2>8, <2>10 DEF SteadyOK
  <2>11. CASE p.op # "summary" /\ bs = {} /\ p.at = "done"
    <3>1. Between(p)
      BY <1>1, <2>1, <2>8, <2>11, NothingLeft
    <3> QED
      BY <2>1, <2>11, <3>1 DEF SteadyOK
  <2> QED
    BY <1>4, <2>9, <2>10, <2>11
<1> QED
  BY <1>5, <1>6 DEF Right

\* The wages of the approved work records of those units.
LEMMA WagesRight ==
  ASSUME TablesOK, NEW q \in Report, Right(q), q.at = "wages", NEW p \in Report,
         q.units \subseteq DOMAIN units,
         NEW spent, spent = WagesOf(q.units),
         p = [q EXCEPT !.spent = spent, !.at = IF q.list = {} THEN "done" ELSE "spending"]
  PROVE  Right(p)
<1> DEFINE t == UserTenant[q.user]
<1>1. /\ p.op = q.op /\ p.user = q.user /\ p.kind = q.kind /\ p.year = q.year
      /\ p.units = q.units /\ p.unread = q.unread /\ p.total = q.total /\ p.list = q.list
      /\ p.spent = spent /\ p.floor = q.floor /\ p.alert = q.alert /\ p.steady = q.steady
      /\ p.at = IF q.list = {} THEN "done" ELSE "spending"
  BY DEF Report
<1>2. q.op = "summary" /\ q.unread = Cats(q.op)
  BY DEF Right, FiguresOK
<1>3. (p.at = "done" /\ p.list = {}) \/ p.at = "spending"
  BY <1>1
<1>4. FiguresOK(p)
  BY <1>1, <1>2, <1>3 DEF FiguresOK
<1>5. ASSUME p.steady PROVE SteadyOK(p)
  <2>1. NoneNegative /\ WagesAhead(q)
    BY <1>1, <1>5 DEF Right, SteadyOK
  <2>2. /\ q.op = "summary" /\ TotalRead(q)
        /\ q.floor.spent <= spent + ChargedTo(t, q.list, q.unread)
    BY <2>1 DEF WagesAhead
  <2>3. TotalRead(p)
    BY <1>1, <2>2 DEF TotalRead, UnitsOpen, ListKnown
  <2>4. Paid(q.op, q.units) = spent /\ spent \in Int
    BY <2>2, SumsIntNow DEF Paid, SumsInt
  <2>5. Cats(q.op) \ q.unread = {}
    BY <1>2
  <2>6. ChargedTo(t, q.list, Cats(q.op) \ q.unread) = 0
    BY <2>5, NothingToSum
  <2>7. SpendingAhead(p)
    BY <1>1, <2>2, <2>3, <2>4, <2>6 DEF SpendingAhead
  <2>8. CASE p.at = "spending"
    BY <2>1, <2>7, <2>8 DEF SteadyOK
  <2>9. CASE p.at = "done" /\ p.list = {}
    <3>1. Between(p)
      BY <2>1, <2>7, <2>9, NothingLeft
    <3> QED
      BY <2>1, <2>9, <3>1 DEF SteadyOK
  <2> QED
    BY <1>3, <2>8, <2>9
<1> QED
  BY <1>4, <1>5 DEF Right

\* A query of expenditures, of the categories cs.
LEMMA SpendingRight ==
  ASSUME TablesOK, NEW q \in Report, Right(q), q.at = "spending", NEW p \in Report,
         q.units \subseteq DOMAIN units,
         NEW cs, cs \subseteq q.unread, q.op = "alerts" => cs = q.unread,
         NEW sum, sum = ChargedTo(UserTenant[q.user], q.list, cs),
         NEW spent, spent = q.spent + sum,
         p = [q EXCEPT !.spent = spent, !.unread = @ \ cs,
                !.alert = q.op = "alerts" /\ Alerted(spent, q.total),
                !.at = IF cs = q.unread THEN "done" ELSE "spending"]
  PROVE  Right(p)
<1> DEFINE t == UserTenant[q.user]
           rest == q.unread \ cs
           read == Cats(q.op) \ q.unread
           alert == q.op = "alerts" /\ Alerted(spent, q.total)
<1>1. /\ p.op = q.op /\ p.user = q.user /\ p.kind = q.kind /\ p.year = q.year
      /\ p.units = q.units /\ p.unread = rest /\ p.total = q.total /\ p.list = q.list
      /\ p.spent = spent /\ p.floor = q.floor /\ p.alert = alert /\ p.steady = q.steady
      /\ p.at = IF cs = q.unread THEN "done" ELSE "spending"
  <2> HIDE DEF alert
  <2>1. p = [q EXCEPT !.spent = spent, !.unread = @ \ cs, !.alert = alert,
               !.at = IF cs = q.unread THEN "done" ELSE "spending"]
    BY DEF alert
  <2> QED
    BY <2>1 DEF Report
<1>2. q.unread \subseteq Cats(q.op)
  BY DEF Right, FiguresOK
<1>3. \/ p.at = "done" /\ p.unread = {}
      \/ p.at = "spending" /\ q.op # "alerts"
  BY <1>1
<1>4. FiguresOK(p)
  <2>1. p.unread \subseteq Cats(p.op)
    BY <1>1, <1>2
  <2>2. p.op = "alerts" => (p.alert <=> Alerted(p.spent, p.total))
    BY <1>1
  <2> HIDE DEF alert, rest
  <2> QED
    BY <1>3, <2>1, <2>2 DEF FiguresOK
<1>5. ASSUME p.steady PROVE SteadyOK(p)
  <2>1. NoneNegative /\ SpendingAhead(q)
    BY <1>1, <1>5 DEF Right, SteadyOK
  <2>2. /\ TotalRead(q)
        /\ q.floor.spent <= q.spent + ChargedTo(t, q.list, q.unread)
        /\ q.spent <= Paid(q.op, q.units) + ChargedTo(t, q.list, read)
    BY <2>1 DEF SpendingAhead
  <2>3. TotalRead(p)
    BY <1>1, <2>2 DEF TotalRead, UnitsOpen, ListKnown
  <2>4. ChargedTo(t, q.list, q.unread) = sum + ChargedTo(t, q.list, rest)
    <3>1. q.unread = cs \union rest /\ cs \cap rest = {}
      OBVIOUS
    <3> HIDE DEF rest
    <3>2. ChargedTo(t, q.list, cs \union rest)
            = ChargedTo(t, q.list, cs) + ChargedTo(t, q.list, rest)
      BY <3>1, ChargedSplits
    <3> QED
      BY <3>1, <3>2
  <2>5. ChargedTo(t, q.list, Cats(q.op) \ rest) = ChargedTo(t, q.list, read) + sum
    <3>1. Cats(q.op) \ rest = read \union cs /\ read \cap cs = {}
      BY <1>2
    <3> HIDE DEF rest, read
    <3>2. ChargedTo(t, q.list, read \union cs)
            = ChargedTo(t, q.list, read) + ChargedTo(t, q.list, cs)
      BY <3>1, ChargedSplits
    <3> QED
      BY <3>1, <3>2
  <2>6. /\ sum \in Int /\ ChargedTo(t, q.list, rest) \in Int
        /\ ChargedTo(t, q.list, read) \in Int /\ Paid(q.op, q.units) \in Int
        /\ q.spent \in Int /\ q.floor.spent \in Int
    BY SumsIntNow, ReportFields DEF SumsInt
  <2> HIDE DEF rest, read
  <2>7. q.floor.spent <= spent + ChargedTo(t, q.list, rest)
    BY <2>2, <2>4, <2>6
  <2>8. spent <= Paid(q.op, q.units) + ChargedTo(t, q.list, Cats(q.op) \ rest)
    BY <2>2, <2>5, <2>6
  <2>9. SpendingAhead(p)
    BY <1>1, <2>3, <2>7, <2>8 DEF SpendingAhead
  <2>10. CASE p.at = "spending"
    BY <2>1, <2>9, <2>10 DEF SteadyOK
  <2>11. CASE p.at = "done" /\ p.unread = {}
    <3>1. Between(p)
      BY <2>1, <2>9, <2>11, NothingLeft
    <3> QED
      BY <2>1, <2>11, <3>1 DEF SteadyOK
  <2> QED
    BY <1>3, <2>10, <2>11
<1> QED
  BY <1>4, <1>5 DEF Right

\* The step of a report itself leaves what it reads alone.
LEMMA ReadingRight ==
  ASSUME TypedInv, ReportOK, ReportTyped', UNCHANGED <<vars, wages>>,
         \/ \E op \in Op, u \in Users, kind \in Kinds \union {Market}, year \in Years :
              BeginReport(op, u, kind, year)
         \/ ReadUnits \/ ReadBudgets \/ ReadWages
         \/ \E cs \in SUBSET Categories : ReadSpending(cs)
  PROVE  ReportOK'
<1>1. TablesOK /\ ReportTyped /\ UnitsKnown
  BY DEF TypedInv
<1>2. PICK p : p = report'
  OBVIOUS
<1>3. SUFFICES ASSUME p \in Report PROVE Right(p)
  BY <1>2, RightStays DEF ReportTyped, ReportOK
<1>4. ASSUME NEW op \in Op, NEW u \in Users, NEW kind \in Kinds \union {Market},
             NEW year \in Years, BeginReport(op, u, kind, year)
      PROVE  Right(p)
  <2>1. PICK money : money = Money(op, UserTenant[u], kind, year)
    OBVIOUS
  <2> DEFINE steady == NoneNegative
  <2>2. p = [op |-> op, user |-> u, kind |-> kind, year |-> year, at |-> "units",
             units |-> {}, list |-> {}, unread |-> Cats(op),
             total |-> 0, spent |-> 0, alert |-> FALSE, floor |-> money, steady |-> steady]
    BY <1>2, <1>4, <2>1 DEF BeginReport, Read, Cats
  <2> HIDE DEF steady
  <2>3. /\ p.op = op /\ p.user = u /\ p.kind = kind /\ p.year = year /\ p.at = "units"
        /\ p.list = {} /\ p.unread = Cats(op) /\ p.total = 0 /\ p.spent = 0 /\ ~p.alert
        /\ p.floor = money /\ (p.steady <=> steady)
    BY <2>2
  <2>4. p.steady <=> NoneNegative
    BY <2>3 DEF steady
  <2> QED
    BY <1>1, <1>3, <2>1, <2>3, <2>4, BeginRight
<1>5. ASSUME report # NoReport
      PROVE  \E q \in Report : q = report /\ Right(q) /\ q.units \subseteq DOMAIN units
  BY <1>1, <1>5 DEF ReportTyped, ReportOK, UnitsKnown
<1>6. CASE ReadUnits
  <2>1. PICK q \in Report : q = report /\ Right(q) /\ q.at = "units"
    BY <1>5, <1>6 DEF ReadUnits, Reading
  <2>2. PICK ns : ns = OpenUnits(UserTenant[q.user], q.kind, q.year)
    OBVIOUS
  <2>3. p = [q EXCEPT !.units = ns, !.at = IF ns = {} THEN "done" ELSE "budgets"]
    BY <1>2, <1>6, <2>1, <2>2 DEF ReadUnits, Read
  <2> QED
    BY <1>1, <1>3, <2>1, <2>2, <2>3, UnitsRight
<1>7. CASE ReadBudgets
  <2>1. PICK q \in Report : q = report /\ Right(q) /\ q.units \subseteq DOMAIN units
                              /\ q.at = "budgets"
    BY <1>5, <1>7 DEF ReadBudgets, Reading
  <2>2. PICK bs : bs = BudgetsOf(UserTenant[q.user], q.units, q.year)
    OBVIOUS
  <2>3. PICK total : total = LimitsOf(bs)
    OBVIOUS
  <2>4. p = [q EXCEPT !.list = bs, !.total = total,
               !.at = IF q.op = "summary" THEN "wages"
                      ELSE IF bs = {} THEN "done" ELSE "spending"]
    BY <1>2, <1>7, <2>1, <2>2, <2>3 DEF ReadBudgets, Read
  <2> QED
    BY <1>1, <1>3, <2>1, <2>2, <2>3, <2>4, BudgetsRight
<1>8. CASE ReadWages
  <2>1. PICK q \in Report : q = report /\ Right(q) /\ q.units \subseteq DOMAIN units
                              /\ q.at = "wages"
    BY <1>5, <1>8 DEF ReadWages, Reading
  <2>2. PICK spent : spent = WagesOf(q.units)
    OBVIOUS
  <2>3. p = [q EXCEPT !.spent = spent, !.at = IF q.list = {} THEN "done" ELSE "spending"]
    BY <1>2, <1>8, <2>1, <2>2 DEF ReadWages, Read
  <2> QED
    BY <1>1, <1>3, <2>1, <2>2, <2>3, WagesRight
<1>9. ASSUME NEW cs \in SUBSET Categories, ReadSpending(cs) PROVE Right(p)
  <2>1. PICK q \in Report : q = report /\ Right(q) /\ q.units \subseteq DOMAIN units
                              /\ q.at = "spending"
    BY <1>5, <1>9 DEF ReadSpending, Reading
  <2>2. PICK sum : sum = ChargedTo(UserTenant[q.user], q.list, cs)
    OBVIOUS
  <2>3. PICK spent : spent = q.spent + sum
    OBVIOUS
  <2>4. p = [q EXCEPT !.spent = spent, !.unread = @ \ cs,
               !.alert = q.op = "alerts" /\ Alerted(spent, q.total),
               !.at = IF cs = q.unread THEN "done" ELSE "spending"]
    BY <1>2, <1>9, <2>1, <2>2, <2>3 DEF ReadSpending, Read
  <2>5. cs \subseteq q.unread /\ (q.op = "alerts" => cs = q.unread)
    BY <1>9, <2>1 DEF ReadSpending
  <2> QED
    BY <1>1, <1>3, <2>1, <2>2, <2>3, <2>4, <2>5, SpendingRight
<1> QED
  BY <1>4, <1>6, <1>7, <1>8, <1>9

LEMMA RightStep ==
  ASSUME TypedInv, TypedInv', ReportOK, [DashboardNext]_dashboard
  PROVE  ReportOK'
<1>1. IInv /\ TablesOK /\ TablesOK' /\ ReportTyped /\ ReportTyped'
  BY DEF TypedInv
<1>2. CASE UNCHANGED dashboard
  <2>1. PICK p : p = report
    OBVIOUS
  <2>2. report' = p /\ UNCHANGED <<vars, wages>>
    BY <1>2, <2>1 DEF dashboard
  <2> QED
    BY <2>1, <2>2, RightStays DEF ReportOK
<1>3. CASE Next /\ UNCHANGED wages /\ Observed
  BY <1>1, <1>3, ObservedRight
<1>4. ASSUME NEW n \in UnitIds, NEW sum \in Wages, PayWages(n, sum) PROVE ReportOK'
  <2>1. [Next]_vars /\ Observed
    BY <1>4 DEF PayWages
  <2> QED
    BY <1>1, <2>1, ObservedRight
<1> QED
  BY <1>1, <1>2, <1>3, <1>4, DashboardSteps, ReadingRight

LEMMA RightInvariant == DashboardSpec => []ReportOK
<1>1. DashboardInit => ReportOK
  BY DEF DashboardInit, ReportOK
<1>2. TypedInv /\ TypedInv' /\ ReportOK /\ [DashboardNext]_dashboard => ReportOK'
  BY RightStep
<1> QED
  BY <1>1, <1>2, TypedInvariant, PTL DEF DashboardSpec

\* Money that is only added while a report is read lies in it: at least what
\* there was before, at most what there is after.
THEOREM ReportsAreRight == DashboardSpec => []ReportLiesBetween
<1>1. ReportOK => ReportLiesBetween
  BY DEF ReportOK, Right, SteadyOK, Between, ReportLiesBetween
<1> QED
  BY <1>1, RightInvariant, PTL

\* Nine tenths spent raise an alert.
THEOREM AlertsAreRaised == DashboardSpec => []AlertsCatchNinetyPercent
<1>1. ASSUME TypedInv, ReportOK PROVE AlertsCatchNinetyPercent
  <2>1. SUFFICES ASSUME NEW q \in Report, q = report, q.at = "done", q.steady, q.op = "alerts",
                        NEW now, now = Money("alerts", UserTenant[q.user], q.kind, q.year),
                        now.total > 0, now.total = q.floor.total,
                        10 * q.floor.spent >= 9 * now.total
                 PROVE  q.alert
    BY <1>1 DEF TypedInv, ReportTyped, AlertsCatchNinetyPercent
  <2>2. Between(q) /\ (q.alert <=> Alerted(q.spent, q.total))
    BY <1>1, <2>1, NoReportAssumption DEF ReportOK, Right, SteadyOK, FiguresOK
  <2>3. q.floor.total <= q.total /\ q.total <= now.total /\ q.floor.spent <= q.spent
    BY <2>1, <2>2 DEF Between
  <2>4. q.floor.total \in Int /\ q.floor.spent \in Int /\ q.total \in Int /\ q.spent \in Int
    BY ReportFields
  <2>5. q.total = now.total /\ q.total > 0
    BY <2>1, <2>3, <2>4
  <2>6. 200 * q.spent >= 179 * q.total
    BY <2>1, <2>3, <2>4, <2>5
  <2> QED
    BY <2>2, <2>5, <2>6 DEF Alerted
<1> QED
  BY <1>1, TypedInvariant, RightInvariant, PTL

=============================================================================
