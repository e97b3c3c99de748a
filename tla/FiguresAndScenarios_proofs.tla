--------------------- MODULE FiguresAndScenarios_proofs ---------------------
(***************************************************************************)
(* Proofs about Figures and about AttackScenarios, which share             *)
(* ComputedStatus and the lemmas about it.                                 *)
(*                                                                         *)
(* Figures: each kind of report states what its rows say - the ATT&CK      *)
(* percentage is a bound, the Enterprise level is the weakest tier's, the  *)
(* Risk Register finds the gaps, a split counts once - for any techniques, *)
(* tools, plans, tiers, capabilities, costs and lists.  The figures are    *)
(* functions of the rows, so the inductive invariant is their type, and    *)
(* the work is in the sums and cardinalities.  Induction is over a SET of  *)
(* subsets (SubsetsOneByOne), which needs no operator as a parameter.      *)
(*                                                                         *)
(* AttackScenarios: a what-if names its runs, a result stands once it is   *)
(* there, and what a result credits and claims to raise is true - for any  *)
(* what-ifs, requests, runs, assessments, tools and answers.  ScenarioInv  *)
(* is inductive.  It says of each what-if, each run and each request what  *)
(* it may name of the others; that every run later than the one in         *)
(* progress has not started, so that the run a job completes is not older  *)
(* than the one its what-if names; and that a what-if kept what its        *)
(* creation asked of the change list, which no later step asks again.      *)
(***************************************************************************)
EXTENDS Figures, AttackScenarios, TLAPS, FiniteSetTheorems, WellFoundedInduction

---------------------------------------------------------------------------
(* Finite sets of numbers, and sums over them, by induction over a set's    *)
(* subsets.                                                                *)

\* A nonempty set of numbers has a smallest one.
LEMMA LeastNumber ==
  ASSUME NEW N, N \subseteq Nat, N # {}
  PROVE  \E m \in N : \A n \in N : m <= n
<1>1. PICK m \in N : \A n \in N : <<n, m>> \notin OpToRel(<, Nat)
  BY WFMin, NatLessThanWellFounded, Zenon
<1>2. m \in Nat /\ \A n \in N : n \in Nat  OBVIOUS
<1>3. \A n \in N : ~(n < m)  BY <1>1, <1>2 DEF OpToRel
<1>4. QED  BY <1>2, <1>3

\* Induction over the subsets of a finite set, for a set Q of them: the whole is
\* in Q if the empty set is, and a set is whenever it is without any one element.
LEMMA SubsetsOneByOne ==
  ASSUME NEW S, IsFiniteSet(S), NEW Q, {} \in Q,
         \A s \in SUBSET S : (s # {} /\ \A x \in s : s \ {x} \in Q) => s \in Q
  PROVE  S \in Q
<1> SUFFICES ASSUME S \notin Q PROVE FALSE  OBVIOUS
<1> DEFINE Sizes == {Cardinality(s) : s \in {s \in SUBSET S : s \notin Q}}
<1>1. Sizes \subseteq Nat  BY FS_Subset, FS_CardinalityType
<1>2. Sizes # {}  OBVIOUS
<1>3. PICK m \in Sizes : \A n \in Sizes : m <= n
  <2> HIDE DEF Sizes
  <2>1. QED  BY <1>1, <1>2, LeastNumber
<1>4. PICK s \in SUBSET S : s \notin Q /\ Cardinality(s) = m  OBVIOUS
<1>5. s # {}  BY <1>4
<1>6. PICK x \in s : s \ {x} \notin Q  BY <1>4, <1>5
<1>7. Cardinality(s \ {x}) \in Sizes  BY <1>6
<1>8. IsFiniteSet(s)  BY FS_Subset
<1>9. Cardinality(s) \in Nat /\ Cardinality(s \ {x}) = Cardinality(s) - 1
  BY <1>6, <1>8, FS_RemoveElement, FS_CardinalityType
<1> HIDE DEF Sizes
<1>10. QED  BY <1>3, <1>4, <1>7, <1>9

\* One step of the fold of SumFunctionOnSet, which takes the elements in the
\* order CHOOSE gives them.
Chosen(s) == CHOOSE x \in s : TRUE

SumStep(f, g, s) == IF s = {} THEN 0 ELSE f[Chosen(s)] + g[s \ {Chosen(s)}]

IsFold(f, S, g) == g = [s \in SUBSET S |-> SumStep(f, g, s)]

\* The sum is a value of a function chosen to take those steps.
LEMMA SumIsChosen ==
  ASSUME NEW f, NEW S
  PROVE  SumFunctionOnSet(f, S) = (CHOOSE g : IsFold(f, S, g))[S]
BY DEF SumFunctionOnSet, FoldFunctionOnSet, MapThenFoldSet, IsFold, SumStep, Chosen

\* CHOOSE takes an element, where there is one.
LEMMA ChosenIsIn == ASSUME NEW s, s # {} PROVE Chosen(s) \in s
BY DEF Chosen

\* There is such a function.
LEMMA SumFoldExists ==
  ASSUME NEW f, NEW S, IsFiniteSet(S)
  PROVE  \E g : IsFold(f, S, g)
<1> DEFINE UpTo(n) == {s \in SUBSET S : Cardinality(s) <= n}
           FoldTo(g, n) == g = [s \in UpTo(n) |-> SumStep(f, g, s)]
           Missing == {n \in Nat : ~ \E g : FoldTo(g, n)}
<1>1. \A s \in SUBSET S : IsFiniteSet(s) /\ Cardinality(s) \in Nat
  BY FS_Subset, FS_CardinalityType
<1>2. \E g : FoldTo(g, 0)
  <2> DEFINE h == [s \in UpTo(0) |-> 0]
  <2>1. \A s \in UpTo(0) : s = {}  BY <1>1, FS_EmptySet
  <2>2. \A s \in UpTo(0) : SumStep(f, h, s) = 0  BY <2>1 DEF SumStep
  <2>3. h = [s \in UpTo(0) |-> SumStep(f, h, s)]  BY <2>2
  <2>4. QED  BY <2>3
<1>3. ASSUME NEW n \in Nat, NEW g, FoldTo(g, n)
      PROVE  \E h : FoldTo(h, n + 1)
  <2> DEFINE h == [s \in UpTo(n + 1) |-> SumStep(f, g, s)]
  <2>1. ASSUME NEW s \in UpTo(n + 1) PROVE SumStep(f, h, s) = SumStep(f, g, s)
    <3>1. CASE s = {}  BY <3>1 DEF SumStep
    <3>2. CASE s # {}
      <4> DEFINE r == s \ {Chosen(s)}
      <4>1. Chosen(s) \in s  BY <3>2, ChosenIsIn
      <4>2. Cardinality(r) = Cardinality(s) - 1  BY <1>1, <4>1, FS_RemoveElement
      <4>3. r \in UpTo(n) /\ r \in UpTo(n + 1)  BY <1>1, <4>2
      <4>4. g[r] = SumStep(f, g, r)
        <5> HIDE DEF r, UpTo
        <5>1. QED  BY <1>3, <4>3
      <4>5. h[r] = SumStep(f, g, r)
        <5> HIDE DEF r, UpTo
        <5>1. QED  BY <4>3
      <4>6. QED  BY <3>2, <4>4, <4>5 DEF SumStep
    <3>3. QED  BY <3>1, <3>2
  <2>2. h = [s \in UpTo(n + 1) |-> SumStep(f, h, s)]
    <3> HIDE DEF UpTo
    <3>1. QED  BY <2>1
  <2>3. QED  BY <2>2
<1>4. Missing = {}
  <2> SUFFICES ASSUME Missing # {} PROVE FALSE  OBVIOUS
  <2>1. PICK m \in Missing : \A n \in Missing : m <= n
    <3>1. Missing \subseteq Nat  OBVIOUS
    <3> HIDE DEF Missing
    <3>2. QED  BY <3>1, LeastNumber
  <2>2. m \in Nat /\ ~ \E g : FoldTo(g, m)  OBVIOUS
  <2> HIDE DEF FoldTo
  <2>3. m # 0  BY <1>2, <2>2
  <2>4. m - 1 \in Nat /\ (m - 1) + 1 = m  BY <2>2, <2>3
  <2>5. m - 1 \notin Missing
    <3> HIDE DEF Missing
    <3>1. QED  BY <2>1, <2>2, <2>4
  <2>6. PICK g : FoldTo(g, m - 1)  BY <2>4, <2>5
  <2>7. \E h : FoldTo(h, (m - 1) + 1)  BY <1>3, <2>4, <2>6
  <2>8. QED  BY <2>2, <2>4, <2>7
<1>5. PICK g : FoldTo(g, Cardinality(S))
  <2> HIDE DEF FoldTo
  <2>1. Cardinality(S) \in Nat  BY FS_CardinalityType
  <2>2. QED  BY <1>4, <2>1
<1>6. UpTo(Cardinality(S)) = SUBSET S  BY FS_Subset
<1>7. QED
  <2> HIDE DEF UpTo
  <2>1. QED  BY <1>5, <1>6 DEF IsFold

\* A sum is what such a function gives the set itself.
LEMMA SumIsAFold ==
  ASSUME NEW f, NEW S, IsFiniteSet(S)
  PROVE  \E g : IsFold(f, S, g) /\ SumFunctionOnSet(f, S) = g[S]
<1>1. \E g : IsFold(f, S, g)  BY SumFoldExists
<1>2. IsFold(f, S, CHOOSE g : IsFold(f, S, g))  BY <1>1
<1>3. QED  BY <1>2, SumIsChosen

\* One step of such a function, at any part of S.
LEMMA FoldStep ==
  ASSUME NEW f, NEW S, NEW g, IsFold(f, S, g), NEW s \in SUBSET S
  PROVE  g[s] = SumStep(f, g, s)
BY DEF IsFold

\* Of no element it is 0.
LEMMA SumOfNone == ASSUME NEW f PROVE SumFunctionOnSet(f, {}) = 0
<1>1. PICK g : IsFold(f, {}, g) /\ SumFunctionOnSet(f, {}) = g[{}]
  BY SumIsAFold, FS_EmptySet
<1>2. g[{}] = SumStep(f, g, {})  BY <1>1, FoldStep
<1>3. QED  BY <1>1, <1>2 DEF SumStep

\* A fold over S gives the sum over every part of S, of any function that has the
\* same values there.
LEMMA SumOfPart ==
  ASSUME NEW f, NEW h, NEW S, IsFiniteSet(S), NEW T \in SUBSET S,
         \A x \in T : f[x] = h[x],
         NEW g, IsFold(f, S, g)
  PROVE  SumFunctionOnSet(h, T) = g[T]
<1>1. IsFiniteSet(T)  BY FS_Subset
<1>2. PICK k : IsFold(h, T, k) /\ SumFunctionOnSet(h, T) = k[T]
  BY <1>1, SumIsAFold
<1> DEFINE Q == {s \in SUBSET T : k[s] = g[s]}
<1>3. \A s \in SUBSET T : k[s] = SumStep(h, k, s)  BY <1>2, FoldStep
<1>4. \A s \in SUBSET T : g[s] = SumStep(f, g, s)  BY FoldStep
<1>5. {} \in Q
  <2>1. {} \in SUBSET T  OBVIOUS
  <2>2. QED  BY <1>3, <1>4, <2>1 DEF SumStep
<1>6. ASSUME NEW s \in SUBSET T, s # {}, \A x \in s : s \ {x} \in Q
      PROVE  s \in Q
  <2>1. Chosen(s) \in s /\ f[Chosen(s)] = h[Chosen(s)]  BY <1>6, ChosenIsIn
  <2>2. k[s \ {Chosen(s)}] = g[s \ {Chosen(s)}]  BY <1>6, <2>1
  <2>3. SumStep(h, k, s) = SumStep(f, g, s)  BY <2>1, <2>2 DEF SumStep
  <2>4. QED  BY <1>3, <1>4, <2>3
<1>7. T \in Q
  <2> HIDE DEF Q
  <2>1. QED  BY <1>1, <1>5, <1>6, SubsetsOneByOne
<1>8. QED  BY <1>2, <1>7

\* A sum is of the values only: two functions that agree have the same.
LEMMA SumOfSame ==
  ASSUME NEW f, NEW h, NEW S, IsFiniteSet(S), \A x \in S : f[x] = h[x]
  PROVE  SumFunctionOnSet(f, S) = SumFunctionOnSet(h, S)
<1>1. PICK g : IsFold(f, S, g) /\ SumFunctionOnSet(f, S) = g[S]
  BY SumIsAFold
<1>2. S \in SUBSET S  OBVIOUS
<1>3. SumFunctionOnSet(h, S) = g[S]  BY <1>1, <1>2, SumOfPart
<1>4. QED  BY <1>1, <1>3

\* Whichever element is taken first, the sum is its value and that of the rest;
\* and the sum of numbers is a number.
LEMMA SumWithout ==
  ASSUME NEW f, NEW S, IsFiniteSet(S), \A x \in S : f[x] \in Nat
  PROVE  /\ SumFunctionOnSet(f, S) \in Nat
         /\ \A x \in S : /\ SumFunctionOnSet(f, S \ {x}) \in Nat
                         /\ SumFunctionOnSet(f, S)
                              = f[x] + SumFunctionOnSet(f, S \ {x})
<1>1. PICK g : IsFold(f, S, g)  BY SumFoldExists
<1>2. \A s \in SUBSET S : g[s] = SumStep(f, g, s)  BY <1>1, FoldStep
<1> DEFINE Q == {s \in SUBSET S : /\ g[s] \in Nat
                                 /\ \A x \in s : /\ g[s \ {x}] \in Nat
                                                /\ g[s] = f[x] + g[s \ {x}]}
<1>3. {} \in Q
  <2>1. {} \in SUBSET S  OBVIOUS
  <2>2. g[{}] = 0  BY <1>2, <2>1 DEF SumStep
  <2>3. QED  BY <2>1, <2>2
<1>4. ASSUME NEW s \in SUBSET S, s # {}, \A x \in s : s \ {x} \in Q
      PROVE  s \in Q
  <2> DEFINE c == Chosen(s)
  <2>1. c \in s  BY <1>4, ChosenIsIn
  <2>2. g[s] = f[c] + g[s \ {c}]  BY <1>2, <1>4 DEF SumStep
  <2>3. \A x \in s : f[x] \in Nat /\ g[s \ {x}] \in Nat  BY <1>4
  <2> HIDE DEF c
  <2>4. g[s] \in Nat  BY <2>1, <2>2, <2>3
  <2>5. ASSUME NEW x \in s PROVE g[s] = f[x] + g[s \ {x}]
    <3>1. CASE x = c  BY <2>2, <3>1
    <3>2. CASE x # c
      <4> DEFINE rest == g[(s \ {c}) \ {x}]
      <4>1. (s \ {c}) \ {x} = (s \ {x}) \ {c}  OBVIOUS
      <4>2. g[s \ {c}] = f[x] + rest /\ rest \in Nat
        BY <1>4, <2>1, <3>2
      <4>3. g[s \ {x}] = f[c] + g[(s \ {x}) \ {c}]
        BY <1>4, <2>1, <3>2
      <4>4. g[s \ {x}] = f[c] + rest  BY <4>1, <4>3
      <4>5. f[x] \in Nat /\ f[c] \in Nat  BY <2>1, <2>3
      <4> HIDE DEF rest
      <4>6. QED  BY <2>2, <4>2, <4>4, <4>5
    <3>3. QED  BY <3>1, <3>2
  <2>6. QED  BY <2>3, <2>4, <2>5
<1>5. S \in Q
  <2> HIDE DEF Q
  <2>1. QED  BY <1>3, <1>4, SubsetsOneByOne
<1>6. ASSUME NEW T \in SUBSET S PROVE SumFunctionOnSet(f, T) = g[T]
  <2>1. \A x \in T : f[x] = f[x]  OBVIOUS
  <2>2. QED  BY <1>1, <2>1, SumOfPart
<1>7. SumFunctionOnSet(f, S) = g[S]
      /\ \A x \in S : SumFunctionOnSet(f, S \ {x}) = g[S \ {x}]
  BY <1>6
<1>8. QED  BY <1>5, <1>7

\* A sum over more elements, of greater values, is no less.
LEMMA SumOfMore ==
  ASSUME NEW f, NEW h, NEW S, IsFiniteSet(S), NEW T \in SUBSET S,
         \A x \in S : f[x] \in Nat,
         \A x \in T : h[x] \in Nat /\ h[x] <= f[x]
  PROVE  SumFunctionOnSet(h, T) <= SumFunctionOnSet(f, S)
<1> DEFINE Sum(e, s) == SumFunctionOnSet(e, s)
           Q == {s \in SUBSET S : Sum(h, s \cap T) <= Sum(f, s)}
<1>1. {} \in Q
  <2>1. {} \cap T = {} /\ {} \in SUBSET S  OBVIOUS
  <2>2. Sum(h, {}) = 0 /\ Sum(f, {}) = 0  BY SumOfNone
  <2>3. Sum(h, {}) <= Sum(f, {})  BY <2>2
  <2>4. QED  BY <2>1, <2>3
<1>2. ASSUME NEW s \in SUBSET S, s # {}, \A x \in s : s \ {x} \in Q
      PROVE  s \in Q
  <2>1. PICK x : x \in s  BY <1>2
  <2> DEFINE t == s \cap T
  <2>2. IsFiniteSet(s) /\ IsFiniteSet(t)  BY FS_Subset
  <2>3. (s \ {x}) \cap T = t \ {x}  OBVIOUS
  <2>4. Sum(h, t \ {x}) <= Sum(f, s \ {x})  BY <1>2, <2>1, <2>3
  <2>5. /\ f[x] \in Nat /\ Sum(f, s \ {x}) \in Nat
        /\ Sum(f, s) = f[x] + Sum(f, s \ {x})
    BY <2>1, <2>2, SumWithout
  <2>6. Sum(h, t) <= Sum(f, s)
    <3>1. CASE x \in T
      <4>1. x \in t  BY <2>1, <3>1
      <4>2. /\ Sum(h, t \ {x}) \in Nat /\ Sum(h, t) = h[x] + Sum(h, t \ {x})
        <5>1. \A y \in t : h[y] \in Nat  OBVIOUS
        <5> HIDE DEF t
        <5>2. QED  BY <2>2, <4>1, <5>1, SumWithout
      <4>3. h[x] \in Nat /\ h[x] <= f[x]  BY <3>1
      <4> HIDE DEF Sum
      <4>4. Sum(h, t \ {x}) + h[x] <= Sum(f, s \ {x}) + f[x]
        BY <2>4, <2>5, <4>2, <4>3
      <4>5. QED  BY <2>5, <4>2, <4>3, <4>4
    <3>2. CASE x \notin T
      <4>1. Sum(h, t \ {x}) = Sum(h, t)
        <5>1. t \ {x} = t  BY <3>2
        <5>2. QED  BY <5>1
      <4>2. Sum(h, t) \in Nat
        <5>1. \A y \in t : h[y] \in Nat  OBVIOUS
        <5> HIDE DEF t
        <5>2. QED  BY <2>2, <5>1, SumWithout
      <4> HIDE DEF Sum
      <4>3. QED  BY <2>4, <2>5, <4>1, <4>2
    <3>3. QED  BY <3>1, <3>2
  <2>7. QED  BY <2>6
<1>3. S \in Q
  <2> HIDE DEF Q
  <2>1. QED  BY <1>1, <1>2, SubsetsOneByOne
<1>4. S \cap T = T  OBVIOUS
<1>5. QED  BY <1>3, <1>4

\* A finite set of numbers that is not empty has a least and a greatest one, and
\* Min and Max are they.
LEMMA MinIsLeast ==
  ASSUME NEW N, N \subseteq Nat, N # {}
  PROVE  Min(N) \in N /\ \A n \in N : Min(N) <= n
<1>1. PICK m \in N : \A n \in N : m <= n  BY LeastNumber
<1>2. QED  BY <1>1 DEF Min

\* The greatest needs the set to be finite: one more element each time.
LEMMA MaxIsGreatest ==
  ASSUME NEW N, IsFiniteSet(N), N \subseteq Nat, N # {}
  PROVE  Max(N) \in N /\ \A n \in N : n <= Max(N)
<1> DEFINE Has(s) == \E m \in s : \A n \in s : m >= n
           Q == {s \in SUBSET N : s = {} \/ Has(s)}
<1>1. {} \in Q  OBVIOUS
<1>2. ASSUME NEW s \in SUBSET N, s # {}, \A x \in s : s \ {x} \in Q
      PROVE  s \in Q
  <2>1. PICK x : x \in s  BY <1>2
  <2>2. x \in Nat /\ \A n \in s : n \in Nat  BY <2>1
  <2>3. CASE s \ {x} = {}
    <3>1. s = {x}  BY <2>1, <2>3
    <3>2. QED  BY <2>2, <3>1
  <2>4. CASE Has(s \ {x})
    <3>1. PICK m \in s \ {x} : \A n \in s \ {x} : m >= n  BY <2>4
    <3>2. CASE x >= m
      <4>1. \A n \in s : x >= n  BY <2>2, <3>1, <3>2
      <4>2. QED  BY <2>1, <4>1
    <3>3. CASE ~(x >= m)
      <4>1. \A n \in s : m >= n  BY <2>2, <3>1, <3>3
      <4>2. QED  BY <3>1, <4>1
    <3>4. QED  BY <3>2, <3>3
  <2>5. QED  BY <1>2, <2>1, <2>3, <2>4
<1>3. N \in Q
  <2> HIDE DEF Q
  <2>1. QED  BY <1>1, <1>2, SubsetsOneByOne
<1>4. PICK m \in N : \A n \in N : m >= n  BY <1>3
<1>5. Max(N) \in N /\ \A n \in N : Max(N) >= n  BY <1>4 DEF Max
<1>6. QED  BY <1>5

\* Of two numbers.
LEMMA MinOfTwo ==
  ASSUME NEW a \in Nat, NEW b \in Nat
  PROVE  Min({a, b}) = IF a <= b THEN a ELSE b
BY MinIsLeast

---------------------------------------------------------------------------
(* Figures: what the rows are.                                             *)

\* Rows as seeded: blank techniques, unanswered capabilities, one item.
LEMMA FiguresStartTyped == FigureInit => FiguresTypeOK
<1> SUFFICES ASSUME FigureInit PROVE FiguresTypeOK  OBVIOUS
<1> USE FiguresAssumption
<1>1. about \in Kinds  BY DEF FigureInit
<1>2. techniques \in [Technique -> TechniqueRow \cup {Blank}]  BY DEF FigureInit
<1>3. subcategory \in [tiers : UNION {[T -> TierRows] : T \in SUBSET CsfTier},
                       rules : Rules, core : BOOLEAN, supporting : BOOLEAN,
                       notes : BOOLEAN, rated : BOOLEAN]
  <2>1. PICK T \in SUBSET CsfTier, rules \in Rules, core, supporting \in BOOLEAN :
          subcategory = [tiers |-> [t \in T |-> Seed], rules |-> rules, core |-> core,
                         supporting |-> supporting, notes |-> FALSE, rated |-> FALSE]
    <3>1. {"high"} \in SUBSET CsfTier /\ "uncapped" \in Rules /\ FALSE \in BOOLEAN
      BY DEF CsfTier, Rules
    <3>2. CASE about = "csf"  BY <3>2 DEF FigureInit
    <3>3. CASE about # "csf"  BY <3>1, <3>3 DEF FigureInit
    <3>4. QED  BY <3>2, <3>3
  <2>2. [t \in T |-> Seed] \in UNION {[U -> TierRows] : U \in SUBSET CsfTier}
    OBVIOUS
  <2>3. QED  BY <2>1, <2>2
<1>4. \E fw \in Framework :
        answers \in [framework : {fw}, chosen : 0..4, answers : [Capab -> Answer(fw)]]
  <2>1. PICK fw \in (IF about = "zt" THEN Framework ELSE {"cisa"}),
             chosen \in (IF about = "zt" THEN 0..4 ELSE {0}) :
          \E rows \in [Capab -> [shape : IF fw = "dod" THEN Shape ELSE {"full"},
                                 stage : Column(IF about = "zt" THEN Stored ELSE {}),
                                 own : Column(IF about = "zt" THEN Stored ELSE {})]] :
            answers = [framework |-> fw, chosen |-> chosen, answers |-> rows]
    BY DEF FigureInit
  <2>2. fw \in Framework /\ chosen \in 0..4  BY DEF Framework
  <2>3. Column(IF about = "zt" THEN Stored ELSE {})
          \subseteq Column(Stored \cup 1..Levels(fw))
    BY DEF Column
  <2>4. PICK rows \in [Capab -> Answer(fw)] :
          answers = [framework |-> fw, chosen |-> chosen, answers |-> rows]
    BY <2>1, <2>3 DEF Answer
  <2>5. QED  BY <2>2, <2>4
<1>5. \E n \in Item :
        items \in [1..n -> [license : 1..n, vendor : Vendor, category : Category,
                            cost : CostSet, cut : BOOLEAN]]
  <2>1. PICK vendor \in Vendor, category \in Category, cost \in CostSet :
          items = [i \in {1} |-> NewItem(i, vendor, category, cost)]
    BY DEF FigureInit
  <2>2. 1 \in Item /\ {1} = 1..1  BY DEF Item
  <2>3. NewItem(1, vendor, category, cost)
          \in [license : 1..1, vendor : Vendor, category : Category,
               cost : CostSet, cut : BOOLEAN]
    BY DEF NewItem
  <2>4. items \in [1..1 -> [license : 1..1, vendor : Vendor, category : Category,
                            cost : CostSet, cut : BOOLEAN]]
    BY <2>1, <2>2, <2>3
  <2>5. QED  BY <2>2, <2>4
<1>6. QED  BY <1>1, <1>2, <1>3, <1>4, <1>5 DEF FiguresTypeOK

ItemRow(n) == [license : 1..n, vendor : Vendor, category : Category,
               cost : CostSet, cut : BOOLEAN]

\* A list of n rows, and what comes of adding one.
LEMMA AddedIsTyped ==
  ASSUME FiguresTypeOK, NEW n \in Item, items \in [1..n -> ItemRow(n)],
         NEW row \in ItemRow(n + 1), Added(row)
  PROVE  /\ NextItem = n + 1 /\ n + 1 \in Item
         /\ items' \in [1..(n + 1) -> ItemRow(n + 1)]
         /\ items'[n + 1] = row /\ \A i \in 1..n : items'[i] = items[i]
         /\ FiguresTypeOK'
<1>1. n \in Nat \ {0} /\ MaxItems \in Nat /\ n <= MaxItems
  BY FiguresAssumption DEF Item
<1>2. NextItem = n + 1
  <2>1. DOMAIN items = 1..n  OBVIOUS
  <2>2. Cardinality(1..n) = n  BY <1>1, FS_Interval
  <2>3. QED  BY <2>1, <2>2 DEF NextItem
<1>3. n + 1 \in Item  BY <1>1, <1>2 DEF Added, Item
<1>4. \A i \in 1..n : items[i] \in ItemRow(n) /\ i \in 1..(n + 1) /\ i # n + 1
  BY <1>1
<1>5. ItemRow(n) \subseteq ItemRow(n + 1)
  <2>1. 1..n \subseteq 1..(n + 1)  BY <1>1
  <2>2. QED  BY <2>1 DEF ItemRow
<1>6. items' = [i \in 1..(n + 1) |-> IF i = n + 1 THEN row ELSE items[i]]
  BY <1>2 DEF Added
<1>7. n + 1 \in 1..(n + 1) /\ \A i \in 1..(n + 1) : i = n + 1 \/ i \in 1..n
  BY <1>1
<1>8. items' \in [1..(n + 1) -> ItemRow(n + 1)]  BY <1>4, <1>5, <1>6, <1>7
<1>9. items'[n + 1] = row /\ \A i \in 1..n : items'[i] = items[i]
  BY <1>4, <1>6, <1>7
<1>10. FiguresTypeOK'
  BY <1>3, <1>8 DEF FiguresTypeOK, Added, ItemRow
<1>11. QED  BY <1>2, <1>3, <1>8, <1>9, <1>10

\* The rows of a list, as the type invariant has them.
LEMMA ItemsTyped ==
  ASSUME FiguresTypeOK
  PROVE  \E n \in Item : items \in [1..n -> ItemRow(n)]
BY DEF FiguresTypeOK, ItemRow

\* Every edit route writes a row of the same shape; a split adds one.
LEMMA EditsKeepTypes ==
  ASSUME FiguresTypeOK, FigureNext
  PROVE  FiguresTypeOK'
<1>1. ASSUME NEW l \in Technique, EditTechnique(l) PROVE FiguresTypeOK'
  BY <1>1 DEF FiguresTypeOK, EditTechnique
<1>2. ASSUME NEW t \in CsfTier, EditTier(t) PROVE FiguresTypeOK'
  <2>1. PICK row \in TierRows : subcategory' = [subcategory EXCEPT !.tiers[t] = row]
    BY <1>2 DEF EditTier
  <2>2. PICK T \in SUBSET CsfTier : subcategory.tiers \in [T -> TierRows]
    BY DEF FiguresTypeOK
  <2>3. [subcategory.tiers EXCEPT ![t] = row] \in [T -> TierRows]
    BY <2>2
  <2>4. subcategory' \in [tiers : UNION {[U -> TierRows] : U \in SUBSET CsfTier},
                          rules : Rules, core : BOOLEAN, supporting : BOOLEAN,
                          notes : BOOLEAN, rated : BOOLEAN]
    BY <2>1, <2>3 DEF FiguresTypeOK
  <2>5. QED  BY <1>2, <2>4 DEF FiguresTypeOK, EditTier
<1>3. ASSUME EditAnswer PROVE FiguresTypeOK'
  BY <1>3 DEF FiguresTypeOK, EditAnswer
<1>4. ASSUME NEW c \in Capab, EditCapability(c) PROVE FiguresTypeOK'
  <2>1. PICK fw \in Framework : answers \in [framework : {fw}, chosen : 0..4,
                                             answers : [Capab -> Answer(fw)]]
    BY DEF FiguresTypeOK
  <2>2. PICK stage, own \in Column(Stored \cup 1..Levels(fw)) :
          answers' = [answers EXCEPT !.answers[c].stage = stage,
                                     !.answers[c].own = own]
    <3>1. answers.framework = fw /\ answers.answers[c] \in Answer(fw)  BY <2>1
    <3>2. /\ answers.answers[c].stage \in Column(Stored \cup 1..Levels(fw))
          /\ answers.answers[c].own \in Column(Stored \cup 1..Levels(fw))
      BY <3>1 DEF Answer
    <3>3. 1..MaxStage(answers, c) \subseteq 1..Levels(fw)
      BY <2>1, <3>1 DEF MaxStage, Levels
    <3>4. /\ Column(1..MaxStage(answers, c)) \subseteq Column(Stored \cup 1..Levels(fw))
          /\ Column(1..Levels(fw)) \subseteq Column(Stored \cup 1..Levels(fw))
      BY <3>3 DEF Column
    <3>5. QED  BY <1>4, <3>1, <3>2, <3>4 DEF EditCapability
  <2> DEFINE row == answers.answers[c]
             staged == [row EXCEPT !.stage = stage]
             both == [staged EXCEPT !.own = own]
  <2>3. row \in Answer(fw)  BY <2>1
  <2>4. staged \in Answer(fw)  BY <2>2, <2>3 DEF Answer
  <2>5. both \in Answer(fw)  BY <2>2, <2>4 DEF Answer
  <2>6. answers' = [answers EXCEPT !.answers = [answers.answers EXCEPT ![c] = both]]
    BY <2>1, <2>2
  <2> HIDE DEF both
  <2>7. answers' \in [framework : {fw}, chosen : 0..4, answers : [Capab -> Answer(fw)]]
    BY <2>1, <2>5, <2>6
  <2>8. QED  BY <1>4, <2>7 DEF FiguresTypeOK, EditCapability
<1> PICK n \in Item : items \in [1..n -> ItemRow(n)]  BY ItemsTyped
<1>5. n \in Nat \ {0} /\ n + 1 \in 1..(n + 1) /\ DOMAIN items = 1..n
      /\ 1..n \subseteq 1..(n + 1)
  BY FiguresAssumption DEF Item
<1>6. ASSUME AddItem PROVE FiguresTypeOK'
  <2>1. PICK vendor \in Vendor, category \in Category, cost \in CostSet :
          Added(NewItem(NextItem, vendor, category, cost))
    BY <1>6 DEF AddItem
  <2>2. NextItem = n + 1
    <3>1. Cardinality(1..n) = n  BY <1>5, FS_Interval
    <3>2. QED  BY <1>5, <3>1 DEF NextItem
  <2>3. NewItem(NextItem, vendor, category, cost) \in ItemRow(n + 1)
    BY <1>5, <2>2 DEF NewItem, ItemRow
  <2>4. QED  BY <2>1, <2>3, AddedIsTyped
<1>7. ASSUME NEW i \in DOMAIN items, Split(i) PROVE FiguresTypeOK'
  <2>1. PICK category \in Category :
          Added([license |-> i, vendor |-> items[i].vendor, category |-> category,
                 cost |-> {}, cut |-> FALSE])
    BY <1>7 DEF Split
  <2>2. items[i].vendor \in Vendor /\ i \in 1..(n + 1) /\ {} \in CostSet
    BY <1>5, <1>7 DEF ItemRow, CostSet
  <2>3. [license |-> i, vendor |-> items[i].vendor, category |-> category,
         cost |-> {}, cut |-> FALSE] \in ItemRow(n + 1)
    BY <2>1, <2>2 DEF ItemRow
  <2>4. QED  BY <2>1, <2>3, AddedIsTyped
<1>8. ASSUME NEW i \in DOMAIN items, EditItem(i) PROVE FiguresTypeOK'
  <2>1. PICK vendor \in Vendor, category \in Category, cut \in BOOLEAN,
             cost \in IF IsPart(items, i) THEN {{}} ELSE CostSet :
          items' = [items EXCEPT ![i] = [@ EXCEPT !.vendor = vendor, !.cut = cut,
                                              !.category = category, !.cost = cost]]
    BY <1>8 DEF EditItem
  <2>2. cost \in CostSet  BY <2>1 DEF CostSet
  <2> DEFINE row == [items[i] EXCEPT !.vendor = vendor, !.cut = cut,
                                     !.category = category, !.cost = cost]
  <2>3. row \in ItemRow(n)
    <3>1. items[i] \in ItemRow(n)  BY <1>8
    <3>2. QED  BY <2>1, <2>2, <3>1 DEF ItemRow
  <2>4. items' = [items EXCEPT ![i] = row]  BY <2>1
  <2> HIDE DEF row
  <2>5. items' \in [1..n -> ItemRow(n)]  BY <2>3, <2>4
  <2>6. QED  BY <1>8, <2>5 DEF FiguresTypeOK, EditItem, ItemRow
<1>9. QED
  BY <1>1, <1>2, <1>3, <1>4, <1>6, <1>7, <1>8 DEF FigureNext

\* The rows the figures are computed from always have their types: what every
\* other theorem about Figures rests on.
THEOREM FiguresAreTyped == FigureSpec => []FiguresTypeOK
<1>1. FigureInit => FiguresTypeOK  BY FiguresStartTyped
<1>2. FiguresTypeOK /\ [FigureNext]_figureVars => FiguresTypeOK'
  <2>1. FiguresTypeOK /\ UNCHANGED figureVars => FiguresTypeOK'
    BY DEF FiguresTypeOK, figureVars
  <2>2. QED  BY <2>1, EditsKeepTypes
<1>3. QED  BY <1>1, <1>2, PTL DEF FigureSpec

---------------------------------------------------------------------------
(* ATT&CK coverage: what is in place is so by a tool nobody has to review,  *)
(* so that neither a review nor the end of a plan can lower a figure.      *)

\* The rows a technique may have.
CoverageRow == [said : CoverageStatus, flagged : SUBSET Tool,
                lists : [Cap -> SUBSET Tool]]

\* Today a capability is in place if one of its tools awaits no review.
LEMMA InPlaceToday ==
  ASSUME NEW names \in SUBSET Tool, NEW flagged
  PROVE  Capability(names, flagged, Today) = "in_place"
           <=> \E t \in names : t \notin flagged
<1>1. \A t \in Tool : ToolState(t, flagged, Today)
                       = IF t \in flagged THEN "awaiting_review" ELSE "in_place"
  BY DEF ToolState, Today
<1>2. QED  BY <1>1 DEF Capability

\* A capability in place is so by a tool nobody has to review; one that is in
\* place under a plan is so today.
LEMMA InPlaceByATool ==
  ASSUME NEW names \in SUBSET Tool, NEW flagged, NEW plan,
         Capability(names, flagged, plan) = "in_place"
  PROVE  \E t \in names : t \notin flagged
<1>1. PICK t \in names : ToolState(t, flagged, plan) = "in_place"
  BY DEF Capability
<1>2. t \notin flagged  BY <1>1 DEF ToolState
<1>3. QED  BY <1>2

\* A claim of support that waits for a review is not computed: pending_codes
\* finds none, since a capability of flagged tools is not in place.
THEOREM NothingPending ==
  ASSUME NEW l \in Technique, NEW row \in CoverageRow, NEW plan
  PROVE  ~Pending(LeafStatus(l, row, plan), row)
<1> SUFFICES ASSUME Pending(LeafStatus(l, row, plan), row) PROVE FALSE  OBVIOUS
<1> DEFINE caps == Capabilities(row, plan)
<1>1. Judged[l] \subseteq Cap /\ Judged[l] # {}
  BY FiguresAssumption DEF Cap
<1>2. LeafStatus(l, row, plan) \in {"covered", "partial"}  BY DEF Pending
<1>3. LeafStatus(l, row, plan) = StatusFrom(l, caps)
  BY <1>2 DEF LeafStatus, Assessed
<1> HIDE DEF caps
<1>4. PICK c \in Judged[l] : caps[c] = "in_place"
  BY <1>1, <1>2, <1>3 DEF StatusFrom
<1>5. c \in Cap /\ Capability(row.lists[c], row.flagged, plan) = "in_place"
  BY <1>1, <1>4 DEF caps, Capabilities
<1>6. row.lists[c] \in SUBSET Tool  BY <1>5 DEF CoverageRow
<1>7. PICK t \in row.lists[c] : t \notin row.flagged  BY <1>5, <1>6, InPlaceByATool
<1>8. t \in UNION {row.lists[d] : d \in Cap}  BY <1>5, <1>7
<1>9. QED  BY <1>7, <1>8 DEF Pending

\* One status is no better than another: of the same kind, and if it is covered
\* the other is, if the other is a gap it is.
NoBetter(a, b) ==
  /\ a \in Assessed <=> b \in Assessed
  /\ a \notin Assessed => a = b
  /\ a = "covered" => b = "covered"
  /\ b = "gap" => a = "gap"

\* compute: with more tools listed, fewer citations to confirm, and without a
\* plan, no technique is scored lower.
LEMMA StatusNoBetter ==
  ASSUME NEW l \in Technique, NEW row \in CoverageRow, NEW other \in CoverageRow,
         other.said = row.said,
         \A c \in Cap : row.lists[c] \subseteq other.lists[c],
         other.flagged \subseteq row.flagged, NEW plan
  PROVE  NoBetter(LeafStatus(l, row, plan), LeafStatus(l, other, Today))
<1> DEFINE few == Capabilities(row, plan)
           many == Capabilities(other, Today)
<1>1. Judged[l] \subseteq Cap /\ Judged[l] # {}
  BY FiguresAssumption DEF Cap
<1>2. \A c \in Cap : few[c] = "in_place" => many[c] = "in_place"
  <2> SUFFICES ASSUME NEW c \in Cap, few[c] = "in_place"
               PROVE  many[c] = "in_place"
    OBVIOUS
  <2>1. row.lists[c] \in SUBSET Tool /\ other.lists[c] \in SUBSET Tool
    BY DEF CoverageRow
  <2>2. Capability(row.lists[c], row.flagged, plan) = "in_place"
    BY DEF Capabilities
  <2>3. \E t \in other.lists[c] : t \notin other.flagged
    BY <2>1, <2>2, InPlaceByATool
  <2>4. Capability(other.lists[c], other.flagged, Today) = "in_place"
    BY <2>1, <2>3, InPlaceToday
  <2>5. QED  BY <2>4 DEF Capabilities
<1> HIDE DEF few, many
<1>3. NoBetter(StatusFrom(l, few), StatusFrom(l, many))
  BY <1>1, <1>2 DEF StatusFrom, NoBetter, Assessed
<1>4. CASE row.said \in Assessed  BY <1>3, <1>4 DEF LeafStatus, few, many
<1>5. CASE row.said \notin Assessed  BY <1>5 DEF LeafStatus, NoBetter
<1>6. QED  BY <1>4, <1>5

\* A technique's status is one of the statuses.
LEMMA StatusIsAStatus ==
  ASSUME NEW l \in Technique, NEW row \in CoverageRow, NEW plan
  PROVE  LeafStatus(l, row, plan) \in CoverageStatus
<1>1. row.said \in CoverageStatus  BY DEF CoverageRow
<1>2. QED  BY <1>1 DEF LeafStatus, StatusFrom, CoverageStatus, Assessed

\* What computed_parent_status makes of its children's statuses.
LEMMA ParentIsOf ==
  ASSUME NEW S \in SUBSET CoverageStatus
  PROVE  /\ ("none" \in S \/ "not_verified" \in S \/ S \cap Assessed = {})
              => ParentStatus(S) \notin Assessed
         /\ ~("none" \in S \/ "not_verified" \in S \/ S \cap Assessed = {})
              => /\ ParentStatus(S) \in Assessed
                 /\ ParentStatus(S) = "covered" <=> S \cap Assessed = {"covered"}
                 /\ ParentStatus(S) = "gap" <=> S \cap Assessed = {"gap"}
<1> DEFINE assessed == S \ SetAside
<1>1. CASE "none" \in S  BY <1>1 DEF ParentStatus, Assessed
<1>2. CASE "none" \notin S /\ "not_verified" \in S
  BY <1>2 DEF ParentStatus, Assessed
<1>3. CASE "none" \notin S /\ "not_verified" \notin S
  <2>1. assessed = S \cap Assessed
    BY <1>3 DEF CoverageStatus, Assessed, SetAside
  <2>2. CASE assessed = {}  BY <1>3, <2>1, <2>2 DEF ParentStatus, Assessed
  <2>3. CASE assessed # {}
    <3>1. ParentStatus(S) = IF Cardinality(assessed) = 1
                            THEN CHOOSE s \in assessed : TRUE ELSE "partial"
      BY <1>3, <2>3 DEF ParentStatus
    <3>2. IsFiniteSet(assessed)
      <4>1. IsFiniteSet({"covered"} \cup {"partial"})
        BY FS_Singleton, FS_AddElement
      <4>2. IsFiniteSet(({"covered"} \cup {"partial"}) \cup {"gap"})
        BY <4>1, FS_AddElement
      <4>3. assessed \subseteq ({"covered"} \cup {"partial"}) \cup {"gap"}
        BY <2>1 DEF Assessed
      <4> HIDE DEF assessed
      <4>4. QED  BY <4>2, <4>3, FS_Subset
    <3> HIDE DEF assessed
    <3>3. CASE Cardinality(assessed) = 1
      <4>1. PICK s : assessed = {s}  BY <3>2, <3>3, FS_Singleton
      <4>2. ParentStatus(S) = s  BY <3>1, <3>3, <4>1
      <4>3. s \in Assessed  BY <2>1, <4>1
      <4>4. QED  BY <1>3, <2>1, <4>1, <4>2, <4>3
    <3>4. CASE Cardinality(assessed) # 1
      <4>1. ParentStatus(S) = "partial"  BY <3>1, <3>4
      <4>2. \A s : assessed # {s}  BY <3>4, FS_Singleton
      <4>3. QED  BY <1>3, <2>1, <2>3, <4>1, <4>2 DEF Assessed
    <3>5. QED  BY <3>3, <3>4
  <2>4. QED  BY <2>2, <2>3
<1>4. QED  BY <1>1, <1>2, <1>3

\* Of no better children, no better a parent.
LEMMA ParentNoBetter ==
  ASSUME NEW a \in [Technique -> CoverageStatus], NEW b \in [Technique -> CoverageStatus],
         \A l \in Technique : NoBetter(a[l], b[l])
  PROVE  NoBetter(ParentStatus({a[l] : l \in Technique}),
                  ParentStatus({b[l] : l \in Technique}))
         \/ /\ ParentStatus({a[l] : l \in Technique}) \notin Assessed
            /\ ParentStatus({b[l] : l \in Technique}) \notin Assessed
<1> DEFINE S == {a[l] : l \in Technique}
           T == {b[l] : l \in Technique}
           Unsettled(U) == "none" \in U \/ "not_verified" \in U \/ U \cap Assessed = {}
<1>1. S \in SUBSET CoverageStatus /\ T \in SUBSET CoverageStatus  OBVIOUS
<1>2. "none" \in S <=> "none" \in T  BY DEF NoBetter, Assessed
<1>3. "not_verified" \in S <=> "not_verified" \in T  BY DEF NoBetter, Assessed
<1>4. S \cap Assessed = {} <=> T \cap Assessed = {}  BY DEF NoBetter
<1>5. S \cap Assessed = {"covered"} => T \cap Assessed \subseteq {"covered"}
  BY DEF NoBetter, Assessed
<1>6. T \cap Assessed = {"gap"} => S \cap Assessed \subseteq {"gap"}
  BY DEF NoBetter, Assessed
<1> HIDE DEF S, T
<1>7. CASE Unsettled(S)
  <2>1. ParentStatus(S) \notin Assessed /\ ParentStatus(T) \notin Assessed
    BY <1>1, <1>2, <1>3, <1>4, <1>7, ParentIsOf
  <2>2. QED  BY <2>1 DEF S, T
<1>8. CASE ~Unsettled(S)
  <2>1. ~Unsettled(T)  BY <1>2, <1>3, <1>4, <1>8
  <2>2. /\ ParentStatus(S) \in Assessed /\ ParentStatus(T) \in Assessed
        /\ ParentStatus(S) = "covered" <=> S \cap Assessed = {"covered"}
        /\ ParentStatus(T) = "covered" <=> T \cap Assessed = {"covered"}
        /\ ParentStatus(S) = "gap" <=> S \cap Assessed = {"gap"}
        /\ ParentStatus(T) = "gap" <=> T \cap Assessed = {"gap"}
    BY <1>1, <1>8, <2>1, ParentIsOf
  <2>3. NoBetter(ParentStatus(S), ParentStatus(T))
    BY <1>5, <1>6, <1>8, <2>1, <2>2 DEF NoBetter
  <2>4. QED  BY <2>3 DEF S, T
<1>9. QED  BY <1>7, <1>8

\* Two sets with nothing in common.
LEMMA SizeOfBoth ==
  ASSUME NEW S, NEW T, IsFiniteSet(S), IsFiniteSet(T), S \cap T = {}
  PROVE  /\ IsFiniteSet(S \cup T)
         /\ Cardinality(S \cup T) = Cardinality(S) + Cardinality(T)
<1>1. /\ IsFiniteSet(S \cup T)
      /\ Cardinality(S \cup T) = Cardinality(S) + Cardinality(T) - Cardinality(S \cap T)
  BY FS_Union
<1>2. Cardinality(S \cap T) = 0  BY FS_EmptySet
<1>3. Cardinality(S) \in Nat /\ Cardinality(T) \in Nat  BY FS_CardinalityType
<1>4. QED  BY <1>1, <1>2, <1>3

\* The techniques of one status.
OfStatus(a, s) == {l \in Technique : a[l] = s}

\* Their numbers, where one assignment of statuses is no better than another.
LEMMA CountsNoBetter ==
  ASSUME NEW a, NEW b, \A l \in Technique : NoBetter(a[l], b[l])
  PROVE  LET N(f, s) == Cardinality(OfStatus(f, s))
         IN /\ \A f, s : N(f, s) \in Nat
            /\ N(a, "covered") <= N(b, "covered")
            /\ N(a, "covered") + N(a, "partial") <= N(b, "covered") + N(b, "partial")
            /\ N(a, "covered") + N(a, "partial") + N(a, "gap")
                 = N(b, "covered") + N(b, "partial") + N(b, "gap")
<1> DEFINE N(f, s) == Cardinality(OfStatus(f, s))
           Scored(f) == OfStatus(f, "covered") \cup OfStatus(f, "partial")
           All(f) == Scored(f) \cup OfStatus(f, "gap")
<1>1. \A f, s : IsFiniteSet(OfStatus(f, s)) /\ N(f, s) \in Nat
  <2> SUFFICES ASSUME NEW f, NEW s
               PROVE  IsFiniteSet(OfStatus(f, s)) /\ N(f, s) \in Nat
    OBVIOUS
  <2>1. IsFiniteSet(Technique) /\ OfStatus(f, s) \subseteq Technique
    BY FiguresAssumption DEF OfStatus
  <2>2. IsFiniteSet(OfStatus(f, s))  BY <2>1, FS_Subset
  <2>3. QED  BY <2>2, FS_CardinalityType
<1>2. \A f : /\ IsFiniteSet(Scored(f)) /\ IsFiniteSet(All(f))
             /\ Cardinality(Scored(f)) = N(f, "covered") + N(f, "partial")
             /\ Cardinality(All(f)) = N(f, "covered") + N(f, "partial") + N(f, "gap")
  <2> SUFFICES ASSUME NEW f
               PROVE  /\ IsFiniteSet(Scored(f)) /\ IsFiniteSet(All(f))
                      /\ Cardinality(Scored(f)) = N(f, "covered") + N(f, "partial")
                      /\ Cardinality(All(f))
                           = N(f, "covered") + N(f, "partial") + N(f, "gap")
    OBVIOUS
  <2>1. OfStatus(f, "covered") \cap OfStatus(f, "partial") = {}
        /\ Scored(f) \cap OfStatus(f, "gap") = {}
    BY DEF OfStatus
  <2>2. /\ IsFiniteSet(OfStatus(f, "covered")) /\ IsFiniteSet(OfStatus(f, "partial"))
        /\ IsFiniteSet(OfStatus(f, "gap"))
    BY <1>1
  <2>3. /\ IsFiniteSet(Scored(f))
        /\ Cardinality(Scored(f)) = N(f, "covered") + N(f, "partial")
    BY <2>1, <2>2, SizeOfBoth
  <2> HIDE DEF Scored
  <2>4. /\ IsFiniteSet(All(f))
        /\ Cardinality(All(f)) = Cardinality(Scored(f)) + N(f, "gap")
    BY <2>1, <2>2, <2>3, SizeOfBoth
  <2>5. QED  BY <2>3, <2>4
<1>3. /\ OfStatus(a, "covered") \subseteq OfStatus(b, "covered")
      /\ Scored(a) \subseteq Scored(b)
      /\ All(a) = All(b)
  BY DEF OfStatus, NoBetter, Assessed
<1> HIDE DEF Scored, All
<1>4. /\ Cardinality(OfStatus(a, "covered")) <= Cardinality(OfStatus(b, "covered"))
      /\ Cardinality(Scored(a)) <= Cardinality(Scored(b))
  BY <1>1, <1>2, <1>3, FS_Subset
<1>5. QED  BY <1>1, <1>2, <1>3, <1>4

\* compute, over rows that are rows: no claim is withheld, and the parent counts
\* beside its sub-techniques.
LEMMA FigureOfRows ==
  ASSUME NEW rows \in [Technique -> CoverageRow], NEW plan
  PROVE  LET a == [l \in Technique |-> LeafStatus(l, rows[l], plan)]
             parent == ParentStatus({a[l] : l \in Technique})
             Count(s) == Cardinality(OfStatus(a, s)) + (IF parent = s THEN 1 ELSE 0)
         IN /\ Figure(rows, plan).weight = 2 * Count("covered") + Count("partial")
            /\ Figure(rows, plan).counted
                 = Count("covered") + Count("partial") + Count("gap")
<1> DEFINE a == [l \in Technique |-> LeafStatus(l, rows[l], plan)]
           parent == ParentStatus({a[l] : l \in Technique})
           pending == {l \in Technique : Pending(a[l], rows[l])}
           held == parent \in {"covered", "partial"} /\ pending # {}
           Count(s) == Cardinality(OfStatus(a, s)) + (IF parent = s THEN 1 ELSE 0)
           CountOf(s) == Cardinality({l \in Technique \ pending : a[l] = s})
                           + (IF parent = s /\ ~held THEN 1 ELSE 0)
<1>1. pending = {}
  <2>1. \A l \in Technique : rows[l] \in CoverageRow /\ a[l] = LeafStatus(l, rows[l], plan)
    OBVIOUS
  <2>2. QED  BY <2>1, NothingPending
<1>2. /\ Figure(rows, plan).weight = 2 * CountOf("covered") + CountOf("partial")
      /\ Figure(rows, plan).counted
           = CountOf("covered") + CountOf("partial") + CountOf("gap")
  BY DEF Figure
<1>3. \A s : CountOf(s) = Count(s)
  <2> SUFFICES ASSUME NEW s PROVE CountOf(s) = Count(s)  OBVIOUS
  <2>1. {l \in Technique \ pending : a[l] = s} = OfStatus(a, s)
    BY <1>1 DEF OfStatus
  <2>2. ~held  BY <1>1
  <2> HIDE DEF a, pending, parent, held
  <2>3. QED  BY <2>1, <2>2
<1> HIDE DEF CountOf
<1>4. QED  BY <1>2, <1>3

\* The figure of rows whose statuses are no better is at most the other.
LEMMA FigureAtMost ==
  ASSUME NEW rows \in [Technique -> CoverageRow], NEW others \in [Technique -> CoverageRow],
         \A l \in Technique : /\ others[l].said = rows[l].said
                              /\ \A c \in Cap : rows[l].lists[c] \subseteq others[l].lists[c]
                              /\ others[l].flagged \subseteq rows[l].flagged,
         NEW plan
  PROVE  AtMost(Figure(rows, plan), Figure(others, Today))
<1> DEFINE a == [l \in Technique |-> LeafStatus(l, rows[l], plan)]
           b == [l \in Technique |-> LeafStatus(l, others[l], Today)]
           p == ParentStatus({a[l] : l \in Technique})
           q == ParentStatus({b[l] : l \in Technique})
           N(f, s) == Cardinality(OfStatus(f, s))
           Is(r, s) == IF r = s THEN 1 ELSE 0
<1>1. \A l \in Technique : NoBetter(a[l], b[l])
  <2> SUFFICES ASSUME NEW l \in Technique PROVE NoBetter(a[l], b[l])  OBVIOUS
  <2>1. rows[l] \in CoverageRow /\ others[l] \in CoverageRow  OBVIOUS
  <2>2. QED  BY <2>1, StatusNoBetter
<1>2. a \in [Technique -> CoverageStatus] /\ b \in [Technique -> CoverageStatus]
  BY StatusIsAStatus
<1>3. /\ Figure(rows, plan).weight
           = 2 * (N(a, "covered") + Is(p, "covered")) + (N(a, "partial") + Is(p, "partial"))
      /\ Figure(rows, plan).counted
           = (N(a, "covered") + Is(p, "covered")) + (N(a, "partial") + Is(p, "partial"))
               + (N(a, "gap") + Is(p, "gap"))
  BY FigureOfRows
<1>4. /\ Figure(others, Today).weight
           = 2 * (N(b, "covered") + Is(q, "covered")) + (N(b, "partial") + Is(q, "partial"))
      /\ Figure(others, Today).counted
           = (N(b, "covered") + Is(q, "covered")) + (N(b, "partial") + Is(q, "partial"))
               + (N(b, "gap") + Is(q, "gap"))
  BY FigureOfRows
<1>5. NoBetter(p, q) \/ (p \notin Assessed /\ q \notin Assessed)
  <2> HIDE DEF a, b
  <2>1. QED  BY <1>1, <1>2, ParentNoBetter
<1>6. /\ \A f, s : N(f, s) \in Nat
      /\ N(a, "covered") <= N(b, "covered")
      /\ N(a, "covered") + N(a, "partial") <= N(b, "covered") + N(b, "partial")
      /\ N(a, "covered") + N(a, "partial") + N(a, "gap")
           = N(b, "covered") + N(b, "partial") + N(b, "gap")
  <2> HIDE DEF a, b
  <2>1. QED  BY <1>1, CountsNoBetter
<1> HIDE DEF a, b, p, q, N
<1>7. /\ \A r, s : Is(r, s) \in {0, 1}
      /\ Is(p, "covered") <= Is(q, "covered")
      /\ Is(p, "covered") + Is(p, "partial") <= Is(q, "covered") + Is(q, "partial")
      /\ Is(p, "covered") + Is(p, "partial") + Is(p, "gap")
           = Is(q, "covered") + Is(q, "partial") + Is(q, "gap")
  BY <1>5 DEF NoBetter, Assessed
<1> HIDE DEF Is
<1> DEFINE f == Figure(rows, plan)
           g == Figure(others, Today)
<1>8. f.counted = g.counted /\ f.weight <= g.weight
      /\ f.counted \in Nat /\ f.weight \in Nat /\ g.weight \in Nat
  BY <1>3, <1>4, <1>6, <1>7
<1>9. \A m, n, k \in Nat : m <= n => m * k <= n * k
  OBVIOUS
<1>10. f.weight * f.counted <= g.weight * f.counted
  <2> HIDE DEF f, g
  <2>1. QED  BY <1>8, <1>9
<1>11. QED  BY <1>8, <1>10 DEF AtMost

\* A review of one citation, and the end of every plan, leave the lists alone.
LEMMA CoverageIsABound ==
  ASSUME FiguresTypeOK
  PROVE  CoverageIsBound
<1>1. techniques \in [Technique -> CoverageRow]
  <2>1. Blank \in CoverageRow
    BY DEF Blank, CoverageRow, CoverageStatus
  <2>2. TechniqueRow \subseteq CoverageRow
    BY FiguresAssumption DEF CoverageRow
  <2>3. QED  BY <2>1, <2>2 DEF FiguresTypeOK
<1>2. ASSUME NEW l \in Technique, NEW confirmed \in SUBSET Tool
      PROVE  AtMost(TodayFigure(techniques),
                    TodayFigure([techniques EXCEPT ![l].flagged = @ \ confirmed]))
  <2> DEFINE row == techniques[l]
             reviewed == [row EXCEPT !.flagged = row.flagged \ confirmed]
             others == [techniques EXCEPT ![l] = reviewed]
  <2>1. row \in CoverageRow  BY <1>1
  <2>2. reviewed \in CoverageRow /\ reviewed.said = row.said
        /\ reviewed.lists = row.lists /\ reviewed.flagged \subseteq row.flagged
    BY <2>1 DEF CoverageRow
  <2>3. others = [techniques EXCEPT ![l].flagged = @ \ confirmed]
    BY <1>1
  <2> HIDE DEF reviewed
  <2>4. others \in [Technique -> CoverageRow]  BY <1>1, <2>2
  <2>5. \A m \in Technique : others[m] = IF m = l THEN reviewed ELSE techniques[m]
    BY <1>1
  <2>6. \A m \in Technique : /\ others[m].said = techniques[m].said
                             /\ others[m].lists = techniques[m].lists
                             /\ others[m].flagged \subseteq techniques[m].flagged
    BY <2>2, <2>5
  <2> HIDE DEF others
  <2>7. AtMost(Figure(techniques, Today), Figure(others, Today))
    BY <1>1, <2>4, <2>6, FigureAtMost
  <2>8. QED  BY <2>3, <2>7 DEF TodayFigure
<1>3. ASSUME NEW plan \in Plans
      PROVE  AtMost(Figure(techniques, plan), TodayFigure(techniques))
  BY <1>1, FigureAtMost DEF TodayFigure
<1>4. QED  BY <1>2, <1>3 DEF CoverageIsBound

\* coverage_pct as shown is a lower bound: confirming inferred citations never
\* lowers it (computed.py), and no retirement plan raises it (after.py).
THEOREM CoverageBound == FigureSpec => []CoverageIsBound
BY FiguresAreTyped, CoverageIsABound, PTL

---------------------------------------------------------------------------
(* The CSF Enterprise level.                                               *)

\* A tier's level is a number.
LEMMA LevelIsANumber ==
  ASSUME NEW row \in TierRow, NEW cap
  PROVE  TierLevel(row, cap) \in Nat
<1>1. \A total : MaturityLevel(total) \in Nat
  <2> SUFFICES ASSUME NEW total PROVE MaturityLevel(total) \in Nat  OBVIOUS
  <2> DEFINE below == {b \in {3, 6, 8, 10} : total >= b}
  <2>1. IsFiniteSet(0..10)
    <3>1. 0 \in Int /\ 10 \in Int  OBVIOUS
    <3>2. QED  BY <3>1, FS_Interval, Zenon
  <2>2. IsFiniteSet(below)
    <3>1. below \subseteq 0..10  OBVIOUS
    <3> HIDE DEF below
    <3>2. QED  BY <2>1, <3>1, FS_Subset
  <2>3. Cardinality(below) \in Nat  BY <2>2, FS_CardinalityType
  <2>4. MaturityLevel(total) = 1 + Cardinality(below)  BY DEF MaturityLevel
  <2> HIDE DEF below
  <2>5. QED  BY <2>3, <2>4
<1>2. \A level \in Nat : Min({2, level}) \in Nat  BY MinOfTwo
<1>3. QED  BY <1>1, <1>2 DEF TierLevel

\* weighted_floor_rollup gives the level of one of the tiers: the lowest, but for
\* a supporting subcategory whose LOW tier alone is behind, where it is the
\* highest of the others.
LEMMA RollupIsFloor ==
  ASSUME NEW D \in SUBSET CsfTier, D # {}, NEW levels \in [D -> Nat],
         NEW core, NEW supporting
  PROVE  LET score == Rollup(levels, core, supporting).score
             exception == /\ supporting /\ ~core /\ "low" \in D /\ D # {"low"}
                          /\ \A t \in D \ {"low"} : levels[t] > levels["low"]
         IN /\ \E t \in D : score = levels[t]
            /\ \A t \in D : IF exception THEN score >= levels[t]
                                         ELSE score <= levels[t]
<1> DEFINE all == {levels[t] : t \in D}
           others == {levels[t] : t \in D \ {"low"}}
           lo == Min(all)
           score == Rollup(levels, core, supporting).score
           exception == /\ supporting /\ ~core /\ "low" \in D /\ D # {"low"}
                        /\ \A t \in D \ {"low"} : levels[t] > levels["low"]
           AtFloor(t) == t \in D /\ levels[t] = lo
<1>1. all \subseteq Nat /\ all # {} /\ others \subseteq all  OBVIOUS
<1>2. lo \in all /\ \A n \in all : lo <= n
  <2> HIDE DEF all
  <2>1. QED  BY <1>1, MinIsLeast
<1>3. lo \in Nat /\ \A t \in D : levels[t] \in Nat /\ lo <= levels[t]
  BY <1>1, <1>2
<1>4. PICK m \in D : levels[m] = lo  BY <1>2
<1>5. DOMAIN levels = D  OBVIOUS
<1>6. score = IF all = {lo} THEN lo
              ELSE IF core THEN lo
              ELSE IF AtFloor("high") THEN levels["high"]
              ELSE IF AtFloor("moderate") THEN levels["moderate"]
              ELSE IF supporting THEN Max(others)
              ELSE lo
  BY <1>5 DEF Rollup
<1> HIDE DEF score, lo
<1>7. CASE exception
  <2>1. PICK u \in D : u # "low"  BY <1>7
  <2>2. levels["low"] \in Nat /\ levels[u] > levels["low"] /\ "low" \in D
    BY <1>7, <2>1
  <2>3. m = "low" /\ lo = levels["low"]
    <3>1. lo <= levels["low"]  BY <1>3, <2>2
    <3>2. m # "low" => levels[m] > levels["low"]  BY <1>7
    <3>3. QED  BY <1>3, <1>4, <2>2, <3>1, <3>2
  <2>4. all # {lo}
    <3>1. levels[u] \in all /\ levels[u] # lo  BY <1>3, <2>1, <2>2, <2>3
    <3>2. QED  BY <3>1
  <2>5. ~AtFloor("high") /\ ~AtFloor("moderate")
    <3>1. \A t \in D \ {"low"} : levels[t] # lo  BY <1>3, <1>7, <2>3
    <3>2. QED  BY <3>1
  <2>6. score = Max(others)  BY <1>6, <1>7, <2>4, <2>5
  <2>7. IsFiniteSet(others) /\ others # {}
    <3>1. others \subseteq {levels["high"], levels["moderate"]}  BY DEF CsfTier
    <3>2. IsFiniteSet({levels["high"]} \cup {levels["moderate"]})
      BY FS_Singleton, FS_AddElement
    <3>3. {levels["high"]} \cup {levels["moderate"]}
            = {levels["high"], levels["moderate"]}
      OBVIOUS
    <3>4. IsFiniteSet(others)
      <4> HIDE DEF others
      <4>1. QED  BY <3>1, <3>2, <3>3, FS_Subset
    <3>5. QED  BY <2>1, <3>4
  <2>8. Max(others) \in others /\ \A n \in others : n <= Max(others)
    <3>1. others \subseteq Nat  BY <1>1
    <3> HIDE DEF others
    <3>2. QED  BY <2>7, <3>1, MaxIsGreatest
  <2>9. PICK w \in D \ {"low"} : score = levels[w]  BY <2>6, <2>8
  <2>10. \A t \in D \ {"low"} : score >= levels[t]
    <3>1. \A t \in D \ {"low"} : levels[t] \in others  OBVIOUS
    <3>2. QED  BY <1>3, <2>6, <2>8, <2>9, <3>1
  <2>11. score >= levels["low"]
    <3>1. levels[w] > levels["low"] /\ levels[w] \in Nat  BY <1>3, <1>7, <2>9
    <3>2. QED  BY <2>2, <2>9, <3>1
  <2>12. QED  BY <1>7, <2>9, <2>10, <2>11 DEF score
<1>8. CASE ~exception
  <2>1. score = lo
    <3> SUFFICES ASSUME all # {lo}, ~core, ~AtFloor("high"), ~AtFloor("moderate"),
                        supporting
                 PROVE  FALSE
      BY <1>6
    <3>1. m = "low" /\ "low" \in D  BY <1>4 DEF CsfTier
    <3>2. \A t \in D \ {"low"} : levels[t] # lo  BY DEF CsfTier
    <3>3. \A t \in D \ {"low"} : levels[t] > levels["low"]
      BY <1>3, <1>4, <3>1, <3>2
    <3>4. D # {"low"}  BY <1>4, <3>1
    <3>5. QED  BY <1>8, <3>1, <3>3, <3>4
  <2>2. \A t \in D : score <= levels[t]  BY <1>3, <2>1
  <2>3. score = levels[m]  BY <1>4, <2>1
  <2>4. QED  BY <1>8, <2>2, <2>3 DEF score
<1>9. QED  BY <1>7, <1>8

\* Each subcategory is in one of the counts, by its own predicate.
LEMMA CountedOnce ==
  ASSUME NEW e, e.scored \in BOOLEAN, NEW notes \in BOOLEAN, NEW rated \in BOOLEAN
  PROVE  Cardinality(CountedAs(e, notes, rated)) = 1
<1>1. \E c : CountedAs(e, notes, rated) = {c}
  <2>1. CASE e.scored  BY <2>1 DEF CountedAs
  <2>2. CASE ~e.scored /\ notes  BY <2>2 DEF CountedAs
  <2>3. CASE ~e.scored /\ ~notes /\ rated  BY <2>3 DEF CountedAs
  <2>4. CASE ~e.scored /\ ~notes /\ ~rated  BY <2>4 DEF CountedAs
  <2>5. QED  BY <2>1, <2>2, <2>3, <2>4
<1>2. QED  BY <1>1, FS_Singleton

\* In every typed state: what RollupIsFloor and CountedOnce say of the one
\* subcategory there is.
LEMMA EnterpriseIsTheFloor ==
  ASSUME FiguresTypeOK
  PROVE  EnterpriseIsFloor
<1> DEFINE s == subcategory
           e == Enterprise(s.tiers, s.rules, s.core, s.supporting)
           rolled == RolledTiers(s.tiers, s.rules)
           Level(t) == TierLevel(s.tiers[t], EvidenceCapApplies(s.rules))
           levels == [t \in rolled |-> Level(t)]
           exception == /\ s.supporting /\ ~s.core /\ "low" \in rolled
                        /\ rolled # {"low"}
                        /\ \A t \in rolled \ {"low"} : Level(t) > Level("low")
           targets == {s.tiers[t].target : t \in rolled}
           target == Max({0} \cup targets)
<1>1. PICK T \in SUBSET CsfTier : s.tiers \in [T -> TierRows]
  BY DEF FiguresTypeOK
<1>2. rolled \subseteq T  BY <1>1 DEF RolledTiers, ScoredTiers
<1>3. \A t \in rolled : s.tiers[t] \in TierRow
  BY <1>1, <1>2, FiguresAssumption
<1>4. \A t \in rolled : Level(t) \in Nat  BY <1>3, LevelIsANumber
<1>5. /\ e.level = IF rolled = {} THEN 0
                   ELSE Rollup(levels, s.core, s.supporting).score
      /\ e.scored \in BOOLEAN
      /\ e.gap = (target # 0 /\ e.level < target)
      /\ e.evidence = {s.tiers[t].evidence : t \in rolled}
  BY DEF Enterprise
<1>6. s.notes \in BOOLEAN /\ s.rated \in BOOLEAN  BY DEF FiguresTypeOK
<1> HIDE DEF e, rolled, Level
<1>7. ASSUME rolled # {}
      PROVE  /\ \E t \in rolled : e.level = Level(t)
             /\ \A t \in rolled : IF exception THEN e.level >= Level(t)
                                               ELSE e.level <= Level(t)
  <2>1. rolled \in SUBSET CsfTier /\ levels \in [rolled -> Nat]  BY <1>1, <1>2, <1>4
  <2>2. \A t \in rolled : levels[t] = Level(t)  OBVIOUS
  <2> DEFINE strictly == /\ s.supporting /\ ~s.core /\ "low" \in rolled
                         /\ rolled # {"low"}
                         /\ \A t \in rolled \ {"low"} : levels[t] > levels["low"]
  <2>3. strictly <=> exception  BY <2>2
  <2>4. e.level = Rollup(levels, s.core, s.supporting).score  BY <1>5, <1>7
  <2> HIDE DEF levels
  <2>5. /\ \E t \in rolled : e.level = levels[t]
        /\ \A t \in rolled : IF strictly THEN e.level >= levels[t]
                                         ELSE e.level <= levels[t]
    BY <1>7, <2>1, <2>4, RollupIsFloor
  <2> HIDE DEF strictly, exception
  <2>6. QED  BY <2>2, <2>3, <2>5
<1>8. e.gap => \E t \in rolled : s.tiers[t].target > e.level
  <2> SUFFICES ASSUME e.gap PROVE \E t \in rolled : s.tiers[t].target > e.level
    OBVIOUS
  <2>1. rolled \subseteq {"high", "moderate", "low"}  BY <1>1, <1>2 DEF CsfTier
  <2>2. target \in {0} \cup targets
    <3>1. {0} \cup targets \subseteq 0..5  BY <1>3 DEF TierRow
    <3>2. IsFiniteSet({0} \cup targets)
      <4>1. IsFiniteSet(0..5)
        <5>1. 0 \in Int /\ 5 \in Int  OBVIOUS
        <5>2. QED  BY <5>1, FS_Interval, Zenon
      <4> HIDE DEF targets
      <4>2. QED  BY <3>1, <4>1, FS_Subset
    <3>3. {0} \cup targets \subseteq Nat /\ {0} \cup targets # {}  BY <3>1
    <3> HIDE DEF targets
    <3>4. QED  BY <3>2, <3>3, MaxIsGreatest
  <2>3. PICK t \in rolled : s.tiers[t].target = target
    BY <1>5, <2>2
  <2>4. target \in Nat  BY <1>3, <2>3 DEF TierRow
  <2>5. e.level \in Nat  BY <1>4, <1>7, <2>3
  <2> HIDE DEF target
  <2>6. QED  BY <1>5, <2>3, <2>4, <2>5
<1>9. Cardinality(CountedAs(e, s.notes, s.rated)) = 1
  BY <1>5, <1>6, CountedOnce
<1>10. Notional(e) => EvidenceClass(e) \in {"neither", "mixed"}
  BY DEF Notional, EvidenceClass
<1>11. QED
  BY <1>7, <1>8, <1>9, <1>10 DEF EnterpriseIsFloor, e, rolled, Level

\* enterprise_subcategories: the level is the weakest tier's, the exception apart;
\* the counts of subcategories add up; a gap is measured against an assessed tier.
THEOREM EnterpriseFloor == FigureSpec => []EnterpriseIsFloor
BY FiguresAreTyped, EnterpriseIsTheFloor, PTL

---------------------------------------------------------------------------
(* Zero Trust gaps.                                                        *)

\* The number of a column that holds one.
LEMMA HeldInColumn ==
  ASSUME NEW N, NEW column \in Column(N), column # {}
  PROVE  Held(column) \in N /\ column = {Held(column)}
BY DEF Held, Column

\* What the type invariant says of one answer of a Zero Trust assessment, and
\* what that makes of its stages and targets.
LEMMA StagesOfAnAnswer ==
  ASSUME FiguresTypeOK, NEW c \in Capab
  PROVE  LET z == answers
             row == z.answers[c]
             top == Levels(z.framework)
             max == MaxStage(z, c)
             asked == Asked(z, c)
             raw == RegisterAsked(z, c)
         IN /\ top \in Nat /\ max \in 1..top /\ asked \in 1..top /\ raw \in Nat
            /\ row.stage # {} => Held(row.stage) \in Nat /\ row.stage = {Held(row.stage)}
            /\ row.own # {} => raw = Held(row.own) /\ row.own = {raw}
            /\ row.own = {} => raw = asked
            /\ row.own # {} /\ raw \in 1..top => raw = asked
            /\ c \in Unusable(z) <=> row.own # {} /\ raw \notin 1..top
            /\ Valid(z, c) = IF row.stage # {} /\ Held(row.stage) \in 1..top
                             THEN Held(row.stage) ELSE 0
            /\ Counted(z, c) = IF Valid(z, c) <= max THEN Valid(z, c) ELSE max
            /\ Target(z, c) = IF asked <= max THEN asked ELSE max
            /\ RegisterTarget(z, c) = IF raw <= max THEN raw ELSE max
<1> DEFINE z == answers
           row == z.answers[c]
           top == Levels(z.framework)
           resolved == Resolved(z.framework, z.chosen)
<1>1. PICK fw \in Framework : answers \in [framework : {fw}, chosen : 0..4,
                                           answers : [Capab -> Answer(fw)]]
  BY DEF FiguresTypeOK
<1>2. z.framework = fw /\ z.chosen \in 0..4 /\ row \in Answer(fw)  BY <1>1
<1>3. Levels(fw) \in {3, 4}  BY DEF Levels
<1>4. top \in {3, 4}  BY <1>2, <1>3
<1>5. row.stage \in Column(Stored \cup 1..top) /\ row.own \in Column(Stored \cup 1..top)
  BY <1>2 DEF Answer
<1>6. resolved \in 1..top  BY <1>2, <1>3 DEF Resolved
<1>7. MaxStage(z, c) \in 1..top  BY <1>4 DEF MaxStage
<1> HIDE DEF row, top, resolved
<1>8. Stored \cup 1..top \subseteq Nat  BY <1>4, FiguresAssumption
<1>9. row.stage # {} => Held(row.stage) \in Nat /\ row.stage = {Held(row.stage)}
  BY <1>5, <1>8, HeldInColumn
<1>10. row.own # {} => Held(row.own) \in Nat /\ row.own = {Held(row.own)}
  BY <1>5, <1>8, HeldInColumn
<1>11. RegisterAsked(z, c) = IF row.own # {} THEN Held(row.own) ELSE resolved
  BY DEF RegisterAsked, row, resolved
<1>12. Asked(z, c) = IF row.own # {} /\ Held(row.own) \in 1..top
                     THEN Held(row.own) ELSE resolved
  BY DEF Asked, OnLadder, row, top, resolved
<1>13. c \in Unusable(z) <=> row.own # {} /\ Held(row.own) \notin 1..top
  BY DEF Unusable, OnLadder, row, top
<1>14. Valid(z, c) = IF row.stage # {} /\ Held(row.stage) \in 1..top
                     THEN Held(row.stage) ELSE 0
  BY DEF Valid, OnLadder, row, top
<1>15. RegisterAsked(z, c) \in Nat /\ Asked(z, c) \in 1..top /\ Valid(z, c) \in Nat
       /\ MaxStage(z, c) \in Nat /\ top \in Nat
  BY <1>4, <1>6, <1>7, <1>9, <1>10, <1>11, <1>12, <1>14
<1>16. Counted(z, c) = IF Valid(z, c) <= MaxStage(z, c) THEN Valid(z, c)
                                                        ELSE MaxStage(z, c)
  BY <1>15, MinOfTwo DEF Counted
<1>17. Target(z, c) = IF Asked(z, c) <= MaxStage(z, c) THEN Asked(z, c)
                                                       ELSE MaxStage(z, c)
  <2>1. Asked(z, c) \in Nat  BY <1>15
  <2>2. QED  BY <1>15, <2>1, MinOfTwo DEF Target
<1>18. RegisterTarget(z, c) = IF RegisterAsked(z, c) <= MaxStage(z, c)
                              THEN RegisterAsked(z, c) ELSE MaxStage(z, c)
  BY <1>15, MinOfTwo DEF RegisterTarget
<1>19. /\ row.own # {} => RegisterAsked(z, c) = Held(row.own)
                          /\ row.own = {RegisterAsked(z, c)}
       /\ row.own = {} => RegisterAsked(z, c) = Asked(z, c)
       /\ row.own # {} /\ RegisterAsked(z, c) \in 1..top
            => RegisterAsked(z, c) = Asked(z, c)
       /\ c \in Unusable(z) <=> row.own # {} /\ RegisterAsked(z, c) \notin 1..top
  BY <1>10, <1>11, <1>12, <1>13
<1>20. QED
  BY <1>7, <1>9, <1>14, <1>15, <1>16, <1>17, <1>18, <1>19 DEF row, top

\* In every typed state: per capability first, then over their sums.
LEMMA RegisterGapsAreTheGaps ==
  ASSUME FiguresTypeOK
  PROVE  RegisterFindsTheGaps
<1> DEFINE z == answers
           S(c) == z.answers[c].stage
           O(c) == z.answers[c].own
           top == Levels(z.framework)
           V(c) == Valid(z, c)
           M(c) == MaxStage(z, c)
           K(c) == Counted(z, c)
           T(c) == Target(z, c)
           A(c) == Asked(z, c)
           R(c) == RegisterAsked(z, c)
           G(c) == RegisterTarget(z, c)
           usable == Capab \ Unusable(z)
           retired == {c \in Capab : S(c) = {0}}
<1>1. \A c \in Capab :
        /\ top \in Nat /\ M(c) \in 1..top /\ A(c) \in 1..top /\ R(c) \in Nat
        /\ S(c) # {} => Held(S(c)) \in Nat /\ S(c) = {Held(S(c))}
        /\ O(c) # {} => O(c) = {R(c)}
        /\ O(c) = {} => R(c) = A(c)
        /\ O(c) # {} /\ R(c) \in 1..top => R(c) = A(c)
        /\ c \in Unusable(z) <=> O(c) # {} /\ R(c) \notin 1..top
        /\ V(c) = IF S(c) # {} /\ Held(S(c)) \in 1..top THEN Held(S(c)) ELSE 0
        /\ K(c) = IF V(c) <= M(c) THEN V(c) ELSE M(c)
        /\ T(c) = IF A(c) <= M(c) THEN A(c) ELSE M(c)
        /\ G(c) = IF R(c) <= M(c) THEN R(c) ELSE M(c)
  BY StagesOfAnAnswer
<1>2. /\ \A c \in Capab : c \in Gaps(z) <=> V(c) # 0 /\ V(c) < T(c)
      /\ \A c \in Capab : c \in Findings(z) <=> S(c) # {} /\ Held(S(c)) < G(c)
      /\ \A c \in Capab : c \in Lowered(z) <=> G(c) < R(c)
      /\ \A c \in Capab : c \in CappedTargets(z) <=> A(c) > M(c)
      /\ \A c \in Capab : c \in AboveMax(z) <=> V(c) > M(c)
      /\ \A c \in Capab : c \in retired <=> S(c) = {0}
      /\ Gaps(z) \subseteq Capab /\ Findings(z) \subseteq Capab
      /\ Lowered(z) \subseteq Capab /\ CappedTargets(z) \subseteq Capab
      /\ Unusable(z) \subseteq Capab /\ AboveMax(z) \subseteq Capab
      /\ retired \subseteq Capab
  BY DEF Gaps, Findings, Lowered, CappedTargets, AboveMax, Unusable
<1> HIDE DEF S, O, top, V, M, K, T, A, R, G, retired
<1>3. \A c \in Capab : K(c) \in Nat /\ T(c) \in Nat /\ T(c) <= M(c) /\ T(c) >= 1
  BY <1>1
<1>4. ASSUME NEW c \in Capab, c \notin Unusable(z)
      PROVE  /\ G(c) = T(c)
             /\ c \in Lowered(z) <=> c \in CappedTargets(z)
             /\ c \in Findings(z) <=> c \in Gaps(z) \/ c \in retired
  <2>1. R(c) = A(c)  BY <1>1, <1>4
  <2>2. G(c) = T(c)  BY <1>1, <2>1
  <2>3. c \in Lowered(z) <=> c \in CappedTargets(z)  BY <1>1, <1>2, <2>1
  <2>4. (S(c) # {} /\ Held(S(c)) < T(c)) <=> (V(c) # 0 /\ V(c) < T(c)) \/ S(c) = {0}
    <3>1. CASE S(c) = {}  BY <1>1, <3>1
    <3>2. CASE S(c) # {}
      <4>1. Held(S(c)) \in Nat /\ (S(c) = {0} <=> Held(S(c)) = 0)  BY <1>1, <3>2
      <4>2. T(c) \in 1..top /\ top \in Nat  BY <1>1
      <4>3. V(c) = IF Held(S(c)) \in 1..top THEN Held(S(c)) ELSE 0  BY <1>1, <3>2
      <4>4. QED  BY <3>2, <4>1, <4>2, <4>3
    <3>3. QED  BY <3>1, <3>2
  <2>5. QED  BY <1>2, <2>2, <2>3, <2>4
<1>5. ASSUME NEW c \in Unusable(z)
      PROVE  c \in Lowered(z) <=> O(c) # {0}
  <2>1. c \in Capab /\ O(c) = {R(c)} /\ R(c) \notin 1..top  BY <1>1, <1>2
  <2>2. R(c) \in Nat /\ top \in Nat /\ M(c) \in 1..top  BY <1>1, <2>1
  <2>3. G(c) = IF R(c) <= M(c) THEN R(c) ELSE M(c)  BY <1>1, <2>1
  <2>4. G(c) < R(c) <=> R(c) # 0  BY <2>1, <2>2, <2>3
  <2>5. QED  BY <1>2, <2>1, <2>4
<1>6. ASSUME NEW c \in Gaps(z), c \notin Findings(z)
      PROVE  c \in Capab /\ O(c) = {0}
  <2>1. c \in Capab /\ V(c) # 0 /\ V(c) < T(c)  BY <1>2
  <2>2. c \in Unusable(z)  BY <1>2, <1>4, <1>6, <2>1
  <2>3. O(c) = {R(c)} /\ R(c) \notin 1..top /\ R(c) \in Nat /\ top \in Nat
        /\ M(c) \in 1..top
    BY <1>1, <2>1, <2>2
  <2>4. S(c) # {} /\ Held(S(c)) = V(c)  BY <1>1, <2>1
  <2>5. ~(V(c) < G(c))  BY <1>2, <1>6, <2>1, <2>4
  <2>6. G(c) = IF R(c) <= M(c) THEN R(c) ELSE M(c)  BY <1>1, <2>1
  <2>7. T(c) <= M(c) /\ V(c) \in Nat /\ T(c) \in Nat  BY <1>1, <1>3, <2>1
  <2>8. R(c) = 0  BY <2>1, <2>3, <2>5, <2>6, <2>7
  <2>9. QED  BY <2>1, <2>3, <2>8
<1>7. \A c \in Capab : V(c) # 0 => (V(c) < T(c) <=> K(c) < T(c))
  BY <1>1, <1>3
<1>8. Gaps(z) = {c \in Answered(z) : K(c) < T(c)}
  BY <1>2, <1>7 DEF Answered, V
<1>9. CappedTargets(z) \cap NoTargetLevel(z) = {}
  <2>1. \A c \in NoTargetLevel(z) : c \in Capab /\ A(c) <= M(c)
    BY DEF NoTargetLevel, A, M
  <2>2. \A c \in Capab : ~(A(c) > M(c) /\ A(c) <= M(c))  BY <1>1
  <2>3. QED  BY <1>2, <2>1, <2>2
<1>10. Gaps(z) \cap AboveMax(z) = {}
  <2>1. \A c \in Capab : ~(V(c) < T(c) /\ V(c) > M(c))  BY <1>1, <1>3
  <2>2. QED  BY <1>2, <2>1
<1>11. ASSUME Gaps(z) = {} PROVE StageSum(z) >= TargetSum(z)
  <2> DEFINE f == [c \in Capab |-> Counted(z, c)]
             h == [c \in Capab |-> Target(z, c)]
  <2>1. IsFiniteSet(Answered(z)) /\ Answered(z) \subseteq Capab
    BY FiguresAssumption, FS_Subset DEF Answered
  <2>2. \A c \in Answered(z) : f[c] \in Nat /\ h[c] \in Nat /\ h[c] <= f[c]
    <3> SUFFICES ASSUME NEW c \in Answered(z)
                 PROVE f[c] \in Nat /\ h[c] \in Nat /\ h[c] <= f[c]
      OBVIOUS
    <3>1. c \in Capab  BY <2>1
    <3>2. ~(K(c) < T(c))  BY <1>8, <1>11
    <3>3. f[c] = K(c) /\ h[c] = T(c)  BY <3>1 DEF K, T
    <3> HIDE DEF f, h
    <3>4. QED  BY <1>3, <3>1, <3>2, <3>3
  <2>3. SumFunctionOnSet(h, Answered(z)) <= SumFunctionOnSet(f, Answered(z))
    <3> HIDE DEF f, h
    <3>1. Answered(z) \in SUBSET Answered(z)  OBVIOUS
    <3>2. QED  BY <2>1, <2>2, <3>1, SumOfMore
  <2>4. /\ SumFunctionOnSet(f, Answered(z)) \in Nat
        /\ SumFunctionOnSet(h, Answered(z)) \in Nat
    <3> HIDE DEF f, h
    <3>1. QED  BY <2>1, <2>2, SumWithout
  <2>5. StageSum(z) = SumFunctionOnSet(f, Answered(z))
        /\ TargetSum(z) = SumFunctionOnSet(h, Answered(z))
    BY DEF StageSum, TargetSum
  <2> HIDE DEF f, h
  <2>6. QED  BY <2>3, <2>4, <2>5
<1>12. \A c \in usable : G(c) = T(c)  BY <1>4
<1>13. Lowered(z) \cap usable = CappedTargets(z) \cap usable  BY <1>2, <1>4
<1>14. Findings(z) \cap usable = (Gaps(z) \cup retired) \cap usable  BY <1>2, <1>4
<1>15. Lowered(z) \cap Unusable(z) = {c \in Unusable(z) : O(c) # {0}}  BY <1>5
<1>16. Gaps(z) \ Findings(z) \subseteq {c \in Capab : O(c) = {0}}  BY <1>6
<1>17. QED
  BY <1>8, <1>9, <1>10, <1>11, <1>12, <1>13, <1>14, <1>15, <1>16
     DEF RegisterFindsTheGaps, G, T, K, O, S, retired

\* _gather_findings: whatever number a stage or a target was stored as, the register
\* and the assessment differ over a stored stage 0 and over the rows whose stored
\* target is off the ladder, and nowhere else; a low percentage means a gap.
THEOREM RegisterGaps == FigureSpec => []RegisterFindsTheGaps
BY FiguresAreTyped, RegisterGapsAreTheGaps, PTL

---------------------------------------------------------------------------
(* Capability lists.                                                       *)

\* The rows of a list that are not parts, and what is known of their costs.
LEMMA CostIsKnown ==
  ASSUME NEW n \in Item, NEW rows \in [1..n -> ItemRow(n)], NEW i \in 1..n
  PROVE  CostOf(rows, i) \in Nat
<1>1. rows[i].cost \in CostSet  BY DEF ItemRow
<1>2. QED  BY <1>1, FiguresAssumption DEF CostOf, CostSet

\* The spend of some rows is not more than that of all.
LEMMA SpendOfSome ==
  ASSUME NEW n \in Item, NEW rows \in [1..n -> ItemRow(n)],
         NEW S \in SUBSET (1..n)
  PROVE  Spend(rows, S) <= Spend(rows, DOMAIN rows)
<1> DEFINE f == [i \in DOMAIN rows |-> CostOf(rows, i)]
           Own(U) == {i \in U : ~IsPart(rows, i)}
<1>1. n \in Nat /\ DOMAIN rows = 1..n  BY FiguresAssumption DEF Item
<1>2. IsFiniteSet(Own(1..n))
  <2>1. IsFiniteSet(1..n)  BY <1>1, FS_Interval
  <2>2. QED  BY <2>1, FS_Subset
<1>3. \A i \in 1..n : f[i] \in Nat /\ f[i] <= f[i]
  <2> SUFFICES ASSUME NEW i \in 1..n PROVE f[i] \in Nat  OBVIOUS
  <2>1. QED  BY <1>1, CostIsKnown
<1>4. Own(S) \in SUBSET Own(1..n)  OBVIOUS
<1>5. Own(1..n) \subseteq 1..n /\ Own(S) \subseteq 1..n  OBVIOUS
<1>6. SumFunctionOnSet(f, Own(S)) <= SumFunctionOnSet(f, Own(1..n))
  <2> HIDE DEF f, Own
  <2>1. QED  BY <1>2, <1>3, <1>4, <1>5, SumOfMore
<1>7. QED  BY <1>1, <1>6 DEF Spend

\* A part at the end of a list: what each figure is made of is as it was.
LEMMA PartChangesNoFigure ==
  ASSUME NEW n \in Item, NEW rows \in [1..n -> ItemRow(n)],
         NEW more \in [1..(n + 1) -> ItemRow(n + 1)],
         \A i \in 1..n : more[i] = rows[i],
         NEW b \in 1..n, ~IsPart(rows, b),
         more[n + 1].license = b, more[n + 1].vendor = rows[b].vendor,
         ~more[n + 1].cut
  PROVE  Stated(more) = Stated(rows)
<1> DEFINE Own(r, U) == {i \in U : ~IsPart(r, i)}
<1>1. n \in Nat /\ DOMAIN rows = 1..n /\ DOMAIN more = 1..(n + 1)
  BY FiguresAssumption DEF Item
<1>2. n + 1 \notin 1..n /\ 1..(n + 1) = 1..n \cup {n + 1} /\ n + 1 # b
  BY <1>1
<1>3. IsPart(more, n + 1) /\ \A i \in 1..n : IsPart(more, i) = IsPart(rows, i)
  BY <1>2 DEF IsPart
\* A set of rows, with or without the new one.
<1>4. ASSUME NEW S \in SUBSET (1..n), NEW U, U = S \/ U = S \cup {n + 1}
      PROVE  Spend(more, U) = Spend(rows, S) /\ NoCost(more, U) = NoCost(rows, S)
  <2>1. Own(more, U) = Own(rows, S)
    <3>1. U \ {n + 1} = S /\ n + 1 \notin S  BY <1>2, <1>4
    <3>2. \A i \in U : i = n + 1 \/ i \in 1..n  BY <3>1
    <3>3. QED  BY <1>3, <3>1, <3>2
  <2> DEFINE f == [i \in DOMAIN rows |-> CostOf(rows, i)]
             g == [i \in DOMAIN more |-> CostOf(more, i)]
  <2>2. \A i \in Own(rows, S) : f[i] = g[i]
    <3> SUFFICES ASSUME NEW i \in Own(rows, S) PROVE f[i] = g[i]  OBVIOUS
    <3>1. i \in 1..n /\ i \in 1..(n + 1)  BY <1>2
    <3> DEFINE Amount(cost) == IF cost = {} THEN 0 ELSE CHOOSE c \in cost : TRUE
    <3>2. CostOf(rows, i) = CostOf(more, i)
      <4>1. CostOf(rows, i) = Amount(rows[i].cost)
            /\ CostOf(more, i) = Amount(more[i].cost)
        BY DEF CostOf
      <4> HIDE DEF Amount
      <4>2. QED  BY <3>1, <4>1
    <3>3. QED  BY <1>1, <3>1, <3>2
  <2>3. IsFiniteSet(Own(rows, S))
    <3>1. IsFiniteSet(1..n)  BY <1>1, FS_Interval
    <3>2. Own(rows, S) \in SUBSET (1..n)  OBVIOUS
    <3>3. QED  BY <3>1, <3>2, FS_Subset
  <2>4. SumFunctionOnSet(g, Own(more, U)) = SumFunctionOnSet(f, Own(rows, S))
    <3> HIDE DEF f, g, Own
    <3>1. SumFunctionOnSet(f, Own(rows, S)) = SumFunctionOnSet(g, Own(rows, S))
      BY <2>2, <2>3, SumOfSame
    <3>2. QED  BY <2>1, <3>1
  <2>5. Spend(more, U) = Spend(rows, S)  BY <2>4 DEF Spend
  <2>6. /\ NoCost(more, U) = {i \in Own(more, U) : more[i].cost = {}}
        /\ NoCost(rows, S) = {i \in Own(rows, S) : rows[i].cost = {}}
    BY DEF NoCost
  <2>7. \A i \in Own(rows, S) : more[i] = rows[i]  OBVIOUS
  <2>8. NoCost(more, U) = NoCost(rows, S)
    <3> HIDE DEF Own
    <3>1. QED  BY <2>1, <2>6, <2>7
  <2>9. QED  BY <2>5, <2>8
<1>5. /\ Spend(more, DOMAIN more) = Spend(rows, DOMAIN rows)
      /\ NoCost(more, DOMAIN more) = NoCost(rows, DOMAIN rows)
  BY <1>1, <1>2, <1>4
\* The rows of one vendor, and their licenses.
<1>6. ASSUME NEW k
      PROVE  /\ Members(rows, "vendor", k) \in SUBSET (1..n)
             /\ \/ Members(more, "vendor", k) = Members(rows, "vendor", k)
                \/ Members(more, "vendor", k) = Members(rows, "vendor", k) \cup {n + 1}
             /\ Licenses(more, Members(more, "vendor", k))
                  = Licenses(rows, Members(rows, "vendor", k))
  <2> DEFINE old == Members(rows, "vendor", k)
             new == Members(more, "vendor", k)
  <2>1. old = {i \in 1..n : rows[i].vendor = k}
        /\ new = {i \in 1..(n + 1) : more[i].vendor = k}
    BY <1>1 DEF Members
  <2>2. \A i \in 1..n : i \in new <=> i \in old  BY <1>2, <2>1
  <2>3. n + 1 \in new <=> b \in old  BY <1>2, <2>1
  <2>4. old \subseteq 1..n /\ n + 1 \notin old /\ new \subseteq 1..n \cup {n + 1}
    BY <1>2, <2>1
  <2> HIDE DEF old, new
  <2>5. \A i \in old : more[i].license = rows[i].license  BY <2>4
  <2>6. rows[b].license = b  BY DEF IsPart
  <2>7. CASE b \in old
    <3>1. new = old \cup {n + 1}  BY <2>2, <2>3, <2>4, <2>7
    <3>2. Licenses(more, new) = {rows[i].license : i \in old} \cup {b}
      BY <2>5, <3>1 DEF Licenses
    <3>3. Licenses(rows, old) = {rows[i].license : i \in old} /\ b \in Licenses(rows, old)
      BY <2>6, <2>7 DEF Licenses
    <3>4. QED  BY <2>4, <3>1, <3>2, <3>3 DEF old, new
  <2>8. CASE b \notin old
    <3>1. new = old  BY <2>2, <2>3, <2>4, <2>8
    <3>2. QED  BY <2>4, <2>5, <3>1 DEF Licenses, old, new
  <2>9. QED  BY <2>7, <2>8
<1>7. \A k : Bucket(more, Members(more, "vendor", k))
               = Bucket(rows, Members(rows, "vendor", k))
  <2> SUFFICES ASSUME NEW k
               PROVE Bucket(more, Members(more, "vendor", k))
                       = Bucket(rows, Members(rows, "vendor", k))
    OBVIOUS
  <2> DEFINE S == Members(rows, "vendor", k)
             U == Members(more, "vendor", k)
  <2>1. S \in SUBSET (1..n) /\ (U = S \/ U = S \cup {n + 1})
        /\ Licenses(more, U) = Licenses(rows, S)
    BY <1>6
  <2> HIDE DEF S, U
  <2>2. Spend(more, U) = Spend(rows, S) /\ NoCost(more, U) = NoCost(rows, S)
    BY <1>4, <2>1
  <2>3. QED  BY <2>1, <2>2 DEF Bucket, S, U
<1>8. {more[i]["vendor"] : i \in DOMAIN more} = {rows[i]["vendor"] : i \in DOMAIN rows}
  BY <1>1, <1>2
<1>9. Buckets(more, "vendor") = Buckets(rows, "vendor")
  <2> DEFINE keys == {k \in {rows[i]["vendor"] : i \in DOMAIN rows} \ {"none"} :
                        Cardinality(Licenses(rows, Members(rows, "vendor", k))) > 1}
             Entry(r, k) == [key |-> k, bucket |-> Bucket(r, Members(r, "vendor", k))]
  <2>1. Buckets(rows, "vendor") = {Entry(rows, k) : k \in keys}  BY DEF Buckets
  <2>2. Buckets(more, "vendor") = {Entry(more, k) : k \in keys}
    BY <1>6, <1>8 DEF Buckets
  <2>3. \A k : Entry(more, k) = Entry(rows, k)  BY <1>7
  <2> HIDE DEF keys, Entry
  <2>4. {Entry(more, k) : k \in keys} = {Entry(rows, k) : k \in keys}  BY <2>3
  <2>5. QED  BY <2>1, <2>2, <2>4
<1>10. Savings(more) = Savings(rows)
  <2> DEFINE S == {i \in DOMAIN rows : rows[i].cut}
             U == {i \in DOMAIN more : more[i].cut}
  <2>1. U = S /\ S \in SUBSET (1..n)  BY <1>1, <1>2
  <2>2. Spend(more, U) = Spend(rows, S)  BY <1>4, <2>1
  <2> DEFINE Known(r, V) == \A i \in V : ~IsPart(r, i) /\ r[i].cost # {}
  <2>3. Known(more, U) = Known(rows, S)
    <3>1. \A i \in S : more[i] = rows[i] /\ IsPart(more, i) = IsPart(rows, i)
      BY <1>3, <2>1
    <3> HIDE DEF S, U
    <3>2. QED  BY <2>1, <3>1
  <2>4. /\ Savings(more) = [amount |-> Spend(more, U), known |-> Known(more, U)]
        /\ Savings(rows) = [amount |-> Spend(rows, S), known |-> Known(rows, S)]
    BY DEF Savings
  <2> HIDE DEF S, U, Known
  <2>5. [amount |-> Spend(more, U), known |-> Known(more, U)]
          = [amount |-> Spend(rows, S), known |-> Known(rows, S)]
    BY <2>2, <2>3, Zenon
  <2>6. QED  BY <2>4, <2>5, Zenon
<1>11. QED  BY <1>5, <1>9, <1>10 DEF Stated

\* What a step that adds a part leaves of the figures.
SplitStep ==
  \A j \in DOMAIN items' \ DOMAIN items : IsPart(items', j) =>
    /\ Stated(items') = Stated(items)
    /\ Savings(items').amount <= Spend(items', DOMAIN items')

\* One step: a row that is added is a part only if a split adds it, and it then
\* repeats its parent's license.
LEMMA SplitIsCountedOnce ==
  ASSUME FiguresTypeOK, [FigureNext]_figureVars
  PROVE  SplitStep
<1> PICK n \in Item : items \in [1..n -> ItemRow(n)]  BY ItemsTyped
<1> DEFINE SameRows == DOMAIN items' = DOMAIN items
<1>1. n \in Nat \ {0} /\ DOMAIN items = 1..n /\ n + 1 \in 1..(n + 1)
      /\ 1..n \subseteq 1..(n + 1) /\ 1..(n + 1) = 1..n \cup {n + 1}
  BY FiguresAssumption DEF Item
<1>2. SameRows => SplitStep  BY DEF SplitStep
<1>3. Cardinality(1..n) = n  BY <1>1, FS_Interval
<1>4. NextItem = n + 1  BY <1>1, <1>3 DEF NextItem
<1>5. CASE AddItem
  <2>1. PICK vendor \in Vendor, category \in Category, cost \in CostSet :
          Added(NewItem(NextItem, vendor, category, cost))
    BY <1>5 DEF AddItem
  <2> DEFINE row == NewItem(NextItem, vendor, category, cost)
  <2>2. row \in ItemRow(n + 1) /\ row.license = n + 1
    BY <1>1, <1>4, <2>1 DEF NewItem, ItemRow
  <2> HIDE DEF row
  <2>3. DOMAIN items' = 1..(n + 1) /\ items'[n + 1] = row
    BY <2>1, <2>2, AddedIsTyped DEF row
  <2>4. \A j \in DOMAIN items' \ DOMAIN items : j = n + 1  BY <1>1, <2>3
  <2>5. ~IsPart(items', n + 1)  BY <2>2, <2>3 DEF IsPart
  <2>6. QED  BY <2>4, <2>5 DEF SplitStep
<1>6. ASSUME NEW b \in DOMAIN items, Split(b) PROVE SplitStep
  <2>1. PICK category \in Category :
          Added([license |-> b, vendor |-> items[b].vendor, category |-> category,
                 cost |-> {}, cut |-> FALSE])
    BY <1>6 DEF Split
  <2> DEFINE row == [license |-> b, vendor |-> items[b].vendor,
                     category |-> category, cost |-> {}, cut |-> FALSE]
  <2>2. items[b].vendor \in Vendor /\ b \in 1..(n + 1) /\ {} \in CostSet
    BY <1>1, <1>6 DEF ItemRow, CostSet
  <2>3. row \in ItemRow(n + 1)  BY <2>1, <2>2 DEF ItemRow
  <2>4. row.license = b /\ row.vendor = items[b].vendor /\ ~row.cut  OBVIOUS
  <2> HIDE DEF row
  <2>5. /\ n + 1 \in Item /\ items' \in [1..(n + 1) -> ItemRow(n + 1)]
        /\ items'[n + 1] = row /\ \A i \in 1..n : items'[i] = items[i]
    BY <2>1, <2>3, AddedIsTyped DEF row
  <2>6. b \in 1..n /\ ~IsPart(items, b)  BY <1>1, <1>6 DEF Split
  <2>7. Stated(items') = Stated(items)
    BY <2>4, <2>5, <2>6, PartChangesNoFigure
  <2>8. Savings(items').amount <= Spend(items', DOMAIN items')
    <3> DEFINE cut == {i \in DOMAIN items' : items'[i].cut}
    <3>1. Savings(items').amount = Spend(items', cut)  BY DEF Savings
    <3>2. cut \in SUBSET (1..(n + 1))  BY <2>5
    <3> HIDE DEF cut
    <3>3. QED  BY <2>5, <3>1, <3>2, SpendOfSome
  <2>9. QED  BY <2>7, <2>8 DEF SplitStep
<1>7. ASSUME NEW i \in DOMAIN items, EditItem(i) PROVE SplitStep
  BY <1>2, <1>7 DEF EditItem
<1>8. CASE \/ \E l \in Technique : EditTechnique(l)
           \/ \E t \in CsfTier : EditTier(t)
           \/ EditAnswer
           \/ \E c \in Capab : EditCapability(c)
           \/ UNCHANGED figureVars
  <2>1. items' = items
    BY <1>8 DEF EditTechnique, EditTier, EditAnswer, EditCapability, figureVars
  <2>2. QED  BY <1>2, <2>1
<1>9. QED
  BY <1>5, <1>6, <1>7, <1>8 DEF FigureNext

\* add_capability_components: the row it adds repeats a license, and neither the vendor's
\* tools nor any amount of money counts that license twice.
THEOREM SplitsCountOnce == FigureSpec => SplitCountsOnce
<1>1. FiguresTypeOK /\ [FigureNext]_figureVars => SplitStep
  BY SplitIsCountedOnce
<1>2. SplitStep =>
        [ \A j \in DOMAIN items' \ DOMAIN items : IsPart(items', j) =>
            /\ Stated(items') = Stated(items)
            /\ Savings(items').amount <= Spend(items', DOMAIN items') ]_figureVars
  BY DEF SplitStep
<1>3. QED  BY <1>1, <1>2, FiguresAreTyped, PTL DEF FigureSpec, SplitCountsOnce

---------------------------------------------------------------------------
(* What-ifs: the invariant.                                                *)

Credit == [on : Technique, cites : Form, caps : SUBSET Cap, tool : Tool]

Scen == [state : {"none", "draft", "confirmed", "discarded"},
         base : Version \cup {0}, change : Change \cup {NoChange},
         run : 0..MaxRun, by : 0..MaxRun, credits : SUBSET Credit]

RunRow == [status : {"none", "running", "completed", "failed"},
           of : {{}} \cup {{s} : s \in Scenario},
           at : {"none", "queued", "loaded", "checked", "over"},
           offered : SUBSET Tool]

ReqRow == [at : {"idle", "start", "record"},
          s : {{}} \cup {{s} : s \in Scenario},
          run : 0..MaxRun, started : BOOLEAN]

Typed ==
  /\ base \in Version \cup {0} /\ tools \in ToolSets
  /\ scens \in [Scenario -> Scen]
  /\ runs \in [Run -> RunRow]
  /\ req \in [Request -> ReqRow]

\* A change list that makes sense of the rows it was made for: it removes only
\* tools that are cited there, and adds none that could be taken for one.
Sensible(change, rows) ==
  /\ change \in Change
  /\ change.removed \subseteq Cited(rows)
  /\ ~Collides(change, Cited(rows))

\* The credit is of a tool the client would have, and of no other.
Earned(k, change) ==
  \A r \in change.removed : ~Covers(change.removed, k.tool) /\ Shown[r] # k.cites

ScenSound(s) ==
  LET scen == scens[s]
  IN /\ scen.state = "none" => scen = NoScenario
     /\ scen.state # "none" =>
          scen.base \in Version /\ Sensible(scen.change, BaseRows[scen.base])
     /\ scen.state = "confirmed" => scen.run # 0
     /\ scen.run # 0 => runs[scen.run].of = {s}
     /\ scen.by # 0 => /\ scen.run \in 1..scen.by
                       /\ runs[scen.by].status = "completed"
                       /\ runs[scen.by].of = {s}
     /\ \A k \in scen.credits : Earned(k, scen.change)

AtWork(r) == runs[r].at \in {"queued", "loaded", "checked"}

RunSound(r) ==
  /\ runs[r].status = "none" => runs[r] = NoRun
  /\ runs[r].status # "none" =>
       \E s \in Scenario : runs[r].of = {s} /\ scens[s].state # "none"
  /\ runs[r].status = "running" =>
       \A x \in Run : x > r => runs[x].status = "none"
  /\ runs[r].status = "completed" => \A s \in runs[r].of : scens[s].by = r
  /\ AtWork(r) => \A s \in runs[r].of : scens[s].run # 0

ReqSound(q) ==
  /\ req[q].at # "idle" =>
       \E s \in Scenario : req[q].s = {s} /\ scens[s].state # "none"
  /\ req[q].at = "record" =>
       req[q].run \in Run /\ runs[req[q].run].of = req[q].s

ScenarioInv ==
  /\ Typed
  /\ \A s \in Scenario : ScenSound(s)
  /\ \A r \in Run : RunSound(r)
  /\ \A q \in Request : ReqSound(q)

---------------------------------------------------------------------------
(* The steps that touch the runs only, or nothing that is named.           *)

\* The outcome of a run or the place of its job changes: nothing else names
\* either, but the completion and its what-if.
LEMMA RunMoves ==
  ASSUME ScenarioInv, UNCHANGED <<base, tools, scens, req>>,
         NEW r \in Run, runs' \in [Run -> RunRow],
         \A x \in Run \ {r} : runs'[x] = runs[x],
         runs[r].status # "none", runs'[r].of = runs[r].of,
         \/ runs'[r].status = runs[r].status
         \/ runs[r].status = "running" /\ runs'[r].status = "failed",
         AtWork(r)' => AtWork(r)
  PROVE  ScenarioInv'
<1>1. Typed'  BY DEF ScenarioInv, Typed
<1>2. \A x \in Run : /\ runs'[x].of = runs[x].of
                     /\ runs'[x].status = "none" <=> runs[x].status = "none"
                     /\ runs'[x].status = "completed" <=> runs[x].status = "completed"
                     /\ runs'[x].status = "running" => runs[x].status = "running"
                     /\ AtWork(x)' => AtWork(x)
  BY DEF AtWork
<1>3. ASSUME NEW s \in Scenario  PROVE ScenSound(s)'
  <2>1. ScenSound(s) /\ scens[s] \in Scen  BY DEF ScenarioInv, Typed
  <2>2. scens'[s] = scens[s]  OBVIOUS
  <2>3. scens[s].run \in Run \cup {0} /\ scens[s].by \in Run \cup {0}
    BY <2>1 DEF Scen, Run
  <2>4. QED  BY <2>1, <2>2, <2>3, <1>2 DEF ScenSound
<1>4. ASSUME NEW x \in Run  PROVE RunSound(x)'
  <2>1. RunSound(x)  BY DEF ScenarioInv
  <2>2. runs'[x].status = "none" => runs'[x] = NoRun
    BY <2>1, <1>2 DEF RunSound
  <2>3. QED  BY <2>1, <2>2, <1>2 DEF RunSound
<1>5. ASSUME NEW q \in Request  PROVE ReqSound(q)'
  BY <1>2 DEF ScenarioInv, ReqSound
<1>6. QED  BY <1>1, <1>3, <1>4, <1>5 DEF ScenarioInv

\* A job fails, or goes on with its work.
LEMMA JobFailsKeeps ==
  ASSUME ScenarioInv, NEW r \in Run, AtWork(r), JobFails(r),
         UNCHANGED <<base, tools, scens, req>>
  PROVE  ScenarioInv'
<1>1. runs \in [Run -> RunRow] /\ runs[r].status # "none"
  BY DEF ScenarioInv, Typed, RunSound, AtWork, NoRun
<1>2. DEFINE row == [runs[r] EXCEPT !.at = "over",
                       !.status = IF @ = "running" THEN "failed" ELSE @]
<1>3. row \in RunRow /\ runs' = [runs EXCEPT ![r] = row]
  BY <1>1 DEF JobFails, RunRow
<1>4. row.of = runs[r].of /\ row.at = "over"  BY <1>1 DEF RunRow
<1>5. \/ row.status = runs[r].status
      \/ runs[r].status = "running" /\ row.status = "failed"
  BY <1>1 DEF RunRow
<1> HIDE DEF row
<1>6. runs' \in [Run -> RunRow] /\ runs'[r] = row
  BY <1>1, <1>3
<1>7. \A x \in Run \ {r} : runs'[x] = runs[x]  BY <1>1, <1>3
<1>8. ~AtWork(r)'  BY <1>4, <1>6 DEF AtWork
<1>9. QED  BY <1>1, <1>4, <1>5, <1>6, <1>7, <1>8, RunMoves

\* A job that goes on, with its run as it was.
LEMMA JobGoesKeeps ==
  ASSUME ScenarioInv, NEW r \in Run, NEW row \in RunRow, AtWork(r),
         runs' = [runs EXCEPT ![r] = row],
         row.of = runs[r].of, row.status = runs[r].status,
         UNCHANGED <<base, tools, scens, req>>
  PROVE  ScenarioInv'
<1>1. runs \in [Run -> RunRow] /\ runs[r].status # "none"
  BY DEF ScenarioInv, Typed, RunSound, AtWork, NoRun
<1>2. runs' \in [Run -> RunRow] /\ runs'[r] = row  BY <1>1
<1>3. QED  BY <1>1, <1>2, RunMoves

\* _scenario_run_work, its reads.
LEMMA JobLoadKeeps ==
  ASSUME ScenarioInv, NEW s \in Scenario, NEW r \in Run, JobLoad(r, s)
  PROVE  ScenarioInv'
<1>1. AtWork(r) /\ runs[r] \in RunRow /\ tools \subseteq Tool
  BY ScenariosAssumption DEF ScenarioInv, Typed, AtWork, JobLoad
<1>2. CASE JobFails(r)  BY <1>1, <1>2, JobFailsKeeps DEF JobLoad
<1>3. CASE ~JobFails(r)
  <2>1. DEFINE row == [runs[r] EXCEPT !.at = "loaded", !.offered = tools]
  <2>2. row \in RunRow /\ row.of = runs[r].of /\ row.status = runs[r].status
    BY <1>1 DEF RunRow
  <2>3. runs' = [runs EXCEPT ![r] = row]
    BY <1>1, <1>3 DEF JobLoad, RunRow, ScenarioInv, Typed
  <2>4. QED  BY <1>1, <2>2, <2>3, JobGoesKeeps DEF JobLoad
<1>4. QED  BY <1>2, <1>3

\* _scenario_run_work, the re-read after the batches.
LEMMA JobCheckKeeps ==
  ASSUME ScenarioInv, NEW s \in Scenario, NEW r \in Run, JobCheck(r, s)
  PROVE  ScenarioInv'
<1>1. AtWork(r) /\ runs[r] \in RunRow
  BY DEF ScenarioInv, Typed, AtWork, JobCheck
<1>2. CASE JobFails(r)  BY <1>1, <1>2, JobFailsKeeps DEF JobCheck
<1>3. CASE ~JobFails(r)
  <2>1. DEFINE row == [runs[r] EXCEPT !.at = "checked"]
  <2>2. row \in RunRow /\ row.of = runs[r].of /\ row.status = runs[r].status
    BY <1>1 DEF RunRow
  <2>3. runs' = [runs EXCEPT ![r] = row]
    BY <1>1, <1>3 DEF JobCheck, JobGoes, RunRow, ScenarioInv, Typed
  <2>4. QED  BY <1>1, <2>2, <2>3, JobGoesKeeps DEF JobCheck
<1>4. QED  BY <1>2, <1>3

\* A read ends the run, or its job fails: the job may go on.
LEMMA RunFailsKeeps ==
  ASSUME ScenarioInv, NEW r \in Run, RunFails(r)  PROVE ScenarioInv'
<1>1. runs \in [Run -> RunRow] /\ runs[r].status = "running"
  BY DEF ScenarioInv, Typed, RunFails
<1>2. DEFINE row == [runs[r] EXCEPT !.status = "failed"]
<1>3. row \in RunRow /\ runs' = [runs EXCEPT ![r] = row]
  BY <1>1 DEF RunFails, RunRow
<1>4. row.of = runs[r].of /\ row.at = runs[r].at /\ row.status = "failed"
  BY <1>1 DEF RunRow
<1> HIDE DEF row
<1>5. runs' \in [Run -> RunRow] /\ runs'[r] = row  BY <1>1, <1>3
<1>6. \A x \in Run \ {r} : runs'[x] = runs[x]  BY <1>1, <1>3
<1>7. AtWork(r)' => AtWork(r)  BY <1>4, <1>5 DEF AtWork
<1>8. QED  BY <1>1, <1>4, <1>5, <1>6, <1>7, RunMoves DEF RunFails

---------------------------------------------------------------------------
(* The steps that touch a what-if only.                                    *)

\* A what-if that is there, or comes to be, says the same of its runs.
LEMMA ScenMoves ==
  ASSUME ScenarioInv, UNCHANGED <<base, tools, runs, req>>,
         NEW s \in Scenario, NEW scen \in Scen,
         scens' = [scens EXCEPT ![s] = scen],
         scen.state \notin {"none", "confirmed"},
         scen.base \in Version, Sensible(scen.change, BaseRows[scen.base]),
         scen.run = scens[s].run, scen.by = scens[s].by,
         \A k \in scen.credits : Earned(k, scen.change)
  PROVE  ScenarioInv'
<1>1. scens \in [Scenario -> Scen] /\ scens'[s] = scen
  BY DEF ScenarioInv, Typed
<1>2. Typed'  BY <1>1 DEF ScenarioInv, Typed
<1>3. \A t \in Scenario : /\ scens'[t].run = scens[t].run
                          /\ scens'[t].by = scens[t].by
                          /\ scens[t].state # "none" => scens'[t].state # "none"
  BY <1>1
<1>4. ASSUME NEW t \in Scenario  PROVE ScenSound(t)'
  <2>1. ScenSound(t)  BY DEF ScenarioInv
  <2>2. CASE t # s
    <3>1. scens'[t] = scens[t]  BY <1>1, <2>2
    <3>2. QED  BY <2>1, <3>1 DEF ScenSound
  <2>3. CASE t = s
    BY <1>1, <2>1, <2>3 DEF ScenSound
  <2>4. QED  BY <2>2, <2>3
<1>5. ASSUME NEW x \in Run  PROVE RunSound(x)'
  <2>1. RunSound(x) /\ runs[x].of \subseteq Scenario
    BY DEF ScenarioInv, Typed, RunRow
  <2>2. AtWork(x)' <=> AtWork(x)  BY DEF AtWork
  <2>3. QED  BY <1>3, <2>1, <2>2 DEF RunSound
<1>6. ASSUME NEW q \in Request  PROVE ReqSound(q)'
  BY <1>3 DEF ScenarioInv, ReqSound
<1>7. QED  BY <1>2, <1>4, <1>5, <1>6 DEF ScenarioInv

\* validate_added asks more than the cited tools: it asks the client's as well.
LEMMA CollidesWithMore ==
  ASSUME NEW change, NEW A, NEW B, A \subseteq B, ~Collides(change, B)
  PROVE  ~Collides(change, A)
BY DEF Collides

\* create_scenario: the change list makes sense of the rows it is pinned to.
LEMMA CreateKeeps ==
  ASSUME ScenarioInv, NEW s \in Scenario, CreateScenario(s)  PROVE ScenarioInv'
<1>1. PICK change \in Change :
        /\ change.removed \subseteq Cited(BaseRows[base])
        /\ ~Collides(change, ClientTools(base))
        /\ scens' = [scens EXCEPT ![s] =
             [NoScenario EXCEPT !.state = "draft", !.base = base, !.change = change]]
  BY DEF CreateScenario
<1>2. /\ base \in Version /\ scens[s] = NoScenario
  BY DEF ScenarioInv, Typed, ScenSound, CreateScenario
<1>3. DEFINE scen == [NoScenario EXCEPT !.state = "draft", !.base = base,
                                        !.change = change]
<1>4. 0 \in 0..MaxRun  BY ScenariosAssumption
<1>5. NoScenario \in Scen  BY <1>4 DEF NoScenario, Scen
<1>6. scen \in Scen  BY <1>2, <1>5 DEF Scen
<1>7. Sensible(change, BaseRows[base])
  <2>1. ~Collides(change, Cited(BaseRows[base]))
    BY <1>1, CollidesWithMore DEF ClientTools
  <2>2. QED  BY <1>1, <2>1 DEF Sensible
<1>8. scens[s].run = 0 /\ scens[s].by = 0  BY <1>2 DEF NoScenario
<1>9. /\ scen.state = "draft" /\ scen.base = base /\ scen.change = change
      /\ scen.run = 0 /\ scen.by = 0 /\ scen.credits = {}
  BY DEF NoScenario
<1>10. scens' = [scens EXCEPT ![s] = scen]  BY <1>1
<1> HIDE DEF scen
<1>11. QED
  BY <1>2, <1>6, <1>7, <1>8, <1>9, <1>10, ScenMoves DEF CreateScenario

\* discard_scenario, of a what-if in any state.
LEMMA DiscardKeeps ==
  ASSUME ScenarioInv, NEW s \in Scenario, DiscardScenario(s)  PROVE ScenarioInv'
<1>1. /\ scens \in [Scenario -> Scen] /\ scens[s] \in Scen /\ ScenSound(s)
      /\ scens[s].state # "none"
  BY DEF ScenarioInv, Typed, DiscardScenario
<1>2. DEFINE scen == [scens[s] EXCEPT !.state = "discarded"]
<1>3. /\ scen \in Scen /\ scen.state = "discarded" /\ scen.base = scens[s].base
      /\ scen.change = scens[s].change /\ scen.run = scens[s].run
      /\ scen.by = scens[s].by /\ scen.credits = scens[s].credits
      /\ scens' = [scens EXCEPT ![s] = scen]
  BY <1>1 DEF Scen, DiscardScenario
<1> HIDE DEF scen
<1>4. QED  BY <1>1, <1>3, ScenMoves DEF ScenSound, DiscardScenario

---------------------------------------------------------------------------
(* The requests that run a what-if.                                        *)

\* A request alone moves on, to what it may name.
LEMMA AskMoves ==
  ASSUME ScenarioInv, UNCHANGED <<base, tools, scens, runs>>,
         NEW q \in Request, NEW ask \in ReqRow, req' = [req EXCEPT ![q] = ask],
         ask.at # "idle" =>
           \E s \in Scenario : ask.s = {s} /\ scens[s].state # "none",
         ask.at = "record" => ask.run \in Run /\ runs[ask.run].of = ask.s
  PROVE  ScenarioInv'
<1>1. req \in [Request -> ReqRow] /\ req'[q] = ask  BY DEF ScenarioInv, Typed
<1>2. Typed'  BY <1>1 DEF ScenarioInv, Typed
<1>3. ASSUME NEW s \in Scenario  PROVE ScenSound(s)'
  BY DEF ScenarioInv, ScenSound
<1>4. ASSUME NEW r \in Run  PROVE RunSound(r)'
  BY DEF ScenarioInv, RunSound, AtWork
<1>5. ASSUME NEW p \in Request  PROVE ReqSound(p)'
  <2>1. CASE p = q  BY <1>1, <2>1 DEF ReqSound
  <2>2. CASE p # q
    <3>1. req'[p] = req[p]  BY <1>1, <2>2
    <3>2. QED  BY <3>1 DEF ScenarioInv, ReqSound
  <2>3. QED  BY <2>1, <2>2
<1>6. QED  BY <1>2, <1>3, <1>4, <1>5 DEF ScenarioInv

\* A request that asks for nothing is one all the same.
LEMMA IdleIsAsked == Idle \in ReqRow
BY ScenariosAssumption DEF Idle, ReqRow

\* run_scenario, as far as its refusals.
LEMMA RunReadKeeps ==
  ASSUME ScenarioInv, NEW q \in Request, NEW s \in Scenario, RunRead(q, s)
  PROVE  ScenarioInv'
<1>1. DEFINE ask == [Idle EXCEPT !.at = "start", !.s = {s}]
<1>2. ask \in ReqRow  BY IdleIsAsked DEF ReqRow
<1>3. ask.at = "start" /\ ask.s = {s}  BY DEF Idle
<1>4. req' = [req EXCEPT ![q] = ask] /\ scens[s].state # "none"
  BY DEF RunRead
<1> HIDE DEF ask
<1>5. QED  BY <1>2, <1>3, <1>4, AskMoves DEF RunRead

\* A run that starts is the latest, and nothing names it yet.
LEMMA StartKeeps ==
  ASSUME ScenarioInv, NEW q \in Request, StartRun(q)  PROVE ScenarioInv'
<1>1. /\ req \in [Request -> ReqRow] /\ req[q] \in ReqRow /\ req[q].at = "start"
      /\ runs \in [Run -> RunRow] /\ scens \in [Scenario -> Scen]
  BY DEF ScenarioInv, Typed, StartRun
<1>2. PICK s \in Scenario : req[q].s = {s} /\ scens[s].state # "none"
  BY <1>1 DEF ScenarioInv, ReqSound
<1>3. ASSUME NEW r \in Running,
             req' = [req EXCEPT ![q] =
               IF runs[r].of = req[q].s THEN [@ EXCEPT !.at = "record", !.run = r]
                                        ELSE Idle],
             UNCHANGED <<base, tools, scens, runs>>
      PROVE  ScenarioInv'
  <2>1. r \in Run /\ r \in 0..MaxRun  BY DEF Running, Run
  <2>2. CASE runs[r].of = req[q].s
    <3>1. DEFINE ask == [req[q] EXCEPT !.at = "record", !.run = r]
    <3>2. /\ ask \in ReqRow /\ ask.at = "record" /\ ask.run = r
          /\ ask.s = req[q].s
      BY <1>1, <2>1 DEF ReqRow
    <3>3. req' = [req EXCEPT ![q] = ask]  BY <1>1, <1>3, <2>2
    <3> HIDE DEF ask
    <3>4. ask.s = {s} /\ ask.run \in Run /\ runs[ask.run].of = ask.s
      BY <1>2, <2>1, <2>2, <3>2
    <3>5. UNCHANGED <<base, tools, scens, runs>>  BY <1>3
    <3>6. QED  BY <1>2, <3>2, <3>3, <3>4, <3>5, AskMoves
  <2>3. CASE runs[r].of # req[q].s
    <3>1. req' = [req EXCEPT ![q] = Idle]  BY <1>1, <1>3, <2>3
    <3>2. Idle.at = "idle"  BY DEF Idle
    <3>3. QED  BY <1>3, <3>1, <3>2, IdleIsAsked, AskMoves
  <2>4. QED  BY <2>2, <2>3
<1>4. ASSUME Running = {}, NEW r \in Run,
             \A x \in Run : x < r <=> runs[x].status # "none",
             runs' = [runs EXCEPT ![r] = [NoRun EXCEPT !.status = "running",
                                                       !.of = req[q].s]],
             req' = [req EXCEPT ![q].at = "record", ![q].run = r,
                                ![q].started = TRUE],
             UNCHANGED <<base, tools, scens>>
      PROVE  ScenarioInv'
  <2>1. r \in Nat /\ r \in 0..MaxRun /\ Run \subseteq Nat
    BY ScenariosAssumption DEF Run
  <2>2. DEFINE row == [NoRun EXCEPT !.status = "running", !.of = req[q].s]
               ask == [req[q] EXCEPT !.at = "record", !.run = r, !.started = TRUE]
  <2>3. NoRun \in RunRow  BY DEF NoRun, RunRow
  <2>4. /\ row \in RunRow /\ row.status = "running" /\ row.of = {s}
        /\ row.at = "none"
    BY <1>2, <2>3 DEF RunRow, NoRun
  <2>5. ask \in ReqRow /\ ask.at = "record" /\ ask.run = r /\ ask.s = {s}
    BY <1>1, <1>2, <2>1 DEF ReqRow
  <2>6. runs' = [runs EXCEPT ![r] = row] /\ req' = [req EXCEPT ![q] = ask]
    BY <1>1, <1>4 DEF ReqRow
  <2> HIDE DEF row, ask
  <2>7. /\ runs' \in [Run -> RunRow] /\ runs'[r] = row
        /\ req' \in [Request -> ReqRow] /\ req'[q] = ask
        /\ \A x \in Run \ {r} : runs'[x] = runs[x]
        /\ \A p \in Request \ {q} : req'[p] = req[p]
    BY <1>1, <2>4, <2>5, <2>6
  <2>8. runs[r] = NoRun /\ runs[r].of = {} /\ runs[r].status = "none"
    <3>1. runs[r].status = "none"  BY <1>4, <2>1
    <3>2. RunSound(r)  BY DEF ScenarioInv
    <3>3. QED  BY <3>1, <3>2 DEF RunSound, NoRun
  <2>9. Typed'  BY <1>4, <2>7 DEF ScenarioInv, Typed
  <2>10. ASSUME NEW t \in Scenario  PROVE ScenSound(t)'
    <3>1. ScenSound(t) /\ scens[t] \in Scen /\ scens'[t] = scens[t]
      BY <1>4 DEF ScenarioInv, Typed
    <3>2. scens[t].run \in Run \cup {0} /\ scens[t].by \in Run \cup {0}
      BY <3>1 DEF Scen, Run
    <3>3. scens[t].run # r /\ scens[t].by # r
      <4>1. {t} # {} /\ r # 0  BY DEF Run
      <4>2. QED  BY <2>8, <3>1, <4>1 DEF ScenSound
    <3>4. QED  BY <2>7, <3>1, <3>2, <3>3 DEF ScenSound
  <2>11. ASSUME NEW x \in Run  PROVE RunSound(x)'
    <3>1. RunSound(x) /\ scens' = scens  BY <1>4 DEF ScenarioInv
    <3>2. CASE x # r
      <4>1. runs'[x] = runs[x]  BY <2>7, <3>2
      <4>2. runs[x].status # "running"  BY <1>4 DEF Running
      <4>3. AtWork(x)' <=> AtWork(x)  BY <4>1 DEF AtWork
      <4>4. QED  BY <3>1, <4>1, <4>2, <4>3 DEF RunSound
    <3>3. CASE x = r
      <4>1. ASSUME NEW y \in Run, y > r  PROVE runs'[y].status = "none"
        <5>1. y # r /\ ~(y < r)  BY <2>1, <4>1
        <5>2. QED  BY <1>4, <2>7, <5>1
      <4>2. ~AtWork(r)'  BY <2>4, <2>7 DEF AtWork
      <4>3. QED  BY <1>2, <2>4, <2>7, <3>1, <3>3, <4>1, <4>2 DEF RunSound
    <3>4. QED  BY <3>2, <3>3
  <2>12. ASSUME NEW p \in Request  PROVE ReqSound(p)'
    <3>1. ReqSound(p) /\ scens' = scens  BY <1>4 DEF ScenarioInv
    <3>2. CASE p # q
      <4>1. req'[p] = req[p]  BY <2>7, <3>2
      <4>2. \A t : {t} # {}  OBVIOUS
      <4>3. req[p].at = "record" => req[p].run # r
        BY <2>8, <3>1, <4>2 DEF ReqSound
      <4>4. QED  BY <2>7, <3>1, <4>1, <4>3 DEF ReqSound
    <3>3. CASE p = q
      BY <1>2, <2>4, <2>5, <2>7, <3>1, <3>3 DEF ReqSound
    <3>4. QED  BY <3>2, <3>3
  <2>13. QED  BY <2>9, <2>10, <2>11, <2>12 DEF ScenarioInv
<1>5. QED  BY <1>3, <1>4 DEF StartRun

\* The UPDATEs of a record: the state is confirmed of a draft only, the run is
\* pointed at of a what-if without rows only; after them it names a run of its.
LEMMA PointsAtARun ==
  ASSUME NEW scen \in Scen, NEW r \in Run,
         scen.by # 0 => scen.run \in 1..scen.by
  PROVE  LET new == Confirm(Point(scen, r))
         IN /\ new \in Scen /\ new.run # 0
            /\ \/ new.run = r /\ scen.by = 0
               \/ new.run = scen.run
            /\ new.by = scen.by /\ new.credits = scen.credits
            /\ new.base = scen.base /\ new.change = scen.change
            /\ scen.state # "none" => new.state # "none"
<1>1. r \in 0..MaxRun /\ r # 0  BY ScenariosAssumption DEF Run
<1>2. scen.by \in Nat  BY ScenariosAssumption DEF Scen
<1>3. scen.by # 0 => scen.run # 0  BY <1>2
<1>4. DEFINE p == Point(scen, r)
<1>5. /\ p \in Scen /\ p.run # 0
      /\ (p.run = r /\ scen.by = 0) \/ p.run = scen.run
      /\ p.by = scen.by /\ p.credits = scen.credits /\ p.base = scen.base
      /\ p.change = scen.change /\ p.state = scen.state
  BY <1>1, <1>3 DEF Point, Scen
<1> HIDE DEF p
<1>6. CASE p.state = "draft"
  <2>1. Confirm(p) = [p EXCEPT !.state = "confirmed"]  BY <1>6 DEF Confirm
  <2>2. [p EXCEPT !.state = "confirmed"] \in Scen  BY <1>5 DEF Scen
  <2>3. QED  BY <1>5, <2>1, <2>2 DEF Scen, p
<1>7. CASE p.state # "draft"
  <2>1. Confirm(p) = p  BY <1>7 DEF Confirm
  <2>2. QED  BY <1>5, <2>1 DEF p
<1>8. QED  BY <1>6, <1>7

\* run_scenario, both UPDATEs: a late one points at an earlier run of the same
\* what-if, or at nothing.
LEMMA RecordKeeps ==
  ASSUME ScenarioInv, NEW q \in Request, RecordRun(q)  PROVE ScenarioInv'
<1>1. PICK s \in Scenario, r \in Run :
        /\ req[q].s = {s} /\ req[q].run = r /\ scens[s].state # "none"
        /\ runs[r].of = {s}
  BY DEF ScenarioInv, ReqSound, RecordRun
<1>2. /\ req \in [Request -> ReqRow] /\ runs \in [Run -> RunRow]
      /\ scens \in [Scenario -> Scen] /\ scens[s] \in Scen /\ ScenSound(s)
      /\ req' = [req EXCEPT ![q] = Idle] /\ UNCHANGED <<base, tools>>
  BY DEF ScenarioInv, Typed, RecordRun
<1>3. Idle.at = "idle"  BY DEF Idle
<1>4. CASE UNCHANGED <<scens, runs>>
  BY <1>2, <1>3, <1>4, IdleIsAsked, AskMoves
<1>5. ASSUME scens' = [t \in Scenario |-> IF t \in req[q].s
                         THEN Confirm(Point(scens[t], r)) ELSE scens[t]],
             runs' = IF req[q].started THEN [runs EXCEPT ![r].at = "queued"]
                                       ELSE runs
      PROVE  ScenarioInv'
  <2>1. DEFINE new == Confirm(Point(scens[s], r))
  <2>2. /\ new \in Scen /\ new.run # 0
        /\ (new.run = r /\ scens[s].by = 0) \/ new.run = scens[s].run
        /\ new.by = scens[s].by /\ new.credits = scens[s].credits
        /\ new.base = scens[s].base /\ new.change = scens[s].change
        /\ new.state # "none"
    BY <1>1, <1>2, PointsAtARun DEF ScenSound
  <2>3. scens' = [scens EXCEPT ![s] = new]  BY <1>1, <1>2, <1>5
  <2> HIDE DEF new
  <2>4. /\ scens' \in [Scenario -> Scen] /\ scens'[s] = new
        /\ \A t \in Scenario \ {s} : scens'[t] = scens[t]
    BY <1>2, <2>2, <2>3
  <2>5. /\ runs' \in [Run -> RunRow]
        /\ \A x \in Run \ {r} : runs'[x] = runs[x]
        /\ runs'[r].of = {s} /\ runs'[r].status = runs[r].status
    <3>1. [runs[r] EXCEPT !.at = "queued"] \in RunRow  BY <1>2 DEF RunRow
    <3>2. QED  BY <1>1, <1>2, <1>5, <3>1 DEF RunRow
  <2>6. /\ req' \in [Request -> ReqRow] /\ req'[q].at = "idle"
        /\ \A p \in Request \ {q} : req'[p] = req[p]
    BY <1>2, <1>3, IdleIsAsked
  <2>7. \A t \in Scenario : /\ scens[t].state # "none" => scens'[t].state # "none"
                            /\ scens[t].run # 0 => scens'[t].run # 0
                            /\ scens'[t].by = scens[t].by
    BY <2>2, <2>4
  <2>8. \A x \in Run : /\ runs'[x].of = runs[x].of
                       /\ runs'[x].status = runs[x].status
    BY <1>1, <2>5
  <2>9. Typed'  BY <1>2, <2>4, <2>5, <2>6 DEF ScenarioInv, Typed
  <2>10. ASSUME NEW t \in Scenario  PROVE ScenSound(t)'
    <3>1. ScenSound(t) /\ scens[t] \in Scen  BY <1>2 DEF ScenarioInv
    <3>2. scens[t].run \in Run \cup {0} /\ scens[t].by \in Run \cup {0}
      BY <3>1 DEF Scen, Run
    <3>3. CASE t # s
      <4>1. scens'[t] = scens[t]  BY <2>4, <3>3
      <4>2. QED  BY <2>8, <3>1, <3>2, <4>1 DEF ScenSound
    <3>4. CASE t = s
      <4>1. runs'[new.run].of = {s}
        BY <1>1, <2>2, <2>8, <3>1, <3>2, <3>4 DEF ScenSound
      <4>2. new.by # 0 => new.run \in 1..new.by
        BY <2>2, <3>1, <3>4 DEF ScenSound
      <4>3. QED
        BY <1>1, <2>2, <2>4, <2>8, <3>1, <3>2, <3>4, <4>1, <4>2 DEF ScenSound
    <3>5. QED  BY <3>3, <3>4
  <2>11. ASSUME NEW x \in Run  PROVE RunSound(x)'
    <3>1. RunSound(x) /\ runs[x].of \subseteq Scenario
      BY <1>2 DEF ScenarioInv, RunRow
    <3>2. runs'[x].status = "none" => runs'[x] = NoRun
      <4>1. runs[x].status = "none" => x # r
        BY <1>1, <3>1 DEF RunSound, NoRun
      <4>2. QED  BY <2>5, <2>8, <3>1, <4>1 DEF RunSound
    <3>3. AtWork(x)' => \A t \in runs'[x].of : scens'[t].run # 0
      <4>1. CASE x = r  BY <2>2, <2>4, <2>5, <4>1
      <4>2. CASE x # r
        BY <2>5, <2>7, <3>1, <4>2 DEF RunSound, AtWork
      <4>3. QED  BY <4>1, <4>2
    <3>4. QED  BY <2>7, <2>8, <3>1, <3>2, <3>3 DEF RunSound
  <2>12. ASSUME NEW p \in Request  PROVE ReqSound(p)'
    BY <2>6, <2>7, <2>8 DEF ScenarioInv, ReqSound
  <2>13. QED  BY <2>9, <2>10, <2>11, <2>12 DEF ScenarioInv
<1>6. QED  BY <1>1, <1>4, <1>5 DEF RecordRun

---------------------------------------------------------------------------
(* What a completion writes.                                               *)

\* resolve only ever confirms a name it was given, cited as it is or as shown.
LEMMA ResolvesToCited ==
  ASSUME NEW names, NEW form, NEW t \in Resolve(names, form)
  PROVE  t \in names /\ (t = form \/ Shown[t] = form)
BY DEF Resolve

\* parse_delta: a credit is of a known tool, and of none that the change removes,
\* nor is it cited as one of those is shown.
LEMMA CreditIsEarned ==
  ASSUME NEW claims \in Answers, NEW rows, NEW change, Sensible(change, rows),
         NEW offered \in SUBSET Tool,
         NEW k \in Credits(claims, rows, change, offered)
  PROVE  k \in Credit /\ Earned(k, change)
<1>1. PICK claim \in claims, t \in Tool :
        /\ Creditable(claim, t, rows, change, offered)
        /\ k = [on |-> claim.on, cites |-> claim.cites, caps |-> claim.caps,
                tool |-> t]
  BY DEF Credits
<1>2. claim \in [on : Technique, cites : Form, caps : SUBSET Cap]
  BY ScenariosAssumption
<1>3. k \in Credit  BY <1>1, <1>2 DEF Credit
<1>4. DEFINE x == claim.cites
             kept == Without(offered, change.removed)
<1>5. /\ t \in Resolve(kept \cup NewTools(change), x)
      /\ ToldApart(change, t)
      /\ k.tool = t /\ k.cites = x
  BY <1>1 DEF Creditable
<1>6. t \in kept \cup NewTools(change) /\ (t = x \/ Shown[t] = x)
  BY <1>5, ResolvesToCited
<1>7. ASSUME NEW r \in change.removed
      PROVE  ~Covers(change.removed, t) /\ Shown[r] # x
  <2>1. CASE t \in NewTools(change)
    <3>1. \A b \in change.removed :
            (t # b \/ t \in Cited(rows)) => Citable(t) \cap Citable(b) = {}
      BY <2>1 DEF Sensible, Collides
    <3>2. \A b \in change.removed : Citable(t) \cap Citable(b) = {}
      BY <3>1 DEF Sensible
    <3>3. \A b \in change.removed :
            t # b /\ t # Shown[b] /\ Shown[t] # b /\ Shown[t] # Shown[b]
      BY <3>2 DEF Citable
    <3>4. QED  BY <1>6, <3>3 DEF Covers
  <2>2. CASE t \notin NewTools(change)
    <3>1. t \in kept  BY <1>6, <2>2
    <3>2. ~Covers(change.removed, t)  BY <3>1 DEF Without
    <3>3. Shown[r] # Shown[t]
      BY <1>5, <2>2, <3>2 DEF ToldApart, SharesShownForm
    <3>4. t # Shown[r]  BY <3>2 DEF Covers
    <3>5. QED  BY <1>6, <3>2, <3>3, <3>4
  <2>3. QED  BY <2>1, <2>2
<1>8. QED  BY <1>3, <1>5, <1>7 DEF Earned

\* The completion: the run is the last of its what-if that started, since no
\* later one has.
LEMMA CommitKeeps ==
  ASSUME ScenarioInv, NEW s \in Scenario, NEW r \in Run, JobCommit(r, s)
  PROVE  ScenarioInv'
<1>1. /\ AtWork(r) /\ runs[r].of = {s}
      /\ runs \in [Run -> RunRow] /\ runs[r] \in RunRow
      /\ scens \in [Scenario -> Scen] /\ scens[s] \in Scen
      /\ ScenSound(s) /\ RunSound(r)
      /\ UNCHANGED <<base, tools, req>>
  BY DEF ScenarioInv, Typed, AtWork, JobCommit
<1>2. CASE ~(runs[r].status = "running" /\ scens[s].by = 0)
  BY <1>1, <1>2, JobFailsKeeps DEF JobCommit
<1>3. CASE runs[r].status = "running" /\ scens[s].by = 0
  <2>1. PICK claims \in Answers :
          scens' = [scens EXCEPT ![s].by = r, ![s].credits =
                      Credits(claims, Rows(s), scens[s].change, runs[r].offered)]
    BY <1>3 DEF JobCommit
  <2>2. runs' = [runs EXCEPT ![r].at = "over", ![r].status = "completed"]
    BY <1>3 DEF JobCommit
  <2>3. PICK credits : credits = Credits(claims, Rows(s), scens[s].change,
                                         runs[r].offered)
    OBVIOUS
  <2>4. scens[s].state # "none" /\ Sensible(scens[s].change, Rows(s))
    <3>1. PICK t \in Scenario : runs[r].of = {t} /\ scens[t].state # "none"
      BY <1>1, <1>3 DEF RunSound
    <3>2. t = s  BY <1>1, <3>1
    <3>3. QED  BY <1>1, <3>1, <3>2 DEF ScenSound, Rows
  <2>5. /\ credits \subseteq Credit
        /\ \A k \in credits : Earned(k, scens[s].change)
    <3>1. runs[r].offered \in SUBSET Tool  BY <1>1 DEF RunRow
    <3>2. QED  BY <2>3, <2>4, <3>1, CreditIsEarned
  <2>6. r \in Nat /\ r # 0 /\ r \in 0..MaxRun /\ Run \subseteq Nat
    BY ScenariosAssumption DEF Run
  <2>7. DEFINE new == [scens[s] EXCEPT !.by = r, !.credits = credits]
  <2>8. /\ new \in Scen /\ new.state = scens[s].state
        /\ new.base = scens[s].base /\ new.change = scens[s].change
        /\ new.run = scens[s].run /\ new.by = r /\ new.credits = credits
    BY <1>1, <2>5, <2>6 DEF Scen
  <2>9. scens' = [scens EXCEPT ![s] = new]  BY <1>1, <2>1, <2>3 DEF Scen
  <2> HIDE DEF new
  <2>10. /\ scens' \in [Scenario -> Scen] /\ scens'[s] = new
         /\ \A t \in Scenario \ {s} : scens'[t] = scens[t]
    BY <1>1, <2>8, <2>9
  <2>11. /\ runs' \in [Run -> RunRow]
         /\ \A x \in Run \ {r} : runs'[x] = runs[x]
         /\ runs'[r].of = {s} /\ runs'[r].status = "completed"
         /\ runs'[r].at = "over"
    <3>1. [runs[r] EXCEPT !.at = "over", !.status = "completed"] \in RunRow
      BY <1>1 DEF RunRow
    <3>2. QED  BY <1>1, <2>2, <3>1 DEF RunRow
  <2>12. scens[s].run \in 1..r
    <3>1. scens[s].run # 0  BY <1>1 DEF RunSound
    <3>2. scens[s].run \in Run  BY <1>1, <3>1 DEF Scen, Run
    <3>3. runs[scens[s].run].of # {}
      <4>1. runs[scens[s].run].of = {s}  BY <1>1, <3>1 DEF ScenSound
      <4>2. QED  BY <4>1
    <3>4. runs[scens[s].run].status # "none"
      BY <3>2, <3>3 DEF ScenarioInv, RunSound, NoRun
    <3>5. ~(scens[s].run > r)  BY <1>1, <1>3, <3>2, <3>4 DEF RunSound
    <3>6. QED  BY <2>6, <3>1, <3>2, <3>5 DEF Run
  <2>13. \A t \in Scenario : /\ scens'[t].state = scens[t].state
                             /\ scens'[t].run = scens[t].run
    BY <2>8, <2>10
  <2>14. Typed'  BY <1>1, <2>10, <2>11 DEF ScenarioInv, Typed
  <2>15. ASSUME NEW t \in Scenario  PROVE ScenSound(t)'
    <3>1. ScenSound(t) /\ scens[t] \in Scen  BY <1>1 DEF ScenarioInv
    <3>2. scens[t].run \in Run \cup {0} /\ scens[t].by \in Run \cup {0}
      BY <3>1 DEF Scen, Run
    <3>3. \A x \in Run : runs'[x].of = runs[x].of  BY <1>1, <2>11
    <3>4. CASE t # s
      <4>1. scens'[t] = scens[t]  BY <2>10, <3>4
      <4>2. scens[t].by # r  BY <1>3, <2>6, <3>1 DEF ScenSound
      <4>3. QED  BY <2>11, <3>1, <3>2, <3>3, <4>1, <4>2 DEF ScenSound
    <3>5. CASE t = s
      <4>1. scens'[s] # NoScenario /\ scens'[s].state # "none"
        BY <2>4, <2>8, <2>10 DEF NoScenario
      <4>2. QED
        BY <2>4, <2>5, <2>8, <2>10, <2>11, <2>12, <3>1, <3>2, <3>3, <3>5, <4>1
        DEF ScenSound, Rows
    <3>6. QED  BY <3>4, <3>5
  <2>16. ASSUME NEW x \in Run  PROVE RunSound(x)'
    <3>1. RunSound(x) /\ runs[x].of \subseteq Scenario
      BY <1>1 DEF ScenarioInv, RunRow
    <3>2. CASE x = r
      <4>1. ~AtWork(r)'  BY <2>11 DEF AtWork
      <4>2. scens'[s].by = r /\ scens'[s].state # "none"
        BY <2>4, <2>8, <2>10
      <4>3. QED  BY <2>11, <3>2, <4>1, <4>2 DEF RunSound
    <3>3. CASE x # r
      <4>1. runs'[x] = runs[x] /\ x \in Nat /\ x # 0
        BY <2>6, <2>11, <3>3 DEF Run
      <4>2. AtWork(x)' <=> AtWork(x)  BY <4>1 DEF AtWork
      <4>3. runs[x].status = "completed" => s \notin runs[x].of
        BY <1>3, <3>1, <4>1 DEF RunSound
      <4>4. runs[x].status = "running" =>
              \A y \in Run : y > x => runs'[y].status = "none"
        <5>1. runs[x].status = "running" => ~(r > x)
          BY <1>3, <3>1 DEF RunSound
        <5>2. QED  BY <2>11, <3>1, <5>1 DEF RunSound
      <4>5. \A t \in runs[x].of : t # s => scens'[t].by = scens[t].by
        BY <2>10, <3>1
      <4>6. runs[x].status = "completed" => \A t \in runs[x].of : scens'[t].by = x
        BY <3>1, <4>3, <4>5 DEF RunSound
      <4>7. QED  BY <2>13, <3>1, <4>1, <4>2, <4>4, <4>6 DEF RunSound
    <3>4. QED  BY <3>2, <3>3
  <2>17. ASSUME NEW p \in Request  PROVE ReqSound(p)'
    <3>1. \A x \in Run : runs'[x].of = runs[x].of  BY <1>1, <2>11
    <3>2. QED  BY <1>1, <2>13, <3>1 DEF ScenarioInv, ReqSound
  <2>18. QED  BY <2>14, <2>15, <2>16, <2>17 DEF ScenarioInv
<1>4. QED  BY <1>2, <1>3

---------------------------------------------------------------------------
(* The invariant of the specification.                                     *)

\* What the what-ifs read and do not write.
LEMMA OutsideKeeps ==
  ASSUME ScenarioInv, BaseMoves \/ ToolsChange  PROVE ScenarioInv'
<1>1. UNCHANGED <<scens, runs, req>>  BY DEF BaseMoves, ToolsChange
<1>2. Typed'  BY <1>1 DEF ScenarioInv, Typed, BaseMoves, ToolsChange
<1>3. ASSUME NEW s \in Scenario  PROVE ScenSound(s)'
  BY <1>1 DEF ScenarioInv, ScenSound
<1>4. ASSUME NEW r \in Run  PROVE RunSound(r)'
  BY <1>1 DEF ScenarioInv, RunSound, AtWork
<1>5. ASSUME NEW q \in Request  PROVE ReqSound(q)'
  BY <1>1 DEF ScenarioInv, ReqSound
<1>6. QED  BY <1>2, <1>3, <1>4, <1>5 DEF ScenarioInv

\* ScenarioInv holds of no what-ifs and no runs,
LEMMA InitIsSound == Init => ScenarioInv
<1>1. SUFFICES ASSUME Init  PROVE ScenarioInv  OBVIOUS
<1>2. NoScenario \in Scen
  <2>1. 0 \in 0..MaxRun  BY ScenariosAssumption
  <2>2. QED  BY <2>1 DEF NoScenario, Scen
<1>3. NoRun \in RunRow  BY DEF NoRun, RunRow
<1>4. Typed  BY <1>1, <1>2, <1>3, IdleIsAsked DEF Init, Typed
<1>5. ASSUME NEW s \in Scenario  PROVE ScenSound(s)
  BY <1>1 DEF Init, ScenSound, NoScenario
<1>6. ASSUME NEW r \in Run  PROVE RunSound(r)
  BY <1>1 DEF Init, RunSound, NoRun, AtWork
<1>7. ASSUME NEW q \in Request  PROVE ReqSound(q)
  BY <1>1 DEF Init, ReqSound, Idle
<1>8. QED  BY <1>4, <1>5, <1>6, <1>7 DEF ScenarioInv

\* and every step keeps it.
LEMMA NextIsSound == ScenarioInv /\ [Next]_vars => ScenarioInv'
<1>1. SUFFICES ASSUME ScenarioInv, [Next]_vars  PROVE ScenarioInv'  OBVIOUS
<1>2. ASSUME NEW s \in Scenario, CreateScenario(s)  PROVE ScenarioInv'
  BY <1>1, <1>2, CreateKeeps
<1>3. ASSUME NEW s \in Scenario, DiscardScenario(s)  PROVE ScenarioInv'
  BY <1>1, <1>3, DiscardKeeps
<1>4. ASSUME NEW s \in Scenario, NEW q \in Request, RunRead(q, s)
      PROVE  ScenarioInv'
  BY <1>1, <1>4, RunReadKeeps
<1>5. ASSUME NEW s \in Scenario, NEW r \in Run, JobLoad(r, s)
      PROVE  ScenarioInv'
  BY <1>1, <1>5, JobLoadKeeps
<1>6. ASSUME NEW s \in Scenario, NEW r \in Run, JobCheck(r, s)
      PROVE  ScenarioInv'
  BY <1>1, <1>6, JobCheckKeeps
<1>7. ASSUME NEW s \in Scenario, NEW r \in Run, JobCommit(r, s)
      PROVE  ScenarioInv'
  BY <1>1, <1>7, CommitKeeps
<1>8. ASSUME NEW q \in Request, StartRun(q)  PROVE ScenarioInv'
  BY <1>1, <1>8, StartKeeps
<1>9. ASSUME NEW q \in Request, RecordRun(q)  PROVE ScenarioInv'
  BY <1>1, <1>9, RecordKeeps
<1>10. ASSUME NEW r \in Run, RunFails(r)  PROVE ScenarioInv'
  BY <1>1, <1>10, RunFailsKeeps
<1>11. CASE BaseMoves \/ ToolsChange  BY <1>1, <1>11, OutsideKeeps
<1>12. CASE UNCHANGED vars
  BY <1>1, <1>12 DEF vars, ScenarioInv, Typed, ScenSound, RunSound, ReqSound, AtWork
<1>13. QED
  BY <1>1, <1>2, <1>3, <1>4, <1>5, <1>6, <1>7, <1>8, <1>9, <1>10, <1>11, <1>12
  DEF Next

\* ScenarioInv holds in every state, for any what-ifs, requests, runs, change
\* lists, assessments, tools and answers.
THEOREM ScenariosAreSound == Spec => []ScenarioInv
BY InitIsSound, NextIsSound, PTL DEF Spec

\* The what-ifs, their runs and the requests keep their types.
THEOREM ScenariosAreTyped == Spec => []TypeOK
<1>1. ScenarioInv => TypeOK
  BY DEF ScenarioInv, Typed, TypeOK, Scen, RunRow, ReqRow
<1>2. QED  BY <1>1, ScenariosAreSound, PTL

\* run_scenario and the job's completion: a confirmed what-if names a run about
\* it, and the rows it has are of the one run of it that completed.
THEOREM OutcomeIsOfItsRun == Spec => []WhatIfNamesItsRun
<1>1. ScenarioInv => WhatIfNamesItsRun
  <2>1. SUFFICES ASSUME ScenarioInv  PROVE WhatIfNamesItsRun  OBVIOUS
  <2>2. ASSUME NEW s \in Scenario
        PROVE  /\ scens[s].state = "confirmed" => scens[s].run # 0
               /\ scens[s].run # 0 => runs[scens[s].run].of = {s}
               /\ scens[s].by # 0 => scens[s].run \in 1..scens[s].by
    BY <2>1 DEF ScenarioInv, ScenSound
  <2>3. ASSUME NEW r \in Run, NEW s \in Scenario
        PROVE  (runs[r].status = "completed" /\ runs[r].of = {s})
                 <=> scens[s].by = r
    <3>1. r # 0  BY DEF Run
    <3>2. RunSound(r) /\ ScenSound(s)  BY <2>1 DEF ScenarioInv
    <3>3. QED  BY <3>1, <3>2 DEF RunSound, ScenSound
  <2>4. QED  BY <2>2, <2>3 DEF WhatIfNamesItsRun
<1>2. QED  BY <1>1, ScenariosAreSound, PTL

\* discard_scenario and the conditional UPDATEs: a what-if set aside stays so,
\* and a result that is there keeps its rows and its run.
THEOREM ResultsStand == Spec => ResultStands
<1> DEFINE Stands == \A s \in Scenario :
             /\ scens[s].state = "discarded" => scens'[s].state = "discarded"
             /\ scens[s].by # 0 => [scens'[s] EXCEPT !.state = "x"]
                                     = [scens[s] EXCEPT !.state = "x"]
<1>1. ScenarioInv /\ [Next]_vars => [Stands]_vars
  <2>1. SUFFICES ASSUME ScenarioInv, Next, NEW s \in Scenario
                 PROVE  /\ scens[s].state = "discarded"
                             => scens'[s].state = "discarded"
                        /\ scens[s].by # 0 => [scens'[s] EXCEPT !.state = "x"]
                                                = [scens[s] EXCEPT !.state = "x"]
    OBVIOUS
  <2>2. /\ scens \in [Scenario -> Scen] /\ scens[s] \in Scen /\ ScenSound(s)
    BY <2>1 DEF ScenarioInv, Typed
  <2>3. scens[s].by # 0 => scens[s].state # "none"
    BY <2>2 DEF ScenSound, NoScenario
  <2>4. ASSUME NEW t \in Scenario, CreateScenario(t)
        PROVE  scens'[s] = scens[s] \/ scens[s].state = "none"
    BY <2>2, <2>4 DEF CreateScenario
  <2>5. ASSUME NEW t \in Scenario, DiscardScenario(t)
        PROVE  \/ scens'[s] = scens[s]
               \/ scens'[s] = [scens[s] EXCEPT !.state = "discarded"]
    BY <2>2, <2>5 DEF DiscardScenario
  <2>6. ASSUME NEW q \in Request, RecordRun(q), scens'[s] # scens[s]
        PROVE  scens'[s] = Confirm(Point(scens[s], req[q].run))
    BY <2>2, <2>6 DEF RecordRun
  <2>7. ASSUME NEW r \in Run, NEW t \in Scenario, JobCommit(r, t),
               scens'[s] # scens[s]
        PROVE  /\ scens[s].by = 0
               /\ \E C : scens'[s] = [scens[s] EXCEPT !.by = r, !.credits = C]
    <3>1. PICK C : scens' = [scens EXCEPT ![t].by = r, ![t].credits = C]
      BY <2>7 DEF JobCommit
    <3>2. t = s  BY <2>2, <2>7, <3>1
    <3>3. scens'[s] = [scens[s] EXCEPT !.by = r, !.credits = C]
      BY <2>2, <3>1, <3>2
    <3>4. scens[s].by = 0  BY <2>7, <3>2 DEF JobCommit
    <3>5. QED  BY <3>3, <3>4
  <2>8. \/ scens'[s] = scens[s]
        \/ scens[s].state = "none"
        \/ scens'[s] = [scens[s] EXCEPT !.state = "discarded"]
        \/ \E q \in Request : scens'[s] = Confirm(Point(scens[s], req[q].run))
        \/ \E r, C : /\ scens[s].by = 0
                     /\ scens'[s] = [scens[s] EXCEPT !.by = r, !.credits = C]
    BY <2>1, <2>4, <2>5, <2>6, <2>7
    DEF Next, RunRead, JobLoad, JobCheck, StartRun, RunFails, BaseMoves, ToolsChange
  <2>9. QED  BY <2>2, <2>3, <2>8 DEF Confirm, Point, Scen
<1>2. QED  BY <1>1, ScenariosAreSound, PTL DEF Spec, ResultStands

---------------------------------------------------------------------------
(* What a result says: the statuses are monotone in the lists.             *)

\* What RisesAreExplained says of one result.
Explained(rows, change, credits) ==
  LET after == After(rows, change, credits)
      removal == After(rows, change, {})
      warned == Warned(rows, change, after)
      reached == Reached(rows, change, after)
      Credited(l, T) == \E k \in credits : k.on = l /\ k.tool \in T /\ k.caps # {}
  IN /\ \A l \in Technique : Rank(StatusOf(after, l)) >= Rank(StatusOf(removal, l))
     /\ ScoredHigher(rows, removal, change) = {}
     /\ ScoredHigher(rows, after, change) = warned \cup reached
     /\ \A l \in warned : Credited(l, Tool \ NewTools(change))
     /\ \A l \in reached : Credited(l, NewTools(change))

\* Ranks are numbers, whatever they are of.
LEMMA RankIsNat == \A status : Rank(status) \in Nat
BY DEF Rank

\* compute: longer lists never score a technique lower.
LEMMA MoreListedIsNoLess ==
  ASSUME NEW l \in Technique, NEW row \in CoverageRow, NEW more \in CoverageRow,
         more.said = row.said, more.flagged = row.flagged,
         \A c \in Cap : row.lists[c] \subseteq more.lists[c]
  PROVE  Rank(LeafStatus(l, row, Today)) <= Rank(LeafStatus(l, more, Today))
<1>1. Judged[l] \subseteq Cap  BY ScenariosAssumption
<1>2. DEFINE few == Capabilities(row, Today)
             many == Capabilities(more, Today)
<1>3. \A c \in Cap : few[c] = "in_place" => many[c] = "in_place"
  <2>1. ASSUME NEW c \in Cap
        PROVE  few[c] = "in_place" => many[c] = "in_place"
    <3>1. row.lists[c] \in SUBSET Tool /\ more.lists[c] \in SUBSET Tool
      BY DEF CoverageRow
    <3>2. /\ few[c] = Capability(row.lists[c], row.flagged, Today)
          /\ many[c] = Capability(more.lists[c], row.flagged, Today)
      BY DEF Capabilities
    <3>3. QED  BY <3>1, <3>2, InPlaceToday
  <2>2. QED  BY <2>1
<1> HIDE DEF few, many
<1>4. Rank(StatusFrom(l, few)) <= Rank(StatusFrom(l, many))
  BY <1>1, <1>3 DEF StatusFrom, Rank
<1>5. CASE row.said \in Assessed  BY <1>4, <1>5 DEF LeafStatus, few, many
<1>6. CASE row.said \notin Assessed
  <2>1. LeafStatus(l, row, Today) = LeafStatus(l, more, Today)
    BY <1>6 DEF LeafStatus
  <2>2. QED  BY <2>1, RankIsNat
<1>7. QED  BY <1>5, <1>6

\* scenario_rows and the row the added tools leave: a result's lists differ from
\* the assessment's in what was removed and what was credited, and only there.
LEMMA RowsAfter ==
  ASSUME NEW rows \in [Technique -> CoverageRow], NEW change,
         NEW credits \in SUBSET Credit, NEW l \in Technique
  PROVE  LET row == After(rows, change, credits)[l]
         IN /\ row \in CoverageRow
            /\ row.said = rows[l].said /\ row.flagged = rows[l].flagged
            /\ l \in Affected(rows, change) =>
                 \A c \in Cap : row.lists[c] = AfterLists(l, c, rows, change, credits)
            /\ l \notin Affected(rows, change) => row = rows[l]
<1>1. DEFINE new == [c \in Cap |-> AfterLists(l, c, rows, change, credits)]
<1>2. rows[l] \in CoverageRow  OBVIOUS
<1>3. new \in [Cap -> SUBSET Tool]
  <2>1. ASSUME NEW c \in Cap
        PROVE  AfterLists(l, c, rows, change, credits) \subseteq Tool
    <3>1. rows[l].lists[c] \subseteq Tool  BY <1>2 DEF CoverageRow
    <3>2. \A k \in credits : k.tool \in Tool  BY DEF Credit
    <3>3. QED  BY <3>1, <3>2 DEF AfterLists, Without
  <2>2. QED  BY <2>1
<1>4. \A c \in Cap : new[c] = AfterLists(l, c, rows, change, credits)  OBVIOUS
<1>5. After(rows, change, credits)[l]
        = IF l \notin Affected(rows, change) THEN rows[l]
          ELSE [rows[l] EXCEPT !.lists = new]
  BY DEF After
<1> HIDE DEF new
<1>6. QED  BY <1>2, <1>3, <1>4, <1>5 DEF CoverageRow

\* Alone takes back what was added, of the affected techniques.
LEMMA RowsAlone ==
  ASSUME NEW rows \in [Technique -> CoverageRow], NEW change,
         NEW after \in [Technique -> CoverageRow], NEW l \in Technique,
         l \in Affected(rows, change)
  PROVE  LET row == Alone(rows, change, after)[l]
         IN /\ row \in CoverageRow
            /\ row.said = after[l].said /\ row.flagged = after[l].flagged
            /\ \A c \in Cap : row.lists[c] = after[l].lists[c] \ NewTools(change)
<1>1. DEFINE new == [c \in Cap |-> after[l].lists[c] \ NewTools(change)]
<1>2. after[l] \in CoverageRow  OBVIOUS
<1>3. new \in [Cap -> SUBSET Tool]  BY <1>2 DEF CoverageRow
<1>4. Alone(rows, change, after)[l] = [after[l] EXCEPT !.lists = new]
  BY DEF Alone
<1>5. QED  BY <1>2, <1>3, <1>4 DEF CoverageRow

\* split_higher: what a result scores higher, it scores higher for a credit of
\* that technique - of a tool that remains, where it would be higher without the
\* added ones, and of an added one, where it is higher only with them.
LEMMA ResultIsExplained ==
  ASSUME NEW rows \in [Technique -> CoverageRow], NEW change,
         Sensible(change, rows), NEW credits \in SUBSET Credit
  PROVE  Explained(rows, change, credits)
<1>1. DEFINE after == After(rows, change, credits)
             removal == After(rows, change, {})
             alone == Alone(rows, change, after)
             new == NewTools(change)
<1>2. {} \in SUBSET Credit  OBVIOUS
<1>3. /\ after \in [Technique -> CoverageRow]
      /\ removal \in [Technique -> CoverageRow]
  BY <1>2, RowsAfter DEF After
<1>4. /\ new \subseteq Tool
      /\ \A l \in Technique, c \in Cap : rows[l].lists[c] \cap new = {}
  <2>1. new \subseteq Tool  BY ScenariosAssumption DEF Sensible
  <2>2. \A t \in new : t \notin Cited(rows)
    BY DEF Sensible, Collides, Citable
  <2>3. QED  BY <2>1, <2>2 DEF Cited
<1>5. ASSUME NEW l \in Technique
      PROVE  /\ Rank(StatusOf(removal, l)) <= Rank(StatusOf(after, l))
             /\ l \in Affected(rows, change) =>
                  Rank(StatusOf(removal, l)) <= Rank(StatusOf(rows, l))
  <2>1. removal[l].said = rows[l].said /\ removal[l].flagged = rows[l].flagged
    BY <1>2, RowsAfter
  <2>2. after[l].said = rows[l].said /\ after[l].flagged = rows[l].flagged
    BY RowsAfter
  <2>3. CASE l \notin Affected(rows, change)
    <3>1. removal[l] = rows[l] /\ after[l] = rows[l]
      BY <1>2, <2>3, RowsAfter
    <3>2. QED  BY <2>3, <3>1, RankIsNat DEF StatusOf
  <2>4. CASE l \in Affected(rows, change)
    <3>1. \A c \in Cap : /\ removal[l].lists[c] = AfterLists(l, c, rows, change, {})
                         /\ after[l].lists[c] = AfterLists(l, c, rows, change, credits)
      BY <1>2, <2>4, RowsAfter
    <3>2. \A c \in Cap : /\ removal[l].lists[c] \subseteq after[l].lists[c]
                         /\ removal[l].lists[c] \subseteq rows[l].lists[c]
      BY <3>1 DEF AfterLists, Without
    <3>3. /\ removal[l] \in CoverageRow /\ after[l] \in CoverageRow
          /\ rows[l] \in CoverageRow
      BY <1>3
    <3>4. QED  BY <2>1, <2>2, <3>2, <3>3, MoreListedIsNoLess DEF StatusOf
  <2>5. QED  BY <2>3, <2>4
<1>6. ScoredHigher(rows, removal, change) = {}
  BY <1>5, RankIsNat DEF ScoredHigher, Affected
<1>7. ScoredHigher(rows, after, change)
        = Warned(rows, change, after) \cup Reached(rows, change, after)
  BY RankIsNat DEF ScoredHigher, Warned, Reached
<1>8. ASSUME NEW l \in Warned(rows, change, after)
      PROVE  \E k \in credits : k.on = l /\ k.tool \in Tool \ new /\ k.caps # {}
  <2>1. /\ l \in Technique /\ l \in Affected(rows, change)
        /\ Rank(StatusOf(alone, l)) > Rank(StatusOf(rows, l))
    BY DEF Warned, ScoredHigher, Affected
  <2>2. /\ alone[l] \in CoverageRow
        /\ alone[l].said = after[l].said /\ alone[l].flagged = after[l].flagged
        /\ \A c \in Cap : alone[l].lists[c] = after[l].lists[c] \ new
    BY <1>3, <2>1, RowsAlone
  <2>3. /\ after[l].said = rows[l].said /\ after[l].flagged = rows[l].flagged
        /\ \A c \in Cap : after[l].lists[c] = AfterLists(l, c, rows, change, credits)
    BY <2>1, RowsAfter
  <2>4. PICK c \in Cap : ~(alone[l].lists[c] \subseteq rows[l].lists[c])
    <3>1. ~(Rank(StatusOf(alone, l)) <= Rank(StatusOf(rows, l)))
      BY <2>1, RankIsNat
    <3>2. rows[l] \in CoverageRow  BY <2>1
    <3>3. QED
      BY <2>1, <2>2, <2>3, <3>1, <3>2, MoreListedIsNoLess DEF StatusOf
  <2>5. PICK t : t \in alone[l].lists[c] /\ t \notin rows[l].lists[c]
    BY <2>4
  <2>6. t \in AfterLists(l, c, rows, change, credits) /\ t \notin new
    BY <2>2, <2>3, <2>5
  <2>7. PICK k \in credits : k.on = l /\ c \in k.caps /\ t = k.tool
    BY <2>5, <2>6 DEF AfterLists, Without
  <2>8. QED  BY <2>6, <2>7 DEF Credit
<1>9. ASSUME NEW l \in Reached(rows, change, after)
      PROVE  \E k \in credits : k.on = l /\ k.tool \in new /\ k.caps # {}
  <2>1. /\ l \in Technique /\ l \in Affected(rows, change)
        /\ Rank(StatusOf(after, l)) > Rank(StatusOf(alone, l))
    BY DEF Reached, ScoredHigher, Affected
  <2>2. /\ alone[l] \in CoverageRow
        /\ alone[l].said = after[l].said /\ alone[l].flagged = after[l].flagged
        /\ \A c \in Cap : alone[l].lists[c] = after[l].lists[c] \ new
    BY <1>3, <2>1, RowsAlone
  <2>3. \A c \in Cap : after[l].lists[c] = AfterLists(l, c, rows, change, credits)
    BY <2>1, RowsAfter
  <2>4. PICK c \in Cap : ~(after[l].lists[c] \subseteq alone[l].lists[c])
    <3>1. ~(Rank(StatusOf(after, l)) <= Rank(StatusOf(alone, l)))
      BY <2>1, RankIsNat
    <3>2. after[l] \in CoverageRow  BY <1>3, <2>1
    <3>3. QED  BY <2>1, <2>2, <3>1, <3>2, MoreListedIsNoLess DEF StatusOf
  <2>5. PICK t : t \in after[l].lists[c] /\ t \in new  BY <2>2, <2>4
  <2>6. t \notin rows[l].lists[c]  BY <1>4, <2>1, <2>5
  <2>7. PICK k \in credits : k.on = l /\ c \in k.caps /\ t = k.tool
    BY <2>3, <2>5, <2>6 DEF AfterLists, Without
  <2>8. QED  BY <2>5, <2>7
<1>10. \A l \in Technique : Rank(StatusOf(after, l)) >= Rank(StatusOf(removal, l))
  BY <1>5, RankIsNat
<1>11. QED  BY <1>6, <1>7, <1>8, <1>9, <1>10 DEF Explained

\* parse_delta, merge_batches and split_higher: a result credits no tool that was
\* removed, under any of its spellings, and each rise has its cause among the
\* credits - whatever the model answers.
THEOREM ResultsSayWhatIs == Spec => []ResultsAreTrue
<1>1. ScenarioInv => CreditsAreTrue
  BY DEF ScenarioInv, ScenSound, CreditsAreTrue, Earned
<1>2. ScenarioInv => RisesAreExplained
  <2>1. SUFFICES ASSUME ScenarioInv, NEW s \in Scenario, scens[s].by # 0
                 PROVE  Explained(Rows(s), scens[s].change, scens[s].credits)
    BY DEF Explained, RisesAreExplained, Result
  <2>2. scens[s] \in Scen /\ ScenSound(s)  BY <2>1 DEF ScenarioInv, Typed
  <2>3. scens[s].state # "none"  BY <2>1, <2>2 DEF ScenSound, NoScenario
  <2>4. scens[s].base \in Version /\ Sensible(scens[s].change, Rows(s))
    BY <2>2, <2>3 DEF ScenSound, Rows
  <2>5. Rows(s) \in [Technique -> CoverageRow]
    BY <2>4, ScenariosAssumption DEF Rows, CoverageRow, Version
  <2>6. scens[s].credits \in SUBSET Credit  BY <2>2 DEF Scen
  <2>7. QED  BY <2>4, <2>5, <2>6, ResultIsExplained
<1>3. QED  BY <1>1, <1>2, ScenariosAreSound, PTL DEF ResultsAreTrue

\* The rows a result holds are the assessment's with no more tools listed than
\* were credited, so that removals alone never raise a status.
LEMMA ListsAfter ==
  ASSUME NEW rows \in [Technique -> CoverageRow], NEW change,
         NEW credits \in SUBSET Credit
  PROVE  LET removal == After(rows, change, {})
             after == After(rows, change, credits)
         IN /\ removal \in [Technique -> CoverageRow]
            /\ after \in [Technique -> CoverageRow]
            /\ \A l \in Technique :
                 /\ removal[l].said = rows[l].said
                 /\ after[l].said = rows[l].said
                 /\ removal[l].flagged = rows[l].flagged
                 /\ after[l].flagged = rows[l].flagged
                 /\ \A c \in Cap : /\ removal[l].lists[c] \subseteq rows[l].lists[c]
                                   /\ removal[l].lists[c] \subseteq after[l].lists[c]
<1> DEFINE removal == After(rows, change, {})
           after == After(rows, change, credits)
<1>1. {} \in SUBSET Credit  OBVIOUS
<1>2. removal \in [Technique -> CoverageRow] /\ after \in [Technique -> CoverageRow]
  BY <1>1, RowsAfter DEF After
<1>3. ASSUME NEW l \in Technique
      PROVE  /\ removal[l].said = rows[l].said /\ removal[l].flagged = rows[l].flagged
             /\ after[l].said = rows[l].said /\ after[l].flagged = rows[l].flagged
  BY <1>1, RowsAfter
<1>4. ASSUME NEW l \in Technique, NEW c \in Cap
      PROVE  /\ removal[l].lists[c] \subseteq rows[l].lists[c]
             /\ removal[l].lists[c] \subseteq after[l].lists[c]
  <2>1. CASE l \notin Affected(rows, change)
    BY <1>1, <2>1, RowsAfter
  <2>2. CASE l \in Affected(rows, change)
    <3>1. /\ removal[l].lists[c] = AfterLists(l, c, rows, change, {})
          /\ after[l].lists[c] = AfterLists(l, c, rows, change, credits)
      BY <1>1, <2>2, RowsAfter
    <3> HIDE DEF removal, after
    <3>2. QED  BY <3>1 DEF AfterLists, Without
  <2>3. QED  BY <2>1, <2>2
<1> HIDE DEF removal, after
<1>5. QED  BY <1>2, <1>3, <1>4 DEF removal, after

\* compare, of a what-if: the coverage figure it shows after the change. The
\* removals alone never raise it above the assessment's, the credits of an
\* answer only raise it from there, and without a credit there is no rise.
WhatIfFigures ==
  \A s \in {s \in Scenario : scens[s].by # 0} :
    LET before == Figure(Rows(s), Today)
        removal == Figure(After(Rows(s), scens[s].change, {}), Today)
        after == Figure(Result(s), Today)
    IN /\ AtMost(removal, before) /\ AtMost(removal, after)
       /\ scens[s].credits = {} => AtMost(after, before)

\* compute over scenario_rows: whatever the model answers, and whichever tools a
\* what-if removes, its figure rises for a credited tool and for nothing else.
THEOREM FiguresRiseForCredits == Spec => []WhatIfFigures
<1>1. ASSUME ScenarioInv, NEW s \in Scenario, scens[s].by # 0
      PROVE  LET before == Figure(Rows(s), Today)
                 removal == Figure(After(Rows(s), scens[s].change, {}), Today)
                 after == Figure(Result(s), Today)
             IN /\ AtMost(removal, before) /\ AtMost(removal, after)
                /\ scens[s].credits = {} => AtMost(after, before)
  <2> DEFINE rows == Rows(s)
             change == scens[s].change
             credits == scens[s].credits
             removal == After(rows, change, {})
             after == After(rows, change, credits)
  <2>1. scens[s] \in Scen /\ ScenSound(s)  BY <1>1 DEF ScenarioInv, Typed
  <2>2. scens[s].state # "none"  BY <1>1, <2>1 DEF ScenSound, NoScenario
  <2>3. rows \in [Technique -> CoverageRow]
    <3>1. scens[s].base \in Version  BY <2>1, <2>2 DEF ScenSound
    <3>2. QED  BY <3>1, ScenariosAssumption DEF Rows, CoverageRow, Version
  <2>4. credits \in SUBSET Credit  BY <2>1 DEF Scen
  <2> HIDE DEF rows, change, credits
  <2>5. /\ removal \in [Technique -> CoverageRow]
        /\ after \in [Technique -> CoverageRow]
        /\ \A l \in Technique :
             /\ removal[l].said = rows[l].said
             /\ after[l].said = rows[l].said
             /\ removal[l].flagged = rows[l].flagged
             /\ after[l].flagged = rows[l].flagged
             /\ \A c \in Cap : /\ removal[l].lists[c] \subseteq rows[l].lists[c]
                               /\ removal[l].lists[c] \subseteq after[l].lists[c]
    BY <2>3, <2>4, ListsAfter
  <2>6. credits = {} => after = removal  OBVIOUS
  <2> HIDE DEF removal, after
  <2>7. AtMost(Figure(removal, Today), Figure(rows, Today))
    BY <2>3, <2>5, FigureAtMost
  <2>8. AtMost(Figure(removal, Today), Figure(after, Today))
    <3>1. \A l \in Technique : /\ after[l].said = removal[l].said
                               /\ after[l].flagged \subseteq removal[l].flagged
      BY <2>5
    <3>2. QED  BY <2>5, <3>1, FigureAtMost
  <2>9. credits = {} => AtMost(Figure(after, Today), Figure(rows, Today))
    BY <2>6, <2>7
  <2>10. QED
    BY <2>7, <2>8, <2>9 DEF rows, change, credits, removal, after, Result
<1>2. ScenarioInv => WhatIfFigures  BY <1>1 DEF WhatIfFigures
<1>3. QED  BY <1>2, ScenariosAreSound, PTL
=============================================================================
