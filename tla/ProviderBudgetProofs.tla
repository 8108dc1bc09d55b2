----------------------- MODULE ProviderBudgetProofs -----------------------
(***************************************************************************)
(* Theorems about ProviderBudget for any runs, calls, limits, prices and   *)
(* reports of the provider.                                                *)
(*                                                                         *)
(* The ledger is about sums over sets of calls.  A sum is a fold, defined  *)
(* by recursion over the subsets of a set; its laws are proved first, each *)
(* by looking at a smallest subset that breaks it.                         *)
(***************************************************************************)
EXTENDS ProviderBudget, FiniteSetTheorems, TLAPS

----------------------------------------------------------------------------
(* Sums over finite sets. *)

Pick(s) == CHOOSE x \in s : TRUE

SumsUp(f, S, g) ==
  g = [s \in SUBSET S |-> IF s = {} THEN 0 ELSE f[Pick(s)] + g[s \ {Pick(s)}]]

\* The sum of f over S is the value at S of the function that sums up f over
\* the subsets of S.
LEMMA TotalIsChosen ==
  ASSUME NEW f, NEW S
  PROVE  Total(f, S) = (CHOOSE g : SumsUp(f, S, g))[S]
BY DEF Total, MapThenSumSet, MapThenFoldSet, SumsUp, Pick

\* A set of subsets of a finite set has a smallest member: this stands for
\* induction over finite sets.
LEMMA SmallestSubset ==
  ASSUME NEW S, IsFiniteSet(S), NEW W \in SUBSET (SUBSET S), W # {}
  PROVE  \E T \in W : \A U \in SUBSET T : U # T => U \notin W
<1>1. IsWellFoundedOn(StrictSubsetOrdering(S), FiniteSubsetsOf(S))
  BY FS_StrictSubsetOrderingWellFounded
<1>2. W \subseteq FiniteSubsetsOf(S)
  BY FS_FiniteSubsetsOfFinite
<1>3. PICK T \in W : \A U \in W : ~ (<<U, T>> \in StrictSubsetOrdering(S))
  BY <1>1, <1>2, WFMin
<1>4. ASSUME NEW U \in SUBSET T, U # T, U \in W PROVE FALSE
  BY <1>3, <1>4 DEF StrictSubsetOrdering
<1>5. QED
  BY <1>4

\* What is picked from a set belongs to it.
LEMMA PicksBelong ==
  ASSUME NEW s, s # {}
  PROVE  Pick(s) \in s
BY DEF Pick

\* Functions that sum up f agree wherever both are defined.
LEMMA SumsAreUnique ==
  ASSUME NEW f, NEW S, IsFiniteSet(S), NEW T \in SUBSET S, NEW g, NEW h,
         SumsUp(f, S, g), SumsUp(f, T, h)
  PROVE  \A s \in SUBSET T : g[s] = h[s]
<1> DEFINE W == {s \in SUBSET T : g[s] # h[s]}
<1>1. SUFFICES ASSUME W # {} PROVE FALSE
  OBVIOUS
<1>2. W \in SUBSET (SUBSET S)
  OBVIOUS
<1>3. PICK s \in W : \A U \in SUBSET s : U # s => U \notin W
  <2> HIDE DEF W
  <2>1. QED
    BY <1>1, <1>2, SmallestSubset
<1>4. s \in SUBSET T /\ s \in SUBSET S /\ g[s] # h[s]
  BY <1>3
<1>5. /\ g[s] = IF s = {} THEN 0 ELSE f[Pick(s)] + g[s \ {Pick(s)}]
      /\ h[s] = IF s = {} THEN 0 ELSE f[Pick(s)] + h[s \ {Pick(s)}]
  BY <1>4 DEF SumsUp
<1>6. s # {}
  BY <1>4, <1>5
<1>7. g[s \ {Pick(s)}] = h[s \ {Pick(s)}]
  <2>1. Pick(s) \in s
    BY <1>6, PicksBelong
  <2>2. s \ {Pick(s)} \in SUBSET s /\ s \ {Pick(s)} # s
    BY <2>1
  <2>3. s \ {Pick(s)} \notin W /\ s \ {Pick(s)} \in SUBSET T
    BY <1>3, <1>4, <2>2
  <2>4. QED
    BY <2>3
<1>8. QED
  BY <1>4, <1>5, <1>6, <1>7

\* Where sums exist, Total is their value at the whole set.
LEMMA TotalIsTheSum ==
  ASSUME NEW f, NEW S, IsFiniteSet(S), NEW T \in SUBSET S, NEW g, SumsUp(f, S, g)
  PROVE  Total(f, T) = g[T]
<1> DEFINE h == [s \in SUBSET T |-> g[s]]
<1>1. SumsUp(f, T, h)
  <2>1. ASSUME NEW s \in SUBSET T
        PROVE  h[s] = IF s = {} THEN 0 ELSE f[Pick(s)] + h[s \ {Pick(s)}]
    <3>1. g[s] = IF s = {} THEN 0 ELSE f[Pick(s)] + g[s \ {Pick(s)}]
      BY DEF SumsUp
    <3>2. s \ {Pick(s)} \in SUBSET T
      OBVIOUS
    <3>3. h[s] = g[s] /\ h[s \ {Pick(s)}] = g[s \ {Pick(s)}]
      BY <3>2
    <3>4. QED
      BY <3>1, <3>3
  <2>2. h = [s \in SUBSET T |-> h[s]]
    OBVIOUS
  <2> HIDE DEF h
  <2>3. QED
    BY <2>1, <2>2 DEF SumsUp
<1> HIDE DEF h
<1>2. PICK c : c = (CHOOSE q : SumsUp(f, T, q))
  OBVIOUS
<1>3. SumsUp(f, T, c)
  BY <1>1, <1>2
<1>4. Total(f, T) = c[T]
  BY <1>2, TotalIsChosen
<1>5. g[T] = c[T]
  BY <1>3, SumsAreUnique
<1>6. QED
  BY <1>4, <1>5

\* Nothing sums up to nothing.
LEMMA TotalOfEmpty ==
  ASSUME NEW f
  PROVE  Total(f, {}) = 0
<1> DEFINE g == [s \in SUBSET {} |-> 0]
<1>1. SumsUp(f, {}, g)
  <2>1. \A s \in SUBSET {} : s = {}
    OBVIOUS
  <2>2. g = [s \in SUBSET {} |-> IF s = {} THEN 0 ELSE f[Pick(s)] + g[s \ {Pick(s)}]]
    BY <2>1
  <2>3. QED
    BY <2>2 DEF SumsUp
<1>2. g[{}] = 0
  OBVIOUS
<1> HIDE DEF g
<1>3. QED
  BY <1>1, <1>2, TotalIsTheSum, FS_EmptySet

\* A finite set has a function that sums up f over its subsets.
LEMMA SumsExist ==
  ASSUME NEW f, NEW S, IsFiniteSet(S)
  PROVE  \E g : SumsUp(f, S, g)
<1> DEFINE W == {s \in SUBSET S : ~ \E g : SumsUp(f, s, g)}
<1>1. SUFFICES ASSUME W # {} PROVE FALSE
  OBVIOUS
<1>2. W \in SUBSET (SUBSET S)
  OBVIOUS
<1>3. PICK T \in W : \A U \in SUBSET T : U # T => U \notin W
  <2> HIDE DEF W
  <2>1. QED
    BY <1>1, <1>2, SmallestSubset
<1>4. T \in SUBSET S /\ ~ \E g : SumsUp(f, T, g)
  BY <1>3
<1>5. ASSUME NEW U \in SUBSET T, U # T
      PROVE  IsFiniteSet(U) /\ \E g : SumsUp(f, U, g)
  <2>1. U \notin W /\ U \in SUBSET S
    BY <1>3, <1>4, <1>5
  <2>2. IsFiniteSet(U)
    BY <2>1, FS_Subset
  <2>3. QED
    BY <2>1, <2>2
<1> HIDE DEF W
<1> DEFINE g == [s \in SUBSET T |-> IF s = {} THEN 0 ELSE f[Pick(s)] + Total(f, s \ {Pick(s)})]
<1>6. ASSUME NEW U \in SUBSET T, U # T
      PROVE  g[U] = Total(f, U)
  <2>1. CASE U = {}
    BY <2>1, TotalOfEmpty
  <2>2. CASE U # {}
    <3>1. PICK h : SumsUp(f, U, h)
      BY <1>5, <1>6
    <3>2. IsFiniteSet(U)
      BY <1>5, <1>6
    <3>3. U \ {Pick(U)} \in SUBSET U
      OBVIOUS
    <3>4. Total(f, U) = h[U] /\ Total(f, U \ {Pick(U)}) = h[U \ {Pick(U)}]
      BY <3>1, <3>2, <3>3, TotalIsTheSum
    <3>5. h[U] = f[Pick(U)] + h[U \ {Pick(U)}]
      <4>1. U \in SUBSET U
        OBVIOUS
      <4>2. QED
        BY <3>1, <2>2, <4>1 DEF SumsUp
    <3>6. QED
      BY <2>2, <3>4, <3>5
  <2>3. QED
    BY <2>1, <2>2
<1>7. SumsUp(f, T, g)
  <2>1. ASSUME NEW s \in SUBSET T
        PROVE  g[s] = IF s = {} THEN 0 ELSE f[Pick(s)] + g[s \ {Pick(s)}]
    <3>1. CASE s = {}
      BY <3>1
    <3>2. CASE s # {}
      <4>1. Pick(s) \in s
        BY <3>2, PicksBelong
      <4>2. s \ {Pick(s)} \in SUBSET T /\ s \ {Pick(s)} # T
        BY <4>1
      <4>3. g[s \ {Pick(s)}] = Total(f, s \ {Pick(s)})
        BY <4>2, <1>6
      <4>4. QED
        BY <3>2, <4>3
    <3>3. QED
      BY <3>1, <3>2
  <2>2. g = [s \in SUBSET T |-> g[s]]
    OBVIOUS
  <2> HIDE DEF g
  <2>3. QED
    BY <2>1, <2>2 DEF SumsUp
<1>8. QED
  BY <1>4, <1>7

\* A sum is an integer, and does not depend on the order in which it is taken.
LEMMA TotalSplits ==
  ASSUME NEW S, IsFiniteSet(S), NEW f \in [S -> Int], NEW T \in SUBSET S
  PROVE  /\ Total(f, T) \in Int
         /\ \A x \in T : Total(f, T) = f[x] + Total(f, T \ {x})
<1>1. PICK g : SumsUp(f, S, g)
  BY SumsExist
<1>2. \A s \in SUBSET S : Total(f, s) = g[s]
  BY <1>1, TotalIsTheSum
<1>3. \A s \in SUBSET S : g[s] = IF s = {} THEN 0 ELSE f[Pick(s)] + g[s \ {Pick(s)}]
  BY <1>1 DEF SumsUp
<1> DEFINE Good(s) == g[s] \in Int /\ \A x \in s : g[s] = f[x] + g[s \ {x}]
<1> DEFINE W == {s \in SUBSET S : ~ Good(s)}
<1>4. W = {}
  <2>1. SUFFICES ASSUME W # {} PROVE FALSE
    OBVIOUS
  <2>2. W \in SUBSET (SUBSET S)
    OBVIOUS
  <2>3. PICK s \in W : \A U \in SUBSET s : U # s => U \notin W
    <3> HIDE DEF W
    <3>1. QED
      BY <2>1, <2>2, SmallestSubset
  <2>4. s \in SUBSET S /\ ~ Good(s)
    BY <2>3
  <2>5. ASSUME NEW U \in SUBSET s, U # s PROVE Good(U)
    <3>1. U \notin W /\ U \in SUBSET S
      BY <2>3, <2>4, <2>5
    <3>2. QED
      BY <3>1
  <2> HIDE DEF W
  <2>6. s # {}
    <3>1. ASSUME s = {} PROVE FALSE
      <4>1. g[s] = 0
        BY <1>3, <2>4, <3>1
      <4>2. Good(s)
        BY <4>1, <3>1
      <4>3. QED
        BY <2>4, <4>2
    <3>2. QED
      BY <3>1
  <2> DEFINE y == Pick(s)
  <2>7. y \in s
    BY <2>6, PicksBelong
  <2>8. g[s] = f[y] + g[s \ {y}]
    BY <1>3, <2>4, <2>6
  <2> HIDE DEF y
  <2>9. s \ {y} \in SUBSET s /\ s \ {y} # s
    BY <2>7
  <2>10. Good(s \ {y})
    BY <2>5, <2>9
  <2>11. f[y] \in Int
    BY <2>4, <2>7
  <2>12. g[s] \in Int
    BY <2>8, <2>10, <2>11
  <2>13. ASSUME NEW x \in s PROVE g[s] = f[x] + g[s \ {x}]
    <3>1. CASE x = y
      BY <2>8, <3>1
    <3>2. CASE x # y
      <4>1. x \in s \ {y} /\ y \in s \ {x}
        BY <2>7, <3>2
      <4>2. g[s \ {y}] = f[x] + g[(s \ {y}) \ {x}]
        BY <2>10, <4>1
      <4>3. s \ {x} \in SUBSET s /\ s \ {x} # s
        OBVIOUS
      <4>4. Good(s \ {x})
        BY <2>5, <4>3
      <4>5. g[s \ {x}] = f[y] + g[(s \ {x}) \ {y}]
        BY <4>1, <4>4
      <4>6. (s \ {x}) \ {y} = (s \ {y}) \ {x}
        OBVIOUS
      <4>7. f[x] \in Int
        BY <2>4
      <4>8. (s \ {y}) \ {x} \in SUBSET s /\ (s \ {y}) \ {x} # s
        BY <2>7
      <4>9. g[(s \ {y}) \ {x}] \in Int
        BY <2>5, <4>8
      <4> HIDE DEF Good
      <4>10. g[s \ {x}] = f[y] + g[(s \ {y}) \ {x}]
        BY <4>5, <4>6
      <4>11. PICK z \in Int : z = g[(s \ {y}) \ {x}]
        BY <4>9
      <4>12. /\ g[s] = f[y] + g[s \ {y}] /\ g[s \ {y}] = f[x] + z
             /\ g[s \ {x}] = f[y] + z
        BY <2>8, <4>2, <4>10, <4>11
      <4>13. f[x] + z \in Int /\ f[x] + (f[y] + z) = f[y] + (f[x] + z)
        BY <2>11, <4>7, <4>11
      <4>14. QED
        BY <4>12, <4>13
    <3>3. QED
      BY <3>1, <3>2
  <2>14. QED
    BY <2>4, <2>12, <2>13
<1>5. Good(T)
  BY <1>4
<1> HIDE DEF W
<1>6. g[T] = Total(f, T) /\ \A x \in T : g[T \ {x}] = Total(f, T \ {x})
  BY <1>2
<1>7. QED
  BY <1>5, <1>6

\* A sum depends only on what is summed up.
LEMMA TotalIsOfValues ==
  ASSUME NEW S, IsFiniteSet(S), NEW f \in [S -> Int], NEW g \in [S -> Int],
         NEW T \in SUBSET S, \A x \in T : f[x] = g[x]
  PROVE  Total(f, T) = Total(g, T)
<1> DEFINE W == {U \in SUBSET T : Total(f, U) # Total(g, U)}
<1>1. SUFFICES ASSUME W # {} PROVE FALSE
  <2>1. T \notin W => Total(f, T) = Total(g, T)
    OBVIOUS
  <2>2. QED
    BY <2>1
<1>2. W \in SUBSET (SUBSET S)
  OBVIOUS
<1>3. PICK U \in W : \A V \in SUBSET U : V # U => V \notin W
  <2> HIDE DEF W
  <2>1. QED
    BY <1>1, <1>2, SmallestSubset
<1>4. U \in SUBSET T /\ U \in SUBSET S /\ Total(f, U) # Total(g, U)
  BY <1>3
<1>5. U # {}
  BY <1>4, TotalOfEmpty
<1>6. PICK x : x \in U
  BY <1>5
<1>7. /\ Total(f, U) = f[x] + Total(f, U \ {x})
      /\ Total(g, U) = g[x] + Total(g, U \ {x})
  BY <1>4, <1>6, TotalSplits
<1>8. Total(f, U \ {x}) = Total(g, U \ {x})
  <2>1. U \ {x} \in SUBSET U /\ U \ {x} # U
    BY <1>6
  <2>2. U \ {x} \notin W /\ U \ {x} \in SUBSET T
    BY <1>3, <1>4, <2>1
  <2>3. QED
    BY <2>2
<1>9. f[x] = g[x]
  BY <1>4, <1>6
<1>10. QED
  BY <1>4, <1>7, <1>8, <1>9

\* A further element adds its value.
LEMMA TotalGrows ==
  ASSUME NEW S, IsFiniteSet(S), NEW f \in [S -> Int], NEW T \in SUBSET S, NEW x \in S \ T
  PROVE  Total(f, T \cup {x}) = f[x] + Total(f, T)
<1>1. T \cup {x} \in SUBSET S /\ x \in T \cup {x} /\ (T \cup {x}) \ {x} = T
  OBVIOUS
<1>2. QED
  BY <1>1, TotalSplits

\* The sum of natural numbers is one, and no smaller than any of them.
LEMMA TotalIsNatural ==
  ASSUME NEW S, IsFiniteSet(S), NEW f \in [S -> Nat], NEW T \in SUBSET S
  PROVE  /\ Total(f, T) \in Nat
         /\ \A x \in T : f[x] <= Total(f, T)
<1>0. f \in [S -> Int]
  OBVIOUS
<1>1. ASSUME NEW V \in SUBSET S PROVE Total(f, V) \in Nat
  <2> DEFINE W == {U \in SUBSET S : Total(f, U) \notin Nat}
  <2>1. SUFFICES ASSUME W # {} PROVE FALSE
    OBVIOUS
  <2>2. W \in SUBSET (SUBSET S)
    OBVIOUS
  <2>3. PICK U \in W : \A X \in SUBSET U : X # U => X \notin W
    <3> HIDE DEF W
    <3>1. QED
      BY <2>1, <2>2, SmallestSubset
  <2>4. U \in SUBSET S /\ Total(f, U) \notin Nat
    BY <2>3
  <2>5. U # {}
    BY <2>4, TotalOfEmpty
  <2>6. PICK x : x \in U
    BY <2>5
  <2>7. Total(f, U) = f[x] + Total(f, U \ {x})
    BY <1>0, <2>4, <2>6, TotalSplits
  <2>8. Total(f, U \ {x}) \in Nat
    <3>1. U \ {x} \in SUBSET U /\ U \ {x} # U
      BY <2>6
    <3>2. U \ {x} \notin W /\ U \ {x} \in SUBSET S
      BY <2>3, <2>4, <3>1
    <3>3. QED
      BY <3>2
  <2>9. f[x] \in Nat
    BY <2>4, <2>6
  <2>10. QED
    BY <2>4, <2>7, <2>8, <2>9
<1>2. ASSUME NEW x \in T PROVE f[x] <= Total(f, T)
  <2>1. Total(f, T) = f[x] + Total(f, T \ {x})
    BY <1>0, TotalSplits
  <2>2. Total(f, T \ {x}) \in Nat
    <3>1. T \ {x} \in SUBSET S
      OBVIOUS
    <3>2. QED
      BY <3>1, <1>1
  <2>3. f[x] \in Nat
    OBVIOUS
  <2>4. QED
    BY <2>1, <2>2, <2>3
<1>3. QED
  BY <1>1, <1>2

\* A set of numbers with an upper bound has a greatest one.
LEMMA GreatestExists ==
  ASSUME NEW n \in Nat, NEW S \in SUBSET Nat, S # {}, \A x \in S : x <= n
  PROVE  Max(S) \in S /\ \A x \in S : x <= Max(S)
<1> DEFINE W == {k \in Nat : n - k \in S}
<1>1. W # {}
  <2>1. PICK x \in S : x <= n
    OBVIOUS
  <2>2. x \in Nat /\ n - x \in Nat /\ n - (n - x) = x
    BY <2>1
  <2>3. n - x \in W
    BY <2>1, <2>2
  <2>4. QED
    BY <2>3
<1>2. PICK k \in W : \A j \in W : ~ (<<j, k>> \in OpToRel(<, Nat))
  <2>1. W \subseteq Nat
    OBVIOUS
  <2> HIDE DEF W
  <2>2. QED
    BY <1>1, <2>1, NatLessThanWellFounded, WFMin
<1>3. \A j \in W : ~ (j < k)
  BY <1>2 DEF OpToRel
<1>4. \A x \in S : x <= n - k
  <2>1. SUFFICES ASSUME NEW x \in S PROVE x <= n - k
    OBVIOUS
  <2>2. x \in Nat /\ x <= n /\ n - x \in Nat /\ n - (n - x) = x
    OBVIOUS
  <2>3. n - x \in W
    BY <2>2
  <2>4. ~ (n - x < k) /\ k \in Nat
    BY <1>3, <2>3
  <2>5. QED
    BY <2>2, <2>4
<1>5. n - k \in S /\ n - k \in Nat
  OBVIOUS
<1>6. \E x \in S : \A y \in S : x >= y
  <2>1. \A y \in S : n - k >= y
    BY <1>4, <1>5
  <2>2. QED
    BY <1>5, <2>1
<1>7. Max(S) \in S /\ \A y \in S : Max(S) >= y
  BY <1>6 DEF Max
<1>8. QED
  BY <1>7

----------------------------------------------------------------------------
(* The inductive invariant. *)

LimitsRow == [calls : Nat, input : Nat, output : Nat, cost : Nat \union {None}]
UsedRow   == [calls : Nat, input : Nat, output : Nat, cost : Nat, rinput : Nat,
              routput : Nat, rcost : Nat, uncertain : Nat]
HistoryRow == [revision : Nat, used : UsedRow, limits : LimitsRow]
UsageRow  == [calls : Nat, verifier : Nat, input : Nat, output : Nat]
CallRow   == [run : Runs \union {NoRun},
              st : {"none", "running", "success", "failed", "discarded"}]
ResvRow   == [st : {"none", "open", "settled", "uncertain"},
              input : Nat, output : Nat, cost : Nat \union {None}]
PaidRow   == [input : Nat, output : Nat, cost : Nat]
AnswerRow == [kind : {"none", "ok", "truncated", "unusable"},
              input : Nat \union {None}, output : Nat \union {None},
              cost : Nat \union {None}, capped : BOOLEAN]

CampaignTyped ==
  /\ revision \in 0 .. MaxRevision + 1
  /\ limits \in LimitsRow
  /\ rates \in Pricings
  /\ used \in UsedRow
  /\ history \subseteq HistoryRow

CallsTyped ==
  /\ usage \in [Runs -> UsageRow]
  /\ status \in [Runs -> {"running", "ended"}]
  /\ call \in [Calls -> CallRow]
  /\ resv \in [Calls -> ResvRow]
  /\ paid \in [Calls -> PaidRow]
  /\ stage \in [Calls -> InProgress \union {"unused", "dead", "closed"}]
  /\ answer \in [Calls -> AnswerRow]

\* A cost cap comes with a complete price list.
Priced == Capped => rates # {}

Typed == CampaignTyped /\ CallsTyped /\ Priced

----------------------------------------------------------------------------
(* What a call is granted. *)

\* The quotient of natural numbers, rounded up, is a natural number.
LEMMA CeilDivType ==
  ASSUME NEW n \in Nat, NEW d \in Nat \ {0}
  PROVE  CeilDiv(n, d) \in Nat
<1>1. n + d - 1 \in Nat
  OBVIOUS
<1>2. PICK m \in Nat : m = n + d - 1
  BY <1>1
<1>3. m \div d \in Nat
  OBVIOUS
<1>4. QED
  BY <1>2, <1>3 DEF CeilDiv

\* The shares reserved for reviews, and everything that is kept for later calls,
\* are natural numbers.
LEMMA KeptType ==
  ASSUME Typed, NEW r \in Runs, NEW role \in Roles
  PROVE  /\ VerifierReserve(r) \in [calls : Nat, input : Nat, output : Nat]
         /\ Kept(r, role) \in [calls : Nat, input : Nat, output : Nat]
<1>1. /\ Budget.calls \in Nat /\ Budget.verifier \in Nat /\ Budget.input \in Nat
      /\ Budget.output \in Nat /\ Budget.reservedCalls \in Nat
      /\ Budget.reservedInput \in Nat /\ Budget.reservedOutput \in Nat
  BY BudgetAssumption
<1>2. Floor[role] \in Nat
  BY BudgetAssumption
<1>3. usage[r].verifier \in Nat
  BY DEF Typed, CallsTyped, UsageRow
<1>4. ReviewsLeft(r) \in Nat /\ ReviewsLeft(r) <= Budget.reservedCalls
  BY <1>1, <1>3 DEF ReviewsLeft, Smaller
<1> DEFINE share(total) == IF ReviewsLeft(r) = 0 THEN 0
                           ELSE CeilDiv(total * ReviewsLeft(r), Budget.reservedCalls)
<1>5. ASSUME NEW total \in Nat PROVE share(total) \in Nat
  <2>1. CASE ReviewsLeft(r) = 0
    BY <2>1
  <2>2. CASE ReviewsLeft(r) # 0
    <3>1. Budget.reservedCalls \in Nat \ {0}
      BY <1>1, <1>4, <2>2
    <3>2. total * ReviewsLeft(r) \in Nat
      BY <1>4
    <3>3. CeilDiv(total * ReviewsLeft(r), Budget.reservedCalls) \in Nat
      BY <3>1, <3>2, CeilDivType
    <3>4. QED
      BY <2>2, <3>3
  <2>3. QED
    BY <2>1, <2>2
<1>6. VerifierReserve(r) = [calls |-> ReviewsLeft(r), input |-> share(Budget.reservedInput),
                            output |-> share(Budget.reservedOutput)]
  BY DEF VerifierReserve
<1>7. share(Budget.reservedInput) \in Nat /\ share(Budget.reservedOutput) \in Nat
  BY <1>1, <1>5
<1> HIDE DEF share
<1>8. VerifierReserve(r) \in [calls : Nat, input : Nat, output : Nat]
  BY <1>4, <1>6, <1>7
<1>9. SynthesisReserve \in [calls : Nat, input : Nat, output : Nat]
  <2>1. Larger1(Budget.calls) \in Nat \ {0}
    BY <1>1 DEF Larger1
  <2>2. CeilDiv(Budget.input, Larger1(Budget.calls)) \in Nat
    BY <1>1, <2>1, CeilDivType
  <2>3. CeilDiv(Budget.output, Larger1(Budget.calls)) \in Nat
    BY <1>1, <2>1, CeilDivType
  <2>4. QED
    BY <2>2, <2>3 DEF SynthesisReserve
<1>10. PICK v \in [calls : Nat, input : Nat, output : Nat] : v = VerifierReserve(r)
  BY <1>8
<1>11. Kept(r, role) \in [calls : Nat, input : Nat, output : Nat]
  <2>1. CASE role = "planner"
    <3>1. Kept(r, role) = [calls  |-> v.calls + SynthesisReserve.calls,
             input  |-> v.input + SynthesisReserve.input,
             output |-> v.output + SynthesisReserve.output]
      BY <1>10, <2>1 DEF Kept
    <3>2. QED
      BY <1>9, <3>1
  <2>2. CASE role = "synthesizer"
    BY <1>10, <2>2 DEF Kept
  <2>3. CASE role = "verifier"
    <3> DEFINE left == Larger1(Budget.verifier - usage[r].verifier)
    <3>1. left \in Nat \ {0}
      BY <1>1, <1>3 DEF Larger1
    <3>2. Kept(r, role) = [calls |-> v.calls,
             input  |-> AtLeast0(v.input - CeilDiv(v.input, left)),
             output |-> AtLeast0(v.output - Floor[role])]
      BY <1>10, <2>3 DEF Kept
    <3> HIDE DEF left
    <3>3. CeilDiv(v.input, left) \in Nat
      BY <3>1, CeilDivType
    <3>4. \A n \in Int : AtLeast0(n) \in Nat
      BY DEF AtLeast0
    <3>5. v.input - CeilDiv(v.input, left) \in Int /\ v.output - Floor[role] \in Int
      BY <1>2, <3>3
    <3>6. QED
      BY <3>2, <3>4, <3>5
  <2>4. QED
    BY <2>1, <2>2, <2>3 DEF Roles
<1>12. QED
  BY <1>8, <1>11

\* A price is a natural number, or missing without a cap.
LEMMA MaxCostType ==
  ASSUME Typed, NEW i \in Nat, NEW o \in Nat
  PROVE  /\ MaxCost(i, o) \in Nat \union {None}
         /\ Capped => MaxCost(i, o) \in Nat
         /\ ~Capped => MaxCost(i, o) = None
<1>1. CASE ~Capped
  BY <1>1 DEF MaxCost
<1>2. CASE Capped
  <2>1. rates # {} /\ rates \in Pricings
    BY <1>2 DEF Typed, Priced, CampaignTyped
  <2>2. PICK price : price = CHOOSE p \in rates : TRUE
    OBVIOUS
  <2>3. price \in RateChoices
    BY <2>1, <2>2 DEF Pricings
  <2>4. price.input \in Nat /\ price.output \in Nat /\ RateScale \in Nat \ {0}
    BY <2>3, BudgetAssumption
  <2>5. i * price.input \in Nat /\ o * price.output \in Nat
    BY <2>4
  <2>6. i * price.input + o * price.output \in Nat
    BY <2>5
  <2>7. CeilDiv(i * price.input + o * price.output, RateScale) \in Nat
    BY <2>4, <2>6, CeilDivType
  <2>8. MaxCost(i, o) = CeilDiv(i * price.input + o * price.output, RateScale)
    BY <1>2, <2>2 DEF MaxCost
  <2>9. QED
    BY <1>2, <2>7, <2>8
<1>3. QED
  BY <1>1, <1>2

\* A call is granted a number of tokens, and never more than what is left once
\* the calls that must follow it have theirs.
LEMMA GrantedType ==
  ASSUME Typed, NEW r \in Runs, NEW role \in Roles, NEW prompt \in Prompts, NEW room \in Rooms
  PROVE  /\ Granted(r, role, prompt, room) \in Int
         /\ Granted(r, role, prompt, room) > 0 =>
              Granted(r, role, prompt, room)
                <= Budget.output - usage[r].output - Kept(r, role).output
<1>1. Budget.output \in Nat /\ usage[r].output \in Nat /\ room \in Nat
  BY BudgetAssumption DEF Typed, CallsTyped, UsageRow
<1>2. Kept(r, role).output \in Nat
  BY KeptType
<1> DEFINE rest == Budget.output - usage[r].output - Kept(r, role).output
<1>3. rest \in Int
  BY <1>1, <1>2
<1> HIDE DEF rest
<1>4. PICK offered \in Int : offered = Smaller(room, rest) /\ offered <= rest
  BY <1>1, <1>3 DEF Smaller
<1>5. CASE r \notin Funded
  <2>1. Granted(r, role, prompt, room) = offered
    BY <1>4, <1>5 DEF Granted, rest
  <2>2. QED
    BY <1>3, <1>4, <2>1 DEF rest
<1>6. CASE r \in Funded
  <2> DEFINE kept == Kept(r, role)
             S == {0} \union {o \in 1 .. AtLeast0(offered) :
                                 Fits(prompt + kept.input, o + kept.output)}
  <2>1. Granted(r, role, prompt, room) = Max(S)
    BY <1>4, <1>6 DEF Granted, Reservable, rest
  <2>2. PICK n \in Nat : n = AtLeast0(offered) /\ (n > 0 => n = offered)
    BY <1>4 DEF AtLeast0
  <2>3. S \in SUBSET Nat /\ S # {} /\ \A x \in S : x <= n
    BY <2>2
  <2> HIDE DEF S
  <2>4. Max(S) \in S
    BY <2>3, GreatestExists
  <2>5. Max(S) \in Nat /\ Max(S) <= n
    BY <2>3, <2>4
  <2>6. Max(S) > 0 => Max(S) <= rest
    BY <1>3, <1>4, <2>2, <2>5
  <2>7. QED
    BY <2>1, <2>5, <2>6 DEF rest
<1>7. QED
  BY <1>5, <1>6

----------------------------------------------------------------------------
(* Type correctness. *)

\* The counters of the campaign and the usage of a run are natural numbers.
LEMMA Counters ==
  ASSUME Typed
  PROVE  /\ used.calls \in Nat /\ used.input \in Nat /\ used.output \in Nat /\ used.cost \in Nat
         /\ used.rinput \in Nat /\ used.routput \in Nat /\ used.rcost \in Nat
         /\ used.uncertain \in Nat
         /\ \A r \in Runs : /\ usage[r].calls \in Nat /\ usage[r].verifier \in Nat
                            /\ usage[r].input \in Nat /\ usage[r].output \in Nat
BY DEF Typed, CampaignTyped, CallsTyped, UsedRow, UsageRow

\* What a call is once it has been asked.
Asked(r, c, role, prompt, tokens) ==
  /\ stage[c] = "unused" /\ status[r] = "running" /\ Idle(r)
  /\ tokens \in Nat \ {0} /\ tokens >= Floor[role]
  /\ tokens <= Budget.output - usage[r].output - Kept(r, role).output
  /\ IF r \in Funded
     THEN /\ revision > 0 /\ Fits(prompt, tokens) /\ Charge(prompt, tokens)
          /\ resv' = [resv EXCEPT ![c] = [st |-> "open", input |-> prompt,
                                          output |-> tokens, cost |-> MaxCost(prompt, tokens)]]
     ELSE /\ resv' = [resv EXCEPT ![c].input = prompt, ![c].output = tokens]
          /\ used' = used
  /\ usage' = [usage EXCEPT ![r].calls = @ + 1,
                            ![r].verifier = IF role = "verifier" THEN @ + 1 ELSE @]
  /\ call' = [call EXCEPT ![c] = [run |-> r, st |-> "running"]]
  /\ stage' = [stage EXCEPT ![c] = "asked"]
  /\ UNCHANGED <<revision, limits, rates, history, status, paid, answer>>

\* A call is asked with a positive number of tokens that fits what is left.
LEMMA AskAsks ==
  ASSUME Typed, NEW r \in Runs, NEW c \in Calls, NEW role \in Roles, NEW prompt \in Prompts,
         NEW room \in Rooms, Ask(r, c, role, prompt, room)
  PROVE  \E tokens \in Nat \ {0} : Asked(r, c, role, prompt, tokens)
<1>1. PICK tokens : tokens = Granted(r, role, prompt, room)
  OBVIOUS
<1>2. tokens \in Int /\ tokens >= Floor[role]
  BY <1>1, GrantedType DEF Ask
<1>3. Floor[role] \in Nat \ {0}
  BY BudgetAssumption
<1>4. tokens \in Nat \ {0}
  BY <1>2, <1>3
<1>5. tokens <= Budget.output - usage[r].output - Kept(r, role).output
  <2>1. tokens > 0
    BY <1>4
  <2>2. QED
    BY <1>1, <2>1, GrantedType
<1>6. Asked(r, c, role, prompt, tokens)
  BY <1>1, <1>2, <1>4, <1>5 DEF Ask, Asked
<1>7. QED
  BY <1>4, <1>6

\* Asking keeps the types.
LEMMA AskTypes ==
  ASSUME Typed, NEW r \in Runs, NEW c \in Calls, NEW role \in Roles, NEW prompt \in Prompts,
         NEW tokens \in Nat \ {0}, Asked(r, c, role, prompt, tokens)
  PROVE  Typed'
<1>1. prompt \in Nat
  BY BudgetAssumption
<1>2. PICK m \in Nat \union {None} : m = MaxCost(prompt, tokens)
  BY <1>1, MaxCostType
<1>3. Known(m) \in Nat
  BY <1>2 DEF Known, None
<1>4. used' \in UsedRow
  <2>1. used \in UsedRow
    BY DEF Typed, CampaignTyped
  <2>2. CASE r \in Funded
    <3>1. used' = [used EXCEPT !.calls = @ + 1, !.rinput = @ + prompt,
                               !.routput = @ + tokens, !.rcost = @ + Known(m)]
      BY <1>2, <2>2 DEF Asked, Charge
    <3>2. /\ used.calls + 1 \in Nat /\ used.rinput + prompt \in Nat
          /\ used.routput + tokens \in Nat /\ used.rcost + Known(m) \in Nat
      BY <1>1, <1>3, Counters
    <3>3. QED
      BY <2>1, <3>1, <3>2 DEF UsedRow
  <2>3. CASE r \notin Funded
    BY <2>1, <2>3 DEF Asked
  <2>4. QED
    BY <2>2, <2>3
<1>5. resv' \in [Calls -> ResvRow]
  <2>1. resv \in [Calls -> ResvRow]
    BY DEF Typed, CallsTyped
  <2>2. CASE r \in Funded
    <3>1. resv' = [resv EXCEPT ![c] = [st |-> "open", input |-> prompt,
                                       output |-> tokens, cost |-> m]]
      BY <1>2, <2>2 DEF Asked
    <3>2. [st |-> "open", input |-> prompt, output |-> tokens, cost |-> m] \in ResvRow
      BY <1>1, <1>2 DEF ResvRow
    <3>3. QED
      BY <2>1, <3>1, <3>2
  <2>3. CASE r \notin Funded
    <3>1. resv' = [resv EXCEPT ![c].input = prompt, ![c].output = tokens]
      BY <2>3 DEF Asked
    <3>2. QED
      BY <1>1, <2>1, <3>1 DEF ResvRow
  <2>4. QED
    BY <2>2, <2>3
<1>6. usage' \in [Runs -> UsageRow]
  <2>1. usage[r].calls + 1 \in Nat /\ usage[r].verifier + 1 \in Nat /\ usage[r].verifier \in Nat
    BY Counters
  <2>2. PICK v \in Nat : v = IF role = "verifier" THEN usage[r].verifier + 1 ELSE usage[r].verifier
    BY <2>1
  <2>3. usage \in [Runs -> UsageRow]
    BY DEF Typed, CallsTyped
  <2>4. usage' = [usage EXCEPT ![r].calls = @ + 1, ![r].verifier = v]
    BY <2>2 DEF Asked
  <2>5. QED
    BY <2>1, <2>3, <2>4 DEF UsageRow
<1>7. call' \in [Calls -> CallRow]
  BY DEF Asked, Typed, CallsTyped, CallRow
<1>8. stage' \in [Calls -> InProgress \union {"unused", "dead", "closed"}]
  BY DEF Asked, Typed, CallsTyped, InProgress
<1>9. UNCHANGED <<revision, limits, rates, history, status, paid, answer>>
  BY DEF Asked
<1>10. CampaignTyped' /\ Priced'
  BY <1>4, <1>9 DEF Typed, CampaignTyped, Priced, Capped
<1>11. CallsTyped'
  BY <1>5, <1>6, <1>7, <1>8, <1>9 DEF Typed, CallsTyped
<1>12. QED
  BY <1>10, <1>11 DEF Typed

\* Authorising limits keeps the types.
LEMMA AuthorizedTypes ==
  ASSUME Typed, NEW n \in 0 .. MaxRevision + 1, NEW l \in LimitChoices, NEW p \in Pricings,
         Normalized(l, p), Authorized(n, l, p)
  PROVE  Typed'
<1>1. l \in LimitsRow
  BY BudgetAssumption DEF LimitsRow
<1>2. MaxRevision \in Nat
  BY BudgetAssumption
<1>3. used \in UsedRow /\ n \in Nat
  BY <1>2 DEF Typed, CampaignTyped
<1>4. [revision |-> n, limits |-> l, used |-> used] \in HistoryRow
  BY <1>1, <1>3 DEF HistoryRow
<1>5. history' \subseteq HistoryRow
  BY <1>4 DEF Authorized, Typed, CampaignTyped
<1>6. revision' = n /\ limits' = l /\ rates' = p /\ used' = used
  BY DEF Authorized
<1>7. CampaignTyped'
  BY <1>1, <1>3, <1>5, <1>6 DEF CampaignTyped
<1>8. Priced'
  BY <1>6 DEF Normalized, Priced, Capped
<1>9. CallsTyped'
  BY DEF Authorized, Typed, CallsTyped
<1>10. QED
  BY <1>7, <1>8, <1>9 DEF Typed

\* An answer forgotten is an answer.
LEMMA NoAnswerType == NoAnswer \in AnswerRow
BY DEF NoAnswer, AnswerRow

\* Whatever the provider answers is an answer.
LEMMA AnswersType ==
  ASSUME Typed, NEW c \in Calls, NEW a \in Answers(c)
  PROVE  a \in AnswerRow
<1>1. PICK p \in BOOLEAN : p = (IsFunded(c) /\ Capped)
  OBVIOUS
<1>2. \A b : Reported(b) \subseteq Nat \union {None}
  BY BudgetAssumption DEF Reported
<1>3. CostsOf(c) \subseteq Nat \union {None}
  BY BudgetAssumption DEF CostsOf
<1>4. \/ a \in [kind : {"ok", "truncated"}, input : Reported(resv[c].input),
                output : Reported(resv[c].output), cost : CostsOf(c), capped : {p}]
      \/ a = [NoAnswer EXCEPT !.kind = "unusable"]
  BY <1>1 DEF Answers
<1>5. CASE a = [NoAnswer EXCEPT !.kind = "unusable"]
  BY <1>5 DEF NoAnswer, AnswerRow
<1>6. CASE a \in [kind : {"ok", "truncated"}, input : Reported(resv[c].input),
                  output : Reported(resv[c].output), cost : CostsOf(c), capped : {p}]
  BY <1>1, <1>2, <1>3, <1>6 DEF AnswerRow
<1>7. QED
  BY <1>4, <1>5, <1>6

\* An executor that is through with an answer keeps the types.
LEMMA LeaveTypes ==
  ASSUME Typed, NEW c \in Calls, NEW how \in InProgress \union {"dead", "closed"}, Leave(c, how)
  PROVE  /\ stage' \in [Calls -> InProgress \union {"unused", "dead", "closed"}]
         /\ answer' \in [Calls -> AnswerRow]
BY NoAnswerType DEF Leave, Typed, CallsTyped

\* So does one that has accounted for it.
LEMMA AccountedTypes ==
  ASSUME Typed, NEW c \in Calls, Accounted(c)
  PROVE  /\ stage' \in [Calls -> InProgress \union {"unused", "dead", "closed"}]
         /\ answer' \in [Calls -> AnswerRow]
<1>1. CASE Bookable(c)
  <2>1. /\ stage' = [stage EXCEPT ![c] = "accounted"]
        /\ answer' = [answer EXCEPT ![c].cost = None, ![c].capped = FALSE]
    BY <1>1 DEF Accounted
  <2>2. answer' \in [Calls -> AnswerRow]
    BY <2>1, ZenonT(40) DEF Typed, CallsTyped, AnswerRow
  <2>3. QED
    BY <2>1, <2>2 DEF Typed, CallsTyped, InProgress
<1>2. CASE ~Bookable(c)
  BY <1>2, LeaveTypes DEF Accounted, InProgress
<1>3. QED
  BY <1>1, <1>2

\* Marking a reservation keeps the types.
LEMMA MarkTypes ==
  ASSUME Typed, NEW c \in Calls, MarkUncertain(c)
  PROVE  used' \in UsedRow /\ resv' \in [Calls -> ResvRow]
<1>1. used.uncertain + 1 \in Nat
  BY Counters
<1>2. used \in UsedRow /\ resv \in [Calls -> ResvRow]
  BY DEF Typed, CampaignTyped, CallsTyped
<1>3. [used EXCEPT !.uncertain = @ + 1] \in UsedRow
  BY <1>1, <1>2 DEF UsedRow
<1>4. [resv EXCEPT ![c].st = "uncertain"] \in [Calls -> ResvRow]
  BY <1>2 DEF ResvRow
<1>5. QED
  BY <1>2, <1>3, <1>4 DEF MarkUncertain

\* Settling a call adds what was reported, which is complete, and gives back what
\* was reserved.
LEMMA SettleTypes ==
  ASSUME Typed, NEW c \in Calls, Settle(c)
  PROVE  used' \in UsedRow /\ resv' \in [Calls -> ResvRow] /\ paid' \in [Calls -> PaidRow]
<1>1. used \in UsedRow /\ resv \in [Calls -> ResvRow] /\ paid \in [Calls -> PaidRow]
      /\ answer \in [Calls -> AnswerRow]
  BY DEF Typed, CampaignTyped, CallsTyped
<1>2. CASE ~StillOpen(c)
  BY <1>1, <1>2 DEF Settle
<1>3. CASE StillOpen(c)
  <2>1. PICK i \in Nat, o \in Nat, x \in Nat :
          i = answer[c].input /\ o = answer[c].output /\ x = Known(answer[c].cost)
    <3>1. answer[c].input \in Nat /\ answer[c].output \in Nat
      BY <1>1 DEF Settle, Complete, AnswerRow
    <3>2. answer[c].cost \in Nat \union {None}
      BY <1>1 DEF AnswerRow
    <3>3. Known(answer[c].cost) \in Nat
      BY <3>2 DEF Known, None
    <3>4. QED
      BY <3>1, <3>3
  <2>2. /\ used' = [used EXCEPT
               !.rinput = AtLeast0(@ - resv[c].input),
               !.routput = AtLeast0(@ - resv[c].output),
               !.rcost = AtLeast0(@ - Known(resv[c].cost)),
               !.input = @ + i, !.output = @ + o, !.cost = @ + x]
        /\ resv' = [resv EXCEPT ![c].st = "settled"]
        /\ paid' = [paid EXCEPT ![c] = [input |-> i, output |-> o, cost |-> x]]
    BY <1>3, <2>1 DEF Settle
  <2>3. resv' \in [Calls -> ResvRow] /\ paid' \in [Calls -> PaidRow]
    BY <1>1, <2>2 DEF ResvRow, PaidRow
  <2>4. /\ AtLeast0(used.rinput - resv[c].input) \in Nat
        /\ AtLeast0(used.routput - resv[c].output) \in Nat
        /\ AtLeast0(used.rcost - Known(resv[c].cost)) \in Nat
    <3>1. \A n \in Int : AtLeast0(n) \in Nat
      BY DEF AtLeast0
    <3>2. resv[c].input \in Nat /\ resv[c].output \in Nat /\ Known(resv[c].cost) \in Nat
      BY <1>1 DEF ResvRow, Known, None
    <3>3. /\ used.rinput - resv[c].input \in Int /\ used.routput - resv[c].output \in Int
          /\ used.rcost - Known(resv[c].cost) \in Int
      BY <3>2, Counters
    <3>4. QED
      BY <3>1, <3>3
  <2>5. used.input + i \in Nat /\ used.output + o \in Nat /\ used.cost + x \in Nat
    BY Counters
  <2>6. used' \in UsedRow
    BY <1>1, <2>2, <2>4, <2>5 DEF UsedRow
  <2>7. QED
    BY <2>3, <2>6
<1>4. QED
  BY <1>2, <1>3

\* Booking a call adds natural numbers to the usage of its run.
LEMMA BookBooks ==
  ASSUME Typed, NEW c \in Calls, Book(c)
  PROVE  \E i \in Nat, o \in Nat :
           /\ usage' = AddUsage(call[c].run, i, o)
           /\ answer[c].input # None => i = answer[c].input
           /\ answer[c].output # None => o = answer[c].output
           /\ answer[c].input = None => i = resv[c].input
           /\ answer[c].output = None => o <= resv[c].output
<1>1. /\ answer[c].input \in Nat \union {None} /\ answer[c].output \in Nat \union {None}
      /\ resv[c].input \in Nat /\ resv[c].output \in Nat
  BY DEF Typed, CallsTyped, AnswerRow, ResvRow
<1>2. PICK i \in Booked(answer[c].input, {resv[c].input}),
           o \in Booked(answer[c].output, 1 .. resv[c].output) :
        usage' = AddUsage(call[c].run, i, o)
  BY DEF Book
<1>3. /\ i \in Nat
      /\ answer[c].input # None => i = answer[c].input
      /\ answer[c].input = None => i = resv[c].input
  BY <1>1 DEF Booked
<1>4. /\ o \in Nat
      /\ answer[c].output # None => o = answer[c].output
      /\ answer[c].output = None => o <= resv[c].output
  BY <1>1 DEF Booked
<1>5. QED
  BY <1>2, <1>3, <1>4

\* Every step keeps the types.
LEMMA TypesStep ==
  ASSUME Typed, [Next]_vars
  PROVE  Typed'
<1>0. /\ used \in UsedRow /\ usage \in [Runs -> UsageRow] /\ call \in [Calls -> CallRow]
      /\ resv \in [Calls -> ResvRow] /\ paid \in [Calls -> PaidRow]
      /\ status \in [Runs -> {"running", "ended"}]
      /\ stage \in [Calls -> InProgress \union {"unused", "dead", "closed"}]
      /\ answer \in [Calls -> AnswerRow] /\ MaxRevision \in Nat
  BY BudgetAssumption DEF Typed, CampaignTyped, CallsTyped
<1>1. ASSUME NEW l \in LimitChoices, NEW p \in Pricings, CreateCampaign(l, p) PROVE Typed'
  <2>1. 1 \in 0 .. MaxRevision + 1
    BY <1>0
  <2>2. QED
    BY <1>1, <2>1, AuthorizedTypes DEF CreateCampaign
<1>2. ASSUME NEW l \in LimitChoices, NEW p \in Pricings, Authorize(l, p) PROVE Typed'
  <2>1. revision + 1 \in 0 .. MaxRevision + 1
    BY <1>0, <1>2 DEF Authorize
  <2>2. QED
    BY <1>2, <2>1, AuthorizedTypes DEF Authorize
<1>3. ASSUME NEW r \in Runs, NEW c \in Calls, NEW role \in Roles, NEW prompt \in Prompts,
             NEW room \in Rooms, Ask(r, c, role, prompt, room)
      PROVE  Typed'
  BY <1>3, AskAsks, AskTypes
<1>4. ASSUME UNCHANGED <<revision, limits, rates, history>>, used' \in UsedRow,
             usage' \in [Runs -> UsageRow], status' \in [Runs -> {"running", "ended"}],
             call' \in [Calls -> CallRow], resv' \in [Calls -> ResvRow],
             paid' \in [Calls -> PaidRow],
             stage' \in [Calls -> InProgress \union {"unused", "dead", "closed"}],
             answer' \in [Calls -> AnswerRow]
      PROVE  Typed'
  BY <1>4 DEF Typed, CampaignTyped, CallsTyped, Priced, Capped
<1>5. ASSUME NEW c \in Calls, Handle(c) PROVE Typed'
  <2>1. CASE Respond(c)
    <3>1. PICK a \in Answers(c) : answer' = [answer EXCEPT ![c] = a]
      BY <2>1 DEF Respond
    <3>2. answer' \in [Calls -> AnswerRow]
      BY <1>0, <3>1, AnswersType
    <3>3. stage' \in [Calls -> InProgress \union {"unused", "dead", "closed"}]
      BY <1>0, <2>1 DEF Respond, InProgress
    <3>4. QED
      BY <1>0, <1>4, <2>1, <3>2, <3>3 DEF Respond, campaignVars
  <2>2. CASE Settle(c)
    BY <1>0, <1>4, <2>2, SettleTypes, AccountedTypes DEF Settle
  <2>3. CASE SettleRaises(c)
    BY <1>0, <1>4, <2>3, LeaveTypes DEF SettleRaises, campaignVars
  <2>4. CASE Doubt(c)
    BY <1>0, <1>4, <2>4, MarkTypes, AccountedTypes DEF Doubt
  <2>5. CASE Unaccounted(c)
    BY <1>0, <1>4, <2>5, AccountedTypes DEF Unaccounted, campaignVars
  <2>6. CASE Book(c)
    <3>1. PICK i \in Nat, o \in Nat : usage' = AddUsage(call[c].run, i, o)
      BY <2>6, BookBooks
    <3>2. usage' \in [Runs -> UsageRow]
      <4>1. CASE call[c].run \in Runs
        <5>1. usage[call[c].run].input + i \in Nat /\ usage[call[c].run].output + o \in Nat
          BY <4>1, Counters
        <5>2. QED
          BY <1>0, <3>1, <4>1, <5>1 DEF AddUsage, UsageRow
      <4>2. CASE call[c].run \notin Runs
        BY <1>0, <3>1, <4>2 DEF AddUsage
      <4>3. QED
        BY <4>1, <4>2
    <3>3. call' \in [Calls -> CallRow]
      <4>1. call' = call \/ \E st \in {"success", "failed", "discarded"} :
                              call' = [call EXCEPT ![c].st = st]
        BY <2>6 DEF Book
      <4>2. QED
        BY <1>0, <4>1 DEF CallRow
    <3>4. Leave(c, "closed") \/ Leave(c, "failing")
      BY <2>6 DEF Book
    <3>5. QED
      BY <1>0, <1>4, <2>6, <3>2, <3>3, <3>4, LeaveTypes DEF Book, campaignVars, InProgress
  <2>7. CASE CloseFailed(c)
    <3>1. call' \in [Calls -> CallRow]
      BY <1>0, <2>7 DEF CloseFailed, CallRow
    <3>2. QED
      BY <1>0, <1>4, <2>7, <3>1, LeaveTypes DEF CloseFailed, campaignVars
  <2>8. CASE Die(c)
    BY <1>0, <1>4, <2>8, LeaveTypes DEF Die, campaignVars
  <2>9. CASE FenceReservation(c)
    BY <1>0, <1>4, <2>9, MarkTypes DEF FenceReservation
  <2>10. QED
    BY <1>5, <2>1, <2>2, <2>3, <2>4, <2>5, <2>6, <2>7, <2>8, <2>9 DEF Handle
<1>6. ASSUME NEW r \in Runs, FailRun(r) \/ EndRun(r) PROVE Typed'
  <2>1. status' \in [Runs -> {"running", "ended"}]
    BY <1>0, <1>6 DEF FailRun, EndRun
  <2>2. call' \in [Calls -> CallRow]
    BY <1>0, <1>6 DEF FailRun, EndRun, CallRow
  <2>3. QED
    BY <1>0, <1>4, <1>6, <2>1, <2>2 DEF FailRun, EndRun, campaignVars
<1>7. CASE UNCHANGED vars
  BY <1>0, <1>4, <1>7 DEF vars, campaignVars
<1>8. QED
  BY <1>1, <1>2, <1>3, <1>5, <1>6, <1>7 DEF Next

----------------------------------------------------------------------------
(* What a step does to the ledger: it reserves, settles or marks one call, or *)
(* leaves the accounts alone.                                              *)

\* A call that was not asked has no reservation and no run.
UnusedIsFree ==
  \A c \in Calls : stage[c] = "unused" => resv[c].st = "none" /\ call[c].run = NoRun

SameLimits == UNCHANGED <<revision, limits, rates, history>>

Reserves(c, i, o) ==
  /\ resv[c].st = "none" /\ revision > 0
  /\ Fits(i, o) /\ Charge(i, o)
  /\ resv' = [resv EXCEPT ![c] = [st |-> "open", input |-> i, output |-> o,
                                  cost |-> MaxCost(i, o)]]
  /\ paid' = paid /\ SameLimits

Settles(c, i, o, x) ==
  /\ resv[c].st = "open"
  /\ used.input + i <= limits.input /\ used.output + o <= limits.output
  /\ Capped => used.cost + x <= limits.cost
  /\ used' = [used EXCEPT
       !.rinput = AtLeast0(@ - resv[c].input), !.routput = AtLeast0(@ - resv[c].output),
       !.rcost = AtLeast0(@ - Known(resv[c].cost)),
       !.input = @ + i, !.output = @ + o, !.cost = @ + x]
  /\ resv' = [resv EXCEPT ![c].st = "settled"]
  /\ paid' = [paid EXCEPT ![c] = [input |-> i, output |-> o, cost |-> x]]
  /\ SameLimits

Marks(c) ==
  /\ resv[c].st = "open"
  /\ used' = [used EXCEPT !.uncertain = @ + 1]
  /\ resv' = [resv EXCEPT ![c].st = "uncertain"]
  /\ paid' = paid /\ SameLimits

KeepsAccounts ==
  /\ used' = used /\ paid' = paid
  /\ \A c \in Calls : /\ resv'[c].st = resv[c].st
                      /\ resv[c].st # "none" => resv'[c] = resv[c]

Authorizes ==
  /\ KeepsAccounts
  /\ \E n \in Nat, l \in LimitChoices, p \in Pricings :
       /\ n > revision /\ Authorized(n, l, p)
       /\ revision > 0 => CoversCommitted(l)

\* Every step is of one of these kinds.
LEMMA StepKinds ==
  ASSUME Typed, UnusedIsFree, [Next]_vars
  PROVE  \/ \E c \in Calls, i \in Nat, o \in Nat : Reserves(c, i, o)
         \/ \E c \in Calls, i \in Nat, o \in Nat, x \in Nat : Settles(c, i, o, x)
         \/ \E c \in Calls : Marks(c)
         \/ KeepsAccounts /\ SameLimits
         \/ Authorizes
<1>0. revision \in Nat /\ MaxRevision \in Nat /\ resv \in [Calls -> ResvRow]
  BY BudgetAssumption DEF Typed, CampaignTyped, CallsTyped
<1>1. ASSUME NEW l \in LimitChoices, NEW p \in Pricings, CreateCampaign(l, p) \/ Authorize(l, p)
      PROVE  Authorizes
  <2>1. KeepsAccounts
    BY <1>1 DEF CreateCampaign, Authorize, Authorized, KeepsAccounts
  <2>2. CASE CreateCampaign(l, p)
    <3>1. 1 \in Nat /\ 1 > revision /\ Authorized(1, l, p) /\ ~(revision > 0)
      BY <1>0, <2>2 DEF CreateCampaign
    <3>2. QED
      BY <2>1, <3>1 DEF Authorizes
  <2>3. CASE Authorize(l, p)
    <3>1. revision + 1 \in Nat /\ revision + 1 > revision
      BY <1>0
    <3>2. Authorized(revision + 1, l, p) /\ CoversCommitted(l)
      BY <2>3 DEF Authorize
    <3>3. QED
      BY <2>1, <3>1, <3>2 DEF Authorizes
  <2>4. QED
    BY <1>1, <2>2, <2>3
<1>2. ASSUME NEW r \in Runs, NEW c \in Calls, NEW role \in Roles, NEW prompt \in Prompts,
             NEW room \in Rooms, Ask(r, c, role, prompt, room)
      PROVE  (\E i \in Nat, o \in Nat : Reserves(c, i, o)) \/ (KeepsAccounts /\ SameLimits)
  <2>1. PICK tokens \in Nat \ {0} : Asked(r, c, role, prompt, tokens)
    BY <1>2, AskAsks
  <2>2. prompt \in Nat
    BY BudgetAssumption
  <2>3. resv[c].st = "none"
    BY <2>1 DEF Asked, UnusedIsFree
  <2>4. CASE r \in Funded
    <3>1. Reserves(c, prompt, tokens)
      BY <2>1, <2>3, <2>4 DEF Asked, Reserves, SameLimits
    <3>2. QED
      BY <2>2, <3>1
  <2>5. CASE r \notin Funded
    <3>1. resv' = [resv EXCEPT ![c].input = prompt, ![c].output = tokens]
      BY <2>1, <2>5 DEF Asked
    <3>2. ASSUME NEW d \in Calls
          PROVE  resv'[d].st = resv[d].st /\ (resv[d].st # "none" => resv'[d] = resv[d])
      BY <1>0, <2>3, <3>1 DEF ResvRow
    <3>3. QED
      BY <2>1, <2>5, <3>2 DEF Asked, KeepsAccounts, SameLimits
  <2>6. QED
    BY <2>4, <2>5
<1>3. ASSUME UNCHANGED <<campaignVars, resv, paid>> PROVE KeepsAccounts /\ SameLimits
  BY <1>3 DEF KeepsAccounts, SameLimits, campaignVars
<1>4. ASSUME NEW c \in Calls, MarkUncertain(c), UNCHANGED <<revision, limits, rates, history, paid>>
      PROVE  Marks(c) \/ (KeepsAccounts /\ SameLimits)
  BY <1>4 DEF MarkUncertain, StillOpen, Marks, KeepsAccounts, SameLimits
<1>5. ASSUME NEW c \in Calls, Settle(c)
      PROVE  (\E i \in Nat, o \in Nat, x \in Nat : Settles(c, i, o, x))
             \/ (KeepsAccounts /\ SameLimits)
  <2>1. CASE ~StillOpen(c)
    BY <1>5, <2>1 DEF Settle, KeepsAccounts, SameLimits
  <2>2. CASE StillOpen(c)
    <3>1. /\ answer[c].input \in Nat \union {None} /\ answer[c].output \in Nat \union {None}
          /\ answer[c].cost \in Nat \union {None}
      BY DEF Typed, CallsTyped, AnswerRow
    <3>2. PICK i \in Nat, o \in Nat, x \in Nat :
            i = answer[c].input /\ o = answer[c].output /\ x = Known(answer[c].cost)
      <4>1. answer[c].input \in Nat /\ answer[c].output \in Nat
        BY <1>5, <3>1 DEF Settle, Complete
      <4>2. Known(answer[c].cost) \in Nat
        BY <3>1 DEF Known, None
      <4>3. QED
        BY <4>1, <4>2
    <3>3. Capped => used.cost + x <= limits.cost
      BY <1>5, <2>2, <3>2 DEF Settle, WithinLimits, Known
    <3>4. Settles(c, i, o, x)
      BY <1>5, <2>2, <3>2, <3>3 DEF Settle, WithinLimits, StillOpen, Settles, SameLimits
    <3>5. QED
      BY <3>4
  <2>3. QED
    BY <2>1, <2>2
<1>6. ASSUME NEW c \in Calls, Handle(c)
      PROVE  \/ \E i \in Nat, o \in Nat, x \in Nat : Settles(c, i, o, x)
             \/ Marks(c)
             \/ KeepsAccounts /\ SameLimits
  <2>1. CASE Settle(c)
    BY <1>5, <2>1
  <2>2. CASE Doubt(c) \/ FenceReservation(c)
    BY <1>4, <2>2 DEF Doubt, FenceReservation
  <2>3. CASE Respond(c) \/ SettleRaises(c) \/ Unaccounted(c) \/ Book(c) \/ CloseFailed(c) \/ Die(c)
    BY <1>3, <2>3 DEF Respond, SettleRaises, Unaccounted, Book, CloseFailed, Die
  <2>4. QED
    BY <1>6, <2>1, <2>2, <2>3 DEF Handle
<1>7. ASSUME NEW r \in Runs, FailRun(r) \/ EndRun(r) PROVE KeepsAccounts /\ SameLimits
  BY <1>3, <1>7 DEF FailRun, EndRun
<1>8. CASE UNCHANGED vars
  BY <1>3, <1>8 DEF vars
<1>9. QED
  BY <1>1, <1>2, <1>6, <1>7, <1>8 DEF Next

----------------------------------------------------------------------------
(* The ledger. *)

Doubted == {c \in Held : resv[c].st = "uncertain"}

\* What is summed up are natural numbers, over finite sets of calls.
LEMMA LedgerTypes ==
  ASSUME Typed
  PROVE  /\ ReservedInput \in [Calls -> Nat] /\ ReservedOutput \in [Calls -> Nat]
         /\ ReservedCost \in [Calls -> Nat] /\ PaidInput \in [Calls -> Nat]
         /\ PaidOutput \in [Calls -> Nat] /\ PaidCost \in [Calls -> Nat]
<1>1. /\ resv \in [Calls -> ResvRow] /\ paid \in [Calls -> PaidRow]
  BY DEF Typed, CallsTyped
<1>2. \A c \in Calls : Known(resv[c].cost) \in Nat
  BY <1>1 DEF ResvRow, Known, None
<1>3. QED
  BY <1>1, <1>2 DEF ResvRow, PaidRow, ReservedInput, ReservedOutput, ReservedCost, PaidInput,
                    PaidOutput, PaidCost

\* They still are after a step that keeps the types.
LEMMA LedgerTypesNext ==
  ASSUME Typed'
  PROVE  /\ ReservedInput' \in [Calls -> Nat] /\ ReservedOutput' \in [Calls -> Nat]
         /\ ReservedCost' \in [Calls -> Nat] /\ PaidInput' \in [Calls -> Nat]
         /\ PaidOutput' \in [Calls -> Nat] /\ PaidCost' \in [Calls -> Nat]
<1>1. /\ resv' \in [Calls -> ResvRow] /\ paid' \in [Calls -> PaidRow]
  BY DEF Typed, CallsTyped
<1>2. \A c \in Calls : Known(resv'[c].cost) \in Nat
  BY <1>1 DEF ResvRow, Known, None
<1>3. QED
  BY <1>1, <1>2 DEF ResvRow, PaidRow, ReservedInput, ReservedOutput, ReservedCost, PaidInput,
                    PaidOutput, PaidCost

\* Sums over sets of calls agree when the values do.
LEMMA SameTotal ==
  ASSUME NEW f \in [Calls -> Nat], NEW g \in [Calls -> Nat], NEW T \in SUBSET Calls,
         \A x \in T : f[x] = g[x]
  PROVE  Total(f, T) = Total(g, T)
<1>1. f \in [Calls -> Int] /\ g \in [Calls -> Int] /\ IsFiniteSet(Calls)
  BY FiniteAssumption
<1>2. QED
  BY <1>1, TotalIsOfValues

\* A call that joins a set adds its new value to the sum.
LEMMA JoinedTotal ==
  ASSUME NEW f \in [Calls -> Nat], NEW g \in [Calls -> Nat], NEW T \in SUBSET Calls,
         NEW c \in Calls \ T, \A x \in T : f[x] = g[x]
  PROVE  Total(g, T \cup {c}) = Total(f, T) + g[c]
<1>1. g \in [Calls -> Int] /\ IsFiniteSet(Calls)
  BY FiniteAssumption
<1>2. Total(f, T) = Total(g, T)
  BY SameTotal
<1>3. Total(g, T \cup {c}) = g[c] + Total(g, T)
  BY <1>1, TotalGrows
<1>4. Total(g, T) \in Nat /\ g[c] \in Nat
  BY <1>1, TotalIsNatural
<1>5. QED
  BY <1>2, <1>3, <1>4

\* A call that leaves a set takes its value out of the sum.
LEMMA LeftTotal ==
  ASSUME NEW f \in [Calls -> Nat], NEW T \in SUBSET Calls, NEW c \in T
  PROVE  /\ Total(f, T \ {c}) = Total(f, T) - f[c]
         /\ Total(f, T) \in Nat /\ f[c] <= Total(f, T)
<1>1. f \in [Calls -> Int] /\ IsFiniteSet(Calls)
  BY FiniteAssumption
<1>2. Total(f, T) = f[c] + Total(f, T \ {c})
  BY <1>1, TotalSplits
<1>3. T \ {c} \in SUBSET Calls
  OBVIOUS
<1>4. Total(f, T \ {c}) \in Nat
  BY <1>1, <1>3, TotalIsNatural
<1>5. f[c] \in Nat
  OBVIOUS
<1>6. Total(f, T) \in Nat /\ f[c] <= Total(f, T)
  BY <1>1, TotalIsNatural
<1>7. QED
  BY <1>2, <1>4, <1>5, <1>6

\* Sets of calls are finite.
LEMMA CallsAreFinite ==
  /\ IsFiniteSet(Settled) /\ IsFiniteSet(Held) /\ IsFiniteSet(Settled \cup Held)
  /\ IsFiniteSet(Doubted)
<1>1. /\ Settled \in SUBSET Calls /\ Held \in SUBSET Calls /\ Settled \cup Held \in SUBSET Calls
      /\ Doubted \in SUBSET Calls
  BY DEF Settled, Held, Doubted
<1>2. QED
  BY <1>1, FiniteAssumption, FS_Subset

\* A reservation is charged with what it reserves.
LEMMA ReservesBalances ==
  ASSUME Typed, Typed', LedgerBalances, NEW c \in Calls, NEW i \in Nat, NEW o \in Nat,
         Reserves(c, i, o)
  PROVE  LedgerBalances'
<1>1. resv \in [Calls -> ResvRow] /\ used \in UsedRow
  BY DEF Typed, CampaignTyped, CallsTyped
<1>2. PICK m : m = MaxCost(i, o) /\ Known(m) \in Nat
  BY MaxCostType DEF Known, None
<1>3. resv' = [resv EXCEPT ![c] = [st |-> "open", input |-> i, output |-> o, cost |-> m]]
  BY <1>2 DEF Reserves
<1>4. /\ Settled' = Settled /\ Held' = Held \cup {c} /\ Doubted' = Doubted
      /\ c \in Calls \ Held /\ c \notin Settled
  BY <1>1, <1>3 DEF Reserves, Settled, Held, Doubted
<1>5. /\ \A d \in Held : /\ ReservedInput[d] = ReservedInput'[d]
                         /\ ReservedOutput[d] = ReservedOutput'[d]
                         /\ ReservedCost[d] = ReservedCost'[d]
      /\ ReservedInput'[c] = i /\ ReservedOutput'[c] = o /\ ReservedCost'[c] = Known(m)
  BY <1>1, <1>3, <1>4 DEF ReservedInput, ReservedOutput, ReservedCost, Held
<1>6. PaidInput' = PaidInput /\ PaidOutput' = PaidOutput /\ PaidCost' = PaidCost
  BY DEF Reserves, PaidInput, PaidOutput, PaidCost
<1>7. Held \in SUBSET Calls
  BY DEF Held
<1>8. /\ Total(ReservedInput', Held') = Total(ReservedInput, Held) + i
      /\ Total(ReservedOutput', Held') = Total(ReservedOutput, Held) + o
      /\ Total(ReservedCost', Held') = Total(ReservedCost, Held) + Known(m)
  <2>1. /\ Total(ReservedInput', Held \cup {c}) = Total(ReservedInput, Held) + ReservedInput'[c]
        /\ Total(ReservedOutput', Held \cup {c}) = Total(ReservedOutput, Held) + ReservedOutput'[c]
        /\ Total(ReservedCost', Held \cup {c}) = Total(ReservedCost, Held) + ReservedCost'[c]
    BY <1>4, <1>5, <1>7, LedgerTypes, LedgerTypesNext, JoinedTotal
  <2>2. QED
    BY <1>4, <1>5, <2>1
<1>9. used' = [used EXCEPT !.calls = @ + 1, !.rinput = @ + i, !.routput = @ + o,
                           !.rcost = @ + Known(m)]
  BY <1>2 DEF Reserves, Charge
<1>10. /\ used'.calls = used.calls + 1 /\ used'.rinput = used.rinput + i
       /\ used'.routput = used.routput + o /\ used'.rcost = used.rcost + Known(m)
       /\ used'.uncertain = used.uncertain /\ used'.input = used.input
       /\ used'.output = used.output /\ used'.cost = used.cost
  BY <1>1, <1>9 DEF UsedRow
<1>11. Cardinality((Settled \cup Held)') = Cardinality(Settled \cup Held) + 1
  <2>1. (Settled \cup Held)' = (Settled \cup Held) \cup {c} /\ c \notin Settled \cup Held
    BY <1>4
  <2>2. QED
    BY <2>1, CallsAreFinite, FS_AddElement
<1>12. QED
  BY <1>4, <1>6, <1>8, <1>10, <1>11 DEF LedgerBalances, Doubted

\* A settlement replaces what was reserved by what was paid.
LEMMA SettlesBalances ==
  ASSUME Typed, Typed', LedgerBalances, NEW c \in Calls, NEW i \in Nat, NEW o \in Nat,
         NEW x \in Nat, Settles(c, i, o, x)
  PROVE  /\ LedgerBalances'
         /\ used'.rinput = used.rinput - resv[c].input
         /\ used'.routput = used.routput - resv[c].output
         /\ used'.rcost = used.rcost - Known(resv[c].cost)
<1>1. resv \in [Calls -> ResvRow] /\ used \in UsedRow /\ paid \in [Calls -> PaidRow]
  BY DEF Typed, CampaignTyped, CallsTyped
<1>2. resv' = [resv EXCEPT ![c].st = "settled"] /\ resv[c].st = "open"
      /\ paid' = [paid EXCEPT ![c] = [input |-> i, output |-> o, cost |-> x]]
  BY DEF Settles
<1>3. /\ Settled' = Settled \cup {c} /\ Held' = Held \ {c} /\ Doubted' = Doubted
      /\ c \in Held /\ c \in Calls \ Settled
  BY <1>1, <1>2 DEF ResvRow, Settled, Held, Doubted
<1>4. ReservedInput' = ReservedInput /\ ReservedOutput' = ReservedOutput
      /\ ReservedCost' = ReservedCost
  BY <1>1, <1>2 DEF ResvRow, ReservedInput, ReservedOutput, ReservedCost
<1>5. /\ \A d \in Settled : /\ PaidInput[d] = PaidInput'[d] /\ PaidOutput[d] = PaidOutput'[d]
                            /\ PaidCost[d] = PaidCost'[d]
      /\ PaidInput'[c] = i /\ PaidOutput'[c] = o /\ PaidCost'[c] = x
  BY <1>1, <1>2, <1>3 DEF PaidInput, PaidOutput, PaidCost, Settled
<1>6. Held \in SUBSET Calls /\ Settled \in SUBSET Calls
  BY DEF Held, Settled
<1>7. /\ Total(PaidInput', Settled') = Total(PaidInput, Settled) + i
      /\ Total(PaidOutput', Settled') = Total(PaidOutput, Settled) + o
      /\ Total(PaidCost', Settled') = Total(PaidCost, Settled) + x
  <2>1. /\ Total(PaidInput', Settled \cup {c}) = Total(PaidInput, Settled) + PaidInput'[c]
        /\ Total(PaidOutput', Settled \cup {c}) = Total(PaidOutput, Settled) + PaidOutput'[c]
        /\ Total(PaidCost', Settled \cup {c}) = Total(PaidCost, Settled) + PaidCost'[c]
    BY <1>3, <1>5, <1>6, LedgerTypes, LedgerTypesNext, JoinedTotal
  <2>2. QED
    BY <1>3, <1>5, <2>1
<1>8. PICK ri \in Nat, ro \in Nat, rc \in Nat :
        /\ ri = resv[c].input /\ ro = resv[c].output /\ rc = Known(resv[c].cost)
        /\ ri = ReservedInput[c] /\ ro = ReservedOutput[c] /\ rc = ReservedCost[c]
  BY LedgerTypes DEF ReservedInput, ReservedOutput, ReservedCost
<1>9. /\ Total(ReservedInput', Held') = used.rinput - ri
      /\ Total(ReservedOutput', Held') = used.routput - ro
      /\ Total(ReservedCost', Held') = used.rcost - rc
      /\ ri <= used.rinput /\ ro <= used.routput /\ rc <= used.rcost
  <2>1. /\ Total(ReservedInput, Held \ {c}) = Total(ReservedInput, Held) - ReservedInput[c]
        /\ Total(ReservedOutput, Held \ {c}) = Total(ReservedOutput, Held) - ReservedOutput[c]
        /\ Total(ReservedCost, Held \ {c}) = Total(ReservedCost, Held) - ReservedCost[c]
        /\ ReservedInput[c] <= Total(ReservedInput, Held)
        /\ ReservedOutput[c] <= Total(ReservedOutput, Held)
        /\ ReservedCost[c] <= Total(ReservedCost, Held)
    BY <1>3, <1>6, LedgerTypes, LeftTotal
  <2>2. /\ used.rinput = Total(ReservedInput, Held) /\ used.routput = Total(ReservedOutput, Held)
        /\ used.rcost = Total(ReservedCost, Held)
    BY DEF LedgerBalances
  <2>3. QED
    BY <1>3, <1>4, <1>8, <2>1, <2>2
<1>10. /\ AtLeast0(used.rinput - ri) = used.rinput - ri
       /\ AtLeast0(used.routput - ro) = used.routput - ro
       /\ AtLeast0(used.rcost - rc) = used.rcost - rc
  BY <1>9, Counters DEF AtLeast0
<1>11. used' = [used EXCEPT
         !.rinput = AtLeast0(@ - ri), !.routput = AtLeast0(@ - ro), !.rcost = AtLeast0(@ - rc),
         !.input = @ + i, !.output = @ + o, !.cost = @ + x]
  BY <1>8 DEF Settles
<1>12. /\ used'.rinput = used.rinput - ri /\ used'.routput = used.routput - ro
       /\ used'.rcost = used.rcost - rc /\ used'.input = used.input + i
       /\ used'.output = used.output + o /\ used'.cost = used.cost + x
       /\ used'.calls = used.calls /\ used'.uncertain = used.uncertain
  BY <1>1, <1>10, <1>11 DEF UsedRow
<1>13. (Settled \cup Held)' = Settled \cup Held
  BY <1>3
<1>14. LedgerBalances'
  BY <1>3, <1>7, <1>9, <1>12, <1>13 DEF LedgerBalances, Doubted
<1>15. QED
  BY <1>8, <1>12, <1>14

\* Marking a reservation leaves it charged.
LEMMA MarksBalances ==
  ASSUME Typed, LedgerBalances, NEW c \in Calls, Marks(c)
  PROVE  LedgerBalances'
<1>1. resv \in [Calls -> ResvRow] /\ used \in UsedRow
  BY DEF Typed, CampaignTyped, CallsTyped
<1>2. resv' = [resv EXCEPT ![c].st = "uncertain"] /\ resv[c].st = "open"
  BY DEF Marks
<1>3. Settled' = Settled /\ Held' = Held /\ Doubted' = Doubted \cup {c} /\ c \notin Doubted
  BY <1>1, <1>2 DEF ResvRow, Settled, Held, Doubted
<1>4. /\ ReservedInput' = ReservedInput /\ ReservedOutput' = ReservedOutput
      /\ ReservedCost' = ReservedCost
  BY <1>1, <1>2 DEF ResvRow, ReservedInput, ReservedOutput, ReservedCost
<1>5. PaidInput' = PaidInput /\ PaidOutput' = PaidOutput /\ PaidCost' = PaidCost
  BY DEF Marks, PaidInput, PaidOutput, PaidCost
<1>6. /\ used'.uncertain = used.uncertain + 1 /\ used'.calls = used.calls
      /\ used'.rinput = used.rinput /\ used'.routput = used.routput
      /\ used'.rcost = used.rcost /\ used'.input = used.input
      /\ used'.output = used.output /\ used'.cost = used.cost
  BY <1>1 DEF Marks, UsedRow
<1>7. Cardinality(Doubted') = Cardinality(Doubted) + 1
  BY <1>3, CallsAreFinite, FS_AddElement
<1>8. QED
  BY <1>3, <1>4, <1>5, <1>6, <1>7 DEF LedgerBalances, Doubted

\* Where the accounts are kept they stay balanced.
LEMMA KeepsBalances ==
  ASSUME Typed, Typed', LedgerBalances, KeepsAccounts
  PROVE  LedgerBalances'
<1>1. Settled' = Settled /\ Held' = Held /\ Doubted' = Doubted
  BY DEF KeepsAccounts, Settled, Held, Doubted
<1>2. \A d \in Held : /\ ReservedInput[d] = ReservedInput'[d]
                      /\ ReservedOutput[d] = ReservedOutput'[d]
                      /\ ReservedCost[d] = ReservedCost'[d]
  BY DEF KeepsAccounts, ReservedInput, ReservedOutput, ReservedCost, Held
<1>3. PaidInput' = PaidInput /\ PaidOutput' = PaidOutput /\ PaidCost' = PaidCost
  BY DEF KeepsAccounts, PaidInput, PaidOutput, PaidCost
<1>4. Held \in SUBSET Calls
  BY DEF Held
<1>5. /\ Total(ReservedInput', Held) = Total(ReservedInput, Held)
      /\ Total(ReservedOutput', Held) = Total(ReservedOutput, Held)
      /\ Total(ReservedCost', Held) = Total(ReservedCost, Held)
  <2>1. /\ Total(ReservedInput, Held) = Total(ReservedInput', Held)
        /\ Total(ReservedOutput, Held) = Total(ReservedOutput', Held)
        /\ Total(ReservedCost, Held) = Total(ReservedCost', Held)
    BY <1>2, <1>4, LedgerTypes, LedgerTypesNext, SameTotal
  <2>2. QED
    BY <2>1
<1>6. used' = used
  BY DEF KeepsAccounts
<1>7. QED
  BY <1>1, <1>3, <1>5, <1>6 DEF LedgerBalances, Doubted

----------------------------------------------------------------------------
(* The limits. *)

\* A campaign that was not created has used nothing, and the revisions on record
\* are no younger than the campaign's.
Recorded ==
  /\ revision = 0 => /\ used.calls = 0 /\ used.input = 0 /\ used.output = 0 /\ used.cost = 0
                     /\ used.rinput = 0 /\ used.routput = 0 /\ used.rcost = 0
                     /\ Held = {}
  /\ \A h \in history : h.revision <= revision

\* The conditions of CommittedWithinLimits about the providers.
WithinInput   == \A c \in Settled : paid[c].input <= resv[c].input
WithinOutput  == \A c \in Settled : paid[c].output <= resv[c].output
WithinCost    == \A c \in Settled : paid[c].cost <= resv[c].cost
AllPriced     == \A c \in Settled \union Held : resv[c].cost # None

Spent ==
  /\ used.calls <= limits.calls /\ used.input <= limits.input /\ used.output <= limits.output
  /\ Capped => used.cost <= limits.cost
Committed ==
  /\ WithinInput => used.input + used.rinput <= limits.input
  /\ WithinOutput => used.output + used.routput <= limits.output
  /\ Capped /\ AllPriced /\ WithinCost => used.cost + used.rcost <= limits.cost
OnRecord ==
  \A h \in history :
    /\ h.used.calls <= h.limits.calls
    /\ h.used.input + h.used.rinput <= h.limits.input
    /\ h.revision = revision => h.limits = limits

\* These are the parts of CommittedWithinLimits.
LEMMA LimitsHaveParts == CommittedWithinLimits <=> Spent /\ Committed /\ OnRecord
BY DEF CommittedWithinLimits, Spent, Committed, OnRecord, WithinInput, WithinOutput, WithinCost,
       AllPriced

\* A reservation is admitted only if everything reserved so far fits as well.
LEMMA ReservesWithin ==
  ASSUME Typed, Spent, NEW c \in Calls, NEW i \in Nat, NEW o \in Nat, Reserves(c, i, o)
  PROVE  Spent' /\ Committed'
<1>1. resv \in [Calls -> ResvRow] /\ used \in UsedRow /\ limits \in LimitsRow
  BY DEF Typed, CampaignTyped, CallsTyped
<1>2. PICK m \in Nat \union {None} :
        /\ m = MaxCost(i, o)
        /\ Capped => m \in Nat
  BY MaxCostType
<1>3. used' = [used EXCEPT !.calls = @ + 1, !.rinput = @ + i, !.routput = @ + o,
                           !.rcost = @ + Known(m)]
  BY <1>2 DEF Reserves, Charge
<1>4. /\ used'.calls = used.calls + 1 /\ used'.rinput = used.rinput + i
      /\ used'.routput = used.routput + o /\ used'.rcost = used.rcost + Known(m)
      /\ used'.input = used.input /\ used'.output = used.output /\ used'.cost = used.cost
  BY <1>1, <1>3 DEF UsedRow
<1>5. limits' = limits /\ (Capped' <=> Capped)
  BY DEF Reserves, SameLimits, Capped
<1>6. /\ used.calls + 1 <= limits.calls
      /\ used.input + used.rinput + i <= limits.input
      /\ used.output + used.routput + o <= limits.output
      /\ Capped => used.cost + used.rcost + m <= limits.cost
  BY <1>2 DEF Reserves, Fits
<1>7. Spent'
  BY <1>4, <1>5, <1>6 DEF Spent
<1>8. /\ used'.input + used'.rinput <= limits'.input
      /\ used'.output + used'.routput <= limits'.output
  <2>1. limits.input \in Nat /\ limits.output \in Nat
    BY <1>1 DEF LimitsRow
  <2>2. QED
    BY <1>4, <1>5, <1>6, <2>1, Counters
<1>9. Capped' => used'.cost + used'.rcost <= limits'.cost
  <2>1. SUFFICES ASSUME Capped PROVE used'.cost + used'.rcost <= limits'.cost
    BY <1>5
  <2>2. m \in Nat /\ Known(m) = m /\ limits.cost \in Nat
    BY <1>1, <1>2, <2>1 DEF Known, None, Capped, LimitsRow
  <2>3. used.cost + used.rcost + m <= limits.cost
    BY <1>6, <2>1
  <2>4. used'.cost + used'.rcost = used.cost + used.rcost + m
    BY <1>4, <2>2, Counters
  <2>5. QED
    BY <1>5, <2>3, <2>4
<1>10. QED
  BY <1>7, <1>8, <1>9 DEF Committed

\* A settlement within its reservation commits no more than before.
LEMMA SettlesWithin ==
  ASSUME Typed, Typed', LedgerBalances, Spent, Committed, NEW c \in Calls, NEW i \in Nat,
         NEW o \in Nat, NEW x \in Nat, Settles(c, i, o, x)
  PROVE  Spent' /\ Committed'
<1>1. resv \in [Calls -> ResvRow] /\ used \in UsedRow /\ limits \in LimitsRow
      /\ paid \in [Calls -> PaidRow]
  BY DEF Typed, CampaignTyped, CallsTyped
<1>2. /\ used'.rinput = used.rinput - resv[c].input
      /\ used'.routput = used.routput - resv[c].output
      /\ used'.rcost = used.rcost - Known(resv[c].cost)
  BY SettlesBalances
<1>3. /\ used'.input = used.input + i /\ used'.output = used.output + o
      /\ used'.cost = used.cost + x /\ used'.calls = used.calls
  BY <1>1 DEF Settles, UsedRow
<1>4. limits' = limits /\ (Capped' <=> Capped)
  BY DEF Settles, SameLimits, Capped
<1>5. Spent'
  BY <1>3, <1>4 DEF Settles, Spent
<1>6. resv' = [resv EXCEPT ![c].st = "settled"] /\ resv[c].st = "open"
      /\ paid' = [paid EXCEPT ![c] = [input |-> i, output |-> o, cost |-> x]]
  BY DEF Settles
<1>7. Settled' = Settled \cup {c} /\ (Settled \cup Held)' = Settled \cup Held /\ c \in Held
      /\ c \notin Settled
  BY <1>1, <1>6 DEF ResvRow, Settled, Held
<1>8. \A d \in Calls : /\ resv'[d].input = resv[d].input /\ resv'[d].output = resv[d].output
                       /\ resv'[d].cost = resv[d].cost
                       /\ d # c => paid'[d] = paid[d]
  BY <1>1, <1>6 DEF ResvRow
<1>9. paid'[c].input = i /\ paid'[c].output = o /\ paid'[c].cost = x
  BY <1>1, <1>6
<1>10. /\ WithinInput' => WithinInput /\ i <= resv[c].input
       /\ WithinOutput' => WithinOutput /\ o <= resv[c].output
       /\ WithinCost' => WithinCost /\ x <= resv[c].cost
       /\ AllPriced' => AllPriced /\ resv[c].cost # None
  <2>1. \A d \in Settled : d \in Calls /\ d # c /\ d \in Settled'
    BY <1>7 DEF Settled
  <2>2. c \in Settled' /\ c \in (Settled \cup Held)'
    BY <1>7
  <2>3. \A d \in (Settled \cup Held) : d \in Calls /\ d \in (Settled \cup Held)'
    BY <1>7 DEF Settled, Held
  <2>4. WithinInput' => WithinInput /\ i <= resv[c].input
    BY <1>8, <1>9, <2>1, <2>2 DEF WithinInput
  <2>5. WithinOutput' => WithinOutput /\ o <= resv[c].output
    BY <1>8, <1>9, <2>1, <2>2 DEF WithinOutput
  <2>6. WithinCost' => WithinCost /\ x <= resv[c].cost
    BY <1>8, <1>9, <2>1, <2>2 DEF WithinCost
  <2>7. AllPriced' => AllPriced /\ resv[c].cost # None
    BY <1>8, <2>2, <2>3 DEF AllPriced
  <2>8. QED
    BY <2>4, <2>5, <2>6, <2>7
<1>11. resv[c].input \in Nat /\ resv[c].output \in Nat /\ limits.input \in Nat
       /\ limits.output \in Nat
  BY <1>1 DEF ResvRow, LimitsRow
<1>12. WithinInput' => used'.input + used'.rinput <= limits'.input
  <2>1. SUFFICES ASSUME WithinInput' PROVE used'.input + used'.rinput <= limits'.input
    OBVIOUS
  <2>2. i <= resv[c].input /\ used.input + used.rinput <= limits.input
    BY <1>10, <2>1 DEF Committed
  <2>3. QED
    BY <1>2, <1>3, <1>4, <1>11, <2>2, Counters
<1>13. WithinOutput' => used'.output + used'.routput <= limits'.output
  <2>1. SUFFICES ASSUME WithinOutput' PROVE used'.output + used'.routput <= limits'.output
    OBVIOUS
  <2>2. o <= resv[c].output /\ used.output + used.routput <= limits.output
    BY <1>10, <2>1 DEF Committed
  <2>3. QED
    BY <1>2, <1>3, <1>4, <1>11, <2>2, Counters
<1>14. Capped' /\ AllPriced' /\ WithinCost' => used'.cost + used'.rcost <= limits'.cost
  <2>1. SUFFICES ASSUME Capped', AllPriced', WithinCost'
                 PROVE  used'.cost + used'.rcost <= limits'.cost
    OBVIOUS
  <2>2. /\ x <= resv[c].cost /\ used.cost + used.rcost <= limits.cost /\ resv[c].cost # None
        /\ Capped
    BY <1>4, <1>10, <2>1 DEF Committed
  <2>3. resv[c].cost \in Nat /\ Known(resv[c].cost) = resv[c].cost /\ limits.cost \in Nat
    BY <1>1, <2>2 DEF ResvRow, LimitsRow, Known, Capped
  <2>4. used'.rcost = used.rcost - resv[c].cost
    BY <1>2, <2>3
  <2>5. QED
    BY <1>3, <1>4, <2>2, <2>3, <2>4, Counters
<1>15. QED
  BY <1>5, <1>12, <1>13, <1>14 DEF Committed

\* Where counters and limits stay, so does what they keep.
LEMMA SameWithin ==
  ASSUME Spent, Committed, SameLimits,
         used'.calls = used.calls, used'.input = used.input, used'.output = used.output,
         used'.cost = used.cost, used'.rinput = used.rinput, used'.routput = used.routput,
         used'.rcost = used.rcost, Settled' = Settled, Held' = Held, paid' = paid,
         \A d \in Settled \cup Held : /\ resv'[d].input = resv[d].input
                                      /\ resv'[d].output = resv[d].output
                                      /\ resv'[d].cost = resv[d].cost
  PROVE  Spent' /\ Committed'
<1>1. limits' = limits /\ (Capped' <=> Capped)
  BY DEF SameLimits, Capped
<1>2. WithinInput' => WithinInput
  BY DEF WithinInput
<1>3. WithinOutput' => WithinOutput
  BY DEF WithinOutput
<1>4. WithinCost' => WithinCost
  BY DEF WithinCost
<1>5. AllPriced' => AllPriced
  BY DEF AllPriced
<1>6. QED
  BY <1>1, <1>2, <1>3, <1>4, <1>5 DEF Spent, Committed

\* An authorisation takes nothing back that has been used or reserved.
LEMMA AuthorizesWithin ==
  ASSUME Typed, Recorded, OnRecord, Authorizes
  PROVE  Spent' /\ Committed' /\ OnRecord' /\ Recorded'
<1>1. PICK n \in Nat, l \in LimitChoices, p \in Pricings :
        /\ n > revision /\ Authorized(n, l, p)
        /\ revision > 0 => CoversCommitted(l)
  BY DEF Authorizes
<1>2. used' = used /\ limits' = l /\ revision' = n
      /\ history' = history \union {[revision |-> n, limits |-> l, used |-> used]}
  BY <1>1 DEF Authorized
<1>3. revision \in Nat /\ MaxRevision \in Nat /\ history \subseteq HistoryRow
  BY BudgetAssumption DEF Typed, CampaignTyped
<1>4. l.calls \in Nat /\ l.input \in Nat /\ l.output \in Nat /\ l.cost \in Nat \union {None}
  BY BudgetAssumption
<1>5. /\ used.calls <= l.calls /\ used.input + used.rinput <= l.input
      /\ used.output + used.routput <= l.output
      /\ l.cost # None => used.cost + used.rcost <= l.cost
  <2>1. CASE revision > 0
    BY <1>1, <1>4, <2>1, Counters DEF CoversCommitted
  <2>2. CASE revision = 0
    <3>1. /\ used.calls = 0 /\ used.input = 0 /\ used.output = 0 /\ used.cost = 0
          /\ used.rinput = 0 /\ used.routput = 0 /\ used.rcost = 0
      BY <2>2 DEF Recorded
    <3>2. QED
      BY <1>4, <3>1
  <2>3. QED
    BY <1>3, <2>1, <2>2
<1>6. Spent'
  <2>1. used.input <= l.input /\ used.output <= l.output
    BY <1>4, <1>5, Counters
  <2>2. Capped' => used.cost <= l.cost
    BY <1>2, <1>4, <1>5, Counters DEF Capped
  <2>3. QED
    BY <1>2, <1>5, <2>1, <2>2 DEF Spent
<1>7. Committed'
  BY <1>2, <1>5 DEF Committed, Capped
<1>8. OnRecord'
  <2>1. SUFFICES ASSUME NEW h \in history'
                 PROVE  /\ h.used.calls <= h.limits.calls
                        /\ h.used.input + h.used.rinput <= h.limits.input
                        /\ h.revision = revision' => h.limits = limits'
    BY DEF OnRecord
  <2>2. CASE h \in history
    <3>1. h.revision \in Nat /\ h.revision <= revision
      BY <1>3, <2>2 DEF Recorded, HistoryRow
    <3>2. h.revision # n
      BY <1>1, <1>3, <3>1
    <3>3. QED
      BY <1>2, <2>2, <3>2 DEF OnRecord
  <2>3. CASE h = [revision |-> n, limits |-> l, used |-> used]
    BY <1>2, <1>5, <2>3
  <2>4. QED
    BY <1>2, <2>2, <2>3
<1>9. Recorded'
  <2>1. revision' # 0
    BY <1>1, <1>2, <1>3
  <2>2. ASSUME NEW h \in history' PROVE h.revision <= n
    <3>1. CASE h \in history
      <4>1. h.revision \in Nat /\ h.revision <= revision
        BY <1>3, <3>1 DEF Recorded, HistoryRow
      <4>2. QED
        BY <1>1, <1>3, <4>1
    <3>2. CASE h = [revision |-> n, limits |-> l, used |-> used]
      BY <3>2
    <3>3. QED
      BY <1>2, <3>1, <3>2
  <2>3. QED
    BY <1>2, <2>1, <2>2 DEF Recorded
<1>10. QED
  BY <1>6, <1>7, <1>8, <1>9

\* Every step keeps to the limits.
LEMMA LimitsStep ==
  ASSUME Typed, Typed', UnusedIsFree, LedgerBalances, Recorded, CommittedWithinLimits,
         [Next]_vars
  PROVE  Recorded' /\ CommittedWithinLimits'
<1>1. Spent /\ Committed /\ OnRecord
  BY LimitsHaveParts
<1>2. SUFFICES Recorded' /\ Spent' /\ Committed' /\ OnRecord'
  BY DEF CommittedWithinLimits, Spent, Committed, OnRecord, WithinInput, WithinOutput, WithinCost,
         AllPriced
<1>3. resv \in [Calls -> ResvRow] /\ used \in UsedRow
  BY DEF Typed, CampaignTyped, CallsTyped
<1>4. ASSUME SameLimits PROVE OnRecord'
  BY <1>1, <1>4 DEF SameLimits, OnRecord
<1>5. ASSUME SameLimits, revision # 0 PROVE Recorded'
  BY <1>5 DEF SameLimits, Recorded
<1>6. ASSUME NEW c \in Calls, resv[c].st = "open" PROVE revision # 0
  BY <1>6 DEF Recorded, Held
<1>7. ASSUME NEW c \in Calls, NEW i \in Nat, NEW o \in Nat, Reserves(c, i, o)
      PROVE  Recorded' /\ Spent' /\ Committed' /\ OnRecord'
  <2>1. SameLimits /\ revision # 0
    BY <1>7 DEF Reserves
  <2>2. QED
    BY <1>1, <1>4, <1>5, <1>7, <2>1, ReservesWithin
<1>8. ASSUME NEW c \in Calls, NEW i \in Nat, NEW o \in Nat, NEW x \in Nat, Settles(c, i, o, x)
      PROVE  Recorded' /\ Spent' /\ Committed' /\ OnRecord'
  <2>1. SameLimits /\ revision # 0
    BY <1>6, <1>8 DEF Settles
  <2>2. QED
    BY <1>1, <1>4, <1>5, <1>8, <2>1, SettlesWithin
<1>9. ASSUME NEW c \in Calls, Marks(c) PROVE Recorded' /\ Spent' /\ Committed' /\ OnRecord'
  <2>1. SameLimits /\ revision # 0
    BY <1>6, <1>9 DEF Marks
  <2>2. /\ used'.calls = used.calls /\ used'.input = used.input /\ used'.output = used.output
        /\ used'.cost = used.cost /\ used'.rinput = used.rinput
        /\ used'.routput = used.routput /\ used'.rcost = used.rcost
    BY <1>3, <1>9 DEF Marks, UsedRow
  <2>3. /\ \A d \in Calls : /\ resv'[d].input = resv[d].input /\ resv'[d].output = resv[d].output
                            /\ resv'[d].cost = resv[d].cost
        /\ Settled' = Settled /\ Held' = Held
    BY <1>3, <1>9 DEF Marks, ResvRow, Settled, Held
  <2>4. \A d \in Settled \cup Held : d \in Calls
    BY DEF Settled, Held
  <2>5. paid' = paid
    BY <1>9 DEF Marks
  <2>6. Spent' /\ Committed'
    BY <1>1, <2>1, <2>2, <2>3, <2>4, <2>5, SameWithin
  <2>7. QED
    BY <1>4, <1>5, <2>1, <2>6
<1>10. ASSUME KeepsAccounts
       PROVE  /\ Settled' = Settled /\ Held' = Held
              /\ \A d \in Settled \cup Held : resv'[d] = resv[d]
  BY <1>10 DEF KeepsAccounts, Settled, Held
<1>11. ASSUME KeepsAccounts, SameLimits PROVE Recorded' /\ Spent' /\ Committed' /\ OnRecord'
  <2>1. used' = used /\ paid' = paid
    BY <1>11 DEF KeepsAccounts
  <2>2. Spent' /\ Committed'
    BY <1>1, <1>10, <1>11, <2>1, SameWithin
  <2>3. Recorded'
    BY <1>10, <1>11, <2>1 DEF Recorded, SameLimits
  <2>4. QED
    BY <1>4, <1>11, <2>2, <2>3
<1>12. ASSUME Authorizes PROVE Recorded' /\ Spent' /\ Committed' /\ OnRecord'
  BY <1>1, <1>12, AuthorizesWithin
<1>13. QED
  BY <1>7, <1>8, <1>9, <1>11, <1>12, StepKinds

\* Every step balances the ledger.
LEMMA LedgerStep ==
  ASSUME Typed, Typed', UnusedIsFree, LedgerBalances, [Next]_vars
  PROVE  LedgerBalances'
<1>1. Authorizes => KeepsAccounts
  BY DEF Authorizes
<1>2. QED
  BY <1>1, StepKinds, ReservesBalances, SettlesBalances, MarksBalances, KeepsBalances

----------------------------------------------------------------------------
(* The run's usage and the campaign's. *)

\* A settled call was answered, and what was paid for it is what the executor is
\* about to book.
SettledWasAnswered ==
  \A c \in Settled :
    /\ stage[c] \in {"accounted", "failing", "closed", "dead"}
    /\ stage[c] = "accounted" => /\ answer[c].input = paid[c].input
                                 /\ answer[c].output = paid[c].output

Alive(r)   == \A c \in CallsOf(r) : stage[c] # "dead"
Charged(r) == {c \in CallsOf(r) \cap Settled : stage[c] # "accounted"}

\* Unless an executor of the run has died, its usage contains what was paid for
\* all calls but the one that is still to be booked.
Covered ==
  \A r \in Funded : Alive(r) =>
    /\ usage[r].input >= Total(PaidInput, Charged(r))
    /\ usage[r].output >= Total(PaidOutput, Charged(r))

\* A step of one call.
OneCall(c) ==
  /\ \A d \in Calls \ {c} : /\ stage'[d] = stage[d] /\ answer'[d] = answer[d]
                            /\ resv'[d].st = resv[d].st /\ paid'[d] = paid[d]
                            /\ call'[d].run = call[d].run

\* The executor's handling of a call concerns this call only, which stays with
\* its run and does not become unused.
LEMMA HandlesOne ==
  ASSUME Typed, NEW c \in Calls, Handle(c)
  PROVE  /\ OneCall(c) /\ call'[c].run = call[c].run
         /\ stage[c] # "unused" /\ stage'[c] # "unused"
<1>0. /\ call \in [Calls -> CallRow] /\ resv \in [Calls -> ResvRow] /\ paid \in [Calls -> PaidRow]
      /\ stage \in [Calls -> InProgress \union {"unused", "dead", "closed"}]
      /\ answer \in [Calls -> AnswerRow]
  BY DEF Typed, CallsTyped
<1>1. ASSUME NEW how \in {"dead", "closed", "failing"}, Leave(c, how)
      PROVE  /\ stage'[c] = how
             /\ \A d \in Calls \ {c} : stage'[d] = stage[d] /\ answer'[d] = answer[d]
  BY <1>0, <1>1 DEF Leave
<1>2. ASSUME Accounted(c)
      PROVE  /\ stage'[c] \in {"accounted", "failing"}
             /\ \A d \in Calls \ {c} : stage'[d] = stage[d] /\ answer'[d] = answer[d]
  BY <1>0, <1>1, <1>2 DEF Accounted
<1>3. ASSUME MarkUncertain(c) PROVE \A d \in Calls \ {c} : resv'[d].st = resv[d].st
  BY <1>0, <1>3 DEF MarkUncertain
<1>4. CASE Respond(c)
  BY <1>0, <1>4 DEF Respond, OneCall
<1>5. CASE Settle(c)
  <2>1. \A d \in Calls \ {c} : resv'[d].st = resv[d].st /\ paid'[d] = paid[d]
    BY <1>0, <1>5 DEF Settle
  <2>2. QED
    BY <1>2, <1>5, <2>1 DEF Settle, OneCall
<1>6. CASE SettleRaises(c)
  BY <1>1, <1>6 DEF SettleRaises, OneCall
<1>7. CASE Doubt(c)
  BY <1>2, <1>3, <1>7 DEF Doubt, OneCall
<1>8. CASE Unaccounted(c)
  BY <1>2, <1>8 DEF Unaccounted, OneCall
<1>9. CASE Book(c)
  <2>1. Leave(c, "closed") \/ Leave(c, "failing")
    BY <1>9 DEF Book
  <2>2. call' = call \/ \E st \in {"success", "failed", "discarded"} :
                          call' = [call EXCEPT ![c].st = st]
    BY <1>9 DEF Book
  <2>3. \A d \in Calls : call'[d].run = call[d].run
    BY <1>0, <2>2 DEF CallRow
  <2>4. QED
    BY <1>1, <1>9, <2>1, <2>3 DEF Book, OneCall
<1>10. CASE CloseFailed(c)
  <2>1. \A d \in Calls : call'[d].run = call[d].run
    BY <1>0, <1>10 DEF CloseFailed, CallRow
  <2>2. QED
    BY <1>1, <1>10, <2>1 DEF CloseFailed, OneCall
<1>11. CASE Die(c)
  BY <1>1, <1>11 DEF Die, OneCall, InProgress
<1>12. CASE FenceReservation(c)
  BY <1>3, <1>12 DEF FenceReservation, OneCall
<1>13. QED
  BY <1>4, <1>5, <1>6, <1>7, <1>8, <1>9, <1>10, <1>11, <1>12 DEF Handle

\* What is not the handling of a call: calls keep their run but the one asked.
LEMMA OthersKeep ==
  ASSUME Typed,
         \/ \E l \in LimitChoices, p \in Pricings : CreateCampaign(l, p) \/ Authorize(l, p)
         \/ \E r \in Runs : FailRun(r) \/ EndRun(r)
         \/ UNCHANGED vars
  PROVE  /\ UNCHANGED <<usage, resv, paid, stage, answer>>
         /\ \A d \in Calls : call'[d].run = call[d].run
<1>1. call \in [Calls -> CallRow]
  BY DEF Typed, CallsTyped
<1>2. ASSUME NEW l \in LimitChoices, NEW p \in Pricings, CreateCampaign(l, p) \/ Authorize(l, p)
      PROVE  UNCHANGED <<usage, resv, paid, stage, answer, call>>
  BY <1>2 DEF CreateCampaign, Authorize, Authorized
<1>3. ASSUME NEW r \in Runs, FailRun(r)
      PROVE  /\ UNCHANGED <<usage, resv, paid, stage, answer>>
             /\ \A d \in Calls : call'[d].run = call[d].run
  BY <1>1, <1>3 DEF FailRun, CallRow
<1>4. ASSUME NEW r \in Runs, EndRun(r)
      PROVE  UNCHANGED <<usage, resv, paid, stage, answer, call>>
  BY <1>4 DEF EndRun
<1>5. CASE UNCHANGED vars
  BY <1>5 DEF vars
<1>6. QED
  BY <1>2, <1>3, <1>4, <1>5

\* What asking does to the calls.
LEMMA AskKeeps ==
  ASSUME Typed, UnusedIsFree, NEW r \in Runs, NEW c \in Calls, NEW role \in Roles,
         NEW prompt \in Prompts, NEW tokens \in Nat \ {0}, Asked(r, c, role, prompt, tokens)
  PROVE  /\ OneCall(c) /\ UNCHANGED <<paid, answer>>
         /\ resv[c].st = "none" /\ resv'[c].st \in {"none", "open"}
         /\ call[c].run = NoRun /\ call'[c].run = r
         /\ stage[c] = "unused" /\ stage'[c] = "asked"
         /\ \A q \in Runs : /\ usage'[q].input = usage[q].input
                            /\ usage'[q].output = usage[q].output
<1>0. /\ call \in [Calls -> CallRow] /\ resv \in [Calls -> ResvRow]
      /\ stage \in [Calls -> InProgress \union {"unused", "dead", "closed"}]
      /\ usage \in [Runs -> UsageRow]
  BY DEF Typed, CallsTyped
<1>1. resv[c].st = "none" /\ call[c].run = NoRun /\ stage[c] = "unused"
  BY DEF Asked, UnusedIsFree
<1>2. \/ \E m : resv' = [resv EXCEPT ![c] = [st |-> "open", input |-> prompt, output |-> tokens,
                                             cost |-> m]]
      \/ resv' = [resv EXCEPT ![c].input = prompt, ![c].output = tokens]
  BY DEF Asked
<1>3. resv'[c].st \in {"none", "open"} /\ \A d \in Calls \ {c} : resv'[d].st = resv[d].st
  BY <1>0, <1>1, <1>2 DEF ResvRow
<1>4. call'[c].run = r /\ \A d \in Calls \ {c} : call'[d].run = call[d].run
  BY <1>0 DEF Asked
<1>5. stage'[c] = "asked" /\ \A d \in Calls \ {c} : stage'[d] = stage[d]
  BY <1>0 DEF Asked
<1>6. paid' = paid /\ answer' = answer
  BY DEF Asked
<1>7. \A q \in Runs : /\ usage'[q].input = usage[q].input
                      /\ usage'[q].output = usage[q].output
  <2>1. PICK v : usage' = [usage EXCEPT ![r].calls = @ + 1, ![r].verifier = v]
    BY DEF Asked
  <2>2. QED
    BY <1>0, <2>1 DEF UsageRow
<1>8. QED
  BY <1>1, <1>3, <1>4, <1>5, <1>6, <1>7 DEF OneCall

\* Every step leaves what is unused free.
LEMMA UnusedStep ==
  ASSUME Typed, UnusedIsFree, [Next]_vars
  PROVE  UnusedIsFree'
<1>1. ASSUME NEW c \in Calls, Handle(c) PROVE UnusedIsFree'
  BY <1>1, HandlesOne DEF UnusedIsFree, OneCall
<1>2. ASSUME NEW r \in Runs, NEW c \in Calls, NEW role \in Roles, NEW prompt \in Prompts,
             NEW room \in Rooms, Ask(r, c, role, prompt, room)
      PROVE  UnusedIsFree'
  <2>1. PICK tokens \in Nat \ {0} : Asked(r, c, role, prompt, tokens)
    BY <1>2, AskAsks
  <2>2. OneCall(c) /\ stage'[c] = "asked"
    BY <2>1, AskKeeps
  <2>3. QED
    BY <2>2 DEF UnusedIsFree, OneCall
<1>3. ASSUME UNCHANGED <<resv, stage>>, \A d \in Calls : call'[d].run = call[d].run
      PROVE  UnusedIsFree'
  BY <1>3 DEF UnusedIsFree
<1>4. QED
  BY <1>1, <1>2, <1>3, OthersKeep DEF Next

\* What handling a call does to its settlement.
LEMMA HandlesSettled ==
  ASSUME Typed, SettledWasAnswered, NEW c \in Calls, Handle(c)
  PROVE  SettledWasAnswered'
<1>0. /\ resv \in [Calls -> ResvRow] /\ paid \in [Calls -> PaidRow]
      /\ stage \in [Calls -> InProgress \union {"unused", "dead", "closed"}]
      /\ answer \in [Calls -> AnswerRow]
  BY DEF Typed, CallsTyped
<1>1. \A d \in Calls : d \in Settled' <=> resv'[d].st = "settled"
  BY DEF Settled
<1>2. ASSUME NEW d \in Settled', d # c
      PROVE  /\ stage'[d] \in {"accounted", "failing", "closed", "dead"}
             /\ stage'[d] = "accounted" => /\ answer'[d].input = paid'[d].input
                                           /\ answer'[d].output = paid'[d].output
  <2>1. d \in Calls
    BY DEF Settled
  <2>2. /\ stage'[d] = stage[d] /\ answer'[d] = answer[d] /\ resv'[d].st = resv[d].st
        /\ paid'[d] = paid[d]
    BY <1>2, <2>1, HandlesOne DEF OneCall
  <2>3. d \in Settled
    BY <1>1, <1>2, <2>1, <2>2 DEF Settled
  <2>4. QED
    BY <2>2, <2>3 DEF SettledWasAnswered
<1>3. stage[c] \in {"asked", "answered"} => resv[c].st # "settled"
  BY DEF SettledWasAnswered, Settled
<1>4. ASSUME MarkUncertain(c), resv[c].st # "settled" PROVE resv'[c].st # "settled"
  BY <1>0, <1>4 DEF MarkUncertain, ResvRow
<1>5. ASSUME resv'[c].st = "settled"
      PROVE  /\ stage'[c] \in {"accounted", "failing", "closed", "dead"}
             /\ stage'[c] = "accounted" => /\ answer'[c].input = paid'[c].input
                                           /\ answer'[c].output = paid'[c].output
  <2>0. ASSUME NEW how \in {"dead", "closed", "failing"}, Leave(c, how) PROVE stage'[c] = how
    BY <1>0, <2>0 DEF Leave
  <2>1. CASE Respond(c)
    BY <1>3, <1>5, <2>1 DEF Respond
  <2>2. CASE Settle(c)
    <3>1. StillOpen(c)
      BY <1>3, <1>5, <2>2 DEF Settle
    <3>2. paid'[c].input = answer[c].input /\ paid'[c].output = answer[c].output
      BY <1>0, <2>2, <3>1 DEF Settle
    <3>3. Bookable(c)
      BY <2>2 DEF Settle, Bookable
    <3>4. /\ stage' = [stage EXCEPT ![c] = "accounted"]
          /\ answer' = [answer EXCEPT ![c].cost = None, ![c].capped = FALSE]
      BY <2>2, <3>3 DEF Settle, Accounted
    <3>5. stage'[c] = "accounted" /\ answer'[c].input = answer[c].input
          /\ answer'[c].output = answer[c].output
      BY <1>0, <3>4 DEF AnswerRow
    <3>6. QED
      BY <3>2, <3>5
  <2>3. CASE SettleRaises(c)
    BY <2>0, <2>3 DEF SettleRaises
  <2>4. CASE Doubt(c)
    BY <1>3, <1>4, <1>5, <2>4 DEF Doubt
  <2>5. CASE Unaccounted(c)
    BY <1>3, <1>5, <2>5 DEF Unaccounted
  <2>6. CASE Book(c)
    BY <2>0, <2>6 DEF Book
  <2>7. CASE CloseFailed(c)
    BY <2>0, <2>7 DEF CloseFailed
  <2>8. CASE Die(c)
    BY <2>0, <2>8 DEF Die
  <2>9. CASE FenceReservation(c)
    <3>1. resv[c].st = "settled" /\ UNCHANGED <<stage, answer, paid>>
      BY <1>4, <1>5, <2>9 DEF FenceReservation
    <3>2. QED
      BY <3>1 DEF SettledWasAnswered, Settled
  <2>10. QED
    BY <2>1, <2>2, <2>3, <2>4, <2>5, <2>6, <2>7, <2>8, <2>9 DEF Handle
<1>6. QED
  BY <1>1, <1>2, <1>5 DEF SettledWasAnswered

\* Every step keeps what was settled.
LEMMA SettledStep ==
  ASSUME Typed, UnusedIsFree, SettledWasAnswered, [Next]_vars
  PROVE  SettledWasAnswered'
<1>1. ASSUME NEW c \in Calls, Handle(c) PROVE SettledWasAnswered'
  BY <1>1, HandlesSettled
<1>2. ASSUME NEW r \in Runs, NEW c \in Calls, NEW role \in Roles, NEW prompt \in Prompts,
             NEW room \in Rooms, Ask(r, c, role, prompt, room)
      PROVE  SettledWasAnswered'
  <2>1. PICK tokens \in Nat \ {0} : Asked(r, c, role, prompt, tokens)
    BY <1>2, AskAsks
  <2>2. OneCall(c) /\ resv'[c].st \in {"none", "open"}
    BY <2>1, AskKeeps
  <2>3. \A d \in Settled' : d # c /\ d \in Settled /\ d \in Calls
    BY <2>2 DEF Settled, OneCall
  <2>4. QED
    BY <2>2, <2>3 DEF SettledWasAnswered, OneCall
<1>3. ASSUME UNCHANGED <<resv, paid, stage, answer>> PROVE SettledWasAnswered'
  BY <1>3 DEF SettledWasAnswered, Settled
<1>4. QED
  BY <1>1, <1>2, <1>3, OthersKeep DEF Next

\* A run stays covered as long as its usage does not fall and nothing else of it is
\* to be paid for.
LEMMA StaysCovered ==
  ASSUME Typed, Typed', Covered, NEW r \in Funded, Alive(r), Charged(r)' = Charged(r),
         usage'[r].input >= usage[r].input, usage'[r].output >= usage[r].output,
         \A c \in Charged(r) : paid'[c] = paid[c]
  PROVE  /\ usage'[r].input >= Total(PaidInput', Charged(r)')
         /\ usage'[r].output >= Total(PaidOutput', Charged(r)')
<1>1. r \in Runs
  BY BudgetAssumption
<1>2. Charged(r) \in SUBSET Calls
  BY DEF Charged, CallsOf
<1>3. \A c \in Charged(r) : PaidInput[c] = PaidInput'[c] /\ PaidOutput[c] = PaidOutput'[c]
  BY <1>2 DEF PaidInput, PaidOutput
<1>4. /\ Total(PaidInput, Charged(r)) = Total(PaidInput', Charged(r))
      /\ Total(PaidOutput, Charged(r)) = Total(PaidOutput', Charged(r))
  BY <1>2, <1>3, LedgerTypes, LedgerTypesNext, SameTotal
<1>5. PICK i \in Nat, o \in Nat :
        i = Total(PaidInput, Charged(r)) /\ o = Total(PaidOutput, Charged(r))
  BY <1>2, LedgerTypes, FiniteAssumption, TotalIsNatural
<1>6. usage[r].input >= i /\ usage[r].output >= o
  BY <1>5 DEF Covered
<1>7. usage'[r].input \in Nat /\ usage'[r].output \in Nat
  BY <1>1 DEF Typed, CallsTyped, UsageRow
<1>8. usage'[r].input >= i /\ usage'[r].output >= o
  BY <1>1, <1>6, <1>7, Counters
<1>9. QED
  BY <1>4, <1>5, <1>8

\* Booking a call adds to the usage of its run what was paid for it.
LEMMA BooksCover ==
  ASSUME Typed, Typed', SettledWasAnswered, Covered, NEW c \in Calls, Book(c)
  PROVE  Covered'
<1>0. /\ resv \in [Calls -> ResvRow] /\ paid \in [Calls -> PaidRow]
      /\ stage \in [Calls -> InProgress \union {"unused", "dead", "closed"}]
      /\ usage \in [Runs -> UsageRow]
  BY DEF Typed, CallsTyped
<1>1. PICK i \in Nat, o \in Nat :
        /\ usage' = AddUsage(call[c].run, i, o)
        /\ answer[c].input # None => i = answer[c].input
        /\ answer[c].output # None => o = answer[c].output
  BY BookBooks
<1>2. /\ OneCall(c) /\ call'[c].run = call[c].run
  BY HandlesOne DEF Handle
<1>3. stage[c] = "accounted" /\ stage'[c] \in {"closed", "failing"}
  BY <1>0 DEF Book, Leave
<1>4. paid' = paid /\ resv' = resv
  BY DEF Book
<1>5. \A q \in Runs : CallsOf(q)' = CallsOf(q)
  BY <1>2 DEF CallsOf, OneCall
<1>6. SUFFICES ASSUME NEW r \in Funded, Alive(r)'
               PROVE  /\ usage'[r].input >= Total(PaidInput', Charged(r)')
                      /\ usage'[r].output >= Total(PaidOutput', Charged(r)')
  BY DEF Covered
<1>7. r \in Runs
  BY BudgetAssumption
<1>8. Alive(r)
  <2>1. \A d \in CallsOf(r) : stage[d] # "dead"
    BY <1>2, <1>3, <1>5, <1>6, <1>7 DEF Alive, OneCall, CallsOf
  <2>2. QED
    BY <2>1 DEF Alive
<1>9. Settled' = Settled
  BY <1>4 DEF Settled
<1>10. CASE call[c].run = r /\ c \in Settled
  <2>1. Charged(r)' = Charged(r) \cup {c} /\ c \in Calls \ Charged(r)
    <3>1. c \in CallsOf(r)
      BY <1>10 DEF CallsOf
    <3>2. \A d \in Calls : d \in Charged(r)' <=> d \in Charged(r) \cup {c}
      BY <1>2, <1>3, <1>5, <1>7, <1>9, <1>10, <3>1 DEF Charged, OneCall
    <3>3. Charged(r)' \subseteq Calls /\ Charged(r) \subseteq Calls
      BY DEF Charged, Settled
    <3>4. QED
      BY <1>3, <3>2, <3>3 DEF Charged
  <2>2. i = PaidInput[c] /\ o = PaidOutput[c]
    <3>1. answer[c].input = paid[c].input /\ answer[c].output = paid[c].output
      BY <1>3, <1>10 DEF SettledWasAnswered
    <3>2. paid[c].input \in Nat /\ paid[c].output \in Nat
      BY <1>0 DEF PaidRow
    <3>3. QED
      BY <1>1, <3>1, <3>2 DEF None, PaidInput, PaidOutput
  <2>3. PaidInput' = PaidInput /\ PaidOutput' = PaidOutput
    BY <1>4 DEF PaidInput, PaidOutput
  <2>4. Charged(r) \in SUBSET Calls
    BY DEF Charged, Settled
  <2>5. /\ Total(PaidInput, Charged(r) \cup {c}) = Total(PaidInput, Charged(r)) + PaidInput[c]
        /\ Total(PaidOutput, Charged(r) \cup {c}) = Total(PaidOutput, Charged(r)) + PaidOutput[c]
    BY <2>1, <2>4, LedgerTypes, JoinedTotal
  <2>6. PICK ti \in Nat, to \in Nat :
          ti = Total(PaidInput, Charged(r)) /\ to = Total(PaidOutput, Charged(r))
    BY <2>4, LedgerTypes, FiniteAssumption, TotalIsNatural
  <2>7. usage[r].input >= ti /\ usage[r].output >= to
    BY <1>8, <2>6 DEF Covered
  <2>8. usage'[r].input = usage[r].input + i /\ usage'[r].output = usage[r].output + o
    BY <1>0, <1>1, <1>7, <1>10 DEF AddUsage, UsageRow
  <2>9. usage'[r].input >= ti + i /\ usage'[r].output >= to + o
    BY <1>7, <2>7, <2>8, Counters
  <2>10. QED
    BY <2>1, <2>2, <2>3, <2>5, <2>6, <2>9
<1>11. CASE ~(call[c].run = r /\ c \in Settled)
  <2>1. Charged(r)' = Charged(r)
    <3>1. \A d \in Calls : d \in Charged(r)' <=> d \in Charged(r)
      BY <1>2, <1>5, <1>7, <1>9, <1>11 DEF Charged, OneCall, CallsOf
    <3>2. Charged(r)' \subseteq Calls /\ Charged(r) \subseteq Calls
      BY DEF Charged, Settled
    <3>3. QED
      BY <3>1, <3>2
  <2>2. usage'[r].input >= usage[r].input /\ usage'[r].output >= usage[r].output
    <3>1. \/ usage'[r].input = usage[r].input + i /\ usage'[r].output = usage[r].output + o
          \/ usage'[r].input = usage[r].input /\ usage'[r].output = usage[r].output
      BY <1>0, <1>1, <1>7 DEF AddUsage, UsageRow
    <3>2. QED
      BY <1>7, <3>1, Counters
  <2>3. QED
    BY <1>4, <1>8, <2>1, <2>2, StaysCovered
<1>12. QED
  BY <1>10, <1>11

\* Whatever else happens to a call adds nothing to what its run has to cover.
LEMMA HandlesCover ==
  ASSUME Typed, Typed', SettledWasAnswered, Covered, NEW c \in Calls, Handle(c)
  PROVE  Covered'
<1>0. /\ resv \in [Calls -> ResvRow] /\ paid \in [Calls -> PaidRow]
      /\ stage \in [Calls -> InProgress \union {"unused", "dead", "closed"}]
      /\ usage \in [Runs -> UsageRow]
  BY DEF Typed, CallsTyped
<1>1. CASE Book(c)
  BY <1>1, BooksCover
<1>2. CASE ~Book(c)
  <2>1. usage' = usage
    BY <1>2 DEF Handle, Respond, Settle, SettleRaises, Doubt, Unaccounted, CloseFailed, Die,
                FenceReservation
  <2>2. OneCall(c) /\ call'[c].run = call[c].run
    BY HandlesOne
  <2>3. \A q \in Runs : CallsOf(q)' = CallsOf(q)
    BY <2>2 DEF CallsOf, OneCall
  <2>4. SUFFICES ASSUME NEW r \in Funded, Alive(r)'
                 PROVE  /\ usage'[r].input >= Total(PaidInput', Charged(r)')
                        /\ usage'[r].output >= Total(PaidOutput', Charged(r)')
    BY DEF Covered
  <2>5. r \in Runs
    BY BudgetAssumption
  <2>6. \/ stage'[c] = "dead"
        \/ /\ stage[c] # "dead"
           /\ (c \in Settled' /\ stage'[c] # "accounted") <=> (c \in Settled /\ stage[c] # "accounted")
        \/ /\ stage'[c] = stage[c] /\ resv'[c].st # "settled" /\ resv[c].st # "settled"
        \/ /\ stage'[c] = stage[c] /\ resv' = resv
    <3>0. ASSUME NEW how \in {"dead", "closed", "failing"}, Leave(c, how) PROVE stage'[c] = how
      BY <1>0, <3>0 DEF Leave
    <3>1. CASE Respond(c)
      BY <1>0, <3>1 DEF Respond, Settled, SettledWasAnswered
    <3>2. CASE Settle(c)
      <4>1. Bookable(c)
        BY <3>2 DEF Settle, Bookable
      <4>2. stage[c] = "answered" /\ stage'[c] = "accounted"
        BY <1>0, <3>2, <4>1 DEF Settle, Accounted
      <4>3. c \notin Settled
        BY <4>2 DEF SettledWasAnswered
      <4>4. QED
        BY <4>2, <4>3
    <3>3. CASE SettleRaises(c)
      BY <3>0, <3>3 DEF SettleRaises
    <3>4. CASE Doubt(c) \/ Unaccounted(c)
      <4>1. stage[c] = "answered"
        BY <3>4 DEF Doubt, Unaccounted
      <4>2. c \notin Settled
        BY <4>1 DEF SettledWasAnswered
      <4>3. resv[c].st # "settled"
        BY <4>2 DEF Settled
      <4>4. resv'[c].st # "settled"
        BY <1>0, <3>4, <4>3 DEF Doubt, Unaccounted, MarkUncertain, ResvRow
      <4>5. QED
        BY <4>1, <4>2, <4>4 DEF Settled
    <3>5. CASE CloseFailed(c)
      <4>1. stage[c] = "failing" /\ stage'[c] = "closed" /\ resv' = resv
        BY <3>0, <3>5 DEF CloseFailed
      <4>2. QED
        BY <4>1 DEF Settled
    <3>6. CASE Die(c)
      BY <3>0, <3>6 DEF Die
    <3>7. CASE FenceReservation(c)
      <4>1. stage' = stage /\ MarkUncertain(c)
        BY <3>7 DEF FenceReservation
      <4>2. CASE StillOpen(c)
        BY <1>0, <4>1, <4>2 DEF MarkUncertain, StillOpen, ResvRow
      <4>3. CASE ~StillOpen(c)
        BY <4>1, <4>3 DEF MarkUncertain
      <4>4. QED
        BY <4>2, <4>3
    <3>8. QED
      BY <1>2, <3>1, <3>2, <3>3, <3>4, <3>5, <3>6, <3>7 DEF Handle
  <2>7. \A d \in Calls : d # c => /\ stage'[d] = stage[d] /\ paid'[d] = paid[d]
                                  /\ d \in Settled' <=> d \in Settled
    BY <2>2 DEF OneCall, Settled
  <2>8. c \in CallsOf(r) => stage'[c] # "dead"
    BY <2>3, <2>4, <2>5 DEF Alive
  <2>9. Alive(r)
    <3>1. ASSUME NEW d \in CallsOf(r) PROVE stage[d] # "dead"
      <4>1. d \in Calls /\ stage'[d] # "dead"
        BY <2>3, <2>4, <2>5 DEF Alive, CallsOf
      <4>2. QED
        BY <2>6, <2>7, <4>1
    <3>2. QED
      BY <3>1 DEF Alive
  <2>10. Charged(r)' = Charged(r)
    <3>1. ASSUME NEW d \in Calls PROVE d \in Charged(r)' <=> d \in Charged(r)
      <4>1. d \in CallsOf(r)' <=> d \in CallsOf(r)
        BY <2>3, <2>5
      <4>2. CASE d # c
        BY <2>7, <4>1, <4>2 DEF Charged
      <4>3. CASE d = c
        <5>1. c \in CallsOf(r) =>
                ((c \in Settled' /\ stage'[c] # "accounted") <=> (c \in Settled /\ stage[c] # "accounted"))
          BY <2>6, <2>8 DEF Settled
        <5>2. QED
          BY <4>1, <4>3, <5>1 DEF Charged
      <4>4. QED
        BY <4>2, <4>3
    <3>2. Charged(r)' \subseteq Calls /\ Charged(r) \subseteq Calls
      BY DEF Charged, Settled
    <3>3. QED
      BY <3>1, <3>2
  <2>11. \A d \in Charged(r) : paid'[d] = paid[d]
    <3>1. ASSUME NEW d \in Charged(r) PROVE paid'[d] = paid[d]
      <4>1. d \in Settled /\ d \in Calls
        BY DEF Charged, Settled
      <4>2. CASE d # c
        BY <2>7, <4>1, <4>2
      <4>3. CASE d = c
        <5>1. resv[c].st = "settled" /\ stage[c] # "answered"
          BY <4>1, <4>3 DEF Settled, SettledWasAnswered
        <5>2. paid' = paid
          BY <1>2, <5>1 DEF Handle, Respond, Settle, SettleRaises, Doubt, Unaccounted, CloseFailed,
                            Die, FenceReservation
        <5>3. QED
          BY <5>2
      <4>4. QED
        BY <4>2, <4>3
    <3>2. QED
      BY <3>1
  <2>12. usage'[r].input >= usage[r].input /\ usage'[r].output >= usage[r].output
    BY <2>1, <2>5, Counters
  <2>13. QED
    BY <2>9, <2>10, <2>11, <2>12, StaysCovered
<1>3. QED
  BY <1>1, <1>2

\* Every step keeps the runs covered.
LEMMA CoveredStep ==
  ASSUME Typed, Typed', UnusedIsFree, SettledWasAnswered, Covered, [Next]_vars
  PROVE  Covered'
<1>1. ASSUME NEW c \in Calls, Handle(c) PROVE Covered'
  BY <1>1, HandlesCover
<1>2. ASSUME NEW r \in Runs, NEW c \in Calls, NEW role \in Roles, NEW prompt \in Prompts,
             NEW room \in Rooms, Ask(r, c, role, prompt, room)
      PROVE  Covered'
  <2>1. PICK tokens \in Nat \ {0} : Asked(r, c, role, prompt, tokens)
    BY <1>2, AskAsks
  <2>2. /\ OneCall(c) /\ paid' = paid /\ resv[c].st = "none" /\ resv'[c].st \in {"none", "open"}
        /\ call[c].run = NoRun /\ stage[c] = "unused"
        /\ \A q \in Runs : /\ usage'[q].input = usage[q].input
                           /\ usage'[q].output = usage[q].output
    BY <2>1, AskKeeps
  <2>3. SUFFICES ASSUME NEW q \in Funded, Alive(q)'
                 PROVE  /\ usage'[q].input >= Total(PaidInput', Charged(q)')
                        /\ usage'[q].output >= Total(PaidOutput', Charged(q)')
    BY DEF Covered
  <2>4. q \in Runs
    BY BudgetAssumption
  <2>5. Alive(q)
    BY <2>2, <2>3 DEF Alive, CallsOf, OneCall
  <2>6. Charged(q)' = Charged(q)
    BY <2>2 DEF Charged, CallsOf, Settled, OneCall
  <2>7. usage'[q].input >= usage[q].input /\ usage'[q].output >= usage[q].output
    BY <2>2, <2>4, Counters
  <2>8. QED
    BY <2>2, <2>5, <2>6, <2>7, StaysCovered
<1>3. ASSUME UNCHANGED <<usage, resv, paid, stage, answer>>,
             \A d \in Calls : call'[d].run = call[d].run
      PROVE  Covered'
  <2>1. SUFFICES ASSUME NEW q \in Funded, Alive(q)'
                 PROVE  /\ usage'[q].input >= Total(PaidInput', Charged(q)')
                        /\ usage'[q].output >= Total(PaidOutput', Charged(q)')
    BY DEF Covered
  <2>2. q \in Runs
    BY BudgetAssumption
  <2>3. CallsOf(q)' = CallsOf(q)
    BY <1>3 DEF CallsOf
  <2>4. Alive(q) /\ Charged(q)' = Charged(q)
    BY <1>3, <2>1, <2>3 DEF Alive, Charged, Settled
  <2>5. usage'[q].input >= usage[q].input /\ usage'[q].output >= usage[q].output
    BY <1>3, <2>2, Counters
  <2>6. QED
    BY <1>3, <2>4, <2>5, StaysCovered
<1>4. QED
  BY <1>1, <1>2, <1>3, OthersKeep DEF Next

----------------------------------------------------------------------------
(* The theorems. *)

BudgetInv ==
  /\ Typed /\ UnusedIsFree /\ LedgerBalances /\ Recorded /\ CommittedWithinLimits
  /\ SettledWasAnswered /\ Covered

\* Nothing is reserved, used or covered at first.
LEMMA BudgetInvInit ==
  ASSUME Init
  PROVE  BudgetInv
<1>2. MaxRevision \in Nat
  BY BudgetAssumption
<1>3. CampaignTyped
  <2>1. revision = 0 /\ rates = {} /\ history = {}
    BY DEF Init
  <2>2. limits \in LimitsRow /\ used \in UsedRow
    BY DEF Init, LimitsRow, UsedRow
  <2>3. QED
    BY <1>2, <2>1, <2>2 DEF CampaignTyped, Pricings
<1>4. CallsTyped
  <2>1. usage \in [Runs -> UsageRow]
    BY DEF Init, UsageRow
  <2>2. call \in [Calls -> CallRow]
    BY DEF Init, CallRow
  <2>3. resv \in [Calls -> ResvRow]
    BY DEF Init, ResvRow
  <2>4. paid \in [Calls -> PaidRow]
    BY DEF Init, PaidRow, NoUse
  <2>5. answer \in [Calls -> AnswerRow]
    BY NoAnswerType DEF Init
  <2>6. QED
    BY <2>1, <2>2, <2>3, <2>4, <2>5 DEF Init, CallsTyped
<1>5. Typed /\ UnusedIsFree
  BY <1>3, <1>4 DEF Init, Typed, Priced, Capped, UnusedIsFree
<1>6. Settled = {} /\ Held = {}
  BY DEF Init, Settled, Held
<1>7. LedgerBalances
  <2>1. Settled \union Held = {} /\ {c \in Held : resv[c].st = "uncertain"} = {}
    BY <1>6
  <2>2. /\ used.calls = 0 /\ used.input = 0 /\ used.output = 0 /\ used.cost = 0
        /\ used.rinput = 0 /\ used.routput = 0 /\ used.rcost = 0 /\ used.uncertain = 0
    BY DEF Init
  <2>3. \A f : Total(f, {}) = 0
    BY TotalOfEmpty
  <2>4. QED
    BY <1>6, <2>1, <2>2, <2>3, FS_EmptySet DEF LedgerBalances
<1>8. Recorded
  BY <1>6 DEF Init, Recorded
<1>9. CommittedWithinLimits
  <2>1. limits.cost = None /\ history = {}
    BY DEF Init
  <2>2. Spent /\ Committed /\ OnRecord
    BY <2>1 DEF Init, Spent, Committed, OnRecord, Capped
  <2>3. QED
    BY <2>2, LimitsHaveParts
<1>10. SettledWasAnswered
  BY <1>6 DEF SettledWasAnswered
<1>11. Covered
  <2>1. ASSUME NEW r \in Funded
        PROVE  /\ usage[r].input >= Total(PaidInput, Charged(r))
               /\ usage[r].output >= Total(PaidOutput, Charged(r))
    <3>1. Charged(r) = {}
      BY <1>6 DEF Charged
    <3>2. usage[r].input = 0 /\ usage[r].output = 0
      BY BudgetAssumption DEF Init
    <3>3. QED
      BY <3>1, <3>2, TotalOfEmpty
  <2>2. QED
    BY <2>1 DEF Covered
<1>12. QED
  BY <1>5, <1>7, <1>8, <1>9, <1>10, <1>11 DEF BudgetInv

\* Every step of the budgets preserves the invariant.
LEMMA BudgetInvStep ==
  ASSUME BudgetInv, [Next]_vars
  PROVE  BudgetInv'
<1>1. Typed /\ UnusedIsFree /\ LedgerBalances /\ Recorded /\ CommittedWithinLimits
      /\ SettledWasAnswered /\ Covered
  BY DEF BudgetInv
<1>2. Typed'
  BY <1>1, TypesStep
<1>3. UnusedIsFree' /\ LedgerBalances' /\ SettledWasAnswered'
  BY <1>1, <1>2, UnusedStep, LedgerStep, SettledStep
<1>4. Recorded' /\ CommittedWithinLimits'
  BY <1>1, <1>2, LimitsStep
<1>5. Covered'
  BY <1>1, <1>2, CoveredStep
<1>6. QED
  BY <1>2, <1>3, <1>4, <1>5 DEF BudgetInv

\* The inductive invariant of the budgets.
THEOREM BudgetInvariant == Spec => []BudgetInv
BY BudgetInvInit, BudgetInvStep, PTL DEF Spec

\* Every row of the budgets holds values of its kind.
THEOREM BudgetTypes == Spec => []TypeOK
<1>1. BudgetInv => TypeOK
  BY DEF BudgetInv, Typed, CampaignTyped, CallsTyped, TypeOK, LimitsRow, UsedRow, HistoryRow,
         UsageRow, CallRow, ResvRow, PaidRow, AnswerRow
<1>2. QED
  BY <1>1, BudgetInvariant, PTL

\* The campaign's counters are the sums of its reservations and payments, in
\* whatever order attempts are reserved, settled and marked (reserve_, settle_ and
\* mark_provider_attempt).
THEOREM LedgerAlwaysBalances == Spec => []LedgerBalances
<1>1. BudgetInv => LedgerBalances
  BY DEF BudgetInv
<1>2. QED
  BY <1>1, BudgetInvariant, PTL

\* What is used and reserved stays within the limits, and no authorisation takes
\* any of it back (_would_exceed, settle_provider_attempt,
\* authorize_campaign_continuation).
THEOREM LimitsAreKept == Spec => []CommittedWithinLimits
<1>1. BudgetInv => CommittedWithinLimits
  BY DEF BudgetInv
<1>2. QED
  BY <1>1, BudgetInvariant, PTL

\* A run that may make a further call has booked what its calls cost the campaign
\* (_structured_provider_call, _record_truncated_usage).
THEOREM CampaignIsCovered == Spec => []RunCoversCampaign
<1>1. BudgetInv => RunCoversCampaign
  <2>1. SUFFICES ASSUME BudgetInv, NEW r \in Funded, Idle(r)
                 PROVE  /\ usage[r].input >= Total(PaidInput, CallsOf(r) \intersect Settled)
                        /\ usage[r].output >= Total(PaidOutput, CallsOf(r) \intersect Settled)
    BY DEF RunCoversCampaign
  <2>2. Alive(r) /\ \A c \in CallsOf(r) : stage[c] # "accounted"
    BY <2>1 DEF Idle, InProgress, Alive
  <2>3. Charged(r) = CallsOf(r) \intersect Settled
    BY <2>2 DEF Charged
  <2>4. QED
    BY <2>1, <2>2, <2>3 DEF BudgetInv, Covered
<1>2. QED
  BY <1>1, BudgetInvariant, PTL

\* A settled or uncertain attempt is never accounted again (settle_ and
\* mark_provider_attempt).
THEOREM AttemptsAreAccountedOnce == Spec => AccountedOnce
<1>1. ASSUME BudgetInv, [Next]_vars, NEW c \in Calls, resv[c].st \in {"settled", "uncertain"}
      PROVE  resv'[c] = resv[c] /\ paid'[c] = paid[c]
  <2>1. Typed /\ UnusedIsFree
    BY <1>1 DEF BudgetInv
  <2>2. resv \in [Calls -> ResvRow] /\ paid \in [Calls -> PaidRow]
    BY <2>1 DEF Typed, CallsTyped
  <2>3. ASSUME NEW d \in Calls, NEW i \in Nat, NEW o \in Nat, Reserves(d, i, o)
        PROVE  resv'[c] = resv[c] /\ paid'[c] = paid[c]
    BY <1>1, <2>2, <2>3 DEF Reserves
  <2>4. ASSUME NEW d \in Calls, NEW i \in Nat, NEW o \in Nat, NEW x \in Nat, Settles(d, i, o, x)
        PROVE  resv'[c] = resv[c] /\ paid'[c] = paid[c]
    BY <1>1, <2>2, <2>4 DEF Settles
  <2>5. ASSUME NEW d \in Calls, Marks(d)
        PROVE  resv'[c] = resv[c] /\ paid'[c] = paid[c]
    BY <1>1, <2>2, <2>5 DEF Marks
  <2>6. ASSUME KeepsAccounts
        PROVE  resv'[c] = resv[c] /\ paid'[c] = paid[c]
    BY <1>1, <2>6 DEF KeepsAccounts
  <2>7. Authorizes => KeepsAccounts
    BY DEF Authorizes
  <2>8. QED
    BY <1>1, <2>1, <2>3, <2>4, <2>5, <2>6, <2>7, StepKinds
<1>2. BudgetInv /\ [Next]_vars =>
        [\A c \in Calls : resv[c].st \in {"settled", "uncertain"} =>
           resv'[c] = resv[c] /\ paid'[c] = paid[c]]_vars
  BY <1>1
<1>3. QED
  BY <1>2, BudgetInvariant, PTL DEF Spec, AccountedOnce

----------------------------------------------------------------------------
(* The reviews that are still to come.                                     *)
(*                                                                         *)
(* The reserve is kept by budgets that hold it and divide it as the code   *)
(* does: with n reviews left, what is reserved for them covers the share   *)
(* one verifier call may use and the reserve of the n - 1 others.  Which   *)
(* budgets do so: see DefaultReserveIsDivided below.                       *)

Share(total, n) == IF n = 0 THEN 0 ELSE CeilDiv(total * n, Budget.reservedCalls)

ReserveIsHeld ==
  /\ Budget.calls >= Budget.reservedCalls
  /\ Budget.input >= Share(Budget.reservedInput, Budget.reservedCalls)
  /\ Budget.output >= Share(Budget.reservedOutput, Budget.reservedCalls)

SharesSuffice ==
  \A n \in 1 .. Budget.reservedCalls :
    LET left == Larger1(Budget.verifier - (Budget.reservedCalls - n))
        v    == Share(Budget.reservedInput, n)
    IN /\ v - CeilDiv(v, left) >= Share(Budget.reservedInput, n - 1)
       /\ Share(Budget.reservedOutput, n) - Floor["verifier"]
            >= Share(Budget.reservedOutput, n - 1)

ReserveIsDivided == ReserveIsHeld /\ SharesSuffice /\ MaxOverrun = 0

\* What the provider has reported is no more than was reserved.
ReportsFit ==
  \A c \in Calls : stage[c] \in {"answered", "accounted"} =>
    /\ answer[c].input # None => answer[c].input <= resv[c].input
    /\ answer[c].output # None => answer[c].output <= resv[c].output

ReviewInv == Typed /\ UnusedIsFree /\ ReportsFit /\ ReviewsStayPossible

\* The reserve of a run, by the number of its reviews still to come.
LEMMA ReserveByReviews ==
  ASSUME NEW r \in Runs, usage[r].verifier \in Nat
  PROVE  /\ VerifierReserve(r) = [calls  |-> ReviewsLeft(r),
                                  input  |-> Share(Budget.reservedInput, ReviewsLeft(r)),
                                  output |-> Share(Budget.reservedOutput, ReviewsLeft(r))]
         /\ ReviewsLeft(r) \in 0 .. Budget.reservedCalls
         /\ ReviewsLeft(r) > 0 => usage[r].verifier = Budget.reservedCalls - ReviewsLeft(r)
         /\ ReviewsLeft(r) = 0 => usage[r].verifier >= Budget.reservedCalls
<1>1. Budget.reservedCalls \in Nat
  BY BudgetAssumption
<1>2. VerifierReserve(r) = [calls  |-> ReviewsLeft(r),
                            input  |-> Share(Budget.reservedInput, ReviewsLeft(r)),
                            output |-> Share(Budget.reservedOutput, ReviewsLeft(r))]
  BY DEF VerifierReserve, Share
<1>3. PICK u \in Nat : u = usage[r].verifier
  OBVIOUS
<1>4. ReviewsLeft(r) = IF Budget.reservedCalls < u THEN 0 ELSE Budget.reservedCalls - u
  BY <1>1, <1>3 DEF ReviewsLeft, Smaller
<1>5. QED
  BY <1>1, <1>2, <1>3, <1>4

\* A share is a natural number.
LEMMA ShareType ==
  ASSUME NEW total \in Nat, NEW n \in 0 .. Budget.reservedCalls
  PROVE  Share(total, n) \in Nat
<1>1. CASE n = 0
  BY <1>1 DEF Share
<1>2. CASE n # 0
  <2>1. Budget.reservedCalls \in Nat
    BY BudgetAssumption
  <2>2. Budget.reservedCalls \in Nat \ {0} /\ n \in Nat
    BY <1>2, <2>1
  <2>3. total * n \in Nat
    BY <2>2
  <2>4. QED
    BY <1>2, <2>2, <2>3, CeilDivType DEF Share
<1>3. QED
  BY <1>1, <1>2

\* What a call has to leave covers the reviews still to come after it.
LEMMA KeptSuffices ==
  ASSUME Typed, SharesSuffice, NEW r \in Runs, NEW role \in Roles
  PROVE  LET n == IF role = "verifier" /\ ReviewsLeft(r) > 0
                  THEN ReviewsLeft(r) - 1 ELSE ReviewsLeft(r)
         IN /\ Kept(r, role).input >= Share(Budget.reservedInput, n)
            /\ Kept(r, role).output >= Share(Budget.reservedOutput, n)
            /\ role # "verifier" => Kept(r, role).calls >= ReviewsLeft(r)
<1>1. /\ Budget.calls \in Nat /\ Budget.verifier \in Nat /\ Budget.reservedCalls \in Nat
      /\ Budget.reservedInput \in Nat /\ Budget.reservedOutput \in Nat /\ Budget.input \in Nat
      /\ Budget.output \in Nat
  BY BudgetAssumption
<1>2. PICK m \in 0 .. Budget.reservedCalls :
        /\ m = ReviewsLeft(r)
        /\ VerifierReserve(r) = [calls |-> m, input |-> Share(Budget.reservedInput, m),
                                 output |-> Share(Budget.reservedOutput, m)]
        /\ m > 0 => usage[r].verifier = Budget.reservedCalls - m
  BY Counters, ReserveByReviews
<1>3. PICK vi \in Nat, vo \in Nat :
        vi = Share(Budget.reservedInput, m) /\ vo = Share(Budget.reservedOutput, m)
  BY <1>1, <1>2, ShareType
<1>4. CASE role = "planner"
  <2>1. SynthesisReserve \in [calls : Nat, input : Nat, output : Nat]
    <3>1. Larger1(Budget.calls) \in Nat \ {0}
      BY <1>1 DEF Larger1
    <3>2. /\ CeilDiv(Budget.input, Larger1(Budget.calls)) \in Nat
          /\ CeilDiv(Budget.output, Larger1(Budget.calls)) \in Nat
      BY <1>1, <3>1, CeilDivType
    <3>3. QED
      BY <3>2 DEF SynthesisReserve
  <2>2. PICK s \in [calls : Nat, input : Nat, output : Nat] : s = SynthesisReserve
    BY <2>1
  <2>3. Kept(r, role) = [calls |-> m + s.calls, input |-> vi + s.input, output |-> vo + s.output]
    BY <1>2, <1>3, <1>4, <2>2 DEF Kept
  <2>4. s.calls \in Nat /\ s.input \in Nat /\ s.output \in Nat
    OBVIOUS
  <2>5. QED
    BY <1>2, <1>3, <1>4, <2>3, <2>4
<1>5. CASE role = "synthesizer"
  <2>1. Kept(r, role) = VerifierReserve(r)
    BY <1>5 DEF Kept
  <2>2. QED
    BY <1>2, <1>3, <1>5, <2>1
<1>6. CASE role = "verifier"
  <2> DEFINE left == Larger1(Budget.verifier - usage[r].verifier)
  <2>1. left \in Nat \ {0}
    BY <1>1, Counters DEF Larger1
  <2>2. Kept(r, role) = [calls |-> m, input |-> AtLeast0(vi - CeilDiv(vi, left)),
                         output |-> AtLeast0(vo - Floor["verifier"])]
    BY <1>2, <1>3, <1>6 DEF Kept
  <2>3. CASE m = 0
    <3>1. \A k \in Int : AtLeast0(k) >= 0
      BY DEF AtLeast0
    <3>2. CeilDiv(vi, left) \in Nat /\ Floor["verifier"] \in Nat
      BY <2>1, CeilDivType, BudgetAssumption DEF Roles
    <3>3. /\ vi - CeilDiv(vi, left) \in Int /\ vo - Floor["verifier"] \in Int
      BY <3>2
    <3>4. \A total : Share(total, 0) = 0
      BY DEF Share
    <3>5. Kept(r, role).input >= 0 /\ Kept(r, role).output >= 0
      BY <2>2, <3>1, <3>3
    <3>6. QED
      BY <1>2, <1>6, <2>3, <3>4, <3>5
  <2>4. CASE m # 0
    <3>1. m \in 1 .. Budget.reservedCalls /\ usage[r].verifier = Budget.reservedCalls - m
      BY <1>1, <1>2, <2>4
    <3>2. /\ vi - CeilDiv(vi, left) >= Share(Budget.reservedInput, m - 1)
          /\ vo - Floor["verifier"] >= Share(Budget.reservedOutput, m - 1)
      BY <1>3, <3>1 DEF SharesSuffice
    <3>3. CeilDiv(vi, left) \in Nat /\ Floor["verifier"] \in Nat
      BY <2>1, CeilDivType, BudgetAssumption DEF Roles
    <3>4. m - 1 \in 0 .. Budget.reservedCalls
      BY <1>1, <3>1
    <3>5. /\ Share(Budget.reservedInput, m - 1) \in Nat
          /\ Share(Budget.reservedOutput, m - 1) \in Nat
      BY <1>1, <3>4, ShareType
    <3>6. \A k \in Int : AtLeast0(k) >= k
      BY DEF AtLeast0
    <3> HIDE DEF left
    <3>7. PICK ki \in Int, ko \in Int : ki = vi - CeilDiv(vi, left) /\ ko = vo - Floor["verifier"]
      BY <3>3
    <3>8. AtLeast0(ki) >= ki /\ AtLeast0(ko) >= ko /\ AtLeast0(ki) \in Int /\ AtLeast0(ko) \in Int
      BY <3>6, <3>7 DEF AtLeast0
    <3>9. Kept(r, role).input = AtLeast0(ki) /\ Kept(r, role).output = AtLeast0(ko)
      BY <2>2, <3>7
    <3>10. /\ Kept(r, role).input >= Share(Budget.reservedInput, m - 1)
           /\ Kept(r, role).output >= Share(Budget.reservedOutput, m - 1)
      BY <3>2, <3>5, <3>7, <3>8, <3>9
    <3>11. ReviewsLeft(r) > 0 /\ ReviewsLeft(r) = m
      BY <1>2, <2>4
    <3>12. QED
      BY <1>6, <3>10, <3>11
  <2>5. QED
    BY <2>3, <2>4
<1>7. QED
  BY <1>4, <1>5, <1>6 DEF Roles

\* What the provider reports stays within what was reserved.
LEMMA ReportsStep ==
  ASSUME Typed, UnusedIsFree, ReportsFit, MaxOverrun = 0, [Next]_vars
  PROVE  ReportsFit'
<1>0. /\ resv \in [Calls -> ResvRow]
      /\ stage \in [Calls -> InProgress \union {"unused", "dead", "closed"}]
      /\ answer \in [Calls -> AnswerRow]
  BY DEF Typed, CallsTyped
<1>1. ASSUME NEW c \in Calls, Handle(c) PROVE ReportsFit'
  <2>0. ASSUME NEW how \in {"dead", "closed", "failing"}, Leave(c, how)
        PROVE  /\ stage'[c] = how
               /\ \A d \in Calls \ {c} : stage'[d] = stage[d] /\ answer'[d] = answer[d]
    BY <1>0, <2>0 DEF Leave
  <2>1. ASSUME Accounted(c)
        PROVE  /\ \A d \in Calls \ {c} : stage'[d] = stage[d] /\ answer'[d] = answer[d]
               /\ \/ stage'[c] = "failing"
                  \/ answer'[c].input = answer[c].input /\ answer'[c].output = answer[c].output
    <3>1. CASE Bookable(c)
      BY <1>0, <2>1, <3>1 DEF Accounted, AnswerRow
    <3>2. CASE ~Bookable(c)
      BY <2>0, <2>1, <3>2 DEF Accounted
    <3>3. QED
      BY <3>1, <3>2
  <2>2. ASSUME MarkUncertain(c)
        PROVE  \A d \in Calls : resv'[d].input = resv[d].input /\ resv'[d].output = resv[d].output
    BY <1>0, <2>2 DEF MarkUncertain, ResvRow
  <2>3. CASE Respond(c)
    <3>1. PICK a \in Answers(c) : answer' = [answer EXCEPT ![c] = a]
      BY <2>3 DEF Respond
    <3>2. /\ a.input # None => a.input \in Reported(resv[c].input)
          /\ a.output # None => a.output \in Reported(resv[c].output)
      BY DEF Answers, NoAnswer
    <3>3. resv[c].input \in Nat /\ resv[c].output \in Nat
      BY <1>0 DEF ResvRow
    <3>4. /\ a.input # None => a.input <= resv[c].input
          /\ a.output # None => a.output <= resv[c].output
      <4>1. ASSUME NEW b \in Nat, NEW n \in Reported(b), n # None PROVE n <= b
        BY <4>1 DEF Reported
      <4>2. QED
        BY <3>2, <3>3, <4>1
    <3>5. /\ answer'[c] = a /\ resv' = resv
          /\ \A d \in Calls \ {c} : stage'[d] = stage[d] /\ answer'[d] = answer[d]
      BY <1>0, <2>3, <3>1 DEF Respond
    <3>6. QED
      BY <3>4, <3>5 DEF ReportsFit
  <2>4. CASE Settle(c)
    <3>0. resv' = resv \/ resv' = [resv EXCEPT ![c].st = "settled"]
      BY <2>4 DEF Settle
    <3>1. \A d \in Calls : resv'[d].input = resv[d].input /\ resv'[d].output = resv[d].output
      BY <1>0, <3>0 DEF ResvRow
    <3>2. stage[c] = "answered" /\ Accounted(c)
      BY <2>4 DEF Settle
    <3>3. QED
      BY <2>1, <3>1, <3>2 DEF ReportsFit
  <2>5. CASE SettleRaises(c) \/ CloseFailed(c) \/ Die(c) \/ Book(c)
    <3>1. Leave(c, "dead") \/ Leave(c, "closed") \/ Leave(c, "failing")
      BY <2>5 DEF SettleRaises, CloseFailed, Die, Book
    <3>2. resv' = resv
      BY <2>5 DEF SettleRaises, CloseFailed, Die, Book
    <3>3. QED
      BY <2>0, <3>1, <3>2 DEF ReportsFit
  <2>6. CASE Doubt(c) \/ Unaccounted(c)
    <3>1. stage[c] = "answered" /\ Accounted(c)
      BY <2>6 DEF Doubt, Unaccounted
    <3>2. \A d \in Calls : resv'[d].input = resv[d].input /\ resv'[d].output = resv[d].output
      BY <2>2, <2>6 DEF Doubt, Unaccounted
    <3>3. QED
      BY <2>1, <3>1, <3>2 DEF ReportsFit
  <2>7. CASE FenceReservation(c)
    BY <2>2, <2>7 DEF FenceReservation, ReportsFit
  <2>8. QED
    BY <1>1, <2>3, <2>4, <2>5, <2>6, <2>7 DEF Handle
<1>2. ASSUME NEW r \in Runs, NEW c \in Calls, NEW role \in Roles, NEW prompt \in Prompts,
             NEW room \in Rooms, Ask(r, c, role, prompt, room)
      PROVE  ReportsFit'
  <2>1. stage' = [stage EXCEPT ![c] = "asked"] /\ answer' = answer
    BY <1>2 DEF Ask
  <2>2. \A d \in Calls \ {c} : resv'[d] = resv[d]
    BY <1>0, <1>2 DEF Ask
  <2>3. stage'[c] = "asked" /\ \A d \in Calls \ {c} : stage'[d] = stage[d]
    BY <1>0, <2>1
  <2>4. QED
    BY <2>1, <2>2, <2>3 DEF ReportsFit
<1>3. ASSUME UNCHANGED <<resv, stage, answer>> PROVE ReportsFit'
  BY <1>3 DEF ReportsFit
<1>4. QED
  BY <1>1, <1>2, <1>3, OthersKeep DEF Next

\* The property, for one run.
ReviewPossible(r) ==
  /\ Budget.calls - usage[r].calls >= VerifierReserve(r).calls
  /\ Budget.input - usage[r].input - Total(ReservedInput, InFlight(r)) >= VerifierReserve(r).input
  /\ Budget.output - usage[r].output - Total(ReservedOutput, InFlight(r))
       >= VerifierReserve(r).output

\* Where a run's calls in flight and its usage stay, nothing changes for it.
LEMMA SameReviews ==
  ASSUME Typed, Typed', NEW r \in Runs, ReviewPossible(r), usage'[r] = usage[r],
         InFlight(r)' = InFlight(r),
         \A c \in InFlight(r) : /\ resv'[c].input = resv[c].input
                                /\ resv'[c].output = resv[c].output
  PROVE  ReviewPossible(r)'
<1>1. VerifierReserve(r)' = VerifierReserve(r)
  BY DEF VerifierReserve, ReviewsLeft
<1>2. InFlight(r) \in SUBSET Calls
  BY DEF InFlight, CallsOf
<1>3. \A c \in InFlight(r) : /\ ReservedInput[c] = ReservedInput'[c]
                             /\ ReservedOutput[c] = ReservedOutput'[c]
  BY <1>2 DEF ReservedInput, ReservedOutput
<1>4. /\ Total(ReservedInput, InFlight(r)) = Total(ReservedInput', InFlight(r))
      /\ Total(ReservedOutput, InFlight(r)) = Total(ReservedOutput', InFlight(r))
  BY <1>2, <1>3, LedgerTypes, LedgerTypesNext, SameTotal
<1>5. QED
  BY <1>1, <1>4 DEF ReviewPossible

\* Asking leaves the reviews what they need, counting the call at its reservation.
LEMMA AskLeavesReviews ==
  ASSUME Typed, Typed', UnusedIsFree, SharesSuffice, NEW r \in Runs, NEW c \in Calls,
         NEW role \in Roles, NEW prompt \in Prompts, NEW room \in Rooms,
         Ask(r, c, role, prompt, room), ReviewPossible(r)
  PROVE  ReviewPossible(r)'
<1>1. PICK tokens \in Nat \ {0} : Asked(r, c, role, prompt, tokens)
  BY AskAsks
<1>2. /\ OneCall(c) /\ call'[c].run = r /\ stage'[c] = "asked"
      /\ usage'[r].input = usage[r].input /\ usage'[r].output = usage[r].output
  BY <1>1, AskKeeps
<1>3. InFlight(r)' = {c}
  <2>1. \A d \in CallsOf(r) : stage[d] \notin InProgress
    BY DEF Ask, Idle
  <2>2. \A d \in Calls : d \in InFlight(r)' <=> d = c
    BY <1>2, <2>1 DEF InFlight, CallsOf, OneCall, InProgress
  <2>3. InFlight(r)' \subseteq Calls
    BY DEF InFlight, CallsOf
  <2>4. QED
    BY <2>2, <2>3
<1>4. prompt \in Nat
  BY BudgetAssumption
<1>5. ReservedInput'[c] = prompt /\ ReservedOutput'[c] = tokens
  <2>1. resv \in [Calls -> ResvRow]
    BY DEF Typed, CallsTyped
  <2>2. resv'[c].input = prompt /\ resv'[c].output = tokens
    BY <1>1, <2>1 DEF Asked, ResvRow
  <2>3. QED
    BY <2>2 DEF ReservedInput, ReservedOutput
<1>6. Total(ReservedInput', {c}) = prompt /\ Total(ReservedOutput', {c}) = tokens
  <2>1. {} \in SUBSET Calls /\ c \in Calls \ {} /\ {} \cup {c} = {c}
    OBVIOUS
  <2>2. ASSUME NEW f \in [Calls -> Nat] PROVE Total(f, {c}) = f[c]
    <3>1. Total(f, {} \cup {c}) = Total(f, {}) + f[c]
      BY <2>1, JoinedTotal
    <3>2. Total(f, {}) = 0 /\ f[c] \in Nat
      BY TotalOfEmpty
    <3>3. QED
      BY <2>1, <3>1, <3>2
  <2>3. QED
    BY <1>5, <2>2, LedgerTypesNext
<1>7. /\ Budget.calls \in Nat /\ Budget.reservedCalls \in Nat /\ Budget.input \in Nat
      /\ Budget.output \in Nat /\ Budget.reservedInput \in Nat /\ Budget.reservedOutput \in Nat
  BY BudgetAssumption
<1>8. PICK u \in UsageRow : u = usage[r]
  BY DEF Typed, CallsTyped
<1>9. /\ usage'[r].calls = u.calls + 1
      /\ usage'[r].verifier = IF role = "verifier" THEN u.verifier + 1 ELSE u.verifier
  <2>1. usage \in [Runs -> UsageRow]
    BY DEF Typed, CallsTyped
  <2>2. PICK v : v = IF role = "verifier" THEN u.verifier + 1 ELSE u.verifier
    OBVIOUS
  <2>3. usage' = [usage EXCEPT ![r].calls = @ + 1, ![r].verifier = v]
    BY <1>1, <1>8, <2>2 DEF Asked
  <2>4. QED
    BY <1>8, <2>1, <2>2, <2>3 DEF UsageRow
<1>10. u.calls \in Nat /\ u.verifier \in Nat /\ u.input \in Nat /\ u.output \in Nat
  BY DEF UsageRow
<1>11. PICK m \in 0 .. Budget.reservedCalls : m = ReviewsLeft(r) /\ VerifierReserve(r).calls = m
  BY <1>8, <1>10, ReserveByReviews
<1>12. PICK n \in 0 .. Budget.reservedCalls :
         n = IF role = "verifier" /\ m > 0 THEN m - 1 ELSE m
  BY <1>7
<1>13. ReviewsLeft(r)' = n
  <2>1. m = IF Budget.reservedCalls < u.verifier THEN 0 ELSE Budget.reservedCalls - u.verifier
    BY <1>7, <1>8, <1>10, <1>11 DEF ReviewsLeft, Smaller
  <2>2. PICK w \in Nat : w = usage'[r].verifier
    BY <1>9, <1>10
  <2>3. ReviewsLeft(r)' = IF Budget.reservedCalls < w THEN 0 ELSE Budget.reservedCalls - w
    BY <1>7, <2>2 DEF ReviewsLeft, Smaller
  <2>4. QED
    BY <1>7, <1>9, <1>10, <1>12, <2>1, <2>2, <2>3
<1>14. PICK si \in Nat, so \in Nat :
         si = Share(Budget.reservedInput, n) /\ so = Share(Budget.reservedOutput, n)
  BY <1>7, ShareType
<1>15. VerifierReserve(r)' = [calls |-> n, input |-> si, output |-> so]
  BY <1>13, <1>14 DEF VerifierReserve, Share
<1>16. PICK k \in [calls : Nat, input : Nat, output : Nat] : k = Kept(r, role)
  BY KeptType
<1>17. k.input >= si /\ k.output >= so /\ (role # "verifier" => k.calls >= m)
  BY <1>11, <1>12, <1>14, <1>16, KeptSuffices
<1>18. k.calls \in Nat /\ k.input \in Nat /\ k.output \in Nat
  OBVIOUS
<1>19. Budget.calls - (u.calls + 1) >= n
  <2>1. CASE role = "verifier"
    <3>1. Budget.calls - u.calls >= m
      BY <1>8, <1>11 DEF ReviewPossible
    <3>2. u.calls < Budget.calls
      BY <1>8 DEF Ask, RunAdmits
    <3>3. QED
      BY <1>7, <1>10, <1>12, <2>1, <3>1, <3>2
  <2>2. CASE role # "verifier"
    <3>1. ~Exhausted(r, k)
      BY <1>16, <2>2 DEF Ask, RunAdmits
    <3>2. ~(Budget.calls - u.calls <= k.calls)
      BY <1>8, <3>1 DEF Exhausted
    <3>3. QED
      BY <1>7, <1>10, <1>12, <1>17, <1>18, <2>2, <3>2
  <2>3. QED
    BY <2>1, <2>2
<1>20. Budget.input - u.input - prompt >= si
  <2>1. prompt <= Budget.input - u.input - k.input
    BY <1>8, <1>16 DEF Ask, RunAdmits
  <2>2. QED
    BY <1>4, <1>7, <1>10, <1>17, <1>18, <2>1
<1>21. Budget.output - u.output - tokens >= so
  <2>1. tokens <= Budget.output - u.output - k.output
    BY <1>1, <1>8, <1>16 DEF Asked
  <2>2. QED
    BY <1>7, <1>10, <1>17, <1>18, <2>1
<1>22. QED
  BY <1>2, <1>3, <1>6, <1>8, <1>9, <1>15, <1>19, <1>20, <1>21 DEF ReviewPossible

\* Handling a call leaves what was reserved for any call; the run's usage changes
\* only when the call is booked, and a call does not come into flight by it.
LEMMA HandlesReviews ==
  ASSUME Typed, NEW c \in Calls, Handle(c)
  PROVE  /\ \A d \in Calls : resv'[d].input = resv[d].input /\ resv'[d].output = resv[d].output
         /\ usage' = usage \/ Book(c)
         /\ stage'[c] \in {"asked", "answered", "accounted"}
              => stage[c] \in {"asked", "answered", "accounted"}
<1>0. /\ resv \in [Calls -> ResvRow]
      /\ stage \in [Calls -> InProgress \union {"unused", "dead", "closed"}]
  BY DEF Typed, CallsTyped
<1>1. ASSUME NEW how \in {"dead", "closed", "failing"}, Leave(c, how) PROVE stage'[c] = how
  BY <1>0, <1>1 DEF Leave
<1>2. ASSUME Accounted(c) PROVE stage'[c] \in {"accounted", "failing"}
  BY <1>0, <1>1, <1>2 DEF Accounted
<1>3. ASSUME MarkUncertain(c)
      PROVE  \A d \in Calls : resv'[d].input = resv[d].input /\ resv'[d].output = resv[d].output
  <2>1. resv' = resv \/ resv' = [resv EXCEPT ![c].st = "uncertain"]
    BY <1>3 DEF MarkUncertain
  <2>2. QED
    BY <1>0, <2>1 DEF ResvRow
<1>4. CASE Respond(c)
  <2>1. stage[c] = "asked" /\ resv' = resv /\ usage' = usage
    BY <1>4 DEF Respond
  <2>2. QED
    BY <2>1
<1>5. CASE Settle(c)
  <2>1. resv' = resv \/ resv' = [resv EXCEPT ![c].st = "settled"]
    BY <1>5 DEF Settle
  <2>2. \A d \in Calls : resv'[d].input = resv[d].input /\ resv'[d].output = resv[d].output
    BY <1>0, <2>1 DEF ResvRow
  <2>3. stage[c] = "answered" /\ usage' = usage
    BY <1>5 DEF Settle
  <2>4. QED
    BY <2>2, <2>3
<1>6. CASE SettleRaises(c) \/ CloseFailed(c) \/ Die(c)
  <2>1. stage'[c] \in {"dead", "closed", "failing"}
    BY <1>1, <1>6 DEF SettleRaises, CloseFailed, Die
  <2>2. resv' = resv /\ usage' = usage
    BY <1>6 DEF SettleRaises, CloseFailed, Die
  <2>3. QED
    BY <2>1, <2>2
<1>7. CASE Book(c)
  <2>1. resv' = resv /\ stage[c] = "accounted"
    BY <1>7 DEF Book
  <2>2. QED
    BY <1>7, <2>1
<1>8. CASE Doubt(c) \/ Unaccounted(c)
  <2>1. stage[c] = "answered" /\ usage' = usage /\ (MarkUncertain(c) \/ resv' = resv)
    BY <1>8 DEF Doubt, Unaccounted
  <2>2. QED
    BY <1>3, <2>1
<1>9. CASE FenceReservation(c)
  <2>1. MarkUncertain(c) /\ stage' = stage /\ usage' = usage
    BY <1>9 DEF FenceReservation
  <2>2. QED
    BY <1>3, <2>1
<1>10. QED
  BY <1>4, <1>5, <1>6, <1>7, <1>8, <1>9 DEF Handle

\* Handling a call leaves the reviews what they need: what is booked is no more
\* than what the call had reserved, and a call that is not booked only gives back.
LEMMA HandlesLeaveReviews ==
  ASSUME Typed, Typed', ReportsFit, NEW c \in Calls, Handle(c), NEW r \in Runs, ReviewPossible(r)
  PROVE  ReviewPossible(r)'
<1>1. PICK fi \in [Calls -> Nat], fo \in [Calls -> Nat] : fi = ReservedInput /\ fo = ReservedOutput
  BY LedgerTypes
<1>2. ReservedInput' = fi /\ ReservedOutput' = fo
  BY <1>1, HandlesReviews DEF ReservedInput, ReservedOutput
<1>3. PICK T \in SUBSET Calls : T = InFlight(r)
  BY DEF InFlight, CallsOf
<1>4. PICK V \in SUBSET Calls : V = InFlight(r)'
  BY DEF InFlight, CallsOf
<1>5. /\ V \subseteq T /\ T \ {c} \subseteq V
      /\ stage'[c] \notin {"asked", "answered", "accounted"} => V = T \ {c}
  <2>1. \A d \in Calls : call'[d].run = call[d].run
    BY HandlesOne DEF OneCall
  <2>2. \A d \in Calls \ {c} : stage'[d] = stage[d]
    BY HandlesOne DEF OneCall
  <2>3. \A d \in Calls : d \in T <=> call[d].run = r /\ stage[d] \in {"asked", "answered", "accounted"}
    BY <1>3 DEF InFlight, CallsOf
  <2>4. \A d \in Calls : d \in V <=> call'[d].run = r /\ stage'[d] \in {"asked", "answered", "accounted"}
    BY <1>4 DEF InFlight, CallsOf
  <2>5. stage'[c] \in {"asked", "answered", "accounted"}
          => stage[c] \in {"asked", "answered", "accounted"}
    BY HandlesReviews
  <2>6. \A d \in Calls : d \in V => d \in T
    BY <2>1, <2>2, <2>3, <2>4, <2>5
  <2>7. \A d \in Calls : d \in T /\ d # c => d \in V
    BY <2>1, <2>2, <2>3, <2>4
  <2>8. stage'[c] \notin {"asked", "answered", "accounted"} => c \notin V
    BY <2>4
  <2>9. QED
    BY <2>6, <2>7, <2>8
<1>6. /\ Total(fi, T) \in Nat /\ Total(fo, T) \in Nat
      /\ Total(fi, V) \in Nat /\ Total(fo, V) \in Nat
      /\ Total(fi, V) <= Total(fi, T) /\ Total(fo, V) <= Total(fo, T)
      /\ c \in T /\ V = T \ {c} => /\ Total(fi, V) = Total(fi, T) - fi[c]
                                   /\ Total(fo, V) = Total(fo, T) - fo[c]
  <2>1. ASSUME NEW f \in [Calls -> Nat], NEW S \in SUBSET Calls
        PROVE  Total(f, S) \in Nat
    <3>1. IsFiniteSet(Calls)
      BY FiniteAssumption
    <3>2. QED
      BY <3>1, TotalIsNatural
  <2>2. ASSUME NEW f \in [Calls -> Nat], c \in T, V = T \ {c}
        PROVE  Total(f, V) = Total(f, T) - f[c] /\ Total(f, V) <= Total(f, T)
    <3>1. /\ Total(f, T \ {c}) = Total(f, T) - f[c] /\ f[c] \in Nat /\ Total(f, T) \in Nat
      BY <2>2, LeftTotal
    <3>2. QED
      BY <2>2, <3>1
  <2>3. V = T \/ (c \in T /\ V = T \ {c})
    BY <1>5
  <2>4. CASE V = T
    BY <2>1, <2>2, <2>4
  <2>5. CASE c \in T /\ V = T \ {c}
    BY <2>1, <2>2, <2>5
  <2>6. QED
    BY <2>3, <2>4, <2>5
<1>7. PICK u \in UsageRow, w \in UsageRow : u = usage[r] /\ w = usage'[r]
  BY DEF Typed, CallsTyped
<1>8. /\ u.calls \in Nat /\ u.verifier \in Nat /\ u.input \in Nat /\ u.output \in Nat
      /\ w.calls \in Nat /\ w.verifier \in Nat /\ w.input \in Nat /\ w.output \in Nat
  BY DEF UsageRow
<1>9. /\ w.calls = u.calls /\ w.verifier = u.verifier
      /\ w.input + Total(fi, V) <= u.input + Total(fi, T)
      /\ w.output + Total(fo, V) <= u.output + Total(fo, T)
  <2>1. CASE usage' = usage
    BY <1>6, <1>7, <1>8, <2>1
  <2>2. CASE Book(c)
    <3>1. PICK i \in Nat, o \in Nat :
             /\ usage' = AddUsage(call[c].run, i, o)
             /\ answer[c].input # None => i = answer[c].input
             /\ answer[c].output # None => o = answer[c].output
             /\ answer[c].input = None => i = resv[c].input
             /\ answer[c].output = None => o <= resv[c].output
      BY <2>2, BookBooks
    <3>2. stage[c] = "accounted"
      BY <2>2 DEF Book
    <3>3. fi[c] = resv[c].input /\ fo[c] = resv[c].output /\ fi[c] \in Nat /\ fo[c] \in Nat
      BY <1>1 DEF ReservedInput, ReservedOutput
    <3>4. /\ answer[c].input # None => answer[c].input <= resv[c].input
          /\ answer[c].output # None => answer[c].output <= resv[c].output
      BY <3>2 DEF ReportsFit
    <3>5. i <= fi[c] /\ o <= fo[c]
      BY <3>1, <3>3, <3>4
    <3>6. usage \in [Runs -> UsageRow]
      BY DEF Typed, CallsTyped
    <3>7. CASE call[c].run = r
      <4>1. /\ w.calls = u.calls /\ w.verifier = u.verifier
            /\ w.input = u.input + i /\ w.output = u.output + o
        BY <1>7, <3>1, <3>6, <3>7 DEF AddUsage, UsageRow
      <4>2. c \in T
        BY <1>3, <3>2, <3>7 DEF InFlight, CallsOf
      <4>3. stage'[c] \in {"closed", "failing"}
        <5>1. Leave(c, "closed") \/ Leave(c, "failing")
          BY <2>2 DEF Book
        <5>2. stage \in [Calls -> InProgress \union {"unused", "dead", "closed"}]
          BY DEF Typed, CallsTyped
        <5>3. QED
          BY <5>1, <5>2 DEF Leave
      <4>4. V = T \ {c}
        BY <1>5, <4>3
      <4>5. /\ Total(fi, V) = Total(fi, T) - fi[c] /\ Total(fo, V) = Total(fo, T) - fo[c]
        BY <1>6, <4>2, <4>4
      <4>6. QED
        BY <1>6, <1>8, <3>3, <3>5, <4>1, <4>5
    <3>8. CASE call[c].run # r
      <4>1. w = u
        BY <1>7, <3>1, <3>6, <3>8 DEF AddUsage, UsageRow
      <4>2. QED
        BY <1>6, <1>8, <4>1
    <3>9. QED
      BY <3>7, <3>8
  <2>3. QED
    BY <2>1, <2>2, HandlesReviews
<1>10. VerifierReserve(r)' = VerifierReserve(r)
  BY <1>7, <1>9 DEF VerifierReserve, ReviewsLeft
<1>11. PICK m \in Nat, ri \in Nat, ro \in Nat :
         VerifierReserve(r) = [calls |-> m, input |-> ri, output |-> ro]
  <2>1. Budget.reservedInput \in Nat /\ Budget.reservedOutput \in Nat /\ Budget.reservedCalls \in Nat
    BY BudgetAssumption
  <2>2. /\ ReviewsLeft(r) \in 0 .. Budget.reservedCalls
        /\ VerifierReserve(r) = [calls |-> ReviewsLeft(r),
                                 input |-> Share(Budget.reservedInput, ReviewsLeft(r)),
                                 output |-> Share(Budget.reservedOutput, ReviewsLeft(r))]
    BY <1>7, <1>8, ReserveByReviews
  <2>3. PICK m \in 0 .. Budget.reservedCalls : m = ReviewsLeft(r)
    BY <2>2
  <2>4. m \in Nat /\ Share(Budget.reservedInput, m) \in Nat /\ Share(Budget.reservedOutput, m) \in Nat
    BY <2>1, ShareType
  <2>5. QED
    BY <2>2, <2>3, <2>4
<1>12. Budget.calls \in Nat /\ Budget.input \in Nat /\ Budget.output \in Nat
  BY BudgetAssumption
<1>13. /\ Budget.calls - u.calls >= m
       /\ Budget.input - u.input - Total(fi, T) >= ri
       /\ Budget.output - u.output - Total(fo, T) >= ro
  BY <1>1, <1>3, <1>7, <1>11 DEF ReviewPossible
<1>14. /\ Budget.calls - w.calls >= m
       /\ Budget.input - w.input - Total(fi, V) >= ri
       /\ Budget.output - w.output - Total(fo, V) >= ro
  BY <1>6, <1>8, <1>9, <1>12, <1>13
<1>15. QED
  BY <1>2, <1>4, <1>7, <1>10, <1>11, <1>14 DEF ReviewPossible

\* At the start every review is still to come and the budget holds their reserve.
LEMMA ReviewInvInit ==
  ASSUME ReserveIsHeld, Init
  PROVE  ReviewInv
<1>1. Typed /\ UnusedIsFree
  BY BudgetInvInit DEF BudgetInv
<1>2. ReportsFit
  BY DEF Init, ReportsFit
<1>3. ASSUME NEW r \in Runs PROVE ReviewPossible(r)
  <2>1. InFlight(r) = {}
    BY DEF Init, InFlight, CallsOf
  <2>2. Total(ReservedInput, InFlight(r)) = 0 /\ Total(ReservedOutput, InFlight(r)) = 0
    BY <2>1, TotalOfEmpty
  <2>3. /\ usage[r].calls = 0 /\ usage[r].verifier = 0
        /\ usage[r].input = 0 /\ usage[r].output = 0
    BY DEF Init
  <2>4. PICK k \in Nat : k = Budget.reservedCalls
    BY BudgetAssumption
  <2>5. ReviewsLeft(r) = k
    BY <2>3, <2>4 DEF ReviewsLeft, Smaller
  <2>6. VerifierReserve(r) = [calls |-> k, input |-> Share(Budget.reservedInput, k),
                              output |-> Share(Budget.reservedOutput, k)]
    BY <2>3, <2>5, ReserveByReviews
  <2>7. /\ Budget.calls >= k /\ Budget.input >= Share(Budget.reservedInput, k)
        /\ Budget.output >= Share(Budget.reservedOutput, k)
    BY <2>4 DEF ReserveIsHeld
  <2>8. Budget.calls \in Nat /\ Budget.input \in Nat /\ Budget.output \in Nat
    BY BudgetAssumption
  <2>9. QED
    BY <2>2, <2>3, <2>6, <2>7, <2>8 DEF ReviewPossible
<1>4. QED
  BY <1>1, <1>2, <1>3 DEF ReviewInv, ReviewsStayPossible, ReviewPossible

\* Every step leaves the reviews what they need.
LEMMA ReviewInvStep ==
  ASSUME ReserveIsDivided, ReviewInv, [Next]_vars
  PROVE  ReviewInv'
<1>1. /\ Typed /\ UnusedIsFree /\ ReportsFit /\ SharesSuffice /\ MaxOverrun = 0
      /\ \A r \in Runs : ReviewPossible(r)
  BY DEF ReviewInv, ReserveIsDivided, ReviewsStayPossible, ReviewPossible
<1>2. Typed'
  BY <1>1, TypesStep
<1>3. UnusedIsFree' /\ ReportsFit'
  BY <1>1, <1>2, UnusedStep, ReportsStep
<1>4. ASSUME NEW r \in Runs PROVE ReviewPossible(r)'
  <2>1. ASSUME NEW c \in Calls, Handle(c) PROVE ReviewPossible(r)'
    BY <1>1, <1>2, <2>1, HandlesLeaveReviews
  <2>2. ASSUME NEW q \in Runs, NEW c \in Calls, NEW role \in Roles, NEW prompt \in Prompts,
               NEW room \in Rooms, Ask(q, c, role, prompt, room)
        PROVE  ReviewPossible(r)'
    <3>1. CASE q = r
      BY <1>1, <1>2, <2>2, <3>1, AskLeavesReviews
    <3>2. CASE q # r
      <4>1. PICK tokens \in Nat \ {0} : Asked(q, c, role, prompt, tokens)
        BY <1>1, <2>2, AskAsks
      <4>2. /\ OneCall(c) /\ call[c].run = NoRun /\ call'[c].run = q
        BY <1>1, <4>1, AskKeeps
      <4>3. r # NoRun
        BY BudgetAssumption
      <4>4. \A d \in Calls : /\ call[d].run = r <=> d # c /\ call[d].run = r
                             /\ call'[d].run = r <=> d # c /\ call[d].run = r
        BY <3>2, <4>2, <4>3 DEF OneCall
      <4>5. \A d \in Calls \ {c} : stage'[d] = stage[d]
        BY <4>2 DEF OneCall
      <4>6. InFlight(r)' = InFlight(r) /\ InFlight(r) \subseteq Calls \ {c}
        <5>1. \A d \in Calls : d \in InFlight(r)' <=> d \in InFlight(r)
          BY <4>4, <4>5 DEF InFlight, CallsOf
        <5>2. InFlight(r) \subseteq Calls /\ InFlight(r)' \subseteq Calls
          BY DEF InFlight, CallsOf
        <5>3. c \notin InFlight(r)
          BY <4>2, <4>3 DEF InFlight, CallsOf
        <5>4. QED
          BY <5>1, <5>2, <5>3
      <4>7. usage'[r] = usage[r]
        <5>1. usage \in [Runs -> UsageRow]
          BY <1>1 DEF Typed, CallsTyped
        <5>2. usage' = [usage EXCEPT ![q].calls = @ + 1,
                                     ![q].verifier = IF role = "verifier" THEN @ + 1 ELSE @]
          BY <2>2 DEF Ask
        <5>3. QED
          BY <3>2, <5>1, <5>2
      <4>8. \A d \in Calls \ {c} : resv'[d] = resv[d]
        <5>1. resv \in [Calls -> ResvRow]
          BY <1>1 DEF Typed, CallsTyped
        <5>2. QED
          BY <2>2, <5>1 DEF Ask
      <4>9. \A d \in InFlight(r) : /\ resv'[d].input = resv[d].input
                                   /\ resv'[d].output = resv[d].output
        BY <4>6, <4>8
      <4>10. ReviewPossible(r)
        BY <1>1
      <4>11. QED
        BY <1>1, <1>2, <4>6, <4>7, <4>9, <4>10, SameReviews
    <3>3. QED
      BY <3>1, <3>2
  <2>3. ASSUME UNCHANGED <<usage, resv, paid, stage, answer>>,
               \A d \in Calls : call'[d].run = call[d].run
        PROVE  ReviewPossible(r)'
    <3>1. InFlight(r)' = InFlight(r)
      BY <2>3 DEF InFlight, CallsOf
    <3>2. usage'[r] = usage[r] /\ ReviewPossible(r)
      BY <1>1, <2>3
    <3>3. \A d \in InFlight(r) : /\ resv'[d].input = resv[d].input
                                 /\ resv'[d].output = resv[d].output
      BY <2>3
    <3>4. QED
      BY <1>1, <1>2, <3>1, <3>2, <3>3, SameReviews
  <2>4. QED
    BY <1>1, <2>1, <2>2, <2>3, OthersKeep DEF Next
<1>5. ReviewsStayPossible'
  <2>1. ReviewsStayPossible' <=> \A r \in Runs : ReviewPossible(r)'
    BY DEF ReviewsStayPossible, ReviewPossible
  <2>2. QED
    BY <1>4, <2>1
<1>6. QED
  BY <1>2, <1>3, <1>5 DEF ReviewInv

\* If the budget divides its reserve into shares that suffice and the provider
\* does not exceed a reservation, planner and synthesizer calls never use up what
\* is reserved for the reviews still to come (_remaining_verifier_reserve,
\* budget_exhausted, _reserve_model_call; ADR 0008).
THEOREM ReviewsAlwaysStayPossible ==
  ASSUME ReserveIsDivided
  PROVE  Spec => []ReviewsStayPossible
<1>1. Init => ReviewInv
  BY ReviewInvInit DEF ReserveIsDivided
<1>2. ReviewInv /\ [Next]_vars => ReviewInv'
  BY ReviewInvStep
<1>3. ReviewInv => ReviewsStayPossible
  BY DEF ReviewInv
<1>4. QED
  BY <1>1, <1>2, <1>3, PTL DEF Spec

\* Dividing by at least two takes at most half, rounded up.
LEMMA AtMostHalf ==
  ASSUME NEW h \in Nat \ {0}, NEW d \in Nat, d >= 2
  PROVE  CeilDiv(2 * h, d) <= h
<1>1. PICK q \in Int : q = CeilDiv(2 * h, d)
  BY DEF CeilDiv
<1>2. d * q <= 2 * h + d - 1
  BY <1>1 DEF CeilDiv
<1>3. SUFFICES ASSUME q >= h + 1 PROVE FALSE
  BY <1>1
<1>4. PICK e \in Nat : d = e + 2
  <2>1. d - 2 \in Nat /\ d = (d - 2) + 2
    OBVIOUS
  <2>2. QED
    BY <2>1
<1>5. PICK k \in Nat : q = h + 1 + k
  <2>1. q - h - 1 \in Nat /\ q = h + 1 + (q - h - 1)
    BY <1>3
  <2>2. QED
    BY <2>1
<1>6. d * q = e * h + e + e * k + 2 * h + 2 + 2 * k
  BY <1>4, <1>5
<1>7. e * h \in Nat /\ e * k \in Nat
  OBVIOUS
<1>8. QED
  BY <1>2, <1>4, <1>6, <1>7

\* The reserve of DEFAULT_BUDGET is divided like that, also when the limits of a
\* run are lowered (budget_from_snapshot) as long as they hold it: two verifier
\* calls, 20,000 prompt tokens and two minimal completions.
THEOREM DefaultReserveIsDivided ==
  ASSUME Budget.reservedCalls = 2, Budget.reservedInput = 20000, Budget.reservedOutput = 16384,
         Floor["verifier"] = 8192, MaxOverrun = 0,
         Budget.calls >= 2, Budget.verifier >= 2, Budget.input >= 20000, Budget.output >= 16384
  PROVE  ReserveIsDivided
<1>1. /\ Share(20000, 1) = 10000 /\ Share(20000, 2) = 20000 /\ Share(20000, 0) = 0
      /\ Share(16384, 1) = 8192 /\ Share(16384, 2) = 16384 /\ Share(16384, 0) = 0
  BY DEF Share, CeilDiv
<1>2. ReserveIsHeld
  BY <1>1 DEF ReserveIsHeld
<1>3. PICK v \in Nat : v = Budget.verifier
  BY BudgetAssumption
<1>4. CeilDiv(20000, Larger1(v)) <= 10000 /\ CeilDiv(20000, Larger1(v)) \in Nat
  <2>1. Larger1(v) = v /\ v >= 2
    BY <1>3 DEF Larger1
  <2>2. CeilDiv(2 * 10000, v) <= 10000
    BY <2>1, AtMostHalf
  <2>3. 2 * 10000 = 20000 /\ 20000 \in Nat /\ v \in Nat \ {0}
    BY <2>1
  <2>4. CeilDiv(20000, v) \in Nat
    BY <2>3, CeilDivType
  <2>5. QED
    BY <2>1, <2>2, <2>3, <2>4
<1>5. CeilDiv(10000, Larger1(v - 1)) <= 10000 /\ CeilDiv(10000, Larger1(v - 1)) \in Nat
  <2>1. PICK d \in Nat \ {0} : d = Larger1(v - 1)
    BY <1>3 DEF Larger1
  <2>2. CASE d = 1
    BY <2>1, <2>2 DEF CeilDiv
  <2>3. CASE d >= 2
    <3>1. CeilDiv(2 * 5000, d) <= 5000
      BY <2>3, AtMostHalf
    <3>2. 2 * 5000 = 10000 /\ 10000 \in Nat
      OBVIOUS
    <3>3. CeilDiv(10000, d) \in Nat
      BY <3>2, CeilDivType
    <3>4. CeilDiv(10000, d) <= 5000
      BY <3>1, <3>2
    <3>5. QED
      BY <2>1, <3>3, <3>4
  <2>4. QED
    BY <2>1, <2>2, <2>3
<1>6. SharesSuffice
  <2>1. SUFFICES ASSUME NEW n \in 1 .. 2
                 PROVE  LET left == Larger1(v - (2 - n))
                            s    == Share(20000, n)
                        IN /\ s - CeilDiv(s, left) >= Share(20000, n - 1)
                           /\ Share(16384, n) - 8192 >= Share(16384, n - 1)
    BY <1>3 DEF SharesSuffice
  <2>2. CASE n = 1
    <3>1. Larger1(v - (2 - n)) = Larger1(v - 1) /\ n - 1 = 0
      BY <2>2
    <3>2. QED
      BY <1>1, <1>5, <2>2, <3>1
  <2>3. CASE n = 2
    <3>1. Larger1(v - (2 - n)) = Larger1(v) /\ n - 1 = 1
      BY <2>3
    <3>2. QED
      BY <1>1, <1>4, <2>3, <3>1
  <2>4. QED
    BY <2>2, <2>3
<1>7. QED
  BY <1>2, <1>6 DEF ReserveIsDivided

==============================================================================
