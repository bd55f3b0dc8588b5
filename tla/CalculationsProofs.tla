------------------------- MODULE CalculationsProofs -------------------------
(***************************************************************************)
(* The calculations are right for every input that is well formed, not     *)
(* only for the bounded ones: each property of Calculations is a fact      *)
(* about a pure function, proved for an input that satisfies the           *)
(* assumption on its kind, and an invariant because the input of a         *)
(* calculation never changes.                                              *)
(***************************************************************************)
EXTENDS Calculations, FiniteSetTheorems, SequenceTheorems, WellFoundedInduction, TLAPS

-----------------------------------------------------------------------------
(***************************************************************************)
(* The input of a calculation is one of those that are given.              *)
(***************************************************************************)
InputInv ==
  /\ kind = "study" => \E inputs \in StudyInputs : input \in inputs
  /\ kind = "statements" => input \in StatementInputs
  /\ kind = "price" => input \in PriceInputs
  /\ kind = "menu" => input \in MenuInputs
  /\ kind = "amount" => input \in AmountInputs
  /\ kind = "report" => \E inputs \in ReportInputs : input \in inputs
  /\ kind = "account" => input \in AccountInputs

\* The input of a calculation never changes.
LEMMA InputKept == Spec => []InputInv
  <1>1. Init => InputInv
    BY DEF Init, Start, InputInv
  <1>2. InputInv /\ [Next]_vars => InputInv'
    BY DEF InputInv, Next, vars, Compute, ComputeStudy, ComputeStatements, ComputePrice,
           ComputeMenu, ComputeAmount, ComputeReport, ComputeAccount
  <1> QED  BY <1>1, <1>2, PTL DEF Spec

-----------------------------------------------------------------------------
(***************************************************************************)
(* Sums.  A sum is computed by a recursive function: that there is such a  *)
(* function, and what it returns, follow from the least place where it     *)
(* would not be so.                                                        *)
(***************************************************************************)
\* A set of numbers that is not empty has a least one.
LEMMA Smallest ==
  ASSUME NEW S \in SUBSET Nat, S # {}
  PROVE  \E m \in S : \A k \in S : m <= k
  <1> DEFINE less == {ss \in Nat \X Nat : ss[1] < ss[2]}
  <1>1. PICK m \in S : \A k \in S : <<k, m>> \notin less
    BY NatLessThanWellFounded, WFMin DEF OpToRel
  <1>2. ASSUME NEW k \in S, k < m PROVE FALSE
    BY <1>1, <1>2
  <1> QED  BY <1>2

\* A sequence of numbers has its sums up to each place.
IsSumOf(s, a, n) == s = [i \in 0..n |-> IF i = 0 THEN 0 ELSE s[i-1] + a[i]]

\* There is a function of the sums up to each place of a sequence of numbers.
LEMMA SumsExist ==
  ASSUME NEW n \in Nat, NEW a
  PROVE  \E s : IsSumOf(s, a, n)
  <1> DEFINE without == {m \in 0..n : ~ \E s : IsSumOf(s, a, m)}
  <1>1. SUFFICES ASSUME without # {} PROVE FALSE
    BY <1>1
  <1>2. PICK m \in without : \A k \in without : m <= k
    <2>1. without \in SUBSET Nat
      OBVIOUS
    <2> HIDE DEF without
    <2> QED  BY <1>1, <2>1, Smallest
  <1>3. m # 0
    <2>1. IsSumOf([i \in 0..0 |-> 0], a, 0)
      BY DEF IsSumOf
    <2> QED  BY <1>2, <2>1
  <1>4. PICK s : IsSumOf(s, a, m - 1)
    BY <1>2, <1>3
  <1> DEFINE next == [i \in 0..m |-> IF i = m THEN s[m-1] + a[m] ELSE s[i]]
  <1>5. IsSumOf(next, a, m)
    BY <1>3, <1>4 DEF IsSumOf
  <1> QED  BY <1>2, <1>5

\* Sums of numbers that are not negative are not negative.
LEMMA SumsAreNat ==
  ASSUME NEW n \in Nat, NEW a, \A i \in 1..n : a[i] \in Nat, NEW s, IsSumOf(s, a, n)
  PROVE  \A i \in 0..n : s[i] \in Nat
  <1> DEFINE bad == {i \in 0..n : s[i] \notin Nat}
  <1>1. SUFFICES ASSUME bad # {} PROVE FALSE
    BY <1>1
  <1>2. PICK m \in bad : \A k \in bad : m <= k
    <2>1. bad \in SUBSET Nat
      OBVIOUS
    <2> HIDE DEF bad
    <2> QED  BY <1>1, <2>1, Smallest
  <1>3. \A i \in 0..n : s[i] = IF i = 0 THEN 0 ELSE s[i-1] + a[i]
    BY DEF IsSumOf
  <1>4. m # 0 /\ m - 1 \in 0..n
    BY <1>2, <1>3
  <1>5. s[m-1] \in Nat
    BY <1>2, <1>4
  <1> QED  BY <1>2, <1>3, <1>4, <1>5

\* Sums of zeros are zero.
LEMMA SumsAreZero ==
  ASSUME NEW n \in Nat, NEW a, \A i \in 1..n : a[i] = 0, NEW s, IsSumOf(s, a, n)
  PROVE  \A i \in 0..n : s[i] = 0
  <1> DEFINE bad == {i \in 0..n : s[i] # 0}
  <1>1. SUFFICES ASSUME bad # {} PROVE FALSE
    BY <1>1
  <1>2. PICK m \in bad : \A k \in bad : m <= k
    <2>1. bad \in SUBSET Nat
      OBVIOUS
    <2> HIDE DEF bad
    <2> QED  BY <1>1, <2>1, Smallest
  <1>3. \A i \in 0..n : s[i] = IF i = 0 THEN 0 ELSE s[i-1] + a[i]
    BY DEF IsSumOf
  <1>4. m # 0 /\ m - 1 \in 0..n
    BY <1>2, <1>3
  <1>5. s[m-1] = 0
    BY <1>2, <1>4
  <1> QED  BY <1>2, <1>3, <1>4, <1>5

\* What the two sums over the months are.
LEMMA WeightIsASum ==
  ASSUME NEW v \in Seq(STRING)
  PROVE  \E s : /\ IsSumOf(s, [i \in 1..Len(v) |-> MonthWeight(v, i)], Len(v))
                /\ SumTo(MonthWeight, v) = s[Len(v)]
  <1>1. PICK s : IsSumOf(s, [i \in 1..Len(v) |-> MonthWeight(v, i)], Len(v))
    <2> DEFINE a == [i \in 1..Len(v) |-> MonthWeight(v, i)]
    <2>1. Len(v) \in Nat
      OBVIOUS
    <2> HIDE DEF a
    <2>2. \E s : IsSumOf(s, a, Len(v))
      BY <2>1, SumsExist
    <2> QED  BY <2>2 DEF a
  <1>2. s = [i \in 0..Len(v) |-> IF i = 0 THEN 0 ELSE s[i-1] + MonthWeight(v, i)]
    <2>1. \A i \in 0..Len(v) : s[i] = IF i = 0 THEN 0 ELSE s[i-1] + MonthWeight(v, i)
      BY <1>1 DEF IsSumOf
    <2>2. s = [i \in 0..Len(v) |-> s[i]]
      BY <1>1 DEF IsSumOf
    <2> QED  BY <2>1, <2>2
  <1>3. PICK u : /\ u = [i \in 0..Len(v) |-> IF i = 0 THEN 0 ELSE u[i-1] + MonthWeight(v, i)]
                 /\ SumTo(MonthWeight, v) = u[Len(v)]
    BY <1>2 DEF SumTo
  <1>4. IsSumOf(u, [i \in 1..Len(v) |-> MonthWeight(v, i)], Len(v))
    <2> DEFINE a == [i \in 1..Len(v) |-> MonthWeight(v, i)]
    <2>1. \A i \in 0..Len(v) : u[i] = IF i = 0 THEN 0 ELSE u[i-1] + a[i]
      BY <1>3
    <2>2. u = [i \in 0..Len(v) |-> u[i]]
      BY <1>3
    <2> HIDE DEF a
    <2> QED  BY <2>1, <2>2 DEF IsSumOf
  <1> QED  BY <1>3, <1>4

\* So is the index of arrears (paymentBehaviorIndex).
LEMMA ArrearsAreASum ==
  ASSUME NEW v \in Seq(STRING)
  PROVE  \E s : /\ IsSumOf(s, [i \in 1..Len(v) |-> MonthArrears(v, i)], Len(v))
                /\ Arrears(v) = s[Len(v)]
  <1>1. PICK s : IsSumOf(s, [i \in 1..Len(v) |-> MonthArrears(v, i)], Len(v))
    <2> DEFINE a == [i \in 1..Len(v) |-> MonthArrears(v, i)]
    <2>1. Len(v) \in Nat
      OBVIOUS
    <2> HIDE DEF a
    <2>2. \E s : IsSumOf(s, a, Len(v))
      BY <2>1, SumsExist
    <2> QED  BY <2>2 DEF a
  <1>2. s = [i \in 0..Len(v) |-> IF i = 0 THEN 0 ELSE s[i-1] + MonthArrears(v, i)]
    <2>1. \A i \in 0..Len(v) : s[i] = IF i = 0 THEN 0 ELSE s[i-1] + MonthArrears(v, i)
      BY <1>1 DEF IsSumOf
    <2>2. s = [i \in 0..Len(v) |-> s[i]]
      BY <1>1 DEF IsSumOf
    <2> QED  BY <2>1, <2>2
  <1>3. PICK u : /\ u = [i \in 0..Len(v) |-> IF i = 0 THEN 0 ELSE u[i-1] + MonthArrears(v, i)]
                 /\ Arrears(v) = u[Len(v)]
    BY <1>2 DEF SumTo, Arrears
  <1>4. IsSumOf(u, [i \in 1..Len(v) |-> MonthArrears(v, i)], Len(v))
    <2> DEFINE a == [i \in 1..Len(v) |-> MonthArrears(v, i)]
    <2>1. \A i \in 0..Len(v) : u[i] = IF i = 0 THEN 0 ELSE u[i-1] + a[i]
      BY <1>3
    <2>2. u = [i \in 0..Len(v) |-> u[i]]
      BY <1>3
    <2> HIDE DEF a
    <2> QED  BY <2>1, <2>2 DEF IsSumOf
  <1> QED  BY <1>3, <1>4

\* W is a positive number.
LEMMA WeightIsPositive ==
  ASSUME NEW v \in Seq(STRING)
  PROVE  BehaviourWeight(v) \in Nat \ {0}
  <1>1. PICK s : /\ IsSumOf(s, [i \in 1..Len(v) |-> MonthWeight(v, i)], Len(v))
                 /\ SumTo(MonthWeight, v) = s[Len(v)]
    BY WeightIsASum
  <1>2. \A i \in 1..Len(v) : MonthWeight(v, i) \in Nat
    BY DEF MonthWeight, Recency, Window
  <1>3. s[Len(v)] \in Nat
    BY <1>1, <1>2, SumsAreNat
  <1> QED  BY <1>1, <1>3 DEF BehaviourWeight, AtLeast

\* The index of arrears is a number, and 0 when every known month is on time.
LEMMA ArrearsAreNat ==
  ASSUME NEW v \in Seq(STRING)
  PROVE  /\ Arrears(v) \in Nat
         /\ Arrears(v) > 0 => \E i \in 1..Len(v) : Known(v, i) /\ v[i] # "N"
  <1>1. PICK s : /\ IsSumOf(s, [i \in 1..Len(v) |-> MonthArrears(v, i)], Len(v))
                 /\ Arrears(v) = s[Len(v)]
    BY ArrearsAreASum
  <1>2. \A i \in 1..Len(v) : /\ MonthArrears(v, i) \in Nat
                             /\ MonthArrears(v, i) # 0 => Known(v, i) /\ v[i] # "N"
    <2>1. ASSUME NEW i \in 1..Len(v)
          PROVE  /\ MonthArrears(v, i) \in Nat
                 /\ MonthArrears(v, i) # 0 => Known(v, i) /\ v[i] # "N"
      <3>1. Recency(v, i) \in Nat
        BY DEF Recency, Window
      <3>2. Known(v, i) => Severity[v[i]] \in {0, 6, 9, 12, 15, 18, 20}
        BY DEF Known, Severity
      <3>3. v[i] = "N" => Severity[v[i]] = 0
        BY DEF Severity
      <3> QED  BY <3>1, <3>2, <3>3 DEF MonthArrears
    <2> QED  BY <2>1
  <1>3. s[Len(v)] \in Nat
    BY <1>1, <1>2, SumsAreNat
  <1>4. (\A i \in 1..Len(v) : MonthArrears(v, i) = 0) => s[Len(v)] = 0
    BY <1>1, SumsAreZero
  <1> QED  BY <1>1, <1>2, <1>3, <1>4

-----------------------------------------------------------------------------
(***************************************************************************)
(* Arithmetic of the calculations.                                         *)
(***************************************************************************)
\* An integer quotient leaves a rest smaller than its divisor.
LEMMA QuotientBounds ==
  ASSUME NEW a \in Int, NEW b \in Nat \ {0}
  PROVE  /\ a \div b \in Int
         /\ b * (a \div b) <= a
         /\ a < b * (a \div b) + b
  OBVIOUS

\* Multiplying by what is not negative keeps the order.
LEMMA TimesKeepsOrder ==
  ASSUME NEW a \in Int, NEW b \in Int, NEW c \in Nat, a <= b
  PROVE  a * c \in Int /\ b * c \in Int /\ a * c <= b * c
  <1>1. (b - a) * c >= 0
    OBVIOUS
  <1>2. (b - a) * c = b * c - a * c
    OBVIOUS
  <1> QED  BY <1>1, <1>2

-----------------------------------------------------------------------------
(***************************************************************************)
(* The score is an average of the dimensions that were evaluated.          *)
(***************************************************************************)
\* A sum over the dimensions is a number.
LEMMA OverIsInt ==
  ASSUME NEW f \in [Dimensions -> Int]
  PROVE  Over(f) \in Int
  BY DEF Over, Dimensions

\* A sum of weights is positive when one of them is.
LEMMA OverIsPositive ==
  ASSUME NEW e \in [Dimensions -> Nat], NEW d \in Dimensions, e[d] > 0
  PROVE  Over(e) \in Nat \ {0}
  BY DEF Over, Dimensions

\* A weighted sum of what is at most k is at most k times the weights.
LEMMA WeightedAtMost ==
  ASSUME NEW R \in [Dimensions -> Int], NEW e \in [Dimensions -> Nat], NEW k \in Int,
         \A d \in Dimensions : e[d] > 0 => R[d] <= k
  PROVE  Over([d \in Dimensions |-> R[d] * e[d]]) <= k * Over(e)
  <1>1. \A d \in Dimensions : R[d] * e[d] \in Int /\ k * e[d] \in Int /\ R[d] * e[d] <= k * e[d]
    <2>1. ASSUME NEW d \in Dimensions
          PROVE  R[d] * e[d] \in Int /\ k * e[d] \in Int /\ R[d] * e[d] <= k * e[d]
      <3>1. CASE e[d] = 0
        BY <3>1
      <3>2. CASE e[d] # 0
        <4>1. R[d] <= k /\ e[d] \in Nat /\ R[d] \in Int
          BY <3>2
        <4> QED  BY <4>1, TimesKeepsOrder
      <3> QED  BY <3>1, <3>2
    <2> QED  BY <2>1
  <1>2. k * Over(e) = Over([d \in Dimensions |-> k * e[d]])
    BY DEF Over, Dimensions
  <1>3. Over([d \in Dimensions |-> R[d] * e[d]]) <= Over([d \in Dimensions |-> k * e[d]])
    BY <1>1 DEF Over, Dimensions
  <1> QED  BY <1>2, <1>3

\* A weighted sum of what is at least k is at least k times the weights.
LEMMA WeightedAtLeast ==
  ASSUME NEW R \in [Dimensions -> Int], NEW e \in [Dimensions -> Nat], NEW k \in Int,
         \A d \in Dimensions : e[d] > 0 => k <= R[d]
  PROVE  k * Over(e) <= Over([d \in Dimensions |-> R[d] * e[d]])
  <1>1. \A d \in Dimensions : R[d] * e[d] \in Int /\ k * e[d] \in Int /\ k * e[d] <= R[d] * e[d]
    <2>1. ASSUME NEW d \in Dimensions
          PROVE  R[d] * e[d] \in Int /\ k * e[d] \in Int /\ k * e[d] <= R[d] * e[d]
      <3>1. CASE e[d] = 0
        BY <3>1
      <3>2. CASE e[d] # 0
        <4>1. k <= R[d] /\ e[d] \in Nat /\ R[d] \in Int
          BY <3>2
        <4> QED  BY <4>1, TimesKeepsOrder
      <3> QED  BY <3>1, <3>2
    <2> QED  BY <2>1
  <1>2. k * Over(e) = Over([d \in Dimensions |-> k * e[d]])
    BY DEF Over, Dimensions
  <1>3. Over([d \in Dimensions |-> k * e[d]]) <= Over([d \in Dimensions |-> R[d] * e[d]])
    BY <1>1 DEF Over, Dimensions
  <1> QED  BY <1>2, <1>3

\* What is rounded from a weighted sum lies between the terms that count.
LEMMA AverageIsBetween ==
  ASSUME NEW w \in Nat \ {0}, NEW R \in [Dimensions -> Int], NEW e \in [Dimensions -> Nat],
         NEW T \in Int, NEW p \in Dimensions, e[p] > 0,
         NEW X, X = w * Over(e),
         NEW Z, Z = Over([d \in Dimensions |-> (200 * R[d]) * e[d]]),
         (2 * X) * T <= Z + X, Z + X < (2 * X) * T + 2 * X
  PROVE  /\ \E d \in Dimensions : e[d] > 0 /\ 2 * w * T <= 200 * R[d] + w
         /\ \E d \in Dimensions : e[d] > 0 /\ 2 * w * T + w >= 200 * R[d]
  <1> DEFINE R200 == [d \in Dimensions |-> 200 * R[d]]
             S == Over(e)
  <1>1. S \in Nat \ {0} /\ X \in Int
    BY OverIsPositive
  <1>2. R200 \in [Dimensions -> Int]
    OBVIOUS
  <1>3. Z = Over([d \in Dimensions |-> R200[d] * e[d]])
    OBVIOUS
  <1>4. Z \in Int
    BY <1>2, <1>3, OverIsInt
  <1>5. /\ (2 * w * T - w - 1) * S = (2 * X) * T - X - S
        /\ (2 * w * T + w + 1) * S = (2 * X) * T + X + S
    <2> HIDE DEF S
    <2>1. X = w * S
      BY DEF S
    <2>2. (2 * w * T - w - 1) * S = (2 * w * T) * S - w * S - S
      BY <1>1
    <2>3. (2 * w * T + w + 1) * S = (2 * w * T) * S + w * S + S
      BY <1>1
    <2>4. (2 * w * T) * S = (2 * (w * S)) * T
      BY <1>1
    <2> QED  BY <2>1, <2>2, <2>3, <2>4
  <1>6. \E d \in Dimensions : e[d] > 0 /\ 2 * w * T <= 200 * R[d] + w
    <2>1. SUFFICES ASSUME \A d \in Dimensions : e[d] > 0 => R200[d] <= 2 * w * T - w - 1
                   PROVE  FALSE
      OBVIOUS
    <2>2. Z <= (2 * w * T - w - 1) * S
      <3>1. 2 * w * T - w - 1 \in Int
        OBVIOUS
      <3> HIDE DEF R200
      <3> QED  BY <1>2, <1>3, <2>1, <3>1, WeightedAtMost
    <2> HIDE DEF S
    <2> QED  BY <1>1, <1>4, <1>5, <2>2
  <1>7. \E d \in Dimensions : e[d] > 0 /\ 2 * w * T + w >= 200 * R[d]
    <2>1. SUFFICES ASSUME \A d \in Dimensions : e[d] > 0 => 2 * w * T + w + 1 <= R200[d]
                   PROVE  FALSE
      OBVIOUS
    <2>2. (2 * w * T + w + 1) * S <= Z
      <3>1. 2 * w * T + w + 1 \in Int
        OBVIOUS
      <3> HIDE DEF R200
      <3> QED  BY <1>2, <1>3, <2>1, <3>1, WeightedAtLeast
    <2> HIDE DEF S
    <2> QED  BY <1>1, <1>4, <1>5, <2>2
  <1> QED  BY <1>6, <1>7

\* What each evaluation gives is a number, whatever the figures (evaluateCentralRisk).
LEMMA RawIsInt ==
  ASSUME NEW in, WellFormedStudy(in)
  PROVE  Raw(in) \in [Dimensions -> Int]
  <1> DEFINE w == BehaviourWeight(in.central.behaviour)
  <1>1. w \in Nat \ {0}
    BY WeightIsPositive DEF WellFormedStudy
  <1>2. {FinancialHealth(in), PaymentCapacity(in), TermCoherence(in), CapitalExposure(in),
         Veracity(in)} \subseteq {0, 50, 60, 100}
    BY DEF FinancialHealth, PaymentCapacity, TermCoherence, CapitalExposure, Veracity
  <1>3. CentralRisk(in) \in Int
    <2>1. \A x, y \in Int : Clamp(x, 0, y) \in Int
      BY DEF Clamp, AtMost, AtLeast
    <2>2. PICK k \in -15..100 : CentralRisk(in) = Clamp(k * w - 2 * Arrears(in.central.behaviour),
                                                       0, 100 * w)
      <3> DEFINE central == in.central
                 rating == IF central.level # "" THEN central.level
                           ELSE IF central.viability = "alta" THEN "bajo"
                           ELSE IF central.viability = "baja" THEN "alto" ELSE "medio"
                 base == IF central.score # None THEN ScoreBand(central.score)
                         ELSE IF rating = "bajo" THEN 90 ELSE IF rating = "alto" THEN 10 ELSE 50
                 sector == IF central.sector \in {"alto", "4", "5"} THEN 15 ELSE 0
      <3>1. ScoreBand(central.score) \in 0..100
        BY DEF ScoreBand
      <3>2. base \in 0..100 /\ sector \in 0..15
        BY <3>1
      <3>3. CentralRisk(in) = Clamp((base - sector) * w - 2 * Arrears(central.behaviour), 0, 100 * w)
        BY Zenon DEF CentralRisk
      <3> HIDE DEF base, sector
      <3> QED  BY <3>2, <3>3
    <2>3. Arrears(in.central.behaviour) \in Int
      BY ArrearsAreNat DEF WellFormedStudy
    <2> HIDE DEF w
    <2>4. k * w \in Int /\ 100 * w \in Int
      BY <1>1
    <2> QED  BY <2>1, <2>2, <2>3, <2>4
  <1> HIDE DEF w
  <1>4. \A x \in {0, 50, 60, 100} : x * w \in Int
    BY <1>1
  <1> QED  BY <1>2, <1>3, <1>4 DEF Raw, Dimensions, w

\* The score of an input is an average of the dimensions that count (computeScore).
LEMMA ScoreBetweenItsParts ==
  ASSUME NEW in, WellFormedStudy(in)
  PROVE  BetweenItsParts(in)
  <1> DEFINE w == BehaviourWeight(in.central.behaviour)
             R == Raw(in)
             e == EvaluableWeights(in)
             T == TotalScore(in)
             X == Denominator(in)
             Z == Over([d \in Dimensions |-> (200 * R[d]) * e[d]])
  <1>1. w \in Nat \ {0} /\ R \in [Dimensions -> Int]
    BY WeightIsPositive, RawIsInt DEF WellFormedStudy
  <1>2. e \in [Dimensions -> Nat]
    BY DEF EvaluableWeights, WellFormedStudy
  <1>3. SUFFICES ASSUME NEW p \in Dimensions, e[p] > 0
                 PROVE  /\ \E d \in Dimensions : e[d] > 0 /\ 2 * w * T <= 200 * R[d] + w
                        /\ \E d \in Dimensions : e[d] > 0 /\ 2 * w * T + w >= 200 * R[d]
    BY DEF BetweenItsParts
  <1>4. X = w * Over(e) /\ Over(e) \in Nat \ {0} /\ X \in Nat \ {0}
    <2>1. X = w * Over(e)
      BY DEF Denominator, ScaledBy
    <2>2. Over(e) \in Nat \ {0}
      BY <1>2, <1>3, OverIsPositive
    <2> HIDE DEF w, e, X
    <2> QED  BY <1>1, <2>1, <2>2
  <1>5. 2 * Over(Parts(in)) = Z /\ Z \in Int
    <2>1. Parts(in) = [d \in Dimensions |-> R[d] * e[d] * 100]
      BY DEF Parts, WellFormedStudy, ValidWeights, TotalWeight
    <2> HIDE DEF R, e
    <2>2. \A d \in Dimensions : (200 * R[d]) * e[d] = 2 * (R[d] * e[d] * 100)
                                /\ R[d] * e[d] * 100 \in Int
      BY <1>1, <1>2
    <2>3. 2 * Over([d \in Dimensions |-> R[d] * e[d] * 100]) = Z
      BY <2>2 DEF Over, Dimensions
    <2>4. Z \in Int
      BY <2>2 DEF Over, Dimensions
    <2> QED  BY <2>1, <2>3, <2>4
  <1>6. T = (Z + X) \div (2 * X)
    BY <1>4, <1>5 DEF TotalScore, Rounded, ScaledBy
  <1> HIDE DEF w, R, e, T, X, Z
  <1>7. T \in Int /\ (2 * X) * T <= Z + X /\ Z + X < (2 * X) * T + 2 * X
    <2>1. Z + X \in Int /\ 2 * X \in Nat \ {0}
      BY <1>4, <1>5
    <2> QED  BY <1>6, <2>1, QuotientBounds
  <1> QED  BY <1>1, <1>2, <1>3, <1>4, <1>7, AverageIsBetween DEF Z

\* Whatever cannot be evaluated, the score of a study lies between the worst
\* and the best of the dimensions that were (TotalScore, ScaledBy).
THEOREM ScoreIsAnAverageHolds == Spec => []ScoreIsAnAverage
  <1>1. InputInv => ScoreIsAnAverage
    BY StudyAssumption, ScoreBetweenItsParts DEF InputInv, ScoreIsAnAverage, StudyAssumption
  <1> QED  BY <1>1, InputKept, PTL

-----------------------------------------------------------------------------
(***************************************************************************)
(* What the bureau says bounds the verdict.                                *)
(***************************************************************************)
\* A natural person whose income is all committed pays nothing more.
LEMMA CommittedIncomePaysNothing ==
  ASSUME NEW in, WellFormedStudy(in), in.person = "naturalPerson",
         in.central.income > 0, in.central.quota >= 100
  PROVE  Capacity(in) \in Int /\ Capacity(in) <= 0
  <1>1. {in.figures.capacity, in.central.income, in.central.quota} \subseteq Int
    BY DEF WellFormedStudy
  <1>2. 100 - Clamp(AtLeast(in.central.quota, 0), 0, 100) = 0
    BY <1>1 DEF Clamp, AtMost, AtLeast
  <1>3. in.central.income * (100 - Clamp(AtLeast(in.central.quota, 0), 0, 100)) = 0
    BY <1>1, <1>2
  <1>4. Rounded(0, 100) = 0
    BY DEF Rounded
  <1> QED  BY <1>1, <1>3, <1>4 DEF Capacity

\* The verdict of an input is bounded by the bureau.
LEMMA BureauBoundsTheVerdict ==
  ASSUME NEW in, WellFormedStudy(in)
  PROVE  BureauBounds(in)
  <1>1. ASSUME MarksHighRisk(in.central) \/ in.central.suggested = 0
        PROVE  Status(in) # "approved"
    BY <1>1 DEF Status, CappedToConditional
  <1>2. ASSUME in.person = "naturalPerson", in.central.income > 0, in.central.quota >= 100
        PROVE  Status(in) = "rejected" /\ ApprovedCredit(in) <= 0
    <2>1. Capacity(in) \in Int /\ Capacity(in) <= 0
      BY <1>2, CommittedIncomePaysNothing
    <2>2. AtLeast(Capacity(in), 0) = 0
      BY <2>1 DEF AtLeast
    <2>3. in.request.term \in Int /\ in.request.credit \in Int
      BY DEF WellFormedStudy
    <2>4. PayableInTerm(in) = 0
      BY <2>2, <2>3 DEF PayableInTerm
    <2>5. Rounded(0, 30) = 0
      BY DEF Rounded
    <2>6. ApprovedCredit(in) <= 0
      BY <2>3, <2>4, <2>5 DEF ApprovedCredit, None
    <2> QED  BY <2>1, <2>6 DEF Status
  <1> QED  BY <1>1, <1>2 DEF BureauBounds

\* Nobody whom the bureau marks in high risk is approved, nor a natural person
\* whose income is all committed, whatever the weights (evaluateStatus).
THEOREM BureauIsRespectedHolds == Spec => []BureauIsRespected
  <1>1. InputInv => BureauIsRespected
    BY StudyAssumption, BureauBoundsTheVerdict DEF InputInv, BureauIsRespected, StudyAssumption
  <1> QED  BY <1>1, InputKept, PTL

-----------------------------------------------------------------------------
(***************************************************************************)
(* Places.  A finite set with a strict total order R has an element for    *)
(* each place: the one with that many before it.                           *)
(***************************************************************************)
StrictOrder(S, R) ==
  /\ \A x \in S : <<x, x>> \notin R
  /\ \A x, y, z \in S : <<x, y>> \in R /\ <<y, z>> \in R => <<x, z>> \in R
  /\ \A x, y \in S : x # y => <<x, y>> \in R \/ <<y, x>> \in R

Before(S, R, x) == {y \in S : <<y, x>> \in R}
Rank(S, R, x) == Cardinality(Before(S, R, x))

\* What is before an element is finite and does not have the element.
LEMMA RankIsBounded ==
  ASSUME NEW S, IsFiniteSet(S), NEW R, StrictOrder(S, R), NEW x \in S
  PROVE  /\ IsFiniteSet(Before(S, R, x))
         /\ Rank(S, R, x) \in 0..(Cardinality(S) - 1)
  <1> DEFINE B == Before(S, R, x)
  <1>1. B \in SUBSET S /\ B \cup {x} \in SUBSET S /\ x \notin B
    BY DEF Before, StrictOrder
  <1>2. IsFiniteSet(B) /\ IsFiniteSet(B \cup {x})
    BY <1>1, FS_Subset
  <1>3. Cardinality(B \cup {x}) = Cardinality(B) + 1
    <2> HIDE DEF B
    <2> QED  BY <1>1, <1>2, FS_AddElement
  <1>4. Cardinality(B \cup {x}) <= Cardinality(S)
    BY <1>1, FS_Subset
  <1>5. Cardinality(B) \in Nat /\ Cardinality(S) \in Nat
    BY <1>2, FS_CardinalityType
  <1> HIDE DEF B
  <1>6. Rank(S, R, x) = Cardinality(B) /\ B = Before(S, R, x)
    BY DEF Rank, B
  <1> QED  BY <1>2, <1>3, <1>4, <1>5, <1>6

\* Who comes later has more elements before it.
LEMMA RankGrows ==
  ASSUME NEW S, IsFiniteSet(S), NEW R, StrictOrder(S, R),
         NEW x \in S, NEW y \in S, <<x, y>> \in R
  PROVE  Rank(S, R, x) < Rank(S, R, y)
  <1> DEFINE B == Before(S, R, x)
             C == Before(S, R, y)
  <1>1. B \cup {x} \in SUBSET C /\ x \notin B
    BY DEF Before, StrictOrder
  <1>2. IsFiniteSet(B) /\ IsFiniteSet(C)
    BY RankIsBounded
  <1>3. Rank(S, R, x) = Cardinality(B) /\ Rank(S, R, y) = Cardinality(C)
    BY DEF Rank
  <1> HIDE DEF B, C
  <1>4. Cardinality(B \cup {x}) = Cardinality(B) + 1
    BY <1>1, <1>2, FS_AddElement
  <1>5. Cardinality(B \cup {x}) <= Cardinality(C)
    BY <1>1, <1>2, FS_Subset
  <1>6. Cardinality(B) \in Nat /\ Cardinality(C) \in Nat
    BY <1>2, FS_CardinalityType
  <1> QED  BY <1>3, <1>4, <1>5, <1>6

\* Each place is that of an element: sorting by rank is a permutation.
LEMMA PlacesAreTaken ==
  ASSUME NEW S, IsFiniteSet(S), NEW R, StrictOrder(S, R),
         NEW k \in 0..(Cardinality(S) - 1)
  PROVE  \E x \in S : Rank(S, R, x) = k
  <1> DEFINE T == 0..(Cardinality(S) - 1)
             f == [x \in S |-> Rank(S, R, x)]
  <1>1. Cardinality(S) \in Nat
    BY FS_CardinalityType
  <1>2. IsFiniteSet(T) /\ Cardinality(T) = Cardinality(S)
    BY <1>1, FS_Interval
  <1>3. f \in [S -> T]
    BY RankIsBounded
  <1>4. ASSUME NEW x \in S, NEW y \in S, x # y PROVE f[x] # f[y]
    <2>1. Rank(S, R, x) \in Int /\ Rank(S, R, y) \in Int
      BY RankIsBounded
    <2>2. Rank(S, R, x) < Rank(S, R, y) \/ Rank(S, R, y) < Rank(S, R, x)
      BY <1>4, RankGrows DEF StrictOrder
    <2> QED  BY <2>1, <2>2
  <1>5. f \in Injection(S, T)
    <2> HIDE DEF f, T
    <2> QED  BY <1>3, <1>4 DEF Injection, IsInjective
  <1>6. f \in Surjection(S, T)
    <2> HIDE DEF f, T
    <2> QED  BY <1>2, <1>5, FS_Injection
  <1>7. \E x \in S : f[x] = k
    <2> HIDE DEF f
    <2> QED  BY <1>6 DEF Surjection
  <1> QED  BY <1>7

-----------------------------------------------------------------------------
(***************************************************************************)
(* The price of a pack and its charge.                                     *)
(***************************************************************************)
\* The nearest integer to a quotient is within half of it.
LEMMA NearestBounds ==
  ASSUME NEW x \in Int, NEW y \in Nat \ {0}
  PROVE  /\ Nearest(x, y) \in Int
         /\ (2 * y) * Nearest(x, y) <= 2 * x + y
         /\ 2 * x + y < (2 * y) * Nearest(x, y) + 2 * y
         /\ x >= 0 => Nearest(x, y) >= 0
  <1>1. 2 * x + y \in Int /\ 2 * y \in Nat \ {0}
    OBVIOUS
  <1>2. /\ Nearest(x, y) \in Int
        /\ (2 * y) * Nearest(x, y) <= 2 * x + y
        /\ 2 * x + y < (2 * y) * Nearest(x, y) + 2 * y
    BY <1>1, QuotientBounds DEF Nearest
  <1>3. ASSUME x >= 0, Nearest(x, y) < 0 PROVE FALSE
    <2> DEFINE n == Nearest(x, y)
    <2>1. n + 1 <= 0 /\ n \in Int
      BY <1>2, <1>3
    <2> HIDE DEF n
    <2>2. (2 * y) * (n + 1) <= 0
      BY <2>1
    <2>3. (2 * y) * (n + 1) = (2 * y) * n + 2 * y
      BY <2>1
    <2> QED  BY <1>2, <1>3, <2>2, <2>3 DEF n
  <1> QED  BY <1>2, <1>3

\* Rounding keeps the order.
LEMMA NearestKeepsOrder ==
  ASSUME NEW x \in Int, NEW z \in Int, x <= z, NEW y \in Nat \ {0}
  PROVE  Nearest(x, y) <= Nearest(z, y)
  <1> DEFINE a == Nearest(x, y)
             b == Nearest(z, y)
  <1>1. /\ a \in Int /\ (2 * y) * a <= 2 * x + y
        /\ b \in Int /\ 2 * z + y < (2 * y) * b + 2 * y
    BY NearestBounds
  <1> HIDE DEF a, b
  <1>2. SUFFICES ASSUME b + 1 <= a PROVE FALSE
    BY <1>1 DEF a, b
  <1>3. (2 * y) * (b + 1) <= (2 * y) * a
    <2>1. (b + 1) * (2 * y) <= a * (2 * y)
      BY <1>1, <1>2, TimesKeepsOrder
    <2> QED  BY <1>1, <2>1
  <1>4. (2 * y) * (b + 1) = (2 * y) * b + 2 * y
    BY <1>1
  <1>5. (2 * y) * a \in Int /\ (2 * y) * b \in Int
    BY <1>1
  <1> QED  BY <1>1, <1>3, <1>4, <1>5

\* The total of a pack is not negative and at most its subtotal.
LEMMA TotalIsBounded ==
  ASSUME NEW in, WellFormedPrice(in)
  PROVE  /\ Subtotal(in.offering) \in Nat
         /\ Total(in.offering) \in 0..Subtotal(in.offering)
  <1> DEFINE s == Subtotal(in.offering)
             r == RawDiscount(in.offering)
  <1>1. s \in Nat
    <2>1. \A q, u \in Nat : q * u \in Nat
      OBVIOUS
    <2> QED  BY <2>1 DEF Subtotal, WellFormedPrice
  <1>2. r \in Int
    <2>1. in.offering.discount.value \in Int
      BY DEF WellFormedPrice
    <2>2. s * in.offering.discount.value \in Int
      BY <1>1, <2>1
    <2> QED  BY <2>1, <2>2 DEF RawDiscount
  <1>3. \A x \in Int : RoundToCharmPrice(x) \in Int
    <2>1. \A x \in Int : Nearest(x, 1000) \in Int /\ Nearest(x, 1000000) \in Int
      BY SMT DEF Nearest
    <2> QED  BY <2>1, SMT DEF RoundToCharmPrice
  <1>4. RoundToCharmPrice(1000 * s - r) \in Int
    <2> HIDE DEF s, r
    <2> QED  BY <1>1, <1>2, <1>3
  <1> QED  BY <1>1, <1>2, <1>4 DEF Total, Smaller, Larger

\* The tax of an amount: its base and tax are not negative and add up.
LEMMA TaxAddsUp ==
  ASSUME NEW a \in Nat, NEW rate \in Int, NEW included
  PROVE  LET t == CalculateTax(a, rate, included) IN
         /\ t.base \in Nat /\ t.taxAmount \in Nat /\ t.total \in Nat
         /\ t.base + t.taxAmount = t.total
         /\ t.total = IF a <= 0 \/ rate <= 0 \/ included THEN a ELSE a + Nearest(a * rate, 1000)
  <1> DEFINE base == Nearest(1000 * a, 1000 + rate)
             tax == Nearest(a * rate, 1000)
  <1>1. CASE a <= 0 \/ rate <= 0
    BY <1>1 DEF CalculateTax
  <1>2. CASE a > 0 /\ rate > 0 /\ included
    <2>1. /\ base \in Int
          /\ (2 * (1000 + rate)) * base <= 2 * (1000 * a) + (1000 + rate)
          /\ base >= 0
      BY <1>2, NearestBounds
    <2> HIDE DEF base
    <2>2. base <= a
      <3>1. SUFFICES ASSUME a + 1 <= base PROVE FALSE
        BY <2>1
      <3>2. (2 * (1000 + rate)) * (a + 1) <= (2 * (1000 + rate)) * base
        <4>1. 2 * (1000 + rate) \in Nat
          BY <1>2
        <4>2. (a + 1) * (2 * (1000 + rate)) <= base * (2 * (1000 + rate))
          BY <2>1, <3>1, <4>1, TimesKeepsOrder
        <4> QED  BY <2>1, <4>1, <4>2
      <3>3. (2 * (1000 + rate)) * (a + 1) = 2000 * a + 2000 + 2 * (rate * a) + 2 * rate
        OBVIOUS
      <3>4. rate * a \in Nat
        BY <1>2
      <3>5. (2 * (1000 + rate)) * base \in Int
        BY <2>1
      <3> QED  BY <1>2, <2>1, <3>2, <3>3, <3>4, <3>5
    <2> QED  BY <1>2, <2>1, <2>2 DEF CalculateTax, base
  <1>3. CASE a > 0 /\ rate > 0 /\ ~included
    <2>1. a * rate \in Int /\ a * rate >= 0
      BY <1>3
    <2>2. tax \in Nat
      BY <2>1, NearestBounds
    <2> HIDE DEF tax
    <2> QED  BY <1>3, <2>2 DEF CalculateTax, tax
  <1> QED  BY <1>1, <1>2, <1>3

\* Of a smaller amount no more is charged.
LEMMA TaxKeepsOrder ==
  ASSUME NEW a \in Nat, NEW b \in Nat, a <= b, NEW rate \in Int, NEW included
  PROVE  CalculateTax(a, rate, included).total <= CalculateTax(b, rate, included).total
  <1> DEFINE tax(x) == Nearest(x * rate, 1000)
             total(x) == CalculateTax(x, rate, included).total
  <1>1. \A x \in Nat : total(x) = IF x <= 0 \/ rate <= 0 \/ included THEN x ELSE x + tax(x)
    BY TaxAddsUp
  <1>2. CASE rate <= 0 \/ included \/ b = 0
    BY <1>1, <1>2
  <1>3. CASE rate > 0 /\ ~included /\ b > 0
    <2>1. a * rate \in Int /\ b * rate \in Int /\ a * rate <= b * rate /\ a * rate >= 0
      BY <1>3, TimesKeepsOrder
    <2>2. tax(a) \in Int /\ tax(b) \in Int /\ tax(a) <= tax(b) /\ tax(a) >= 0
      <3>1. tax(a) \in Int /\ tax(b) \in Int /\ tax(a) >= 0
        BY <2>1, NearestBounds
      <3>2. tax(a) <= tax(b)
        BY <2>1, NearestKeepsOrder
      <3> QED  BY <3>1, <3>2
    <2>3. total(b) = b + tax(b)
      BY <1>1, <1>3
    <2>4. total(a) = a \/ total(a) = a + tax(a)
      BY <1>1
    <2> HIDE DEF tax, total
    <2>5. total(a) <= total(b)
      BY <2>2, <2>3, <2>4
    <2> QED  BY <2>5 DEF total
  <1> QED  BY <1>2, <1>3

\* What is charged of a purchase adds up (price, quoteTax).
LEMMA ChargesAddUp ==
  ASSUME NEW in, WellFormedPrice(in)
  PROVE  ChargeAddsUp(in.offering, in.percent, in.rate, in.included)
  <1> DEFINE s == Subtotal(in.offering)
             t == Total(in.offering)
             p == PromoDiscount(in.offering, in.percent)
             a == Larger(0, t - p)
             charge == Charge(in.offering, in.percent, in.rate, in.included)
             announced == CatalogRow(in.offering, in.rate, in.included).tax.total
  <1>1. s \in Nat /\ t \in 0..s
    BY TotalIsBounded
  <1>2. in.percent \in Nat /\ in.rate \in Int
    BY DEF WellFormedPrice
  <1>3. p \in Nat /\ (in.percent = 0 => p = 0)
    <2>1. t * in.percent \in Nat
      BY <1>1, <1>2
    <2>2. in.percent = 0 => t * in.percent = 0
      BY <1>1
    <2>3. Nearest(0, 100) = 0
      BY DEF Nearest
    <2> HIDE DEF t
    <2> QED  BY <2>1, <2>2, <2>3, NearestBounds DEF PromoDiscount, t
  <1>4. a \in Nat /\ a <= t /\ (in.percent = 0 => a = t)
    <2> HIDE DEF s, t, p
    <2> QED  BY <1>1, <1>3 DEF Larger
  <1>5. charge = CalculateTax(a, in.rate, in.included)
    BY DEF Charge
  <1>6. announced = CalculateTax(t, in.rate, in.included).total
    BY DEF CatalogRow
  <1> HIDE DEF s, t, p, a, charge, announced
  <1>7. /\ charge.base \in Nat /\ charge.taxAmount \in Nat
        /\ charge.base + charge.taxAmount = charge.total
    BY <1>2, <1>4, <1>5, TaxAddsUp
  <1>8. charge.total <= announced /\ (in.percent = 0 => charge.total = announced)
    <2>1. t \in Nat
      BY <1>1
    <2> QED  BY <1>2, <1>4, <1>5, <1>6, <2>1, TaxKeepsOrder
  <1>9. LET price == CalculatePackPrice(in.offering) IN
        price.discountAmount \in 0..price.subtotal /\ price.total + price.discountAmount = price.subtotal
    BY <1>1 DEF CalculatePackPrice, s, t
  <1> QED  BY <1>7, <1>8, <1>9 DEF ChargeAddsUp, charge, announced

-----------------------------------------------------------------------------
(***************************************************************************)
(* The menu of packs.                                                      *)
(***************************************************************************)
\* What makes each total larger than the one before, by k where need be.
IsRaised(s, c, k, n) ==
  s = [i \in 0..n |-> IF i = 0 THEN 0 ELSE IF c[i] <= s[i-1] THEN s[i-1] + k ELSE c[i]]

\* There is such a sequence.
LEMMA RaisedExists ==
  ASSUME NEW n \in Nat, NEW c, NEW k
  PROVE  \E s : IsRaised(s, c, k, n)
  <1> DEFINE without == {m \in 0..n : ~ \E s : IsRaised(s, c, k, m)}
  <1>1. SUFFICES ASSUME without # {} PROVE FALSE
    BY <1>1
  <1>2. PICK m \in without : \A j \in without : m <= j
    <2>1. without \in SUBSET Nat
      OBVIOUS
    <2> HIDE DEF without
    <2> QED  BY <1>1, <2>1, Smallest
  <1>3. m # 0
    <2>1. IsRaised([i \in 0..0 |-> 0], c, k, 0)
      BY DEF IsRaised
    <2> QED  BY <1>2, <2>1
  <1>4. PICK s : IsRaised(s, c, k, m - 1)
    BY <1>2, <1>3
  <1> DEFINE last == IF c[m] <= s[m-1] THEN s[m-1] + k ELSE c[m]
             next == [i \in 0..m |-> IF i = m THEN last ELSE s[i]]
  <1>5. IsRaised(next, c, k, m)
    BY <1>3, <1>4 DEF IsRaised
  <1> QED  BY <1>2, <1>5

\* It grows, and no total is smaller than it was.
LEMMA RaisedGrows ==
  ASSUME NEW n \in Nat, NEW c, \A i \in 1..n : c[i] \in Int, NEW k \in Nat \ {0},
         NEW s, IsRaised(s, c, k, n)
  PROVE  \A i \in 1..n : s[i] \in Int /\ s[i-1] \in Int /\ s[i] > s[i-1] /\ s[i] >= c[i]
  <1> DEFINE bad == {i \in 0..n : s[i] \notin Int}
  <1>1. \A i \in 0..n : s[i] = IF i = 0 THEN 0 ELSE IF c[i] <= s[i-1] THEN s[i-1] + k ELSE c[i]
    BY DEF IsRaised
  <1>2. bad = {}
    <2>1. SUFFICES ASSUME bad # {} PROVE FALSE
      BY <2>1
    <2>2. PICK m \in bad : \A j \in bad : m <= j
      <3>1. bad \in SUBSET Nat
        OBVIOUS
      <3> HIDE DEF bad
      <3> QED  BY <2>1, <3>1, Smallest
    <2>3. m # 0 /\ m - 1 \in 0..n
      BY <1>1, <2>2
    <2>4. s[m-1] \in Int
      BY <2>2, <2>3
    <2> QED  BY <1>1, <2>2, <2>3, <2>4
  <1>3. \A i \in 0..n : s[i] \in Int
    BY <1>2
  <1> QED  BY <1>1, <1>3

\* A menu has at least one size, and each is a positive number.
LEMMA SizesArePositive ==
  ASSUME NEW in, WellFormedMenu(in)
  PROVE  PackSizes(in) \in Seq(Nat \ {0}) /\ Len(PackSizes(in)) \in Nat \ {0}
  <1> DEFINE from == IF in.sizes = {} THEN DefaultPackSizes ELSE in.sizes
             Z == {Larger(1, q) : q \in from}
             R == {p \in Z \X Z : p[1] < p[2]}
             n == Cardinality(Z)
  <1>1. from \in SUBSET Nat /\ IsFiniteSet(from) /\ from # {}
    <2>1. IsFiniteSet(DefaultPackSizes) /\ DefaultPackSizes \in SUBSET Nat
      <3>1. DefaultPackSizes \in SUBSET Nat /\ \A q \in DefaultPackSizes : q <= 200
        BY DEF DefaultPackSizes
      <3>2. 200 \in Nat
        OBVIOUS
      <3> QED  BY <3>1, <3>2, FS_BoundedSetOfNaturals
    <2> QED  BY <2>1 DEF WellFormedMenu, DefaultPackSizes
  <1>2. Z \in SUBSET (Nat \ {0}) /\ Z # {}
    BY <1>1 DEF Larger
  <1>3. IsFiniteSet(Z)
    <2> DEFINE f == [q \in from |-> Larger(1, q)]
    <2>1. f \in Surjection(from, Z)
      BY DEF Surjection
    <2> HIDE DEF f, from, Z
    <2> QED  BY <1>1, <2>1, FS_Surjection
  <1>4. n \in Nat \ {0}
    <2> HIDE DEF Z
    <2> QED  BY <1>2, <1>3, FS_CardinalityType, FS_EmptySet
  <1>5. StrictOrder(Z, R)
    <2> HIDE DEF Z
    <2>1. \A x, y \in Z : <<x, y>> \in R <=> x < y
      OBVIOUS
    <2> HIDE DEF R
    <2> QED  BY <1>2, <2>1 DEF StrictOrder
  <1>6. ASSUME NEW i \in 1..n
        PROVE  \E q \in Z : Cardinality({r \in Z : r <= q}) = i
    <2>1. PICK q \in Z : Rank(Z, R, q) = i - 1
      <3>1. i - 1 \in 0..(Cardinality(Z) - 1)
        BY <1>4
      <3> HIDE DEF Z, R
      <3> QED  BY <1>3, <1>5, <3>1, PlacesAreTaken
    <2>2. {r \in Z : r <= q} = Before(Z, R, q) \cup {q} /\ q \notin Before(Z, R, q)
      <3> HIDE DEF Z
      <3> DEFINE B == Before(Z, R, q)
                 low == {r \in Z : r <= q}
      <3>1. q \notin B /\ B \subseteq Z
        BY <1>2 DEF Before
      <3>2. ASSUME NEW r \in Z PROVE r \in B \/ r = q <=> r \in low
        <4>1. r \in Int /\ q \in Int
          BY <1>2
        <4>2. r \in B <=> r < q
          BY DEF Before
        <4>3. r \in low <=> r <= q
          OBVIOUS
        <4> HIDE DEF R, B, low
        <4> QED  BY <4>1, <4>2, <4>3
      <3>3. low \subseteq Z /\ q \in Z
        OBVIOUS
      <3> HIDE DEF R, B, low
      <3>4. low = B \cup {q}
        BY <3>1, <3>2, <3>3
      <3> QED  BY <3>1, <3>4 DEF B, low
    <2>3. IsFiniteSet(Before(Z, R, q))
      <3> HIDE DEF Z, R
      <3> QED  BY <1>3, <1>5, RankIsBounded
    <2>4. Cardinality({r \in Z : r <= q}) = Rank(Z, R, q) + 1
      <3> HIDE DEF Z, R
      <3> QED  BY <2>2, <2>3, FS_AddElement DEF Rank
    <2>5. i \in Int
      BY <1>4
    <2> HIDE DEF Z, R
    <2> QED  BY <2>1, <2>4, <2>5
  <1>7. PackSizes(in) = [i \in 1..n |-> CHOOSE q \in Z : Cardinality({r \in Z : r <= q}) = i]
    BY DEF PackSizes
  <1>8. PackSizes(in) \in [1..n -> Nat \ {0}]
    <2> HIDE DEF Z, n
    <2>1. \A i \in 1..n : PackSizes(in)[i] \in Z
      BY <1>6, <1>7
    <2> QED  BY <1>2, <1>7, <2>1
  <1> HIDE DEF n
  <1> QED  BY <1>4, <1>8

\* The step that prices are counted in is a positive number.
LEMMA StepIsPositive ==
  ASSUME NEW in, WellFormedMenu(in)
  PROVE  Step(in) \in Nat \ {0} /\ StartQuantity(in) \in Nat /\ Biggest(in) \in Nat
  <1>1. PackSizes(in) \in Seq(Nat \ {0}) /\ Len(PackSizes(in)) \in Nat \ {0}
    BY SizesArePositive
  <1>2. Biggest(in) \in Nat \ {0} /\ PackSizes(in)[1] \in Nat \ {0}
    BY <1>1 DEF Biggest
  <1>3. StartQuantity(in) \in Nat
    BY <1>2 DEF StartQuantity, WellFormedMenu
  <1> QED  BY <1>2, <1>3 DEF Step

\* A price is a number, counted in parts of Step, and not under the floor.
LEMMA PriceIsOverTheFloor ==
  ASSUME NEW in, WellFormedMenu(in), NEW i \in 1..Len(PackSizes(in))
  PROVE  LET u == UnitRaw(in, PackSizes(in)[i]) IN u \in Int /\ u >= in.floor * Step(in)
  <1> DEFINE q == PackSizes(in)[i]
             d == Step(in)
             p == PriceAt(in, q)
  <1>1. d \in Nat \ {0} /\ StartQuantity(in) \in Nat
    BY StepIsPositive
  <1>2. q \in Nat \ {0}
    BY SizesArePositive
  <1>3. in.p0 \in Nat /\ in.floor \in Nat
    BY DEF WellFormedMenu
  <1>4. in.technique # "linear" => in.curve[q] \in Int
    BY SizesArePositive DEF WellFormedMenu
  <1> HIDE DEF q, d
  <1>5. in.p0 * d \in Int /\ in.floor * d \in Int
        /\ (in.p0 - in.floor) * (q - StartQuantity(in)) \in Int
    BY <1>1, <1>2, <1>3
  <1>6. p \in Int
    BY <1>4, <1>5 DEF PriceAt, d
  <1> HIDE DEF p
  <1>7. UnitRaw(in, q) = Larger(in.floor * d, p)
    BY DEF UnitRaw, d, p
  <1>8. UnitRaw(in, q) \in Int /\ UnitRaw(in, q) >= in.floor * d
    BY <1>5, <1>6, <1>7 DEF Larger
  <1> QED  BY <1>8 DEF q, d

\* So is the total of a pack, up to a peso.
LEMMA CharmIsOverTheFloor ==
  ASSUME NEW in, WellFormedMenu(in), NEW i \in 1..Len(PackSizes(in))
  PROVE  LET q == PackSizes(in)[i] IN
         CharmTotal(in, q) \in Int /\ CharmTotal(in, q) >= (in.floor * q - 1) * Step(in)
  <1> DEFINE q == PackSizes(in)[i]
             d == Step(in)
             u == UnitRaw(in, q)
             f == in.floor * q
             charmDown == Down(u * q + d, 1000 * d) * 1000 - 1
             floorGuard == Up(f, 1000) * 1000 - 1
  <1>1. d \in Nat \ {0}
    BY StepIsPositive
  <1>2. q \in Nat \ {0}
    BY SizesArePositive
  <1>3. in.floor \in Nat
    BY DEF WellFormedMenu
  <1>4. u \in Int /\ u >= in.floor * d
    BY PriceIsOverTheFloor
  <1>5. CharmTotal(in, q) = IF in.charm /\ q > 1 /\ u < in.p0 * d
                            THEN Larger(charmDown, floorGuard) * d ELSE u * q
    BY DEF CharmTotal
  <1> HIDE DEF q, d, u
  <1>6. f \in Nat
    BY <1>2, <1>3
  <1>7. u * q \in Int /\ u * q >= f * d /\ f * d \in Int /\ f * d >= (f - 1) * d
    <2>1. in.floor * d \in Int
      BY <1>1, <1>3
    <2>2. (in.floor * d) * q <= u * q /\ u * q \in Int
      BY <1>2, <1>4, <2>1, TimesKeepsOrder
    <2>3. (in.floor * d) * q = f * d
      BY <1>1, <1>2, <1>3
    <2> HIDE DEF f
    <2>4. (f - 1) * d <= f * d /\ f * d \in Int
      BY <1>1, <1>6, TimesKeepsOrder
    <2> QED  BY <2>2, <2>3, <2>4
  <1>8. charmDown \in Int
    <2>1. u * q + d \in Int /\ 1000 * d \in Nat \ {0}
      BY <1>1, <1>7
    <2>2. (u * q + d) \div (1000 * d) \in Int
      BY <2>1, QuotientBounds
    <2> QED  BY <2>2 DEF Down
  <1>9. floorGuard \in Int /\ floorGuard >= f - 1
    <2> HIDE DEF f
    <2> QED  BY <1>6 DEF Up
  <1> DEFINE larger == Larger(charmDown, floorGuard)
  <1> HIDE DEF f, charmDown, floorGuard
  <1>10. larger \in Int /\ larger >= f - 1
    BY <1>6, <1>8, <1>9 DEF Larger
  <1> HIDE DEF larger
  <1>11. larger * d \in Int /\ larger * d >= (f - 1) * d
    BY <1>1, <1>6, <1>10, TimesKeepsOrder
  <1>12. (f - 1) * d \in Int
    BY <1>1, <1>6
  <1>13. CharmTotal(in, q) \in Int /\ CharmTotal(in, q) >= (f - 1) * d
    BY <1>5, <1>7, <1>11, <1>12 DEF larger
  <1> QED  BY <1>13 DEF q, d, f

\* In a menu no pack costs less than a smaller one.
LEMMA MenusGrow ==
  ASSUME NEW in, WellFormedMenu(in)
  PROVE  MenuGrows(in)
  <1> DEFINE sizes == PackSizes(in)
             n == Len(sizes)
             d == Step(in)
             k == 1000 * d
             c == [i \in 1..n |-> CharmTotal(in, sizes[i])]
  <1>1. d \in Nat \ {0} /\ k \in Nat \ {0}
    BY StepIsPositive
  <1>2. n \in Nat
    BY SizesArePositive
  <1>3. \A i \in 1..n : c[i] \in Int /\ c[i] >= (in.floor * sizes[i] - 1) * d
    BY CharmIsOverTheFloor
  <1>4. PICK s : /\ IsRaised(s, c, k, n)
                 /\ Totals(in) = [i \in 1..n |-> s[i]]
    <2> DEFINE Raises(t) == t = [i \in 0..n |-> IF i = 0 THEN 0
                                                ELSE IF CharmTotal(in, sizes[i]) <= t[i-1]
                                                     THEN t[i-1] + k ELSE CharmTotal(in, sizes[i])]
    <2>1. \A t : Raises(t) <=> IsRaised(t, c, k, n)
      <3>1. ASSUME NEW t, Raises(t) PROVE IsRaised(t, c, k, n)
        <4>1. \A i \in 0..n : t[i] = IF i = 0 THEN 0 ELSE IF c[i] <= t[i-1] THEN t[i-1] + k ELSE c[i]
          BY <1>2, <3>1
        <4>2. t = [i \in 0..n |-> t[i]]
          BY <3>1
        <4> HIDE DEF c
        <4> QED  BY <4>1, <4>2 DEF IsRaised
      <3>2. ASSUME NEW t, IsRaised(t, c, k, n) PROVE Raises(t)
        <4>1. \A i \in 0..n : t[i] = IF i = 0 THEN 0
                                     ELSE IF CharmTotal(in, sizes[i]) <= t[i-1]
                                          THEN t[i-1] + k ELSE CharmTotal(in, sizes[i])
          <5>1. \A i \in 1..n : c[i] = CharmTotal(in, sizes[i])
            OBVIOUS
          <5> HIDE DEF c, k, n, sizes
          <5>2. \A i \in 0..n : t[i] = IF i = 0 THEN 0
                                       ELSE IF c[i] <= t[i-1] THEN t[i-1] + k ELSE c[i]
            BY <3>2 DEF IsRaised
          <5>3. \A i \in 0..n : i # 0 => i \in 1..n
            BY <1>2
          <5> QED  BY <5>1, <5>2, <5>3
        <4>2. t = [i \in 0..n |-> t[i]]
          BY <3>2 DEF IsRaised
        <4> QED  BY <4>1, <4>2
      <3> QED  BY <3>1, <3>2
    <2>2. \E t : Raises(t)
      <3>1. \E t : IsRaised(t, c, k, n)
        <4> HIDE DEF c, k, n
        <4> QED  BY <1>2, RaisedExists
      <3> QED  BY <2>1, <3>1
    <2>3. \E t : Raises(t) /\ Totals(in) = [i \in 1..n |-> t[i]]
      BY <2>2 DEF Totals
    <2> HIDE DEF Raises, c, k, n
    <2> QED  BY <2>1, <2>3
  <1>5. \A i \in 1..n : s[i] \in Int /\ s[i-1] \in Int /\ s[i] > s[i-1] /\ s[i] >= c[i]
    <2> HIDE DEF c, k, n, d, sizes
    <2> QED  BY <1>1, <1>2, <1>3, <1>4, RaisedGrows
  <1>6. Len(Totals(in)) = n
    <2> HIDE DEF n
    <2> QED  BY <1>2, <1>4
  <1>7. ASSUME NEW i \in 1..n
        PROVE  /\ i > 1 => Totals(in)[i] > Totals(in)[i-1]
               /\ Totals(in)[i] >= (in.floor * sizes[i] - 1) * d
    <2>1. Totals(in)[i] = s[i] /\ (i > 1 => Totals(in)[i-1] = s[i-1])
      BY <1>2, <1>4
    <2>2. (in.floor * sizes[i] - 1) * d \in Int
      <3>1. sizes[i] \in Nat /\ in.floor \in Nat
        BY SizesArePositive DEF WellFormedMenu
      <3>2. in.floor * sizes[i] \in Nat
        BY <3>1
      <3> HIDE DEF sizes, d
      <3> QED  BY <1>1, <3>2
    <2> HIDE DEF c, d, n, sizes
    <2> QED  BY <1>3, <1>5, <2>1, <2>2
  <1> QED  BY <1>6, <1>7 DEF MenuGrows

\* What is charged adds up to the peso and is never more than what the
\* catalogue announces, and a bigger pack of the menu costs more (purchase,
\* simulate).
THEOREM PricesAddUpHolds == Spec => []PricesAddUp
  <1>1. InputInv => PricesAddUp
    BY PriceAssumption, MenuAssumption, ChargesAddUp, MenusGrow
       DEF InputInv, PricesAddUp, PriceAssumption, MenuAssumption
  <1> QED  BY <1>1, InputKept, PTL

-----------------------------------------------------------------------------
(***************************************************************************)
(* The current year is compared with the last year before it.              *)
(***************************************************************************)
\* Periods with their years.
HasYears(periods, n) ==
  /\ n \in Nat /\ periods = [i \in 1..n |-> periods[i]] /\ Len(periods) = n
  /\ \A i \in 1..n : periods[i].fiscalYear \in Int

\* Sorting keeps the periods, with the latest year first.
LEMMA SortedByYear ==
  ASSUME NEW periods, NEW n, HasYears(periods, n)
  PROVE  LET s == NewestFirst(periods) IN
         /\ HasYears(s, n)
         /\ \A k \in 1..n : \E i \in 1..n : s[k] = periods[i]
         /\ \A i \in 1..n : \E k \in 1..n : s[k] = periods[i]
         /\ \A k, l \in 1..n : k <= l => s[k].fiscalYear >= s[l].fiscalYear
  <1> DEFINE S == 1..n
             y(i) == periods[i].fiscalYear
             before(i, j) == y(i) > y(j) \/ (y(i) = y(j) /\ i < j)
             R == {p \in S \X S : before(p[1], p[2])}
             at(k) == CHOOSE i \in S : Rank(S, R, i) = k - 1
             s == NewestFirst(periods)
  <1>1. n \in Nat /\ Len(periods) = n /\ \A i \in S : y(i) \in Int /\ i \in Int
    BY DEF HasYears
  <1>2. \A i, j \in S : <<i, j>> \in R <=> before(i, j)
    OBVIOUS
  <1>3. StrictOrder(S, R)
    <2>1. \A i, j \in S : i # j => before(i, j) \/ before(j, i)
      BY <1>1
    <2>2. \A i, j, k \in S : before(i, j) /\ before(j, k) => before(i, k)
      BY <1>1
    <2>3. \A i \in S : ~before(i, i)
      BY <1>1
    <2> HIDE DEF S, R, before
    <2> QED  BY <1>2, <2>1, <2>2, <2>3 DEF StrictOrder
  <1>4. IsFiniteSet(S) /\ Cardinality(S) = n
    BY <1>1, FS_Interval
  <1>5. \A i \in S : Rank(S, R, i) = Cardinality({j \in S : before(j, i)})
    <2>1. \A i \in S : {j \in S : before(j, i)} = Before(S, R, i)
      <3> HIDE DEF S, R, before
      <3> QED  BY <1>2 DEF Before
    <2> QED  BY <2>1 DEF Rank
  <1>6. \A k \in S : at(k) \in S /\ Rank(S, R, at(k)) = k - 1
    <2>1. ASSUME NEW k \in S PROVE \E i \in S : Rank(S, R, i) = k - 1
      <3>1. k - 1 \in 0..(Cardinality(S) - 1)
        BY <1>1, <1>4
      <3> HIDE DEF S, R
      <3> QED  BY <1>3, <1>4, <3>1, PlacesAreTaken
    <2> HIDE DEF S, R
    <2> QED  BY <2>1
  <1>7. s = [k \in S |-> periods[at(k)]]
    <2> DEFINE there(k) == CHOOSE i \in S : Cardinality({j \in S : before(j, i)}) = k - 1
    <2>1. s = [k \in S |-> periods[there(k)]]
      BY <1>1 DEF NewestFirst
    <2>2. \A k : at(k) = there(k)
      <3> HIDE DEF S, R, before
      <3> QED  BY <1>5
    <2> HIDE DEF S, at, there, s
    <2> QED  BY <2>1, <2>2
  <1>8. \A i, j \in S : Rank(S, R, i) < Rank(S, R, j) => before(i, j)
    <2>1. ASSUME NEW i \in S, NEW j \in S, Rank(S, R, i) < Rank(S, R, j), ~before(i, j)
          PROVE  FALSE
      <3>1. Rank(S, R, i) \in Int /\ Rank(S, R, j) \in Int
        <4> HIDE DEF S, R
        <4> QED  BY <1>3, <1>4, RankIsBounded
      <3>2. i # j
        BY <2>1, <3>1
      <3>3. <<j, i>> \in R
        <4> HIDE DEF S, R, before
        <4> QED  BY <1>2, <1>3, <2>1, <3>2 DEF StrictOrder
      <3>4. Rank(S, R, j) < Rank(S, R, i)
        <4> HIDE DEF S, R
        <4> QED  BY <1>3, <1>4, <3>3, RankGrows
      <3> QED  BY <2>1, <3>1, <3>4
    <2> QED  BY <2>1
  <1>9. \A k \in S : s[k] = periods[at(k)] /\ at(k) \in S
    <2> HIDE DEF S, R, at
    <2> QED  BY <1>6, <1>7
  <1>10. HasYears(s, n)
    <2>1. Len(s) = n
      BY <1>1, <1>7
    <2>2. \A k \in S : s[k].fiscalYear \in Int
      <3> HIDE DEF s, at, S
      <3> QED  BY <1>1, <1>9
    <2>3. s = [k \in S |-> s[k]]
      BY <1>7
    <2> HIDE DEF s
    <2> QED  BY <1>1, <2>1, <2>2, <2>3 DEF HasYears
  <1>11. ASSUME NEW i \in S PROVE \E k \in S : s[k] = periods[i]
    <2>1. Rank(S, R, i) \in 0..(n - 1)
      <3> HIDE DEF S, R
      <3> QED  BY <1>3, <1>4, RankIsBounded
    <2>2. PICK k \in S : k - 1 = Rank(S, R, i)
      <3>1. Rank(S, R, i) + 1 \in S /\ (Rank(S, R, i) + 1) - 1 = Rank(S, R, i)
        BY <1>1, <2>1
      <3> QED  BY <3>1
    <2>3. at(k) = i
      <3>1. at(k) \in S /\ Rank(S, R, at(k)) = Rank(S, R, i)
        <4> HIDE DEF S, R, at
        <4> QED  BY <1>6, <2>2
      <3>2. at(k) # i => before(at(k), i) \/ before(i, at(k))
        <4> HIDE DEF at, R
        <4> QED  BY <1>1, <3>1
      <3>3. \A a, b \in S : before(a, b) => Rank(S, R, a) < Rank(S, R, b)
        <4> HIDE DEF S, R, before
        <4> QED  BY <1>2, <1>3, <1>4, RankGrows
      <3> HIDE DEF S, R, at, before
      <3>4. Rank(S, R, i) < Rank(S, R, i) => FALSE
        BY <2>1
      <3> QED  BY <3>1, <3>2, <3>3, <3>4
    <2> HIDE DEF S, R, at
    <2> QED  BY <1>9, <2>3
  <1>12. ASSUME NEW k \in S, NEW l \in S, k <= l PROVE s[k].fiscalYear >= s[l].fiscalYear
    <2>1. CASE k = l
      <3>1. s[k].fiscalYear \in Int
        BY <1>10 DEF HasYears
      <3> HIDE DEF s
      <3> QED  BY <2>1, <3>1
    <2>2. CASE k # l
      <3>1. k - 1 < l - 1
        BY <1>1, <1>12, <2>2
      <3>2. before(at(k), at(l))
        <4> HIDE DEF S, R, at, before
        <4> QED  BY <1>6, <1>8, <3>1
      <3>3. y(at(k)) >= y(at(l))
        <4> HIDE DEF at
        <4> QED  BY <1>1, <1>9, <3>2
      <3> HIDE DEF at, s, S
      <3> QED  BY <1>9, <3>3
    <2> QED  BY <2>1, <2>2
  <1> HIDE DEF s, at, R
  <1>13. \A k \in S : \E i \in S : s[k] = periods[i]
    BY <1>9
  <1> QED  BY <1>10, <1>11, <1>12, <1>13 DEF s

\* Of periods with their years, the prior one is of the last year before.
LEMMA PriorIsTheYearBefore ==
  ASSUME NEW periods, NEW n, HasYears(periods, n)
  PROVE  ComparesWithYearBefore(periods)
  <1> DEFINE s == NewestFirst(periods)
             years == {periods[i].fiscalYear : i \in 1..Len(periods)}
             before == {y \in years : \E z \in years : y < z}
             earlier == {i \in 1..n : s[i].fiscalYear < s[1].fiscalYear}
             prior == SelectPriorPeriod(s)
  <1>1. /\ HasYears(s, n)
        /\ \A k \in 1..n : \E i \in 1..n : s[k] = periods[i]
        /\ \A i \in 1..n : \E k \in 1..n : s[k] = periods[i]
        /\ \A k, l \in 1..n : k <= l => s[k].fiscalYear >= s[l].fiscalYear
    BY SortedByYear
  <1>2. /\ n \in Nat /\ Len(periods) = n /\ Len(s) = n
        /\ \A i \in 1..n : s[i].fiscalYear \in Int
    BY <1>1 DEF HasYears
  <1> HIDE DEF s
  <1>3. years = {s[k].fiscalYear : k \in 1..n}
    <2>1. years = {periods[i].fiscalYear : i \in 1..n}
      BY <1>2
    <2> HIDE DEF years
    <2>2. ASSUME NEW k \in 1..n PROVE s[k].fiscalYear \in years
      BY <1>1, <2>1
    <2>3. ASSUME NEW i \in 1..n PROVE \E k \in 1..n : periods[i].fiscalYear = s[k].fiscalYear
      BY <1>1
    <2> QED  BY <2>1, <2>2, <2>3
  <1>4. before = {s[k].fiscalYear : k \in earlier}
    <2>1. ASSUME NEW k \in earlier PROVE s[k].fiscalYear \in before
      <3>1. 1 \in 1..n /\ k \in 1..n
        BY <1>2
      <3>2. s[1].fiscalYear \in years /\ s[k].fiscalYear \in years
        <4> HIDE DEF years
        <4> QED  BY <1>3, <3>1
      <3> HIDE DEF years
      <3> QED  BY <2>1, <3>2
    <2>2. ASSUME NEW y \in before PROVE \E k \in earlier : y = s[k].fiscalYear
      <3>1. PICK z \in years : y < z
        OBVIOUS
      <3>2. PICK k \in 1..n : y = s[k].fiscalYear
        <4>1. y \in years
          OBVIOUS
        <4> HIDE DEF years, before
        <4> QED  BY <1>3, <4>1
      <3>3. PICK l \in 1..n : z = s[l].fiscalYear
        <4> HIDE DEF years
        <4> QED  BY <1>3
      <3>4. s[1].fiscalYear >= s[l].fiscalYear /\ s[1].fiscalYear \in Int
        <4> HIDE DEF before, years
        <4>1. 1 \in 1..n /\ 1 <= l
          BY <1>2
        <4> QED  BY <1>1, <1>2, <4>1
      <3> HIDE DEF before, years
      <3>5. s[k].fiscalYear < s[1].fiscalYear
        BY <1>2, <3>1, <3>2, <3>3, <3>4
      <3> QED  BY <3>2, <3>5
    <2> HIDE DEF before, earlier
    <2> QED  BY <2>1, <2>2
  <1>5. prior = IF earlier # {} THEN <<s[Min(earlier)]>> ELSE <<>>
    <2> DEFINE test(p) == p.fiscalYear < s[1].fiscalYear
    <2>1. SelectInSeq(s, test) = IF earlier # {} THEN Min(earlier) ELSE 0
      BY <1>2 DEF SelectInSeq
    <2>2. earlier # {} => Min(earlier) # 0
      <3>1. earlier # {} => \E m \in earlier : \A k \in earlier : m <= k
        <4>1. earlier \in SUBSET Nat
          OBVIOUS
        <4> HIDE DEF earlier
        <4> QED  BY <4>1, Smallest
      <3>2. earlier # {} => Min(earlier) \in earlier
        <4> HIDE DEF earlier
        <4> QED  BY <3>1 DEF Min
      <3> QED  BY <3>2
    <2> QED  BY <2>1, <2>2 DEF SelectPriorPeriod
  <1>6. CASE earlier = {}
    <2>1. before = {}
      <3> HIDE DEF before
      <3> QED  BY <1>4, <1>6
    <2> HIDE DEF before
    <2>2. prior = <<>>
      <3> HIDE DEF prior, earlier
      <3> QED  BY <1>5, <1>6
    <2> QED  BY <2>1, <2>2 DEF ComparesWithYearBefore, before, s
  <1>7. CASE earlier # {}
    <2> DEFINE m == Min(earlier)
    <2>1. m \in earlier /\ \A k \in earlier : m <= k
      <3>1. \E i \in earlier : \A k \in earlier : i <= k
        <4>1. earlier \in SUBSET Nat
          OBVIOUS
        <4> HIDE DEF earlier
        <4> QED  BY <1>7, <4>1, Smallest
      <3> HIDE DEF earlier
      <3> QED  BY <3>1 DEF Min
    <2>2. prior # <<>> /\ prior[1] = s[m]
      <3> HIDE DEF prior, earlier
      <3> QED  BY <1>5, <1>7
    <2>3. s[m].fiscalYear \in before
      <3> HIDE DEF before, earlier, m
      <3> QED  BY <1>4, <2>1
    <2>4. \A y \in before : y <= s[m].fiscalYear
      <3>1. ASSUME NEW k \in earlier PROVE s[k].fiscalYear <= s[m].fiscalYear
        <4> HIDE DEF m
        <4>1. m \in 1..n /\ k \in 1..n /\ m <= k
          BY <2>1
        <4>2. s[m].fiscalYear >= s[k].fiscalYear /\ s[m].fiscalYear \in Int /\ s[k].fiscalYear \in Int
          BY <1>1, <1>2, <4>1
        <4> QED  BY <4>2
      <3> HIDE DEF before, earlier, m
      <3> QED  BY <1>4, <3>1
    <2>5. before # {}
      <3> HIDE DEF before
      <3> QED  BY <2>3
    <2> HIDE DEF before, earlier, m, prior
    <2> QED  BY <2>2, <2>3, <2>4, <2>5 DEF ComparesWithYearBefore, before, prior, s
  <1> QED  BY <1>6, <1>7

\* The opening balances of a study are those of the last year read before the
\* current one, in whatever order and however often the years come
\* (selectPriorPeriod).
THEOREM PriorYearIsEarlierHolds == Spec => []PriorYearIsEarlier
  <1>1. ASSUME NEW in, WellFormedStatements(in)
        PROVE  ComparesWithYearBefore(PdfPeriods(in.extracted, in.fallback))
    <2> DEFINE e == in.extracted
               p == [i \in 1..Len(e) |-> NormalizeExtractedPeriod(e[i], in.fallback)]
               n == Len(e)
    <2>1. n \in Nat /\ in.fallback \in Int
          /\ \A i \in 1..n : e[i].fiscalYear \in Int /\ e[i].dateYear \in Int
      <3>1. e \in Seq(ExtractedPeriod) /\ in.fallback \in Int
        BY <1>1 DEF WellFormedStatements
      <3>2. \A x \in ExtractedPeriod : x.fiscalYear \in Int /\ x.dateYear \in Int
        BY DEF ExtractedPeriod
      <3> HIDE DEF e
      <3> QED  BY <3>1, <3>2
    <2>2. \A i \in 1..n : p[i].fiscalYear \in Int
      <3>1. \A i \in 1..n : p[i].fiscalYear = FiscalYear(e[i], in.fallback)
        BY DEF NormalizeExtractedPeriod
      <3> HIDE DEF e, n, p
      <3> QED  BY <2>1, <3>1 DEF FiscalYear, OrElse
    <2>3. HasYears(p, n)
      <3>1. p = [i \in 1..n |-> p[i]] /\ Len(p) = n
        BY <2>1
      <3> HIDE DEF p, n
      <3> QED  BY <2>1, <2>2, <3>1 DEF HasYears
    <2> HIDE DEF p, n
    <2>4. HasYears(NewestFirst(p), n)
      BY <2>3, SortedByYear
    <2>5. ComparesWithYearBefore(NewestFirst(p))
      BY <2>4, PriorIsTheYearBefore
    <2> QED  BY <2>5 DEF PdfPeriods, p
  <1>2. InputInv => PriorYearIsEarlier
    BY <1>1, StatementAssumption DEF InputInv, PriorYearIsEarlier, StatementAssumption
  <1> QED  BY <1>2, InputKept, PTL

-----------------------------------------------------------------------------
(***************************************************************************)
(* From the report of the bureau to the score.                             *)
(***************************************************************************)
\* A report is read as of one kind of person throughout (mapMiDecisorResponse).
LEMMA ReportIsOfOnePerson ==
  ASSUME NEW r
  PROVE  ReadAsOnePerson(r)
  <1> DEFINE m == MapMiDecisorResponse(r)
             c == m.customer[1]
             s == m.risk[1]
  <1>1. SUFFICES ASSUME r.informed, r.doc.form \in {"code", "initials"}
                 PROVE  /\ c.identificationType = "nit" => m.person = "PJ"
                        /\ m.person = "PJ" => c.identificationType \in {"nit", "none"} /\ c.nameParts = {}
                        /\ m.person = "PN" => c.bureauProfile = {} /\ s.linkNetwork = <<>>
                        /\ m.person = "PJ" => (s.hasAlerts <=> \E i \in 1..Len(s.linkNetwork) :
                                                                  s.linkNetwork[i].alerts > 0)
                        /\ m.person = Credentials(ExperianDocType(c.identificationType))
                           \/ c.identificationType = "none"
    BY DEF ReadAsOnePerson
  <1>2. m.person = PersonOf(r.doc) /\ c = MapCustomer(r) /\ s = MapRisk(r)
    BY <1>1 DEF MapMiDecisorResponse
  <1> HIDE DEF m, c, s
  <1>3. /\ c.identificationType = IF r.doc.kind = "pje" THEN "none" ELSE r.doc.kind
        /\ c.nameParts = Only("PN", r, r.nameParts) /\ c.bureauProfile = Only("PJ", r, r.profile)
    <2>1. c.identificationType = DocParamCode(r.doc)
      BY <1>2 DEF MapCustomer
    <2>2. c.nameParts = Only("PN", r, r.nameParts) /\ c.bureauProfile = BureauProfile(r)
      BY <1>2 DEF MapCustomer
    <2>3. r.doc.form # "label"
      BY <1>1
    <2> QED  BY <2>1, <2>2, <2>3 DEF DocParamCode, BureauProfile
  <1>4. /\ s.linkNetwork = LinkNetwork(r)
        /\ s.hasAlerts <=> Alerts(r) # {}
    <2>1. s.linkNetwork = LinkNetwork(r)
      BY <1>2 DEF MapRisk
    <2>2. s.hasAlerts = (Alerts(r) # {})
      BY <1>2 DEF MapRisk
    <2> QED  BY <2>1, <2>2
  <1>5. m.person = IF r.doc.kind \in {"nit", "pje"} THEN "PJ" ELSE "PN"
    BY <1>1, <1>2 DEF PersonOf
  <1>6. m.person = "PJ" => (s.hasAlerts <=> \E i \in 1..Len(s.linkNetwork) :
                                               s.linkNetwork[i].alerts > 0)
    <2>1. PersonOf(r.doc) = "PJ" => Alerts(r) = Alerted(r.links) /\ LinkNetwork(r) = r.links
      BY DEF Alerts, LinkNetwork
    <2>2. Alerted(r.links) # {} <=> \E i \in 1..Len(r.links) : r.links[i].alerts > 0
      BY DEF Alerted
    <2> QED  BY <1>2, <1>4, <2>1, <2>2
  <1>7. m.person = "PN" => c.bureauProfile = {} /\ s.linkNetwork = <<>>
    BY <1>2, <1>3, <1>4 DEF Only, LinkNetwork
  <1>8. m.person = "PJ" => c.identificationType \in {"nit", "none"} /\ c.nameParts = {}
    BY <1>2, <1>3, <1>5 DEF Only
  <1>9. m.person = Credentials(ExperianDocType(c.identificationType))
        \/ c.identificationType = "none"
    BY <1>3, <1>5 DEF Credentials, ExperianDocType
  <1>10. c.identificationType = "nit" => m.person = "PJ"
    BY <1>3, <1>5
  <1> QED  BY <1>6, <1>7, <1>8, <1>9, <1>10

\* The engine reads what the report says.
LEMMA EngineReadsTheReport ==
  ASSUME NEW in, WellFormedReport(in)
  PROVE  LET e == EngineInput(in.study, in.requested)
             r == in.r
         IN  /\ e.central.score = IF PersonOf(r.doc) = "PN" THEN r.score ELSE r.companyScore
             /\ e.central.suggested = r.suggested
             /\ e.central.overdue = ThousandsToPesos(r.overdue)
             /\ e.central.income = r.income /\ e.central.quota = r.quota
             /\ e.legal = ToLegalStatus(BureauProfile(r))
             /\ e.request = in.study.request /\ e.override = in.requested
  <1> DEFINE e == EngineInput(in.study, in.requested)
             r == in.r
             s == in.study
  <1>1. s = StudyOf(r, s.analyses, s.config, s.request, s.locked) /\ r.informed
    BY DEF WellFormedReport
  <1>2. s.risk = <<MapRisk(r)>> /\ s.customer = MapCustomer(r)
    <2> DEFINE m == MapMiDecisorResponse(r)
    <2>1. m.risk = <<MapRisk(r)>> /\ m.customer = <<MapCustomer(r)>>
      BY <1>1 DEF MapMiDecisorResponse
    <2>2. StudyOf(r, s.analyses, s.config, s.request, s.locked).risk = m.risk
          /\ StudyOf(r, s.analyses, s.config, s.request, s.locked).customer = m.customer[1]
      BY DEF StudyOf
    <2> HIDE DEF m, s, r
    <2> QED  BY <1>1, <2>1, <2>2
  <1>3. e.central = RiskToCentralInput(s.risk) /\ e.request = s.request /\ e.override = in.requested
        /\ e.legal = ToLegalStatus(s.customer.bureauProfile)
    BY DEF EngineInput
  <1>4. s.customer.bureauProfile = BureauProfile(r)
    BY <1>2 DEF MapCustomer
  <1> HIDE DEF e, r, s
  <1>5. e.central = [f \in DOMAIN NoCentral |-> MapRisk(r)[f]]
    BY <1>2, <1>3 DEF RiskToCentralInput
  <1>6. {"score", "suggested", "overdue", "income", "quota"} \subseteq DOMAIN NoCentral
    BY DEF NoCentral
  <1>7. \A f \in {"score", "suggested", "overdue", "income", "quota"} : e.central[f] = MapRisk(r)[f]
    BY <1>5, <1>6
  <1>8. /\ MapRisk(r).score = IF PersonOf(r.doc) = "PN" THEN r.score ELSE r.companyScore
        /\ MapRisk(r).suggested = r.suggested
        /\ MapRisk(r).overdue = ThousandsToPesos(r.overdue)
        /\ MapRisk(r).income = r.income /\ MapRisk(r).quota = r.quota
    BY DEF MapRisk
  <1>9. /\ e.central.score = IF PersonOf(r.doc) = "PN" THEN r.score ELSE r.companyScore
        /\ e.central.suggested = r.suggested
        /\ e.central.overdue = ThousandsToPesos(r.overdue)
        /\ e.central.income = r.income /\ e.central.quota = r.quota
    BY <1>7, <1>8
  <1> QED  BY <1>3, <1>4, <1>9 DEF e, r, s

\* What the bureau reported decides the verdict and the flags.
LEMMA ReportDecidesTheVerdict ==
  ASSUME NEW in, WellFormedReport(in)
  PROVE  ReportDecides(in.r, Score(EngineInput(in.study, in.requested)))
  <1> DEFINE e == EngineInput(in.study, in.requested)
             r == in.r
             score == IF PersonOf(r.doc) = "PN" THEN r.score ELSE r.companyScore
  <1>1. /\ e.central.score = score /\ e.central.suggested = r.suggested
        /\ e.central.overdue = ThousandsToPesos(r.overdue)
        /\ e.legal = ToLegalStatus(BureauProfile(r))
    BY EngineReadsTheReport
  <1>2. /\ {r.score, r.companyScore, r.overdue} \subseteq Int
        /\ r.behaviour \in Seq(STRING)
        /\ \A p, q \in r.profile : p = q
    BY DEF WellFormedReport
  <1>3. Score(e).status = Status(e) /\ Score(e).flags = Flags(e)
    BY DEF Score
  <1> HIDE DEF e, r
  <1>4. ASSUME PersonOf(r.doc) = "PJ", NEW p \in r.profile, Eliminated(p)
        PROVE  Status(e) = "rejected"
    <2>1. BureauProfile(r) = r.profile
      BY <1>4 DEF BureauProfile, Only
    <2>2. ToLegalStatus(r.profile) \in r.profile
      BY <1>4 DEF ToLegalStatus
    <2>3. e.legal = p
      BY <1>1, <1>2, <1>4, <2>1, <2>2
    <2> QED  BY <1>4, <2>3 DEF Status
  <1>5. ASSUME score \in 0..(ConditionalCap - 1) \/ r.suggested = 0
        PROVE  Status(e) # "approved"
    <2>1. score \in 0..(ConditionalCap - 1) => score # None /\ score < ConditionalCap
      BY DEF ConditionalCap, None
    <2>2. CappedToConditional(e)
      BY <1>1, <1>5, <2>1 DEF CappedToConditional, MarksHighRisk
    <2> QED  BY <2>2 DEF Status
  <1>6. ASSUME r.overdue > 0
        PROVE  <<"indebtedness", "danger">> \in Flags(e)
    <2>1. ThousandsToPesos(r.overdue) > 0
      BY <1>2, <1>6 DEF ThousandsToPesos, Missing
    <2>2. e.central.overdue > 0
      BY <1>1, <2>1
    <2>3. <<"indebtedness", "danger">> \in
            (IF e.central.overdue > 0 THEN {<<"indebtedness", "danger">>} ELSE {})
      BY <2>2
    <2> QED  BY <2>3, Zenon DEF Flags
  <1>7. Arrears(r.behaviour) > 0 => HasArrears(r.behaviour)
    <2>1. ASSUME NEW i \in 1..Len(r.behaviour), Known(r.behaviour, i), r.behaviour[i] # "N"
          PROVE  r.behaviour[i] \notin {"", "N", "-"}
      BY <2>1 DEF Known, Severity
    <2> QED  BY <1>2, <2>1, ArrearsAreNat DEF HasArrears
  <1> QED  BY <1>3, <1>4, <1>5, <1>6, <1>7 DEF ReportDecides, e, r

\* What is taken from the analyses of a study is one of that source.
LEMMA FromTakesTheSource ==
  ASSUME NEW as, Len(as) \in Nat, NEW source
  PROVE  From(as, source) = <<>> \/ \E i \in 1..Len(as) : /\ as[i].source = source
                                                          /\ From(as, source) = <<as[i]>>
  <1> DEFINE places == {i \in 1..Len(as) : as[i].source = source}
             place == SelectInSeq(as, LAMBDA a : a.source = source)
  <1>1. place = IF places # {} THEN Min(places) ELSE 0
    BY DEF SelectInSeq
  <1>2. places # {} => Min(places) \in places
    <2>1. places \in SUBSET Nat
      <3>1. \A i \in places : i \in 1..Len(as)
        BY Zenon
      <3>2. \A i \in 1..Len(as) : i \in Nat
        OBVIOUS
      <3> HIDE DEF places
      <3> QED  BY <3>1, <3>2, Zenon
    <2> HIDE DEF places
    <2>2. ASSUME places # {}
          PROVE  \E m \in places : \A k \in places : m <= k
      BY <2>1, <2>2, Smallest
    <2> QED  BY <2>2 DEF Min
  <1>3. From(as, source) = IF place = 0 THEN <<>> ELSE <<as[place]>>
    BY DEF From
  <1> HIDE DEF place
  <1> QED  BY <1>1, <1>2, <1>3

\* The elements of a sequence.
LEMMA SequencesHaveElements ==
  ASSUME NEW S, NEW s \in Seq(S)
  PROVE  Len(s) \in Nat /\ \A i \in 1..Len(s) : s[i] \in S
  OBVIOUS

\* The engine has the figures of a source when the study has its analysis.
LEMMA FiguresOfASource ==
  ASSUME NEW as \in Seq(StudyAnalysis), NEW source,
         \A i \in 1..Len(as) : as[i].periods # <<>> /\ as[i].periods[1].year # None
  PROVE  LET a == From(as, source) IN
         a # <<>> => /\ a[1].source = source
                     /\ AnalysisToGrossFigures(a[1]) # NoFigures
                     /\ AnalysisToGrossFigures(a[1]).year # None
                     /\ a[1] \in StudyAnalysis
                     /\ a = <<a[1]>>
  <1>1. SUFFICES ASSUME NEW i \in 1..Len(as), as[i].source = source,
                        From(as, source) = <<as[i]>>
                 PROVE  /\ as[i].source = source
                        /\ AnalysisToGrossFigures(as[i]) # NoFigures
                        /\ AnalysisToGrossFigures(as[i]).year # None
                        /\ as[i] \in StudyAnalysis
    <2>1. Len(as) \in Nat
      BY SequencesHaveElements
    <2>2. From(as, source) = <<>> \/ \E i \in 1..Len(as) : /\ as[i].source = source
                                                           /\ From(as, source) = <<as[i]>>
      BY <2>1, FromTakesTheSource
    <2>3. \A x : <<x>>[1] = x
      OBVIOUS
    <2> QED  BY <2>2, <2>3
  <1>2. as[i] \in StudyAnalysis
    BY SequencesHaveElements
  <1>3. AnalysisToGrossFigures(as[i]) = as[i].periods[1]
    BY DEF AnalysisToGrossFigures
  <1>4. as[i].periods[1].year # None /\ NoFigures.year = None
    BY DEF NoFigures
  <1> QED  BY <1>1, <1>2, <1>3, <1>4

\* The source declared is that of the analysis computed on.
LEMMA SourceDeclaredIsUsed ==
  ASSUME NEW in, WellFormedReport(in),
         TruthAnalysis(in.study.analyses, in.requested) # <<>>
  PROVE  CalculationSource(EngineInput(in.study, in.requested))
           = TruthAnalysis(in.study.analyses, in.requested)[1].source
  <1> DEFINE e == EngineInput(in.study, in.requested)
             as == in.study.analyses
             B == From(as, "datacredito")
             P == From(as, "pdf")
             year(a) == AnalysisToGrossFigures(a[1]).year
  <1>1. as \in Seq(StudyAnalysis) /\ in.requested \in {"none", "pdf", "datacredito"}
        /\ \A i \in 1..Len(as) : as[i].periods # <<>> /\ as[i].periods[1].year # None
    BY DEF WellFormedReport
  <1>2. /\ B # <<>> => B[1].source = "datacredito" /\ AnalysisToGrossFigures(B[1]) # NoFigures
        /\ P # <<>> => P[1].source = "pdf" /\ AnalysisToGrossFigures(P[1]) # NoFigures
                       /\ year(P) # None
    BY <1>1, FiguresOfASource
  <1>3. /\ e.truth = IF B = <<>> THEN NoFigures ELSE AnalysisToGrossFigures(B[1])
        /\ e.pdf = IF P = <<>> THEN NoFigures ELSE AnalysisToGrossFigures(P[1])
        /\ e.override = in.requested
    BY Zenon DEF EngineInput
  <1> DEFINE T == TruthAnalysis(as, in.requested)
  <1>4. T = IF in.requested = "none"
            THEN IF B # <<>> /\ P # <<>>
                 THEN IF year(P) # None /\ year(P) = year(B) THEN B ELSE P
                 ELSE B \o P
            ELSE From(as, in.requested)
    BY Zenon DEF TruthAnalysis, AutoTruth
  <1>5. /\ HasTruth(e) <=> B # <<>>
        /\ HasPdf(e) <=> P # <<>>
        /\ B # <<>> /\ P # <<>> => (YearMismatch(e) <=> year(B) # year(P))
    <2> HIDE DEF e, as, B, P
    <2>1. /\ HasTruth(e) <=> B # <<>>
          /\ HasPdf(e) <=> P # <<>>
      BY <1>2, <1>3 DEF HasTruth, HasPdf
    <2> QED  BY <1>3, <2>1 DEF YearMismatch
  <1>6. (B = <<>> => B \o P = P) /\ (P = <<>> => B \o P = B)
    <2>1. B \in Seq(StudyAnalysis) /\ P \in Seq(StudyAnalysis)
      <3>1. /\ B # <<>> => B[1] \in StudyAnalysis /\ B = <<B[1]>>
            /\ P # <<>> => P[1] \in StudyAnalysis /\ P = <<P[1]>>
        BY <1>1, FiguresOfASource
      <3>2. <<>> \in Seq(StudyAnalysis) /\ \A a \in StudyAnalysis : <<a>> \in Seq(StudyAnalysis)
        OBVIOUS
      <3> HIDE DEF as, B, P
      <3> QED  BY <3>1, <3>2
    <2> HIDE DEF as, B, P
    <2> QED  BY <2>1
  <1> HIDE DEF e, as, B, P, T, year
  <1>7. CASE in.requested = "none"
    <2>1. CASE B # <<>> /\ P # <<>>
      BY <1>2, <1>3, <1>4, <1>5, <1>7, <2>1 DEF CalculationSource, e, as, T
    <2>2. CASE B # <<>> /\ P = <<>>
      <3>1. ~YearMismatch(e)
        BY <1>5, <2>2 DEF YearMismatch
      <3> QED  BY <1>2, <1>3, <1>4, <1>5, <1>6, <1>7, <2>2, <3>1 DEF CalculationSource, e, as, T
    <2>3. CASE B = <<>>
      <3>1. T = P
        BY <1>4, <1>6, <1>7, <2>3
      <3>2. P # <<>>
        BY <3>1 DEF T, as
      <3> QED  BY <1>2, <1>3, <1>5, <1>7, <2>3, <3>1, <3>2 DEF CalculationSource, e, as, T
    <2> QED  BY <2>1, <2>2, <2>3
  <1>8. CASE in.requested = "pdf"
    <2>1. T = P
      BY <1>4, <1>8 DEF P
    <2>2. P # <<>>
      BY <2>1 DEF T, as
    <2> QED  BY <1>2, <1>3, <1>5, <1>8, <2>1, <2>2 DEF CalculationSource, e, as, T
  <1>9. CASE in.requested = "datacredito"
    <2>1. T = B
      BY <1>4, <1>9 DEF B
    <2>2. B # <<>>
      BY <2>1 DEF T, as
    <2> QED  BY <1>2, <1>3, <1>5, <1>9, <2>1, <2>2 DEF CalculationSource, e, as, T
  <1> QED  BY <1>1, <1>7, <1>8, <1>9

\* The capacity that the engine reads in a report is a number.
LEMMA CapacityIsInt ==
  ASSUME NEW in, WellFormedReport(in),
         TruthAnalysis(in.study.analyses, in.requested) # <<>>
  PROVE  Capacity(EngineInput(in.study, in.requested)) \in Int
  <1> DEFINE e == EngineInput(in.study, in.requested)
             as == in.study.analyses
             a == TruthAnalysis(as, in.requested)
  <1>1. /\ as \in Seq(StudyAnalysis) /\ in.requested \in {"none", "pdf", "datacredito"}
        /\ \A i \in 1..Len(as) : as[i].periods # <<>> /\ as[i].periods[1].year # None
        /\ in.r.income \in Int /\ in.r.quota \in Int
    BY DEF WellFormedReport
  <1>2. \A s \in {"pdf", "datacredito"} :
          From(as, s) # <<>> => From(as, s)[1] \in StudyAnalysis /\ From(as, s) = <<From(as, s)[1]>>
    BY <1>1, FiguresOfASource
  <1>3. a[1] \in StudyAnalysis
    <2>1. in.requested # "none" => a = From(as, in.requested)
      BY DEF TruthAnalysis
    <2>2. in.requested = "none" =>
            \/ a = From(as, "pdf") \/ a = From(as, "datacredito")
            \/ /\ From(as, "datacredito") = <<>> \/ From(as, "pdf") = <<>>
               /\ a = From(as, "datacredito") \o From(as, "pdf")
      BY Zenon DEF TruthAnalysis, AutoTruth
    <2>3. ASSUME NEW p, NEW q, p = <<>> \/ (p[1] \in StudyAnalysis /\ p = <<p[1]>>),
                 q = <<>> \/ (q[1] \in StudyAnalysis /\ q = <<q[1]>>), p = <<>> \/ q = <<>>
          PROVE  p \o q = p \/ p \o q = q
      <3>1. <<>> \in Seq(StudyAnalysis) /\ \A x \in StudyAnalysis : <<x>> \in Seq(StudyAnalysis)
        OBVIOUS
      <3>2. p \in Seq(StudyAnalysis) /\ q \in Seq(StudyAnalysis)
        BY <2>3, <3>1, Zenon
      <3> QED  BY <2>3, <3>2
    <2>4. a # <<>>
      OBVIOUS
    <2> HIDE DEF a, as
    <2>5. in.requested = "none" => a = From(as, "pdf") \/ a = From(as, "datacredito")
      BY <1>2, <2>2, <2>3
    <2> QED  BY <1>1, <1>2, <2>1, <2>4, <2>5
  <1>4. e.figures = AnalysisToIndicators(a[1])
    BY Zenon DEF EngineInput
  <1>5. e.figures.capacity \in Int
    <2>1. a[1].indicators \in [{"capacity", "stability", "receivable", "inventory", "suppliers"} -> Int]
      BY <1>3 DEF StudyAnalysis
    <2> HIDE DEF a, e
    <2>2. e.figures = [f \in {"capacity", "stability", "receivable", "inventory", "suppliers"} |->
                         IF a[1].indicators[f] = None THEN 0 ELSE a[1].indicators[f]]
      BY <1>4, <2>1 DEF AnalysisToIndicators
    <2> QED  BY <2>1, <2>2
  <1>6. e.central.income \in Int /\ e.central.quota \in Int
    BY <1>1, EngineReadsTheReport
  <1> HIDE DEF e, a, as
  <1>7. AtLeast(e.central.quota, 0) \in Int
    BY <1>6 DEF AtLeast
  <1>8. 100 - Clamp(AtLeast(e.central.quota, 0), 0, 100) \in Int
    BY <1>7 DEF Clamp, AtMost, AtLeast
  <1>9. e.central.income * (100 - Clamp(AtLeast(e.central.quota, 0), 0, 100)) \in Int
    BY <1>6, <1>8
  <1>10. \A x \in Int : Rounded(x, 100) \in Int
    BY DEF Rounded
  <1> QED  BY <1>5, <1>9, <1>10, Zenon DEF Capacity, e

\* A result from before is read with the payment and the capacity of today.
LEMMA LegacyReadsAsToday ==
  ASSUME NEW in, WellFormedReport(in),
         TruthAnalysis(in.study.analyses, in.requested) # <<>>
  PROVE  LegacyReadsTheSame(in.study, KeyFigures(EngineInput(in.study, in.requested)))
  <1> DEFINE e == EngineInput(in.study, in.requested)
             figures == KeyFigures(e)
             old == [figures EXCEPT !.payment = None, !.inTerm = None]
             derived == IF in.study.request.term > 0 THEN in.study.request.term ELSE 30
  <1>1. Capacity(e) \in Int
    BY CapacityIsInt
  <1>2. e.request = in.study.request
    BY EngineReadsTheReport
  <1>3. SUFFICES ASSUME figures.monthly >= 0
                 PROVE  NormalizeKeyFigures(old, in.study.request) = figures
    BY DEF LegacyReadsTheSame
  <1>4. /\ DOMAIN figures = {"monthly", "payment", "inTerm", "coverage", "cycle"}
        /\ figures.monthly = Capacity(e) /\ figures.payment = Credit(e)
        /\ figures.inTerm = Rounded(PayableInTerm(e), 30)
        /\ figures = [f \in DOMAIN figures |-> figures[f]]
    BY DEF KeyFigures
  <1>5. figures.payment = AtLeast(in.study.request.credit, 0)
    BY <1>2, <1>4 DEF Credit
  <1>6. figures.inTerm = Rounded(figures.monthly * derived, 30)
    <2>1. AtLeast(Capacity(e), 0) = Capacity(e)
      BY <1>1, <1>3, <1>4 DEF AtLeast
    <2>2. PayableInTerm(e) = Capacity(e) * derived
      BY <1>2, <2>1 DEF PayableInTerm
    <2> QED  BY <1>4, <2>2
  <1> HIDE DEF figures, e, derived
  <1>7. old.payment = None /\ old.inTerm = None /\ old.monthly = figures.monthly
    BY <1>4
  <1>8. NormalizeKeyFigures(old, in.study.request)
          = [old EXCEPT !.payment = figures.payment, !.inTerm = figures.inTerm]
    <2> HIDE DEF old
    <2> QED  BY <1>5, <1>6, <1>7 DEF NormalizeKeyFigures, derived
  <1> QED  BY <1>4, <1>8

\* What the bureau reports of a customer reaches the score: read as of one
\* person (mapMiDecisorResponse), decisive in the verdict (evaluateStatus),
\* with the source that the result declares (performStudy), and readable by
\* the report of a later version (normalizeKeyFigures).
THEOREM ReportReachesTheScoreHolds == Spec => []ReportReachesTheScore
  <1>1. ASSUME NEW in, WellFormedReport(in),
               NEW s, s = PerformStudy(in.study, in.requested), s # <<>>
        PROVE  /\ ReportDecides(in.r, s[1])
               /\ SourceIsTheOneUsed(in.study, in.requested, s[1])
               /\ LegacyReadsTheSame(in.study, s[1].keyFigures)
    <2> DEFINE e == EngineInput(in.study, in.requested)
    <2>1. TruthAnalysis(in.study.analyses, in.requested) # <<>> /\ s = <<Score(e)>>
      BY <1>1 DEF PerformStudy
    <2>2. s[1] = Score(e)
      BY <2>1
    <2>3. s[1].source = CalculationSource(e) /\ s[1].keyFigures = KeyFigures(e)
      BY <2>2 DEF Score
    <2>4. ReportDecides(in.r, s[1])
      BY <1>1, <2>2, ReportDecidesTheVerdict
    <2>5. SourceIsTheOneUsed(in.study, in.requested, s[1])
      BY <1>1, <2>1, <2>3, SourceDeclaredIsUsed DEF SourceIsTheOneUsed
    <2>6. LegacyReadsTheSame(in.study, s[1].keyFigures)
      BY <1>1, <2>1, <2>3, LegacyReadsAsToday
    <2> QED  BY <2>4, <2>5, <2>6
  <1>2. InputInv => ReportReachesTheScore
    BY <1>1, ReportAssumption, ReportIsOfOnePerson
    DEF InputInv, ReportReachesTheScore, ReportAssumption
  <1> QED  BY <1>2, InputKept, PTL

-----------------------------------------------------------------------------
(***************************************************************************)
(* An amount in words.  The words of a group of three digits are plain:    *)
(* they add up to the group.  A reader finds the one "mil" and the one     *)
(* "millones" between the groups, and adds up what lies on each side.      *)
(***************************************************************************)
Plain == {"number", "short", "cien", "y"}
Words(kinds) == [kind : kinds, value : Nat]

\* What words add up to is a sum.
LEMMA WordsAreASum ==
  ASSUME NEW w, Len(w) \in Nat
  PROVE  \E s : /\ IsSumOf(s, [i \in 1..Len(w) |-> w[i].value], Len(w))
                /\ Below1000(w) = s[Len(w)]
  <1> DEFINE a == [i \in 1..Len(w) |-> w[i].value]
  <1>1. PICK s : IsSumOf(s, a, Len(w))
    <2> HIDE DEF a
    <2> QED  BY SumsExist
  <1>2. s = [i \in 0..Len(w) |-> IF i = 0 THEN 0 ELSE s[i-1] + w[i].value]
    <2>3. \A i \in 1..Len(w) : a[i] = w[i].value
      OBVIOUS
    <2> HIDE DEF a
    <2>4. \A i \in 0..Len(w) : s[i] = IF i = 0 THEN 0 ELSE s[i-1] + a[i]
      BY <1>1 DEF IsSumOf
    <2>1. \A i \in 0..Len(w) : s[i] = IF i = 0 THEN 0 ELSE s[i-1] + w[i].value
      BY <2>3, <2>4
    <2>2. s = [i \in 0..Len(w) |-> s[i]]
      BY <1>1 DEF IsSumOf
    <2> QED  BY <2>1, <2>2
  <1>3. PICK u : /\ u = [i \in 0..Len(w) |-> IF i = 0 THEN 0 ELSE u[i-1] + w[i].value]
                 /\ Below1000(w) = u[Len(w)]
    BY <1>2 DEF Below1000
  <1>4. IsSumOf(u, a, Len(w))
    <2>1. \A i \in 0..Len(w) : u[i] = IF i = 0 THEN 0 ELSE u[i-1] + a[i]
      BY <1>3
    <2>2. u = [i \in 0..Len(w) |-> u[i]]
      BY <1>3
    <2> HIDE DEF a
    <2> QED  BY <2>1, <2>2 DEF IsSumOf
  <1> QED  BY <1>3, <1>4

\* Up to four words add up as one expects.
LEMMA FewWordsAddUp ==
  ASSUME NEW w, Len(w) \in 0..4, \A i \in 1..Len(w) : w[i].value \in Int
  PROVE  /\ Len(w) = 0 => Below1000(w) = 0
         /\ Len(w) = 1 => Below1000(w) = w[1].value
         /\ Len(w) = 2 => Below1000(w) = w[1].value + w[2].value
         /\ Len(w) = 3 => Below1000(w) = w[1].value + w[2].value + w[3].value
         /\ Len(w) = 4 => Below1000(w) = w[1].value + w[2].value + w[3].value + w[4].value
  <1> DEFINE a == [i \in 1..Len(w) |-> w[i].value]
  <1>1. PICK s : IsSumOf(s, a, Len(w)) /\ Below1000(w) = s[Len(w)]
    <2>1. Len(w) \in Nat
      OBVIOUS
    <2> QED  BY <2>1, WordsAreASum
  <1>2. \A i \in 0..Len(w) : s[i] = IF i = 0 THEN 0 ELSE s[i-1] + w[i].value
    <2>1. \A i \in 1..Len(w) : a[i] = w[i].value
      OBVIOUS
    <2> HIDE DEF a
    <2>2. \A i \in 0..Len(w) : s[i] = IF i = 0 THEN 0 ELSE s[i-1] + a[i]
      BY <1>1 DEF IsSumOf
    <2> QED  BY <2>1, <2>2
  <1> HIDE DEF a
  <1>3. 0 \in 0..Len(w) /\ s[0] = 0
    BY <1>2
  <1>4. ASSUME NEW i \in 1..Len(w) PROVE s[i] = s[i-1] + w[i].value
    BY <1>2
  <1>5. Len(w) >= 1 => s[1] = w[1].value
    BY <1>3, <1>4
  <1>6. Len(w) >= 2 => s[2] = s[1] + w[2].value
    BY <1>4
  <1>7. Len(w) >= 3 => s[3] = s[2] + w[3].value
    BY <1>4
  <1>8. Len(w) >= 4 => s[4] = s[3] + w[4].value
    BY <1>4
  <1>9. ASSUME NEW i \in 1..Len(w) PROVE w[i].value \in Int
    OBVIOUS
  <1>10. /\ Len(w) >= 1 => w[1].value \in Int
         /\ Len(w) >= 2 => w[2].value \in Int
         /\ Len(w) >= 3 => w[3].value \in Int
         /\ Len(w) >= 4 => w[4].value \in Int
    BY <1>9
  <1>11. Len(w) \in {0, 1, 2, 3, 4} /\ Below1000(w) = s[Len(w)]
    BY <1>1
  <1> HIDE DEF a
  <1> QED  BY <1>3, <1>5, <1>6, <1>7, <1>8, <1>10, <1>11

\* The words of the hundreds and those of what is under a hundred are few.
LEMMA AtMostFour ==
  ASSUME NEW i \in {0, 1}, NEW j \in {0, 1, 3}, NEW k, k = i + j
  PROVE  k \in 0..4
  OBVIOUS

\* A group of three digits is plain words that add up to it (threeDigits).
LEMMA GroupReadsBack ==
  ASSUME NEW n \in 1..999, NEW apocope \in BOOLEAN
  PROVE  /\ ThreeDigits(n, apocope) \in Seq(Words(Plain))
         /\ Below1000(ThreeDigits(n, apocope)) = n
  <1> DEFINE rest == n % 100
             units == rest % 10
             last(u) == IF apocope /\ u \in {1, 21} THEN Short(u) ELSE Word(u)
             hundreds == IF n >= 100 THEN <<Word(n - (n % 100))>> ELSE <<>>
             tail == CASE rest = 0 -> <<>>
                       [] rest \in 1..29 -> <<last(rest)>>
                       [] OTHER -> IF units = 0 THEN <<Word(rest)>>
                                   ELSE <<Word(rest - units), Y, last(units)>>
             t == ThreeDigits(n, apocope)
  <1>1. /\ rest \in 0..99 /\ units \in 0..9 /\ units <= rest /\ n - rest \in Nat
        /\ n < 100 => rest = n
    OBVIOUS
  <1>2. /\ \A u \in Nat : last(u) \in Words(Plain) /\ last(u).value = u
        /\ \A u \in Nat : Word(u) \in Words(Plain) /\ Word(u).value = u
        /\ Y \in Words(Plain) /\ Y.value = 0
        /\ Cien \in Words(Plain) /\ Cien.value = 100
    BY DEF Words, Plain, Short, Word, Y, Cien
  <1>3. t = IF n = 100 THEN <<Cien>> ELSE hundreds \o tail
    BY Zenon DEF ThreeDigits
  <1> HIDE DEF last, t, hundreds, tail
  <1>4. n = 100 => t \in Seq(Words(Plain)) /\ Below1000(t) = n
    <2>1. Len(<<Cien>>) = 1 /\ <<Cien>>[1] = Cien
      OBVIOUS
    <2>2. Below1000(<<Cien>>) = 100
      BY <1>2, <2>1, FewWordsAddUp
    <2>3. <<Cien>> \in Seq(Words(Plain))
      BY <1>2
    <2> QED  BY <1>3, <2>2, <2>3
  <1>5. /\ Len(hundreds) \in {0, 1} /\ hundreds \in Seq(Words(Plain))
        /\ Len(hundreds) = 0 => n = rest
        /\ Len(hundreds) = 1 => hundreds[1].value = n - rest
    <2>1. CASE n >= 100
      <3>1. hundreds = <<Word(n - rest)>>
        BY <2>1 DEF hundreds
      <3>2. Word(n - rest) \in Words(Plain) /\ Word(n - rest).value = n - rest
        BY <1>1, <1>2
      <3> HIDE DEF rest
      <3> QED  BY <3>1, <3>2
    <2>2. CASE n < 100
      <3>1. hundreds = <<>>
        BY <2>2 DEF hundreds
      <3> QED  BY <1>1, <2>2, <3>1
    <2> QED  BY <2>1, <2>2
  <1>6. /\ Len(tail) \in {0, 1, 3} /\ tail \in Seq(Words(Plain))
        /\ Len(tail) = 0 => rest = 0
        /\ Len(tail) = 1 => tail[1].value = rest
        /\ Len(tail) = 3 => tail[1].value + tail[2].value + tail[3].value = rest
    <2> HIDE DEF rest, units
    <2>1. CASE rest = 0
      <3>1. tail = <<>>
        BY <2>1 DEF tail
      <3> QED  BY <2>1, <3>1
    <2>2. CASE rest \in 1..29
      <3>1. tail = <<last(rest)>>
        BY <2>2 DEF tail
      <3> QED  BY <1>1, <1>2, <3>1
    <2>3. CASE rest \in 30..99 /\ units = 0
      <3>1. tail = <<Word(rest)>>
        <4>1. rest # 0 /\ rest \notin 1..29
          BY <2>3
        <4> QED  BY <2>3, <4>1, Zenon DEF tail
      <3> QED  BY <1>1, <1>2, <3>1
    <2>4. CASE rest \in 30..99 /\ units # 0
      <3>1. tail = <<Word(rest - units), Y, last(units)>>
        <4>1. rest # 0 /\ rest \notin 1..29
          BY <2>4
        <4> QED  BY <2>4, <4>1, Zenon DEF tail
      <3>2. rest - units \in Nat /\ units \in Nat
        BY <1>1
      <3>3. Word(rest - units) \in Words(Plain) /\ Word(rest - units).value = rest - units
            /\ last(units) \in Words(Plain) /\ last(units).value = units
        BY <1>2, <3>2
      <3> QED  BY <1>1, <1>2, <3>1, <3>3
    <2> QED  BY <1>1, <2>1, <2>2, <2>3, <2>4
  <1>7. \A x \in Words(Plain) : x.value \in Int
    BY DEF Words
  <1>8. n # 100 => t \in Seq(Words(Plain)) /\ Below1000(t) = n
    <2> DEFINE both == hundreds \o tail
    <2>1. /\ both \in Seq(Words(Plain)) /\ Len(both) = Len(hundreds) + Len(tail)
          /\ \A i \in 1..Len(hundreds) + Len(tail) :
               both[i] = IF i <= Len(hundreds) THEN hundreds[i] ELSE tail[i - Len(hundreds)]
      BY <1>5, <1>6, ConcatProperties
    <2> HIDE DEF both, rest
    <2>4. Len(hundreds) \in {0, 1} /\ Len(tail) \in {0, 1, 3}
          /\ Len(both) = Len(hundreds) + Len(tail)
      BY <1>5, <1>6, <2>1
    <2>2. \A i \in 1..Len(both) : both[i].value \in Int
      BY <1>7, <2>1, SequencesHaveElements
    <2>3. Below1000(both) = n
      <3>1. /\ Len(both) = 0 => Below1000(both) = 0
            /\ Len(both) = 1 => Below1000(both) = both[1].value
            /\ Len(both) = 2 => Below1000(both) = both[1].value + both[2].value
            /\ Len(both) = 3 => Below1000(both) = both[1].value + both[2].value + both[3].value
            /\ Len(both) = 4 => Below1000(both) = both[1].value + both[2].value + both[3].value
                                                 + both[4].value
        <4>1. Len(both) \in 0..4
          BY <2>4, AtMostFour, Zenon
        <4> QED  BY <2>2, <4>1, FewWordsAddUp
      <3>2. CASE Len(hundreds) = 0
        <4>1. \A i \in 1..Len(tail) : both[i] = tail[i]
          BY <2>1, <3>2
        <4> QED  BY <1>1, <1>5, <1>6, <2>1, <3>1, <3>2, <4>1
      <3>3. CASE Len(hundreds) = 1
        <4>1. both[1] = hundreds[1]
          BY <1>6, <2>1, <3>3
        <4>2. ASSUME NEW i \in 1..Len(tail)
              PROVE  both[i + 1] = tail[i]
          BY <1>6, <2>1, <3>3
        <4>3. /\ Len(tail) >= 1 => both[2] = tail[1]
              /\ Len(tail) = 3 => both[3] = tail[2] /\ both[4] = tail[3]
          BY <1>6, <4>2
        <4>4. \A i \in 1..Len(tail) : tail[i].value \in Int
          BY <1>6, <1>7, SequencesHaveElements
        <4>5. hundreds[1].value = n - rest /\ rest \in Int
          BY <1>1, <1>5, <3>3
        <4>6. CASE Len(tail) = 0
          <5>1. Len(both) = 1 /\ rest = 0
            BY <1>6, <2>4, <3>3, <4>6
          <5> QED  BY <3>1, <4>1, <4>5, <5>1
        <4>7. CASE Len(tail) = 1
          <5>1. Len(both) = 2 /\ tail[1].value = rest
            BY <1>6, <2>4, <3>3, <4>7
          <5> QED  BY <3>1, <4>1, <4>3, <4>5, <4>7, <5>1
        <4>8. CASE Len(tail) = 3
          <5>1. Len(both) = 4 /\ tail[1].value + tail[2].value + tail[3].value = rest
            BY <1>6, <2>4, <3>3, <4>8
          <5>2. {tail[1].value, tail[2].value, tail[3].value} \subseteq Int
            BY <4>4, <4>8
          <5> QED  BY <3>1, <4>1, <4>3, <4>5, <4>8, <5>1, <5>2
        <4> QED  BY <1>6, <4>6, <4>7, <4>8
      <3> QED  BY <1>5, <3>2, <3>3
    <2> QED  BY <1>3, <2>1, <2>3 DEF both
  <1> QED  BY <1>4, <1>8 DEF t

\* No word is of some kinds.
Without(words, kinds) == \A i \in 1..Len(words) : words[i].kind \notin kinds

\* A place splits words into those before it and those after it.
SplitsAt(w, p, u, v) ==
  /\ p = Len(u) + 1 /\ p \in Nat \ {0}
  /\ SubSeq(w, 1, p - 1) = u /\ SubSeq(w, p + 1, Len(w)) = v

\* Where the only word of some kinds is, and what lies on each side of it.
LEMMA OnlyWordIsFound ==
  ASSUME NEW S, NEW u \in Seq(S), NEW v \in Seq(S), NEW x \in S, NEW kinds,
         x.kind \in kinds,
         Without(u, kinds), Without(v, kinds)
  PROVE  LET w == (u \o <<x>>) \o v IN
         w \in Seq(S) /\ SplitsAt(w, PlaceOf(w, kinds), u, v)
  <1> DEFINE w == (u \o <<x>>) \o v
             m == Len(u)
             n == Len(v)
             p == PlaceOf(w, kinds)
  <1>1. m \in Nat /\ n \in Nat /\ <<x>> \in Seq(S) /\ Len(<<x>>) = 1 /\ <<x>>[1] = x
    OBVIOUS
  <1>2. /\ u \o <<x>> \in Seq(S) /\ Len(u \o <<x>>) = m + 1
        /\ \A i \in 1..m + 1 : (u \o <<x>>)[i] = IF i <= m THEN u[i] ELSE <<x>>[i - m]
    BY <1>1, ConcatProperties
  <1>3. /\ w \in Seq(S) /\ Len(w) = m + 1 + n
        /\ \A i \in 1..m + 1 + n : w[i] = IF i <= m + 1 THEN (u \o <<x>>)[i] ELSE v[i - (m + 1)]
    BY <1>1, <1>2, ConcatProperties
  <1> HIDE DEF w, m, n
  <1>4. /\ \A i \in 1..m : w[i] = u[i]
        /\ w[m + 1] = x
        /\ \A i \in 1..n : w[m + 1 + i] = v[i]
    <2>1. ASSUME NEW i \in 1..m PROVE w[i] = u[i]
      BY <1>1, <1>2, <1>3
    <2>2. w[m + 1] = x
      BY <1>1, <1>2, <1>3
    <2>3. ASSUME NEW i \in 1..n PROVE w[m + 1 + i] = v[i]
      BY <1>1, <1>3
    <2> QED  BY <2>1, <2>2, <2>3
  <1>5. \A i \in 1..Len(w) : w[i].kind \in kinds <=> i = m + 1
    <2>1. ASSUME NEW i \in 1..Len(w), i # m + 1 PROVE w[i].kind \notin kinds
      <3>1. CASE i \in 1..m
        BY <1>4, <3>1 DEF m, Without
      <3>2. CASE i \in m + 2..Len(w)
        <4>1. i - (m + 1) \in 1..n /\ i = m + 1 + (i - (m + 1))
          BY <1>1, <1>3, <3>2
        <4>2. w[i] = v[i - (m + 1)]
          BY <1>4, <4>1
        <4> QED  BY <4>1, <4>2 DEF n, Without
      <3> QED  BY <1>1, <1>3, <2>1, <3>1, <3>2
    <2> QED  BY <1>4, <2>1
  <1>6. p = m + 1
    <2>1. m + 1 \in 1..Len(w)
      BY <1>1, <1>3
    <2> QED  BY <1>5, <2>1 DEF PlaceOf
  <1>7. SubSeq(w, 1, m) = u
    <2>1. \A i \in 1..m : w[i] \in S
      BY <1>4, SequencesHaveElements DEF m
    <2>2. 1 \in Int /\ m \in Int
      BY <1>1
    <2>3. /\ SubSeq(w, 1, m) \in Seq(S)
          /\ Len(SubSeq(w, 1, m)) = IF 1 <= m THEN m - 1 + 1 ELSE 0
          /\ \A i \in 1..m - 1 + 1 : SubSeq(w, 1, m)[i] = w[1 + i - 1]
      BY <2>1, <2>2, SubSeqProperties
    <2>4. Len(SubSeq(w, 1, m)) = m
      BY <1>1, <2>3
    <2>5. \A i \in 1..m : SubSeq(w, 1, m)[i] = u[i]
      BY <1>1, <1>4, <2>3
    <2> QED  BY <2>3, <2>4, <2>5, SeqEqual DEF m
  <1>8. SubSeq(w, m + 2, Len(w)) = v
    <2>1. \A i \in m + 2..Len(w) : w[i] \in S
      BY <1>1, <1>3, SequencesHaveElements
    <2>2. m + 2 \in Int /\ Len(w) \in Int
      BY <1>1, <1>3
    <2> DEFINE t == SubSeq(w, m + 2, Len(w))
    <2>3. /\ t \in Seq(S)
          /\ Len(t) = IF m + 2 <= Len(w) THEN Len(w) - (m + 2) + 1 ELSE 0
          /\ \A i \in 1..Len(w) - (m + 2) + 1 : t[i] = w[m + 2 + i - 1]
      BY <2>1, <2>2, SubSeqProperties
    <2> HIDE DEF t
    <2>4. Len(t) = n
      BY <1>1, <1>3, <2>3
    <2>5. ASSUME NEW i \in 1..n PROVE t[i] = v[i]
      <3>1. i \in 1..Len(w) - (m + 2) + 1 /\ m + 2 + i - 1 = m + 1 + i
        BY <1>1, <1>3
      <3> QED  BY <1>4, <2>3, <3>1
    <2> QED  BY <2>3, <2>4, <2>5, SeqEqual DEF n, t
  <1>9. p - 1 = m /\ p + 1 = m + 2 /\ p \in Nat \ {0}
    BY <1>1, <1>6
  <1> HIDE DEF p
  <1> QED  BY <1>3, <1>6, <1>7, <1>8, <1>9 DEF SplitsAt, w, m, p

\* The kinds of the words of an amount below a million.
Small == Plain \cup {"mil"}

\* What a reader makes of the words around a "mil".
LEMMA ReadAroundMil ==
  ASSUME NEW S, NEW u \in Seq(S), NEW v, NEW w, SplitsAt(w, PlaceOf(w, {"mil"}), u, v)
  PROVE  Below1000000(w) = 1000 * (IF u = <<>> THEN 1 ELSE Below1000(u)) + Below1000(v)
  <1> DEFINE at == PlaceOf(w, {"mil"})
             before == Below1000(SubSeq(w, 1, at - 1))
             after == Below1000(SubSeq(w, at + 1, Len(w)))
  <1>1. Below1000000(w) = IF at = 0 THEN Below1000(w)
                          ELSE 1000 * (IF at = 1 THEN 1 ELSE before) + after
    BY Zenon DEF Below1000000
  <1>2. before = Below1000(u) /\ after = Below1000(v) /\ at = Len(u) + 1 /\ at # 0
    BY DEF SplitsAt
  <1>3. Len(u) \in Nat /\ (Len(u) = 0 <=> u = <<>>)
    OBVIOUS
  <1> HIDE DEF at, before, after
  <1>4. at = 1 <=> u = <<>>
    BY <1>2, <1>3
  <1> QED  BY <1>1, <1>2, <1>4

\* The numbers of three and of six digits (large literals are beyond Zenon).
ThreeDigitNumbers == {n \in Nat : n < 1000}
SixDigitNumbers == {n \in Nat : n < 1000000}

\* Thousands and a group are read as their sum.
LEMMA ThousandsReadBack ==
  ASSUME NEW a \in ThreeDigitNumbers, NEW t \in Seq(Words(Plain)), Below1000(t) \in Nat
  PROVE  /\ Thousands(a) \o t \in Seq(Words(Small))
         /\ Below1000000(Thousands(a) \o t) = 1000 * a + Below1000(t)
  <1>1. /\ Words(Plain) \subseteq Words(Small)
        /\ \A x \in Words(Plain) : x.kind \notin {"mil"}
        /\ Mil \in Words(Small) /\ Mil.kind \in {"mil"}
    BY DEF Words, Plain, Small, Mil
  <1>2. ASSUME NEW s \in Seq(Words(Plain))
        PROVE  s \in Seq(Words(Small)) /\ Without(s, {"mil"})
    BY <1>1, SeqMonotonic, SequencesHaveElements DEF Without
  <1>3. CASE a = 0
    <2>1. Thousands(a) \o t = t
      BY <1>3, ConcatEmptySeq DEF Thousands
    <2>2. PlaceOf(t, {"mil"}) = 0
      BY <1>2 DEF PlaceOf, Without
    <2>3. Below1000000(t) = Below1000(t)
      BY <2>2, Zenon DEF Below1000000
    <2>4. 1000 * a + Below1000(t) = Below1000(t)
      BY <1>3
    <2>5. t \in Seq(Words(Small))
      BY <1>2, Zenon
    <2> QED  BY <2>1, <2>3, <2>4, <2>5, Zenon
  <1>4. ASSUME NEW u \in Seq(Words(Plain)), Thousands(a) = u \o <<Mil>>,
               a = IF u = <<>> THEN 1 ELSE Below1000(u)
        PROVE  /\ Thousands(a) \o t \in Seq(Words(Small))
               /\ Below1000000(Thousands(a) \o t) = 1000 * a + Below1000(t)
    <2> DEFINE w == (u \o <<Mil>>) \o t
    <2>1. w \in Seq(Words(Small)) /\ SplitsAt(w, PlaceOf(w, {"mil"}), u, t)
      <3>1. u \in Seq(Words(Small)) /\ Without(u, {"mil"})
        BY <1>2
      <3>2. t \in Seq(Words(Small)) /\ Without(t, {"mil"})
        BY <1>2
      <3> QED  BY <1>1, <3>1, <3>2, OnlyWordIsFound
    <2>2. Thousands(a) \o t = w
      BY <1>4, Zenon
    <2> HIDE DEF w
    <2>3. Below1000000(w) = 1000 * (IF u = <<>> THEN 1 ELSE Below1000(u)) + Below1000(t)
      BY <2>1, ReadAroundMil
    <2>4. Below1000000(w) = 1000 * a + Below1000(t)
      BY <1>4, <2>3
    <2> QED  BY <2>1, <2>2, <2>4, Zenon
  <1>5. CASE a = 1
    <2>1. Thousands(a) = <<>> \o <<Mil>> /\ <<>> \in Seq(Words(Plain))
      <3>1. Thousands(a) = <<Mil>>
        BY <1>5 DEF Thousands
      <3>2. <<Mil>> \in Seq(Words(Small))
        BY <1>1
      <3> QED  BY <3>1, <3>2, ConcatEmptySeq
    <2> QED  BY <1>4, <1>5, <2>1, Zenon
  <1>6. CASE a > 1
    <2> DEFINE u == ThreeDigits(a, TRUE)
    <2>1. u \in Seq(Words(Plain)) /\ Below1000(u) = a
      <3>1. a \in 1..999 /\ TRUE \in BOOLEAN
        BY <1>6 DEF ThreeDigitNumbers
      <3> QED  BY <3>1, GroupReadsBack, Zenon
    <2>2. u # <<>>
      <3>1. Len(<<>>) = 0 /\ Below1000(<<>>) = 0
        BY FewWordsAddUp
      <3>2. a # 0
        BY <1>6
      <3> QED  BY <2>1, <3>1, <3>2, Zenon
    <2>3. Thousands(a) = u \o <<Mil>>
      <3>1. a # 0 /\ a # 1
        BY <1>6
      <3> QED  BY <3>1, Zenon DEF Thousands
    <2> HIDE DEF u
    <2> QED  BY <1>4, <2>1, <2>2, <2>3, Zenon
  <1> QED  BY <1>3, <1>5, <1>6 DEF ThreeDigitNumbers

\* What a reader makes of the words around the millions.
LEMMA ReadAroundMillions ==
  ASSUME NEW w, NEW u, NEW v, SplitsAt(w, PlaceOf(w, {"millon", "millones"}), u, v)
  PROVE  ReadWords(w) = [millions |-> Below1000000(u), rest |-> Below1000000(v)]
  <1> DEFINE at == PlaceOf(w, {"millon", "millones"})
             before == Below1000000(SubSeq(w, 1, at - 1))
             after == Below1000000(SubSeq(w, at + 1, Len(w)))
  <1>1. ReadWords(w) = [millions |-> IF at = 0 THEN 0 ELSE before, rest |-> after]
    BY Zenon DEF ReadWords
  <1>2. before = Below1000000(u) /\ after = Below1000000(v) /\ at # 0
    BY DEF SplitsAt
  <1> HIDE DEF at, before, after
  <1> QED  BY <1>1, <1>2

\* The words of a group, and of six digits: the thousands and the group after them.
Group(n, apocope) == IF n > 0 THEN ThreeDigits(n, apocope) ELSE <<>>
FirstDigits(m) == Thousands(m \div 1000)
LastDigits(m, apocope) == Group(m % 1000, apocope)
SixDigits(m, apocope) == FirstDigits(m) \o LastDigits(m, apocope)

\* A group, which may have no words, is read as it is.
LEMMA GroupIsRead ==
  ASSUME NEW n \in ThreeDigitNumbers, NEW apocope \in BOOLEAN
  PROVE  Group(n, apocope) \in Seq(Words(Plain)) /\ Below1000(Group(n, apocope)) = n
  <1>1. CASE n = 0
    <2>1. Len(<<>>) = 0 /\ Below1000(<<>>) = 0 /\ <<>> \in Seq(Words(Plain))
      BY FewWordsAddUp
    <2>2. Group(n, apocope) = <<>>
      BY <1>1 DEF Group
    <2> QED  BY <1>1, <2>1, <2>2, Zenon
  <1>2. CASE n \in 1..999
    <2>1. Group(n, apocope) = ThreeDigits(n, apocope)
      <3>1. n > 0
        BY <1>2
      <3> QED  BY <3>1, Zenon DEF Group
    <2> QED  BY <1>2, <2>1, GroupReadsBack, Zenon
  <1> QED  BY <1>1, <1>2 DEF ThreeDigitNumbers

\* Six digits are read back.
LEMMA SixDigitsReadBack ==
  ASSUME NEW m \in SixDigitNumbers, NEW apocope \in BOOLEAN
  PROVE  /\ SixDigits(m, apocope) \in Seq(Words(Small))
         /\ Below1000000(SixDigits(m, apocope)) = m
  <1> DEFINE a == m \div 1000
             n == m % 1000
             t == Group(n, apocope)
  <1>1. a \in ThreeDigitNumbers /\ n \in ThreeDigitNumbers /\ m = 1000 * a + n
    BY DEF SixDigitNumbers, ThreeDigitNumbers
  <1>2. SixDigits(m, apocope) = Thousands(a) \o t
    BY Zenon DEF SixDigits, FirstDigits, LastDigits
  <1> HIDE DEF a, n
  <1>3. t \in Seq(Words(Plain)) /\ Below1000(t) = n
    BY <1>1, GroupIsRead
  <1> HIDE DEF t
  <1>4. Below1000(t) \in Nat
    BY <1>1, <1>3 DEF ThreeDigitNumbers
  <1>5. /\ Thousands(a) \o t \in Seq(Words(Small))
        /\ Below1000000(Thousands(a) \o t) = 1000 * a + Below1000(t)
    BY <1>1, <1>3, <1>4, ThousandsReadBack
  <1>6. Below1000000(Thousands(a) \o t) = m
    BY <1>1, <1>3, <1>5
  <1> QED  BY <1>2, <1>5, <1>6, Zenon

\* The thousands and the group are made of words below a million.
LEMMA ThousandsAreWords ==
  ASSUME NEW a \in ThreeDigitNumbers
  PROVE  Thousands(a) \in Seq(Words(Small))
  <1>1. Mil \in Words(Small) /\ Words(Plain) \subseteq Words(Small)
    BY DEF Mil, Words, Small, Plain
  <1>2. <<>> \in Seq(Words(Small)) /\ <<Mil>> \in Seq(Words(Small))
    BY <1>1
  <1>3. ASSUME a # 0 PROVE ThreeDigits(a, TRUE) \o <<Mil>> \in Seq(Words(Small))
    <2>1. a \in 1..999
      BY <1>3 DEF ThreeDigitNumbers
    <2>2. ThreeDigits(a, TRUE) \in Seq(Words(Plain))
      BY <2>1, GroupReadsBack, Zenon
    <2>3. ThreeDigits(a, TRUE) \in Seq(Words(Small))
      BY <1>1, <2>2, SeqMonotonic, Zenon
    <2> QED  BY <1>2, <2>3, ConcatProperties, Zenon
  <1> QED  BY <1>2, <1>3, Zenon DEF Thousands

\* So is a group.
LEMMA GroupIsWords ==
  ASSUME NEW n \in ThreeDigitNumbers, NEW apocope \in BOOLEAN
  PROVE  Group(n, apocope) \in Seq(Words(Small))
  <1>1. Words(Plain) \subseteq Words(Small)
    BY DEF Words, Small, Plain
  <1> QED  BY <1>1, GroupIsRead, SeqMonotonic, Zenon

\* So are the two parts of six digits.
LEMMA PartsAreWords ==
  ASSUME NEW m \in SixDigitNumbers, NEW apocope \in BOOLEAN
  PROVE  /\ FirstDigits(m) \in Seq(Words(Small))
         /\ LastDigits(m, apocope) \in Seq(Words(Small))
  <1> DEFINE a == m \div 1000
             n == m % 1000
  <1>1. a \in ThreeDigitNumbers /\ n \in ThreeDigitNumbers
    BY DEF SixDigitNumbers, ThreeDigitNumbers
  <1> HIDE DEF a, n
  <1>2. Thousands(a) \in Seq(Words(Small)) /\ Group(n, apocope) \in Seq(Words(Small))
    BY <1>1, ThousandsAreWords, GroupIsWords
  <1>3. FirstDigits(m) = Thousands(a) /\ LastDigits(m, apocope) = Group(n, apocope)
    BY Zenon DEF FirstDigits, LastDigits, a, n
  <1> QED  BY <1>2, <1>3, Zenon

\* A word of a million or more is missing: the amount is the rest.
LEMMA ReadWithoutMillions ==
  ASSUME NEW S, NEW w \in Seq(S), Without(w, {"millon", "millones"})
  PROVE  ReadWords(w) = [millions |-> 0, rest |-> Below1000000(w)]
  <1>1. PlaceOf(w, {"millon", "millones"}) = 0
    BY DEF PlaceOf, Without
  <1>2. SubSeq(w, 0 + 1, Len(w)) = w
    BY SubSeqFull
  <1>3. ReadWords(w) = [millions |-> 0, rest |-> Below1000000(SubSeq(w, 0 + 1, Len(w)))]
    BY <1>1, Zenon DEF ReadWords
  <1> QED  BY <1>2, <1>3, Zenon

\* A single word that is no "mil" is read as its value.
LEMMA OneWordReads ==
  ASSUME NEW x \in Words(Small), x.kind # "mil", x.value \in Int
  PROVE  Below1000000(<<x>>) = x.value
  <1>1. PlaceOf(<<x>>, {"mil"}) = 0
    BY DEF PlaceOf
  <1>2. Below1000000(<<x>>) = Below1000(<<x>>)
    BY <1>1, Zenon DEF Below1000000
  <1> QED  BY <1>2, FewWordsAddUp

\* The short form of one is read as one.
LEMMA OneReadsBack == <<Short(1)>> \in Seq(Words(Small)) /\ Below1000000(<<Short(1)>>) = 1
  <1>1. Short(1) \in Words(Small) /\ Short(1).kind # "mil" /\ Short(1).value = 1
    BY DEF Short, Words, Small, Plain
  <1> QED  BY <1>1, OneWordReads

\* Nothing is written as the word zero, and read as nothing.
LEMMA NothingReadsBack == ReadWords(<<Word(0)>>) = [millions |-> 0, rest |-> 0]
  <1>1. Word(0) \in Words(Small) /\ Word(0).kind = "number" /\ Word(0).value = 0
    BY DEF Word, Words, Small, Plain
  <1>2. Below1000000(<<Word(0)>>) = 0
    BY <1>1, OneWordReads
  <1>3. <<Word(0)>> \in Seq(Words(Small)) /\ Without(<<Word(0)>>, {"millon", "millones"})
    BY <1>1 DEF Without
  <1> QED  BY <1>2, <1>3, ReadWithoutMillions

\* The kinds of all words.
Every == Small \cup {"millon", "millones"}

\* An amount in words is read as the amount in figures.
LEMMA AmountReadsBack ==
  ASSUME NEW millions \in SixDigitNumbers, NEW rest \in SixDigitNumbers
  PROVE  ReadsBack(millions, rest)
  <1> DEFINE big == {"millon", "millones"}
             t == SixDigits(rest, FALSE)
             w == NumberToSpanishWords(millions, rest)
             read == [millions |-> millions, rest |-> rest]
  <1> SUFFICES ReadWords(w) = read
    BY Zenon DEF ReadsBack
  <1>1. t \in Seq(Words(Small)) /\ Below1000000(t) = rest
    BY SixDigitsReadBack
  <1>2. ASSUME NEW s \in Seq(Words(Small))
        PROVE  s \in Seq(Words(Every)) /\ Without(s, big)
    <2>1. Words(Small) \subseteq Words(Every) /\ \A x \in Words(Small) : x.kind \notin big
      BY DEF Words, Small, Plain, Every
    <2> HIDE DEF big
    <2> QED  BY <2>1, SeqMonotonic, SequencesHaveElements DEF Without
  <1>3. /\ Millon \in Words(Every) /\ Millon.kind \in big
        /\ Millones \in Words(Every) /\ Millones.kind \in big
    BY DEF Words, Every, Millon, Millones
  <1>4. ASSUME NEW u \in Seq(Words(Small)), Below1000000(u) = millions,
               NEW x \in Words(Every), x.kind \in big, w = (u \o <<x>>) \o t
        PROVE  ReadWords(w) = read
    <2>1. u \in Seq(Words(Every)) /\ Without(u, big) /\ t \in Seq(Words(Every)) /\ Without(t, big)
      BY <1>1, <1>2
    <2> HIDE DEF t, w
    <2>2. SplitsAt((u \o <<x>>) \o t, PlaceOf((u \o <<x>>) \o t, big), u, t)
      <3> HIDE DEF big
      <3> QED  BY <1>4, <2>1, OnlyWordIsFound
    <2>3. SplitsAt(w, PlaceOf(w, big), u, t)
      BY <1>4, <2>2, Zenon
    <2>4. ReadWords(w) = [millions |-> Below1000000(u), rest |-> Below1000000(t)]
      BY <2>3, ReadAroundMillions
    <2> QED  BY <1>1, <1>4, <2>4, Zenon
  <1>5. t \in Seq(Words(Every)) /\ Without(t, big)
    BY <1>1, <1>2
  \* The words of the amount are those of its millions and those of the rest.
  <1>6. ASSUME millions # 0 \/ rest # 0, Millions(millions) \in Seq(Words(Every))
        PROVE  w = Millions(millions) \o t
    <2> DEFINE a == Millions(millions)
               b == FirstDigits(rest)
               c == LastDigits(rest, FALSE)
    <2>1. w = (a \o b) \o c
      BY <1>6, Zenon DEF NumberToSpanishWords, FirstDigits, LastDigits, Group
    <2>2. b \in Seq(Words(Every)) /\ c \in Seq(Words(Every))
      <3>1. b \in Seq(Words(Small)) /\ c \in Seq(Words(Small))
        BY PartsAreWords, Zenon
      <3> QED  BY <1>2, <3>1, Zenon
    <2>3. (a \o b) \o c = a \o (b \o c)
      <3>1. a \in Seq(Words(Every))
        BY <1>6
      <3> HIDE DEF a, b, c
      <3> QED  BY <3>1, <2>2, ConcatAssociative
    <2>4. t = b \o c
      BY Zenon DEF SixDigits
    <2> HIDE DEF a, b, c, t, w
    <2> QED  BY <2>1, <2>3, <2>4, Zenon DEF a
  <1>7. CASE millions = 0
    <2>1. CASE rest = 0
      <3>1. w = <<Word(0)>>
        BY <1>7, <2>1, Zenon DEF NumberToSpanishWords
      <3> HIDE DEF w, t
      <3> QED  BY <1>7, <2>1, <3>1, NothingReadsBack
    <2>2. CASE rest # 0
      <3>1. Millions(millions) = <<>>
        BY <1>7, Zenon DEF Millions
      <3>2. w = <<>> \o t
        <4>1. <<>> \in Seq(Words(Every))
          OBVIOUS
        <4> QED  BY <1>6, <2>2, <3>1, <4>1, Zenon
      <3>3. w = t
        <4> HIDE DEF w, t
        <4> QED  BY <1>5, <3>2, ConcatEmptySeq
      <3>4. ReadWords(w) = [millions |-> 0, rest |-> Below1000000(w)]
        <4> HIDE DEF w, t
        <4> QED  BY <1>5, <3>3, ReadWithoutMillions DEF big
      <3> QED  BY <1>1, <1>7, <3>3, <3>4, Zenon
    <2> QED  BY <2>1, <2>2
  <1>8. CASE millions = 1
    <2> DEFINE u == <<Short(1)>>
    <2>1. u \in Seq(Words(Small)) /\ Below1000000(u) = 1
      BY OneReadsBack
    <2>2. Millions(millions) = <<Short(1), Millon>>
      BY <1>8 DEF Millions
    <2>3. <<Short(1), Millon>> = u \o <<Millon>>
      OBVIOUS
    <2>4. Millions(millions) \in Seq(Words(Every))
      <3>1. Short(1) \in Words(Every)
        BY DEF Short, Words, Every, Small, Plain
      <3> QED  BY <1>3, <2>2, <3>1
    <2> HIDE DEF u, w, t
    <2>5. w = (u \o <<Millon>>) \o t
      <3>1. w = Millions(millions) \o t
        BY <1>6, <1>8, <2>4
      <3> QED  BY <2>2, <2>3, <3>1, Zenon
    <2> QED  BY <1>3, <1>4, <1>8, <2>1, <2>5
  <1>9. CASE millions > 1
    <2> DEFINE a == FirstDigits(millions)
               b == LastDigits(millions, TRUE)
               u == SixDigits(millions, TRUE)
    <2>1. u \in Seq(Words(Small)) /\ Below1000000(u) = millions
      BY SixDigitsReadBack, Zenon
    <2>2. a \in Seq(Words(Small)) /\ b \in Seq(Words(Small))
      BY PartsAreWords, Zenon
    <2>3. Millions(millions) = (a \o b) \o <<Millones>>
      <3>1. millions # 0 /\ millions # 1
        BY <1>9
      <3> QED  BY <3>1, Zenon DEF Millions, FirstDigits, LastDigits, Group
    <2>4. u = a \o b
      BY Zenon DEF SixDigits
    <2> HIDE DEF a, b, u, w, t
    <2>5. Millions(millions) = u \o <<Millones>>
      BY <2>3, <2>4, Zenon
    <2>6. Millions(millions) \in Seq(Words(Every))
      <3>1. u \in Seq(Words(Every)) /\ <<Millones>> \in Seq(Words(Every))
        BY <1>2, <1>3, <2>1
      <3> QED  BY <2>5, <3>1, ConcatProperties
    <2>7. w = (u \o <<Millones>>) \o t
      <3>1. w = Millions(millions) \o t
        BY <1>6, <1>9, <2>6
      <3> QED  BY <2>5, <3>1, Zenon
    <2> QED  BY <1>3, <1>4, <2>1, <2>7
  <1> HIDE DEF w, t, read
  <1> QED  BY <1>7, <1>8, <1>9 DEF SixDigitNumbers

\* Whoever reads the amount of a legal document in words reads its figures.
THEOREM WordsReadBackHolds == Spec => []WordsReadBack
  <1>1. InputInv => WordsReadBack
    <2> SUFFICES ASSUME InputInv, kind = "amount"
                 PROVE  ReadsBack(input.millions, input.rest)
      BY DEF WordsReadBack
    <2>1. input.millions \in SixDigitNumbers /\ input.rest \in SixDigitNumbers
      BY AmountAssumption DEF InputInv, AmountAssumption, WellFormedAmount, SixDigitNumbers
    <2> QED  BY <2>1, AmountReadsBack
  <1> QED  BY <1>1, InputKept, PTL

-----------------------------------------------------------------------------
(***************************************************************************)
(* Tables.  The sum of a column at some places is a sum of a column with   *)
(* zeros elsewhere.                                                        *)
(***************************************************************************)
\* What holds of zero, and of the next of what it holds of, holds up to n.
LEMMA UpTo ==
  ASSUME NEW n \in Nat, NEW G, 0 \in G, \A i \in 0..n-1 : i \in G => i + 1 \in G
  PROVE  \A i \in 0..n : i \in G
  <1> DEFINE bad == {i \in 0..n : i \notin G}
  <1>1. SUFFICES ASSUME bad # {} PROVE FALSE
    BY <1>1
  <1>2. PICK m \in bad : \A k \in bad : m <= k
    <2>1. bad \in SUBSET Nat
      OBVIOUS
    <2> HIDE DEF bad
    <2> QED  BY <1>1, <2>1, Smallest
  <1>3. m # 0 /\ m - 1 \in 0..n-1 /\ m - 1 \notin bad
    BY <1>2
  <1> QED  BY <1>2, <1>3

\* A column of n numbers, and what a query makes of it.
Column(a, n) == n \in Nat /\ Len(a) = n /\ \A i \in 1..n : a[i] \in Int
Masked(a, S) == [i \in 1..Len(a) |-> IF i \in S THEN a[i] ELSE 0]

\* SumOf is a sum.
LEMMA SumIsASum ==
  ASSUME NEW a, NEW n, Column(a, n), NEW S
  PROVE  \E s : IsSumOf(s, Masked(a, S), n) /\ SumOf(a, S) = s[n]
  <1>1. n \in Nat /\ Len(a) = n
    BY DEF Column
  <1>2. PICK s : IsSumOf(s, Masked(a, S), n)
    BY <1>1, SumsExist
  <1>3. \A i \in 1..n : Masked(a, S)[i] = IF i \in S THEN a[i] ELSE 0
    BY <1>1 DEF Masked
  <1>4. s = [i \in 0..Len(a) |-> IF i = 0 THEN 0 ELSE s[i-1] + (IF i \in S THEN a[i] ELSE 0)]
    <2>1. \A i \in 0..n : s[i] = IF i = 0 THEN 0 ELSE s[i-1] + (IF i \in S THEN a[i] ELSE 0)
      BY <1>1, <1>2, <1>3 DEF IsSumOf
    <2>2. s = [i \in 0..n |-> s[i]]
      BY <1>2 DEF IsSumOf
    <2> QED  BY <1>1, <2>1, <2>2
  <1>5. PICK u : /\ u = [i \in 0..Len(a) |-> IF i = 0 THEN 0
                                             ELSE u[i-1] + (IF i \in S THEN a[i] ELSE 0)]
                 /\ SumOf(a, S) = u[Len(a)]
    BY <1>4 DEF SumOf
  <1>6. IsSumOf(u, Masked(a, S), n)
    <2>1. \A i \in 0..n : u[i] = IF i = 0 THEN 0 ELSE u[i-1] + Masked(a, S)[i]
      BY <1>1, <1>3, <1>5
    <2>2. u = [i \in 0..n |-> u[i]]
      BY <1>1, <1>5
    <2> QED  BY <2>1, <2>2 DEF IsSumOf
  <1> QED  BY <1>1, <1>5, <1>6

\* A column that is the sum of two, place by place.
AddUp(a, b, c, n) == \A i \in 1..n : a[i] \in Int /\ b[i] \in Int /\ c[i] = a[i] + b[i]
\* Its sum is that of the sums.
LEMMA SumsAdd ==
  ASSUME NEW n \in Nat, NEW a, NEW b, NEW c, AddUp(a, b, c, n),
         NEW s, NEW t, NEW u, IsSumOf(s, a, n), IsSumOf(t, b, n), IsSumOf(u, c, n)
  PROVE  s[n] \in Int /\ t[n] \in Int /\ u[n] = s[n] + t[n]
  <1> DEFINE G == {i \in 0..n : s[i] \in Int /\ t[i] \in Int /\ u[i] = s[i] + t[i]}
  <1>1. \A i \in 0..n : /\ s[i] = IF i = 0 THEN 0 ELSE s[i-1] + a[i]
                        /\ t[i] = IF i = 0 THEN 0 ELSE t[i-1] + b[i]
                        /\ u[i] = IF i = 0 THEN 0 ELSE u[i-1] + c[i]
    BY DEF IsSumOf
  <1>2. 0 \in G
    BY <1>1
  <1>3. ASSUME NEW i \in 0..n-1, i \in G PROVE i + 1 \in G
    <2>1. i + 1 \in 1..n /\ i + 1 \in 0..n /\ (i + 1) - 1 = i /\ i + 1 # 0
      OBVIOUS
    <2>2. s[i+1] = s[i] + a[i+1] /\ t[i+1] = t[i] + b[i+1] /\ u[i+1] = u[i] + c[i+1]
      BY <1>1, <2>1
    <2> QED  BY <1>3, <2>1, <2>2 DEF AddUp
  <1> HIDE DEF G
  <1>4. \A i \in 0..n : i \in G
    BY <1>2, <1>3, UpTo
  <1> QED  BY <1>4 DEF G

\* The sum at some places is a whole number.
LEMMA SumInt ==
  ASSUME NEW a, NEW n, Column(a, n), NEW S
  PROVE  SumOf(a, S) \in Int
  <1> DEFINE m == Masked(a, S)
             z == [i \in 1..n |-> 0]
  <1>1. n \in Nat /\ AddUp(m, z, m, n)
    BY DEF Column, Masked, AddUp
  <1>2. PICK s : IsSumOf(s, m, n) /\ SumOf(a, S) = s[n]
    BY SumIsASum
  <1> HIDE DEF m, z
  <1>3. PICK t : IsSumOf(t, z, n)
    BY <1>1, SumsExist
  <1> QED  BY <1>1, <1>2, <1>3, SumsAdd

\* A column that is the sum of two, each at its places, adds up to both.
LEMMA SumSplits ==
  ASSUME NEW n, NEW a, NEW b, NEW c, Column(a, n), Column(b, n), Column(c, n),
         NEW S, NEW T, NEW U,
         \A i \in 1..n : (IF i \in U THEN c[i] ELSE 0)
                           = (IF i \in S THEN a[i] ELSE 0) + (IF i \in T THEN b[i] ELSE 0)
  PROVE  SumOf(c, U) = SumOf(a, S) + SumOf(b, T)
  <1> DEFINE ma == Masked(a, S)
             mb == Masked(b, T)
             mc == Masked(c, U)
  <1>1. n \in Nat /\ AddUp(ma, mb, mc, n)
    BY DEF Column, Masked, AddUp
  <1>2. PICK s : IsSumOf(s, ma, n) /\ SumOf(a, S) = s[n]
    BY SumIsASum
  <1>3. PICK t : IsSumOf(t, mb, n) /\ SumOf(b, T) = t[n]
    BY SumIsASum
  <1>4. PICK u : IsSumOf(u, mc, n) /\ SumOf(c, U) = u[n]
    BY SumIsASum
  <1> HIDE DEF ma, mb, mc
  <1> QED  BY <1>1, <1>2, <1>3, <1>4, SumsAdd

\* Where there is nothing to add the sum is zero.
LEMMA SumNothing ==
  ASSUME NEW a, NEW n, Column(a, n), NEW S, \A i \in 1..n : i \in S => a[i] = 0
  PROVE  SumOf(a, S) = 0
  <1> DEFINE m == Masked(a, S)
  <1>1. n \in Nat /\ \A i \in 1..n : m[i] = 0
    BY DEF Column, Masked
  <1>2. PICK s : IsSumOf(s, m, n) /\ SumOf(a, S) = s[n]
    BY SumIsASum
  <1> HIDE DEF m
  <1>3. \A i \in 0..n : s[i] = 0
    BY <1>1, <1>2, SumsAreZero
  <1> QED  BY <1>1, <1>2, <1>3

\* Where nothing is negative the sum is not.
LEMMA SumNat ==
  ASSUME NEW a, NEW n, Column(a, n), NEW S, \A i \in 1..n : i \in S => a[i] >= 0
  PROVE  SumOf(a, S) \in Nat
  <1> DEFINE m == Masked(a, S)
  <1>1. n \in Nat /\ \A i \in 1..n : m[i] \in Nat
    BY DEF Column, Masked
  <1>2. PICK s : IsSumOf(s, m, n) /\ SumOf(a, S) = s[n]
    BY SumIsASum
  <1> HIDE DEF m
  <1>3. n \in 0..n
    BY <1>1
  <1> QED  BY <1>1, <1>2, <1>3, SumsAreNat

\* The sum at places of two disjoint sets.
LEMMA SumUnion ==
  ASSUME NEW a, NEW n, Column(a, n), NEW S, NEW T, \A i \in 1..n : ~(i \in S /\ i \in T)
  PROVE  SumOf(a, S \cup T) = SumOf(a, S) + SumOf(a, T)
  <1>1. \A i \in 1..n : (IF i \in S \cup T THEN a[i] ELSE 0)
                           = (IF i \in S THEN a[i] ELSE 0) + (IF i \in T THEN a[i] ELSE 0)
    BY DEF Column
  <1> QED  BY <1>1, SumSplits

\* Columns that agree at the places have one sum.
LEMMA SumSame ==
  ASSUME NEW n, NEW a, NEW b, Column(a, n), Column(b, n), NEW S, NEW T,
         \A i \in 1..n : (IF i \in S THEN a[i] ELSE 0) = (IF i \in T THEN b[i] ELSE 0)
  PROVE  SumOf(a, S) = SumOf(b, T)
  <1>1. \A i \in 1..n : (IF i \in S THEN a[i] ELSE 0)
                           = (IF i \in T THEN b[i] ELSE 0) + (IF i \in {} THEN b[i] ELSE 0)
    BY DEF Column
  <1>2. SumOf(a, S) = SumOf(b, T) + SumOf(b, {})
    BY <1>1, SumSplits
  <1>3. SumOf(b, {}) = 0 /\ SumOf(b, T) \in Int
    BY SumNothing, SumInt
  <1> QED  BY <1>2, <1>3

\* A sum at some of the places is at most that at all, when nothing is negative.
LEMMA SumOfSome ==
  ASSUME NEW a, NEW n, Column(a, n), NEW S, NEW T, \A i \in 1..n : i \in S => i \in T,
         \A i \in 1..n : i \in T => a[i] >= 0
  PROVE  SumOf(a, S) <= SumOf(a, T)
  <1>1. \A i \in 1..n : (IF i \in T THEN a[i] ELSE 0)
                           = (IF i \in S THEN a[i] ELSE 0) + (IF i \in T \ S THEN a[i] ELSE 0)
    BY DEF Column
  <1>2. SumOf(a, T) = SumOf(a, S) + SumOf(a, T \ S)
    BY <1>1, SumSplits
  <1>3. SumOf(a, T \ S) \in Nat /\ SumOf(a, S) \in Int
    BY SumNat, SumInt
  <1> QED  BY <1>2, <1>3

\* The sum at one place.
LEMMA SumOne ==
  ASSUME NEW a, NEW n, Column(a, n), NEW x \in 1..n
  PROVE  SumOf(a, {x}) = a[x]
  <1> DEFINE m == Masked(a, {x})
  <1>1. n \in Nat /\ a[x] \in Int /\ \A i \in 1..n : m[i] = IF i = x THEN a[x] ELSE 0
    BY DEF Column, Masked
  <1>2. PICK s : IsSumOf(s, m, n) /\ SumOf(a, {x}) = s[n]
    BY SumIsASum
  <1> HIDE DEF m
  <1> DEFINE G == {i \in 0..n : s[i] = IF i < x THEN 0 ELSE a[x]}
  <1>3. \A i \in 0..n : s[i] = IF i = 0 THEN 0 ELSE s[i-1] + m[i]
    BY <1>2 DEF IsSumOf
  <1>4. 0 \in G
    BY <1>1, <1>3
  <1>5. ASSUME NEW i \in 0..n-1, i \in G PROVE i + 1 \in G
    <2>1. i + 1 \in 1..n /\ i + 1 \in 0..n /\ (i + 1) - 1 = i /\ i + 1 # 0
      BY <1>1
    <2>2. s[i+1] = s[i] + m[i+1]
      BY <1>3, <2>1
    <2> QED  BY <1>1, <1>5, <2>1, <2>2
  <1> HIDE DEF G
  <1>6. \A i \in 0..n : i \in G
    BY <1>1, <1>4, <1>5, UpTo
  <1>7. n \in G /\ ~(n < x)
    BY <1>1, <1>6
  <1> QED  BY <1>2, <1>7 DEF G

\* One more place adds what it has.
LEMMA SumOneMore ==
  ASSUME NEW a, NEW n, Column(a, n), NEW S, NEW x \in 1..n, x \notin S
  PROVE  SumOf(a, S \cup {x}) = SumOf(a, S) + a[x]
  <1>1. \A i \in 1..n : ~(i \in S /\ i \in {x})
    OBVIOUS
  <1>2. SumOf(a, S \cup {x}) = SumOf(a, S) + SumOf(a, {x})
    BY <1>1, SumUnion
  <1>3. SumOf(a, {x}) = a[x]
    BY SumOne
  <1> QED  BY <1>2, <1>3


-----------------------------------------------------------------------------
(***************************************************************************)
(* Queries.  The order of a query has each of its places once, and the     *)
(* column it is in the order of never goes down along it.                  *)
(***************************************************************************)
\* An order of length m of the places S.
Enumerates(order, m, S) ==
  /\ m \in Nat /\ order = [k \in 1..m |-> order[k]] /\ Len(order) = m
  /\ \A k \in 1..m : order[k] \in S
  /\ \A k, l \in 1..m : order[k] = order[l] => k = l
  /\ \A i \in S : \E k \in 1..m : order[k] = i

\* Places of a table are finitely many.
LEMMA PlacesAreFinite ==
  ASSUME NEW n \in Nat, NEW S \in SUBSET (1..n)
  PROVE  IsFiniteSet(S) /\ Cardinality(S) \in 0..n
  <1>1. IsFiniteSet(1..n) /\ Cardinality(1..n) = n
    BY FS_Interval
  <1>2. IsFiniteSet(S) /\ Cardinality(S) <= n
    BY <1>1, FS_Subset
  <1> QED  BY <1>2, FS_CardinalityType

\* What InOrder returns (the orderBy of a query).
LEMMA OrderOfPlaces ==
  ASSUME NEW n \in Nat, NEW S \in SUBSET (1..n), NEW c, \A i \in S : c[i] \in Int
  PROVE  /\ Enumerates(InOrder(S, c), Cardinality(S), S)
         /\ \A k, l \in 1..Cardinality(S) : k <= l => c[InOrder(S, c)[k]] <= c[InOrder(S, c)[l]]
  <1> DEFINE m == Cardinality(S)
             before(i, j) == c[i] < c[j] \/ (c[i] = c[j] /\ i < j)
             R == {p \in S \X S : before(p[1], p[2])}
             at(k) == CHOOSE i \in S : Rank(S, R, i) = k - 1
             s == InOrder(S, c)
  <1>1. \A i \in S : c[i] \in Int /\ i \in Int
    OBVIOUS
  <1>2. \A i, j \in S : <<i, j>> \in R <=> before(i, j)
    OBVIOUS
  <1>3. StrictOrder(S, R)
    <2>1. \A i, j \in S : i # j => before(i, j) \/ before(j, i)
      BY <1>1
    <2>2. \A i, j, k \in S : before(i, j) /\ before(j, k) => before(i, k)
      BY <1>1
    <2>3. \A i \in S : ~before(i, i)
      BY <1>1
    <2> HIDE DEF R, before
    <2> QED  BY <1>2, <2>1, <2>2, <2>3 DEF StrictOrder
  <1>4. IsFiniteSet(S) /\ m \in Nat
    BY PlacesAreFinite
  <1>5. \A i \in S : Rank(S, R, i) = Cardinality({j \in S : before(j, i)})
    <2>1. \A i \in S : {j \in S : before(j, i)} = Before(S, R, i)
      <3> HIDE DEF R, before
      <3> QED  BY <1>2 DEF Before
    <2> QED  BY <2>1 DEF Rank
  <1>6. \A k \in 1..m : at(k) \in S /\ Rank(S, R, at(k)) = k - 1
    <2>1. ASSUME NEW k \in 1..m PROVE \E i \in S : Rank(S, R, i) = k - 1
      <3>1. k - 1 \in 0..(Cardinality(S) - 1)
        BY <1>4
      <3> HIDE DEF R
      <3> QED  BY <1>3, <1>4, <3>1, PlacesAreTaken
    <2> HIDE DEF R
    <2> QED  BY <2>1
  <1>7. s = [k \in 1..m |-> at(k)]
    <2> DEFINE there(k) == CHOOSE i \in S : Cardinality({j \in S : before(j, i)}) = k - 1
    <2>1. s = [k \in 1..m |-> there(k)]
      BY DEF InOrder
    <2>2. \A k : at(k) = there(k)
      <3> HIDE DEF R, before
      <3> QED  BY <1>5
    <2> HIDE DEF at, there, s
    <2> QED  BY <2>1, <2>2
  <1>8. \A i, j \in S : Rank(S, R, i) < Rank(S, R, j) => before(i, j)
    <2>1. ASSUME NEW i \in S, NEW j \in S, Rank(S, R, i) < Rank(S, R, j), ~before(i, j)
          PROVE  FALSE
      <3>1. Rank(S, R, i) \in Int /\ Rank(S, R, j) \in Int
        <4> HIDE DEF R
        <4> QED  BY <1>3, <1>4, RankIsBounded
      <3>2. i # j
        BY <2>1, <3>1
      <3>3. <<j, i>> \in R
        <4> HIDE DEF R, before
        <4> QED  BY <1>2, <1>3, <2>1, <3>2 DEF StrictOrder
      <3>4. Rank(S, R, j) < Rank(S, R, i)
        <4> HIDE DEF R
        <4> QED  BY <1>3, <1>4, <3>3, RankGrows
      <3> QED  BY <2>1, <3>1, <3>4
    <2> QED  BY <2>1
  <1>9. \A k \in 1..m : s[k] = at(k) /\ s[k] \in S /\ Rank(S, R, s[k]) = k - 1
    <2> HIDE DEF R, at
    <2> QED  BY <1>6, <1>7
  <1>10. s = [k \in 1..m |-> s[k]] /\ Len(s) = m
    <2> HIDE DEF at
    <2> QED  BY <1>4, <1>7
  <1>11. ASSUME NEW i \in S PROVE \E k \in 1..m : s[k] = i
    <2>1. Rank(S, R, i) \in 0..(m - 1)
      <3> HIDE DEF R
      <3> QED  BY <1>3, <1>4, RankIsBounded
    <2>2. PICK k \in 1..m : k - 1 = Rank(S, R, i)
      <3>1. Rank(S, R, i) + 1 \in 1..m /\ (Rank(S, R, i) + 1) - 1 = Rank(S, R, i)
        BY <1>4, <2>1
      <3> QED  BY <3>1
    <2>3. s[k] \in S /\ Rank(S, R, s[k]) = Rank(S, R, i)
      BY <1>9, <2>2
    <2>4. s[k] # i => <<s[k], i>> \in R \/ <<i, s[k]>> \in R
      <3> HIDE DEF s, R
      <3> QED  BY <1>3, <2>3 DEF StrictOrder
    <2>5. \A a, b \in S : <<a, b>> \in R => Rank(S, R, a) < Rank(S, R, b)
      <3> HIDE DEF R
      <3> QED  BY <1>3, <1>4, RankGrows
    <2> HIDE DEF R, s
    <2>6. ~(Rank(S, R, i) < Rank(S, R, i))
      BY <2>1
    <2> QED  BY <2>3, <2>4, <2>5, <2>6
  <1>12. ASSUME NEW k \in 1..m, NEW l \in 1..m, k <= l PROVE c[s[k]] <= c[s[l]]
    <2>1. CASE k = l
      <3> HIDE DEF s, R
      <3>1. s[k] \in S
        BY <1>9
      <3>2. c[s[k]] \in Int
        BY <3>1
      <3> QED  BY <2>1, <3>2
    <2>2. CASE k # l
      <3>1. k - 1 < l - 1
        BY <1>4, <1>12, <2>2
      <3>2. before(s[k], s[l])
        <4> HIDE DEF s, R, before
        <4> QED  BY <1>8, <1>9, <3>1
      <3>3. c[s[k]] \in Int /\ c[s[l]] \in Int
        <4> HIDE DEF s, R, before
        <4>1. s[k] \in S /\ s[l] \in S
          BY <1>9
        <4> QED  BY <4>1
      <3> HIDE DEF s, R
      <3> QED  BY <3>2, <3>3
    <2> QED  BY <2>1, <2>2
  <1>13. ASSUME NEW k \in 1..m, NEW l \in 1..m, s[k] = s[l] PROVE k = l
    <2>1. k - 1 = l - 1
      <3> HIDE DEF s, R
      <3> QED  BY <1>9, <1>13
    <2> QED  BY <1>4, <2>1
  <1> HIDE DEF s, m, at, R
  <1>14. Enumerates(s, m, S)
    BY <1>4, <1>9, <1>10, <1>11, <1>13 DEF Enumerates
  <1> QED  BY <1>12, <1>14 DEF s, m

\* A column of ones.
Ones(n) == [i \in 1..n |-> 1]
\* How many places there are is its sum at them.
LEMMA CardinalityIsASum ==
  ASSUME NEW n \in Nat, NEW S \in SUBSET (1..n)
  PROVE  Column(Ones(n), n) /\ SumOf(Ones(n), S) = Cardinality(S)
  <1> DEFINE a == Ones(n)
             upTo(i) == {j \in S : j <= i}
             G == {i \in 0..n : SumOf(a, upTo(i)) = Cardinality(upTo(i))}
  <1>1. Column(a, n) /\ \A i \in 1..n : a[i] = 1
    BY DEF Column, Ones
  <1> HIDE DEF a
  <1>0. \A j \in S : j \in Int /\ 1 <= j /\ j <= n
    OBVIOUS
  <1>2. 0 \in G
    <2>1. upTo(0) = {}
      <3>1. \A j \in S : ~(j <= 0)
        BY <1>0
      <3> QED  BY <3>1
    <2>2. SumOf(a, {}) = 0
      BY <1>1, SumNothing
    <2>3. Cardinality({}) = 0
      BY FS_EmptySet
    <2> QED  BY <2>1, <2>2, <2>3
  <1>3. ASSUME NEW i \in 0..n-1, i \in G PROVE i + 1 \in G
    <2>1. i + 1 \in 1..n /\ i + 1 \in 0..n
      OBVIOUS
    <2>2. IsFiniteSet(upTo(i)) /\ Cardinality(upTo(i)) \in Int
      <3>1. upTo(i) \in SUBSET (1..n)
        OBVIOUS
      <3> HIDE DEF upTo
      <3> QED  BY <3>1, PlacesAreFinite
    <2>3. CASE i + 1 \in S
      <3>1. upTo(i + 1) = upTo(i) \cup {i + 1} /\ i + 1 \notin upTo(i)
        <4>1. /\ \A j \in S : j <= i + 1 <=> j <= i \/ j = i + 1
              /\ i + 1 <= i + 1 /\ ~(i + 1 <= i)
          BY <1>0
        <4> QED  BY <2>3, <4>1
      <3> HIDE DEF upTo
      <3>2. SumOf(a, upTo(i + 1)) = SumOf(a, upTo(i)) + a[i + 1]
        BY <1>1, <2>1, <3>1, SumOneMore
      <3>3. Cardinality(upTo(i + 1)) = Cardinality(upTo(i)) + 1
        BY <2>2, <3>1, FS_AddElement
      <3> QED  BY <1>1, <1>3, <2>1, <2>2, <3>2, <3>3
    <2>4. CASE i + 1 \notin S
      <3>1. upTo(i + 1) = upTo(i)
        <4>1. \A j \in S : j <= i + 1 <=> j <= i
          BY <1>0, <2>4
        <4> QED  BY <4>1
      <3> QED  BY <1>3, <2>1, <3>1
    <2> QED  BY <2>3, <2>4
  <1>4. n \in G
    <2> HIDE DEF G
    <2>1. \A i \in 0..n : i \in G
      BY <1>2, <1>3, UpTo
    <2> QED  BY <2>1
  <1>5. upTo(n) = S
    BY <1>0
  <1>6. SumOf(a, S) = Cardinality(S)
    BY <1>4, <1>5
  <1> QED  BY <1>1, <1>6 DEF a

\* Parts of places: each place of S is in one of them.
PartsOf(P, m, n, S) ==
  \A i \in 1..n : /\ i \in S <=> \E k \in 1..m : i \in P[k]
                  /\ \A k, l \in 1..m : i \in P[k] /\ i \in P[l] => k = l

\* The sums at the parts add up to the sum at all.
LEMMA PartsAddUp ==
  ASSUME NEW a, NEW n, Column(a, n), NEW m, NEW P, NEW S, PartsOf(P, m, n, S),
         NEW t, Column(t, m), \A k \in 1..m : t[k] = SumOf(a, P[k])
  PROVE  SumOf(t, 1..m) = SumOf(a, S)
  <1> DEFINE upTo(k) == {i \in 1..n : \E l \in 1..k : i \in P[l]}
             G == {k \in 0..m : SumOf(t, 1..k) = SumOf(a, upTo(k))}
  <1>1. n \in Nat /\ m \in Nat /\ \A i \in 1..n : a[i] \in Int
    BY DEF Column
  <1>2. 0 \in G
    <2>1. SumOf(t, 1..0) = 0
      <3>1. \A i \in 1..m : i \in 1..0 => t[i] = 0
        OBVIOUS
      <3> QED  BY <3>1, SumNothing
    <2>2. SumOf(a, upTo(0)) = 0
      <3>1. \A i \in 1..n : i \in upTo(0) => a[i] = 0
        OBVIOUS
      <3> HIDE DEF upTo
      <3> QED  BY <3>1, SumNothing
    <2> QED  BY <1>1, <2>1, <2>2
  <1>3. ASSUME NEW k \in 0..m-1, k \in G PROVE k + 1 \in G
    <2>1. k + 1 \in 1..m /\ k + 1 \in 0..m /\ k + 1 \notin 1..k
      BY <1>1
    <2>2. SumOf(t, 1..k+1) = SumOf(t, 1..k) + t[k + 1]
      <3>1. 1..k+1 = (1..k) \cup {k + 1}
        BY <1>1
      <3>2. k + 1 \notin 1..k
        BY <1>1
      <3>3. SumOf(t, (1..k) \cup {k + 1}) = SumOf(t, 1..k) + t[k + 1]
        <4> DEFINE x == k + 1
                   T == 1..k
        <4>1. x \in 1..m /\ x \notin T
          BY <2>1, <3>2
        <4> HIDE DEF x, T
        <4>2. SumOf(t, T \cup {x}) = SumOf(t, T) + t[x]
          BY <4>1, SumOneMore
        <4> QED  BY <4>2 DEF x, T
      <3> QED  BY <3>1, <3>3
    <2>3. \A i \in 1..n : (IF i \in upTo(k + 1) THEN a[i] ELSE 0)
                            = (IF i \in upTo(k) THEN a[i] ELSE 0) + (IF i \in P[k + 1] THEN a[i] ELSE 0)
      <3>1. ASSUME NEW i \in 1..n PROVE /\ i \in upTo(k + 1) <=> i \in upTo(k) \/ i \in P[k + 1]
                                        /\ ~(i \in upTo(k) /\ i \in P[k + 1])
        <4>1. \A l : l \in 1..k+1 <=> l \in 1..k \/ l = k + 1
          BY <1>1
        <4>2. \A l \in 1..k : l \in 1..m
          BY <1>1
        <4>3. i \in upTo(k + 1) <=> \E l \in 1..k+1 : i \in P[l]
          OBVIOUS
        <4>4. i \in upTo(k) <=> \E l \in 1..k : i \in P[l]
          OBVIOUS
        <4> HIDE DEF upTo
        <4>5. \A l \in 1..k : ~(i \in P[l] /\ i \in P[k + 1])
          BY <2>1, <4>2 DEF PartsOf
        <4> QED  BY <4>1, <4>3, <4>4, <4>5
      <3> HIDE DEF upTo
      <3> QED  BY <1>1, <3>1
    <2> HIDE DEF upTo
    <2>4. SumOf(a, upTo(k + 1)) = SumOf(a, upTo(k)) + SumOf(a, P[k + 1])
      BY <2>3, SumSplits
    <2> QED  BY <1>3, <2>1, <2>2, <2>4
  <1>4. m \in G
    <2> HIDE DEF G
    <2>1. \A k \in 0..m : k \in G
      BY <1>1, <1>2, <1>3, UpTo
    <2> QED  BY <1>1, <2>1
  <1>5. SumOf(a, upTo(m)) = SumOf(a, S)
    <2>1. \A i \in 1..n : i \in upTo(m) <=> i \in S
      BY DEF PartsOf
    <2> HIDE DEF upTo
    <2>2. \A i \in 1..n : (IF i \in upTo(m) THEN a[i] ELSE 0) = (IF i \in S THEN a[i] ELSE 0)
      BY <2>1
    <2> QED  BY <2>2, SumSame
  <1> HIDE DEF upTo
  <1> QED  BY <1>4, <1>5

\* The parts have as many places as all of them.
LEMMA PartsCount ==
  ASSUME NEW n \in Nat, NEW m \in Nat, NEW P, NEW S \in SUBSET (1..n), PartsOf(P, m, n, S),
         \A k \in 1..m : P[k] \in SUBSET (1..n),
         NEW t, Len(t) = m, \A k \in 1..m : t[k] = Cardinality(P[k])
  PROVE  SumOf(t, 1..m) = Cardinality(S)
  <1> DEFINE a == Ones(n)
  <1>1. Column(a, n) /\ SumOf(a, S) = Cardinality(S)
    BY CardinalityIsASum
  <1>2. ASSUME NEW k \in 1..m PROVE t[k] = SumOf(a, P[k]) /\ t[k] \in Int
    <2>1. P[k] \in SUBSET (1..n)
      OBVIOUS
    <2>2. SumOf(a, P[k]) = Cardinality(P[k])
      BY <2>1, CardinalityIsASum
    <2>3. SumOf(a, P[k]) \in Int
      <3> HIDE DEF a
      <3> QED  BY <1>1, SumInt
    <2> QED  BY <2>2, <2>3
  <1> HIDE DEF a
  <1>3. Column(t, m)
    BY <1>2 DEF Column
  <1>4. SumOf(t, 1..m) = SumOf(a, S)
    BY <1>1, <1>2, <1>3, PartsAddUp
  <1> QED  BY <1>1, <1>4

\* A column read in the order of a query adds up to the column at its places.
LEMMA OrderAddsUp ==
  ASSUME NEW b, NEW n, Column(b, n), NEW S \in SUBSET (1..n), NEW order, NEW m,
         Enumerates(order, m, S), NEW t, Len(t) = m, \A k \in 1..m : t[k] = b[order[k]]
  PROVE  SumOf(t, 1..m) = SumOf(b, S)
  <1> DEFINE P == [k \in 1..m |-> {order[k]}]
  <1>1. \A k \in 1..m : order[k] \in 1..n /\ P[k] = {order[k]}
    BY DEF Enumerates
  <1>2. \A k \in 1..m : t[k] \in Int
    BY <1>1 DEF Column
  <1>3. m \in Nat /\ Column(t, m)
    BY <1>2 DEF Column, Enumerates
  <1>4. \A k \in 1..m : t[k] = SumOf(b, P[k])
    <2> HIDE DEF P
    <2>1. ASSUME NEW k \in 1..m PROVE SumOf(b, {order[k]}) = b[order[k]]
      <3>1. order[k] \in 1..n
        BY <1>1
      <3> QED  BY <3>1, SumOne
    <2> QED  BY <1>1, <2>1
  <1>5. PartsOf(P, m, n, S)
    <2> HIDE DEF P
    <2> QED  BY <1>1 DEF PartsOf, Enumerates
  <1> HIDE DEF P
  <1> QED  BY <1>3, <1>4, <1>5, PartsAddUp

-----------------------------------------------------------------------------
(***************************************************************************)
(* The balance of an account.                                              *)
(***************************************************************************)
\* The rows of a table of packs.
LEMMA PacksAreTyped ==
  ASSUME NEW packs, WellFormedPacks(packs)
  PROVE  /\ Len(packs) \in Nat /\ packs = [i \in 1..Len(packs) |-> packs[i]]
         /\ \A i \in 1..Len(packs) : packs[i] \in Pack
  <1>1. packs \in Seq(Pack)
    BY DEF WellFormedPacks
  <1>2. packs = [i \in 1..Len(packs) |-> packs[i]]
    <2> HIDE DEF Pack
    <2> QED  BY <1>1
  <1> QED  BY <1>1, <1>2, SequencesHaveElements

\* What is left in each pack is a column without negative numbers.
LEMMA LeftIsAColumn ==
  ASSUME NEW packs, WellFormedPacks(packs)
  PROVE  /\ Column(LeftOf(packs), Len(packs))
         /\ \A i \in 1..Len(packs) :
              /\ LeftOf(packs)[i] = packs[i].purchased - packs[i].consumed
              /\ LeftOf(packs)[i] \in Nat
              /\ packs[i].end \in Int /\ packs[i].consumed \in Nat /\ packs[i].purchased \in Nat
  <1>1. /\ Len(packs) \in Nat
        /\ \A i \in 1..Len(packs) : packs[i].purchased \in Nat /\ packs[i].consumed \in Nat
                                    /\ packs[i].end \in Int
    BY PacksAreTyped DEF Pack
  <1>2. \A i \in 1..Len(packs) : packs[i].consumed <= packs[i].purchased
    BY DEF WellFormedPacks, Places
  <1>3. LeftOf(packs) = [i \in 1..Len(packs) |-> packs[i].purchased - packs[i].consumed]
    BY DEF LeftOf, Left, Places
  <1>4. Len(LeftOf(packs)) = Len(packs)
    BY <1>1, <1>3
  <1>5. \A i \in 1..Len(packs) : packs[i].purchased - packs[i].consumed \in Nat
    BY <1>1, <1>2
  <1> QED  BY <1>1, <1>3, <1>4, <1>5 DEF Column

\* What the company has left to spend.
Balance(packs, company, today) == SumOf(LeftOf(packs), ActivePacksBalance(packs, company, today))

\* It is never negative.
LEMMA BalanceIsNat ==
  ASSUME NEW packs, WellFormedPacks(packs), NEW company, NEW today
  PROVE  Balance(packs, company, today) \in Nat
  <1>1. \A i \in 1..Len(packs) : LeftOf(packs)[i] >= 0
    BY LeftIsAColumn
  <1> QED  BY <1>1, LeftIsAColumn, SumNat DEF Balance

\* A study can be created as long as there is a balance, and no longer.
LEMMA BalanceIsForStudies ==
  ASSUME NEW packs, WellFormedPacks(packs), NEW company, NEW today
  PROVE  Consumables(packs, company, today) = {} <=> Balance(packs, company, today) = 0
  <1> DEFINE n == Len(packs)
             a == LeftOf(packs)
             S == ActivePacksBalance(packs, company, today)
             C == Consumables(packs, company, today)
  <1>1. /\ n \in Nat /\ Column(a, n)
        /\ \A i \in 1..n : a[i] \in Nat /\ (i \in C <=> i \in S /\ a[i] # 0)
    <2>1. \A i \in 1..n : a[i] # 0 <=> packs[i].consumed < packs[i].purchased
      BY LeftIsAColumn
    <2>2. \A i \in 1..n : i \in C <=> i \in S /\ a[i] # 0
      <3> HIDE DEF a
      <3> QED  BY <2>1 DEF Consumables, ActivePacksBalance, Places
    <2> HIDE DEF a, S, C
    <2> QED  BY <2>2, LeftIsAColumn DEF Column, a
  <1>2. C \in SUBSET (1..n)
    BY DEF Consumables, Places
  <1> HIDE DEF n, a, S, C
  <1>3. ASSUME C = {} PROVE SumOf(a, S) = 0
    <2>1. \A i \in 1..n : i \in S => a[i] = 0
      BY <1>1, <1>3
    <2> QED  BY <1>1, <2>1, SumNothing
  <1>4. ASSUME NEW i \in C PROVE SumOf(a, S) # 0
    <2>1. i \in 1..n /\ i \in S /\ a[i] \in Nat /\ a[i] # 0
      BY <1>1, <1>2, <1>4
    <2>2. SumOf(a, {i}) = a[i]
      BY <1>1, <2>1, SumOne
    <2>3. SumOf(a, {i}) <= SumOf(a, S)
      <3>1. /\ \A j \in 1..n : j \in {i} => j \in S
            /\ \A j \in 1..n : j \in S => a[j] >= 0
        BY <1>1, <2>1
      <3> QED  BY <1>1, <3>1, SumOfSome
    <2>4. SumOf(a, S) \in Int
      BY <1>1, SumInt
    <2> QED  BY <2>1, <2>2, <2>3, <2>4
  <1>5. C = {} <=> SumOf(a, S) = 0
    BY <1>3, <1>4
  <1> QED  BY <1>5 DEF Balance, C, a, S

\* The pack that the next study takes its credit from expires first.
LEMMA NextExpiresFirst ==
  ASSUME NEW packs, WellFormedPacks(packs), NEW company, NEW today,
         Consumables(packs, company, today) # {}
  PROVE  /\ NextPack(packs, company, today) \in Consumables(packs, company, today)
         /\ \A j \in Consumables(packs, company, today) :
              packs[NextPack(packs, company, today)].end <= packs[j].end
         /\ LET left == Consumables(packs, company, today) IN
            packs[SoonestFirst(packs, left)[1]].end = packs[NextPack(packs, company, today)].end
  <1> DEFINE n == Len(packs)
             C == Consumables(packs, company, today)
             c == [i \in Places(packs) |-> packs[i].end]
             i == NextPack(packs, company, today)
             f == InOrder(C, c)[1]
  <1>1. n \in Nat /\ C \in SUBSET (1..n)
    BY PacksAreTyped DEF Consumables, Places
  <1>2. \A j \in C : packs[j].end \in Int /\ c[j] = packs[j].end
    BY <1>1, LeftIsAColumn DEF Places
  <1>3. f \in C /\ \A j \in C : c[f] <= c[j]
    <2> HIDE DEF c, C
    <2>1. \A j \in C : c[j] \in Int
      BY <1>2
    <2>2. /\ Enumerates(InOrder(C, c), Cardinality(C), C)
          /\ \A k, l \in 1..Cardinality(C) : k <= l => c[InOrder(C, c)[k]] <= c[InOrder(C, c)[l]]
      BY <1>1, <2>1, OrderOfPlaces
    <2>3. Cardinality(C) \in Nat /\ Cardinality(C) # 0
      <3>1. PICK j \in C : TRUE
        BY DEF C
      <3> QED  BY <2>2, <3>1 DEF Enumerates
    <2>4. 1 \in 1..Cardinality(C) /\ \A k \in 1..Cardinality(C) : 1 <= k
      BY <2>3
    <2>5. f \in C
      BY <2>2, <2>4 DEF Enumerates
    <2>6. ASSUME NEW j \in C PROVE c[f] <= c[j]
      <3>1. PICK k \in 1..Cardinality(C) : InOrder(C, c)[k] = j
        BY <2>2 DEF Enumerates
      <3> QED  BY <2>2, <2>4, <3>1
    <2> QED  BY <2>5, <2>6
  <1>4. i \in C /\ \A j \in C : packs[i].end <= packs[j].end
    <2>1. \A j \in C : packs[f].end <= packs[j].end
      <3> HIDE DEF c, C
      <3> QED  BY <1>2, <1>3
    <2>2. i = CHOOSE x \in C : \A j \in C : packs[x].end <= packs[j].end
      BY DEF NextPack
    <2> HIDE DEF C, i, f
    <2> QED  BY <1>3, <2>1, <2>2
  <1>5. packs[f].end = packs[i].end
    <2> HIDE DEF c, C, i, f
    <2>1. packs[f].end <= packs[i].end /\ packs[i].end <= packs[f].end
      BY <1>2, <1>3, <1>4
    <2> QED  BY <1>2, <1>3, <1>4, <2>1
  <1> QED  BY <1>4, <1>5 DEF SoonestFirst

\* A study that takes its credit leaves a table of packs, and one credit less.
LEMMA CreditIsTaken ==
  ASSUME NEW packs, WellFormedPacks(packs), NEW company, NEW today,
         Consumables(packs, company, today) # {}
  PROVE  LET next == TakeCredit(packs, company, today) IN
         /\ WellFormedPacks(next)
         /\ Balance(next, company, today) = Balance(packs, company, today) - 1
  <1> DEFINE n == Len(packs)
             i == NextPack(packs, company, today)
             next == TakeCredit(packs, company, today)
             S == ActivePacksBalance(packs, company, today)
             T == ActivePacksBalance(next, company, today)
             taken == packs[i].consumed + 1
  <1>1. /\ n \in Nat /\ packs = [j \in 1..n |-> packs[j]]
        /\ \A j \in 1..n : packs[j] \in Pack
    BY PacksAreTyped
  <1>2. /\ i \in 1..n /\ i \in S /\ packs[i].status = "active"
        /\ packs[i].consumed < packs[i].purchased
    <2>1. i \in Consumables(packs, company, today)
      BY NextExpiresFirst
    <2> HIDE DEF i
    <2> QED  BY <2>1 DEF Consumables, ActivePacksBalance, Places
  <1> DEFINE row == [packs[i] EXCEPT !.consumed = taken,
                                     !.status = IF taken >= packs[i].purchased
                                                THEN "depleted" ELSE "active"]
  <1>3. next = [j \in 1..n |-> IF j = i THEN row ELSE packs[j]]
    <2>1. next = [packs EXCEPT ![i].consumed = taken,
                               ![i].status = IF taken >= packs[i].purchased
                                             THEN "depleted" ELSE "active"]
      BY DEF TakeCredit
    <2> HIDE DEF i, n, next
    <2> QED  BY <1>1, <1>2, <2>1
  <1>4. /\ row \in Pack /\ row.id = packs[i].id /\ row.company = packs[i].company
        /\ row.purchased = packs[i].purchased /\ row.end = packs[i].end
        /\ row.consumed = taken /\ row.paid = packs[i].paid /\ row.paidAt = packs[i].paidAt
        /\ row.base = packs[i].base /\ row.tax = packs[i].tax /\ row.sent = packs[i].sent
        /\ row.status = IF taken >= packs[i].purchased THEN "depleted" ELSE "active"
    <2> DEFINE status == IF taken >= packs[i].purchased THEN "depleted" ELSE "active"
    <2>1. packs[i] \in Pack /\ packs[i].consumed \in Nat
      BY <1>1, <1>2, LeftIsAColumn
    <2>2. taken \in Nat /\ status \in PackStatuses
      <3> HIDE DEF i
      <3>1. taken \in Nat
        BY <2>1
      <3>2. status \in PackStatuses
        <4> HIDE DEF taken
        <4> QED  BY DEF PackStatuses
      <3> QED  BY <3>1, <3>2
    <2>3. row = [packs[i] EXCEPT !.consumed = taken, !.status = status]
      OBVIOUS
    <2> HIDE DEF i, taken, status, row
    <2>4. row \in Pack
      BY <2>1, <2>2, <2>3 DEF Pack, PackStatuses
    <2>5. /\ row.id = packs[i].id /\ row.company = packs[i].company
          /\ row.purchased = packs[i].purchased /\ row.end = packs[i].end
          /\ row.paid = packs[i].paid /\ row.paidAt = packs[i].paidAt
          /\ row.base = packs[i].base /\ row.tax = packs[i].tax /\ row.sent = packs[i].sent
      BY <2>1, <2>3 DEF Pack, PackStatuses
    <2>6. row.consumed = taken /\ row.status = status
      BY <2>1, <2>3 DEF Pack, PackStatuses
    <2> QED  BY <2>4, <2>5, <2>6 DEF status
  <1>5. packs[i].consumed \in Nat /\ packs[i].purchased \in Nat /\ taken <= packs[i].purchased
    <2>1. packs[i].consumed \in Nat /\ packs[i].purchased \in Nat
      BY <1>2, LeftIsAColumn
    <2> HIDE DEF i
    <2> QED  BY <1>2, <2>1
  <1> HIDE DEF i, next, row, taken
  <1>6. Len(next) = n /\ \A j \in 1..n : next[j] = IF j = i THEN row ELSE packs[j]
    <2> HIDE DEF n
    <2> QED  BY <1>1, <1>3
  <1>7. WellFormedPacks(next)
    <2>1. next \in Seq(Pack)
      <3>1. \A j \in 1..n : next[j] \in Pack
        BY <1>1, <1>4, <1>6
      <3>2. next = [j \in 1..n |-> next[j]]
        BY <1>3
      <3> HIDE DEF n
      <3> QED  BY <1>1, <3>1, <3>2
    <2>2. \A j \in 1..n : next[j].id = packs[j].id
      BY <1>4, <1>6
    <2>3. \A j \in 1..n : next[j].consumed <= next[j].purchased
      <3>1. \A j \in 1..n : packs[j].consumed <= packs[j].purchased
        BY DEF WellFormedPacks, Places
      <3> QED  BY <1>4, <1>5, <1>6, <3>1
    <2>4. ASSUME NEW j \in 1..n, ChargedFirmly(next[j])
          PROVE  /\ next[j].base # Unset /\ next[j].tax # Unset
                 /\ next[j].base + next[j].tax = next[j].paid
      <3>1. ChargedFirmly(packs[j])
        <4>1. CASE j = i
          BY <1>2, <1>4, <1>6, <2>4, <4>1 DEF ChargedFirmly
        <4>2. CASE j # i
          BY <1>6, <2>4, <4>2
        <4> QED  BY <4>1, <4>2
      <3>2. next[j].base = packs[j].base /\ next[j].tax = packs[j].tax /\ next[j].paid = packs[j].paid
        BY <1>4, <1>6
      <3> QED  BY <3>1, <3>2 DEF WellFormedPacks, Places
    <2>5. \A j, k \in 1..n : next[j].id = next[k].id => j = k
      BY <2>2 DEF WellFormedPacks, Places
    <2> QED  BY <1>6, <2>1, <2>3, <2>4, <2>5 DEF WellFormedPacks, Places
  <1> DEFINE a == LeftOf(packs)
             b == LeftOf(next)
             o == Ones(n)
  <1>8. Column(a, n) /\ Column(b, n) /\ Column(o, n)
    <2>1. Column(a, n) /\ Column(b, Len(next))
      BY <1>7, LeftIsAColumn
    <2>2. Column(o, n)
      BY <1>1 DEF Column, Ones
    <2> QED  BY <1>6, <2>1, <2>2
  <1>9. \A j \in 1..n : (IF j \in S THEN a[j] ELSE 0)
                          = (IF j \in T THEN b[j] ELSE 0) + (IF j \in {i} THEN o[j] ELSE 0)
    <2>1. \A j \in 1..n : a[j] = packs[j].purchased - packs[j].consumed /\ a[j] \in Int
      BY LeftIsAColumn
    <2>2. \A j \in 1..n : b[j] = next[j].purchased - next[j].consumed
      BY <1>6, <1>7, LeftIsAColumn
    <2>3. \A j \in 1..n : o[j] = 1
      BY DEF Ones
    <2>4. /\ \A j \in 1..n : j \in S <=> /\ packs[j].company = company
                                         /\ packs[j].status = "active" /\ packs[j].end >= today
          /\ \A j \in 1..n : j \in T <=> /\ next[j].company = company
                                         /\ next[j].status = "active" /\ next[j].end >= today
      BY <1>6 DEF ActivePacksBalance, Places
    <2> HIDE DEF a, b, o, S, T, n
    <2>5. ASSUME NEW j \in 1..n, j # i
          PROVE  (IF j \in S THEN a[j] ELSE 0)
                          = (IF j \in T THEN b[j] ELSE 0) + (IF j \in {i} THEN o[j] ELSE 0)
      <3>1. next[j] = packs[j]
        BY <1>6, <2>5
      <3>2. (j \in S <=> j \in T) /\ a[j] = b[j] /\ a[j] \in Int
        BY <2>1, <2>2, <2>4, <3>1
      <3> QED  BY <2>5, <3>2
    <2>6. (IF i \in S THEN a[i] ELSE 0)
            = (IF i \in T THEN b[i] ELSE 0) + (IF i \in {i} THEN o[i] ELSE 0)
      <3>1. next[i] = row
        BY <1>2, <1>6
      <3>2. a[i] = packs[i].purchased - packs[i].consumed /\ o[i] = 1
            /\ b[i] = packs[i].purchased - (packs[i].consumed + 1)
        BY <1>2, <1>4, <2>1, <2>2, <2>3, <3>1 DEF taken
      <3>3. i \in T <=> ~(taken >= packs[i].purchased)
        BY <1>2, <1>4, <2>4, <3>1
      <3> QED  BY <1>2, <1>5, <3>2, <3>3 DEF taken
    <2> QED  BY <2>5, <2>6
  <1>10. SumOf(a, S) = SumOf(b, T) + SumOf(o, {i})
    <2> HIDE DEF a, b, o, S, T, n
    <2> QED  BY <1>8, <1>9, SumSplits
  <1>11. SumOf(o, {i}) = 1
    <2>1. o[i] = 1
      BY <1>2 DEF Ones
    <2> HIDE DEF o, n
    <2> QED  BY <1>2, <1>8, <2>1, SumOne
  <1>12. SumOf(b, T) \in Int
    <2> HIDE DEF b, T, n
    <2> QED  BY <1>8, SumInt
  <1>13. Balance(next, company, today) = Balance(packs, company, today) - 1
    <2>1. Balance(next, company, today) = SumOf(b, T) /\ Balance(packs, company, today) = SumOf(a, S)
      BY DEF Balance
    <2> HIDE DEF a, b, o, S, T
    <2> QED  BY <1>10, <1>11, <1>12, <2>1
  <1> QED  BY <1>7, <1>13 DEF next

\* Packs from which credits are taken, one after the other.
IsHistory(f, packs, company, today, n) ==
  f = [k \in 0..n |-> IF k = 0 THEN packs ELSE TakeCredit(f[k - 1], company, today)]

\* There are such packs, however many credits are taken.
LEMMA HistoriesExist ==
  ASSUME NEW packs, NEW company, NEW today, NEW n \in Nat
  PROVE  \E f : IsHistory(f, packs, company, today, n)
  <1> DEFINE G == {m \in Nat : \E f : IsHistory(f, packs, company, today, m)}
             take(p) == TakeCredit(p, company, today)
  <1>1. 0 \in G
    <2>1. IsHistory([k \in 0..0 |-> packs], packs, company, today, 0)
      BY DEF IsHistory
    <2> QED  BY <2>1
  <1>2. ASSUME NEW m \in 0..n-1, m \in G PROVE m + 1 \in G
    <2>1. PICK f : IsHistory(f, packs, company, today, m)
      BY <1>2
    <2> DEFINE next == [k \in 0..m+1 |-> IF k = m + 1 THEN take(f[m]) ELSE f[k]]
    <2>2. m \in Nat /\ f = [k \in 0..m |-> IF k = 0 THEN packs ELSE take(f[k - 1])]
      BY <2>1 DEF IsHistory
    <2> HIDE DEF take
    <2>3. \A k \in 0..m+1 : next[k] = IF k = 0 THEN packs ELSE take(next[k - 1])
      BY <2>2
    <2>4. next = [k \in 0..m+1 |-> IF k = 0 THEN packs ELSE take(next[k - 1])]
      BY <2>3
    <2> HIDE DEF next
    <2>5. IsHistory(next, packs, company, today, m + 1)
      BY <2>4 DEF IsHistory, take
    <2>6. m + 1 \in Nat
      BY <2>2
    <2> QED  BY <2>5, <2>6
  <1>3. n \in G
    <2> HIDE DEF G
    <2>1. \A i \in 0..n : i \in G
      BY <1>1, <1>2, UpTo
    <2> QED  BY <2>1
  <1> QED  BY <1>3

\* Each credit that is taken lowers the balance by one, to nothing.
LEMMA HistoryLowersBalance ==
  ASSUME NEW packs, WellFormedPacks(packs), NEW company, NEW today,
         NEW f, IsHistory(f, packs, company, today, Balance(packs, company, today))
  PROVE  LET balance == Balance(packs, company, today) IN
         /\ \A n \in 0..(balance - 1) : Consumables(f[n], company, today) # {}
         /\ Consumables(f[balance], company, today) = {}
  <1> DEFINE b == Balance(packs, company, today)
             G == {n \in 0..b : /\ WellFormedPacks(f[n])
                                /\ Balance(f[n], company, today) = b - n}
  <1>1. b \in Nat
    BY BalanceIsNat
  <1>2. f[0] = packs /\ \A n \in 1..b : f[n] = TakeCredit(f[n - 1], company, today)
    BY <1>1 DEF IsHistory
  <1>3. 0 \in G
    <2>1. b - 0 = b /\ 0 \in 0..b
      BY <1>1
    <2> QED  BY <1>2, <2>1
  <1> HIDE DEF b
  <1>4. ASSUME NEW n \in G, n < b PROVE Consumables(f[n], company, today) # {}
    <2>1. WellFormedPacks(f[n]) /\ Balance(f[n], company, today) # 0
      BY <1>1, <1>4
    <2> QED  BY <2>1, BalanceIsForStudies
  <1>5. ASSUME NEW n \in 0..b-1, n \in G PROVE n + 1 \in G
    <2>1. n < b /\ n + 1 \in 1..b /\ (n + 1) - 1 = n /\ n + 1 \in 0..b /\ (b - n) - 1 = b - (n + 1)
      BY <1>1
    <2>2. WellFormedPacks(f[n]) /\ Balance(f[n], company, today) = b - n
      BY <1>5
    <2>3. f[n + 1] = TakeCredit(f[n], company, today)
      BY <1>2, <2>1
    <2>4. Consumables(f[n], company, today) # {}
      BY <1>4, <1>5, <2>1
    <2>5. /\ WellFormedPacks(f[n + 1])
          /\ Balance(f[n + 1], company, today) = Balance(f[n], company, today) - 1
      BY <2>2, <2>3, <2>4, CreditIsTaken
    <2> QED  BY <2>1, <2>2, <2>5
  <1>6. \A n \in 0..b : n \in G
    <2> HIDE DEF G
    <2> QED  BY <1>1, <1>3, <1>5, UpTo
  <1>7. Consumables(f[b], company, today) = {}
    <2>1. b \in G /\ b - b = 0
      BY <1>1, <1>6
    <2>2. WellFormedPacks(f[b]) /\ Balance(f[b], company, today) = 0
      BY <2>1
    <2> QED  BY <2>2, BalanceIsForStudies
  <1>8. \A n \in 0..b-1 : Consumables(f[n], company, today) # {}
    <2>1. \A n \in 0..b-1 : n \in 0..b /\ n < b
      BY <1>1
    <2> HIDE DEF G
    <2> QED  BY <1>4, <1>6, <2>1
  <1> QED  BY <1>7, <1>8 DEF b

\* Every view tells that balance (getBalance, resolveCredits, packBalance,
\* getUsage, listCompanies).
LEMMA ViewsTellTheBalance ==
  ASSUME NEW packs, WellFormedPacks(packs), NEW companies, NEW company \in companies,
         NEW today \in Int
  PROVE  LET balance == Balance(packs, company, today)
             usage == GetUsage(packs, company, today, 1)
         IN  /\ GetBalance(packs, company, today).credits = balance
             /\ PackBalance(packs, company, today).remaining = balance
             /\ usage.credits.credits = balance
             /\ ListCompanies(packs, companies, today)[company].credits = balance
             /\ usage.expiringSoon \in 0..balance
  <1> DEFINE n == Len(packs)
             a == LeftOf(packs)
             S == ActivePacksBalance(packs, company, today)
             balance == Balance(packs, company, today)
  <1>1. ActivePacksWithBalance(packs, {company}, today) = S
    BY DEF ActivePacksWithBalance, ActivePacksBalance
  <1>2. Column(a, n) /\ \A i \in 1..n : a[i] \in Nat
    BY LeftIsAColumn
  <1>3. GetBalance(packs, company, today).credits = balance
    BY <1>1 DEF GetBalance, Balance
  <1>4. PackBalance(packs, company, today).remaining = balance
    <2> DEFINE left == {i \in S : Left(packs[i]) > 0}
    <2>1. \A i \in 1..n : a[i] = Left(packs[i])
      BY DEF LeftOf, Places
    <2>2. PackBalance(packs, company, today).remaining = SumOf(a, left)
      BY DEF PackBalance
    <2>3. \A i \in 1..n : i \in left <=> i \in S /\ a[i] > 0
      BY <2>1
    <2> HIDE DEF left, a, S, n
    <2>4. \A i \in 1..n : (IF i \in left THEN a[i] ELSE 0) = (IF i \in S THEN a[i] ELSE 0)
      BY <1>2, <2>3
    <2>5. SumOf(a, left) = SumOf(a, S)
      BY <1>2, <2>4, SumSame
    <2> QED  BY <2>2, <2>5 DEF a, S, Balance
  <1>5. GetUsage(packs, company, today, 1).credits.credits = balance
    BY <1>1 DEF GetUsage, ResolveCredits, Balance
  <1>6. ListCompanies(packs, companies, today)[company].credits = balance
    <2>1. ActivePacksWithBalance(packs, companies, today) \cap PacksOf(packs, company) = S
      BY DEF ActivePacksWithBalance, ActivePacksBalance, PacksOf
    <2> HIDE DEF a, S, n
    <2>2. ListCompanies(packs, companies, today)[company].credits = SumOf(a, S)
      BY <2>1 DEF ListCompanies, a
    <2> QED  BY <2>2 DEF Balance, a, S
  <1>7. GetUsage(packs, company, today, 1).expiringSoon \in 0..balance
    <2> DEFINE soon == {i \in S : packs[i].end <= today + ExpiryRiskDays}
    <2>1. GetUsage(packs, company, today, 1).expiringSoon = SumOf(a, soon)
      BY <1>1 DEF GetUsage
    <2>2. soon \in SUBSET S
      OBVIOUS
    <2> HIDE DEF soon, a, S, n
    <2>3. /\ \A i \in 1..n : i \in soon => i \in S
          /\ \A i \in 1..n : i \in S => a[i] >= 0
          /\ \A i \in 1..n : i \in soon => a[i] >= 0
      BY <1>2, <2>2
    <2>4. SumOf(a, soon) <= SumOf(a, S)
      BY <1>2, <2>3, SumOfSome
    <2>5. SumOf(a, soon) \in Nat
      BY <1>2, <2>3, SumNat
    <2>6. SumOf(a, S) \in Int /\ balance = SumOf(a, S)
      BY <1>2, SumInt DEF Balance, a, S
    <2> HIDE DEF balance
    <2> QED  BY <2>1, <2>4, <2>5, <2>6
  <1> QED  BY <1>3, <1>4, <1>5, <1>6, <1>7

\* Every table of packs agrees on its balances.
LEMMA BalancesAlwaysAgree ==
  ASSUME NEW packs, WellFormedPacks(packs), NEW companies, NEW company \in companies,
         NEW today \in Int
  PROVE  BalancesAgree(packs, company, companies, today)
  <1> DEFINE balance == Balance(packs, company, today)
             home == PackBalance(packs, company, today)
             usage == GetUsage(packs, company, today, 1)
             listed == ListCompanies(packs, companies, today)[company].credits
             after == CHOOSE f : IsHistory(f, packs, company, today, balance)
  <1>1. balance \in Nat
    BY BalanceIsNat
  <1>2. /\ GetBalance(packs, company, today).credits = balance /\ home.remaining = balance
        /\ usage.credits.credits = balance /\ listed = balance
        /\ usage.expiringSoon \in 0..balance
    BY ViewsTellTheBalance
  <1>3. IsHistory(after, packs, company, today, balance)
    <2> HIDE DEF balance
    <2> QED  BY <1>1, HistoriesExist
  <1>4. /\ \A n \in 0..(balance - 1) : Consumables(after[n], company, today) # {}
        /\ Consumables(after[balance], company, today) = {}
    <2> HIDE DEF after
    <2> QED  BY <1>3, HistoryLowersBalance
  <1>5. balance > 0 => packs[NextPack(packs, company, today)].end = home.nearestExpiry
    <2>1. SUFFICES ASSUME balance > 0
                   PROVE  packs[NextPack(packs, company, today)].end = home.nearestExpiry
      OBVIOUS
    <2> DEFINE C == Consumables(packs, company, today)
               left == {i \in ActivePacksBalance(packs, company, today) : Left(packs[i]) > 0}
    <2>2. C # {}
      <3>1. balance # 0
        BY <2>1
      <3> QED  BY <3>1, BalanceIsForStudies
    <2>3. left = C
      <3>1. \A i \in 1..Len(packs) : Left(packs[i]) > 0 <=> packs[i].consumed < packs[i].purchased
        BY LeftIsAColumn DEF Left
      <3> QED  BY <3>1 DEF Consumables, ActivePacksBalance, Places
    <2>4. home.nearestExpiry = IF left = {} THEN Unset ELSE packs[SoonestFirst(packs, left)[1]].end
      BY DEF PackBalance
    <2>5. packs[SoonestFirst(packs, C)[1]].end = packs[NextPack(packs, company, today)].end
      <3> HIDE DEF home
      <3> QED  BY <2>2, NextExpiresFirst
    <2> HIDE DEF C, left, home
    <2> QED  BY <2>2, <2>3, <2>4, <2>5
  <1>6. after = CHOOSE f : f = [n \in 0..balance |-> IF n = 0 THEN packs
                                                     ELSE TakeCredit(f[n - 1], company, today)]
    BY DEF IsHistory
  <1> HIDE DEF balance, home, usage, listed, after
  <1> QED  BY <1>2, <1>4, <1>5, <1>6 DEF BalancesAgree, home, usage, listed

-----------------------------------------------------------------------------
(***************************************************************************)
(* Pages.  The place at which a page shows its j-th row.                   *)
(***************************************************************************)
\* The j-th row of page k.
PlaceAt(k, j, size) == (k - 1) * size + j

\* No place is shown twice.
LEMMA ShownOnce ==
  ASSUME NEW size \in Nat \ {0}, NEW k \in Nat \ {0}, NEW l \in Nat \ {0},
         NEW i \in 1..size, NEW j \in 1..size, PlaceAt(k, i, size) = PlaceAt(l, j, size)
  PROVE  k = l /\ i = j
  <1>1. ASSUME NEW x \in Nat \ {0}, NEW y \in Nat \ {0}, x < y,
               NEW u \in 1..size, NEW v \in 1..size
        PROVE  PlaceAt(x, u, size) < PlaceAt(y, v, size)
    <2>1. x <= y - 1 /\ x \in Int /\ y - 1 \in Int /\ size \in Nat
      BY <1>1
    <2>2. x * size <= (y - 1) * size /\ x * size \in Int /\ (y - 1) * size \in Int
      BY <2>1, TimesKeepsOrder
    <2>3. (x - 1) * size = x * size - size
      BY <2>1
    <2> QED  BY <2>2, <2>3 DEF PlaceAt
  <1>2. (k - 1) * size \in Int /\ PlaceAt(k, i, size) \in Int /\ PlaceAt(l, j, size) \in Int
    BY DEF PlaceAt
  <1>3. k = l
    <2>1. ~(k < l) /\ ~(l < k)
      BY <1>1, <1>2
    <2> QED  BY <2>1
  <1>4. (k - 1) * size + i = (k - 1) * size + j
    BY <1>3 DEF PlaceAt
  <1> QED  BY <1>2, <1>3, <1>4

\* Each place is shown on a page.
LEMMA ShownSomewhere ==
  ASSUME NEW size \in Nat \ {0}, NEW m \in Nat, NEW r \in 1..m
  PROVE  \E k \in 1..(m \div size + 1), j \in 1..size : PlaceAt(k, j, size) = r
  <1> DEFINE q == (r - 1) \div size
             t == m \div size
  <1>1. r \in Int /\ 1 <= r /\ r <= m /\ r - 1 \in Int /\ m \in Int
    OBVIOUS
  <1>2. q \in Int /\ size * q <= r - 1 /\ r - 1 < size * q + size
    BY <1>1, QuotientBounds
  <1>3. t \in Int /\ m < size * t + size
    BY <1>1, QuotientBounds
  <1> HIDE DEF q, t
  <1>4. size * q \in Int /\ size * t \in Int /\ size \in Nat
    BY <1>2, <1>3
  <1>5. q >= 0
    <2>1. SUFFICES ASSUME q + 1 <= 0 PROVE FALSE
      BY <1>2
    <2>2. (q + 1) * size <= 0 * size
      BY <1>2, <2>1, TimesKeepsOrder
    <2>3. (q + 1) * size = size * q + size /\ 0 * size = 0
      BY <1>2, <1>4
    <2> QED  BY <1>1, <1>2, <1>4, <2>2, <2>3
  <1>6. q <= t
    <2>1. SUFFICES ASSUME t + 1 <= q PROVE FALSE
      BY <1>2, <1>3
    <2>2. (t + 1) * size <= q * size
      BY <1>2, <1>3, <2>1, TimesKeepsOrder
    <2>3. (t + 1) * size = size * t + size /\ q * size = size * q
      BY <1>2, <1>3, <1>4
    <2> QED  BY <1>1, <1>2, <1>3, <1>4, <2>2, <2>3
  <1> DEFINE k == q + 1
             j == (r - 1) - size * q + 1
  <1>7. k \in 1..(t + 1)
    BY <1>2, <1>3, <1>5, <1>6
  <1>8. j \in 1..size
    BY <1>1, <1>2, <1>4
  <1>9. PlaceAt(k, j, size) = r
    <2>1. (k - 1) * size = size * q
      BY <1>2, <1>4
    <2> QED  BY <1>1, <1>4, <2>1 DEF PlaceAt
  <1> HIDE DEF k, j
  <1> QED  BY <1>7, <1>8, <1>9 DEF t

\* What a page has of an order (Page).
LEMMA PageHasPlaces ==
  ASSUME NEW S, NEW m, NEW order, Enumerates(order, m, S), NEW size \in Nat \ {0},
         NEW k \in 1..(m \div size + 1)
  PROVE  LET p == Page(order, k, size) IN
         /\ p = [j \in 1..Len(p) |-> p[j]] /\ Len(p) \in 0..size
         /\ \A j \in 1..size : j \in 1..Len(p) <=> PlaceAt(k, j, size) \in 1..m
         /\ \A j \in 1..Len(p) : p[j] = order[PlaceAt(k, j, size)]
  <1> DEFINE t == m \div size
             off == (k - 1) * size
             last == IF k * size < m THEN k * size ELSE m
             p == Page(order, k, size)
  <1>1. m \in Nat /\ Len(order) = m
    BY DEF Enumerates
  <1>2. t \in Int /\ size * t <= m
    BY <1>1, QuotientBounds
  <1>3. k \in Int /\ 1 <= k /\ k - 1 <= t
    BY <1>2
  <1>4. off \in Nat /\ off <= m
    <2> HIDE DEF t
    <2>1. (k - 1) * size <= t * size /\ (k - 1) * size \in Int /\ t * size \in Int
      BY <1>2, <1>3, TimesKeepsOrder
    <2>2. 0 * size <= (k - 1) * size /\ 0 * size = 0
      BY <1>3, TimesKeepsOrder
    <2>3. t * size = size * t
      BY <1>2
    <2> QED  BY <1>1, <1>2, <2>1, <2>2, <2>3
  <1>5. k * size = off + size
    BY <1>3
  <1> HIDE DEF off, t
  <1>6. last \in Nat /\ off <= last /\ last <= m /\ last <= off + size
        /\ (last = m \/ last = off + size)
    BY <1>1, <1>4, <1>5
  <1>7. p = SubSeq(order, off + 1, last)
    BY <1>1 DEF Page, off
  <1> HIDE DEF last, p
  <1>8. order \in Seq(S)
    <2>1. order = [i \in 1..m |-> order[i]] /\ \A i \in 1..m : order[i] \in S
      BY DEF Enumerates
    <2> QED  BY <1>1, <2>1
  <1>9. off + 1 \in 1..(Len(order) + 1) /\ last \in ((off + 1) - 1)..Len(order)
    BY <1>1, <1>4, <1>6
  <1>10. /\ p \in Seq(S) /\ Len(p) = last - (off + 1) + 1
         /\ \A j \in 1..(last - (off + 1) + 1) : p[j] = order[(off + 1) + j - 1]
    BY <1>7, <1>8, <1>9, SubSeqProperties
  <1>11. Len(p) = last - off /\ Len(p) \in 0..size
    BY <1>4, <1>6, <1>10
  <1>12. p = [j \in 1..Len(p) |-> p[j]]
    BY <1>10
  <1>13. \A j \in 1..size : j \in 1..Len(p) <=> off + j \in 1..m
    BY <1>1, <1>4, <1>6, <1>11
  <1>14. \A j \in 1..Len(p) : p[j] = order[off + j]
    <2>1. \A j \in 1..Len(p) : (off + 1) + j - 1 = off + j /\ j \in 1..(last - (off + 1) + 1)
      BY <1>4, <1>6, <1>11
    <2> QED  BY <1>10, <2>1
  <1>15. \A j : PlaceAt(k, j, size) = off + j
    BY DEF PlaceAt, off
  <1> QED  BY <1>11, <1>12, <1>13, <1>14, <1>15 DEF p

-----------------------------------------------------------------------------
(***************************************************************************)
(* The queue of sales to be invoiced.                                      *)
(***************************************************************************)
\* The places that a page of an order shows.
PageOf(order, size, k) ==
  {order[PlaceAt(k, j, size)] : j \in {x \in 1..size : PlaceAt(k, x, size) \in 1..Len(order)}}

\* Each place of a query is on one of the pages of its order.
LEMMA PagesAreParts ==
  ASSUME NEW n \in Nat, NEW S \in SUBSET (1..n), NEW m, NEW order, Enumerates(order, m, S),
         NEW size \in Nat \ {0}, NEW P,
         \A k \in 1..(m \div size + 1) : P[k] = PageOf(order, size, k)
  PROVE  PartsOf(P, m \div size + 1, n, S)
  <1> DEFINE t == m \div size + 1
             at(k, j) == PlaceAt(k, j, size)
  <1>1. m \in Nat /\ Len(order) = m
    BY DEF Enumerates
  <1>2. \A k \in 1..t : \A i : i \in P[k] <=> \E j \in 1..size : at(k, j) \in 1..m /\ i = order[at(k, j)]
    <2> HIDE DEF t, at
    <2> QED  BY <1>1 DEF PageOf, at, t
  <1>3. \A k \in 1..t : k \in Nat \ {0}
    OBVIOUS
  <1>4. \A r \in 1..m : \E k \in 1..t, j \in 1..size : at(k, j) = r
    BY <1>1, ShownSomewhere
  <1>5. \A k, l \in 1..t, i, j \in 1..size : at(k, i) = at(l, j) => k = l
    <2> HIDE DEF t
    <2> QED  BY <1>3, ShownOnce
  <1> HIDE DEF t, at
  <1>6. ASSUME NEW i \in 1..n, i \in S PROVE \E k \in 1..t : i \in P[k]
    <2>1. PICK r \in 1..m : order[r] = i
      BY <1>6 DEF Enumerates
    <2>2. PICK k \in 1..t, j \in 1..size : at(k, j) = r
      BY <1>4
    <2> QED  BY <1>2, <2>1, <2>2
  <1>7. ASSUME NEW i, NEW k \in 1..t, i \in P[k] PROVE i \in S
    <2>1. PICK j \in 1..size : at(k, j) \in 1..m /\ i = order[at(k, j)]
      BY <1>2, <1>7
    <2> QED  BY <2>1 DEF Enumerates
  <1>8. ASSUME NEW i, NEW k \in 1..t, NEW l \in 1..t, i \in P[k], i \in P[l] PROVE k = l
    <2>1. PICK j \in 1..size : at(k, j) \in 1..m /\ i = order[at(k, j)]
      BY <1>2, <1>8
    <2>2. PICK h \in 1..size : at(l, h) \in 1..m /\ i = order[at(l, h)]
      BY <1>2, <1>8
    <2>3. at(k, j) = at(l, h)
      BY <2>1, <2>2 DEF Enumerates
    <2> QED  BY <1>5, <2>3
  <1>9. PartsOf(P, t, n, S)
    BY <1>6, <1>7, <1>8 DEF PartsOf
  <1> QED  BY <1>9 DEF t

\* A page of an order is an order of what it shows.
LEMMA PageIsAnOrder ==
  ASSUME NEW S, NEW m, NEW order, Enumerates(order, m, S), NEW size \in Nat \ {0},
         NEW k \in 1..(m \div size + 1)
  PROVE  LET p == Page(order, k, size) IN Enumerates(p, Len(p), PageOf(order, size, k))
  <1> DEFINE p == Page(order, k, size)
             P == PageOf(order, size, k)
             at(j) == PlaceAt(k, j, size)
  <1>1. /\ p = [j \in 1..Len(p) |-> p[j]] /\ Len(p) \in 0..size
        /\ \A j \in 1..size : j \in 1..Len(p) <=> at(j) \in 1..m
        /\ \A j \in 1..Len(p) : p[j] = order[at(j)]
    BY PageHasPlaces
  <1>2. \A i : i \in P <=> \E j \in 1..size : at(j) \in 1..m /\ i = order[at(j)]
    BY DEF PageOf, Enumerates
  <1>3. k \in Nat \ {0}
    OBVIOUS
  <1>4. \A i, j \in 1..size : at(i) = at(j) => i = j
    BY <1>3, ShownOnce
  <1>5. Len(p) \in Nat /\ \A j \in 1..Len(p) : j \in 1..size
    <2> HIDE DEF p
    <2> QED  BY <1>1
  <1> HIDE DEF p, P, at
  <1>6. \A j \in 1..Len(p) : p[j] \in P
    BY <1>1, <1>2, <1>5
  <1>7. ASSUME NEW i \in 1..Len(p), NEW j \in 1..Len(p), p[i] = p[j] PROVE i = j
    <2>1. order[at(i)] = order[at(j)] /\ at(i) \in 1..m /\ at(j) \in 1..m
      BY <1>1, <1>5, <1>7
    <2>2. at(i) = at(j)
      BY <2>1 DEF Enumerates
    <2> QED  BY <1>4, <1>5, <2>2
  <1>8. ASSUME NEW i \in P PROVE \E j \in 1..Len(p) : p[j] = i
    <2>1. PICK j \in 1..size : at(j) \in 1..m /\ i = order[at(j)]
      BY <1>2
    <2> QED  BY <1>1, <2>1
  <1>9. Enumerates(p, Len(p), P)
    BY <1>1, <1>5, <1>6, <1>7, <1>8 DEF Enumerates
  <1> QED  BY <1>9 DEF p, P

\* What the queue has: the sales, and the pages in the order of their payment.
LEMMA QueueHasSales ==
  ASSUME NEW packs, WellFormedPacks(packs)
  PROVE  LET n == Len(packs)
             Q == Queued(packs, TRUE)
             order == InOrder(Q, [i \in Places(packs) |-> packs[i].paidAt])
         IN  /\ n \in Nat /\ Q \in SUBSET (1..n) /\ Cardinality(Q) \in Nat
             /\ Enumerates(order, Cardinality(Q), Q)
             /\ \A i \in 1..n : i \in Q <=> ChargedFirmly(packs[i]) /\ ~packs[i].sent
             /\ \A i, j \in 1..n : packs[i].id = packs[j].id => i = j
             /\ \A i \in 1..n : packs[i].base \in Int /\ packs[i].tax \in Int /\ packs[i].paid \in Int
  <1> DEFINE n == Len(packs)
             Q == Queued(packs, TRUE)
             c == [i \in Places(packs) |-> packs[i].paidAt]
  <1>1. /\ n \in Nat
        /\ \A i \in 1..n : packs[i].base \in Int /\ packs[i].tax \in Int /\ packs[i].paid \in Int
                           /\ packs[i].paidAt \in Int
    BY PacksAreTyped DEF Pack
  <1>2. Q \in SUBSET (1..n) /\ \A i \in 1..n : i \in Q <=> ChargedFirmly(packs[i]) /\ ~packs[i].sent
    BY DEF Queued, Places
  <1>3. \A i \in Q : c[i] \in Int
    <2>1. \A i \in 1..n : c[i] = packs[i].paidAt
      BY DEF Places
    <2> HIDE DEF c, Q, n
    <2> QED  BY <1>1, <1>2, <2>1
  <1> HIDE DEF n, Q, c
  <1>4. Enumerates(InOrder(Q, c), Cardinality(Q), Q)
    BY <1>1, <1>2, <1>3, OrderOfPlaces
  <1>5. Cardinality(Q) \in Nat
    BY <1>4 DEF Enumerates
  <1>6. \A i, j \in 1..n : packs[i].id = packs[j].id => i = j
    BY DEF WellFormedPacks, Places, n
  <1> QED  BY <1>1, <1>2, <1>4, <1>5, <1>6 DEF n, Q, c

\* The totals of the queue: base and tax are what was paid.
LEMMA TotalsAddUp ==
  ASSUME NEW packs, WellFormedPacks(packs), NEW limit
  PROVE  LET queue == ListEinvoices(packs, TRUE, 1, limit)
             paid == [i \in Places(packs) |-> packs[i].paid]
         IN  /\ queue.totals.base + queue.totals.tax = queue.totals.paid
             /\ queue.totals.paid = SumOf(paid, Queued(packs, TRUE))
             /\ Column(paid, Len(packs))
  <1> DEFINE n == Len(packs)
             Q == Queued(packs, TRUE)
             a == [i \in Places(packs) |-> OrNothing(packs[i].base)]
             b == [i \in Places(packs) |-> OrNothing(packs[i].tax)]
             c == [i \in Places(packs) |-> packs[i].paid]
             totals == ListEinvoices(packs, TRUE, 1, limit).totals
  <1>1. /\ n \in Nat /\ Q \in SUBSET (1..n)
        /\ \A i \in 1..n : i \in Q <=> ChargedFirmly(packs[i]) /\ ~packs[i].sent
        /\ \A i \in 1..n : packs[i].base \in Int /\ packs[i].tax \in Int /\ packs[i].paid \in Int
    BY QueueHasSales
  <1>2. /\ Len(a) = n /\ Len(b) = n /\ Len(c) = n
        /\ \A i \in 1..n : /\ a[i] = OrNothing(packs[i].base) /\ b[i] = OrNothing(packs[i].tax)
                           /\ c[i] = packs[i].paid
    BY <1>1 DEF Places
  <1>3. \A i \in 1..n : a[i] \in Int /\ b[i] \in Int /\ c[i] \in Int
    <2> HIDE DEF a, b, c, n, Q
    <2> QED  BY <1>1, <1>2 DEF OrNothing
  <1>4. totals.base = SumOf(a, Q) /\ totals.tax = SumOf(b, Q) /\ totals.paid = SumOf(c, Q)
    BY DEF ListEinvoices
  <1>5. \A i \in 1..n : i \in Q => packs[i].base # Unset /\ packs[i].tax # Unset
                                   /\ packs[i].base + packs[i].tax = packs[i].paid
    BY <1>1 DEF WellFormedPacks, Places
  <1> HIDE DEF n, Q, a, b, c, totals
  <1>6. Column(a, n) /\ Column(b, n) /\ Column(c, n)
    BY <1>1, <1>2, <1>3 DEF Column
  <1>7. \A i \in 1..n : (IF i \in Q THEN c[i] ELSE 0)
                          = (IF i \in Q THEN a[i] ELSE 0) + (IF i \in Q THEN b[i] ELSE 0)
    BY <1>2, <1>3, <1>5 DEF OrNothing
  <1>8. SumOf(c, Q) = SumOf(a, Q) + SumOf(b, Q)
    BY <1>6, <1>7, SumSplits
  <1> QED  BY <1>4, <1>6, <1>8 DEF n, Q, c, totals

\* The pages of every queue show each sale that was charged and is not marked,
\* once and no other, and add up to the totals (listEinvoices).
LEMMA QueueAlwaysAddsUp ==
  ASSUME NEW packs, WellFormedPacks(packs), NEW limit \in Int
  PROVE  QueueAddsUp(packs, limit)
  <1> DEFINE n == Len(packs)
             Q == Queued(packs, TRUE)
             m == Cardinality(Q)
             order == InOrder(Q, [i \in Places(packs) |-> packs[i].paidAt])
             size == PageSize(limit)
             t == m \div size + 1
             queue == ListEinvoices(packs, TRUE, 1, limit)
             pages == [k \in 1..(queue.total \div PageSize(limit) + 1) |->
                         ListEinvoices(packs, TRUE, k, limit).data]
             p(k) == Page(order, k, size)
             at(k, j) == PlaceAt(k, j, size)
             c == [i \in Places(packs) |-> packs[i].paid]
             shows(k, j, i) == j \in Places(pages[k]) /\ pages[k][j].id = packs[i].id
             column(k) == [j \in Places(pages[k]) |-> pages[k][j].receipt.total]
             paid(k) == SumAll(column(k))
  <1>1. /\ n \in Nat /\ Q \in SUBSET (1..n) /\ m \in Nat /\ Enumerates(order, m, Q)
        /\ \A i \in 1..n : i \in Q <=> ChargedFirmly(packs[i]) /\ ~packs[i].sent
        /\ \A i, j \in 1..n : packs[i].id = packs[j].id => i = j
    BY QueueHasSales
  <1>2. size \in Nat \ {0}
    BY DEF PageSize
  <1>3. queue.total = m
    BY DEF ListEinvoices
  <1>4. m \div size \in Nat /\ t \in Nat
    <2> HIDE DEF m, size
    <2> QED  BY <1>1, <1>2
  <1>5. pages = [k \in 1..t |-> ListEinvoices(packs, TRUE, k, limit).data]
    <2> HIDE DEF queue
    <2> QED  BY <1>3
  <1>6. \A k \in 1..t : pages[k] = [j \in 1..Len(p(k)) |->
                          [id |-> packs[p(k)[j]].id, receipt |-> BuildReceipt(packs[p(k)[j]])]]
    <2>1. ASSUME NEW k \in 1..t PROVE PageNumber(k) = k
      <3> HIDE DEF t
      <3> QED  BY DEF PageNumber
    <2>2. \A k \in 1..t : ListEinvoices(packs, TRUE, k, limit).data
                            = [j \in 1..Len(p(k)) |->
                                [id |-> packs[p(k)[j]].id, receipt |-> BuildReceipt(packs[p(k)[j]])]]
      <3> HIDE DEF t
      <3> QED  BY <2>1 DEF ListEinvoices
    <2> HIDE DEF pages, p, t
    <2> QED  BY <1>5, <2>2
  <1> HIDE DEF m, size, order, Q, n, queue
  <1>7. \A k \in 1..t : Len(p(k)) \in 0..size
    BY <1>1, <1>2, PageHasPlaces
  <1>8. \A k \in 1..t, j \in 1..size : j \in 1..Len(p(k)) <=> at(k, j) \in 1..m
    BY <1>1, <1>2, PageHasPlaces
  <1>9. \A k \in 1..t : \A j \in 1..Len(p(k)) : p(k)[j] = order[at(k, j)]
    BY <1>1, <1>2, PageHasPlaces
  <1> HIDE DEF p, at, t
  <1>10. \A k \in 1..t : Len(pages[k]) = Len(p(k)) /\ Places(pages[k]) = 1..Len(p(k))
    <2> HIDE DEF pages
    <2>1. ASSUME NEW k \in 1..t PROVE Len(pages[k]) = Len(p(k))
      <3>1. Len(p(k)) \in Nat
        BY <1>7
      <3> DEFINE q == pages[k]
                 l == Len(p(k))
                 row(j) == [id |-> packs[p(k)[j]].id, receipt |-> BuildReceipt(packs[p(k)[j]])]
      <3>2. q = [j \in 1..l |-> row(j)]
        BY <1>6
      <3> HIDE DEF q, l, row
      <3>3. Len(q) = l
        BY <3>1, <3>2 DEF l
      <3> QED  BY <3>3 DEF q, l
    <2> QED  BY <2>1 DEF Places
  <1>11. \A k \in 1..t : \A j \in 1..Len(p(k)) :
           pages[k][j].id = packs[p(k)[j]].id /\ pages[k][j].receipt.total = packs[p(k)[j]].paid
    <2> HIDE DEF pages
    <2> DEFINE row(j, k) == [id |-> packs[p(k)[j]].id, receipt |-> BuildReceipt(packs[p(k)[j]])]
    <2>1. \A pack : BuildReceipt(pack).total = pack.paid
      BY DEF BuildReceipt
    <2>2. \A j, k : row(j, k).id = packs[p(k)[j]].id /\ row(j, k).receipt.total = packs[p(k)[j]].paid
      BY <2>1
    <2>3. ASSUME NEW k \in 1..t, NEW j \in 1..Len(p(k)) PROVE pages[k][j] = row(j, k)
      <3>1. pages[k] = [h \in 1..Len(p(k)) |-> row(h, k)]
        BY <1>6
      <3> HIDE DEF row
      <3> QED  BY <3>1
    <2> HIDE DEF row
    <2> QED  BY <2>2, <2>3
  <1>12. Places(pages) = 1..t
    <2>1. Len(pages) = t
      <3> HIDE DEF pages
      <3> QED  BY <1>4, <1>5 DEF t
    <2> QED  BY <2>1 DEF Places
  <1> HIDE DEF pages
  <1>13. \A k \in 1..t, j \in 1..size, i \in 1..n :
           shows(k, j, i) <=> at(k, j) \in 1..m /\ order[at(k, j)] = i
    <2>1. ASSUME NEW k \in 1..t, NEW j \in 1..size, NEW i \in 1..n, shows(k, j, i)
          PROVE  at(k, j) \in 1..m /\ order[at(k, j)] = i
      <3>1. j \in 1..Len(p(k)) /\ pages[k][j].id = packs[i].id
        BY <1>10, <2>1
      <3>2. at(k, j) \in 1..m /\ p(k)[j] = order[at(k, j)]
        BY <1>8, <1>9, <3>1
      <3>3. order[at(k, j)] \in 1..n
        BY <1>1, <3>2 DEF Enumerates
      <3>4. packs[order[at(k, j)]].id = packs[i].id
        BY <1>11, <3>1, <3>2
      <3> QED  BY <1>1, <3>2, <3>3, <3>4
    <2>2. ASSUME NEW k \in 1..t, NEW j \in 1..size, at(k, j) \in 1..m
          PROVE  shows(k, j, order[at(k, j)])
      <3>1. j \in 1..Len(p(k))
        BY <1>8, <2>2
      <3>2. p(k)[j] = order[at(k, j)] /\ pages[k][j].id = packs[p(k)[j]].id
        BY <1>9, <1>11, <3>1
      <3> QED  BY <1>10, <3>1, <3>2
    <2> HIDE DEF shows
    <2> QED  BY <2>1, <2>2
  <1>14. \A k, l \in 1..t, i, j \in 1..size : at(k, i) = at(l, j) => k = l /\ i = j
    <2>1. \A k \in 1..t : k \in Nat \ {0}
      OBVIOUS
    <2> QED  BY <1>2, <2>1, ShownOnce DEF at
  <1>15. \A r \in 1..m : \E k \in 1..t, j \in 1..size : at(k, j) = r
    BY <1>1, <1>2, ShownSomewhere DEF at, t
  <1>16. ASSUME NEW i \in 1..n, i \in Q
         PROVE  \E k \in 1..t, j \in 1..size :
                  /\ shows(k, j, i)
                  /\ \A l \in 1..t, h \in 1..size : shows(l, h, i) => l = k /\ h = j
    <2> HIDE DEF shows
    <2>1. PICK r \in 1..m : order[r] = i
      BY <1>1, <1>16 DEF Enumerates
    <2>2. PICK k \in 1..t, j \in 1..size : at(k, j) = r
      BY <1>15
    <2>3. shows(k, j, i)
      BY <1>13, <2>1, <2>2
    <2>4. ASSUME NEW l \in 1..t, NEW h \in 1..size, shows(l, h, i) PROVE l = k /\ h = j
      <3>1. at(l, h) \in 1..m /\ order[at(l, h)] = order[r]
        BY <1>13, <2>1, <2>4
      <3>2. at(l, h) = at(k, j)
        BY <1>1, <2>2, <3>1 DEF Enumerates
      <3> QED  BY <1>14, <3>2
    <2> QED  BY <2>3, <2>4
  <1>17. ASSUME NEW i \in 1..n, i \notin Q
         PROVE  \A k \in 1..t, j \in 1..size : ~shows(k, j, i)
    <2> HIDE DEF shows
    <2>1. ASSUME NEW k \in 1..t, NEW j \in 1..size, shows(k, j, i) PROVE FALSE
      <3>1. at(k, j) \in 1..m /\ order[at(k, j)] = i
        BY <1>13, <2>1
      <3> QED  BY <1>1, <1>17, <3>1 DEF Enumerates
    <2> QED  BY <2>1
  <1>18. Column(c, n) /\ queue.totals.paid = SumOf(c, Q)
         /\ queue.totals.base + queue.totals.tax = queue.totals.paid
    BY TotalsAddUp DEF n, Q, queue
  <1>19. \A i \in 1..n : c[i] = packs[i].paid
    BY DEF Places, n
  <1> HIDE DEF c
  <1> DEFINE P == [k \in 1..t |-> PageOf(order, size, k)]
             T == [k \in Places(pages) |-> paid(k)]
  <1>20. ASSUME NEW k \in 1..t PROVE paid(k) = SumOf(c, P[k])
    <2> DEFINE u == column(k)
               l == Len(p(k))
    <2>1. Enumerates(p(k), l, P[k])
      BY <1>1, <1>2, PageIsAnOrder DEF p, t
    <2>2. P[k] \in SUBSET (1..n)
      <3>1. \A i \in P[k] : \E j \in 1..size : at(k, j) \in 1..m /\ i = order[at(k, j)]
        BY <1>1 DEF PageOf, Enumerates, at
      <3> QED  BY <1>1, <3>1 DEF Enumerates
    <2>3. Places(pages[k]) = 1..l /\ l \in Nat
      BY <1>7, <1>10
    <2>4. u = [j \in 1..l |-> pages[k][j].receipt.total]
      BY <2>3
    <2> HIDE DEF P, l
    <2>5. Len(u) = l /\ Places(u) = 1..l
      BY <2>3, <2>4 DEF Places
    <2>6. \A j \in 1..l : u[j] = c[p(k)[j]]
      <3>1. \A j \in 1..l : p(k)[j] \in 1..n
        BY <2>1, <2>2 DEF Enumerates
      <3>2. \A j \in 1..l : u[j] = pages[k][j].receipt.total
        BY <2>4
      <3> HIDE DEF u
      <3> QED  BY <1>11, <1>19, <3>1, <3>2 DEF l
    <2> HIDE DEF u
    <2>7. SumOf(u, 1..l) = SumOf(c, P[k])
      BY <1>1, <1>18, <2>1, <2>2, <2>5, <2>6, OrderAddsUp
    <2> QED  BY <2>5, <2>7 DEF SumAll, u
  <1> HIDE DEF paid
  <1>21. Len(T) = t /\ Places(T) = 1..t /\ \A k \in 1..t : T[k] = paid(k)
    <2>1. T = [k \in 1..t |-> paid(k)]
      BY <1>12
    <2> HIDE DEF T
    <2>2. Len(T) = t
      BY <1>4, <2>1 DEF t
    <2> QED  BY <2>1, <2>2 DEF Places
  <1>22. \A k \in 1..t : P[k] = PageOf(order, size, k)
    OBVIOUS
  <1> HIDE DEF T, P
  <1>23. PartsOf(P, t, n, Q)
    BY <1>1, <1>2, <1>22, PagesAreParts DEF t
  <1>24. Column(T, t)
    <2>1. \A k \in 1..t : T[k] \in Int
      BY <1>18, <1>20, <1>21, SumInt
    <2> QED  BY <1>4, <1>21, <2>1 DEF Column, t
  <1>25. \A k \in 1..t : T[k] = SumOf(c, P[k])
    BY <1>20, <1>21
  <1>26. SumOf(T, 1..t) = SumOf(c, Q)
    BY <1>18, <1>23, <1>24, <1>25, PartsAddUp
  <1>27. SumAll(T) = queue.totals.paid
    BY <1>18, <1>21, <1>26 DEF SumAll
  <1>28. \A i \in Places(packs) :
           IF ChargedFirmly(packs[i]) /\ ~packs[i].sent
           THEN \E k \in Places(pages), j \in 1..size :
                  /\ shows(k, j, i)
                  /\ \A l \in Places(pages), h \in 1..size : shows(l, h, i) => l = k /\ h = j
           ELSE \A k \in Places(pages), j \in 1..size : ~shows(k, j, i)
    <2>1. Places(packs) = 1..n
      BY DEF Places, n
    <2> HIDE DEF shows
    <2> QED  BY <1>1, <1>12, <1>16, <1>17, <2>1
  <1> QED  BY <1>18, <1>27, <1>28 DEF QueueAddsUp, queue, pages, size, T, paid

-----------------------------------------------------------------------------
(***************************************************************************)
(* The calendar.                                                           *)
(***************************************************************************)
\* The days before a month are known, and grow.
LEMMA DaysGrow ==
  /\ \A m \in 1..12 : DaysBefore[m] \in 0..334
  /\ \A m, k \in 1..12 : m <= k => DaysBefore[m] <= DaysBefore[k]
  /\ DaysBefore[1] = 0 /\ DaysBefore[2] = 31 /\ DaysBefore[3] = 59 /\ DaysBefore[4] = 90
  /\ DaysBefore[5] = 120 /\ DaysBefore[6] = 151 /\ DaysBefore[7] = 181 /\ DaysBefore[8] = 212
  /\ DaysBefore[9] = 243 /\ DaysBefore[10] = 273 /\ DaysBefore[11] = 304 /\ DaysBefore[12] = 334
  BY DEF DaysBefore

\* A month by its year and its place in the year.
LEMMA FirstDayOfYear ==
  ASSUME NEW q \in Int, NEW m \in 1..12
  PROVE  FirstDay(12 * q + m) = 365 * q + DaysBefore[m] + 1
  <1>1. ((12 * q + m) - 1) \div 12 = q /\ ((12 * q + m) - 1) % 12 = m - 1 /\ (m - 1) + 1 = m
    OBVIOUS
  <1> QED  BY <1>1 DEF FirstDay

\* The year and the place of a month.
LEMMA MonthsHaveYears ==
  ASSUME NEW a \in Int
  PROVE  \E q \in Int, m \in 1..12 : a = 12 * q + m
  <1>1. /\ (a - 1) \div 12 \in Int /\ ((a - 1) % 12) + 1 \in 1..12
        /\ a = 12 * ((a - 1) \div 12) + (((a - 1) % 12) + 1)
    OBVIOUS
  <1> QED  BY <1>1

\* Later months begin later, and those of the year before 365 days earlier.
LEMMA MonthsInOrder ==
  ASSUME NEW a \in Int, NEW b \in Int, a <= b
  PROVE  /\ FirstDay(a) \in Int /\ FirstDay(b) \in Int
         /\ FirstDay(a) <= FirstDay(b) /\ FirstDay(a - 12) = FirstDay(a) - 365
  <1>1. PICK q \in Int, m \in 1..12 : a = 12 * q + m
    BY MonthsHaveYears
  <1>2. PICK r \in Int, k \in 1..12 : b = 12 * r + k
    BY MonthsHaveYears
  <1>3. FirstDay(a) = 365 * q + DaysBefore[m] + 1 /\ FirstDay(b) = 365 * r + DaysBefore[k] + 1
    BY <1>1, <1>2, FirstDayOfYear
  <1>4. DaysBefore[m] \in 0..334 /\ DaysBefore[k] \in 0..334 /\ (m <= k => DaysBefore[m] <= DaysBefore[k])
    BY DaysGrow
  <1>5. q < r \/ (q = r /\ m <= k)
    BY <1>1, <1>2
  <1>6. FirstDay(a - 12) = FirstDay(a) - 365
    <2> DEFINE p == q - 1
    <2>1. a - 12 = 12 * p + m /\ p \in Int
      BY <1>1
    <2> HIDE DEF p
    <2>2. FirstDay(12 * p + m) = 365 * p + DaysBefore[m] + 1
      BY <2>1, FirstDayOfYear
    <2>3. FirstDay(a - 12) = 365 * p + DaysBefore[m] + 1
      BY <2>1, <2>2
    <2>4. DaysBefore[m] \in Int
      BY <1>4
    <2> QED  BY <1>3, <2>3, <2>4 DEF p
  <1> DEFINE x == DaysBefore[m]
             y == DaysBefore[k]
  <1>7. x \in 0..334 /\ y \in 0..334 /\ (m <= k => x <= y)
    BY <1>4
  <1>8. FirstDay(a) = 365 * q + x + 1 /\ FirstDay(b) = 365 * r + y + 1
    BY <1>3
  <1> HIDE DEF x, y
  <1>9. FirstDay(a) \in Int /\ FirstDay(b) \in Int /\ FirstDay(a) <= FirstDay(b)
    BY <1>5, <1>7, <1>8
  <1> QED  BY <1>6, <1>9

\* The month of a day: it has begun, and a year earlier it was twelve months before.
LEMMA MonthOfADay ==
  ASSUME NEW d \in Int
  PROVE  /\ MonthOf(d) \in Int /\ FirstDay(MonthOf(d)) <= d
         /\ MonthOf(d - 365) = MonthOf(d) - 12
  <1> DEFINE gone == (d - 1) % 365
             q == (d - 1) \div 365
             in(m) == DaysBefore[m] <= gone /\ (m < 12 => gone < DaysBefore[m + 1])
             month == CHOOSE m \in 1..12 : in(m)
  <1>1. gone \in 0..364 /\ q \in Int /\ d = 365 * q + gone + 1
    OBVIOUS
  <1>2. ((d - 365) - 1) % 365 = gone /\ ((d - 365) - 1) \div 365 = q - 1
    OBVIOUS
  <1>3. MonthOf(d) = 12 * q + month
    BY DEF MonthOf
  <1>4. MonthOf(d - 365) = 12 * (q - 1) + month
    BY <1>2 DEF MonthOf
  <1> HIDE DEF gone, q
  <1>5. \E m \in 1..12 : in(m)
    <2>1. in(1) \/ in(2) \/ in(3) \/ in(4) \/ in(5) \/ in(6) \/ in(7) \/ in(8) \/ in(9) \/ in(10)
          \/ in(11) \/ in(12)
      BY <1>1, DaysGrow
    <2> QED  BY <2>1
  <1>6. month \in 1..12 /\ in(month)
    BY <1>5
  <1> HIDE DEF month
  <1>7. FirstDay(MonthOf(d)) = 365 * q + DaysBefore[month] + 1
    BY <1>1, <1>3, <1>6, FirstDayOfYear
  <1>8. DaysBefore[month] \in Int
    BY <1>6, DaysGrow
  <1> QED  BY <1>1, <1>3, <1>4, <1>6, <1>7, <1>8

\* The chart of twelve months asks for the studies from its first month on.
LEMMA ChartBegins ==
  ASSUME NEW today \in Int, NEW date \in Int, MonthOf(date) \in (MonthOf(today) - 11)..MonthOf(today)
  PROVE  date >= Cutoff(today, 12)
  <1> DEFINE M == MonthOf(today)
             D == MonthOf(date)
  <1>1. M \in Int /\ MonthOf(today - 365) = M - 12 /\ D \in Int /\ FirstDay(D) <= date
    BY MonthOfADay
  <1>2. D \in (M - 11)..M
    OBVIOUS
  <1>3. FirstDay(M - 12) = FirstDay(M) - 365 /\ FirstDay(M) \in Int
    BY <1>1, MonthsInOrder
  <1>4. MonthsBefore(today, 12) = FirstDay(M - 12) + (today - FirstDay(M))
    BY DEF MonthsBefore
  <1> HIDE DEF M, D
  <1>5. MonthsBefore(today, 12) = today - 365
    BY <1>3, <1>4
  <1>6. Cutoff(today, 12) = FirstDay(M - 12)
    BY <1>1, <1>5 DEF Cutoff
  <1>7. M - 12 <= D /\ M - 12 \in Int
    BY <1>1, <1>2
  <1>8. FirstDay(M - 12) <= FirstDay(D) /\ FirstDay(M - 12) \in Int /\ FirstDay(D) \in Int
    BY <1>1, <1>7, MonthsInOrder
  <1> QED  BY <1>1, <1>6, <1>8

-----------------------------------------------------------------------------
(***************************************************************************)
(* Studies by customer, by step of the process and by month.               *)
(***************************************************************************)
\* The studies of a company and its customers (a foreign key, distinct ids).
Studies(studies, customers) ==
  /\ Len(studies) \in Nat /\ Len(customers) \in Nat
  /\ \A c, d \in 1..Len(customers) : customers[c] = customers[d] => c = d
  /\ \A i \in 1..Len(studies) :
       /\ studies[i].requested \in Int /\ studies[i].date \in Int
       /\ \E c \in 1..Len(customers) : studies[i].customer = customers[c]
       /\ \E k \in 1..Len(PipelineOrder) : studies[i].status = PipelineOrder[k]

\* Any studies are, by customer, parts of them.
LEMMA CustomersArePartsOf ==
  ASSUME NEW studies, NEW customers, Studies(studies, customers), NEW S, NEW P,
         \A c \in 1..Len(customers) : P[c] = S \cap StudiesOf(studies, customers[c])
  PROVE  PartsOf(P, Len(customers), Len(studies), S)
  <1> DEFINE n == Len(studies)
             m == Len(customers)
  <1>1. \A i \in 1..n, c \in 1..m : i \in P[c] <=> i \in S /\ studies[i].customer = customers[c]
    BY DEF StudiesOf, Places
  <1>2. \A i \in 1..n : \E c \in 1..m : studies[i].customer = customers[c]
    BY DEF Studies
  <1>3. \A c, d \in 1..m : customers[c] = customers[d] => c = d
    BY DEF Studies
  <1> HIDE DEF n, m
  <1>4. PartsOf(P, m, n, S)
    BY <1>1, <1>2, <1>3 DEF PartsOf
  <1> QED  BY <1>4 DEF n, m

\* The steps of the process are different, and a study is at one of them.
LEMMA StepsArePartsOf ==
  ASSUME NEW studies, NEW customers, Studies(studies, customers), NEW P,
         \A k \in 1..7 : P[k] = WithStatus(studies, PipelineOrder[k])
  PROVE  PartsOf(P, 7, Len(studies), 1..Len(studies))
  <1> DEFINE n == Len(studies)
  <1>1. Len(PipelineOrder) = 7
    BY DEF PipelineOrder
  <1>2. \A k, l \in 1..7 : PipelineOrder[k] = PipelineOrder[l] => k = l
    BY DEF PipelineOrder
  <1>3. \A i \in 1..n, k \in 1..7 : i \in P[k] <=> studies[i].status = PipelineOrder[k]
    BY DEF WithStatus, Places
  <1>4. \A i \in 1..n : \E k \in 1..7 : studies[i].status = PipelineOrder[k]
    BY <1>1 DEF Studies
  <1> HIDE DEF n
  <1>5. PartsOf(P, 7, n, 1..n)
    BY <1>2, <1>3, <1>4 DEF PartsOf
  <1> QED  BY <1>5 DEF n

\* The months of a chart.
LEMMA MonthsArePartsOf ==
  ASSUME NEW studies, NEW n \in Nat, NEW places \in SUBSET (1..n), NEW first \in Int, NEW m \in Nat,
         NEW P, \A k \in 1..m : P[k] = InMonth(studies, places, first + k),
         NEW S, \A i : i \in S <=> /\ i \in places
                                   /\ MonthOf(studies[i].date) \in (first + 1)..(first + m)
  PROVE  PartsOf(P, m, n, S)
  <1>1. \A i \in 1..n, k \in 1..m : i \in P[k] <=> i \in places /\ MonthOf(studies[i].date) = first + k
    BY DEF InMonth
  <1>2. ASSUME NEW d, d \in (first + 1)..(first + m) PROVE \E k \in 1..m : d = first + k
    <2>1. d - first \in 1..m /\ d = first + (d - first)
      BY <1>2
    <2> QED  BY <2>1
  <1>3. \A k \in 1..m : first + k \in (first + 1)..(first + m)
    OBVIOUS
  <1>4. \A k, l \in 1..m : first + k = first + l => k = l
    OBVIOUS
  <1> DEFINE month(i) == MonthOf(studies[i].date)
             at(k) == first + k
             shown == (first + 1)..(first + m)
  <1>5. /\ \A i \in 1..n, k \in 1..m : i \in P[k] <=> i \in places /\ month(i) = at(k)
        /\ \A d \in shown : \E k \in 1..m : d = at(k)
        /\ \A k \in 1..m : at(k) \in shown
        /\ \A k, l \in 1..m : at(k) = at(l) => k = l
        /\ \A i : i \in S <=> i \in places /\ month(i) \in shown
    BY <1>1, <1>2, <1>3, <1>4
  <1> HIDE DEF month, at, shown
  <1> QED  BY <1>5 DEF PartsOf

\* The studies of the months of a chart that its query takes.
Charted(studies, today, months) ==
  {i \in Places(studies) : /\ studies[i].date >= Cutoff(today, months)
                           /\ MonthOf(studies[i].date)
                                \in (MonthOf(today) - months + 1)..MonthOf(today)}
\* The column of the counts of a chart.
ChartColumn(t, studies, today, months) ==
  LET chart == FillMonths(StudiesByMonth(studies, today, months), today, months) IN
  Len(t) = months /\ \A k \in 1..months : t[k] = chart[k].count

\* A chart counts them, each once (fillMonths).
LEMMA ChartCounts ==
  ASSUME NEW studies, NEW today \in Int, NEW months \in Nat, Len(studies) \in Nat,
         NEW t, ChartColumn(t, studies, today, months)
  PROVE  SumOf(t, 1..months) = Cardinality(Charted(studies, today, months))
  <1> DEFINE n == Len(studies)
             since == {i \in Places(studies) : studies[i].date >= Cutoff(today, months)}
             first == MonthOf(today) - months
             counts == StudiesByMonth(studies, today, months)
             chart == FillMonths(counts, today, months)
             shown == (MonthOf(today) - months + 1)..MonthOf(today)
             S == {i \in since : MonthOf(studies[i].date) \in shown}
             P == [k \in 1..months |-> InMonth(studies, since, first + k)]
  <1>0. MonthOf(today) \in Int
    BY MonthOfADay
  <1>1. n \in Nat /\ since \in SUBSET (1..n) /\ first \in Int
    <2>1. since \in SUBSET (1..n)
      BY DEF Places
    <2> HIDE DEF since, n
    <2> QED  BY <1>0, <2>1 DEF n
  <1>2. counts = [m \in {MonthOf(studies[i].date) : i \in since} |->
                    Cardinality(InMonth(studies, since, m))]
    BY DEF StudiesByMonth
  <1>3. \A k \in 1..months : chart[k].count = IF first + k \in DOMAIN counts
                                              THEN counts[first + k] ELSE 0
    BY DEF FillMonths
  <1>4. shown = (first + 1)..(first + months)
    <2>1. MonthOf(today) - months + 1 = first + 1 /\ MonthOf(today) = first + months
      BY <1>0
    <2> QED  BY <2>1
  <1> HIDE DEF since, first, counts, chart, n, shown
  <1>5. ASSUME NEW k \in 1..months PROVE chart[k].count = Cardinality(P[k])
    <2> DEFINE m == first + k
    <2>1. P[k] = InMonth(studies, since, m)
      OBVIOUS
    <2>2. chart[k].count = IF m \in DOMAIN counts THEN counts[m] ELSE 0
      BY <1>3
    <2> HIDE DEF m, P
    <2>3. CASE m \in DOMAIN counts
      <3>1. counts[m] = Cardinality(InMonth(studies, since, m))
        BY <1>2, <2>3
      <3> QED  BY <2>1, <2>2, <2>3, <3>1
    <2>4. CASE m \notin DOMAIN counts
      <3>1. InMonth(studies, since, m) = {}
        BY <1>2, <2>4 DEF InMonth
      <3>2. Cardinality({}) = 0
        BY FS_EmptySet
      <3> QED  BY <2>1, <2>2, <2>4, <3>1, <3>2
    <2> QED  BY <2>3, <2>4
  <1>6. \A k \in 1..months : P[k] = InMonth(studies, since, first + k) /\ P[k] \in SUBSET (1..n)
    <2>1. \A k \in 1..months : InMonth(studies, since, first + k) \in SUBSET (1..n)
      BY <1>1 DEF InMonth
    <2> QED  BY <2>1
  <1>7. \A i : i \in S <=> i \in since /\ MonthOf(studies[i].date) \in (first + 1)..(first + months)
    BY <1>4
  <1>8. S \in SUBSET (1..n)
    BY <1>1
  <1> HIDE DEF P, S
  <1>12. Len(t) = months
    BY DEF ChartColumn
  <1>9. PartsOf(P, months, n, S)
    BY <1>1, <1>6, <1>7, MonthsArePartsOf
  <1>10. \A k \in 1..months : t[k] = Cardinality(P[k])
    BY <1>5 DEF chart, counts, ChartColumn
  <1>11. SumOf(t, 1..months) = Cardinality(S)
    BY <1>1, <1>6, <1>8, <1>9, <1>10, <1>12, PartsCount
  <1>13. S = Charted(studies, today, months)
    BY DEF Charted, S, since, shown
  <1> QED  BY <1>11, <1>13

-----------------------------------------------------------------------------
(***************************************************************************)
(* The dashboards and the figures of each customer.                        *)
(***************************************************************************)
\* What the dashboard shows when no dates are asked for (getDashboard).
LEMMA BoardShows ==
  ASSUME NEW account, NEW company, NEW today
  PROVE  LET board == AdvancedDashboard(account, company, Unset, Unset, today)
             studies == account.studies
         IN  /\ board.verdicts = VerdictCounts(studies, Places(studies))
             /\ board.credit = CreditTotals(studies, Places(studies))
             /\ board.pipeline = BuildPipeline(studies)
             /\ board.months = FillMonths(StudiesByMonth(studies, today, 12), today, 12)
             /\ board.bureauRisk = BureauRisk(Len(account.customers), account.snapshots)
             /\ board.top = TopCustomersByCredit(studies, account.customers, 10, Unset, Unset)
             /\ BasicDashboard(account, company, today).months
                  = FillMonths(StudiesByMonth(studies, today, 6), today, 6)
  <1>1. InStudyDates(account.studies, Unset, Unset) = Places(account.studies)
    BY DEF InStudyDates
  <1> DEFINE board == AdvancedDashboard(account, company, Unset, Unset, today)
  <1>2. /\ board.verdicts = VerdictCounts(account.studies, InStudyDates(account.studies, Unset, Unset))
        /\ board.credit = CreditTotals(account.studies, InStudyDates(account.studies, Unset, Unset))
        /\ board.pipeline = BuildPipeline(account.studies)
        /\ board.months = FillMonths(StudiesByMonth(account.studies, today, 12), today, 12)
        /\ board.bureauRisk = BureauRisk(Len(account.customers), account.snapshots)
        /\ board.top = TopCustomersByCredit(account.studies, account.customers, 10, Unset, Unset)
    BY DEF AdvancedDashboard
  <1>3. BasicDashboard(account, company, today).months
          = FillMonths(StudiesByMonth(account.studies, today, 6), today, 6)
    BY DEF BasicDashboard
  <1> HIDE DEF board
  <1> QED  BY <1>1, <1>2, <1>3 DEF board

\* A sequence by its length and its elements.
LEMMA LengthOf ==
  ASSUME NEW n \in Nat, NEW s, s = [i \in 1..n |-> s[i]]
  PROVE  Len(s) = n /\ Places(s) = 1..n
  <1>1. Len(s) = n
    OBVIOUS
  <1> QED  BY <1>1 DEF Places

\* The column of how often each customer was given a verdict.
VerdictColumn(t, studies, customers, today, v) ==
  /\ Len(t) = Len(customers)
  /\ \A c \in 1..Len(customers) : t[c] = GetStats(studies, customers[c], today).verdicts[v]

\* The dashboard has the verdicts of all the customers.
LEMMA VerdictsAddUp ==
  ASSUME NEW studies, NEW customers, Studies(studies, customers), NEW today, NEW v \in Verdicts,
         NEW t, VerdictColumn(t, studies, customers, today, v)
  PROVE  SumOf(t, 1..Len(customers)) = VerdictCounts(studies, Places(studies))[v]
  <1> DEFINE n == Len(studies)
             m == Len(customers)
             S == Given({v}, studies, Places(studies))
             P == [c \in 1..m |-> S \cap StudiesOf(studies, customers[c])]
  <1>1. n \in Nat /\ m \in Nat
    BY DEF Studies
  <1>2. S \in SUBSET (1..n) /\ \A c \in 1..m : P[c] = S \cap StudiesOf(studies, customers[c])
    BY DEF Given, Places
  <1>3. VerdictCounts(studies, Places(studies))[v] = Cardinality(S)
    BY DEF VerdictCounts
  <1>4. ASSUME NEW c \in 1..m PROVE t[c] = Cardinality(P[c])
    <2>1. GetStats(studies, customers[c], today).verdicts
            = VerdictCounts(studies, StudiesOf(studies, customers[c]))
      BY DEF GetStats
    <2>2. Given({v}, studies, StudiesOf(studies, customers[c])) = P[c]
      BY DEF Given, StudiesOf
    <2>3. VerdictCounts(studies, StudiesOf(studies, customers[c]))[v]
            = Cardinality(Given({v}, studies, StudiesOf(studies, customers[c])))
      BY DEF VerdictCounts
    <2>4. t[c] = GetStats(studies, customers[c], today).verdicts[v]
      BY DEF VerdictColumn
    <2> QED  BY <2>1, <2>2, <2>3, <2>4
  <1> HIDE DEF S, P
  <1>5. PartsOf(P, m, n, S)
    BY <1>2, CustomersArePartsOf
  <1>6. \A c \in 1..m : P[c] \in SUBSET (1..n)
    BY <1>2
  <1> HIDE DEF n, m
  <1>7. Len(t) = m
    BY DEF m, VerdictColumn
  <1>8. SumOf(t, 1..m) = Cardinality(S)
    BY <1>1, <1>2, <1>4, <1>5, <1>6, <1>7, PartsCount
  <1> QED  BY <1>3, <1>8 DEF m

\* The steps of the process have all the studies.
LEMMA PipelineAddsUp ==
  ASSUME NEW studies, NEW customers, Studies(studies, customers),
         NEW t, Len(t) = 7, \A k \in 1..7 : t[k] = BuildPipeline(studies)[k].count
  PROVE  SumOf(t, 1..7) = Cardinality(1..Len(studies))
  <1> DEFINE n == Len(studies)
             P == [k \in 1..7 |-> WithStatus(studies, PipelineOrder[k])]
  <1>1. n \in Nat
    BY DEF Studies
  <1>2. \A k \in 1..7 : BuildPipeline(studies)[k].count = Cardinality(P[k])
    <2>1. Len(PipelineOrder) = 7
      BY DEF PipelineOrder
    <2> QED  BY <2>1 DEF BuildPipeline
  <1>3. \A k \in 1..7 : P[k] = WithStatus(studies, PipelineOrder[k]) /\ P[k] \in SUBSET (1..n)
    BY DEF WithStatus, Places
  <1> HIDE DEF P
  <1>4. PartsOf(P, 7, n, 1..n)
    BY <1>3, StepsArePartsOf
  <1> HIDE DEF n
  <1>5. SumOf(t, 1..7) = Cardinality(1..n)
    <2> DEFINE m == 7
               S == 1..n
    <2>1. \A k \in 1..m : t[k] = Cardinality(P[k])
      BY <1>2
    <2>2. \A k \in 1..m : P[k] \in SUBSET (1..n)
      BY <1>3
    <2>3. m \in Nat /\ S \in SUBSET (1..n) /\ Len(t) = m /\ PartsOf(P, m, n, S)
      BY <1>4
    <2> HIDE DEF m, S
    <2>4. SumOf(t, 1..m) = Cardinality(S)
      BY <1>1, <2>1, <2>2, <2>3, PartsCount
    <2> QED  BY <2>4 DEF m, S
  <1> QED  BY <1>5 DEF n

\* And so have the customers.
LEMMA TotalsOfCustomersAddUp ==
  ASSUME NEW studies, NEW customers, Studies(studies, customers), NEW today,
         NEW t, Len(t) = Len(customers),
         \A c \in 1..Len(customers) : t[c] = GetStats(studies, customers[c], today).total
  PROVE  SumOf(t, 1..Len(customers)) = Cardinality(1..Len(studies))
  <1> DEFINE n == Len(studies)
             m == Len(customers)
             P == [c \in 1..m |-> StudiesOf(studies, customers[c])]
  <1>1. n \in Nat /\ m \in Nat
    BY DEF Studies
  <1>2. \A c \in 1..m : P[c] = (1..n) \cap StudiesOf(studies, customers[c]) /\ P[c] \in SUBSET (1..n)
    BY DEF StudiesOf, Places
  <1>3. \A c \in 1..m : t[c] = Cardinality(P[c])
    BY DEF GetStats
  <1> HIDE DEF P
  <1>4. PartsOf(P, m, n, 1..n)
    BY <1>2, CustomersArePartsOf
  <1> HIDE DEF n, m
  <1>5. Len(t) = m /\ 1..n \in SUBSET (1..n)
    BY DEF m
  <1>6. SumOf(t, 1..m) = Cardinality(1..n)
    BY <1>1, <1>2, <1>3, <1>4, <1>5, PartsCount
  <1> QED  BY <1>6 DEF n, m

\* The bands and the customers without a score are all the customers (bureauRisk).
LEMMA BandsAddUp ==
  ASSUME NEW snapshots, Len(snapshots) \in Nat, NEW customers \in Nat
  PROVE  LET risk == BureauRisk(customers, snapshots) IN
         SumAll(risk.byBand) + risk.withoutHistory = customers
  <1> DEFINE n == Len(snapshots)
             rows == BureauRiskLatest(snapshots)
             scored == {i \in rows : snapshots[i].score # Unset}
             band(i) == Band(snapshots[i].score)
             P == [k \in 1..5 |-> {i \in scored : band(i) = Bands[k]}]
             risk == BureauRisk(customers, snapshots)
             t == risk.byBand
  <1>1. rows \in SUBSET (1..n) /\ scored \in SUBSET (1..n)
    BY DEF BureauRiskLatest, Places
  <1>2. Len(Bands) = 5
    BY DEF Bands
  <1>3. /\ risk.withoutHistory = customers - Cardinality(rows)
                                  + (Cardinality(rows) - Cardinality(scored))
        /\ t = [k \in 1..5 |-> Cardinality({i \in scored : band(i) = Bands[k]})]
    BY <1>2 DEF BureauRisk
  <1>4. \A i : \E k \in 1..5 : band(i) = Bands[k]
    BY DEF Band, Bands
  <1>5. \A k, l \in 1..5 : Bands[k] = Bands[l] => k = l
    BY DEF Bands
  <1> HIDE DEF band, scored, rows, risk
  <1>6. t = [k \in 1..5 |-> Cardinality(P[k])] /\ \A k \in 1..5 : P[k] \in SUBSET (1..n)
    BY <1>1, <1>3
  <1>7. \A i : \A k \in 1..5 : i \in P[k] <=> i \in scored /\ band(i) = Bands[k]
    OBVIOUS
  <1> HIDE DEF P, t
  <1>8. PartsOf(P, 5, n, scored)
    BY <1>4, <1>5, <1>7 DEF PartsOf
  <1>9. \A k \in 1..5 : t[k] = Cardinality(P[k])
    BY <1>6
  <1>10. Len(t) = 5 /\ Places(t) = 1..5
    <2>1. t = [k \in 1..5 |-> t[k]]
      BY <1>6
    <2> QED  BY <2>1, LengthOf
  <1> HIDE DEF n
  <1>11. n \in Nat
    BY DEF n
  <1>12. SumOf(t, 1..5) = Cardinality(scored)
    <2> DEFINE m == 5
    <2>1. /\ m \in Nat /\ Len(t) = m /\ PartsOf(P, m, n, scored)
          /\ \A k \in 1..m : t[k] = Cardinality(P[k]) /\ P[k] \in SUBSET (1..n)
      BY <1>6, <1>8, <1>9, <1>10
    <2> HIDE DEF m
    <2>2. SumOf(t, 1..m) = Cardinality(scored)
      BY <1>1, <1>11, <2>1, PartsCount
    <2> QED  BY <2>2 DEF m
  <1>13. Cardinality(scored) \in Int /\ Cardinality(rows) \in Int
    BY <1>1, <1>11, PlacesAreFinite
  <1>14. SumAll(t) + risk.withoutHistory = customers
    <2>1. SumAll(t) = Cardinality(scored)
      BY <1>10, <1>12 DEF SumAll
    <2>2. risk.withoutHistory = customers - Cardinality(rows) + (Cardinality(rows) - Cardinality(scored))
      BY <1>3
    <2> QED  BY <1>13, <2>1, <2>2
  <1> QED  BY <1>14 DEF risk, t

\* What is requested is a column.
LEMMA RequestedIsAColumn ==
  ASSUME NEW studies, NEW customers, Studies(studies, customers)
  PROVE  Column(Requested(studies), Len(studies))
  <1> DEFINE n == Len(studies)
             a == Requested(studies)
  <1>1. n \in Nat /\ \A i \in 1..n : studies[i].requested \in Int
    BY DEF Studies
  <1>2. a = [i \in 1..n |-> OrNothing(studies[i].requested)]
    BY DEF Requested, Places
  <1>3. \A i \in 1..n : OrNothing(studies[i].requested) \in Int
    BY <1>1 DEF OrNothing
  <1> HIDE DEF n, a
  <1>4. Len(a) = n /\ \A i \in 1..n : a[i] \in Int
    BY <1>1, <1>2, <1>3
  <1>5. Column(a, n)
    BY <1>1, <1>4 DEF Column
  <1> QED  BY <1>5 DEF n, a

\* A page with room for all is the order.
LEMMA OnePageIsAll ==
  ASSUME NEW S, NEW m, NEW order, Enumerates(order, m, S), NEW size \in Nat \ {0}, m <= size
  PROVE  LET p == Page(order, 1, size) IN Enumerates(p, Len(p), S)
  <1> DEFINE p == Page(order, 1, size)
  <1>1. m \in Nat /\ Len(order) = m
    BY DEF Enumerates
  <1>2. 1 \in 1..(m \div size + 1)
    <2>1. m \div size >= 0 /\ m \div size \in Int
      BY <1>1
    <2> QED  BY <2>1
  <1>3. Enumerates(p, Len(p), PageOf(order, size, 1))
    BY <1>2, PageIsAnOrder
  <1>4. PageOf(order, size, 1) = S
    <2>1. \A j \in 1..size : PlaceAt(1, j, size) = j
      BY DEF PlaceAt
    <2>2. \A j \in 1..m : j \in 1..size
      BY <1>1
    <2>3. \A i : i \in PageOf(order, size, 1) <=> \E j \in 1..size : j \in 1..m /\ i = order[j]
      BY <1>1, <2>1 DEF PageOf
    <2>4. \A i : i \in S <=> \E j \in 1..m : i = order[j]
      BY DEF Enumerates
    <2> QED  BY <2>2, <2>3, <2>4
  <1> QED  BY <1>3, <1>4

\* When all the customers have a place in the ranking, what it shows is all
\* that was requested (topCustomersByCredit).
LEMMA RankingAddsUp ==
  ASSUME NEW studies, NEW customers, Studies(studies, customers), NEW size \in Nat \ {0},
         Len(customers) <= size
  PROVE  LET top == TopCustomersByCredit(studies, customers, size, Unset, Unset) IN
         SumAll([k \in Places(top) |-> top[k].requested])
           = CreditTotals(studies, Places(studies)).requested
  <1> DEFINE n == Len(studies)
             m == Len(customers)
             a == Requested(studies)
             of(c) == InStudyDates(studies, Unset, Unset) \cap StudiesOf(studies, customers[c])
             row(c) == [customer |-> customers[c], studies |-> Cardinality(of(c)),
                        requested |-> CreditTotals(studies, of(c)).requested,
                        approved |-> CreditTotals(studies, of(c)).approved]
             rows == [c \in Places(customers) |-> row(c)]
             grouped == {c \in Places(customers) : of(c) # {}}
             g == Cardinality(grouped)
             b == [c \in Places(customers) |-> -rows[c].requested]
             r == [c \in 1..m |-> rows[c].requested]
             order == InOrder(grouped, b)
             p == Page(order, 1, size)
             top == TopCustomersByCredit(studies, customers, size, Unset, Unset)
             t == [k \in Places(top) |-> top[k].requested]
             P == [c \in 1..m |-> of(c)]
  <1>1. n \in Nat /\ m \in Nat /\ Places(customers) = 1..m
    BY DEF Studies, Places
  <1>2. Column(a, n)
    BY RequestedIsAColumn
  <1>3. \A c \in 1..m : of(c) = (1..n) \cap StudiesOf(studies, customers[c])
    BY DEF InStudyDates, Places
  <1>4. top = Read(rows, p)
    BY DEF TopCustomersByCredit
  <1>5. \A c \in 1..m : rows[c] = row(c)
    BY <1>1
  <1>6. \A c : row(c).requested = SumOf(a, of(c))
    <2>1. \A c : CreditTotals(studies, of(c)).requested = SumOf(a, of(c))
      BY DEF CreditTotals
    <2> HIDE DEF of, a
    <2> QED  BY <2>1
  <1>7. \A c \in 1..m : rows[c].requested = SumOf(a, of(c)) /\ rows[c].requested \in Int
    <2> HIDE DEF rows, row, a, of, n, m
    <2>1. \A c \in 1..m : SumOf(a, of(c)) \in Int
      BY <1>2, SumInt
    <2> QED  BY <1>5, <1>6, <2>1
  <1>8. grouped \in SUBSET (1..m) /\ \A c \in 1..m : c \in grouped <=> of(c) # {}
    BY <1>1
  <1>9. \A c \in 1..m : P[c] = of(c) /\ b[c] = -rows[c].requested /\ r[c] = rows[c].requested
    BY <1>1
  <1>10. Len(r) = m
    BY <1>1
  <1> HIDE DEF rows, row, of, a, n, m, grouped, b, r, P
  <1>11. Enumerates(order, g, grouped)
    <2>1. \A c \in grouped : b[c] \in Int
      BY <1>7, <1>8, <1>9
    <2> HIDE DEF g, order
    <2> QED  BY <1>1, <1>8, <2>1, OrderOfPlaces DEF g, order
  <1>12. g <= size
    <2>1. g <= m
      BY <1>1, <1>8, PlacesAreFinite
    <2> HIDE DEF g
    <2>2. g \in Nat /\ m <= size
      BY <1>11 DEF Enumerates, m
    <2> QED  BY <1>1, <2>1, <2>2
  <1> HIDE DEF g, order
  <1>13. Enumerates(p, Len(p), grouped)
    BY <1>11, <1>12, OnePageIsAll
  <1> HIDE DEF p, top
  <1>14. Len(p) \in Nat /\ top = [k \in 1..Len(p) |-> rows[p[k]]]
    BY <1>4, <1>13 DEF Read, Enumerates
  <1>15. Places(top) = 1..Len(p) /\ \A k \in 1..Len(p) : top[k] = rows[p[k]]
    <2>1. Len(top) = Len(p)
      BY <1>14
    <2> QED  BY <1>14, <2>1 DEF Places
  <1>16. Len(t) = Len(p) /\ Places(t) = 1..Len(p) /\ \A k \in 1..Len(p) : t[k] = r[p[k]]
    <2>1. t = [k \in 1..Len(p) |-> top[k].requested]
      BY <1>15
    <2>2. t = [k \in 1..Len(p) |-> t[k]]
      BY <1>15
    <2>3. \A k \in 1..Len(p) : p[k] \in 1..m
      BY <1>8, <1>13 DEF Enumerates
    <2> HIDE DEF t
    <2>4. Len(t) = Len(p) /\ Places(t) = 1..Len(p)
      BY <1>14, <2>2, LengthOf
    <2>5. \A k \in 1..Len(p) : t[k] = rows[p[k]].requested
      BY <1>15, <2>1
    <2> QED  BY <1>9, <2>3, <2>4, <2>5
  <1> HIDE DEF t
  <1>17. Column(r, m)
    BY <1>1, <1>7, <1>9, <1>10 DEF Column
  <1>18. SumOf(t, 1..Len(p)) = SumOf(r, grouped)
    BY <1>8, <1>13, <1>16, <1>17, OrderAddsUp
  <1>19. SumOf(r, grouped) = SumOf(r, 1..m)
    <2>1. \A c \in 1..m : c \notin grouped => r[c] = 0
      <3>1. SumOf(a, {}) = 0
        BY <1>2, SumNothing
      <3> QED  BY <1>7, <1>8, <1>9, <3>1
    <2> DEFINE all == 1..m
    <2>2. \A c \in 1..m : (IF c \in grouped THEN r[c] ELSE 0) = (IF c \in all THEN r[c] ELSE 0)
      BY <2>1
    <2> HIDE DEF all
    <2>3. SumOf(r, grouped) = SumOf(r, all)
      BY <1>17, <2>2, SumSame
    <2> QED  BY <2>3 DEF all
  <1>20. SumOf(r, 1..m) = SumOf(a, 1..n)
    <2>1. \A c \in 1..m : P[c] = (1..n) \cap StudiesOf(studies, customers[c])
      BY <1>3, <1>9
    <2>2. PartsOf(P, m, n, 1..n)
      BY <2>1, CustomersArePartsOf DEF m, n
    <2>3. \A c \in 1..m : r[c] = SumOf(a, P[c])
      BY <1>7, <1>9
    <2> QED  BY <1>2, <1>17, <2>2, <2>3, PartsAddUp
  <1>21. CreditTotals(studies, Places(studies)).requested = SumOf(a, 1..n)
    BY DEF CreditTotals, Places, a, n
  <1>22. SumAll(t) = SumOf(t, 1..Len(p))
    BY <1>16 DEF SumAll
  <1> QED  BY <1>18, <1>19, <1>20, <1>21, <1>22 DEF t, top

\* The chart of twelve months has each study of those months, and the chart of
\* six has none that it has not.
LEMMA ChartsAgree ==
  ASSUME NEW studies, NEW customers, Studies(studies, customers), NEW today \in Int,
         NEW t, ChartColumn(t, studies, today, 12), NEW u, ChartColumn(u, studies, today, 6)
  PROVE  LET shown == {i \in Places(studies) :
                         MonthOf(studies[i].date) \in (MonthOf(today) - 11)..MonthOf(today)}
         IN  SumOf(t, 1..12) = Cardinality(shown) /\ SumOf(u, 1..6) <= Cardinality(shown)
  <1> DEFINE n == Len(studies)
             M == MonthOf(today)
             D(i) == MonthOf(studies[i].date)
             shown == {i \in Places(studies) : D(i) \in (M - 11)..M}
             year == Charted(studies, today, 12)
             half == Charted(studies, today, 6)
  <1>1. n \in Nat /\ Places(studies) = 1..n /\ \A i \in 1..n : studies[i].date \in Int
    BY DEF Studies, Places
  <1>2. M \in Int
    BY MonthOfADay
  <1>3. SumOf(t, 1..12) = Cardinality(year)
    <2> DEFINE m == 12
    <2>1. m \in Nat /\ ChartColumn(t, studies, today, m)
      OBVIOUS
    <2> HIDE DEF m
    <2>2. SumOf(t, 1..m) = Cardinality(Charted(studies, today, m))
      BY <1>1, <2>1, ChartCounts
    <2> QED  BY <2>2 DEF m
  <1>4. SumOf(u, 1..6) = Cardinality(half)
    <2> DEFINE m == 6
    <2>1. m \in Nat /\ ChartColumn(u, studies, today, m)
      OBVIOUS
    <2> HIDE DEF m
    <2>2. SumOf(u, 1..m) = Cardinality(Charted(studies, today, m))
      BY <1>1, <2>1, ChartCounts
    <2> QED  BY <2>2 DEF m
  <1>5. year = shown
    <2>1. \A i \in 1..n : D(i) \in (M - 11)..M => studies[i].date >= Cutoff(today, 12)
      BY <1>1, ChartBegins
    <2>2. (M - 12 + 1)..M = (M - 11)..M
      <3>1. M - 12 + 1 = M - 11
        BY <1>2
      <3> QED  BY <3>1
    <2>3. \A i : i \in year <=> /\ i \in Places(studies) /\ studies[i].date >= Cutoff(today, 12)
                                 /\ D(i) \in (M - 12 + 1)..M
      BY DEF Charted
    <2> HIDE DEF D, M, year
    <2> QED  BY <1>1, <2>1, <2>2, <2>3
  <1>6. half \in SUBSET shown /\ shown \in SUBSET (1..n)
    <2>1. \A d : d \in (M - 6 + 1)..M => d \in (M - 11)..M
      BY <1>2
    <2>2. \A i : i \in half => i \in Places(studies) /\ D(i) \in (M - 6 + 1)..M
      BY DEF Charted
    <2> HIDE DEF D, M, half
    <2> QED  BY <1>1, <2>1, <2>2
  <1>7. Cardinality(half) <= Cardinality(shown)
    <2> HIDE DEF half, shown
    <2>1. IsFiniteSet(shown)
      BY <1>1, <1>6, PlacesAreFinite
    <2> QED  BY <1>6, <2>1, FS_Subset
  <1> HIDE DEF year, half
  <1> QED  BY <1>3, <1>4, <1>5, <1>7

\* A study that is stuck is at one of the first two steps (cycleActivity).
LEMMA StuckAreEarly ==
  ASSUME NEW account, Len(account.studies) \in Nat, NEW today
  PROVE  LET pipeline == BuildPipeline(account.studies) IN
         CycleActivity(account, today, 30).stuck <= pipeline[1].count + pipeline[2].count
  <1> DEFINE studies == account.studies
             n == Len(studies)
             stuck == {i \in Recent(studies, Now(today - 30)) :
                         /\ studies[i].status \in PendingStudyStatuses
                         /\ studies[i].created < Now(today - StuckStudyDays)}
             A == WithStatus(studies, PipelineOrder[1])
             B == WithStatus(studies, PipelineOrder[2])
             pipeline == BuildPipeline(studies)
  <1>1. CycleActivity(account, today, 30).stuck = Cardinality(stuck)
    BY DEF CycleActivity
  <1>2. pipeline[1].count = Cardinality(A) /\ pipeline[2].count = Cardinality(B)
    <2>1. 1 \in 1..Len(PipelineOrder) /\ 2 \in 1..Len(PipelineOrder)
      BY DEF PipelineOrder
    <2> QED  BY <2>1 DEF BuildPipeline
  <1>3. PendingStudyStatuses = {PipelineOrder[1], PipelineOrder[2]}
    BY DEF PendingStudyStatuses, PipelineOrder
  <1>4. stuck \in SUBSET (A \cup B) /\ A \in SUBSET (1..n) /\ B \in SUBSET (1..n)
    BY <1>3 DEF WithStatus, Recent, Places
  <1> HIDE DEF stuck, A, B, pipeline, studies
  <1>5. IsFiniteSet(A) /\ IsFiniteSet(B) /\ Cardinality(A) \in Nat /\ Cardinality(B) \in Nat
    <2>1. n \in Nat
      BY DEF studies
    <2> QED  BY <1>4, <2>1, PlacesAreFinite
  <1>6. /\ IsFiniteSet(A \cup B)
        /\ Cardinality(A \cup B) = Cardinality(A) + Cardinality(B) - Cardinality(A \cap B)
    BY <1>5, FS_Union
  <1>7. Cardinality(A \cap B) \in Nat
    <2>1. IsFiniteSet(A \cap B)
      BY <1>5, FS_Intersection
    <2> QED  BY <2>1, FS_CardinalityType
  <1>8. Cardinality(stuck) <= Cardinality(A \cup B) /\ Cardinality(stuck) \in Nat
    <2>1. IsFiniteSet(stuck) /\ Cardinality(stuck) <= Cardinality(A \cup B)
      BY <1>4, <1>6, FS_Subset
    <2> QED  BY <2>1, FS_CardinalityType
  <1>9. Cardinality(stuck) <= Cardinality(A) + Cardinality(B)
    BY <1>5, <1>6, <1>7, <1>8
  <1> QED  BY <1>1, <1>2, <1>9 DEF pipeline, studies

\* The dashboard and the figures of the customers of every account agree.
LEMMA StudiesAlwaysAgree ==
  ASSUME NEW in, WellFormedAccount(in), NEW company
  PROVE  StudiesAgree(in.account, company, in.today)
  <1> DEFINE account == in.account
             today == in.today
             studies == account.studies
             customers == account.customers
             m == Len(customers)
             board == AdvancedDashboard(account, company, Unset, Unset, today)
             small == BasicDashboard(account, company, today)
             stats == [c \in Places(customers) |-> GetStats(studies, customers[c], today)]
             shown == {i \in Places(studies) :
                         MonthOf(studies[i].date) \in (MonthOf(today) - 11)..MonthOf(today)}
             given(v) == [c \in Places(customers) |-> stats[c].verdicts[v]]
             totals == [c \in Places(customers) |-> stats[c].total]
             steps == [k \in Places(board.pipeline) |-> board.pipeline[k].count]
             months == [k \in Places(board.months) |-> board.months[k].count]
             six == [k \in Places(small.months) |-> small.months[k].count]
             asked == [k \in Places(board.top) |-> board.top[k].requested]
  <1>1. /\ Studies(studies, customers) /\ today \in Int
        /\ Len(account.snapshots) \in Nat /\ m \in Nat /\ Len(studies) \in Nat
    BY DEF WellFormedAccount, Studies, Places
  <1> HIDE DEF account, today
  <1>2. /\ board.verdicts = VerdictCounts(studies, Places(studies))
        /\ board.credit = CreditTotals(studies, Places(studies))
        /\ board.pipeline = BuildPipeline(studies)
        /\ board.months = FillMonths(StudiesByMonth(studies, today, 12), today, 12)
        /\ board.bureauRisk = BureauRisk(m, account.snapshots)
        /\ board.top = TopCustomersByCredit(studies, customers, 10, Unset, Unset)
        /\ small.months = FillMonths(StudiesByMonth(studies, today, 6), today, 6)
    BY BoardShows
  <1> HIDE DEF board, small, studies, customers, shown
  <1>3. Places(customers) = 1..m /\ \A c \in 1..m : stats[c] = GetStats(studies, customers[c], today)
    BY DEF Places
  <1> HIDE DEF stats, m
  <1>4. ASSUME NEW v \in Verdicts PROVE board.verdicts[v] = SumAll(given(v))
    <2> DEFINE t == given(v)
    <2>1. t = [c \in 1..m |-> stats[c].verdicts[v]]
      BY <1>3
    <2>2. t = [c \in 1..m |-> t[c]] /\ \A c \in 1..m : t[c] = stats[c].verdicts[v]
      BY <2>1
    <2> HIDE DEF t
    <2>3. Len(t) = m /\ Places(t) = 1..m
      BY <1>1, <2>2, LengthOf
    <2>4. \A c \in 1..m : t[c] = GetStats(studies, customers[c], today).verdicts[v]
      BY <1>3, <2>2
    <2>5. SumOf(t, 1..m) = VerdictCounts(studies, Places(studies))[v]
      <3>1. VerdictColumn(t, studies, customers, today, v)
        BY <2>3, <2>4 DEF VerdictColumn, m
      <3>2. SumOf(t, 1..Len(customers)) = VerdictCounts(studies, Places(studies))[v]
        BY <1>1, <3>1, VerdictsAddUp
      <3> QED  BY <3>2 DEF m
    <2>6. SumAll(t) = board.verdicts[v]
      BY <1>2, <2>3, <2>5 DEF SumAll
    <2> QED  BY <2>6 DEF t
  <1>5. SumAll(steps) = SumAll(totals)
    <2>1. totals = [c \in 1..m |-> totals[c]] /\ \A c \in 1..m : totals[c] = stats[c].total
      BY <1>3
    <2> HIDE DEF totals
    <2>2. Len(totals) = m /\ Places(totals) = 1..m
      BY <1>1, <2>1, LengthOf
    <2>3. \A c \in 1..m : totals[c] = GetStats(studies, customers[c], today).total
      BY <1>3, <2>1
    <2>4. SumOf(totals, 1..m) = Cardinality(1..Len(studies))
      BY <1>1, <2>2, <2>3, TotalsOfCustomersAddUp DEF m
    <2>5. Places(board.pipeline) = 1..7
      <3>1. Len(PipelineOrder) = 7
        BY DEF PipelineOrder
      <3>2. Len(BuildPipeline(studies)) = 7
        BY <3>1 DEF BuildPipeline
      <3> QED  BY <1>2, <3>2 DEF Places
    <2>6. steps = [k \in 1..7 |-> steps[k]] /\ \A k \in 1..7 : steps[k] = BuildPipeline(studies)[k].count
      BY <1>2, <2>5
    <2> HIDE DEF steps
    <2>7. Len(steps) = 7 /\ Places(steps) = 1..7
      BY <2>6, LengthOf
    <2>8. SumOf(steps, 1..7) = Cardinality(1..Len(studies))
      BY <1>1, <2>6, <2>7, PipelineAddsUp
    <2> QED  BY <2>2, <2>4, <2>7, <2>8 DEF SumAll
  <1>6. m <= 10 => SumAll(asked) = board.credit.requested
    <2> DEFINE size == 10
               top == TopCustomersByCredit(studies, customers, size, Unset, Unset)
    <2>1. size \in Nat \ {0} /\ board.top = top
      BY <1>2
    <2> HIDE DEF size
    <2>2. m <= size => SumAll([k \in Places(top) |-> top[k].requested])
                         = CreditTotals(studies, Places(studies)).requested
      BY <1>1, <2>1, RankingAddsUp DEF m
    <2> QED  BY <1>2, <2>1, <2>2 DEF size
  <1>7. SumAll(board.bureauRisk.byBand) + board.bureauRisk.withoutHistory = m
    BY <1>1, <1>2, BandsAddUp
  <1>8. SumAll(months) = Cardinality(shown) /\ SumAll(six) <= Cardinality(shown)
    <2>1. Len(board.months) = 12 /\ Len(small.months) = 6
      <3>1. \A c : Len(FillMonths(c, today, 12)) = 12 /\ Len(FillMonths(c, today, 6)) = 6
        BY DEF FillMonths
      <3> QED  BY <1>2, <3>1
    <2>2. /\ months = [k \in 1..12 |-> months[k]]
          /\ \A k \in 1..12 : months[k] = board.months[k].count
          /\ six = [k \in 1..6 |-> six[k]]
          /\ \A k \in 1..6 : six[k] = small.months[k].count
      BY <2>1 DEF Places
    <2> HIDE DEF months, six
    <2>3. Len(months) = 12 /\ Places(months) = 1..12 /\ Len(six) = 6 /\ Places(six) = 1..6
      BY <2>2, LengthOf
    <2>4. ChartColumn(months, studies, today, 12) /\ ChartColumn(six, studies, today, 6)
      BY <1>2, <2>2, <2>3 DEF ChartColumn
    <2>5. SumOf(months, 1..12) = Cardinality(shown) /\ SumOf(six, 1..6) <= Cardinality(shown)
      BY <1>1, <2>4, ChartsAgree DEF shown
    <2> QED  BY <2>3, <2>5 DEF SumAll
  <1>9. CycleActivity(account, today, 30).stuck <= board.pipeline[1].count + board.pipeline[2].count
    BY <1>1, <1>2, StuckAreEarly DEF studies
  <1>10. SumAll(six) <= SumAll(months)
    BY <1>8
  <1>11. StudiesAgree(account, company, today)
    <2>1. SumAll(months) = Cardinality(shown)
      BY <1>8
    <2> HIDE DEF months, six, steps, totals, asked, given
    <2> QED  BY <1>4, <1>5, <1>6, <1>7, <1>9, <1>10, <2>1
             DEF StudiesAgree, months, six, steps, totals, asked, given, board, small, stats, shown,
                 studies, customers, m
  <1> QED  BY <1>11 DEF account, today

\* Every view of an account agrees with the others.
THEOREM ViewsAgreeHolds == Spec => []ViewsAgree
  <1>1. ASSUME InputInv PROVE ViewsAgree
    <2>1. SUFFICES ASSUME kind = "account" PROVE ViewsAgree
      BY DEF ViewsAgree
    <2>2. WellFormedAccount(input)
      BY <1>1, <2>1, AccountAssumption DEF InputInv, AccountAssumption
    <2> DEFINE packs == input.account.packs
               companies == CompaniesOf(packs)
    <2>3. WellFormedPacks(packs) /\ input.today \in Int
      BY <2>2 DEF WellFormedAccount
    <2> HIDE DEF packs, companies
    <2>4. \A c \in companies : BalancesAgree(packs, c, companies, input.today)
      BY <2>3, BalancesAlwaysAgree
    <2>5. \A limit \in 1..3 : QueueAddsUp(packs, limit)
      <3>1. \A limit \in 1..3 : limit \in Int
        OBVIOUS
      <3> QED  BY <2>3, <3>1, QueueAlwaysAddsUp
    <2>6. StudiesAgree(input.account, "a", input.today)
      BY <2>2, StudiesAlwaysAgree
    <2> QED  BY <2>4, <2>5, <2>6 DEF ViewsAgree, packs, companies
  <1>2. InputInv => ViewsAgree
    BY <1>1
  <1> QED  BY <1>2, InputKept, PTL
=============================================================================
