------------------------------- MODULE Scoring -------------------------------
(***************************************************************************)
(* The scoring engine: a pure function from the figures of a study, the    *)
(* request, the snapshot of the bureau and the weights of the company to a *)
(* score and a verdict.  Amounts are whole; a ratio is counted in parts of *)
(* 100*W, where W is the weight of the months of the payment behaviour, so *)
(* that all is exact (the code computes in floating point); the score is   *)
(* in hundredths.  Messages, labels and the figures only shown are left    *)
(* out.  Codes are already trimmed, unaccented and of one case.            *)
(***************************************************************************)
EXTENDS Integers, Sequences

None == -1000000   \* null: a value that no figure takes

Dimensions == {"financialHealth", "paymentCapacity", "termCoherence", "capitalExposure",
               "veracity", "centralRisk"}
PersonType == {"naturalPerson", "legalEntity"}
Required == {"paymentCapacity", "centralRisk"}
AppliesTo(d, person) == d # "veracity" \/ person = "legalEntity"
TotalWeight == 100
MinWeight == 5

\* Weights are by dimension, 0 when it is not enabled.
DefaultWeightsPJ == [paymentCapacity |-> 32, veracity |-> 20, centralRisk |-> 15,
                     financialHealth |-> 15, capitalExposure |-> 10, termCoherence |-> 8]
DefaultWeightsPN == [paymentCapacity |-> 38, veracity |-> 0, centralRisk |-> 25,
                     financialHealth |-> 19, capitalExposure |-> 10, termCoherence |-> 8]
DefaultWeightsFor(person) ==
  IF person = "legalEntity" THEN DefaultWeightsPJ ELSE DefaultWeightsPN

Over(f) == f["financialHealth"] + f["paymentCapacity"] + f["termCoherence"]
           + f["capitalExposure"] + f["veracity"] + f["centralRisk"]

ValidWeights(weights, person) ==
  /\ \A d \in Required : AppliesTo(d, person) => weights[d] > 0
  /\ \A d \in Dimensions : weights[d] > 0 => AppliesTo(d, person) /\ weights[d] >= MinWeight
  /\ Over(weights) = TotalWeight

-----------------------------------------------------------------------------
AtLeast(x, y) == IF x < y THEN y ELSE x
AtMost(x, y) == IF x > y THEN y ELSE x
Clamp(v, min, max) == AtMost(AtLeast(v, min), max)
\* Math.round(x / y), for x >= 0 and y > 0.
Rounded(x, y) == (2*x + y) \div (2*y)

(***************************************************************************)
(* The snapshot of the bureau.  A month of the payment behaviour is a      *)
(* code; severities are in twentieths, the weight of a month in sixths.    *)
(***************************************************************************)
Severity == [N |-> 0, m1 |-> 6, m2 |-> 9, m3 |-> 12, m4 |-> 15, m5 |-> 18, m6 |-> 20,
             C |-> 20, D |-> 20]
Window == 6
Recency(vector, i) == LET fromEnd == Len(vector) - i IN
                      IF fromEnd < Window THEN 12 - fromEnd ELSE 6
Known(vector, i) == vector[i] \in DOMAIN Severity
MonthWeight(vector, i) == IF Known(vector, i) THEN Recency(vector, i) ELSE 0
MonthArrears(vector, i) ==
  IF Known(vector, i) THEN Severity[vector[i]] * Recency(vector, i) ELSE 0

\* Sum over a sequence of months.
SumTo(f(_, _), vector) ==
  LET sum[i \in 0..Len(vector)] == IF i = 0 THEN 0 ELSE sum[i-1] + f(vector, i)
  IN  sum[Len(vector)]

\* W, and the arrears index in parts of 20*W; W is 1 when no month is known.
BehaviourWeight(vector) == AtLeast(SumTo(MonthWeight, vector), 1)
Arrears(vector) == SumTo(MonthArrears, vector)

Cancelled == {"cancelada", "cancelado"}
InLiquidation == {"si", "true", "en liquidacion"}
Eliminated(legal) == legal.registration \in Cancelled \/ legal.liquidation \in InLiquidation

\* In percent.
ScoreBand(score) == IF score >= 750 THEN 100 ELSE IF score >= 700 THEN 80
                    ELSE IF score >= 650 THEN 60 ELSE IF score >= 500 THEN 40 ELSE 0
ConditionalCap == 500
HighRiskLevels == {"maximo", "alto"}

MarksHighRisk(central) ==
  \/ central.score # None /\ central.score < ConditionalCap
  \/ central.level \in HighRiskLevels

\* The snapshot of who was not consulted.
NoCentral == [score |-> None, level |-> "", viability |-> "", sector |-> "",
              behaviour |-> <<>>, suggested |-> None, income |-> None, quota |-> None,
              overdue |-> None, debt |-> None]

-----------------------------------------------------------------------------
(***************************************************************************)
(* An input: person, weights, figures (indicators of the chosen source),   *)
(* request (credit and term in days), legal, central, truth and pdf (gross *)
(* figures with their year, or NoFigures) and override.                    *)
(***************************************************************************)
NoFigures == [year |-> None]
HasTruth(in) == in.truth # NoFigures
HasPdf(in) == in.pdf # NoFigures
YearMismatch(in) == HasTruth(in) /\ HasPdf(in) /\ in.truth.year # in.pdf.year

CalculationSource(in) ==
  IF in.override = "datacredito" /\ HasTruth(in) THEN "datacredito"
  ELSE IF in.override = "pdf" /\ HasPdf(in) THEN "pdf"
  ELSE IF HasTruth(in) /\ ~YearMismatch(in) THEN "datacredito"
  ELSE IF HasTruth(in) \/ HasPdf(in) THEN "pdf" ELSE "none"

FinancialsVerified(in) ==
  CalculationSource(in) = "datacredito" /\ HasPdf(in) /\ ~YearMismatch(in)

\* The monthly payment capacity; of a natural person, at most the free part of
\* the income that the bureau reports.
Capacity(in) ==
  LET income == in.central.income * (100 - Clamp(AtLeast(in.central.quota, 0), 0, 100)) IN
  IF in.person = "naturalPerson" /\ in.central.income > 0 /\ income < 100 * in.figures.capacity
  THEN Rounded(income, 100) ELSE in.figures.capacity

\* requestedCreditLine ?? 0
Credit(in) == AtLeast(in.request.credit, 0)
\* The capacity accumulated in the term, in thirtieths.
PayableInTerm(in) == AtLeast(Capacity(in), 0) * (IF in.request.term > 0 THEN in.request.term ELSE 30)

(***************************************************************************)
(* The six evaluations, in percent.                                        *)
(***************************************************************************)
FinancialHealth(in) ==
  IF in.figures.stability >= 100 THEN 100 ELSE IF in.figures.stability >= 66 THEN 50 ELSE 0

PaymentCapacity(in) ==
  LET credit == 30 * Credit(in) IN
  IF Capacity(in) <= 0 \/ credit = 0 THEN 0
  ELSE IF 10 * PayableInTerm(in) >= 12 * credit THEN 100
  ELSE IF PayableInTerm(in) >= credit THEN 60 ELSE 0

TermCoherence(in) ==
  LET term == AtLeast(in.request.term, 0)
      collection == IF in.figures.receivable > 0 THEN in.figures.receivable ELSE term
  IN  IF term >= collection THEN 100 ELSE IF 10 * term >= 7 * collection THEN 50 ELSE 0

CapitalExposure(in) ==
  LET cycle == AtLeast(in.figures.receivable + in.figures.inventory
                       - AtLeast(in.figures.suppliers, 0), 30)
      healthy == Capacity(in) * cycle   \* in thirtieths
  IN  IF Capacity(in) <= 0 THEN 0
      ELSE IF 30 * Credit(in) <= healthy THEN 100
      ELSE IF 60 * Credit(in) <= 3 * healthy THEN 60 ELSE 0

\* The fields compared; a field is None when a source does not have it.
Compared == {"revenue", "assets", "liabilities", "equity", "income"}
DiffersBy(in, percent) ==
  \E f \in Compared :
    /\ in.truth[f] \notin {None, 0} /\ in.pdf[f] # None
    /\ 100 * (AtLeast(in.pdf[f] - in.truth[f], in.truth[f] - in.pdf[f]))
         > percent * AtLeast(in.truth[f], -in.truth[f])

Comparable(in) == HasTruth(in) /\ HasPdf(in) /\ ~YearMismatch(in)
Veracity(in) ==
  IF ~Comparable(in) \/ DiffersBy(in, 25) THEN 0 ELSE IF DiffersBy(in, 10) THEN 50 ELSE 100

\* In parts of 100*W.
CentralRisk(in) ==
  LET central == in.central
      rating == IF central.level # "" THEN central.level
                ELSE IF central.viability = "alta" THEN "bajo"
                ELSE IF central.viability = "baja" THEN "alto" ELSE "medio"
      base == IF central.score # None THEN ScoreBand(central.score)
              ELSE IF rating = "bajo" THEN 90 ELSE IF rating = "alto" THEN 10 ELSE 50
      sector == IF central.sector \in {"alto", "4", "5"} THEN 15 ELSE 0
      w == BehaviourWeight(central.behaviour)
  IN  Clamp((base - sector) * w - 2 * Arrears(central.behaviour), 0, 100 * w)

\* Which dimensions can be evaluated: without contrast a natural person has no
\* veracity (a company fails it), without data there is no risk of the bureau.
Evaluable(in, d) ==
  CASE d = "veracity" -> Comparable(in) \/ in.person = "legalEntity"
    [] d = "centralRisk" -> in.central.score # None \/ in.central.level # ""
                            \/ in.central.viability # ""
    [] OTHER -> TRUE

\* By dimension, in parts of 100*W.
Raw(in) ==
  LET w == BehaviourWeight(in.central.behaviour) IN
  [financialHealth |-> FinancialHealth(in) * w, paymentCapacity |-> PaymentCapacity(in) * w,
   termCoherence |-> TermCoherence(in) * w, capitalExposure |-> CapitalExposure(in) * w,
   veracity |-> Veracity(in) * w, centralRisk |-> CentralRisk(in)]

-----------------------------------------------------------------------------
(***************************************************************************)
(* The score: the weight of what cannot be evaluated is shared out among   *)
(* the rest in proportion to their weights.                                *)
(***************************************************************************)
EvaluableWeights(in) ==
  [d \in Dimensions |-> IF Evaluable(in, d) THEN in.weights[d] ELSE 0]

\* Mutant: the weight of what cannot be evaluated is lost.
LostWeight(in) == Over(in.weights)

\* What the effective weights are scaled by, once.
ScaledBy(in) == Over(EvaluableWeights(in))

\* What each dimension contributes, in hundredths, times Denominator.
Denominator(in) == BehaviourWeight(in.central.behaviour) * ScaledBy(in)
Parts(in) ==
  [d \in Dimensions |-> Raw(in)[d] * EvaluableWeights(in)[d] * Over(in.weights)]

Contribution(in, d) == IF ScaledBy(in) = 0 THEN 0 ELSE Rounded(Parts(in)[d], Denominator(in))
TotalScore(in) == IF ScaledBy(in) = 0 THEN 0 ELSE Rounded(Over(Parts(in)), Denominator(in))

(***************************************************************************)
(* The verdict and the line of credit.                                     *)
(***************************************************************************)
Threshold == [approved |-> 7500, conditional |-> 4000]

\* Mutant: the two limits set by the bureau are not applied.
NeverCapped(in) == FALSE

CappedToConditional(in) == MarksHighRisk(in.central) \/ in.central.suggested = 0

Status(in) ==
  IF Eliminated(in.legal) \/ Capacity(in) <= 0 THEN "rejected"
  ELSE IF TotalScore(in) >= Threshold.approved
       THEN IF CappedToConditional(in) THEN "conditional" ELSE "approved"
  ELSE IF TotalScore(in) >= Threshold.conditional THEN "conditional" ELSE "rejected"

ApprovedCredit(in) ==
  IF in.request.credit = None THEN None
  ELSE IF 30 * in.request.credit > PayableInTerm(in)
       THEN Rounded(PayableInTerm(in), 30) ELSE in.request.credit

\* Red flags, by category and severity.
Flags(in) ==
  LET c == in.central
      w == BehaviourWeight(c.behaviour)
      flag(category, severity, when) == IF when THEN {<<category, severity>>} ELSE {}
      high(category, value, danger, warning) ==
        flag(category, "danger", value >= danger)
        \cup flag(category, "warning", value >= warning /\ value < danger)
  IN  flag("legal_status", "danger", Eliminated(in.legal))
      \cup high("payment_behavior", Arrears(c.behaviour), 10 * w, 4 * w)
      \cup flag("suggested_amount", "danger", c.suggested = 0)
      \cup flag("indebtedness", "danger", c.overdue > 0)
      \cup high("indebtedness", c.debt, 80, 60)
      \cup flag("score", "warning", c.score # None /\ c.score < ConditionalCap)

\* Alerts about the amount, by severity: more than 3 times, or 1.5 times, what
\* the bureau suggests; figures that imply more than the income reported.
AmountAlerts(in) ==
  LET s == in.central.suggested  asked == Credit(in) IN
  (IF Capacity(in) > 0 /\ s > 0 /\ asked > 3 * s THEN {"far above the suggested"}
   ELSE IF Capacity(in) > 0 /\ s > 0 /\ 2 * asked > 3 * s THEN {"above the suggested"} ELSE {})
  \cup (IF Capacity(in) > 0 /\ in.central.income > 0
           /\ in.figures.capacity > in.central.income
        THEN {"more than the income"} ELSE {})

\* What the result declares of the figures it was computed with.
SourceNotice(in) ==
  CASE CalculationSource(in) = "pdf" /\ YearMismatch(in) -> "year not reported yet"
    [] CalculationSource(in) = "pdf" /\ ~YearMismatch(in) ->
         IF HasTruth(in) THEN "chosen over the bureau" ELSE "nothing at the bureau"
    [] CalculationSource(in) = "datacredito" /\ ~HasPdf(in) -> "no contrast"
    [] CalculationSource(in) = "datacredito" /\ YearMismatch(in) -> "chosen, another year"
    [] OTHER -> ""

\* The figures shown: the one payment, and what the capacity gathers for it.
KeyFigures(in) ==
  [monthly |-> Capacity(in), payment |-> Credit(in), inTerm |-> Rounded(PayableInTerm(in), 30),
   coverage |-> IF Credit(in) > 0 THEN Rounded(100 * PayableInTerm(in), 30 * Credit(in)) ELSE None,
   cycle |-> in.figures.receivable + in.figures.inventory - AtLeast(in.figures.suppliers, 0)]

Score(in) ==
  [total |-> TotalScore(in), status |-> Status(in), amount |-> ApprovedCredit(in),
   source |-> CalculationSource(in), verified |-> FinancialsVerified(in),
   notice |-> SourceNotice(in), keyFigures |-> KeyFigures(in),
   flags |-> Flags(in), alerts |-> AmountAlerts(in)]

-----------------------------------------------------------------------------
(***************************************************************************)
(* Properties of every input.                                              *)
(***************************************************************************)

\* Sharing out the weight of what cannot be evaluated neither punishes nor
\* rewards: the score lies between the worst and the best of the dimensions
\* that were evaluated, on the scale of 0 to 100, up to its rounding.
BetweenItsParts(in) ==
  LET counted == {d \in Dimensions : EvaluableWeights(in)[d] > 0}
      w == BehaviourWeight(in.central.behaviour)
  IN  counted # {} =>
        /\ \E d \in counted : 2 * w * TotalScore(in) <= 200 * Raw(in)[d] + w
        /\ \E d \in counted : 2 * w * TotalScore(in) + w >= 200 * Raw(in)[d]

\* What the bureau says bounds the verdict whatever the weights and the
\* figures: no approval of who it marks in high risk or suggests nothing for,
\* nor of a natural person whose income is all committed.
BureauBounds(in) ==
  /\ MarksHighRisk(in.central) \/ in.central.suggested = 0 => Status(in) # "approved"
  /\ in.person = "naturalPerson" /\ in.central.income > 0 /\ in.central.quota >= 100
       => Status(in) = "rejected" /\ ApprovedCredit(in) <= 0
=============================================================================
