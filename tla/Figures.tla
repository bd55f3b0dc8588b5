------------------------------- MODULE Figures -------------------------------
(***************************************************************************)
(* From the financial statements of a customer to the indicators and       *)
(* ratios of a study.  The statements come as the periods that the model   *)
(* reads in a PDF or as the matrix, account by year, of the bureau; both   *)
(* end as periods of the same fields.  Amounts are whole, a factor is in   *)
(* percent, a percentage and a quotient are rounded as the code rounds     *)
(* them and counted in tenths and hundredths.                              *)
(***************************************************************************)
EXTENDS Integers, Sequences, SequencesExt

Null == -1000000   \* null: no figure takes it
OrElse(x, y) == IF x = Null THEN y ELSE x
OrZero(x) == OrElse(x, 0)
Magnitude(x) == IF x < 0 THEN -x ELSE x
\* Math.round(x / y), for y # 0.
Round(x, y) == IF y > 0 THEN (2*x + y) \div (2*y) ELSE (2*(-x) - y) \div (2*(-y))

\* The fields of a period that the indicators read.
PeriodFigure ==
  {"totalCurrentAssets", "totalCurrentLiabilities", "totalAssets", "retainedEarnings",
   "grossProfit", "administrativeExpenses", "sellingExpenses", "equity", "totalLiabilities",
   "ordinaryActivityRevenue", "costOfSales", "depreciation", "amortization",
   "shortTermFinancialLiabilities", "longTermFinancialLiabilities", "financialExpenses",
   "netIncome", "accountsReceivable", "inventories", "suppliers"}
\* Costs and expenses: a statement shows them negative because they are subtracted.
ExpenseMagnitude ==
  {"costOfSales", "administrativeExpenses", "sellingExpenses", "depreciation", "amortization",
   "financialExpenses"}

-----------------------------------------------------------------------------
(***************************************************************************)
(* The periods of a PDF.  An extracted period has a year, or else a date   *)
(* with a year, or else the year that the analyst gives.  A date that is   *)
(* no date (the year NaN) is left out: it passes for a year here, and the  *)
(* column of the year, an integer, does not take it.                       *)
(***************************************************************************)
FiscalYear(p, fallback) == OrElse(OrElse(p.fiscalYear, p.dateYear), fallback)

NormalizeExtractedPeriod(p, fallback) ==
  [fiscalYear |-> FiscalYear(p, fallback),
   figures |-> [f \in PeriodFigure |-> IF f \in ExpenseMagnitude /\ p.figures[f] # Null
                                       THEN Magnitude(p.figures[f]) ELSE p.figures[f]]]

\* Array.sort is stable: of the same year, the first read is the first.
NewestFirst(periods) ==
  LET place == 1..Len(periods)
      before(i, j) == \/ periods[i].fiscalYear > periods[j].fiscalYear
                      \/ periods[i].fiscalYear = periods[j].fiscalYear /\ i < j
  IN  [k \in place |->
         periods[CHOOSE i \in place : Cardinality({j \in place : before(j, i)}) = k - 1]]

\* A period without a year is an error, and so is a PDF without periods.
Readable(extracted, fallback) ==
  extracted # <<>> /\ \A i \in 1..Len(extracted) : FiscalYear(extracted[i], fallback) # Null
PdfPeriods(extracted, fallback) ==
  NewestFirst([i \in 1..Len(extracted) |-> NormalizeExtractedPeriod(extracted[i], fallback)])

-----------------------------------------------------------------------------
(***************************************************************************)
(* The periods of the bureau.  A collection arrives as an array, as its    *)
(* only element, or as nothing, and the block of details may be wrapped.   *)
(* A column of the matrix is a pair of a year and a source.                *)
(***************************************************************************)
AsArray(value) ==
  CASE value.form = "array" -> value.items
    [] value.form = "object" -> <<value.item>>
    [] OTHER -> <<>>

ExtractGroups(detail) == AsArray(IF detail.form = "wrapped" THEN detail.data ELSE detail)

FigureCategories == {"activos", "pasivos", "patrimonio", "estado de resultados"}

\* The columns, in order; an account is already the field it maps to, or a name
\* the model has no field for.  The years are those of the first group; a value
\* that is not a number reads as null.
PivotByColumn(statements) ==
  LET groups == ExtractGroups(statements.detail)
      figureGroups == SelectSeq(groups, LAMBDA g : g.category \in FigureCategories)
      sources == SelectSeq(groups, LAMBDA g : g.category = "fuentes")
      years == IF figureGroups = <<>> THEN <<>> ELSE AsArray(figureGroups[1].years)
      accounts == FlattenSeq([k \in 1..Len(figureGroups) |-> AsArray(figureGroups[k].accounts)])
      column(i) ==
        [fiscalYear |-> years[i],
         source |-> IF sources = <<>> \/ i > Len(sources[1].sources) THEN ""
                    ELSE sources[1].sources[i],
         figures |-> [f \in PeriodFigure |->
                        LET of == SelectSeq(accounts, LAMBDA a : a.field = f
                                                                 /\ i <= Len(a.values))
                        IN  IF of = <<>> THEN Null ELSE of[Len(of)].values[i]]]
  IN  [i \in 1..Len(years) |-> column(i)]

HasRealFigures(column) == \E f \in PeriodFigure : column.figures[f] \notin {Null, 0}

PeriodsLimit == 2

\* The two latest columns with figures, when they are of one source.
MapDataCreditoFinancials(statements) ==
  LET real == NewestFirst(SelectSeq(PivotByColumn(statements), HasRealFigures))
      recent == SubSeq(real, 1, PeriodsLimit)
  IN  IF ~statements.informed \/ Len(real) < PeriodsLimit
         \/ \E i \in 1..PeriodsLimit : recent[i].source # recent[1].source
      THEN <<>> ELSE recent

-----------------------------------------------------------------------------
(***************************************************************************)
(* The pair of periods: the current one, and the opening balances.         *)
(***************************************************************************)
\* Mutant: the year before is the second of the list.
SecondPeriod(periods) == IF Len(periods) < 2 THEN <<>> ELSE <<periods[2]>>

\* The first of the list with an earlier year, if any.
SelectPriorPeriod(periods) ==
  LET i == SelectInSeq(periods, LAMBDA p : p.fiscalYear < periods[1].fiscalYear)
  IN  IF i = 0 THEN <<>> ELSE <<periods[i]>>

IndicatorFigures(periods) ==
  LET prior == SelectPriorPeriod(periods) IN
  [current |-> periods[1].figures,
   opening |-> IF prior = <<>> THEN periods[1].figures ELSE prior[1].figures,
   prior |-> IF prior = <<>> THEN [f \in PeriodFigure |-> Null] ELSE prior[1].figures]

-----------------------------------------------------------------------------
(***************************************************************************)
(* The indicators.                                                         *)
(***************************************************************************)
GetMonthsFromPeriod(label) == IF label \in 1..12 THEN label ELSE 12

Sign(x) == IF x > 0 THEN 1 ELSE IF x < 0 THEN -1 ELSE 0

\* The Z-score is above z tenths; the total of assets is positive.  A company
\* that owes 0 has an infinite quotient, or none at all if it has no equity
\* either: then no comparison holds.
ScoreAbove(f, z) ==
  LET assets == OrElse(f["totalAssets"], 1)
      owed == OrElse(f["totalLiabilities"], 1)
      \* The operating profit as the code adds it up.
      operating == OrZero(f["grossProfit"]) + OrZero(f["administrativeExpenses"])
                   + OrZero(f["sellingExpenses"])
      perAssets == 12 * (OrZero(f["totalCurrentAssets"]) - OrZero(f["totalCurrentLiabilities"]))
                   + 14 * OrZero(f["retainedEarnings"]) + 33 * operating
                   + 10 * OrZero(f["ordinaryActivityRevenue"])
  IN  IF owed = 0 THEN OrZero(f["equity"]) > 0
      ELSE Sign(owed) * (perAssets * owed + 6 * OrZero(f["equity"]) * assets)
             > Sign(owed) * z * assets * owed

StabilityFactor(f) == IF ScoreAbove(f, 30) THEN 100 ELSE IF ScoreAbove(f, 18) THEN 66 ELSE 33

Ebitda(f) ==
  OrZero(f["ordinaryActivityRevenue"]) - OrZero(f["costOfSales"])
  - OrZero(f["administrativeExpenses"]) - OrZero(f["sellingExpenses"])
  + OrZero(f["depreciation"]) + OrZero(f["amortization"])

CurrentDebtService(f) ==
  OrZero(f["shortTermFinancialLiabilities"]) + OrZero(f["financialExpenses"])

\* In hundredths.
AnnualPaymentCapacity(f) == Ebitda(f) * StabilityFactor(f) - 100 * CurrentDebtService(f)
MonthlyPaymentCapacity(f, label) ==
  Round(AnnualPaymentCapacity(f), 100 * GetMonthsFromPeriod(label))

\* Days of a year's flow that the mean of two balances is worth; of a flow of 0
\* the code gives a quotient that is not finite.
DaysOf(balances, flow) == IF flow = 0 THEN Null ELSE Round(balances * 365, 2 * flow)

Turnovers(pair) ==
  LET c == pair.current  o == pair.opening
      both(f) == OrZero(o[f]) + OrZero(c[f])
      inventoryDelta == IF o["inventories"] = Null \/ c["inventories"] = Null THEN 0
                        ELSE c["inventories"] - o["inventories"]
      purchases == OrZero(c["costOfSales"]) + inventoryDelta
                   + OrZero(c["administrativeExpenses"]) + OrZero(c["sellingExpenses"])
  IN  [accountsReceivableTurnover |->
         DaysOf(both("accountsReceivable"), OrElse(c["ordinaryActivityRevenue"], 1)),
       inventoryTurnover |-> DaysOf(both("inventories"), OrElse(c["costOfSales"], 1)),
       paymentTimeSuppliers |-> DaysOf(both("suppliers"), purchases)]

-----------------------------------------------------------------------------
(***************************************************************************)
(* The ratios shown to the analyst: null when the base is 0 or absent.     *)
(***************************************************************************)
SafeDiv(n, d, scale) == IF OrZero(d) = 0 THEN Null ELSE Round(scale * OrZero(n), d)
Quotient(n, d) == SafeDiv(n, d, 100)
MulPct(n, d) == SafeDiv(n, d, 1000)
Variation(current, prior) ==
  IF prior \in {Null, 0} THEN Null ELSE Round(1000 * (OrZero(current) - prior), Magnitude(prior))

OperatingIncome(f) ==
  OrZero(f["grossProfit"]) - OrZero(f["administrativeExpenses"]) - OrZero(f["sellingExpenses"])

Ratios(pair) ==
  LET c == pair.current  p == pair.prior
      revenue == c["ordinaryActivityRevenue"]
      debt == OrZero(c["shortTermFinancialLiabilities"])
              + OrZero(c["longTermFinancialLiabilities"])
      varies(f) == Variation(c[f], p[f])
  IN  [workingCapital |-> OrZero(c["totalCurrentAssets"]) - OrZero(c["totalCurrentLiabilities"]),
       variations |-> [f \in {"totalAssets", "totalLiabilities", "equity",
                              "ordinaryActivityRevenue"} |-> varies(f)],
       quotients |-> <<Quotient(debt, OperatingIncome(c)), Quotient(debt, revenue),
                       Quotient(debt, c["equity"]), Quotient(c["totalLiabilities"], revenue),
                       Quotient(c["totalLiabilities"], c["equity"]),
                       Quotient(c["totalCurrentAssets"], c["totalCurrentLiabilities"]),
                       Quotient(OrZero(c["totalCurrentAssets"]) - OrZero(c["inventories"]),
                                c["totalCurrentLiabilities"])>>,
       margins |-> <<MulPct(c["grossProfit"], revenue), MulPct(Ebitda(c), revenue),
                     MulPct(c["netIncome"], revenue), MulPct(OperatingIncome(c), revenue),
                     MulPct(c["netIncome"], c["totalAssets"]),
                     MulPct(c["netIncome"], c["equity"])>>]

ComputeFinancialIndicators(periods, label) ==
  LET pair == IndicatorFigures(periods) IN
  [stabilityFactor |-> StabilityFactor(pair.current), ebitda |-> Ebitda(pair.current),
   annual |-> AnnualPaymentCapacity(pair.current),
   monthly |-> MonthlyPaymentCapacity(pair.current, label),
   turnovers |-> Turnovers(pair), ratios |-> Ratios(pair)]

\* Both analyses of a study; the bureau's only if it has usable statements.
StudyIndicators(in) ==
  LET pdf == PdfPeriods(in.extracted, in.fallback)
      bureau == MapDataCreditoFinancials(in.statements)
      of(periods) == IF periods = <<>> THEN <<>>
                     ELSE <<ComputeFinancialIndicators(periods, in.label)>>
  IN  IF Readable(in.extracted, in.fallback) THEN [pdf |-> of(pdf), bureau |-> of(bureau)]
      ELSE [pdf |-> <<>>, bureau |-> <<>>]

-----------------------------------------------------------------------------
(***************************************************************************)
(* Properties of every input.                                              *)
(***************************************************************************)

\* The opening balances and the variations are those of the last year before
\* the current one that was read, though the same year may come twice and the
\* years in any order; of no year at all when there is none before.
ComparesWithYearBefore(periods) ==
  LET years == {periods[i].fiscalYear : i \in 1..Len(periods)}
      before == {y \in years : \E z \in years : y < z}
      prior == SelectPriorPeriod(NewestFirst(periods))
  IN  IF before = {} THEN prior = <<>>
      ELSE prior # <<>> /\ prior[1].fiscalYear \in before
           /\ \A y \in before : y <= prior[1].fiscalYear

\* Spending more, all else equal, never makes a customer more stable: what is
\* spent is subtracted from the operating profit.
SpendingNeverStabilises(f, more) ==
  StabilityFactor([f EXCEPT !["administrativeExpenses"] = OrZero(@) + more])
    <= StabilityFactor(f)
=============================================================================
