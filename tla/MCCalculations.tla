--------------------------- MODULE MCCalculations ---------------------------
(***************************************************************************)
(* Bounded inputs for the pure modules.                                    *)
(***************************************************************************)
EXTENDS Calculations

-----------------------------------------------------------------------------
ClearLegal == [registration |-> "activa", liquidation |-> "no"]
Figures(year, revenue, assets, income) ==
  [year |-> year, revenue |-> revenue, assets |-> assets, liabilities |-> None, equity |-> 40,
   income |-> income]
TypicalIndicators == [capacity |-> 10, stability |-> 100, receivable |-> 45, inventory |-> 20,
                      suppliers |-> 30]
Study == [person |-> "legalEntity", weights |-> DefaultWeightsPJ,
          figures |-> TypicalIndicators, request |-> [credit |-> 8, term |-> 60],
          legal |-> ClearLegal, central |-> NoCentral,
          truth |-> Figures(2025, 100, 80, 5), pdf |-> Figures(2025, 100, 80, 5),
          override |-> "none"]
LenientWeights == [DefaultWeightsPJ EXCEPT !["paymentCapacity"] = 5, !["veracity"] = 47]

\* The snapshot of the bureau and the legal status.
BureauInputs ==
  {[Study EXCEPT !.weights = w, !.legal = legal,
      !.central = [NoCentral EXCEPT !.score = score, !.level = level, !.viability = viability,
                                    !.sector = sector, !.behaviour = behaviour,
                                    !.suggested = suggested, !.overdue = suggested,
                                    !.debt = debt]] :
     w \in {DefaultWeightsPJ, LenientWeights},
     legal \in {ClearLegal, [ClearLegal EXCEPT !.liquidation = "si"]},
     score \in {None, 499, 500, 700, 750}, level \in {"", "alto", "bajo"},
     viability \in {"", "alta"}, sector \in {"", "4"},
     behaviour \in {<<>>, <<"m6", "N">>, <<"N", "m6">>, <<"m3", "-">>, <<"-", "C">>},
     suggested \in {None, 0, 2}, debt \in {None, 60, 80}}

\* Capacity, income and request.
RequestInputs ==
  {[Study EXCEPT !.person = person, !.weights = DefaultWeightsFor(person),
      !.figures.capacity = capacity, !.request = [credit |-> credit, term |-> term],
      !.central = [NoCentral EXCEPT !.score = score, !.income = income, !.quota = quota]] :
     person \in PersonType, capacity \in {-1, 0, 1, 3, 10}, credit \in {None, 0, 1, 7, 40},
     term \in {None, 0, 15, 45, 90}, score \in {None, 760}, income \in {None, 0, 1, 4},
     quota \in {None, 50, 75, 100, 120}}

\* Figures of the two sources and indicators.
FigureInputs ==
  {[Study EXCEPT !.person = person, !.weights = DefaultWeightsFor(person), !.pdf = pdf,
      !.truth = truth, !.override = override,
      !.figures = [TypicalIndicators EXCEPT !.stability = stability, !.receivable = receivable,
                                            !.suppliers = suppliers],
      !.request = [credit |-> credit, term |-> 30]] :
     person \in PersonType, stability \in {33, 66, 100}, receivable \in {0, 40, 90},
     suppliers \in {-5, 30}, credit \in {5, 12, 20, 40},
     truth \in {NoFigures, Figures(2024, 100, 80, 5), Figures(2025, 100, 80, -4)},
     pdf \in {NoFigures, Figures(2025, 100, 80, -4), Figures(2025, 115, 80, None),
              Figures(2025, 100, 80, 4)},
     override \in {"none", "pdf", "datacredito"}}

\* Reports of the bureau, with the analyses of the study they are read in.
Analysis(source, year, capacity) ==
  [source |-> source, periods |-> <<Figures(year, 100, 80, 5)>>,
   indicators |-> [TypicalIndicators EXCEPT !.capacity = capacity]]
Report(doc, score, companyScore) ==
  [EmptyReport EXCEPT !.informed = TRUE, !.typed = 1, !.number = 2, !.doc = doc,
                      !.score = score, !.companyScore = companyScore, !.nameParts = {"name"},
                      !.demographics = {"age"}, !.overdue = 0]
Legal(registration, liquidation) ==
  {[registration |-> registration, liquidation |-> liquidation]}
ReportInput(r, analyses, requested, locked, config) ==
  [r |-> r, requested |-> requested,
   study |-> StudyOf(r, analyses, config, [credit |-> 8, term |-> 60], locked)]
\* What the report says of the company.
ReadInputs ==
  {ReportInput([Report(doc, scores[1], scores[2]) EXCEPT
                  !.level = level, !.suggested = suggested, !.overdue = overdue,
                  !.behaviour = behaviour, !.profile = profile, !.links = links,
                  !.texts = <<"", "text">>],
               <<Analysis("pdf", 2025, 10), Analysis("datacredito", 2025, 10)>>,
               "none", FALSE, <<>>) :
     doc \in [kind : {"nit", "cc", "pje"}, form : {"code", "initials", "label"}],
     scores \in {<<499, 760>>, <<760, 499>>, <<760, None>>, <<None, 800>>},
     level \in {"", "2", "5"}, suggested \in {None, 0, 5}, overdue \in {0, 1},
     behaviour \in {<<>>, <<"N", "m3">>, <<"-", "C">>},
     profile \in {{}, Legal("activa", "no"), Legal("cancelada", ""), Legal("", "si")},
     links \in {<<>>, <<[alerts |-> 0], [alerts |-> 2]>>}}
\* Which analyses there are and which of them is asked for.
SourceInputs ==
  {ReportInput(Report([kind |-> id, form |-> "code"], 760, 760),
               pdf \o bureau, requested, locked, config) :
     id \in {"nit", "cc"}, requested \in {"none", "pdf", "datacredito"}, locked \in BOOLEAN,
     pdf \in {<<>>} \cup {<<Analysis("pdf", y, c)>> : y \in {2024, 2025}, c \in {None, 4}},
     bureau \in {<<>>} \cup {<<Analysis("datacredito", y, c)>> : y \in {2024, 2025}, c \in {1, 9}},
     config \in {<<>>, <<[d \in {"paymentCapacity", "centralRisk"} |-> 50]>>}}
MCReportInputs == {ReadInputs, SourceInputs}

\* Statements of a PDF: typical figures with a few of them varied.
Typical ==
  [f \in PeriodFigure |->
     CASE f = "totalAssets" -> 100 [] f = "totalLiabilities" -> 50 [] f = "equity" -> 50
       [] f = "ordinaryActivityRevenue" -> 120 [] f = "costOfSales" -> -60
       [] f = "grossProfit" -> 60 [] f = "inventories" -> 20 [] f = "suppliers" -> 15
       [] f = "administrativeExpenses" -> 10 [] f = "accountsReceivable" -> 30
       [] f = "amortization" -> Null [] OTHER -> 5]
Extracted(year, figures) == [fiscalYear |-> year, dateYear |-> Null, figures |-> figures]
Varied(revenue, owed, inventories) ==
  [Typical EXCEPT !["ordinaryActivityRevenue"] = revenue, !["totalLiabilities"] = owed,
                  !["inventories"] = inventories]
Array(items) == [form |-> "array", items |-> items]
NoStatements == [informed |-> FALSE, detail |-> [form |-> "none"]]
Account(field, values) == [field |-> field, values |-> values]
\* Columns 2023 to 2025 from one or two sources, the latest perhaps empty.
Statements(form, sources, years, revenue) ==
  LET balance == [category |-> "activos", years |-> Array(years),
                  accounts |-> [form |-> "object",
                                item |-> Account("totalAssets", <<80, 90, revenue>>)]]
      results == [category |-> "estado de resultados", years |-> Array(years),
                  accounts |-> Array(<<Account("ordinaryActivityRevenue", <<60, 70, revenue>>),
                                       Account("other", <<1, 1, 1>>)>>)]
      groups == <<[category |-> "fuentes", sources |-> sources], balance, results,
                  [category |-> "indicadores", accounts |-> [form |-> "none"]]>>
  IN  [informed |-> TRUE,
       detail |-> IF form = "wrapped" THEN [form |-> "wrapped", data |-> Array(groups)]
                  ELSE Array(groups)]

PdfInputs ==
  [extracted : {<<>>} \cup UNION {[1..n -> {Extracted(y, Typical) : y \in {2023, 2024, 2025, Null}}]
                                 : n \in 1..3}
               \cup {<<Extracted(2025, Varied(r, l, 10)), Extracted(2024, Varied(100, 40, i))>> :
                       r \in {0, 90, 150}, l \in {0, 30, 200}, i \in {Null, 0, 70}},
   fallback : {Null, 2025}, label : {1, 12, 20}, statements : {NoStatements}]

MCStatementInputs ==
  PdfInputs \cup
  [extracted : {<<Extracted(2025, Typical)>>}, fallback : {Null}, label : {12},
   statements : {Statements(form, sources, years, revenue) :
                   form \in {"wrapped", "plain"},
                   sources \in {<<"s", "s", "s">>, <<"s", "s", "c">>, <<>>},
                   years \in {<<2023, 2024, 2025>>, <<2023, 2024, 2024>>},
                   revenue \in {0, Null, 95}}]

\* Offerings with the tax of their charge.
MCPriceInputs ==
  [offering : [quantity : {1, 2, 10}, unitPrice : {0, 400, 999, 49999, 50000},
               discount : [type : {"percentage", "none"}, value : {0, 1, 5, 213, 999, 1000}]
                          \cup [type : {"fixed"}, value : {0, 5, 4010, 10000, 99980}]],
   percent : {0, 15, 100}, rate : {0, 50, 190}, included : BOOLEAN]

\* Menus: the linear curve, and other curves from the price to the floor.
MCMenuInputs ==
  [sizes : {{1}, {1, 2, 10}, {2, 3, 4}}, p0 : {1500, 5000}, floor : {400, 1400, 3000},
   start : {0, 2, 10}, variableCost : {NoCost, 3500}, fixedCosts : {NoCost, 90000},
   charm : BOOLEAN, technique : {"linear"}, curve : {<<>>}]
  \cup [sizes : {{}}, p0 : {1500}, floor : {900, 1000}, start : {0, 10},
        variableCost : {NoCost, 950}, fixedCosts : {NoCost}, charm : BOOLEAN,
        technique : {"power", "exponential"},
        curve : {[q \in 1..200 |-> IF q > 100 THEN 1000 ELSE IF q > 10 THEN c ELSE d] :
                   c \in {1000, 1021, 1499}, d \in {1499, 1500}}]

\* Amounts in millions and the rest.
MCAmountInputs ==
  LET edges == {0, 1, 21, 29, 30, 31, 99, 100, 101, 121, 200, 999} IN
  [millions : {x + 1000 * y : x \in edges, y \in {0, 1, 21, 100}},
   rest : {x + 1000 * y : x \in edges, y \in edges}]

\* Accounts of two companies: their packs; and the studies of one, in a
\* calendar whose month 20 is the August of its second year.
PackOf(company, status, consumed, end) ==
  [id |-> ToString(<<company, end>>), company |-> company, status |-> status, purchased |-> 2,
   consumed |-> consumed, end |-> end, paid |-> 20, paidAt |-> end, base |-> 17, tax |-> 3,
   unit |-> 12, sent |-> FALSE]
PackStates ==
  {<<"active", 0>>, <<"active", 1>>, <<"active", 2>>, <<"depleted", 2>>, <<"pending_payment", 1>>}
AccountPacks(today) ==
  {<<PackOf("a", s[1], s[2], today + 60), PackOf("a", t[1], t[2], today),
     [PackOf("a", u[1], u[2], today - 1) EXCEPT !.sent = sent],
     PackOf("a", "active", 1, today + 5),
     PackOf("b", "active", consumed, today + 1)>> :
       s \in PackStates, t \in PackStates, u \in PackStates, sent \in BOOLEAN,
       consumed \in {0, 1}}
StudyRow(customer, status, verdict, score, date) ==
  [customer |-> customer, status |-> status, verdict |-> verdict, score |-> score,
   requested |-> 10 * score + 10, recommended |-> IF verdict = "none" THEN Unset ELSE 10 * score,
   date |-> date, created |-> Now(date), resolved |-> IF verdict = "none" THEN Unset ELSE Now(date + 2)]
AccountStudies(today) ==
  {<<StudyRow("x", "studyCompleted", v, 6, today - ages[1]), StudyRow("y", "confirmed", w, 8, today - ages[2]),
     StudyRow("x", "pendingStudyAnalysis", "none", Unset, today - ages[3]),
     StudyRow("x", "closed", "approved", 7, today - ages[4])>> :
       v, w \in {"approved", "conditional", "rejected"},
       ages \in {<<0, 31, 1, 366>>, <<150, 28, 4, 184>>, <<365, 2, 10, 31>>, <<330, 340, 29, 59>>}}
AccountOf(packs, studies, snapshots) ==
  [packs |-> packs, studies |-> studies, customers |-> <<"x", "y", "z">>,
   snapshots |-> snapshots, consultations |-> <<>>, analyses |-> <<>>]
Snapshot(customer, score, overdue, at) ==
  [customer |-> customer, score |-> score, overdue |-> overdue, at |-> at]
LastDays == {FirstDay(20) - 1, FirstDay(21) - 1, FirstDay(16) - 1, FirstDay(15), FirstDay(27) - 1}
MCAccountInputs ==
  {[today |-> 600, account |-> AccountOf(packs, <<>>, <<>>)] : packs \in AccountPacks(600)}
  \cup
  UNION {{[today |-> day, account |-> AccountOf(<<>>, studies, snapshots)] :
            studies \in AccountStudies(day),
            snapshots \in {<<>>, <<Snapshot("x", 760, 0, 1), Snapshot("x", Unset, 4, 2),
                                   Snapshot("y", 499, Unset, 1)>>}}
         : day \in LastDays}

MCStudyInputs == {BureauInputs, RequestInputs, FigureInputs}
=============================================================================
