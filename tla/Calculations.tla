---------------------------- MODULE Calculations ----------------------------
(***************************************************************************)
(* The pure modules together: a behaviour picks the input of a calculation *)
(* and computes its result.  The inputs are parameters; what is assumed of *)
(* them is what the code checks or the columns of its tables make sure of. *)
(***************************************************************************)
EXTENDS Evaluation, Figures, PackPricing, NumberWords, AccountViews

CONSTANTS
  StudyInputs,      \* sets of what the engine is given
  StatementInputs,  \* extracted periods and reports of statements
  PriceInputs,      \* offerings with the tax and the code of their purchase
  MenuInputs,       \* requests of the calculator of packs
  AmountInputs,     \* amounts of a legal document
  ReportInputs,     \* sets of reports of the bureau with the study they are read in
  AccountInputs     \* accounts of two companies and today

VARIABLES kind, input, result

-----------------------------------------------------------------------------
(***************************************************************************)
(* What is assumed of the inputs.                                          *)
(***************************************************************************)
\* The weights were validated when they were saved; figures are whole.
WellFormedStudy(in) ==
  /\ in.person \in PersonType
  /\ in.weights \in [Dimensions -> Nat] /\ ValidWeights(in.weights, in.person)
  /\ {in.figures.capacity, in.request.credit, in.request.term,
      in.central.income, in.central.quota} \subseteq Int
  /\ in.central.behaviour \in Seq(STRING)

\* What is read in a PDF: years and figures, or null.
ExtractedPeriod == [fiscalYear : Int, dateYear : Int, figures : [PeriodFigure -> Int]]
WellFormedStatements(in) ==
  /\ in.extracted \in Seq(ExtractedPeriod)
  /\ in.fallback \in Int

\* An offering has at least one consultation and its price is not negative.
WellFormedPrice(in) ==
  /\ in.offering.quantity \in Nat \ {0} /\ in.offering.unitPrice \in Nat
  /\ in.offering.discount.value \in Int
  /\ in.percent \in Nat /\ in.rate \in Int

\* Sizes and prices are not negative; a curve that is given has every size.
WellFormedMenu(in) ==
  /\ IsFiniteSet(in.sizes) /\ in.sizes \subseteq Nat
  /\ in.p0 \in Nat /\ in.floor \in Nat /\ in.start \in Nat
  /\ in.technique # "linear" => \A i \in DOMAIN PackSizes(in) : in.curve[PackSizes(in)[i]] \in Int

\* A report of one company or person, and a study of the customer it made; the
\* periods of an analysis have their year and there is at least one.
GrossFigures == [{"year"} \cup Compared -> Int]
StudyAnalysis ==
  [source : {"pdf", "datacredito"}, periods : Seq(GrossFigures),
   indicators : [{"capacity", "stability", "receivable", "inventory", "suppliers"} -> Int]]
WellFormedReport(in) ==
  /\ in.r.informed /\ \A p, q \in in.r.profile : p = q
  /\ in.r.behaviour \in Seq(STRING)
  /\ {in.r.score, in.r.companyScore, in.r.overdue, in.r.income, in.r.quota} \subseteq Int
  /\ LET s == in.study IN
     /\ s = StudyOf(in.r, s.analyses, s.config, s.request, s.locked)
     /\ s.analyses \in Seq(StudyAnalysis)
     /\ \A i \in 1..Len(s.analyses) :
          s.analyses[i].periods # <<>> /\ s.analyses[i].periods[1].year # None
  /\ in.requested \in {"none", "pdf", "datacredito"}

\* An amount of a million of millions is refused, with an error.
WellFormedAmount(in) == {in.millions, in.rest} \subseteq {n \in Nat : n < 1000000}

\* The parameters of type analysis_pack_status.
PackStatuses == {"pending_payment", "active", "depleted", "expired", "cancelled"}
Pack == [id : STRING, company : STRING, status : PackStatuses, purchased : Nat, consumed : Nat,
         end : Int, paid : Int, paidAt : Int, base : Int, tax : Int, unit : Int, sent : BOOLEAN]
\* A table of packs: what is consumed was bought, and the base and the tax of
\* what was charged are those of the price that was frozen.
WellFormedPacks(packs) ==
  /\ packs \in Seq(Pack)
  /\ \A i, j \in Places(packs) : packs[i].id = packs[j].id => i = j
  /\ \A i \in Places(packs) :
       /\ packs[i].consumed <= packs[i].purchased
       /\ ChargedFirmly(packs[i]) =>
            /\ packs[i].base # Unset /\ packs[i].tax # Unset
            /\ packs[i].base + packs[i].tax = packs[i].paid

\* The studies of a company are of its customers, at a step of the process.
WellFormedAccount(in) ==
  LET customers == in.account.customers
      studies == in.account.studies
      snapshots == in.account.snapshots
  IN  /\ in.today \in Int /\ WellFormedPacks(in.account.packs)
      /\ {Len(customers), Len(studies), Len(snapshots)} \subseteq Nat
      /\ \A c, d \in Places(customers) : customers[c] = customers[d] => c = d
      /\ \A i \in Places(studies) :
           /\ {studies[i].requested, studies[i].date, studies[i].created} \subseteq Int
           /\ \E c \in Places(customers) : studies[i].customer = customers[c]
           /\ \E k \in Places(PipelineOrder) : studies[i].status = PipelineOrder[k]
      /\ \A i \in Places(snapshots) : snapshots[i].score \in Int

ASSUME StudyAssumption == \A inputs \in StudyInputs : \A in \in inputs : WellFormedStudy(in)
ASSUME StatementAssumption == \A in \in StatementInputs : WellFormedStatements(in)
ASSUME PriceAssumption == \A in \in PriceInputs : WellFormedPrice(in)
ASSUME MenuAssumption == \A in \in MenuInputs : WellFormedMenu(in)
ASSUME AmountAssumption == \A in \in AmountInputs : WellFormedAmount(in)
ASSUME ReportAssumption == \A inputs \in ReportInputs : \A in \in inputs : WellFormedReport(in)
ASSUME AccountAssumption == \A in \in AccountInputs : WellFormedAccount(in)

ViewsOfStudy(study, requested) ==
  LET done == PerformStudy(study, requested)
      rows == Analyze(study, done, TRUE, TRUE) \o <<RowOf("creditReview", TRUE, FALSE)>>
  IN  [result |-> done, listed |-> ListedResult(done), steps |-> Steps(study, done, rows, <<>>),
       prompt |-> IF done = <<>> THEN <<>> ELSE <<PromptInput(study, done)>>]

-----------------------------------------------------------------------------
Start(k, inputs) == kind = k /\ input \in inputs /\ result = <<>>

Init ==
  \/ \E inputs \in StudyInputs : Start("study", inputs)
  \/ Start("statements", StatementInputs)
  \/ Start("price", PriceInputs)
  \/ Start("menu", MenuInputs)
  \/ Start("amount", AmountInputs)
  \/ \E inputs \in ReportInputs : Start("report", inputs)
  \/ Start("account", AccountInputs)

Compute(k, value) == kind = k /\ result = <<>> /\ result' = <<value>> /\ UNCHANGED <<kind, input>>

ComputeStudy == Compute("study", Score(input))
ComputeStatements == Compute("statements", StudyIndicators(input))
ComputePrice ==
  Compute("price",
          [charge |-> Charge(input.offering, input.percent, input.rate, input.included),
           outcome |-> PurchaseOutcome(input.offering, input.percent, input.rate, input.included),
           shown |-> CatalogRow(input.offering, input.rate, input.included)])
ComputeMenu == Compute("menu", Simulate(input))
ComputeAmount == Compute("amount", NumberToSpanishWords(input.millions, input.rest))
ComputeReport == Compute("report", ViewsOfStudy(input.study, input.requested))
ComputeAccount ==
  Compute("account",
          [home |-> BasicDashboard(input.account, "a", input.today),
           usage |-> GetUsage(input.account.packs, "a", input.today, 7)])

Next ==
  \/ ComputeStudy \/ ComputeStatements \/ ComputePrice \/ ComputeMenu \/ ComputeAmount
  \/ ComputeReport \/ ComputeAccount

vars == <<kind, input, result>>
Spec == Init /\ [][Next]_vars

-----------------------------------------------------------------------------
\* The score of a study lies between its dimensions and the bureau bounds it.
ScoreIsAnAverage == kind = "study" => BetweenItsParts(input)
BureauIsRespected == kind = "study" => BureauBounds(input)

\* What the bureau reports is read as of one person and decides the verdict;
\* the source declared is the one used, and an old result reads like a new one.
ReportReachesTheScore ==
  kind = "report" =>
    /\ ReadAsOnePerson(input.r)
    /\ \A s \in {PerformStudy(input.study, input.requested)} : s # <<>> =>
         /\ input.r.doc.form # "label" => ReportDecides(input.r, s[1])
         /\ SourceIsTheOneUsed(input.study, input.requested, s[1])
         /\ LegacyReadsTheSame(input.study, s[1].keyFigures)

\* A company of high risk for the bureau is not approved without conditions.
HighRiskIsCapped ==
  kind = "report" =>
    \A s \in {PerformStudy(input.study, input.requested)} :
      s # <<>> => HighRiskCaps(input.r, s[1])

\* The views of an account agree with each other and with what it can do.
CompaniesOf(packs) == {packs[i].company : i \in Places(packs)}
ViewsAgree ==
  kind = "account" =>
    /\ \A c \in CompaniesOf(input.account.packs) :
         BalancesAgree(input.account.packs, c, CompaniesOf(input.account.packs), input.today)
    /\ \A limit \in 1..3 : QueueAddsUp(input.account.packs, limit)
    /\ StudiesAgree(input.account, "a", input.today)

\* The current year is compared with the last year before it.
PriorYearIsEarlier ==
  kind = "statements" /\ Readable(input.extracted, input.fallback)
    => ComparesWithYearBefore(PdfPeriods(input.extracted, input.fallback))

\* Who spends more in administration is not more stable for it.
SpendingNeverHelps ==
  kind = "statements" /\ Readable(input.extracted, input.fallback)
    => \A more \in {1, 5, 20} :
         SpendingNeverStabilises(PdfPeriods(input.extracted, input.fallback)[1].figures, more)

\* Prices add up to the peso and grow with the pack.
PricesAddUp ==
  /\ kind = "price" => ChargeAddsUp(input.offering, input.percent, input.rate, input.included)
  /\ kind = "menu" => MenuGrows(input)

\* The amount of a document in words is the amount in figures.
WordsReadBack == kind = "amount" => ReadsBack(input.millions, input.rest)
=============================================================================
