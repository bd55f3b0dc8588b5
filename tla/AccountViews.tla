---------------------------- MODULE AccountViews ----------------------------
(***************************************************************************)
(* What is shown of an account: the balance of its packs, in the panel of  *)
(* the customer and in that of the administrators, the queue of sales to   *)
(* be invoiced, the dashboards, the activity and the figures of a customer.*)
(* They read the same rows along different ways.  Days are counted, and an *)
(* instant is twice a day, plus one after midnight; quotients are exact,   *)
(* in tenths when the code keeps one decimal.                              *)
(*                                                                         *)
(* Assumed of the clocks: a pack is compared with the instant (new Date(), *)
(* dashboard.repository.ts:194), with the server's midnight (analysis-     *)
(* packs.repository.ts:422) and with CURRENT_DATE (line 651), and all are  *)
(* one day, `today`.  That is so when server and database run in UTC,      *)
(* since end_date is a DATE and the parameter is truncated to one; in      *)
(* another zone the three part for the hours around midnight.              *)
(***************************************************************************)
EXTENDS Integers, Sequences, FiniteSets, TLC

Unset == -1   \* null or undefined: no amount is negative

\* A table is a sequence of rows, and a query picks places of it.  What is
\* asked of a query is the sum of a column at its places, their number, or
\* the rows in the order of a column.  Among equal ones the code leaves the order
\* to the database, which is taken to give the first stored first every time.
Places(rows) == 1..Len(rows)
SumOf(column, places) ==
  LET sum[i \in 0..Len(column)] ==
        IF i = 0 THEN 0 ELSE sum[i-1] + (IF i \in places THEN column[i] ELSE 0)
  IN  sum[Len(column)]
InOrder(places, column) ==
  LET before(i, j) == column[i] < column[j] \/ (column[i] = column[j] /\ i < j) IN
  [k \in 1..Cardinality(places) |->
     CHOOSE i \in places : Cardinality({j \in places : before(j, i)}) = k - 1]
Read(rows, order) == [k \in 1..Len(order) |-> rows[order[k]]]

OrNothing(amount) == IF amount = Unset THEN 0 ELSE amount
Tenths(part, whole) == IF whole = 0 THEN Unset ELSE (20 * part + whole) \div (2 * whole)
NearestWhole(part, whole) == (2 * part + whole) \div (2 * whole)
Average(column, places) == Tenths(SumOf(column, places), Cardinality(places))
Page(order, page, limit) ==
  SubSeq(order, (page - 1) * limit + 1,
         IF page * limit < Len(order) THEN page * limit ELSE Len(order))

-----------------------------------------------------------------------------
(***************************************************************************)
(* Packs: company, status, purchased, consumed, end (a day), paid, paidAt, *)
(* base, tax, unit and sent.                                               *)
(***************************************************************************)
Left(pack) == pack.purchased - pack.consumed
LeftOf(packs) == [i \in Places(packs) |-> Left(packs[i])]
SoonestFirst(packs, places) == InOrder(places, [i \in Places(packs) |-> packs[i].end])
PacksOf(packs, company) == {i \in Places(packs) : packs[i].company = company}

\* The packs of the companies that are active and whose last day has not gone.
ActivePacksWithBalance(packs, companies, today) ==
  {i \in Places(packs) : /\ packs[i].company \in companies
                         /\ packs[i].status = "active" /\ packs[i].end >= today}
\* Mutant: the home takes every active pack, gone by or not.
EveryActivePack(packs, company, today) ==
  {i \in Places(packs) : packs[i].company = company /\ packs[i].status = "active"}
\* The same, for the home of the customer.
ActivePacksBalance(packs, company, today) ==
  {i \in Places(packs) : /\ packs[i].company = company
                         /\ packs[i].status = "active" /\ packs[i].end >= today}

GetBalance(packs, company, today) ==
  LET current == ActivePacksWithBalance(packs, {company}, today) IN
  [credits |-> SumOf(LeftOf(packs), current),
   packs |-> Read(packs, SoonestFirst(packs, current))]
ResolveCredits(packs, company, today) ==
  LET current == ActivePacksWithBalance(packs, {company}, today) IN
  [credits |-> SumOf(LeftOf(packs), current), activePacks |-> Cardinality(current),
   packs |-> Read(packs, SoonestFirst(packs, current))]

\* The administrators' list asks for all its companies together.
ListCompanies(packs, companies, today) ==
  LET current == ActivePacksWithBalance(packs, companies, today)
      own(c) == current \cap PacksOf(packs, c)
  IN  [c \in companies |-> [credits |-> SumOf(LeftOf(packs), own(c)),
                            activePacks |-> Cardinality(own(c))]]

\* The home leaves out the packs that are used up.
PackBalance(packs, company, today) ==
  LET left == {i \in ActivePacksBalance(packs, company, today) : Left(packs[i]) > 0} IN
  [remaining |-> SumOf(LeftOf(packs), left),
   nearestExpiry |-> IF left = {} THEN Unset ELSE packs[SoonestFirst(packs, left)[1]].end]

\* A new study takes a credit of the first pack to expire that has one.
Consumables(packs, company, today) ==
  {i \in Places(packs) : /\ packs[i].company = company /\ packs[i].status = "active"
                         /\ packs[i].end >= today /\ packs[i].consumed < packs[i].purchased}
NextPack(packs, company, today) ==
  CHOOSE i \in Consumables(packs, company, today) :
    \A j \in Consumables(packs, company, today) : packs[i].end <= packs[j].end
TakeCredit(packs, company, today) ==
  LET i == NextPack(packs, company, today) IN
  [packs EXCEPT ![i].consumed = packs[i].consumed + 1,
                ![i].status = IF packs[i].consumed + 1 >= packs[i].purchased
                              THEN "depleted" ELSE "active"]

\* The health of an account: what expires within ExpiryRiskDays, and the days
\* that the balance lasts at the pace of the last thirty.
ExpiryRiskDays == 30
GetUsage(packs, company, today, consumed30) ==
  LET credits == ResolveCredits(packs, company, today)
      soon == {i \in ActivePacksWithBalance(packs, {company}, today) :
                 packs[i].end <= today + ExpiryRiskDays}
      own == PacksOf(packs, company)
  IN  [credits |-> credits, expiringSoon |-> SumOf(LeftOf(packs), soon),
       weeklyRate |-> Tenths(7 * consumed30, 30),
       projectedRunOutDays |-> IF consumed30 = 0 THEN Unset
                               ELSE (30 * credits.credits) \div consumed30,
       lifetime |-> [purchased |-> SumOf([i \in Places(packs) |-> packs[i].purchased], own),
                     consumed |-> SumOf([i \in Places(packs) |-> packs[i].consumed], own)]]

\* What an account still lacks.
Setup(packs, company, today, onboarded, contractSigned, configurations) ==
  [isOnboardingReady |-> onboarded, contractSigned |-> contractSigned,
   scoringConfigured |-> configurations > 0,
   hasCredits |-> ResolveCredits(packs, company, today).credits > 0]

\* The receipt of a pack, from what was frozen when it was bought.
BuildReceipt(pack) ==
  LET subtotal == pack.unit * pack.purchased IN
  [subtotal |-> subtotal,
   discount |-> IF pack.paid < subtotal THEN subtotal - pack.paid ELSE 0,
   total |-> pack.paid, isFree |-> pack.paid = 0,
   base |-> IF pack.base = Unset THEN pack.paid ELSE pack.base, tax |-> OrNothing(pack.tax)]

\* The history of the packs of a company, each with its consumptions.
PacksWithConsumptions(packs, company, consumptions, page, limit) ==
  LET own == PacksOf(packs, company)
      order == Page(InOrder(own, [i \in Places(packs) |-> -i]), page, limit)
  IN  [data |-> [k \in 1..Len(order) |->
                   [pack |-> packs[order[k]].id,
                    consumptions |-> {i \in Places(consumptions) :
                                        consumptions[i].pack = packs[order[k]].id}]],
       total |-> Cardinality(own)]

(***************************************************************************)
(* Electronic invoices: a queue, the oldest sale first.                    *)
(***************************************************************************)
ChargedFirmly(pack) ==
  pack.paid > 0 /\ pack.paidAt # Unset /\ pack.status \notin {"pending_payment", "cancelled"}
Queued(packs, pending) ==
  {i \in Places(packs) : ChargedFirmly(packs[i]) /\ (pending => ~packs[i].sent)}
\* A page that is no number is the first, and a limit that is none is twenty.
PageNumber(page) == IF page > 0 THEN page ELSE 1
PageSize(limit) == IF limit > 200 THEN 200 ELSE IF limit > 0 THEN limit ELSE 20
ListEinvoices(packs, pending, page, limit) ==
  LET queue == Queued(packs, pending)
      order == Page(InOrder(queue, [i \in Places(packs) |-> packs[i].paidAt]),
                    PageNumber(page), PageSize(limit))
  IN  [data |-> [k \in 1..Len(order) |->
                   [id |-> packs[order[k]].id, receipt |-> BuildReceipt(packs[order[k]])]],
       total |-> Cardinality(queue),
       totals |-> [base |-> SumOf([i \in Places(packs) |-> OrNothing(packs[i].base)], queue),
                   tax |-> SumOf([i \in Places(packs) |-> OrNothing(packs[i].tax)], queue),
                   paid |-> SumOf([i \in Places(packs) |-> packs[i].paid], queue)]]

MarkEinvoiceSent(pack) == IF pack.paid <= 0 THEN pack ELSE [pack EXCEPT !.sent = TRUE]
UnmarkEinvoiceSent(pack) == [pack EXCEPT !.sent = FALSE]

-----------------------------------------------------------------------------
(***************************************************************************)
(* The calendar: months are numbered from a January, a year has 365 days.  *)
(***************************************************************************)
DaysBefore == <<0, 31, 59, 90, 120, 151, 181, 212, 243, 273, 304, 334>>
FirstDay(month) == 365 * ((month - 1) \div 12) + DaysBefore[((month - 1) % 12) + 1] + 1
MonthOf(day) ==
  LET gone == (day - 1) % 365 IN
  12 * ((day - 1) \div 365)
    + CHOOSE m \in 1..12 : DaysBefore[m] <= gone /\ (m < 12 => gone < DaysBefore[m + 1])
\* The same day of an earlier month; a day it has not runs into the next.
MonthsBefore(day, n) == FirstDay(MonthOf(day) - n) + (day - FirstDay(MonthOf(day)))
Midnight(day) == 2 * day
Now(today) == 2 * today + 1

-----------------------------------------------------------------------------
(***************************************************************************)
(* Studies: customer, status, verdict, score, requested, recommended, date *)
(* (a day), created and resolved (instants).                               *)
(***************************************************************************)
Given(verdicts, studies, places) == {i \in places : studies[i].verdict \in verdicts}
Verdicts == {"approved", "conditional", "rejected"}
Analyzed(studies, places) == Given(Verdicts, studies, places)
StudiesOf(studies, customer) == {i \in Places(studies) : studies[i].customer = customer}
LatestFirst(studies, places) == InOrder(places, [i \in Places(studies) |-> -studies[i].date])
Requested(studies) == [i \in Places(studies) |-> OrNothing(studies[i].requested)]
Recommended(studies) == [i \in Places(studies) |-> OrNothing(studies[i].recommended)]
Scores(studies) == [i \in Places(studies) |-> studies[i].score]

Compare(value, previous) ==
  [value |-> value, previous |-> previous, delta |-> value - previous]

\* Without dates there is no filter; both ends are included.
InStudyDates(studies, from, to) ==
  {i \in Places(studies) : /\ from = Unset \/ Midnight(studies[i].date) >= from
                           /\ to = Unset \/ Midnight(studies[i].date) <= to}
\* The end is not included.
CountStudiesInRange(studies, from, to) ==
  Cardinality({i \in Places(studies) : studies[i].created >= from /\ studies[i].created < to})

VerdictCounts(studies, places) ==
  [v \in Verdicts |-> Cardinality(Given({v}, studies, places))]
Rate(verdicts) ==
  LET analyzed == verdicts["approved"] + verdicts["conditional"] + verdicts["rejected"] IN
  IF analyzed = 0 THEN 0
  ELSE Tenths(100 * (verdicts["approved"] + verdicts["conditional"]), analyzed)

CreditTotals(studies, places) ==
  [requested |-> SumOf(Requested(studies), places),
   approved |-> SumOf(Recommended(studies), Given({"approved", "conditional"}, studies, places))]

\* The steps of a study in the order of the process; others come last.
PipelineOrder ==
  <<"pendingFinancialStatements", "pendingStudyAnalysis", "studyCompleted", "pendingSignature",
    "confirmed", "rejected", "closed">>
WithStatus(studies, status) == {i \in Places(studies) : studies[i].status = status}
BuildPipeline(studies) ==
  [k \in 1..Len(PipelineOrder) |->
     [code |-> PipelineOrder[k], count |-> Cardinality(WithStatus(studies, PipelineOrder[k]))]]

\* The query goes back to the first day of a month.
Cutoff(today, months) == FirstDay(MonthOf(MonthsBefore(today, months)))
InMonth(studies, places, month) == {i \in places : MonthOf(studies[i].date) = month}
StudiesByMonth(studies, today, months) ==
  LET since == {i \in Places(studies) : studies[i].date >= Cutoff(today, months)} IN
  [m \in {MonthOf(studies[i].date) : i \in since} |-> Cardinality(InMonth(studies, since, m))]
FillMonths(counts, today, months) ==
  [k \in 1..months |-> LET m == MonthOf(today) - months + k IN
                       [month |-> m, count |-> IF m \in DOMAIN counts THEN counts[m] ELSE 0]]

RecentStudies(studies, limit) ==
  Read(studies, Page(LatestFirst(studies, Places(studies)), 1, limit))

\* The period asked for, by default the last month, and the one before it.
ResolveRanges(from, to, today) ==
  LET until == IF to = Unset THEN Now(today) ELSE Midnight(to)
      since == IF from = Unset THEN Midnight(MonthsBefore(today, 1)) ELSE Midnight(from)
  IN  [from |-> since, to |-> until, previousFrom |-> 2 * since - until, previousTo |-> since]

\* The last snapshot of each customer.
BureauRiskLatest(snapshots) ==
  {i \in Places(snapshots) :
     \A j \in Places(snapshots) : snapshots[j].customer = snapshots[i].customer =>
       snapshots[j].at < snapshots[i].at \/ (snapshots[j].at = snapshots[i].at /\ i <= j)}
Bands == <<"excellent", "good", "acceptable", "fair", "high_risk">>
Band(score) ==
  CASE score >= 750 -> "excellent" [] score >= 700 -> "good" [] score >= 650 -> "acceptable"
    [] score >= 500 -> "fair" [] OTHER -> "high_risk"
BureauRisk(customers, snapshots) ==
  LET rows == BureauRiskLatest(snapshots)
      scored == {i \in rows : snapshots[i].score # Unset}
  IN  [consulted |-> Cardinality(rows),
       withoutHistory |-> customers - Cardinality(rows)
                          + (Cardinality(rows) - Cardinality(scored)),
       withArrears |-> Cardinality({i \in rows : snapshots[i].overdue > 0}),
       byBand |-> [k \in 1..Len(Bands) |->
                     Cardinality({i \in scored : Band(snapshots[i].score) = Bands[k]})]]

\* The best customers by what they asked for.
TopCustomersByCredit(studies, customers, limit, from, to) ==
  LET of(c) == InStudyDates(studies, from, to) \cap StudiesOf(studies, customers[c])
      rows == [c \in Places(customers) |->
                 [customer |-> customers[c], studies |-> Cardinality(of(c)),
                  requested |-> CreditTotals(studies, of(c)).requested,
                  approved |-> CreditTotals(studies, of(c)).approved]]
      grouped == {c \in Places(customers) : of(c) # {}}
  IN  Read(rows, Page(InOrder(grouped, [c \in Places(customers) |-> -rows[c].requested]), 1, limit))

BasicDashboard(account, company, today) ==
  LET this == FirstDay(MonthOf(today))
      next == FirstDay(MonthOf(today) + 1)
      before == FirstDay(MonthOf(today) - 1)
      studies == account.studies
      current == CreditTotals(studies, InStudyDates(studies, Midnight(this), Midnight(next) - 1))
      previous == CreditTotals(studies, InStudyDates(studies, Midnight(before), Midnight(this) - 1))
  IN  [studiesThisMonth |-> Compare(CountStudiesInRange(studies, Midnight(this), Midnight(next)),
                                    CountStudiesInRange(studies, Midnight(before), Midnight(this))),
       credits |-> PackBalance(account.packs, company, today),
       requested |-> Compare(current.requested, previous.requested),
       approved |-> Compare(current.approved, previous.approved),
       pipeline |-> BuildPipeline(studies),
       months |-> FillMonths(StudiesByMonth(studies, today, 6), today, 6),
       recent |-> RecentStudies(studies, 5)]

\* The dates that were asked for filter the figures of the period, and those
\* that were resolved the figures of the period before.
AdvancedDashboard(account, company, from, to, today) ==
  LET r == ResolveRanges(from, to, today)
      day(d) == IF d = Unset THEN Unset ELSE Midnight(d)
      studies == account.studies
      current == InStudyDates(studies, day(from), day(to))
      previous == InStudyDates(studies, r.previousFrom, r.previousTo)
      score(places) == IF places = {} THEN 0
                       ELSE NearestWhole(SumOf(Scores(studies), places), Cardinality(places))
  IN  [credits |-> PackBalance(account.packs, company, today),
       studiesInPeriod |-> Compare(CountStudiesInRange(studies, r.from, r.to),
                                   CountStudiesInRange(studies, r.previousFrom, r.previousTo)),
       approvalRate |-> Compare(Rate(VerdictCounts(studies, current)),
                                Rate(VerdictCounts(studies, previous))),
       avgScore |-> Compare(score(Analyzed(studies, current)), score(Analyzed(studies, previous))),
       credit |-> CreditTotals(studies, current),
       pipeline |-> BuildPipeline(studies), verdicts |-> VerdictCounts(studies, current),
       months |-> FillMonths(StudiesByMonth(studies, today, 12), today, 12),
       bureauRisk |-> BureauRisk(Len(account.customers), account.snapshots),
       top |-> TopCustomersByCredit(studies, account.customers, 10, day(from), day(to)),
       recent |-> RecentStudies(studies, 8)]

(***************************************************************************)
(* The figures of one customer, and the activity of an account.            *)
(***************************************************************************)
Trend(studies, order) ==
  IF Len(order) < 2 THEN "none"
  ELSE IF studies[order[1]].score > studies[order[2]].score THEN "up"
  ELSE IF studies[order[1]].score < studies[order[2]].score THEN "down" ELSE "stable"

GetStats(studies, customer, today) ==
  LET own == StudiesOf(studies, customer)
      analyzed == LatestFirst(studies, Analyzed(studies, own))
      given == {i \in own : studies[i].recommended # Unset}
      times == {i \in own : studies[i].resolved >= Midnight(studies[i].date)}
      requested == SumOf(Requested(studies), own)
      recommended == SumOf(Recommended(studies), own)
  IN  [total |-> Cardinality(own),
       daysSinceLastStudy |-> IF own = {} THEN Unset
                              ELSE today - studies[LatestFirst(studies, own)[1]].date,
       byStatus |-> [st \in {studies[i].status : i \in own} |->
                       Cardinality(own \cap WithStatus(studies, st))],
       verdicts |-> VerdictCounts(studies, own),
       approvalRate |-> Tenths(100 * Cardinality(Given({"approved"}, studies, own)), Len(analyzed)),
       avgScore |-> Average(Scores(studies), Analyzed(studies, own)),
       lastStatus |-> IF analyzed = <<>> THEN "none" ELSE studies[analyzed[1]].verdict,
       scoreTrend |-> Trend(studies, analyzed),
       totalRequested |-> requested, totalRecommended |-> recommended,
       recommendationRatio |-> IF given = {} THEN Unset ELSE Tenths(100 * recommended, requested),
       avgResolutionDays |->
         Average([i \in Places(studies) |-> (studies[i].resolved - Midnight(studies[i].date)) \div 2],
                 times),
       last12Months |-> Cardinality({i \in own : Midnight(studies[i].date)
                                                   >= Midnight(MonthsBefore(today, 12)) + 1})]

\* A study is stuck when it has waited for its statements or its analysis for
\* more than StuckStudyDays.
StuckStudyDays == 3
PendingStudyStatuses == {"pendingFinancialStatements", "pendingStudyAnalysis"}
Recent(rows, since) == {i \in Places(rows) : rows[i].created >= since}
CycleActivity(account, today, window) ==
  LET since == Now(today - window)
      studies == account.studies
      consultations == account.consultations
      analyses == account.analyses
  IN  [studies |-> Cardinality(Recent(studies, since)),
       stuck |-> Cardinality({i \in Recent(studies, since) :
                                /\ studies[i].status \in PendingStudyStatuses
                                /\ studies[i].created < Now(today - StuckStudyDays)}),
       consultations |-> Cardinality(Recent(consultations, since)),
       failedConsultations |-> Cardinality({i \in Recent(consultations, since) :
                                              consultations[i].httpStatus >= 400}),
       aiAnalysis |-> Cardinality({i \in Recent(analyses, since) : analyses[i].type = "creditReview"}),
       pdfExtraction |-> Cardinality({i \in Recent(analyses, since) :
                                        analyses[i].type = "financialStatementsPdfUpload"}),
       aiErrors |-> Cardinality({i \in Recent(analyses, since) : analyses[i].status = "error"}),
       aiCost |-> SumOf([i \in Places(analyses) |-> OrNothing(analyses[i].cost)],
                        Recent(analyses, since))]

\* The resets, the latest first, each beside the study as it is today; the
\* detail has the status that the study had when it was reset.
ResetRow(reset, study) ==
  [reason |-> reset.reason, resetBy |-> reset.by, currentStatus |-> study.status,
   currentVerdict |-> study.verdict]
ResetDetail(reset, study) ==
  ResetRow(reset, study) @@ [previousStatus |-> reset.snapshot.status, snapshot |-> reset.snapshot]

-----------------------------------------------------------------------------
(***************************************************************************)
(* Properties of every account.                                            *)
(***************************************************************************)
SumAll(column) == SumOf(column, Places(column))

\* Every view tells the same balance, and it is the number of studies that can
\* be created today: taking that many credits never lacks a pack and leaves
\* none, and the first is of the pack that the home says expires first.
BalancesAgree(packs, company, companies, today) ==
  LET balance == GetBalance(packs, company, today).credits
      home == PackBalance(packs, company, today)
      usage == GetUsage(packs, company, today, 1)
      after[n \in 0..balance] == IF n = 0 THEN packs ELSE TakeCredit(after[n - 1], company, today)
  IN  /\ balance = home.remaining
      /\ balance = usage.credits.credits
      /\ balance = ListCompanies(packs, companies, today)[company].credits
      /\ \A n \in 0..(balance - 1) : Consumables(after[n], company, today) # {}
      /\ Consumables(after[balance], company, today) = {}
      /\ balance > 0 => packs[NextPack(packs, company, today)].end = home.nearestExpiry
      /\ usage.expiringSoon \in 0..balance

\* The pages of the queue show each sale that was charged and is not marked,
\* once and no other, and what they show adds up to the totals.
QueueAddsUp(packs, limit) ==
  LET queue == ListEinvoices(packs, TRUE, 1, limit)
      pages == [k \in 1..(queue.total \div PageSize(limit) + 1) |->
                  ListEinvoices(packs, TRUE, k, limit).data]
      shows(k, j, i) == j \in Places(pages[k]) /\ pages[k][j].id = packs[i].id
      paid(k) == SumAll([j \in Places(pages[k]) |-> pages[k][j].receipt.total])
  IN  /\ \A i \in Places(packs) :
           IF ChargedFirmly(packs[i]) /\ ~packs[i].sent
           THEN \E k \in Places(pages), j \in 1..PageSize(limit) :
                  /\ shows(k, j, i)
                  /\ \A l \in Places(pages), m \in 1..PageSize(limit) :
                       shows(l, m, i) => l = k /\ m = j
           ELSE \A k \in Places(pages), j \in 1..PageSize(limit) : ~shows(k, j, i)
      /\ queue.totals.base + queue.totals.tax = queue.totals.paid
      /\ SumAll([k \in Places(pages) |-> paid(k)]) = queue.totals.paid

\* The dashboard and the figures of each customer count the same verdicts and
\* the same studies; the bands of risk and the customers without one are all
\* the customers; and the chart of months has each study of those months once.
StudiesAgree(account, company, today) ==
  LET board == AdvancedDashboard(account, company, Unset, Unset, today)
      customers == account.customers
      stats == [c \in Places(customers) |-> GetStats(account.studies, customers[c], today)]
      counts(items) == SumAll([k \in Places(items) |-> items[k].count])
      shown == {i \in Places(account.studies) :
                  MonthOf(account.studies[i].date) \in (MonthOf(today) - 11)..MonthOf(today)}
  IN  /\ \A v \in Verdicts :
           board.verdicts[v] = SumAll([c \in Places(customers) |-> stats[c].verdicts[v]])
      /\ counts(board.pipeline) = SumAll([c \in Places(customers) |-> stats[c].total])
      /\ Len(customers) <= 10 =>
           SumAll([k \in Places(board.top) |-> board.top[k].requested]) = board.credit.requested
      /\ SumAll(board.bureauRisk.byBand) + board.bureauRisk.withoutHistory = Len(customers)
      /\ counts(board.months) = Cardinality(shown)
      /\ counts(BasicDashboard(account, company, today).months) <= counts(board.months)
      /\ CycleActivity(account, today, 30).stuck
           <= board.pipeline[1].count + board.pipeline[2].count
=============================================================================
