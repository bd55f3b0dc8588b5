----------------------------- MODULE Evaluation -----------------------------
(***************************************************************************)
(* The seam between the bureau, the statements and the scoring engine:     *)
(* what a study reads when it is performed, which source it computes on,   *)
(* and the views of its result (stepper, list, prompt of the AI report).   *)
(***************************************************************************)
EXTENDS Scoring, ExperianMapper, SequencesExt

-----------------------------------------------------------------------------
(***************************************************************************)
(* From what is stored to the input of the engine.                         *)
(***************************************************************************)
\* The type of the customer, from that of its report.
PersonTypeCode(person) == IF person = "PJ" THEN "legalEntity" ELSE "naturalPerson"

\* The rows of a configuration, one by enabled dimension; without one, the
\* weights by default of the type of person.
ConfigToWeights(rows) ==
  [d \in Dimensions |-> IF d \in DOMAIN rows THEN rows[d] ELSE 0]
Weights(config, person) ==
  IF config = <<>> THEN DefaultWeightsFor(person) ELSE ConfigToWeights(config[1])

AnalysisToIndicators(analysis) ==
  [f \in DOMAIN analysis.indicators |->
     IF analysis.indicators[f] = None THEN 0 ELSE analysis.indicators[f]]

\* The periods come with the latest first.
AnalysisToGrossFigures(analysis) ==
  IF analysis.periods = <<>> THEN NoFigures ELSE analysis.periods[1]

\* A month is in arrears when its code is known and it is not "N".
HasArrears(behaviour) == \E i \in 1..Len(behaviour) : behaviour[i] \notin {"", "N", "-"}

RiskToCentralInput(snapshot) ==
  IF snapshot = <<>> THEN NoCentral
  ELSE [f \in DOMAIN NoCentral |-> snapshot[1][f]]

NoLegalStatus == [registration |-> "", liquidation |-> ""]
ToLegalStatus(profile) ==
  IF profile = {} THEN NoLegalStatus ELSE CHOOSE blocks \in profile : TRUE

(***************************************************************************)
(* Performing a study.  An analysis has source, periods and indicators;    *)
(* no two of a study have the same source.                                 *)
(***************************************************************************)
From(analyses, source) ==
  LET i == SelectInSeq(analyses, LAMBDA a : a.source = source)
  IN  IF i = 0 THEN <<>> ELSE <<analyses[i]>>

\* Mutant: with both sources it always computes on the bureau's.
BureauFirst(analyses) ==
  IF From(analyses, "datacredito") # <<>> THEN From(analyses, "datacredito")
  ELSE From(analyses, "pdf")

\* The bureau, unless the PDF is of another year.
AutoTruth(analyses) ==
  LET bureau == From(analyses, "datacredito")
      pdf == From(analyses, "pdf")
      year(a) == AnalysisToGrossFigures(a).year
  IN  IF bureau # <<>> /\ pdf # <<>>
      THEN IF year(pdf[1]) # None /\ year(pdf[1]) = year(bureau[1]) THEN bureau ELSE pdf
      ELSE bureau \o pdf

TruthAnalysis(analyses, requested) ==
  IF requested = "none" THEN AutoTruth(analyses) ELSE From(analyses, requested)

\* A study: customer (what the mapper made of the report), risk (the last
\* snapshot), analyses, config, request and whether its status is locked.
EngineInput(study, requested) ==
  LET person == PersonTypeCode(study.person)
      figures(source) == LET a == From(study.analyses, source) IN
                         IF a = <<>> THEN NoFigures ELSE AnalysisToGrossFigures(a[1])
  IN  [person |-> person, weights |-> Weights(study.config, person),
       figures |-> AnalysisToIndicators(TruthAnalysis(study.analyses, requested)[1]),
       request |-> study.request, truth |-> figures("datacredito"), pdf |-> figures("pdf"),
       central |-> RiskToCentralInput(study.risk), override |-> requested,
       legal |-> ToLegalStatus(study.customer.bureauProfile)]

\* <<>> when the study is locked or has not the source.
PerformStudy(study, requested) ==
  IF study.locked \/ TruthAnalysis(study.analyses, requested) = <<>> THEN <<>>
  ELSE <<Score(EngineInput(study, requested))>>

\* The study of a report that was consulted.
StudyOf(r, analyses, config, request, locked) ==
  LET m == MapMiDecisorResponse(r) IN
  [person |-> m.person, customer |-> m.customer[1], risk |-> m.risk, analyses |-> analyses,
   config |-> config, request |-> request, locked |-> locked]

-----------------------------------------------------------------------------
(***************************************************************************)
(* Views of a study, given its result.                                     *)
(***************************************************************************)
ReportRows(rows, type) ==
  SelectSeq(rows, LAMBDA row : row.type = type /\ row.status = "success")
HasAiAnalysis(rows) == ReportRows(rows, "creditReview") # <<>>
HasPdfExtraction(rows) == ReportRows(rows, "financialStatementsPdfUpload") # <<>>

\* The risk of the bureau as the stepper shows it.
CentralRiskView(snapshot) ==
  IF snapshot = <<>> THEN <<>>
  ELSE <<[score |-> snapshot[1].score, hasAlerts |-> snapshot[1].hasAlerts,
          income |-> snapshot[1].income # Missing \/ snapshot[1].quota # Missing,
          overdue |-> snapshot[1].overdue, level |-> snapshot[1].level]>>

\* The latest promissory note of the study, if it has one.
NoteView(notes) ==
  IF notes = <<>> THEN <<>>
  ELSE <<[isSigned |-> notes[1].signedAt, signingUrl |-> ~notes[1].signedAt,
          documentUrl |-> notes[1].signedAt /\ notes[1].stored]>>

\* The steps: without analyses there is no step 2, without a result no step 3.
Steps(study, result, rows, notes) ==
  [isLegalEntity |-> study.person = "PJ",
   centralRisk |-> CentralRiskView(study.risk),
   sources |-> [i \in 1..Len(study.analyses) |-> study.analyses[i].source],
   result |-> result,
   report |-> IF result = <<>> THEN <<>> ELSE ReportRows(rows, "creditReview"),
   note |-> NoteView(notes)]

\* The row of the list.
ListedResult(result) ==
  IF result = <<>> THEN <<>>
  ELSE <<[score |-> result[1].total, status |-> result[1].status,
          isViable |-> result[1].status # "rejected", amount |-> result[1].amount]>>

(***************************************************************************)
(* The AI report.  A result frozen before the payment became a single one  *)
(* has neither of its two figures: they are derived here.                  *)
(***************************************************************************)
NormalizeKeyFigures(figures, request) ==
  LET derived == IF request.term > 0 THEN request.term ELSE 30 IN
  [figures EXCEPT
     !.payment = IF figures.payment = None THEN AtLeast(request.credit, 0) ELSE figures.payment,
     !.inTerm = IF figures.inTerm = None THEN Rounded(figures.monthly * derived, 30)
                ELSE figures.inTerm]

PromptInput(study, result) ==
  [result |-> result[1],
   keyFigures |-> NormalizeKeyFigures(result[1].keyFigures, study.request),
   sources |-> [i \in 1..Len(study.analyses) |-> study.analyses[i].source],
   central |-> IF study.risk = <<>> THEN <<>>
               ELSE <<[score |-> study.risk[1].score,
                       hasArrears |-> HasArrears(study.risk[1].behaviour)]>>]

\* A run of the AI leaves one row, of what it cost or of its error; an error
\* row follows also when the row of a good answer cannot be written.
RowOf(type, answered, written) ==
  [type |-> type, status |-> IF answered /\ written THEN "success" ELSE "error",
   priced |-> answered /\ written]
Analyze(study, result, answered, written) ==
  IF result = <<>> THEN <<>> ELSE <<RowOf("creditReview", answered, written)>>

\* What an extraction reads: the figures, or the whole answer in the old
\* shape, with 0 for what is null except the date; and the flags, if a list.
RunPdfExtraction(answer) ==
  LET figures == IF answer.nested THEN answer.financialData ELSE answer.flat IN
  [figures |-> [f \in DOMAIN figures |->
                  IF figures[f] = None /\ f # "balanceSheetDate" THEN 0 ELSE figures[f]],
   flags |-> IF answer.flags = "list" THEN "kept" ELSE "none"]

-----------------------------------------------------------------------------
(***************************************************************************)
(* Properties of every report and study.                                   *)
(***************************************************************************)
\* What the bureau reported of a company that is gone, of a low score, of an
\* amount of zero, of arrears or of what is overdue reaches the verdict.
ReportDecides(r, result) ==
  LET s == IF PersonOf(r.doc) = "PN" THEN r.score ELSE r.companyScore IN
  /\ PersonOf(r.doc) = "PJ" /\ (\E p \in r.profile : Eliminated(p))
       => result.status = "rejected"
  /\ s \in 0..(ConditionalCap - 1) \/ r.suggested = 0 => result.status # "approved"
  /\ r.overdue > 0 => <<"indebtedness", "danger">> \in result.flags
  /\ Arrears(r.behaviour) > 0 => HasArrears(r.behaviour)

\* The source that the result declares is the one it was computed on.
SourceIsTheOneUsed(study, requested, result) ==
  result.source = TruthAnalysis(study.analyses, requested)[1].source

\* A result from before reads in the prompt as one of today.
LegacyReadsTheSame(study, figures) ==
  figures.monthly >= 0 =>
    NormalizeKeyFigures([figures EXCEPT !.payment = None, !.inTerm = None], study.request)
      = figures

\* A company whose level of risk is high in the catalogue of the bureau.
RiskLevel == "1" :> "minimo" @@ "2" :> "bajo" @@ "3" :> "medio" @@ "4" :> "alto" @@ "5" :> "maximo"
HighRiskCaps(r, result) ==
  PersonOf(r.doc) = "PJ" /\ Translate(RiskLevel, r.level) \in HighRiskLevels
    => result.status # "approved"
=============================================================================
