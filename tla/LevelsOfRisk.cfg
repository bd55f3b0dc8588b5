SPECIFICATION Spec
CONSTANTS
  StudyInputs <- MCStudyInputs
  StatementInputs <- MCStatementInputs
  PriceInputs <- MCPriceInputs
  MenuInputs <- MCMenuInputs
  AmountInputs <- MCAmountInputs
  ReportInputs <- MCReportInputs
  AccountInputs <- MCAccountInputs
CHECK_DEADLOCK FALSE
INVARIANT HighRiskIsCapped
