SPECIFICATION MCSpec
CONSTANTS
  Categories = 3
  Entries <- MCEntries
  Attributes = {"name", "oid"}
  Paths <- MCPaths
  Inputs <- MCInputs
  Answers <- MCAnswers
  NotSet = NotSet
  Refused = Refused
INVARIANTS
  RefsMeetResult
  EnrichmentFits
  RequestFits
  StateFitsAnswer
  PlanForetells
CHECK_DEADLOCK FALSE
