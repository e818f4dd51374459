CONSTANTS
  Prep = Prep
  Cli = Cli
  Shell = Shell
  Monitor = Monitor
  Requests = 5
  ClientCount = 2
  MaxHistory = 4
  MaxTyped = 3
  MaxExecuted = 4
  MaxRestarts = 1
SPECIFICATION Spec
INVARIANTS
  TypeOK
  GetsHit
  ReportIsComplete
  QpsIsReal
  AnswersBelowTheirLine
PROPERTIES
  ToolsEnd
CHECK_DEADLOCK FALSE
