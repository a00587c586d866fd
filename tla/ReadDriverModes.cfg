SPECIFICATION FairSpec
CONSTANTS
  Keys <- StepKeys
  Printable <- OnlyX
  Meta <- MetaX
  Bindings <- StepBindings
  Aliases <- StepAliases
  Configs <- Mixed
  Outcomes <- Everything
  MaxChunk = 1
  WorkLimit = 4
  MaxUnits = 2
  MaxSignals = 2
  MaxFailures = 1
  MaxLog = 0
INVARIANTS TerminalFollowsDriver ReadIsResumed
PROPERTIES AsksAgain EndOfInputEnds
