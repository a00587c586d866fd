SPECIFICATION RecallSpec
CONSTANTS
  Letters = {"a"}
  Patterns <- Queries
  Configs <- Emacs
  Pasts <- Short
  MaxPast = 2
  MaxRecalled = 2
  MaxCount = 2
  MaxDepth = 4
PROPERTY LiveLineComesBack
CHECK_DEADLOCK FALSE
