SPECIFICATION MCSpec
CONSTANTS
  FullBlock = 4
  LineUnits = {"a", "sp", "sq", "dq", "bs"}
  BreakUnits = {"sp", "bs"}
  Answers <- MCAnswers
  Suffix <- MCSuffix
  ListingLimit = 2
  MaxLine = 4
  MaxMeddling = 1
  MaxBytes = 5
  MaxWrites = 3
  MaxUnits = 5
  MaxPieces = 2
  MaxStatements = 2
  MaxCommands = 3
  MaxRecalled = 2
  Letters = {"a"}
  Patterns <- RecallPatterns
  Configs <- RecallConfigs
  Pasts <- RecallPasts
  MaxPast = 2
  MaxCount = 2
  MaxDepth = 4
  MaxNames = 4
  MaxSettings = 2
  Settings <- ModeSettings
  Terminals <- ModeTerminals
  StringCodes = {"bl", "cl"}
  DrawnWith = {"bl"}
  WithoutThem <- Unadorned
  CapabilityTexts = {"", "yes", "no", "0", "3", "longer than it"}
  Blank = ""
  SevenBytes <- TextsKept
  Spelled <- TextsSpelled
  TerminalNames = {"none", "wide", "narrow", "emacs"}
  Descriptions <- KnownTerminals
  WindowSizes <- ScreenSizes
INVARIANTS DecodesAnyChunks TornWriteIsLocal WordsHaveTheirSources ReferencesExpand
  DescriptionsAreFollowed BindingsAreFound DeviceShowsMode DisplayShowsView TextsArriveWhole
PROPERTIES CompletionReadsBack 
CHECK_DEADLOCK FALSE
