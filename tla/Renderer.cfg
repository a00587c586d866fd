SPECIFICATION DisplaySpec
CONSTANTS
  Rows = 3
  Columns = 2
  Glyphs = {"a", "wide"}
  Prompts <- MCPrompts
  Profiles <- MCProfiles
  Echoes <- MCEchoes
  MaxLine = 3
  MaxMishaps = 1
INVARIANTS TerminalShowsFrame HostRowsKept
CHECK_DEADLOCK FALSE
