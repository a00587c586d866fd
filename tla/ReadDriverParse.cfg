SPECIFICATION Spec
CONSTANTS
  Keys <- PrefixKeys
  Printable <- OnlyX
  Meta <- MetaX
  Bindings <- PrefixBindings
  Aliases <- PrefixAliases
  Configs <- LineAndCommand
  Outcomes <- Chunked
  MaxChunk = 2
  WorkLimit = 4
  MaxUnits = 4
  MaxSignals = 1
  MaxFailures = 0
  MaxLog = 10
INVARIANTS PrefixPending ParsesAsTyped
