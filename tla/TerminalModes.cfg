SPECIFICATION Spec
CONSTANTS
    Terminals <- MCTerminals
    Settings <- MCSettings
    MaxSettings = 2
INVARIANT TerminalIsAsFound
CHECK_DEADLOCK FALSE
