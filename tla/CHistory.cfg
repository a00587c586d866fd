SPECIFICATION MCSpec
CONSTANTS
    LastId = 3
    Unbounded = Unbounded
    LastNumber = 3
    Letters = {a}
    LineLimit = 2
    Sizes = {0, 1, 2}
    Header = Header
    Absent = Absent
    FileLimit = 2
    Limits = {1, 2, 3}
    Positions <- SomePositions
    Cursors = {c1, c2}
    Lines = {a, b}
    Units = {a}
    MaxKeys = 2
    MaxLine = 2
    MaxPushed = 1
    Savers = {p1, p2}
    Original = Original
    NoFile = NoFile
    Pieces = 3
INVARIANTS
    SharedCursorIsKnown LengthMirrors SavedIsRestored SavesAreWhole
    LinesAreHandedWhole TerminalIsGivenBack
PROPERTIES
    IndexesKept CursorsKeepTheirPlace
CHECK_DEADLOCK FALSE
