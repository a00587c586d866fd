SPECIFICATION SessionSpec
CONSTANTS
    Units = {"a"}
    MaxKeys = 3
    MaxLine = 2
    MaxPushed = 1
INVARIANT EndIsAsked
