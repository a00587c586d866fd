SPECIFICATION MCSpec
CONSTANTS
  None = None
  Units = {"a", "A", " "}
  Class <- Classes
  Toggled <- Cases
  Openings <- InCommands
  Bound <- Changes
  Typed = {"a"}
  Digits = {2}
  WorkLimit = 6
  MaxKeys = 6
CHECK_DEADLOCK FALSE
INVARIANTS GroupsAreOwned
PROPERTIES OneRecordPerCommand ReplayFaithful ReplayEnds
