SPECIFICATION Spec
CONSTANTS
  Kinds = {"consumer", "objectStore"}
  ReadOnlyModes = {TRUE, FALSE}
  Uses = {TRUE}
  Flags <- MCFlags
  MaxOps = 3
  MaxFaults = 1
INVARIANT AccountOutlivesDependents
PROPERTY LeavesNothingBehind
PROPERTY ReadyMatchesSpec
PROPERTY DeletionsEnd
PROPERTY SpecErrorsShow
CHECK_DEADLOCK FALSE
