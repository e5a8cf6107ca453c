SPECIFICATION ToolSpec
CONSTANTS
  Programs <- MCPrograms
  Versions = {1, 2}
  Sizes <- MCSizes
  MaxBuilds = 2
  BootSizes = {3, 4, 5}
  IfsSizes = {0, 3, 4, 6}
  MaxChanges = 2
INVARIANTS CompleteUnlessFailed OutputIsImage
CHECK_DEADLOCK FALSE
