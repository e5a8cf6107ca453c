SPECIFICATION Spec
CONSTANTS
  Boards <- MCBoards
  FselWords <- MCFsel
  PullWords <- MCPull
INVARIANT Emmc2Selected
