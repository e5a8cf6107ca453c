SPECIFICATION FairSpec
CONSTANTS
  Boards <- MCBoards
  FselWords <- MCFsel
  PullWords <- MCPull
INVARIANTS TypeOK AnswersTrue MemoryIsThere PinsConfigured
PROPERTY Initialised
