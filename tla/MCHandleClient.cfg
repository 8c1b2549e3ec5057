CONSTANTS
  MaxConn <- MCMaxConn
  MaxRequest <- MCMaxRequest
  TimerStart <- MCTimerStart
  RequestStart <- MCRequestStart
  NumMsg <- MCNumMsg
  Parts <- MCParts
SPECIFICATION FairClientSpec
INVARIANTS
  FaultsNamed
  LeftBehind
  UsedIsLive
  OwnRequest
  PromptClientCut
PROPERTIES
  LeaseKept
  SlotComesBack
\* The module ends where the memory is misused, and connections are bounded.
CHECK_DEADLOCK FALSE
