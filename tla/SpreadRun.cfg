SPECIFICATION SpreadSpec
CONSTANTS
  Writer = {console, chat}
  Chat = {chat}
  Screen = {x1}
  CustomCodes = {1}
  QueueSize = 2
  MaxCode = 2
  Shared = {1}
  MaxStates = 1
  Horizons = 2
  MaxRuns = 1
INVARIANTS
  NothingUnsaved
  
  OnePushPerAlarm
  ShownInOrder
  LostOnlyWhenOld
  CompletionIsTrue

  
  
\* The day's codes, and with them the declarations, run out.
CHECK_DEADLOCK FALSE
