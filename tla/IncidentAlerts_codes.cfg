SPECIFICATION Spec
CONSTANTS
  Writer = {console, chat}
  Chat = {chat}
  Screen = {x1}
  CustomCodes = {2}
  QueueSize = 2
  MaxCode = 2
  Shared = {0, 1}
  MaxStates = 2
INVARIANTS
  GeneratedCodeIsFree
\* The day's codes, and with them the declarations, run out.
CHECK_DEADLOCK FALSE
