SPECIFICATION FairSpec
CONSTANTS
  f = f
  Functions = {f}
  Watched <- MCMiddle
  MaxOnce = 1
  MaxCalls = 3
CHECK_DEADLOCK FALSE
INVARIANTS
  TypeOK
  SendingWorks
  NoStrayException
  OnceGone
  TaskNotified
PROPERTIES
  EachHandlerOnce
  LeavesForGood
