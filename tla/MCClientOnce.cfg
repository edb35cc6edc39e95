SPECIFICATION Spec
CONSTANTS
  f = f
  Functions = {f}
  Watched <- MCMiddle
  MaxOnce = 1
  MaxCalls = 3
CHECK_DEADLOCK FALSE
PROPERTY
  OnceCompletely
