SPECIFICATION Spec
CONSTANTS
  Timeout = 6
  PollInterval = 2
  HttpTimeout = 3
  MaxLag = 0
  MaxRounding = 0
  MaxClock = 30
INVARIANT WithinTimeout
CHECK_DEADLOCK FALSE
