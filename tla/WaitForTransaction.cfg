SPECIFICATION FairSpec
CONSTANTS
  Timeout = 12
  PollInterval = 4
  HttpTimeout = 3
  MaxLag = 1
  MaxRounding = 1
  MaxClock = 40
INVARIANT TypeOK
INVARIANT NeverEarly
INVARIANT PollsCounted
INVARIANT LastPollLate
INVARIANT WaitBounded
PROPERTY WaitEnds
CHECK_DEADLOCK FALSE
