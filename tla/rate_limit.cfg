SPECIFICATION FairSpec
CONSTANTS
  c1 = c1  c2 = c2  c3 = c3
  Call <- TwoCalls
  Rates = {0, 2}
  Burst = 1
  Minute = 5
  MaxWait = 2
  MaxRetries = 1
  BaseBackoff = 1
  RetryAfters = {0, 3}
  MaxSpan = 5
INVARIANTS
  TypeOK
  WindowBound
  NoOversleep
PROPERTY EveryCallEnds
