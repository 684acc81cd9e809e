CONSTANTS
  Call = {c1, c2, c3, c4}
  Threshold = 2
  ResetAfter = 2
  None = None
  Request = {r1, r2}
  Limit = 2
  Window = 2
  MaxDelay = 1
  Conn = {w1, w2}
  MessageLimit = 2
  MessageWindow = 1
  TypingLimit = 2
  TypingWindow = 2
  Cooldown = 2
  Keep = 2
  Caller = {f1, f2, f3}
  Route = {a, b}
  FareTTL = 2
  RouteTTL = 2
  Capacity = 1
  MaxTime = 2
  NoEntry = NoEntry
SPECIFICATION GuardsSpec
CHECK_DEADLOCK FALSE
INVARIANTS ProbeHeld RatesBounded ChatBounded RoutesShared
PROPERTY NobodyShutOut
