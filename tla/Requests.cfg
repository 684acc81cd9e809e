CONSTANTS
  Request = {q1, q2, q3}
  Key = {k}
  Body = {r1, r2}
  LockTimeout = 1
  Expiration = 2
  EvictionInterval = 1
  Capacity = 2
  InMemory = FALSE
  Faults = {"slow", "store", "error", "large", "crash"}
  MaxTime = 2
  None = None
  Verifier = {q1, q2, q3}
  NoOne = NoOne
  Registrant = {r1, r2}
  Resender = {s1}
  MaxAttempts = 2
  Visitor = {q1, q2, q3}
  Seed = s0
  Legacy = TRUE
  CallsFail = TRUE
  Ops = {"login", "refresh", "logout", "reset", "email"}
SPECIFICATION RequestsSpec
SYMMETRY Symmetry
CHECK_DEADLOCK FALSE
INVARIANTS CodesHold AccountIsOfItsCode OldSessionsEnd SecondRunNeedsFault LocksBounded
PROPERTIES NoSuccessorOfDead RunsOncePerKey
