CONSTANTS
  Visitor = {q1, q2}
  Seed = s0
  Legacy = TRUE
  Ops = {"login"}
  CallsFail = FALSE
SPECIFICATION SessionSpec
CHECK_DEADLOCK FALSE
INVARIANT RefusalNeedsReset
