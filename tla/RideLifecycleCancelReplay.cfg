CONSTANTS
  Driver = {d1, d2}
  Request = {q1, q2}
  None = None
SPECIFICATION Spec
INVARIANT CancelAcknowledgesOwnCancellation
