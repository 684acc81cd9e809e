CONSTANTS
  Driver = {x1, x2}
  Request = {q1, q2}
  None = None
SPECIFICATION Spec
SYMMETRY Symmetry
INVARIANTS EventsTellHistory AnswersHold BlameNeedsEvidence
PROPERTY StatusPath
