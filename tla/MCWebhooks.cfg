CONSTANTS
  Request = {r1, r2}
  Replica = {c1, c2}
  First = w0
  zero = zero
  one = one
  Null = null
  Zero = zero
  Val <- MCVal
  Optional <- MCOptional
  Body <- MCBody
SPECIFICATION Spec
CHECK_DEADLOCK FALSE
INVARIANTS
  RemovalIsFinal
  OneRemoval
  SuccessIsApplied
  AnswerIsCurrent
PROPERTY
  UpdatesMerge
