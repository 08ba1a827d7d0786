CONSTANTS
  Att = {a1}
  Manager = {m1, m2}
  None = None
SPECIFICATION Spec
INVARIANT OpenIsClosable
CHECK_DEADLOCK FALSE
