CONSTANTS
  Task = {t1, t2}
SPECIFICATION Spec
INVARIANTS ReturnJoins
CHECK_DEADLOCK FALSE
