SPECIFICATION FairSpec
CONSTANTS
  Op = {o1, o2}
  Thread = {t1, t2}
  MaxIssued = 2
CHECK_DEADLOCK FALSE
INVARIANTS
  PermitsConserved
PROPERTIES
  Refines
  NoTouchAfterDestroy
  AcquireCompletes
