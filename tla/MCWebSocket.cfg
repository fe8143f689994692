SPECIFICATION MCSpec
CONSTANTS
  Ids = {1, 2}
  Callers = {c1}
  MaxFrames = 1
  MaxStarts = 1
  Connectors = {d1, d2}
SYMMETRY Swaps
INVARIANTS  NoOrphanSession DeadIsUnlisted
CHECK_DEADLOCK FALSE
