CONSTANTS
  Ops = {o1, o2}
  Requests <- MCRequests
  MaxInput = 1
  Works = {w1, w2, w3}
  Closers = {c1, c2}
  Readers = {r1, r2}
  Contents = {old, new}
  Compact = 1
  MaxEvents = 4
  Call = {n1, n2, n3, n4}
SYMMETRY Symm
SPECIFICATION MCSpec
INVARIANTS
  NoTouchAfterDone
  StopIsNotLost
  NothingLeftBehind
  EventsOnce
  NextIsSound
CHECK_DEADLOCK FALSE
