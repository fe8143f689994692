CONSTANTS
  Msg = {m1, m2, m3, m4}
  m1 = m1
  m2 = m2
  m3 = m3
  m4 = m4
  Sub = {s1, s2}
  TopicCap = 1
  SubCap = 1
  None = None
SPECIFICATION MCSpec
SYMMETRY Symm
INVARIANTS InOrderNoGaps  ClosedTopicEnds
CHECK_DEADLOCK FALSE
