CONSTANTS
  Message = {m1, m2}
  Receiver = {r1}
  Capacity = 1
  Nobody = Nobody
  Msg = {p1, p2}
  Sub = {s1}
  TopicCap = 1
  SubCap = 1
  None = None
SPECIFICATION MCSpec
INVARIANTS AcceptedOnce
PROPERTIES MailboxCallsReturn 
CHECK_DEADLOCK FALSE
