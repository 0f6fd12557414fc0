CONSTANTS
  w1 = w1
  w2 = w2
  w3 = w3
  t1 = t1
  Workload = {w1, w2, w3}
  Token = {t1}
  Presents <- Shared
  Conn = {c1, c2}
  None = None
  Enroll = Enroll
  Last = 1
  Setups <- TellOrEnroll
SPECIFICATION Spec
INVARIANTS TypeOK AdmittedIsPinned TokenAdmitsOne Informed
PROPERTY PinnedOnPurpose Joins
CHECK_DEADLOCK FALSE
