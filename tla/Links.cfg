CONSTANTS
  Here = here
  There = there
  c1 = c1
  c2 = c2
  c3 = c3
  Conn = {c1, c2, c3}
  First <- Firsts
  None = None
  Setups <- Cases
SPECIFICATION Spec
INVARIANTS TypeOK ServesInstalled NoMissedConnection RemovedIsUnlinked
PROPERTIES Settles EvictionEnds
CHECK_DEADLOCK FALSE
