CONSTANTS
  a = a
  b = b
  a1 = a1
  a2 = a2
  b1 = b1
  Key <- Keys
  Peer = {a1, a2, b1}
  KeyOf <- Owner
  Dialed = {a1}
  Local = {1, 2}
  Port = {1, 2}
  AnyPort = AnyPort
  None = None
  Announcements <- AllOrNothing
  Remaps <- OntoOne
  Task = {t1, t2}
SPECIFICATION Spec
INVARIANT EvictedIsGone
