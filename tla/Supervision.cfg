CONSTANTS
  Process = {p1, p2, p3}
  NoSocket = NoSocket
  Stale = Stale
  MaxStarting = 1
  Managed = p1
  Arguments = {a1, a2}
  None = None
  Torn = Torn
  Version = {r1, r2}
  Setups <- CommandsOrDeaths
SPECIFICATION Spec
INVARIANTS TypeOK Exclusive JobHasUnit RunsAsInstalled RunsAsReplaced
PROPERTY Recovers
CHECK_DEADLOCK FALSE
