CONSTANTS
  p1 = p1
  p2 = p2
  k1 = k1
  k2 = k2
  s1 = s1
  s2 = s2
  l1 = l1
  Port = {p1}
  Key = {k1, k2}
  Backend = {s1, s2}
  Local = {l1}
  None = None
  Malformed = Malformed
  BadBackend = BadBackend
  Client = {t1}
  Background = {t1}
  Requests <- AllRequests
  Events <- SoloEvents
  Overlays <- SoloOverlays
  Faults = {"state"}
SPECIFICATION Spec
INVARIANTS TypeOK DefaultDeny AckedGrantSurvives AckedRevocationSurvives AckedBackendSurvives AckedRemapSurvives AckedPinSurvives EvictedIsUnpinned EvictedIsUngranted
PROPERTY OnlyAsNamed
