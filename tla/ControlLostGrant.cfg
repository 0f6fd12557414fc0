CONSTANTS
  p1 = p1
  p2 = p2
  k1 = k1
  k2 = k2
  s1 = s1
  s2 = s2
  l1 = l1
  Port = {p1, p2}
  Key = {k1, k2}
  Backend = {s1, s2}
  Local = {l1}
  None = None
  Malformed = Malformed
  BadBackend = BadBackend
  Client = {c1, c2}
  Background = {}
  Requests <- TwoExposes
  Events = {}
  Overlays <- NoOverlay
  Faults = {}
SPECIFICATION Spec
INVARIANTS AckedGrantSurvives
