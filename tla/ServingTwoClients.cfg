CONSTANTS
  c1 = c1
  c2 = c2
  p1 = p1
  p2 = p2
  k1 = k1
  k2 = k2
  f1 = f1
  g1 = g1
  g2 = g2
  s1 = s1
  s2 = s2
  n1 = n1
  site = site
  api = api
  other = other
  Port = {p1, p2}
  Key = {k1, k2}
  Forward = {f1}
  Http = Http
  Client = {c1, c2}
  Gateway = {g1, g2}
  Stream = {s1, s2}
  HttpRequest = {site, api, other}
  Routes <- SiteRoutes
  Name = {n1}
  Address = {a1, a2}
  None = None
  Setups <- OnePort
SPECIFICATION Spec
PROPERTIES NeverFallsBack
CHECK_DEADLOCK FALSE
