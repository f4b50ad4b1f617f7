SPECIFICATION Spec
CONSTANTS
  w1 = w1  w2 = w2  h1 = h1  h2 = h2
  k1 = k1  k2 = k2  k3 = k3
  p1 = p1  p2 = p2  q1 = q1  q2 = q2
  Workers = {w1}
  Hooks = {h1}
  Keys = {k1}
  ExtIds = {p1}
  TopLevel = {}
  LocalKeys = {k1}
  Questions = {q1}
  Starts = {"future"}
  Services <- MCServices
  Config <- MCConfig
  MaxFuture = 1
  Announced = {"noshow", "canceled"}
  Anon = Anon
  Nobody = Nobody
  None = None
SYMMETRY Symmetric
INVARIANT TrackedAfter201
