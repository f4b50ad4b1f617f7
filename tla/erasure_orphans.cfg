SPECIFICATION ESpec
CONSTANTS
  w1 = w1  h1 = h1  k1 = k1  k2 = k2  p1 = p1  p2 = p2  q1 = q1
  Workers = {w1}
  Hooks = {h1}
  Keys = {k1}
  ExtIds = {p1, p2}
  TopLevel = {}
  LocalKeys = {k1}
  Questions = {q1}
  Starts = {"future"}
  Services <- MCServices
  Config <- MCConfig
  MaxFuture = 2
  Announced = {"canceled"}
  Anon = Anon
  Nobody = Nobody
  None = None
SYMMETRY Symmetric
PROPERTY NoOrphans
