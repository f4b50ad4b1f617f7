SPECIFICATION Spec
CONSTANTS
  k1 = k1  k2 = k2  k3 = k3
  Keys = {k1, k2, k3}
  Services <- MCServices
  Config <- MCConfig
  Far = 3
SYMMETRY Symmetric
INVARIANT CapOnVisits
