SPECIFICATION Spec
CONSTANTS
  c1 = c1  c2 = c2  c3 = c3
  e1 = e1  e2 = e2
  plate = plate  color = color
  v1 = v1  v2 = v2
  Clients = {c1, c2, c3}
  Entities = {e1}
  Fields = {plate}
  Values = {v1, v2}
  None = None
SYMMETRY Symmetric
PROPERTY StoreSpec
