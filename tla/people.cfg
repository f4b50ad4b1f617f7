SPECIFICATION Spec
CONSTANTS
  e1 = e1  u1 = u1  k1 = k1  r1 = r1  r2 = r2
  name = name  email = email  birth = birth  v1 = v1  v2 = v2  blank = blank
  ExtIds = {e1}
  Uuids = {u1}
  Keys = {k1}
  Requests = {r1, r2}
  Fields = {name, email, birth}
  Overlays = {name, email}
  Name = name
  Values = {v1, v2, blank}
  Blank = blank
  Bodies <- MCBodies
  MaxRows = 2
  Null = Null
SYMMETRY Symmetric
INVARIANTS PeopleTypeOK CrossReferences EchoesSent
PROPERTIES FieldsKept WithdrawnStaysHidden
