SPECIFICATION Spec
CONSTANTS
  b1 = b1  b2 = b2  b3 = b3
  q1 = q1  q2 = q2  t1 = t1  t2 = t2
  Bookings = {b1, b2}
  Questions = {q1, q2}
  Texts = {t1, t2}
  TTL = 2
  Latency = 1
SYMMETRY Symmetric
INVARIANTS FormTypeOK ReadsBack
PROPERTY ClearIsRecent
