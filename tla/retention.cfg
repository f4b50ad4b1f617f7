SPECIFICATION FairSpec
CONSTANTS
  e1 = e1  e2 = e2  r1 = r1  r2 = r2
  ExtIds = {e1, e2}
  Requests = {r1, r2}
  Returns = 1
  Retention = 1
  None = None
INVARIANTS RetentionTypeOK TraceKept
PROPERTIES ErasesWhatItFound PurgeReaches
