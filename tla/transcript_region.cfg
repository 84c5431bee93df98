CONSTANTS
  u1 = u1
  r1 = r1
  r2 = r2
  s1 = s1
  None = None
  Segments = {s1}
  Regions = {r1, r2}
  Users = {u1}
  MaxAttempts <- MCOneAttempt
  MaxRuns = 2
  MaxVersion = 3
SPECIFICATION Spec
INVARIANTS ReviewIsOfRegion
