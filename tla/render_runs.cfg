CONSTANTS
  u1 = u1
  good = good
  bad = bad
  Users = {u1}
  Segments = {1}
  MaxTexts = 2
  Indices = {0}
  Outputs = {good, bad}
  Valid = {good}
  MaxAttempts <- MCOneAttempt
  MaxStyles = 1
  MaxJobs = 2
  MaxRuns = 2
  MaxAsks = 3
  MaxLate = 1
SPECIFICATION Spec
VIEW Shifted
CHECK_DEADLOCK FALSE
INVARIANTS TypeOK ManifestIsSpoken SucceededWasValidated CompletedIsRendered
