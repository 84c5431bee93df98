CONSTANTS
  u1 = u1
  Users = {u1}
  Last = 1
  Slot = 4
  Tolerance = 1
  Unit = 10
  MaxSpeed = 15
  MaxRewrites = 1
  Durations = {5, 6, 9}
  MaxAttempts <- MCOneAttempt
  MaxTexts = 2
  MaxRuns = 2
  MaxCycles = 2
  MaxAsks = 3
  MaxSyntheses = 2
  MaxLate = 1
SPECIFICATION FairSpec
VIEW Shifted
CHECK_DEADLOCK FALSE
INVARIANTS TypeOK CompletedIsSpoken DecisionIsSound
PROPERTIES ImplementsSpeechBoard RunSettles
