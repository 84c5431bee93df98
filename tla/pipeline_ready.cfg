CONSTANTS
  k1 = k1
  k2 = k2
  c1 = c1
  c2 = c2
  small = small
  other = other
  large = large
  None = None
  Keys = {k1}
  Requests = {c1}
  Sizes = {1}
  Contents = {small}
  SizeOf <- MCSizeOf
  MaxStorage = 2
  MaxUploads = 1
  MaxAttempts <- MCTwoAttempts
SPECIFICATION Spec
INVARIANT CompletedIsReady
