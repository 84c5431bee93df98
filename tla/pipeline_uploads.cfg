CONSTANTS
  k1 = k1
  k2 = k2
  c1 = c1
  c2 = c2
  small = small
  other = other
  large = large
  None = None
  Keys = {k1, k2}
  Requests = {c1, c2}
  Sizes = {1}
  Contents = {small}
  SizeOf <- MCSizeOf
  MaxStorage = 3
  MaxUploads = 2
  MaxAttempts <- MCOneAttempt
SPECIFICATION Spec
SYMMETRY MCSymmetry
INVARIANTS TypeOK QuotaIsExact NoReservationLeak AcceptedIffOriginal ReceivedIsSealed
