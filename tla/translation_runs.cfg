CONSTANTS
  u1 = u1
  u2 = u2
  Editors = {u2}
  Owners = {u1}
  Start <- MCStart
  End <- MCEnd
  MaxOwned = 2
  MaxSpan = 3
  MaxPolicies = 2
  MaxRevisions = 2
  MaxLate = 1
  MaxAttempts <- MCTwoBatches
SPECIFICATION FairSpec
VIEW Shifted
CHECK_DEADLOCK FALSE
INVARIANTS TypeOK ApprovedIsComplete PublishedOnce BatchesNeedApproval PlanIsFewest
PROPERTIES HeadNeverRegresses RunSettles
