SPECIFICATION FairSpec
CONSTANTS
  Limits <- MCLimits
  Revisions = {r0, r1}
  n1 = n1
  n2 = n2
  d1 = d1
  cut = cut
  ctl = ctl
  TestIds = {n1, n2}
  Details = {d1, cut, ctl}
  CutDetails = {cut}
  ControlDetails = {ctl}
  Texts <- MCTexts
  Patches <- MCPatches
  NoResult = NoResult
  NoDetail = NoDetail
  NoRevision = NoRevision
INVARIANTS
  SuccessIsEarned
  BudgetsHold
  NoBlindDecision
  PatchesAreTested
  RepeatsStop
PROPERTIES
  ImplementsLifecycle
  RunsEnd
CHECK_DEADLOCK FALSE
