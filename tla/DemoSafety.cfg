SPECIFICATION WorkerSpec
CONSTANTS
  Limits <- MCLimits
  Revisions = {r0, r1}
  n1 = n1
  d1 = d1
  TestIds = {n1}
  Details = {d1}
  CutDetails = {}
  ControlDetails = {}
  Texts <- MCTexts
  Patches <- MCPatches
  NoResult = NoResult
  NoDetail = NoDetail
  NoRevision = NoRevision
  NoFile = NoFile
  Torn = Torn
INVARIANTS
  ShownAsDesigned
  ShownIsTrue
  VerdictStands
  ScriptSuffices
CHECK_DEADLOCK FALSE
