SPECIFICATION FairSpec
CONSTANTS
  Unset = Unset
  Agents = {"parent", "child"}
  Nodes <- MCNodes
  Ids <- MCIds
  Sessions = {s1, s2, s3}
  Calls = {c1, c2, c3}
  Fields = {"f"}
  Values = {"no", "yes"}
  End = "END"
  Kind <- MCKind
  Id <- MCId
  GateId <- MCId
  Owner <- MCOwner
  GraphOf <- MCGraphOf
  Start <- MCStart
  Succ <- MCSucc
  RouteField <- MCRouteField
  WriteField <- MCWriteField
  Policy <- MCPolicy
  HitlOn <- MCHitlOn
  Gated <- MCGated
  Inputs <- MCInputs
  Patches <- MCPatches
  Unloaded = {"parent"}
  OnePerSession = TRUE
  Failing = {c3}
  MayDelete = TRUE
INVARIANTS ResumeReachesGate NoRework
PROPERTIES SessionLifecycle DecisionTakesEffect
