SPECIFICATION Spec
CONSTANTS
  Unset = Unset
  Agents = {"review"}
  Nodes <- MCNodes
  Ids <- MCNodes
  Sessions = {s1, s2}
  Calls = {c1, c2, c3}
  Fields = {"fast"}
  Values = {"no", "yes"}
  End = "END"
  Kind <- MCKind
  Id <- MCId
  GateId <- MCId
  Owner <- MCOwner
  GraphOf <- MCOwner
  Start <- MCStart
  Succ <- MCSucc
  RouteField <- MCRouteField
  WriteField <- MCWriteField
  Policy <- MCPolicy
  HitlOn <- MCHitlOn
  Gated <- MCGated
  Inputs <- MCInputs
  Patches <- MCPatches
  Unloaded = {"review"}
  OnePerSession = FALSE
  Failing = {c1, c2, c3}
  MayDelete = TRUE
INVARIANTS TypeOK GuardedRuns AuditedDecisions WaitingIsUndecided RejectedNotPersisted
