SPECIFICATION Spec
CONSTANTS
  Unset = Unset
  Ids = {r1, r2}
  Calls = {c1, c2, c3}
  Agents = {a}
  Owner <- MCOwner
  Cards = {k1}
  SaveStatuses = {"proposed", "draft"}
  Words = {"rejected", "bogus"}
  Age <- MCAge
  Limit = 2
  TwoWrites = TRUE
  Failing = {c1, c2, c3}
INVARIANTS TypeOK IndexAgrees DocumentsHaveRows ListMatchesStore
PROPERTIES StatusKeepsBody BackfillReportIsTrue
SYMMETRY MCSymmetry
CHECK_DEADLOCK FALSE
