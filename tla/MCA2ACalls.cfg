SPECIFICATION Spec
CONSTANTS
  Unset = Unset
  Bad = Bad
  Tasks = {t1, t2}
  Workers = {w1, w2}
  MaxUpdates = 1
  Calls = {c1}
  Entries <- MCEntries
  MaxAttempts = 2
  MaxHeartbeats = 1
INVARIANTS CallOutcome PauseIsReported AcceptedTaskIsFound
CHECK_DEADLOCK FALSE
