SPECIFICATION Spec
CONSTANTS
  Unset = Unset
  Threads = {h1, h2}
  Turns = {c1, c2, c3}
  Nodes <- MCNodes
  Gates = {"approve"}
  Writes <- MCWrites
  Path <- MCGatedPath
  Regenerating = {c3}
  Keys = {"user_message"}
  InState = {TRUE, FALSE}
  OnePerThread = FALSE
  Failing = {c1, c2, c3}
INVARIANTS InitializedByAnswer AppearsPerRun PausedTurnsAreSilent HitlKeysOfResumes
