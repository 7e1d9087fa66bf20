SPECIFICATION Spec
CONSTANTS
  Unset = Unset
  Threads = {h1}
  Turns = {c1, c2, c3}
  Nodes <- MCNodes
  Gates = {"approve"}
  Writes <- MCWrites
  Path <- MCGatedPath
  Regenerating = {c2, c3}
  Keys = {"user_message"}
  InState = {TRUE}
  OnePerThread = TRUE
  Failing = {}
INVARIANT GatePassesResumesOnly
