SPECIFICATION Spec
CONSTANTS
  Unset = Unset
  Threads = {h1}
  Turns = {c1, c2, c3}
  Nodes <- MCNodes
  Gates = {}
  Writes <- MCWrites
  Path <- MCPath
  Regenerating = {c3}
  Keys = {"message"}
  InState = {TRUE}
  OnePerThread = TRUE
  Failing = {c1, c2, c3}
INVARIANT CurrentMessage
