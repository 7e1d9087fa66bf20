SPECIFICATION FairSpec
CONSTANTS
  Unset = Unset
  Threads = {h1, h2}
  Turns = {c1, c2, c3, c4}
  Nodes <- MCNodes
  Gates = {}
  Writes <- MCWrites
  Path <- MCPath
  Regenerating = {c3}
  Keys = {"user_message"}
  InState = {TRUE}
  OnePerThread = TRUE
  Failing = {c3, c4}
INVARIANTS TypeOK AnswersFollow
PROPERTIES TranscriptGrows TurnIsAnswered
