SPECIFICATION Spec
CONSTANTS
  Unset = Unset
  Bad = Bad
  Score <- MCScore
  Words <- MCWords
  Size <- MCSize
  MaxChars = 8
  Corpora = {"run_books"}
  Rows <- MCRows
  Writers = {w1}
  Configs <- MCConfigs
  Kinds <- MCKinds
  Ready <- MCReady
  FileName <- MCFileName
  EnvDir = "dir"
  EnvIndex <- MCEnvIndex
  EnvMap <- MCEnvMap
  Options <- MCOptions
  MaxSteps = 4
INVARIANTS AnswersUsable ProviderMatchesConfig VectorsMatchRows
CHECK_DEADLOCK FALSE
