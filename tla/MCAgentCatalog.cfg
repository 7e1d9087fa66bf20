SPECIFICATION Spec
CONSTANTS
  Unset = Unset
  Bad = Bad
  AuditMax = 3
  Agents = {1, 2}
  Versions = {1, 2}
  Threads = {t1, t2}
  Child <- MCChild
  MaxDepth <- MCMaxDepth
  Sessioned <- MCSessioned
  Prompts <- MCPrompts
  ContentDir <- MCContentDir
  Files <- MCFiles
  MaxCalls = 5
  OneWriter = TRUE
INVARIANTS CacheFresh EmbedsBounded ContentCurrent AuditTellsCatalog
CHECK_DEADLOCK FALSE
