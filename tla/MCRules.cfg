SPECIFICATION Spec
CONSTANTS
  Unset = Unset
  Bad = Bad
  Refused = Refused
  NodeTypes = {"passthrough", "set_value", "echo_result", "llm_chain", "rag.retrieve", "web.search", "hitl.gate", "domain.sql.query"}
  ReservedIds = {"a:b"}
  Routers = {"field_truthy", "field_equals", "field_in", "field_compare", "choice"}
  Keys = {"size", "recommendation", "actor"}
  Values = {"new"}
  Words <- MCWords
  Targets = {"recommendation"}
  Top <- MCTop
  Bag <- MCBag
  RouteItems <- MCRouteItems
  RouteStates <- MCRouteStates
  SearchConfigs <- MCSearchConfigs
  SearchStates <- MCSearchStates
  SearchAnswers <- MCSearchAnswers
  Definitions <- MCDefinitions
  Env <- MCEnv
INVARIANTS DecisionsRestricted PatchFailsClosed DeadPolicies RoutesMeanWhatTheySay WebSearchStaysBounded AcceptedDefinitionsBuild BindingsFailClosed
CHECK_DEADLOCK FALSE
