------------------------------ MODULE GraphBuild ------------------------------
(***************************************************************************)
(* From a parsed definition to a compiled graph: graph/builder.py and       *)
(* graph/session_builder.py with the router and node factories they call    *)
(* (registry/routers.py, nodes/builtin.py, hitl/gate.py), and what          *)
(* LangGraph refuses when it compiles.  invoke_agent nodes, whose children   *)
(* compile inside their parent, are the subject of AgentCatalog.            *)
(*                                                                         *)
(* A state is a function from the keys it holds to numbers; strings are the  *)
(* labels Python makes of them with str().                                  *)
(***************************************************************************)
EXTENDS AgentDefinitions
LOCAL INSTANCE TLC

CONSTANTS
  NodeTypes, Routers,     \* the ids the two registries hold
  ReservedIds             \* node ids LangGraph keeps for itself: with a : or a |, __end__
-----------------------------------------------------------------------------
(* Routers: a factory refuses its config, or yields a function of the state. *)

CompareOps == {"eq", "ne", "lt", "le", "gt", "ge"}

RouterConfigAccepted(router, config) ==
  /\ router \in Routers
  /\ Given(Get(config, "field"))
  /\ router \in {"field_equals", "field_compare"} => "value" \in DOMAIN config
  /\ router = "field_in" => Get(config, "values") \notin {Unset, Bad, {}}
  /\ router = "field_compare" => Get(config, "op") \in CompareOps

Truthy(v) == v \notin {Unset, 0}

\* Mutant: a missing value compares as zero.
CompareZero(op, a, b) ==
  LET n == IF a = Unset THEN 0 ELSE a
  IN  CASE op = "eq" -> n = b [] op = "ne" -> n # b [] op = "lt" -> n < b
        [] op = "le" -> n <= b [] op = "gt" -> n > b [] op = "ge" -> n >= b

\* Ordering None raises a TypeError, which the router reads as false.
Compare(op, a, b) ==
  \/ op = "eq" /\ a = b
  \/ op = "ne" /\ a # b
  \/ /\ Unset \notin {a, b}
     /\ \/ op = "lt" /\ a < b
        \/ op = "le" /\ a <= b
        \/ op = "gt" /\ a > b
        \/ op = "ge" /\ a >= b

Str(v) == ToString(v)
Chosen(config, v) ==
  IF v # Unset THEN Str(v)
  ELSE IF "default" \in DOMAIN config THEN config["default"] ELSE "default"

RouterLabel(router, config, state) ==
  LET v == Get(state, config["field"])
      BinaryLabel(label, otherwise) ==
        IF label \in DOMAIN config THEN config[label] ELSE otherwise
      holds == \/ router = "field_truthy" /\ Truthy(v)
               \/ router = "field_equals" /\ v = config["value"]
               \/ router = "field_in" /\ v \in config["values"]
               \/ router = "field_compare" /\ Compare(config["op"], v, config["value"])
  IN  IF router = "choice" THEN Chosen(config, v)
      ELSE IF holds THEN BinaryLabel("true_label", "yes")
      ELSE BinaryLabel("false_label", "no")

\* Where a conditional edge leads; a label without a mapping fails the run.
Branch(cond, state) ==
  LET label == RouterLabel(cond.router, cond.config, state)
  IN  IF label \in DOMAIN cond.mapping THEN cond.mapping[label] ELSE Refused
-----------------------------------------------------------------------------
(* Node configuration. *)

\* The planes the nodes of a type run on, and what the bindings of the agent offer
\* their factory.
PlanesOf(type) ==
  CASE type = "llm_chain" -> {"llm"}
    [] type = "rag.retrieve" -> {"search"}
    [] type = "domain.sql.query" -> {"sql"}
    [] OTHER -> {}
Offered(d, type, env) ==
  CASE type = "llm_chain" -> ResolveBinding(d.bindings, "llm", env)
    [] type = "rag.retrieve" -> ResolveBinding(d.bindings, "search", env)
    [] type = "domain.sql.query" ->
         LET sql == ResolveBinding(d.bindings, "sql", env)
         IN  Merged(sql, [server_hostname |-> sql["host"]])
    [] OTHER -> <<>>

\* apply_gate_build_config: what it sets whatever the node says.
GateConfig(d, node) ==
  IF node.type # "hitl.gate" THEN <<>>
  ELSE Merged([node_id |-> node.id],
              IF d.hitl # Unset /\ "enabled" \in DOMAIN d.hitl
              THEN [agent_hitl_enabled |-> d.hitl["enabled"]] ELSE <<>>)

\* What any node, or a gate, is called unless it says otherwise.
Named(d, node) ==
  IF node.type = "hitl.gate" THEN [agent_id |-> d.agent_id, gate_id |-> node.id]
  ELSE [agent_id |-> d.agent_id]

\* add_nodes: the node's own keys win over the injected ones, a null one too.
NodeConfig(d, node, env) ==
  LET offered == Offered(d, node.type, env)
      filled == Restrict(offered, {f \in DOMAIN offered : offered[f] # Unset})
  IN  Merged(GateConfig(d, node), Merged(node.config, Merged(Named(d, node), filled)))

\* int(config.get("top_k", default)): a missing key is defaulted, a null one raises.
CountGiven(config) == "top_k" \in DOMAIN config => Given(config["top_k"])

\* The factories of nodes/builtin.py, each called once per node when the graph is built.
\* Those not named read their config with str() and bool() only; a type the product
\* registers is taken to accept any.
FactoryAccepts(type, config) ==
  CASE type = "set_value" -> Given(Get(config, "field"))
    [] type = "llm_chain" -> Given(Get(config, "chain"))
    [] type = "echo_result" -> Get(config, "from_fields") # Bad
    [] type = "rag.retrieve" -> CountGiven(config)
    [] type = "web.search" -> CountGiven(config) /\ Get(config, "allowed_domains") # Bad
    [] OTHER -> TRUE
-----------------------------------------------------------------------------
(* The graph. *)

NodesBuilt(d, env) ==
  \A i \in DOMAIN d.nodes :
    LET node == d.nodes[i]
    IN  /\ node.type \in NodeTypes /\ node.id \notin ReservedIds
        /\ \A p \in PlanesOf(node.type) : ~Unresolved(d.bindings, p, env)
        /\ FactoryAccepts(node.type, NodeConfig(d, node, env))

\* Every factory names its router function _route, and LangGraph refuses two
\* branches of one name at one node.
BranchesBuilt(d) ==
  /\ \A i \in DOMAIN d.conditional :
       RouterConfigAccepted(d.conditional[i].router, d.conditional[i].config)
  /\ \A i, j \in DOMAIN d.conditional :
       d.conditional[i].source = d.conditional[j].source => i = j

SessionGraph(d) ==
  MemoryEnabled(d.memory) =>
    /\ SessionAccepted(d.session)
    /\ "session_prepare" \notin NodeIds(d.nodes)
    /\ \A mode \in {"initialize", "converse", "regenerate"} :
         SessionEntries(d)[mode] \in NodeIds(d.nodes) \cup {"END"}

\* LangGraph: whatever an edge or a branch leads to is a node or END.
TargetsKnown(d) ==
  LET known == NodeIds(d.nodes) \cup {"END"}
  IN  /\ \A i \in DOMAIN d.edges : d.edges[i][2] \in known
      /\ \A i \in DOMAIN d.conditional :
           \A l \in DOMAIN d.conditional[i].mapping : d.conditional[i].mapping[l] \in known

\* build_graph_for_definition returns a compiled graph.
Compiles(d, env) ==
  /\ NodesBuilt(d, env)
  /\ BranchesBuilt(d)
  /\ SessionGraph(d)
  /\ TargetsKnown(d)
-----------------------------------------------------------------------------
(* web.search: an enrichment that never fails the run. *)

\* Mutant: the node falls back to the user's question.
WebQueryAny(config, state) ==
  IF Truthy(Get(state, "web_search_query")) THEN "web_search_query" ELSE "question"

WebQuery(config, state) ==
  IF Given(Get(config, "query_key")) THEN config["query_key"] ELSE "web_search_query"

WebTopK(config) ==
  LET k == IF "top_k" \in DOMAIN config THEN config["top_k"] ELSE 3
  IN  IF k > 10 THEN 10 ELSE IF k < 1 THEN 1 ELSE k

\* answer is the number of hits the provider has, Unset when none is
\* configured, Refused when the call raises.
WebSearch(config, state, answer) ==
  LET query == WebQuery(config, state)
      called == /\ Get(config, "enabled") = TRUE
                /\ Truthy(Get(state, query))
                /\ answer # Unset
  IN  [asked |-> IF called THEN {query} ELSE {},
       hits  |-> IF ~called \/ answer = Refused THEN 0
                 ELSE IF answer > WebTopK(config) THEN WebTopK(config) ELSE answer]
=============================================================================
