-------------------------- MODULE AgentDefinitions --------------------------
(***************************************************************************)
(* From an agent's YAML mapping to its AgentDefinition: the checks of        *)
(* schema/validate.py, core/bindings.py, core/routes_sugar.py and            *)
(* core/definition.py, and the memory and session blocks that               *)
(* session/models.py and session/policy.py read from the same mapping.      *)
(*                                                                         *)
(* A YAML mapping is a function from the keys it holds; a key with a null   *)
(* value maps to Unset.  Bad stands for a value of a type or shape the code  *)
(* refuses (a blank string included), Refused for a raised DefinitionError  *)
(* or EnvRefError: which message it carries, and which of several faults is  *)
(* reported first, is left out.  Numbers are integers.                      *)
(***************************************************************************)
EXTENDS HitlPolicy, Integers, Sequences, FiniteSets

CONSTANTS Bad, Refused

Get(map, k) == IF k \in DOMAIN map THEN map[k] ELSE Unset       \* dict.get
Given(v) == v \notin {Unset, Bad}     \* a non-blank string, a mapping, a list
Listed(v) == IF v = Unset THEN <<>> ELSE v                       \* value or []
-----------------------------------------------------------------------------
(* bindings: optional targets per infrastructure plane, and ${ENV:...}. *)

\* Mutant: an unset variable falls through to the process default.
ResolveEnvRefLenient(v, env) == IF v \in DOMAIN env THEN env[v] ELSE v

\* env maps the ${ENV:...} references to what the environment holds.
ResolveEnvRef(v, env) ==
  IF v \notin DOMAIN env THEN v ELSE IF env[v] = Unset THEN Refused ELSE env[v]

PlaneFields == [llm |-> {"endpoint", "deployment"}, search |-> {"endpoint", "index"},
                cosmos |-> {"endpoint", "database"}, sql |-> {"host", "http_path"}]
Planes == DOMAIN PlaneFields
KnobRange == [temperature |-> 0..2, top_p |-> 0..1, top_k |-> 1..1000,
              max_tokens |-> 1..128000]
Knobs(p) == IF p = "llm" THEN DOMAIN KnobRange ELSE {}

PlaneBlock(block, p) ==
  IF p # "sql" THEN Get(block, p)
  ELSE IF "sql-warehouse" \in DOMAIN block THEN block["sql-warehouse"]
  ELSE Get(block, "sql_warehouse")

PlaneAccepted(plane, p) ==
  \/ plane = Unset
  \/ /\ Given(plane)
     /\ \A f \in PlaneFields[p] : Get(plane, f) # Bad
     /\ \A k \in Knobs(p) : Get(plane, k) \in {Unset} \cup KnobRange[k]

ParseBindings(block) ==
  IF block = Unset THEN Unset
  ELSE IF block = Bad \/ \E p \in Planes : ~PlaneAccepted(PlaneBlock(block, p), p)
  THEN Refused
  ELSE [p \in Planes |->
          LET plane == PlaneBlock(block, p)
          IN  IF plane = Unset THEN Unset
              ELSE [f \in PlaneFields[p] \cup Knobs(p) |-> Get(plane, f)]]

\* resolve_llm_binding and its three siblings: they raise when a reference of the
\* plane is Unresolved, and return what the plane is bound to otherwise.
Binds(bindings, p) == bindings # Unset /\ bindings[p] # Unset
Unresolved(bindings, p, env) ==
  /\ Binds(bindings, p)
  /\ \E f \in PlaneFields[p] : ResolveEnvRef(bindings[p][f], env) = Refused
ResolveBinding(bindings, p, env) ==
  [f \in PlaneFields[p] \cup Knobs(p) |->
     IF ~Binds(bindings, p) THEN Unset
     ELSE IF f \in PlaneFields[p] THEN ResolveEnvRef(bindings[p][f], env)
     ELSE bindings[p][f]]

\* collect_cosmos_configure_kwargs over the bindings of all registered agents.
CosmosKwargs(all, env) ==
  LET rows == {ResolveBinding(b, "cosmos", env) : b \in all}
      named(f) == {r[f] : r \in rows} \ {Unset}
  IN  IF \/ \E b \in all : Unresolved(b, "cosmos", env)
         \/ \E f \in PlaneFields["cosmos"] : Cardinality(named(f)) > 1
      THEN Refused
      ELSE [f \in {g \in PlaneFields["cosmos"] : named(g) # {}} |->
              CHOOSE v \in named(f) : TRUE]
-----------------------------------------------------------------------------
(* memory and session. *)

MemoryStrategies == {"none", "window", "summary", "summary_buffer", "vector"}
MemoryRange == [k |-> 1..100, max_tokens |-> 1..128000, max_chars |-> 1000..512000,
                summary_trigger_tokens |-> 1..128000, summary_max_tokens |-> 1..32000,
                top_k |-> 1..50, similarity_threshold |-> 0..1,
                include_tool_messages |-> BOOLEAN]
MemoryDefault == [k |-> 10, max_tokens |-> 4000, max_chars |-> 16000,
                  summary_trigger_tokens |-> 6000, summary_max_tokens |-> 1500,
                  top_k |-> 5, similarity_threshold |-> 0, include_tool_messages |-> FALSE]

MemoryField(memory, f) ==
  IF f \in DOMAIN memory THEN memory[f]
  ELSE IF f = "k" /\ "turns" \in DOMAIN memory THEN memory["turns"]
  ELSE MemoryDefault[f]

\* MemoryPolicy.from_raw; a null strategy reads as the text `none'.
Strategy(memory) ==
  IF memory = Unset \/ Get(memory, "strategy") = Unset THEN "none" ELSE memory["strategy"]
MemoryAccepted(memory) ==
  \/ memory = Unset
  \/ /\ memory # Bad
     /\ Strategy(memory) \in MemoryStrategies
     /\ \A f \in DOMAIN MemoryRange : MemoryField(memory, f) \in MemoryRange[f]
     /\ Get(memory, "corpus") # Bad
MemoryEnabled(memory) == Strategy(memory) # "none"

\* SessionConfig.from_raw: the default of regenerate_phrases is a tuple, and
\* anything but a list is refused.
SessionAccepted(session) ==
  /\ Given(session)
  /\ Given(Get(session, "converse_entry"))
  /\ Given(Get(session, "regenerate_entry"))
  /\ Get(session, "regenerate_phrases") \notin {Unset, Bad, {}}

\* SessionPolicy.from_definition, of an agent whose memory is enabled.
SessionEntries(d) ==
  [initialize |-> IF Given(Get(d.session, "initialize_entry"))
                  THEN d.session["initialize_entry"] ELSE d.entry,
   converse   |-> d.session["converse_entry"],
   regenerate |-> d.session["regenerate_entry"]]
-----------------------------------------------------------------------------
(* The optional contract blocks. *)

OneOf(block, f, values) == Get(block, f) \in {Unset} \cup values
WhenPresent(block, f, values) == f \in DOMAIN block => block[f] \in values

BlockAccepted(name, block) ==
  CASE block = Unset -> TRUE
    [] block = Bad -> FALSE
    [] name = "metadata" ->
         /\ OneOf(block, "risk_tier", {"low", "medium", "high"})
         /\ OneOf(block, "lifecycle", {"draft", "review", "approved", "deprecated"})
         /\ WhenPresent(block, "hitl_required", BOOLEAN)
    [] name = "model" -> Get(block, "ref") # Bad
    [] name = "rag" -> /\ WhenPresent(block, "enabled", BOOLEAN)
                       /\ WhenPresent(block, "top_k", Nat \ {0})
                       /\ OneOf(block, "search_mode", {"vector", "keyword", "hybrid"})
    [] name = "security" -> WhenPresent(block, "pii_redaction", BOOLEAN)
    [] name = "hitl" -> WhenPresent(block, "enabled", BOOLEAN)
    [] OTHER -> TRUE                                    \* tools, evaluation

\* validate_extended_blocks
ExtendedBlocksAccepted(raw) ==
  /\ \A name \in {"metadata", "model", "tools", "rag", "security", "evaluation", "hitl"} :
       BlockAccepted(name, Get(raw, name))
  /\ ParseBindings(Get(raw, "bindings")) # Refused
  /\ MemoryAccepted(Get(raw, "memory"))
  /\ MemoryEnabled(Get(raw, "memory")) => Get(raw, "session") # Unset
  /\ Get(raw, "session") # Bad
-----------------------------------------------------------------------------
(* graph.routes *)

RouteSource(item) == IF "source" \in DOMAIN item THEN item["source"] ELSE Get(item, "after")
WhenRouter == [truthy |-> "field_truthy", equals |-> "field_equals",
               in |-> "field_in", compare |-> "field_compare"]
\* The keys a condition adds to the config of its router.
WhenKeys == [truthy |-> {}, equals |-> {"value"}, in |-> {"values"}, compare |-> {"op", "value"}]
WhenOp(when) == IF "op" \in DOMAIN when THEN when["op"] ELSE "truthy"
Cmp(when) == IF Get(when, "cmp") # Unset THEN when["cmp"] ELSE Get(when, "compare")

DesugarWhen(item) ==
  LET when == item["when"]
      op == WhenOp(when)
      config == [field |-> when["field"], true_label |-> "yes", false_label |-> "no"]
  IN  IF /\ Given(when) /\ Given(Get(when, "field"))
         /\ op \in DOMAIN WhenRouter
         /\ Given(RouteSource(item)) /\ Given(Get(item, "then")) /\ Given(Get(item, "else"))
         /\ op \in {"equals", "compare"} => "value" \in DOMAIN when
         /\ op = "in" => Get(when, "values") \notin {Unset, Bad, {}}
         /\ op = "compare" => Given(Cmp(when))
      THEN [source |-> RouteSource(item), router |-> WhenRouter[op],
            config |-> Merged([k \in WhenKeys[op] |-> IF k = "op" THEN Cmp(when) ELSE when[k]],
                              config),
            mapping |-> [yes |-> item["then"], no |-> item["else"]]]
      ELSE Refused

DesugarSwitch(item) ==
  LET cases == Get(item, "cases")
  IN  IF /\ Given(item["switch"]) /\ Given(RouteSource(item))
         /\ cases \notin {Unset, Bad, <<>>}
         /\ \A k \in DOMAIN cases : cases[k] # Bad
         /\ "else" \in DOMAIN item => Given(item["else"])
      THEN [source |-> RouteSource(item), router |-> "choice",
            config |-> [field |-> item["switch"], default |-> "default"],
            mapping |-> IF "else" \in DOMAIN item
                        THEN Merged([default |-> item["else"]], cases) ELSE cases]
      ELSE Refused

DesugarRoute(item) ==
  IF item = Bad THEN Refused
  ELSE IF "switch" \in DOMAIN item
  THEN IF "when" \in DOMAIN item THEN Refused ELSE DesugarSwitch(item)
  ELSE IF "when" \in DOMAIN item THEN DesugarWhen(item) ELSE Refused

\* apply_routes_sugar: the conditional edges of a graph, routes in front.
ConditionalEdges(graph) ==
  LET routes == Get(graph, "routes")
      explicit == Listed(Get(graph, "conditional_edges"))
  IN  IF routes = Unset THEN explicit
      ELSE IF Bad \in {routes, explicit} THEN Refused
      ELSE IF \E i \in DOMAIN routes : DesugarRoute(routes[i]) = Refused THEN Refused
      ELSE [i \in DOMAIN routes |-> DesugarRoute(routes[i])] \o explicit
-----------------------------------------------------------------------------
(* The graph. *)

NodeIds(nodes) == {nodes[i].id : i \in DOMAIN nodes}

NodesAccepted(nodes) ==
  /\ nodes \notin {Unset, Bad, <<>>}
  /\ \A i \in DOMAIN nodes : /\ nodes[i] # Bad
                             /\ Given(nodes[i].id) /\ nodes[i].id \notin {"START", "END"}
                             /\ Given(nodes[i].type)
  /\ \A i, j \in DOMAIN nodes : nodes[i].id = nodes[j].id => i = j

EdgeAccepted(edge, ids) ==
  /\ edge # Bad
  /\ edge[1] \in ids \cup {"START"}
  /\ edge[2] \in ids \cup {"END"}
  /\ edge[1] = "START" => edge[2] \in ids

ConditionalAccepted(cond, ids) ==
  /\ cond # Bad
  /\ cond.source \in ids
  /\ Given(cond.router)
  /\ cond.config # Bad
  /\ cond.mapping \notin {Unset, Bad, <<>>}
  /\ \A l \in DOMAIN cond.mapping : cond.mapping[l] \in ids \cup {"END"}

\* The entry: graph.entry and the targets of START edges must name one node.
EntryNames(graph, edges) ==
  ({Get(graph, "entry")} \ {Unset})
    \cup {edges[i][2] : i \in {j \in DOMAIN edges : edges[j][1] = "START"}}

\* Mutant: a branch may lead to a name that is no node.
GraphAcceptedUnmapped(graph, edges, conds) ==
  LET ids == NodeIds(graph["nodes"])
  IN  /\ \A i \in DOMAIN edges : EdgeAccepted(edges[i], ids)
      /\ \A i \in DOMAIN conds : conds[i].source \in ids
      /\ \E n \in ids : EntryNames(graph, edges) = {n}

GraphAccepted(graph, edges, conds) ==
  LET ids == NodeIds(graph["nodes"])
  IN  /\ \A i \in DOMAIN edges : EdgeAccepted(edges[i], ids)
      /\ \A i \in DOMAIN conds : ConditionalAccepted(conds[i], ids)
      /\ \E n \in ids : EntryNames(graph, edges) = {n}

\* parse_agent_definition
ParseDefinition(raw) ==
  LET graph == Get(raw, "graph")
      edges == Listed(Get(graph, "edges"))
      conds == ConditionalEdges(graph)
  IN  IF /\ ExtendedBlocksAccepted(raw)
         /\ Given(Get(raw, "agent_id"))
         /\ \A f \in {"display_name", "version"} : f \in DOMAIN raw => Given(raw[f])
         /\ Get(raw, "entry") # Bad
         /\ Given(graph)
         /\ NodesAccepted(Get(graph, "nodes"))
         /\ edges # Bad /\ conds \notin {Bad, Refused}
         /\ GraphAccepted(graph, edges, conds)
      THEN [agent_id |-> raw["agent_id"],
            entry    |-> CHOOSE n \in EntryNames(graph, edges) : TRUE,
            nodes    |-> graph["nodes"], edges |-> edges, conditional |-> conds,
            bindings |-> ParseBindings(Get(raw, "bindings")),
            memory   |-> Get(raw, "memory"), session |-> Get(raw, "session"),
            hitl     |-> Get(raw, "hitl")]
      ELSE Refused
=============================================================================
