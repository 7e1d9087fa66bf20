-------------------------------- MODULE Rules --------------------------------
(***************************************************************************)
(* What an agent's YAML promises, over any set of reviewer requests, routes,  *)
(* web-search nodes and definitions: the operators of HitlPolicy,            *)
(* AgentDefinitions and GraphBuild against what the docs of those files say,  *)
(* stated in another way.                                                   *)
(*                                                                         *)
(* Every initial state is one case; its one step evaluates it.              *)
(***************************************************************************)
EXTENDS GraphBuild

CONSTANTS
  Keys, Values,      \* the keys of a patch body, and their values
  Words, Targets,    \* words a reviewer or a policy may use; hitl.patch_target
  Top, Bag,          \* a paused state: its keys, and the mapping under the target
  RouteItems,        \* entries of graph.routes
  RouteStates,       \* states a router may read
  SearchConfigs, SearchStates,
  SearchAnswers,     \* numbers of hits, or Unset or Refused
  Definitions, Env   \* YAML mappings; the environment, by ${ENV:...} reference

VARIABLES kind,      \* "resume", "route", "search" or "build"
          input,     \* the arguments
          output     \* Unset until they are evaluated
vars == <<kind, input, output>>

ASSUME RequestAssumption == HitlDecisions \subseteq Words /\ Values # {}

\* Routed fields hold numbers, and no route leads to the mark of an error.
ASSUME RouteAssumption ==
  /\ \A s \in RouteStates : \A f \in DOMAIN s : s[f] = Unset \/ s[f] \in Int
  /\ \A item \in RouteItems :
       /\ "when" \in DOMAIN item =>
            /\ Refused \notin {Get(item, "then"), Get(item, "else")}
            /\ "value" \in DOMAIN item["when"] => item["when"]["value"] \in Int
       /\ "switch" \in DOMAIN item =>
            /\ Get(item, "else") # Refused
            /\ \A k \in DOMAIN item["cases"] : item["cases"][k] # Refused

ASSUME SearchAssumption ==
  /\ \A c \in SearchConfigs : "top_k" \in DOMAIN c => c["top_k"] \in Int
  /\ SearchAnswers \subseteq Nat \cup {Unset, Refused}

\* None is no number, no name and no mapping, and a raised error is no value.
ASSUME NoneAssumption ==
  /\ Unset \notin Int /\ Given("END")
  /\ \A v \in DOMAIN Env : Env[v] # Refused
  /\ \A raw \in Definitions :
       LET block == Get(raw, "bindings")
           parsed == ParseBindings(block)
       IN  block # Unset /\ parsed # Refused =>
             /\ parsed # Unset
             /\ \A p \in Planes : PlaneBlock(block, p) # Unset =>
                  /\ parsed[p] # Unset
                  /\ \A f \in PlaneFields[p] : parsed[p][f] # Refused

\* An agent that embeds others compiles them too (AgentCatalog): none of these does.
ASSUME EmbedAssumption ==
  \A raw \in Definitions :
    LET nodes == Get(Get(raw, "graph"), "nodes")
    IN  (Given(Get(raw, "graph")) /\ NodesAccepted(nodes)) =>
          \A i \in DOMAIN nodes : nodes[i].type # "invoke_agent"

\* A list of a YAML mapping is a sequence.
ASSUME ListAssumption ==
  \A raw \in Definitions : \A f \in {"routes", "conditional_edges"} :
    LET list == Get(Get(raw, "graph"), f)
    IN  Given(Get(raw, "graph")) /\ Given(list) => list \in Seq({list[i] : i \in DOMAIN list})
-----------------------------------------------------------------------------
(* The cases. *)

Bodies == UNION {[S -> Values] : S \in SUBSET Keys}
Policies == [decisions : {Unset} \cup SUBSET Words,
             allowlist : {Unset} \cup SUBSET Keys,
             target    : {Unset} \cup Targets]

\* With a target, what the client sent under it is the nested mapping.
PatchBodies(p) ==
  {b \in [flat : Bodies, nested : {Unset} \cup Bodies] :
     IF p.target = Unset THEN b.nested = Unset
     ELSE b.nested # Unset => p.target \notin DOMAIN b.flat}

Before == [top |-> Top, bag |-> Bag]

Init ==
  /\ output = Unset
  /\ \/ /\ kind = "resume"
        /\ \E p \in Policies, w \in Words : \E b \in PatchBodies(p) :
             input = [policy |-> p, choice |-> w, patch |-> b]
     \/ /\ kind = "route"
        /\ \E item \in RouteItems, s \in RouteStates : input = [item |-> item, state |-> s]
     \/ /\ kind = "search"
        /\ \E c \in SearchConfigs, s \in SearchStates, a \in SearchAnswers :
             input = [config |-> c, state |-> s, answer |-> a]
     \/ kind = "build" /\ input \in Definitions
-----------------------------------------------------------------------------
(* Their evaluation. *)

\* resume_hitl_session: prepare_resume_patch and the merge that follows it.
Resume ==
  LET p == input.policy
      accepted == ResumeAccepted(p, input.choice, input.patch)
  IN  [accepted |-> accepted,
       state |-> IF accepted
                 THEN ApplyPatch(Before, ResumePatch(p, input.choice, input.patch),
                                 ResumeTarget(p, input.choice))
                 ELSE Before]

Route == LET cond == DesugarRoute(input.item)
         IN  IF cond = Refused THEN "invalid"
             ELSE IF Branch(cond, input.state) = Refused THEN "fails"
             ELSE Branch(cond, input.state)

Build == LET d == ParseDefinition(input)
         IN  [definition |-> d, compiled |-> d # Refused /\ Compiles(d, Env)]

Evaluate ==
  /\ output = Unset
  /\ \/ kind = "resume" /\ output' = Resume
     \/ kind = "route" /\ output' = Route
     \/ kind = "search" /\ output' = WebSearch(input.config, input.state, input.answer)
     \/ kind = "build" /\ output' = Build
  /\ UNCHANGED <<kind, input>>

Next == Evaluate
Spec == Init /\ [][Next]_vars
Answered(k) == kind = k /\ output # Unset
-----------------------------------------------------------------------------
(* Properties. *)

ChangedTop == {k \in DOMAIN output.state.top : k \notin DOMAIN Top \/ output.state.top[k] # Top[k]}
ChangedBag == {k \in DOMAIN output.state.bag : k \notin DOMAIN Bag \/ output.state.bag[k] # Bag[k]}

\* YAML cannot invent decisions, and a list that names one of the framework's
\* decisions restricts to it (allowed_decisions, prepare_resume_patch).
DecisionsRestricted ==
  (Answered("resume") /\ output.accepted) =>
    /\ input.choice \in HitlDecisions
    /\ input.policy.decisions \notin {Unset, {}} => input.choice \in input.policy.decisions

\* The reviewer only ever changes what the agent listed: a merged patch touches
\* allowlisted keys that are not decision meta data, only for `modified', and with
\* a patch_target nothing outside that mapping (patch_allowlist: fail-closed).
PatchFailsClosed ==
  (Answered("resume") /\ ChangedTop \cup ChangedBag # {}) =>
    /\ input.choice = "modified"
    /\ input.policy.allowlist # Unset
    /\ ChangedTop \cup ChangedBag \subseteq input.policy.allowlist \ MetaKeys
    /\ input.policy.target # Unset => ChangedTop = {}

\* A policy under which no request whatever is accepted leaves every paused session
\* of its agent waiting for ever.  It is exactly one that lists framework-unknown
\* words only, or that leaves `modified' alone without a key a patch may carry.
CanBeResumed(p) ==
  \E w \in Words, b \in PatchBodies(p) : ResumeAccepted(p, w, b)
DeadPolicies ==
  Answered("resume") =>
    LET p == input.policy
    IN  CanBeResumed(p) <=>
          \/ p.decisions \in {Unset, {}}
          \/ p.decisions \cap {"approved", "rejected"} # {}
          \/ "modified" \in p.decisions /\ p.allowlist # Unset /\ p.allowlist \ MetaKeys # {}

\* A route of routes_sugar.py leads where it says: `when' to `then' exactly if its
\* condition holds of the field, a missing field holding no ordering; `switch' to
\* the case that is written like the value, a missing value to `else', which also
\* takes over a case called default.  A value no case names fails the run, with an
\* `else' or without.
Relation(w, v) ==
  \/ "op" \notin DOMAIN w /\ v \notin {Unset, 0}
  \/ "op" \in DOMAIN w /\ w["op"] = "truthy" /\ v \notin {Unset, 0}
  \/ "op" \in DOMAIN w /\ w["op"] = "equals" /\ v = w["value"]
  \/ "op" \in DOMAIN w /\ w["op"] = "in" /\ v \in w["values"]
  \/ /\ "op" \in DOMAIN w /\ w["op"] = "compare"
     /\ LET cmp == IF Get(w, "cmp") = Unset THEN Get(w, "compare") ELSE w["cmp"]
        IN  IF v = Unset THEN cmp = "ne"
            ELSE \/ cmp \in {"lt", "le", "ne"} /\ v < w["value"]
                 \/ cmp \in {"le", "ge", "eq"} /\ v = w["value"]
                 \/ cmp \in {"gt", "ge", "ne"} /\ v > w["value"]
RoutesMeanWhatTheySay ==
  (Answered("route") /\ output # "invalid") =>
    LET item == input.item
    IN  IF "when" \in DOMAIN item
        THEN output = IF Relation(item["when"], Get(input.state, item["when"]["field"]))
                      THEN item["then"] ELSE item["else"]
        ELSE LET v == Get(input.state, item["switch"])
             IN  output = IF v = Unset \/ Str(v) = "default"
                          THEN IF "else" \in DOMAIN item THEN item["else"]
                               ELSE IF "default" \in DOMAIN item["cases"]
                               THEN item["cases"]["default"] ELSE "fails"
                          ELSE IF Str(v) \in DOMAIN item["cases"]
                          THEN item["cases"][Str(v)] ELSE "fails"

\* The node asks the web for nothing but the string the domain put under its query
\* key, and only when switched on; a provider that fails or answers too much leaves
\* at most ten hits and never fails the run (web_search_factory's contract).
WebSearchStaysBounded ==
  Answered("search") =>
    LET own == Get(input.config, "query_key")
        key == IF own \in {Unset, Bad} THEN "web_search_query" ELSE own
    IN  /\ output.asked \subseteq {key}
        /\ output.asked # {} => /\ Get(input.config, "enabled") = TRUE
                                /\ Get(input.state, key) \notin {Unset, 0}
        /\ output.hits \in 0..10
        /\ output.asked = {} => output.hits = 0

\* The plane a node of a type runs on.
Serves(type, p) == <<type, p>> \in {<<"llm_chain", "llm">>, <<"rag.retrieve", "search">>,
                                    <<"domain.sql.query", "sql">>}

(* Faults that only the first create_agent of an agent meets. *)

\* A type nobody registered, an id LangGraph reserves, a config without what its factory
\* asks of the YAML (a null top_k where a missing one is defaulted), or a plane of the
\* node bound to a variable that is unset.
NodeFault(raw, node) ==
  LET block == Get(raw, "bindings")
  IN  \/ node.type \notin NodeTypes \/ node.id \in ReservedIds
      \/ node.type = "set_value" /\ ~Given(Get(node.config, "field"))
      \/ node.type = "llm_chain" /\ ~Given(Get(node.config, "chain"))
      \/ node.type = "echo_result" /\ Get(node.config, "from_fields") = Bad
      \/ /\ node.type \in {"rag.retrieve", "web.search"}
         /\ "top_k" \in DOMAIN node.config /\ node.config["top_k"] \in {Unset, Bad}
      \/ node.type = "web.search" /\ Get(node.config, "allowed_domains") = Bad
      \/ \E p \in Planes : \E f \in PlaneFields[p] :
           /\ Serves(node.type, p) /\ block # Unset /\ PlaneBlock(block, p) # Unset
           /\ LET bound == Get(PlaneBlock(block, p), f)
              IN  bound \in DOMAIN Env /\ Env[bound] = Unset

RouteFault(item) ==
  IF "switch" \in DOMAIN item THEN "choice" \notin Routers
  ELSE LET op == WhenOp(item["when"])
       IN  \/ WhenRouter[op] \notin Routers
           \/ op = "compare" /\ Cmp(item["when"]) \notin CompareOps

BranchFault(cond) ==
  LET Lacks(k) == k \notin DOMAIN cond.config
  IN  \/ cond.router \notin Routers
      \/ ~Given(Get(cond.config, "field"))
      \/ cond.router = "field_equals" /\ Lacks("value")
      \/ cond.router = "field_in" /\ Get(cond.config, "values") \in {Unset, Bad, {}}
      \/ /\ cond.router = "field_compare"
         /\ Lacks("value") \/ Get(cond.config, "op") \notin CompareOps

\* Two routes, two conditional edges or one of each leave the same node.
SharedSource(routes, conds) ==
  \/ \E i, j \in DOMAIN routes : i # j /\ RouteSource(routes[i]) = RouteSource(routes[j])
  \/ \E i, j \in DOMAIN conds : i # j /\ conds[i].source = conds[j].source
  \/ \E i \in DOMAIN routes, j \in DOMAIN conds : RouteSource(routes[i]) = conds[j].source

\* A conversation without phrases or with an entry that names no node, or a node that
\* has the name of the session's own.
SessionFault(raw, names) ==
  LET session == Get(raw, "session")
      entry(mode) == Get(session, mode)
  IN  /\ MemoryEnabled(Get(raw, "memory"))
      /\ \/ "session_prepare" \in names
         \/ Get(session, "regenerate_phrases") \in {Unset, Bad, {}}
         \/ {entry("converse_entry"), entry("regenerate_entry")} \ (names \cup {"END"}) # {}
         \/ Given(entry("initialize_entry")) /\ entry("initialize_entry") \notin names \cup {"END"}

LateFault(raw) ==
  LET graph == raw["graph"]
      nodes == graph["nodes"]
      routes == Listed(Get(graph, "routes"))
      conds == Listed(Get(graph, "conditional_edges"))
  IN  \/ \E i \in DOMAIN nodes : NodeFault(raw, nodes[i])
      \/ \E i \in DOMAIN routes : RouteFault(routes[i])
      \/ \E i \in DOMAIN conds : BranchFault(conds[i])
      \/ SharedSource(routes, conds)
      \/ SessionFault(raw, {nodes[i].id : i \in DOMAIN nodes})

\* What parse_agent_definition accepts, the first create_agent of the agent compiles,
\* unless it has one of the faults above: for the node and router factories of this
\* repository and a product's that take any config.  In particular nothing an accepted graph
\* leads to is unknown to LangGraph, what a route of routes_sugar.py becomes is
\* refused for an unknown word of comparison only, and the bindings neither complete
\* nor spoil the config of a node.
AcceptedDefinitionsBuild ==
  (Answered("build") /\ output.definition # Refused) =>
    (output.compiled <=> ~LateFault(input))

\* A bound agent runs on what its bindings say or not at all: no node of a compiled
\* graph is handed a reference as if it were an address, or left to the process
\* default because a variable is unset (resolve_env_ref); only the node's own key,
\* a null one too, is left as it is.
BindingsFailClosed ==
  (Answered("build") /\ output.compiled) =>
    \A i \in DOMAIN output.definition.nodes, p \in Planes :
      LET node == output.definition.nodes[i]
          config == NodeConfig(output.definition, node, Env)
          block == Get(input, "bindings")
      IN  Serves(node.type, p) /\ block # Unset /\ PlaneBlock(block, p) # Unset =>
            \A f \in PlaneFields[p] :
              LET bound == Get(PlaneBlock(block, p), f)
              IN  /\ bound \in DOMAIN Env => Env[bound] # Unset
                  /\ Get(config, f) = IF f \in DOMAIN node.config THEN node.config[f]
                                      ELSE IF bound \in DOMAIN Env THEN Env[bound] ELSE bound
=============================================================================
