------------------------------- MODULE MCRules -------------------------------
(***************************************************************************)
(* Requests, routes, web-search nodes and definitions of a few small sets,   *)
(* one case per behaviour.                                                  *)
(***************************************************************************)
EXTENDS Rules, TLC

MCTop == [k \in {"size", "recommendation", "actor"} |-> "old"]
MCBag == [size |-> "old"]
MCWords == HitlDecisions \cup {"escalate"}
-----------------------------------------------------------------------------
(* Routes, written as sugar, with one state field of a small range. *)

MCRouteStates == {[f |-> v] : v \in {Unset, 0, 1, 2}}
Whens == {[field |-> "f"]}
           \cup [field : {"f"}, op : {"equals"}, value : {0, 1}]
           \cup [field : {"f"}, op : {"in"}, values : {{}, {0}, {1, 2}}]
           \cup [field : {"f", Bad}, op : {"compare"}, cmp : CompareOps, value : {0, 1}]
           \cup [field : {"f"}, op : {"compare"}, cmp : {Unset}, compare : CompareOps,
                 value : {1}]
Cases == {c \in UNION {[K -> {"one", "two"}] : K \in SUBSET {"0", "1", "default"}} :
            c # <<>>}
MCRouteItems == [after : {"n"}, when : Whens, then : {"one"}, else : {"two", Bad}]
                \cup [after : {"n"}, switch : {"f"}, cases : Cases]
                \cup [after : {"n"}, switch : {"f"}, cases : Cases, else : {"three"}]
-----------------------------------------------------------------------------
(* web.search *)

MCSearchConfigs == [enabled : BOOLEAN, query_key : {Unset, "topic"}, top_k : {-1, 2, 50}]
MCSearchStates == [{"web_search_query", "topic", "question"} -> {0, 1}]
MCSearchAnswers == {Unset, Refused, 0, 3, 12}
-----------------------------------------------------------------------------
(* Whole definitions. *)

MCEnv == ("$SET" :> "cloud") @@ ("$UNSET" :> Unset)
Node(id, type, config) == [id |-> id, type |-> type, config |-> config]
Chain(config) == <<Node("n", "passthrough", <<>>),
                   Node("m", "llm_chain", config @@ [chain |-> "c"])>>
NodeLists ==
  {Chain(<<>>), Chain([endpoint |-> "own"]), Chain([endpoint |-> Unset]),
   <<Node("n", "hitl.gate", <<>>), Node("m", "rag.retrieve", <<>>)>>,
   <<Node("n", "set_value", <<>>), Node("m", "domain.sql.query", <<>>)>>,
   <<Node("n", "passthrough", <<>>), Node("session_prepare", "passthrough", <<>>),
     Node("m", "unheard_of", <<>>)>>,
   <<Node("m", "passthrough", <<>>), Node("n", "echo_result", <<>>),
     Node("session_prepare", "passthrough", <<>>)>>,
   <<Node("n", "passthrough", <<>>), Node("m", "domain.sql.query", <<>>)>>,
   <<Node("n", "passthrough", <<>>), Node("n", "echo_result", <<>>)>>}
EdgeLists == {<<>>, <<<<"START", "n">>, <<"n", "m">>>>, <<<<"n", "m">>, <<"m", "END">>>>,
              <<<<"START", "m">>>>, <<<<"n", "elsewhere">>>>}
When(then) == [after |-> "n", when |-> [field |-> "f"], then |-> then, else |-> "END"]
Truth(router, then) ==
  [source |-> "n", router |-> router, config |-> [field |-> "f"],
   mapping |-> [yes |-> then, no |-> "END"]]
About == [field |-> "f", op |-> "compare", cmp |-> "about", value |-> 1]
RouteLists == {<<>>, <<When("m")>>, <<When("elsewhere")>>,
               <<[after |-> "n", when |-> About, then |-> "m", else |-> "END"]>>}
ConditionalLists ==
  {<<>>, <<Truth("field_truthy", "m")>>, <<Truth("field_equals", "m")>>,
   <<Truth("hand_written", "m")>>, <<Truth("field_truthy", "elsewhere")>>}
Planes2 == {[llm |-> [endpoint |-> e]] : e \in {"acct", "$SET", "$UNSET", Bad}}
             \cup {[search |-> [index |-> i]] : i \in {"$SET", "$UNSET"}}
             \cup {[llm |-> [endpoint |-> "acct", temperature |-> 3]],
                   ("sql-warehouse" :> [host |-> "$SET"])}
Converses == [converse_entry : {"m", "END", "elsewhere"}, regenerate_entry : {"m"},
              regenerate_phrases : {{"again"}}]
             \cup [initialize_entry : {"m", "elsewhere"}, converse_entry : {"m"},
                   regenerate_entry : {"m"}, regenerate_phrases : {{"again"}}]
Silent == [memory |-> Unset, session |-> Unset]
Talking(session) == [memory |-> [strategy |-> "window"], session |-> session]
Memories == {Silent, Talking(Unset),
             [memory |-> [strategy |-> "window", turns |-> 500], session |-> Unset],
             Talking([converse_entry |-> "m", regenerate_entry |-> "m"])}
            \cup {Talking(c) : c \in Converses}

\* Every kind of bindings with and without a conversation, and every conversation with
\* and without bindings.
Blocks ==
  {x \in [bindings : Planes2 \cup {Unset}, memory : Memories] :
     \/ x.bindings \in {Unset, [llm |-> [endpoint |-> "$SET"]]}
     \/ x.memory \in {Silent} \cup {Talking(c) : c \in {d \in Converses : d.converse_entry = "END"}}}
Graphs == [nodes : NodeLists, edges : EdgeLists, entry : {"n", Unset}, routes : RouteLists,
           conditional_edges : ConditionalLists]

\* Graphs of one node, of every type and with every config a factory asks about.
Counts == {Unset, Bad, 5}
Configs == {<<>>} \cup [top_k : Counts] \cup [allowed_domains : {Unset, Bad, "docs"}]
             \cup [field : {Unset, Bad, "f"}] \cup [from_fields : {Unset, Bad, "f"}]
             \cup [chain : {Unset, Bad, "c"}]
Lone == {[nodes |-> <<node>>, entry |-> node.id] :
           node \in [id : {"n", "a:b"}, type : NodeTypes, config : Configs]}

\* What a definition may say of itself.
Titles == {<<>>} \cup [version : {1, Unset, Bad}] \cup [display_name : {"A", Unset, Bad}]

\* No conversation and no branch for a graph of one node, no title for the others.
Combined(b, g, title) ==
  IF "routes" \notin DOMAIN g THEN b.memory = Silent /\ (b.bindings = Unset \/ title = <<>>)
  ELSE title = <<>>
MCDefinitions ==
  {Merged(x[3], [agent_id |-> "a", bindings |-> x[1].bindings, memory |-> x[1].memory.memory,
                 session |-> x[1].memory.session, hitl |-> [enabled |-> FALSE],
                 graph |-> x[2]]) :
     x \in {y \in Blocks \X (Graphs \cup Lone) \X Titles : Combined(y[1], y[2], y[3])}}
=============================================================================
