------------------------------ MODULE MCSession ------------------------------
(***************************************************************************)
(* The session_demo agent (examples/agents/session_demo.agent.yaml): an       *)
(* initialize path of two steps, one step to explain, one to recommend again. *)
(* With a gate in Gates, the recommendation of the initialize and regenerate  *)
(* paths is reviewed before it is published.                                 *)
(***************************************************************************)
EXTENDS SessionTurns

MCNodes == {"init_step", "recommend", "converse", "regenerate", "approve", "publish"}
MCWrites == [n \in MCNodes |-> CASE n \in {"recommend", "regenerate"} -> "recommendation"
                                 [] n = "converse" -> "explanation"
                                 [] OTHER -> Unset]
MCPath == [initialize |-> <<"init_step", "recommend">>,
           converse |-> <<"converse">>, regenerate |-> <<"regenerate">>]
MCGatedPath == [initialize |-> <<"recommend", "approve", "publish">>,
                converse |-> <<"converse">>,
                regenerate |-> <<"regenerate", "approve", "publish">>]
=============================================================================
