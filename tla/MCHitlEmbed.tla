---------------------------- MODULE MCHitlEmbed -----------------------------
(***************************************************************************)
(* A parent that embeds a child agent as a native subgraph (invoke_agent     *)
(* without input_keys / output_map); it has one gate, the parent two more:    *)
(*                                                                         *)
(*   parent:  [ look -> check ] -> sign -> pay -> ship                       *)
(*   child:     look -> check                                               *)
(*                                                                         *)
(* The embedded copies are the nodes in_look and in_check of the parent's    *)
(* graph.  The child's hitl.enabled is false, so its gate only acts when the *)
(* caller asks for it (hitl_enabled in the state).                          *)
(***************************************************************************)
EXTENDS HitlReplay

MCNodes == {"in_look", "in_check", "sign", "pay", "ship", "look", "check"}
Inlined == {"in_look", "in_check"}
MCKind == [n \in MCNodes |-> IF n \in {"in_check", "check", "sign", "pay"} THEN "gate" ELSE "work"]
MCId == [n \in MCNodes |-> CASE n = "in_look" -> "look" [] n = "in_check" -> "check"
                             [] OTHER -> n]
MCIds == MCNodes \ Inlined
MCGraphOf == [n \in MCNodes |-> IF n \in {"look", "check"} THEN "child" ELSE "parent"]
MCOwner == [n \in MCNodes |-> IF n \in Inlined THEN "child" ELSE MCGraphOf[n]]
MCStart == [a \in {"parent", "child"} |-> IF a = "parent" THEN "in_look" ELSE "look"]
MCNextNode == [n \in MCNodes |-> CASE n = "in_look" -> "in_check"
                                   [] n = "in_check" -> "sign" [] n = "sign" -> "pay" [] n = "pay" -> "ship"
                                   [] n = "look" -> "check" [] OTHER -> "END"]
MCSucc == [n \in MCNodes |-> [l \in Labels |-> MCNextNode[n]]]
MCRouteField == [n \in MCNodes |-> "f"]
MCWriteField == [n \in MCNodes |-> Unset]
MCGated == [n \in MCNodes |-> CASE n = "sign" -> {"in_check"}
                                [] n = "pay" -> {"in_check", "sign"}
                                [] n = "ship" -> {"in_check", "sign", "pay"}
                                [] OTHER -> {}]
MCPolicy == [a \in {"parent", "child"} |->
               [decisions |-> {"approved", "rejected"}, allowlist |-> Unset, target |-> Unset]]
MCHitlOn == [a \in {"parent", "child"} |-> a = "parent"]
MCPatches == {EmptyPatch}
MCInputs == [skip : {FALSE}, enabled : BOOLEAN, session : {Unset}, data : [{"f"} -> {"no"}]]

\* The parent and the child are agents whose resumes replay their run.
Ran(nodes) == [next |-> Unset, data |-> [f \in {"f"} |-> "no"],
               done |-> {YamlNode(n) : n \in nodes}]
MCPossible ==
  [n \in MCNodes |-> {Ran(CASE n \in {"look", "in_look"} -> {} [] OTHER -> {"look"})}]
MCWay ==
  [p \in {"in_check", "check", "sign", "pay"} |->
     (CASE p \in {"in_check", "check"} -> {"look", "check"}
        [] p = "sign" -> {"in_look", "in_check", "sign"}
        [] p = "pay" -> {"in_look", "in_check", "sign", "pay"}) \X {Ran({"look"})}]
ASSUME EmbedIsReplayed ==
  Closed(MCPossible) /\ Replays(MCPossible, MCWay) /\ Ordered(MCPossible)
=============================================================================
