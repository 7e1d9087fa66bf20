---------------------------- MODULE MCHitlReview ----------------------------
(***************************************************************************)
(* A product agent with two review gates:                                   *)
(*                                                                         *)
(*   draft -> approve -> apply1 -(not rejected)-> tune -> publish ->        *)
(*            apply2 -(not rejected)-> finish                               *)
(*                                                                         *)
(* as examples/agents/hitl_demo.agent.yaml, with hitl.apply_outcome after    *)
(* each gate.  draft chooses a field that the router behind it reads: with   *)
(* "yes" the agent takes a path without review (quick).                     *)
(***************************************************************************)
EXTENDS HitlReplay

MCNodes == {"draft", "approve", "apply1", "tune", "publish", "apply2", "finish", "quick"}
MCKind == [n \in MCNodes |-> CASE n \in {"approve", "publish"} -> "gate"
                               [] n \in {"apply1", "apply2"} -> "apply"
                               [] OTHER -> "work"]
MCId == [n \in MCNodes |-> n]
MCOwner == [n \in MCNodes |-> "review"]
MCStart == [a \in {"review"} |-> "draft"]

Always(m) == [l \in Labels |-> m]
Unless(l0, m0, m) == [l \in Labels |-> IF l = l0 THEN m0 ELSE m]
MCSucc ==
  [n \in MCNodes |->
     CASE n = "draft"   -> Unless("yes", "quick", "approve")
       [] n = "approve" -> Always("apply1")
       [] n = "apply1"  -> Unless("rejected", "END", "tune")
       [] n = "tune"    -> Always("publish")
       [] n = "publish" -> Always("apply2")
       [] n = "apply2"  -> Unless("rejected", "END", "finish")
       [] OTHER         -> Always("END")]
MCRouteField == [n \in MCNodes |-> "fast"]
MCWriteField == [n \in MCNodes |-> IF n = "draft" THEN "fast" ELSE Unset]
MCGated == [n \in MCNodes |->
              CASE n \in {"apply1", "tune", "publish"} -> {"approve"}
                [] n \in {"apply2", "finish"} -> {"approve", "publish"}
                [] OTHER -> {}]

MCPolicy == [a \in {"review"} |->
               [decisions |-> Unset, allowlist |-> {"size"}, target |-> Unset]]
MCHitlOn == [a \in {"review"} |-> TRUE]
MCInputs == [skip : BOOLEAN, enabled : {FALSE}, session : {Unset},
             data : [{"fast"} -> {"no"}]]
MCReviewed == {i \in MCInputs : ~i.skip}
MCPatches == {EmptyPatch, [EmptyPatch EXCEPT !.flat = [k \in {"size", "fast"} |-> "yes"]]}

\* The agent is one whose resumes replay their run: the router behind draft reads a
\* field that only draft writes and no patch may change.
Ran(next, fast, nodes) == [next |-> next, data |-> [f \in {"fast"} |-> fast],
                           done |-> {<<"review", n>> : n \in nodes}]
AtApprove == Ran(Unset, "no", {"draft"})
AtPublish == Ran("no", "no", {"draft", "apply1", "tune"})
MCPossible ==
  [n \in MCNodes |-> {CASE n = "draft" -> Ran(Unset, "no", {})
                        [] n = "quick" -> Ran(Unset, "yes", {"draft"})
                        [] n \in {"approve", "apply1"} -> AtApprove
                        [] n = "tune" -> Ran("no", "no", {"draft", "apply1"})
                        [] n \in {"publish", "apply2"} -> AtPublish
                        [] n = "finish" -> Ran("no", "no", {"draft", "apply1", "tune", "apply2"})}]
MCWay ==
  [p \in {"approve", "publish"} |->
     IF p = "approve" THEN {"draft", "approve"} \X {AtApprove}
     ELSE {"draft", "approve", "apply1", "tune", "publish"} \X {AtPublish}]
ASSUME ReviewIsReplayed ==
  /\ Closed(MCPossible) /\ Replays(MCPossible, MCWay)
  /\ Ordered(MCPossible) /\ RejectionEnds(MCPossible)
=============================================================================
