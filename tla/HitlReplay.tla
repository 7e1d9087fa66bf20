------------------------------ MODULE HitlReplay ------------------------------
(***************************************************************************)
(* Which agents a resume replays faithfully.  resume_hitl_session walks the   *)
(* graph again from its entry, with every router evaluated on the answered    *)
(* snapshot: whether that walk comes back to the gate that paused depends on  *)
(* the agent.  The definitions below say what it takes, over sets the agent's *)
(* author (or an instance, for TLC) gives:                                  *)
(*                                                                         *)
(*   Possible[n]   the situations in which a run may come to node n,         *)
(*   Way[p]        the places, <<node, situation>>, a resume of gate p        *)
(*                 passes on its way to p.                                  *)
(***************************************************************************)
EXTENDS HitlFlow

\* What routers read, and the YAML nodes that ran so far.
Situation == [next : Labels, data : [Fields -> Values], done : SUBSET (Agents \X Ids)]
SituationOf(st, done) == [next |-> st.next, data |-> st.data, done |-> done]

\* What a node may make of the routed fields.
Written(n, data) == IF WriteField[n] = Unset THEN {data}
                    ELSE {[data EXCEPT ![WriteField[n]] = v] : v \in Values}

\* The situations in which a run may leave node n.
Outcomes(n, r) ==
  LET done == r.done \cup {YamlNode(n)} IN
  CASE Kind[n] = "gate" -> {r}
    [] Kind[n] = "apply" -> {[next |-> l, data |-> r.data, done |-> done] :
                               l \in {"rejected", r.data[RouteField[n]]}}
    [] OTHER -> {[next |-> r.next, data |-> d, done |-> done] : d \in Written(n, r.data)}

\* Every run stays within Possible.
Closed(Possible) ==
  /\ Possible \in [Nodes -> SUBSET Situation]
  /\ \A a \in Agents, i \in Inputs : SituationOf(FreshBag(i), {}) \in Possible[Start[a]]
  /\ \A n \in Nodes : \A r \in Possible[n] : \A q \in Outcomes(n, r) :
       LET m == Succ[n][Label(n, q)] IN m # End => q \in Possible[m]

\* The situation of a snapshot that was answered: a patch may have changed fields.
Answered(agent, d, patch, r) ==
  [r EXCEPT !.data = PatchData(@, ResumePatch(Policy[agent], d, patch),
                               ResumeTarget(Policy[agent], d))]

\* n is where a resume of gate p stops skipping: a copy of p itself.
CopyOf(p, n) == Kind[n] = "gate" /\ GateId[n] = GateId[p] /\ Owner[n] = Owner[p]

\* A resume of gate p, in the graph of the agent that declares p, skips from node to
\* node until it stands at p.
Replays(Possible, Way) ==
  /\ Way \in [Gates -> SUBSET (Nodes \X Situation)]
  /\ \A p \in Gates : \A r \in Possible[p] : \A d \in HitlDecisions, patch \in Patches :
       ResumeAccepted(Policy[Owner[p]], d, patch) =>
         <<Start[Owner[p]], Answered(Owner[p], d, patch, r)>> \in Way[p]
  /\ \A p \in Gates : \A w \in Way[p] :
       LET n == w[1]
           m == Succ[n][Label(n, w[2])]
       IN  IF Id[n] = GateId[p] THEN CopyOf(p, n) /\ w[2] \in Possible[n]
           ELSE m # End /\ <<m, w[2]>> \in Way[p]

\* No run comes twice to a node that does work.
Ordered(Possible) ==
  \A n \in Nodes \ Gates : \A r \in Possible[n] : YamlNode(n) \notin r.done

\* Behind each gate stands hitl.apply_outcome, and a rejection ends the run.
RejectionEnds(Possible) ==
  \A g \in Gates : \A r \in Possible[g] :
    LET m == Succ[g][Label(g, r)]
    IN  m # End /\ Kind[m] = "apply" /\ Succ[m]["rejected"] = End
=============================================================================
