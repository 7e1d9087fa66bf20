-------------------------- MODULE MCRecommendations --------------------------
(* Two rows of one agent, three calls.  A second agent without rows would only  *)
(* repeat the unfiltered list.                                                *)
EXTENDS Recommendations, TLC

MCOwner == [i \in Ids |-> CHOOSE a \in Agents : TRUE]
MCAge == CHOOSE f \in [Ids -> 1..Cardinality(Ids)] :
           \A i, j \in Ids : f[i] = f[j] => i = j

\* Calls differ in nothing: all of them may fail.
MCSymmetry == Permutations(Calls)
=============================================================================
