---------------------------- MODULE HitlLifecycle ----------------------------
(***************************************************************************)
(* What the HITL session store promises a reviewer, without graphs, calls    *)
(* or threads: DESIGN.md lists it as the State pattern waiting_hitl ->       *)
(* closed.  A session opens waiting at a gate; each human decision is         *)
(* recorded for exactly the gate that waits, keeps all earlier decisions, and *)
(* either moves the session on to a gate that has none yet or closes it for   *)
(* good.  The host may delete a session; its id is not used again.            *)
(***************************************************************************)
CONSTANTS Sessions, Ids, Decisions, Unset

VARIABLES phase,     \* session -> "none", "waiting", "closed" or "deleted"
          gate,      \* session -> the gate that waits, or was answered last
          decided    \* session -> gate id -> decision or Unset
vars == <<phase, gate, decided>>

NoDecisions == [k \in Ids |-> Unset]

Init ==
  /\ phase = [s \in Sessions |-> "none"]
  /\ gate = [s \in Sessions |-> Unset]
  /\ decided = [s \in Sessions |-> NoDecisions]

Open(s, g) ==
  /\ phase[s] = "none"
  /\ phase' = [phase EXCEPT ![s] = "waiting"]
  /\ gate' = [gate EXCEPT ![s] = g]
  /\ UNCHANGED decided

\* The decision d for the waiting gate is recorded.
Record(s, d) == decided' = [decided EXCEPT ![s] = [@ EXCEPT ![gate[s]] = d]]

Continue(s, d, g) ==
  /\ phase[s] = "waiting"
  /\ g # gate[s]
  /\ decided[s][g] = Unset
  /\ Record(s, d)
  /\ gate' = [gate EXCEPT ![s] = g]
  /\ UNCHANGED phase

Close(s, d) ==
  /\ phase[s] = "waiting"
  /\ Record(s, d)
  /\ phase' = [phase EXCEPT ![s] = "closed"]
  /\ UNCHANGED gate

Delete(s) ==
  /\ phase[s] \in {"waiting", "closed"}
  /\ phase' = [phase EXCEPT ![s] = "deleted"]
  /\ gate' = [gate EXCEPT ![s] = Unset]
  /\ decided' = [decided EXCEPT ![s] = NoDecisions]

Next ==
  \E s \in Sessions :
    \/ \E g \in Ids : Open(s, g)
    \/ \E d \in Decisions, g \in Ids : Continue(s, d, g)
    \/ \E d \in Decisions : Close(s, d)
    \/ Delete(s)

Spec == Init /\ [][Next]_vars
=============================================================================
