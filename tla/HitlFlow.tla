------------------------------- MODULE HitlFlow -------------------------------
(***************************************************************************)
(* Human-in-the-loop pause and resume: hitl.gate, skip_until_resume, the    *)
(* session functions of hitl/sessions.py, and the graph run that ties them  *)
(* together.                                                                *)
(*                                                                         *)
(* An invocation walks a compiled graph with a flat state bag.  A gate      *)
(* without a decision stores the bag as a waiting session and abandons the  *)
(* run; resume_hitl_session merges a human decision into the stored bag and *)
(* walks the graph of the record's agent again FROM ITS ENTRY, every node   *)
(* being skipped until its YAML id equals hitl_resume_at.  Nothing locks a   *)
(* session, and the stored record says `waiting_hitl' until the resumed run *)
(* pauses again or is closed, so every step below may interleave with those *)
(* of other calls, and a call may die at any of them.                       *)
(*                                                                         *)
(* Abstractions.  Graphs are sequential (no fan-out); native subgraphs are  *)
(* inlined: the nodes of a child embedded in a parent are nodes of the      *)
(* parent's graph whose Owner is the child.  The bag keeps the HITL keys    *)
(* and the fields routers read; other payload is left out.  Nodes do not    *)
(* write HITL keys themselves.  A patch into a patch_target mapping is not  *)
(* visible to routers.                                                      *)
(***************************************************************************)
EXTENDS HitlPolicy

CONSTANTS
  Agents,        \* agent ids
  Nodes,         \* nodes of all compiled graphs
  Ids,           \* YAML node ids and gate ids
  Sessions,      \* session ids: what str(uuid.uuid4()) may return
  Calls,         \* invocations, each a thread that runs once
  Fields,        \* state keys that routers read
  Values,        \* values of those keys
  End            \* LangGraph's END

CONSTANTS
  Kind,          \* node -> "work", "gate" (hitl.gate) or "apply" (hitl.apply_outcome)
  Id,            \* node -> YAML node id
  GateId,        \* node -> config gate_id, by default the node id
  Owner,         \* node -> agent whose definition declares the node
  GraphOf,       \* node -> agent whose compiled graph the node is part of
  Start,         \* agent -> entry node of its compiled graph
  Succ,          \* node -> [Labels -> node or End], its outgoing edges
  RouteField,    \* node -> field its router reads
  WriteField,    \* node -> field it writes, or Unset
  Policy,        \* agent -> hitl decisions / patch_allowlist / patch_target
  HitlOn,        \* agent -> hitl.enabled
  Gated,         \* node -> gates that every path from the entry to it passes

  Inputs,        \* caller input: [skip, enabled, session, data]
  Patches,       \* patch bodies a reviewer may send
  Unloaded,      \* agents the resuming process may not have registered
  OnePerSession, \* TRUE when the host admits one call per session at a time
  Failing,       \* calls whose nodes, store accesses or process may fail
  MayDelete      \* the host may delete a session

Labels == Values \cup {"rejected", Unset}
Gates == {n \in Nodes : Kind[n] = "gate"}
Decision == HitlDecisions \cup {Unset}

ASSUME GraphAssumption ==
  /\ Unset \notin Ids \cup HitlDecisions \cup Sessions \cup Nodes \cup Agents
  /\ End \notin Nodes
  /\ Kind \in [Nodes -> {"work", "gate", "apply"}]
  /\ Id \in [Nodes -> Ids]
  /\ GateId \in [Nodes -> Ids]
  /\ Owner \in [Nodes -> Agents]
  /\ GraphOf \in [Nodes -> Agents]
  /\ Start \in [Agents -> Nodes]
  /\ Succ \in [Nodes -> [Labels -> Nodes \cup {End}]]
  /\ RouteField \in [Nodes -> Fields]
  /\ WriteField \in [Nodes -> Fields \cup {Unset}]
  /\ HitlOn \in [Agents -> BOOLEAN]
  /\ Inputs # {}
  /\ Inputs \subseteq [skip : BOOLEAN, enabled : BOOLEAN,
                       session : Sessions \cup {Unset}, data : [Fields -> Values]]
  /\ \A a \in Agents : GraphOf[Start[a]] = a
  /\ \A n \in Nodes, l \in Labels :
       Succ[n][l] # End => GraphOf[Succ[n][l]] = GraphOf[n]

\* Gated is what "behind a gate" means: nothing is at the entry, and a step from
\* n to m puts at most n itself in front of m.
ASSUME GatedAssumption ==
  /\ Gated \in [Nodes -> SUBSET Gates]
  /\ \A a \in Agents : Gated[Start[a]] = {}
  /\ \A n \in Nodes, l \in Labels :
       Succ[n][l] # End => Gated[Succ[n][l]] \subseteq Gated[n] \cup ({n} \cap Gates)

\* A resume restarts at the node whose YAML id is the gate id.  The gates before
\* that node must be gates before the one that paused; so it is when gate_id is
\* left to its default and node ids are unique in a graph.
ASSUME ResumeTargetAssumption ==
  \A p \in Gates, m \in Nodes :
    (GraphOf[m] = Owner[p] /\ Id[m] = GateId[p]) =>
      \A g \in Gated[m] :
        \/ GateId[g] = GateId[p]
        \/ \E h \in Gated[p] : GateId[h] = GateId[g] /\ Owner[h] = Owner[g]

\* Patches put values of the model into routed fields.
ASSUME PatchAssumption ==
  \A p \in Patches : \A f \in Fields \cap DOMAIN p.flat : p.flat[f] \in Values

VARIABLES
  store,      \* session id -> SessionRecord or Unset
  issued,     \* session ids handed out so far
  audit,      \* the set of audit rows
  call,       \* call -> how far it has got
  persisted   \* calls whose outcome the host wrote to the product history

vars == <<store, issued, audit, call, persisted>>
-----------------------------------------------------------------------------
(* The flat state bag, session records and calls. *)

Bag == [decisions : [Ids -> Decision],             \* hitl_decisions
        resume_at : Ids \cup {Unset},              \* hitl_resume_at
        status    : {Unset, "waiting_hitl", "resuming", "resumed"},
        decision  : Decision,                      \* hitl_decision
        next      : Labels,                        \* hitl_next (with hitl_outcome)
        skip      : BOOLEAN,                       \* skip_hitl
        enabled   : BOOLEAN,                       \* hitl_enabled
        session   : Sessions \cup {Unset},         \* session_id
        data      : [Fields -> Values]]

\* `done' is a ghost: the YAML nodes that ran before the snapshot was taken.
Record == [agent : Agents, status : {"waiting_hitl", "closed"}, gate : Ids,
           st : Bag, done : SUBSET (Agents \X Ids)]

\* No record: store[s] = Unset is told from every record.
ASSUME RecordAssumption == Unset \notin Record

Event == [action : {"hitl.pause", "hitl.resume", "hitl.close"}, call : Calls,
          session : Sessions, gate : Ids \cup {Unset}, decision : Decision]

Running == {"audit_resume", "compile", "run", "audit_pause",
            "close_read", "close_write", "close_audit", "returned"}
PCs == {"idle", "done", "failed"} \cup Running

\* `found' is the record close_hitl_session has read; `gate' and `choice' the pause
\* a resume answers and the answer; `before' (what the snapshot's run had done) and
\* `ran' are ghosts.
Call == [pc : PCs, kind : {"invoke", "resume"}, agent : Agents \cup {Unset},
         node : Nodes \cup {End}, st : Bag, gate : Ids \cup {Unset}, choice : Decision,
         found : Record \cup {Unset},
         before : SUBSET (Agents \X Ids), ran : SUBSET (Agents \X Ids)]

FreshBag(i) ==
  [decisions |-> [k \in Ids |-> Unset], resume_at |-> Unset, status |-> Unset,
   decision |-> Unset, next |-> Unset, skip |-> i.skip, enabled |-> i.enabled,
   session |-> i.session, data |-> i.data]

InFlight(c) == call[c].pc \in Running
Waiting(s) == store[s] # Unset /\ store[s].status = "waiting_hitl"

\* A host that admits one call per session at a time keeps the others out.
Admitted(s) == OnePerSession => \A d \in Calls : InFlight(d) => call[d].st.session # s

\* The YAML node a graph node was compiled from.
YamlNode(n) == <<Owner[n], Id[n]>>
-----------------------------------------------------------------------------
(* What the operations compute. *)

\* Mutants: the gate node itself is skipped as well; nothing is skipped.
SkippingGateToo(n, st) == st.resume_at # Unset
SkippingNothing(n, st) == FALSE

\* skip_until_resume: the wrapped node returns {} at once.
Skipping(n, st) == st.resume_at # Unset /\ st.resume_at # Id[n]

\* hitl_gate_factory: the two no-op returns of the gate.
Bypassed(n, st) == st.skip \/ (~HitlOn[Owner[n]] /\ ~st.enabled)

\* Mutant: the gate looks at the last decision, not at its own.
DecidedByAny(n, st) == st.decision # Unset

\* prior_decision_for_gate finds a decision.
Decided(n, st) == st.decisions[GateId[n]] # Unset

\* hitl_apply_outcome_factory: hitl_next is the rejected label, or else follows the
\* explain field; no decision counts as approved.
ApplyOutcome(n, st) ==
  [st EXCEPT !.next = IF st.decision = "rejected" THEN "rejected"
                      ELSE st.data[RouteField[n]]]

\* Mutant: the decisions of earlier gates are dropped.
MergeForgetting(st, s, g, choice) ==
  [st EXCEPT !.decisions = [k \in Ids |-> IF k = g THEN choice ELSE Unset],
             !.decision = choice, !.status = "resuming",
             !.resume_at = g, !.session = s]

\* Mutant: the merged state is marked closed at once.
MergeClosed(st, s, g, choice) ==
  [st EXCEPT !.decisions[g] = choice, !.decision = choice, !.status = "closed",
             !.resume_at = g, !.session = s]

\* merge_hitl_decision without its patch.
MergeDecision(st, s, g, choice) ==
  [st EXCEPT !.decisions[g] = choice, !.decision = choice, !.status = "resuming",
             !.resume_at = g, !.session = s]

\* apply_patch_to_state as routers see it: a patch into a target mapping changes
\* none of the fields they read.
PatchData(data, patch, target) ==
  [f \in Fields |-> IF target = Unset /\ f \in DOMAIN patch THEN patch[f] ELSE data[f]]

\* The label the router behind a node returns.  Routers are not wrapped: they are
\* evaluated on the current bag even behind a skipped node.
Label(n, st) == IF Kind[n] = "apply" THEN st.next ELSE st.data[RouteField[n]]

IsHitlWaiting(st) == st.status = "waiting_hitl"

\* Mutant: only a waiting run is kept out of the product history.
ShouldPersistUnlessWaiting(st) == ~IsHitlWaiting(st)

\* should_persist_after_hitl: hitl_outcome, or hitl_decision when there is none.
ShouldPersist(st) ==
  /\ ~IsHitlWaiting(st)
  /\ IF st.next = Unset THEN st.decision # "rejected" ELSE st.next # "rejected"
-----------------------------------------------------------------------------
(* Starting a call. *)

NoCall == [pc |-> "idle", kind |-> "invoke", agent |-> Unset, node |-> End,
           st |-> FreshBag(CHOOSE i \in Inputs : TRUE), gate |-> Unset,
           choice |-> Unset, found |-> Unset, before |-> {}, ran |-> {}]

Init ==
  /\ store = [s \in Sessions |-> Unset]
  /\ issued = {}
  /\ audit = {}
  /\ call = [c \in Calls |-> NoCall]
  /\ persisted = {}

\* MetadataAgent.invoke of a plain agent on caller input.
Invoke(c, a, i) ==
  /\ call[c].pc = "idle"
  /\ i.session # Unset => Admitted(i.session)
  /\ call' = [call EXCEPT ![c] = [NoCall EXCEPT !.pc = "run", !.agent = a,
                                                !.node = Start[a], !.st = FreshBag(i)]]
  /\ UNCHANGED <<store, issued, audit, persisted>>

\* resume_hitl_session gets past its checks.
Resumable(s, policy, choice, patch) ==
  Waiting(s) /\ ResumeAccepted(policy, choice, patch)

\* get_agent_definition finds the record's agent, or the global rules apply.
MayKnow(s, known) == store[s] # Unset /\ (known \/ store[s].agent \in Unloaded)
PolicyFor(r, known) == IF known THEN Policy[r.agent] ELSE NoPolicy

\* The part of resume_hitl_session before the audit row: one read of the store, the
\* checks and the merge.
Resume(c, s, choice, patch, known) ==
  /\ call[c].pc = "idle"
  /\ Admitted(s)
  /\ MayKnow(s, known)
  /\ LET r == store[s]
         policy == PolicyFor(r, known)
         st == MergeDecision(r.st, s, r.gate, choice)
         data == PatchData(st.data, ResumePatch(policy, choice, patch),
                           ResumeTarget(policy, choice))
     IN  /\ Resumable(s, policy, choice, patch)
         /\ call' = [call EXCEPT ![c] =
                      [pc |-> "audit_resume", kind |-> "resume",
                       agent |-> IF known THEN r.agent ELSE Unset, node |-> End,
                       st |-> [st EXCEPT !.data = data],
                       gate |-> r.gate, choice |-> choice, found |-> Unset,
                       before |-> r.done, ran |-> {}]]
  /\ UNCHANGED <<store, issued, audit, persisted>>

\* The HitlErrors of resume_hitl_session: unknown session, wrong status, decision
\* or patch refused by the policy.
ResumeRefused(c, s, choice, patch, known) ==
  /\ call[c].pc = "idle"
  /\ Admitted(s)
  /\ \/ store[s] = Unset
     \/ /\ MayKnow(s, known)
        /\ ~Resumable(s, PolicyFor(store[s], known), choice, patch)
  /\ call' = [call EXCEPT ![c].pc = "failed", ![c].kind = "resume"]
  /\ UNCHANGED <<store, issued, audit, persisted>>

\* Mutant: a failed append is swallowed.
AuditResumeBestEffort(c) ==
  /\ call[c].pc = "audit_resume"
  /\ call' = [call EXCEPT ![c].pc = "compile"]
  /\ UNCHANGED <<store, issued, audit, persisted>>

\* The hitl.resume row, before the agent runs.
AuditResume(c) ==
  /\ call[c].pc = "audit_resume"
  /\ audit' = audit \cup {[action |-> "hitl.resume", call |-> c,
                           session |-> call[c].st.session, gate |-> call[c].gate,
                           decision |-> call[c].choice]}
  /\ call' = [call EXCEPT ![c].pc = "compile"]
  /\ UNCHANGED <<store, issued, persisted>>

\* create_agent of the record's agent: raises when it is not registered.
CreateAgent(c) ==
  /\ call[c].pc = "compile"
  /\ \/ /\ call[c].agent # Unset
        /\ call' = [call EXCEPT ![c].pc = "run", ![c].node = Start[call[c].agent]]
     \/ /\ call[c].agent = Unset
        /\ call' = [call EXCEPT ![c].pc = "failed"]
  /\ UNCHANGED <<store, issued, audit, persisted>>
-----------------------------------------------------------------------------
(* The graph run. *)

\* Mutant: the status constants are mixed up, a resumed run is not closed.
AfterRunResumingOnly(c, st) ==
  CASE call[c].kind = "invoke" -> "done"
    [] call[c].kind = "resume" /\ st.status = "resuming" -> "close_read"
    [] OTHER -> "returned"

\* What follows a run that reached END.
AfterRun(c, st) ==
  CASE call[c].kind = "invoke" -> "done"
    [] call[c].kind = "resume" /\ ~IsHitlWaiting(st) -> "close_read"
    [] OTHER -> "returned"

\* The node of c returned and its update was merged into bag st: follow the edge.
Advance(c, st, ran) ==
  LET n == call[c].node
      m == Succ[n][Label(n, st)]
  IN  call' = [call EXCEPT ![c].st = st, ![c].ran = @ \cup ran, ![c].node = m,
                           ![c].pc = IF m = End THEN AfterRun(c, st) ELSE "run"]

AtNode(c, kind) ==
  /\ call[c].pc = "run"
  /\ Kind[call[c].node] = kind
  /\ ~Skipping(call[c].node, call[c].st)

SkipNode(c) ==
  /\ call[c].pc = "run"
  /\ Skipping(call[c].node, call[c].st)
  /\ Advance(c, call[c].st, {})
  /\ UNCHANGED <<store, issued, audit, persisted>>

\* A SQL, LLM or value node: any output.
WorkNode(c) ==
  /\ AtNode(c, "work")
  /\ LET n == call[c].node
         f == WriteField[n]
     IN  \/ /\ f = Unset
            /\ Advance(c, call[c].st, {YamlNode(n)})
         \/ /\ f # Unset
            /\ \E v \in Values :
                 Advance(c, [call[c].st EXCEPT !.data[f] = v], {YamlNode(n)})
  /\ UNCHANGED <<store, issued, audit, persisted>>

ApplyNode(c) ==
  /\ AtNode(c, "apply")
  /\ Advance(c, ApplyOutcome(call[c].node, call[c].st), {YamlNode(call[c].node)})
  /\ UNCHANGED <<store, issued, audit, persisted>>

\* hitl.gate is a no-op.
GateBypass(c) ==
  /\ AtNode(c, "gate")
  /\ Bypassed(call[c].node, call[c].st)
  /\ Advance(c, call[c].st, {})
  /\ UNCHANGED <<store, issued, audit, persisted>>

\* hitl.gate finds a decision: it clears hitl_resume_at and lets the run continue.
GateResume(c) ==
  LET n == call[c].node
      st == call[c].st
  IN  /\ AtNode(c, "gate")
      /\ ~Bypassed(n, st)
      /\ Decided(n, st)
      /\ Advance(c, [st EXCEPT !.status = "resumed", !.resume_at = Unset,
                               !.decision = st.decisions[GateId[n]]], {})
      /\ UNCHANGED <<store, issued, audit, persisted>>

\* hitl.gate pauses: the session upsert of persist_hitl_pause.  The record belongs
\* to the agent whose definition declares the gate.
GatePause(c) ==
  LET n == call[c].node
      st == call[c].st
  IN  /\ AtNode(c, "gate")
      /\ ~Bypassed(n, st)
      /\ ~Decided(n, st)
      /\ \E s \in IF st.session = Unset THEN Sessions \ issued ELSE {st.session} :
           LET snapshot == [st EXCEPT !.session = s, !.status = "waiting_hitl",
                                      !.resume_at = GateId[n]]
           IN  /\ store' = [store EXCEPT ![s] =
                     [agent |-> Owner[n], status |-> "waiting_hitl",
                      gate |-> GateId[n], st |-> snapshot,
                      done |-> call[c].before \cup call[c].ran]]
               /\ issued' = issued \cup {s}
               /\ call' = [call EXCEPT ![c].pc = "audit_pause", ![c].st = snapshot]
      /\ UNCHANGED <<audit, persisted>>

\* The hitl.pause row; HitlPaused then unwinds the graph and invoke returns the
\* snapshot, so a resumed run is not closed.
AuditPause(c) ==
  /\ call[c].pc = "audit_pause"
  /\ audit' = audit \cup {[action |-> "hitl.pause", call |-> c,
                           session |-> call[c].st.session,
                           gate |-> call[c].st.resume_at, decision |-> Unset]}
  /\ call' = [call EXCEPT ![c].pc = IF call[c].kind = "invoke" THEN "done" ELSE "returned"]
  /\ UNCHANGED <<store, issued, persisted>>
-----------------------------------------------------------------------------
(* close_hitl_session, the host, and failures. *)

CloseRead(c) ==
  LET r == store[call[c].st.session]
  IN  /\ call[c].pc = "close_read"
      /\ call' = [call EXCEPT ![c].found = r,
                              ![c].pc = IF r = Unset THEN "returned" ELSE "close_write"]
      /\ UNCHANGED <<store, issued, audit, persisted>>

\* Mutant: the status of the record is left as it was.
CloseWriteKeepsStatus(c) ==
  /\ call[c].pc = "close_write"
  /\ store' = [store EXCEPT ![call[c].st.session] = [call[c].found EXCEPT !.st = call[c].st]]
  /\ call' = [call EXCEPT ![c].pc = "close_audit", ![c].found = Unset]
  /\ UNCHANGED <<issued, audit, persisted>>

\* The whole record is written back: what was read, with the final bag.
CloseWrite(c) ==
  /\ call[c].pc = "close_write"
  /\ store' = [store EXCEPT ![call[c].st.session] =
                 [call[c].found EXCEPT !.status = "closed", !.st = call[c].st,
                                       !.done = call[c].before \cup call[c].ran]]
  /\ call' = [call EXCEPT ![c].pc = "close_audit", ![c].found = Unset]
  /\ UNCHANGED <<issued, audit, persisted>>

CloseAudit(c) ==
  /\ call[c].pc = "close_audit"
  /\ audit' = audit \cup {[action |-> "hitl.close", call |-> c,
                           session |-> call[c].st.session, gate |-> Unset,
                           decision |-> Unset]}
  /\ call' = [call EXCEPT ![c].pc = "returned"]
  /\ UNCHANGED <<store, issued, persisted>>

\* persist_after_hitl_if_needed, called by the host with what the resume returned;
\* a failing adapter is logged and leaves nothing behind.
HostPersist(c) ==
  /\ call[c].pc = "returned"
  /\ \/ /\ ShouldPersist(call[c].st)
        /\ persisted' = persisted \cup {c}
     \/ /\ c \in Failing \/ ~ShouldPersist(call[c].st)
        /\ UNCHANGED persisted
  /\ call' = [call EXCEPT ![c].pc = "done"]
  /\ UNCHANGED <<store, issued, audit>>

\* delete_session of the StateStore, called by the host.
DeleteSession(s) ==
  /\ MayDelete
  /\ store[s] # Unset
  /\ Admitted(s)
  /\ store' = [store EXCEPT ![s] = Unset]
  /\ UNCHANGED <<issued, audit, call, persisted>>

\* A node, the store or the process fails: the call ends where it is.
Abort(c) ==
  /\ c \in Failing
  /\ InFlight(c)
  /\ call' = [call EXCEPT ![c].pc = "failed"]
  /\ UNCHANGED <<store, issued, audit, persisted>>

\* Nothing is left to do.
AllReturned ==
  /\ \A c \in Calls : call[c].pc \in {"done", "failed"}
  /\ UNCHANGED vars

Step(c) ==
  \/ AuditResume(c) \/ CreateAgent(c)
  \/ SkipNode(c) \/ WorkNode(c) \/ ApplyNode(c)
  \/ GateBypass(c) \/ GateResume(c) \/ GatePause(c) \/ AuditPause(c)
  \/ CloseRead(c) \/ CloseWrite(c) \/ CloseAudit(c) \/ HostPersist(c)

Next ==
  \/ \E c \in Calls, a \in Agents, i \in Inputs : Invoke(c, a, i)
  \/ \E c \in Calls, s \in Sessions, d \in HitlDecisions, p \in Patches, known \in BOOLEAN :
       Resume(c, s, d, p, known) \/ ResumeRefused(c, s, d, p, known)
  \/ \E c \in Calls : Step(c) \/ Abort(c)
  \/ \E s \in Sessions : DeleteSession(s)
  \/ AllReturned

Spec == Init /\ [][Next]_vars

\* A call is a thread of its own: once started it takes its next step.
FairSpec == Spec /\ \A c \in Calls : WF_vars(Step(c))
-----------------------------------------------------------------------------
(* Invariants. *)

TypeOK ==
  /\ store \in [Sessions -> Record \cup {Unset}]
  /\ issued \subseteq Sessions
  /\ audit \subseteq Event
  /\ call \in [Calls -> Call]
  /\ persisted \subseteq Calls

\* Bag st may be beyond gate g: there is a decision under its id, or it is a no-op.
Cleared(g, st) ==
  st.decisions[GateId[g]] # Unset \/ st.skip \/ (~HitlOn[Owner[g]] /\ ~st.enabled)

\* c is about to run its node for real.
Executing(c) == call[c].pc = "run" /\ ~Skipping(call[c].node, call[c].st)

\* No node behind a gate runs unless the bag carries a decision for that gate (or the
\* gate is switched off): neither a resume that skips up to another node, nor a
\* snapshot that another call replaced, nor a failed attempt gets round a gate.
\* Code: skip_until_resume with hitl_gate_factory and resume_hitl_session.
GuardedRuns ==
  \A c \in Calls : Executing(c) =>
    \A g \in Gated[call[c].node] : Cleared(g, call[c].st)

\* Every decision a run acts on is in the audit trail before the run starts, with the
\* session and the gate it was taken for.  Code: resume_hitl_session appends the
\* hitl.resume row between the merge and agent.invoke.
Audited(st, k) ==
  \E e \in audit : /\ e.action = "hitl.resume" /\ e.session = st.session
                  /\ e.gate = k /\ e.decision = st.decisions[k]
AuditedDecisions ==
  \A c \in Calls : call[c].pc = "run" =>
    \A k \in Ids : call[c].st.decisions[k] # Unset => Audited(call[c].st, k)

\* A record that waits can be answered and continued: its snapshot is the session's
\* own, it resumes at the gate that paused, which has no decision yet.  Code:
\* persist_hitl_pause against close_hitl_session, whichever writes last.
WaitingIsUndecided ==
  \A s \in Sessions : Waiting(s) =>
    LET r == store[s] IN
      /\ r.st.session = s /\ r.st.status = "waiting_hitl"
      /\ r.st.resume_at = r.gate /\ r.st.decisions[r.gate] = Unset

\* A resumed run repeats nothing that ran before its snapshot was taken: "avoids
\* re-running SQL/LLM work before the gate" (hitl/decorator.py:6).
NoRework ==
  \A c \in Calls : call[c].ran \cap call[c].before = {}

\* A resume that runs to the end has been through the gate it answers: "Apply a human
\* decision and continue the paused agent" (hitl/sessions.py:211).
ResumeReachesGate ==
  \A c \in Calls :
    (call[c].kind = "resume" /\ call[c].pc \in {"close_read", "close_write", "close_audit"})
      => call[c].st.resume_at = Unset

\* What a reviewer rejected never becomes product history: "Waiting and rejected
\* outcomes should not create an official RecStore row" (hitl/policy.py:189).
RejectedNotPersisted ==
  \A c \in persisted : call[c].choice # "rejected"

\* A pause is answered once: the second resume of a session must be refused
\* (tests/test_hitl.py, test_hitl_resume_wrong_status).
OneDecisionPerPause ==
  \A e, f \in audit :
    (e.action = "hitl.resume" /\ f.action = "hitl.resume"
     /\ e.session = f.session /\ e.gate = f.gate) => e = f
-----------------------------------------------------------------------------
(* The session store implements HitlLifecycle when the host admits one call per
   session at a time.  Code: persist_hitl_pause, resume_hitl_session and
   close_hitl_session together. *)

SessionPhase ==
  [s \in Sessions |-> CASE Waiting(s) -> "waiting"
                       [] store[s] # Unset /\ ~Waiting(s) -> "closed"
                       [] store[s] = Unset /\ s \in issued -> "deleted"
                       [] store[s] = Unset /\ s \notin issued -> "none"]
SessionGate == [s \in Sessions |-> IF store[s] = Unset THEN Unset ELSE store[s].gate]
SessionDecisions ==
  [s \in Sessions |-> IF store[s] = Unset THEN [k \in Ids |-> Unset]
                      ELSE store[s].st.decisions]

Lifecycle == INSTANCE HitlLifecycle WITH
  Decisions <- HitlDecisions, phase <- SessionPhase, gate <- SessionGate,
  decided <- SessionDecisions

\* A session goes from one pause to the next and is closed once, each answer kept
\* under the gate it answers ("State: waiting_hitl -> closed", docs/DESIGN.md:33).
SessionLifecycle == Lifecycle!Spec
-----------------------------------------------------------------------------
(* Liveness. *)

\* An accepted decision takes effect: the session it was given for ends up closed, or
\* waiting at another gate, whatever happens to other calls.  Code: resume_hitl_session
\* to its end.  Needs FairSpec, one call per session and a registered agent.
DecisionTakesEffect ==
  \A c \in Calls \ Failing, s \in Sessions :
    (call[c].pc = "audit_resume" /\ call[c].st.session = s /\ call[c].agent # Unset) ~>
      (store[s] # Unset /\ (store[s].status = "closed" \/ store[s].gate # call[c].gate))
=============================================================================
